-------------------------- MODULE VirtioDiskProofs --------------------------
(* Proofs about the virtio disks: the chains of pci_virtio_block.c and of     *)
(* pci_virtio_scsi.c are each in one place, a returned chain is announced,    *)
(* and both devices implement the command service.                           *)
EXTENDS VirtioDisk, FiniteSetTheorems, TLAPS

In(s, x) == \E i \in 1..Len(s) : s[i] = x
NoDup(s) == \A i, j \in 1..Len(s) : s[i] = s[j] => i = j

(* What a ring holds after a chain is appended to it.                        *)
LEMMA AppendRing ==
    ASSUME NEW T, NEW s \in Seq(T), NEW c \in T
    PROVE  /\ Append(s, c) \in Seq(T)
           /\ Append(s, c) # <<>>
           /\ \A x : In(Append(s, c), x) <=> In(s, x) \/ x = c
           /\ NoDup(s) /\ ~In(s, c) => NoDup(Append(s, c))
<1> DEFINE t == Append(s, c)
<1>1. t \in Seq(T) /\ Len(t) = Len(s) + 1 /\ t[Len(s) + 1] = c /\ \A i \in 1..Len(s) : t[i] = s[i]
  OBVIOUS
<1>2. Len(s) \in Nat
  OBVIOUS
<1> HIDE DEF t
<1>3. \A x : In(t, x) <=> In(s, x) \/ x = c
  BY <1>1, <1>2 DEF In
<1>4. NoDup(s) /\ ~In(s, c) => NoDup(t)
  BY <1>1, <1>2 DEF In, NoDup
<1>5. t # <<>>
  BY <1>1, <1>2
<1> QED BY <1>1, <1>3, <1>4, <1>5 DEF t

(* What a ring holds after its first chain is taken.                         *)
LEMMA TailRing ==
    ASSUME NEW T, NEW s \in Seq(T), s # <<>>
    PROVE  /\ Tail(s) \in Seq(T) /\ Head(s) \in T /\ In(s, Head(s))
           /\ \A x : In(s, x) <=> In(Tail(s), x) \/ x = Head(s)
           /\ NoDup(s) => NoDup(Tail(s)) /\ ~In(Tail(s), Head(s))
<1> DEFINE t == Tail(s)
<1>1. /\ t \in Seq(T) /\ Head(s) \in T /\ Head(s) = s[1]
      /\ Len(s) = Len(t) + 1 /\ \A i \in 1..Len(t) : t[i] = s[i + 1]
  OBVIOUS
<1>2. Len(t) \in Nat
  OBVIOUS
<1>3. 1 \in 1..Len(s)
  BY <1>1, <1>2
<1> HIDE DEF t
<1>4. In(s, Head(s))
  BY <1>1, <1>3 DEF In
<1>5. ASSUME NEW x PROVE In(s, x) <=> In(t, x) \/ x = Head(s)
  <2>1. ASSUME In(t, x) PROVE In(s, x)
    <3>1. PICK i \in 1..Len(t) : t[i] = x BY <2>1 DEF In
    <3>2. i + 1 \in 1..Len(s) /\ s[i + 1] = x BY <3>1, <1>1, <1>2
    <3> QED BY <3>2 DEF In
  <2>2. ASSUME In(s, x), x # Head(s) PROVE In(t, x)
    <3>1. PICK i \in 1..Len(s) : s[i] = x BY <2>2 DEF In
    <3>2. i # 1 BY <3>1, <2>2, <1>1
    <3>3. i - 1 \in 1..Len(t) /\ t[i - 1] = s[(i - 1) + 1] BY <3>2, <1>1, <1>2
    <3>4. (i - 1) + 1 = i BY <1>2, <1>1
    <3> QED BY <3>1, <3>3, <3>4 DEF In
  <2> QED BY <2>1, <2>2, <1>4
<1>6. ASSUME NoDup(s) PROVE NoDup(t) /\ ~In(t, Head(s))
  <2>1. ASSUME NEW i \in 1..Len(t), NEW j \in 1..Len(t), t[i] = t[j] PROVE i = j
    <3>1. i + 1 \in 1..Len(s) /\ j + 1 \in 1..Len(s) /\ s[i + 1] = s[j + 1] BY <2>1, <1>1, <1>2
    <3>2. i + 1 = j + 1 BY <3>1, <1>6 DEF NoDup
    <3> QED BY <3>2, <1>2
  <2>2. ASSUME NEW i \in 1..Len(t), t[i] = Head(s) PROVE FALSE
    <3>1. i + 1 \in 1..Len(s) /\ s[i + 1] = s[1] BY <2>2, <1>1, <1>2
    <3>2. i + 1 = 1 BY <3>1, <1>3, <1>6 DEF NoDup
    <3> QED BY <3>2, <1>2
  <2> QED BY <2>1, <2>2 DEF NoDup, In
<1> QED BY <1>1, <1>4, <1>5, <1>6 DEF t

(* An entry of a ring without repetitions is in it once, anything else never. *)
LEMMA CountInRing ==
    ASSUME NEW T, NEW s \in Seq(T), NoDup(s), NEW c
    PROVE  Cardinality({i \in 1..Len(s) : s[i] = c}) = IF In(s, c) THEN 1 ELSE 0
<1> DEFINE K == {i \in 1..Len(s) : s[i] = c}
<1>1. CASE In(s, c)
  <2>1. PICK i \in 1..Len(s) : s[i] = c BY <1>1 DEF In
  <2>2. K = {i} BY <2>1 DEF NoDup
  <2>3. Cardinality({i}) = 1 BY FS_Singleton
  <2> QED BY <2>2, <2>3, <1>1
<1>2. CASE ~In(s, c)
  <2>1. K = {} BY <1>2 DEF In
  <2> QED BY <2>1, <1>2, FS_EmptySet
<1> QED BY <1>1, <1>2

-----------------------------------------------------------------------------
(* pci_virtio_block.c                                                       *)

BlkSpec == BlkInit /\ [][BlkNext]_blkVars

Locks == {Free, "notify", "end_notify", "end_done"}

BlkTypes ==
    /\ blk = [type |-> blk.type, avail |-> blk.avail, kick |-> blk.kick, lock |-> blk.lock, req |-> blk.req,
              fail |-> blk.fail, used |-> blk.used, save |-> blk.save, noIntr |-> blk.noIntr, intr |-> blk.intr,
              isr |-> blk.isr]
    /\ blk.type \in [Tags -> Types \cup {Free}] /\ blk.req \in [Tags -> {Free, "queued", "busy"}]
    /\ blk.fail \in [Tags -> BOOLEAN] /\ blk.avail \in Seq(Tags) /\ blk.used \in Seq(Tags)
    /\ blk.lock \in Locks /\ blk.isr \in {"out", "collect", "check"}

\* A chain is in one place, and only what the backend carries out is there.
BlkPlaces ==
    /\ NoDup(blk.avail) /\ NoDup(blk.used)
    /\ \A c \in Tags :
        /\ In(blk.avail, c) => blk.type[c] # Free /\ blk.req[c] = Free /\ ~In(blk.used, c)
        /\ In(blk.used, c) => blk.type[c] # Free /\ blk.req[c] = Free
        /\ blk.req[c] # Free => blk.type[c] \in BlockifOps
        /\ blk.type[c] # Free => In(blk.avail, c) \/ In(blk.used, c) \/ blk.req[c] # Free
        /\ ~In(blk.used, c) => ~blk.fail[c]

\* Until vq_endchains() has run the save of the used index is behind; interrupts
\* are suppressed by the handler that is collecting and by nobody else.
BlkSignals ==
    /\ blk.lock \in {"end_notify", "end_done"} => ~blk.save
    /\ blk.noIntr => blk.isr = "collect"
    /\ blk.used # <<>> => blk.intr \/ blk.lock \in {"end_notify", "end_done"} \/ blk.isr # "out"

BlkInv == BlkTypes /\ BlkPlaces /\ BlkSignals

LEMMA BlkInitInv == BlkInit => BlkInv
<1> SUFFICES ASSUME BlkInit PROVE BlkInv OBVIOUS
<1>1. BlkTypes BY DEF BlkInit, BlkTypes, Locks, Free
<1>2. BlkPlaces BY DEF BlkInit, BlkPlaces, NoDup, In, Free
<1>3. BlkSignals BY DEF BlkInit, BlkSignals, Free
<1> QED BY <1>1, <1>2, <1>3 DEF BlkInv

LEMMA BlkPostStep ==
    ASSUME BlkInv, NEW c \in Tags, NEW t \in Types, BlkPost(c, t)
    PROVE  BlkInv'
<1> USE DEF BlkInv
<1>1. /\ blk.type[c] = Free /\ blk'.type = [blk.type EXCEPT ![c] = t] /\ blk'.avail = Append(blk.avail, c)
      /\ blk'.lock = blk.lock /\ blk'.req = blk.req /\ blk'.fail = blk.fail /\ blk'.used = blk.used
      /\ blk'.save = blk.save /\ blk'.noIntr = blk.noIntr /\ blk'.intr = blk.intr /\ blk'.isr = blk.isr
  BY DEF BlkPost, BlkTypes
<1>2. /\ t # Free /\ blk.type \in [Tags -> Types \cup {Free}] /\ blk.avail \in Seq(Tags)
      /\ blk'.type \in [Tags -> Types \cup {Free}] /\ blk'.type[c] = t
      /\ \A x \in Tags : x # c => blk'.type[x] = blk.type[x]
  BY <1>1 DEF BlkTypes, Types, Free
<1>3. /\ blk'.avail \in Seq(Tags)
      /\ \A x : In(blk'.avail, x) <=> In(blk.avail, x) \/ x = c
      /\ NoDup(blk.avail) /\ ~In(blk.avail, c) => NoDup(blk'.avail)
  BY <1>1, <1>2, AppendRing
<1>4. BlkTypes'
  BY <1>1, <1>2, <1>3 DEF BlkTypes, BlkPost
<1>5. ~In(blk.avail, c) /\ ~In(blk.used, c) /\ blk.req[c] = Free
  BY <1>1 DEF BlkPlaces, BlockifOps, Free
<1>6. BlkPlaces'
  BY <1>1, <1>2, <1>3, <1>5 DEF BlkPlaces
<1>7. BlkSignals'
  BY <1>1 DEF BlkSignals
<1> QED BY <1>4, <1>6, <1>7

\* The handler's own steps and the begin of a notification move no chain.
LEMMA BlkQuietStep ==
    ASSUME BlkInv, IsrEnter \/ EnableIntr \/ CheckAgain \/ BlkNotifyBegin \/ BlkNotifyEnd \/ BlkEndChains
    PROVE  /\ BlkInv' /\ blk'.type = blk.type /\ blk'.req = blk.req /\ blk'.fail = blk.fail /\ blk'.used = blk.used
<1> USE DEF BlkInv
<1>1. /\ blk'.type = blk.type /\ blk'.req = blk.req /\ blk'.fail = blk.fail /\ blk'.used = blk.used
      /\ blk'.avail = blk.avail
  BY DEF IsrEnter, EnableIntr, CheckAgain, BlkNotifyBegin, BlkNotifyEnd, BlkEndChains, BlkTypes
<1>2. BlkPlaces' BY <1>1 DEF BlkPlaces
<1>3. CASE IsrEnter
  <2>1. /\ blk'.isr = "collect" /\ blk'.lock = blk.lock /\ blk'.save = blk.save /\ BlkTypes'
    BY <1>1, <1>3 DEF IsrEnter, BlkTypes
  <2>2. BlkSignals' BY <2>1 DEF BlkSignals
  <2> QED BY <1>1, <1>2, <2>1, <2>2
<1>4. CASE EnableIntr
  <2>1. /\ blk'.isr = "check" /\ blk'.lock = blk.lock /\ blk'.save = blk.save /\ blk'.noIntr = FALSE /\ BlkTypes'
    BY <1>1, <1>4 DEF EnableIntr, BlkTypes
  <2>2. BlkSignals' BY <2>1 DEF BlkSignals
  <2> QED BY <1>1, <1>2, <2>1, <2>2
<1>5. CASE CheckAgain
  <2>1. CASE blk.used = <<>>
    <3>1. /\ blk'.isr = "out" /\ blk.isr = "check" /\ blk'.lock = blk.lock /\ blk'.save = blk.save
          /\ blk'.noIntr = blk.noIntr /\ BlkTypes'
      BY <1>1, <1>5, <2>1 DEF CheckAgain, BlkTypes
    <3>2. BlkSignals' BY <1>1, <2>1, <3>1 DEF BlkSignals
    <3> QED BY <1>1, <1>2, <3>1, <3>2
  <2>2. CASE blk.used # <<>>
    <3>1. /\ blk'.isr = "collect" /\ blk'.lock = blk.lock /\ blk'.save = blk.save /\ BlkTypes'
      BY <1>1, <1>5, <2>2 DEF CheckAgain, BlkTypes
    <3>2. BlkSignals' BY <3>1 DEF BlkSignals
    <3> QED BY <1>1, <1>2, <3>1, <3>2
  <2> QED BY <2>1, <2>2
<1>6. CASE BlkNotifyBegin \/ BlkNotifyEnd
  <2>1. /\ blk'.isr = blk.isr /\ blk'.lock \in {"notify", Free} /\ blk.lock \in {"notify", Free}
        /\ blk'.noIntr = blk.noIntr /\ blk'.intr = blk.intr /\ BlkTypes'
    BY <1>1, <1>6 DEF BlkNotifyBegin, BlkNotifyEnd, BlkTypes, Locks
  <2>2. BlkSignals' BY <1>1, <2>1 DEF BlkSignals, Free
  <2> QED BY <1>1, <1>2, <2>1, <2>2
<1>7. CASE BlkEndChains
  <2>1. /\ blk'.isr = blk.isr /\ blk'.lock \in {"notify", Free} /\ blk.lock \in {"end_notify", "end_done"}
        /\ blk'.noIntr = blk.noIntr /\ blk'.intr = (blk.intr \/ (~blk.save /\ ~blk.noIntr)) /\ BlkTypes'
    BY <1>1, <1>7 DEF BlkEndChains, BlkTypes, Locks
  <2>2. BlkSignals' BY <1>1, <2>1 DEF BlkSignals, Free
  <2> QED BY <1>1, <1>2, <2>1, <2>2
<1> QED BY <1>3, <1>4, <1>5, <1>6, <1>7

\* The handler takes the chain at the head of the used ring.
LEMMA BlkCollectStep ==
    ASSUME BlkInv, Collect
    PROVE  /\ BlkInv' /\ Head(blk.used) \in Tags /\ In(blk.used, Head(blk.used))
           /\ \A x : In(blk.used, x) <=> In(blk'.used, x) \/ x = Head(blk.used)
           /\ ~In(blk'.used, Head(blk.used))
           /\ blk'.type = [blk.type EXCEPT ![Head(blk.used)] = Free]
           /\ blk'.fail = [blk.fail EXCEPT ![Head(blk.used)] = FALSE] /\ blk'.req = blk.req
<1> USE DEF BlkInv
<1> DEFINE c == Head(blk.used)
<1>1. /\ blk.isr = "collect" /\ blk.used # <<>> /\ blk'.used = Tail(blk.used)
      /\ blk'.type = [blk.type EXCEPT ![c] = Free] /\ blk'.fail = [blk.fail EXCEPT ![c] = FALSE]
      /\ blk'.req = blk.req /\ blk'.avail = blk.avail /\ blk'.lock = blk.lock /\ blk'.save = blk.save
      /\ blk'.noIntr = blk.noIntr /\ blk'.isr = blk.isr
  BY DEF Collect, BlkTypes
<1>2. blk.used \in Seq(Tags) /\ NoDup(blk.used)
  BY DEF BlkTypes, BlkPlaces
<1>3. /\ blk'.used \in Seq(Tags) /\ c \in Tags /\ In(blk.used, c)
      /\ \A x : In(blk.used, x) <=> In(blk'.used, x) \/ x = c
      /\ NoDup(blk'.used) /\ ~In(blk'.used, c)
  BY <1>1, <1>2, TailRing
<1> HIDE DEF c
<1>4. BlkTypes'
  <2>1. blk'.type \in [Tags -> Types \cup {Free}] /\ blk'.fail \in [Tags -> BOOLEAN]
    BY <1>1, <1>3 DEF BlkTypes
  <2> QED BY <1>1, <1>3, <2>1 DEF BlkTypes, Collect
<1>5. /\ blk'.type[c] = Free /\ ~blk'.fail[c]
      /\ \A x \in Tags : x # c => blk'.type[x] = blk.type[x] /\ blk'.fail[x] = blk.fail[x]
  BY <1>1, <1>3 DEF BlkTypes
<1>6. blk.req[c] = Free /\ ~In(blk.avail, c)
  BY <1>3 DEF BlkPlaces
<1>7. BlkPlaces'
  BY <1>1, <1>3, <1>5, <1>6 DEF BlkPlaces
<1>8. BlkSignals'
  BY <1>1 DEF BlkSignals
<1> QED BY <1>1, <1>3, <1>4, <1>7, <1>8 DEF c

\* pci_vtblk_done_locked() on a chain that is at the backend or just taken from
\* the available ring.
LEMMA BlkReturn ==
    ASSUME BlkInv, NEW c \in Tags, NEW err \in BOOLEAN, NEW l \in {"end_notify", "end_done"},
           blk'.type = blk.type, blk'.req = [blk.req EXCEPT ![c] = Free], blk'.fail = [blk.fail EXCEPT ![c] = err],
           blk'.used = Append(blk.used, c), blk'.save = FALSE, blk'.lock = l,
           blk'.noIntr = blk.noIntr, blk'.isr = blk.isr, blk'.avail \in Seq(Tags), NoDup(blk'.avail),
           \A x : In(blk'.avail, x) <=> In(blk.avail, x) /\ x # c,
           blk.type[c] # Free, ~In(blk.used, c),
           blk' = [type |-> blk'.type, avail |-> blk'.avail, kick |-> blk'.kick, lock |-> blk'.lock, req |-> blk'.req,
                   fail |-> blk'.fail, used |-> blk'.used, save |-> blk'.save, noIntr |-> blk'.noIntr, intr |-> blk'.intr,
                   isr |-> blk'.isr]
    PROVE  /\ BlkInv' /\ \A x : In(blk'.used, x) <=> In(blk.used, x) \/ x = c
<1> USE DEF BlkInv
<1>1. blk.used \in Seq(Tags) /\ NoDup(blk.used)
  BY DEF BlkTypes, BlkPlaces
<1>2. /\ blk'.used \in Seq(Tags) /\ NoDup(blk'.used)
      /\ \A x : In(blk'.used, x) <=> In(blk.used, x) \/ x = c
  BY <1>1, AppendRing
<1>3. BlkTypes'
  <2>1. blk'.req \in [Tags -> {Free, "queued", "busy"}] /\ blk'.fail \in [Tags -> BOOLEAN] BY DEF BlkTypes
  <2> QED BY <1>2, <2>1 DEF BlkTypes, Locks
<1>4. /\ blk'.req[c] = Free
      /\ \A x \in Tags : x # c => blk'.req[x] = blk.req[x] /\ blk'.fail[x] = blk.fail[x]
  BY DEF BlkTypes
<1>5. BlkPlaces'
  BY <1>2, <1>4 DEF BlkPlaces
<1>6. BlkSignals'
  BY DEF BlkSignals
<1> QED BY <1>2, <1>3, <1>5, <1>6

\* pci_vtblk_proc(): a chain for the backend is queued, any other is returned.
LEMMA BlkProcStep ==
    ASSUME BlkInv, Proc
    PROVE  /\ BlkInv' /\ Head(blk.avail) \in Tags /\ blk'.type = blk.type
           /\ blk.type[Head(blk.avail)] # Free /\ blk.req[Head(blk.avail)] = Free /\ ~In(blk.used, Head(blk.avail))
           /\ \/ /\ blk.type[Head(blk.avail)] \in BlockifOps /\ blk'.req = [blk.req EXCEPT ![Head(blk.avail)] = "queued"]
                 /\ blk'.used = blk.used /\ blk'.fail = blk.fail
              \/ /\ blk.type[Head(blk.avail)] \notin BlockifOps /\ blk'.req = [blk.req EXCEPT ![Head(blk.avail)] = Free]
                 /\ \A x : In(blk'.used, x) <=> In(blk.used, x) \/ x = Head(blk.avail)
                 /\ \E err \in BOOLEAN : blk'.fail = [blk.fail EXCEPT ![Head(blk.avail)] = err]
<1> USE DEF BlkInv
<1> DEFINE c == Head(blk.avail)
<1>1. blk.avail # <<>> /\ blk.lock = "notify" /\ blk.avail \in Seq(Tags) /\ NoDup(blk.avail)
  BY DEF Proc, BlkTypes, BlkPlaces
<1>2. /\ Tail(blk.avail) \in Seq(Tags) /\ c \in Tags /\ In(blk.avail, c)
      /\ \A x : In(blk.avail, x) <=> In(Tail(blk.avail), x) \/ x = c
      /\ NoDup(Tail(blk.avail)) /\ ~In(Tail(blk.avail), c)
  BY <1>1, TailRing
<1>3. blk.type[c] # Free /\ blk.req[c] = Free /\ ~In(blk.used, c)
  BY <1>2 DEF BlkPlaces
<1>4. CASE blk.type[c] \in BlockifOps
  <2>1. /\ blk'.avail = Tail(blk.avail) /\ blk'.req = [blk.req EXCEPT ![c] = "queued"] /\ blk'.type = blk.type
        /\ blk'.fail = blk.fail /\ blk'.used = blk.used /\ blk'.lock = blk.lock /\ blk'.save = blk.save
        /\ blk'.noIntr = blk.noIntr /\ blk'.intr = blk.intr /\ blk'.isr = blk.isr
    BY <1>4 DEF Proc, BlkTypes
  <2>2. BlkTypes'
    <3>1. blk'.req \in [Tags -> {Free, "queued", "busy"}] BY <2>1 DEF BlkTypes
    <3> QED BY <1>2, <1>4, <2>1, <3>1 DEF BlkTypes, Proc
  <2>3. blk'.req[c] = "queued" /\ \A x \in Tags : x # c => blk'.req[x] = blk.req[x]
    BY <1>2, <2>1 DEF BlkTypes
  <2> HIDE DEF c
  <2>4. BlkPlaces' BY <1>2, <1>3, <1>4, <2>1, <2>3 DEF BlkPlaces, Free
  <2>5. BlkSignals' BY <2>1 DEF BlkSignals
  <2> QED BY <1>2, <1>3, <1>4, <2>1, <2>2, <2>4, <2>5 DEF c
<1>5. CASE blk.type[c] \notin BlockifOps
  <2> DEFINE err == blk.type[c] # "ident"
  <2>1. /\ blk'.avail = Tail(blk.avail) /\ blk'.req = [blk.req EXCEPT ![c] = Free] /\ blk'.type = blk.type
        /\ blk'.fail = [blk.fail EXCEPT ![c] = err] /\ blk'.used = Append(blk.used, c) /\ blk'.lock = "end_notify"
        /\ blk'.save = FALSE /\ blk'.noIntr = blk.noIntr /\ blk'.isr = blk.isr
        /\ blk' = [type |-> blk'.type, avail |-> blk'.avail, kick |-> blk'.kick, lock |-> blk'.lock, req |-> blk'.req,
                   fail |-> blk'.fail, used |-> blk'.used, save |-> blk'.save, noIntr |-> blk'.noIntr, intr |-> blk'.intr,
                   isr |-> blk'.isr]
    BY <1>5 DEF Proc, DoneLocked, BlkTypes
  <2>2. err \in BOOLEAN OBVIOUS
  <2> HIDE DEF c, err
  <2>3. \A x : In(blk'.avail, x) <=> In(blk.avail, x) /\ x # c
    BY <1>2, <2>1
  <2>4. /\ BlkInv' /\ \A x : In(blk'.used, x) <=> In(blk.used, x) \/ x = c
    BY <1>2, <1>3, <2>1, <2>2, <2>3, BlkReturn
  <2> QED BY <1>2, <1>3, <1>5, <2>1, <2>2, <2>4 DEF c
<1> QED BY <1>4, <1>5

LEMMA BlkStartStep ==
    ASSUME BlkInv, NEW c \in Tags, BackendStarts(c)
    PROVE  /\ BlkInv' /\ blk.req[c] = "queued" /\ blk'.req = [blk.req EXCEPT ![c] = "busy"]
           /\ blk'.type = blk.type /\ blk'.fail = blk.fail /\ blk'.used = blk.used
<1> USE DEF BlkInv
<1>1. /\ blk.req[c] = "queued" /\ blk'.req = [blk.req EXCEPT ![c] = "busy"] /\ blk'.type = blk.type
      /\ blk'.fail = blk.fail /\ blk'.used = blk.used /\ blk'.avail = blk.avail /\ blk'.lock = blk.lock
      /\ blk'.save = blk.save /\ blk'.noIntr = blk.noIntr /\ blk'.intr = blk.intr /\ blk'.isr = blk.isr
  BY DEF BackendStarts, BlkTypes
<1>2. blk'.req \in [Tags -> {Free, "queued", "busy"}] /\ \A x \in Tags : blk'.req[x] = Free <=> blk.req[x] = Free
  BY <1>1 DEF BlkTypes, Free
<1>3. BlkTypes' BY <1>1, <1>2 DEF BlkTypes, BackendStarts
<1>4. BlkPlaces' BY <1>1, <1>2 DEF BlkPlaces
<1>5. BlkSignals' BY <1>1 DEF BlkSignals
<1> QED BY <1>1, <1>3, <1>4, <1>5

LEMMA BlkDoneStep ==
    ASSUME BlkInv, NEW c \in Tags, Done(c)
    PROVE  /\ BlkInv' /\ blk.req[c] = "busy" /\ ~In(blk.used, c) /\ blk.type[c] \in BlockifOps
           /\ blk'.req = [blk.req EXCEPT ![c] = Free] /\ blk'.type = blk.type
           /\ \A x : In(blk'.used, x) <=> In(blk.used, x) \/ x = c
           /\ \E err \in BOOLEAN : blk'.fail = [blk.fail EXCEPT ![c] = err]
<1> USE DEF BlkInv
<1>1. PICK err \in BOOLEAN : blk' = [DoneLocked(blk, c, err) EXCEPT !.lock = "end_done"]
  BY DEF Done
<1>2. /\ blk'.avail = blk.avail /\ blk'.req = [blk.req EXCEPT ![c] = Free] /\ blk'.type = blk.type
      /\ blk'.fail = [blk.fail EXCEPT ![c] = err] /\ blk'.used = Append(blk.used, c) /\ blk'.lock = "end_done"
      /\ blk'.save = FALSE /\ blk'.noIntr = blk.noIntr /\ blk'.isr = blk.isr
      /\ blk' = [type |-> blk'.type, avail |-> blk'.avail, kick |-> blk'.kick, lock |-> blk'.lock, req |-> blk'.req,
                 fail |-> blk'.fail, used |-> blk'.used, save |-> blk'.save, noIntr |-> blk'.noIntr, intr |-> blk'.intr,
                 isr |-> blk'.isr]
  BY <1>1 DEF DoneLocked, BlkTypes
<1>3. blk.req[c] = "busy" BY DEF Done
<1>4. blk.type[c] # Free /\ blk.type[c] \in BlockifOps /\ ~In(blk.used, c) /\ ~In(blk.avail, c)
  BY <1>3 DEF BlkPlaces, Free, BlockifOps
<1>5. \A x : In(blk'.avail, x) <=> In(blk.avail, x) /\ x # c
  BY <1>2, <1>4
<1>6. blk'.avail \in Seq(Tags) /\ NoDup(blk'.avail)
  BY <1>2 DEF BlkTypes, BlkPlaces
<1>7. /\ BlkInv' /\ \A x : In(blk'.used, x) <=> In(blk.used, x) \/ x = c
  BY <1>2, <1>4, <1>5, <1>6, BlkReturn
<1> QED BY <1>2, <1>3, <1>4, <1>7

-----------------------------------------------------------------------------
(* The block device implements the command service                          *)

BC == INSTANCE CommandService WITH MaxWork <- 1, status <- BlkStatus, work <- BlkWork,
          moving <- BlkMoving, running <- TRUE

\* A chain whose type, request, status byte and place stay is kept.
LEMMA BlkKeep ==
    ASSUME NEW x \in Tags, blk'.type[x] = blk.type[x], blk'.fail[x] = blk.fail[x], blk'.req[x] = blk.req[x],
           In(blk'.used, x) <=> In(blk.used, x)
    PROVE  BC!Keep(x)
  BY DEF BC!Keep, BC!Becomes, BlkStatus, BlkWork, BlkMoving, BlkBusy, BlkReturned, In

\* How a chain looks to the service.
LEMMA BlkView ==
    ASSUME NEW x \in Tags
    PROVE  /\ BlkStatus[x] = IF blk.type[x] = Free \/ (In(blk.used, x) /\ ~blk.fail[x]) THEN "free"
                             ELSE IF In(blk.used, x) THEN "failed" ELSE "issued"
           /\ BlkWork[x] = IF BlkStatus[x] = "issued" /\ blk.type[x] \in BlockifOps THEN 1 ELSE 0
           /\ x \in BlkMoving <=> blk.req[x] = "busy"
  BY DEF BlkStatus, BlkWork, BlkMoving, BlkBusy, BlkReturned, In

LEMMA BlkViewNext ==
    ASSUME NEW x \in Tags
    PROVE  /\ BlkStatus'[x] = IF blk'.type[x] = Free \/ (In(blk'.used, x) /\ ~blk'.fail[x]) THEN "free"
                              ELSE IF In(blk'.used, x) THEN "failed" ELSE "issued"
           /\ BlkWork'[x] = IF BlkStatus'[x] = "issued" /\ blk'.type[x] \in BlockifOps THEN 1 ELSE 0
           /\ x \in BlkMoving' <=> blk'.req[x] = "busy"
  BY DEF BlkStatus, BlkWork, BlkMoving, BlkBusy, BlkReturned, In

LEMMA BlkStep == BlkInv /\ [BlkNext]_blkVars => BlkInv'
<1> SUFFICES ASSUME BlkInv, [BlkNext]_blkVars PROVE BlkInv' OBVIOUS
<1>1. CASE UNCHANGED blkVars
  <2>1. blk' = blk BY <1>1 DEF blkVars
  <2> QED BY <2>1 DEF BlkInv, BlkTypes, BlkPlaces, BlkSignals
<1>2. ASSUME NEW c \in Tags, NEW t \in Types, BlkPost(c, t) PROVE BlkInv' BY <1>2, BlkPostStep
<1>3. CASE IsrEnter \/ EnableIntr \/ CheckAgain \/ BlkNotifyBegin \/ BlkNotifyEnd \/ BlkEndChains BY <1>3, BlkQuietStep
<1>4. CASE Collect BY <1>4, BlkCollectStep
<1>5. CASE Proc BY <1>5, BlkProcStep
<1>6. ASSUME NEW c \in Tags, BackendStarts(c) PROVE BlkInv' BY <1>6, BlkStartStep
<1>7. ASSUME NEW c \in Tags, Done(c) PROVE BlkInv' BY <1>7, BlkDoneStep
<1> QED BY <1>1, <1>2, <1>3, <1>4, <1>5, <1>6, <1>7 DEF BlkNext, BlkDriver, Device

\* A post is a submission, the start at the backend a begin, a return the end or
\* the failure of the command, and the driver collects what failed.
LEMMA BlkSimulation ==
    ASSUME BlkInv, BlkNext
    PROVE  BC!Next
<1> USE DEF BlkInv
<1>0. SUFFICES ASSUME NEW y \in Tags
      PROVE BC!Keep(y) \/ BC!Submit(y) \/ BC!Begin(y) \/ BC!Done(y) \/ BC!Fail(y) \/ BC!Collect(y)
  BY DEF BC!Next
<1>1. ASSUME NEW c \in Tags, NEW t \in Types, BlkPost(c, t) PROVE BC!Keep(y) \/ BC!Submit(y)
  <2>1. /\ blk.type[c] = Free /\ blk'.type = [blk.type EXCEPT ![c] = t] /\ blk'.req = blk.req /\ blk'.fail = blk.fail
        /\ blk'.used = blk.used /\ t # Free
    BY <1>1 DEF BlkPost, BlkTypes, Types, Free
  <2>2. CASE y # c
    <3>1. blk'.type[y] = blk.type[y] BY <2>1, <2>2 DEF BlkTypes
    <3> QED BY <2>1, <3>1, BlkKeep
  <2>3. CASE y = c
    <3>1. blk'.type[y] = t BY <2>1, <2>3 DEF BlkTypes
    <3>2. blk.req[y] = Free /\ ~In(blk.used, y) BY <2>1, <2>3 DEF BlkPlaces, BlockifOps, Free
    <3>3. BlkStatus[y] = "free" /\ BlkStatus'[y] = "issued" /\ BlkWork'[y] \in 0..1 /\ y \notin BlkMoving'
      BY <2>1, <2>3, <3>1, <3>2, BlkView, BlkViewNext DEF Free
    <3> QED BY <3>3 DEF BC!Submit, BC!Becomes
  <2> QED BY <2>2, <2>3
<1>2. CASE IsrEnter \/ EnableIntr \/ CheckAgain \/ BlkNotifyBegin \/ BlkNotifyEnd \/ BlkEndChains
  BY <1>2, BlkQuietStep, BlkKeep
<1>3. CASE Collect
  <2> DEFINE c == Head(blk.used)
  <2>1. /\ c \in Tags /\ In(blk.used, c) /\ \A x : In(blk.used, x) <=> In(blk'.used, x) \/ x = c
        /\ ~In(blk'.used, c) /\ blk'.type = [blk.type EXCEPT ![c] = Free]
        /\ blk'.fail = [blk.fail EXCEPT ![c] = FALSE] /\ blk'.req = blk.req
    BY <1>3, BlkCollectStep
  <2> HIDE DEF c
  <2>2. CASE y # c
    <3>1. blk'.type[y] = blk.type[y] /\ blk'.fail[y] = blk.fail[y] BY <2>1, <2>2 DEF BlkTypes
    <3> QED BY <2>1, <2>2, <3>1, BlkKeep
  <2>3. CASE y = c
    <3>1. blk'.type[y] = Free /\ blk.req[y] = Free /\ blk.type[y] # Free
      BY <2>1, <2>3 DEF BlkTypes, BlkPlaces
    <3>2. BlkStatus'[y] = "free" /\ BlkWork'[y] = 0 /\ y \notin BlkMoving' /\ y \notin BlkMoving
      BY <2>1, <3>1, BlkView, BlkViewNext DEF Free
    <3>3. BlkStatus[y] \in {"free", "failed"} /\ BlkWork[y] = 0
      BY <2>1, <2>3, BlkView
    <3> QED BY <3>2, <3>3 DEF BC!Collect, BC!Keep, BC!Becomes
  <2> QED BY <2>2, <2>3
<1>4. CASE Proc
  <2> DEFINE c == Head(blk.avail)
  <2>1. /\ c \in Tags /\ blk'.type = blk.type /\ blk.type[c] # Free /\ blk.req[c] = Free /\ ~In(blk.used, c)
        /\ \/ /\ blk.type[c] \in BlockifOps /\ blk'.req = [blk.req EXCEPT ![c] = "queued"]
              /\ blk'.used = blk.used /\ blk'.fail = blk.fail
           \/ /\ blk.type[c] \notin BlockifOps /\ blk'.req = [blk.req EXCEPT ![c] = Free]
              /\ \A x : In(blk'.used, x) <=> In(blk.used, x) \/ x = c
              /\ \E err \in BOOLEAN : blk'.fail = [blk.fail EXCEPT ![c] = err]
    BY <1>4, BlkProcStep
  <2> HIDE DEF c
  <2>2. CASE y # c
    <3>1. blk'.req[y] = blk.req[y] /\ blk'.fail[y] = blk.fail[y] BY <2>1, <2>2 DEF BlkTypes
    <3> QED BY <2>1, <2>2, <3>1, BlkKeep
  <2>3. CASE y = c /\ blk.type[c] \in BlockifOps
    <3>1. blk'.req[y] = "queued" BY <2>1, <2>3 DEF BlkTypes
    <3>2. BlkStatus'[y] = BlkStatus[y] /\ BlkWork'[y] = BlkWork[y] /\ (y \in BlkMoving' <=> y \in BlkMoving)
      BY <2>1, <2>3, <3>1, BlkView, BlkViewNext DEF Free
    <3> QED BY <3>2 DEF BC!Keep, BC!Becomes
  <2>4. CASE y = c /\ blk.type[c] \notin BlockifOps
    <3>1. blk'.req[y] = Free BY <2>1, <2>4 DEF BlkTypes
    <3>2. /\ BlkStatus[y] = "issued" /\ BlkWork[y] = 0 /\ y \notin BlkMoving
          /\ BlkStatus'[y] \in {"free", "failed"} /\ BlkWork'[y] = 0 /\ y \notin BlkMoving'
      BY <2>1, <2>4, <3>1, BlkView, BlkViewNext DEF Free
    <3> QED BY <3>2 DEF BC!Done, BC!Fail, BC!Becomes
  <2> QED BY <2>2, <2>3, <2>4
<1>5. ASSUME NEW c \in Tags, BackendStarts(c) PROVE BC!Keep(y) \/ BC!Begin(y)
  <2>1. /\ blk.req[c] = "queued" /\ blk'.req = [blk.req EXCEPT ![c] = "busy"]
        /\ blk'.type = blk.type /\ blk'.fail = blk.fail /\ blk'.used = blk.used
    BY <1>5, BlkStartStep
  <2>2. CASE y # c
    <3>1. blk'.req[y] = blk.req[y] BY <2>1, <2>2 DEF BlkTypes
    <3> QED BY <2>1, <3>1, BlkKeep
  <2>3. CASE y = c
    <3>1. blk'.req[y] = "busy" /\ blk.type[y] \in BlockifOps /\ ~In(blk.used, y) /\ blk.type[y] # Free
      BY <2>1, <2>3 DEF BlkTypes, BlkPlaces, Free, BlockifOps
    <3>2. /\ BlkStatus[y] = "issued" /\ BlkWork[y] = 1 /\ y \notin BlkMoving
          /\ BlkStatus'[y] = "issued" /\ BlkWork'[y] = 1 /\ y \in BlkMoving'
      BY <2>1, <2>3, <3>1, BlkView, BlkViewNext
    <3> QED BY <3>2 DEF BC!Begin, BC!Becomes
  <2> QED BY <2>2, <2>3
<1>6. ASSUME NEW c \in Tags, Done(c) PROVE BC!Keep(y) \/ BC!Done(y) \/ BC!Fail(y)
  <2>1. /\ blk.req[c] = "busy" /\ ~In(blk.used, c) /\ blk.type[c] \in BlockifOps
        /\ blk'.req = [blk.req EXCEPT ![c] = Free] /\ blk'.type = blk.type
        /\ \A x : In(blk'.used, x) <=> In(blk.used, x) \/ x = c
        /\ \E err \in BOOLEAN : blk'.fail = [blk.fail EXCEPT ![c] = err]
    BY <1>6, BlkDoneStep
  <2>2. CASE y # c
    <3>1. blk'.req[y] = blk.req[y] /\ blk'.fail[y] = blk.fail[y] BY <2>1, <2>2 DEF BlkTypes
    <3> QED BY <2>1, <2>2, <3>1, BlkKeep
  <2>3. CASE y = c
    <3>1. blk'.req[y] = Free /\ blk.type[y] # Free BY <2>1, <2>3 DEF BlkTypes, BlockifOps, Free
    <3>2. /\ BlkStatus[y] = "issued" /\ BlkWork[y] = 1 /\ y \in BlkMoving
          /\ BlkStatus'[y] \in {"free", "failed"} /\ BlkWork'[y] = 0 /\ y \notin BlkMoving'
      BY <2>1, <2>3, <3>1, BlkView, BlkViewNext DEF Free
    <3> QED BY <3>2 DEF BC!Done, BC!Fail, BC!Becomes
  <2> QED BY <2>2, <2>3
<1> QED BY <1>1, <1>2, <1>3, <1>4, <1>5, <1>6 DEF BlkNext, BlkDriver, Device

(* The virtio block device implements the command service of a controller    *)
(* that always runs, so that nothing is taken back: every chain is returned  *)
(* once, after its transfer and with its outcome, whatever the number of     *)
(* chains and in whatever order the backend's callbacks come.                *)
THEOREM BlkImplements == BlkSpec => BC!Spec
<1>1. BlkInit => BC!Init
  BY DEF BlkInit, BC!Init, BlkStatus, BlkWork, BlkMoving, BlkBusy, Free
<1>2. BlkInv /\ [BlkNext]_blkVars => [BC!Next]_(BC!vars)
  <2> SUFFICES ASSUME BlkInv, [BlkNext]_blkVars PROVE [BC!Next]_(BC!vars) OBVIOUS
  <2>1. CASE BlkNext BY <2>1, BlkSimulation
  <2>2. CASE UNCHANGED blkVars
    <3>1. blk' = blk BY <2>2 DEF blkVars
    <3>2. BlkStatus' = BlkStatus /\ BlkMoving' = BlkMoving BY <3>1 DEF BlkStatus, BlkMoving, BlkBusy, BlkReturned
    <3>3. BlkWork' = BlkWork BY <3>1, <3>2 DEF BlkWork
    <3> QED BY <3>2, <3>3 DEF BC!vars
  <2> QED BY <2>1, <2>2
<1>3. QED BY <1>1, <1>2, BlkInitInv, BlkStep, PTL DEF BlkSpec, BC!Spec

(* Every chain the driver has out is available, at the backend or returned,  *)
(* exactly once (pci_vtblk_proc(), pci_vtblk_done_locked()).                 *)
THEOREM BlkAccountedAlways == BlkSpec => []BlkAccounted
<1>1. BlkInv => BlkAccounted
  <2> SUFFICES ASSUME BlkInv, NEW c \in Tags, blk.type[c] # Free
      PROVE Cardinality({i \in 1..Len(blk.avail) : blk.avail[i] = c}) + Cardinality({i \in 1..Len(blk.used) : blk.used[i] = c})
            + (IF blk.req[c] # Free THEN 1 ELSE 0) = 1
    BY DEF BlkAccounted
  <2>1. blk.avail \in Seq(Tags) /\ NoDup(blk.avail) /\ blk.used \in Seq(Tags) /\ NoDup(blk.used)
    BY DEF BlkInv, BlkTypes, BlkPlaces
  <2>2. Cardinality({i \in 1..Len(blk.avail) : blk.avail[i] = c}) = IF In(blk.avail, c) THEN 1 ELSE 0
    BY <2>1, CountInRing
  <2>3. Cardinality({i \in 1..Len(blk.used) : blk.used[i] = c}) = IF In(blk.used, c) THEN 1 ELSE 0
    BY <2>1, CountInRing
  <2> QED BY <2>2, <2>3 DEF BlkInv, BlkPlaces
<1>2. QED BY <1>1, BlkInitInv, BlkStep, PTL DEF BlkSpec

(* A returned chain the driver has not collected is announced: vq_endchains()*)
(* and the driver's suppression of interrupts never lose one between them.   *)
THEOREM BlkAnnouncedAlways == BlkSpec => []BlkNoLostInterrupt
<1>1. BlkInv => BlkNoLostInterrupt BY DEF BlkInv, BlkSignals, BlkNoLostInterrupt
<1>2. QED BY <1>1, BlkInitInv, BlkStep, PTL DEF BlkSpec

-----------------------------------------------------------------------------
(* pci_virtio_scsi.c                                                        *)

ScsiSpec == ScsiInit /\ [][ScsiNext]_scsiVars

Holds(w, c) == scsi.cur[w] = c /\ scsi.at[w] \in {"ioctl", "release"}

ScsiTypes ==
    /\ scsi = [busy |-> scsi.busy, avail |-> scsi.avail, kick |-> scsi.kick, notify |-> scsi.notify,
               requests |-> scsi.requests, at |-> scsi.at, cur |-> scsi.cur, used |-> scsi.used, failed |-> scsi.failed,
               qmtx |-> scsi.qmtx, intr |-> scsi.intr, tmf |-> scsi.tmf, posts |-> scsi.posts]
    /\ scsi.busy \subseteq Tags /\ scsi.avail \in Seq(Tags) /\ scsi.requests \in Seq(Tags)
    /\ scsi.at \in [Workers -> {"lock", "wait", "ioctl", "release", "end"}] /\ scsi.cur \in [Workers -> Tags \cup {Nil}]
    /\ scsi.used \subseteq Tags /\ scsi.failed \subseteq Tags

\* A chain is in one place; only a chain whose ioctl has returned is marked failed.
\* A worker at "end" names a chain the driver may have taken back already.
ScsiPlaces ==
    /\ NoDup(scsi.avail) /\ NoDup(scsi.requests)
    /\ \A c \in Tags :
        /\ In(scsi.avail, c) => c \in scsi.busy /\ ~In(scsi.requests, c) /\ c \notin scsi.used
        /\ In(scsi.requests, c) => c \in scsi.busy /\ c \notin scsi.used
        /\ c \in scsi.used => c \in scsi.busy
        /\ c \in scsi.busy => In(scsi.avail, c) \/ In(scsi.requests, c) \/ c \in scsi.used \/ \E w \in Workers : Holds(w, c)
        /\ c \in scsi.failed => c \in scsi.used \/ \E w \in Workers : scsi.cur[w] = c /\ scsi.at[w] = "release"
    /\ \A w \in Workers :
        /\ scsi.at[w] \in {"ioctl", "release"} => scsi.cur[w] \in Tags
        /\ scsi.at[w] \in {"lock", "wait"} => scsi.cur[w] = Nil
        /\ \A c \in Tags : Holds(w, c) =>
            /\ c \in scsi.busy /\ c \notin scsi.used /\ ~In(scsi.avail, c) /\ ~In(scsi.requests, c)
            /\ \A u \in Workers : Holds(u, c) => u = w
            /\ scsi.at[w] = "ioctl" => c \notin scsi.failed

ScsiSignals ==
    /\ scsi.requests # <<>> => \E w \in Workers : scsi.at[w] # "wait"
    /\ scsi.used # {} => scsi.intr \/ \E w \in Workers : scsi.at[w] = "end"

ScsiInv == ScsiTypes /\ ScsiPlaces /\ ScsiSignals

LEMMA ScsiInitInv == ScsiInit => ScsiInv
<1> SUFFICES ASSUME ScsiInit PROVE ScsiInv OBVIOUS
<1>1. ScsiTypes BY DEF ScsiInit, ScsiTypes
<1>2. ScsiPlaces BY DEF ScsiInit, ScsiPlaces, NoDup, In, Holds
<1>3. ScsiSignals BY DEF ScsiInit, ScsiSignals
<1> QED BY <1>1, <1>2, <1>3 DEF ScsiInv

\* What the command service sees of the chains, and what it rests on.
ScsiSame ==
    /\ scsi'.busy = scsi.busy /\ scsi'.used = scsi.used /\ scsi'.failed = scsi.failed
    /\ \A c \in Tags : (\E w \in Workers : Holds(w, c)') <=> \E w \in Workers : Holds(w, c)

\* Steps that move no chain: the begin and end of a notification, the control
\* queue, and the end of a worker's turn.
LEMMA ScsiQuietStep ==
    ASSUME ScsiInv, ScsiNotifyBegin \/ ScsiNotifyEnd \/ TmfHandle \/ ControlHandle
                    \/ \E t \in {"tmf", "an", "other"} : SendControl(t)
    PROVE  ScsiInv' /\ ScsiSame
<1> USE DEF ScsiInv
<1>1. /\ scsi'.busy = scsi.busy /\ scsi'.avail = scsi.avail /\ scsi'.requests = scsi.requests /\ scsi'.at = scsi.at
      /\ scsi'.cur = scsi.cur /\ scsi'.used = scsi.used /\ scsi'.failed = scsi.failed
      /\ scsi.intr => scsi'.intr
  BY DEF ScsiNotifyBegin, ScsiNotifyEnd, TmfHandle, ControlHandle, SendControl, ScsiTypes
<1>2. \A w, c : Holds(w, c)' <=> Holds(w, c) BY <1>1 DEF Holds
<1>3. ScsiTypes' BY <1>1 DEF ScsiTypes, ScsiNotifyBegin, ScsiNotifyEnd, TmfHandle, ControlHandle, SendControl
<1>4. ScsiPlaces' BY <1>1, <1>2 DEF ScsiPlaces
<1>5. ScsiSignals' BY <1>1 DEF ScsiSignals
<1> QED BY <1>1, <1>2, <1>3, <1>4, <1>5 DEF ScsiSame

LEMMA ScsiEndStep ==
    ASSUME ScsiInv, NEW w \in Workers, ScsiEndChains(w)
    PROVE  ScsiInv' /\ ScsiSame
<1> USE DEF ScsiInv
<1>1. /\ scsi'.busy = scsi.busy /\ scsi'.avail = scsi.avail /\ scsi'.requests = scsi.requests
      /\ scsi'.used = scsi.used /\ scsi'.failed = scsi.failed /\ scsi'.intr = TRUE
      /\ scsi.at[w] = "end" /\ scsi'.at = [scsi.at EXCEPT ![w] = "lock"] /\ scsi'.cur = [scsi.cur EXCEPT ![w] = Nil]
  BY DEF ScsiEndChains, ScsiTypes
<1>2. /\ scsi'.at \in [Workers -> {"lock", "wait", "ioctl", "release", "end"}] /\ scsi'.cur \in [Workers -> Tags \cup {Nil}]
      /\ scsi'.at[w] = "lock" /\ scsi'.cur[w] = Nil
      /\ \A u \in Workers : u # w => scsi'.at[u] = scsi.at[u] /\ scsi'.cur[u] = scsi.cur[u]
  BY <1>1 DEF ScsiTypes
<1>3. \A u \in Workers : \A c \in Tags : Holds(u, c)' <=> Holds(u, c) BY <1>1, <1>2 DEF Holds
<1>4. ScsiTypes' BY <1>1, <1>2 DEF ScsiTypes, ScsiEndChains
<1>5. ScsiPlaces' BY <1>1, <1>2, <1>3 DEF ScsiPlaces
<1>6. ScsiSignals' BY <1>1, <1>2 DEF ScsiSignals
<1> QED BY <1>1, <1>3, <1>4, <1>5, <1>6 DEF ScsiSame

LEMMA ScsiPostStep ==
    ASSUME ScsiInv, NEW c \in Tags, ScsiPost(c)
    PROVE  /\ ScsiInv' /\ c \notin scsi.busy /\ scsi'.busy = scsi.busy \cup {c} /\ scsi'.used = scsi.used
           /\ scsi'.failed = scsi.failed /\ \A w, x : Holds(w, x)' <=> Holds(w, x)
<1> USE DEF ScsiInv
<1>1. /\ c \notin scsi.busy /\ scsi'.busy = scsi.busy \cup {c} /\ scsi'.avail = Append(scsi.avail, c)
      /\ scsi'.requests = scsi.requests /\ scsi'.at = scsi.at /\ scsi'.cur = scsi.cur /\ scsi'.used = scsi.used
      /\ scsi'.failed = scsi.failed /\ scsi'.intr = scsi.intr
  BY DEF ScsiPost, ScsiTypes
<1>2. scsi.avail \in Seq(Tags) /\ NoDup(scsi.avail) BY DEF ScsiTypes, ScsiPlaces
<1>3. ~In(scsi.avail, c) /\ ~In(scsi.requests, c) /\ c \notin scsi.used BY <1>1 DEF ScsiPlaces
<1>4. scsi'.avail \in Seq(Tags) /\ NoDup(scsi'.avail) /\ \A x : In(scsi'.avail, x) <=> In(scsi.avail, x) \/ x = c
  BY <1>1, <1>2, <1>3, AppendRing
<1>5. \A w, x : Holds(w, x)' <=> Holds(w, x) BY <1>1 DEF Holds
<1>6. ScsiTypes' BY <1>1, <1>4 DEF ScsiTypes, ScsiPost
<1>7. ScsiPlaces' BY <1>1, <1>3, <1>4, <1>5 DEF ScsiPlaces
<1>8. ScsiSignals' BY <1>1 DEF ScsiSignals
<1> QED BY <1>1, <1>5, <1>6, <1>7, <1>8

LEMMA ScsiIsrStep ==
    ASSUME ScsiInv, Isr
    PROVE  /\ ScsiInv' /\ scsi'.busy = scsi.busy \ scsi.used /\ scsi'.used = {} /\ scsi'.failed = scsi.failed \ scsi.used
           /\ \A w, x : Holds(w, x)' <=> Holds(w, x)
<1> USE DEF ScsiInv
<1>1. /\ scsi'.busy = scsi.busy \ scsi.used /\ scsi'.avail = scsi.avail
      /\ scsi'.requests = scsi.requests /\ scsi'.at = scsi.at /\ scsi'.cur = scsi.cur /\ scsi'.used = {}
      /\ scsi'.failed = scsi.failed \ scsi.used
  BY DEF Isr, ScsiTypes
<1>2. \A w, x : Holds(w, x)' <=> Holds(w, x) BY <1>1 DEF Holds
<1>3. ScsiTypes' BY <1>1 DEF ScsiTypes, Isr
<1>4. ScsiPlaces' BY <1>1, <1>2 DEF ScsiPlaces
<1>5. ScsiSignals' BY <1>1 DEF ScsiSignals
<1> QED BY <1>1, <1>2, <1>3, <1>4, <1>5

\* The signal of pthread_cond_signal() leaves a worker awake whenever there is
\* one to wake, and there is one.
LEMMA ScsiRequestqStep ==
    ASSUME ScsiInv, RequestqNotify, Workers # {}, Nil \notin Workers
    PROVE  ScsiInv' /\ ScsiSame
<1> USE DEF ScsiInv
<1> DEFINE c == Head(scsi.avail)
<1>1. PICK w \in (IF Waiting # {} THEN Waiting ELSE {Nil}) :
        scsi' = [scsi EXCEPT !.avail = Tail(@), !.requests = Append(@, Head(scsi.avail)), !.at = Wake(@, w)]
  BY DEF RequestqNotify
<1>2. /\ scsi'.busy = scsi.busy /\ scsi'.avail = Tail(scsi.avail) /\ scsi'.requests = Append(scsi.requests, c)
      /\ scsi'.at = Wake(scsi.at, w) /\ scsi'.cur = scsi.cur /\ scsi'.used = scsi.used /\ scsi'.failed = scsi.failed
      /\ scsi'.intr = scsi.intr /\ scsi.avail # <<>>
  BY <1>1 DEF ScsiTypes, RequestqNotify
<1>3. scsi.avail \in Seq(Tags) /\ NoDup(scsi.avail) /\ scsi.requests \in Seq(Tags) /\ NoDup(scsi.requests)
  BY DEF ScsiTypes, ScsiPlaces
<1>4. /\ scsi'.avail \in Seq(Tags) /\ c \in Tags /\ In(scsi.avail, c)
      /\ \A x : In(scsi.avail, x) <=> In(scsi'.avail, x) \/ x = c
      /\ NoDup(scsi'.avail) /\ ~In(scsi'.avail, c)
  BY <1>2, <1>3, TailRing
<1> HIDE DEF c
<1>5. c \in scsi.busy /\ ~In(scsi.requests, c) /\ c \notin scsi.used BY <1>4 DEF ScsiPlaces
<1>6. scsi'.requests \in Seq(Tags) /\ NoDup(scsi'.requests) /\ \A x : In(scsi'.requests, x) <=> In(scsi.requests, x) \/ x = c
  BY <1>2, <1>3, <1>4, <1>5, AppendRing
<1>7. /\ scsi'.at \in [Workers -> {"lock", "wait", "ioctl", "release", "end"}]
      /\ \A u \in Workers : scsi'.at[u] = scsi.at[u] \/ (scsi.at[u] = "wait" /\ scsi'.at[u] = "lock")
      /\ \E u \in Workers : scsi'.at[u] # "wait"
  <2>1. CASE Waiting # {}
    <3>1. w \in Workers /\ scsi.at[w] = "wait" /\ w # Nil BY <1>1, <2>1 DEF Waiting
    <3>2. scsi'.at = [scsi.at EXCEPT ![w] = "lock"] BY <1>2, <3>1 DEF Wake
    <3> QED BY <3>1, <3>2 DEF ScsiTypes
  <2>2. CASE Waiting = {}
    <3>1. w = Nil /\ scsi'.at = scsi.at BY <1>1, <1>2, <2>2 DEF Wake
    <3>2. \A u \in Workers : scsi.at[u] # "wait" BY <2>2 DEF Waiting
    <3> QED BY <3>1, <3>2 DEF ScsiTypes
  <2> QED BY <2>1, <2>2
<1>8. \A u \in Workers : \A x : Holds(u, x)' <=> Holds(u, x) BY <1>2, <1>7 DEF Holds
<1>9. \A u \in Workers : ~Holds(u, c) BY <1>4 DEF ScsiPlaces
<1>10. ScsiTypes' BY <1>1, <1>2, <1>4, <1>6, <1>7 DEF ScsiTypes
<1>11. ScsiPlaces'
  <2>1. \A u \in Workers : /\ scsi'.at[u] = "release" <=> scsi.at[u] = "release"
                           /\ scsi'.at[u] = "ioctl" <=> scsi.at[u] = "ioctl"
                           /\ scsi'.at[u] \in {"lock", "wait"} => scsi.at[u] \in {"lock", "wait"}
    BY <1>7
  <2> QED BY <1>2, <1>4, <1>5, <1>6, <1>8, <1>9, <2>1 DEF ScsiPlaces
<1>12. ScsiSignals'
  <2>1. \A u \in Workers : scsi.at[u] = "end" => scsi'.at[u] = "end" BY <1>7
  <2> QED BY <1>2, <1>7, <2>1 DEF ScsiSignals
<1> QED BY <1>2, <1>8, <1>10, <1>11, <1>12 DEF ScsiSame

\* pci_vtscsi_proc(): the worker sleeps on an empty list or takes its first request.
LEMMA ScsiFetchStep ==
    ASSUME ScsiInv, NEW w \in Workers, Fetch(w)
    PROVE  /\ ScsiInv'
           /\ \/ ScsiSame
              \/ \E c \in Tags : /\ In(scsi.requests, c) /\ scsi'.busy = scsi.busy /\ scsi'.used = scsi.used
                                 /\ scsi'.failed = scsi.failed /\ Holds(w, c)'
                                 /\ \A u \in Workers, x \in Tags : u # w => (Holds(u, x)' <=> Holds(u, x))
                                 /\ \A x \in Tags : ~Holds(w, x) /\ (Holds(w, x)' => x = c)
<1> USE DEF ScsiInv
<1>1. scsi.at[w] = "lock" /\ scsi.cur[w] = Nil BY DEF Fetch, ScsiPlaces
<1>2. CASE scsi.requests = <<>>
  <2>1. /\ scsi'.busy = scsi.busy /\ scsi'.avail = scsi.avail /\ scsi'.requests = scsi.requests /\ scsi'.cur = scsi.cur
        /\ scsi'.used = scsi.used /\ scsi'.failed = scsi.failed /\ scsi'.intr = scsi.intr
        /\ scsi'.at = [scsi.at EXCEPT ![w] = "wait"]
    BY <1>2 DEF Fetch, ScsiTypes
  <2>2. /\ scsi'.at \in [Workers -> {"lock", "wait", "ioctl", "release", "end"}] /\ scsi'.at[w] = "wait"
        /\ \A u \in Workers : u # w => scsi'.at[u] = scsi.at[u]
    BY <2>1 DEF ScsiTypes
  <2>3. \A u \in Workers : \A x : Holds(u, x)' <=> Holds(u, x) BY <1>1, <2>1, <2>2 DEF Holds
  <2>4. ScsiTypes' BY <1>2, <2>1, <2>2 DEF ScsiTypes, Fetch
  <2>5. ScsiPlaces' BY <1>1, <2>1, <2>2, <2>3 DEF ScsiPlaces
  <2>6. ScsiSignals' BY <1>1, <1>2, <2>1, <2>2 DEF ScsiSignals
  <2> QED BY <2>1, <2>3, <2>4, <2>5, <2>6 DEF ScsiSame
<1>3. CASE scsi.requests # <<>>
  <2>1. scsi.requests \in Seq(Tags) /\ NoDup(scsi.requests) BY DEF ScsiTypes, ScsiPlaces
  <2>2. PICK c \in Tags : c = Head(scsi.requests) BY <1>3, <2>1, TailRing
  <2>3. /\ scsi'.busy = scsi.busy /\ scsi'.avail = scsi.avail /\ scsi'.requests = Tail(scsi.requests)
        /\ scsi'.used = scsi.used /\ scsi'.failed = scsi.failed /\ scsi'.intr = scsi.intr
        /\ scsi'.at = [scsi.at EXCEPT ![w] = "ioctl"] /\ scsi'.cur = [scsi.cur EXCEPT ![w] = c]
        /\ scsi'.requests \in Seq(Tags) /\ In(scsi.requests, c)
        /\ \A x : In(scsi.requests, x) <=> In(scsi'.requests, x) \/ x = c
        /\ NoDup(scsi'.requests) /\ ~In(scsi'.requests, c)
    <3>1. /\ scsi'.busy = scsi.busy /\ scsi'.avail = scsi.avail /\ scsi'.requests = Tail(scsi.requests)
          /\ scsi'.used = scsi.used /\ scsi'.failed = scsi.failed /\ scsi'.intr = scsi.intr
          /\ scsi'.at = [scsi.at EXCEPT ![w] = "ioctl"] /\ scsi'.cur = [scsi.cur EXCEPT ![w] = c]
      BY <1>3, <2>2 DEF Fetch, ScsiTypes
    <3> QED BY <1>3, <2>1, <2>2, <3>1, TailRing
  <2>4. /\ scsi'.at \in [Workers -> {"lock", "wait", "ioctl", "release", "end"}] /\ scsi'.at[w] = "ioctl"
        /\ scsi'.cur \in [Workers -> Tags \cup {Nil}] /\ scsi'.cur[w] = c
        /\ \A u \in Workers : u # w => scsi'.at[u] = scsi.at[u] /\ scsi'.cur[u] = scsi.cur[u]
    BY <2>3 DEF ScsiTypes
  <2>5. /\ Holds(w, c)' /\ \A x : (Holds(w, x)' => x = c) /\ ~Holds(w, x)
        /\ \A u \in Workers : u # w => \A x : Holds(u, x)' <=> Holds(u, x)
    BY <1>1, <2>3, <2>4 DEF Holds
  <2>6. c \in scsi.busy /\ c \notin scsi.used /\ ~In(scsi.avail, c) /\ \A u \in Workers : ~Holds(u, c)
    BY <2>3 DEF ScsiPlaces
  <2>7. c \notin scsi.failed BY <2>3, <2>6 DEF ScsiPlaces, Holds
  <2>8. ScsiTypes' BY <1>3, <2>3, <2>4 DEF ScsiTypes, Fetch
  <2>9. ScsiPlaces'
    <3>1. NoDup(scsi'.avail) /\ NoDup(scsi'.requests) BY <2>3 DEF ScsiPlaces
    <3>2. ASSUME NEW x \in Tags
          PROVE /\ In(scsi'.avail, x) => x \in scsi'.busy /\ ~In(scsi'.requests, x) /\ x \notin scsi'.used
                /\ In(scsi'.requests, x) => x \in scsi'.busy /\ x \notin scsi'.used
                /\ x \in scsi'.used => x \in scsi'.busy
                /\ x \in scsi'.busy => \/ In(scsi'.avail, x) \/ In(scsi'.requests, x) \/ x \in scsi'.used
                                       \/ \E u \in Workers : Holds(u, x)'
                /\ x \in scsi'.failed => x \in scsi'.used \/ \E u \in Workers : scsi'.cur[u] = x /\ scsi'.at[u] = "release"
      BY <1>1, <2>3, <2>4, <2>5 DEF ScsiPlaces
    <3>3. ASSUME NEW u \in Workers
          PROVE /\ scsi'.at[u] \in {"ioctl", "release"} => scsi'.cur[u] \in Tags
                /\ scsi'.at[u] \in {"lock", "wait"} => scsi'.cur[u] = Nil
      BY <2>3, <2>4 DEF ScsiPlaces
    <3>4. ASSUME NEW u \in Workers, NEW x \in Tags, Holds(u, x)'
          PROVE /\ x \in scsi'.busy /\ x \notin scsi'.used /\ ~In(scsi'.avail, x) /\ ~In(scsi'.requests, x)
                /\ \A v \in Workers : Holds(v, x)' => v = u
                /\ scsi'.at[u] = "ioctl" => x \notin scsi'.failed
      BY <2>3, <2>4, <2>5, <2>6, <2>7, <3>4 DEF ScsiPlaces
    <3> QED BY <3>1, <3>2, <3>3, <3>4 DEF ScsiPlaces
  <2>10. ScsiSignals'
    <3>1. scsi'.at[w] # "wait" /\ \A u \in Workers : scsi.at[u] = "end" => scsi'.at[u] = "end" BY <1>1, <2>4
    <3> QED BY <2>3, <3>1 DEF ScsiSignals
  <2>11. /\ In(scsi.requests, c) /\ scsi'.busy = scsi.busy /\ scsi'.used = scsi.used
         /\ scsi'.failed = scsi.failed /\ Holds(w, c)'
         /\ \A u \in Workers, x \in Tags : u # w => (Holds(u, x)' <=> Holds(u, x))
         /\ \A x \in Tags : ~Holds(w, x) /\ (Holds(w, x)' => x = c)
    BY <2>3, <2>5
  <2> QED BY <2>3, <2>8, <2>9, <2>10, <2>11
<1> QED BY <1>2, <1>3

\* The ioctl returns; its failure is recorded with the request.
LEMMA ScsiHandleStep ==
    ASSUME ScsiInv, NEW w \in Workers, RequestHandle(w)
    PROVE  /\ ScsiInv' /\ scsi.at[w] = "ioctl" /\ scsi.cur[w] \in Tags /\ scsi'.busy = scsi.busy /\ scsi'.used = scsi.used
           /\ scsi'.failed = scsi.failed \/ scsi'.failed = scsi.failed \cup {scsi.cur[w]}
           /\ \A u \in Workers, x \in Tags : Holds(u, x)' <=> Holds(u, x)
<1> USE DEF ScsiInv
<1> DEFINE c == scsi.cur[w]
<1>1. PICK err \in BOOLEAN : scsi' = [scsi EXCEPT !.at[w] = "release",
                                                  !.failed = IF err THEN @ \cup {scsi.cur[w]} ELSE @]
  BY DEF RequestHandle
<1>2. scsi.at[w] = "ioctl" /\ c \in Tags BY DEF RequestHandle, ScsiPlaces
<1>3. /\ scsi'.busy = scsi.busy /\ scsi'.avail = scsi.avail /\ scsi'.requests = scsi.requests
      /\ scsi'.used = scsi.used /\ scsi'.failed = (IF err THEN scsi.failed \cup {c} ELSE scsi.failed) /\ scsi'.intr = scsi.intr
      /\ scsi'.at = [scsi.at EXCEPT ![w] = "release"] /\ scsi'.cur = scsi.cur
  BY <1>1 DEF ScsiTypes
<1> HIDE DEF c
<1>4. /\ scsi'.at \in [Workers -> {"lock", "wait", "ioctl", "release", "end"}] /\ scsi'.at[w] = "release"
      /\ \A u \in Workers : u # w => scsi'.at[u] = scsi.at[u]
  BY <1>3 DEF ScsiTypes
<1>5. \A u \in Workers, x \in Tags : Holds(u, x)' <=> Holds(u, x) BY <1>2, <1>3, <1>4 DEF Holds
<1>6. ScsiTypes'
  <2>1. scsi'.failed \subseteq Tags BY <1>2, <1>3 DEF ScsiTypes
  <2> QED BY <1>1, <1>3, <1>4, <2>1 DEF ScsiTypes
<1>7. Holds(w, c) BY <1>2 DEF Holds, c
<1>8. ScsiPlaces'
  <2>1. \A x \in Tags : x \in scsi'.failed => x \in scsi'.used \/ \E u \in Workers : scsi'.cur[u] = x /\ scsi'.at[u] = "release"
    BY <1>2, <1>3, <1>4 DEF ScsiPlaces, c
  <2>2. \A u \in Workers : /\ scsi'.at[u] \in {"ioctl", "release"} => scsi'.cur[u] \in Tags
                           /\ scsi'.at[u] \in {"lock", "wait"} => scsi'.cur[u] = Nil
    BY <1>2, <1>3, <1>4 DEF ScsiPlaces
  <2>3. ASSUME NEW u \in Workers, NEW x \in Tags, Holds(u, x), scsi'.at[u] = "ioctl" PROVE x \notin scsi'.failed
    <3>1. u # w /\ scsi.at[u] = "ioctl" BY <1>4, <2>3
    <3>2. x # c BY <1>7, <2>3, <3>1 DEF ScsiPlaces
    <3> QED BY <1>3, <2>3, <3>1, <3>2 DEF ScsiPlaces
  <2> QED BY <1>3, <1>5, <2>1, <2>2, <2>3 DEF ScsiPlaces
<1>9. ScsiSignals'
  <2>1. scsi'.at[w] # "wait" /\ \A u \in Workers : scsi.at[u] = "end" => scsi'.at[u] = "end" BY <1>2, <1>4
  <2> QED BY <1>3, <2>1 DEF ScsiSignals
<1> QED BY <1>2, <1>3, <1>5, <1>6, <1>8, <1>9 DEF c

\* The chain goes to the used ring under the queue's mutex.
LEMMA ScsiReleaseStep ==
    ASSUME ScsiInv, NEW w \in Workers, Release(w)
    PROVE  /\ ScsiInv' /\ Holds(w, scsi.cur[w]) /\ scsi.cur[w] \in Tags /\ scsi'.busy = scsi.busy
           /\ scsi'.used = scsi.used \cup {scsi.cur[w]} /\ scsi'.failed = scsi.failed
           /\ \A u \in Workers, x \in Tags : Holds(u, x)' <=> Holds(u, x) /\ u # w
<1> USE DEF ScsiInv
<1> DEFINE c == scsi.cur[w]
<1>1. scsi.at[w] = "release" /\ c \in Tags BY DEF Release, ScsiPlaces
<1>2. /\ scsi'.busy = scsi.busy /\ scsi'.avail = scsi.avail /\ scsi'.requests = scsi.requests
      /\ scsi'.used = scsi.used \cup {c} /\ scsi'.failed = scsi.failed /\ scsi'.intr = scsi.intr
      /\ scsi'.at = [scsi.at EXCEPT ![w] = "end"] /\ scsi'.cur = scsi.cur
  BY DEF Release, ScsiTypes
<1>3. Holds(w, c) BY <1>1 DEF Holds
<1> HIDE DEF c
<1>4. /\ scsi'.at \in [Workers -> {"lock", "wait", "ioctl", "release", "end"}] /\ scsi'.at[w] = "end"
      /\ \A u \in Workers : u # w => scsi'.at[u] = scsi.at[u]
  BY <1>2 DEF ScsiTypes
<1>5. \A u \in Workers, x \in Tags : Holds(u, x)' <=> Holds(u, x) /\ u # w BY <1>2, <1>4 DEF Holds
<1>6. ScsiTypes' BY <1>1, <1>2, <1>4 DEF ScsiTypes, Release
<1>7. c \in scsi.busy /\ ~In(scsi.avail, c) /\ ~In(scsi.requests, c) /\ \A u \in Workers : Holds(u, c) => u = w
  BY <1>1, <1>3 DEF ScsiPlaces
<1>8. ScsiPlaces'
  <2>1. ASSUME NEW x \in Tags
        PROVE /\ In(scsi'.avail, x) => x \in scsi'.busy /\ ~In(scsi'.requests, x) /\ x \notin scsi'.used
              /\ In(scsi'.requests, x) => x \in scsi'.busy /\ x \notin scsi'.used
              /\ x \in scsi'.used => x \in scsi'.busy
              /\ x \in scsi'.busy => \/ In(scsi'.avail, x) \/ In(scsi'.requests, x) \/ x \in scsi'.used
                                     \/ \E u \in Workers : Holds(u, x)'
    <3>1. \A u \in Workers : Holds(u, x) => x = c \/ Holds(u, x)' BY <1>5 DEF Holds, c
    <3> QED BY <1>2, <1>7, <3>1 DEF ScsiPlaces
  <2>2. ASSUME NEW x \in Tags, x \in scsi'.failed
        PROVE x \in scsi'.used \/ \E u \in Workers : scsi'.cur[u] = x /\ scsi'.at[u] = "release"
    BY <1>2, <1>4, <2>2 DEF ScsiPlaces, c
  <2>3. \A u \in Workers : /\ scsi'.at[u] \in {"ioctl", "release"} => scsi'.cur[u] \in Tags
                           /\ scsi'.at[u] \in {"lock", "wait"} => scsi'.cur[u] = Nil
    BY <1>2, <1>4 DEF ScsiPlaces
  <2>4. ASSUME NEW u \in Workers, NEW x \in Tags, Holds(u, x)'
        PROVE /\ x \in scsi'.busy /\ x \notin scsi'.used /\ ~In(scsi'.avail, x) /\ ~In(scsi'.requests, x)
              /\ \A v \in Workers : Holds(v, x)' => v = u
              /\ scsi'.at[u] = "ioctl" => x \notin scsi'.failed
    <3>1. Holds(u, x) /\ u # w BY <1>5, <2>4
    <3>2. x # c BY <1>7, <3>1
    <3> QED BY <1>2, <1>4, <1>5, <3>1, <3>2 DEF ScsiPlaces
  <2> QED BY <1>2, <2>1, <2>2, <2>3, <2>4 DEF ScsiPlaces
<1>9. ScsiSignals'
  <2>1. scsi'.at[w] = "end" BY <1>4
  <2> QED BY <2>1 DEF ScsiSignals
<1> QED BY <1>1, <1>2, <1>3, <1>5, <1>6, <1>8, <1>9 DEF c

LEMMA ScsiStep ==
    ASSUME Workers # {}, Nil \notin Workers
    PROVE  ScsiInv /\ [ScsiNext]_scsiVars => ScsiInv'
<1> SUFFICES ASSUME ScsiInv, [ScsiNext]_scsiVars PROVE ScsiInv' OBVIOUS
<1>1. CASE UNCHANGED scsiVars
  <2>1. scsi' = scsi BY <1>1 DEF scsiVars
  <2>2. \A w, c : Holds(w, c)' <=> Holds(w, c) BY <2>1 DEF Holds
  <2> QED BY <2>1, <2>2 DEF ScsiInv, ScsiTypes, ScsiPlaces, ScsiSignals
<1>2. ASSUME NEW c \in Tags, ScsiPost(c) PROVE ScsiInv' BY <1>2, ScsiPostStep
<1>3. CASE Isr BY <1>3, ScsiIsrStep
<1>4. CASE ScsiNotifyBegin \/ ScsiNotifyEnd \/ TmfHandle \/ ControlHandle
           \/ \E t \in {"tmf", "an", "other"} : SendControl(t)
  BY <1>4, ScsiQuietStep
<1>5. CASE RequestqNotify BY <1>5, ScsiRequestqStep
<1>6. ASSUME NEW w \in Workers, Worker(w) PROVE ScsiInv'
  BY <1>6, ScsiFetchStep, ScsiHandleStep, ScsiReleaseStep, ScsiEndStep DEF Worker
<1> QED BY <1>1, <1>2, <1>3, <1>4, <1>5, <1>6 DEF ScsiNext, ScsiDriver, Notify

-----------------------------------------------------------------------------
(* The SCSI host implements the command service                             *)

SC == INSTANCE CommandService WITH MaxWork <- 1, status <- ScsiStatus, work <- ScsiWork,
          moving <- ScsiMoving, running <- TRUE

Held(x) == \E w \in Workers : Holds(w, x)

LEMMA ScsiView ==
    ASSUME NEW x \in Tags
    PROVE  /\ ScsiStatus[x] = IF x \notin scsi.busy \/ (x \in scsi.used /\ x \notin scsi.failed) THEN "free"
                              ELSE IF x \in scsi.failed THEN "failed" ELSE "issued"
           /\ ScsiWork[x] = IF ScsiStatus[x] = "issued" THEN 1 ELSE 0
           /\ x \in ScsiMoving <=> ScsiStatus[x] = "issued" /\ Held(x)
  BY DEF ScsiStatus, ScsiWork, ScsiMoving, ScsiBusy, ScsiReturned, Handling, Held, Holds

LEMMA ScsiViewNext ==
    ASSUME NEW x \in Tags
    PROVE  /\ ScsiStatus'[x] = IF x \notin scsi'.busy \/ (x \in scsi'.used /\ x \notin scsi'.failed) THEN "free"
                               ELSE IF x \in scsi'.failed THEN "failed" ELSE "issued"
           /\ ScsiWork'[x] = IF ScsiStatus'[x] = "issued" THEN 1 ELSE 0
           /\ x \in ScsiMoving' <=> ScsiStatus'[x] = "issued" /\ Held(x)'
  BY DEF ScsiStatus, ScsiWork, ScsiMoving, ScsiBusy, ScsiReturned, Handling, Held, Holds

LEMMA ScsiKeep ==
    ASSUME NEW x \in Tags, x \in scsi'.busy <=> x \in scsi.busy, x \in scsi'.used <=> x \in scsi.used,
           x \in scsi'.failed <=> x \in scsi.failed, Held(x)' <=> Held(x)
    PROVE  SC!Keep(x)
<1>1. ScsiStatus'[x] = ScsiStatus[x] BY ScsiView, ScsiViewNext
<1>2. ScsiWork'[x] = ScsiWork[x] /\ (x \in ScsiMoving' <=> x \in ScsiMoving) BY <1>1, ScsiView, ScsiViewNext
<1> QED BY <1>1, <1>2 DEF SC!Keep, SC!Becomes

\* A post is a submission, the request a worker takes a begin, the ioctl's failure
\* a failure, and the return of a chain whose ioctl succeeded the end.
LEMMA ScsiSimulation ==
    ASSUME ScsiInv, ScsiNext, Workers # {}, Nil \notin Workers
    PROVE  SC!Next
<1> USE DEF ScsiInv
<1>0. SUFFICES ASSUME NEW y \in Tags
      PROVE SC!Keep(y) \/ SC!Submit(y) \/ SC!Begin(y) \/ SC!Done(y) \/ SC!Fail(y) \/ SC!Collect(y)
  BY DEF SC!Next
<1>1. ASSUME NEW c \in Tags, ScsiPost(c) PROVE SC!Keep(y) \/ SC!Submit(y)
  <2>1. /\ c \notin scsi.busy /\ scsi'.busy = scsi.busy \cup {c} /\ scsi'.used = scsi.used
        /\ scsi'.failed = scsi.failed /\ (Held(y)' <=> Held(y))
    BY <1>1, ScsiPostStep DEF Held
  <2>2. CASE y # c BY <2>1, <2>2, ScsiKeep
  <2>3. CASE y = c
    <3>1. y \notin scsi.used /\ ~Held(y) BY <2>1, <2>3 DEF ScsiPlaces, Held
    <3>2. y \notin scsi.failed BY <3>1 DEF ScsiPlaces, Held, Holds
    <3>3. /\ ScsiStatus[y] = "free" /\ ScsiStatus'[y] = "issued" /\ ScsiWork'[y] = 1 /\ y \notin ScsiMoving'
      BY <2>1, <2>3, <3>1, <3>2, ScsiView, ScsiViewNext
    <3>4. 1 \in 0..1 OBVIOUS
    <3> QED BY <3>3, <3>4 DEF SC!Submit, SC!Becomes
  <2> QED BY <2>2, <2>3
<1>2. CASE Isr
  <2>1. /\ scsi'.busy = scsi.busy \ scsi.used /\ scsi'.used = {} /\ scsi'.failed = scsi.failed \ scsi.used
        /\ (Held(y)' <=> Held(y))
    BY <1>2, ScsiIsrStep DEF Held
  <2>2. CASE y \notin scsi.used BY <2>1, <2>2, ScsiKeep
  <2>3. CASE y \in scsi.used
    <3>1. y \in scsi.busy BY <2>3 DEF ScsiPlaces
    <3>2. /\ ScsiStatus'[y] = "free" /\ ScsiWork'[y] = 0 /\ y \notin ScsiMoving'
          /\ ScsiStatus[y] \in {"free", "failed"} /\ ScsiWork[y] = 0 /\ y \notin ScsiMoving
      BY <2>1, <2>3, <3>1, ScsiView, ScsiViewNext
    <3> QED BY <3>2 DEF SC!Keep, SC!Collect, SC!Becomes
  <2> QED BY <2>2, <2>3
<1>3. ASSUME ScsiSame PROVE SC!Keep(y)
  BY <1>3, ScsiKeep DEF ScsiSame, Held
<1>4. ASSUME NEW w \in Workers, Fetch(w) PROVE SC!Keep(y) \/ SC!Begin(y)
  <2>1. CASE ScsiSame BY <1>3, <2>1
  <2>2. ASSUME NEW c \in Tags, In(scsi.requests, c), scsi'.busy = scsi.busy, scsi'.used = scsi.used,
               scsi'.failed = scsi.failed, Holds(w, c)',
               \A u \in Workers, x \in Tags : u # w => (Holds(u, x)' <=> Holds(u, x)),
               \A x \in Tags : ~Holds(w, x) /\ (Holds(w, x)' => x = c)
        PROVE SC!Keep(y) \/ SC!Begin(y)
    <3>1. CASE y # c
      <4>1. Held(y)' <=> Held(y) BY <2>2, <3>1 DEF Held
      <4> QED BY <2>2, <4>1, ScsiKeep
    <3>2. CASE y = c
      <4>1. y \in scsi.busy /\ y \notin scsi.used /\ ~Held(y) BY <2>2, <3>2 DEF ScsiPlaces, Held
      <4>2. y \notin scsi.failed BY <4>1 DEF ScsiPlaces, Held, Holds
      <4>3. Held(y)' BY <2>2, <3>2 DEF Held
      <4>4. /\ ScsiStatus[y] = "issued" /\ ScsiWork[y] = 1 /\ y \notin ScsiMoving
            /\ ScsiStatus'[y] = "issued" /\ ScsiWork'[y] = 1 /\ y \in ScsiMoving'
        BY <2>2, <4>1, <4>2, <4>3, ScsiView, ScsiViewNext
      <4> QED BY <4>4 DEF SC!Begin, SC!Becomes
    <3> QED BY <3>1, <3>2
  <2> QED BY <1>4, <2>1, <2>2, ScsiFetchStep
<1>5. ASSUME NEW w \in Workers, RequestHandle(w) PROVE SC!Keep(y) \/ SC!Fail(y)
  <2>1. PICK c \in Tags : c = scsi.cur[w] BY <1>5, ScsiHandleStep
  <2>2. /\ scsi.at[w] = "ioctl" /\ scsi'.busy = scsi.busy /\ scsi'.used = scsi.used
        /\ scsi'.failed = scsi.failed \/ scsi'.failed = scsi.failed \cup {c}
        /\ (Held(y)' <=> Held(y))
    BY <1>5, <2>1, ScsiHandleStep DEF Held
  <2>3. CASE y # c \/ scsi'.failed = scsi.failed
    BY <2>2, <2>3, ScsiKeep
  <2>4. CASE y = c /\ scsi'.failed = scsi.failed \cup {c}
    <3>1. Holds(w, y) BY <2>1, <2>2, <2>4 DEF Holds
    <3>2. y \in scsi.busy /\ y \notin scsi.used /\ y \notin scsi.failed BY <2>2, <3>1 DEF ScsiPlaces
    <3>3. /\ ScsiStatus[y] = "issued" /\ ScsiStatus'[y] = "failed" /\ ScsiWork'[y] = 0 /\ y \notin ScsiMoving'
      BY <2>2, <2>4, <3>2, ScsiView, ScsiViewNext
    <3> QED BY <3>3 DEF SC!Fail, SC!Becomes
  <2> QED BY <2>2, <2>3, <2>4
<1>6. ASSUME NEW w \in Workers, Release(w) PROVE SC!Keep(y) \/ SC!Done(y)
  <2>1. PICK c \in Tags : c = scsi.cur[w] BY <1>6, ScsiReleaseStep
  <2>2. /\ Holds(w, c) /\ scsi'.busy = scsi.busy /\ scsi'.used = scsi.used \cup {c} /\ scsi'.failed = scsi.failed
        /\ \A u \in Workers, x \in Tags : Holds(u, x)' <=> Holds(u, x) /\ u # w
    BY <1>6, <2>1, ScsiReleaseStep
  <2>3. CASE y # c
    <3>1. ~Holds(w, y) BY <2>1, <2>3 DEF Holds
    <3>2. Held(y)' <=> Held(y) BY <2>2, <3>1 DEF Held
    <3> QED BY <2>2, <2>3, <3>2, ScsiKeep
  <2>4. CASE y = c
    <3>1. y \in scsi.busy /\ y \notin scsi.used /\ Held(y) BY <2>2, <2>4 DEF ScsiPlaces, Held
    <3>2. CASE y \in scsi.failed
      <4>1. /\ ScsiStatus[y] = "failed" /\ ScsiWork[y] = 0 /\ y \notin ScsiMoving
            /\ ScsiStatus'[y] = "failed" /\ ScsiWork'[y] = 0 /\ y \notin ScsiMoving'
        BY <2>2, <3>1, <3>2, ScsiView, ScsiViewNext
      <4> QED BY <4>1 DEF SC!Keep, SC!Becomes
    <3>3. CASE y \notin scsi.failed
      <4>1. /\ ScsiStatus[y] = "issued" /\ ScsiWork[y] = 1 /\ y \in ScsiMoving
            /\ ScsiStatus'[y] = "free" /\ ScsiWork'[y] = 0 /\ y \notin ScsiMoving'
        BY <2>2, <2>4, <3>1, <3>3, ScsiView, ScsiViewNext
      <4> QED BY <4>1 DEF SC!Done, SC!Becomes
    <3> QED BY <3>2, <3>3
  <2> QED BY <2>3, <2>4
<1>7. CASE ScsiNotifyBegin \/ ScsiNotifyEnd \/ TmfHandle \/ ControlHandle
           \/ \E t \in {"tmf", "an", "other"} : SendControl(t)
  BY <1>3, <1>7, ScsiQuietStep
<1>8. CASE RequestqNotify BY <1>3, <1>8, ScsiRequestqStep
<1>9. ASSUME NEW w \in Workers, ScsiEndChains(w) PROVE SC!Keep(y) BY <1>3, <1>9, ScsiEndStep
<1> QED BY <1>1, <1>2, <1>4, <1>5, <1>6, <1>7, <1>8, <1>9 DEF ScsiNext, ScsiDriver, Notify, Worker

(* The virtio SCSI host implements the command service of a controller that  *)
(* always runs, for any number of chains and of worker threads: a chain is   *)
(* returned once, after its ioctl, and a failed one is reported failed       *)
(* (pci_vtscsi_proc()).                                                      *)
THEOREM ScsiImplements ==
    ASSUME Workers # {}, Nil \notin Workers
    PROVE  ScsiSpec => SC!Spec
<1>1. ScsiInit => SC!Init
  BY DEF ScsiInit, SC!Init, ScsiStatus, ScsiWork, ScsiMoving, ScsiBusy
<1>2. ScsiInv /\ [ScsiNext]_scsiVars => [SC!Next]_(SC!vars)
  <2> SUFFICES ASSUME ScsiInv, [ScsiNext]_scsiVars PROVE [SC!Next]_(SC!vars) OBVIOUS
  <2>1. CASE ScsiNext BY <2>1, ScsiSimulation
  <2>2. CASE UNCHANGED scsiVars
    <3>1. scsi' = scsi BY <2>2 DEF scsiVars
    <3>2. ScsiStatus' = ScsiStatus BY <3>1 DEF ScsiStatus, ScsiBusy, ScsiReturned
    <3>3. ScsiWork' = ScsiWork /\ ScsiMoving' = ScsiMoving BY <3>1, <3>2 DEF ScsiWork, ScsiMoving, Handling
    <3> QED BY <3>2, <3>3 DEF SC!vars
  <2> QED BY <2>1, <2>2
<1>3. ScsiInv /\ [ScsiNext]_scsiVars => ScsiInv' BY ScsiStep
<1>4. QED BY <1>1, <1>2, <1>3, ScsiInitInv, PTL DEF ScsiSpec, SC!Spec

(* Every chain the driver has out is available, in the list of requests,     *)
(* with one worker or returned, exactly once (pci_vtscsi_requestq_notify(),  *)
(* pci_vtscsi_proc()).                                                       *)
THEOREM ScsiAccountedAlways ==
    ASSUME Workers # {}, Nil \notin Workers, Nil \notin Tags
    PROVE  ScsiSpec => []ScsiAccounted
<1>1. ScsiInv => ScsiAccounted
  <2> SUFFICES ASSUME ScsiInv, NEW c \in scsi.busy
      PROVE Cardinality({i \in 1..Len(scsi.avail) : scsi.avail[i] = c}) + Cardinality({i \in 1..Len(scsi.requests) : scsi.requests[i] = c})
            + Cardinality({w \in Workers : scsi.cur[w] = c /\ scsi.at[w] # "end"}) + (IF c \in scsi.used THEN 1 ELSE 0) = 1
    BY DEF ScsiAccounted
  <2>1. scsi.avail \in Seq(Tags) /\ NoDup(scsi.avail) /\ scsi.requests \in Seq(Tags) /\ NoDup(scsi.requests) /\ c \in Tags
    BY DEF ScsiInv, ScsiTypes, ScsiPlaces
  <2>2. Cardinality({i \in 1..Len(scsi.avail) : scsi.avail[i] = c}) = IF In(scsi.avail, c) THEN 1 ELSE 0
    BY <2>1, CountInRing
  <2>3. Cardinality({i \in 1..Len(scsi.requests) : scsi.requests[i] = c}) = IF In(scsi.requests, c) THEN 1 ELSE 0
    BY <2>1, CountInRing
  <2>4. \A w \in Workers : (scsi.cur[w] = c /\ scsi.at[w] # "end") <=> Holds(w, c)
    BY <2>1 DEF ScsiInv, ScsiTypes, ScsiPlaces, Holds
  <2>5. Cardinality({w \in Workers : scsi.cur[w] = c /\ scsi.at[w] # "end"}) = IF Held(c) THEN 1 ELSE 0
    <3>1. CASE Held(c)
      <4>1. PICK w \in Workers : Holds(w, c) BY <3>1 DEF Held
      <4>2. {u \in Workers : scsi.cur[u] = c /\ scsi.at[u] # "end"} = {w} BY <2>1, <2>4, <4>1 DEF ScsiInv, ScsiPlaces
      <4>3. Cardinality({w}) = 1 BY FS_Singleton
      <4> QED BY <3>1, <4>2, <4>3
    <3>2. CASE ~Held(c)
      <4>1. {u \in Workers : scsi.cur[u] = c /\ scsi.at[u] # "end"} = {} BY <2>4, <3>2 DEF Held
      <4> QED BY <3>2, <4>1, FS_EmptySet
    <3> QED BY <3>1, <3>2
  <2> QED BY <2>1, <2>2, <2>3, <2>5 DEF ScsiInv, ScsiPlaces, Held
<1>2. ScsiInv /\ [ScsiNext]_scsiVars => ScsiInv' BY ScsiStep
<1>3. QED BY <1>1, <1>2, ScsiInitInv, PTL DEF ScsiSpec

(* No request waits in the list while every worker sleeps, and a returned    *)
(* chain has its interrupt raised or about to be: pthread_cond_signal() for  *)
(* each request and vq_endchains() for each chain are enough.                *)
THEOREM ScsiAnnouncedAlways ==
    ASSUME Workers # {}, Nil \notin Workers
    PROVE  ScsiSpec => []ScsiNoLostInterrupt
<1>1. ScsiInv => ScsiNoLostInterrupt BY DEF ScsiInv, ScsiSignals, ScsiNoLostInterrupt
<1>2. ScsiInv /\ [ScsiNext]_scsiVars => ScsiInv' BY ScsiStep
<1>3. QED BY <1>1, <1>2, ScsiInitInv, PTL DEF ScsiSpec
=============================================================================
