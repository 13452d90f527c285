----------------------------- MODULE NvmeProofs -----------------------------
(* Proofs about the I/O queue pair of pci_nvme.c: its requests are accounted  *)
(* for, the completion queue and the guest agree on the phases, no completion *)
(* waits for an interrupt that was not sent, and the queue pair implements    *)
(* the command service; and about the admin queue: its completions are       *)
(* announced, and it grants no queue the controller does not have.           *)
EXTENDS Nvme, FiniteSetTheorems, TLAPS

CONSTANTS AdminSize, MaxQueues, MaxAdmin   \* of the admin queue

\* What the code fixes: a queue has entries, and a number of requests is made.
Params ==
    /\ IsFiniteSet(Tags) /\ None \notin Tags
    /\ CqSize \in Nat /\ CqSize > 0 /\ IoSlots \in Nat /\ MaxRanges \in Nat /\ GuestOps \in Nat

In(s, x) == \E i \in 1..Len(s) : s[i] = x
NoDup(s) == \A i, j \in 1..Len(s) : s[i] = s[j] => i = j

(* What a queue holds after a command is appended to it.                     *)
LEMMA Appended ==
    ASSUME NEW T, NEW s \in Seq(T), NEW c \in T
    PROVE  /\ Append(s, c) \in Seq(T) /\ Len(Append(s, c)) = Len(s) + 1 /\ Len(s) \in Nat
           /\ Append(s, c)[Len(s) + 1] = c /\ \A i \in 1..Len(s) : Append(s, c)[i] = s[i]
           /\ \A x : In(Append(s, c), x) <=> In(s, x) \/ x = c
           /\ NoDup(s) /\ ~In(s, c) => NoDup(Append(s, c))
<1> DEFINE t == Append(s, c)
<1>1. t \in Seq(T) /\ Len(t) = Len(s) + 1 /\ t[Len(s) + 1] = c /\ \A i \in 1..Len(s) : t[i] = s[i]
  OBVIOUS
<1>2. Len(s) \in Nat
  OBVIOUS
<1> HIDE DEF t
<1>3. \A x : In(t, x) <=> In(s, x) \/ x = c
  BY <1>1, <1>2 DEF In
<1>4. NoDup(s) /\ ~In(s, c) => NoDup(t)
  BY <1>1, <1>2 DEF In, NoDup
<1> QED BY <1>1, <1>2, <1>3, <1>4 DEF t

(* What a queue holds after its first command is taken.                      *)
LEMMA Taken ==
    ASSUME NEW T, NEW s \in Seq(T), s # <<>>
    PROVE  /\ Tail(s) \in Seq(T) /\ Head(s) \in T /\ In(s, Head(s)) /\ Head(s) = s[1]
           /\ Len(s) = Len(Tail(s)) + 1 /\ Len(Tail(s)) \in Nat
           /\ \A i \in 1..Len(Tail(s)) : Tail(s)[i] = s[i + 1]
           /\ NoDup(s) => NoDup(Tail(s)) /\ ~In(Tail(s), Head(s))
           /\ \A x : In(s, x) <=> In(Tail(s), x) \/ x = Head(s)
<1> DEFINE t == Tail(s)
<1>1. /\ t \in Seq(T) /\ Head(s) \in T /\ Head(s) = s[1]
      /\ Len(s) = Len(t) + 1 /\ \A i \in 1..Len(t) : t[i] = s[i + 1]
  OBVIOUS
<1>2. Len(t) \in Nat
  OBVIOUS
<1>3. 1 \in 1..Len(s)
  BY <1>1, <1>2
<1> HIDE DEF t
<1>4. In(s, Head(s))
  BY <1>1, <1>3 DEF In
<1>5. ASSUME NEW x PROVE In(s, x) <=> In(t, x) \/ x = Head(s)
  <2>1. ASSUME In(t, x) PROVE In(s, x)
    <3>1. PICK i \in 1..Len(t) : t[i] = x BY <2>1 DEF In
    <3>2. i + 1 \in 1..Len(s) /\ s[i + 1] = x BY <3>1, <1>1, <1>2
    <3> QED BY <3>2 DEF In
  <2>2. ASSUME In(s, x), x # Head(s) PROVE In(t, x)
    <3>1. PICK i \in 1..Len(s) : s[i] = x BY <2>2 DEF In
    <3>2. i # 1 BY <3>1, <2>2, <1>1
    <3>3. i - 1 \in 1..Len(t) /\ t[i - 1] = s[(i - 1) + 1] BY <3>2, <1>1, <1>2
    <3>4. (i - 1) + 1 = i BY <1>2, <1>1
    <3> QED BY <3>1, <3>3, <3>4 DEF In
  <2> QED BY <2>1, <2>2, <1>4
<1>6. ASSUME NoDup(s) PROVE NoDup(t) /\ ~In(t, Head(s))
  <2>1. ASSUME NEW i \in 1..Len(t), NEW j \in 1..Len(t), t[i] = t[j] PROVE i = j
    <3>1. i + 1 \in 1..Len(s) /\ j + 1 \in 1..Len(s) /\ s[i + 1] = s[j + 1] BY <2>1, <1>1, <1>2
    <3>2. i + 1 = j + 1 BY <3>1, <1>6 DEF NoDup
    <3> QED BY <3>2, <1>2
  <2>2. ASSUME NEW i \in 1..Len(t), t[i] = Head(s) PROVE FALSE
    <3>1. i + 1 \in 1..Len(s) /\ s[i + 1] = s[1] BY <2>2, <1>1, <1>2
    <3>2. i + 1 = 1 BY <3>1, <1>3, <1>6 DEF NoDup
    <3> QED BY <3>2, <1>2
  <2> QED BY <2>1, <2>2 DEF NoDup, In
<1> QED BY <1>1, <1>2, <1>4, <1>5, <1>6 DEF t

(* A queue without repetitions is no longer than the set it is drawn from.   *)
LEMMA LengthBound ==
    ASSUME NEW T, NEW s \in Seq(T), NoDup(s), NEW O, IsFiniteSet(O), \A x : In(s, x) => x \in O
    PROVE  Len(s) \in Nat /\ Len(s) <= Cardinality(O)
<1> DEFINE n == Len(s)
           f == [i \in 1..n |-> s[i]]
<1>1. n \in Nat OBVIOUS
<1> HIDE DEF n
<1>2. \A i \in 1..n : s[i] \in O BY DEF In, n
<1>3. \A i, j \in 1..n : s[i] = s[j] => i = j BY DEF NoDup, n
<1>4. f \in Injection(1..n, O) BY <1>2, <1>3 DEF Injection, IsInjective
<1> HIDE DEF f
<1>5. Cardinality(1..n) <= Cardinality(O) BY <1>4, FS_Injection
<1>6. Cardinality(1..n) = n BY <1>1, FS_Interval
<1> QED BY <1>1, <1>5, <1>6 DEF n

(* The indices of the completion queue, for less than two rounds of it.      *)
LEMMA Wrap ==
    ASSUME Params, NEW a \in Nat, a < 2 * CqSize
    PROVE  a % CqSize = IF a < CqSize THEN a ELSE a - CqSize
<1>1. CqSize \in Nat /\ CqSize > 0 BY DEF Params
<1>2. CASE a < CqSize BY <1>1, <1>2
<1>3. CASE ~(a < CqSize)
  <2>1. a - CqSize \in Nat /\ a - CqSize < CqSize BY <1>1, <1>3
  <2>2. (a - CqSize) % CqSize = a - CqSize BY <1>1, <2>1
  <2>3. a = CqSize * (a \div CqSize) + (a % CqSize) /\ a % CqSize \in 0..(CqSize - 1) /\ a \div CqSize \in Int
    BY <1>1
  <2>4. a \div CqSize = 1
    <3> DEFINE q == a \div CqSize
    <3>1. q \in Int /\ a = CqSize * q + (a % CqSize) BY <2>3
    <3> HIDE DEF q
    <3>2. q >= 2 => CqSize * q >= CqSize * 2 BY <1>1, <3>1
    <3>3. q <= 0 => CqSize * q <= 0 BY <1>1, <3>1
    <3>4. q = 1 BY <1>1, <1>3, <2>3, <3>1, <3>2, <3>3
    <3> QED BY <3>4 DEF q
  <2> QED BY <1>1, <1>3, <2>3, <2>4
<1> QED BY <1>2, <1>3

-----------------------------------------------------------------------------
(* The inductive invariant                                                  *)

Reqs == {None, "queued", "busy", "held"}
Dbs  == {"off", "loop", "leave", "part", "sleep", "woken"}

Types ==
    /\ sc = [en |-> sc.en, rdy |-> sc.rdy, cqLive |-> sc.cqLive, sqLive |-> sc.sqLive, ram |-> sc.ram,
             bound |-> sc.bound, gone |-> sc.gone, stray |-> sc.stray, dead |-> sc.dead,
             sq |-> sc.sq, db |-> sc.db, kind |-> sc.kind, work |-> sc.work, req |-> sc.req,
             posting |-> sc.posting, sem |-> sc.sem, pending |-> sc.pending,
             cq |-> sc.cq, tail |-> sc.tail, head |-> sc.head, msix |-> sc.msix, isr |-> sc.isr,
             ghead |-> sc.ghead, gphase |-> sc.gphase, posted |-> sc.posted, failed |-> sc.failed, ops |-> sc.ops]
    /\ sc.en \in BOOLEAN /\ sc.rdy \in BOOLEAN /\ sc.cqLive \in BOOLEAN /\ sc.sqLive \in BOOLEAN
    /\ sc.ram \in BOOLEAN /\ sc.msix \in BOOLEAN /\ sc.isr \in BOOLEAN
    /\ sc.sq \in Seq(Tags) /\ sc.posted \in Seq(Tags) /\ sc.failed \in SUBSET Tags
    /\ sc.bound \in BOOLEAN /\ sc.gone \in SUBSET {"sq", "cq"} /\ sc.stray \in BOOLEAN /\ sc.dead \in BOOLEAN
    /\ sc.db \in Dbs /\ sc.kind \in [Tags -> Kinds \cup {None}]
    /\ sc.work \in [Tags -> 0..MaxRanges] /\ sc.req \in [Tags -> Reqs]
    /\ sc.posting \in Nat /\ sc.sem \in Nat /\ sc.pending \in Nat
    /\ sc.cq \in [0..(CqSize - 1) -> Entry]
    /\ sc.tail \in 0..(CqSize - 1) /\ sc.head \in 0..(CqSize - 1) /\ sc.ghead \in 0..(CqSize - 1)
    /\ sc.gphase \in {0, 1} /\ sc.ops \in 0..GuestOps

\* A command is in the submission queue, at the backend or in the completion
\* queue, and in one of them only; what remains of it is what its kind asks for.
Places ==
    /\ NoDup(sc.sq) /\ NoDup(sc.posted)
    /\ \A t \in Tags :
        /\ In(sc.sq, t) => /\ sc.kind[t] # None /\ sc.req[t] = None /\ ~In(sc.posted, t)
                           /\ (sc.kind[t] \in {"dsm", "large"} <=> sc.work[t] > 1)
                           /\ (sc.kind[t] = "rw" <=> sc.work[t] = 1)
        /\ In(sc.posted, t) => sc.kind[t] # None /\ sc.req[t] = None
        /\ sc.req[t] # None => sc.kind[t] # None /\ ~sc.ram /\ sc.work[t] >= 1
        /\ sc.kind[t] # None => In(sc.sq, t) \/ In(sc.posted, t) \/ sc.req[t] # None
        /\ t \in sc.failed => In(sc.posted, t)

\* The I/O completion queue was created since the reset.
Made == sc.cqLive \/ "cq" \in sc.gone

\* Commands are handled only while both queues are there. After a reset the
\* requests in flight have nothing in the queues, and the controller is ready
\* only once the last of them is gone.
Live ==
    /\ (sc.db # "off" => sc.sqLive) /\ (sc.sqLive => sc.cqLive /\ sc.bound)
    /\ (sc.bound => Made /\ sc.rdy) /\ (sc.isr => Made) /\ (sc.rdy => sc.en)
    /\ ~sc.bound => sc.sq = <<>> /\ sc.posted = <<>>
    /\ sc.rdy /\ ~sc.bound => sc.pending = 0

\* The commands with no completion yet, and the completions the guest has not
\* acknowledged, fit into the completion queue.
Unposted == {t \in Outstanding : ~In(sc.posted, t)}
Unacked  == (sc.tail - sc.head + CqSize) % CqSize
Room ==
    /\ Cardinality(Outstanding) <= CqSize - 1
    /\ Cardinality(Unposted) + Unacked <= CqSize - 1

\* The entry i places after the guest's head, and the phase the guest expects in it.
Pos(g, i)    == IF g + i >= CqSize THEN g + i - CqSize ELSE g + i
Exp(g, f, i) == IF g + i >= CqSize THEN 1 - f ELSE f

\* The whole completion queue: the posted entries have the phase the guest
\* expects, all others the opposite one, so that an entry turns valid when it
\* is written and at no other time.
Phases ==
    IF Made
    THEN /\ sc.tail = Pos(sc.ghead, Len(sc.posted))
         /\ \A i \in 0..(CqSize - 1) :
              IF i < Len(sc.posted)
              THEN /\ sc.cq[Pos(sc.ghead, i)].cid = sc.posted[i + 1]
                   /\ sc.cq[Pos(sc.ghead, i)].phase = Exp(sc.ghead, sc.gphase, i)
              ELSE sc.cq[Pos(sc.ghead, i)].phase = 1 - Exp(sc.ghead, sc.gphase, i)
    ELSE sc.tail = 0

Queue == Places /\ Live /\ Room /\ Phases /\ NoLostInterrupt

\* While the guest rings the doorbell under a lock, only a thread that is still
\* in its loop leaves commands in the submission queue.
Handled == Locked => (sc.db \in {"off", "leave"} => sc.sq = <<>>)

Inv == Types /\ Queue /\ Handled /\ Accounted

LEMMA OutFinite ==
    ASSUME Params
    PROVE  /\ IsFiniteSet(Outstanding) /\ IsFiniteSet(Unposted) /\ Cardinality(Outstanding) \in Nat
           /\ Cardinality(Unposted) \in Nat
           /\ IsFiniteSet({t \in Tags : sc.req[t] # None}) /\ Cardinality({t \in Tags : sc.req[t] # None}) \in Nat
<1> DEFINE R == {t \in Tags : sc.req[t] # None}
<1>1. Outstanding \in SUBSET Tags /\ Unposted \in SUBSET Tags /\ R \in SUBSET Tags BY DEF Outstanding, Unposted
<1> HIDE DEF R
<1>2. IsFiniteSet(Outstanding) /\ IsFiniteSet(Unposted) /\ IsFiniteSet(R) BY <1>1, FS_Subset DEF Params
<1>3. /\ Cardinality(Outstanding) \in Nat /\ Cardinality(Unposted) \in Nat /\ Cardinality(R) \in Nat
  BY <1>2, FS_CardinalityType
<1> QED BY <1>2, <1>3 DEF R

\* No completion is lost for want of room: fewer are posted than there are entries.
LEMMA PostedBound ==
    ASSUME Params, Types, Places, Room
    PROVE  Len(sc.posted) \in Nat /\ Len(sc.posted) <= CqSize - 1
<1>1. \A x : In(sc.posted, x) => x \in Outstanding
  <2>1. \A x : In(sc.posted, x) => x \in Tags BY DEF Types, In
  <2> QED BY <2>1 DEF Places, Outstanding
<1>2. IsFiniteSet(Outstanding) /\ Cardinality(Outstanding) \in Nat BY OutFinite
<1>3. sc.posted \in Seq(Tags) /\ NoDup(sc.posted) BY DEF Types, Places
<1>4. Len(sc.posted) \in Nat /\ Len(sc.posted) <= Cardinality(Outstanding)
  BY <1>1, <1>2, <1>3, LengthBound
<1> QED BY <1>2, <1>4 DEF Room, Params

LEMMA InitInv == Params /\ Init => Inv
<1> SUFFICES ASSUME Params, Init PROVE Inv OBVIOUS
<1>1. PICK ram \in BOOLEAN :
        sc = [en |-> FALSE, rdy |-> FALSE, cqLive |-> FALSE, sqLive |-> FALSE, ram |-> ram,
              bound |-> FALSE, gone |-> {}, stray |-> FALSE, dead |-> FALSE, sq |-> <<>>, db |-> "off",
              kind |-> [t \in Tags |-> None], work |-> [t \in Tags |-> 0],
              req |-> [t \in Tags |-> None], posting |-> 0, sem |-> IoSlots, pending |-> 0,
              cq |-> EmptyCq, tail |-> 0, head |-> 0, msix |-> FALSE, isr |-> FALSE,
              ghead |-> 0, gphase |-> 1, posted |-> <<>>, failed |-> {}, ops |-> 0]
  BY DEF Init
<1>2. EmptyCq \in [0..(CqSize - 1) -> Entry] /\ \A i \in 0..(CqSize - 1) : EmptyCq[i].phase = 0
  BY DEF EmptyCq, Entry
<1>3. Types
  <2>1. /\ sc.en = FALSE /\ sc.rdy = FALSE /\ sc.cqLive = FALSE /\ sc.sqLive = FALSE /\ sc.ram = ram
        /\ sc.sq = <<>> /\ sc.db = "off" /\ sc.posting = 0 /\ sc.sem = IoSlots /\ sc.pending = 0
        /\ sc.cq = EmptyCq /\ sc.tail = 0 /\ sc.head = 0 /\ sc.msix = FALSE /\ sc.isr = FALSE
        /\ sc.ghead = 0 /\ sc.gphase = 1 /\ sc.posted = <<>> /\ sc.failed = {} /\ sc.ops = 0
        /\ sc.bound = FALSE /\ sc.gone = {} /\ sc.stray = FALSE /\ sc.dead = FALSE
    BY <1>1
  <2>2. /\ sc.kind = [t \in Tags |-> None] /\ sc.work = [t \in Tags |-> 0] /\ sc.req = [t \in Tags |-> None]
    BY <1>1
  <2>3. /\ sc.kind \in [Tags -> Kinds \cup {None}] /\ sc.work \in [Tags -> 0..MaxRanges]
        /\ sc.req \in [Tags -> Reqs]
    BY <2>2 DEF Params, Reqs
  <2>4. <<>> \in Seq(Tags) /\ 0 \in 0..(CqSize - 1) /\ 0 \in 0..GuestOps /\ IoSlots \in Nat
    BY DEF Params
  <2>5. sc = [en |-> sc.en, rdy |-> sc.rdy, cqLive |-> sc.cqLive, sqLive |-> sc.sqLive, ram |-> sc.ram,
             bound |-> sc.bound, gone |-> sc.gone, stray |-> sc.stray, dead |-> sc.dead,
             sq |-> sc.sq, db |-> sc.db, kind |-> sc.kind, work |-> sc.work, req |-> sc.req,
             posting |-> sc.posting, sem |-> sc.sem, pending |-> sc.pending,
             cq |-> sc.cq, tail |-> sc.tail, head |-> sc.head, msix |-> sc.msix, isr |-> sc.isr,
             ghead |-> sc.ghead, gphase |-> sc.gphase, posted |-> sc.posted, failed |-> sc.failed, ops |-> sc.ops]
    BY <1>1, <2>1, <2>2
  <2>6. /\ sc.en \in BOOLEAN /\ sc.rdy \in BOOLEAN /\ sc.cqLive \in BOOLEAN /\ sc.sqLive \in BOOLEAN
        /\ sc.ram \in BOOLEAN /\ sc.msix \in BOOLEAN /\ sc.isr \in BOOLEAN
        /\ sc.bound \in BOOLEAN /\ sc.stray \in BOOLEAN /\ sc.dead \in BOOLEAN
    BY <2>1
  <2>7. sc.db \in Dbs /\ sc.gone \in SUBSET {"sq", "cq"} /\ sc.failed \in SUBSET Tags BY <2>1 DEF Dbs
  <2> QED BY <1>2, <2>1, <2>3, <2>4, <2>5, <2>6, <2>7 DEF Types
<1>4. \A t \in Tags : sc.kind[t] = None /\ sc.req[t] = None
  BY <1>1
<1>5. /\ sc.sq = <<>> /\ sc.posted = <<>> /\ Len(sc.posted) = 0 /\ sc.failed = {} /\ ~sc.sqLive /\ ~sc.cqLive
      /\ sc.db = "off" /\ ~sc.bound /\ ~sc.isr /\ ~sc.rdy /\ sc.gone = {}
  BY <1>1
<1>6. Outstanding = {} /\ Unposted = {} /\ {t \in Tags : sc.req[t] # None} = {}
  BY <1>4 DEF Outstanding, Unposted
<1>7. Cardinality({}) = 0 BY FS_EmptySet
<1>8. Places
  BY <1>4, <1>5 DEF Places, NoDup, In
<1>9. Live BY <1>5 DEF Live
<1>10. Room
  <2>1. sc.tail = 0 /\ sc.head = 0 BY <1>1
  <2>2. CqSize % CqSize = 0 BY Wrap DEF Params
  <2>3. Unacked = 0 BY <2>1, <2>2 DEF Unacked, Params
  <2> QED BY <1>6, <1>7, <2>3 DEF Room, Params
<1>11. Phases
  <2>1. sc.tail = 0 BY <1>1
  <2> QED BY <1>5, <2>1 DEF Phases, Made
<1>12. NoLostInterrupt /\ Handled BY <1>5 DEF NoLostInterrupt, Handled
<1>13. Accounted
  <2>1. sc.pending = 0 /\ sc.posting = 0 /\ sc.sem = IoSlots BY <1>1
  <2> QED BY <1>6, <1>7, <2>1 DEF Accounted, Params
<1> QED BY <1>3, <1>8, <1>9, <1>10, <1>11, <1>12, <1>13 DEF Inv, Queue

-----------------------------------------------------------------------------
(* Registers, admin commands and the steps that move no command              *)

LEMMA UnackedRange ==
    ASSUME Params, Types
    PROVE  Unacked \in 0..(CqSize - 1)
<1>1. sc.tail - sc.head + CqSize \in Nat /\ CqSize \in Nat /\ CqSize > 0 BY DEF Types, Params
<1> QED BY <1>1 DEF Unacked

\* The books of the queues depend on these fields only.
SameQueues ==
    /\ sc'.ram = sc.ram /\ sc'.sq = sc.sq /\ sc'.kind = sc.kind /\ sc'.work = sc.work /\ sc'.req = sc.req
    /\ sc'.posted = sc.posted /\ sc'.failed = sc.failed
SameCq ==
    /\ sc'.cq = sc.cq /\ sc'.tail = sc.tail /\ sc'.head = sc.head /\ sc'.ghead = sc.ghead
    /\ sc'.gphase = sc.gphase /\ (Made' <=> Made)

LEMMA FramePlaces ==
    ASSUME Places, SameQueues
    PROVE  Places' /\ Outstanding' = Outstanding /\ Unposted' = Unposted
<1>1. Places' BY DEF Places, SameQueues
<1>2. Outstanding' = Outstanding BY DEF Outstanding, SameQueues
<1>3. Unposted' = Unposted BY <1>2 DEF Unposted, SameQueues
<1> QED BY <1>1, <1>2, <1>3

LEMMA FrameCq ==
    ASSUME Room, Phases, SameQueues, SameCq, Outstanding' = Outstanding, Unposted' = Unposted
    PROVE  Room' /\ Phases'
<1>1. Unacked' = Unacked BY DEF Unacked, SameCq
<1>2. Room' BY <1>1 DEF Room
<1>3. Phases' BY DEF Phases, SameQueues, SameCq
<1> QED BY <1>2, <1>3

LEMMA FrameBooks ==
    ASSUME Accounted, sc'.req = sc.req, sc'.posting = sc.posting, sc'.sem = sc.sem, sc'.pending = sc.pending
    PROVE  Accounted'
BY DEF Accounted

\* Once the requests of before a reset are gone, no command is out.
LEMMA AllGone ==
    ASSUME Params, Inv, sc.bound = FALSE, sc.pending = sc.posting
    PROVE  Outstanding = {} /\ \A t \in Tags : sc.req[t] = None /\ sc.kind[t] = None
<1> DEFINE R == {t \in Tags : sc.req[t] # None}
<1>1. IsFiniteSet(R) /\ Cardinality(R) \in Nat BY OutFinite
<1>2. sc.pending = Cardinality(R) + sc.posting /\ sc.posting \in Nat BY DEF Inv, Accounted, Types
<1>3. R = {}
  <2> HIDE DEF R
  <2>1. Cardinality(R) = 0 BY <1>1, <1>2
  <2> QED BY <1>1, <2>1, FS_EmptySet
<1>4. \A t \in Tags : sc.req[t] = None BY <1>3
<1>5. sc.sq = <<>> /\ sc.posted = <<>> BY DEF Inv, Queue, Live
<1>6. \A t : ~In(sc.sq, t) /\ ~In(sc.posted, t) BY <1>5 DEF In
<1>7. \A t \in Tags : sc.kind[t] = None BY <1>4, <1>6 DEF Inv, Queue, Places
<1> QED BY <1>4, <1>7 DEF Outstanding

\* Steps of the registers, of the doorbell's thread and of the handler.
Quiet == Enable \/ CreateIoSq \/ DeleteIoSq \/ DeleteIoCq \/ LoopEnds \/ PartSleep \/ Unbusy \/ IsrEnter

LEMMA QuietStep ==
    ASSUME Params, Inv, Quiet
    PROVE  Inv' /\ SameQueues /\ (sc'.bound = sc.bound \/ Outstanding = {})
<1> USE DEF Inv, Queue, Quiet
<1>1. /\ SameQueues /\ SameCq /\ sc'.posting = sc.posting /\ sc'.sem = sc.sem /\ sc'.pending = sc.pending
  <2>1. CASE Enable BY <2>1 DEF Enable, SameQueues, SameCq, Types, Made
  <2>2. CASE CreateIoSq BY <2>2 DEF CreateIoSq, SameQueues, SameCq, Types, Made
  <2>3. CASE DeleteIoSq BY <2>3 DEF DeleteIoSq, SameQueues, SameCq, Types, Made
  <2>4. CASE LoopEnds BY <2>4 DEF LoopEnds, SameQueues, SameCq, Types, Made
  <2>5. CASE Unbusy BY <2>5 DEF Unbusy, SameQueues, SameCq, Types, Made
  <2>6. CASE IsrEnter BY <2>6 DEF IsrEnter, SameQueues, SameCq, Types, Made
  <2>7. CASE DeleteIoCq BY <2>7 DEF DeleteIoCq, SameQueues, SameCq, Types, Made
  <2>8. CASE PartSleep BY <2>8 DEF PartSleep, SameQueues, SameCq, Types, Made
  <2> QED BY <2>1, <2>2, <2>3, <2>4, <2>5, <2>6, <2>7, <2>8
<1>2. Types'
  <2>1. CASE Enable BY <1>1, <2>1 DEF Enable, Types, SameQueues, SameCq
  <2>2. CASE CreateIoSq BY <1>1, <2>2 DEF CreateIoSq, Types, SameQueues, SameCq
  <2>3. CASE DeleteIoSq BY <1>1, <2>3 DEF DeleteIoSq, Types, SameQueues, SameCq
  <2>4. CASE LoopEnds BY <1>1, <2>4 DEF LoopEnds, Types, SameQueues, SameCq, Dbs
  <2>5. CASE Unbusy BY <1>1, <2>5 DEF Unbusy, Types, SameQueues, SameCq, Dbs
  <2>6. CASE IsrEnter BY <1>1, <2>6 DEF IsrEnter, Types, SameQueues, SameCq
  <2>7. CASE DeleteIoCq BY <1>1, <2>7 DEF DeleteIoCq, Types, SameQueues, SameCq
  <2>8. CASE PartSleep BY <1>1, <2>8 DEF PartSleep, Types, SameQueues, SameCq, Dbs
  <2> QED BY <2>1, <2>2, <2>3, <2>4, <2>5, <2>6, <2>7, <2>8
<1>3. Places' /\ Outstanding' = Outstanding /\ Unposted' = Unposted BY <1>1, FramePlaces
<1>4. Room' /\ Phases' BY <1>1, <1>3, FrameCq
<1>5. Accounted' BY <1>1, FrameBooks DEF SameQueues
<1>6. Live'
  <2>1. /\ sc'.sq = sc.sq /\ sc'.posted = sc.posted /\ sc'.pending = sc.pending /\ (Made' <=> Made)
    BY <1>1 DEF SameQueues, SameCq
  <2>2. CASE Enable BY <2>1, <2>2 DEF Enable, Live, Types
  <2>3. CASE CreateIoSq BY <2>1, <2>3 DEF CreateIoSq, Live, Types, Made
  <2>4. CASE DeleteIoSq BY <2>1, <2>4 DEF DeleteIoSq, Live, Types
  <2>5. CASE DeleteIoCq BY <2>1, <2>5 DEF DeleteIoCq, Live, Types
  <2>6. CASE LoopEnds \/ PartSleep \/ Unbusy BY <2>1, <2>6 DEF LoopEnds, PartSleep, Unbusy, Live, Types
  <2>7. CASE IsrEnter BY <2>1, <2>7 DEF IsrEnter, Live, Types, Made
  <2> QED BY <2>2, <2>3, <2>4, <2>5, <2>6, <2>7
<1>7. NoLostInterrupt'
  <2>1. (sc'.msix = sc.msix /\ sc'.isr = sc.isr) \/ sc'.isr
    BY DEF Enable, CreateIoSq, DeleteIoSq, DeleteIoCq, LoopEnds, PartSleep, Unbusy, IsrEnter, Types
  <2> QED BY <2>1, <1>1 DEF NoLostInterrupt, SameQueues
<1>8. Handled'
  <2>1. sc'.db = sc.db \/ sc.sq = <<>> \/ sc.db = "leave" \/ sc'.db = "sleep"
    BY DEF Enable, CreateIoSq, DeleteIoSq, DeleteIoCq, LoopEnds, PartSleep, Unbusy, IsrEnter, Types
  <2> QED BY <2>1, <1>1 DEF Handled, SameQueues
<1>9. sc'.bound = sc.bound \/ Outstanding = {}
  <2>1. CASE CreateIoSq /\ sc.bound = FALSE
    <3>1. sc.pending = 0 BY <2>1 DEF CreateIoSq, Live
    <3>2. sc.posting = 0
      <4>1. sc.posting \in Nat /\ Cardinality({t \in Tags : sc.req[t] # None}) \in Nat BY OutFinite DEF Types
      <4> QED BY <3>1, <4>1 DEF Accounted
    <3> QED BY <2>1, <3>1, <3>2, AllGone
  <2>2. CASE ~(CreateIoSq /\ sc.bound = FALSE)
    BY <2>2 DEF Enable, CreateIoSq, DeleteIoSq, DeleteIoCq, LoopEnds, PartSleep, Unbusy, IsrEnter, Types
  <2> QED BY <2>1, <2>2
<1> QED BY <1>1, <1>2, <1>3, <1>4, <1>5, <1>6, <1>7, <1>8, <1>9

\* pci_nvme_reset_locked() empties the queues and leaves the requests alone.
LEMMA DisableStep ==
    ASSUME Params, Inv, Disable
    PROVE  /\ Inv' /\ sc'.bound = FALSE /\ sc'.en = FALSE /\ sc'.req = sc.req
           /\ \A t \in Tags : sc'.kind[t] = IF sc.req[t] = None THEN None ELSE sc.kind[t]
<1> USE DEF Inv, Queue
<1> DEFINE k == [t \in Tags |-> IF sc.req[t] = None THEN None ELSE sc.kind[t]]
           w == [t \in Tags |-> IF sc.req[t] = None THEN 0 ELSE sc.work[t]]
           n == sc.ops + 1
<1>1. /\ sc.db = "off" /\ sc.ops < GuestOps
      /\ sc' = [sc EXCEPT !.en = FALSE, !.rdy = FALSE, !.sqLive = FALSE, !.cqLive = FALSE, !.bound = FALSE,
                          !.gone = {}, !.stray = FALSE, !.sq = <<>>, !.tail = 0, !.head = 0,
                          !.kind = k, !.work = w, !.posted = <<>>, !.failed = {},
                          !.isr = FALSE, !.ops = n]
  BY DEF Disable
<1>2. /\ k \in [Tags -> Kinds \cup {None}] /\ w \in [Tags -> 0..MaxRanges] /\ n \in 0..GuestOps
      /\ 0 \in 0..(CqSize - 1) /\ <<>> \in Seq(Tags)
  BY <1>1 DEF Types, Params
<1>3. \A t \in Tags : /\ k[t] = (IF sc.req[t] = None THEN None ELSE sc.kind[t])
                      /\ w[t] = IF sc.req[t] = None THEN 0 ELSE sc.work[t]
  OBVIOUS
<1> HIDE DEF k, w, n
<1>4. /\ sc'.en = FALSE /\ sc'.rdy = FALSE /\ sc'.sqLive = FALSE /\ sc'.cqLive = FALSE /\ sc'.bound = FALSE
      /\ sc'.gone = {} /\ sc'.stray = FALSE /\ sc'.sq = <<>> /\ sc'.tail = 0 /\ sc'.head = 0 /\ sc'.kind = k
      /\ sc'.work = w /\ sc'.posted = <<>> /\ sc'.failed = {} /\ sc'.isr = FALSE /\ sc'.ops = n
  BY <1>1 DEF Types
<1>5. /\ sc'.ram = sc.ram /\ sc'.dead = sc.dead /\ sc'.db = sc.db /\ sc'.req = sc.req /\ sc'.posting = sc.posting
      /\ sc'.sem = sc.sem /\ sc'.pending = sc.pending /\ sc'.cq = sc.cq /\ sc'.msix = sc.msix
      /\ sc'.ghead = sc.ghead /\ sc'.gphase = sc.gphase
  BY <1>1 DEF Types
<1>6. Types'
  <2>1. sc' = [en |-> sc'.en, rdy |-> sc'.rdy, cqLive |-> sc'.cqLive, sqLive |-> sc'.sqLive, ram |-> sc'.ram,
             bound |-> sc'.bound, gone |-> sc'.gone, stray |-> sc'.stray, dead |-> sc'.dead,
             sq |-> sc'.sq, db |-> sc'.db, kind |-> sc'.kind, work |-> sc'.work, req |-> sc'.req,
             posting |-> sc'.posting, sem |-> sc'.sem, pending |-> sc'.pending,
             cq |-> sc'.cq, tail |-> sc'.tail, head |-> sc'.head, msix |-> sc'.msix, isr |-> sc'.isr,
             ghead |-> sc'.ghead, gphase |-> sc'.gphase, posted |-> sc'.posted, failed |-> sc'.failed, ops |-> sc'.ops]
    BY <1>1 DEF Types
  <2>2. /\ sc'.en \in BOOLEAN /\ sc'.rdy \in BOOLEAN /\ sc'.cqLive \in BOOLEAN /\ sc'.sqLive \in BOOLEAN
        /\ sc'.isr \in BOOLEAN /\ sc'.bound \in BOOLEAN /\ sc'.stray \in BOOLEAN
        /\ sc'.gone \in SUBSET {"sq", "cq"} /\ sc'.failed \in SUBSET Tags
    BY <1>4
  <2> QED BY <1>2, <1>4, <1>5, <2>1, <2>2 DEF Types
<1>7. \A t : ~In(sc'.sq, t) /\ ~In(sc'.posted, t) BY <1>4 DEF In
<1>8. Places'
  <2>1. NoDup(sc'.sq) /\ NoDup(sc'.posted) BY <1>4 DEF NoDup
  <2> QED BY <1>3, <1>4, <1>5, <1>7, <2>1 DEF Places
<1>9. Room'
  <2>1. Outstanding' \in SUBSET Unposted /\ Unposted' = Outstanding'
    BY <1>3, <1>4, <1>7 DEF Outstanding, Unposted, Places
  <2>2. Cardinality(Outstanding') <= Cardinality(Unposted) /\ Cardinality(Outstanding') \in Nat
    BY <2>1, OutFinite, FS_Subset, FS_CardinalityType
  <2>3. CqSize % CqSize = 0 BY Wrap DEF Params
  <2>4. Unacked' = 0 BY <1>4, <2>3 DEF Unacked, Params
  <2>5. Unacked \in 0..(CqSize - 1) BY UnackedRange
  <2> QED BY <2>1, <2>2, <2>4, <2>5, OutFinite DEF Room, Params
<1>10. Phases' BY <1>4 DEF Phases, Made
<1>11. Live' BY <1>1, <1>4, <1>5 DEF Live
<1>12. NoLostInterrupt' /\ Handled' BY <1>4 DEF NoLostInterrupt, Handled
<1>13. Accounted' BY <1>5, FrameBooks
<1> QED BY <1>3, <1>4, <1>5, <1>6, <1>8, <1>9, <1>10, <1>11, <1>12, <1>13

LEMMA CreateCqStep ==
    ASSUME Params, Inv, CreateIoCq
    PROVE  Inv' /\ SameQueues /\ sc'.bound = sc.bound
<1> USE DEF Inv, Queue
<1>1. /\ ~Made /\ sc'.cqLive = TRUE /\ sc'.sqLive = sc.sqLive /\ SameQueues /\ sc'.cq = EmptyCq /\ sc'.ghead = 0
      /\ sc'.gphase = 1 /\ sc'.tail = sc.tail /\ sc'.head = sc.head /\ sc'.msix = sc.msix /\ sc'.isr = sc.isr
      /\ sc'.posting = sc.posting /\ sc'.sem = sc.sem /\ sc'.pending = sc.pending /\ sc'.db = sc.db
      /\ sc'.bound = sc.bound /\ sc'.rdy = sc.rdy /\ sc'.en = sc.en
  BY DEF CreateIoCq, SameQueues, Types, Made
<1>2. ~sc.bound /\ ~sc.sqLive BY <1>1 DEF Live
<1>3. sc.posted = <<>> /\ Len(sc.posted) = 0 BY <1>2 DEF Live
<1>4. EmptyCq \in [0..(CqSize - 1) -> Entry] /\ \A i \in 0..(CqSize - 1) : EmptyCq[i].phase = 0
  BY DEF EmptyCq, Entry
<1>5. Types'
  <2>1. 0 \in 0..(CqSize - 1) BY DEF Params
  <2> QED BY <1>1, <1>4, <2>1 DEF CreateIoCq, Types, SameQueues
<1>6. Places' /\ Outstanding' = Outstanding /\ Unposted' = Unposted BY <1>1, FramePlaces
<1>7. Room'
  <2>1. Unacked' = Unacked BY <1>1 DEF Unacked
  <2> QED BY <1>6, <2>1 DEF Room
<1>8. Phases'
  <2>1. sc.tail = 0 BY <1>1 DEF Phases
  <2>2. Pos(0, 0) = 0 BY DEF Pos, Params
  <2>3. \A i \in 0..(CqSize - 1) : Pos(0, i) = i /\ Exp(0, 1, i) = 1 BY DEF Params, Pos, Exp
  <2>4. sc'.posted = sc.posted /\ Made' BY <1>1 DEF SameQueues, Made
  <2> QED BY <1>1, <1>3, <1>4, <2>1, <2>2, <2>3, <2>4 DEF Phases
<1>9. Live' BY <1>1, <1>2 DEF Live, SameQueues, Made
<1>10. NoLostInterrupt' /\ Handled' BY <1>1, <1>3 DEF NoLostInterrupt, Handled, SameQueues
<1>11. Accounted' BY <1>1, FrameBooks DEF SameQueues
<1> QED BY <1>1, <1>5, <1>6, <1>7, <1>8, <1>9, <1>10, <1>11

\* pci_nvme_release_ioreq() after a completion was posted.
LEMMA ReleaseStep ==
    ASSUME Params, Inv, Release
    PROVE  Inv' /\ SameQueues /\ sc'.bound = sc.bound
<1> USE DEF Inv, Queue
<1>1. /\ SameQueues /\ SameCq /\ sc.posting > 0 /\ sc'.posting = sc.posting - 1 /\ sc'.sem = sc.sem + 1
      /\ sc'.pending = sc.pending - 1 /\ sc'.sqLive = sc.sqLive /\ sc'.db = sc.db
      /\ sc'.msix = sc.msix /\ sc'.isr = sc.isr /\ sc'.bound = sc.bound /\ sc'.en = sc.en /\ sc'.cqLive = sc.cqLive
      /\ (sc'.rdy <=> sc.rdy \/ (sc.pending = 1 /\ sc.en))
  BY DEF Release, ReleaseIoreq, SameQueues, SameCq, Types, Made
<1>2. Accounted' /\ sc'.posting \in Nat /\ sc'.sem \in Nat /\ sc'.pending \in Nat /\ sc.pending > 0
  <2> DEFINE r == Cardinality({t \in Tags : sc.req[t] # None})
  <2>1. r \in Nat /\ sc.posting \in Nat /\ sc.sem \in Nat /\ sc.pending \in Nat /\ IoSlots \in Nat
    BY OutFinite DEF Types, Params
  <2>2. Cardinality({t \in Tags : sc'.req[t] # None}) = r BY <1>1 DEF SameQueues
  <2>3. sc.pending = r + sc.posting /\ sc.sem + (r + sc.posting) = IoSlots BY DEF Accounted
  <2> HIDE DEF r
  <2>4. /\ sc'.pending = r + sc'.posting /\ sc'.sem + (r + sc'.posting) = IoSlots
        /\ sc'.posting \in Nat /\ sc'.sem \in Nat /\ sc'.pending \in Nat
    BY <1>1, <2>1, <2>3
  <2>5. sc.pending > 0 BY <1>1, <2>1, <2>3
  <2> QED BY <2>2, <2>4, <2>5 DEF Accounted
<1>3. Types' BY <1>1, <1>2 DEF Release, ReleaseIoreq, Types, SameQueues, SameCq
<1>4. Places' /\ Outstanding' = Outstanding /\ Unposted' = Unposted BY <1>1, FramePlaces
<1>5. Room' /\ Phases' BY <1>1, <1>4, FrameCq
<1>6. Live' BY <1>1, <1>2 DEF Live, SameCq, SameQueues
<1>7. NoLostInterrupt' /\ Handled' BY <1>1 DEF NoLostInterrupt, Handled, SameQueues
<1> QED BY <1>1, <1>2, <1>3, <1>4, <1>5, <1>6, <1>7

\* The guest's handler finds an entry valid exactly when one was posted.
LEMMA VisibleIsPosted ==
    ASSUME Params, Inv, Made
    PROVE  Visible <=> Len(sc.posted) > 0
<1> USE DEF Inv, Queue
<1>1. Len(sc.posted) \in Nat /\ 0 \in 0..(CqSize - 1) /\ sc.ghead \in 0..(CqSize - 1)
  BY PostedBound DEF Params, Types
<1>2. Pos(sc.ghead, 0) = sc.ghead /\ Exp(sc.ghead, sc.gphase, 0) = sc.gphase BY <1>1 DEF Pos, Exp, Params
<1>3. sc.gphase \in {0, 1} BY DEF Types
<1>4. CASE Len(sc.posted) > 0
  <2>1. sc.cq[sc.ghead].phase = sc.gphase BY <1>1, <1>2, <1>4 DEF Phases
  <2> QED BY <1>4, <2>1 DEF Visible
<1>5. CASE ~(Len(sc.posted) > 0)
  <2>1. sc.cq[sc.ghead].phase = 1 - sc.gphase BY <1>1, <1>2, <1>5 DEF Phases
  <2> QED BY <1>3, <1>5, <2>1 DEF Visible
<1> QED BY <1>4, <1>5

\* The handler writes the doorbell of the completion queue when it finds no more.
LEMMA IsrLeaveStep ==
    ASSUME Params, Inv, IsrLeave
    PROVE  Inv' /\ SameQueues /\ sc'.bound = sc.bound
<1> USE DEF Inv, Queue
<1>1. /\ ~Visible /\ SameQueues /\ sc'.head = sc.ghead /\ sc'.cq = sc.cq /\ sc'.tail = sc.tail
      /\ sc'.ghead = sc.ghead /\ sc'.gphase = sc.gphase /\ sc'.cqLive = sc.cqLive /\ sc'.sqLive = sc.sqLive
      /\ sc'.posting = sc.posting /\ sc'.sem = sc.sem /\ sc'.pending = sc.pending /\ sc'.db = sc.db
      /\ sc'.bound = sc.bound /\ sc'.rdy = sc.rdy /\ sc'.en = sc.en /\ sc'.isr = FALSE /\ Made /\ (Made' <=> Made)
  BY DEF IsrLeave, SameQueues, Types, Live, Made
<1>2. Len(sc.posted) \in Nat BY PostedBound
<1>3. Len(sc.posted) = 0 BY <1>1, <1>2, VisibleIsPosted
<1>4. sc.posted = <<>> BY <1>3 DEF Types
<1>5. Types' BY <1>1 DEF IsrLeave, Types, SameQueues
<1>6. Places' /\ Outstanding' = Outstanding /\ Unposted' = Unposted BY <1>1, FramePlaces
<1>7. Room'
  <2>1. sc.tail = sc.ghead BY <1>1, <1>3 DEF Phases, Pos, Types, Params
  <2>2. CqSize % CqSize = 0 BY Wrap DEF Params
  <2>3. sc'.tail - sc'.head + CqSize = CqSize BY <1>1, <2>1 DEF Types, Params
  <2>4. Unacked' = 0 BY <2>2, <2>3 DEF Unacked
  <2>5. Cardinality(Unposted) <= Cardinality(Outstanding)
    <3>1. Unposted \in SUBSET Outstanding BY DEF Unposted
    <3> QED BY <3>1, OutFinite, FS_Subset
  <2> QED BY <1>6, <2>4, <2>5, OutFinite DEF Room, Params
<1>8. Phases' BY <1>1 DEF Phases, SameQueues
<1>9. Live' BY <1>1 DEF Live, SameQueues
<1>10. NoLostInterrupt' /\ Handled' BY <1>1, <1>4 DEF NoLostInterrupt, Handled, SameQueues
<1>11. Accounted' BY <1>1, FrameBooks DEF SameQueues
<1> QED BY <1>1, <1>5, <1>6, <1>7, <1>8, <1>9, <1>10, <1>11

-----------------------------------------------------------------------------
(* Commands on their way                                                    *)

Shape(p) == p = [en |-> p.en, rdy |-> p.rdy, cqLive |-> p.cqLive, sqLive |-> p.sqLive, ram |-> p.ram,
             bound |-> p.bound, gone |-> p.gone, stray |-> p.stray, dead |-> p.dead,
                 sq |-> p.sq, db |-> p.db, kind |-> p.kind, work |-> p.work, req |-> p.req,
                 posting |-> p.posting, sem |-> p.sem, pending |-> p.pending,
                 cq |-> p.cq, tail |-> p.tail, head |-> p.head, msix |-> p.msix, isr |-> p.isr,
                 ghead |-> p.ghead, gphase |-> p.gphase, posted |-> p.posted, failed |-> p.failed, ops |-> p.ops]

\* The fields that no step of a command changes.
SameRest ==
    /\ sc'.en = sc.en /\ sc'.cqLive = sc.cqLive /\ sc'.sqLive = sc.sqLive
    /\ sc'.ram = sc.ram /\ sc'.head = sc.head /\ sc'.ops = sc.ops
    /\ sc'.bound = sc.bound /\ sc'.gone = sc.gone /\ sc'.stray = sc.stray /\ sc'.dead = sc.dead

LEMMA SubmitStep ==
    ASSUME Params, Inv, NEW t \in Tags, NEW k \in Kinds, NEW n \in 0..MaxRanges,
           k \in {"dsm", "large"} <=> n > 1, k = "rw" <=> n = 1, SubmitOne(t, k, n)
    PROVE  /\ Inv' /\ sc.kind[t] = None
           /\ sc'.kind = [sc.kind EXCEPT ![t] = k] /\ sc'.work = [sc.work EXCEPT ![t] = n]
           /\ sc'.req = sc.req /\ sc'.posted = sc.posted /\ sc'.failed = sc.failed
           /\ sc'.ram = sc.ram /\ sc'.bound = sc.bound /\ sc.bound
<1> USE DEF Inv, Queue
<1>1. /\ sc.sqLive /\ sc.bound /\ sc.kind[t] = None /\ (Locked => sc.db = "off")
      /\ Cardinality(Outstanding) + Unacked < CqSize - 1
      /\ sc'.kind = [sc.kind EXCEPT ![t] = k] /\ sc'.work = [sc.work EXCEPT ![t] = n]
      /\ sc'.sq = Append(sc.sq, t) /\ sc'.db = (IF sc.db = "off" THEN "loop" ELSE sc.db)
  BY DEF SubmitOne, Outstanding, Types, Unacked, Live
<1>2. /\ SameRest /\ sc'.rdy = sc.rdy /\ sc'.req = sc.req /\ sc'.posted = sc.posted /\ sc'.failed = sc.failed
      /\ sc'.posting = sc.posting /\ sc'.sem = sc.sem /\ sc'.pending = sc.pending /\ sc'.cq = sc.cq
      /\ sc'.tail = sc.tail /\ sc'.ghead = sc.ghead /\ sc'.gphase = sc.gphase
      /\ sc'.msix = sc.msix /\ sc'.isr = sc.isr /\ Shape(sc')
  BY DEF SubmitOne, Types, SameRest, Shape
<1>3. /\ sc'.kind \in [Tags -> Kinds \cup {None}] /\ sc'.work \in [Tags -> 0..MaxRanges]
      /\ sc'.kind[t] = k /\ sc'.work[t] = n
      /\ \A x \in Tags : x # t => sc'.kind[x] = sc.kind[x] /\ sc'.work[x] = sc.work[x]
  BY <1>1 DEF Types
<1>4. sc.sq \in Seq(Tags) BY DEF Types
<1>5. /\ sc'.sq \in Seq(Tags) /\ \A x : In(sc'.sq, x) <=> In(sc.sq, x) \/ x = t
      /\ NoDup(sc.sq) /\ ~In(sc.sq, t) => NoDup(sc'.sq)
  BY <1>1, <1>4, Appended
<1>6. Types' BY <1>1, <1>2, <1>3, <1>5 DEF Types, SameRest, Shape, Dbs
<1>7. k # None BY DEF Kinds, None
<1>8. ~In(sc.sq, t) /\ ~In(sc.posted, t) /\ sc.req[t] = None BY <1>1 DEF Places
<1>9. Places' BY <1>2, <1>3, <1>5, <1>7, <1>8 DEF Places, SameRest
<1>10. Outstanding' = Outstanding \cup {t} /\ t \notin Outstanding
  BY <1>1, <1>3, <1>7 DEF Outstanding
<1>11. Unposted' = Unposted \cup {t} /\ t \notin Unposted
  BY <1>2, <1>8, <1>10 DEF Unposted
<1>12. Live' BY <1>1, <1>2 DEF Live, SameRest, Made
<1>13. Room'
  <2>1. /\ Cardinality(Outstanding \cup {t}) = Cardinality(Outstanding) + 1
        /\ Cardinality(Unposted \cup {t}) = Cardinality(Unposted) + 1
    BY <1>10, <1>11, OutFinite, FS_AddElement
  <2>2. Cardinality(Unposted) <= Cardinality(Outstanding)
    <3>1. Unposted \in SUBSET Outstanding BY DEF Unposted
    <3> QED BY <3>1, OutFinite, FS_Subset
  <2>3. Unacked' = Unacked BY <1>2 DEF Unacked, SameRest
  <2>4. Unacked \in 0..(CqSize - 1) BY UnackedRange
  <2> QED BY <1>1, <1>10, <1>11, <2>1, <2>2, <2>3, <2>4, OutFinite DEF Room, Params
<1>14. Phases' BY <1>2 DEF Phases, SameRest, Made
<1>15. NoLostInterrupt' BY <1>2 DEF NoLostInterrupt
<1>16. Handled' BY <1>1 DEF Handled
<1>17. Accounted' BY <1>2, FrameBooks
<1> QED BY <1>1, <1>2, <1>6, <1>9, <1>12, <1>13, <1>14, <1>15, <1>16, <1>17 DEF SameRest

\* How the indices of the completion queue move.
LEMMA NextIndex ==
    ASSUME Params, NEW i \in 0..(CqSize - 1)
    PROVE  Next1(i) = (IF i + 1 < CqSize THEN i + 1 ELSE 0) /\ Next1(i) \in 0..(CqSize - 1)
<1>1. CqSize \in Nat /\ CqSize > 0 BY DEF Params
<1> DEFINE a == i + 1
<1>2. a \in Nat /\ a < 2 * CqSize /\ a <= CqSize BY <1>1
<1> HIDE DEF a
<1>3. a % CqSize = IF a < CqSize THEN a ELSE a - CqSize BY <1>2, Wrap
<1>4. Next1(i) = a % CqSize BY DEF Next1, a
<1>5. Next1(i) = (IF a < CqSize THEN a ELSE 0) /\ Next1(i) \in 0..(CqSize - 1) BY <1>1, <1>2, <1>3, <1>4
<1> QED BY <1>5 DEF a

LEMMA Distance ==
    ASSUME Params, NEW a \in 0..(CqSize - 1), NEW b \in 0..(CqSize - 1)
    PROVE  (a - b + CqSize) % CqSize = IF a >= b THEN a - b ELSE a - b + CqSize
<1>1. CqSize \in Nat /\ CqSize > 0 BY DEF Params
<1> DEFINE c == a - b + CqSize
<1>2. c \in Nat /\ c < 2 * CqSize BY <1>1
<1> HIDE DEF c
<1>3. c % CqSize = IF c < CqSize THEN c ELSE c - CqSize BY <1>2, Wrap
<1> QED BY <1>1, <1>3 DEF c

LEMMA OneFurther ==
    ASSUME Params, NEW a \in 0..(CqSize - 1), NEW b \in 0..(CqSize - 1), NEW c, NEW u, NEW v,
           u = (IF a >= b THEN a - b ELSE a - b + CqSize), u < CqSize - 1,
           c = (IF a + 1 < CqSize THEN a + 1 ELSE 0),
           v = (IF c >= b THEN c - b ELSE c - b + CqSize)
    PROVE  v = u + 1 /\ c # b
<1>1. CqSize \in Nat /\ CqSize > 0 BY DEF Params
<1>2. CASE a + 1 < CqSize BY <1>1, <1>2
<1>3. CASE ~(a + 1 < CqSize)
  <2>1. a = CqSize - 1 /\ c = 0 /\ b # 0 /\ u = a - b BY <1>1, <1>3
  <2> QED BY <1>1, <2>1
<1> QED BY <1>2, <1>3

LEMMA Places0 ==
    ASSUME Params, NEW g \in 0..(CqSize - 1), NEW f \in {0, 1}
    PROVE  /\ \A i, j \in 0..(CqSize - 1) : Pos(g, i) = Pos(g, j) => i = j
           /\ \A i \in 0..(CqSize - 1) : Pos(g, i) \in 0..(CqSize - 1) /\ Exp(g, f, i) \in {0, 1}
           /\ \A i \in 0..(CqSize - 1) : Next1(Pos(g, i)) = Pos(g, i + 1)
<1>1. CqSize \in Nat /\ CqSize > 0 BY DEF Params
<1>2. \A i \in 0..(CqSize - 1) : Pos(g, i) \in 0..(CqSize - 1) BY <1>1 DEF Pos
<1>3. ASSUME NEW i \in 0..(CqSize - 1) PROVE Next1(Pos(g, i)) = Pos(g, i + 1)
  <2>1. Next1(Pos(g, i)) = (IF Pos(g, i) + 1 < CqSize THEN Pos(g, i) + 1 ELSE 0) BY <1>2, NextIndex
  <2> QED BY <1>1, <2>1 DEF Pos
<1> QED BY <1>1, <1>2, <1>3 DEF Pos, Exp

\* pci_nvme_set_completion() of command t: the next entry turns valid and the
\* guest is interrupted. Its request, if it had one, is given back, and it has
\* left the submission queue.
Posts(t, err) ==
    /\ SameRest /\ sc'.kind = sc.kind /\ sc'.req = [sc.req EXCEPT ![t] = None]
    /\ sc'.work \in [Tags -> 0..MaxRanges] /\ \A x \in Tags : x # t => sc'.work[x] = sc.work[x]
    /\ sc'.sq \in Seq(Tags) /\ NoDup(sc'.sq) /\ \A x : In(sc'.sq, x) <=> In(sc.sq, x) /\ x # t
    /\ sc'.cq = [sc.cq EXCEPT ![sc.tail] = [cid |-> t, phase |-> 1 - sc.cq[sc.tail].phase]]
    /\ sc'.tail = Next1(sc.tail) /\ sc'.msix = (sc.msix \/ sc.head # Next1(sc.tail))
    /\ sc'.posted = Append(sc.posted, t) /\ sc'.failed = (IF err THEN sc.failed \cup {t} ELSE sc.failed)
    /\ sc'.ghead = sc.ghead /\ sc'.gphase = sc.gphase /\ sc'.isr = sc.isr
    /\ sc'.db = sc.db /\ sc'.rdy \in BOOLEAN /\ (sc.rdy => sc'.rdy) /\ Shape(sc')
    /\ sc'.posting \in Nat /\ sc'.sem \in Nat /\ sc'.pending \in Nat

LEMMA PostStep ==
    ASSUME Params, Types, Queue, NEW t \in Tags, NEW err \in BOOLEAN,
           sc.bound, sc.kind[t] # None, ~In(sc.posted, t), Posts(t, err)
    PROVE  Types' /\ Queue' /\ \A x : In(sc'.posted, x) <=> In(sc.posted, x) \/ x = t
<1> DEFINE n == Len(sc.posted)
<1>1. /\ CqSize \in Nat /\ CqSize > 0 /\ n \in Nat /\ n <= CqSize - 1 /\ sc.tail \in 0..(CqSize - 1)
      /\ sc.head \in 0..(CqSize - 1) /\ sc.ghead \in 0..(CqSize - 1) /\ sc.gphase \in {0, 1}
      /\ sc.posted \in Seq(Tags) /\ NoDup(sc.posted)
  BY PostedBound DEF Params, Types, Places, Queue
<1>2. sc'.posted = Append(sc.posted, t) BY DEF Posts
<1>3. /\ sc'.posted \in Seq(Tags) /\ Len(sc'.posted) = n + 1 /\ sc'.posted[n + 1] = t
      /\ \A i \in 1..n : sc'.posted[i] = sc.posted[i]
      /\ \A x : In(sc'.posted, x) <=> In(sc.posted, x) \/ x = t
      /\ NoDup(sc'.posted)
  BY <1>1, <1>2, Appended
<1> HIDE DEF n
<1>4. t \in Outstanding /\ Made /\ (Made' <=> Made) BY DEF Outstanding, Live, Queue, Made, Posts, SameRest
<1>5. Outstanding' = Outstanding BY DEF Outstanding, Posts
<1>6. Unposted' = Unposted \ {t} /\ t \in Unposted
  BY <1>3, <1>4, <1>5 DEF Unposted
<1>7. Cardinality(Unposted') = Cardinality(Unposted) - 1 /\ Cardinality(Unposted) \in Nat
  BY <1>6, OutFinite, FS_RemoveElement
<1>8. Cardinality(Unposted) >= 1
  <2>1. Unposted # {} BY <1>6
  <2>2. Cardinality(Unposted) # 0 BY <2>1, OutFinite, FS_EmptySet
  <2> QED BY <1>7, <2>2
<1>9. Unacked' = Unacked + 1 /\ Next1(sc.tail) # sc.head /\ Unacked \in 0..(CqSize - 1)
  <2>1. Unacked \in 0..(CqSize - 1) BY UnackedRange
  <2>2. Cardinality(Unposted) + Unacked <= CqSize - 1 BY DEF Room, Queue
  <2>3. Unacked < CqSize - 1 BY <1>1, <1>7, <1>8, <2>1, <2>2
  <2>4. Unacked = IF sc.tail >= sc.head THEN sc.tail - sc.head ELSE sc.tail - sc.head + CqSize
    BY <1>1, Distance DEF Unacked
  <2>5. sc'.tail = Next1(sc.tail) /\ sc'.head = sc.head BY DEF Posts, SameRest
  <2>6. sc'.tail \in 0..(CqSize - 1) /\ sc'.tail = IF sc.tail + 1 < CqSize THEN sc.tail + 1 ELSE 0
    BY <1>1, <2>5, NextIndex
  <2>7. Unacked' = IF sc'.tail >= sc.head THEN sc'.tail - sc.head ELSE sc'.tail - sc.head + CqSize
    <3>1. (sc'.tail - sc.head + CqSize) % CqSize
              = IF sc'.tail >= sc.head THEN sc'.tail - sc.head ELSE sc'.tail - sc.head + CqSize
      BY <1>1, <2>6, Distance
    <3> QED BY <2>5, <3>1 DEF Unacked
  <2> HIDE DEF Unacked
  <2>8. Unacked' = Unacked + 1 /\ sc'.tail # sc.head BY <1>1, <2>3, <2>4, <2>6, <2>7, OneFurther
  <2> QED BY <2>1, <2>5, <2>8
<1>10. Room'
  <2>1. Cardinality(Outstanding) <= CqSize - 1 /\ Cardinality(Unposted) + Unacked <= CqSize - 1
    BY DEF Room, Queue
  <2>2. Cardinality(Unposted') + Unacked' <= CqSize - 1 BY <1>1, <1>7, <1>9, <2>1
  <2> QED BY <1>5, <2>1, <2>2 DEF Room
<1>11. NoLostInterrupt' BY <1>9 DEF NoLostInterrupt, Posts
<1>12. Live' BY <1>4 DEF Live, SameRest, Posts, Queue
<1>13. /\ sc'.req \in [Tags -> Reqs] /\ sc'.req[t] = None /\ \A x \in Tags : x # t => sc'.req[x] = sc.req[x]
  BY DEF Types, Reqs, Posts
<1>14. Places'
  <2>1. NoDup(sc'.sq) /\ \A x : In(sc'.sq, x) <=> In(sc.sq, x) /\ x # t BY DEF Posts
  <2>2. /\ sc'.kind = sc.kind /\ sc'.ram = sc.ram /\ \A x \in Tags : x # t => sc'.work[x] = sc.work[x]
    BY DEF Posts, SameRest
  <2>3. \A x : x \in sc'.failed => x \in sc.failed \/ x = t BY DEF Posts
  <2>4. Places BY DEF Queue
  <2> QED BY <1>3, <1>13, <2>1, <2>2, <2>3, <2>4 DEF Places
<1>15. /\ sc'.cq \in [0..(CqSize - 1) -> Entry] /\ sc'.cq[sc.tail].cid = t
       /\ sc'.cq[sc.tail].phase = 1 - sc.cq[sc.tail].phase
       /\ \A i \in 0..(CqSize - 1) : i # sc.tail => sc'.cq[i] = sc.cq[i]
  <2>1. sc.cq \in [0..(CqSize - 1) -> Entry] BY DEF Types
  <2>2. sc.cq[sc.tail].phase \in {0, 1} BY <1>1, <2>1 DEF Entry
  <2> DEFINE e == [cid |-> t, phase |-> 1 - sc.cq[sc.tail].phase]
  <2>3. e \in Entry /\ e.cid = t /\ e.phase = 1 - sc.cq[sc.tail].phase BY <2>2 DEF Entry
  <2>4. sc'.cq = [sc.cq EXCEPT ![sc.tail] = e] BY DEF Posts
  <2> HIDE DEF e
  <2> QED BY <1>1, <2>1, <2>3, <2>4
<1>16. Phases'
  <2> DEFINE g == sc.ghead
             f == sc.gphase
  <2>1. sc.tail = Pos(g, n) BY <1>4 DEF Phases, n, Queue
  <2>2. n \in 0..(CqSize - 1) BY <1>1
  <2>3. /\ \A i, j \in 0..(CqSize - 1) : Pos(g, i) = Pos(g, j) => i = j
        /\ \A i \in 0..(CqSize - 1) : Pos(g, i) \in 0..(CqSize - 1) /\ Exp(g, f, i) \in {0, 1}
        /\ Next1(Pos(g, n)) = Pos(g, n + 1)
    BY <1>1, <2>2, Places0
  <2>4. sc'.tail = Pos(g, n + 1) BY <2>1, <2>3 DEF Posts
  <2>5. \A i \in 0..(CqSize - 1) :
          IF i < n THEN sc.cq[Pos(g, i)].cid = sc.posted[i + 1] /\ sc.cq[Pos(g, i)].phase = Exp(g, f, i)
          ELSE sc.cq[Pos(g, i)].phase = 1 - Exp(g, f, i)
    BY <1>4 DEF Phases, n, Queue
  <2>6. sc'.ghead = g /\ sc'.gphase = f /\ Made' BY <1>4 DEF Posts
  <2> HIDE DEF g, f
  <2>7. ASSUME NEW i \in 0..(CqSize - 1)
        PROVE IF i < n + 1 THEN sc'.cq[Pos(g, i)].cid = sc'.posted[i + 1] /\ sc'.cq[Pos(g, i)].phase = Exp(g, f, i)
              ELSE sc'.cq[Pos(g, i)].phase = 1 - Exp(g, f, i)
    <3>1. CASE i = n
      <4>1. sc.cq[sc.tail].phase = 1 - Exp(g, f, n) BY <1>1, <2>1, <2>2, <2>5
      <4>2. Exp(g, f, n) \in {0, 1} BY <2>2, <2>3
      <4>3. sc'.cq[sc.tail].phase = Exp(g, f, n) BY <1>15, <4>1, <4>2
      <4>4. i < n + 1 BY <1>1, <3>1
      <4> QED BY <1>3, <1>15, <2>1, <3>1, <4>3, <4>4
    <3>2. CASE i # n
      <4>1. Pos(g, i) # sc.tail /\ Pos(g, i) \in 0..(CqSize - 1) BY <2>1, <2>2, <2>3, <3>2
      <4>2. sc'.cq[Pos(g, i)] = sc.cq[Pos(g, i)] BY <1>15, <4>1
      <4>3. CASE i < n
        <5>1. i + 1 \in 1..n /\ i < n + 1 BY <1>1, <4>3
        <5> QED BY <1>3, <2>5, <4>2, <4>3, <5>1
      <4>4. CASE ~(i < n)
        <5>1. ~(i < n + 1) BY <1>1, <3>2, <4>4
        <5> QED BY <2>5, <4>2, <4>4, <5>1
      <4> QED BY <4>3, <4>4
    <3> QED BY <3>1, <3>2
  <2> QED BY <1>3, <2>4, <2>6, <2>7 DEF Phases
<1>17. Types'
  <2>1. sc'.tail \in 0..(CqSize - 1) BY <1>1, NextIndex DEF Posts
  <2>2. sc'.failed \in SUBSET Tags BY DEF Types, Posts
  <2>3. sc'.msix \in BOOLEAN BY DEF Types, Posts
  <2> QED BY <1>3, <1>13, <1>15, <2>1, <2>2, <2>3 DEF Types, SameRest, Shape, Posts
<1> QED BY <1>3, <1>10, <1>11, <1>12, <1>14, <1>16, <1>17 DEF Queue

\* What the guest and the abstract service see of a completion.
Completes(t, err) ==
    /\ sc.bound /\ sc'.bound = sc.bound
    /\ sc'.kind = sc.kind /\ sc'.ram = sc.ram /\ sc'.req = [sc.req EXCEPT ![t] = None]
    /\ \A x \in Tags : x # t => sc'.work[x] = sc.work[x]
    /\ \A x : In(sc'.posted, x) <=> In(sc.posted, x) \/ x = t
    /\ sc'.failed = (IF err THEN sc.failed \cup {t} ELSE sc.failed)

\* A completion made at once, by the thread that handles the doorbell. A request
\* it took for the purpose is given back before it goes on.
LEMMA PostNow ==
    ASSUME Params, Inv, NEW t \in Tags, NEW err \in BOOLEAN, sc.sq # <<>>, t = Head(sc.sq), sc.db = "loop",
           sc'.kind = sc.kind, sc'.req = sc.req,
           sc'.work = sc.work \/ sc'.work = [sc.work EXCEPT ![t] = 0], sc'.sq = Tail(sc.sq),
           sc'.cq = [sc.cq EXCEPT ![sc.tail] = [cid |-> t, phase |-> 1 - sc.cq[sc.tail].phase]],
           sc'.tail = Next1(sc.tail), sc'.msix = (sc.msix \/ sc.head # Next1(sc.tail)),
           sc'.posted = Append(sc.posted, t), sc'.failed = (IF err THEN sc.failed \cup {t} ELSE sc.failed),
           sc'.ghead = sc.ghead, sc'.gphase = sc.gphase, sc'.isr = sc.isr, SameRest,
           sc'.db = sc.db, sc'.rdy \in BOOLEAN, sc.rdy => sc'.rdy, Shape(sc'),
           sc'.posting = sc.posting, sc'.sem = sc.sem, sc'.pending = sc.pending
    PROVE  Inv' /\ Completes(t, err)
<1>1. sc.sq \in Seq(Tags) /\ NoDup(sc.sq) BY DEF Types, Places, Inv, Queue
<1>2. /\ sc'.sq \in Seq(Tags) /\ NoDup(sc'.sq) /\ \A x : In(sc'.sq, x) <=> In(sc.sq, x) /\ x # t
      /\ In(sc.sq, t)
  BY <1>1, Taken
<1>3. sc.kind[t] # None /\ ~In(sc.posted, t) /\ sc.req[t] = None BY <1>2 DEF Places, Inv, Queue
<1>4. sc'.req = [sc.req EXCEPT ![t] = None] BY <1>3 DEF Types, Inv
<1>5. sc'.work \in [Tags -> 0..MaxRanges] /\ \A x \in Tags : x # t => sc'.work[x] = sc.work[x]
  <2>1. sc.work \in [Tags -> 0..MaxRanges] /\ 0 \in 0..MaxRanges BY DEF Types, Params, Inv
  <2>2. CASE sc'.work = sc.work BY <2>1, <2>2
  <2>3. CASE sc'.work = [sc.work EXCEPT ![t] = 0] BY <2>1, <2>3
  <2> QED BY <2>2, <2>3
<1>6. sc.posting \in Nat /\ sc.sem \in Nat /\ sc.pending \in Nat BY DEF Types, Inv
<1>7. Posts(t, err) /\ sc.bound BY <1>2, <1>4, <1>5, <1>6 DEF Posts, Live, Inv, Queue
<1>8. Types' /\ Queue' /\ \A x : In(sc'.posted, x) <=> In(sc.posted, x) \/ x = t
  BY <1>3, <1>7, PostStep DEF Inv
<1>9. Accounted' BY FrameBooks DEF Inv
<1>10. Handled' BY DEF Handled
<1>11. Completes(t, err) BY <1>4, <1>5, <1>7, <1>8 DEF Completes, SameRest
<1> QED BY <1>8, <1>9, <1>10, <1>11 DEF Inv

LEMMA ShapeKept ==
    ASSUME NEW p, Shape(p), NEW t, NEW err, NEW s, NEW w, NEW r, NEW n
    PROVE  /\ Shape([p EXCEPT !.req = r, !.work = w, !.posting = n]) /\ Shape([p EXCEPT !.sq = s]) /\ Shape([p EXCEPT !.work = w]) /\ Shape([p EXCEPT !.work[t] = 0])
           /\ Shape(GetIoreq(p)) /\ Shape(Post(p, t, err))
<1>1. Shape([p EXCEPT !.sq = s]) /\ Shape([p EXCEPT !.work = w]) BY DEF Shape
<1>5. Shape([p EXCEPT !.req = r, !.work = w, !.posting = n])
  <2> DEFINE q == [p EXCEPT !.req = r]
             u == [q EXCEPT !.work = w]
  <2>1. Shape(q) BY DEF Shape
  <2>2. [p EXCEPT !.req = r, !.work = w, !.posting = n] = [u EXCEPT !.posting = n] OBVIOUS
  <2> HIDE DEF q
  <2>3. Shape(u) BY <2>1 DEF Shape
  <2> HIDE DEF u
  <2>4. Shape([u EXCEPT !.posting = n]) BY <2>3 DEF Shape
  <2> QED BY <2>2, <2>4
<1>2. Shape([p EXCEPT !.work[t] = 0]) BY DEF Shape
<1>3. Shape(GetIoreq(p))
  <2> DEFINE s1 == p.sem - 1
             p1 == p.pending + 1
  <2>1. GetIoreq(p) = [p EXCEPT !.sem = s1, !.pending = p1] BY DEF GetIoreq
  <2> HIDE DEF s1, p1
  <2> QED BY <2>1 DEF Shape
<1>4. Shape(Post(p, t, err))
  <2> DEFINE c == [p.cq EXCEPT ![p.tail] = [cid |-> t, phase |-> 1 - p.cq[p.tail].phase]]
             to == (p.tail + 1) % CqSize
             m == p.msix \/ p.head # to
             a == Append(p.posted, t)
             f == IF err THEN p.failed \cup {t} ELSE p.failed
  <2>1. Post(p, t, err) = [p EXCEPT !.cq = c, !.tail = to, !.msix = m, !.posted = a, !.failed = f]
    BY DEF Post
  <2> HIDE DEF c, to, m, a, f
  <2> QED BY <2>1 DEF Shape
<1> QED BY <1>1, <1>2, <1>3, <1>4, <1>5

\* pci_nvme_release_ioreq()
LEMMA ReleasedFields ==
    ASSUME NEW r, Shape(r), r.rdy \in BOOLEAN, r.en \in BOOLEAN, sc' = ReleaseIoreq(r)
    PROVE  /\ sc'.kind = r.kind /\ sc'.req = r.req /\ sc'.work = r.work /\ sc'.sq = r.sq
           /\ sc'.cq = r.cq /\ sc'.tail = r.tail /\ sc'.msix = r.msix /\ sc'.posted = r.posted
           /\ sc'.failed = r.failed /\ sc'.ghead = r.ghead /\ sc'.gphase = r.gphase /\ sc'.isr = r.isr
           /\ sc'.db = r.db /\ sc'.posting = r.posting /\ sc'.sem = r.sem + 1 /\ sc'.pending = r.pending - 1
           /\ sc'.en = r.en /\ sc'.cqLive = r.cqLive /\ sc'.sqLive = r.sqLive
           /\ sc'.ram = r.ram /\ sc'.head = r.head /\ sc'.ops = r.ops /\ Shape(sc')
           /\ sc'.bound = r.bound /\ sc'.gone = r.gone /\ sc'.stray = r.stray /\ sc'.dead = r.dead
           /\ sc'.rdy \in BOOLEAN /\ (r.rdy => sc'.rdy)
<1> DEFINE b == r.rdy \/ (r.pending = 1 /\ r.en)
<1>1. sc' = [r EXCEPT !.sem = r.sem + 1, !.pending = r.pending - 1, !.rdy = b] BY DEF ReleaseIoreq
<1>2. b \in BOOLEAN /\ (r.rdy => b) OBVIOUS
<1> HIDE DEF b
<1>3. sc'.rdy = b BY <1>1 DEF Shape
<1>4. sc'.rdy \in BOOLEAN /\ (r.rdy => sc'.rdy) BY <1>2, <1>3
<1>5. Shape(sc') BY <1>1 DEF Shape
<1> QED BY <1>1, <1>4, <1>5 DEF Shape

\* One command of the loop: completed, or handed to the backend.
LEMMA HandleStep ==
    ASSUME Params, Inv, HandleIoCmd
    PROVE  /\ Inv'
           /\ \E t \in Tags :
                 /\ sc.kind[t] # None /\ sc.req[t] = None /\ ~In(sc.posted, t)
                 /\ \/ \E err \in BOOLEAN : Completes(t, err) /\ (err \/ sc.ram \/ sc.work[t] = 0)
                    \/ /\ sc'.req = [sc.req EXCEPT ![t] = "queued"] /\ sc'.kind = sc.kind /\ sc'.work = sc.work
                       /\ sc'.posted = sc.posted /\ sc'.failed = sc.failed /\ sc'.ram = sc.ram /\ sc'.bound = sc.bound
<1> DEFINE t == Head(sc.sq)
           p == [sc EXCEPT !.sq = Tail(@)]
           q == GetIoreq(p)
           Failed == ReleaseIoreq(Post([q EXCEPT !.work[t] = 0], t, TRUE))
<1>1. sc.db = "loop" /\ sc.sq # <<>> BY DEF HandleIoCmd
<1>2. sc.sq \in Seq(Tags) /\ NoDup(sc.sq) BY DEF Types, Places, Inv, Queue
<1>3. t \in Tags /\ In(sc.sq, t) BY <1>1, <1>2, Taken
<1>4. /\ sc.kind[t] # None /\ ~In(sc.posted, t) /\ sc.req[t] = None
      /\ (sc.kind[t] \in {"dsm", "large"} <=> sc.work[t] > 1) /\ (sc.kind[t] = "rw" <=> sc.work[t] = 1)
      /\ sc.work[t] \in Nat
  BY <1>3 DEF Places, Inv, Queue, Types
<1>5. sc.sem \in Nat /\ sc.pending \in Nat /\ sc.posting \in Nat BY DEF Types, Inv
<1>6. /\ sc.bound = TRUE /\ sc.cqLive = TRUE
      /\ \/ sc.kind[t] = "flush" /\ sc' = Post(p, t, FALSE)
         \/ /\ sc.ram /\ \E err \in BOOLEAN : sc' = Post([p EXCEPT !.work[t] = 0], t, err)
         \/ sc.sem > 0 /\ sc' = Failed
         \/ /\ sc.kind[t] = "advice" /\ sc.sem > 0 /\ \E err \in BOOLEAN : sc' = ReleaseIoreq(Post(q, t, err))
         \/ /\ sc.kind[t] \in {"rw", "dsm", "large"} /\ ~sc.ram /\ sc.sem > 0
            /\ sc' = [q EXCEPT !.req[t] = "queued"] \/ sc' = [q EXCEPT !.req[t] = "queued", !.db = "part"]
  <2>1. sc.bound = TRUE /\ sc.cqLive = TRUE BY <1>1 DEF Live, Inv, Queue, Types
  <2>2. /\ p.bound = TRUE /\ p.cqLive = TRUE /\ q.bound = TRUE /\ q.cqLive = TRUE
        /\ [p EXCEPT !.work[t] = 0].bound = TRUE /\ [p EXCEPT !.work[t] = 0].cqLive = TRUE
        /\ [q EXCEPT !.work[t] = 0].bound = TRUE /\ [q EXCEPT !.work[t] = 0].cqLive = TRUE
    BY <2>1 DEF GetIoreq, Types, Inv
  <2>3. /\ \A err : SetCompletion(p, t, err) = Post(p, t, err) /\ SetCompletion(q, t, err) = Post(q, t, err)
        /\ \A err : SetCompletion([p EXCEPT !.work[t] = 0], t, err) = Post([p EXCEPT !.work[t] = 0], t, err)
        /\ \A err : SetCompletion([q EXCEPT !.work[t] = 0], t, err) = Post([q EXCEPT !.work[t] = 0], t, err)
    <3> HIDE DEF p, q, t
    <3> QED BY <2>2 DEF SetCompletion
  <2>4. \/ sc.kind[t] = "flush" /\ sc' = SetCompletion(p, t, FALSE)
        \/ /\ sc.ram /\ \E err \in BOOLEAN : sc' = SetCompletion([p EXCEPT !.work[t] = 0], t, err)
        \/ sc.sem > 0 /\ sc' = ReleaseIoreq(SetCompletion([q EXCEPT !.work[t] = 0], t, TRUE))
        \/ /\ sc.kind[t] = "advice" /\ sc.sem > 0
           /\ \E err \in BOOLEAN : sc' = ReleaseIoreq(SetCompletion(q, t, err))
        \/ /\ sc.kind[t] \in {"rw", "dsm", "large"} /\ ~sc.ram /\ sc.sem > 0
           /\ sc' = [q EXCEPT !.req[t] = "queued"] \/ sc' = [q EXCEPT !.req[t] = "queued", !.db = "part"]
    BY DEF HandleIoCmd
  <2> HIDE DEF p, q, t
  <2> QED BY <2>1, <2>3, <2>4
<1>7. CASE sc.kind[t] = "flush" /\ sc' = Post(p, t, FALSE)
  <2>1. /\ sc'.kind = sc.kind /\ sc'.req = sc.req /\ sc'.work = sc.work /\ sc'.sq = Tail(sc.sq)
        /\ sc'.cq = [sc.cq EXCEPT ![sc.tail] = [cid |-> t, phase |-> 1 - sc.cq[sc.tail].phase]]
        /\ sc'.tail = Next1(sc.tail) /\ sc'.msix = (sc.msix \/ sc.head # Next1(sc.tail))
        /\ sc'.posted = Append(sc.posted, t) /\ sc'.failed = sc.failed
        /\ sc'.ghead = sc.ghead /\ sc'.gphase = sc.gphase /\ sc'.isr = sc.isr /\ SameRest
        /\ sc'.db = sc.db /\ sc'.rdy \in BOOLEAN /\ (sc.rdy => sc'.rdy) /\ Shape(sc')
        /\ sc'.posting = sc.posting /\ sc'.sem = sc.sem /\ sc'.pending = sc.pending
    BY <1>7 DEF Post, Next1, Types, Inv, SameRest, Shape
  <2> HIDE DEF t
  <2>2. Inv' /\ Completes(t, FALSE) BY <1>1, <1>3, <2>1, PostNow DEF t
  <2>3. sc.work[t] = 0 BY <1>4, <1>7
  <2> QED BY <1>3, <1>4, <2>2, <2>3
<1>8. CASE sc.ram /\ \E err \in BOOLEAN : sc' = Post([p EXCEPT !.work[t] = 0], t, err)
  <2>1. PICK err \in BOOLEAN : sc' = Post([p EXCEPT !.work[t] = 0], t, err) BY <1>8
  <2>2. /\ sc'.kind = sc.kind /\ sc'.req = sc.req /\ sc'.work = [sc.work EXCEPT ![t] = 0] /\ sc'.sq = Tail(sc.sq)
        /\ sc'.cq = [sc.cq EXCEPT ![sc.tail] = [cid |-> t, phase |-> 1 - sc.cq[sc.tail].phase]]
        /\ sc'.tail = Next1(sc.tail) /\ sc'.msix = (sc.msix \/ sc.head # Next1(sc.tail))
        /\ sc'.posted = Append(sc.posted, t) /\ sc'.failed = (IF err THEN sc.failed \cup {t} ELSE sc.failed)
        /\ sc'.ghead = sc.ghead /\ sc'.gphase = sc.gphase /\ sc'.isr = sc.isr /\ SameRest
        /\ sc'.db = sc.db /\ sc'.rdy \in BOOLEAN /\ (sc.rdy => sc'.rdy) /\ Shape(sc')
        /\ sc'.posting = sc.posting /\ sc'.sem = sc.sem /\ sc'.pending = sc.pending
    BY <2>1 DEF Post, Next1, Types, Inv, SameRest, Shape
  <2> HIDE DEF t
  <2>3. Inv' /\ Completes(t, err) BY <1>1, <1>3, <2>2, PostNow DEF t
  <2> QED BY <1>3, <1>4, <1>8, <2>3
<1>9. CASE sc.sem > 0 /\ sc' = Failed
  <2>1. /\ sc'.kind = sc.kind /\ sc'.req = sc.req /\ sc'.work = [sc.work EXCEPT ![t] = 0] /\ sc'.sq = Tail(sc.sq)
        /\ sc'.cq = [sc.cq EXCEPT ![sc.tail] = [cid |-> t, phase |-> 1 - sc.cq[sc.tail].phase]]
        /\ sc'.tail = Next1(sc.tail) /\ sc'.msix = (sc.msix \/ sc.head # Next1(sc.tail))
        /\ sc'.posted = Append(sc.posted, t) /\ sc'.failed = sc.failed \cup {t}
        /\ sc'.ghead = sc.ghead /\ sc'.gphase = sc.gphase /\ sc'.isr = sc.isr /\ SameRest
        /\ sc'.db = sc.db /\ sc'.rdy \in BOOLEAN /\ (sc.rdy => sc'.rdy) /\ Shape(sc')
        /\ sc'.posting = sc.posting /\ sc'.sem = (sc.sem - 1) + 1 /\ sc'.pending = (sc.pending + 1) - 1
    <3> DEFINE r == Post([q EXCEPT !.work[t] = 0], t, TRUE)
    <3>1. /\ r.kind = sc.kind /\ r.req = sc.req /\ r.work = [sc.work EXCEPT ![t] = 0] /\ r.sq = Tail(sc.sq)
          /\ r.cq = [sc.cq EXCEPT ![sc.tail] = [cid |-> t, phase |-> 1 - sc.cq[sc.tail].phase]]
          /\ r.tail = Next1(sc.tail) /\ r.msix = (sc.msix \/ sc.head # Next1(sc.tail))
          /\ r.posted = Append(sc.posted, t) /\ r.failed = sc.failed \cup {t}
          /\ r.ghead = sc.ghead /\ r.gphase = sc.gphase /\ r.isr = sc.isr /\ r.db = sc.db
          /\ r.posting = sc.posting /\ r.sem = sc.sem - 1 /\ r.pending = sc.pending + 1
          /\ r.cqLive = sc.cqLive /\ r.sqLive = sc.sqLive
          /\ r.ram = sc.ram /\ r.head = sc.head /\ r.ops = sc.ops
          /\ r.bound = sc.bound /\ r.gone = sc.gone /\ r.stray = sc.stray /\ r.dead = sc.dead
      BY DEF Post, GetIoreq, Next1, Types, Inv
    <3>2. r.rdy = sc.rdy /\ r.en = sc.en /\ sc.rdy \in BOOLEAN /\ sc.en \in BOOLEAN /\ Shape(r)
      <4>1. r.rdy = sc.rdy /\ r.en = sc.en /\ sc.rdy \in BOOLEAN /\ sc.en \in BOOLEAN /\ Shape(sc)
        BY DEF Post, GetIoreq, Types, Inv, Shape
      <4>2. Shape(q) BY <4>1, ShapeKept
      <4>3. Shape([q EXCEPT !.work[t] = 0]) BY <4>2, ShapeKept
      <4> QED BY <4>1, <4>2, <4>3, ShapeKept
    <3>3. sc' = ReleaseIoreq(r) BY <1>9
    <3> HIDE DEF r, t
    <3> QED BY <3>1, <3>2, <3>3, ReleasedFields DEF SameRest
  <2>2. sc'.sem = sc.sem /\ sc'.pending = sc.pending BY <1>5, <2>1
  <2> HIDE DEF t
  <2>3. Inv' /\ Completes(t, TRUE) BY <1>1, <1>3, <2>1, <2>2, PostNow DEF t
  <2> QED BY <1>3, <1>4, <2>3
<1>10. CASE /\ sc.kind[t] = "advice" /\ sc.sem > 0
            /\ \E err \in BOOLEAN : sc' = ReleaseIoreq(Post(q, t, err))
  <2>1. PICK err \in BOOLEAN : sc' = ReleaseIoreq(Post(q, t, err)) BY <1>10
  <2>2. /\ sc'.kind = sc.kind /\ sc'.req = sc.req /\ sc'.work = sc.work /\ sc'.sq = Tail(sc.sq)
        /\ sc'.cq = [sc.cq EXCEPT ![sc.tail] = [cid |-> t, phase |-> 1 - sc.cq[sc.tail].phase]]
        /\ sc'.tail = Next1(sc.tail) /\ sc'.msix = (sc.msix \/ sc.head # Next1(sc.tail))
        /\ sc'.posted = Append(sc.posted, t) /\ sc'.failed = (IF err THEN sc.failed \cup {t} ELSE sc.failed)
        /\ sc'.ghead = sc.ghead /\ sc'.gphase = sc.gphase /\ sc'.isr = sc.isr /\ SameRest
        /\ sc'.db = sc.db /\ sc'.rdy \in BOOLEAN /\ (sc.rdy => sc'.rdy) /\ Shape(sc')
        /\ sc'.posting = sc.posting /\ sc'.sem = (sc.sem - 1) + 1 /\ sc'.pending = (sc.pending + 1) - 1
    <3> DEFINE r == Post(q, t, err)
    <3>1. /\ r.kind = sc.kind /\ r.req = sc.req /\ r.work = sc.work /\ r.sq = Tail(sc.sq)
          /\ r.cq = [sc.cq EXCEPT ![sc.tail] = [cid |-> t, phase |-> 1 - sc.cq[sc.tail].phase]]
          /\ r.tail = Next1(sc.tail) /\ r.msix = (sc.msix \/ sc.head # Next1(sc.tail))
          /\ r.posted = Append(sc.posted, t) /\ r.failed = (IF err THEN sc.failed \cup {t} ELSE sc.failed)
          /\ r.ghead = sc.ghead /\ r.gphase = sc.gphase /\ r.isr = sc.isr /\ r.db = sc.db
          /\ r.posting = sc.posting /\ r.sem = sc.sem - 1 /\ r.pending = sc.pending + 1
          /\ r.cqLive = sc.cqLive /\ r.sqLive = sc.sqLive
          /\ r.ram = sc.ram /\ r.head = sc.head /\ r.ops = sc.ops
          /\ r.bound = sc.bound /\ r.gone = sc.gone /\ r.stray = sc.stray /\ r.dead = sc.dead
      BY DEF Post, GetIoreq, Next1, Types, Inv
    <3>2. r.rdy = sc.rdy /\ r.en = sc.en /\ sc.rdy \in BOOLEAN /\ sc.en \in BOOLEAN /\ Shape(r)
      <4>1. r.rdy = sc.rdy /\ r.en = sc.en /\ sc.rdy \in BOOLEAN /\ sc.en \in BOOLEAN /\ Shape(sc)
        BY DEF Post, GetIoreq, Types, Inv, Shape
      <4>2. Shape(q) BY <4>1, ShapeKept
      <4>3. Shape([q EXCEPT !.work[t] = 0]) BY <4>2, ShapeKept
      <4> QED BY <4>1, <4>2, <4>3, ShapeKept
    <3>3. sc' = ReleaseIoreq(r) BY <2>1
    <3> HIDE DEF r, t
    <3> QED BY <3>1, <3>2, <3>3, ReleasedFields DEF SameRest
  <2>3. sc'.sem = sc.sem /\ sc'.pending = sc.pending BY <1>5, <2>2
  <2>4. sc.work[t] = 0 BY <1>4, <1>10
  <2> HIDE DEF t
  <2>5. Inv' /\ Completes(t, err) BY <1>1, <1>3, <2>2, <2>3, PostNow DEF t
  <2> QED BY <1>3, <1>4, <2>4, <2>5
<1>11. CASE /\ sc.kind[t] \in {"rw", "dsm", "large"} /\ ~sc.ram /\ sc.sem > 0
            /\ sc' = [q EXCEPT !.req[t] = "queued"] \/ sc' = [q EXCEPT !.req[t] = "queued", !.db = "part"]
  <2>1. /\ sc'.kind = sc.kind /\ sc'.work = sc.work /\ sc'.sq = Tail(sc.sq) /\ sc'.cq = sc.cq
        /\ sc'.req = [sc.req EXCEPT ![t] = "queued"] /\ sc'.tail = sc.tail /\ sc'.msix = sc.msix
        /\ sc'.posted = sc.posted /\ sc'.failed = sc.failed
        /\ sc'.ghead = sc.ghead /\ sc'.gphase = sc.gphase /\ sc'.isr = sc.isr /\ SameRest
        /\ (sc'.db = sc.db \/ sc'.db = "part") /\ sc'.rdy = sc.rdy /\ Shape(sc')
        /\ sc'.posting = sc.posting /\ sc'.sem = sc.sem - 1 /\ sc'.pending = sc.pending + 1
    <3>1. CASE sc' = [q EXCEPT !.req[t] = "queued"] BY <3>1 DEF GetIoreq, Types, Inv, SameRest, Shape
    <3>2. CASE sc' = [q EXCEPT !.req[t] = "queued", !.db = "part"] BY <3>2 DEF GetIoreq, Types, Inv, SameRest, Shape
    <3> QED BY <1>11, <3>1, <3>2
  <2>2. /\ sc'.sq \in Seq(Tags) /\ NoDup(sc'.sq) /\ \A x : In(sc'.sq, x) <=> In(sc.sq, x) /\ x # t
    BY <1>1, <1>2, <2>1, Taken
  <2> HIDE DEF t, p, q
  <2>3. /\ sc'.req \in [Tags -> Reqs] /\ sc'.req[t] = "queued" /\ \A x \in Tags : x # t => sc'.req[x] = sc.req[x]
    BY <1>3, <2>1 DEF Types, Inv, Reqs
  <2>4. Types'
    <3>1. sc'.sem \in Nat /\ sc'.pending \in Nat BY <1>5, <1>11, <2>1
    <3>2. sc'.db \in Dbs BY <2>1 DEF Types, Inv, Dbs
    <3> QED BY <2>1, <2>2, <2>3, <3>1, <3>2 DEF Types, Inv, SameRest, Shape
  <2>5. sc.work[t] >= 1 BY <1>4, <1>11
  <2>6. Places' BY <1>3, <1>4, <1>11, <2>1, <2>2, <2>3, <2>5 DEF Places, SameRest, Inv, Queue, None
  <2>7. Outstanding' = Outstanding /\ Unposted' = Unposted /\ Unacked' = Unacked
    BY <2>1 DEF Outstanding, Unposted, Unacked, SameRest
  <2>8. Live' /\ Room' /\ Phases' /\ NoLostInterrupt'
    <3>1. Made' <=> Made BY <2>1 DEF Made, SameRest
    <3>2. Live' BY <1>1, <1>6, <2>1, <3>1 DEF Live, SameRest, Inv, Queue
    <3> QED BY <2>1, <2>7, <3>1, <3>2 DEF Room, Phases, NoLostInterrupt, SameRest, Inv, Queue
  <2>9. Accounted'
    <3> DEFINE R == {x \in Tags : sc.req[x] # None}
    <3>1. {x \in Tags : sc'.req[x] # None} = R \cup {t} /\ t \notin R BY <1>3, <1>4, <2>3 DEF None
    <3>2. IsFiniteSet(R) /\ Cardinality(R) \in Nat BY OutFinite
    <3>3. sc.pending = Cardinality(R) + sc.posting /\ sc.sem + (Cardinality(R) + sc.posting) = IoSlots
      BY DEF Accounted, Inv
    <3> HIDE DEF R
    <3>4. Cardinality(R \cup {t}) = Cardinality(R) + 1 BY <3>1, <3>2, FS_AddElement
    <3>5. /\ sc'.pending = Cardinality(R \cup {t}) + sc'.posting
          /\ sc'.sem + (Cardinality(R \cup {t}) + sc'.posting) = IoSlots
      BY <1>5, <2>1, <3>2, <3>3, <3>4 DEF Params
    <3> QED BY <3>1, <3>5 DEF Accounted
  <2>10. Handled' BY <1>1, <2>1 DEF Handled
  <2> QED BY <1>3, <1>4, <2>1, <2>4, <2>6, <2>8, <2>9, <2>10 DEF Inv, Queue, SameRest
<1> HIDE DEF t, p, q, Failed
<1> QED BY <1>6, <1>7, <1>8, <1>9, <1>10, <1>11

\* A step that moves a request between the backend's queue and its threads.
Moves(t) ==
    /\ SameRest /\ sc'.rdy = sc.rdy /\ sc'.sq = sc.sq /\ sc'.kind = sc.kind
    /\ sc'.db = sc.db \/ (sc.db \in {"sleep", "woken"} /\ sc'.db \in {"loop", "part", "woken"})
    /\ sc'.posting = sc.posting /\ sc'.sem = sc.sem /\ sc'.pending = sc.pending
    /\ sc'.cq = sc.cq /\ sc'.tail = sc.tail /\ sc'.msix = sc.msix /\ sc'.isr = sc.isr
    /\ sc'.ghead = sc.ghead /\ sc'.gphase = sc.gphase /\ sc'.posted = sc.posted /\ sc'.failed = sc.failed
    /\ Shape(sc')

LEMMA MoveStep ==
    ASSUME Params, Inv, NEW t \in Tags, Moves(t), sc.req[t] # None,
           NEW r \in {"queued", "busy", "held"}, NEW n \in 0..MaxRanges, n >= 1,
           sc'.req = [sc.req EXCEPT ![t] = r], sc'.work = [sc.work EXCEPT ![t] = n]
    PROVE  Inv'
<1> USE DEF Inv, Queue
<1>1. /\ sc'.req \in [Tags -> Reqs] /\ sc'.req[t] = r /\ \A x \in Tags : x # t => sc'.req[x] = sc.req[x]
      /\ sc'.work \in [Tags -> 0..MaxRanges] /\ sc'.work[t] = n
      /\ \A x \in Tags : x # t => sc'.work[x] = sc.work[x]
  BY DEF Types, Reqs
<1>2. r # None BY DEF None
<1>3. Types'
  <2>1. sc'.db \in Dbs BY DEF Types, Moves, Dbs
  <2> QED BY <1>1, <2>1 DEF Types, Moves, SameRest, Shape
<1>4. ~In(sc.sq, t) /\ ~In(sc.posted, t) /\ sc.kind[t] # None /\ ~sc.ram BY DEF Places
<1>5. Places'
  <2>1. /\ sc'.sq = sc.sq /\ sc'.posted = sc.posted /\ sc'.kind = sc.kind /\ sc'.ram = sc.ram /\ sc'.failed = sc.failed
    BY DEF Moves, SameRest
  <2> QED BY <1>1, <1>2, <1>4, <2>1 DEF Places
<1>6. Outstanding' = Outstanding /\ Unposted' = Unposted /\ Unacked' = Unacked
  BY DEF Outstanding, Unposted, Unacked, Moves, SameRest
<1>7. Live' /\ Room' /\ Phases' /\ NoLostInterrupt' /\ Handled'
  <2>1. Made' <=> Made BY DEF Made, Moves, SameRest
  <2>2. Live' BY <2>1 DEF Live, Moves, SameRest
  <2>3. Handled' BY DEF Handled, Moves
  <2> QED BY <1>6, <2>1, <2>2, <2>3 DEF Room, Phases, NoLostInterrupt, Moves, SameRest
<1>8. Accounted'
  <2>1. {x \in Tags : sc'.req[x] # None} = {x \in Tags : sc.req[x] # None} BY <1>1, <1>2
  <2>2. sc'.posting = sc.posting /\ sc'.sem = sc.sem /\ sc'.pending = sc.pending BY DEF Moves
  <2> QED BY <2>1, <2>2 DEF Accounted
<1> QED BY <1>3, <1>5, <1>7, <1>8

LEMMA BackendStep ==
    ASSUME Params, Inv, NEW t \in Tags, BackendStarts(t)
    PROVE  /\ Inv' /\ sc.req[t] = "queued" /\ sc'.req = [sc.req EXCEPT ![t] = "busy"] /\ sc'.work = sc.work
           /\ Moves(t)
<1>1. /\ sc.req[t] = "queued" /\ sc'.req = [sc.req EXCEPT ![t] = "busy"] /\ sc'.work = sc.work /\ Moves(t)
  BY DEF BackendStarts, Types, Inv, Moves, SameRest, Shape
<1>2. sc.req[t] # None BY <1>1 DEF None
<1>3. sc.work[t] \in 0..MaxRanges /\ sc.work[t] >= 1 BY <1>2 DEF Types, Places, Inv, Queue
<1>4. sc'.work = [sc.work EXCEPT ![t] = sc.work[t]] BY <1>1 DEF Types, Inv
<1> QED BY <1>1, <1>2, <1>3, <1>4, MoveStep

\* The thread goes on with the next part of a large transfer.
LEMMA NextPartStep ==
    ASSUME Params, Inv, NEW t \in Tags, NextPart(t)
    PROVE  /\ Inv' /\ sc.req[t] = "held" /\ sc'.req = [sc.req EXCEPT ![t] = "queued"] /\ sc'.work = sc.work
           /\ Moves(t)
<1>1. /\ sc.req[t] = "held" /\ sc'.req = [sc.req EXCEPT ![t] = "queued"] /\ sc'.work = sc.work /\ Moves(t)
  <2> DEFINE d == IF sc.work[t] > 1 THEN "part" ELSE "loop"
  <2>1. /\ sc.db = "woken" /\ sc.req[t] = "held" /\ sc' = [sc EXCEPT !.req[t] = "queued", !.db = d]
    BY DEF NextPart
  <2>2. d \in {"loop", "part", "woken"} OBVIOUS
  <2> HIDE DEF d
  <2> QED BY <2>1, <2>2 DEF Types, Inv, Moves, SameRest, Shape
<1>2. sc.req[t] # None BY <1>1 DEF None
<1>3. sc.work[t] \in 0..MaxRanges /\ sc.work[t] >= 1 BY <1>2 DEF Types, Places, Inv, Queue
<1>4. sc'.work = [sc.work EXCEPT ![t] = sc.work[t]] BY <1>1 DEF Types, Inv
<1> QED BY <1>1, <1>2, <1>3, <1>4, MoveStep

\* The request of a command is given back, its release yet to come.
LEMMA Returned ==
    ASSUME Params, Inv, NEW t \in Tags, sc.req[t] # None, sc'.req = [sc.req EXCEPT ![t] = None],
           sc'.posting = sc.posting + 1, sc'.sem = sc.sem, sc'.pending = sc.pending
    PROVE  Accounted'
<1> DEFINE R == {x \in Tags : sc.req[x] # None}
<1>1. {x \in Tags : sc'.req[x] # None} = R \ {t} /\ t \in R BY DEF Types, Inv
<1>2. IsFiniteSet(R) /\ Cardinality(R) \in Nat BY OutFinite
<1>3. sc.pending = Cardinality(R) + sc.posting /\ sc.sem + (Cardinality(R) + sc.posting) = IoSlots
  BY DEF Accounted, Inv
<1> HIDE DEF R
<1>4. Cardinality(R \ {t}) = Cardinality(R) - 1 BY <1>1, <1>2, FS_RemoveElement
<1>5. sc.posting \in Nat /\ sc.sem \in Nat /\ IoSlots \in Nat BY DEF Types, Inv, Params
<1>6. /\ sc'.pending = Cardinality(R \ {t}) + sc'.posting
      /\ sc'.sem + (Cardinality(R \ {t}) + sc'.posting) = IoSlots
  BY <1>2, <1>3, <1>4, <1>5
<1> QED BY <1>1, <1>6 DEF Accounted

\* A request of before a reset completes: its entry goes to the admin queue.
Strays(t) ==
    /\ sc.bound = FALSE /\ sc'.bound = FALSE
    /\ sc'.kind = [sc.kind EXCEPT ![t] = None] /\ sc'.req = [sc.req EXCEPT ![t] = None]

LEMMA StrayStep ==
    ASSUME Params, Inv, NEW t \in Tags, sc.req[t] # None, sc.bound = FALSE,
           sc' = [sc EXCEPT !.req = [sc.req EXCEPT ![t] = None], !.work = [sc.work EXCEPT ![t] = 0],
                            !.posting = sc.posting + 1, !.stray = TRUE, !.kind = [sc.kind EXCEPT ![t] = None]]
    PROVE  Inv' /\ Strays(t)
<1> USE DEF Inv, Queue
<1> DEFINE k == [sc.kind EXCEPT ![t] = None]
           w == [sc.work EXCEPT ![t] = 0]
           r == [sc.req EXCEPT ![t] = None]
           n == sc.posting + 1
<1>1. sc' = [sc EXCEPT !.req = r, !.work = w, !.posting = n, !.stray = TRUE, !.kind = k] OBVIOUS
<1>2. /\ k \in [Tags -> Kinds \cup {None}] /\ w \in [Tags -> 0..MaxRanges] /\ r \in [Tags -> Reqs] /\ n \in Nat
      /\ k[t] = None /\ r[t] = None
      /\ \A x \in Tags : x # t => k[x] = sc.kind[x] /\ w[x] = sc.work[x] /\ r[x] = sc.req[x]
  BY DEF Types, Params, Reqs
<1>3. Strays(t)
  <2>1. sc'.bound = sc.bound /\ sc'.kind = k /\ sc'.req = r BY <1>1 DEF Types
  <2> QED BY <2>1 DEF Strays
<1>4. sc'.posting = sc.posting + 1 BY <1>1 DEF Types
<1> HIDE DEF k, w, r, n
<1>5. /\ sc'.kind = k /\ sc'.work = w /\ sc'.req = r /\ sc'.posting = n /\ sc'.stray = TRUE
      /\ sc'.en = sc.en /\ sc'.rdy = sc.rdy /\ sc'.cqLive = sc.cqLive /\ sc'.sqLive = sc.sqLive /\ sc'.ram = sc.ram
      /\ sc'.bound = sc.bound /\ sc'.gone = sc.gone /\ sc'.dead = sc.dead /\ sc'.sq = sc.sq /\ sc'.db = sc.db
      /\ sc'.sem = sc.sem /\ sc'.pending = sc.pending /\ sc'.cq = sc.cq /\ sc'.tail = sc.tail /\ sc'.head = sc.head
      /\ sc'.msix = sc.msix /\ sc'.isr = sc.isr /\ sc'.ghead = sc.ghead /\ sc'.gphase = sc.gphase
      /\ sc'.posted = sc.posted /\ sc'.failed = sc.failed /\ sc'.ops = sc.ops
  BY <1>1 DEF Types
<1>6. Shape(sc') BY <1>1 DEF Shape, Types
<1>7. Types' BY <1>2, <1>5, <1>6 DEF Types, Shape
<1>8. sc.sq = <<>> /\ sc.posted = <<>> BY DEF Live
<1>9. \A x : ~In(sc.sq, x) /\ ~In(sc.posted, x) BY <1>8 DEF In
<1>10. Places' BY <1>2, <1>5, <1>9 DEF Places
<1>11. Room'
  <2>1. Outstanding' \in SUBSET Outstanding /\ Unposted' \in SUBSET Unposted /\ Unacked' = Unacked
    BY <1>2, <1>5 DEF Outstanding, Unposted, Unacked
  <2>2. /\ Cardinality(Outstanding') <= Cardinality(Outstanding) /\ Cardinality(Outstanding') \in Nat
        /\ Cardinality(Unposted') <= Cardinality(Unposted) /\ Cardinality(Unposted') \in Nat
    BY <2>1, OutFinite, FS_Subset, FS_CardinalityType
  <2>3. Unacked \in 0..(CqSize - 1) BY UnackedRange
  <2> QED BY <2>1, <2>2, <2>3, OutFinite DEF Room, Params
<1>12. Made' <=> Made BY <1>5 DEF Made
<1>13. Phases' /\ Live' BY <1>5, <1>12 DEF Phases, Live
<1>14. NoLostInterrupt' /\ Handled' BY <1>5 DEF NoLostInterrupt, Handled
<1>15. Accounted' BY <1>3, <1>4, <1>5, Returned DEF Strays
<1> QED BY <1>3, <1>7, <1>10, <1>11, <1>13, <1>14, <1>15

\* The assertion ends the process; nothing else has changed.
Died == /\ sc.bound = TRUE /\ sc'.bound = TRUE /\ SameQueues

LEMMA DeadStep ==
    ASSUME Params, Inv, sc.bound = TRUE, sc' = [sc EXCEPT !.dead = TRUE]
    PROVE  Inv' /\ Died
<1> USE DEF Inv, Queue
<1>1. /\ SameQueues /\ SameCq /\ sc'.posting = sc.posting /\ sc'.sem = sc.sem /\ sc'.pending = sc.pending
      /\ sc'.bound = TRUE
  BY DEF SameQueues, SameCq, Types, Made
<1>2. Types' BY <1>1 DEF Types, SameQueues, SameCq
<1>3. Places' /\ Outstanding' = Outstanding /\ Unposted' = Unposted BY <1>1, FramePlaces
<1>4. Room' /\ Phases' BY <1>1, <1>3, FrameCq
<1>5. Accounted' BY <1>1, FrameBooks DEF SameQueues
<1>6. Live' /\ NoLostInterrupt' /\ Handled'
  <2>1. /\ sc'.sq = sc.sq /\ sc'.posted = sc.posted /\ sc'.pending = sc.pending /\ (Made' <=> Made)
    BY <1>1 DEF SameQueues, SameCq
  <2>2. /\ sc'.db = sc.db /\ sc'.sqLive = sc.sqLive /\ sc'.cqLive = sc.cqLive /\ sc'.bound = sc.bound
        /\ sc'.rdy = sc.rdy /\ sc'.isr = sc.isr /\ sc'.en = sc.en /\ sc'.msix = sc.msix
    BY DEF Types
  <2> QED BY <2>1, <2>2 DEF Live, NoLostInterrupt, Handled
<1> QED BY <1>1, <1>2, <1>3, <1>4, <1>5, <1>6 DEF Died

\* pci_nvme_io_done() and pci_nvme_dealloc_sm(): one more range, or the
\* completion; pci_nvme_io_partial(): one part less.
LEMMA CallbackStep ==
    ASSUME Params, Inv, NEW t \in Tags, Callback(t)
    PROVE  /\ Inv' /\ sc.req[t] = "busy"
           /\ \/ /\ sc.work[t] > 1 /\ Moves(t) /\ sc'.work = [sc.work EXCEPT ![t] = sc.work[t] - 1]
                 /\ \E r \in {"queued", "held"} : sc'.req = [sc.req EXCEPT ![t] = r]
              \/ Strays(t) \/ Died
              \/ \E err \in BOOLEAN : Completes(t, err) /\ (err \/ sc.work[t] = 1)
<1>1. sc.req[t] = "busy" BY DEF Callback
<1>2. sc.req[t] # None BY <1>1 DEF None
<1>3. /\ sc.work[t] \in 0..MaxRanges /\ sc.work[t] >= 1 /\ MaxRanges \in Nat
      /\ sc.kind[t] # None /\ ~In(sc.posted, t) /\ ~In(sc.sq, t)
  BY <1>2 DEF Types, Places, Inv, Queue, Params
<1>4. CASE sc.work[t] > 1 /\ sc' = IoPartial(t)
  <2> DEFINE d == IF sc.db = "sleep" THEN "woken" ELSE sc.db
  <2>1. sc' = [sc EXCEPT !.work[t] = sc.work[t] - 1, !.req[t] = "held", !.db = d] BY <1>4 DEF IoPartial, Types, Inv
  <2>2. d = sc.db \/ (sc.db \in {"sleep", "woken"} /\ d \in {"loop", "part", "woken"}) OBVIOUS
  <2> HIDE DEF d
  <2>3. /\ sc'.req = [sc.req EXCEPT ![t] = "held"] /\ sc'.work = [sc.work EXCEPT ![t] = sc.work[t] - 1]
        /\ sc'.db = d
    BY <2>1 DEF Types, Inv
  <2>4. Moves(t) BY <2>1, <2>2, <2>3 DEF Types, Inv, Moves, SameRest, Shape
  <2>5. sc.work[t] - 1 \in 0..MaxRanges /\ sc.work[t] - 1 >= 1 BY <1>3, <1>4
  <2>6. Inv' BY <1>2, <2>3, <2>4, <2>5, MoveStep
  <2> QED BY <1>1, <1>4, <2>3, <2>4, <2>6
<1>5. CASE \E err \in BOOLEAN : sc' = IoDone(t, err)
  <2>1. PICK err \in BOOLEAN : sc' = IoDone(t, err) BY <1>5
  <2>2. CASE ~err /\ sc.work[t] > 1
    <3>1. /\ sc'.req = [sc.req EXCEPT ![t] = "queued"] /\ sc'.work = [sc.work EXCEPT ![t] = sc.work[t] - 1] /\ Moves(t)
      BY <2>1, <2>2 DEF IoDone, Types, Inv, Moves, SameRest, Shape
    <3>2. sc.work[t] - 1 \in 0..MaxRanges /\ sc.work[t] - 1 >= 1 BY <1>3, <2>2
    <3>3. Inv' BY <1>2, <3>1, <3>2, MoveStep
    <3> QED BY <1>1, <2>2, <3>1, <3>3
  <2>3. CASE ~(~err /\ sc.work[t] > 1)
    <3> DEFINE a == [sc.req EXCEPT ![t] = None]
               b == [sc.work EXCEPT ![t] = 0]
               c == sc.posting + 1
               p == [sc EXCEPT !.req = a, !.work = b, !.posting = c]
    <3>1. sc' = SetCompletion(p, t, err) BY <2>1, <2>3 DEF IoDone
    <3>2. a \in [Tags -> Reqs] /\ b \in [Tags -> 0..MaxRanges] /\ c \in Nat
          /\ \A x \in Tags : x # t => b[x] = sc.work[x]
      BY <1>3 DEF Types, Inv, Reqs
    <3>3. p.bound = sc.bound /\ p.cqLive = sc.cqLive /\ p.kind = sc.kind BY DEF Types, Inv
    <3>4. CASE sc.bound = FALSE
      <4>1. sc' = [p EXCEPT !.stray = TRUE, !.kind[t] = None]
        <5> HIDE DEF p
        <5> QED BY <3>1, <3>3, <3>4 DEF SetCompletion
      <4>2. sc' = [sc EXCEPT !.req = [sc.req EXCEPT ![t] = None], !.work = [sc.work EXCEPT ![t] = 0],
                             !.posting = sc.posting + 1, !.stray = TRUE, !.kind = [sc.kind EXCEPT ![t] = None]]
        BY <4>1 DEF Types, Inv
      <4> QED BY <1>1, <1>2, <3>4, <4>2, StrayStep
    <3>5. CASE sc.bound = TRUE /\ sc.cqLive = FALSE
      <4>1. sc' = [sc EXCEPT !.dead = TRUE]
        <5> HIDE DEF p
        <5> QED BY <3>1, <3>3, <3>5 DEF SetCompletion
      <4> QED BY <1>1, <3>5, <4>1, DeadStep
    <3>6. CASE sc.bound = TRUE /\ sc.cqLive = TRUE
      <4>1. sc' = Post(p, t, err)
        <5> HIDE DEF p
        <5> QED BY <3>1, <3>3, <3>6 DEF SetCompletion
      <4>2. /\ p.sq = sc.sq /\ p.cq = sc.cq /\ p.tail = sc.tail /\ p.msix = sc.msix /\ p.head = sc.head
            /\ p.posted = sc.posted /\ p.failed = sc.failed /\ p.ghead = sc.ghead /\ p.gphase = sc.gphase
            /\ p.isr = sc.isr /\ p.db = sc.db /\ p.rdy = sc.rdy /\ p.en = sc.en /\ p.sqLive = sc.sqLive
            /\ p.ram = sc.ram /\ p.ops = sc.ops /\ p.gone = sc.gone /\ p.stray = sc.stray /\ p.dead = sc.dead
            /\ p.sem = sc.sem /\ p.pending = sc.pending /\ p.req = a /\ p.work = b /\ p.posting = c
        BY DEF Types, Inv
      <4>3. Shape(p)
        <5>1. Shape(sc) BY DEF Types, Inv, Shape
        <5> HIDE DEF a, b, c
        <5> QED BY <5>1, ShapeKept
      <4> HIDE DEF p
      <4>4. Shape(sc') BY <4>1, <4>3, ShapeKept
      <4>5. /\ sc'.kind = p.kind /\ sc'.req = p.req /\ sc'.work = p.work /\ sc'.sq = p.sq
            /\ sc'.cq = [p.cq EXCEPT ![p.tail] = [cid |-> t, phase |-> 1 - p.cq[p.tail].phase]]
            /\ sc'.tail = Next1(p.tail) /\ sc'.msix = (p.msix \/ p.head # Next1(p.tail))
            /\ sc'.posted = Append(p.posted, t) /\ sc'.failed = (IF err THEN p.failed \cup {t} ELSE p.failed)
            /\ sc'.ghead = p.ghead /\ sc'.gphase = p.gphase /\ sc'.isr = p.isr /\ sc'.db = p.db /\ sc'.rdy = p.rdy
            /\ sc'.posting = p.posting /\ sc'.sem = p.sem /\ sc'.pending = p.pending
            /\ sc'.en = p.en /\ sc'.cqLive = p.cqLive /\ sc'.sqLive = p.sqLive /\ sc'.ram = p.ram
            /\ sc'.head = p.head /\ sc'.ops = p.ops /\ sc'.bound = p.bound /\ sc'.gone = p.gone
            /\ sc'.stray = p.stray /\ sc'.dead = p.dead
        BY <4>1, <4>3 DEF Post, Next1, Shape
      <4>6. SameRest /\ sc'.req = [sc.req EXCEPT ![t] = None] /\ sc'.posting = sc.posting + 1
            /\ sc'.sem = sc.sem /\ sc'.pending = sc.pending /\ sc'.work = b /\ sc'.kind = sc.kind
            /\ sc'.db = sc.db /\ sc'.sq = sc.sq
        BY <3>3, <4>2, <4>5 DEF SameRest
      <4>7. sc'.sq \in Seq(Tags) /\ NoDup(sc'.sq) /\ \A x : In(sc'.sq, x) <=> In(sc.sq, x) /\ x # t
        BY <1>3, <4>6 DEF Types, Places, Inv, Queue
      <4>8. sc'.posting \in Nat /\ sc'.sem \in Nat /\ sc'.pending \in Nat /\ sc'.rdy \in BOOLEAN /\ (sc.rdy => sc'.rdy)
        BY <4>2, <4>5, <4>6 DEF Types, Inv
      <4> HIDE DEF a, b, c
      <4>9. Posts(t, err) BY <3>2, <3>3, <4>2, <4>4, <4>5, <4>6, <4>7, <4>8 DEF Posts
      <4>10. Types' /\ Queue' /\ \A x : In(sc'.posted, x) <=> In(sc.posted, x) \/ x = t
        BY <1>3, <3>6, <4>9, PostStep DEF Inv
      <4>11. Accounted' BY <1>2, <4>6, Returned
      <4>12. Handled' BY <4>6 DEF Handled, Inv
      <4>13. Completes(t, err) BY <3>2, <3>6, <4>9, <4>10 DEF Completes, SameRest, Posts
      <4>14. err \/ sc.work[t] = 1 BY <1>3, <2>3
      <4>15. Inv' BY <4>10, <4>11, <4>12 DEF Inv
      <4> QED BY <1>1, <4>13, <4>14, <4>15
    <3>7. sc.bound \in BOOLEAN /\ sc.cqLive \in BOOLEAN BY DEF Types, Inv
    <3> QED BY <3>4, <3>5, <3>6, <3>7
  <2> QED BY <2>2, <2>3
<1> QED BY <1>4, <1>5 DEF Callback

\* The guest's head and the phase it expects after it took one entry.
LEMMA Advance ==
    ASSUME Params, NEW g \in 0..(CqSize - 1), NEW f \in {0, 1}, NEW h, NEW e,
           h = Next1(g), e = IF h = 0 THEN 1 - f ELSE f
    PROVE  /\ h \in 0..(CqSize - 1) /\ e \in {0, 1}
           /\ \A i \in 0..(CqSize - 1) : i + 1 <= CqSize - 1 =>
                Pos(h, i) = Pos(g, i + 1) /\ Exp(h, e, i) = Exp(g, f, i + 1)
           /\ Pos(h, CqSize - 1) = g /\ Exp(h, e, CqSize - 1) = 1 - f
           /\ Pos(g, 0) = g /\ Exp(g, f, 0) = f
<1>1. CqSize \in Nat /\ CqSize > 0 BY DEF Params
<1>2. h = (IF g + 1 < CqSize THEN g + 1 ELSE 0) /\ h \in 0..(CqSize - 1) BY NextIndex
<1>3. Pos(g, 0) = g /\ Exp(g, f, 0) = f BY <1>1 DEF Pos, Exp
<1>4. CASE g + 1 < CqSize
  <2>1. h = g + 1 /\ e = f BY <1>1, <1>2, <1>4
  <2> QED BY <1>1, <1>2, <1>3, <1>4, <2>1 DEF Pos, Exp
<1>5. CASE ~(g + 1 < CqSize)
  <2>1. h = 0 /\ e = 1 - f /\ g = CqSize - 1 BY <1>1, <1>2, <1>5
  <2> QED BY <1>1, <1>2, <1>3, <1>5, <2>1 DEF Pos, Exp
<1> QED BY <1>4, <1>5

LEMMA IsrTakeStep ==
    ASSUME Params, Inv, IsrTake
    PROVE  /\ Inv'
           /\ \E t \in Tags :
                /\ In(sc.posted, t) /\ sc.kind[t] # None
                /\ sc'.kind = [sc.kind EXCEPT ![t] = None] /\ sc'.failed = sc.failed \ {t}
                /\ sc'.ram = sc.ram /\ sc'.req = sc.req /\ sc'.bound = sc.bound
                /\ \A x \in Tags : x # t => sc'.work[x] = sc.work[x]
                /\ \A x : In(sc.posted, x) <=> In(sc'.posted, x) \/ x = t
<1> DEFINE g == sc.ghead
           f == sc.gphase
           t == sc.cq[g].cid
           n == Len(sc.posted)
<1>1. sc.isr /\ Visible /\ Made BY DEF IsrTake, Live, Inv, Queue
<1>2. n \in Nat /\ n <= CqSize - 1 /\ CqSize \in Nat /\ CqSize > 0 BY PostedBound DEF Params, Inv, Queue
<1>3. n > 0 BY <1>1, VisibleIsPosted
<1>4. g \in 0..(CqSize - 1) /\ f \in {0, 1} /\ sc.posted \in Seq(Tags) /\ NoDup(sc.posted)
  BY DEF Types, Places, Inv, Queue
<1>5. sc.posted # <<>> BY <1>2, <1>3, <1>4
<1>6. /\ Tail(sc.posted) \in Seq(Tags) /\ Head(sc.posted) \in Tags /\ In(sc.posted, Head(sc.posted))
      /\ Head(sc.posted) = sc.posted[1] /\ n = Len(Tail(sc.posted)) + 1 /\ Len(Tail(sc.posted)) \in Nat
      /\ \A i \in 1..Len(Tail(sc.posted)) : Tail(sc.posted)[i] = sc.posted[i + 1]
      /\ NoDup(Tail(sc.posted)) /\ ~In(Tail(sc.posted), Head(sc.posted))
      /\ \A x : In(sc.posted, x) <=> In(Tail(sc.posted), x) \/ x = Head(sc.posted)
  BY <1>4, <1>5, Taken
<1>7. Pos(g, 0) = g /\ 0 \in 0..(CqSize - 1) BY <1>2, <1>4 DEF Pos
<1>8. t = sc.posted[1]
  <2>1. sc.cq[Pos(g, 0)].cid = sc.posted[0 + 1] BY <1>1, <1>2, <1>3, <1>7 DEF Phases, Inv, Queue
  <2> QED BY <1>7, <2>1
<1>9. t \in Tags /\ t = Head(sc.posted) BY <1>6, <1>8
<1>10. In(sc.posted, t) /\ sc.kind[t] # None /\ sc.req[t] = None /\ ~In(sc.sq, t)
  BY <1>6, <1>9 DEF Places, Inv, Queue
<1>11. /\ sc'.kind = [sc.kind EXCEPT ![t] = None] /\ sc'.work = [sc.work EXCEPT ![t] = 0]
       /\ sc'.failed = sc.failed \ {t} /\ sc'.posted = Tail(sc.posted)
       /\ sc'.cq = [sc.cq EXCEPT ![g] = [sc.cq[g] EXCEPT !.cid = None]]
       /\ sc'.ghead = Next1(g) /\ sc'.gphase = IF Next1(g) = 0 THEN 1 - f ELSE f
  BY DEF IsrTake, Types, Inv
<1>12. /\ SameRest /\ sc'.rdy = sc.rdy /\ sc'.sq = sc.sq /\ sc'.db = sc.db /\ sc'.req = sc.req
       /\ sc'.posting = sc.posting /\ sc'.sem = sc.sem /\ sc'.pending = sc.pending
       /\ sc'.tail = sc.tail /\ sc'.msix = sc.msix /\ sc'.isr = sc.isr
  BY DEF IsrTake, Types, Inv, SameRest
<1>13. Shape(sc')
  <2> DEFINE a == [sc.kind EXCEPT ![t] = None]
             b == [sc.work EXCEPT ![t] = 0]
             c == sc.failed \ {t}
             d == Tail(sc.posted)
             e == [sc.cq EXCEPT ![g] = [sc.cq[g] EXCEPT !.cid = None]]
             h == Next1(g)
             i == IF Next1(g) = 0 THEN 1 - f ELSE f
  <2>1. sc' = [sc EXCEPT !.kind = a, !.work = b, !.failed = c, !.posted = d, !.cq = e, !.ghead = h, !.gphase = i]
    BY DEF IsrTake
  <2>2. Shape(sc) BY DEF Types, Inv, Shape
  <2> HIDE DEF a, b, c, d, e, h, i
  <2> QED BY <2>1, <2>2 DEF Shape
<1> HIDE DEF t
<1>14. /\ sc'.kind \in [Tags -> Kinds \cup {None}] /\ sc'.work \in [Tags -> 0..MaxRanges] /\ sc'.kind[t] = None
       /\ \A x \in Tags : x # t => sc'.kind[x] = sc.kind[x] /\ sc'.work[x] = sc.work[x]
  <2>1. sc.kind \in [Tags -> Kinds \cup {None}] /\ sc.work \in [Tags -> 0..MaxRanges] /\ 0 \in 0..MaxRanges
    BY DEF Types, Inv, Params
  <2> QED BY <1>9, <1>11, <2>1
<1>15. /\ sc'.cq \in [0..(CqSize - 1) -> Entry] /\ sc'.cq[g].phase = sc.cq[g].phase
       /\ \A i \in 0..(CqSize - 1) : i # g => sc'.cq[i] = sc.cq[i]
  <2>1. sc.cq \in [0..(CqSize - 1) -> Entry] BY DEF Types, Inv
  <2> DEFINE e == [sc.cq[g] EXCEPT !.cid = None]
  <2>2. e \in Entry /\ e.phase = sc.cq[g].phase BY <1>4, <2>1 DEF Entry
  <2>3. sc'.cq = [sc.cq EXCEPT ![g] = e] BY <1>11
  <2> HIDE DEF e
  <2> QED BY <1>4, <2>1, <2>2, <2>3
<1>16. /\ sc'.ghead \in 0..(CqSize - 1) /\ sc'.gphase \in {0, 1}
       /\ \A i \in 0..(CqSize - 1) : i + 1 <= CqSize - 1 =>
             /\ Pos(sc'.ghead, i) = Pos(g, i + 1) /\ Exp(sc'.ghead, sc'.gphase, i) = Exp(g, f, i + 1)
       /\ Pos(sc'.ghead, CqSize - 1) = g /\ Exp(sc'.ghead, sc'.gphase, CqSize - 1) = 1 - f
       /\ Exp(g, f, 0) = f
  <2>1. sc'.ghead = Next1(g) /\ sc'.gphase = IF sc'.ghead = 0 THEN 1 - f ELSE f BY <1>11
  <2> HIDE DEF g, f
  <2> QED BY <1>4, <2>1, Advance
<1>17. Types'
  <2>1. sc'.failed \in SUBSET Tags BY <1>11 DEF Types, Inv
  <2> QED BY <1>6, <1>11, <1>12, <1>13, <1>14, <1>15, <1>16, <2>1 DEF Types, Inv, SameRest, Shape
<1>18. \A x : In(sc.posted, x) <=> In(sc'.posted, x) \/ x = t BY <1>6, <1>9, <1>11
<1>19. NoDup(sc'.posted) /\ ~In(sc'.posted, t) BY <1>6, <1>9, <1>11
<1>20. Places'
  <2>1. sc'.sq = sc.sq /\ sc'.req = sc.req /\ sc'.ram = sc.ram BY <1>12 DEF SameRest
  <2>2. \A x : x \in sc'.failed <=> x \in sc.failed /\ x # t BY <1>11
  <2> QED BY <1>10, <1>14, <1>18, <1>19, <2>1, <2>2 DEF Places, Inv, Queue
<1>21. Outstanding' = Outstanding \ {t} /\ t \in Outstanding BY <1>9, <1>10, <1>14 DEF Outstanding
<1>22. Unposted' = Unposted
  <2>1. ASSUME NEW x \in Tags PROVE x \in Unposted' <=> x \in Unposted
    BY <1>10, <1>18, <1>21 DEF Unposted
  <2>2. Unposted \in SUBSET Tags /\ Unposted' \in SUBSET Tags BY DEF Unposted, Outstanding
  <2> QED BY <2>1, <2>2
<1>23. Room'
  <2>1. Unacked' = Unacked BY <1>12 DEF Unacked, SameRest
  <2>2. Cardinality(Outstanding \ {t}) = Cardinality(Outstanding) - 1 BY <1>21, OutFinite, FS_RemoveElement
  <2>3. Cardinality(Outstanding') <= CqSize - 1 BY <1>2, <1>21, <2>2, OutFinite DEF Room, Inv, Queue
  <2> QED BY <1>22, <2>1, <2>3 DEF Room, Inv, Queue
<1>24. Phases'
  <2>1. Len(sc'.posted) = n - 1 BY <1>2, <1>6, <1>11
  <2>2. Made /\ Made' BY <1>1, <1>12 DEF Made, SameRest
  <2>3. sc.tail = Pos(g, n) BY <2>2 DEF Phases, Inv, Queue
  <2>4. n - 1 \in 0..(CqSize - 1) /\ (n - 1) + 1 <= CqSize - 1 /\ (n - 1) + 1 = n BY <1>2, <1>3
  <2>5. sc'.tail = Pos(sc'.ghead, n - 1)
    <3>1. Pos(sc'.ghead, n - 1) = Pos(g, (n - 1) + 1) BY <1>16, <2>4
    <3> QED BY <1>12, <2>3, <2>4, <3>1
  <2>6. \A i \in 0..(CqSize - 1) :
          IF i < n THEN sc.cq[Pos(g, i)].cid = sc.posted[i + 1] /\ sc.cq[Pos(g, i)].phase = Exp(g, f, i)
          ELSE sc.cq[Pos(g, i)].phase = 1 - Exp(g, f, i)
    BY <2>2 DEF Phases, Inv, Queue
  <2>7. /\ \A i, j \in 0..(CqSize - 1) : Pos(g, i) = Pos(g, j) => i = j
        /\ \A i \in 0..(CqSize - 1) : Pos(g, i) \in 0..(CqSize - 1) /\ Exp(g, f, i) \in {0, 1}
    BY <1>4, Places0
  <2> HIDE DEF g, f, n
  <2>8. ASSUME NEW i \in 0..(CqSize - 1)
        PROVE IF i < n - 1 THEN /\ sc'.cq[Pos(sc'.ghead, i)].cid = sc'.posted[i + 1]
                                /\ sc'.cq[Pos(sc'.ghead, i)].phase = Exp(sc'.ghead, sc'.gphase, i)
              ELSE sc'.cq[Pos(sc'.ghead, i)].phase = 1 - Exp(sc'.ghead, sc'.gphase, i)
    <3>1. CASE i + 1 <= CqSize - 1
      <4> DEFINE j == i + 1
      <4>1. j \in 0..(CqSize - 1) /\ j # 0 BY <1>2, <3>1
      <4>2. Pos(sc'.ghead, i) = Pos(g, j) /\ Exp(sc'.ghead, sc'.gphase, i) = Exp(g, f, j) BY <1>16, <3>1
      <4>3. Pos(g, j) \in 0..(CqSize - 1) /\ Pos(g, j) # g BY <1>7, <2>7, <4>1
      <4>4. sc'.cq[Pos(g, j)] = sc.cq[Pos(g, j)] BY <1>15, <4>3
      <4>5. i < n - 1 <=> j < n BY <1>2
      <4>6. i < n - 1 => sc'.posted[i + 1] = sc.posted[j + 1]
        <5>1. i < n - 1 => i + 1 \in 1..Len(Tail(sc.posted)) BY <1>2, <1>6
        <5> QED BY <1>6, <1>11, <5>1
      <4> HIDE DEF j
      <4> QED BY <2>6, <4>1, <4>2, <4>4, <4>5, <4>6
    <3>2. CASE ~(i + 1 <= CqSize - 1)
      <4>1. i = CqSize - 1 /\ ~(i < n - 1) BY <1>2, <3>2
      <4>2. sc.cq[g].phase = f BY <1>3, <1>7, <1>16, <2>6
      <4>3. 1 - (1 - f) = f BY <1>4
      <4> QED BY <1>15, <1>16, <4>1, <4>2, <4>3
    <3> QED BY <3>1, <3>2
  <2> QED BY <2>1, <2>2, <2>5, <2>8 DEF Phases
<1>25. Live'
  <2>1. Made' <=> Made BY <1>12 DEF Made, SameRest
  <2>2. sc.bound BY <1>5 DEF Live, Inv, Queue
  <2> QED BY <1>12, <2>1, <2>2 DEF Live, Inv, Queue, SameRest
<1>26. NoLostInterrupt' BY <1>1, <1>12 DEF NoLostInterrupt
<1>27. Handled' BY <1>12 DEF Handled, Inv
<1>28. Accounted' BY <1>12, FrameBooks DEF Inv
<1>29. Inv' BY <1>17, <1>20, <1>23, <1>24, <1>25, <1>26, <1>27, <1>28 DEF Inv, Queue
<1> QED BY <1>9, <1>10, <1>11, <1>12, <1>14, <1>18, <1>29 DEF SameRest

LEMMA Step ==
    ASSUME Params, Inv, [Next]_vars
    PROVE  Inv'
<1>1. CASE \E t \in Tags : Submit(t)
  <2>1. PICK t \in Tags, k \in Kinds, n \in 0..MaxRanges :
          (k \in {"dsm", "large"} <=> n > 1) /\ (k = "rw" <=> n = 1) /\ SubmitOne(t, k, n)
    BY <1>1 DEF Submit
  <2> QED BY <2>1, SubmitStep
<1>2. CASE \E t \in Tags : BackendStarts(t) \/ Callback(t) BY <1>2, BackendStep, CallbackStep
<1>3. CASE HandleIoCmd BY <1>3, HandleStep
<1>4. CASE IsrTake BY <1>4, IsrTakeStep
<1>5. CASE Quiet BY <1>5, QuietStep
<1>6. CASE Disable BY <1>6, DisableStep
<1>11. CASE \E t \in Tags : NextPart(t) BY <1>11, NextPartStep
<1>7. CASE CreateIoCq BY <1>7, CreateCqStep
<1>8. CASE Release BY <1>8, ReleaseStep
<1>9. CASE IsrLeave BY <1>9, IsrLeaveStep
<1>10. CASE UNCHANGED vars
  <2>1. sc' = sc BY <1>10 DEF vars
  <2>2. SameQueues /\ SameCq BY <2>1 DEF SameQueues, SameCq, Made
  <2>3. Types' BY <2>1 DEF Types, Inv
  <2>4. Places' /\ Outstanding' = Outstanding /\ Unposted' = Unposted BY <2>2, FramePlaces DEF Inv, Queue
  <2>5. Room' /\ Phases' BY <2>2, <2>4, FrameCq DEF Inv, Queue
  <2>6. Accounted' BY <2>1, FrameBooks DEF Inv
  <2>7. Live' /\ NoLostInterrupt' /\ Handled' BY <2>1 DEF Live, Made, NoLostInterrupt, Handled, Inv, Queue
  <2> QED BY <2>3, <2>4, <2>5, <2>6, <2>7 DEF Inv, Queue
<1> QED
  BY <1>1, <1>2, <1>3, <1>4, <1>5, <1>6, <1>7, <1>8, <1>9, <1>10, <1>11 DEF Next, Guest, Admin, Thread, Quiet

(* The semaphore, the free list and pending_ios of the controller agree at   *)
(* every moment, so pci_nvme_get_ioreq() finds a request whenever the        *)
(* semaphore lets it through.                                                *)
THEOREM NvmeAccountedAlways == ASSUME Params PROVE NvmeSpec => []Accounted
<1>1. Inv /\ [Next]_vars => Inv' BY Step
<1>2. Inv => Accounted BY DEF Inv
<1>3. QED BY <1>1, <1>2, InitInv, PTL DEF NvmeSpec

(* Every field keeps its type, the counters of requests within ioslots.      *)
THEOREM NvmeTyped == ASSUME Params PROVE NvmeSpec => []TypeOK
<1>1. Inv => TypeOK
  <2> SUFFICES ASSUME Inv PROVE TypeOK OBVIOUS
  <2> DEFINE r == Cardinality({t \in Tags : sc.req[t] # None})
  <2>1. r \in Nat /\ sc.posting \in Nat /\ sc.sem \in Nat /\ sc.pending \in Nat /\ IoSlots \in Nat
    BY OutFinite DEF Inv, Types, Params
  <2>2. sc.pending = r + sc.posting /\ sc.sem + (r + sc.posting) = IoSlots BY DEF Inv, Accounted
  <2> HIDE DEF r
  <2>3. sc.posting \in 0..IoSlots /\ sc.sem \in 0..IoSlots /\ sc.pending \in 0..IoSlots BY <2>1, <2>2
  <2> QED BY <2>3 DEF Inv, Types, TypeOK, Softc, Reqs, Dbs
<1>2. Inv /\ [Next]_vars => Inv' BY Step
<1>3. QED BY <1>1, <1>2, InitInv, PTL DEF NvmeSpec

(* A completion the guest has not taken has its interrupt pending, or a      *)
(* handler is running that has yet to look at it: the comparison of the head *)
(* and the tail in pci_nvme_set_completion() never suppresses one too many.  *)
THEOREM NvmeAnnouncedAlways == ASSUME Params PROVE NvmeSpec => []NoLostInterrupt
<1>1. Inv /\ [Next]_vars => Inv' BY Step
<1>2. Inv => NoLostInterrupt BY DEF Inv, Queue
<1>3. QED BY <1>1, <1>2, InitInv, PTL DEF NvmeSpec

(* By the phase bits the guest finds the completions that were posted, in    *)
(* order and once: pci_nvme_set_completion() turns an entry valid when it    *)
(* writes it, whatever round of the queue it is in, and none is overwritten  *)
(* before the guest took it.                                                 *)
THEOREM NvmePhasesAlways == ASSUME Params PROVE NvmeSpec => []PhasesAgree
<1>1. Inv => PhasesAgree
  <2> SUFFICES ASSUME Inv PROVE PhasesAgree OBVIOUS
  <2> DEFINE n == Len(sc.posted)
             g == sc.ghead
             f == sc.gphase
             At(i) == (g + i) % CqSize
             Expected(i) == IF g + i >= CqSize THEN 1 - f ELSE f
  <2>1. CqSize \in Nat /\ CqSize > 0 /\ n \in Nat /\ n <= CqSize - 1 /\ g \in 0..(CqSize - 1) /\ f \in {0, 1}
    BY PostedBound DEF Inv, Queue, Types, Params
  <2>7. (n > 0 => Made) /\ (sc.cqLive => Made)
    BY <2>1 DEF Inv, Queue, Live, Made
  <2>2. Made => \A i \in 0..(CqSize - 1) :
          IF i < n THEN sc.cq[Pos(g, i)].cid = sc.posted[i + 1] /\ sc.cq[Pos(g, i)].phase = Exp(g, f, i)
          ELSE sc.cq[Pos(g, i)].phase = 1 - Exp(g, f, i)
    BY DEF Phases, Inv, Queue
  <2> HIDE DEF n, g, f
  <2>3. ASSUME NEW i \in 0..(CqSize - 1) PROVE At(i) = Pos(g, i) /\ Expected(i) = Exp(g, f, i) /\ Exp(g, f, i) \in {0, 1}
    <3> DEFINE a == g + i
    <3>1. a \in Nat /\ a < 2 * CqSize BY <2>1
    <3> HIDE DEF a
    <3>2. a % CqSize = IF a < CqSize THEN a ELSE a - CqSize BY <3>1, Wrap
    <3>3. At(i) = a % CqSize BY DEF a
    <3>4. Pos(g, i) = IF a < CqSize THEN a ELSE a - CqSize BY <2>1, <3>1 DEF a, Pos
    <3>5. Exp(g, f, i) \in {0, 1} BY <2>1 DEF Exp
    <3> QED BY <3>2, <3>3, <3>4, <3>5 DEF Exp
  <2>4. \A i \in 0..(n - 1) : sc.cq[At(i)].cid = sc.posted[i + 1] /\ sc.cq[At(i)].phase = Expected(i)
    <3> SUFFICES ASSUME NEW i \in 0..(n - 1)
        PROVE sc.cq[At(i)].cid = sc.posted[i + 1] /\ sc.cq[At(i)].phase = Expected(i) OBVIOUS
    <3>1. i \in 0..(CqSize - 1) /\ i < n BY <2>1
    <3>2. At(i) = Pos(g, i) /\ Expected(i) = Exp(g, f, i) BY <2>3, <3>1
    <3> HIDE DEF At, Expected
    <3>3. Made BY <2>1, <2>7
    <3> QED BY <2>2, <3>1, <3>2, <3>3
  <2>5. sc.cqLive => sc.cq[At(n)].phase # Expected(n)
    <3>1. n \in 0..(CqSize - 1) /\ ~(n < n) BY <2>1
    <3>2. At(n) = Pos(g, n) /\ Expected(n) = Exp(g, f, n) /\ Exp(g, f, n) \in {0, 1} BY <2>3, <3>1
    <3> HIDE DEF At, Expected
    <3>3. sc.cqLive => sc.cq[At(n)].phase = 1 - Exp(g, f, n) BY <2>2, <2>7, <3>1, <3>2
    <3> QED BY <3>2, <3>3
  <2>6. n < CqSize BY <2>1
  <2> QED BY <2>4, <2>5, <2>6 DEF PhasesAgree, n, g, f
<1>2. Inv /\ [Next]_vars => Inv' BY Step
<1>3. QED BY <1>1, <1>2, InitInv, PTL DEF NvmeSpec

(* When the guest rings a queue's doorbell under a lock, the thread that     *)
(* handles it leaves no command in the queue. Without the lock it can: the   *)
(* busy flag is cleared after the last look at the tail.                     *)
THEOREM NvmeQueueHandled == ASSUME Params, Locked PROVE NvmeSpec => []QueueHandled
<1>1. Inv => QueueHandled BY DEF Inv, Handled, QueueHandled
<1>2. Inv /\ [Next]_vars => Inv' BY Step
<1>3. QED BY <1>1, <1>2, InitInv, PTL DEF NvmeSpec

-----------------------------------------------------------------------------
(* The command service                                                      *)

NS == INSTANCE CommandService WITH MaxWork <- MaxRanges, status <- Status, work <- Work,
          moving <- Moving, running <- Running

Busy0(x) == sc.kind[x] # None /\ sc.bound /\ x \notin sc.failed /\ ~In(sc.posted, x)

LEMMA View ==
    ASSUME NEW x \in Tags
    PROVE  /\ Status[x] = IF sc.kind[x] = None THEN "free" ELSE IF ~sc.bound THEN "lost"
                  ELSE IF x \in sc.failed THEN "failed"
                          ELSE IF In(sc.posted, x) THEN "free" ELSE "issued"
           /\ Work[x] = IF Busy0(x) /\ ~sc.ram THEN sc.work[x] ELSE 0
           /\ x \in Moving <=> sc.req[x] = "busy" /\ sc.bound
<1>1. Status[x] = IF sc.kind[x] = None THEN "free" ELSE IF ~sc.bound THEN "lost"
                  ELSE IF x \in sc.failed THEN "failed"
                  ELSE IF In(sc.posted, x) THEN "free" ELSE "issued"
  BY DEF Status, Busy, In
<1>2. Work[x] = IF Status[x] = "issued" /\ ~sc.ram THEN sc.work[x] ELSE 0 BY DEF Work
<1>3. Status[x] = "issued" <=> Busy0(x) BY <1>1 DEF Busy0
<1>4. x \in Moving <=> sc.req[x] = "busy" /\ sc.bound BY DEF Moving
<1> QED BY <1>1, <1>2, <1>3, <1>4

LEMMA ViewNext ==
    ASSUME NEW x \in Tags
    PROVE  /\ Status'[x] = IF sc'.kind[x] = None THEN "free" ELSE IF ~sc'.bound THEN "lost"
                  ELSE IF x \in sc'.failed THEN "failed"
                           ELSE IF In(sc'.posted, x) THEN "free" ELSE "issued"
           /\ Work'[x] = IF Busy0(x)' /\ ~sc'.ram THEN sc'.work[x] ELSE 0
           /\ x \in Moving' <=> sc'.req[x] = "busy" /\ sc'.bound
<1>1. Status'[x] = IF sc'.kind[x] = None THEN "free" ELSE IF ~sc'.bound THEN "lost"
                  ELSE IF x \in sc'.failed THEN "failed"
                  ELSE IF In(sc'.posted, x) THEN "free" ELSE "issued"
  BY DEF Status, Busy, In
<1>2. Work'[x] = IF Status'[x] = "issued" /\ ~sc'.ram THEN sc'.work[x] ELSE 0 BY DEF Work
<1>3. Status'[x] = "issued" <=> Busy0(x)' BY <1>1 DEF Busy0
<1>4. x \in Moving' <=> sc'.req[x] = "busy" /\ sc'.bound BY DEF Moving
<1> QED BY <1>1, <1>2, <1>3, <1>4

\* A command that a step leaves alone.
LEMMA Kept ==
    ASSUME NEW x \in Tags, sc'.kind[x] = sc.kind[x], x \in sc'.failed <=> x \in sc.failed,
           In(sc'.posted, x) <=> In(sc.posted, x), sc'.ram = sc.ram, sc'.work[x] = sc.work[x],
           sc'.req[x] = "busy" <=> sc.req[x] = "busy",
           sc'.bound = sc.bound \/ (sc.kind[x] = None /\ sc.req[x] # "busy")
    PROVE  NS!Keep(x)
<1>1. Busy0(x)' <=> Busy0(x) BY DEF Busy0
<1>2. Status'[x] = Status[x] /\ Work'[x] = Work[x] /\ (x \in Moving' <=> x \in Moving)
  BY <1>1, View, ViewNext
<1> QED BY <1>2 DEF NS!Keep, NS!Becomes

\* A command the reset lost, until its request completes.
LEMMA KeptLost ==
    ASSUME NEW x \in Tags, sc.bound = FALSE, sc'.bound = FALSE, sc'.kind[x] = sc.kind[x]
    PROVE  NS!Keep(x)
<1>1. ~Busy0(x) /\ ~Busy0(x)' BY DEF Busy0
<1>2. Status'[x] = Status[x] /\ Work'[x] = Work[x] /\ (x \in Moving' <=> x \in Moving)
  BY <1>1, View, ViewNext
<1> QED BY <1>2 DEF NS!Keep, NS!Becomes

\* A completion is Done or Fail of its command and leaves the others alone.
LEMMA CompletesIs ==
    ASSUME Inv, NEW t \in Tags, NEW err \in BOOLEAN, Completes(t, err), sc.kind[t] # None, ~In(sc.posted, t),
           err \/ (sc.req[t] # "busy" /\ (sc.ram \/ sc.work[t] = 0)) \/ (sc.req[t] = "busy" /\ sc.work[t] = 1)
    PROVE  NS!Next
<1>1. t \notin sc.failed /\ (sc.req[t] = "busy" => ~sc.ram) BY DEF Inv, Queue, Places, None
<1>2. Busy0(t) /\ sc.bound /\ sc'.bound = sc.bound BY <1>1 DEF Busy0, Completes
<1>3. /\ sc'.kind = sc.kind /\ sc'.ram = sc.ram /\ In(sc'.posted, t) /\ ~Busy0(t)'
      /\ (t \in sc'.failed <=> err)
  BY <1>1 DEF Completes, Busy0
<1>4. sc'.req[t] = None /\ \A x \in Tags : x # t => sc'.req[x] = sc.req[x]
  BY DEF Completes, Inv, Types
<1>5. None # "busy" BY DEF None
<1>6. NS!Done(t) \/ NS!Fail(t)
  <2>1. Status[t] = "issued" BY <1>2, View DEF Busy0
  <2>2. Work[t] = IF ~sc.ram THEN sc.work[t] ELSE 0 BY <1>2, View
  <2>3. Status'[t] = (IF err THEN "failed" ELSE "free") /\ Work'[t] = 0 /\ t \notin Moving'
    BY <1>2, <1>3, <1>4, <1>5, ViewNext
  <2>4. CASE err BY <2>1, <2>3, <2>4 DEF NS!Fail, NS!Becomes
  <2>5. CASE ~err
    <3>1. Work[t] = IF t \in Moving THEN 1 ELSE 0 BY <1>1, <1>2, <2>2, <2>5, View
    <3> QED BY <2>1, <2>3, <2>5, <3>1 DEF NS!Done, NS!Becomes
  <2> QED BY <2>4, <2>5
<1>7. ASSUME NEW x \in Tags, x # t PROVE NS!Keep(x)
  <2>1. /\ x \in sc'.failed <=> x \in sc.failed
        /\ In(sc'.posted, x) <=> In(sc.posted, x)
        /\ sc'.work[x] = sc.work[x]
    BY <1>7 DEF Completes
  <2> QED BY <1>2, <1>3, <1>4, <1>7, <2>1, Kept
<1> QED BY <1>6, <1>7 DEF NS!Next

LEMMA Simulation ==
    ASSUME Params, Inv, Next
    PROVE  NS!Next
<1>1. CASE \E t \in Tags : Submit(t)
  <2>1. PICK t \in Tags, k \in Kinds, n \in 0..MaxRanges :
          (k \in {"dsm", "large"} <=> n > 1) /\ (k = "rw" <=> n = 1) /\ SubmitOne(t, k, n)
    BY <1>1 DEF Submit
  <2>2. /\ sc.kind[t] = None
        /\ sc'.kind = [sc.kind EXCEPT ![t] = k] /\ sc'.work = [sc.work EXCEPT ![t] = n]
        /\ sc'.req = sc.req /\ sc'.posted = sc.posted /\ sc'.failed = sc.failed
        /\ sc'.ram = sc.ram /\ sc'.bound = sc.bound /\ sc.bound
    BY <2>1, SubmitStep
  <2>3. /\ sc'.kind[t] = k /\ sc'.work[t] = n
        /\ \A x \in Tags : x # t => sc'.kind[x] = sc.kind[x] /\ sc'.work[x] = sc.work[x]
    BY <2>2 DEF Inv, Types
  <2>4. k # None /\ None # "busy" BY DEF Kinds, None
  <2>5. ~In(sc.posted, t) /\ t \notin sc.failed /\ sc.req[t] = None BY <2>2 DEF Inv, Queue, Places
  <2>6. NS!Submit(t)
    <3>1. Status[t] = "free" BY <2>2, View
    <3>2. Status'[t] = "issued" /\ t \notin Moving' BY <2>2, <2>3, <2>4, <2>5, ViewNext
    <3>3. Work'[t] \in {0, n} BY <2>3, ViewNext
    <3>4. 0 \in 0..MaxRanges BY DEF Params
    <3>5. \E m \in 0..MaxRanges : Work'[t] = m BY <3>3, <3>4
    <3> QED BY <3>1, <3>2, <3>5 DEF NS!Submit, NS!Becomes
  <2>7. \A x \in Tags : x # t => NS!Keep(x) BY <2>2, <2>3, Kept
  <2> QED BY <2>6, <2>7 DEF NS!Next
<1>2. CASE \E t \in Tags : BackendStarts(t)
  <2>1. PICK t \in Tags : BackendStarts(t) BY <1>2
  <2>2. sc.req[t] = "queued" /\ sc'.req = [sc.req EXCEPT ![t] = "busy"] /\ sc'.work = sc.work /\ Moves(t)
    BY <2>1, BackendStep
  <2>3. sc'.kind = sc.kind /\ sc'.failed = sc.failed /\ sc'.posted = sc.posted /\ sc'.ram = sc.ram
        /\ sc'.bound = sc.bound
    BY <2>2 DEF Moves, SameRest
  <2>4. sc'.req[t] = "busy" /\ \A x \in Tags : x # t => sc'.req[x] = sc.req[x] BY <2>2 DEF Inv, Types
  <2>5. sc.kind[t] # None /\ ~sc.ram /\ sc.work[t] >= 1 /\ ~In(sc.posted, t) /\ t \notin sc.failed
        /\ sc.work[t] \in Nat
    BY <2>2 DEF Inv, Queue, Places, None, Types
  <2>6. CASE sc.bound = TRUE
    <3>1. Busy0(t) /\ Busy0(t)' BY <2>3, <2>5, <2>6 DEF Busy0
    <3>2. Status[t] = "issued" /\ Work[t] = sc.work[t] /\ t \notin Moving BY <2>2, <2>5, <3>1, View DEF Busy0
    <3>3. Status'[t] = "issued" /\ Work'[t] = sc.work[t] /\ t \in Moving'
      BY <2>2, <2>3, <2>4, <2>5, <2>6, <3>1, ViewNext DEF Busy0
    <3>4. NS!Begin(t) BY <2>5, <3>2, <3>3 DEF NS!Begin, NS!Becomes
    <3>5. \A x \in Tags : x # t => NS!Keep(x) BY <2>2, <2>3, <2>4, Kept
    <3> QED BY <3>4, <3>5 DEF NS!Next
  <2>7. CASE sc.bound = FALSE
    <3>1. \A x \in Tags : NS!Keep(x) BY <2>3, <2>7, KeptLost
    <3> QED BY <3>1 DEF NS!Next
  <2>8. sc.bound \in BOOLEAN BY DEF Inv, Types
  <2> QED BY <2>6, <2>7, <2>8
<1>3. CASE \E t \in Tags : Callback(t)
  <2>1. PICK t \in Tags : Callback(t) BY <1>3
  <2>2. /\ sc.req[t] = "busy"
        /\ \/ /\ sc.work[t] > 1 /\ Moves(t) /\ sc'.work = [sc.work EXCEPT ![t] = sc.work[t] - 1]
              /\ \E r \in {"queued", "held"} : sc'.req = [sc.req EXCEPT ![t] = r]
           \/ Strays(t) \/ Died
           \/ \E err \in BOOLEAN : Completes(t, err) /\ (err \/ sc.work[t] = 1)
    BY <2>1, CallbackStep
  <2>3. sc.kind[t] # None /\ ~sc.ram /\ ~In(sc.posted, t) /\ t \notin sc.failed
        /\ sc.work[t] \in Nat /\ sc.work \in [Tags -> 0..MaxRanges]
    BY <2>2 DEF Inv, Queue, Places, None, Types
  <2>4. CASE /\ sc.work[t] > 1 /\ Moves(t) /\ sc'.work = [sc.work EXCEPT ![t] = sc.work[t] - 1]
             /\ \E r \in {"queued", "held"} : sc'.req = [sc.req EXCEPT ![t] = r]
    <3>1. /\ sc'.kind = sc.kind /\ sc'.failed = sc.failed /\ sc'.posted = sc.posted /\ sc'.ram = sc.ram
          /\ sc'.bound = sc.bound
      BY <2>4 DEF Moves, SameRest
    <3>2. PICK r \in {"queued", "held"} : sc'.req = [sc.req EXCEPT ![t] = r] BY <2>4
    <3>3. /\ sc'.req[t] # "busy" /\ \A x \in Tags : x # t => sc'.req[x] = sc.req[x]
          /\ sc'.work[t] = sc.work[t] - 1 /\ \A x \in Tags : x # t => sc'.work[x] = sc.work[x]
      BY <2>3, <2>4, <3>2 DEF Inv, Types
    <3>4. CASE sc.bound = TRUE
      <4>1. Busy0(t) /\ Busy0(t)' BY <2>3, <3>1, <3>4 DEF Busy0
      <4>2. t \in Moving /\ Work[t] = sc.work[t] BY <2>2, <2>3, <3>4, <4>1, View
      <4>3. Status'[t] = "issued" /\ Work'[t] = sc.work[t] - 1 /\ t \notin Moving'
        BY <2>3, <3>1, <3>3, <4>1, ViewNext DEF Busy0
      <4>4. NS!Moved(t) BY <2>4, <4>2, <4>3 DEF NS!Moved, NS!Becomes
      <4>5. \A x \in Tags : x # t => NS!Keep(x) BY <3>1, <3>3, Kept
      <4> QED BY <4>4, <4>5 DEF NS!Next
    <3>5. CASE sc.bound = FALSE
      <4>1. \A x \in Tags : NS!Keep(x) BY <3>1, <3>5, KeptLost
      <4> QED BY <4>1 DEF NS!Next
    <3>6. sc.bound \in BOOLEAN BY DEF Inv, Types
    <3> QED BY <3>4, <3>5, <3>6
  <2>6. CASE Strays(t)
    <3>1. sc'.kind[t] = None /\ \A x \in Tags : x # t => sc'.kind[x] = sc.kind[x] BY <2>6 DEF Strays, Inv, Types
    <3>2. sc.bound = FALSE /\ sc'.bound = FALSE BY <2>6 DEF Strays
    <3>3. Status[t] = "lost" BY <2>3, <3>2, View
    <3>4. ~Busy0(t)' BY <3>2 DEF Busy0
    <3>5. Status'[t] = "free" /\ Work'[t] = 0 /\ t \notin Moving' BY <3>1, <3>2, <3>4, ViewNext
    <3>6. NS!Collect(t) BY <3>3, <3>5 DEF NS!Collect, NS!Becomes
    <3>7. \A x \in Tags : x # t => NS!Keep(x) BY <3>1, <3>2, KeptLost
    <3> QED BY <3>6, <3>7 DEF NS!Next
  <2>7. CASE Died
    <3>1. \A x \in Tags : NS!Keep(x) BY <2>7, Kept DEF Died, SameQueues
    <3> QED BY <3>1 DEF NS!Next
  <2>5. CASE \E err \in BOOLEAN : Completes(t, err) /\ (err \/ sc.work[t] = 1)
    BY <2>2, <2>3, <2>5, CompletesIs
  <2> QED BY <2>2, <2>4, <2>5, <2>6, <2>7
<1>4. CASE HandleIoCmd
  <2>1. PICK t \in Tags :
          /\ sc.kind[t] # None /\ sc.req[t] = None /\ ~In(sc.posted, t)
          /\ \/ \E err \in BOOLEAN : Completes(t, err) /\ (err \/ sc.ram \/ sc.work[t] = 0)
             \/ /\ sc'.req = [sc.req EXCEPT ![t] = "queued"] /\ sc'.kind = sc.kind /\ sc'.work = sc.work
                /\ sc'.posted = sc.posted /\ sc'.failed = sc.failed /\ sc'.ram = sc.ram /\ sc'.bound = sc.bound
    BY <1>4, HandleStep
  <2>2. None # "busy" BY DEF None
  <2>3. CASE \E err \in BOOLEAN : Completes(t, err) /\ (err \/ sc.ram \/ sc.work[t] = 0)
    BY <2>1, <2>2, <2>3, CompletesIs
  <2>4. CASE /\ sc'.req = [sc.req EXCEPT ![t] = "queued"] /\ sc'.kind = sc.kind /\ sc'.work = sc.work
             /\ sc'.posted = sc.posted /\ sc'.failed = sc.failed /\ sc'.ram = sc.ram /\ sc'.bound = sc.bound
    <3>1. \A x \in Tags : sc'.req[x] = "busy" <=> sc.req[x] = "busy" BY <2>1, <2>2, <2>4 DEF Inv, Types
    <3>2. \A x \in Tags : NS!Keep(x) BY <2>4, <3>1, Kept
    <3> QED BY <3>2 DEF NS!Next
  <2> QED BY <2>1, <2>3, <2>4
<1>5. CASE IsrTake
  <2>1. PICK t \in Tags :
          /\ In(sc.posted, t) /\ sc.kind[t] # None
          /\ sc'.kind = [sc.kind EXCEPT ![t] = None] /\ sc'.failed = sc.failed \ {t}
          /\ sc'.ram = sc.ram /\ sc'.req = sc.req /\ sc'.bound = sc.bound
          /\ \A x \in Tags : x # t => sc'.work[x] = sc.work[x]
          /\ \A x : In(sc.posted, x) <=> In(sc'.posted, x) \/ x = t
    BY <1>5, IsrTakeStep
  <2>2. sc'.kind[t] = None /\ \A x \in Tags : x # t => sc'.kind[x] = sc.kind[x] BY <2>1 DEF Inv, Types
  <2>3. sc.req[t] = None /\ None # "busy" BY <2>1 DEF Inv, Queue, Places, None
  <2>4. ~Busy0(t) /\ ~Busy0(t)' BY <2>1, <2>2 DEF Busy0
  <2>5. Status'[t] = "free" /\ Work'[t] = 0 /\ t \notin Moving' BY <2>1, <2>2, <2>3, <2>4, ViewNext
  <2>6. Status[t] \in {"free", "failed", "lost"} /\ Work[t] = 0 /\ t \notin Moving BY <2>1, <2>3, <2>4, View
  <2>7. NS!Collect(t) \/ NS!Keep(t) BY <2>5, <2>6 DEF NS!Collect, NS!Keep, NS!Becomes
  <2>8. ASSUME NEW x \in Tags, x # t PROVE NS!Keep(x)
    <3>1. (x \in sc'.failed <=> x \in sc.failed) /\ (In(sc'.posted, x) <=> In(sc.posted, x))
          /\ sc'.work[x] = sc.work[x]
      BY <2>1, <2>8
    <3> QED BY <2>1, <2>2, <2>8, <3>1, Kept
  <2> QED BY <2>7, <2>8 DEF NS!Next
<1>6. CASE SameQueues /\ (sc'.bound = sc.bound \/ Outstanding = {})
  <2>1. ASSUME NEW x \in Tags PROVE sc'.bound = sc.bound \/ (sc.kind[x] = None /\ sc.req[x] # "busy")
    <3>1. sc.kind[x] = None => sc.req[x] = None BY DEF Inv, Queue, Places
    <3>2. None # "busy" BY DEF None
    <3> QED BY <1>6, <3>1, <3>2 DEF Outstanding
  <2>2. \A x \in Tags : NS!Keep(x) BY <1>6, <2>1, Kept DEF SameQueues
  <2> QED BY <2>2 DEF NS!Next
<1>7. CASE Quiet BY <1>6, <1>7, QuietStep
<1>8. CASE Disable
  <2>1. /\ sc'.bound = FALSE /\ sc'.en = FALSE /\ sc'.req = sc.req
        /\ \A t \in Tags : sc'.kind[t] = IF sc.req[t] = None THEN None ELSE sc.kind[t]
    BY <1>8, DisableStep
  <2>2. ~Running' BY <2>1 DEF Running
  <2>3. ASSUME NEW x \in Tags PROVE NS!Abort(x) \/ NS!Lose(x)
    <3>1. Work'[x] = 0 /\ x \notin Moving'
      <4>1. ~Busy0(x)' BY <2>1 DEF Busy0
      <4> QED BY <2>1, <4>1, ViewNext
    <3>2. CASE sc.req[x] = None
      <4>1. Status'[x] = "free" BY <2>1, <3>2, ViewNext
      <4> QED BY <2>2, <3>1, <4>1 DEF NS!Abort, NS!Becomes
    <3>3. CASE sc.req[x] # None
      <4>1. sc.kind[x] # None /\ ~In(sc.posted, x) BY <3>3 DEF Inv, Queue, Places
      <4>2. Status[x] # "free" BY <4>1, View
      <4>3. Status'[x] = "lost" BY <2>1, <3>3, <4>1, ViewNext
      <4> QED BY <2>2, <3>1, <4>2, <4>3 DEF NS!Lose, NS!Becomes
    <3> QED BY <3>2, <3>3
  <2> QED BY <2>3 DEF NS!Next
<1>9. CASE CreateIoCq BY <1>6, <1>9, CreateCqStep
<1>10. CASE Release BY <1>6, <1>10, ReleaseStep
<1>11. CASE IsrLeave BY <1>6, <1>11, IsrLeaveStep
<1>12. CASE \E t \in Tags : NextPart(t)
  <2>1. PICK t \in Tags : NextPart(t) BY <1>12
  <2>2. sc.req[t] = "held" /\ sc'.req = [sc.req EXCEPT ![t] = "queued"] /\ sc'.work = sc.work /\ Moves(t)
    BY <2>1, NextPartStep
  <2>3. /\ sc'.kind = sc.kind /\ sc'.failed = sc.failed /\ sc'.posted = sc.posted /\ sc'.ram = sc.ram
        /\ sc'.bound = sc.bound
    BY <2>2 DEF Moves, SameRest
  <2>4. \A x \in Tags : sc'.req[x] = "busy" <=> sc.req[x] = "busy" BY <2>2 DEF Inv, Types
  <2>5. \A x \in Tags : NS!Keep(x) BY <2>2, <2>3, <2>4, Kept
  <2> QED BY <2>5 DEF NS!Next
<1> QED
  BY <1>1, <1>2, <1>3, <1>4, <1>5, <1>7, <1>8, <1>9, <1>10, <1>11, <1>12 DEF Next, Guest, Admin, Thread, Quiet

(* The I/O queue pair implements the command service: a command is reported  *)
(* complete once, and only after pci_nvme_io_done() saw the last of the      *)
(* transfers it needs.                                                       *)
THEOREM NvmeImplements == ASSUME Params PROVE NvmeSpec => NS!Spec
<1>1. Init => NS!Init
  <2> SUFFICES ASSUME Init PROVE NS!Init OBVIOUS
  <2>1. /\ \A t \in Tags : sc.kind[t] = None /\ sc.req[t] = None
        /\ sc.en = FALSE
    BY DEF Init
  <2>2. None # "busy" BY DEF None
  <2>3. Status = [t \in Tags |-> "free"] BY <2>1 DEF Status, Busy
  <2>4. Work = [t \in Tags |-> 0] BY <2>3 DEF Work
  <2>5. Moving = {} /\ Running = FALSE BY <2>1, <2>2 DEF Moving, Running
  <2> QED BY <2>3, <2>4, <2>5 DEF NS!Init
<1>2. Inv /\ [Next]_vars => [NS!Next]_(NS!vars)
  <2> SUFFICES ASSUME Inv, [Next]_vars PROVE [NS!Next]_(NS!vars) OBVIOUS
  <2>1. CASE Next BY <2>1, Simulation
  <2>2. CASE UNCHANGED vars
    <3>1. sc' = sc BY <2>2 DEF vars
    <3>2. Status' = Status /\ Moving' = Moving /\ Running' = Running BY <3>1 DEF Status, Moving, Running, Busy
    <3>3. Work' = Work BY <3>1, <3>2 DEF Work
    <3> QED BY <3>2, <3>3 DEF NS!vars
  <2> QED BY <2>1, <2>2
<1>3. Inv /\ [Next]_vars => Inv' BY Step
<1>4. QED BY <1>1, <1>2, <1>3, InitInv, PTL DEF NvmeSpec, NS!Spec

-----------------------------------------------------------------------------
(* The admin queue of pci_nvme.c                                            *)

AD == INSTANCE NvmeAdmin WITH QSize <- AdminSize, MaxCommands <- MaxAdmin

AdminSpec == AD!Init /\ [][AD!Next]_(AD!vars)

\* Admin queues of at least two entries, as ASQS and ACQS give them.
AdminParams == AdminSize \in Nat /\ AdminSize > 1 /\ MaxQueues \in Nat /\ MaxAdmin \in Nat

AdminPlaces == 0..(AdminSize - 1)

AdminSoftc ==
    [sqTail : AdminPlaces, sqHead : AdminPlaces, local : AdminPlaces, at : {"idle", "loop", "intr"}, handled : Nat,
     cqTail : AdminPlaces, cqHead : AdminPlaces, posted : AdminPlaces, intr : BOOLEAN,
     nsq : 0..MaxQueues, ncq : 0..MaxQueues, sqs : SUBSET (1..MaxQueues), cqs : SUBSET (1..MaxQueues), next : Nat]

\* The place n after h in a queue.
After(h, n) == IF h + n >= AdminSize THEN h + n - AdminSize ELSE h + n

\* A doorbell brings one command, for whose completion there is room; at rest
\* every command was handled, and a completion the guest has not taken was
\* announced.
AdminQueue ==
    /\ sc.cqTail = After(sc.cqHead, sc.posted)
    /\ sc.at # "loop" => sc.sqHead = sc.sqTail /\ sc.handled = sc.next - 1
    /\ sc.at = "loop" => \/ sc.local = sc.sqTail /\ sc.handled = sc.next - 1
                         \/ sc.sqTail = AD!Step(sc.local) /\ sc.handled = sc.next - 2 /\ sc.posted < AdminSize - 1
    /\ sc.at = "idle" /\ sc.posted > 0 => sc.intr

AdminInv == sc \in AdminSoftc /\ AdminQueue

LEMMA AdminNextPlace ==
    ASSUME AdminParams, NEW h \in AdminPlaces
    PROVE  AD!Step(h) = (IF h + 1 < AdminSize THEN h + 1 ELSE 0) /\ AD!Step(h) \in AdminPlaces /\ AD!Step(h) # h
<1>1. AdminSize \in Nat /\ AdminSize > 1 /\ h \in Nat /\ h < AdminSize BY DEF AdminParams, AdminPlaces
<1>2. CASE h + 1 < AdminSize
  <2>1. (h + 1) % AdminSize = h + 1 BY <1>1, <1>2
  <2> QED BY <1>1, <1>2, <2>1 DEF AD!Step, AdminPlaces
<1>3. CASE ~(h + 1 < AdminSize)
  <2>1. h + 1 = AdminSize /\ AdminSize % AdminSize = 0 BY <1>1, <1>3
  <2>2. (h + 1) % AdminSize = 0 BY <2>1
  <2> QED BY <1>1, <1>3, <2>1, <2>2 DEF AD!Step, AdminPlaces
<1> QED BY <1>2, <1>3

LEMMA AfterOne ==
    ASSUME AdminParams, NEW h \in AdminPlaces, NEW n \in AdminPlaces, n < AdminSize - 1
    PROVE  AD!Step(After(h, n)) = After(h, n + 1) /\ n + 1 \in AdminPlaces /\ After(h, n) \in AdminPlaces
<1>1. AdminSize \in Nat /\ AdminSize > 1 /\ h \in Nat /\ h < AdminSize /\ n \in Nat /\ n + 1 < AdminSize
  BY DEF AdminParams, AdminPlaces
<1>2. After(h, n) \in AdminPlaces BY <1>1 DEF After, AdminPlaces
<1>3. AD!Step(After(h, n)) = IF After(h, n) + 1 < AdminSize THEN After(h, n) + 1 ELSE 0 BY <1>2, AdminNextPlace
<1> QED BY <1>1, <1>2, <1>3 DEF After, AdminPlaces

LEMMA AfterNone ==
    ASSUME AdminParams, NEW h \in AdminPlaces
    PROVE  After(h, 0) = h /\ \A n \in AdminPlaces : n > 0 => After(h, n) # h
BY DEF AdminParams, AdminPlaces, After

LEMMA AfterFull ==
    ASSUME AdminParams, NEW h \in AdminPlaces, NEW n \in AdminPlaces, AD!Step(After(h, n)) # h
    PROVE  n < AdminSize - 1
<1>1. AdminSize \in Nat /\ AdminSize > 1 /\ h \in Nat /\ h < AdminSize /\ n \in Nat /\ n < AdminSize
  BY DEF AdminParams, AdminPlaces
<1>2. After(h, n) \in AdminPlaces BY <1>1 DEF After, AdminPlaces
<1>3. AD!Step(After(h, n)) = IF After(h, n) + 1 < AdminSize THEN After(h, n) + 1 ELSE 0 BY <1>2, AdminNextPlace
<1> QED BY <1>1, <1>3 DEF After

\* A handler changes only the queues of the controller.
LEMMA AdminHandler ==
    ASSUME AdminParams, NEW p \in AdminSoftc, NEW c \in AD!Commands
    PROVE  LET r == AD!HandleCommand(p, c).sc
           IN /\ r \in AdminSoftc /\ r.sqTail = p.sqTail /\ r.sqHead = p.sqHead /\ r.local = p.local /\ r.at = p.at
              /\ r.handled = p.handled /\ r.cqTail = p.cqTail /\ r.cqHead = p.cqHead /\ r.posted = p.posted
              /\ r.intr = p.intr /\ r.next = p.next
<1> DEFINE Untouched(r) == /\ r \in AdminSoftc /\ r.sqTail = p.sqTail /\ r.sqHead = p.sqHead /\ r.local = p.local /\ r.at = p.at
                      /\ r.handled = p.handled /\ r.cqTail = p.cqTail /\ r.cqHead = p.cqHead /\ r.posted = p.posted
                      /\ r.intr = p.intr /\ r.next = p.next
<1>1. /\ p.nsq \in 0..MaxQueues /\ p.ncq \in 0..MaxQueues /\ p.sqs \in SUBSET (1..MaxQueues)
      /\ p.cqs \in SUBSET (1..MaxQueues) /\ MaxQueues \in Nat
  BY DEF AdminSoftc, AdminParams
<1>2. \A q : q \in 1..p.nsq \/ q \in 1..p.ncq => q \in 1..MaxQueues BY <1>1
<1>3. ASSUME NEW s \in SUBSET (1..MaxQueues) PROVE Untouched([p EXCEPT !.sqs = s]) /\ Untouched([p EXCEPT !.cqs = s])
  BY DEF AdminSoftc
<1>4. ASSUME NEW n \in 0..MaxQueues PROVE Untouched([p EXCEPT !.nsq = n, !.ncq = n]) BY DEF AdminSoftc
<1>5. Untouched(p) OBVIOUS
<1> HIDE DEF Untouched
<1> DEFINE h == AD!HandleCommand(p, c).sc
<1>6. Untouched(h)
  <2>1. CASE c.op \in {"create_sq", "delete_sq", "create_cq", "delete_cq"}
    <3>1. CASE c.op = "delete_sq"
      <4> DEFINE s == IF c.qid \in 1..p.nsq THEN p.sqs \ {c.qid} ELSE p.sqs
      <4>1. h = [p EXCEPT !.sqs = s] BY <3>1 DEF AD!HandleCommand, AD!DeleteIoSq, AD!Answer
      <4>2. s \in SUBSET (1..MaxQueues) BY <1>1
      <4> QED BY <1>3, <4>1, <4>2
    <3>2. CASE c.op = "delete_cq"
      <4> DEFINE s == IF c.qid \in 1..p.ncq THEN p.cqs \ {c.qid} ELSE p.cqs
      <4>1. h = [p EXCEPT !.cqs = s] BY <3>2 DEF AD!HandleCommand, AD!DeleteIoCq, AD!Answer
      <4>2. s \in SUBSET (1..MaxQueues) BY <1>1
      <4> QED BY <1>3, <4>1, <4>2
    <3>3. CASE c.op = "create_sq"
      <4> DEFINE s == IF c.pc /\ c.qid \in 1..p.nsq THEN p.sqs \cup {c.qid} ELSE p.sqs
      <4>1. h = [p EXCEPT !.sqs = s] BY <3>3 DEF AD!HandleCommand, AD!CreateIoSq, AD!Answer
      <4>2. s \in SUBSET (1..MaxQueues) BY <1>1, <1>2
      <4> QED BY <1>3, <4>1, <4>2
    <3>4. CASE c.op = "create_cq"
      <4> DEFINE s == IF c.pc /\ c.qid \in 1..p.ncq THEN p.cqs \cup {c.qid} ELSE p.cqs
      <4>1. h = [p EXCEPT !.cqs = s] BY <3>4 DEF AD!HandleCommand, AD!CreateIoCq, AD!Answer
      <4>2. s \in SUBSET (1..MaxQueues) BY <1>1, <1>2
      <4> QED BY <1>3, <4>1, <4>2
    <3> QED BY <2>1, <3>1, <3>2, <3>3, <3>4
  <2>2. CASE c.op = "queues"
    <3> DEFINE n == AD!ClampQueues(c.nqr)
    <3>1. h = [p EXCEPT !.nsq = n, !.ncq = n]
      BY <2>2 DEF AD!HandleCommand, AD!SetFeatures, AD!SetFeatureQueues, AD!Answer
    <3>2. c.nqr \in Nat BY <1>1, <2>2 DEF AD!Commands, AD!Queues
    <3>3. n \in 0..MaxQueues BY <1>1, <3>2 DEF AD!ClampQueues
    <3> QED BY <1>4, <3>1, <3>3
  <2>3. CASE c.op \notin {"create_sq", "delete_sq", "create_cq", "delete_cq", "queues"}
    <3>1. h = p
      BY <2>3 DEF AD!HandleCommand, AD!GetLogPage, AD!Identify, AD!Abort, AD!SetFeatures, AD!GetFeatures, AD!Answer
    <3> QED BY <1>5, <3>1
  <2> QED BY <2>1, <2>2, <2>3
<1> QED BY <1>6 DEF Untouched

LEMMA AdminInitInv == ASSUME AdminParams, AD!Init PROVE AdminInv
<1>1. 0 \in AdminPlaces /\ MaxQueues \in 0..MaxQueues BY DEF AdminParams, AdminPlaces
<1>2. sc \in AdminSoftc BY <1>1 DEF AD!Init, AdminSoftc
<1>3. /\ sc.cqTail = 0 /\ sc.cqHead = 0 /\ sc.posted = 0 /\ sc.at = "idle" /\ sc.sqHead = 0 /\ sc.sqTail = 0
      /\ sc.handled = 0 /\ sc.next = 1
  BY DEF AD!Init
<1>4. After(0, 0) = 0 BY <1>1, AfterNone
<1> QED BY <1>2, <1>3, <1>4 DEF AdminInv, AdminQueue

LEMMA AdminNextInv == ASSUME AdminParams, AdminInv, [AD!Next]_(AD!vars) PROVE AdminInv'
<1>1. /\ sc \in AdminSoftc /\ AdminQueue
      /\ sc.sqTail \in AdminPlaces /\ sc.sqHead \in AdminPlaces /\ sc.local \in AdminPlaces /\ sc.handled \in Nat
      /\ sc.cqTail \in AdminPlaces /\ sc.cqHead \in AdminPlaces /\ sc.posted \in AdminPlaces /\ sc.intr \in BOOLEAN
      /\ sc.at \in {"idle", "loop", "intr"} /\ sc.next \in Nat
  BY DEF AdminInv, AdminSoftc
<1>2. 0 \in AdminPlaces /\ AdminSize \in Nat BY DEF AdminParams, AdminPlaces
<1>3. sc.posted \in Nat BY <1>1, <1>2 DEF AdminPlaces
<1>4. CASE AD!GuestIntr
  <2>1. sc' = [sc EXCEPT !.intr = FALSE, !.cqHead = sc.cqTail, !.posted = 0] BY <1>4 DEF AD!GuestIntr
  <2>2. /\ sc' \in AdminSoftc /\ sc'.cqHead = sc.cqTail /\ sc'.posted = 0 /\ sc'.cqTail = sc.cqTail /\ sc'.at = sc.at
        /\ sc'.sqHead = sc.sqHead /\ sc'.sqTail = sc.sqTail /\ sc'.handled = sc.handled /\ sc'.next = sc.next
        /\ sc'.local = sc.local
    BY <1>1, <1>2, <2>1 DEF AdminSoftc
  <2>3. After(sc.cqTail, 0) = sc.cqTail BY <1>1, AfterNone
  <2>4. 0 < AdminSize - 1 BY DEF AdminParams
  <2> QED BY <1>1, <2>2, <2>3, <2>4 DEF AdminInv, AdminQueue
<1>5. CASE AD!Ring
  <2> DEFINE t == AD!Step(sc.sqTail)
             n == sc.next + 1
  <2>1. /\ sc.at = "idle" /\ AD!Step(sc.cqTail) # sc.cqHead
        /\ sc' = [sc EXCEPT !.next = n, !.sqTail = t, !.at = "loop", !.local = sc.sqHead]
    BY <1>5 DEF AD!Ring
  <2>2. t \in AdminPlaces /\ n \in Nat BY <1>1, AdminNextPlace
  <2> HIDE DEF t, n
  <2>3. /\ sc' \in AdminSoftc /\ sc'.cqHead = sc.cqHead /\ sc'.posted = sc.posted /\ sc'.cqTail = sc.cqTail
        /\ sc'.at = "loop" /\ sc'.sqHead = sc.sqHead /\ sc'.sqTail = t /\ sc'.handled = sc.handled /\ sc'.next = n
        /\ sc'.local = sc.sqHead
    BY <1>1, <2>1, <2>2 DEF AdminSoftc
  <2>4. sc.posted < AdminSize - 1 BY <1>1, <2>1, AfterFull DEF AdminQueue
  <2>5. t = AD!Step(sc.sqHead) /\ sc.handled = n - 2 BY <1>1, <2>1 DEF AdminQueue, t, n
  <2> QED BY <1>1, <2>3, <2>4, <2>5 DEF AdminInv, AdminQueue
<1>6. CASE AD!HandleAdminCmd
  <2>1. PICK c \in AD!Commands :
        LET r == AD!HandleCommand([sc EXCEPT !.local = AD!Step(@), !.handled = @ + 1], c)
        IN sc' = IF r.status = "none" THEN r.sc
                 ELSE [r.sc EXCEPT !.posted = @ + 1, !.cqTail = AD!Step(@)]
    BY <1>6 DEF AD!HandleAdminCmd
  <2> DEFINE l == AD!Step(sc.local)
             m == sc.handled + 1
             p == [sc EXCEPT !.local = l, !.handled = m]
             r == AD!HandleCommand(p, c).sc
  <2>2. sc' = r \/ sc' = [r EXCEPT !.posted = r.posted + 1, !.cqTail = AD!Step(r.cqTail)] BY <2>1
  <2>3. sc.at = "loop" /\ sc.local # sc.sqTail BY <1>6 DEF AD!HandleAdminCmd
  <2>4. sc.sqTail = l /\ m = sc.next - 1 /\ sc.posted < AdminSize - 1 BY <1>1, <2>3 DEF AdminQueue
  <2>5. l \in AdminPlaces /\ m \in Nat BY <1>1, AdminNextPlace
  <2> HIDE DEF l, m
  <2>6. /\ p \in AdminSoftc /\ p.sqTail = sc.sqTail /\ p.sqHead = sc.sqHead /\ p.local = l /\ p.at = sc.at
        /\ p.handled = m /\ p.cqTail = sc.cqTail /\ p.cqHead = sc.cqHead /\ p.posted = sc.posted /\ p.next = sc.next
    BY <1>1, <2>5 DEF AdminSoftc
  <2> HIDE DEF p
  <2>7. /\ r \in AdminSoftc /\ r.sqTail = p.sqTail /\ r.sqHead = p.sqHead /\ r.local = p.local /\ r.at = p.at
        /\ r.handled = p.handled /\ r.cqTail = p.cqTail /\ r.cqHead = p.cqHead /\ r.posted = p.posted /\ r.next = p.next
    BY <2>6, AdminHandler
  <2> HIDE DEF r
  <2>8. CASE sc' = r BY <1>1, <2>3, <2>4, <2>6, <2>7, <2>8 DEF AdminInv, AdminQueue
  <2>9. CASE sc' = [r EXCEPT !.posted = r.posted + 1, !.cqTail = AD!Step(r.cqTail)]
    <3> DEFINE u == sc.posted + 1
               v == AD!Step(sc.cqTail)
    <3>1. u \in AdminPlaces /\ v \in AdminPlaces /\ v = After(sc.cqHead, u)
      BY <1>1, <2>4, AfterOne, AdminNextPlace DEF AdminQueue
    <3>2. sc' = [r EXCEPT !.posted = u, !.cqTail = v] BY <2>6, <2>7, <2>9
    <3> HIDE DEF u, v
    <3>3. /\ sc' \in AdminSoftc /\ sc'.sqTail = r.sqTail /\ sc'.sqHead = r.sqHead /\ sc'.local = r.local /\ sc'.at = r.at
          /\ sc'.handled = r.handled /\ sc'.cqTail = v /\ sc'.cqHead = r.cqHead /\ sc'.posted = u /\ sc'.next = r.next
      BY <2>7, <3>1, <3>2 DEF AdminSoftc
    <3> QED BY <1>1, <2>3, <2>4, <2>6, <2>7, <3>1, <3>3 DEF AdminInv, AdminQueue
  <2> QED BY <2>2, <2>8, <2>9
<1>7. CASE AD!Leave
  <2>1. sc.at = "loop" /\ sc.local = sc.sqTail /\ sc' = [sc EXCEPT !.sqHead = sc.local, !.at = "intr"]
    BY <1>7 DEF AD!Leave
  <2>2. /\ sc' \in AdminSoftc /\ sc'.cqHead = sc.cqHead /\ sc'.posted = sc.posted /\ sc'.cqTail = sc.cqTail
        /\ sc'.at = "intr" /\ sc'.sqHead = sc.local /\ sc'.sqTail = sc.sqTail /\ sc'.handled = sc.handled
        /\ sc'.next = sc.next
    BY <1>1, <2>1 DEF AdminSoftc
  <2>3. sc.local # AD!Step(sc.local) BY <1>1, AdminNextPlace
  <2>4. sc.handled = sc.next - 1 BY <1>1, <2>1, <2>3 DEF AdminQueue
  <2> QED BY <1>1, <2>1, <2>2, <2>4 DEF AdminInv, AdminQueue
<1>8. CASE AD!Interrupt
  <2> DEFINE i == sc.intr \/ sc.cqHead # sc.cqTail
  <2>1. sc.at = "intr" /\ sc' = [sc EXCEPT !.at = "idle", !.intr = i] BY <1>8 DEF AD!Interrupt
  <2>2. i \in BOOLEAN BY <1>1
  <2>3. sc.posted > 0 => i
    <3>1. sc.posted > 0 => After(sc.cqHead, sc.posted) # sc.cqHead BY <1>1, AfterNone
    <3> QED BY <1>1, <3>1 DEF AdminQueue
  <2> HIDE DEF i
  <2>4. /\ sc' \in AdminSoftc /\ sc'.cqHead = sc.cqHead /\ sc'.posted = sc.posted /\ sc'.cqTail = sc.cqTail
        /\ sc'.at = "idle" /\ sc'.sqHead = sc.sqHead /\ sc'.sqTail = sc.sqTail /\ sc'.handled = sc.handled
        /\ sc'.next = sc.next /\ sc'.intr = i
    BY <1>1, <2>1, <2>2 DEF AdminSoftc
  <2> QED BY <1>1, <2>1, <2>3, <2>4 DEF AdminInv, AdminQueue
<1>9. CASE UNCHANGED AD!vars
  <2>1. sc' = sc BY <1>9 DEF AD!vars
  <2> QED BY <1>1, <2>1 DEF AdminInv, AdminQueue
<1> QED BY <1>4, <1>5, <1>6, <1>7, <1>8, <1>9 DEF AD!Next

(* No admin command is left behind when the doorbell's handler returns, and  *)
(* a completion the guest has not taken has its interrupt raised or about to *)
(* be (pci_nvme_handle_admin_cmd()).                                         *)
THEOREM AdminAnnouncedAlways == ASSUME AdminParams PROVE AdminSpec => []AD!NoLostInterrupt
<1>1. AdminInv /\ [AD!Next]_(AD!vars) => AdminInv' BY AdminNextInv
<1>2. AdminInv => AD!NoLostInterrupt BY DEF AdminInv, AdminQueue, AD!NoLostInterrupt
<1>3. AD!Init => AdminInv BY AdminInitInv
<1>4. QED BY <1>1, <1>2, <1>3, PTL DEF AdminSpec

(* The guest never holds an I/O queue the controller has no memory for,      *)
(* whatever it asks of nvme_set_feature_queues() and in whatever order it    *)
(* creates and deletes queues.                                               *)
THEOREM AdminQueuesAlways == ASSUME AdminParams PROVE AdminSpec => []AD!QueuesBounded
<1>1. AdminInv /\ [AD!Next]_(AD!vars) => AdminInv' BY AdminNextInv
<1>2. AdminInv => AD!QueuesBounded
  <2> SUFFICES ASSUME AdminInv PROVE AD!QueuesBounded OBVIOUS
  <2>1. /\ sc.nsq \in 0..MaxQueues /\ sc.ncq \in 0..MaxQueues /\ sc.sqs \in SUBSET (1..MaxQueues)
        /\ sc.cqs \in SUBSET (1..MaxQueues)
    BY DEF AdminInv, AdminSoftc
  <2> QED BY <2>1 DEF AD!QueuesBounded, AdminParams
<1>3. AD!Init => AdminInv BY AdminInitInv
<1>4. QED BY <1>1, <1>2, <1>3, PTL DEF AdminSpec
=============================================================================
