-------------------------- MODULE VirtioNetProofs --------------------------
(***************************************************************************)
(* Proofs about VirtioNet for every queue size, index width and packet     *)
(* length: types, the conservation of descriptor chains across the wrap of *)
(* the ring indices, and the two directions of notification.               *)
(***************************************************************************)
EXTENDS VirtioNet, FiniteSetTheorems, TLAPS

\* A receive callback that has been dispatched outlives a reset of the device
\* (see NoRxAfterReset); the results on the receive queue leave resets out.
NoRxReset == "rx" \in Queues => Resets = {}

\* The 16-bit difference vq_endchains() takes does not wrap to 0.
BatchFits == MaxBatch < IdxMod

----------------------------------------------------------------------------
(* The inductive invariant *)

\* pci_vtnet_rx() calls netbe_recv() with at least one chain.
TypeInv == TypeOK /\ (epc = "recv" => chains # <<>>)

Work == {"peek", "get", "enable", "check", "recv"}   \* in pci_vtnet_rx()

TxControl ==
    /\ txMtx = "tx" <=> tpc \in {"loop", "enable", "recheck"}
    /\ txMtx \in {"tx", NoThread}
    /\ tpc \in {"proc", "rel", "more", "intr", "relock"} => txInProgress
    /\ txAsleep => tpc = "wait" /\ ~txInProgress
    /\ IF tpc = "rel" THEN \E h \in Heads : txHead = {h} ELSE txHead = {}

RxControl ==
    /\ rxMtx = "ev" <=> epc \in Work \cup {"intr"}
    /\ epc \in Work \cup {"rxlock"} => evWant
    /\ epc = "poll" /\ evKq => evWant
    /\ ~evCq /\ evKq => evWant
    /\ evWant \/ epc = "intr" => up
    /\ chains # <<>> => epc \in {"get", "enable", "check", "recv"}
    /\ epc \in {"get", "enable", "check"} =>
           Len(chains) < bbuf /\ (chains # <<>> => mode.merge)
    /\ epc = "recv" => chains # <<>> /\ bbuf # 0

\* Up to its reset the device works on the driver's rings; after it the rings
\* are gone and nobody holds a chain.
UpControl ==
    /\ resetting => cpc \in {"reset_spin", "reset_sleep"}
    /\ cpc \in {"kick_rx", "kick_tx"} \/ posted # {} \/ kick # {} => up
    /\ cpc \notin {"run", "kick_rx", "kick_tx"} => ~up /\ "rx" \notin Queues
    /\ \A q \in Queues :
          /\ up => vq[q].alloc
          /\ ~up /\ cpc = "run" =>
                ~vq[q].alloc /\ owned[q] = {} /\ seen[q] = 0 /\ drv[q] = "idle"
    /\ ~up /\ cpc = "run" => tpc \in {"wait", "loop", "enable", "recheck"}

Control == /\ "tx" \in Queues => TxControl
           /\ "rx" \in Queues => RxControl
           /\ "tx" \notin Queues => txHead = {} /\ tpc = "wait"
           /\ "rx" \notin Queues => chains = <<>>
           /\ UpControl

\* A ring r of which the driver has seen sn used entries and given away O,
\* while the device holds the k chains H.
Distinct(f, x, n) ==
    \A i, j \in 0 .. n - 1 : f[(x + i) % QSize] = f[(x + j) % QSize] => i = j

RingOk(r, sn, O, H, k) ==
    /\ r.next = r.used
    /\ Distinct(r.ring, r.last, NDesc(r))
    /\ Distinct(r.uring, sn, NUsed(r, sn))
    /\ AvailHeads(r) \cap H = {} /\ UsedHeads(r, sn) \cap H = {}
    /\ AvailHeads(r) \cap UsedHeads(r, sn) = {}
    /\ O = AvailHeads(r) \cup H \cup UsedHeads(r, sn)
    /\ Cardinality(O) = NDesc(r) + k + NUsed(r, sn)

\* The number of chains the device holds.
Held(q) == IF q = "rx" THEN Len(chains) ELSE IF txHead = {} THEN 0 ELSE 1

\* The chains pci_vtnet_rx() holds are distinct and still in the ring slots it
\* took them from, so that vq_retchains() can give them back.
ChainsKept(r) ==
    /\ \A i, j \in 1 .. Len(chains) : chains[i] = chains[j] => i = j
    /\ \A i \in 1 .. Len(chains) : r.ring[(r.last + (i - 1 - Len(chains))) % QSize] = chains[i]

RingOf(q) == RingOk(vq[q], seen[q], owned[q], Hand(q), Held(q))

Rings == up => /\ \A q \in Queues : RingOf(q)
               /\ "rx" \in Queues => ChainsKept(vq["rx"])
               /\ tpc = "proc" => HasDescs(vq["tx"])

NetInv == TypeInv /\ Control /\ Rings

\* A thread that sleeps has allowed kicks, so that the driver that posts a
\* chain kicks, and the kick is on its way until the thread is woken.
KickTx ==
    /\ txAsleep \/ tpc = "recheck" => ~vq["tx"].noNotify
    /\ up /\ HasDescs(vq["tx"]) /\ txAsleep => "tx" \in posted \cup kick \/ cpc = "kick_tx"

KickRx ==
    /\ (up /\ ~evWant) \/ epc = "check" => ~vq["rx"].noNotify
    /\ up /\ HasDescs(vq["rx"]) /\ ~evWant /\ (mode.merge => NDesc(vq["rx"]) >= bbuf)
           => "rx" \in posted \cup kick \/ cpc = "kick_rx"

Kicks == ("tx" \in Queues => KickTx) /\ ("rx" \in Queues => KickRx)

\* The chains used since the last vq_endchains(), and those still to come.
Batches == up => \A q \in Queues :
    Batch(vq[q]) + NDesc(vq[q]) + Held(q) <= MaxBatch

\* A driver that waits has allowed interrupts, and one is pending, about to be
\* raised, or owed by the vq_endchains() of the thread at work.
Busy(q)   == IF q = "tx" THEN tpc \in {"proc", "rel", "more"} ELSE epc \in Work
Ending(q) == IF q = "tx" THEN tpc = "intr" ELSE epc = "intr"

Owed(q) ==
    /\ drv[q] = "idle" => ~vq[q].noIntr
    /\ drv[q] = "idle" /\ vq[q].used # seen[q] /\ q \notin pending =>
           (Busy(q) /\ vq[q].used # vq[q].save) \/ Ending(q)

Interrupts == up => \A q \in Queues : Owed(q)

NoteInv == NetInv /\ Kicks /\ Batches /\ Interrupts

----------------------------------------------------------------------------
(* Arithmetic of the indices: they wrap at IdxMod, the slots at QSize.     *)

LEMMA Sizes0 == QSize \in Nat /\ QSize > 0 /\ IdxMod \in Nat /\ IdxMod > QSize
BY QueueAssumption DEF QueueAssumption

LEMMA ModRange ==
    ASSUME NEW m \in Nat, m > 0, NEW a \in Int
    PROVE  a % m \in 0 .. m - 1 /\ a \div m \in Int /\ a = m * (a \div m) + (a % m)
OBVIOUS

LEMMA ModUnique ==
    ASSUME NEW m \in Nat, m > 0, NEW k \in Int, NEW c \in 0 .. m - 1
    PROVE  (m * k + c) % m = c
OBVIOUS

LEMMA ModSmall ==
    ASSUME NEW m \in Nat, m > 0, NEW c \in 0 .. m - 1
    PROVE  c % m = c
OBVIOUS

LEMMA ModMultiple ==
    ASSUME NEW m \in Nat, m > 0, NEW a \in Int, NEW k \in Int
    PROVE  (m * k + a) % m = a % m
<1> DEFINE c == a % m
           d == a \div m
<1>1. c \in 0 .. m - 1 /\ d \in Int /\ a = m * d + c
  BY ModRange
<1> HIDE DEF c, d
<1>2. m * k + a = m * (k + d) + c /\ k + d \in Int
  BY <1>1
<1>3. (m * k + a) % m = c
  BY <1>1, <1>2, ModUnique
<1> QED
  BY <1>3 DEF c

LEMMA ModAdd ==
    ASSUME NEW m \in Nat, m > 0, NEW a \in Int, NEW b \in Int
    PROVE  ((a % m) + b) % m = (a + b) % m /\ (b - (a % m)) % m = (b - a) % m
<1> DEFINE c == a % m
           d == a \div m
<1>1. c \in 0 .. m - 1 /\ d \in Int /\ a = m * d + c
  BY ModRange
<1> HIDE DEF c, d
<1>2. a + b = m * d + (c + b) /\ c + b \in Int
  BY <1>1
<1>3. (a + b) % m = (c + b) % m
  BY <1>1, <1>2, ModMultiple
<1>4. b - c = m * d + (b - a) /\ b - a \in Int
  BY <1>1
<1>5. (b - c) % m = (b - a) % m
  <2>1. (m * d + (b - a)) % m = (b - a) % m
    BY <1>1, <1>4, ModMultiple
  <2> QED
    BY <1>4, <2>1
<1> QED
  BY <1>3, <1>5 DEF c

\* An index taken modulo IdxMod leads to the same slot: QSize divides IdxMod.
LEMMA SlotOfIdx ==
    ASSUME NEW a \in Int, NEW b \in Int
    PROVE  ((a % IdxMod) + b) % QSize = (a + b) % QSize
<1> DEFINE w == IdxMod \div QSize
           d == a \div IdxMod
           c == a % IdxMod
<1>1. IdxMod = QSize * w /\ w \in Int
  <2>1. IdxMod % QSize = 0
    BY QueueAssumption DEF QueueAssumption
  <2> QED
    BY <2>1, Sizes0, ModRange
<1>2. c \in Int /\ d \in Int /\ a = IdxMod * d + c
  BY Sizes0, ModRange
<1> HIDE DEF c, d, w
<1>3. w * d \in Int /\ c + b \in Int /\ a + b = QSize * (w * d) + (c + b)
  BY <1>1, <1>2, Sizes0
<1>4. (a + b) % QSize = (c + b) % QSize
  BY <1>3, Sizes0, ModMultiple
<1> QED
  BY <1>4 DEF c

\* QSize consecutive positions have distinct slots.
LEMMA SlotInjective ==
    ASSUME NEW x \in Int, NEW i \in Int, NEW j \in Int,
           i - j < QSize, j - i < QSize, (x + i) % QSize = (x + j) % QSize
    PROVE  i = j
<1> DEFINE d == (x + i) \div QSize
           e == (x + j) \div QSize
           c == (x + i) % QSize
<1>1. x + i = QSize * d + c /\ d \in Int /\ c \in Int
  BY Sizes0, ModRange
<1>2. x + j = QSize * e + c /\ e \in Int
  BY Sizes0, ModRange
<1> HIDE DEF c, d, e
<1>3. i - j = QSize * (d - e)
  BY <1>1, <1>2, Sizes0
<1>4. d = e
  BY <1>1, <1>2, <1>3, Sizes0
<1> QED
  BY <1>1, <1>2, <1>3, <1>4, Sizes0

LEMMA SlotRange == ASSUME NEW x \in Int PROVE x % QSize \in Heads
BY Sizes0, ModRange DEF Heads

LEMMA PlusIdx ==
    ASSUME NEW i \in Int, NEW n \in Int
    PROVE  Plus(i, n) \in Idx
BY Sizes0, ModRange DEF Plus, Idx

\* How the distance of two indices changes with them.
LEMMA GapMoves ==
    ASSUME NEW a \in Int, NEW l \in Int, NEW n \in Int
    PROVE  /\ ((a - l) % IdxMod) + n \in 0 .. IdxMod - 1
               => (Plus(a, n) - l) % IdxMod = ((a - l) % IdxMod) + n
           /\ ((a - l) % IdxMod) - n \in 0 .. IdxMod - 1
               => (a - Plus(l, n)) % IdxMod = ((a - l) % IdxMod) - n
<1> DEFINE d == (a - l) % IdxMod
<1>0. /\ d \in Int /\ IdxMod \in Nat /\ IdxMod > 0
      /\ a + n \in Int /\ l + n \in Int /\ a - l \in Int /\ -l \in Int /\ -n \in Int
  BY Sizes0, ModRange
<1>1. (Plus(a, n) - l) % IdxMod = (d + n) % IdxMod
  <2>1. (((a + n) % IdxMod) + (-l)) % IdxMod = ((a + n) + (-l)) % IdxMod
    BY <1>0, ModAdd
  <2>2. (((a - l) % IdxMod) + n) % IdxMod = ((a - l) + n) % IdxMod
    BY <1>0, ModAdd
  <2>3. ((a + n) % IdxMod) \in Int /\ (a + n) + (-l) = (a - l) + n
    BY <1>0, ModRange
  <2> HIDE DEF d
  <2>4. ((a + n) % IdxMod) + (-l) = ((a + n) % IdxMod) - l
    BY <2>3
  <2> QED
    BY <2>1, <2>2, <2>3, <2>4 DEF Plus, d
<1>2. (a - Plus(l, n)) % IdxMod = (d - n) % IdxMod
  <2>1. (a - ((l + n) % IdxMod)) % IdxMod = (a - (l + n)) % IdxMod
    BY <1>0, ModAdd
  <2>2. (((a - l) % IdxMod) + (-n)) % IdxMod = ((a - l) + (-n)) % IdxMod
    BY <1>0, ModAdd
  <2>3. (a - l) + (-n) = a - (l + n) /\ d + (-n) = d - n
    BY <1>0
  <2> QED
    BY <2>1, <2>2, <2>3 DEF Plus
<1> HIDE DEF d
<1>3. (d + n \in 0 .. IdxMod - 1 => (d + n) % IdxMod = d + n)
      /\ (d - n \in 0 .. IdxMod - 1 => (d - n) % IdxMod = d - n)
  BY <1>0, ModSmall
<1> QED
  BY <1>1, <1>2, <1>3 DEF d

\* The slots after the entries between l and a are those from a on.
LEMMA SlotsAfter ==
    ASSUME NEW a \in Int, NEW l \in Int, NEW e \in Int
    PROVE  (l + (((a - l) % IdxMod) + e)) % QSize = (a + e) % QSize
<1>1. (((a - l) % IdxMod) + (l + e)) % QSize = ((a - l) + (l + e)) % QSize
  BY SlotOfIdx
<1>2. (a - l) + (l + e) = a + e /\ (a - l) % IdxMod \in Int
  BY Sizes0, ModRange
<1>3. ((a - l) % IdxMod) + (l + e) = l + (((a - l) % IdxMod) + e)
  BY <1>2
<1> QED
  BY <1>1, <1>2, <1>3

LEMMA SlotAfter ==
    ASSUME NEW a \in Int, NEW l \in Int
    PROVE  (l + ((a - l) % IdxMod)) % QSize = a % QSize
<1>1. (((a - l) % IdxMod) + l) % QSize = ((a - l) + l) % QSize
  BY SlotOfIdx
<1>2. (a - l) + l = a /\ (a - l) % IdxMod \in Int
  BY Sizes0, ModRange
<1>3. ((a - l) % IdxMod) + l = l + ((a - l) % IdxMod)
  BY <1>2
<1> QED
  BY <1>1, <1>2, <1>3

----------------------------------------------------------------------------
(* What the virtqueue operations do to a ring *)

LEMMA QueueFields ==
    ASSUME NEW r \in Queue, NEW sn \in Idx
    PROVE  /\ r.last \in Int /\ r.next \in Int /\ r.save \in Int /\ r.avail \in Int
           /\ r.used \in Int /\ sn \in Int
           /\ r.ring \in [Heads -> Heads] /\ r.uring \in [Heads -> Heads]
           /\ NDesc(r) \in 0 .. IdxMod - 1 /\ NUsed(r, sn) \in 0 .. IdxMod - 1
           /\ Batch(r) \in 0 .. IdxMod - 1
<1>1. /\ r.last \in Int /\ r.next \in Int /\ r.save \in Int /\ r.avail \in Int
      /\ r.used \in Int /\ sn \in Int
      /\ r.ring \in [Heads -> Heads] /\ r.uring \in [Heads -> Heads]
  BY Sizes0 DEF Queue, Idx
<1> QED
  BY <1>1, Sizes0, ModRange DEF NDesc, NUsed, Batch, Plus

\* What a ring holds are heads, QSize of them at most.
LEMMA RingBound ==
    ASSUME NEW r \in Queue, NEW sn \in Idx, NEW O \in SUBSET Heads, NEW H, NEW k \in Nat,
           RingOk(r, sn, O, H, k)
    PROVE  NDesc(r) + k + NUsed(r, sn) <= QSize /\ IsFiniteSet(O)
<1>1. 0 \in Int /\ QSize - 1 \in Int /\ ~(0 > QSize - 1) /\ (QSize - 1) - 0 + 1 = QSize
  BY Sizes0
<1>2. IsFiniteSet(Heads) /\ Cardinality(Heads) = QSize
  <2>1. IsFiniteSet(Heads) /\ Cardinality(Heads) = (IF 0 > QSize - 1 THEN 0 ELSE (QSize - 1) - 0 + 1)
    BY <1>1, FS_Interval, Zenon DEF Heads
  <2> QED
    BY <1>1, <2>1
<1>3. IsFiniteSet(O) /\ Cardinality(O) <= Cardinality(Heads)
  BY <1>2, FS_Subset
<1> QED
  BY <1>2, <1>3 DEF RingOk

\* The n entries of ring f from index x on.
Span(f, x, n) == {f[(x + i) % QSize] : i \in 0 .. n - 1}

LEMMA Spans ==
    ASSUME NEW r, NEW sn
    PROVE  /\ AvailHeads(r) = Span(r.ring, r.last, NDesc(r))
           /\ UsedHeads(r, sn) = Span(r.uring, sn, NUsed(r, sn))
BY DEF AvailHeads, UsedHeads, Span

\* A stretch of the ring is two shorter ones, one after the other.
LEMMA SpanSplit ==
    ASSUME NEW f, NEW x \in Int, NEW m \in Nat, NEW n \in Nat
    PROVE  /\ Span(f, x, m + n) = Span(f, x, m) \cup Span(f, Plus(x, m), n)
           /\ Distinct(f, x, m + n) <=> /\ Distinct(f, x, m) /\ Distinct(f, Plus(x, m), n)
                                        /\ Span(f, x, m) \cap Span(f, Plus(x, m), n) = {}
<1> DEFINE y == Plus(x, m)
           g(i) == f[(x + i) % QSize]
<1>1. \A i \in Int : f[(y + i) % QSize] = g(m + i)
  <2> TAKE i \in Int
  <2>1. (((x + m) % IdxMod) + i) % QSize = ((x + m) + i) % QSize
    BY SlotOfIdx
  <2>2. (x + m) + i = x + (m + i)
    OBVIOUS
  <2> QED
    BY <2>1, <2>2 DEF Plus
<1>2. /\ Span(f, x, m + n) = {g(i) : i \in 0 .. m + n - 1}
      /\ Span(f, x, m) = {g(i) : i \in 0 .. m - 1}
      /\ Distinct(f, x, m + n) <=> \A i, j \in 0 .. m + n - 1 : g(i) = g(j) => i = j
      /\ Distinct(f, x, m) <=> \A i, j \in 0 .. m - 1 : g(i) = g(j) => i = j
  BY DEF Span, Distinct
<1> HIDE DEF y, g
<1>3. Span(f, y, n) = {g(m + i) : i \in 0 .. n - 1}
  <2>1. \A i \in 0 .. n - 1 : f[(y + i) % QSize] = g(m + i)
    BY <1>1
  <2> QED
    BY <2>1, Zenon DEF Span
<1>4. Distinct(f, y, n) <=> \A i, j \in 0 .. n - 1 : g(m + i) = g(m + j) => i = j
  <2>1. \A i \in 0 .. n - 1 : f[(y + i) % QSize] = g(m + i)
    BY <1>1
  <2> QED
    BY <2>1 DEF Distinct
<1>5. Span(f, x, m + n) = Span(f, x, m) \cup Span(f, y, n)
  <2>1. ASSUME NEW e \in Span(f, x, m + n) PROVE e \in Span(f, x, m) \cup Span(f, y, n)
    <3>1. PICK i \in 0 .. m + n - 1 : e = g(i)
      BY <1>2, <2>1
    <3>2. CASE i < m
      BY <1>2, <3>1, <3>2
    <3>3. CASE i >= m
      <4>1. i - m \in 0 .. n - 1 /\ m + (i - m) = i
        BY <3>1, <3>3
      <4> QED
        BY <1>3, <3>1, <4>1
    <3> QED
      BY <3>2, <3>3
  <2>2. Span(f, x, m) \subseteq Span(f, x, m + n)
    BY <1>2
  <2>3. Span(f, y, n) \subseteq Span(f, x, m + n)
    BY <1>2, <1>3
  <2> QED
    BY <2>1, <2>2, <2>3
<1>6. ASSUME Distinct(f, x, m + n)
      PROVE  /\ Distinct(f, x, m) /\ Distinct(f, y, n)
             /\ Span(f, x, m) \cap Span(f, y, n) = {}
  BY <1>2, <1>3, <1>4, <1>6
<1>7. ASSUME Distinct(f, x, m), Distinct(f, y, n), Span(f, x, m) \cap Span(f, y, n) = {}
      PROVE  Distinct(f, x, m + n)
  <2> SUFFICES ASSUME NEW i \in 0 .. m + n - 1, NEW j \in 0 .. m + n - 1, g(i) = g(j)
               PROVE  i = j
    BY <1>2
  <2>1. \A a \in 0 .. m + n - 1 : a >= m => a - m \in 0 .. n - 1 /\ m + (a - m) = a
    OBVIOUS
  <2>2. \A a \in 0 .. m + n - 1 : a >= m => g(a) \in Span(f, y, n)
    BY <1>3, <2>1
  <2>3. \A a \in 0 .. m + n - 1 : a < m => g(a) \in Span(f, x, m)
    BY <1>2
  <2>4. CASE i < m /\ j < m
    BY <1>2, <1>7, <2>4
  <2>5. CASE i >= m /\ j >= m
    <3>1. i - m = j - m
      BY <1>4, <1>7, <2>1, <2>5
    <3> QED
      BY <3>1
  <2>6. CASE (i < m /\ j >= m) \/ (i >= m /\ j < m)
    BY <1>7, <2>2, <2>3, <2>6
  <2> QED
    BY <2>4, <2>5, <2>6
<1> QED
  BY <1>5, <1>6, <1>7 DEF y

LEMMA SpanOne ==
    ASSUME NEW f, NEW x \in Int
    PROVE  Span(f, x, 1) = {f[x % QSize]} /\ Distinct(f, x, 1) /\ Span(f, x, 0) = {}
<1>1. 0 .. 1 - 1 = {0} /\ x + 0 = x /\ 0 .. 0 - 1 = {}
  OBVIOUS
<1> QED
  BY <1>1 DEF Span, Distinct

\* Rings that agree on a stretch.
LEMMA SpanSame ==
    ASSUME NEW f, NEW g, NEW x \in Int, NEW n \in Nat,
           \A i \in 0 .. n - 1 : g[(x + i) % QSize] = f[(x + i) % QSize]
    PROVE  Span(g, x, n) = Span(f, x, n) /\ (Distinct(f, x, n) => Distinct(g, x, n))
BY DEF Span, Distinct

\* A stretch that holds the sequence hs.
LEMMA SpanOfSeq ==
    ASSUME NEW f, NEW x, NEW n \in Nat, NEW hs,
           \A i \in 0 .. n - 1 : f[(x + i) % QSize] = hs[i + 1],
           \A i, j \in 1 .. n : hs[i] = hs[j] => i = j
    PROVE  Span(f, x, n) = {hs[i] : i \in 1 .. n} /\ Distinct(f, x, n)
<1>1. \A i \in 0 .. n - 1 : i + 1 \in 1 .. n
  OBVIOUS
<1>2. \A i \in 1 .. n : i - 1 \in 0 .. n - 1 /\ (i - 1) + 1 = i
  OBVIOUS
<1>3. \A i \in 1 .. n : f[(x + (i - 1)) % QSize] = hs[i]
  <2> TAKE i \in 1 .. n
  <2>1. i - 1 \in 0 .. n - 1 /\ (i - 1) + 1 = i
    BY <1>2
  <2>2. f[(x + (i - 1)) % QSize] = hs[(i - 1) + 1]
    BY <2>1, Zenon
  <2> QED
    BY <2>1, <2>2, Zenon
<1>4. ASSUME NEW e \in Span(f, x, n) PROVE e \in {hs[i] : i \in 1 .. n}
  <2>1. PICK i \in 0 .. n - 1 : e = f[(x + i) % QSize]
    BY <1>4, Zenon DEF Span
  <2>2. e = hs[i + 1] /\ i + 1 \in 1 .. n
    BY <1>1, <2>1, Zenon
  <2> QED
    BY <2>2, Zenon
<1>5. ASSUME NEW i \in 1 .. n PROVE hs[i] \in Span(f, x, n)
  <2>1. i - 1 \in 0 .. n - 1
    BY <1>2
  <2>2. f[(x + (i - 1)) % QSize] \in Span(f, x, n)
    BY <2>1, Zenon DEF Span
  <2>3. f[(x + (i - 1)) % QSize] = hs[i]
    BY <1>3
  <2> QED
    BY <2>2, <2>3, Zenon
<1>6. Distinct(f, x, n)
  <2> SUFFICES ASSUME NEW i \in 0 .. n - 1, NEW j \in 0 .. n - 1,
                      f[(x + i) % QSize] = f[(x + j) % QSize]
               PROVE  i = j
    BY DEF Distinct
  <2>1. hs[i + 1] = hs[j + 1]
    BY Zenon
  <2>2. i + 1 = j + 1
    BY <1>1, <2>1
  <2> QED
    BY <2>2
<1> QED
  BY <1>4, <1>5, <1>6

\* RingOk() reads neither the flags nor vq_save_used.
LEMMA RingFlags ==
    ASSUME NEW r, NEW r2, NEW sn, NEW O, NEW H, NEW k, RingOk(r, sn, O, H, k),
           /\ r2.last = r.last /\ r2.next = r.next /\ r2.avail = r.avail
           /\ r2.used = r.used /\ r2.ring = r.ring /\ r2.uring = r.uring
    PROVE  RingOk(r2, sn, O, H, k)
BY DEF RingOk, AvailHeads, UsedHeads, NDesc, NUsed

LEMMA NewRing == NewQueue \in Queue /\ RingOk(NewQueue, 0, {}, {}, 0) /\ Batch(NewQueue) = 0
<1>1. 0 \in Idx /\ 0 \in Heads
  BY Sizes0 DEF Idx, Heads
<1>2. NewQueue \in Queue
  BY <1>1 DEF NewQueue, Queue
<1>3. 0 % IdxMod = 0
  BY Sizes0, ModSmall
<1>4. NDesc(NewQueue) = 0 /\ NUsed(NewQueue, 0) = 0 /\ Batch(NewQueue) = 0
  BY <1>3 DEF NewQueue, NDesc, NUsed, Batch, Plus
<1>5. 0 .. 0 - 1 = {}
  OBVIOUS
<1>6. AvailHeads(NewQueue) = {} /\ UsedHeads(NewQueue, 0) = {}
  BY <1>4, <1>5 DEF AvailHeads, UsedHeads
<1>7. Distinct(NewQueue.ring, NewQueue.last, 0) /\ Distinct(NewQueue.uring, 0, 0)
  BY <1>5 DEF Distinct
<1>8. Cardinality({}) = 0
  BY FS_EmptySet
<1>9. NewQueue.next = NewQueue.used
  BY DEF NewQueue
<1> QED
  BY <1>2, <1>4, <1>6, <1>7, <1>8, <1>9 DEF RingOk

\* vq_getchain()
LEMMA TakenRing ==
    ASSUME NEW r \in Queue, NEW sn \in Idx, NEW O \in SUBSET Heads, NEW H, NEW k \in Nat,
           RingOk(r, sn, O, H, k), NDesc(r) > 0
    PROVE  /\ Taken(r) \in Queue /\ NextHead(r) \in Heads \ H
           /\ RingOk(Taken(r), sn, O, H \cup {NextHead(r)}, k + 1)
           /\ NDesc(Taken(r)) = NDesc(r) - 1 /\ Batch(Taken(r)) = Batch(r)
<1> DEFINE t == Taken(r)
           d == NDesc(r)
           h == NextHead(r)
<1>0. /\ r.last \in Int /\ r.avail \in Int /\ d \in 0 .. IdxMod - 1
      /\ r.ring \in [Heads -> Heads] /\ NUsed(r, sn) \in Int
  BY QueueFields
<1>1. Plus(r.last, 1) \in Idx
  BY <1>0, PlusIdx
<1>2. /\ t \in Queue /\ t.last = Plus(r.last, 1) /\ t.avail = r.avail /\ t.ring = r.ring
      /\ t.next = r.next /\ t.used = r.used /\ t.save = r.save /\ t.uring = r.uring
  BY <1>1 DEF Taken, Queue
<1>3. h = r.ring[r.last % QSize] /\ h \in Heads
  BY <1>0, SlotRange DEF NextHead
<1>4. NDesc(t) = d - 1
  <2>1. d - 1 \in 0 .. IdxMod - 1
    BY <1>0, Sizes0
  <2> QED
    BY <1>0, <1>2, <2>1, GapMoves DEF NDesc
<1>5. NUsed(t, sn) = NUsed(r, sn) /\ UsedHeads(t, sn) = UsedHeads(r, sn) /\ Batch(t) = Batch(r)
  BY <1>2 DEF NUsed, UsedHeads, Batch
<1>6. /\ AvailHeads(r) = {h} \cup AvailHeads(t) /\ h \notin AvailHeads(t)
      /\ Distinct(t.ring, t.last, NDesc(t))
  <2>1. d - 1 \in Nat /\ 1 + (d - 1) = d /\ 1 \in Nat
    BY <1>0, Sizes0
  <2> HIDE DEF t, d, h
  <2>2. /\ Span(r.ring, r.last, 1 + (d - 1))
               = Span(r.ring, r.last, 1) \cup Span(r.ring, Plus(r.last, 1), d - 1)
        /\ Distinct(r.ring, r.last, 1 + (d - 1)) <=>
               /\ Distinct(r.ring, r.last, 1) /\ Distinct(r.ring, Plus(r.last, 1), d - 1)
               /\ Span(r.ring, r.last, 1) \cap Span(r.ring, Plus(r.last, 1), d - 1) = {}
    BY <1>0, <2>1, SpanSplit, Zenon
  <2>3. Span(r.ring, r.last, 1) = {h}
    BY <1>0, <1>3, SpanOne
  <2>4. /\ AvailHeads(r) = Span(r.ring, r.last, d)
        /\ AvailHeads(t) = Span(r.ring, Plus(r.last, 1), d - 1)
    BY <1>2, <1>4, Spans DEF d
  <2>5. Distinct(r.ring, r.last, d)
    BY DEF RingOk, d
  <2> QED
    BY <1>2, <1>4, <2>1, <2>2, <2>3, <2>4, <2>5
<1>7. h \notin H
  BY <1>6 DEF RingOk
<1> HIDE DEF t, h
<1>8. RingOk(t, sn, O, H \cup {h}, k + 1)
  <2>1. d - 1 + (k + 1) + NUsed(r, sn) = d + k + NUsed(r, sn)
    BY <1>0
  <2> QED
    BY <1>2, <1>4, <1>5, <1>6, <2>1 DEF RingOk
<1> QED
  BY <1>2, <1>3, <1>4, <1>5, <1>7, <1>8 DEF t, h

PostOk(r, h, sn, O, H, k) ==
    /\ DriverPost(r, h) \in Queue
    /\ RingOk(DriverPost(r, h), sn, O \cup {h}, H, k)
    /\ NDesc(DriverPost(r, h)) = NDesc(r) + 1 /\ Batch(DriverPost(r, h)) = Batch(r)
    /\ NDesc(r) + k < QSize
    /\ \A i \in 1 .. k : DriverPost(r, h).ring[(r.last + (i - 1 - k)) % QSize]
                            = r.ring[(r.last + (i - 1 - k)) % QSize]

\* The driver posts a chain it owns: the slot it writes is not in use.
LEMMA PostRing ==
    ASSUME NEW r \in Queue, NEW sn \in Idx, NEW O \in SUBSET Heads, NEW H, NEW k \in Nat,
           RingOk(r, sn, O, H, k), NEW h \in Heads \ O
    PROVE  PostOk(r, h, sn, O, H, k)
<1> DEFINE t == DriverPost(r, h)
           d == NDesc(r)
           u == NUsed(r, sn)
<1>0. /\ r.last \in Int /\ r.avail \in Int /\ d \in 0 .. IdxMod - 1
      /\ r.ring \in [Heads -> Heads] /\ u \in 0 .. IdxMod - 1 /\ QSize \in Nat /\ IdxMod \in Nat
      /\ IdxMod > QSize
  BY QueueFields, Sizes0
<1>1. Plus(r.avail, 1) \in Idx
  BY <1>0, PlusIdx
<1>2. r.avail % QSize \in Heads /\ (r.last + d) % QSize = r.avail % QSize
  BY <1>0, SlotRange, SlotAfter DEF NDesc
<1>3. /\ t \in Queue /\ t.last = r.last /\ t.avail = Plus(r.avail, 1)
      /\ t.ring = [r.ring EXCEPT ![r.avail % QSize] = h]
      /\ t.next = r.next /\ t.used = r.used /\ t.save = r.save /\ t.uring = r.uring
  BY <1>0, <1>1, <1>2 DEF DriverPost, Queue
<1>4. d + k + u < QSize
  <2>1. d + k + u <= QSize /\ IsFiniteSet(O)
    BY RingBound
  <2>2. O # Heads /\ IsFiniteSet(Heads) /\ Cardinality(Heads) = QSize
    <3>1. 0 \in Int /\ QSize - 1 \in Int /\ ~(0 > QSize - 1) /\ (QSize - 1) - 0 + 1 = QSize
      BY Sizes0
    <3>2. /\ IsFiniteSet(Heads)
          /\ Cardinality(Heads) = (IF 0 > QSize - 1 THEN 0 ELSE (QSize - 1) - 0 + 1)
      BY <3>1, FS_Interval, Zenon DEF Heads
    <3> QED
      BY <3>1, <3>2
  <2>3. Cardinality(O) # QSize
    BY <2>2, FS_Subset
  <2> QED
    BY <1>0, <2>1, <2>3 DEF RingOk
<1>5. NDesc(t) = d + 1
  <2>1. d + 1 \in 0 .. IdxMod - 1
    BY <1>0, <1>4
  <2>2. (Plus(r.avail, 1) - r.last) % IdxMod = ((r.avail - r.last) % IdxMod) + 1
    <3>1. 1 \in Int
      OBVIOUS
    <3> QED
      BY <1>0, <2>1, <3>1, GapMoves, Zenon DEF NDesc
  <2> QED
    BY <1>3, <2>2 DEF NDesc
<1>6. NUsed(t, sn) = u /\ UsedHeads(t, sn) = UsedHeads(r, sn) /\ Batch(t) = Batch(r)
  BY <1>3 DEF NUsed, UsedHeads, Batch
<1> HIDE DEF t, d, u
\* The other slots in use are not the one written.
<1>7. ASSUME NEW i \in Int, i < d, d - i < QSize
      PROVE  t.ring[(r.last + i) % QSize] = r.ring[(r.last + i) % QSize]
  <2>1. (r.last + i) % QSize # r.avail % QSize
    BY <1>0, <1>2, <1>7, SlotInjective
  <2>2. (r.last + i) % QSize \in Heads
    BY <1>0, SlotRange
  <2> QED
    BY <1>0, <1>2, <1>3, <2>1, <2>2
<1>8. /\ Span(t.ring, r.last, d) = AvailHeads(r)
      /\ Distinct(t.ring, r.last, d)
  <2>1. \A i \in 0 .. d - 1 : t.ring[(r.last + i) % QSize] = r.ring[(r.last + i) % QSize]
    BY <1>0, <1>4, <1>7
  <2>2. AvailHeads(r) = Span(r.ring, r.last, d) /\ Distinct(r.ring, r.last, d) /\ d \in Nat
    BY <1>0, Spans DEF RingOk, d
  <2> QED
    BY <1>0, <2>1, <2>2, SpanSame
<1>9. AvailHeads(t) = AvailHeads(r) \cup {h} /\ Distinct(t.ring, t.last, NDesc(t))
  <2>1. t.ring[Plus(r.last, d) % QSize] = h
    <3>1. Plus(r.last, d) % QSize = (r.last + d) % QSize
      <4>1. (((r.last + d) % IdxMod) + 0) % QSize = ((r.last + d) + 0) % QSize
        <5>1. r.last + d \in Int /\ 0 \in Int
          BY <1>0
        <5> QED
          BY <5>1, SlotOfIdx
      <4>2. (r.last + d) + 0 = r.last + d /\ ((r.last + d) % IdxMod) + 0 = (r.last + d) % IdxMod
        BY <1>0, ModRange
      <4> QED
        BY <4>1, <4>2 DEF Plus
    <3> QED
      BY <1>0, <1>2, <1>3, <3>1
  <2>2. Plus(r.last, d) \in Int
    <3>1. d \in Int
      BY <1>0
    <3>2. Plus(r.last, d) \in Idx
      BY <1>0, <3>1, PlusIdx
    <3> QED
      BY <1>0, <3>2 DEF Idx
  <2>3. Span(t.ring, Plus(r.last, d), 1) = {h} /\ Distinct(t.ring, Plus(r.last, d), 1)
    BY <2>1, <2>2, SpanOne
  <2>4. /\ Span(t.ring, r.last, d + 1) = AvailHeads(r) \cup {h}
        /\ Distinct(t.ring, r.last, d + 1)
    <3>1. h \notin AvailHeads(r) /\ d \in Nat /\ 1 \in Nat
      BY <1>0 DEF RingOk
    <3> QED
      BY <1>0, <1>8, <2>3, <3>1, SpanSplit
  <2> QED
    BY <1>3, <1>5, <2>4, Spans
<1>10. Cardinality(O \cup {h}) = Cardinality(O) + 1
  BY RingBound, FS_AddElement
<1>11. RingOk(t, sn, O \cup {h}, H, k)
  <2>1. (d + k + u) + 1 = (d + 1) + k + u
    BY <1>0
  <2>2. h \notin H /\ h \notin UsedHeads(r, sn)
    BY DEF RingOk
  <2> QED
    BY <1>3, <1>5, <1>6, <1>9, <1>10, <2>1, <2>2 DEF RingOk, d, u
<1>12. \A i \in 1 .. k : t.ring[(r.last + (i - 1 - k)) % QSize] = r.ring[(r.last + (i - 1 - k)) % QSize]
  <2> TAKE i \in 1 .. k
  <2>1. i - 1 - k \in Int /\ i - 1 - k < d /\ d - (i - 1 - k) < QSize
    BY <1>0, <1>4
  <2> QED
    BY <1>7, <2>1
<1>13. d + k < QSize
  BY <1>0, <1>4
<1> QED
  BY <1>3, <1>5, <1>6, <1>11, <1>12, <1>13 DEF t, d, PostOk

\* As many things as there are numbers for them.
LEMMA Counting ==
    ASSUME NEW n \in Nat, NEW f, NEW S, f \in [0 .. n - 1 -> S],
           \A i, j \in 0 .. n - 1 : f[i] = f[j] => i = j,
           \A e \in S : \E i \in 0 .. n - 1 : f[i] = e
    PROVE  IsFiniteSet(S) /\ Cardinality(S) = n
<1>1. f \in Bijection(0 .. n - 1, S)
  BY DEF Bijection, Injection, Surjection, IsInjective
<1>2. ExistsBijection(0 .. n - 1, S)
  BY <1>1 DEF ExistsBijection
<1>3. IsFiniteSet(0 .. n - 1) /\ Cardinality(0 .. n - 1) = n
  <2>1. 0 \in Int /\ n - 1 \in Int /\ (IF 0 > n - 1 THEN 0 ELSE (n - 1) - 0 + 1) = n
    OBVIOUS
  <2>2. /\ IsFiniteSet(0 .. n - 1)
        /\ Cardinality(0 .. n - 1) = (IF 0 > n - 1 THEN 0 ELSE (n - 1) - 0 + 1)
    BY <2>1, FS_Interval, Zenon
  <2> QED
    BY <2>1, <2>2
<1> QED
  BY <1>2, <1>3, FS_Bijection

LEMMA SpanCount ==
    ASSUME NEW f, NEW x \in Int, NEW n \in Nat, Distinct(f, x, n)
    PROVE  IsFiniteSet(Span(f, x, n)) /\ Cardinality(Span(f, x, n)) = n
<1> DEFINE g == [i \in 0 .. n - 1 |-> f[(x + i) % QSize]]
<1>1. g \in [0 .. n - 1 -> Span(f, x, n)]
  BY DEF Span
<1>2. \A i, j \in 0 .. n - 1 : g[i] = g[j] => i = j
  BY DEF Distinct
<1>3. \A e \in Span(f, x, n) : \E i \in 0 .. n - 1 : g[i] = e
  BY DEF Span
<1> HIDE DEF g
<1> QED
  BY <1>1, <1>2, <1>3, Counting

\* The driver takes back what has been used.
LEMMA ReapRing ==
    ASSUME NEW r \in Queue, NEW sn \in Idx, NEW O \in SUBSET Heads, NEW H, NEW k \in Nat,
           RingOk(r, sn, O, H, k)
    PROVE  RingOk(r, r.used, O \ UsedHeads(r, sn), H, k)
<1> DEFINE U == UsedHeads(r, sn)
<1>0. /\ sn \in Int /\ r.used \in Int /\ NUsed(r, sn) \in Nat /\ NDesc(r) \in Nat
      /\ r.uring \in [Heads -> Heads]
  BY QueueFields, Sizes0
<1>1. IsFiniteSet(U) /\ Cardinality(U) = NUsed(r, sn)
  BY <1>0, Spans, SpanCount DEF RingOk
<1>2. NUsed(r, r.used) = 0
  <2>1. r.used - r.used = 0 /\ 0 % IdxMod = 0
    BY <1>0, Sizes0, ModSmall
  <2> QED
    BY <2>1 DEF NUsed
<1>3. UsedHeads(r, r.used) = {} /\ Distinct(r.uring, r.used, NUsed(r, r.used))
  <2>1. 0 .. 0 - 1 = {}
    OBVIOUS
  <2> QED
    BY <1>2, <2>1 DEF UsedHeads, Distinct
<1>4. IsFiniteSet(O)
  BY RingBound
<1> DEFINE W == O \ U
<1>5. IsFiniteSet(W) /\ W \cap U = {} /\ W \cup U = O
  <2>1. W \in SUBSET O
    OBVIOUS
  <2>2. IsFiniteSet(W)
    BY <1>4, <2>1, FS_Subset, Zenon
  <2> QED
    BY <2>2 DEF RingOk
<1>6. Cardinality(O) = Cardinality(W) + Cardinality(U)
  <2>1. Cardinality(W \cup U) = Cardinality(W) + Cardinality(U)
    <3>1. Cardinality(W \cup U) = Cardinality(W) + Cardinality(U) - Cardinality(W \cap U)
      BY <1>1, <1>5, FS_Union, Zenon
    <3>2. Cardinality(W \cap U) = 0
      BY <1>5, FS_EmptySet, Zenon
    <3>3. Cardinality(W) \in Nat /\ Cardinality(U) \in Nat
      BY <1>1, <1>5, FS_CardinalityType
    <3> HIDE DEF W, U
    <3> QED
      BY <3>1, <3>2, <3>3
  <2> QED
    BY <1>5, <2>1
<1>7. Cardinality(W) = NDesc(r) + k
  <2>1. Cardinality(W) \in Nat /\ Cardinality(O) = NDesc(r) + k + NUsed(r, sn)
    BY <1>5, FS_CardinalityType DEF RingOk
  <2> HIDE DEF W, U
  <2> QED
    BY <1>0, <1>1, <1>6, <2>1
<1>8. W = AvailHeads(r) \cup H
  BY DEF RingOk
<1>9. NDesc(r) + k = NDesc(r) + k + 0
  BY <1>0
<1> HIDE DEF W
<1> QED
  BY <1>2, <1>3, <1>7, <1>8, <1>9 DEF RingOk, W

Elems(hs, n) == {hs[i] : i \in 1 .. n}

\* Chains hs out of the k chains H the device holds; the last n of them, cs,
\* still in their slots.
Some(hs, H, k) == /\ Len(hs) <= k /\ \A i \in 1 .. Len(hs) : hs[i] \in H
                  /\ \A i, j \in 1 .. Len(hs) : hs[i] = hs[j] => i = j
Last(r, n, cs, H, k) ==
    /\ n <= k /\ \A i, j \in 1 .. n : cs[i] = cs[j] => i = j
    /\ \A i \in 1 .. n : cs[i] \in H /\ r.ring[(r.last + (i - 1 - n)) % QSize] = cs[i]

\* What using and returning chains leaves behind.
RelOk(r, hs, sn, O, H, k) ==
    /\ RelChains(r, hs) \in Queue
    /\ RingOk(RelChains(r, hs), sn, O, H \ Elems(hs, Len(hs)), k - Len(hs))
    /\ NDesc(RelChains(r, hs)) = NDesc(r)
    /\ Batch(r) + Len(hs) < IdxMod => Batch(RelChains(r, hs)) = Batch(r) + Len(hs)
    /\ RelChains(r, hs).ring = r.ring /\ RelChains(r, hs).last = r.last
    /\ RelChains(r, hs).alloc = r.alloc /\ RelChains(r, hs).save = r.save
RetOk(r, n, cs, sn, O, H, k) ==
    /\ RetChains(r, n) \in Queue
    /\ RingOk(RetChains(r, n), sn, O, H \ Elems(cs, n), k - n)
    /\ NDesc(RetChains(r, n)) = NDesc(r) + n /\ Batch(RetChains(r, n)) = Batch(r)

\* vq_relchain_prepare() and vq_relchain_publish() of some of the chains held.
LEMMA RelRing ==
    ASSUME NEW r \in Queue, NEW sn \in Idx, NEW O \in SUBSET Heads, NEW H, NEW k \in Nat,
           RingOk(r, sn, O, H, k), NEW hs \in Seq(Heads), Some(hs, H, k)
    PROVE  RelOk(r, hs, sn, O, H, k)
<1> USE DEF Some
<1> DEFINE t == RelChains(r, hs)
           n == Len(hs)
           u == NUsed(r, sn)
           pos(v) == {i \in 1 .. n : (r.next + i - 1) % QSize = v}
           G == {hs[i] : i \in 1 .. n}
<1>0. /\ r.next \in Int /\ r.used \in Int /\ r.save \in Int /\ sn \in Int /\ n \in Nat
      /\ NDesc(r) \in Nat /\ u \in Nat /\ r.next = r.used
      /\ r.uring \in [Heads -> Heads] /\ QSize \in Nat /\ IdxMod \in Nat /\ IdxMod > QSize
      /\ \A i \in 1 .. n : hs[i] \in Heads
  BY QueueFields, Sizes0 DEF RingOk
<1>1. u + n <= QSize
  <2>1. NDesc(r) + k + u <= QSize
    BY RingBound
  <2> QED
    BY <1>0, <2>1
<1>2. \A v \in Heads : pos(v) # {} => (CHOOSE i \in pos(v) : TRUE) \in pos(v)
  OBVIOUS
<1>3. Plus(r.next, n) \in Idx
  BY <1>0, PlusIdx
<1>4. /\ t.uring = [v \in Heads |-> IF pos(v) = {} THEN r.uring[v]
                                    ELSE hs[CHOOSE i \in pos(v) : TRUE]]
      /\ t.next = Plus(r.next, n) /\ t.used = Plus(r.next, n)
      /\ t.last = r.last /\ t.avail = r.avail /\ t.ring = r.ring /\ t.save = r.save
      /\ t.alloc = r.alloc
  BY DEF RelChains, Queue
<1>at. \A v \in Heads : \/ pos(v) = {} /\ t.uring[v] = r.uring[v]
                        \/ \E i \in pos(v) : t.uring[v] = hs[i]
  <2> TAKE v \in Heads
  <2>1. t.uring[v] = IF pos(v) = {} THEN r.uring[v] ELSE hs[CHOOSE i \in pos(v) : TRUE]
    BY <1>4, Zenon
  <2> HIDE DEF pos, t
  <2> QED
    BY <1>2, <2>1, Zenon
<1>5. t \in Queue
  <2>1. [v \in Heads |-> IF pos(v) = {} THEN r.uring[v]
                         ELSE hs[CHOOSE i \in pos(v) : TRUE]] \in [Heads -> Heads]
    BY <1>0, <1>2
  <2> QED
    BY <1>3, <2>1 DEF RelChains, Queue
<1>6. NUsed(t, sn) = u + n
  <2>1. u + n \in 0 .. IdxMod - 1 /\ n \in Int
    BY <1>0, <1>1
  <2>2. (Plus(r.used, n) - sn) % IdxMod = ((r.used - sn) % IdxMod) + n
    BY <1>0, <2>1, GapMoves, Zenon DEF NUsed
  <2> QED
    BY <1>0, <1>4, <2>2 DEF NUsed
<1>7. NDesc(t) = NDesc(r) /\ AvailHeads(t) = AvailHeads(r)
  BY <1>4 DEF NDesc, AvailHeads
<1>8. Batch(r) + n < IdxMod => Batch(t) = Batch(r) + n
  <2> SUFFICES ASSUME Batch(r) + n < IdxMod PROVE Batch(t) = Batch(r) + n
    OBVIOUS
  <2>1. Batch(r) = (r.used - r.save) % IdxMod /\ Batch(t) = (Plus(r.used, n) - r.save) % IdxMod
    <3>1. \A a \in Int : a + -r.save = a - r.save
      BY <1>0
    <3>2. Plus(r.used, n) \in Int
      BY <1>0, <1>3 DEF Idx
    <3> QED
      BY <1>0, <1>4, <3>1, <3>2 DEF Batch, Plus
  <2>2. Batch(r) \in 0 .. IdxMod - 1
    BY QueueFields
  <2>3. ((r.used - r.save) % IdxMod) + n \in 0 .. IdxMod - 1 /\ n \in Int
    BY <1>0, <2>1, <2>2
  <2>4. (Plus(r.used, n) - r.save) % IdxMod = ((r.used - r.save) % IdxMod) + n
    BY <1>0, <2>3, GapMoves, Zenon
  <2> QED
    BY <2>1, <2>4
\* What the slots hold afterwards.
<1>9. ASSUME NEW i \in 1 .. n PROVE t.uring[(r.used + (i - 1)) % QSize] = hs[i]
  <2> DEFINE v == (r.used + (i - 1)) % QSize
  <2>1. v \in Heads
    <3>1. r.used + (i - 1) \in Int
      BY <1>0
    <3> QED
      BY <3>1, SlotRange
  <2>2. \A j \in 1 .. n : r.next + j - 1 = r.used + (j - 1)
    BY <1>0
  <2>3. \A j \in pos(v) : j = i
    <3> TAKE j \in pos(v)
    <3>1. (r.used + (j - 1)) % QSize = (r.used + (i - 1)) % QSize
      BY <2>2
    <3>2. j - 1 = i - 1
      <4>1. /\ j - 1 \in Int /\ i - 1 \in Int
            /\ (j - 1) - (i - 1) < QSize /\ (i - 1) - (j - 1) < QSize
        BY <1>0, <1>1
      <4> QED
        BY <1>0, <3>1, <4>1, SlotInjective, Zenon
    <3> QED
      BY <1>0, <3>2
  <2>4. i \in pos(v)
    BY <2>2
  <2> HIDE DEF v, pos, t
  <2>5. t.uring[v] = hs[i]
    BY <1>at, <2>1, <2>3, <2>4, Zenon
  <2> QED
    BY <2>5 DEF v
<1>10. ASSUME NEW j \in 0 .. u - 1 PROVE t.uring[(sn + j) % QSize] = r.uring[(sn + j) % QSize]
  <2> DEFINE v == (sn + j) % QSize
  <2>1. v \in Heads
    <3>1. sn + j \in Int
      BY <1>0
    <3> QED
      BY <3>1, SlotRange
  <2>2. pos(v) = {}
    <3> SUFFICES ASSUME NEW i \in pos(v) PROVE FALSE
      OBVIOUS
    <3>1. (sn + (u + (i - 1))) % QSize = (r.used + (i - 1)) % QSize
      <4>1. i - 1 \in Int
        BY <1>0
      <4> QED
        BY <1>0, <4>1, SlotsAfter, Zenon DEF NUsed
    <3>2. r.next + i - 1 = r.used + (i - 1)
      BY <1>0
    <3>3. (sn + (u + (i - 1))) % QSize = (sn + j) % QSize
      BY <3>1, <3>2
    <3> HIDE DEF u
    <3>4. u + (i - 1) = j
      <4>1. /\ u + (i - 1) \in Int /\ j \in Int
            /\ (u + (i - 1)) - j < QSize /\ j - (u + (i - 1)) < QSize
        BY <1>0, <1>1
      <4> QED
        BY <1>0, <3>3, <4>1, SlotInjective, Zenon
    <3> QED
      BY <1>0, <3>4
  <2> HIDE DEF v, pos
  <2> QED
    BY <1>4, <2>1, <2>2 DEF v
<1> HIDE DEF t, n, u, pos
<1>11. Span(t.uring, sn, u) = UsedHeads(r, sn) /\ Distinct(t.uring, sn, u)
  <2>1. UsedHeads(r, sn) = Span(r.uring, sn, u) /\ Distinct(r.uring, sn, u)
    BY Spans DEF RingOk, u
  <2>2. \A j \in 0 .. u - 1 : t.uring[(sn + j) % QSize] = r.uring[(sn + j) % QSize]
    BY <1>10
  <2>3. sn \in Int /\ u \in Nat
    BY <1>0
  <2>4. /\ Span(t.uring, sn, u) = Span(r.uring, sn, u)
        /\ Distinct(r.uring, sn, u) => Distinct(t.uring, sn, u)
    BY <2>2, <2>3, SpanSame, Zenon
  <2> QED
    BY <2>1, <2>4
<1>12. Span(t.uring, Plus(sn, u), n) = G /\ Distinct(t.uring, Plus(sn, u), n)
  <2>1. \A i \in 0 .. n - 1 : t.uring[(Plus(sn, u) + i) % QSize] = hs[i + 1]
    <3> TAKE i \in 0 .. n - 1
    <3>1. (((sn + u) % IdxMod) + i) % QSize = ((sn + u) + i) % QSize
      BY <1>0, SlotOfIdx
    <3>2. (sn + (u + i)) % QSize = (r.used + i) % QSize
      <4>1. i \in Int
        BY <1>0
      <4> QED
        BY <1>0, <4>1, SlotsAfter, Zenon DEF NUsed, u
    <3>3. (sn + u) + i = sn + (u + i) /\ i + 1 \in 1 .. n /\ (i + 1) - 1 = i
      BY <1>0
    <3> QED
      BY <1>9, <3>1, <3>2, <3>3 DEF Plus
  <2> QED
    BY <1>0, <2>1, SpanOfSeq, Zenon DEF n
<1>13. G \subseteq H /\ G \cap UsedHeads(r, sn) = {}
  BY DEF RingOk, n
<1>14. UsedHeads(t, sn) = UsedHeads(r, sn) \cup G /\ Distinct(t.uring, sn, NUsed(t, sn))
  <2>1. /\ Span(t.uring, sn, u + n) = Span(t.uring, sn, u) \cup Span(t.uring, Plus(sn, u), n)
        /\ Distinct(t.uring, sn, u + n) <=>
              /\ Distinct(t.uring, sn, u) /\ Distinct(t.uring, Plus(sn, u), n)
              /\ Span(t.uring, sn, u) \cap Span(t.uring, Plus(sn, u), n) = {}
    BY <1>0, SpanSplit, Zenon
  <2>2. UsedHeads(t, sn) = Span(t.uring, sn, u + n)
    BY <1>6, Spans
  <2> QED
    BY <1>6, <1>11, <1>12, <1>13, <2>1, <2>2
<1>15. RingOk(t, sn, O, H \ G, k - n)
  <2>1. NDesc(r) + (k - n) + (u + n) = NDesc(r) + k + u
    BY <1>0
  <2>2. /\ AvailHeads(t) \cap (H \ G) = {} /\ UsedHeads(t, sn) \cap (H \ G) = {}
        /\ AvailHeads(t) \cap UsedHeads(t, sn) = {}
        /\ O = AvailHeads(t) \cup (H \ G) \cup UsedHeads(t, sn)
    BY <1>7, <1>13, <1>14 DEF RingOk
  <2> QED
    BY <1>4, <1>6, <1>7, <1>14, <2>1, <2>2 DEF RingOk, u
<1> QED
  BY <1>4, <1>5, <1>7, <1>8, <1>15 DEF t, n, Elems, RelOk

\* vq_retchains() of the chains taken last, which are still in their slots.
LEMMA RetRing ==
    ASSUME NEW r \in Queue, NEW sn \in Idx, NEW O \in SUBSET Heads, NEW H, NEW k \in Nat,
           RingOk(r, sn, O, H, k), NEW n \in Nat, NEW cs, Last(r, n, cs, H, k)
    PROVE  RetOk(r, n, cs, sn, O, H, k)
<1> USE DEF Last
<1> DEFINE t == RetChains(r, n)
           d == NDesc(r)
           x == Plus(r.last, -n)
           G == {cs[i] : i \in 1 .. n}
<1>0. /\ r.last \in Int /\ r.avail \in Int /\ d \in 0 .. IdxMod - 1 /\ r.last \in Idx
      /\ NUsed(r, sn) \in Nat /\ QSize \in Nat /\ IdxMod \in Nat /\ IdxMod > QSize /\ -n \in Int
  BY QueueFields, Sizes0 DEF Queue
<1>1. d + n <= QSize
  <2>1. d + k + NUsed(r, sn) <= QSize
    BY RingBound
  <2> QED
    BY <1>0, <2>1
<1>2. x \in Idx /\ x \in Int
  <2>1. x \in Idx
    BY <1>0, PlusIdx
  <2> QED
    BY <1>0, <2>1 DEF Idx
<1>3. /\ t \in Queue /\ t.last = x /\ t.avail = r.avail /\ t.ring = r.ring
      /\ t.next = r.next /\ t.used = r.used /\ t.save = r.save /\ t.uring = r.uring
      /\ t.alloc = r.alloc
  BY <1>2 DEF RetChains, Queue
<1>4. NDesc(t) = d + n
  <2>1. ((r.avail - r.last) % IdxMod) - (-n) \in 0 .. IdxMod - 1
    BY <1>0, <1>1 DEF NDesc
  <2>2. (r.avail - Plus(r.last, -n)) % IdxMod = ((r.avail - r.last) % IdxMod) - (-n)
    BY <1>0, <2>1, GapMoves, Zenon
  <2>3. d - (-n) = d + n
    BY <1>0
  <2> QED
    BY <1>3, <2>2, <2>3 DEF NDesc
<1>5. NUsed(t, sn) = NUsed(r, sn) /\ UsedHeads(t, sn) = UsedHeads(r, sn) /\ Batch(t) = Batch(r)
  BY <1>3 DEF NUsed, UsedHeads, Batch
<1>6. Plus(x, n) = r.last
  <2>1. (((r.last + -n) % IdxMod) + n) % IdxMod = ((r.last + -n) + n) % IdxMod
    <3>1. r.last + -n \in Int /\ n \in Int /\ IdxMod > 0
      BY <1>0
    <3> QED
      BY <1>0, <3>1, ModAdd, Zenon
  <2>2. (r.last + -n) + n = r.last
    BY <1>0
  <2>3. r.last % IdxMod = r.last
    BY <1>0, ModSmall DEF Idx
  <2> QED
    BY <2>1, <2>2, <2>3 DEF Plus
<1>7. \A i \in 0 .. n - 1 : r.ring[(x + i) % QSize] = cs[i + 1]
  <2> TAKE i \in 0 .. n - 1
  <2>1. (((r.last + -n) % IdxMod) + i) % QSize = ((r.last + -n) + i) % QSize
    <3>1. r.last + -n \in Int /\ i \in Int
      BY <1>0
    <3> QED
      BY <3>1, SlotOfIdx, Zenon
  <2>2. (r.last + -n) + i = r.last + ((i + 1) - 1 - n) /\ i + 1 \in 1 .. n
    BY <1>0
  <2>3. r.ring[(r.last + ((i + 1) - 1 - n)) % QSize] = cs[i + 1]
    BY <2>2
  <2> QED
    BY <2>1, <2>2, <2>3 DEF Plus
<1> HIDE DEF t, d, x
<1>8. Span(r.ring, x, n) = G /\ Distinct(r.ring, x, n)
  BY <1>7, SpanOfSeq, Zenon
<1>9. AvailHeads(t) = G \cup AvailHeads(r) /\ Distinct(t.ring, t.last, NDesc(t))
  <2>1. d \in Nat /\ n + d = d + n
    BY <1>0
  <2>2. /\ Span(r.ring, x, n + d) = Span(r.ring, x, n) \cup Span(r.ring, Plus(x, n), d)
        /\ Distinct(r.ring, x, n + d) <=>
              /\ Distinct(r.ring, x, n) /\ Distinct(r.ring, Plus(x, n), d)
              /\ Span(r.ring, x, n) \cap Span(r.ring, Plus(x, n), d) = {}
    BY <1>2, <2>1, SpanSplit, Zenon
  <2>3. AvailHeads(r) = Span(r.ring, r.last, d) /\ Distinct(r.ring, r.last, d)
    BY Spans DEF RingOk, d
  <2>4. AvailHeads(t) = Span(r.ring, x, d + n)
    BY <1>3, <1>4, Spans
  <2>5. G \cap AvailHeads(r) = {}
    BY DEF RingOk
  <2> HIDE DEF G
  <2> QED
    BY <1>3, <1>4, <1>6, <1>8, <2>1, <2>2, <2>3, <2>4, <2>5
<1>10. RingOk(t, sn, O, H \ G, k - n)
  <2>1. (d + n) + (k - n) + NUsed(r, sn) = d + k + NUsed(r, sn)
    BY <1>0
  <2>2. G \subseteq H
    OBVIOUS
  <2> HIDE DEF G
  <2>3. /\ AvailHeads(t) \cap (H \ G) = {} /\ UsedHeads(t, sn) \cap (H \ G) = {}
        /\ AvailHeads(t) \cap UsedHeads(t, sn) = {}
        /\ O = AvailHeads(t) \cup (H \ G) \cup UsedHeads(t, sn)
    BY <1>5, <1>9, <2>2 DEF RingOk
  <2> QED
    BY <1>3, <1>4, <1>5, <1>9, <2>1, <2>3 DEF RingOk, d
<1> QED
  BY <1>3, <1>4, <1>5, <1>10 DEF t, d, Elems, RetOk

----------------------------------------------------------------------------
(* Types *)

WithIntr(r, b) == [r EXCEPT !.noIntr = b]

\* The operations on a queue return queues.
LEMMA QueueOps ==
    ASSUME NEW r \in Queue, NEW n \in Int, NEW hs \in Seq(Heads), NEW h \in Heads
    PROVE  /\ Taken(r) \in Queue /\ NextHead(r) \in Heads
           /\ RetChains(r, n) \in Queue /\ RelChains(r, hs) \in Queue
           /\ DriverPost(r, h) \in Queue /\ EndSave(r) \in Queue
           /\ KickEnable(r) \in Queue /\ KickDisable(r) \in Queue /\ ResetQueue(r) \in Queue
           /\ \A b \in BOOLEAN : WithIntr(r, b) \in Queue
<1>0. /\ r.last \in Int /\ r.next \in Int /\ r.avail \in Int /\ 0 \in Idx
      /\ r.ring \in [Heads -> Heads] /\ r.uring \in [Heads -> Heads]
  BY Sizes0 DEF Queue, Idx
<1>1. Plus(r.last, 1) \in Idx /\ Plus(r.avail, 1) \in Idx
  BY <1>0, PlusIdx
<1>2. Plus(r.last, -n) \in Idx /\ Plus(r.next, Len(hs)) \in Idx
  <2>1. -n \in Int /\ Len(hs) \in Int
    OBVIOUS
  <2> QED
    BY <1>0, <2>1, PlusIdx
<1>3. r.last % QSize \in Heads /\ r.avail % QSize \in Heads
  BY <1>0, SlotRange
<1>4. RelChains(r, hs) \in Queue
  <2> DEFINE pos(v) == {i \in 1 .. Len(hs) : (r.next + i - 1) % QSize = v}
             f == [v \in Heads |-> IF pos(v) = {} THEN r.uring[v]
                                   ELSE hs[CHOOSE i \in pos(v) : TRUE]]
  <2>1. \A v \in Heads : pos(v) # {} => hs[CHOOSE i \in pos(v) : TRUE] \in Heads
    <3> TAKE v \in Heads
    <3>1. pos(v) # {} => (CHOOSE i \in pos(v) : TRUE) \in pos(v)
      BY Zenon
    <3>2. \A i \in pos(v) : hs[i] \in Heads
      OBVIOUS
    <3> HIDE DEF pos
    <3> QED
      BY <3>1, <3>2
  <2>2. f \in [Heads -> Heads]
    BY <1>0, <2>1
  <2>3. RelChains(r, hs) = [r EXCEPT !.uring = f, !.next = Plus(r.next, Len(hs)),
                                     !.used = Plus(r.next, Len(hs))]
    BY DEF RelChains
  <2> HIDE DEF f
  <2> QED
    BY <1>2, <2>2, <2>3 DEF Queue
<1>5. /\ Taken(r) \in Queue /\ NextHead(r) \in Heads /\ RetChains(r, n) \in Queue
  BY <1>0, <1>1, <1>2, <1>3 DEF Taken, NextHead, RetChains, Queue
<1>6. DriverPost(r, h) \in Queue
  BY <1>0, <1>1, <1>3 DEF DriverPost, Queue
<1>7. /\ EndSave(r) \in Queue /\ KickEnable(r) \in Queue /\ KickDisable(r) \in Queue
      /\ ResetQueue(r) \in Queue /\ \A b \in BOOLEAN : WithIntr(r, b) \in Queue
  BY <1>0 DEF EndSave, KickEnable, KickDisable, ResetQueue, WithIntr, Queue
<1> QED
  BY <1>4, <1>5, <1>6, <1>7

LEMMA QueueOne ==
    ASSUME NEW r \in Queue
    PROVE  /\ Taken(r) \in Queue /\ NextHead(r) \in Heads
           /\ EndSave(r) \in Queue /\ KickEnable(r) \in Queue /\ KickDisable(r) \in Queue
           /\ ResetQueue(r) \in Queue /\ \A b \in BOOLEAN : WithIntr(r, b) \in Queue
           /\ \A n \in Int : RetChains(r, n) \in Queue
           /\ \A hs \in Seq(Heads) : RelChains(r, hs) \in Queue
           /\ \A h \in Heads : DriverPost(r, h) \in Queue
<1>1. 0 \in Int /\ <<>> \in Seq(Heads) /\ 0 \in Heads
  BY Sizes0 DEF Heads
<1> QED
  BY <1>1, QueueOps, Zenon

LEMMA TypeInit == Init => TypeInv
<1> SUFFICES ASSUME Init PROVE TypeInv
  OBVIOUS
<1>1. 0 \in Heads /\ 0 \in Idx /\ <<>> \in Seq(Heads) /\ <<>> \in Seq(Sizes) /\ Len(<<>>) <= Backlog
  BY Sizes0, NetAssumption DEF Idx, Heads, NetAssumption
<1>2. ResetQueue(NewQueue) \in Queue
  BY <1>1, NewRing DEF ResetQueue, Queue
<1> QED
  BY <1>1, <1>2 DEF Init, TypeInv, TypeOK, Mode, NoThread, CpuPcs, TxPcs, EvPcs

\* What vq holds after a step that changes one queue.
LEMMA OneQueue ==
    ASSUME TypeOK, NEW q \in Queues, NEW r \in Queue
    PROVE  [vq EXCEPT ![q] = r] \in [Queues -> Queue]
BY DEF TypeOK

LEMMA EndChainsType ==
    ASSUME TypeOK, NEW q \in Queues, NEW r \in Queue, NEW all, NEW wants,
           EndChains(q, r, all, wants)
    PROVE  vq' \in [Queues -> Queue] /\ pending' \subseteq Queues
<1>1. EndSave(r) \in Queue
  BY QueueOne
<1> QED
  BY <1>1, OneQueue DEF EndChains, Raised, TypeOK

LEMMA MeventType ==
    ASSUME TypeOK, NEW t, NEW b \in BOOLEAN, MeventUpdate(t, b)
    PROVE  evWant' \in BOOLEAN /\ evCq' \in BOOLEAN /\ evKq' \in BOOLEAN /\ pipe' \in BOOLEAN
BY DEF TypeOK, MeventUpdate, evVars

LEMMA RxFinishType ==
    ASSUME TypeOK, "rx" \in Queues, NEW r \in Queue, NEW all, RxFinish(r, all)
    PROVE  /\ vq' \in [Queues -> Queue] /\ pending' \subseteq Queues
           /\ rxMtx' \in Threads \cup {NoThread} /\ epc' \in EvPcs \ {"recv"}
<1>1. PICK wants : EndChains("rx", r, all, wants) /\ epc' \in {"intr", "build"} /\ rxMtx' \in {rxMtx, NoThread}
  BY DEF RxFinish
<1> QED
  BY <1>1, EndChainsType DEF EvPcs, TypeOK

LEMMA TypeEvent == TypeInv /\ EventStep => TypeInv'
<1> SUFFICES ASSUME TypeInv, EventStep PROVE TypeInv'
  OBVIOUS
<1> USE DEF TypeInv
<1>0. "rx" \in Queues /\ vq["rx"] \in Queue /\ TypeOK
  BY DEF EventStep, TypeOK
<1>1. CASE Build \/ Poll \/ RxLock \/ GetNone
  <2>1. CASE Build
    BY <1>0, <2>1 DEF TypeOK, Build, EvPcs, lockVars, netVars, driverVars
  <2>2. CASE Poll
    <3>1. epc' \in EvPcs \ {"recv"} /\ pipe' \in BOOLEAN
      BY <2>2 DEF Poll, EvPcs
    <3>2. UNCHANGED <<vq, lockVars, netVars, cpc, tpc, txAsleep, txHead, chains, pending,
                      tap, bbuf, evWant, evCq, evKq, driverVars>>
      BY <2>2 DEF Poll
    <3> QED
      BY <1>0, <3>1, <3>2 DEF TypeOK, lockVars, netVars, driverVars
  <2>3. CASE RxLock
    BY <1>0, <2>3 DEF TypeOK, RxLock, EvPcs, Threads, netVars, evVars, driverVars
  <2>4. CASE GetNone
    BY <1>0, <2>4 DEF TypeOK, GetNone, EvPcs, lockVars, netVars, evVars, driverVars
  <2> QED
    BY <1>1, <2>1, <2>2, <2>3, <2>4
<1>2. CASE Peek
  <2>1. tap' \in Seq(Sizes) /\ Len(tap') <= Backlog /\ bbuf' \in Sizes \cup {0}
    <3>1. CASE bbuf # 0
      BY <1>2, <3>1 DEF Peek, TypeOK
    <3>2. CASE bbuf = 0
      <4>1. tap # <<>> /\ bbuf' = Head(tap) /\ tap' = Tail(tap)
        BY <1>2, <3>2 DEF Peek
      <4>2. Head(tap) \in Sizes /\ Tail(tap) \in Seq(Sizes) /\ Len(Tail(tap)) = Len(tap) - 1
        BY <4>1 DEF TypeOK
      <4> QED
        BY <4>1, <4>2, NetAssumption DEF TypeOK, NetAssumption
    <3> QED
      BY <3>1, <3>2
  <2>2. /\ epc' = "get" /\ chains' = <<>>
        /\ UNCHANGED <<vq, lockVars, netVars, cpc, tpc, txAsleep, txHead, pending, evVars,
                       driverVars>>
    BY <1>2 DEF Peek
  <2> QED
    BY <1>0, <2>1, <2>2 DEF TypeOK, EvPcs, lockVars, netVars, evVars, driverVars
<1>3. CASE PeekNone
  BY <1>0, <1>3, RxFinishType DEF TypeOK, PeekNone, netVars, evVars, driverVars
<1>4. CASE GetChain
  <2>1. Taken(vq["rx"]) \in Queue /\ NextHead(vq["rx"]) \in Heads
    BY <1>0, QueueOne
  <2>2. chains' \in Seq(Heads) /\ chains' # <<>>
    BY <1>4, <2>1 DEF GetChain, TypeOK
  <2>3. vq' \in [Queues -> Queue] /\ epc' \in EvPcs
    BY <1>0, <1>4, <2>1, OneQueue DEF GetChain, EvPcs
  <2>4. UNCHANGED <<lockVars, netVars, cpc, tpc, txAsleep, txHead, pending, tap, bbuf,
                    evVars, driverVars>>
    BY <1>4 DEF GetChain
  <2> QED
    BY <1>0, <2>2, <2>3, <2>4 DEF TypeOK, lockVars, netVars, evVars, driverVars
<1>5. CASE RxEnable
  <2>1. KickEnable(vq["rx"]) \in Queue
    BY <1>0, QueueOne
  <2> QED
    BY <1>0, <1>5, <2>1, OneQueue
      DEF TypeOK, RxEnable, EvPcs, lockVars, netVars, evVars, driverVars
<1>6. CASE Check
  <2>0. Len(chains) \in Int
    BY DEF TypeOK
  <2>1. KickDisable(vq["rx"]) \in Queue /\ RetChains(vq["rx"], Len(chains)) \in Queue
    BY <1>0, <2>0, QueueOne
  <2>2. CASE HasDescs(vq["rx"])
    BY <1>0, <1>6, <2>1, <2>2, OneQueue
      DEF TypeOK, Check, EvPcs, lockVars, netVars, evVars, driverVars
  <2>3. CASE ~HasDescs(vq["rx"])
    <3>1. /\ RxFinish(RetChains(vq["rx"], Len(chains)), TRUE) /\ MeventUpdate("ev", FALSE)
          /\ chains' = <<>> /\ FALSE \in BOOLEAN
          /\ UNCHANGED <<vscMtx, txMtx, netVars, cpc, tpc, txAsleep, txHead, tap, bbuf,
                         driverVars>>
      BY <1>6, <2>3 DEF Check
    <3>2. /\ vq' \in [Queues -> Queue] /\ pending' \subseteq Queues
          /\ rxMtx' \in Threads \cup {NoThread} /\ epc' \in EvPcs \ {"recv"}
      BY <1>0, <2>1, <3>1, RxFinishType, Zenon
    <3>3. evWant' \in BOOLEAN /\ evCq' \in BOOLEAN /\ evKq' \in BOOLEAN /\ pipe' \in BOOLEAN
      BY <1>0, <3>1, MeventType, Zenon
    <3> QED
      BY <3>1, <3>2, <3>3 DEF TypeOK, netVars, driverVars
  <2> QED
    BY <2>2, <2>3
<1>7. CASE Recv
  <2>0. Len(chains) \in Int /\ chains \in Seq(Heads)
    BY DEF TypeOK
  <2>1. RelChains(vq["rx"], chains) \in Queue /\ RetChains(vq["rx"], Len(chains)) \in Queue
    BY <1>0, <2>0, QueueOne
  <2> QED
    BY <1>0, <1>7, <2>1, OneQueue
      DEF TypeOK, Recv, EvPcs, lockVars, netVars, evVars, driverVars
<1>8. CASE RxDropChain
  <2>1. chains[1] \in Heads /\ Len(chains) - 1 \in Int /\ <<chains[1]>> \in Seq(Heads)
    BY <1>8 DEF TypeOK, RxDropChain
  <2>2. RelChain(vq["rx"], chains[1]) \in Queue
    BY <1>0, <2>1, QueueOne DEF RelChain
  <2>3. RetChains(RelChain(vq["rx"], chains[1]), Len(chains) - 1) \in Queue
    BY <2>1, <2>2, QueueOne
  <2> QED
    BY <1>0, <1>8, <2>3, OneQueue
      DEF TypeOK, RxDropChain, EvPcs, lockVars, netVars, evVars, driverVars
<1>9. CASE RxIntr
  BY <1>0, <1>9 DEF TypeOK, RxIntr, Raised, EvPcs, netVars, evVars, driverVars
<1> QED
  BY <1>1, <1>2, <1>3, <1>4, <1>5, <1>6, <1>7, <1>8, <1>9 DEF EventStep

LEMMA TypeTx == TypeInv /\ TxStep => TypeInv'
<1> SUFFICES ASSUME TypeInv, TxStep PROVE TypeInv'
  OBVIOUS
<1> USE DEF TypeInv
<1>0. "tx" \in Queues /\ vq["tx"] \in Queue /\ TypeOK
  BY DEF TxStep, TypeOK
<1>1. /\ KickDisable(vq["tx"]) \in Queue /\ KickEnable(vq["tx"]) \in Queue
      /\ Taken(vq["tx"]) \in Queue /\ NextHead(vq["tx"]) \in Heads
  BY <1>0, QueueOne
<1>2. CASE TxLock
  BY <1>0, <1>2 DEF TypeOK, TxLock, TxPcs, Threads, netVars, evVars, driverVars
<1>3. CASE TxLoop
  <2>1. /\ vq' \in [Queues -> Queue] /\ txInProgress' \in BOOLEAN /\ tpc' \in TxPcs
        /\ txMtx' \in Threads \cup {NoThread} /\ txAsleep' = txAsleep
    BY <1>0, <1>1, <1>3, OneQueue DEF TypeOK, TxLoop, TxStart, TxPcs
  <2>2. UNCHANGED <<vscMtx, rxMtx, mode, resetting, cpc, txHead, epc, chains,
                    pending, tap, bbuf, evVars, driverVars>>
    BY <1>3 DEF TxLoop
  <2> QED
    BY <2>1, <2>2 DEF TypeOK, evVars, driverVars
<1>4. CASE TxEnable
  BY <1>0, <1>1, <1>4, OneQueue DEF TypeOK, TxEnable, TxPcs, lockVars, netVars, evVars, driverVars
<1>5. CASE TxRecheck
  BY <1>0, <1>1, <1>5, OneQueue
    DEF TypeOK, TxRecheck, TxStart, TxWait, TxPcs, evVars, driverVars
<1>6. CASE TxTake
  BY <1>0, <1>1, <1>6, OneQueue DEF TypeOK, TxTake, TxPcs, lockVars, netVars, evVars, driverVars
<1>7. CASE TxRelease
  <2>1. PICK h \in Heads : vq' = [vq EXCEPT !["tx"] = RelChain(vq["tx"], h)]
    BY <1>7 DEF TxRelease, TypeOK
  <2>2. <<h>> \in Seq(Heads)
    OBVIOUS
  <2>3. RelChain(vq["tx"], h) \in Queue
    BY <1>0, <2>2, QueueOne DEF RelChain
  <2> QED
    BY <1>0, <1>7, <2>1, <2>3, OneQueue
      DEF TypeOK, TxRelease, TxPcs, lockVars, netVars, evVars, driverVars
<1>8. CASE TxMore
  <2>1. vq' \in [Queues -> Queue] /\ pending' \subseteq Queues
    <3>1. CASE HasDescs(vq["tx"])
      BY <1>8, <3>1 DEF TypeOK, TxMore
    <3>2. CASE ~HasDescs(vq["tx"])
      <4>1. PICK wants \in BOOLEAN : EndChains("tx", vq["tx"], TRUE, wants)
        BY <1>8, <3>2 DEF TxMore
      <4> QED
        BY <1>0, <4>1, EndChainsType, Zenon
    <3> QED
      BY <3>1, <3>2
  <2>2. tpc' \in TxPcs
    BY <1>8 DEF TxMore, TxPcs
  <2>3. UNCHANGED <<lockVars, netVars, cpc, txAsleep, txHead, epc, chains, tap, bbuf,
                    evVars, driverVars>>
    BY <1>8 DEF TxMore
  <2> QED
    BY <2>1, <2>2, <2>3 DEF TypeOK, lockVars, netVars, evVars, driverVars
<1>9. CASE TxIntr
  BY <1>0, <1>9 DEF TypeOK, TxIntr, Raised, TxPcs, lockVars, netVars, evVars, driverVars
<1> QED
  BY <1>2, <1>3, <1>4, <1>5, <1>6, <1>7, <1>8, <1>9 DEF TxStep

LEMMA TypeVcpu == TypeInv /\ (VcpuStep \/ Reset \/ Setup \/ Arrive) => TypeInv'
<1> SUFFICES ASSUME TypeInv, VcpuStep \/ Reset \/ Setup \/ Arrive PROVE TypeInv'
  OBVIOUS
<1> USE DEF TypeInv
<1>0. \A q \in Queues : /\ vq[q] \in Queue /\ KickDisable(vq[q]) \in Queue
                        /\ ResetQueue(vq[q]) \in Queue
  BY QueueOne DEF TypeOK
<1>1. CASE "tx" \in Queues /\ QNotifyTx
  BY <1>1 DEF TypeOK, QNotifyTx, CpuPcs, Threads, netVars, evVars
<1>2. CASE "tx" \in Queues /\ PingTx
  BY <1>0, <1>2, OneQueue DEF TypeOK, PingTx, CpuPcs, Threads, netVars, evVars, driverVars
<1>3. CASE "rx" \in Queues /\ QNotifyRx
  BY <1>3 DEF TypeOK, QNotifyRx, CpuPcs, Threads, netVars, evVars
<1>4. CASE "rx" \in Queues /\ PingRx
  BY <1>0, <1>4, OneQueue, MeventType
    DEF TypeOK, PingRx, CpuPcs, Threads, netVars, driverVars
<1>5. CASE ResetRx
  BY <1>5, MeventType DEF TypeOK, ResetRx, CpuPcs, Threads, netVars, driverVars
<1>6. CASE ResetTx
  BY <1>6 DEF TypeOK, ResetTx, CpuPcs, lockVars, evVars, driverVars
<1>7. CASE ResetSpin
  <2>1. 0 \in Idx
    BY Sizes0 DEF Idx
  <2>2. [mode EXCEPT !.onEmpty = FALSE] \in Mode
    BY DEF TypeOK, Mode
  <2> QED
    BY <1>0, <1>7, <2>1, <2>2 DEF TypeOK, ResetSpin, ResetDev, CpuPcs, evVars
<1>8. CASE ResetSleep
  BY <1>8 DEF TypeOK, ResetSleep, CpuPcs, lockVars, netVars, evVars, driverVars
<1>9. CASE Reset
  <2>1. UNCHANGED <<vq, rxMtx, txMtx, netVars, tpc, txAsleep, txHead, epc, chains, pending,
                    tap, bbuf, evVars, owned, seen, drv>>
    BY <1>9 DEF Reset
  <2>2. vscMtx' \in Threads /\ cpc' \in CpuPcs /\ up' = FALSE /\ posted' = {} /\ kick' = {}
    BY <1>9 DEF Reset, CpuPcs, Threads
  <2> QED
    BY <2>1, <2>2 DEF TypeOK, netVars, evVars
<1>10. CASE Setup
  BY <1>10, NewRing, NetAssumption DEF TypeOK, Setup, NetAssumption, lockVars, evVars
<1>11. CASE Arrive
  BY <1>11, NetAssumption DEF TypeOK, Arrive, NetAssumption, lockVars, netVars, evVars, driverVars
<1> QED
  BY <1>1, <1>2, <1>3, <1>4, <1>5, <1>6, <1>7, <1>8, <1>9, <1>10, <1>11 DEF VcpuStep

LEMMA TypeDriver == ASSUME NEW q \in Queues, TypeInv, Post(q) \/ DriverStep(q) PROVE TypeInv'
<1> USE DEF TypeInv
<1>0. \A p \in Queues : /\ vq[p] \in Queue
                        /\ \A b \in BOOLEAN : WithIntr(vq[p], b) \in Queue
                        /\ \A h \in Heads : DriverPost(vq[p], h) \in Queue
  BY QueueOne DEF TypeOK
<1>1. CASE Post(q)
  <2>1. PICK h \in Heads : /\ vq' = [vq EXCEPT ![q] = DriverPost(vq[q], h)]
                           /\ owned' = [owned EXCEPT ![q] = @ \cup {h}]
    BY <1>1 DEF Post
  <2>2. DriverPost(vq[q], h) \in Queue
    BY <1>0
  <2>3. vq' \in [Queues -> Queue] /\ owned' \in [Queues -> SUBSET Heads]
    BY <2>1, <2>2, OneQueue DEF TypeOK
  <2> QED
    BY <1>1, <2>3 DEF TypeOK, Post, lockVars, netVars, evVars
<1>2. CASE PostDone(q)
  BY <1>2 DEF TypeOK, PostDone, lockVars, netVars, evVars
<1>3. CASE Interrupt(q)
  <2>1. vq' \in [Queues -> Queue] /\ drv' \in [Queues -> {"idle", "polling", "recheck"}]
    <3>1. PICK W : /\ drv' = [p \in Queues |-> IF p \in W THEN "polling" ELSE drv[p]]
                   /\ vq' = [p \in Queues |-> [vq[p] EXCEPT !.noIntr = @ \/ p \in W]]
      BY <1>3 DEF Interrupt
    <3>2. ASSUME NEW p \in Queues PROVE [vq[p] EXCEPT !.noIntr = @ \/ p \in W] \in Queue
      <4>1. (vq[p].noIntr \/ p \in W) \in BOOLEAN
        OBVIOUS
      <4>2. [vq[p] EXCEPT !.noIntr = @ \/ p \in W] = WithIntr(vq[p], vq[p].noIntr \/ p \in W)
        BY DEF WithIntr
      <4> QED
        BY <1>0, <4>1, <4>2
    <3> QED
      BY <3>1, <3>2 DEF TypeOK
  <2> QED
    BY <1>3, <2>1 DEF TypeOK, Interrupt, lockVars, netVars, evVars
<1>4. CASE Reap(q)
  <2>1. vq' = [vq EXCEPT ![q] = WithIntr(vq[q], FALSE)] /\ vq[q].used \in Idx
    BY <1>0, <1>4 DEF Reap, Queue, TypeOK, WithIntr
  <2>2. vq' \in [Queues -> Queue]
    BY <1>0, <2>1, OneQueue
  <2> QED
    BY <1>4, <2>1, <2>2 DEF TypeOK, Reap, lockVars, netVars, evVars
<1>5. CASE Recheck(q)
  <2>1. \E b \in BOOLEAN : vq' = [vq EXCEPT ![q] = WithIntr(vq[q], b)]
    BY <1>0, <1>5 DEF Recheck, TypeOK, WithIntr
  <2>2. vq' \in [Queues -> Queue]
    BY <1>0, <2>1, OneQueue
  <2>3. drv' \in [Queues -> {"idle", "polling", "recheck"}]
    BY <1>5 DEF Recheck, TypeOK
  <2> QED
    BY <1>5, <2>2, <2>3 DEF TypeOK, Recheck, lockVars, netVars, evVars
<1> QED
  BY <1>1, <1>2, <1>3, <1>4, <1>5 DEF DriverStep

LEMMA TypeNext == TypeInv /\ [Next]_vars => TypeInv'
<1>1. TypeInv /\ UNCHANGED vars => TypeInv'
  BY DEF TypeInv, TypeOK, vars, lockVars, netVars, evVars, driverVars
<1> QED
  BY <1>1, TypeEvent, TypeTx, TypeVcpu, TypeDriver DEF Next

\* Every variable keeps its type, in every mode and across resets: ring
\* indices stay 16-bit values through vq_getchain(), vq_retchains() and
\* vq_relchain(), ring slots hold descriptor heads, the tap stays bounded.
THEOREM NetTypeCorrect == Spec => []TypeOK
<1>1. TypeInv => TypeOK
  BY DEF TypeInv
<1> QED
  BY <1>1, TypeInit, TypeNext, PTL DEF Spec

----------------------------------------------------------------------------
(* Control *)

\* Only vi_vq_init() and vi_reset_dev() write VQ_ALLOC.
AllocSame == \A q \in Queues : vq'[q].alloc = vq[q].alloc

LEMMA OpsKeepAlloc ==
    ASSUME NEW r \in Queue
    PROVE  /\ Taken(r).alloc = r.alloc /\ EndSave(r).alloc = r.alloc
           /\ KickEnable(r).alloc = r.alloc /\ KickDisable(r).alloc = r.alloc
           /\ \A n : RetChains(r, n).alloc = r.alloc
           /\ \A hs : RelChains(r, hs).alloc = r.alloc
           /\ \A h : DriverPost(r, h).alloc = r.alloc
           /\ \A b : WithIntr(r, b).alloc = r.alloc
BY DEF Queue, Taken, EndSave, KickEnable, KickDisable, RetChains, RelChains, DriverPost, WithIntr

LEMMA OneAlloc ==
    ASSUME TypeOK, NEW q \in Queues, NEW r, r.alloc = vq[q].alloc, vq' = [vq EXCEPT ![q] = r]
    PROVE  AllocSame
BY DEF TypeOK, AllocSame

LEMMA RxFinishEnds ==
    ASSUME NEW r, NEW all, RxFinish(r, all)
    PROVE  /\ vq' = [vq EXCEPT !["rx"] = EndSave(r)]
           /\ \/ epc' = "intr" /\ rxMtx' = rxMtx
              \/ epc' = "build" /\ rxMtx' = NoThread
BY DEF RxFinish, EndChains

LEMMA EventAlloc == TypeInv /\ EventStep => AllocSame
<1> SUFFICES ASSUME TypeInv, EventStep PROVE AllocSame
  OBVIOUS
<1> DEFINE r == vq["rx"]
<1>0. "rx" \in Queues /\ r \in Queue /\ TypeOK
  BY DEF EventStep, TypeOK, TypeInv
<1>1. CASE UNCHANGED vq
  BY <1>1 DEF AllocSame
<1>2. CASE \E n : RxFinish(RetChains(r, n), TRUE)
  <2>1. PICK n : vq' = [vq EXCEPT !["rx"] = EndSave(RetChains(r, n))]
    BY <1>2, RxFinishEnds, Zenon
  <2>2. EndSave(RetChains(r, n)).alloc = r.alloc
    BY <1>0 DEF EndSave, RetChains, Queue
  <2> QED
    BY <1>0, <2>1, <2>2, OneAlloc
<1>3. CASE \E t : vq' = [vq EXCEPT !["rx"] = t] /\ t.alloc = r.alloc
  BY <1>0, <1>3, OneAlloc
<1>4. CASE PeekNone
  <2>1. vq' = [vq EXCEPT !["rx"] = EndSave(r)]
    BY <1>4, RxFinishEnds DEF PeekNone
  <2> QED
    BY <1>0, <1>3, <2>1, OpsKeepAlloc
<1>5. CASE Recv
  <2>1. \/ vq' = [vq EXCEPT !["rx"] = RetChains(r, Len(chains))]
        \/ vq' = [vq EXCEPT !["rx"] = RelChains(r, chains)]
    BY <1>0, <1>5 DEF Recv, TypeOK
  <2> QED
    BY <1>0, <1>3, <2>1, OpsKeepAlloc
<1>6. CASE RxDropChain
  <2>1. RetChains(RelChain(r, chains[1]), Len(chains) - 1).alloc = r.alloc
    BY <1>0 DEF RetChains, RelChain, RelChains, Queue
  <2> QED
    BY <1>0, <1>3, <1>6, <2>1 DEF RxDropChain
<1>7. CASE GetChain \/ RxEnable
  BY <1>0, <1>3, <1>7, OpsKeepAlloc DEF GetChain, RxEnable
<1>8. CASE Check
  BY <1>0, <1>2, <1>3, <1>8, OpsKeepAlloc DEF Check
<1>9. CASE Build \/ Poll \/ RxLock \/ Peek \/ GetNone \/ RxIntr
  BY <1>1, <1>9 DEF Build, Poll, RxLock, Peek, GetNone, RxIntr
<1> QED
  BY <1>4, <1>5, <1>6, <1>7, <1>8, <1>9 DEF EventStep

LEMMA EventFrame ==
    EventStep => UNCHANGED <<vscMtx, txMtx, netVars, cpc, tpc, txAsleep, txHead, driverVars>>
BY DEF EventStep, Build, Poll, RxLock, Peek, PeekNone, GetChain, GetNone, RxEnable, Check, Recv,
       RxDropChain, RxIntr, lockVars

LEMMA RxCtlEvent == ASSUME TypeInv, RxControl, EventStep PROVE RxControl'
<1>0. TypeOK
  BY DEF TypeInv
<1>1. UNCHANGED <<mode, up>>
  BY EventFrame DEF netVars, driverVars
<1>4. bbuf \in Nat /\ Len(chains) \in Nat /\ (chains = <<>> <=> Len(chains) = 0) /\ chains \in Seq(Heads)
  BY <1>0, NetAssumption DEF TypeOK, NetAssumption
<1> USE DEF RxControl, Work
<1>5. CASE Build
  <2>1. epc = "build" /\ epc' = "poll" /\ UNCHANGED <<rxMtx, evWant, chains, bbuf>>
    BY <1>5 DEF Build, lockVars
  <2>2. (evKq' => evWant \/ (~evCq /\ evKq)) /\ evCq' = FALSE
    BY <1>5 DEF Build
  <2> QED
    BY <1>1, <2>1, <2>2
<1>6. CASE Poll
  <2>1. epc = "poll" /\ epc' \in {"rxlock", "build"} /\ (epc' = "rxlock" => evKq)
    BY <1>6 DEF Poll
  <2>2. UNCHANGED <<rxMtx, evWant, evKq, evCq, chains, bbuf>>
    BY <1>6 DEF Poll, lockVars
  <2> QED
    BY <1>1, <2>1, <2>2
<1>7. CASE RxLock
  BY <1>0, <1>1, <1>7 DEF RxLock, evVars
<1>8. CASE Peek
  <2>1. bbuf' \in Nat \ {0}
    <3>1. CASE bbuf # 0
      BY <1>4, <1>8, <3>1 DEF Peek
    <3>2. CASE bbuf = 0
      <4>1. tap # <<>> /\ bbuf' = Head(tap)
        BY <1>8, <3>2 DEF Peek
      <4>2. Head(tap) \in Sizes
        BY <1>0, <4>1 DEF TypeOK
      <4> QED
        BY <4>1, <4>2, NetAssumption DEF NetAssumption
    <3> QED
      BY <3>1, <3>2
  <2>2. Len(<<>>) = 0
    OBVIOUS
  <2> QED
    BY <1>0, <1>1, <1>8, <2>1, <2>2 DEF Peek, lockVars, evVars
<1>9. CASE PeekNone
  <2>1. \/ epc' = "intr" /\ rxMtx' = rxMtx
        \/ epc' = "build" /\ rxMtx' = NoThread
    BY <1>9, RxFinishEnds DEF PeekNone
  <2> QED
    BY <1>0, <1>1, <1>9, <2>1 DEF PeekNone, evVars, NoThread
<1>10. CASE GetChain
  <2>1. chains' # <<>> /\ Len(chains') = Len(chains) + 1
    BY <1>4, <1>10 DEF GetChain
  <2> QED
    BY <1>0, <1>1, <1>4, <1>10, <2>1 DEF GetChain, lockVars, evVars
<1>11. CASE GetNone \/ RxEnable
  BY <1>0, <1>1, <1>11 DEF GetNone, RxEnable, lockVars, evVars
<1>12. CASE Check
  <2>1. CASE HasDescs(vq["rx"])
    BY <1>0, <1>1, <1>12, <2>1 DEF Check, evVars
  <2>2. CASE ~HasDescs(vq["rx"])
    <3>1. \/ epc' = "intr" /\ rxMtx' = rxMtx
          \/ epc' = "build" /\ rxMtx' = NoThread
      BY <1>12, <2>2, RxFinishEnds DEF Check
    <3>2. chains' = <<>> /\ epc = "check"
      BY <1>12, <2>2 DEF Check
    <3>3. evWant
      BY <3>2
    <3>4. evCq' /\ ~evWant'
      BY <1>12, <2>2, <3>3 DEF Check, MeventUpdate
    <3> QED
      BY <1>1, <3>1, <3>2, <3>4 DEF NoThread
  <2> QED
    BY <2>1, <2>2
<1>13. CASE Recv \/ RxDropChain
  BY <1>0, <1>1, <1>13 DEF Recv, RxDropChain, lockVars, evVars
<1>14. CASE RxIntr
  BY <1>0, <1>1, <1>14 DEF RxIntr, evVars, NoThread
<1> QED
  BY <1>5, <1>6, <1>7, <1>8, <1>9, <1>10, <1>11, <1>12, <1>13, <1>14 DEF EventStep

LEMMA CtlEvent == ASSUME TypeInv, Control, EventStep PROVE Control'
<1>0. "rx" \in Queues /\ RxControl /\ UpControl
  BY DEF EventStep, Control
<1>1. UNCHANGED <<vscMtx, txMtx, netVars, cpc, tpc, txAsleep, txHead, driverVars>>
  BY EventFrame
<1>2. UpControl'
  BY <1>0, <1>1, EventAlloc DEF UpControl, AllocSame, netVars, driverVars
<1>3. "tx" \in Queues => TxControl'
  BY <1>1 DEF Control, TxControl, netVars
<1> QED
  BY <1>0, <1>1, <1>2, <1>3, RxCtlEvent DEF Control

LEMMA TxFrame ==
    TxStep => UNCHANGED <<vscMtx, rxMtx, mode, resetting, cpc, epc, chains, tap, bbuf, evVars,
                          driverVars>>
BY DEF TxStep, TxLock, TxLoop, TxEnable, TxRecheck, TxTake, TxRelease, TxMore, TxIntr, lockVars,
       netVars

LEMMA TxAlloc == TypeOK /\ TxStep => AllocSame
<1> SUFFICES ASSUME TypeOK, TxStep PROVE AllocSame
  OBVIOUS
<1> DEFINE r == vq["tx"]
<1>0. "tx" \in Queues /\ r \in Queue
  BY DEF TxStep, TypeOK
<1>1. CASE UNCHANGED vq
  BY <1>1 DEF AllocSame
<1>2. CASE \E t : vq' = [vq EXCEPT !["tx"] = t] /\ t.alloc = r.alloc
  BY <1>0, <1>2, OneAlloc
<1>3. CASE TxLock \/ TxIntr
  BY <1>1, <1>3 DEF TxLock, TxIntr
<1>4. CASE TxLoop \/ TxRecheck
  <2>1. UNCHANGED vq \/ vq' = [vq EXCEPT !["tx"] = KickDisable(r)]
    BY <1>4 DEF TxLoop, TxRecheck, TxStart, TxWait
  <2> QED
    BY <1>0, <1>1, <1>2, <2>1, OpsKeepAlloc
<1>5. CASE TxEnable \/ TxTake
  BY <1>0, <1>2, <1>5, OpsKeepAlloc DEF TxEnable, TxTake
<1>6. CASE TxRelease
  <2>1. PICK h : vq' = [vq EXCEPT !["tx"] = RelChains(r, <<h>>)]
    BY <1>6 DEF TxRelease, RelChain
  <2>2. RelChains(r, <<h>>).alloc = r.alloc
    BY <1>0, OpsKeepAlloc
  <2> QED
    BY <1>2, <2>1, <2>2
<1>7. CASE TxMore
  BY <1>0, <1>1, <1>2, <1>7, OpsKeepAlloc DEF TxMore, EndChains
<1> QED
  BY <1>3, <1>4, <1>5, <1>6, <1>7 DEF TxStep

LEMMA TxCtlTx == ASSUME TypeOK, TxControl, TxStep PROVE TxControl'
<1> USE DEF TxControl
<1>1. CASE TxLock
  BY <1>1 DEF TxLock, netVars
<1>2. CASE TxLoop
  BY <1>2 DEF TxLoop, TxStart, NoThread
<1>3. CASE TxEnable
  BY <1>3 DEF TxEnable, netVars, lockVars
<1>4. CASE TxRecheck
  BY <1>4 DEF TxRecheck, TxStart, TxWait, NoThread
<1>5. CASE TxTake
  <2>1. NextHead(vq["tx"]) \in Heads
    BY QueueOne DEF TypeOK, TxStep
  <2> QED
    BY <1>5, <2>1 DEF TxTake, netVars, lockVars
<1>6. CASE TxRelease
  BY <1>6 DEF TxRelease, netVars, lockVars
<1>7. CASE TxMore
  BY <1>7 DEF TxMore, netVars, lockVars
<1>8. CASE TxIntr
  BY <1>8 DEF TxIntr, netVars, lockVars
<1> QED
  BY <1>1, <1>2, <1>3, <1>4, <1>5, <1>6, <1>7, <1>8 DEF TxStep

LEMMA CtlTx == ASSUME TypeOK, Control, TxStep PROVE Control'
<1>0. "tx" \in Queues /\ TxControl /\ UpControl
  BY DEF TxStep, Control
<1>1. UNCHANGED <<vscMtx, rxMtx, mode, resetting, cpc, epc, chains, tap, bbuf, evVars, driverVars>>
  BY TxFrame
<1>2. ~up /\ cpc = "run" => tpc' \in {"wait", "loop", "enable", "recheck"}
  <2> SUFFICES ASSUME ~up, cpc = "run" PROVE tpc' \in {"wait", "loop", "enable", "recheck"}
    OBVIOUS
  <2>1. ~HasDescs(vq["tx"]) /\ tpc \in {"wait", "loop", "enable", "recheck"}
    BY <1>0 DEF UpControl, HasDescs
  <2> QED
    BY <2>1 DEF TxStep, TxLock, TxLoop, TxStart, TxEnable, TxRecheck, TxWait, TxTake, TxRelease,
                TxMore, TxIntr
<1>3. UpControl'
  BY <1>0, <1>1, <1>2, TxAlloc DEF UpControl, AllocSame, driverVars
<1>4. "rx" \in Queues => RxControl'
  BY <1>1 DEF Control, RxControl, evVars, driverVars
<1> QED
  BY <1>0, <1>1, <1>3, <1>4, TxCtlTx DEF Control

\* Steps of the vcpu thread and the driver: those that start or end the use
\* of the rings, and the others.
LEMMA CtlLife ==
    ASSUME NoRxReset, TypeOK, Control, Reset \/ ResetRx \/ ResetTx \/ ResetSpin \/ ResetSleep \/ Setup
    PROVE  Control'
<1>0. UpControl
  BY DEF Control
<1>1. CASE Setup
  <2>1. UpControl'
    BY <1>0, <1>1 DEF Setup, UpControl, NewQueue
  <2>2. "tx" \in Queues => TxControl'
    BY <1>1 DEF Control, Setup, TxControl, lockVars
  <2>3. "rx" \in Queues => RxControl'
    BY <1>1 DEF Control, Setup, RxControl, Work, lockVars, evVars
  <2> QED
    BY <1>1, <2>1, <2>2, <2>3 DEF Control, Setup
<1>2. SUFFICES ASSUME "rx" \notin Queues, ~Setup PROVE Control'
  BY <1>0, <1>1 DEF NoRxReset, Reset, ResetRx, ResetTx, ResetSpin, ResetSleep, UpControl
<1>3. /\ chains' = chains /\ txHead' = txHead /\ tpc' = tpc /\ txMtx' = txMtx
      /\ txAsleep' = txAsleep /\ txInProgress' = txInProgress
  BY <1>2 DEF Reset, ResetRx, ResetTx, ResetSpin, ResetDev, ResetSleep, Setup, netVars, lockVars
<1>4. "tx" \in Queues => TxControl'
  BY <1>3 DEF Control, TxControl
<1>5. UpControl'
  <2>1. CASE Reset
    BY <1>0, <1>2, <2>1 DEF Reset, UpControl, netVars
  <2>2. CASE ResetRx
    BY <1>0, <1>2, <2>2 DEF ResetRx, UpControl, netVars, driverVars
  <2>3. CASE ResetTx
    BY <1>0, <1>2, <2>3 DEF ResetTx, UpControl, driverVars
  <2>4. CASE ResetSleep
    BY <1>0, <1>2, <2>4 DEF ResetSleep, UpControl, netVars, driverVars
  <2>5. CASE ResetSpin
    <3>1. ~up /\ ~up' /\ posted' = posted /\ kick' = kick /\ cpc' = "run" /\ ~resetting'
      BY <1>0, <2>5 DEF ResetSpin, ResetDev, UpControl
    <3>2. \A q \in Queues : /\ ~vq'[q].alloc /\ owned'[q] = {} /\ seen'[q] = 0
                            /\ drv'[q] = "idle"
      BY <2>5 DEF ResetSpin, ResetDev, ResetQueue, TypeOK, Queue
    <3>3. tpc' \in {"wait", "loop", "enable", "recheck"}
      <4>1. CASE "tx" \in Queues
        BY <2>5, <4>1, <1>3 DEF ResetSpin, Control, TxControl, TypeOK, TxPcs
      <4>2. CASE "tx" \notin Queues
        BY <4>2, <1>3 DEF Control
      <4> QED
        BY <4>1, <4>2
    <3> QED
      BY <1>0, <3>1, <3>2, <3>3 DEF UpControl
  <2> QED
    BY <1>2, <2>1, <2>2, <2>3, <2>4, <2>5
<1> QED
  BY <1>2, <1>3, <1>4, <1>5 DEF Control

LEMMA CtlVcpu ==
    ASSUME TypeOK, Control,
           \/ "tx" \in Queues /\ (QNotifyTx \/ PingTx)
           \/ "rx" \in Queues /\ (QNotifyRx \/ PingRx)
           \/ Arrive
    PROVE  Control'
<1>0. UpControl
  BY DEF Control
<1>1. CASE "tx" \in Queues /\ QNotifyTx
  BY <1>0, <1>1 DEF QNotifyTx, Control, TxControl, RxControl, UpControl, netVars, evVars
<1>2. CASE "rx" \in Queues /\ QNotifyRx
  BY <1>0, <1>2 DEF QNotifyRx, Control, TxControl, RxControl, UpControl, netVars, evVars
<1>3. CASE Arrive
  BY <1>0, <1>3 DEF Arrive, Control, TxControl, RxControl, UpControl, netVars, evVars, lockVars,
                    driverVars
<1>4. CASE "tx" \in Queues /\ PingTx
  <2>1. vq["tx"] \in Queue /\ KickDisable(vq["tx"]).alloc = vq["tx"].alloc
    BY <1>4, OpsKeepAlloc DEF TypeOK
  <2>2. AllocSame
    BY <1>4, <2>1, OneAlloc DEF PingTx
  <2>3. UpControl'
    BY <1>0, <1>4, <2>2 DEF PingTx, UpControl, AllocSame, netVars, driverVars
  <2>4. TxControl'
    BY <1>4 DEF PingTx, Control, TxControl, netVars
  <2>5. "rx" \in Queues => RxControl'
    BY <1>4 DEF PingTx, Control, RxControl, netVars, evVars, driverVars
  <2> QED
    BY <1>4, <2>3, <2>4, <2>5 DEF PingTx, Control
<1>5. CASE "rx" \in Queues /\ PingRx
  <2>1. vq["rx"] \in Queue /\ KickDisable(vq["rx"]).alloc = vq["rx"].alloc
    BY <1>5, OpsKeepAlloc DEF TypeOK
  <2>2. AllocSame
    BY <1>5, <2>1, OneAlloc DEF PingRx
  <2>3. UpControl'
    BY <1>0, <1>5, <2>2 DEF PingRx, UpControl, AllocSame, netVars, driverVars
  <2>4. "tx" \in Queues => TxControl'
    BY <1>5 DEF PingRx, Control, TxControl, netVars
  <2>5. evWant' /\ up /\ up'
    BY <1>0, <1>5 DEF PingRx, MeventUpdate, UpControl, driverVars, evVars
  <2>6. UNCHANGED <<rxMtx, epc, chains, bbuf, mode>>
    BY <1>5 DEF PingRx, netVars
  <2>7. RxControl'
    BY <1>5, <2>5, <2>6 DEF Control, RxControl
  <2> QED
    BY <1>5, <2>3, <2>4, <2>7 DEF PingRx, Control
<1> QED
  BY <1>1, <1>2, <1>3, <1>4, <1>5

LEMMA DriverAlloc == ASSUME NEW q \in Queues, TypeOK, Post(q) \/ DriverStep(q) PROVE AllocSame
<1>0. \A p \in Queues : vq[p] \in Queue
  BY DEF TypeOK
<1>1. CASE UNCHANGED vq
  BY <1>1 DEF AllocSame
<1>2. CASE Post(q)
  BY <1>0, <1>2, OpsKeepAlloc, OneAlloc DEF Post
<1>3. CASE Interrupt(q)
  BY <1>0, <1>3 DEF Interrupt, AllocSame, Queue
<1>4. CASE Reap(q)
  BY <1>0, <1>4 DEF Reap, AllocSame, Queue, TypeOK
<1>5. CASE Recheck(q)
  BY <1>0, <1>5 DEF Recheck, AllocSame, Queue, TypeOK
<1> QED
  BY <1>1, <1>2, <1>3, <1>4, <1>5 DEF DriverStep, PostDone

LEMMA DriverFrame ==
    ASSUME NEW q, Post(q) \/ DriverStep(q)
    PROVE  UNCHANGED <<lockVars, netVars, cpc, tpc, txAsleep, txHead, epc, chains, tap, bbuf,
                       evVars, up>>
BY DEF Post, DriverStep, PostDone, Interrupt, Reap, Recheck

LEMMA CtlDriver ==
    ASSUME NEW q \in Queues, TypeOK, Control, Post(q) \/ DriverStep(q)
    PROVE  Control'
<1>0. UpControl
  BY DEF Control
<1>1. UNCHANGED <<lockVars, netVars, cpc, tpc, txAsleep, txHead, epc, chains, tap, bbuf, evVars, up>>
  BY DriverFrame
<1>2. up
  BY <1>0 DEF Post, DriverStep, PostDone, Interrupt, Reap, Recheck, UpControl
<1>3. UpControl'
  BY <1>0, <1>1, <1>2, DriverAlloc DEF UpControl, AllocSame, netVars
<1>4. "tx" \in Queues => TxControl'
  BY <1>1 DEF Control, TxControl, netVars, lockVars
<1>5. "rx" \in Queues => RxControl'
  BY <1>1 DEF Control, RxControl, netVars, lockVars, evVars
<1> QED
  BY <1>1, <1>3, <1>4, <1>5 DEF Control

LEMMA CtlNext == ASSUME NoRxReset, TypeInv, Control, [Next]_vars PROVE Control'
<1>0. TypeOK
  BY DEF TypeInv
<1>1. CASE UNCHANGED vars
  BY <1>1 DEF Control, TxControl, RxControl, UpControl, vars, lockVars, netVars, evVars, driverVars
<1> QED
  BY <1>0, <1>1, CtlEvent, CtlTx, CtlLife, CtlVcpu, CtlDriver DEF Next, VcpuStep

LEMMA CtlInit == Init => Control
<1> SUFFICES ASSUME Init PROVE Control
  OBVIOUS
<1>1. \A q \in Queues : ~vq[q].alloc
  BY DEF Init, ResetQueue, NewQueue
<1> QED
  BY <1>1 DEF Init, Control, TxControl, RxControl, UpControl, Work, NoThread

----------------------------------------------------------------------------
(* The rings *)

SameRing(a, b) ==
    /\ a.alloc = b.alloc /\ a.last = b.last /\ a.next = b.next /\ a.avail = b.avail
    /\ a.used = b.used /\ a.ring = b.ring /\ a.uring = b.uring

LEMMA OpsSame ==
    ASSUME NEW r \in Queue
    PROVE  /\ SameRing(EndSave(r), r) /\ SameRing(KickEnable(r), r)
           /\ SameRing(KickDisable(r), r) /\ \A b : SameRing(WithIntr(r, b), r)
           /\ SameRing(r, r)
BY DEF SameRing, EndSave, KickEnable, KickDisable, WithIntr, Queue

LEMMA OneSame ==
    ASSUME TypeOK, NEW q \in Queues, NEW t, SameRing(t, vq[q]), vq' = [vq EXCEPT ![q] = t]
    PROVE  \A p \in Queues : SameRing(vq'[p], vq[p])
BY DEF TypeOK, SameRing

\* Two indices differ if and only if their 16-bit difference is not 0.
LEMMA GapZero ==
    ASSUME NEW x \in Idx, NEW y \in Idx
    PROVE  (x # y) <=> (y - x) % IdxMod > 0
<1> DEFINE d == (y - x) \div IdxMod
           c == (y - x) % IdxMod
<1>1. x \in 0 .. IdxMod - 1 /\ y \in 0 .. IdxMod - 1 /\ IdxMod \in Nat /\ IdxMod > 0
  BY Sizes0 DEF Idx
<1>2. y - x \in Int
  BY <1>1
<1>3. c \in 0 .. IdxMod - 1 /\ d \in Int /\ y - x = IdxMod * d + c
  BY <1>1, <1>2, ModRange
<1>4. x = y => c = 0
  <2> SUFFICES ASSUME x = y PROVE c = 0
    OBVIOUS
  <2>1. y - x = 0 /\ 0 \in 0 .. IdxMod - 1
    BY <1>1
  <2>2. 0 % IdxMod = 0
    BY <1>1, <2>1, ModSmall
  <2> QED
    BY <2>1, <2>2
<1> HIDE DEF c, d
<1>5. c = 0 => x = y
  <2> SUFFICES ASSUME c = 0 PROVE x = y
    OBVIOUS
  <2>1. y - x = IdxMod * d
    BY <1>1, <1>3
  <2>2. d < 1 /\ d > -1
    BY <1>1, <1>3, <2>1
  <2> QED
    BY <1>1, <1>3, <2>1, <2>2
<1>6. c > 0 <=> c # 0
  BY <1>1, <1>3
<1> QED
  BY <1>4, <1>5, <1>6 DEF c

\* Chains are available if and only if vq_has_descs() says so; entries have
\* been used since vq_endchains() if and only if the batch is not empty.
LEMMA HasNDesc ==
    ASSUME NEW r \in Queue
    PROVE  ((r.last # r.avail) <=> NDesc(r) > 0) /\ ((r.save # r.used) <=> Batch(r) > 0)
<1>1. r.last \in Idx /\ r.avail \in Idx /\ r.save \in Idx /\ r.used \in Idx
  BY DEF Queue
<1>2. r.used + -r.save = r.used - r.save
  BY <1>1, Sizes0 DEF Idx
<1>3. (r.last # r.avail) <=> (r.avail - r.last) % IdxMod > 0
  BY <1>1, GapZero
<1>4. (r.save # r.used) <=> (r.used - r.save) % IdxMod > 0
  BY <1>1, GapZero
<1> QED
  BY <1>2, <1>3, <1>4 DEF NDesc, Batch, Plus

LEMMA CountNat ==
    ASSUME NEW r \in Queue
    PROVE  NDesc(r) \in Nat /\ Batch(r) \in Nat
<1>1. 0 \in Idx /\ IdxMod \in Nat
  BY Sizes0 DEF Idx
<1>2. NDesc(r) \in 0 .. IdxMod - 1 /\ Batch(r) \in 0 .. IdxMod - 1
  BY <1>1, QueueFields
<1> QED
  BY <1>2

LEMMA HeldNat == TypeOK => \A q : Held(q) \in Nat
BY DEF TypeOK, Held

LEMMA TypesOf ==
    ASSUME TypeOK, NEW q \in Queues
    PROVE  /\ vq[q] \in Queue /\ seen[q] \in Idx /\ owned[q] \in SUBSET Heads /\ Held(q) \in Nat
BY HeldNat DEF TypeOK

\* Steps that leave the positions and the contents of the rings alone.
LEMMA RingsSame ==
    ASSUME TypeOK, Rings, up, \A p \in Queues : SameRing(vq'[p], vq[p]),
           UNCHANGED <<owned, seen, chains, txHead>>,
           tpc' = "proc" => "tx" \in Queues /\ (tpc = "proc" \/ HasDescs(vq["tx"]))
    PROVE  Rings'
<1>1. ASSUME NEW p \in Queues PROVE RingOf(p)'
  <2>1. Hand(p)' = Hand(p) /\ Held(p)' = Held(p)
    BY DEF Hand, Held
  <2>2. RingOk(vq[p], seen[p], owned[p], Hand(p), Held(p)) /\ SameRing(vq'[p], vq[p])
    BY DEF Rings, RingOf
  <2>3. RingOk(vq'[p], seen[p], owned[p], Hand(p), Held(p))
    BY <2>2, RingFlags DEF SameRing
  <2> QED
    BY <2>1, <2>3 DEF RingOf
<1>2. "rx" \in Queues => ChainsKept(vq["rx"])'
  BY DEF Rings, ChainsKept, SameRing
<1>3. tpc' = "proc" => HasDescs(vq["tx"])'
  BY DEF Rings, SameRing, HasDescs
<1> QED
  BY <1>1, <1>2, <1>3 DEF Rings

\* Steps that change one ring.
LEMMA RingsOne ==
    ASSUME TypeOK, Rings, up, NEW q \in Queues, NEW r, vq' = [vq EXCEPT ![q] = r],
           \A p \in Queues \ {q} : seen'[p] = seen[p] /\ owned'[p] = owned[p],
           IF q = "rx" THEN txHead' = txHead ELSE chains' = chains,
           RingOf(q)', Queues \subseteq {"rx", "tx"},
           "rx" \in Queues /\ q = "rx" => ChainsKept(vq["rx"])',
           tpc' = "proc" => (tpc = "proc" /\ q # "tx") \/ HasDescs(vq["tx"])'
    PROVE  Rings'
<1>1. ASSUME NEW p \in Queues, p # q PROVE RingOf(p)'
  <2>1. Hand(p)' = Hand(p) /\ Held(p)' = Held(p)
    BY <1>1 DEF Hand, Held
  <2>2. vq'[p] = vq[p]
    BY <1>1 DEF TypeOK
  <2> QED
    BY <1>1, <2>1, <2>2 DEF RingOf, Rings
<1>2. "rx" \in Queues => ChainsKept(vq["rx"])'
  <2>1. CASE "rx" \in Queues /\ q # "rx"
    <3>1. vq'["rx"] = vq["rx"] /\ chains' = chains
      BY <2>1 DEF TypeOK
    <3> QED
      BY <2>1, <3>1 DEF Rings, ChainsKept
  <2> QED
    BY <2>1
<1>3. tpc' = "proc" => HasDescs(vq["tx"])'
  <2>1. CASE tpc = "proc" /\ q # "tx"
    <3>1. vq'["tx"] = vq["tx"]
      BY <2>1 DEF TypeOK
    <3> QED
      BY <2>1, <3>1 DEF Rings, HasDescs
  <2> QED
    BY <2>1
<1> QED
  BY <1>1, <1>2, <1>3 DEF Rings

QueuesTwo == Queues \subseteq {"rx", "tx"}

LEMMA QTwo == QueuesTwo
BY NetAssumption DEF NetAssumption, QueuesTwo

LEMMA OneNew ==
    ASSUME TypeOK, NEW q \in Queues, NEW r, vq' = [vq EXCEPT ![q] = r]
    PROVE  vq'[q] = r /\ \A p \in Queues \ {q} : vq'[p] = vq[p]
BY DEF TypeOK

\* vq_getchain() in pci_vtnet_rx().
LEMMA GetRings ==
    ASSUME TypeInv, Control, Rings, up, EventStep, GetChain
    PROVE  /\ Rings' /\ NDesc(vq'["rx"]) = NDesc(vq["rx"]) - 1
           /\ Batch(vq'["rx"]) = Batch(vq["rx"])
<1> DEFINE r == vq["rx"]
           n == Len(chains)
           h == NextHead(r)
<1>0. TypeOK /\ "rx" \in Queues /\ RingOf("rx") /\ ChainsKept(r)
  BY DEF TypeInv, EventStep, Rings
<1>1. r \in Queue /\ seen["rx"] \in Idx /\ owned["rx"] \in SUBSET Heads /\ Held("rx") \in Nat
  BY <1>0, TypesOf
<1>2. Held("rx") = n /\ n \in Nat /\ chains \in Seq(Heads) /\ Hand("rx") = {chains[i] : i \in 1 .. n}
  BY <1>0 DEF Held, Hand, TypeOK
<1>3. NDesc(r) > 0
  BY <1>1, QueueFields DEF GetChain
<1>4. /\ Taken(r) \in Queue /\ h \in Heads \ Hand("rx")
      /\ RingOk(Taken(r), seen["rx"], owned["rx"], Hand("rx") \cup {h}, Held("rx") + 1)
      /\ NDesc(Taken(r)) = NDesc(r) - 1 /\ Batch(Taken(r)) = Batch(r)
  BY <1>0, <1>1, <1>3, TakenRing DEF RingOf
<1>5. vq' = [vq EXCEPT !["rx"] = Taken(r)] /\ chains' = Append(chains, h)
  BY DEF GetChain
<1>6. vq'["rx"] = Taken(r)
  BY <1>0, <1>5, OneNew
<1>7. UNCHANGED <<owned, seen, txHead, tpc, up>>
  BY DEF GetChain, driverVars
<1> HIDE DEF h, r
<1>8. /\ Len(chains') = n + 1 /\ chains'[n + 1] = h /\ DOMAIN chains' = 1 .. n + 1
      /\ \A i \in 1 .. n : chains'[i] = chains[i]
  BY <1>2, <1>4, <1>5
<1>9. Hand("rx")' = Hand("rx") \cup {h} /\ Held("rx")' = Held("rx") + 1
  <2>1. {chains'[i] : i \in 1 .. n + 1} = {chains[i] : i \in 1 .. n} \cup {h}
    <3> HIDE DEF n
    <3>1. 1 .. n + 1 = (1 .. n) \cup {n + 1}
      BY <1>2
    <3> QED
      BY <1>8, <3>1
  <2> QED
    BY <1>2, <1>8, <2>1 DEF Hand, Held
<1>10. RingOf("rx")'
  BY <1>4, <1>6, <1>7, <1>9 DEF RingOf
<1>11. ChainsKept(vq["rx"])'
  <2>0. r.last \in Int /\ Taken(r).last = Plus(r.last, 1) /\ Taken(r).ring = r.ring
    BY <1>1 DEF Taken, Queue, Idx, r
  <2>1. ASSUME NEW i \in 1 .. n + 1, NEW j \in 1 .. n + 1, chains'[i] = chains'[j]
        PROVE  i = j
    <3>1. \A k \in 1 .. n : chains[k] # h
      BY <1>2, <1>4
    <3>2. i \in 1 .. n \/ i = n + 1
      BY <1>2
    <3>3. j \in 1 .. n \/ j = n + 1
      BY <1>2
    <3>4. \A k, l \in 1 .. n : chains[k] = chains[l] => k = l
      BY <1>0 DEF ChainsKept, n
    <3> HIDE DEF n
    <3> QED
      BY <1>8, <2>1, <3>1, <3>2, <3>3, <3>4
  <2>2. ASSUME NEW i \in 1 .. n + 1
        PROVE  Taken(r).ring[(Taken(r).last + (i - 1 - (n + 1))) % QSize] = chains'[i]
    <3>1. /\ i - 1 - (n + 1) \in Int /\ r.last + 1 \in Int
          /\ (r.last + 1) + (i - 1 - (n + 1)) = r.last + (i - 1 - n)
      BY <1>2, <2>0
    <3>2. (Plus(r.last, 1) + (i - 1 - (n + 1))) % QSize = (r.last + (i - 1 - n)) % QSize
      BY <3>1, SlotOfIdx DEF Plus
    <3>3. CASE i \in 1 .. n
      BY <1>0, <1>8, <2>0, <3>2, <3>3 DEF ChainsKept, r
    <3>4. CASE i = n + 1
      <4>1. r.last + (i - 1 - n) = r.last
        BY <1>2, <2>0, <3>4
      <4> QED
        BY <1>8, <2>0, <3>2, <3>4, <4>1 DEF NextHead, h
    <3> QED
      BY <1>2, <3>3, <3>4
  <2> QED
    BY <1>6, <1>8, <2>1, <2>2 DEF ChainsKept
<1>12. Rings'
  <2>1. tpc' = "proc" => tpc = "proc"
    BY <1>7
  <2> QED
    BY <1>0, <1>5, <1>7, <1>10, <1>11, <2>1, QTwo, RingsOne DEF QueuesTwo
<1> QED
  BY <1>4, <1>6, <1>12 DEF r

\* A ring with its types; the operations on it, in the form the steps use.
RingAt(r, sn, O, H, k) ==
    r \in Queue /\ sn \in Idx /\ O \in SUBSET Heads /\ k \in Nat /\ RingOk(r, sn, O, H, k)

LEMMA RelAt ==
    ASSUME NEW r, NEW sn, NEW O, NEW H, NEW k, RingAt(r, sn, O, H, k),
           NEW hs, hs \in Seq(Heads), Some(hs, H, k)
    PROVE  /\ RelOk(r, hs, sn, O, H, k)
           /\ RingAt(RelChains(r, hs), sn, O, H \ Elems(hs, Len(hs)), k - Len(hs))
<1>1. r \in Queue /\ sn \in Idx /\ O \in SUBSET Heads /\ k \in Nat /\ RingOk(r, sn, O, H, k)
  BY DEF RingAt
<1>2. RelOk(r, hs, sn, O, H, k)
  BY <1>1, RelRing, Zenon
<1>3. k - Len(hs) \in Nat
  BY <1>1 DEF Some
<1> QED
  BY <1>1, <1>2, <1>3 DEF RingAt, RelOk

LEMMA RetAt ==
    ASSUME NEW r, NEW sn, NEW O, NEW H, NEW k, RingAt(r, sn, O, H, k),
           NEW n, NEW cs, n \in Nat, Last(r, n, cs, H, k)
    PROVE  /\ RetOk(r, n, cs, sn, O, H, k)
           /\ RingAt(RetChains(r, n), sn, O, H \ Elems(cs, n), k - n)
<1>1. r \in Queue /\ sn \in Idx /\ O \in SUBSET Heads /\ k \in Nat /\ RingOk(r, sn, O, H, k)
  BY DEF RingAt
<1>2. RetOk(r, n, cs, sn, O, H, k)
  BY <1>1, RetRing, Zenon
<1>3. k - n \in Nat
  BY <1>1 DEF Last
<1> QED
  BY <1>1, <1>2, <1>3 DEF RingAt, RetOk

\* All the chains held are returned; all are used; the first is used and the
\* others are returned (DropOne).
LEMMA RetAll ==
    ASSUME NEW b, NEW sn, NEW O, NEW ch, NEW n \in Nat,
           RingAt(b, sn, O, Elems(ch, n), n), Last(b, n, ch, Elems(ch, n), n)
    PROVE  /\ RingAt(RetChains(b, n), sn, O, {}, 0)
           /\ NDesc(RetChains(b, n)) = NDesc(b) + n /\ Batch(RetChains(b, n)) = Batch(b)
<1>1. /\ RetOk(b, n, ch, sn, O, Elems(ch, n), n)
      /\ RingAt(RetChains(b, n), sn, O, Elems(ch, n) \ Elems(ch, n), n - n)
  BY RetAt
<1>2. Elems(ch, n) \ Elems(ch, n) = {} /\ n - n = 0
  OBVIOUS
<1> QED
  BY <1>1, <1>2 DEF RetOk

LEMMA RelAll ==
    ASSUME NEW b, NEW sn, NEW O, NEW ch \in Seq(Heads), NEW n, n = Len(ch),
           RingAt(b, sn, O, Elems(ch, n), n), Last(b, n, ch, Elems(ch, n), n)
    PROVE  /\ RingAt(RelChains(b, ch), sn, O, {}, 0) /\ NDesc(RelChains(b, ch)) = NDesc(b)
           /\ Batch(b) + n < IdxMod => Batch(RelChains(b, ch)) = Batch(b) + n
<1>1. n \in Nat /\ Some(ch, Elems(ch, n), n)
  BY DEF Some, Last
<1>2. /\ RelOk(b, ch, sn, O, Elems(ch, n), n)
      /\ RingAt(RelChains(b, ch), sn, O, Elems(ch, n) \ Elems(ch, Len(ch)), n - Len(ch))
  BY <1>1, RelAt
<1>3. Elems(ch, n) \ Elems(ch, Len(ch)) = {} /\ n - Len(ch) = 0
  BY <1>1
<1> QED
  BY <1>2, <1>3 DEF RelOk

LEMMA RelFirst ==
    ASSUME NEW b, NEW sn, NEW O, NEW H, NEW h \in Heads, NEW k, h \in H, k > 0,
           RingAt(b, sn, O, H, k)
    PROVE  /\ RingAt(RelChain(b, h), sn, O, H \ {h}, k - 1) /\ NDesc(RelChain(b, h)) = NDesc(b)
           /\ Batch(b) + 1 < IdxMod => Batch(RelChain(b, h)) = Batch(b) + 1
           /\ RelChain(b, h).ring = b.ring /\ RelChain(b, h).last = b.last
<1> DEFINE hs == <<h>>
<1>1. hs \in Seq(Heads) /\ Len(hs) = 1 /\ Elems(hs, 1) = {h} /\ hs[1] = h
  BY DEF Elems
<1>2. RelChain(b, h) = RelChains(b, hs)
  BY DEF RelChain
<1> HIDE DEF hs
<1>3. Some(hs, H, k)
  BY <1>1 DEF Some, RingAt
<1>4. /\ RelOk(b, hs, sn, O, H, k)
      /\ RingAt(RelChains(b, hs), sn, O, H \ Elems(hs, Len(hs)), k - Len(hs))
  BY <1>1, <1>3, RelAt
<1> QED
  BY <1>1, <1>2, <1>4 DEF RelOk

DropOne(r, ch) == RetChains(RelChain(r, ch[1]), Len(ch) - 1)

LEMMA DropRing ==
    ASSUME NEW b, NEW sn, NEW O, NEW ch \in Seq(Heads), ch # <<>>,
           RingAt(b, sn, O, Elems(ch, Len(ch)), Len(ch)),
           Last(b, Len(ch), ch, Elems(ch, Len(ch)), Len(ch))
    PROVE  /\ RingAt(DropOne(b, ch), sn, O, {}, 0)
           /\ NDesc(DropOne(b, ch)) = NDesc(b) + (Len(ch) - 1)
           /\ Batch(b) + 1 < IdxMod => Batch(DropOne(b, ch)) = Batch(b) + 1
<1> DEFINE n == Len(ch)
           H == Elems(ch, n)
           c == RelChain(b, ch[1])
           G == H \ {ch[1]}
           cs == [i \in 1 .. n - 1 |-> ch[i + 1]]
<1>1. n \in Nat /\ n >= 1 /\ n - 1 \in Nat /\ ch[1] \in Heads
  OBVIOUS
<1>2. H = {ch[i] : i \in 1 .. n}
  BY DEF Elems
<1>3. /\ \A i \in 1 .. n : ch[i] \in H /\ b.ring[(b.last + (i - 1 - n)) % QSize] = ch[i]
      /\ \A i, j \in 1 .. n : ch[i] = ch[j] => i = j
  BY DEF Last
<1>4. /\ RingAt(c, sn, O, G, n - 1) /\ NDesc(c) = NDesc(b)
      /\ Batch(b) + 1 < IdxMod => Batch(c) = Batch(b) + 1
      /\ c.ring = b.ring /\ c.last = b.last
  <2>1. RingAt(b, sn, O, H, n) /\ ch[1] \in H /\ n > 0
    BY <1>1, <1>3
  <2> HIDE DEF n, H
  <2> QED
    BY <1>1, <2>1, RelFirst
<1> HIDE DEF n, H, c
<1>5. /\ \A i \in 1 .. n - 1 : cs[i] \in G /\ c.ring[(c.last + (i - 1 - (n - 1))) % QSize] = cs[i]
      /\ \A i, j \in 1 .. n - 1 : cs[i] = cs[j] => i = j
  <2>1. ASSUME NEW i \in 1 .. n - 1
        PROVE  /\ cs[i] \in G /\ cs[i] = ch[i + 1]
               /\ c.ring[(c.last + (i - 1 - (n - 1))) % QSize] = cs[i]
    <3>1. i + 1 \in 1 .. n /\ i + 1 # 1 /\ i - 1 - (n - 1) = (i + 1) - 1 - n /\ 1 \in 1 .. n
      BY <1>1
    <3>2. cs[i] = ch[i + 1]
      OBVIOUS
    <3>3. ch[i + 1] # ch[1] /\ ch[i + 1] \in H
      BY <1>3, <3>1
    <3>4. b.ring[(b.last + ((i + 1) - 1 - n)) % QSize] = ch[i + 1]
      BY <1>3, <3>1
    <3> QED
      BY <1>4, <3>1, <3>2, <3>3, <3>4
  <2>2. ASSUME NEW i \in 1 .. n - 1, NEW j \in 1 .. n - 1, cs[i] = cs[j] PROVE i = j
    <3>1. i + 1 \in 1 .. n /\ j + 1 \in 1 .. n /\ i \in Int /\ j \in Int
      BY <1>1
    <3>2. ch[i + 1] = ch[j + 1]
      BY <2>1, <2>2
    <3>3. i + 1 = j + 1
      BY <1>3, <3>1, <3>2
    <3> QED
      BY <3>1, <3>3
  <2> HIDE DEF cs
  <2> QED
    BY <2>1, <2>2
<1>6. G \ Elems(cs, n - 1) = {} /\ n - 1 <= n - 1 /\ (n - 1) - (n - 1) = 0
  <2>1. ASSUME NEW g \in G PROVE \E i \in 1 .. n - 1 : cs[i] = g
    <3>1. PICK j \in 1 .. n : g = ch[j]
      BY <1>2
    <3>2. j # 1
      BY <3>1
    <3>3. j - 1 \in 1 .. n - 1 /\ (j - 1) + 1 = j
      BY <1>1, <3>1, <3>2
    <3> QED
      BY <3>1, <3>3
  <2> HIDE DEF cs
  <2> QED
    BY <1>1, <2>1 DEF Elems

<1>7. Last(c, n - 1, cs, G, n - 1)
  BY <1>5, <1>6 DEF Last
<1> HIDE DEF cs, G
<1>8. /\ RetOk(c, n - 1, cs, sn, O, G, n - 1)
      /\ RingAt(RetChains(c, n - 1), sn, O, G \ Elems(cs, n - 1), (n - 1) - (n - 1))
  BY <1>1, <1>4, <1>7, RetAt
<1>9. DropOne(b, ch) = RetChains(c, n - 1)
  BY DEF DropOne, c, n
<1>10. NDesc(c) + (n - 1) = NDesc(b) + (Len(ch) - 1)
  BY <1>4 DEF n
<1> QED
  BY <1>4, <1>6, <1>8, <1>9, <1>10 DEF RetOk

\* Setting flags does not disturb a ring.
LEMMA FlagAt ==
    ASSUME NEW r, NEW t, NEW sn, NEW O, NEW H, NEW k, RingAt(r, sn, O, H, k), t \in Queue,
           SameRing(t, r)
    PROVE  RingAt(t, sn, O, H, k)
<1>1. RingOk(r, sn, O, H, k) /\ sn \in Idx /\ O \in SUBSET Heads /\ k \in Nat
  BY DEF RingAt
<1>2. RingOk(t, sn, O, H, k)
  BY <1>1, RingFlags DEF SameRing
<1> QED
  BY <1>1, <1>2 DEF RingAt

\* The state of the receive queue while pci_vtnet_rx() holds chains.
LEMMA RxHeld ==
    ASSUME TypeOK, Rings, up, "rx" \in Queues
    PROVE  /\ RingAt(vq["rx"], seen["rx"], owned["rx"], Elems(chains, Len(chains)), Len(chains))
           /\ Last(vq["rx"], Len(chains), chains, Elems(chains, Len(chains)), Len(chains))
           /\ chains \in Seq(Heads) /\ Len(chains) \in Nat
<1>1. RingOf("rx") /\ ChainsKept(vq["rx"]) /\ chains \in Seq(Heads) /\ Len(chains) \in Nat
  BY DEF Rings, TypeOK
<1>2. Hand("rx") = Elems(chains, Len(chains)) /\ Held("rx") = Len(chains)
  BY <1>1 DEF Hand, Held, Elems
<1>3. RingAt(vq["rx"], seen["rx"], owned["rx"], Elems(chains, Len(chains)), Len(chains))
  BY <1>1, <1>2, TypesOf DEF RingAt, RingOf
<1>4. Last(vq["rx"], Len(chains), chains, Elems(chains, Len(chains)), Len(chains))
  BY <1>1 DEF Last, ChainsKept, Elems
<1> QED
  BY <1>1, <1>3, <1>4

LEMMA RxPut ==
    ASSUME TypeOK, Rings, up, "rx" \in Queues, NEW t, vq' = [vq EXCEPT !["rx"] = t],
           chains' = <<>>, UNCHANGED <<owned, seen, txHead, tpc>>,
           RingAt(t, seen["rx"], owned["rx"], {}, 0)
    PROVE  Rings'
<1>1. vq'["rx"] = t
  BY OneNew
<1>2. Hand("rx")' = {} /\ Held("rx")' = 0
  BY DEF Hand, Held
<1>3. RingOf("rx")'
  BY <1>1, <1>2 DEF RingOf, RingAt
<1>4. ChainsKept(vq["rx"])'
  BY DEF ChainsKept
<1>5. tpc' = "proc" => (tpc = "proc" /\ "rx" # "tx")
  OBVIOUS
<1> QED
  BY <1>3, <1>4, <1>5, QTwo, RingsOne DEF QueuesTwo

LEMMA RecvRings ==
    ASSUME TypeOK, Rings, up, "rx" \in Queues, Recv
    PROVE  Rings'
<1> DEFINE r == vq["rx"]
<1>1. /\ RingAt(RetChains(r, Len(chains)), seen["rx"], owned["rx"], {}, 0)
      /\ RingAt(RelChains(r, chains), seen["rx"], owned["rx"], {}, 0)
  BY RxHeld, RetAll, RelAll
<1>2. \/ vq' = [vq EXCEPT !["rx"] = RetChains(r, Len(chains))]
      \/ vq' = [vq EXCEPT !["rx"] = RelChains(r, chains)]
  BY DEF Recv, TypeOK
<1>3. chains' = <<>> /\ UNCHANGED <<owned, seen, txHead, tpc>>
  BY DEF Recv, driverVars
<1> QED
  BY <1>1, <1>2, <1>3, RxPut

LEMMA DropRings ==
    ASSUME TypeOK, Rings, up, "rx" \in Queues, RxDropChain, chains # <<>>
    PROVE  Rings'
<1>1. RingAt(DropOne(vq["rx"], chains), seen["rx"], owned["rx"], {}, 0)
  BY RxHeld, DropRing
<1>2. vq' = [vq EXCEPT !["rx"] = DropOne(vq["rx"], chains)]
  BY DEF RxDropChain, DropOne, TypeOK
<1>3. chains' = <<>> /\ UNCHANGED <<owned, seen, txHead, tpc>>
  BY DEF RxDropChain, driverVars
<1> QED
  BY <1>1, <1>2, <1>3, RxPut

LEMMA CheckRings ==
    ASSUME TypeOK, Control, Rings, up, "rx" \in Queues, Check
    PROVE  Rings'
<1> DEFINE r == vq["rx"]
<1>0. r \in Queue
  BY TypesOf
<1>1. CASE HasDescs(r)
  <2>1. vq' = [vq EXCEPT !["rx"] = KickDisable(r)] /\ UNCHANGED <<owned, seen, chains, txHead, tpc>>
    BY <1>1 DEF Check, driverVars
  <2>2. \A p \in Queues : SameRing(vq'[p], vq[p])
    BY <1>0, <2>1, OpsSame, OneSame
  <2>3. tpc' = "proc" => "tx" \in Queues /\ (tpc = "proc" \/ HasDescs(vq["tx"]))
    BY <2>1 DEF Control
  <2> QED
    BY <2>1, <2>2, <2>3, RingsSame
<1>2. CASE ~HasDescs(r)
  <2>1. RingAt(RetChains(r, Len(chains)), seen["rx"], owned["rx"], {}, 0)
    BY RxHeld, RetAll
  <2>2. RetChains(r, Len(chains)) \in Queue
    BY <2>1 DEF RingAt
  <2>3. RingAt(EndSave(RetChains(r, Len(chains))), seen["rx"], owned["rx"], {}, 0)
    BY <2>1, <2>2, OpsSame, QueueOne, FlagAt
  <2>4. vq' = [vq EXCEPT !["rx"] = EndSave(RetChains(r, Len(chains)))]
    BY <1>2, RxFinishEnds DEF Check
  <2>5. chains' = <<>> /\ UNCHANGED <<owned, seen, txHead, tpc>>
    BY <1>2 DEF Check, driverVars
  <2> QED
    BY <2>3, <2>4, <2>5, RxPut
<1> QED
  BY <1>1, <1>2

LEMMA EventRings == ASSUME TypeInv, Control, Rings, up, EventStep PROVE Rings'
<1> DEFINE r == vq["rx"]
<1>0. "rx" \in Queues /\ TypeOK /\ r \in Queue /\ RxControl
  BY DEF EventStep, TypeInv, TypeOK, Control
<1>1. UNCHANGED <<owned, seen, txHead, tpc>>
  BY EventFrame DEF driverVars
<1>2. tpc' = "proc" => "tx" \in Queues /\ (tpc = "proc" \/ HasDescs(vq["tx"]))
  BY <1>1 DEF Control
<1>3. ASSUME NEW t, t \in {r, EndSave(r), KickEnable(r)}, vq' = [vq EXCEPT !["rx"] = t],
             chains' = chains
      PROVE  Rings'
  <2>1. SameRing(t, r)
    BY <1>0, <1>3, OpsSame
  <2>2. \A p \in Queues : SameRing(vq'[p], vq[p])
    BY <1>0, <1>3, <2>1, OneSame
  <2> QED
    BY <1>0, <1>1, <1>2, <1>3, <2>2, RingsSame
<1>4. ASSUME vq' = vq, chains' = chains PROVE Rings'
  BY <1>0, <1>3, <1>4 DEF TypeOK
<1>5. CASE Build \/ Poll \/ GetNone \/ RxIntr
  BY <1>4, <1>5 DEF Build, Poll, GetNone, RxIntr
<1>6. CASE RxLock \/ Peek
  <2>1. chains = <<>> /\ vq' = vq /\ chains' = <<>>
    BY <1>0, <1>6 DEF RxLock, Peek, RxControl
  <2> QED
    BY <1>4, <2>1
<1>7. CASE PeekNone
  <2>1. vq' = [vq EXCEPT !["rx"] = EndSave(r)] /\ chains' = chains
    BY <1>7, RxFinishEnds DEF PeekNone
  <2> QED
    BY <1>3, <2>1
<1>8. CASE RxEnable
  BY <1>3, <1>8 DEF RxEnable
<1>9. CASE RxDropChain
  BY <1>0, <1>9, DropRings DEF RxDropChain, RxControl
<1> QED
  BY <1>0, <1>5, <1>6, <1>7, <1>8, <1>9, GetRings, RecvRings, CheckRings DEF EventStep

LEMMA TakeRings ==
    ASSUME TypeOK, Control, Rings, up, "tx" \in Queues, TxTake
    PROVE  /\ Rings' /\ NDesc(vq'["tx"]) = NDesc(vq["tx"]) - 1
           /\ Batch(vq'["tx"]) = Batch(vq["tx"]) /\ Held("tx") = 0 /\ Held("tx")' = 1
<1> DEFINE r == vq["tx"]
           h == NextHead(r)
<1>1. r \in Queue /\ seen["tx"] \in Idx /\ owned["tx"] \in SUBSET Heads
  BY TypesOf
<1>2. txHead = {} /\ NDesc(r) > 0
  BY <1>1, HasNDesc DEF TxTake, Control, TxControl, Rings, HasDescs
<1>3. RingOk(r, seen["tx"], owned["tx"], {}, 0)
  BY <1>2 DEF Rings, RingOf, Hand, Held
<1>4. /\ RingOk(Taken(r), seen["tx"], owned["tx"], {} \cup {h}, 0 + 1)
      /\ NDesc(Taken(r)) = NDesc(r) - 1 /\ Batch(Taken(r)) = Batch(r)
  BY <1>1, <1>2, <1>3, TakenRing
<1>5. vq' = [vq EXCEPT !["tx"] = Taken(r)] /\ txHead' = {h} /\ tpc' = "rel"
  BY DEF TxTake
<1>6. UNCHANGED <<owned, seen, chains>>
  BY DEF TxTake, driverVars
<1>7. vq'["tx"] = Taken(r)
  BY <1>5, OneNew
<1>8. Hand("tx")' = {} \cup {h} /\ Held("tx")' = 0 + 1
  BY <1>5 DEF Hand, Held
<1> HIDE DEF h, r
<1>9. RingOf("tx")'
  BY <1>4, <1>6, <1>7, <1>8 DEF RingOf
<1>10. Rings'
  BY <1>5, <1>6, <1>9, QTwo, RingsOne DEF QueuesTwo
<1> QED
  BY <1>2, <1>4, <1>7, <1>8, <1>10 DEF r, Held

LEMMA ReleaseRings ==
    ASSUME TypeOK, Control, Rings, up, "tx" \in Queues, TxRelease
    PROVE  /\ Rings' /\ NDesc(vq'["tx"]) = NDesc(vq["tx"])
           /\ Batch(vq["tx"]) + 1 < IdxMod => Batch(vq'["tx"]) = Batch(vq["tx"]) + 1
           /\ Held("tx") = 1 /\ Held("tx")' = 0
<1> DEFINE r == vq["tx"]
<1>1. PICK h \in Heads : txHead = {h}
  BY DEF TxRelease, Control, TxControl
<1>2. RingAt(r, seen["tx"], owned["tx"], {h}, 1)
  BY <1>1, TypesOf DEF RingAt, Rings, RingOf, Hand, Held
<1>3. /\ RingAt(RelChain(r, h), seen["tx"], owned["tx"], {h} \ {h}, 1 - 1)
      /\ NDesc(RelChain(r, h)) = NDesc(r)
      /\ Batch(r) + 1 < IdxMod => Batch(RelChain(r, h)) = Batch(r) + 1
  BY <1>2, RelFirst
<1>4. vq' = [vq EXCEPT !["tx"] = RelChain(r, h)] /\ txHead' = {} /\ tpc' = "more"
  BY <1>1 DEF TxRelease
<1>5. UNCHANGED <<owned, seen, chains>>
  BY DEF TxRelease, driverVars
<1>6. vq'["tx"] = RelChain(r, h)
  BY <1>4, OneNew
<1>7. Hand("tx")' = {h} \ {h} /\ Held("tx")' = 1 - 1
  BY <1>4 DEF Hand, Held
<1> HIDE DEF r
<1>8. RingOf("tx")'
  BY <1>3, <1>5, <1>6, <1>7 DEF RingOf, RingAt
<1>9. Rings'
  BY <1>4, <1>5, <1>8, QTwo, RingsOne DEF QueuesTwo
<1> QED
  BY <1>1, <1>3, <1>6, <1>7, <1>9 DEF r, Held

LEMMA TxRings == ASSUME TypeOK, Control, Rings, up, TxStep PROVE Rings'
<1> DEFINE r == vq["tx"]
<1>0. "tx" \in Queues /\ r \in Queue
  BY DEF TxStep, TypeOK
<1>1. UNCHANGED <<owned, seen, chains>>
  BY TxFrame DEF driverVars
<1>2. ASSUME NEW t, t \in {r, EndSave(r), KickEnable(r), KickDisable(r)},
             vq' = [vq EXCEPT !["tx"] = t], txHead' = txHead,
             tpc' = "proc" => tpc = "proc" \/ HasDescs(r)
      PROVE  Rings'
  <2>1. SameRing(t, r)
    BY <1>0, <1>2, OpsSame
  <2>2. \A p \in Queues : SameRing(vq'[p], vq[p])
    BY <1>0, <1>2, <2>1, OneSame
  <2> QED
    BY <1>0, <1>1, <1>2, <2>2, RingsSame
<1>3. ASSUME vq' = vq, txHead' = txHead, tpc' = "proc" => HasDescs(r) PROVE Rings'
  BY <1>0, <1>2, <1>3 DEF TypeOK
<1>4. CASE TxLock \/ TxIntr
  BY <1>3, <1>4 DEF TxLock, TxIntr
<1>5. CASE TxLoop
  BY <1>2, <1>3, <1>5 DEF TxLoop, TxStart
<1>6. CASE TxEnable
  BY <1>2, <1>6 DEF TxEnable
<1>7. CASE TxRecheck
  BY <1>2, <1>3, <1>7 DEF TxRecheck, TxStart, TxWait
<1>8. CASE TxMore
  BY <1>2, <1>3, <1>8 DEF TxMore, EndChains
<1> QED
  BY <1>0, <1>4, <1>5, <1>6, <1>7, <1>8, TakeRings, ReleaseRings DEF TxStep

\* The driver posts a chain: it overwrites no slot the device may return to.
LEMMA PostRings ==
    ASSUME TypeOK, Control, Rings, up, NEW q \in Queues, Post(q)
    PROVE  /\ Rings' /\ NDesc(vq'[q]) = NDesc(vq[q]) + 1 /\ Batch(vq'[q]) = Batch(vq[q])
<1> DEFINE r == vq[q]
<1>1. r \in Queue /\ seen[q] \in Idx /\ owned[q] \in SUBSET Heads /\ Held(q) \in Nat
  BY TypesOf
<1>2. RingOk(r, seen[q], owned[q], Hand(q), Held(q))
  BY DEF Rings, RingOf
<1>3. PICK h \in Heads \ owned[q] :
          /\ vq' = [vq EXCEPT ![q] = DriverPost(r, h)]
          /\ owned' = [owned EXCEPT ![q] = owned[q] \cup {h}]
  BY DEF Post, TypeOK
<1>4. UNCHANGED <<txHead, chains, seen, tpc>>
  BY DEF Post
<1>5. /\ RingOk(DriverPost(r, h), seen[q], owned[q] \cup {h}, Hand(q), Held(q))
      /\ NDesc(DriverPost(r, h)) = NDesc(r) + 1 /\ Batch(DriverPost(r, h)) = Batch(r)
      /\ \A i \in 1 .. Held(q) :
             DriverPost(r, h).ring[(r.last + (i - 1 - Held(q))) % QSize]
                 = r.ring[(r.last + (i - 1 - Held(q))) % QSize]
  <2> HIDE DEF r
  <2>1. RingOk(r, seen[q], owned[q], Hand(q), Held(q)) /\ r \in Queue
    BY <1>1, <1>2
  <2>2. PostOk(r, h, seen[q], owned[q], Hand(q), Held(q))
    BY <1>1, <2>1, PostRing, Zenon
  <2> QED
    BY <2>2 DEF PostOk
<1>6. vq'[q] = DriverPost(r, h) /\ owned'[q] = owned[q] \cup {h}
  BY <1>3, OneNew DEF TypeOK
<1>7. Hand(q)' = Hand(q) /\ Held(q)' = Held(q)
  BY <1>4 DEF Hand, Held
<1>8. RingOf(q)'
  BY <1>4, <1>5, <1>6, <1>7 DEF RingOf
<1>9. DriverPost(r, h).last = r.last /\ DriverPost(r, h).alloc = r.alloc
  BY <1>1 DEF DriverPost, Queue
<1>10. "rx" \in Queues /\ q = "rx" => ChainsKept(vq["rx"])'
  <2> SUFFICES ASSUME q = "rx" PROVE ChainsKept(vq["rx"])'
    OBVIOUS
  <2>1. ChainsKept(vq["rx"]) /\ Held(q) = Len(chains) /\ vq'["rx"] = DriverPost(r, h) /\ r = vq["rx"]
    BY <1>6 DEF Rings, Held
  <2> QED
    <3>1. \A i \in 1 .. Len(chains) :
             DriverPost(r, h).ring[(DriverPost(r, h).last + (i - 1 - Len(chains))) % QSize] = chains[i]
      BY <1>5, <1>9, <2>1 DEF ChainsKept
    <3> QED
      BY <1>4, <2>1, <3>1 DEF ChainsKept
<1>11. tpc' = "proc" => (tpc = "proc" /\ q # "tx") \/ HasDescs(vq["tx"])'
  <2> SUFFICES ASSUME tpc' = "proc", q = "tx" PROVE HasDescs(vq["tx"])'
    BY <1>4
  <2>1. r.alloc /\ DriverPost(r, h) \in Queue /\ NDesc(r) \in Nat
    <3>1. NDesc(r) \in 0 .. IdxMod - 1
      BY <1>1, QueueFields
    <3>2. r.alloc
      BY <1>4 DEF Rings, HasDescs
    <3>3. DriverPost(r, h) \in Queue
      BY <1>1, QueueOne
    <3> QED
      BY <3>1, <3>2, <3>3
  <2>2. NDesc(DriverPost(r, h)) > 0
    BY <1>5, <2>1
  <2>3. DriverPost(r, h).last # DriverPost(r, h).avail
    BY <2>1, <2>2, HasNDesc
  <2> QED
    BY <1>6, <1>9, <2>1, <2>3 DEF HasDescs
<1>12. \A p \in Queues \ {q} : seen'[p] = seen[p] /\ owned'[p] = owned[p]
  BY <1>3, <1>4 DEF TypeOK
<1>13. IF q = "rx" THEN txHead' = txHead ELSE chains' = chains
  BY <1>4
<1> HIDE DEF r
<1>14. Rings'
  BY <1>3, <1>8, <1>10, <1>11, <1>12, <1>13, QTwo, RingsOne DEF QueuesTwo
<1> QED
  BY <1>5, <1>6, <1>14 DEF r

LEMMA ReapRings ==
    ASSUME TypeOK, Control, Rings, up, NEW q \in Queues, Reap(q)
    PROVE  Rings'
<1> DEFINE r == vq[q]
           t == WithIntr(r, FALSE)
<1>1. r \in Queue /\ seen[q] \in Idx /\ owned[q] \in SUBSET Heads /\ Held(q) \in Nat
  BY TypesOf
<1>2. RingOk(r, seen[q], owned[q], Hand(q), Held(q))
  BY DEF Rings, RingOf
<1>3. RingOk(r, r.used, owned[q] \ UsedHeads(r, seen[q]), Hand(q), Held(q))
  BY <1>1, <1>2, ReapRing
<1>4. SameRing(t, r)
  BY <1>1, OpsSame
<1>5. RingOk(t, r.used, owned[q] \ UsedHeads(r, seen[q]), Hand(q), Held(q))
  BY <1>3, <1>4, RingFlags DEF SameRing
<1>6. /\ vq' = [vq EXCEPT ![q] = t] /\ UNCHANGED <<txHead, chains, tpc>>
      /\ owned'[q] = owned[q] \ UsedHeads(r, seen[q]) /\ seen'[q] = r.used
      /\ \A p \in Queues \ {q} : seen'[p] = seen[p] /\ owned'[p] = owned[p]
  BY DEF Reap, WithIntr, TypeOK
<1>7. vq'[q] = t
  BY <1>6, OneNew
<1>8. Hand(q)' = Hand(q) /\ Held(q)' = Held(q)
  BY <1>6 DEF Hand, Held
<1> HIDE DEF t, r
<1>9. RingOf(q)'
  BY <1>5, <1>6, <1>7, <1>8 DEF RingOf
<1>10. "rx" \in Queues /\ q = "rx" => ChainsKept(vq["rx"])'
  BY <1>4, <1>6, <1>7 DEF Rings, ChainsKept, SameRing, r
<1>11. tpc' = "proc" => (tpc = "proc" /\ q # "tx") \/ HasDescs(vq["tx"])'
  BY <1>4, <1>6, <1>7 DEF Rings, HasDescs, SameRing, r
<1>12. IF q = "rx" THEN txHead' = txHead ELSE chains' = chains
  BY <1>6
<1> QED
  BY <1>6, <1>9, <1>10, <1>11, <1>12, QTwo, RingsOne DEF QueuesTwo

\* The driver's other steps, and those of the vcpu thread while the rings are
\* in use, only set flags.
LEMMA FlagRings ==
    ASSUME TypeOK, Control, Rings, up,
           \/ Arrive
           \/ "tx" \in Queues /\ (QNotifyTx \/ PingTx)
           \/ "rx" \in Queues /\ (QNotifyRx \/ PingRx)
           \/ \E q \in Queues : PostDone(q) \/ Interrupt(q) \/ Recheck(q)
    PROVE  Rings'
<1>0. \A p \in Queues : vq[p] \in Queue /\ SameRing(vq[p], vq[p])
  BY OpsSame DEF TypeOK
<1>1. UNCHANGED <<owned, seen, chains, txHead, tpc>>
  BY DEF Arrive, QNotifyTx, PingTx, QNotifyRx, PingRx, PostDone, Interrupt, Recheck, driverVars
<1>2. tpc' = "proc" => "tx" \in Queues /\ (tpc = "proc" \/ HasDescs(vq["tx"]))
  BY <1>1 DEF Control
<1>3. \A p \in Queues : SameRing(vq'[p], vq[p])
  <2>1. CASE vq' = vq
    BY <1>0, <2>1
  <2>2. CASE "tx" \in Queues /\ PingTx
    BY <1>0, <2>2, OpsSame, OneSame DEF PingTx
  <2>3. CASE "rx" \in Queues /\ PingRx
    BY <1>0, <2>3, OpsSame, OneSame DEF PingRx
  <2>4. ASSUME NEW q \in Queues, Interrupt(q) PROVE \A p \in Queues : SameRing(vq'[p], vq[p])
    BY <1>0, <2>4 DEF Interrupt, SameRing, Queue
  <2>5. ASSUME NEW q \in Queues, Recheck(q) PROVE \A p \in Queues : SameRing(vq'[p], vq[p])
    <3>1. PICK b : vq' = [vq EXCEPT ![q] = WithIntr(vq[q], b)]
      BY <2>5 DEF Recheck, WithIntr, TypeOK
    <3>2. SameRing(WithIntr(vq[q], b), vq[q])
      BY <1>0, OpsSame
    <3> QED
      BY <3>1, <3>2, OneSame
  <2> QED
    BY <2>1, <2>2, <2>3, <2>4, <2>5 DEF Arrive, QNotifyTx, QNotifyRx, PostDone
<1> QED
  BY <1>1, <1>2, <1>3, RingsSame

LEMMA SetupRings == ASSUME TypeOK, Control, Setup PROVE Rings'
<1>1. /\ ~up /\ cpc = "run" /\ vq' = [q \in Queues |-> NewQueue]
      /\ UNCHANGED <<owned, seen, chains, txHead, tpc>>
  BY DEF Setup
<1>2. chains = <<>> /\ txHead = {} /\ tpc # "proc"
  <2>1. "rx" \in Queues => chains = <<>>
    BY <1>1 DEF Control, RxControl, Work
  <2>2. "tx" \in Queues => txHead = {} /\ tpc # "proc"
    BY <1>1 DEF Control, TxControl, UpControl
  <2> QED
    BY <2>1, <2>2 DEF Control
<1>3. ASSUME NEW q \in Queues PROVE RingOf(q)'
  <2>1. owned'[q] = {} /\ seen'[q] = 0 /\ vq'[q] = NewQueue
    BY <1>1 DEF Control, UpControl
  <2>2. Hand(q)' = {} /\ Held(q)' = 0
    BY <1>1, <1>2 DEF Hand, Held
  <2> QED
    BY <2>1, <2>2, NewRing DEF RingOf
<1>4. ChainsKept(vq["rx"])'
  BY <1>1, <1>2 DEF ChainsKept
<1> QED
  BY <1>1, <1>2, <1>3, <1>4 DEF Rings

LEMMA RingsNext == ASSUME TypeInv, Control, Rings, [Next]_vars PROVE Rings'
<1>0. TypeOK
  BY DEF TypeInv
<1>1. CASE UNCHANGED vars
  <2>1. UNCHANGED <<up, vq, owned, seen, chains, txHead, tpc>>
    BY <1>1 DEF vars, driverVars
  <2>2. \A p \in Queues : SameRing(vq'[p], vq[p])
    BY <2>1 DEF SameRing
  <2>3. tpc' = "proc" => "tx" \in Queues /\ (tpc = "proc" \/ HasDescs(vq["tx"]))
    BY <2>1 DEF Control
  <2>4. CASE up
    BY <1>0, <2>1, <2>2, <2>3, <2>4, RingsSame
  <2>5. CASE ~up
    BY <2>1, <2>5 DEF Rings
  <2> QED
    BY <2>4, <2>5
<1>2. CASE Setup
  BY <1>0, <1>2, SetupRings
<1>3. CASE Reset \/ ResetRx \/ ResetTx \/ ResetSpin \/ ResetSleep
  <2>1. ~up'
    BY <1>3 DEF Reset, ResetRx, ResetTx, ResetSpin, ResetDev, ResetSleep, Control, UpControl,
                driverVars
  <2> QED
    BY <2>1 DEF Rings
<1>4. CASE EventStep
  <2>1. CASE up
    BY <1>4, <2>1, EventRings
  <2>2. CASE ~up
    BY <1>4, <2>2, EventFrame DEF Rings, driverVars
  <2> QED
    BY <2>1, <2>2
<1>5. CASE TxStep
  <2>1. CASE up
    BY <1>0, <1>5, <2>1, TxRings
  <2>2. CASE ~up
    BY <1>5, <2>2, TxFrame DEF Rings, driverVars
  <2> QED
    BY <2>1, <2>2
<1>6. CASE \/ Arrive
           \/ "tx" \in Queues /\ (QNotifyTx \/ PingTx)
           \/ "rx" \in Queues /\ (QNotifyRx \/ PingRx)
  <2>1. CASE up
    BY <1>0, <1>6, <2>1, FlagRings
  <2>2. CASE ~up
    BY <1>6, <2>2 DEF Rings, Arrive, QNotifyTx, PingTx, QNotifyRx, PingRx, driverVars
  <2> QED
    BY <2>1, <2>2
<1>7. CASE \E q \in Queues : Post(q) \/ DriverStep(q)
  <2>1. PICK q \in Queues : Post(q) \/ DriverStep(q)
    BY <1>7
  <2>2. up
    BY <2>1 DEF Post, DriverStep, PostDone, Interrupt, Reap, Recheck, Control, UpControl
  <2> QED
    BY <1>0, <2>1, <2>2, PostRings, ReapRings, FlagRings DEF DriverStep
<1>8. CASE VcpuStep
  BY <1>3, <1>6, <1>8 DEF VcpuStep
<1>9. CASE Arrive
  BY <1>6, <1>9
<1>10. CASE Reset
  BY <1>3, <1>10
<1> QED
  BY <1>1, <1>2, <1>4, <1>5, <1>7, <1>8, <1>9, <1>10 DEF Next

LEMMA NetInit == Init => NetInv
<1>1. Init => Rings
  BY DEF Init, Rings
<1> QED
  BY <1>1, TypeInit, CtlInit DEF NetInv

LEMMA NetNext == ASSUME NoRxReset, NetInv, [Next]_vars PROVE NetInv'
BY TypeNext, CtlNext, RingsNext DEF NetInv

\* As many chains are held as the code has counted.
LEMMA HandCard ==
    ASSUME TypeOK, Control, Rings, up, NEW q \in Queues
    PROVE  Cardinality(Hand(q)) = Held(q)
<1>1. CASE q = "tx"
  <2>1. txHead = {} \/ \E h : txHead = {h}
    BY <1>1 DEF Control, TxControl
  <2> QED
    BY <1>1, <2>1, FS_EmptySet, FS_Singleton DEF Hand, Held
<1>2. CASE q # "tx"
  <2> DEFINE n == Len(chains)
             f == [i \in 0 .. n - 1 |-> chains[i + 1]]
  <2>1. q = "rx" /\ n \in Nat /\ Hand(q) = {chains[i] : i \in 1 .. n} /\ Held(q) = n
    BY <1>2, QTwo DEF QueuesTwo, Hand, Held, TypeOK
  <2>2. \A i, j \in 1 .. n : chains[i] = chains[j] => i = j
    BY <2>1 DEF Rings, ChainsKept
  <2> HIDE DEF n
  <2>3. \A i \in 0 .. n - 1 : i + 1 \in 1 .. n /\ f[i] = chains[i + 1] /\ i \in Int
    BY <2>1
  <2>4. \A i \in 1 .. n : i - 1 \in 0 .. n - 1 /\ f[i - 1] = chains[i]
    BY <2>1
  <2>5. f \in [0 .. n - 1 -> Hand(q)]
    BY <2>1, <2>3
  <2> HIDE DEF f
  <2>6. \A i, j \in 0 .. n - 1 : f[i] = f[j] => i = j
    BY <2>2, <2>3
  <2>7. \A e \in Hand(q) : \E i \in 0 .. n - 1 : f[i] = e
    BY <2>1, <2>4
  <2>8. IsFiniteSet(Hand(q)) /\ Cardinality(Hand(q)) = n
    <3>1. n \in Nat
      BY <2>1
    <3> QED
      BY <3>1, <2>5, <2>6, <2>7, Counting, Zenon
  <2> QED
    BY <2>1, <2>8
<1> QED
  BY <1>1, <1>2

LEMMA NetConserved == NetInv => ChainsConserved
<1> SUFFICES ASSUME NetInv, up, NEW q \in Queues
             PROVE  /\ owned[q] = AvailHeads(vq[q]) \cup Hand(q) \cup UsedHeads(vq[q], seen[q])
                    /\ Cardinality(owned[q]) =
                           NDesc(vq[q]) + Cardinality(Hand(q)) + NUsed(vq[q], seen[q])
  BY DEF ChainsConserved
<1>1. RingOf(q)
  BY DEF NetInv, Rings
<1>2. Cardinality(Hand(q)) = Held(q)
  BY HandCard DEF NetInv, TypeInv
<1> QED
  BY <1>1, <1>2 DEF RingOf, RingOk

\* No descriptor chain is lost, returned twice, or taken while the driver owns
\* it, for every queue size, index width and packet length: vq_getchain(),
\* vq_retchains() and vq_relchain() of pci_vtnet_rx() and pci_vtnet_proctx()
\* keep the chains the driver has given away in the avail ring, in the
\* device's hands or in the used ring, each in one place, across the wrap of
\* the indices and across resets of a transmit queue.
THEOREM ChainsConservedAlways ==
    ASSUME NoRxReset PROVE Spec => []ChainsConserved
<1>1. NetInv /\ [Next]_vars => NetInv'
  BY NetNext
<1> QED
  BY <1>1, NetInit, NetConserved, PTL DEF Spec

----------------------------------------------------------------------------
(* Notifications *)

LEMMA SameCounts ==
    ASSUME NEW r, NEW t, SameRing(t, r)
    PROVE  /\ NDesc(t) = NDesc(r) /\ (HasDescs(t) <=> HasDescs(r))
           /\ t.save = r.save => Batch(t) = Batch(r)
BY DEF SameRing, NDesc, Batch, HasDescs

LEMMA EndCounts ==
    ASSUME NEW r \in Queue
    PROVE  NDesc(EndSave(r)) = NDesc(r) /\ Batch(EndSave(r)) = 0
<1>1. EndSave(r) \in Queue /\ EndSave(r).save = EndSave(r).used
  BY QueueOne DEF EndSave, Queue
<1>2. ~(Batch(EndSave(r)) > 0) /\ Batch(EndSave(r)) \in Nat
  BY <1>1, HasNDesc, CountNat
<1> QED
  BY <1>2, OpsSame, SameCounts

\* What vq_retchains() and vq_relchain() do to the indices vq_endchains()
\* compares.
LEMMA OpsSave ==
    ASSUME NEW r \in Queue
    PROVE  /\ KickEnable(r).save = r.save /\ KickDisable(r).save = r.save
           /\ Taken(r).save = r.save /\ Taken(r).used = r.used
           /\ \A b : WithIntr(r, b).save = r.save
           /\ \A n : RetChains(r, n).save = r.save /\ RetChains(r, n).used = r.used
           /\ \A hs : RelChains(r, hs).save = r.save
           /\ \A h : DriverPost(r, h).save = r.save /\ DriverPost(r, h).used = r.used
BY DEF Queue, KickEnable, KickDisable, Taken, WithIntr, RetChains, RelChains, DriverPost

Load(q) == Batch(vq[q]) + NDesc(vq[q]) + Held(q)

LEMMA LoadNat ==
    ASSUME TypeOK, NEW q \in Queues
    PROVE  /\ Batch(vq[q]) \in Nat /\ NDesc(vq[q]) \in Nat /\ Held(q) \in Nat
           /\ Load(q) \in Nat /\ MaxBatch \in Nat
BY TypesOf, CountNat, NetAssumption DEF Load, NetAssumption

LEMMA LoadOne ==
    ASSUME TypeOK, Batches, up, NEW q \in Queues, NEW t, vq' = [vq EXCEPT ![q] = t],
           \A p \in Queues \ {q} : Held(p)' = Held(p),
           Batch(t) + NDesc(t) + Held(q)' <= MaxBatch
    PROVE  Batches'
<1>1. vq'[q] = t /\ \A p \in Queues \ {q} : vq'[p] = vq[p]
  BY OneNew
<1> QED
  BY <1>1 DEF Batches

\* A step that sets flags, or closes a batch.
LEMMA LoadFlag ==
    ASSUME TypeOK, Batches, up, NEW q \in Queues, NEW t, vq' = [vq EXCEPT ![q] = t],
           SameRing(t, vq[q]), t.save = vq[q].save \/ Batch(t) = 0,
           UNCHANGED <<chains, txHead>>
    PROVE  Batches'
<1>1. \A p \in Queues : Held(p)' = Held(p)
  BY DEF Held
<1>2. NDesc(t) = NDesc(vq[q]) /\ (Batch(t) = Batch(vq[q]) \/ Batch(t) = 0)
  BY SameCounts
<1>3. Batch(vq[q]) + NDesc(vq[q]) + Held(q) <= MaxBatch
  BY DEF Batches
<1>4. Batch(t) + NDesc(t) + Held(q)' <= MaxBatch
  BY <1>1, <1>2, <1>3, LoadNat
<1> QED
  BY <1>1, <1>4, LoadOne

\* The chains of pci_vtnet_rx() leave its hands.
LEMMA LoadPut ==
    ASSUME TypeOK, Batches, up, "rx" \in Queues, NEW t, vq' = [vq EXCEPT !["rx"] = t],
           chains' = <<>>, txHead' = txHead,
           Batch(t) + NDesc(t) <= Batch(vq["rx"]) + NDesc(vq["rx"]) + Len(chains),
           Batch(t) \in Nat, NDesc(t) \in Nat
    PROVE  Batches'
<1>1. Held("rx") = Len(chains) /\ Held("rx")' = 0
  BY DEF Held
<1>2. \A p \in Queues \ {"rx"} : Held(p)' = Held(p)
  BY DEF Held
<1>3. Batch(vq["rx"]) + NDesc(vq["rx"]) + Len(chains) <= MaxBatch
  BY <1>1 DEF Batches
<1>4. Batch(t) + NDesc(t) + Held("rx")' <= MaxBatch
  BY <1>1, <1>3, LoadNat
<1> QED
  BY <1>2, <1>4, LoadOne

LEMMA LoadRecv ==
    ASSUME BatchFits, TypeInv, Control, Rings, Batches, up, "rx" \in Queues, Recv \/ RxDropChain
    PROVE  /\ Batches'
           /\ \/ Recv /\ Len(chains) < bbuf /\ vq'["rx"].used = vq["rx"].used
                      /\ vq'["rx"].save = vq["rx"].save
              \/ vq'["rx"].used # vq'["rx"].save
<1> DEFINE r == vq["rx"]
           n == Len(chains)
<1>0. TypeOK /\ r \in Queue
  BY TypesOf DEF TypeInv
<1>1. Batch(r) \in Nat /\ NDesc(r) \in Nat /\ n \in Nat /\ MaxBatch \in Nat /\ IdxMod \in Nat
  BY <1>0, LoadNat, Sizes0 DEF TypeOK
<1>2. Batch(r) + NDesc(r) + n < IdxMod
  <2>1. Batch(r) + NDesc(r) + n <= MaxBatch
    BY DEF Batches, Held
  <2> QED
    BY <1>1, <2>1 DEF BatchFits
<1>3. n > 0 /\ chains # <<>> /\ epc = "recv"
  BY <1>0 DEF TypeInv, TypeOK, Recv, RxDropChain
<1>4. chains' = <<>> /\ txHead' = txHead
  BY DEF Recv, RxDropChain
<1>5. /\ RetChains(r, n) \in Queue /\ NDesc(RetChains(r, n)) = NDesc(r) + n
      /\ Batch(RetChains(r, n)) = Batch(r)
  BY <1>0, RxHeld, RetAll DEF RingAt
<1>6. /\ RelChains(r, chains) \in Queue /\ NDesc(RelChains(r, chains)) = NDesc(r)
      /\ Batch(RelChains(r, chains)) = Batch(r) + n
  <2>1. Batch(r) + n < IdxMod
    BY <1>1, <1>2
  <2> QED
    BY <1>0, <2>1, RxHeld, RelAll DEF RingAt
<1>7. /\ DropOne(r, chains) \in Queue /\ NDesc(DropOne(r, chains)) = NDesc(r) + (n - 1)
      /\ Batch(DropOne(r, chains)) = Batch(r) + 1
  <2>1. Batch(r) + 1 < IdxMod
    BY <1>1, <1>2, <1>3
  <2> QED
    BY <1>0, <1>3, <2>1, RxHeld, DropRing DEF RingAt
<1>8. \/ Recv /\ n < bbuf /\ vq' = [vq EXCEPT !["rx"] = RetChains(r, n)]
      \/ vq' = [vq EXCEPT !["rx"] = RelChains(r, chains)]
      \/ vq' = [vq EXCEPT !["rx"] = DropOne(r, chains)]
  BY <1>0 DEF Recv, RxDropChain, DropOne, TypeOK
<1> HIDE DEF r, n
<1>9. ASSUME NEW t, vq' = [vq EXCEPT !["rx"] = t], Batch(t) \in Nat, NDesc(t) \in Nat,
             Batch(t) + NDesc(t) <= Batch(r) + NDesc(r) + n
      PROVE  Batches' /\ vq'["rx"] = t
  BY <1>0, <1>4, <1>9, LoadPut, OneNew DEF r, n
<1>10. CASE Recv /\ n < bbuf /\ vq' = [vq EXCEPT !["rx"] = RetChains(r, n)]
  <2>0. /\ Batch(RetChains(r, n)) \in Nat /\ NDesc(RetChains(r, n)) \in Nat
        /\ Batch(RetChains(r, n)) + NDesc(RetChains(r, n)) <= Batch(r) + NDesc(r) + n
    BY <1>1, <1>5
  <2>1. Batches' /\ vq'["rx"] = RetChains(r, n)
    BY <1>9, <1>10, <2>0, Zenon
  <2>2. RetChains(r, n).used = r.used /\ RetChains(r, n).save = r.save
    BY <1>0, OpsSave
  <2> QED
    BY <1>10, <2>1, <2>2 DEF r, n
<1>11. CASE vq' = [vq EXCEPT !["rx"] = RelChains(r, chains)]
  <2>0. /\ Batch(RelChains(r, chains)) \in Nat /\ NDesc(RelChains(r, chains)) \in Nat
        /\ Batch(RelChains(r, chains)) + NDesc(RelChains(r, chains)) <= Batch(r) + NDesc(r) + n
    BY <1>1, <1>6
  <2>1. Batches' /\ vq'["rx"] = RelChains(r, chains)
    BY <1>9, <1>11, <2>0, Zenon
  <2>2. Batch(RelChains(r, chains)) > 0
    BY <1>1, <1>3, <1>6
  <2> QED
    BY <1>6, <2>1, <2>2, HasNDesc
<1>12. CASE vq' = [vq EXCEPT !["rx"] = DropOne(r, chains)]
  <2>0. /\ Batch(DropOne(r, chains)) \in Nat /\ NDesc(DropOne(r, chains)) \in Nat
        /\ Batch(DropOne(r, chains)) + NDesc(DropOne(r, chains)) <= Batch(r) + NDesc(r) + n
    BY <1>1, <1>3, <1>7
  <2>1. Batches' /\ vq'["rx"] = DropOne(r, chains)
    BY <1>9, <1>12, <2>0, Zenon
  <2>2. Batch(DropOne(r, chains)) > 0
    BY <1>1, <1>7
  <2> QED
    BY <1>7, <2>1, <2>2, HasNDesc
<1> QED
  BY <1>8, <1>10, <1>11, <1>12

LEMMA LoadEvent ==
    ASSUME BatchFits, TypeInv, Control, Rings, Batches, up, EventStep
    PROVE  Batches'
<1> DEFINE r == vq["rx"]
<1>0. "rx" \in Queues /\ TypeOK /\ r \in Queue /\ RxControl
  BY DEF EventStep, TypeInv, TypeOK, Control
<1>1. txHead' = txHead /\ up' = up
  BY EventFrame DEF driverVars
<1>2. ASSUME vq' = vq, chains' = chains PROVE Batches'
  BY <1>1, <1>2 DEF Batches, Held
<1>3. ASSUME NEW t, t \in {EndSave(r), KickEnable(r), KickDisable(r)},
             vq' = [vq EXCEPT !["rx"] = t], chains' = chains
      PROVE  Batches'
  <2>1. SameRing(t, r) /\ (t.save = r.save \/ Batch(t) = 0)
    BY <1>0, <1>3, OpsSame, OpsSave, EndCounts
  <2> QED
    BY <1>0, <1>1, <1>3, <2>1, LoadFlag
<1>4. CASE Build \/ Poll \/ GetNone \/ RxIntr
  BY <1>2, <1>4 DEF Build, Poll, GetNone, RxIntr
<1>5. CASE RxLock \/ Peek
  <2>1. chains = <<>> /\ vq' = vq /\ chains' = <<>>
    BY <1>0, <1>5 DEF RxLock, Peek, RxControl
  <2> QED
    BY <1>2, <2>1
<1>6. CASE PeekNone
  <2>1. vq' = [vq EXCEPT !["rx"] = EndSave(r)] /\ chains' = chains
    BY <1>6, RxFinishEnds DEF PeekNone
  <2> QED
    BY <1>3, <2>1
<1>7. CASE RxEnable
  BY <1>3, <1>7 DEF RxEnable
<1>8. CASE GetChain
  <2>1. NDesc(vq'["rx"]) = NDesc(r) - 1 /\ Batch(vq'["rx"]) = Batch(r)
    BY <1>8, GetRings
  <2>2. vq' = [vq EXCEPT !["rx"] = Taken(r)] /\ chains' = Append(chains, NextHead(r))
    BY <1>8 DEF GetChain
  <2>3. vq'["rx"] = Taken(r)
    BY <1>0, <2>2, OneNew
  <2>4. Held("rx") = Len(chains) /\ Held("rx")' = Len(chains) + 1 /\ Len(chains) \in Nat
    BY <1>0, <2>2 DEF Held, TypeOK
  <2>5. \A p \in Queues \ {"rx"} : Held(p)' = Held(p)
    BY <1>1 DEF Held
  <2>6. Batch(r) + NDesc(r) + Held("rx") <= MaxBatch
    BY <1>0 DEF Batches
  <2>7. Batch(Taken(r)) + NDesc(Taken(r)) + Held("rx")' <= MaxBatch
    BY <1>0, <2>1, <2>3, <2>4, <2>6, LoadNat
  <2> QED
    BY <1>0, <2>2, <2>5, <2>7, LoadOne
<1>9. CASE Check
  <2>1. CASE HasDescs(r)
    BY <1>3, <1>9, <2>1 DEF Check
  <2>2. CASE ~HasDescs(r)
    <3> DEFINE b == RetChains(r, Len(chains))
    <3>1. b \in Queue /\ NDesc(b) = NDesc(r) + Len(chains)
      BY <1>0, RxHeld, RetAll DEF RingAt
    <3>2. vq' = [vq EXCEPT !["rx"] = EndSave(b)] /\ chains' = <<>>
      BY <1>9, <2>2, RxFinishEnds DEF Check
    <3> HIDE DEF b
    <3>3. Batch(EndSave(b)) = 0 /\ NDesc(EndSave(b)) = NDesc(r) + Len(chains)
      BY <3>1, EndCounts
    <3>4. Len(chains) \in Nat /\ NDesc(r) \in Nat /\ Batch(r) \in Nat
      BY <1>0, LoadNat DEF TypeOK
    <3>5. /\ Batch(EndSave(b)) + NDesc(EndSave(b)) <= Batch(r) + NDesc(r) + Len(chains)
          /\ Batch(EndSave(b)) \in Nat /\ NDesc(EndSave(b)) \in Nat
      BY <3>3, <3>4
    <3> QED
      BY <1>0, <1>1, <3>2, <3>5, LoadPut
  <2> QED
    BY <2>1, <2>2
<1>10. CASE Recv \/ RxDropChain
  BY <1>0, <1>10, LoadRecv
<1> QED
  BY <1>4, <1>5, <1>6, <1>7, <1>8, <1>9, <1>10 DEF EventStep

LEMMA LoadRelease ==
    ASSUME BatchFits, TypeOK, Control, Rings, Batches, up, "tx" \in Queues, TxRelease
    PROVE  Batches' /\ vq'["tx"].used # vq'["tx"].save
<1> DEFINE r == vq["tx"]
<1>1. PICK h \in txHead : vq' = [vq EXCEPT !["tx"] = RelChain(r, h)]
  BY DEF TxRelease
<1>2. vq'["tx"] = RelChain(r, h) /\ vq'["tx"] \in Queue
  <2>1. h \in Heads /\ r \in Queue
    BY DEF TypeOK
  <2>2. <<h>> \in Seq(Heads)
    BY <2>1
  <2>3. RelChain(r, h) \in Queue
    BY <2>1, <2>2, QueueOne, Zenon DEF RelChain
  <2>4. vq'["tx"] = RelChain(r, h)
    BY <1>1, OneNew
  <2> QED
    BY <2>3, <2>4
<1>3. /\ NDesc(vq'["tx"]) = NDesc(r) /\ Held("tx") = 1 /\ Held("tx")' = 0
      /\ Batch(r) + 1 < IdxMod => Batch(vq'["tx"]) = Batch(r) + 1
  BY ReleaseRings
<1>4. \A p \in Queues \ {"tx"} : Held(p)' = Held(p)
  BY QTwo DEF TxRelease, Held, QueuesTwo
<1>5. Batch(r) + NDesc(r) + Held("tx") <= MaxBatch
  BY DEF Batches
<1>6. Batch(r) \in Nat /\ NDesc(r) \in Nat /\ MaxBatch \in Nat /\ IdxMod \in Nat
  BY LoadNat, Sizes0
<1> HIDE DEF r
<1>7. Batch(vq'["tx"]) = Batch(r) + 1
  BY <1>3, <1>5, <1>6 DEF BatchFits
<1>8. Batch(vq'["tx"]) + NDesc(vq'["tx"]) + Held("tx")' <= MaxBatch /\ Batch(vq'["tx"]) > 0
  BY <1>3, <1>5, <1>6, <1>7
<1>9. Batch(RelChain(r, h)) + NDesc(RelChain(r, h)) + Held("tx")' <= MaxBatch
  BY <1>2, <1>8
<1>10. Batches'
  BY <1>1, <1>4, <1>9, LoadOne
<1>11. vq'["tx"].used # vq'["tx"].save
  BY <1>2, <1>8, HasNDesc
<1> QED
  BY <1>10, <1>11

LEMMA LoadTx ==
    ASSUME BatchFits, TypeOK, Control, Rings, Batches, up, TxStep
    PROVE  Batches'
<1> DEFINE r == vq["tx"]
<1>0. "tx" \in Queues /\ r \in Queue
  BY DEF TxStep, TypeOK
<1>1. chains' = chains
  BY TxFrame
<1>2. ASSUME NEW t, t \in {EndSave(r), KickEnable(r), KickDisable(r)},
             vq' = [vq EXCEPT !["tx"] = t], txHead' = txHead
      PROVE  Batches'
  <2>1. SameRing(t, r) /\ (t.save = r.save \/ Batch(t) = 0)
    BY <1>0, <1>2, OpsSame, OpsSave, EndCounts
  <2> QED
    BY <1>0, <1>1, <1>2, <2>1, LoadFlag
<1>3. ASSUME vq' = vq, txHead' = txHead PROVE Batches'
  BY <1>1, <1>3 DEF Batches, Held
<1>4. CASE TxLock \/ TxIntr
  BY <1>3, <1>4 DEF TxLock, TxIntr
<1>5. CASE TxLoop
  BY <1>2, <1>3, <1>5 DEF TxLoop, TxStart
<1>6. CASE TxEnable
  BY <1>2, <1>6 DEF TxEnable
<1>7. CASE TxRecheck
  BY <1>2, <1>3, <1>7 DEF TxRecheck, TxStart, TxWait
<1>8. CASE TxMore
  BY <1>2, <1>3, <1>8 DEF TxMore, EndChains
<1>9. CASE TxTake
  <2>1. /\ NDesc(vq'["tx"]) = NDesc(r) - 1 /\ Batch(vq'["tx"]) = Batch(r)
        /\ Held("tx") = 0 /\ Held("tx")' = 1
    BY <1>0, <1>9, TakeRings
  <2>2. vq' = [vq EXCEPT !["tx"] = Taken(r)]
    BY <1>9 DEF TxTake
  <2>3. vq'["tx"] = Taken(r)
    BY <1>0, <2>2, OneNew
  <2>4. \A p \in Queues \ {"tx"} : Held(p)' = Held(p)
    BY <1>1, QTwo DEF Held, QueuesTwo
  <2>5. Batch(r) + NDesc(r) + Held("tx") <= MaxBatch
    BY <1>0 DEF Batches
  <2>6. Batch(Taken(r)) + NDesc(Taken(r)) + Held("tx")' <= MaxBatch
    BY <1>0, <2>1, <2>3, <2>5, LoadNat
  <2> QED
    BY <1>0, <2>2, <2>4, <2>6, LoadOne
<1> QED
  BY <1>0, <1>4, <1>5, <1>6, <1>7, <1>8, <1>9, LoadRelease DEF TxStep

LEMMA LoadSetup == ASSUME TypeOK, Control, Setup PROVE Batches'
<1>1. /\ ~up /\ cpc = "run" /\ vq' = [q \in Queues |-> NewQueue] /\ UNCHANGED <<chains, txHead>>
  BY DEF Setup
<1>2. chains = <<>> /\ txHead = {}
  <2>1. "rx" \in Queues => chains = <<>>
    BY <1>1 DEF Control, RxControl, Work
  <2>2. "tx" \in Queues => txHead = {}
    BY <1>1 DEF Control, TxControl, UpControl
  <2> QED
    BY <2>1, <2>2 DEF Control
<1>3. NewQueue \in Queue /\ Batch(NewQueue) = 0 /\ NewQueue.last = NewQueue.avail
  BY NewRing DEF NewQueue
<1>4. NDesc(NewQueue) = 0
  BY <1>3, HasNDesc, CountNat
<1>5. ASSUME NEW q \in Queues PROVE Batch(vq'[q]) + NDesc(vq'[q]) + Held(q)' <= MaxBatch
  <2>1. vq'[q] = NewQueue /\ Held(q)' = 0
    BY <1>1, <1>2 DEF Held
  <2> QED
    BY <1>3, <1>4, <2>1, NetAssumption DEF NetAssumption
<1> QED
  BY <1>5 DEF Batches

LEMMA LoadNext ==
    ASSUME BatchFits, TypeInv, Control, Rings, Batches, [Next]_vars
    PROVE  Batches'
<1>0. TypeOK /\ \A p \in Queues : vq[p] \in Queue
  BY DEF TypeInv, TypeOK
<1>1. ASSUME up' = up, up => vq' = vq, UNCHANGED <<chains, txHead>> PROVE Batches'
  BY <1>1 DEF Batches, Held
<1>2. CASE UNCHANGED vars
  BY <1>1, <1>2 DEF vars, driverVars
<1>3. CASE Reset \/ ResetRx \/ ResetTx \/ ResetSpin \/ ResetSleep
  <2>1. ~up'
    BY <1>3 DEF Reset, ResetRx, ResetTx, ResetSpin, ResetDev, ResetSleep, Control, UpControl,
                driverVars
  <2> QED
    BY <2>1 DEF Batches
<1>4. CASE EventStep
  <2>1. CASE up
    BY <1>4, <2>1, LoadEvent
  <2>2. CASE ~up
    BY <1>4, <2>2, EventFrame DEF Batches, driverVars
  <2> QED
    BY <2>1, <2>2
<1>5. CASE TxStep
  <2>1. CASE up
    BY <1>0, <1>5, <2>1, LoadTx
  <2>2. CASE ~up
    BY <1>5, <2>2, TxFrame DEF Batches, driverVars
  <2> QED
    BY <2>1, <2>2
<1>6. ASSUME NEW q \in Queues, (q = "tx" /\ PingTx) \/ (q = "rx" /\ PingRx) PROVE Batches'
  <2>1. up /\ vq' = [vq EXCEPT ![q] = KickDisable(vq[q])] /\ UNCHANGED <<chains, txHead>>
    BY <1>6 DEF PingTx, PingRx, Control, UpControl
  <2>2. SameRing(KickDisable(vq[q]), vq[q]) /\ KickDisable(vq[q]).save = vq[q].save
    BY <1>0, OpsSame, OpsSave
  <2> QED
    BY <1>0, <2>1, <2>2, LoadFlag
<1>7. CASE Arrive \/ QNotifyTx \/ QNotifyRx
  BY <1>1, <1>7 DEF Arrive, QNotifyTx, QNotifyRx, driverVars
<1>8. ASSUME NEW q \in Queues, Post(q) PROVE Batches'
  <2>1. up /\ UNCHANGED <<chains, txHead>> /\ Batch(vq[q]) + NDesc(vq[q]) + Cardinality(Hand(q)) < MaxBatch
    BY <1>8 DEF Post
  <2>2. Cardinality(Hand(q)) = Held(q) /\ Held(q)' = Held(q)
    BY <1>0, <2>1, HandCard DEF Held
  <2>3. NDesc(vq'[q]) = NDesc(vq[q]) + 1 /\ Batch(vq'[q]) = Batch(vq[q])
    BY <1>0, <1>8, <2>1, PostRings
  <2>4. PICK h : vq' = [vq EXCEPT ![q] = DriverPost(vq[q], h)]
    BY <1>8 DEF Post
  <2>5. vq'[q] = DriverPost(vq[q], h)
    BY <1>0, <2>4, OneNew
  <2>6. \A p \in Queues \ {q} : Held(p)' = Held(p)
    BY <2>1 DEF Held
  <2>7. Batch(vq'[q]) + NDesc(vq'[q]) + Held(q)' <= MaxBatch
    BY <1>0, <2>1, <2>2, <2>3, LoadNat
  <2> QED
    BY <1>0, <2>1, <2>4, <2>5, <2>6, <2>7, LoadOne
<1>9. ASSUME NEW q \in Queues, Interrupt(q) PROVE Batches'
  <2>1. up /\ \A p \in Queues : SameRing(vq'[p], vq[p]) /\ vq'[p].save = vq[p].save
    BY <1>0, <1>9 DEF Interrupt, SameRing, Queue
  <2>2. \A p \in Queues : Held(p)' = Held(p)
    BY <1>9 DEF Interrupt, Held
  <2> QED
    BY <2>1, <2>2, SameCounts DEF Batches
<1>10. ASSUME NEW q \in Queues, Reap(q) \/ Recheck(q) PROVE Batches'
  <2>1. PICK b : vq' = [vq EXCEPT ![q] = WithIntr(vq[q], b)]
    BY <1>0, <1>10 DEF Reap, Recheck, WithIntr, TypeOK
  <2>2. SameRing(WithIntr(vq[q], b), vq[q]) /\ WithIntr(vq[q], b).save = vq[q].save
    BY <1>0, OpsSame, OpsSave
  <2>3. up /\ UNCHANGED <<chains, txHead>>
    BY <1>10 DEF Reap, Recheck
  <2> QED
    BY <1>0, <2>1, <2>2, <2>3, LoadFlag
<1>11. ASSUME NEW q \in Queues, PostDone(q) PROVE Batches'
  BY <1>1, <1>11 DEF PostDone
<1>12. CASE \E q \in Queues : Post(q) \/ DriverStep(q)
  BY <1>8, <1>9, <1>10, <1>11, <1>12 DEF DriverStep
<1>13. CASE VcpuStep
  BY <1>3, <1>6, <1>7, <1>13 DEF VcpuStep
<1> QED
  BY <1>0, <1>2, <1>3, <1>4, <1>5, <1>7, <1>12, <1>13, LoadSetup DEF Next

----------------------------------------------------------------------------
(* Kicks *)

\* Nothing the driver's kick depends on has changed.
NoteSame(a, b) ==
    /\ a.noNotify = b.noNotify /\ (HasDescs(a) <=> HasDescs(b)) /\ NDesc(a) = NDesc(b)

LEMMA OpsNote ==
    ASSUME NEW r \in Queue
    PROVE  /\ NoteSame(r, r) /\ NoteSame(EndSave(r), r) /\ \A b : NoteSame(WithIntr(r, b), r)
           /\ HasDescs(KickEnable(r)) <=> HasDescs(r)
           /\ ~KickEnable(r).noNotify /\ ~ResetQueue(r).alloc
           /\ ResetQueue(r).noNotify = r.noNotify
           /\ \A h : DriverPost(r, h).noNotify = r.noNotify
           /\ \A n : RetChains(r, n).noNotify = r.noNotify
BY DEF NoteSame, HasDescs, NDesc, EndSave, WithIntr, KickEnable, ResetQueue, DriverPost, RetChains,
       Queue

LEMMA KickTxSame ==
    ASSUME KickTx, NoteSame(vq'["tx"], vq["tx"]), UNCHANGED <<txAsleep, tpc>>, up' => up,
           "tx" \in posted \cup kick => "tx" \in posted' \cup kick' \/ cpc' = "kick_tx",
           cpc = "kick_tx" => cpc' = "kick_tx"
    PROVE  KickTx'
BY DEF KickTx, NoteSame

LEMMA KickRxSame ==
    ASSUME KickRx, NoteSame(vq'["rx"], vq["rx"]), UNCHANGED <<evWant, mode, bbuf>>, up' => up,
           epc' = "check" => epc = "check",
           "rx" \in posted \cup kick => "rx" \in posted' \cup kick' \/ cpc' = "kick_rx",
           cpc = "kick_rx" => cpc' = "kick_rx"
    PROVE  KickRx'
BY DEF KickRx, NoteSame

LEMMA KickEvent == ASSUME TypeInv, Control, Rings, Kicks, EventStep PROVE Kicks'
<1> DEFINE r == vq["rx"]
<1>0. "rx" \in Queues /\ TypeOK /\ r \in Queue /\ RxControl /\ KickRx /\ UpControl
  BY DEF EventStep, TypeInv, TypeOK, Control, Kicks
<1>1. UNCHANGED <<up, posted, kick, cpc, txAsleep, tpc, mode>>
  BY EventFrame DEF driverVars, netVars
<1>2. "tx" \in Queues => KickTx'
  <2> SUFFICES ASSUME "tx" \in Queues PROVE KickTx'
    OBVIOUS
  <2>1. vq'["tx"] = vq["tx"]
    <3>1. vq' = vq \/ \E t : vq' = [vq EXCEPT !["rx"] = t]
      BY RxFinishEnds DEF EventStep, Build, Poll, RxLock, Peek, PeekNone, GetChain, GetNone,
             RxEnable, Check, Recv, RxDropChain, RxIntr
    <3> QED
      BY <1>0, <3>1 DEF TypeOK
  <2>2. NoteSame(vq'["tx"], vq["tx"]) /\ KickTx
    BY <2>1, OpsNote DEF TypeOK, Kicks, NoteSame
  <2> QED
    BY <1>1, <2>2, KickTxSame
<1> SUFFICES KickRx'
  BY <1>2 DEF Kicks
<1>4. ASSUME vq' = vq, UNCHANGED <<evWant, bbuf>>, epc' # "check" PROVE KickRx'
  BY <1>0, <1>1, <1>4, OpsNote, KickRxSame
<1>5. ASSUME evWant', epc' # "check" PROVE KickRx'
  BY <1>5 DEF KickRx
<1>6. CASE Build \/ Poll \/ GetNone \/ RxIntr
  BY <1>4, <1>6 DEF Build, Poll, GetNone, RxIntr, evVars
<1>7. CASE RxLock \/ Peek \/ PeekNone \/ GetChain \/ Recv \/ RxDropChain
  <2>1. evWant /\ evWant' = evWant
    BY <1>0, <1>7 DEF RxLock, Peek, PeekNone, GetChain, Recv, RxDropChain, evVars, RxControl, Work
  <2>2. epc' # "check"
    BY <1>7, RxFinishEnds DEF RxLock, Peek, PeekNone, GetChain, Recv, RxDropChain
  <2> QED
    BY <1>5, <2>1, <2>2
<1>8. CASE RxEnable
  <2>1. vq' = [vq EXCEPT !["rx"] = KickEnable(r)] /\ evWant' = evWant /\ epc = "enable"
    BY <1>8 DEF RxEnable, evVars
  <2>2. vq'["rx"] = KickEnable(r) /\ evWant
    BY <1>0, <2>1, OneNew DEF RxControl, Work
  <2> QED
    BY <1>0, <2>1, <2>2, OpsNote DEF KickRx
<1>9. CASE Check
  <2>1. epc = "check" /\ evWant /\ up
    BY <1>0, <1>9 DEF Check, RxControl, Work
  <2>2. CASE HasDescs(r)
    <3>1. epc' = "get" /\ evWant' = evWant
      BY <1>9, <2>2 DEF Check, evVars
    <3> QED
      BY <1>5, <2>1, <3>1
  <2>3. CASE ~HasDescs(r)
    <3> DEFINE b == RetChains(r, Len(chains))
    <3>1. b \in Queue /\ NDesc(b) = NDesc(r) + Len(chains) /\ Len(chains) \in Nat
      BY <1>0, <2>1, RxHeld, RetAll DEF RingAt
    <3>2. NDesc(r) = 0
      BY <1>0, <2>1, <2>3, HasNDesc, CountNat DEF HasDescs, UpControl
    <3>3. vq' = [vq EXCEPT !["rx"] = EndSave(b)] /\ epc' # "check" /\ bbuf' = bbuf
      BY <1>9, <2>3, RxFinishEnds DEF Check
    <3>4. vq'["rx"] = EndSave(b) /\ ~b.noNotify
      <4>1. ~r.noNotify /\ b.noNotify = r.noNotify
        BY <1>0, <2>1, OpsNote DEF KickRx
      <4> HIDE DEF b
      <4> QED
        BY <1>0, <3>3, <4>1, OneNew
    <3> HIDE DEF b
    <3>5. NoteSame(vq'["rx"], b)
      BY <3>1, <3>4, OpsNote
    <3>6. ~vq'["rx"].noNotify /\ (HasDescs(vq'["rx"]) => NDesc(vq'["rx"]) > 0)
          /\ NDesc(vq'["rx"]) = Len(chains)
      BY <3>1, <3>2, <3>4, <3>5, HasNDesc DEF NoteSame, HasDescs
    <3>7. chains # <<>> => mode.merge /\ Len(chains) < bbuf
      BY <1>0, <2>1 DEF RxControl
    <3>8. Len(chains) > 0 => chains # <<>>
      BY <1>0 DEF TypeOK
    <3>9. bbuf \in Nat
      BY <1>0, NetAssumption DEF TypeOK, NetAssumption
    <3> QED
      BY <1>1, <3>1, <3>3, <3>6, <3>7, <3>8, <3>9 DEF KickRx
  <2> QED
    BY <2>2, <2>3
<1> QED
  BY <1>6, <1>7, <1>8, <1>9 DEF EventStep

LEMMA KickTxStep == ASSUME TypeInv, Control, Kicks, TxStep PROVE Kicks'
<1> DEFINE r == vq["tx"]
<1>0. "tx" \in Queues /\ TypeOK /\ r \in Queue /\ TxControl /\ KickTx /\ UpControl
  BY DEF TxStep, TypeInv, TypeOK, Control, Kicks
<1>1. UNCHANGED <<up, posted, kick, cpc, epc, mode, bbuf, evWant>>
  BY TxFrame DEF driverVars, evVars
<1>2. "rx" \in Queues => KickRx'
  <2> SUFFICES ASSUME "rx" \in Queues PROVE KickRx'
    OBVIOUS
  <2>1. vq'["rx"] = vq["rx"]
    <3>1. vq' = vq \/ \E t : vq' = [vq EXCEPT !["tx"] = t]
      BY DEF TxStep, TxLock, TxLoop, TxEnable, TxRecheck, TxTake, TxRelease, TxMore, TxIntr,
             TxStart, TxWait, EndChains
    <3> QED
      BY <1>0, <3>1 DEF TypeOK
  <2>2. NoteSame(vq'["rx"], vq["rx"]) /\ KickRx
    BY <2>1, OpsNote DEF TypeOK, Kicks, NoteSame
  <2> QED
    BY <1>1, <2>2, KickRxSame
<1> SUFFICES KickTx'
  BY <1>2 DEF Kicks
<1>3. ASSUME ~txAsleep', tpc' # "recheck" PROVE KickTx'
  BY <1>3 DEF KickTx
<1>4. CASE TxLock
  BY <1>3, <1>4 DEF TxLock
<1>5. CASE TxLoop
  <2>1. ~txAsleep /\ txAsleep' = txAsleep /\ tpc' # "recheck"
    BY <1>0, <1>5 DEF TxLoop, TxStart, TxControl
  <2> QED
    BY <1>3, <2>1
<1>6. CASE TxEnable
  <2>1. ~txAsleep /\ txAsleep' = txAsleep /\ vq' = [vq EXCEPT !["tx"] = KickEnable(r)]
    BY <1>0, <1>6 DEF TxEnable, TxControl
  <2>2. vq'["tx"] = KickEnable(r)
    BY <1>0, <2>1, OneNew
  <2> QED
    BY <1>0, <2>1, <2>2, OpsNote DEF KickTx
<1>7. CASE TxRecheck
  <2>1. CASE ~resetting /\ HasDescs(r)
    <3>1. ~txAsleep /\ txAsleep' = txAsleep /\ tpc' # "recheck"
      BY <1>0, <1>7, <2>1 DEF TxRecheck, TxStart, TxControl
    <3> QED
      BY <1>3, <3>1
  <2>2. CASE resetting \/ ~HasDescs(r)
    <3>1. vq' = vq /\ ~r.noNotify
      BY <1>0, <1>7, <2>2 DEF TxRecheck, TxWait, KickTx
    <3>2. resetting => ~up
      BY <1>0 DEF UpControl
    <3> QED
      BY <1>1, <2>2, <3>1, <3>2 DEF KickTx
  <2> QED
    BY <2>1, <2>2
<1>8. CASE TxTake \/ TxRelease \/ TxMore \/ TxIntr
  <2>1. ~txAsleep /\ txAsleep' = txAsleep /\ tpc' # "recheck"
    BY <1>0, <1>8 DEF TxTake, TxRelease, TxMore, TxIntr, TxControl
  <2> QED
    BY <1>3, <2>1
<1> QED
  BY <1>4, <1>5, <1>6, <1>7, <1>8 DEF TxStep

\* The kicks themselves: pci_vtnet_ping_txq() and pci_vtnet_ping_rxq().
LEMMA KickPing ==
    ASSUME TypeInv, Control, Kicks,
           \/ "tx" \in Queues /\ (QNotifyTx \/ PingTx)
           \/ "rx" \in Queues /\ (QNotifyRx \/ PingRx)
    PROVE  Kicks'
<1>0. TypeOK /\ \A q \in Queues : vq[q] \in Queue /\ NoteSame(vq[q], vq[q])
  BY OpsNote DEF TypeInv, TypeOK
<1>1. CASE "tx" \in Queues /\ QNotifyTx
  <2>1. /\ UNCHANGED <<vq, txAsleep, tpc, up, posted, epc, mode, bbuf, evWant>>
        /\ kick' = kick \ {"tx"} /\ cpc = "run"
        /\ IF HasDescs(vq["tx"]) THEN cpc' = "kick_tx" ELSE cpc' = cpc
    BY <1>1 DEF QNotifyTx, netVars, evVars
  <2>2. KickTx'
    BY <1>1, <2>1 DEF KickTx, Kicks
  <2>3. "rx" \in Queues => KickRx'
    BY <1>0, <2>1, KickRxSame DEF Kicks
  <2> QED
    BY <2>2, <2>3 DEF Kicks
<1>2. CASE "rx" \in Queues /\ QNotifyRx
  <2>1. /\ UNCHANGED <<vq, txAsleep, tpc, up, posted, epc, mode, bbuf, evWant>>
        /\ kick' = kick \ {"rx"} /\ cpc = "run" /\ cpc' = "kick_rx"
    BY <1>2 DEF QNotifyRx, netVars, evVars
  <2>2. KickRx'
    BY <1>2, <2>1 DEF KickRx, Kicks
  <2>3. "tx" \in Queues => KickTx'
    BY <1>0, <2>1, KickTxSame DEF Kicks
  <2> QED
    BY <2>2, <2>3 DEF Kicks
<1>3. CASE "tx" \in Queues /\ PingTx
  <2>1. /\ UNCHANGED <<tpc, up, posted, kick, epc, mode, bbuf, evWant>> /\ cpc = "kick_tx"
        /\ vq' = [vq EXCEPT !["tx"] = KickDisable(vq["tx"])]
    BY <1>3 DEF PingTx, netVars, evVars, driverVars
  <2>2. tpc # "recheck" /\ ~(txAsleep /\ txInProgress)
    BY <1>3 DEF PingTx, Control, TxControl, NoThread
  <2>3. ~txAsleep'
    BY <1>3, <2>2 DEF PingTx
  <2>4. KickTx'
    BY <2>1, <2>2, <2>3 DEF KickTx
  <2>5. "rx" \in Queues => vq'["rx"] = vq["rx"]
    BY <1>0, <1>3, <2>1, OneNew
  <2>6. "rx" \in Queues => KickRx'
    BY <1>0, <2>1, <2>5, KickRxSame DEF Kicks
  <2> QED
    BY <2>4, <2>6 DEF Kicks
<1>4. CASE "rx" \in Queues /\ PingRx
  <2>1. /\ UNCHANGED <<tpc, txAsleep, up, posted, kick, epc, mode, bbuf>> /\ cpc = "kick_rx"
        /\ vq' = [vq EXCEPT !["rx"] = KickDisable(vq["rx"])]
    BY <1>4 DEF PingRx, netVars, driverVars
  <2>2. epc # "check" /\ evWant'
    BY <1>4 DEF PingRx, MeventUpdate, evVars, Control, RxControl, Work, NoThread
  <2>3. KickRx'
    BY <2>1, <2>2 DEF KickRx
  <2>4. "tx" \in Queues => vq'["tx"] = vq["tx"]
    BY <1>0, <1>4, <2>1, OneNew
  <2>5. "tx" \in Queues => KickTx'
    BY <1>0, <2>1, <2>4, KickTxSame DEF Kicks
  <2> QED
    BY <2>3, <2>5 DEF Kicks
<1> QED
  BY <1>1, <1>2, <1>3, <1>4

LEMMA KickDriver ==
    ASSUME TypeInv, Control, Kicks, NEW q \in Queues, Post(q) \/ DriverStep(q)
    PROVE  Kicks'
<1>0. TypeOK /\ \A p \in Queues : vq[p] \in Queue /\ NoteSame(vq[p], vq[p])
  BY OpsNote DEF TypeInv, TypeOK
<1>1. UNCHANGED <<txAsleep, tpc, up, cpc, epc, mode, bbuf, evWant>>
  BY DriverFrame DEF netVars, evVars
<1>2. ASSUME \A p \in Queues : NoteSame(vq'[p], vq[p]), UNCHANGED <<posted, kick>>
      PROVE  Kicks'
  BY <1>1, <1>2, KickTxSame, KickRxSame DEF Kicks
<1>3. CASE Post(q)
  <2>1. PICK h : vq' = [vq EXCEPT ![q] = DriverPost(vq[q], h)]
    BY <1>3 DEF Post
  <2>2. posted' = posted \cup {q} /\ kick' = kick
    BY <1>3 DEF Post
  <2>3. vq'[q] = DriverPost(vq[q], h) /\ \A p \in Queues \ {q} : vq'[p] = vq[p]
    BY <1>0, <2>1, OneNew
  <2>4. vq'[q].noNotify = vq[q].noNotify
    BY <1>0, <2>3, OpsNote
  <2>5. ASSUME "tx" \in Queues PROVE KickTx'
    <3>1. KickTx /\ (q # "tx" => NoteSame(vq'["tx"], vq["tx"]))
      BY <1>0, <2>3, <2>5 DEF Kicks
    <3>2. CASE q = "tx"
      BY <1>1, <2>2, <2>4, <3>1, <3>2 DEF KickTx
    <3>3. CASE q # "tx"
      BY <1>1, <2>2, <3>1, <3>3, KickTxSame
    <3> QED
      BY <3>2, <3>3
  <2>6. ASSUME "rx" \in Queues PROVE KickRx'
    <3>1. KickRx /\ (q # "rx" => NoteSame(vq'["rx"], vq["rx"]))
      BY <1>0, <2>3, <2>6 DEF Kicks
    <3>2. CASE q = "rx"
      BY <1>1, <2>2, <2>4, <3>1, <3>2 DEF KickRx
    <3>3. CASE q # "rx"
      BY <1>1, <2>2, <3>1, <3>3, KickRxSame
    <3> QED
      BY <3>2, <3>3
  <2> QED
    BY <2>5, <2>6 DEF Kicks
<1>4. CASE PostDone(q)
  <2>1. vq' = vq /\ posted' = posted \ {q} /\ kick' = IF vq[q].noNotify THEN kick ELSE kick \cup {q}
    BY <1>4 DEF PostDone
  <2>2. ASSUME "tx" \in Queues PROVE KickTx'
    BY <1>1, <2>1, <2>2 DEF Kicks, KickTx
  <2>3. ASSUME "rx" \in Queues PROVE KickRx'
    BY <1>1, <2>1, <2>3 DEF Kicks, KickRx
  <2> QED
    BY <2>2, <2>3 DEF Kicks
<1>5. CASE Interrupt(q)
  <2>1. \A p \in Queues : NoteSame(vq'[p], vq[p])
    BY <1>0, <1>5 DEF Interrupt, NoteSame, HasDescs, NDesc, Queue
  <2> QED
    BY <1>2, <1>5, <2>1 DEF Interrupt
<1>6. CASE Reap(q) \/ Recheck(q)
  <2>1. PICK b : vq' = [vq EXCEPT ![q] = WithIntr(vq[q], b)]
    BY <1>0, <1>6 DEF Reap, Recheck, WithIntr, TypeOK
  <2>2. vq'[q] = WithIntr(vq[q], b) /\ \A p \in Queues \ {q} : vq'[p] = vq[p]
    BY <1>0, <2>1, OneNew
  <2>3. NoteSame(WithIntr(vq[q], b), vq[q])
    BY <1>0, OpsNote
  <2>4. \A p \in Queues : NoteSame(vq'[p], vq[p])
    BY <1>0, <2>2, <2>3
  <2> QED
    BY <1>2, <1>6, <2>4 DEF Reap, Recheck
<1> QED
  BY <1>3, <1>4, <1>5, <1>6 DEF DriverStep

LEMMA KickLife ==
    ASSUME NoRxReset, TypeInv, Control, Kicks,
           Arrive \/ Setup \/ Reset \/ ResetRx \/ ResetTx \/ ResetSpin \/ ResetSleep
    PROVE  Kicks'
<1>0. TypeOK /\ UpControl /\ \A p \in Queues : vq[p] \in Queue /\ NoteSame(vq[p], vq[p])
  BY OpsNote DEF TypeInv, TypeOK, Control
<1>1. CASE Arrive
  <2>1. UNCHANGED <<vq, txAsleep, tpc, up, cpc, epc, mode, bbuf, evWant, posted, kick>>
    BY <1>1 DEF Arrive, netVars, evVars, driverVars
  <2> QED
    BY <1>0, <2>1, KickTxSame, KickRxSame DEF Kicks
<1>2. CASE Setup
  <2>1. \A p \in Queues : vq'[p] = NewQueue
    BY <1>2 DEF Setup
  <2>2. ~NewQueue.noNotify /\ ~HasDescs(NewQueue)
    BY DEF NewQueue, HasDescs
  <2> QED
    BY <2>1, <2>2 DEF Kicks, KickTx, KickRx
<1>3. CASE Reset
  <2>1. UNCHANGED <<vq, txAsleep, tpc, epc>> /\ ~up'
    BY <1>3 DEF Reset
  <2> QED
    BY <2>1 DEF Kicks, KickTx, KickRx
<1>4. CASE ResetRx \/ ResetTx \/ ResetSpin \/ ResetSleep
  <2>1. "rx" \notin Queues /\ ~up /\ UNCHANGED <<up, txAsleep, tpc>>
    BY <1>0, <1>4 DEF ResetRx, ResetTx, ResetSpin, ResetDev, ResetSleep, driverVars, UpControl
  <2>2. \A p \in Queues : vq'[p].noNotify = vq[p].noNotify
    BY <1>0, <1>4, OpsNote DEF ResetRx, ResetTx, ResetSpin, ResetDev, ResetSleep
  <2> QED
    BY <2>1, <2>2 DEF Kicks, KickTx
<1> QED
  BY <1>1, <1>2, <1>3, <1>4

LEMMA KickNext ==
    ASSUME NoRxReset, TypeInv, Control, Rings, Kicks, [Next]_vars
    PROVE  Kicks'
<1>1. CASE UNCHANGED vars
  BY <1>1 DEF vars, netVars, lockVars, evVars, driverVars, Kicks, KickTx, KickRx
<1> QED
  BY <1>1, KickEvent, KickTxStep, KickPing, KickDriver, KickLife DEF Next, VcpuStep

LEMMA KickInit == Init => Kicks
<1> SUFFICES ASSUME Init PROVE Kicks
  OBVIOUS
<1>1. \A q \in Queues : ~vq[q].noNotify /\ ~vq[q].alloc
  BY DEF Init, ResetQueue, NewQueue
<1> QED
  BY <1>1 DEF Init, Kicks, KickTx, KickRx

----------------------------------------------------------------------------
(* Interrupts *)

\* Nothing vq_endchains() looks at has changed.
IntrSame(a, b) == a.used = b.used /\ a.save = b.save /\ a.noIntr = b.noIntr

LEMMA OpsIntr ==
    ASSUME NEW r \in Queue
    PROVE  /\ IntrSame(r, r) /\ IntrSame(KickEnable(r), r) /\ IntrSame(KickDisable(r), r)
           /\ IntrSame(Taken(r), r) /\ \A n : IntrSame(RetChains(r, n), r)
           /\ \A h : IntrSame(DriverPost(r, h), r)
           /\ \A hs : RelChains(r, hs).noIntr = r.noIntr
           /\ EndSave(r).used = r.used /\ EndSave(r).noIntr = r.noIntr
BY DEF IntrSame, KickEnable, KickDisable, Taken, RetChains, RelChains, DriverPost, EndSave, Queue

LEMMA OwedKept ==
    ASSUME NEW q \in Queues, Owed(q), IntrSame(vq'[q], vq[q]), drv'[q] = drv[q],
           seen'[q] = seen[q], q \in pending => q \in pending',
           Busy(q) => Busy(q)', Ending(q) => Ending(q)'
    PROVE  Owed(q)'
<1>1. /\ (drv[q] = "idle" => ~vq[q].noIntr)
      /\ (drv[q] = "idle" /\ vq[q].used # seen[q] /\ q \notin pending =>
           (Busy(q) /\ vq[q].used # vq[q].save) \/ Ending(q))
  BY DEF Owed
<1>2. vq'[q].used = vq[q].used /\ vq'[q].save = vq[q].save /\ vq'[q].noIntr = vq[q].noIntr
  BY DEF IntrSame
<1> QED
  BY <1>1, <1>2 DEF Owed

\* vq_endchains() pays what is owed.
LEMMA OwedPaid ==
    ASSUME TypeOK, NEW q \in Queues, NEW r \in Queue, NEW all, NEW wants \in BOOLEAN,
           Owed(q), ~Ending(q), IntrSame(r, vq[q]), EndChains(q, r, all, wants),
           drv'[q] = drv[q], seen'[q] = seen[q], wants /\ ~mode.msix => Ending(q)'
    PROVE  Owed(q)'
<1>1. vq'[q] = EndSave(r)
  BY OneNew DEF EndChains
<1>2. vq'[q].used = vq[q].used /\ vq'[q].noIntr = vq[q].noIntr
  BY <1>1, OpsIntr DEF IntrSame
<1>3. q \in pending => q \in pending'
  BY DEF EndChains, Raised
<1>4. wants /\ mode.msix => q \in pending'
  BY DEF EndChains, Raised
<1>5. r.used # r.save /\ ~r.noIntr => wants
  BY DEF EndChains, EndIntr
<1>6. drv[q] = "idle" /\ vq[q].used # seen[q] /\ q \notin pending => wants
  BY <1>5 DEF Owed, IntrSame
<1> QED
  BY <1>2, <1>3, <1>4, <1>6 DEF Owed

LEMMA OwedEvent ==
    ASSUME BatchFits, TypeInv, Control, Rings, Batches, Interrupts, up, EventStep
    PROVE  Interrupts'
<1> DEFINE r == vq["rx"]
<1>0. "rx" \in Queues /\ TypeOK /\ r \in Queue /\ RxControl /\ Owed("rx")
  BY DEF EventStep, TypeInv, TypeOK, Control, Interrupts
<1>1. UNCHANGED <<up, drv, seen, tpc, mode>>
  BY EventFrame DEF driverVars, netVars
<1>2. pending \subseteq pending'
  BY DEF EventStep, Build, Poll, RxLock, Peek, PeekNone, GetChain, GetNone, RxEnable, Check, Recv,
         RxDropChain, RxIntr, RxFinish, EndChains, Raised
<1>3. ASSUME NEW q \in Queues, q # "rx" PROVE Owed(q)'
  <2>1. vq' = vq \/ \E t : vq' = [vq EXCEPT !["rx"] = t]
    BY RxFinishEnds DEF EventStep, Build, Poll, RxLock, Peek, PeekNone, GetChain, GetNone,
           RxEnable, Check, Recv, RxDropChain, RxIntr
  <2>2. vq'[q] = vq[q]
    BY <1>0, <1>3, <2>1 DEF TypeOK
  <2>3. IntrSame(vq'[q], vq[q]) /\ Owed(q)
    BY <2>2 DEF IntrSame, Interrupts
  <2>4. q = "tx"
    BY <1>3, QTwo DEF QueuesTwo
  <2>5. (Busy(q) => Busy(q)') /\ (Ending(q) => Ending(q)')
    BY <1>1, <2>4 DEF Busy, Ending
  <2> QED
    BY <1>1, <1>2, <2>3, <2>5, OwedKept
<1> SUFFICES Owed("rx")'
  BY <1>3 DEF Interrupts
<1>4. ASSUME IntrSame(vq'["rx"], r), Busy("rx") => Busy("rx")', Ending("rx") => Ending("rx")'
      PROVE  Owed("rx")'
  BY <1>0, <1>1, <1>2, <1>4, OwedKept
<1>5. CASE Build \/ Poll \/ RxLock \/ Peek \/ GetNone
  <2>1. vq' = vq /\ epc # "intr" /\ (epc \in Work => epc' \in Work)
    BY <1>5 DEF Build, Poll, RxLock, Peek, GetNone, Work
  <2> QED
    BY <1>0, <1>4, <2>1, OpsIntr DEF Busy, Ending
<1>6. CASE RxEnable \/ GetChain
  <2>1. /\ epc # "intr" /\ epc' \in Work
        /\ \E t \in {KickEnable(r), Taken(r)} : vq' = [vq EXCEPT !["rx"] = t]
    BY <1>6 DEF RxEnable, GetChain, Work
  <2>2. vq'["rx"] \in {KickEnable(r), Taken(r)}
    BY <1>0, <2>1, OneNew
  <2> QED
    BY <1>0, <1>4, <2>1, <2>2, OpsIntr DEF Busy, Ending
<1>7. CASE PeekNone
  <2>1. PICK wants \in BOOLEAN :
            EndChains("rx", r, FALSE, wants) /\ (wants /\ ~mode.msix => epc' = "intr")
    BY <1>7 DEF PeekNone, RxFinish
  <2>2. epc = "peek" /\ IntrSame(r, r)
    BY <1>0, <1>7, OpsIntr DEF PeekNone
  <2> QED
    BY <1>0, <1>1, <2>1, <2>2, OwedPaid DEF Ending
<1>8. CASE Check
  <2>1. CASE HasDescs(r)
    <3>1. epc # "intr" /\ epc' \in Work /\ vq' = [vq EXCEPT !["rx"] = KickDisable(r)]
      BY <1>8, <2>1 DEF Check, Work
    <3>2. vq'["rx"] = KickDisable(r)
      BY <1>0, <3>1, OneNew
    <3> QED
      BY <1>0, <1>4, <3>1, <3>2, OpsIntr DEF Busy, Ending
  <2>2. CASE ~HasDescs(r)
    <3> DEFINE b == RetChains(r, Len(chains))
    <3>1. PICK wants \in BOOLEAN :
              EndChains("rx", b, TRUE, wants) /\ (wants /\ ~mode.msix => epc' = "intr")
      BY <1>8, <2>2 DEF Check, RxFinish
    <3>2. epc = "check" /\ IntrSame(b, r)
      BY <1>0, <1>8, OpsIntr DEF Check
    <3>3. b \in Queue
      BY <1>0, RxHeld, RetAll DEF RingAt
    <3> HIDE DEF b
    <3> QED
      BY <1>0, <1>1, <3>1, <3>2, <3>3, OwedPaid DEF Ending
  <2> QED
    BY <2>1, <2>2
<1>9. CASE Recv \/ RxDropChain
  <2>1. \/ vq'["rx"].used = r.used /\ vq'["rx"].save = r.save
        \/ vq'["rx"].used # vq'["rx"].save
    BY <1>0, <1>9, LoadRecv
  <2>2. epc = "recv" /\ epc' = "peek"
    BY <1>9 DEF Recv, RxDropChain
  <2>3. vq'["rx"].noIntr = r.noIntr
    <3>1. \/ vq' = [vq EXCEPT !["rx"] = RetChains(r, Len(chains))]
          \/ vq' = [vq EXCEPT !["rx"] = RelChains(r, chains)]
          \/ vq' = [vq EXCEPT !["rx"] = RetChains(RelChains(r, <<chains[1]>>), Len(chains) - 1)]
      BY <1>0, <1>9 DEF Recv, RxDropChain, RelChain, TypeOK
    <3>2. /\ RetChains(r, Len(chains)).noIntr = r.noIntr /\ RelChains(r, chains).noIntr = r.noIntr
          /\ RetChains(RelChains(r, <<chains[1]>>), Len(chains) - 1).noIntr = r.noIntr
      BY <1>0 DEF RetChains, RelChains, Queue
    <3> QED
      BY <1>0, <3>1, <3>2, OneNew
  <2>4. Busy("rx")' /\ ~Ending("rx") /\ Busy("rx")
    BY <2>2 DEF Busy, Ending, Work
  <2>5. CASE vq'["rx"].used = r.used /\ vq'["rx"].save = r.save
    BY <1>4, <2>3, <2>4, <2>5 DEF IntrSame
  <2>6. CASE vq'["rx"].used # vq'["rx"].save
    BY <1>0, <1>1, <2>3, <2>4, <2>6 DEF Owed
  <2> QED
    BY <2>1, <2>5, <2>6
<1>10. CASE RxIntr
  <2>1. vq' = vq /\ "rx" \in pending'
    BY <1>0, <1>10 DEF RxIntr, Raised
  <2> QED
    BY <1>0, <1>1, <2>1 DEF Owed
<1> QED
  BY <1>5, <1>6, <1>7, <1>8, <1>9, <1>10 DEF EventStep

LEMMA OwedTx ==
    ASSUME BatchFits, TypeInv, Control, Rings, Batches, Interrupts, up, TxStep
    PROVE  Interrupts'
<1> DEFINE r == vq["tx"]
<1>0. "tx" \in Queues /\ TypeOK /\ r \in Queue /\ TxControl /\ Owed("tx")
  BY DEF TxStep, TypeInv, TypeOK, Control, Interrupts
<1>1. UNCHANGED <<up, drv, seen, epc, mode>>
  BY TxFrame DEF driverVars
<1>2. pending \subseteq pending'
  BY DEF TxStep, TxLock, TxLoop, TxEnable, TxRecheck, TxTake, TxRelease, TxMore, TxIntr,
         EndChains, Raised
<1>3. ASSUME NEW q \in Queues, q # "tx" PROVE Owed(q)'
  <2>1. vq' = vq \/ \E t : vq' = [vq EXCEPT !["tx"] = t]
    BY DEF TxStep, TxLock, TxLoop, TxEnable, TxRecheck, TxTake, TxRelease, TxMore, TxIntr,
           TxStart, TxWait, EndChains
  <2>2. vq'[q] = vq[q]
    BY <1>0, <1>3, <2>1 DEF TypeOK
  <2>3. IntrSame(vq'[q], vq[q]) /\ Owed(q)
    BY <2>2 DEF IntrSame, Interrupts
  <2>4. (Busy(q) => Busy(q)') /\ (Ending(q) => Ending(q)')
    BY <1>1, <1>3 DEF Busy, Ending
  <2> QED
    BY <1>1, <1>2, <2>3, <2>4, OwedKept
<1> SUFFICES Owed("tx")'
  BY <1>3 DEF Interrupts
<1>4. ASSUME IntrSame(vq'["tx"], r), Busy("tx") => Busy("tx")', Ending("tx") => Ending("tx")'
      PROVE  Owed("tx")'
  BY <1>0, <1>1, <1>2, <1>4, OwedKept
<1>5. CASE TxLock \/ TxLoop \/ TxEnable \/ TxRecheck
  <2>1. /\ tpc \notin {"proc", "rel", "more", "intr"}
        /\ \/ vq' = vq
           \/ \E t \in {KickEnable(r), KickDisable(r)} : vq' = [vq EXCEPT !["tx"] = t]
    BY <1>5 DEF TxLock, TxLoop, TxEnable, TxRecheck, TxStart, TxWait
  <2>2. vq'["tx"] \in {r, KickEnable(r), KickDisable(r)}
    BY <1>0, <2>1, OneNew
  <2> QED
    BY <1>0, <1>4, <2>1, <2>2, OpsIntr DEF Busy, Ending
<1>6. CASE TxTake
  <2>1. tpc = "proc" /\ tpc' = "rel" /\ vq' = [vq EXCEPT !["tx"] = Taken(r)]
    BY <1>6 DEF TxTake
  <2>2. vq'["tx"] = Taken(r)
    BY <1>0, <2>1, OneNew
  <2> QED
    BY <1>0, <1>4, <2>1, <2>2, OpsIntr DEF Busy, Ending
<1>7. CASE TxRelease
  <2>1. vq'["tx"].used # vq'["tx"].save
    BY <1>0, <1>7, LoadRelease
  <2>2. PICK h : vq' = [vq EXCEPT !["tx"] = RelChains(r, <<h>>)]
    BY <1>7 DEF TxRelease, RelChain
  <2>3. vq'["tx"].noIntr = r.noIntr
    BY <1>0, <2>2, OneNew, OpsIntr
  <2>4. Busy("tx")'
    BY <1>7 DEF TxRelease, Busy
  <2> QED
    BY <1>0, <1>1, <2>1, <2>3, <2>4 DEF Owed
<1>8. CASE TxMore
  <2>1. CASE HasDescs(r)
    <3>1. vq' = vq /\ tpc = "more" /\ tpc' = "proc"
      BY <1>8, <2>1 DEF TxMore
    <3> QED
      BY <1>0, <1>4, <3>1, OpsIntr DEF Busy, Ending
  <2>2. CASE ~HasDescs(r)
    <3>1. PICK wants \in BOOLEAN :
              EndChains("tx", r, TRUE, wants) /\ (wants /\ ~mode.msix => tpc' = "intr")
      BY <1>8, <2>2 DEF TxMore
    <3>2. tpc = "more" /\ IntrSame(r, r)
      BY <1>0, <1>8, OpsIntr DEF TxMore
    <3> QED
      BY <1>0, <1>1, <3>1, <3>2, OwedPaid DEF Ending
  <2> QED
    BY <2>1, <2>2
<1>9. CASE TxIntr
  <2>1. vq' = vq /\ "tx" \in pending'
    BY <1>0, <1>9 DEF TxIntr, Raised
  <2> QED
    BY <1>0, <1>1, <2>1 DEF Owed
<1> QED
  BY <1>5, <1>6, <1>7, <1>8, <1>9 DEF TxStep

LEMMA OwedDriver ==
    ASSUME TypeInv, Control, Interrupts, NEW q \in Queues, up, Post(q) \/ DriverStep(q)
    PROVE  Interrupts'
<1>0. TypeOK /\ \A p \in Queues : vq[p] \in Queue /\ IntrSame(vq[p], vq[p]) /\ Owed(p)
  BY OpsIntr DEF TypeInv, TypeOK, Interrupts
<1>1. UNCHANGED <<up, tpc, epc>>
  BY DriverFrame
<1>2. \A p \in Queues : (Busy(p) => Busy(p)') /\ (Ending(p) => Ending(p)')
  BY <1>1 DEF Busy, Ending
<1>3. ASSUME NEW p \in Queues, IntrSame(vq'[p], vq[p]), drv'[p] = drv[p], seen'[p] = seen[p],
             p \in pending => p \in pending'
      PROVE  Owed(p)'
  BY <1>0, <1>2, <1>3, OwedKept
<1> SUFFICES ASSUME NEW p \in Queues PROVE Owed(p)'
  BY DEF Interrupts
<1>4. CASE Post(q)
  <2>1. PICK h : vq' = [vq EXCEPT ![q] = DriverPost(vq[q], h)]
    BY <1>4 DEF Post
  <2>2. vq'[q] = DriverPost(vq[q], h) /\ \A s \in Queues \ {q} : vq'[s] = vq[s]
    BY <1>0, <2>1, OneNew
  <2>3. IntrSame(vq'[p], vq[p])
    BY <1>0, <2>2, OpsIntr
  <2> QED
    BY <1>3, <1>4, <2>3 DEF Post
<1>5. CASE PostDone(q)
  BY <1>0, <1>3, <1>5 DEF PostDone
<1>6. CASE Interrupt(q)
  <2>1. /\ vq'[p].used = vq[p].used /\ vq'[p].save = vq[p].save
        /\ drv'[p] = "idle" => drv[p] = "idle" /\ mode.msix /\ p # q
        /\ seen' = seen
    BY <1>6 DEF Interrupt, TypeOK, TypeInv, Queue
  <2>2. CASE drv'[p] # "idle"
    BY <2>2 DEF Owed
  <2>3. CASE drv'[p] = "idle"
    <3>1. drv'[p] = drv[p] /\ p # q /\ mode.msix
      BY <2>1, <2>3
    <3>2. vq'[p].noIntr = vq[p].noIntr
      BY <1>0, <1>6, <3>1 DEF Interrupt, Queue
    <3>3. p \in pending => p \in pending'
      BY <1>6, <3>1 DEF Interrupt
    <3> QED
      BY <1>3, <2>1, <3>1, <3>2, <3>3 DEF IntrSame
  <2> QED
    BY <2>2, <2>3
<1>7. CASE Reap(q)
  <2>1. /\ drv'[q] = "recheck" /\ pending' = pending
        /\ p # q => drv'[p] = drv[p] /\ seen'[p] = seen[p] /\ vq'[p] = vq[p]
    BY <1>0, <1>7 DEF Reap, TypeOK
  <2>2. CASE p = q
    BY <2>1, <2>2 DEF Owed
  <2>3. CASE p # q
    BY <1>0, <1>3, <2>1, <2>3
  <2> QED
    BY <2>2, <2>3
<1>8. CASE Recheck(q)
  <2>1. pending' = pending /\ seen' = seen /\ (p # q => drv'[p] = drv[p] /\ vq'[p] = vq[p])
    BY <1>0, <1>8 DEF Recheck, TypeOK
  <2>2. CASE p = q
    <3>1. drv'[q] = "idle" => vq[q].used = seen[q]
      BY <1>0, <1>8 DEF Recheck, TypeOK
    <3>2. vq'[q] = WithIntr(vq[q], vq[q].used # seen[q])
      BY <1>0, <1>8 DEF Recheck, TypeOK, WithIntr
    <3>3. WithIntr(vq[q], FALSE).used = vq[q].used /\ ~WithIntr(vq[q], FALSE).noIntr
      BY <1>0 DEF WithIntr, Queue
    <3>4. CASE vq[q].used = seen[q]
      <4>1. (vq[q].used # seen[q]) = FALSE
        BY <3>4
      <4>2. vq'[q] = WithIntr(vq[q], FALSE)
        BY <3>2, <4>1
      <4> QED
        BY <2>1, <2>2, <3>3, <3>4, <4>2 DEF Owed
    <3>5. CASE vq[q].used # seen[q]
      BY <2>2, <3>1, <3>5 DEF Owed
    <3> QED
      BY <3>4, <3>5
  <2>3. CASE p # q
    BY <1>0, <1>3, <2>1, <2>3
  <2> QED
    BY <2>2, <2>3
<1> QED
  BY <1>4, <1>5, <1>6, <1>7, <1>8 DEF DriverStep

LEMMA OwedNext ==
    ASSUME BatchFits, TypeInv, Control, Rings, Batches, Interrupts, [Next]_vars
    PROVE  Interrupts'
<1>0. TypeOK /\ UpControl /\ \A p \in Queues : vq[p] \in Queue /\ IntrSame(vq[p], vq[p])
  BY OpsIntr DEF TypeInv, TypeOK, Control
<1>1. ASSUME \A p \in Queues : IntrSame(vq'[p], vq[p]), UNCHANGED <<up, drv, seen, pending, tpc, epc>>
      PROVE  Interrupts'
  <2>1. \A p \in Queues : (Busy(p) => Busy(p)') /\ (Ending(p) => Ending(p)')
    BY <1>1 DEF Busy, Ending
  <2> QED
    BY <1>1, <2>1, OwedKept DEF Interrupts
<1>2. CASE UNCHANGED vars
  BY <1>0, <1>1, <1>2 DEF vars, driverVars
<1>3. CASE Reset \/ ResetRx \/ ResetTx \/ ResetSpin \/ ResetSleep
  <2>1. ~up'
    BY <1>0, <1>3 DEF Reset, ResetRx, ResetTx, ResetSpin, ResetDev, ResetSleep, UpControl, driverVars
  <2> QED
    BY <2>1 DEF Interrupts
<1>4. CASE EventStep
  <2>1. CASE ~up
    BY <1>4, <2>1, EventFrame DEF Interrupts, driverVars
  <2> QED
    BY <1>4, <2>1, OwedEvent
<1>5. CASE TxStep
  <2>1. CASE ~up
    BY <1>5, <2>1, TxFrame DEF Interrupts, driverVars
  <2> QED
    BY <1>5, <2>1, OwedTx
<1>6. CASE Arrive \/ QNotifyTx \/ QNotifyRx
  BY <1>0, <1>1, <1>6 DEF Arrive, QNotifyTx, QNotifyRx, driverVars
<1>7. ASSUME NEW q \in Queues, (q = "tx" /\ PingTx) \/ (q = "rx" /\ PingRx) PROVE Interrupts'
  <2>1. /\ vq' = [vq EXCEPT ![q] = KickDisable(vq[q])]
        /\ UNCHANGED <<up, drv, seen, pending, tpc, epc>>
    BY <1>7 DEF PingTx, PingRx, driverVars
  <2>2. vq'[q] = KickDisable(vq[q]) /\ \A p \in Queues \ {q} : vq'[p] = vq[p]
    BY <1>0, <2>1, OneNew
  <2>3. \A p \in Queues : IntrSame(vq'[p], vq[p])
    BY <1>0, <2>2, OpsIntr
  <2> QED
    BY <1>1, <2>1, <2>3
<1>8. CASE Setup
  <2>1. ASSUME NEW p \in Queues PROVE Owed(p)'
    <3>1. vq'[p] = NewQueue /\ seen'[p] = 0
      BY <1>0, <1>8 DEF Setup, UpControl
    <3>2. ~NewQueue.noIntr /\ NewQueue.used = 0
      BY DEF NewQueue
    <3> QED
      BY <3>1, <3>2 DEF Owed
  <2> QED
    BY <2>1 DEF Interrupts
<1>9. CASE \E q \in Queues : Post(q) \/ DriverStep(q)
  <2>1. PICK q \in Queues : Post(q) \/ DriverStep(q)
    BY <1>9
  <2>2. up
    BY <1>0, <2>1 DEF Post, DriverStep, PostDone, Interrupt, Reap, Recheck, UpControl
  <2> QED
    BY <2>1, <2>2, OwedDriver
<1>10. CASE VcpuStep
  BY <1>3, <1>6, <1>7, <1>10 DEF VcpuStep
<1> QED
  BY <1>2, <1>3, <1>4, <1>5, <1>6, <1>8, <1>9, <1>10 DEF Next

LEMMA NoteInit == Init => NoteInv
<1>1. Init => Batches /\ Interrupts
  BY DEF Init, Batches, Interrupts
<1> QED
  BY <1>1, NetInit, KickInit DEF NoteInv

LEMMA NoteNext == ASSUME NoRxReset, BatchFits, NoteInv, [Next]_vars PROVE NoteInv'
BY NetNext, KickNext, LoadNext, OwedNext DEF NoteInv, NetInv

LEMMA NoteImplies == NoteInv => NoLostNotification
<1> SUFFICES ASSUME NoteInv PROVE NoLostNotification
  OBVIOUS
<1>1. NoLostKick
  BY DEF NoteInv, Kicks, KickTx, KickRx, NoLostKick
<1>2. NoLostInterrupt
  BY QTwo DEF NoteInv, Interrupts, Owed, Busy, Ending, Work, NoLostInterrupt, QueuesTwo
<1> QED
  BY <1>1, <1>2 DEF NoLostNotification

\* Neither side of a virtio-net queue waits for a notification the other will
\* not send, whatever the interleaving of the vcpu, transmit and event threads
\* with the driver: vq_kick_enable() and the look at the ring after it lose no
\* kick, and vq_endchains() loses no interrupt as long as fewer chains are
\* used between two calls than its 16-bit indices can count.
THEOREM NoLostNotificationAlways ==
    ASSUME NoRxReset, BatchFits PROVE Spec => []NoLostNotification
<1>1. NoteInv /\ [Next]_vars => NoteInv'
  BY NoteNext
<1> QED
  BY <1>1, NoteInit, NoteImplies, PTL DEF Spec
============================================================================
