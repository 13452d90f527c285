--------------------------- MODULE StorageProofs ---------------------------
(* Proofs about the AHCI port of pci_ahci.c, for any number of slots and of   *)
(* backend requests to a command, and about the storage devices together.     *)
EXTENDS MCStorage, WellFoundedInduction, TLAPS

-----------------------------------------------------------------------------
(* The interrupt of the port                                                *)

Params ==
    /\ NumSlots \in Nat /\ NumSlots > 0 /\ MaxChunks \in Nat /\ MaxChunks > 0 /\ GuestOps \in Nat
    /\ Intrs \subseteq IntrModes

\* What the command engine looks at; an interrupt changes none of it.
SameCmd(p, q) ==
    /\ q.ci = p.ci /\ q.sact = p.sact /\ q.pending = p.pending /\ q.ccs = p.ccs /\ q.busy = p.busy
    /\ q.reset = p.reset /\ q.st = p.st /\ q.cr = p.cr /\ q.fre = p.fre /\ q.atapi = p.atapi /\ q.cmd = p.cmd
    /\ q.chunks = p.chunks /\ q.aior = p.aior /\ q.failed = p.failed /\ q.stale = p.stale /\ q.ops = p.ops

SameIntr(p, q) ==
    /\ q.is = p.is /\ q.ie = p.ie /\ q.his = p.his /\ q.ghcie = p.ghcie /\ q.intr = p.intr
    /\ q.lintr = p.lintr /\ q.msi = p.msi /\ q.isr = p.isr /\ q.seen = p.seen

Up(p)     == IF p.intr = "intx" THEN p.lintr ELSE p.msi \/ p.isr = "port" \/ p.isr = "ack"
Raised(p) == /\ p.ghcie /\ p.his /\ p.intr # "own" => Up(p)
             /\ p.intr = "poll" => p.ie = {} /\ ~p.ghcie
Announced(p) == Raised(p) /\ (p.ghcie /\ p.is \cap p.ie # {} => p.his /\ Up(p))

LEMMA PortIntrKeeps ==
    ASSUME NEW p \in Softc, Raised(p)
    PROVE  /\ PortIntr(p) \in Softc /\ Announced(PortIntr(p))
           /\ SameCmd(p, PortIntr(p)) /\ PortIntr(p).waitforclear = p.waitforclear
<1> DEFINE r == [p EXCEPT !.his = TRUE]
           m == SendMsi(r)
           l == AssertLine(r)
           q == PortIntr(p)
<1>1. /\ p.his \in BOOLEAN /\ p.ghcie \in BOOLEAN /\ p.msi \in BOOLEAN /\ p.lintr \in BOOLEAN
      /\ p.intr \in IntrModes
  BY DEF Softc
<1>2. /\ r \in Softc /\ SameCmd(p, r) /\ r.waitforclear = p.waitforclear
      /\ r.his = TRUE /\ r.is = p.is /\ r.ie = p.ie /\ r.ghcie = p.ghcie /\ r.intr = p.intr
      /\ r.lintr = p.lintr /\ r.msi = p.msi /\ r.isr = p.isr
  BY DEF Softc, SameCmd
<1> HIDE DEF r
<1>3. /\ m \in Softc /\ SameCmd(p, m) /\ m.waitforclear = p.waitforclear
      /\ m.his = TRUE /\ m.is = p.is /\ m.ie = p.ie /\ m.ghcie = p.ghcie /\ m.intr = p.intr
      /\ m.lintr = p.lintr /\ m.msi = TRUE /\ m.isr = p.isr
  BY <1>2 DEF Softc, SameCmd, SendMsi
<1>4. /\ l \in Softc /\ SameCmd(p, l) /\ l.waitforclear = p.waitforclear
      /\ l.his = TRUE /\ l.is = p.is /\ l.ie = p.ie /\ l.ghcie = p.ghcie /\ l.intr = p.intr
      /\ l.lintr = TRUE /\ l.msi = p.msi /\ l.isr = p.isr
  BY <1>2 DEF Softc, SameCmd, AssertLine
<1>5. q = IF p.is \cap p.ie = {} THEN p
          ELSE IF p.intr = "own" THEN IF p.ghcie THEN m ELSE r
          ELSE IF p.his THEN p
          ELSE IF ~p.ghcie THEN r
          ELSE IF p.intr = "shared" THEN m ELSE l
  BY DEF PortIntr, r
<1> HIDE DEF m, l, q
<1>6. q \in Softc /\ SameCmd(p, q) /\ q.waitforclear = p.waitforclear
  <2>1. SameCmd(p, p) BY DEF SameCmd
  <2> QED BY <1>2, <1>3, <1>4, <1>5, <2>1
<1>7. Announced(q)
  <2>1. CASE p.is \cap p.ie = {} BY <1>5, <2>1 DEF Announced
  <2>2. CASE p.is \cap p.ie # {} /\ p.intr = "own" /\ p.ghcie
    BY <1>3, <1>5, <2>2 DEF Announced, Raised, Up
  <2>3. CASE p.is \cap p.ie # {} /\ ~p.ghcie /\ (p.intr = "own" \/ ~p.his)
    BY <1>2, <1>5, <2>3 DEF Announced, Raised, Up
  <2>4. CASE p.is \cap p.ie # {} /\ p.intr # "own" /\ p.his BY <1>5, <2>4 DEF Announced, Raised, Up
  <2>5. CASE p.is \cap p.ie # {} /\ p.intr # "own" /\ ~p.his /\ p.ghcie
    BY <1>1, <1>3, <1>4, <1>5, <2>5 DEF Announced, Raised, Up, IntrModes
  <2> QED BY <1>1, <2>1, <2>2, <2>3, <2>4, <2>5
<1> QED BY <1>6, <1>7 DEF q

LEMMA WriteFisKeeps ==
    ASSUME NEW p \in Softc, Announced(p), NEW irq \in SUBSET Causes
    PROVE  /\ WriteFis(p, irq) \in Softc /\ Announced(WriteFis(p, irq))
           /\ SameCmd(p, WriteFis(p, irq))
           /\ WriteFis(p, irq).waitforclear = (p.waitforclear \/ (p.fre /\ "TFE" \in irq))
<1> DEFINE w == p.waitforclear \/ "TFE" \in irq
           q == [p EXCEPT !.waitforclear = w]
           r == [q EXCEPT !.is = q.is \cup irq]
<1>0. CASE ~p.fre
  <2>1. WriteFis(p, irq) = p BY <1>0 DEF WriteFis
  <2>2. p.waitforclear \in BOOLEAN BY DEF Softc
  <2> QED BY <1>0, <2>1, <2>2 DEF SameCmd
<1>1. p.waitforclear \in BOOLEAN /\ p.is \in SUBSET Causes BY DEF Softc
<1>2. w \in BOOLEAN BY <1>1
<1> HIDE DEF w
<1>3. /\ q \in Softc /\ SameCmd(p, q) /\ SameIntr(p, q) /\ q.waitforclear = w
  BY <1>2 DEF Softc, SameCmd, SameIntr
<1>4. Announced(q) BY <1>3 DEF Announced, Raised, Up, SameIntr
<1>5. q.is \in SUBSET Causes BY <1>1, <1>3 DEF SameIntr
<1>6. p.fre => WriteFis(p, irq) = IF irq \subseteq q.is THEN q ELSE PortIntr(r) BY DEF WriteFis, w
<1> HIDE DEF q
<1>7. /\ r \in Softc /\ SameCmd(q, r) /\ r.waitforclear = q.waitforclear /\ r.ghcie = q.ghcie /\ r.his = q.his
      /\ r.intr = q.intr /\ r.ie = q.ie /\ r.lintr = q.lintr /\ r.msi = q.msi /\ r.isr = q.isr
  <2>1. q.is \cup irq \in SUBSET Causes BY <1>5
  <2> QED BY <1>3, <2>1 DEF Softc, SameCmd
<1> HIDE DEF r
<1>8. Raised(r) BY <1>4, <1>7 DEF Announced, Raised, Up
<1>9. /\ PortIntr(r) \in Softc /\ Announced(PortIntr(r))
      /\ SameCmd(r, PortIntr(r)) /\ PortIntr(r).waitforclear = r.waitforclear
  BY <1>7, <1>8, PortIntrKeeps
<1>10. SameCmd(p, PortIntr(r)) BY <1>3, <1>7, <1>9 DEF SameCmd
<1>11. CASE p.fre
  <2>1. WriteFis(p, irq) \in {q, PortIntr(r)} BY <1>6, <1>11
  <2>2. WriteFis(p, irq).waitforclear = w BY <1>3, <1>7, <1>9, <2>1
  <2> QED BY <1>3, <1>4, <1>9, <1>10, <1>11, <2>1, <2>2 DEF w
<1> QED BY <1>0, <1>11

-----------------------------------------------------------------------------
(* The command engine                                                       *)

\* A slot without a command of before a reset of the controller: what is in
\* flight is an I/O command in ci or, when queued, in sact; what is left to
\* transfer is known; a command that failed keeps the port waiting; a port
\* that is stopped has none.
Fresh(p, s) ==
    /\ s \in p.pending => /\ s \notin p.failed
                          /\ \/ p.cmd[s] = "rw" /\ s \in p.ci
                             \/ p.cmd[s] = "ncq" /\ s \notin p.ci /\ (p.st => s \in p.sact)
    /\ s \in (p.ci \cup p.sact \cup p.pending) \ p.failed => (p.cmd[s] \in Async <=> p.chunks[s] > 0)
    /\ p.st /\ s \in p.ci /\ p.cmd[s] \in NcqKinds => s \in p.sact
    /\ ~p.cr => s \notin p.ci \cup p.sact \cup p.pending
    /\ p.st /\ s \in p.failed => p.waitforclear

\* The books of a slot. A slot in flight has one request; a slot whose bit is
\* set in ci or sact has a command in its table.
SlotOk(p, s) ==
    /\ s \in p.pending <=> p.aior[s] # "free"
    /\ s \in p.pending => p.chunks[s] > 0
    /\ s \in p.ci => p.cmd[s] # "none"
    /\ s \in p.sact => p.cmd[s] \in NcqKinds
    /\ s \in p.ci /\ p.cmd[s] = "srst" => p.ci = {s} /\ p.sact = {}
    /\ s \notin p.stale => Fresh(p, s)

Whole(p) ==
    /\ p.st => p.cr /\ p.fre
    /\ p.st /\ p.busy => \E s \in p.pending \cap p.ci : p.cmd[s] = "rw"

Port(p) == (\A s \in Slots : SlotOk(p, s)) /\ Whole(p)

Good(p) == p \in Softc /\ Announced(p) /\ Port(p)

\* How far a command has come, as the command service sees it.
Used(p, x) == x \in p.ci \cup p.sact \cup p.pending
St(p, x) == IF x \in p.stale THEN "lost" ELSE IF ~Used(p, x) THEN "free"
            ELSE IF x \in p.failed THEN "failed" ELSE "issued"
Wk(p, x) == IF St(p, x) = "issued" THEN p.chunks[x] ELSE 0
Mv(p, x) == p.aior[x] = "busy" /\ x \notin p.stale

\* The command of slot x stays where it is, completes with nothing left to
\* transfer, or fails.
Advances(p, q, x) ==
    /\ (Mv(q, x) <=> Mv(p, x))
    /\ \/ St(q, x) = St(p, x) /\ Wk(q, x) = Wk(p, x)
       \/ St(p, x) = "issued" /\ ~Mv(p, x) /\ Wk(p, x) = 0 /\ St(q, x) = "free"
       \/ St(p, x) = "issued" /\ ~Mv(p, x) /\ St(q, x) = "failed"

LEMMA AdvancesOn ==
    ASSUME NEW p, NEW q, NEW r, NEW x, Advances(p, q, x), Advances(q, r, x)
    PROVE  Advances(p, r, x)
BY DEF Advances

LEMMA AdvancesSame ==
    ASSUME NEW p, NEW q, NEW x, Used(q, x) <=> Used(p, x), x \in q.failed <=> x \in p.failed,
           x \in q.stale <=> x \in p.stale, q.chunks[x] = p.chunks[x], q.aior[x] = p.aior[x]
    PROVE  Advances(p, q, x)
BY DEF Advances, St, Wk, Mv

\* Nothing is said of a lost command.
LEMMA AdvancesLost ==
    ASSUME NEW p, NEW q, NEW x, x \in p.stale, x \in q.stale
    PROVE  Advances(p, q, x)
BY DEF Advances, St, Wk, Mv

SameRun(p, q)  == q.st = p.st /\ q.cr = p.cr /\ q.fre = p.fre /\ q.stale = p.stale /\ q.cmd = p.cmd
SameBase(p, q) == SameRun(p, q) /\ q.chunks = p.chunks

\* The slots that wait for the engine.
Waits(p) == p.ci \ p.pending

Ready(p, s) == Good(p) /\ p.st /\ ~p.busy /\ ~p.waitforclear /\ s \in Waits(p)

\* The engine takes commands: each completes, fails, is in flight or waits.
Turned(p, q) == Good(q) /\ q.st /\ \A x \in Slots : Advances(p, q, x)

LEMMA TakeDone ==
    ASSUME NEW p, NEW s \in Slots, Ready(p, s), p.cmd[s] \notin Async, NEW q,
           q \in Softc, Announced(q), SameBase(p, q), q.ci = p.ci \ {s}, q.sact = p.sact \ {s}, q.pending = p.pending,
           q.aior = p.aior, q.failed = p.failed, q.waitforclear = p.waitforclear, q.busy = FALSE
    PROVE  Turned(p, q)
<1>1. Good(p) /\ p.st /\ ~p.waitforclear /\ s \in p.ci /\ s \notin p.pending BY DEF Ready, Waits
<1>2. Port(p) /\ SlotOk(p, s) BY <1>1 DEF Good, Port
<1>3. Port(q)
  <2>1. ASSUME NEW x \in Slots PROVE SlotOk(q, x)
    <3>1. SlotOk(p, x) BY <1>2 DEF Port
    <3>2. x \in q.ci /\ q.cmd[x] = "srst" => FALSE BY <1>1, <3>1 DEF SlotOk, SameBase, SameRun
    <3>3. ASSUME x \notin q.stale PROVE Fresh(q, x)
      <4>1. Fresh(p, x) BY <3>1, <3>3 DEF SlotOk, SameBase, SameRun
      <4> QED BY <1>1, <4>1 DEF Fresh, SameBase, SameRun
    <3> QED BY <1>1, <3>1, <3>2, <3>3 DEF SlotOk, SameBase, SameRun
  <2>2. Whole(q) BY <1>2 DEF Whole, SameBase, SameRun, Port
  <2> QED BY <2>1, <2>2 DEF Port
<1>4. ASSUME NEW x \in Slots PROVE Advances(p, q, x)
  <2>1. CASE x # s BY <2>1, AdvancesSame DEF SameBase, SameRun, Used
  <2>2. CASE x = s /\ s \in p.stale BY <2>2, AdvancesLost DEF SameBase, SameRun
  <2>3. CASE x = s /\ s \notin p.stale
    <3>1. Fresh(p, s) BY <1>2, <2>3 DEF SlotOk
    <3>2. s \notin p.failed BY <1>1, <3>1 DEF Fresh
    <3>3. St(p, s) = "issued" /\ ~Mv(p, s) /\ ~Mv(q, s) BY <1>1, <1>2, <2>3, <3>2 DEF St, Mv, SlotOk, Used
    <3>4. p.chunks[s] = 0
      <4>1. p.chunks[s] \in Nat BY <1>1 DEF Good, Softc
      <4> QED BY <1>1, <3>1, <3>2, <4>1 DEF Fresh
    <3>5. Wk(p, s) = 0 BY <3>3, <3>4 DEF Wk
    <3>6. St(q, s) = "free" BY <1>1, <2>3 DEF St, SameBase, SameRun, Used
    <3> QED BY <2>3, <3>3, <3>5, <3>6 DEF Advances
  <2> QED BY <2>1, <2>2, <2>3
<1> QED BY <1>1, <1>3, <1>4 DEF Turned, Good, SameBase, SameRun

LEMMA TakeFails ==
    ASSUME NEW p, NEW s \in Slots, Ready(p, s), NEW q,
           q \in Softc, Announced(q), SameBase(p, q), q.ci = p.ci, q.sact = p.sact, q.pending = p.pending,
           q.aior = p.aior, q.failed = p.failed \cup {s}, q.waitforclear = TRUE, q.busy = FALSE
    PROVE  Turned(p, q)
<1>1. Good(p) /\ p.st /\ ~p.waitforclear /\ s \in p.ci /\ s \notin p.pending BY DEF Ready, Waits
<1>2. Port(p) /\ SlotOk(p, s) BY <1>1 DEF Good, Port
<1>3. Port(q)
  <2>1. ASSUME NEW x \in Slots PROVE SlotOk(q, x)
    <3>1. SlotOk(p, x) BY <1>2 DEF Port
    <3>2. ASSUME x \notin q.stale PROVE Fresh(q, x)
      <4>1. Fresh(p, x) BY <3>1, <3>2 DEF SlotOk, SameBase, SameRun
      <4> QED BY <1>1, <4>1 DEF Fresh, SameBase, SameRun
    <3> QED BY <1>1, <3>1, <3>2 DEF SlotOk, SameBase, SameRun
  <2>2. Whole(q) BY <1>2 DEF Whole, SameBase, SameRun, Port
  <2> QED BY <2>1, <2>2 DEF Port
<1>4. ASSUME NEW x \in Slots PROVE Advances(p, q, x)
  <2>1. CASE x # s BY <2>1, AdvancesSame DEF SameBase, SameRun, Used
  <2>2. CASE x = s /\ s \in p.stale BY <2>2, AdvancesLost DEF SameBase, SameRun
  <2>3. CASE x = s /\ s \notin p.stale
    <3>1. s \notin p.failed BY <1>1, <1>2, <2>3 DEF SlotOk, Fresh
    <3>2. St(p, s) = "issued" /\ ~Mv(p, s) /\ ~Mv(q, s) BY <1>1, <1>2, <2>3, <3>1 DEF St, Mv, SlotOk, Used
    <3>3. St(q, s) = "failed" BY <1>1, <2>3 DEF St, SameBase, SameRun, Used
    <3> QED BY <2>3, <3>2, <3>3 DEF Advances
  <2> QED BY <2>1, <2>2, <2>3
<1> QED BY <1>1, <1>3, <1>4 DEF Turned, Good, SameBase, SameRun

\* A request of slot s goes to the backend.
Queued(p, q, s) ==
    /\ SameRun(p, q) /\ q.sact = p.sact /\ q.pending = p.pending \cup {s} /\ q.failed = p.failed
    /\ q.waitforclear = p.waitforclear /\ q.aior[s] = "queued" /\ q.chunks[s] > 0
    /\ p.chunks[s] > 0 => q.chunks[s] = p.chunks[s]
    /\ \A x \in Slots : x # s => q.aior[x] = p.aior[x] /\ q.chunks[x] = p.chunks[x]

LEMMA TakeQueues ==
    ASSUME NEW p, NEW s \in Slots, Ready(p, s), NEW q, q \in Softc, Announced(q), Queued(p, q, s),
           \/ p.cmd[s] = "rw" /\ q.ci = p.ci
           \/ p.cmd[s] = "ncq" /\ q.ci = p.ci \ {s} /\ q.busy = FALSE
    PROVE  Turned(p, q)
<1>1. Good(p) /\ p.st /\ ~p.waitforclear /\ s \in p.ci /\ s \notin p.pending BY DEF Ready, Waits
<1>2. Port(p) /\ SlotOk(p, s) BY <1>1 DEF Good, Port
<1>3. s \notin p.stale => Fresh(p, s) /\ s \notin p.failed /\ q.chunks[s] = p.chunks[s]
  BY <1>1, <1>2 DEF SlotOk, Fresh, Async, Queued
<1>4. p.cmd[s] = "ncq" => p.cmd[s] \in NcqKinds BY DEF NcqKinds
<1>5. Port(q)
  <2>1. ASSUME NEW x \in Slots, x \in q.ci, q.cmd[x] = "srst" PROVE FALSE
    <3>1. x # s /\ x \in p.ci /\ p.cmd[x] = "srst" BY <2>1 DEF SameRun, Queued
    <3> QED BY <1>1, <1>2, <3>1 DEF Port, SlotOk
  <2>2. ASSUME NEW x \in Slots PROVE SlotOk(q, x)
    <3>1. SlotOk(p, x) BY <1>2 DEF Port
    <3>2. CASE x = s
      <4>1. ASSUME s \notin q.stale PROVE Fresh(q, s)
        <5>1. Fresh(p, s) /\ s \notin p.failed /\ q.chunks[s] = p.chunks[s] BY <1>3, <4>1 DEF SameRun, Queued
        <5> QED BY <1>1, <1>4, <5>1 DEF Fresh, SameRun, Queued
      <4> QED BY <1>1, <1>2, <2>1, <3>2, <4>1 DEF SlotOk, SameRun, Queued
    <3>3. CASE x # s
      <4>1. ASSUME x \notin q.stale PROVE Fresh(q, x)
        <5>1. Fresh(p, x) BY <3>1, <4>1 DEF SlotOk, SameRun, Queued
        <5> QED BY <1>1, <3>3, <5>1 DEF Fresh, SameRun, Queued
      <4> QED BY <1>1, <2>1, <3>1, <3>3, <4>1 DEF SlotOk, SameRun, Queued
    <3> QED BY <3>2, <3>3
  <2>3. q.busy => \E x \in q.pending \cap q.ci : q.cmd[x] = "rw" BY <1>1 DEF SameRun, Queued
  <2>4. Whole(q) BY <1>2, <2>3 DEF Whole, SameRun, Queued, Port
  <2> QED BY <2>2, <2>4 DEF Port
<1>6. ASSUME NEW x \in Slots PROVE Advances(p, q, x)
  <2>1. CASE x # s BY <2>1, AdvancesSame DEF SameRun, Queued, Used
  <2>2. CASE x = s /\ s \in p.stale BY <2>2, AdvancesLost DEF SameRun, Queued
  <2>3. CASE x = s /\ s \notin p.stale
    <3>1. ~Mv(p, s) /\ ~Mv(q, s) BY <1>1, <1>2 DEF Mv, SlotOk, Queued
    <3>2. St(q, s) = St(p, s) BY <1>1, <2>3 DEF St, Used, SameRun, Queued
    <3>3. Wk(q, s) = Wk(p, s) BY <1>3, <2>3, <3>2 DEF Wk
    <3> QED BY <2>3, <3>1, <3>2, <3>3 DEF Advances
  <2> QED BY <2>1, <2>2, <2>3
<1> QED BY <1>1, <1>5, <1>6 DEF Turned, Good, SameRun, Queued

\* ahci_write_fis_d2h(), ahci_write_fis_sdb() and ahci_write_fis_d2h_ncq() of
\* a command that is handled at once.
LEMMA FisKeeps ==
    ASSUME NEW p \in Softc, Announced(p), NEW s \in Slots, NEW ok \in BOOLEAN
    PROVE  /\ WriteFisD2h(p, s, ok) \in Softc /\ Announced(WriteFisD2h(p, s, ok))
           /\ SameBase(p, WriteFisD2h(p, s, ok))
           /\ WriteFisD2h(p, s, ok).ci = (IF ok THEN p.ci \ {s} ELSE p.ci)
           /\ WriteFisD2h(p, s, ok).sact = p.sact /\ WriteFisD2h(p, s, ok).pending = p.pending
           /\ WriteFisD2h(p, s, ok).aior = p.aior /\ WriteFisD2h(p, s, ok).busy = FALSE
           /\ WriteFisD2h(p, s, ok).failed = (IF ok THEN p.failed ELSE p.failed \cup {s})
           /\ WriteFisD2h(p, s, ok).waitforclear = (IF ok THEN p.waitforclear ELSE p.waitforclear \/ p.fre)
<1> DEFINE a == [p EXCEPT !.ci = p.ci \ {s}, !.busy = FALSE]
           b == [p EXCEPT !.busy = FALSE, !.failed = p.failed \cup {s}]
<1>0. p.ci \in SUBSET Slots /\ p.failed \in SUBSET Slots /\ p.waitforclear \in BOOLEAN /\ p.fre \in BOOLEAN BY DEF Softc
<1>1. CASE ok
  <2>1. /\ a \in Softc /\ SameBase(p, a) /\ SameIntr(p, a) /\ a.ci = p.ci \ {s} /\ a.sact = p.sact
        /\ a.pending = p.pending /\ a.aior = p.aior /\ a.busy = FALSE /\ a.failed = p.failed
        /\ a.waitforclear = p.waitforclear
    BY <1>0 DEF Softc, SameBase, SameRun, SameIntr
  <2>2. WriteFisD2h(p, s, ok) = WriteFis(a, {"DHR"}) BY <1>1 DEF WriteFisD2h
  <2> HIDE DEF a
  <2>3. Announced(a) BY <2>1 DEF Announced, Raised, Up, SameIntr
  <2>4. {"DHR"} \in SUBSET Causes /\ "TFE" \notin {"DHR"} BY DEF Causes
  <2>5. /\ WriteFis(a, {"DHR"}) \in Softc /\ Announced(WriteFis(a, {"DHR"})) /\ SameCmd(a, WriteFis(a, {"DHR"}))
        /\ WriteFis(a, {"DHR"}).waitforclear = p.waitforclear
    BY <1>0, <2>1, <2>3, <2>4, WriteFisKeeps DEF SameBase, SameRun
  <2> QED BY <1>1, <2>1, <2>2, <2>5 DEF SameCmd, SameBase, SameRun
<1>2. CASE ~ok
  <2>1. /\ b \in Softc /\ SameBase(p, b) /\ SameIntr(p, b) /\ b.ci = p.ci /\ b.sact = p.sact
        /\ b.pending = p.pending /\ b.aior = p.aior /\ b.busy = FALSE /\ b.failed = p.failed \cup {s}
        /\ b.waitforclear = p.waitforclear
    BY <1>0 DEF Softc, SameBase, SameRun, SameIntr
  <2>2. WriteFisD2h(p, s, ok) = WriteFis(b, {"DHR", "TFE"}) BY <1>2 DEF WriteFisD2h
  <2> HIDE DEF b
  <2>3. Announced(b) BY <2>1 DEF Announced, Raised, Up, SameIntr
  <2>4. {"DHR", "TFE"} \in SUBSET Causes /\ "TFE" \in {"DHR", "TFE"} BY DEF Causes
  <2>5. /\ WriteFis(b, {"DHR", "TFE"}) \in Softc /\ Announced(WriteFis(b, {"DHR", "TFE"}))
        /\ SameCmd(b, WriteFis(b, {"DHR", "TFE"})) /\ WriteFis(b, {"DHR", "TFE"}).waitforclear = (p.waitforclear \/ p.fre)
    BY <1>0, <2>1, <2>3, <2>4, WriteFisKeeps DEF SameBase, SameRun
  <2> QED BY <1>2, <2>1, <2>2, <2>5 DEF SameCmd, SameBase, SameRun
<1> QED BY <1>1, <1>2

LEMMA SdbKeeps ==
    ASSUME NEW p \in Softc, Announced(p), NEW s \in Slots, NEW ok \in BOOLEAN
    PROVE  /\ WriteFisSdb(p, s, ok) \in Softc /\ Announced(WriteFisSdb(p, s, ok))
           /\ SameBase(p, WriteFisSdb(p, s, ok))
           /\ WriteFisSdb(p, s, ok).sact = (IF ok THEN p.sact \ {s} ELSE p.sact)
           /\ WriteFisSdb(p, s, ok).ci = p.ci /\ WriteFisSdb(p, s, ok).pending = p.pending
           /\ WriteFisSdb(p, s, ok).aior = p.aior /\ WriteFisSdb(p, s, ok).busy = p.busy
           /\ WriteFisSdb(p, s, ok).failed = (IF ok THEN p.failed ELSE p.failed \cup {s})
           /\ WriteFisSdb(p, s, ok).waitforclear = (IF ok THEN p.waitforclear ELSE p.waitforclear \/ p.fre)
<1> DEFINE a == [p EXCEPT !.sact = p.sact \ {s}]
           b == [p EXCEPT !.failed = p.failed \cup {s}]
<1>0. p.sact \in SUBSET Slots /\ p.failed \in SUBSET Slots /\ p.waitforclear \in BOOLEAN /\ p.fre \in BOOLEAN BY DEF Softc
<1>1. CASE ok
  <2>1. /\ a \in Softc /\ SameBase(p, a) /\ SameIntr(p, a) /\ a.ci = p.ci /\ a.sact = p.sact \ {s}
        /\ a.pending = p.pending /\ a.aior = p.aior /\ a.busy = p.busy /\ a.failed = p.failed
        /\ a.waitforclear = p.waitforclear
    BY <1>0 DEF Softc, SameBase, SameRun, SameIntr
  <2>2. WriteFisSdb(p, s, ok) = WriteFis(a, {"SDB"}) BY <1>1 DEF WriteFisSdb
  <2> HIDE DEF a
  <2>3. Announced(a) BY <2>1 DEF Announced, Raised, Up, SameIntr
  <2>4. {"SDB"} \in SUBSET Causes /\ "TFE" \notin {"SDB"} BY DEF Causes
  <2>5. /\ WriteFis(a, {"SDB"}) \in Softc /\ Announced(WriteFis(a, {"SDB"})) /\ SameCmd(a, WriteFis(a, {"SDB"}))
        /\ WriteFis(a, {"SDB"}).waitforclear = p.waitforclear
    BY <1>0, <2>1, <2>3, <2>4, WriteFisKeeps DEF SameBase, SameRun
  <2> QED BY <1>1, <2>1, <2>2, <2>5 DEF SameCmd, SameBase, SameRun
<1>2. CASE ~ok
  <2>1. /\ b \in Softc /\ SameBase(p, b) /\ SameIntr(p, b) /\ b.ci = p.ci /\ b.sact = p.sact
        /\ b.pending = p.pending /\ b.aior = p.aior /\ b.busy = p.busy /\ b.failed = p.failed \cup {s}
        /\ b.waitforclear = p.waitforclear
    BY <1>0 DEF Softc, SameBase, SameRun, SameIntr
  <2>2. WriteFisSdb(p, s, ok) = WriteFis(b, {"SDB", "TFE"}) BY <1>2 DEF WriteFisSdb
  <2> HIDE DEF b
  <2>3. Announced(b) BY <2>1 DEF Announced, Raised, Up, SameIntr
  <2>4. {"SDB", "TFE"} \in SUBSET Causes /\ "TFE" \in {"SDB", "TFE"} BY DEF Causes
  <2>5. /\ WriteFis(b, {"SDB", "TFE"}) \in Softc /\ Announced(WriteFis(b, {"SDB", "TFE"}))
        /\ SameCmd(b, WriteFis(b, {"SDB", "TFE"})) /\ WriteFis(b, {"SDB", "TFE"}).waitforclear = (p.waitforclear \/ p.fre)
    BY <1>0, <2>1, <2>3, <2>4, WriteFisKeeps DEF SameBase, SameRun
  <2> QED BY <1>2, <2>1, <2>2, <2>5 DEF SameCmd, SameBase, SameRun
<1> QED BY <1>1, <1>2

\* A request goes to the backend.
LEMMA EnqueueKeeps ==
    ASSUME Params, NEW p \in Softc, Announced(p), NEW s \in Slots, NEW e, e = Enqueue(p, s)
    PROVE  e \in Softc /\ Announced(e) /\ Queued(p, e, s) /\ e.ci = p.ci /\ e.busy = p.busy
<1> DEFINE u == p.pending \cup {s}
           v == [p.aior EXCEPT ![s] = "queued"]
           n == IF p.chunks[s] = 0 THEN 1 ELSE p.chunks[s]
           c == [p.chunks EXCEPT ![s] = n]
<1>1. /\ p.aior \in [Slots -> {"free", "queued", "busy"}] /\ p.chunks \in [Slots -> 0..MaxChunks]
      /\ p.pending \in SUBSET Slots
  BY DEF Softc
<1>2. n \in 0..MaxChunks /\ n > 0 /\ (p.chunks[s] > 0 => n = p.chunks[s])
  <2>1. p.chunks[s] \in 0..MaxChunks BY <1>1
  <2> QED BY <2>1 DEF Params
<1>3. e = [p EXCEPT !.pending = u, !.aior = v, !.chunks = c] BY <1>1 DEF Enqueue, Softc
<1> HIDE DEF n
<1>4. /\ u \in SUBSET Slots /\ v \in [Slots -> {"free", "queued", "busy"}] /\ v[s] = "queued"
      /\ c \in [Slots -> 0..MaxChunks] /\ c[s] = n
      /\ \A x \in Slots : x # s => v[x] = p.aior[x] /\ c[x] = p.chunks[x]
  BY <1>1, <1>2
<1> HIDE DEF v, c
<1>5. /\ e \in Softc /\ SameIntr(p, e) /\ SameRun(p, e) /\ e.ci = p.ci /\ e.sact = p.sact /\ e.pending = u
      /\ e.aior = v /\ e.chunks = c /\ e.failed = p.failed /\ e.waitforclear = p.waitforclear /\ e.busy = p.busy
  <2> DEFINE a == [p EXCEPT !.pending = u]
             b == [a EXCEPT !.aior = v]
  <2> HIDE DEF u
  <2>1. /\ a \in Softc /\ SameIntr(p, a) /\ SameRun(p, a) /\ a.ci = p.ci /\ a.sact = p.sact /\ a.pending = u
        /\ a.failed = p.failed /\ a.waitforclear = p.waitforclear /\ a.busy = p.busy
    BY <1>4 DEF Softc, SameIntr, SameRun
  <2>2. e = [b EXCEPT !.chunks = c] BY <1>3
  <2> HIDE DEF a
  <2>3. /\ b \in Softc /\ SameIntr(a, b) /\ SameRun(a, b) /\ b.ci = a.ci /\ b.sact = a.sact /\ b.pending = a.pending
        /\ b.aior = v /\ b.failed = a.failed /\ b.waitforclear = a.waitforclear /\ b.busy = a.busy
    BY <1>4, <2>1 DEF Softc, SameIntr, SameRun
  <2> HIDE DEF b
  <2>4. /\ e \in Softc /\ SameIntr(b, e) /\ SameRun(b, e) /\ e.ci = b.ci /\ e.sact = b.sact /\ e.pending = b.pending
        /\ e.aior = b.aior /\ e.chunks = c /\ e.failed = b.failed /\ e.waitforclear = b.waitforclear /\ e.busy = b.busy
    BY <1>4, <2>2, <2>3 DEF Softc, SameIntr, SameRun
  <2> QED BY <2>1, <2>3, <2>4 DEF SameIntr, SameRun
<1>6. Announced(e) BY <1>5 DEF Announced, Raised, Up, SameIntr
<1> QED BY <1>2, <1>4, <1>5, <1>6 DEF Queued

LEMMA SlotTaken ==
    ASSUME Params, NEW p, NEW s \in Slots, Ready(p, s)
    PROVE  Turned(p, HandleSlot(p, s))
<1> DEFINE q == [p EXCEPT !.busy = TRUE]
           k == p.cmd[s]
<1>0. /\ p \in Softc /\ Announced(p) /\ Port(p) /\ p.st /\ ~p.busy /\ ~p.waitforclear /\ s \in p.ci /\ s \notin p.pending
      /\ p.ci \in SUBSET Slots /\ p.sact \in SUBSET Slots /\ p.pending \in SUBSET Slots /\ p.busy \in BOOLEAN
      /\ p.aior \in [Slots -> {"free", "queued", "busy"}] /\ SlotOk(p, s) /\ p.busy = FALSE
      /\ p.fre = TRUE
  BY DEF Ready, Good, Waits, Softc, Port, Whole
<1>1. k \in Kinds /\ (s \in p.sact => k \in NcqKinds)
  BY <1>0 DEF SlotOk, Softc
<1>2. /\ q \in Softc /\ SameBase(p, q) /\ SameIntr(p, q) /\ q.ci = p.ci /\ q.sact = p.sact /\ q.pending = p.pending
      /\ q.aior = p.aior /\ q.failed = p.failed /\ q.waitforclear = p.waitforclear /\ q.cmd = p.cmd
  BY <1>0 DEF Softc, SameBase, SameRun, SameIntr
<1> HIDE DEF q
<1>3. Announced(q) BY <1>0, <1>2 DEF Announced, Raised, Up, SameIntr
<1>4. CASE k = "now"
  <2>1. HandleSlot(p, s) = WriteFisD2h(q, s, TRUE) BY <1>4 DEF HandleSlot, HandleCmd, q
  <2>2. s \notin p.sact BY <1>1, <1>4 DEF NcqKinds
  <2>3. p.sact \ {s} = p.sact /\ k \notin Async BY <2>2, <1>4 DEF Async
  <2> DEFINE r == WriteFisD2h(q, s, TRUE)
  <2>4. /\ r \in Softc /\ Announced(r) /\ SameBase(p, r) /\ r.ci = p.ci \ {s} /\ r.sact = p.sact \ {s}
        /\ r.pending = p.pending /\ r.aior = p.aior /\ r.failed = p.failed /\ r.waitforclear = p.waitforclear
        /\ r.busy = FALSE
    <3>1. TRUE \in BOOLEAN /\ q \in Softc /\ Announced(q) BY <1>2, <1>3
    <3>2. /\ r \in Softc /\ Announced(r) /\ SameBase(q, r) /\ r.ci = q.ci \ {s} /\ r.sact = q.sact
          /\ r.pending = q.pending /\ r.aior = q.aior /\ r.failed = q.failed /\ r.waitforclear = q.waitforclear
          /\ r.busy = FALSE
      BY <3>1, FisKeeps
    <3> HIDE DEF r
    <3> QED BY <1>2, <2>3, <3>2 DEF SameBase, SameRun
  <2> HIDE DEF r
  <2>5. Turned(p, r) BY <2>3, <2>4, TakeDone
  <2> QED BY <2>1, <2>5 DEF r
<1>5. CASE k = "bad" \/ k = "ncqbad"
  <2>1. HandleSlot(p, s) = WriteFisD2h(q, s, FALSE) BY <1>5 DEF HandleSlot, HandleCmd, q
  <2> DEFINE r == WriteFisD2h(q, s, FALSE)
  <2>4. /\ r \in Softc /\ Announced(r) /\ SameBase(p, r) /\ r.ci = p.ci /\ r.sact = p.sact
        /\ r.pending = p.pending /\ r.aior = p.aior /\ r.failed = p.failed \cup {s} /\ r.waitforclear = TRUE
        /\ r.busy = FALSE
    <3>1. FALSE \in BOOLEAN /\ q \in Softc /\ Announced(q) BY <1>2, <1>3
    <3>2. /\ r \in Softc /\ Announced(r) /\ SameBase(q, r) /\ r.ci = q.ci /\ r.sact = q.sact
          /\ r.pending = q.pending /\ r.aior = q.aior /\ r.failed = q.failed \cup {s}
          /\ r.waitforclear = (q.waitforclear \/ q.fre) /\ r.busy = FALSE
      BY <3>1, FisKeeps
    <3> HIDE DEF r
    <3>3. q.fre = TRUE BY <1>0, <1>2 DEF SameBase, SameRun
    <3> QED BY <1>2, <3>2, <3>3 DEF SameBase, SameRun
  <2> HIDE DEF r
  <2>5. Turned(p, r) BY <2>4, TakeFails
  <2> QED BY <2>1, <2>5 DEF r
<1> DEFINE e == Enqueue(q, s)
<1>6. e \in Softc /\ Announced(e) /\ Queued(q, e, s) /\ e.ci = q.ci BY <1>2, <1>3, EnqueueKeeps
<1> HIDE DEF e
<1>7. Queued(p, e, s) /\ e.ci = p.ci BY <1>2, <1>6 DEF Queued, SameBase, SameRun
<1>8. CASE k = "rw"
  <2>1. HandleSlot(p, s) = e BY <1>8 DEF HandleSlot, HandleCmd, q, e
  <2>2. Turned(p, e) BY <1>6, <1>7, <1>8, TakeQueues
  <2> QED BY <2>1, <2>2
<1>9. CASE k = "ncq"
  <2> DEFINE r == WriteFisD2hNcq(e, s)
  <2>1. HandleSlot(p, s) = r BY <1>9 DEF HandleSlot, HandleCmd, q, e
  <2>2. /\ r \in Softc /\ SameBase(e, r) /\ SameIntr(e, r) /\ r.ci = e.ci \ {s} /\ r.sact = e.sact
        /\ r.pending = e.pending /\ r.aior = e.aior /\ r.failed = e.failed
        /\ r.waitforclear = e.waitforclear /\ r.busy = FALSE
    <3>1. e.ci \ {s} \in SUBSET Slots BY <1>0, <1>7
    <3> QED BY <1>6, <3>1 DEF WriteFisD2hNcq, Softc, SameBase, SameRun, SameIntr
  <2> HIDE DEF r
  <2>3. Announced(r) BY <1>6, <2>2 DEF Announced, Raised, Up, SameIntr
  <2>4. Queued(p, r, s) /\ r.ci = p.ci \ {s} BY <1>7, <2>2 DEF Queued, SameBase, SameRun
  <2>5. Turned(p, r) BY <1>9, <2>2, <2>3, <2>4, TakeQueues
  <2> QED BY <2>1, <2>5
<1>10. CASE k = "ncqnow"
  <2> DEFINE d == WriteFisD2hNcq(q, s)
             r == WriteFisSdb(d, s, TRUE)
  <2>1. HandleSlot(p, s) = r BY <1>10 DEF HandleSlot, HandleCmd, q
  <2>2. /\ d \in Softc /\ SameBase(q, d) /\ SameIntr(q, d) /\ d.ci = q.ci \ {s} /\ d.sact = q.sact
        /\ d.pending = q.pending /\ d.aior = q.aior /\ d.failed = q.failed
        /\ d.waitforclear = q.waitforclear /\ d.busy = FALSE
    <3>1. q.ci \ {s} \in SUBSET Slots BY <1>0, <1>2
    <3> QED BY <1>2, <3>1 DEF WriteFisD2hNcq, Softc, SameBase, SameRun, SameIntr
  <2> HIDE DEF d
  <2>3. Announced(d) BY <1>3, <2>2 DEF Announced, Raised, Up, SameIntr
  <2>4. /\ r \in Softc /\ Announced(r) /\ SameBase(d, r) /\ r.ci = d.ci /\ r.sact = d.sact \ {s}
        /\ r.pending = d.pending /\ r.aior = d.aior /\ r.failed = d.failed /\ r.waitforclear = d.waitforclear
        /\ r.busy = d.busy
    BY <2>2, <2>3, SdbKeeps
  <2> HIDE DEF r
  <2>5. /\ SameBase(p, r) /\ r.ci = p.ci \ {s} /\ r.sact = p.sact \ {s} /\ r.pending = p.pending
        /\ r.aior = p.aior /\ r.failed = p.failed /\ r.waitforclear = p.waitforclear /\ r.busy = FALSE
    BY <1>2, <2>2, <2>4 DEF SameBase, SameRun
  <2>6. k \notin Async BY <1>10 DEF Async
  <2>7. Turned(p, r) BY <2>4, <2>5, <2>6, TakeDone
  <2> QED BY <2>1, <2>7
<1>11. CASE k = "srst"
  <2>1. p.ci = {s} /\ p.sact = {} BY <1>0, <1>11 DEF SlotOk
  <2> DEFINE r == IF p.reset THEN [PortReset([p EXCEPT !.reset = FALSE]) EXCEPT !.ci = @ \ {s}]
                  ELSE [p EXCEPT !.reset = TRUE, !.ci = @ \ {s}]
  <2>2. HandleSlot(p, s) = r BY <1>11 DEF HandleSlot
  <2>3. /\ r \in Softc /\ SameBase(p, r) /\ SameIntr(p, r) /\ r.ci = p.ci \ {s} /\ r.sact = p.sact \ {s}
        /\ r.pending = p.pending /\ r.aior = p.aior /\ r.failed = p.failed
        /\ r.waitforclear = p.waitforclear /\ r.busy = FALSE
    <3>1. CASE p.reset
      <4> DEFINE u == p.ci \ {s}
                 a == [p EXCEPT !.reset = FALSE]
                 b == PortReset(a)
      <4>1. u \in SUBSET Slots /\ p.sact \ {s} = {} /\ p \in Softc BY <1>0, <2>1
      <4>2. /\ a \in Softc /\ SameBase(p, a) /\ SameIntr(p, a) /\ a.ci = p.ci /\ a.pending = p.pending
            /\ a.aior = p.aior /\ a.failed = p.failed /\ a.waitforclear = p.waitforclear
        BY <4>1 DEF Softc, SameBase, SameRun, SameIntr
      <4> HIDE DEF a
      <4>3. /\ b \in Softc /\ SameBase(a, b) /\ SameIntr(a, b) /\ b.ci = a.ci /\ b.sact = {} /\ b.pending = a.pending
            /\ b.aior = a.aior /\ b.failed = a.failed /\ b.waitforclear = a.waitforclear /\ b.busy = FALSE
        BY <4>2 DEF PortReset, Softc, SameBase, SameRun, SameIntr
      <4>4. r = [b EXCEPT !.ci = u] BY <3>1, <4>2, <4>3 DEF a
      <4> HIDE DEF b, u, r
      <4>5. /\ r \in Softc /\ SameBase(b, r) /\ SameIntr(b, r) /\ r.ci = u /\ r.sact = b.sact /\ r.pending = b.pending
            /\ r.aior = b.aior /\ r.failed = b.failed /\ r.waitforclear = b.waitforclear /\ r.busy = b.busy
        BY <4>1, <4>3, <4>4 DEF Softc, SameBase, SameRun, SameIntr
      <4> QED BY <4>1, <4>2, <4>3, <4>5 DEF SameBase, SameRun, SameIntr, u
    <3>2. CASE ~p.reset
      <4>1. p.ci \ {s} \in SUBSET Slots /\ p.sact \ {s} = p.sact BY <1>0, <2>1
      <4> QED BY <1>0, <3>2, <4>1 DEF Softc, SameBase, SameRun, SameIntr
    <3> QED BY <3>1, <3>2
  <2> HIDE DEF r
  <2>4. Announced(r) BY <1>0, <2>3 DEF Announced, Raised, Up, SameIntr
  <2>5. k \notin Async BY <1>11 DEF Async
  <2>6. Turned(p, r) BY <2>3, <2>4, <2>5, TakeDone
  <2> QED BY <2>2, <2>6
<1>12. CASE k = "foreign"
  <2>1. HandleSlot(p, s) = p BY <1>12 DEF HandleSlot
  <2>2. \A x \in Slots : Advances(p, p, x) BY AdvancesSame
  <2> QED BY <1>0, <2>1, <2>2 DEF Turned, Good
<1> QED BY <1>1, <1>4, <1>5, <1>8, <1>9, <1>10, <1>11, <1>12 DEF Kinds

LEMMA TurnedOn ==
    ASSUME NEW p, NEW q, NEW r, Turned(p, q), Turned(q, r)
    PROVE  Turned(p, r)
<1>1. \A x \in Slots : Advances(p, r, x) BY AdvancesOn DEF Turned
<1> QED BY <1>1 DEF Turned

LEMMA TurnKeeps ==
    ASSUME Params, NEW p, Good(p), p.st, NEW s \in Slots
    PROVE  Turned(p, Turn(p, s))
<1>1. (s + 1) % NumSlots \in Slots
  <2>1. NumSlots \in Nat /\ NumSlots > 0 /\ s + 1 \in Nat BY DEF Params, Slots
  <2> QED BY <2>1 DEF Slots
<1>0. Turned(p, p)
  <2>1. \A x \in Slots : Advances(p, p, x) BY AdvancesSame
  <2> QED BY <2>1 DEF Turned
<1>2. CASE LoopDone(p)
  <2>1. Turn(p, s) = p BY <1>2 DEF Turn
  <2> QED BY <1>0, <2>1
<1>3. CASE ~LoopDone(p)
  <2> DEFINE h == IF s \in Waits(p) THEN HandleSlot(p, s) ELSE p
             c == (s + 1) % NumSlots
             q == [h EXCEPT !.ccs = c]
  <2>1. Turn(p, s) = q BY <1>3 DEF Turn, Waits
  <2>2. Turned(p, h)
    <3>1. CASE s \in Waits(p)
      <4>1. Ready(p, s) BY <1>3, <3>1 DEF Ready, LoopDone
      <4> QED BY <3>1, <4>1, SlotTaken
    <3>2. CASE s \notin Waits(p) BY <1>0, <3>2
    <3> QED BY <3>1, <3>2
  <2> HIDE DEF h, c
  <2>3. h \in Softc /\ Announced(h) /\ Port(h) /\ c \in Slots /\ h.st BY <1>1, <2>2 DEF Turned, Good, c
  <2>4. /\ q \in Softc /\ SameBase(h, q) /\ SameIntr(h, q) /\ q.ci = h.ci /\ q.sact = h.sact /\ q.pending = h.pending
        /\ q.aior = h.aior /\ q.failed = h.failed /\ q.waitforclear = h.waitforclear /\ q.busy = h.busy
    BY <2>3 DEF Softc, SameBase, SameRun, SameIntr
  <2> HIDE DEF q
  <2>5. Announced(q) BY <2>3, <2>4 DEF Announced, Raised, Up, SameIntr
  <2>6. \A x \in Slots : SlotOk(q, x) BY <2>3, <2>4 DEF SlotOk, Fresh, SameBase, SameRun, Port
  <2>7. Whole(q) BY <2>3, <2>4 DEF Whole, SameBase, SameRun, Port
  <2>8. \A x \in Slots : Advances(h, q, x) BY <2>4, AdvancesSame DEF SameBase, SameRun, Used
  <2>9. Turned(h, q) BY <2>3, <2>4, <2>5, <2>6, <2>7, <2>8 DEF Turned, Good, Port, SameBase, SameRun
  <2> QED BY <2>1, <2>2, <2>9, TurnedOn
<1> QED BY <1>2, <1>3

-----------------------------------------------------------------------------
(* The loop over the slots                                                  *)

LEMMA Least ==
    ASSUME NEW S, S \subseteq Nat, S # {}
    PROVE  \E n \in S : \A m \in S : n <= m
<1> DEFINE R == OpToRel(<, Nat)
<1>1. IsWellFoundedOn(R, Nat) BY NatLessThanWellFounded
<1>2. \A x, y \in Nat : <<x, y>> \in R <=> x < y BY DEF OpToRel
<1> HIDE DEF R
<1>3. PICK n \in S : \A m \in S : ~ (<<m, n>> \in R) BY <1>1, WFMin
<1>4. ASSUME NEW m \in S PROVE n <= m
  <2>1. m \in Nat /\ n \in Nat OBVIOUS
  <2>2. ~(m < n) BY <1>2, <1>3, <2>1
  <2> QED BY <2>1, <2>2
<1> QED BY <1>4

\* The slot that turn i of the loop looks at.
TurnSlot(p, i) == (p.ccs + i - 1) % NumSlots

Rounds(p, n, f) == f = [i \in 0..n |-> IF i = 0 THEN p ELSE Turn(f[i - 1], TurnSlot(p, i))]

\* The recursive definition of the loop has a solution.
LEMMA LoopDefined ==
    ASSUME NEW p, NEW N \in Nat
    PROVE  \E f : Rounds(p, N, f)
<1> DEFINE E(n) == \E f : Rounds(p, n, f)
           S == {n \in Nat : ~E(n)}
<1>1. E(0)
  <2> DEFINE f == [i \in 0..0 |-> p]
  <2>1. Rounds(p, 0, f) BY DEF Rounds
  <2> QED BY <2>1
<1>2. ASSUME NEW n \in Nat, E(n) PROVE E(n + 1)
  <2>1. PICK f : Rounds(p, n, f) BY <1>2
  <2>2. f[0] = p /\ \A i \in 1..n : f[i] = Turn(f[i - 1], TurnSlot(p, i)) BY <2>1 DEF Rounds
  <2> DEFINE g == [i \in 0..(n + 1) |-> IF i <= n THEN f[i] ELSE Turn(f[n], TurnSlot(p, n + 1))]
  <2>3. ASSUME NEW i \in 0..(n + 1) PROVE g[i] = IF i = 0 THEN p ELSE Turn(g[i - 1], TurnSlot(p, i))
    <3>1. CASE i = 0 BY <2>2, <3>1
    <3>2. CASE i \in 1..n
      <4>1. g[i] = f[i] /\ g[i - 1] = f[i - 1] BY <3>2
      <4> QED BY <2>2, <3>2, <4>1
    <3>3. CASE i = n + 1
      <4>1. n \in 0..(n + 1) /\ (n + 1) - 1 = n /\ ~(n + 1 <= n) OBVIOUS
      <4>2. g[n] = f[n] /\ g[n + 1] = Turn(f[n], TurnSlot(p, n + 1)) BY <4>1
      <4> QED BY <3>3, <4>1, <4>2
    <3> QED BY <3>1, <3>2, <3>3
  <2>4. Rounds(p, n + 1, g) BY <2>3 DEF Rounds
  <2> QED BY <2>4
<1> HIDE DEF E
<1>3. S = {}
  <2>1. SUFFICES ASSUME S # {} PROVE FALSE OBVIOUS
  <2>2. PICK n \in S : \A m \in S : n <= m BY <2>1, Least
  <2>3. n # 0 BY <1>1, <2>2
  <2>4. n - 1 \in Nat /\ n - 1 \notin S BY <2>2, <2>3
  <2>5. E(n - 1) BY <2>4
  <2>6. E((n - 1) + 1) BY <2>4, <2>5, <1>2
  <2>7. (n - 1) + 1 = n BY <2>2
  <2> QED BY <2>2, <2>6, <2>7
<1>4. E(N) BY <1>3
<1> QED BY <1>4 DEF E

\* ahci_handle_port() takes the commands of all slots forward.
LEMMA HandlePortKeeps ==
    ASSUME Params, NEW p, Good(p), p.st
    PROVE  Turned(p, HandlePort(p))
<1> DEFINE after[i \in 0..NumSlots] == IF i = 0 THEN p ELSE Turn(after[i - 1], (p.ccs + i - 1) % NumSlots)
<1>1. HandlePort(p) = after[NumSlots] BY DEF HandlePort
<1>2. NumSlots \in Nat /\ NumSlots > 0 /\ p.ccs \in Slots BY DEF Params, Good, Softc
<1>3. PICK f : Rounds(p, NumSlots, f) BY <1>2, LoopDefined
<1>4. \E g : g = [i \in 0..NumSlots |-> IF i = 0 THEN p ELSE Turn(g[i - 1], (p.ccs + i - 1) % NumSlots)]
  BY <1>3 DEF Rounds, TurnSlot
<1>5. after = [i \in 0..NumSlots |-> IF i = 0 THEN p ELSE Turn(after[i - 1], (p.ccs + i - 1) % NumSlots)]
  BY <1>4
<1> HIDE DEF after
<1>6. after[0] = p /\ \A i \in 1..NumSlots : after[i] = Turn(after[i - 1], TurnSlot(p, i))
  BY <1>2, <1>5 DEF TurnSlot
<1>7. \A i \in 1..NumSlots : TurnSlot(p, i) \in Slots
  <2>1. \A i \in 1..NumSlots : p.ccs + i - 1 \in Nat BY <1>2 DEF Slots
  <2> QED BY <1>2, <2>1 DEF TurnSlot, Slots
<1> DEFINE J(i) == Turned(p, after[i])
           S == {i \in 0..NumSlots : ~J(i)}
<1>8. J(0)
  <2>1. \A x \in Slots : Advances(p, p, x) BY AdvancesSame
  <2>2. Turned(p, p) BY <2>1 DEF Turned
  <2> QED BY <1>6, <2>2
<1>9. ASSUME NEW i \in 1..NumSlots, J(i - 1) PROVE J(i)
  <2> DEFINE a == after[i - 1]
             b == after[i]
             s == TurnSlot(p, i)
  <2>1. b = Turn(a, s) /\ s \in Slots BY <1>6, <1>7
  <2>2. Turned(p, a) BY <1>9
  <2> HIDE DEF a, b, s
  <2>3. Good(a) /\ a.st BY <2>2 DEF Turned
  <2>4. Turned(a, b) BY <2>1, <2>3, TurnKeeps
  <2>5. Turned(p, b) BY <2>2, <2>4, TurnedOn
  <2> QED BY <2>5 DEF b
<1> HIDE DEF J
<1>10. S = {}
  <2>1. SUFFICES ASSUME S # {} PROVE FALSE OBVIOUS
  <2>2. S \subseteq Nat BY <1>2
  <2>3. PICK n \in S : \A m \in S : n <= m BY <2>1, <2>2, Least
  <2>4. n \in 0..NumSlots /\ n # 0 BY <1>8, <2>3
  <2>5. n \in 1..NumSlots /\ n - 1 \in 0..NumSlots /\ ~(n <= n - 1) BY <1>2, <2>4
  <2>6. J(n - 1) BY <2>3, <2>5
  <2> QED BY <1>9, <2>3, <2>5, <2>6
<1>11. J(NumSlots) BY <1>2, <1>10
<1> QED BY <1>1, <1>11 DEF J

-----------------------------------------------------------------------------
(* The steps                                                                *)

\* Between the handlers nothing is kept of a slot that is not in use.
Tidy(p) == \A x \in Slots : x \in p.failed \cup p.stale => Used(p, x)

Fine(p) == Good(p) /\ Tidy(p)

\* What the command service is told of slot x stays the same.
Same(p, q, x) == St(q, x) = St(p, x) /\ Wk(q, x) = Wk(p, x) /\ (Mv(q, x) <=> Mv(p, x))

\* The handler returns: a lost command may be gone.
Returns(p, q, x) == Same(p, q, x) \/ (St(p, x) = "lost" /\ St(q, x) = "free" /\ ~Mv(q, x))

\* The controller stops: a command may be taken back or lost.
Halts(p, q, x) ==
    \/ Same(p, q, x)
    \/ St(q, x) = "free" /\ ~Mv(q, x)
    \/ St(p, x) # "free" /\ St(q, x) = "lost" /\ ~Mv(q, x)

\* What a step does to the command of slot x, as CommandService says it.
Serves(p, q, x) ==
    \/ Same(p, q, x)
    \/ St(p, x) = "free" /\ St(q, x) = "issued" /\ ~Mv(q, x)
    \/ St(p, x) = "issued" /\ Wk(p, x) > 0 /\ ~Mv(p, x) /\ St(q, x) = "issued" /\ Wk(q, x) = Wk(p, x) /\ Mv(q, x)
    \/ Mv(p, x) /\ Wk(p, x) > 1 /\ St(q, x) = "issued" /\ Wk(q, x) = Wk(p, x) - 1 /\ ~Mv(q, x)
    \/ St(p, x) = "issued" /\ Wk(p, x) = (IF Mv(p, x) THEN 1 ELSE 0) /\ St(q, x) = "free" /\ ~Mv(q, x)
    \/ St(p, x) \in {"free", "issued"} /\ St(q, x) = "failed" /\ ~Mv(q, x)
    \/ St(p, x) \in {"failed", "lost"} /\ St(q, x) = "free" /\ ~Mv(q, x)
    \/ ~q.st /\ St(q, x) = "free" /\ ~Mv(q, x)
    \/ ~q.st /\ St(p, x) # "free" /\ St(q, x) = "lost" /\ ~Mv(q, x)

LEMMA SameServes ==
    ASSUME NEW p, NEW q, NEW x, Same(p, q, x) PROVE Serves(p, q, x)
BY DEF Serves

LEMMA AdvancesServes ==
    ASSUME NEW p, NEW h, NEW q, NEW x, Advances(p, h, x), Returns(h, q, x) PROVE Serves(p, q, x)
<1>1. CASE St(h, x) = St(p, x) /\ Wk(h, x) = Wk(p, x) BY <1>1 DEF Advances, Returns, Serves, Same
<1>2. CASE St(p, x) = "issued" /\ ~Mv(p, x) /\ Wk(p, x) = 0 /\ St(h, x) = "free"
  BY <1>2 DEF Advances, Returns, Serves, Same
<1>3. CASE St(p, x) = "issued" /\ ~Mv(p, x) /\ St(h, x) = "failed"
  BY <1>3 DEF Advances, Returns, Serves, Same
<1> QED BY <1>1, <1>2, <1>3 DEF Advances

LEMMA HaltsServes ==
    ASSUME NEW p, NEW h, NEW q, NEW x, Halts(p, h, x), Returns(h, q, x), ~q.st PROVE Serves(p, q, x)
<1>1. CASE Same(p, h, x) BY <1>1 DEF Returns, Serves, Same
<1>2. CASE St(h, x) = "free" /\ ~Mv(h, x) BY <1>2 DEF Returns, Serves, Same
<1>3. CASE St(p, x) # "free" /\ St(h, x) = "lost" /\ ~Mv(h, x) BY <1>3 DEF Returns, Serves, Same
<1> QED BY <1>1, <1>2, <1>3 DEF Halts

\* The registers the command engine looks at are the same.
Alike(p, q) ==
    /\ q.ci = p.ci /\ q.sact = p.sact /\ q.pending = p.pending /\ q.busy = p.busy /\ q.st = p.st /\ q.cr = p.cr
    /\ q.fre = p.fre /\ q.cmd = p.cmd /\ q.chunks = p.chunks /\ q.aior = p.aior /\ q.failed = p.failed
    /\ q.stale = p.stale /\ q.waitforclear = p.waitforclear

LEMMA AlikeKeeps ==
    ASSUME NEW p, Fine(p), NEW q, q \in Softc, Announced(q), Alike(p, q)
    PROVE  Fine(q) /\ \A x \in Slots : Same(p, q, x)
<1>1. \A x \in Slots : SlotOk(q, x) BY DEF Fine, Good, Port, SlotOk, Fresh, Alike
<1>2. Whole(q) BY DEF Fine, Good, Port, Whole, Alike
<1>3. Tidy(q) BY DEF Fine, Tidy, Used, Alike
<1>4. \A x \in Slots : Same(p, q, x) BY DEF Same, St, Wk, Mv, Used, Alike
<1> QED BY <1>1, <1>2, <1>3, <1>4 DEF Fine, Good, Port

LEMMA ReturnKeeps ==
    ASSUME Params, NEW p, Good(p)
    PROVE  Fine(Return(p)) /\ Return(p).st = p.st /\ \A x \in Slots : Returns(p, Return(p), x)
<1> DEFINE gone == Slots \ (p.ci \cup p.sact \cup p.pending)
           k == [s \in Slots |-> IF s \in gone THEN "none" ELSE p.cmd[s]]
           n == [s \in Slots |-> IF s \in gone THEN 0 ELSE p.chunks[s]]
           f == p.failed \ gone
           z == p.stale \ gone
           b == Spins(p)
           a == [p EXCEPT !.cmd = k, !.chunks = n]
           c == [a EXCEPT !.failed = f, !.stale = z]
           q == [c EXCEPT !.spin = b]
<1>1. p \in Softc /\ Announced(p) /\ Port(p) BY DEF Good
<1>2. /\ k \in [Slots -> Kinds \cup {"none"}] /\ n \in [Slots -> 0..MaxChunks]
      /\ f \in SUBSET Slots /\ z \in SUBSET Slots
      /\ p.ci \in SUBSET Slots /\ p.sact \in SUBSET Slots /\ p.pending \in SUBSET Slots
  <2>1. /\ p.cmd \in [Slots -> Kinds \cup {"none"}] /\ p.chunks \in [Slots -> 0..MaxChunks]
        /\ p.ci \in SUBSET Slots /\ p.sact \in SUBSET Slots /\ p.pending \in SUBSET Slots
        /\ p.failed \in SUBSET Slots /\ p.stale \in SUBSET Slots
    BY <1>1 DEF Softc
  <2>2. ASSUME NEW s \in Slots PROVE n[s] \in 0..MaxChunks
    <3>1. p.chunks[s] \in 0..MaxChunks BY <2>1
    <3>2. 0 \in 0..MaxChunks BY DEF Params
    <3> QED BY <3>1, <3>2
  <2>3. \A s \in Slots : k[s] \in Kinds \cup {"none"} BY <2>1
  <2> QED BY <2>1, <2>2, <2>3
<1>3. Return(p) = q BY DEF Return
<1>4. \A x \in Slots : x \in p.ci \cup p.sact \cup p.pending =>
          /\ k[x] = p.cmd[x] /\ n[x] = p.chunks[x]
          /\ (x \in f <=> x \in p.failed) /\ (x \in z <=> x \in p.stale)
  OBVIOUS
<1>5. \A x \in Slots : x \notin p.ci \cup p.sact \cup p.pending => x \notin f /\ x \notin z OBVIOUS
<1>6. b \in BOOLEAN BY DEF Spins
<1> HIDE DEF k, n, f, z, gone, b
<1>7. /\ a \in Softc /\ SameIntr(p, a) /\ a.cmd = k /\ a.chunks = n /\ a.ci = p.ci /\ a.sact = p.sact
      /\ a.pending = p.pending /\ a.aior = p.aior /\ a.waitforclear = p.waitforclear
      /\ a.busy = p.busy /\ a.st = p.st /\ a.cr = p.cr /\ a.fre = p.fre
  BY <1>1, <1>2 DEF Softc, SameIntr
<1> HIDE DEF a
<1>8. /\ c \in Softc /\ SameIntr(a, c) /\ c.cmd = a.cmd /\ c.chunks = a.chunks /\ c.ci = a.ci /\ c.sact = a.sact
      /\ c.pending = a.pending /\ c.aior = a.aior /\ c.waitforclear = a.waitforclear
      /\ c.busy = a.busy /\ c.st = a.st /\ c.cr = a.cr /\ c.fre = a.fre /\ c.failed = f /\ c.stale = z
  BY <1>2, <1>7 DEF Softc, SameIntr
<1> HIDE DEF c
<1>9. /\ q \in Softc /\ SameIntr(c, q) /\ Alike(c, q)
  BY <1>6, <1>8 DEF Softc, SameIntr, Alike
<1> HIDE DEF q
<1>10. /\ SameIntr(p, q) /\ q.cmd = k /\ q.chunks = n /\ q.ci = p.ci /\ q.sact = p.sact
       /\ q.pending = p.pending /\ q.aior = p.aior /\ q.waitforclear = p.waitforclear
       /\ q.busy = p.busy /\ q.st = p.st /\ q.cr = p.cr /\ q.fre = p.fre /\ q.failed = f /\ q.stale = z
  BY <1>7, <1>8, <1>9 DEF SameIntr, Alike
<1>11. Announced(q) BY <1>1, <1>10 DEF Announced, Raised, Up, SameIntr
<1>12. ASSUME NEW x \in Slots PROVE SlotOk(q, x) /\ Returns(p, q, x) /\ (x \in f \cup z => Used(q, x))
  <2>1. SlotOk(p, x) BY <1>1 DEF Port
  <2>2. CASE Used(p, x)
    <3>1. /\ q.cmd[x] = p.cmd[x] /\ q.chunks[x] = p.chunks[x] /\ (x \in q.failed <=> x \in p.failed)
          /\ (x \in q.stale <=> x \in p.stale)
      BY <1>4, <1>10, <2>2 DEF Used
    <3>2. SlotOk(q, x) BY <1>10, <2>1, <3>1 DEF SlotOk, Fresh
    <3>3. Used(q, x) BY <1>10, <2>2 DEF Used
    <3>4. Same(p, q, x) BY <1>10, <2>2, <3>1, <3>3 DEF Same, St, Wk, Mv
    <3> QED BY <3>2, <3>3, <3>4 DEF Returns
  <2>3. CASE ~Used(p, x)
    <3>1. ~Used(q, x) /\ x \notin q.failed /\ x \notin q.stale /\ x \notin f \cup z BY <1>5, <1>10, <2>3 DEF Used
    <3>2. p.aior[x] = "free" BY <2>1, <2>3 DEF SlotOk, Used
    <3>3. SlotOk(q, x) BY <1>10, <3>1, <3>2 DEF SlotOk, Fresh, Used
    <3>4. St(q, x) = "free" /\ ~Mv(q, x) /\ Wk(q, x) = 0 /\ ~Mv(p, x) BY <1>10, <3>1, <3>2 DEF St, Mv, Wk
    <3>5. St(p, x) \in {"free", "lost"} /\ Wk(p, x) = 0 BY <2>3 DEF St, Wk
    <3> QED BY <3>1, <3>3, <3>4, <3>5 DEF Returns, Same
  <2> QED BY <2>2, <2>3
<1>13. Whole(q)
  <2>1. \A s \in p.pending \cap p.ci : q.cmd[s] = p.cmd[s] BY <1>2, <1>4, <1>10
  <2> QED BY <1>1, <1>10, <2>1 DEF Port, Whole
<1>14. Tidy(q) BY <1>10, <1>12 DEF Tidy
<1> QED BY <1>3, <1>9, <1>10, <1>11, <1>12, <1>13, <1>14 DEF Fine, Good, Port

\* ahci_check_stopped(): a port that stopped and has nothing in flight forgets
\* its commands.
LEMMA CheckStoppedKeeps ==
    ASSUME Params, NEW p, Good(p)
    PROVE  /\ Good(CheckStopped(p)) /\ CheckStopped(p).st = p.st
           /\ p.st => CheckStopped(p) = p
           /\ \A x \in Slots : \/ Same(p, CheckStopped(p), x)
                               \/ ~p.st /\ St(CheckStopped(p), x) = "free" /\ ~Mv(CheckStopped(p), x)
<1>1. p \in Softc /\ Announced(p) /\ Port(p) BY DEF Good
<1>2. CASE p.st \/ p.pending # {}
  <2>1. CheckStopped(p) = p BY <1>2 DEF CheckStopped
  <2>2. \A x \in Slots : Same(p, p, x) BY DEF Same
  <2> QED BY <2>1, <2>2
<1>3. CASE ~p.st /\ p.pending = {}
  <2> DEFINE a == [p EXCEPT !.ccs = 0, !.cr = FALSE, !.ci = {}]
             q == [a EXCEPT !.sact = {}, !.waitforclear = FALSE, !.failed = {}]
  <2>1. CheckStopped(p) = q BY <1>3 DEF CheckStopped
  <2>2. 0 \in Slots BY DEF Slots, Params
  <2>3. /\ a \in Softc /\ SameIntr(p, a) /\ a.ci = {} /\ a.cr = FALSE /\ a.st = p.st /\ a.pending = p.pending
        /\ a.aior = p.aior /\ a.cmd = p.cmd /\ a.chunks = p.chunks /\ a.stale = p.stale
    BY <1>1, <2>2 DEF Softc, SameIntr
  <2> HIDE DEF a
  <2>4. /\ q \in Softc /\ SameIntr(a, q) /\ q.ci = a.ci /\ q.cr = a.cr /\ q.st = a.st /\ q.pending = a.pending
        /\ q.aior = a.aior /\ q.cmd = a.cmd /\ q.chunks = a.chunks /\ q.stale = a.stale
        /\ q.sact = {} /\ q.failed = {}
    BY <2>3 DEF Softc, SameIntr
  <2> HIDE DEF q
  <2>5. Announced(q) BY <1>1, <2>3, <2>4 DEF Announced, Raised, Up, SameIntr
  <2>6. \A x \in Slots : p.aior[x] = "free" BY <1>1, <1>3 DEF Port, SlotOk
  <2>7. \A x \in Slots : SlotOk(q, x) BY <1>3, <2>3, <2>4, <2>6 DEF SlotOk, Fresh
  <2>8. Whole(q) BY <1>3, <2>3, <2>4 DEF Whole
  <2>9. ASSUME NEW x \in Slots PROVE Same(p, q, x) \/ (St(q, x) = "free" /\ ~Mv(q, x))
    <3>1. ~Used(q, x) /\ ~Mv(q, x) /\ ~Mv(p, x) /\ q.stale = p.stale BY <1>3, <2>3, <2>4, <2>6 DEF Used, Mv
    <3> QED BY <3>1 DEF Same, St, Wk
  <2> QED BY <1>3, <2>1, <2>3, <2>4, <2>5, <2>7, <2>8, <2>9 DEF Good, Port
<1> QED BY <1>2, <1>3

\* ahci_port_stop()
LEMMA PortStopKeeps ==
    ASSUME Params, NEW p, Good(p), ~p.st
    PROVE  Good(PortStop(p)) /\ PortStop(p).st = p.st /\ \A x \in Slots : Halts(p, PortStop(p), x)
<1> DEFINE cancelled == {s \in Slots : p.aior[s] = "queued"}
           ncq == {s \in cancelled : p.cmd[s] \in NcqKinds}
           a == p.sact \ ncq
           c == p.ci \ (cancelled \ ncq)
           d == p.pending \ cancelled
           f == [s \in Slots |-> IF s \in cancelled THEN "free" ELSE p.aior[s]]
           q == [p EXCEPT !.sact = a, !.ci = c, !.pending = d, !.aior = f]
<1>1. p \in Softc /\ Announced(p) /\ Port(p) BY DEF Good
<1>2. PortStop(p) = CheckStopped(q) BY DEF PortStop
<1>3. /\ a \in SUBSET Slots /\ c \in SUBSET Slots /\ d \in SUBSET Slots
      /\ f \in [Slots -> {"free", "queued", "busy"}]
      /\ p.aior \in [Slots -> {"free", "queued", "busy"}]
  BY <1>1 DEF Softc
<1>4. /\ \A x \in Slots : x \in a <=> x \in p.sact /\ ~(p.aior[x] = "queued" /\ p.cmd[x] \in NcqKinds)
      /\ \A x \in Slots : x \in c <=> x \in p.ci /\ ~(p.aior[x] = "queued" /\ p.cmd[x] \notin NcqKinds)
      /\ \A x \in Slots : x \in d <=> x \in p.pending /\ p.aior[x] # "queued"
      /\ \A x \in Slots : f[x] = IF p.aior[x] = "queued" THEN "free" ELSE p.aior[x]
      /\ c \subseteq p.ci /\ a \subseteq p.sact
  OBVIOUS
<1> HIDE DEF a, c, d, f
<1>5. /\ q \in Softc /\ SameIntr(p, q) /\ SameBase(p, q) /\ q.ci = c /\ q.pending = d
      /\ q.aior = f /\ q.sact = a /\ q.waitforclear = p.waitforclear /\ q.failed = p.failed
  <2> DEFINE u == [p EXCEPT !.sact = a, !.ci = c]
             v == [u EXCEPT !.pending = d, !.aior = f]
  <2>1. q = v OBVIOUS
  <2>2. /\ u \in Softc /\ SameIntr(p, u) /\ SameBase(p, u) /\ u.ci = c
        /\ u.sact = a /\ u.waitforclear = p.waitforclear /\ u.failed = p.failed
    BY <1>1, <1>3 DEF Softc, SameIntr, SameBase, SameRun
  <2> HIDE DEF u
  <2>3. /\ v \in Softc /\ SameIntr(u, v) /\ SameBase(u, v) /\ v.ci = u.ci /\ v.pending = d
        /\ v.aior = f /\ v.sact = u.sact /\ v.waitforclear = u.waitforclear /\ v.failed = u.failed
    BY <1>3, <2>2 DEF Softc, SameIntr, SameBase, SameRun
  <2> HIDE DEF v, q
  <2> QED BY <2>1, <2>2, <2>3 DEF SameIntr, SameBase, SameRun
<1> HIDE DEF q
<1>6. Announced(q) BY <1>1, <1>5 DEF Announced, Raised, Up, SameIntr
<1>7. ASSUME NEW x \in Slots PROVE SlotOk(q, x) /\ (Same(p, q, x) \/ (St(q, x) = "free" /\ ~Mv(q, x)))
  <2>1. SlotOk(p, x) BY <1>1 DEF Port
  <2>2. p.aior[x] \in {"free", "queued", "busy"} BY <1>3
  <2>3. x \in q.ci /\ q.cmd[x] = "srst" => q.ci = {x} /\ q.sact = {}
    BY <1>4, <1>5, <2>1 DEF SlotOk, SameBase, SameRun
  <2>4. CASE p.aior[x] = "queued"
    <3>1. x \notin d /\ f[x] = "free" BY <1>4, <2>4
    <3>2. CASE x \in p.stale
      <4>1. SlotOk(q, x) BY <1>4, <1>5, <2>1, <2>3, <3>1, <3>2 DEF SlotOk, SameBase, SameRun
      <4>2. Same(p, q, x) BY <1>5, <3>2 DEF Same, St, Wk, Mv, SameBase, SameRun
      <4> QED BY <4>1, <4>2
    <3>3. CASE x \notin p.stale
      <4>1. x \notin a /\ x \notin c BY <1>4, <2>1, <2>4, <3>3 DEF SlotOk, Fresh, NcqKinds
      <4>2. SlotOk(q, x) BY <1>5, <2>3, <3>1, <4>1 DEF SlotOk, Fresh, SameBase, SameRun
      <4>3. St(q, x) = "free" /\ ~Mv(q, x) BY <1>5, <3>1, <3>3, <4>1 DEF St, Mv, Used, SameBase, SameRun
      <4> QED BY <4>2, <4>3
    <3> QED BY <3>2, <3>3
  <2>5. CASE p.aior[x] # "queued"
    <3>1. (x \in a <=> x \in p.sact) /\ (x \in c <=> x \in p.ci) /\ (x \in d <=> x \in p.pending) /\ f[x] = p.aior[x]
      BY <1>4, <2>5
    <3>2. SlotOk(q, x) BY <1>5, <2>1, <2>3, <3>1 DEF SlotOk, Fresh, SameBase, SameRun
    <3>3. Same(p, q, x) BY <1>5, <3>1 DEF Same, St, Wk, Mv, Used, SameBase, SameRun
    <3> QED BY <3>2, <3>3
  <2> QED BY <2>4, <2>5
<1>8. Whole(q) BY <1>5 DEF Whole, SameBase, SameRun
<1>9. Good(q) BY <1>5, <1>6, <1>7, <1>8 DEF Good, Port
<1>10. /\ Good(CheckStopped(q)) /\ CheckStopped(q).st = q.st
       /\ \A x \in Slots : \/ Same(q, CheckStopped(q), x)
                           \/ St(CheckStopped(q), x) = "free" /\ ~Mv(CheckStopped(q), x)
  BY <1>9, CheckStoppedKeeps
<1>11. ASSUME NEW x \in Slots PROVE Halts(p, CheckStopped(q), x)
  BY <1>7, <1>10 DEF Same, Halts
<1> QED BY <1>2, <1>5, <1>10, <1>11 DEF SameBase, SameRun

\* A step of the port: it keeps the books and does to every command what the
\* command service allows.
Lawful(p, q) == Fine(q) /\ \A x \in Slots : Serves(p, q, x)

\* The engine runs and the handler returns.
LEMMA EngineLawful ==
    ASSUME Params, NEW p, NEW a, Good(a), a.st, \A x \in Slots : Advances(p, a, x)
    PROVE  Lawful(p, Return(HandlePort(a)))
<1>1. Turned(a, HandlePort(a)) BY HandlePortKeeps
<1>2. Fine(Return(HandlePort(a))) /\ \A x \in Slots : Returns(HandlePort(a), Return(HandlePort(a)), x)
  BY <1>1, ReturnKeeps DEF Turned
<1>3. ASSUME NEW x \in Slots PROVE Serves(p, Return(HandlePort(a)), x)
  <2>1. Advances(p, HandlePort(a), x) BY <1>1, AdvancesOn DEF Turned
  <2> QED BY <1>2, <2>1, AdvancesServes
<1> QED BY <1>2, <1>3 DEF Lawful

\* The port is stopped and the handler returns.
LEMMA HaltLawful ==
    ASSUME Params, NEW p, NEW a, Good(a), ~a.st, \A x \in Slots : Halts(p, a, x)
    PROVE  Lawful(p, Return(a))
<1>1. Fine(Return(a)) /\ Return(a).st = a.st /\ \A x \in Slots : Returns(a, Return(a), x) BY ReturnKeeps
<1>2. \A x \in Slots : Serves(p, Return(a), x) BY <1>1, HaltsServes
<1> QED BY <1>1, <1>2 DEF Lawful

LEMMA AlikeLawful ==
    ASSUME NEW p, Fine(p), NEW q, q \in Softc, Announced(q), Alike(p, q)
    PROVE  Lawful(p, q)
<1>1. Fine(q) /\ \A x \in Slots : Same(p, q, x) BY AlikeKeeps
<1> QED BY <1>1, SameServes DEF Lawful

\* PxIE, GHC and the guest's interrupt handler.
LEMMA IntrSteps ==
    ASSUME Params, Fine(sc), IeWrite \/ GhcWrite \/ IsrEnter \/ PortIsWrite \/ IsWrite
    PROVE  Lawful(sc, sc')
<1>1. sc \in Softc /\ Announced(sc) BY DEF Fine, Good
<1>2. /\ sc.is \in SUBSET Causes /\ sc.ie \in SUBSET Causes /\ sc.his \in BOOLEAN /\ sc.ghcie \in BOOLEAN
      /\ sc.intr \in IntrModes /\ sc.lintr \in BOOLEAN /\ sc.msi \in BOOLEAN /\ sc.isr \in {"idle", "port", "ack"}
      /\ sc.seen \in SUBSET Causes /\ sc.ops \in 0..GuestOps
  BY <1>1 DEF Softc
<1>3. ASSUME NEW p \in Softc, p.intr = "poll" => p.ie = {} /\ ~p.ghcie
      PROVE  GenerateIntr(p) \in Softc /\ Announced(GenerateIntr(p)) /\ Alike(p, GenerateIntr(p))
  <2> DEFINE h == p.his \/ p.is \cap p.ie # {}
             q == [p EXCEPT !.his = h]
             d == [q EXCEPT !.lintr = FALSE]
             l == AssertLine(q)
             m == SendMsi(q)
  <2>1. h \in BOOLEAN /\ p.intr \in IntrModes /\ p.ghcie \in BOOLEAN BY DEF Softc
  <2>2. /\ q \in Softc /\ Alike(p, q) /\ q.his = h /\ q.is = p.is /\ q.ie = p.ie /\ q.ghcie = p.ghcie
        /\ q.intr = p.intr
    <3> HIDE DEF h
    <3> QED BY <2>1 DEF Softc, Alike
  <2>3. GenerateIntr(p) = IF ~q.his \/ ~q.ghcie THEN d ELSE IF q.intr = "intx" THEN l ELSE m BY DEF GenerateIntr
  <2>4. p.is \cap p.ie # {} => h OBVIOUS
  <2> HIDE DEF q, h
  <2>5. /\ d \in Softc /\ Alike(q, d) /\ d.his = h /\ d.is = p.is /\ d.ie = p.ie /\ d.ghcie = p.ghcie /\ d.intr = p.intr
    BY <2>2 DEF Softc, Alike
  <2>6. /\ l \in Softc /\ Alike(q, l) /\ l.his = h /\ l.is = p.is /\ l.ie = p.ie /\ l.ghcie = p.ghcie /\ l.intr = p.intr
        /\ l.lintr = TRUE
    BY <2>2 DEF Softc, Alike, AssertLine
  <2>7. /\ m \in Softc /\ Alike(q, m) /\ m.his = h /\ m.is = p.is /\ m.ie = p.ie /\ m.ghcie = p.ghcie /\ m.intr = p.intr
        /\ m.msi = TRUE
    BY <2>2 DEF Softc, Alike, SendMsi
  <2> HIDE DEF d, l, m
  <2>8. CASE ~h \/ ~p.ghcie
    <3>1. GenerateIntr(p) = d BY <2>2, <2>3, <2>8
    <3>2. Announced(d) BY <1>3, <2>4, <2>5, <2>8 DEF Announced, Raised
    <3>3. Alike(p, d) BY <2>2, <2>5 DEF Alike
    <3> QED BY <2>5, <3>1, <3>2, <3>3
  <2>9. CASE h /\ p.ghcie /\ p.intr = "intx"
    <3>1. GenerateIntr(p) = l BY <2>2, <2>3, <2>9
    <3>2. Announced(l) BY <1>3, <2>6, <2>9 DEF Announced, Raised, Up
    <3>3. Alike(p, l) BY <2>2, <2>6 DEF Alike
    <3> QED BY <2>6, <3>1, <3>2, <3>3
  <2>10. CASE h /\ p.ghcie /\ p.intr # "intx"
    <3>1. GenerateIntr(p) = m BY <2>2, <2>3, <2>10
    <3>2. Announced(m) BY <1>3, <2>7, <2>10 DEF Announced, Raised, Up
    <3>3. Alike(p, m) BY <2>2, <2>7 DEF Alike
    <3> QED BY <2>7, <3>1, <3>2, <3>3
  <2> QED BY <2>1, <2>8, <2>9, <2>10
<1>4. CASE IeWrite
  <2> DEFINE p == [sc EXCEPT !.ie = Causes]
  <2>1. /\ p \in Softc /\ Alike(sc, p) /\ p.ghcie = sc.ghcie /\ p.his = sc.his /\ p.intr = sc.intr /\ p.lintr = sc.lintr
        /\ p.msi = sc.msi /\ p.isr = sc.isr
    BY <1>1 DEF Softc, Alike
  <2>2. sc.intr # "poll" /\ sc' = PortIntr(p) BY <1>4 DEF IeWrite
  <2> HIDE DEF p
  <2>3. Raised(p) BY <1>1, <2>1, <2>2 DEF Announced, Raised, Up
  <2>4. sc' \in Softc /\ Announced(sc') /\ Alike(p, sc') BY <2>1, <2>2, <2>3, PortIntrKeeps DEF SameCmd, Alike
  <2>5. Alike(sc, sc') BY <2>1, <2>4 DEF Alike
  <2> QED BY <2>4, <2>5, AlikeLawful
<1>5. CASE GhcWrite
  <2> DEFINE g == ~sc.ghcie
             o == IF sc.ghcie THEN sc.ops + 1 ELSE sc.ops
             p == [sc EXCEPT !.ghcie = g, !.ops = o]
  <2>1. sc.intr # "poll" /\ sc' = GenerateIntr(p) /\ (sc.ghcie => sc.ops < GuestOps) BY <1>5 DEF GhcWrite
  <2>2. g \in BOOLEAN /\ o \in 0..GuestOps BY <1>2, <2>1 DEF Params
  <2> HIDE DEF g, o
  <2>3. p \in Softc /\ Alike(sc, p) /\ p.intr = sc.intr BY <1>1, <2>2 DEF Softc, Alike
  <2> HIDE DEF p
  <2>4. sc' \in Softc /\ Announced(sc') /\ Alike(p, sc') BY <1>3, <2>1, <2>3
  <2>5. Alike(sc, sc') BY <2>3, <2>4 DEF Alike
  <2> QED BY <2>4, <2>5, AlikeLawful
<1>6. CASE IsrEnter
  <2> DEFINE i == IF sc.his THEN "port" ELSE "idle"
  <2>1. i \in {"idle", "port", "ack"} /\ sc' = [sc EXCEPT !.msi = FALSE, !.seen = sc.is, !.isr = i]
    BY <1>6 DEF IsrEnter
  <2>2. sc.his => i = "port" OBVIOUS
  <2> HIDE DEF i
  <2>3. /\ sc' \in Softc /\ Alike(sc, sc') /\ sc'.is = sc.is /\ sc'.ie = sc.ie /\ sc'.his = sc.his
        /\ sc'.ghcie = sc.ghcie /\ sc'.intr = sc.intr /\ sc'.lintr = sc.lintr /\ sc'.isr = i
    BY <1>1, <1>2, <2>1 DEF Softc, Alike
  <2>4. Announced(sc') BY <1>1, <2>2, <2>3 DEF Announced, Raised, Up
  <2> QED BY <2>3, <2>4, AlikeLawful
<1>7. CASE PortIsWrite
  <2> DEFINE u == sc.is \ sc.seen
             p == [sc EXCEPT !.is = u, !.seen = {}, !.isr = "ack"]
  <2>1. sc.isr = "port" /\ sc' = PortIntr(p) BY <1>7 DEF PortIsWrite
  <2>2. u \in SUBSET Causes BY <1>2
  <2> HIDE DEF u
  <2>3. /\ p \in Softc /\ Alike(sc, p) /\ p.ghcie = sc.ghcie /\ p.his = sc.his /\ p.intr = sc.intr /\ p.lintr = sc.lintr
        /\ p.isr = "ack" /\ p.ie = sc.ie
    BY <1>1, <2>2 DEF Softc, Alike
  <2> HIDE DEF p
  <2>4. Raised(p) BY <1>1, <2>1, <2>3 DEF Announced, Raised, Up
  <2>5. sc' \in Softc /\ Announced(sc') /\ Alike(p, sc') BY <2>1, <2>3, <2>4, PortIntrKeeps DEF SameCmd, Alike
  <2>6. Alike(sc, sc') BY <2>3, <2>5 DEF Alike
  <2> QED BY <2>5, <2>6, AlikeLawful
<1>8. CASE IsWrite
  <2> DEFINE p == [sc EXCEPT !.his = FALSE, !.isr = "idle"]
  <2>1. sc' = GenerateIntr(p) BY <1>8 DEF IsWrite
  <2>2. p \in Softc /\ Alike(sc, p) /\ p.intr = sc.intr /\ p.ie = sc.ie /\ p.ghcie = sc.ghcie BY <1>1 DEF Softc, Alike
  <2> HIDE DEF p
  <2>3. p.intr = "poll" => p.ie = {} /\ ~p.ghcie BY <1>1, <2>2 DEF Announced, Raised
  <2>4. sc' \in Softc /\ Announced(sc') /\ Alike(p, sc') BY <1>3, <2>1, <2>2, <2>3
  <2>5. Alike(sc, sc') BY <2>2, <2>4 DEF Alike
  <2> QED BY <2>4, <2>5, AlikeLawful
<1> QED BY <1>4, <1>5, <1>6, <1>7, <1>8


\* PxCMD, PxSCTL and GHC.HR
LEMMA StartControl ==
    ASSUME Params, Fine(sc), CmdWriteStart
    PROVE  Lawful(sc, sc')
<1> DEFINE a == [sc EXCEPT !.st = TRUE, !.cr = TRUE]
           p == [a EXCEPT !.fre = TRUE, !.busy = FALSE]
<1>1. sc \in Softc /\ Announced(sc) /\ Port(sc) /\ Tidy(sc) BY DEF Fine, Good
<1>2. ~sc.cr /\ sc' = Return(HandlePort(p))
  <2>1. ~sc.cr /\ sc' = Return(HandlePort([sc EXCEPT !.st = TRUE, !.cr = TRUE, !.fre = TRUE, !.busy = FALSE]))
    BY DEF CmdWriteStart
  <2>2. p = [sc EXCEPT !.st = TRUE, !.cr = TRUE, !.fre = TRUE, !.busy = FALSE] BY <1>1 DEF Softc
  <2> QED BY <2>1, <2>2
<1>3. /\ a \in Softc /\ SameIntr(sc, a) /\ a.ci = sc.ci /\ a.sact = sc.sact /\ a.pending = sc.pending
      /\ a.failed = sc.failed /\ a.aior = sc.aior /\ a.chunks = sc.chunks /\ a.cmd = sc.cmd /\ a.stale = sc.stale
      /\ a.st = TRUE /\ a.cr = TRUE
  BY <1>1 DEF Softc, SameIntr
<1> HIDE DEF a
<1>4. /\ p \in Softc /\ SameIntr(a, p) /\ p.ci = a.ci /\ p.sact = a.sact /\ p.pending = a.pending
      /\ p.failed = a.failed /\ p.aior = a.aior /\ p.chunks = a.chunks /\ p.cmd = a.cmd /\ p.stale = a.stale
      /\ p.st = a.st /\ p.cr = a.cr /\ p.fre = TRUE /\ p.busy = FALSE
  BY <1>3 DEF Softc, SameIntr
<1> HIDE DEF p
<1>5. Announced(p) BY <1>1, <1>3, <1>4 DEF Announced, Raised, Up, SameIntr
<1>6. ASSUME NEW x \in Slots PROVE SlotOk(p, x)
  <2>1. SlotOk(sc, x) BY <1>1 DEF Port
  <2>2. ASSUME x \notin p.stale PROVE Fresh(p, x)
    <3>1. Fresh(sc, x) BY <1>3, <1>4, <2>1, <2>2 DEF SlotOk
    <3>2. x \notin sc.ci \cup sc.sact \cup sc.pending BY <1>2, <3>1 DEF Fresh
    <3>3. x \notin sc.failed BY <1>1, <3>2 DEF Tidy, Used
    <3> QED BY <1>3, <1>4, <3>2, <3>3 DEF Fresh
  <2> QED BY <1>3, <1>4, <2>1, <2>2 DEF SlotOk
<1>7. Whole(p) BY <1>3, <1>4 DEF Whole
<1>8. Good(p) /\ p.st BY <1>3, <1>4, <1>5, <1>6, <1>7 DEF Good, Port
<1>9. \A x \in Slots : Advances(sc, p, x) BY <1>3, <1>4, AdvancesSame DEF Used
<1> QED BY <1>2, <1>8, <1>9, EngineLawful

LEMMA StopControl ==
    ASSUME Params, Fine(sc), CmdWriteStop
    PROVE  Lawful(sc, sc')
<1>1. sc \in Softc /\ Announced(sc) /\ Port(sc) BY DEF Fine, Good
<1>2. PICK fre \in BOOLEAN :
          sc' = Return(PortStop([sc EXCEPT !.st = FALSE, !.fre = fre, !.ops = IF sc.st THEN @ + 1 ELSE @]))
  BY DEF CmdWriteStop
<1> DEFINE o == IF sc.st THEN sc.ops + 1 ELSE sc.ops
           p == [sc EXCEPT !.st = FALSE, !.fre = fre, !.ops = o]
<1>3. o \in 0..GuestOps
  <2>1. sc.ops \in 0..GuestOps BY <1>1 DEF Softc
  <2>2. sc.st => sc.ops < GuestOps BY DEF CmdWriteStop
  <2> QED BY <2>1, <2>2 DEF Params
<1>4. sc' = Return(PortStop(p)) BY <1>2
<1> HIDE DEF o
<1>5. /\ p \in Softc /\ SameIntr(sc, p) /\ p.ci = sc.ci /\ p.sact = sc.sact /\ p.pending = sc.pending
      /\ p.failed = sc.failed /\ p.aior = sc.aior /\ p.chunks = sc.chunks /\ p.cmd = sc.cmd
      /\ p.st = FALSE /\ p.cr = sc.cr /\ p.stale = sc.stale
  BY <1>1, <1>3 DEF Softc, SameIntr
<1> HIDE DEF p
<1>6. Announced(p) BY <1>1, <1>5 DEF Announced, Raised, Up, SameIntr
<1>7. ASSUME NEW x \in Slots PROVE SlotOk(p, x)
  <2>1. SlotOk(sc, x) BY <1>1 DEF Port
  <2>2. ASSUME x \notin p.stale PROVE Fresh(p, x)
    <3>1. Fresh(sc, x) BY <1>5, <2>1, <2>2 DEF SlotOk
    <3> QED BY <1>5, <3>1 DEF Fresh
  <2> QED BY <1>5, <2>1, <2>2 DEF SlotOk
<1>8. Whole(p) BY <1>5 DEF Whole
<1>9. Good(p) BY <1>5, <1>6, <1>7, <1>8 DEF Good, Port
<1>10. Good(PortStop(p)) /\ ~PortStop(p).st /\ \A x \in Slots : Halts(p, PortStop(p), x)
  BY <1>5, <1>9, PortStopKeeps
<1>11. \A x \in Slots : Same(sc, p, x) BY <1>5 DEF Same, St, Wk, Mv, Used
<1>12. \A x \in Slots : Halts(sc, PortStop(p), x) BY <1>10, <1>11 DEF Halts, Same
<1> QED BY <1>4, <1>10, <1>12, HaltLawful

LEMMA SctlControl ==
    ASSUME Params, Fine(sc), SctlWrite
    PROVE  Lawful(sc, sc')
<1> DEFINE q == PortReset(sc)
<1>1. sc \in Softc /\ Announced(sc) /\ Port(sc) BY DEF Fine, Good
<1>2. ~sc.st /\ sc' = Return(q) BY DEF SctlWrite
<1>3. /\ q \in Softc /\ SameIntr(sc, q) /\ q.ci = sc.ci /\ q.sact = {} /\ q.pending = sc.pending
      /\ q.failed = sc.failed /\ q.aior = sc.aior /\ q.chunks = sc.chunks /\ q.cmd = sc.cmd
      /\ q.st = sc.st /\ q.cr = sc.cr /\ q.stale = sc.stale
  BY <1>1 DEF Softc, SameIntr, PortReset
<1> HIDE DEF q
<1>4. Announced(q) BY <1>1, <1>3 DEF Announced, Raised, Up, SameIntr
<1>5. ASSUME NEW x \in Slots PROVE SlotOk(q, x) /\ Halts(sc, q, x)
  <2>1. SlotOk(sc, x) BY <1>1 DEF Port
  <2>2. ASSUME x \notin q.stale PROVE Fresh(q, x)
    <3>1. Fresh(sc, x) BY <1>3, <2>1, <2>2 DEF SlotOk
    <3> QED BY <1>2, <1>3, <3>1 DEF Fresh
  <2>3. SlotOk(q, x) BY <1>3, <2>1, <2>2 DEF SlotOk
  <2>4. CASE x \in sc.stale
    <3>1. Same(sc, q, x) BY <1>3, <2>4 DEF Same, St, Wk, Mv
    <3> QED BY <2>3, <3>1 DEF Halts
  <2>5. CASE x \notin sc.stale /\ Used(q, x)
    <3>1. Used(sc, x) BY <1>3, <2>5 DEF Used
    <3>2. Same(sc, q, x) BY <1>3, <2>5, <3>1 DEF Same, St, Wk, Mv
    <3> QED BY <2>3, <3>2 DEF Halts
  <2>6. CASE x \notin sc.stale /\ ~Used(q, x)
    <3>1. q.aior[x] = "free" BY <2>3, <2>6 DEF SlotOk, Used
    <3>2. St(q, x) = "free" /\ ~Mv(q, x) BY <1>3, <2>6, <3>1 DEF St, Mv
    <3> QED BY <2>3, <3>2 DEF Halts
  <2> QED BY <2>4, <2>5, <2>6
<1>6. Whole(q) BY <1>2, <1>3 DEF Whole
<1>7. Good(q) /\ ~q.st BY <1>2, <1>3, <1>4, <1>5, <1>6 DEF Good, Port
<1> QED BY <1>2, <1>5, <1>7, HaltLawful

LEMMA ResetControl ==
    ASSUME Params, Fine(sc), HbaReset
    PROVE  Lawful(sc, sc')
<1> DEFINE o == sc.ops + 1
           z == sc.stale \cup sc.ci \cup sc.pending
           a == [sc EXCEPT !.ops = o, !.ghcie = FALSE, !.his = FALSE]
           b == [a EXCEPT !.lintr = FALSE, !.ie = {}, !.is = {}]
           c == [b EXCEPT !.st = FALSE, !.cr = FALSE, !.fre = FALSE]
           d == [c EXCEPT !.stale = z]
           q == PortReset(d)
<1>1. sc \in Softc /\ Port(sc) BY DEF Fine, Good
<1>2. sc.ops < GuestOps /\ sc' = Return(q)
  <2>1. d = [sc EXCEPT !.ops = @ + 1, !.ghcie = FALSE, !.his = FALSE, !.lintr = FALSE, !.ie = {},
                       !.is = {}, !.st = FALSE, !.cr = FALSE, !.fre = FALSE,
                       !.stale = @ \cup sc.ci \cup sc.pending]
    BY <1>1 DEF Softc
  <2> HIDE DEF d
  <2> QED BY <2>1 DEF HbaReset
<1>3. o \in 0..GuestOps
  <2>1. sc.ops \in 0..GuestOps BY <1>1 DEF Softc
  <2> QED BY <1>2, <2>1 DEF Params
<1>4. z \in SUBSET Slots BY <1>1 DEF Softc
<1> HIDE DEF o, z
<1>5. /\ a \in Softc /\ a.ghcie = FALSE /\ a.ci = sc.ci /\ a.pending = sc.pending
      /\ a.failed = sc.failed /\ a.aior = sc.aior /\ a.chunks = sc.chunks /\ a.cmd = sc.cmd
  BY <1>1, <1>3 DEF Softc
<1> HIDE DEF a
<1>6. /\ b \in Softc /\ b.ghcie = a.ghcie /\ b.ie = {} /\ b.ci = a.ci /\ b.pending = a.pending
      /\ b.failed = a.failed /\ b.aior = a.aior /\ b.chunks = a.chunks /\ b.cmd = a.cmd
  BY <1>5 DEF Softc
<1> HIDE DEF b
<1>7. /\ c \in Softc /\ c.ghcie = b.ghcie /\ c.ie = b.ie /\ c.ci = b.ci /\ c.pending = b.pending
      /\ c.failed = b.failed /\ c.aior = b.aior /\ c.chunks = b.chunks /\ c.cmd = b.cmd
      /\ c.st = FALSE
  BY <1>6 DEF Softc
<1> HIDE DEF c
<1>8. /\ d \in Softc /\ d.ghcie = c.ghcie /\ d.ie = c.ie /\ d.ci = c.ci /\ d.pending = c.pending
      /\ d.failed = c.failed /\ d.aior = c.aior /\ d.chunks = c.chunks /\ d.cmd = c.cmd
      /\ d.st = c.st /\ d.stale = z
  BY <1>4, <1>7 DEF Softc
<1> HIDE DEF d
<1>9. /\ q \in Softc /\ q.ghcie = d.ghcie /\ q.ie = d.ie /\ q.ci = d.ci /\ q.pending = d.pending
      /\ q.failed = d.failed /\ q.aior = d.aior /\ q.chunks = d.chunks /\ q.cmd = d.cmd
      /\ q.st = d.st /\ q.stale = d.stale /\ q.sact = {}
  BY <1>8 DEF Softc, PortReset
<1> HIDE DEF q
<1>10. /\ q.ghcie = FALSE /\ q.ie = {} /\ q.ci = sc.ci /\ q.pending = sc.pending /\ q.failed = sc.failed
       /\ q.aior = sc.aior /\ q.chunks = sc.chunks /\ q.cmd = sc.cmd /\ q.st = FALSE /\ q.stale = z /\ q.sact = {}
  BY <1>5, <1>6, <1>7, <1>8, <1>9
<1>11. Announced(q) BY <1>10 DEF Announced, Raised
<1>12. ASSUME NEW x \in Slots PROVE SlotOk(q, x) /\ Halts(sc, q, x)
  <2>1. SlotOk(sc, x) BY <1>1 DEF Port
  <2>2. x \notin q.stale => ~Used(q, x) BY <1>10 DEF Used, z
  <2>3. x \notin q.stale => Fresh(q, x) BY <1>10, <2>2 DEF Fresh, Used
  <2>4. SlotOk(q, x) BY <1>10, <2>1, <2>3 DEF SlotOk
  <2>5. CASE x \notin q.stale
    <3>1. q.aior[x] = "free" BY <2>2, <2>4, <2>5 DEF SlotOk, Used
    <3>2. St(q, x) = "free" /\ ~Mv(q, x) BY <2>2, <2>5, <3>1 DEF St, Mv
    <3> QED BY <2>4, <3>2 DEF Halts
  <2>6. CASE x \in sc.stale
    <3>1. x \in q.stale BY <1>10, <2>6 DEF z
    <3>2. Same(sc, q, x) BY <2>6, <3>1 DEF Same, St, Wk, Mv
    <3> QED BY <2>4, <3>2 DEF Halts
  <2>7. CASE x \in q.stale /\ x \notin sc.stale
    <3>1. Used(sc, x) BY <1>10, <2>7 DEF z, Used
    <3>2. St(sc, x) # "free" BY <2>7, <3>1 DEF St
    <3>3. St(q, x) = "lost" /\ ~Mv(q, x) BY <2>7 DEF St, Mv
    <3> QED BY <2>4, <3>2, <3>3 DEF Halts
  <2> QED BY <2>5, <2>6, <2>7
<1>13. Whole(q) BY <1>10 DEF Whole
<1>14. Good(q) /\ ~q.st BY <1>9, <1>10, <1>11, <1>12, <1>13 DEF Good, Port
<1> QED BY <1>2, <1>12, <1>14, HaltLawful

\* The driver gives the command k with n requests to slot s, by PxSACT when it
\* is queued and by PxCI otherwise.
Given(s, k, n) ==
    IF k \in NcqKinds THEN [Prepare(s, k, n) EXCEPT !.sact = @ \cup {s}]
    ELSE [Prepare(s, k, n) EXCEPT !.ci = @ \cup {s}]

LEMMA Submitted ==
    ASSUME Params, Fine(sc), sc.st, ~Resetting, NEW s \in Slots, Idle(s),
           NEW k \in Kinds, NEW n \in 0..MaxChunks, k \in Async <=> n > 0,
           k = "srst" => sc.ci \cup sc.sact = {},
           NEW q, q = Given(s, k, n)
    PROVE  /\ Fine(q) /\ q.st
           /\ \/ Same(sc, q, s)
              \/ St(sc, s) = "free" /\ ~Mv(sc, s) /\ St(q, s) = "issued" /\ ~Mv(q, s)
           /\ \A x \in Slots : x # s => Same(sc, q, x)
<1> DEFINE u == [sc.cmd EXCEPT ![s] = k]
           m == IF s \in sc.pending THEN sc.chunks[s] ELSE n
           v == [sc.chunks EXCEPT ![s] = m]
           a == IF k \in NcqKinds THEN sc.sact \cup {s} ELSE sc.sact
           c == IF k \in NcqKinds THEN sc.ci ELSE sc.ci \cup {s}
<1>1. sc \in Softc /\ Announced(sc) /\ Port(sc) /\ Tidy(sc) /\ s \notin sc.ci \cup sc.sact BY DEF Fine, Good, Idle
<1>2. /\ sc.cmd \in [Slots -> Kinds \cup {"none"}] /\ sc.chunks \in [Slots -> 0..MaxChunks]
      /\ sc.ci \in SUBSET Slots /\ sc.sact \in SUBSET Slots /\ sc.pending \in SUBSET Slots
  BY <1>1 DEF Softc
<1>3. m \in 0..MaxChunks BY <1>2
<1>4. /\ u \in [Slots -> Kinds \cup {"none"}] /\ v \in [Slots -> 0..MaxChunks]
      /\ a \in SUBSET Slots /\ c \in SUBSET Slots /\ u[s] = k /\ v[s] = m
      /\ \A x \in Slots : x # s => u[x] = sc.cmd[x] /\ v[x] = sc.chunks[x]
      /\ \A x : x # s => (x \in a <=> x \in sc.sact) /\ (x \in c <=> x \in sc.ci)
      /\ (s \in a <=> k \in NcqKinds) /\ (s \in c <=> k \notin NcqKinds)
  <2> HIDE DEF m
  <2> QED BY <1>1, <1>2, <1>3
<1>5. (s \in sc.pending => m = sc.chunks[s]) /\ (s \notin sc.pending => m = n) OBVIOUS
<1>6. /\ q \in Softc /\ SameIntr(sc, q) /\ q.ci = c /\ q.sact = a /\ q.pending = sc.pending
      /\ q.failed = sc.failed /\ q.aior = sc.aior /\ q.chunks = v /\ q.cmd = u /\ q.stale = sc.stale
      /\ q.st = sc.st /\ q.cr = sc.cr /\ q.fre = sc.fre /\ q.busy = sc.busy /\ q.waitforclear = sc.waitforclear
  <2> DEFINE b == [sc EXCEPT !.cmd = u, !.chunks = v]
  <2>0. /\ k \in NcqKinds => q = [b EXCEPT !.sact = a]
        /\ k \notin NcqKinds => q = [b EXCEPT !.ci = c]
    <3>1. Prepare(s, k, n) = b BY <1>1 DEF Softc, Prepare
    <3>2. b.sact = sc.sact /\ b.ci = sc.ci BY <1>1 DEF Softc
    <3> HIDE DEF b
    <3> QED BY <3>1, <3>2 DEF Given
  <2>1. u \in [Slots -> Kinds \cup {"none"}] /\ v \in [Slots -> 0..MaxChunks] /\ a \in SUBSET Slots /\ c \in SUBSET Slots
    BY <1>4
  <2>2. (k \in NcqKinds => c = sc.ci) /\ (k \notin NcqKinds => a = sc.sact) OBVIOUS
  <2> HIDE DEF u, v, a, c
  <2>3. /\ b \in Softc /\ SameIntr(sc, b) /\ b.ci = sc.ci /\ b.sact = sc.sact /\ b.pending = sc.pending
        /\ b.failed = sc.failed /\ b.aior = sc.aior /\ b.chunks = v /\ b.cmd = u /\ b.stale = sc.stale
        /\ b.st = sc.st /\ b.cr = sc.cr /\ b.fre = sc.fre /\ b.busy = sc.busy /\ b.waitforclear = sc.waitforclear
    BY <1>1, <2>1 DEF Softc, SameIntr
  <2> HIDE DEF b
  <2>4. CASE k \in NcqKinds
    <3>0. b \in Softc /\ a \in SUBSET Slots BY <2>1, <2>3
    <3>1. q = [b EXCEPT !.sact = a] BY <2>0, <2>4
    <3>2. /\ q \in Softc /\ SameIntr(b, q) /\ q.ci = b.ci /\ q.sact = a /\ q.pending = b.pending
          /\ q.failed = b.failed /\ q.aior = b.aior /\ q.chunks = b.chunks /\ q.cmd = b.cmd /\ q.stale = b.stale
          /\ q.st = b.st /\ q.cr = b.cr /\ q.fre = b.fre /\ q.busy = b.busy /\ q.waitforclear = b.waitforclear
      BY ONLY <3>0, <3>1 DEF Softc, SameIntr
    <3> QED BY <2>2, <2>3, <2>4, <3>2 DEF SameIntr
  <2>5. CASE k \notin NcqKinds
    <3>0. b \in Softc /\ c \in SUBSET Slots BY <2>1, <2>3
    <3>1. q = [b EXCEPT !.ci = c] BY <2>0, <2>5
    <3>2. /\ q \in Softc /\ SameIntr(b, q) /\ q.ci = c /\ q.sact = b.sact /\ q.pending = b.pending
          /\ q.failed = b.failed /\ q.aior = b.aior /\ q.chunks = b.chunks /\ q.cmd = b.cmd /\ q.stale = b.stale
          /\ q.st = b.st /\ q.cr = b.cr /\ q.fre = b.fre /\ q.busy = b.busy /\ q.waitforclear = b.waitforclear
      BY ONLY <3>0, <3>1 DEF Softc, SameIntr
    <3> QED BY <2>2, <2>3, <2>5, <3>2 DEF SameIntr
  <2> QED BY <2>4, <2>5
<1>7. k # "none" /\ (k = "srst" => k \notin NcqKinds) BY DEF Kinds, NcqKinds
<1>8. k = "srst" => c = {s} /\ a = {} BY <1>7
<1> HIDE DEF u, v, a, c, m
<1>9. Announced(q) BY <1>1, <1>6 DEF Announced, Raised, Up, SameIntr
<1>10. ASSUME NEW x \in Slots, x # s PROVE SlotOk(q, x) /\ Same(sc, q, x)
  <2>1. SlotOk(sc, x) BY <1>1 DEF Port
  <2>2. q.cmd[x] = sc.cmd[x] /\ q.chunks[x] = sc.chunks[x] /\ (x \in q.sact <=> x \in sc.sact) /\ (x \in q.ci <=> x \in sc.ci)
    BY <1>4, <1>6, <1>10
  <2>3. x \in sc.ci => sc.cmd[x] # "srst" BY DEF Resetting
  <2>4. ASSUME x \notin q.stale PROVE Fresh(q, x)
    <3>1. Fresh(sc, x) BY <1>6, <2>1, <2>4 DEF SlotOk
    <3> QED BY <1>6, <2>2, <3>1 DEF Fresh
  <2>5. SlotOk(q, x) BY <1>6, <2>1, <2>2, <2>3, <2>4 DEF SlotOk
  <2>6. Same(sc, q, x) BY <1>6, <2>2 DEF Same, St, Wk, Mv, Used
  <2> QED BY <2>5, <2>6
<1>11. SlotOk(sc, s) /\ sc.cr BY <1>1 DEF Port, Whole
<1>12. s \notin sc.stale => s \notin sc.pending /\ s \notin sc.failed /\ sc.aior[s] = "free"
  <2>1. SUFFICES ASSUME s \notin sc.stale PROVE s \notin sc.pending /\ s \notin sc.failed /\ sc.aior[s] = "free" OBVIOUS
  <2>2. s \notin sc.pending BY <1>1, <1>11, <2>1 DEF SlotOk, Fresh
  <2> QED BY <1>1, <1>11, <2>2 DEF SlotOk, Tidy, Used
<1>13. q.cmd[s] = k /\ q.chunks[s] = m /\ (s \in q.sact <=> k \in NcqKinds) /\ (s \in q.ci <=> k \notin NcqKinds)
  BY <1>4, <1>6
<1>14. SlotOk(q, s)
  <2>1. ASSUME s \notin q.stale PROVE Fresh(q, s)
    <3>1. s \notin q.pending /\ s \notin q.failed /\ q.chunks[s] = n /\ q.cr BY <1>5, <1>6, <1>11, <1>12, <1>13, <2>1
    <3> QED BY <1>13, <3>1 DEF Fresh
  <2>2. s \in q.pending => q.chunks[s] > 0 BY <1>5, <1>6, <1>11, <1>13 DEF SlotOk
  <2>3. s \in q.pending <=> q.aior[s] # "free" BY <1>6, <1>11 DEF SlotOk
  <2> QED BY <1>6, <1>7, <1>8, <1>13, <2>1, <2>2, <2>3 DEF SlotOk
<1>15. Whole(q)
  <2>1. \A x \in sc.pending \cap sc.ci : x \in Slots /\ x # s BY <1>1, <1>2
  <2>2. q.busy => \E x \in q.pending \cap q.ci : q.cmd[x] = "rw" BY <1>1, <1>4, <1>6, <2>1 DEF Port, Whole
  <2> QED BY <1>1, <1>6, <2>2 DEF Port, Whole
<1>16. Tidy(q)
  <2>1. ASSUME NEW x \in Slots, x \in q.failed \cup q.stale PROVE Used(q, x)
    <3>1. Used(sc, x) BY <1>1, <1>6, <2>1 DEF Tidy
    <3>2. CASE x # s BY <1>4, <1>6, <3>1, <3>2 DEF Used
    <3>3. CASE x = s BY <1>13, <3>3 DEF Used
    <3> QED BY <3>2, <3>3
  <2> QED BY <2>1 DEF Tidy
<1>17. Fine(q) BY <1>6, <1>9, <1>10, <1>14, <1>15, <1>16 DEF Fine, Good, Port
<1>18. CASE s \in sc.stale
  <2>1. Same(sc, q, s) BY <1>6, <1>18 DEF Same, St, Wk, Mv
  <2> QED BY <1>6, <1>10, <1>17, <2>1
<1>19. CASE s \notin sc.stale
  <2>1. St(sc, s) = "free" /\ ~Mv(sc, s) BY <1>1, <1>12, <1>19 DEF St, Mv, Used
  <2>2. St(q, s) = "issued" /\ ~Mv(q, s) BY <1>6, <1>12, <1>13, <1>19 DEF St, Mv, Used
  <2> QED BY <1>6, <1>10, <1>17, <2>1, <2>2
<1> QED BY <1>18, <1>19

LEMMA SactSteps ==
    ASSUME Params, Fine(sc), NEW s \in Slots, SactWrite(s)
    PROVE  Lawful(sc, sc')
<1>1. PICK k \in KindsOf(sc.atapi) \cap NcqKinds, n \in 0..MaxChunks :
          (k \in Async <=> n > 0) /\ sc' = [Prepare(s, k, n) EXCEPT !.sact = @ \cup {s}]
  BY DEF SactWrite
<1>2. sc.st /\ Idle(s) /\ ~Resetting BY DEF SactWrite
<1>3. k \in Kinds /\ k # "srst" /\ k \in NcqKinds BY DEF Kinds, NcqKinds
<1>4. sc' = Given(s, k, n) BY <1>1, <1>3 DEF Given
<1>5. /\ Fine(sc')
      /\ \/ Same(sc, sc', s)
         \/ St(sc, s) = "free" /\ ~Mv(sc, s) /\ St(sc', s) = "issued" /\ ~Mv(sc', s)
      /\ \A x \in Slots : x # s => Same(sc, sc', x)
  BY <1>1, <1>2, <1>3, <1>4, Submitted
<1>6. Serves(sc, sc', s) BY <1>5 DEF Serves
<1> QED BY <1>5, <1>6, SameServes DEF Lawful

LEMMA CiSteps ==
    ASSUME Params, Fine(sc), NEW s \in Slots, CiWrite(s)
    PROVE  Lawful(sc, sc')
<1>1. sc \in Softc /\ Announced(sc) /\ Port(sc) BY DEF Fine, Good
<1>2. sc.st /\ s \notin sc.ci /\ ~Resetting BY DEF CiWrite
<1>3. CASE /\ sc.cmd[s] \in NcqKinds /\ s \in sc.sact
           /\ s \notin sc.failed /\ (s \in sc.pending => s \in sc.stale)
           /\ \E p \in {HandlePort([sc EXCEPT !.ci = @ \cup {s}])} : sc' = Return(p)
  <2> DEFINE c == sc.ci \cup {s}
             p == [sc EXCEPT !.ci = c]
  <2>1. sc' = Return(HandlePort(p)) BY <1>3
  <2>2. c \in SUBSET Slots /\ s \in c /\ \A x : x # s => (x \in c <=> x \in sc.ci) BY <1>1 DEF Softc
  <2> HIDE DEF c
  <2>3. /\ p \in Softc /\ SameIntr(sc, p) /\ p.ci = c /\ p.sact = sc.sact /\ p.pending = sc.pending
        /\ p.failed = sc.failed /\ p.aior = sc.aior /\ p.chunks = sc.chunks /\ p.cmd = sc.cmd /\ p.stale = sc.stale
        /\ p.st = sc.st /\ p.cr = sc.cr /\ p.fre = sc.fre /\ p.busy = sc.busy /\ p.waitforclear = sc.waitforclear
    BY <1>1, <2>2 DEF Softc, SameIntr
  <2> HIDE DEF p
  <2>4. Announced(p) BY <1>1, <2>3 DEF Announced, Raised, Up, SameIntr
  <2>5. sc.cmd[s] # "none" /\ sc.cmd[s] # "srst" BY <1>3 DEF NcqKinds
  <2>6. ASSUME NEW x \in Slots PROVE SlotOk(p, x)
    <3>1. SlotOk(sc, x) /\ (x \in sc.ci => sc.cmd[x] # "srst") BY <1>1, <1>2 DEF Port, Resetting
    <3>2. x \in p.ci => x = s \/ x \in sc.ci BY <2>2, <2>3
    <3>3. ASSUME x \notin p.stale PROVE Fresh(p, x)
      <4>1. Fresh(sc, x) /\ sc.cr BY <1>1, <1>2, <2>3, <3>1, <3>3 DEF SlotOk, Port, Whole
      <4>2. CASE x = s BY <1>3, <2>3, <3>3, <4>1, <4>2 DEF Fresh
      <4>3. CASE x # s BY <2>2, <2>3, <4>1, <4>3 DEF Fresh
      <4> QED BY <4>2, <4>3
    <3> QED BY <2>3, <2>5, <3>1, <3>2, <3>3 DEF SlotOk
  <2>7. Whole(p)
    <3>1. \A x \in sc.pending \cap sc.ci : x \in p.pending \cap p.ci /\ p.cmd[x] = sc.cmd[x] BY <1>2, <2>2, <2>3
    <3>2. Whole(sc) BY <1>1 DEF Port
    <3> QED BY <2>3, <3>1, <3>2 DEF Whole
  <2>8. Good(p) BY <2>3, <2>4, <2>6, <2>7 DEF Good, Port
  <2>9. ASSUME NEW x \in Slots PROVE Advances(sc, p, x)
    <3>1. Used(p, x) <=> Used(sc, x) BY <1>3, <2>2, <2>3 DEF Used
    <3> QED BY <2>3, <3>1, AdvancesSame
  <2> QED BY <1>2, <2>1, <2>3, <2>8, <2>9, EngineLawful
<1>4. CASE /\ Idle(s)
           /\ \E k \in (KindsOf(sc.atapi) \ NcqKinds) \cup {"srst", "foreign"}, n \in 0..MaxChunks :
                 /\ k \in Async <=> n > 0
                 /\ k = "srst" => sc.ci \cup sc.sact = {}
                 /\ \E p \in {HandlePort([Prepare(s, k, n) EXCEPT !.ci = @ \cup {s}])} : sc' = Return(p)
  <2>1. PICK k \in (KindsOf(sc.atapi) \ NcqKinds) \cup {"srst", "foreign"}, n \in 0..MaxChunks :
                 /\ k \in Async <=> n > 0
                 /\ k = "srst" => sc.ci \cup sc.sact = {}
                 /\ sc' = Return(HandlePort([Prepare(s, k, n) EXCEPT !.ci = @ \cup {s}]))
    BY <1>4
  <2>2. k \in Kinds /\ k \notin NcqKinds BY DEF KindsOf, Kinds, NcqKinds
  <2> DEFINE p == Given(s, k, n)
             h == HandlePort(p)
  <2>3. sc' = Return(h) BY <2>1, <2>2 DEF Given
  <2>4. /\ Fine(p) /\ p.st
        /\ \/ Same(sc, p, s)
           \/ St(sc, s) = "free" /\ ~Mv(sc, s) /\ St(p, s) = "issued" /\ ~Mv(p, s)
        /\ \A x \in Slots : x # s => Same(sc, p, x)
    BY <1>2, <1>4, <2>1, <2>2, Submitted
  <2> HIDE DEF p
  <2>5. Turned(p, h) BY <2>4, HandlePortKeeps DEF Fine
  <2> HIDE DEF h
  <2>6. Fine(sc') /\ \A x \in Slots : Returns(h, sc', x) BY <2>3, <2>5, ReturnKeeps DEF Turned
  <2>7. ASSUME NEW x \in Slots PROVE Serves(sc, sc', x)
    <3>1. Advances(p, h, x) /\ Returns(h, sc', x) BY <2>5, <2>6 DEF Turned
    <3>2. CASE Same(sc, p, x)
      <4>1. Advances(sc, p, x) BY <3>2 DEF Same, Advances
      <4>2. Advances(sc, h, x) BY <3>1, <4>1, AdvancesOn
      <4> QED BY <3>1, <4>2, AdvancesServes
    <3>3. CASE x = s /\ St(sc, s) = "free" /\ ~Mv(sc, s) /\ St(p, s) = "issued" /\ ~Mv(p, s)
      <4>1. ~Mv(h, x) /\ St(h, x) \in {"free", "issued", "failed"} BY <3>1, <3>3 DEF Advances
      <4>2. ~Mv(sc', x) /\ St(sc', x) \in {"free", "issued", "failed"} BY <3>1, <4>1 DEF Returns, Same
      <4>3. CASE St(sc', x) = "issued" BY <3>3, <4>2, <4>3 DEF Serves
      <4>4. CASE St(sc', x) = "free"
        <5>1. Wk(sc', x) = 0 /\ Wk(sc, x) = 0 BY <3>3, <4>4 DEF Wk
        <5>2. Same(sc, sc', x) BY <3>3, <4>2, <4>4, <5>1 DEF Same
        <5> QED BY <5>2, SameServes
      <4>5. CASE St(sc', x) = "failed" BY <3>3, <4>2, <4>5 DEF Serves
      <4> QED BY <4>2, <4>3, <4>4, <4>5
    <3> QED BY <2>4, <3>2, <3>3
  <2> QED BY <2>6, <2>7 DEF Lawful
<1> QED BY <1>3, <1>4 DEF CiWrite

LEMMA StartSteps ==
    ASSUME Params, Fine(sc), NEW s \in Slots, BackendStarts(s)
    PROVE  Lawful(sc, sc')
<1> DEFINE f == [sc.aior EXCEPT ![s] = "busy"]
<1>1. sc \in Softc /\ Announced(sc) /\ Port(sc) /\ Tidy(sc) BY DEF Fine, Good
<1>2. sc.aior \in [Slots -> {"free", "queued", "busy"}] BY <1>1 DEF Softc
<1>3. sc.aior[s] = "queued" /\ sc' = [sc EXCEPT !.aior = f] BY <1>1 DEF BackendStarts, Softc
<1>4. /\ f \in [Slots -> {"free", "queued", "busy"}] /\ f[s] = "busy"
      /\ \A x \in Slots : x # s => f[x] = sc.aior[x]
  BY <1>2
<1> HIDE DEF f
<1>5. /\ sc' \in Softc /\ SameIntr(sc, sc') /\ SameBase(sc, sc') /\ sc'.ci = sc.ci /\ sc'.sact = sc.sact
      /\ sc'.pending = sc.pending /\ sc'.failed = sc.failed /\ sc'.aior = f /\ sc'.busy = sc.busy
      /\ sc'.waitforclear = sc.waitforclear
  BY <1>1, <1>3, <1>4 DEF Softc, SameIntr, SameBase, SameRun
<1>6. Announced(sc') BY <1>1, <1>5 DEF Announced, Raised, Up, SameIntr
<1>7. ASSUME NEW x \in Slots PROVE SlotOk(sc', x)
  <2>1. SlotOk(sc, x) BY <1>1 DEF Port
  <2>2. f[x] # "free" <=> sc.aior[x] # "free" BY <1>3, <1>4
  <2>3. ASSUME x \notin sc'.stale PROVE Fresh(sc', x)
    <3>1. Fresh(sc, x) BY <1>5, <2>1, <2>3 DEF SlotOk, SameBase, SameRun
    <3> QED BY <1>5, <3>1 DEF Fresh, SameBase, SameRun
  <2> QED BY <1>5, <2>1, <2>2, <2>3 DEF SlotOk, SameBase, SameRun
<1>8. Whole(sc') BY <1>1, <1>5 DEF Port, Whole, SameBase, SameRun
<1>9. Tidy(sc') BY <1>1, <1>5 DEF Tidy, Used, SameBase, SameRun
<1>10. ASSUME NEW x \in Slots PROVE Serves(sc, sc', x)
  <2>1. St(sc', x) = St(sc, x) /\ Wk(sc', x) = Wk(sc, x) BY <1>5 DEF St, Wk, Used, SameBase, SameRun
  <2>2. CASE x # s
    <3>1. Same(sc, sc', x) BY <1>4, <1>5, <2>1, <2>2 DEF Same, Mv, SameBase, SameRun
    <3> QED BY <3>1, SameServes
  <2>3. CASE x = s /\ s \in sc.stale
    <3>1. Same(sc, sc', x) BY <1>5, <2>1, <2>3 DEF Same, Mv, SameBase, SameRun
    <3> QED BY <3>1, SameServes
  <2>4. CASE x = s /\ s \notin sc.stale
    <3>1. SlotOk(sc, s) BY <1>1 DEF Port
    <3>2. s \in sc.pending /\ Fresh(sc, s) /\ sc.chunks[s] > 0 BY <1>3, <2>4, <3>1 DEF SlotOk
    <3>3. s \notin sc.failed BY <3>2 DEF Fresh
    <3>4. St(sc, s) = "issued" /\ Wk(sc, s) > 0 BY <2>4, <3>2, <3>3 DEF St, Wk, Used
    <3>5. ~Mv(sc, s) /\ Mv(sc', s) BY <1>3, <1>4, <1>5, <2>4 DEF Mv, SameBase, SameRun
    <3> QED BY <2>1, <2>4, <3>4, <3>5 DEF Serves
  <2> QED BY <2>2, <2>3, <2>4
<1> QED BY <1>5, <1>6, <1>7, <1>8, <1>9, <1>10 DEF Lawful, Fine, Good, Port

\* The last backend request of the command of slot s is over, before the port
\* looks whether it stopped.
Ended(s, ok) ==
    LET q == Transferred(s, ok)
    IN [(IF sc.cmd[s] \in NcqKinds THEN WriteFisSdb(q, s, ok) ELSE WriteFisD2h(q, s, ok)) EXCEPT !.pending = @ \ {s}]

\* What the callback leaves alone when it takes the answer of the backend.
Taken(q, s, ok) ==
    /\ SameRun(sc, q) /\ q.ci = sc.ci /\ q.sact = sc.sact /\ q.pending = sc.pending /\ q.failed = sc.failed
    /\ q.busy = sc.busy /\ q.waitforclear = sc.waitforclear
    /\ q.aior[s] = "free" /\ q.chunks[s] = (IF ok THEN sc.chunks[s] - 1 ELSE 0)
    /\ \A x \in Slots : x # s => q.aior[x] = sc.aior[x] /\ q.chunks[x] = sc.chunks[x]

LEMMA TransferredFields ==
    ASSUME Params, Fine(sc), NEW s \in Slots, sc.aior[s] = "busy", NEW ok \in BOOLEAN
    PROVE  Transferred(s, ok) \in Softc /\ Announced(Transferred(s, ok)) /\ Taken(Transferred(s, ok), s, ok)
<1> DEFINE n == IF ok THEN sc.chunks[s] - 1 ELSE 0
           f == [sc.aior EXCEPT ![s] = "free"]
           g == [sc.chunks EXCEPT ![s] = n]
           q == [sc EXCEPT !.aior = f, !.chunks = g]
<1>1. sc \in Softc /\ Announced(sc) /\ SlotOk(sc, s) BY DEF Fine, Good, Port
<1>2. sc.aior \in [Slots -> {"free", "queued", "busy"}] /\ sc.chunks \in [Slots -> 0..MaxChunks] BY <1>1 DEF Softc
<1>3. sc.chunks[s] > 0 /\ sc.chunks[s] \in 0..MaxChunks BY <1>1, <1>2 DEF SlotOk
<1>4. n \in 0..MaxChunks BY <1>3 DEF Params
<1>5. Transferred(s, ok) = q BY <1>1 DEF Transferred, Softc
<1> HIDE DEF n
<1>6. /\ f \in [Slots -> {"free", "queued", "busy"}] /\ f[s] = "free"
      /\ \A x \in Slots : x # s => f[x] = sc.aior[x]
  BY <1>2
<1>7. /\ g \in [Slots -> 0..MaxChunks] /\ g[s] = n /\ \A x \in Slots : x # s => g[x] = sc.chunks[x]
  BY <1>2, <1>4
<1> HIDE DEF f, g
<1>8. /\ q \in Softc /\ SameIntr(sc, q) /\ SameRun(sc, q) /\ q.ci = sc.ci /\ q.sact = sc.sact /\ q.pending = sc.pending
      /\ q.failed = sc.failed /\ q.aior = f /\ q.chunks = g /\ q.busy = sc.busy /\ q.waitforclear = sc.waitforclear
  BY <1>1, <1>6, <1>7 DEF Softc, SameIntr, SameRun
<1> HIDE DEF q
<1>9. Announced(q) BY <1>1, <1>8 DEF Announced, Raised, Up, SameIntr
<1>10. Taken(q, s, ok) BY <1>6, <1>7, <1>8 DEF Taken, n
<1> QED BY <1>5, <1>8, <1>9, <1>10

\* What the answer changes.
Over(r, s, ok) ==
    /\ SameRun(sc, r) /\ r.pending = sc.pending \ {s}
    /\ r.ci = (IF ok /\ sc.cmd[s] \notin NcqKinds THEN sc.ci \ {s} ELSE sc.ci)
    /\ r.sact = (IF ok /\ sc.cmd[s] \in NcqKinds THEN sc.sact \ {s} ELSE sc.sact)
    /\ r.failed = (IF ok THEN sc.failed ELSE sc.failed \cup {s})
    /\ r.waitforclear = (IF ok THEN sc.waitforclear ELSE sc.waitforclear \/ sc.fre)
    /\ r.busy = (IF sc.cmd[s] \notin NcqKinds THEN FALSE ELSE sc.busy)
    /\ r.aior[s] = "free" /\ r.chunks[s] = (IF ok THEN sc.chunks[s] - 1 ELSE 0)
    /\ \A x \in Slots : x # s => r.aior[x] = sc.aior[x] /\ r.chunks[x] = sc.chunks[x]

LEMMA EndedFields ==
    ASSUME Params, Fine(sc), NEW s \in Slots, sc.aior[s] = "busy", NEW ok \in BOOLEAN
    PROVE  Ended(s, ok) \in Softc /\ Announced(Ended(s, ok)) /\ Over(Ended(s, ok), s, ok)
<1> DEFINE q == Transferred(s, ok)
           h == IF sc.cmd[s] \in NcqKinds THEN WriteFisSdb(q, s, ok) ELSE WriteFisD2h(q, s, ok)
           d == sc.pending \ {s}
           r == Ended(s, ok)
<1>1. sc \in Softc BY DEF Fine, Good
<1>2. q \in Softc /\ Announced(q) /\ Taken(q, s, ok) BY TransferredFields
<1>3. r = [h EXCEPT !.pending = h.pending \ {s}] BY DEF Ended
<1> HIDE DEF q
<1>4. /\ h \in Softc /\ Announced(h) /\ SameBase(q, h) /\ h.pending = q.pending /\ h.aior = q.aior
      /\ h.failed = (IF ok THEN q.failed ELSE q.failed \cup {s})
      /\ h.waitforclear = (IF ok THEN q.waitforclear ELSE q.waitforclear \/ q.fre)
      /\ h.ci = (IF ok /\ sc.cmd[s] \notin NcqKinds THEN q.ci \ {s} ELSE q.ci)
      /\ h.sact = (IF ok /\ sc.cmd[s] \in NcqKinds THEN q.sact \ {s} ELSE q.sact)
      /\ h.busy = (IF sc.cmd[s] \notin NcqKinds THEN FALSE ELSE q.busy)
  <2>1. CASE sc.cmd[s] \in NcqKinds
    <3> DEFINE w == WriteFisSdb(q, s, ok)
    <3>1. h = w BY <2>1
    <3>2. /\ w \in Softc /\ Announced(w) /\ SameBase(q, w) /\ w.pending = q.pending /\ w.aior = q.aior
          /\ w.sact = (IF ok THEN q.sact \ {s} ELSE q.sact) /\ w.ci = q.ci /\ w.busy = q.busy
          /\ w.failed = (IF ok THEN q.failed ELSE q.failed \cup {s})
          /\ w.waitforclear = (IF ok THEN q.waitforclear ELSE q.waitforclear \/ q.fre)
      BY <1>2, SdbKeeps
    <3> HIDE DEF w, h
    <3> QED BY <2>1, <3>1, <3>2
  <2>2. CASE sc.cmd[s] \notin NcqKinds
    <3> DEFINE w == WriteFisD2h(q, s, ok)
    <3>1. h = w BY <2>2
    <3>2. /\ w \in Softc /\ Announced(w) /\ SameBase(q, w) /\ w.pending = q.pending /\ w.aior = q.aior
          /\ w.ci = (IF ok THEN q.ci \ {s} ELSE q.ci) /\ w.sact = q.sact /\ w.busy = FALSE
          /\ w.failed = (IF ok THEN q.failed ELSE q.failed \cup {s})
          /\ w.waitforclear = (IF ok THEN q.waitforclear ELSE q.waitforclear \/ q.fre)
      BY <1>2, FisKeeps
    <3> HIDE DEF w, h
    <3> QED BY <2>2, <3>1, <3>2
  <2> QED BY <2>1, <2>2
<1> HIDE DEF h
<1>5. d \in SUBSET Slots /\ h.pending \ {s} = d BY <1>1, <1>2, <1>4 DEF Softc, Taken
<1>6. /\ r \in Softc /\ SameIntr(h, r) /\ SameBase(h, r) /\ r.pending = d /\ r.ci = h.ci /\ r.sact = h.sact
      /\ r.aior = h.aior /\ r.failed = h.failed /\ r.waitforclear = h.waitforclear /\ r.busy = h.busy
  <2>1. r = [h EXCEPT !.pending = d] BY <1>3, <1>5
  <2> HIDE DEF r, d
  <2> QED BY <1>4, <1>5, <2>1 DEF Softc, SameIntr, SameBase, SameRun
<1> HIDE DEF r
<1>7. Announced(r) BY <1>4, <1>6 DEF Announced, Raised, Up, SameIntr
<1>8. SameRun(sc, r) BY <1>2, <1>4, <1>6 DEF Taken, SameBase, SameRun
<1>9. /\ r.ci = (IF ok /\ sc.cmd[s] \notin NcqKinds THEN sc.ci \ {s} ELSE sc.ci)
      /\ r.sact = (IF ok /\ sc.cmd[s] \in NcqKinds THEN sc.sact \ {s} ELSE sc.sact)
      /\ r.failed = (IF ok THEN sc.failed ELSE sc.failed \cup {s})
      /\ r.busy = (IF sc.cmd[s] \notin NcqKinds THEN FALSE ELSE sc.busy)
  BY <1>2, <1>4, <1>6 DEF Taken
<1>10. r.waitforclear = (IF ok THEN sc.waitforclear ELSE sc.waitforclear \/ sc.fre)
  BY <1>2, <1>4, <1>6 DEF Taken, SameRun
<1>11. /\ r.aior[s] = "free" /\ r.chunks[s] = (IF ok THEN sc.chunks[s] - 1 ELSE 0)
       /\ \A x \in Slots : x # s => r.aior[x] = sc.aior[x] /\ r.chunks[x] = sc.chunks[x]
  <2>1. r.aior = q.aior /\ r.chunks = q.chunks BY <1>4, <1>6 DEF SameBase
  <2> QED BY <1>2, <2>1 DEF Taken
<1>12. Over(r, s, ok) BY <1>6, <1>8, <1>9, <1>10, <1>11 DEF Over
<1> QED BY <1>6, <1>7, <1>12 DEF r

LEMMA EndedKeeps ==
    ASSUME Params, Fine(sc), NEW s \in Slots, sc.aior[s] = "busy", NEW ok \in BOOLEAN, ok => sc.chunks[s] <= 1
    PROVE  /\ Good(Ended(s, ok)) /\ Ended(s, ok).st = sc.st
           /\ \/ Same(sc, Ended(s, ok), s)
              \/ /\ St(sc, s) = "issued" /\ Mv(sc, s) /\ ~Mv(Ended(s, ok), s)
                 /\ \/ Wk(sc, s) = 1 /\ St(Ended(s, ok), s) = "free"
                    \/ St(Ended(s, ok), s) = "failed"
                    \/ ~sc.st /\ St(Ended(s, ok), s) = "free"
           /\ \A x \in Slots : x # s => Same(sc, Ended(s, ok), x)
<1> DEFINE r == Ended(s, ok)
<1>1. sc \in Softc /\ Port(sc) /\ SlotOk(sc, s) BY DEF Fine, Good, Port
<1>2. r \in Softc /\ Announced(r) /\ Over(r, s, ok) BY EndedFields
<1> HIDE DEF r
<1>3. sc.chunks[s] \in Nat /\ sc.chunks[s] > 0 /\ s \in sc.pending /\ (ok => sc.chunks[s] = 1)
  <2>1. sc.chunks[s] \in Nat BY <1>1 DEF Softc
  <2> QED BY <1>1, <2>1 DEF SlotOk
<1>4. /\ r.ci \subseteq sc.ci /\ r.sact \subseteq sc.sact
      /\ \A x : x # s => /\ (x \in r.ci <=> x \in sc.ci) /\ (x \in r.sact <=> x \in sc.sact)
                         /\ (x \in r.pending <=> x \in sc.pending) /\ (x \in r.failed <=> x \in sc.failed)
      /\ s \notin r.pending /\ r.chunks[s] = 0
      /\ sc.waitforclear => r.waitforclear
  <2>1. r.chunks[s] = 0 BY <1>2, <1>3 DEF Over
  <2>2. r.ci \subseteq sc.ci /\ \A x : x # s => (x \in r.ci <=> x \in sc.ci) BY <1>2 DEF Over
  <2>3. r.sact \subseteq sc.sact /\ \A x : x # s => (x \in r.sact <=> x \in sc.sact) BY <1>2 DEF Over
  <2>4. s \notin r.pending /\ \A x : x # s => (x \in r.pending <=> x \in sc.pending) BY <1>2 DEF Over
  <2>5. \A x : x # s => (x \in r.failed <=> x \in sc.failed) BY <1>2 DEF Over
  <2>6. sc.waitforclear => r.waitforclear BY <1>2 DEF Over
  <2> QED BY <2>1, <2>2, <2>3, <2>4, <2>5, <2>6
<1>5. ASSUME NEW x \in Slots PROVE x \in r.ci /\ r.cmd[x] = "srst" => r.ci = {x} /\ r.sact = {}
  <2>1. SlotOk(sc, x) BY <1>1 DEF Port
  <2> QED BY <1>2, <1>4, <2>1 DEF SlotOk, Over, SameRun
<1>6. ASSUME NEW x \in Slots, x # s PROVE SlotOk(r, x) /\ Same(sc, r, x)
  <2>1. SlotOk(sc, x) BY <1>1 DEF Port
  <2>2. /\ r.cmd = sc.cmd /\ r.st = sc.st /\ r.cr = sc.cr /\ r.stale = sc.stale
        /\ r.aior[x] = sc.aior[x] /\ r.chunks[x] = sc.chunks[x]
    BY <1>2, <1>6 DEF Over, SameRun
  <2>3. ASSUME x \notin r.stale PROVE Fresh(r, x)
    <3>1. Fresh(sc, x) BY <2>1, <2>2, <2>3 DEF SlotOk
    <3> QED BY <1>4, <1>6, <2>2, <3>1 DEF Fresh
  <2>4. SlotOk(r, x) BY <1>4, <1>5, <1>6, <2>1, <2>2, <2>3 DEF SlotOk
  <2>5. Same(sc, r, x) BY <1>4, <1>6, <2>2 DEF Same, St, Wk, Mv, Used
  <2> QED BY <2>4, <2>5
<1>7. ASSUME s \notin sc.stale
      PROVE /\ sc.cr /\ s \notin sc.failed
            /\ (sc.cmd[s] = "rw" /\ s \in sc.ci /\ s \notin sc.sact) \/ (sc.cmd[s] = "ncq" /\ s \notin sc.ci)
            /\ sc.cmd[s] = "ncq" /\ sc.st => s \in sc.sact
  <2>1. Fresh(sc, s) BY <1>1, <1>7 DEF SlotOk
  <2>2. sc.cr /\ s \notin sc.failed BY <1>3, <2>1 DEF Fresh
  <2>3. s \in sc.sact => sc.cmd[s] # "rw" BY <1>1 DEF SlotOk, NcqKinds
  <2> QED BY <1>3, <2>1, <2>2, <2>3 DEF Fresh
<1>8. SlotOk(r, s)
  <2>1. r.aior[s] = "free" /\ r.cmd = sc.cmd /\ r.stale = sc.stale BY <1>2 DEF Over, SameRun
  <2>2. ASSUME s \notin r.stale PROVE Fresh(r, s)
    <3>1. /\ sc.cr /\ s \notin sc.failed
          /\ (sc.cmd[s] = "rw" /\ s \in sc.ci /\ s \notin sc.sact) \/ (sc.cmd[s] = "ncq" /\ s \notin sc.ci)
      BY <1>7, <2>1, <2>2
    <3>2. r.cr = sc.cr /\ r.st = sc.st BY <1>2 DEF Over, SameRun
    <3>3. "rw" \notin NcqKinds /\ "ncq" \in NcqKinds BY DEF NcqKinds
    <3>4. s \in r.ci => r.cmd[s] \notin NcqKinds BY <1>4, <2>1, <3>1, <3>3
    <3>5. CASE ok
      <4>1. s \notin r.ci \cup r.sact \cup r.pending BY <1>2, <1>4, <3>1, <3>3, <3>5 DEF Over
      <4>2. s \notin r.failed BY <1>2, <3>1, <3>5 DEF Over
      <4> QED BY <4>1, <4>2 DEF Fresh
    <3>6. CASE ~ok
      <4>1. s \in r.failed BY <1>2, <3>6 DEF Over
      <4>2. r.st => r.waitforclear BY <1>1, <1>2, <3>2, <3>6 DEF Over, Port, Whole
      <4> QED BY <1>4, <3>1, <3>2, <3>4, <4>1, <4>2 DEF Fresh
    <3> QED BY <3>5, <3>6
  <2> QED BY <1>1, <1>4, <1>5, <2>1, <2>2 DEF SlotOk
<1>9. Whole(r)
  <2>1. Whole(sc) BY <1>1 DEF Port
  <2>2. r.st /\ r.busy => \E x \in r.pending \cap r.ci : r.cmd[x] = "rw"
    <3>1. SUFFICES ASSUME r.st, r.busy PROVE \E x \in r.pending \cap r.ci : r.cmd[x] = "rw" OBVIOUS
    <3>2. sc.cmd[s] \in NcqKinds /\ sc.st /\ sc.busy /\ r.cmd = sc.cmd BY <1>2, <3>1 DEF Over, SameRun
    <3>3. PICK x \in sc.pending \cap sc.ci : sc.cmd[x] = "rw" BY <2>1, <3>2 DEF Whole
    <3>4. x # s BY <3>2, <3>3 DEF NcqKinds
    <3> QED BY <1>4, <3>2, <3>3, <3>4
  <2> QED BY <1>2, <2>1, <2>2 DEF Whole, Over, SameRun
<1>10. Good(r) /\ r.st = sc.st BY <1>2, <1>6, <1>8, <1>9 DEF Good, Port, Over, SameRun
<1>11. r.stale = sc.stale /\ r.aior[s] = "free" BY <1>2 DEF Over, SameRun
<1>12. CASE s \in sc.stale
  <2>1. Same(sc, r, s) BY <1>11, <1>12 DEF Same, St, Wk, Mv
  <2> QED BY <1>6, <1>10, <2>1 DEF r
<1>13. CASE s \notin sc.stale
  <2>1. /\ sc.cr /\ s \notin sc.failed
        /\ (sc.cmd[s] = "rw" /\ s \in sc.ci /\ s \notin sc.sact) \/ (sc.cmd[s] = "ncq" /\ s \notin sc.ci)
        /\ sc.cmd[s] = "ncq" /\ sc.st => s \in sc.sact
    BY <1>7, <1>13
  <2>2. St(sc, s) = "issued" /\ Mv(sc, s) /\ ~Mv(r, s) BY <1>3, <1>11, <1>13, <2>1 DEF St, Mv, Used
  <2>3. "rw" \notin NcqKinds /\ "ncq" \in NcqKinds BY DEF NcqKinds
  <2>4. CASE ok
    <3>1. s \notin r.ci \cup r.sact \cup r.pending BY <1>2, <1>4, <2>1, <2>3, <2>4 DEF Over
    <3>2. St(r, s) = "free" BY <1>11, <1>13, <3>1 DEF St, Used
    <3>3. Wk(sc, s) = 1 BY <1>3, <2>2, <2>4 DEF Wk
    <3> QED BY <1>6, <1>10, <2>2, <3>2, <3>3 DEF r
  <2>5. CASE ~ok
    <3>1. s \in r.failed /\ r.ci = sc.ci /\ r.sact = sc.sact BY <1>2, <2>5 DEF Over
    <3>2. Used(r, s) => St(r, s) = "failed" BY <1>11, <1>13, <3>1 DEF St
    <3>3. ~Used(r, s) => ~sc.st /\ St(r, s) = "free" BY <1>11, <1>13, <2>1, <3>1 DEF St, Used
    <3> QED BY <1>6, <1>10, <2>2, <3>2, <3>3 DEF r
  <2> QED BY <2>4, <2>5
<1> QED BY <1>12, <1>13

\* ata_ioreq_cb() and atapi_ioreq_cb(): the next transfer of the command.
LEMMA NextTransfer ==
    ASSUME Params, Fine(sc), NEW s \in Slots, sc.aior[s] = "busy", sc.chunks[s] > 1,
           NEW r, r = Enqueue(Transferred(s, TRUE), s)
    PROVE  Lawful(sc, r)
<1> DEFINE q == Transferred(s, TRUE)
<1>0. sc.aior[s] = "busy" /\ sc.chunks[s] > 1 OBVIOUS
<1>1. sc \in Softc /\ Port(sc) /\ Tidy(sc) /\ SlotOk(sc, s) BY DEF Fine, Good, Port
<1>2. q \in Softc /\ Announced(q) /\ Taken(q, s, TRUE) BY TransferredFields
<1>3. r = Enqueue(q, s) OBVIOUS
<1> HIDE DEF q
<1>4. r \in Softc /\ Announced(r) /\ Queued(q, r, s) /\ r.ci = q.ci /\ r.busy = q.busy BY <1>2, <1>3, EnqueueKeeps
<1>5. sc.chunks[s] \in Nat BY <1>1 DEF Softc
<1>6. q.chunks[s] = sc.chunks[s] - 1 /\ q.chunks[s] > 0 BY <1>2, <1>5 DEF Taken
<1>7. s \in sc.pending BY <1>1 DEF SlotOk
<1>8. SameRun(sc, r) BY <1>2, <1>4 DEF Taken, Queued, SameRun
<1>9. /\ r.ci = sc.ci /\ r.sact = sc.sact /\ r.pending = sc.pending /\ r.failed = sc.failed /\ r.busy = sc.busy
      /\ r.waitforclear = sc.waitforclear
  BY <1>2, <1>4, <1>7 DEF Taken, Queued
<1>10. /\ r.aior[s] = "queued" /\ r.chunks[s] = sc.chunks[s] - 1
       /\ \A x \in Slots : x # s => r.aior[x] = sc.aior[x] /\ r.chunks[x] = sc.chunks[x]
  BY <1>2, <1>4, <1>6 DEF Taken, Queued
<1>11. ASSUME NEW x \in Slots PROVE SlotOk(r, x)
  <2>1. SlotOk(sc, x) BY <1>1 DEF Port
  <2>2. /\ (r.aior[x] # "free" <=> sc.aior[x] # "free") /\ (r.chunks[x] > 0 <=> sc.chunks[x] > 0)
    <3>1. CASE x = s
      <4>1. r.aior[s] # "free" /\ sc.aior[s] # "free" BY ONLY <1>0, <1>10
      <4>2. r.chunks[s] > 0 /\ sc.chunks[s] > 0 BY ONLY <1>0, <1>5, <1>10
      <4> QED BY <3>1, <4>1, <4>2
    <3>2. CASE x # s BY <1>10, <3>2
    <3> QED BY <3>1, <3>2
  <2>3. ASSUME x \notin r.stale PROVE Fresh(r, x)
    <3>1. Fresh(sc, x) BY <1>8, <2>1, <2>3 DEF SlotOk, SameRun
    <3> QED BY <1>8, <1>9, <2>2, <3>1 DEF Fresh, SameRun
  <2> QED BY <1>8, <1>9, <2>1, <2>2, <2>3 DEF SlotOk, SameRun
<1>12. Whole(r) BY <1>1, <1>8, <1>9 DEF Port, Whole, SameRun
<1>13. Tidy(r) BY <1>1, <1>8, <1>9 DEF Tidy, Used, SameRun
<1>14. Fine(r) BY <1>4, <1>11, <1>12, <1>13 DEF Fine, Good, Port
<1>15. ASSUME NEW x \in Slots PROVE Serves(sc, r, x)
  <2>1. St(r, x) = St(sc, x) BY <1>8, <1>9 DEF St, Used, SameRun
  <2>2. CASE x # s
    <3>1. Same(sc, r, x) BY <1>8, <1>10, <2>1, <2>2 DEF Same, Wk, Mv, SameRun
    <3> QED BY <3>1, SameServes
  <2>3. CASE x = s /\ s \in sc.stale
    <3>1. Same(sc, r, x) BY <1>8, <2>3 DEF Same, St, Wk, Mv, SameRun
    <3> QED BY <3>1, SameServes
  <2>4. CASE x = s /\ s \notin sc.stale
    <3>1. Fresh(sc, s) BY <1>1, <2>4 DEF SlotOk
    <3>2. s \notin sc.failed BY <1>7, <3>1 DEF Fresh
    <3>3. St(sc, s) = "issued" /\ Mv(sc, s) BY <1>7, <2>4, <3>2 DEF St, Mv, Used
    <3>4. Wk(sc, s) = sc.chunks[s] /\ Wk(r, s) = sc.chunks[s] - 1 BY <1>10, <2>1, <2>4, <3>3 DEF Wk
    <3>5. ~Mv(r, s) BY <1>10 DEF Mv
    <3> QED BY <2>1, <2>4, <3>3, <3>4, <3>5 DEF Serves
  <2> QED BY <2>2, <2>3, <2>4
<1> QED BY <1>14, <1>15 DEF Lawful

LEMMA CallbackSteps ==
    ASSUME Params, Fine(sc), NEW s \in Slots, Callback(s)
    PROVE  Lawful(sc, sc')
<1>1. sc.aior[s] = "busy" BY DEF Callback
<1>2. CASE sc.chunks[s] > 1 /\ sc' = Enqueue(Transferred(s, TRUE), s) BY <1>1, <1>2, NextTransfer
<1>3. CASE \E ok \in BOOLEAN :
              /\ ok => sc.chunks[s] <= 1
              /\ \E q \in {Finished(s, ok)} : \E p \in {IoreqEnd(q)} : sc' = Return(p)
  <2>1. PICK ok \in BOOLEAN : (ok => sc.chunks[s] <= 1) /\ sc' = Return(IoreqEnd(Finished(s, ok))) BY <1>3
  <2> DEFINE e == Ended(s, ok)
             c == CheckStopped(e)
             h == HandlePort(c)
  <2>2. sc' = Return(h) BY <2>1 DEF Finished, Ended, IoreqEnd
  <2>3. /\ Good(e) /\ e.st = sc.st
        /\ \/ Same(sc, e, s)
           \/ /\ St(sc, s) = "issued" /\ Mv(sc, s) /\ ~Mv(e, s)
              /\ \/ Wk(sc, s) = 1 /\ St(e, s) = "free"
                 \/ St(e, s) = "failed"
                 \/ ~sc.st /\ St(e, s) = "free"
        /\ \A x \in Slots : x # s => Same(sc, e, x)
    BY <1>1, <2>1, EndedKeeps
  <2> HIDE DEF e
  <2>4. /\ Good(c) /\ c.st = e.st /\ (e.st => c = e)
        /\ \A x \in Slots : Same(e, c, x) \/ (~e.st /\ St(c, x) = "free" /\ ~Mv(c, x))
    BY <2>3, CheckStoppedKeeps
  <2> HIDE DEF c
  <2>5. CASE sc.st
    <3>1. c = e /\ c.st BY <2>3, <2>4, <2>5
    <3>2. Turned(e, h) BY <2>4, <3>1, HandlePortKeeps
    <3> HIDE DEF h
    <3>3. Fine(sc') /\ \A x \in Slots : Returns(h, sc', x) BY <2>2, <3>2, ReturnKeeps DEF Turned
    <3>4. ASSUME NEW x \in Slots PROVE Serves(sc, sc', x)
      <4>1. Advances(e, h, x) /\ Returns(h, sc', x) BY <3>2, <3>3 DEF Turned
      <4>2. CASE Same(sc, e, x)
        <5>1. Advances(sc, e, x) BY <4>2 DEF Same, Advances
        <5>2. Advances(sc, h, x) BY <4>1, <5>1, AdvancesOn
        <5> QED BY <4>1, <5>2, AdvancesServes
      <4>3. CASE /\ x = s /\ St(sc, s) = "issued" /\ Mv(sc, s) /\ ~Mv(e, s)
                 /\ (Wk(sc, s) = 1 /\ St(e, s) = "free") \/ St(e, s) = "failed"
        <5>1. St(h, x) = St(e, x) /\ ~Mv(h, x) BY <4>1, <4>3 DEF Advances
        <5>2. St(sc', x) = St(e, x) /\ ~Mv(sc', x) BY <4>1, <4>3, <5>1 DEF Returns, Same
        <5> QED BY <4>3, <5>2 DEF Serves
      <4> QED BY <2>3, <2>5, <4>2, <4>3
    <3> QED BY <3>3, <3>4 DEF Lawful
  <2>6. CASE ~sc.st
    <3>1. h = c /\ ~c.st BY <2>3, <2>4, <2>6 DEF HandlePort
    <3>2. Fine(sc') /\ sc'.st = c.st /\ \A x \in Slots : Returns(c, sc', x) BY <2>2, <2>4, <3>1, ReturnKeeps
    <3>3. ASSUME NEW x \in Slots PROVE Serves(sc, sc', x)
      <4>1. CASE Halts(sc, c, x) BY <3>1, <3>2, <4>1, HaltsServes
      <4>2. CASE St(sc, x) = "issued" /\ ~Mv(c, x) /\ St(c, x) = "failed"
        <5>1. St(sc', x) = "failed" /\ ~Mv(sc', x) BY <3>2, <4>2 DEF Returns, Same
        <5> QED BY <4>2, <5>1 DEF Serves
      <4>3. CASE Same(sc, e, x)
        <5>1. Halts(sc, c, x) BY <2>4, <4>3 DEF Halts, Same
        <5> QED BY <4>1, <5>1
      <4>4. CASE St(sc, x) = "issued" /\ ~Mv(e, x) /\ St(e, x) \in {"free", "failed"}
        <5>1. ~Mv(c, x) /\ St(c, x) \in {"free", "failed"} BY <2>4, <4>4 DEF Same
        <5> QED BY <4>1, <4>2, <4>4, <5>1 DEF Halts
      <4> QED BY <2>3, <4>3, <4>4
    <3> QED BY <3>2, <3>3 DEF Lawful
  <2> QED BY <2>5, <2>6
<1> QED BY <1>2, <1>3 DEF Callback

-----------------------------------------------------------------------------
(* The invariant and what follows from it                                   *)

LEMMA PortInit ==
    ASSUME Params, Init PROVE Fine(sc)
<1>1. PICK m \in Intrs, atapi \in BOOLEAN :
        sc = [ci |-> {}, sact |-> {}, pending |-> {}, ccs |-> 0,
              busy |-> FALSE, waitforclear |-> FALSE, reset |-> FALSE, st |-> FALSE, cr |-> FALSE,
              fre |-> FALSE, stale |-> {}, spin |-> FALSE, atapi |-> atapi,
              cmd |-> [s \in Slots |-> "none"], chunks |-> [s \in Slots |-> 0],
              aior |-> [s \in Slots |-> "free"], failed |-> {},
              is |-> {}, ie |-> {}, his |-> FALSE, ghcie |-> FALSE,
              intr |-> m, lintr |-> FALSE, msi |-> FALSE,
              isr |-> "idle", seen |-> {}, ops |-> 0]
  BY DEF Init
<1>2. 0 \in Slots /\ 0 \in 0..MaxChunks /\ 0 \in 0..GuestOps /\ m \in IntrModes BY DEF Params, Slots
<1>3. sc \in Softc BY <1>1, <1>2 DEF Softc
<1>4. /\ sc.ci = {} /\ sc.sact = {} /\ sc.pending = {} /\ sc.failed = {} /\ sc.st = FALSE /\ sc.is = {} /\ sc.ie = {}
      /\ sc.his = FALSE /\ sc.ghcie = FALSE /\ sc.stale = {}
  BY <1>1
<1>5. \A s \in Slots : sc.aior[s] = "free" BY <1>1
<1>6. Announced(sc) BY <1>4 DEF Announced, Raised
<1>7. \A s \in Slots : SlotOk(sc, s) BY <1>4, <1>5 DEF SlotOk, Fresh
<1>8. Whole(sc) /\ Tidy(sc) BY <1>4 DEF Whole, Tidy
<1> QED BY <1>3, <1>6, <1>7, <1>8 DEF Fine, Good, Port

LEMMA PortNext ==
    ASSUME Params, Fine(sc), Next PROVE Lawful(sc, sc')
BY SactSteps, CiSteps, StartSteps, CallbackSteps, StartControl, StopControl, SctlControl, ResetControl, IntrSteps
   DEF Next, Guest

LEMMA PortStep ==
    ASSUME Params, Fine(sc), [Next]_vars PROVE Fine(sc')
<1>1. CASE Next BY <1>1, PortNext DEF Lawful
<1>2. CASE UNCHANGED vars BY <1>2 DEF vars
<1> QED BY <1>1, <1>2

LEMMA PortSafe ==
    ASSUME Params, Fine(sc) PROVE TypeOK /\ Accounted /\ NoLostInterrupt
<1>1. sc \in Softc /\ Announced(sc) /\ Port(sc) BY DEF Fine, Good
<1>2. \A s \in Slots : s \in sc.pending <=> sc.aior[s] # "free" BY <1>1 DEF Port, SlotOk
<1>3. ~sc.cr => sc.pending \subseteq sc.stale
  <2>1. SUFFICES ASSUME ~sc.cr, NEW s \in sc.pending PROVE s \in sc.stale OBVIOUS
  <2>2. s \in Slots BY <1>1 DEF Softc
  <2> QED BY <1>1, <2>1, <2>2 DEF Port, SlotOk, Fresh
<1>4. Accounted BY <1>1, <1>2, <1>3 DEF Accounted, Port, Whole
<1>5. NoLostInterrupt BY <1>1 DEF NoLostInterrupt, Announced, Up
<1> QED BY <1>1, <1>4, <1>5 DEF TypeOK

AhciSpec == Init /\ [][Next]_vars

(* Every register of the port keeps its type.                                *)
THEOREM AhciTyped == ASSUME Params PROVE AhciSpec => []TypeOK
<1>1. Fine(sc) /\ [Next]_vars => Fine(sc)' BY PortStep
<1>2. Fine(sc) => TypeOK BY PortSafe
<1>3. Init => Fine(sc) BY PortInit
<1>4. QED BY <1>1, <1>2, <1>3, PTL DEF AhciSpec

(* A slot is in flight exactly when the backend holds one request for it, so *)
(* the free list of requests never runs out, also when GHC.HR resets the     *)
(* controller with commands in flight; a device that is busy has a command   *)
(* in flight; a port that reports it stopped has in flight only commands     *)
(* such a reset left (ahci_check_stopped(), ahci_port_stop(), ahci_reset()). *)
THEOREM AhciAccountedAlways == ASSUME Params PROVE AhciSpec => []Accounted
<1>1. Fine(sc) /\ [Next]_vars => Fine(sc)' BY PortStep
<1>2. Fine(sc) => Accounted BY PortSafe
<1>3. Init => Fine(sc) BY PortInit
<1>4. QED BY <1>1, <1>2, <1>3, PTL DEF AhciSpec

(* A cause the guest enabled is always on its way to it, by line or message, *)
(* whatever its handler is doing (ahci_port_intr(), ahci_generate_intr()).   *)
THEOREM AhciAnnouncedAlways == ASSUME Params PROVE AhciSpec => []NoLostInterrupt
<1>1. Fine(sc) /\ [Next]_vars => Fine(sc)' BY PortStep
<1>2. Fine(sc) => NoLostInterrupt BY PortSafe
<1>3. Init => Fine(sc) BY PortInit
<1>4. QED BY <1>1, <1>2, <1>3, PTL DEF AhciSpec

AS == INSTANCE CommandService WITH Tags <- Slots, MaxWork <- MaxChunks, status <- Status, work <- Work,
          moving <- Moving, running <- Running

LEMMA PortView ==
    ASSUME NEW x \in Slots
    PROVE  Status[x] = St(sc, x) /\ Work[x] = Wk(sc, x) /\ (x \in Moving <=> Mv(sc, x))
<1>1. Status[x] = St(sc, x) BY DEF Status, St, Used
<1>2. Work[x] = Wk(sc, x) BY <1>1 DEF Work, Wk
<1> QED BY <1>1, <1>2 DEF Moving, Mv

LEMMA PortViewNext ==
    ASSUME NEW x \in Slots
    PROVE  Status'[x] = St(sc', x) /\ Work'[x] = Wk(sc', x) /\ (x \in Moving' <=> Mv(sc', x))
<1>1. Status'[x] = St(sc', x) BY DEF Status, St, Used
<1>2. Work'[x] = Wk(sc', x) BY <1>1 DEF Work, Wk
<1> QED BY <1>1, <1>2 DEF Moving, Mv

LEMMA PortSimulation ==
    ASSUME Params, Fine(sc), Next PROVE AS!Next
<1>1. Lawful(sc, sc') BY PortNext
<1>2. SUFFICES ASSUME NEW x \in Slots
      PROVE AS!Keep(x) \/ AS!Submit(x) \/ AS!Begin(x) \/ AS!Moved(x) \/ AS!Done(x) \/ AS!Fail(x)
            \/ AS!Collect(x) \/ AS!Abort(x) \/ AS!Lose(x)
  BY DEF AS!Next
<1>3. Serves(sc, sc', x) BY <1>1 DEF Lawful
<1>4. /\ Status[x] = St(sc, x) /\ Work[x] = Wk(sc, x) /\ (x \in Moving <=> Mv(sc, x))
      /\ Status'[x] = St(sc', x) /\ Work'[x] = Wk(sc', x) /\ (x \in Moving' <=> Mv(sc', x))
  BY PortView, PortViewNext
<1>5. St(sc', x) # "issued" => Wk(sc', x) = 0 BY DEF Wk
<1>6. Wk(sc', x) \in 0..MaxChunks
  <2>1. sc'.chunks[x] \in 0..MaxChunks BY <1>1 DEF Lawful, Fine, Good, Softc
  <2>2. 0 \in 0..MaxChunks BY DEF Params
  <2> QED BY <2>1, <2>2 DEF Wk
<1>7. CASE Same(sc, sc', x)
  <2>1. AS!Keep(x) BY <1>4, <1>7 DEF Same, AS!Keep, AS!Becomes
  <2> QED BY <2>1
<1>8. CASE St(sc, x) = "free" /\ St(sc', x) = "issued" /\ ~Mv(sc', x)
  <2>1. AS!Submit(x) BY <1>4, <1>6, <1>8 DEF AS!Submit, AS!Becomes
  <2> QED BY <2>1
<1>9. CASE St(sc, x) = "issued" /\ Wk(sc, x) > 0 /\ ~Mv(sc, x) /\ St(sc', x) = "issued"
           /\ Wk(sc', x) = Wk(sc, x) /\ Mv(sc', x)
  <2>1. AS!Begin(x) BY <1>4, <1>9 DEF AS!Begin, AS!Becomes
  <2> QED BY <2>1
<1>10. CASE Mv(sc, x) /\ Wk(sc, x) > 1 /\ St(sc', x) = "issued" /\ Wk(sc', x) = Wk(sc, x) - 1 /\ ~Mv(sc', x)
  <2>1. AS!Moved(x) BY <1>4, <1>10 DEF AS!Moved, AS!Becomes
  <2> QED BY <2>1
<1>11. CASE St(sc, x) = "issued" /\ Wk(sc, x) = (IF Mv(sc, x) THEN 1 ELSE 0) /\ St(sc', x) = "free" /\ ~Mv(sc', x)
  <2>1. AS!Done(x) BY <1>4, <1>5, <1>11 DEF AS!Done, AS!Becomes
  <2> QED BY <2>1
<1>12. CASE St(sc, x) \in {"free", "issued"} /\ St(sc', x) = "failed" /\ ~Mv(sc', x)
  <2>1. AS!Fail(x) BY <1>4, <1>5, <1>12 DEF AS!Fail, AS!Becomes
  <2> QED BY <2>1
<1>13. CASE St(sc, x) \in {"failed", "lost"} /\ St(sc', x) = "free" /\ ~Mv(sc', x)
  <2>1. AS!Collect(x) BY <1>4, <1>5, <1>13 DEF AS!Collect, AS!Becomes
  <2> QED BY <2>1
<1>14. CASE ~sc'.st /\ St(sc', x) = "free" /\ ~Mv(sc', x)
  <2>1. AS!Abort(x) BY <1>4, <1>5, <1>14 DEF AS!Abort, AS!Becomes, Running
  <2> QED BY <2>1
<1>15. CASE ~sc'.st /\ St(sc, x) # "free" /\ St(sc', x) = "lost" /\ ~Mv(sc', x)
  <2>1. AS!Lose(x) BY <1>4, <1>5, <1>15 DEF AS!Lose, AS!Becomes, Running
  <2> QED BY <2>1
<1> QED BY <1>3, <1>7, <1>8, <1>9, <1>10, <1>11, <1>12, <1>13, <1>14, <1>15 DEF Serves

(* The port implements the command service, for any number of slots and of   *)
(* backend requests to a command: a command is reported complete once, after *)
(* the last of its requests, and is taken back only after the guest cleared  *)
(* PxCMD.ST and no request of it is being carried out. The commands that are *)
(* out when GHC.HR resets the controller are lost: the guest sees the port   *)
(* idle while the backend still holds them (ahci_reset()).                   *)
THEOREM AhciImplements == ASSUME Params PROVE AhciSpec => AS!Spec
<1>1. Init => AS!Init
  <2> SUFFICES ASSUME Init PROVE AS!Init OBVIOUS
  <2>1. /\ sc.ci = {} /\ sc.sact = {} /\ sc.pending = {} /\ sc.stale = {} /\ sc.st = FALSE
        /\ \A x \in Slots : sc.aior[x] = "free"
    BY DEF Init
  <2>2. Status = [x \in Slots |-> "free"] BY <2>1 DEF Status
  <2>3. Work = [x \in Slots |-> 0] BY <2>2 DEF Work
  <2>4. Moving = {} /\ Running = FALSE BY <2>1 DEF Moving, Running
  <2> QED BY <2>2, <2>3, <2>4 DEF AS!Init
<1>2. Fine(sc) /\ [Next]_vars => [AS!Next]_(AS!vars)
  <2> SUFFICES ASSUME Fine(sc), [Next]_vars PROVE [AS!Next]_(AS!vars) OBVIOUS
  <2>1. CASE Next BY <2>1, PortSimulation
  <2>2. CASE UNCHANGED vars
    <3>1. sc' = sc BY <2>2 DEF vars
    <3>2. Status' = Status /\ Moving' = Moving /\ Running' = Running BY <3>1 DEF Status, Moving, Running
    <3>3. Work' = Work BY <3>1, <3>2 DEF Work
    <3> QED BY <3>2, <3>3 DEF AS!vars
  <2> QED BY <2>1, <2>2
<1>3. Fine(sc) /\ [Next]_vars => Fine(sc)' BY PortStep
<1>4. Init => Fine(sc) BY PortInit
<1>5. QED BY <1>1, <1>2, <1>3, <1>4, PTL DEF AhciSpec, AS!Spec

-----------------------------------------------------------------------------
(* The storage devices together                                             *)

\* The proofs about the other controllers, for the parameters of this module.
NP == INSTANCE NvmeProofs WITH Tags <- Chains, MaxRanges <- MaxChunks, CqSize <- 3, IoSlots <- 1, Locked <- TRUE, GuestOps <- 1,
                               AdminSize <- 3, MaxQueues <- 2, MaxAdmin <- 3
VP == INSTANCE VirtioDiskProofs WITH Tags <- Chains, Workers <- {"w1", "w2"}, MaxPosts <- 3, blk <- sc, scsi <- sc

(* The definitions of an instance here and of the same instance in a proof   *)
(* module are the same formulas.                                             *)
LEMMA NvmeSameCount == \A S : NV!Cardinality(S) = NP!Cardinality(S)
  BY DEF NV!Cardinality, NP!Cardinality

LEMMA DiskSameCount == \A S : VD!Cardinality(S) = VP!Cardinality(S)
  BY DEF VD!Cardinality, VP!Cardinality

LEMMA NvmeSameSteps ==
    /\ (NV!Init <=> NP!Init)
    /\ (NV!Next <=> NP!Next)
<1>1. NV!Init <=> NP!Init
  BY DEF NV!None, NP!None, NV!EmptyCq, NP!EmptyCq, NV!Init, NP!Init
<1>2. (NV!Enable <=> NP!Enable) /\ (NV!Disable <=> NP!Disable) /\ (NV!Admin <=> NP!Admin)
  BY DEF NV!None, NP!None, NV!EmptyCq, NP!EmptyCq, NV!Enable, NP!Enable,
         NV!Disable, NP!Disable, NV!CreateIoCq, NP!CreateIoCq, NV!CreateIoSq, NP!CreateIoSq,
         NV!DeleteIoSq, NP!DeleteIoSq, NV!DeleteIoCq, NP!DeleteIoCq, NV!Admin, NP!Admin
<1>3. \A t \in Chains : NV!Submit(t) <=> NP!Submit(t)
  <2>1. NV!Outstanding = NP!Outstanding
    BY DEF NV!Outstanding, NP!Outstanding, NV!None, NP!None
  <2>2. \A t, k, n : NV!SubmitOne(t, k, n) <=> NP!SubmitOne(t, k, n)
    BY <2>1, NvmeSameCount DEF NV!SubmitOne, NP!SubmitOne
  <2> QED
    BY <2>2 DEF NV!Submit, NP!Submit, NV!Kinds, NP!Kinds
<1>4. (NV!IsrEnter <=> NP!IsrEnter) /\ (NV!IsrTake <=> NP!IsrTake) /\ (NV!IsrLeave <=> NP!IsrLeave)
  BY DEF NV!None, NP!None, NV!Next1, NP!Next1, NV!Visible, NP!Visible, NV!IsrEnter, NP!IsrEnter, NV!IsrTake,
         NP!IsrTake, NV!IsrLeave, NP!IsrLeave
<1>5. NV!HandleIoCmd <=> NP!HandleIoCmd
  BY DEF NV!None, NP!None, NV!Post, NP!Post, NV!SetCompletion, NP!SetCompletion, NV!GetIoreq, NP!GetIoreq,
         NV!ReleaseIoreq, NP!ReleaseIoreq, NV!HandleIoCmd, NP!HandleIoCmd
<1>6. /\ (NV!PartSleep <=> NP!PartSleep) /\ (\A t \in Chains : NV!NextPart(t) <=> NP!NextPart(t))
      /\ (NV!LoopEnds <=> NP!LoopEnds) /\ (NV!Unbusy <=> NP!Unbusy) /\ (NV!Release <=> NP!Release)
  BY DEF NV!PartSleep, NP!PartSleep, NV!NextPart, NP!NextPart, NV!LoopEnds, NP!LoopEnds, NV!Unbusy, NP!Unbusy,
         NV!Release, NP!Release, NV!ReleaseIoreq, NP!ReleaseIoreq
<1>7. \A t \in Chains : (NV!BackendStarts(t) <=> NP!BackendStarts(t)) /\ (NV!Callback(t) <=> NP!Callback(t))
  BY DEF NV!None, NP!None, NV!Post, NP!Post, NV!SetCompletion, NP!SetCompletion, NV!BackendStarts,
         NP!BackendStarts, NV!IoDone, NP!IoDone, NV!IoPartial, NP!IoPartial, NV!Callback, NP!Callback
<1> QED
  BY <1>1, <1>2, <1>3, <1>4, <1>5, <1>6, <1>7 DEF NV!Next, NP!Next, NV!Guest, NP!Guest, NV!Thread, NP!Thread

LEMMA NvmeSameInv ==
    /\ (NV!TypeOK <=> NP!TypeOK)
    /\ (NV!Accounted <=> NP!Accounted)
    /\ (NV!PhasesAgree <=> NP!PhasesAgree)
    /\ (NV!NoLostInterrupt <=> NP!NoLostInterrupt)
    /\ (NV!QueueHandled <=> NP!QueueHandled)
  BY NvmeSameCount DEF NV!None, NP!None, NV!Kinds, NP!Kinds, NV!Entry, NP!Entry, NV!Softc, NP!Softc, NV!TypeOK, NP!TypeOK,
         NV!Accounted, NP!Accounted, NV!PhasesAgree, NP!PhasesAgree, NV!NoLostInterrupt, NP!NoLostInterrupt,
         NV!QueueHandled, NP!QueueHandled

LEMMA NvmeSameView ==
    /\ (NV!Status = NP!Status)
    /\ (NV!Work = NP!Work)
    /\ (NV!Moving = NP!Moving)
    /\ (NV!Running = NP!Running)
  BY DEF NV!None, NP!None, NV!Busy, NP!Busy, NV!Status, NP!Status, NV!Work, NP!Work, NV!Moving, NP!Moving,
         NV!Running, NP!Running

LEMMA AdminSameSteps ==
    /\ (NA!Init <=> NP!AD!Init)
    /\ (NA!Next <=> NP!AD!Next)
  BY DEF NA!Queues, NP!AD!Queues, NA!Commands, NP!AD!Commands, NA!Init, NP!AD!Init, NA!Answer, NP!AD!Answer,
         NA!DeleteIoSq, NP!AD!DeleteIoSq, NA!DeleteIoCq, NP!AD!DeleteIoCq, NA!CreateIoSq, NP!AD!CreateIoSq,
         NA!CreateIoCq, NP!AD!CreateIoCq, NA!GetLogPage, NP!AD!GetLogPage, NA!Identify, NP!AD!Identify,
         NA!GetFeatures, NP!AD!GetFeatures, NA!Abort, NP!AD!Abort, NA!ClampQueues, NP!AD!ClampQueues,
         NA!SetFeatureQueues, NP!AD!SetFeatureQueues, NA!SetFeatures, NP!AD!SetFeatures, NA!HandleCommand,
         NP!AD!HandleCommand, NA!Step, NP!AD!Step, NA!Ring, NP!AD!Ring, NA!HandleAdminCmd, NP!AD!HandleAdminCmd,
         NA!Leave, NP!AD!Leave, NA!Interrupt, NP!AD!Interrupt, NA!GuestIntr, NP!AD!GuestIntr, NA!Next,
         NP!AD!Next

LEMMA AdminSameInv ==
    /\ (NA!NoLostInterrupt <=> NP!AD!NoLostInterrupt)
    /\ (NA!QueuesBounded <=> NP!AD!QueuesBounded)
  BY DEF NA!NoLostInterrupt, NP!AD!NoLostInterrupt, NA!QueuesBounded, NP!AD!QueuesBounded

LEMMA BlkSameSteps ==
    /\ (VD!BlkInit <=> VP!BlkInit)
    /\ (VD!BlkNext <=> VP!BlkNext)
  BY DEF VD!Free, VP!Free, VD!Types, VP!Types, VD!BlockifOps, VP!BlockifOps, VD!BlkInit, VP!BlkInit,
         VD!DoneLocked, VP!DoneLocked, VD!BlkPost, VP!BlkPost, VD!IsrEnter, VP!IsrEnter, VD!Collect, VP!Collect,
         VD!EnableIntr, VP!EnableIntr, VD!CheckAgain, VP!CheckAgain, VD!BlkNotifyBegin, VP!BlkNotifyBegin,
         VD!Proc, VP!Proc, VD!BlkNotifyEnd, VP!BlkNotifyEnd, VD!BackendStarts, VP!BackendStarts, VD!Done,
         VP!Done, VD!BlkEndChains, VP!BlkEndChains, VD!BlkDriver, VP!BlkDriver, VD!Device, VP!Device,
         VD!BlkNext, VP!BlkNext

LEMMA BlkSameInv ==
    /\ (VD!BlkNoLostInterrupt <=> VP!BlkNoLostInterrupt)
    /\ (VD!BlkAccounted <=> VP!BlkAccounted)
  BY DiskSameCount DEF VD!Free, VP!Free, VD!BlkNoLostInterrupt, VP!BlkNoLostInterrupt, VD!BlkAccounted, VP!BlkAccounted

LEMMA BlkSameView ==
    /\ (VD!BlkStatus = VP!BlkStatus)
    /\ (VD!BlkWork = VP!BlkWork)
    /\ (VD!BlkMoving = VP!BlkMoving)
  BY DEF VD!Free, VP!Free, VD!BlockifOps, VP!BlockifOps, VD!BlkBusy, VP!BlkBusy, VD!BlkReturned, VP!BlkReturned,
         VD!BlkStatus, VP!BlkStatus, VD!BlkWork, VP!BlkWork, VD!BlkMoving, VP!BlkMoving

LEMMA ScsiSameSteps ==
    /\ (VD!ScsiInit <=> VP!ScsiInit)
    /\ (VD!ScsiNext <=> VP!ScsiNext)
  BY DEF VD!Nil, VP!Nil, VD!ScsiInit, VP!ScsiInit, VD!ScsiPost, VP!ScsiPost, VD!Isr, VP!Isr, VD!SendControl,
         VP!SendControl, VD!ScsiNotifyBegin, VP!ScsiNotifyBegin, VD!Wake, VP!Wake, VD!Waiting, VP!Waiting,
         VD!RequestqNotify, VP!RequestqNotify, VD!ScsiNotifyEnd, VP!ScsiNotifyEnd, VD!TmfHandle, VP!TmfHandle,
         VD!ControlHandle, VP!ControlHandle, VD!Fetch, VP!Fetch, VD!RequestHandle, VP!RequestHandle, VD!Release,
         VP!Release, VD!ScsiEndChains, VP!ScsiEndChains, VD!ScsiDriver, VP!ScsiDriver, VD!Notify, VP!Notify,
         VD!Worker, VP!Worker, VD!ScsiNext, VP!ScsiNext

LEMMA ScsiSameInv ==
    /\ (VD!ScsiNoLostInterrupt <=> VP!ScsiNoLostInterrupt)
    /\ (VD!ScsiAccounted <=> VP!ScsiAccounted)
  BY DiskSameCount DEF VD!Nil, VP!Nil, VD!ScsiNoLostInterrupt, VP!ScsiNoLostInterrupt, VD!ScsiAccounted, VP!ScsiAccounted

LEMMA ScsiSameView ==
    /\ (VD!ScsiStatus = VP!ScsiStatus)
    /\ (VD!ScsiWork = VP!ScsiWork)
    /\ (VD!ScsiMoving = VP!ScsiMoving)
  BY DEF VD!Nil, VP!Nil, VD!ScsiBusy, VP!ScsiBusy, VD!ScsiReturned, VP!ScsiReturned, VD!ScsiStatus,
         VP!ScsiStatus, VD!Handling, VP!Handling, VD!ScsiWork, VP!ScsiWork, VD!ScsiMoving, VP!ScsiMoving

-----------------------------------------------------------------------------
(* A behaviour exercises one part, and is a behaviour of that part          *)

LEMMA NvmeParams == ASSUME Params PROVE NP!Params
<1>1. NP!IsFiniteSet({}) BY NP!FS_EmptySet
<1>2. NP!IsFiniteSet({} \cup {"a"}) BY <1>1, NP!FS_AddElement
<1>3. NP!IsFiniteSet(({} \cup {"a"}) \cup {"b"}) BY <1>2, NP!FS_AddElement
<1>4. Chains = ({} \cup {"a"}) \cup {"b"} BY DEF Chains
<1> QED BY <1>3, <1>4 DEF Params, NP!Params, Chains, NP!None

LEMMA PartStays == [StorageNext]_storageVars => part' = part
  BY DEF StorageNext, storageVars, BlockifPart, AhciPart, AhciIntr, NvmePart, AdminPart, BlkPart, ScsiPart

LEMMA AhciRuns ==
    StorageInit /\ [][StorageNext]_storageVars /\ part \in {"ahci", "ahcii"} => [](part \in {"ahci", "ahcii"}) /\ AhciSpec
<1>1. StorageInit /\ part \in {"ahci", "ahcii"} => Init BY DEF StorageInit
<1>2. part \in {"ahci", "ahcii"} /\ [StorageNext]_storageVars => (part \in {"ahci", "ahcii"})' /\ [Next]_vars
  BY DEF StorageNext, storageVars, BlockifPart, AhciPart, AhciIntr, NvmePart, AdminPart, BlkPart, ScsiPart,
         vars
<1> QED BY <1>1, <1>2, PTL DEF AhciSpec

LEMMA NvmeRuns ==
    StorageInit /\ [][StorageNext]_storageVars /\ part = "nvme" => [](part = "nvme") /\ NP!NvmeSpec
<1>1. StorageInit /\ part = "nvme" => NP!Init BY NvmeSameSteps DEF StorageInit
<1>2. part = "nvme" /\ [StorageNext]_storageVars => (part = "nvme")' /\ [NP!Next]_(NP!vars)
  BY NvmeSameSteps DEF StorageNext, storageVars, BlockifPart, AhciPart, AhciIntr, NvmePart, AdminPart, BlkPart, ScsiPart,
         NP!vars
<1> QED BY <1>1, <1>2, PTL DEF NP!NvmeSpec

LEMMA AdminRuns ==
    StorageInit /\ [][StorageNext]_storageVars /\ part = "admin" => [](part = "admin") /\ NP!AdminSpec
<1>1. StorageInit /\ part = "admin" => NP!AD!Init BY AdminSameSteps DEF StorageInit
<1>2. part = "admin" /\ [StorageNext]_storageVars => (part = "admin")' /\ [NP!AD!Next]_(NP!AD!vars)
  BY AdminSameSteps DEF StorageNext, storageVars, BlockifPart, AhciPart, AhciIntr, NvmePart, AdminPart, BlkPart, ScsiPart,
         NP!AD!vars
<1> QED BY <1>1, <1>2, PTL DEF NP!AdminSpec

LEMMA BlkRuns ==
    StorageInit /\ [][StorageNext]_storageVars /\ part = "blk" => [](part = "blk") /\ VP!BlkSpec
<1>1. StorageInit /\ part = "blk" => VP!BlkInit BY BlkSameSteps DEF StorageInit
<1>2. part = "blk" /\ [StorageNext]_storageVars => (part = "blk")' /\ [VP!BlkNext]_(VP!blkVars)
  BY BlkSameSteps DEF StorageNext, storageVars, BlockifPart, AhciPart, AhciIntr, NvmePart, AdminPart, BlkPart, ScsiPart,
         VP!blkVars
<1> QED BY <1>1, <1>2, PTL DEF VP!BlkSpec

LEMMA ScsiRuns ==
    StorageInit /\ [][StorageNext]_storageVars /\ part = "scsi" => [](part = "scsi") /\ VP!ScsiSpec
<1>1. StorageInit /\ part = "scsi" => VP!ScsiInit BY ScsiSameSteps DEF StorageInit
<1>2. part = "scsi" /\ [StorageNext]_storageVars => (part = "scsi")' /\ [VP!ScsiNext]_(VP!scsiVars)
  BY ScsiSameSteps DEF StorageNext, storageVars, BlockifPart, AhciPart, AhciIntr, NvmePart, AdminPart, BlkPart, ScsiPart,
         VP!scsiVars
<1> QED BY <1>1, <1>2, PTL DEF VP!ScsiSpec

LEMMA PartsStay ==
      /\ ~(part \in {"ahci", "ahcii"}) /\ [StorageNext]_storageVars => (~(part \in {"ahci", "ahcii"}))'
      /\ ~(part = "nvme") /\ [StorageNext]_storageVars => (~(part = "nvme"))'
      /\ ~(part = "admin") /\ [StorageNext]_storageVars => (~(part = "admin"))'
      /\ ~(part = "blk") /\ [StorageNext]_storageVars => (~(part = "blk"))'
      /\ ~(part = "scsi") /\ [StorageNext]_storageVars => (~(part = "scsi"))'
  BY PartStays

LEMMA WorkersNamed == {"w1", "w2"} # {} /\ VP!Nil \notin {"w1", "w2"} /\ VP!Nil \notin Chains
  BY DEF VP!Nil, Chains

(* A completion the guest has not seen is announced to it, by every disk     *)
(* controller: AHCI for any number of slots, whatever the interleaving of    *)
(* the guest's handler with ahci_generate_intr(), pci_nvme_set_completion()  *)
(* and vq_endchains().                                                       *)
THEOREM StorageAnnounced == ASSUME Params PROVE StorageSpec => []CompletionsAnnounced
<1>1. AhciSpec => []NoLostInterrupt BY AhciAnnouncedAlways
<1>2. NP!NvmeSpec => []NP!NoLostInterrupt BY NvmeParams, NP!NvmeAnnouncedAlways
<1>3. NP!AdminSpec => []NP!AD!NoLostInterrupt
  <2>1. NP!AdminParams BY DEF NP!AdminParams
  <2> QED BY <2>1, NP!AdminAnnouncedAlways
<1>4. VP!BlkSpec => []VP!BlkNoLostInterrupt BY VP!BlkAnnouncedAlways
<1>5. VP!ScsiSpec => []VP!ScsiNoLostInterrupt BY WorkersNamed, VP!ScsiAnnouncedAlways
<1>6. /\ part \in {"ahci", "ahcii"} => NoLostInterrupt
      /\ part = "nvme"  => NP!NoLostInterrupt
      /\ part = "admin" => NP!AD!NoLostInterrupt
      /\ part = "blk"   => VP!BlkNoLostInterrupt
      /\ part = "scsi"  => VP!ScsiNoLostInterrupt
      => CompletionsAnnounced
  BY NvmeSameInv, AdminSameInv, BlkSameInv, ScsiSameInv DEF CompletionsAnnounced
<1>7. QED
  BY <1>1, <1>2, <1>3, <1>4, <1>5, <1>6, AhciRuns, NvmeRuns, AdminRuns, BlkRuns, ScsiRuns, PartsStay, PTL DEF StorageSpec

(* Every command in the books of a disk controller is in exactly one place,  *)
(* and no list or ring of it runs over: AHCI for any number of slots and of  *)
(* backend requests to a command; AHCI and NVMe also when reset, and an    *)
(* NVMe queue pair when it is deleted, with commands in flight.              *)
THEOREM StorageAccounted == ASSUME Params PROVE StorageSpec => []CommandsAccounted
<1>1. AhciSpec => []TypeOK BY AhciTyped
<1>2. AhciSpec => []Accounted BY AhciAccountedAlways
<1>3. NP!NvmeSpec => []NP!TypeOK BY NvmeParams, NP!NvmeTyped
<1>4. NP!NvmeSpec => []NP!Accounted BY NvmeParams, NP!NvmeAccountedAlways
<1>5. NP!NvmeSpec => []NP!PhasesAgree BY NvmeParams, NP!NvmePhasesAlways
<1>6. NP!NvmeSpec => []NP!QueueHandled BY NvmeParams, NP!NvmeQueueHandled
<1>7. NP!AdminSpec => []NP!AD!QueuesBounded
  <2>1. NP!AdminParams BY DEF NP!AdminParams
  <2> QED BY <2>1, NP!AdminQueuesAlways
<1>8. VP!BlkSpec => []VP!BlkAccounted BY VP!BlkAccountedAlways
<1>9. VP!ScsiSpec => []VP!ScsiAccounted BY WorkersNamed, VP!ScsiAccountedAlways
<1>10. /\ part \in {"ahci", "ahcii"} => TypeOK /\ Accounted
       /\ part = "nvme"  => NP!TypeOK /\ NP!Accounted /\ NP!PhasesAgree /\ NP!QueueHandled
       /\ part = "admin" => NP!AD!QueuesBounded
       /\ part = "blk"   => VP!BlkAccounted
       /\ part = "scsi"  => VP!ScsiAccounted
       => CommandsAccounted
  BY NvmeSameInv, AdminSameInv, BlkSameInv, ScsiSameInv DEF CommandsAccounted
<1>11. QED
  BY <1>1, <1>2, <1>3, <1>4, <1>5, <1>6, <1>7, <1>8, <1>9, <1>10, AhciRuns, NvmeRuns, AdminRuns, BlkRuns, ScsiRuns,
     PartsStay, PTL DEF StorageSpec

-----------------------------------------------------------------------------
(* The command service of the part that is exercised                        *)

LEMMA NvmeView ==
    part = "nvme" => /\ ChainStatus = NP!Status /\ ChainWork = NP!Work
                   /\ ChainsMoving = NP!Moving /\ ControllerRuns = NP!Running
  BY NvmeSameView DEF ChainStatus, ChainWork, ChainsMoving, ControllerRuns

LEMMA NvmeServes ==
    ASSUME Params
    PROVE  /\ part = "nvme" /\ NP!NS!Init => CS!Init
           /\ part = "nvme" /\ (part = "nvme")' /\ [NP!NS!Next]_(NP!NS!vars) => [CS!Next]_(CS!vars)
<1>1. part = "nvme" /\ NP!NS!Init => CS!Init BY NvmeView DEF CS!Init, NP!NS!Init
<1>2. (part = "nvme" => /\ ChainStatus = NP!Status /\ ChainWork = NP!Work
                      /\ ChainsMoving = NP!Moving /\ ControllerRuns = NP!Running)'
  BY NvmeView, PTL
<1>3. ASSUME part = "nvme", part' = "nvme", [NP!NS!Next]_(NP!NS!vars) PROVE [CS!Next]_(CS!vars)
  <2>1. /\ ChainStatus = NP!Status /\ ChainWork = NP!Work
        /\ ChainsMoving = NP!Moving /\ ControllerRuns = NP!Running
    BY NvmeView, <1>3
  <2>2. /\ ChainStatus' = NP!Status' /\ ChainWork' = NP!Work'
        /\ ChainsMoving' = NP!Moving' /\ ControllerRuns' = NP!Running'
    BY <1>2, <1>3
  <2> QED
    BY <2>1, <2>2, <1>3 DEF CS!Next, CS!vars, CS!Becomes, CS!Keep, CS!Submit, CS!Begin, CS!Moved, CS!Done, CS!Fail, CS!Collect, CS!Abort, CS!Lose,
         NP!NS!Next, NP!NS!vars, NP!NS!Becomes, NP!NS!Keep, NP!NS!Submit, NP!NS!Begin, NP!NS!Moved, NP!NS!Done,
         NP!NS!Fail, NP!NS!Collect, NP!NS!Abort, NP!NS!Lose
<1> QED BY <1>1, <1>3

LEMMA MoreWork == ASSUME Params PROVE 0..1 \subseteq 0..MaxChunks
  BY DEF Params

LEMMA BlkView ==
    part = "blk" => /\ ChainStatus = VP!BlkStatus /\ ChainWork = VP!BlkWork
                   /\ ChainsMoving = VP!BlkMoving /\ ControllerRuns = TRUE
  BY BlkSameView DEF ChainStatus, ChainWork, ChainsMoving, ControllerRuns

LEMMA BlkServes ==
    ASSUME Params
    PROVE  /\ part = "blk" /\ VP!BC!Init => CS!Init
           /\ part = "blk" /\ (part = "blk")' /\ [VP!BC!Next]_(VP!BC!vars) => [CS!Next]_(CS!vars)
<1>1. part = "blk" /\ VP!BC!Init => CS!Init BY BlkView DEF CS!Init, VP!BC!Init
<1>2. (part = "blk" => /\ ChainStatus = VP!BlkStatus /\ ChainWork = VP!BlkWork
                      /\ ChainsMoving = VP!BlkMoving /\ ControllerRuns = TRUE)'
  BY BlkView, PTL
<1>3. ASSUME part = "blk", part' = "blk", [VP!BC!Next]_(VP!BC!vars) PROVE [CS!Next]_(CS!vars)
  <2>1. /\ ChainStatus = VP!BlkStatus /\ ChainWork = VP!BlkWork
        /\ ChainsMoving = VP!BlkMoving /\ ControllerRuns = TRUE
    BY BlkView, <1>3
  <2>2. /\ ChainStatus' = VP!BlkStatus' /\ ChainWork' = VP!BlkWork'
        /\ ChainsMoving' = VP!BlkMoving' /\ ControllerRuns' = TRUE
    BY <1>2, <1>3
  <2> QED
    BY <2>1, <2>2, <1>3, MoreWork DEF CS!Next, CS!vars, CS!Becomes, CS!Keep, CS!Submit, CS!Begin, CS!Moved, CS!Done, CS!Fail, CS!Collect, CS!Abort, CS!Lose,
         VP!BC!Next, VP!BC!vars, VP!BC!Becomes, VP!BC!Keep, VP!BC!Submit, VP!BC!Begin, VP!BC!Moved, VP!BC!Done,
         VP!BC!Fail, VP!BC!Collect, VP!BC!Abort, VP!BC!Lose
<1> QED BY <1>1, <1>3

LEMMA ScsiView ==
    part = "scsi" => /\ ChainStatus = VP!ScsiStatus /\ ChainWork = VP!ScsiWork
                   /\ ChainsMoving = VP!ScsiMoving /\ ControllerRuns = TRUE
  BY ScsiSameView DEF ChainStatus, ChainWork, ChainsMoving, ControllerRuns

LEMMA ScsiServes ==
    ASSUME Params
    PROVE  /\ part = "scsi" /\ VP!SC!Init => CS!Init
           /\ part = "scsi" /\ (part = "scsi")' /\ [VP!SC!Next]_(VP!SC!vars) => [CS!Next]_(CS!vars)
<1>1. part = "scsi" /\ VP!SC!Init => CS!Init BY ScsiView DEF CS!Init, VP!SC!Init
<1>2. (part = "scsi" => /\ ChainStatus = VP!ScsiStatus /\ ChainWork = VP!ScsiWork
                      /\ ChainsMoving = VP!ScsiMoving /\ ControllerRuns = TRUE)'
  BY ScsiView, PTL
<1>3. ASSUME part = "scsi", part' = "scsi", [VP!SC!Next]_(VP!SC!vars) PROVE [CS!Next]_(CS!vars)
  <2>1. /\ ChainStatus = VP!ScsiStatus /\ ChainWork = VP!ScsiWork
        /\ ChainsMoving = VP!ScsiMoving /\ ControllerRuns = TRUE
    BY ScsiView, <1>3
  <2>2. /\ ChainStatus' = VP!ScsiStatus' /\ ChainWork' = VP!ScsiWork'
        /\ ChainsMoving' = VP!ScsiMoving' /\ ControllerRuns' = TRUE
    BY <1>2, <1>3
  <2> QED
    BY <2>1, <2>2, <1>3, MoreWork DEF CS!Next, CS!vars, CS!Becomes, CS!Keep, CS!Submit, CS!Begin, CS!Moved, CS!Done, CS!Fail, CS!Collect, CS!Abort, CS!Lose,
         VP!SC!Next, VP!SC!vars, VP!SC!Becomes, VP!SC!Keep, VP!SC!Submit, VP!SC!Begin, VP!SC!Moved, VP!SC!Done,
         VP!SC!Fail, VP!SC!Collect, VP!SC!Abort, VP!SC!Lose
<1> QED BY <1>1, <1>3

\* Slots 0 and 1 of the port.
LEMMA AhciView ==
    ASSUME Params, NumSlots >= 2
    PROVE  /\ 0 \in Slots /\ 1 \in Slots
           /\ part \in {"ahci", "ahcii"} =>
                /\ \A t \in Chains : /\ SlotOf[t] \in Slots
                                     /\ ChainStatus[t] = Status[SlotOf[t]] /\ ChainWork[t] = Work[SlotOf[t]]
                                     /\ t \in ChainsMoving <=> SlotOf[t] \in Moving
                /\ ControllerRuns = Running
<1>1. 0 \in Slots /\ 1 \in Slots BY DEF Slots, Params
<1>2. \A t \in Chains : SlotOf[t] \in Slots BY <1>1 DEF SlotOf, Chains
<1> QED BY <1>1, <1>2 DEF ChainStatus, ChainWork, ChainsMoving, ControllerRuns

LEMMA AhciViewNext ==
    ASSUME Params, NumSlots >= 2
    PROVE  part' \in {"ahci", "ahcii"} =>
                /\ \A t \in Chains : /\ ChainStatus'[t] = Status'[SlotOf[t]] /\ ChainWork'[t] = Work'[SlotOf[t]]
                                     /\ t \in ChainsMoving' <=> SlotOf[t] \in Moving'
                /\ ControllerRuns' = Running'
  BY AhciView DEF ChainStatus, ChainWork, ChainsMoving, ControllerRuns

LEMMA AhciServes ==
    ASSUME Params, NumSlots >= 2
    PROVE  /\ part \in {"ahci", "ahcii"} /\ AS!Init => CS!Init
           /\ part \in {"ahci", "ahcii"} /\ (part \in {"ahci", "ahcii"})' /\ [AS!Next]_(AS!vars) => [CS!Next]_(CS!vars)
<1>1. part \in {"ahci", "ahcii"} /\ AS!Init => CS!Init
  BY AhciView DEF CS!Init, AS!Init, ChainStatus, ChainWork, ChainsMoving, ControllerRuns
<1>2. ASSUME part \in {"ahci", "ahcii"}, part' \in {"ahci", "ahcii"}, AS!Next PROVE CS!Next
  <2> SUFFICES ASSUME NEW t \in Chains
      PROVE CS!Keep(t) \/ CS!Submit(t) \/ CS!Begin(t) \/ CS!Moved(t) \/ CS!Done(t) \/ CS!Fail(t)
            \/ CS!Collect(t) \/ CS!Abort(t) \/ CS!Lose(t)
    BY DEF CS!Next
  <2> DEFINE s == SlotOf[t]
  <2>1. /\ s \in Slots /\ ControllerRuns = Running /\ ControllerRuns' = Running'
        /\ ChainStatus[t] = Status[s] /\ ChainWork[t] = Work[s] /\ (t \in ChainsMoving <=> s \in Moving)
        /\ ChainStatus'[t] = Status'[s] /\ ChainWork'[t] = Work'[s] /\ (t \in ChainsMoving' <=> s \in Moving')
    BY AhciView, AhciViewNext, <1>2
  <2>2. AS!Keep(s) \/ AS!Submit(s) \/ AS!Begin(s) \/ AS!Moved(s) \/ AS!Done(s) \/ AS!Fail(s)
            \/ AS!Collect(s) \/ AS!Abort(s) \/ AS!Lose(s)
    BY <1>2, <2>1 DEF AS!Next
  <2> HIDE DEF s
  <2> QED
    BY <2>1, <2>2 DEF CS!Becomes, CS!Keep, CS!Submit, CS!Begin, CS!Moved, CS!Done, CS!Fail, CS!Collect, CS!Abort, CS!Lose, AS!Becomes, AS!Keep,
         AS!Submit, AS!Begin, AS!Moved, AS!Done, AS!Fail, AS!Collect, AS!Abort, AS!Lose
<1>3. ASSUME part \in {"ahci", "ahcii"}, part' \in {"ahci", "ahcii"}, UNCHANGED AS!vars PROVE UNCHANGED CS!vars
  BY <1>3 DEF AS!vars, CS!vars, ChainStatus, ChainWork, ChainsMoving, ControllerRuns
<1> QED BY <1>1, <1>2, <1>3

\* No disk controller runs: there are no commands.
NoDisk == ~(part \in {"ahci", "ahcii"}) /\ ~(part = "nvme") /\ ~(part = "blk") /\ ~(part = "scsi")

LEMMA NoDiskServes == (NoDisk => CS!Init) /\ (NoDisk /\ NoDisk' => [CS!Next]_(CS!vars))
<1>1. NoDisk => /\ ChainStatus = [t \in Chains |-> "free"] /\ ChainWork = [t \in Chains |-> 0]
                /\ ChainsMoving = {} /\ ControllerRuns = TRUE
  BY DEF NoDisk, ChainStatus, ChainWork, ChainsMoving, ControllerRuns
<1>2. (NoDisk => /\ ChainStatus = [t \in Chains |-> "free"] /\ ChainWork = [t \in Chains |-> 0]
                 /\ ChainsMoving = {} /\ ControllerRuns = TRUE)'
  BY <1>1, PTL
<1> QED BY <1>1, <1>2 DEF CS!Init, CS!vars

(* Every disk controller implements the command service: AHCI for any number *)
(* of slots, and AHCI and NVMe for any number of backend transfers to a      *)
(* command. A command is reported complete once, after the last of its       *)
(* transfers, and is taken back with none outstanding, except that a reset   *)
(* of an AHCI or NVMe controller loses the commands that are out.            *)
THEOREM StorageImplements ==
    ASSUME Params, NumSlots >= 2 PROVE StorageSpec => CommandsImplement
<1>1. AhciSpec => AS!Spec BY AhciImplements
<1>2. NP!NvmeSpec => NP!NS!Spec BY NvmeParams, NP!NvmeImplements
<1>3. VP!BlkSpec => VP!BC!Spec BY VP!BlkImplements
<1>4. VP!ScsiSpec => VP!SC!Spec BY WorkersNamed, VP!ScsiImplements
<1>5. /\ part \in {"ahci", "ahcii"} /\ AS!Init => CS!Init
      /\ part \in {"ahci", "ahcii"} /\ (part \in {"ahci", "ahcii"})' /\ [AS!Next]_(AS!vars) => [CS!Next]_(CS!vars)
  BY AhciServes
<1>6. /\ part = "nvme" /\ NP!NS!Init => CS!Init
      /\ part = "nvme" /\ (part = "nvme")' /\ [NP!NS!Next]_(NP!NS!vars) => [CS!Next]_(CS!vars)
  BY NvmeServes
<1>7. /\ part = "blk" /\ VP!BC!Init => CS!Init
      /\ part = "blk" /\ (part = "blk")' /\ [VP!BC!Next]_(VP!BC!vars) => [CS!Next]_(CS!vars)
  BY BlkServes
<1>8. /\ part = "scsi" /\ VP!SC!Init => CS!Init
      /\ part = "scsi" /\ (part = "scsi")' /\ [VP!SC!Next]_(VP!SC!vars) => [CS!Next]_(CS!vars)
  BY ScsiServes
<1>9. QED
  BY <1>1, <1>2, <1>3, <1>4, <1>5, <1>6, <1>7, <1>8, NoDiskServes, AhciRuns, NvmeRuns, BlkRuns, ScsiRuns, PartsStay, PTL
  DEF StorageSpec, CommandsImplement, CS!Spec, AS!Spec, NP!NS!Spec, VP!BC!Spec, VP!SC!Spec, NoDisk
============================================================================
