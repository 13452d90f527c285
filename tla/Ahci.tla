-------------------------------- MODULE Ahci --------------------------------
(* The AHCI controller of pci_ahci.c with one port: the guest's registers,   *)
(* the command engine, the callbacks of the block backend's threads and the  *)
(* interrupt, with the guest's interrupt handler. Every action runs under    *)
(* the softc's mutex. A command is the way it proceeds (CommandKind); the    *)
(* control FIS pair of a software reset is "srst", and "foreign" is a        *)
(* command table that does not begin with a host-to-device FIS.              *)
EXTENDS Integers, FiniteSets

CONSTANTS NumSlots,   \* command slots, as ioqsz bounds them in CAP.NCS
          MaxChunks,  \* backend requests a command is split into
          Intrs,      \* how the guest set interrupts up: subset of IntrModes
          GuestOps    \* bound: stops, resets and interrupt enables by the guest
VARIABLE sc

-----------------------------------------------------------------------------
(* How pci_ahci.c answers an ATA or PACKET command: the branches of           *)
(* ahci_handle_cmd() and of the handlers it calls, each reduced to the way    *)
(* the command proceeds. The data a handler returns is left out.              *)
(*   "now" / "bad"        completed or rejected before the handler returns    *)
(*   "rw"                 one or more backend requests                        *)
(*   "ncq", "ncqnow", "ncqbad"   the same for the queued commands             *)

Kinds == {"now", "bad", "rw", "ncq", "ncqnow", "ncqbad", "srst", "foreign"}
NcqKinds == {"ncq", "ncqnow", "ncqbad"}
Async == {"rw", "ncq"}

Reject(bad) == IF bad THEN "bad" ELSE "now"

HandleIdentify(atapi, prdtl)  == Reject(atapi \/ prdtl = 0)
HandleAtapiIdentify(atapi)    == Reject(~atapi)
HandleReadLog(atapi, prdtl, page) == Reject(atapi \/ prdtl = 0 \/ page \notin {0, 16, 19})

SetFeatures(feature, count) ==
    Reject((feature = "ENAB_SATA_SF" /\ count # 5) \/ feature = "other")

PowersOf2 == {0, 1, 2, 4, 8, 16, 32, 64, 128}
SetMulti(count) == Reject(count \notin PowersOf2)

\* A TRIM with one block of ranges is carried out range by range; the empty
\* ranges ask nothing of the backend.
DsmTrim(valid, ranges) == IF ~valid THEN "bad" ELSE IF ranges = 0 THEN "now" ELSE "rw"
SendFpdma(valid, ranges) == IF ~valid THEN "ncqbad" ELSE IF ranges = 0 THEN "ncqnow" ELSE "ncq"

HandleRw(ncq) == IF ncq THEN "ncq" ELSE "rw"
HandleFlush   == "rw"

AtapiInquiry(vpd, page)       == Reject(vpd /\ page # 0)
AtapiReadToc(format, track)   == Reject((format = 0 /\ track > 1 /\ track # 170) \/ format > 2)
AtapiStartStopUnit(op)        == Reject(op = 2)
AtapiModeSense(pc, code)      == Reject(pc # 0 \/ code \notin {1, 42})
AtapiGetEventStatus(polled)   == Reject(~polled)
AtapiReadCapacity == "now"
AtapiReportLuns   == "now"
AtapiRequestSense == "now"
AtapiRead         == "rw"

HandlePacketCmd(a) ==
    CASE a.op \in {"TEST_UNIT_READY", "PREVENT_ALLOW"} -> "now"
      [] a.op = "INQUIRY" -> AtapiInquiry(a.x = 1, a.y)
      [] a.op = "READ_CAPACITY" -> AtapiReadCapacity
      [] a.op = "READ_TOC" -> AtapiReadToc(a.x, a.y)
      [] a.op = "REPORT_LUNS" -> AtapiReportLuns
      [] a.op \in {"READ_10", "READ_12"} -> AtapiRead
      [] a.op = "REQUEST_SENSE" -> AtapiRequestSense
      [] a.op = "START_STOP_UNIT" -> AtapiStartStopUnit(a.x)
      [] a.op = "MODE_SENSE_10" -> AtapiModeSense(a.x, a.y)
      [] a.op = "GET_EVENT_STATUS" -> AtapiGetEventStatus(a.x = 1)
      [] OTHER -> "bad"

CommandKind(atapi, c) ==
    CASE c.op = "IDENTIFY" -> HandleIdentify(atapi, c.x)
      [] c.op = "SETFEATURES" -> SetFeatures(c.f, c.x)
      [] c.op = "SET_MULTI" -> SetMulti(c.x)
      [] c.op \in {"READ", "WRITE", "FPDMA_QUEUED"} -> HandleRw(c.op = "FPDMA_QUEUED")
      [] c.op = "FLUSHCACHE" -> HandleFlush
      [] c.op = "DATA_SET_MANAGEMENT" -> DsmTrim(c.x = 1, c.y)
      [] c.op = "SEND_FPDMA_QUEUED" -> SendFpdma(c.x = 1, c.y)
      [] c.op = "READ_LOG" -> HandleReadLog(atapi, c.x, c.y)
      [] c.op \in {"CHECK_POWER_MODE", "STANDBY", "IDLE", "SLEEP", "READ_VERIFY"} -> "now"
      [] c.op = "ATAPI_IDENTIFY" -> HandleAtapiIdentify(atapi)
      [] c.op = "PACKET" -> IF atapi THEN HandlePacketCmd(c.acmd) ELSE "bad"
      [] OTHER -> "bad"

\* The commands a driver of each device sends, with fields on both sides of
\* every condition above; a PACKET READ asks for at least one sector.
Packets ==
    {[op |-> o, x |-> a, y |-> b] :
        o \in {"INQUIRY", "READ_TOC", "START_STOP_UNIT", "MODE_SENSE_10", "GET_EVENT_STATUS", "READ_10",
               "TEST_UNIT_READY", "READ_CAPACITY", "REPORT_LUNS", "REQUEST_SENSE", "WRITE_10"},
        a \in {0, 1, 2}, b \in {0, 42}}

Commands(atapi) ==
    {[op |-> o, x |-> a, y |-> b] :
        o \in {"IDENTIFY", "SET_MULTI", "READ_LOG", "ATAPI_IDENTIFY", "CHECK_POWER_MODE", "NOP"},
        a \in {0, 1, 3}, b \in {0, 5}}
    \cup {[op |-> "SETFEATURES", f |-> g, x |-> a] : g \in {"ENAB_SATA_SF", "WCACHE", "other"}, a \in {5, 6}}
    \cup IF atapi THEN {[op |-> "PACKET", acmd |-> a] : a \in Packets}
         ELSE {[op |-> o] : o \in {"READ", "FLUSHCACHE", "FPDMA_QUEUED"}}
              \cup {[op |-> o, x |-> a, y |-> b] : o \in {"DATA_SET_MANAGEMENT", "SEND_FPDMA_QUEUED"},
                                                  a \in {0, 1}, b \in {0, 1}}

\* The ways in which the commands of a disk and of a CD drive proceed.
KindsOf(atapi) == IF atapi THEN {"now", "bad", "rw"} ELSE {"now", "bad", "rw", "ncq", "ncqnow", "ncqbad"}

ASSUME KindsAreReached ==
    \A atapi \in BOOLEAN : {CommandKind(atapi, c) : c \in Commands(atapi)} = KindsOf(atapi)

-----------------------------------------------------------------------------

Slots     == 0..(NumSlots - 1)
\* A driver that polls, no MSI, one MSI for all ports, one MSI per port.
IntrModes == {"poll", "intx", "shared", "own"}
Causes    == {"DHR", "SDB", "TFE"}

\* stale: the slots with a command of before a reset of the controller, which
\* stops the engine but neither cancels its requests nor clears PxCI.
\* spin: ahci_handle_port() loops for ever, and holds the mutex.
Softc ==
    [ci : SUBSET Slots, sact : SUBSET Slots, pending : SUBSET Slots, ccs : Slots,
     busy : BOOLEAN, waitforclear : BOOLEAN, reset : BOOLEAN,
     st : BOOLEAN, cr : BOOLEAN, fre : BOOLEAN, atapi : BOOLEAN,
     cmd : [Slots -> Kinds \cup {"none"}], chunks : [Slots -> 0..MaxChunks],
     aior : [Slots -> {"free", "queued", "busy"}], failed : SUBSET Slots,
     stale : SUBSET Slots, spin : BOOLEAN,
     is : SUBSET Causes, ie : SUBSET Causes, his : BOOLEAN, ghcie : BOOLEAN,
     intr : IntrModes, lintr : BOOLEAN, msi : BOOLEAN,
     isr : {"idle", "port", "ack"}, seen : SUBSET Causes, ops : 0..GuestOps]

TypeOK == sc \in Softc

\* pci_ahci_init() and ahci_reset()
Init ==
    \E m \in Intrs, atapi \in BOOLEAN :
        sc = [ci |-> {}, sact |-> {}, pending |-> {}, ccs |-> 0,
              busy |-> FALSE, waitforclear |-> FALSE, reset |-> FALSE, st |-> FALSE, cr |-> FALSE,
              fre |-> FALSE, stale |-> {}, spin |-> FALSE, atapi |-> atapi,
              cmd |-> [s \in Slots |-> "none"], chunks |-> [s \in Slots |-> 0],
              aior |-> [s \in Slots |-> "free"], failed |-> {},
              is |-> {}, ie |-> {}, his |-> FALSE, ghcie |-> FALSE,
              intr |-> m, lintr |-> FALSE, msi |-> FALSE,
              isr |-> "idle", seen |-> {}, ops |-> 0]

----------------------------------------------------------------------------
(* Interrupts                                                               *)

SendMsi(p)    == [p EXCEPT !.msi = TRUE]
AssertLine(p) == [p EXCEPT !.lintr = TRUE]

PortIntr(p) ==
    LET raised == [p EXCEPT !.his = TRUE]
    IN IF p.is \cap p.ie = {} THEN p
       ELSE IF p.intr = "own" THEN IF p.ghcie THEN SendMsi(raised) ELSE raised
       ELSE IF p.his THEN p
       ELSE IF ~p.ghcie THEN raised
       ELSE IF p.intr = "shared" THEN SendMsi(raised) ELSE AssertLine(raised)

\* After a write of GHC or of the global IS: IS is gathered again from the ports.
GenerateIntr(p) ==
    LET q == [p EXCEPT !.his = @ \/ p.is \cap p.ie # {}]
    IN IF ~q.his \/ ~q.ghcie THEN [q EXCEPT !.lintr = FALSE]
       ELSE IF q.intr = "intx" THEN AssertLine(q) ELSE SendMsi(q)

\* Nothing is written, and no error noted, while the guest has FRE clear.
WriteFis(p, irq) ==
    LET q == [p EXCEPT !.waitforclear = @ \/ "TFE" \in irq]
    IN IF ~p.fre THEN p
       ELSE IF irq \subseteq q.is THEN q ELSE PortIntr([q EXCEPT !.is = @ \cup irq])

----------------------------------------------------------------------------
(* Completion of a command                                                  *)

WriteFisD2h(p, s, ok) ==
    IF ok THEN WriteFis([p EXCEPT !.ci = @ \ {s}, !.busy = FALSE], {"DHR"})
    ELSE WriteFis([p EXCEPT !.busy = FALSE, !.failed = @ \cup {s}], {"DHR", "TFE"})

WriteFisD2hNcq(p, s) == [p EXCEPT !.busy = FALSE, !.ci = @ \ {s}]

WriteFisSdb(p, s, ok) ==
    IF ok THEN WriteFis([p EXCEPT !.sact = @ \ {s}], {"SDB"})
    ELSE WriteFis([p EXCEPT !.failed = @ \cup {s}], {"SDB", "TFE"})

\* Mutant: the port reports it stopped without looking at the commands in flight.
CheckStopped_Early(p) ==
    IF p.st THEN p
    ELSE [p EXCEPT !.ccs = 0, !.cr = FALSE, !.ci = {}, !.sact = {}, !.waitforclear = FALSE, !.failed = {}]

CheckStopped(p) ==
    IF p.st \/ p.pending # {} THEN p
    ELSE [p EXCEPT !.ccs = 0, !.cr = FALSE, !.ci = {}, !.sact = {}, !.waitforclear = FALSE, !.failed = {}]

PortReset(p) == [p EXCEPT !.sact = {}, !.busy = FALSE]

----------------------------------------------------------------------------
(* The command engine                                                       *)

\* A request of the free list goes to the backend; the slot is in flight. A
\* command of before a reset that is met again has a transfer to make again.
Enqueue(p, s) ==
    [p EXCEPT !.pending = @ \cup {s}, !.aior[s] = "queued", !.chunks[s] = IF @ = 0 THEN 1 ELSE @]

HandleCmd(p, s) ==
    LET q == [p EXCEPT !.busy = TRUE]
    IN CASE p.cmd[s] = "now" -> WriteFisD2h(q, s, TRUE)
         [] p.cmd[s] = "bad" -> WriteFisD2h(q, s, FALSE)
         [] p.cmd[s] = "rw"  -> Enqueue(q, s)
         [] p.cmd[s] = "ncq" -> WriteFisD2hNcq(Enqueue(q, s), s)
         [] p.cmd[s] = "ncqnow" -> WriteFisSdb(WriteFisD2hNcq(q, s), s, TRUE)
         [] p.cmd[s] = "ncqbad" -> WriteFisD2h(q, s, FALSE)

\* A FIS that is not host-to-device is left where it is.
HandleSlot(p, s) ==
    IF p.cmd[s] = "foreign" THEN p
    ELSE IF p.cmd[s] # "srst" THEN HandleCmd(p, s)
    ELSE IF p.reset THEN [PortReset([p EXCEPT !.reset = FALSE]) EXCEPT !.ci = @ \ {s}]
    ELSE [p EXCEPT !.reset = TRUE, !.ci = @ \ {s}]

LoopDone(q) == q.ci \ q.pending = {} \/ q.busy \/ q.waitforclear

\* One turn of the loop over the slots, which starts at ccs.
Turn(q, s) ==
    IF LoopDone(q) THEN q
    ELSE [(IF s \in q.ci \ q.pending THEN HandleSlot(q, s) ELSE q) EXCEPT !.ccs = (s + 1) % NumSlots]

\* A slot that is handled leaves ci, becomes in flight or stops the loop, so
\* one round is all, unless a foreign FIS is left: the loop then never ends.
HandlePort(p) ==
    LET after[i \in 0..NumSlots] ==
            IF i = 0 THEN p ELSE Turn(after[i - 1], (p.ccs + i - 1) % NumSlots)
    IN IF p.st THEN after[NumSlots] ELSE p

Spins(p) == p.st /\ ~LoopDone(p) /\ \E s \in p.ci \ p.pending : p.cmd[s] = "foreign"

\* The handler returns, unless the loop over the slots goes on, and the driver
\* forgets the command of a slot that is done.
Return(p) ==
    LET gone == Slots \ (p.ci \cup p.sact \cup p.pending)
    IN [p EXCEPT !.cmd = [s \in Slots |-> IF s \in gone THEN "none" ELSE @[s]],
                 !.chunks = [s \in Slots |-> IF s \in gone THEN 0 ELSE @[s]],
                 !.failed = @ \ gone, !.stale = @ \ gone, !.spin = Spins(p)]

----------------------------------------------------------------------------
(* The block backend's threads                                              *)

BackendStarts(s) == sc.aior[s] = "queued" /\ sc' = [sc EXCEPT !.aior[s] = "busy"]

\* What ata_ioreq_cb() and atapi_ioreq_cb() do once they hold the mutex. A
\* transfer that is not the last is followed by the next one; a TRIM whose
\* other ranges are empty ends instead.
Transferred(s, ok) == [sc EXCEPT !.aior[s] = "free", !.chunks[s] = IF ok THEN @ - 1 ELSE 0]

Finished(s, ok) ==
    LET q     == Transferred(s, ok)
        final == IF sc.cmd[s] \in NcqKinds THEN WriteFisSdb(q, s, ok) ELSE WriteFisD2h(q, s, ok)
    IN CheckStopped([final EXCEPT !.pending = @ \ {s}])

\* Mutant: the callback does not look for waiting commands.
IoreqEnd_NoNext(p) == p

IoreqEnd(p) == HandlePort(p)

Callback(s) ==
    /\ sc.aior[s] = "busy"
    /\ \/ sc.chunks[s] > 1 /\ sc' = Enqueue(Transferred(s, TRUE), s)
       \/ \E ok \in BOOLEAN :
              /\ ok => sc.chunks[s] <= 1
              /\ \E q \in {Finished(s, ok)} : \E p \in {IoreqEnd(q)} : sc' = Return(p)

----------------------------------------------------------------------------
(* Register writes of the guest                                             *)

\* What the guest sees of a slot. A queued command of before a reset shows in
\* neither register, so the driver may use its slot again.
Idle(s) == s \notin sc.ci \cup sc.sact

\* Software resets are sent alone: nothing is issued until one is done.
Resetting == \E s \in sc.ci : sc.cmd[s] = "srst"

\* The driver puts a command in the table of a slot it sees idle. The request
\* of an earlier command of the slot has its own count of what is left.
Prepare(s, k, n) == [sc EXCEPT !.cmd[s] = k, !.chunks[s] = IF s \in sc.pending THEN @ ELSE n]

\* PxSACT first when the command is queued.
SactWrite(s) ==
    /\ sc.st /\ Idle(s) /\ ~Resetting
    /\ \E k \in KindsOf(sc.atapi) \cap NcqKinds, n \in 0..MaxChunks :
           /\ k \in Async <=> n > 0
           /\ sc' = [Prepare(s, k, n) EXCEPT !.sact = @ \cup {s}]

CiWrite(s) ==
    /\ sc.st /\ s \notin sc.ci /\ ~Resetting
    /\ \/ /\ sc.cmd[s] \in NcqKinds /\ s \in sc.sact
          \* the driver has not issued it yet
          /\ s \notin sc.failed /\ (s \in sc.pending => s \in sc.stale)
          /\ \E p \in {HandlePort([sc EXCEPT !.ci = @ \cup {s}])} : sc' = Return(p)
       \/ /\ Idle(s)
          /\ \E k \in (KindsOf(sc.atapi) \ NcqKinds) \cup {"srst", "foreign"}, n \in 0..MaxChunks :
                 /\ k \in Async <=> n > 0
                 /\ k = "srst" => sc.ci \cup sc.sact = {}
                 /\ \E p \in {HandlePort([Prepare(s, k, n) EXCEPT !.ci = @ \cup {s}])} : sc' = Return(p)

\* ahci_port_stop(): what the backend has not begun is cancelled. The table
\* says whether the command is queued.
PortStop(p) ==
    LET cancelled == {s \in Slots : p.aior[s] = "queued"}
        ncq       == {s \in cancelled : p.cmd[s] \in NcqKinds}
    IN CheckStopped([p EXCEPT !.sact = @ \ ncq, !.ci = @ \ (cancelled \ ncq), !.pending = @ \ cancelled,
                              !.aior = [s \in Slots |-> IF s \in cancelled THEN "free" ELSE @[s]]])

\* PxCMD with ST set. The driver waits for CR to clear before it sets ST again,
\* has FRE set and overrides a device left busy with CLO, as the interface
\* demands.
CmdWriteStart ==
    /\ ~sc.st /\ ~sc.cr
    /\ \E p \in {HandlePort([sc EXCEPT !.st = TRUE, !.cr = TRUE, !.fre = TRUE, !.busy = FALSE])} : sc' = Return(p)

\* PxCMD with ST clear, whether it was set or not.
CmdWriteStop ==
    /\ sc.st => sc.ops < GuestOps
    /\ \E fre \in BOOLEAN :
           sc' = Return(PortStop([sc EXCEPT !.st = FALSE, !.fre = fre, !.ops = IF sc.st THEN @ + 1 ELSE @]))

\* A COMRESET through PxSCTL, honoured while ST is clear.
SctlWrite == ~sc.st /\ sc' = Return(PortReset(sc))

\* GHC.HR, at any time: the registers are cleared, the commands are not.
HbaReset ==
    /\ sc.ops < GuestOps
    /\ sc' = Return(PortReset([sc EXCEPT !.ops = @ + 1, !.ghcie = FALSE, !.his = FALSE, !.lintr = FALSE, !.ie = {},
                                         !.is = {}, !.st = FALSE, !.cr = FALSE, !.fre = FALSE,
                                         !.stale = @ \cup sc.ci \cup sc.pending]))

IeWrite  == sc.ie = {} /\ sc.intr # "poll" /\ sc' = PortIntr([sc EXCEPT !.ie = Causes])
GhcWrite ==
    /\ sc.isr = "idle" /\ sc.intr # "poll" /\ (sc.ghcie => sc.ops < GuestOps)
    /\ sc' = GenerateIntr([sc EXCEPT !.ghcie = ~@, !.ops = IF sc.ghcie THEN @ + 1 ELSE @])

\* The guest's handler: it reads the global IS and PxIS, clears the causes it
\* saw in PxIS, looks at its commands and then clears the global IS.
IsrEnter ==
    /\ sc.isr = "idle" /\ (sc.lintr \/ sc.msi)
    /\ sc' = [sc EXCEPT !.msi = FALSE, !.seen = sc.is, !.isr = IF sc.his THEN "port" ELSE "idle"]
PortIsWrite == sc.isr = "port" /\ sc' = PortIntr([sc EXCEPT !.is = @ \ sc.seen, !.seen = {}, !.isr = "ack"])
IsWrite     == sc.isr = "ack" /\ sc' = GenerateIntr([sc EXCEPT !.his = FALSE, !.isr = "idle"])

Guest ==
    \/ \E s \in Slots : SactWrite(s) \/ CiWrite(s)
    \/ CmdWriteStart \/ CmdWriteStop \/ SctlWrite \/ HbaReset
    \/ IeWrite \/ GhcWrite \/ IsrEnter \/ PortIsWrite \/ IsWrite

\* The backend takes its requests without the mutex.
Next == (~sc.spin /\ (Guest \/ \E s \in Slots : Callback(s))) \/ \E s \in Slots : BackendStarts(s)

vars == <<sc>>

\* The backend's threads and the driver go on: a request is taken and called
\* back, and a queued command whose SACT bit is set is issued.
Progress(s) ==
    BackendStarts(s) \/ (~sc.spin /\ (Callback(s) \/ (sc.cmd[s] \in NcqKinds /\ CiWrite(s))))

----------------------------------------------------------------------------
(* Properties                                                               *)

\* A slot is in flight exactly when the backend holds one request for it, so
\* the free list never runs out (the assertions on STAILQ_FIRST), also after a
\* reset with commands in flight; a device that is busy has a command in
\* flight unless the guest stopped the port; and a port that says it stopped
\* has in flight only what a reset left.
Accounted ==
    /\ \A s \in Slots : s \in sc.pending <=> sc.aior[s] # "free"
    /\ sc.st /\ sc.busy => \E s \in sc.pending : sc.cmd[s] = "rw"
    /\ ~sc.cr => sc.pending \subseteq sc.stale

\* A cause that is enabled is always on its way to the guest: the line is up,
\* or a message is pending, or the handler has yet to write the global IS.
NoLostInterrupt ==
    sc.ghcie /\ sc.is \cap sc.ie # {} =>
        sc.his /\ IF sc.intr = "intx" THEN sc.lintr ELSE sc.msi \/ sc.isr = "port" \/ sc.isr = "ack"

\* A command that is issued ends, unless the port waits after an error for the
\* driver to stop it, the slot still has a command of before a reset, or a
\* foreign FIS holds the mutex for ever.
CommandEnds(s)  == ~Idle(s) /\ sc.st
CommandEnded(s) == Idle(s) \/ sc.waitforclear \/ ~sc.st \/ s \in sc.stale \/ sc.spin

\* The command service this port provides.
Status ==
    [s \in Slots |-> IF s \in sc.stale THEN "lost"
                     ELSE IF s \notin sc.ci \cup sc.sact \cup sc.pending THEN "free"
                     ELSE IF s \in sc.failed THEN "failed" ELSE "issued"]
Work    == [s \in Slots |-> IF Status[s] = "issued" THEN sc.chunks[s] ELSE 0]
Moving  == {s \in Slots : sc.aior[s] = "busy" /\ s \notin sc.stale}
Running == sc.st
============================================================================
