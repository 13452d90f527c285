------------------------------ MODULE XhciEvents ------------------------------
(* The event ring, the port registers and the run/reset control of the xHCI  *)
(* controller (pci_xhci.c).  The guest's register writes run under the        *)
(* controller's mutex; pci_xhci_dev_intr() runs in the display thread without *)
(* it, so that its inserts interleave with theirs.                            *)
EXTENDS Naturals, Sequences

CONSTANTS N,         \* entries of the event ring segment
          Ports,     \* ports with a device
          EventOps   \* bound: controller operations
VARIABLE sc

Idx == 0..(N - 1)
None == "none"
Links == {"poll", "u0", "u3", "resume"}

\* `ring': entry and cycle bit; `enq', `cnt', `pcs': producer index, count, cycle;
\* `erdp': the dequeue index last written, `ehb' its busy bit; `out': events the
\* guest has not read (ghost), `rd', `ccs': its own index and cycle; `over': an
\* unread event was overwritten (ghost); `stale': the ring has not been set up since the
\* reset; `th': the event the display thread is inserting; `raced': the ring changed
\* under it (ghost).
TypeOK ==
    /\ sc.enq \in Idx /\ sc.rd \in Idx /\ sc.erdp \in Idx /\ sc.cnt \in 0..N /\ sc.pcs \in {0, 1}
    /\ sc.ccs \in {0, 1} /\ Len(sc.out) <= N
    /\ \A p \in Ports : sc.pls[p] \in Links /\ sc.pp[p] \in BOOLEAN
    /\ {sc.run, sc.ip, sc.ie, sc.inte, sc.ehb, sc.over, sc.stale, sc.line, sc.raced} \subseteq BOOLEAN

Blank == [i \in Idx |-> [ev |-> None, cyc |-> 0]]

\* The link of a USB 3 device is up from the start.
InitPort == "u0"
Idle == [ev |-> None]
Init ==
    sc = [ring |-> Blank, enq |-> 0, cnt |-> 0, pcs |-> 1, erdp |-> 0, ehb |-> FALSE, ip |-> FALSE, ie |-> FALSE,
          inte |-> FALSE, run |-> FALSE, line |-> FALSE, pls |-> [p \in Ports |-> InitPort], chg |-> [p \in Ports |-> {}],
          pp |-> [p \in Ports |-> TRUE], th |-> Idle, raced |-> FALSE,
          out |-> <<>>, rd |-> 0, ccs |-> 1, over |-> FALSE, stale |-> FALSE, ops |-> 0]

Busy == sc.ops < EventOps
RingOf(s) == <<s.ring, s.enq, s.cnt>>
Does(s) == Busy /\ sc' = [s EXCEPT !.ops = @ + 1, !.raced = @ \/ (sc.th # Idle /\ RingOf(s) # RingOf(sc))]

\* Only the interrupt itself depends on the enable bits.
AssertInterrupt(s) ==
    [s EXCEPT !.ehb = TRUE, !.ip = TRUE, !.line = @ \/ (s.inte /\ s.ie)]

\* pci_xhci_insert_event(), first half: is there room, the count, and the entry
\* with its place and its cycle.  The last entry gets a "ring full" event when it
\* holds the current cycle; the count does not change when the last one is filled.
RingFull(s) == s.cnt >= N \/ (s.cnt = N - 1 /\ s.ring[s.enq].cyc = s.pcs)
NoRoom(s) == s.cnt >= N
Counted(s) == [s EXCEPT !.cnt = IF @ = N - 1 /\ ~RingFull(s) THEN @ ELSE @ + 1]
Entry(s, ev) == [ev |-> IF RingFull(s) THEN "full" ELSE ev, slot |-> s.enq, cyc |-> s.pcs]

\* Second half: the copy into the ring, and the index as it is by then moves on.
\* Mutant: the producer index does not wrap.
Put_NoWrap(s, e) ==
    LET i == s.enq + 1
    IN [s EXCEPT !.ring[e.slot] = [ev |-> e.ev, cyc |-> e.cyc], !.enq = i, !.pcs = IF i = N /\ e.ev # "full" THEN 1 - @ ELSE @,
                 !.over = @ \/ Len(s.out) = N, !.out = IF Len(@) = N THEN @ ELSE Append(@, e.ev)]
Put(s, e) ==
    LET i == (s.enq + 1) % N
    IN [s EXCEPT !.ring[e.slot] = [ev |-> e.ev, cyc |-> e.cyc], !.enq = i, !.pcs = IF i = 0 /\ e.ev # "full" THEN 1 - @ ELSE @,
                 !.over = @ \/ Len(s.out) = N, !.out = IF Len(@) = N THEN @ ELSE Append(@, e.ev)]

\* A vcpu does both halves under the mutex.
InsertEvent(s, ev, intr) ==
    LET t == IF NoRoom(s) THEN s ELSE Put(Counted(s), Entry(s, ev))
    IN IF intr \/ (RingFull(s) /\ ~NoRoom(s)) THEN AssertInterrupt(t) ELSE t

\* USBCMD: from stop to run every port reports its change, without an interrupt
\* each; the register takes the written value only after the interrupt was raised.
RECURSIVE PortEvents(_, _)
PortEvents(s, ports) ==
    IF ports = {} THEN s
    ELSE LET p == CHOOSE q \in ports : TRUE
             t == InsertEvent([s EXCEPT !.chg[p] = @ \cup {"csc"}, !.pls[p] = "u0"], p, FALSE)
         IN IF RingFull(s) THEN t ELSE PortEvents(t, ports \ {p})
UsbcmdWrite(rs, inte) ==
    LET go == rs /\ ~sc.run
        s == IF go THEN AssertInterrupt(PortEvents([sc EXCEPT !.run = TRUE], Ports)) ELSE [sc EXCEPT !.run = rs]
    IN ~sc.stale /\ Does([s EXCEPT !.inte = inte])
\* A reset forgets what is in the ring; the guest sets the ring up again.
Reset == sc' = [sc EXCEPT !.run = FALSE, !.enq = 0, !.cnt = 0, !.pcs = 1, !.stale = TRUE, !.ops = @ + 1, !.raced = sc.th # Idle]
HostReset == Busy /\ Reset
ErstbaWrite ==
    /\ sc.stale
    /\ sc' = [sc EXCEPT !.ring = Blank, !.enq = 0, !.cnt = 0, !.out = <<>>, !.rd = 0, !.ccs = 1, !.erdp = 0, !.stale = FALSE, !.over = FALSE]

\* PORTSC: a reset looks at nothing; any other write to a powered port clears all
\* change bits, whichever the guest acknowledged, takes the power bit from the
\* value (`pp') and may ask for a link state.
ResetPort(p) ==
    ~sc.stale /\ Does(InsertEvent([sc EXCEPT !.chg[p] = @ \cup {"prc"}, !.pls[p] = "u0"], p, TRUE))
PortscWrite(p, link, pp) ==
    LET s == [sc EXCEPT !.chg[p] = {}, !.pp[p] = pp]
        t == [s EXCEPT !.pls[p] = link, !.chg[p] = {"plc"}]
    IN /\ ~sc.stale
       /\ Does(IF ~sc.pp[p] THEN sc
               ELSE IF link = "none" \/ link = sc.pls[p] THEN s
               ELSE IF link = "u0" THEN InsertEvent(t, p, TRUE) ELSE t)

\* The display thread begins an insert; `more': the transfer event still to come.
Begin(s, ev, intr, more) ==
    IF NoRoom(s) THEN IF intr THEN AssertInterrupt([s EXCEPT !.th = Idle]) ELSE [s EXCEPT !.th = Idle]
    ELSE LET e == Entry(s, ev)
         IN [Counted(s) EXCEPT !.th = [ev |-> e.ev, slot |-> e.slot, cyc |-> e.cyc, intr |-> intr \/ e.ev = "full",
                                       more |-> more /\ e.ev # "full"]]
\* A device reports input: a suspended link is resumed once, then the endpoint's
\* transfer completes (`done') or there is none.
DevIntr(p, done) ==
    LET s == [sc EXCEPT !.ops = @ + 1]
        resumed == [s EXCEPT !.pls[p] = "resume"]
    IN /\ Busy /\ ~sc.stale /\ sc.run /\ sc.th = Idle
       /\ sc' = IF sc.pls[p] # "u3" THEN (IF done THEN Begin(s, "xfer", TRUE, FALSE) ELSE s)
                ELSE IF "plc" \in sc.chg[p] THEN resumed
                ELSE Begin([resumed EXCEPT !.chg[p] = @ \cup {"plc"}], p, FALSE, done)
DevIntrPut ==
    LET e == sc.th
        t == Put([sc EXCEPT !.th = Idle], e)
        s == IF e.intr THEN AssertInterrupt(t) ELSE t
    IN /\ e # Idle
       /\ sc' = IF e.more THEN Begin(s, "xfer", TRUE, FALSE) ELSE s
\* A command completes.
Doorbell == ~sc.stale /\ sc.run /\ Does(InsertEvent(sc, "cmd", TRUE))

\* IMAN: withdrawing the permission calls the function that should lower the
\* line, which raises it.
ImanWrite(ie, ack) ==
    Does([sc EXCEPT !.ip = @ /\ ~ack, !.ie = ie, !.line = @ \/ ~ie])

\* The guest's driver: it follows the cycle bit, then writes its position, the
\* low half first.  Only the high half makes the controller count again.
ReadEvent ==
    /\ ~sc.stale /\ sc.ring[sc.rd].cyc = sc.ccs
    /\ sc' = [sc EXCEPT !.rd = (@ + 1) % N, !.ccs = IF sc.rd = N - 1 THEN 1 - @ ELSE @, !.out = IF @ = <<>> THEN @ ELSE Tail(@)]
ErdpLoWrite == Busy /\ sc' = [sc EXCEPT !.erdp = sc.rd, !.ehb = FALSE, !.ip = FALSE]
ErdpHiWrite ==
    /\ Busy /\ sc.cnt > 0
    /\ sc' = [sc EXCEPT !.cnt = IF sc.erdp <= sc.enq THEN sc.enq - sc.erdp ELSE N - (sc.erdp - sc.enq)]

Next ==
    \/ \E rs, inte \in BOOLEAN : UsbcmdWrite(rs, inte)
    \/ HostReset \/ ErstbaWrite \/ Doorbell \/ DevIntrPut \/ ReadEvent \/ ErdpLoWrite \/ ErdpHiWrite
    \/ \E p \in Ports : ResetPort(p) \/ \E done \in BOOLEAN : DevIntr(p, done)
    \/ \E p \in Ports, link \in {"none", "u0", "u3"}, pp \in BOOLEAN : PortscWrite(p, link, pp)
    \/ \E ie, ack \in BOOLEAN : ImanWrite(ie, ack)

\* From where the guest stands the ring holds exactly the events it has not read,
\* in order and with the cycle it expects, and behind them an entry it will not
\* take for a new one: as long as the guest left no more than N events unread and
\* no vcpu inserted or reset while the display thread was between the halves of an
\* insert, in which case the two write one entry and the other stays unwritten.
EventsInOrder ==
    (~sc.stale /\ ~sc.over /\ ~sc.raced) =>
        \A k \in 0..(N - 1) :
            LET i == (sc.rd + k) % N
                expected == IF sc.rd + k >= N THEN 1 - sc.ccs ELSE sc.ccs
            IN IF k < Len(sc.out) THEN sc.ring[i] = [ev |-> sc.out[k + 1], cyc |-> expected]
               ELSE sc.ring[i].cyc # expected
===============================================================================
