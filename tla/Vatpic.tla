------------------------------- MODULE Vatpic -------------------------------
(* The pair of 8259 interrupt controllers of vatpic.c, the vcpu that takes    *)
(* ExtINT interrupts from them and the devices that drive their pins. Chip 0  *)
(* is the master; its pin Cascade is driven by chip 1.                        *)
EXTENDS Integers

CONSTANTS N,       \* pins of a chip (8 in the code)
          Wires,   \* pins the devices drive: <<chip, pin>>
          PicOps   \* bound: guest writes and device changes
VARIABLE sc

Chips   == {0, 1}
Pins    == 0..(N - 1)
Cascade == 2
NoPin   == N

Chip == [ready : BOOLEAN, icw : 0..4, poll : BOOLEAN, aeoi : BOOLEAN, rotate : BOOLEAN, sfn : BOOLEAN,
         smm : BOOLEAN, request : SUBSET Pins, service : SUBSET Pins, mask : SUBSET Pins,
         acnt : [Pins -> (-PicOps)..PicOps], lowprio : Pins, raised : BOOLEAN]

\* `up': wires a device holds asserted; `extint': LINT0 of the vcpu is pending;
\* `taken': the <<chip, pin>> whose vector a VM entry has read and not accepted;
\* `polled', `missed': history of a poll read without notification, and of a wire
\* change that a chip being initialised ignored or a cascade that was polled away.
TypeOK ==
    /\ sc.chip \in [Chips -> Chip] /\ sc.elc \subseteq Chips \X Pins /\ sc.up \subseteq Wires
    /\ sc.extint \in BOOLEAN /\ sc.taken \in (Chips \X Pins) \cup {<<>>}

NewChip == [ready |-> FALSE, icw |-> 0, poll |-> FALSE, aeoi |-> FALSE, rotate |-> FALSE, sfn |-> FALSE,
            smm |-> FALSE, request |-> {}, service |-> {}, mask |-> {}, acnt |-> [p \in Pins |-> 0],
            lowprio |-> 0, raised |-> FALSE]

Init == sc = [chip |-> [c \in Chips |-> NewChip], elc |-> {}, up |-> {}, extint |-> FALSE, taken |-> <<>>,
              polled |-> FALSE, missed |-> FALSE, ops |-> 0]

----------------------------------------------------------------------------
(* Priorities                                                               *)

\* Smaller is more urgent: ATPIC_PIN_FOREACH starts after lowprio.
Rank(a, p) == (p + N - a.lowprio - 1) % N

HighestIsrpin(a) ==
    LET cand == IF a.smm THEN a.service \ a.mask ELSE a.service
    IN IF cand = {} THEN NoPin ELSE CHOOSE p \in cand : \A q \in cand : Rank(a, p) <= Rank(a, q)

HighestIrrpin(a) ==
    LET serviced == IF a.smm THEN {} ELSE IF a.sfn THEN a.service \ {Cascade} ELSE a.service
        cand == {p \in a.request \ a.mask : \A s \in serviced : Rank(a, p) < Rank(a, s)}
    IN IF cand = {} THEN NoPin ELSE CHOOSE p \in cand : \A q \in cand : Rank(a, p) <= Rank(a, q)

Eligible(a) == HighestIrrpin(a) # NoPin

----------------------------------------------------------------------------
(* vatpic_notify_intr() and vatpic_set_pinstate(), under the lock           *)

NotifyMaster(s) ==
    IF ~s.chip[0].raised /\ Eligible(s.chip[0])
    THEN [s EXCEPT !.chip[0].raised = TRUE, !.extint = TRUE] ELSE s

\* The slave cascades by an edge of the master's pin, each half of which
\* notifies the master again.
NotifyIntr(s0) ==
    LET s == [s0 EXCEPT !.polled = FALSE]
    IN IF ~s.chip[1].raised /\ Eligible(s.chip[1])
       THEN NotifyMaster([s EXCEPT !.chip[1].raised = TRUE, !.chip[0].request = @ \cup {Cascade}])
       ELSE NotifyMaster(s)

SetPinstate(s, c, p, new) ==
    LET old == s.chip[c].acnt[p]
        cnt == IF new THEN old + 1 ELSE old - 1
        lvl == <<c, p>> \in s.elc
    IN NotifyIntr([s EXCEPT !.chip[c].acnt[p] = cnt,
           !.chip[c].request = IF (old = 0 /\ cnt = 1) \/ (cnt > 0 /\ lvl) THEN @ \cup {p}
                               ELSE IF old = 1 /\ cnt = 0 /\ lvl THEN @ \ {p} ELSE @])

PinAccepted(a, p) ==
    [a EXCEPT !.raised = FALSE, !.request = IF a.acnt[p] = 0 THEN @ \ {p} ELSE @,
              !.lowprio = IF a.aeoi /\ a.rotate THEN p ELSE @,
              !.service = IF a.aeoi THEN @ ELSE @ \cup {p}]

----------------------------------------------------------------------------
(* Devices                                                                  *)

Tick(s) == [s EXCEPT !.ops = @ + 1]
Left == sc.ops < PicOps

\* vatpic_set_irqstate(): a chip that is not initialised ignores the wire.
SetIrqstate(w, new) ==
    /\ Left /\ (w \in sc.up) # new
    /\ LET s == [Tick(sc) EXCEPT !.up = IF new THEN @ \cup {w} ELSE @ \ {w}]
       IN sc' = IF sc.chip[w[1]].ready THEN SetPinstate(s, w[1], w[2], new)
                ELSE [s EXCEPT !.missed = TRUE]

PulseIrq(w) ==
    /\ Left /\ w \notin sc.up /\ sc.chip[w[1]].ready
    /\ sc' = SetPinstate(SetPinstate(Tick(sc), w[1], w[2], TRUE), w[1], w[2], FALSE)

\* Pins of the timer, the keyboard and the cascade stay edge-triggered.
SetIrqTrigger(w, lvl) ==
    /\ Left /\ (w[2] > Cascade \/ w[1] = 1)
    /\ sc' = [Tick(sc) EXCEPT !.elc = IF lvl THEN @ \cup {w} ELSE @ \ {w}]

\* vatpic_elc_handler(): a write sets the trigger of every pin that may be level.
ElcWrite(c, ps) ==
    /\ Left /\ \A p \in ps : IF c = 0 THEN p > Cascade ELSE p # 0
    /\ sc' = [Tick(sc) EXCEPT !.elc = {w \in @ : w[1] # c} \cup {<<c, p>> : p \in ps}]

----------------------------------------------------------------------------
(* Guest writes and reads                                                   *)

\* Every write ends in a notification when the chip is ready.
Written(s, c) == IF s.chip[c].ready THEN NotifyIntr(s) ELSE s

\* The chip is reset whatever the word says; without a cascade or an ICW4 (not
\* `ok') the write fails and the sequence does not begin.
Icw1(c, ok) ==
    /\ Left \/ sc.chip[c] = NewChip   \* the first one is not counted
    /\ sc' = [sc EXCEPT !.ops = IF sc.chip[c] = NewChip THEN @ ELSE @ + 1,
                     !.chip[c].ready = FALSE, !.chip[c].icw = IF ok THEN 2 ELSE 1, !.chip[c].request = {},
                     !.chip[c].mask = {}, !.chip[c].lowprio = N - 1, !.chip[c].poll = FALSE, !.chip[c].smm = FALSE,
                     !.missed = @ \/ (\E w \in sc.up : w[1] = c) \/ \E d \in Chips : sc.chip[d].raised]
Icw23(c) == sc.chip[c].icw \in {2, 3} /\ sc' = [sc EXCEPT !.chip[c].icw = @ + 1]
\* An ICW4 that is not for the 8086 fails and is still awaited.
Icw4(c, aeoi, sfn) ==
    /\ sc.chip[c].icw = 4
    /\ sc' = Written([sc EXCEPT !.chip[c].icw = 0, !.chip[c].ready = TRUE, !.chip[c].aeoi = @ \/ aeoi,
                                !.chip[c].sfn = @ \/ (sfn /\ c = 0)], c)

\* Any other write of the data port, whether or not the chip is initialised.
Ocw1(c, m) ==
    /\ Left /\ sc.chip[c].icw \notin {2, 3, 4}
    /\ sc' = Written(Tick([sc EXCEPT !.chip[c].mask = m]), c)

\* EOI of the highest pin in service, or of a given one; rotation makes it lowest.

Ocw2Eoi(c, pin, rot) ==
    /\ sc.chip[c].ready /\ sc.chip[c].service # {}
    /\ LET p == IF pin = NoPin THEN HighestIsrpin(sc.chip[c]) ELSE pin
           s == [sc EXCEPT !.chip[c].rotate = rot]
       IN sc' = Written(IF p = NoPin THEN s
                        ELSE [s EXCEPT !.chip[c].service = @ \ {p}, !.chip[c].lowprio = IF rot THEN p ELSE @], c)
Ocw2Priority(c, p) == Left /\ sc.chip[c].ready /\ sc' = Written(Tick([sc EXCEPT !.chip[c].rotate = TRUE, !.chip[c].lowprio = p]), c)
Ocw3(c, smm, poll) == Left /\ sc.chip[c].ready /\ sc' = Written(Tick([sc EXCEPT !.chip[c].smm = smm, !.chip[c].poll = poll]), c)

\* vatpic_read() in poll mode accepts a pin and notifies nobody.
ReadPoll(c) ==
    /\ sc.chip[c].poll
    /\ LET a == [sc.chip[c] EXCEPT !.poll = FALSE]
           p == HighestIrrpin(a)
       IN sc' = [sc EXCEPT !.chip[c] = IF p = NoPin THEN a ELSE PinAccepted(a, p), !.polled = @ \/ p # NoPin,
                           !.missed = @ \/ (c = 0 /\ p = Cascade)]

----------------------------------------------------------------------------
(* VM entry: the vector is read, injected, and then accepted                *)

\* vatpic_pending_intr(): the last pin stands for a spurious interrupt.
PendingIntr ==
    /\ sc.extint /\ sc.taken = <<>>
    /\ LET m == HighestIrrpin(sc.chip[0])
           s == HighestIrrpin(sc.chip[1])
           Or7(p) == IF p = NoPin THEN N - 1 ELSE p
       IN sc' = [sc EXCEPT !.taken = IF m = Cascade THEN <<1, Or7(s)>> ELSE <<0, Or7(m)>>]

IntrAccepted ==
    /\ sc.taken # <<>>
    /\ LET c == sc.taken[1]
           p == sc.taken[2]
           s == [sc EXCEPT !.chip[c] = PinAccepted(@, p), !.taken = <<>>, !.extint = FALSE]
       IN sc' = NotifyIntr(IF c = 1 THEN [s EXCEPT !.chip[0] = PinAccepted(@, Cascade)] ELSE s)

Device == (\E w \in Wires : PulseIrq(w) \/ \E b \in BOOLEAN : SetIrqstate(w, b) \/ SetIrqTrigger(w, b))
Setup(c) == (\E ok \in BOOLEAN : Icw1(c, ok)) \/ Icw23(c) \/ \E a, f \in BOOLEAN : Icw4(c, a, f)
Eoi(c) == \E pin \in sc.chip[c].service \cup {NoPin}, rot \in BOOLEAN : Ocw2Eoi(c, pin, rot)
GuestWrite(c) ==
    \/ Setup(c) \/ Eoi(c) \/ ReadPoll(c)
    \/ \E ps \in {{}, {1}, {N - 1}} : ElcWrite(c, ps)
    \/ \E m \in {{}, {1}, {Cascade}} : Ocw1(c, m)
    \/ \E p \in {1, N - 1} : Ocw2Priority(c, p)
    \/ \E smm, poll \in BOOLEAN : Ocw3(c, smm, poll)
Entry == PendingIntr \/ IntrAccepted
Next  == Device \/ (\E c \in Chips : GuestWrite(c)) \/ Entry
vars  == <<sc>>

----------------------------------------------------------------------------
\* No eligible request goes unannounced: its chip has raised its output, the
\* slave's output is latched in the master, the master's is pending at the
\* vcpu. Only a poll read and a chip that was reinitialised are excepted.
PicNotified ==
    ~sc.polled /\ ~sc.missed =>
        /\ \A c \in Chips : sc.chip[c].ready /\ Eligible(sc.chip[c]) => sc.chip[c].raised
        /\ sc.chip[0].ready /\ sc.chip[1].raised => Cascade \in sc.chip[0].request \/ Cascade \in sc.chip[0].service
        /\ sc.chip[0].raised => sc.extint

\* A wire held asserted keeps its request, so it interrupts again after its EOI.
WireKept == ~sc.missed => \A w \in sc.up : sc.chip[w[1]].acnt[w[2]] = 1 /\ w[2] \in sc.chip[w[1]].request
============================================================================
