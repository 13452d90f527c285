------------------------------ MODULE Vioapic ------------------------------
(***************************************************************************)
(* The virtual I/O APIC (vioapic.c) and the level-triggered interrupts it  *)
(* delivers to the local APICs. Device threads move its pins; a vcpu that  *)
(* writes a redirection entry drops the lock and makes every vcpu          *)
(* recompute its trigger-mode register in a rendezvous; the EOI of a vcpu  *)
(* comes back through that register.                                       *)
(*                                                                         *)
(* The guest is assumed to serialise its redirection-table writes and to   *)
(* change an entry, apart from its mask bit, only while it is masked and   *)
(* has no interrupt in progress, as operating systems do.                  *)
(***************************************************************************)
EXTENDS Vlapic

CONSTANTS
    Pins,           \* REDIR_ENTRIES of them
    PinVectors,     \* the vectors the guest gives to pins
    PinDests,       \* and their destinations
    MaxAcnt,        \* bound on the asserts of a pin
    PinOps          \* bound on pin events and on entry writes

\* The guest gives its pins legal vectors, and destinations that name at least
\* one of its processors.
ASSUME IoapicAssumption ==
    /\ PinVectors \subseteq Vectors /\ \A v \in PinVectors : ~Illegal(v)
    /\ MaxAcnt \in Nat
    /\ \A d \in PinDests, lowprio \in BOOLEAN : \E c \in Apics :
          c \in CalcDest(Apics, ApicCfg, d, lowprio, ClusterBits)

NoWrite == [cpu |-> -1]

VARIABLES
    pins,       \* rtbl: the fields of reg, and acnt
    iowr,       \* a vioapic_write() that has dropped the lock, and the vcpus
                \* that have yet to run vioapic_update_tmr()
    eoiing,     \* the vector a vcpu is about to pass to vioapic_process_eoi()
    stale,      \* history: pins whose EOI met a trigger-mode register that
                \* did not know the vector as level-triggered
    pinOps

ioapicVars == <<pins, iowr, eoiing, stale, pinOps>>

PinEntry == [masked : BOOLEAN, level : BOOLEAN, lowprio : BOOLEAN, remirr : BOOLEAN,
             vec : Vectors, dest : PinDests, acnt : 0 .. MaxAcnt]

IoapicTypeOK ==
    /\ pins \in [Pins -> PinEntry]
    /\ iowr = NoWrite \/ iowr \in [cpu : Apics, pin : Pins, todo : SUBSET Apics]
    /\ eoiing \in [Apics -> Vectors \cup {NoVec}]
    /\ stale \subseteq Pins
    /\ pinOps \in 0 .. PinOps

DestOf(e) == CalcDest(Apics, ApicCfg, e.dest, e.lowprio, ClusterBits)

\* What vioapic_update_tmr() computes: vlapic_reset_tmr(), then vlapic_set_tmr_level() for
\* every level-triggered pin that would interrupt this vcpu, masked or not.
UpdatedTmr(c) ==
    {pins[p].vec : p \in {q \in Pins : pins[q].level /\ c \in DestOf(pins[q])}}

\* vioapic_init() in a machine whose guest has started its processors, enabled
\* their local APICs and programmed level-triggered pins P in fixed mode; it
\* will use the others in lowest-priority mode.
IoapicInit ==
    /\ \E d \in PinDests, v \in PinVectors, P \in SUBSET Pins :
          pins = [p \in Pins |->
                    [masked |-> p \notin P, level |-> p \in P, lowprio |-> p \notin P,
                     remirr |-> FALSE, vec |-> IF p \in P THEN v ELSE 0, dest |-> d,
                     acnt |-> 0]]
    /\ lapics = [c \in Apics |-> [ResetLapic EXCEPT !.enabled = TRUE, !.tmr = UpdatedTmr(c)]]
    /\ chosen = [c \in Apics |-> NoVec]
    /\ masking = {}
    /\ events = [c \in Apics |-> {}]
    /\ boot = [c \in Apics |-> "RUNNING"]
    /\ apicOps = 0
    /\ iowr = NoWrite
    /\ eoiing = [c \in Apics |-> NoVec]
    /\ stale = {} /\ pinOps = 0

\* A vcpu runs guest code unless it is in an EOI, or takes part in the
\* rendezvous of a write.
Running(c) ==
    /\ InGuest(c) /\ eoiing[c] = NoVec
    /\ iowr # NoWrite => c # iowr.cpu /\ c \in iowr.todo
CountedPin == pinOps < PinOps /\ pinOps' = pinOps + 1

----------------------------------------------------------------------------
(* Delivery *)

\* vioapic_send_intr() and vlapic_deliver_intr() for every pin of P, given the
\* table t: unmasked pins interrupt, level-triggered ones set REM_IRR.
Sendable(t, P) == {p \in P : ~t[p].masked}

SendPins(t, P) ==
    LET S == Sendable(t, P)
        Want(c) == {t[p].vec : p \in {q \in S : c \in DestOf(t[q])}}
    IN  /\ pins' = [p \in Pins |-> IF p \in S /\ t[p].level
                                   THEN [t[p] EXCEPT !.remirr = TRUE] ELSE t[p]]
        /\ lapics' = [c \in Apics |-> [lapics[c] EXCEPT !.irr = @ \cup Want(c)]]

\* vioapic_set_pinstate(): a pin interrupts when its count leaves 0.
SetPin(p, n) ==
    SendPins([pins EXCEPT ![p].acnt = n],
             IF pins[p].acnt = 0 /\ n = 1 THEN {p} ELSE {})

AssertIrq(p) ==
    /\ CountedPin /\ pins[p].acnt < MaxAcnt
    /\ SetPin(p, pins[p].acnt + 1)
    /\ UNCHANGED <<iowr, eoiing, stale, chosen, masking, events, boot, apicOps>>

\* Mutant: a deassert is counted although nothing was asserted.
DeassertIrq_Any(p) ==
    /\ pins[p].acnt > -1
    /\ SetPin(p, pins[p].acnt - 1)
    /\ UNCHANGED <<iowr, eoiing, stale, pinOps, chosen, masking, events, boot, apicOps>>

\* Device models deassert only what they have asserted.
DeassertIrq(p) ==
    /\ pins[p].acnt > 0
    /\ SetPin(p, pins[p].acnt - 1)
    /\ UNCHANGED <<iowr, eoiing, stale, pinOps, chosen, masking, events, boot, apicOps>>

\* vioapic_pulse_irq(): up and down under one lock
PulseIrq(p) ==
    /\ CountedPin
    /\ SendPins(pins, IF pins[p].acnt = 0 THEN {p} ELSE {})
    /\ UNCHANGED <<iowr, eoiing, stale, chosen, masking, events, boot, apicOps>>

----------------------------------------------------------------------------
(* Redirection table writes *)

\* The interrupt at the end of vioapic_write()
SendAtWrite(t, p) ==
    SendPins(t, IF ~t[p].remirr /\ t[p].acnt > 0 THEN {p} ELSE {})

\* Mutant: the rendezvous is made only for a new trigger mode.
EntryWrite_LevelOnly(c, p, e) ==
    /\ Running(c) /\ CountedPin /\ iowr = NoWrite
    /\ IF e.level = pins[p].level
       THEN SendAtWrite([pins EXCEPT ![p] = e], p) /\ UNCHANGED iowr
       ELSE /\ pins' = [pins EXCEPT ![p] = e]
            /\ iowr' = [cpu |-> c, pin |-> p, todo |-> Apics]
            /\ UNCHANGED lapics
    /\ UNCHANGED <<eoiing, stale, chosen, masking, events, boot, apicOps>>

\* vioapic_write() of one half of an entry. A change of more than the mask
\* drops the lock for a rendezvous.
EntryWrite(c, p, e) ==
    /\ Running(c) /\ CountedPin /\ iowr = NoWrite
    /\ IF e = [pins[p] EXCEPT !.masked = e.masked]
       THEN SendAtWrite([pins EXCEPT ![p] = e], p) /\ UNCHANGED iowr
       ELSE /\ pins' = [pins EXCEPT ![p] = e]
            /\ iowr' = [cpu |-> c, pin |-> p, todo |-> Apics]
            /\ UNCHANGED lapics
    /\ UNCHANGED <<eoiing, stale, chosen, masking, events, boot, apicOps>>

\* The low half holds the vector, the trigger mode and the mask (the
\* delivery mode of a pin does not change), the high half the destination.
LowHalf(e) ==
    {[e EXCEPT !.masked = m, !.level = l, !.vec = v] : m, l \in BOOLEAN, v \in PinVectors}
HighHalf(e) == {[e EXCEPT !.dest = d] : d \in PinDests}

\* Mask writes at any time; the rest only in a masked, idle entry.
GuestWrites(p) ==
    LET e == pins[p]
    IN  (IF e.vec \in PinVectors THEN {[e EXCEPT !.masked = ~@]} ELSE {}) \cup
        (IF e.masked /\ ~e.remirr THEN (LowHalf(e) \cup HighHalf(e)) \ {e} ELSE {})

\* vioapic_update_tmr() in the rendezvous
UpdateTmr(c) ==
    /\ iowr # NoWrite /\ c \in iowr.todo
    /\ chosen[c] = NoVec /\ eoiing[c] = NoVec
    /\ Update(c, [lapics[c] EXCEPT !.tmr = UpdatedTmr(c)])
    /\ iowr' = [iowr EXCEPT !.todo = @ \ {c}]
    /\ UNCHANGED <<pins, eoiing, stale, pinOps, chosen, masking, events, boot, apicOps>>

EndWrite ==
    /\ iowr # NoWrite /\ iowr.todo = {}
    /\ SendAtWrite(pins, iowr.pin)
    /\ iowr' = NoWrite
    /\ UNCHANGED <<eoiing, stale, pinOps, chosen, masking, events, boot, apicOps>>

----------------------------------------------------------------------------
(* End of interrupt *)

\* vlapic_process_eoi() up to the call of vioapic_process_eoi(), which is made
\* for vectors the trigger-mode register has as level-triggered.
Eoi(c) ==
    /\ Running(c) /\ lapics[c].isr # {}
    /\ LET v == Top(lapics[c].isr) IN
       /\ eoiing' = [eoiing EXCEPT ![c] = IF v \in EoiForwarded(lapics[c]) THEN v ELSE NoVec]
       /\ stale' = IF v \in lapics[c].tmr THEN stale
                   ELSE stale \cup {p \in Pins : /\ pins[p].remirr /\ pins[p].vec = v
                                                 /\ c \in DestOf(pins[p])}
    /\ Update(c, ProcessEoi(lapics[c]))
    /\ UNCHANGED <<pins, iowr, pinOps, chosen, masking, events, boot, apicOps>>

\* Mutant: a pin that is still asserted is left alone.
IoapicEoi_NoResend(c) ==
    /\ eoiing[c] # NoVec
    /\ pins' = [p \in Pins |-> IF pins[p].vec = eoiing[c]
                               THEN [pins[p] EXCEPT !.remirr = FALSE] ELSE pins[p]]
    /\ eoiing' = [eoiing EXCEPT ![c] = NoVec]
    /\ UNCHANGED <<lapics, iowr, stale, pinOps, chosen, masking, events, boot, apicOps>>

\* vioapic_process_eoi(): every pin of this vector with REM_IRR is released,
\* and sent again while it is asserted.
IoapicEoi(c) ==
    /\ eoiing[c] # NoVec
    /\ LET P == {p \in Pins : pins[p].remirr /\ pins[p].vec = eoiing[c]} IN
       SendPins([p \in Pins |-> IF p \in P THEN [pins[p] EXCEPT !.remirr = FALSE]
                                ELSE pins[p]],
                {p \in P : pins[p].acnt > 0})
    /\ eoiing' = [eoiing EXCEPT ![c] = NoVec]
    /\ UNCHANGED <<iowr, stale, pinOps, chosen, masking, events, boot, apicOps>>

----------------------------------------------------------------------------
PinEvent == \E p \in Pins : AssertIrq(p) \/ DeassertIrq(p) \/ PulseIrq(p)
GuestEntryWrite == \E c \in Apics, p \in Pins : \E e \in GuestWrites(p) : EntryWrite(c, p, e)
Inject(c) == Running(c) /\ AskPending(c) /\ UNCHANGED ioapicVars
Inject2(c) == (Accept(c) \/ CantInject(c)) /\ UNCHANGED ioapicVars

IoapicNext ==
    \/ PinEvent \/ GuestEntryWrite \/ EndWrite
    \/ \E c \in Apics : UpdateTmr(c) \/ Eoi(c) \/ IoapicEoi(c) \/ Inject(c) \/ Inject2(c)

IoapicAllVars == <<apicVars, ioapicVars>>

\* Vcpus run, and look for a rendezvous before every VM entry; the guest ends
\* its interrupts, does not keep them disabled forever, and makes a device that
\* it serves release its line.
IoapicFairness ==
    /\ WF_IoapicAllVars(EndWrite)
    /\ \A p \in Pins : WF_IoapicAllVars(DeassertIrq(p))
    /\ \A c \in Apics :
          /\ WF_IoapicAllVars(UpdateTmr(c)) /\ WF_IoapicAllVars(Eoi(c))
          /\ WF_IoapicAllVars(IoapicEoi(c)) /\ WF_IoapicAllVars(Inject(c))
          /\ SF_IoapicAllVars(Accept(c) /\ UNCHANGED ioapicVars)

IoapicSpec == IoapicInit /\ [][IoapicNext]_IoapicAllVars /\ IoapicFairness

----------------------------------------------------------------------------
(* Properties *)

\* Once a write is complete, the trigger-mode register of every vcpu holds
\* exactly the vectors of the level-triggered pins that interrupt it.
TmrMatches ==
    iowr = NoWrite => \A c \in Apics : lapics[c].tmr = UpdatedTmr(c)

\* No level-triggered interrupt is lost, through masks, rewrites, repeated
\* asserts and EOIs: an asserted, unmasked level-triggered pin has REM_IRR set,
\* and REM_IRR stands for an interrupt that a vcpu still has to end (requested,
\* in service or on its way to vioapic_process_eoi()). Otherwise the pin would
\* be dead, as it is once its EOI was swallowed (stale).
LevelNeverLost ==
    \A p \in Pins :
        /\ /\ pins[p].level /\ ~pins[p].masked /\ pins[p].acnt > 0
           /\ iowr # NoWrite => iowr.pin # p
           => pins[p].remirr
        /\ pins[p].remirr /\ p \notin stale =>
              \E c \in Apics :
                  pins[p].vec \in lapics[c].irr \cup lapics[c].isr \cup {eoiing[c]}

\* Level-triggered interrupts are tracked by both sides: the trigger-mode
\* registers match the redirection entries, and no asserted pin is forgotten.
LevelsTracked == TmrMatches /\ LevelNeverLost

\* The EOI of a level-triggered interrupt is swallowed only at a vcpu that has
\* not yet taken part in the rendezvous of a write: an entry that unmasks a
\* pin with its new vector can interrupt before the trigger modes know it.
SwallowedOnlyInWindow ==
    [][stale' # stale => /\ iowr # NoWrite
                         /\ \E c \in iowr.todo : lapics'[c].isr # lapics[c].isr]_IoapicAllVars

\* An interrupt recorded in REM_IRR gets into service.
LevelServiced ==
    \A p \in Pins : pins[p].remirr ~>
        (~pins[p].remirr \/ p \in stale \/ \E c \in Apics : pins[p].vec \in lapics[c].isr)
============================================================================
