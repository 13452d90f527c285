------------------------------ MODULE Vlapic ------------------------------
(***************************************************************************)
(* The local APICs of a virtual machine at work: register writes of the    *)
(* vcpus, inter-processor interrupts and the start of the application      *)
(* processors, message-signalled and local interrupts raised by other      *)
(* threads (vlapic.c, vmm_lapic.c), and the injection of interrupts at     *)
(* VM entry (vmx_inject_interrupts(), svm_inj_interrupts()), which reads   *)
(* the IRR and accepts a vector in two steps.                              *)
(*                                                                         *)
(* Only its own vcpu thread writes a local APIC's registers and accepts    *)
(* its interrupts; any thread may set bits of its IRR.                     *)
(***************************************************************************)
EXTENDS Integers, Sequences, FiniteSets

CONSTANTS
    ClassSize,      \* vectors of a priority class (16 in the code), the first one illegal
    NumVectors,
    Apics,          \* vcpu ids, 0 is the boot processor
    LvtChoices,     \* the LVT entries a guest writes
    Tprs,           \* the task priorities it uses
    IpiVectors,     \* the vectors it sends
    IpiDests,       \* destinations of IPIs and MSIs
    ApicCfg,        \* model and LDR of each vcpu
    ClusterBits,    \* width of the low half of a logical destination
    ApicOps         \* bound on register writes and raised interrupts

-----------------------------------------------------------------------------
(* A local APIC as operations on a record; register bitmaps are sets of    *)
(* vectors.                                                                *)

Vectors == 0 .. NumVectors - 1
Prio(x) == x \div ClassSize
Illegal(v) == v < ClassSize

Top(S) == CHOOSE v \in S : \A w \in S : w <= v

LvtNames == {"error", "lint0"}         \* the others behave alike
LvtEntry == [masked : BOOLEAN, vec : Vectors, mode : {"fixed", "nmi", "extint"}]

Lapic == [enabled : BOOLEAN,            \* APIC_SVR_ENABLE
          irr : SUBSET Vectors, isr : SUBSET Vectors, tmr : SUBSET Vectors,
          stk : Seq(Vectors),           \* isrvec_stk above its entry 0
          tpr : Vectors, ppr : Vectors,
          lvt : [LvtNames -> LvtEntry], \* lvt_last
          esrPending : BOOLEAN,
          esr : BOOLEAN]

MaskedLvt == [masked |-> TRUE, vec |-> 0, mode |-> "fixed"]

\* vlapic_reset()
ResetLapic ==
    [enabled |-> FALSE, irr |-> {}, isr |-> {}, tmr |-> {}, stk |-> <<>>,
     tpr |-> 0, ppr |-> 0,
     lvt |-> [e \in LvtNames |-> MaskedLvt],
     esrPending |-> FALSE, esr |-> FALSE]

----------------------------------------------------------------------------
(* Priorities *)

IsrVec(l) == IF l.stk = <<>> THEN 0 ELSE l.stk[Len(l.stk)]

\* vlapic_update_ppr()
UpdatePpr(l) ==
    [l EXCEPT !.ppr = IF Prio(l.tpr) >= Prio(IsrVec(l)) THEN l.tpr
                      ELSE Prio(IsrVec(l)) * ClassSize]

\* The conditions on which vlapic_update_ppr() panics: priorities of nested
\* interrupts increase, and the stack agrees with the ISR.
StackOk(l) ==
    /\ \A i \in 1 .. Len(l.stk) - 1 : Prio(l.stk[i]) < Prio(l.stk[i + 1])
    /\ l.isr = {l.stk[i] : i \in 1 .. Len(l.stk)}

\* Mutant: an interrupt of the class in service may interrupt it.
PendingIntr_SameClass(l) ==
    {v \in l.irr : v = Top(l.irr) /\ Prio(v) >= Prio(UpdatePpr(l).ppr)}

\* Mutant: the class above the processor priority is skipped.
PendingIntr_Above(l) ==
    {v \in l.irr : v = Top(l.irr) /\ Prio(v) > Prio(UpdatePpr(l).ppr) + 2}

\* vlapic_pending_intr(): the highest requested vector, if its class is above
\* the processor priority.
PendingIntr(l) ==
    {v \in l.irr : v = Top(l.irr) /\ Prio(v) > Prio(UpdatePpr(l).ppr)}

\* vlapic_intr_accepted(). The PPR register keeps its value until the next
\* vlapic_update_ppr().
IntrAccepted(l, v) ==
    [l EXCEPT !.irr = @ \ {v}, !.isr = @ \cup {v}, !.stk = Append(@, v)]

\* vlapic_process_eoi(): the highest vector in service ends. A level-triggered
\* one (EoiForwarded) is passed on to the I/O APIC.
ProcessEoi(l) ==
    IF l.isr = {} THEN l
    ELSE UpdatePpr([l EXCEPT !.isr = @ \ {Top(l.isr)},
                             !.stk = SubSeq(@, 1, Len(@) - 1)])
EoiForwarded(l) == {v \in l.isr \cap l.tmr : v = Top(l.isr)}

SetTpr(l, t) == IF l.tpr = t THEN l ELSE UpdatePpr([l EXCEPT !.tpr = t])

----------------------------------------------------------------------------
(* Requests and errors *)

\* vlapic_set_intr_ready(). Its callers have refused illegal vectors before
\* (lapic_set_intr(), vlapic_fire_lvt()).
Request(l, v) == IF l.enabled THEN [l EXCEPT !.irr = @ \cup {v}] ELSE l

\* vlapic_set_error(APIC_ESR_SEND_ILLEGAL_VECTOR) and the error LVT it fires,
\* whose own illegal vector is not reported again.
SetError(l) ==
    LET r == l.lvt["error"]
        m == [l EXCEPT !.esrPending = TRUE]
    IN  IF r.masked \/ Illegal(r.vec) THEN m ELSE Request(m, r.vec)

\* vlapic_fire_lvt() in fixed mode
FireLvt(l, e) ==
    LET r == l.lvt[e] IN
    IF r.masked THEN l
    ELSE IF Illegal(r.vec) THEN SetError(l)
    ELSE Request(l, r.vec)

\* vlapic_esr_write_handler()
EsrWrite(l) == [l EXCEPT !.esr = l.esrPending, !.esrPending = FALSE]

\* vlapic_lvt_write_handler(): everything stays masked while the APIC is
\* disabled; the error entry has no delivery mode.
LvtWrite(l, e, r) ==
    [l EXCEPT !.lvt[e] = [r EXCEPT !.masked = @ \/ ~l.enabled,
                                   !.mode = IF e = "error" THEN "fixed" ELSE @]]

\* vlapic_mask_lvts()
MaskLvts(l) == [l EXCEPT !.lvt = [e \in DOMAIN l.lvt |-> [l.lvt[e] EXCEPT !.masked = TRUE]]]

----------------------------------------------------------------------------
(* Destinations: vlapic_calcdest() *)

\* A logical destination is a set of bits; in the cluster model its upper half
\* names the cluster. cfg[v] holds the model and the LDR of vcpu v.
High(d, w) == {b - w : b \in {c \in d : c >= w}}
Low(d, w)  == {b \in d : b < w}

Matches(c, d, w) ==
    \/ c.model = "flat" /\ c.ldr \cap d # {}
    \/ c.model = "cluster" /\ High(c.ldr, w) = High(d, w) /\ Low(c.ldr, w) \cap Low(d, w) # {}

\* A destination: broadcast, an APIC ID, or a logical set of bits.
All == [kind |-> "all"]
Phys(n) == [kind |-> "phys", id |-> n]
Logical(S) == [kind |-> "log", bits |-> S]

CalcDest(active, cfg, dest, lowprio, w) ==
    CASE dest.kind = "all"  -> active
      [] dest.kind = "phys" -> active \cap {dest.id}
      [] dest.kind = "log"  ->
            LET S == {v \in active : Matches(cfg[v], dest.bits, w)}
            IN  IF lowprio THEN {v \in S : \A u \in S : v <= u} ELSE S

-----------------------------------------------------------------------------
NoVec == -1

ASSUME ApicAssumption ==
    /\ 0 \in Apics /\ Apics \subseteq Nat /\ IsFiniteSet(Apics)
    /\ ClassSize \in Nat \ {0} /\ NumVectors \in Nat \ {0}
    /\ LvtChoices \subseteq LvtEntry
    /\ Tprs \subseteq Vectors /\ IpiVectors \subseteq Vectors

VARIABLES
    lapics,     \* vlapic->apic_page and the copies beside it
    chosen,     \* the vector vlapic_pending_intr() returned to VM entry
    masking,    \* vcpus inside vlapic_svr_write_handler() of a disable
    events,     \* nmi_pending and extint_pending of each vcpu
    boot,       \* boot_state
    apicOps

apicVars == <<lapics, chosen, masking, events, boot, apicOps>>

ApicTypeOK ==
    /\ lapics \in [Apics -> Lapic]
    /\ chosen \in [Apics -> Vectors \cup {NoVec}]
    /\ masking \subseteq Apics
    /\ events \in [Apics -> SUBSET {"nmi", "extint"}]
    /\ boot \in [Apics -> {"INIT", "SIPI", "RUNNING"}]
    /\ apicOps \in 0 .. ApicOps

\* vlapic_init() and vlapic_reset()
ApicInit ==
    /\ lapics = [c \in Apics |-> ResetLapic]
    /\ chosen = [c \in Apics |-> NoVec]
    /\ masking = {}
    /\ events = [c \in Apics |-> {}]
    /\ boot = [c \in Apics |-> IF c = 0 THEN "RUNNING" ELSE "INIT"]
    /\ apicOps = 0

\* A vcpu executes guest code and traps on a register access.
InGuest(c) == boot[c] = "RUNNING" /\ chosen[c] = NoVec /\ c \notin masking
Counted    == apicOps < ApicOps /\ apicOps' = apicOps + 1
Update(c, l) == lapics' = [lapics EXCEPT ![c] = l]

----------------------------------------------------------------------------
(* Register writes, vlapic_write() *)

\* APIC_OFFSET_TPR, and CR8 through vlapic_set_cr8()
TprWrite(c, t) ==
    /\ InGuest(c) /\ Counted
    /\ Update(c, SetTpr(lapics[c], t))
    /\ UNCHANGED <<chosen, masking, events, boot>>

\* APIC_OFFSET_EOI of a vector that no I/O APIC pin waits for
EoiWrite(c) ==
    /\ InGuest(c) /\ lapics[c].isr # {}
    /\ Update(c, ProcessEoi(lapics[c]))
    /\ UNCHANGED <<chosen, masking, events, boot, apicOps>>

LvtRegWrite(c, e, r) ==
    /\ InGuest(c) /\ Counted
    /\ Update(c, LvtWrite(lapics[c], e, r))
    /\ UNCHANGED <<chosen, masking, events, boot>>

EsrRegWrite(c) ==
    /\ InGuest(c) /\ Counted
    /\ Update(c, EsrWrite(lapics[c]))
    /\ UNCHANGED <<chosen, masking, events, boot>>

\* vlapic_svr_write_handler(): the register changes before the LVTs are masked
SvrWrite(c) ==
    /\ InGuest(c) /\ Counted
    /\ Update(c, [lapics[c] EXCEPT !.enabled = ~@])
    /\ masking' = IF lapics[c].enabled THEN masking \cup {c} ELSE masking
    /\ UNCHANGED <<chosen, events, boot>>

SvrMask(c) ==
    /\ c \in masking
    /\ Update(c, MaskLvts(lapics[c]))
    /\ masking' = masking \ {c}
    /\ UNCHANGED <<chosen, events, boot, apicOps>>

----------------------------------------------------------------------------
(* Interrupts raised *)

\* Deliver vector v to every vcpu of D, lapic_set_intr()
RequestAll(D, v) ==
    lapics' = [c \in Apics |-> IF c \in D THEN Request(lapics[c], v) ELSE lapics[c]]

\* vlapic_icrlo_write_handler() in fixed and NMI mode; D is the set the
\* shorthand or vlapic_calcdest() gives.
IpiTargets(c) ==
    {{c}, Apics, Apics \ {c}} \cup
    {CalcDest(Apics, ApicCfg, d, FALSE, ClusterBits) : d \in IpiDests}

FixedIpi(c, v) ==
    /\ InGuest(c) /\ Counted
    /\ IF Illegal(v)
       THEN Update(c, SetError(lapics[c]))
       ELSE \E D \in IpiTargets(c) : RequestAll(D, v)
    /\ UNCHANGED <<chosen, masking, events, boot>>

NmiIpi(c) ==
    /\ InGuest(c) /\ Counted
    /\ \E D \in IpiTargets(c) :
          events' = [x \in Apics |-> IF x \in D THEN events[x] \cup {"nmi"} ELSE events[x]]
    /\ UNCHANGED <<lapics, chosen, masking, boot>>

\* INIT: from the boot processor to an application processor
InitIpi(c, x) ==
    /\ InGuest(c) /\ Counted /\ c = 0 /\ x # 0
    /\ boot' = [boot EXCEPT ![x] = IF @ = "INIT" THEN "SIPI" ELSE @]
    /\ UNCHANGED <<lapics, chosen, masking, events>>

\* STARTUP: ignored in any state other than wait-for-SIPI
StartupIpi(c, x) ==
    /\ InGuest(c) /\ Counted /\ c = 0 /\ x # 0
    /\ boot' = [boot EXCEPT ![x] = IF @ = "SIPI" THEN "RUNNING" ELSE @]
    /\ UNCHANGED <<lapics, chosen, masking, events>>

\* lapic_intr_msi() through vlapic_deliver_intr() from a device thread, in
\* fixed or lowest-priority mode; lapic_set_intr() refuses illegal vectors.
MsiIntr(d, lowprio, v) ==
    /\ Counted /\ ~Illegal(v)
    /\ RequestAll(CalcDest(Apics, ApicCfg, d, lowprio, ClusterBits), v)
    /\ UNCHANGED <<chosen, masking, events, boot>>

\* lapic_set_local_intr(): vlapic_trigger_lvt() from another thread. A disabled
\* APIC passes LINT0 on as the INTR pin.
TriggerLvt(c, e) ==
    /\ Counted
    /\ LET r == lapics[c].lvt[e] IN
       CASE ~lapics[c].enabled ->
              /\ events' = [events EXCEPT ![c] = IF e = "lint0" THEN @ \cup {"extint"} ELSE @]
              /\ UNCHANGED lapics
         [] lapics[c].enabled /\ (r.masked \/ r.mode = "fixed") ->
              /\ Update(c, FireLvt(lapics[c], e))
              /\ UNCHANGED events
         [] OTHER ->
              /\ events' = [events EXCEPT ![c] = @ \cup {r.mode}]
              /\ UNCHANGED lapics
    /\ UNCHANGED <<chosen, masking, boot>>

----------------------------------------------------------------------------
(* VM entry: vmx_inject_interrupts() and svm_inj_interrupts() *)

\* vm_nmi_clear() and vm_extint_clear(); the vector of an ExtINT comes from
\* the 8259.
InjectEvent(c, ev) ==
    /\ InGuest(c) /\ ev \in events[c]
    /\ events' = [events EXCEPT ![c] = @ \ {ev}]
    /\ UNCHANGED <<lapics, chosen, masking, boot, apicOps>>

\* vlapic_pending_intr(), asked only when no ExtINT is pending
AskPending(c) ==
    /\ InGuest(c) /\ "extint" \notin events[c]
    /\ \E v \in PendingIntr(lapics[c]) : chosen' = [chosen EXCEPT ![c] = v]
    /\ Update(c, UpdatePpr(lapics[c]))
    /\ UNCHANGED <<masking, events, boot, apicOps>>

Accept(c) ==
    /\ chosen[c] # NoVec
    /\ Update(c, IntrAccepted(lapics[c], chosen[c]))
    /\ chosen' = [chosen EXCEPT ![c] = NoVec]
    /\ UNCHANGED <<masking, events, boot, apicOps>>

\* RFLAGS.IF or the interruptibility state prevents the injection.
CantInject(c) ==
    /\ chosen[c] # NoVec
    /\ chosen' = [chosen EXCEPT ![c] = NoVec]
    /\ UNCHANGED <<lapics, masking, events, boot, apicOps>>

----------------------------------------------------------------------------
RegisterWrite(c) ==
    \/ \E t \in Tprs : TprWrite(c, t)
    \/ EoiWrite(c)
    \/ \E e \in LvtNames, r \in LvtChoices : LvtRegWrite(c, e, r)
    \/ EsrRegWrite(c) \/ SvrWrite(c) \/ SvrMask(c)
    \/ \E v \in IpiVectors : FixedIpi(c, v)
    \/ NmiIpi(c)
    \/ \E x \in Apics : InitIpi(c, x) \/ StartupIpi(c, x)
VmEntry(c) ==
    \/ \E ev \in {"nmi", "extint"} : InjectEvent(c, ev)
    \/ AskPending(c) \/ Accept(c) \/ CantInject(c)
Raised ==
    \/ \E d \in IpiDests, lowprio \in BOOLEAN, v \in IpiVectors : MsiIntr(d, lowprio, v)
    \/ \E c \in Apics, e \in LvtNames : TriggerLvt(c, e)

ApicNext == (\E c \in Apics : RegisterWrite(c) \/ VmEntry(c)) \/ Raised

ApicSpec == ApicInit /\ [][ApicNext]_apicVars

----------------------------------------------------------------------------
(* Properties *)

\* The panics of vlapic_update_ppr(), "isrvec_stk does not satisfy invariant"
\* and "ISR and isrvec_stk out of sync", are unreachable: whatever arrives
\* between the look at the IRR and the acceptance, and however the guest moves
\* its task priority while interrupts nest, priorities on the stack increase
\* and the stack lists the ISR in order.
IsrStackOk == \A c \in Apics : StackOk(lapics[c])
============================================================================
