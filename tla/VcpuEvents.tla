----------------------------- MODULE VcpuEvents -----------------------------
(* Events on their way into a guest: NMIs, interrupts and exceptions of one    *)
(* vcpu between vmm.c (vm_entry_intinfo(), vm_inject_exception()), the entry   *)
(* and exit code of vmx.c and svm.c, and the processor that delivers them.     *)
EXTENDS Integers

CONSTANTS Backends,  \* subset of {"vmx", "svm"}
          MaxRip,    \* instructions of the guest
          EventOps   \* NMIs and interrupts raised
VARIABLE sc

Faults == {"pf", "gp", "ud"}
Events == {"none", "nmi", "intr", "df"} \cup Faults

TypeOK ==
    /\ sc.cpu \in Backends /\ sc.at \in {"host", "guest", "task"} /\ sc.out \in {"run", "panic", "triple"}
    /\ sc.exitint \in Events /\ sc.entry \in Events /\ sc.exc \in Faults \cup {"none"} /\ sc.rip \in 0..MaxRip

\* `exitint' is the vcpu's exitintinfo, `exc' its pending exception, `entry' the
\* event the processor delivers at the next entry; `blk' blocks NMIs (in the
\* interruptibility state, or as the IRET intercept), `shadow' is that of STI,
\* `iret' says that the instruction at `rip' is an intercepted IRET.
\* What follows `kick' only watches: `handler' from the delivery of an NMI to its IRET.
Init ==
    \E c \in Backends :
        sc = [cpu |-> c, at |-> "host", out |-> "run", nmi |-> FALSE, ext |-> FALSE, apic |-> FALSE, exc |-> "none", exitint |-> "none",
              entry |-> "none", blk |-> FALSE, shadow |-> FALSE, if |-> TRUE, intwin |-> FALSE, nmiwin |-> FALSE, ipi |-> FALSE,
              rip |-> 0, last |-> 0, iret |-> FALSE, kick |-> FALSE, handler |-> FALSE, nested |-> FALSE, badiret |-> FALSE, taken |-> 0, given |-> 0, dropped |-> 0, n |-> 0]

Panic(s) == [s EXCEPT !.out = "panic"]
External(e) == IF e \in {"nmi", "intr"} THEN 1 ELSE 0

----------------------------------------------------------------------------
(* vmm.c                                                                    *)

\* exception_class(), nested_fault(): what is delivered when a second event comes up.
Class(e) == CASE e = "pf" -> "pagefault" [] e = "gp" -> "contributory" [] OTHER -> "benign"
NestedFault(first, second) ==
    IF (Class(first) = "contributory" /\ Class(second) = "contributory") \/ (Class(first) = "pagefault" /\ Class(second) # "benign")
    THEN "df" ELSE second
\* vm_entry_intinfo(): both pending events are taken and one is delivered.
EntryIntinfo(s) ==
    CASE s.exitint # "none" /\ s.exc # "none" -> IF s.exitint = "df" THEN "none" ELSE NestedFault(s.exitint, s.exc)
      [] s.exitint # "none" /\ s.exc = "none" -> s.exitint
      [] OTHER                                -> s.exc
Consumed(s) ==
    [s EXCEPT !.exitint = "none", !.exc = "none", !.dropped = @ + (IF s.exc # "none" THEN External(s.exitint) ELSE 0),
              !.out = IF s.exitint = "df" /\ s.exc # "none" THEN "triple" ELSE @]

\* vm_inject_exception(): refused while another one is pending, which the callers
\* assert never happens. The instruction is restarted by the ones that emulate it.
InjectException(s, e) == IF s.exc # "none" THEN Panic(s) ELSE [s EXCEPT !.exc = e, !.shadow = FALSE]

----------------------------------------------------------------------------
(* Before an entry                                                          *)

\* vmx_inject_interrupts() and svm_inj_interrupts() begin alike.
Pending(s) ==
    LET info == EntryIntinfo(s)
        s1   == Consumed([s EXCEPT !.shadow = @ /\ s.last = s.rip])
    IN IF info = "none" THEN s1 ELSE IF s1.entry # "none" THEN Panic(s1) ELSE [s1 EXCEPT !.entry = info]
GiveNmi(s) ==
    IF s.entry # "none" \/ ~s.nmi THEN Panic(s) ELSE [s EXCEPT !.entry = "nmi", !.nmi = FALSE, !.taken = @ + 1]
GiveIntr(s) == [s EXCEPT !.entry = "intr", !.taken = @ + 1, !.ext = FALSE, !.apic = @ /\ s.ext]

VmxNmi(s) ==
    IF ~s.nmi THEN s ELSE IF ~s.shadow /\ ~s.blk /\ s.entry = "none" THEN GiveNmi(s) ELSE [s EXCEPT !.nmiwin = TRUE]
VmxIntr(s) ==
    IF s.intwin \/ ~(s.ext \/ s.apic) THEN s
    ELSE IF ~s.if \/ s.shadow \/ s.entry # "none" THEN [s EXCEPT !.intwin = TRUE]
    ELSE [GiveIntr(s) EXCEPT !.intwin = s.ext]
VmxInject(s) == VmxIntr(VmxNmi(Pending(s)))

\* An NMI behind another event makes the cpu interrupt itself; one in a shadow
\* waits for the interrupt window.
SvmNmi(s) ==
    IF ~s.nmi \/ s.blk \/ s.shadow THEN s
    ELSE IF s.entry # "none" THEN [s EXCEPT !.ipi = TRUE]
    ELSE [GiveNmi(s) EXCEPT !.blk = TRUE]
SvmIntr(s) ==
    IF ~(s.ext \/ s.apic) THEN [s EXCEPT !.intwin = FALSE]
    ELSE IF ~s.if \/ s.shadow \/ s.entry # "none" THEN [s EXCEPT !.intwin = TRUE]
    ELSE [GiveIntr(s) EXCEPT !.intwin = TRUE]
SvmInject(s) ==
    LET s1 == Pending(s)
    IN IF s1.nmi /\ ~s1.blk /\ s1.shadow THEN [s1 EXCEPT !.intwin = TRUE] ELSE SvmIntr(SvmNmi(s1))

\* vmx_run() tests what may stop the entry after the injection, svm_vmrun() before.
Ready == sc.at = "host" /\ sc.out = "run"
Injected(s) == IF s.cpu = "vmx" THEN VmxInject(s) ELSE SvmInject(s)
Enter == Ready /\ LET s == Injected(sc) IN sc' = IF s.out = "run" THEN [s EXCEPT !.at = "guest", !.kick = FALSE] ELSE s
Abort == Ready /\ sc.cpu = "vmx" /\ sc' = Injected(sc)

----------------------------------------------------------------------------
(* The guest. A window that is open is left before the next instruction.   *)

InGuest == sc.at = "guest" /\ sc.out = "run"
Window == \/ sc.intwin /\ sc.if /\ ~sc.shadow
          \/ sc.cpu = "vmx" /\ sc.nmiwin /\ ~sc.blk /\ ~sc.shadow
          \/ sc.ipi
AtInstr == InGuest /\ sc.entry = "none" /\ ~Window /\ sc.rip < MaxRip
Runs == AtInstr /\ ~sc.iret
Executed(s) == [s EXCEPT !.rip = @ + 1, !.shadow = FALSE]
Exit(s) == [s EXCEPT !.at = "host", !.last = s.rip, !.ipi = FALSE]

\* The processor delivers the event of the entry.
Received(s, e) ==
    [s EXCEPT !.given = @ + External(e), !.handler = @ \/ e = "nmi", !.nested = @ \/ (e = "nmi" /\ s.handler), !.blk = @ \/ e = "nmi",
              !.if = @ /\ e # "intr", !.shadow = FALSE, !.iret = FALSE]
Deliver == InGuest /\ sc.entry # "none" /\ sc' = Received([sc EXCEPT !.entry = "none"], sc.entry)

\* An exit during delivery: vmx_exit_process() and svm_save_intinfo() keep the
\* event; an NMI that will be injected again must not find NMIs blocked.
SaveIntinfo(s, why) ==
    [s EXCEPT !.exitint = s.entry, !.entry = "none",
              !.blk = IF s.cpu = "vmx" /\ s.entry = "nmi" THEN why = "task" ELSE @]
DeliveryExit(why) ==
    /\ InGuest /\ sc.entry # "none" /\ (why = "task" => sc.cpu = "vmx")
    /\ LET s == Exit(SaveIntinfo(sc, why))
       IN sc' = CASE why = "paging" -> s
                  [] why = "task"   -> [s EXCEPT !.at = "task"]
                  [] OTHER          -> InjectException(s, why)
\* The task gate is walked in user space, which clears exitintinfo at the end.
TaskDone  == sc.at = "task" /\ sc.out = "run" /\ sc' = [Received(sc, sc.exitint) EXCEPT !.exitint = "none", !.at = "host"]
TaskFault == sc.at = "task" /\ sc.out = "run" /\ sc' = [InjectException(sc, "gp") EXCEPT !.at = "host"]

Instr == Runs /\ \E f \in {sc.if, FALSE} : sc' = [Executed(sc) EXCEPT !.if = f]
Sti   == Runs /\ ~sc.if /\ sc' = [Executed(sc) EXCEPT !.if = TRUE, !.shadow = TRUE]
\* The end of an NMI handler. With the intercept the IRET exits first, and is
\* restarted in a shadow; a fault in it leaves NMIs blocked under VT-x only.
Iret(f) ==
    /\ AtInstr /\ sc.handler
    /\ sc' = IF sc.cpu = "svm" /\ sc.blk THEN [Exit(sc) EXCEPT !.blk = FALSE, !.shadow = TRUE, !.iret = TRUE]
             ELSE [Executed(sc) EXCEPT !.blk = FALSE, !.handler = FALSE, !.if = f, !.iret = FALSE]
RestoreBlocking(s) == IF s.cpu = "vmx" THEN s ELSE [s EXCEPT !.badiret = TRUE]
IretFault(why) ==
    /\ AtInstr /\ sc.handler /\ (sc.cpu = "svm" => ~sc.blk)
    /\ \E sh \in {sc.shadow, FALSE} :
          LET s == Exit([RestoreBlocking(sc) EXCEPT !.shadow = sh])
          IN sc' = IF why = "paging" THEN s ELSE InjectException(s, why)

\* An instruction that is emulated (vm_handle_inst_emul(), user space): vm_run()
\* takes `nextrip' past it; a fault or an unfinished string operation restarts it.
Emulate(what) ==
    /\ Runs
    /\ sc' = CASE what = "done"  -> [Exit(sc) EXCEPT !.rip = @ + 1]
               [] what = "retry" -> Exit(sc)
               [] OTHER          -> InjectException(Exit(sc), what)
\* One that the exit code itself completes (control registers, MSRs, CPUID, XSETBV)
\* while the vcpu is running: a fault takes the length the exit will skip to zero.
Advance(s, len) == [s EXCEPT !.rip = @ + len]
Handled(what) == Runs /\ sc' = IF what = "done" THEN Advance(Exit(sc), 1) ELSE Advance(InjectException(Exit(sc), what), 0)
\* An exception the processor reports instead of delivering it, and a page of the
\* guest that must be brought in.
Exception(e) == Runs /\ sc' = InjectException(Exit(sc), e)
Paging       == Runs /\ sc' = Exit(sc)
\* A host interrupt, or the other cpu's kick.
HostIntr == InGuest /\ sc.entry = "none" /\ sc' = Exit(sc)
IntWindow == InGuest /\ sc.entry = "none" /\ sc.intwin /\ sc.if /\ ~sc.shadow
             /\ sc' = [Exit(sc) EXCEPT !.intwin = @ /\ sc.cpu = "svm"]
\* Some processors open the NMI window in the shadow of STI.
NmiWindow ==
    /\ InGuest /\ sc.entry = "none" /\ sc.cpu = "vmx" /\ sc.nmiwin /\ ~sc.blk
    /\ sc' = [(IF sc.nmi THEN GiveNmi(Exit(sc)) ELSE Exit(sc)) EXCEPT !.nmiwin = FALSE]

\* vm_inject_nmi(), vm_inject_extint(), the local APIC; vcpu_notify_event().
Raise(f) == sc.n < EventOps /\ sc' = [sc EXCEPT ![f] = TRUE, !.n = @ + 1, !.kick = @ \/ sc.at = "guest"]

Guest == Deliver \/ Instr \/ Sti \/ (\E f \in BOOLEAN : Iret(f)) \/ IretFault("paging") \/ IretFault("pf")
Exits ==
    \/ \E why \in {"paging", "task"} \cup Faults : DeliveryExit(why)
    \/ \E what \in {"done", "retry", "gp"} : Emulate(what)
    \/ \E what \in {"done", "ud"} : Handled(what)
    \/ \E e \in {"pf", "ud"} : Exception(e)
    \/ Paging \/ HostIntr \/ IntWindow \/ NmiWindow
Next == Enter \/ Abort \/ TaskDone \/ TaskFault \/ Guest \/ Exits \/ \E f \in {"nmi", "ext", "apic"} : Raise(f)

----------------------------------------------------------------------------
\* None of the kernel's assertions on the way fails.
AssertsHold == sc.out # "panic"
\* An NMI or interrupt taken from its source is delivered once, whatever exits
\* come in between, unless a fault in its own delivery replaces it.
EventsKept == sc.taken = sc.given + External(sc.entry) + External(sc.exitint) + sc.dropped
\* The guest's NMI handler is never interrupted by another NMI. (Under SVM an IRET
\* that faults after its intercept was cleared exposes it, as svm.c remarks.)
NoNestedNmi == sc.nested => sc.badiret
\* Nothing the injection left pending is forgotten: the guest is left when it can
\* take it. (Under SVM an NMI that waited in a shadow waits for interrupts to be enabled.)
NoLostEvent ==
    (InGuest /\ ~sc.kick /\ sc.entry = "none") =>
        /\ (sc.ext \/ sc.apic) => sc.intwin
        /\ (sc.nmi /\ ~sc.blk /\ ~sc.shadow) => sc.nmiwin \/ sc.ipi \/ sc.intwin
\* The processor accepts the entry: an NMI is not injected into a guest that blocks
\* NMIs, nor an interrupt into one that does not accept interrupts.
EntryAccepted ==
    InGuest => /\ (sc.entry = "nmi" /\ sc.cpu = "vmx") => ~sc.blk
               /\ sc.entry = "intr" => sc.if /\ ~sc.shadow
=============================================================================
