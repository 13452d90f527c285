-------------------------------- MODULE Vmm --------------------------------
(***************************************************************************)
(* The virtual-cpu run states of the vmm kernel module: vmm.c (vcpu states,*)
(* VM_RUN, HLT, suspend, rendezvous, event notification), the vcpu locking *)
(* of the ioctl layer (vmm_dev.c) and the event checks that vmx_run() and  *)
(* svm_vmrun() make before they enter the guest.                           *)
(*                                                                         *)
(* Every vcpu has one thread, named like the vcpu, that loops over VM_RUN. *)
(* Others are the remaining threads that issue ioctls (device models, the  *)
(* debugger, bhyvectl). pc[t] is the point a thread has reached; a thread  *)
(* in `sleeping' is blocked in msleep_spin()/mtx_sleep() on the channel    *)
(* its pc implies. A section that the code runs under one vcpu lock or     *)
(* under rendezvous_mtx is one step; the loops that notify vcpus one by    *)
(* one, and the points where a lock is dropped, are separate steps.        *)
(***************************************************************************)
EXTENDS Integers, FiniteSets

CONSTANTS
    NumVcpus,   \* vm->maxcpus
    Backend,    \* "vmx" (Intel) or "svm" (AMD)
    Others,     \* threads that issue ioctls and run no vcpu
    Ioctls,     \* the ioctls these models issue, a subset of IoctlNames
    Exits,      \* the guest exits these models take, a subset of ExitNames
    SuspChk,    \* whether thread_check_susp() may report an error
    Budget,     \* bound: number of ioctls other than VM_RUN in a behaviour
    BootActive  \* vcpus already activated in the initial state

Vcpus   == 0 .. NumVcpus - 1
Threads == Vcpus \cup Others

IoctlNames == {"suspend", "stop", "resume", "nmi", "intr", "activate",
               "getreg", "memmap", "reinit"}
ExitNames  == {"user", "handled", "hlt_on", "hlt_off", "ioapic",
               "triplefault", "ast"}

ASSUME ConstantsAssumption ==
    /\ NumVcpus \in Nat \ {0}
    /\ Backend \in {"vmx", "svm"}
    /\ Others \cap Vcpus = {}
    /\ Ioctls \subseteq IoctlNames
    /\ Exits \subseteq ExitNames
    /\ SuspChk \in BOOLEAN
    /\ Budget \in Nat
    /\ BootActive \subseteq Vcpus

VARIABLES
    vstate,     \* vcpu->state
    reqidle,    \* vcpus with vcpu->reqidle set
    events,     \* pending NMI ("nmi") and maskable ("intr") events of a vcpu
    ipi,        \* vcpus with an IPI on its way to their host cpu
    active,     \* vm->active_cpus
    debug,      \* vm->debug_cpus
    suspend,    \* vm->suspend # VM_SUSPEND_NONE
    suspended,  \* vm->suspended_cpus
    halted,     \* vm->halted_cpus
    rfunc,      \* vm->rendezvous_func # NULL
    req,        \* vm->rendezvous_req_cpus
    done,       \* vm->rendezvous_done_cpus
    pc, sleeping,
    op, want, held,   \* ioctl being served, vcpus to freeze, vcpus frozen
    todo,       \* vcpus a notification loop has still to visit
    ret,        \* where a subroutine returns to
    hltmode,    \* vm_handle_hlt locals: intr_disabled and vcpu_halted
    due,        \* history: targets that owe a call to this initiator
    budget

vmVars   == <<active, debug, suspend, suspended, halted>>
rdvVars  == <<rfunc, req, done, due>>
vcpuVars == <<vstate, reqidle, events, ipi>>
locals   == <<op, want, held, hltmode>>
vars     == <<vcpuVars, vmVars, rdvVars, locals, pc, sleeping, todo, ret, budget>>

VStates == {"IDLE", "FROZEN", "RUNNING", "SLEEPING"}

\* Points of a vcpu thread inside VM_RUN while it owns its vcpu.
RunPcs  == {"enter", "vmrun", "inject", "check", "guest", "reqidle", "suspend",
            "susploop", "suspsleep", "xrendez", "rendez", "rdvsleep",
            "rdvinit", "hlt", "hltsleep", "notify_dest", "notify_susp"}
Pcs     == RunPcs \cup {"user", "lock", "locksleep", "ioctl", "unlock",
                        "notify_active", "notify_one"}
Rets    == {"user", "enter", "check", "guest", "restart", "susploop", "rdvinit"}

TypeOK ==
    /\ vstate \in [Vcpus -> VStates]
    /\ reqidle \subseteq Vcpus /\ ipi \subseteq Vcpus
    /\ events \in [Vcpus -> SUBSET {"nmi", "intr"}]
    /\ active \subseteq Vcpus /\ debug \subseteq Vcpus
    /\ suspended \subseteq Vcpus /\ halted \subseteq Vcpus
    /\ suspend \in BOOLEAN /\ rfunc \in BOOLEAN
    /\ req \subseteq Vcpus /\ done \subseteq Vcpus
    /\ pc \in [Threads -> Pcs]
    /\ sleeping \subseteq Threads
    /\ op \in [Threads -> IoctlNames \cup {"run", "none"}]
    /\ want \in [Threads -> SUBSET Vcpus]
    /\ held \in [Threads -> SUBSET Vcpus]
    /\ todo \in [Threads -> SUBSET Vcpus]
    /\ ret \in [Threads -> Rets]
    /\ hltmode \in [Vcpus -> {"none", "on", "off", "halted"}]
    /\ due \in [Vcpus -> SUBSET Vcpus]
    /\ budget \in 0 .. Budget

Init ==
    /\ vstate = [v \in Vcpus |-> "IDLE"]
    /\ reqidle = {} /\ ipi = {}
    /\ events = [v \in Vcpus |-> {}]
    /\ active = BootActive /\ debug = {} /\ suspended = {} /\ halted = {}
    /\ suspend = FALSE
    /\ rfunc = FALSE /\ req = {} /\ done = {}
    /\ pc = [t \in Threads |-> "user"]
    /\ sleeping = {}
    /\ op = [t \in Threads |-> "none"]
    /\ want = [t \in Threads |-> {}]
    /\ held = [t \in Threads |-> {}]
    /\ todo = [t \in Threads |-> {}]
    /\ ret = [t \in Threads |-> "user"]
    /\ hltmode = [v \in Vcpus |-> "none"]
    /\ due = [v \in Vcpus |-> {}]
    /\ budget = Budget

----------------------------------------------------------------------------
(* Helpers *)

Goto(t, p) == pc' = [pc EXCEPT ![t] = p]

\* The loops over vcpus run from 0 upwards.
First(v, S) == v \in S /\ \A w \in S : v <= w

\* Faulty variant for mutation: only a sleeping vcpu is notified.
NotifyLocked_NoIpi(v, self) ==
    /\ sleeping' = IF vstate[v] = "SLEEPING" THEN sleeping \ {v} ELSE sleeping
    /\ UNCHANGED ipi

\* vcpu_notify_event_locked(): kick a running vcpu, wake a sleeping one. A
\* vcpu that notifies itself while running (self) sends no IPI.
NotifyLocked(v, self) ==
    /\ ipi' = IF vstate[v] = "RUNNING" /\ v # self THEN ipi \cup {v} ELSE ipi
    /\ sleeping' = IF vstate[v] = "SLEEPING" THEN sleeping \ {v} ELSE sleeping

\* vcpu_set_state_locked() for the transitions of VM_RUN itself.
SetState(v, s) == vstate' = [vstate EXCEPT ![v] = s]

\* vm_suspend(): the first caller wins and notifies every active vcpu, then
\* continues at r; a later caller gets EALREADY and continues at once.
SuspendVm(t, r) ==
    /\ suspend' = TRUE
    /\ IF suspend THEN Goto(t, r) /\ UNCHANGED <<todo, ret>>
                  ELSE /\ Goto(t, "notify_active")
                       /\ todo' = [todo EXCEPT ![t] = Vcpus]
                       /\ ret' = [ret EXCEPT ![t] = r]

\* Where a subroutine returns to; "restart" is vm_run()'s goto restart.
Return(t) == IF ret[t] = "restart" THEN "enter" ELSE ret[t]

\* A subroutine call of vm_handle_rendezvous().
CallRendezvous(t, r) ==
    /\ Goto(t, "rendez")
    /\ ret' = [ret EXCEPT ![t] = r]

----------------------------------------------------------------------------
(* ioctls: freezing the vcpus an ioctl operates on *)

\* Faulty variant for mutation: vcpu_lock_all() stops one vcpu early.
BeginLocked_OffByOne(t, o, S) ==
    /\ pc[t] = "user"
    /\ op' = [op EXCEPT ![t] = o]
    /\ want' = [want EXCEPT ![t] = IF o = "run" THEN S ELSE S \ {NumVcpus - 1}]
    /\ Goto(t, "lock")
    /\ UNCHANGED <<vcpuVars, vmVars, rdvVars, held, hltmode, sleeping, todo, ret>>

\* vmmdev_ioctl() entry for the ioctls that freeze one vcpu or all of them.
BeginLocked(t, o, S) ==
    /\ pc[t] = "user"
    /\ op' = [op EXCEPT ![t] = o]
    /\ want' = [want EXCEPT ![t] = S]
    /\ Goto(t, "lock")
    /\ UNCHANGED <<vcpuVars, vmVars, rdvVars, held, hltmode, sleeping, todo, ret>>

VmRun(v) ==
    /\ BeginLocked(v, "run", {v})
    /\ UNCHANGED budget

LockedIoctl(t) ==
    /\ budget > 0 /\ budget' = budget - 1
    /\ \/ \E o \in Ioctls \cap {"activate", "getreg"}, v \in Vcpus :
             BeginLocked(t, o, {v})
       \/ \E o \in Ioctls \cap {"memmap", "reinit"} : BeginLocked(t, o, Vcpus)

\* Faulty variant for mutation: a vcpu another ioctl has frozen is taken over.
MayFreeze_Frozen(v) == vstate[v] \in {"IDLE", "FROZEN"}

\* "State transitions from the vmmdev_ioctl() must always begin from the
\* VCPU_IDLE state."
MayFreeze(v) == vstate[v] = "IDLE"

\* vcpu_set_state_locked(.., from_idle = true) finds the vcpu idle.
LockGrant(t) ==
    /\ pc[t] = "lock"
    /\ \E v \in Vcpus :
        /\ First(v, want[t])
        /\ MayFreeze(v)
        /\ SetState(v, "FROZEN")
        /\ held' = [held EXCEPT ![t] = @ \cup {v}]
        /\ want' = [want EXCEPT ![t] = @ \ {v}]
        /\ Goto(t, IF want[t] = {v} THEN "ioctl" ELSE "lock")
    /\ UNCHANGED <<reqidle, events, ipi, vmVars, rdvVars, op, hltmode, sleeping,
                   todo, ret, budget>>

\* ... and otherwise asks for it and sleeps on &vcpu->state.
LockRequest(t) ==
    /\ pc[t] = "lock"
    /\ \E v \in Vcpus :
        /\ First(v, want[t])
        /\ ~MayFreeze(v)
        /\ reqidle' = reqidle \cup {v}
        /\ ipi' = IF vstate[v] = "RUNNING" THEN ipi \cup {v} ELSE ipi
        /\ sleeping' = (IF vstate[v] = "SLEEPING" THEN sleeping \ {v}
                                                 ELSE sleeping) \cup {t}
    /\ Goto(t, "locksleep")
    /\ UNCHANGED <<vstate, events, vmVars, rdvVars, locals, todo, ret, budget>>

LockWake(t) ==
    /\ pc[t] = "locksleep" /\ t \notin sleeping
    /\ Goto(t, "lock")
    /\ UNCHANGED <<vcpuVars, vmVars, rdvVars, locals, sleeping, todo, ret, budget>>

\* vcpu_unlock_one(): back to VCPU_IDLE, waking whoever waits for that.
UnlockOne(t) ==
    /\ pc[t] = "unlock"
    /\ \E v \in Vcpus :
        /\ First(v, held[t])
        /\ SetState(v, "IDLE")
        /\ sleeping' = sleeping \
              {u \in Threads : pc[u] = "locksleep" /\ First(v, want[u])}
        /\ held' = [held EXCEPT ![t] = @ \ {v}]
        /\ Goto(t, IF held[t] = {v} THEN "user" ELSE "unlock")
    /\ UNCHANGED <<reqidle, events, ipi, vmVars, rdvVars, op, want, hltmode,
                   todo, ret, budget>>

\* Faulty variant for mutation: a suspended vcpu may be run again.
Runnable_Suspended(v) == v \in active

Runnable(v) == v \in active /\ v \notin suspended

\* vm_run()'s checks before it enters the restart loop.
RunBody(v) ==
    /\ pc[v] = "ioctl" /\ op[v] = "run"
    /\ Goto(v, IF Runnable(v) THEN "enter" ELSE "unlock")
    /\ UNCHANGED <<vcpuVars, vmVars, rdvVars, locals, sleeping, todo, ret, budget>>

\* vm_activate_cpu(); a vcpu that is already active yields EBUSY.
ActivateBody(t) ==
    /\ pc[t] = "ioctl" /\ op[t] = "activate"
    /\ active' = active \cup held[t]
    /\ Goto(t, "unlock")
    /\ UNCHANGED <<vcpuVars, debug, suspend, suspended, halted, rdvVars, locals,
                   sleeping, todo, ret, budget>>

\* Register access and memory-map changes: no effect on the run state.
AccessBody(t) ==
    /\ pc[t] = "ioctl" /\ op[t] \in {"getreg", "memmap"}
    /\ Goto(t, "unlock")
    /\ UNCHANGED <<vcpuVars, vmVars, rdvVars, locals, sleeping, todo, ret, budget>>

\* vm_reinit(): only a VM whose active vcpus are all suspended is reset;
\* halted_cpus and the rendezvous fields are left alone.
ReinitBody(t) ==
    /\ pc[t] = "ioctl" /\ op[t] = "reinit"
    /\ IF suspended = active
       THEN /\ active' = {} /\ debug' = {} /\ suspended' = {}
            /\ suspend' = FALSE
            /\ reqidle' = {}
            /\ events' = [v \in Vcpus |-> {}]
       ELSE UNCHANGED <<active, debug, suspended, suspend, reqidle, events>>
    /\ Goto(t, "unlock")
    /\ UNCHANGED <<vstate, ipi, halted, rdvVars, locals, sleeping, todo, ret, budget>>

----------------------------------------------------------------------------
(* ioctls that freeze nothing *)

\* VM_SUSPEND
VmSuspend(t) ==
    /\ pc[t] = "user" /\ "suspend" \in Ioctls
    /\ budget > 0 /\ budget' = budget - 1
    /\ SuspendVm(t, "user")
    /\ UNCHANGED <<vcpuVars, active, debug, suspended, halted, rdvVars, locals,
                   sleeping>>

\* VM_SUSPEND_CPU / VM_RESUME_CPU, on every vcpu (vcpuid -1) or on one.
VmSuspendCpu(t) ==
    /\ pc[t] = "user" /\ "stop" \in Ioctls
    /\ budget > 0 /\ budget' = budget - 1
    /\ \/ /\ debug' = active
          /\ Goto(t, "notify_active")
          /\ todo' = [todo EXCEPT ![t] = Vcpus]
       \/ \E v \in active :
          /\ debug' = debug \cup {v}
          /\ Goto(t, "notify_one")
          /\ todo' = [todo EXCEPT ![t] = {v}]
    /\ ret' = [ret EXCEPT ![t] = "user"]
    /\ UNCHANGED <<vcpuVars, active, suspend, suspended, halted, rdvVars, locals,
                   sleeping>>

VmResumeCpu(t) ==
    /\ pc[t] = "user" /\ "resume" \in Ioctls
    /\ debug # {}
    /\ debug' = {} \/ \E v \in debug : debug' = debug \ {v}
    /\ UNCHANGED <<vcpuVars, active, suspend, suspended, halted, rdvVars, locals,
                   pc, sleeping, todo, ret, budget>>

\* vm_inject_nmi(), vm_inject_extint() and the vlapic's pending interrupts.
InjectEvent(t) ==
    /\ pc[t] = "user"
    /\ budget > 0 /\ budget' = budget - 1
    /\ \E v \in Vcpus, e \in Ioctls \cap {"nmi", "intr"} :
        /\ events' = [events EXCEPT ![v] = @ \cup {e}]
        /\ todo' = [todo EXCEPT ![t] = {v}]
    /\ Goto(t, "notify_one")
    /\ ret' = [ret EXCEPT ![t] = "user"]
    /\ UNCHANGED <<vstate, reqidle, ipi, vmVars, rdvVars, locals, sleeping>>

----------------------------------------------------------------------------
(* Notification loops: vm_suspend(), vm_suspend_cpu(), vm_handle_suspend() *)
(* and vm_smp_rendezvous() visit the vcpus one at a time.                  *)

NotifyPcs == {"notify_active", "notify_susp", "notify_dest", "notify_one"}

Notified(t) == CASE pc[t] = "notify_active" -> active
                 [] pc[t] = "notify_susp"   -> suspended
                 [] OTHER                   -> Vcpus

AfterNotify(t) == CASE pc[t] = "notify_susp" -> "unlock"
                    [] pc[t] = "notify_dest" -> "rendez"
                    [] OTHER                 -> Return(t)

NotifyNext(t) ==
    /\ pc[t] \in NotifyPcs
    /\ \E v \in Vcpus :
        /\ First(v, todo[t])
        /\ todo' = [todo EXCEPT ![t] = @ \ {v}]
        /\ IF v \in Notified(t) THEN NotifyLocked(v, t)
                                ELSE UNCHANGED <<ipi, sleeping>>
        /\ IF todo[t] = {v} THEN Goto(t, AfterNotify(t)) ELSE UNCHANGED pc
    /\ UNCHANGED <<vstate, reqidle, events, vmVars, rdvVars, locals, ret, budget>>

----------------------------------------------------------------------------
(* VM_RUN: entering and leaving the guest. vmx_run() injects events and    *)
(* then checks for suspension and the like; svm_vmrun() checks first.      *)

AfterDisable == IF Backend = "vmx" THEN "inject" ELSE "check"
AfterInject  == IF Backend = "vmx" THEN "check"  ELSE "guest"
AfterCheck   == IF Backend = "vmx" THEN "guest"  ELSE "inject"

\* vcpu_require_state(RUNNING) ahead of VMRUN().
Enter(v) ==
    /\ pc[v] = "enter"
    /\ SetState(v, "RUNNING")
    /\ Goto(v, "vmrun")
    /\ UNCHANGED <<reqidle, events, ipi, vmVars, rdvVars, locals, sleeping, todo,
                   ret, budget>>

\* Until disable_intr() the host takes an IPI without any effect on the vcpu;
\* from there to the guest it stays pending.
HostIpi(v) ==
    /\ pc[v] = "vmrun" /\ v \in ipi
    /\ ipi' = ipi \ {v}
    /\ UNCHANGED <<vstate, reqidle, events, vmVars, rdvVars, locals, pc, sleeping,
                   todo, ret, budget>>

DisableIntr(v) ==
    /\ pc[v] = "vmrun"
    /\ Goto(v, AfterDisable)
    /\ UNCHANGED <<vcpuVars, vmVars, rdvVars, locals, sleeping, todo, ret, budget>>

\* vmx_inject_interrupts() / svm_inj_interrupts(): some of the pending events
\* are delivered.
Inject(v) ==
    /\ pc[v] = "inject"
    /\ \E e \in SUBSET events[v] :
        events' = [events EXCEPT ![v] = @ \ e]
    /\ Goto(v, AfterInject)
    /\ UNCHANGED <<vstate, reqidle, ipi, vmVars, rdvVars, locals, sleeping, todo,
                   ret, budget>>

\* ... and vm_entry_intinfo() may find a triple fault and suspend the VM.
TripleFault(v) ==
    /\ pc[v] = "inject" /\ "triplefault" \in Exits
    /\ SuspendVm(v, AfterInject)
    /\ UNCHANGED <<vcpuVars, active, debug, suspended, halted, rdvVars, locals,
                   sleeping, budget>>

\* The checks with interrupts disabled, in the code's order, and the return
\* through vcpu_require_state(FROZEN) when one of them holds. The exits with
\* VM_EXITCODE_DEBUG and BOGUS go back to user space.
CheckExit(v) ==
    /\ pc[v] = "check"
    /\ \/ suspend /\ Goto(v, "suspend")
       \/ ~suspend /\ rfunc /\ Goto(v, "xrendez")
       \/ ~suspend /\ ~rfunc /\ v \in reqidle /\ Goto(v, "reqidle")
       \/ /\ ~suspend /\ ~rfunc /\ v \notin reqidle
          /\ v \in debug \/ "ast" \in Exits
          /\ Goto(v, "unlock")
    /\ SetState(v, "FROZEN")
    /\ ipi' = ipi \ {v}
    /\ UNCHANGED <<reqidle, events, vmVars, rdvVars, locals, sleeping, todo, ret,
                   budget>>

CheckPass(v) ==
    /\ pc[v] = "check"
    /\ ~suspend /\ ~rfunc /\ v \notin reqidle /\ v \notin debug
    /\ Goto(v, AfterCheck)
    /\ UNCHANGED <<vcpuVars, vmVars, rdvVars, locals, sleeping, todo, ret, budget>>

\* An exit that the VMRUN loop handles itself: the IPI of a notification, or
\* another exit that needs no help from vm_run().
HandledExit(v) ==
    /\ pc[v] = "guest"
    /\ v \in ipi \/ "handled" \in Exits
    /\ ipi' = ipi \ {v}
    /\ Goto(v, "vmrun")
    /\ UNCHANGED <<vstate, reqidle, events, vmVars, rdvVars, locals, sleeping,
                   todo, ret, budget>>

\* Exits the guest causes: to user space, HLT, or a write to an I/O APIC
\* redirection entry, whose handler samples the active vcpus before it
\* starts a rendezvous of them.
GuestExit(v) ==
    /\ pc[v] = "guest"
    /\ SetState(v, "FROZEN")
    /\ ipi' = ipi \ {v}
    /\ \/ "user" \in Exits /\ Goto(v, "unlock") /\ UNCHANGED <<hltmode, todo>>
       \/ /\ "hlt_on" \in Exits /\ Goto(v, "hlt") /\ UNCHANGED todo
          /\ hltmode' = [hltmode EXCEPT ![v] = "on"]
       \/ /\ "hlt_off" \in Exits /\ Goto(v, "hlt") /\ UNCHANGED todo
          /\ hltmode' = [hltmode EXCEPT ![v] = "off"]
       \/ /\ "ioapic" \in Exits /\ Goto(v, "rdvinit") /\ UNCHANGED hltmode
          /\ todo' = [todo EXCEPT ![v] = active]
    /\ UNCHANGED <<reqidle, events, vmVars, rdvVars, op, want, held, sleeping, ret,
                   budget>>

----------------------------------------------------------------------------
(* Exit handlers *)

\* vm_handle_reqidle()
HandleReqidle(v) ==
    /\ pc[v] = "reqidle"
    /\ reqidle' = reqidle \ {v}
    /\ Goto(v, "unlock")
    /\ UNCHANGED <<vstate, events, ipi, vmVars, rdvVars, locals, sleeping, todo, ret,
                   budget>>

\* Faulty variant for mutation: the wrong bit of suspended_cpus.
HandleSuspend_OffByOne(v) ==
    /\ pc[v] = "suspend"
    /\ suspended' = suspended \cup {v + 1}
    /\ Goto(v, "susploop")
    /\ UNCHANGED <<vcpuVars, active, debug, suspend, halted, rdvVars, locals,
                   sleeping, todo, ret, budget>>

\* vm_handle_suspend(): mark this vcpu suspended ...
HandleSuspend(v) ==
    /\ pc[v] = "suspend"
    /\ suspended' = suspended \cup {v}
    /\ Goto(v, "susploop")
    /\ UNCHANGED <<vcpuVars, active, debug, suspend, halted, rdvVars, locals,
                   sleeping, todo, ret, budget>>

AllSuspended == suspended = active

\* Faulty variant for mutation: the wait takes no part in a rendezvous.
SuspendLoop_NoRendezvous(v) ==
    /\ pc[v] = "susploop"
    /\ \/ /\ AllSuspended
          /\ Goto(v, "notify_susp")
          /\ todo' = [todo EXCEPT ![v] = Vcpus]
          /\ UNCHANGED <<vstate, sleeping>>
       \/ /\ ~AllSuspended
          /\ SetState(v, "SLEEPING")
          /\ sleeping' = sleeping \cup {v}
          /\ Goto(v, "suspsleep")
          /\ UNCHANGED todo
    /\ UNCHANGED <<reqidle, events, ipi, vmVars, rdvVars, locals, ret, budget>>

\* ... and wait for the others, taking part in any rendezvous meanwhile.
SuspendLoop(v) ==
    /\ pc[v] = "susploop"
    /\ \/ /\ AllSuspended
          /\ Goto(v, "notify_susp")
          /\ todo' = [todo EXCEPT ![v] = Vcpus]
          /\ UNCHANGED <<vstate, sleeping, ret>>
       \/ /\ ~AllSuspended /\ ~rfunc
          /\ SetState(v, "SLEEPING")
          /\ sleeping' = sleeping \cup {v}
          /\ Goto(v, "suspsleep")
          /\ UNCHANGED <<todo, ret>>
       \/ /\ ~AllSuspended /\ rfunc
          /\ CallRendezvous(v, "susploop")
          /\ UNCHANGED <<vstate, sleeping, todo>>
    /\ UNCHANGED <<reqidle, events, ipi, vmVars, rdvVars, locals, budget>>

SuspendWake(v) ==
    /\ pc[v] = "suspsleep" /\ v \notin sleeping
    /\ SetState(v, "FROZEN")
    /\ \/ Goto(v, "susploop") /\ UNCHANGED todo
       \/ /\ SuspChk
          /\ Goto(v, "notify_susp")
          /\ todo' = [todo EXCEPT ![v] = Vcpus]
    /\ UNCHANGED <<reqidle, events, ipi, vmVars, rdvVars, locals, sleeping, ret,
                   budget>>

\* vm_exit_rendezvous(): its KASSERT is evaluated here, after the check.
ExitRendezvous(v) ==
    /\ pc[v] = "xrendez"
    /\ CallRendezvous(v, "restart")
    /\ UNCHANGED <<vcpuVars, vmVars, rdvVars, locals, sleeping, todo, budget>>

\* One turn of the loop of vm_handle_rendezvous() under rendezvous_mtx.
HandleRendezvous(v) ==
    /\ pc[v] = "rendez"
    /\ IF ~rfunc
       THEN /\ Goto(v, Return(v))
            /\ UNCHANGED <<rfunc, req, done, due, sleeping>>
       ELSE LET targets == req \cap active
                calls   == v \in targets \ done
                done2   == IF calls THEN done \cup {v} ELSE done
            IN  /\ req' = targets
                /\ done' = done2
                /\ due' = IF calls THEN [w \in Vcpus |-> due[w] \ {v}] ELSE due
                /\ IF targets = done2
                   THEN /\ rfunc' = FALSE
                        /\ sleeping' = sleeping \ {w \in Vcpus : pc[w] = "rdvsleep"}
                        /\ Goto(v, Return(v))
                   ELSE /\ sleeping' = sleeping \cup {v}
                        /\ Goto(v, "rdvsleep")
                        /\ UNCHANGED rfunc
    /\ UNCHANGED <<vcpuVars, vmVars, locals, todo, ret, budget>>

\* After mtx_sleep(): loop, or return the error of thread_check_susp() to
\* the caller (vm_run returns it; the I/O APIC write ignores it).
RendezvousWake(v) ==
    /\ pc[v] = "rdvsleep" /\ v \notin sleeping
    /\ \/ Goto(v, "rendez") /\ UNCHANGED <<due, todo>>
       \/ /\ SuspChk /\ ret[v] = "restart"
          /\ Goto(v, "unlock") /\ UNCHANGED <<due, todo>>
       \/ /\ SuspChk /\ ret[v] = "susploop"
          /\ Goto(v, "notify_susp")
          /\ todo' = [todo EXCEPT ![v] = Vcpus]
          /\ UNCHANGED due
       \/ /\ SuspChk /\ ret[v] \in {"rdvinit", "enter"}
          /\ Goto(v, "enter")
          /\ due' = [due EXCEPT ![v] = {}]
          /\ todo' = [todo EXCEPT ![v] = {}]
    /\ UNCHANGED <<vcpuVars, vmVars, rfunc, req, done, locals, sleeping, ret, budget>>

\* Faulty variant for mutation: rendezvous_done_cpus is not cleared.
SmpRendezvous_StaleDone(v) ==
    /\ pc[v] = "rdvinit"
    /\ IF rfunc
       THEN /\ CallRendezvous(v, "rdvinit")
            /\ UNCHANGED rdvVars
       ELSE /\ rfunc' = TRUE
            /\ req' = todo[v]
            /\ due' = [due EXCEPT ![v] = todo[v]]
            /\ Goto(v, "notify_dest")
            /\ ret' = [ret EXCEPT ![v] = "enter"]
            /\ UNCHANGED done
    /\ UNCHANGED <<vcpuVars, vmVars, locals, sleeping, todo, budget>>

\* vm_smp_rendezvous() under rendezvous_mtx, for the sampled vcpus todo[v].
SmpRendezvous(v) ==
    /\ pc[v] = "rdvinit"
    /\ IF rfunc
       THEN /\ CallRendezvous(v, "rdvinit")
            /\ UNCHANGED rdvVars
       ELSE /\ rfunc' = TRUE
            /\ req' = todo[v]
            /\ done' = {}
            /\ due' = [due EXCEPT ![v] = todo[v]]
            /\ Goto(v, "notify_dest")
            /\ ret' = [ret EXCEPT ![v] = "enter"]
    /\ UNCHANGED <<vcpuVars, vmVars, locals, sleeping, todo, budget>>

\* Faulty variants for mutation: a debug stop, or an NMI, is not looked at.
HltWakeup_NoDebug(v) ==
    \/ rfunc \/ suspend \/ v \in reqidle \/ "nmi" \in events[v]
    \/ hltmode[v] = "on" /\ "intr" \in events[v]

HltWakeup_NoNmi(v) ==
    \/ rfunc \/ suspend \/ v \in reqidle \/ v \in debug
    \/ hltmode[v] = "on" /\ "intr" \in events[v]

\* The events that keep vm_handle_hlt() from sleeping.
HltWakeup(v) ==
    \/ rfunc \/ suspend \/ v \in reqidle \/ v \in debug
    \/ "nmi" \in events[v]
    \/ hltmode[v] = "on" /\ "intr" \in events[v]

\* Faulty variant for mutation: the halted bit is not cleared.
HltLeave_StillHalted(v, h, vcpu_halted) ==
    /\ halted' = h
    /\ hltmode' = [hltmode EXCEPT ![v] = "none"]

\* The way out of the loop of vm_handle_hlt(); h is halted_cpus, and
\* vcpu_halted says that this call has set its bit.
HltLeave(v, h, vcpu_halted) ==
    /\ halted' = IF vcpu_halted THEN h \ {v} ELSE h
    /\ hltmode' = [hltmode EXCEPT ![v] = "none"]

\* One turn of the loop of vm_handle_hlt() under the vcpu lock.
HandleHlt(v) ==
    /\ pc[v] = "hlt"
    /\ LET sets  == hltmode[v] \in {"off", "halted"} /\ ~HltWakeup(v)
           halt2 == IF sets THEN halted \cup {v} ELSE halted
       IN  \/ /\ HltWakeup(v) \/ "ast" \in Exits
              /\ HltLeave(v, halted, hltmode[v] = "halted")
              /\ Goto(v, "enter")
              /\ UNCHANGED <<suspend, vstate, sleeping, todo, ret>>
           \/ /\ sets /\ halt2 = active
              /\ HltLeave(v, halt2, TRUE)
              /\ SuspendVm(v, "enter")
              /\ UNCHANGED <<vstate, sleeping>>
           \/ /\ ~HltWakeup(v) /\ ~(sets /\ halt2 = active)
              /\ halted' = halt2
              /\ hltmode' = [hltmode EXCEPT ![v] = IF sets THEN "halted" ELSE @]
              /\ SetState(v, "SLEEPING")
              /\ sleeping' = sleeping \cup {v}
              /\ Goto(v, "hltsleep")
              /\ UNCHANGED <<suspend, todo, ret>>
    /\ UNCHANGED <<reqidle, events, ipi, active, debug, suspended, rdvVars, op, want,
                   held, budget>>

\* After msleep_spin(): loop, or return the error of thread_check_susp()
\* straight away.
HltWake(v) ==
    /\ pc[v] = "hltsleep" /\ v \notin sleeping
    /\ SetState(v, "FROZEN")
    /\ \/ Goto(v, "hlt") /\ UNCHANGED hltmode
       \/ /\ SuspChk
          /\ Goto(v, "unlock")
          /\ hltmode' = [hltmode EXCEPT ![v] = "none"]
    /\ UNCHANGED <<reqidle, events, ipi, vmVars, rdvVars, op, want, held, sleeping,
                   todo, ret, budget>>

\* Every sleep has a timeout of hz ticks.
Timeout(t) ==
    /\ t \in sleeping
    /\ sleeping' = sleeping \ {t}
    /\ UNCHANGED <<vcpuVars, vmVars, rdvVars, locals, pc, todo, ret, budget>>

----------------------------------------------------------------------------
(* Specification *)

\* The steps of thread t that neither user space nor the guest chooses.
KernelStep(t) ==
    \/ LockGrant(t) \/ LockRequest(t) \/ LockWake(t) \/ UnlockOne(t)
    \/ ActivateBody(t) \/ AccessBody(t) \/ ReinitBody(t) \/ NotifyNext(t)
    \/ Timeout(t)

VcpuStep(v) ==
    \/ RunBody(v) \/ Enter(v) \/ DisableIntr(v) \/ Inject(v)
    \/ CheckExit(v) \/ CheckPass(v) \/ HandleReqidle(v)
    \/ HandleSuspend(v) \/ SuspendLoop(v) \/ SuspendWake(v)
    \/ ExitRendezvous(v) \/ HandleRendezvous(v) \/ RendezvousWake(v)
    \/ SmpRendezvous(v) \/ HandleHlt(v) \/ HltWake(v)

UserStep(t) ==
    \/ LockedIoctl(t) \/ VmSuspend(t) \/ VmSuspendCpu(t) \/ VmResumeCpu(t)
    \/ InjectEvent(t)

GuestStep(v) == HandledExit(v) \/ GuestExit(v) \/ TripleFault(v) \/ HostIpi(v)

Next ==
    \/ \E t \in Threads : KernelStep(t) \/ UserStep(t)
    \/ \E v \in Vcpus : VcpuStep(v) \/ GuestStep(v) \/ VmRun(v)

\* Kernel threads are scheduled and an IPI is delivered; the guest need not
\* exit by itself, and no ioctl other than VM_RUN, which the vcpu thread of
\* bhyve loops over, need be issued.
Fairness ==
    /\ \A t \in Threads : WF_vars(KernelStep(t))
    /\ \A v \in Vcpus : WF_vars(VcpuStep(v)) /\ WF_vars(VmRun(v))
    /\ \A v \in Vcpus : WF_vars(v \in ipi /\ HandledExit(v))

Spec     == Init /\ [][Next]_vars
FairSpec == Spec /\ Fairness

\* The steps of a scenario whose threads issue no ioctl that freezes vcpus
\* and whose guest takes no triple fault. The constants disable the other
\* steps of Next, and what is fair is fair here as in FairSpec.
LiveNext ==
    \/ \E t \in Threads : \/ LockGrant(t) \/ UnlockOne(t) \/ NotifyNext(t) \/ Timeout(t)
                          \/ VmSuspend(t) \/ VmSuspendCpu(t) \/ VmResumeCpu(t) \/ InjectEvent(t)
    \/ \E v \in Vcpus : \/ RunBody(v) \/ Enter(v) \/ DisableIntr(v) \/ Inject(v)
                        \/ CheckExit(v) \/ CheckPass(v)
                        \/ HandleSuspend(v) \/ SuspendLoop(v) \/ SuspendWake(v)
                        \/ ExitRendezvous(v) \/ HandleRendezvous(v) \/ RendezvousWake(v)
                        \/ SmpRendezvous(v) \/ HandleHlt(v) \/ HltWake(v)
                        \/ HandledExit(v) \/ GuestExit(v) \/ HostIpi(v) \/ VmRun(v)

LiveSpec == Init /\ [][LiveNext]_vars /\ Fairness

----------------------------------------------------------------------------
(* Properties *)

\* "This guarantees that there is only a single ioctl() operating on a vcpu at
\* any point" (vcpu_set_state_locked): a vcpu is idle exactly when no thread
\* has frozen it, never has two owners, and its thread is inside VM_RUN only
\* as its owner.
SingleOwner ==
    /\ \A t, u \in Threads : t # u => held[t] \cap held[u] = {}
    /\ \A v \in Vcpus : vstate[v] = "IDLE" <=> \A t \in Threads : v \notin held[t]
    /\ \A v \in Vcpus : pc[v] \in RunPcs => v \in held[v]

\* "ioctls that operate on the entire virtual machine must prevent all vcpus
\* from running" (vmmdev_ioctl): while one executes, every vcpu is frozen and
\* no vcpu thread is anywhere inside VM_RUN.
WholeVmExclusive ==
    \A t \in Threads :
        pc[t] = "ioctl" /\ op[t] \in {"memmap", "reinit"} =>
            \A v \in Vcpus : vstate[v] = "FROZEN" /\ pc[v] \notin RunPcs

\* Thread t has a notification of vcpu v still to send.
Notifying(t, v) == pc[t] \in NotifyPcs /\ v \in todo[t] /\ v \in Notified(t)

\* v is a target of the rendezvous in progress that has not called the
\* function yet.
Awaited(v) == rfunc /\ v \in req \ done

\* "the vcpu thread is sleeping then it is woken up" (vcpu_notify_event): a
\* thread never stays asleep in vm_handle_hlt(), vm_handle_suspend() or
\* vm_handle_rendezvous() after its reason to wake up has come, relying on
\* the timeout of the sleep, unless the notification is on its way.
NoLostWakeup ==
    \A v \in Vcpus \cap sleeping :
        /\ pc[v] = "hltsleep" /\ (suspend \/ v \in reqidle \/ v \in debug
                                  \/ "nmi" \in events[v] \/ Awaited(v)
                                  \/ (hltmode[v] = "on" /\ "intr" \in events[v]))
            => \E t \in Threads : Notifying(t, v)
        /\ pc[v] = "suspsleep" /\ (AllSuspended \/ Awaited(v))
            => \E t \in Threads : Notifying(t, v) \/ pc[t] = "susploop"
        /\ pc[v] = "rdvsleep" => rfunc

\* "an IPI will be directed to the host_cpu to cause the vcpu to trap into the
\* hypervisor" (vcpu_notify_event): a vcpu never keeps executing guest code
\* with a suspension, a rendezvous, a reqidle or a debug stop pending, unless
\* an IPI for it is pending or about to be sent.
NoLostKick ==
    \A v \in Vcpus :
        pc[v] = "guest" /\ (suspend \/ v \in reqidle \/ v \in debug \/ Awaited(v))
            => v \in ipi \/ \E t \in Threads : Notifying(t, v)

\* vm_smp_rendezvous() returns to its initiator only after every vcpu it
\* sampled has called the function (unless the thread is being suspended).
RendezvousBarrier ==
    \A v \in Vcpus :
        due[v] # {} => pc[v] \in {"notify_dest", "rendez", "rdvsleep"}

\* A suspended vcpu never enters the guest again before vm_reinit().
SuspendedNeverRuns ==
    \A v \in suspended :
        pc[v] \notin {"enter", "vmrun", "inject", "check", "guest", "hlt"}

\* "When all vcpus enter the halted state the virtual machine is halted"
\* (vm_handle_hlt): halt detection suspends the VM only when every other
\* active vcpu is halted with interrupts disabled.
HaltsWhenAllHalted ==
    \A v \in Vcpus :
        pc[v] = "hlt" /\ pc'[v] = "notify_active" =>
            \A w \in active \ {v} : hltmode[w] = "halted"

\* KASSERT(!CPU_ISSET(vcpuid, &vm->halted_cpus), ("vcpu already halted")) at
\* the entry of vm_handle_hlt().
HaltedAssert == \A v \in halted : hltmode[v] \notin {"on", "off"}

\* KASSERT(vm->rendezvous_func != NULL, ("rendezvous not in progress")) in
\* vm_exit_rendezvous().
RendezvousAssert == \A v \in Vcpus : pc[v] = "xrendez" => rfunc

\* Every suspension is eventually acknowledged by all active vcpus.
SuspendCompletes == suspend ~> (AllSuspended \/ ~suspend)

\* "so they handle the rendezvous as soon as possible" (vm_smp_rendezvous):
\* every rendezvous completes.
RendezvousCompletes == rfunc ~> ~rfunc

\* A halted vcpu with a pending NMI leaves vm_handle_hlt() and goes back to
\* the guest: the NMI is not slept over.
HltWakesUp ==
    \A v \in Vcpus :
        (pc[v] = "hltsleep" /\ "nmi" \in events[v]) ~> pc[v] = "vmrun"
============================================================================
