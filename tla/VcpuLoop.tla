------------------------------ MODULE VcpuLoop ------------------------------
(* The vcpu threads of bhyve (bhyverun.c, spinup_ap.c) and the checkpoint      *)
(* thread (snapshot.c): an application processor is started by the boot        *)
(* processor, a checkpoint parks every thread, a suspended VM makes the        *)
(* threads leave one by one and the boot processor's exits last.               *)
EXTENDS Naturals, FiniteSets

CONSTANTS Aps,       \* application processors; the boot processor is 0
          MaxCkpts   \* checkpoint requests
BSP == 0
Vcpus == Aps \union {BSP}
VARIABLE sc

\* pc: where each thread is; active, debug, ksusp: the kernel's sets of activated,
\* stopped-by-the-monitor and suspended vcpus; cpumask: the monitor's own set.
\* vactive, vidle: vcpus_active and vcpus_suspended; canrun: woken waiters of
\* vcpus_can_run; ck: where the checkpoint thread is; waited: the pause waited.
Init ==
    sc = [pc |-> [v \in Vcpus |-> IF v = BSP THEN "born" ELSE "off"], active |-> {BSP}, cpumask |-> {BSP}, booting |-> BSP,
          debug |-> {}, susp |-> FALSE, ksusp |-> {}, vactive |-> {}, vidle |-> {}, ckact |-> FALSE, canrun |-> {},
          ck |-> "idle", idlewoken |-> FALSE, bspwoken |-> FALSE, raced |-> FALSE, exited |-> FALSE, n |-> 0]

Goto(s, v, l) == [s EXCEPT !.pc[v] = l]
Alive == ~sc.exited

----------------------------------------------------------------------------
(* Starting a vcpu.                                                         *)

\* fbsdrun_start_thread() and checkpoint_cpu_add().
CpuAdd(v) ==
    /\ Alive /\ sc.pc[v] = "born"
    /\ LET s == [sc EXCEPT !.vactive = @ \union {v}]
       IN sc' = IF sc.ckact THEN [Goto(s, v, "addwait") EXCEPT !.vidle = @ \union {v}] ELSE Goto(s, v, "run")
\* A waiter of vcpus_can_run looks again; it may find the next checkpoint.
CanRun(v) ==
    /\ Alive /\ v \in sc.canrun
    /\ LET s == [sc EXCEPT !.canrun = @ \ {v}]
       IN sc' = IF sc.ckact THEN s ELSE [Goto(s, v, "run") EXCEPT !.vidle = @ \ {v}]

\* The boot processor's SIPI exit: spinup_ap() prepares the new vcpu, then
\* fbsdrun_addcpu() activates it in the caller's context, enters it in the mask and
\* creates its thread.
SpinupAp(v) ==
    /\ Alive /\ sc.pc[BSP] = "guest" /\ sc.pc[v] = "off"
    /\ sc' = [Goto(sc, BSP, "spinup") EXCEPT !.booting = v]
Activate ==
    /\ Alive /\ sc.pc[BSP] = "spinup"
    /\ sc' = [Goto(sc, BSP, "addcpu") EXCEPT !.active = @ \union {sc.booting}]
AddCpu ==
    /\ Alive /\ sc.pc[BSP] = "addcpu"
    /\ sc' = [Goto(Goto(sc, BSP, "run"), sc.booting, "born") EXCEPT !.cpumask = @ \union {sc.booting}]

----------------------------------------------------------------------------
(* vm_loop(): what vm_run() returns, and the handlers.                      *)

\* A suspended VM is noticed before the debug request. vm_handle_suspend() waits in
\* the kernel for every active vcpu.
VmRun(v) ==
    /\ Alive /\ sc.pc[v] \in {"run", "guest"}
    /\ CASE sc.susp            -> sc' = [Goto(sc, v, "ksusp") EXCEPT !.ksusp = @ \union {v}]
         [] ~sc.susp /\ v \in sc.debug -> sc' = Goto(sc, v, "debug")
         [] OTHER              -> sc.pc[v] = "run" /\ sc' = Goto(sc, v, "guest")
\* A handler that suspends the VM (power off, reset, triple fault), then runs on.
\* The VM may be suspended while a checkpoint is being taken.
Suspend(v) ==
    /\ Alive /\ sc.pc[v] = "guest" /\ ~sc.susp
    /\ sc' = [Goto(sc, v, "run") EXCEPT !.susp = TRUE, !.raced = @ \/ sc.ckact]
Suspended(v) ==
    /\ Alive /\ sc.pc[v] = "ksusp" /\ sc.ksusp = sc.active
    /\ sc' = Goto(sc, v, "delete")

\* vmexit_debug(): checkpoint_cpu_suspend(), then checkpoint_cpu_resume().
CpuSuspend(v) ==
    /\ Alive /\ sc.pc[v] = "debug"
    /\ LET s == [Goto(sc, v, "idle") EXCEPT !.vidle = @ \union {v}]
       IN sc' = [s EXCEPT !.idlewoken = @ \/ (sc.ck = "wait" /\ sc.ckact /\ s.vactive = s.vidle)]
CpuResume(v) ==
    /\ Alive /\ sc.pc[v] = "idle"
    /\ sc' = IF sc.ckact THEN Goto(sc, v, "parked") ELSE [Goto(sc, v, "run") EXCEPT !.vidle = @ \ {v}]

\* vmexit_suspend(): every thread leaves the mask; an application processor signals
\* and ends, the boot processor waits for an empty mask and ends the process.
DeleteCpu(v) ==
    /\ Alive /\ sc.pc[v] = "delete"
    /\ sc' = [Goto(sc, v, IF v = BSP THEN "check" ELSE "signal") EXCEPT !.cpumask = @ \ {v}]
Signal(v) ==
    /\ Alive /\ v # BSP /\ sc.pc[v] = "signal"
    /\ sc' = [Goto(sc, v, "gone") EXCEPT !.bspwoken = @ \/ sc.pc[BSP] = "reset"]
ResetCheck ==
    /\ Alive /\ (sc.pc[BSP] = "check" \/ sc.bspwoken)
    /\ sc' = IF sc.cpumask = {} THEN [Goto(sc, BSP, "exit") EXCEPT !.exited = TRUE, !.bspwoken = FALSE]
             ELSE [Goto(sc, BSP, "reset") EXCEPT !.bspwoken = FALSE]

----------------------------------------------------------------------------
(* vm_checkpoint() in the checkpoint thread.                                *)

\* The files are opened first; a failure goes straight to the resume.
Request(opened) ==
    /\ Alive /\ sc.ck = "idle" /\ sc.n < MaxCkpts
    /\ sc' = [sc EXCEPT !.n = @ + 1, !.ck = IF opened THEN "pause" ELSE "resume"]
\* vm_vcpu_pause(): under one hold of the lock up to the wait.
VcpuPause ==
    /\ Alive /\ sc.ck = "pause"
    /\ sc' = [sc EXCEPT !.ckact = TRUE, !.debug = sc.active, !.raced = @ \/ sc.susp,
                        !.ck = IF sc.vactive = sc.vidle THEN "save" ELSE "wait"]
PauseWoken ==
    /\ Alive /\ sc.ck = "wait" /\ sc.idlewoken
    /\ sc' = [sc EXCEPT !.idlewoken = FALSE, !.ck = IF sc.vactive = sc.vidle THEN "save" ELSE "wait"]
\* Devices, memory and state are saved, or one of them fails; the VM may then end.
Save(stop) ==
    /\ Alive /\ sc.ck = "save"
    /\ sc' = IF stop THEN [sc EXCEPT !.exited = TRUE, !.ck = "stopped"] ELSE [sc EXCEPT !.ck = "resume"]
\* vm_vcpu_resume(): the flag under the lock, the kernel, then the broadcast.
ResumeFlag ==
    /\ Alive /\ sc.ck = "resume"
    /\ sc' = [sc EXCEPT !.ckact = FALSE, !.ck = "kernel"]
ResumeKernel ==
    /\ Alive /\ sc.ck = "kernel"
    /\ sc' = [sc EXCEPT !.debug = {}, !.ck = "broadcast"]
Waiters == {v \in Vcpus : sc.pc[v] \in {"addwait", "parked"}}
Broadcast ==
    /\ Alive /\ sc.ck = "broadcast"
    /\ sc' = [sc EXCEPT !.canrun = Waiters, !.ck = "idle"]

Vcpu(v) ==
    \/ CpuAdd(v) \/ CanRun(v) \/ VmRun(v) \/ Suspend(v) \/ Suspended(v) \/ CpuSuspend(v) \/ CpuResume(v)
    \/ DeleteCpu(v) \/ Signal(v)
Boot == (\E v \in Aps : SpinupAp(v)) \/ Activate \/ AddCpu \/ ResetCheck
Checkpoint ==
    \/ \E opened \in BOOLEAN : Request(opened)
    \/ VcpuPause \/ PauseWoken \/ ResumeFlag \/ ResumeKernel \/ Broadcast
    \/ \E stop \in BOOLEAN : Save(stop)
Next == (\E v \in Vcpus : Vcpu(v)) \/ Boot \/ Checkpoint

----------------------------------------------------------------------------
TypeOK ==
    /\ sc.pc \in [Vcpus -> {"off", "born", "addwait", "run", "guest", "spinup", "addcpu", "debug", "idle", "parked",
                            "ksusp", "delete", "signal", "check", "reset", "gone", "exit"}]
    /\ sc.vidle \subseteq sc.vactive /\ sc.vactive \subseteq Vcpus /\ sc.canrun \subseteq Vcpus

\* While the checkpoint is saved no vcpu executes and no handler runs on behalf of
\* one, not even of a vcpu started after the request.
SavedIsStill ==
    sc.ck \in {"save", "stopped"} => \A v \in Vcpus : sc.pc[v] \in {"off", "born", "addwait", "idle", "parked"}
\* A thread waits for the end of a checkpoint only while one is in progress or its
\* broadcast is still to come.
ParkedIsWoken ==
    \A v \in Waiters : v \in sc.canrun \/ sc.ck \in {"wait", "save", "stopped", "resume", "kernel", "broadcast"}
\* The pause does not sleep through the last vcpu's report: somebody is still to
\* come. A VM suspended meanwhile is excepted: its vcpus wait in the kernel for the
\* parked ones.
PauseIsWoken == (Alive /\ sc.ck = "wait" /\ ~sc.idlewoken /\ ~sc.raced) => sc.vactive # sc.vidle
PauseHasHope ==
    (Alive /\ sc.ck = "wait" /\ ~sc.raced) =>
        \E v \in sc.vactive : sc.pc[v] \in {"run", "guest", "spinup", "addcpu", "debug"} \/ sc.idlewoken
\* The boot processor waits only for threads that will still signal it, and ends the
\* process only when every thread has left vm_loop().
ExitIsReached == (sc.pc[BSP] = "reset" /\ ~sc.bspwoken) => \E v \in Aps : sc.pc[v] \notin {"off", "gone"}
ExitsLast == sc.pc[BSP] = "exit" => \A v \in Aps : sc.pc[v] \in {"off", "signal", "gone"}
\* vm_loop() asserts that its vcpu is active; vm_suspend() waits for all of them.
LoopAsserts == \A v \in Vcpus : sc.pc[v] # "off" => v \in sc.active
=============================================================================
