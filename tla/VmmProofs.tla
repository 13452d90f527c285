----------------------------- MODULE VmmProofs -----------------------------
(***************************************************************************)
(* Proofs about Vmm for every number of vcpus, every set of other threads  *)
(* and every choice of ioctls and exits.                                   *)
(***************************************************************************)
EXTENDS Vmm, TLAPS

USE DEF Goto, SetState

LEMMA TypeInit == Init => TypeOK
<1> SUFFICES ASSUME Init PROVE TypeOK
  OBVIOUS
<1>1. active \subseteq Vcpus /\ budget \in 0 .. Budget
  BY ConstantsAssumption DEF ConstantsAssumption, Init
<1>2. pc \in [Threads -> Pcs] /\ ret \in [Threads -> Rets]
  BY DEF Init, Pcs, Rets
<1>3. vstate \in [Vcpus -> VStates]
  BY DEF Init, VStates
<1>4. op \in [Threads -> IoctlNames \cup {"run", "none"}]
  BY DEF Init
<1> QED
  BY <1>1, <1>2, <1>3, <1>4 DEF Init, TypeOK

LEMMA TypeVars == TypeOK /\ UNCHANGED vars => TypeOK'
BY DEF TypeOK, vars, vcpuVars, vmVars, rdvVars, locals

LEMMA TypeKernel ==
    ASSUME TypeOK, NEW t \in Threads, KernelStep(t)
    PROVE  TypeOK'
<1> USE DEF vcpuVars, vmVars, rdvVars, locals, VStates, Pcs, RunPcs, Rets
<1>1. CASE LockGrant(t)
  BY <1>1 DEF LockGrant, TypeOK
<1>2. CASE LockRequest(t)
  BY <1>2 DEF LockRequest, TypeOK, Threads
<1>3. CASE LockWake(t)
  BY <1>3 DEF LockWake, TypeOK
<1>4. CASE UnlockOne(t)
  BY <1>4 DEF UnlockOne, TypeOK
<1>5. CASE ActivateBody(t)
  BY <1>5 DEF ActivateBody, TypeOK
<1>6. CASE AccessBody(t)
  BY <1>6 DEF AccessBody, TypeOK
<1>7. CASE ReinitBody(t)
  BY <1>7 DEF ReinitBody, TypeOK
<1>8. CASE NotifyNext(t)
  BY <1>8 DEF NotifyNext, TypeOK, NotifyLocked, AfterNotify, Return
<1>9. CASE Timeout(t)
  BY <1>9 DEF Timeout, TypeOK
<1> QED
  BY <1>1, <1>2, <1>3, <1>4, <1>5, <1>6, <1>7, <1>8, <1>9 DEF KernelStep

LEMMA BudgetStep ==
    ASSUME TypeOK, budget > 0, budget' = budget - 1
    PROVE  budget' \in 0 .. Budget
BY ConstantsAssumption DEF ConstantsAssumption, TypeOK

LEMMA TypeUser ==
    ASSUME TypeOK, NEW t \in Threads, UserStep(t)
    PROVE  TypeOK'
<1> USE DEF vcpuVars, vmVars, rdvVars, locals, VStates, Pcs, RunPcs, Rets
<1>1. CASE LockedIoctl(t)
  BY <1>1, BudgetStep DEF LockedIoctl, TypeOK, BeginLocked, IoctlNames
<1>2. CASE VmSuspend(t)
  BY <1>2, BudgetStep DEF VmSuspend, TypeOK, SuspendVm
<1>3. CASE VmSuspendCpu(t)
  BY <1>3, BudgetStep DEF VmSuspendCpu, TypeOK
<1>4. CASE VmResumeCpu(t)
  BY <1>4 DEF VmResumeCpu, TypeOK
<1>5. CASE InjectEvent(t)
  BY <1>5, BudgetStep DEF InjectEvent, TypeOK
<1> QED
  BY <1>1, <1>2, <1>3, <1>4, <1>5 DEF UserStep

LEMMA TypeVcpu ==
    ASSUME TypeOK, NEW v \in Vcpus, VcpuStep(v)
    PROVE  TypeOK'
<1> USE DEF vcpuVars, vmVars, rdvVars, locals, VStates, Pcs, RunPcs, Rets
<1>0. v \in Threads
  BY DEF Threads
<1>1. CASE RunBody(v)
  BY <1>0, <1>1 DEF RunBody, TypeOK
<1>2. CASE Enter(v)
  BY <1>0, <1>2 DEF Enter, TypeOK
<1>3. CASE DisableIntr(v)
  BY <1>0, <1>3 DEF DisableIntr, TypeOK, AfterDisable
<1>4. CASE Inject(v)
  BY <1>0, <1>4 DEF Inject, TypeOK, AfterInject
<1>5. CASE CheckExit(v)
  BY <1>0, <1>5 DEF CheckExit, TypeOK
<1>6. CASE CheckPass(v)
  BY <1>0, <1>6 DEF CheckPass, TypeOK, AfterCheck
<1>7. CASE HandleReqidle(v)
  BY <1>0, <1>7 DEF HandleReqidle, TypeOK
<1>8. CASE HandleSuspend(v)
  BY <1>0, <1>8 DEF HandleSuspend, TypeOK
<1>9. CASE SuspendLoop(v)
  BY <1>0, <1>9 DEF SuspendLoop, TypeOK, CallRendezvous
<1>10. CASE SuspendWake(v)
  BY <1>0, <1>10 DEF SuspendWake, TypeOK
<1>11. CASE ExitRendezvous(v)
  BY <1>0, <1>11 DEF ExitRendezvous, TypeOK, CallRendezvous
<1>12. CASE HandleRendezvous(v)
  <2>1. CASE ~rfunc
    BY <1>0, <1>12, <2>1 DEF HandleRendezvous, TypeOK, Return
  <2>2. CASE rfunc
    <3>1. due' \in [Vcpus -> SUBSET Vcpus] /\ req' \subseteq Vcpus /\ done' \subseteq Vcpus
      BY <1>12, <2>2 DEF HandleRendezvous, TypeOK
    <3>2. pc' \in [Threads -> Pcs]
      BY <1>0, <1>12, <2>2 DEF HandleRendezvous, TypeOK, Return
    <3>3. sleeping' \subseteq Threads /\ rfunc' \in BOOLEAN
      BY <1>0, <1>12, <2>2 DEF HandleRendezvous, TypeOK
    <3> QED
      BY <1>12, <2>2, <3>1, <3>2, <3>3 DEF HandleRendezvous, TypeOK
  <2> QED
    BY <2>1, <2>2 DEF TypeOK
<1>13. CASE RendezvousWake(v)
  BY <1>0, <1>13 DEF RendezvousWake, TypeOK
<1>14. CASE SmpRendezvous(v)
  <2>1. CASE rfunc
    BY <1>0, <1>14, <2>1 DEF SmpRendezvous, TypeOK, CallRendezvous
  <2>2. CASE ~rfunc
    BY <1>0, <1>14, <2>2 DEF SmpRendezvous, TypeOK
  <2> QED
    BY <2>1, <2>2
<1>15. CASE HandleHlt(v)
  <2>1. halted' \subseteq Vcpus
    BY <1>15 DEF HandleHlt, TypeOK, HltLeave
  <2>2. hltmode' \in [Vcpus -> {"none", "on", "off", "halted"}]
    BY <1>15 DEF HandleHlt, TypeOK, HltLeave
  <2>3. vstate' \in [Vcpus -> VStates] /\ sleeping' \subseteq Threads
    BY <1>0, <1>15 DEF HandleHlt, TypeOK
  <2>4. pc' \in [Threads -> Pcs]
    <3>1. \/ \E p \in {"enter", "hltsleep"} : pc' = [pc EXCEPT ![v] = p]
          \/ SuspendVm(v, "enter")
      BY <1>15 DEF HandleHlt, Goto
    <3> QED
      BY <1>0, <3>1 DEF TypeOK, SuspendVm, Goto, Pcs
  <2>5. todo' \in [Threads -> SUBSET Vcpus] /\ ret' \in [Threads -> Rets]
        /\ suspend' \in BOOLEAN
    BY <1>0, <1>15 DEF HandleHlt, TypeOK, SuspendVm
  <2> QED
    BY <1>15, <2>1, <2>2, <2>3, <2>4, <2>5 DEF HandleHlt, TypeOK
<1>16. CASE HltWake(v)
  BY <1>0, <1>16 DEF HltWake, TypeOK
<1> QED
  BY <1>1, <1>2, <1>3, <1>4, <1>5, <1>6, <1>7, <1>8, <1>9, <1>10, <1>11, <1>12, <1>13, <1>14, <1>15, <1>16 DEF VcpuStep

LEMMA TypeGuest ==
    ASSUME TypeOK, NEW v \in Vcpus, GuestStep(v) \/ VmRun(v)
    PROVE  TypeOK'
<1> USE DEF vcpuVars, vmVars, rdvVars, locals, VStates, Pcs, RunPcs, Rets
<1>0. v \in Threads
  BY DEF Threads
<1>1. CASE HandledExit(v)
  BY <1>0, <1>1 DEF HandledExit, TypeOK
<1>2. CASE GuestExit(v)
  BY <1>0, <1>2 DEF GuestExit, TypeOK
<1>3. CASE TripleFault(v)
  BY <1>0, <1>3 DEF TripleFault, TypeOK, SuspendVm, AfterInject
<1>4. CASE HostIpi(v)
  BY <1>0, <1>4 DEF HostIpi, TypeOK
<1>5. CASE VmRun(v)
  BY <1>0, <1>5 DEF VmRun, TypeOK, BeginLocked
<1> QED
  BY <1>1, <1>2, <1>3, <1>4, <1>5 DEF GuestStep

\* The state of vmm.c and vmm_dev.c keeps its types through every ioctl, exit
\* handler and notification, for any number of vcpus and threads.
THEOREM TypeCorrect == Spec => []TypeOK
<1>1. TypeOK /\ [Next]_vars => TypeOK'
  BY TypeVars, TypeKernel, TypeUser, TypeVcpu, TypeGuest DEF Next
<1> QED
  BY TypeInit, <1>1, PTL DEF Spec

----------------------------------------------------------------------------
(* Ownership of vcpus. SingleOwner is not inductive: that a thread inside  *)
(* VM_RUN owns its vcpu depends on what the ioctl layer froze for it and   *)
(* on the return addresses of the notification loops.                      *)

\* The points at which a vcpu thread relies on owning its vcpu: inside VM_RUN,
\* in a notification loop that returns there, and about to run vm_run().
Inside(v) ==
    \/ pc[v] \in RunPcs
    \/ pc[v] \in {"notify_active", "notify_one"} /\ ret[v] # "user"
    \/ pc[v] = "ioctl" /\ op[v] = "run"

Disjoint    == \A t, u \in Threads : t # u => held[t] \cap held[u] = {}
IdleIffFree == \A v \in Vcpus :
                   vstate[v] = "IDLE" <=> \A t \in Threads : v \notin held[t]
RunnerOwns  == \A v \in Vcpus : Inside(v) => v \in held[v]

\* What an ioctl has frozen and has still to freeze covers what it needs.
LockCovers ==
    /\ \A v \in Vcpus : pc[v] \in {"lock", "locksleep"} /\ op[v] = "run" =>
           v \in want[v] \cup held[v]
    /\ \A t \in Threads :
           /\ pc[t] \in {"lock", "locksleep"} /\ op[t] \in {"memmap", "reinit"} =>
                  want[t] \cup held[t] = Vcpus
           /\ pc[t] = "ioctl" /\ op[t] \in {"memmap", "reinit"} =>
                  held[t] = Vcpus

\* A vcpu is RUNNING or SLEEPING only while its own thread is.
Matches(v) ==
    /\ vstate[v] = "RUNNING" =>
           \/ pc[v] \in {"vmrun", "inject", "check", "guest"}
           \/ pc[v] = "notify_active" /\ ret[v] \in {"check", "guest"}
    /\ vstate[v] = "SLEEPING" => pc[v] \in {"hltsleep", "suspsleep"}

StateMatchesPc == \A v \in Vcpus : Matches(v)

OwnerInv == TypeOK /\ Disjoint /\ IdleIffFree /\ RunnerOwns /\ LockCovers
            /\ StateMatchesPc

\* A step that changes only what belongs to thread t.
Local(t) ==
    /\ \A u \in Threads \ {t} : pc'[u] = pc[u] /\ ret'[u] = ret[u]
    /\ \A w \in Vcpus \ {t} : vstate'[w] = vstate[w]

\* A step outside the ioctl layer's locking preserves the ownership invariant
\* if the thread that takes it stays consistent with its own vcpu.
LEMMA LocalStep ==
    ASSUME OwnerInv, TypeOK', NEW t \in Threads, Local(t),
           UNCHANGED <<op, want, held>>,
           pc'[t] \notin {"lock", "locksleep", "ioctl"},
           t \in Vcpus => /\ Inside(t)' => t \in held[t]
                          /\ vstate'[t] = "IDLE" <=> vstate[t] = "IDLE"
                          /\ Matches(t)'
    PROVE  OwnerInv'
<1>0. \A v \in Vcpus : v \in Threads
  BY DEF Threads
<1>1. Disjoint'
  BY DEF OwnerInv, Disjoint
<1>2. IdleIffFree'
  BY DEF OwnerInv, IdleIffFree, Local
<1>3. RunnerOwns'
  BY <1>0 DEF OwnerInv, RunnerOwns, Local, Inside
<1>4. LockCovers'
  BY <1>0 DEF OwnerInv, LockCovers, Local
<1>5. StateMatchesPc'
  BY <1>0 DEF OwnerInv, StateMatchesPc, Matches, Local
<1> QED
  BY <1>1, <1>2, <1>3, <1>4, <1>5 DEF OwnerInv

\* A step that changes nothing the invariant reads.
LEMMA QuietStep ==
    ASSUME OwnerInv, TypeOK', UNCHANGED <<pc, ret, vstate, op, want, held>>
    PROVE  OwnerInv'
BY DEF OwnerInv, Disjoint, IdleIffFree, RunnerOwns, Inside, LockCovers,
       StateMatchesPc, Matches

LEMMA OwnerInit == Init => OwnerInv
<1> SUFFICES ASSUME Init PROVE OwnerInv
  OBVIOUS
<1>1. \A v \in Vcpus : v \in Threads
  BY DEF Threads
<1>2. Disjoint /\ IdleIffFree
  BY <1>1 DEF Init, Disjoint, IdleIffFree
<1>3. RunnerOwns /\ LockCovers /\ StateMatchesPc
  BY <1>1 DEF Init, RunnerOwns, Inside, RunPcs, LockCovers, StateMatchesPc, Matches
<1> QED
  BY <1>2, <1>3, TypeInit DEF OwnerInv

\* The vcpu thread of a vcpu that it owns is not idle.
LEMMA OwnedNotIdle ==
    ASSUME OwnerInv, NEW v \in Vcpus, Inside(v)
    PROVE  v \in held[v] /\ vstate[v] # "IDLE" /\ v \in Threads
BY DEF OwnerInv, RunnerOwns, IdleIffFree, Threads

LEMMA InsideStep ==
    ASSUME OwnerInv, TypeOK', NEW v \in Vcpus, Inside(v), Local(v),
           UNCHANGED <<op, want, held>>,
           pc'[v] \notin {"lock", "locksleep", "ioctl"},
           vstate[v] # "IDLE" => vstate'[v] # "IDLE" /\ Matches(v)'
    PROVE  OwnerInv'
BY LocalStep, OwnedNotIdle

\* The steps of a vcpu thread inside VM_RUN: it owns its vcpu before, and
\* keeps it frozen, running or asleep.
LEMMA OwnerVcpu ==
    ASSUME OwnerInv, TypeOK', NEW v \in Vcpus, VcpuStep(v) \/ GuestStep(v)
    PROVE  OwnerInv'
<1> USE DEF vcpuVars, vmVars, rdvVars, locals, RunPcs, Rets
<1>0. v \in Threads /\ TypeOK /\ Matches(v)
  BY DEF Threads, OwnerInv, StateMatchesPc
<1>1. CASE RunBody(v)
  BY <1>0, <1>1, InsideStep
     DEF RunBody, Inside, Local, Matches, TypeOK
<1>2. CASE Enter(v)
  BY <1>0, <1>2, InsideStep
     DEF Enter, Inside, Local, Matches, TypeOK
<1>3. CASE DisableIntr(v)
  BY <1>0, <1>3, InsideStep
     DEF DisableIntr, Inside, Local, Matches, TypeOK, AfterDisable
<1>4. CASE Inject(v)
  BY <1>0, <1>4, InsideStep
     DEF Inject, Inside, Local, Matches, TypeOK, AfterInject
<1>5. CASE CheckExit(v)
  BY <1>0, <1>5, InsideStep
     DEF CheckExit, Inside, Local, Matches, TypeOK
<1>6. CASE CheckPass(v)
  BY <1>0, <1>6, InsideStep
     DEF CheckPass, Inside, Local, Matches, TypeOK, AfterCheck
<1>7. CASE HandleReqidle(v)
  BY <1>0, <1>7, InsideStep
     DEF HandleReqidle, Inside, Local, Matches, TypeOK
<1>8. CASE HandleSuspend(v)
  BY <1>0, <1>8, InsideStep
     DEF HandleSuspend, Inside, Local, Matches, TypeOK
<1>9. CASE SuspendLoop(v)
  BY <1>0, <1>9, InsideStep
     DEF SuspendLoop, Inside, Local, Matches, TypeOK, CallRendezvous
<1>10. CASE SuspendWake(v)
  BY <1>0, <1>10, InsideStep
     DEF SuspendWake, Inside, Local, Matches, TypeOK
<1>11. CASE ExitRendezvous(v)
  BY <1>0, <1>11, InsideStep
     DEF ExitRendezvous, Inside, Local, Matches, TypeOK, CallRendezvous
<1>12. CASE HandleRendezvous(v)
  BY <1>0, <1>12, InsideStep
     DEF HandleRendezvous, Inside, Local, Matches, TypeOK, Return
<1>13. CASE RendezvousWake(v)
  BY <1>0, <1>13, InsideStep
     DEF RendezvousWake, Inside, Local, Matches, TypeOK
<1>14. CASE SmpRendezvous(v)
  BY <1>0, <1>14, InsideStep
     DEF SmpRendezvous, Inside, Local, Matches, TypeOK, CallRendezvous
<1>15. CASE HandleHlt(v)
  BY <1>0, <1>15, InsideStep
     DEF HandleHlt, Inside, Local, Matches, TypeOK, HltLeave, SuspendVm
<1>16. CASE HltWake(v)
  BY <1>0, <1>16, InsideStep
     DEF HltWake, Inside, Local, Matches, TypeOK
<1>17. CASE HandledExit(v)
  BY <1>0, <1>17, InsideStep
     DEF HandledExit, Inside, Local, Matches, TypeOK
<1>18. CASE GuestExit(v)
  BY <1>0, <1>18, InsideStep
     DEF GuestExit, Inside, Local, Matches, TypeOK
<1>19. CASE TripleFault(v)
  BY <1>0, <1>19, InsideStep
     DEF TripleFault, Inside, Local, Matches, TypeOK, SuspendVm, AfterInject
<1>20. CASE HostIpi(v)
  BY <1>20, QuietStep DEF HostIpi
<1> QED
  BY <1>1, <1>2, <1>3, <1>4, <1>5, <1>6, <1>7, <1>8, <1>9, <1>10, <1>11, <1>12, <1>13, <1>14, <1>15, <1>16, <1>17, <1>18, <1>19, <1>20 DEF VcpuStep, GuestStep
\* Freezing a vcpu: it was idle, so nobody owned it.
LEMMA OwnerGrant ==
    ASSUME OwnerInv, TypeOK', NEW t \in Threads, LockGrant(t)
    PROVE  OwnerInv'
<1> USE DEF vmVars, rdvVars
<1>0. TypeOK /\ \A v \in Vcpus : v \in Threads
  BY DEF OwnerInv, Threads
<1> PICK v \in Vcpus :
        /\ First(v, want[t]) /\ vstate[v] = "IDLE"
        /\ vstate' = [vstate EXCEPT ![v] = "FROZEN"]
        /\ held' = [held EXCEPT ![t] = @ \cup {v}]
        /\ want' = [want EXCEPT ![t] = @ \ {v}]
        /\ pc' = [pc EXCEPT ![t] = IF want[t] = {v} THEN "ioctl" ELSE "lock"]
  BY DEF LockGrant, MayFreeze
<1>1. \A u \in Threads : v \notin held[u]
  BY DEF OwnerInv, IdleIffFree
<1>2. pc[t] = "lock" /\ op' = op /\ ret' = ret
  BY DEF LockGrant
<1>3. Disjoint'
  BY <1>0, <1>1 DEF OwnerInv, Disjoint, TypeOK
<1>4. IdleIffFree'
  BY <1>0, <1>1 DEF OwnerInv, IdleIffFree, TypeOK
<1>5. RunnerOwns'
  BY <1>0, <1>2 DEF OwnerInv, RunnerOwns, LockCovers, Inside, TypeOK, RunPcs
<1>6. LockCovers'
  BY <1>0, <1>2 DEF OwnerInv, LockCovers, TypeOK
<1>7. StateMatchesPc'
  BY <1>0, <1>2 DEF OwnerInv, StateMatchesPc, Matches, TypeOK
<1> QED
  BY <1>3, <1>4, <1>5, <1>6, <1>7 DEF OwnerInv

\* Letting go of a vcpu: no other thread owned it, and its own thread is not
\* inside VM_RUN unless it is the one that lets go.
LEMMA OwnerUnlock ==
    ASSUME OwnerInv, TypeOK', NEW t \in Threads, UnlockOne(t)
    PROVE  OwnerInv'
<1> USE DEF vmVars, rdvVars
<1>0. TypeOK /\ \A v \in Vcpus : v \in Threads
  BY DEF OwnerInv, Threads
<1> PICK v \in Vcpus :
        /\ v \in held[t]
        /\ vstate' = [vstate EXCEPT ![v] = "IDLE"]
        /\ held' = [held EXCEPT ![t] = @ \ {v}]
        /\ pc' = [pc EXCEPT ![t] = IF held[t] = {v} THEN "user" ELSE "unlock"]
  BY DEF UnlockOne, First
<1>1. \A u \in Threads \ {t} : v \notin held[u]
  BY DEF OwnerInv, Disjoint
<1>2. pc[t] = "unlock" /\ op' = op /\ want' = want /\ ret' = ret
  BY DEF UnlockOne
<1>3. Disjoint'
  BY <1>0 DEF OwnerInv, Disjoint, TypeOK
<1>4. IdleIffFree'
  BY <1>0, <1>1 DEF OwnerInv, IdleIffFree, TypeOK
<1>5. RunnerOwns'
  BY <1>0, <1>1, <1>2 DEF OwnerInv, RunnerOwns, Inside, TypeOK, RunPcs
<1>6. LockCovers'
  BY <1>0, <1>1, <1>2 DEF OwnerInv, LockCovers, TypeOK
<1>7. StateMatchesPc'
  BY <1>0, <1>2 DEF OwnerInv, StateMatchesPc, Matches, TypeOK
<1> QED
  BY <1>3, <1>4, <1>5, <1>6, <1>7 DEF OwnerInv

\* Asking for a vcpu and waking up to ask again.
LEMMA OwnerWait ==
    ASSUME OwnerInv, TypeOK', NEW t \in Threads, LockRequest(t) \/ LockWake(t)
    PROVE  OwnerInv'
<1> USE DEF vcpuVars, vmVars, rdvVars, locals
<1>0. TypeOK /\ \A v \in Vcpus : v \in Threads
  BY DEF OwnerInv, Threads
<1>1. /\ UNCHANGED <<vstate, op, want, held, ret>>
      /\ pc[t] \in {"lock", "locksleep"}
      /\ \E p \in {"lock", "locksleep"} : pc' = [pc EXCEPT ![t] = p]
  BY DEF LockRequest, LockWake
<1>2. Disjoint' /\ IdleIffFree'
  BY <1>1 DEF OwnerInv, Disjoint, IdleIffFree
<1>3. RunnerOwns'
  BY <1>0, <1>1 DEF OwnerInv, RunnerOwns, Inside, TypeOK, RunPcs
<1>4. LockCovers'
  BY <1>0, <1>1 DEF OwnerInv, LockCovers, TypeOK
<1>5. StateMatchesPc'
  BY <1>0, <1>1 DEF OwnerInv, StateMatchesPc, Matches, TypeOK
<1> QED
  BY <1>2, <1>3, <1>4, <1>5 DEF OwnerInv

\* The start of an ioctl that freezes vcpus.
LEMMA OwnerBegin ==
    ASSUME OwnerInv, TypeOK', NEW t \in Threads, NEW o, NEW S,
           BeginLocked(t, o, S),
           o = "run" => t \in S,
           o \in {"memmap", "reinit"} => S = Vcpus
    PROVE  OwnerInv'
<1> USE DEF vcpuVars, vmVars, rdvVars
<1>0. TypeOK /\ \A v \in Vcpus : v \in Threads
  BY DEF OwnerInv, Threads
<1>1. /\ pc[t] = "user" /\ UNCHANGED <<vstate, held, ret>>
      /\ pc' = [pc EXCEPT ![t] = "lock"]
      /\ op' = [op EXCEPT ![t] = o] /\ want' = [want EXCEPT ![t] = S]
  BY DEF BeginLocked
<1>2. Disjoint' /\ IdleIffFree'
  BY <1>1 DEF OwnerInv, Disjoint, IdleIffFree
<1>3. RunnerOwns'
  BY <1>0, <1>1 DEF OwnerInv, RunnerOwns, Inside, TypeOK, RunPcs
<1>4. LockCovers'
  BY <1>0, <1>1 DEF OwnerInv, LockCovers, TypeOK
<1>5. StateMatchesPc'
  BY <1>0, <1>1 DEF OwnerInv, StateMatchesPc, Matches, TypeOK
<1> QED
  BY <1>2, <1>3, <1>4, <1>5 DEF OwnerInv
\* A notification loop leaves the vcpus' states alone and returns to where it
\* was called from.
LEMMA OwnerNotify ==
    ASSUME OwnerInv, TypeOK', NEW t \in Threads, NotifyNext(t)
    PROVE  OwnerInv'
<1> USE DEF vmVars, rdvVars, locals, NotifyPcs
<1>0. TypeOK
  BY DEF OwnerInv
<1>1. UNCHANGED <<vstate, ret, op, want, held>> /\ pc[t] \in NotifyPcs
  BY DEF NotifyNext
<1>2. CASE pc' = pc
  BY <1>1, <1>2, QuietStep
<1>3. CASE pc' = [pc EXCEPT ![t] = AfterNotify(t)]
  <2>1. Local(t) /\ pc'[t] = AfterNotify(t)
    BY <1>0, <1>1, <1>3 DEF Local, TypeOK
  <2>2. AfterNotify(t) \notin {"lock", "locksleep", "ioctl"}
    BY <1>0, <1>1 DEF AfterNotify, Return, TypeOK, Rets
  <2>3. ASSUME t \in Vcpus
        PROVE  (Inside(t)' => t \in held[t]) /\ Matches(t)'
    <3>1. Matches(t) /\ (Inside(t) => t \in held[t])
      BY <2>3 DEF OwnerInv, StateMatchesPc, RunnerOwns
    <3>2. Inside(t)' => Inside(t)
      BY <1>1, <2>1 DEF Inside, RunPcs, AfterNotify, Return
    <3>3. Matches(t)'
      BY <1>1, <2>1, <3>1 DEF Matches, AfterNotify, Return
    <3> QED
      BY <3>1, <3>2, <3>3
  <2> QED
    BY <1>1, <2>1, <2>2, <2>3, LocalStep
<1> QED
  BY <1>2, <1>3 DEF NotifyNext

LEMMA OwnerKernel ==
    ASSUME OwnerInv, TypeOK', NEW t \in Threads, KernelStep(t)
    PROVE  OwnerInv'
<1> USE DEF vcpuVars, vmVars, rdvVars, locals
<1>0. TypeOK /\ (t \in Vcpus => Matches(t))
  BY DEF OwnerInv, StateMatchesPc
<1>1. CASE ActivateBody(t)
  BY <1>0, <1>1, LocalStep
     DEF ActivateBody, Inside, RunPcs, Local, Matches, TypeOK
<1>2. CASE AccessBody(t)
  BY <1>0, <1>2, LocalStep
     DEF AccessBody, Inside, RunPcs, Local, Matches, TypeOK
<1>3. CASE ReinitBody(t)
  BY <1>0, <1>3, LocalStep
     DEF ReinitBody, Inside, RunPcs, Local, Matches, TypeOK
<1>4. CASE Timeout(t)
  BY <1>4, QuietStep DEF Timeout
<1> QED
  BY <1>1, <1>2, <1>3, <1>4, OwnerGrant, OwnerUnlock, OwnerWait, OwnerNotify
     DEF KernelStep

LEMMA OwnerUser ==
    ASSUME OwnerInv, TypeOK', NEW t \in Threads, UserStep(t)
    PROVE  OwnerInv'
<1> USE DEF vcpuVars, vmVars, rdvVars, locals
<1>0. TypeOK /\ (t \in Vcpus => Matches(t))
  BY DEF OwnerInv, StateMatchesPc
<1>1. CASE LockedIoctl(t)
  BY <1>1, OwnerBegin DEF LockedIoctl
<1>2. CASE VmSuspend(t)
  BY <1>0, <1>2, LocalStep
     DEF VmSuspend, SuspendVm, Inside, RunPcs, Local, Matches, TypeOK
<1>3. CASE VmSuspendCpu(t)
  BY <1>0, <1>3, LocalStep
     DEF VmSuspendCpu, Inside, RunPcs, Local, Matches, TypeOK
<1>4. CASE VmResumeCpu(t)
  BY <1>4, QuietStep DEF VmResumeCpu
<1>5. CASE InjectEvent(t)
  BY <1>0, <1>5, LocalStep
     DEF InjectEvent, Inside, RunPcs, Local, Matches, TypeOK
<1> QED
  BY <1>1, <1>2, <1>3, <1>4, <1>5 DEF UserStep

LEMMA OwnerNext == OwnerInv /\ [Next]_vars => OwnerInv'
<1> SUFFICES ASSUME OwnerInv, [Next]_vars PROVE OwnerInv'
  OBVIOUS
<1>1. TypeOK'
  BY TypeVars, TypeKernel, TypeUser, TypeVcpu, TypeGuest DEF Next, OwnerInv
<1>2. CASE UNCHANGED vars
  BY <1>1, <1>2, QuietStep DEF vars, vcpuVars, locals
<1>3. ASSUME NEW t \in Threads, KernelStep(t) \/ UserStep(t) PROVE OwnerInv'
  BY <1>1, <1>3, OwnerKernel, OwnerUser
<1>4. ASSUME NEW v \in Vcpus, VcpuStep(v) \/ GuestStep(v) PROVE OwnerInv'
  BY <1>1, <1>4, OwnerVcpu
<1>5. ASSUME NEW v \in Vcpus, VmRun(v) PROVE OwnerInv'
  <2>1. v \in Threads /\ BeginLocked(v, "run", {v})
    BY <1>5 DEF VmRun, Threads
  <2> QED
    BY <1>1, <2>1, OwnerBegin
<1> QED
  BY <1>2, <1>3, <1>4, <1>5 DEF Next

LEMMA OwnerAlways == Spec => []OwnerInv
BY OwnerInit, OwnerNext, PTL DEF Spec

\* "only a single ioctl() operating on a vcpu at any point"
\* (vcpu_set_state_locked), for any number of vcpus and threads.
THEOREM SingleOwnerAlways == Spec => []SingleOwner
<1>1. OwnerInv => SingleOwner
  BY DEF OwnerInv, Disjoint, IdleIffFree, RunnerOwns, Inside, SingleOwner
<1> QED
  BY <1>1, OwnerAlways, PTL

\* "ioctls that operate on the entire virtual machine must prevent all vcpus
\* from running" (vmmdev_ioctl), for any number of vcpus and threads.
THEOREM WholeVmExclusiveAlways == Spec => []WholeVmExclusive
<1>1. OwnerInv => WholeVmExclusive
  <2> SUFFICES ASSUME OwnerInv, NEW t \in Threads, NEW v \in Vcpus,
                      pc[t] = "ioctl", op[t] \in {"memmap", "reinit"}
               PROVE  vstate[v] = "FROZEN" /\ pc[v] \notin RunPcs
    BY DEF WholeVmExclusive
  <2>1. v \in held[t] /\ v \in Threads
    BY DEF OwnerInv, LockCovers, Threads
  <2>2. vstate[v] \in VStates /\ vstate[v] # "IDLE" /\ Matches(v)
    BY <2>1 DEF OwnerInv, TypeOK, IdleIffFree, StateMatchesPc
  <2>3. ~Inside(v)
    BY <2>1 DEF OwnerInv, RunnerOwns, Disjoint, Inside, RunPcs
  <2> QED
    BY <2>2, <2>3 DEF Matches, Inside, RunPcs, VStates
<1> QED
  BY <1>1, OwnerAlways, PTL
----------------------------------------------------------------------------
(* The rendezvous barrier. What an initiator is owed stays among the       *)
(* targets that have not called the function, as long as the vcpus it      *)
(* sampled stay active, which the exclusiveness of vm_reinit() guarantees. *)

\* v has sampled its targets and has not started the rendezvous yet.
Sampled(v) ==
    \/ pc[v] = "rdvinit"
    \/ pc[v] \in {"rendez", "rdvsleep"} /\ ret[v] = "rdvinit"

Waits(v) == pc[v] \in {"notify_dest", "rendez", "rdvsleep"} /\ ret[v] = "enter"

Owed(v) == due[v] # {} => /\ rfunc /\ Waits(v)
                          /\ due[v] \subseteq (req \ done) \cap active

\* The return addresses a notification loop may have.
Returns(v) ==
    /\ pc[v] \in {"notify_active", "notify_one"} =>
           ret[v] \in {"user", "enter", "check", "guest"}
    /\ pc[v] = "notify_dest" => ret[v] = "enter"

RdvInv == /\ OwnerInv
          /\ \A v \in Vcpus : Returns(v)
          /\ \A v \in Vcpus : Owed(v)
          /\ \A v \in Vcpus : Sampled(v) => todo[v] \subseteq active

\* A step of a thread that is neither waiting for a rendezvous nor changing
\* one.
LEMMA RdvLocal ==
    ASSUME RdvInv, OwnerInv', NEW t \in Threads, UNCHANGED rdvVars,
           active \subseteq active',
           \A v \in Vcpus \ {t} : pc'[v] = pc[v] /\ ret'[v] = ret[v] /\ todo'[v] = todo[v],
           t \in Vcpus => /\ pc[t] \notin {"notify_dest", "rendez", "rdvsleep"}
                          /\ Sampled(t)' => todo'[t] \subseteq active'
                          /\ Returns(t)'
    PROVE  RdvInv'
<1>1. \A v \in Vcpus : Owed(v)'
  BY DEF RdvInv, Owed, Waits, rdvVars
<1>2. \A v \in Vcpus : Sampled(v)' => todo'[v] \subseteq active'
  BY DEF RdvInv, Sampled
<1>3. \A v \in Vcpus : Returns(v)'
  BY DEF RdvInv, Returns
<1> QED
  BY <1>1, <1>2, <1>3 DEF RdvInv

LEMMA RdvQuiet ==
    ASSUME RdvInv, OwnerInv', UNCHANGED <<rdvVars, active, pc, ret, todo>>
    PROVE  RdvInv'
BY DEF RdvInv, Owed, Waits, Sampled, Returns, rdvVars

LEMMA RdvKernel ==
    ASSUME RdvInv, OwnerInv', NEW t \in Threads, KernelStep(t),
           ~NotifyNext(t), ~ReinitBody(t)
    PROVE  RdvInv'
<1> USE DEF vcpuVars, vmVars, locals, Sampled, Returns
<1>0. TypeOK /\ t \in Threads /\ \A w \in Vcpus : w \in Threads
  BY DEF RdvInv, OwnerInv, Threads
<1>1. CASE ActivateBody(t)
  BY <1>0, <1>1, RdvLocal DEF ActivateBody, TypeOK
<1>2. CASE AccessBody(t)
  BY <1>0, <1>2, RdvLocal DEF AccessBody, TypeOK
<1>3. CASE LockGrant(t)
  BY <1>0, <1>3, RdvLocal DEF LockGrant, TypeOK
<1>4. CASE LockRequest(t)
  BY <1>0, <1>4, RdvLocal DEF LockRequest, TypeOK
<1>5. CASE LockWake(t)
  BY <1>0, <1>5, RdvLocal DEF LockWake, TypeOK
<1>6. CASE UnlockOne(t)
  BY <1>0, <1>6, RdvLocal DEF UnlockOne, TypeOK
<1>7. CASE Timeout(t)
  BY <1>7, RdvQuiet DEF Timeout
<1> QED
  BY <1>1, <1>2, <1>3, <1>4, <1>5, <1>6, <1>7 DEF KernelStep

LEMMA RdvUser ==
    ASSUME RdvInv, OwnerInv', NEW t \in Threads, UserStep(t)
    PROVE  RdvInv'
<1> USE DEF vcpuVars, vmVars, locals, Sampled, Returns
<1>0. TypeOK /\ t \in Threads /\ \A w \in Vcpus : w \in Threads
  BY DEF RdvInv, OwnerInv, Threads
<1>1. CASE LockedIoctl(t)
  BY <1>0, <1>1, RdvLocal DEF LockedIoctl, TypeOK, BeginLocked
<1>2. CASE VmSuspend(t)
  BY <1>0, <1>2, RdvLocal DEF VmSuspend, TypeOK, SuspendVm
<1>3. CASE VmSuspendCpu(t)
  BY <1>0, <1>3, RdvLocal DEF VmSuspendCpu, TypeOK
<1>4. CASE InjectEvent(t)
  BY <1>0, <1>4, RdvLocal DEF InjectEvent, TypeOK
<1>5. CASE VmResumeCpu(t)
  BY <1>5, RdvQuiet DEF VmResumeCpu
<1> QED
  BY <1>1, <1>2, <1>3, <1>4, <1>5 DEF UserStep

LEMMA RdvVcpu ==
    ASSUME RdvInv, OwnerInv', NEW v \in Vcpus, VcpuStep(v) \/ GuestStep(v) \/ VmRun(v),
           ~HandleRendezvous(v), ~RendezvousWake(v), ~SmpRendezvous(v)
    PROVE  RdvInv'
<1> USE DEF vcpuVars, vmVars, locals, Sampled, Returns
<1>0. TypeOK /\ v \in Threads /\ \A w \in Vcpus : w \in Threads
  BY DEF RdvInv, OwnerInv, Threads
<1>1. CASE RunBody(v)
  BY <1>0, <1>1, RdvLocal DEF RunBody, TypeOK
<1>2. CASE Enter(v)
  BY <1>0, <1>2, RdvLocal DEF Enter, TypeOK
<1>3. CASE DisableIntr(v)
  BY <1>0, <1>3, RdvLocal DEF DisableIntr, TypeOK, AfterDisable
<1>4. CASE Inject(v)
  BY <1>0, <1>4, RdvLocal DEF Inject, TypeOK, AfterInject
<1>5. CASE CheckExit(v)
  BY <1>0, <1>5, RdvLocal DEF CheckExit, TypeOK
<1>6. CASE CheckPass(v)
  BY <1>0, <1>6, RdvLocal DEF CheckPass, TypeOK, AfterCheck
<1>7. CASE HandleReqidle(v)
  BY <1>0, <1>7, RdvLocal DEF HandleReqidle, TypeOK
<1>8. CASE HandleSuspend(v)
  BY <1>0, <1>8, RdvLocal DEF HandleSuspend, TypeOK
<1>9. CASE SuspendLoop(v)
  BY <1>0, <1>9, RdvLocal DEF SuspendLoop, TypeOK, CallRendezvous
<1>10. CASE SuspendWake(v)
  BY <1>0, <1>10, RdvLocal DEF SuspendWake, TypeOK
<1>11. CASE ExitRendezvous(v)
  BY <1>0, <1>11, RdvLocal DEF ExitRendezvous, TypeOK, CallRendezvous
<1>12. CASE HandleHlt(v)
  BY <1>0, <1>12, RdvLocal DEF HandleHlt, TypeOK, HltLeave, SuspendVm
<1>13. CASE HltWake(v)
  BY <1>0, <1>13, RdvLocal DEF HltWake, TypeOK
<1>14. CASE HandledExit(v)
  BY <1>0, <1>14, RdvLocal DEF HandledExit, TypeOK
<1>15. CASE GuestExit(v)
  BY <1>0, <1>15, RdvLocal DEF GuestExit, TypeOK
<1>16. CASE TripleFault(v)
  BY <1>0, <1>16, RdvLocal DEF TripleFault, TypeOK, SuspendVm, AfterInject
<1>17. CASE VmRun(v)
  BY <1>0, <1>17, RdvLocal DEF VmRun, TypeOK, BeginLocked
<1>18. CASE HostIpi(v)
  BY <1>18, RdvQuiet DEF HostIpi
<1> QED
  BY <1>1, <1>2, <1>3, <1>4, <1>5, <1>6, <1>7, <1>8, <1>9, <1>10, <1>11, <1>12, <1>13, <1>14, <1>15, <1>16, <1>17, <1>18 DEF VcpuStep, GuestStep

\* vm_reinit() empties active_cpus; it runs with every vcpu frozen, so no
\* vcpu thread is waiting for, or about to start, a rendezvous.
LEMMA RdvReinit ==
    ASSUME RdvInv, OwnerInv', NEW t \in Threads, ReinitBody(t)
    PROVE  RdvInv'
<1> USE DEF locals
<1>1. TypeOK /\ OwnerInv /\ pc[t] = "ioctl" /\ held[t] = Vcpus
  BY DEF RdvInv, OwnerInv, LockCovers, ReinitBody
<1>2. \A v \in Vcpus : v \in Threads
  BY DEF Threads
<1>3. \A v \in Vcpus : ~Sampled(v) /\ ~Waits(v)
  BY <1>1, <1>2
     DEF OwnerInv, RunnerOwns, Disjoint, Inside, RunPcs, Sampled, Waits
<1>4. pc' = [pc EXCEPT ![t] = "unlock"] /\ ret' = ret /\ rfunc' = rfunc /\ due' = due
  BY DEF ReinitBody, rdvVars
<1>5. \A v \in Vcpus : ~Sampled(v)' /\ due'[v] = {}
  BY <1>1, <1>2, <1>3, <1>4 DEF RdvInv, Owed, Sampled, TypeOK
<1>6. \A v \in Vcpus : Returns(v)'
  BY <1>1, <1>2, <1>4 DEF RdvInv, Returns, TypeOK
<1> QED
  BY <1>5, <1>6 DEF RdvInv, Owed

LEMMA RdvNotify ==
    ASSUME RdvInv, OwnerInv', NEW t \in Threads, NotifyNext(t)
    PROVE  RdvInv'
<1>0. TypeOK /\ t \in Threads /\ \A v \in Vcpus : v \in Threads
  BY DEF RdvInv, OwnerInv, Threads
<1>1. /\ UNCHANGED <<ret, rdvVars, active>> /\ pc[t] \in NotifyPcs
      /\ pc' = pc \/ pc' = [pc EXCEPT ![t] = AfterNotify(t)]
      /\ \E S : todo' = [todo EXCEPT ![t] = S]
  BY DEF NotifyNext, vmVars, rdvVars
<1>2. \A v \in Vcpus : Waits(v) => Waits(v)'
  BY <1>0, <1>1 DEF Waits, AfterNotify, TypeOK, NotifyPcs
<1>3. \A v \in Vcpus : Owed(v)'
  BY <1>1, <1>2 DEF RdvInv, Owed, rdvVars
<1>4. \A v \in Vcpus : Sampled(v)' => todo'[v] \subseteq active'
  <2> SUFFICES ASSUME NEW v \in Vcpus, Sampled(v)' PROVE todo'[v] \subseteq active'
    OBVIOUS
  <2>1. CASE v = t
    BY <1>0, <1>1, <2>1
       DEF RdvInv, Returns, Sampled, AfterNotify, Return, NotifyPcs, TypeOK
  <2>2. CASE v # t
    BY <1>0, <1>1, <2>2 DEF RdvInv, Sampled, TypeOK
  <2> QED
    BY <2>1, <2>2
<1>5. \A v \in Vcpus : Returns(v)'
  BY <1>0, <1>1
     DEF RdvInv, Returns, AfterNotify, Return, NotifyPcs, TypeOK
<1> QED
  BY <1>3, <1>4, <1>5 DEF RdvInv

\* One turn of vm_handle_rendezvous(): a target that calls the function is
\* struck off what every initiator is owed, and the rendezvous ends only when
\* nothing is owed any more.
LEMMA RdvHandle ==
    ASSUME RdvInv, OwnerInv', NEW v \in Vcpus, HandleRendezvous(v)
    PROVE  RdvInv'
<1> USE DEF vmVars
<1>0. TypeOK /\ \A w \in Vcpus : w \in Threads
  BY DEF RdvInv, OwnerInv, Threads
<1>1. /\ UNCHANGED <<ret, todo, active>> /\ pc[v] = "rendez"
      /\ pc' = [pc EXCEPT ![v] = Return(v)] \/ pc' = [pc EXCEPT ![v] = "rdvsleep"]
  BY DEF HandleRendezvous
<1>2. \A w \in Vcpus : Sampled(w)' => todo'[w] \subseteq active'
  BY <1>0, <1>1 DEF RdvInv, Sampled, Return, TypeOK
<1>3. \A w \in Vcpus : Returns(w)'
  BY <1>0, <1>1 DEF RdvInv, Returns, Return, TypeOK, Rets
<1>4. CASE ~rfunc
  <2>1. \A w \in Vcpus : due'[w] = {}
    BY <1>4 DEF HandleRendezvous, RdvInv, Owed
  <2> QED
    BY <1>2, <1>3, <2>1 DEF RdvInv, Owed
<1>5. CASE rfunc
  <2> DEFINE targets == req \cap active
             calls   == v \in targets \ done
             done2   == IF calls THEN done \cup {v} ELSE done
  <2>1. /\ req' = targets /\ done' = done2
        /\ due' = IF calls THEN [w \in Vcpus |-> due[w] \ {v}] ELSE due
        /\ targets # done2 => rfunc' = rfunc /\ pc' = [pc EXCEPT ![v] = "rdvsleep"]
    BY <1>5 DEF HandleRendezvous
  <2>2. \A w \in Vcpus : due'[w] \subseteq due[w] /\ due'[w] \subseteq targets \ done2
    BY <2>1 DEF RdvInv, Owed
  <2>3. CASE targets = done2
    BY <1>2, <1>3, <2>2, <2>3 DEF RdvInv, Owed
  <2>4. CASE targets # done2
    <3>1. \A w \in Vcpus : Waits(w) => Waits(w)'
      BY <1>0, <1>1, <2>1, <2>4 DEF Waits, TypeOK
    <3>2. \A w \in Vcpus : Owed(w)'
      BY <1>1, <1>5, <2>1, <2>2, <2>4, <3>1 DEF RdvInv, Owed
    <3> QED
      BY <1>2, <1>3, <3>2 DEF RdvInv
  <2> QED
    BY <2>3, <2>4
<1> QED
  BY <1>4, <1>5

LEMMA RdvWake ==
    ASSUME RdvInv, OwnerInv', NEW v \in Vcpus, RendezvousWake(v)
    PROVE  RdvInv'
<1> USE DEF vmVars
<1>0. TypeOK /\ \A w \in Vcpus : w \in Threads
  BY DEF RdvInv, OwnerInv, Threads
<1>1. UNCHANGED <<ret, active, rfunc, req, done>> /\ pc[v] = "rdvsleep"
  BY DEF RendezvousWake
<1>2. \A w \in Vcpus : Returns(w)'
  BY <1>0 DEF RendezvousWake, RdvInv, Returns, TypeOK
<1>3. \A w \in Vcpus : Sampled(w)' => todo'[w] \subseteq active'
  BY <1>0 DEF RendezvousWake, RdvInv, Sampled, TypeOK
<1>4. \A w \in Vcpus : Owed(w)'
  BY <1>0 DEF RendezvousWake, RdvInv, Owed, Waits, TypeOK
<1> QED
  BY <1>2, <1>3, <1>4 DEF RdvInv

\* A new rendezvous: with none in progress nobody is owed anything.
LEMMA RdvStart ==
    ASSUME RdvInv, OwnerInv', NEW v \in Vcpus, SmpRendezvous(v)
    PROVE  RdvInv'
<1> USE DEF vmVars
<1>0. TypeOK /\ \A w \in Vcpus : w \in Threads
  BY DEF RdvInv, OwnerInv, Threads
<1>1. UNCHANGED <<todo, active>> /\ pc[v] = "rdvinit" /\ todo[v] \subseteq active
  BY DEF SmpRendezvous, RdvInv, Sampled
<1>2. CASE rfunc
  BY <1>0, <1>1, <1>2
     DEF SmpRendezvous, CallRendezvous, RdvInv, Owed, Waits, Sampled, Returns,
         TypeOK, rdvVars
<1>3. CASE ~rfunc
  <2>1. \A w \in Vcpus : due[w] = {}
    BY <1>3 DEF RdvInv, Owed
  <2>2. \A w \in Vcpus : Owed(w)'
    BY <1>0, <1>1, <1>3, <2>1 DEF SmpRendezvous, Owed, Waits, TypeOK
  <2>3. \A w \in Vcpus : Returns(w)' /\ (Sampled(w)' => todo'[w] \subseteq active')
    BY <1>0, <1>1, <1>3 DEF SmpRendezvous, RdvInv, Returns, Sampled, TypeOK
  <2> QED
    BY <2>2, <2>3 DEF RdvInv
<1> QED
  BY <1>2, <1>3

\* vm_smp_rendezvous() does not return to its caller while a vcpu it sampled
\* has not called the function, for any number of vcpus, concurrent
\* initiators, activations, suspensions and resets.
THEOREM RendezvousBarrierAlways == Spec => []RendezvousBarrier
<1>1. Init => RdvInv
  <2> SUFFICES ASSUME Init PROVE RdvInv
    OBVIOUS
  <2>1. OwnerInv /\ \A v \in Vcpus : v \in Threads
    BY OwnerInit DEF Threads
  <2> QED
    BY <2>1 DEF Init, RdvInv, Owed, Sampled, Returns
<1>2. RdvInv /\ [Next]_vars => RdvInv'
  <2> SUFFICES ASSUME RdvInv, [Next]_vars PROVE RdvInv'
    OBVIOUS
  <2>1. OwnerInv'
    BY OwnerNext DEF RdvInv
  <2>2. CASE UNCHANGED vars
    BY <2>1, <2>2, RdvQuiet DEF vars, vmVars, rdvVars
  <2>3. ASSUME NEW t \in Threads, KernelStep(t) \/ UserStep(t) PROVE RdvInv'
    BY <2>1, <2>3, RdvKernel, RdvNotify, RdvReinit, RdvUser
  <2>4. ASSUME NEW v \in Vcpus, VcpuStep(v) \/ GuestStep(v) \/ VmRun(v) PROVE RdvInv'
    BY <2>1, <2>4, RdvVcpu, RdvHandle, RdvWake, RdvStart
  <2> QED
    BY <2>2, <2>3, <2>4 DEF Next
<1>3. RdvInv => RendezvousBarrier
  BY DEF RdvInv, Owed, Waits, RendezvousBarrier
<1> QED
  BY <1>1, <1>2, <1>3, PTL DEF Spec

----------------------------------------------------------------------------
(* Events: a suspended vcpu stays out of the guest, no running vcpu misses  *)
(* its IPI and no sleeping one its wakeup, and halt detection is exact.     *)
(* These proofs build on the ownership invariant above.                     *)

USE DEF AfterInject

(* Where a vcpu thread may be. Everything said of v depends on v's own     *)
(* thread and vcpu only, so other threads' steps preserve it.              *)

\* The return addresses of the notification and rendezvous subroutines.
ReturnsHome(v) ==
    /\ pc[v] \in {"rendez", "rdvsleep"} => ret[v] \in {"restart", "susploop", "rdvinit", "enter"}
    /\ pc[v] = "notify_dest" => ret[v] = "enter"
    /\ pc[v] = "notify_one" => ret[v] = "user"
    /\ pc[v] = "notify_active" =>
           \/ ret[v] \in {"user", "enter"}
           \/ ret[v] = AfterInject /\ "triplefault" \in Exits

\* Inside VM_RUN proper.
Runs(v) == \/ pc[v] \in RunPcs
           \/ pc[v] = "notify_active" /\ ret[v] # "user"

\* The state the thread has given its vcpu: what the notifier looks at.
ShowsState(v) ==
    /\ \/ pc[v] \in {"vmrun", "inject", "check", "guest"}
       \/ pc[v] = "notify_active" /\ ret[v] = AfterInject
       => vstate[v] = "RUNNING"
    /\ pc[v] \in {"hltsleep", "suspsleep"} => vstate[v] = "SLEEPING"

\* In vm_handle_suspend() after it has set the bit of suspended_cpus.
InSuspend(v) == \/ pc[v] \in {"susploop", "suspsleep", "notify_susp"}
                \/ pc[v] \in {"rendez", "rdvsleep"} /\ ret[v] = "susploop"

Place(v) ==
    /\ ReturnsHome(v) /\ ShowsState(v)
    /\ Runs(v) => v \in active
    /\ InSuspend(v) => v \in suspended
    /\ v \in suspended => v \in active /\ (Runs(v) => InSuspend(v))

PlaceInv == OwnerInv /\ \A v \in Vcpus : Place(v)

\* The order of the checks and the injection leaves no way past the checks for
\* a vcpu that suspends the VM itself. (svm_vmrun() checks before it injects.)
ChecksLast == Backend = "vmx" \/ "triplefault" \notin Exits

\* v has passed the checks and no IPI will bring it back.
Committed(v) ==
    /\ pc[v] = "guest" \/ (pc[v] = "inject" /\ Backend = "svm")
    /\ v \notin ipi /\ ChecksLast

Asleep(v, p) == pc[v] = p /\ v \in sleeping

Deaf(v) == Committed(v) \/ Asleep(v, "hltsleep")

\* The reasons to stop a vcpu, and those that only end a HLT.
Stop(v)  == suspend \/ v \in reqidle \/ v \in debug \/ Awaited(v)
Event(v) == "nmi" \in events[v] \/ (hltmode[v] = "on" /\ "intr" \in events[v])

Told(v) == \E t \in Threads : Notifying(t, v)

Heard(v) ==
    /\ Deaf(v) /\ Stop(v) => Told(v)
    /\ Asleep(v, "hltsleep") /\ Event(v) => Told(v)
    /\ Asleep(v, "suspsleep") =>
           /\ AllSuspended => Told(v) \/ \E t \in Threads : pc[t] = "susploop"
           /\ Awaited(v) => Told(v)
    /\ Asleep(v, "rdvsleep") => rfunc

EventInv == PlaceInv /\ \A v \in Vcpus : Heard(v)

\* The locals of vm_handle_hlt() and halted_cpus agree.
HaltInv ==
    /\ \A v \in Vcpus : hltmode[v] # "none" => pc[v] \in {"hlt", "hltsleep"}
    /\ \A v \in halted : hltmode[v] = "halted"

----------------------------------------------------------------------------
(* PlaceInv is inductive *)

LEMMA PlaceInit == Init => PlaceInv
<1> SUFFICES ASSUME Init PROVE PlaceInv
  OBVIOUS
<1>1. OwnerInv /\ \A v \in Vcpus : v \in Threads
  BY OwnerInit DEF Threads
<1> QED
  BY <1>1 DEF Init, PlaceInv, Place, ReturnsHome, ShowsState, Runs, RunPcs, InSuspend

\* A step of thread t leaves the place of every other vcpu alone.
Own(t) ==
    /\ \A v \in Vcpus \ {t} :
          /\ pc'[v] = pc[v] /\ ret'[v] = ret[v]
          /\ Inside(v) => vstate'[v] = vstate[v]
          /\ v \in suspended' <=> v \in suspended
    /\ active \subseteq active'

LEMMA PlaceOwn ==
    ASSUME PlaceInv, OwnerInv', NEW t \in Threads, Own(t), t \in Vcpus => Place(t)'
    PROVE  PlaceInv'
<1> SUFFICES ASSUME NEW v \in Vcpus PROVE Place(v)'
  BY DEF PlaceInv
<1> SUFFICES ASSUME v # t PROVE Place(v)'
  OBVIOUS
<1>1. Place(v) /\ pc'[v] = pc[v] /\ ret'[v] = ret[v]
  BY DEF PlaceInv, Own
<1>2. ReturnsHome(v)'
  BY <1>1 DEF Place, ReturnsHome
<1>3. ShowsState(v)'
  <2>1. CASE Inside(v)
    BY <1>1, <2>1 DEF Own, Place, ShowsState
  <2>2. CASE ~Inside(v)
    BY <1>1, <2>2 DEF ShowsState, Inside, RunPcs
  <2> QED
    BY <2>1, <2>2
<1> QED
  BY <1>1, <1>2, <1>3 DEF Own, Place, Runs, InSuspend

\* vm_run() and what it calls change the state of their own vcpu only.
LEMMA OwnVcpu ==
    ASSUME TypeOK, NEW v \in Vcpus, VcpuStep(v) \/ GuestStep(v) \/ VmRun(v)
    PROVE  Own(v)
<1> USE DEF vcpuVars, vmVars, rdvVars, locals, Own
<1>0. v \in Threads /\ \A w \in Vcpus : w \in Threads
  BY DEF Threads
<1>1. CASE RunBody(v)
  BY <1>0, <1>1 DEF RunBody, Runnable, TypeOK
<1>2. CASE Enter(v)
  BY <1>0, <1>2 DEF Enter, TypeOK
<1>3. CASE DisableIntr(v)
  BY <1>0, <1>3 DEF DisableIntr, AfterDisable, TypeOK
<1>4. CASE Inject(v)
  BY <1>0, <1>4 DEF Inject, TypeOK
<1>5. CASE CheckExit(v)
  BY <1>0, <1>5 DEF CheckExit, TypeOK
<1>6. CASE CheckPass(v)
  BY <1>0, <1>6 DEF CheckPass, AfterCheck, TypeOK
<1>7. CASE HandleReqidle(v)
  BY <1>0, <1>7 DEF HandleReqidle, TypeOK
<1>8. CASE HandleSuspend(v)
  BY <1>0, <1>8 DEF HandleSuspend, TypeOK
<1>9. CASE SuspendLoop(v)
  BY <1>0, <1>9 DEF SuspendLoop, CallRendezvous, TypeOK
<1>10. CASE SuspendWake(v)
  BY <1>0, <1>10 DEF SuspendWake, TypeOK
<1>11. CASE ExitRendezvous(v)
  BY <1>0, <1>11 DEF ExitRendezvous, CallRendezvous, TypeOK
<1>12. CASE HandleRendezvous(v)
  BY <1>0, <1>12 DEF HandleRendezvous, Return, TypeOK
<1>13. CASE RendezvousWake(v)
  BY <1>0, <1>13 DEF RendezvousWake, TypeOK
<1>14. CASE SmpRendezvous(v)
  BY <1>0, <1>14 DEF SmpRendezvous, CallRendezvous, TypeOK
<1>15. CASE HandleHlt(v)
  BY <1>0, <1>15 DEF HandleHlt, SuspendVm, TypeOK
<1>16. CASE HltWake(v)
  BY <1>0, <1>16 DEF HltWake, TypeOK
<1>17. CASE HandledExit(v)
  BY <1>0, <1>17 DEF HandledExit, TypeOK
<1>18. CASE GuestExit(v)
  BY <1>0, <1>18 DEF GuestExit, TypeOK
<1>19. CASE TripleFault(v)
  BY <1>0, <1>19 DEF TripleFault, SuspendVm, TypeOK
<1>20. CASE HostIpi(v)
  BY <1>0, <1>20 DEF HostIpi, TypeOK
<1>21. CASE VmRun(v)
  BY <1>0, <1>21 DEF VmRun, BeginLocked, TypeOK
<1> QED
  BY <1>1, <1>2, <1>3, <1>4, <1>5, <1>6, <1>7, <1>8, <1>9, <1>10, <1>11, <1>12, <1>13, <1>14, <1>15, <1>16, <1>17, <1>18, <1>19, <1>20, <1>21 DEF VcpuStep, GuestStep

LEMMA PlaceOfVcpu ==
    ASSUME TypeOK, NEW v \in Vcpus, Place(v), VcpuStep(v) \/ GuestStep(v) \/ VmRun(v)
    PROVE  Place(v)'
<1> USE DEF vcpuVars, vmVars, rdvVars, locals, RunPcs, Place, ReturnsHome, Runs,
            ShowsState, InSuspend
<1>0. v \in Threads
  BY DEF Threads
<1>1. CASE RunBody(v)
  BY <1>0, <1>1 DEF RunBody, Runnable, TypeOK
<1>2. CASE Enter(v)
  BY <1>0, <1>2 DEF Enter, TypeOK
<1>3. CASE DisableIntr(v)
  BY <1>0, <1>3 DEF DisableIntr, AfterDisable, TypeOK
<1>4. CASE Inject(v)
  BY <1>0, <1>4 DEF Inject, TypeOK
<1>5. CASE CheckExit(v)
  BY <1>0, <1>5 DEF CheckExit, TypeOK
<1>6. CASE CheckPass(v)
  BY <1>0, <1>6 DEF CheckPass, AfterCheck, TypeOK
<1>7. CASE HandleReqidle(v)
  BY <1>0, <1>7 DEF HandleReqidle, TypeOK
<1>8. CASE HandleSuspend(v)
  BY <1>0, <1>8 DEF HandleSuspend, TypeOK
<1>9. CASE SuspendLoop(v)
  BY <1>0, <1>9 DEF SuspendLoop, CallRendezvous, TypeOK
<1>10. CASE SuspendWake(v)
  BY <1>0, <1>10 DEF SuspendWake, TypeOK
<1>11. CASE ExitRendezvous(v)
  BY <1>0, <1>11 DEF ExitRendezvous, CallRendezvous, TypeOK
<1>12. CASE HandleRendezvous(v)
  BY <1>0, <1>12 DEF HandleRendezvous, Return, TypeOK
<1>13. CASE RendezvousWake(v)
  BY <1>0, <1>13 DEF RendezvousWake, TypeOK
<1>14. CASE SmpRendezvous(v)
  BY <1>0, <1>14 DEF SmpRendezvous, CallRendezvous, TypeOK
<1>15. CASE HandleHlt(v)
  BY <1>0, <1>15 DEF HandleHlt, SuspendVm, TypeOK
<1>16. CASE HltWake(v)
  BY <1>0, <1>16 DEF HltWake, TypeOK
<1>17. CASE HandledExit(v)
  BY <1>0, <1>17 DEF HandledExit, TypeOK
<1>18. CASE GuestExit(v)
  BY <1>0, <1>18 DEF GuestExit, TypeOK
<1>19. CASE TripleFault(v)
  BY <1>0, <1>19 DEF TripleFault, SuspendVm, TypeOK
<1>20. CASE HostIpi(v)
  BY <1>0, <1>20 DEF HostIpi, TypeOK
<1>21. CASE VmRun(v)
  BY <1>0, <1>21 DEF VmRun, BeginLocked, TypeOK
<1> QED
  BY <1>1, <1>2, <1>3, <1>4, <1>5, <1>6, <1>7, <1>8, <1>9, <1>10, <1>11, <1>12, <1>13, <1>14, <1>15, <1>16, <1>17, <1>18, <1>19, <1>20, <1>21 DEF VcpuStep, GuestStep

\* The ioctl layer freezes an idle vcpu and thaws its own only.
LEMMA OwnThread ==
    ASSUME OwnerInv, NEW t \in Threads, KernelStep(t) \/ UserStep(t), ~ReinitBody(t)
    PROVE  Own(t)
<1> USE DEF vcpuVars, vmVars, rdvVars, locals, Own
<1>0. TypeOK /\ \A w \in Vcpus : w \in Threads
  BY DEF OwnerInv, Threads
<1>1. CASE LockRequest(t)
  BY <1>0, <1>1 DEF LockRequest, TypeOK
<1>2. CASE LockWake(t)
  BY <1>0, <1>2 DEF LockWake, TypeOK
<1>3. CASE ActivateBody(t)
  BY <1>0, <1>3 DEF ActivateBody, TypeOK
<1>4. CASE AccessBody(t)
  BY <1>0, <1>4 DEF AccessBody, TypeOK
<1>5. CASE Timeout(t)
  BY <1>0, <1>5 DEF Timeout, TypeOK
<1>6. CASE NotifyNext(t)
  BY <1>0, <1>6 DEF NotifyNext, AfterNotify, Return, NotifyPcs, TypeOK
<1>7. CASE LockedIoctl(t)
  BY <1>0, <1>7 DEF LockedIoctl, BeginLocked, TypeOK
<1>8. CASE VmSuspend(t)
  BY <1>0, <1>8 DEF VmSuspend, SuspendVm, TypeOK
<1>9. CASE VmSuspendCpu(t)
  BY <1>0, <1>9 DEF VmSuspendCpu, TypeOK
<1>10. CASE VmResumeCpu(t)
  BY <1>0, <1>10 DEF VmResumeCpu, TypeOK
<1>11. CASE InjectEvent(t)
  BY <1>0, <1>11 DEF InjectEvent, TypeOK
<1>12. CASE LockGrant(t)
  <2>1. \A w \in Vcpus : Inside(w) => vstate[w] # "IDLE"
    BY OwnedNotIdle
  <2> QED
    BY <1>0, <1>12, <2>1 DEF LockGrant, MayFreeze, TypeOK
<1>13. CASE UnlockOne(t)
  <2>1. \A w \in Vcpus \ {t} : Inside(w) => w \notin held[t]
    BY <1>0 DEF OwnerInv, RunnerOwns, Disjoint
  <2> QED
    BY <1>0, <1>13, <2>1 DEF UnlockOne, First, TypeOK
<1> QED
  BY <1>1, <1>2, <1>3, <1>4, <1>5, <1>6, <1>7, <1>8, <1>9, <1>10, <1>11, <1>12, <1>13 DEF KernelStep, UserStep

LEMMA PlaceOfThread ==
    ASSUME OwnerInv, NEW t \in Vcpus, Place(t), KernelStep(t) \/ UserStep(t),
           ~ReinitBody(t)
    PROVE  Place(t)'
<1> USE DEF vcpuVars, vmVars, rdvVars, locals, RunPcs, Place, ReturnsHome, Runs,
            ShowsState, InSuspend
<1>0. TypeOK /\ t \in Threads
  BY DEF OwnerInv, Threads
<1>1. CASE LockGrant(t)
  BY <1>0, <1>1 DEF LockGrant, TypeOK
<1>2. CASE UnlockOne(t)
  BY <1>0, <1>2 DEF UnlockOne, TypeOK
<1>3. CASE LockRequest(t)
  BY <1>0, <1>3 DEF LockRequest, TypeOK
<1>4. CASE LockWake(t)
  BY <1>0, <1>4 DEF LockWake, TypeOK
<1>5. CASE ActivateBody(t)
  BY <1>0, <1>5 DEF ActivateBody, TypeOK
<1>6. CASE AccessBody(t)
  BY <1>0, <1>6 DEF AccessBody, TypeOK
<1>7. CASE Timeout(t)
  BY <1>0, <1>7 DEF Timeout, TypeOK
<1>8. CASE NotifyNext(t)
  <2>1. /\ UNCHANGED <<vstate, active, suspended, ret>> /\ pc[t] \in NotifyPcs
        /\ pc'[t] \in {pc[t], AfterNotify(t)}
    BY <1>0, <1>8 DEF NotifyNext, TypeOK
  <2>2. CASE pc'[t] = pc[t]
    BY <2>1, <2>2
  <2>3. CASE pc'[t] = AfterNotify(t)
    <3>1. \/ pc[t] = "notify_susp" /\ pc'[t] = "unlock"
          \/ pc[t] = "notify_dest" /\ pc'[t] = "rendez"
          \/ pc[t] \in {"notify_active", "notify_one"} /\ pc'[t] = Return(t)
      BY <2>1, <2>3 DEF AfterNotify, NotifyPcs
    <3> QED
      BY <2>1, <3>1 DEF Return
  <2> QED
    BY <2>1, <2>2, <2>3
<1>9. CASE LockedIoctl(t)
  BY <1>0, <1>9 DEF LockedIoctl, BeginLocked, TypeOK
<1>10. CASE VmSuspend(t)
  BY <1>0, <1>10 DEF VmSuspend, SuspendVm, TypeOK
<1>11. CASE VmSuspendCpu(t)
  BY <1>0, <1>11 DEF VmSuspendCpu, TypeOK
<1>12. CASE VmResumeCpu(t)
  BY <1>0, <1>12 DEF VmResumeCpu, TypeOK
<1>13. CASE InjectEvent(t)
  BY <1>0, <1>13 DEF InjectEvent, TypeOK
<1> QED
  BY <1>1, <1>2, <1>3, <1>4, <1>5, <1>6, <1>7, <1>8, <1>9, <1>10, <1>11, <1>12, <1>13 DEF KernelStep, UserStep

\* vm_reinit() clears suspended_cpus and active_cpus with every vcpu frozen.
LEMMA PlaceReinit ==
    ASSUME PlaceInv, OwnerInv', NEW t \in Threads, ReinitBody(t)
    PROVE  PlaceInv'
<1>1. TypeOK /\ OwnerInv /\ held[t] = Vcpus /\ pc[t] = "ioctl" /\ op[t] = "reinit"
  BY DEF PlaceInv, OwnerInv, LockCovers, ReinitBody
<1>2. pc' = [pc EXCEPT ![t] = "unlock"] /\ ret' = ret /\ vstate' = vstate
  BY DEF ReinitBody
<1> SUFFICES ASSUME NEW v \in Vcpus PROVE Place(v)'
  BY DEF PlaceInv
<1>3. v \in Threads /\ (v # t => v \notin held[v])
  BY <1>1 DEF OwnerInv, Disjoint, Threads
<1>4. ~Inside(v)
  BY <1>1, <1>3 DEF OwnerInv, RunnerOwns, Inside, RunPcs
<1>5. ~Runs(v)' /\ ~InSuspend(v)' /\ ShowsState(v)'
  BY <1>1, <1>2, <1>3, <1>4 DEF Inside, Runs, RunPcs, InSuspend, ShowsState, TypeOK
<1>6. ReturnsHome(v)'
  BY <1>1, <1>2, <1>3 DEF PlaceInv, Place, ReturnsHome, TypeOK
<1>7. v \in suspended' => v \in active'
  BY DEF ReinitBody, PlaceInv, Place
<1> QED
  BY <1>5, <1>6, <1>7 DEF Place

LEMMA PlaceNext == PlaceInv /\ [Next]_vars => PlaceInv'
<1> SUFFICES ASSUME PlaceInv, [Next]_vars PROVE PlaceInv'
  OBVIOUS
<1>1. OwnerInv /\ TypeOK /\ OwnerInv'
  BY OwnerNext DEF PlaceInv, OwnerInv
<1>2. CASE UNCHANGED vars
  BY <1>1, <1>2 DEF PlaceInv, Place, ReturnsHome, ShowsState, Runs, InSuspend, vars,
                    vcpuVars, vmVars
<1>3. ASSUME NEW t \in Threads, KernelStep(t) \/ UserStep(t) PROVE PlaceInv'
  <2>1. CASE ReinitBody(t)
    BY <1>1, <2>1, PlaceReinit
  <2>2. CASE ~ReinitBody(t)
    <3>1. Own(t)
      BY <1>1, <1>3, <2>2, OwnThread
    <3>2. t \in Vcpus => Place(t)'
      BY <1>1, <1>3, <2>2, PlaceOfThread DEF PlaceInv
    <3> QED
      BY <1>1, <3>1, <3>2, PlaceOwn
  <2> QED
    BY <2>1, <2>2
<1>4. ASSUME NEW v \in Vcpus, VcpuStep(v) \/ GuestStep(v) \/ VmRun(v) PROVE PlaceInv'
  <2>1. v \in Threads /\ Own(v)
    BY <1>1, <1>4, OwnVcpu DEF Threads
  <2>2. Place(v)'
    BY <1>1, <1>4, PlaceOfVcpu DEF PlaceInv
  <2> QED
    BY <1>1, <2>1, <2>2, PlaceOwn
<1> QED
  BY <1>2, <1>3, <1>4 DEF Next

LEMMA PlaceAlways == Spec => []PlaceInv
BY PlaceInit, PlaceNext, PTL DEF Spec

(* A vcpu that vm_handle_suspend() has marked suspended does not enter the  *)
(* guest, or HLT, again before vm_reinit(): through no rendezvous, error    *)
(* return or later VM_RUN, for any number of vcpus and threads.             *)
THEOREM SuspendedNeverRunsAlways == Spec => []SuspendedNeverRuns
<1>1. PlaceInv => SuspendedNeverRuns
  BY DEF PlaceInv, OwnerInv, TypeOK, Place, Runs, RunPcs, InSuspend, SuspendedNeverRuns
<1> QED
  BY <1>1, PlaceAlways, PTL

----------------------------------------------------------------------------
(* EventInv is inductive. A step concerns the other vcpus only in what it  *)
(* announces to them.                                                      *)

\* A step of a thread outside the notification loops: it takes no other
\* thread's notifications away, wakes others or leaves them as they are, and
\* withdraws no IPI.
Quiet(t) ==
    /\ pc[t] \notin NotifyPcs
    /\ \A u \in Threads \ {t} : pc'[u] = pc[u] /\ todo'[u] = todo[u]
    /\ active \subseteq active' /\ suspended \subseteq suspended'
    /\ \A v \in Vcpus \ {t} :
          /\ v \in ipi => v \in ipi'
          /\ v \in sleeping' => v \in sleeping
          /\ hltmode'[v] = hltmode[v]

\* What a step tells vcpu v of the reasons to wake up that it adds.
Announces(t, v) ==
    /\ Deaf(v)' /\ Stop(v)' => Stop(v) \/ Told(v)'
    /\ Asleep(v, "hltsleep")' /\ Event(v)' => Event(v) \/ Told(v)'
    /\ Asleep(v, "suspsleep")' =>
          /\ Awaited(v)' => Awaited(v) \/ Told(v)'
          /\ AllSuspended' => \/ AllSuspended /\ pc[t] # "susploop"
                              \/ Told(v)' \/ pc'[t] = "susploop"
    /\ Asleep(v, "rdvsleep")' /\ rfunc => rfunc'

LEMMA ToldKept ==
    ASSUME NEW t \in Threads, Quiet(t), NEW v \in Vcpus, Told(v)
    PROVE  Told(v)'
<1>1. PICK u \in Threads : Notifying(u, v)
  BY DEF Told
<1>2. Notifying(u, v)'
  BY <1>1 DEF Quiet, Notifying, Notified
<1> QED
  BY <1>2 DEF Told

\* It puts no other vcpu to sleep or into the guest.
LEMMA QuietDeaf ==
    ASSUME NEW t \in Threads, Quiet(t), NEW v \in Vcpus \ {t}
    PROVE  /\ Deaf(v)' => Deaf(v)
           /\ Asleep(v, "hltsleep")' => Asleep(v, "hltsleep")
           /\ Asleep(v, "suspsleep")' => Asleep(v, "suspsleep")
           /\ Asleep(v, "rdvsleep")' => Asleep(v, "rdvsleep")
<1>1. v \in Threads
  BY DEF Threads
<1>2. /\ pc'[v] = pc[v]
      /\ v \in ipi => v \in ipi'
      /\ v \in sleeping' => v \in sleeping
  BY <1>1 DEF Quiet
<1> QED
  BY <1>2 DEF Deaf, Committed, Asleep, ChecksLast

LEMMA HeardStep ==
    ASSUME EventInv, PlaceInv', NEW t \in Threads, Quiet(t),
           \A v \in Vcpus \ {t} : Announces(t, v),
           t \in Vcpus => Heard(t)'
    PROVE  EventInv'
<1> SUFFICES ASSUME NEW v \in Vcpus PROVE Heard(v)'
  BY DEF EventInv
<1> SUFFICES ASSUME v # t PROVE Heard(v)'
  OBVIOUS
<1>0. Heard(v) /\ Announces(t, v) /\ v \in Threads
  BY DEF EventInv, Threads
<1>1. Told(v) => Told(v)'
  BY ToldKept
<1>3. /\ Deaf(v)' => Deaf(v)
      /\ Asleep(v, "hltsleep")' => Asleep(v, "hltsleep")
      /\ Asleep(v, "suspsleep")' => Asleep(v, "suspsleep")
      /\ Asleep(v, "rdvsleep")' => Asleep(v, "rdvsleep")
  BY QuietDeaf
<1>4. ASSUME AllSuspended, pc[t] # "susploop", NEW u \in Threads, pc[u] = "susploop"
      PROVE  pc'[u] = "susploop"
  BY <1>4 DEF Quiet
<1>5. Asleep(v, "suspsleep")' => /\ Awaited(v)' => Told(v)'
                                 /\ AllSuspended' => Told(v)' \/ \E u \in Threads : pc'[u] = "susploop"
  BY <1>0, <1>1, <1>3, <1>4 DEF Heard, Announces
<1>6. /\ Deaf(v)' /\ Stop(v)' => Told(v)'
      /\ Asleep(v, "hltsleep")' /\ Event(v)' => Told(v)'
      /\ Asleep(v, "rdvsleep")' => rfunc'
  BY <1>0, <1>1, <1>3 DEF Heard, Announces
<1> QED
  BY <1>5, <1>6 DEF Heard

\* A step that adds no reason to wake up.
Calm(t) ==
    /\ suspend' => suspend
    /\ reqidle' \subseteq reqidle /\ debug' \subseteq debug
    /\ \A v \in Vcpus : events'[v] \subseteq events[v]
    /\ UNCHANGED <<rfunc, req, done>>
    /\ suspended' = active' => suspended = active
    /\ pc[t] # "susploop"

LEMMA CalmAnnounces ==
    ASSUME NEW t \in Threads, Quiet(t), Calm(t), NEW v \in Vcpus \ {t}
    PROVE  Announces(t, v)
BY DEF Quiet, Calm, Announces, Stop, Event, Awaited, AllSuspended

\* Points at which a vcpu thread hears of everything by itself.
LEMMA HeardElsewhere ==
    ASSUME NEW v \in Vcpus,
           pc'[v] \notin {"guest", "inject", "hltsleep", "suspsleep", "rdvsleep"}
    PROVE  Heard(v)'
BY DEF Heard, Deaf, Committed, Asleep

\* The steps of VM_RUN that add no reason to wake up.
CalmVcpuStep(v) ==
    \/ RunBody(v) \/ Enter(v) \/ DisableIntr(v) \/ Inject(v) \/ CheckExit(v) \/ CheckPass(v)
    \/ HandleReqidle(v) \/ SuspendWake(v) \/ ExitRendezvous(v) \/ RendezvousWake(v)
    \/ HltWake(v) \/ HandledExit(v) \/ GuestExit(v) \/ HostIpi(v) \/ VmRun(v)

LEMMA CalmVcpu ==
    ASSUME TypeOK, NEW v \in Vcpus, CalmVcpuStep(v)
    PROVE  Quiet(v) /\ Calm(v)
<1> USE DEF vcpuVars, vmVars, rdvVars, locals, Quiet, Calm, NotifyPcs
<1>0. v \in Threads /\ \A w \in Vcpus : w \in Threads
  BY DEF Threads
<1>1. CASE RunBody(v)
  BY <1>0, <1>1 DEF RunBody, Runnable, TypeOK
<1>2. CASE Enter(v)
  BY <1>0, <1>2 DEF Enter, TypeOK
<1>3. CASE DisableIntr(v)
  BY <1>0, <1>3 DEF DisableIntr, AfterDisable, TypeOK
<1>4. CASE Inject(v)
  BY <1>0, <1>4 DEF Inject, TypeOK
<1>5. CASE CheckExit(v)
  BY <1>0, <1>5 DEF CheckExit, TypeOK
<1>6. CASE CheckPass(v)
  BY <1>0, <1>6 DEF CheckPass, AfterCheck, TypeOK
<1>7. CASE HandleReqidle(v)
  BY <1>0, <1>7 DEF HandleReqidle, TypeOK
<1>8. CASE SuspendWake(v)
  BY <1>0, <1>8 DEF SuspendWake, TypeOK
<1>9. CASE ExitRendezvous(v)
  BY <1>0, <1>9 DEF ExitRendezvous, CallRendezvous, TypeOK
<1>10. CASE RendezvousWake(v)
  BY <1>0, <1>10 DEF RendezvousWake, TypeOK
<1>11. CASE HltWake(v)
  BY <1>0, <1>11 DEF HltWake, TypeOK
<1>12. CASE HandledExit(v)
  BY <1>0, <1>12 DEF HandledExit, TypeOK
<1>13. CASE GuestExit(v)
  BY <1>0, <1>13 DEF GuestExit, TypeOK
<1>14. CASE HostIpi(v)
  BY <1>0, <1>14 DEF HostIpi, TypeOK
<1>15. CASE VmRun(v)
  BY <1>0, <1>15 DEF VmRun, BeginLocked, TypeOK
<1> QED
  BY <1>1, <1>2, <1>3, <1>4, <1>5, <1>6, <1>7, <1>8, <1>9, <1>10, <1>11, <1>12, <1>13, <1>14, <1>15 DEF CalmVcpuStep

LEMMA HeardCalmVcpu ==
    ASSUME EventInv, PlaceInv', NEW v \in Vcpus, CalmVcpuStep(v)
    PROVE  EventInv'
<1> USE DEF vcpuVars, vmVars, rdvVars, locals
<1>0. TypeOK /\ v \in Threads /\ Heard(v) /\ Backend \in {"vmx", "svm"}
  BY ConstantsAssumption DEF ConstantsAssumption, EventInv, PlaceInv, OwnerInv, Threads
<1>1. Quiet(v) /\ Calm(v)
  BY <1>0, CalmVcpu
<1>2. Heard(v)'
  <2>1. CASE DisableIntr(v) \/ CheckPass(v)
    <3>1. pc'[v] \in {"guest", "inject", "check"}
      BY <1>0, <2>1 DEF DisableIntr, CheckPass, AfterDisable, AfterCheck, TypeOK
    <3>2. Committed(v)' => ~Stop(v)'
      <4>1. CASE DisableIntr(v)
        BY <1>0, <4>1 DEF DisableIntr, AfterDisable, Committed, TypeOK
      <4>2. CASE CheckPass(v)
        BY <1>0, <4>2 DEF CheckPass, Stop, Awaited, TypeOK
      <4> QED
        BY <2>1, <4>1, <4>2
    <3> QED
      BY <3>1, <3>2 DEF Heard, Deaf, Asleep
  <2>2. CASE Inject(v)
    <3>1. pc[v] = "inject" /\ pc'[v] = AfterInject /\ UNCHANGED ipi
      BY <1>0, <2>2 DEF Inject, TypeOK
    <3>2. Deaf(v)' => Deaf(v)
      BY <1>0, <3>1 DEF Deaf, Committed, Asleep, ChecksLast
    <3>3. Stop(v)' => Stop(v)
      BY <2>2 DEF Inject, Stop, Awaited
    <3>4. Told(v) => Told(v)'
      BY <1>0, <1>1, ToldKept
    <3> QED
      BY <1>0, <3>1, <3>2, <3>3, <3>4 DEF Heard, Asleep
  <2>3. CASE ~(DisableIntr(v) \/ CheckPass(v) \/ Inject(v))
    <3>1. pc'[v] \notin {"guest", "inject", "hltsleep", "suspsleep", "rdvsleep"}
      BY <1>0, <2>3
         DEF CalmVcpuStep, RunBody, Enter, CheckExit, HandleReqidle, SuspendWake,
             ExitRendezvous, CallRendezvous, RendezvousWake, HltWake, HandledExit,
             GuestExit, HostIpi, VmRun, BeginLocked, TypeOK
    <3> QED
      BY <3>1, HeardElsewhere
  <2> QED
    BY <2>1, <2>2, <2>3
<1> QED
  BY <1>0, <1>1, <1>2, CalmAnnounces, HeardStep

\* The steps of the ioctl layer that add no reason to wake up.
LEMMA HeardCalmThread ==
    ASSUME EventInv, PlaceInv', NEW t \in Threads,
           \/ LockGrant(t) \/ LockWake(t) \/ UnlockOne(t) \/ AccessBody(t) \/ ActivateBody(t)
           \/ LockedIoctl(t) \/ VmResumeCpu(t)
    PROVE  EventInv'
<1> USE DEF vcpuVars, vmVars, rdvVars, locals
<1>0. TypeOK /\ suspended \subseteq active /\ \A w \in Vcpus : w \in Threads
  BY DEF EventInv, PlaceInv, Place, OwnerInv, TypeOK, Threads
<1>1. Quiet(t) /\ Calm(t)
  <2> USE DEF Quiet, Calm, NotifyPcs
  <2>1. CASE LockGrant(t)
    BY <1>0, <2>1 DEF LockGrant, TypeOK
  <2>2. CASE LockWake(t)
    BY <1>0, <2>2 DEF LockWake, TypeOK
  <2>3. CASE UnlockOne(t)
    BY <1>0, <2>3 DEF UnlockOne, TypeOK
  <2>4. CASE AccessBody(t)
    BY <1>0, <2>4 DEF AccessBody, TypeOK
  <2>5. CASE ActivateBody(t)
    BY <1>0, <2>5 DEF ActivateBody, TypeOK
  <2>6. CASE LockedIoctl(t)
    BY <1>0, <2>6 DEF LockedIoctl, BeginLocked, TypeOK
  <2>7. CASE VmResumeCpu(t)
    BY <1>0, <2>7 DEF VmResumeCpu, TypeOK
  <2> QED
    BY <2>1, <2>2, <2>3, <2>4, <2>5, <2>6, <2>7
<1>2. pc'[t] \notin {"guest", "inject", "hltsleep", "suspsleep", "rdvsleep"}
  BY <1>0 DEF LockGrant, LockWake, UnlockOne, AccessBody, ActivateBody, LockedIoctl,
              BeginLocked, VmResumeCpu, TypeOK
<1> QED
  BY <1>1, <1>2, CalmAnnounces, HeardElsewhere, HeardStep

\* What a notifier finds: the state it looks at tells it how to reach v.
LEMMA DeafReachable ==
    ASSUME PlaceInv, NEW v \in Vcpus
    PROVE  /\ Committed(v) => vstate[v] = "RUNNING" /\ v \in active
           /\ Asleep(v, "hltsleep") => vstate[v] = "SLEEPING" /\ v \in active
           /\ Asleep(v, "suspsleep") =>
                  vstate[v] = "SLEEPING" /\ v \in active /\ v \in suspended
BY DEF PlaceInv, Place, ShowsState, Runs, RunPcs, InSuspend, Committed, Asleep

\* vcpu_set_state_locked() asks for the vcpu with reqidle and a notification
\* under the same lock.
LEMMA HeardLockRequest ==
    ASSUME EventInv, PlaceInv', NEW t \in Threads, LockRequest(t)
    PROVE  EventInv'
<1> USE DEF vmVars, rdvVars, locals
<1>0. TypeOK /\ PlaceInv /\ \A w \in Vcpus : w \in Threads
  BY DEF EventInv, PlaceInv, OwnerInv, Threads
<1>1. PICK x \in Vcpus :
          /\ reqidle' = reqidle \cup {x}
          /\ ipi' = IF vstate[x] = "RUNNING" THEN ipi \cup {x} ELSE ipi
          /\ sleeping' = (IF vstate[x] = "SLEEPING" THEN sleeping \ {x}
                                                   ELSE sleeping) \cup {t}
  BY DEF LockRequest
<1>2. /\ UNCHANGED <<events, hltmode, suspend, debug, active, suspended, rfunc, req, done, todo>>
      /\ pc[t] = "lock" /\ pc' = [pc EXCEPT ![t] = "locksleep"]
  BY DEF LockRequest
<1>3. Quiet(t)
  BY <1>0, <1>1, <1>2 DEF Quiet, NotifyPcs, TypeOK
<1>4. ASSUME NEW v \in Vcpus \ {t}
      PROVE  Announces(t, v)
  <2>1. CASE v = x
    <3>1. ~Deaf(v)' /\ ~Asleep(v, "suspsleep")' /\ ~Asleep(v, "hltsleep")'
      <4>1. (Deaf(v)' => Deaf(v)) /\ (Asleep(v, "suspsleep")' => Asleep(v, "suspsleep"))
            /\ (Asleep(v, "hltsleep")' => Asleep(v, "hltsleep"))
        BY <1>3, <1>4, QuietDeaf
      <4>2. Deaf(v) \/ Asleep(v, "suspsleep") \/ Asleep(v, "hltsleep")
                => vstate[v] \in {"RUNNING", "SLEEPING"}
        BY <1>0, DeafReachable DEF Deaf
      <4>3. Committed(v)' => Committed(v) /\ v \notin ipi'
        BY <1>0, <1>1, <1>2, <1>4, <2>1 DEF Committed, TypeOK, ChecksLast
      <4>4. ~Committed(v)'
        BY <1>0, <1>1, <2>1, <4>3, DeafReachable
      <4>5. ~Asleep(v, "hltsleep")' /\ ~Asleep(v, "suspsleep")'
        <5>1. vstate[v] = "SLEEPING" => v \notin sleeping'
          BY <1>1, <1>4, <2>1
        <5> QED
          BY <1>0, <4>1, <5>1, DeafReachable DEF Asleep
      <4> QED
        BY <4>4, <4>5 DEF Deaf
    <3> QED
      BY <1>2, <3>1 DEF Announces
  <2>2. CASE v # x
    BY <1>1, <1>2, <2>2 DEF Announces, Stop, Event, Awaited, AllSuspended
  <2> QED
    BY <2>1, <2>2
<1>5. t \in Vcpus => Heard(t)'
  BY <1>0, <1>2, HeardElsewhere DEF TypeOK
<1> QED
  BY <1>3, <1>4, <1>5, HeardStep

\* vm_suspend() notifies every active vcpu after it has set vm->suspend.
LEMMA SuspendAnnounces ==
    ASSUME TypeOK, PlaceInv, NEW t \in Threads, Quiet(t), NEW r, SuspendVm(t, r),
           pc[t] # "susploop",
           UNCHANGED <<reqidle, debug, events, active, suspended, rfunc, req, done>>,
           NEW v \in Vcpus \ {t}
    PROVE  Announces(t, v)
<1>1. CASE suspend
  BY <1>1 DEF Quiet, Announces, Stop, Event, Awaited, AllSuspended
<1>2. CASE ~suspend
  <2>1. pc'[t] = "notify_active" /\ todo'[t] = Vcpus
    BY <1>2 DEF SuspendVm, TypeOK
  <2>2. v \in active => Told(v)'
    BY <2>1 DEF Told, Notifying, Notified, NotifyPcs
  <2>3. Deaf(v)' => Told(v)'
    BY <2>2, QuietDeaf, DeafReachable DEF Deaf
  <2>4. hltmode'[v] = hltmode[v]
    BY DEF Quiet
  <2> QED
    BY <2>3, <2>4 DEF Announces, Event, Awaited, AllSuspended
<1> QED
  BY <1>1, <1>2

LEMMA HeardVmSuspend ==
    ASSUME EventInv, PlaceInv', NEW t \in Threads,
           VmSuspend(t) \/ (t \in Vcpus /\ TripleFault(t))
    PROVE  EventInv'
<1> USE DEF vcpuVars, vmVars, rdvVars, locals
<1>0. TypeOK /\ PlaceInv /\ Backend \in {"vmx", "svm"}
  BY ConstantsAssumption DEF ConstantsAssumption, EventInv, PlaceInv, OwnerInv
<1>1. /\ UNCHANGED <<reqidle, debug, events, hltmode, active, suspended, rfunc, req, done>>
      /\ UNCHANGED <<ipi, sleeping>> /\ pc[t] \in {"user", "inject"}
  BY DEF VmSuspend, TripleFault
<1>2. PICK r \in {"user", "check", "guest"} :
          SuspendVm(t, r) /\ (r = "guest" => ~ChecksLast)
  <2>1. CASE VmSuspend(t)
    BY <2>1 DEF VmSuspend
  <2>2. CASE TripleFault(t)
    BY <1>0, <2>2 DEF TripleFault, ChecksLast
  <2> QED
    BY <2>1, <2>2
<1>3. Quiet(t)
  BY <1>0, <1>1, <1>2 DEF SuspendVm, Quiet, NotifyPcs, Threads, TypeOK
<1>4. \A v \in Vcpus \ {t} : Announces(t, v)
  BY <1>0, <1>1, <1>2, <1>3, SuspendAnnounces
<1>5. t \in Vcpus => Heard(t)'
  <2>1. pc'[t] \in {"notify_active", r}
    BY <1>0, <1>2 DEF SuspendVm, TypeOK
  <2>2. ChecksLast' <=> ChecksLast
    BY DEF ChecksLast
  <2> QED
    BY <1>2, <2>1, <2>2 DEF Heard, Deaf, Committed, Asleep
<1> QED
  BY <1>3, <1>4, <1>5, HeardStep

\* VM_SUSPEND_CPU and the injection of an event.
LEMMA HeardUser ==
    ASSUME EventInv, PlaceInv', NEW t \in Threads, VmSuspendCpu(t) \/ InjectEvent(t)
    PROVE  EventInv'
<1> USE DEF vcpuVars, vmVars, rdvVars, locals
<1>0. TypeOK /\ PlaceInv
  BY DEF EventInv, PlaceInv, OwnerInv
<1>1. /\ UNCHANGED <<suspend, reqidle, hltmode, active, suspended, rfunc, req, done>>
      /\ UNCHANGED <<ipi, sleeping>> /\ pc[t] = "user" /\ pc'[t] \in {"notify_active", "notify_one"}
  BY <1>0 DEF VmSuspendCpu, InjectEvent, TypeOK
<1>2. Quiet(t)
  BY <1>0, <1>1 DEF VmSuspendCpu, InjectEvent, Quiet, NotifyPcs, Threads, TypeOK
<1>3. ASSUME NEW v \in Vcpus \ {t}
      PROVE  Announces(t, v)
  <2>1. v \in debug' \ debug /\ v \in active => Told(v)'
    <3>1. CASE VmSuspendCpu(t)
      <4>1. v \in debug' \ debug /\ v \in active => Notifying(t, v)'
        BY <1>0, <1>1, <3>1 DEF VmSuspendCpu, Notifying, Notified, NotifyPcs, TypeOK
      <4> QED
        BY <4>1 DEF Told
    <3> QED
      BY <3>1 DEF InjectEvent
  <2>2. events'[v] # events[v] => Told(v)'
    <3>1. CASE InjectEvent(t)
      <4>1. events'[v] # events[v] => Notifying(t, v)'
        BY <1>0, <1>1, <3>1 DEF InjectEvent, Notifying, Notified, NotifyPcs, TypeOK
      <4> QED
        BY <4>1 DEF Told
    <3> QED
      BY <3>1 DEF VmSuspendCpu
  <2>3. Deaf(v)' => v \in active
    BY <1>0, <1>2, QuietDeaf, DeafReachable DEF Deaf
  <2> QED
    BY <1>1, <2>1, <2>2, <2>3 DEF Announces, Stop, Event, Awaited, AllSuspended
<1>4. t \in Vcpus => Heard(t)'
  BY <1>1, HeardElsewhere
<1> QED
  BY <1>2, <1>3, <1>4, HeardStep

\* vm_smp_rendezvous() notifies its targets after it has set them up.
LEMMA HeardSmpRendezvous ==
    ASSUME EventInv, PlaceInv', NEW v \in Vcpus, SmpRendezvous(v)
    PROVE  EventInv'
<1> USE DEF vcpuVars, vmVars, rdvVars, locals
<1>0. TypeOK /\ PlaceInv /\ v \in Threads
  BY DEF EventInv, PlaceInv, OwnerInv, Threads
<1>1. /\ UNCHANGED <<suspend, debug, reqidle, events, hltmode, active, suspended, todo>>
      /\ UNCHANGED <<ipi, sleeping>> /\ pc[v] = "rdvinit" /\ pc'[v] \in {"rendez", "notify_dest"}
  BY <1>0 DEF SmpRendezvous, CallRendezvous, TypeOK
<1>2. Quiet(v)
  BY <1>0, <1>1 DEF SmpRendezvous, CallRendezvous, Quiet, NotifyPcs, Threads, TypeOK
<1>3. ASSUME NEW w \in Vcpus \ {v}
      PROVE  Announces(v, w)
  <2>1. Awaited(w)' => Awaited(w) \/ Told(w)'
    <3>1. CASE rfunc
      BY <3>1 DEF SmpRendezvous, Awaited
    <3>2. CASE ~rfunc
      <4>1. Awaited(w)' => Notifying(v, w)'
        BY <1>0, <1>1, <3>2 DEF SmpRendezvous, Awaited, Notifying, Notified, NotifyPcs, TypeOK
      <4> QED
        BY <1>0, <4>1 DEF Told
    <3> QED
      BY <3>1, <3>2
  <2>2. rfunc => rfunc'
    BY DEF SmpRendezvous
  <2> QED
    BY <1>1, <2>1, <2>2 DEF Announces, Stop, Event, AllSuspended
<1>4. Heard(v)'
  BY <1>1, HeardElsewhere
<1> QED
  BY <1>0, <1>2, <1>3, <1>4, HeardStep

\* vm_handle_suspend() marks its vcpu and goes on to look at all of them.
LEMMA HeardHandleSuspend ==
    ASSUME EventInv, PlaceInv', NEW v \in Vcpus, HandleSuspend(v)
    PROVE  EventInv'
<1> USE DEF vcpuVars, vmVars, rdvVars, locals
<1>0. TypeOK /\ v \in Threads
  BY DEF EventInv, PlaceInv, OwnerInv, Threads
<1>1. /\ UNCHANGED <<suspend, debug, reqidle, events, hltmode, active, todo, rfunc, req, done>>
      /\ UNCHANGED <<ipi, sleeping>> /\ pc[v] = "suspend" /\ pc'[v] = "susploop"
  BY <1>0 DEF HandleSuspend, TypeOK
<1>2. Quiet(v)
  BY <1>0, <1>1 DEF HandleSuspend, Quiet, NotifyPcs, Threads, TypeOK
<1>3. ASSUME NEW w \in Vcpus \ {v}
      PROVE  Announces(v, w)
  BY <1>1 DEF Announces, Stop, Event, Awaited
<1> QED
  BY <1>0, <1>1, <1>2, <1>3, HeardElsewhere, HeardStep

\* The last vcpu to arrive in vm_handle_suspend() notifies the others; an
\* earlier one sleeps only if the others are not all suspended yet.
LEMMA HeardSuspendLoop ==
    ASSUME EventInv, PlaceInv', NEW v \in Vcpus, SuspendLoop(v)
    PROVE  EventInv'
<1> USE DEF vcpuVars, vmVars, rdvVars, locals
<1>0. TypeOK /\ PlaceInv /\ v \in Threads
  BY DEF EventInv, PlaceInv, OwnerInv, Threads
<1>1. /\ UNCHANGED <<suspend, debug, reqidle, events, hltmode, active, suspended, rfunc, req, done>>
      /\ UNCHANGED ipi /\ pc[v] = "susploop"
  BY DEF SuspendLoop
<1>2. Quiet(v)
  BY <1>0, <1>1 DEF SuspendLoop, CallRendezvous, Quiet, NotifyPcs, Threads, TypeOK
<1>3. ASSUME NEW w \in Vcpus \ {v}
      PROVE  Announces(v, w)
  <2>1. Asleep(w, "suspsleep")' /\ AllSuspended' => Told(w)'
    <3> SUFFICES ASSUME Asleep(w, "suspsleep")', AllSuspended' PROVE Told(w)'
      OBVIOUS
    <3>1. AllSuspended /\ w \in suspended'
      BY <1>0, <1>1, <1>2, QuietDeaf, DeafReachable DEF AllSuspended
    <3>2. pc'[v] = "notify_susp" /\ todo'[v] = Vcpus
      BY <1>0, <3>1 DEF SuspendLoop, TypeOK
    <3>3. Notifying(v, w)'
      BY <3>1, <3>2 DEF Notifying, Notified, NotifyPcs
    <3> QED
      BY <1>0, <3>3 DEF Told
  <2> QED
    BY <1>1, <2>1 DEF Announces, Stop, Event, Awaited
<1>4. Heard(v)'
  <2>1. CASE AllSuspended \/ rfunc
    <3>1. pc'[v] \in {"notify_susp", "rendez"}
      BY <1>0, <2>1 DEF SuspendLoop, CallRendezvous, TypeOK
    <3> QED
      BY <3>1, HeardElsewhere
  <2>2. CASE ~AllSuspended /\ ~rfunc
    <3>1. pc'[v] = "suspsleep"
      BY <1>0, <2>2 DEF SuspendLoop, TypeOK
    <3>2. ~AllSuspended' /\ ~Awaited(v)'
      BY <1>1, <2>2 DEF AllSuspended, Awaited
    <3> QED
      BY <3>1, <3>2 DEF Heard, Deaf, Committed, Asleep
  <2> QED
    BY <2>1, <2>2
<1> QED
  BY <1>0, <1>2, <1>3, <1>4, HeardStep

\* Whoever completes a rendezvous wakes every vcpu that sleeps in it.
LEMMA HeardHandleRendezvous ==
    ASSUME EventInv, PlaceInv', NEW v \in Vcpus, HandleRendezvous(v)
    PROVE  EventInv'
<1> USE DEF vcpuVars, vmVars, rdvVars, locals
<1>0. TypeOK /\ PlaceInv /\ v \in Threads /\ \A w \in Vcpus : w \in Threads
  BY DEF EventInv, PlaceInv, OwnerInv, Threads
<1>1. /\ UNCHANGED <<suspend, debug, reqidle, events, hltmode, active, suspended, todo>>
      /\ UNCHANGED ipi /\ pc[v] = "rendez"
  BY DEF HandleRendezvous
<1>2. \/ pc' = [pc EXCEPT ![v] = Return(v)] /\ sleeping' \subseteq sleeping
      \/ /\ pc' = [pc EXCEPT ![v] = "rdvsleep"] /\ sleeping' = sleeping \cup {v}
         /\ rfunc'
  BY DEF HandleRendezvous
<1>3. Quiet(v)
  BY <1>0, <1>1, <1>2 DEF Quiet, NotifyPcs, TypeOK
<1>4. ASSUME NEW w \in Vcpus \ {v}
      PROVE  Announces(v, w)
  <2>1. Awaited(w)' => Awaited(w)
    BY DEF HandleRendezvous, Awaited
  <2>2. Asleep(w, "rdvsleep")' /\ rfunc => rfunc'
    <3> SUFFICES ASSUME Asleep(w, "rdvsleep")', rfunc, ~rfunc' PROVE FALSE
      OBVIOUS
    <3>1. pc[w] = "rdvsleep"
      BY <1>0, <1>3, QuietDeaf DEF Asleep
    <3>2. sleeping' = sleeping \ {x \in Vcpus : pc[x] = "rdvsleep"}
      BY DEF HandleRendezvous
    <3> QED
      BY <3>1, <3>2 DEF Asleep
  <2> QED
    BY <1>1, <2>1, <2>2 DEF Announces, Stop, Event, AllSuspended
<1>5. Heard(v)'
  <2>1. Return(v) \in {"enter", "susploop", "rdvinit"}
    BY <1>0, <1>1 DEF PlaceInv, Place, ReturnsHome, Return
  <2>2. CASE pc'[v] = Return(v)
    BY <2>1, <2>2, HeardElsewhere
  <2>3. CASE pc'[v] = "rdvsleep" /\ rfunc'
    BY <2>3 DEF Heard, Deaf, Committed, Asleep
  <2> QED
    BY <1>0, <1>2, <2>2, <2>3 DEF TypeOK
<1> QED
  BY <1>0, <1>3, <1>4, <1>5, HeardStep

\* vm_handle_hlt() looks for every reason to wake up under the vcpu lock,
\* which a notifier takes as well, before it sleeps.
LEMMA HeardHandleHlt ==
    ASSUME EventInv, PlaceInv', NEW v \in Vcpus, HandleHlt(v)
    PROVE  EventInv'
<1> USE DEF vcpuVars, vmVars, rdvVars, locals
<1>0. TypeOK /\ PlaceInv /\ v \in Threads /\ \A w \in Vcpus : w \in Threads
  BY DEF EventInv, PlaceInv, OwnerInv, Threads
<1>1. /\ UNCHANGED <<debug, reqidle, events, active, suspended, rfunc, req, done>>
      /\ UNCHANGED ipi /\ pc[v] = "hlt"
  BY DEF HandleHlt
<1>2. \/ SuspendVm(v, "enter") /\ UNCHANGED sleeping
      \/ UNCHANGED <<suspend, todo, sleeping>> /\ pc' = [pc EXCEPT ![v] = "enter"]
      \/ /\ UNCHANGED <<suspend, todo>> /\ ~HltWakeup(v)
         /\ pc' = [pc EXCEPT ![v] = "hltsleep"] /\ sleeping' = sleeping \cup {v}
  BY DEF HandleHlt
<1>3. \E m \in {"none", "halted", hltmode[v]} : hltmode' = [hltmode EXCEPT ![v] = m]
  BY DEF HandleHlt, HltLeave
<1>4. Quiet(v)
  BY <1>0, <1>1, <1>2, <1>3 DEF SuspendVm, Quiet, NotifyPcs, TypeOK
<1>5. ASSUME NEW w \in Vcpus \ {v}
      PROVE  Announces(v, w)
  <2>1. CASE SuspendVm(v, "enter")
    BY <1>0, <1>1, <1>4, <1>5, <2>1, SuspendAnnounces
  <2>2. CASE UNCHANGED suspend
    BY <1>1, <1>3, <2>2, <1>0 DEF Announces, Stop, Event, Awaited, AllSuspended, TypeOK
  <2> QED
    BY <1>2, <2>1, <2>2
<1>6. Heard(v)'
  <2>1. CASE pc'[v] \in {"enter", "notify_active"}
    BY <2>1, HeardElsewhere
  <2>2. CASE UNCHANGED suspend /\ ~HltWakeup(v) /\ pc'[v] = "hltsleep"
    <3>1. ~Stop(v)'
      BY <1>1, <2>2 DEF Stop, Awaited, HltWakeup
    <3>2. ~Event(v)'
      BY <1>0, <1>1, <1>3, <2>2 DEF Event, HltWakeup, TypeOK
    <3> QED
      BY <2>2, <3>1, <3>2 DEF Heard, Asleep
  <2> QED
    BY <1>0, <1>2, <2>1, <2>2 DEF SuspendVm, TypeOK
<1> QED
  BY <1>0, <1>4, <1>5, <1>6, HeardStep

\* One turn of a notification loop: who is told stays told, or is reached now.
LEMMA NotifyReaches ==
    ASSUME TypeOK, PlaceInv, NEW t \in Threads, NotifyNext(t), NEW v \in Vcpus \ {t}, Told(v)
    PROVE  \/ Told(v)'
           \/ ~Deaf(v)' /\ ~Asleep(v, "hltsleep")' /\ ~Asleep(v, "suspsleep")'
<1> USE DEF vmVars
<1>0. v \in Threads
  BY DEF Threads
<1>1. PICK x \in Vcpus :
          /\ First(x, todo[t])
          /\ todo' = [todo EXCEPT ![t] = @ \ {x}]
          /\ IF x \in Notified(t) THEN NotifyLocked(x, t) ELSE UNCHANGED <<ipi, sleeping>>
          /\ IF todo[t] = {x} THEN Goto(t, AfterNotify(t)) ELSE UNCHANGED pc
  BY DEF NotifyNext
<1>2. UNCHANGED <<active, suspended, vstate>>
  BY DEF NotifyNext
<1>3. PICK u \in Threads : Notifying(u, v)
  BY DEF Told
<1>4. CASE u # t \/ v # x
  <2>1. pc'[u] = pc[u] /\ v \in todo'[u]
    <3>1. CASE u # t
      BY <1>1, <1>3, <3>1 DEF Notifying, TypeOK
    <3>2. CASE u = t /\ v # x
      BY <1>1, <1>3, <3>2 DEF Notifying, TypeOK
    <3> QED
      BY <1>4, <3>1, <3>2
  <2>2. Notifying(u, v)'
    BY <1>2, <1>3, <2>1 DEF Notifying, Notified
  <2> QED
    BY <2>2 DEF Told
<1>5. CASE u = t /\ v = x
  <2>1. NotifyLocked(v, t)
    BY <1>1, <1>3, <1>5 DEF Notifying
  <2>2. pc'[v] = pc[v]
    BY <1>0, <1>1 DEF TypeOK
  <2>3. vstate[v] = "RUNNING" => v \in ipi'
    BY <2>1 DEF NotifyLocked
  <2>4. vstate[v] = "SLEEPING" => v \notin sleeping'
    BY <2>1 DEF NotifyLocked
  <2>5. ipi \subseteq ipi' /\ sleeping' \subseteq sleeping
    BY <2>1 DEF NotifyLocked
  <2>6. ~Committed(v)'
    <3>1. Committed(v)' => Committed(v)
      BY <2>2, <2>5 DEF Committed, ChecksLast
    <3> QED
      BY <2>3, <3>1, DeafReachable DEF Committed
  <2>7. ~Asleep(v, "hltsleep")' /\ ~Asleep(v, "suspsleep")'
    BY <2>2, <2>4, <2>5, DeafReachable DEF Asleep
  <2> QED
    BY <2>6, <2>7 DEF Deaf
<1> QED
  BY <1>4, <1>5

LEMMA HeardNotify ==
    ASSUME EventInv, PlaceInv', NEW t \in Threads, NotifyNext(t)
    PROVE  EventInv'
<1> USE DEF vcpuVars, vmVars, rdvVars, locals
<1>0. TypeOK /\ PlaceInv /\ Backend \in {"vmx", "svm"}
  BY ConstantsAssumption DEF ConstantsAssumption, EventInv, PlaceInv, OwnerInv
<1>1. /\ UNCHANGED <<suspend, debug, reqidle, events, hltmode, active, suspended>>
      /\ UNCHANGED <<rfunc, req, done>> /\ pc[t] \in NotifyPcs
  BY DEF NotifyNext
<1>2. /\ pc' = pc \/ pc' = [pc EXCEPT ![t] = AfterNotify(t)]
      /\ ipi \subseteq ipi' /\ sleeping' \subseteq sleeping
  BY DEF NotifyNext, NotifyLocked
<1> SUFFICES ASSUME NEW v \in Vcpus PROVE Heard(v)'
  BY DEF EventInv
<1>3. v \in Threads /\ Heard(v) /\ Place(v)
  BY <1>0 DEF EventInv, PlaceInv, Threads
<1>4. CASE v = t
  <2>1. CASE pc'[v] = pc[v]
    BY <1>1, <1>4, <2>1, HeardElsewhere DEF NotifyPcs
  <2>2. CASE pc'[v] = AfterNotify(v)
    <3>1. \/ pc[v] = "notify_susp" /\ pc'[v] = "unlock"
          \/ pc[v] = "notify_dest" /\ pc'[v] = "rendez"
          \/ pc[v] \in {"notify_active", "notify_one"} /\ pc'[v] = Return(v)
      BY <1>1, <1>4, <2>2 DEF AfterNotify, NotifyPcs
    <3>2. \/ pc'[v] \in {"unlock", "rendez", "user", "enter", "check"}
          \/ pc'[v] = "guest" /\ ~ChecksLast'
      BY <1>0, <1>3, <3>1 DEF Return, Place, ReturnsHome, ChecksLast
    <3> QED
      BY <3>2 DEF Heard, Deaf, Committed, Asleep
  <2> QED
    BY <1>0, <1>2, <1>4, <2>1, <2>2 DEF TypeOK
<1>5. CASE v # t
  <2>1. pc'[v] = pc[v]
    BY <1>0, <1>2, <1>3, <1>5 DEF TypeOK
  <2>2. /\ Deaf(v)' => Deaf(v)
        /\ \A p \in {"hltsleep", "suspsleep", "rdvsleep"} : Asleep(v, p)' => Asleep(v, p)
    BY <1>2, <2>1 DEF Deaf, Committed, Asleep, ChecksLast
  <2>3. /\ Stop(v)' <=> Stop(v)
        /\ Event(v)' <=> Event(v)
        /\ Awaited(v)' <=> Awaited(v)
        /\ AllSuspended' <=> AllSuspended
    BY <1>1 DEF Stop, Event, Awaited, AllSuspended
  <2>4. Told(v) => \/ Told(v)'
                   \/ ~Deaf(v)' /\ ~Asleep(v, "hltsleep")' /\ ~Asleep(v, "suspsleep")'
    BY <1>0, <1>5, NotifyReaches
  <2>5. \A u \in Threads : pc[u] = "susploop" => pc'[u] = "susploop"
    BY <1>0, <1>1, <1>2 DEF NotifyPcs, TypeOK
  <2>6. /\ Deaf(v)' /\ Stop(v)' => Told(v)'
        /\ Asleep(v, "hltsleep")' /\ Event(v)' => Told(v)'
    BY <1>3, <2>2, <2>3, <2>4 DEF Heard
  <2>7. Asleep(v, "suspsleep")' =>
            /\ AllSuspended' => Told(v)' \/ \E u \in Threads : pc'[u] = "susploop"
            /\ Awaited(v)' => Told(v)'
    BY <1>3, <2>2, <2>3, <2>4, <2>5 DEF Heard
  <2>8. Asleep(v, "rdvsleep")' => rfunc'
    BY <1>1, <1>3, <2>2 DEF Heard
  <2> QED
    BY <2>6, <2>7, <2>8 DEF Heard
<1> QED
  BY <1>4, <1>5

\* vm_reinit() runs with every vcpu thread outside VM_RUN.
LEMMA HeardReinit ==
    ASSUME EventInv, PlaceInv', NEW t \in Threads, ReinitBody(t)
    PROVE  EventInv'
<1>1. TypeOK /\ OwnerInv /\ held[t] = Vcpus /\ pc[t] = "ioctl" /\ op[t] = "reinit"
  BY DEF EventInv, PlaceInv, OwnerInv, LockCovers, ReinitBody
<1>2. pc' = [pc EXCEPT ![t] = "unlock"]
  BY DEF ReinitBody
<1> SUFFICES ASSUME NEW v \in Vcpus PROVE Heard(v)'
  BY DEF EventInv
<1>3. v \in Threads /\ (v # t => v \notin held[v])
  BY <1>1 DEF OwnerInv, Disjoint, Threads
<1>4. ~Inside(v)
  BY <1>1, <1>3 DEF OwnerInv, RunnerOwns, Inside, RunPcs
<1> QED
  BY <1>1, <1>2, <1>3, <1>4, HeardElsewhere DEF Inside, RunPcs, TypeOK

\* The timeout of a sleep, or nothing at all.
LEMMA HeardSame ==
    ASSUME EventInv, PlaceInv', sleeping' \subseteq sleeping,
           UNCHANGED <<vcpuVars, vmVars, rdvVars, locals, pc, todo>>
    PROVE  EventInv'
<1> USE DEF vcpuVars, vmVars, rdvVars, locals
<1> SUFFICES ASSUME NEW v \in Vcpus PROVE Heard(v)'
  BY DEF EventInv
<1>1. Heard(v)
  BY DEF EventInv
<1>2. Told(v)' <=> Told(v)
  BY DEF Told, Notifying, Notified
<1>3. /\ Deaf(v)' => Deaf(v)
      /\ \A p \in {"hltsleep", "suspsleep", "rdvsleep"} : Asleep(v, p)' => Asleep(v, p)
  BY DEF Deaf, Committed, Asleep, ChecksLast
<1>4. /\ Stop(v)' <=> Stop(v)
      /\ Event(v)' <=> Event(v)
      /\ Awaited(v)' <=> Awaited(v)
      /\ AllSuspended' <=> AllSuspended
  BY DEF Stop, Event, Awaited, AllSuspended
<1> QED
  BY <1>1, <1>2, <1>3, <1>4 DEF Heard

LEMMA EventInit == Init => EventInv
<1> SUFFICES ASSUME Init PROVE EventInv
  OBVIOUS
<1>1. \A v \in Vcpus : v \in Threads
  BY DEF Threads
<1> QED
  BY <1>1, PlaceInit DEF Init, EventInv, Heard, Deaf, Committed, Asleep

LEMMA EventNext == EventInv /\ [Next]_vars => EventInv'
<1> SUFFICES ASSUME EventInv, [Next]_vars PROVE EventInv'
  OBVIOUS
<1>1. PlaceInv'
  BY PlaceNext DEF EventInv
<1>2. CASE UNCHANGED vars
  BY <1>1, <1>2, HeardSame DEF vars
<1>3. ASSUME NEW t \in Threads, KernelStep(t) \/ UserStep(t) PROVE EventInv'
  <2>1. CASE \/ LockGrant(t) \/ LockWake(t) \/ UnlockOne(t) \/ AccessBody(t) \/ ActivateBody(t)
             \/ LockedIoctl(t) \/ VmResumeCpu(t)
    BY <1>1, <2>1, HeardCalmThread
  <2>2. CASE LockRequest(t)
    BY <1>1, <2>2, HeardLockRequest
  <2>3. CASE ReinitBody(t)
    BY <1>1, <2>3, HeardReinit
  <2>4. CASE NotifyNext(t)
    BY <1>1, <2>4, HeardNotify
  <2>5. CASE Timeout(t)
    BY <1>1, <2>5, HeardSame DEF Timeout
  <2>6. CASE VmSuspend(t)
    BY <1>1, <2>6, HeardVmSuspend
  <2>7. CASE VmSuspendCpu(t) \/ InjectEvent(t)
    BY <1>1, <2>7, HeardUser
  <2> QED
    BY <1>3, <2>1, <2>2, <2>3, <2>4, <2>5, <2>6, <2>7 DEF KernelStep, UserStep
<1>4. ASSUME NEW v \in Vcpus, VcpuStep(v) \/ GuestStep(v) \/ VmRun(v) PROVE EventInv'
  <2>1. CASE CalmVcpuStep(v)
    BY <1>1, <2>1, HeardCalmVcpu
  <2>2. CASE HandleSuspend(v)
    BY <1>1, <2>2, HeardHandleSuspend
  <2>3. CASE SuspendLoop(v)
    BY <1>1, <2>3, HeardSuspendLoop
  <2>4. CASE HandleRendezvous(v)
    BY <1>1, <2>4, HeardHandleRendezvous
  <2>5. CASE SmpRendezvous(v)
    BY <1>1, <2>5, HeardSmpRendezvous
  <2>6. CASE HandleHlt(v)
    BY <1>1, <2>6, HeardHandleHlt
  <2>7. CASE TripleFault(v)
    <3>1. v \in Threads
      BY DEF Threads
    <3> QED
      BY <1>1, <2>7, <3>1, HeardVmSuspend
  <2> QED
    BY <1>4, <2>1, <2>2, <2>3, <2>4, <2>5, <2>6, <2>7 DEF VcpuStep, GuestStep, CalmVcpuStep
<1> QED
  BY <1>2, <1>3, <1>4 DEF Next

LEMMA EventAlways == Spec => []EventInv
BY EventInit, EventNext, PTL DEF Spec

(* No vcpu sleeps in vm_handle_hlt(), vm_handle_suspend() or               *)
(* vm_handle_rendezvous() with a reason to wake up and nobody about to     *)
(* notify it: vcpu_notify_event() is not lost in the window between the    *)
(* checks and msleep_spin(), whatever the threads do in between.           *)
THEOREM NoLostWakeupAlways == Spec => []NoLostWakeup
<1>1. EventInv => NoLostWakeup
  <2> SUFFICES ASSUME EventInv, NEW v \in Vcpus, v \in sleeping
               PROVE  /\ pc[v] = "hltsleep" /\ (Stop(v) \/ Event(v)) => Told(v)
                      /\ pc[v] = "suspsleep" /\ (AllSuspended \/ Awaited(v))
                            => Told(v) \/ \E t \in Threads : pc[t] = "susploop"
                      /\ pc[v] = "rdvsleep" => rfunc
    BY DEF NoLostWakeup, Stop, Event, Told
  <2> QED
    BY DEF EventInv, Heard, Deaf, Asleep
<1> QED
  BY <1>1, EventAlways, PTL

(* No vcpu executes guest code with a suspension, a rendezvous, a reqidle  *)
(* or a debug stop pending unless an IPI is pending or about to be sent:   *)
(* the IPI of vcpu_notify_event() is not lost between the checks and       *)
(* VMLAUNCH/VMRUN. svm_vmrun() checks before svm_inj_interrupts(), so a    *)
(* vcpu whose injection suspends the VM by a triple fault enters the guest *)
(* once more; ChecksLast leaves out that combination alone.                *)
THEOREM NoLostKickAlways ==
    ASSUME ChecksLast
    PROVE  Spec => []NoLostKick
<1>1. EventInv => NoLostKick
  BY DEF EventInv, Heard, Deaf, Committed, Stop, Told, NoLostKick
<1> QED
  BY <1>1, EventAlways, PTL

----------------------------------------------------------------------------
(* Halt detection. thread_check_susp() can take a vcpu out of              *)
(* vm_handle_hlt() with its bit of halted_cpus set; without it the bit and *)
(* the locals of vm_handle_hlt() agree.                                    *)

HaltTyped == TypeOK /\ HaltInv

LEMMA HaltInit == Init => HaltInv
BY DEF Init, HaltInv

\* Only vm_handle_hlt() and the exit that calls it touch the halt state.
HaltStep(v) == HandleHlt(v) \/ HltWake(v) \/ GuestExit(v)

LEMMA HaltUntouched ==
    ASSUME TypeOK, NEW v \in Vcpus, VcpuStep(v) \/ GuestStep(v) \/ VmRun(v), ~HaltStep(v)
    PROVE  UNCHANGED <<halted, hltmode>> /\ pc[v] \notin {"hlt", "hltsleep"}
<1> USE DEF vcpuVars, vmVars, rdvVars, locals
<1> QED
  BY DEF VcpuStep, GuestStep, HaltStep, RunBody, Enter, DisableIntr, Inject, CheckExit,
         CheckPass, HandleReqidle, HandleSuspend, SuspendLoop, SuspendWake, ExitRendezvous,
         HandleRendezvous, RendezvousWake, SmpRendezvous, HandledExit, TripleFault, HostIpi,
         VmRun, BeginLocked

LEMMA HaltThread ==
    ASSUME TypeOK, NEW t \in Threads, KernelStep(t) \/ UserStep(t), NEW v \in Vcpus,
           pc[v] \in {"hlt", "hltsleep"}
    PROVE  pc'[v] = pc[v]
<1> USE DEF vcpuVars, vmVars, rdvVars, locals
<1>0. v \in Threads
  BY DEF Threads
<1>1. CASE Timeout(t) \/ VmResumeCpu(t)
  BY <1>1 DEF Timeout, VmResumeCpu
<1>2. CASE ~(Timeout(t) \/ VmResumeCpu(t))
  <2>1. pc[t] \notin {"hlt", "hltsleep"} /\ (pc' = pc \/ \E p : pc' = [pc EXCEPT ![t] = p])
    BY <1>2
       DEF KernelStep, UserStep, LockGrant, LockRequest, LockWake, UnlockOne, ActivateBody,
           AccessBody, ReinitBody, NotifyNext, NotifyPcs, LockedIoctl, BeginLocked, VmSuspend,
           SuspendVm, VmSuspendCpu, InjectEvent
  <2> QED
    BY <1>0, <2>1 DEF TypeOK
<1> QED
  BY <1>1, <1>2

LEMMA HaltNext == ASSUME ~SuspChk, HaltTyped, TypeOK', [Next]_vars PROVE HaltInv'
<1> USE DEF vcpuVars, vmVars, rdvVars, locals
<1>1. CASE UNCHANGED vars
  BY <1>1 DEF HaltTyped, HaltInv, vars
<1>2. ASSUME NEW t \in Threads, KernelStep(t) \/ UserStep(t) PROVE HaltInv'
  <2>1. UNCHANGED <<halted, hltmode>>
    BY <1>2 DEF KernelStep, UserStep, LockGrant, LockRequest, LockWake, UnlockOne, ActivateBody,
           AccessBody, ReinitBody, NotifyNext, LockedIoctl, BeginLocked, VmSuspend,
           VmSuspendCpu, VmResumeCpu, InjectEvent, Timeout
  <2> QED
    BY <1>2, <2>1, HaltThread DEF HaltTyped, HaltInv
<1>3. ASSUME NEW v \in Vcpus, VcpuStep(v) \/ GuestStep(v) \/ VmRun(v) PROVE HaltInv'
  <2>0. /\ \A w \in Vcpus \ {v} : pc'[w] = pc[w]
        /\ v \in Threads
    BY <1>3, OwnVcpu DEF HaltTyped, Own, Threads
  <2>1. CASE ~HaltStep(v)
    <3>1. UNCHANGED <<halted, hltmode>> /\ pc[v] \notin {"hlt", "hltsleep"}
      BY <1>3, <2>1, HaltUntouched DEF HaltTyped
    <3> QED
      BY <2>0, <3>1 DEF HaltTyped, HaltInv
  <2>2. CASE HandleHlt(v)
    <3>1. /\ \A w \in Vcpus \ {v} : hltmode'[w] = hltmode[w]
          /\ halted' \subseteq halted \cup {v}
          /\ \/ hltmode'[v] = "none" /\ v \notin halted'
             \/ pc'[v] = "hltsleep" /\ (v \in halted' => hltmode'[v] = "halted")
      BY <2>0, <2>2 DEF HandleHlt, HltLeave, HaltTyped, HaltInv, TypeOK
    <3> QED
      BY <2>0, <3>1 DEF HaltTyped, HaltInv, TypeOK
  <2>3. CASE HltWake(v)
    BY <2>0, <2>3 DEF HltWake, HaltTyped, HaltInv, TypeOK
  <2>4. CASE GuestExit(v)
    BY <2>0, <2>4 DEF GuestExit, HaltTyped, HaltInv, TypeOK
  <2> QED
    BY <2>1, <2>2, <2>3, <2>4 DEF HaltStep
<1> QED
  BY <1>1, <1>2, <1>3 DEF Next

(* Without thread_check_susp() errors a vcpu enters vm_handle_hlt() with   *)
(* its bit of halted_cpus clear, as the KASSERT there says. (With them it  *)
(* does not; see the run that refutes HaltedAssert.)                       *)
THEOREM HaltedAssertAlways ==
    ASSUME ~SuspChk
    PROVE  Spec => []HaltedAssert
<1>1. Init => HaltInv
  BY HaltInit
<1>2. HaltInv /\ TypeOK /\ TypeOK' /\ [Next]_vars => HaltInv'
  BY HaltNext DEF HaltTyped
<1>3. HaltInv => HaltedAssert
  BY DEF HaltInv, HaltedAssert
<1> QED
  BY <1>1, <1>2, <1>3, TypeCorrect, PTL DEF Spec

(* Halt detection is exact: without thread_check_susp() errors,            *)
(* vm_handle_hlt() halts the VM only in a state in which every other       *)
(* active vcpu is halted with interrupts disabled.                         *)
THEOREM HaltDetection ==
    ASSUME ~SuspChk
    PROVE  Spec => [][HaltsWhenAllHalted]_vars
<1>1. Init => HaltInv
  BY HaltInit
<1>2. HaltInv /\ TypeOK /\ TypeOK' /\ [Next]_vars => HaltInv'
  BY HaltNext DEF HaltTyped
<1>3. HaltInv /\ TypeOK /\ [Next]_vars => [HaltsWhenAllHalted]_vars
  <2> SUFFICES ASSUME HaltInv, TypeOK, Next, NEW v \in Vcpus,
                      pc[v] = "hlt", pc'[v] = "notify_active", NEW w \in active \ {v}
               PROVE  hltmode[w] = "halted"
    BY DEF HaltsWhenAllHalted
  <2>1. ASSUME NEW t \in Threads, KernelStep(t) \/ UserStep(t) PROVE FALSE
    BY <2>1, HaltThread
  <2>2. PICK x \in Vcpus : VcpuStep(x) \/ GuestStep(x) \/ VmRun(x)
    BY <2>1 DEF Next
  <2>3. x = v
    BY <2>2, OwnVcpu DEF Own
  <2>4. HandleHlt(v)
    BY <2>2, <2>3, HaltUntouched DEF HaltStep, HltWake, GuestExit
  <2>5. v \in Threads
    BY DEF Threads
  <2>6. active \subseteq halted \cup {v}
    BY <2>4, <2>5 DEF HandleHlt, TypeOK
  <2> QED
    BY <2>6 DEF HaltInv
<1> QED
  BY <1>1, <1>2, <1>3, TypeCorrect, PTL DEF Spec
============================================================================
