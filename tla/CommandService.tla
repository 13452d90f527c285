--------------------------- MODULE CommandService ---------------------------
(* What a disk controller promises about a command: it is reported complete  *)
(* only once every backend transfer it needs has been made, it fails or      *)
(* completes but not both, and it is taken back only after the guest stopped *)
(* the controller and none of its transfers is still being made, since the   *)
(* guest then reuses the memory. The exception is a reset of the controller  *)
(* with commands out: they are lost, and the service promises nothing about  *)
(* them, nor about what the guest puts in their place before they are gone.  *)
EXTENDS Naturals

CONSTANTS Tags, MaxWork   \* command tags; the most transfers a command needs
VARIABLES status,         \* [Tags -> {"free", "issued", "failed", "lost"}]
          work,           \* [Tags -> 0..MaxWork]: transfers still to be made
          moving,         \* the tags one of whose transfers is being made
          running         \* the guest has the controller running

vars == <<status, work, moving, running>>

Init ==
    /\ status = [t \in Tags |-> "free"] /\ work = [t \in Tags |-> 0]
    /\ moving = {} /\ running \in BOOLEAN

Becomes(t, s, n, m) == status'[t] = s /\ work'[t] = n /\ (t \in moving' <=> m)

Keep(t)   == Becomes(t, status[t], work[t], t \in moving)
Submit(t) == status[t] = "free" /\ \E n \in 0..MaxWork : Becomes(t, "issued", n, FALSE)
Begin(t)  == status[t] = "issued" /\ work[t] > 0 /\ t \notin moving /\ Becomes(t, "issued", work[t], TRUE)
Moved(t)  == t \in moving /\ work[t] > 1 /\ Becomes(t, "issued", work[t] - 1, FALSE)
Done(t)   == /\ status[t] = "issued"
             /\ work[t] = IF t \in moving THEN 1 ELSE 0
             /\ Becomes(t, "free", 0, FALSE)
Fail(t)   == status[t] \in {"free", "issued"} /\ Becomes(t, "failed", 0, FALSE)   \* at once, or later
Collect(t) == status[t] \in {"failed", "lost"} /\ Becomes(t, "free", 0, FALSE)
Abort(t)  == ~running' /\ Becomes(t, "free", 0, FALSE)
Lose(t)   == ~running' /\ status[t] # "free" /\ Becomes(t, "lost", 0, FALSE)

\* The controller takes several commands forward in one step of its lock.
Next == \A t \in Tags : Keep(t) \/ Submit(t) \/ Begin(t) \/ Moved(t) \/ Done(t) \/ Fail(t)
                        \/ Collect(t) \/ Abort(t) \/ Lose(t)

Spec == Init /\ [][Next]_vars
============================================================================
