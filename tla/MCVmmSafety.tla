---------------------------- MODULE MCVmmSafety ----------------------------
(* Vmm for TLC in two scenarios, which `part' names: events between running  *)
(* vcpus on Intel processors (the constants of the configuration), and the   *)
(* ioctls that freeze vcpus, with a vcpu activated on the way, on AMD ones.  *)
(* The properties of Vmm read none of the constants in which the two differ. *)
EXTENDS Vmm

VARIABLE part

Amd == INSTANCE Vmm WITH Backend <- "svm", SuspChk <- TRUE, BootActive <- {0},
           Ioctls <- {"suspend", "activate", "getreg", "memmap", "reinit"},
           Exits <- {"user", "ioapic", "hlt_off"}

SafetyInit == \/ part = "events" /\ Init
              \/ part = "ioctls" /\ Amd!Init

Events      == part = "events" /\ Next /\ UNCHANGED part
FrozenVcpus == part = "ioctls" /\ Amd!Next /\ UNCHANGED part
SafetyNext  == Events \/ FrozenVcpus

SafetySpec == SafetyInit /\ [][SafetyNext]_<<vars, part>>

(* "When all vcpus enter the halted state the virtual machine is halted"     *)
(* (vm_handle_hlt): halt detection suspends the VM only when every other     *)
(* active vcpu is halted with interrupts disabled. Where thread_check_susp() *)
(* may make a halted vcpu leave vm_handle_hlt() with its bit set, in the     *)
(* second scenario, it does not hold: see HaltedAssert.                      *)
HaltDetectionExact == [][part = "events" => HaltsWhenAllHalted]_vars
============================================================================
