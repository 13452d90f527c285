----------------------------- MODULE MCStorage -----------------------------
(* The storage devices for TLC. A behaviour exercises one part, which `part' *)
(* names: the block backend, the AHCI port with a driver that polls ("ahci") *)
(* or takes interrupts ("ahcii", with one command at a time), an NVMe I/O    *)
(* queue pair, the NVMe admin queue, and the virtio disks.                   *)
(* The state of a device is `sc', that of the backend the other variables.   *)
EXTENDS Ahci

CONSTANTS Elems, Workers, Reqs   \* of the backend

VARIABLES status, ereq, block, start, ahead, wpc, cur, asleep, outstanding, canceller,
          sigpending, paused, closing, pauser, closer, overrun,
          part

backendVars == <<status, ereq, block, start, ahead, wpc, cur, asleep, outstanding, canceller,
                 sigpending, paused, closing, pauser, closer, overrun>>
storageVars == <<sc, backendVars, part>>

Chains == {"a", "b"}
Bif  == INSTANCE BlockIf WITH Offsets <- {0}, Features <- {"cancel"}
NV   == INSTANCE Nvme WITH Tags <- Chains, MaxRanges <- MaxChunks, CqSize <- 3, IoSlots <- 1,
                           Locked <- TRUE, GuestOps <- 1
NA   == INSTANCE NvmeAdmin WITH QSize <- 3, MaxQueues <- 2, MaxCommands <- 3
VD   == INSTANCE VirtioDisk WITH Tags <- Chains, Workers <- {"w1", "w2"}, MaxPosts <- 3,
                                 blk <- sc, scsi <- sc

StorageInit ==
    /\ Bif!Init
    /\ \/ part = "blockif" /\ sc = [idle |-> TRUE]
       \/ part = "ahci"  /\ Init /\ sc.intr = "poll"
       \/ part = "ahcii" /\ Init /\ sc.intr # "poll"
       \/ part = "nvme"  /\ NV!Init
       \/ part = "admin" /\ NA!Init
       \/ part = "blk"   /\ VD!BlkInit
       \/ part = "scsi"  /\ VD!ScsiInit

BlockifPart == part = "blockif" /\ Bif!Next /\ UNCHANGED <<sc, part>>
AhciPart    == part = "ahci"  /\ Next /\ UNCHANGED <<backendVars, part>>
AhciIntr    == part = "ahcii" /\ Next /\ sc'.ci \cup sc'.sact \subseteq {0} /\ UNCHANGED <<backendVars, part>>
NvmePart    == part = "nvme"  /\ NV!Next /\ UNCHANGED <<backendVars, part>>
AdminPart   == part = "admin" /\ NA!Next /\ UNCHANGED <<backendVars, part>>
BlkPart     == part = "blk"   /\ VD!BlkNext /\ UNCHANGED <<backendVars, part>>
ScsiPart    == part = "scsi"  /\ VD!ScsiNext /\ UNCHANGED <<backendVars, part>>

StorageNext == \/ BlockifPart \/ AhciPart \/ AhciIntr \/ NvmePart \/ AdminPart
               \/ BlkPart \/ ScsiPart

(* What runs without the guest goes on: the backend's threads and their      *)
(* signals, the device's threads and callbacks, and the guest's interrupt    *)
(* handler once the interrupt is raised.                                     *)
StorageFairness ==
    /\ \A w \in Workers : SF_backendVars(part = "blockif" /\ Bif!WorkerStep(w))
    /\ WF_backendVars(part = "blockif" /\ Bif!SigHandler)
    /\ WF_backendVars(part = "blockif" /\ Bif!CancelLoop)
    /\ \A s \in Slots : WF_sc(part \in {"ahci", "ahcii"} /\ Progress(s))
    /\ WF_sc(part = "nvme" /\ ~sc.dead /\ NV!Thread)
    /\ WF_sc(part = "nvme" /\ ~sc.dead /\ NV!Release)
    /\ WF_sc(part = "nvme" /\ ~sc.dead /\ (NV!IsrEnter \/ NV!IsrTake \/ NV!IsrLeave))
    /\ \A t \in Chains : WF_sc(part = "nvme" /\ ~sc.dead /\ (NV!BackendStarts(t) \/ NV!Callback(t)))
    /\ WF_sc(part = "scsi" /\ VD!Notify)
    /\ WF_sc(part = "scsi" /\ VD!Isr)
    /\ \A w \in {"w1", "w2"} : WF_sc(part = "scsi" /\ VD!Worker(w))

StorageSpec == StorageInit /\ [][StorageNext]_storageVars /\ StorageFairness

(* The commands of the device being exercised, as the abstract service sees  *)
(* them; chain "a" stands for slot 0 of the port and chain "b" for slot 1.   *)
SlotOf == [a |-> 0, b |-> 1]
ChainStatus ==
    CASE part \in {"ahci", "ahcii"} -> [t \in Chains |-> Status[SlotOf[t]]]
      [] part = "nvme"  -> NV!Status
      [] part = "blk"   -> VD!BlkStatus
      [] part = "scsi"  -> VD!ScsiStatus
      [] OTHER          -> [t \in Chains |-> "free"]
ChainWork ==
    CASE part \in {"ahci", "ahcii"} -> [t \in Chains |-> Work[SlotOf[t]]]
      [] part = "nvme"  -> NV!Work
      [] part = "blk"   -> VD!BlkWork
      [] part = "scsi"  -> VD!ScsiWork
      [] OTHER          -> [t \in Chains |-> 0]
ChainsMoving ==
    CASE part \in {"ahci", "ahcii"} -> {t \in Chains : SlotOf[t] \in Moving}
      [] part = "nvme"  -> NV!Moving
      [] part = "blk"   -> VD!BlkMoving
      [] part = "scsi"  -> VD!ScsiMoving
      [] OTHER          -> {}
ControllerRuns ==
    CASE part \in {"ahci", "ahcii"} -> Running
      [] part = "nvme"  -> NV!Running
      [] OTHER          -> TRUE

CS == INSTANCE CommandService WITH Tags <- Chains, MaxWork <- MaxChunks, status <- ChainStatus,
          work <- ChainWork, moving <- ChainsMoving, running <- ControllerRuns

(* Every disk controller implements the command service: a command is        *)
(* reported complete once, after the last of its backend transfers, and is   *)
(* taken back while it runs in no case (ahci_port_stop(), the virtio         *)
(* completion paths); a reset of the controller loses the commands in flight *)
(* (ahci_reset(), pci_nvme_reset_locked()), which are then not reported.     *)
CommandsImplement == CS!Spec

(* Every request and command in the books of a device is in exactly one      *)
(* place: a slot bit, a queue, a backend request or the used ring; the       *)
(* completion entries of an NVMe queue carry the phase the guest expects,    *)
(* and the queues it may create are those it was granted.                    *)
CommandsAccounted ==
    /\ part \in {"ahci", "ahcii"} => TypeOK /\ Accounted
    /\ part = "nvme"  => NV!TypeOK /\ NV!Accounted /\ NV!PhasesAgree /\ NV!QueueHandled
    /\ part = "admin" => NA!QueuesBounded
    /\ part = "blk"   => VD!BlkAccounted
    /\ part = "scsi"  => VD!ScsiAccounted

(* A completion the guest has not seen is announced: its interrupt is        *)
(* pending, the handler is running, or the device is about to raise it.      *)
CompletionsAnnounced ==
    /\ part \in {"ahci", "ahcii"} => NoLostInterrupt
    /\ part = "nvme"  => NV!NoLostInterrupt
    /\ part = "admin" => NA!NoLostInterrupt
    /\ part = "blk"   => VD!BlkNoLostInterrupt
    /\ part = "scsi"  => VD!ScsiNoLostInterrupt

ReqOf == [a |-> "r1", b |-> "r2"]
Waiting(t) ==
    CASE part = "blockif" -> ReqOf[t] \in outstanding
      [] part \in {"ahci", "ahcii"} -> CommandEnds(SlotOf[t])
      [] part = "nvme"    -> NV!Busy(t)
      [] part = "scsi"    -> VD!ScsiBusy(t)
      [] OTHER            -> FALSE
Served(t) ==
    CASE part = "blockif" -> ReqOf[t] \notin outstanding
      [] part \in {"ahci", "ahcii"} -> CommandEnded(SlotOf[t])
      [] part = "nvme"    -> NV!Done(t)
      [] part = "scsi"    -> ~VD!ScsiBusy(t)
      [] OTHER            -> TRUE
Held == (part = "blockif" /\ canceller # "none") \/ (part = "nvme" /\ NV!Starting)

(* Every request is called back or cancelled, a command of a running         *)
(* controller ends, a cancellation of a request in flight returns, and a     *)
(* controller that is enabled becomes ready.                                 *)
CommandsEnd == (\A t \in Chains : Waiting(t) ~> Served(t)) /\ (Held ~> ~Held)
============================================================================
