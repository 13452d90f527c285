----------------------------- MODULE VirtioDisk -----------------------------
(* The virtio block device of pci_virtio_block.c: the notification handler    *)
(* takes chains from the ring under the device's lock and hands them to the   *)
(* block backend, whose threads return them through the used ring. The driver *)
(* suppresses interrupts while its handler collects.                          *)
EXTENDS Naturals, Sequences, FiniteSets

CONSTANTS Tags,     \* descriptor chains of the ring
          Workers,  \* VTSCSI_THR_PER_Q threads
          MaxPosts  \* bound: requests the driver makes
VARIABLES blk, scsi

Free == "free"

\* What becomes of a chain: READ, WRITE, FLUSH and a well-formed DISCARD go to
\* the backend; IDENT, an unknown type or a malformed DISCARD end at once.
Types == {"read", "write", "discard", "flush", "ident", "unknown", "malformed"}
BlockifOps == {"read", "write", "discard", "flush"}

BlkInit ==
       blk = [type |-> [c \in Tags |-> Free], avail |-> <<>>, kick |-> FALSE, lock |-> Free,
              req |-> [c \in Tags |-> Free], fail |-> [c \in Tags |-> FALSE], used |-> <<>>, save |-> TRUE,
              noIntr |-> FALSE, intr |-> FALSE, isr |-> "out"]

\* pci_vtblk_done_locked(): status byte, vq_relchain(); vq_endchains() follows.
DoneLocked(p, c, err) ==
    [p EXCEPT !.used = Append(@, c), !.fail[c] = err, !.req[c] = Free, !.save = FALSE]

----------------------------------------------------------------------------
(* The driver (external)                                                    *)

BlkPost(c, t) == blk.type[c] = Free /\ blk' = [blk EXCEPT !.type[c] = t, !.avail = Append(@, c), !.kick = TRUE]
IsrEnter == blk.intr /\ blk.isr = "out" /\ blk' = [blk EXCEPT !.intr = FALSE, !.isr = "collect", !.noIntr = TRUE]
Collect ==
    /\ blk.isr = "collect" /\ blk.used # <<>>
    /\ blk' = [blk EXCEPT !.type[Head(blk.used)] = Free, !.fail[Head(blk.used)] = FALSE, !.used = Tail(@)]
EnableIntr == blk.isr = "collect" /\ blk.used = <<>> /\ blk' = [blk EXCEPT !.noIntr = FALSE, !.isr = "check"]
CheckAgain ==
    /\ blk.isr = "check"
    /\ blk' = IF blk.used = <<>> THEN [blk EXCEPT !.isr = "out"] ELSE [blk EXCEPT !.isr = "collect", !.noIntr = TRUE]

----------------------------------------------------------------------------
(* The device                                                               *)

\* The vcpu's write to the notify register takes the device's lock.
BlkNotifyBegin == blk.kick /\ blk.lock = Free /\ blk' = [blk EXCEPT !.kick = FALSE, !.lock = "notify"]

\* pci_vtblk_proc(), one chain of the loop of pci_vtblk_notify().
Proc ==
    /\ blk.lock = "notify" /\ blk.avail # <<>>
    /\ LET c == Head(blk.avail)
           p == [blk EXCEPT !.avail = Tail(@)]
       IN IF blk.type[c] \in BlockifOps THEN blk' = [p EXCEPT !.req[c] = "queued"]
          ELSE blk' = [DoneLocked(p, c, blk.type[c] # "ident") EXCEPT !.lock = "end_notify"]
BlkNotifyEnd == blk.lock = "notify" /\ blk.avail = <<>> /\ blk' = [blk EXCEPT !.lock = Free]

BackendStarts(c) == blk.req[c] = "queued" /\ blk' = [blk EXCEPT !.req[c] = "busy"]

\* pci_vtblk_done(): the backend's callback.
Done(c) ==
    /\ blk.req[c] = "busy" /\ blk.lock = Free
    /\ \E err \in BOOLEAN : blk' = [DoneLocked(blk, c, err) EXCEPT !.lock = "end_done"]

\* vq_endchains(vq, 0): interrupt if something was used since and is wanted.
BlkEndChains ==
    /\ blk.lock \in {"end_notify", "end_done"}
    /\ blk' = [blk EXCEPT !.intr = @ \/ (~blk.save /\ ~blk.noIntr), !.save = TRUE,
                          !.lock = IF @ = "end_notify" THEN "notify" ELSE Free]

BlkDriver == (\E c \in Tags, t \in Types : BlkPost(c, t)) \/ IsrEnter \/ Collect \/ EnableIntr \/ CheckAgain
Device == BlkNotifyBegin \/ Proc \/ BlkNotifyEnd \/ BlkEndChains
BlkNext   == BlkDriver \/ Device \/ \E c \in Tags : BackendStarts(c) \/ Done(c)
blkVars   == <<blk>>

----------------------------------------------------------------------------
\* A returned chain that the driver has not collected has an interrupt pending,
\* is about to get one, or will be found by the handler that is running.
BlkNoLostInterrupt == blk.used # <<>> => blk.intr \/ blk.lock \in {"end_notify", "end_done"} \/ blk.isr # "out"

\* A chain is in one place: available, at the backend, or returned.
BlkAccounted ==
    \A c \in Tags : blk.type[c] # Free =>
        Cardinality({i \in 1..Len(blk.avail) : blk.avail[i] = c}) + Cardinality({i \in 1..Len(blk.used) : blk.used[i] = c})
        + (IF blk.req[c] # Free THEN 1 ELSE 0) = 1

BlkBusy(c) == blk.type[c] # Free

BlkReturned(c) == \E i \in 1..Len(blk.used) : blk.used[i] = c
BlkStatus  == [c \in Tags |-> IF ~BlkBusy(c) \/ (BlkReturned(c) /\ ~blk.fail[c]) THEN "free"
                              ELSE IF BlkReturned(c) THEN "failed" ELSE "issued"]
BlkWork    == [c \in Tags |-> IF BlkStatus[c] = "issued" /\ blk.type[c] \in BlockifOps THEN 1 ELSE 0]
BlkMoving  == {c \in Tags : blk.req[c] = "busy"}

-----------------------------------------------------------------------------
(* The virtio SCSI host of pci_virtio_scsi.c: a notification moves the chains *)
(* of a request queue to a list served by worker threads; each passes its     *)
(* request to CTL by a blocking ioctl and returns the chain under a second    *)
(* mutex. The control queue is answered in the notification itself.           *)

Nil == "nil"

ScsiInit ==
        scsi = [busy |-> {}, avail |-> <<>>, kick |-> FALSE, notify |-> FALSE, requests |-> <<>>,
                at |-> [w \in Workers |-> "lock"], cur |-> [w \in Workers |-> Nil], used |-> {}, failed |-> {},
                qmtx |-> Nil, intr |-> FALSE, tmf |-> "none", posts |-> 0]

----------------------------------------------------------------------------
(* The driver (external)                                                    *)

ScsiPost(c) ==
        /\ c \notin scsi.busy /\ scsi.posts < MaxPosts
        /\ scsi' = [scsi EXCEPT !.busy = @ \cup {c}, !.avail = Append(@, c), !.kick = TRUE, !.posts = @ + 1]
Isr == scsi.intr /\ scsi' = [scsi EXCEPT !.intr = FALSE, !.busy = @ \ scsi.used, !.used = {}, !.failed = @ \ scsi.used]
SendControl(t) == scsi.tmf = "none" /\ scsi.posts < MaxPosts /\ scsi' = [scsi EXCEPT !.tmf = t, !.posts = @ + 1]

----------------------------------------------------------------------------
(* Notifications, on the vcpu that kicks                                    *)

ScsiNotifyBegin == scsi.kick /\ ~scsi.notify /\ scsi' = [scsi EXCEPT !.kick = FALSE, !.notify = TRUE]

\* pci_vtscsi_requestq_notify(), one chain: pthread_cond_signal() wakes one of
\* the waiting workers, if there is one.
Wake(at, w) == IF w = Nil THEN at ELSE [at EXCEPT ![w] = "lock"]
Waiting == {w \in Workers : scsi.at[w] = "wait"}

RequestqNotify ==
    /\ scsi.notify /\ scsi.avail # <<>>
    /\ \E w \in (IF Waiting # {} THEN Waiting ELSE {Nil}) :
        scsi' = [scsi EXCEPT !.avail = Tail(@), !.requests = Append(@, Head(scsi.avail)), !.at = Wake(@, w)]
ScsiNotifyEnd == scsi.notify /\ scsi.avail = <<>> /\ scsi' = [scsi EXCEPT !.notify = FALSE]

\* pci_vtscsi_controlq_notify(): a task management function is answered after
\* a CTL ioctl, an asynchronous notification query and anything else with no
\* bytes written.
TmfHandle     == scsi.tmf = "tmf" /\ \E status \in {"ok", "rejected"} : scsi' = [scsi EXCEPT !.tmf = "none", !.intr = TRUE]
ControlHandle == scsi.tmf \in {"an", "other"} /\ scsi' = [scsi EXCEPT !.tmf = "none", !.intr = TRUE]

----------------------------------------------------------------------------
(* pci_vtscsi_proc()                                                        *)

\* Mutant: a worker does not take a request when several wait.
Fetch_NoLoop(w) ==
    /\ scsi.at[w] = "lock"
    /\ scsi' = IF scsi.requests = <<>> \/ Len(scsi.requests) > 1 THEN [scsi EXCEPT !.at[w] = "wait"]
               ELSE [scsi EXCEPT !.at[w] = "ioctl", !.cur[w] = Head(scsi.requests), !.requests = Tail(@)]

Fetch(w) ==
    /\ scsi.at[w] = "lock"
    /\ scsi' = IF scsi.requests = <<>> THEN [scsi EXCEPT !.at[w] = "wait"]
               ELSE [scsi EXCEPT !.at[w] = "ioctl", !.cur[w] = Head(scsi.requests), !.requests = Tail(@)]

\* pci_vtscsi_request_handle(): CTL_IO, whose failure the response reports.
RequestHandle(w) ==
    /\ scsi.at[w] = "ioctl"
    /\ \E err \in BOOLEAN : scsi' = [scsi EXCEPT !.at[w] = "release",
                                                 !.failed = IF err THEN @ \cup {scsi.cur[w]} ELSE @]

\* vq_relchain() and vq_endchains() under vsq_qmtx.
Release(w) ==
    /\ scsi.at[w] = "release" /\ scsi.qmtx = Nil
    /\ scsi' = [scsi EXCEPT !.used = @ \cup {scsi.cur[w]}, !.qmtx = w, !.at[w] = "end"]
ScsiEndChains(w) ==
    /\ scsi.at[w] = "end"
    /\ scsi' = [scsi EXCEPT !.intr = TRUE, !.qmtx = Nil, !.cur[w] = Nil, !.at[w] = "lock"]

ScsiDriver    == (\E c \in Tags : ScsiPost(c)) \/ Isr \/ \E t \in {"tmf", "an", "other"} : SendControl(t)
Notify    == ScsiNotifyBegin \/ RequestqNotify \/ ScsiNotifyEnd \/ TmfHandle \/ ControlHandle
Worker(w) == Fetch(w) \/ RequestHandle(w) \/ Release(w) \/ ScsiEndChains(w)
ScsiNext      == ScsiDriver \/ Notify \/ \E w \in Workers : Worker(w)
scsiVars      == <<scsi>>

----------------------------------------------------------------------------
\* No request waits in the list while every worker sleeps.
ScsiNoLostInterrupt ==
    /\ scsi.requests # <<>> => \E w \in Workers : scsi.at[w] # "wait"
    /\ scsi.used # {} => scsi.intr \/ \E w \in Workers : scsi.at[w] = "end"

\* A chain is in one place only.
ScsiAccounted ==
    \A c \in scsi.busy :
        Cardinality({i \in 1..Len(scsi.avail) : scsi.avail[i] = c}) + Cardinality({i \in 1..Len(scsi.requests) : scsi.requests[i] = c})
        + Cardinality({w \in Workers : scsi.cur[w] = c /\ scsi.at[w] # "end"}) + (IF c \in scsi.used THEN 1 ELSE 0) = 1

ScsiBusy(c) == c \in scsi.busy
ScsiReturned(c) == c \in scsi.used
ScsiStatus  == [c \in Tags |-> IF ~ScsiBusy(c) \/ (ScsiReturned(c) /\ c \notin scsi.failed) THEN "free"
                               ELSE IF c \in scsi.failed THEN "failed" ELSE "issued"]
Handling(c) == \E w \in Workers : scsi.cur[w] = c /\ scsi.at[w] \in {"ioctl", "release"}
ScsiWork    == [c \in Tags |-> IF ScsiStatus[c] = "issued" THEN 1 ELSE 0]
ScsiMoving  == {c \in Tags : ScsiStatus[c] = "issued" /\ Handling(c)}
=============================================================================
