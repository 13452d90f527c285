----------------------------- MODULE VirtioNet -----------------------------
(***************************************************************************)
(* The virtio-net device (pci_virtio_net.c) with its virtqueues            *)
(* (virtio.c), the tap backend (net_backends.c) and the event loop         *)
(* (mevent.c). Three threads of bhyve share it:                            *)
(*                                                                         *)
(*   "vcpu"  register writes of the guest: kicks and device reset, with    *)
(*           vsc_mtx held (vi_pci_write());                                *)
(*   "tx"    pci_vtnet_tx_thread(), which drains the transmit queue;       *)
(*   "ev"    mevent_dispatch(), which calls pci_vtnet_rx_callback().       *)
(*                                                                         *)
(* The guest's driver posts and reaps chains in shared memory while they   *)
(* run. A receive chain holds one unit of data and a packet is one or more *)
(* units long, so it needs several chains when rx_merge is set and is      *)
(* dropped when it is not.                                                 *)
(***************************************************************************)
EXTENDS Integers, Sequences, FiniteSets

CONSTANTS
    QSize,      \* vq_qsize
    IdxMod,     \* 2^16 in the code: where the ring indices wrap
    Queues,     \* the queues the driver uses, subset of {"rx", "tx"}
    Modes,      \* how the driver may set up the device (see Mode)
    Resets,     \* the modes in which it may reset the device
    Sizes,      \* packet lengths in units
    Backlog,    \* bound: packets waiting in the tap device
    MaxBatch    \* bound: chains used between two calls of vq_endchains()

-----------------------------------------------------------------------------
(***************************************************************************)
(* The virtqueue operations of virtio.c and virtio.h. A queue is a record  *)
(* of the device's indices (struct vqueue_info) and of the ring the driver *)
(* shares with it; a descriptor chain is its head. Indices are uint16_t in *)
(* the code: they wrap at IdxMod. No device of the repository offers       *)
(* VIRTIO_RING_F_EVENT_IDX, so vq_endchains() never takes that branch.     *)
(***************************************************************************)
ASSUME QueueAssumption ==
    /\ QSize \in Nat \ {0} /\ IdxMod \in Nat
    /\ IdxMod > QSize /\ IdxMod % QSize = 0

Idx   == 0 .. IdxMod - 1
Heads == 0 .. QSize - 1

Queue == [alloc : BOOLEAN,          \* VQ_ALLOC
          last : Idx,               \* vq_last_avail
          next : Idx,               \* vq_next_used
          save : Idx,               \* vq_save_used
          avail : Idx,              \* va_idx, written by the driver
          ring : [Heads -> Heads],  \* va_ring
          noIntr : BOOLEAN,         \* VRING_AVAIL_F_NO_INTERRUPT
          used : Idx,               \* vu_idx, written by the device
          uring : [Heads -> Heads], \* vu_ring
          noNotify : BOOLEAN]       \* VRING_USED_F_NO_NOTIFY

Plus(i, n) == (i + n) % IdxMod

\* The ring memory a driver hands over: vi_vq_init() of a zeroed page.
NewQueue ==
    [alloc |-> TRUE, last |-> 0, next |-> 0, save |-> 0,
     avail |-> 0, ring |-> [i \in Heads |-> 0], noIntr |-> FALSE,
     used |-> 0, uring |-> [i \in Heads |-> 0], noNotify |-> FALSE]

\* vi_reset_dev() forgets the queue, not the address of its ring.
ResetQueue(q) == [q EXCEPT !.alloc = FALSE, !.last = 0, !.next = 0, !.save = 0]

HasDescs(q) == q.alloc /\ q.last # q.avail

\* vq_getchain(): how many chains are available, whatever VQ_ALLOC says.
NDesc(q) == (q.avail - q.last) % IdxMod
NextHead(q) == q.ring[q.last % QSize]
Taken(q) == [q EXCEPT !.last = Plus(q.last, 1)]

\* Mutants of vq_retchains(): forgets the wrap; returns one chain too few.
RetChains_NoWrap(q, n) == [q EXCEPT !.last = q.last - n]
RetChains_OneShort(q, n) ==
    [q EXCEPT !.last = Plus(q.last, IF n = 0 THEN 0 ELSE 1 - n)]

RetChains(q, n) == [q EXCEPT !.last = Plus(q.last, -n)]

\* vq_relchain_prepare() of the chains hs, one after the other, and one
\* vq_relchain_publish().
RelChains(q, hs) ==
    LET n == Len(hs)
        pos(s) == {i \in 1 .. n : (q.next + i - 1) % QSize = s}
    IN  [q EXCEPT !.uring = [s \in Heads |-> IF pos(s) = {} THEN q.uring[s]
                                            ELSE hs[CHOOSE i \in pos(s) : TRUE]],
                  !.next = Plus(q.next, n),
                  !.used = Plus(q.next, n)]
RelChain(q, h) == RelChains(q, <<h>>)

\* Entries used since the last vq_endchains().
Batch(q) == Plus(q.used, -q.save)

\* vq_endchains(): interrupt if entries were used since the last call and the
\* driver wants to know, or if the ring is empty and it wants to know that.
EndSave(q) == [q EXCEPT !.save = q.used]

EndIntr(q, usedAll, onEmpty) ==
    (usedAll /\ onEmpty) \/ (q.used # q.save /\ ~q.noIntr)

KickEnable(q)  == [q EXCEPT !.noNotify = FALSE]
KickDisable(q) == [q EXCEPT !.noNotify = TRUE]

----------------------------------------------------------------------------
(* The driver's side of the ring (external) *)

DriverPost(q, h) ==
    [q EXCEPT !.ring[q.avail % QSize] = h, !.avail = Plus(q.avail, 1)]

\* Heads in the avail ring that the device has not taken.
AvailHeads(q) == {q.ring[(q.last + i) % QSize] : i \in 0 .. NDesc(q) - 1}

\* Heads in the used ring that the driver, which has seen `seen' entries, has
\* not taken back.
NUsed(q, seen) == (q.used - seen) % IdxMod
UsedHeads(q, seen) == {q.uring[(seen + i) % QSize] : i \in 0 .. NUsed(q, seen) - 1}

-----------------------------------------------------------------------------
\* rx_merge, VIRTIO_F_NOTIFY_ON_EMPTY, and whether the guest has enabled
\* MSI-X; without it vq_interrupt() takes vsc_mtx. In `tiny' modes the driver
\* may post chains too small for the virtio-net header.
Mode == [merge : BOOLEAN, onEmpty : BOOLEAN, msix : BOOLEAN, tiny : BOOLEAN]

\* Drivers, and the sets of them that the configurations give Modes and Resets.
Plain   == [merge |-> FALSE, onEmpty |-> FALSE, msix |-> TRUE, tiny |-> FALSE]
Merging == [Plain EXCEPT !.merge = TRUE]
Legacy  == [Plain EXCEPT !.onEmpty = TRUE, !.msix = FALSE]
Tiny    == [Plain EXCEPT !.merge = TRUE, !.tiny = TRUE]

PlainOnly   == {Plain}
LegacyOnly  == {Legacy}
PlainLegacy == {Plain, Legacy}
RxModes     == {Merging, Legacy, Tiny}

ASSUME NetAssumption ==
    /\ Queues \subseteq {"rx", "tx"}
    /\ Modes \subseteq Mode /\ Resets \subseteq Modes
    /\ Sizes \subseteq Nat \ {0} /\ Backlog \in Nat /\ MaxBatch \in Nat

NoThread == "none"
Threads  == {"vcpu", "tx", "ev"}

VARIABLES
    vq,         \* vsc_queues and their rings
    vscMtx, rxMtx, txMtx,   \* owners of the three mutexes
    mode,       \* the mode set up last
    resetting, txInProgress,
    cpc,        \* the vcpu thread in vi_pci_write()
    tpc,        \* the tx thread
    txAsleep,   \* it is blocked in pthread_cond_wait(&tx_cond)
    txHead,     \* the chains pci_vtnet_proctx() holds (at most one)
    epc,        \* the event thread
    chains,     \* info[]: the chains pci_vtnet_rx() holds
    pending,    \* interrupts raised and not yet taken by the guest
    tap, bbuf,  \* packets in the tap device and in its bounce buffer
    evWant, evCq, evKq, pipe,   \* me_state, me_cq, the knote, mevent_pipefd
    \* the guest's driver:
    up, owned, seen, posted, kick, drv

netVars    == <<mode, resetting, txInProgress>>
lockVars   == <<vscMtx, rxMtx, txMtx>>
evVars     == <<evWant, evCq, evKq, pipe>>
driverVars == <<up, owned, seen, posted, kick, drv>>
vars == <<vq, lockVars, netVars, cpc, tpc, txAsleep, txHead, epc, chains,
          pending, tap, bbuf, evVars, driverVars>>

CpuPcs == {"run", "kick_tx", "kick_rx", "reset_rx", "reset_tx", "reset_spin",
           "reset_sleep"}
TxPcs  == {"wait", "loop", "enable", "recheck", "proc", "rel", "more", "intr", "relock"}
EvPcs  == {"build", "poll", "rxlock", "peek", "get", "enable", "check", "recv", "intr"}

TypeOK ==
    /\ vq \in [Queues -> Queue]
    /\ vscMtx \in Threads \cup {NoThread} /\ rxMtx \in Threads \cup {NoThread}
    /\ txMtx \in Threads \cup {NoThread}
    /\ mode \in Mode
    /\ resetting \in BOOLEAN /\ txInProgress \in BOOLEAN
    /\ cpc \in CpuPcs /\ tpc \in TxPcs /\ epc \in EvPcs
    /\ txAsleep \in BOOLEAN
    /\ txHead \in SUBSET Heads
    /\ chains \in Seq(Heads)
    /\ pending \subseteq Queues
    /\ tap \in Seq(Sizes) /\ Len(tap) <= Backlog /\ bbuf \in Sizes \cup {0}
    /\ evWant \in BOOLEAN /\ evCq \in BOOLEAN /\ evKq \in BOOLEAN /\ pipe \in BOOLEAN
    /\ up \in BOOLEAN /\ owned \in [Queues -> SUBSET Heads]
    /\ seen \in [Queues -> Idx] /\ posted \subseteq Queues /\ kick \subseteq Queues
    /\ drv \in [Queues -> {"idle", "polling", "recheck"}]

\* pci_vtnet_init(): the receive event is registered disabled, and the tx
\* thread waits for its first signal.
Init ==
    /\ vq = [q \in Queues |-> ResetQueue(NewQueue)]
    /\ vscMtx = NoThread /\ rxMtx = NoThread /\ txMtx = NoThread
    /\ mode = [merge |-> FALSE, onEmpty |-> FALSE, msix |-> FALSE, tiny |-> FALSE]
    /\ resetting = FALSE /\ txInProgress = FALSE
    /\ cpc = "run" /\ tpc = "wait" /\ txAsleep = TRUE /\ txHead = {}
    /\ epc = "build" /\ chains = <<>> /\ pending = {}
    /\ tap = <<>> /\ bbuf = 0
    /\ evWant = FALSE /\ evCq = TRUE /\ evKq = FALSE /\ pipe = FALSE
    /\ up = FALSE /\ owned = [q \in Queues |-> {}] /\ seen = [q \in Queues |-> 0]
    /\ posted = {} /\ kick = {} /\ drv = [q \in Queues |-> "idle"]

----------------------------------------------------------------------------
(* Event loop: mevent.c *)

\* Mutant: the event thread is not woken.
MeventUpdate_NoNotify(t, enable) ==
    IF evWant = enable THEN UNCHANGED evVars
    ELSE /\ evWant' = enable /\ evCq' = TRUE
         /\ UNCHANGED <<pipe, evKq>>

\* mevent_update() by thread t: the change is queued once, and the event
\* thread woken through the pipe.
MeventUpdate(t, enable) ==
    IF evWant = enable THEN UNCHANGED evVars
    ELSE /\ evWant' = enable /\ evCq' = TRUE
         /\ pipe' = (pipe \/ (~evCq /\ t # "ev"))
         /\ UNCHANGED evKq

\* mevent_build() and the kevent() call that applies the change list.
Build ==
    /\ epc = "build"
    /\ evKq' = IF evCq THEN evWant ELSE evKq
    /\ evCq' = FALSE
    /\ epc' = "poll"
    /\ UNCHANGED <<vq, lockVars, netVars, cpc, tpc, txAsleep, txHead, chains, pending,
                   tap, bbuf, evWant, pipe, driverVars>>

\* The blocking kevent() returns; mevent_handle() calls the handlers.
Poll ==
    /\ epc = "poll"
    /\ pipe \/ (evKq /\ tap # <<>>)
    /\ pipe' = FALSE
    /\ epc' = IF evKq /\ tap # <<>> THEN "rxlock" ELSE "build"
    /\ UNCHANGED <<vq, lockVars, netVars, cpc, tpc, txAsleep, txHead, chains, pending,
                   tap, bbuf, evWant, evCq, evKq, driverVars>>

----------------------------------------------------------------------------
(* Interrupts: vq_endchains() and vq_interrupt() *)

\* Without MSI-X all queues share one interrupt.
Raised(q) == pending \cup (IF mode.msix THEN {q} ELSE Queues)

\* vq_endchains() up to the interrupt: MSI-X is sent at once, a legacy
\* interrupt needs vsc_mtx first. `wants' says whether one follows.
EndChains(q, queue, usedAll, wants) ==
    /\ wants = EndIntr(queue, usedAll, mode.onEmpty)
    /\ vq' = [vq EXCEPT ![q] = EndSave(queue)]
    /\ pending' = IF wants /\ mode.msix THEN Raised(q) ELSE pending

----------------------------------------------------------------------------
(* Receive: pci_vtnet_rx_callback() and pci_vtnet_rx() *)

RxLock ==
    /\ epc = "rxlock" /\ rxMtx = NoThread
    /\ rxMtx' = "ev" /\ epc' = "peek" /\ chains' = <<>>
    /\ UNCHANGED <<vq, vscMtx, txMtx, netVars, cpc, tpc, txAsleep, txHead, pending, tap,
                   bbuf, evVars, driverVars>>

\* netbe_peek_recvlen(): the next packet is read into the bounce buffer.
Peek ==
    /\ epc = "peek" /\ (bbuf # 0 \/ tap # <<>>)
    /\ IF bbuf # 0 THEN UNCHANGED <<bbuf, tap>>
                   ELSE bbuf' = Head(tap) /\ tap' = Tail(tap)
    /\ chains' = <<>>
    /\ epc' = "get"
    /\ UNCHANGED <<vq, lockVars, netVars, cpc, tpc, txAsleep, txHead, pending, evVars,
                   driverVars>>

\* Leave pci_vtnet_rx() through vq_endchains(), with the queue as given.
RxFinish(queue, usedAll) ==
    \E wants \in BOOLEAN :
        /\ EndChains("rx", queue, usedAll, wants)
        /\ IF wants /\ ~mode.msix
           THEN epc' = "intr" /\ UNCHANGED rxMtx
           ELSE epc' = "build" /\ rxMtx' = NoThread

PeekNone ==
    /\ epc = "peek" /\ bbuf = 0 /\ tap = <<>>
    /\ RxFinish(vq["rx"], FALSE)
    /\ UNCHANGED <<vscMtx, txMtx, netVars, cpc, tpc, txAsleep, txHead, chains, tap, bbuf,
                   evVars, driverVars>>

\* vq_getchain(). A ring that runs ahead by more than its size makes it return
\* -1, which pci_vtnet_rx() asserts against: bhyve stops.
GetChain ==
    /\ epc = "get" /\ NDesc(vq["rx"]) \in 1 .. QSize
    /\ vq' = [vq EXCEPT !["rx"] = Taken(vq["rx"])]
    /\ chains' = Append(chains, NextHead(vq["rx"]))
    /\ epc' = IF mode.merge /\ Len(chains) + 1 < bbuf THEN "get" ELSE "recv"
    /\ UNCHANGED <<lockVars, netVars, cpc, tpc, txAsleep, txHead, pending, tap, bbuf,
                   evVars, driverVars>>

GetNone ==
    /\ epc = "get" /\ NDesc(vq["rx"]) = 0
    /\ epc' = "enable"
    /\ UNCHANGED <<vq, lockVars, netVars, cpc, tpc, txAsleep, txHead, chains, pending, tap,
                   bbuf, evVars, driverVars>>

\* No buffer: enable kicks ...
RxEnable ==
    /\ epc = "enable"
    /\ vq' = [vq EXCEPT !["rx"] = KickEnable(vq["rx"])]
    /\ epc' = "check"
    /\ UNCHANGED <<lockVars, netVars, cpc, tpc, txAsleep, txHead, chains, pending, tap,
                   bbuf, evVars, driverVars>>

\* Mutant: ... and stop without looking again.
Check_NoRecheck ==
    /\ epc = "check"
    /\ RxFinish(RetChains(vq["rx"], Len(chains)), TRUE)
    /\ MeventUpdate("ev", FALSE)
    /\ chains' = <<>>
    /\ UNCHANGED <<vscMtx, txMtx, netVars, cpc, tpc, txAsleep, txHead, tap, bbuf,
                   driverVars>>

\* ... and look again; if there is still none, return the chains, interrupt,
\* and disable the backend until the next kick.
Check ==
    /\ epc = "check"
    /\ \/ /\ HasDescs(vq["rx"])
          /\ vq' = [vq EXCEPT !["rx"] = KickDisable(vq["rx"])]
          /\ epc' = "get"
          /\ UNCHANGED <<rxMtx, chains, pending, evVars>>
       \/ /\ ~HasDescs(vq["rx"])
          /\ RxFinish(RetChains(vq["rx"], Len(chains)), TRUE)
          /\ MeventUpdate("ev", FALSE)
          /\ chains' = <<>>
    /\ UNCHANGED <<vscMtx, txMtx, netVars, cpc, tpc, txAsleep, txHead, tap, bbuf,
                   driverVars>>

\* netbe_recv(): the packet is copied and its chains are used; one that does
\* not fit is lost and its chains are returned.
Recv ==
    /\ epc = "recv"
    /\ bbuf' = 0
    /\ vq' = [vq EXCEPT !["rx"] = IF Len(chains) < bbuf
                                  THEN RetChains(@, Len(chains))
                                  ELSE RelChains(@, chains)]
    /\ epc' = "peek" /\ chains' = <<>>
    /\ UNCHANGED <<lockVars, netVars, cpc, tpc, txAsleep, txHead, pending, tap, evVars,
                   driverVars>>

\* iov_trim_hdr() fails: the first chain is used for nothing, the others are
\* returned and the packet stays where it is.
RxDropChain ==
    /\ epc = "recv" /\ mode.tiny
    /\ vq' = [vq EXCEPT !["rx"] = RetChains(RelChain(@, chains[1]), Len(chains) - 1)]
    /\ epc' = "peek" /\ chains' = <<>>
    /\ UNCHANGED <<lockVars, netVars, cpc, tpc, txAsleep, txHead, pending, tap, bbuf, evVars,
                   driverVars>>

\* vq_interrupt() without MSI-X, rx_mtx held.
RxIntr ==
    /\ epc = "intr" /\ vscMtx = NoThread
    /\ pending' = Raised("rx")
    /\ rxMtx' = NoThread /\ epc' = "build"
    /\ UNCHANGED <<vq, vscMtx, txMtx, netVars, cpc, tpc, txAsleep, txHead, chains, tap,
                   bbuf, evVars, driverVars>>

----------------------------------------------------------------------------
(* Transmit: pci_vtnet_tx_thread() *)

\* pthread_cond_wait(&sc->tx_cond) returns, or tx_mtx is taken after a batch.
TxLock ==
    /\ tpc \in {"wait", "relock"} /\ ~txAsleep /\ txMtx = NoThread
    /\ txMtx' = "tx" /\ tpc' = "loop"
    /\ UNCHANGED <<vq, vscMtx, rxMtx, netVars, cpc, txAsleep, txHead, epc, chains,
                   pending, tap, bbuf, evVars, driverVars>>

\* Work found under tx_mtx: start a batch.
TxStart ==
    /\ vq' = [vq EXCEPT !["tx"] = KickDisable(vq["tx"])]
    /\ txInProgress' = TRUE /\ txMtx' = NoThread /\ tpc' = "proc"
    /\ UNCHANGED txAsleep

TxLoop ==
    /\ tpc = "loop"
    /\ \/ /\ ~resetting /\ HasDescs(vq["tx"])
          /\ TxStart
       \/ /\ resetting \/ ~HasDescs(vq["tx"])
          /\ tpc' = "enable"
          /\ UNCHANGED <<vq, txInProgress, txMtx, txAsleep>>
    /\ UNCHANGED <<vscMtx, rxMtx, mode, resetting, cpc, txHead, epc, chains,
                   pending, tap, bbuf, evVars, driverVars>>

TxEnable ==
    /\ tpc = "enable"
    /\ vq' = [vq EXCEPT !["tx"] = KickEnable(vq["tx"])]
    /\ tpc' = "recheck"
    /\ UNCHANGED <<lockVars, netVars, cpc, txAsleep, txHead, epc, chains, pending, tap, bbuf,
                   evVars, driverVars>>

\* Mutant: poll the ring instead of waiting, tx_mtx held.
TxWait_Spin ==
    /\ tpc' = "loop"
    /\ UNCHANGED <<vq, txInProgress, txMtx, txAsleep>>

TxWait ==
    /\ txInProgress' = FALSE /\ txMtx' = NoThread /\ txAsleep' = TRUE /\ tpc' = "wait"
    /\ UNCHANGED vq

\* Mutant: sleep without looking again.
TxRecheck_NoCheck ==
    /\ tpc = "recheck"
    /\ TxWait
    /\ UNCHANGED <<vscMtx, rxMtx, mode, resetting, cpc, txHead, epc, chains,
                   pending, tap, bbuf, evVars, driverVars>>

\* Kicks are enabled: look again before sleeping.
TxRecheck ==
    /\ tpc = "recheck"
    /\ IF ~resetting /\ HasDescs(vq["tx"]) THEN TxStart ELSE TxWait
    /\ UNCHANGED <<vscMtx, rxMtx, mode, resetting, cpc, txHead, epc, chains,
                   pending, tap, bbuf, evVars, driverVars>>

\* pci_vtnet_proctx(): take a chain ...
TxTake ==
    /\ tpc = "proc"
    /\ txHead' = {NextHead(vq["tx"])}
    /\ vq' = [vq EXCEPT !["tx"] = Taken(vq["tx"])]
    /\ tpc' = "rel"
    /\ UNCHANGED <<lockVars, netVars, cpc, txAsleep, epc, chains, pending, tap, bbuf,
                   evVars, driverVars>>

\* ... send it (or fail: the length does not matter here) and return it.
TxRelease ==
    /\ tpc = "rel"
    /\ \E h \in txHead : vq' = [vq EXCEPT !["tx"] = RelChain(vq["tx"], h)]
    /\ txHead' = {} /\ tpc' = "more"
    /\ UNCHANGED <<lockVars, netVars, cpc, txAsleep, epc, chains, pending, tap, bbuf,
                   evVars, driverVars>>

\* The batch goes on, or ends with vq_endchains().
TxMore ==
    /\ tpc = "more"
    /\ IF HasDescs(vq["tx"])
       THEN tpc' = "proc" /\ UNCHANGED <<vq, pending>>
       ELSE \E wants \in BOOLEAN :
              /\ EndChains("tx", vq["tx"], TRUE, wants)
              /\ tpc' = IF wants /\ ~mode.msix THEN "intr" ELSE "relock"
    /\ UNCHANGED <<lockVars, netVars, cpc, txAsleep, txHead, epc, chains, tap, bbuf,
                   evVars, driverVars>>

\* vq_interrupt() without MSI-X.
TxIntr ==
    /\ tpc = "intr" /\ vscMtx = NoThread
    /\ pending' = Raised("tx") /\ tpc' = "relock"
    /\ UNCHANGED <<vq, lockVars, netVars, cpc, txAsleep, txHead, epc, chains, tap, bbuf,
                   evVars, driverVars>>

----------------------------------------------------------------------------
(* Register writes of the guest: vi_pci_write(), vsc_mtx held throughout *)

\* VTCFG_R_QNOTIFY: pci_vtnet_ping_txq() looks at the ring without tx_mtx.
QNotifyTx ==
    /\ cpc = "run" /\ vscMtx = NoThread /\ "tx" \in kick
    /\ kick' = kick \ {"tx"}
    /\ IF HasDescs(vq["tx"]) THEN vscMtx' = "vcpu" /\ cpc' = "kick_tx"
                             ELSE UNCHANGED <<vscMtx, cpc>>
    /\ UNCHANGED <<vq, rxMtx, txMtx, netVars, tpc, txAsleep, txHead, epc, chains, pending,
                   tap, bbuf, evVars, up, owned, seen, posted, drv>>

PingTx ==
    /\ cpc = "kick_tx" /\ txMtx = NoThread
    /\ vq' = [vq EXCEPT !["tx"] = KickDisable(vq["tx"])]
    /\ txAsleep' = (txAsleep /\ txInProgress)
    /\ vscMtx' = NoThread /\ cpc' = "run"
    /\ UNCHANGED <<rxMtx, txMtx, netVars, tpc, txHead, epc, chains, pending, tap, bbuf,
                   evVars, driverVars>>

QNotifyRx ==
    /\ cpc = "run" /\ vscMtx = NoThread /\ "rx" \in kick
    /\ kick' = kick \ {"rx"}
    /\ vscMtx' = "vcpu" /\ cpc' = "kick_rx"
    /\ UNCHANGED <<vq, rxMtx, txMtx, netVars, tpc, txAsleep, txHead, epc, chains, pending,
                   tap, bbuf, evVars, up, owned, seen, posted, drv>>

\* pci_vtnet_ping_rxq(): the receive process can now begin.
PingRx ==
    /\ cpc = "kick_rx" /\ rxMtx = NoThread
    /\ vq' = [vq EXCEPT !["rx"] = KickDisable(vq["rx"])]
    /\ MeventUpdate("vcpu", TRUE)
    /\ vscMtx' = NoThread /\ cpc' = "run"
    /\ UNCHANGED <<rxMtx, txMtx, netVars, tpc, txAsleep, txHead, epc, chains, pending,
                   tap, bbuf, driverVars>>

\* VTCFG_R_STATUS = 0: the driver has stopped using the rings.
Reset ==
    /\ mode \in Resets /\ up /\ cpc = "run" /\ vscMtx = NoThread
    /\ vscMtx' = "vcpu" /\ cpc' = "reset_rx"
    /\ up' = FALSE /\ posted' = {} /\ kick' = {}
    /\ UNCHANGED <<vq, rxMtx, txMtx, netVars, tpc, txAsleep, txHead, epc, chains, pending,
                   tap, bbuf, evVars, owned, seen, drv>>

\* pci_vtnet_reset(): rx_mtx stops receiving ...
ResetRx ==
    /\ cpc = "reset_rx" /\ rxMtx = NoThread
    /\ rxMtx' = "vcpu" /\ cpc' = "reset_tx"
    /\ MeventUpdate("vcpu", FALSE)
    /\ UNCHANGED <<vq, vscMtx, txMtx, netVars, tpc, txAsleep, txHead, epc, chains, pending,
                   tap, bbuf, driverVars>>

\* ... the tx thread is asked to stop ...
ResetTx ==
    /\ cpc = "reset_tx" /\ txMtx = NoThread
    /\ resetting' = TRUE /\ cpc' = "reset_spin"
    /\ UNCHANGED <<vq, lockVars, mode, txInProgress, tpc, txAsleep, txHead,
                   epc, chains, pending, tap, bbuf, evVars, driverVars>>

\* vi_reset_dev(), and what the driver forgets with it.
ResetDev ==
    /\ vq' = [q \in Queues |-> ResetQueue(vq[q])]
    /\ pending' = {} /\ mode' = [mode EXCEPT !.onEmpty = FALSE] /\ resetting' = FALSE
    /\ vscMtx' = NoThread /\ rxMtx' = NoThread /\ cpc' = "run"
    /\ owned' = [q \in Queues |-> {}] /\ seen' = [q \in Queues |-> 0]
    /\ drv' = [q \in Queues |-> "idle"]
    /\ UNCHANGED <<txMtx, txInProgress, tpc, txAsleep, txHead, epc, chains, tap,
                   bbuf, evVars, up, posted, kick>>

\* Mutant: the reset does not wait for the tx thread.
ResetSpin_NoWait ==
    /\ cpc = "reset_spin" /\ txMtx = NoThread
    /\ ResetDev

\* ... and waited for, tx_mtx released between two looks.
ResetSpin ==
    /\ cpc = "reset_spin" /\ txMtx = NoThread /\ ~txInProgress
    /\ ResetDev

ResetSleep ==
    /\ \/ cpc = "reset_spin" /\ txMtx = NoThread /\ txInProgress /\ cpc' = "reset_sleep"
       \/ cpc = "reset_sleep" /\ cpc' = "reset_spin"
    /\ UNCHANGED <<vq, lockVars, netVars, tpc, txAsleep, txHead, epc, chains, pending, tap,
                   bbuf, evVars, driverVars>>

\* The driver negotiates features and hands over its rings: VTCFG_R_GUESTCAP
\* (pci_vtnet_neg_features()) and VTCFG_R_PFN (vi_vq_init()).
Setup ==
    /\ ~up /\ cpc = "run" /\ vscMtx = NoThread
    /\ up' = TRUE
    /\ vq' = [q \in Queues |-> NewQueue]
    /\ mode' \in Modes
    /\ UNCHANGED <<lockVars, resetting, txInProgress, cpc, tpc, txAsleep, txHead, epc,
                   chains, pending, tap, bbuf, evVars, owned, seen, posted, kick, drv>>

----------------------------------------------------------------------------
(* The guest's driver and the network (external) *)

\* The chains the device holds.
Hand(q) == IF q = "tx" THEN txHead ELSE {chains[i] : i \in DOMAIN chains}

\* Descriptors are interchangeable: the driver takes the lowest free one.
Post(q) ==
    /\ up /\ q \notin posted
    /\ Batch(vq[q]) + NDesc(vq[q]) + Cardinality(Hand(q)) < MaxBatch
    /\ \E h \in Heads \ owned[q] :
        /\ \A g \in Heads \ owned[q] : h <= g
        /\ vq' = [vq EXCEPT ![q] = DriverPost(vq[q], h)]
        /\ owned' = [owned EXCEPT ![q] = @ \cup {h}]
    /\ posted' = posted \cup {q}
    /\ UNCHANGED <<lockVars, netVars, cpc, tpc, txAsleep, txHead, epc, chains, pending,
                   tap, bbuf, evVars, up, seen, kick, drv>>

\* After a barrier, the driver looks whether the device wants a kick.
PostDone(q) ==
    /\ q \in posted
    /\ posted' = posted \ {q}
    /\ kick' = IF vq[q].noNotify THEN kick ELSE kick \cup {q}
    /\ UNCHANGED <<vq, lockVars, netVars, cpc, tpc, txAsleep, txHead, epc, chains,
                   pending, tap, bbuf, evVars, up, owned, seen, drv>>

\* The interrupt handler stops interrupts and polls. Without MSI-X it reads
\* (and so clears) VTCFG_R_ISR first and looks at all queues.
Interrupt(q) ==
    /\ up /\ q \in pending /\ drv[q] = "idle"
    /\ mode.msix \/ (vscMtx = NoThread /\ cpc = "run")
    /\ pending' = IF mode.msix THEN pending \ {q} ELSE {}
    /\ LET woken == {p \in Queues : drv[p] = "idle" /\ (p = q \/ ~mode.msix)} IN
        /\ drv' = [p \in Queues |-> IF p \in woken THEN "polling" ELSE drv[p]]
        /\ vq' = [p \in Queues |-> [vq[p] EXCEPT !.noIntr = @ \/ p \in woken]]
    /\ UNCHANGED <<lockVars, netVars, cpc, tpc, txAsleep, txHead, epc, chains, tap, bbuf,
                   evVars, up, owned, seen, posted, kick>>

\* Take back everything used, then allow interrupts and look again.
Reap(q) ==
    /\ up /\ drv[q] = "polling"
    /\ owned' = [owned EXCEPT ![q] = @ \ UsedHeads(vq[q], seen[q])]
    /\ seen' = [seen EXCEPT ![q] = vq[q].used]
    /\ vq' = [vq EXCEPT ![q].noIntr = FALSE]
    /\ drv' = [drv EXCEPT ![q] = "recheck"]
    /\ UNCHANGED <<lockVars, netVars, cpc, tpc, txAsleep, txHead, epc, chains, pending,
                   tap, bbuf, evVars, up, posted, kick>>

Recheck(q) ==
    /\ up /\ drv[q] = "recheck"
    /\ LET more == vq[q].used # seen[q] IN
        /\ drv' = [drv EXCEPT ![q] = IF more THEN "polling" ELSE "idle"]
        /\ vq' = [vq EXCEPT ![q].noIntr = more]
    /\ UNCHANGED <<lockVars, netVars, cpc, tpc, txAsleep, txHead, epc, chains, pending,
                   tap, bbuf, evVars, up, owned, seen, posted, kick>>

\* A packet reaches the tap device.
Arrive ==
    /\ "rx" \in Queues /\ Len(tap) < Backlog
    /\ \E n \in Sizes : tap' = Append(tap, n)
    /\ UNCHANGED <<vq, lockVars, netVars, cpc, tpc, txAsleep, txHead, epc, chains,
                   pending, bbuf, evVars, driverVars>>

----------------------------------------------------------------------------
EventStep == "rx" \in Queues /\
    (\/ Build \/ Poll \/ RxLock \/ Peek \/ PeekNone \/ GetChain \/ GetNone \/ RxEnable
     \/ Check \/ Recv \/ RxDropChain \/ RxIntr)
TxStep == "tx" \in Queues /\
    (\/ TxLock \/ TxLoop \/ TxEnable \/ TxRecheck \/ TxTake \/ TxRelease \/ TxMore \/ TxIntr)
VcpuStep ==
    \/ "tx" \in Queues /\ (QNotifyTx \/ PingTx)
    \/ "rx" \in Queues /\ (QNotifyRx \/ PingRx)
    \/ ResetRx \/ ResetTx \/ ResetSpin \/ ResetSleep
DriverStep(q) == PostDone(q) \/ Interrupt(q) \/ Reap(q) \/ Recheck(q)

Next == \/ EventStep \/ TxStep \/ VcpuStep
        \/ Reset \/ Setup \/ Arrive
        \/ \E q \in Queues : Post(q) \/ DriverStep(q)

\* bhyve's threads are scheduled and the driver keeps to the protocol. It need
\* not post or reset; packets keep arriving. A thread that waits for a mutex
\* released again and again gets it.
Fairness ==
    /\ SF_vars(VcpuStep)
    /\ \A q \in Queues \cap {"rx"} : WF_vars(EventStep) /\ WF_vars(Arrive)
    /\ \A q \in Queues \cap {"tx"} : SF_vars(TxStep)
    /\ \A q \in Queues : WF_vars(DriverStep(q))

Spec     == Init /\ [][Next]_vars
FairSpec == Spec /\ Fairness

----------------------------------------------------------------------------
(* Properties *)

\* No chain is lost, returned twice or taken while the driver owns it: the
\* chains the driver has given away are those in the avail ring, those the
\* device holds and those in the used ring, each in one place only.
ChainsConserved ==
    up => \A q \in Queues :
        /\ owned[q] = AvailHeads(vq[q]) \cup Hand(q) \cup UsedHeads(vq[q], seen[q])
        /\ Cardinality(owned[q]) =
               NDesc(vq[q]) + Cardinality(Hand(q)) + NUsed(vq[q], seen[q])

\* "Make sure receive operation is disabled at least until we re-negotiate the
\* features" (pci_vtnet_reset): no receive buffer is used on a queue that has
\* been reset.
NoRxAfterReset == "rx" \in Queues => (Hand("rx") # {} => vq["rx"].alloc)

\* A driver that was told not to kick (VRING_USED_F_NO_NOTIFY) relies on the
\* device to look at the ring again: chains never wait for a sleeping tx
\* thread, and chains enough for the next packet never wait for a disabled
\* receive event, without a kick on its way.
NoLostKick ==
    up => /\ "tx" \in Queues /\ HasDescs(vq["tx"]) /\ txAsleep
                 => "tx" \in posted \cup kick \/ cpc = "kick_tx"
          /\ "rx" \in Queues /\ HasDescs(vq["rx"]) /\ ~evWant
                 /\ (mode.merge => NDesc(vq["rx"]) >= bbuf)
                 => "rx" \in posted \cup kick \/ cpc = "kick_rx"

\* Used chains never wait for a driver that allows interrupts without an
\* interrupt pending or a vq_endchains() on its way.
NoLostInterrupt ==
    up => \A q \in Queues :
        drv[q] = "idle" /\ vq[q].used # seen[q] =>
            \/ q \in pending
            \/ q = "tx" /\ tpc \in {"proc", "rel", "more", "intr"}
            \/ q = "rx" /\ epc \in {"peek", "get", "enable", "check", "recv", "intr"}

\* Neither side of a queue waits for a notification the other will not send
\* (vq_kick_enable() and the recheck after it, vq_endchains()).
NoLostNotification == NoLostKick /\ NoLostInterrupt

\* Every transmit chain comes back to the driver, or the device is reset.
TxCompletes ==
    \A h \in Heads : (up /\ h \in owned["tx"]) ~> (~up \/ h \notin owned["tx"])

\* "give a chance to the TX thread to stop" (pci_vtnet_reset): the reset ends.
ResetCompletes == (cpc = "reset_rx") ~> (cpc = "run")

\* With MSI-X, a packet in the bounce buffer is delivered or dropped once the
\* driver has posted receive chains, as long as packets keep arriving.
RxDelivers ==
    (bbuf # 0 /\ up /\ mode.msix /\ ~mode.tiny /\ NDesc(vq["rx"]) = QSize)
        ~> (bbuf = 0 \/ ~up)

\* "A qnotify means that the rx process can now begin" (pci_vtnet_ping_rxq):
\* a kick of the receive queue leaves the backend enabled or at work.
RxBegins == (cpc = "kick_rx") ~> (cpc = "run")
============================================================================
