-------------------------------- MODULE Nvme --------------------------------
(* The NVMe controller of pci_nvme.c: the controller registers, the admin     *)
(* commands that make and remove the I/O queue pair, the thread that handles  *)
(* a doorbell, the callbacks of the block backend and the completion queue    *)
(* with its phase bits, read by the guest's interrupt handler.                *)
EXTENDS Naturals, Sequences, FiniteSets

CONSTANTS Tags,      \* command identifiers the guest uses
          CqSize,    \* entries of the I/O completion queue
          IoSlots,   \* ioslots: requests the controller has for the backend
          MaxRanges, \* ranges of a DATASET MANAGEMENT command
          Locked,    \* the guest rings a queue's doorbell under a lock
          GuestOps   \* bound: controller resets
VARIABLE sc

\* How an I/O command proceeds: FLUSH and WRITE ZEROES at once, READ and WRITE
\* through the backend, a DSM range by range, "bad" an unknown opcode or PRP,
\* "advice" a DSM without the deallocate attribute, "large" a transfer of more
\* than NVME_MAX_BLOCKIOVS pieces, made in parts.
Kinds == {"flush", "rw", "dsm", "bad", "advice", "large"}
None  == "none"

Entry == [cid : Tags \cup {None}, phase : {0, 1}]

\* bound: the submission queue's cqid names the I/O completion queue (it is 0,
\* the admin queue's, after a reset). gone: the queues deleted since the reset.
\* stray: an I/O completion was written to the admin completion queue.
\* dead: the assertion of pci_nvme_set_completion() failed. A request that is
\* "held" is with the thread that makes a large transfer.
Softc ==
    [en : BOOLEAN, rdy : BOOLEAN, cqLive : BOOLEAN, sqLive : BOOLEAN, ram : BOOLEAN,
     bound : BOOLEAN, gone : SUBSET {"sq", "cq"}, stray : BOOLEAN, dead : BOOLEAN,
     sq : Seq(Tags), db : {"off", "loop", "leave", "part", "sleep", "woken"},
     kind : [Tags -> Kinds \cup {None}], work : [Tags -> 0..MaxRanges],
     req : [Tags -> {None, "queued", "busy", "held"}], posting : 0..IoSlots,
     sem : 0..IoSlots, pending : 0..IoSlots,
     cq : [0..(CqSize - 1) -> Entry], tail : 0..(CqSize - 1), head : 0..(CqSize - 1),
     msix : BOOLEAN, isr : BOOLEAN, ghead : 0..(CqSize - 1), gphase : {0, 1},
     posted : Seq(Tags), failed : SUBSET Tags, ops : 0..GuestOps]

TypeOK == sc \in Softc

EmptyCq == [i \in 0..(CqSize - 1) |-> [cid |-> None, phase |-> 0]]

Init ==
    \E ram \in BOOLEAN :
        sc = [en |-> FALSE, rdy |-> FALSE, cqLive |-> FALSE, sqLive |-> FALSE, ram |-> ram,
              bound |-> FALSE, gone |-> {}, stray |-> FALSE, dead |-> FALSE, sq |-> <<>>, db |-> "off",
              kind |-> [t \in Tags |-> None], work |-> [t \in Tags |-> 0],
              req |-> [t \in Tags |-> None], posting |-> 0, sem |-> IoSlots, pending |-> 0,
              cq |-> EmptyCq, tail |-> 0, head |-> 0, msix |-> FALSE, isr |-> FALSE,
              ghead |-> 0, gphase |-> 1, posted |-> <<>>, failed |-> {}, ops |-> 0]

----------------------------------------------------------------------------
(* Controller registers and admin commands                                  *)

Outstanding == {t \in Tags : sc.kind[t] # None}
Next1(i) == (i + 1) % CqSize

\* CC.EN is set: the controller is ready once no request of before is pending.
Enable == ~sc.en /\ sc' = [sc EXCEPT !.en = TRUE, !.rdy = sc.pending = 0]

\* CC.EN is cleared: pci_nvme_reset_locked(). The requests in flight go on; the
\* driver, which has stopped ringing, forgets its commands.
Disable ==
    /\ sc.en /\ sc.db = "off" /\ sc.ops < GuestOps
    /\ LET Keep(f, none) == [t \in Tags |-> IF sc.req[t] = None THEN none ELSE f[t]]
       IN sc' = [sc EXCEPT !.en = FALSE, !.rdy = FALSE, !.sqLive = FALSE, !.cqLive = FALSE, !.bound = FALSE,
                           !.gone = {}, !.stray = FALSE, !.sq = <<>>, !.tail = 0, !.head = 0,
                           !.kind = Keep(@, None), !.work = Keep(@, 0), !.posted = <<>>, !.failed = {},
                           !.isr = FALSE, !.ops = @ + 1]

\* Neither creation nor deletion resets the indices of the queue, so the driver
\* makes a queue once between two resets. It clears the memory of a completion
\* queue it creates, and deletes the submission queue first.
CreateIoCq ==
    /\ sc.rdy /\ ~sc.cqLive /\ "cq" \notin sc.gone
    /\ sc' = [sc EXCEPT !.cqLive = TRUE, !.cq = EmptyCq, !.ghead = 0, !.gphase = 1]
CreateIoSq ==
    /\ sc.cqLive /\ ~sc.sqLive /\ sc.rdy /\ "sq" \notin sc.gone
    /\ sc' = [sc EXCEPT !.sqLive = TRUE, !.bound = TRUE]
DeleteIoSq == sc.rdy /\ sc.sqLive /\ sc.db = "off" /\ sc' = [sc EXCEPT !.sqLive = FALSE, !.gone = @ \cup {"sq"}]
DeleteIoCq == sc.rdy /\ ~sc.sqLive /\ sc.cqLive /\ sc' = [sc EXCEPT !.cqLive = FALSE, !.gone = @ \cup {"cq"}]

Admin == CreateIoCq \/ CreateIoSq \/ DeleteIoSq \/ DeleteIoCq

----------------------------------------------------------------------------
(* Completion                                                               *)

\* pci_nvme_set_completion(): the entry's phase is the opposite of what the
\* memory holds; the interrupt depends on the guest's head. After a reset the
\* entry goes to the admin queue.
Post(p, t, err) ==
    LET to == (p.tail + 1) % CqSize
    IN [p EXCEPT !.cq[p.tail] = [cid |-> t, phase |-> 1 - @.phase],
                 !.tail = to, !.msix = @ \/ p.head # to,
                 !.posted = Append(@, t), !.failed = IF err THEN @ \cup {t} ELSE @]

\* "assert(cq->qbase != NULL)" ends the process where it is.
SetCompletion(p, t, err) ==
    IF ~p.bound THEN [p EXCEPT !.stray = TRUE, !.kind[t] = None]
    ELSE IF ~p.cqLive THEN [sc EXCEPT !.dead = TRUE]
    ELSE Post(p, t, err)

GetIoreq(p)     == [p EXCEPT !.sem = @ - 1, !.pending = @ + 1]

ReleaseIoreq(p) ==
    [p EXCEPT !.sem = @ + 1, !.pending = @ - 1, !.rdy = @ \/ (p.pending = 1 /\ p.en)]

----------------------------------------------------------------------------
(* The thread that handles a doorbell                                       *)

\* The guest puts a command in the submission queue and rings. A handler that
\* is running sees the new tail; otherwise the thread takes the busy flag.
SubmitOne(t, k, n) ==
    /\ sc.rdy /\ sc.sqLive /\ t \notin Outstanding /\ (Locked => sc.db = "off")
    \* the completion queue has room for what the guest has not acknowledged
    /\ Cardinality(Outstanding) + ((sc.tail - sc.head + CqSize) % CqSize) < CqSize - 1
    /\ sc' = [sc EXCEPT !.kind[t] = k, !.work[t] = n, !.sq = Append(@, t),
                        !.db = IF @ = "off" THEN "loop" ELSE @]

Submit(t) == \E k \in Kinds, n \in 0..MaxRanges :
    /\ k \in {"dsm", "large"} <=> n > 1
    /\ k = "rw" <=> n = 1
    /\ SubmitOne(t, k, n)

\* One turn of the loop of pci_nvme_handle_io_cmd(). A large transfer's first
\* part is given to the backend by pci_nvme_append_iov_req().
HandleIoCmd ==
    /\ sc.db = "loop" /\ sc.sq # <<>>
    /\ LET t == Head(sc.sq)
           p == [sc EXCEPT !.sq = Tail(@)]
           q == GetIoreq(p)
           Failed == ReleaseIoreq(SetCompletion([q EXCEPT !.work[t] = 0], t, TRUE))
       IN \/ sc.kind[t] = "flush" /\ sc' = SetCompletion(p, t, FALSE)
          \/ /\ sc.kind[t] # "flush" /\ sc.ram
             /\ \E err \in BOOLEAN :
                    /\ sc.kind[t] \in {"bad", "dsm"} => err
                    /\ sc' = SetCompletion([p EXCEPT !.work[t] = 0], t, err)
          \/ /\ sc.kind[t] = "bad" /\ ~sc.ram /\ sc.sem > 0 /\ sc' = Failed
          \/ \* the status variable was never assigned
             /\ sc.kind[t] = "advice" /\ ~sc.ram /\ sc.sem > 0
             /\ \E err \in BOOLEAN : sc' = ReleaseIoreq(SetCompletion(q, t, err))
          \/ /\ sc.kind[t] \in {"rw", "dsm"} /\ ~sc.ram /\ sc.sem > 0
             /\ sc' = [q EXCEPT !.req[t] = "queued"]
          \/ /\ sc.kind[t] = "large" /\ ~sc.ram /\ sc.sem > 0
             /\ sc' = [q EXCEPT !.req[t] = "queued", !.db = "part"]

\* The thread waits for the part on the request's condition variable and then
\* goes on with the next, or with the last, which io_done completes.
PartSleep == sc.db = "part" /\ sc' = [sc EXCEPT !.db = "sleep"]
NextPart(t) ==
    /\ sc.db = "woken" /\ sc.req[t] = "held"
    /\ sc' = [sc EXCEPT !.req[t] = "queued", !.db = IF sc.work[t] > 1 THEN "part" ELSE "loop"]

LoopEnds == sc.db = "loop" /\ sc.sq = <<>> /\ sc' = [sc EXCEPT !.db = "leave"]
Unbusy   == sc.db = "leave" /\ sc' = [sc EXCEPT !.db = "off"]

----------------------------------------------------------------------------
(* The block backend's threads                                              *)

BackendStarts(t) == sc.req[t] = "queued" /\ sc' = [sc EXCEPT !.req[t] = "busy"]

\* pci_nvme_io_done() and pci_nvme_dealloc_sm(): the next range, or the
\* completion; the request is released afterwards, under another lock.
\* Mutant: the first backend transfer completes the command.
IoDone_First(t, err) ==
    SetCompletion([sc EXCEPT !.req[t] = None, !.work[t] = 0, !.posting = @ + 1], t, err)

IoDone(t, err) ==
    IF ~err /\ sc.work[t] > 1 THEN [sc EXCEPT !.work[t] = @ - 1, !.req[t] = "queued"]
    ELSE SetCompletion([sc EXCEPT !.req[t] = None, !.work[t] = 0, !.posting = @ + 1], t, err)

\* pci_nvme_io_partial(): the signal, without the request's mutex and whatever
\* the error. It reaches nobody when the thread does not wait yet.
IoPartial(t) == [sc EXCEPT !.work[t] = @ - 1, !.req[t] = "held", !.db = IF @ = "sleep" THEN "woken" ELSE @]

Callback(t) ==
    /\ sc.req[t] = "busy"
    /\ IF sc.kind[t] = "large" /\ sc.work[t] > 1 THEN sc' = IoPartial(t)
       ELSE \E err \in BOOLEAN : sc' = IoDone(t, err)

Release == sc.posting > 0 /\ sc' = ReleaseIoreq([sc EXCEPT !.posting = @ - 1])

----------------------------------------------------------------------------
(* The guest's interrupt handler                                            *)

Visible == sc.cq[sc.ghead].phase = sc.gphase

\* The driver still looks at a queue it has deleted.
IsrEnter == sc.msix /\ ~sc.isr /\ (sc.cqLive \/ "cq" \in sc.gone) /\ sc' = [sc EXCEPT !.msix = FALSE, !.isr = TRUE]

\* The handler takes the next entry whose phase is the one it expects.
IsrTake ==
    /\ sc.isr /\ Visible
    /\ LET t == sc.cq[sc.ghead].cid
       IN sc' = [sc EXCEPT !.kind[t] = None, !.work[t] = 0, !.failed = @ \ {t}, !.posted = Tail(@),
                           !.cq[sc.ghead].cid = None,
                           !.ghead = Next1(@), !.gphase = IF Next1(sc.ghead) = 0 THEN 1 - @ ELSE @]

\* It finds no more and writes the completion queue's doorbell.
IsrLeave == sc.isr /\ ~Visible /\ sc' = [sc EXCEPT !.isr = FALSE, !.head = sc.ghead]

Guest == Enable \/ Disable \/ Admin \/ (\E t \in Tags : Submit(t)) \/ IsrEnter \/ IsrTake \/ IsrLeave
Thread == HandleIoCmd \/ PartSleep \/ (\E t \in Tags : NextPart(t)) \/ LoopEnds \/ Unbusy
Next == ~sc.dead /\ (Guest \/ Thread \/ Release \/ \E t \in Tags : BackendStarts(t) \/ Callback(t))

vars == <<sc>>

NvmeSpec == Init /\ [][Next]_vars

\* The threads of the controller and of the backend run, and the guest serves
\* its interrupts.
Fairness ==
    /\ WF_vars(~sc.dead /\ Thread) /\ WF_vars(~sc.dead /\ Release)
    /\ WF_vars(~sc.dead /\ (IsrEnter \/ IsrTake \/ IsrLeave))
    /\ \A t \in Tags : WF_vars(~sc.dead /\ (BackendStarts(t) \/ Callback(t)))
FairSpec == NvmeSpec /\ Fairness

----------------------------------------------------------------------------
(* Properties                                                               *)

\* The semaphore, the free list and pending_ios agree, so a request is there
\* whenever the semaphore lets a thread through.
Accounted ==
    LET used == Cardinality({t \in Tags : sc.req[t] # None}) + sc.posting
    IN sc.pending = used /\ sc.sem + used = IoSlots

\* What the guest finds by the phase bits is what was posted, in order, once:
\* the entries from its head on are the posted ones and the next is not valid.
PhasesAgree ==
    LET n == Len(sc.posted)
        At(i) == (sc.ghead + i) % CqSize
        Expected(i) == IF sc.ghead + i >= CqSize THEN 1 - sc.gphase ELSE sc.gphase
    IN /\ n < CqSize
       /\ \A i \in 0..(n - 1) : sc.cq[At(i)].cid = sc.posted[i + 1] /\ sc.cq[At(i)].phase = Expected(i)
       /\ sc.cqLive => sc.cq[At(n)].phase # Expected(n)

\* A completion the guest has not taken has an interrupt pending or a handler
\* running that has yet to look at it.
NoLostInterrupt == sc.posted # <<>> => sc.msix \/ sc.isr

\* When no thread handles the queue, nothing is left in it:
\* "handle all submissions up to sq->tail index".
QueueHandled == sc.db = "off" => sc.sq = <<>>

\* A command that is submitted is completed, and a controller that is enabled
\* becomes ready, unless the signal of a part came before the thread waited or
\* the assertion stopped the process.
Missed   == sc.db = "sleep" /\ \E t \in Tags : sc.req[t] = "held"
Busy(t)  == sc.kind[t] # None
Done(t)  == sc.kind[t] = None \/ Missed \/ sc.dead
Starting == sc.en /\ ~sc.rdy

\* "assert(cq->qbase != NULL)" (pci_nvme_set_completion()): a completion finds
\* its queue. It does not when the queues are deleted with a request in flight.
QueueIsThere == ~sc.dead

\* "wait until req completes before cont" (pci_nvme_append_iov_req()): the
\* thread goes on once the part of a large transfer has completed. It does not
\* when the part completes before the thread waits.
PartsGoOn == sc.db = "sleep" ~> sc.db # "sleep"

\* The command service the I/O queue pair provides.
Status  == [t \in Tags |-> IF ~Busy(t) THEN "free" ELSE IF ~sc.bound THEN "lost"
                           ELSE IF t \in sc.failed THEN "failed"
                           ELSE IF \E i \in 1..Len(sc.posted) : sc.posted[i] = t THEN "free" ELSE "issued"]
Work    == [t \in Tags |-> IF Status[t] = "issued" /\ ~sc.ram THEN sc.work[t] ELSE 0]
Moving  == {t \in Tags : sc.req[t] = "busy" /\ sc.bound}
Running == sc.en
============================================================================
