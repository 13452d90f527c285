------------------------------ MODULE BlockIf ------------------------------
(***************************************************************************)
(* The block-device backend of bhyve (block_if.c): a pool of worker        *)
(* threads serves the requests of a device model, which may cancel them,   *)
(* pause the backend for a snapshot, and close it.                         *)
(*                                                                         *)
(* bc_mtx is held over several steps only by blockif_cancel(), which spins *)
(* on a request in flight; `canceller' records it, and every other section *)
(* under bc_mtx is one step that waits for it (MtxFree). The device model  *)
(* calls blockif_request() and blockif_cancel() with its own lock held and *)
(* its completion callback takes that lock, so the same variable stands    *)
(* for the device lock.                                                    *)
(***************************************************************************)
EXTENDS Integers, FiniteSets, TLC

CONSTANTS
    Elems,      \* bc_reqs, BLOCKIF_MAXREQ request elements
    Workers,    \* bc_btid, BLOCKIF_NUMTHR worker threads
    Reqs,       \* the device model's request objects, BLOCKIF_RING_MAX of them
    Offsets,    \* disk offsets
    Features    \* subset of {"cancel", "pause", "close"}

\* Elements, workers and requests are each interchangeable.
Symmetry == Permutations(Elems) \cup Permutations(Workers) \cup Permutations(Reqs)

OffMax == -1    \* OFF_MAX, the end of a flush: no request starts there
NoReq  == "none"
NoElem == "none"

ASSUME ElemsAssumption ==
    /\ IsFiniteSet(Elems) /\ IsFiniteSet(Workers) /\ IsFiniteSet(Reqs)
    /\ Cardinality(Elems) = Cardinality(Reqs) + Cardinality(Workers)
    /\ Workers # {} /\ NoReq \notin Reqs /\ NoElem \notin Elems
    /\ Offsets \subseteq Nat
    /\ Features \subseteq {"cancel", "pause", "close"}

VARIABLES
    status,     \* be_status
    ereq,       \* be_req
    block,      \* be_block
    start,      \* be_req->br_offset
    ahead,      \* pendq as an order: the elements ahead of a queued one
    wpc,        \* where a worker is in blockif_thr()
    cur,        \* the element a worker is processing
    asleep,     \* workers blocked in pthread_cond_wait()
    outstanding,\* requests the device model has submitted and waits for
    canceller,  \* the element blockif_cancel() spins on
    sigpending, \* bse_pending of that canceller
    paused, closing, pauser, closer,
    overrun     \* history: blockif_request() has returned E2BIG

queueVars  == <<status, ereq, block, start, ahead>>
workerVars == <<wpc, cur, asleep>>
cancelVars == <<canceller, sigpending>>
ctrlVars   == <<paused, closing, pauser, closer>>
vars == <<queueVars, workerVars, cancelVars, ctrlVars, outstanding, overrun>>

Statuses == {"FREE", "BLOCK", "PEND", "BUSY", "DONE"}
WorkerPcs == {"loop", "proc", "callback", "complete", "wait", "pausewait", "exit"}

Pendq == {e \in Elems : status[e] \in {"BLOCK", "PEND"}}
Busyq == {e \in Elems : status[e] \in {"BUSY", "DONE"}}
Freeq == {e \in Elems : status[e] = "FREE"}

TypeOK ==
    /\ status \in [Elems -> Statuses]
    /\ ereq \in [Elems -> Reqs \cup {NoReq}]
    /\ block \in [Elems -> Offsets \cup {OffMax}]
    /\ start \in [Elems -> Offsets \cup {OffMax}]
    /\ ahead \in [Elems -> SUBSET Elems]
    /\ wpc \in [Workers -> WorkerPcs]
    /\ cur \in [Workers -> Elems \cup {NoElem}]
    /\ asleep \subseteq Workers
    /\ outstanding \subseteq Reqs
    /\ canceller \in Elems \cup {NoElem} /\ sigpending \in BOOLEAN
    /\ paused \in BOOLEAN /\ closing \in BOOLEAN /\ overrun \in BOOLEAN
    /\ pauser \in {"run", "draining", "paused", "resumed"}
    /\ closer \in {"open", "broadcast", "join", "closed"}

\* blockif_open(): every element free, the workers about to look for work.
Init ==
    /\ status = [e \in Elems |-> "FREE"]
    /\ ereq = [e \in Elems |-> NoReq]
    /\ block = [e \in Elems |-> OffMax]
    /\ start = [e \in Elems |-> OffMax]
    /\ ahead = [e \in Elems |-> {}]
    /\ wpc = [w \in Workers |-> "loop"]
    /\ cur = [w \in Workers |-> NoElem]
    /\ asleep = {} /\ outstanding = {}
    /\ canceller = NoElem /\ sigpending = FALSE
    /\ paused = FALSE /\ closing = FALSE /\ overrun = FALSE
    /\ pauser = "run" /\ closer = "open"

----------------------------------------------------------------------------
(* Queue operations, all under bc_mtx *)

MtxFree == canceller = NoElem

\* blockif_enqueue() blocks a request that starts where a queued or running
\* one ends.
BlockedBy(o) == {e \in Pendq \cup Busyq : block[e] = o}

Enqueue(e, r, o, end) ==
    /\ status' = [status EXCEPT ![e] = IF BlockedBy(o) = {} THEN "PEND" ELSE "BLOCK"]
    /\ ereq' = [ereq EXCEPT ![e] = r]
    /\ start' = [start EXCEPT ![e] = o]
    /\ block' = [block EXCEPT ![e] = end]
    /\ ahead' = [ahead EXCEPT ![e] = Pendq]

\* The element blockif_dequeue() finds: the first that is not blocked.
Dequeueable(e) == status[e] = "PEND" /\ \A f \in ahead[e] : status[f] # "PEND"

\* Mutant: blockif_complete() wakes the requests that start where e starts.
Unblocked_SameStart(e) == {f \in Pendq \ {e} : start[f] = start[e]}

\* The requests blockif_complete() unblocks.
Unblocked(e) == {f \in Pendq \ {e} : start[f] = block[e]}

\* blockif_complete(). (be_block is left stale in a free element, where nothing
\* reads it; here it is reset.)
CompleteElem(e) ==
    /\ status' = [f \in Elems |-> IF f = e THEN "FREE"
                                  ELSE IF f \in Unblocked(e) THEN "PEND"
                                  ELSE status[f]]
    /\ ereq' = [ereq EXCEPT ![e] = NoReq]
    /\ ahead' = [f \in Elems |-> IF f = e THEN {} ELSE ahead[f] \ {e}]
    /\ block' = [block EXCEPT ![e] = OffMax]
    /\ start' = [start EXCEPT ![e] = OffMax]

\* Workers counted in bc_work_count.
Working == {w \in Workers : wpc[w] \in {"loop", "proc", "callback", "complete"}}
Waiting == {w \in asleep : wpc[w] = "wait"}

\* pthread_cond_signal(&bc->bc_cond): one waiter, if there is one.
SignalCond ==
    IF Waiting = {} THEN UNCHANGED asleep
                    ELSE \E w \in Waiting : asleep' = asleep \ {w}

----------------------------------------------------------------------------
(* Worker threads: blockif_thr() *)

Dequeue(w) ==
    /\ wpc[w] = "loop" /\ MtxFree /\ ~paused
    /\ \E e \in Elems :
        /\ Dequeueable(e)
        /\ status' = [status EXCEPT ![e] = "BUSY"]
        /\ ahead' = [f \in Elems |-> IF f = e THEN {} ELSE ahead[f] \ {e}]
        /\ cur' = [cur EXCEPT ![w] = e]
    /\ wpc' = [wpc EXCEPT ![w] = "proc"]
    /\ UNCHANGED <<ereq, block, start, asleep, cancelVars, ctrlVars, outstanding,
                   overrun>>

\* No work, or none allowed: leave the loop and exit or wait. (The last one
\* to leave wakes blockif_pause(), whose loop reads bc_work_count again.)
Idle(w) ==
    /\ wpc[w] = "loop" /\ MtxFree
    /\ paused \/ \A e \in Elems : status[e] # "PEND"
    /\ IF closing
       THEN /\ wpc' = [wpc EXCEPT ![w] = "exit"]
            /\ UNCHANGED asleep
       ELSE /\ wpc' = [wpc EXCEPT ![w] = IF paused THEN "pausewait" ELSE "wait"]
            /\ asleep' = asleep \cup {w}
    /\ UNCHANGED <<queueVars, cur, cancelVars, ctrlVars, outstanding, overrun>>

\* pthread_cond_wait(&bc->bc_cond) returns.
Wake(w) ==
    /\ wpc[w] = "wait" /\ w \notin asleep /\ MtxFree
    /\ wpc' = [wpc EXCEPT ![w] = "loop"]
    /\ UNCHANGED <<queueVars, cur, asleep, cancelVars, ctrlVars, outstanding, overrun>>

\* pthread_cond_wait(&bc->bc_paused_cond) returns; once resumed the worker
\* goes on to wait for bc_cond.
PausedWake(w) ==
    /\ wpc[w] = "pausewait" /\ w \notin asleep /\ MtxFree
    /\ wpc' = [wpc EXCEPT ![w] = IF paused THEN "pausewait" ELSE "wait"]
    /\ asleep' = asleep \cup {w}
    /\ UNCHANGED <<queueVars, cur, cancelVars, ctrlVars, outstanding, overrun>>

\* blockif_proc(): the transfer, and BST_DONE ahead of the callback.
Proc(w) ==
    /\ wpc[w] = "proc"
    /\ status' = [status EXCEPT ![cur[w]] = "DONE"]
    /\ wpc' = [wpc EXCEPT ![w] = "callback"]
    /\ UNCHANGED <<ereq, block, start, ahead, cur, asleep, cancelVars, ctrlVars,
                   outstanding, overrun>>

\* The callback takes the device lock; the device may then submit the same
\* request object again, although its old element is not free yet.
Callback(w) ==
    /\ wpc[w] = "callback" /\ MtxFree
    /\ outstanding' = outstanding \ {ereq[cur[w]]}
    /\ wpc' = [wpc EXCEPT ![w] = "complete"]
    /\ UNCHANGED <<queueVars, cur, asleep, cancelVars, ctrlVars, overrun>>

\* Mutant: the element does not go back to bc_freeq.
Complete_Leak(w) ==
    /\ wpc[w] = "complete" /\ MtxFree
    /\ status' = [f \in Elems |-> IF f \in Unblocked(cur[w]) THEN "PEND" ELSE status[f]]
    /\ cur' = [cur EXCEPT ![w] = NoElem]
    /\ wpc' = [wpc EXCEPT ![w] = "loop"]
    /\ UNCHANGED <<ereq, ahead, block, start, asleep, cancelVars, ctrlVars, outstanding,
                   overrun>>

Complete(w) ==
    /\ wpc[w] = "complete" /\ MtxFree
    /\ CompleteElem(cur[w])
    /\ cur' = [cur EXCEPT ![w] = NoElem]
    /\ wpc' = [wpc EXCEPT ![w] = "loop"]
    /\ UNCHANGED <<asleep, cancelVars, ctrlVars, outstanding, overrun>>

----------------------------------------------------------------------------
(* The device model *)

\* blockif_read/write/delete/flush() through blockif_request(). Free elements
\* are alike, so bc_freeq is a set and its first element any member.
Request(r) ==
    /\ MtxFree /\ r \notin outstanding /\ closer = "open"
    /\ IF Freeq = {}
       THEN /\ overrun' = TRUE
            /\ UNCHANGED <<queueVars, asleep, outstanding>>
       ELSE \E e \in Freeq, o \in Offsets, end \in Offsets \cup {OffMax} :
            /\ end = OffMax \/ end >= o
            /\ Enqueue(e, r, o, end)
            /\ IF BlockedBy(o) = {} THEN SignalCond ELSE UNCHANGED asleep
            /\ outstanding' = outstanding \cup {r}
            /\ UNCHANGED overrun
    /\ UNCHANGED <<wpc, cur, cancelVars, ctrlVars>>

\* Mutant: a request in flight is dropped like a queued one.
CancelQueued_Busy(r) ==
    /\ "cancel" \in Features
    /\ MtxFree /\ r \in outstanding
    /\ \E e \in Pendq \cup Busyq :
        /\ ereq[e] = r
        /\ CompleteElem(e)
    /\ outstanding' = outstanding \ {r}
    /\ UNCHANGED <<workerVars, cancelVars, ctrlVars, overrun>>

\* blockif_cancel() of a queued request: it is dropped, no callback follows.
CancelQueued(r) ==
    /\ "cancel" \in Features
    /\ MtxFree /\ r \in outstanding
    /\ \E e \in Pendq :
        /\ ereq[e] = r
        /\ CompleteElem(e)
    /\ outstanding' = outstanding \ {r}
    /\ UNCHANGED <<workerVars, cancelVars, ctrlVars, overrun>>

\* Mutant: the loop looks at the request, not at its element.
CancelBusy_Request(r) ==
    /\ "cancel" \in Features
    /\ MtxFree /\ r \in outstanding
    /\ \E e \in Busyq : ereq[e] = r
    /\ canceller' = r /\ sigpending' = TRUE
    /\ UNCHANGED <<queueVars, workerVars, ctrlVars, outstanding, overrun>>

\* ... of a request in flight: signal its thread until it is done. When the
\* old element of a resubmitted request is still on busyq it is found first;
\* it is done, and EBUSY is returned at once, which changes nothing.
CancelBusy(r) ==
    /\ "cancel" \in Features
    /\ MtxFree /\ r \in outstanding
    /\ \E e \in Busyq :
        /\ ereq[e] = r
        /\ \A f \in Busyq : ereq[f] = r => status[f] = "BUSY"
        /\ canceller' = e
    /\ sigpending' = TRUE
    /\ UNCHANGED <<queueVars, workerVars, ctrlVars, outstanding, overrun>>

\* blockif_sigcont_handler(), in the event thread.
SigHandler ==
    /\ sigpending
    /\ sigpending' = FALSE
    /\ UNCHANGED <<queueVars, workerVars, canceller, ctrlVars, outstanding, overrun>>

\* The canceller's loop reads be_status again.
CancelLoop ==
    /\ canceller # NoElem /\ ~sigpending
    /\ IF status[canceller] = "BUSY"
       THEN sigpending' = TRUE /\ UNCHANGED canceller
       ELSE canceller' = NoElem /\ UNCHANGED sigpending
    /\ UNCHANGED <<queueVars, workerVars, ctrlVars, outstanding, overrun>>

----------------------------------------------------------------------------
(* Snapshot and close *)

\* blockif_pause() up to its wait ...
Pause ==
    /\ "pause" \in Features /\ pauser \in {"run", "resumed"} /\ MtxFree /\ closer = "open"
    /\ paused' = TRUE /\ pauser' = "draining"
    /\ UNCHANGED <<queueVars, workerVars, cancelVars, closing, closer, outstanding,
                   overrun>>

\* ... which ends when bc_work_count is 0.
PauseDrained ==
    /\ pauser = "draining" /\ MtxFree /\ Working = {}
    /\ pauser' = "paused"
    /\ UNCHANGED <<queueVars, workerVars, cancelVars, paused, closing, closer,
                   outstanding, overrun>>

\* blockif_resume() broadcasts both condition variables.
Resume ==
    /\ pauser = "paused" /\ MtxFree
    /\ paused' = FALSE /\ pauser' = "resumed"
    /\ asleep' = {}
    /\ UNCHANGED <<queueVars, wpc, cur, cancelVars, closing, closer, outstanding,
                   overrun>>

\* blockif_close(): the flag under the lock, the broadcast after it.
Close ==
    /\ "close" \in Features /\ closer = "open" /\ MtxFree /\ ~paused
    /\ closing' = TRUE /\ closer' = "broadcast"
    /\ UNCHANGED <<queueVars, workerVars, cancelVars, paused, pauser, outstanding,
                   overrun>>

\* Mutant: blockif_close() signals one worker.
CloseBroadcast_Signal ==
    /\ closer = "broadcast"
    /\ SignalCond
    /\ closer' = "join"
    /\ UNCHANGED <<queueVars, wpc, cur, cancelVars, paused, closing, pauser,
                   outstanding, overrun>>

CloseBroadcast ==
    /\ closer = "broadcast"
    /\ asleep' = asleep \ Waiting
    /\ closer' = "join"
    /\ UNCHANGED <<queueVars, wpc, cur, cancelVars, paused, closing, pauser,
                   outstanding, overrun>>

CloseJoin ==
    /\ closer = "join" /\ \A w \in Workers : wpc[w] = "exit"
    /\ closer' = "closed"
    /\ UNCHANGED <<queueVars, workerVars, cancelVars, paused, closing, pauser,
                   outstanding, overrun>>

----------------------------------------------------------------------------
WorkerStep(w) == \/ Dequeue(w) \/ Idle(w) \/ Wake(w) \/ PausedWake(w)
                 \/ Proc(w) \/ Callback(w) \/ Complete(w)
DeviceStep    == \E r \in Reqs : Request(r) \/ CancelQueued(r) \/ CancelBusy(r)
ControlStep   == \/ SigHandler \/ CancelLoop \/ Pause \/ PauseDrained \/ Resume
                 \/ Close \/ CloseBroadcast \/ CloseJoin

Next == (\E w \in Workers : WorkerStep(w)) \/ DeviceStep \/ ControlStep

Spec == Init /\ [][Next]_vars

----------------------------------------------------------------------------
(* Properties *)

\* The element of an outstanding request whose callback has not been called:
\* there is exactly one, so a request completes once, and a request that
\* blockif_cancel() dropped with 0 is never called back.
Awaiting == Pendq \cup {cur[w] : w \in {u \in Workers : wpc[u] \in {"proc", "callback"}}}

OneElementPerRequest ==
    /\ \A e \in Awaiting : ereq[e] \in outstanding
    /\ \A r \in outstanding : \E e \in Awaiting : ereq[e] = r
    /\ \A e, f \in Awaiting : ereq[e] = ereq[f] => e = f

\* "Callers are not allowed to enqueue more than the specified blockif queue
\* limit": a device model that keeps at most BLOCKIF_RING_MAX requests
\* outstanding never gets E2BIG, although an element is freed only after the
\* callback that lets the device submit again.
NoOverrun == ~overrun

\* If a queued request is runnable, some worker is not asleep; and if all are
\* blocked, one that will unblock them is in flight.
QueueServed ==
    Pendq # {} =>
        /\ \E e \in Elems : status[e] \in {"PEND", "BUSY", "DONE"}
        /\ (\E e \in Elems : status[e] = "PEND") =>
               \E w \in Workers : w \notin asleep /\ wpc[w] # "exit"

\* A queued request is never left behind by signals that blockif_request() and
\* blockif_complete() did not send, in a backend that has never been paused.
NoStuckQueue == pauser = "run" => QueueServed

\* blockif_pause() returns only when no transfer or callback is in progress,
\* and none starts before blockif_resume(); blockif_close() returns only when
\* every request has been called back (or cancelled), so that nothing is left
\* in the queues of the context it frees.
QuietWhenStopped ==
    /\ pauser = "paused" =>
          Busyq = {} /\ \A w \in Workers : wpc[w] \notin {"proc", "callback"}
    /\ closer = "closed" => outstanding = {} /\ Pendq = {} /\ Busyq = {}

\* blockif_close() does not hang in pthread_join() of a backend that has never
\* been paused: once the broadcast is out no worker sleeps, and none goes to
\* sleep any more.
JoinReturns == closer \in {"join", "closed"} /\ pauser = "run" => asleep = {}

\* Stopping the backend leaves nothing behind and ends: what blockif_pause()
\* and blockif_close() promise, and that the latter is not kept waiting.
StopsCleanly == QuietWhenStopped /\ JoinReturns
============================================================================
