--------------------------- MODULE BlockIfProofs ---------------------------
(***************************************************************************)
(* Proofs about BlockIf for every number of request elements, workers and  *)
(* requests, every set of offsets and every choice of features.            *)
(***************************************************************************)
EXTENDS BlockIf, FiniteSetTheorems, TLAPS

(* The inductive invariant *)

\* A worker inside blockif_proc() or its callback holds one element of busyq
\* of its own, and every element of busyq is held.
Held ==
    /\ \A w \in Workers :
        /\ wpc[w] = "proc" => cur[w] \in Elems /\ status[cur[w]] = "BUSY"
        /\ wpc[w] \in {"callback", "complete"} =>
               cur[w] \in Elems /\ status[cur[w]] = "DONE"
        /\ wpc[w] \notin {"proc", "callback", "complete"} => cur[w] = NoElem
    /\ \A w, u \in Workers : cur[w] = cur[u] /\ cur[w] # NoElem => w = u
    /\ \A e \in Busyq : \E w \in Workers : cur[w] = e

\* pendq is a queue: what is ahead of an element is queued, and ahead of it
\* is all that is ahead of those.
QueueOrder ==
    \A e \in Elems :
        /\ ahead[e] \subseteq Pendq /\ e \notin ahead[e]
        /\ \A f \in ahead[e] : ahead[f] \subseteq ahead[e]

\* A blocked request has its reason: a request in flight, or ahead of it in
\* the queue, that ends where it starts.
BlockedForCause ==
    \A f \in Elems : status[f] = "BLOCK" =>
        \E e \in Busyq \cup ahead[f] : block[e] = start[f]

\* The flags of blockif_pause() and blockif_close() against the workers.
Control ==
    /\ closing <=> closer # "open"
    /\ paused <=> pauser \in {"draining", "paused"}
    /\ closing => ~paused
    /\ \A w \in asleep : wpc[w] \in {"wait", "pausewait"}
    /\ \A w \in Workers : wpc[w] = "exit" => closing
    /\ pauser = "run" => \A w \in Workers : wpc[w] # "pausewait"
    /\ pauser = "paused" =>
           \A w \in Workers : wpc[w] \notin {"proc", "callback", "complete"}
    /\ closer = "closed" => \A w \in Workers : wpc[w] = "exit"
    /\ closer \in {"join", "closed"} /\ pauser = "run" => asleep = {}

BlockInv == TypeOK /\ Held /\ QueueOrder /\ BlockedForCause /\ Control

\* A runnable request has an awake worker, and the last worker to leave
\* leaves no request behind.
SomeoneAwake == \E w \in Workers : w \notin asleep /\ wpc[w] # "exit"

Attended ==
    /\ pauser = "run" /\ (\E e \in Elems : status[e] = "PEND") => SomeoneAwake
    /\ (\A w \in Workers : wpc[w] = "exit") => Pendq = {}

----------------------------------------------------------------------------
(* Types *)

LEMMA TypeWorker ==
    ASSUME TypeOK, Held, NEW w \in Workers, WorkerStep(w)
    PROVE  TypeOK'
<1> USE DEF queueVars, workerVars, cancelVars, ctrlVars, Statuses, WorkerPcs
<1>1. CASE Dequeue(w)
  BY <1>1 DEF Dequeue, TypeOK
<1>2. CASE Idle(w)
  BY <1>2 DEF Idle, TypeOK
<1>3. CASE Wake(w)
  BY <1>3 DEF Wake, TypeOK
<1>4. CASE PausedWake(w)
  BY <1>4 DEF PausedWake, TypeOK
<1>5. CASE Proc(w)
  BY <1>5 DEF Proc, TypeOK
<1>6. CASE Callback(w)
  BY <1>6 DEF Callback, TypeOK
<1>7. CASE Complete(w)
  BY <1>7 DEF Complete, CompleteElem, TypeOK
<1> QED
  BY <1>1, <1>2, <1>3, <1>4, <1>5, <1>6, <1>7 DEF WorkerStep

LEMMA RequestStep ==
    ASSUME TypeOK, NEW r \in Reqs, Request(r)
    PROVE  /\ MtxFree /\ r \notin outstanding /\ closer = "open"
           /\ UNCHANGED <<wpc, cur, cancelVars, ctrlVars>>
           /\ \/ /\ Freeq = {} /\ overrun' = TRUE
                 /\ UNCHANGED <<queueVars, asleep, outstanding>>
              \/ \E e \in Freeq, o \in Offsets, end \in Offsets \cup {OffMax} :
                    /\ Enqueue(e, r, o, end)
                    /\ IF BlockedBy(o) = {} THEN SignalCond ELSE UNCHANGED asleep
                    /\ outstanding' = outstanding \cup {r} /\ UNCHANGED overrun
BY DEF Request

LEMMA TypeDevice ==
    ASSUME TypeOK, NEW r \in Reqs,
           Request(r) \/ CancelQueued(r) \/ CancelBusy(r)
    PROVE  TypeOK'
<1> USE DEF queueVars, workerVars, cancelVars, ctrlVars, Statuses
<1>1. CASE Request(r)
  <2>1. CASE Freeq = {} /\ overrun' = TRUE
             /\ UNCHANGED <<queueVars, asleep, outstanding>>
    BY <1>1, <2>1 DEF Request, TypeOK
  <2>2. ASSUME NEW e \in Freeq, NEW o \in Offsets, NEW end \in Offsets \cup {OffMax},
               Enqueue(e, r, o, end),
               IF BlockedBy(o) = {} THEN SignalCond ELSE UNCHANGED asleep,
               outstanding' = outstanding \cup {r}, UNCHANGED overrun
        PROVE  TypeOK'
    <3>1. asleep' \subseteq asleep
      BY <2>2 DEF SignalCond
    <3>2. Pendq \subseteq Elems /\ e \in Elems
      BY DEF Pendq, Freeq
    <3> QED
      BY <1>1, <2>2, <3>1, <3>2, RequestStep DEF Enqueue, TypeOK
  <2> QED
    BY <1>1, <2>1, <2>2, RequestStep
<1>2. CASE CancelQueued(r)
  BY <1>2 DEF CancelQueued, CompleteElem, Pendq, TypeOK
<1>3. CASE CancelBusy(r)
  BY <1>3 DEF CancelBusy, Busyq, TypeOK
<1> QED
  BY <1>1, <1>2, <1>3

LEMMA TypeControl ==
    ASSUME TypeOK, ControlStep
    PROVE  TypeOK'
BY DEF ControlStep, SigHandler, CancelLoop, Pause, PauseDrained, Resume, Close,
       CloseBroadcast, CloseJoin, Waiting, TypeOK, queueVars, workerVars,
       cancelVars, ctrlVars

----------------------------------------------------------------------------
(* What the queue operations do to pendq, busyq and the order of pendq *)

LEMMA EnqueueQueue ==
    ASSUME TypeOK, QueueOrder, BlockedForCause,
           NEW e \in Freeq, NEW r \in Reqs, NEW o, NEW end, Enqueue(e, r, o, end)
    PROVE  /\ Pendq' = Pendq \cup {e} /\ Busyq' = Busyq
           /\ QueueOrder' /\ BlockedForCause'
<1>1. e \in Elems /\ status[e] = "FREE"
  BY DEF Freeq
<1>2. e \notin Pendq /\ e \notin Busyq
  BY <1>1 DEF Pendq, Busyq
<1>3. \A f \in Elems \ {e} : /\ status'[f] = status[f] /\ ahead'[f] = ahead[f]
                              /\ block'[f] = block[f] /\ start'[f] = start[f]
  BY DEF Enqueue, TypeOK
<1>4. /\ status'[e] = IF BlockedBy(o) = {} THEN "PEND" ELSE "BLOCK"
      /\ ahead'[e] = Pendq /\ start'[e] = o
  BY <1>1 DEF Enqueue, TypeOK
<1>5. Pendq' = Pendq \cup {e} /\ Busyq' = Busyq
  BY <1>1, <1>3, <1>4 DEF Pendq, Busyq
<1>6. QueueOrder'
  <2> SUFFICES ASSUME NEW f \in Elems
               PROVE  /\ ahead'[f] \subseteq Pendq' /\ f \notin ahead'[f]
                      /\ \A g \in ahead'[f] : ahead'[g] \subseteq ahead'[f]
    BY DEF QueueOrder
  <2>1. Pendq \subseteq Elems
    BY DEF Pendq
  <2>2. \A g \in Pendq : ahead'[g] = ahead[g] /\ ahead[g] \subseteq Pendq
    BY <1>2, <1>3, <2>1 DEF QueueOrder
  <2>3. CASE f = e
    BY <1>2, <1>4, <1>5, <2>2, <2>3
  <2>4. CASE f # e
    BY <1>3, <1>5, <2>2, <2>4 DEF QueueOrder
  <2> QED
    BY <2>3, <2>4
<1>7. BlockedForCause'
  <2> SUFFICES ASSUME NEW f \in Elems, status'[f] = "BLOCK"
               PROVE  \E g \in Busyq' \cup ahead'[f] : block'[g] = start'[f]
    BY DEF BlockedForCause
  <2>1. CASE f = e
    <3>1. PICK g \in Pendq \cup Busyq : block[g] = o
      BY <1>4, <2>1 DEF BlockedBy
    <3>2. g \in Elems /\ g # e
      BY <1>2 DEF Pendq, Busyq
    <3> QED
      BY <1>3, <1>4, <1>5, <2>1, <3>1, <3>2
  <2>2. CASE f # e
    <3>1. PICK g \in Busyq \cup ahead[f] : block[g] = start[f]
      BY <1>3, <2>2 DEF BlockedForCause
    <3>2. g \in Elems /\ g # e
      BY <1>2 DEF Pendq, Busyq, QueueOrder
    <3> QED
      BY <1>3, <1>5, <2>2, <3>1, <3>2
  <2> QED
    BY <2>1, <2>2
<1> QED
  BY <1>5, <1>6, <1>7

LEMMA CompleteQueue ==
    ASSUME TypeOK, QueueOrder, BlockedForCause,
           NEW e \in Elems, CompleteElem(e)
    PROVE  /\ Pendq' = Pendq \ {e} /\ Busyq' = Busyq \ {e}
           /\ QueueOrder' /\ BlockedForCause'
           /\ \A f \in Busyq \ {e} : status'[f] = status[f]
<1>1. \A f \in Elems \ {e} :
          /\ status'[f] = IF f \in Unblocked(e) THEN "PEND" ELSE status[f]
          /\ ahead'[f] = ahead[f] \ {e}
          /\ block'[f] = block[f] /\ start'[f] = start[f]
  BY DEF CompleteElem, TypeOK
<1>2. status'[e] = "FREE" /\ ahead'[e] = {}
  BY DEF CompleteElem
<1>3. Unblocked(e) \subseteq Pendq
  BY DEF Unblocked
<1>4. Pendq' = Pendq \ {e}
  BY <1>1, <1>2, <1>3 DEF Pendq
<1>5. Busyq' = Busyq \ {e} /\ \A f \in Busyq \ {e} : status'[f] = status[f]
  BY <1>1, <1>2, <1>3 DEF Pendq, Busyq
<1>6. QueueOrder'
  <2> SUFFICES ASSUME NEW f \in Elems
               PROVE  /\ ahead'[f] \subseteq Pendq' /\ f \notin ahead'[f]
                      /\ \A g \in ahead'[f] : ahead'[g] \subseteq ahead'[f]
    BY DEF QueueOrder
  <2>1. Pendq \subseteq Elems
    BY DEF Pendq
  <2>2. CASE f # e
    BY <1>1, <1>4, <2>1, <2>2 DEF QueueOrder
  <2> QED
    BY <1>2, <2>2
<1>7. BlockedForCause'
  <2> SUFFICES ASSUME NEW f \in Elems, status'[f] = "BLOCK"
               PROVE  \E g \in Busyq' \cup ahead'[f] : block'[g] = start'[f]
    BY DEF BlockedForCause
  <2>1. f # e /\ f \notin Unblocked(e) /\ status[f] = "BLOCK"
    BY <1>1, <1>2
  <2>2. start[f] # block[e]
    BY <2>1 DEF Unblocked, Pendq
  <2>3. PICK g \in Busyq \cup ahead[f] : block[g] = start[f]
    BY <2>1 DEF BlockedForCause
  <2>4. g \in Elems /\ g # e
    BY <2>2, <2>3 DEF Pendq, Busyq, QueueOrder
  <2> QED
    BY <1>1, <1>5, <2>1, <2>3, <2>4
<1> QED
  BY <1>4, <1>5, <1>6, <1>7

LEMMA DequeueQueue ==
    ASSUME TypeOK, QueueOrder, BlockedForCause,
           NEW e \in Elems, status[e] = "PEND",
           status' = [status EXCEPT ![e] = "BUSY"],
           ahead' = [f \in Elems |-> IF f = e THEN {} ELSE ahead[f] \ {e}],
           UNCHANGED <<block, start>>
    PROVE  /\ Pendq' = Pendq \ {e} /\ Busyq' = Busyq \cup {e}
           /\ QueueOrder' /\ BlockedForCause'
<1>1. /\ \A f \in Elems \ {e} : status'[f] = status[f] /\ ahead'[f] = ahead[f] \ {e}
      /\ status'[e] = "BUSY" /\ ahead'[e] = {}
  BY DEF TypeOK
<1>2. Pendq' = Pendq \ {e} /\ Busyq' = Busyq \cup {e}
  BY <1>1 DEF Pendq, Busyq
<1>3. QueueOrder'
  <2> SUFFICES ASSUME NEW f \in Elems
               PROVE  /\ ahead'[f] \subseteq Pendq' /\ f \notin ahead'[f]
                      /\ \A g \in ahead'[f] : ahead'[g] \subseteq ahead'[f]
    BY DEF QueueOrder
  <2>1. Pendq \subseteq Elems
    BY DEF Pendq
  <2>2. CASE f # e
    BY <1>1, <1>2, <2>1, <2>2 DEF QueueOrder
  <2> QED
    BY <1>1, <2>2
<1>4. BlockedForCause'
  <2> SUFFICES ASSUME NEW f \in Elems, status'[f] = "BLOCK"
               PROVE  \E g \in Busyq' \cup ahead'[f] : block'[g] = start'[f]
    BY DEF BlockedForCause
  <2>1. f # e /\ status[f] = "BLOCK"
    BY <1>1
  <2>2. PICK g \in Busyq \cup ahead[f] : block[g] = start[f]
    BY <2>1 DEF BlockedForCause
  <2> QED
    BY <1>1, <1>2, <2>1, <2>2
<1> QED
  BY <1>2, <1>3, <1>4

LEMMA QueueSame ==
    ASSUME QueueOrder, BlockedForCause, UNCHANGED queueVars
    PROVE  Pendq' = Pendq /\ Busyq' = Busyq /\ QueueOrder' /\ BlockedForCause'
BY DEF queueVars, Pendq, Busyq, QueueOrder, BlockedForCause

----------------------------------------------------------------------------
(* BlockInv is inductive *)

LEMMA BlockInit == Init => BlockInv
<1> SUFFICES ASSUME Init PROVE BlockInv
  OBVIOUS
<1>1. TypeOK
  BY DEF Init, TypeOK, Statuses, WorkerPcs
<1>2. Pendq = {} /\ Busyq = {}
  BY DEF Init, Pendq, Busyq
<1>3. Held /\ QueueOrder /\ BlockedForCause
  BY <1>2 DEF Init, Held, QueueOrder, BlockedForCause
<1>4. Control
  BY DEF Init, Control
<1> QED
  BY <1>1, <1>3, <1>4 DEF BlockInv

LEMMA BlockWorker ==
    ASSUME BlockInv, NEW w \in Workers, WorkerStep(w)
    PROVE  BlockInv'
<1> USE ElemsAssumption DEF ElemsAssumption
<1>0. TypeOK /\ Held /\ QueueOrder /\ BlockedForCause /\ Control /\ TypeOK'
  BY TypeWorker DEF BlockInv
<1>1. CASE Dequeue(w)
  <2>1. PICK e \in Elems :
            /\ status[e] = "PEND"
            /\ status' = [status EXCEPT ![e] = "BUSY"]
            /\ ahead' = [f \in Elems |-> IF f = e THEN {} ELSE ahead[f] \ {e}]
            /\ cur' = [cur EXCEPT ![w] = e]
    BY <1>1 DEF Dequeue, Dequeueable
  <2>2. wpc' = [wpc EXCEPT ![w] = "proc"] /\ wpc[w] = "loop" /\ ~paused
        /\ UNCHANGED <<block, start, asleep, ctrlVars>>
    BY <1>1 DEF Dequeue
  <2>3. Busyq' = Busyq \cup {e} /\ QueueOrder' /\ BlockedForCause'
    BY <1>0, <2>1, <2>2, DequeueQueue
  <2>4. \A u \in Workers : cur[u] # e
    BY <1>0, <2>1 DEF Held, TypeOK, WorkerPcs
  <2>5. Held'
    <3>1. cur'[w] = e /\ wpc'[w] = "proc" /\ status'[e] = "BUSY"
      BY <1>0, <2>1, <2>2 DEF TypeOK
    <3>2. \A u \in Workers \ {w} : /\ cur'[u] = cur[u] /\ wpc'[u] = wpc[u]
                                   /\ cur[u] # e
      BY <1>0, <2>1, <2>2, <2>4 DEF TypeOK
    <3>3. \A f \in Elems \ {e} : status'[f] = status[f]
      BY <1>0, <2>1 DEF TypeOK
    <3>4. \A u \in Workers :
              /\ wpc'[u] = "proc" => cur'[u] \in Elems /\ status'[cur'[u]] = "BUSY"
              /\ wpc'[u] \in {"callback", "complete"} =>
                     cur'[u] \in Elems /\ status'[cur'[u]] = "DONE"
              /\ wpc'[u] \notin {"proc", "callback", "complete"} => cur'[u] = NoElem
      BY <1>0, <3>1, <3>2, <3>3 DEF Held
    <3>5. \A f \in Busyq' : \E u \in Workers : cur'[u] = f
      <4>1. cur[w] = NoElem
        BY <1>0, <2>2 DEF Held
      <4>2. Busyq \subseteq Elems
        BY DEF Busyq
      <4> QED
        BY <1>0, <2>3, <3>1, <3>2, <4>1, <4>2 DEF Held
    <3> QED
      BY <1>0, <3>1, <3>2, <3>4, <3>5 DEF Held
  <2>6. Control'
    BY <1>0, <2>2 DEF Control, ctrlVars, TypeOK
  <2> QED
    BY <1>0, <2>3, <2>5, <2>6 DEF BlockInv
<1>2. CASE Idle(w) \/ Wake(w) \/ PausedWake(w)
  <2>1. UNCHANGED queueVars /\ UNCHANGED cur /\ UNCHANGED ctrlVars
    BY <1>2 DEF Idle, Wake, PausedWake
  <2>2. QueueOrder' /\ BlockedForCause' /\ Busyq' = Busyq
    BY <1>0, <2>1, QueueSame
  <2>3. \E p \in WorkerPcs \ {"proc", "callback", "complete"} :
            wpc' = [wpc EXCEPT ![w] = p]
    BY <1>2 DEF Idle, Wake, PausedWake, WorkerPcs
  <2>4. Held'
    <3>1. cur[w] = NoElem
      BY <1>0, <1>2 DEF Held, Idle, Wake, PausedWake
    <3> QED
      BY <1>0, <2>1, <2>2, <2>3, <3>1 DEF Held, queueVars, TypeOK
  <2>5. Control'
    <3>1. CASE Idle(w)
      BY <1>0, <3>1 DEF Idle, Control, ctrlVars, TypeOK
    <3>2. CASE Wake(w)
      BY <1>0, <3>2 DEF Wake, Control, ctrlVars, TypeOK
    <3>3. CASE PausedWake(w)
      BY <1>0, <3>3 DEF PausedWake, Control, ctrlVars, TypeOK
    <3> QED
      BY <1>2, <3>1, <3>2, <3>3
  <2> QED
    BY <1>0, <2>2, <2>4, <2>5 DEF BlockInv
<1>3. CASE Proc(w)
  <2>1. cur[w] \in Elems /\ status[cur[w]] = "BUSY" /\ wpc[w] = "proc"
    BY <1>0, <1>3 DEF Held, Proc
  <2>2. /\ status' = [status EXCEPT ![cur[w]] = "DONE"]
        /\ wpc' = [wpc EXCEPT ![w] = "callback"]
        /\ UNCHANGED <<ereq, block, start, ahead, cur, asleep, cancelVars, ctrlVars>>
    BY <1>3 DEF Proc
  <2>3. Pendq' = Pendq /\ Busyq' = Busyq
    BY <1>0, <2>1, <2>2 DEF Pendq, Busyq, TypeOK
  <2>4. QueueOrder'
    BY <1>0, <2>2, <2>3 DEF QueueOrder
  <2>5. BlockedForCause'
    BY <1>0, <2>1, <2>2, <2>3 DEF BlockedForCause, TypeOK
  <2>6. Held'
    BY <1>0, <2>1, <2>2, <2>3 DEF Held, TypeOK
  <2>7. Control'
    BY <1>0, <2>1, <2>2 DEF Control, ctrlVars, TypeOK
  <2> QED
    BY <1>0, <2>4, <2>5, <2>6, <2>7 DEF BlockInv
<1>4. CASE Callback(w)
  <2>1. UNCHANGED queueVars /\ UNCHANGED <<cur, asleep>> /\ UNCHANGED ctrlVars
        /\ wpc[w] = "callback" /\ wpc' = [wpc EXCEPT ![w] = "complete"]
    BY <1>4 DEF Callback
  <2>2. QueueOrder' /\ BlockedForCause' /\ Busyq' = Busyq
    BY <1>0, <2>1, QueueSame
  <2>3. Held'
    BY <1>0, <2>1, <2>2 DEF Held, queueVars, TypeOK
  <2>4. Control'
    BY <1>0, <2>1 DEF Control, ctrlVars, TypeOK
  <2> QED
    BY <1>0, <2>2, <2>3, <2>4 DEF BlockInv
<1>5. CASE Complete(w)
  <2>1. cur[w] \in Elems /\ status[cur[w]] = "DONE" /\ wpc[w] = "complete"
    BY <1>0, <1>5 DEF Held, Complete
  <2>2. /\ CompleteElem(cur[w]) /\ cur' = [cur EXCEPT ![w] = NoElem]
        /\ wpc' = [wpc EXCEPT ![w] = "loop"] /\ UNCHANGED asleep /\ UNCHANGED ctrlVars
    BY <1>5 DEF Complete
  <2>3. /\ QueueOrder' /\ BlockedForCause' /\ Busyq' = Busyq \ {cur[w]}
        /\ \A f \in Busyq \ {cur[w]} : status'[f] = status[f]
    BY <1>0, <2>1, <2>2, CompleteQueue
  <2>4. Held'
    <3>1. \A u \in Workers \ {w} : cur'[u] = cur[u] /\ wpc'[u] = wpc[u]
      BY <1>0, <2>2 DEF TypeOK
    <3>2. cur'[w] = NoElem /\ wpc'[w] = "loop"
      BY <1>0, <2>2 DEF TypeOK
    <3>3. \A u \in Workers \ {w} : cur[u] # cur[w]
      BY <1>0, <2>1 DEF Held
    <3>4. \A u \in Workers \ {w} : cur[u] \in Elems /\ status[cur[u]] \in {"BUSY", "DONE"} =>
              status'[cur[u]] = status[cur[u]]
      BY <2>3, <3>3 DEF Busyq
    <3> QED
      BY <1>0, <2>3, <3>1, <3>2, <3>4 DEF Held
  <2>5. Control'
    BY <1>0, <2>1, <2>2 DEF Control, ctrlVars, TypeOK
  <2> QED
    BY <1>0, <2>3, <2>4, <2>5 DEF BlockInv
<1> QED
  BY <1>1, <1>2, <1>3, <1>4, <1>5 DEF WorkerStep

LEMMA BlockDevice ==
    ASSUME BlockInv, NEW r \in Reqs,
           Request(r) \/ CancelQueued(r) \/ CancelBusy(r)
    PROVE  BlockInv'
<1> USE ElemsAssumption DEF ElemsAssumption
<1>0. TypeOK /\ Held /\ QueueOrder /\ BlockedForCause /\ Control /\ TypeOK'
  BY TypeDevice DEF BlockInv
<1>1. CASE Request(r)
  <2>0. UNCHANGED <<wpc, cur>> /\ UNCHANGED ctrlVars
    BY <1>0, <1>1, RequestStep
  <2>1. CASE UNCHANGED <<queueVars, asleep>>
    <3>1. QueueOrder' /\ BlockedForCause' /\ Busyq' = Busyq
      BY <1>0, <2>1, QueueSame
    <3>2. Held'
      BY <1>0, <2>0, <2>1, <3>1 DEF Held, queueVars
    <3>3. Control'
      BY <1>0, <2>0, <2>1 DEF Control, ctrlVars
    <3> QED
      BY <1>0, <3>1, <3>2, <3>3 DEF BlockInv
  <2>2. ASSUME NEW e \in Freeq, NEW o \in Offsets, NEW end \in Offsets \cup {OffMax},
               Enqueue(e, r, o, end), asleep' \subseteq asleep
        PROVE  BlockInv'
    <3>1. QueueOrder' /\ BlockedForCause' /\ Busyq' = Busyq
      BY <1>0, <2>2, EnqueueQueue
    <3>2. Held'
      <4>1. \A f \in Elems \ {e} : status'[f] = status[f]
        BY <1>0, <2>2 DEF Enqueue, TypeOK
      <4>2. \A w \in Workers : cur[w] # e
        BY <1>0 DEF Held, Freeq
      <4> QED
        BY <1>0, <2>0, <3>1, <4>1, <4>2 DEF Held
    <3>3. Control'
      BY <1>0, <2>0, <2>2 DEF Control, ctrlVars
    <3> QED
      BY <1>0, <3>1, <3>2, <3>3 DEF BlockInv
  <2>3. SignalCond => asleep' \subseteq asleep
    BY DEF SignalCond
  <2> QED
    BY <1>0, <1>1, <2>1, <2>2, <2>3, RequestStep
<1>2. CASE CancelQueued(r)
  <2>1. PICK e \in Pendq : CompleteElem(e)
    BY <1>2 DEF CancelQueued
  <2>2. UNCHANGED <<wpc, cur, asleep>> /\ UNCHANGED ctrlVars
    BY <1>2 DEF CancelQueued, workerVars
  <2>3. e \in Elems /\ e \notin Busyq
    BY DEF Pendq, Busyq
  <2>4. /\ QueueOrder' /\ BlockedForCause' /\ Busyq' = Busyq
        /\ \A f \in Busyq : status'[f] = status[f]
    BY <1>0, <2>1, <2>3, CompleteQueue
  <2>5. Held'
    <3>1. \A w \in Workers : wpc[w] \in {"proc", "callback", "complete"} => cur[w] \in Busyq
      BY <1>0 DEF Held, Busyq
    <3> QED
      BY <1>0, <2>2, <2>4, <3>1 DEF Held
  <2>6. Control'
    BY <1>0, <2>2 DEF Control, ctrlVars
  <2> QED
    BY <1>0, <2>4, <2>5, <2>6 DEF BlockInv
<1>3. CASE CancelBusy(r)
  <2>1. UNCHANGED <<queueVars, workerVars, ctrlVars>>
    BY <1>3 DEF CancelBusy
  <2>2. QueueOrder' /\ BlockedForCause' /\ Busyq' = Busyq
    BY <1>0, <2>1, QueueSame
  <2> QED
    BY <1>0, <2>1, <2>2 DEF BlockInv, Held, Control, queueVars, workerVars, ctrlVars
<1> QED
  BY <1>1, <1>2, <1>3

LEMMA BlockControl ==
    ASSUME BlockInv, ControlStep
    PROVE  BlockInv'
<1>0. TypeOK /\ Held /\ QueueOrder /\ BlockedForCause /\ Control /\ TypeOK'
  BY TypeControl DEF BlockInv
<1>1. UNCHANGED queueVars /\ UNCHANGED <<wpc, cur>>
  BY DEF ControlStep, SigHandler, CancelLoop, Pause, PauseDrained, Resume, Close,
         CloseBroadcast, CloseJoin, workerVars
<1>2. QueueOrder' /\ BlockedForCause' /\ Busyq' = Busyq
  BY <1>0, <1>1, QueueSame
<1>3. Held'
  BY <1>0, <1>1, <1>2 DEF Held, queueVars
<1>4. Control'
  <2> USE DEF workerVars, cancelVars, ctrlVars
  <2>1. CASE SigHandler
    BY <1>0, <2>1 DEF SigHandler, Control
  <2>2. CASE CancelLoop
    BY <1>0, <2>2 DEF CancelLoop, Control
  <2>3. CASE Pause
    BY <1>0, <2>3 DEF Pause, Control
  <2>4. CASE PauseDrained
    BY <1>0, <2>4 DEF PauseDrained, Control, Working
  <2>5. CASE Resume
    BY <1>0, <2>5 DEF Resume, Control
  <2>6. CASE Close
    BY <1>0, <2>6 DEF Close, Control
  <2>7. CASE CloseBroadcast
    BY <1>0, <2>7 DEF CloseBroadcast, Control, Waiting, TypeOK
  <2>8. CASE CloseJoin
    BY <1>0, <2>8 DEF CloseJoin, Control
  <2> QED
    BY <2>1, <2>2, <2>3, <2>4, <2>5, <2>6, <2>7, <2>8 DEF ControlStep
<1> QED
  BY <1>0, <1>2, <1>3, <1>4 DEF BlockInv

LEMMA BlockNext == BlockInv /\ [Next]_vars => BlockInv'
<1> SUFFICES ASSUME BlockInv, [Next]_vars PROVE BlockInv'
  OBVIOUS
<1>1. CASE UNCHANGED vars
  <2>1. UNCHANGED queueVars /\ UNCHANGED workerVars /\ UNCHANGED ctrlVars
    BY <1>1 DEF vars
  <2>2. QueueOrder' /\ BlockedForCause' /\ Busyq' = Busyq
    BY <2>1, QueueSame DEF BlockInv
  <2>3. TypeOK'
    BY <1>1 DEF BlockInv, TypeOK, vars, queueVars, workerVars, cancelVars, ctrlVars
  <2> QED
    BY <2>1, <2>2, <2>3 DEF BlockInv, Held, Control, queueVars, workerVars, ctrlVars
<1> QED
  BY <1>1, BlockWorker, BlockDevice, BlockControl DEF Next, DeviceStep

(* The block backend keeps its types: in particular an element is always in *)
(* one of the five states of be_status.                                     *)
THEOREM BlockTypeCorrect == Spec => []TypeOK
<1>1. BlockInv => TypeOK
  BY DEF BlockInv
<1> QED
  BY <1>1, BlockInit, BlockNext, PTL DEF Spec

LEMMA BlockAlways == Spec => []BlockInv
BY BlockInit, BlockNext, PTL DEF Spec

----------------------------------------------------------------------------
(* Requests and their elements *)

Transferring == {u \in Workers : wpc[u] \in {"proc", "callback"}}

\* Awaiting in terms of the two queues.
AwaitingByQueue ==
    /\ Awaiting = Pendq \cup {e \in Busyq : \E w \in Transferring : cur[w] = e}
    /\ Awaiting \subseteq Elems

LEMMA AwaitingNow == BlockInv => AwaitingByQueue
<1> SUFFICES ASSUME BlockInv PROVE AwaitingByQueue
  OBVIOUS
<1>1. \A w \in Transferring : cur[w] \in Busyq
  BY DEF Transferring, BlockInv, Held, Busyq
<1>2. Pendq \subseteq Elems /\ Busyq \subseteq Elems
  BY DEF Pendq, Busyq
<1> QED
  BY <1>1, <1>2 DEF Awaiting, AwaitingByQueue, Transferring

LEMMA AwaitingNext == BlockInv' => AwaitingByQueue'
BY AwaitingNow, PTL

\* Actions that move no element in or out of Awaiting.
LEMMA RequestsSame ==
    ASSUME OneElementPerRequest, Awaiting' = Awaiting, UNCHANGED <<ereq, outstanding>>
    PROVE  OneElementPerRequest'
BY DEF OneElementPerRequest

\* Actions that end the wait for one request.
LEMMA RequestsLess ==
    ASSUME OneElementPerRequest, NEW e \in Awaiting, Awaiting' = Awaiting \ {e},
           outstanding' = outstanding \ {ereq[e]},
           \A f \in Awaiting \ {e} : ereq'[f] = ereq[f]
    PROVE  OneElementPerRequest'
BY DEF OneElementPerRequest

LEMMA RequestsNext ==
    BlockInv /\ OneElementPerRequest /\ [Next]_vars => OneElementPerRequest'
<1> SUFFICES ASSUME BlockInv, OneElementPerRequest, [Next]_vars
             PROVE  OneElementPerRequest'
  OBVIOUS
<1> USE ElemsAssumption DEF ElemsAssumption
<1>0. BlockInv' /\ TypeOK /\ Held /\ QueueOrder /\ BlockedForCause
  BY BlockNext DEF BlockInv
<1>00. AwaitingByQueue /\ AwaitingByQueue'
  BY <1>0, AwaitingNow, AwaitingNext
<1>1. ASSUME UNCHANGED queueVars, UNCHANGED <<wpc, cur>>, UNCHANGED outstanding
      PROVE  OneElementPerRequest'
  <2>1. Awaiting' = Awaiting
    BY <1>1 DEF Awaiting, Pendq, queueVars
  <2> QED
    BY <1>1, <2>1, RequestsSame DEF queueVars
<1>2. CASE UNCHANGED vars
  BY <1>1, <1>2 DEF vars, workerVars
<1>3. ASSUME NEW w \in Workers, Dequeue(w)
      PROVE  OneElementPerRequest'
  <2>1. PICK e \in Elems :
            /\ status[e] = "PEND"
            /\ status' = [status EXCEPT ![e] = "BUSY"]
            /\ cur' = [cur EXCEPT ![w] = e]
            /\ ahead' = [f \in Elems |-> IF f = e THEN {} ELSE ahead[f] \ {e}]
    BY <1>3 DEF Dequeue, Dequeueable
  <2>2. /\ wpc' = [wpc EXCEPT ![w] = "proc"] /\ wpc[w] = "loop"
        /\ UNCHANGED <<ereq, block, start, outstanding>>
    BY <1>3 DEF Dequeue
  <2>3. Pendq' = Pendq \ {e} /\ Busyq' = Busyq \cup {e} /\ e \in Pendq
    BY <1>0, <2>1, <2>2, DequeueQueue DEF Pendq
  <2>4. Transferring' = Transferring \cup {w} /\ cur'[w] = e
        /\ \A u \in Transferring : cur'[u] = cur[u] /\ u # w
    BY <1>0, <2>1, <2>2 DEF Transferring, TypeOK
  <2>5. e \notin Busyq
    BY <2>1 DEF Busyq
  <2>6. Awaiting' = Awaiting
    BY <1>0, <2>3, <2>4, <2>5, <1>00 DEF AwaitingByQueue
  <2> QED
    BY <2>2, <2>6, RequestsSame
<1>4. ASSUME NEW w \in Workers, Idle(w) \/ Wake(w) \/ PausedWake(w) \/ Proc(w)
      PROVE  OneElementPerRequest'
  <2>1. UNCHANGED <<ereq, outstanding, cur>>
    BY <1>4 DEF Idle, Wake, PausedWake, Proc, queueVars
  <2>2. Pendq' = Pendq
    <3>1. CASE Proc(w)
      BY <1>0, <3>1 DEF Proc, Pendq, Held, TypeOK
    <3> QED
      BY <1>4, <3>1 DEF Idle, Wake, PausedWake, Pendq, queueVars
  <2>3. Transferring' = Transferring
    BY <1>0, <1>4 DEF Idle, Wake, PausedWake, Proc, Transferring, TypeOK
  <2> QED
    BY <2>1, <2>2, <2>3, RequestsSame DEF Awaiting, Transferring
<1>5. ASSUME NEW w \in Workers, Callback(w)
      PROVE  OneElementPerRequest'
  <2>1. /\ UNCHANGED queueVars /\ UNCHANGED cur /\ wpc[w] = "callback"
        /\ wpc' = [wpc EXCEPT ![w] = "complete"]
        /\ outstanding' = outstanding \ {ereq[cur[w]]}
    BY <1>5 DEF Callback
  <2>2. Transferring' = Transferring \ {w} /\ w \in Transferring
    BY <1>0, <2>1 DEF Transferring, TypeOK
  <2>3. Pendq' = Pendq /\ Busyq' = Busyq /\ UNCHANGED ereq
    BY <2>1 DEF queueVars, Pendq, Busyq
  <2>4. cur[w] \in Busyq /\ cur[w] \notin Pendq
    BY <1>0, <2>1 DEF Held, Busyq, Pendq
  <2>5. \A u \in Transferring : cur[u] = cur[w] => u = w
    BY <1>0, <2>1 DEF Held, Transferring
  <2>6. cur[w] \in Awaiting /\ Awaiting' = Awaiting \ {cur[w]}
    BY <1>0, <2>1, <2>2, <2>3, <2>4, <2>5, <1>00 DEF AwaitingByQueue
  <2> QED
    BY <2>1, <2>3, <2>6, RequestsLess
<1>6. ASSUME NEW w \in Workers, Complete(w)
      PROVE  OneElementPerRequest'
  <2>1. /\ CompleteElem(cur[w]) /\ cur' = [cur EXCEPT ![w] = NoElem]
        /\ wpc' = [wpc EXCEPT ![w] = "loop"] /\ UNCHANGED outstanding
        /\ wpc[w] = "complete"
    BY <1>6 DEF Complete
  <2>2. cur[w] \in Elems /\ status[cur[w]] = "DONE"
    BY <1>0, <2>1 DEF Held
  <2>3. Pendq' = Pendq \ {cur[w]} /\ Busyq' = Busyq \ {cur[w]}
    BY <1>0, <2>1, <2>2, CompleteQueue
  <2>4. Transferring' = Transferring
        /\ \A u \in Transferring : cur'[u] = cur[u] /\ cur[u] # cur[w]
    BY <1>0, <2>1, <2>2 DEF Transferring, TypeOK, Held
  <2>5. cur[w] \notin Pendq
    BY <2>2 DEF Pendq
  <2>6. cur[w] \notin Awaiting /\ Awaiting' = Awaiting
    BY <1>0, <2>3, <2>4, <2>5, <1>00 DEF AwaitingByQueue
  <2>7. \A e \in Awaiting : ereq'[e] = ereq[e]
    BY <1>0, <2>1, <2>6, <1>00 DEF AwaitingByQueue, CompleteElem, TypeOK
  <2> QED
    BY <2>1, <2>6, <2>7 DEF OneElementPerRequest
<1>7. ASSUME NEW r \in Reqs, Request(r)
      PROVE  OneElementPerRequest'
  <2>0. r \notin outstanding /\ UNCHANGED <<wpc, cur>>
    BY <1>0, <1>7, RequestStep
  <2>1. CASE UNCHANGED <<queueVars, outstanding>>
    BY <1>1, <2>0, <2>1
  <2>2. ASSUME NEW e \in Freeq, NEW o \in Offsets, NEW end \in Offsets \cup {OffMax},
               Enqueue(e, r, o, end), outstanding' = outstanding \cup {r}
        PROVE  OneElementPerRequest'
    <3>1. Pendq' = Pendq \cup {e} /\ Busyq' = Busyq
      BY <1>0, <2>2, EnqueueQueue
    <3>2. Transferring' = Transferring /\ UNCHANGED cur
      BY <2>0 DEF Transferring
    <3>3. Awaiting' = Awaiting \cup {e}
      BY <1>0, <3>1, <3>2, <1>00 DEF AwaitingByQueue
    <3>4. e \notin Awaiting /\ e \in Elems
      BY <1>00 DEF AwaitingByQueue, Freeq, Pendq, Busyq
    <3>5. ereq'[e] = r /\ \A f \in Awaiting : ereq'[f] = ereq[f]
      BY <1>0, <2>2, <3>4, <1>00 DEF AwaitingByQueue, Enqueue, TypeOK
    <3> QED
      BY <2>0, <2>2, <3>3, <3>4, <3>5 DEF OneElementPerRequest
  <2> QED
    BY <1>0, <1>7, <2>1, <2>2, RequestStep
<1>8. ASSUME NEW r \in Reqs, CancelQueued(r)
      PROVE  OneElementPerRequest'
  <2>1. PICK e \in Pendq : CompleteElem(e) /\ ereq[e] = r
    BY <1>8 DEF CancelQueued
  <2>2. UNCHANGED <<wpc, cur>> /\ outstanding' = outstanding \ {r}
    BY <1>8 DEF CancelQueued, workerVars
  <2>3. e \in Elems /\ e \notin Busyq
    BY DEF Pendq, Busyq
  <2>4. Pendq' = Pendq \ {e} /\ Busyq' = Busyq \ {e}
    BY <1>0, <2>1, <2>3, CompleteQueue
  <2>5. Transferring' = Transferring /\ UNCHANGED cur
    BY <2>2 DEF Transferring
  <2>6. e \in Awaiting /\ Awaiting' = Awaiting \ {e}
    BY <1>0, <2>3, <2>4, <2>5, <1>00 DEF AwaitingByQueue
  <2>7. \A f \in Awaiting \ {e} : ereq'[f] = ereq[f]
    BY <1>0, <2>1, <1>00 DEF AwaitingByQueue, CompleteElem, TypeOK
  <2> QED
    BY <2>1, <2>2, <2>6, <2>7, RequestsLess
<1>9. ASSUME NEW r \in Reqs, CancelBusy(r)
      PROVE  OneElementPerRequest'
  BY <1>1, <1>9 DEF CancelBusy, workerVars
<1>10. CASE ControlStep
  BY <1>1, <1>10 DEF ControlStep, SigHandler, CancelLoop, Pause, PauseDrained, Resume,
         Close, CloseBroadcast, CloseJoin, workerVars
<1> QED
  BY <1>2, <1>3, <1>4, <1>5, <1>6, <1>7, <1>8, <1>9, <1>10
     DEF Next, WorkerStep, DeviceStep

LEMMA RequestsInit == Init => OneElementPerRequest
BY DEF Init, OneElementPerRequest, Awaiting, Pendq

(* Every outstanding request has exactly one element that will call it back *)
(* and every such element an outstanding request: no request of the device  *)
(* model completes twice, none is lost, and one that blockif_cancel()       *)
(* dropped is not called back.                                              *)
THEOREM OneElementPerRequestAlways == Spec => []OneElementPerRequest
BY BlockAlways, RequestsInit, RequestsNext, PTL DEF Spec

----------------------------------------------------------------------------
(* The pool of elements is large enough *)

\* Elements not yet free, although their request has been called back.
Completing == {e \in Busyq : \E w \in Workers : cur[w] = e /\ wpc[w] = "complete"}

LEMMA CompletingFewerThanWorkers ==
    ASSUME BlockInv
    PROVE  IsFiniteSet(Completing) /\ Cardinality(Completing) <= Cardinality(Workers)
<1> DEFINE holder == [e \in Completing |-> CHOOSE w \in Workers : cur[w] = e]
<1>1. \A e \in Completing : holder[e] \in Workers /\ cur[holder[e]] = e
  BY DEF Completing
<1>2. holder \in Injection(Completing, Workers)
  BY <1>1 DEF Injection, IsInjective
<1>3. IsFiniteSet(Workers)
  BY ElemsAssumption DEF ElemsAssumption
<1> QED
  BY <1>2, <1>3, FS_Injection

LEMMA AwaitingFewerThanOutstanding ==
    ASSUME BlockInv, OneElementPerRequest
    PROVE  IsFiniteSet(Awaiting) /\ Cardinality(Awaiting) <= Cardinality(outstanding)
<1> DEFINE req == [e \in Awaiting |-> ereq[e]]
<1>1. req \in Injection(Awaiting, outstanding)
  BY DEF OneElementPerRequest, Injection, IsInjective
<1>2. IsFiniteSet(outstanding)
  BY ElemsAssumption, FS_Subset DEF ElemsAssumption, BlockInv, TypeOK
<1> QED
  BY <1>1, <1>2, FS_Injection

LEMMA RoomForRequest ==
    ASSUME BlockInv, OneElementPerRequest, NEW r \in Reqs, r \notin outstanding
    PROVE  Freeq # {}
<1> SUFFICES ASSUME Freeq = {} PROVE FALSE
  OBVIOUS
<1>1. IsFiniteSet(Reqs) /\ IsFiniteSet(Workers)
      /\ Cardinality(Elems) = Cardinality(Reqs) + Cardinality(Workers)
  BY ElemsAssumption DEF ElemsAssumption
<1>2. outstanding \in SUBSET (Reqs \ {r}) /\ IsFiniteSet(Reqs \ {r})
      /\ Cardinality(Reqs \ {r}) = Cardinality(Reqs) - 1
  BY <1>1, FS_RemoveElement DEF BlockInv, TypeOK
<1>3. IsFiniteSet(outstanding) /\ Cardinality(outstanding) <= Cardinality(Reqs) - 1
  BY <1>2, FS_Subset
<1>4. Elems = Awaiting \cup Completing
  <2>1. Elems = Pendq \cup Busyq
    BY DEF Freeq, Pendq, Busyq, BlockInv, TypeOK, Statuses
  <2>2. \A e \in Busyq : \E w \in Workers : cur[w] = e /\ wpc[w] \in {"proc", "callback", "complete"}
    <3>1. \A w \in Workers : cur[w] \in Elems => wpc[w] \in {"proc", "callback", "complete"}
      BY ElemsAssumption DEF ElemsAssumption, BlockInv, Held
    <3> QED
      BY <3>1 DEF BlockInv, Held, Busyq
  <2> QED
    BY <2>1, <2>2, AwaitingNow DEF AwaitingByQueue, Completing, Transferring
<1>5. Cardinality(Elems) <= Cardinality(Awaiting) + Cardinality(Completing)
  <2>1. Cardinality(Awaiting \cap Completing) \in Nat
    BY CompletingFewerThanWorkers, AwaitingFewerThanOutstanding, FS_Intersection,
       FS_CardinalityType
  <2>2. Cardinality(Awaiting) \in Nat /\ Cardinality(Completing) \in Nat
    BY CompletingFewerThanWorkers, AwaitingFewerThanOutstanding, FS_CardinalityType
  <2>3. Cardinality(Elems) = Cardinality(Awaiting) + Cardinality(Completing)
                              - Cardinality(Awaiting \cap Completing)
    BY <1>4, CompletingFewerThanWorkers, AwaitingFewerThanOutstanding, FS_Union, Zenon
  <2> QED
    BY <2>1, <2>2, <2>3, SMT
<1>6. /\ Cardinality(Awaiting) \in Nat /\ Cardinality(Completing) \in Nat
      /\ Cardinality(outstanding) \in Nat /\ Cardinality(Reqs) \in Nat
      /\ Cardinality(Workers) \in Nat
  BY <1>1, <1>3, CompletingFewerThanWorkers, AwaitingFewerThanOutstanding,
     FS_CardinalityType
<1> QED
  BY <1>1, <1>3, <1>5, <1>6, CompletingFewerThanWorkers, AwaitingFewerThanOutstanding

LEMMA OverrunNext ==
    BlockInv /\ OneElementPerRequest /\ NoOverrun /\ [Next]_vars => NoOverrun'
<1> SUFFICES ASSUME BlockInv, OneElementPerRequest, NoOverrun, [Next]_vars
             PROVE  NoOverrun'
  OBVIOUS
<1>1. ASSUME NEW r \in Reqs, Request(r)
      PROVE  NoOverrun'
  <2>1. TypeOK
    BY DEF BlockInv
  <2>2. Freeq # {}
    BY <1>1, <2>1, RequestStep, RoomForRequest
  <2> QED
    BY <1>1, <2>1, <2>2, RequestStep DEF NoOverrun
<1>2. ASSUME NEW r \in Reqs, CancelQueued(r) \/ CancelBusy(r)
      PROVE  NoOverrun'
  BY <1>2 DEF CancelQueued, CancelBusy, NoOverrun
<1>3. ASSUME NEW w \in Workers, WorkerStep(w)
      PROVE  NoOverrun'
  BY <1>3 DEF WorkerStep, Dequeue, Idle, Wake, PausedWake, Proc, Callback, Complete,
              NoOverrun
<1>4. CASE ControlStep
  BY <1>4 DEF ControlStep, SigHandler, CancelLoop, Pause, PauseDrained, Resume,
              Close, CloseBroadcast, CloseJoin, NoOverrun
<1>5. CASE UNCHANGED vars
  BY <1>5 DEF vars, NoOverrun
<1> QED
  BY <1>1, <1>2, <1>3, <1>4, <1>5 DEF Next, DeviceStep

(* With BLOCKIF_MAXREQ = BLOCKIF_RING_MAX + BLOCKIF_NUMTHR elements, a      *)
(* device model that keeps at most BLOCKIF_RING_MAX requests outstanding    *)
(* never meets blockif_request()'s E2BIG: each worker keeps at most one     *)
(* element past the callback of its request.                                *)
THEOREM NoOverrunAlways == Spec => []NoOverrun
<1>1. Init => NoOverrun
  BY DEF Init, NoOverrun
<1> QED
  BY <1>1, BlockAlways, OneElementPerRequestAlways, OverrunNext, PTL DEF Spec

----------------------------------------------------------------------------
(* The queue is served, and stopping is clean *)

\* A queue of blocked requests only has a request in flight: the first of the
\* queue is blocked by nothing ahead of it.
LEMMA SomethingRunnable ==
    ASSUME BlockInv, Pendq # {}
    PROVE  \E e \in Elems : status[e] \in {"PEND", "BUSY", "DONE"}
<1> DEFINE R == StrictSubsetOrdering(Elems)
           T == {ahead[e] : e \in Pendq}
<1>1. Pendq \subseteq Elems
  BY DEF Pendq
<1>2. T \subseteq SUBSET Elems /\ T # {}
  BY <1>1 DEF BlockInv, TypeOK
<1>3. IsWellFoundedOn(R, SUBSET Elems)
  <2>1. IsFiniteSet(Elems)
    BY ElemsAssumption DEF ElemsAssumption
  <2> QED
    BY <2>1, FS_FiniteSubsetsOfFinite, FS_StrictSubsetOrderingWellFounded
<1>4. PICK m \in T : \A s \in T : <<s, m>> \notin R
  <2> HIDE DEF R, T
  <2> QED
    BY <1>2, <1>3, WFMin
<1>5. PICK e \in Pendq : m = ahead[e]
  OBVIOUS
<1>6. ahead[e] = {}
  <2> SUFFICES ASSUME NEW f \in ahead[e] PROVE FALSE
    OBVIOUS
  <2>1. /\ f \in Pendq /\ ahead[f] \subseteq ahead[e] /\ f \notin ahead[f]
        /\ ahead[f] \in SUBSET Elems /\ ahead[e] \in SUBSET Elems
    BY <1>1 DEF BlockInv, QueueOrder, TypeOK
  <2>2. <<ahead[f], ahead[e]>> \in R
    BY <2>1 DEF StrictSubsetOrdering
  <2> QED
    BY <1>4, <1>5, <2>1, <2>2
<1>7. CASE status[e] = "BLOCK"
  BY <1>1, <1>6, <1>7 DEF BlockInv, BlockedForCause, Busyq
<1> QED
  BY <1>1, <1>7 DEF Pendq

LEMMA BusyWorker ==
    ASSUME BlockInv, NEW e \in Elems, status[e] \in {"BUSY", "DONE"}
    PROVE  \E w \in Workers : w \notin asleep /\ wpc[w] \in {"proc", "callback", "complete"}
<1>1. PICK w \in Workers : cur[w] = e
  BY DEF BlockInv, Held, Busyq
<1>2. wpc[w] \in {"proc", "callback", "complete"}
  BY <1>1, ElemsAssumption DEF ElemsAssumption, BlockInv, Held
<1> QED
  BY <1>2 DEF BlockInv, Control

LEMMA QueueAttended ==
    ASSUME BlockInv, Attended, pauser = "run", Pendq # {}
    PROVE  SomeoneAwake
<1>1. PICK e \in Elems : status[e] \in {"PEND", "BUSY", "DONE"}
  BY SomethingRunnable
<1>2. CASE status[e] = "PEND"
  BY <1>2 DEF Attended
<1>3. CASE status[e] \in {"BUSY", "DONE"}
  BY <1>3, BusyWorker DEF SomeoneAwake
<1> QED
  BY <1>1, <1>2, <1>3

LEMMA AttendedNext == BlockInv /\ Attended /\ [Next]_vars => Attended'
<1> SUFFICES ASSUME BlockInv, Attended, [Next]_vars
             PROVE  Attended'
  OBVIOUS
<1>0. BlockInv' /\ TypeOK /\ TypeOK' /\ Control /\ Control'
  BY BlockNext DEF BlockInv
<1>1. ASSUME NEW w \in Workers, wpc'[w] \in {"loop", "proc", "callback", "complete"}
      PROVE  Attended'
  <2>1. w \notin asleep'
    BY <1>0, <1>1 DEF Control
  <2>2. SomeoneAwake'
    BY <1>1, <2>1 DEF SomeoneAwake
  <2> QED
    BY <1>1, <2>2 DEF Attended
<1>2. ASSUME UNCHANGED <<status, wpc>>, asleep' \subseteq asleep, pauser' = "run" => pauser = "run"
      PROVE  Attended'
  BY <1>2 DEF Attended, SomeoneAwake, Pendq
<1>3. ASSUME NEW w \in Workers, Dequeue(w) \/ Wake(w) \/ Proc(w) \/ Callback(w) \/ Complete(w)
      PROVE  Attended'
  BY <1>0, <1>1, <1>3 DEF Dequeue, Wake, Proc, Callback, Complete, TypeOK
<1>4. ASSUME NEW w \in Workers, PausedWake(w)
      PROVE  Attended'
  <2>1. pauser' # "run" /\ wpc'[w] # "exit"
    BY <1>0, <1>4 DEF PausedWake, ctrlVars, Control, TypeOK
  <2> QED
    BY <2>1 DEF Attended
<1>5. ASSUME NEW w \in Workers, Idle(w)
      PROVE  Attended'
  <2>1. UNCHANGED queueVars /\ UNCHANGED ctrlVars /\ wpc[w] = "loop"
        /\ (paused \/ \A e \in Elems : status[e] # "PEND")
    BY <1>5 DEF Idle
  <2>2. pauser' = "run" => \A e \in Elems : status'[e] # "PEND"
    BY <1>0, <2>1 DEF queueVars, ctrlVars, Control
  <2>3. ASSUME \A u \in Workers : wpc'[u] = "exit"
        PROVE  Pendq' = {}
    <3>1. \A e \in Elems : status[e] # "PEND"
      BY <1>0, <2>1, <2>3 DEF Control, ctrlVars
    <3>2. \A u \in Workers : wpc[u] \notin {"proc", "callback", "complete"}
      BY <1>0, <1>5, <2>1, <2>3 DEF Idle, TypeOK
    <3>3. \A e \in Elems : status[e] \notin {"BUSY", "DONE"}
      BY <3>2, BusyWorker
    <3>4. Pendq = {}
      BY <3>1, <3>3, SomethingRunnable
    <3> QED
      BY <2>1, <3>4 DEF queueVars, Pendq
  <2> QED
    BY <2>2, <2>3 DEF Attended
<1>6. ASSUME NEW r \in Reqs, Request(r)
      PROVE  Attended'
  <2>0. closer = "open" /\ UNCHANGED <<wpc, cur>> /\ UNCHANGED ctrlVars
    BY <1>0, <1>6, RequestStep
  <2>1. PICK w \in Workers : TRUE
    BY ElemsAssumption DEF ElemsAssumption
  <2>2. \A u \in Workers : wpc'[u] # "exit"
    BY <1>0, <2>0 DEF Control
  <2>3. CASE UNCHANGED <<queueVars, asleep>>
    BY <1>2, <2>0, <2>3 DEF queueVars, ctrlVars
  <2>4. ASSUME NEW e \in Freeq, NEW o \in Offsets, NEW end \in Offsets \cup {OffMax},
               Enqueue(e, r, o, end),
               IF BlockedBy(o) = {} THEN SignalCond ELSE UNCHANGED asleep
        PROVE  Attended'
    <3>1. CASE BlockedBy(o) = {} /\ Waiting # {}
      <4>1. PICK u \in Waiting : asleep' = asleep \ {u}
        BY <2>4, <3>1 DEF SignalCond
      <4>2. u \in Workers /\ u \notin asleep'
        BY <1>0, <4>1 DEF Waiting, TypeOK
      <4> QED
        BY <2>2, <4>2 DEF Attended, SomeoneAwake
    <3>2. CASE BlockedBy(o) = {} /\ Waiting = {}
      <4>1. pauser' = "run" => asleep' = {}
        BY <1>0, <2>0, <2>4, <3>2 DEF SignalCond, Waiting, Control, ctrlVars, TypeOK
      <4> QED
        BY <2>1, <2>2, <4>1 DEF Attended, SomeoneAwake
    <3>3. CASE BlockedBy(o) # {}
      <4>1. \A f \in Elems : status'[f] = "PEND" => status[f] = "PEND"
        BY <1>0, <2>4, <3>3 DEF Enqueue, Freeq, TypeOK
      <4>2. UNCHANGED <<asleep, wpc, pauser>>
        BY <2>0, <2>4, <3>3 DEF ctrlVars
      <4> QED
        BY <2>1, <2>2, <4>1, <4>2 DEF Attended, SomeoneAwake
    <3> QED
      BY <3>1, <3>2, <3>3
  <2> QED
    BY <1>0, <1>6, <2>3, <2>4, RequestStep
<1>7. ASSUME NEW r \in Reqs, CancelQueued(r)
      PROVE  Attended'
  <2>1. Pendq # {} /\ UNCHANGED <<wpc, asleep, pauser>>
    BY <1>7 DEF CancelQueued, workerVars, ctrlVars
  <2>2. pauser = "run" => SomeoneAwake
    BY <2>1, QueueAttended
  <2> QED
    BY <2>1, <2>2 DEF Attended, SomeoneAwake
<1>8. ASSUME NEW r \in Reqs, CancelBusy(r)
      PROVE  Attended'
  BY <1>2, <1>8 DEF CancelBusy, queueVars, workerVars, ctrlVars
<1>9. CASE ControlStep
  BY <1>2, <1>9 DEF ControlStep, SigHandler, CancelLoop, Pause, PauseDrained, Resume,
         Close, CloseBroadcast, CloseJoin, Waiting, queueVars, workerVars, ctrlVars
<1>10. CASE UNCHANGED vars
  BY <1>2, <1>10 DEF vars, queueVars, workerVars, ctrlVars
<1> QED
  BY <1>3, <1>4, <1>5, <1>6, <1>7, <1>8, <1>9, <1>10 DEF Next, WorkerStep, DeviceStep

LEMMA AttendedAlways == Spec => []Attended
<1>1. Init => Attended
  BY DEF Init, Attended, Pendq
<1> QED
  BY <1>1, BlockAlways, AttendedNext, PTL DEF Spec

(* A backend that has never been paused leaves no queued request behind: if *)
(* all are blocked one is in flight, and if one is runnable a worker is     *)
(* awake, although blockif_complete() and blockif_cancel() unblock requests *)
(* without a signal and blockif_request() signals only one worker.          *)
THEOREM NoStuckQueueAlways == Spec => []NoStuckQueue
<1>1. BlockInv /\ Attended => NoStuckQueue
  BY SomethingRunnable DEF Attended, SomeoneAwake, NoStuckQueue, QueueServed
<1> QED
  BY <1>1, BlockAlways, AttendedAlways, PTL

(* blockif_pause() returns with no transfer in progress and none starts     *)
(* before blockif_resume(); blockif_close() returns with every queue empty, *)
(* and after its broadcast no worker sleeps.                                *)
THEOREM StopsCleanlyAlways == Spec => []StopsCleanly
<1>1. BlockInv /\ OneElementPerRequest /\ Attended => StopsCleanly
  <2> SUFFICES ASSUME BlockInv, OneElementPerRequest, Attended
               PROVE  StopsCleanly
    OBVIOUS
  <2>1. ASSUME \A w \in Workers : wpc[w] \notin {"proc", "callback", "complete"}
        PROVE  Busyq = {}
    BY <2>1, BusyWorker DEF Busyq
  <2>2. ASSUME closer = "closed"
        PROVE  outstanding = {} /\ Pendq = {} /\ Busyq = {}
    <3>1. \A w \in Workers : wpc[w] = "exit"
      BY <2>2 DEF BlockInv, Control
    <3>2. Pendq = {} /\ Busyq = {}
      BY <2>1, <3>1 DEF Attended
    <3>3. Awaiting = {}
      BY <3>2, AwaitingNow DEF AwaitingByQueue
    <3> QED
      BY <3>2, <3>3 DEF OneElementPerRequest
  <2>3. QuietWhenStopped
    BY <2>1, <2>2 DEF QuietWhenStopped, BlockInv, Control
  <2>4. JoinReturns
    BY DEF JoinReturns, BlockInv, Control
  <2> QED
    BY <2>3, <2>4 DEF StopsCleanly
<1> QED
  BY <1>1, BlockAlways, OneElementPerRequestAlways, AttendedAlways, PTL
============================================================================
