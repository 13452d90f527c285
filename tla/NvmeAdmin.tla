------------------------------ MODULE NvmeAdmin ------------------------------
(* The admin queue of pci_nvme.c: a doorbell handles the commands up to the   *)
(* tail, posts their completions and interrupts.                              *)
EXTENDS Naturals, Sequences, FiniteSets

CONSTANTS QSize,         \* entries of both admin queues
          MaxQueues,     \* max_queues: I/O queues the controller was given
          MaxCommands    \* bound: commands submitted
VARIABLE sc

\* The admin opcodes with the distinctions the handlers make.
Queues   == 0..(MaxQueues + 1)
Commands == [op : {"create_sq", "delete_sq", "create_cq", "delete_cq"}, qid : Queues, pc : BOOLEAN]
            \cup [op : {"log", "identify", "set", "get"}, known : BOOLEAN]
            \cup [op : {"queues"}, nqr : Queues]
            \cup [op : {"abort", "async", "other"}]

Init ==
    sc = [sqTail |-> 0, sqHead |-> 0, local |-> 0, at |-> "idle", handled |-> 0,
          cqTail |-> 0, cqHead |-> 0, posted |-> 0, intr |-> FALSE,
          nsq |-> MaxQueues, ncq |-> MaxQueues, sqs |-> {}, cqs |-> {}, next |-> 1]

----------------------------------------------------------------------------
(* The handlers: [sc |-> the new state, status |-> "ok", "error" or "none"]   *)

Answer(p, ok) == [sc |-> p, status |-> IF ok THEN "ok" ELSE "error"]

DeleteIoSq(p, c) == Answer([p EXCEPT !.sqs = IF c.qid \in 1..p.nsq THEN @ \ {c.qid} ELSE @], c.qid \in 1..p.nsq)
DeleteIoCq(p, c) == Answer([p EXCEPT !.cqs = IF c.qid \in 1..p.ncq THEN @ \ {c.qid} ELSE @], c.qid \in 1..p.ncq)
CreateIoSq(p, c) ==
    LET ok == c.pc /\ c.qid \in 1..p.nsq
    IN Answer([p EXCEPT !.sqs = IF ok THEN @ \cup {c.qid} ELSE @], ok)
CreateIoCq(p, c) ==
    LET ok == c.pc /\ c.qid \in 1..p.ncq
    IN Answer([p EXCEPT !.cqs = IF ok THEN @ \cup {c.qid} ELSE @], ok)
GetLogPage(p, c) == Answer(p, c.known)
Identify(p, c)   == Answer(p, c.known)
GetFeatures(p, c) == Answer(p, c.known)
Abort(p, c)      == Answer(p, TRUE)

\* nvme_set_feature_queues(): a request for n + 1 queues, at most max_queues;
\* the error for 0xffff is overwritten by the success of its caller.
ClampQueues(n) == IF n + 1 > MaxQueues THEN MaxQueues ELSE n + 1
SetFeatureQueues(p, c) == [p EXCEPT !.nsq = ClampQueues(c.nqr), !.ncq = ClampQueues(c.nqr)]
SetFeatures(p, c) ==
    IF c.op = "queues" THEN Answer(SetFeatureQueues(p, c), TRUE) ELSE Answer(p, c.known)

HandleCommand(p, c) ==
    CASE c.op = "delete_sq" -> DeleteIoSq(p, c)
      [] c.op = "create_sq" -> CreateIoSq(p, c)
      [] c.op = "delete_cq" -> DeleteIoCq(p, c)
      [] c.op = "create_cq" -> CreateIoCq(p, c)
      [] c.op = "log"       -> GetLogPage(p, c)
      [] c.op = "identify"  -> Identify(p, c)
      [] c.op = "abort"     -> Abort(p, c)
      [] c.op \in {"set", "queues"} -> SetFeatures(p, c)
      [] c.op = "get"       -> GetFeatures(p, c)
      [] c.op = "async"     -> [sc |-> p, status |-> "none"]
      [] OTHER              -> Answer(p, FALSE)

----------------------------------------------------------------------------
(* The doorbell                                                             *)

Step(i) == (i + 1) % QSize

\* The guest, under the lock of its admin queue, places a command and writes
\* the doorbell: no other vcpu can be in the handler, so the busy flag is free.
Ring ==
    /\ sc.at = "idle" /\ sc.next <= MaxCommands /\ Step(sc.sqTail) # sc.sqHead
    /\ Step(sc.cqTail) # sc.cqHead
    /\ sc' = [sc EXCEPT !.next = @ + 1, !.sqTail = Step(@), !.at = "loop", !.local = sc.sqHead]

\* One command of the loop of pci_nvme_handle_admin_cmd().
HandleAdminCmd ==
    /\ sc.at = "loop" /\ sc.local # sc.sqTail
    /\ \E c \in Commands :
        LET r == HandleCommand([sc EXCEPT !.local = Step(@), !.handled = @ + 1], c)
        IN sc' = IF r.status = "none" THEN r.sc
                 ELSE [r.sc EXCEPT !.posted = @ + 1, !.cqTail = Step(@)]
Leave ==
    /\ sc.at = "loop" /\ sc.local = sc.sqTail
    /\ sc' = [sc EXCEPT !.sqHead = sc.local, !.at = "intr"]
Interrupt ==
    /\ sc.at = "intr"
    /\ sc' = [sc EXCEPT !.at = "idle", !.intr = @ \/ sc.cqHead # sc.cqTail]

\* The guest's handler takes every completion and writes the head's doorbell.
GuestIntr == sc.intr /\ sc' = [sc EXCEPT !.intr = FALSE, !.cqHead = sc.cqTail, !.posted = 0]

Next == GuestIntr \/ Ring \/ HandleAdminCmd \/ Leave \/ Interrupt
vars == <<sc>>

----------------------------------------------------------------------------
\* No command is left behind when the handler returns, and a completion the
\* guest has not seen has its interrupt sent or about to be.
NoLostInterrupt ==
    /\ sc.at = "idle" => sc.handled = sc.next - 1
    /\ sc.posted > 0 => sc.intr \/ sc.at # "idle"

\* The controller never offers, or keeps, a queue it has no memory for.
QueuesBounded == sc.nsq <= MaxQueues /\ sc.ncq <= MaxQueues /\ sc.sqs \cup sc.cqs \subseteq 1..MaxQueues
============================================================================
