-------------------------------- MODULE Gdb --------------------------------
(* The debug server (gdb.c): vcpu threads that stop on a request, a single     *)
(* step or a breakpoint, wait together, report once and go on. Every handler   *)
(* runs under gdb_lock and gives it up only to wait on idle_vcpus.             *)
EXTENDS Integers, FiniteSets, Sequences

CONSTANTS Vcpus,    \* vcpu numbers
          Boot,     \* vcpus started before the debugger connects
          Waits,    \* whether the first vcpu waits for the debugger: subset of BOOLEAN
          GdbOps,   \* bound: commands of the debugger
          MaxCmds,  \* bound: commands of the debugger
          Page,     \* bytes of a page
          MaxMem    \* bound: bytes of a memory command
VARIABLES srv, conn

Kinds == {"debug", "mtrap", "bpt", "add"}
Pcs == {"off", "guest"} \cup {"x_debug", "x_mtrap", "x_bpt"} \cup {"w_debug", "w_mtrap", "w_bpt", "w_add"}

\* `suspended', `waiting', `active' as in gdb.c; `dbg': vcpus suspended in the kernel
\* (vm_suspend_cpu()); `mtrap', `bptexit': capabilities; `bp': the breakpoint is set;
\* `view': what the debugger believes; `told': a stop report is on its way; ghosts:
\* `early' (resumed before the first stop ended, attached
\* before a vcpu started, or stepped a vcpu still in gdb_cpu_add(), which arms no trap), `spin' (a handler loops with the lock),
\* `bad' (an assertion of the code fails).
GdbTypeOK ==
    /\ srv.pc \in [Vcpus -> Pcs] /\ srv.stopped \in Vcpus \cup {-1} /\ srv.cur \in Vcpus
    /\ srv.active \subseteq Vcpus /\ srv.waiting \subseteq srv.active /\ srv.dbg \subseteq Vcpus
    /\ srv.view \in {"none", "attached", "running", "stopped"}

GdbInit ==
       \E w \in Waits :
       srv = [pc |-> [v \in Vcpus |-> IF v \in Boot /\ ~w THEN "guest" ELSE "off"], active |-> IF w THEN {} ELSE Boot,
              suspended |-> IF w THEN {0} ELSE {}, waiting |-> {}, dbg |-> {}, mtrap |-> {}, bptexit |-> {}, bp |-> FALSE,
              stepping |-> {}, stepped |-> {}, hit |-> {}, stopped |-> IF w THEN 0 ELSE -1, cur |-> 0, first |-> FALSE,
              next |-> FALSE, view |-> "none", told |-> FALSE, early |-> FALSE, spin |-> FALSE, bad |-> FALSE,
              ops |-> 0]

GdbReportStop(s, setcur) ==
    [s EXCEPT !.cur = IF setcur /\ s.stopped # -1 THEN s.stopped ELSE @, !.next = FALSE, !.told = TRUE]
DiscardStop(s) ==
    [s EXCEPT !.hit = @ \ {s.stopped}, !.stepped = @ \ {s.stopped}, !.stopped = -1, !.next = TRUE]
FinishSuspendVcpus(s) ==
    IF s.first THEN [s EXCEPT !.first = FALSE, !.stopped = -1]
    ELSE IF s.next THEN [GdbReportStop(s, TRUE) EXCEPT !.bad = @ \/ s.told] ELSE s
SuspendVcpus(s) ==
    LET t == [s EXCEPT !.suspended = s.active, !.dbg = s.active]
    IN IF t.waiting = t.suspended THEN FinishSuspendVcpus(t) ELSE t
ResumeVcpus(s) == [s EXCEPT !.dbg = {}, !.suspended = {}]

\* gdb_cpu_resume(): its assertions, and the trap of a single step.
CpuResume(s, v) ==
    [s EXCEPT !.bad = @ \/ v \in s.hit \cup s.stepped, !.mtrap = IF v \in s.stepping THEN @ \cup {v} ELSE @, !.pc[v] = "guest"]
\* _gdb_cpu_suspend() up to its wait, or to its end when the vcpu need not wait.
Suspend(s, v, report) ==
    LET t == [s EXCEPT !.waiting = @ \cup {v}]
    IN IF report /\ t.waiting = t.suspended THEN FinishSuspendVcpus(t) ELSE t
Unwait(s, v) == [s EXCEPT !.waiting = @ \ {v}]
WaitOr(s, v, pc, t) == IF v \in s.suspended THEN [s EXCEPT !.pc[v] = pc] ELSE t
\* The loops of gdb_cpu_mtrap() and gdb_cpu_breakpoint(): the first vcpu with an
\* event to report stops the others, then every one of them waits.
EventLoop(s, v, pc) ==
    LET t == IF s.stopped = -1 THEN SuspendVcpus([s EXCEPT !.stopped = v]) ELSE s
        u == Suspend(t, v, TRUE)
    IN WaitOr(u, v, pc, [Unwait(u, v) EXCEPT !.spin = TRUE])
AfterMtrap(s, v) == IF v \in s.stepped THEN EventLoop(s, v, "w_mtrap") ELSE CpuResume(s, v)
AfterBreakpoint(s, v) ==
    IF v \notin s.hit THEN CpuResume(s, v)
    ELSE IF ~s.bp THEN CpuResume([s EXCEPT !.hit = @ \ {v}], v) ELSE EventLoop(s, v, "w_bpt")

\* Vcpu threads.
CpuAdd(v) ==
    LET s == [srv EXCEPT !.active = @ \cup {v}, !.bptexit = IF srv.bp THEN @ \cup {v} ELSE @]
        t == Suspend([s EXCEPT !.suspended = @ \cup {v}], v, FALSE)
    IN /\ srv.pc[v] = "off"
       /\ srv' = IF srv.suspended = {} THEN [s EXCEPT !.pc[v] = "guest"]
                 ELSE WaitOr(t, v, "w_add", Unwait(t, v))
\* A debugger lifts the breakpoint at the vcpu's own address before it steps it, so a
\* stepped vcpu meets its trap and not the breakpoint.
ExitPc == [debug |-> "x_debug", mtrap |-> "x_mtrap", bpt |-> "x_bpt"]
Exit(v, kind) ==
    /\ srv.pc[v] = "guest"
    /\ CASE kind = "debug" -> v \in srv.dbg
         [] kind = "mtrap" -> v \in srv.mtrap
         [] kind = "bpt"   -> v \in srv.bptexit /\ srv.bp /\ v \notin srv.mtrap /\ v \notin srv.dbg
    /\ srv' = [srv EXCEPT !.pc[v] = ExitPc[kind]]
CpuSuspend(v) ==
    /\ srv.pc[v] = "x_debug"
    /\ LET s == Suspend(srv, v, TRUE)
       IN srv' = WaitOr(s, v, "w_debug", CpuResume(Unwait(s, v), v))
CpuMtrap(v) ==
    /\ srv.pc[v] = "x_mtrap"
    /\ srv' = IF v \notin srv.stepping THEN [srv EXCEPT !.pc[v] = "guest"]
              ELSE EventLoop([srv EXCEPT !.stepping = @ \ {v}, !.stepped = @ \cup {v}, !.mtrap = @ \ {v}], v, "w_mtrap")
\* A breakpoint that is no longer set goes to the guest as an exception.
CpuBreakpoint(v) ==
    /\ srv.pc[v] = "x_bpt"
    /\ srv' = IF ~srv.bp THEN [srv EXCEPT !.pc[v] = "guest"]
              ELSE EventLoop([srv EXCEPT !.hit = @ \cup {v}, !.bad = @ \/ v \in srv.stepping \cup srv.stepped \cup srv.hit], v, "w_bpt")
\* A broadcast woke the vcpu and it is no longer suspended.
Wake(v) ==
    LET s == Unwait(srv, v)
    IN /\ srv.pc[v] \in {"w_debug", "w_mtrap", "w_bpt", "w_add"} /\ v \notin srv.suspended
       /\ srv' = CASE srv.pc[v] = "w_debug" -> CpuResume(s, v)
                   [] srv.pc[v] = "w_mtrap" -> AfterMtrap(s, v)
                   [] srv.pc[v] = "w_bpt"   -> AfterBreakpoint(s, v)
                   [] srv.pc[v] = "w_add"   -> [s EXCEPT !.pc[v] = "guest"]

\* The debugger. It sends a resume or breakpoint command only when it knows of a stop.
Command(s) == srv.ops < GdbOps /\ srv' = [s EXCEPT !.ops = @ + 1]
NewConnection ==
    /\ srv.view = "none"
    /\ Command(SuspendVcpus([srv EXCEPT !.view = "attached", !.cur = 0, !.stopped = -1, !.first = TRUE, !.next = FALSE,
                                       !.early = @ \/ srv.active = {}]))
Query == srv.view = "attached" /\ ~srv.told /\ Command(GdbReportStop(srv, FALSE))
Receive == srv.told /\ srv' = [srv EXCEPT !.told = FALSE, !.view = "stopped"]
Stopped == srv.view = "stopped" /\ ~srv.told
Continue ==
    /\ Stopped
    /\ Command(ResumeVcpus([DiscardStop(srv) EXCEPT !.view = "running", !.early = @ \/ srv.first]))
Step(v) ==
    /\ Stopped /\ v \in srv.active
    /\ LET s == DiscardStop([srv EXCEPT !.cur = v])
       IN Command([s EXCEPT !.stepping = @ \cup {v}, !.dbg = @ \ {v}, !.suspended = @ \ {v}, !.view = "running",
                            !.early = @ \/ srv.first \/ srv.pc[v] = "w_add"])
CtrlC == srv.view = "running" /\ ~srv.told /\ Command(SuspendVcpus(srv))
\* Mutant: breakpoint exits only for the current vcpu.
SetBreakpoint_NoCaps == Stopped /\ ~srv.bp /\ Command([srv EXCEPT !.bp = TRUE, !.bptexit = {srv.cur}])
SetBreakpoint == Stopped /\ ~srv.bp /\ Command([srv EXCEPT !.bp = TRUE, !.bptexit = srv.active])
ClearBreakpoint == Stopped /\ srv.bp /\ Command([srv EXCEPT !.bp = FALSE, !.bptexit = {}])
CloseConnection ==
    /\ srv.view # "none"
    /\ Command(ResumeVcpus([srv EXCEPT !.view = "none", !.told = FALSE, !.bp = FALSE, !.bptexit = {},
                                       !.stepping = {}, !.stepped = {}, !.hit = {}]))

Debugger ==
    \/ NewConnection \/ Query \/ Receive \/ Continue \/ CtrlC \/ SetBreakpoint \/ ClearBreakpoint \/ CloseConnection
    \/ \E v \in Vcpus : Step(v)
GdbNext ==
       \/ Debugger
       \/ \E v \in Vcpus : CpuAdd(v) \/ CpuSuspend(v) \/ CpuMtrap(v) \/ CpuBreakpoint(v) \/ Wake(v)
       \/ \E v \in Vcpus, k \in Kinds \ {"add"} : Exit(v, k)

\* A debugger that waits for a stop is told when every vcpu has stopped; it is left
\* waiting only if it resumed the guest before the stop of its attach had completed.
StopReported ==
    (srv.view = "running" /\ srv.active # {} /\ srv.waiting = srv.active /\ srv.suspended = srv.active) => srv.told \/ srv.early
\* After a reported stop no vcpu executes guest code.
StoppedIsStill ==
    (srv.view = "stopped" /\ ~srv.first /\ ~srv.early) => \A v \in srv.active : v \in srv.suspended /\ srv.pc[v] # "guest"
\* Breakpoint exits are on for exactly the started vcpus while a breakpoint is set, so
\* no vcpu, not even one added while the guest is stopped, runs through it unseen.
CapsAgree == srv.bptexit = IF srv.bp THEN srv.active ELSE {}
\* No handler loops with the lock held.
NoSpin == ~srv.spin
\* The assertions on pending events and on unsent replies hold.
AssertsHold == srv.bad => srv.early

-----------------------------------------------------------------------------
(* The debug server's packets (gdb.c): the command and response buffers,       *)
(* acknowledgements, retransmission after a NACK, partial writes, and the      *)
(* transfers of the memory commands, page by page.                             *)

Tokens == {"+", "-", "cmd", "go", "bad", "part"}

\* `comm': what was read; `resp' and `start': the output buffer and its first unsent
\* byte; a reply packet is two bytes "r1" "r2"; `got': what reached the debugger;
\* `want' (ghost): what it should get; `mode': what the debugger is doing.
CommInit ==
        \/ conn = [comm |-> <<>>, resp |-> <<>>, start |-> 0, got |-> <<>>, want |-> <<>>, mode |-> "idle", cmds |-> 0, bad |-> FALSE]
        \/ \E gva \in 0..Page, len \in 0..MaxMem, pages \in [0..2 -> {"ram", "mmio", "none"}], write \in BOOLEAN :
               conn = [mode |-> "mem", gva |-> gva, resid |-> len, from |-> gva, len |-> len, pages |-> pages, write |-> write,
                       out |-> <<>>, reply |-> "none"]

ResponsePending == conn.resp # <<>> /\ conn.resp # <<"+">>
Reset(s) == [s EXCEPT !.resp = <<>>, !.start = 0]
Put(s, toks) == [s EXCEPT !.resp = @ \o toks, !.want = @ \o toks]
Consume(s) == [s EXCEPT !.comm = Tail(@)]

\* One turn of check_command().
Ack == Consume(IF ResponsePending THEN Reset(conn) ELSE conn)
Nack ==
    LET skip == IF conn.resp # <<>> /\ conn.resp[1] = "+" THEN 1 ELSE 0
    IN Consume(IF ~ResponsePending THEN conn
               ELSE [conn EXCEPT !.start = skip, !.want = @ \o SubSeq(conn.resp, skip + 1, Len(conn.resp))])
Packet(kind) ==
    LET s == IF ResponsePending THEN Reset(conn) ELSE conn
    IN CASE kind = "bad" -> Put(Consume(s), <<"-">>)
         [] kind = "go"  -> Put(Consume(s), <<"+">>)                    \* no reply until the stop
         [] kind = "cmd" -> Put(Consume(s), <<"+", "r1", "r2">>)
CheckCommand ==
    /\ conn.mode # "mem" /\ conn.comm # <<>> /\ conn.comm[1] # "part"
    /\ conn' = CASE conn.comm[1] = "+" -> Ack
                 [] conn.comm[1] = "-" -> Nack
                 [] OTHER -> Packet(conn.comm[1])
SendPendingData(n) ==
    /\ conn.mode # "mem" /\ n \in 1..(Len(conn.resp) - conn.start)
    /\ conn' = [conn EXCEPT !.start = @ + n, !.got = @ \o SubSeq(conn.resp, conn.start + 1, conn.start + n)]
\* A vcpu thread reports the stop that a running guest owes; it asserts that no
\* response is pending.
CommReportStop ==
    /\ conn.mode = "go" /\ conn.comm = <<>>
    /\ conn' = [Put(conn, <<"r1", "r2">>) EXCEPT !.bad = @ \/ ResponsePending, !.mode = "cmd"]

\* The debugger: one command at a time, resent after "-"; every reply is answered.
LastGot == IF conn.got = <<>> THEN "none" ELSE conn.got[Len(conn.got)]
Quiet == conn.mode # "mem" /\ conn.comm = <<>> /\ conn.got = conn.want
Send(kind) ==
    /\ Quiet /\ conn.mode = "idle" /\ conn.cmds < MaxCmds
    /\ conn' = [conn EXCEPT !.comm = <<kind>>, !.cmds = @ + 1, !.mode = IF kind = "part" THEN "part" ELSE kind]
\* The rest of a packet that arrived in two reads.
Rest == conn.mode = "part" /\ conn.comm = <<"part">> /\ conn' = [conn EXCEPT !.comm = <<"cmd">>, !.mode = "cmd"]
Answer(tok) ==
    /\ Quiet /\ conn.mode = "cmd" /\ LastGot = "r2" /\ (tok = "-" => conn.cmds < MaxCmds)
    /\ conn' = [conn EXCEPT !.comm = <<tok>>, !.mode = IF tok = "+" THEN "idle" ELSE "cmd", !.cmds = IF tok = "-" THEN @ + 1 ELSE @]
Resend == Quiet /\ conn.mode = "bad" /\ LastGot = "-" /\ conn' = [conn EXCEPT !.comm = <<"cmd">>, !.mode = "cmd"]

\* One access of a memory command: the rest of a page of RAM, or an aligned
\* device access, which three bytes left at an aligned address do not hold: the counts
\* wrap around and the loop runs on. A failure ends a read with what it has.
Access ==
    LET page == conn.gva \div Page
        todo == LET n == Page - (conn.gva % Page) IN IF n > conn.resid THEN conn.resid ELSE n
        wide == IF conn.gva % 2 = 1 \/ todo = 1 THEN 1 ELSE IF conn.gva % 4 = 2 \/ todo = 2 THEN 2 ELSE 4
        n    == IF conn.pages[page] = "ram" THEN todo ELSE wide
    IN /\ conn.mode = "mem" /\ conn.reply = "none" /\ conn.resid > 0
       /\ conn' = IF conn.pages[page] = "none" THEN [conn EXCEPT !.reply = IF conn.out = <<>> \/ conn.write THEN "error" ELSE "data"]
                  ELSE IF n > todo THEN [conn EXCEPT !.reply = "overrun"]
                  ELSE [conn EXCEPT !.gva = @ + n, !.resid = @ - n, !.out = Append(@, <<conn.gva, n>>)]
Done == conn.mode = "mem" /\ conn.reply = "none" /\ conn.resid = 0 /\ conn' = [conn EXCEPT !.reply = IF conn.write THEN "ok" ELSE "data"]

CommNext ==
        \/ CheckCommand \/ (\E n \in 1..3 : SendPendingData(n)) \/ CommReportStop
        \/ (\E k \in {"cmd", "go", "bad", "part"} : Send(k)) \/ Rest \/ (\E t \in {"+", "-"} : Answer(t)) \/ Resend
        \/ Access \/ Done

\* Whatever the partial writes, NACKs and resends, the debugger gets the replies whole
\* and in order, and a reply that is not on its way has arrived.
RepliesWhole ==
    conn.mode # "mem" =>
          /\ conn.got = SubSeq(conn.want, 1, Len(conn.got))
          /\ Len(conn.want) - Len(conn.got) = Len(conn.resp) - conn.start
          /\ ~conn.bad
\* The debugger never waits for an answer that will not come.
DebuggerNotStuck == (conn.mode = "cmd" /\ Quiet) => LastGot = "r2"
\* A memory command touches consecutive bytes, each once, no device access crosses its
\* alignment, and it ends complete or at the first page that is not mapped,
\* except for three device bytes left at an aligned address.
MemoryExact ==
    conn.mode = "mem" =>
          /\ \A i \in 1..Len(conn.out) : conn.out[i][1] = IF i = 1 THEN conn.from ELSE conn.out[i - 1][1] + conn.out[i - 1][2]
          /\ \A i \in 1..Len(conn.out) : LET a == conn.out[i]
                                         IN conn.pages[a[1] \div Page] = "ram" \/ a[1] % a[2] = 0
          /\ conn.gva + conn.resid = conn.from + conn.len
          /\ conn.reply # "none" => conn.resid = 0 \/ conn.pages[conn.gva \div Page] = "none" \/ conn.reply = "overrun"
          /\ conn.reply = "overrun" => conn.gva % 4 = 0 /\ conn.resid % 4 = 3 /\ conn.pages[conn.gva \div Page] = "mmio"
=============================================================================
