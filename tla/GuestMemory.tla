---------------------------- MODULE GuestMemory -----------------------------
(* Walking the guest's page tables (vm_gla2gpa() in vmm_instruction_emul.c)    *)
(* while another vcpu of the guest rewrites their entries. One linear address  *)
(* is translated, so a table is the entry this address selects in it. And the  *)
(* hardware task switches bhyve emulates through such accesses (task_switch.c).*)
EXTENDS Integers, Sequences, FiniteSetsExt

CONSTANTS Levels,    \* paging levels; entries of level `Levels - 1' are in the root
          MaxLarge,  \* highest level an entry may map a large page at
          Tables,    \* table pages besides the root 0
          GuestOps,  \* entry writes by the guest
          SpBits,    \* stack pointer bits for a 16-bit stack; twice that otherwise
          Page,      \* page size
          Limits,    \* segment limits
          MaxItems,  \* instructions emulated
          Tasks,     \* task state segments, numbered from 1
          Codes,     \* code descriptors of the tasks (see Desc)
          Stacks,    \* stack descriptors of the tasks
          Switches   \* switches the guest attempts
VARIABLES walk, acc, sc

Root == 0
Pages == {101, 102}
Entry == [v : BOOLEAN, rw : BOOLEAN, u : BOOLEAN, ps : BOOLEAN, to : Tables \cup Pages]
Clean == [a |-> FALSE, d |-> FALSE]
NoFault == [p |-> FALSE, rsvd |-> FALSE]

WalkTypeOK ==
    /\ walk.mem \in [Tables \cup {Root} -> Entry] /\ walk.flags \in [Tables \cup {Root} -> [a : BOOLEAN, d : BOOLEAN]]
    /\ walk.at \in {"idle", "read", "accessed", "next", "dirty", "ok", "fault", "error"}
    /\ walk.level \in 0..(Levels - 1) /\ walk.ptp \in Tables \cup {Root} \cup Pages /\ walk.pte \in Entry

Full(to) == [v |-> TRUE, rw |-> TRUE, u |-> TRUE, ps |-> FALSE, to |-> to]
\* `req': what is asked for, by whom, and whether a fault may be injected.
WalkInit ==
        \E req \in [write : BOOLEAN, user : BOOLEAN, check : BOOLEAN], large \in Tables \cup {Root} :
            LET mem == [t \in Tables \cup {Root} |->
                           [Full(IF t = Root THEN Levels - 1 ELSE IF t > 1 THEN t - 1 ELSE 101) EXCEPT !.ps = (t = large) /\ t # Root]]
            IN walk = [mem |-> mem, guest |-> mem, flags |-> [t \in Tables \cup {Root} |-> Clean], at |-> "idle", req |-> req, level |-> Levels - 1,
                       ptp |-> Root, pte |-> mem[Root], seen |-> Clean, raced |-> FALSE, code |-> NoFault, ops |-> 0]

----------------------------------------------------------------------------
\* Another vcpu: the guest rewrites an entry, clearing what the MMU noted in it.
GuestWrite(t, e) ==
    /\ walk.ops < GuestOps /\ e # walk.mem[t]
    /\ walk' = [walk EXCEPT !.mem[t] = e, !.guest[t] = e, !.flags[t] = Clean, !.raced = walk.at # "idle", !.ops = @ + 1]
Changes(e) == {[e EXCEPT !.v = ~@], [e EXCEPT !.rw = ~@], [e EXCEPT !.u = ~@], [e EXCEPT !.ps = ~@], [e EXCEPT !.to = 102]}

\* restart: from the root again.
Restart(s) == [s EXCEPT !.at = "read", !.level = Levels - 1, !.ptp = Root]
Start == walk.at = "idle" /\ walk' = Restart(walk)

\* ptp_hold(), the entry and the three tests on it; a page the tables do not
\* cover cannot be held (EFAULT).
Read ==
    /\ walk.at = "read"
    /\ IF walk.ptp \in Pages THEN walk' = [walk EXCEPT !.at = "error"]
       ELSE LET e == walk.mem[walk.ptp]
                denied == ~e.v \/ (walk.req.user /\ ~e.u) \/ (walk.req.write /\ ~e.rw)
            IN walk' = [walk EXCEPT !.pte = e, !.seen = walk.flags[walk.ptp], !.at = IF denied THEN "fault" ELSE "accessed",
                                    !.code = IF denied THEN [p |-> e.v, rsvd |-> FALSE] ELSE @]

\* atomic_cmpset(): the flag is set if the entry is still the one that was read.
Unchanged == walk.mem[walk.ptp] = walk.pte /\ walk.flags[walk.ptp] = walk.seen
SetAccessed ==
    /\ walk.at = "accessed"
    /\ walk' = IF walk.req.check \/ walk.seen.a THEN [walk EXCEPT !.at = "next"]
               ELSE IF Unchanged THEN [walk EXCEPT !.flags[walk.ptp].a = TRUE, !.at = "next"]
               ELSE Restart(walk)
NextLevel ==
    /\ walk.at = "next"
    /\ walk' = IF walk.level > MaxLarge /\ walk.pte.ps THEN [walk EXCEPT !.at = "fault", !.code = [p |-> TRUE, rsvd |-> TRUE]]
               ELSE IF walk.level = 0 \/ walk.pte.ps THEN [walk EXCEPT !.at = "dirty"]
               ELSE [walk EXCEPT !.at = "read", !.level = @ - 1, !.ptp = walk.pte.to]
\* The local copy of the entry is still the one read before the accessed flag was
\* set, so the first comparison for the dirty flag fails and the walk restarts.
SetDirty ==
    /\ walk.at = "dirty"
    /\ walk' = IF walk.req.check \/ ~walk.req.write \/ walk.seen.d THEN [walk EXCEPT !.at = "ok"]
               ELSE IF Unchanged THEN [walk EXCEPT !.flags[walk.ptp].d = TRUE, !.at = "ok"]
               ELSE Restart(walk)

Walker == Start \/ Read \/ SetAccessed \/ NextLevel \/ SetDirty
WalkNext == Walker \/ \E t \in Tables \cup {Root} : \E e \in Changes(walk.mem[t]) : GuestWrite(t, e)

----------------------------------------------------------------------------
\* Marking an entry never undoes what the guest wrote in it meanwhile, and a
\* check that must not disturb the guest marks nothing.
GuestWritesKept == walk.mem = walk.guest /\ (walk.req.check => \A t \in Tables \cup {Root} : walk.flags[t] = Clean)

\* The tables the address passes through, as they are.
Path(from, n) ==
    LET path[t \in Tables \cup {Root} \cup Pages, k \in 0..(Levels - 1)] ==
            IF t \in Pages THEN {} ELSE {t} \cup (IF k = 0 \/ walk.mem[t].ps THEN {} ELSE path[walk.mem[t].to, k - 1])
    IN path[from, n]
\* A walk nobody interfered with allows what the tables allow at every level, and
\* leaves every entry it used accessed and the last one dirty after a write.
WalkExact ==
    (walk.at = "ok" /\ ~walk.raced) =>
          /\ \A t \in Path(Root, Levels - 1) : /\ walk.mem[t].v /\ (walk.req.user => walk.mem[t].u) /\ (walk.req.write => walk.mem[t].rw)
                                               /\ walk.req.check \/ walk.flags[t].a
                                               /\ walk.flags[t].d <=> (t = walk.ptp /\ walk.req.write /\ ~walk.req.check)
          /\ walk.pte = walk.mem[walk.ptp]
\* The dirty flag is only ever seen on an entry that allows the write. (It may be
\* seen without the accessed flag: the entry compared with is the one read before
\* that flag was set, which a guest that clears the flag again brings back.)
DirtyIsWritable == \A t \in Tables \cup {Root} : walk.flags[t].d => walk.mem[t].v /\ walk.mem[t].rw
\* The error code tells a missing page from a forbidden access.
FaultExplained == (walk.at = "fault" /\ ~walk.raced) => (walk.code.p <=> walk.mem[walk.ptp].v)

-----------------------------------------------------------------------------
(* Emulated PUSH and POP of a memory-mapped register: the linear address from  *)
(* the stack segment (vie_calculate_gla()), its checks, the pages it lies in   *)
(* (vm_copy_setup() in vmm.c), and emulate_stack_op() in                       *)
(* vmm_instruction_emul.c. Addresses are bytes of a small linear space.        *)

Wide == 2 ^ (2 * SpBits)
Mask(seg) == IF seg.def32 THEN Wide ELSE 2 ^ SpBits
Lin == 0..(Wide - 1)
Sizes == {1, 2}
Segs == [def32 : BOOLEAN, down : BOOLEAN, write : BOOLEAN, base : {0, 3}, limit : Limits]

AccInit ==
       \E seg \in Segs, rsp \in Lin, pages \in SUBSET {0, 1} :
           acc = [seg |-> seg, rsp |-> rsp, rsp0 |-> rsp, mem |-> [a \in Lin |-> 0], present |-> {a \in Lin : (a \div Page) % 2 \in pages},
                  stack |-> <<>>, last |-> "none", touched |-> {}, wrapped |-> FALSE, n |-> 0]

\* vie_calculate_gla(): every byte of the operand is compared with the limits.
Low(seg) == IF seg.down THEN seg.limit + 1 ELSE 0
High(seg) == IF seg.down THEN Mask(seg) - 1 ELSE seg.limit
Permitted(seg, write) == write => seg.write
InLimits(seg, off, len) == \A i \in 0..(len - 1) : Low(seg) <= (off + i) % Mask(seg) /\ (off + i) % Mask(seg) <= High(seg)
Gla(seg, off) == (seg.base + (off % Mask(seg))) % Wide

\* vm_copy_setup(): all the pages are translated and held before a byte is copied.
Bytes(gla, len) == {(gla + i) % Wide : i \in 0..(len - 1)}
CopySetup(gla, len) == Bytes(gla, len) \subseteq acc.present
Stored(mem, gla, v, len) == [a \in Lin |-> IF a \in Bytes(gla, len) THEN v ELSE mem[a]]

\* vie_update_register() of the stack pointer: a 16-bit stack keeps the upper half.
UpdateRsp(old, new, seg) == IF seg.def32 THEN new % Wide ELSE (old \div Mask(seg)) * Mask(seg) + (new % Mask(seg))

\* What emulate_stack_op() returns before it copies: "ss" and "ac" are injected,
\* "pf" comes from the page walk.
Check(off, len, write, align) ==
    IF ~Permitted(acc.seg, write) \/ ~InLimits(acc.seg, off, len) THEN "ss"
    ELSE IF align /\ Gla(acc.seg, off) % len # 0 THEN "ac"
    ELSE IF ~CopySetup(Gla(acc.seg, off), len) THEN "pf"
    ELSE "ok"
Noted(s, off, len, r) ==
    [s EXCEPT !.last = r, !.n = @ + 1, !.touched = IF r = "ok" THEN @ \cup Bytes(Gla(s.seg, off), len) ELSE @,
              !.wrapped = @ \/ (off % Mask(s.seg)) + len > Mask(s.seg) \/ Gla(s.seg, off) + len > Wide]
Push(v, len, align) ==
    /\ acc.n < MaxItems
    /\ LET off == (acc.rsp + Wide - len) % Wide
           r   == Check(off, len, TRUE, align)
           s   == Noted(acc, off, len, r)
       IN acc' = IF r # "ok" THEN s
                 ELSE [s EXCEPT !.mem = Stored(@, Gla(acc.seg, off), v, len), !.rsp = UpdateRsp(@, off, acc.seg), !.stack = Append(@, <<v, len>>)]
\* The value goes to the device; `got' is what it receives.
Pop(len, align) ==
    /\ acc.n < MaxItems /\ acc.stack # <<>> /\ acc.stack[Len(acc.stack)][2] = len
    /\ LET r == Check(acc.rsp, len, FALSE, align)
           s == Noted(acc, acc.rsp, len, r)
           got == acc.mem[Gla(acc.seg, acc.rsp)]
       IN acc' = IF r # "ok" THEN s
                 ELSE [s EXCEPT !.rsp = UpdateRsp(@, acc.rsp + len, acc.seg), !.stack = SubSeq(@, 1, Len(@) - 1),
                                !.last = IF got = acc.stack[Len(acc.stack)][1] THEN "ok" ELSE "wrong"]
AccNext == \E len \in Sizes, align \in BOOLEAN : (\E v \in 1..2 : Push(v, len, align)) \/ Pop(len, align)

----------------------------------------------------------------------------
\* What is popped is what was pushed, and the stack pointer comes back with it,
\* whatever faults in between.
Depth == LET sum[i \in 0..Len(acc.stack)] == IF i = 0 THEN 0 ELSE sum[i - 1] + acc.stack[i][2] IN sum[Len(acc.stack)]
Lifo ==
    ~acc.wrapped => /\ acc.last # "wrong"
                    /\ UpdateRsp(acc.rsp, acc.rsp + Depth, acc.seg) = acc.rsp0
\* No byte outside the segment or on a missing page is touched, unless the operand
\* wraps around at the size of the stack pointer: the bytes are then checked at
\* their wrapped offsets but copied to the addresses that follow.
InsideSegment ==
    ~acc.wrapped => \A a \in acc.touched : /\ a \in acc.present
                                           /\ \E off \in 0..(Mask(acc.seg) - 1) : Gla(acc.seg, off) = a /\ InLimits(acc.seg, off, 1)

----------------------------------------------------------------------------
(* Task switches: task descriptors with their busy bits, nested tasks, the TSS*)

\* A descriptor as its selector and its table entry give it; `rpl' is the selector's.
Desc == [type : {"null", "code", "conforming", "data", "stack"}, p : BOOLEAN, dpl : {0, 3}, rpl : {0, 3}]
Reasons == {"call", "jmp", "iret", "gate"}
First == Min(Tasks)

\* The faults an access to guest memory may end in, by the place it happens.
Places == {"none", "read", "clearbusy", "setbusy", "ldt", "cs", "ss", "ds", "errcode"}

TypeOK ==
    /\ sc.tr \in Tasks /\ sc.busy \subseteq Tasks /\ sc.link \in [Tasks -> Tasks \cup {0}]
    /\ sc.tss \in [Tasks -> [regs : Nat, nt : BOOLEAN]] /\ sc.regs \in Nat /\ sc.nt \in BOOLEAN
    /\ sc.cs \in Desc /\ sc.ss \in Desc /\ {sc.pending, sc.mixed} \subseteq BOOLEAN /\ sc.out \in {"run", "abort"}

Init ==
    \E cs \in [Tasks -> Codes], ss \in [Tasks -> Stacks] :
        /\ cs[First].type = "code" /\ cs[First].dpl = cs[First].rpl /\ ss[First].dpl = cs[First].rpl
        /\ ss[First].rpl = ss[First].dpl /\ ss[First].type = "stack" /\ cs[First].p /\ ss[First].p
        /\ sc = [tr |-> First, busy |-> {First}, link |-> [t \in Tasks |-> 0],
                 tss |-> [t \in Tasks |-> [regs |-> 10 * t, nt |-> FALSE]], regs |-> 10 * First, nt |-> FALSE, codes |-> cs, stacks |-> ss,
                 cs |-> cs[First], ss |-> ss[First], pending |-> FALSE, out |-> "run", left |-> [t \in Tasks |-> 10 * t],
                 torn |-> FALSE, mixed |-> FALSE, nested |-> {}, n |-> 0]

----------------------------------------------------------------------------
\* validate_seg_desc() for the code, the stack and a data segment.
ValidateCs(d) ==
    IF d.type = "null" \/ d.type \notin {"code", "conforming"} THEN "TS"
    ELSE IF ~d.p THEN "NP"
    ELSE IF (d.type = "conforming" /\ d.rpl < d.dpl) \/ (d.type = "code" /\ d.rpl # d.dpl) THEN "TS"
    ELSE "ok"
ValidateSs(d, cpl) ==
    IF d.type # "stack" THEN "TS" ELSE IF ~d.p THEN "SS" ELSE IF d.rpl # cpl \/ d.dpl # cpl THEN "TS" ELSE "ok"
\* The data segments of a task share its stack's descriptor here.
ValidateDs(d, cpl) ==
    IF d.type = "null" THEN "ok" ELSE IF d.type = "code" THEN "TS" ELSE IF ~d.p THEN "NP"
    ELSE IF d.type # "conforming" /\ (d.rpl > d.dpl \/ cpl > d.dpl) THEN "TS" ELSE "ok"

\* What tss32_restore() does once the registers and selectors are loaded: LDTR, then
\* the descriptors of CS and SS, both validated before either is updated, then the
\* data segments. A segment exception comes back as 1, which CHKERR() asserts it
\* never sees.
LoadSegments(s, t, bad) ==
    LET cs == s.codes[t]
        ss == s.stacks[t]
        loaded == [s EXCEPT !.cs = cs, !.ss = ss, !.mixed = FALSE]
    IN IF bad \in {"ldt", "cs"} THEN [s EXCEPT !.torn = TRUE]
       ELSE IF ValidateCs(cs) # "ok" THEN [s EXCEPT !.out = "abort"]
       ELSE IF bad = "ss" THEN [s EXCEPT !.torn = TRUE]
       ELSE IF ValidateSs(ss, cs.rpl) # "ok" THEN [s EXCEPT !.out = "abort"]
       ELSE IF bad = "ds" THEN [loaded EXCEPT !.torn = TRUE]
       ELSE IF ValidateDs(ss, cs.rpl) # "ok" THEN [loaded EXCEPT !.out = "abort"]
       ELSE loaded
\* push_errcode() and the end of the switch: the event that came through the gate
\* is taken out of the vcpu's exitintinfo.
Finish(s, reason, bad) ==
    IF s.out = "abort" \/ s.torn THEN s
    ELSE IF reason = "gate" /\ bad = "errcode" THEN [s EXCEPT !.torn = TRUE]
    ELSE [s EXCEPT !.pending = @ /\ reason # "gate"]

\* tss32_save(): the interrupted task's registers; IRET clears NT in what is saved.
Save(s, reason) ==
    [s EXCEPT !.tss[s.tr] = [regs |-> s.regs, nt |-> s.nt /\ reason # "iret"], !.left[s.tr] = s.regs]
\* tss32_restore(), the registers: a call or a gate links the new task to the old.
\* The selectors of CS and SS are the new task's from here on, their descriptors
\* still the old task's (`mixed').
Restore(s, t, reason) ==
    LET nest == reason \in {"call", "gate"}
    IN [s EXCEPT !.tr = t, !.regs = s.tss[t].regs, !.nt = s.tss[t].nt \/ nest, !.link[t] = IF nest THEN s.tr ELSE @,
                 !.cs.rpl = s.codes[t].rpl, !.ss.rpl = s.stacks[t].rpl, !.mixed = TRUE,
                 !.nested = CASE nest -> @ \cup {s.tr} [] reason = "iret" -> @ \ {t} [] OTHER -> @]

\* The old task's descriptor: an IRET or a JMP leaves it for good.
Freed(s, reason) == IF reason \in {"iret", "jmp"} THEN [s EXCEPT !.busy = @ \ {s.tr}] ELSE s

\* vmexit_task_switch(): `t' comes with the exit, `bad' is where an access faults.
Switch(t, reason, bad) ==
    /\ sc.out = "run" /\ sc.n < Switches /\ sc.pending = (reason = "gate")
    /\ reason = "iret" => sc.nt /\ t = sc.link[sc.tr]
    /\ LET s == [sc EXCEPT !.n = @ + 1]
           saved == Save(Freed(s, reason), reason)
           taken == IF reason = "iret" THEN saved ELSE [saved EXCEPT !.busy = @ \cup {t}]
           begun == Restore(taken, t, reason)
       IN sc' = IF (t \in s.busy) # (reason = "iret") THEN s
                ELSE IF bad = "read" \/ (bad = "clearbusy" /\ reason \in {"iret", "jmp"}) THEN s
                ELSE IF bad = "setbusy" /\ reason # "iret" THEN [saved EXCEPT !.torn = TRUE]
                ELSE Finish(LoadSegments(begun, t, bad), reason, bad)

\* The guest computes, and an event is delivered through a task gate.
Run   == sc.out = "run" /\ sc.regs % 10 = 0 /\ sc' = [sc EXCEPT !.regs = @ + 1]
Event == sc.out = "run" /\ ~sc.pending /\ sc.n < Switches /\ sc' = [sc EXCEPT !.pending = TRUE]
Next ==
    \/ Run \/ Event
    \/ \E t \in Tasks, reason \in Reasons, bad \in Places : Switch(t, reason, bad)

----------------------------------------------------------------------------
\* A task is marked busy exactly when it runs or waits for a nested task, so a
\* task is never entered twice and a return always finds its task.
BusyIsInUse == ~sc.torn => sc.busy = {sc.tr} \cup sc.nested
\* A task goes on with the registers it was left with.
StateKept == \A t \in Tasks \ {sc.tr} : sc.tss[t].regs = sc.left[t]
\* The code and stack segments the guest runs with fit each other, as VM entry
\* demands: their descriptors always, also when the switch to a task was given up
\* half way, and with them the selectors unless it was given up before the
\* descriptors were loaded (SelectorsFit).
Conforms(cs, dpl) == IF cs.type = "conforming" THEN cs.dpl <= dpl ELSE cs.type = "code" /\ cs.dpl = dpl
EntryCheck ==
    sc.out = "run" => /\ Conforms(sc.cs, sc.ss.dpl) /\ sc.ss.type = "stack"
                      /\ ~sc.mixed => sc.cs.rpl = sc.ss.dpl /\ sc.ss.rpl = sc.ss.dpl
\* "This ensures that the VMCS state can pass the VM-entry checks so the guest can
\* handle any exception injected during task switch emulation" (tss32_restore):
\* the privilege levels of the selectors are those of the stack's descriptor, which
\* processors without unrestricted guest demand. A fault while the descriptors are
\* read leaves new selectors on old descriptors.
SelectorsFit == sc.out = "run" => sc.cs.rpl = sc.ss.rpl /\ sc.ss.rpl = sc.ss.dpl
\* While it returns from nested tasks, the guest finds the one it interrupted.
ReturnsFindTask == (~sc.torn /\ sc.out = "run" /\ sc.nt) => sc.link[sc.tr] \in sc.nested
=============================================================================
