------------------------------ MODULE Dispatch ------------------------------
(* Base address registers of PCI devices (pci_emul.c) and the dispatch of     *)
(* guest accesses to what they decode (mem.c, inout.c). Memory ranges are     *)
(* kept in a tree under a read-write lock, with a hint per vcpu; a handler    *)
(* runs with the lock held for reading, except that of an immutable range,    *)
(* the extended configuration window, whose handler changes registrations.    *)
EXTENDS FiniteSets, Integers, Sequences

CONSTANTS Bars,      \* base address registers
          Type,      \* bar -> "io", "mem32" or "mem64"
          Start,     \* bar -> address allocated at start-up
          Half,      \* size of each half of an address: addresses are hi * Half + lo
          Ecfg,      \* address of the extended configuration window
          Vcpus,
          CfgOps,    \* bound: configuration writes
          Limit,     \* back-to-back emulations in one exit, 16 in the code
          MaxCount,  \* bound: largest repeat count
          W          \* values of the index register
VARIABLES bus, str

Addrs == 0..(Half * Half - 1)
None  == "none"
Mem   == {b \in Bars : Type[b] # "io"}
Hi(a) == a \div Half
Lo(a) == a % Half

\* `tree': bar -> registered address; `ports': the same for I/O ports. `hint':
\* the entry a vcpu found last. `at': what a vcpu is doing, `in' the entry whose
\* handler it runs, `gpa' the address accessed. `job': steps a configuration write
\* has left.
Vcpu == [at : {"run", "handler", "ecfg"}, in : Bars \cup {None, "ecfg"}, gpa : Addrs, hint : Bars \cup {None, "ecfg"}]
BarsTypeOK ==
    /\ bus.addr \in [Bars -> Addrs] /\ DOMAIN bus.tree \subseteq Mem /\ DOMAIN bus.ports \subseteq Bars \ Mem
    /\ bus.vcpu \in [Vcpus -> Vcpu] /\ bus.memen \in BOOLEAN /\ bus.porten \in BOOLEAN

Without(f, b) == [x \in DOMAIN f \ {b} |-> f[x]]
With(f, b, a) == [x \in DOMAIN f \cup {b} |-> IF x = b THEN a ELSE f[x]]

\* pci_emul_alloc_pbar() registers every register it allocates and enables decoding.
BarsInit ==
        bus = [addr |-> Start, tree |-> [b \in Mem |-> Start[b]], ports |-> [b \in Bars \ Mem |-> Start[b]],
               memen |-> TRUE, porten |-> TRUE, job |-> <<>>,
               vcpu |-> [v \in Vcpus |-> [at |-> "run", in |-> None, gpa |-> 0, hint |-> None]], ops |-> 0]

----------------------------------------------------------------------------
(* access_memory()                                                          *)

Readers == {v \in Vcpus : bus.vcpu[v].at = "handler"}   \* mmio_rwlock held for reading

\* The lookup: the hint first, then the tree; None is the fallback, which
\* answers for what nobody decodes.
At(a) == IF a = Ecfg THEN "ecfg" ELSE IF \E b \in DOMAIN bus.tree : bus.tree[b] = a
         THEN CHOOSE b \in DOMAIN bus.tree : bus.tree[b] = a ELSE None
Cached(v, a) == LET h == bus.vcpu[v].hint
                IN IF h = "ecfg" THEN a = Ecfg ELSE h # None /\ h \in DOMAIN bus.tree /\ bus.tree[h] = a
Access(v, a) ==
    /\ bus.vcpu[v].at = "run"
    /\ LET e == IF Cached(v, a) THEN bus.vcpu[v].hint ELSE At(a)
       IN bus' = [bus EXCEPT !.vcpu[v] = [at |-> IF e \in Mem THEN "handler" ELSE IF e = "ecfg" THEN "ecfg" ELSE "run",
                                          in |-> e, gpa |-> IF e = None THEN 0 ELSE a, hint |-> IF e = None THEN @.hint ELSE e]]
AccessEnds(v) ==
    /\ bus.vcpu[v].at = "handler" \/ (bus.vcpu[v].at = "ecfg" /\ bus.job = <<>>)
    /\ bus' = [bus EXCEPT !.vcpu[v].at = "run", !.vcpu[v].in = None, !.vcpu[v].gpa = 0]

----------------------------------------------------------------------------
(* Registration                                                             *)

\* unregister_mem(): waits for the handlers, and flushes the hints.
UnregisterMem(s, b) ==
    [s EXCEPT !.tree = Without(@, b),
              !.vcpu = [v \in Vcpus |-> IF @[v].hint = b THEN [@[v] EXCEPT !.hint = None] ELSE @[v]]]
\* register_mem(), register_inout(): the guest keeps what it decodes disjoint.
Register(s, b) == IF b \in Mem THEN [s EXCEPT !.tree = With(@, b, s.addr[b])]
                  ELSE [s EXCEPT !.ports = With(@, b, s.addr[b])]
Unregister(s, b) == IF b \in Mem THEN UnregisterMem(s, b) ELSE [s EXCEPT !.ports = Without(@, b)]

\* A step of a configuration write; those that change the tree wait for the lock.
Step ==
    /\ bus.job # <<>>
    /\ LET b == bus.job.bar
           locked == b \in Mem /\ bus.job.do \in {"unregister", "register"}
       IN /\ locked => Readers = {}
          /\ bus' = CASE bus.job.do = "unregister" ->
                              [Unregister(bus, b) EXCEPT !.job.do = IF bus.job.move THEN "address" ELSE "end"]
                      [] bus.job.do = "address"    -> [bus EXCEPT !.addr[b] = bus.job.to,
                                                                 !.job.do = IF bus.job.decode THEN "register" ELSE "end"]
                      [] bus.job.do = "register"   -> [Register(bus, b) EXCEPT !.job.do = "end"]
                      [] OTHER                    ->
                             IF bus.job.rest = {} THEN [bus EXCEPT !.job = <<>>]
                             ELSE LET n == CHOOSE n \in bus.job.rest : TRUE
                                  IN [bus EXCEPT !.job.bar = n, !.job.rest = @ \ {n}, !.job.do = bus.job.first]

Writer == bus.job = <<>> /\ bus.ops < CfgOps
\* Configuration space is reached through ports, or through the window in
\* whose handler some vcpu is.
Free(a, b) == a # Ecfg /\ \A c \in Bars \ {b} : (c \in Mem <=> b \in Mem) => bus.addr[c] # a

\* pci_cfgrw() of a base address register with update_bar_address(): one half of
\* a 64-bit address is written at a time.
NewAddr(b, half, val) ==
    IF Type[b] # "mem64" THEN half * Half + val
    ELSE IF half = 0 THEN Hi(bus.addr[b]) * Half + val
    ELSE val * Half + Lo(bus.addr[b])
UpdateBarAddress(b, to) ==
    LET decode == IF b \in Mem THEN bus.memen ELSE bus.porten
    IN bus' = [bus EXCEPT !.ops = @ + 1,
                          !.job = [bar |-> b, to |-> to, decode |-> decode, move |-> TRUE, rest |-> {}, first |-> "end",
                                   do |-> IF decode THEN "unregister" ELSE "address"]]
BarWrite(b, half, val) ==
    LET to == NewAddr(b, half, val)
    IN Writer /\ to # bus.addr[b] /\ Free(to, b) /\ UpdateBarAddress(b, to)

\* pci_emul_cmd_changed(): decoding of one address space is switched.
CmdChanged(space) ==
    LET bars == IF space = "mem" THEN Mem ELSE Bars \ Mem
        on == IF space = "mem" THEN ~bus.memen ELSE ~bus.porten
        b == CHOOSE b \in bars : TRUE
        do == IF on THEN "register" ELSE "unregister"
    IN /\ Writer /\ bars # {}
       /\ bus' = [bus EXCEPT !.ops = @ + 1, !.memen = IF space = "mem" THEN on ELSE @,
                             !.porten = IF space = "mem" THEN @ ELSE on,
                             !.job = [bar |-> b, to |-> 0, decode |-> on, move |-> FALSE, rest |-> bars \ {b},
                                      first |-> do, do |-> do]]

Guest == \E v \in Vcpus : AccessEnds(v) \/ \E a \in Addrs : Access(v, a)
Config ==
    \/ Step
    \/ \E b \in Bars, half, val \in 0..(Half - 1) : BarWrite(b, half, val)
    \/ \E space \in {"mem", "io"} : CmdChanged(space)
BarsNext == Guest \/ Config

----------------------------------------------------------------------------
(* Properties                                                               *)

\* The assertions of pci_emul_mem_handler(): while a handler runs, the register
\* it was found through still decodes the accessed address and its range is
\* still registered, whatever another vcpu writes to the configuration space.
HandlerInBar ==
    \A v \in Readers : LET e == bus.vcpu[v].in
                       IN e \in DOMAIN bus.tree /\ bus.tree[e] = bus.vcpu[v].gpa /\ bus.addr[e] = bus.vcpu[v].gpa

\* No vcpu keeps a hint of a freed range.
HintsValid == \A v \in Vcpus : bus.vcpu[v].hint \in DOMAIN bus.tree \cup {None, "ecfg"}

\* Between configuration writes exactly the registers whose space is decoded are
\* registered, at their current address.
DecodedIsRegistered ==
    bus.job = <<>> =>
         /\ DOMAIN bus.tree = IF bus.memen THEN Mem ELSE {}
         /\ DOMAIN bus.ports = IF bus.porten THEN Bars \ Mem ELSE {}
         /\ \A b \in DOMAIN bus.tree : bus.tree[b] = bus.addr[b]
         /\ \A b \in DOMAIN bus.ports : bus.ports[b] = bus.addr[b]

-----------------------------------------------------------------------------
(* String I/O instructions, emulate_inout() of inout.c: an exit transfers at  *)
(* most Limit elements and leaves the registers so that the instruction goes  *)
(* on where it stopped, also when an element's page is not present.           *)

Idx == 0..(W - 1)
Move(i, down, n) == (i + (IF down THEN W - n ELSE n)) % W
Low(a, b) == IF a <= b THEN a ELSE b

\* `absent': indexes whose page faults once more; `port': elements the handler of
\* the port has seen, in order; `n', `first': count and index at the start;
\* `retired': the instruction pointer moved on.
InoutTypeOK ==
    /\ str.count \in 0..MaxCount /\ str.index \in Idx /\ str.absent \subseteq Idx
    /\ {str.rep, str.down, str.retired, str.aborted} \subseteq BOOLEAN

InoutInit ==
         \E rep, down \in BOOLEAN, n \in 0..MaxCount, i \in Idx, absent \in SUBSET Idx :
             /\ ~rep => n = 1
             /\ str = [count |-> n, index |-> i, rep |-> rep, down |-> down, absent |-> absent, port |-> <<>>,
                       n |-> n, first |-> i, retired |-> FALSE, aborted |-> FALSE]

\* The loop: as many elements as are present, up to the limit; `fails' is the
\* number of elements after which the handler returns an error.
Present(k) == Move(str.index, str.down, k) \notin str.absent
Transferred(fails) ==
    LET most == Low(Low(str.count, Limit), fails)
    IN CHOOSE k \in 0..most : (\A j \in 0..(k - 1) : Present(j)) /\ (k = most \/ ~Present(k))
Seen(k) == [j \in 1..k |-> Move(str.index, str.down, j - 1)]

\* The registers are updated whatever ended the loop; the instruction is
\* restarted when elements are left.
EmulateInout(fails) ==
    LET k == Transferred(fails)
        more == k < Low(str.count, Limit)   \* stopped by an absent page or by the handler
        s == [str EXCEPT !.index = Move(@, str.down, k), !.count = @ - k, !.port = @ \o Seen(k),
                         !.absent = IF more THEN @ \ {Move(str.index, str.down, k)} ELSE @]
    IN /\ ~str.retired /\ ~str.aborted
       /\ str' = IF more /\ Present(k) THEN [s EXCEPT !.aborted = TRUE]
                 ELSE [s EXCEPT !.retired = (s.count = 0)]
InoutNext == \E fails \in 0..Limit : EmulateInout(fails)

\* Every element is transferred exactly once and in order, however the repeats
\* are cut by the limit and by page faults; the instruction is left only when
\* all of them were, and its registers then are what the instruction promises.
EachOnce ==
    /\ str.port = [j \in 1..Len(str.port) |-> Move(str.first, str.down, j - 1)]
    /\ Len(str.port) + str.count = str.n
    /\ str.index = Move(str.first, str.down, Len(str.port))
    /\ str.retired => Len(str.port) = str.n
=============================================================================
