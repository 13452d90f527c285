------------------------------- MODULE PciIntx -------------------------------
(* INTx interrupts of emulated PCI devices: the pins and lines given to them  *)
(* at start-up, the state of a device's line (pci_lintr_*() of pci_emul.c),   *)
(* the interrupt router shared by the devices (pci_irq.c), MSI and MSI-X,     *)
(* whose enable bits take a line away and give it back, and the pins of the   *)
(* two interrupt controllers in the kernel, which count assertions.           *)
EXTENDS Integers, FiniteSets, Sequences

CONSTANTS Order,      \* the devices, in the order of their initialisation
          Slot,       \* device -> slot
          IntPins,    \* INTx pins of a slot, 0..3 in the code
          Pirqs,      \* pins of the router, 1..8 in the code
          Irqs,       \* ISA interrupts, in order of preference
          Permitted,  \* those the router may use
          Reserved,   \* those an LPC device reserved or uses
          Ioapics,    \* number of I/O APIC pins for PCI devices
          IntxOps     \* bound: guest writes and device changes
VARIABLE sc

Devs   == {Order[i] : i \in DOMAIN Order}
Dis    == -1     \* PIRQ_DIS
Reasons == {"msi", "msix", "intxdis"}

\* `want': the level the device last asked for; `off': what forbids INTx;
\* `cfg': a device whose configuration write has not reached pci_lintr_update().
TypeOK ==
    /\ sc.state \in [Devs -> {"IDLE", "PENDING", "ASSERTED"}] /\ sc.off \in [Devs -> SUBSET Reasons]
    /\ sc.reg \in [Pirqs -> Irqs \cup {Dis}] /\ sc.active \in [Pirqs -> 0..Cardinality(Devs)]
    /\ sc.pic \in [Irqs -> Int] /\ sc.ioapic \in [0..(Ioapics - 1) -> Int] /\ sc.cfg \subseteq Devs

----------------------------------------------------------------------------
(* Start-up: pins are requested by each device, then routed                 *)

Least(S, count) == CHOOSE x \in S : \A y \in S : count[x] < count[y] \/ (count[x] = count[y] /\ x <= y)

\* pci_lintr_request(): the least used pin of the device's slot.
LintrRequest(r, d) ==
    LET best == Least(IntPins, r.uses[Slot[d]])
    IN [pin |-> [x \in DOMAIN r.pin \cup {d} |-> IF x = d THEN best ELSE r.pin[x]],
        uses |-> [r.uses EXCEPT ![Slot[d]][best] = @ + 1]]
NoPins == [pin |-> [d \in {} |-> 0], uses |-> [s \in {Slot[d] : d \in Devs} |-> [p \in IntPins |-> 0]]]
Requested ==
    LET after[n \in 0..Len(Order)] == IF n = 0 THEN NoPins ELSE LintrRequest(after[n - 1], Order[n])
    IN after[Len(Order)].pin

\* pirq_alloc_pin(): the least used router pin, routed to the least used
\* interrupt the first time; `rom' selects the fixed mapping of a boot ROM.
Allocated(r, key, rom) ==
    LET p == IF rom THEN 1 + ((5 + key[1] + key[2]) % Cardinality(Pirqs)) ELSE Least(Pirqs, r.use)
        free == {i \in Irqs : i \in Permitted /\ i \notin Reserved}
        q == Least(free, r.irqs)
        a == [r EXCEPT !.use[p] = @ + 1, !.pirq = [x \in DOMAIN @ \cup {key} |-> IF x = key THEN p ELSE @[x]],
                       !.line = [x \in DOMAIN @ \cup {key} |-> IF x = key
                                    THEN (IF rom THEN 5 + key[1] + key[2] ELSE r.last) % Ioapics ELSE @[x]],
                       !.last = @ + 1]
    IN IF r.reg[p] = Dis THEN [a EXCEPT !.reg[p] = q, !.irqs[q] = @ + 1] ELSE a

\* pci_lintr_route(): devices on the same pin of a slot share its lines.
LintrRoute(r, key, rom) == IF key \in DOMAIN r.pirq THEN r ELSE Allocated(r, key, rom)
NoRoutes == [use |-> [p \in Pirqs |-> 0], reg |-> [p \in Pirqs |-> Dis], irqs |-> [i \in Irqs |-> 0],
             pirq |-> [k \in {} |-> 0], line |-> [k \in {} |-> 0], last |-> 0]
Routed(pin, rom) ==
    LET after[n \in 0..Len(Order)] ==
            IF n = 0 THEN NoRoutes ELSE LintrRoute(after[n - 1], <<Slot[Order[n]], pin[Order[n]]>>, rom)
    IN after[Len(Order)]

Init ==
    \E rom \in BOOLEAN :
        LET pin == Requested
            r == Routed(pin, rom)
        IN sc = [pirq |-> [d \in Devs |-> r.pirq[<<Slot[d], pin[d]>>]],
                 line |-> [d \in Devs |-> r.line[<<Slot[d], pin[d]>>]],
                 reg |-> r.reg, active |-> [p \in Pirqs |-> 0], pic |-> [i \in Irqs |-> 0],
                 ioapic |-> [l \in 0..(Ioapics - 1) |-> 0], state |-> [d \in Devs |-> "IDLE"],
                 want |-> [d \in Devs |-> FALSE], off |-> [d \in Devs |-> {}], cfg |-> {}, ops |-> 0]

----------------------------------------------------------------------------
(* The router                                                               *)

ValidIrq(r) == r # Dis /\ r \in Permitted

\* Only the first assertion of a pin reaches the PIC; every one reaches the
\* I/O APIC.
IrqAssert(s, d) ==
    LET p == s.pirq[d]
        a == [s EXCEPT !.active[p] = @ + 1, !.ioapic[s.line[d]] = @ + 1]
    IN IF a.active[p] = 1 /\ ValidIrq(s.reg[p]) THEN [a EXCEPT !.pic[s.reg[p]] = @ + 1] ELSE a
IrqDeassert(s, d) ==
    LET p == s.pirq[d]
        a == [s EXCEPT !.active[p] = @ - 1, !.ioapic[s.line[d]] = @ - 1]
    IN IF a.active[p] = 0 /\ ValidIrq(s.reg[p]) THEN [a EXCEPT !.pic[s.reg[p]] = @ - 1] ELSE a

Op == sc.ops < IntxOps
Tick(s) == [s EXCEPT !.ops = @ + 1]

\* pirq_write(): the guest moves a router pin, also while it is asserted.
\* Mutant: the assertion stays on the old interrupt.
PirqWrite_NoMove(p, v) ==
    Op /\ v # sc.reg[p] /\ sc' = [Tick(sc) EXCEPT !.reg[p] = v]
PirqWrite(p, v) ==
    /\ Op /\ v # sc.reg[p]
    /\ LET busy == sc.active[p] # 0
           d(i) == (IF busy /\ ValidIrq(v) /\ i = v THEN 1 ELSE 0)
                   - (IF busy /\ ValidIrq(sc.reg[p]) /\ i = sc.reg[p] THEN 1 ELSE 0)
       IN sc' = [Tick(sc) EXCEPT !.reg[p] = v, !.pic = [i \in Irqs |-> @[i] + d(i)]]

----------------------------------------------------------------------------
(* The line of a device                                                     *)

LintrPermitted(s, d) == s.off[d] = {}

LintrAssert(d) ==
    /\ Op /\ ~sc.want[d]
    /\ LET s == [Tick(sc) EXCEPT !.want[d] = TRUE]
       IN sc' = IF s.state[d] # "IDLE" THEN s
                ELSE IF LintrPermitted(s, d) THEN IrqAssert([s EXCEPT !.state[d] = "ASSERTED"], d)
                ELSE [s EXCEPT !.state[d] = "PENDING"]
LintrDeassert(d) ==
    /\ Op /\ sc.want[d]
    /\ LET s == [Tick(sc) EXCEPT !.want[d] = FALSE, !.state[d] = "IDLE"]
       IN sc' = IF sc.state[d] = "ASSERTED" THEN IrqDeassert(s, d) ELSE s

\* A configuration write: the command register (pci_emul_cmdsts_write()), the
\* MSI or the MSI-X capability; the new bit is visible before the line is updated.
CfgWrite(d, why, on) ==
    /\ Op /\ d \notin sc.cfg /\ on # (why \in sc.off[d])
    /\ sc' = [Tick(sc) EXCEPT !.off[d] = IF on THEN @ \cup {why} ELSE @ \ {why}, !.cfg = @ \cup {d}]

LintrUpdate(d) ==
    /\ d \in sc.cfg
    /\ LET s == [sc EXCEPT !.cfg = @ \ {d}]
       IN sc' = IF s.state[d] = "ASSERTED" /\ ~LintrPermitted(s, d) THEN IrqDeassert([s EXCEPT !.state[d] = "PENDING"], d)
                ELSE IF s.state[d] = "PENDING" /\ LintrPermitted(s, d) THEN IrqAssert([s EXCEPT !.state[d] = "ASSERTED"], d)
                ELSE s

Device == \E d \in Devs : LintrAssert(d) \/ LintrDeassert(d)
Guest  == \E d \in Devs : LintrUpdate(d) \/ \E why \in Reasons, on \in BOOLEAN : CfgWrite(d, why, on)
Router == \E p \in Pirqs, v \in Irqs \cup {Dis} : PirqWrite(p, v)
Next == Device \/ Guest \/ Router

----------------------------------------------------------------------------
(* Properties                                                               *)

On(d) == sc.state[d] = "ASSERTED"

\* Every controller pin is asserted exactly as often as what drives it: an I/O
\* APIC pin by the asserted devices on it, a PIC pin by the router pins that are
\* active and routed to it. Sharing, rerouting and MSI changes never leave a
\* line stuck or drop one that another device still asserts.
LinesAgree ==
    /\ \A l \in DOMAIN sc.ioapic : sc.ioapic[l] = Cardinality({d \in Devs : On(d) /\ sc.line[d] = l})
    /\ \A p \in Pirqs : sc.active[p] = Cardinality({d \in Devs : On(d) /\ sc.pirq[d] = p})
    /\ \A i \in Irqs : sc.pic[i] = Cardinality({p \in Pirqs : sc.active[p] > 0 /\ ValidIrq(sc.reg[p]) /\ sc.reg[p] = i})

\* A level the device asks for is on its line unless INTx is forbidden, and is
\* remembered while it is: it comes back when MSI is turned off again.
WantedIsShown ==
    \A d \in Devs \ sc.cfg :
        sc.state[d] = IF ~sc.want[d] THEN "IDLE" ELSE IF LintrPermitted(sc, d) THEN "ASSERTED" ELSE "PENDING"
=============================================================================
