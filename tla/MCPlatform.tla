----------------------------- MODULE MCPlatform -----------------------------
(* The interrupt hardware of vmm.ko for TLC. A behaviour exercises one part,  *)
(* which `part' names: the local APICs with their IPIs, the I/O APIC with the *)
(* local APICs, or a local APIC's timer. The others stay in their reset state.*)
EXTENDS Vioapic, LapicTimer, TLC

Lvts  == {[masked |-> FALSE, vec |-> v, mode |-> m] : v \in {1, 4}, m \in {"fixed", "extint"}}
Dests == {All, Phys(1), Logical({0, 1})}
IoDests == {Phys(0), Logical({0, 1})}
Flat  == [c \in Apics |-> [model |-> "flat", ldr |-> {c}]]

VARIABLE part

platformVars == <<apicVars, ioapicVars, timerVars, part>>

IoapicReset ==
    /\ pins = [p \in Pins |-> [masked |-> TRUE, level |-> FALSE, lowprio |-> FALSE,
                               remirr |-> FALSE, vec |-> 0, dest |-> Phys(0), acnt |-> 0]]
    /\ iowr = NoWrite /\ eoiing = [c \in Apics |-> NoVec] /\ stale = {} /\ pinOps = 0

PlatformInit ==
    /\ TimerInit
    /\ \/ part \in {"lapic", "timer"} /\ ApicInit /\ IoapicReset
       \/ part = "ioapic" /\ IoapicInit

LapicPart  == part = "lapic" /\ ApicNext /\ UNCHANGED <<ioapicVars, timerVars, part>>
IoapicPart == part = "ioapic" /\ IoapicNext /\ UNCHANGED <<timerVars, part>>
TimerPart  == part = "timer" /\ TimerNext /\ UNCHANGED <<apicVars, ioapicVars, part>>

PlatformSpec ==
    /\ PlatformInit /\ [][LapicPart \/ IoapicPart \/ TimerPart]_platformVars
    /\ IoapicFairness /\ TimerFairness

TypeOK == ApicTypeOK /\ IoapicTypeOK /\ TimerTypeOK
============================================================================
