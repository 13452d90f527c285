--------------------------- MODULE PlatformProofs ---------------------------
(***************************************************************************)
(* Proofs about the interrupt hardware of vmm.ko: the timer of a local     *)
(* APIC, the interrupts in service in local APICs, the level-triggered     *)
(* interrupts of the I/O APIC, and the types of all of them together, for  *)
(* any number of vcpus, pins and vectors, and any counts and delays.       *)
(***************************************************************************)
EXTENDS MCPlatform, TLAPS

----------------------------------------------------------------------------
(* The timer *)

\* The callout and the handler that has been called for it.
Callout ==
    /\ pending => due = fire
    /\ active => armed /\ (pending \/ handler)
    /\ pending => active
    /\ handler /\ ~pending /\ active => fire <= 0

\* What the callout was armed with.
Countdown ==
    /\ period = div * icr
    /\ active /\ ~reclocked => fire <= div * icr

\* Why a periodic timer is not forgotten.
Periodic ==
    /\ tSvr \in {"stop", "mask"} => ~tOn
    /\ kept => tPeriodic
    /\ kept /\ tOn /\ tSvr = "none" /\ icr # 0 => active

TimerTypes ==
    /\ tOn \in BOOLEAN /\ tPeriodic \in BOOLEAN /\ pending \in BOOLEAN /\ active \in BOOLEAN
    /\ handler \in BOOLEAN /\ armed \in BOOLEAN /\ reclocked \in BOOLEAN /\ kept \in BOOLEAN
    /\ icr \in Nat /\ div \in Nat \ {0} /\ period \in Nat /\ fire \in Int /\ due \in Int

TimerInv == TimerTypes /\ Callout /\ Countdown /\ Periodic

LEMMA TimerInvInit == TimerInit => TimerInv
<1> SUFFICES ASSUME TimerInit PROVE TimerInv
  OBVIOUS
<1>1. ~pending /\ ~active /\ ~handler /\ ~tOn /\ ~kept /\ tSvr = "none"
  BY DEF TimerInit
<1>2. TimerTypes
  <2>1. /\ tOn \in BOOLEAN /\ tPeriodic \in BOOLEAN /\ pending \in BOOLEAN
        /\ active \in BOOLEAN /\ handler \in BOOLEAN /\ armed \in BOOLEAN
        /\ reclocked \in BOOLEAN /\ kept \in BOOLEAN
    BY Zenon DEF TimerInit
  <2>2. icr = 0 /\ div = 2 /\ period = 0 /\ fire = 0 /\ due = 0
    BY DEF TimerInit
  <2> QED
    BY <2>1, <2>2 DEF TimerTypes
<1>3. Callout
  BY <1>1 DEF Callout
<1>4. icr = 0 /\ div = 2 /\ period = 0
  BY DEF TimerInit
<1>5. Countdown
  BY <1>1, <1>4 DEF Countdown
<1>6. Periodic
  BY <1>1 DEF Periodic
<1> QED
  BY <1>2, <1>3, <1>5, <1>6 DEF TimerInv

\* vlapic_icrtmr_write_handler(), for the count icr' in the register.
LEMMA ArmInv ==
    ASSUME TimerTypes, NEW n \in Nat, Arm(n), icr' = n, UNCHANGED <<div, tPeriodic, handler>>
    PROVE  /\ Callout' /\ Countdown' /\ (kept' => tPeriodic) /\ (n # 0 => active')
           /\ pending' \in BOOLEAN /\ active' \in BOOLEAN /\ armed' \in BOOLEAN
           /\ reclocked' \in BOOLEAN /\ kept' \in BOOLEAN
           /\ period' \in Nat /\ fire' \in Int /\ due' \in Int
<1>1. div * n \in Nat
  BY DEF TimerTypes
<1>2. CASE n = 0
  <2>1. ~pending' /\ ~active' /\ ~armed' /\ ~reclocked' /\ kept' = tPeriodic
        /\ fire' = fire /\ due' = due /\ period' = div * n
    BY <1>2 DEF Arm, CalloutStop
  <2>2. /\ pending' \in BOOLEAN /\ active' \in BOOLEAN /\ armed' \in BOOLEAN
        /\ reclocked' \in BOOLEAN /\ kept' \in BOOLEAN
    BY <1>2 DEF Arm, CalloutStop, TimerTypes
  <2>3. Callout'
    BY <2>1 DEF Callout
  <2>4. Countdown'
    BY <2>1 DEF Countdown
  <2> QED
    BY <1>1, <1>2, <2>1, <2>2, <2>3, <2>4 DEF TimerTypes
<1>3. CASE n # 0
  <2>1. pending' /\ active' /\ armed' /\ ~reclocked' /\ kept' = tPeriodic
        /\ fire' = div * n /\ due' = div * n /\ period' = div * n
    BY <1>3 DEF Arm, CalloutReset
  <2>2. /\ pending' \in BOOLEAN /\ active' \in BOOLEAN /\ armed' \in BOOLEAN
        /\ reclocked' \in BOOLEAN /\ kept' \in BOOLEAN
    BY <1>3 DEF Arm, CalloutReset, TimerTypes
  <2>3. Callout'
    BY <2>1 DEF Callout
  <2>4. Countdown'
    BY <1>1, <2>1 DEF Countdown
  <2> QED
    BY <1>1, <1>3, <2>1, <2>2, <2>3, <2>4 DEF TimerTypes
<1> QED
  BY <1>2, <1>3

LEMMA TimerInvNext == TimerInv /\ [TimerNext]_timerVars => TimerInv'
<1> SUFFICES ASSUME TimerInv, [TimerNext]_timerVars PROVE TimerInv'
  OBVIOUS
<1>0. TimerTypes /\ Callout /\ Countdown /\ Periodic
  BY DEF TimerInv
<1>1. CASE UNCHANGED timerVars
  BY <1>0, <1>1 DEF timerVars, TimerInv, TimerTypes, Callout, Countdown, Periodic
<1>2. ASSUME NEW n \in Counts, IcrWrite(n) PROVE TimerInv'
  <2>1. n \in Nat /\ Arm(n) /\ icr' = n /\ UNCHANGED <<tOn, tSvr, div, tPeriodic, handler>>
    BY <1>2, TimerAssumption DEF IcrWrite, TimerAssumption
  <2> QED
    BY <1>0, <2>1, ArmInv DEF TimerInv, TimerTypes, Periodic
<1>3. ASSUME NEW d \in Divisors, DcrWrite(d) PROVE TimerInv'
  <2>1. d \in Nat \ {0}
    BY TimerAssumption DEF TimerAssumption
  <2>2. d * icr \in Nat
    BY <1>0, <2>1 DEF TimerTypes
  <2> QED
    BY <1>0, <1>3, <2>1, <2>2 DEF DcrWrite, TimerInv, TimerTypes, Callout, Countdown, Periodic
<1>4. ASSUME NEW m \in BOOLEAN, NEW p \in BOOLEAN, TimerLvtWrite(m, p) PROVE TimerInv'
  BY <1>0, <1>4 DEF TimerLvtWrite, TimerInv, TimerTypes, Callout, Countdown, Periodic
<1>5. CASE TimerSvrWrite
  BY <1>0, <1>5 DEF TimerSvrWrite, TimerGuest, TimerInv, TimerTypes, Callout, Countdown, Periodic
<1>6. CASE SvrStop
  BY <1>0, <1>6 DEF SvrStop, CalloutStop, TimerInv, TimerTypes, Callout, Countdown, Periodic
<1>7. CASE SvrMaskTimer
  BY <1>0, <1>7 DEF SvrMaskTimer, TimerInv, TimerTypes, Callout, Countdown, Periodic
<1>8. CASE SvrStart
  <2>1. tSvr = "start" /\ tSvr' = "none" /\ UNCHANGED <<tOn, icr, div, tPeriodic, handler>>
    BY <1>8 DEF SvrStart
  <2>2. CASE tPeriodic
    <3>1. Arm(icr) /\ icr \in Nat /\ icr' = icr
      BY <1>0, <1>8, <2>1, <2>2 DEF SvrStart, TimerTypes
    <3>2. /\ Callout' /\ Countdown' /\ (kept' => tPeriodic) /\ (icr # 0 => active')
          /\ pending' \in BOOLEAN /\ active' \in BOOLEAN /\ armed' \in BOOLEAN
          /\ reclocked' \in BOOLEAN /\ kept' \in BOOLEAN
          /\ period' \in Nat /\ fire' \in Int /\ due' \in Int
      BY <1>0, <2>1, <3>1, ArmInv, Zenon
    <3>3. TimerTypes'
      BY <1>0, <2>1, <3>2 DEF TimerTypes
    <3>4. Periodic'
      BY <2>1, <2>2, <3>2 DEF Periodic
    <3> QED
      BY <3>2, <3>3, <3>4 DEF TimerInv
  <2>3. CASE ~tPeriodic
    BY <1>0, <1>8, <2>1, <2>3 DEF SvrStart, TimerInv, TimerTypes, Callout, Countdown, Periodic
  <2> QED
    BY <2>2, <2>3
<1>9. CASE Expire
  BY <1>0, <1>9 DEF Expire, TimerInv, TimerTypes, Callout, Countdown, Periodic
<1>10. CASE Tick
  <2>1. fire' \in Int /\ due' \in Int /\ fire' <= fire /\ fire' = fire - 1 /\ due' = due - 1
    BY <1>0, <1>10 DEF Tick, TimerTypes
  <2>2. div * icr \in Nat
    BY <1>0 DEF TimerTypes
  <2> QED
    BY <1>0, <1>10, <2>1, <2>2 DEF Tick, TimerInv, TimerTypes, Callout, Countdown, Periodic
<1>11. CASE Handler
  <2>1. handler /\ handler' = FALSE
        /\ UNCHANGED <<tOn, tSvr, tPeriodic, icr, div, period, reclocked, kept>>
    BY <1>11 DEF Handler
  <2>2. CASE ~Genuine
    <3>1. UNCHANGED <<fire, due, pending, active, armed>>
      BY <1>11, <2>2 DEF Handler
    <3>2. TimerTypes'
      BY <1>0, <2>1, <3>1 DEF TimerTypes
    <3>3. Callout'
      BY <1>0, <2>1, <2>2, <3>1 DEF Callout, Genuine, TimerTypes
    <3>4. Countdown' /\ Periodic'
      BY <1>0, <2>1, <3>1 DEF Countdown, Periodic
    <3> QED
      BY <3>2, <3>3, <3>4 DEF TimerInv
  <2>3. CASE Genuine /\ tPeriodic
    <3>1. fire <= 0 /\ active /\ armed
      BY <1>0, <2>1, <2>3 DEF Genuine, Callout
    <3>2. pending' = TRUE /\ active' = TRUE /\ armed' = armed
      BY <1>11, <2>3 DEF Handler, Rearm, CalloutReset
    <3>3. fire' = due' /\ fire' \in Int /\ fire' <= period
      <4>1. CASE -fire < period
        BY <1>0, <1>11, <2>3, <3>1, <4>1 DEF Handler, Rearm, CalloutReset, TimerTypes
      <4>2. CASE ~(-fire < period)
        BY <1>0, <1>11, <2>3, <3>1, <4>2 DEF Handler, Rearm, CalloutReset, TimerTypes
      <4> QED
        BY <4>1, <4>2
    <3> QED
      BY <1>0, <2>1, <3>1, <3>2, <3>3 DEF TimerInv, TimerTypes, Callout, Countdown, Periodic
  <2>4. CASE Genuine /\ ~tPeriodic
    <3>1. ~active' /\ ~armed' /\ UNCHANGED <<fire, due, pending>>
      BY <1>11, <2>4 DEF Handler
    <3>2. active' \in BOOLEAN /\ armed' \in BOOLEAN
      BY <1>11, <2>4 DEF Handler
    <3>3. TimerTypes'
      BY <1>0, <2>1, <3>1, <3>2 DEF TimerTypes
    <3>4. Callout' /\ Countdown'
      BY <1>0, <2>1, <2>4, <3>1 DEF Callout, Countdown, Genuine
    <3>5. Periodic'
      BY <1>0, <2>1, <2>4, <3>1 DEF Periodic
    <3> QED
      BY <3>3, <3>4, <3>5 DEF TimerInv
  <2> QED
    BY <2>2, <2>3, <2>4
<1> QED
  BY <1>1, <1>2, <1>3, <1>4, <1>5, <1>6, <1>7, <1>8, <1>9, <1>10, <1>11 DEF TimerNext, SvrRest

LEMMA DivBound ==
    ASSUME NEW a \in Nat, NEW d \in Nat \ {0}, NEW i \in Nat, a <= d * i
    PROVE  a \div d <= i
<1> DEFINE q == a \div d
<1>1. q \in Int /\ a % d \in 0 .. d - 1 /\ a = d * q + (a % d)
  OBVIOUS
<1>2. d * q <= d * i
  BY <1>1
<1> HIDE DEF q
<1>3. SUFFICES ASSUME q >= i + 1 PROVE FALSE
  BY <1>1 DEF q
<1>4. d * q >= d * (i + 1)
  BY <1>1, <1>3
<1>5. d * (i + 1) = d * i + d
  OBVIOUS
<1> QED
  BY <1>1, <1>2, <1>4, <1>5

LEMMA TimerInvExact == TimerInv => TimerExact
<1> SUFFICES ASSUME TimerInv PROVE TimerExact
  OBVIOUS
<1>0. TimerTypes /\ Callout /\ Countdown /\ Periodic
  BY DEF TimerInv
<1>1. NoSpuriousTimer
  BY <1>0 DEF NoSpuriousTimer, Genuine, Callout
<1>2. ~reclocked => Ccr <= icr
  <2>1. CASE active /\ fire > 0
    <3>1. fire \in Nat /\ div \in Nat \ {0} /\ icr \in Nat
      BY <1>0, <2>1 DEF TimerTypes
    <3>2. ~reclocked => fire <= div * icr
      BY <1>0, <2>1 DEF Countdown
    <3>3. ~reclocked => fire \div div <= icr
      BY <3>1, <3>2, DivBound
    <3> QED
      BY <2>1, <3>3 DEF Ccr
  <2>2. CASE ~(active /\ fire > 0)
    BY <1>0, <2>2 DEF Ccr, TimerTypes
  <2> QED
    BY <2>1, <2>2
<1>3. CountAgrees
  BY <1>0, <1>2 DEF CountAgrees, Callout
<1>4. PeriodicAlive
  BY <1>0 DEF PeriodicAlive, Callout, Periodic
<1> QED
  BY <1>1, <1>3, <1>4 DEF TimerExact

\* The timer of a local APIC interrupts neither early nor after it was
\* stopped, its current count is that of its callout, and as long as it is
\* periodic it does not stop, for every count, divisor and delay of the
\* callout and however vlapic_callout_handler(), waiting for the timer lock,
\* interleaves with the guest's register writes.
THEOREM TimerExactAlways == TimerSpec => []TimerExact
BY TimerInvInit, TimerInvNext, TimerInvExact, PTL DEF TimerSpec

----------------------------------------------------------------------------
(* Local APICs: the interrupts in service *)

\* Every vector in service has a higher priority than all those below it on
\* the stack, not only than the next one, and the stack lists the ISR.
Nested(l) ==
    /\ \A i, j \in 1 .. Len(l.stk) : i < j => Prio(l.stk[i]) < Prio(l.stk[j])
    /\ \A i \in 1 .. Len(l.stk) : l.stk[i] \in l.isr
    /\ \A v \in l.isr : \E i \in 1 .. Len(l.stk) : v = l.stk[i]

\* A vector that may be accepted.
Above(l, v) == v \in Vectors /\ \A i \in 1 .. Len(l.stk) : Prio(l.stk[i]) < Prio(v)

StackInv ==
    /\ lapics \in [Apics -> Lapic]
    /\ chosen \in [Apics -> Vectors \cup {NoVec}]
    /\ \A c \in Apics : Nested(lapics[c])
    /\ \A c \in Apics : chosen[c] # NoVec => Above(lapics[c], chosen[c])

\* An operation that leaves the interrupts in service alone.
SameStack(l, m) == m \in Lapic /\ m.stk = l.stk /\ m.isr = l.isr

LEMMA PrioFacts ==
    ASSUME NEW x \in Vectors
    PROVE  /\ x \in Nat /\ Prio(x) \in Nat
           /\ Prio(x) * ClassSize \in Vectors /\ Prio(Prio(x) * ClassSize) = Prio(x)
<1>1. x \in Nat /\ x <= NumVectors - 1 /\ NumVectors \in Nat /\ ClassSize \in Nat \ {0}
  BY ApicAssumption DEF Vectors, ApicAssumption
<1>2. ClassSize > 0 /\ ClassSize \in Int
  BY <1>1
<1>3. Prio(x) \in Int /\ x % ClassSize \in 0 .. ClassSize - 1
      /\ x = ClassSize * Prio(x) + (x % ClassSize)
  BY <1>1, <1>2 DEF Prio
<1> DEFINE q == Prio(x)
           y == q * ClassSize
<1>4. q \in Int /\ y = ClassSize * q
  BY <1>1, <1>3
<1>5. y \in Int /\ y <= x /\ x < y + ClassSize
  BY <1>1, <1>3, <1>4
<1>6. q >= 0
  <2>1. SUFFICES ASSUME q <= -1 PROVE FALSE
    BY <1>4
  <2>2. ClassSize * q <= -ClassSize
    BY <1>1, <1>4, <2>1
  <2> QED
    BY <1>1, <1>4, <1>5, <2>2
<1>7. y >= 0
  BY <1>1, <1>4, <1>6
<1>8. y \in Vectors
  BY <1>1, <1>5, <1>7 DEF Vectors
<1>9. Prio(y) = q
  BY <1>1, <1>4, <1>6 DEF Prio
<1> QED
  BY <1>1, <1>4, <1>6, <1>8, <1>9

LEMMA PrioMonotone ==
    ASSUME NEW x \in Vectors, NEW y \in Vectors, x <= y
    PROVE  Prio(x) <= Prio(y)
<1>1. x \in Nat /\ y \in Nat /\ ClassSize \in Nat \ {0}
  BY ApicAssumption DEF Vectors, ApicAssumption
<1> DEFINE p == Prio(x)
           q == Prio(y)
<1>2. p \in Int /\ x % ClassSize \in 0 .. ClassSize - 1 /\ x = ClassSize * p + (x % ClassSize)
  BY <1>1 DEF Prio
<1>3. q \in Int /\ y % ClassSize \in 0 .. ClassSize - 1 /\ y = ClassSize * q + (y % ClassSize)
  BY <1>1 DEF Prio
<1> HIDE DEF p, q
<1>4. SUFFICES ASSUME q + 1 <= p PROVE FALSE
  BY <1>2, <1>3 DEF p, q
<1>5. ClassSize * (q + 1) <= ClassSize * p
  BY <1>1, <1>2, <1>3, <1>4
<1>6. ClassSize * (q + 1) = ClassSize * q + ClassSize
  BY <1>1, <1>3
<1>7. ClassSize * q \in Int /\ ClassSize * p \in Int
  BY <1>1, <1>2, <1>3
<1> QED
  BY <1>1, <1>2, <1>3, <1>5, <1>6, <1>7

LEMMA LapicFields ==
    ASSUME NEW l \in Lapic
    PROVE  /\ l.stk \in Seq(Vectors) /\ l.isr \subseteq Vectors /\ l.irr \subseteq Vectors
           /\ l.tmr \subseteq Vectors /\ l.tpr \in Vectors /\ l.ppr \in Vectors
           /\ \A e \in LvtNames : l.lvt[e].vec \in Vectors
BY DEF Lapic, LvtEntry

----------------------------------------------------------------------------
(* Operations that leave the interrupts in service alone *)

LEMMA SameRequest ==
    ASSUME NEW l \in Lapic, NEW v \in Vectors
    PROVE  SameStack(l, Request(l, v))
BY DEF SameStack, Request, Lapic

LEMMA SameSetError ==
    ASSUME NEW l \in Lapic
    PROVE  SameStack(l, SetError(l))
<1> DEFINE m == [l EXCEPT !.esrPending = TRUE]
           r == l.lvt["error"]
<1>1. SameStack(l, m)
  BY DEF SameStack, Lapic
<1>2. r.vec \in Vectors
  BY LapicFields DEF LvtNames
<1>3. SameStack(m, Request(m, r.vec))
  BY <1>1, <1>2, SameRequest DEF SameStack
<1>4. SetError(l) = IF r.masked \/ Illegal(r.vec) THEN m ELSE Request(m, r.vec)
  BY DEF SetError
<1> HIDE DEF m, r
<1> QED
  BY <1>1, <1>3, <1>4 DEF SameStack

LEMMA SameFireLvt ==
    ASSUME NEW l \in Lapic, NEW e \in LvtNames
    PROVE  SameStack(l, FireLvt(l, e))
<1>1. l.lvt[e].vec \in Vectors
  BY LapicFields
<1>2. SameStack(l, l)
  BY DEF SameStack
<1> QED
  BY <1>1, <1>2, SameRequest, SameSetError DEF FireLvt

LEMMA SameEsrWrite ==
    ASSUME NEW l \in Lapic
    PROVE  SameStack(l, EsrWrite(l))
BY DEF SameStack, Lapic, EsrWrite

LEMMA SameLvtWrite ==
    ASSUME NEW l \in Lapic, NEW e \in LvtNames, NEW r \in LvtEntry
    PROVE  SameStack(l, LvtWrite(l, e, r))
BY DEF SameStack, Lapic, LvtWrite, LvtEntry, LvtNames

LEMMA SameMaskLvts ==
    ASSUME NEW l \in Lapic
    PROVE  SameStack(l, MaskLvts(l))
BY DEF SameStack, Lapic, MaskLvts, LvtEntry, LvtNames

LEMMA SameSvr ==
    ASSUME NEW l \in Lapic
    PROVE  SameStack(l, [l EXCEPT !.enabled = ~@])
BY DEF SameStack, Lapic

LEMMA IsrVecType ==
    ASSUME NEW l \in Lapic
    PROVE  IsrVec(l) \in Vectors
<1>1. l.stk \in Seq(Vectors)
  BY LapicFields
<1>2. 0 \in Vectors
  BY ApicAssumption DEF ApicAssumption, Vectors
<1> QED
  BY <1>1, <1>2 DEF IsrVec

\* vlapic_update_ppr(): the processor priority is not below the class in
\* service.
LEMMA UpdatePprOk ==
    ASSUME NEW l \in Lapic
    PROVE  /\ SameStack(l, UpdatePpr(l))
           /\ UpdatePpr(l).irr = l.irr /\ UpdatePpr(l).tmr = l.tmr
           /\ UpdatePpr(l).ppr \in Vectors
           /\ Prio(UpdatePpr(l).ppr) >= Prio(IsrVec(l))
<1> DEFINE v == IsrVec(l)
           p == IF Prio(l.tpr) >= Prio(v) THEN l.tpr ELSE Prio(v) * ClassSize
<1>1. l.tpr \in Vectors /\ v \in Vectors
  BY LapicFields, IsrVecType
<1>2. Prio(v) \in Nat /\ Prio(v) * ClassSize \in Vectors
      /\ Prio(Prio(v) * ClassSize) = Prio(v) /\ Prio(l.tpr) \in Nat
  BY <1>1, PrioFacts
<1>3. p \in Vectors /\ Prio(p) >= Prio(v)
  BY <1>1, <1>2
<1>4. UpdatePpr(l) = [l EXCEPT !.ppr = p]
  BY DEF UpdatePpr
<1> HIDE DEF p, v
<1>5. SameStack(l, [l EXCEPT !.ppr = p]) /\ [l EXCEPT !.ppr = p].ppr = p
      /\ [l EXCEPT !.ppr = p].irr = l.irr /\ [l EXCEPT !.ppr = p].tmr = l.tmr
  BY <1>3 DEF SameStack, Lapic
<1> QED
  BY <1>3, <1>4, <1>5 DEF v

LEMMA SameSetTpr ==
    ASSUME NEW l \in Lapic, NEW t \in Vectors
    PROVE  SameStack(l, SetTpr(l, t))
<1> DEFINE m == [l EXCEPT !.tpr = t]
<1>1. SameStack(l, m) /\ SameStack(l, l)
  BY DEF SameStack, Lapic
<1>2. SameStack(m, UpdatePpr(m))
  BY <1>1, UpdatePprOk DEF SameStack
<1>3. SetTpr(l, t) = IF l.tpr = t THEN l ELSE UpdatePpr(m)
  BY DEF SetTpr
<1> HIDE DEF m
<1> QED
  BY <1>1, <1>2, <1>3 DEF SameStack

----------------------------------------------------------------------------
(* Accepting and ending an interrupt *)

LEMMA NestedSame ==
    ASSUME NEW l, NEW m, SameStack(l, m), Nested(l)
    PROVE  Nested(m) /\ \A v : Above(l, v) => Above(m, v)
BY DEF SameStack, Nested, Above

\* The highest vector of the ISR is the last one of the stack.
LEMMA TopIsLast ==
    ASSUME NEW l \in Lapic, Nested(l), l.isr # {}
    PROVE  /\ Len(l.stk) \in Nat \ {0} /\ Top(l.isr) = l.stk[Len(l.stk)]
           /\ Top(l.isr) \in l.isr
<1> DEFINE n == Len(l.stk)
           w == l.stk[n]
<1>1. l.stk \in Seq(Vectors) /\ l.isr \subseteq Vectors
  BY LapicFields
<1>2. n \in Nat /\ \A i \in 1 .. n : l.stk[i] \in Vectors
  BY <1>1
<1>3. PICK v \in l.isr : TRUE
  OBVIOUS
<1>4. n \in Nat \ {0} /\ n \in 1 .. n
  BY <1>2, <1>3 DEF Nested
<1>5. w \in l.isr /\ w \in Vectors
  BY <1>2, <1>4 DEF Nested
<1>6. ASSUME NEW u \in l.isr PROVE u <= w
  <2>1. PICK i \in 1 .. n : u = l.stk[i]
    BY DEF Nested
  <2>2. u \in Vectors /\ u \in Nat /\ w \in Nat
    BY <1>1, <1>5, PrioFacts
  <2>3. CASE i = n
    BY <2>1, <2>2, <2>3
  <2>4. CASE i # n
    <3>1. i < n
      BY <1>2, <2>4
    <3>2. Prio(u) < Prio(w)
      BY <1>4, <2>1, <3>1 DEF Nested
    <3>3. Prio(u) \in Nat /\ Prio(w) \in Nat
      BY <1>5, <2>2, PrioFacts
    <3>4. w <= u => Prio(w) <= Prio(u)
      BY <1>5, <2>2, PrioMonotone
    <3> QED
      BY <2>2, <3>2, <3>3, <3>4
  <2> QED
    BY <2>3, <2>4
<1>7. l.isr \subseteq Nat
  BY <1>1, PrioFacts
<1> HIDE DEF w
<1>8. \A u \in l.isr : (\A x \in l.isr : x <= u) => u = w
  BY <1>5, <1>6, <1>7
<1>9. Top(l.isr) = w
  BY <1>5, <1>6, <1>8 DEF Top
<1> QED
  BY <1>4, <1>5, <1>9 DEF w

\* vlapic_intr_accepted()
LEMMA AcceptNests ==
    ASSUME NEW l \in Lapic, Nested(l), NEW v, Above(l, v)
    PROVE  IntrAccepted(l, v) \in Lapic /\ Nested(IntrAccepted(l, v))
<1> DEFINE m == IntrAccepted(l, v)
           n == Len(l.stk)
<1>1. l.stk \in Seq(Vectors) /\ l.isr \subseteq Vectors /\ v \in Vectors
  BY LapicFields DEF Above
<1>2. Append(l.stk, v) \in Seq(Vectors)
  BY <1>1
<1>3. /\ m \in Lapic /\ m.stk = Append(l.stk, v) /\ m.isr = l.isr \cup {v}
  BY <1>1, <1>2 DEF IntrAccepted, Lapic
<1>4. /\ n \in Nat /\ Len(m.stk) = n + 1 /\ m.stk[n + 1] = v
      /\ \A i \in 1 .. n : m.stk[i] = l.stk[i]
  BY <1>1, <1>3
<1> HIDE DEF m, n
<1>5. ASSUME NEW i \in 1 .. n + 1, NEW j \in 1 .. n + 1, i < j
      PROVE  Prio(m.stk[i]) < Prio(m.stk[j])
  <2>1. i \in 1 .. n
    BY <1>4, <1>5
  <2>2. CASE j = n + 1
    BY <1>4, <2>1, <2>2 DEF Above, n
  <2>3. CASE j \in 1 .. n
    BY <1>4, <1>5, <2>1, <2>3 DEF Nested, n
  <2> QED
    BY <1>4, <2>2, <2>3
<1>6. ASSUME NEW i \in 1 .. n + 1 PROVE m.stk[i] \in m.isr
  <2>1. CASE i = n + 1
    BY <1>3, <1>4, <2>1
  <2>2. CASE i \in 1 .. n
    BY <1>3, <1>4, <2>2 DEF Nested, n
  <2> QED
    BY <1>4, <2>1, <2>2
<1>7. ASSUME NEW u \in m.isr PROVE \E i \in 1 .. n + 1 : u = m.stk[i]
  <2>1. CASE u = v
    <3>1. n + 1 \in 1 .. n + 1
      BY <1>4
    <3> QED
      BY <1>4, <2>1, <3>1
  <2>2. CASE u \in l.isr
    <3>1. PICK i \in 1 .. n : u = l.stk[i]
      BY <2>2 DEF Nested, n
    <3>2. i \in 1 .. n + 1
      BY <1>4
    <3> QED
      BY <1>4, <3>1, <3>2
  <2> QED
    BY <1>3, <2>1, <2>2
<1>8. Nested(m)
  BY <1>4, <1>5, <1>6, <1>7 DEF Nested
<1> QED
  BY <1>3, <1>8 DEF m

\* vlapic_process_eoi()
LEMMA EoiNests ==
    ASSUME NEW l \in Lapic, Nested(l), l.isr # {}
    PROVE  /\ ProcessEoi(l) \in Lapic /\ Nested(ProcessEoi(l))
           /\ ProcessEoi(l).isr = l.isr \ {Top(l.isr)}
           /\ ProcessEoi(l).irr = l.irr /\ ProcessEoi(l).tmr = l.tmr
<1> DEFINE n == Len(l.stk)
           w == Top(l.isr)
           m == [l EXCEPT !.isr = @ \ {w}, !.stk = SubSeq(@, 1, Len(@) - 1)]
<1>1. l.stk \in Seq(Vectors) /\ n \in Nat \ {0} /\ w = l.stk[n]
  BY LapicFields, TopIsLast
<1>2. SubSeq(l.stk, 1, n - 1) \in Seq(Vectors)
  BY <1>1
<1>3. m \in Lapic /\ m.stk = SubSeq(l.stk, 1, n - 1) /\ m.isr = l.isr \ {w}
      /\ m.irr = l.irr /\ m.tmr = l.tmr
  BY <1>1, <1>2 DEF Lapic
<1>4. ProcessEoi(l) = UpdatePpr(m)
  BY DEF ProcessEoi
<1>5. /\ Len(m.stk) = n - 1 /\ \A i \in 1 .. n - 1 : m.stk[i] = l.stk[i] /\ i \in 1 .. n
      /\ n \in 1 .. n
  BY <1>1, <1>3
<1> HIDE DEF m, n, w
<1>6. ASSUME NEW i \in 1 .. n - 1 PROVE l.stk[i] # w /\ l.stk[i] \in l.isr
  <2>1. i \in 1 .. n /\ i < n
    BY <1>1, <1>5
  <2>2. Prio(l.stk[i]) < Prio(w)
    BY <1>1, <1>5, <2>1 DEF Nested, n
  <2>3. l.stk[i] \in Vectors /\ w \in Vectors
    BY <1>1, <1>5, <2>1 DEF n
  <2>4. Prio(w) \in Nat
    BY <2>3, PrioFacts
  <2> QED
    BY <2>1, <2>2, <2>4 DEF Nested, n
<1>7. \A i, j \in 1 .. n - 1 : i < j => Prio(m.stk[i]) < Prio(m.stk[j])
  BY <1>5 DEF Nested, n
<1>8. \A i \in 1 .. n - 1 : m.stk[i] \in m.isr
  BY <1>3, <1>5, <1>6
<1>9. ASSUME NEW u \in m.isr PROVE \E i \in 1 .. n - 1 : u = m.stk[i]
  <2>1. u \in l.isr /\ u # w
    BY <1>3
  <2>2. PICK i \in 1 .. n : u = l.stk[i]
    BY <2>1 DEF Nested, n
  <2>3. i # n
    BY <1>1, <2>1, <2>2
  <2>4. i \in 1 .. n - 1
    BY <1>1, <2>3
  <2> QED
    BY <1>5, <2>2, <2>4
<1>10. Nested(m)
  BY <1>5, <1>7, <1>8, <1>9 DEF Nested
<1>11. SameStack(m, UpdatePpr(m)) /\ UpdatePpr(m).irr = m.irr /\ UpdatePpr(m).tmr = m.tmr
  BY <1>3, UpdatePprOk
<1>12. Nested(UpdatePpr(m))
  BY <1>10, <1>11, NestedSame
<1> QED
  BY <1>3, <1>4, <1>11, <1>12 DEF SameStack, w

\* vlapic_pending_intr(): the vector it returns may be accepted.
LEMMA PendingAbove ==
    ASSUME NEW l \in Lapic, Nested(l), NEW v \in PendingIntr(l)
    PROVE  Above(l, v)
<1>1. v \in Vectors /\ Prio(v) > Prio(UpdatePpr(l).ppr)
  BY LapicFields DEF PendingIntr
<1>2. UpdatePpr(l).ppr \in Vectors /\ Prio(UpdatePpr(l).ppr) >= Prio(IsrVec(l))
      /\ IsrVec(l) \in Vectors
  BY UpdatePprOk, IsrVecType
<1>3. Prio(v) \in Nat /\ Prio(UpdatePpr(l).ppr) \in Nat /\ Prio(IsrVec(l)) \in Nat
  BY <1>1, <1>2, PrioFacts
<1>4. Prio(v) > Prio(IsrVec(l))
  BY <1>1, <1>2, <1>3
<1>5. l.stk \in Seq(Vectors) /\ Len(l.stk) \in Nat
  BY LapicFields
<1>6. ASSUME NEW i \in 1 .. Len(l.stk) PROVE Prio(l.stk[i]) < Prio(v)
  <2> DEFINE n == Len(l.stk)
  <2>1. n \in Nat /\ n \in 1 .. n /\ l.stk # <<>>
    BY <1>5
  <2>2. IsrVec(l) = l.stk[n]
    BY <2>1 DEF IsrVec
  <2>3. l.stk[i] \in Vectors
    BY <1>5
  <2>4. Prio(l.stk[i]) \in Nat
    BY <2>3, PrioFacts
  <2>5. i = n \/ Prio(l.stk[i]) < Prio(l.stk[n])
    BY <2>1 DEF Nested
  <2> QED
    BY <1>3, <1>4, <2>2, <2>4, <2>5
<1> QED
  BY <1>1, <1>6 DEF Above

----------------------------------------------------------------------------
(* The steps of local APICs *)

\* A step that leaves the interrupts in service alone.
LEMMA StackFrame ==
    ASSUME StackInv, lapics' \in [Apics -> Lapic],
           \A c \in Apics : SameStack(lapics[c], lapics'[c]), chosen' = chosen
    PROVE  StackInv'
<1>1. \A c \in Apics : Nested(lapics'[c])
  BY NestedSame DEF StackInv
<1>2. \A c \in Apics : chosen[c] # NoVec => Above(lapics'[c], chosen[c])
  BY NestedSame DEF StackInv
<1> QED
  BY <1>1, <1>2 DEF StackInv

\* The same for a step of one vcpu.
LEMMA StackUpdate ==
    ASSUME StackInv, NEW c \in Apics, NEW m, SameStack(lapics[c], m), Update(c, m),
           chosen' = chosen
    PROVE  StackInv'
<1>1. lapics \in [Apics -> Lapic] /\ m \in Lapic
  BY DEF StackInv, SameStack
<1>2. lapics' = [lapics EXCEPT ![c] = m]
  BY DEF Update
<1>3. lapics' \in [Apics -> Lapic]
  BY <1>1, <1>2
<1>4. ASSUME NEW x \in Apics PROVE SameStack(lapics[x], lapics'[x])
  <2>1. lapics'[x] = IF x = c THEN m ELSE lapics[x]
    BY <1>1, <1>2
  <2>2. SameStack(lapics[x], lapics[x])
    BY <1>1 DEF SameStack
  <2> QED
    BY <2>1, <2>2
<1> QED
  BY <1>3, <1>4, StackFrame

LEMMA StackRequestAll ==
    ASSUME StackInv, NEW D, NEW v \in Vectors, RequestAll(D, v), chosen' = chosen
    PROVE  StackInv'
<1>1. lapics \in [Apics -> Lapic]
  BY DEF StackInv
<1>2. \A c \in Apics : lapics'[c] = IF c \in D THEN Request(lapics[c], v) ELSE lapics[c]
  BY DEF RequestAll
<1>3. \A c \in Apics : /\ SameStack(lapics[c], Request(lapics[c], v))
                      /\ SameStack(lapics[c], lapics[c])
  BY <1>1, SameRequest DEF SameStack
<1>4. \A c \in Apics : SameStack(lapics[c], lapics'[c])
  BY <1>2, <1>3
<1>5. lapics' = [c \in Apics |-> lapics'[c]]
  BY DEF RequestAll
<1>6. lapics' \in [Apics -> Lapic]
  BY <1>4, <1>5 DEF SameStack
<1> QED
  BY <1>4, <1>6, StackFrame

LEMMA StackAsk ==
    ASSUME StackInv, NEW c \in Apics, AskPending(c)
    PROVE  StackInv'
<1>1. PICK v \in PendingIntr(lapics[c]) : chosen' = [chosen EXCEPT ![c] = v]
  BY DEF AskPending
<1>2. lapics[c] \in Lapic /\ Nested(lapics[c]) /\ lapics \in [Apics -> Lapic]
      /\ chosen \in [Apics -> Vectors \cup {NoVec}]
  BY DEF StackInv
<1>3. Above(lapics[c], v) /\ v \in Vectors
  BY <1>2, PendingAbove DEF Above
<1> DEFINE m == UpdatePpr(lapics[c])
<1>4. SameStack(lapics[c], m)
  BY <1>2, UpdatePprOk
<1>5. lapics' = [lapics EXCEPT ![c] = m]
  BY DEF AskPending, Update
<1> HIDE DEF m
<1>6. lapics' \in [Apics -> Lapic] /\ chosen' \in [Apics -> Vectors \cup {NoVec}]
  BY <1>1, <1>2, <1>3, <1>4, <1>5 DEF SameStack
<1>7. /\ lapics'[c] = m /\ \A x \in Apics \ {c} : lapics'[x] = lapics[x] /\ chosen'[x] = chosen[x]
      /\ chosen'[c] = v
  BY <1>1, <1>2, <1>5
<1>8. Nested(m) /\ Above(m, v)
  BY <1>2, <1>3, <1>4, NestedSame
<1>9. ASSUME NEW x \in Apics
      PROVE  Nested(lapics'[x]) /\ (chosen'[x] # NoVec => Above(lapics'[x], chosen'[x]))
  <2>1. CASE x = c
    BY <1>7, <1>8, <2>1
  <2>2. CASE x # c
    BY <1>7, <2>2 DEF StackInv
  <2> QED
    BY <2>1, <2>2
<1> QED
  BY <1>6, <1>9 DEF StackInv

\* A vcpu that has no vector chosen after the step has its interrupts nested.
LEMMA StackOther ==
    ASSUME StackInv, NEW c \in Apics, NEW m \in Lapic, Nested(m), Update(c, m),
           chosen' = [chosen EXCEPT ![c] = NoVec]
    PROVE  StackInv'
<1>1. lapics \in [Apics -> Lapic] /\ chosen \in [Apics -> Vectors \cup {NoVec}]
  BY DEF StackInv
<1>2. lapics' = [lapics EXCEPT ![c] = m]
  BY DEF Update
<1>3. lapics' \in [Apics -> Lapic] /\ chosen' \in [Apics -> Vectors \cup {NoVec}]
  BY <1>1, <1>2
<1>4. /\ lapics'[c] = m /\ \A x \in Apics \ {c} : lapics'[x] = lapics[x] /\ chosen'[x] = chosen[x]
      /\ chosen'[c] = NoVec
  BY <1>1, <1>2
<1>5. ASSUME NEW x \in Apics
      PROVE  Nested(lapics'[x]) /\ (chosen'[x] # NoVec => Above(lapics'[x], chosen'[x]))
  <2>1. CASE x = c
    BY <1>4, <2>1
  <2>2. CASE x # c
    BY <1>4, <2>2 DEF StackInv
  <2> QED
    BY <2>1, <2>2
<1> QED
  BY <1>3, <1>5 DEF StackInv

LEMMA StackAccept ==
    ASSUME StackInv, NEW c \in Apics, Accept(c)
    PROVE  StackInv'
<1>1. lapics[c] \in Lapic /\ Nested(lapics[c]) /\ Above(lapics[c], chosen[c])
  BY DEF StackInv, Accept
<1>2. IntrAccepted(lapics[c], chosen[c]) \in Lapic /\ Nested(IntrAccepted(lapics[c], chosen[c]))
  BY <1>1, AcceptNests
<1> QED
  BY <1>2, StackOther DEF Accept

LEMMA StackCantInject ==
    ASSUME StackInv, NEW c \in Apics, CantInject(c)
    PROVE  StackInv'
<1>1. lapics[c] \in Lapic /\ Nested(lapics[c]) /\ lapics \in [Apics -> Lapic]
  BY DEF StackInv
<1>2. lapics' = [lapics EXCEPT ![c] = lapics[c]]
  BY <1>1 DEF CantInject
<1> QED
  BY <1>1, <1>2, StackOther DEF CantInject, Update

\* vlapic_process_eoi() by a vcpu that executes guest code
LEMMA StackEoi ==
    ASSUME StackInv, NEW c \in Apics, InGuest(c), lapics[c].isr # {},
           Update(c, ProcessEoi(lapics[c])), chosen' = chosen
    PROVE  StackInv'
<1>1. lapics[c] \in Lapic /\ Nested(lapics[c]) /\ chosen \in [Apics -> Vectors \cup {NoVec}]
  BY DEF StackInv
<1>2. ProcessEoi(lapics[c]) \in Lapic /\ Nested(ProcessEoi(lapics[c]))
  BY <1>1, EoiNests
<1>3. chosen' = [chosen EXCEPT ![c] = NoVec]
  BY <1>1 DEF InGuest
<1> QED
  BY <1>2, <1>3, StackOther

LEMMA StackRegisterWrite ==
    ASSUME StackInv, NEW c \in Apics, RegisterWrite(c)
    PROVE  StackInv'
<1>0. lapics[c] \in Lapic /\ lapics \in [Apics -> Lapic]
  BY DEF StackInv
<1>1. ASSUME NEW t \in Tprs, TprWrite(c, t) PROVE StackInv'
  <2>1. t \in Vectors
    BY ApicAssumption DEF ApicAssumption
  <2> QED
    BY <1>0, <1>1, <2>1, SameSetTpr, StackUpdate DEF TprWrite
<1>2. CASE EoiWrite(c)
  BY <1>2, StackEoi DEF EoiWrite
<1>3. ASSUME NEW e \in LvtNames, NEW r \in LvtChoices, LvtRegWrite(c, e, r) PROVE StackInv'
  <2>1. r \in LvtEntry
    BY ApicAssumption DEF ApicAssumption
  <2> QED
    BY <1>0, <1>3, <2>1, SameLvtWrite, StackUpdate DEF LvtRegWrite
<1>4. CASE EsrRegWrite(c)
  BY <1>0, <1>4, SameEsrWrite, StackUpdate DEF EsrRegWrite
<1>5. CASE SvrWrite(c)
  <2> DEFINE m == [lapics[c] EXCEPT !.enabled = ~@]
  <2>1. SameStack(lapics[c], m)
    BY <1>0, SameSvr
  <2>2. Update(c, m) /\ chosen' = chosen
    BY <1>5 DEF SvrWrite
  <2> HIDE DEF m
  <2> QED
    BY <2>1, <2>2, StackUpdate
<1>6. CASE SvrMask(c)
  BY <1>0, <1>6, SameMaskLvts, StackUpdate DEF SvrMask
<1>7. ASSUME NEW v \in IpiVectors, FixedIpi(c, v) PROVE StackInv'
  <2>1. v \in Vectors /\ chosen' = chosen
    BY <1>7, ApicAssumption DEF ApicAssumption, FixedIpi
  <2>2. CASE Illegal(v)
    BY <1>0, <1>7, <2>1, <2>2, SameSetError, StackUpdate DEF FixedIpi
  <2>3. CASE ~Illegal(v)
    <3>1. PICK D \in IpiTargets(c) : RequestAll(D, v)
      BY <1>7, <2>3 DEF FixedIpi
    <3> QED
      BY <2>1, <3>1, StackRequestAll
  <2> QED
    BY <2>2, <2>3
<1>8. CASE NmiIpi(c)
  BY <1>8 DEF NmiIpi, StackInv
<1>9. ASSUME NEW x \in Apics, InitIpi(c, x) \/ StartupIpi(c, x) PROVE StackInv'
  BY <1>9 DEF InitIpi, StartupIpi, StackInv
<1> QED
  BY <1>1, <1>2, <1>3, <1>4, <1>5, <1>6, <1>7, <1>8, <1>9 DEF RegisterWrite

LEMMA StackRaised ==
    ASSUME StackInv, Raised
    PROVE  StackInv'
<1>0. lapics \in [Apics -> Lapic]
  BY DEF StackInv
<1>1. ASSUME NEW d \in IpiDests, NEW lowprio \in BOOLEAN, NEW v \in IpiVectors,
             MsiIntr(d, lowprio, v)
      PROVE  StackInv'
  <2>1. v \in Vectors /\ chosen' = chosen
    BY <1>1, ApicAssumption DEF ApicAssumption, MsiIntr
  <2> DEFINE D == CalcDest(Apics, ApicCfg, d, lowprio, ClusterBits)
  <2>2. RequestAll(D, v)
    BY <1>1 DEF MsiIntr
  <2> HIDE DEF D
  <2> QED
    BY <2>1, <2>2, StackRequestAll
<1>2. ASSUME NEW c \in Apics, NEW e \in LvtNames, TriggerLvt(c, e) PROVE StackInv'
  <2>1. lapics[c] \in Lapic /\ chosen' = chosen
    BY <1>0, <1>2 DEF TriggerLvt
  <2>2. lapics' = lapics \/ Update(c, FireLvt(lapics[c], e))
    BY <1>2 DEF TriggerLvt
  <2>3. CASE lapics' = lapics
    BY <2>1, <2>3 DEF StackInv
  <2>4. CASE Update(c, FireLvt(lapics[c], e))
    BY <2>1, <2>4, SameFireLvt, StackUpdate
  <2> QED
    BY <2>2, <2>3, <2>4
<1> QED
  BY <1>1, <1>2 DEF Raised

LEMMA StackInit == ApicInit => StackInv
<1> SUFFICES ASSUME ApicInit PROVE StackInv
  OBVIOUS
<1>1. ResetLapic \in Lapic /\ ResetLapic.stk = <<>> /\ ResetLapic.isr = {}
  BY ApicAssumption DEF ApicAssumption, Lapic, ResetLapic, MaskedLvt, LvtEntry, Vectors
<1>2. Nested(ResetLapic)
  BY <1>1 DEF Nested
<1>3. lapics = [c \in Apics |-> ResetLapic] /\ chosen = [c \in Apics |-> NoVec]
  BY DEF ApicInit
<1> QED
  BY <1>1, <1>2, <1>3 DEF StackInv

LEMMA StackNext == StackInv /\ [ApicNext]_apicVars => StackInv'
<1> SUFFICES ASSUME StackInv, [ApicNext]_apicVars PROVE StackInv'
  OBVIOUS
<1>1. CASE UNCHANGED apicVars
  BY <1>1 DEF apicVars, StackInv
<1>2. ASSUME NEW c \in Apics, RegisterWrite(c) PROVE StackInv'
  BY <1>2, StackRegisterWrite
<1>3. ASSUME NEW c \in Apics, VmEntry(c) PROVE StackInv'
  <2>1. ASSUME NEW ev \in {"nmi", "extint"}, InjectEvent(c, ev) PROVE StackInv'
    BY <2>1 DEF InjectEvent, StackInv
  <2> QED
    BY <1>3, <2>1, StackAsk, StackAccept, StackCantInject DEF VmEntry
<1>4. CASE Raised
  BY <1>4, StackRaised
<1> QED
  BY <1>1, <1>2, <1>3, <1>4 DEF ApicNext

LEMMA StackInvOk == StackInv => IsrStackOk
<1> SUFFICES ASSUME StackInv, NEW c \in Apics PROVE StackOk(lapics[c])
  BY DEF IsrStackOk
<1> DEFINE l == lapics[c]
<1>1. l \in Lapic /\ Nested(l)
  BY DEF StackInv
<1> HIDE DEF l
<1>2. l.stk \in Seq(Vectors) /\ Len(l.stk) \in Nat
  BY <1>1, LapicFields
<1>3. ASSUME NEW i \in 1 .. Len(l.stk) - 1 PROVE Prio(l.stk[i]) < Prio(l.stk[i + 1])
  <2>1. i \in 1 .. Len(l.stk) /\ i + 1 \in 1 .. Len(l.stk) /\ i < i + 1
    BY <1>2
  <2> QED
    BY <1>1, <2>1 DEF Nested
<1>4. l.isr = {l.stk[i] : i \in 1 .. Len(l.stk)}
  BY <1>1 DEF Nested
<1> QED
  BY <1>3, <1>4 DEF StackOk, l

\* The panics of vlapic_update_ppr() about the stack of vectors in service are
\* unreachable for any number of vcpus, vectors and priority classes: whatever
\* other threads request between vlapic_pending_intr() and
\* vlapic_intr_accepted(), nested interrupts have increasing priorities and the
\* stack agrees with the ISR.
THEOREM IsrStackOkAlways == ApicSpec => []IsrStackOk
BY StackInit, StackNext, StackInvOk, PTL DEF ApicSpec

----------------------------------------------------------------------------
(* The I/O APIC: types *)

PinTypes ==
    /\ pins \in [Pins -> PinEntry]
    /\ iowr = NoWrite \/ iowr \in [cpu : Apics, pin : Pins, todo : SUBSET Apics]
    /\ eoiing \in [Apics -> Vectors \cup {NoVec}]

\* The fields of an entry that the delivery of an interrupt leaves alone.
SamePin(e, f) ==
    /\ f \in PinEntry
    /\ f.masked = e.masked /\ f.level = e.level /\ f.lowprio = e.lowprio
    /\ f.vec = e.vec /\ f.dest = e.dest /\ f.acnt = e.acnt

\* What vioapic_send_intr() does to an entry e, if it is called for it (b).
SentPin(e, b, f) ==
    /\ SamePin(e, f)
    /\ f.remirr = (e.remirr \/ (b /\ ~e.masked /\ e.level))

\* What a step does to a local APIC apart from its trigger modes: requests.
Requested(l, m) == SameStack(l, m) /\ m.tmr = l.tmr /\ l.irr \subseteq m.irr

LEMMA PinFields ==
    ASSUME NEW e \in PinEntry
    PROVE  /\ e.masked \in BOOLEAN /\ e.level \in BOOLEAN /\ e.lowprio \in BOOLEAN
           /\ e.remirr \in BOOLEAN /\ e.vec \in Vectors /\ e.dest \in PinDests
           /\ e.acnt \in 0 .. MaxAcnt
BY DEF PinEntry

LEMMA RemirrSet ==
    ASSUME NEW e \in PinEntry
    PROVE  /\ [e EXCEPT !.remirr = TRUE] \in PinEntry
           /\ SamePin(e, [e EXCEPT !.remirr = TRUE])
           /\ [e EXCEPT !.remirr = TRUE].remirr = TRUE
BY DEF PinEntry, SamePin

LEMMA RemirrCleared ==
    ASSUME NEW e \in PinEntry
    PROVE  /\ [e EXCEPT !.remirr = FALSE] \in PinEntry
           /\ SamePin(e, [e EXCEPT !.remirr = FALSE])
           /\ [e EXCEPT !.remirr = FALSE].remirr = FALSE
BY DEF PinEntry, SamePin

LEMMA IrrAdded ==
    ASSUME NEW l \in Lapic, NEW W \in SUBSET Vectors
    PROVE  /\ Requested(l, [l EXCEPT !.irr = @ \cup W])
           /\ [l EXCEPT !.irr = @ \cup W].irr = l.irr \cup W
BY DEF Requested, SameStack, Lapic

LEMMA TmrSet ==
    ASSUME NEW l \in Lapic, NEW W \in SUBSET Vectors
    PROVE  /\ SameStack(l, [l EXCEPT !.tmr = W]) /\ [l EXCEPT !.tmr = W].tmr = W
           /\ [l EXCEPT !.tmr = W].irr = l.irr
BY DEF SameStack, Lapic

\* vioapic_send_intr() for the pins P of table t
LEMMA SendPinsOk ==
    ASSUME NEW t \in [Pins -> PinEntry], NEW P \in SUBSET Pins, SendPins(t, P),
           lapics \in [Apics -> Lapic]
    PROVE  /\ pins' \in [Pins -> PinEntry] /\ lapics' \in [Apics -> Lapic]
           /\ \A p \in Pins : SentPin(t[p], p \in P, pins'[p])
           /\ \A c \in Apics : Requested(lapics[c], lapics'[c])
           /\ \A p \in Pins, c \in Apics :
                 p \in P /\ ~t[p].masked /\ c \in DestOf(t[p]) => t[p].vec \in lapics'[c].irr
<1> DEFINE S == Sendable(t, P)
           Want(c) == {t[p].vec : p \in {q \in S : c \in DestOf(t[q])}}
<1>1. pins' = [p \in Pins |-> IF p \in S /\ t[p].level
                              THEN [t[p] EXCEPT !.remirr = TRUE] ELSE t[p]]
  BY DEF SendPins
<1>2. lapics' = [c \in Apics |-> [lapics[c] EXCEPT !.irr = @ \cup Want(c)]]
  BY DEF SendPins
<1>3. \A p \in Pins : t[p] \in PinEntry
  OBVIOUS
<1>4. \A p : p \in S <=> p \in P /\ ~t[p].masked
  BY DEF Sendable
<1> HIDE DEF S
<1>5. ASSUME NEW p \in Pins PROVE SentPin(t[p], p \in P, pins'[p])
  <2> DEFINE e == t[p]
             f == pins'[p]
  <2>1. e \in PinEntry /\ (p \in S <=> p \in P /\ ~e.masked)
    BY <1>3, <1>4
  <2>2. f = IF p \in S /\ e.level THEN [e EXCEPT !.remirr = TRUE] ELSE e
    BY <1>1
  <2> HIDE DEF e, f
  <2>3. e.remirr \in BOOLEAN /\ e.masked \in BOOLEAN /\ e.level \in BOOLEAN
    BY <2>1, PinFields
  <2>4. CASE p \in S /\ e.level
    <3>1. SamePin(e, f) /\ f.remirr = TRUE
      BY <2>1, <2>2, <2>4, RemirrSet
    <3> QED
      BY <2>1, <2>4, <3>1 DEF SentPin, e, f
  <2>5. CASE ~(p \in S /\ e.level)
    <3>1. f = e
      BY <2>2, <2>5
    <3>2. SamePin(e, e)
      BY <2>1 DEF SamePin
    <3>3. e.remirr = (e.remirr \/ (p \in P /\ ~e.masked /\ e.level))
      BY <2>1, <2>3, <2>5
    <3> QED
      BY <3>1, <3>2, <3>3 DEF SentPin, e, f
  <2> QED
    BY <2>4, <2>5
<1>6. pins' \in [Pins -> PinEntry]
  <2>1. \A p \in Pins : pins'[p] \in PinEntry
    BY <1>5 DEF SentPin, SamePin
  <2>2. pins' = [p \in Pins |-> pins'[p]]
    BY <1>1
  <2> QED
    BY <2>1, <2>2
<1>7. ASSUME NEW c \in Apics PROVE lapics'[c].irr = lapics[c].irr \cup Want(c)
                                   /\ Requested(lapics[c], lapics'[c])
  <2>1. Want(c) \in SUBSET Vectors
    <3> SUFFICES ASSUME NEW q \in S, c \in DestOf(t[q]) PROVE t[q].vec \in Vectors
      OBVIOUS
    <3> QED
      BY <1>3, <1>4, PinFields
  <2>2. lapics'[c] = [lapics[c] EXCEPT !.irr = @ \cup Want(c)]
    BY <1>2
  <2> DEFINE W == Want(c)
  <2> HIDE DEF W
  <2> QED
    BY <2>1, <2>2, IrrAdded DEF W
<1>8. ASSUME NEW p \in Pins, NEW c \in Apics, p \in P, ~t[p].masked, c \in DestOf(t[p])
      PROVE  t[p].vec \in lapics'[c].irr
  BY <1>4, <1>7, <1>8
<1>9. lapics' \in [Apics -> Lapic]
  <2>1. \A c \in Apics : lapics'[c] \in Lapic
    BY <1>7 DEF Requested, SameStack
  <2>2. lapics' = [c \in Apics |-> lapics'[c]]
    BY <1>2
  <2> QED
    BY <2>1, <2>2
<1> QED
  BY <1>5, <1>6, <1>7, <1>8, <1>9

----------------------------------------------------------------------------
(* The I/O APIC: trigger modes, and what REM_IRR stands for *)

\* A vcpu that has yet to recompute its trigger modes for a write.
NotYet(c) == iowr # NoWrite /\ c \in iowr.todo

Tmrs == \A c \in Apics : NotYet(c) \/ lapics[c].tmr = UpdatedTmr(c)

LevelOnly == \A p \in Pins : pins[p].remirr => pins[p].level

\* The two halves of LevelNeverLost, for a table t: an asserted pin has REM_IRR
\* set, unless it is one of P or a write w of its entry is in progress.
Asserted(t, w, P) ==
    \A p \in Pins :
        /\ t[p].level /\ ~t[p].masked /\ t[p].acnt > 0
        /\ w # NoWrite => w.pin # p
        => t[p].remirr \/ p \in P

\* REM_IRR stands for an interrupt that a vcpu of the entry's destination has.
Has(l, v) == v \in l.irr \/ v \in l.isr

Tracked(t, ls, eois, excused) ==
    \A p \in Pins : t[p].remirr /\ p \notin excused =>
        \E c \in Apics : c \in DestOf(t[p]) /\ (Has(ls[c], t[p].vec) \/ t[p].vec = eois[c])

IoapicInv ==
    /\ StackInv /\ PinTypes /\ Tmrs /\ LevelOnly
    /\ Asserted(pins, iowr, {})
    /\ Tracked(pins, lapics, eoiing, stale)

LEMMA DestSame ==
    ASSUME NEW e, NEW f, SamePin(e, f)
    PROVE  DestOf(f) = DestOf(e)
BY DEF SamePin, DestOf

LEMMA Reaches ==
    ASSUME NEW e \in PinEntry
    PROVE  \E c \in Apics : c \in DestOf(e)
BY PinFields, IoapicAssumption DEF IoapicAssumption, DestOf

\* An update of the trigger modes depends on three fields of the entries.
LEMMA UpdatedTmrSame ==
    ASSUME NEW c, \A p \in Pins : /\ pins'[p].level = pins[p].level
                                  /\ pins'[p].vec = pins[p].vec
                                  /\ DestOf(pins'[p]) = DestOf(pins[p])
    PROVE  UpdatedTmr(c)' = UpdatedTmr(c)
<1>1. {q \in Pins : pins'[q].level /\ c \in DestOf(pins'[q])}
      = {q \in Pins : pins[q].level /\ c \in DestOf(pins[q])}
  OBVIOUS
<1>2. UpdatedTmr(c)' = {pins'[p].vec :
                          p \in {q \in Pins : pins'[q].level /\ c \in DestOf(pins'[q])}}
  BY DEF UpdatedTmr, DestOf
<1> QED
  BY <1>1, <1>2 DEF UpdatedTmr

LEMMA UpdatedTmrType ==
    ASSUME NEW c, PinTypes
    PROVE  UpdatedTmr(c) \in SUBSET Vectors
BY PinFields DEF UpdatedTmr, PinTypes

\* A delivery of the pins P of a table t that has the asserted pins of t, and
\* the interrupts that REM_IRR of t stands for, preserves the invariant.
LEMMA SendInv ==
    ASSUME StackInv, NEW t \in [Pins -> PinEntry], NEW P \in SUBSET Pins, SendPins(t, P),
           chosen' = chosen, stale' = stale,
           \A p \in Pins : t[p].remirr => t[p].level,
           Asserted(t, iowr', P), Tracked(t, lapics, eoiing', stale)
    PROVE  /\ StackInv' /\ LevelOnly' /\ Asserted(pins, iowr, {})'
           /\ Tracked(pins, lapics, eoiing, stale)'
<1>1. lapics \in [Apics -> Lapic]
  BY DEF StackInv
<1>2. /\ pins' \in [Pins -> PinEntry] /\ lapics' \in [Apics -> Lapic]
      /\ \A p \in Pins : SentPin(t[p], p \in P, pins'[p])
      /\ \A c \in Apics : Requested(lapics[c], lapics'[c])
      /\ \A p \in Pins, c \in Apics :
            p \in P /\ ~t[p].masked /\ c \in DestOf(t[p]) => t[p].vec \in lapics'[c].irr
  BY <1>1, SendPinsOk
<1>3. StackInv'
  BY <1>2, StackFrame DEF Requested
<1>4. \A p \in Pins : /\ t[p] \in PinEntry /\ SamePin(t[p], pins'[p])
                      /\ pins'[p].remirr <=> t[p].remirr \/ (p \in P /\ ~t[p].masked /\ t[p].level)
  BY <1>2 DEF SentPin
<1>5. ASSUME NEW p \in Pins, pins'[p].remirr PROVE pins'[p].level
  <2>1. t[p].level /\ SamePin(t[p], pins'[p])
    BY <1>4, <1>5
  <2> QED
    BY <2>1 DEF SamePin
<1>6. LevelOnly'
  BY <1>5 DEF LevelOnly
<1>7. ASSUME NEW p \in Pins, pins'[p].level, ~pins'[p].masked, pins'[p].acnt > 0,
             iowr' # NoWrite => iowr'.pin # p
      PROVE  pins'[p].remirr
  <2>1. t[p].level /\ ~t[p].masked /\ t[p].acnt > 0
    BY <1>4, <1>7 DEF SamePin
  <2>2. t[p].remirr \/ p \in P
    BY <1>7, <2>1 DEF Asserted
  <2> QED
    BY <1>4, <2>1, <2>2
<1>8. Asserted(pins, iowr, {})'
  BY <1>7 DEF Asserted
<1>9. ASSUME NEW p \in Pins, pins'[p].remirr, p \notin stale
      PROVE  \E c \in Apics : c \in DestOf(pins'[p])
                              /\ (Has(lapics'[c], pins'[p].vec) \/ pins'[p].vec = eoiing'[c])
  <2>1. DestOf(pins'[p]) = DestOf(t[p]) /\ pins'[p].vec = t[p].vec
    BY <1>4, DestSame DEF SamePin
  <2>2. CASE t[p].remirr
    <3>1. PICK c \in Apics : c \in DestOf(t[p])
                             /\ (Has(lapics[c], t[p].vec) \/ t[p].vec = eoiing'[c])
      BY <1>9, <2>2 DEF Tracked
    <3>2. Has(lapics[c], t[p].vec) => Has(lapics'[c], t[p].vec)
      BY <1>2 DEF Has, Requested, SameStack
    <3> QED
      BY <2>1, <3>1, <3>2
  <2>3. CASE ~t[p].remirr
    <3>1. p \in P /\ ~t[p].masked /\ t[p] \in PinEntry
      BY <1>4, <1>9, <2>3
    <3>2. PICK c \in Apics : c \in DestOf(t[p])
      BY <3>1, Reaches
    <3>3. t[p].vec \in lapics'[c].irr
      BY <1>2, <3>1, <3>2
    <3> QED
      BY <2>1, <3>2, <3>3 DEF Has
  <2> QED
    BY <2>2, <2>3
<1>10. Tracked(pins, lapics, eoiing, stale)'
  <2>1. \A p \in Pins : pins'[p].remirr /\ p \notin stale' =>
          \E c \in Apics : c \in DestOf(pins'[p])
                           /\ (Has(lapics'[c], pins'[p].vec) \/ pins'[p].vec = eoiing'[c])
    BY <1>9
  <2> QED
    BY <2>1 DEF Tracked, DestOf, Has
<1> QED
  BY <1>3, <1>6, <1>8, <1>10

\* The same for the trigger modes, if the entries keep the fields they depend on.
LEMMA SendTmrs ==
    ASSUME StackInv, NEW t \in [Pins -> PinEntry], NEW P \in SUBSET Pins, SendPins(t, P),
           \A p \in Pins : /\ t[p].level = pins[p].level /\ t[p].vec = pins[p].vec
                           /\ DestOf(t[p]) = DestOf(pins[p]),
           Tmrs, \A c \in Apics : NotYet(c) => NotYet(c)'
    PROVE  Tmrs' /\ pins' \in [Pins -> PinEntry]
<1>1. lapics \in [Apics -> Lapic]
  BY DEF StackInv
<1>2. /\ pins' \in [Pins -> PinEntry]
      /\ \A p \in Pins : SentPin(t[p], p \in P, pins'[p])
      /\ \A c \in Apics : Requested(lapics[c], lapics'[c])
  BY <1>1, SendPinsOk
<1>3. \A p \in Pins : SamePin(t[p], pins'[p])
  BY <1>2 DEF SentPin
<1>4. \A p \in Pins : /\ pins'[p].level = pins[p].level /\ pins'[p].vec = pins[p].vec
                      /\ DestOf(pins'[p]) = DestOf(pins[p])
  BY <1>3, DestSame DEF SamePin
<1>5. ASSUME NEW c \in Apics, ~NotYet(c)' PROVE lapics'[c].tmr = UpdatedTmr(c)'
  <2>1. lapics[c].tmr = UpdatedTmr(c)
    BY <1>5 DEF Tmrs
  <2>2. UpdatedTmr(c)' = UpdatedTmr(c)
    BY <1>4, UpdatedTmrSame
  <2>3. lapics'[c].tmr = lapics[c].tmr
    BY <1>2 DEF Requested
  <2> QED
    BY <2>1, <2>2, <2>3
<1>6. Tmrs'
  BY <1>5 DEF Tmrs
<1> QED
  BY <1>2, <1>6

----------------------------------------------------------------------------
(* The I/O APIC: pins *)

\* Entries that interrupt in the same way.
SameAim(e, f) ==
    /\ f \in PinEntry /\ f.remirr = e.remirr /\ f.level = e.level /\ f.vec = e.vec
    /\ DestOf(f) = DestOf(e)

LEMMA AcntSet ==
    ASSUME NEW e \in PinEntry, NEW n \in 0 .. MaxAcnt
    PROVE  LET f == [e EXCEPT !.acnt = n]
           IN  SameAim(e, f) /\ f.masked = e.masked /\ f.acnt = n
<1> DEFINE f == [e EXCEPT !.acnt = n]
<1>1. /\ f \in PinEntry /\ f.remirr = e.remirr /\ f.level = e.level /\ f.vec = e.vec
      /\ f.dest = e.dest /\ f.lowprio = e.lowprio /\ f.masked = e.masked /\ f.acnt = n
  BY DEF PinEntry
<1> HIDE DEF f
<1> QED
  BY <1>1 DEF SameAim, DestOf, f

LEMMA TrackedAim ==
    ASSUME NEW t, NEW u, NEW ls, NEW eois, NEW S, Tracked(t, ls, eois, S),
           \A p \in Pins : SameAim(t[p], u[p])
    PROVE  Tracked(u, ls, eois, S)
BY DEF Tracked, SameAim

\* A delivery that changes neither the aim of an entry nor the writes and EOIs
\* in progress.
LEMMA SendAim ==
    ASSUME IoapicInv, NEW t \in [Pins -> PinEntry], NEW P \in SUBSET Pins, SendPins(t, P),
           \A p \in Pins : SameAim(pins[p], t[p]), Asserted(t, iowr', P),
           UNCHANGED <<chosen, stale, eoiing>>,
           iowr' = iowr \/ (iowr' = NoWrite /\ \A c \in Apics : ~NotYet(c))
    PROVE  IoapicInv'
<1>1. StackInv /\ PinTypes /\ Tmrs /\ LevelOnly /\ Tracked(pins, lapics, eoiing, stale)
  BY DEF IoapicInv
<1>2. Tracked(t, lapics, eoiing', stale)
  BY <1>1, TrackedAim
<1>3. \A p \in Pins : t[p].remirr => t[p].level
  BY <1>1 DEF LevelOnly, SameAim
<1>4. StackInv' /\ LevelOnly' /\ Asserted(pins, iowr, {})'
      /\ Tracked(pins, lapics, eoiing, stale)'
  BY <1>1, <1>2, <1>3, SendInv
<1>5. \A c \in Apics : NotYet(c) => NotYet(c)'
  BY DEF NotYet
<1>6. \A p \in Pins : /\ t[p].level = pins[p].level /\ t[p].vec = pins[p].vec
                      /\ DestOf(t[p]) = DestOf(pins[p])
  BY DEF SameAim
<1>7. Tmrs' /\ pins' \in [Pins -> PinEntry]
  BY <1>1, <1>5, <1>6, SendTmrs
<1>8. PinTypes'
  BY <1>1, <1>7 DEF PinTypes
<1> QED
  BY <1>4, <1>7, <1>8 DEF IoapicInv

LEMMA SetPinInv ==
    ASSUME IoapicInv, NEW p \in Pins, NEW n \in 0 .. MaxAcnt, SetPin(p, n),
           pins[p].acnt = 0 /\ n > 0 => n = 1,
           UNCHANGED <<chosen, stale, eoiing, iowr>>
    PROVE  IoapicInv'
<1> DEFINE t == [pins EXCEPT ![p].acnt = n]
           P == IF pins[p].acnt = 0 /\ n = 1 THEN {p} ELSE {}
           f == [pins[p] EXCEPT !.acnt = n]
<1>1. pins \in [Pins -> PinEntry] /\ pins[p] \in PinEntry
  BY DEF IoapicInv, PinTypes
<1>2. SameAim(pins[p], f) /\ f.masked = pins[p].masked /\ f.acnt = n
  BY <1>1, AcntSet
<1>3. t = [pins EXCEPT ![p] = f]
  BY <1>1
<1>4. SendPins(t, P)
  BY DEF SetPin
<1>5. P \in SUBSET Pins
  OBVIOUS
<1> HIDE DEF t, f
<1>6. t \in [Pins -> PinEntry] /\ \A q \in Pins : t[q] = IF q = p THEN f ELSE pins[q]
  BY <1>1, <1>2, <1>3 DEF SameAim
<1>7. ASSUME NEW q \in Pins PROVE SameAim(pins[q], t[q])
  <2>1. SameAim(pins[q], pins[q])
    BY <1>1 DEF SameAim
  <2> QED
    BY <1>2, <1>6, <2>1
<1>8. ASSUME NEW q \in Pins, t[q].level, ~t[q].masked, t[q].acnt > 0,
             iowr # NoWrite => iowr.pin # q
      PROVE  t[q].remirr \/ q \in P
  <2>1. Asserted(pins, iowr, {})
    BY DEF IoapicInv
  <2>2. CASE q = p
    <3>1. pins[p].level /\ ~pins[p].masked /\ n > 0 /\ t[q].remirr = pins[p].remirr
      BY <1>2, <1>6, <1>8, <2>2 DEF SameAim
    <3>2. pins[p].acnt \in 0 .. MaxAcnt
      BY <1>1, PinFields
    <3>3. CASE pins[p].acnt = 0
      BY <2>2, <3>1, <3>3
    <3>4. CASE pins[p].acnt # 0
      <4>1. pins[p].acnt > 0
        BY <3>2, <3>4, IoapicAssumption DEF IoapicAssumption
      <4> QED
        BY <1>8, <2>1, <2>2, <3>1, <4>1 DEF Asserted
    <3> QED
      BY <3>3, <3>4
  <2>3. CASE q # p
    BY <1>6, <1>8, <2>1, <2>3 DEF Asserted
  <2> QED
    BY <2>2, <2>3
<1> HIDE DEF P
<1>9. Asserted(t, iowr', P)
  BY <1>8 DEF Asserted
<1> QED
  BY <1>4, <1>5, <1>6, <1>7, <1>9, SendAim

LEMMA PinEventInv ==
    ASSUME IoapicInv, PinEvent
    PROVE  IoapicInv'
<1>1. PICK p \in Pins : AssertIrq(p) \/ DeassertIrq(p) \/ PulseIrq(p)
  BY DEF PinEvent
<1>2. pins \in [Pins -> PinEntry] /\ pins[p].acnt \in 0 .. MaxAcnt /\ MaxAcnt \in Nat
  BY PinFields, IoapicAssumption DEF IoapicAssumption, IoapicInv, PinTypes
<1>3. CASE AssertIrq(p)
  <2>1. SetPin(p, pins[p].acnt + 1) /\ UNCHANGED <<chosen, stale, eoiing, iowr>>
        /\ pins[p].acnt < MaxAcnt
    BY <1>3 DEF AssertIrq
  <2>2. pins[p].acnt + 1 \in 0 .. MaxAcnt /\ (pins[p].acnt = 0 => pins[p].acnt + 1 = 1)
    BY <1>2, <2>1
  <2> QED
    BY <2>1, <2>2, SetPinInv
<1>4. CASE DeassertIrq(p)
  <2>1. SetPin(p, pins[p].acnt - 1) /\ UNCHANGED <<chosen, stale, eoiing, iowr>>
        /\ pins[p].acnt > 0
    BY <1>4 DEF DeassertIrq
  <2>2. pins[p].acnt - 1 \in 0 .. MaxAcnt /\ pins[p].acnt # 0
    BY <1>2, <2>1
  <2> QED
    BY <2>1, <2>2, SetPinInv
<1>5. CASE PulseIrq(p)
  <2> DEFINE P == IF pins[p].acnt = 0 THEN {p} ELSE {}
  <2>1. SendPins(pins, P) /\ UNCHANGED <<chosen, stale, eoiing, iowr>>
    BY <1>5 DEF PulseIrq
  <2>2. P \in SUBSET Pins
    OBVIOUS
  <2> HIDE DEF P
  <2>3. Asserted(pins, iowr', P)
    BY <2>1 DEF IoapicInv, Asserted
  <2>4. \A q \in Pins : SameAim(pins[q], pins[q])
    BY <1>2 DEF SameAim
  <2> QED
    BY <1>2, <2>1, <2>2, <2>3, <2>4, SendAim
<1> QED
  BY <1>1, <1>3, <1>4, <1>5

----------------------------------------------------------------------------
(* The I/O APIC: redirection table writes *)

\* What a guest's write may change.
LEMMA GuestWriteFacts ==
    ASSUME NEW p \in Pins, pins[p] \in PinEntry, NEW e \in GuestWrites(p)
    PROVE  /\ e \in PinEntry /\ e.remirr = pins[p].remirr
           /\ e = [pins[p] EXCEPT !.masked = e.masked] \/ ~pins[p].remirr
<1> DEFINE o == pins[p]
<1>1. o.masked \in BOOLEAN /\ o \in PinEntry
  BY PinFields
<1> HIDE DEF o
<1>2. CASE e = [o EXCEPT !.masked = ~@]
  <2>1. e \in PinEntry /\ e.remirr = o.remirr /\ e.masked = ~o.masked
    BY <1>1, <1>2 DEF PinEntry
  <2> QED
    BY <1>2, <2>1 DEF o
<1>3. CASE ~o.remirr /\ e \in LowHalf(o)
  <2> DEFINE f(m, l, v) == [o EXCEPT !.masked = m, !.level = l, !.vec = v]
  <2>1. ASSUME NEW m \in BOOLEAN, NEW l \in BOOLEAN, NEW v \in PinVectors
        PROVE  f(m, l, v) \in PinEntry /\ f(m, l, v).remirr = o.remirr
    <3>1. v \in Vectors
      BY IoapicAssumption DEF IoapicAssumption
    <3> QED
      BY <1>1, <3>1 DEF PinEntry
  <2>2. LowHalf(o) = {f(m, l, v) : m, l \in BOOLEAN, v \in PinVectors}
    BY DEF LowHalf
  <2> HIDE DEF f
  <2>3. \E m, l \in BOOLEAN, v \in PinVectors : e = f(m, l, v)
    BY <1>3, <2>2
  <2>4. e \in PinEntry /\ e.remirr = o.remirr
    BY <2>1, <2>3
  <2> QED
    BY <1>3, <2>4 DEF o
<1>4. CASE ~o.remirr /\ e \in HighHalf(o)
  <2>1. PICK d \in PinDests : e = [o EXCEPT !.dest = d]
    BY <1>4 DEF HighHalf
  <2>2. e \in PinEntry /\ e.remirr = o.remirr
    BY <1>1, <2>1 DEF PinEntry
  <2> QED
    BY <1>4, <2>2 DEF o
<1>5. e = [o EXCEPT !.masked = ~@] \/ (~o.remirr /\ (e \in LowHalf(o) \/ e \in HighHalf(o)))
  BY DEF GuestWrites, o
<1> QED
  BY <1>2, <1>3, <1>4, <1>5

LEMMA MaskAim ==
    ASSUME NEW o \in PinEntry, NEW e \in PinEntry, e = [o EXCEPT !.masked = e.masked]
    PROVE  SameAim(o, e) /\ e.acnt = o.acnt
<1>1. e.masked \in BOOLEAN
  BY PinFields
<1>2. /\ e.remirr = o.remirr /\ e.level = o.level /\ e.vec = o.vec
      /\ e.dest = o.dest /\ e.lowprio = o.lowprio /\ e.acnt = o.acnt
  BY <1>1 DEF PinEntry
<1> QED
  BY <1>2 DEF SameAim, DestOf

\* The interrupt at the end of a write makes up for the asserted pin.
LEMMA SendAtWriteInv ==
    ASSUME IoapicInv, NEW t \in [Pins -> PinEntry], NEW p \in Pins, SendAtWrite(t, p),
           \A q \in Pins : SameAim(pins[q], t[q]) /\ (q # p => t[q] = pins[q]),
           UNCHANGED <<chosen, stale, eoiing>>,
           iowr' = iowr \/ (iowr' = NoWrite /\ iowr.pin = p /\ \A c \in Apics : ~NotYet(c))
    PROVE  IoapicInv'
<1> DEFINE P == IF ~t[p].remirr /\ t[p].acnt > 0 THEN {p} ELSE {}
<1>1. SendPins(t, P) /\ P \in SUBSET Pins
  BY DEF SendAtWrite
<1>2. ASSUME NEW q \in Pins, t[q].level, ~t[q].masked, t[q].acnt > 0,
             iowr' # NoWrite => iowr'.pin # q
      PROVE  t[q].remirr \/ q \in P
  <2>1. CASE q = p
    BY <1>2, <2>1
  <2>2. CASE q # p
    <3>1. iowr # NoWrite => iowr.pin # q
      BY <1>2, <2>2
    <3>2. t[q] = pins[q] /\ Asserted(pins, iowr, {})
      BY <2>2 DEF IoapicInv
    <3> QED
      BY <1>2, <3>1, <3>2 DEF Asserted
  <2> QED
    BY <2>1, <2>2
<1> HIDE DEF P
<1>3. Asserted(t, iowr', P)
  BY <1>2 DEF Asserted
<1>4. \A q \in Pins : SameAim(pins[q], t[q])
  OBVIOUS
<1> QED
  BY <1>1, <1>3, <1>4, SendAim

LEMMA EntryWriteInv ==
    ASSUME IoapicInv, NEW c \in Apics, NEW p \in Pins, NEW e \in GuestWrites(p),
           EntryWrite(c, p, e)
    PROVE  IoapicInv'
<1> DEFINE t == [pins EXCEPT ![p] = e]
<1>1. /\ pins \in [Pins -> PinEntry] /\ pins[p] \in PinEntry
      /\ iowr = NoWrite /\ UNCHANGED <<chosen, stale, eoiing>>
  BY DEF IoapicInv, PinTypes, EntryWrite
<1>2. /\ e \in PinEntry /\ e.remirr = pins[p].remirr
      /\ e = [pins[p] EXCEPT !.masked = e.masked] \/ ~pins[p].remirr
  BY <1>1, GuestWriteFacts
<1>3. t \in [Pins -> PinEntry] /\ \A q \in Pins : t[q] = IF q = p THEN e ELSE pins[q]
  BY <1>1, <1>2
<1>4. CASE e = [pins[p] EXCEPT !.masked = e.masked]
  <2>1. SendAtWrite(t, p) /\ iowr' = iowr
    BY <1>4 DEF EntryWrite
  <2>2. SameAim(pins[p], e)
    BY <1>1, <1>2, <1>4, MaskAim
  <2> HIDE DEF t
  <2>3. ASSUME NEW q \in Pins PROVE SameAim(pins[q], t[q]) /\ (q # p => t[q] = pins[q])
    <3>1. SameAim(pins[q], pins[q])
      BY <1>1 DEF SameAim
    <3> QED
      BY <1>3, <2>2, <3>1
  <2> QED
    BY <1>1, <1>3, <2>1, <2>3, SendAtWriteInv
<1>5. CASE e # [pins[p] EXCEPT !.masked = e.masked]
  <2>1. /\ pins' = t /\ iowr' = [cpu |-> c, pin |-> p, todo |-> Apics]
        /\ lapics' = lapics
    BY <1>5 DEF EntryWrite
  <2>2. ~pins[p].remirr /\ ~e.remirr
    BY <1>2, <1>5
  <2>3. iowr' # NoWrite /\ iowr'.pin = p /\ iowr'.todo = Apics
        /\ iowr' \in [cpu : Apics, pin : Pins, todo : SUBSET Apics]
    <3>1. c # -1
      BY ApicAssumption DEF ApicAssumption
    <3>2. iowr'.cpu = c /\ NoWrite.cpu = -1
      BY <2>1 DEF NoWrite
    <3> QED
      BY <2>1, <3>1, <3>2
  <2> HIDE DEF t
  <2>4. StackInv'
    BY <1>1, <2>1 DEF IoapicInv, StackInv
  <2>5. PinTypes'
    BY <1>1, <1>3, <2>1, <2>3 DEF IoapicInv, PinTypes
  <2>6. Tmrs'
    BY <2>3 DEF Tmrs, NotYet
  <2>7. LevelOnly'
    BY <1>3, <2>1, <2>2 DEF IoapicInv, LevelOnly
  <2>8. Asserted(pins, iowr, {})'
    <3>1. ASSUME NEW q \in Pins, t[q].level, ~t[q].masked, t[q].acnt > 0, iowr'.pin # q
          PROVE  t[q].remirr
      <4>1. t[q] = pins[q]
        BY <1>3, <2>3, <3>1
      <4>2. Asserted(pins, iowr, {})
        BY DEF IoapicInv
      <4> QED
        BY <1>1, <3>1, <4>1, <4>2 DEF Asserted
    <3> QED
      BY <2>1, <2>3, <3>1 DEF Asserted
  <2>9. Tracked(pins, lapics, eoiing, stale)'
    <3>1. ASSUME NEW q \in Pins, t[q].remirr, q \notin stale
          PROVE  \E x \in Apics : x \in DestOf(t[q])
                                  /\ (Has(lapics[x], t[q].vec) \/ t[q].vec = eoiing[x])
      <4>1. t[q] = pins[q]
        BY <1>3, <2>2, <3>1
      <4>2. Tracked(pins, lapics, eoiing, stale)
        BY DEF IoapicInv
      <4> QED
        BY <3>1, <4>1, <4>2 DEF Tracked
    <3>2. Tracked(t, lapics, eoiing, stale)
      BY <3>1 DEF Tracked
    <3> QED
      BY <1>1, <2>1, <3>2 DEF Tracked, Has, DestOf
  <2> QED
    BY <2>4, <2>5, <2>6, <2>7, <2>8, <2>9 DEF IoapicInv
<1> QED
  BY <1>4, <1>5

LEMMA EndWriteInv ==
    ASSUME IoapicInv, EndWrite
    PROVE  IoapicInv'
<1>1. /\ pins \in [Pins -> PinEntry] /\ iowr # NoWrite /\ iowr.todo = {}
      /\ SendAtWrite(pins, iowr.pin) /\ iowr' = NoWrite
      /\ UNCHANGED <<chosen, stale, eoiing>>
  BY DEF IoapicInv, PinTypes, EndWrite
<1>2. iowr.pin \in Pins
  BY <1>1 DEF IoapicInv, PinTypes
<1>3. \A c \in Apics : ~NotYet(c)
  BY <1>1 DEF NotYet
<1>4. \A q \in Pins : SameAim(pins[q], pins[q])
  BY <1>1 DEF SameAim
<1> QED
  BY <1>1, <1>2, <1>3, <1>4, SendAtWriteInv

LEMMA UpdateTmrInv ==
    ASSUME IoapicInv, NEW c \in Apics, UpdateTmr(c)
    PROVE  IoapicInv'
<1> DEFINE T == UpdatedTmr(c)
           m == [lapics[c] EXCEPT !.tmr = T]
<1>1. StackInv /\ PinTypes /\ Tmrs /\ LevelOnly /\ Asserted(pins, iowr, {})
      /\ Tracked(pins, lapics, eoiing, stale) /\ lapics \in [Apics -> Lapic]
  BY DEF IoapicInv, StackInv
<1>2. /\ Update(c, m) /\ iowr # NoWrite /\ iowr' = [iowr EXCEPT !.todo = @ \ {c}]
      /\ UNCHANGED <<pins, eoiing, stale, chosen>>
  BY DEF UpdateTmr
<1>3. T \in SUBSET Vectors
  BY <1>1, UpdatedTmrType
<1>4. T = UpdatedTmr(c)'
  BY <1>2 DEF UpdatedTmr, DestOf
<1>5. lapics[c] \in Lapic
  BY <1>1
<1> HIDE DEF T
<1>6. SameStack(lapics[c], m) /\ m.tmr = T /\ m.irr = lapics[c].irr
  BY <1>3, <1>5, TmrSet
<1> HIDE DEF m
<1>7. StackInv'
  BY <1>1, <1>2, <1>6, StackUpdate
<1>8. lapics'[c] = m /\ \A x \in Apics \ {c} : lapics'[x] = lapics[x]
  BY <1>1, <1>2 DEF Update
<1>9. iowr \in [cpu : Apics, pin : Pins, todo : SUBSET Apics]
  BY <1>1, <1>2 DEF PinTypes
<1>10. /\ iowr' \in [cpu : Apics, pin : Pins, todo : SUBSET Apics]
       /\ iowr'.pin = iowr.pin /\ iowr'.todo = iowr.todo \ {c} /\ iowr'.cpu = iowr.cpu
  BY <1>2, <1>9
<1>11. iowr' # NoWrite
  <2>1. iowr'.cpu \in Nat
    BY <1>10, ApicAssumption DEF ApicAssumption
  <2>2. NoWrite.cpu = -1
    BY DEF NoWrite
  <2> QED
    BY <2>1, <2>2
<1>12. PinTypes'
  BY <1>1, <1>2, <1>10 DEF PinTypes
<1>13. Tmrs'
  <2>1. ASSUME NEW x \in Apics PROVE NotYet(x)' \/ lapics'[x].tmr = UpdatedTmr(x)'
    <3>1. CASE x = c
      BY <1>4, <1>6, <1>8, <3>1
    <3>2. CASE x # c
      <4>1. UpdatedTmr(x)' = UpdatedTmr(x) /\ lapics'[x] = lapics[x]
        BY <1>2, <1>8, <3>2 DEF UpdatedTmr, DestOf
      <4>2. NotYet(x) => NotYet(x)'
        BY <1>10, <1>11, <3>2 DEF NotYet
      <4> QED
        BY <1>1, <4>1, <4>2 DEF Tmrs
    <3> QED
      BY <3>1, <3>2
  <2> QED
    BY <2>1 DEF Tmrs
<1>14. LevelOnly'
  BY <1>1, <1>2 DEF LevelOnly
<1>15. Asserted(pins, iowr, {})'
  BY <1>1, <1>2, <1>10, <1>11 DEF Asserted
<1>16. Tracked(pins, lapics, eoiing, stale)'
  <2>1. ASSUME NEW x \in Apics, NEW v, Has(lapics[x], v) PROVE Has(lapics'[x], v)
    BY <1>6, <1>8, <2>1 DEF Has, SameStack
  <2>2. Tracked(pins, lapics', eoiing, stale)
    BY <1>1, <2>1 DEF Tracked
  <2> QED
    BY <1>2, <2>2 DEF Tracked, DestOf, Has
<1> QED
  BY <1>7, <1>12, <1>13, <1>14, <1>15, <1>16 DEF IoapicInv

----------------------------------------------------------------------------
(* The I/O APIC: ends of interrupts, and injection *)

\* vioapic_process_eoi(): REM_IRR is taken from the pins of the vector, and set
\* again in those that are still asserted.
LEMMA IoapicEoiInv ==
    ASSUME IoapicInv, NEW c \in Apics, IoapicEoi(c)
    PROVE  IoapicInv'
<1> DEFINE v == eoiing[c]
           P == {p \in Pins : pins[p].remirr /\ pins[p].vec = v}
           t == [p \in Pins |-> IF p \in P THEN [pins[p] EXCEPT !.remirr = FALSE] ELSE pins[p]]
           R == {p \in P : pins[p].acnt > 0}
<1>1. StackInv /\ PinTypes /\ Tmrs /\ LevelOnly /\ Asserted(pins, iowr, {})
      /\ Tracked(pins, lapics, eoiing, stale)
  BY DEF IoapicInv
<1>2. /\ pins \in [Pins -> PinEntry] /\ eoiing \in [Apics -> Vectors \cup {NoVec}]
      /\ \A p \in Pins : pins[p] \in PinEntry
  BY <1>1 DEF PinTypes
<1>3. /\ SendPins(t, R) /\ eoiing' = [eoiing EXCEPT ![c] = NoVec]
      /\ UNCHANGED <<iowr, stale, chosen>>
  BY DEF IoapicEoi
<1>4. R \in SUBSET Pins /\ \A p \in Pins : p \in R <=> p \in P /\ pins[p].acnt > 0
  OBVIOUS
<1>5. \A p \in Pins : p \in P <=> pins[p].remirr /\ pins[p].vec = v
  OBVIOUS
<1>6. \A p \in Pins : t[p] = IF p \in P THEN [pins[p] EXCEPT !.remirr = FALSE] ELSE pins[p]
  OBVIOUS
<1>7. t = [p \in Pins |-> t[p]]
  OBVIOUS
<1> HIDE DEF P, R, t, v
<1>8. ASSUME NEW p \in Pins
      PROVE  SamePin(pins[p], t[p]) /\ (t[p].remirr => pins[p].remirr /\ p \notin P)
  <2>1. pins[p] \in PinEntry
    BY <1>2
  <2>2. CASE p \in P
    <3>1. t[p] = [pins[p] EXCEPT !.remirr = FALSE]
      BY <1>6, <2>2
    <3>2. SamePin(pins[p], t[p]) /\ t[p].remirr = FALSE
      BY <2>1, <3>1, RemirrCleared
    <3> QED
      BY <3>2
  <2>3. CASE p \notin P
    <3>1. t[p] = pins[p]
      BY <1>6, <2>3
    <3>2. SamePin(pins[p], pins[p])
      BY <2>1 DEF SamePin
    <3> QED
      BY <2>3, <3>1, <3>2
  <2> QED
    BY <2>2, <2>3
<1>9. t \in [Pins -> PinEntry]
  BY <1>7, <1>8 DEF SamePin
<1>10. \A p \in Pins : /\ t[p].level = pins[p].level /\ t[p].vec = pins[p].vec
                       /\ DestOf(t[p]) = DestOf(pins[p])
  BY <1>8, DestSame DEF SamePin
<1>11. \A p \in Pins : t[p].remirr => t[p].level
  BY <1>1, <1>8, <1>10 DEF LevelOnly
<1>12. ASSUME NEW p \in Pins, t[p].level, ~t[p].masked, t[p].acnt > 0,
              iowr' # NoWrite => iowr'.pin # p
       PROVE  t[p].remirr \/ p \in R
  <2>1. pins[p].level /\ ~pins[p].masked /\ pins[p].acnt > 0
    BY <1>8, <1>12 DEF SamePin
  <2>2. pins[p].remirr
    BY <1>1, <1>3, <1>12, <2>1 DEF Asserted
  <2>3. p \notin P => t[p] = pins[p]
    BY <1>6
  <2> QED
    BY <1>4, <2>1, <2>2, <2>3
<1>13. Asserted(t, iowr', R)
  BY <1>12 DEF Asserted
<1>14. ASSUME NEW p \in Pins, t[p].remirr, p \notin stale
       PROVE  \E x \in Apics : x \in DestOf(t[p])
                               /\ (Has(lapics[x], t[p].vec) \/ t[p].vec = eoiing'[x])
  <2>1. pins[p].remirr /\ pins[p].vec # eoiing[c]
    BY <1>5, <1>8, <1>14 DEF v
  <2>2. PICK x \in Apics : x \in DestOf(pins[p])
                           /\ (Has(lapics[x], pins[p].vec) \/ pins[p].vec = eoiing[x])
    BY <1>1, <1>14, <2>1 DEF Tracked
  <2>3. x # c => eoiing'[x] = eoiing[x]
    BY <1>2, <1>3
  <2> QED
    BY <1>10, <2>1, <2>2, <2>3
<1>15. Tracked(t, lapics, eoiing', stale)
  BY <1>14 DEF Tracked
<1>16. StackInv' /\ LevelOnly' /\ Asserted(pins, iowr, {})'
      /\ Tracked(pins, lapics, eoiing, stale)'
  BY <1>1, <1>3, <1>4, <1>9, <1>11, <1>13, <1>15, SendInv
<1>17. \A x \in Apics : NotYet(x) => NotYet(x)'
  BY <1>3 DEF NotYet
<1>18. Tmrs' /\ pins' \in [Pins -> PinEntry]
  BY <1>1, <1>3, <1>4, <1>9, <1>10, <1>17, SendTmrs
<1>19. PinTypes'
  BY <1>1, <1>2, <1>3, <1>18 DEF PinTypes
<1> QED
  BY <1>16, <1>18, <1>19 DEF IoapicInv

\* A step of local APICs alone: the pins, the writes and the trigger modes stay.
LEMMA LapicOnlyInv ==
    ASSUME IoapicInv, StackInv', UNCHANGED <<pins, iowr>>,
           \A c \in Apics : lapics'[c].tmr = lapics[c].tmr,
           eoiing' \in [Apics -> Vectors \cup {NoVec}],
           Tracked(pins, lapics', eoiing', stale')
    PROVE  IoapicInv'
<1>1. PinTypes /\ Tmrs /\ LevelOnly /\ Asserted(pins, iowr, {})
  BY DEF IoapicInv
<1>2. PinTypes'
  BY <1>1 DEF PinTypes
<1>3. Tmrs'
  <2>1. \A c \in Apics : UpdatedTmr(c)' = UpdatedTmr(c) /\ (NotYet(c)' <=> NotYet(c))
    BY DEF UpdatedTmr, DestOf, NotYet
  <2> QED
    BY <1>1, <2>1 DEF Tmrs
<1>4. LevelOnly'
  BY <1>1 DEF LevelOnly
<1>5. Asserted(pins, iowr, {})'
  BY <1>1 DEF Asserted
<1>6. Tracked(pins, lapics, eoiing, stale)'
  BY DEF Tracked, DestOf, Has
<1> QED
  BY <1>2, <1>3, <1>4, <1>5, <1>6 DEF IoapicInv

\* Injection keeps a vector in the IRR or the ISR.
LEMMA InjectInv ==
    ASSUME IoapicInv, NEW c \in Apics, Inject(c) \/ Inject2(c)
    PROVE  IoapicInv'
<1>1. StackInv /\ PinTypes /\ Tracked(pins, lapics, eoiing, stale)
      /\ lapics \in [Apics -> Lapic] /\ lapics[c] \in Lapic
      /\ chosen \in [Apics -> Vectors \cup {NoVec}]
  BY DEF IoapicInv, StackInv
<1>2. UNCHANGED <<pins, iowr, eoiing, stale>>
  BY DEF Inject, Inject2, ioapicVars
<1>3. StackInv'
  BY <1>1, StackAsk, StackAccept, StackCantInject DEF Inject, Inject2
<1>4. \A x \in Apics : /\ lapics'[x].tmr = lapics[x].tmr
                       /\ \A v : Has(lapics[x], v) => Has(lapics'[x], v)
  <2>1. CASE AskPending(c)
    <3> DEFINE m == UpdatePpr(lapics[c])
    <3>1. SameStack(lapics[c], m) /\ m.irr = lapics[c].irr /\ m.tmr = lapics[c].tmr
      BY <1>1, UpdatePprOk
    <3>2. lapics' = [lapics EXCEPT ![c] = m]
      BY <2>1 DEF AskPending, Update
    <3> HIDE DEF m
    <3>3. lapics'[c] = m /\ \A x \in Apics \ {c} : lapics'[x] = lapics[x]
      BY <1>1, <3>2
    <3> QED
      BY <3>1, <3>3 DEF Has, SameStack
  <2>2. CASE Accept(c)
    <3> DEFINE m == IntrAccepted(lapics[c], chosen[c])
    <3>0. chosen[c] \in Vectors
      BY <1>1, <2>2 DEF Accept
    <3>1. /\ m.irr = lapics[c].irr \ {chosen[c]} /\ m.isr = lapics[c].isr \cup {chosen[c]}
          /\ m.tmr = lapics[c].tmr
      BY <1>1 DEF IntrAccepted, Lapic
    <3>2. lapics' = [lapics EXCEPT ![c] = m]
      BY <2>2 DEF Accept, Update
    <3> HIDE DEF m
    <3>3. lapics'[c] = m /\ \A x \in Apics \ {c} : lapics'[x] = lapics[x]
      BY <1>1, <3>2
    <3> QED
      BY <3>1, <3>3 DEF Has
  <2>3. CASE CantInject(c)
    BY <2>3 DEF CantInject
  <2> QED
    BY <2>1, <2>2, <2>3 DEF Inject, Inject2
<1>5. Tracked(pins, lapics', eoiing', stale')
  BY <1>1, <1>2, <1>4 DEF Tracked
<1>6. eoiing' \in [Apics -> Vectors \cup {NoVec}]
  BY <1>1, <1>2 DEF PinTypes
<1> QED
  BY <1>2, <1>3, <1>4, <1>5, <1>6, LapicOnlyInv

\* The EOI of a vector that the trigger modes know as level-triggered is on
\* its way; any other leaves the pins that wait for it stale.
LEMMA EoiInv ==
    ASSUME IoapicInv, NEW c \in Apics, Eoi(c)
    PROVE  IoapicInv'
<1> DEFINE l == lapics[c]
           v == Top(l.isr)
           m == ProcessEoi(l)
           S == {p \in Pins : pins[p].remirr /\ pins[p].vec = v /\ c \in DestOf(pins[p])}
<1>1. StackInv /\ PinTypes /\ Tracked(pins, lapics, eoiing, stale)
      /\ lapics \in [Apics -> Lapic] /\ l \in Lapic /\ Nested(l)
      /\ eoiing \in [Apics -> Vectors \cup {NoVec}]
  BY DEF IoapicInv, StackInv, PinTypes
<1>2. /\ InGuest(c) /\ l.isr # {} /\ eoiing[c] = NoVec
      /\ Update(c, m) /\ chosen' = chosen /\ UNCHANGED <<pins, iowr>>
  BY DEF Eoi, Running
<1>3. eoiing' = [eoiing EXCEPT ![c] = IF v \in EoiForwarded(l) THEN v ELSE NoVec]
  BY DEF Eoi
<1>4. stale' = IF v \in l.tmr THEN stale ELSE stale \cup S
  BY DEF Eoi
<1>5. StackInv'
  BY <1>1, <1>2, StackEoi
<1>6. m.isr = l.isr \ {v} /\ m.irr = l.irr /\ m.tmr = l.tmr /\ v \in l.isr
  BY <1>1, <1>2, EoiNests, TopIsLast
<1>7. v \in Vectors
  BY <1>1, <1>6, LapicFields
<1>8. v \in EoiForwarded(l) <=> v \in l.tmr
  BY <1>6 DEF EoiForwarded
<1>9. \A p \in Pins : p \in S <=> pins[p].remirr /\ pins[p].vec = v /\ c \in DestOf(pins[p])
  OBVIOUS
<1>10. lapics' = [lapics EXCEPT ![c] = m]
  BY <1>2 DEF Update
<1> HIDE DEF m, v, S
<1>11. lapics'[c] = m /\ \A x \in Apics \ {c} : lapics'[x] = lapics[x] /\ eoiing'[x] = eoiing[x]
  BY <1>1, <1>3, <1>10
<1>12. eoiing'[c] = IF v \in l.tmr THEN v ELSE NoVec
  BY <1>1, <1>3, <1>8
<1>13. eoiing' \in [Apics -> Vectors \cup {NoVec}]
  BY <1>1, <1>3, <1>7
<1>14. \A x \in Apics : lapics'[x].tmr = lapics[x].tmr
  BY <1>6, <1>11
<1>15. ASSUME NEW p \in Pins, pins[p].remirr, p \notin stale'
       PROVE  \E x \in Apics : x \in DestOf(pins[p])
                               /\ (Has(lapics'[x], pins[p].vec) \/ pins[p].vec = eoiing'[x])
  <2>1. p \notin stale /\ (v \notin l.tmr => p \notin S)
    BY <1>4, <1>15
  <2>2. PICK x \in Apics : x \in DestOf(pins[p])
                           /\ (Has(lapics[x], pins[p].vec) \/ pins[p].vec = eoiing[x])
    BY <1>1, <1>15, <2>1 DEF Tracked
  <2>3. CASE x # c
    BY <1>11, <2>2, <2>3
  <2>4. CASE x = c
    <3>1. pins[p].vec # NoVec
      <4>1. pins[p].vec \in Vectors
        BY <1>1, PinFields DEF PinTypes
      <4> QED
        BY <4>1 DEF Vectors, NoVec
    <3>2. pins[p].vec \in l.irr \/ pins[p].vec \in l.isr
      BY <1>2, <2>2, <2>4, <3>1 DEF Has
    <3>3. CASE pins[p].vec # v \/ pins[p].vec \in l.irr
      BY <1>6, <1>11, <2>2, <2>4, <3>2, <3>3 DEF Has
    <3>4. CASE pins[p].vec = v /\ v \in l.tmr
      BY <1>12, <2>2, <2>4, <3>4
    <3>5. CASE pins[p].vec = v /\ v \notin l.tmr
      BY <1>9, <1>15, <2>1, <2>2, <2>4, <3>5
    <3> QED
      BY <3>3, <3>4, <3>5
  <2> QED
    BY <2>3, <2>4
<1>16. Tracked(pins, lapics', eoiing', stale')
  BY <1>15 DEF Tracked
<1> QED
  BY <1>2, <1>5, <1>13, <1>14, <1>16, LapicOnlyInv

----------------------------------------------------------------------------
(* The I/O APIC: theorems *)

LEMMA IoapicInvInit == IoapicInit => IoapicInv
<1> SUFFICES ASSUME IoapicInit PROVE IoapicInv
  OBVIOUS
<1>1. PICK d \in PinDests, v \in PinVectors, P \in SUBSET Pins :
          pins = [p \in Pins |->
                    [masked |-> p \notin P, level |-> p \in P, lowprio |-> p \notin P,
                     remirr |-> FALSE, vec |-> IF p \in P THEN v ELSE 0, dest |-> d,
                     acnt |-> 0]]
  BY DEF IoapicInit
<1>2. v \in Vectors /\ 0 \in Vectors /\ 0 \in 0 .. MaxAcnt
  BY ApicAssumption, IoapicAssumption DEF ApicAssumption, IoapicAssumption, Vectors
<1>3. \A p \in Pins : pins[p] \in PinEntry /\ pins[p].remirr = FALSE /\ pins[p].acnt = 0
  BY <1>1, <1>2 DEF PinEntry
<1>4. /\ lapics = [c \in Apics |-> [ResetLapic EXCEPT !.enabled = TRUE, !.tmr = UpdatedTmr(c)]]
      /\ chosen = [c \in Apics |-> NoVec] /\ iowr = NoWrite
      /\ eoiing = [c \in Apics |-> NoVec] /\ stale = {}
  BY DEF IoapicInit
<1>5. PinTypes
  BY <1>1, <1>3, <1>4 DEF PinTypes
<1>6. ResetLapic \in Lapic /\ ResetLapic.stk = <<>> /\ ResetLapic.isr = {}
  BY ApicAssumption DEF ApicAssumption, Lapic, ResetLapic, MaskedLvt, LvtEntry, Vectors
<1>7. ASSUME NEW c \in Apics
      PROVE  lapics[c] \in Lapic /\ Nested(lapics[c]) /\ lapics[c].tmr = UpdatedTmr(c)
  <2> DEFINE T == UpdatedTmr(c)
             l == [ResetLapic EXCEPT !.enabled = TRUE, !.tmr = T]
  <2>1. T \in SUBSET Vectors
    BY <1>5, UpdatedTmrType
  <2>2. lapics[c] = l
    BY <1>4
  <2> HIDE DEF T
  <2>3. l \in Lapic /\ l.stk = <<>> /\ l.isr = {} /\ l.tmr = T
    BY <1>6, <2>1 DEF Lapic
  <2> HIDE DEF l
  <2>4. Nested(l)
    BY <2>3 DEF Nested
  <2> QED
    BY <2>2, <2>3, <2>4 DEF T
<1>8. lapics \in [Apics -> Lapic]
  BY <1>4, <1>7
<1>9. StackInv
  BY <1>4, <1>7, <1>8 DEF StackInv
<1>10. Tmrs
  BY <1>7 DEF Tmrs
<1>11. LevelOnly
  BY <1>3 DEF LevelOnly
<1>12. Asserted(pins, iowr, {})
  BY <1>3 DEF Asserted
<1>13. Tracked(pins, lapics, eoiing, stale)
  BY <1>3 DEF Tracked
<1> QED
  BY <1>5, <1>9, <1>10, <1>11, <1>12, <1>13 DEF IoapicInv

LEMMA IoapicInvNext == IoapicInv /\ [IoapicNext]_IoapicAllVars => IoapicInv'
<1> SUFFICES ASSUME IoapicInv, [IoapicNext]_IoapicAllVars PROVE IoapicInv'
  OBVIOUS
<1>1. CASE UNCHANGED IoapicAllVars
  <2>1. UNCHANGED <<pins, iowr, eoiing, stale, lapics, chosen>>
    BY <1>1 DEF IoapicAllVars, apicVars, ioapicVars
  <2>2. StackInv'
    BY <2>1 DEF IoapicInv, StackInv
  <2>3. Tracked(pins, lapics', eoiing', stale') /\ eoiing' \in [Apics -> Vectors \cup {NoVec}]
    BY <2>1 DEF IoapicInv, PinTypes
  <2> QED
    BY <2>1, <2>2, <2>3, LapicOnlyInv
<1>2. CASE PinEvent
  BY <1>2, PinEventInv
<1>3. CASE GuestEntryWrite
  <2>1. PICK c \in Apics, p \in Pins : \E e \in GuestWrites(p) : EntryWrite(c, p, e)
    BY <1>3 DEF GuestEntryWrite
  <2> QED
    BY <2>1, EntryWriteInv
<1>4. CASE EndWrite
  BY <1>4, EndWriteInv
<1>5. ASSUME NEW c \in Apics, UpdateTmr(c) \/ Eoi(c) \/ IoapicEoi(c) \/ Inject(c) \/ Inject2(c)
      PROVE  IoapicInv'
  BY <1>5, UpdateTmrInv, EoiInv, IoapicEoiInv, InjectInv
<1> QED
  BY <1>1, <1>2, <1>3, <1>4, <1>5 DEF IoapicNext

LEMMA IoapicInvLevels == IoapicInv => LevelsTracked
<1> SUFFICES ASSUME IoapicInv PROVE LevelsTracked
  OBVIOUS
<1>1. TmrMatches
  BY DEF IoapicInv, Tmrs, NotYet, TmrMatches
<1>2. ASSUME NEW p \in Pins, pins[p].level, ~pins[p].masked, pins[p].acnt > 0,
             iowr # NoWrite => iowr.pin # p
      PROVE  pins[p].remirr
  BY <1>2 DEF IoapicInv, Asserted
<1>3. ASSUME NEW p \in Pins, pins[p].remirr, p \notin stale
      PROVE  \E c \in Apics : pins[p].vec \in lapics[c].irr \cup lapics[c].isr \cup {eoiing[c]}
  <2>1. \E c \in Apics : Has(lapics[c], pins[p].vec) \/ pins[p].vec = eoiing[c]
    BY <1>3 DEF IoapicInv, Tracked
  <2> QED
    BY <2>1 DEF Has
<1>4. LevelNeverLost
  BY <1>2, <1>3 DEF LevelNeverLost
<1> QED
  BY <1>1, <1>4 DEF LevelsTracked

\* The interrupt stacks are in order too while level-triggered interrupts come
\* and go, their EOIs are on their way to the I/O APIC and its entries are
\* rewritten.
THEOREM IoapicIsrStackOkAlways == IoapicSpec => []IsrStackOk
<1>1. IoapicInv => IsrStackOk
  BY StackInvOk DEF IoapicInv
<1> QED
  BY <1>1, IoapicInvInit, IoapicInvNext, PTL DEF IoapicSpec

\* Level-triggered interrupts are tracked by both sides for any number of pins
\* and vcpus: once a write of a redirection entry is complete the trigger-mode
\* registers match the entries, every asserted and unmasked level-triggered pin
\* has REM_IRR, and REM_IRR stands for an interrupt that a vcpu still has to
\* end, unless its EOI was swallowed, however device threads, the rendezvous of
\* a write and the EOIs of vcpus interleave.
THEOREM LevelsTrackedAlways == IoapicSpec => []LevelsTracked
BY IoapicInvInit, IoapicInvNext, IoapicInvLevels, PTL DEF IoapicSpec

LEMMA SwallowStep ==
    ASSUME IoapicInv, [IoapicNext]_IoapicAllVars, stale' # stale
    PROVE  iowr # NoWrite /\ \E c \in iowr.todo : lapics'[c].isr # lapics[c].isr
<1>1. PICK c \in Apics : Eoi(c)
  BY DEF IoapicNext, PinEvent, GuestEntryWrite, AssertIrq, DeassertIrq, PulseIrq, EntryWrite,
         EndWrite, UpdateTmr, IoapicEoi, Inject, Inject2, ioapicVars, IoapicAllVars
<1> DEFINE l == lapics[c]
           v == Top(l.isr)
<1>2. l \in Lapic /\ Nested(l) /\ lapics \in [Apics -> Lapic]
      /\ Tmrs /\ LevelOnly /\ pins \in [Pins -> PinEntry]
  BY DEF IoapicInv, StackInv, PinTypes
<1>3. l.isr # {} /\ lapics' = [lapics EXCEPT ![c] = ProcessEoi(l)]
  BY <1>1 DEF Eoi, Update
<1>4. v \in l.isr /\ lapics'[c].isr = l.isr \ {v}
  BY <1>2, <1>3, EoiNests, TopIsLast
<1>5. v \notin l.tmr /\ \E p \in Pins : pins[p].remirr /\ pins[p].vec = v /\ c \in DestOf(pins[p])
  BY <1>1 DEF Eoi
<1>6. v \in UpdatedTmr(c)
  BY <1>2, <1>5 DEF LevelOnly, UpdatedTmr
<1>7. NotYet(c)
  BY <1>2, <1>5, <1>6 DEF Tmrs
<1> HIDE DEF v
<1> QED
  BY <1>4, <1>7 DEF NotYet

\* The EOI of a level-triggered interrupt is swallowed only at a vcpu that has
\* not yet recomputed its trigger modes in the rendezvous of a vioapic_write(),
\* for any number of pins and vcpus.
THEOREM SwallowedOnlyInWindowAlways == IoapicSpec => SwallowedOnlyInWindow
<1>1. IoapicInv /\ [IoapicNext]_IoapicAllVars =>
        [stale' # stale => /\ iowr # NoWrite
                           /\ \E c \in iowr.todo : lapics'[c].isr # lapics[c].isr]_IoapicAllVars
  BY SwallowStep
<1> QED
  BY <1>1, IoapicInvInit, IoapicInvNext, PTL DEF IoapicSpec, SwallowedOnlyInWindow

----------------------------------------------------------------------------
(* Types of the platform as a whole *)

\* The bounds of the model's counters are numbers, the guest uses finitely many
\* counts and divisors, and the reset value of a redirection entry names the
\* boot processor.
HasMax(S) == \E x \in S : \A y \in S : y <= x
PlatformParams ==
    /\ HasMax(Counts) /\ HasMax(Divisors)
    /\ ApicOps \in Nat /\ PinOps \in Nat /\ Phys(0) \in PinDests

LEMMA MaxBound ==
    ASSUME NEW S, HasMax(S)
    PROVE  Max2(S) \in S /\ \A y \in S : y <= Max2(S)
<1>1. PICK x \in S : \A y \in S : y <= x
  BY DEF HasMax
<1> QED
  BY <1>1 DEF Max2

LEMMA ProductBound ==
    ASSUME NEW a \in Nat, NEW b \in Nat, NEW c \in Nat, NEW d \in Nat, a <= c, b <= d
    PROVE  a * b \in Nat /\ a * b <= c * d
<1>1. a * b <= c * b
  BY SMT
<1>2. c * b <= c * d
  BY SMT
<1> QED
  BY <1>1, <1>2, SMT

LEMMA PeriodBound ==
    ASSUME PlatformParams, NEW d \in Divisors, NEW n \in Counts
    PROVE  MaxPeriod \in Nat /\ d * n \in 0 .. MaxPeriod
<1> DEFINE C == Max2(Counts)
           D == Max2(Divisors)
<1>1. C \in Nat /\ n \in Nat /\ n <= C
  BY MaxBound, TimerAssumption DEF PlatformParams, TimerAssumption
<1>2. D \in Nat /\ d \in Nat /\ d <= D
  BY MaxBound, TimerAssumption DEF PlatformParams, TimerAssumption
<1> HIDE DEF C, D
<1>3. n * d \in Nat /\ n * d <= C * D
  BY <1>1, <1>2, ProductBound
<1>4. C * D \in Nat /\ d * n = n * d
  BY <1>1, <1>2
<1>5. MaxPeriod = C * D
  BY DEF MaxPeriod, C, D
<1> QED
  BY <1>3, <1>4, <1>5

TimerRest ==
    /\ tMasked \in BOOLEAN /\ posted \in BOOLEAN /\ tSvr \in {"none", "stop", "mask", "start"}
    /\ icr \in Counts /\ div \in Divisors /\ timerOps \in 0 .. TimerOps
    /\ fire \in -MaxLag .. MaxPeriod /\ due \in -MaxLag .. MaxPeriod

LEMMA TimerRestInit == ASSUME PlatformParams PROVE TimerInit => TimerRest
<1> SUFFICES ASSUME TimerInit PROVE TimerRest
  OBVIOUS
<1>1. MaxPeriod \in Nat
  BY PeriodBound, TimerAssumption DEF TimerAssumption
<1>2. tMasked \in BOOLEAN /\ posted \in BOOLEAN /\ tSvr \in {"none", "stop", "mask", "start"}
  BY Zenon DEF TimerInit
<1> QED
  BY <1>1, <1>2, TimerAssumption DEF TimerInit, TimerRest, TimerAssumption

LEMMA ArmRest ==
    ASSUME PlatformParams, TimerRest, NEW n \in Counts, Arm(n)
    PROVE  posted' \in BOOLEAN /\ fire' \in -MaxLag .. MaxPeriod /\ due' \in -MaxLag .. MaxPeriod
<1>1. MaxPeriod \in Nat /\ div * n \in 0 .. MaxPeriod
  BY PeriodBound DEF TimerRest
<1>2. MaxLag \in Nat
  BY TimerAssumption DEF TimerAssumption
<1>3. div * n \in -MaxLag .. MaxPeriod
  BY <1>1, <1>2
<1>4. posted' \in BOOLEAN
  BY DEF Arm
<1> QED
  BY <1>3, <1>4 DEF Arm, CalloutReset, CalloutStop, TimerRest

LEMMA TimerRestNext ==
    ASSUME PlatformParams, TimerInv, TimerRest, [TimerNext]_timerVars PROVE TimerRest'
<1>0. MaxLag \in Nat /\ TimerOps \in Nat /\ MaxPeriod \in Nat /\ period \in 0 .. MaxPeriod
  BY PeriodBound, TimerAssumption DEF TimerAssumption, TimerRest, TimerInv, Countdown
<1>a. CountedTimer => timerOps' \in 0 .. TimerOps
  BY <1>0 DEF CountedTimer, TimerRest
<1>1. CASE UNCHANGED timerVars
  BY <1>1 DEF timerVars, TimerRest
<1>2. ASSUME NEW n \in Counts, IcrWrite(n) PROVE TimerRest'
  <2>1. /\ posted' \in BOOLEAN /\ fire' \in -MaxLag .. MaxPeriod /\ due' \in -MaxLag .. MaxPeriod
    BY <1>2, ArmRest DEF IcrWrite
  <2> QED
    BY <1>2, <1>a, <2>1 DEF IcrWrite, TimerRest
<1>3. ASSUME NEW d \in Divisors, DcrWrite(d) PROVE TimerRest'
  BY <1>3, <1>a DEF DcrWrite, TimerRest
<1>4. ASSUME NEW m \in BOOLEAN, NEW p \in BOOLEAN, TimerLvtWrite(m, p) PROVE TimerRest'
  <2>1. tMasked' \in BOOLEAN
    BY <1>4 DEF TimerLvtWrite
  <2> QED
    BY <1>4, <1>a, <2>1 DEF TimerLvtWrite, TimerRest
<1>5. CASE TimerSvrWrite
  BY <1>5, <1>a DEF TimerSvrWrite, TimerRest
<1>6. CASE SvrStop
  BY <1>6 DEF SvrStop, CalloutStop, TimerRest
<1>7. CASE SvrMaskTimer
  BY <1>7 DEF SvrMaskTimer, TimerRest
<1>8. CASE SvrStart
  <2>1. /\ posted' \in BOOLEAN /\ fire' \in -MaxLag .. MaxPeriod /\ due' \in -MaxLag .. MaxPeriod
    <3>1. CASE tPeriodic
      BY <1>8, <3>1, ArmRest DEF SvrStart, TimerRest
    <3>2. CASE ~tPeriodic
      BY <1>8, <3>2 DEF SvrStart, TimerRest
    <3> QED
      BY <3>1, <3>2
  <2> QED
    BY <1>8, <2>1 DEF SvrStart, TimerRest
<1>9. CASE Expire
  BY <1>9 DEF Expire, TimerRest
<1>10. CASE Tick
  <2>1. fire' \in -MaxLag .. MaxPeriod /\ due' \in -MaxLag .. MaxPeriod
    BY <1>0, <1>10 DEF Tick, TimerRest
  <2> QED
    BY <1>10, <2>1 DEF Tick, TimerRest
<1>11. CASE Handler
  <2>1. posted' \in BOOLEAN
    BY <1>11 DEF Handler, FireTimer, TimerRest
  <2>2. Genuine => fire <= 0
    BY <1>11 DEF Handler, Genuine, TimerInv, Callout
  <2>3. fire' \in -MaxLag .. MaxPeriod /\ due' \in -MaxLag .. MaxPeriod
    <3>1. CASE ~Genuine
      BY <1>11, <3>1 DEF Handler, TimerRest
    <3>2. CASE Genuine /\ tPeriodic
      <4>1. Rearm
        BY <1>11, <3>2 DEF Handler
      <4> QED
        BY <4>1, <3>2, <2>2, <1>0 DEF Rearm, CalloutReset, TimerRest
    <3>3. CASE Genuine /\ ~tPeriodic
      BY <1>11, <3>3 DEF Handler, TimerRest
    <3> QED
      BY <3>1, <3>2, <3>3
  <2> QED
    BY <1>11, <2>1, <2>3 DEF Handler, TimerRest
<1> QED
  BY <1>1, <1>2, <1>3, <1>4, <1>5, <1>6, <1>7, <1>8, <1>9, <1>10, <1>11 DEF TimerNext, SvrRest

LEMMA TimerTyped == ASSUME PlatformParams, TimerInv, TimerRest PROVE TimerTypeOK
<1>1. period \in 0 .. MaxPeriod
  BY PeriodBound DEF TimerRest, TimerInv, Countdown
<1>2. {tOn, tMasked, tPeriodic, pending, active, handler, posted, armed, reclocked, kept} \subseteq BOOLEAN
  BY DEF TimerRest, TimerInv, TimerTypes
<1> QED
  BY <1>1, <1>2 DEF TimerTypeOK, TimerRest

ApicRest ==
    /\ masking \subseteq Apics
    /\ events \in [Apics -> SUBSET {"nmi", "extint"}]
    /\ boot \in [Apics -> {"INIT", "SIPI", "RUNNING"}]
    /\ apicOps \in 0 .. ApicOps

LEMMA ApicRestWrite ==
    ASSUME PlatformParams, ApicRest, NEW c \in Apics, RegisterWrite(c) PROVE ApicRest'
<1>a. Counted => apicOps' \in 0 .. ApicOps
  BY DEF Counted, ApicRest, PlatformParams
<1>1. ASSUME NEW t \in Tprs, TprWrite(c, t) PROVE ApicRest'
  BY <1>1, <1>a DEF TprWrite, ApicRest
<1>2. CASE EoiWrite(c)
  BY <1>2 DEF EoiWrite, ApicRest
<1>3. ASSUME NEW e \in LvtNames, NEW r \in LvtChoices, LvtRegWrite(c, e, r) PROVE ApicRest'
  BY <1>3, <1>a DEF LvtRegWrite, ApicRest
<1>4. CASE EsrRegWrite(c)
  BY <1>4, <1>a DEF EsrRegWrite, ApicRest
<1>5. CASE SvrWrite(c)
  <2>1. masking' \subseteq Apics
    BY <1>5 DEF SvrWrite, ApicRest
  <2> QED
    BY <1>5, <1>a, <2>1 DEF SvrWrite, ApicRest
<1>6. CASE SvrMask(c)
  BY <1>6 DEF SvrMask, ApicRest
<1>7. ASSUME NEW v \in IpiVectors, FixedIpi(c, v) PROVE ApicRest'
  BY <1>7, <1>a DEF FixedIpi, ApicRest
<1>8. CASE NmiIpi(c)
  <2>1. PICK D \in IpiTargets(c) :
            events' = [x \in Apics |-> IF x \in D THEN events[x] \cup {"nmi"} ELSE events[x]]
    BY <1>8 DEF NmiIpi
  <2>2. events' \in [Apics -> SUBSET {"nmi", "extint"}]
    BY <2>1 DEF ApicRest
  <2> QED
    BY <1>8, <1>a, <2>2 DEF NmiIpi, ApicRest
<1>9. ASSUME NEW x \in Apics, InitIpi(c, x) \/ StartupIpi(c, x) PROVE ApicRest'
  <2>1. boot' \in [Apics -> {"INIT", "SIPI", "RUNNING"}]
    BY <1>9 DEF InitIpi, StartupIpi, ApicRest
  <2> QED
    BY <1>9, <1>a, <2>1 DEF InitIpi, StartupIpi, ApicRest
<1> QED
  BY <1>1, <1>2, <1>3, <1>4, <1>5, <1>6, <1>7, <1>8, <1>9 DEF RegisterWrite

LEMMA ApicRestRaised ==
    ASSUME PlatformParams, StackInv, ApicRest, Raised PROVE ApicRest'
<1>a. Counted => apicOps' \in 0 .. ApicOps
  BY DEF Counted, ApicRest, PlatformParams
<1>1. ASSUME NEW d \in IpiDests, NEW lowprio \in BOOLEAN, NEW v \in IpiVectors, MsiIntr(d, lowprio, v)
      PROVE  ApicRest'
  BY <1>1, <1>a DEF MsiIntr, ApicRest
<1>2. ASSUME NEW c \in Apics, NEW e \in LvtNames, TriggerLvt(c, e) PROVE ApicRest'
  <2> DEFINE r == lapics[c].lvt[e]
  <2>1. r.mode \in {"fixed", "nmi", "extint"}
    BY DEF StackInv, Lapic, LvtEntry
  <2>2. Counted /\ UNCHANGED <<masking, boot>>
    BY <1>2 DEF TriggerLvt
  <2>3. CASE ~lapics[c].enabled
    <3>1. events' = [events EXCEPT ![c] = IF e = "lint0" THEN @ \cup {"extint"} ELSE @]
      BY <1>2, <2>3 DEF TriggerLvt
    <3>2. events' \in [Apics -> SUBSET {"nmi", "extint"}]
      BY <3>1 DEF ApicRest
    <3> QED
      BY <3>2, <2>2, <1>a DEF ApicRest
  <2>4. CASE lapics[c].enabled /\ (r.masked \/ r.mode = "fixed")
    <3>1. events' = events
      BY <1>2, <2>4 DEF TriggerLvt
    <3> QED
      BY <3>1, <2>2, <1>a DEF ApicRest
  <2>5. CASE lapics[c].enabled /\ ~(r.masked \/ r.mode = "fixed")
    <3>1. events' = [events EXCEPT ![c] = @ \cup {r.mode}]
      BY <1>2, <2>5 DEF TriggerLvt
    <3>2. events' \in [Apics -> SUBSET {"nmi", "extint"}]
      BY <3>1, <2>1, <2>5 DEF ApicRest
    <3> QED
      BY <3>2, <2>2, <1>a DEF ApicRest
  <2> QED
    BY <2>3, <2>4, <2>5
<1> QED
  BY <1>1, <1>2 DEF Raised

LEMMA ApicRestNext ==
    ASSUME PlatformParams, StackInv, ApicRest, ApicNext PROVE ApicRest'
<1>1. ASSUME NEW c \in Apics, RegisterWrite(c) PROVE ApicRest'
  BY <1>1, ApicRestWrite
<1>2. ASSUME NEW c \in Apics, VmEntry(c) PROVE ApicRest'
  <2>1. ASSUME NEW ev \in {"nmi", "extint"}, InjectEvent(c, ev) PROVE ApicRest'
    <3>1. events' \in [Apics -> SUBSET {"nmi", "extint"}]
      BY <2>1 DEF InjectEvent, ApicRest
    <3> QED
      BY <2>1, <3>1 DEF InjectEvent, ApicRest
  <2> QED
    BY <1>2, <2>1 DEF VmEntry, AskPending, Accept, CantInject, ApicRest
<1> QED
  BY <1>1, <1>2, ApicRestRaised DEF ApicNext

PinRest == stale \subseteq Pins /\ pinOps \in 0 .. PinOps

LEMMA PinRestNext ==
    ASSUME PlatformParams, ApicRest, PinRest, IoapicNext PROVE ApicRest' /\ PinRest'
<1>1. UNCHANGED <<masking, events, boot, apicOps>>
  BY DEF IoapicNext, PinEvent, GuestEntryWrite, AssertIrq, DeassertIrq, PulseIrq, EntryWrite, EndWrite, UpdateTmr,
         Eoi, IoapicEoi, Inject, Inject2, AskPending, Accept, CantInject
<1>2. pinOps' = pinOps \/ CountedPin
  BY DEF IoapicNext, PinEvent, GuestEntryWrite, AssertIrq, DeassertIrq, PulseIrq, EntryWrite, EndWrite, UpdateTmr,
         Eoi, IoapicEoi, Inject, Inject2, ioapicVars
<1>3. stale' = stale \/ \E c \in Apics : Eoi(c)
  BY DEF IoapicNext, PinEvent, GuestEntryWrite, AssertIrq, DeassertIrq, PulseIrq, EntryWrite, EndWrite, UpdateTmr,
         IoapicEoi, Inject, Inject2, ioapicVars
<1>4. stale' \subseteq Pins
  BY <1>3 DEF Eoi, PinRest
<1>5. pinOps' \in 0 .. PinOps
  BY <1>2 DEF CountedPin, PinRest, PlatformParams
<1> QED
  BY <1>1, <1>4, <1>5 DEF ApicRest, PinRest

\* The parts of the platform one by one; only one of them is exercised, and the
\* I/O APIC's invariant is about a guest that has set it up.
PlatformInv ==
    /\ TimerInv /\ TimerRest /\ StackInv /\ ApicRest /\ PinTypes /\ PinRest
    /\ part = "ioapic" => IoapicInv

LEMMA PlatformInvInit == ASSUME PlatformParams PROVE PlatformInit => PlatformInv
<1> SUFFICES ASSUME PlatformInit PROVE PlatformInv
  OBVIOUS
<1>1. TimerInv /\ TimerRest
  BY TimerInvInit, TimerRestInit DEF PlatformInit
<1>2. ApicRest
  <2>1. masking = {} /\ events = [c \in Apics |-> {}] /\ apicOps = 0
    BY DEF PlatformInit, ApicInit, IoapicInit
  <2>2. boot \in [Apics -> {"INIT", "SIPI", "RUNNING"}]
    BY DEF PlatformInit, ApicInit, IoapicInit
  <2> QED
    BY <2>1, <2>2 DEF ApicRest, PlatformParams
<1>3. CASE part = "ioapic"
  <2>1. IoapicInv
    BY <1>3, IoapicInvInit DEF PlatformInit
  <2>2. PinRest
    <3>1. stale = {} /\ pinOps = 0
      BY <1>3 DEF PlatformInit, IoapicInit
    <3> QED
      BY <3>1 DEF PinRest, PlatformParams
  <2> QED
    BY <1>1, <1>2, <2>1, <2>2 DEF PlatformInv, IoapicInv
<1>4. CASE part # "ioapic"
  <2>1. StackInv
    BY <1>4, StackInit DEF PlatformInit
  <2>2. IoapicReset
    BY <1>4 DEF PlatformInit
  <2>3. 0 \in Vectors /\ 0 \in 0 .. MaxAcnt
    BY ApicAssumption, IoapicAssumption DEF ApicAssumption, IoapicAssumption, Vectors
  <2>4. PinTypes
    BY <2>2, <2>3 DEF IoapicReset, PinTypes, PinEntry, PlatformParams
  <2>5. PinRest
    BY <2>2 DEF IoapicReset, PinRest, PlatformParams
  <2> QED
    BY <1>1, <1>2, <1>4, <2>1, <2>4, <2>5 DEF PlatformInv
<1> QED
  BY <1>3, <1>4

LEMMA PlatformInvNext ==
    ASSUME PlatformParams, PlatformInv, [LapicPart \/ IoapicPart \/ TimerPart]_platformVars PROVE PlatformInv'
<1>1. CASE LapicPart
  <2>1. TimerInv' /\ TimerRest'
    BY <1>1, TimerInvNext, TimerRestNext DEF LapicPart, PlatformInv
  <2>2. StackInv' /\ ApicRest'
    BY <1>1, StackNext, ApicRestNext DEF LapicPart, PlatformInv
  <2>3. PinTypes' /\ PinRest' /\ part' # "ioapic"
    BY <1>1 DEF LapicPart, PlatformInv, ioapicVars, PinTypes, PinRest
  <2> QED
    BY <2>1, <2>2, <2>3 DEF PlatformInv
<1>2. CASE IoapicPart
  <2>1. TimerInv' /\ TimerRest'
    BY <1>2, TimerInvNext, TimerRestNext DEF IoapicPart, PlatformInv
  <2>2. IoapicInv'
    BY <1>2, IoapicInvNext DEF IoapicPart, PlatformInv
  <2>3. ApicRest' /\ PinRest'
    BY <1>2, PinRestNext DEF IoapicPart, PlatformInv
  <2> QED
    BY <2>1, <2>2, <2>3 DEF PlatformInv, IoapicInv
<1>3. CASE TimerPart \/ UNCHANGED platformVars
  <2>1. TimerInv' /\ TimerRest'
    BY <1>3, TimerInvNext, TimerRestNext DEF TimerPart, PlatformInv, platformVars
  <2>2. UNCHANGED <<apicVars, ioapicVars, part>>
    BY <1>3 DEF TimerPart, platformVars
  <2>3. StackInv' /\ ApicRest'
    BY <2>2 DEF PlatformInv, apicVars, StackInv, ApicRest
  <2>4. PinTypes' /\ PinRest'
    BY <2>2 DEF PlatformInv, ioapicVars, PinTypes, PinRest
  <2>5. (part = "ioapic")' => IoapicInv'
    <3>1. UNCHANGED IoapicAllVars
      BY <2>2 DEF IoapicAllVars
    <3> QED
      BY <2>2, <3>1, IoapicInvNext DEF PlatformInv
  <2> QED
    BY <2>1, <2>3, <2>4, <2>5 DEF PlatformInv
<1> QED
  BY <1>1, <1>2, <1>3

\* Registers of the interrupt hardware stay within their width and the timer
\* within its period, late callouts included: timer_fire_bt is never further
\* away than the longest period, whatever the guest does to the divisor while
\* vlapic_callout_handler() waits for the lock.
THEOREM PlatformTyped == ASSUME PlatformParams PROVE PlatformSpec => []TypeOK
<1>1. PlatformInit => PlatformInv
  BY PlatformInvInit
<1>2. PlatformInv /\ [LapicPart \/ IoapicPart \/ TimerPart]_platformVars => PlatformInv'
  BY PlatformInvNext
<1>3. PlatformInv => TypeOK
  <2> SUFFICES ASSUME PlatformInv PROVE TypeOK
    OBVIOUS
  <2>1. TimerTypeOK
    BY TimerTyped DEF PlatformInv
  <2>2. ApicTypeOK
    BY DEF PlatformInv, StackInv, ApicRest, ApicTypeOK
  <2>3. IoapicTypeOK
    BY DEF PlatformInv, PinTypes, PinRest, IoapicTypeOK
  <2> QED
    BY <2>1, <2>2, <2>3 DEF TypeOK
<1>4. QED
  BY <1>1, <1>2, <1>3, PTL DEF PlatformSpec
============================================================================
