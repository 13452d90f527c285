----------------------------- MODULE LapicTimer -----------------------------
(***************************************************************************)
(* The timer of one local APIC (vlapic.c): a callout that the vcpu arms,   *)
(* stops and reprograms through its registers while the callout's handler  *)
(* may already be on its way and waiting for the timer lock. Time passes   *)
(* in units of the undivided bus clock.                                    *)
(***************************************************************************)
EXTENDS Integers

CONSTANTS
    Counts,     \* values the guest writes to the initial count, 0 among them
    Divisors,   \* divide configurations
    MaxLag,     \* bound on the delay of a due callout
    TimerOps    \* bound on register writes

ASSUME TimerAssumption ==
    /\ Counts \subseteq Nat /\ 0 \in Counts
    /\ Divisors \subseteq Nat \ {0} /\ 2 \in Divisors
    /\ MaxLag \in Nat /\ TimerOps \in Nat

VARIABLES
    tOn,        \* APIC_SVR_ENABLE in the register page
    tSvr,       \* where vlapic_svr_write_handler() is
    tMasked, tPeriodic,     \* the timer's LVT entry
    icr,        \* icr_timer
    div,        \* the divisor behind timer_freq_bt
    period,     \* timer_period_bt
    fire,       \* timer_fire_bt, relative to now
    due,        \* the callout's own expiry, relative to now
    pending, active,        \* the callout's flags
    handler,    \* vlapic_callout_handler() has been called and waits for the lock
    posted,     \* an interrupt has been posted to the IRR since the arming
    armed,      \* history: a countdown is in progress, armed by the guest or by the
                \* handler and not stopped since
    reclocked,  \* history: the divisor has changed since the arming
    kept,       \* history: the timer has been periodic since the arming
    timerOps

timerVars == <<tOn, tSvr, tMasked, tPeriodic, icr, div, period, fire, due, pending,
               active, handler, posted, armed, reclocked, kept, timerOps>>

Max2(S) == CHOOSE x \in S : \A y \in S : y <= x
MaxPeriod == Max2(Counts) * Max2(Divisors)

TimerTypeOK ==
    /\ {tOn, tMasked, tPeriodic, pending, active, handler, posted, armed,
        reclocked, kept} \subseteq BOOLEAN
    /\ tSvr \in {"none", "stop", "mask", "start"}
    /\ icr \in Counts /\ div \in Divisors /\ period \in 0 .. MaxPeriod
    /\ fire \in -MaxLag .. MaxPeriod /\ due \in -MaxLag .. MaxPeriod
    /\ timerOps \in 0 .. TimerOps

\* vlapic_reset(); a divide configuration of 0 divides by 2
TimerInit ==
    /\ tOn = FALSE /\ tSvr = "none" /\ tMasked = TRUE /\ tPeriodic = FALSE
    /\ icr = 0 /\ div = 2 /\ period = 0 /\ fire = 0 /\ due = 0
    /\ pending = FALSE /\ active = FALSE /\ handler = FALSE
    /\ posted = FALSE /\ armed = FALSE /\ reclocked = FALSE /\ kept = FALSE /\ timerOps = 0

TimerGuest   == tSvr = "none"
CountedTimer == timerOps < TimerOps /\ timerOps' = timerOps + 1

----------------------------------------------------------------------------
(* The callout: external, as callout(9) and its use here describe it *)

CalloutReset(d) == pending' = TRUE /\ active' = TRUE /\ due' = d
CalloutStop     == pending' = FALSE /\ active' = FALSE

\* softclock() calls the handler of a due callout; calls do not overlap.
Expire ==
    /\ pending /\ due <= 0 /\ ~handler
    /\ pending' = FALSE /\ handler' = TRUE
    /\ UNCHANGED <<tOn, tSvr, tMasked, tPeriodic, icr, div, period, fire, due, active,
                   posted, armed, reclocked, kept, timerOps>>

\* Time passes; a due callout and a called handler are late by at most MaxLag.
Tick ==
    /\ active \/ handler
    /\ fire > -MaxLag /\ due > -MaxLag
    /\ fire' = fire - 1 /\ due' = due - 1
    /\ UNCHANGED <<tOn, tSvr, tMasked, tPeriodic, icr, div, period, pending, active,
                   handler, posted, armed, reclocked, kept, timerOps>>

----------------------------------------------------------------------------
(* Register writes *)

\* vlapic_icrtmr_write_handler()
Arm(n) ==
    /\ period' = div * n
    /\ IF n # 0 THEN fire' = div * n /\ CalloutReset(div * n)
       ELSE CalloutStop /\ UNCHANGED <<fire, due>>
    /\ posted' = FALSE /\ armed' = (n # 0) /\ reclocked' = FALSE /\ kept' = tPeriodic

IcrWrite(n) ==
    /\ TimerGuest /\ CountedTimer
    /\ icr' = n
    /\ Arm(n)
    /\ UNCHANGED <<tOn, tSvr, tMasked, tPeriodic, div, handler>>

\* vlapic_dcr_write_handler(): the period changes, the armed callout does not.
DcrWrite(d) ==
    /\ TimerGuest /\ CountedTimer
    /\ div' = d /\ period' = d * icr
    /\ reclocked' = (reclocked \/ d # div)
    /\ UNCHANGED <<tOn, tSvr, tMasked, tPeriodic, icr, fire, due, pending, active,
                   handler, posted, armed, kept>>

\* vlapic_lvt_write_handler() of the timer entry
TimerLvtWrite(m, p) ==
    /\ TimerGuest /\ CountedTimer
    /\ tMasked' = (m \/ ~tOn) /\ tPeriodic' = p
    /\ kept' = (kept /\ p)
    /\ UNCHANGED <<tOn, tSvr, icr, div, period, fire, due, pending, active, handler,
                   posted, armed, reclocked>>

\* vlapic_svr_write_handler(): the register, then the callout under the timer
\* lock, then the LVTs.
TimerSvrWrite ==
    /\ TimerGuest /\ CountedTimer
    /\ tOn' = ~tOn
    /\ tSvr' = IF tOn THEN "stop" ELSE "start"
    /\ UNCHANGED <<tMasked, tPeriodic, icr, div, period, fire, due, pending, active,
                   handler, posted, armed, reclocked, kept>>

SvrStop ==
    /\ tSvr = "stop" /\ tSvr' = "mask"
    /\ CalloutStop
    /\ armed' = FALSE /\ kept' = FALSE
    /\ UNCHANGED <<tOn, tMasked, tPeriodic, icr, div, period, fire, due, handler, posted,
                   reclocked, timerOps>>

SvrMaskTimer ==
    /\ tSvr = "mask" /\ tSvr' = "none"
    /\ tMasked' = TRUE
    /\ UNCHANGED <<tOn, tPeriodic, icr, div, period, fire, due, pending, active, handler,
                   posted, armed, reclocked, kept, timerOps>>

\* Only a periodic timer is started again.
SvrStart ==
    /\ tSvr = "start" /\ tSvr' = "none"
    /\ IF tPeriodic THEN Arm(icr)
       ELSE UNCHANGED <<period, fire, due, pending, active, posted, armed, reclocked,
                       kept>>
    /\ UNCHANGED <<tOn, tMasked, tPeriodic, icr, div, handler, timerOps>>

----------------------------------------------------------------------------
(* vlapic_callout_handler() *)

\* Mutant: the handler does not look for a reset.
Genuine_NoReset == active

\* The handler goes ahead unless the callout was reset or stopped meanwhile.
Genuine == ~pending /\ active

\* vlapic_fire_timer(): nothing is posted by a masked entry or to a disabled
\* APIC.
FireTimer == posted' = (posted \/ (~tMasked /\ tOn))

\* The next countdown starts where the last ended, or now if a whole period
\* has been lost.
Rearm ==
    /\ fire' = IF -fire < period THEN fire + period ELSE period
    /\ CalloutReset(IF -fire < period THEN period + fire ELSE period)

\* Mutant: the callout is deactivated before the handler looks for a reset.
Handler_Deactivate ==
    /\ handler /\ handler' = FALSE
    /\ IF ~Genuine THEN active' = FALSE /\ UNCHANGED <<fire, due, pending, posted, armed>>
       ELSE /\ FireTimer
            /\ IF tPeriodic THEN Rearm /\ UNCHANGED armed
               ELSE active' = FALSE /\ armed' = FALSE /\ UNCHANGED <<fire, due, pending>>
    /\ UNCHANGED <<tOn, tSvr, tMasked, tPeriodic, icr, div, period, reclocked, kept,
                   timerOps>>

Handler ==
    /\ handler /\ handler' = FALSE
    /\ IF ~Genuine THEN UNCHANGED <<fire, due, pending, active, posted, armed>>
       ELSE /\ FireTimer
            /\ IF tPeriodic THEN Rearm /\ UNCHANGED armed
               ELSE active' = FALSE /\ armed' = FALSE /\ UNCHANGED <<fire, due, pending>>
    /\ UNCHANGED <<tOn, tSvr, tMasked, tPeriodic, icr, div, period, reclocked, kept,
                   timerOps>>

----------------------------------------------------------------------------
SvrRest == SvrStop \/ SvrMaskTimer \/ SvrStart

TimerNext ==
    \/ \E n \in Counts : IcrWrite(n)
    \/ \E d \in Divisors : DcrWrite(d)
    \/ \E m, p \in BOOLEAN : TimerLvtWrite(m, p)
    \/ TimerSvrWrite \/ SvrRest
    \/ Expire \/ Handler \/ Tick

\* Time passes, due callouts are called, and a vcpu finishes a register write.
TimerFairness ==
    /\ WF_timerVars(Tick) /\ WF_timerVars(Expire) /\ WF_timerVars(Handler)
    /\ WF_timerVars(SvrRest)

TimerSpec == TimerInit /\ [][TimerNext]_timerVars /\ TimerFairness

----------------------------------------------------------------------------
(* Properties *)

\* A handler that waited for the lock goes ahead only at or after timer_fire_bt
\* (the assertion "vlapic callout at ..., expected at ..."), although the timer
\* may have been stopped and armed again meanwhile, and not at all once the
\* guest has stopped the timer or disabled the APIC, even if the APIC is
\* enabled again.
NoSpuriousTimer == handler /\ Genuine => fire <= 0 /\ armed

\* The current count vlapic_get_ccr() computes
Ccr == IF active /\ fire > 0 THEN fire \div div ELSE 0

\* The callout and timer_fire_bt, from which the guest's current count is
\* computed, agree on the time of the next interrupt: a periodic timer makes up
\* for the lateness of its handler in both. And the count never exceeds the
\* initial count (the assertion "invalid ccr"), as long as the divisor is the
\* one the countdown was armed with.
CountAgrees ==
    /\ pending => due = fire
    /\ TimerGuest /\ ~reclocked => Ccr <= icr

\* A timer that has been periodic and enabled since it was armed never stops
\* counting: its callout is scheduled, or its handler about to schedule it.
PeriodicAlive == kept /\ tOn /\ tSvr = "none" /\ icr # 0 => active /\ (pending \/ handler)

\* The timer interrupts neither early nor after it was stopped, its count is
\* that of its callout, and as long as it is periodic it does not stop.
TimerExact == NoSpuriousTimer /\ CountAgrees /\ PeriodicAlive

\* A countdown that the guest armed, in an enabled APIC with an unmasked entry,
\* posts an interrupt unless the guest stops,
\* masks or disables it.
TimerFires ==
    (armed /\ tOn /\ ~tMasked) ~> (posted \/ tMasked \/ ~tOn \/ icr = 0)
============================================================================
