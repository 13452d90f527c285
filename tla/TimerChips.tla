----------------------------- MODULE TimerChips -----------------------------
(* The 8254 timer of vatpit.c, the event timers of vhpet.c and the real-time  *)
(* clock of vrtc.c. Time is counted in ticks of each one's clock; a byte of a *)
(* counter register has Byte values (256 in the code), so that a count is     *)
(* below Byte * Byte and is written and read as two bytes.                    *)
EXTENDS Integers, FiniteSets

CONSTANTS Channels,     \* of 0..2; channel 0 interrupts
          Byte,         \* values of one byte
          Default,      \* TIMER_DIV(PIT_8254_FREQ, 100): count of a channel read before it is loaded
          PitMaxTime,   \* bound: ticks
          PitOps,       \* bound: guest accesses
          Timers,       \* of 0..7
          W,            \* values of the counter
          Pins,         \* I/O APIC pins a guest may route to, 0 stands for none
          Allowed,      \* pins the capability register offers
          HpetMaxTime,  \* bound: ticks
          HpetOps,      \* bound: guest writes
          S,            \* ticks of a second
          Rates,        \* periods of the periodic interrupt in ticks, 0 for none
          MaxTime,      \* bound: ticks
          MaxSecs,      \* bound: seconds of the clock
          RtcOps,       \* bound: guest and host accesses
          Hours, Mins, Years  \* clock times to convert; years are POSIX ones
VARIABLES pit, hpet, clk, conv

Modes    == {"INTTC", "RATEGEN", "SQWAVE", "SWSTROBE"}
Periodic == {"RATEGEN", "SQWAVE"}
Bytes    == 0..(Byte - 1)
MaxCount == Byte * Byte - 1
PitTime     == 0..(PitMaxTime + MaxCount)

\* `loaded': history, a count other than 0 was written since the mode was last set;
\* `pulses': history, interrupts since the count was written.
Channel == [mode : Modes, initial : 0..MaxCount, nowBt : PitTime, cr : Bytes, crbyte : 0..1,
            ol : Bytes \X Bytes, olbyte : 0..2, frbyte : 0..1, slatched : BOOLEAN, out : BOOLEAN,
            nullcnt : BOOLEAN, loaded : BOOLEAN]
PitTypeOK ==
    /\ pit.ch \in [Channels -> Channel] /\ pit.now \in 0..PitMaxTime
    /\ pit.callout \in [pending : BOOLEAN, active : BOOLEAN, due : PitTime] /\ pit.running \in BOOLEAN

PitInit ==
       pit = [ch |-> [c \in Channels |-> [mode |-> "INTTC", initial |-> 0, nowBt |-> 0, cr |-> 0, crbyte |-> 0,
                  ol |-> <<0, 0>>, olbyte |-> 0, frbyte |-> 0, slatched |-> FALSE, out |-> FALSE,
                  nullcnt |-> FALSE, loaded |-> FALSE]],
              callout |-> [pending |-> FALSE, active |-> FALSE, due |-> 0], running |-> FALSE,
              now |-> 0, pulses |-> 0, ops |-> 0]

DeltaTicks(ch) == pit.now - ch.nowBt

GetOut(ch) ==
    CASE ch.mode = "INTTC"  -> DeltaTicks(ch) >= ch.initial
      [] ch.mode = "SQWAVE" -> DeltaTicks(ch) % ch.initial < ch.initial \div 2
      [] OTHER              -> FALSE

----------------------------------------------------------------------------
(* The callout of channel 0                                                 *)

\* pit_timer_start_cntr0() with the callout time already set to `from'.
TimerStart(s, from) ==
    LET delta == s.ch[0].initial
        due == IF from + delta < s.now THEN s.now + delta ELSE from + delta
    IN IF delta = 0 THEN [s EXCEPT !.callout.due = from]
       ELSE [s EXCEPT !.callout = [pending |-> TRUE, active |-> TRUE, due |-> due]]

\* The callout thread takes the expired callout and will wait for the mutex;
\* it runs one handler of a callout at a time.
PitSoftClock ==
    /\ pit.callout.pending /\ pit.callout.due <= pit.now /\ ~pit.running
    /\ pit' = [pit EXCEPT !.callout.pending = FALSE, !.running = TRUE]

Expired(s0) ==
    LET s == [s0 EXCEPT !.callout.active = FALSE, !.pulses = @ + 1]
    IN IF s.ch[0].mode \in Periodic THEN TimerStart(s, s.callout.due) ELSE s

\* vatpit_callout_handler(): nothing to do when it was reset or stopped meanwhile.
CalloutHandler ==
    /\ pit.running
    /\ pit' = IF pit.callout.pending \/ ~pit.callout.active THEN [pit EXCEPT !.running = FALSE]
              ELSE Expired([pit EXCEPT !.running = FALSE])

----------------------------------------------------------------------------
(* Guest accesses                                                           *)

PitAccess == pit.ops < PitOps
Set(c, ch) == pit' = [pit EXCEPT !.ops = @ + 1, !.ch[c] = ch]

\* pit_update_counter(): a channel without a count starts from the default one.
WithCount(ch) ==
    IF ch.initial # 0 THEN ch ELSE [ch EXCEPT !.initial = Default, !.nowBt = pit.now, !.nullcnt = FALSE]
Count(ch) ==
    LET d == DeltaTicks(ch)
    IN IF ch.mode # "SQWAVE" THEN ch.initial - (d % ch.initial)
       ELSE LET v == ch.initial - ((2 * d) % ch.initial) IN v - (v % 2)
Latched(ch) ==
    IF ch.olbyte # 0 THEN ch
    ELSE LET w == WithCount(ch)
         IN [w EXCEPT !.olbyte = 2, !.ol = <<Count(w) \div Byte, Count(w) % Byte>>]

\* vatpit_update_mode(): the callout of the old mode is left running.
UpdateMode(c, mode) ==
    PitAccess /\ Set(c, [pit.ch[c] EXCEPT !.mode = mode, !.olbyte = 0, !.nullcnt = TRUE, !.loaded = FALSE])
LatchCommand(c) == PitAccess /\ Set(c, Latched(pit.ch[c]))

\* pit_readback(): status is asked of a square wave only after its count is loaded.
Readback1(ch, cnt, st) ==
    LET a == IF cnt THEN Latched(ch) ELSE ch
    IN IF st /\ ~a.slatched THEN [a EXCEPT !.slatched = TRUE, !.out = GetOut(a)] ELSE a
Readback(cs, cnt, st) ==
    /\ PitAccess
    /\ st => \A c \in cs : pit.ch[c].mode = "SQWAVE" => pit.ch[c].initial # 0
    /\ pit' = [pit EXCEPT !.ops = @ + 1, !.ch = [c \in Channels |-> IF c \in cs THEN Readback1(@[c], cnt, st) ELSE @[c]]]

\* A read of a counter port: latched status, latched count, or the running count.
ReadCounter(c) ==
    LET ch == pit.ch[c]
    IN /\ PitAccess
       /\ Set(c, CASE ch.slatched    -> [ch EXCEPT !.slatched = FALSE, !.out = FALSE, !.nullcnt = FALSE]
                   [] ~ch.slatched /\ ch.olbyte = 0 -> [WithCount(ch) EXCEPT !.frbyte = 1 - @]
                   [] OTHER          -> [ch EXCEPT !.olbyte = @ - 1])

\* The second byte loads the count; only then is a count of 0 made the largest.
Load(c, ch, b) ==
    LET v == ch.cr + Byte * b
        n == [ch EXCEPT !.cr = 0, !.crbyte = 0, !.nullcnt = FALSE, !.frbyte = 0, !.initial = v, !.nowBt = pit.now,
                        !.loaded = v # 0]
        s == [pit EXCEPT !.ops = @ + 1, !.ch[c] = n, !.pulses = IF c = 0 THEN 0 ELSE @]
        t == IF c = 0 THEN TimerStart(s, pit.now) ELSE s
    IN IF v = 0 THEN [t EXCEPT !.ch[c].initial = MaxCount] ELSE t
WriteCounter(c, b) ==
    /\ PitAccess
    /\ LET ch == pit.ch[c]
       IN IF ch.crbyte = 0 THEN Set(c, [ch EXCEPT !.cr = b, !.crbyte = 1]) ELSE pit' = Load(c, ch, b)

PitTick == pit.now < PitMaxTime /\ pit' = [pit EXCEPT !.now = @ + 1]

PitGuest ==
    \E c \in Channels :
        \/ \E mode \in Modes : UpdateMode(c, mode)
        \/ LatchCommand(c) \/ ReadCounter(c)
        \/ \E b \in Bytes : WriteCounter(c, b)
GuestReadback == \E cs \in (SUBSET Channels) \ {{}}, cnt, st \in BOOLEAN : Readback(cs, cnt, st)

PitNext == PitGuest \/ GuestReadback \/ PitSoftClock \/ CalloutHandler \/ PitTick

----------------------------------------------------------------------------
(* Properties                                                               *)

\* Channel 0 in a periodic mode with a count of its own is never left without
\* its callout, which is due within one period (a count of 0 is the exception:
\* no timer is started for it).
PeriodicArmed ==
    LET ch == pit.ch[0]
    IN ch.loaded /\ ch.mode \in Periodic
       => \/ pit.callout.pending /\ pit.callout.due <= pit.now + ch.initial
          \/ pit.running /\ pit.callout.active

\* The timer never interrupts ahead of time: n interrupts since the count was
\* written took at least n periods, also when a handler that already waits for
\* the mutex is overtaken by the guest reprogramming the channel.
NoEarlyInterrupt ==
    pit.ch[0].loaded => pit.pulses * pit.ch[0].initial <= DeltaTicks(pit.ch[0])

-----------------------------------------------------------------------------
(* The HPET of vhpet.c. Time is counted in ticks of the main counter, which   *)
(* wraps at W (2^32 in the code).                                             *)

Cnt == 0..(W - 1)
Config == [intr : BOOLEAN, periodic : BOOLEAN, level : BOOLEAN, msi : BOOLEAN, route : Pins, valset : BOOLEAN]
Timer == [cfg : Config, comp : Cnt, rate : Cnt, due : 0..(HpetMaxTime + W),
          pending : BOOLEAN, active : BOOLEAN, running : BOOLEAN]

\* `line': how often each pin is asserted.
HpetTypeOK ==
    /\ hpet.tm \in [Timers -> Timer] /\ hpet.en \in BOOLEAN /\ hpet.isr \subseteq Timers
    /\ hpet.base \in Cnt /\ hpet.baseT \in 0..HpetMaxTime /\ hpet.line \in [Pins -> Int]

HpetInit ==
        hpet = [tm |-> [n \in Timers |-> [cfg |-> [intr |-> FALSE, periodic |-> FALSE, level |-> FALSE, msi |-> FALSE,
                                                   route |-> 0, valset |-> FALSE],
                                          comp |-> W - 1, rate |-> 0, due |-> 0,
                                          pending |-> FALSE, active |-> FALSE, running |-> FALSE]],
                en |-> FALSE, isr |-> {}, base |-> 0, baseT |-> 0, line |-> [p \in Pins |-> 0], now |-> 0, ops |-> 0]

IoapicPin(cfg) == IF cfg.msi THEN 0 ELSE cfg.route
CounterAt(s, t) == IF s.en THEN (s.base + t - s.baseT) % W ELSE s.base
Counter(s) == CounterAt(s, s.now)

----------------------------------------------------------------------------
(* Interrupts and timers                                                    *)

\* vhpet_timer_interrupt(): only a level-triggered interrupt stays.
TimerInterrupt(s, n) ==
    LET cfg == s.tm[n].cfg
        pin == IoapicPin(cfg)
    IN IF ~cfg.intr \/ n \in s.isr \/ pin = 0 \/ ~cfg.level THEN s
       ELSE [s EXCEPT !.isr = @ \cup {n}, !.line[pin] = @ + 1]

\* vhpet_adjust_compval(): the next multiple of the rate after the counter.
AdjustCompval(t, counter) ==
    IF t.rate = 0 THEN t.comp
    ELSE (t.comp + (((counter - t.comp) % W) \div t.rate + 1) * t.rate) % W

StartTimer(s, n, counter) ==
    LET comp == AdjustCompval(s.tm[n], counter)
    IN [s EXCEPT !.tm[n] = [@ EXCEPT !.comp = comp, !.due = s.now + ((comp - counter) % W),
                                     !.pending = TRUE, !.active = TRUE]]

\* vhpet_stop_timer(): an expiry that was not handled yet is delivered here.
StopTimer(s, n) ==
    LET t == [s EXCEPT !.tm[n].pending = FALSE, !.tm[n].active = FALSE]
    IN IF s.tm[n].due < s.now THEN TimerInterrupt(t, n) ELSE t

AllTimers(s, Op(_, _)) ==
    LET after[ns \in SUBSET Timers] ==
            IF ns = {} THEN s ELSE LET n == CHOOSE n \in ns : TRUE IN Op(after[ns \ {n}], n)
    IN after[Timers]

StartCounting(s0) ==
    LET s == [s0 EXCEPT !.baseT = s0.now]
        Start(r, n) == StartTimer(r, n, s.base)
    IN AllTimers(s, Start)
StopCounting(s, counter) == AllTimers([s EXCEPT !.base = counter], StopTimer)

HpetSoftClock(n) ==
    /\ hpet.tm[n].pending /\ hpet.tm[n].due <= hpet.now /\ ~hpet.tm[n].running
    /\ hpet' = [hpet EXCEPT !.tm[n].pending = FALSE, !.tm[n].running = TRUE]

\* vhpet_handler(): the counter is enabled, or it panics.
Handler(n) ==
    /\ hpet.tm[n].running
    /\ LET s == [hpet EXCEPT !.tm[n].running = FALSE]
       IN hpet' = IF s.tm[n].pending \/ ~s.tm[n].active THEN s
                  ELSE TimerInterrupt(StartTimer(s, n, Counter(s)), n)

----------------------------------------------------------------------------
(* vhpet_mmio_write()                                                       *)

HpetTick(s) == [s EXCEPT !.ops = @ + 1]
HpetAccess == hpet.ops < HpetOps

ConfigWrite(en) ==
    /\ HpetAccess /\ en # hpet.en
    /\ hpet' = LET s == [HpetTick(hpet) EXCEPT !.en = en]
               IN IF en THEN StartCounting(s) ELSE StopCounting(s, Counter(hpet))

\* vhpet_timer_clear_isr() of every bit written.
IsrWrite(ns) ==
    /\ HpetAccess /\ ns \subseteq hpet.isr /\ ns # {}
    /\ hpet' = [HpetTick(hpet) EXCEPT !.isr = @ \ ns,
                   !.line = [p \in Pins |-> @[p] - Cardinality({n \in ns : IoapicPin(hpet.tm[n].cfg) = p})]]

\* Mutant: the running timers are not restarted after the write.
CounterWrite_NoRestart(v) == HpetAccess /\ hpet' = [HpetTick(hpet) EXCEPT !.base = v, !.baseT = hpet.now]
CounterWrite(v) ==
    /\ HpetAccess
    /\ hpet' = LET s == [HpetTick(hpet) EXCEPT !.base = v] IN IF s.en THEN StartCounting(s) ELSE s

\* vhpet_timer_update_config(): an interrupt that can no longer be cleared by the
\* guest is withdrawn.
Routed(cfg) == IF cfg.msi \/ cfg.route \in Allowed THEN cfg ELSE [cfg EXCEPT !.route = 0]
Withdrawn(old, new) == ~new.intr \/ new.msi \/ ~new.level \/ IoapicPin(new) # IoapicPin(old)
CapCnfWrite(n, cfg) ==
    LET old == hpet.tm[n].cfg
        new == Routed(cfg)
        s == [HpetTick(hpet) EXCEPT !.tm[n].cfg = new, !.tm[n].rate = IF new.periodic THEN @ ELSE 0]
    IN /\ HpetAccess /\ cfg # old
       /\ hpet' = IF n \in hpet.isr /\ Withdrawn(old, new)
                  THEN [s EXCEPT !.isr = @ \ {n}, !.line[IoapicPin(old)] = @ - 1] ELSE s

\* In periodic mode the write sets the rate, and the comparator only after VAL_SET.
ComparatorWrite(n, v) ==
    LET t == hpet.tm[n]
        new == IF t.cfg.periodic THEN [t EXCEPT !.rate = v, !.comp = IF t.cfg.valset THEN v ELSE @, !.cfg.valset = FALSE]
               ELSE [t EXCEPT !.comp = v, !.cfg.valset = FALSE]
        s == [HpetTick(hpet) EXCEPT !.tm[n] = new]
    IN /\ HpetAccess
       /\ hpet' = IF (new.comp # t.comp \/ new.rate # t.rate) /\ hpet.en THEN StartTimer(s, n, Counter(s)) ELSE s

HpetTime == hpet.now < HpetMaxTime /\ hpet' = [hpet EXCEPT !.now = @ + 1]

HpetGuest ==
    \/ \E en \in BOOLEAN : ConfigWrite(en)
    \/ \E ns \in SUBSET Timers : IsrWrite(ns)
    \/ \E v \in Cnt : CounterWrite(v)
GuestTimer ==
    \E n \in Timers : (\E cfg \in Config : CapCnfWrite(n, cfg)) \/ \E v \in Cnt : ComparatorWrite(n, v)
Callouts == \E n \in Timers : HpetSoftClock(n) \/ Handler(n)
HpetNext == HpetGuest \/ GuestTimer \/ Callouts \/ HpetTime

----------------------------------------------------------------------------
(* Properties                                                               *)

\* An I/O APIC pin is held asserted exactly by the timers whose status bit is
\* set and that are routed to it, and such a timer is enabled, level-triggered
\* and not an MSI one: the panics and assertions of vhpet_timer_update_config()
\* and vhpet_timer_clear_isr() cannot happen, and no pin stays asserted.
LineAgrees ==
    /\ \A p \in Pins : hpet.line[p] = Cardinality({n \in hpet.isr : IoapicPin(hpet.tm[n].cfg) = p})
    /\ \A n \in hpet.isr : LET cfg == hpet.tm[n].cfg IN cfg.intr /\ cfg.level /\ IoapicPin(cfg) # 0

\* While the counter runs every timer has a callout, due when the counter has
\* the value of the comparator ("time when counter==compval") and at most a
\* period away; when it is stopped none is left to panic vhpet_handler().
DueAgrees ==
    \A n \in Timers :
        LET t == hpet.tm[n]
        IN /\ t.active = hpet.en
           /\ hpet.en => CounterAt(hpet, t.due) = t.comp /\ (t.pending \/ t.running)
           /\ hpet.en /\ t.rate # 0 => t.due <= hpet.now + t.rate

----------------------------------------------------------------------------
(* The real-time clock: its time base, its three interrupts and the callout *)
(* that drives them. Uptime is counted in ticks, S to a second; the date and *)
(* time fields are one value, `conv' has their format.                      *)

Broken == -1    \* VRTC_BROKEN_TIME
Secs   == 0..MaxSecs
RegB   == [halt : BOOLEAN, alarm : BOOLEAN, period : BOOLEAN, update : BOOLEAN]

\* `stopped': an invalid time stopped the guest (rtc_flag_broken_time);
\* `owed': history, the alarm time passed and was not signalled yet.
RtcTypeOK ==
    /\ clk.div \in BOOLEAN /\ clk.rate \in Rates /\ clk.b \in RegB /\ clk.irqf \in BOOLEAN
    /\ clk.c \subseteq {"alarm", "period", "update"} /\ clk.base \in Secs \cup {Broken}
    /\ clk.fields \in Secs \cup {Broken} /\ clk.at \in Secs /\ clk.baseT \in 0..MaxTime

RtcInit ==
       clk = [div |-> TRUE, rate |-> 0, b |-> [halt |-> FALSE, alarm |-> FALSE, period |-> FALSE, update |-> FALSE],
              c |-> {}, irqf |-> FALSE, base |-> 0, baseT |-> 0, fields |-> 0, at |-> 0, now |-> 0,
              callout |-> [pending |-> FALSE, active |-> FALSE, due |-> 0], running |-> FALSE,
              stopped |-> FALSE, owed |-> FALSE, ops |-> 0]

UpdateEnabled(s) == s.div /\ ~s.b.halt /\ s.base # Broken
Elapsed(s) == IF UpdateEnabled(s) THEN (s.now - s.baseT) \div S ELSE 0
Curtime(s) == s.base + Elapsed(s)
Basetime(s) == s.baseT + S * Elapsed(s)

\* secs_to_rtc(): while halted the fields belong to the guest.
RtcSecsToRtc(s, t) == IF t = Broken \/ s.b.halt THEN s ELSE [s EXCEPT !.fields = t]

----------------------------------------------------------------------------
(* Interrupts                                                               *)

Enabled(b) == {x \in {"alarm", "period", "update"} : b[x]}
\* vrtc_set_reg_c(): a pulse when the interrupt flag rises.
SetRegC(s, new) == [s EXCEPT !.c = new, !.irqf = Enabled(s.b) \cap new # {},
                             !.owed = @ /\ "alarm" \notin new]

\* vrtc_time_update(): with the alarm enabled every second in between is visited.
\* A halted clock refuses a new time, after its base was moved.
Ring(s) == IF s.b.alarm /\ s.fields = s.at THEN SetRegC(s, s.c \cup {"alarm"}) ELSE s
UpdateFlag(s) == IF s.b.update THEN SetRegC(s, s.c \cup {"update"}) ELSE s
TimeUpdate(s0, newtime, newbase) ==
    LET s == [s0 EXCEPT !.baseT = newbase]
        visit == IF s.b.alarm /\ s.base # Broken THEN s.base + 1 ELSE newtime
        after[t \in (visit - 1)..newtime] ==
            IF t = visit - 1 THEN s
            ELSE LET r == [after[t - 1] EXCEPT !.base = t]
                 IN IF r.b.alarm THEN Ring(RtcSecsToRtc(r, t)) ELSE r
    IN IF newtime = s0.base THEN s
       ELSE IF newtime = Broken THEN [s EXCEPT !.base = Broken]
       ELSE IF s.b.halt THEN s
       ELSE UpdateFlag(after[newtime])

\* vrtc_freq(): the period of the callout, 0 for none.
Freq(s) ==
    CASE s.b.period /\ s.div -> s.rate
      [] ~(s.b.period /\ s.div) /\ (s.b.alarm \/ s.b.update) /\ UpdateEnabled(s) -> S
      [] OTHER -> 0

CalloutReset(s, f) ==
    [s EXCEPT !.callout = IF f = 0 THEN [@ EXCEPT !.pending = FALSE, !.active = FALSE]
                          ELSE [pending |-> TRUE, active |-> TRUE, due |-> s.now + f]]
Retimed(old, s) == IF Freq(s) # Freq(old) THEN CalloutReset(s, Freq(s)) ELSE s

SoftClock ==
    /\ clk.callout.pending /\ clk.callout.due <= clk.now /\ ~clk.running
    /\ clk' = [clk EXCEPT !.callout.pending = FALSE, !.running = TRUE]

\* vrtc_callout_handler(): asserts that an interrupt is enabled, that the time
\* can be updated and that there is a next period.
RtcCalloutHandler ==
    /\ clk.running /\ ~clk.stopped
    /\ LET s == [clk EXCEPT !.running = FALSE]
           p == IF s.b.period THEN SetRegC(s, s.c \cup {"period"}) ELSE s
           u == IF s.b.alarm \/ s.b.update THEN TimeUpdate(p, Curtime(p), Basetime(p)) ELSE p
       IN clk' = IF s.callout.pending \/ ~s.callout.active THEN s
                 ELSE CalloutReset([u EXCEPT !.callout.active = FALSE], Freq(u))

----------------------------------------------------------------------------
(* vrtc_data_handler(): every access first brings the time up to date       *)

Access == clk.ops < RtcOps /\ ~clk.stopped
Current(s) == TimeUpdate([s EXCEPT !.ops = @ + 1], Curtime(s), Basetime(s))
Refreshed(s) == LET u == Current(s) IN RtcSecsToRtc(u, Curtime(s))

ReadRegC == Access /\ clk' = SetRegC(Current(clk), {})
ReadTime == Access /\ clk' = Refreshed(clk)

\* vrtc_set_reg_a(): the base moves when the divider leaves reset.
SetRegA(div, rate) ==
    /\ Access /\ <<div, rate>> # <<clk.div, clk.rate>>
    /\ LET u == Current(clk)
       IN clk' = Retimed(u, [u EXCEPT !.div = div, !.rate = rate,
                                      !.baseT = IF div /\ ~u.div THEN u.now ELSE @])

\* vrtc_set_reg_b(): halting saves the time in the fields and disables the update
\* interrupt; the fields become the time again when the halt ends.
SetRegB(b) ==
    LET u == Current(clk)
        s == [u EXCEPT !.b = b]
        halted == [TimeUpdate([s EXCEPT !.fields = IF u.base = Broken THEN @ ELSE Curtime(s)], Broken, Basetime(s))
                       EXCEPT !.b.update = FALSE]
        t == IF b.halt = u.b.halt THEN s ELSE IF b.halt THEN halted ELSE TimeUpdate(s, s.fields, s.now)
        f == IF Enabled(b) = Enabled(u.b) THEN t ELSE SetRegC(t, t.c)
    IN /\ Access /\ b # clk.b
       /\ clk' = IF u.b.halt /\ ~b.halt /\ s.fields = Broken THEN [s EXCEPT !.stopped = TRUE]
                 ELSE Retimed(u, f)

\* Writing the date and time; the century byte (`century') sets the time at once
\* when the clock is not halted. With the alarm enabled a time in the past would
\* be reached only by counting through every second up to it again.
WriteFields(v, century) ==
    LET u == Refreshed(clk)
        s == [u EXCEPT !.fields = v, !.owed = @ /\ ~(century /\ ~u.b.halt)]
    IN /\ Access
       /\ century /\ ~clk.b.halt /\ clk.b.alarm => v >= Curtime(clk) \/ v = Broken
       /\ clk' = IF ~century \/ s.b.halt THEN s
                 ELSE [TimeUpdate(s, v, s.now) EXCEPT !.stopped = (v = Broken)]

WriteAlarm(v) == Access /\ clk' = [Refreshed(clk) EXCEPT !.at = v]

\* vrtc_set_time(), an ioctl of the host.
SetTime(v) ==
    /\ Access /\ (clk.b.alarm /\ clk.base # Broken => v >= Curtime(clk))
    /\ clk' = TimeUpdate([clk EXCEPT !.ops = @ + 1, !.owed = FALSE], v, clk.now)

\* vrtc_reset(): leaves the halt bit alone.
Reset ==
    /\ Access
    /\ LET s == [clk EXCEPT !.ops = @ + 1, !.b.alarm = FALSE, !.b.period = FALSE, !.b.update = FALSE, !.owed = FALSE]
           f == IF Enabled(clk.b) = {} THEN s ELSE SetRegC(s, s.c)
       IN clk' = SetRegC(Retimed(clk, f), {})

Tick ==
    /\ clk.now < MaxTime
    /\ LET s == [clk EXCEPT !.now = @ + 1]
       IN /\ Curtime(s) <= MaxSecs
          /\ clk' = [s EXCEPT !.owed = @ \/ (s.b.alarm /\ Curtime(s) # Curtime(clk) /\ Curtime(s) = s.at)]

Registers ==
    \/ ReadRegC \/ ReadTime \/ Reset
    \/ \E div \in BOOLEAN, rate \in Rates : SetRegA(div, rate)
    \/ \E b \in RegB : SetRegB(b)
Fields ==
    \/ \E v \in Secs \cup {Broken}, century \in BOOLEAN : WriteFields(v, century)
    \/ \E v \in Secs : WriteAlarm(v) \/ SetTime(v)
RtcNext == Registers \/ Fields \/ SoftClock \/ RtcCalloutHandler \/ Tick

----------------------------------------------------------------------------
(* Properties, of a guest that was not stopped for an invalid time          *)

\* The assertions of vrtc_callout_check() and of vrtc_callout_handler(): the
\* callout is active exactly when an enabled interrupt needs it, due within its
\* period, whatever registers were written while its handler waited for the lock.
CalloutAgrees ==
    ~clk.stopped =>
         /\ clk.callout.active = (Freq(clk) # 0)
         /\ clk.callout.pending => clk.callout.due <= clk.now + Freq(clk)
         /\ clk.callout.active => clk.callout.pending \/ clk.running

\* The clock is without a time exactly while the guest has halted it (so the
\* assertion on vrtc_time_update()'s result holds), and an enabled interrupt
\* whose flag is set is shown by the interrupt flag.
TimeOwned ==
    ~clk.stopped =>
         /\ clk.b.halt = (clk.base = Broken)
         /\ Enabled(clk.b) \cap clk.c # {} => clk.irqf

\* No alarm is skipped: once the time base has caught up with the clock, an alarm
\* time that passed while the interrupt was enabled has been signalled.
AlarmKept == ~clk.stopped /\ clk.owed => clk.base # Curtime(clk)

-----------------------------------------------------------------------------
(* The format of the date and time fields of vrtc.c: binary or BCD, 24-hour   *)
(* or 12-hour with the PM bit. A clock time is converted to the fields, the   *)
(* guest may change the format, and the fields are converted back.            *)

Base == 1970
PM   == 128
MaxYear == 9999   \* rtcset() asserts a century below 100, which binary fields do not ensure
Format == [bin : BOOLEAN, h24 : BOOLEAN]
None == [ok |-> FALSE, hour |-> 0, min |-> 0, year |-> 0]

Rtcset(f, v) == IF f.bin THEN v ELSE 16 * (v \div 10) + (v % 10)
\* -1 for a byte that is no BCD number.
Rtcget(f, v) == IF f.bin THEN v ELSE IF v % 16 > 9 \/ v \div 16 > 9 THEN -1 ELSE 10 * (v \div 16) + (v % 16)

Hour12(h) == IF h \in {0, 12} THEN 12 ELSE h % 12
ConvSecsToRtc(f, ct) ==
    [hour |-> IF f.h24 THEN Rtcset(f, ct.hour) ELSE Rtcset(f, Hour12(ct.hour)) + (IF ct.hour >= 12 THEN PM ELSE 0),
     min |-> Rtcset(f, ct.min), year |-> Rtcset(f, ct.year % 100), century |-> Rtcset(f, ct.year \div 100)]

\* The hour as the guest stored it: -1 for an invalid one.
Hour24(f, v) ==
    LET h == Rtcget(f, IF v >= PM THEN v - PM ELSE v)
    IN IF f.h24 THEN Rtcget(f, v)
       ELSE IF h \notin 1..12 THEN -1
       ELSE (IF h = 12 THEN 0 ELSE h) + (IF v >= PM THEN 12 ELSE 0)

RtcToSecs(f, rtc) ==
    LET hour == Hour24(f, rtc.hour)
        min == Rtcget(f, rtc.min)
        yy == Rtcget(f, rtc.year)
        cc == Rtcget(f, rtc.century)
    IN IF hour \notin 0..23 \/ min \notin 0..59 \/ yy \notin 0..99 \/ cc = -1 \/ 100 * cc + yy < Base THEN None
       ELSE [ok |-> TRUE, hour |-> hour, min |-> min, year |-> 100 * cc + yy]

ConvInit ==
        \E f \in Format, h \in Hours, m \in Mins, y \in Years :
            LET ct == [ok |-> TRUE, hour |-> h, min |-> m, year |-> y]
            IN conv = [ct |-> ct, f |-> f, rtc |-> ConvSecsToRtc(f, ct), halted |-> FALSE]

\* The guest halts the clock, which fixes the fields, and may then rewrite the
\* format bits with the halt still set, before it
\* ends it. An invalid time stops it.
Halt == ~conv.halted /\ conv' = [conv EXCEPT !.halted = TRUE, !.rtc = ConvSecsToRtc(conv.f, conv.ct)]
SetFormat(f) ==
    /\ f # conv.f
    /\ conv' = IF conv.halted THEN [conv EXCEPT !.f = f]
               ELSE [conv EXCEPT !.f = f, !.rtc = ConvSecsToRtc(f, conv.ct)]
Resume == conv.halted /\ conv' = [conv EXCEPT !.halted = FALSE, !.ct = RtcToSecs(conv.f, conv.rtc)]
ConvNext == conv.ct.ok /\ conv.ct.year <= MaxYear /\ (Halt \/ Resume \/ \E f \in Format : SetFormat(f))

\* A time the clock wrote is read back unchanged in the format it was written in,
\* midnight and noon included; read in another format it is another valid time or
\* it is refused.
RoundTrip ==
    /\ conv.ct.ok /\ conv.ct.year <= MaxYear /\ conv.rtc = ConvSecsToRtc(conv.f, conv.ct) => RtcToSecs(conv.f, conv.rtc) = conv.ct
    /\ conv.ct.ok => conv.ct.hour \in 0..23 /\ conv.ct.min \in 0..59 /\ conv.ct.year >= Base
=============================================================================
