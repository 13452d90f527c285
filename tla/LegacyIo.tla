------------------------------ MODULE LegacyIo ------------------------------
(* The 16550 UART (uart_emul.c). A vcpu accesses its registers, the event      *)
(* thread drains the terminal; both run under the softc's mutex. Bytes typed   *)
(* at the terminal are numbered, a byte the guest loops back is 0.             *)
EXTENDS Integers, Sequences, FiniteSets

CONSTANTS UartFifoSz,   \* size of the receive FIFO once enabled
          MaxTyped,     \* bytes typed at the terminal
          UartOps,      \* register accesses
          Keys,         \* scan codes
          KbdFifoSz,    \* controller buffer
          PsFifoSz,     \* buffer of the keyboard
          MouseFifoSz,
          Limit,        \* largest movement a packet carries
          KbdOps,       \* port accesses of the guest
          Inputs        \* keys and moves reported
VARIABLES uart, kbd

Reasons == {"ls", "rx", "tx", "ms"}
McrBits == {"loop", "rts", "dtr", "out2"}

\* modem_status(): loopback reflects the outputs, otherwise a carrier is shown.
ModemStatus(mcr) ==
    IF "loop" \in mcr
    THEN {[rts |-> "cts", dtr |-> "dsr", out2 |-> "dcd"][b] : b \in mcr \ {"loop"}}
    ELSE {"dcd", "dsr"}

\* uart_init() and uart_set_backend(): no FIFO until software enables it.
UartInit ==
        uart = [ier |-> {}, mcr |-> {}, msr |-> ModemStatus({}), delta |-> {}, fcr |-> FALSE, oe |-> FALSE, thre |-> FALSE, dlab |-> FALSE,
                fifo |-> <<>>, size |-> 1, mev |-> TRUE, tty |-> <<>>, typed |-> 0, read |-> <<>>, dropped |-> FALSE, line |-> FALSE, n |-> 0]

----------------------------------------------------------------------------
(* The receive FIFO: the terminal's event is disabled while it is full.     *)

RxfifoAvailable(s) == Len(s.fifo) < s.size
RxfifoReset(s, size) ==
    [s EXCEPT !.fifo = <<>>, !.size = size, !.tty = <<>>, !.mev = TRUE, !.dropped = @ \/ s.fifo # <<>> \/ s.tty # <<>>]
RxfifoPutchar(s, c) ==
    LET t == [s EXCEPT !.fifo = Append(@, c)] IN [t EXCEPT !.mev = @ /\ RxfifoAvailable(t)]
RxfifoGetchar(s) ==
    IF s.fifo = <<>> THEN s
    ELSE [s EXCEPT !.fifo = Tail(@), !.read = Append(@, Head(s.fifo)), !.mev = @ \/ ~RxfifoAvailable(s)]

\* uart_intr_reason(): by priority.
IntrReason(s) ==
    IF s.oe /\ "ls" \in s.ier THEN "ls"
    ELSE IF s.fifo # <<>> /\ "rx" \in s.ier THEN "rx"
    ELSE IF s.thre /\ "tx" \in s.ier THEN "tx"
    ELSE IF s.delta # {} /\ "ms" \in s.ier THEN "ms"
    ELSE "none"
ToggleIntr(s) == [s EXCEPT !.line = (IntrReason(s) # "none")]

----------------------------------------------------------------------------
UartOp == uart.n < UartOps
Done(s) == uart' = ToggleIntr([s EXCEPT !.n = @ + 1])

\* uart_write(): with DLAB set the first two registers are the divisor's.
WriteData ==
    /\ UartOp /\ ~uart.dlab
    /\ LET s == [uart EXCEPT !.thre = TRUE]
       IN Done(IF "loop" \notin uart.mcr THEN s ELSE IF RxfifoAvailable(s) THEN RxfifoPutchar(s, 0) ELSE [s EXCEPT !.oe = TRUE])
WriteIer(v) ==
    /\ UartOp /\ ~uart.dlab
    /\ Done([uart EXCEPT !.thre = @ \/ ("tx" \notin uart.ier /\ "tx" \in v), !.ier = v])
WriteFcr(enable, reset) ==
    /\ UartOp
    /\ LET s == IF uart.fcr # enable THEN RxfifoReset(uart, IF enable THEN UartFifoSz ELSE 1) ELSE uart
       IN Done([(IF enable /\ reset THEN RxfifoReset(s, UartFifoSz) ELSE s) EXCEPT !.fcr = enable])
WriteMcr(v) ==
    /\ UartOp
    /\ LET msr == ModemStatus(v)
       IN Done([uart EXCEPT !.mcr = v, !.msr = msr, !.delta = @ \union (msr \ uart.msr) \union (uart.msr \ msr)])
WriteLcr(dlab) == UartOp /\ Done([uart EXCEPT !.dlab = dlab])

\* uart_read(): reading IIR, LSR and MSR clears what it reports.
ReadData == UartOp /\ ~uart.dlab /\ Done(RxfifoGetchar(uart))
ReadIir == UartOp /\ Done([uart EXCEPT !.thre = @ /\ IntrReason(uart) # "tx"])
ReadLsr == UartOp /\ Done([uart EXCEPT !.oe = FALSE])
ReadMsr == UartOp /\ Done([uart EXCEPT !.delta = {}])

\* The terminal, and uart_drain() in the event thread. An event returned before
\* the vcpu disabled it still runs the handler.
Type ==
    /\ uart.typed < MaxTyped
    /\ uart' = [uart EXCEPT !.typed = @ + 1, !.tty = Append(@, uart.typed + 1)]
Drain ==
    /\ uart.tty # <<>>
    /\ IF "loop" \in uart.mcr THEN uart' = [uart EXCEPT !.tty = Tail(@), !.dropped = TRUE]
       ELSE LET fill[i \in 0..Len(uart.tty)] ==
                    IF i = 0 THEN uart
                    ELSE IF RxfifoAvailable(fill[i - 1]) THEN [RxfifoPutchar(fill[i - 1], uart.tty[i]) EXCEPT !.tty = Tail(@)] ELSE fill[i - 1]
            IN uart' = ToggleIntr(fill[Len(uart.tty)])

UartNext ==
        \/ WriteData \/ ReadData \/ ReadIir \/ ReadLsr \/ ReadMsr \/ Type \/ Drain
        \/ \E v \in {{}, {"rx"}, {"tx"}, {"ls", "rx", "tx", "ms"}} : WriteIer(v)
        \/ \E enable, reset \in BOOLEAN : WriteFcr(enable, reset)
        \/ \E v \in {{}, {"loop"}, {"loop", "dtr", "out2"}, {"loop", "rts"}} : WriteMcr(v)
        \/ \E d \in BOOLEAN : WriteLcr(d)

----------------------------------------------------------------------------
\* The interrupt line is up exactly while there is a reason for the guest to find.
LineAgrees == uart.line = (IntrReason(uart) # "none")
\* What is typed is never stranded: the event is off only while the FIFO is full, so
\* the read that makes room turns it on again.
InputNotStuck == ~uart.mev => ~RxfifoAvailable(uart)
\* Bytes arrive in the order typed, none twice; none is missing unless a FIFO reset
\* or loopback threw it away.
BytesInOrder ==
    LET q == SelectSeq(uart.read \o uart.fifo \o uart.tty, LAMBDA c : c > 0)
    IN /\ \A i \in 1..Len(q) - 1 : q[i] < q[i + 1]
       /\ ~uart.dropped => Len(q) = uart.typed

-----------------------------------------------------------------------------
(* The keyboard controller (atkbdc.c) with its PS/2 keyboard (ps2kbd.c) and    *)
(* mouse (ps2mouse.c). A vcpu accesses the two ports; the display's thread     *)
(* reports keys and pointer moves, first to a device and then, under another   *)
(* lock, to the controller. Scan codes are names, a pointer moves sideways.    *)

\* A byte on its way: a key's code, a prefix, or an answer; `up' is the bit the
\* controller's translation sets for a released key.
Byte(c) == [c |-> c, up |-> FALSE]
Controls == [xlate : BOOLEAN, kint : {TRUE}, aint : {TRUE}, kdis : {FALSE}, adis : BOOLEAN]

KbdInit ==
       \E cmd \in Controls :
           kbd = [cmd |-> cmd, ctrl |-> FALSE, curcmd |-> "none", ctrlbyte |-> FALSE, full |-> FALSE, aux |-> FALSE, buf |-> <<>>, fifo |-> <<>>,
                  enabled |-> TRUE, kcmd |-> FALSE, mouse |-> <<>>, mon |-> TRUE, mctl |-> ~cmd.adis, mcmd |-> FALSE, x |-> 0, dx |-> 0, tail |-> "no", old |-> FALSE, notice |-> "none",
                  kirq |-> FALSE, airq |-> FALSE, late |-> FALSE, hidden |-> FALSE, lost |-> FALSE, typed |-> <<>>, read |-> <<>>,
                  seen |-> 0, cut |-> FALSE, n |-> 0, k |-> 0]

----------------------------------------------------------------------------
(* ps2kbd.c and ps2mouse.c                                                  *)

\* fifo_put(): what does not fit is dropped.
Put(s, c) == IF Len(s.fifo) < PsFifoSz THEN [s EXCEPT !.fifo = Append(@, Byte(c))] ELSE [s EXCEPT !.lost = TRUE]
PutMouse(s, b) == IF Len(s.mouse) < MouseFifoSz THEN [s EXCEPT !.mouse = Append(@, b)] ELSE s
Flushed(s) == [s EXCEPT !.fifo = <<>>, !.lost = @ \/ s.fifo # <<>>]

\* ps2kbd_write(): commands with an argument, then the commands.
KbdWrite(s, v) ==
    IF s.kcmd THEN Put([s EXCEPT !.kcmd = FALSE], "ack")
    ELSE CASE v = "reset"   -> Put(Put(Flushed(s), "ack"), "bat")
           [] v = "disable" -> Put([s EXCEPT !.enabled = FALSE], "ack")
           [] v = "enable"  -> Put(Flushed([s EXCEPT !.enabled = TRUE]), "ack")
           [] v = "leds"    -> Put([s EXCEPT !.kcmd = TRUE], "ack")

\* movement_get(): three bytes or none; the movement is forgotten either way.
Clamp(d) == IF d > Limit THEN Limit ELSE IF d < -Limit THEN -Limit ELSE d
MovementGet(s) ==
    LET room == Len(s.mouse) < MouseFifoSz - 3
        s1   == [s EXCEPT !.dx = 0, !.cut = @ \/ Clamp(s.dx) # s.dx \/ (~room /\ s.dx # 0)]
    IN IF room THEN [s1 EXCEPT !.mouse = @ \o <<[h |-> "h", d |-> 0], [h |-> "x", d |-> Clamp(s.dx)], [h |-> "y", d |-> 0]>>] ELSE s1
\* ps2mouse_write(): every byte empties the buffer first.
MAck == [h |-> "ack", d |-> 0]
MouseWrite(s0, v) ==
    LET s == [s0 EXCEPT !.mouse = <<>>, !.cut = @ \/ s0.mouse # <<>>]
    IN IF s.mcmd THEN PutMouse([s EXCEPT !.mcmd = FALSE], MAck)
       ELSE CASE v = "reset"   -> PutMouse(PutMouse([s EXCEPT !.mon = TRUE, !.x = 0, !.dx = 0, !.seen = 0, !.cut = FALSE], MAck), [h |-> "bat", d |-> 0])
              [] v = "disable" -> PutMouse([s EXCEPT !.mon = FALSE], MAck)
              [] v = "enable"  -> PutMouse([s EXCEPT !.mon = TRUE], MAck)
              [] v = "data"    -> MovementGet(PutMouse(s, MAck))
              [] v = "rate"    -> PutMouse([s EXCEPT !.mcmd = TRUE], MAck)

----------------------------------------------------------------------------
(* atkbdc.c                                                                 *)

AssertKbd(s) == [s EXCEPT !.kirq = @ \/ s.cmd.kint, !.late = @ \/ ~s.cmd.kint]
AssertAux(s) == [s EXCEPT !.airq = @ \/ s.cmd.aint, !.late = @ \/ ~s.cmd.aint]
QueueData(s, b) ==
    IF Len(s.buf) < KbdFifoSz THEN [s EXCEPT !.buf = Append(@, b), !.full = TRUE] ELSE [s EXCEPT !.lost = TRUE]

\* atkbdc_kbd_read(): translated, one code at a time, its release prefix folded in;
\* otherwise as many bytes as fit.
KbdMove(s) ==
    IF s.cmd.xlate
    THEN LET up == s.fifo # <<>> /\ Head(s.fifo).c = "f0"
             rest == IF up THEN Tail(s.fifo) ELSE s.fifo
         IN IF rest = <<>> THEN [s EXCEPT !.fifo = <<>>]
            ELSE [QueueData(s, [c |-> Head(rest).c, up |-> up]) EXCEPT !.fifo = Tail(rest)]
    ELSE LET k == IF Len(s.fifo) < KbdFifoSz - Len(s.buf) THEN Len(s.fifo) ELSE KbdFifoSz - Len(s.buf)
         IN [s EXCEPT !.buf = @ \o SubSeq(s.fifo, 1, k), !.fifo = SubSeq(@, k + 1, Len(@)), !.full = @ \/ k > 0]
KbdPoll(s0) ==
    LET s == KbdMove(s0) IN IF (s.cmd.adis \/ s.mouse = <<>>) /\ s.buf # <<>> THEN AssertKbd(s) ELSE s
AuxPoll(s) == IF s.mouse # <<>> THEN AssertAux([s EXCEPT !.full = TRUE, !.aux = TRUE, !.hidden = FALSE]) ELSE s
Poll(s) == KbdPoll(AuxPoll(s))

\* atkbdc_dequeue_data(): the mouse first. Without data the guest reads garbage.
Position(s, b) == IF b.h = "x" THEN [s EXCEPT !.seen = @ + b.d] ELSE s
DequeueData(s) ==
    IF s.mouse # <<>>
    THEN LET s1 == Position([s EXCEPT !.mouse = Tail(@), !.airq = FALSE], Head(s.mouse))
         IN Poll(IF s1.mouse = <<>> THEN [s1 EXCEPT !.aux = FALSE, !.full = s1.buf # <<>>] ELSE s1)
    ELSE LET s1 == IF s.buf = <<>> THEN s
                   ELSE Poll([s EXCEPT !.buf = Tail(@), !.kirq = FALSE, !.read = Append(@, Head(s.buf)), !.full = Len(s.buf) > 1])
         IN IF s1.mouse = <<>> /\ s1.buf = <<>> THEN [s1 EXCEPT !.aux = FALSE, !.full = FALSE] ELSE s1

KbdOp == kbd.tail = "no" /\ kbd.n < KbdOps
Count(s) == [s EXCEPT !.n = @ + 1]

\* atkbdc_data_handler(): a read, the argument of a controller command, or a byte
\* for the keyboard.
DataRead ==
    /\ KbdOp
    /\ LET s == [Count(kbd) EXCEPT !.curcmd = "none", !.ctrl = FALSE]
       IN kbd' = IF kbd.ctrlbyte THEN [s EXCEPT !.ctrlbyte = FALSE] ELSE DequeueData(s)
DataWrite(v) ==
    /\ KbdOp
    /\ LET s == [Count(kbd) EXCEPT !.curcmd = "none", !.ctrl = FALSE]
       IN kbd' = CASE ~kbd.ctrl /\ v \in {"reset", "disable", "enable", "leds"} -> Poll(KbdWrite(Count(kbd), v))
                   [] kbd.ctrl /\ kbd.curcmd = "setcmd" /\ v \in {"ints", "noints"} ->
                          [s EXCEPT !.cmd.kint = (v = "ints"), !.cmd.aint = (v = "ints"), !.late = @ \/ s.buf # <<>> \/ s.mouse # <<>>]
                   [] kbd.ctrl /\ kbd.curcmd = "toaux" /\ v \in {"reset", "disable", "enable", "data", "rate"} -> Poll(MouseWrite(s, v))
                   [] kbd.ctrl /\ kbd.curcmd = "kbdout" /\ v = "out" -> QueueData([s EXCEPT !.late = TRUE], Byte("out"))
                   [] OTHER -> kbd
\* atkbdc_sts_ctl_handler(): what it does under the lock, and what it does after.
StsCtl(c) ==
    /\ KbdOp
    /\ LET s == [Count(kbd) EXCEPT !.curcmd = "none", !.ctrl = TRUE, !.ctrlbyte = FALSE, !.tail = "look"]
       IN kbd' = CASE c \in {"setcmd", "toaux", "kbdout"} -> [s EXCEPT !.curcmd = c]
                   [] c = "get"     -> [s EXCEPT !.ctrlbyte = TRUE]
                   [] c = "kbdoff"  -> [s EXCEPT !.cmd.kdis = TRUE]
                   [] c = "kbdon"   -> Poll([s EXCEPT !.cmd.kdis = FALSE, !.full = @ \/ s.buf # <<>>])
                   [] c = "auxoff"  -> [s EXCEPT !.cmd.adis = TRUE, !.mctl = FALSE, !.cut = @ \/ s.mouse # <<>>, !.mouse = <<>>, !.aux = FALSE, !.full = FALSE]
                   [] c = "auxon"   -> [s EXCEPT !.cmd.adis = FALSE, !.mctl = TRUE, !.aux = @ \/ s.mouse # <<>>, !.full = @ \/ s.mouse # <<>>]
\* After the unlock it looks at what there is to show and reads the status ...
StsTail ==
    /\ kbd.tail = "look"
    /\ kbd' = [kbd EXCEPT !.old = kbd.aux,
                          !.tail = IF kbd.ctrlbyte THEN "ctrl"
                                   ELSE IF kbd.mouse # <<>> /\ ~kbd.cmd.adis THEN "aux"
                                   ELSE IF kbd.buf # <<>> /\ ~kbd.cmd.kdis THEN "kbd" ELSE "no"]
\* ... and writes it back, with the bits the display's thread set meanwhile lost.
Stored ==
    LET s == [kbd EXCEPT !.full = TRUE, !.tail = "no", !.old = FALSE]
    IN CASE kbd.tail = "ctrl" -> AssertKbd([s EXCEPT !.aux = FALSE, !.hidden = @ \/ s.mouse # <<>>])
         [] kbd.tail = "aux"  -> AssertAux([s EXCEPT !.aux = TRUE, !.hidden = FALSE])
         [] kbd.tail = "kbd"  -> AssertKbd([s EXCEPT !.aux = kbd.old, !.hidden = @ \/ (kbd.aux /\ ~kbd.old)])
\* Or that thread, which queues a key, has read the status before and writes it after.
StsStore ==
    /\ kbd.tail \in {"ctrl", "aux", "kbd"}
    /\ \/ kbd' = Stored
       \/ /\ kbd.notice = "kbd" /\ kbd.fifo # <<>>
          /\ kbd' = [KbdPoll([Stored EXCEPT !.notice = "none"]) EXCEPT !.aux = kbd.aux, !.hidden = @ \/ ~kbd.aux]

KeysymQueue(s, key, up) == Put(IF up THEN Put(s, "f0") ELSE s, key)
\* The display's thread: ps2kbd_event() and ps2mouse_event() fill the device, then
\* atkbdc_event() polls it.
KeyEvent(key, up) ==
    /\ kbd.notice = "none" /\ kbd.k < Inputs
    /\ LET s == [kbd EXCEPT !.k = @ + 1]
       IN kbd' = IF ~kbd.enabled THEN s
                 ELSE [KeysymQueue(s, key, up) EXCEPT !.typed = Append(@, [c |-> key, up |-> up]), !.notice = IF Len(kbd.fifo) = PsFifoSz THEN "none" ELSE "kbd"]
MouseEvent(d) ==
    /\ kbd.notice = "none" /\ kbd.k < Inputs
    /\ LET s == [kbd EXCEPT !.k = @ + 1, !.x = @ + d, !.dx = @ + d]
       IN kbd' = IF ~kbd.mon \/ ~kbd.mctl THEN s ELSE [MovementGet(s) EXCEPT !.notice = "mouse"]
Notice ==
    /\ kbd.notice # "none"
    /\ kbd' = IF kbd.notice = "kbd" THEN KbdPoll([kbd EXCEPT !.notice = "none"])
              ELSE IF kbd.mouse # <<>> THEN AuxPoll([kbd EXCEPT !.notice = "none"]) ELSE [kbd EXCEPT !.notice = "none"]

Vcpu ==
    \/ DataRead \/ StsTail \/ StsStore
    \/ \E v \in {"reset", "disable", "enable", "leds", "data", "rate", "ints", "noints", "out"} : DataWrite(v)
    \/ \E c \in {"setcmd", "toaux", "kbdout", "get", "kbdoff", "kbdon", "auxoff", "auxon"} : StsCtl(c)
Display == Notice \/ (\E key \in Keys, up \in BOOLEAN : KeyEvent(key, up)) \/ \E d \in {1, -2} : MouseEvent(d)
KbdNext == Vcpu \/ Display

----------------------------------------------------------------------------
IsKey(b) == b.c \in Keys \/ b.c = "f0"
\* What the guest will have read once it has read everything.
InFlight ==
    LET folded[i \in 0..Len(kbd.fifo)] ==
            IF i = 0 THEN <<>>
            ELSE IF kbd.fifo[i].c = "f0" /\ kbd.cmd.xlate THEN folded[i - 1]
            ELSE Append(folded[i - 1], [c |-> kbd.fifo[i].c, up |-> kbd.cmd.xlate /\ i > 1 /\ kbd.fifo[i - 1].c = "f0"])
    IN SelectSeq(kbd.read \o kbd.buf \o folded[Len(kbd.fifo)], IsKey)
Raw(b) == IF b.up THEN <<Byte("f0"), Byte(b.c)>> ELSE <<b>>
Expected ==
    LET raw[i \in 0..Len(kbd.typed)] == IF i = 0 THEN <<>> ELSE raw[i - 1] \o Raw(kbd.typed[i])
    IN IF kbd.cmd.xlate THEN kbd.typed ELSE raw[Len(kbd.typed)]
\* Unless a buffer overflowed or was flushed, the guest reads every key pressed and
\* released, in order, a release never as a press.
KeysExact == ~kbd.lost => InFlight = Expected

Settled == kbd.tail = "no" /\ kbd.notice = "none"
\* Input never waits in a device for something the guest cannot know of: the
\* controller's status shows it and, with interrupts enabled, one was raised since
\* the guest last read.
InputShown ==
    Settled =>
        /\ (kbd.fifo # <<>> => kbd.buf # <<>>)
        /\ (kbd.buf # <<>> /\ ~kbd.cmd.kdis) \/ kbd.mouse # <<>> \/ kbd.ctrlbyte => kbd.full
        /\ (~kbd.late /\ kbd.buf # <<>> /\ kbd.mouse = <<>> /\ ~kbd.cmd.kdis) => kbd.kirq
        /\ (~kbd.late /\ kbd.mouse # <<>>) => kbd.airq
\* A byte of the mouse is marked as one, except after the answer of a controller
\* command that overtook it, or when one thread wrote the status back over the bit
\* the other had set.
AuxMarked == (Settled /\ kbd.mouse # <<>> /\ ~kbd.ctrlbyte /\ ~kbd.hidden) => kbd.aux
\* The movement reported is the movement made: a packet is queued whole.
MovementExact ==
    LET due[i \in 0..Len(kbd.mouse)] == IF i = 0 THEN 0 ELSE due[i - 1] + (IF kbd.mouse[i].h = "x" THEN kbd.mouse[i].d ELSE 0)
    IN ~kbd.cut => kbd.seen + due[Len(kbd.mouse)] + kbd.dx = kbd.x
=============================================================================
