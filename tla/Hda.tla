-------------------------------- MODULE Hda --------------------------------
(* An output stream of the HD audio controller (pci_hda.c) and the codec's     *)
(* audio thread that empties it (hda_codec.c). The thread takes no lock of the *)
(* controller: it works on the stream while the guest's vcpu writes registers. *)
EXTENDS Integers, Sequences

CONSTANTS Lists,       \* buffer descriptor lists: sequences of [len, ioc]
          Count,       \* words the thread moves in one transfer
          StreamTags,  \* stream tags the guest uses
          HdaOps,      \* register writes of the guest
          Size,        \* entries of either ring
          Verbs,       \* commands the guest sends (see Answer)
          RintCnts     \* values of RINTCNT
VARIABLES strm, ctlr

Len0(l, k) == LET sum[i \in 0..k] == IF i = 0 THEN 0 ELSE sum[i - 1] + l[i].len IN sum[k]
Total(l) == Len0(l, Len(l))
\* Where the stream stands in its list, counted in words.
Position(s) == Len0(s.bdl, s.be - 1) + s.bp

StreamTypeOK ==
    /\ strm.be \in 1..Len(strm.bdl) /\ strm.bp \in 0..Total(strm.bdl) /\ strm.lpib \in Nat
    /\ strm.thr \in {"wait", "check", "begin", "move", "bcis", "compute", "apply"} /\ strm.cpu \in {"idle", "start", "compute", "apply"}
    /\ strm.tag \in StreamTags \cup {0} /\ strm.conv \in StreamTags \cup {0} /\ strm.map \subseteq StreamTags

StreamInit ==
          \E l \in Lists :
              strm = [bdl |-> l, run |-> FALSE, tag |-> 0, be |-> 1, bp |-> 0, sdrun |-> FALSE, lpib |-> 0, bcis |-> FALSE, conv |-> 0, map |-> {},
                      actx |-> FALSE, thr |-> "wait", left |-> 0, pos |-> 0, irq |-> FALSE, ttarget |-> FALSE, cpu |-> "idle", ctarget |-> FALSE,
                      lintr |-> FALSE, owed |-> FALSE, moved |-> 0, raced |-> FALSE, overlap |-> FALSE, misuse |-> FALSE, out |-> "run", n |-> 0]

----------------------------------------------------------------------------
(* The guest's vcpu                                                         *)

Write == strm.cpu = "idle" /\ strm.n < HdaOps
Did(s) == [s EXCEPT !.n = @ + 1]
Busy == strm.thr # "wait" \/ strm.actx

\* hda_stream_start(): the list is read, the position reset, then the codec is
\* notified, whose hda_audio_ctxt_start() needs the thread's mutex.
StreamStart(t) ==
    /\ Write /\ ~strm.sdrun
    /\ LET s == [Did(strm) EXCEPT !.sdrun = TRUE, !.run = TRUE, !.tag = t, !.be = 1, !.bp = 0, !.lpib = 0, !.map = @ \cup {t},
                                  !.moved = 0, !.raced = @ \/ strm.thr = "move", !.misuse = @ \/ (Busy /\ t # strm.conv)]
       IN strm' = IF t = strm.conv /\ ~strm.actx THEN [s EXCEPT !.cpu = "start"] ELSE s
CtxtStart == strm.cpu = "start" /\ strm.thr = "wait" /\ \E ok \in BOOLEAN : strm' = [strm EXCEPT !.cpu = "idle", !.actx = ok]
\* hda_codec_notify() asserts a stream tag.
Notified(s, t) == IF t = 0 THEN [s EXCEPT !.out = "abort"] ELSE IF t = s.conv THEN [s EXCEPT !.actx = FALSE] ELSE s
StreamStop == Write /\ strm.sdrun /\ strm' = Notified([Did(strm) EXCEPT !.sdrun = FALSE, !.run = FALSE], strm.tag)
\* hda_stream_reset(), by a write that also clears RUN.
StreamReset ==
    /\ Write
    /\ LET s == [Did(strm) EXCEPT !.run = FALSE, !.tag = 0, !.be = 1, !.bp = 0, !.lpib = 0, !.bcis = FALSE, !.sdrun = FALSE, !.moved = 0,
                                  !.raced = @ \/ Busy, !.overlap = @ \/ Busy, !.misuse = @ \/ strm.sdrun, !.owed = FALSE]
       IN strm' = IF strm.sdrun THEN Notified(s, 0) ELSE s
\* SET_CONV_STREAM_CHAN: stream 0 stops the thread.
SetConv(t) ==
    /\ Write
    /\ strm' = [Did(strm) EXCEPT !.conv = t, !.actx = @ /\ t # 0, !.misuse = @ \/ (Busy /\ t # strm.conv)]
\* hda_set_sdsts(): the guest acknowledges the interrupt.
SdstsAck == Write /\ strm.bcis /\ strm' = [Did(strm) EXCEPT !.bcis = FALSE, !.owed = FALSE, !.cpu = "compute"]

\* hda_update_intr(): the line is computed, then changed if it must be.
Updating(x) == x \in {"compute", "apply"}
Overlaps == Updating(strm.thr) /\ Updating(strm.cpu)
CpuCompute == strm.cpu = "compute" /\ strm' = [strm EXCEPT !.ctarget = strm.bcis, !.cpu = "apply", !.overlap = @ \/ Overlaps \/ strm.thr = "bcis"]
CpuApply == strm.cpu = "apply" /\ strm' = [strm EXCEPT !.lintr = strm.ctarget, !.cpu = "idle", !.overlap = @ \/ Overlaps \/ strm.thr = "bcis"]

----------------------------------------------------------------------------
(* The audio thread, which holds its mutex except while it waits             *)

Wake == strm.thr = "wait" /\ strm.actx /\ strm' = [strm EXCEPT !.thr = "begin"]
Check == strm.thr = "check" /\ strm' = [strm EXCEPT !.thr = IF strm.actx THEN "begin" ELSE "wait"]
\* hda_transfer(): the converter's stream is looked up and must be running.
Begin ==
    /\ strm.thr = "begin"
    /\ strm' = IF strm.conv = 0 THEN [strm EXCEPT !.thr = "check"]
               ELSE IF strm.conv \notin strm.map THEN [strm EXCEPT !.out = "abort"]
               ELSE IF ~strm.run THEN [strm EXCEPT !.thr = "check"]
               ELSE IF strm.tag # strm.conv THEN [strm EXCEPT !.out = "abort"]
               ELSE [strm EXCEPT !.thr = "move", !.left = Count, !.pos = strm.lpib, !.irq = FALSE]
Advance(s) ==
    LET l == s.bdl
    IN IF s.bp + 1 # l[s.be].len THEN [s EXCEPT !.bp = @ + 1, !.pos = @ + 1]
       ELSE IF s.be # Len(l) THEN [s EXCEPT !.bp = 0, !.irq = @ \/ l[s.be].ioc, !.be = @ + 1, !.pos = @ + 1]
       ELSE [s EXCEPT !.bp = 0, !.irq = @ \/ l[s.be].ioc, !.be = 1, !.pos = 0]
Move ==
    /\ strm.thr = "move" /\ strm.left > 0
    /\ strm' = [Advance(strm) EXCEPT !.left = @ - 1, !.moved = (@ + 1) % Total(strm.bdl),
                                     !.owed = @ \/ (strm.bp + 1 = strm.bdl[strm.be].len /\ strm.bdl[strm.be].ioc)]
SetPib == strm.thr = "move" /\ strm.left = 0 /\ strm' = [strm EXCEPT !.lpib = strm.pos, !.thr = IF strm.irq THEN "bcis" ELSE "check"]
SetBcis == strm.thr = "bcis" /\ strm' = [strm EXCEPT !.bcis = TRUE, !.thr = "compute", !.overlap = @ \/ Updating(strm.cpu)]
ThrCompute == strm.thr = "compute" /\ strm' = [strm EXCEPT !.ttarget = strm.bcis, !.thr = "apply", !.overlap = @ \/ Overlaps]
ThrApply == strm.thr = "apply" /\ strm' = [strm EXCEPT !.lintr = strm.ttarget, !.thr = "check", !.overlap = @ \/ Overlaps]

Guest == (\E t \in StreamTags : StreamStart(t) \/ SetConv(t)) \/ SetConv(0) \/ StreamStop \/ StreamReset \/ SdstsAck
Cpu == CtxtStart \/ CpuCompute \/ CpuApply
Thread == Wake \/ Check \/ Begin \/ Move \/ SetPib \/ SetBcis \/ ThrCompute \/ ThrApply
StreamNext == strm.out = "run" /\ (Guest \/ Cpu \/ Thread)

----------------------------------------------------------------------------
\* The position the guest reads is the place in the list the thread has reached,
\* around the end of the list and across stops; unless the stream was restarted
\* or reset while the thread, which looked at RUN before, was still moving words.
PositionExact == (~strm.raced /\ strm.thr # "move") => strm.lpib = Position(strm) /\ strm.moved = Position(strm)
\* A buffer marked for interrupt that was finished is reported until the guest
\* acknowledges it, unless the two update the line at the same time: no lock
\* keeps a line computed before the other's change from being applied after it.
\* (The line may be high without a cause: a stream reset does not lower it.)
BufferReported ==
    (~strm.overlap /\ ~strm.raced /\ ~strm.misuse /\ strm.thr \in {"wait", "check", "begin"} /\ strm.cpu \in {"idle", "start"}) =>
          (strm.owed => strm.bcis) /\ (strm.bcis => strm.lintr)
\* bhyve's own assertions hold for a driver that stops a stream before it resets
\* it and changes stream tags only when the thread is no longer at work.
AssertsHold == strm.out = "abort" => strm.misuse

-----------------------------------------------------------------------------
(* The command and response rings of the HD audio controller (pci_hda.c), the  *)
(* codec's verbs (hda_codec.c) and the controller's interrupt.                 *)

Idx == 0..(Size - 1)
CorbTypeOK ==
    /\ ctlr.corb.rp \in Idx /\ ctlr.rirb.wp \in Idx /\ ctlr.cnt \in Nat
    /\ ctlr.codec.stream \in 0..2 /\ ctlr.codec.gain \in 0..2
    /\ ctlr.wp \in Idx /\ ctlr.rp \in Idx /\ ctlr.rwp \in Idx /\ ctlr.lintr \in BOOLEAN

Codec == [stream |-> 0, gain |-> 2]
CorbInit ==
        \E c \in RintCnts :
            ctlr = [ring |-> [i \in Idx |-> "none"], wp |-> 0, rp |-> 0, corb |-> [run |-> FALSE, rp |-> 0],
                    resp |-> [i \in Idx |-> "none"], rwp |-> 0, rirb |-> [run |-> FALSE, wp |-> 0], ctl |-> [run |-> FALSE, dma |-> FALSE, rint |-> FALSE],
                    cnt |-> 0, rintcnt |-> c, rintfl |-> FALSE, statests |-> FALSE, intctl |-> FALSE, wakeen |-> FALSE, lintr |-> FALSE,
                    codec |-> Codec, sent |-> <<>>, got |-> <<>>, stale |-> FALSE, late |-> FALSE, n |-> 0]

----------------------------------------------------------------------------
\* hda_update_intr(): the response flag and the codecs' wake events.
Cause(s) == s.rintfl \/ (s.statests /\ s.wakeen)
UpdateIntr(s) == [s EXCEPT !.lintr = Cause(s) /\ s.intctl, !.stale = FALSE]
ResponseInterrupt(s) == IF s.ctl.rint /\ s.cnt > 0 THEN UpdateIntr([s EXCEPT !.cnt = 0, !.rintfl = TRUE]) ELSE s

\* hda_codec_command(): parameters are constant, the converter's settings kept.
Answer(codec, v) == CASE v = "get" -> codec.stream [] v = "gain" -> codec.gain [] OTHER -> 9
Apply(codec, v) == CASE v = "set1" -> [codec EXCEPT !.stream = 1] [] v = "set2" -> [codec EXCEPT !.stream = 2]
                     [] v = "mute" -> [codec EXCEPT !.gain = 0] [] OTHER -> codec
\* hda_response(): dropped when the response ring does not run.
Response(s, r) ==
    LET w == (s.rirb.wp + 1) % Size
        t == IF ~s.rirb.run THEN s
             ELSE [s EXCEPT !.rirb.wp = w, !.resp[w] = r, !.rwp = w, !.cnt = @ + 1]
    IN IF t.cnt = t.rintcnt THEN ResponseInterrupt(t) ELSE t
SendCommand(s, v) == Response([s EXCEPT !.codec = Apply(@, v), !.got = Append(@, v)], <<v, Answer(s.codec, v)>>)

\* hda_corb_run(): every command up to the write pointer, then the flag for the
\* responses that were not yet reported.
CorbRun(s0) ==
    LET run[k \in 0..Size] ==
            IF k = 0 THEN s0
            ELSE LET s == run[k - 1]
                     r == (s.corb.rp + 1) % Size
                 IN IF s.corb.rp = s.wp \/ ~s.corb.run THEN s ELSE SendCommand([s EXCEPT !.corb.rp = r], s.ring[r])
        end == [run[Size] EXCEPT !.rp = run[Size].corb.rp]
    IN IF end.corb.run THEN ResponseInterrupt(end) ELSE end

----------------------------------------------------------------------------
(* Register writes; a register without a handler only keeps its value        *)

Op == ctlr.n < HdaOps
Tick(s) == [s EXCEPT !.n = @ + 1]
\* The guest puts a command in the ring and writes CORBWP.
CorbwpWrite(v) ==
    LET w == (ctlr.wp + 1) % Size
    IN /\ Op /\ w # ctlr.rp
       /\ ctlr' = CorbRun([Tick(ctlr) EXCEPT !.ring[w] = v, !.wp = w, !.sent = Append(@, v)])
\* hda_set_corbctl(): starting takes the pointers from the registers; stopping
\* clears them, and hda_corb_run() then stores a read pointer of 0.
CorbctlWrite(run) ==
    /\ Op
    /\ ctlr' = LET s == [Tick(ctlr) EXCEPT !.ctl.run = run]
               IN IF run /\ ~ctlr.ctl.run THEN CorbRun([s EXCEPT !.corb = [run |-> TRUE, rp |-> ctlr.rp]])
                  ELSE IF run THEN CorbRun(s)
                  ELSE CorbRun([s EXCEPT !.corb = [run |-> FALSE, rp |-> 0], !.late = @ \/ ctlr.sent # ctlr.got \/ ctlr.rp # 0])
\* hda_set_rirbctl(): every write with DMAEN set starts the ring again from RIRBWP.
RirbctlWrite(dma, rint) ==
    /\ Op
    /\ ctlr' = [Tick(ctlr) EXCEPT !.ctl.dma = dma, !.ctl.rint = rint, !.late = @ \/ (ctlr.cnt > 0 /\ rint /\ ~ctlr.ctl.rint),
                                  !.rirb = IF dma THEN [run |-> TRUE, wp |-> ctlr.rwp] ELSE [run |-> FALSE, wp |-> 0]]
RirbstsAck == Op /\ ctlr.rintfl /\ ctlr' = UpdateIntr([Tick(ctlr) EXCEPT !.rintfl = FALSE])
StatestsAck == Op /\ ctlr.statests /\ ctlr' = UpdateIntr([Tick(ctlr) EXCEPT !.statests = FALSE])
IntctlWrite(on) == Op /\ on # ctlr.intctl /\ ctlr' = [Tick(ctlr) EXCEPT !.intctl = on, !.stale = TRUE]
WakeenWrite(on) == Op /\ on # ctlr.wakeen /\ ctlr' = [Tick(ctlr) EXCEPT !.wakeen = on, !.stale = TRUE]
\* hda_set_gctl(): the registers are cleared and the codec reports its presence;
\* the rings' own state is kept until their control registers are written.
GctlReset ==
    /\ Op
    /\ ctlr' = UpdateIntr([Tick(ctlr) EXCEPT !.wp = 0, !.rp = 0, !.rwp = 0, !.ctl = [run |-> FALSE, dma |-> FALSE, rint |-> FALSE], !.rintfl = FALSE,
                                             !.statests = TRUE, !.intctl = FALSE, !.wakeen = FALSE, !.rintcnt = 0, !.codec.gain = 2, !.late = TRUE])

Rings == (\E v \in Verbs : CorbwpWrite(v)) \/ (\E b \in BOOLEAN : CorbctlWrite(b) \/ \E r \in BOOLEAN : RirbctlWrite(b, r))
Interrupts == RirbstsAck \/ StatestsAck \/ GctlReset \/ \E b \in BOOLEAN : IntctlWrite(b) \/ WakeenWrite(b)
CorbNext == Rings \/ Interrupts

----------------------------------------------------------------------------
\* Commands reach the codec once and in order while the rings are not stopped or
\* reset in between (a stop forgets the read pointer: the commands before the
\* write pointer are sent again when the ring is restarted).
CommandsOnce == ~ctlr.late => /\ ctlr.got = SubSeq(ctlr.sent, 1, Len(ctlr.got))
                              /\ (ctlr.ctl.run => ctlr.got = ctlr.sent)
\* Every response is announced: none waits unreported while interrupts for
\* responses are on, unless they were switched on after it was stored.
ResponsesAnnounced == (~ctlr.late /\ ctlr.ctl.rint) => ctlr.cnt = 0
\* The line shows the causes and their enables, except that switching an enable
\* does not move it: INTCTL and WAKEEN have no handler.
LineAgrees == ~ctlr.stale => (ctlr.lintr <=> Cause(ctlr) /\ ctlr.intctl)
=============================================================================
