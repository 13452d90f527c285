------------------------------- MODULE E82545 -------------------------------
(* The e82545 network adapter (pci_e82545.c): interrupt causes, mask and       *)
(* throttle timer, the transmit thread and the receive callback, both of which *)
(* drop the device's mutex while they move packets, and the register writes    *)
(* that stop them; and what it makes of one packet: the copy of the header,    *)
(* the VLAN tag, segments and checksums.                                        *)
EXTENDS Naturals, FiniteSets, SequencesExt

CONSTANTS S,        \* descriptors of each ring; a run handles S \div 4 packets
          MaxPkts,  \* bound: packets sent and received
          NicOps,   \* bound: register writes other than the ring tails
          Bufs,     \* sizes of a descriptor's buffer
          MaxBufs,  \* bound: descriptors of a packet
          Hdrs,     \* header lengths
          MssSet,   \* segment sizes
          Addrs,    \* bytes before the VLAN tag (ETHER_ADDR_LEN*2)
          Base,     \* values of a byte (256 in the code)
          ABits,    \* address bits of an opcode (6 in the code)
          DBits,    \* bits of a word (16 in the code)
          Words,    \* words of the EEPROM
          MaxOps    \* bound: operations of a script
VARIABLES sc, nic, eeprom

Causes == {"tx", "rx"}
Waits == {"no", "rx", "tx"}

\* `icr', `ims', `itr', `timer', `asserted' and the line itself; transmit ring:
\* `tdh', `tdhr', `tdt', `eop' the id of the packet that ends at a descriptor or
\* 0; `th': the transmit thread's place and locals; receive ring `rdh', `rdt' and
\* the callback `cb'; `wait': what the vcpu waits for in a register write, `then'
\* what it does after; `stuck' (ghost): a reset left `asserted' set with the line low.
TypeOK ==
    /\ sc.icr \subseteq Causes /\ sc.ims \subseteq Causes /\ sc.wait \in Waits
    /\ {sc.itr, sc.timer, sc.asserted, sc.line, sc.stuck, sc.ten, sc.tact, sc.ren, sc.ract, sc.kicked} \subseteq BOOLEAN
    /\ {sc.tdh, sc.tdhr, sc.tdt, sc.rdh, sc.rdt} \subseteq 0..(S - 1)

Init ==
    \E itr \in BOOLEAN :
    sc = [icr |-> {}, ims |-> {}, itr |-> itr, timer |-> FALSE, asserted |-> FALSE, line |-> FALSE, stuck |-> FALSE,
          ten |-> FALSE, tact |-> FALSE, tdh |-> 0, tdhr |-> 0, tdt |-> 0, eop |-> [i \in 0..(S - 1) |-> 0],
          th |-> [pc |-> "check"], ren |-> FALSE, ract |-> FALSE, rdh |-> 0, rdt |-> 0, cb |-> [pc |-> "idle"],
          wait |-> "no", woken |-> FALSE, then |-> "none", sent |-> 0, queued |-> 0, rcvd |-> 0, kicked |-> FALSE,
          late |-> FALSE, ops |-> 0]

Idle == sc.wait = "no"
Op(s) == Idle /\ sc.ops < NicOps /\ sc' = [s EXCEPT !.ops = @ + 1]

\* An interrupt is raised for causes that are new and unmasked, now or when the
\* throttle timer fires.
Raise(s) == [s EXCEPT !.asserted = TRUE, !.line = ~s.asserted \/ @]
Interrupt(s, new) ==
    IF new = {} \/ s.timer \/ s.asserted THEN s ELSE [Raise(s) EXCEPT !.timer = s.itr]
IcrAssert(s, bits) == Interrupt([s EXCEPT !.icr = @ \cup bits], (bits \ s.icr) \cap s.ims)
ImsChange(s, bits) == Interrupt([s EXCEPT !.ims = @ \cup bits], (bits \cap s.icr) \ s.ims)
IcrDeassert(s, bits) ==
    LET t == [s EXCEPT !.icr = @ \ bits]
    IN IF t.asserted /\ t.icr \cap t.ims = {} THEN [t EXCEPT !.asserted = FALSE, !.line = FALSE, !.stuck = FALSE] ELSE t
ItrCallback ==
    /\ sc.timer
    /\ sc' = IF sc.icr \cap sc.ims # {} /\ ~sc.asserted THEN Raise(sc) ELSE [sc EXCEPT !.timer = FALSE]

IcsWrite(bits) == Op(IcrAssert(sc, bits))
ImsWrite(bits) == Op(ImsChange(sc, bits))
ImcWrite(bits) == Op([sc EXCEPT !.ims = @ \ bits])
IcrWrite(bits) == Op(IcrDeassert(sc, bits))
IcrRead == Op(IcrDeassert([sc EXCEPT !.icr = {}], Causes))

\* Waking whoever waits on a condition variable: the transmit thread or a vcpu.
WakeTx(s) ==
    IF s.wait = "tx" THEN [s EXCEPT !.woken = TRUE]
    ELSE IF s.th.pc = "wait" THEN [s EXCEPT !.th = [pc |-> "check"]] ELSE s

\* The transmit thread, with the lock: it sleeps or takes a snapshot of the ring.
TxThread ==
    /\ sc.th.pc = "check"
    /\ sc' = IF sc.ten /\ sc.tdhr # sc.tdt
             THEN [sc EXCEPT !.tact = TRUE, !.th = [pc |-> "run", head |-> sc.tdh, rhead |-> sc.tdh, tail |-> sc.tdt, lim |-> S \div 4, wb |-> FALSE]]
             ELSE LET s == [sc EXCEPT !.tact = FALSE]
                  IN [IF sc.ten THEN s ELSE WakeTx(s) EXCEPT !.th = [pc |-> "wait"]]
\* e82545_transmit(): the next packet up to its last descriptor; one that is not
\* complete yet only moves the read head.
Ends(l) == {k \in 0..(S - 1) : k < (S + l.tail - l.head) % S /\ sc.eop[(l.head + k) % S] # 0}
Transmit ==
    LET l == sc.th
        k == CHOOSE j \in Ends(l) : \A i \in Ends(l) : j <= i
        h == (l.head + k + 1) % S
    IN /\ l.pc = "run" /\ sc.ten /\ l.lim > 0 /\ l.rhead = l.head
       /\ sc' = IF Ends(l) = {} THEN [sc EXCEPT !.th = [l EXCEPT !.rhead = l.tail, !.pc = "end"]]
                ELSE [sc EXCEPT !.th = [l EXCEPT !.head = h, !.rhead = h, !.lim = IF k + 1 >= @ THEN 0 ELSE @ - (k + 1), !.wb = TRUE],
                                !.late = @ \/ sc.eop[(l.head + k) % S] # sc.sent + 1, !.sent = @ + 1,
                                !.eop[(l.head + k) % S] = 0]
TxRunEnds ==
    LET l == sc.th
        s == [sc EXCEPT !.tdh = l.head, !.tdhr = l.rhead, !.th = [pc |-> "check"]]
    IN /\ l.pc = "end" \/ (l.pc = "run" /\ (~sc.ten \/ l.lim = 0))
       /\ sc' = IF l.wb \/ (l.lim # S \div 4 /\ l.head = sc.tdt) THEN IcrAssert(s, {"tx"}) ELSE s

\* Register writes that concern the rings.
TdtWrite(n, whole) ==
    LET s == [sc EXCEPT !.tdt = (@ + n) % S, !.queued = IF whole THEN @ + 1 ELSE @, !.kicked = sc.ten,
                        !.eop[(sc.tdt + n - 1) % S] = IF whole THEN sc.queued + 1 ELSE 0]
    IN /\ Idle /\ sc.queued < MaxPkts /\ n <= (S + sc.tdh - sc.tdt - 1) % S
       /\ sc' = IF sc.ten /\ ~sc.tact THEN WakeTx(s) ELSE s
TctlOn == ~sc.ten /\ Op([sc EXCEPT !.ten = TRUE, !.kicked = FALSE])
RctlOn == ~sc.ren /\ Op([sc EXCEPT !.ren = TRUE, !.rdh = 0, !.rdt = S - 1])

\* Stopping: the flag is cleared, then the vcpu waits until the other side is idle.
Cleared(s) ==
    [s EXCEPT !.stuck = s.asserted, !.line = FALSE, !.icr = {}, !.ims = {}, !.itr = TRUE, !.tdh = 0, !.tdhr = 0, !.tdt = 0,
              !.rdh = 0, !.rdt = 0, !.eop = [i \in 0..(S - 1) |-> 0], !.sent = s.queued]
After(s) == IF s.then = "reset" THEN [Cleared(s) EXCEPT !.then = "none"] ELSE [s EXCEPT !.then = "none"]
\* Mutant: the transmit thread is not waited for.
TxDisable_NoWait(s) == After([s EXCEPT !.ten = FALSE, !.wait = "no"])
TxDisable(s) == IF s.tact THEN [s EXCEPT !.ten = FALSE, !.wait = "tx", !.woken = FALSE] ELSE After([s EXCEPT !.ten = FALSE, !.wait = "no"])
RxDisable(s) ==
    IF s.ract THEN [s EXCEPT !.ren = FALSE, !.wait = "rx", !.woken = FALSE]
    ELSE LET t == [s EXCEPT !.ren = FALSE, !.wait = "no"] IN IF t.then = "reset" THEN TxDisable(t) ELSE After(t)
TctlOff == sc.ten /\ Op(TxDisable(sc))
RctlOff == sc.ren /\ Op(RxDisable(sc))
Reset == Op(RxDisable([sc EXCEPT !.then = "reset"]))
VcpuWakes ==
    /\ sc.wait # "no" /\ sc.woken
    /\ sc' = IF sc.wait = "tx" THEN TxDisable(sc) ELSE RxDisable(sc)

\* The receive callback: packets without a free descriptor are dropped.
RxBegin ==
    /\ sc.cb.pc = "idle" /\ sc.rcvd < MaxPkts
    /\ sc' = IF ~sc.ren \/ (S + sc.rdt - sc.rdh) % S = 0 THEN [sc EXCEPT !.rcvd = @ + 1]
             ELSE [sc EXCEPT !.ract = TRUE, !.cb = [pc |-> "recv", head |-> sc.rdh]]
\* Without the lock: one packet into the descriptor at the head.
RxRecv ==
    /\ sc.cb.pc = "recv"
    /\ sc' = [sc EXCEPT !.rcvd = @ + 1, !.cb = [pc |-> "end", head |-> (sc.cb.head + 1) % S]]
RxEnd ==
    LET s == [sc EXCEPT !.ract = FALSE, !.rdh = sc.cb.head, !.cb = [pc |-> "idle"], !.woken = @ \/ (~sc.ren /\ sc.wait = "rx")]
    IN sc.cb.pc = "end" /\ sc' = IcrAssert(s, {"rx"})
RdtWrite == Idle /\ sc.ren /\ sc.rdt # (sc.rdh + S - 1) % S /\ sc' = [sc EXCEPT !.rdt = (@ + 1) % S]

Guest ==
    \/ \E bits \in {{"tx"}, Causes} : IcsWrite(bits) \/ ImsWrite(bits) \/ ImcWrite(bits) \/ IcrWrite(bits)
    \/ IcrRead \/ TctlOn \/ RctlOn \/ TctlOff \/ RctlOff \/ Reset \/ RdtWrite
    \/ \E n \in 1..2, whole \in BOOLEAN : TdtWrite(n, whole)
Next == Guest \/ ItrCallback \/ TxThread \/ Transmit \/ TxRunEnds \/ VcpuWakes \/ RxBegin \/ RxRecv \/ RxEnd

\* A cause that is set and not masked is announced: by the line, or by the throttle
\* timer still to fire; except after a reset that lowered the line and kept the flag.
\* The line is up for a cause, though perhaps one masked since: an IMC write does not
\* lower it ("XXX clear interrupts if all ICR bits now masked").
NoLostInterrupt ==
    /\ sc.icr \cap sc.ims # {} => sc.line \/ sc.timer \/ sc.stuck
    /\ sc.line => sc.asserted /\ sc.icr # {}
\* The transmit thread never sleeps with descriptors to look at that were announced
\* while transmission was on.
TxNotStuck == (sc.ten /\ sc.kicked /\ sc.tdhr # sc.tdt) => sc.th.pc # "wait"
\* Packets go out once and in order; once a disable has returned, nobody uses the rings.
TxInOrder == ~sc.late
QuietWhenOff ==
    sc.wait = "no" => /\ ~sc.ten => sc.th.pc \in {"check", "wait"}
                      /\ ~sc.ren => sc.cb.pc = "idle"
\* A vcpu that waits for the other side is woken: that side is still under way.
DisableReturns ==
    /\ sc.wait = "tx" => sc.woken \/ sc.th.pc # "wait"
    /\ sc.wait = "rx" => sc.woken \/ sc.cb.pc # "idle"

----------------------------------------------------------------------------
(* One packet, and the EEPROM                                               *)

MinOf(a, b) == IF a <= b THEN a ELSE b
Flat(iov) == FlattenSeq(iov)

\* The buffers without their first h bytes, then the copied header in front.
PrependHeader(iov, h) ==
    LET skip[i \in 0..Len(iov)] == IF i = 0 THEN h ELSE skip[i - 1] - MinOf(skip[i - 1], Len(iov[i]))
        rest == [i \in 1..Len(iov) |-> SubSeq(iov[i], MinOf(skip[i - 1], Len(iov[i])) + 1, Len(iov[i]))]
    IN <<SubSeq(Flat(iov), 1, h)>> \o SelectSeq(rest, LAMBDA v : v # <<>>)
\* The tag goes after the two addresses; checksum offsets move with it.
InsertVlan(iov) == <<SubSeq(iov[1], 1, Addrs) \o <<"tag">> \o SubSeq(iov[1], Addrs + 1, Len(iov[1]))>> \o Tail(iov)
ShiftCk(ck) == [start |-> ck.start + 1, end |-> IF ck.end = 0 THEN 0 ELSE ck.end + 1]
CkRange(iov, ck) ==
    LET b == Flat(iov) IN SubSeq(b, ck.start + 1, IF ck.end = 0 THEN Len(b) ELSE MinOf(ck.end + 1, Len(b)))

\* One's complement sum of words of two bytes, low byte first.
Carry(sum) ==
    LET w == Base * Base
        s == (sum % w) + (sum \div w)
    IN IF s > w - 1 THEN s - (w - 1) ELSE s
BufChecksum(buf) ==
    LET sum[i \in 0..Len(buf)] == IF i = 0 THEN 0 ELSE sum[i - 1] + (IF i % 2 = 1 THEN buf[i] ELSE buf[i] * Base)
    IN Carry(sum[Len(buf)])
IovChecksum(iov) ==
    LET sum[i \in 0..Len(iov)] ==
            IF i = 0 THEN [sum |-> 0, odd |-> FALSE]
            ELSE LET s == BufChecksum(iov[i])
                 IN [sum |-> sum[i - 1].sum + (IF sum[i - 1].odd THEN s * Base ELSE s),
                     odd |-> (Len(iov[i]) % 2 = 1) # sum[i - 1].odd]
    IN Carry(sum[Len(iov)].sum)

\* The payload part of one segment: `now' bytes from buffer pv at offset off.
Segment(iov, pv0, off0, now) ==
    LET at[i \in 0..Len(iov)] ==
            IF i = 0 THEN [pv |-> pv0, off |-> off0, left |-> now, out |-> <<>>]
            ELSE LET a == at[i - 1]
                     n == MinOf(a.left, Len(iov[a.pv]) - a.off)
                 IN IF a.left = 0 \/ a.pv > Len(iov) THEN a
                    ELSE [pv   |-> IF a.off + n = Len(iov[a.pv]) THEN a.pv + 1 ELSE a.pv,
                          off  |-> IF a.off + n = Len(iov[a.pv]) THEN 0 ELSE a.off + n,
                          left |-> a.left - n, out |-> a.out \o SubSeq(iov[a.pv], a.off + 1, a.off + n)]
    IN at[Len(iov)]

\* A packet of one or more buffers with its bytes numbered, a header, a segment
\* size and the FIN flag in the header.
Packets == UNION {[1..n -> Bufs] : n \in 1..MaxBufs}
Numbered(lens) ==
    LET before[i \in 0..Len(lens)] == IF i = 0 THEN 0 ELSE before[i - 1] + lens[i]
    IN [i \in 1..Len(lens) |-> [k \in 1..lens[i] |-> before[i - 1] + k]]
PktInit ==
       \E lens \in Packets, h \in Hdrs, mss \in MssSet, fin \in BOOLEAN, vlan \in BOOLEAN :
           LET pkt == Numbered(lens)
               iov == PrependHeader(pkt, h)
           IN /\ h < Len(Flat(pkt)) /\ (vlan => h >= Addrs)
              /\ nic = [pkt |-> pkt, h |-> h, mss |-> mss, fin |-> fin, fin0 |-> fin, vlan |-> vlan,
                        iov |-> IF vlan THEN InsertVlan(iov) ELSE iov,
                        left |-> Len(Flat(pkt)) - h, pv |-> 2, off |-> 0, segs |-> <<>>]

\* One segment: the header is shared, so a flag cleared for it stays cleared.
TsoSegment ==
    LET now == MinOf(nic.left, nic.mss)
        g   == Segment(nic.iov, nic.pv, nic.off, now)
        fin == nic.fin /\ now = nic.left
    IN /\ nic.left > 0
       /\ nic' = [nic EXCEPT !.left = @ - now, !.pv = g.pv, !.off = g.off, !.fin = fin,
                             !.segs = Append(@, [seq |-> Len(Flat(nic.pkt)) - nic.h - nic.left, data |-> g.out, fin |-> fin])]
PktNext == TsoSegment

\* Segments carry the payload in order, each byte once, none longer than the segment
\* size, with the sequence number of its first byte; and no segment says FIN before
\* the last byte of a packet that ends the connection. (That the last segment says
\* it does not hold: the flag cleared for the first of several stays cleared.)
SegmentsExact ==
    LET n == Len(Flat(nic.pkt)) - nic.h
        data == FlattenSeq([i \in 1..Len(nic.segs) |-> nic.segs[i].data])
    IN /\ data = [k \in 1..(n - nic.left) |-> nic.h + k]
       /\ \A i \in 1..Len(nic.segs) : /\ Len(nic.segs[i].data) <= nic.mss
                                      /\ nic.segs[i].data[1] = nic.h + nic.segs[i].seq + 1
                                      /\ nic.segs[i].fin => nic.fin0 /\ nic.segs[i].seq + Len(nic.segs[i].data) = n
\* The header and tag insertion keep the packet's bytes, and the range a checksum
\* covers; the checksum of a list of buffers is that of the bytes in one buffer.
HeaderExact ==
    LET plain == PrependHeader(nic.pkt, nic.h)
        value == [i \in 1..Len(nic.pkt) |-> [k \in 1..Len(nic.pkt[i]) |-> (nic.pkt[i][k] * 5) % Base]]
    IN /\ Flat(plain) = Flat(nic.pkt)
       /\ nic.vlan => \A e \in {0} \cup (Addrs..(2 * Addrs)) :
                          LET c == [start |-> Addrs, end |-> e] IN CkRange(nic.iov, ShiftCk(c)) = CkRange(plain, c)
       /\ IovChecksum(value) = BufChecksum(Flat(value))

-----------------------------------------------------------------------------
(* The Microwire EEPROM of the e82545 (e82545_eecd_strobe()): a state machine  *)
(* fed one bit per clock. A driver's script of reads and writes is run over it.*)

Ops == {"read", "write", "ewen", "other"}
OpBits == [read |-> 6, write |-> 5, ewen |-> 4, other |-> 7]   \* three bits, start bit first
Opcode(v) == IF v = 6 THEN "read" ELSE IF v = 5 THEN "write" ELSE IF v = 4 THEN "ewen" ELSE "other"
Bit(v, n, k) == (v \div (2 ^ (n - k))) % 2       \* the k-th of n bits, high bit first

OpaddrMode(s) == [s EXCEPT !.opaddr = 0, !.mode = "opaddr", !.bits = ABits + 3]
\* One clock with the data-in bit di.
Strobe(s, di) ==
    LET t    == [s EXCEPT !.bits = @ - 1]
        addr == t.opaddr % (2 ^ ABits)
        out  == [t EXCEPT !.do = Bit(s.data, DBits, 1), !.data = (2 * @) % (2 ^ DBits)]
        in   == [t EXCEPT !.data = ((2 * @) % (2 ^ DBits)) + di]
        op   == [t EXCEPT !.opaddr = 2 * @ + di]
        a    == op.opaddr % (2 ^ ABits)
    IN CASE s.bits = 0 -> s
         [] s.bits # 0 /\ s.mode = "out" -> IF t.bits = 0 THEN OpaddrMode(out) ELSE out
         [] s.bits # 0 /\ s.mode = "in" ->
                IF t.bits # 0 THEN in
                ELSE OpaddrMode(IF addr < Words THEN [in EXCEPT !.eeprom[addr] = in.data] ELSE in)
         [] s.bits # 0 /\ s.mode = "opaddr" /\ t.bits # 0 -> op
         [] s.bits # 0 /\ s.mode = "opaddr" /\ t.bits = 0 ->
                CASE Opcode(op.opaddr \div (2 ^ ABits)) = "read" ->
                         [op EXCEPT !.mode = "out", !.bits = DBits, !.data = IF a < Words THEN op.eeprom[a] ELSE 0]
                  [] Opcode(op.opaddr \div (2 ^ ABits)) = "write" -> [op EXCEPT !.mode = "in", !.bits = DBits, !.data = 0]
                  [] OTHER -> OpaddrMode(op)

EeInit ==
      eeprom = OpaddrMode([opaddr |-> 0, mode |-> "opaddr", bits |-> 0, data |-> 0, do |-> 0, eeprom |-> [w \in 0..(Words - 1) |-> 0],
                           op |-> "none", addr |-> 0, value |-> 0, clock |-> 0, got |-> 0, ops |-> 0,
                           shadow |-> [w \in 0..(Words - 1) |-> 0]])
\* The driver: it chooses an operation and clocks it bit by bit.
Clocks(op) == ABits + 3 + (IF op \in {"read", "write"} THEN DBits ELSE 0)
Choose(op, addr, value) ==
    /\ eeprom.op = "none" /\ eeprom.ops < MaxOps /\ (op # "write" => value = 0)
    /\ eeprom' = [eeprom EXCEPT !.op = op, !.addr = addr, !.value = value, !.clock = 1, !.got = 0, !.ops = @ + 1]
Clock ==
    LET k    == eeprom.clock
        word == OpBits[eeprom.op] * (2 ^ ABits) + eeprom.addr
        di   == IF k <= ABits + 3 THEN Bit(word, ABits + 3, k) ELSE Bit(eeprom.value, DBits, k - ABits - 3)
        s    == Strobe(eeprom, di)
        got  == IF k > ABits + 3 /\ eeprom.op = "read" THEN 2 * eeprom.got + s.do ELSE eeprom.got
        last == k = Clocks(eeprom.op)
    IN /\ eeprom.op # "none" /\ k <= Clocks(eeprom.op)
       /\ eeprom' = [s EXCEPT !.clock = @ + 1, !.got = got,
                              !.shadow = IF last /\ eeprom.op = "write" /\ eeprom.addr < Words THEN [@ EXCEPT ![eeprom.addr] = eeprom.value] ELSE @]
Forget == eeprom.op # "none" /\ eeprom.clock > Clocks(eeprom.op) /\ eeprom' = [eeprom EXCEPT !.op = "none", !.clock = 0, !.got = 0, !.addr = 0, !.value = 0]
EeNext == (\E op \in Ops, a \in 0..(2 ^ ABits - 1), v \in 0..(2 ^ DBits - 1) : Choose(op, a, v)) \/ Clock \/ Forget

\* After any script the EEPROM holds what was written, a read returned the stored word
\* (0 past the end), and the machine is ready for the next opcode.
ReadsBack ==
    /\ eeprom.eeprom = eeprom.shadow
    /\ (eeprom.op # "none" /\ eeprom.clock > Clocks(eeprom.op))
         => /\ eeprom.mode = "opaddr" /\ eeprom.bits = ABits + 3
            /\ eeprom.op = "read" => eeprom.got = IF eeprom.addr < Words THEN eeprom.shadow[eeprom.addr] ELSE 0
=============================================================================
