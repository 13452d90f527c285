-------------------------------- MODULE Xhci --------------------------------
(* Slots, device contexts and endpoint rings of the xHCI controller: the       *)
(* commands pci_xhci_complete_commands() carries out, and the doorbells that   *)
(* use what they set up (pci_xhci.c); and one transfer ring with the tablet    *)
(* behind it (usb_mouse.c, usb_emul.c), whose events come from the display     *)
(* thread. It enters the controller without its mutex: only the lock of the    *)
(* endpoint's transfer orders it against the vcpu's doorbell.                  *)
EXTENDS Integers, Sequences

CONSTANTS Slots,      \* 1..ndevices
          Eps,        \* endpoint ids, 1 the control endpoint
          Rings,      \* addresses of transfer rings, never 0
          CmdOps,     \* bound: commands
          M,          \* ring entries; the last one links back and toggles the cycle
          MaxTrbs,    \* bound: transfer descriptors queued by the guest
          MaxReports, \* bound: events of the tablet
          Sizes,      \* of the descriptors and of the report
          MaxLen      \* bound: wLength
VARIABLES sc, ring, ctl

EpStates == {"disabled", "running", "stopped"}
SlotStates == {"disabled", "enabled", "addressed", "configured"}
None == 0            \* the null address

\* Per slot: `slot' the emulation's state, `ctx' whether the guest's device context
\* is installed.  Per endpoint: `state', `ptr' in the context, `ring' and `xfer' in
\* the emulation; `xfer.of' is the ring the transfer blocks came from.  `owned': the
\* slots the guest was given; `reset': those with a reset not followed by an address;
\* `intr': the endpoint the display thread has found enabled and not used yet; `crash':
\* who met an endpoint without a transfer, "late" the display thread on an endpoint
\* disabled since it looked.
TypeOK ==
    /\ \A s \in Slots : sc.slot[s] \in SlotStates
    /\ \A s \in Slots, e \in Eps :
        LET x == sc.ep[s][e]
        IN x.state \in EpStates /\ {x.ptr, x.ring, x.of} \subseteq Rings \cup {None} /\ x.xfer \in {"null", "idle", "pending"}
    /\ sc.owned \subseteq Slots /\ sc.reset \subseteq Slots /\ sc.twice \in BOOLEAN
    /\ sc.crash \in {"no", "doorbell", "late"} /\ (sc.intr = <<>> \/ sc.intr \in Slots \X Eps)

NoEp == [state |-> "disabled", ptr |-> None, ring |-> None, xfer |-> "null", of |-> None]
Init ==
    sc = [slot |-> [s \in Slots |-> "disabled"], ep |-> [s \in Slots |-> [e \in Eps |-> NoEp]],
          owned |-> {}, reset |-> {}, twice |-> FALSE, crash |-> "no", intr |-> <<>>, ops |-> 0]

Does(s) == sc.ops < CmdOps /\ sc.crash = "no" /\ sc' = [s EXCEPT !.ops = @ + 1]

\* An endpoint's transfer is allocated once and kept.
InitEp(x, r) == [x EXCEPT !.ptr = r, !.ring = r, !.state = "running", !.xfer = IF @ = "null" THEN "idle" ELSE @]
DisableEp(x) == [x EXCEPT !.state = "disabled", !.ring = None, !.xfer = "null", !.of = None]
\* What is left of an endpoint when the guest installs a new device context.
Fresh(x) == [x EXCEPT !.state = "disabled", !.ptr = None]

EnableSlot ==
    LET free == {s \in Slots : sc.slot[s] = "disabled"}
        n == CHOOSE s \in free : \A t \in free : s <= t
    IN IF free = {} THEN Does(sc)
       ELSE Does([sc EXCEPT !.slot[n] = "enabled", !.owned = @ \cup {n}, !.twice = @ \/ n \in sc.owned \ sc.reset,
                            !.ep[n] = [e \in Eps |-> Fresh(@[e])]])
\* Endpoints are not touched ("TODO: reset events and endpoints").
DisableSlot(s) == Does([sc EXCEPT !.slot[s] = "disabled", !.owned = @ \ {s}, !.reset = @ \ {s}])
AddressDevice(s, r) ==
    Does([sc EXCEPT !.slot[s] = "addressed", !.ep[s][1] = InitEp(@, r), !.reset = @ \ {s}])

\* The slot state ends as disabled: reset_slot() runs after it was set to default.
ResetDevice(s) ==
    IF sc.slot[s] = "disabled" THEN Does(sc)
    ELSE Does([sc EXCEPT !.slot[s] = "disabled", !.reset = @ \cup {s},
                         !.ep[s] = [e \in Eps |-> IF e = 1 THEN @[e] ELSE [@[e] EXCEPT !.state = "disabled"]]])

Deconfigure(s) ==
    Does([sc EXCEPT !.slot[s] = "addressed", !.ep[s] = [e \in Eps |-> IF e = 1 THEN @[e] ELSE DisableEp(@[e])]])
ConfigEp(s, drop, add, r) ==
    IF sc.slot[s] \notin {"addressed", "configured"} THEN Does(sc)
    ELSE Does([sc EXCEPT !.slot[s] = "configured",
                         !.ep[s] = [e \in Eps |-> LET x == IF e \in drop THEN DisableEp(@[e]) ELSE @[e]
                                                  IN IF e \in add THEN InitEp(x, r) ELSE x]])

\* Stop and Reset Endpoint: the queued blocks are dropped and the context is given
\* the emulation's position.
ResetEp(s, e) ==
    Does([sc EXCEPT !.ep[s][e] = [@ EXCEPT !.state = "stopped", !.ptr = sc.ep[s][e].ring, !.of = None,
                                           !.xfer = IF @ = "null" THEN @ ELSE "idle"]])
SetTr(s, e, r) ==
    IF sc.ep[s][e].state # "stopped" THEN Does(sc)
    ELSE Does([sc EXCEPT !.ep[s][e] = [@ EXCEPT !.ptr = r, !.ring = r]])

\* A doorbell, from the guest or from the device: blocks that were refused before
\* are tried again, otherwise the next descriptor is fetched; `nak': the device has
\* no data yet.
Serve(c, s, e, nak) ==
    LET x == c.ep[s][e]
        from == IF x.xfer = "pending" THEN x.of ELSE x.ring
    IN IF x.ptr = None THEN c
       ELSE IF x.xfer = "null" THEN [c EXCEPT !.crash = IF x.state = "disabled" THEN "late" ELSE "doorbell"]
       ELSE [c EXCEPT !.ep[s][e] = [@ EXCEPT !.state = "running", !.xfer = IF nak THEN "pending" ELSE "idle",
                                             !.of = IF nak THEN from ELSE None]]
DeviceDoorbell(s, e, nak) == sc.crash = "no" /\ sc' = Serve(sc, s, e, nak)
\* pci_xhci_dev_intr() tests the endpoint's state and then serves it, without the
\* mutex: commands of the guest come between the two.
DevIntr(s, e) ==
    sc.crash = "no" /\ sc.intr = <<>> /\ sc.ep[s][e].state # "disabled" /\ sc' = [sc EXCEPT !.intr = <<s, e>>]
DevIntrServe(nak) ==
    /\ sc.crash = "no" /\ sc.intr # <<>>
    /\ sc' = Serve([sc EXCEPT !.intr = <<>>], sc.intr[1], sc.intr[2], nak)

\* A guest that keeps to the protocol: it commands slots it was given, stops an
\* endpoint before it takes it away or resets its device, adds endpoints that are
\* disabled, and rings a doorbell only for an endpoint it configured.
Live(s, e) == sc.ep[s][e].state # "disabled"
Quiet(s) == \A e \in Eps : sc.ep[s][e].xfer # "pending"
Usable(s) == s \in sc.owned /\ s \notin sc.reset
Guest ==
    \/ EnableSlot
    \/ \E s \in sc.owned :
        \/ Quiet(s) /\ DisableSlot(s)
        \/ Quiet(s) /\ ResetDevice(s)
        \/ \E r \in Rings : Quiet(s) /\ AddressDevice(s, r)
    \/ \E s \in Slots : Usable(s) /\
        \/ sc.slot[s] = "configured" /\ Quiet(s) /\ Deconfigure(s)
        \/ \E e \in Eps \ {1}, r \in Rings :
            \/ ~Live(s, e) /\ ConfigEp(s, {}, {e}, r)
            \/ sc.ep[s][e].state = "stopped" /\ ConfigEp(s, {e}, {}, r)
            \/ sc.ep[s][e].state = "stopped" /\ ConfigEp(s, {e}, {e}, r)
        \/ \E e \in Eps : Live(s, e) /\
            \/ ResetEp(s, e)
            \/ \E r \in Rings : SetTr(s, e, r)
            \/ sc.ops < CmdOps /\ \E nak \in BOOLEAN : DeviceDoorbell(s, e, nak)
Next ==
    \/ Guest
    \/ \E s \in Slots, e \in Eps \ {1} : DevIntr(s, e)
    \/ \E nak \in BOOLEAN : DevIntrServe(nak)

\* No slot the guest still holds is given out again, except one whose device it
\* has reset and not addressed since.
SlotsDistinct == ~sc.twice
\* A doorbell, also one rung by the device behind the guest's back, never meets an
\* endpoint without a transfer: commands leave the two views of it in step. The one
\* exception is an endpoint taken away between the display thread's test and use.
XferReady == sc.crash # "doorbell" /\ \A s \in Slots, e \in Eps : (Live(s, e) /\ sc.ep[s][e].ptr # None) => sc.ep[s][e].xfer # "null"
\* Blocks waiting to be tried again belong to the ring the endpoint is on, not to
\* one it was taken off: otherwise the device's data goes to memory of another use.
RingOwned == \A s \in Slots, e \in Eps : sc.ep[s][e].xfer = "pending" => sc.ep[s][e].of = sc.ep[s][e].ring

----------------------------------------------------------------------------
(* A transfer ring and the tablet                                           *)

Threads == {"vcpu", "display"}
Link == M - 1
Idle == [pc |-> "idle"]

\* `trb': id and cycle bit of each entry; `prod', `pcs': the guest's side; `deq',
\* `ccs': ep_ringaddr and ep_ccs; `blocks': the queued blocks of the endpoint's
\* transfer, `at' the entry, `next' and `ccs' where the ring goes on after it;
\* `th': what each thread has read before it takes the lock; `done': ids reported
\* by a transfer event (ghost); `raced': both threads were under way at once.
RingTypeOK ==
    /\ ring.deq \in 0..Link /\ ring.prod \in 0..(Link - 1) /\ {ring.pcs, ring.ccs} \subseteq {0, 1}
    /\ Len(ring.blocks) <= 8 /\ ring.queued \in 0..MaxTrbs /\ ring.reports \in 0..MaxReports
    /\ \A t \in Threads : ring.th[t].pc \in {"idle", "locking", "intr"} /\ {ring.newdata, ring.rung, ring.raced} \subseteq BOOLEAN

RingInit ==
        ring = [trb |-> [i \in 0..(Link - 1) |-> [id |-> 0, cyc |-> 0]], prod |-> 0, pcs |-> 1, deq |-> 0, ccs |-> 1, blocks |-> <<>>,
                newdata |-> FALSE, rung |-> TRUE, th |-> [t \in Threads |-> Idle], queued |-> 0, reports |-> 0, done |-> <<>>, raced |-> FALSE]

\* The blocks gathered from position `p': a link entry is followed whatever its
\* cycle, an entry with the other cycle ends the descriptor.
Block(at, next, ccs) == [at |-> at, next |-> next, ccs |-> ccs]
Gather(p, ccs) ==
    LET q == IF p = Link THEN 0 ELSE p
        c == IF p = Link THEN 1 - ccs ELSE ccs
        link == IF p = Link THEN <<Block(Link, 0, c)>> ELSE <<>>
    IN IF ring.trb[q].cyc = c THEN link \o <<Block(q, q + 1, c)>> ELSE link

\* umouse_data_handler(): blocks without a buffer are done, the first with one
\* takes the report; without a report the transfer stays queued (NAK).
Data(bs) == {k \in 1..Len(bs) : bs[k].at # Link}
First(ks) == CHOOSE k \in ks : \A j \in ks : k <= j
Processed(bs) == IF Data(bs) = {} THEN Len(bs) ELSE First(Data(bs))

\* pci_xhci_xfer_complete(): the ring moves past every processed block and the
\* descriptors among them are reported; what is left of the transfer is dropped.
UpdateEpRing(s, b) == [s EXCEPT !.deq = b.next, !.ccs = b.ccs]
XferComplete(s, bs, n) ==
    IF n = 0 THEN [s EXCEPT !.blocks = <<>>]
    ELSE [UpdateEpRing(s, bs[n]) EXCEPT !.blocks = <<>>,
                   !.done = IF bs[n].at = Link THEN @ ELSE Append(@, s.trb[bs[n].at].id)]
TryUsbXfer(s, bs) ==
    CASE Data(bs) # {} /\ ~s.newdata -> [s EXCEPT !.blocks = bs]
      [] Data(bs) # {} /\ s.newdata -> XferComplete([s EXCEPT !.newdata = FALSE], bs, Processed(bs))
      [] OTHER -> XferComplete(s, bs, Processed(bs))

\* pci_xhci_device_doorbell() reads the queue and the ring position, then takes
\* the lock of the transfer.
Doorbell(t) ==
    /\ ring.th[t].pc = (IF t = "vcpu" THEN "idle" ELSE "intr")
    /\ t = "vcpu" => ~ring.rung
    /\ ring' = [ring EXCEPT !.rung = @ \/ t = "vcpu", !.th[t] = [pc |-> "locking", retry |-> ring.blocks # <<>>, p |-> ring.deq, ccs |-> ring.ccs],
                            !.raced = @ \/ \E u \in Threads \ {t} : ring.th[u].pc = "locking"]
HandleTransfer(t) ==
    LET l == ring.th[t]
        s == [ring EXCEPT !.th[t] = Idle]
    IN /\ l.pc = "locking"
       /\ ring' = IF l.retry THEN TryUsbXfer(s, ring.blocks) ELSE TryUsbXfer(s, ring.blocks \o Gather(l.p, l.ccs))
\* The guest queues a descriptor and will ring the doorbell (`rung').
Enqueue ==
    /\ ring.queued < MaxTrbs /\ ring.queued - Len(ring.done) < M - 2
    /\ ring' = [ring EXCEPT !.trb[ring.prod] = [id |-> ring.queued + 1, cyc |-> ring.pcs], !.queued = @ + 1, !.rung = FALSE,
                            !.prod = (@ + 1) % Link, !.pcs = IF ring.prod = Link - 1 THEN 1 - @ ELSE @]
\* umouse_event(): the report replaces the last one, then the controller is told.
UmouseEvent ==
    /\ ring.reports < MaxReports /\ ring.th["display"].pc = "idle"
    /\ ring' = [ring EXCEPT !.newdata = TRUE, !.reports = @ + 1, !.th["display"] = [pc |-> "intr"]]

RingNext == Enqueue \/ UmouseEvent \/ \E t \in Threads : Doorbell(t) \/ HandleTransfer(t)

\* Every descriptor is reported once and in the order of the ring, also around
\* the link and after having been refused, unless both threads had read the ring
\* position before either took the lock.
TrbsInOrder == ~ring.raced => ring.done = [k \in 1..Len(ring.done) |-> k]
\* A report and a descriptor that could take it are never left side by side with
\* nobody on the way, unless the threads raced: a stale position then moves the
\* ring back, and the endpoint can stay there for good.
ReportNotStuck ==
    (~ring.raced /\ ring.newdata /\ ring.rung /\ ring.queued > Len(ring.done)) => \E t \in Threads : ring.th[t].pc # "idle"

-----------------------------------------------------------------------------
(* Control requests of the USB tablet, umouse_request() of usb_mouse.c, as     *)
(* the control endpoint of pci_xhci.c issues them: after the status stage the  *)
(* endpoint is served once more, with no block left and the request still set. *)

Values == 0..1
Reads == {"descriptor", "report", "config", "interface", "idle", "protocol", "status"}
Writes == {"set_idle", "set_protocol", "set_feature", "clear_feature", "set_config"}
OneByte == {"config", "interface", "idle", "protocol"}

\* `req': the request queued in the transfer, kept afterwards; `reply': what the
\* data stage reports: bytes done, bytes left, short; `answer': the value returned;
\* `want': what the guest last set (ghost); `passes': executions of this request.
UmouseInit ==
          ctl = [idle |-> 0, protocol |-> 1, feature |-> 0, req |-> [kind |-> "none"], passes |-> 0,
                 reply |-> [done |-> 0, left |-> 0, short |-> FALSE, len |-> 0], answer |-> 0,
                 want |-> [idle |-> 0, protocol |-> 1, feature |-> 0], crash |-> FALSE]

Low(a, b) == IF a <= b THEN a ELSE b
Reply(len, size) == [done |-> Low(len, size), left |-> IF len > size THEN len - size ELSE 0, short |-> len > size, len |-> len]
ReplyOne(len) == [done |-> 1, left |-> IF len > 0 THEN len - 1 ELSE 0, short |-> len > 1, len |-> len]
\* Too short a request for a word is left as it was.
ReplyStatus(len) == IF len > 1 THEN Reply(len, 2) ELSE [done |-> 0, left |-> len, short |-> len > 0, len |-> len]

\* A request with its data block.
Apply(s, r) ==
    CASE r.kind = "set_idle" -> [s EXCEPT !.idle = r.v]
      [] r.kind = "set_protocol" -> [s EXCEPT !.protocol = r.v]
      [] r.kind = "set_feature" -> [s EXCEPT !.feature = 1]
      [] r.kind = "clear_feature" -> [s EXCEPT !.feature = 0]
      [] r.kind \in {"descriptor", "report"} -> [s EXCEPT !.reply = Reply(r.len, r.size)]
      [] r.kind \in OneByte -> [s EXCEPT !.reply = ReplyOne(r.len),
                                         !.answer = IF r.kind = "idle" THEN s.idle ELSE IF r.kind = "protocol" THEN s.protocol ELSE 0]
      [] r.kind = "status" -> [s EXCEPT !.reply = ReplyStatus(r.len), !.answer = s.feature]
      [] OTHER -> s
Wanted(w, r) ==
    CASE r.kind = "set_idle" -> [w EXCEPT !.idle = r.v]
      [] r.kind = "set_protocol" -> [w EXCEPT !.protocol = r.v]
      [] r.kind = "set_feature" -> [w EXCEPT !.feature = 1]
      [] r.kind = "clear_feature" -> [w EXCEPT !.feature = 0]
      [] OTHER -> w

\* A report is refused when the buffer is shorter.
Request(r) ==
    /\ ~ctl.crash /\ ctl.passes # 1
    /\ r.kind = "report" => r.len >= r.size
    /\ ctl' = [Apply(ctl, r) EXCEPT !.req = r, !.passes = 1, !.want = Wanted(@, r)]
\* The second pass: no block, so reads return early and writes happen again;
\* GET_STATUS, GET_IDLE and GET_PROTOCOL look at the block without having one.
Again ==
    /\ ~ctl.crash /\ ctl.passes = 1
    /\ ctl' = IF ctl.req.kind \in Writes THEN [Apply(ctl, ctl.req) EXCEPT !.passes = 2]
              ELSE [ctl EXCEPT !.passes = 2, !.crash = ctl.req.kind \in {"status", "idle", "protocol"}]

UmouseNext ==
          \/ \E k \in Reads, len \in 1..MaxLen, size \in Sizes : Request([kind |-> k, len |-> len, size |-> size])
          \/ \E k \in Writes, v \in Values : Request([kind |-> k, v |-> v])
          \/ Again

\* What a read reports adds up to what was asked for, is never longer, and is
\* called short exactly when something is left.
ReplyExact == ctl.reply.done + ctl.reply.left = ctl.reply.len /\ (ctl.reply.short <=> ctl.reply.left > 0)
\* Settings are what the guest last wrote, although every request runs twice.
SettingsKept == [idle |-> ctl.idle, protocol |-> ctl.protocol, feature |-> ctl.feature] = ctl.want
=============================================================================
