------------------------------ MODULE Firmware ------------------------------
(* The firmware control channel (fwctl.c): a request and its answer move word  *)
(* by word through a port. The firmware identifies the device, then sends a    *)
(* size, an operation, a transaction id and an OID, and reads the answer. An   *)
(* OID is a sequence of words.                                                 *)
EXTENDS Integers, Sequences, FiniteSets

CONSTANTS Oid,      \* the OID that exists
          OidLen,   \* bytes of its value
          Sizes,    \* data bytes of a request
          MaxData,  \* FGET_STRSZ
          MaxReqs,  \* requests
          PmOps,    \* register writes
          MaxTerms  \* SIGTERMs
VARIABLES fw, pm

Words(bytes) == (bytes + 3) \div 4
SigLen == 4
NoReq == [type |-> "none", size |-> 0, name |-> <<>>]
NoInfo == [cnt |-> 0, size |-> 0, type |-> "none", txid |-> 0, op |-> "none", err |-> "none", rcnt |-> 0, rsize |-> 0, roff |-> 0, data |-> <<>>]

\* fwctl_init(). cs, req, sent, got: where the firmware is with its request.
FwInit == fw = [be |-> "wait", ident |-> 0, str |-> <<>>, errop |-> "none", r |-> NoInfo, cs |-> "ident", req |-> NoReq, sent |-> 0, got |-> <<>>, n |-> 0]

----------------------------------------------------------------------------
(* The operations: get and get_len take a name, everything else is an error. *)

\* ctl_locate(): compares as many bytes as arrived.
Located(str) == Len(str) <= Len(Oid) /\ SubSeq(Oid, 1, Len(str)) = str
SizeWords == <<<<"len", OidLen>>, <<"len", 0>>>>
Value == [i \in 1..Words(OidLen) |-> <<"value", i>>]
FgetResult(str, type) ==
    IF ~Located(str) THEN [err |-> "noent", size |-> 0, data |-> <<>>]
    ELSE IF type = "get" THEN [err |-> "ok", size |-> 8 + OidLen, data |-> SizeWords \o Value]
    ELSE [err |-> "ok", size |-> 8, data |-> SizeWords]
RequestDone(s) ==
    LET res == IF s.r.op = "err" THEN [err |-> s.errop, size |-> 0, data |-> <<>>] ELSE FgetResult(s.str, s.r.type)
    IN [s EXCEPT !.r.err = res.err, !.r.rsize = res.size, !.r.data = res.data, !.r.roff = 0, !.be = "resp"]

\* fwctl_request_start(): the size less the header; an operation that refuses is
\* replaced by the error operation.
RequestStart(s0, txid) ==
    LET size == s0.r.size - 12
        known == s0.r.type \in {"get", "len"}
        s == [s0 EXCEPT !.r.cnt = 3, !.r.txid = txid, !.r.size = size]
        s1 == CASE ~known               -> [s EXCEPT !.r.op = "err", !.errop = "noent"]
                [] known /\ size > MaxData -> [s EXCEPT !.r.op = "err", !.errop = "toobig"]
                [] OTHER                -> [s EXCEPT !.r.op = "get", !.str = <<>>]
    IN IF size = 0 THEN RequestDone(s1) ELSE s1
RequestData(s0, w) ==
    LET left == IF s0.r.size <= 4 THEN 0 ELSE s0.r.size - 4
        s == [s0 EXCEPT !.r.size = left, !.str = IF s0.r.op = "get" THEN Append(@, w) ELSE @]
    IN IF left < 4 THEN RequestDone(s) ELSE s
Request(s, w) ==
    CASE s.r.cnt = 0 -> [s EXCEPT !.r.size = w, !.r.cnt = 1]
      [] s.r.cnt = 1 -> [s EXCEPT !.r.type = w, !.r.cnt = 2]
      [] s.r.cnt = 2 -> RequestStart(s, w)
      [] OTHER       -> RequestData(s, w)

\* fwctl_response(): four header words, then the data; the last word ends it.
Word(s) ==
    CASE s.r.rcnt = 0 -> 16 + 4 * Words(s.r.rsize)
      [] s.r.rcnt = 1 -> s.r.type
      [] s.r.rcnt = 2 -> s.r.txid
      [] s.r.rcnt = 3 -> s.r.err
      [] OTHER        -> s.r.data[(s.r.roff \div 4) + 1]
Response(s) ==
    LET r == IF s.r.rcnt <= 3 THEN [s.r EXCEPT !.rcnt = @ + 1] ELSE [s.r EXCEPT !.roff = @ + 4]
    IN IF r.rcnt > 3 /\ r.roff >= r.rsize THEN [s EXCEPT !.r = NoInfo, !.be = "req"] ELSE [s EXCEPT !.r = r]

----------------------------------------------------------------------------
(* The firmware, through fwctl_handler().                                   *)

\* fwctl_outw() and fwctl_inb().
Outw ==
    /\ fw.cs = "ident" /\ fw.ident = 0
    /\ fw' = IF fw.be = "wait" THEN [fw EXCEPT !.be = "sig"] ELSE fw
Inb ==
    /\ fw.cs = "ident" /\ fw.be = "sig"
    /\ LET s == [fw EXCEPT !.ident = @ + 1]
       IN fw' = IF s.ident >= SigLen THEN [s EXCEPT !.be = "req", !.cs = "idle"] ELSE s
NewRequest(type, size, name) ==
    /\ fw.cs = "idle" /\ fw.n < MaxReqs
    /\ Len(name) = Words(size)
    /\ fw' = [fw EXCEPT !.cs = "send", !.req = [type |-> type, size |-> size, name |-> name], !.sent = 0, !.got = <<>>, !.n = @ + 1]
Outl ==
    /\ fw.cs = "send"
    /\ LET w == CASE fw.sent = 0 -> 12 + fw.req.size
                  [] fw.sent = 1 -> fw.req.type
                  [] fw.sent = 2 -> fw.n
                  [] OTHER       -> fw.req.name[fw.sent - 2]
           s == [fw EXCEPT !.sent = @ + 1, !.cs = IF fw.sent + 1 = 3 + Words(fw.req.size) THEN "recv" ELSE "send"]
       IN fw' = IF fw.be = "req" THEN Request(s, w) ELSE s
Inl ==
    /\ fw.cs = "recv"
    /\ LET s == [fw EXCEPT !.got = Append(@, IF fw.be = "resp" THEN Word(fw) ELSE -1)]
           s1 == IF fw.be = "resp" THEN Response(s) ELSE s
       IN fw' = IF s.got[1] # -1 /\ 4 * Len(s.got) >= s.got[1] THEN [s1 EXCEPT !.cs = "idle"] ELSE s1

Names == UNION {[1..k -> {Oid[i] : i \in 1..Len(Oid)} \union {"other"}] : k \in 0..Len(Oid) + 1}
FwNext ==
      \/ Outw \/ Inb \/ Outl \/ Inl
      \/ \E type \in {"get", "len", "set"}, size \in Sizes, name \in Names : NewRequest(type, size, name)

----------------------------------------------------------------------------
\* The two sides stay in step: when the firmware has sent a request the answer is
\* ready, when it has read the answer the device takes the next request.
InStep == /\ fw.cs = "idle" => fw.be = "req" /\ fw.r = NoInfo
          /\ fw.cs = "recv" => fw.be = "resp"
\* What the firmware read is the answer to its own request: its operation and id,
\* an error exactly when it named nothing, the value whole. Of a size that is not a
\* multiple of four the last bytes are not compared.
Asked == SubSeq(fw.req.name, 1, IF fw.req.size >= 4 THEN fw.req.size \div 4 ELSE Words(fw.req.size))
AnswerExact ==
    (fw.cs = "idle" /\ fw.n > 0) =>
        LET ok == fw.req.type \in {"get", "len"} /\ fw.req.size <= MaxData /\ Located(Asked)
        IN /\ fw.got[2] = fw.req.type /\ fw.got[3] = fw.n
           /\ (fw.got[4] = "ok") = ok
           /\ SubSeq(fw.got, 5, Len(fw.got)) = IF ~ok THEN <<>> ELSE IF fw.req.type = "get" THEN SizeWords \o Value ELSE SizeWords

-----------------------------------------------------------------------------
(* ACPI power management (pm.c): the event registers and the level-triggered    *)
(* SCI, the general purpose event, the power button that SIGTERM stands for     *)
(* while ACPI is enabled, and the control register, which takes no lock.        *)

\* button: the event is registered; ign: SIGTERM's disposition; pend: the event thread
\* has a signal to handle; smi: a half-done SMI command; ctl: the control register's
\* SCI_EN; cw: the SCI_EN an unlocked control write has read; want: what the last
\* command asked for; owed: a press the guest has not acknowledged.
PmInit ==
      pm = [enable |-> {}, status |-> {}, gact |-> FALSE, gen |-> FALSE, sci |-> FALSE, ctl |-> FALSE, want |-> FALSE, cw |-> "none", raced |-> FALSE,
            button |-> FALSE, ign |-> FALSE, pend |-> FALSE, smi |-> "none", owed |-> FALSE, killed |-> FALSE, off |-> FALSE, n |-> 0, t |-> 0]

SciUpdate(s) == [s EXCEPT !.sci = (s.enable \intersect s.status # {} \/ (s.gen /\ s.gact))]
Op == pm.n < PmOps /\ ~pm.killed /\ ~pm.off
Locked == pm.smi = "none"
Do(s) == pm' = [s EXCEPT !.n = @ + 1]

\* The event registers, under pm_lock: status bits are cleared by writing ones.
Pm1Status(v) ==
    /\ Op /\ Locked
    /\ Do(SciUpdate([pm EXCEPT !.status = @ \ v, !.owed = IF "pwr" \in v \intersect pm.status THEN pm.pend ELSE @]))
Pm1Enable(v) == Op /\ Locked /\ Do(SciUpdate([pm EXCEPT !.enable = v]))
Gpe0Sts == Op /\ Locked /\ Do(SciUpdate([pm EXCEPT !.gact = FALSE]))
Gpe0En(v) == Op /\ Locked /\ Do(SciUpdate([pm EXCEPT !.gen = v]))
RaiseGpe == Op /\ Locked /\ Do(SciUpdate([pm EXCEPT !.gact = TRUE]))

\* smi_cmd_handler(): the button's event and SIGTERM's disposition change one after
\* the other.
SmiEnable ==
    /\ Op /\ Locked
    /\ Do([pm EXCEPT !.ctl = TRUE, !.want = TRUE, !.raced = @ \/ pm.cw # "none", !.smi = IF pm.button THEN "none" ELSE "on", !.button = TRUE])
SmiDisable ==
    /\ Op /\ Locked
    /\ Do([pm EXCEPT !.ctl = FALSE, !.want = FALSE, !.raced = @ \/ pm.cw # "none", !.smi = IF pm.button THEN "off" ELSE "none",
                     !.button = FALSE, !.owed = @ /\ ~pm.pend, !.pend = FALSE])
SmiSignal ==
    /\ pm.smi # "none"
    /\ pm' = [pm EXCEPT !.ign = (pm.smi = "on"), !.smi = "none"]

\* pm1_control_handler(): a read and a write of pm1_control without the lock; SLP_EN
\* with the type of S5 powers the VM off.
ControlRead == Op /\ pm.cw = "none" /\ Do([pm EXCEPT !.cw = IF pm.ctl THEN "set" ELSE "clear"])
ControlWrite(s5) ==
    /\ pm.cw # "none"
    /\ pm' = [pm EXCEPT !.ctl = (pm.cw = "set"), !.cw = "none", !.off = @ \/ s5]

\* SIGTERM, and power_button_handler() in the event thread.
Term ==
    /\ pm.t < MaxTerms /\ ~pm.killed
    /\ pm' = IF ~pm.ign THEN [pm EXCEPT !.t = @ + 1, !.killed = TRUE]
             ELSE [pm EXCEPT !.t = @ + 1, !.pend = pm.button, !.owed = @ \/ pm.button]
PowerButton ==
    /\ pm.pend /\ Locked
    /\ LET s == [pm EXCEPT !.pend = FALSE]
       IN pm' = IF "pwr" \in pm.status THEN s ELSE SciUpdate([s EXCEPT !.status = @ \union {"pwr"}])

PmNext ==
      \/ \E v \in SUBSET {"pwr"} : Pm1Status(v)
      \/ \E v \in SUBSET {"pwr", "gbl"} : Pm1Enable(v)
      \/ \E v \in BOOLEAN : Gpe0En(v)
      \/ Gpe0Sts \/ RaiseGpe \/ SmiEnable \/ SmiDisable \/ SmiSignal \/ ControlRead \/ Term \/ PowerButton
      \/ \E s5 \in BOOLEAN : ControlWrite(s5)

----------------------------------------------------------------------------
\* The SCI is up exactly while an enabled event is active, whoever changed last.
LineAgrees == pm.sci = (pm.enable \intersect pm.status # {} \/ (pm.gen /\ pm.gact))
\* A press of the power button is on its way or shown until the guest acknowledges it.
PressKept == pm.owed => pm.pend \/ "pwr" \in pm.status
\* SIGTERM ends the process only while ACPI is off or a command is half done.
TermIsButton == (pm.button /\ pm.smi = "none") => pm.ign
\* SCI_EN is what the last command made it, unless an unlocked control write raced.
SciEnKept == (~pm.raced /\ pm.smi = "none") => pm.ctl = pm.want
=============================================================================
