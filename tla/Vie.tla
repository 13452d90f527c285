-------------------------------- MODULE Vie --------------------------------
(* Emulation of one instruction that touches a device's memory                 *)
(* (vmm_instruction_emul.c). A "byte" has one bit here, so that a register of  *)
(* eight bytes is a number below 256 and the operand sizes keep their ratios.  *)
EXTENDS Integers, SequencesExt

CONSTANTS Regs,        \* values of the register operand
          Mems,        \* values of the memory operand, and immediates
          Count,       \* bound: the count register of a repeated instruction
          Modes,       \* cpu modes: subset of {"64", "compat32", "compat16", "real"}
          PrefixSets,  \* sequences of legacy prefixes to try
          RegNums      \* values of the three-bit register fields
VARIABLES emul, dec

Sizes == {1, 2, 4, 8}
W(size) == 2 ^ size
Bit(v, i) == (v \div (2 ^ i)) % 2
SignExtend(v, from) == IF Bit(v, from - 1) = 1 THEN v + 256 - W(from) ELSE v
BitAnd(x, y) == LET a[i \in 0..8] == IF i = 8 THEN 0 ELSE Bit(x, i) * Bit(y, i) * (2 ^ i) + a[i + 1] IN a[0]
BitOr(x, y) == x + y - BitAnd(x, y)

\* vie_update_register(): small sizes keep the rest, four bytes clear it.
UpdateRegister(old, val, size) ==
    IF size \in {1, 2} THEN old - (old % W(size)) + (val % W(size)) ELSE val % W(size)
\* Byte registers: without a REX prefix encodings 4 to 7 are the second byte of a register.
WriteByteReg(old, val, high) ==
    IF high THEN old - (Bit(old, 1) * 2) + (val % 2) * 2 ELSE UpdateRegister(old, val, 1)

\* Flags of x - y, x + y and of a logical result, as the processor sets them.
Flags(size, r, carry, over) ==
    {f \in {"C", "V", "Z", "N"} : CASE f = "C" -> carry [] f = "V" -> over [] f = "Z" -> r = 0 [] f = "N" -> Bit(r, size - 1) = 1}
GetCc(size, x0, y0) ==
    LET x == x0 % W(size)
        y == y0 % W(size)
        r == (x + W(size) - y) % W(size)
    IN Flags(size, r, x < y, Bit(x, size - 1) # Bit(y, size - 1) /\ Bit(r, size - 1) # Bit(x, size - 1))
GetAddFlags(size, x0, y0) ==
    LET x == x0 % W(size)
        y == y0 % W(size)
        r == (x + y) % W(size)
    IN Flags(size, r, x + y >= W(size), Bit(x, size - 1) = Bit(y, size - 1) /\ Bit(r, size - 1) # Bit(x, size - 1))
Logical(size, r) == GetCc(size, r, 0) \ {"C", "V"}

\* The field of a register that BEXTR extracts.
Bextr(v, start, len, size) ==
    LET n == IF start + len > size THEN size - start ELSE len
    IN IF start > size \/ n = 0 THEN 0 ELSE (v \div (2 ^ start)) % (2 ^ n)

\* One instruction with its operands: register, memory of `size' bytes, immediate
\* (sign-extended), flags left as they were unless the operation sets them.
Keep(s) == [reg |-> s.reg, mem |-> s.mem, flags |-> s.flags]
ToReg(s, v) == [Keep(s) EXCEPT !.reg = UpdateRegister(s.reg, v, s.size)]
Mem(s) == s.mem % W(s.size)
ToMem(s, v) == [Keep(s) EXCEPT !.mem = v % W(s.size)]
EmulateMov(s) ==
    CASE s.op = "store" -> ToMem(s, s.reg)
      [] s.op = "storeb" -> [Keep(s) EXCEPT !.mem = s.mem - (s.mem % 2) + (IF s.high THEN Bit(s.reg, 1) ELSE s.reg % 2)]
      [] s.op = "storei" -> ToMem(s, s.imm)
      [] s.op = "load" -> ToReg(s, Mem(s))
      [] s.op = "loadb" -> [Keep(s) EXCEPT !.reg = WriteByteReg(s.reg, s.mem, s.high)]
EmulateMovx(s) ==
    CASE s.op = "movzxb" -> ToReg(s, s.mem % 2)
      [] s.op = "movzxw" -> ToReg(s, s.mem % 4)
      [] s.op = "movsxb" -> ToReg(s, SignExtend(s.mem % 2, 1))
EmulateLogic(s) ==
    LET r == CASE s.op = "and" -> BitAnd(s.reg, Mem(s)) [] s.op = "or" -> BitOr(s.reg, Mem(s))
               [] s.op = "andi" -> BitAnd(Mem(s), s.imm) [] s.op = "ori" -> BitOr(Mem(s), s.imm)
    IN [IF s.op \in {"and", "or"} THEN ToReg(s, r) ELSE ToMem(s, r) EXCEPT !.flags = Logical(s.size, r % W(s.size))]
EmulateArith(s) ==
    IF s.op = "add" THEN [ToReg(s, s.reg + Mem(s)) EXCEPT !.flags = GetAddFlags(s.size, s.reg, Mem(s))]
    ELSE [ToReg(s, s.reg + 256 - Mem(s)) EXCEPT !.flags = GetCc(s.size, s.reg, Mem(s))]
EmulateCmp(s) ==
    [Keep(s) EXCEPT !.flags = CASE s.op = "cmp39" -> GetCc(s.size, Mem(s), s.reg)
                                [] s.op = "cmp3b" -> GetCc(s.size, s.reg, Mem(s))
                                [] s.op = "cmpi"  -> GetCc(s.size, Mem(s), s.imm)]
EmulateTest(s) ==
    CASE s.op = "testi" -> [Keep(s) EXCEPT !.flags = Logical(s.size, BitAnd(Mem(s), s.imm) % W(s.size))]
      [] s.op = "bt"    -> [Keep(s) EXCEPT !.flags = IF Bit(Mem(s), s.imm % s.size) = 1 THEN s.flags \cup {"C"} ELSE s.flags \ {"C"}]
EmulateBextr(s) ==
    LET r == Bextr(Mem(s), s.imm % 8, s.imm \div 16, s.size)
    IN [ToReg(s, r) EXCEPT !.flags = IF r = 0 THEN {"Z"} ELSE {}]

MovOps == {"store", "storeb", "storei", "load", "loadb"}
MovxOps == {"movzxb", "movzxw", "movsxb"}
LogicOps == {"and", "or", "andi", "ori"}
CmpOps == {"cmp39", "cmp3b", "cmpi"}
Ops == MovOps \cup MovxOps \cup LogicOps \cup {"add", "sub"} \cup CmpOps \cup {"testi", "bt", "bextr"}
Emulate(s) ==
    CASE s.op \in MovOps -> EmulateMov(s) [] s.op \in MovxOps -> EmulateMovx(s) [] s.op \in LogicOps -> EmulateLogic(s)
      [] s.op \in {"add", "sub"} -> EmulateArith(s) [] s.op \in CmpOps -> EmulateCmp(s)
      [] s.op \in {"testi", "bt"} -> EmulateTest(s) [] s.op = "bextr" -> EmulateBextr(s)

\* String and stack instructions: `src' and `dst' say what the pointers hit; an
\* attempt may meet a segment or page fault first, which restarts it later.
\* `moved' is the sequence of items moved, `reads' the device reads made.
Kinds == {"ram", "mmio"}
Faults == {"none", "srcseg", "srcpage", "dstseg", "dstpage", "device"}
EmulInit ==
        \/ \E op \in Ops, size \in Sizes, reg \in Regs, mem \in Mems, imm \in Mems, high \in BOOLEAN :
               /\ op \in {"storeb", "loadb"} <=> size = 1 /\ (high => size = 1)
               /\ op \notin {"storei", "andi", "ori", "cmpi", "testi", "bt", "bextr"} => imm = 0
               /\ emul = [run |-> "one", op |-> op, size |-> size, reg |-> reg, mem |-> mem, imm |-> imm, high |-> high,
                          flags |-> {"C"}, done |-> FALSE, before |-> <<reg, mem>>]
        \/ \E op \in {"movs", "stos", "push", "pop"}, src \in Kinds, dst \in Kinds, rep \in BOOLEAN, n \in 0..Count, down \in BOOLEAN :
               /\ "mmio" \in {src, dst} /\ (op = "stos" => dst = "mmio" /\ src = "ram")
               /\ op = "push" => src = "mmio" /\ dst = "ram"
               /\ op = "pop" => src = "ram" /\ dst = "mmio"
               /\ op \in {"push", "pop"} => ~rep /\ ~down
               /\ rep \/ n = 1
               /\ emul = [run |-> "string", op |-> op, src |-> src, dst |-> dst, rep |-> rep, rcx |-> n, n |-> n, down |-> down,
                          rsi |-> 0, rdi |-> 0, moved |-> <<>>, reads |-> 0, more |-> TRUE, failed |-> FALSE]

Single == emul.run = "one" /\ ~emul.done /\ LET r == Emulate(emul)
          IN emul' = [emul EXCEPT !.reg = r.reg, !.mem = r.mem, !.flags = r.flags, !.done = TRUE]

Move(p) == IF emul.down THEN (p + 3) % 4 ELSE (p + 1) % 4      \* two bytes of address
Moved(s) == [s EXCEPT !.moved = Append(@, s.rsi), !.reads = IF s.src = "mmio" THEN @ + 1 ELSE @]
Counted(s) ==
    LET c == IF s.rep THEN s.rcx - 1 ELSE s.rcx
    IN [s EXCEPT !.rcx = c, !.more = s.rep /\ c # 0]
\* The order of the checks: the source first, then (for a source in device memory)
\* the destination, and only then the device is read.
PossibleFaults ==
    CASE emul.op = "stos" -> {"device"}
      [] emul.op = "movs" /\ emul.src = "ram" -> {"srcseg", "srcpage", "device"}
      [] emul.op = "movs" /\ emul.src = "mmio" -> {"srcseg", "dstseg", "device", "srcpage", "dstpage"}
      [] emul.op = "push" -> {"dstseg", "dstpage", "device"}
      [] emul.op = "pop" -> {"srcseg", "srcpage", "device"}
Attempt(fault) ==
    LET s == [emul EXCEPT !.rsi = IF emul.op \in {"movs", "pop"} THEN Move(@) ELSE @,
                          !.rdi = IF emul.op # "pop" THEN Move(@) ELSE @]
    IN /\ emul.run = "string" /\ emul.more /\ ~emul.failed
       /\ fault # "none" => fault \in PossibleFaults /\ Len(emul.moved) < 2
       /\ emul' = IF emul.rep /\ emul.rcx = 0 THEN [emul EXCEPT !.more = FALSE]
                  ELSE IF fault = "device" THEN [emul EXCEPT !.failed = TRUE]
                  ELSE IF fault # "none" THEN emul
                  ELSE Counted([Moved(emul) EXCEPT !.rsi = s.rsi, !.rdi = s.rdi])
EmulNext == Single \/ \E f \in Faults : Attempt(f)

\* The register rule of the architecture, byte by byte: those of the operand are new,
\* the others are kept by one and two byte operands and cleared by four byte ones.
RegisterRule ==
    (emul.run = "one" /\ emul.done /\ emul.reg # emul.before[1]) =>
          \A i \in 0..7 : Bit(emul.reg, i) # Bit(emul.before[1], i) =>
              i < emul.size \/ (emul.size = 4 /\ Bit(emul.reg, i) = 0) \/ (emul.high /\ i = 1)
\* What the flags of a comparison mean to the branches that follow it: carry is
\* unsigned less, sign unlike overflow is signed less, of the operands in their order.
FlagsMeanOrder ==
    (emul.run = "one" /\ emul.done /\ emul.op \in CmpOps \cup {"sub"}) =>
          LET m == emul.before[2] % W(emul.size)
              r == emul.before[1] % W(emul.size)
              x == IF emul.op \in {"cmp3b", "sub"} THEN r ELSE m
              y == CASE emul.op = "cmp39" -> r [] emul.op = "cmpi" -> emul.imm % W(emul.size) [] OTHER -> m
              Less(a, b) == LET h == W(emul.size) \div 2 IN (a + h) % W(emul.size) < (b + h) % W(emul.size)
          IN /\ "C" \in emul.flags <=> x < y
             /\ ("N" \in emul.flags) # ("V" \in emul.flags) <=> Less(x, y)
             /\ "Z" \in emul.flags <=> x = y
\* Only an instruction with a memory destination changes memory, and BEXTR takes exactly
\* the bits it names.
MemoryRule ==
    (emul.run = "one" /\ emul.done) =>
          /\ emul.op \notin {"store", "storeb", "storei", "andi", "ori"} => emul.mem = emul.before[2]
          /\ emul.op = "bextr" => \A i \in 0..(emul.size - 1) :
                   Bit(emul.reg, i) = IF i < emul.imm \div 16 /\ i + (emul.imm % 8) < emul.size THEN Bit(emul.before[2], i + (emul.imm % 8)) ELSE 0
\* However often faults restart it, a string instruction moves each item once, in
\* order, reads the device once per item, and leaves pointers and count where it is.
ItemsOnce ==
    emul.run = "string" =>
          /\ \A i \in 1..Len(emul.moved) : emul.op = "movs" => emul.moved[i] = IF emul.down THEN (5 - i) % 4 ELSE (i - 1) % 4
          /\ emul.reads = IF emul.src = "mmio" THEN Len(emul.moved) ELSE 0
          /\ emul.rep => emul.rcx + Len(emul.moved) = emul.n
          /\ ~emul.more => Len(emul.moved) = emul.n

-----------------------------------------------------------------------------
(* Decoding an instruction (vmm_instruction_emul.c): prefixes, opcode, ModRM,  *)
(* SIB, displacement, immediate and memory offset, one byte after another, and *)
(* the linear address its operand must have (verify_gla()).                    *)

None == 99
Rip == 98
\* Opcode classes, with one opcode standing for its class.
OneByte == [b \in 0..255 |-> CASE b = 139 -> "modrm" [] b = 199 -> "imm" [] b = 131 -> "imm8" [] b = 161 -> "moffset"
                               [] b = 165 -> "string" [] b = 15 -> "two" [] OTHER -> "none"]
TwoByte == [b \in 0..255 |-> CASE b = 182 -> "modrm" [] b = 186 -> "imm8" [] OTHER -> "none"]
ThreeByte == [b \in 0..255 |-> IF b = 247 THEN "modrm" ELSE "none"]
HasModrm(t) == t \in {"modrm", "imm", "imm8"}
PrefixBytes == {102, 103, 243, 242, 46, 54, 62, 38, 100, 101}
Segments == [b \in {46, 54, 62, 38, 100, 101} |-> CASE b = 46 -> "cs" [] b = 54 -> "ss" [] b = 62 -> "ds" [] b = 38 -> "es"
                                                    [] b = 100 -> "fs" [] b = 101 -> "gs"]
B(x, k) == (x \div (2 ^ k)) % 2

Fail(v) == [v EXCEPT !.ok = FALSE]
At(v) == v.inst[v.pos]
More(v) == v.pos <= Len(v.inst)
Skip(v, n) == [v EXCEPT !.pos = @ + n]

DecodePrefixes(v) ==
    LET n == CHOOSE k \in 0..Len(v.inst) : /\ \A i \in 1..k : v.inst[i] \in PrefixBytes
                                           /\ k = Len(v.inst) \/ v.inst[k + 1] \notin PrefixBytes
        p == SubSeq(v.inst, 1, n)
        seg == SelectSeq(p, LAMBDA b : b \in DOMAIN Segments)
        x == v.inst[n + 1]
        u == [v EXCEPT !.pos = n + 1, !.opover = Contains(p, 102), !.adover = Contains(p, 103),
                       !.rep = Contains(p, 243) \/ Contains(p, 242), !.seg = IF seg = <<>> THEN "none" ELSE Segments[seg[Len(seg)]]]
    IN IF n = Len(v.inst) THEN Fail(v)
       ELSE IF v.mode = "64" /\ x \in 64..79
       THEN [Skip(u, 1) EXCEPT !.w = B(x, 3), !.r = B(x, 2), !.x = B(x, 1), !.b = B(x, 0)]
       ELSE IF v.mode \in {"64", "compat32", "compat16"} /\ x = 196
       THEN IF Len(v.inst) < n + 4 THEN Fail(v)
            ELSE LET y == v.inst[n + 2]
                     z == v.inst[n + 3]
                 IN IF y % 32 # 2 \/ ThreeByte[v.inst[n + 4]] = "none" THEN Fail(v)
                    ELSE [Skip(u, 4) EXCEPT !.r = 1 - B(y, 7), !.x = 1 - B(y, 6), !.b = 1 - B(y, 5), !.w = B(z, 7),
                                            !.vreg = 15 - ((z \div 8) % 16), !.type = ThreeByte[v.inst[n + 4]],
                                            !.opover = @ \/ z % 4 = 1, !.rep = @ \/ z % 4 \in {2, 3}]
       ELSE u
Sized(v) ==
    [v EXCEPT !.addrsize = IF v.mode = "64" THEN (IF v.adover THEN 4 ELSE 8)
                           ELSE IF v.mode = "compat32" THEN (IF v.adover THEN 2 ELSE 4) ELSE IF v.adover THEN 4 ELSE 2,
              !.opsize = IF v.mode = "64" THEN (IF v.w = 1 THEN 8 ELSE IF v.opover THEN 2 ELSE 4)
                         ELSE IF v.mode = "compat32" THEN (IF v.opover THEN 2 ELSE 4) ELSE IF v.opover THEN 4 ELSE 2]
DecodeOpcode(v) ==
    IF ~More(v) THEN Fail(v)
    ELSE IF v.type # "none" THEN v
    ELSE IF OneByte[At(v)] = "none" THEN Fail(v)
    ELSE IF OneByte[At(v)] # "two" THEN [Skip(v, 1) EXCEPT !.type = OneByte[At(v)]]
    ELSE IF v.pos + 1 > Len(v.inst) \/ TwoByte[v.inst[v.pos + 1]] = "none" THEN Fail(v)
    ELSE [Skip(v, 2) EXCEPT !.type = TwoByte[v.inst[v.pos + 1]]]
DecodeModrm(v) ==
    LET mod == At(v) \div 64
        rm0 == At(v) % 8
        rm  == IF (mod = 0 /\ rm0 = 5) \/ rm0 = 4 THEN rm0 ELSE rm0 + 8 * v.b
        u   == [Skip(v, 1) EXCEPT !.mod = mod, !.reg = ((At(v) \div 8) % 8) + 8 * v.r, !.sib = rm = 4]
    IN IF ~HasModrm(v.type) THEN v
       ELSE IF v.mode = "real" \/ ~More(v) \/ mod = 3 THEN Fail(v)
       ELSE IF rm = 4 THEN u
       ELSE [u EXCEPT !.base = IF mod # 0 \/ rm # 5 THEN rm ELSE IF v.mode = "64" THEN Rip ELSE None,
                      !.dispn = IF mod = 1 THEN 1 ELSE IF mod = 2 \/ rm = 5 THEN 4 ELSE 0]
DecodeSib(v) ==
    LET index == ((At(v) \div 8) % 8) + 8 * v.x
        base  == (At(v) % 8) + 8 * v.b
        none  == v.mod = 0 /\ base \in {5, 13}
    IN IF ~v.sib THEN v
       ELSE IF ~More(v) THEN Fail(v)
       ELSE [Skip(v, 1) EXCEPT !.base = IF none THEN None ELSE base, !.index = IF index = 4 THEN None ELSE index,
                               !.scale = IF index = 4 THEN 0 ELSE 2 ^ (At(v) \div 64),
                               !.dispn = IF v.mod = 1 THEN 1 ELSE IF v.mod = 2 \/ none THEN 4 ELSE 0]
Take(v, n) == SubSeq(v.inst, v.pos, v.pos + n - 1)
DecodeDisplacement(v) ==
    IF v.pos + v.dispn - 1 > Len(v.inst) THEN Fail(v) ELSE [Skip(v, v.dispn) EXCEPT !.disp = Take(v, v.dispn)]
DecodeImmediate(v) ==
    LET n == IF v.type = "imm" THEN (IF v.opsize \in {4, 8} THEN 4 ELSE 2) ELSE IF v.type = "imm8" THEN 1 ELSE 0
    IN IF v.pos + n - 1 > Len(v.inst) THEN Fail(v) ELSE [Skip(v, n) EXCEPT !.imm = Take(v, n)]
DecodeMoffset(v) ==
    IF v.type # "moffset" THEN v
    ELSE IF v.pos + v.addrsize - 1 > Len(v.inst) THEN Fail(v) ELSE [Skip(v, v.addrsize) EXCEPT !.disp = Take(v, v.addrsize)]

Vie(inst, mode) ==
    [inst |-> inst, mode |-> mode, pos |-> 1, ok |-> TRUE, opover |-> FALSE, adover |-> FALSE, rep |-> FALSE, seg |-> "none",
     w |-> 0, r |-> 0, x |-> 0, b |-> 0, vreg |-> None, type |-> "none", addrsize |-> 0, opsize |-> 0, mod |-> 0, reg |-> 0,
     sib |-> FALSE, base |-> None, index |-> None, scale |-> 0, dispn |-> 0, disp |-> <<>>, imm |-> <<>>]
Then(v, Step(_)) == IF v.ok THEN Step(v) ELSE v
DecodeInstruction(inst, mode) ==
    Then(Then(Then(Then(Then(Then(Then(DecodePrefixes(Vie(inst, mode)), Sized), DecodeOpcode), DecodeModrm), DecodeSib),
         DecodeDisplacement), DecodeImmediate), DecodeMoffset)
\* The segment verify_gla() takes the operand's base address from.
DefaultSegment(v) == IF v.seg # "none" THEN v.seg ELSE IF v.base \in {4, 5} THEN "ss" ELSE "ds"
SegBaseIsZero(v) == v.mode = "64" /\ DefaultSegment(v) \notin {"fs", "gs"}

----------------------------------------------------------------------------
\* The instruction-set manual's view: an addressing form and how it is encoded.
\* `base' None is an absolute address, `rip' relative to the next instruction.
Forms == [base : RegNums \cup {None, Rip}, index : RegNums \cup {None}, dispn : {0, 1, 4}]
Encodable(f, mode) ==
    /\ (f.base = Rip => mode = "64" /\ f.index = None) /\ f.index # 4
    /\ f.base \in {None, Rip} => f.dispn = 4
    /\ f.base % 8 = 5 => f.dispn # 0
    /\ mode # "64" => (f.base < 8 \/ f.base \in {None, Rip}) /\ (f.index < 8 \/ f.index = None)
NeedsSib(f, mode) == f.index # None \/ f.base % 8 = 4 \/ (f.base = None /\ mode = "64")
ModOf(f) == IF f.base \in {None, Rip} THEN 0 ELSE IF f.dispn = 1 THEN 1 ELSE IF f.dispn = 4 THEN 2 ELSE 0
Bytes(n) == [i \in 1..n |-> 200 + i]
Encode(f, reg, mode) ==
    LET low(n) == IF n \in {None, Rip} THEN 5 ELSE n % 8
        idx    == IF f.index = None THEN 4 ELSE f.index % 8
        rm     == IF NeedsSib(f, mode) THEN 4 ELSE low(f.base)
    IN <<ModOf(f) * 64 + (reg % 8) * 8 + rm>> \o (IF NeedsSib(f, mode) THEN <<64 + idx * 8 + low(f.base)>> ELSE <<>>) \o Bytes(f.dispn)
Hi(n) == IF n \in 8..15 THEN 1 ELSE 0
Lead(f, reg, mode, w, vex) ==
    IF vex THEN <<196, (1 - Hi(reg)) * 128 + (1 - Hi(f.index)) * 64 + (1 - Hi(f.base)) * 32 + 2, w * 128 + (15 - 3) * 8, 247>>
    ELSE (IF mode = "64" THEN <<64 + 8 * w + 4 * Hi(reg) + 2 * Hi(f.index) + Hi(f.base)>> ELSE <<>>) \o <<139>>

\* One instruction: its form, prefixes and mode, then its bytes cut after `len'.
DecInit ==
       \E f \in Forms, mode \in Modes, p \in PrefixSets, reg \in RegNums, w \in 0..1, vex \in BOOLEAN :
           /\ Encodable(f, mode) /\ (mode # "64" => w = 0 /\ reg < 8)
           /\ LET inst == p \o Lead(f, reg, mode, w, vex) \o Encode(f, reg, mode)
              IN dec = [form |-> f, reg |-> reg, mode |-> mode, p |-> p, vex |-> vex, inst |-> inst, len |-> Len(inst)]
Cut == dec.len > 0 /\ dec' = [dec EXCEPT !.len = @ - 1]
DecNext == Cut

\* Decoding gives back the form that was encoded and uses exactly its bytes; no
\* instruction of which a byte is missing is taken for another one.
DecodeExact ==
    LET v == DecodeInstruction(SubSeq(dec.inst, 1, dec.len), dec.mode)
    IN IF dec.len < Len(dec.inst) THEN ~v.ok
       ELSE /\ v.ok /\ v.pos = Len(dec.inst) + 1
            /\ v.base = dec.form.base /\ v.index = dec.form.index /\ v.disp = Bytes(dec.form.dispn) /\ v.reg = dec.reg
            /\ v.vreg = (IF dec.vex THEN 3 ELSE None) /\ (v.scale = 2 <=> dec.form.index # None)
=============================================================================
