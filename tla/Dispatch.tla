------------------------------ MODULE Dispatch ------------------------------
(* One instruction as the dispatcher runs it: effective addresses (ea.rs), the
   instructions with memory operands (data_movement.rs and the dispatcher of
   decode.rs) and control flow.  This is the reference for the batch runner's
   shortcuts in MemOps and SimpleOps.

   A machine m is a record: dar (data registers 0-7, address registers 8-15), pc
   (past the opcode), f, mem, model, win (the part of memory the host lends the
   core as plain bytes), fault (an operand was misaligned: an exception follows,
   see CpuCore) and out (the bus saw an access outside win).

   An instruction ins is a record with op, s (size), src and dst (operands), and
   ext, its extension words, the first at address ins.at.  A word is a record [w, x,
   mask]: its value, as an index word, and as the set of a register mask's bits. *)
EXTENDS RegOps, SequencesExt

CONSTANT AddressSpace       \* address_mask + 1

ASSUME DispatchAssumption == AddressSpace \in Nat \ {0}

address(x) == x % AddressSpace
A(m, r) == m.dar[8 + r]
Pre020(model) == model \in {"M68000", "M68010", "SCC68070"}

Odd(m, s, a) == Pre020(m.model) /\ s # "Byte" /\ a % 2 = 1
Inside(m, a, n) == address(a) - m.win.base \in 0 .. m.win.len - n

----------------------------------------------------------------------------
(* The bus: every access is seen, a misaligned one faults before the 68020. *)

Touch(m, s, a) == [m EXCEPT !.fault = @ \/ Odd(m, s, a),
                            !.out = @ \/ ~Inside(m, a, Bytes(s))]
BusRead(m, s, a)     == [m |-> Touch(m, s, a), v |-> ReadMem(m.mem, s, address(a))]
BusWrite(m, s, a, v) == [Touch(m, s, a) EXCEPT !.mem = WriteMem(@, s, address(a), v)]

push_32(m, v) == LET sp == Low("Long", m.dar[15] - Bytes("Long"))
                 IN  BusWrite([m EXCEPT !.dar[15] = sp], "Long", sp, v)
pull_32(m)    == LET Popped(x) == [x EXCEPT !.m.dar[15] = Low("Long", @ + Bytes("Long"))]
                 IN  Popped(BusRead(m, "Long", m.dar[15]))

\* read_imm_16, read_imm_32: the words after the opcode, in order.
ExtAt(ins, pc) == ins.ext[(pc - ins.at) \div Bytes("Word") + 1]
LongAt(ins, pc) == ExtAt(ins, pc).w * Mod("Word") + ExtAt(ins, pc + Bytes("Word")).w
Skip(m, words) == [m EXCEPT !.pc = @ + words * Bytes("Word")]
Disp(ins, pc)  == Signed("Word", ExtAt(ins, pc).w)

----------------------------------------------------------------------------
(* Effective addresses: the step of an address register is committed at once. *)

Result(m, k, v) == [m |-> m, k |-> k, v |-> v]

\* Scale is a 68020 feature, and so is the full format.
IndexValue(m, x) ==
    LET v == IF x.long THEN Signed("Long", m.dar[x.reg]) ELSE Signed("Word", m.dar[x.reg])
    IN  IF Pre020(m.model) THEN v ELSE v * 2 ^ x.scale
\* Base, then outer displacement: none, a word or a long; the index is added before
\* or after the indirection.
DispOf(ins, pc, words) == CASE words = 0 -> 0 [] words = 1 -> Disp(ins, pc) [] words = 2 -> LongAt(ins, pc)
compute_full_index(m, ins, base, x) ==
    LET Outer(p, od) == Result(p.m, "mem", Low("Long", p.v + od))
        Inner(m1, b, i) ==
            LET od == DispOf(ins, m1.pc, x.od)
                Pointer(a) == BusRead(Skip(m1, x.od), "Long", Low("Long", a))
            IN  IF x.ind = "none" THEN Result(m1, "mem", Low("Long", b + i))
                ELSE Outer(Pointer(IF x.ind = "pre" THEN b + i ELSE b), IF x.ind = "pre" THEN od ELSE od + i)
    IN  Inner(Skip(m, x.bd), (IF x.bs THEN 0 ELSE base) + DispOf(ins, m.pc, x.bd),
              IF x.is THEN 0 ELSE IndexValue(m, x))
compute_index(m, ins, base) ==
    LET x == ExtAt(ins, m.pc).x  m1 == Skip(m, 1)
    IN  IF x.full /\ ~Pre020(m.model) THEN compute_full_index(m1, ins, base, x)
        ELSE Result(m1, "mem", Low("Long", base + Signed("Byte", x.d8) + IndexValue(m, x)))

Indexed == {"d8(An,Xn)", "d8(PC,Xn)"}
resolve_ea(m, ins, ea, s) ==
    CASE ea.m = "Dn"    -> Result(m, "reg", ea.r)
      [] ea.m = "An"    -> Result(m, "reg", 8 + ea.r)
      [] ea.m = "(An)"  -> Result(m, "mem", A(m, ea.r))
      [] ea.m = "(An)+" ->
            Result([m EXCEPT !.dar[8 + ea.r] = Low("Long", @ + EaStep(ea.r, s))], "mem", A(m, ea.r))
      [] ea.m = "-(An)" ->
            LET a == Low("Long", A(m, ea.r) - EaStep(ea.r, s))
            IN  Result([m EXCEPT !.dar[8 + ea.r] = a], "mem", a)
      [] ea.m = "d16(An)" -> Result(Skip(m, 1), "mem", Low("Long", A(m, ea.r) + Disp(ins, m.pc)))
      [] ea.m \in Indexed -> compute_index(m, ins, IF ea.m = "d8(An,Xn)" THEN A(m, ea.r) ELSE m.pc)
      [] ea.m = "abs.W" -> Result(Skip(m, 1), "mem", Low("Long", Disp(ins, m.pc)))
      [] ea.m = "abs.L" -> Result(Skip(m, 2), "mem", LongAt(ins, m.pc))
      [] ea.m = "d16(PC)" -> Result(Skip(m, 1), "mem", Low("Long", m.pc + Disp(ins, m.pc)))
      [] ea.m = "#imm" -> IF s = "Long" THEN Result(Skip(m, 2), "imm", LongAt(ins, m.pc))
                          ELSE Result(Skip(m, 1), "imm", Low(s, ExtAt(ins, m.pc).w))

read_resolved_ea(m, loc, s) ==
    CASE loc.k = "reg" -> [m |-> m, v |-> Low(s, m.dar[loc.v])]
      [] loc.k = "mem" -> BusRead(m, s, loc.v)
      [] loc.k = "imm" -> [m |-> m, v |-> loc.v]
\* An address register always gets the whole value.
write_resolved_ea(m, loc, s, v) ==
    IF loc.k = "mem" THEN BusWrite(m, s, loc.v, v)
    ELSE [m EXCEPT !.dar[loc.v] = IF loc.v < 8 THEN write_data_reg_sized(@, s, v) ELSE v]
read_ea(m, ins, ea, s) == LET Read(loc) == read_resolved_ea(loc.m, loc, s)
                          IN  Read(resolve_ea(m, ins, ea, s))

----------------------------------------------------------------------------
(* Instructions.  A local operator says what is done with an operand that is read. *)

SetFlags(m, f) == [m EXCEPT !.f = f]
SignedIfWord(s, v) == IF s = "Word" THEN SignExt("Word", v) ELSE v

\* The source is read before the destination's address is computed.
exec_move(m, ins) ==
    LET Write(d, v) == SetFlags(write_resolved_ea(d.m, d, ins.s, v), set_logic_flags(m.f, ins.s, v))
        Put(v) == Write(resolve_ea(v.m, ins, ins.dst, ins.s), v.v)
    IN  Put(read_ea(m, ins, ins.src, ins.s))
exec_movea(m, ins) ==
    LET Put(v) == [v.m EXCEPT !.dar[8 + ins.dst.r] = SignedIfWord(ins.s, v.v)]
    IN  Put(read_ea(m, ins, ins.src, ins.s))

Binary(f, alu, s, src, dst) ==
    CASE alu = "Add" -> exec_add(f, s, src, dst)
      [] alu = "Sub" -> exec_sub(f, s, src, dst)
      [] alu = "And" -> exec_and(f, s, src, dst)
      [] alu = "Or"  -> exec_or(f, s, src, dst)
      [] alu = "Eor" -> exec_eor(f, s, src, dst)
      [] alu = "Cmp" -> [r |-> Low(s, dst), f |-> exec_cmp(f, s, src, dst)]
Unary(f, op, s, v) ==
    CASE op = "Clr" -> exec_clr(f)
      [] op = "Neg" -> exec_neg(f, s, v)
      [] op = "Negx" -> exec_negx(f, s, v)
      [] op = "Not" -> exec_not(f, s, v)
      [] op = "Tst" -> [r |-> v, f |-> set_logic_flags(f, s, v)]
BitOp(f, op, s, num, v) ==
    CASE op = "Test" -> [r |-> v, f |-> exec_btst(f, s, num, v)]
      [] op = "Set" -> exec_bset(f, s, num, v)
      [] op = "Clear" -> exec_bclr(f, s, num, v)
      [] op = "Change" -> exec_bchg(f, s, num, v)

\* Read the operand, compute, write it back unless the instruction only tests it.
Modify(m, ins, ea, s, Op(_, _), writes) ==
    LET Write(m1, loc, x) == SetFlags(IF writes THEN write_resolved_ea(m1, loc, s, x.r) ELSE m1, x.f)
        Change(loc, v) == Write(v.m, loc, Op(m.f, v.v))
        Read(loc) == Change(loc, read_resolved_ea(loc.m, loc, s))
    IN  Read(resolve_ea(m, ins, ea, s))

AluToReg(m, ins) ==
    LET Put(m1, x) == SetFlags([m1 EXCEPT !.dar[ins.dst.r] = write_data_reg_sized(@, ins.s, x.r)], x.f)
        Compute(v) == Put(v.m, Binary(m.f, ins.alu, ins.s, v.v, v.m.dar[ins.dst.r]))
    IN  Compute(read_ea(m, ins, ins.src, ins.s))
AluAddr(m, ins) ==
    LET Compute(v) ==
            CASE ins.alu = "Add" -> [v.m EXCEPT !.dar[8 + ins.dst.r] = exec_adda(ins.s, v.v, @)]
              [] ins.alu = "Sub" -> [v.m EXCEPT !.dar[8 + ins.dst.r] = exec_suba(ins.s, v.v, @)]
              [] ins.alu = "Cmp" -> SetFlags(v.m, exec_cmpa(m.f, ins.s, v.v, A(v.m, ins.dst.r)))
    IN  Compute(read_ea(m, ins, ins.src, ins.s))
\* The immediate precedes the operand's extension words.
AluImm(m, ins) ==
    LET With(i) == Modify(i.m, ins, ins.dst, ins.s,
                          LAMBDA f, v : Binary(f, ins.alu, ins.s, i.v, v), ins.alu # "Cmp")
    IN  With(read_ea(m, ins, [m |-> "#imm", r |-> 0], ins.s))
BitMem(m, ins) ==
    LET num == IF ins.src.m = "#imm" THEN ExtAt(ins, m.pc).w ELSE m.dar[ins.src.r]
        s == IF ins.dst.m = "Dn" THEN "Long" ELSE "Byte"
    IN  Modify(Skip(m, IF ins.src.m = "#imm" THEN 1 ELSE 0), ins, ins.dst, s,
               LAMBDA f, v : BitOp(f, ins.alu, s, num, v), ins.alu # "Test")
\* To an address register, the whole of it and no flags.
AddqSubq(m, ins) ==
    IF ins.dst.m = "An"
    THEN [m EXCEPT !.dar[8 + ins.dst.r] = Low("Long", IF ins.alu = "Sub" THEN @ - ins.n ELSE @ + ins.n)]
    ELSE Modify(m, ins, ins.dst, ins.s, LAMBDA f, v : Binary(f, ins.alu, ins.s, ins.n, v), TRUE)
CmpM(m, ins) ==
    LET Compare(v, w) == SetFlags(w.m, exec_cmp(m.f, ins.s, v, w.v))
        Other(v) == Compare(v.v, read_ea(v.m, ins, ins.dst, ins.s))
    IN  Other(read_ea(m, ins, ins.src, ins.s))

exec_lea(m, ins) == LET Load(ea) == [ea.m EXCEPT !.dar[8 + ins.dst.r] = ea.v]
                    IN  Load(resolve_ea(m, ins, ins.src, "Long"))
exec_pea(m, ins) == LET Push(ea) == push_32(ea.m, ea.v) IN Push(resolve_ea(m, ins, ins.src, "Long"))
Jmp(m, ins) == LET Go(ea) == [ea.m EXCEPT !.pc = ea.v] IN Go(resolve_ea(m, ins, ins.src, "Long"))
Jsr(m, ins) == LET Call(ea) == [push_32(ea.m, ea.m.pc) EXCEPT !.pc = ea.v]
               IN  Call(resolve_ea(m, ins, ins.src, "Long"))
Rts(m) == LET x == pull_32(m) IN [x.m EXCEPT !.pc = x.v]
Rtd(m, ins) == LET x == pull_32(Skip(m, 1))
               IN  [x.m EXCEPT !.pc = x.v, !.dar[15] = Low("Long", @ + Disp(ins, m.pc))]
\* Displacements count from the word after the opcode; ins.n holds a short one.
Taken(m, ins) == ins.alu = "T" \/ test_condition(m.f, ins.alu)
Branch(m, ins) ==
    LET word == Len(ins.ext) = 1
        next == Skip(m, One(word)).pc
        target == Low("Long", m.pc + (IF word THEN Disp(ins, m.pc) ELSE ins.n))
    IN  CASE ins.op = "Bsr" -> [push_32(m, next) EXCEPT !.pc = target]
          [] ins.op # "Bsr" /\ Taken(m, ins) -> [m EXCEPT !.pc = target]
          [] OTHER -> [m EXCEPT !.pc = next]
Dbcc(m, ins) ==
    LET count == Low("Word", m.dar[ins.dst.r] - 1)
        m1 == [m EXCEPT !.dar[ins.dst.r] = write_data_reg_sized(@, "Word", count)]
    IN  CASE test_condition(m.f, ins.alu) -> Skip(m, 1)
          [] ~test_condition(m.f, ins.alu) /\ count = Mod("Word") - 1 -> Skip(m1, 1)
          [] OTHER -> [m1 EXCEPT !.pc = Low("Long", @ + Disp(ins, @))]

\* The 68040 alone decrements A7 before it reads the register.
exec_link(m, ins) ==
    LET r == ins.dst.r
        an == IF m.model = "M68040" /\ r = 7 THEN Low("Long", A(m, 7) - Bytes("Long")) ELSE A(m, r)
        m1 == push_32(m, an)
    IN  Skip([m1 EXCEPT !.dar = [[@ EXCEPT ![8 + r] = m1.dar[15]]
                                    EXCEPT ![15] = Low("Long", @ + Disp(ins, m.pc))]], 1)
exec_unlk(m, ins) ==
    LET x == pull_32([m EXCEPT !.dar[15] = A(m, ins.dst.r)])
    IN  [x.m EXCEPT !.dar[8 + ins.dst.r] = x.v]

\* Bit i of the mask is register i, or 15 - i when the mode is predecrement; the
\* mask precedes the operand's extension words, and a stepped register is written
\* once, after the list.
Listed(S) == SetToSortSeq(S, LAMBDA i, j : i < j)
ListStart(m, ins, ea) == IF ea.m \in {"-(An)", "(An)+"} THEN Result(Skip(m, 1), "mem", A(m, ea.r))
                         ELSE resolve_ea(Skip(m, 1), ins, ea, ins.s)
ListEnd(m, ea, a) == IF ea.m \in {"-(An)", "(An)+"} THEN [m EXCEPT !.dar[8 + ea.r] = a] ELSE m
exec_movem_to_mem(m, ins) ==
    LET predec == ins.dst.m = "-(An)"
        size == Bytes(ins.s)
        Adjusted(r) == predec /\ r = 8 + ins.dst.r /\ ~Pre020(m.model)
        Stored(r) == Low("Long", m.dar[r] - (IF Adjusted(r) THEN size ELSE 0))
        Store(start, bits) ==
            LET At(i) == Low("Long", IF predec THEN start.v - i * size ELSE start.v + (i - 1) * size)
                run[i \in 0 .. Len(bits)] ==
                    IF i = 0 THEN start.m
                    ELSE BusWrite(run[i - 1], ins.s, At(i), Stored(IF predec THEN 15 - bits[i] ELSE bits[i]))
            IN  ListEnd(run[Len(bits)], ins.dst, At(Len(bits)))
    IN  Store(ListStart(m, ins, ins.dst), Listed(ExtAt(ins, m.pc).mask))
\* The 68000 and 68010 read, and drop, one word more.
exec_movem_to_reg(m, ins) ==
    LET Extra(m1, a) == IF m.model \in {"M68000", "M68010"} THEN Touch(m1, "Word", a) ELSE m1
        Put(x, r) == [x.m EXCEPT !.dar[r] = SignedIfWord(ins.s, x.v)]
        Load(start, regs) ==
            LET At(i) == Low("Long", start.v + (i - 1) * Bytes(ins.s))
                run[i \in 0 .. Len(regs)] ==
                    IF i = 0 THEN start.m ELSE Put(BusRead(run[i - 1], ins.s, At(i)), regs[i])
                end == At(Len(regs) + 1)
            IN  Extra(ListEnd(run[Len(regs)], ins.src, end), end)
    IN  Load(ListStart(m, ins, ins.src), Listed(ExtAt(ins, m.pc).mask))

----------------------------------------------------------------------------
(* Register instructions. *)

Moveq(m, ins) ==
    LET v == SignExt("Byte", ins.n)
    IN  SetFlags([m EXCEPT !.dar[ins.dst.r] = v], set_logic_flags(m.f, "Long", v))
MulWord(m, ins) ==
    LET d == [d |-> m.dar, f |-> m.f]
        Put(m1, x) == [m1 EXCEPT !.dar = x.m.d, !.f = x.m.f]
        Multiply(v) == Put(v.m, IF ins.alu = "Signed" THEN exec_muls(d, v.v, ins.dst.r)
                                                      ELSE exec_mulu(d, v.v, ins.dst.r))
    IN  Multiply(read_ea(m, ins, ins.src, "Word"))
\* The extension word precedes the operand's; the product is 32 bits wide.
MulLong(m, ins) ==
    LET Put(m1, x) == [m1 EXCEPT !.dar = x.m.d, !.f = x.m.f]
        Multiply(v) == Put(v.m, exec_mull([d |-> m.dar, f |-> m.f], m.model, v.v,
                                          ins.alu = "Signed", FALSE, ins.dst.r, 0))
    IN  Multiply(read_ea(Skip(m, 1), ins, ins.src, "Long"))
ExtReg(m, ins) ==
    LET v == m.dar[ins.dst.r]
        x == CASE ins.op = "Swap" -> exec_swap(m.f, v)
               [] ins.op = "Ext" -> exec_ext(m.f, ins.s, v)
               [] ins.op = "Extb" -> exec_extb(m.f, v)
    IN  [m EXCEPT !.dar[ins.dst.r] = x.r, !.f = x.f]
exec_exg(m, ins) ==
    LET Reg(ea) == IF ea.m = "An" THEN 8 + ea.r ELSE ea.r
    IN  [m EXCEPT !.dar = [@ EXCEPT ![Reg(ins.src)] = m.dar[Reg(ins.dst)],
                                    ![Reg(ins.dst)] = m.dar[Reg(ins.src)]]]
AddSubx(m, ins) ==
    LET x == IF ins.alu = "Sub" THEN exec_subx(m.f, ins.s, m.dar[ins.src.r], m.dar[ins.dst.r])
                                ELSE exec_addx(m.f, ins.s, m.dar[ins.src.r], m.dar[ins.dst.r])
    IN  SetFlags([m EXCEPT !.dar[ins.dst.r] = write_data_reg_sized(@, ins.s, x.r)], x.f)
Scc(m, ins) ==
    [m EXCEPT !.dar[ins.dst.r] =
        write_data_reg_sized(@, "Byte", IF test_condition(m.f, ins.alu) THEN Mod("Byte") - 1 ELSE 0)]
Shift(f, alu, s, n, v) ==
    CASE alu = "asr"  -> exec_asr(f, s, n, v)   [] alu = "asl"  -> exec_asl(f, s, n, v)
      [] alu = "lsr"  -> exec_lsr(f, s, n, v)   [] alu = "lsl"  -> exec_lsl(f, s, n, v)
      [] alu = "roxr" -> exec_roxr(f, s, n, v)  [] alu = "roxl" -> exec_roxl(f, s, n, v)
      [] alu = "ror"  -> exec_ror(f, s, n, v)   [] alu = "rol"  -> exec_rol(f, s, n, v)
\* An immediate count of 0 stands for 8; a register count is taken modulo 64,
\* twice the width of a long.
ShiftReg(m, ins) ==
    LET n == IF ins.src.m = "Dn" THEN m.dar[ins.src.r] % (2 * Bits["Long"])
             ELSE IF ins.n = 0 THEN 8 ELSE ins.n
        v == Low(ins.s, m.dar[ins.dst.r])
        x == Shift(m.f, ins.alu, ins.s, n, v)
    IN  SetFlags([m EXCEPT !.dar[ins.dst.r] = write_data_reg_sized(@, ins.s, x.r)], x.f)

\* The dispatcher: what step executes.
dispatch_instruction(m, ins) ==
    CASE ins.op = "Move"  -> IF ins.dst.m = "An" THEN exec_movea(m, ins) ELSE exec_move(m, ins)
      [] ins.op = "AluToReg" -> AluToReg(m, ins)
      [] ins.op = "AluToMem" ->
            Modify(m, ins, ins.dst, ins.s,
                   LAMBDA f, v : Binary(f, ins.alu, ins.s, m.dar[ins.src.r], v), TRUE)
      [] ins.op = "AluAddr" -> AluAddr(m, ins)
      [] ins.op = "AluImm" -> AluImm(m, ins)
      [] ins.op = "AddqSubq" -> AddqSubq(m, ins)
      [] ins.op = "Unary" ->
            Modify(m, ins, ins.dst, ins.s, LAMBDA f, v : Unary(f, ins.alu, ins.s, v), ins.alu # "Tst")
      [] ins.op = "Bit"  -> BitMem(m, ins)
      [] ins.op = "CmpM" -> CmpM(m, ins)
      [] ins.op = "Lea"  -> exec_lea(m, ins)
      [] ins.op = "Pea"  -> exec_pea(m, ins)
      [] ins.op = "Jmp"  -> Jmp(m, ins)
      [] ins.op = "Jsr"  -> Jsr(m, ins)
      [] ins.op = "Rts"  -> Rts(m)
      [] ins.op = "Rtd"  -> Rtd(m, ins)
      [] ins.op \in {"Bsr", "Bcc"} -> Branch(m, ins)
      [] ins.op = "Dbcc" -> Dbcc(m, ins)
      [] ins.op = "Link" -> exec_link(m, ins)
      [] ins.op = "Unlk" -> exec_unlk(m, ins)
      [] ins.op = "MovemToMem" -> exec_movem_to_mem(m, ins)
      [] ins.op = "MovemToReg" -> exec_movem_to_reg(m, ins)
      [] ins.op = "Moveq" -> Moveq(m, ins)
      [] ins.op = "MulWord" -> MulWord(m, ins)
      [] ins.op = "MulLong" -> MulLong(m, ins)
      [] ins.op \in {"Swap", "Ext", "Extb"} -> ExtReg(m, ins)
      [] ins.op = "Exg" -> exec_exg(m, ins)
      [] ins.op = "AddSubx" -> AddSubx(m, ins)
      [] ins.op = "Scc"  -> Scc(m, ins)
      [] ins.op = "ShiftReg" -> ShiftReg(m, ins)
=============================================================================
