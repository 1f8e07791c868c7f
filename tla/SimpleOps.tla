------------------------------ MODULE SimpleOps ------------------------------
(* The register tier of the batch runner: DecodedSimpleOp::execute in op_cache.rs.
   It never refuses; SWAP, EXT, EXTB and EXG call the dispatcher's own functions,
   and so do the decimal forms, which are left out. *)
EXTENDS Dispatch

RegOf(ea) == IF ea.m = "An" THEN 8 + ea.r ELSE ea.r
read_direct_reg(m, ea, s) == Low(s, m.dar[RegOf(ea)])
write_data_reg(m, r, s, v, f) == [m EXCEPT !.dar[r] = @ - Low(s, @) + Low(s, v), !.f = f]

MoveReg(m, ins) ==
    LET v == read_direct_reg(m, ins.src, ins.s)
    IN  IF ins.dst.m = "Dn" THEN write_data_reg(m, ins.dst.r, ins.s, v, set_logic_flags(m.f, ins.s, v))
        ELSE [m EXCEPT !.dar[8 + ins.dst.r] = SignedIfWord(ins.s, v)]
UnaryDataReg(m, ins) ==
    LET s == ins.s  v == Low(s, m.dar[ins.dst.r])
        neg == Low("Long", 0 - v)
        Write(x, f) == write_data_reg(m, ins.dst.r, s, x, f)
    IN  CASE ins.alu = "Clr" -> Write(0, [m.f EXCEPT !.n = FALSE, !.z = TRUE, !.v = FALSE, !.c = FALSE])
          [] ins.alu = "Neg" -> Write(neg, set_sub_flags(m.f, s, v, 0, neg))
          [] ins.alu = "Negx" -> Write(exec_subx(m.f, s, v, 0).r, exec_subx(m.f, s, v, 0).f)
          [] ins.alu = "Not" -> Write(Mod(s) - 1 - v, set_logic_flags(m.f, s, Mod(s) - 1 - v))
          [] ins.alu = "Tst" -> SetFlags(m, set_logic_flags(m.f, s, v))

\* Mutant of AddqSubqReg: the operand size is applied to an address register too.
AddqSubqReg_sized(m, ins) ==
    LET s == ins.s  d == RegOf(ins.dst)  old == Low(s, m.dar[d])
        r == Low("Long", IF ins.alu = "Sub" THEN old - ins.n ELSE old + ins.n)
    IN  write_data_reg(m, d, s, r, IF ins.dst.m = "An" THEN m.f
                                   ELSE IF ins.alu = "Sub" THEN set_sub_flags(m.f, s, ins.n, old, r)
                                   ELSE set_add_flags(m.f, s, ins.n, old, r))

AddqSubqReg(m, ins) ==
    LET s == ins.s  d == RegOf(ins.dst)  old == Low(s, m.dar[d])
        r == Low("Long", IF ins.alu = "Sub" THEN old - ins.n ELSE old + ins.n)
    IN  IF ins.dst.m = "An"
        THEN [m EXCEPT !.dar[d] = Low("Long", IF ins.alu = "Sub" THEN @ - ins.n ELSE @ + ins.n)]
        ELSE write_data_reg(m, d, s, r, IF ins.alu = "Sub" THEN set_sub_flags(m.f, s, ins.n, old, r)
                                        ELSE set_add_flags(m.f, s, ins.n, old, r))
BinaryDataReg(m, ins) ==
    LET s == ins.s  v == read_direct_reg(m, ins.src, s)  old == Low(s, m.dar[ins.dst.r])
        sum == Low("Long", old + v)  dif == Low("Long", old - v)
        Write(x, f) == write_data_reg(m, ins.dst.r, s, x, f)
    IN  CASE ins.alu = "Add" -> Write(sum, set_add_flags(m.f, s, v, old, sum))
          [] ins.alu = "Sub" -> Write(dif, set_sub_flags(m.f, s, v, old, dif))
          [] ins.alu = "And" -> Write(v & old, set_logic_flags(m.f, s, v & old))
          [] ins.alu = "Or"  -> Write(v | old, set_logic_flags(m.f, s, v | old))
          [] ins.alu = "Eor" -> Write(v ^^ old, set_logic_flags(m.f, s, v ^^ old))
          [] ins.alu = "Cmp" -> SetFlags(m, set_cmp_flags(m.f, s, v, old, dif))
MulWordDataReg(m, ins) ==
    LET a == m.dar[ins.src.r]  b == m.dar[ins.dst.r]
        r == IF ins.alu = "Signed" THEN Low("Long", Signed("Word", a) * Signed("Word", b))
                                   ELSE Low("Word", a) * Low("Word", b)
    IN  [m EXCEPT !.dar[ins.dst.r] = r, !.f = set_logic_flags(@, "Long", r)]
AddrDataReg(m, ins) ==
    LET v == SignedIfWord(ins.s, read_direct_reg(m, ins.src, ins.s))
        d == 8 + ins.dst.r  old == m.dar[d]
    IN  CASE ins.alu = "Add" -> [m EXCEPT !.dar[d] = Low("Long", old + v)]
          [] ins.alu = "Sub" -> [m EXCEPT !.dar[d] = Low("Long", old - v)]
          [] ins.alu = "Cmp" -> SetFlags(m, set_cmp_flags(m.f, "Long", v, old, Low("Long", old - v)))
AddSubxReg(m, ins) ==
    LET a == Low(ins.s, m.dar[ins.src.r])  b == Low(ins.s, m.dar[ins.dst.r])
        x == IF ins.alu = "Sub" THEN exec_subx(m.f, ins.s, a, b) ELSE exec_addx(m.f, ins.s, a, b)
    IN  write_data_reg(m, ins.dst.r, ins.s, x.r, x.f)
BitReg(m, ins) ==
    LET n == m.dar[ins.src.r] % Bits["Long"]
        v == m.dar[ins.dst.r]
        on == Bit(v, n)
        f == [m.f EXCEPT !.z = ~on]
        To(b) == [m EXCEPT !.dar[ins.dst.r] = v + (One(b) - One(on)) * 2 ^ n, !.f = f]
    IN  CASE ins.alu = "Test" -> SetFlags(m, f)
          [] ins.alu = "Change" -> To(~on)
          [] ins.alu = "Clear" -> To(FALSE)
          [] ins.alu = "Set" -> To(TRUE)
SccDataReg(m, ins) ==
    write_data_reg(m, ins.dst.r, "Byte", IF test_condition(m.f, ins.alu) THEN Mod("Byte") - 1 ELSE 0, m.f)
ShiftDataReg(m, ins) ==
    LET n == IF ins.src.m = "Dn" THEN m.dar[ins.src.r] % (2 * Bits["Long"])
             ELSE IF ins.n = 0 THEN 8 ELSE ins.n
        v == Low(ins.s, m.dar[ins.dst.r])
        x == Shift(m.f, ins.alu, ins.s, n, v)
    IN  write_data_reg(m, ins.dst.r, ins.s, x.r, x.f)
BranchShort(m, ins) ==
    IF Taken(m, ins) THEN [m EXCEPT !.pc = Low("Long", @ + ins.n)] ELSE m

execute(m, ins) ==
    CASE ins.op = "Move" -> MoveReg(m, ins)
      [] ins.op = "Moveq" -> [m EXCEPT !.dar[ins.dst.r] = SignExt("Byte", ins.n),
                                       !.f = [@ EXCEPT !.n = Neg("Long", SignExt("Byte", ins.n)),
                                                       !.z = ins.n = 0, !.v = FALSE, !.c = FALSE]]
      [] ins.op = "Unary" -> UnaryDataReg(m, ins)
      [] ins.op = "AddqSubq" -> AddqSubqReg(m, ins)
      [] ins.op = "AluToReg" -> BinaryDataReg(m, ins)
      [] ins.op = "MulWord" -> MulWordDataReg(m, ins)
      [] ins.op = "AluAddr" -> AddrDataReg(m, ins)
      [] ins.op = "AddSubx" -> AddSubxReg(m, ins)
      [] ins.op = "Bit" -> BitReg(m, ins)
      [] ins.op = "Scc" -> SccDataReg(m, ins)
      [] ins.op = "ShiftReg" -> ShiftDataReg(m, ins)
      [] ins.op = "Bcc" -> BranchShort(m, ins)
      [] ins.op \in {"Swap", "Ext", "Extb"} -> ExtReg(m, ins)
      [] ins.op = "Exg" -> exec_exg(m, ins)
=============================================================================
