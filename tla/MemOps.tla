------------------------------- MODULE MemOps -------------------------------
(* The memory tier of the batch runner (mem_ops.rs): decoded instructions run
   directly on the bytes of the window.  An operator returns [ok, m]; ok = FALSE
   hands the instruction to the dispatcher, and m is then the machine it finds. *)
EXTENDS Dispatch

Ran(m)  == [ok |-> TRUE, m |-> m]
Bail(m) == [ok |-> FALSE, m |-> m]

\* Mutant of Located: only the first byte of an operand is checked.
Located_start(m, s, a) == ~Odd(m, s, a) /\ Inside(m, a, 1)

\* Both words of an access lie in the window, and its address is even where it must be.
Located(m, s, a) == ~Odd(m, s, a) /\ Inside(m, a, Bytes(s))
Peek(m, s, a) == ReadMem(m.mem, s, address(a))
Poke(m, s, a, v) == [m EXCEPT !.mem = WriteMem(@, s, address(a), Low(s, v))]
WordsAt(m, pc, n) == \A i \in 0 .. n - 1 : Inside(m, pc + i * Bytes("Word"), Bytes("Word"))

----------------------------------------------------------------------------
(* Operands.  A context holds the address of the next extension word and the
   steps of address registers that are not yet committed. *)

NewCtx(m) == [next |-> m.pc, pend |-> <<>>]

\* Later steps shadow earlier ones.
PendingA(m, ctx, r) ==
    LET hits == {i \in DOMAIN ctx.pend : ctx.pend[i].r = r}
    IN  IF hits = {} THEN A(m, r) ELSE ctx.pend[CHOOSE i \in hits : \A j \in hits : j <= i].v
Commit(m, ctx) == [m EXCEPT !.dar = [i \in DOMAIN @ |-> IF i < 8 THEN @[i] ELSE PendingA(m, ctx, i - 8)]]

ea_step(s, r) == IF s = "Byte" /\ r = 7 THEN 2 ELSE Bytes(s)

\* Mutant of brief_index: the index register is read past the uncommitted steps.
brief_index_committed(m, ctx, base, x) ==
    LET v == m.dar[x.reg]
        i == IF x.long THEN Signed("Long", v) ELSE Signed("Word", v)
    IN  Low("Long", base + Signed("Byte", x.d8) + i * (IF Pre020(m.model) THEN 1 ELSE 2 ^ x.scale))

\* The index register is read through the uncommitted steps too.
brief_index(m, ctx, base, x) ==
    LET v == IF x.reg >= 8 THEN PendingA(m, ctx, x.reg - 8) ELSE m.dar[x.reg]
        i == Signed(IF x.long THEN "Long" ELSE "Word", v)
    IN  Low("Long", base + Signed("Byte", x.d8) + i * (IF Pre020(m.model) THEN 1 ELSE 2 ^ x.scale))

ExtWords(ea, s) ==
    CASE ea.m \in {"Dn", "An", "(An)", "(An)+", "-(An)"} -> 0
      [] ea.m = "abs.L" \/ (ea.m = "#imm" /\ s = "Long") -> 2
      [] OTHER -> 1

\* The address of a memory operand.
OperandAddress(m, ins, ea, s, ctx) ==
    LET base == PendingA(m, ctx, ea.r)
    IN  CASE ea.m \in {"(An)", "(An)+"} -> base
          [] ea.m = "-(An)" -> Low("Long", base - ea_step(s, ea.r))
          [] ea.m = "d16(An)" -> Low("Long", base + Disp(ins, ctx.next))
          [] ea.m \in Indexed ->
                brief_index(m, ctx, IF ea.m = "d8(An,Xn)" THEN base ELSE ctx.next, ExtAt(ins, ctx.next).x)
          [] ea.m = "abs.W" -> Low("Long", Disp(ins, ctx.next))
          [] ea.m = "abs.L" -> LongAt(ins, ctx.next)
          [] ea.m = "d16(PC)" -> Low("Long", ctx.next + Disp(ins, ctx.next))

\* The extension words are in the window and no index word has the full format.
read_ext_word(m, ins, ea, s, ctx) ==
    /\ WordsAt(m, ctx.next, ExtWords(ea, s))
    /\ ea.m \in Indexed => ~ExtAt(ins, ctx.next).x.full \/ Pre020(m.model)

\* A location [ok, ctx, k, v], or ok = FALSE; the machine is only read.
resolve(m, ins, ea, s, ctx) ==
    LET ctx1 == [ctx EXCEPT !.next = @ + ExtWords(ea, s) * Bytes("Word")]
        Step(v) == [ctx1 EXCEPT !.pend = Append(@, [r |-> ea.r, v |-> Low("Long", v)])]
        Loc(ok, c, k, v) == [ok |-> ok, ctx |-> c, k |-> k, v |-> v]
        InMemory(a) == Loc(Located(m, s, a),
                           CASE ea.m = "(An)+" -> Step(a + ea_step(s, ea.r))
                             [] ea.m = "-(An)" -> Step(a)
                             [] OTHER -> ctx1, "mem", a)
    IN  IF ~read_ext_word(m, ins, ea, s, ctx) THEN Loc(FALSE, ctx, "none", 0) ELSE
        CASE ea.m \in {"Dn", "An"} -> Loc(TRUE, ctx, "reg", IF ea.m = "Dn" THEN ea.r ELSE 8 + ea.r)
          [] ea.m = "#imm" ->
                Loc(TRUE, ctx1, "imm", IF s = "Long" THEN LongAt(ins, ctx.next)
                                                     ELSE Low(s, ExtAt(ins, ctx.next).w))
          [] OTHER -> InMemory(OperandAddress(m, ins, ea, s, ctx))
load(m, loc, s) == CASE loc.k = "reg" -> Low(s, m.dar[loc.v])
                     [] loc.k = "mem" -> Peek(m, s, loc.v)
                     [] loc.k = "imm" -> Low(s, loc.v)
store(m, loc, s, v) == IF loc.k = "mem" THEN Poke(m, s, loc.v, v)
                       ELSE [m EXCEPT !.dar[loc.v] = write_data_reg_sized(@, s, v)]

\* The steps are committed, the result is stored, the flags and the PC are set.
Finish(m, ctx, f) == Ran([m EXCEPT !.f = f, !.pc = ctx.next])

----------------------------------------------------------------------------
(* What the decoded forms compute. *)

apply_binary_to_reg(f, alu, s, src, dst) ==
    LET sum == Low("Long", src + dst)  dif == Low("Long", dst - src)
    IN  CASE alu = "Add" -> [r |-> sum, f |-> set_add_flags(f, s, src, dst, sum)]
          [] alu = "Sub" -> [r |-> dif, f |-> set_sub_flags(f, s, src, dst, dif)]
          [] alu = "Cmp" -> [r |-> dst, f |-> set_cmp_flags(f, s, src, dst, dif)]
          [] alu = "And" -> [r |-> src & dst, f |-> set_logic_flags(f, s, src & dst)]
          [] alu = "Or"  -> [r |-> src | dst, f |-> set_logic_flags(f, s, src | dst)]
          [] alu = "Eor" -> [r |-> src ^^ dst, f |-> set_logic_flags(f, s, src ^^ dst)]
FastUnary(f, alu, s, v) ==
    CASE alu = "Clr" -> [r |-> 0, f |-> [f EXCEPT !.n = FALSE, !.z = TRUE, !.v = FALSE, !.c = FALSE]]
      [] alu = "Neg" -> [r |-> Low("Long", 0 - v), f |-> set_sub_flags(f, s, v, 0, Low("Long", 0 - v))]
      [] alu = "Not" -> [r |-> Mod(s) - 1 - v, f |-> set_logic_flags(f, s, Mod(s) - 1 - v)]
      [] alu = "Tst" -> [r |-> v, f |-> set_logic_flags(f, s, v)]
FastBit(f, alu, s, num, v) ==
    LET on == Bit(v, num % Bits[s])  w == 2 ^ (num % Bits[s])
    IN  [f |-> [f EXCEPT !.z = ~on],
         r |-> CASE alu = "Test"   -> v
                 [] alu = "Set"    -> IF on THEN v ELSE v + w
                 [] alu = "Clear"  -> IF on THEN v - w ELSE v
                 [] alu = "Change" -> IF on THEN v - w ELSE v + w]

----------------------------------------------------------------------------
(* MOVE between registers and plain indirect operands. *)

Direct == {"Dn", "An"}
Plain  == Direct \cup {"(An)", "(An)+", "-(An)"}

\* A staged step of the same register is visible.
addr_base(m, adj, r) == IF adj.r = r THEN adj.v ELSE A(m, r)

fast_move(m, ins) ==
    LET s == ins.s  src == ins.src  dst == ins.dst
        Start(ea, base) == IF ea.m = "-(An)" THEN Low("Long", base - ea_step(s, ea.r)) ELSE base
        After(ea, a) == IF ea.m = "(An)+" THEN Low("Long", a + ea_step(s, ea.r)) ELSE a
        sa == Start(src, A(m, src.r))
        adj == IF src.m \in {"(An)+", "-(An)"} THEN [r |-> src.r, v |-> After(src, sa)]
                                               ELSE [r |-> 8, v |-> 0]
        value == CASE src.m = "Dn" -> Low(s, m.dar[src.r]) [] src.m = "An" -> Low(s, A(m, src.r))
                   [] OTHER -> Peek(m, s, sa)
        m1 == IF adj.r = 8 THEN m ELSE [m EXCEPT !.dar[8 + adj.r] = adj.v]
        da == Start(dst, addr_base(m, adj, dst.r))
        flags == set_logic_flags(m.f, s, value)
        misses == \/ src.m \notin Direct /\ ~Located(m, s, sa)
                  \/ dst.m \notin Direct /\ ~Located(m, s, da)
    IN  IF misses THEN Bail(m) ELSE
        CASE dst.m = "An" -> Ran([m1 EXCEPT !.dar[8 + dst.r] = SignedIfWord(s, value)])
          [] dst.m = "Dn" ->
                Ran(SetFlags([m1 EXCEPT !.dar[dst.r] = write_data_reg_sized(@, s, value)], flags))
          [] OTHER ->
                Ran(SetFlags(Poke(IF dst.m = "(An)" THEN m1
                                  ELSE [m1 EXCEPT !.dar[8 + dst.r] = After(dst, da)],
                                  s, da, value), flags))

----------------------------------------------------------------------------
(* Data accesses through d16(An), with nothing deferred. *)

IsAnDisp(ea) == ea.m = "d16(An)"
AnDispForm(ins) ==
    \/ ins.op = "Move" /\ IsAnDisp(ins.src) /\ ins.dst.m \in {"Dn", "An", "-(An)", "d16(An)"}
    \/ ins.op = "Move" /\ ins.src.m \in Direct /\ IsAnDisp(ins.dst)
    \/ ins.op = "Unary" /\ ins.alu \in {"Tst", "Clr"} /\ IsAnDisp(ins.dst)
    \/ ins.op = "AddqSubq" /\ IsAnDisp(ins.dst)
    \/ ins.op = "Bit" /\ ins.src.m = "#imm" /\ IsAnDisp(ins.dst)

fast_an_disp(m, ins) ==
    LET s == IF ins.op = "Bit" THEN "Byte" ELSE ins.s
        words == One(IsAnDisp(ins.src) \/ ins.op = "Bit") + One(IsAnDisp(ins.dst))
        last == m.pc + (words - 1) * Bytes("Word")
        At(ea, pc) == Low("Long", A(m, ea.r) + Disp(ins, pc))
        sa == At(ins.src, m.pc)
        da == IF IsAnDisp(ins.dst) THEN At(ins.dst, last)
              ELSE Low("Long", A(m, ins.dst.r) - ea_step(s, ins.dst.r))
        value == CASE ins.op # "Move" -> Peek(m, s, da)
                   [] ins.op = "Move" /\ IsAnDisp(ins.src) -> Peek(m, s, sa)
                   [] ins.op = "Move" /\ ins.src.m \in Direct ->
                         Low(s, m.dar[IF ins.src.m = "An" THEN 8 + ins.src.r ELSE ins.src.r])
        Compute(v) ==
            CASE ins.op = "Move" -> [r |-> v, f |-> set_logic_flags(m.f, s, v)]
              [] ins.op = "Unary" -> FastUnary(m.f, ins.alu, s, v)
              [] ins.op = "AddqSubq" -> apply_binary_to_reg(m.f, ins.alu, s, ins.n, v)
              [] ins.op = "Bit" -> FastBit(m.f, ins.alu, s, ExtAt(ins, m.pc).w, v)
        Put(m1, a, y) ==
            CASE ins.dst.m = "An" -> [m1 EXCEPT !.dar[8 + ins.dst.r] = SignedIfWord(s, y.r)]
              [] ins.dst.m = "Dn" -> SetFlags([m1 EXCEPT !.dar[ins.dst.r] = write_data_reg_sized(@, s, y.r)], y.f)
              [] ins.dst.m = "-(An)" -> SetFlags(Poke([m1 EXCEPT !.dar[8 + ins.dst.r] = a], s, a, y.r), y.f)
              [] OTHER -> SetFlags(IF ins.alu \in {"Tst", "Test"} THEN m1 ELSE Poke(m1, s, a, y.r), y.f)
        misses == \/ ~WordsAt(m, m.pc, words)
                  \/ IsAnDisp(ins.src) /\ ~Located(m, s, sa)
                  \/ ins.dst.m \notin Direct /\ ~Located(m, s, da)
    IN  IF misses THEN Bail(m) ELSE Ran(Put(Skip(m, words), da, Compute(value)))

----------------------------------------------------------------------------
(* Frames, register lists, a register's bit. *)

FastPush(m) == Low("Long", m.dar[15] - Bytes("Long"))

fast_link(m, ins) ==
    LET sp == FastPush(m)
    IN  IF ins.dst.r = 7 \/ ~WordsAt(m, m.pc, 1) \/ ~Located(m, "Long", sp) THEN Bail(m)
        ELSE Ran(Skip([Poke(m, "Long", sp, A(m, ins.dst.r)) EXCEPT
                          !.dar[8 + ins.dst.r] = sp,
                          !.dar[15] = Low("Long", sp + Disp(ins, m.pc))], 1))
fast_unlk(m, ins) ==
    LET sp == A(m, ins.dst.r)
    IN  IF ins.dst.r = 7 \/ ~Located(m, "Long", sp) THEN Bail(m)
        ELSE Ran([m EXCEPT !.dar[8 + ins.dst.r] = Peek(m, "Long", sp),
                           !.dar[15] = Low("Long", sp + Bytes("Long"))])

\* A whole list in the window; the base register must not be in it.
ListAt(m, s, start, n) == Inside(m, start, n * Bytes(s)) /\ n * Bytes(s) <= m.win.len
Place(s, start, regs) ==        \* register -> address
    [r \in regs |-> start + Cardinality({q \in regs : q < r}) * Bytes(s)]

fast_movem_long_predec(m, ins) ==
    LET mask == ExtAt(ins, m.pc).mask
        regs == {15 - i : i \in mask}
        raw == A(m, ins.dst.r)
        start == Low("Long", raw - Cardinality(mask) * Bytes("Long"))
        order == Listed(regs)
        run[i \in 0 .. Len(order)] ==
            IF i = 0 THEN m ELSE Poke(run[i - 1], "Long", start + (i - 1) * Bytes("Long"), m.dar[order[i]])
    IN  IF \/ ~WordsAt(m, m.pc, 1) \/ mask = {} \/ 7 - ins.dst.r \in mask
           \/ Odd(m, "Long", raw) \/ ~ListAt(m, "Long", start, Cardinality(mask))
        THEN Bail(m)
        ELSE Ran(Skip([run[Len(order)] EXCEPT !.dar[8 + ins.dst.r] = start], 1))

\* The word form takes data registers only, and refuses a list that wraps around
\* the address space.
fast_movem_postinc(m, ins) ==
    LET mask == ExtAt(ins, m.pc).mask
        raw == A(m, ins.src.r)
        bytes == Cardinality(mask) * Bytes(ins.s)
        at == Place(ins.s, raw, mask)
        refused == IF ins.s = "Word"
                   THEN (\E r \in mask : r >= 8) \/ address(raw) + bytes > AddressSpace
                   ELSE 8 + ins.src.r \in mask
    IN  IF \/ ~WordsAt(m, m.pc, 1) \/ mask = {} \/ refused \/ Odd(m, ins.s, raw)
           \/ ~ListAt(m, ins.s, raw, Cardinality(mask))
        THEN Bail(m)
        ELSE Ran(Skip([m EXCEPT !.dar = [r \in DOMAIN @ |->
                                  IF r \in mask THEN SignedIfWord(ins.s, Peek(m, ins.s, at[r]))
                                  ELSE IF r = 8 + ins.src.r THEN Low("Long", raw + bytes) ELSE @[r]]], 1))

fast_bit_imm_dreg(m, ins) ==
    LET x == FastBit(m.f, ins.alu, "Long", ExtAt(ins, m.pc).w, m.dar[ins.dst.r])
    IN  IF ~WordsAt(m, m.pc, 1) THEN Bail(m)
        ELSE Ran(Skip(SetFlags([m EXCEPT !.dar[ins.dst.r] = x.r], x.f), 1))

----------------------------------------------------------------------------
(* Control flow. *)

fast_flow(m, ins) ==
    LET sp == FastPush(m)
        word == Len(ins.ext) = 1
        next == Skip(m, One(word)).pc
        target == Low("Long", m.pc + (IF word THEN Disp(ins, m.pc) ELSE ins.n))
        count == Low("Word", m.dar[ins.dst.r] - 1)
        m1 == [m EXCEPT !.dar[ins.dst.r] = write_data_reg_sized(@, "Word", count)]
        misses == \/ word /\ ~WordsAt(m, m.pc, 1)
                  \/ ins.op = "Rts" /\ ~Located(m, "Long", m.dar[15])
                  \/ ins.op = "Bsr" /\ ~Located(m, "Long", sp)
    IN  IF misses THEN Bail(m) ELSE
        CASE ins.op = "Rts" ->
                Ran([m EXCEPT !.pc = Peek(m, "Long", m.dar[15]),
                                   !.dar[15] = Low("Long", @ + Bytes("Long"))])
          [] ins.op = "Bsr" ->
                Ran([Poke(m, "Long", sp, next) EXCEPT !.dar[15] = sp, !.pc = target])
          [] ins.op = "Bcc" -> Ran([m EXCEPT !.pc = IF Taken(m, ins) THEN target ELSE next])
          [] ins.op = "Dbcc" ->
                Ran(CASE test_condition(m.f, ins.alu) -> [m EXCEPT !.pc = next]
                      [] ~test_condition(m.f, ins.alu) /\ count = Mod("Word") - 1 -> [m1 EXCEPT !.pc = next]
                      [] OTHER -> [m1 EXCEPT !.pc = target])

\* LEA, PEA, JMP, JSR: the address only.
resolve_control_addr(m, ins) ==
    [ok |-> read_ext_word(m, ins, ins.src, "Long", NewCtx(m)),
     next |-> m.pc + ExtWords(ins.src, "Long") * Bytes("Word"),
     v |-> OperandAddress(m, ins, ins.src, "Long", NewCtx(m))]
ControlOp(m, ins) ==
    LET sp == FastPush(m)
        Do(ea) ==
            LET m1 == [m EXCEPT !.pc = IF ins.op \in {"Jmp", "Jsr"} THEN ea.v ELSE ea.next]
            IN  IF ~ea.ok \/ (ins.op \in {"Pea", "Jsr"} /\ ~Located(m, "Long", sp)) THEN Bail(m) ELSE
                CASE ins.op = "Lea" -> Ran([m1 EXCEPT !.dar[8 + ins.dst.r] = ea.v])
                  [] ins.op = "Jmp" -> Ran(m1)
                  [] OTHER -> Ran([Poke(m1, "Long", sp, IF ins.op = "Pea" THEN ea.v ELSE ea.next)
                                      EXCEPT !.dar[15] = sp])
    IN  Do(resolve_control_addr(m, ins))

----------------------------------------------------------------------------
(* The generic forms: resolve everything, then commit, store, set flags and PC. *)

GenericMove(m, ins) ==
    LET ToAn(a) == Finish([Commit(m, a.ctx) EXCEPT !.dar[8 + ins.dst.r] = SignedIfWord(ins.s, load(m, a, ins.s))],
                          a.ctx, m.f)
        Put(b, v) == IF ~b.ok THEN Bail(m)
                     ELSE Finish(store(Commit(m, b.ctx), b, ins.s, v), b.ctx, set_logic_flags(m.f, ins.s, v))
        Move(a) == IF ~a.ok THEN Bail(m)
                   ELSE IF ins.dst.m = "An" THEN ToAn(a)
                   ELSE Put(resolve(m, ins, ins.dst, ins.s, a.ctx), load(m, a, ins.s))
    IN  Move(resolve(m, ins, ins.src, ins.s, NewCtx(m)))

\* One operand read, changed and perhaps written back.
GenericModify(m, ins, ctx, s, Op(_, _), writes) ==
    LET Put(m1, a, x) == Finish(IF writes THEN store(m1, a, s, x.r) ELSE m1, a.ctx, x.f)
        Change(a) == IF a.ok THEN Put(Commit(m, a.ctx), a, Op(m.f, load(m, a, s))) ELSE Bail(m)
    IN  Change(resolve(m, ins, ins.dst, s, ctx))
\* A memory source and a register; the register is read after the commit.
GenericToReg(m, ins) ==
    LET addr == ins.op = "AluAddr"
        d == IF addr THEN 8 + ins.dst.r ELSE ins.dst.r
        Put(m1, ctx, x) ==
            CASE ~addr -> Finish([m1 EXCEPT !.dar[d] = write_data_reg_sized(@, ins.s, x.r)], ctx, x.f)
              [] addr /\ ins.alu = "Cmp" -> Finish(m1, ctx, x.f)
              [] addr /\ ins.alu # "Cmp" -> Finish([m1 EXCEPT !.dar[d] = x.r], ctx, m.f)
        Compute(m1, ctx, v) ==
            Put(m1, ctx, apply_binary_to_reg(m.f, ins.alu, IF addr THEN "Long" ELSE ins.s,
                                             IF addr THEN SignedIfWord(ins.s, v) ELSE v,
                                             IF addr THEN m1.dar[d] ELSE Low(ins.s, m1.dar[d])))
        From(a) == IF a.ok THEN Compute(Commit(m, a.ctx), a.ctx, load(m, a, ins.s)) ELSE Bail(m)
    IN  From(resolve(m, ins, ins.src, ins.s, NewCtx(m)))
GenericCmpM(m, ins) ==
    LET Compare(b, v) ==
            IF b.ok THEN Finish(Commit(m, b.ctx), b.ctx,
                                apply_binary_to_reg(m.f, "Cmp", ins.s, v, load(m, b, ins.s)).f)
            ELSE Bail(m)
        With(a) == IF a.ok THEN Compare(resolve(m, ins, ins.dst, ins.s, a.ctx), load(m, a, ins.s)) ELSE Bail(m)
    IN  With(resolve(m, ins, ins.src, ins.s, NewCtx(m)))
\* The immediate, or the bit number, comes first.
GenericImm(m, ins) ==
    LET bit == ins.op = "Bit"
        With(i) ==
            IF ~i.ok THEN Bail(m)
            ELSE GenericModify(m, ins, i.ctx, IF bit THEN "Byte" ELSE ins.s,
                               LAMBDA f, v : IF bit THEN FastBit(f, ins.alu, "Byte", i.v, v)
                                             ELSE apply_binary_to_reg(f, ins.alu, ins.s, i.v, v),
                               ins.alu \notin {"Cmp", "Test"})
    IN  With(resolve(m, ins, [m |-> "#imm", r |-> 0], IF bit THEN "Word" ELSE ins.s, NewCtx(m)))

execute_mem_op(m, ins) ==
    CASE ins.op = "Move" /\ ins.src.m \in Plain /\ ins.dst.m \in Plain -> fast_move(m, ins)
      [] ins.op = "MovemToReg" -> fast_movem_postinc(m, ins)
      [] ins.op = "MovemToMem" -> fast_movem_long_predec(m, ins)
      [] ins.op = "Bit" /\ ins.dst.m = "Dn" -> fast_bit_imm_dreg(m, ins)
      [] ins.op = "Link" -> fast_link(m, ins)
      [] ins.op = "Unlk" -> fast_unlk(m, ins)
      [] AnDispForm(ins) -> fast_an_disp(m, ins)
      [] ins.op \in {"Dbcc", "Bsr", "Rts", "Bcc"} -> fast_flow(m, ins)
      [] ins.op = "Move" /\ ~AnDispForm(ins) /\ ~(ins.src.m \in Plain /\ ins.dst.m \in Plain) ->
            GenericMove(m, ins)
      [] ins.op \in {"AluToReg", "AluAddr"} -> GenericToReg(m, ins)
      [] ins.op = "AluToMem" ->
            GenericModify(m, ins, NewCtx(m), ins.s,
                LAMBDA f, v : apply_binary_to_reg(f, ins.alu, ins.s, Low(ins.s, m.dar[ins.src.r]), v), TRUE)
      [] ins.op = "AluImm" \/ (ins.op = "Bit" /\ ins.src.m = "#imm" /\ ins.dst.m # "Dn" /\ ~AnDispForm(ins)) ->
            GenericImm(m, ins)
      [] ins.op = "Bit" /\ ins.src.m = "Dn" /\ ins.dst.m # "Dn" ->
            GenericModify(m, ins, NewCtx(m), "Byte",
                LAMBDA f, v : FastBit(f, ins.alu, "Byte", m.dar[ins.src.r], v), ins.alu # "Test")
      [] ins.op = "AddqSubq" /\ ~AnDispForm(ins) ->
            GenericModify(m, ins, NewCtx(m), ins.s,
                LAMBDA f, v : apply_binary_to_reg(f, ins.alu, ins.s, ins.n, v), TRUE)
      [] ins.op = "Unary" /\ ~AnDispForm(ins) ->
            GenericModify(m, ins, NewCtx(m), ins.s,
                LAMBDA f, v : FastUnary(f, ins.alu, ins.s, v), ins.alu # "Tst")
      [] ins.op = "CmpM" -> GenericCmpM(m, ins)
      [] ins.op \in {"Lea", "Pea", "Jmp", "Jsr"} -> ControlOp(m, ins)
=============================================================================
