------------------------------ MODULE TraceOps ------------------------------
(* The trace tier (trace_jit.rs): a recorded sequence of instructions, decoded
   once, run as one call.  The portable executor is the one modelled; the native
   code is generated to the same contract.  An operation returns [ok, m]; ok =
   FALSE ends the trace before the operation, with nothing of it committed.  The
   steps of change_of_flow and the cycles are left out. *)
EXTENDS MemOps, SimpleOps

----------------------------------------------------------------------------
(* The instructions a trace may hold. *)

AbsEa == {"abs.W", "abs.L"}
NoFull(model, ins) == \A k \in DOMAIN ins.ext : ins.ext[k].x.full => Pre020(model)

decode_call_op(ins) == ins.op = "Bsr" \/ (ins.op = "Jsr" /\ ins.src.m \in {"d16(PC)", "abs.L"})

decode_return_exit_trace_op(ins) == ins.op \in {"Rts", "Rtd"}

decode_link_unlk_trace_op(ins) == ins.op \in {"Link", "Unlk"} /\ ins.dst.r # 7

\* A base register is never in its own list, and a list of words has no address register.
decode_movem_trace_op(ins) ==
    LET mask == ins.ext[1].mask
    IN  \/ ins.op = "MovemToMem" /\ ins.s = "Long" /\ ins.dst.m = "-(An)" /\ mask # {} /\ 7 - ins.dst.r \notin mask
        \/ ins.op = "MovemToReg" /\ ins.src.m = "(An)+" /\ mask # {}
           /\ IF ins.s = "Long" THEN 8 + ins.src.r \notin mask ELSE mask \subseteq 0 .. 7

\* Two extension words at most.
decode_move_imm_trace_op(ins) ==
    /\ ins.op = "Move" /\ ins.src.m = "#imm"
    /\ \/ ins.dst.m = "Dn" /\ ins.s # "Byte"
       \/ ins.dst.m \in {"(An)", "(An)+", "-(An)"}
       \/ ins.dst.m \in {"d16(An)", "d8(An,Xn)"} /\ ins.s # "Long"
decode_move_mem_trace_op(ins) ==
    /\ ins.op = "Move" /\ ins.src.m # "#imm" /\ Len(ins.ext) <= 2
    /\ ~(ins.src.m \in Direct /\ ins.dst.m \in Direct)

decode_alu_imm_trace_op(ins) ==
    \/ ins.op = "AluImm" /\ ins.dst.m = "Dn"
    \/ ins.op = "AluImm" /\ ins.alu = "Cmp" /\ ins.s = "Word" /\ ins.dst.m \in {"d16(An)", "d8(An,Xn)"}
    \/ ins.op = "AluAddr" /\ ins.alu = "Cmp" /\ ins.src.m = "#imm"
    \/ ins.op = "MulWord" /\ ins.src.m = "#imm"
    \/ ins.op = "Bit" /\ ins.src.m = "#imm" /\ ins.dst.m = "Dn"

decode_alu_mem_trace_op(ins) ==
    \/ ins.op = "AluToReg" /\ ins.alu # "Eor" /\ ins.src.m \in {"(An)", "d16(An)", "d8(An,Xn)"}
    \/ ins.op = "AluAddr" /\ ins.alu \in {"Cmp", "Add"} /\ ins.src.m \in {"(An)", "d16(An)"}
    \/ ins.op = "AluToMem" /\ ins.alu \in {"Add", "Sub"} /\ ins.s # "Byte" /\ ins.dst.m \in {"(An)", "(An)+", "d16(An)"}

decode_an_disp_trace_op(ins) ==
    \/ ins.op = "Unary" /\ ins.alu = "Tst" /\ ins.dst.m \in {"(An)", "d16(An)", "d8(An,Xn)"} \cup AbsEa
    \/ ins.op = "Unary" /\ ins.alu = "Clr" /\ ins.dst.m \in {"-(An)", "d16(An)", "d8(An,Xn)"} \cup AbsEa
    \/ ins.op = "Pea" /\ ins.src.m \in {"(An)", "d16(An)"} \cup AbsEa
    \/ ins.op = "AddqSubq" /\ ins.dst.m \in {"(An)", "d16(An)"}
    \/ ins.op = "Bit" /\ ins.dst.m = "d16(An)"
    \/ ins.op = "Lea" /\ ins.src.m \in {"(An)", "d16(An)", "d8(An,Xn)"} \cup AbsEa

\* What the register tier decodes, but for the decimal forms.
to_jit_trace_op(ins) ==
    \/ ins.op \in {"Moveq", "AddSubx", "Scc", "ShiftReg", "Swap", "Ext", "Extb", "Exg"}
    \/ ins.op \in {"Move", "AluToReg", "AluAddr"} /\ ins.src.m \in Direct /\ ins.dst.m \in Direct
    \/ ins.op \in {"Unary", "AddqSubq"} /\ ins.dst.m \in Direct
    \/ ins.op \in {"Bit", "MulWord", "MulLong"} /\ ins.src.m = "Dn" /\ ins.dst.m = "Dn"

decode_trace_op(model, ins) ==
    /\ NoFull(model, ins)
    /\ \/ ins.op \in {"Bcc", "Dbcc"}
       \/ ins.op = "Jsr" /\ ins.src.m = "(An)"
       \/ ins.op = "Jmp" /\ ins.src.m = "d8(PC,Xn)"
       \/ decode_call_op(ins) \/ decode_return_exit_trace_op(ins) \/ decode_link_unlk_trace_op(ins)
       \/ ins.op \in {"MovemToMem", "MovemToReg"} /\ decode_movem_trace_op(ins)
       \/ decode_move_imm_trace_op(ins) \/ decode_move_mem_trace_op(ins)
       \/ decode_alu_imm_trace_op(ins) \/ decode_alu_mem_trace_op(ins)
       \/ decode_an_disp_trace_op(ins) \/ to_jit_trace_op(ins)

----------------------------------------------------------------------------
(* The code of a trace: the caller's bytes and the callee's. *)

OpPc(ins) == ins.at - Bytes("Word")
OpEnd(ins) == ins.at + Len(ins.ext) * Bytes("Word")
Interval(ops) == [lo |-> Min({address(OpPc(i)) : i \in ops}),
                  hi |-> Max({address(OpPc(i)) + OpEnd(i) - OpPc(i) : i \in ops})]
\* A recorded call is the first operation, and the callee a bare return.
CodeSpans(ops) ==
    LET callee == {ops[k] : k \in {k \in DOMAIN ops : k = 2 /\ decode_call_op(ops[1])}}
    IN  {Interval({ops[k] : k \in DOMAIN ops} \ callee)} \cup (IF callee = {} THEN {} ELSE {Interval(callee)})

store_hits_code(spans, a, n) == \E c \in spans : address(a) < c.hi /\ address(a) + n > c.lo

----------------------------------------------------------------------------
(* Operands: everything but the registers is a constant of the recording. *)

jit_ea_step(s, r) == IF s = "Byte" /\ r = 7 THEN 2 ELSE Bytes(s)

\* st = [i, v]: the register the source has stepped, not yet written (16: none).
Unstaged == [i |-> 16, v |-> 0]
dst_base(m, st, i) == IF st.i = i THEN st.v ELSE m.dar[i]
StageIn(m, st) == IF st.i = 16 THEN m ELSE [m EXCEPT !.dar[st.i] = st.v]

JitIndex(m, st, x) ==
    LET v == dst_base(m, st, x.reg)
    IN  (IF x.long THEN v ELSE SignExt("Word", v)) * (IF Pre020(m.model) THEN 1 ELSE 2 ^ x.scale)
decode_jit_ea(m, ins, ea, s, at, st) ==
    LET base == dst_base(m, st, 8 + ea.r)
        x == ExtAt(ins, at).x
    IN  CASE ea.m \in {"(An)", "(An)+"} -> base
          [] ea.m = "-(An)" -> Low("Long", base - jit_ea_step(s, ea.r))
          [] ea.m = "d16(An)" -> Low("Long", base + Disp(ins, at))
          [] ea.m = "d8(An,Xn)" -> Low("Long", base + JitIndex(m, st, x) + Signed("Byte", x.d8))
          [] ea.m = "abs.W" -> Low("Long", Disp(ins, at))
          [] ea.m = "abs.L" -> LongAt(ins, at)
          [] ea.m = "d16(PC)" -> Low("Long", at + Disp(ins, at))
          [] ea.m = "d8(PC,Xn)" -> Low("Long", at + Signed("Byte", x.d8) + JitIndex(m, st, x))

JitImm(ins) == IF ins.s = "Long" THEN LongAt(ins, ins.at) ELSE Low(ins.s, ExtAt(ins, ins.at).w)

----------------------------------------------------------------------------
(* Operations with memory operands of their own. *)

\* Mutant of portable_store: the guard on the trace's own code is forgotten.
portable_store_unguarded(m, ins, spans, st, at, value) ==
    LET s == ins.s  dst == ins.dst
        a == decode_jit_ea(m, ins, dst, s, at, st)
        m1 == StageIn(m, st)
        m2 == CASE dst.m = "(An)+" -> [m1 EXCEPT !.dar[8 + dst.r] = Low("Long", a + jit_ea_step(s, dst.r))]
                [] dst.m = "-(An)" -> [m1 EXCEPT !.dar[8 + dst.r] = a]
                [] OTHER -> m1
    IN  IF ~Located(m, s, a) THEN Bail(m)
        ELSE Ran(SetFlags(Poke(m2, s, a, value), set_logic_flags(m.f, s, value)))

\* The destination of a MOVE: located, checked against the code, and only then
\* are the registers stepped and the value stored.
portable_store(m, ins, spans, st, at, value) ==
    LET s == ins.s  dst == ins.dst
        a == decode_jit_ea(m, ins, dst, s, at, st)
        m1 == StageIn(m, st)
        m2 == CASE dst.m = "(An)+" -> [m1 EXCEPT !.dar[8 + dst.r] = Low("Long", a + jit_ea_step(s, dst.r))]
                [] dst.m = "-(An)" -> [m1 EXCEPT !.dar[8 + dst.r] = a]
                [] OTHER -> m1
    IN  IF ~Located(m, s, a) \/ store_hits_code(spans, a, Bytes(s)) THEN Bail(m)
        ELSE Ran(SetFlags(Poke(m2, s, a, value), set_logic_flags(m.f, s, value)))

execute_portable_move_imm_mem(m, ins, spans) ==
    portable_store(m, ins, spans, Unstaged, ins.at + ExtWords(ins.src, ins.s) * Bytes("Word"), JitImm(ins))

\* The source is read and its step staged.
execute_portable_move_mem(m, ins, spans) ==
    LET s == ins.s  src == ins.src  dst == ins.dst
        a == decode_jit_ea(m, ins, src, s, ins.at, Unstaged)
        value == IF src.m \in Direct THEN Low(s, m.dar[RegOf(src)]) ELSE Peek(m, s, a)
        st == CASE src.m = "(An)+" -> [i |-> 8 + src.r, v |-> Low("Long", a + jit_ea_step(s, src.r))]
                [] src.m = "-(An)" -> [i |-> 8 + src.r, v |-> a]
                [] OTHER -> Unstaged
        m1 == StageIn(m, st)
    IN  IF src.m \notin Direct /\ ~Located(m, s, a) THEN Bail(m) ELSE
        CASE dst.m = "Dn" -> Ran(write_data_reg(m1, dst.r, s, value, set_logic_flags(m.f, s, value)))
          [] dst.m = "An" -> Ran([m1 EXCEPT !.dar[8 + dst.r] = SignedIfWord(s, value)])
          [] OTHER -> portable_store(m, ins, spans, st, ins.at + ExtWords(src, s) * Bytes("Word"), value)

movem_predec_regs_ascending(mask) == Listed({15 - i : i \in mask})
execute_portable_movem_long_predec(m, ins, spans) ==
    LET regs == movem_predec_regs_ascending(ins.ext[1].mask)
        total == Len(regs) * Bytes("Long")
        base == Low("Long", A(m, ins.dst.r) - total)
        run[k \in 0 .. Len(regs)] ==
            IF k = 0 THEN m ELSE Poke(run[k - 1], "Long", base + (k - 1) * Bytes("Long"), m.dar[regs[k]])
    IN  IF Odd(m, "Long", base) \/ ~Inside(m, base, total) \/ store_hits_code(spans, base, total) THEN Bail(m)
        ELSE Ran([run[Len(regs)] EXCEPT !.dar[8 + ins.dst.r] = base])
\* The word form alone refuses a list that runs past the address space.
execute_portable_movem_postinc(m, ins) ==
    LET mask == ins.ext[1].mask  raw == A(m, ins.src.r)
        total == Cardinality(mask) * Bytes(ins.s)
        at == Place(ins.s, raw, mask)
    IN  IF \/ Odd(m, ins.s, raw) \/ ~Inside(m, raw, total)
           \/ ins.s = "Word" /\ address(raw) + total > AddressSpace
        THEN Bail(m)
        ELSE Ran([m EXCEPT !.dar = [r \in DOMAIN @ |->
                      CASE r \in mask -> SignedIfWord(ins.s, Peek(m, ins.s, at[r]))
                        [] r \notin mask /\ r = 8 + ins.src.r -> Low("Long", raw + total)
                        [] OTHER -> @[r]]])

execute_portable_link(m, ins, spans) ==
    LET sp == Low("Long", m.dar[15] - Bytes("Long"))
    IN  IF ~Located(m, "Long", sp) \/ store_hits_code(spans, sp, Bytes("Long")) THEN Bail(m)
        ELSE Ran([Poke(m, "Long", sp, A(m, ins.dst.r)) EXCEPT
                     !.dar[8 + ins.dst.r] = sp, !.dar[15] = Low("Long", sp + Disp(ins, ins.at))])
execute_portable_unlk(m, ins) ==
    LET a == A(m, ins.dst.r)
    IN  IF ~Located(m, "Long", a) THEN Bail(m)
        ELSE Ran([m EXCEPT !.dar[15] = Low("Long", a + Bytes("Long")),
                           !.dar[8 + ins.dst.r] = Peek(m, "Long", a)])

\* Only the push: the next operation of the trace is the callee's first.
execute_portable_call_through(m, ins, spans) ==
    LET sp == Low("Long", m.dar[15] - Bytes("Long"))
    IN  IF ~Located(m, "Long", sp) \/ store_hits_code(spans, sp, Bytes("Long")) THEN Bail(m)
        ELSE Ran([Poke(m, "Long", sp, Low("Long", OpEnd(ins))) EXCEPT !.dar[15] = sp])
\* Inside a trace a return must find the return address of the recording.
execute_portable_rts_return(m, expected) ==
    IF ~Located(m, "Long", m.dar[15]) \/ Peek(m, "Long", m.dar[15]) # expected THEN Bail(m)
    ELSE Ran([m EXCEPT !.dar[15] = Low("Long", @ + Bytes("Long"))])
\* At the end of one it goes where it goes.
execute_portable_return_exit(m, ins) ==
    LET sp == m.dar[15]
    IN  IF ~Located(m, "Long", sp) THEN Bail(m)
        ELSE Ran([m EXCEPT !.pc = Peek(m, "Long", sp),
                           !.dar[15] = Low("Long", sp + Bytes("Long") + (IF ins.op = "Rtd" THEN Disp(ins, ins.at) ELSE 0))])

----------------------------------------------------------------------------
(* Operations the memory tier executes.  One that stores is stopped first when its
   destination meets the code; a load, and the push of the JSR (An) that ends its
   trace, are not compared with it. *)

StoreClear(m, ins, spans, s, at) ==
    ~store_hits_code(spans, decode_jit_ea(m, ins, ins.dst, s, at, Unstaged), Bytes(s))
pea_disp_clear(m, spans) == ~store_hits_code(spans, Low("Long", m.dar[15] - Bytes("Long")), Bytes("Long"))
mem_addq_subq_clear(m, ins, spans) == StoreClear(m, ins, spans, ins.s, ins.at)
clr_mem_clear(m, ins, spans) == StoreClear(m, ins, spans, ins.s, ins.at)
add_reg_to_mem_clear(m, ins, spans) == StoreClear(m, ins, spans, ins.s, ins.at)
\* The displacement follows an immediate bit number.
bit_mem_clear(m, ins, spans) ==
    StoreClear(m, ins, spans, "Byte", ins.at + (Len(ins.ext) - 1) * Bytes("Word"))

Memory(ea) == ea.m \notin Direct \cup {"none", "#imm"}
IsMemOp(ins) ==
    \/ ins.op \in {"Pea", "AluToMem"} \/ (ins.op = "Jsr" /\ ins.src.m = "(An)")
    \/ ins.op \in {"AluToReg", "AluAddr"} /\ Memory(ins.src)
    \/ ins.op \in {"AluImm", "AddqSubq", "Bit", "Unary"} /\ Memory(ins.dst)
Clear(m, ins, spans) ==
    CASE ins.op = "Pea" -> pea_disp_clear(m, spans)
      [] ins.op = "AluToMem" -> add_reg_to_mem_clear(m, ins, spans)
      [] ins.op = "AddqSubq" -> mem_addq_subq_clear(m, ins, spans)
      [] ins.op = "Bit" /\ ins.alu # "Test" -> bit_mem_clear(m, ins, spans)
      [] ins.op = "Unary" /\ ins.alu = "Clr" -> clr_mem_clear(m, ins, spans)
      [] OTHER -> TRUE
execute_portable_mem_op(m, ins, spans) ==
    LET OrBail(x) == IF x.ok THEN x ELSE Bail(m)
    IN  IF Clear(m, ins, spans) THEN OrBail(execute_mem_op([m EXCEPT !.pc = ins.at], ins)) ELSE Bail(m)

----------------------------------------------------------------------------
(* Operations on registers: they cannot fail. *)

BinaryArm(m, ins, v) ==
    LET s == ins.s  d == ins.dst.r  old == Low(s, m.dar[d])
        sum == Low("Long", old + v)  dif == Low("Long", old - v)
    IN  CASE ins.alu = "Add" -> write_data_reg(m, d, s, sum, set_add_flags(m.f, s, v, old, sum))
          [] ins.alu = "Sub" -> write_data_reg(m, d, s, dif, set_sub_flags(m.f, s, v, old, dif))
          [] ins.alu = "And" -> write_data_reg(m, d, s, v & old, set_logic_flags(m.f, s, v & old))
          [] ins.alu = "Or"  -> write_data_reg(m, d, s, v | old, set_logic_flags(m.f, s, v | old))
          [] ins.alu = "Eor" -> write_data_reg(m, d, s, v ^^ old, set_logic_flags(m.f, s, v ^^ old))
          [] ins.alu = "Cmp" -> SetFlags(m, set_cmp_flags(m.f, s, v, old, dif))
MoveImmReg(m, ins) ==
    write_data_reg(m, ins.dst.r, ins.s, JitImm(ins), set_logic_flags(m.f, ins.s, JitImm(ins)))
MulArm(m, ins) ==
    LET w == IF ins.src.m = "#imm" THEN ExtAt(ins, ins.at).w ELSE m.dar[ins.src.r]
        d == m.dar[ins.dst.r]
        signed == ins.alu = "Signed"
        product == CASE ins.op = "MulWord" /\ signed  -> Signed("Word", w) * Signed("Word", d)
                     [] ins.op = "MulWord" /\ ~signed -> Low("Word", w) * Low("Word", d)
                     [] ins.op = "MulLong" /\ signed  -> Signed("Long", w) * Signed("Long", d)
                     [] ins.op = "MulLong" /\ ~signed -> w * d
        r == Low("Long", product)
        over == ins.op = "MulLong" /\ product # (IF signed THEN Signed("Long", r) ELSE r)
    IN  [m EXCEPT !.dar[ins.dst.r] = r, !.f = [set_logic_flags(@, "Long", r) EXCEPT !.v = over]]
AddrCmpImmediate(m, ins) ==
    LET v == SignedIfWord(ins.s, JitImm(ins))  d == A(m, ins.dst.r)
    IN  SetFlags(m, set_cmp_flags(m.f, "Long", v, d, Low("Long", d - v)))
LeaArm(m, ins) == [m EXCEPT !.dar[8 + ins.dst.r] = decode_jit_ea(m, ins, ins.src, "Long", ins.at, Unstaged)]
BitArm(m, ins) ==
    LET n == (IF ins.src.m = "#imm" THEN ExtAt(ins, ins.at).w ELSE m.dar[ins.src.r]) % Bits["Long"]
        v == m.dar[ins.dst.r]
        on == Bit(v, n)
        new == CASE ins.alu = "Test" -> on [] ins.alu = "Change" -> ~on [] ins.alu = "Clear" -> FALSE [] ins.alu = "Set" -> TRUE
    IN  [m EXCEPT !.dar[ins.dst.r] = v + (One(new) - One(on)) * 2 ^ n, !.f.z = ~on]
SwapArm(m, ins) ==
    LET d == m.dar[ins.dst.r]  r == Low("Word", d) * Mod("Word") + d \div Mod("Word")
    IN  [m EXCEPT !.dar[ins.dst.r] = r, !.f = set_logic_flags(@, "Long", r)]
ExgArm(m, ins) == [m EXCEPT !.dar = [@ EXCEPT ![RegOf(ins.src)] = m.dar[RegOf(ins.dst)],
                                              ![RegOf(ins.dst)] = m.dar[RegOf(ins.src)]]]
FlowArm(m, ins) ==
    LET word == Len(ins.ext) = 1
        target == Low("Long", ins.at + (IF word THEN Disp(ins, ins.at) ELSE ins.n))
        count == Low("Word", m.dar[ins.dst.r] - 1)
        m1 == [m EXCEPT !.dar[ins.dst.r] = write_data_reg_sized(@, "Word", count)]
    IN  CASE ins.op = "Bcc" -> [m EXCEPT !.pc = IF Taken(m, ins) THEN target ELSE OpEnd(ins)]
          [] ins.op = "Dbcc" /\ test_condition(m.f, ins.alu) -> [m EXCEPT !.pc = OpEnd(ins)]
          [] ins.op = "Dbcc" /\ ~test_condition(m.f, ins.alu) ->
                [m1 EXCEPT !.pc = IF count # Mod("Word") - 1 THEN target ELSE OpEnd(ins)]
          [] ins.op = "Jmp" -> [m EXCEPT !.pc = decode_jit_ea(m, ins, ins.src, "Long", ins.at, Unstaged)]

\* The other arms compute what the register tier computes.
execute_portable_reg_op(m, ins) ==
    CASE ins.op \in {"Bcc", "Dbcc", "Jmp"} -> FlowArm(m, ins)
      [] ins.op = "Move" /\ ins.src.m = "#imm" -> MoveImmReg(m, ins)
      [] ins.op = "AluToReg" -> BinaryArm(m, ins, read_direct_reg(m, ins.src, ins.s))
      [] ins.op = "AluImm" -> BinaryArm(m, ins, JitImm(ins))
      [] ins.op \in {"MulWord", "MulLong"} -> MulArm(m, ins)
      [] ins.op = "AluAddr" /\ ins.src.m = "#imm" -> AddrCmpImmediate(m, ins)
      [] ins.op = "Lea" -> LeaArm(m, ins)
      [] ins.op = "Bit" -> BitArm(m, ins)
      [] ins.op = "Swap" -> SwapArm(m, ins)
      [] ins.op = "Exg" -> ExgArm(m, ins)
      [] OTHER -> execute(m, ins)

----------------------------------------------------------------------------
(* A trace. *)

execute_portable_op(m, ins, spans, expected) ==
    CASE decode_call_op(ins) -> execute_portable_call_through(m, ins, spans)
      [] ins.op \in {"Rts", "Rtd"} /\ expected = -1 -> execute_portable_return_exit(m, ins)
      [] ins.op = "Rts" /\ expected # -1 -> execute_portable_rts_return(m, expected)
      [] ins.op = "Move" /\ ins.src.m = "#imm" /\ ins.dst.m # "Dn" -> execute_portable_move_imm_mem(m, ins, spans)
      [] ins.op = "Move" /\ (Memory(ins.src) \/ (Memory(ins.dst) /\ ins.src.m # "#imm")) ->
            execute_portable_move_mem(m, ins, spans)
      [] ins.op = "MovemToMem" -> execute_portable_movem_long_predec(m, ins, spans)
      [] ins.op = "MovemToReg" -> execute_portable_movem_postinc(m, ins)
      [] ins.op = "Link" -> execute_portable_link(m, ins, spans)
      [] ins.op = "Unlk" -> execute_portable_unlk(m, ins)
      [] IsMemOp(ins) -> execute_portable_mem_op(m, ins, spans)
      [] OTHER -> Ran(execute_portable_reg_op(m, ins))

ends_trace(ins) == ins.op \in {"Bcc", "Dbcc", "Jmp", "Rts", "Rtd"} \/ (ins.op = "Jsr" /\ ins.src.m = "(An)")

\* Operations are run in order; one that fails leaves the PC on itself.  The PC is
\* otherwise only written by the memory tier, by jumps, and after the last one.
execute_portable_trace_raw(m, ops) ==
    LET spans == CodeSpans(ops)
        last == ops[Len(ops)]
        After(x, k) == IF x.ok THEN [m |-> x.m, ok |-> TRUE, retired |-> k]
                       ELSE [m |-> [x.m EXCEPT !.pc = OpPc(ops[k])], ok |-> FALSE, retired |-> k - 1]
        run[k \in 0 .. Len(ops)] ==
            IF k = 0 THEN [m |-> m, ok |-> TRUE, retired |-> 0]
            ELSE IF ~run[k - 1].ok THEN run[k - 1]
            ELSE After(execute_portable_op(run[k - 1].m, ops[k], spans,
                                           IF k > 1 /\ decode_call_op(ops[k - 1]) THEN OpEnd(ops[k - 1]) ELSE -1), k)
        Left(end) == IF end.ok /\ ~ends_trace(last) THEN [end EXCEPT !.m.pc = OpEnd(last)] ELSE end
    IN  Left(run[Len(ops)])
=============================================================================
