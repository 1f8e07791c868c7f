------------------------------- MODULE RegOps -------------------------------
(* Instructions that write several registers, or a register and memory: multiply
   and divide (mul_div.rs, mul_div_long.rs), bit fields (bitfield.rs) and
   compare-and-swap (compare_swap.rs).

   A machine is a record [d, a, f, mem]: data registers, address registers,
   condition codes, and memory as a function from addresses to bytes.  An
   operator returns the machine after the instruction and, in trap, the
   exception it took ("" for none). *)
EXTENDS Alu, FiniteSets

Bytes(s) == Bits[s] \div Bits["Byte"]

\* Big-endian operands in memory.
ReadMem(mem, s, addr) ==
    LET val[i \in 0 .. Bytes(s)] ==
            IF i = 0 THEN 0 ELSE val[i - 1] * Mod("Byte") + mem[addr + i - 1]
    IN  val[Bytes(s)]
WriteMem(mem, s, addr, x) ==
    [p \in DOMAIN mem |->
        IF p \in addr .. addr + Bytes(s) - 1
        THEN (x \div (2 ^ (Bits["Byte"] * (addr + Bytes(s) - 1 - p)))) % Mod("Byte")
        ELSE mem[p]]

Done(m)    == [m |-> m, trap |-> ""]
Trap(m, t) == [m |-> m, trap |-> t]

----------------------------------------------------------------------------
(* Multiply and divide. *)

\* Division truncates toward zero and the remainder has the dividend's sign.
Quot(n, d) == LET q == Abs(n) \div Abs(d) IN IF (n < 0) = (d < 0) THEN q ELSE -q
Rem(n, d)  == n - d * Quot(n, d)

exec_mulu(m, src, reg) ==
    LET r == Low("Word", src) * Low("Word", m.d[reg])
    IN  Done([m EXCEPT !.d[reg] = r, !.f = set_logic_flags(@, "Long", r)])
exec_muls(m, src, reg) ==
    LET r == Low("Long", Signed("Word", src) * Signed("Word", m.d[reg]))
    IN  Done([m EXCEPT !.d[reg] = r, !.f = set_logic_flags(@, "Long", r)])

\* On overflow the register and the other flags keep their values, but for the
\* test-suite compatibility switch.
DivOverflow(m, sst) ==
    Done([m EXCEPT !.f.v = TRUE,
                   !.f.n = IF sst THEN TRUE ELSE @,
                   !.f.z = IF sst THEN FALSE ELSE @,
                   !.f.c = IF sst THEN FALSE ELSE @])
QuotRem(q, r) == Low("Word", r) * Mod("Word") + Low("Word", q)

exec_divu(m, sst, src, reg) ==
    LET n == m.d[reg]  dv == Low("Word", src)
    IN  CASE dv = 0 -> Trap(m, "zero_divide")
          [] dv # 0 /\ n \div dv >= Mod("Word") -> DivOverflow(m, sst)
          [] OTHER -> Done([m EXCEPT !.d[reg] = QuotRem(n \div dv, n % dv),
                                     !.f = set_logic_flags(@, "Word", n \div dv)])
\* The most negative dividend by -1 yields 0, as in the emulator the code follows.
exec_divs(m, sst, src, reg) ==
    LET n == Signed("Long", m.d[reg])  dv == Signed("Word", src)
        q == Quot(n, dv)
        fits == 2 * q \in -Mod("Word") .. Mod("Word") - 1
    IN  CASE dv = 0 -> Trap(m, "zero_divide")
          [] 2 * n = -Mod("Long") /\ dv = -1 -> Done([m EXCEPT !.d[reg] = 0, !.f = exec_clr(@).f])
          [] dv # 0 /\ ~(2 * n = -Mod("Long") /\ dv = -1) /\ ~fits -> DivOverflow(m, sst)
          [] OTHER -> Done([m EXCEPT !.d[reg] = QuotRem(q, Rem(n, dv)),
                                     !.f = set_logic_flags(@, "Word", q)])

trap_unimpl_060(model) == model = "M68060"     \* its emulation switch is off by default
Is040Plus(model) == model \in {"M68040", "M68060"}

\* Mutant of exec_divl: the quotient is written first, the remainder wins.
exec_divl_order(m, model, src, signed, wide, dq, dr) ==
    LET Num(x) == IF signed THEN Signed("Long", x) ELSE x
        n == IF wide THEN Num(m.d[dr]) * Mod("Long") + m.d[dq] ELSE Num(m.d[dq])
        q == Quot(n, Num(src))
        fits == q = Num(Low("Long", q))
        unimpl == wide /\ trap_unimpl_060(model)
    IN  CASE unimpl -> Trap(m, "unimplemented")
          [] ~unimpl /\ src = 0 -> Trap(m, "zero_divide")
          [] ~unimpl /\ src # 0 /\ ~fits -> Done([m EXCEPT !.f.v = TRUE, !.f.c = FALSE])
          [] OTHER -> Done([m EXCEPT !.d = [[@ EXCEPT ![dq] = Low("Long", q)]
                                               EXCEPT ![dr] = Low("Long", Rem(n, Num(src)))],
                                     !.f = set_logic_flags(@, "Long", q)])

\* The remainder is written first, so the quotient wins when Dr is Dq.
exec_divl(m, model, src, signed, wide, dq, dr) ==
    LET Num(x) == IF signed THEN Signed("Long", x) ELSE x
        n == IF wide THEN Num(m.d[dr]) * Mod("Long") + m.d[dq] ELSE Num(m.d[dq])
        q == Quot(n, Num(src))
        fits == q = Num(Low("Long", q))
        unimpl == wide /\ trap_unimpl_060(model)
    IN  CASE unimpl -> Trap(m, "unimplemented")
          [] ~unimpl /\ src = 0 -> Trap(m, "zero_divide")
          [] ~unimpl /\ src # 0 /\ ~fits -> Done([m EXCEPT !.f.v = TRUE, !.f.c = FALSE])
          [] OTHER -> Done([m EXCEPT !.d = [[@ EXCEPT ![dr] = Low("Long", Rem(n, Num(src)))]
                                               EXCEPT ![dq] = Low("Long", q)],
                                     !.f = set_logic_flags(@, "Long", q)])

\* The halves of a wide product are written in an order that depends on the model.
exec_mull(m, model, src, signed, wide, dl, dh) ==
    LET Num(x) == IF signed THEN Signed("Long", x) ELSE x
        prod == Num(m.d[dl]) * Num(src)
        lo == Low("Long", prod)
        hi == Low("Long", prod \div Mod("Long"))
        narrow == set_logic_flags(m.f, "Long", lo)
    IN  IF wide /\ trap_unimpl_060(model) THEN Trap(m, "unimplemented")
        ELSE IF ~wide
        THEN Done([m EXCEPT !.d[dl] = lo,
                            !.f = [narrow EXCEPT !.v = hi # (IF signed /\ Neg("Long", lo)
                                                             THEN Mod("Long") - 1 ELSE 0)]])
        ELSE Done([m EXCEPT !.d = IF Is040Plus(model)
                                  THEN [[@ EXCEPT ![dh] = hi] EXCEPT ![dl] = lo]
                                  ELSE [[@ EXCEPT ![dl] = lo] EXCEPT ![dh] = hi],
                            !.f = [set_logic_flags(@, "Long", hi) EXCEPT !.z = lo = 0 /\ hi = 0]])

----------------------------------------------------------------------------
(* Bit fields.  Bit 0 is the most significant bit of the operand. *)

\* The offset of a dynamic specification is the whole register, its width modulo
\* 32 with 0 for 32.
decode_bitfield_spec(reg, offset, width) ==
    [reg |-> reg, offset |-> offset,
     width |-> IF width % Bits["Long"] = 0 THEN Bits["Long"] ELSE width % Bits["Long"]]

bf_mask(w) == 2 ^ w - 1
bf_sign_extend(field, w) == IF Bit(field, w - 1) THEN Low("Long", field - 2 ^ w) ELSE field
bf_find_first_one(field, w, base) ==
    LET ones == {i \in 0 .. w - 1 : Bit(field, w - 1 - i)}
    IN  Low("Long", base + (IF ones = {} THEN w
                            ELSE CHOOSE i \in ones : \A j \in ones : i <= j))

\* A register field wraps around the end of the register.
bf_extract_reg_msb0(x, off, w) ==
    LET L == Bits["Long"]
        out[i \in 0 .. w] == IF i = 0 THEN 0
                             ELSE 2 * out[i - 1] + One(Bit(x, L - 1 - ((off + i - 1) % L)))
    IN  out[w]
bf_insert_reg_msb0(x, off, w, field) ==
    LET L == Bits["Long"]
        v[i \in 0 .. w] ==
            IF i = 0 THEN x
            ELSE LET sh == L - 1 - ((off + i - 1) % L)
                 IN  v[i - 1] + 2 ^ sh * (One(Bit(field, w - i)) - One(Bit(v[i - 1], sh)))
    IN  v[w]

WindowBits == Bits["Long"] + Bits["Byte"]          \* the 40-bit window
SpanBytes(bit, w) == (bit + w + Bits["Byte"] - 1) \div Bits["Byte"]

\* The window holds the bytes the field spans, the first in its top byte.
bf_extract_mem_window_msb0(mem, start, bit, w) ==
    LET win[i \in 0 .. SpanBytes(bit, w)] ==
            IF i = 0 THEN 0
            ELSE win[i - 1] + mem[start + i - 1] * 2 ^ (WindowBits - Bits["Byte"] * i)
        window == win[SpanBytes(bit, w)]
    IN  [window |-> window, field |-> (window \div 2 ^ (WindowBits - (bit + w))) % 2 ^ w]

\* Mutant of bf_store_mem_window: a whole long is written back for every field.
bf_store_mem_window_long(mem, start, window, n) ==
    [p \in DOMAIN mem |->
        IF p \in start .. start + Bytes("Long") - 1
        THEN (window \div 2 ^ (WindowBits - Bits["Byte"] * (p - start + 1))) % Mod("Byte")
        ELSE mem[p]]

bf_store_mem_window(mem, start, window, n) ==
    [p \in DOMAIN mem |->
        IF p \in start .. start + n - 1
        THEN (window \div 2 ^ (WindowBits - Bits["Byte"] * (p - start + 1))) % Mod("Byte")
        ELSE mem[p]]

set_bitfield_flags(f, field, w) ==
    [f EXCEPT !.n = Bit(field, w - 1), !.z = field = 0, !.v = FALSE, !.c = FALSE]

\* What the field becomes; BFINS takes its flags from the value inserted.
NewField(op, field, w, src) ==
    CASE op = "BFCHG" -> bf_mask(w) - field
      [] op = "BFCLR" -> 0
      [] op = "BFSET" -> bf_mask(w)
      [] op = "BFINS" -> src % 2 ^ w
      [] OTHER -> field
Extracted(d, op, field, spec) ==
    CASE op = "BFEXTU" -> [d EXCEPT ![spec.reg] = field]
      [] op = "BFEXTS" -> [d EXCEPT ![spec.reg] = bf_sign_extend(field, spec.width)]
      [] op = "BFFFO" -> [d EXCEPT ![spec.reg] = bf_find_first_one(field, spec.width, spec.offset)]
      [] OTHER -> d
FieldFlags(f, op, field, new, w) == set_bitfield_flags(f, IF op = "BFINS" THEN new ELSE field, w)

BitFieldOps == {"BFTST", "BFEXTU", "BFCHG", "BFEXTS", "BFCLR", "BFFFO", "BFSET", "BFINS"}

exec_bitfield_reg(m, op, reg, spec) ==
    LET off == spec.offset % Bits["Long"]
        field == bf_extract_reg_msb0(m.d[reg], off, spec.width)
        new == NewField(op, field, spec.width, m.d[spec.reg])
        d1 == Extracted(m.d, op, field, spec)
    IN  Done([m EXCEPT !.d = IF op \in {"BFCHG", "BFCLR", "BFSET", "BFINS"}
                             THEN [d1 EXCEPT ![reg] = bf_insert_reg_msb0(m.d[reg], off, spec.width, new)]
                             ELSE d1,
                       !.f = FieldFlags(@, op, field, new, spec.width)])
\* The byte is found with an arithmetic shift of the offset, which may be negative.
exec_bitfield_mem(m, op, base, spec) ==
    LET start == base + Signed("Long", spec.offset) \div Bits["Byte"]
        bit == spec.offset % Bits["Byte"]
        x == bf_extract_mem_window_msb0(m.mem, start, bit, spec.width)
        new == NewField(op, x.field, spec.width, m.d[spec.reg])
        shift == 2 ^ (WindowBits - (bit + spec.width))
    IN  Done([m EXCEPT !.d = Extracted(@, op, x.field, spec),
                       !.f = FieldFlags(@, op, x.field, new, spec.width),
                       !.mem = IF op \in {"BFCHG", "BFCLR", "BFSET", "BFINS"}
                               THEN bf_store_mem_window(@, start, x.window + (new - x.field) * shift,
                                                        SpanBytes(bit, spec.width))
                               ELSE @])

----------------------------------------------------------------------------
(* Compare and swap. *)

\* A7 stays word-aligned: a byte steps it by two.
EaStep(reg, s) == IF reg = 7 /\ s = "Byte" THEN 2 ELSE Bytes(s)

exec_cas(m, model, s, dc, du, mode, reg) ==
    LET addr == IF mode = "-(An)" THEN m.a[reg] - EaStep(reg, s) ELSE m.a[reg]
        m1 == [m EXCEPT !.a[reg] = CASE mode = "(An)" -> @ [] mode = "-(An)" -> addr
                                     [] mode = "(An)+" -> @ + EaStep(reg, s)]
        old == ReadMem(m.mem, s, addr)
        f1 == exec_cmp(m.f, s, old, m.d[dc])
    IN  IF s # "Byte" /\ addr % Bytes(s) # 0 /\ trap_unimpl_060(model)
        THEN Trap(m, "unimplemented")
        ELSE Done([m1 EXCEPT
                !.f = f1,
                !.mem = IF f1.z THEN WriteMem(@, s, addr, m.d[du]) ELSE @,
                !.d[dc] = IF f1.z THEN @ ELSE write_data_reg_sized(@, s, old)])

\* Mutant of exec_cas2: each operand whose comparison succeeds is written.
exec_cas2_each(m, model, s, dc1, dc2, du1, du2, addr1, addr2) ==
    LET old1 == ReadMem(m.mem, s, addr1)
        old2 == ReadMem(m.mem, s, addr2)
        f1 == exec_cmp(m.f, s, old1, m.d[dc1])
        f2 == exec_cmp(f1, s, old2, m.d[dc2])
        mem1 == IF f1.z THEN WriteMem(m.mem, s, addr1, m.d[du1]) ELSE m.mem
    IN  Done([m EXCEPT !.f = IF f1.z THEN f2 ELSE f1,
                       !.mem = IF f2.z THEN WriteMem(mem1, s, addr2, m.d[du2]) ELSE mem1,
                       !.d = [[@ EXCEPT ![dc1] = write_data_reg_sized(@, s, old1)]
                                 EXCEPT ![dc2] = write_data_reg_sized(@, s, old2)]])

\* Any mismatch reloads both compare registers, in an order that depends on the
\* model and decides which value stays when they are the same register.
exec_cas2(m, model, s, dc1, dc2, du1, du2, addr1, addr2) ==
    LET old1 == ReadMem(m.mem, s, addr1)
        old2 == ReadMem(m.mem, s, addr2)
        eq1 == Low(s, m.d[dc1]) = old1
        eq2 == Low(s, m.d[dc2]) = old2
        f1 == exec_cmp(m.f, s, old1, m.d[dc1])
        f2 == IF eq1 THEN exec_cmp(f1, s, old2, m.d[dc2]) ELSE f1
    IN  IF eq1 /\ eq2
        THEN Done([m EXCEPT !.f = f2,
                            !.mem = WriteMem(WriteMem(@, s, addr1, m.d[du1]), s, addr2, m.d[du2])])
        ELSE Done([m EXCEPT !.f = f2,
                            !.d = IF Is040Plus(model)
                                  THEN [[@ EXCEPT ![dc1] = write_data_reg_sized(@, s, old1)]
                                           EXCEPT ![dc2] = write_data_reg_sized(@, s, old2)]
                                  ELSE [[@ EXCEPT ![dc2] = write_data_reg_sized(@, s, old2)]
                                           EXCEPT ![dc1] = write_data_reg_sized(@, s, old1)]])
=============================================================================
