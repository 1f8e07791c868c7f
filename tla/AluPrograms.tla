----------------------------- MODULE AluPrograms -----------------------------
(* Guest programs that chain integer instructions, checked against arithmetic.

   An instruction that leaves a flag wrong is harmless until a later instruction
   reads it.  Each job is a short program: numbers of several digits added,
   subtracted, negated, shifted and divided digit by digit, comparisons followed
   by a condition, a shift by n as n shifts by one, bit fields against the bit
   string they live in, and processors that synchronise with TAS, CAS and CAS2.
   The instructions are those of Alu and RegOps; what the programs should
   compute is stated with ordinary numbers. *)
EXTENDS RegOps

CONSTANTS LongValues,     \* the long operands considered (bytes and words: all)
          DigitValues,    \* decimal digits of the two-byte decimal numbers
          MaxShift,       \* longest shift followed
          MaxSwaps        \* updates per processor

ASSUME ProgramsAssumption ==
    /\ LongValues \subseteq 0 .. Mod("Long") - 1
    /\ DigitValues \subseteq 0 .. 9
    /\ MaxShift \in 1 .. 2 * Bits["Long"] - 1
    /\ MaxSwaps \in Nat \ {0}

VARIABLES job,     \* the program and its inputs
          k,       \* instructions done
          acc,     \* what it has computed
          f        \* the condition codes

vars == <<job, k, acc, f>>

Values(s) == IF s = "Long" THEN LongValues ELSE 0 .. Mod(s) - 1
Clear == [n |-> FALSE, z |-> TRUE, v |-> FALSE, c |-> FALSE, x |-> FALSE]

\* Numbers from digits, the least or the most significant digit first.
FromLow(ds, base) ==
    LET v[i \in 0 .. Len(ds)] == IF i = 0 THEN 0 ELSE v[i - 1] + ds[i] * base ^ (i - 1)
    IN  v[Len(ds)]
FromHigh(ds, base) ==
    LET v[i \in 0 .. Len(ds)] == IF i = 0 THEN 0 ELSE v[i - 1] * base + ds[i]
    IN  v[Len(ds)]
Take(ds, n) == SubSeq(ds, 1, n)
AsSigned(x, modulus) == IF 2 * x >= modulus THEN x - modulus ELSE x

----------------------------------------------------------------------------
(* Binary chains: ADD then ADDX, SUB then SUBX, NEG then NEGX, CMP, CMPA. *)

Chains == {"add", "sub", "neg"}
ChainLength(s) == IF s = "Byte" THEN 3 ELSE 1

ChainInit ==
    \E kind \in Chains, s \in Sizes :
       \E a, b \in [1 .. ChainLength(s) -> Values(s)] :
          /\ kind = "neg" => b = a
          /\ job = [kind |-> kind, s |-> s, a |-> a, b |-> b]
CompareInit ==
    \/ \E s \in Sizes : \E a, b \in Values(s) : job = [kind |-> "cmp", s |-> s, a |-> <<a>>, b |-> <<b>>]
    \/ \E a \in LongValues, b \in Values("Word") :
          job = [kind |-> "cmpa", s |-> "Word", a |-> <<a>>, b |-> <<b>>]

Digit(i) ==
    LET s == job.s  a == job.a[i]  b == job.b[i]
    IN  CASE job.kind = "add" -> IF i = 1 THEN exec_add(f, s, b, a) ELSE exec_addx(f, s, b, a)
          [] job.kind = "sub" -> IF i = 1 THEN exec_sub(f, s, b, a) ELSE exec_subx(f, s, b, a)
          [] job.kind = "neg" -> IF i = 1 THEN exec_neg(f, s, a) ELSE exec_negx(f, s, a)
          [] job.kind = "cmp" -> [r |-> a, f |-> exec_cmp(f, s, b, a)]
          [] job.kind = "cmpa" -> [r |-> a, f |-> exec_cmpa(f, s, b, a)]

Chain ==
    /\ job.kind \in Chains \cup {"cmp", "cmpa"}
    /\ k < Len(job.a)
    /\ k' = k + 1
    /\ acc' = Append(acc, Digit(k + 1).r)
    /\ f' = Digit(k + 1).f
    /\ UNCHANGED job

\* After every digit the flags describe the whole number so far: the digits and
\* the carry are the exact sum (difference, negation), Z says that all digits are
\* zero, N and V are sign and overflow of the whole (exec_add, exec_addx,
\* exec_sub, exec_subx, exec_neg, exec_negx).
ChainExact ==
    (job.kind \in Chains /\ k > 0) =>
        LET base == Mod(job.s)
            a == FromLow(Take(job.a, k), base)
            b == FromLow(Take(job.b, k), base)
            r == FromLow(acc, base)
            whole == base ^ k
            sa == AsSigned(a, whole)
            sb == AsSigned(b, whole)
            exact == CASE job.kind = "add" -> sa + sb [] job.kind = "sub" -> sa - sb
                       [] job.kind = "neg" -> -sa
        IN  /\ CASE job.kind = "add" -> a + b = r + One(f.c) * whole
                 [] job.kind = "sub" -> a - b = r - One(f.c) * whole
                 [] job.kind = "neg" -> -a = r - One(f.c) * whole
            /\ f.x = f.c
            /\ f.z <=> r = 0
            /\ f.n <=> AsSigned(r, whole) < 0
            /\ f.v <=> exact # AsSigned(r, whole)

\* A condition tested after CMP, CMPA or a SUB/SUBX chain is the comparison of
\* the whole numbers, signed and unsigned (set_cmp_flags, set_sub_flags, exec_subx
\* and test_condition).
ConditionExact ==
    (job.kind \in {"sub", "cmp", "cmpa"} /\ k > 0) =>
        LET whole == IF job.kind = "cmpa" THEN Mod("Long") ELSE Mod(job.s) ^ k
            a == FromLow(Take(job.a, k), Mod(job.s))
            b == IF job.kind = "cmpa" THEN SignExt("Word", job.b[1])
                                      ELSE FromLow(Take(job.b, k), Mod(job.s))
            sa == AsSigned(a, whole)
            sb == AsSigned(b, whole)
            T(cond) == test_condition(f, cond)
        IN  /\ (T("HI") <=> a > b) /\ (T("LS") <=> a <= b)
            /\ (T("CC") <=> a >= b) /\ (T("CS") <=> a < b)
            /\ (T("NE") <=> a # b) /\ (T("EQ") <=> a = b)
            /\ (T("GE") <=> sa >= sb) /\ (T("LT") <=> sa < sb)
            /\ (T("GT") <=> sa > sb) /\ (T("LE") <=> sa <= sb)

----------------------------------------------------------------------------
(* Decimal chains: ABCD, SBCD, NBCD, and their test-suite variants. *)

DecimalKinds == {"abcd", "sbcd", "nbcd", "abcd_sst", "sbcd_sst"}
Packed(digits) == {16 * h + l : h \in digits, l \in digits}
Unpacked(b) == 10 * (b \div 16) + (b % 16)

DecimalInit ==
    \E kind \in DecimalKinds :
       \/ \E a, b \in Packed(0 .. 9), x \in BOOLEAN :
             /\ kind = "nbcd" => b = a
             /\ job = [kind |-> kind, model |-> "M68000", x |-> x, a |-> <<a>>, b |-> <<b>>]
       \/ \E a, b \in [1 .. 2 -> Packed(DigitValues)], model \in {"M68020", "M68040"} :
             /\ kind = "nbcd" => b = a
             /\ job = [kind |-> kind, model |-> model, x |-> FALSE, a |-> a, b |-> b]

DecimalDigit(i) ==
    LET a == job.a[i]  b == job.b[i]
    IN  CASE job.kind = "abcd" -> bcd_add(f, job.model, b, a)
          [] job.kind = "sbcd" -> bcd_sub(f, job.model, b, a)
          [] job.kind = "nbcd" -> exec_nbcd(f, job.model, a)
          [] job.kind = "abcd_sst" -> bcd_add_sst(f, b, a)
          [] job.kind = "sbcd_sst" -> bcd_sub_sst(f, b, a)

Decimal ==
    /\ job.kind \in DecimalKinds
    /\ k < Len(job.a)
    /\ k' = k + 1
    /\ acc' = Append(acc, DecimalDigit(k + 1).r)
    /\ f' = DecimalDigit(k + 1).f
    /\ UNCHANGED job

\* Valid digits in, valid digits out: the digits and the carry are the exact
\* decimal result, and Z says that the whole number is zero (bcd_add, bcd_sub,
\* exec_nbcd; Z is sticky on every CPU generation).
DecimalExact ==
    (job.kind \in DecimalKinds /\ k > 0) =>
        LET D(ds) == FromLow([i \in DOMAIN ds |-> Unpacked(ds[i])], 100)
            a == D(Take(job.a, k))
            b == D(Take(job.b, k))
            r == D(acc)
        IN  /\ \A i \in 1 .. k : acc[i] \in Packed(0 .. 9)
            /\ CASE job.kind \in {"abcd", "abcd_sst"} -> a + b + One(job.x) = r + One(f.c) * 100 ^ k
                 [] job.kind \in {"sbcd", "sbcd_sst"} -> a - b - One(job.x) = r - One(f.c) * 100 ^ k
                 [] job.kind = "nbcd" -> -a - One(job.x) = r - One(f.c) * 100 ^ k
            /\ f.x = f.c
            /\ f.z <=> r = 0

----------------------------------------------------------------------------
(* Shifts: n single shifts against one shift by n, and numbers of two digits
   shifted by one place. *)

ShiftOps == {"asl", "asr", "lsl", "lsr", "rol", "ror", "roxl", "roxr"}
ShiftBy(op, g, s, n, x) ==
    CASE op = "asl" -> exec_asl(g, s, n, x)   [] op = "asr" -> exec_asr(g, s, n, x)
      [] op = "lsl" -> exec_lsl(g, s, n, x)   [] op = "lsr" -> exec_lsr(g, s, n, x)
      [] op = "rol" -> exec_rol(g, s, n, x)   [] op = "ror" -> exec_ror(g, s, n, x)
      [] op = "roxl" -> exec_roxl(g, s, n, x) [] op = "roxr" -> exec_roxr(g, s, n, x)

ShiftInit ==
    \/ \E op \in ShiftOps, s \in Sizes, x \in BOOLEAN : \E v \in Values(s) :
          job = [kind |-> "shift", op |-> op, s |-> s, x |-> x, a |-> <<v>>]
    \/ \E op \in {"lsl", "asr"}, s \in {"Byte", "Word"} : \E a \in [1 .. 2 -> Values(s)] :
          job = [kind |-> "place", op |-> op, s |-> s, x |-> FALSE, a |-> a]

\* acc collects the single shifts' results; their overflows are or'ed into ovf.
Shift ==
    /\ job.kind = "shift"
    /\ k < MaxShift
    /\ LET r == ShiftBy(job.op, f, job.s, 1, IF k = 0 THEN job.a[1] ELSE acc.r)
       IN  /\ acc' = [r |-> r.r, ovf |-> r.f.v \/ (k > 0 /\ acc.ovf)]
           /\ f' = r.f
    /\ k' = k + 1
    /\ UNCHANGED job

\* LSL #1 on the low digit, ROXL #1 upward; ASR #1 on the high digit, ROXR #1 downward.
Place ==
    /\ job.kind = "place"
    /\ k < Len(job.a)
    /\ LET op == IF k = 0 THEN job.op ELSE IF job.op = "lsl" THEN "roxl" ELSE "roxr"
           r == ShiftBy(op, f, job.s, 1, job.a[k + 1])
       IN  acc' = Append(acc, r.r) /\ f' = r.f
    /\ k' = k + 1
    /\ UNCHANGED job

\* A shift or rotate by n, 1 <= n < 64 with n beyond the operand's width too, is
\* n shifts by one: value, carry, extend, sign and zero; V of ASL is set when any
\* of them changed the sign (the exec_asl ... exec_roxr family).
ShiftIterates ==
    (job.kind = "shift" /\ k > 0) =>
        LET whole == ShiftBy(job.op, [Clear EXCEPT !.x = job.x], job.s, k, job.a[1])
        IN  whole = [r |-> acc.r, f |-> [f EXCEPT !.v = acc.ovf]]

\* The extend flag carries the bit between digits: the two-digit number is
\* doubled, or halved rounding down, and C is the bit lost.
PlaceExact ==
    (job.kind = "place" /\ k > 0) =>
        LET base == Mod(job.s)
            whole == base ^ k
        IN  IF job.op = "lsl"
            THEN 2 * FromLow(Take(job.a, k), base) = FromLow(acc, base) + One(f.c) * whole
            ELSE AsSigned(FromHigh(Take(job.a, k), base), whole)
                    = 2 * AsSigned(FromHigh(acc, base), whole) + One(f.c)

----------------------------------------------------------------------------
(* Division: long division digit by digit with DIVU, single divisions of every
   form, and a wide product divided again. *)

Machine(d, a, mem) == [d |-> d, a |-> a, f |-> Clear, mem |-> mem]
NoRegs == [r \in {} |-> 0]

DivideInit ==
    \/ \E a \in [1 .. 2 -> Values("Word")], dv \in Values("Word") \ {0} :
          job = [kind |-> "longdiv", a |-> a, dv |-> dv]
    \/ \E op \in {"divu", "divs"}, sst \in BOOLEAN, n \in 0 .. Mod("Long") - 1, dv \in Values("Word") :
          job = [kind |-> "div", op |-> op, sst |-> sst, a |-> <<n>>, dv |-> dv]
    \/ \E signed \in BOOLEAN, n, dv \in LongValues, dr \in {0, 1} :
          job = [kind |-> "divl", signed |-> signed, a |-> <<n>>, dv |-> dv, dr |-> dr]
    \/ \E signed \in BOOLEAN, n, dv \in LongValues, model \in {"M68020", "M68060"} :
          job = [kind |-> "muldiv", signed |-> signed, model |-> model, a |-> <<n>>, dv |-> dv]

\* The remainder stays in the high word; the next digit replaces the quotient.
LongDivide ==
    /\ job.kind = "longdiv"
    /\ k < Len(job.a)
    /\ LET d0 == IF k = 0 THEN 0 ELSE acc.d0
           m == Machine([r \in {0} |-> write_data_reg_sized(d0, "Word", job.a[k + 1])], NoRegs, NoRegs)
           x == exec_divu(m, FALSE, job.dv, 0)
       IN  acc' = [d0 |-> x.m.d[0], v |-> x.m.f.v, trap |-> x.trap,
                   q |-> Append(IF k = 0 THEN <<>> ELSE acc.q, Low("Word", x.m.d[0]))]
    /\ k' = k + 1
    /\ UNCHANGED <<job, f>>

Divide ==
    /\ job.kind \in {"div", "divl"} /\ k = 0
    /\ LET m == Machine([r \in {0, 1} |-> IF r = 0 THEN job.a[1] ELSE 0], NoRegs, NoRegs)
       IN  acc' = CASE job.kind = "div" /\ job.op = "divu" -> exec_divu(m, job.sst, job.dv, 0)
                    [] job.kind = "div" /\ job.op = "divs" -> exec_divs(m, job.sst, job.dv, 0)
                    [] job.kind = "divl" -> exec_divl(m, "M68020", job.dv, job.signed, FALSE, 0, job.dr)
    /\ k' = 1
    /\ UNCHANGED <<job, f>>

\* MULL to D1:D0, then DIVL of D1:D0 by the same operand; MULU.W and MULS.W are
\* taken along in registers 2 and 3.
MulDiv ==
    /\ job.kind = "muldiv" /\ k < 2
    /\ acc' = IF k = 0
              THEN LET m == Machine([r \in 0 .. 3 |-> IF r = 1 THEN 0 ELSE job.a[1]], NoRegs, NoRegs)
                       x == exec_mull(m, job.model, job.dv, job.signed, TRUE, 0, 1)
                   IN  [x EXCEPT !.m = exec_muls(exec_mulu(x.m, job.dv, 2).m, job.dv, 3).m]
              ELSE exec_divl(acc.m, job.model, job.dv, job.signed, TRUE, 0, 1)
    /\ k' = k + 1
    /\ UNCHANGED <<job, f>>

\* DIVU never overflows in a long division, because the remainder is below the
\* divisor, and the quotient digits and the last remainder are exact.
LongDivisionExact ==
    (job.kind = "longdiv" /\ k > 0) =>
        /\ acc.trap = "" /\ ~acc.v
        /\ FromHigh(Take(job.a, k), Mod("Word"))
              = FromHigh(acc.q, Mod("Word")) * job.dv + acc.d0 \div Mod("Word")
        /\ acc.d0 \div Mod("Word") < job.dv

\* A division traps exactly on a zero divisor; it overflows exactly when the
\* quotient does not fit, leaving the dividend; else quotient and remainder are
\* exact, the remainder has the dividend's sign, and the quotient is the one kept
\* when both go to the same register.
DivisionExact ==
    (job.kind \in {"div", "divl"} /\ k = 1) =>
        LET signed == IF job.kind = "div" THEN job.op = "divs" ELSE job.signed
            half == IF job.kind = "div" THEN "Word" ELSE "Long"
            Num(s, x) == IF signed THEN Signed(s, x) ELSE Low(s, x)
            n == Num("Long", job.a[1])
            dv == Num(half, job.dv)
            d0 == acc.m.d[0]
            q == Num(half, d0)
            r == IF job.kind = "div" THEN Num("Word", d0 \div Mod("Word")) ELSE Num("Long", acc.m.d[1])
            musashi == job.kind = "div" /\ signed /\ 2 * n = -Mod("Long") /\ dv = -1
        IN  /\ (acc.trap = "zero_divide") <=> (dv = 0)
            /\ (dv = 0 \/ acc.m.f.v) => d0 = job.a[1]
            /\ (dv # 0 /\ ~musashi /\ acc.m.f.v) =>
                  \* no quotient of this width is right
                  ~ \E t \in 0 .. Mod(half) - 1 :
                       /\ Abs(n - Num(half, t) * dv) < Abs(dv)
                       /\ n - Num(half, t) * dv = 0 \/ (n - Num(half, t) * dv < 0) = (n < 0)
            /\ (dv # 0 /\ ~musashi /\ ~acc.m.f.v) =>
                  IF job.kind = "divl" /\ job.dr = 0
                  THEN Abs(n - q * dv) < Abs(dv)
                  ELSE n = q * dv + r /\ Abs(r) < Abs(dv) /\ (r = 0 \/ (r < 0) = (n < 0))

\* A wide product divided by one factor is the other factor with no remainder and
\* no overflow, signed and unsigned; the 68060 refuses both with nothing changed,
\* so that its software package can emulate them.
MulDivInverse ==
    (job.kind = "muldiv" /\ k > 0) =>
        /\ (k = 2 /\ job.model # "M68060" /\ job.dv # 0) =>
              acc.m.d[0] = job.a[1] /\ acc.m.d[1] = 0 /\ ~acc.m.f.v
        /\ job.model = "M68060" =>
              acc.trap = "unimplemented" /\ acc.m.d[0] = job.a[1] /\ acc.m.d[1] = 0
        /\ acc.m.d[2] = Low("Word", job.a[1]) * Low("Word", job.dv)
        /\ Signed("Long", acc.m.d[3]) = Signed("Word", job.a[1]) * Signed("Word", job.dv)

----------------------------------------------------------------------------
(* Bit fields against the bit string of the memory or the register. *)

FieldBase == 2                        \* the base address; the memory has 5 bytes
FieldMemory == 0 .. 4
BitOf(mem, p) == Bit(mem[p \div Bits["Byte"]], Bits["Byte"] - 1 - (p % Bits["Byte"]))
Patterns == {[p \in FieldMemory |-> (CASE i = 0 -> 0 [] i = 1 -> Mod("Byte") - 1
                                       [] i = 2 -> p % Mod("Byte") [] i = 3 -> 2 - (p % 2)
                                       [] i = 4 -> One(p = 2))] : i \in 0 .. 4}

FieldInit ==
    \/ \E op \in BitFieldOps, mem \in Patterns, w \in 1 .. Bits["Long"], src \in {0, 1, Mod("Long") - 2} :
       \E first \in 0 .. Bits["Byte"] * Cardinality(FieldMemory) - w :
          job = [kind |-> "field", op |-> op, mem |-> mem, src |-> src, w |-> w,
                 off |-> Low("Long", first - FieldBase * Bits["Byte"])]
    \/ \E op \in BitFieldOps, v \in LongValues, w \in 1 .. Bits["Long"],
          src \in {0, 1, Mod("Long") - 2}, off \in 0 .. Bits["Long"] + 1 :
          job = [kind |-> "regfield", op |-> op, mem |-> v, src |-> src, w |-> w, off |-> off]

Field ==
    /\ job.kind \in {"field", "regfield"} /\ k = 0
    /\ LET spec == decode_bitfield_spec(1, job.off, job.w % Bits["Long"])
           m == Machine([r \in {0, 1} |-> IF r = 1 THEN job.src
                                          ELSE IF job.kind = "field" THEN 0 ELSE job.mem],
                        NoRegs, IF job.kind = "field" THEN job.mem ELSE NoRegs)
       IN  acc' = IF job.kind = "field" THEN exec_bitfield_mem(m, job.op, FieldBase, spec)
                                        ELSE exec_bitfield_reg(m, job.op, 0, spec)
    /\ k' = 1
    /\ UNCHANGED <<job, f>>

\* Seen as a string of bits, an operand changes inside the field only, and there
\* as the instruction says; the register gets the field, zero- or sign-extended,
\* or the position of its first one; N and Z are those of the field.  Memory
\* fields may start before the base address and span one byte more than a long,
\* register fields wrap (exec_bitfield and its helpers).
FieldExact ==
    (job.kind \in {"field", "regfield"} /\ k = 1) =>
        LET L == Bits["Long"]
            first == IF job.kind = "field" THEN FieldBase * Bits["Byte"] + Signed("Long", job.off)
                                           ELSE job.off
            all == IF job.kind = "field" THEN 0 .. Bits["Byte"] * Cardinality(FieldMemory) - 1
                                         ELSE 0 .. L - 1
            Pos(i) == IF job.kind = "field" THEN first + i ELSE (first + i) % L
            Old(p) == IF job.kind = "field" THEN BitOf(job.mem, p) ELSE Bit(job.mem, L - 1 - p)
            New(p) == IF job.kind = "field" THEN BitOf(acc.m.mem, p) ELSE Bit(acc.m.d[0], L - 1 - p)
            In(i)  == Bit(job.src, job.w - 1 - i)
            idx == 0 .. job.w - 1
            res == acc.m.d[1]
            Seen(i) == IF job.op = "BFINS" THEN In(i) ELSE Old(Pos(i))
        IN  /\ \A p \in all \ {Pos(i) : i \in idx} : New(p) = Old(p)
            /\ \A i \in idx : New(Pos(i)) = CASE job.op = "BFCHG" -> ~Old(Pos(i))
                                              [] job.op = "BFCLR" -> FALSE
                                              [] job.op = "BFSET" -> TRUE
                                              [] job.op = "BFINS" -> In(i)
                                              [] OTHER -> Old(Pos(i))
            /\ acc.m.f.n = Seen(0)
            /\ acc.m.f.z = \A i \in idx : ~Seen(i)
            /\ CASE job.op \in {"BFEXTU", "BFEXTS"} ->
                      \A i \in 0 .. L - 1 :
                         Bit(res, i) = IF i < job.w THEN Old(Pos(job.w - 1 - i))
                                       ELSE job.op = "BFEXTS" /\ Old(Pos(0))
                 [] job.op = "BFFFO" ->
                      LET n == Low("Long", res - job.off)
                      IN  /\ n \in 0 .. job.w
                          /\ \A i \in 0 .. n - 1 : ~Old(Pos(i))
                          /\ n < job.w => Old(Pos(n))
                 [] OTHER -> res = job.src

\* The single-bit instructions on a register are bit-field instructions of width
\* one, counted from the other end (exec_btst, exec_bset, exec_bclr, exec_bchg).
BitIsField ==
    (job.kind = "regfield" /\ k = 1 /\ job.w = 1 /\ job.op \in {"BFTST", "BFSET", "BFCLR", "BFCHG"}) =>
        LET num == 2 * Bits["Long"] - 1 - job.off
            Op(g, x) == CASE job.op = "BFTST" -> [r |-> x, f |-> exec_btst(g, "Long", num, x)]
                          [] job.op = "BFSET" -> exec_bset(g, "Long", num, x)
                          [] job.op = "BFCLR" -> exec_bclr(g, "Long", num, x)
                          [] job.op = "BFCHG" -> exec_bchg(g, "Long", num, x)
            x == Op(Clear, job.mem)
        IN  x.r = acc.m.d[0] /\ x.f.z = acc.m.f.z

----------------------------------------------------------------------------
(* Bounds, extensions and packed digits. *)

BoundsInit ==
    \/ \E s \in {"Byte", "Word"}, isAddr \in BOOLEAN :
       \E lo, hi \in Values(s), x \in LongValues :
          job = [kind |-> "cmp2", s |-> s, isAddr |-> isAddr, lo |-> lo, hi |-> hi, val |-> x]
    \/ \E lo, hi, x \in LongValues :
          job = [kind |-> "cmp2", s |-> "Long", isAddr |-> FALSE, lo |-> lo, hi |-> hi, val |-> x]
    \/ \E s \in {"Word", "Long"} : \E hi, x \in Values(s) :
          job = [kind |-> "chk", s |-> s, isAddr |-> FALSE, lo |-> 0, hi |-> hi, val |-> x]
    \/ \E x \in 0 .. Mod("Long") - 1 : job = [kind |-> "ext", val |-> x]
    \/ \E x \in Packed(0 .. 9), adj \in {0, 12336, 61680, 65535} :
          job = [kind |-> "pack", val |-> x, adj |-> adj]

Bounds ==
    /\ job.kind \in {"cmp2", "chk"} /\ k = 0
    /\ acc' = IF job.kind = "chk" THEN exec_chk(f, job.s, job.hi, job.val)
              ELSE exec_cmp2_chk2(f, job.s, job.lo, job.hi, job.val, job.isAddr, TRUE)
    /\ f' = acc'.f
    /\ k' = 1
    /\ UNCHANGED job

\* EXT.W then EXT.L; UNPK then PACK with the opposite adjustment.
Extend ==
    /\ job.kind \in {"ext", "pack"} /\ k < 2
    /\ LET x == IF k = 0 THEN job.val ELSE acc.r
           g == CASE job.kind = "ext" -> exec_ext(f, IF k = 0 THEN "Word" ELSE "Long", x)
                  [] job.kind = "pack" /\ k = 0 -> [r |-> exec_unpk(x, job.adj), f |-> f]
                  [] job.kind = "pack" /\ k = 1 -> [r |-> exec_pack(x, 65536 - job.adj), f |-> f]
       IN  acc' = [r |-> g.r] /\ f' = g.f
    /\ k' = k + 1
    /\ UNCHANGED job

\* CMP2 and CHK2 test membership in the interval walked upward from the lower to
\* the upper bound around the number circle, the upper one below the lower one
\* included; CHK tests 0 .. bound (exec_cmp2_chk2, exec_chk).
BoundsExact ==
    (job.kind \in {"cmp2", "chk"} /\ k = 1) =>
        LET x == IF job.isAddr THEN job.val ELSE SignExt(job.s, job.val)
            lo == SignExt(job.s, job.lo)
            hi == SignExt(job.s, job.hi)
            inside == Low("Long", x - lo) <= Low("Long", hi - lo)
        IN  IF job.kind = "cmp2"
            THEN acc.trap = ~inside /\ f.c = ~inside /\ f.z = (x \in {lo, hi})
            ELSE acc.trap = ~(Signed(job.s, job.val) \in 0 .. Signed(job.s, job.hi))

\* EXT.W and EXT.L compose to EXTB.L, flags included, and unpacked digits pack
\* back under the opposite adjustment (exec_ext, exec_extb, exec_pack, exec_unpk).
ExtendExact ==
    (job.kind \in {"ext", "pack"} /\ k = 2) =>
        IF job.kind = "ext" THEN exec_extb(Clear, job.val) = [r |-> acc.r, f |-> f]
                            ELSE acc.r = job.val

----------------------------------------------------------------------------
(* Two processors on one memory: a lock taken with TAS, counters advanced with
   CAS and CAS2 in the retry loop compilers emit.  Instructions are indivisible. *)

Procs == {1, 2}
CounterAt == 0                        \* two word counters and a lock byte
LockAt == 2 * Bytes("Word")
SyncMemory == [p \in 0 .. LockAt |-> 0]

SyncInit ==
    \/ \E kind \in {"tas", "cas", "cas2", "mixed"} : job = [kind |-> kind]
    \/ \E mode \in {"(An)", "(An)+", "-(An)"}, s \in {"Word", "Long"}, at \in 0 .. 4, model \in {"M68040", "M68060"} :
          /\ at >= (IF mode = "-(An)" THEN Bytes(s) ELSE 0)
          /\ at + (IF mode = "-(An)" THEN 0 ELSE Bytes(s)) <= LockAt + 1
          /\ job = [kind |-> "cas060", mode |-> mode, s |-> s, at |-> at, model |-> model]

\* Which processors advance both counters at once.
UsesCas2(p) == job.kind = "cas2" \/ (job.kind = "mixed" /\ p = 1)

\* D0, D1: compare registers; D2, D3: update registers.
InitialSync == [mem |-> SyncMemory,
                cpu |-> [p \in Procs |-> [d |-> [r \in 0 .. 3 |-> 0], at |-> "load", done |-> 0]]]
Sync == IF k = 0 THEN InitialSync ELSE acc
ProcMachine(p) == [d |-> Sync.cpu[p].d, a |-> NoRegs, f |-> Clear, mem |-> Sync.mem]
Advance(p, d, mem, at, done) ==
    /\ acc' = [Sync EXCEPT !.mem = mem, !.cpu[p].d = d, !.cpu[p].at = at, !.cpu[p].done = done]
    /\ k' = 1
    /\ UNCHANGED <<job, f>>

\* MOVE counters to D0, D1 and their successors to D2, D3.
Load(p) ==
    LET me == Sync.cpu[p]
        c1 == ReadMem(Sync.mem, "Word", CounterAt)
        c2 == ReadMem(Sync.mem, "Word", CounterAt + Bytes("Word"))
    IN  /\ job.kind \in {"cas", "cas2", "mixed"} /\ me.at = "load" /\ me.done < MaxSwaps
        /\ Advance(p, [me.d EXCEPT ![0] = c1, ![1] = c2], Sync.mem, "prepare", me.done)
Prepare(p) ==
    LET me == Sync.cpu[p]
    IN  /\ job.kind \in {"cas", "cas2", "mixed"} /\ me.at = "prepare"
        /\ Advance(p, [me.d EXCEPT ![2] = Low("Word", me.d[0] + 1), ![3] = Low("Word", me.d[1] + 1)],
                   Sync.mem, "swap", me.done)
\* On failure the compare registers hold the values found: only Prepare is repeated.
Swap(p) ==
    LET me == Sync.cpu[p]
        m == [ProcMachine(p) EXCEPT !.a = [r \in {0} |-> CounterAt]]
        x == IF ~UsesCas2(p) THEN exec_cas(m, "M68020", "Word", 0, 2, "(An)", 0)
             ELSE exec_cas2(m, "M68020", "Word", 0, 1, 2, 3, CounterAt, CounterAt + Bytes("Word"))
    IN  /\ job.kind \in {"cas", "cas2", "mixed"} /\ me.at = "swap"
        /\ IF test_condition(x.m.f, "EQ") THEN Advance(p, x.m.d, x.m.mem, "load", me.done + 1)
                                          ELSE Advance(p, x.m.d, x.m.mem, "prepare", me.done)
\* TAS the lock and branch on N: set means that it was taken.
Acquire(p) ==
    LET me == Sync.cpu[p]
        x == exec_tas(Clear, Sync.mem[LockAt])
    IN  /\ job.kind = "tas" /\ me.at = "load" /\ me.done < MaxSwaps
        /\ Advance(p, me.d, [Sync.mem EXCEPT ![LockAt] = x.r],
                   IF test_condition(x.f, "PL") THEN "inside" ELSE "load", me.done)
Release(p) ==
    LET me == Sync.cpu[p]
    IN  /\ job.kind = "tas" /\ me.at = "inside"
        /\ Advance(p, me.d, [Sync.mem EXCEPT ![LockAt] = exec_clr(Clear).r], "load", me.done + 1)

\* One CAS through an address register, aligned or not.
Cas060 ==
    /\ job.kind = "cas060" /\ k = 0
    /\ acc' = exec_cas(Machine([r \in {0, 2} |-> One(r = 2)], [r \in {0} |-> job.at], SyncMemory),
                       job.model, job.s, 0, 2, job.mode, 0)
    /\ k' = 1
    /\ UNCHANGED <<job, f>>

\* No update is lost: each counter holds the number of swaps of it that reported
\* success, also when one processor swaps both counters with CAS2 and another
\* swaps one of them with CAS (exec_cas, exec_cas2).
NoLostUpdate ==
    (job.kind \in {"cas", "cas2", "mixed"} /\ k > 0) =>
        LET Total(P) == Low("Word", One(1 \in P) * acc.cpu[1].done + One(2 \in P) * acc.cpu[2].done)
        IN  /\ ReadMem(acc.mem, "Word", CounterAt) = Total(Procs)
            /\ ReadMem(acc.mem, "Word", CounterAt + Bytes("Word")) = Total({p \in Procs : UsesCas2(p)})

\* TAS admits one processor, and the lock byte is marked while it is inside.
LockExclusive ==
    (job.kind = "tas" /\ k > 0) =>
        LET inside == {p \in Procs : acc.cpu[p].at = "inside"}
        IN  Cardinality(inside) <= 1 /\ (inside # {} <=> Neg("Byte", acc.mem[LockAt]))

\* The 68060 refuses a misaligned CAS with no register changed, the address
\* register of a stepping mode included, so that its software package can redo it.
CasRestartable ==
    (job.kind = "cas060" /\ k = 1) =>
        IF job.model = "M68060" /\ (IF job.mode = "-(An)" THEN job.at - Bytes(job.s) ELSE job.at) % Bytes(job.s) # 0
        THEN acc.trap = "unimplemented" /\ acc.m.a[0] = job.at /\ acc.m.mem = SyncMemory
        ELSE /\ acc.trap = ""
             /\ acc.m.a[0] = CASE job.mode = "(An)" -> job.at
                               [] job.mode = "(An)+" -> job.at + Bytes(job.s)
                               [] job.mode = "-(An)" -> job.at - Bytes(job.s)

-----------------------------------------------------------------------------
(* The properties, by what the programs compute. *)

\* Binary and decimal numbers of several digits are added, subtracted, negated,
\* extended and compared exactly: results, flags, and the conditions and bounds
\* tests that programs read from them.
NumbersExact == ChainExact /\ ConditionExact /\ DecimalExact /\ ExtendExact /\ BoundsExact

\* A shift by n is n shifts by one, and X carries the bit between the digits of a
\* longer number (shift_rotate.rs).
ShiftsExact == ShiftIterates /\ PlaceExact

\* Quotients and remainders are exact or refused, in one step, digit by digit and
\* after a product of the same factors (mul_div.rs, mul_div_long.rs).
DivisionsExact == LongDivisionExact /\ DivisionExact /\ MulDivInverse

\* A bit-field instruction changes and reports its field and nothing else, and the
\* single-bit instructions are fields of width one (bitfield.rs, bit_manip.rs).
FieldsExact == FieldExact /\ BitIsField

\* Between processors that share memory no update is lost and a lock admits one,
\* and a CAS the 68060 leaves to software can be done again (compare_swap.rs).
SharedExact == NoLostUpdate /\ LockExclusive /\ CasRestartable

----------------------------------------------------------------------------
Init ==
    /\ \/ ChainInit
       \/ CompareInit
       \/ DecimalInit
       \/ ShiftInit
       \/ DivideInit
       \/ FieldInit
       \/ BoundsInit
       \/ SyncInit
    /\ k = 0
    /\ acc = <<>>
    /\ f = [Clear EXCEPT !.x = "x" \in DOMAIN job /\ job.x]

Next ==
    \/ Chain
    \/ Decimal
    \/ Shift
    \/ Place
    \/ LongDivide
    \/ Divide
    \/ MulDiv
    \/ Field
    \/ Bounds
    \/ Extend
    \/ Cas060
    \/ \E p \in Procs : Load(p) \/ Prepare(p) \/ Swap(p) \/ Acquire(p) \/ Release(p)

Spec == Init /\ [][Next]_vars
=============================================================================
