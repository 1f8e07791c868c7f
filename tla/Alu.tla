--------------------------------- MODULE Alu ---------------------------------
(* What the integer instructions compute: core/instructions/*.rs without
   operand addressing, prefetch and timing.

   An operator takes the condition codes f and the operands and returns
   [r |-> result, f |-> new condition codes], and where the instruction may trap
   a field trap.  The widths of the three operand sizes are a constant: the code
   is the same at every width, and the boundary cases of 32 bits are the
   boundary cases of 8.  Only the packed-decimal operators use real bytes. *)
EXTENDS Integers, Sequences, Bitwise

CONSTANT Bits       \* operand size -> width in bits

Sizes == {"Byte", "Word", "Long"}

ASSUME AluAssumption ==
    /\ Bits \in [Sizes -> Nat \ {0}]
    /\ Bits["Word"] = 2 * Bits["Byte"] /\ Bits["Long"] = 2 * Bits["Word"]

----------------------------------------------------------------------------
(* Numbers of a width, and the condition codes. *)

Mod(s)       == 2 ^ Bits[s]
Low(s, x)    == x % Mod(s)                              \* x & size.mask()
Neg(s, x)    == 2 * Low(s, x) >= Mod(s)                 \* x & size.msb_mask() != 0
Signed(s, x) == IF Neg(s, x) THEN Low(s, x) - Mod(s) ELSE Low(s, x)
SignExt(s, x) == Low("Long", Signed(s, x))
Bit(x, i)    == (x \div 2 ^ i) % 2 = 1
One(b)       == IF b THEN 1 ELSE 0
Least(a, b)  == IF a < b THEN a ELSE b
Abs(x)       == IF x < 0 THEN -x ELSE x


\* The low part of a data register is replaced, the rest kept.
write_data_reg_sized(old, s, x) == old - Low(s, old) + Low(s, x)

set_logic_flags_nv(f, s, x) == [f EXCEPT !.n = Neg(s, x), !.z = Low(s, x) = 0]
set_logic_flags(f, s, x) == [set_logic_flags_nv(f, s, x) EXCEPT !.v = FALSE, !.c = FALSE]

test_condition(f, cond) ==
    CASE cond = "T"  -> TRUE          [] cond = "F"  -> FALSE
      [] cond = "HI" -> ~f.c /\ ~f.z  [] cond = "LS" -> f.c \/ f.z
      [] cond = "CC" -> ~f.c          [] cond = "CS" -> f.c
      [] cond = "NE" -> ~f.z          [] cond = "EQ" -> f.z
      [] cond = "VC" -> ~f.v          [] cond = "VS" -> f.v
      [] cond = "PL" -> ~f.n          [] cond = "MI" -> f.n
      [] cond = "GE" -> f.n = f.v     [] cond = "LT" -> f.n # f.v
      [] cond = "GT" -> ~f.z /\ f.n = f.v
      [] cond = "LE" -> f.z \/ f.n # f.v

----------------------------------------------------------------------------
(* Addition and subtraction (integer_arith.rs). *)

\* The long forms cannot see bit 32 and derive the carry from the sign bits.
AddCarry(s, src, dst, r) ==
    LET S == Neg(s, src)  D == Neg(s, dst)  R == Neg(s, r)
    IN  IF s = "Long" THEN (S /\ D) \/ (~R /\ (S \/ D))
                      ELSE Low(s, src) + Low(s, dst) >= Mod(s)
SubCarry(s, src, dst, r) ==
    LET S == Neg(s, src)  D == Neg(s, dst)  R == Neg(s, r)
    IN  IF s = "Long" THEN (S /\ R) \/ (~D /\ (S \/ R))
                      ELSE Low(s, src) > Low(s, dst)

set_add_flags(f, s, src, dst, r) ==
    LET carry == AddCarry(s, src, dst, r)
    IN  [n |-> Neg(s, r), z |-> Low(s, r) = 0, c |-> carry, x |-> carry,
         v |-> Neg(s, src) # Neg(s, r) /\ Neg(s, dst) # Neg(s, r)]
set_sub_flags(f, s, src, dst, r) ==
    LET carry == SubCarry(s, src, dst, r)
    IN  [n |-> Neg(s, r), z |-> Low(s, r) = 0, c |-> carry, x |-> carry,
         v |-> Neg(s, src) # Neg(s, dst) /\ Neg(s, r) # Neg(s, dst)]
set_cmp_flags(f, s, src, dst, r) ==
    [f EXCEPT !.n = Neg(s, r), !.z = Low(s, r) = 0, !.c = Low(s, src) > Low(s, dst),
              !.v = Neg(s, src) # Neg(s, dst) /\ Neg(s, r) # Neg(s, dst)]

exec_add(f, s, src, dst) ==
    LET r == Low("Long", src + dst)
    IN  [r |-> Low(s, r), f |-> set_add_flags(f, s, src, dst, r)]
exec_sub(f, s, src, dst) ==
    LET r == Low("Long", dst - src)
    IN  [r |-> Low(s, r), f |-> set_sub_flags(f, s, src, dst, r)]
exec_cmp(f, s, src, dst) == set_cmp_flags(f, s, src, dst, Low("Long", dst - src))

\* The address-register forms: a word source is sign-extended, no flags.
AddrSource(s, src) == IF s = "Word" THEN SignExt("Word", src) ELSE src
exec_adda(s, src, dst) == Low("Long", dst + AddrSource(s, src))
exec_suba(s, src, dst) == Low("Long", dst - AddrSource(s, src))
exec_cmpa(f, s, src, dst) == exec_cmp(f, "Long", AddrSource(s, src), dst)

\* Mutant of exec_addx: Z is set by the last digit alone.
exec_addx_z(f, s, src, dst) ==
    LET sum == Low(s, dst) + Low(s, src) + One(f.x)
        r == Low(s, sum)
        carry == sum >= Mod(s)
    IN  [r |-> r,
         f |-> [n |-> Neg(s, r), z |-> r = 0, c |-> carry, x |-> carry,
                v |-> Neg(s, src) # Neg(s, r) /\ Neg(s, dst) # Neg(s, r)]]

\* The extended forms only ever clear Z.
exec_addx(f, s, src, dst) ==
    LET sum == Low(s, dst) + Low(s, src) + One(f.x)
        r == Low(s, sum)
        carry == sum >= Mod(s)
    IN  [r |-> r,
         f |-> [n |-> Neg(s, r), z |-> f.z /\ r = 0, c |-> carry, x |-> carry,
                v |-> Neg(s, src) # Neg(s, r) /\ Neg(s, dst) # Neg(s, r)]]
exec_subx(f, s, src, dst) ==
    LET sub == Low(s, src) + One(f.x)
        r == Low(s, Low(s, dst) - sub)
        borrow == sub > Low(s, dst)
    IN  [r |-> r,
         f |-> [n |-> Neg(s, r), z |-> f.z /\ r = 0, c |-> borrow, x |-> borrow,
                v |-> Neg(s, src) # Neg(s, dst) /\ Neg(s, r) # Neg(s, dst)]]

exec_neg(f, s, src)  == exec_sub(f, s, src, 0)
exec_negx(f, s, src) == exec_subx(f, s, src, 0)
exec_clr(f) == [r |-> 0, f |-> [f EXCEPT !.n = FALSE, !.z = TRUE, !.v = FALSE, !.c = FALSE]]
exec_not(f, s, src) ==
    LET r == Mod(s) - 1 - Low(s, src) IN [r |-> r, f |-> set_logic_flags(f, s, r)]
\* EXT.W and EXT.L extend the next smaller size; EXTB.L extends the byte.
exec_ext(f, s, x) ==
    LET r == IF s = "Word" THEN write_data_reg_sized(x, "Word", Signed("Byte", x))
                           ELSE SignExt("Word", x)
    IN  [r |-> r, f |-> set_logic_flags(f, s, r)]
exec_extb(f, x) == [r |-> SignExt("Byte", x), f |-> set_logic_flags(f, "Long", SignExt("Byte", x))]
exec_swap(f, x) ==
    LET r == Low("Word", x) * Mod("Word") + x \div Mod("Word")
    IN  [r |-> r, f |-> set_logic_flags(f, "Long", r)]

\* The upper bound is compared first.
exec_chk(f, s, bound, x) ==
    [f |-> [f EXCEPT !.n = Signed(s, x) < 0, !.z = FALSE, !.v = FALSE, !.c = FALSE],
     trap |-> Signed(s, x) > Signed(s, bound) \/ Signed(s, x) < 0]

\* Reversed bounds select the wrapped range; an address register is not narrowed.
exec_cmp2_chk2(f, s, lower, upper, reg, isAddr, isChk) ==
    LET lo == Signed(s, lower)
        hi == Signed(s, upper)
        x == Signed(IF isAddr THEN "Long" ELSE s, reg)
        on == x \in {lo, hi}
        out == /\ ~on
               /\ IF lo <= hi THEN x < lo \/ x > hi ELSE x > hi /\ x < lo
    IN  [f |-> [f EXCEPT !.c = out, !.v = FALSE, !.z = on, !.n = FALSE],
         trap |-> isChk /\ out]

----------------------------------------------------------------------------
(* Logic and single bits (logical.rs, bit_manip.rs). *)

exec_and(f, s, src, dst) == LET r == Low(s, src) & Low(s, dst) IN [r |-> r, f |-> set_logic_flags(f, s, r)]
exec_or(f, s, src, dst)  == LET r == Low(s, src) | Low(s, dst) IN [r |-> r, f |-> set_logic_flags(f, s, r)]
exec_eor(f, s, src, dst) == LET r == Low(s, src) ^^ Low(s, dst) IN [r |-> r, f |-> set_logic_flags(f, s, r)]

\* A register is a long, bits modulo its width; memory is a byte.
BitNumber(num, s) == num % Bits[s]
exec_btst(f, s, num, x) == [f EXCEPT !.z = ~Bit(x, BitNumber(num, s))]
exec_bset(f, s, num, x) ==
    LET w == 2 ^ BitNumber(num, s)
    IN  [r |-> x + (IF Bit(x, BitNumber(num, s)) THEN 0 ELSE w), f |-> exec_btst(f, s, num, x)]
exec_bclr(f, s, num, x) ==
    LET w == 2 ^ BitNumber(num, s)
    IN  [r |-> x - (IF Bit(x, BitNumber(num, s)) THEN w ELSE 0), f |-> exec_btst(f, s, num, x)]
exec_bchg(f, s, num, x) ==
    LET w == 2 ^ BitNumber(num, s)
    IN  [r |-> x + (IF Bit(x, BitNumber(num, s)) THEN -w ELSE w), f |-> exec_btst(f, s, num, x)]

\* The flags are those of the byte read, which is written back with its sign bit set.
exec_tas(f, x) ==
    [r |-> (Low("Byte", x) % (Mod("Byte") \div 2)) + Mod("Byte") \div 2,
     f |-> set_logic_flags(f, "Byte", x)]

----------------------------------------------------------------------------
(* Shifts and rotates (shift_rotate.rs). *)

Shifted(s, r, f, c, x, v) ==
    [r |-> r, f |-> set_logic_flags_nv([f EXCEPT !.c = c, !.x = x, !.v = v], s, r)]

Count(n) == n % (2 * Bits["Long"])        \* shift & 63

\* Mutant of exec_asl: V looks at the sign before and after, not at every step.
exec_asl_ends(f, s, n, x) ==
    LET k == Count(n)  b == Bits[s]  v == Low(s, x)
        r == (v * 2 ^ Least(k, b)) % Mod(s)
    IN  IF k = 0 THEN [r |-> x, f |-> set_logic_flags(f, s, x)]
        ELSE LET c == k <= b /\ Bit(v, b - k)
             IN  Shifted(s, r, f, c, c, Neg(s, r) # Neg(s, v))

\* V: the sign bit changed at any step.
exec_asl(f, s, n, x) ==
    LET k == Count(n)  b == Bits[s]  v == Low(s, x)
        steps == Least(k, b)
        Top(i) == i < b /\ Bit(v, b - 1 - i)       \* the sign bit after i steps
    IN  IF k = 0 THEN [r |-> x, f |-> set_logic_flags(f, s, x)]
        ELSE LET c == k <= b /\ Bit(v, b - k)
             IN  Shifted(s, (v * 2 ^ steps) % Mod(s), f, c, c,
                         \E i \in 1 .. steps : Top(i) # Top(i - 1))
exec_asr(f, s, n, x) ==
    LET k == Count(n)  b == Bits[s]  v == Low(s, x)
        c == IF k >= b THEN Neg(s, v) ELSE Bit(v, k - 1)
    IN  IF k = 0 THEN [r |-> x, f |-> set_logic_flags(f, s, x)]
        ELSE Shifted(s, IF k >= b THEN (IF Neg(s, v) THEN Mod(s) - 1 ELSE 0)
                        ELSE Low(s, Signed(s, v) \div 2 ^ k), f, c, c, FALSE)

exec_lsl(f, s, n, x) ==
    LET k == Count(n)  b == Bits[s]  v == Low(s, x)
        c == k <= b /\ Bit(v, b - k)
    IN  IF k = 0 THEN [r |-> x, f |-> set_logic_flags(f, s, x)]
        ELSE Shifted(s, IF k >= b THEN 0 ELSE (v * 2 ^ k) % Mod(s), f, c, c, FALSE)
exec_lsr(f, s, n, x) ==
    LET k == Count(n)  b == Bits[s]  v == Low(s, x)
        c == k <= b /\ Bit(v, k - 1)
    IN  IF k = 0 THEN [r |-> x, f |-> set_logic_flags(f, s, x)]
        ELSE Shifted(s, IF k >= b THEN 0 ELSE v \div 2 ^ k, f, c, c, FALSE)

\* A count that is a multiple of the width is a full turn: C is still set.
Turns(s, n) == IF n % Bits[s] = 0 THEN Bits[s] ELSE n % Bits[s]
exec_rol(f, s, n, x) ==
    LET k == Count(n)  b == Bits[s]  v == Low(s, x)  t == Turns(s, k)
    IN  IF k = 0 THEN Shifted(s, v, f, FALSE, f.x, FALSE)
        ELSE Shifted(s, IF t = b THEN v ELSE ((v * 2 ^ t) % Mod(s)) + v \div 2 ^ (b - t),
                     f, Bit(v, b - t), f.x, FALSE)
exec_ror(f, s, n, x) ==
    LET k == Count(n)  b == Bits[s]  v == Low(s, x)  t == Turns(s, k)
    IN  IF k = 0 THEN Shifted(s, v, f, FALSE, f.x, FALSE)
        ELSE Shifted(s, IF t = b THEN v ELSE (v \div 2 ^ t) + ((v * 2 ^ (b - t)) % Mod(s)),
                     f, Bit(v, t - 1), f.x, FALSE)

\* X and the value rotate together as a number one bit wider.
exec_roxl(f, s, n, x) ==
    LET b == Bits[s]  t == n % (b + 1)  w == One(f.x) * Mod(s) + Low(s, x)
        w1 == ((w * 2 ^ t) % 2 ^ (b + 1)) + w \div 2 ^ (b + 1 - t)
        c == Bit(w1, b)
    IN  IF t = 0 THEN Shifted(s, Low(s, x), f, f.x, f.x, FALSE)
        ELSE Shifted(s, w1 % Mod(s), f, c, c, FALSE)
exec_roxr(f, s, n, x) ==
    LET b == Bits[s]  t == n % (b + 1)  w == One(f.x) * Mod(s) + Low(s, x)
        w1 == (w \div 2 ^ t) + ((w * 2 ^ (b + 1 - t)) % 2 ^ (b + 1))
        c == Bit(w1, b)
    IN  IF t = 0 THEN Shifted(s, Low(s, x), f, f.x, f.x, FALSE)
        ELSE Shifted(s, w1 % Mod(s), f, c, c, FALSE)

----------------------------------------------------------------------------
(* Packed decimal (bcd.rs): real bytes, two digits each. *)

\* Which of N and V a decimal instruction derives, clears or keeps.
bcd_nv_level(model) == CASE model \in {"M68000", "M68010"} -> 0
                         [] model \in {"M68020", "M68030"} -> 2
                         [] model \in {"M68040", "M68060"} -> 4
bcd_set_nvz(f, model, res, v) ==
    LET level == bcd_nv_level(model)
        g == [f EXCEPT !.z = @ /\ res = 0]
    IN  IF level < 4 THEN [g EXCEPT !.n = res >= 128, !.v = level < 2 /\ v] ELSE g

Bit7(x)  == Bit(x % 65536, 7)
CarryOut(f, c) == [f EXCEPT !.c = c, !.x = c]

bcd_add_sst(f, src, dst) ==
    LET res == src + dst + One(f.x) + (IF (src % 16) + (dst % 16) + One(f.x) > 9 THEN 6 ELSE 0)
        carry == res > 159
        r == (IF carry THEN res + 96 ELSE res) % 256
    IN  [r |-> r, f |-> [CarryOut(f, carry) EXCEPT !.z = @ /\ r = 0]]
bcd_sub_sst(f, src, dst) ==
    LET base == dst - src - One(f.x)
        res == base - (IF (dst % 16) - (src % 16) - One(f.x) < 0 THEN 6 ELSE 0)
        r == (IF base < 0 THEN res - 96 ELSE res) % 256
    IN  [r |-> r, f |-> [CarryOut(f, res < 0 \/ base < 0) EXCEPT !.z = @ /\ r = 0]]

\* (new & 0x3F0) > 0x90 says that the sum, corrected in the low digit, exceeds 0x9F.
bcd_add(f, model, src, dst) ==
    LET lo == (src % 16) + (dst % 16) + One(f.x)
        tmp == src + dst + One(f.x)
        new == tmp + (IF lo > 9 THEN 6 ELSE 0)
        carry == new >= 160
        r == (IF carry THEN new + 96 ELSE new) % 256
    IN  [r |-> r, f |-> bcd_set_nvz(CarryOut(f, carry), model, r, ~Bit7(tmp) /\ Bit7(r))]
bcd_sub(f, model, src, dst) ==
    LET tmp == dst - src - One(f.x)
        lo == ((dst % 16) - (src % 16) - One(f.x)) < 0
        new == tmp - (IF lo THEN 6 ELSE 0)
        r == (IF tmp < 0 THEN new - 96 ELSE new) % 256
    IN  [r |-> r, f |-> bcd_set_nvz(CarryOut(f, new < 0), model, r, Bit7(tmp) /\ ~Bit7(r))]
\* newv_lo is a wrapped 16-bit number: negative means above 9.
exec_nbcd(f, model, dst) ==
    LET lo == 0 - (dst % 16) - One(f.x)
        tmp == lo - 16 * (dst \div 16)
        new == tmp - (IF lo < 0 THEN 6 ELSE 0)
        carry == (new % 512) - (new % 16) > 144
        r == (IF carry THEN new - 96 ELSE new) % 256
    IN  [r |-> r, f |-> bcd_set_nvz(CarryOut(f, carry), model, r, Bit7(tmp) /\ ~Bit7(r))]

\* PACK adjusts the word, then packs; UNPK unpacks, then adjusts.
exec_pack(src, adj) == LET val == (src + adj) % 65536 IN (((val \div 256) % 16) * 16) + (val % 16)
exec_unpk(src, adj) == ((((src \div 16) % 16) * 256) + (src % 16) + adj) % 65536
=============================================================================
