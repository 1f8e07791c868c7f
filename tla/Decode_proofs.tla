---------------------------- MODULE Decode_proofs ----------------------------
(***************************************************************************)
(* For every opcode word, every CPU model and every extension words: the   *)
(* batch's decode table, the trace recorder and loop mode take a word for  *)
(* what the dispatcher executes, an entry never outlives the model it was  *)
(* filled for, and a word executed without a snapshot has nothing to roll  *)
(* back.  The proof reads a word as its octal digits, which all the fields *)
(* are made of, then goes by the groups of the opcode map.                 *)
(***************************************************************************)
EXTENDS Decode, TLAPS

----------------------------------------------------------------------------
(* An opcode word is its octal digits, and a field is made of them. *)

\* An octal digit, the width of the register and mode fields.
Digit == 0 .. 7

\* A number is its last octal digit and the number before it.
LEMMA Octal ==
  ASSUME NEW x \in Nat
  PROVE  x \div 8 \in Nat /\ x % 8 \in Digit /\ x = 8 * (x \div 8) + (x % 8)
BY SMT DEF Digit

\* Eight times a number and a digit divide back into the number and the digit.
LEMMA By8 == ASSUME NEW q \in Nat, NEW r \in 0 .. 7
             PROVE  (8 * q + r) \div 8 = q /\ (8 * q + r) % 8 = r
BY SMT

\* The same for two digits: the fields that start at bit 6.
LEMMA By64 == ASSUME NEW q \in Nat, NEW r \in 0 .. 63
              PROVE  (64 * q + r) \div 64 = q /\ (64 * q + r) % 64 = r
BY SMT

\* Shifting a word right by 6, 9 and 12 bits is shifting it by 3 bits again and again.
LEMMA Chain == ASSUME NEW op \in Nat PROVE
  /\ op \div 64 = (op \div 8) \div 8
  /\ op \div 512 = (op \div 64) \div 8
  /\ op \div 4096 = (op \div 512) \div 8
BY SMT

\* The group, the upper register, the opmode, the mode and the lower register
\* are an opcode word's octal digits, and they make it up.
LEMMA Digits ==
  ASSUME NEW op \in Word
  PROVE  /\ Group(op) \in 0 .. 15 /\ Nine(op) \in Digit /\ OpMode(op) \in Digit
         /\ Mode(op) \in Digit /\ Reg(op) \in Digit
         /\ op = 4096 * Group(op) + 512 * Nine(op) + 64 * OpMode(op) + 8 * Mode(op) + Reg(op)
<1> DEFINE a == op \div 8
           b == op \div 64
           c == op \div 512
           g == op \div 4096
<1>0. op \in Nat /\ op <= 65535
  BY SMT DEF Word
<1>1. a \in Nat /\ Reg(op) \in Digit /\ op = 8 * a + Reg(op)
  BY <1>0, Octal, SMT DEF Reg
<1>2. b \in Nat /\ Mode(op) \in Digit /\ a = 8 * b + Mode(op)
  <2>1. b = a \div 8
    BY <1>0, Chain, SMT
  <2>2. Mode(op) = a % 8
    BY DEF Mode
  <2> HIDE DEF a, b
  <2> QED BY <1>1, <2>1, <2>2, Octal, SMT
<1>3. c \in Nat /\ OpMode(op) \in Digit /\ b = 8 * c + OpMode(op)
  <2>1. c = b \div 8
    BY <1>0, Chain, SMT
  <2>2. OpMode(op) = b % 8
    BY DEF OpMode
  <2> HIDE DEF b, c
  <2> QED BY <1>2, <2>1, <2>2, Octal, SMT
<1>4. g \in Nat /\ Nine(op) \in Digit /\ c = 8 * g + Nine(op)
  <2>1. g = c \div 8
    BY <1>0, Chain, SMT
  <2>2. Nine(op) = c % 8
    BY DEF Nine
  <2> HIDE DEF c, g
  <2> QED BY <1>3, <2>1, <2>2, Octal, SMT
<1>5. Group(op) = g
  BY DEF Group
<1> HIDE DEF a, b, c, g
<1>6. b = 64 * g + 8 * Nine(op) + OpMode(op)
  BY <1>3, <1>4, SMT DEF Digit
<1>7. op = 64 * b + 8 * Mode(op) + Reg(op)
  BY <1>1, <1>2, SMT DEF Digit
<1>8. op = 4096 * g + 512 * Nine(op) + 64 * OpMode(op) + 8 * Mode(op) + Reg(op)
  BY <1>1, <1>2, <1>3, <1>4, <1>6, <1>7, SMT DEF Digit
<1>9. g <= 15
  BY <1>0, <1>1, <1>2, <1>3, <1>4, <1>8, SMT DEF Digit
<1> QED BY <1>1, <1>2, <1>3, <1>4, <1>5, <1>8, <1>9, SMT

\* Division by two, for bit 8 of a word.
LEMMA By2 == ASSUME NEW q \in Nat, NEW r \in 0 .. 1
             PROVE  (2 * q + r) \div 2 = q /\ (2 * q + r) % 2 = r
BY SMT

\* Division by four, for the size bits.
LEMMA By4 == ASSUME NEW q \in Nat, NEW r \in 0 .. 3
             PROVE  (4 * q + r) \div 4 = q /\ (4 * q + r) % 4 = r
BY SMT

\* Division by sixteen, for the minor opcode.
LEMMA By16 == ASSUME NEW q \in Nat, NEW r \in 0 .. 15
              PROVE  (16 * q + r) \div 16 = q /\ (16 * q + r) % 16 = r
BY SMT

\* Division by thirty-two, for the field of EXG.
LEMMA By32 == ASSUME NEW q \in Nat, NEW r \in 0 .. 31
              PROVE  (32 * q + r) \div 32 = q /\ (32 * q + r) % 32 = r
BY SMT

\* Bit 8 of the word as a number.
High(op) == IF OpMode(op) >= 4 THEN 1 ELSE 0

\* Every other field of the dispatcher, and the prefixes it masks a word to, in
\* terms of the digits.
LEMMA Fields ==
  ASSUME NEW op \in Word
  PROVE  /\ High(op) \in 0 .. 1 /\ SizeBits(op) \in 0 .. 3
         /\ OpMode(op) = 4 * High(op) + SizeBits(op)
         /\ Bit8(op) <=> High(op) = 1
         /\ Sub(op) = 2 * Nine(op) + High(op)
         /\ OpMode(op) % 4 = SizeBits(op)
         /\ op \div 256 = 16 * Group(op) + Sub(op)
         /\ op % 256 = 64 * SizeBits(op) + 8 * Mode(op) + Reg(op)
         /\ ExchangeField(op) = 8 * SizeBits(op) + Mode(op)
         /\ op \div 64 = 64 * Group(op) + 8 * Nine(op) + OpMode(op)
         /\ (op \div 64) % 64 = 8 * Nine(op) + OpMode(op)
         /\ Top(op, 3) = op - Reg(op)
         /\ Top(op, 6) = op - 8 * Mode(op) - Reg(op)
<1> DEFINE g == Group(op)  n == Nine(op)  m == OpMode(op)  d == Mode(op)  r == Reg(op)
           h == High(op)   z == m - 4 * h
<1>0. /\ g \in Nat /\ n \in Nat /\ m \in 0 .. 7 /\ d \in 0 .. 7 /\ r \in 0 .. 7 /\ g <= 15 /\ n <= 7
      /\ op = 4096 * g + 512 * n + 64 * m + 8 * d + r
  BY Digits, SMT DEF Digit
<1>1. h \in 0 .. 1 /\ z \in 0 .. 3 /\ m = 4 * h + z
  BY <1>0, SMT DEF High
<1>2. op \div 64 = 64 * g + 8 * n + m
  <2> HIDE DEF g, n, m, d, r, h
  <2> DEFINE q == 64 * g + 8 * n + m  y == 8 * d + r
  <2>1. q \in Nat /\ y \in 0 .. 63 /\ op = 64 * q + y
    BY <1>0, SMT
  <2> HIDE DEF q, y
  <2>2. op \div 64 = q
    BY <2>1, By64, SMT
  <2> QED BY <2>2 DEF q
<1>3. (op \div 64) % 4 = z
  <2> HIDE DEF g, n, m, d, r, h
  <2> DEFINE q == 16 * g + 2 * n + h  y == op \div 64
  <2>1. q \in Nat /\ z \in 0 .. 3 /\ y = 4 * q + z
    BY <1>0, <1>1, <1>2, SMT
  <2> HIDE DEF q, y, z
  <2>2. y % 4 = z
    BY <2>1, By4, SMT
  <2> QED BY <2>2 DEF y
<1>4. SizeBits(op) = z
  BY <1>3 DEF SizeBits
<1>5. m % 4 = z
  <2> HIDE DEF g, n, m, d, r, h, z
  <2>1. h \in Nat
    BY <1>1, SMT
  <2> QED BY <1>1, <2>1, By4, SMT
<1>6. op \div 256 = 16 * g + 2 * n + h /\ op % 256 = 64 * z + 8 * d + r
  <2> HIDE DEF g, n, m, d, r, h
  <2> DEFINE q == 16 * g + 2 * n + h  y == 64 * z + 8 * d + r
  <2>1. q \in Nat /\ y \in 0 .. 255 /\ op = 256 * q + y
    BY <1>0, <1>1, SMT
  <2> HIDE DEF q, y
  <2>2. op \div 256 = q /\ op % 256 = y
    BY <2>1, SMT
  <2> QED BY <2>2 DEF q, y
<1>7. (op \div 256) % 16 = 2 * n + h /\ (op \div 256) % 2 = h
  <2> HIDE DEF g, n, m, d, r, h
  <2> DEFINE q == 8 * g + n  y == 2 * n + h  k == op \div 256
  <2>1. q \in Nat /\ y \in 0 .. 15 /\ k = 16 * g + y /\ k = 2 * q + h
    BY <1>0, <1>1, <1>6, SMT
  <2> HIDE DEF q, y, k, z
  <2>2. k % 16 = y
    BY <1>0, <2>1, By16, SMT
  <2>3. k % 2 = h
    BY <1>1, <2>1, By2, SMT
  <2> QED BY <2>2, <2>3 DEF y, k
<1>8. Bit8(op) <=> h = 1
  BY <1>7 DEF Bit8
<1>9. Sub(op) = 2 * n + h
  BY <1>7 DEF Sub
<1>10. ExchangeField(op) = 8 * z + d
  <2> HIDE DEF g, n, m, d, r, h
  <2> DEFINE p == 512 * g + 64 * n + 8 * m + d  q == 16 * g + 2 * n + h
             y == 8 * z + d
  <2>1. p \in Nat /\ op = 8 * p + r /\ q \in Nat /\ y \in 0 .. 31 /\ p = 32 * q + y
    BY <1>0, <1>1, SMT
  <2> HIDE DEF p, q, y
  <2>2. op \div 8 = p
    BY <1>0, <2>1, By8, SMT
  <2>3. p % 32 = y
    BY <2>1, By32, SMT
  <2> QED BY <2>2, <2>3 DEF y, ExchangeField
<1>11. (op \div 64) % 64 = 8 * n + m
  <2> HIDE DEF g, n, m, d, r, h
  <2> DEFINE y == 8 * n + m  k == op \div 64
  <2>1. y \in 0 .. 63 /\ k = 64 * g + y
    BY <1>0, <1>2, SMT
  <2> HIDE DEF y, k
  <2>2. k % 64 = y
    BY <1>0, <2>1, By64, SMT
  <2> QED BY <2>2 DEF y, k
<1>12. Top(op, 3) = op - r
  BY SMT DEF Top, Reg
<1>13. Top(op, 6) = op - 8 * d - r
  <2>1. op % 64 = 8 * d + r
    <3> HIDE DEF g, n, m, d, r, h
    <3> DEFINE q == 64 * g + 8 * n + m  y == 8 * d + r
    <3>1. q \in Nat /\ y \in 0 .. 63 /\ op = 64 * q + y
      BY <1>0, SMT
    <3> HIDE DEF q, y
    <3>2. op % 64 = y
      BY <3>1, SMT
    <3> QED BY <3>2 DEF y
  <2>2. Top(op, 6) = op - (op % 64)
    BY SMT DEF Top
  <2> HIDE DEF g, n, m, d, r, h
  <2> QED BY <1>0, <2>1, <2>2, SMT
<1>14. SizeBits(op) \in 0 .. 3 /\ OpMode(op) = 4 * High(op) + SizeBits(op) /\ High(op) \in 0 .. 1
  BY <1>1, <1>4, SMT
<1>15. Sub(op) = 2 * Nine(op) + High(op) /\ op \div 256 = 16 * Group(op) + Sub(op)
  BY <1>0, <1>1, <1>6, <1>9, SMT
<1>16. /\ OpMode(op) % 4 = SizeBits(op)
       /\ op % 256 = 64 * SizeBits(op) + 8 * Mode(op) + Reg(op)
       /\ ExchangeField(op) = 8 * SizeBits(op) + Mode(op)
  BY <1>4, <1>5, <1>6, <1>10, Zenon
<1> QED BY <1>2, <1>8, <1>11, <1>12, <1>13, <1>14, <1>15, <1>16, Zenon

\* The effective address of a word is its mode and its lower register.
LEMMA Ea ==
  ASSUME NEW op
  PROVE  EaOf(op)[1] = Mode(op) /\ EaOf(op)[2] = Reg(op) /\ EaOf(op) = <<Mode(op), Reg(op)>>
BY SMT DEF EaOf

----------------------------------------------------------------------------
(* The memory decoder agrees with the dispatcher, group by group. *)

\* Bit operations and immediates: DecodedMemOp::decode admits a word of group 0
\* only as what dispatch_group_0 executes; none of the 68010 and 68020 encodings
\* tested first (CAS, MOVES, CMP2, CALLM, RTM, MOVEP) is one of them.
LEMMA MemGroup0Agrees ==
  ASSUME NEW op \in Word, Group(op) = 0, NEW c, NEW s \in BOOLEAN, MemGroup0(op).kind = "Mem"
  PROVE  dispatch_group_0(c, s, op) = MemGroup0(op).ins
<1> DEFINE e == EaOf(op)
<1>0. /\ op = 512 * Nine(op) + 64 * OpMode(op) + 8 * Mode(op) + Reg(op)
      /\ Nine(op) \in 0 .. 7 /\ OpMode(op) \in 0 .. 7 /\ Mode(op) \in 0 .. 7 /\ Reg(op) \in 0 .. 7
      /\ High(op) \in 0 .. 1 /\ SizeBits(op) \in 0 .. 3
      /\ OpMode(op) = 4 * High(op) + SizeBits(op)
      /\ Bit8(op) <=> High(op) = 1
      /\ Sub(op) = 2 * Nine(op) + High(op)
      /\ op \div 256 = Sub(op)
      /\ op \div 64 = 8 * Nine(op) + OpMode(op)
      /\ (op \div 64) % 64 = 8 * Nine(op) + OpMode(op)
      /\ e[1] = Mode(op) /\ e[2] = Reg(op) /\ e = <<Mode(op), Reg(op)>>
  BY Digits, Fields, Ea, SMT DEF Digit
<1> HIDE DEF e
<1>1. CASE Bit8(op)
  <2>1. FastStore(e) /\ MemGroup0(op).ins = Ins(BitName[SizeBits(op) + 1], 1, Dn(Nine(op)), e)
    BY <1>1, SMT DEF MemGroup0, MemIf, Complex, Mem, e
  <2>2. Mode(op) >= 2 /\ ea_data_alterable(e) /\ DataEa(e) /\ e # Imm
    BY <1>0, <2>1, SMT DEF FastStore, is_memory, is_data_alterable, EaDecodes, Imm, ea_data_alterable, DataEa
  <2>3. dispatch_group_0(c, s, op) = BitOperation(op)
    BY <1>0, <1>1, <2>2, SMT DEF dispatch_group_0, IsCas, IsMoves, IsModule, IsCmp2, IsMovep
  <2>4. BitOperation(op) = Ins(BitName[SizeBits(op) + 1], 1, Dn(Nine(op)), e)
    BY <1>0, <1>1, <2>2, SMT DEF BitOperation, Legal, e
  <2> QED BY <2>1, <2>3, <2>4
<1>2. CASE ~Bit8(op) /\ Nine(op) = 4
  <2>1. /\ Mode(op) = 0 => MemGroup0(op).ins = Ins(BitName[SizeBits(op) + 1], 4, Imm16, e)
        /\ Mode(op) # 0 => FastStore(e) /\ MemGroup0(op).ins = Ins(BitName[SizeBits(op) + 1], 1, Imm16, e)
    BY <1>0, <1>2, SMT DEF MemGroup0, MemIf, Complex, Mem, e
  <2>2. ea_data_alterable(e) /\ DataEa(e) /\ e # Imm
    BY <1>0, <2>1, SMT DEF FastStore, is_memory, is_data_alterable, EaDecodes, Imm, ea_data_alterable, DataEa
  <2>3. dispatch_group_0(c, s, op) = BitOperation(op)
    BY <1>0, <1>2, <2>2, SMT DEF dispatch_group_0, IsCas, IsMoves, IsModule, IsCmp2, IsMovep
  <2>4. BitOperation(op) = Ins(BitName[SizeBits(op) + 1], IF Mode(op) = 0 THEN 4 ELSE 1, Imm16, e)
    BY <1>0, <1>2, <2>2, SMT DEF BitOperation, Legal, e
  <2> QED BY <2>1, <2>3, <2>4
<1>3. CASE ~Bit8(op) /\ Nine(op) # 4
  <2>1. /\ SizeBits(op) # 3 /\ Nine(op) \in {0, 1, 2, 3, 5, 6} /\ is_data_alterable(e)
        /\ MemGroup0(op).ins = Ins(ImmediateName[2 * Nine(op)], decode_size_00(SizeBits(op)), Imm, e)
    BY <1>0, <1>3, SMT DEF MemGroup0, MemIf, Complex, Mem, e
  <2>2. ea_data_alterable(e) /\ ~(e = Imm) /\ e \notin {<<7, 2>>, <<7, 3>>}
    BY <1>0, <2>1, SMT DEF is_data_alterable, EaDecodes, Imm, ea_data_alterable
  <2>3. dispatch_group_0(c, s, op) = ImmediateAlu(c, s, op) /\ Sub(op) = 2 * Nine(op)
    BY <1>0, <1>3, <2>1, SMT DEF dispatch_group_0, IsCas, IsMoves, IsModule, IsCmp2, IsMovep
  <2>4. ImmediateAlu(c, s, op) = Ins(ImmediateName[2 * Nine(op)], decode_size_00(SizeBits(op)), Imm, e)
    BY <2>2, <2>3, Zenon DEF ImmediateAlu, Legal, e
  <2> QED BY <2>1, <2>3, <2>4
<1> QED BY <1>1, <1>2, <1>3

\* The facts about the fields that most proofs need, with plain ranges.
LEMMA Shape ==
  ASSUME NEW op \in Word
  PROVE  /\ op = 4096 * Group(op) + 512 * Nine(op) + 64 * OpMode(op) + 8 * Mode(op) + Reg(op)
         /\ Group(op) \in 0 .. 15
         /\ Nine(op) \in 0 .. 7 /\ OpMode(op) \in 0 .. 7 /\ Mode(op) \in 0 .. 7 /\ Reg(op) \in 0 .. 7
         /\ High(op) \in 0 .. 1 /\ SizeBits(op) \in 0 .. 3
         /\ OpMode(op) = 4 * High(op) + SizeBits(op)
         /\ Bit8(op) <=> High(op) = 1
         /\ Sub(op) = 2 * Nine(op) + High(op)
         /\ EaOf(op)[1] = Mode(op) /\ EaOf(op)[2] = Reg(op) /\ EaOf(op) = <<Mode(op), Reg(op)>>
BY Digits, Fields, Ea, SMT DEF Digit

\* No word outside the encodings that group 4 tests first is decided there.
LEMMA Early ==
  ASSUME NEW op \in Word, NEW c, NEW s, OpMode(op) \notin {4, 5, 6}, op - Reg(op) # 18440,
         op - 8 * Mode(op) - Reg(op) \notin {19456, 19520, 16576, 17088}
  PROVE  Group4Early(c, s, op) = NotDecoded
BY Fields, SMT DEF Group4Early

\* No word outside the listed ones is decided by the match on whole words.
LEMMA Words4 ==
  ASSUME NEW op, NEW c, NEW s, NEW x,
         op \notin {20080, 20081, 19144, 19148, 20082, 20083, 20084, 20085, 20086, 20087, 20090, 20091}
  PROVE  Group4Words(c, s, op, x) = NotDecoded
BY SMT DEF Group4Words

\* The prefix of TRAP, without its vector.
LEMMA TopFour ==
  ASSUME NEW op \in Nat
  PROVE  Top(op, 4) = op - Reg(op) - 8 * (Mode(op) % 2)
<1> DEFINE a == op \div 8
<1>1. op = 8 * a + Reg(op) /\ a \in Nat /\ Reg(op) \in 0 .. 7
  BY SMT DEF Reg
<1>2. a % 2 = Mode(op) % 2
  BY SMT DEF Mode
<1>3. op % 16 = 8 * (a % 2) + Reg(op)
  BY SMT DEF Reg
<1>4. Top(op, 4) = op - (op % 16)
  BY SMT DEF Top
<1> DEFINE y == op % 16  k == Mode(op) % 2  t == Top(op, 4)
<1>5. k \in 0 .. 1
  BY SMT DEF Mode
<1>6. y = 8 * k + Reg(op) /\ t = op - y
  BY <1>2, <1>3, <1>4, Zenon
<1> HIDE DEF a, y, k, t
<1>7. t = op - Reg(op) - 8 * k
  BY <1>1, <1>5, <1>6, SMT
<1> QED BY <1>7 DEF t, k

\* Control, MOVEM, LEA, PEA and the unary operations on memory: DecodedMemOp::decode
\* admits a word of group 4 only as what dispatch_group_4 executes.
LEMMA MemGroup4Agrees ==
  ASSUME NEW op \in Word, Group(op) = 4, NEW c, NEW s \in BOOLEAN, NEW x, MemGroup4(op).kind = "Mem"
  PROVE  dispatch_group_4(c, s, op, x) = MemGroup4(op).ins
<1> DEFINE e == EaOf(op)  t3 == op - Reg(op)  t6 == op - 8 * Mode(op) - Reg(op)
<1>0. /\ op = 16384 + 512 * Nine(op) + 64 * OpMode(op) + 8 * Mode(op) + Reg(op)
      /\ Nine(op) \in 0 .. 7 /\ OpMode(op) \in 0 .. 7 /\ Mode(op) \in 0 .. 7 /\ Reg(op) \in 0 .. 7
      /\ High(op) \in 0 .. 1 /\ SizeBits(op) \in 0 .. 3
      /\ OpMode(op) = 4 * High(op) + SizeBits(op)
      /\ Sub(op) = 2 * Nine(op) + High(op)
      /\ e[1] = Mode(op) /\ e[2] = Reg(op) /\ e = <<Mode(op), Reg(op)>>
      /\ Top(op, 3) = t3 /\ Top(op, 6) = t6
  BY Shape, Fields, SMT
<1>1. CASE op = 20085
  <2>1. MemGroup4(op) = Mem(Bare("RTS"))
    BY <1>0, <1>1, SMT DEF MemGroup4
  <2>2. Group4Early(c, s, op) = NotDecoded
    BY <1>0, <1>1, Early, SMT
  <2>3. Group4Words(c, s, op, x) = Bare("RTS")
    BY <1>1, SMT DEF Group4Words
  <2> QED BY <2>1, <2>2, <2>3, SMT DEF dispatch_group_4, Mem, Bare, NotDecoded, Ins
<1>2. CASE t3 \in {19608, 19672, 18656}
  <2>1. /\ t3 = 19608 => MemGroup4(op) = Mem(Ins("MOVEM_to_registers", 2, Imm16, <<3, Reg(op)>>))
        /\ t3 = 19672 => MemGroup4(op) = Mem(Ins("MOVEM_to_registers", 4, Imm16, <<3, Reg(op)>>))
        /\ t3 = 18656 => MemGroup4(op) = Mem(Ins("MOVEM_to_memory", 4, Imm16, <<4, Reg(op)>>))
    BY <1>0, <1>2, SMT DEF MemGroup4
  <2>2. Group4Early(c, s, op) = NotDecoded
    BY <1>0, <1>2, Early, SMT
  <2>3. Group4Words(c, s, op, x) = NotDecoded
    BY <1>0, <1>2, Words4, SMT
  <2>4. Sub(op) \in {12, 8} /\ Mode(op) \in {3, 4} /\ Group4Misc(c, op) = NotDecoded
    BY <1>0, <1>2, SMT DEF Group4Misc
  <2>5. dispatch_group_4(c, s, op, x) = Group4Control(s, op)
    BY <2>2, <2>3, <2>4, SMT DEF dispatch_group_4
  <2>6. /\ t3 = 19608 => Group4Control(s, op) = Ins("MOVEM_to_registers", 2, Imm16, e)
        /\ t3 = 19672 => Group4Control(s, op) = Ins("MOVEM_to_registers", 4, Imm16, e)
        /\ t3 = 18656 => Group4Control(s, op) = Ins("MOVEM_to_memory", 4, Imm16, e)
    BY <1>0, <1>2, <2>4, SMT DEF Group4Control, Legal
  <2> QED BY <1>0, <1>2, <2>1, <2>5, <2>6, SMT DEF Mem
<1>3. CASE (t3 = 20048 \/ t3 = 20056) /\ Reg(op) # 7
  <2>1. /\ t3 = 20048 => MemGroup4(op) = Mem(Ins("LINK", 2, Imm16, An(Reg(op))))
        /\ t3 = 20056 => MemGroup4(op) = Mem(Ins("UNLK", 4, NoOpnd, An(Reg(op))))
    BY <1>0, <1>3, SMT DEF MemGroup4
  <2>2. Group4Early(c, s, op) = NotDecoded
    BY <1>0, <1>3, Early, SMT
  <2>3. Group4Words(c, s, op, x) = NotDecoded
    BY <1>0, <1>3, Words4, SMT
  <2>4. Sub(op) = 14 /\ Group4Misc(c, op) = NotDecoded
    BY <1>0, <1>3, SMT DEF Group4Misc
  <2>5. dispatch_group_4(c, s, op, x) = Group4Control(s, op)
    BY <2>2, <2>3, <2>4, SMT DEF dispatch_group_4
  <2>6. Top(op, 4) = op - Reg(op) - 8 * (Mode(op) % 2)
    BY <1>0, TopFour, SMT
  <2>7. /\ t3 = 20048 => Group4Control(s, op) = Ins("LINK", 2, Imm16, An(Reg(op)))
        /\ t3 = 20056 => Group4Control(s, op) = Ins("UNLK", 4, NoOpnd, An(Reg(op)))
    BY <1>0, <1>3, <2>4, <2>6, SMT DEF Group4Control, Legal
  <2> QED BY <1>0, <1>3, <2>1, <2>5, <2>7, SMT DEF Mem
<1>4. CASE OpMode(op) = 7
  <2>1. is_control(e) /\ MemGroup4(op) = Mem(Ins("LEA", 4, e, An(Nine(op))))
    BY <1>0, <1>4, SMT DEF MemGroup4, MemIf, Complex
  <2>2. ea_control(e) /\ Mode(op) >= 2
    BY <1>0, <2>1, SMT DEF is_control, ea_control, EaDecodes, Imm
  <2>3. Group4Early(c, s, op) = NotDecoded
    BY <1>0, <1>4, Early, SMT
  <2>4. Group4Words(c, s, op, x) = NotDecoded
    BY <1>0, <1>4, Words4, SMT
  <2>5. Sub(op) \notin {0, 2, 4, 6} /\ Group4Misc(c, op) = NotDecoded
    BY <1>0, <1>4, <2>2, SMT DEF Group4Misc
  <2>6. dispatch_group_4(c, s, op, x) = Group4Control(s, op)
    BY <2>3, <2>4, <2>5, SMT DEF dispatch_group_4
  <2>7. Top(op, 4) = op - Reg(op) - 8 * (Mode(op) % 2)
    BY <1>0, TopFour, SMT
  <2>8. Group4Control(s, op) = Ins("LEA", 4, e, An(Nine(op)))
    BY <1>0, <1>4, <2>2, <2>7, SMT DEF Group4Control, Legal
  <2> QED BY <2>1, <2>6, <2>8, SMT DEF Mem
<1>5. CASE t6 \in {18496, 20096, 20160}
  <2>1. /\ is_control(e)
        /\ t6 = 18496 => MemGroup4(op) = Mem(Ins("PEA", 4, e, NoOpnd))
        /\ t6 = 20096 => MemGroup4(op) = Mem(Ins("JSR", 4, e, NoOpnd))
        /\ t6 = 20160 => MemGroup4(op) = Mem(Ins("JMP", 4, e, NoOpnd))
    BY <1>0, <1>5, SMT DEF MemGroup4, MemIf, Complex
  <2>2. ea_control(e) /\ Mode(op) >= 2
    BY <1>0, <2>1, SMT DEF is_control, ea_control, EaDecodes, Imm
  <2>3. Group4Early(c, s, op) = NotDecoded
    BY <1>0, <1>5, Early, SMT
  <2>4. Group4Words(c, s, op, x) = NotDecoded
    BY <1>0, <1>5, Words4, SMT
  <2>5. Sub(op) \notin {0, 2, 4, 6} /\ Group4Misc(c, op) = NotDecoded
    BY <1>0, <1>5, <2>2, SMT DEF Group4Misc
  <2>6. dispatch_group_4(c, s, op, x) = Group4Control(s, op)
    BY <2>3, <2>4, <2>5, SMT DEF dispatch_group_4
  <2>7. Top(op, 4) = op - Reg(op) - 8 * (Mode(op) % 2)
    BY <1>0, TopFour, SMT
  <2>8. /\ t6 = 18496 => Group4Control(s, op) = Ins("PEA", 4, e, NoOpnd)
        /\ t6 = 20096 => Group4Control(s, op) = Ins("JSR", 4, e, NoOpnd)
        /\ t6 = 20160 => Group4Control(s, op) = Ins("JMP", 4, e, NoOpnd)
    BY <1>0, <1>5, <2>2, <2>7, SMT DEF Group4Control, Legal
  <2> QED BY <1>5, <2>1, <2>6, <2>8, SMT DEF Mem
<1>6. CASE /\ op # 20085 /\ t3 \notin {19608, 19672, 18656} /\ OpMode(op) # 7
           /\ ~((t3 = 20048 \/ t3 = 20056) /\ Reg(op) # 7) /\ t6 \notin {18496, 20096, 20160}
  <2>1. /\ SizeBits(op) # 3 /\ Sub(op) \in {2, 4, 6, 10} /\ FastStore(e)
        /\ MemGroup4(op) = Mem(Ins(IF Sub(op) = 10 THEN "TST" ELSE UnaryName[Sub(op)],
                                   decode_size_00(SizeBits(op)), NoOpnd, e))
    BY <1>0, <1>6, SMT DEF MemGroup4, MemIf, Complex
  <2>2. ea_data_alterable(e) /\ SourceEa(e, decode_size_00(SizeBits(op)))
    BY <1>0, <2>1, SMT DEF FastStore, is_memory, is_data_alterable, ea_data_alterable, EaDecodes, SourceEa, Imm
  <2>3. Group4Early(c, s, op) = NotDecoded
    BY <1>0, <2>1, Early, SMT
  <2>4. Group4Words(c, s, op, x) = NotDecoded
    BY <1>0, <2>1, Words4, SMT
  <2>5. CASE Sub(op) = 10
    <3>1. Group4Misc(c, op) = Ins("TST", decode_size_00(SizeBits(op)), NoOpnd, e)
      BY <1>0, <2>1, <2>2, <2>5, SMT DEF Group4Misc, Legal
    <3>2. dispatch_group_4(c, s, op, x) = Group4Misc(c, op)
      BY <2>3, <2>4, <2>5, <3>1, SMT DEF dispatch_group_4, NotDecoded, Bare, Ins
    <3> QED BY <2>1, <2>5, <3>1, <3>2, SMT DEF Mem
  <2>6. CASE Sub(op) # 10
    <3>1. Group4Unary(s, op) = Ins(UnaryName[Sub(op)], decode_size_00(SizeBits(op)), NoOpnd, e)
      BY <2>1, <2>2, SMT DEF Group4Unary, Legal
    <3>2. dispatch_group_4(c, s, op, x) = Group4Unary(s, op)
      BY <2>1, <2>3, <2>4, <2>6, SMT DEF dispatch_group_4
    <3> QED BY <2>1, <2>6, <3>1, <3>2, SMT DEF Mem
  <2> QED BY <2>5, <2>6
<1> QED BY <1>1, <1>2, <1>3, <1>4, <1>5, <1>6, SMT

\* ADDQ, SUBQ and DBcc: the memory decoder answers as dispatch_group_5.
LEMMA MemGroup5Agrees ==
  ASSUME NEW op \in Word, Group(op) = 5, NEW c, MemGroup5(op).kind = "Mem"
  PROVE  dispatch_group_5(c, op) = MemGroup5(op).ins
<1> DEFINE e == EaOf(op)
<1>1. CASE SizeBits(op) = 3
  <2>1. Mode(op) = 1 /\ MemGroup5(op) = Mem(Ins("DBcc", 2, CondReg(Sub(op), Reg(op)), Imm16))
    BY <1>1, SMT DEF MemGroup5, MemIf, Complex
  <2>2. dispatch_group_5(c, op) = Ins("DBcc", 2, CondReg(Sub(op), Reg(op)), Imm16)
    BY <1>1, <2>1, Shape, SMT DEF dispatch_group_5
  <2> QED BY <2>1, <2>2, SMT DEF Mem
<1>2. CASE SizeBits(op) # 3
  <2>1. /\ FastStore(e)
        /\ MemGroup5(op) = Mem(Ins(IF Bit8(op) THEN "SUBQ" ELSE "ADDQ",
                                   decode_size_00(SizeBits(op)), QuickData(op), e))
    BY <1>2, SMT DEF MemGroup5, MemIf, Complex
  <2>2. e[1] # 1 /\ ea_data_alterable(e)
    BY <2>1, Shape, SMT DEF FastStore, is_memory, is_data_alterable, ea_data_alterable, EaDecodes, Imm
  <2> QED BY <1>2, <2>1, <2>2, SMT DEF dispatch_group_5, Legal, Mem
<1> QED BY <1>1, <1>2

\* Branches: the memory decoder answers as dispatch_group_6, and leaves the long
\* BSR to the dispatcher.
LEMMA MemGroup6Agrees ==
  ASSUME NEW op \in Word, NEW c, MemGroup6(op).kind = "Mem"
  PROVE  dispatch_group_6(c, op) = MemGroup6(op).ins
<1> DEFINE d == op % 256
<1> HIDE DEF d
<1>1. CASE Sub(op) = 1
  <2>1. d # 255 /\ MemGroup6(op) = Mem(Ins("BSR", 0, Cond(1), IF d = 0 THEN Imm16 ELSE Disp8(d)))
    BY <1>1, SMT DEF MemGroup6, MemIf, Complex, d
  <2>2. dispatch_group_6(c, op) = Ins("BSR", 0, Cond(1), IF d = 0 THEN Imm16 ELSE Disp8(d))
    BY <1>1, <2>1, SMT DEF dispatch_group_6, d
  <2> QED BY <2>1, <2>2, SMT DEF Mem
<1>2. CASE Sub(op) # 1
  <2>1. d = 0 /\ MemGroup6(op) = Mem(Ins("Bcc", 0, Cond(Sub(op)), Imm16))
    BY <1>2, SMT DEF MemGroup6, MemIf, Complex, d
  <2>2. dispatch_group_6(c, op) = Ins("Bcc", 0, Cond(Sub(op)), Imm16)
    BY <1>2, <2>1, SMT DEF dispatch_group_6, d
  <2> QED BY <2>1, <2>2, SMT DEF Mem
<1> QED BY <1>1, <1>2

\* MOVE and MOVEA: the memory decoder answers as dispatch_move.
LEMMA MemMoveAgrees ==
  ASSUME NEW op \in Word, NEW sz \in {1, 2, 4}, MemMove(op, sz).kind = "Mem"
  PROVE  dispatch_move(op, sz) = MemMove(op, sz).ins
<1> DEFINE src == EaOf(op)  dst == DstEa(op)
<1>0. /\ Nine(op) \in 0 .. 7 /\ OpMode(op) \in 0 .. 7 /\ Mode(op) \in 0 .. 7 /\ Reg(op) \in 0 .. 7
      /\ src[1] = Mode(op) /\ src[2] = Reg(op)
  BY Shape, SMT
<1>1. dst[1] = OpMode(op) /\ dst[2] = Nine(op) /\ dst = <<OpMode(op), Nine(op)>>
  BY SMT DEF DstEa
<1>2. /\ EaDecodes(src) /\ EaDecodes(dst)
      /\ ~(sz = 1 /\ (src[1] = 1 \/ dst[1] = 1))
      /\ is_data_alterable(dst) \/ dst[1] = 1
      /\ MemMove(op, sz).ins = Ins(IF dst[1] = 1 THEN "MOVEA" ELSE "MOVE", sz, src, dst)
  BY SMT DEF MemMove, MemIf, Complex, Mem
<1>3. ~(dst[1] = 7 /\ dst[2] > 1)
  <2> HIDE DEF src
  <2> SUFFICES ASSUME dst[1] = 7, dst[2] > 1 PROVE FALSE
    OBVIOUS
  <2>1. dst[2] \in {2, 3, 4}
    BY <1>0, <1>1, <1>2, SMT DEF EaDecodes
  <2>2. dst \in {<<7, 2>>, <<7, 3>>, <<7, 4>>}
    BY <1>1, <2>1, SMT
  <2> QED BY <1>2, <2>2, SMT DEF is_data_alterable
<1> QED BY <1>2, <1>3, SMT DEF dispatch_move, Legal

\* The two-operand instructions: the memory decoder answers as the five groups.
LEMMA MemAluAgrees ==
  ASSUME NEW op \in Word, MemAlu(op).kind = "Mem", NEW c
  PROVE  /\ Group(op) = 8 => dispatch_group_8(c, op) = MemAlu(op).ins
         /\ Group(op) = 9 => dispatch_group_9(op) = MemAlu(op).ins
         /\ Group(op) = 11 => dispatch_group_b(op) = MemAlu(op).ins
         /\ Group(op) = 12 => dispatch_group_c(op) = MemAlu(op).ins
         /\ Group(op) = 13 => dispatch_group_d(op) = MemAlu(op).ins
<1> DEFINE e == EaOf(op)  g == Group(op)  m == OpMode(op)  z == SizeBits(op)
           sz == decode_size_00(z)  r == Dn(Nine(op))
<1>0. /\ Nine(op) \in 0 .. 7 /\ m \in 0 .. 7 /\ Mode(op) \in 0 .. 7 /\ Reg(op) \in 0 .. 7
      /\ e[1] = Mode(op) /\ e[2] = Reg(op) /\ e = <<Mode(op), Reg(op)>>
      /\ z \in 0 .. 3 /\ High(op) \in 0 .. 1 /\ m = 4 * High(op) + z
  BY Shape, SMT
<1>a. m % 4 = z /\ ExchangeField(op) = 8 * z + Mode(op)
  BY Fields, Zenon
<1>1. EaDecodes(e)
  BY SMT DEF MemAlu, Complex
<1>s. sz \in {1, 2, 4} /\ (z = 0 => sz = 1) /\ (z \in {1, 2} => sz # 1)
  BY <1>0, SMT DEF decode_size_00
<1>2. CASE m \in {3, 7}
  <2>1. /\ g \in {9, 11, 13}
        /\ MemAlu(op).ins = Ins(AddrName[g], WordOrLong(op), e, An(Nine(op)))
    BY <1>1, <1>2, SMT DEF MemAlu, Complex, Mem
  <2>2. AddrName[9] = "SUBA" /\ AddrName[11] = "CMPA" /\ AddrName[13] = "ADDA"
    BY SMT DEF AddrName
  <2> HIDE DEF e, g, sz, r
  <2>3. g \notin {8, 12}
    BY <2>1, SMT
  <2>4. dispatch_group_b(op) = Ins("CMPA", WordOrLong(op), e, An(Nine(op)))
    BY <1>0, <1>1, <1>2, SMT DEF dispatch_group_b, Legal, e
  <2>5. \A n, na, nx : AddSub(op, n, na, nx) = Ins(na, WordOrLong(op), e, An(Nine(op)))
    BY <1>0, <1>1, <1>2, SMT DEF AddSub, Legal, e
  <2> QED BY <2>1, <2>2, <2>3, <2>4, <2>5, SMT DEF dispatch_group_9, dispatch_group_d, g
<1>n. AluName[8] = "OR" /\ AluName[9] = "SUB" /\ AluName[11] = "CMP" /\ AluName[12] = "AND" /\ AluName[13] = "ADD"
  BY SMT DEF AluName
<1>3. CASE m <= 2
  <2>1. /\ ~(e[1] = 1 /\ (sz = 1 \/ g \in {8, 12}))
        /\ MemAlu(op).ins = Ins(AluName[g], sz, e, r)
    BY <1>0, <1>a, <1>1, <1>3, SMT DEF MemAlu, Complex, Mem, MemIf
  <2> HIDE DEF g, sz, r
  <2>2. SourceEa(e, sz)
    BY <1>1, <2>1, SMT DEF SourceEa
  <2>3. g \in {8, 12} => DataEa(e)
    BY <1>1, <2>1, SMT DEF DataEa
  <2>4. g = 8 => dispatch_group_8(c, op) = Ins("OR", sz, e, r)
    BY <1>0, <1>a, <1>3, <2>3, SMT DEF dispatch_group_8, Legal, sz, r
  <2>5. g = 12 => dispatch_group_c(op) = Ins("AND", sz, e, r)
    BY <1>0, <1>a, <1>3, <2>3, SMT DEF dispatch_group_c, Legal, sz, r
  <2>6. dispatch_group_b(op) = Ins("CMP", sz, e, r)
    BY <1>0, <1>a, <1>3, <2>2, SMT DEF dispatch_group_b, Legal, sz, r
  <2>7. \A n, na, nx : AddSub(op, n, na, nx) = Ins(n, sz, e, r)
    BY <1>0, <1>a, <1>3, <2>2, SMT DEF AddSub, Legal, sz, r
  <2> QED BY <1>n, <2>1, <2>4, <2>5, <2>6, <2>7, SMT DEF dispatch_group_9, dispatch_group_d, g
<1>4. CASE m \in 4 .. 6 /\ g = 11 /\ e[1] = 1
  <2>1. MemAlu(op).ins = Ins("CMPM", sz, <<3, e[2]>>, <<3, Nine(op)>>)
    BY <1>0, <1>a, <1>1, <1>4, SMT DEF MemAlu, Complex, Mem, MemIf
  <2>2. dispatch_group_b(op) = Ins("CMPM", sz, <<3, Reg(op)>>, <<3, Nine(op)>>)
    BY <1>0, <1>a, <1>4, SMT DEF dispatch_group_b
  <2> QED BY <1>0, <1>4, <2>1, <2>2, SMT
<1>5. CASE m \in 4 .. 6 /\ ~(g = 11 /\ e[1] = 1)
  <2>1. /\ FastStore(e)
        /\ MemAlu(op).ins = Ins(IF g = 11 THEN "EOR" ELSE AluName[g], sz, r, e)
    BY <1>0, <1>a, <1>1, <1>5, SMT DEF MemAlu, Complex, Mem, MemIf
  <2>2. Mode(op) >= 2 /\ ea_data_alterable(e) /\ MemoryAlterable(e)
    BY <1>0, <2>1, SMT DEF FastStore, is_memory, is_data_alterable, ea_data_alterable, EaDecodes, Imm, MemoryAlterable
  <2> HIDE DEF g, sz, r
  <2>4. dispatch_group_8(c, op) = Ins("OR", sz, r, e)
    BY <1>0, <1>a, <1>5, <2>2, SMT DEF dispatch_group_8, Legal, sz, r
  <2>5. g = 12 => dispatch_group_c(op) = Ins("AND", sz, r, e)
    <3>1. ExchangeField(op) \notin {8, 9, 17}
      BY <1>0, <1>a, <2>2, SMT
    <3> QED BY <1>0, <1>a, <1>5, <2>2, <3>1, SMT DEF dispatch_group_c, Legal, sz, r
  <2>6. g = 11 => dispatch_group_b(op) = Ins("EOR", sz, r, e)
    BY <1>0, <1>a, <1>5, <2>2, SMT DEF dispatch_group_b, Legal, sz, r
  <2>7. \A n, na, nx : AddSub(op, n, na, nx) = Ins(n, sz, r, e)
    BY <1>0, <1>a, <1>5, <2>2, SMT DEF AddSub, Legal, sz, r
  <2> QED BY <1>n, <2>1, <2>4, <2>5, <2>6, <2>7, SMT DEF dispatch_group_9, dispatch_group_d, g
<1> QED BY <1>0, <1>2, <1>3, <1>4, <1>5, SMT

\* A word that DecodedMemOp::decode admits is the instruction that the dispatcher
\* executes, on every model, in both privilege states.
LEMMA MemAgrees ==
  ASSUME NEW op \in Word, MemDecode(op).kind = "Mem", NEW c, NEW s \in BOOLEAN, NEW x
  PROVE  dispatch_instruction(c, s, op, x) = MemDecode(op).ins
<1> DEFINE g == Group(op)
<1>0. g \in 0 .. 15
  BY Shape, SMT
<1> HIDE DEF g
<1>1. CASE g = 0
  <2>1. MemDecode(op) = MemGroup0(op)
    BY <1>1, SMT DEF MemDecode, g
  <2>2. dispatch_instruction(c, s, op, x) = dispatch_group_0(c, s, op)
    BY <1>1, SMT DEF dispatch_instruction, g
  <2> QED BY <1>1, <2>1, <2>2, MemGroup0Agrees, Zenon DEF g
<1>2. CASE g \in {1, 2, 3}
  <2> DEFINE sz == IF g = 1 THEN 1 ELSE IF g = 2 THEN 4 ELSE 2
  <2>1. MemDecode(op) = MemMove(op, sz)
    BY <1>2, SMT DEF MemDecode, g
  <2>2. dispatch_instruction(c, s, op, x) = dispatch_move(op, sz)
    BY <1>2, SMT DEF dispatch_instruction, g
  <2>3. sz \in {1, 2, 4}
    BY <1>2, SMT
  <2> HIDE DEF sz
  <2> QED BY <2>1, <2>2, <2>3, MemMoveAgrees, Zenon
<1>3. CASE g = 4
  <2>1. MemDecode(op) = MemGroup4(op)
    BY <1>3, SMT DEF MemDecode, g
  <2>2. dispatch_instruction(c, s, op, x) = dispatch_group_4(c, s, op, x)
    BY <1>3, SMT DEF dispatch_instruction, g
  <2> QED BY <1>3, <2>1, <2>2, MemGroup4Agrees, Zenon DEF g
<1>4. CASE g = 5
  <2>1. MemDecode(op) = MemGroup5(op)
    BY <1>4, SMT DEF MemDecode, g
  <2>2. dispatch_instruction(c, s, op, x) = dispatch_group_5(c, op)
    BY <1>4, SMT DEF dispatch_instruction, g
  <2> QED BY <1>4, <2>1, <2>2, MemGroup5Agrees, Zenon DEF g
<1>5. CASE g = 6
  <2>1. MemDecode(op) = MemGroup6(op)
    BY <1>5, SMT DEF MemDecode, g
  <2>2. dispatch_instruction(c, s, op, x) = dispatch_group_6(c, op)
    BY <1>5, SMT DEF dispatch_instruction, g
  <2> QED BY <1>5, <2>1, <2>2, MemGroup6Agrees, Zenon DEF g
<1>6. CASE g \in {8, 9, 11, 12, 13}
  <2>1. MemDecode(op) = MemAlu(op)
    BY <1>6, SMT DEF MemDecode, g
  <2>2. MemAlu(op).kind = "Mem"
    BY <2>1
  <2>3. /\ g = 8 => dispatch_group_8(c, op) = MemAlu(op).ins
        /\ g = 9 => dispatch_group_9(op) = MemAlu(op).ins
        /\ g = 11 => dispatch_group_b(op) = MemAlu(op).ins
        /\ g = 12 => dispatch_group_c(op) = MemAlu(op).ins
        /\ g = 13 => dispatch_group_d(op) = MemAlu(op).ins
    BY <2>2, MemAluAgrees, Zenon DEF g
  <2> QED BY <1>6, <2>1, <2>3, SMT DEF dispatch_instruction, g
<1>7. g \in {0, 1, 2, 3, 4, 5, 6, 8, 9, 11, 12, 13}
  BY <1>0, SMT DEF MemDecode, Complex, g
<1> QED BY <1>1, <1>2, <1>3, <1>4, <1>5, <1>6, <1>7, SMT

----------------------------------------------------------------------------
(* The register decoder agrees with the dispatcher. *)

\* DecodedSimpleOp::decode, group by group outside group 4.
LEMMA SimpleGroups ==
  ASSUME NEW op \in Word, NEW d, Group(op) # 4
  PROVE  SimpleDecode(d, op) =
    CASE Group(op) = 0 -> IF Bit8(op) /\ EaOf(op)[1] = 0
                          THEN Simple(Ins(BitName[SizeBits(op) + 1], 4, Dn(Nine(op)), EaOf(op))) ELSE Complex
      [] Group(op) = 1 -> decode_move_reg(op, 1)
      [] Group(op) = 2 -> decode_move_reg(op, 4)
      [] Group(op) = 3 -> decode_move_reg(op, 2)
      [] Group(op) = 5 ->
           IF SizeBits(op) = 3
           THEN IF EaOf(op)[1] = 0 THEN Simple(Ins("Scc", 1, Cond(Sub(op)), EaOf(op))) ELSE Complex
           ELSE IF IsDirect(EaOf(op))
           THEN Simple(Ins(IF Bit8(op) THEN "SUBQ" ELSE "ADDQ",
                           IF EaOf(op)[1] = 1 THEN 4 ELSE decode_size_00(SizeBits(op)), QuickData(op), EaOf(op)))
           ELSE Complex
      [] Group(op) = 6 -> IF Sub(op) # 1 /\ op % 256 \notin {0, 255}
                          THEN Simple(Ins("Bcc", 0, Cond(Sub(op)), Disp8(op % 256))) ELSE Complex
      [] Group(op) = 7 -> Simple(Ins("MOVEQ", 4, Quick(op % 256), Dn(Nine(op))))
      [] Group(op) \in {8, 9, 11, 12, 13} -> decode_group_alu_reg(d, op)
      [] Group(op) = 14 ->
           IF SizeBits(op) # 3
           THEN Simple(Ins(ShiftOf((op \div 8) % 4, op), decode_size_00(SizeBits(op)),
                           IF (op \div 32) % 2 = 1 THEN Dn(Nine(op)) ELSE QuickData(op), Dn(Reg(op))))
           ELSE Complex
      [] OTHER -> Complex
<1> DEFINE t3 == Top(op, 3)  p == op = 20081  q == t3 = 18496  r == t3 = 18560  u == t3 = 18624  v == t3 = 18880
           g == Group(op)
<1>0. g \in 0 .. 15
  BY Shape, SMT
<1>1. ~p /\ ~q /\ ~r /\ ~u /\ ~v
  <2>1. op = 4096 * g + 512 * Nine(op) + 64 * OpMode(op) + 8 * Mode(op) + Reg(op)
    BY Shape, SMT
  <2>2. t3 = op - Reg(op) /\ Nine(op) \in 0 .. 7 /\ OpMode(op) \in 0 .. 7 /\ Mode(op) \in 0 .. 7 /\ Reg(op) \in 0 .. 7
    BY Shape, Fields, SMT
  <2> HIDE DEF g, t3
  <2>3. g # 4
    BY DEF g
  <2> QED BY <1>0, <2>1, <2>2, <2>3, SMT
<1> HIDE DEF p, q, r, u, v
<1> DEFINE e == EaOf(op)
<1> QED BY <1>0, <1>1, SMT DEF SimpleDecode, p, q, r, u, v

\* A MOVE between registers is what dispatch_move executes, or the byte MOVE from
\* an address register, which it rejects.
LEMMA SimpleMoveAgrees ==
  ASSUME NEW op \in Word, Group(op) \in {1, 2, 3}, NEW c, NEW d, NEW s, NEW x,
         SimpleDecode(d, op).kind = "Simple"
  PROVE  \/ dispatch_instruction(c, s, op, x) = SimpleDecode(d, op).ins
         \/ dispatch_instruction(c, s, op, x) = Illegal /\ LooseForm(op)
<1> DEFINE src == EaOf(op)  dst == DstEa(op)  g == Group(op)
           sz == IF g = 1 THEN 1 ELSE IF g = 2 THEN 4 ELSE 2
<1>0. /\ Nine(op) \in 0 .. 7 /\ OpMode(op) \in 0 .. 7 /\ Mode(op) \in 0 .. 7 /\ Reg(op) \in 0 .. 7
      /\ src[1] = Mode(op) /\ src[2] = Reg(op) /\ src = <<Mode(op), Reg(op)>>
  BY Shape, SMT
<1>1. dst[1] = OpMode(op) /\ dst[2] = Nine(op)
  BY SMT DEF DstEa
<1>2. SimpleDecode(d, op) = decode_move_reg(op, sz) /\ SimpleDecode("M68000", op) = decode_move_reg(op, sz)
  BY SimpleGroups, SMT
<1>3. dispatch_instruction(c, s, op, x) = dispatch_move(op, sz)
  BY SMT DEF dispatch_instruction
<1>4. sz \in {1, 2, 4}
  BY SMT
<1> HIDE DEF src, dst, sz, g
<1>5. IsDirect(src) /\ (dst[1] = 0 \/ (dst[1] = 1 /\ sz # 1))
  BY <1>2, SMT DEF decode_move_reg, Complex, Simple, src, dst
<1>6. decode_move_reg(op, sz).ins = Ins(IF dst[1] = 0 THEN "MOVE" ELSE "MOVEA", sz, src, dst)
  BY <1>0, <1>1, <1>5, SMT DEF decode_move_reg, Simple, src, dst
<1>7. CASE sz = 1 /\ src[1] = 1
  <2>1. LooseForm(op)
    BY <1>2, <1>6, <1>7, SMT DEF LooseForm, Ins
  <2>2. dispatch_move(op, sz) = Illegal
    BY <1>7, SMT DEF dispatch_move, src
  <2> QED BY <1>3, <2>1, <2>2
<1>8. CASE ~(sz = 1 /\ src[1] = 1)
  <2>1. dispatch_move(op, sz) = Ins(IF dst[1] = 0 THEN "MOVE" ELSE "MOVEA", sz, src, dst)
    <3>1. EaDecodes(src) /\ ~(dst[1] = 7 /\ dst[2] > 1) /\ (dst[1] = 1 => sz # 1)
      BY <1>0, <1>1, <1>5, SMT DEF IsDirect, EaDecodes
    <3>2. dst[1] \in {0, 1}
      BY <1>5
    <3> QED BY <1>8, <3>1, <3>2, SMT DEF dispatch_move, src, dst, Legal
  <2> QED BY <1>2, <1>3, <1>6, <2>1
<1> QED BY <1>7, <1>8

\* A bit operation between data registers is what dispatch_group_0 executes.
LEMMA SimpleGroup0Agrees ==
  ASSUME NEW op \in Word, Group(op) = 0, NEW c, NEW d, NEW s, NEW x,
         SimpleDecode(d, op).kind = "Simple"
  PROVE  dispatch_instruction(c, s, op, x) = SimpleDecode(d, op).ins
<1> DEFINE e == EaOf(op)
<1>0. /\ op = 512 * Nine(op) + 64 * OpMode(op) + 8 * Mode(op) + Reg(op)
      /\ Nine(op) \in 0 .. 7 /\ OpMode(op) \in 0 .. 7 /\ Mode(op) \in 0 .. 7 /\ Reg(op) \in 0 .. 7
      /\ High(op) \in 0 .. 1 /\ SizeBits(op) \in 0 .. 3
      /\ OpMode(op) = 4 * High(op) + SizeBits(op)
      /\ Bit8(op) <=> High(op) = 1
      /\ Sub(op) = 2 * Nine(op) + High(op)
      /\ e[1] = Mode(op) /\ e[2] = Reg(op) /\ e = <<Mode(op), Reg(op)>>
  BY Shape, SMT
<1>f. /\ op \div 256 = Sub(op)
      /\ op \div 64 = 8 * Nine(op) + OpMode(op)
      /\ (op \div 64) % 64 = 8 * Nine(op) + OpMode(op)
      /\ Top(op, 3) = op - Reg(op)
  BY <1>0, Fields, SMT
<1> HIDE DEF e
<1>1. Bit8(op) /\ Mode(op) = 0
  BY <1>0, <1>f, SMT DEF SimpleDecode, Complex, e
<1>2. SimpleDecode(d, op).ins = Ins(BitName[SizeBits(op) + 1], 4, Dn(Nine(op)), e)
  BY <1>0, <1>f, <1>1, SMT DEF SimpleDecode, Simple, e
<1>3. dispatch_group_0(c, s, op) = BitOperation(op)
  BY <1>0, <1>f, <1>1, SMT DEF dispatch_group_0, IsCas, IsMoves, IsModule, IsCmp2, IsMovep
<1>4. ea_data_alterable(e) /\ DataEa(e)
  BY <1>0, <1>1, SMT DEF ea_data_alterable, EaDecodes, DataEa
<1>5. BitOperation(op) = Ins(BitName[SizeBits(op) + 1], 4, Dn(Nine(op)), e)
  BY <1>0, <1>1, <1>4, SMT DEF BitOperation, Legal, e
<1>6. dispatch_instruction(c, s, op, x) = dispatch_group_0(c, s, op)
  BY SMT DEF dispatch_instruction
<1> QED BY <1>2, <1>3, <1>5, <1>6

\* A unary register operation decoded for model d is what dispatch_group_4
\* executes on model c; EXTB may be illegal there.
LEMMA SimpleGroup4Agrees ==
  ASSUME NEW op \in Word, Group(op) = 4, NEW c, NEW d, NEW s, NEW x,
         SimpleDecode(d, op).kind = "Simple"
  PROVE  \/ dispatch_instruction(c, s, op, x) = SimpleDecode(d, op).ins
         \/ dispatch_instruction(c, s, op, x) = Illegal /\ c \in Pre020 /\ d \notin Pre020
<1> DEFINE e == EaOf(op)  t3 == op - Reg(op)
<1>0. /\ op = 16384 + 512 * Nine(op) + 64 * OpMode(op) + 8 * Mode(op) + Reg(op)
      /\ Nine(op) \in 0 .. 7 /\ OpMode(op) \in 0 .. 7 /\ Mode(op) \in 0 .. 7 /\ Reg(op) \in 0 .. 7
      /\ High(op) \in 0 .. 1 /\ SizeBits(op) \in 0 .. 3
      /\ OpMode(op) = 4 * High(op) + SizeBits(op)
      /\ Sub(op) = 2 * Nine(op) + High(op)
      /\ e[1] = Mode(op) /\ e[2] = Reg(op) /\ e = <<Mode(op), Reg(op)>>
      /\ Top(op, 3) = t3
  BY Shape, Fields, SMT
<1>d. dispatch_instruction(c, s, op, x) = dispatch_group_4(c, s, op, x)
  BY SMT DEF dispatch_instruction
<1> HIDE DEF e
<1>1. CASE op = 20081
  <2>1. SimpleDecode(d, op) = Simple(Bare("NOP"))
    BY <1>0, <1>1, SMT DEF SimpleDecode, decode_group_4_reg, Complex
  <2>2. Group4Early(c, s, op) = NotDecoded
    BY <1>0, <1>1, Early, SMT
  <2>3. Group4Words(c, s, op, x) = Bare("NOP")
    BY <1>1, SMT DEF Group4Words
  <2> QED BY <1>d, <2>1, <2>2, <2>3, SMT DEF dispatch_group_4, Simple, Bare, NotDecoded, Ins
<1>2. CASE Mode(op) = 0 /\ SizeBits(op) # 3 /\ Sub(op) \in {0, 2, 4, 6, 10}
  <2> DEFINE i == Ins(IF Sub(op) = 10 THEN "TST" ELSE UnaryName[Sub(op)],
                      decode_size_00(SizeBits(op)), NoOpnd, e)
  <2>1. decode_group_4_reg(op) = Simple(i) /\ Simple(i) # Complex
    BY <1>2, SMT DEF decode_group_4_reg, Simple, Complex, e
  <2> HIDE DEF i
  <2>2. SimpleDecode(d, op) = Simple(i)
    BY <1>0, <1>2, <2>1, SMT DEF SimpleDecode
  <2>3. Group4Early(c, s, op) = NotDecoded
    BY <1>0, <1>2, Early, SMT
  <2>4. Group4Words(c, s, op, x) = NotDecoded
    BY <1>0, <1>2, Words4, SMT
  <2>5. ea_data_alterable(e) /\ SourceEa(e, decode_size_00(SizeBits(op)))
    BY <1>0, <1>2, SMT DEF ea_data_alterable, EaDecodes, SourceEa
  <2>6. CASE Sub(op) = 10
    <3>1. Group4Misc(c, op) = i
      BY <1>0, <1>2, <2>5, <2>6, SMT DEF Group4Misc, Legal, i, e
    <3>2. i # NotDecoded
      BY <2>6, SMT DEF i, NotDecoded, Bare, Ins
    <3> QED BY <1>d, <2>2, <2>3, <2>4, <2>6, <3>1, <3>2, SMT DEF dispatch_group_4, Simple
  <2>7. CASE Sub(op) # 10
    <3>1. Group4Unary(s, op) = i
      BY <1>2, <2>5, <2>7, SMT DEF Group4Unary, Legal, i, e
    <3> QED BY <1>d, <1>2, <2>2, <2>3, <2>4, <2>7, <3>1, SMT DEF dispatch_group_4, Simple
  <2> QED BY <2>6, <2>7
<1>3. CASE t3 \in {18496, 18560, 18624} \/ (t3 = 18880 /\ d \notin Pre020)
  <2> DEFINE i == Ins(IF t3 = 18496 THEN "SWAP" ELSE IF t3 = 18880 THEN "EXTB" ELSE "EXT",
                      IF t3 = 18560 THEN 2 ELSE 4, NoOpnd, e)
  <2>1. SimpleDecode(d, op) = Simple(i)
    BY <1>0, <1>3, SMT DEF SimpleDecode, decode_group_4_reg, Complex, e
  <2>2. Group4Early(c, s, op) = NotDecoded
    BY <1>0, <1>3, Early, SMT
  <2>3. Group4Words(c, s, op, x) = NotDecoded
    BY <1>0, <1>3, Words4, SMT
  <2>4. Group4Misc(c, op) = Legal(t3 # 18880 \/ c \notin Pre020, i)
    BY <1>0, <1>3, SMT DEF Group4Misc, Legal, e
  <2>5. Legal(t3 # 18880 \/ c \notin Pre020, i) # NotDecoded
    BY SMT DEF Legal, Illegal, NotDecoded, Bare, Ins
  <2>6. Sub(op) \notin {0, 2, 4, 6}
    BY <1>0, <1>3, SMT
  <2>7. dispatch_group_4(c, s, op, x) = Legal(t3 # 18880 \/ c \notin Pre020, i)
    BY <2>2, <2>3, <2>4, <2>5, <2>6, SMT DEF dispatch_group_4
  <2>8. t3 = 18880 => d \notin Pre020
    BY <1>3, SMT
  <2> DEFINE ok == t3 # 18880 \/ c \notin Pre020
  <2>9. ~ok => c \in Pre020 /\ d \notin Pre020
    BY <2>8
  <2>10. Simple(i).ins = i
    BY DEF Simple
  <2>11. CASE ok
    <3>1. dispatch_group_4(c, s, op, x) = i
      BY <2>7, <2>11 DEF Legal
    <3> HIDE DEF i, ok
    <3> QED BY <1>d, <2>1, <2>10, <3>1
  <2>12. CASE ~ok
    <3>1. dispatch_group_4(c, s, op, x) = Illegal
      BY <2>7, <2>12 DEF Legal
    <3> HIDE DEF i, ok
    <3> QED BY <1>d, <2>9, <2>12, <3>1
  <2> QED BY <2>11, <2>12
<1>4. CASE /\ op # 20081 /\ ~(Mode(op) = 0 /\ SizeBits(op) # 3 /\ Sub(op) \in {0, 2, 4, 6, 10})
           /\ ~(t3 \in {18496, 18560, 18624} \/ (t3 = 18880 /\ d \notin Pre020))
  <2>1. SimpleDecode(d, op) = Complex
    BY <1>0, <1>4, SMT DEF SimpleDecode, decode_group_4_reg, Complex
  <2> QED BY <2>1, SMT DEF Complex
<1> QED BY <1>1, <1>2, <1>3, <1>4

\* Quick operations, Scc, short branches, MOVEQ and shifts of registers.
LEMMA SimpleSmallGroupsAgree ==
  ASSUME NEW op \in Word, Group(op) \in {5, 6, 7, 14}, NEW c, NEW d, NEW s, NEW x,
         SimpleDecode(d, op).kind = "Simple"
  PROVE  \/ dispatch_instruction(c, s, op, x) = SimpleDecode(d, op).ins
         \/ dispatch_instruction(c, s, op, x) = Illegal /\ LooseForm(op)
<1> DEFINE e == EaOf(op)  g == Group(op)  sz == decode_size_00(SizeBits(op))
<1>0. /\ Mode(op) \in 0 .. 7 /\ Reg(op) \in 0 .. 7 /\ SizeBits(op) \in 0 .. 3
      /\ e[1] = Mode(op) /\ e[2] = Reg(op) /\ e = <<Mode(op), Reg(op)>>
  BY Shape, SMT
<1> HIDE DEF e
<1>1. CASE g = 5 /\ SizeBits(op) = 3
  <2>1. e[1] = 0 /\ SimpleDecode(d, op) = Simple(Ins("Scc", 1, Cond(Sub(op)), e))
    BY <1>1, SimpleGroups, SMT DEF Complex, e
  <2>2. ea_data_alterable(e) /\ Mode(op) = 0
    BY <1>0, <2>1, SMT DEF ea_data_alterable
  <2>3. dispatch_group_5(c, op) = Ins("Scc", 1, Cond(Sub(op)), e)
    BY <1>0, <1>1, <2>2, SMT DEF dispatch_group_5, Legal, e
  <2> QED BY <1>1, <2>1, <2>3, SMT DEF dispatch_instruction, Simple
<1>2. CASE g = 5 /\ SizeBits(op) # 3
  <2> DEFINE i == Ins(IF Bit8(op) THEN "SUBQ" ELSE "ADDQ",
                      IF e[1] = 1 THEN 4 ELSE sz, QuickData(op), e)
  <2>1. IsDirect(e) /\ SimpleDecode(d, op) = Simple(i) /\ SimpleDecode("M68000", op) = Simple(i)
    BY <1>2, SimpleGroups, SMT DEF Complex, e
  <2>2. dispatch_instruction(c, s, op, x) = Legal(ea_data_alterable(e) \/ (e[1] = 1 /\ sz # 1), i)
    BY <1>2, SMT DEF dispatch_instruction, dispatch_group_5, e
  <2>3. CASE e[1] = 0
    <3>1. ea_data_alterable(e)
      BY <2>3, SMT DEF ea_data_alterable
    <3> QED BY <2>1, <2>2, <3>1, SMT DEF Legal, Simple
  <2>4. CASE e[1] = 1 /\ sz # 1
    <3> HIDE DEF sz
    <3> QED BY <2>1, <2>2, <2>4, SMT DEF Legal, Simple
  <2>5. CASE e[1] = 1 /\ sz = 1
    <3>1. ~ea_data_alterable(e)
      BY <2>5, SMT DEF ea_data_alterable
    <3>2. SizeBits(op) = 0
      BY <1>0, <1>2, <2>5, SMT DEF decode_size_00
    <3>3. LooseForm(op)
      <4>1. SimpleDecode("M68000", op).ins = i
        BY <2>1 DEF Simple
      <4>2. i.name \in {"ADDQ", "SUBQ"} /\ i.dst = e
        BY SMT DEF Ins
      <4> HIDE DEF i
      <4> QED BY <2>5, <3>2, <4>1, <4>2, Zenon DEF LooseForm
    <3>4. dispatch_instruction(c, s, op, x) = Illegal
      BY <2>2, <2>5, <3>1, SMT DEF Legal
    <3> QED BY <3>3, <3>4
  <2>6. e[1] \in {0, 1}
    BY <1>0, <2>1, SMT DEF IsDirect
  <2> QED BY <2>3, <2>4, <2>5, <2>6
<1>3. CASE g = 6
  <2> DEFINE k == op % 256
  <2> HIDE DEF k
  <2>1. Sub(op) # 1 /\ k \notin {0, 255} /\ SimpleDecode(d, op) = Simple(Ins("Bcc", 0, Cond(Sub(op)), Disp8(k)))
    BY <1>3, SimpleGroups, SMT DEF Complex, k
  <2>2. dispatch_group_6(c, op) = Ins("Bcc", 0, Cond(Sub(op)), Disp8(k))
    BY <2>1, SMT DEF dispatch_group_6, k
  <2> QED BY <1>3, <2>1, <2>2, SMT DEF dispatch_instruction, Simple
<1>4. CASE g = 7
  <2>1. SimpleDecode(d, op) = Simple(Ins("MOVEQ", 4, Quick(op % 256), Dn(Nine(op))))
    BY <1>4, SimpleGroups, SMT
  <2>2. dispatch_instruction(c, s, op, x) = dispatch_moveq(op)
    BY <1>4, SMT DEF dispatch_instruction
  <2>3. Bit8(op) => LooseForm(op)
    BY <1>4 DEF LooseForm
  <2> QED BY <2>1, <2>2, <2>3, SMT DEF dispatch_moveq, Legal, Simple
<1>5. CASE g = 14
  <2> DEFINE k == (op \div 8) % 4  h == (op \div 32) % 2
             i == Ins(ShiftOf(k, op), decode_size_00(SizeBits(op)),
                      IF h = 1 THEN Dn(Nine(op)) ELSE QuickData(op), Dn(Reg(op)))
  <2>1. SizeBits(op) # 3 /\ SimpleDecode(d, op) = Simple(i)
    BY <1>5, SimpleGroups, SMT DEF Complex
  <2>2. dispatch_group_e(c, op) = i
    BY <2>1, SMT DEF dispatch_group_e
  <2>3. dispatch_instruction(c, s, op, x) = dispatch_group_e(c, op)
    BY <1>5, SMT DEF dispatch_instruction
  <2> HIDE DEF i
  <2> QED BY <2>1, <2>2, <2>3, SMT DEF Simple
<1> QED BY <1>1, <1>2, <1>3, <1>4, <1>5, SMT

\* The register forms of the two-operand groups.
LEMMA SimpleAluForms ==
  ASSUME NEW op \in Word, Group(op) \in {8, 9, 11, 12, 13}, NEW d,
         decode_group_alu_reg(d, op).kind = "Simple"
  PROVE  LET e == EaOf(op)  g == Group(op)  m == OpMode(op)
             sz == decode_size_00(SizeBits(op))  r == Dn(Nine(op))
             i == decode_group_alu_reg(d, op).ins
         IN \/ m <= 2 /\ IsDirect(e) /\ i = Ins(AluName[g], sz, e, r)
            \/ g \in {9, 11, 13} /\ m \in {3, 7} /\ IsDirect(e)
                 /\ i = Ins(AddrName[g], WordOrLong(op), e, An(Nine(op)))
            \/ g \in {9, 13} /\ m \in 4 .. 6 /\ e[1] = 0
                 /\ i = Ins(IF g = 9 THEN "SUBX" ELSE "ADDX", sz, e, r)
            \/ g = 11 /\ m \in 4 .. 6 /\ e[1] = 0 /\ i = Ins("EOR", sz, r, e)
            \/ g \in {8, 12} /\ m = 4 /\ e[1] = 0 /\ i = Ins(IF g = 8 THEN "SBCD" ELSE "ABCD", 1, e, r)
            \/ g = 12 /\ m \in {3, 7} /\ e[1] = 0 /\ i = Ins(IF m = 3 THEN "MULU" ELSE "MULS", 2, e, r)
            \/ g = 12 /\ m \in {5, 6} /\ ExchangeField(op) \in {8, 9, 17} /\ i = Exchange(op)
<1> DEFINE e == EaOf(op)  g == Group(op)  m == OpMode(op)  z == SizeBits(op)
           sz == decode_size_00(z)  r == Dn(Nine(op))
           x8 == ExchangeField(op) \in {8, 9, 17}
           i == decode_group_alu_reg(d, op).ins
<1>0. /\ m \in 0 .. 7 /\ Mode(op) \in 0 .. 7 /\ e[1] = Mode(op)
      /\ z \in 0 .. 3 /\ High(op) \in 0 .. 1 /\ m = 4 * High(op) + z
  BY Shape, SMT
<1>a. m % 4 = z /\ ExchangeField(op) = 8 * z + Mode(op)
  BY Fields, Zenon
<1>x. x8 /\ m > 2 => e[1] \in {0, 1} /\ m \in {5, 6}
  BY <1>0, <1>a, SMT
<1>1. m <= 2 /\ IsDirect(e) => i = Ins(AluName[g], sz, e, r)
  BY <1>0, <1>a, SMT DEF decode_group_alu_reg, Timed
<1>2. g \in {9, 11, 13} /\ m \in {3, 7} /\ IsDirect(e) => i = Ins(AddrName[g], WordOrLong(op), e, An(Nine(op)))
  <2> HIDE DEF e, m, g, sz, r
  <2>1. g \in {9, 11, 13} /\ m \in {3, 7} => g \notin {8, 12} /\ m \notin 4 .. 6 /\ ~(m <= 2)
    BY SMT
  <2> QED BY <2>1, Zenon DEF decode_group_alu_reg, Simple, e, m, g
<1>3. g \in {9, 13} /\ m \in 4 .. 6 /\ e[1] = 0 => i = Ins(IF g = 9 THEN "SUBX" ELSE "ADDX", sz, e, r)
  <2>1. CASE g = 9
    <3> HIDE DEF g, sz, e, r
    <3>1. m \in 4 .. 6 /\ e[1] = 0 => i = Ins("SUBX", sz, e, r)
      BY <1>a, <2>1, SMT DEF decode_group_alu_reg, Simple, g, sz, e, r
    <3> HIDE DEF i
    <3> QED BY <2>1, <3>1
  <2>2. CASE g = 13
    <3> HIDE DEF g, sz, e, r
    <3>1. m \in 4 .. 6 /\ e[1] = 0 => i = Ins("ADDX", sz, e, r)
      BY <1>a, <2>2, SMT DEF decode_group_alu_reg, Simple, g, sz, e, r
    <3> HIDE DEF i
    <3> QED BY <2>2, <3>1
  <2> QED BY <2>1, <2>2
<1>4. g = 11 /\ m \in 4 .. 6 /\ e[1] = 0 => i = Ins("EOR", sz, r, e)
  BY <1>0, <1>a, SMT DEF decode_group_alu_reg, Timed
<1>5. g \in {8, 12} /\ m = 4 /\ e[1] = 0 => i = Ins(IF g = 8 THEN "SBCD" ELSE "ABCD", 1, e, r)
  <2> HIDE DEF sz, e, r, g, m, x8
  <2>1. g \in {8, 12} /\ m = 4 => ~(m <= 2) /\ m \notin {3, 7} /\ ~(x8 /\ m > 2) /\ g \notin {9, 11, 13}
    BY <1>x, SMT
  <2> QED BY <2>1, Zenon DEF decode_group_alu_reg, Simple, e, r, g, m, x8
<1>6. g = 12 /\ m \in {3, 7} /\ e[1] = 0 => i = Ins(IF m = 3 THEN "MULU" ELSE "MULS", 2, e, r)
  BY <1>0, <1>a, SMT DEF decode_group_alu_reg, Timed
<1>7. g = 12 /\ m > 2 /\ x8 => i = Exchange(op)
  BY <1>0, <1>a, <1>x, SMT DEF decode_group_alu_reg, Simple
<1>8. \/ m <= 2 /\ IsDirect(e)
      \/ g \in {9, 11, 13} /\ m \in {3, 7} /\ IsDirect(e)
      \/ g \in {9, 13} /\ m \in 4 .. 6 /\ e[1] = 0
      \/ g = 11 /\ m \in 4 .. 6 /\ e[1] = 0
      \/ g \in {8, 12} /\ m = 4 /\ e[1] = 0
      \/ g = 12 /\ m \in {3, 7} /\ e[1] = 0
      \/ g = 12 /\ m > 2 /\ x8
  <2> SUFFICES ASSUME /\ ~(m <= 2 /\ IsDirect(e))
                      /\ ~(g \in {9, 11, 13} /\ m \in {3, 7} /\ IsDirect(e))
                      /\ ~(g \in {9, 13} /\ m \in 4 .. 6 /\ e[1] = 0)
                      /\ ~(g = 11 /\ m \in 4 .. 6 /\ e[1] = 0)
                      /\ ~(g \in {8, 12} /\ m = 4 /\ e[1] = 0)
                      /\ ~(g = 12 /\ m \in {3, 7} /\ e[1] = 0)
                      /\ ~(g = 12 /\ m > 2 /\ x8)
               PROVE  FALSE
    BY Zenon
  <2> HIDE DEF e, m, g, x8, sz, r
  <2>1. decode_group_alu_reg(d, op) = Complex
    BY Zenon DEF decode_group_alu_reg, e, m, g, x8
  <2> QED BY <2>1, SMT DEF Complex
<1> QED BY <1>1, <1>2, <1>3, <1>4, <1>5, <1>6, <1>7, <1>8, <1>x, Zenon

\* The two-operand register instructions are what their groups execute, or one of
\* the loose forms, which the dispatcher rejects.
LEMMA SimpleAluAgrees ==
  ASSUME NEW op \in Word, Group(op) \in {8, 9, 11, 12, 13}, NEW c, NEW d, NEW s, NEW x,
         SimpleDecode(d, op).kind = "Simple"
  PROVE  \/ dispatch_instruction(c, s, op, x) = SimpleDecode(d, op).ins
         \/ dispatch_instruction(c, s, op, x) = Illegal /\ LooseForm(op)
<1> DEFINE e == EaOf(op)  g == Group(op)  m == OpMode(op)  z == SizeBits(op)
           sz == decode_size_00(z)  r == Dn(Nine(op))
           i == decode_group_alu_reg(d, op).ins
<1>0. /\ m \in 0 .. 7 /\ Mode(op) \in 0 .. 7 /\ Reg(op) \in 0 .. 7
      /\ e[1] = Mode(op) /\ e[2] = Reg(op) /\ e = <<Mode(op), Reg(op)>>
      /\ z \in 0 .. 3 /\ High(op) \in 0 .. 1 /\ m = 4 * High(op) + z
  BY Shape, SMT
<1>a. m % 4 = z /\ ExchangeField(op) = 8 * z + Mode(op)
  BY Fields, Zenon
<1>b. /\ SimpleDecode(d, op) = decode_group_alu_reg(d, op)
      /\ SimpleDecode("M68000", op) = decode_group_alu_reg("M68000", op)
  BY SimpleGroups, SMT
<1>n. AluName[8] = "OR" /\ AluName[9] = "SUB" /\ AluName[11] = "CMP" /\ AluName[12] = "AND" /\ AluName[13] = "ADD"
  BY SMT DEF AluName
<1>m. AddrName[9] = "SUBA" /\ AddrName[11] = "CMPA" /\ AddrName[13] = "ADDA"
  BY SMT DEF AddrName
<1>d. /\ g = 8 => dispatch_instruction(c, s, op, x) = dispatch_group_8(c, op)
      /\ g = 9 => dispatch_instruction(c, s, op, x) = AddSub(op, "SUB", "SUBA", "SUBX")
      /\ g = 11 => dispatch_instruction(c, s, op, x) = dispatch_group_b(op)
      /\ g = 12 => dispatch_instruction(c, s, op, x) = dispatch_group_c(op)
      /\ g = 13 => dispatch_instruction(c, s, op, x) = AddSub(op, "ADD", "ADDA", "ADDX")
  BY SMT DEF dispatch_instruction, dispatch_group_9, dispatch_group_d
<1>e. EaOf(op)[1] \in {0, 1} => EaDecodes(EaOf(op))
  BY SMT DEF EaDecodes
<1>f. SimpleDecode(d, op).ins = i
  BY <1>b
<1>g. \/ m <= 2 /\ IsDirect(e) /\ i = Ins(AluName[g], sz, e, r)
      \/ g \in {9, 11, 13} /\ m \in {3, 7} /\ IsDirect(e) /\ i = Ins(AddrName[g], WordOrLong(op), e, An(Nine(op)))
      \/ g \in {9, 13} /\ m \in 4 .. 6 /\ e[1] = 0 /\ i = Ins(IF g = 9 THEN "SUBX" ELSE "ADDX", sz, e, r)
      \/ g = 11 /\ m \in 4 .. 6 /\ e[1] = 0 /\ i = Ins("EOR", sz, r, e)
      \/ g \in {8, 12} /\ m = 4 /\ e[1] = 0 /\ i = Ins(IF g = 8 THEN "SBCD" ELSE "ABCD", 1, e, r)
      \/ g = 12 /\ m \in {3, 7} /\ e[1] = 0 /\ i = Ins(IF m = 3 THEN "MULU" ELSE "MULS", 2, e, r)
      \/ g = 12 /\ m \in {5, 6} /\ ExchangeField(op) \in {8, 9, 17} /\ i = Exchange(op)
  <2>1. decode_group_alu_reg(d, op).kind = "Simple"
    BY <1>b
  <2> QED BY <2>1, SimpleAluForms, Zenon
<1> HIDE DEF e, g, sz, r, i
<1>1. CASE m <= 2 /\ IsDirect(e) /\ i = Ins(AluName[g], sz, e, r)
  <2>1. e[1] \in {0, 1} /\ EaDecodes(e)
    BY <1>0, <1>1, <1>e, SMT DEF IsDirect, e
  <2>3. g = 8 => dispatch_group_8(c, op) = Legal(DataEa(e), Ins("OR", sz, e, r))
    BY <1>0, <1>a, <1>1, SMT DEF dispatch_group_8, sz, r, e
  <2>4. g = 12 => dispatch_group_c(op) = Legal(DataEa(e), Ins("AND", sz, e, r))
    BY <1>0, <1>a, <1>1, SMT DEF dispatch_group_c, sz, r, e
  <2>5. dispatch_group_b(op) = Legal(SourceEa(e, sz), Ins("CMP", sz, e, r))
    BY <1>0, <1>a, <1>1, SMT DEF dispatch_group_b, sz, r, e
  <2>6. /\ AddSub(op, "SUB", "SUBA", "SUBX") = Legal(SourceEa(e, sz), Ins("SUB", sz, e, r))
        /\ AddSub(op, "ADD", "ADDA", "ADDX") = Legal(SourceEa(e, sz), Ins("ADD", sz, e, r))
    BY <1>0, <1>a, <1>1, SMT DEF AddSub, sz, r, e
  <2>7. CASE e[1] = 0
    <3>1. DataEa(e) /\ SourceEa(e, sz)
      BY <2>1, <2>7, SMT DEF DataEa, SourceEa
    <3> QED BY <1>b, <1>d, <1>n, <1>1, <2>3, <2>4, <2>5, <2>6, <3>1, SMT DEF Legal, i, g
  <2>8. CASE e[1] = 1
    <3>1. ~DataEa(e) /\ (SourceEa(e, sz) <=> sz # 1)
      BY <2>1, <2>8, SMT DEF DataEa, SourceEa
    <3>2. sz = 1 \/ g \in {8, 12} => LooseForm(op)
      <4> DEFINE j == SimpleDecode("M68000", op).ins
      <4>0. decode_group_alu_reg("M68000", op).ins = Ins(AluName[g], sz, e, r)
        <5>1. m <= 2 /\ IsDirect(e)
          BY <1>1
        <5> HIDE DEF i
        <5> QED BY <1>0, <1>a, <5>1, SMT DEF decode_group_alu_reg, Timed, e, g, sz, r
      <4>1. j = Ins(AluName[g], sz, e, r)
        BY <1>b, <4>0
      <4> HIDE DEF j
      <4>2. j.src = e /\ j.size = sz /\ j.name = AluName[g]
        BY <4>1, SMT DEF Ins
      <4>3. g = 8 => j.name = "OR"
        BY <1>n, <4>2
      <4>4. g = 12 => j.name = "AND"
        BY <1>n, <4>2
      <4> QED BY <2>8, <4>2, <4>3, <4>4, Zenon DEF LooseForm, j
    <3>3. CASE sz # 1 /\ g \in {9, 11, 13}
      BY <1>b, <1>d, <1>n, <1>1, <2>5, <2>6, <3>1, <3>3, SMT DEF Legal, i
    <3>4. CASE sz = 1 \/ g \in {8, 12}
      BY <1>d, <2>3, <2>4, <2>5, <2>6, <3>1, <3>2, <3>4, SMT DEF Legal, g
    <3> QED BY <3>3, <3>4, SMT DEF g
  <2> QED BY <2>1, <2>7, <2>8
<1>2. CASE g \in {9, 11, 13} /\ m \in {3, 7} /\ IsDirect(e) /\ i = Ins(AddrName[g], WordOrLong(op), e, An(Nine(op)))
  <2>2. EaDecodes(e)
    BY <1>0, <1>2, SMT DEF IsDirect, EaDecodes
  <2>3. /\ dispatch_group_b(op) = Ins("CMPA", WordOrLong(op), e, An(Nine(op)))
        /\ AddSub(op, "SUB", "SUBA", "SUBX") = Ins("SUBA", WordOrLong(op), e, An(Nine(op)))
        /\ AddSub(op, "ADD", "ADDA", "ADDX") = Ins("ADDA", WordOrLong(op), e, An(Nine(op)))
    BY <1>0, <1>2, <2>2, SMT DEF dispatch_group_b, AddSub, Legal, e
  <2> QED BY <1>b, <1>d, <1>m, <1>2, <2>3, SMT DEF i
<1>3. CASE g \in {9, 13} /\ m \in 4 .. 6 /\ e[1] = 0 /\ i = Ins(IF g = 9 THEN "SUBX" ELSE "ADDX", sz, e, r)
  <2>1. r = <<0, Nine(op)>> /\ Mode(op) = 0
    BY <1>0, <1>3, SMT DEF r, Dn
  <2>2. /\ AddSub(op, "SUB", "SUBA", "SUBX") = Ins("SUBX", sz, e, r)
        /\ AddSub(op, "ADD", "ADDA", "ADDX") = Ins("ADDX", sz, e, r)
    BY <1>0, <1>a, <1>3, <2>1, SMT DEF AddSub, sz, e
  <2> QED BY <1>b, <1>d, <1>3, <2>2, SMT DEF i
<1>4. CASE g = 11 /\ m \in 4 .. 6 /\ e[1] = 0 /\ i = Ins("EOR", sz, r, e)
  <2>1. ea_data_alterable(e) /\ Mode(op) = 0
    BY <1>0, <1>4, SMT DEF ea_data_alterable
  <2>2. dispatch_group_b(op) = Ins("EOR", sz, r, e)
    BY <1>0, <1>a, <1>4, <2>1, SMT DEF dispatch_group_b, Legal, sz, e, r
  <2> QED BY <1>b, <1>d, <1>4, <2>2 DEF i
<1>5. CASE g \in {8, 12} /\ m = 4 /\ e[1] = 0 /\ i = Ins(IF g = 8 THEN "SBCD" ELSE "ABCD", 1, e, r)
  <2>1. r = <<0, Nine(op)>> /\ Mode(op) = 0
    BY <1>0, <1>5, SMT DEF r, Dn
  <2>2. dispatch_group_8(c, op) = Ins("SBCD", 1, e, r) /\ dispatch_group_c(op) = Ins("ABCD", 1, e, r)
    BY <1>0, <1>5, <2>1, SMT DEF dispatch_group_8, dispatch_group_c, e
  <2> QED BY <1>b, <1>d, <1>5, <2>2, SMT DEF i
<1>6. CASE g = 12 /\ m \in {3, 7} /\ e[1] = 0 /\ i = Ins(IF m = 3 THEN "MULU" ELSE "MULS", 2, e, r)
  <2>2. DataEa(e)
    BY <1>6, SMT DEF DataEa, EaDecodes
  <2>3. dispatch_group_c(op) = Ins(IF m = 3 THEN "MULU" ELSE "MULS", 2, e, r)
    BY <1>0, <1>6, <2>2, SMT DEF dispatch_group_c, Legal, e, r
  <2> QED BY <1>b, <1>d, <1>6, <2>3 DEF i
<1>7. CASE g = 12 /\ m \in {5, 6} /\ ExchangeField(op) \in {8, 9, 17} /\ i = Exchange(op)
  <2>3. dispatch_group_c(op) = Exchange(op)
    BY <1>0, <1>a, <1>7, SMT DEF dispatch_group_c
  <2> QED BY <1>b, <1>d, <1>7, <2>3 DEF i
<1> QED BY <1>1, <1>2, <1>3, <1>4, <1>5, <1>6, <1>7, <1>g, Zenon

\* A word that DecodedSimpleOp::decode admits for model d is the instruction that
\* the dispatcher executes on model c, or illegal there: a loose form, or a 68020
\* instruction on an earlier model.
LEMMA SimpleAgrees ==
  ASSUME NEW op \in Word, NEW c, NEW d, NEW s, NEW x, SimpleDecode(d, op).kind = "Simple"
  PROVE  \/ dispatch_instruction(c, s, op, x) = SimpleDecode(d, op).ins
         \/ /\ dispatch_instruction(c, s, op, x) = Illegal
            /\ LooseForm(op) \/ (c \in Pre020 /\ d \notin Pre020)
<1>1. CASE Group(op) \in {1, 2, 3}
  BY <1>1, SimpleMoveAgrees, Zenon
<1>2. CASE Group(op) = 0
  BY <1>2, SimpleGroup0Agrees, Zenon
<1>3. CASE Group(op) = 4
  BY <1>3, SimpleGroup4Agrees, SMT
<1>4. CASE Group(op) \in {5, 6, 7, 14}
  BY <1>4, SimpleSmallGroupsAgree, Zenon
<1>5. CASE Group(op) \in {8, 9, 11, 12, 13}
  BY <1>5, SimpleAluAgrees, Zenon
<1>6. CASE Group(op) \in {10, 15}
  <2>1. SimpleDecode(d, op) = Complex
    BY <1>6, SimpleGroups, SMT
  <2> QED BY <2>1, SMT DEF Complex
<1>7. Group(op) \in 0 .. 15
  BY Shape, SMT
<1> QED BY <1>1, <1>2, <1>3, <1>4, <1>5, <1>6, <1>7, SMT

----------------------------------------------------------------------------
(* A register op touches registers only. *)

\* An instruction with register operands and a name outside the listed ones
\* touches registers only and is not the privilege trap.
LEMMA RegisterForm ==
  ASSUME NEW n, n \notin {"privilege", "LINK", "UNLK", "BSR", "RTS", "RTE", "RTR", "TRAP", "CAS2"},
         NEW sz, NEW a, NEW b, RegisterOperand(a), RegisterOperand(b)
  PROVE  Ins(n, sz, a, b) # Privilege /\ TouchesRegistersOnly(Ins(n, sz, a, b))
<1> DEFINE i == Ins(n, sz, a, b)
<1>1. i.name = n /\ i.src = a /\ i.dst = b
  BY DEF Ins
<1>2. Privilege.name = "privilege"
  BY DEF Privilege, Bare, Ins
<1> HIDE DEF i
<1>3. i # Privilege /\ TouchesRegistersOnly(i)
  BY <1>1, <1>2, SMT DEF TouchesRegistersOnly
<1> QED BY <1>3 DEF i

\* The operands that the register decoder uses are registers or constants.
LEMMA RegisterOperands ==
  /\ \A k : RegisterOperand(Dn(k)) /\ RegisterOperand(An(k)) /\ RegisterOperand(Quick(k))
            /\ RegisterOperand(Cond(k)) /\ RegisterOperand(Disp8(k))
  /\ RegisterOperand(NoOpnd)
BY SMT DEF RegisterOperand, Dn, An, Quick, Cond, Disp8, NoOpnd

\* The two-operand register instructions touch registers only.
LEMMA SimpleAluRegisters ==
  ASSUME NEW op \in Word, Group(op) \in {8, 9, 11, 12, 13}, NEW d,
         decode_group_alu_reg(d, op).kind = "Simple"
  PROVE  LET i == decode_group_alu_reg(d, op).ins IN i # Privilege /\ TouchesRegistersOnly(i)
<1> DEFINE e == EaOf(op)  g == Group(op)  m == OpMode(op)  r == Dn(Nine(op))
           x8 == ExchangeField(op) \in {8, 9, 17}
           j == decode_group_alu_reg(d, op)
           sz == decode_size_00(SizeBits(op))
<1>0. Mode(op) \in 0 .. 7 /\ e[1] = Mode(op)
  BY Shape, SMT
<1>n. AluName[g] \in {"OR", "SUB", "CMP", "AND", "ADD"} /\ (g \in {9, 11, 13} => AddrName[g] \in {"SUBA", "CMPA", "ADDA"})
  BY SMT DEF AluName, AddrName
<1>1. \/ m <= 2 /\ IsDirect(e) /\ j.ins = Ins(AluName[g], sz, e, r)
      \/ g \in {9, 11, 13} /\ IsDirect(e) /\ j.ins = Ins(AddrName[g], WordOrLong(op), e, An(Nine(op)))
      \/ e[1] = 0 /\ j.ins = Ins(IF g = 9 THEN "SUBX" ELSE "ADDX", sz, e, r)
      \/ e[1] = 0 /\ j.ins = Ins("EOR", sz, r, e)
      \/ e[1] = 0 /\ j.ins = Ins(IF g = 8 THEN "SBCD" ELSE "ABCD", 1, e, r)
      \/ e[1] = 0 /\ j.ins = Ins(IF m = 3 THEN "MULU" ELSE "MULS", 2, e, r)
      \/ j.ins = Exchange(op)
  BY SimpleAluForms, Zenon
<1>2. IsDirect(e) \/ e[1] = 0 => RegisterOperand(e)
  BY <1>0, SMT DEF IsDirect, RegisterOperand
<1>3. RegisterOperand(r) /\ RegisterOperand(An(Nine(op))) /\ RegisterOperand(Dn(Reg(op))) /\ RegisterOperand(An(Reg(op)))
  BY RegisterOperands
<1> HIDE DEF e, g, m, r, x8, j, sz
<1>4. CASE j.ins = Exchange(op)
  BY <1>3, <1>4, RegisterForm, SMT DEF Exchange, j, r
<1>5. CASE j.ins # Exchange(op)
  <2>1. RegisterOperand(e)
    BY <1>1, <1>2, <1>5
  <2>2. \E n, z, a, b : /\ j.ins = Ins(n, z, a, b) /\ RegisterOperand(a) /\ RegisterOperand(b)
                        /\ n \in {"OR", "SUB", "CMP", "AND", "ADD", "SUBA", "CMPA", "ADDA", "SUBX", "ADDX",
                                  "EOR", "SBCD", "ABCD", "MULU", "MULS"}
    BY <1>1, <1>3, <1>5, <1>n, <2>1, Zenon
  <2> QED BY <2>2, RegisterForm, SMT DEF j
<1> QED BY <1>4, <1>5

\* Whatever DecodedSimpleOp::decode admits touches registers only.
LEMMA SimpleRegisters ==
  ASSUME NEW op \in Word, NEW d, SimpleDecode(d, op).kind = "Simple"
  PROVE  LET i == SimpleDecode(d, op).ins IN i # Privilege /\ TouchesRegistersOnly(i)
<1> DEFINE e == EaOf(op)  dst == DstEa(op)  sz == decode_size_00(SizeBits(op))
<1>0. Mode(op) \in 0 .. 7 /\ e[1] = Mode(op) /\ Group(op) \in 0 .. 15 /\ SizeBits(op) \in 0 .. 3 /\ Sub(op) \in 0 .. 15
  BY Shape, SMT
<1>1. CASE Group(op) \in {1, 2, 3}
  <2>1. \E z : SimpleDecode(d, op) = decode_move_reg(op, z)
    BY <1>1, SimpleGroups, SMT
  <2>2. PICK z : SimpleDecode(d, op) = decode_move_reg(op, z)
    BY <2>1
  <2>3. IsDirect(e) /\ dst[1] \in {0, 1} /\ SimpleDecode(d, op).ins = Ins(IF dst[1] = 0 THEN "MOVE" ELSE "MOVEA", z, e, dst)
    BY <2>2, SMT DEF decode_move_reg, Simple, Complex
  <2> HIDE DEF e, dst
  <2>4. RegisterOperand(e) /\ RegisterOperand(dst)
    BY <1>0, <2>3, SMT DEF RegisterOperand, IsDirect
  <2> QED BY <2>3, <2>4, RegisterForm, SMT
<1>2. CASE Group(op) = 0
  <2>1. e[1] = 0 /\ SimpleDecode(d, op).ins = Ins(BitName[SizeBits(op) + 1], 4, Dn(Nine(op)), e)
    BY <1>2, SimpleGroups, SMT DEF Simple, Complex
  <2>2. BitName[SizeBits(op) + 1] \in {"BTST", "BCHG", "BCLR", "BSET"}
    BY <1>0, SMT DEF BitName
  <2>3. RegisterOperand(e) /\ RegisterOperand(Dn(Nine(op)))
    BY <2>1, RegisterOperands, SMT DEF RegisterOperand
  <2> HIDE DEF e
  <2> QED BY <2>1, <2>2, <2>3, RegisterForm, SMT
<1>3. CASE Group(op) = 4
  <2>1. \/ SimpleDecode(d, op) = Simple(Bare("NOP"))
        \/ SimpleDecode(d, op) = decode_group_4_reg(op)
        \/ Mode(op) = 0 /\ \E n \in {"SWAP", "EXT", "EXTB"} : \E z : SimpleDecode(d, op) = Simple(Ins(n, z, NoOpnd, e))
    <3>1. Top(op, 3) \in {18496, 18560, 18624, 18880} => Mode(op) = 0
      <4>1. /\ op = 16384 + 512 * Nine(op) + 64 * OpMode(op) + 8 * Mode(op) + Reg(op)
            /\ Nine(op) \in 0 .. 7 /\ OpMode(op) \in 0 .. 7 /\ Mode(op) \in 0 .. 7 /\ Reg(op) \in 0 .. 7
            /\ Top(op, 3) = op - Reg(op)
        BY <1>3, Shape, Fields, SMT
      <4> QED BY <4>1, SMT
    <3> DEFINE t3 == Top(op, 3)  p == op = 20081  q == t3 = 18496  r == t3 = 18560  u == t3 = 18624  v == t3 = 18880
    <3>2. q \/ r \/ u \/ v => Mode(op) = 0
      BY <3>1, SMT
    <3> HIDE DEF p, q, r, u, v
    <3>3. /\ SimpleDecode(d, op) # Complex
          /\ Group(op) \notin {0, 1, 2, 3, 5, 6, 7, 8, 9, 11, 12, 13, 14}
      BY <1>3, SMT DEF Complex
    <3> QED BY <3>2, <3>3, <1>3, SMT DEF SimpleDecode, p, q, r, u, v
  <2>2. CASE SimpleDecode(d, op) = Simple(Bare("NOP"))
    BY <2>2, RegisterForm, RegisterOperands, SMT DEF Simple, Bare
  <2>3. CASE SimpleDecode(d, op) = decode_group_4_reg(op)
    <3>1. /\ Mode(op) = 0 /\ Sub(op) \in {0, 2, 4, 6, 10}
          /\ SimpleDecode(d, op).ins = Ins(IF Sub(op) = 10 THEN "TST" ELSE UnaryName[Sub(op)], sz, NoOpnd, e)
      BY <2>3, SMT DEF decode_group_4_reg, Simple, Complex
    <3>2. (IF Sub(op) = 10 THEN "TST" ELSE UnaryName[Sub(op)]) \in {"TST", "NEGX", "CLR", "NEG", "NOT"}
      BY <3>1, SMT DEF UnaryName
    <3>3. RegisterOperand(e) /\ RegisterOperand(NoOpnd)
      BY <1>0, <3>1, RegisterOperands, SMT DEF RegisterOperand
    <3> HIDE DEF e
    <3> QED BY <3>1, <3>2, <3>3, RegisterForm, SMT
  <2>4. CASE Mode(op) = 0 /\ \E n \in {"SWAP", "EXT", "EXTB"} : \E z : SimpleDecode(d, op) = Simple(Ins(n, z, NoOpnd, e))
    <3>1. PICK n \in {"SWAP", "EXT", "EXTB"} : \E z : SimpleDecode(d, op) = Simple(Ins(n, z, NoOpnd, e))
      BY <2>4
    <3>2. PICK z : SimpleDecode(d, op) = Simple(Ins(n, z, NoOpnd, e))
      BY <3>1
    <3>3. RegisterOperand(e) /\ RegisterOperand(NoOpnd)
      BY <1>0, <2>4, RegisterOperands, SMT DEF RegisterOperand
    <3>4. SimpleDecode(d, op).ins = Ins(n, z, NoOpnd, e)
      BY <3>2 DEF Simple
    <3> HIDE DEF e
    <3> QED BY <3>3, <3>4, RegisterForm, SMT
  <2> QED BY <2>1, <2>2, <2>3, <2>4
<1>4. CASE Group(op) = 5
  <2>1. \/ e[1] = 0 /\ SimpleDecode(d, op).ins = Ins("Scc", 1, Cond(Sub(op)), e)
        \/ IsDirect(e) /\ SimpleDecode(d, op).ins = Ins(IF Bit8(op) THEN "SUBQ" ELSE "ADDQ",
                                                        IF e[1] = 1 THEN 4 ELSE sz, QuickData(op), e)
    BY <1>4, SimpleGroups, SMT DEF Simple, Complex
  <2>2. RegisterOperand(e)
    BY <1>0, <2>1, SMT DEF IsDirect, RegisterOperand
  <2>3. RegisterOperand(Cond(Sub(op))) /\ RegisterOperand(QuickData(op))
    BY RegisterOperands DEF QuickData
  <2> HIDE DEF e, sz
  <2> QED BY <2>1, <2>2, <2>3, RegisterForm, SMT
<1>5. CASE Group(op) \in {6, 7}
  <2>1. \/ SimpleDecode(d, op).ins = Ins("Bcc", 0, Cond(Sub(op)), Disp8(op % 256))
        \/ SimpleDecode(d, op).ins = Ins("MOVEQ", 4, Quick(op % 256), Dn(Nine(op)))
    BY <1>5, SimpleGroups, SMT DEF Simple, Complex
  <2> QED BY <2>1, RegisterOperands, RegisterForm, SMT
<1>6. CASE Group(op) \in {8, 9, 11, 12, 13}
  <2>1. SimpleDecode(d, op) = decode_group_alu_reg(d, op)
    BY <1>6, SimpleGroups, SMT
  <2> QED BY <1>6, <2>1, SimpleAluRegisters, Zenon
<1>7. CASE Group(op) = 14
  <2> DEFINE k == (op \div 8) % 4  a == IF (op \div 32) % 2 = 1 THEN Dn(Nine(op)) ELSE QuickData(op)
  <2>1. SimpleDecode(d, op).ins = Ins(ShiftOf(k, op), sz, a, Dn(Reg(op)))
    BY <1>7, SimpleGroups, SMT DEF Simple, Complex
  <2>2. ShiftOf(k, op) \in {"ASR", "ASL", "LSR", "LSL", "ROXR", "ROXL", "ROR", "ROL"}
    <3>1. k \in 0 .. 3 /\ Sub(op) % 2 \in 0 .. 1
      BY <1>0, SMT DEF Word
    <3> HIDE DEF k
    <3> QED BY <3>1, SMT DEF ShiftOf, ShiftName
  <2>3. RegisterOperand(a) /\ RegisterOperand(Dn(Reg(op)))
    BY RegisterOperands DEF QuickData
  <2> HIDE DEF sz, k, a
  <2> QED BY <2>1, <2>2, <2>3, RegisterForm, SMT
<1>8. CASE Group(op) \in {10, 15}
  <2>1. SimpleDecode(d, op) = Complex
    BY <1>8, SimpleGroups, SMT
  <2> QED BY <2>1, SMT DEF Complex
<1> QED BY <1>0, <1>1, <1>2, <1>3, <1>4, <1>5, <1>6, <1>7, <1>8, SMT

----------------------------------------------------------------------------
(* The table entry. *)

\* A filled entry is what decoding its word for the current model gives:
\* cached_decode fills it from cpu_type, and set_cpu_type, the only writer of
\* cpu_type, drops it.
THEOREM TableIsCurrent == Spec => []EntryCurrent
<1>1. Init => EntryCurrent
  BY DEF Init, EntryCurrent
<1>2. EntryCurrent /\ [Next]_vars => EntryCurrent'
  <2> SUFFICES ASSUME EntryCurrent, [Next]_vars PROVE EntryCurrent'
    OBVIOUS
  <2>1. CASE cached_decode
    BY <2>1 DEF cached_decode, EntryCurrent
  <2>2. CASE SetCpuType
    BY <2>2 DEF SetCpuType, set_cpu_type, EntryCurrent
  <2>3. CASE UNCHANGED vars
    BY <2>3 DEF vars, EntryCurrent
  <2> QED BY <2>1, <2>2, <2>3 DEF Next
<1> QED BY <1>1, <1>2, PTL DEF Spec

\* The followed word is one of the words considered.
OpcodeConsidered == opcode \in Opcodes

\* Neither cached_decode nor set_cpu_type changes the word that is followed.
LEMMA OpcodeFixed == Spec => []OpcodeConsidered
<1>1. Init => OpcodeConsidered
  BY DEF Init, OpcodeConsidered
<1>2. OpcodeConsidered /\ [Next]_vars => OpcodeConsidered'
  BY DEF OpcodeConsidered, Next, cached_decode, SetCpuType, set_cpu_type, vars
<1> QED BY <1>1, <1>2, PTL DEF Spec

\* DecodedMemOp::decode answers with a memory op or not at all.
LEMMA MemOrComplex ==
  ASSUME NEW op \in Word
  PROVE  MemDecode(op) = Complex \/ MemDecode(op).kind = "Mem"
<1> DEFINE P(v) == v = Complex \/ v.kind = "Mem"
<1>1. /\ \A ok, i : P(MemIf(ok, i))
      /\ \A i : P(Mem(i))
      /\ P(Complex)
  BY SMT DEF MemIf, Mem
<1> HIDE DEF P
<1>2. P(MemGroup0(op)) /\ P(MemGroup5(op)) /\ P(MemGroup6(op))
  BY <1>1, SMT DEF MemGroup0, MemGroup5, MemGroup6
<1>3. P(MemGroup4(op))
  BY <1>1, SMT DEF MemGroup4
<1>4. P(MemAlu(op))
  BY <1>1, SMT DEF MemAlu
<1>5. P(MemMove(op, 1)) /\ P(MemMove(op, 2)) /\ P(MemMove(op, 4))
  BY <1>1, Zenon DEF MemMove
<1>6. P(MemDecode(op))
  BY <1>1, <1>2, <1>3, <1>4, <1>5, SMT DEF MemDecode
<1> QED BY <1>6 DEF P

\* A current entry is what the dispatcher executes.
LEMMA EntryAgrees == OpcodeConsidered /\ EntryCurrent => FastDecodeAgrees
<1> SUFFICES ASSUME OpcodeConsidered, EntryCurrent, table.kind \in {"Simple", "Mem"},
                    NEW s \in BOOLEAN, NEW x \in Streams
             PROVE  \/ dispatch_instruction(cpu_type, s, opcode, x) = table.ins
                    \/ dispatch_instruction(cpu_type, s, opcode, x) = Illegal /\ LooseForm(opcode)
  BY DEF FastDecodeAgrees, Decoded
<1>1. opcode \in Word
  BY DecodeAssumption DEF OpcodeConsidered
<1>2. table # Unknown
  BY SMT DEF Unknown
<1>3. table = FreshEntry(cpu_type, opcode)
  BY <1>2 DEF EntryCurrent
<1>4. CASE SimpleDecode(cpu_type, opcode).kind = "Simple"
  BY <1>1, <1>3, <1>4, SimpleAgrees, SMT DEF FreshEntry
<1>5. CASE SimpleDecode(cpu_type, opcode).kind # "Simple"
  <2>1. table = MemDecode(opcode)
    BY <1>3, <1>5 DEF FreshEntry
  <2>2. MemDecode(opcode).kind = "Mem"
    BY <1>1, <2>1, MemOrComplex, SMT DEF Complex
  <2>3. dispatch_instruction(cpu_type, s, opcode, x) = MemDecode(opcode).ins
    BY <1>1, <2>2, MemAgrees, Zenon
  <2> QED BY <2>1, <2>3
<1> QED BY <1>4, <1>5

\* What needs_rollback_snapshot spares a snapshot touches registers only on the
\* current model, although it was decoded for the 68040.
LEMMA SnapshotSkipped == OpcodeConsidered => SnapshotSkippedSafely
<1> SUFFICES ASSUME OpcodeConsidered, ~needs_rollback_snapshot(opcode), NEW s \in BOOLEAN, NEW x \in Streams
             PROVE  LET i == dispatch_instruction(cpu_type, s, opcode, x)
                    IN  i = Illegal \/ (i # Privilege /\ TouchesRegistersOnly(i))
  BY DEF SnapshotSkippedSafely, Decoded
<1>1. opcode \in Word
  BY DecodeAssumption DEF OpcodeConsidered
<1>2. SimpleDecode("M68040", opcode).kind = "Simple"
  BY DEF needs_rollback_snapshot
<1>3. \/ dispatch_instruction(cpu_type, s, opcode, x) = SimpleDecode("M68040", opcode).ins
      \/ dispatch_instruction(cpu_type, s, opcode, x) = Illegal
  BY <1>1, <1>2, SimpleAgrees, SMT
<1>4. LET i == SimpleDecode("M68040", opcode).ins IN i # Privilege /\ TouchesRegistersOnly(i)
  BY <1>1, <1>2, SimpleRegisters, Zenon
<1> QED BY <1>3, <1>4, Zenon

\* On every model and for every word, an instruction executed without a rollback
\* snapshot (needs_rollback_snapshot, decoded for the 68040) has nothing to roll
\* back: it touches registers only or does nothing but trap.
THEOREM SnapshotsSkippedSafely == Spec => []SnapshotSkippedSafely
BY OpcodeFixed, SnapshotSkipped, PTL

----------------------------------------------------------------------------
(* The shape of what the memory decoder answers. *)

\* The names of the bit operations.
BitNames  == {"BTST", "BCHG", "BCLR", "BSET"}

\* The names of the immediate operations.
ImmNames  == {"ORI", "ANDI", "SUBI", "ADDI", "EORI", "CMPI"}

\* The names of the two-operand operations.
AluNames  == {"OR", "SUB", "CMP", "AND", "ADD"}

\* Where the operands of an answer of the memory decoder come from.
MemForm(op, i) ==
  LET e == EaOf(op)
      d == Dn(Nine(op))
      Is(n, s, t) == i.name = n /\ i.src = s /\ i.dst = t
  IN \/ i = NotDecoded
     \/ i.name \in BitNames /\ i.src \in {Imm16, d} /\ i.dst = e
     \/ i.name \in ImmNames /\ i.src = Imm /\ i.dst = e
     \/ i.name \in {"MOVE", "MOVEA", "JSR", "JMP", "RTS", "LINK", "UNLK", "NEG", "NOT",
                    "DBcc", "BSR", "Bcc", "CMPM", "EOR", "SUBA"}
     \/ i.name \in {"TST", "CLR"} /\ i.src = NoOpnd /\ i.dst = e
     \/ Is("LEA", e, An(Nine(op)))
     \/ Is("PEA", e, NoOpnd)
     \/ i.name = "MOVEM_to_registers" /\ i.src = Imm16 /\ i.dst = <<3, Reg(op)>>
     \/ i.name = "MOVEM_to_memory" /\ i.src = Imm16 /\ i.dst = <<4, Reg(op)>>
     \/ i.name \in {"ADDQ", "SUBQ"} /\ i.src = QuickData(op) /\ i.dst = e
     \/ i.name \in {"CMPA", "ADDA"} /\ i.src = e /\ i.dst = An(Nine(op))
     \/ i.name \in AluNames /\ i.src = e /\ i.dst = d
     \/ i.name \in AluNames /\ i.src = d /\ i.dst = e /\ e[1] >= 2

\* The fields of an instruction record.
LEMMA InsParts ==
  ASSUME NEW n, NEW z, NEW a, NEW b
  PROVE  Ins(n, z, a, b).name = n /\ Ins(n, z, a, b).size = z /\ Ins(n, z, a, b).src = a /\ Ins(n, z, a, b).dst = b
BY DEF Ins

\* A guarded answer has the shape its instruction has.
LEMMA MemIfForm ==
  ASSUME NEW op, NEW ok, NEW i, ok => MemForm(op, i)
  PROVE  MemForm(op, MemIf(ok, i).ins)
<1>1. CASE ok
  BY <1>1 DEF MemIf, Mem
<1>2. CASE ~ok
  BY <1>2, SMT DEF MemIf, Complex, MemForm
<1> QED BY <1>1, <1>2

\* The shapes of group 0.
LEMMA MemForm0 ==
  ASSUME NEW op \in Word PROVE MemForm(op, MemGroup0(op).ins)
<1> DEFINE e == EaOf(op)  d == Dn(Nine(op))
<1>1. BitName[SizeBits(op) + 1] \in BitNames
  BY Shape, SMT DEF BitName, BitNames
<1>2. \A z, s : s \in {Imm16, d} => MemForm(op, Ins(BitName[SizeBits(op) + 1], z, s, e))
  BY <1>1, InsParts, SMT DEF MemForm
<1>3. \A n, z : n \in ImmNames => MemForm(op, Ins(n, z, Imm, e))
  BY InsParts, SMT DEF MemForm
<1>4. Nine(op) \in {0, 1, 2, 3, 5, 6} => ImmediateName[2 * Nine(op)] \in ImmNames
  BY SMT DEF ImmediateName, ImmNames
<1>5. \A i : Mem(i).ins = i
  BY DEF Mem
<1>6. MemForm(op, Complex.ins)
  BY SMT DEF Complex, MemForm
<1>7. CASE Bit8(op)
  BY <1>2, <1>7, MemIfForm, SMT DEF MemGroup0
<1>8. CASE ~Bit8(op) /\ op \div 256 = 8 /\ e[1] = 0
  BY <1>2, <1>5, <1>8, Zenon DEF MemGroup0
<1>9. CASE ~Bit8(op) /\ op \div 256 = 8 /\ e[1] # 0
  BY <1>2, <1>9, MemIfForm, Zenon DEF MemGroup0
<1>10. CASE ~Bit8(op) /\ op \div 256 # 8
  BY <1>3, <1>4, <1>6, <1>10, MemIfForm, Zenon DEF MemGroup0
<1> QED BY <1>7, <1>8, <1>9, <1>10

\* The instructions whose operands the recorder does not look at.
LEMMA OtherForm ==
  ASSUME NEW op, NEW z, NEW s, NEW t,
         NEW n \in {"MOVE", "MOVEA", "JSR", "JMP", "RTS", "LINK", "UNLK", "NEG", "NOT",
                    "DBcc", "BSR", "Bcc", "CMPM", "EOR", "SUBA"}
  PROVE  MemForm(op, Ins(n, z, s, t)) /\ MemForm(op, Mem(Ins(n, z, s, t)).ins)
BY InsParts, SMT DEF MemForm, Mem

\* The shapes of group 4.
LEMMA MemForm4 ==
  ASSUME NEW op \in Word PROVE MemForm(op, MemGroup4(op).ins)
<1> DEFINE e == EaOf(op)  t3 == Top(op, 3)  t6 == Top(op, 6)  r == Reg(op)  z == decode_size_00(SizeBits(op))
<1>1. MemForm(op, Mem(Bare("RTS")).ins)
  BY OtherForm, SMT DEF Bare
<1>2. \A k : MemForm(op, Mem(Ins("MOVEM_to_registers", k, Imm16, <<3, r>>)).ins)
  BY InsParts, SMT DEF MemForm, Mem
<1>3. \A k : MemForm(op, Mem(Ins("MOVEM_to_memory", k, Imm16, <<4, r>>)).ins)
  BY InsParts, SMT DEF MemForm, Mem
<1>4. /\ MemForm(op, Mem(Ins("LINK", 2, Imm16, An(r))).ins)
      /\ MemForm(op, Mem(Ins("UNLK", 4, NoOpnd, An(r))).ins)
  BY OtherForm, SMT
<1>5. /\ MemForm(op, MemIf(is_control(e), Ins("LEA", 4, e, An(Nine(op)))).ins)
      /\ MemForm(op, MemIf(is_control(e), Ins("PEA", 4, e, NoOpnd)).ins)
  <2>1. MemForm(op, Ins("LEA", 4, e, An(Nine(op))))
    BY InsParts, SMT DEF MemForm
  <2>2. MemForm(op, Ins("PEA", 4, e, NoOpnd))
    BY InsParts, SMT DEF MemForm
  <2> QED BY <2>1, <2>2, MemIfForm, Zenon
<1>6. /\ MemForm(op, MemIf(is_control(e), Ins("JSR", 4, e, NoOpnd)).ins)
      /\ MemForm(op, MemIf(is_control(e), Ins("JMP", 4, e, NoOpnd)).ins)
  BY OtherForm, MemIfForm, SMT
<1>7. Sub(op) \in {2, 4, 6, 10} =>
        MemForm(op, MemIf(FastStore(e), Ins(IF Sub(op) = 10 THEN "TST" ELSE UnaryName[Sub(op)], z, NoOpnd, e)).ins)
  <2> DEFINE n == IF Sub(op) = 10 THEN "TST" ELSE UnaryName[Sub(op)]
  <2>1. Sub(op) \in {2, 4, 6, 10} => n \in {"TST", "CLR", "NEG", "NOT"}
    BY SMT DEF UnaryName
  <2> HIDE DEF n
  <2>2. n \in {"TST", "CLR"} => MemForm(op, Ins(n, z, NoOpnd, e))
    BY InsParts, SMT DEF MemForm
  <2>3. n \in {"NEG", "NOT"} => MemForm(op, Ins(n, z, NoOpnd, e))
    BY OtherForm, SMT
  <2>4. Sub(op) \in {2, 4, 6, 10} => MemForm(op, MemIf(FastStore(e), Ins(n, z, NoOpnd, e)).ins)
    BY <2>1, <2>2, <2>3, MemIfForm, SMT
  <2> QED BY <2>4 DEF n
<1>8. MemForm(op, Complex.ins)
  BY SMT DEF Complex, MemForm
<1> HIDE DEF e, t3, t6, r, z
<1> QED BY <1>1, <1>2, <1>3, <1>4, <1>5, <1>6, <1>7, <1>8, SMT DEF MemGroup4, e, t3, t6, r, z

\* The shapes of the two-operand groups.
LEMMA MemFormAlu ==
  ASSUME NEW op \in Word, Group(op) \in {8, 9, 11, 12, 13} PROVE MemForm(op, MemAlu(op).ins)
<1> DEFINE e == EaOf(op)  g == Group(op)  m == OpMode(op)  sz == decode_size_00(m % 4)  r == Dn(Nine(op))
<1>1. AluName[g] \in AluNames /\ (g \in {9, 11, 13} => AddrName[g] \in {"SUBA", "CMPA", "ADDA"})
  BY SMT DEF AluName, AddrName, AluNames
<1>2. MemForm(op, Complex.ins)
  BY SMT DEF Complex, MemForm
<1>3. \A k, z : k \in {"CMPA", "ADDA"} => MemForm(op, Mem(Ins(k, z, e, An(Nine(op)))).ins)
  BY InsParts, SMT DEF MemForm, Mem
<1>4. g \in {9, 11, 13} => MemForm(op, Mem(Ins(AddrName[g], WordOrLong(op), e, An(Nine(op)))).ins)
  BY <1>1, <1>3, OtherForm, SMT
<1>5. MemForm(op, Ins(AluName[g], sz, e, r))
  BY <1>1, InsParts, SMT DEF MemForm
<1>6. MemForm(op, Mem(Ins("CMPM", sz, <<3, e[2]>>, <<3, Nine(op)>>)).ins)
  BY OtherForm, SMT
<1>7. FastStore(e) => MemForm(op, Ins(IF g = 11 THEN "EOR" ELSE AluName[g], sz, r, e))
  <2>1. FastStore(e) => e[1] >= 2
    BY DEF FastStore, is_memory
  <2>2. FastStore(e) => MemForm(op, Ins(AluName[g], sz, r, e))
    BY <1>1, <2>1, InsParts, SMT DEF MemForm
  <2>3. MemForm(op, Ins("EOR", sz, r, e))
    BY OtherForm, SMT
  <2> QED BY <2>2, <2>3
<1> HIDE DEF e, g, sz, r
<1>8. /\ \A ok : MemForm(op, MemIf(ok, Ins(AluName[g], sz, e, r)).ins)
      /\ MemForm(op, MemIf(FastStore(e), Ins(IF g = 11 THEN "EOR" ELSE AluName[g], sz, r, e)).ins)
  BY <1>5, <1>7, MemIfForm, Zenon
<1> QED BY <1>2, <1>4, <1>6, <1>8, SMT DEF MemAlu, e, g, sz, r

\* Every answer of DecodedMemOp::decode has one of the shapes.
LEMMA MemForms ==
  ASSUME NEW op \in Word PROVE MemForm(op, MemDecode(op).ins)
<1> DEFINE g == Group(op)  e == EaOf(op)
<1>1. MemForm(op, Complex.ins)
  BY SMT DEF Complex, MemForm
<1>2. \A k : MemForm(op, MemMove(op, k).ins)
  <2> TAKE k
  <2> DEFINE n == IF DstEa(op)[1] = 1 THEN "MOVEA" ELSE "MOVE"
  <2>1. n \in {"MOVE", "MOVEA"}
    OBVIOUS
  <2> HIDE DEF n
  <2>2. MemForm(op, Ins(n, k, e, DstEa(op)))
    BY <2>1, OtherForm, SMT
  <2> QED BY <2>2, MemIfForm, Zenon DEF MemMove, n
<1>3. MemForm(op, MemGroup5(op).ins)
  <2>1. MemForm(op, Ins("DBcc", 2, CondReg(Sub(op), Reg(op)), Imm16))
    BY OtherForm, SMT
  <2>2. \A n, z : n \in {"ADDQ", "SUBQ"} => MemForm(op, Ins(n, z, QuickData(op), e))
    BY InsParts, SMT DEF MemForm
  <2> QED BY <2>1, <2>2, MemIfForm, SMT DEF MemGroup5
<1>4. MemForm(op, MemGroup6(op).ins)
  BY OtherForm, MemIfForm, SMT DEF MemGroup6
<1>5. g \in {8, 9, 11, 12, 13} => MemForm(op, MemAlu(op).ins)
  BY MemFormAlu
<1>6. MemForm(op, MemGroup0(op).ins) /\ MemForm(op, MemGroup4(op).ins)
  BY MemForm0, MemForm4
<1> HIDE DEF g, e
<1> QED BY <1>1, <1>2, <1>3, <1>4, <1>5, <1>6, SMT DEF MemDecode, g

----------------------------------------------------------------------------
(* The length of an instruction in words. *)

\* An operand that is in the opcode word: registers, (An), (An)+, -(An), constants.
NoExtension(o) == o[1] \in {0, 1, 2, 3, 4, 8, 9, 10, 13}

\* An operand in the opcode word takes no extension word.
LEMMA NoWords ==
  ASSUME NEW c, NEW o, NEW sz, NEW w, NoExtension(o)
  PROVE  OperandWords(c, o, sz, w) = 0
<1>1. o \notin {<<7, 0>>, <<7, 1>>, <<7, 2>>, <<7, 3>>, <<7, 4>>, <<11, 0>>, <<12, 0>>}
  BY SMT DEF NoExtension
<1>2. o[1] # 5 /\ o[1] # 6
  BY SMT DEF NoExtension
<1> QED BY <1>1, <1>2, Zenon DEF OperandWords, Imm16, Imm32, Imm

\* Displacements, short absolutes, word immediates and brief-format indexed
\* addresses take one.
LEMMA OneWord ==
  ASSUME NEW c, NEW o, NEW sz, NEW w,
         \/ o[1] = 5 \/ o \in {Imm16, <<7, 0>>, <<7, 2>>}
         \/ (o[1] = 6 \/ o = <<7, 3>>) /\ ~FullFormat(c, w)
  PROVE  OperandWords(c, o, sz, w) = 1
<1>1. CASE o[1] = 5
  <2>1. o[1] # 6 /\ o \notin {<<7, 1>>, <<7, 3>>, <<7, 4>>, <<12, 0>>}
    BY <1>1, SMT
  <2> QED BY <1>1, <2>1, Zenon DEF OperandWords, Imm32, Imm
<1>2. CASE o \in {Imm16, <<7, 0>>, <<7, 2>>}
  <2>1. o[1] # 6 /\ o \notin {<<7, 1>>, <<7, 3>>, <<7, 4>>, <<12, 0>>}
    BY <1>2, SMT DEF Imm16
  <2> QED BY <1>2, <2>1, Zenon DEF OperandWords, Imm32, Imm
<1>3. CASE o[1] = 6 /\ ~FullFormat(c, w)
  <2>1. o \notin {<<7, 0>>, <<7, 1>>, <<7, 2>>, <<7, 4>>, <<11, 0>>, <<12, 0>>}
    BY <1>3, SMT
  <2> QED BY <1>3, <2>1, SMT DEF OperandWords, Imm16, Imm32, Imm
<1>4. CASE o = <<7, 3>> /\ ~FullFormat(c, w)
  <2>1. o \notin {<<7, 0>>, <<7, 1>>, <<7, 2>>, <<7, 4>>, <<11, 0>>, <<12, 0>>} /\ o[1] = 7
    BY <1>4, SMT
  <2> QED BY <1>4, <2>1, SMT DEF OperandWords, Imm16, Imm32, Imm
<1> QED BY <1>1, <1>2, <1>3, <1>4

\* Long absolutes and long displacements take two, an immediate its size.
LEMMA LongWords ==
  ASSUME NEW c, NEW sz, NEW w
  PROVE  /\ OperandWords(c, <<7, 1>>, sz, w) = 2 /\ OperandWords(c, Imm32, sz, w) = 2
         /\ OperandWords(c, Imm, sz, w) = ImmWords(sz)
BY SMT DEF OperandWords, Imm16, Imm32, Imm

\* An immediate takes one word or two.
LEMMA ImmediateLength == ASSUME NEW sz PROVE ImmWords(sz) \in {1, 2}
BY DEF ImmWords

\* The lengths of the instructions with at most one operand outside the opcode
\* word.
LEMMA ShortWords ==
  ASSUME NEW c, NEW i, NEW x
  PROVE  /\ NoExtension(i.src) /\ NoExtension(i.dst) => Words(c, i, x) = 1
         /\ i.src = Imm16 /\ NoExtension(i.dst) => Words(c, i, x) = 2
         /\ NoExtension(i.src) /\ i.dst = Imm16 => Words(c, i, x) = 2
         /\ i.src = Imm /\ NoExtension(i.dst) => Words(c, i, x) = 1 + ImmWords(i.size)
<1>1. \A o, w : NoExtension(o) => OperandWords(c, o, i.size, w) = 0
  BY NoWords, Zenon
<1>2. \A w : OperandWords(c, Imm16, i.size, w) = 1
  BY OneWord, Zenon
<1>3. \A w : OperandWords(c, Imm, i.size, w) = ImmWords(i.size)
  BY LongWords
<1>4. ImmWords(i.size) \in {1, 2}
  BY ImmediateLength
<1> QED BY <1>1, <1>2, <1>3, <1>4, SMT DEF Words

\* The kinds of the named operands.
LEMMA NamedOperands ==
  /\ \A k : Dn(k)[1] = 0 /\ An(k)[1] = 1 /\ Quick(k)[1] = 8 /\ Cond(k)[1] = 9 /\ Disp8(k)[1] = 13
  /\ \A k, r : CondReg(k, r)[1] = 9
  /\ NoOpnd[1] = 10 /\ Imm[1] = 7 /\ Imm16[1] = 11
BY SMT DEF Dn, An, Quick, Cond, CondReg, Disp8, NoOpnd, Imm, Imm16

----------------------------------------------------------------------------
(* What the trace recorder records. *)

\* What TraceDecodeAgrees asks of a recorded operation r.
TraceRight(c, s, op, x, r) ==
  LET i == dispatch_instruction(c, s, op, x)
  IN \/ i = r.ins /\ r.words = Words(c, i, x)
     \/ i = Illegal /\ LooseForm(op)

\* A recording is right when it is what is executed, with its length.
LEMMA RightIf ==
  ASSUME NEW c, NEW s, NEW op, NEW x, NEW r, NEW i, NEW n,
         r = Recorded(i, n), dispatch_instruction(c, s, op, x) = i, Words(c, i, x) = n
  PROVE  TraceRight(c, s, op, x, r)
<1>1. r.ins = i /\ r.words = n
  BY SMT DEF Recorded
<1> QED BY <1>1, Zenon DEF TraceRight

\* A word the memory decoder admits is executed as it was decoded.
LEMMA MemTrace ==
  ASSUME NEW op \in Word, NEW c, NEW s \in BOOLEAN, NEW x, NEW i, MemDecode(op) = Mem(i)
  PROVE  dispatch_instruction(c, s, op, x) = i
<1>1. MemDecode(op).kind = "Mem" /\ MemDecode(op).ins = i
  BY SMT DEF Mem
<1> QED BY <1>1, MemAgrees, Zenon

\* The word made of five octal digits.
Joined(g, n, m, d, r) == 4096 * g + 512 * n + 64 * m + 8 * d + r

\* The fields of a word made of given digits are these digits.
LEMMA FieldsOf ==
  ASSUME NEW op \in Word, NEW G \in Nat, NEW N \in Digit, NEW M \in Digit, NEW D \in Digit, NEW R \in Digit,
         op = Joined(G, N, M, D, R)
  PROVE  Group(op) = G /\ Nine(op) = N /\ OpMode(op) = M /\ Mode(op) = D /\ Reg(op) = R
<1> DEFINE g == Group(op)  n == Nine(op)  m == OpMode(op)  d == Mode(op)  r == Reg(op)
           b3 == 8 * g + n  b2 == 64 * g + 8 * n + m  b1 == 512 * g + 64 * n + 8 * m + d
           B3 == 8 * G + N  B2 == 64 * G + 8 * N + M  B1 == 512 * G + 64 * N + 8 * M + D
<1>g. g \in Nat /\ n \in Digit /\ m \in Digit /\ d \in Digit /\ r \in Digit
  BY Shape, SMT DEF Digit
<1>s. 4096 * g + 512 * n + 64 * m + 8 * d + r = 4096 * G + 512 * N + 64 * M + 8 * D + R
  BY Digits DEF Joined
<1> HIDE DEF g, n, m, d, r
<1>0. /\ b1 \in Nat /\ b2 \in Nat /\ b3 \in Nat /\ B1 \in Nat /\ B2 \in Nat /\ B3 \in Nat
      /\ 8 * b1 + r = 8 * B1 + R /\ b1 = 8 * b2 + d /\ B1 = 8 * B2 + D
      /\ b2 = 8 * b3 + m /\ B2 = 8 * B3 + M
  BY <1>g, <1>s, SMT DEF Digit
<1>h. b3 = 8 * g + n /\ B3 = 8 * G + N
  OBVIOUS
<1> HIDE DEF b1, b2, b3, B1, B2, B3
<1>1. \A p, q \in Nat : \A u, v \in Digit : 8 * p + u = 8 * q + v => p = q /\ u = v
  BY SMT DEF Digit
<1>2. b1 = B1 /\ r = R
  BY <1>g, <1>0, <1>1, SMT
<1>3. b2 = B2 /\ d = D
  BY <1>g, <1>0, <1>1, <1>2, SMT
<1>4. b3 = B3 /\ m = M
  BY <1>g, <1>0, <1>1, <1>3, SMT
<1>5. g = G /\ n = N
  BY <1>g, <1>h, <1>1, <1>4, SMT
<1> QED BY <1>2, <1>3, <1>4, <1>5 DEF g, n, m, d, r

\* The digits are digits.
LEMMA SmallDigits == 4 \in Nat /\ {0, 1, 2, 3, 4, 5, 6, 7} \subseteq Digit
BY SMT DEF Digit

\* DBcc, Bcc.W, JSR (An), RTS, RTD, LINK and UNLK are recorded as the dispatcher
\* executes them, with their lengths.
LEMMA TraceFlowRight ==
  ASSUME NEW op \in Word, NEW c, NEW s \in BOOLEAN, NEW x, TraceFlowOp(c, op) # NotRecorded
  PROVE  TraceRight(c, s, op, x, TraceFlowOp(c, op))
<1> DEFINE e == EaOf(op)  g == Group(op)  t3 == op - Reg(op)  r == Reg(op)
<1>0. /\ op = 4096 * g + 512 * Nine(op) + 64 * OpMode(op) + 8 * Mode(op) + Reg(op)
      /\ g \in 0 .. 15
      /\ Nine(op) \in 0 .. 7 /\ OpMode(op) \in 0 .. 7 /\ Mode(op) \in 0 .. 7 /\ Reg(op) \in 0 .. 7
      /\ High(op) \in 0 .. 1 /\ SizeBits(op) \in 0 .. 3
      /\ OpMode(op) = 4 * High(op) + SizeBits(op)
      /\ Sub(op) = 2 * Nine(op) + High(op)
      /\ e[1] = Mode(op) /\ e[2] = Reg(op) /\ e = <<Mode(op), Reg(op)>>
  BY Shape, SMT
<1>t. Top(op, 3) = t3 /\ Top(op, 6) = op - 8 * Mode(op) - Reg(op)
  BY Fields, SMT
<1>1. CASE g = 5 /\ SizeBits(op) = 3 /\ Mode(op) = 1
  <2> DEFINE i == Ins("DBcc", 2, CondReg(Sub(op), r), Imm16)
  <2>1. TraceFlowOp(c, op) = Recorded(i, 2)
    BY <1>0, <1>t, <1>1, SMT DEF TraceFlowOp
  <2>2. MemDecode(op) = Mem(i)
    BY <1>1, SMT DEF MemDecode, MemGroup5, MemIf
  <2>3. i.src[1] = 9 /\ i.dst = Imm16
    BY InsParts, NamedOperands, SMT
  <2> HIDE DEF i
  <2>4. Words(c, i, x) = 2
    BY <2>3, ShortWords, NamedOperands, SMT DEF NoExtension
  <2>5. dispatch_instruction(c, s, op, x) = i
    BY <2>2, MemTrace
  <2> QED BY <2>1, <2>4, <2>5, RightIf, Zenon
<1>2. CASE g = 6 /\ op % 256 = 0 /\ Sub(op) # 1
  <2> DEFINE i == Ins("Bcc", 0, Cond(Sub(op)), Imm16)
  <2>1. TraceFlowOp(c, op) = Recorded(i, 2)
    BY <1>0, <1>t, <1>2, SMT DEF TraceFlowOp
  <2>2. MemDecode(op) = Mem(i)
    BY <1>2, SMT DEF MemDecode, MemGroup6, MemIf
  <2>3. i.src[1] = 9 /\ i.dst = Imm16
    BY InsParts, NamedOperands, SMT
  <2> HIDE DEF i
  <2>4. Words(c, i, x) = 2
    BY <2>3, ShortWords, NamedOperands, SMT DEF NoExtension
  <2>5. dispatch_instruction(c, s, op, x) = i
    BY <2>2, MemTrace
  <2> QED BY <2>1, <2>4, <2>5, RightIf, Zenon
<1>3. CASE t3 = 20112
  <2> DEFINE i == Ins("JSR", 4, e, NoOpnd)
  <2>0. g = 4 /\ Mode(op) = 2 /\ Top(op, 6) = 20096 /\ OpMode(op) = 2
    <3>0. op \in Nat /\ r \in Nat /\ r \in Digit
      BY <1>0, SMT DEF Word, Digit
    <3>1. op = Joined(4, 7, 2, 2, r)
      BY <3>0, <1>3, SMT DEF Joined
    <3>2. 4 \in Nat /\ 7 \in Digit /\ 2 \in Digit /\ 2 \in Digit /\ 5 \in Digit /\ 4 \in Digit
      BY SmallDigits, SMT
    <3>3. Group(op) = 4 /\ OpMode(op) = 2 /\ Mode(op) = 2 /\ Reg(op) = r
      BY <3>0, <3>1, <3>2, FieldsOf, SMT
    <3> QED BY <3>0, <3>3, <1>t, <1>3, SMT
  <2>1. TraceFlowOp(c, op) = Recorded(i, 1)
    BY <1>0, <1>t, <1>3, <2>0, SMT DEF TraceFlowOp
  <2>2. MemDecode(op) = Mem(i)
    <3>1. is_control(e)
      BY <1>0, <2>0, SMT DEF is_control, EaDecodes
    <3>2. MemGroup4(op) = Mem(i)
      BY <1>0, <1>t, <1>3, <2>0, <3>1, SMT DEF MemGroup4, MemIf
    <3> HIDE DEF i
    <3> QED BY <2>0, <3>2, SMT DEF MemDecode
  <2>3. i.src[1] = 2 /\ i.dst = NoOpnd
    BY <1>0, <2>0, InsParts, SMT
  <2> HIDE DEF i
  <2>4. Words(c, i, x) = 1
    BY <2>3, ShortWords, NamedOperands, SMT DEF NoExtension
  <2>5. dispatch_instruction(c, s, op, x) = i
    BY <2>2, MemTrace
  <2> QED BY <2>1, <2>4, <2>5, RightIf, Zenon
<1>4. CASE op = 20085
  <2> DEFINE i == Bare("RTS")
  <2>0. g = 4 /\ Mode(op) = 6 /\ OpMode(op) = 1 /\ Reg(op) = 5 /\ t3 = 20080
    <3>0. op \in Nat /\ r \in Nat /\ r \in Digit
      BY <1>0, SMT DEF Word, Digit
    <3>1. op = Joined(4, 7, 1, 6, 5)
      BY <3>0, <1>4, SMT DEF Joined
    <3>2. 4 \in Nat /\ 7 \in Digit /\ 1 \in Digit /\ 6 \in Digit /\ 5 \in Digit /\ 4 \in Digit
      BY SmallDigits, SMT
    <3>3. Group(op) = 4 /\ OpMode(op) = 1 /\ Mode(op) = 6 /\ Reg(op) = 5
      BY <3>0, <3>1, <3>2, FieldsOf, SMT
    <3> QED BY <3>0, <3>3, <1>t, <1>4, SMT
  <2>1. TraceFlowOp(c, op) = Recorded(i, 1)
    BY <1>t, <1>4, <2>0, SMT DEF TraceFlowOp
  <2>2. MemDecode(op) = Mem(i)
    <3>2. MemGroup4(op) = Mem(i)
      BY <1>0, <1>t, <1>4, <2>0, SMT DEF MemGroup4
    <3> HIDE DEF i
    <3> QED BY <2>0, <3>2, SMT DEF MemDecode
  <2>3. i.src = NoOpnd /\ i.dst = NoOpnd
    BY InsParts, SMT DEF Bare
  <2> HIDE DEF i
  <2>4. Words(c, i, x) = 1
    BY <2>3, ShortWords, NamedOperands, SMT DEF NoExtension
  <2>5. dispatch_instruction(c, s, op, x) = i
    BY <2>2, MemTrace
  <2> QED BY <2>1, <2>4, <2>5, RightIf, Zenon
<1>5. CASE op = 20084 /\ c \notin M000
  <2> DEFINE i == Ins("RTD", 4, Imm16, NoOpnd)
  <2>0. g = 4 /\ Mode(op) = 6 /\ OpMode(op) = 1 /\ Reg(op) = 4 /\ t3 = 20080
    <3>0. op \in Nat /\ r \in Nat /\ r \in Digit
      BY <1>0, SMT DEF Word, Digit
    <3>1. op = Joined(4, 7, 1, 6, 4)
      BY <3>0, <1>5, SMT DEF Joined
    <3>2. 4 \in Nat /\ 7 \in Digit /\ 1 \in Digit /\ 6 \in Digit /\ 5 \in Digit /\ 4 \in Digit
      BY SmallDigits, SMT
    <3>3. Group(op) = 4 /\ OpMode(op) = 1 /\ Mode(op) = 6 /\ Reg(op) = 4
      BY <3>0, <3>1, <3>2, FieldsOf, SMT
    <3> QED BY <3>0, <3>3, <1>t, <1>5, SMT
  <2>1. TraceFlowOp(c, op) = Recorded(i, 2)
    BY <1>t, <1>5, <2>0, SMT DEF TraceFlowOp
  <2>2. Group4Early(c, s, op) = NotDecoded
    BY <1>0, <1>5, <2>0, Early, SMT
  <2>3. Group4Words(c, s, op, x) = i
    BY <1>5, SMT DEF Group4Words, Legal
  <2>4. i # NotDecoded /\ i.src = Imm16 /\ i.dst = NoOpnd
    BY SMT DEF NotDecoded, Bare, Ins
  <2> HIDE DEF i
  <2>5. dispatch_instruction(c, s, op, x) = i
    BY <2>0, <2>2, <2>3, <2>4, SMT DEF dispatch_instruction, dispatch_group_4
  <2>6. Words(c, i, x) = 2
    BY <2>4, ShortWords, NamedOperands, SMT DEF NoExtension
  <2> QED BY <2>1, <2>5, <2>6, RightIf, Zenon
<1>6. CASE t3 = 20048 /\ r # 7
  <2> DEFINE i == Ins("LINK", 2, Imm16, An(r))
  <2>0. g = 4 /\ Mode(op) = 2 /\ OpMode(op) = 1
    <3>0. op \in Nat /\ r \in Nat /\ r \in Digit
      BY <1>0, SMT DEF Word, Digit
    <3>1. op = Joined(4, 7, 1, 2, r)
      BY <3>0, <1>6, SMT DEF Joined
    <3>2. 4 \in Nat /\ 7 \in Digit /\ 1 \in Digit /\ 2 \in Digit /\ 5 \in Digit /\ 4 \in Digit
      BY SmallDigits, SMT
    <3>3. Group(op) = 4 /\ OpMode(op) = 1 /\ Mode(op) = 2 /\ Reg(op) = r
      BY <3>0, <3>1, <3>2, FieldsOf, SMT
    <3> QED BY <3>0, <3>3, <1>t, <1>6, SMT
  <2>1. TraceFlowOp(c, op) = Recorded(i, 2)
    BY <1>0, <1>t, <1>6, <2>0, SMT DEF TraceFlowOp
  <2>2. MemDecode(op) = Mem(i)
    <3>2. MemGroup4(op) = Mem(i)
      BY <1>0, <1>t, <1>6, <2>0, SMT DEF MemGroup4
    <3> HIDE DEF i
    <3> QED BY <2>0, <3>2, SMT DEF MemDecode
  <2>3. i.src = Imm16 /\ i.dst[1] = 1
    BY InsParts, NamedOperands, SMT
  <2> HIDE DEF i
  <2>4. Words(c, i, x) = 2
    BY <2>3, ShortWords, NamedOperands, SMT DEF NoExtension
  <2>5. dispatch_instruction(c, s, op, x) = i
    BY <2>2, MemTrace
  <2> QED BY <2>1, <2>4, <2>5, RightIf, Zenon
<1>7. CASE t3 = 20056 /\ r # 7
  <2> DEFINE i == Ins("UNLK", 4, NoOpnd, An(r))
  <2>0. g = 4 /\ Mode(op) = 3 /\ OpMode(op) = 1
    <3>0. op \in Nat /\ r \in Nat /\ r \in Digit
      BY <1>0, SMT DEF Word, Digit
    <3>1. op = Joined(4, 7, 1, 3, r)
      BY <3>0, <1>7, SMT DEF Joined
    <3>2. 4 \in Nat /\ 7 \in Digit /\ 1 \in Digit /\ 3 \in Digit /\ 5 \in Digit /\ 4 \in Digit
      BY SmallDigits, SMT
    <3>3. Group(op) = 4 /\ OpMode(op) = 1 /\ Mode(op) = 3 /\ Reg(op) = r
      BY <3>0, <3>1, <3>2, FieldsOf, SMT
    <3> QED BY <3>0, <3>3, <1>t, <1>7, SMT
  <2>1. TraceFlowOp(c, op) = Recorded(i, 1)
    BY <1>0, <1>t, <1>7, <2>0, SMT DEF TraceFlowOp
  <2>2. MemDecode(op) = Mem(i)
    <3>2. MemGroup4(op) = Mem(i)
      BY <1>0, <1>t, <1>7, <2>0, SMT DEF MemGroup4
    <3> HIDE DEF i
    <3> QED BY <2>0, <3>2, SMT DEF MemDecode
  <2>3. i.src = NoOpnd /\ i.dst[1] = 1
    BY InsParts, NamedOperands, SMT
  <2> HIDE DEF i
  <2>4. Words(c, i, x) = 1
    BY <2>3, ShortWords, NamedOperands, SMT DEF NoExtension
  <2>5. dispatch_instruction(c, s, op, x) = i
    BY <2>2, MemTrace
  <2> QED BY <2>1, <2>4, <2>5, RightIf, Zenon
<1>8. CASE /\ ~(g = 5 /\ SizeBits(op) = 3 /\ Mode(op) = 1) /\ ~(g = 6 /\ op % 256 = 0 /\ Sub(op) # 1)
           /\ t3 # 20112 /\ op # 20085 /\ ~(op = 20084 /\ c \notin M000)
           /\ ~(t3 = 20048 /\ r # 7) /\ ~(t3 = 20056 /\ r # 7)
  BY <1>t, <1>8, SMT DEF TraceFlowOp
<1> QED BY <1>1, <1>2, <1>3, <1>4, <1>5, <1>6, <1>7, <1>8

\* A memory op recorded with its length is right.
LEMMA MemIsExecuted ==
  ASSUME NEW op \in Word, NEW c, NEW s \in BOOLEAN, NEW x, NEW n,
         MemDecode(op).ins.name # "none", Words(c, MemDecode(op).ins, x) = n
  PROVE  TraceRight(c, s, op, x, Recorded(MemDecode(op).ins, n))
<1> DEFINE i == MemDecode(op).ins
<1>1. Complex.ins.name = "none"
  BY SMT DEF Complex, NotDecoded, Bare, Ins
<1>2. MemDecode(op).kind = "Mem"
  BY <1>1, MemOrComplex, SMT
<1>3. dispatch_instruction(c, s, op, x) = i
  BY <1>2, MemAgrees, Zenon
<1> QED BY <1>3, RightIf, Zenon

\* What is recorded under a condition is recorded because it holds.
LEMMA RecordIfTrue ==
  ASSUME NEW ok, NEW i, NEW n, RecordIf(ok, i, n) # NotRecorded
  PROVE  ok /\ RecordIf(ok, i, n) = Recorded(i, n)
BY DEF RecordIf

\* An address that decode_jit_ea admits has the length it was given.
LEMMA JitWords ==
  ASSUME NEW c, NEW e, NEW sz, NEW w, decode_jit_ea(c, e, w), e[1] \in 0 .. 6
  PROVE  OperandWords(c, e, sz, w) = JitEaWords(e)
<1>1. CASE e[1] \in {5, 6}
  <2>1. e[1] = 5 \/ (e[1] = 6 /\ ~FullFormat(c, w))
    BY <1>1, SMT DEF decode_jit_ea
  <2> QED BY <1>1, <2>1, OneWord, SMT DEF JitEaWords
<1>2. CASE e[1] \notin {5, 6}
  <2>1. NoExtension(e)
    BY <1>2, SMT DEF NoExtension
  <2> QED BY <1>2, <2>1, NoWords, SMT DEF JitEaWords
<1> QED BY <1>1, <1>2

\* An absolute address has the length it was given.
LEMMA AbsoluteWords ==
  ASSUME NEW c, NEW e \in AbsForms, NEW sz, NEW w
  PROVE  OperandWords(c, e, sz, w) = AbsWords(e) /\ AbsWords(e) \in {1, 2}
<1>1. CASE e = <<7, 0>>
  BY <1>1, OneWord, SMT DEF AbsWords
<1>2. CASE e = <<7, 1>>
  BY <1>2, LongWords, SMT DEF AbsWords
<1> QED BY <1>1, <1>2 DEF AbsForms

\* One operand in the opcode word leaves the length to the other.
LEMMA OneOperandWords ==
  ASSUME NEW c, NEW i, NEW x, NEW n \in {0, 1, 2}
  PROVE  /\ NoExtension(i.src) /\ OperandWords(c, i.dst, i.size, x[1]) = n => Words(c, i, x) = 1 + n
         /\ NoExtension(i.dst) /\ OperandWords(c, i.src, i.size, x[1]) = n => Words(c, i, x) = 1 + n
<1>1. \A o, w : NoExtension(o) => OperandWords(c, o, i.size, w) = 0
  BY NoWords, Zenon
<1> QED BY <1>1, SMT DEF Words

\* An immediate followed by an address: the address is read after the immediate.
LEMMA ImmediateThen ==
  ASSUME NEW c, NEW i, NEW x, NEW k \in {1, 2}, NEW n \in {0, 1},
         OperandWords(c, i.src, i.size, x[1]) = k, OperandWords(c, i.dst, i.size, x[k + 1]) = n
  PROVE  Words(c, i, x) = 1 + k + n
BY SMT DEF Words

\* The immediate instructions are recorded as the dispatcher executes them, with
\* their lengths: a long immediate counts two words.
LEMMA TraceImmediateRight ==
  ASSUME NEW op \in Word, NEW c, NEW s \in BOOLEAN, NEW x,
         TraceImmediateOp(c, op, x, MemDecode(op).ins) # NotRecorded
  PROVE  TraceRight(c, s, op, x, TraceImmediateOp(c, op, x, MemDecode(op).ins))
<1> DEFINE e == EaOf(op)  i == MemDecode(op).ins  alu == i.name \in ImmNames
           t == TraceImmediateOp(c, op, x, MemDecode(op).ins)  bit == op \div 256 = 8 /\ Mode(op) = 0
           mul == Group(op) = 12 /\ e = Imm /\ OpMode(op) \in {3, 7}
           cmpi == i.name = "CMPI" /\ i.size = 2
           cmpa == i.name = "CMPA" /\ i.src = Imm
           mull == Top(op, 3) = 19456 /\ c \notin Pre020
           mov == Group(op) \in {2, 3} /\ e = Imm /\ OpMode(op) = 0
<1>0. /\ op = 4096 * Group(op) + 512 * Nine(op) + 64 * OpMode(op) + 8 * Mode(op) + Reg(op)
      /\ Group(op) \in 0 .. 15
      /\ Nine(op) \in 0 .. 7 /\ OpMode(op) \in 0 .. 7 /\ Mode(op) \in 0 .. 7 /\ Reg(op) \in 0 .. 7
      /\ High(op) \in 0 .. 1 /\ SizeBits(op) \in 0 .. 3
      /\ OpMode(op) = 4 * High(op) + SizeBits(op)
      /\ Sub(op) = 2 * Nine(op) + High(op)
      /\ e[1] = Mode(op) /\ e[2] = Reg(op) /\ e = <<Mode(op), Reg(op)>>
  BY Shape, SMT
<1>f. /\ MemForm(op, i)
      /\ NotDecoded.name = "none"
  BY MemForms, SMT DEF NotDecoded, Bare, Ins
<1>n. i.name \in ImmNames => i.src = Imm /\ i.dst = e
  BY <1>f, SMT DEF MemForm, ImmNames, BitNames, AluNames
<1>i. "CMPI" \in ImmNames /\ (i.name \in ImmNames => i.name # "none")
  BY SMT DEF ImmNames
<1>d. /\ alu /\ i.dst[1] = 0 => t = Recorded(i, 1 + ImmWords(i.size))
      /\ ~(alu /\ i.dst[1] = 0) /\ bit => t = Recorded(Ins(BitName[SizeBits(op) + 1], 4, Imm16, e), 2)
      /\ ~(alu /\ i.dst[1] = 0) /\ ~bit /\ mul =>
            t = Recorded(Ins(IF OpMode(op) = 7 THEN "MULS" ELSE "MULU", 2, Imm, Dn(Nine(op))), 2)
      /\ ~(alu /\ i.dst[1] = 0) /\ ~bit /\ ~mul /\ cmpi =>
            t = RecordIf(i.dst[1] \in {5, 6} /\ decode_jit_ea(c, i.dst, x[2]), i, 3)
      /\ ~(alu /\ i.dst[1] = 0) /\ ~bit /\ ~mul /\ ~cmpi /\ cmpa => t = Recorded(i, 1 + ImmWords(i.size))
      /\ ~(alu /\ i.dst[1] = 0) /\ ~bit /\ ~mul /\ ~cmpi /\ ~cmpa /\ mull =>
            t = RecordIf(~MaskHas(x[1], 10), Ins("MULL", 4, Imm16, e), 2)
      /\ ~(alu /\ i.dst[1] = 0) /\ ~bit /\ ~mul /\ ~cmpi /\ ~cmpa /\ ~mull /\ mov =>
            t = LET sz == IF Group(op) = 2 THEN 4 ELSE 2
                IN Recorded(Ins("MOVE", sz, Imm, Dn(Nine(op))), 1 + ImmWords(sz))
      /\ ~(alu /\ i.dst[1] = 0) /\ ~bit /\ ~mul /\ ~cmpi /\ ~cmpa /\ ~mull /\ ~mov => t = NotRecorded
  BY SMT DEF TraceImmediateOp, ImmNames
<1>1. CASE alu /\ i.dst[1] = 0 /\ t = Recorded(i, 1 + ImmWords(i.size))
  <2>1. NoExtension(i.dst)
    BY <1>1, SMT DEF NoExtension
  <2>2. Words(c, i, x) = 1 + ImmWords(i.size)
    BY <1>n, <1>1, <2>1, ShortWords, Zenon
  <2> QED BY <1>i, <1>1, <2>2, MemIsExecuted, Zenon
<1>2. CASE bit /\ t = Recorded(Ins(BitName[SizeBits(op) + 1], 4, Imm16, e), 2)
  <2> DEFINE b == Ins(BitName[SizeBits(op) + 1], 4, Imm16, e)
  <2>1. Group(op) = 0 /\ Sub(op) = 8
    BY <1>0, <1>2, Fields, SMT
  <2>2. High(op) = 0 /\ e[1] = 0
    BY <1>0, <1>2, <2>1, SMT
  <2>3. ~Bit8(op)
    BY <2>2, Shape, SMT
  <2>4. MemGroup0(op) = Mem(b)
    BY <1>2, <2>2, <2>3, Zenon DEF MemGroup0
  <2>5. b.src = Imm16 /\ NoExtension(b.dst)
    BY <2>2, InsParts, SMT DEF NoExtension
  <2> HIDE DEF b
  <2>6. MemDecode(op) = Mem(b)
    BY <2>1, <2>4, SMT DEF MemDecode
  <2>7. dispatch_instruction(c, s, op, x) = b /\ Words(c, b, x) = 2
    BY <2>5, <2>6, MemTrace, ShortWords, Zenon
  <2> QED BY <1>2, <2>7, RightIf, Zenon DEF b
<1>3. CASE mul /\ t = Recorded(Ins(IF OpMode(op) = 7 THEN "MULS" ELSE "MULU", 2, Imm, Dn(Nine(op))), 2)
  <2> DEFINE b == Ins(IF OpMode(op) = 7 THEN "MULS" ELSE "MULU", 2, Imm, Dn(Nine(op)))
  <2>1. dispatch_instruction(c, s, op, x) = dispatch_group_c(op)
    BY <1>3, SMT DEF dispatch_instruction
  <2>2. DataEa(e)
    BY <1>0, <1>3, SMT DEF DataEa, EaDecodes, Imm
  <2>3. dispatch_group_c(op) = b
    BY <1>3, <2>2, SMT DEF dispatch_group_c, Legal
  <2>4. b.src = Imm /\ NoExtension(b.dst) /\ b.size = 2
    BY InsParts, NamedOperands, SMT DEF NoExtension
  <2> HIDE DEF b
  <2>5. Words(c, b, x) = 1 + ImmWords(b.size)
    BY <2>4, ShortWords, Zenon
  <2>6. Words(c, b, x) = 2
    BY <2>4, <2>5, SMT DEF ImmWords
  <2> QED BY <1>3, <2>1, <2>3, <2>6, RightIf, Zenon DEF b
<1>4. CASE cmpi /\ t = RecordIf(i.dst[1] \in {5, 6} /\ decode_jit_ea(c, i.dst, x[2]), i, 3)
  <2>1. i.dst[1] \in {5, 6} /\ decode_jit_ea(c, i.dst, x[2]) /\ t = Recorded(i, 3)
    BY <1>4, RecordIfTrue, Zenon
  <2>2. i.src = Imm /\ i.name # "none"
    BY <1>4, <1>i, <1>n
  <2>3. OperandWords(c, i.src, i.size, x[1]) = 1
    BY <1>4, <2>2, LongWords, SMT DEF ImmWords
  <2>4. OperandWords(c, i.dst, i.size, x[2]) = 1
    BY <2>1, JitWords, SMT DEF JitEaWords
  <2>5. Words(c, i, x) = 3
    BY <2>3, <2>4, SMT DEF Words
  <2> QED BY <2>1, <2>2, <2>5, MemIsExecuted, Zenon
<1>5. CASE cmpa /\ t = Recorded(i, 1 + ImmWords(i.size))
  <2>1. i.dst = An(Nine(op)) /\ i.name # "none"
    BY <1>f, <1>5, SMT DEF MemForm, ImmNames, BitNames, AluNames
  <2>2. NoExtension(i.dst)
    BY <2>1, NamedOperands, SMT DEF NoExtension
  <2>3. Words(c, i, x) = 1 + ImmWords(i.size)
    BY <1>5, <2>2, ShortWords, Zenon
  <2> QED BY <1>5, <2>1, <2>3, MemIsExecuted, Zenon
<1>6. CASE mull /\ t = RecordIf(~MaskHas(x[1], 10), Ins("MULL", 4, Imm16, e), 2)
  <2> DEFINE b == Ins("MULL", 4, Imm16, e)
  <2>0. t = RecordIf(~MaskHas(x[1], 10), b, 2) /\ t # NotRecorded
    BY <1>6, SMT
  <2>1. t = Recorded(b, 2)
    BY <2>0 DEF RecordIf
  <2>2. Group(op) = 4 /\ Mode(op) = 0 /\ OpMode(op) = 0 /\ Top(op, 6) = 19456
    <3>1. op - Reg(op) = 19456
      BY <1>6, Fields, SMT
    <3>2. op = Joined(4, 6, 0, 0, Reg(op))
      <4>1. op \in Nat /\ Reg(op) \in Nat
        BY <1>0, SMT DEF Word
      <4> QED BY <3>1, <4>1, SMT DEF Joined
    <3>3. 4 \in Nat /\ 6 \in Digit /\ 0 \in Digit /\ Reg(op) \in Digit
      BY SmallDigits, Digits, SMT
    <3>4. Group(op) = 4 /\ OpMode(op) = 0 /\ Mode(op) = 0
      BY <3>2, <3>3, FieldsOf
    <3> QED BY <1>0, <3>1, <3>4, Fields, SMT
  <2>3. DataEa(e)
    BY <1>0, <2>2, SMT DEF DataEa, EaDecodes
  <2>4. Group4Early(c, s, op) = b
    BY <1>6, <2>2, <2>3, SMT DEF Group4Early, Legal
  <2>5. b # NotDecoded /\ b.src = Imm16 /\ NoExtension(b.dst)
    BY <1>0, <2>2, InsParts, SMT DEF NotDecoded, Bare, NoExtension
  <2> HIDE DEF b
  <2>6. dispatch_instruction(c, s, op, x) = b
    BY <2>2, <2>4, <2>5, SMT DEF dispatch_instruction, dispatch_group_4
  <2>7. Words(c, b, x) = 2
    BY <2>5, ShortWords, Zenon
  <2> QED BY <2>1, <2>6, <2>7, RightIf, Zenon
<1>7. CASE mov /\ t = LET sz == IF Group(op) = 2 THEN 4 ELSE 2
                      IN Recorded(Ins("MOVE", sz, Imm, Dn(Nine(op))), 1 + ImmWords(sz))
  <2> DEFINE sz == IF Group(op) = 2 THEN 4 ELSE 2  b == Ins("MOVE", sz, Imm, Dn(Nine(op)))
  <2>1. dispatch_instruction(c, s, op, x) = dispatch_move(op, sz)
    BY <1>7, SMT DEF dispatch_instruction
  <2>2. sz # 1 /\ t = Recorded(b, 1 + ImmWords(sz))
    BY <1>7, SMT
  <2>3. b.src = Imm /\ NoExtension(b.dst) /\ b.size = sz
    BY InsParts, NamedOperands, SMT DEF NoExtension
  <2> HIDE DEF sz
  <2>4. EaDecodes(e) /\ DstEa(op)[1] = 0 /\ DstEa(op) = Dn(Nine(op))
    BY <1>0, <1>7, SMT DEF EaDecodes, DstEa, Imm, Dn
  <2>5. dispatch_move(op, sz) = b
    BY <1>7, <2>2, <2>4, SMT DEF dispatch_move
  <2> HIDE DEF b
  <2>6. Words(c, b, x) = 1 + ImmWords(sz)
    BY <2>3, ShortWords, Zenon
  <2> QED BY <2>1, <2>2, <2>5, <2>6, RightIf, Zenon
<1> HIDE DEF bit, mul, cmpi, cmpa, mull, mov, alu, i
<1> QED BY <1>d, <1>1, <1>2, <1>3, <1>4, <1>5, <1>6, <1>7, Zenon DEF i

\* What decode_an_disp_trace_op admits is recorded as it is executed, with its
\* length, a bit number and a displacement included.
LEMMA TraceAnDispRight ==
  ASSUME NEW op \in Word, NEW c, NEW s \in BOOLEAN, NEW x,
         decode_an_disp_trace_op(c, op, x, MemDecode(op).ins) # NotRecorded
  PROVE  TraceRight(c, s, op, x, decode_an_disp_trace_op(c, op, x, MemDecode(op).ins))
<1> DEFINE i == MemDecode(op).ins  f == EaOf(op)
           t == decode_an_disp_trace_op(c, op, x, i)
           e == IF i.name \in {"PEA", "LEA"} THEN i.src ELSE i.dst
           words == IF e[1] = 7 THEN AbsWords(e) ELSE JitEaWords(e)
           ext == IF i.src = Imm16 THEN 1 ELSE 0
<1>1. /\ AnDispAdmits(i.name, e) /\ (e[1] = 6 => ~FullFormat(c, x[1]))
      /\ t = Recorded(i, 1 + words + ext)
  BY RecordIfTrue, Zenon DEF decode_an_disp_trace_op
<1>2. /\ f[1] = Mode(op) /\ Mode(op) \in 0 .. 7
      /\ MemForm(op, i) /\ NotDecoded.name = "none"
  BY Shape, MemForms, SMT DEF NotDecoded, Bare, Ins
<1>3. /\ e[1] \in {2, 4, 5, 6} \/ e \in AbsForms
      /\ i.name \in {"TST", "CLR", "PEA", "LEA", "ADDQ", "SUBQ"} \cup BitNames
      /\ i.name \in BitNames => e[1] = 5
  BY <1>1, SMT DEF AnDispAdmits, BitNames
<1>4. /\ i.name = "LEA" => i.src = f /\ i.dst = An(Nine(op))
      /\ i.name = "PEA" => i.src = f /\ i.dst = NoOpnd
      /\ i.name \in {"TST", "CLR"} => i.src = NoOpnd
      /\ i.name \in {"ADDQ", "SUBQ"} => i.src = QuickData(op)
      /\ i.name \in BitNames => i.src \in {Imm16, Dn(Nine(op))}
      /\ i.name # "none"
  BY <1>2, <1>3, SMT DEF MemForm, ImmNames, BitNames, AluNames
<1> HIDE DEF i, t
<1>5. \A w : (e[1] = 6 => ~FullFormat(c, w)) => OperandWords(c, e, i.size, w) = words
  <2> SUFFICES ASSUME NEW w, e[1] = 6 => ~FullFormat(c, w) PROVE OperandWords(c, e, i.size, w) = words
    OBVIOUS
  <2>1. CASE e \in AbsForms
    <3>1. e[1] = 7
      BY <2>1, SMT DEF AbsForms
    <3>2. OperandWords(c, e, i.size, w) = AbsWords(e)
      BY <2>1, AbsoluteWords
    <3> QED BY <3>1, <3>2
  <2>2. CASE e[1] \in {2, 4, 5, 6}
    <3>1. decode_jit_ea(c, e, w) /\ e[1] \in 0 .. 6 /\ e[1] # 7
      BY <2>2, SMT DEF decode_jit_ea
    <3>2. OperandWords(c, e, i.size, w) = JitEaWords(e)
      BY <3>1, JitWords
    <3> QED BY <3>1, <3>2
  <2> QED BY <1>3, <2>1, <2>2
<1>6. words \in {0, 1, 2}
  <2>1. e \in AbsForms => AbsWords(e) \in {1, 2}
    BY AbsoluteWords
  <2>2. e \notin AbsForms => e[1] # 7
    BY <1>3, SMT
  <2>3. e \in AbsForms => e[1] = 7
    BY SMT DEF AbsForms
  <2>4. JitEaWords(e) \in {0, 1}
    BY DEF JitEaWords
  <2> HIDE DEF e
  <2> QED BY <2>1, <2>2, <2>3, <2>4, SMT
<1>7. OperandWords(c, e, i.size, x[1]) = words
  BY <1>1, <1>5, Zenon
<1>8. CASE i.name \in {"PEA", "LEA"}
  <2>1. e = i.src /\ NoExtension(i.dst)
    BY <1>4, <1>8, NamedOperands, SMT DEF NoExtension
  <2>2. i.src # Imm16
    BY <1>2, <1>4, <1>8, SMT DEF Imm16
  <2>3. ext = 0
    BY <2>2
  <2> HIDE DEF words, e, ext
  <2>4. Words(c, i, x) = 1 + words
    BY <1>6, <1>7, <2>1, OneOperandWords, SMT
  <2>5. Words(c, i, x) = 1 + words + ext
    BY <1>6, <2>3, <2>4, SMT
  <2> QED BY <1>1, <1>4, <2>5, MemIsExecuted, Zenon DEF i, t
<1>9. CASE i.name \notin {"PEA", "LEA"} /\ i.src # Imm16
  <2>1. e = i.dst /\ NoExtension(i.src)
    BY <1>3, <1>4, <1>9, NamedOperands, SMT DEF NoExtension, QuickData
  <2>3. ext = 0
    BY <1>9
  <2> HIDE DEF words, e, ext
  <2>4. Words(c, i, x) = 1 + words
    BY <1>6, <1>7, <2>1, OneOperandWords, SMT
  <2>5. Words(c, i, x) = 1 + words + ext
    BY <1>6, <2>3, <2>4, SMT
  <2> QED BY <1>1, <1>4, <2>5, MemIsExecuted, Zenon DEF i, t
<1>10. CASE i.name \notin {"PEA", "LEA"} /\ i.src = Imm16
  <2>1. i.name \in BitNames
    BY <1>3, <1>4, <1>10, SMT DEF QuickData, Quick, NoOpnd, Imm16, BitNames
  <2>2. e = i.dst /\ e[1] = 5 /\ ext = 1
    BY <1>3, <1>10, <2>1, SMT
  <2>3. words = 1
    BY <2>2, SMT DEF JitEaWords
  <2> HIDE DEF words, e, ext
  <2>4. \A w : OperandWords(c, e, i.size, w) = 1
    BY <1>5, <2>2, <2>3, SMT
  <2>5. OperandWords(c, i.src, i.size, x[1]) = 1
    BY <1>10, OneWord, Zenon
  <2>6. Words(c, i, x) = 3
    BY <2>2, <2>4, <2>5, SMT DEF Words
  <2>7. Words(c, i, x) = 1 + words + ext
    BY <2>2, <2>3, <2>6, SMT
  <2> QED BY <1>1, <1>4, <2>7, MemIsExecuted, Zenon DEF i, t
<1> QED BY <1>8, <1>9, <1>10

\* Memory operands of the two-operand instructions and MOVEM are recorded as they
\* are executed, with their lengths.
LEMMA TraceMemoryRight ==
  ASSUME NEW op \in Word, NEW c, NEW s \in BOOLEAN, NEW x,
         TraceMemoryOp(c, op, x, MemDecode(op).ins) # NotRecorded
  PROVE  TraceRight(c, s, op, x, TraceMemoryOp(c, op, x, MemDecode(op).ins))
<1> DEFINE i == MemDecode(op).ins
           t == TraceMemoryOp(c, op, x, i)
           c1 == i.name \in {"CMP", "ADD", "SUB", "AND", "OR"} /\ i.dst[1] = 0 /\ i.src[1] \in {2, 5, 6}
           c2 == i.name \in {"CMPA", "ADDA"} /\ i.src[1] \in {2, 5}
           c3 == i.name \in {"ADD", "SUB"} /\ i.src[1] = 0 /\ i.dst[1] \in {2, 3, 5} /\ i.size # 1
           c4 == i.name \in {"MOVEM_to_registers", "MOVEM_to_memory"}
<1>1. \/ c1 /\ t # NotRecorded /\ t = RecordIf(decode_jit_ea(c, i.src, x[1]), i, 1 + JitEaWords(i.src))
      \/ c2 /\ t = Recorded(i, 1 + JitEaWords(i.src))
      \/ c3 /\ t = Recorded(i, 1 + JitEaWords(i.dst))
      \/ c4 /\ t = Recorded(i, 2)
  <2> HIDE DEF i
  <2>0. t # NotRecorded
    BY DEF i
  <2>1. \A ok, n : RecordIf(ok, i, n) \in {NotRecorded, Recorded(i, n)}
    BY DEF RecordIf
  <2> QED BY <2>0, <2>1, SMT DEF TraceMemoryOp
<1>2. MemForm(op, i) /\ NotDecoded.name = "none"
  BY MemForms, SMT DEF NotDecoded, Bare, Ins
<1> HIDE DEF i, t
<1>n. c1 \/ c2 \/ c3 \/ c4 => i.name # "none"
  BY SMT
<1>j. \A o : JitEaWords(o) \in {0, 1}
  BY DEF JitEaWords
<1>3. CASE c1 /\ t # NotRecorded /\ t = RecordIf(decode_jit_ea(c, i.src, x[1]), i, 1 + JitEaWords(i.src))
  <2>1. decode_jit_ea(c, i.src, x[1]) /\ t = Recorded(i, 1 + JitEaWords(i.src))
    BY <1>3, RecordIfTrue, Zenon
  <2>2. OperandWords(c, i.src, i.size, x[1]) = JitEaWords(i.src)
    BY <1>3, <2>1, JitWords, SMT
  <2>3. NoExtension(i.dst)
    BY <1>3, SMT DEF NoExtension
  <2>4. Words(c, i, x) = 1 + JitEaWords(i.src)
    BY <1>j, <2>2, <2>3, OneOperandWords, SMT
  <2> QED BY <1>n, <1>3, <2>1, <2>4, MemIsExecuted, Zenon DEF i, t
<1>4. CASE c2 /\ t = Recorded(i, 1 + JitEaWords(i.src))
  <2>1. i.dst = An(Nine(op))
    BY <1>2, <1>4, SMT DEF MemForm, ImmNames, BitNames, AluNames
  <2>2. NoExtension(i.dst)
    BY <2>1, NamedOperands, SMT DEF NoExtension
  <2>3. OperandWords(c, i.src, i.size, x[1]) = JitEaWords(i.src)
    BY <1>4, JitWords, SMT DEF decode_jit_ea
  <2>4. Words(c, i, x) = 1 + JitEaWords(i.src)
    BY <1>j, <2>2, <2>3, OneOperandWords, SMT
  <2> QED BY <1>n, <1>4, <2>4, MemIsExecuted, Zenon DEF i, t
<1>5. CASE c3 /\ t = Recorded(i, 1 + JitEaWords(i.dst))
  <2>2. NoExtension(i.src)
    BY <1>5, SMT DEF NoExtension
  <2>3. OperandWords(c, i.dst, i.size, x[1]) = JitEaWords(i.dst)
    BY <1>5, JitWords, SMT DEF decode_jit_ea
  <2>4. Words(c, i, x) = 1 + JitEaWords(i.dst)
    BY <1>j, <2>2, <2>3, OneOperandWords, SMT
  <2> QED BY <1>n, <1>5, <2>4, MemIsExecuted, Zenon DEF i, t
<1>6. CASE c4 /\ t = Recorded(i, 2)
  <2>1. i.src = Imm16 /\ i.dst \in {<<3, Reg(op)>>, <<4, Reg(op)>>}
    BY <1>2, <1>6, SMT DEF MemForm, ImmNames, BitNames, AluNames
  <2>2. NoExtension(i.dst)
    BY <2>1, SMT DEF NoExtension
  <2>3. Words(c, i, x) = 2
    BY <2>1, <2>2, ShortWords, Zenon
  <2> QED BY <1>n, <1>6, <2>3, MemIsExecuted, Zenon DEF i, t
<1> QED BY <1>1, <1>3, <1>4, <1>5, <1>6

\* A MOVE word goes to dispatch_move with the size of its group.
LEMMA MoveDispatch ==
  ASSUME NEW op \in Word, Group(op) \in 1 .. 3, NEW c, NEW s, NEW x
  PROVE  /\ dispatch_instruction(c, s, op, x) = dispatch_move(op, MoveSize(op))
         /\ MoveSize(op) \in {1, 2, 4}
         /\ EaOf(op)[1] \in 0 .. 7 /\ EaOf(op)[2] \in 0 .. 7
         /\ DstEa(op)[1] \in 0 .. 7 /\ DstEa(op)[2] \in 0 .. 7
<1>1. Group(op) \in {1, 2, 3}
  BY SMT
<1>2. /\ Group(op) = 1 => MoveSize(op) = 1
      /\ Group(op) = 2 => MoveSize(op) = 4
      /\ Group(op) = 3 => MoveSize(op) = 2
  BY SMT DEF MoveSize
<1>3. dispatch_instruction(c, s, op, x) = dispatch_move(op, MoveSize(op))
  BY <1>1, <1>2, SMT DEF dispatch_instruction
<1>4. /\ EaOf(op)[1] \in 0 .. 7 /\ EaOf(op)[2] \in 0 .. 7
      /\ DstEa(op)[1] \in 0 .. 7 /\ DstEa(op)[2] \in 0 .. 7
  BY Shape, SMT DEF DstEa
<1> QED BY <1>1, <1>2, <1>3, <1>4, SMT

\* MOVE #imm,<ea> is recorded as it is executed: the extension word of the
\* destination is the one after the immediate.
LEMMA TraceMoveImmRight ==
  ASSUME NEW op \in Word, Group(op) \in 1 .. 3, NEW c, NEW s \in BOOLEAN, NEW x,
         decode_move_imm_mem_trace_op(c, op, x) # NotRecorded
  PROVE  TraceRight(c, s, op, x, decode_move_imm_mem_trace_op(c, op, x))
<1> DEFINE sz == MoveSize(op)  dst == DstEa(op)  k == ImmWords(sz)  n == JitEaWords(dst)
           b == Ins("MOVE", sz, Imm, dst)  t == decode_move_imm_mem_trace_op(c, op, x)
<1>1. /\ EaOf(op) = Imm /\ dst[1] \in 2 .. 6
      /\ dst[1] \in {5, 6} => sz # 4
      /\ dst[1] = 6 => decode_jit_ea(c, dst, x[1 + k])
      /\ t = Recorded(b, 1 + k + n)
  BY RecordIfTrue, Zenon DEF decode_move_imm_mem_trace_op
<1>2. dispatch_instruction(c, s, op, x) = dispatch_move(op, sz)
  BY MoveDispatch, Zenon
<1>3. dispatch_move(op, sz) = b
  <2>1. EaOf(op)[1] = 7 /\ EaDecodes(EaOf(op)) /\ dst[1] # 7 /\ dst[1] # 1
    BY <1>1, SMT DEF Imm, EaDecodes
  <2> HIDE DEF sz, dst
  <2> QED BY <1>1, <2>1, SMT DEF dispatch_move, dst
<1>4. k \in {1, 2} /\ n \in {0, 1}
  BY DEF ImmWords, JitEaWords
<1>5. decode_jit_ea(c, dst, x[k + 1])
  <2>1. 1 + k = k + 1
    BY <1>4, SMT
  <2> HIDE DEF k, dst
  <2> QED BY <1>1, <2>1, SMT DEF decode_jit_ea
<1>6. b.size = sz /\ b.src = Imm /\ b.dst = dst
  BY InsParts, SMT
<1>7. OperandWords(c, Imm, sz, x[1]) = k
  BY LongWords, Zenon
<1>8. OperandWords(c, dst, sz, x[k + 1]) = n
  BY <1>1, <1>5, JitWords, SMT
<1> HIDE DEF b, k, n, sz, dst
<1>9. Words(c, b, x) = 1 + k + n
  BY <1>4, <1>6, <1>7, <1>8, ImmediateThen, SMT
<1> QED BY <1>1, <1>2, <1>3, <1>9, RightIf, Zenon

\* The words counted for an operand of a MOVE are the words it takes.
LEMMA MoveOperandWords ==
  ASSUME NEW c, NEW e, e[1] \in 0 .. 7, NEW sz, NEW w, NEW is_src \in BOOLEAN,
         TraceMoveWords(c, e, w, is_src) # 3
  PROVE  /\ OperandWords(c, e, sz, w) = TraceMoveWords(c, e, w, is_src)
         /\ TraceMoveWords(c, e, w, is_src) \in {0, 1, 2}
         /\ e[1] < 7 \/ e \in AbsForms \/ (is_src /\ e \in {<<7, 2>>, <<7, 3>>})
<1>1. CASE e[1] < 7
  <2>1. e \notin AbsForms /\ e \notin {<<7, 2>>, <<7, 3>>}
    BY <1>1, SMT DEF AbsForms
  <2>2. decode_jit_ea(c, e, w) /\ TraceMoveWords(c, e, w, is_src) = JitEaWords(e)
    BY <1>1, <2>1, SMT DEF TraceMoveWords
  <2>3. OperandWords(c, e, sz, w) = JitEaWords(e)
    BY <1>1, <2>2, JitWords, SMT
  <2> QED BY <1>1, <2>2, <2>3, SMT DEF JitEaWords
<1>2. CASE e \in AbsForms
  <2>1. ~(e[1] < 7) /\ e \notin {<<7, 2>>, <<7, 3>>}
    BY <1>2, SMT DEF AbsForms
  <2>2. TraceMoveWords(c, e, w, is_src) = AbsWords(e)
    BY <1>2, <2>1, SMT DEF TraceMoveWords
  <2>3. OperandWords(c, e, sz, w) = AbsWords(e) /\ AbsWords(e) \in {1, 2}
    BY <1>2, AbsoluteWords, Zenon
  <2> QED BY <1>2, <2>2, <2>3, SMT
<1>3. CASE ~(e[1] < 7) /\ e \notin AbsForms
  <2>1. is_src /\ (e = <<7, 2>> \/ (e = <<7, 3>> /\ ~FullFormat(c, w))) /\ TraceMoveWords(c, e, w, is_src) = 1
    BY <1>3, SMT DEF TraceMoveWords
  <2>2. OperandWords(c, e, sz, w) = 1
    BY <2>1, OneWord, SMT
  <2>3. 1 \in {0, 1, 2} /\ e \in {<<7, 2>>, <<7, 3>>}
    BY <2>1, SMT
  <2>4. is_src /\ TraceMoveWords(c, e, w, is_src) = 1
    BY <2>1, Zenon
  <2> QED BY <2>2, <2>3, <2>4, Zenon
<1> QED BY <1>1, <1>2, <1>3

\* MOVE <ea>,<ea> is recorded as it is executed: the extension word of the
\* destination is the one after the source's.
LEMMA TraceMoveMemRight ==
  ASSUME NEW op \in Word, Group(op) \in 1 .. 3, NEW c, NEW s \in BOOLEAN, NEW x,
         decode_move_mem_trace_op(c, op, x) # NotRecorded
  PROVE  TraceRight(c, s, op, x, decode_move_mem_trace_op(c, op, x))
<1> DEFINE sz == MoveSize(op)  src == EaOf(op)  dst == DstEa(op)
           sw == TraceMoveWords(c, src, x[1], TRUE)
           dw == TraceMoveWords(c, dst, IF sw = 3 THEN 0 ELSE x[1 + sw], FALSE)
           b == Ins(IF dst[1] = 1 THEN "MOVEA" ELSE "MOVE", sz, src, dst)
           t == decode_move_mem_trace_op(c, op, x)
<1>1. /\ sw + dw <= 2
      /\ ~(sz = 1 /\ (src[1] = 1 \/ dst[1] = 1))
      /\ t = Recorded(b, 1 + sw + dw)
  BY RecordIfTrue, Zenon DEF decode_move_mem_trace_op
<1>2. /\ dispatch_instruction(c, s, op, x) = dispatch_move(op, sz)
      /\ src[1] \in 0 .. 7 /\ src[2] \in 0 .. 7 /\ dst[1] \in 0 .. 7 /\ dst[2] \in 0 .. 7
  BY MoveDispatch, SMT
<1>3. \A e, w, i : e[1] \in 0 .. 7 => TraceMoveWords(c, e, w, i) \in {0, 1, 2, 3}
  BY SMT DEF TraceMoveWords, JitEaWords, AbsWords
<1>4. sw \in {0, 1, 2, 3} /\ dw \in {0, 1, 2, 3}
  BY <1>2, <1>3, Zenon
<1>5. sw \in {0, 1, 2} /\ dw \in {0, 1, 2}
  <2> HIDE DEF sw, dw
  <2> QED BY <1>1, <1>4, SMT
<1>6. /\ OperandWords(c, src, sz, x[1]) = sw
      /\ src[1] < 7 \/ src \in AbsForms \/ src \in {<<7, 2>>, <<7, 3>>}
  <2>1. sw # 3
    <3> HIDE DEF sw
    <3> QED BY <1>5, SMT
  <2>2. TRUE \in BOOLEAN
    OBVIOUS
  <2> QED BY <1>2, <2>1, <2>2, MoveOperandWords, Zenon
<1>7. /\ OperandWords(c, dst, sz, IF sw = 3 THEN 0 ELSE x[1 + sw]) = dw
      /\ dst[1] < 7 \/ dst \in AbsForms
  <2> DEFINE w == IF sw = 3 THEN 0 ELSE x[1 + sw]
  <2> HIDE DEF w
  <2>1. TraceMoveWords(c, dst, w, FALSE) = dw
    BY DEF w
  <2>2. TraceMoveWords(c, dst, w, FALSE) # 3
    <3> HIDE DEF dw, sw, dst
    <3>1. dw # 3
      BY <1>5, SMT
    <3> QED BY <2>1, <3>1, Zenon
  <2>3. FALSE \in BOOLEAN
    OBVIOUS
  <2>4. /\ OperandWords(c, dst, sz, w) = TraceMoveWords(c, dst, w, FALSE)
        /\ dst[1] < 7 \/ dst \in AbsForms \/ (FALSE /\ dst \in {<<7, 2>>, <<7, 3>>})
    BY <1>2, <2>2, <2>3, MoveOperandWords, Zenon
  <2> QED BY <2>1, <2>4, Zenon DEF w
<1>8. dispatch_move(op, sz) = b
  <2>1. EaDecodes(src)
    BY <1>2, <1>6, SMT DEF EaDecodes, AbsForms
  <2>2. ~(dst[1] = 7 /\ dst[2] > 1)
    BY <1>2, <1>7, SMT DEF AbsForms
  <2> HIDE DEF sw, dw
  <2> QED BY <1>1, <2>1, <2>2, SMT DEF dispatch_move, Legal
<1>9. b.size = sz /\ b.src = src /\ b.dst = dst
  BY InsParts, SMT
<1> HIDE DEF b, sw, dw, sz, src, dst
<1>10. Words(c, b, x) = 1 + sw + dw
  <2>1. sw < 3 /\ sw # 3 /\ 1 + sw = sw + 1
    BY <1>5, SMT
  <2>2. OperandWords(c, dst, sz, x[sw + 1]) = dw
    BY <1>7, <2>1, Zenon
  <2> QED BY <1>6, <1>9, <2>1, <2>2, SMT DEF Words
<1> QED BY <1>1, <1>2, <1>8, <1>10, RightIf, Zenon

\* JSR and JMP with an absolute or a PC-relative address.
LEMMA Jumps ==
  ASSUME NEW op \in Word, Group(op) = 4, Nine(op) = 7, OpMode(op) \in {2, 3}, Mode(op) = 7, is_control(EaOf(op))
  PROVE  /\ Top(op, 6) = 20096 => MemDecode(op) = Mem(Ins("JSR", 4, EaOf(op), NoOpnd))
         /\ Top(op, 6) = 20160 => MemDecode(op) = Mem(Ins("JMP", 4, EaOf(op), NoOpnd))
<1> DEFINE e == EaOf(op)  jsr == Ins("JSR", 4, e, NoOpnd)  jmp == Ins("JMP", 4, e, NoOpnd)
<1>1. Top(op, 6) = op - 8 * Mode(op) - Reg(op) /\ Top(op, 3) = op - Reg(op)
  BY Fields, SMT
<1>2. op \in Nat /\ Reg(op) \in 0 .. 7 /\ Sub(op) = 14
  <2>1. Reg(op) \in 0 .. 7 /\ Sub(op) = 14
    BY Shape, SMT
  <2> QED BY <2>1, SMT DEF Word
<1>3. MemDecode(op) = MemGroup4(op)
  BY SMT DEF MemDecode
<1>4. Top(op, 6) = 20096 => MemGroup4(op) = Mem(jsr)
  <2> SUFFICES ASSUME Top(op, 6) = 20096 PROVE MemGroup4(op) = Mem(jsr)
    OBVIOUS
  <2>1. op = 20152 + Reg(op)
    BY <1>1, <1>2, SMT
  <2>2. Top(op, 3) = 20152
    BY <1>1, <1>2, <2>1, SMT
  <2>3. op # 20085 /\ Top(op, 3) \notin {19608, 20048, 20056, 18656, 19672} /\ OpMode(op) # 7 /\ Top(op, 6) # 18496 /\ Sub(op) = 14
    BY <1>2, <2>1, <2>2, SMT
  <2> HIDE DEF e, jsr, jmp
  <2> QED BY <2>3, SMT DEF MemGroup4, MemIf, e, jsr
<1>5. Top(op, 6) = 20160 => MemGroup4(op) = Mem(jmp)
  <2> SUFFICES ASSUME Top(op, 6) = 20160 PROVE MemGroup4(op) = Mem(jmp)
    OBVIOUS
  <2>1. op = 20216 + Reg(op)
    BY <1>1, <1>2, SMT
  <2>2. Top(op, 3) = 20216
    BY <1>1, <1>2, <2>1, SMT
  <2>3. op # 20085 /\ Top(op, 3) \notin {19608, 20048, 20056, 18656, 19672} /\ OpMode(op) # 7 /\ Top(op, 6) # 18496 /\ Sub(op) = 14
    BY <1>2, <2>1, <2>2, SMT
  <2> HIDE DEF e, jsr, jmp
  <2> QED BY <2>3, SMT DEF MemGroup4, MemIf, e, jmp
<1> HIDE DEF e, jsr, jmp
<1> QED BY <1>3, <1>4, <1>5, SMT DEF e, jsr, jmp

\* JMP (d8,PC,Xn) is recorded as it is executed, in the brief format only.
LEMMA TraceJmpRight ==
  ASSUME NEW op \in Word, NEW c, NEW s \in BOOLEAN, NEW x, decode_pc_index_jmp_trace_op(c, op, x) # NotRecorded
  PROVE  TraceRight(c, s, op, x, decode_pc_index_jmp_trace_op(c, op, x))
<1> DEFINE b == Ins("JMP", 4, <<7, 3>>, NoOpnd)  t == decode_pc_index_jmp_trace_op(c, op, x)
<1>1. op = 20219 /\ ~FullFormat(c, x[1]) /\ t = Recorded(b, 2)
  BY SMT DEF decode_pc_index_jmp_trace_op, RecordIf
<1>2. op = Joined(4, 7, 3, 7, 3)
  BY <1>1, SMT DEF Joined
<1>3. Group(op) = 4 /\ Nine(op) = 7 /\ OpMode(op) = 3 /\ Mode(op) = 7 /\ Reg(op) = 3
  <2>1. 4 \in Nat /\ 7 \in Digit /\ 3 \in Digit
    BY SmallDigits, SMT
  <2> QED BY <1>2, <2>1, FieldsOf
<1>4. /\ EaOf(op) = <<7, 3>> /\ EaOf(op)[1] = 7 /\ EaOf(op)[2] = 3
  BY <1>3, Shape, SMT
<1>5. /\ Top(op, 3) = 20216 /\ Top(op, 6) = 20160
  BY <1>1, <1>3, Fields, SMT
<1>6. is_control(EaOf(op))
  BY <1>4, SMT DEF is_control, EaDecodes, Imm
<1>9. MemDecode(op) = Mem(b)
  BY <1>3, <1>4, <1>5, <1>6, Jumps, SMT
<1>8. b.src = <<7, 3>> /\ NoExtension(b.dst)
  BY InsParts, NamedOperands, SMT DEF NoExtension
<1> HIDE DEF b
<1>10. ~FullFormat(c, x[1]) /\ t = Recorded(b, 2)
  BY <1>1, SMT
<1>11. OperandWords(c, b.src, b.size, x[1]) = 1
  BY <1>8, <1>10, OneWord, Zenon
<1>12. Words(c, b, x) = 2
  BY <1>8, <1>11, OneOperandWords, SMT
<1> QED BY <1>9, <1>10, <1>12, MemTrace, RightIf, Zenon

\* A register op recorded by to_jit_trace_op is right: it is one word long.
LEMMA TraceSimpleRight ==
  ASSUME NEW op \in Word, NEW c, NEW s \in BOOLEAN, NEW x, SimpleDecode(c, op).kind = "Simple"
  PROVE  TraceRight(c, s, op, x, Recorded(SimpleDecode(c, op).ins, 1))
<1> DEFINE b == SimpleDecode(c, op).ins
<1>1. \/ dispatch_instruction(c, s, op, x) = b
      \/ dispatch_instruction(c, s, op, x) = Illegal /\ LooseForm(op)
  BY SimpleAgrees, Zenon
<1>2. TouchesRegistersOnly(b)
  BY SimpleRegisters, Zenon
<1> HIDE DEF b
<1>3. NoExtension(b.src) /\ NoExtension(b.dst)
  BY <1>2, SMT DEF TouchesRegistersOnly, RegisterOperand, NoExtension
<1>4. Words(c, b, x) = 1
  BY <1>3, ShortWords, Zenon
<1>5. dispatch_instruction(c, s, op, x) = b => TraceRight(c, s, op, x, Recorded(b, 1))
  BY <1>4, RightIf, Zenon
<1>6. dispatch_instruction(c, s, op, x) = Illegal /\ LooseForm(op) => TraceRight(c, s, op, x, Recorded(b, 1))
  BY Zenon DEF TraceRight
<1> QED BY <1>1, <1>5, <1>6 DEF b

\* decode_call_op records RTS, JSR and BSR as they are executed; BSR with
\* displacement 255 is long from the 68020 on and short before.
LEMMA CallRight ==
  ASSUME NEW op \in Word, NEW c, NEW s \in BOOLEAN, NEW x, decode_call_op(c, op) # NotRecorded
  PROVE  TraceRight(c, s, op, x, decode_call_op(c, op))
<1> DEFINE t == decode_call_op(c, op)
<1>1. CASE op = 20085
  <2>1. t = Recorded(Bare("RTS"), 1)
    BY <1>1, SMT DEF decode_call_op
  <2>2. op = Joined(4, 7, 1, 6, 5)
    BY <1>1, SMT DEF Joined
  <2>3. Group(op) = 4 /\ Nine(op) = 7 /\ OpMode(op) = 1 /\ Mode(op) = 6 /\ Reg(op) = 5
    <3>1. 4 \in Nat /\ 7 \in Digit /\ 1 \in Digit /\ 6 \in Digit /\ 5 \in Digit
      BY SmallDigits, SMT
    <3> QED BY <2>2, <3>1, FieldsOf
  <2>4. Top(op, 3) = 20080
    BY <1>1, <2>3, Fields, SMT
  <2>5. TraceFlowOp(c, op) = Recorded(Bare("RTS"), 1)
    BY <1>1, <2>3, <2>4, SMT DEF TraceFlowOp
  <2>6. TraceFlowOp(c, op) # NotRecorded
    BY <2>5, SMT DEF NotRecorded, Recorded
  <2> QED BY <2>1, <2>5, <2>6, TraceFlowRight, Zenon
<1>2. CASE op = 20154
  <2> DEFINE b == Ins("JSR", 4, <<7, 2>>, NoOpnd)
  <2>1. t = Recorded(b, 2)
    BY <1>2, SMT DEF decode_call_op
  <2>2. op = Joined(4, 7, 2, 7, 2)
    BY <1>2, SMT DEF Joined
  <2>3. Group(op) = 4 /\ Nine(op) = 7 /\ OpMode(op) = 2 /\ Mode(op) = 7 /\ Reg(op) = 2
    <3>1. 4 \in Nat /\ 7 \in Digit /\ 2 \in Digit
      BY SmallDigits, SMT
    <3> QED BY <2>2, <3>1, FieldsOf
  <2>4. Top(op, 6) = 20096
    BY <1>2, <2>3, Fields, SMT
  <2>5. EaOf(op) = <<7, 2>>
    BY <2>3, Shape, SMT
  <2>6. is_control(EaOf(op))
    BY <2>5, SMT DEF is_control, EaDecodes, Imm
  <2>7. MemDecode(op) = Mem(b)
    BY <2>3, <2>4, <2>5, <2>6, Jumps, SMT
  <2>8. b.src = <<7, 2>> /\ NoExtension(b.dst)
    BY InsParts, NamedOperands, SMT DEF NoExtension
  <2> HIDE DEF b, t
  <2>9. OperandWords(c, b.src, b.size, x[1]) = 1
    BY <2>8, OneWord, Zenon
  <2>10. Words(c, b, x) = 2
    BY <2>8, <2>9, OneOperandWords, SMT
  <2> QED BY <2>1, <2>7, <2>10, MemTrace, RightIf, Zenon DEF t
<1>3. CASE op = 20153
  <2> DEFINE b == Ins("JSR", 4, <<7, 1>>, NoOpnd)
  <2>1. t = Recorded(b, 3)
    BY <1>3, SMT DEF decode_call_op
  <2>2. op = Joined(4, 7, 2, 7, 1)
    BY <1>3, SMT DEF Joined
  <2>3. Group(op) = 4 /\ Nine(op) = 7 /\ OpMode(op) = 2 /\ Mode(op) = 7 /\ Reg(op) = 1
    <3>1. 4 \in Nat /\ 7 \in Digit /\ 2 \in Digit /\ 1 \in Digit
      BY SmallDigits, SMT
    <3> QED BY <2>2, <3>1, FieldsOf
  <2>4. Top(op, 6) = 20096
    BY <1>3, <2>3, Fields, SMT
  <2>5. EaOf(op) = <<7, 1>>
    BY <2>3, Shape, SMT
  <2>6. is_control(EaOf(op))
    BY <2>5, SMT DEF is_control, EaDecodes, Imm
  <2>7. MemDecode(op) = Mem(b)
    BY <2>3, <2>4, <2>5, <2>6, Jumps, SMT
  <2>8. b.src = <<7, 1>> /\ NoExtension(b.dst)
    BY InsParts, NamedOperands, SMT DEF NoExtension
  <2> HIDE DEF b, t
  <2>9. OperandWords(c, b.src, b.size, x[1]) = 2
    BY <2>8, LongWords, SMT
  <2>10. Words(c, b, x) = 3
    BY <2>8, <2>9, OneOperandWords, SMT
  <2> QED BY <2>1, <2>7, <2>10, MemTrace, RightIf, Zenon DEF t
<1>4. CASE op \div 256 = 97
  <2> DEFINE d == op % 256
             o == IF d = 0 THEN Imm16 ELSE IF d = 255 /\ c \notin Pre020 THEN Imm32 ELSE Disp8(d)
             k == IF d = 0 THEN 1 ELSE IF d = 255 /\ c \notin Pre020 THEN 2 ELSE 0
             b == Ins("BSR", 0, Cond(1), o)
  <2>0. op \notin {20085, 20154, 20153}
    BY <1>4, SMT
  <2>1. Group(op) = 6 /\ Sub(op) = 1
    BY <1>4, Shape, Fields, SMT
  <2> HIDE DEF d
  <2>2. dispatch_instruction(c, s, op, x) = b
    <3>1. dispatch_instruction(c, s, op, x) = dispatch_group_6(c, op)
      BY <2>1, SMT DEF dispatch_instruction
    <3>2. dispatch_group_6(c, op) = b
      BY <2>1, SMT DEF dispatch_group_6, d
    <3> QED BY <3>1, <3>2
  <2>3. t = Recorded(b, 1 + k)
    BY <1>4, <2>0, SMT DEF decode_call_op, d
  <2>4. b.src = Cond(1) /\ b.dst = o /\ NoExtension(b.src)
    BY InsParts, NamedOperands, SMT DEF NoExtension
  <2>5. NoExtension(Disp8(d))
    BY NamedOperands, SMT DEF NoExtension
  <2>6. OperandWords(c, o, b.size, x[1]) = k
    <3> HIDE DEF b
    <3>1. OperandWords(c, Imm16, b.size, x[1]) = 1
      BY OneWord, Zenon
    <3>2. OperandWords(c, Imm32, b.size, x[1]) = 2
      BY LongWords, Zenon
    <3>3. OperandWords(c, Disp8(d), b.size, x[1]) = 0
      BY <2>5, NoWords, Zenon
    <3> QED BY <3>1, <3>2, <3>3
  <2>7. k \in {0, 1, 2}
    OBVIOUS
  <2> HIDE DEF b, k, o, t
  <2>8. Words(c, b, x) = 1 + k
    BY <2>4, <2>6, <2>7, OneOperandWords, SMT
  <2> QED BY <2>2, <2>3, <2>8, RightIf, Zenon DEF t
<1>5. op \in {20085, 20154, 20153} \/ op \div 256 = 97
  BY SMT DEF decode_call_op
<1> QED BY <1>1, <1>2, <1>3, <1>4, <1>5, SMT

\* Trying one decoder and then another keeps the answers right.
LEMMA FirstOfRight ==
  ASSUME NEW c, NEW s, NEW op, NEW x, NEW a, NEW b,
         a # NotRecorded => TraceRight(c, s, op, x, a),
         b # NotRecorded => TraceRight(c, s, op, x, b)
  PROVE  FirstOf(a, b) # NotRecorded => TraceRight(c, s, op, x, FirstOf(a, b))
BY Zenon DEF FirstOf

\* Whatever decode_trace_op records is right.
LEMMA TraceRecorded ==
  ASSUME NEW op \in Word, NEW c, NEW s \in BOOLEAN, NEW x, decode_trace_op(c, op, x) # NotRecorded
  PROVE  TraceRight(c, s, op, x, decode_trace_op(c, op, x))
<1> DEFINE mem == MemDecode(op).ins
           Right(t) == t # NotRecorded => TraceRight(c, s, op, x, t)
           t1 == TraceFlowOp(c, op)
           t2 == TraceImmediateOp(c, op, x, mem)
           t3 == decode_an_disp_trace_op(c, op, x, mem)
           t4 == TraceMemoryOp(c, op, x, mem)
           m1 == decode_move_imm_mem_trace_op(c, op, x)
           m2 == decode_move_mem_trace_op(c, op, x)
           t5 == IF Group(op) \in 1 .. 3 THEN FirstOf(m1, m2) ELSE decode_pc_index_jmp_trace_op(c, op, x)
           simple == SimpleDecode(c, op)
           t6 == RecordIf(simple.kind = "Simple" /\ to_jit_trace_op(simple.ins), simple.ins, 1)
<1>0. decode_trace_op(c, op, x) = FirstOf(t1, FirstOf(t2, FirstOf(t3, FirstOf(t4, FirstOf(t5, t6)))))
  BY Zenon DEF decode_trace_op
<1>1. Right(t1)
  BY TraceFlowRight, Zenon
<1>2. Right(t2)
  BY TraceImmediateRight, Zenon
<1>3. Right(t3)
  BY TraceAnDispRight, Zenon
<1>4. Right(t4)
  BY TraceMemoryRight, Zenon
<1>f. \A a, b : Right(a) /\ Right(b) => Right(FirstOf(a, b))
  BY FirstOfRight, Zenon
<1>5. Right(t5)
  <2>1. CASE Group(op) \in 1 .. 3
    <3>1. Right(m1)
      BY <2>1, TraceMoveImmRight, Zenon
    <3>2. Right(m2)
      BY <2>1, TraceMoveMemRight, Zenon
    <3> QED BY <2>1, <3>1, <3>2, <1>f, Zenon
  <2>2. CASE ~(Group(op) \in 1 .. 3)
    BY <2>2, TraceJmpRight, Zenon
  <2> QED BY <2>1, <2>2
<1>6. Right(t6)
  <2> SUFFICES ASSUME t6 # NotRecorded PROVE TraceRight(c, s, op, x, t6)
    OBVIOUS
  <2>1. simple.kind = "Simple" /\ t6 = Recorded(simple.ins, 1)
    BY RecordIfTrue, Zenon
  <2> QED BY <2>1, TraceSimpleRight, Zenon
<1> HIDE DEF t1, t2, t3, t4, t5, t6, Right
<1>7. Right(decode_trace_op(c, op, x))
  BY <1>0, <1>1, <1>2, <1>3, <1>4, <1>5, <1>6, <1>f, Zenon
<1> QED BY <1>7 DEF Right

\* The recorder's part of DecodersAgree.
LEMMA TraceAgrees == OpcodeConsidered => TraceDecodeAgrees
<1> DEFINE R(s, x, r) == r # NotRecorded => TraceRight(cpu_type, s, opcode, x, r)
<1> SUFFICES ASSUME OpcodeConsidered PROVE TraceDecodeAgrees
  OBVIOUS
<1>1. opcode \in Word
  BY DecodeAssumption DEF OpcodeConsidered
<1>2. \A s \in BOOLEAN : \A x : R(s, x, decode_trace_op(cpu_type, opcode, x)) /\ R(s, x, decode_call_op(cpu_type, opcode))
  BY <1>1, TraceRecorded, CallRight, Zenon
<1> HIDE DEF R
<1>3. \A x : R(FALSE, x, decode_trace_op(cpu_type, opcode, x)) /\ R(FALSE, x, decode_call_op(cpu_type, opcode))
  BY <1>2, Zenon
<1>4. \A x \in Streams : \A r \in {decode_trace_op(cpu_type, opcode, x), decode_call_op(cpu_type, opcode)} : R(FALSE, x, r)
  BY <1>3, Zenon
<1> QED BY <1>4, Zenon DEF TraceDecodeAgrees, Decoded, R, TraceRight

----------------------------------------------------------------------------
(* Loop mode. *)

\* An instruction of one word that does not trap.
LoopForm(i) == NoExtension(i.src) /\ NoExtension(i.dst) /\ i.name \notin {"illegal", "privilege"}

\* An instruction record of that form.
LEMMA LoopFormIf ==
  ASSUME NEW n, n \notin {"illegal", "privilege"}, NEW z, NEW a, NEW b, NoExtension(a), NoExtension(b)
  PROVE  LoopForm(Ins(n, z, a, b))
BY InsParts, SMT DEF LoopForm

\* The operands that loop mode admits are in the opcode word.
LEMMA ShortOperands ==
  ASSUME NEW op
  PROVE  /\ \A k : NoExtension(Dn(k)) /\ NoExtension(An(k)) /\ NoExtension(Quick(k)) /\ NoExtension(<<1, k>>) /\ NoExtension(<<3, k>>)
         /\ NoExtension(NoOpnd)
         /\ Mode(op) \in 0 .. 4 => NoExtension(EaOf(op))
         /\ OpMode(op) \in 0 .. 4 => NoExtension(DstEa(op))
<1>1. EaOf(op)[1] = Mode(op) /\ DstEa(op)[1] = OpMode(op)
  BY SMT DEF EaOf, DstEa
<1>2. \A k : <<1, k>>[1] = 1 /\ <<3, k>>[1] = 3
  BY SMT
<1> QED BY <1>1, <1>2, NamedOperands, SMT DEF NoExtension

\* The MOVE words of loop mode have one word; the byte MOVE from an address
\* register is illegal.
LEMMA LoopMove ==
  ASSUME NEW op \in Word, Group(op) \in 1 .. 3, Mode(op) <= 4, OpMode(op) \in 2 .. 4, NEW c, NEW s, NEW x
  PROVE  \/ LoopForm(dispatch_instruction(c, s, op, x))
         \/ dispatch_instruction(c, s, op, x) = Illegal /\ Group(op) = 1 /\ Mode(op) = 1
<1> DEFINE sz == MoveSize(op)  src == EaOf(op)  dst == DstEa(op)
<1>1. /\ dispatch_instruction(c, s, op, x) = dispatch_move(op, sz)
      /\ src[1] = Mode(op) /\ Mode(op) \in 0 .. 4 /\ dst[1] = OpMode(op) /\ dst[1] \in 2 .. 4
  <2>1. Mode(op) \in 0 .. 7 /\ src[1] = Mode(op) /\ dst[1] = OpMode(op)
    BY Shape, SMT DEF DstEa
  <2> QED BY <2>1, MoveDispatch, SMT
<1>2. NoExtension(src) /\ NoExtension(dst)
  BY <1>1, ShortOperands, SMT
<1>3. LoopForm(Ins("MOVE", sz, src, dst))
  BY <1>2, LoopFormIf, Zenon
<1>4. CASE sz = 1 /\ src[1] = 1
  <2>1. dispatch_move(op, sz) = Illegal
    BY <1>4, SMT DEF dispatch_move
  <2>2. Group(op) \in {1, 2, 3}
    BY SMT
  <2>3. Group(op) = 1
    BY <1>4, <2>2, SMT DEF MoveSize
  <2> QED BY <1>1, <1>4, <2>1, <2>3, SMT
<1>5. CASE ~(sz = 1 /\ src[1] = 1)
  <2>1. EaDecodes(src) /\ dst[1] # 7 /\ dst[1] # 1
    BY <1>1, SMT DEF EaDecodes
  <2> HIDE DEF sz, src, dst
  <2>2. dispatch_move(op, sz) = Ins("MOVE", sz, src, dst)
    BY <1>5, <2>1, SMT DEF dispatch_move, src, dst
  <2> QED BY <1>1, <1>3, <2>2, Zenon
<1> QED BY <1>4, <1>5

\* The unary words of loop mode, on the 68010.
LEMMA LoopUnary ==
  ASSUME NEW op \in Word, Group(op) = 4, Mode(op) \in 2 .. 4,
         \/ Sub(op) \in {0, 2, 4, 6, 10} /\ SizeBits(op) # 3
         \/ Sub(op) = 8 /\ SizeBits(op) = 0,
         NEW c \in Pre020, NEW s \in BOOLEAN, NEW x
  PROVE  LoopForm(dispatch_instruction(c, s, op, x))
<1> DEFINE e == EaOf(op)  sz == decode_size_00(SizeBits(op))
<1>0. /\ op = 16384 + 512 * Nine(op) + 64 * OpMode(op) + 8 * Mode(op) + Reg(op)
      /\ Nine(op) \in 0 .. 7 /\ OpMode(op) \in 0 .. 7 /\ Reg(op) \in 0 .. 7
      /\ High(op) \in 0 .. 1 /\ SizeBits(op) \in 0 .. 3
      /\ OpMode(op) = 4 * High(op) + SizeBits(op)
      /\ Sub(op) = 2 * Nine(op) + High(op)
      /\ e[1] = Mode(op)
  BY Shape, SMT
<1>1. High(op) = 0 /\ OpMode(op) \in {0, 1, 2} /\ Sub(op) \in {0, 2, 4, 6, 8, 10} /\ Nine(op) \in 0 .. 5
  BY <1>0, SMT
<1>2. Group4Early(c, s, op) = NotDecoded
  BY <1>0, <1>1, Early, SMT
<1>3. Group4Words(c, s, op, x) = NotDecoded
  BY <1>0, <1>1, Words4, SMT
<1>4. ea_data_alterable(e)
  BY <1>0, SMT DEF ea_data_alterable
<1>5. dispatch_instruction(c, s, op, x) = dispatch_group_4(c, s, op, x)
  BY SMT DEF dispatch_instruction
<1>6. NoExtension(e) /\ NoExtension(NoOpnd)
  BY ShortOperands, SMT
<1>7. CASE Sub(op) \in {0, 2, 4, 6}
  <2>1. Group4Unary(s, op) = Ins(UnaryName[Sub(op)], sz, NoOpnd, e)
    BY <1>4, <1>7, SMT DEF Group4Unary, Legal
  <2>2. UnaryName[Sub(op)] \notin {"illegal", "privilege"}
    BY <1>7, SMT DEF UnaryName
  <2>3. dispatch_group_4(c, s, op, x) = Group4Unary(s, op)
    BY <1>2, <1>3, <1>7, Zenon DEF dispatch_group_4
  <2> HIDE DEF e, sz
  <2> QED BY <1>5, <1>6, <2>1, <2>2, <2>3, LoopFormIf, Zenon
<1>8. CASE Sub(op) = 10
  <2> DEFINE i == Ins("TST", sz, NoOpnd, e)
  <2>1. op # 19196 /\ SizeBits(op) # 3
    BY <1>0, <1>8, SMT
  <2>2. Group4Misc(c, op) = i
    BY <1>4, <1>8, <2>1, SMT DEF Group4Misc, Legal
  <2>3. i # NotDecoded
    BY SMT DEF NotDecoded, Bare, Ins
  <2>4. LoopForm(i)
    BY <1>6, LoopFormIf, SMT
  <2> HIDE DEF i
  <2>5. dispatch_group_4(c, s, op, x) = i
    BY <1>2, <1>3, <1>8, <2>2, <2>3, SMT DEF dispatch_group_4
  <2> QED BY <1>5, <2>4, <2>5
<1>9. CASE Sub(op) = 8
  <2> DEFINE i == Ins("NBCD", 1, NoOpnd, e)
  <2>1. SizeBits(op) = 0
    BY <1>9, SMT
  <2>2. Group4Misc(c, op) = i
    BY <1>4, <1>9, <2>1, SMT DEF Group4Misc, Legal
  <2>3. i # NotDecoded
    BY SMT DEF NotDecoded, Bare, Ins
  <2>4. LoopForm(i)
    BY <1>6, LoopFormIf, SMT
  <2> HIDE DEF i
  <2>5. dispatch_group_4(c, s, op, x) = i
    BY <1>2, <1>3, <1>9, <2>2, <2>3, SMT DEF dispatch_group_4
  <2> QED BY <1>5, <2>4, <2>5
<1> QED BY <1>1, <1>7, <1>8, <1>9, SMT

\* The words of loop mode in groups 8 and C.
LEMMA LoopLogic ==
  ASSUME NEW op \in Word, Group(op) \in {8, 12},
         \/ Bit8(op) /\ Mode(op) = 1 /\ SizeBits(op) = 0
         \/ OpMode(op) \notin {3, 7} /\ Mode(op) \in 2 .. 4,
         NEW c, NEW s, NEW x
  PROVE  LoopForm(dispatch_instruction(c, s, op, x))
<1> DEFINE e == EaOf(op)  z == SizeBits(op)  m == OpMode(op)  sz == decode_size_00(z)  d == Dn(Nine(op))
<1>0. /\ m \in 0 .. 7 /\ Mode(op) \in 0 .. 7 /\ e[1] = Mode(op)
      /\ z \in 0 .. 3 /\ High(op) \in 0 .. 1 /\ m = 4 * High(op) + z
      /\ Bit8(op) <=> High(op) = 1
  BY Shape, SMT
<1>a. m % 4 = z /\ ExchangeField(op) = 8 * z + Mode(op)
  BY Fields, Zenon
<1>m. Mode(op) \in {1, 2, 3, 4} /\ Mode(op) \in 0 .. 4
  BY <1>0, SMT
<1>n. NoExtension(e) /\ NoExtension(d) /\ NoExtension(<<1, Nine(op)>>)
  BY <1>m, ShortOperands, Zenon
<1>1. Mode(op) \in {1, 2, 3, 4} /\ NoExtension(e) /\ NoExtension(d) /\ NoExtension(<<1, Nine(op)>>)
  BY <1>m, <1>n
<1>2. /\ Group(op) = 8 => dispatch_instruction(c, s, op, x) = dispatch_group_8(c, op)
      /\ Group(op) = 12 => dispatch_instruction(c, s, op, x) = dispatch_group_c(op)
  BY SMT DEF dispatch_instruction
<1>3. CASE Mode(op) = 1
  <2>1. m = 4
    BY <1>0, <1>3, SMT
  <2> HIDE DEF e, z, sz, d
  <2>2. dispatch_group_8(c, op) = Ins("SBCD", 1, e, <<Mode(op), Nine(op)>>)
    BY <1>3, <2>1, SMT DEF dispatch_group_8, e
  <2>3. dispatch_group_c(op) = Ins("ABCD", 1, e, <<Mode(op), Nine(op)>>)
    BY <1>3, <2>1, SMT DEF dispatch_group_c, e
  <2>4. LoopForm(Ins("SBCD", 1, e, <<Mode(op), Nine(op)>>)) /\ LoopForm(Ins("ABCD", 1, e, <<Mode(op), Nine(op)>>))
    BY <1>1, <1>3, LoopFormIf, SMT
  <2> QED BY <1>2, <2>2, <2>3, <2>4
<1>4. CASE Mode(op) # 1
  <2>1. Mode(op) \in {2, 3, 4} /\ m \notin {3, 7}
    BY <1>1, <1>4, SMT
  <2>2. DataEa(e) /\ MemoryAlterable(e)
    BY <1>0, <2>1, SMT DEF DataEa, EaDecodes, MemoryAlterable, ea_data_alterable
  <2>3. ExchangeField(op) \notin {8, 9, 17}
    BY <1>0, <1>a, <2>1, SMT
  <2> HIDE DEF e, z, sz, d
  <2>4. dispatch_group_8(c, op) \in {Ins("OR", sz, e, d), Ins("OR", sz, d, e)}
    BY <1>0, <1>a, <2>1, <2>2, SMT DEF dispatch_group_8, Legal, e, sz, d
  <2>5. dispatch_group_c(op) \in {Ins("AND", sz, e, d), Ins("AND", sz, d, e)}
    BY <1>0, <1>a, <2>1, <2>2, <2>3, SMT DEF dispatch_group_c, Legal, e, sz, d
  <2>6. \A n \in {"OR", "AND"} : LoopForm(Ins(n, sz, e, d)) /\ LoopForm(Ins(n, sz, d, e))
    BY <1>1, LoopFormIf, SMT
  <2> QED BY <1>2, <2>4, <2>5, <2>6, SMT
<1> QED BY <1>3, <1>4

\* The words of loop mode in groups 9, B and D.
LEMMA LoopArithmetic ==
  ASSUME NEW op \in Word, Group(op) \in {9, 11, 13},
         \/ Bit8(op) /\ Mode(op) = 1 /\ OpMode(op) % 4 # 3
         \/ Mode(op) \in 2 .. 4,
         NEW c, NEW s, NEW x
  PROVE  LoopForm(dispatch_instruction(c, s, op, x))
<1> DEFINE e == EaOf(op)  z == SizeBits(op)  m == OpMode(op)  sz == decode_size_00(z)  d == Dn(Nine(op))
           a == An(Nine(op))  w == WordOrLong(op)
<1>0. /\ m \in 0 .. 7 /\ Mode(op) \in 0 .. 7 /\ e[1] = Mode(op)
      /\ z \in 0 .. 3 /\ High(op) \in 0 .. 1 /\ m = 4 * High(op) + z
      /\ Bit8(op) <=> High(op) = 1
  BY Shape, SMT
<1>a. m % 4 = z
  BY Fields, Zenon
<1>m. Mode(op) \in {1, 2, 3, 4} /\ Mode(op) \in 0 .. 4
  BY <1>0, SMT
<1>n. /\ NoExtension(e) /\ NoExtension(d) /\ NoExtension(a)
      /\ NoExtension(<<1, Nine(op)>>) /\ NoExtension(<<3, Nine(op)>>) /\ NoExtension(<<3, Reg(op)>>)
  BY <1>m, ShortOperands, Zenon
<1>1. /\ Mode(op) \in {1, 2, 3, 4} /\ NoExtension(e) /\ NoExtension(d) /\ NoExtension(a)
      /\ NoExtension(<<1, Nine(op)>>) /\ NoExtension(<<3, Nine(op)>>) /\ NoExtension(<<3, Reg(op)>>)
  BY <1>m, <1>n
<1>2. /\ Group(op) = 9 => dispatch_instruction(c, s, op, x) = AddSub(op, "SUB", "SUBA", "SUBX")
      /\ Group(op) = 11 => dispatch_instruction(c, s, op, x) = dispatch_group_b(op)
      /\ Group(op) = 13 => dispatch_instruction(c, s, op, x) = AddSub(op, "ADD", "ADDA", "ADDX")
  BY SMT DEF dispatch_instruction, dispatch_group_9, dispatch_group_d
<1>3. CASE Mode(op) = 1
  <2>1. m \in {4, 5, 6} /\ e[1] < 2
    BY <1>0, <1>a, <1>3, SMT
  <2> HIDE DEF e, z, sz, d, a, w
  <2>2. \A n, na, nx : AddSub(op, n, na, nx) = Ins(nx, sz, e, <<1, Nine(op)>>)
    BY <1>a, <1>3, <2>1, SMT DEF AddSub, e, sz
  <2>3. dispatch_group_b(op) = Ins("CMPM", sz, <<3, Reg(op)>>, <<3, Nine(op)>>)
    BY <1>a, <1>3, <2>1, SMT DEF dispatch_group_b, sz
  <2>4. /\ LoopForm(Ins("SUBX", sz, e, <<1, Nine(op)>>)) /\ LoopForm(Ins("ADDX", sz, e, <<1, Nine(op)>>))
        /\ LoopForm(Ins("CMPM", sz, <<3, Reg(op)>>, <<3, Nine(op)>>))
    BY <1>1, LoopFormIf, SMT
  <2> QED BY <1>2, <2>2, <2>3, <2>4
<1>4. CASE Mode(op) # 1
  <2>1. Mode(op) \in {2, 3, 4}
    BY <1>1, <1>4, SMT
  <2>2. EaDecodes(e) /\ SourceEa(e, sz) /\ ea_data_alterable(e)
    BY <1>0, <2>1, SMT DEF SourceEa, EaDecodes, ea_data_alterable
  <2> HIDE DEF e, z, sz, d, a, w
  <2>4. \A n, na, nx : \/ AddSub(op, n, na, nx) = Ins(n, sz, e, d)
                       \/ AddSub(op, n, na, nx) = Ins(na, w, e, a)
                       \/ AddSub(op, n, na, nx) = Ins(n, sz, d, e)
    BY <1>0, <1>a, <2>1, <2>2, SMT DEF AddSub, Legal, e, sz, d, a, w
  <2>5. \/ dispatch_group_b(op) = Ins("CMP", sz, e, d)
        \/ dispatch_group_b(op) = Ins("CMPA", w, e, a)
        \/ dispatch_group_b(op) = Ins("EOR", sz, d, e)
    <3> DEFINE small == m <= 2  long == m \in {3, 7}  s4 == decode_size_00(m % 4)
    <3>1. s4 = sz
      BY <1>a DEF sz, z
    <3> HIDE DEF small, long, s4
    <3>2. dispatch_group_b(op) = IF small THEN Legal(SourceEa(e, s4), Ins("CMP", s4, e, d))
                                 ELSE IF long THEN Legal(EaDecodes(e), Ins("CMPA", w, e, a))
                                 ELSE IF Mode(op) = 1 THEN Ins("CMPM", s4, <<3, Reg(op)>>, <<3, Nine(op)>>)
                                 ELSE Legal(ea_data_alterable(e), Ins("EOR", s4, d, e))
      BY Zenon DEF dispatch_group_b, e, d, a, w, small, long, s4
    <3> QED BY <1>4, <2>2, <3>1, <3>2, Zenon DEF Legal
  <2>6. \A n \in {"ADD", "SUB", "CMP", "EOR", "ADDA", "SUBA", "CMPA"} :
          LoopForm(Ins(n, sz, e, d)) /\ LoopForm(Ins(n, w, e, a)) /\ LoopForm(Ins(n, sz, d, e))
    BY <1>1, LoopFormIf, SMT
  <2>7. /\ LoopForm(AddSub(op, "SUB", "SUBA", "SUBX")) /\ LoopForm(AddSub(op, "ADD", "ADDA", "ADDX"))
        /\ LoopForm(dispatch_group_b(op))
    BY <2>4, <2>5, <2>6, Zenon
  <2> QED BY <1>2, <2>7
<1> QED BY <1>3, <1>4

\* The shifts of memory in loop mode.
LEMMA LoopShift ==
  ASSUME NEW op \in Word, Group(op) = 14, OpMode(op) = 3, Mode(op) \in 2 .. 4, Nine(op) <= 3,
         NEW c, NEW s, NEW x
  PROVE  LoopForm(dispatch_instruction(c, s, op, x))
<1> DEFINE e == EaOf(op)  n == ShiftOf(Nine(op), op)
<1>0. /\ e[1] = Mode(op) /\ SizeBits(op) = 3 /\ Nine(op) \in {0, 1, 2, 3} /\ Sub(op) = 2 * Nine(op)
  BY Shape, SMT
<1>1. MemoryAlterable(e)
  BY <1>0, SMT DEF MemoryAlterable, ea_data_alterable
<1>m. Mode(op) \in 0 .. 4
  BY SMT
<1>2. NoExtension(e) /\ NoExtension(Quick(1))
  BY <1>m, ShortOperands, Zenon
<1>3. n \notin {"illegal", "privilege"}
  <2>1. Sub(op) \in {0, 2, 4, 6}
    BY <1>0, SMT
  <2>2. Sub(op) % 2 = 0
    BY <2>1, SMT
  <2>3. n = ShiftName[Nine(op) + 1][1]
    BY <2>2, SMT DEF ShiftOf
  <2> HIDE DEF n
  <2> QED BY <1>0, <2>3, SMT DEF ShiftName
<1>4. dispatch_instruction(c, s, op, x) = dispatch_group_e(c, op)
  BY SMT DEF dispatch_instruction
<1>5. dispatch_group_e(c, op) = Ins(n, 2, Quick(1), e)
  <2>1. ~(Sub(op) >= 8)
    BY <1>0, SMT
  <2> QED BY <1>0, <1>1, <2>1, SMT DEF dispatch_group_e, Legal
<1> HIDE DEF n, e
<1> QED BY <1>2, <1>3, <1>4, <1>5, LoopFormIf, Zenon

\* What loopable_68010 admits is one word long on the 68010.
LEMMA LoopIsOneWord == OpcodeConsidered => LoopableOneWord
<1> SUFFICES ASSUME OpcodeConsidered, cpu_type = "M68010", loopable_68010(opcode)
             PROVE  \A x \in Streams :
                      LET i == dispatch_instruction(cpu_type, FALSE, opcode, x)
                      IN \/ Words(cpu_type, i, x) = 1 /\ i.name \notin {"illegal", "privilege"}
                         \/ i = Illegal /\ Group(opcode) = 1 /\ Mode(opcode) = 1
  BY DEF LoopableOneWord, Decoded
<1> DEFINE R(s, x) == LET i == dispatch_instruction(cpu_type, s, opcode, x)
                      IN \/ Words(cpu_type, i, x) = 1 /\ i.name \notin {"illegal", "privilege"}
                         \/ i = Illegal /\ Group(opcode) = 1 /\ Mode(opcode) = 1
           L(s, x) == \/ LoopForm(dispatch_instruction(cpu_type, s, opcode, x))
                      \/ dispatch_instruction(cpu_type, s, opcode, x) = Illegal /\ Group(opcode) = 1 /\ Mode(opcode) = 1
<1>1. opcode \in Word
  BY DecodeAssumption DEF OpcodeConsidered
<1>2. cpu_type \in Pre020
  BY DEF Pre020
<1>3. ASSUME NEW s \in BOOLEAN, NEW x PROVE L(s, x)
  <2> DEFINE g == Group(opcode)  m == OpMode(opcode)  loop_ea == Mode(opcode) \in 2 .. 4
             pair == Bit8(opcode) /\ Mode(opcode) = 1
  <2>1. \/ g \in 1 .. 3 /\ Mode(opcode) <= 4 /\ m \in 2 .. 4
        \/ g = 4 /\ loop_ea /\ (\/ Sub(opcode) \in {0, 2, 4, 6, 10} /\ SizeBits(opcode) # 3
                                \/ Sub(opcode) = 8 /\ SizeBits(opcode) = 0)
        \/ g \in {8, 12} /\ ((pair /\ SizeBits(opcode) = 0) \/ (m \notin {3, 7} /\ loop_ea))
        \/ g \in {9, 11, 13} /\ ((pair /\ m % 4 # 3) \/ loop_ea)
        \/ g = 14 /\ m = 3 /\ loop_ea /\ Nine(opcode) <= 3
    BY Zenon DEF loopable_68010
  <2>2. CASE g \in 1 .. 3 /\ Mode(opcode) <= 4 /\ m \in 2 .. 4
    BY <1>1, <2>2, LoopMove, Zenon
  <2>3. CASE g = 4 /\ loop_ea /\ (\/ Sub(opcode) \in {0, 2, 4, 6, 10} /\ SizeBits(opcode) # 3
                                  \/ Sub(opcode) = 8 /\ SizeBits(opcode) = 0)
    BY <1>1, <1>2, <2>3, LoopUnary, Zenon
  <2>4. CASE g \in {8, 12} /\ ((pair /\ SizeBits(opcode) = 0) \/ (m \notin {3, 7} /\ loop_ea))
    BY <1>1, <2>4, LoopLogic, Zenon
  <2>5. CASE g \in {9, 11, 13} /\ ((pair /\ m % 4 # 3) \/ loop_ea)
    BY <1>1, <2>5, LoopArithmetic, Zenon
  <2>6. CASE g = 14 /\ m = 3 /\ loop_ea /\ Nine(opcode) <= 3
    BY <1>1, <2>6, LoopShift, Zenon
  <2> QED BY <2>1, <2>2, <2>3, <2>4, <2>5, <2>6, Zenon
<1>4. \A s, x : L(s, x) => R(s, x)
  <2> SUFFICES ASSUME NEW s, NEW x, L(s, x) PROVE R(s, x)
    OBVIOUS
  <2> DEFINE i == dispatch_instruction(cpu_type, s, opcode, x)
  <2>1. LoopForm(i) => Words(cpu_type, i, x) = 1
    BY ShortWords, Zenon DEF LoopForm
  <2> QED BY <2>1, Zenon DEF LoopForm
<1>5. \A s \in BOOLEAN : \A x : R(s, x)
  BY <1>3, <1>4, Zenon
<1> HIDE DEF R
<1>6. \A x : R(FALSE, x)
  BY <1>5, Zenon
<1> QED BY <1>6, Zenon DEF R

\* For every word, every model and every extension words, in every state of the
\* table: the batch's table, the trace recorder and loop mode take the word for
\* what dispatch_instruction executes, with its length, or for a loose form that
\* it rejects.
THEOREM DecodersAlwaysAgree == Spec => []DecodersAgree
<1>1. OpcodeConsidered /\ EntryCurrent => DecodersAgree
  BY EntryAgrees, TraceAgrees, LoopIsOneWord DEF DecodersAgree
<1> QED BY <1>1, TableIsCurrent, OpcodeFixed, PTL
=============================================================================
