------------------------------- MODULE Decode -------------------------------
(* What an opcode word means, to each of the engines that read one.

   dispatch_instruction (decode.rs) is the reference: the precise engine
   decodes with it and every other engine falls back to it.  The batch decodes
   an opcode word once, with DecodedSimpleOp::decode (op_cache.rs) and
   DecodedMemOp::decode (mem_ops.rs), and keeps the verdict in a table indexed
   by the word; the trace recorder decodes with decode_trace_op and
   decode_call_op (trace_jit.rs).  A decoder's answer is an instruction record:
   name, operand size in bytes, source and destination.

   The state is one entry of the decode table, the entry of an arbitrary
   opcode word: the entries do not interact. *)
EXTENDS Integers, Sequences

CONSTANTS Models,     \* the CPU models the host may select
          Opcodes,    \* the opcode words considered
          Streams,    \* sample extension words following the opcode word
          Native      \* traces are compiled (the jit build), not interpreted

\* The values of an opcode word or of an extension word.
Word == 0 .. 65535

ASSUME DecodeAssumption == /\ Opcodes \subseteq Word
                           /\ Native \in BOOLEAN
                           /\ \A x \in Streams : x \in Seq(Word) /\ Len(x) >= 3

VARIABLES cpu_type,       \* CpuCore.cpu_type
          opcode,         \* the word whose table entry is followed
          table           \* decode_table[opcode]

vars == <<cpu_type, opcode, table>>

----------------------------------------------------------------------------
(* Opcode fields, operands and instruction records. *)

Group(op)  == op \div 4096
Sub(op)    == (op \div 256) % 16
Nine(op)   == (op \div 512) % 8
OpMode(op) == (op \div 64) % 8
SizeBits(op) == (op \div 64) % 4
Mode(op)   == (op \div 8) % 8
Reg(op)    == op % 8
Bit8(op)   == (op \div 256) % 2 = 1
\* (op & ~(2^n - 1)) = v: the word with its n low bits cleared is v.
Top(op, n) == op - (op % (2 ^ n))

\* Operands: <<mode, reg>> for an effective address (modes 0..7), and the
\* operands that are not effective addresses.  Source and destination stand in
\* the order in which their extension words follow the opcode word.
Dn(r)    == <<0, r>>
An(r)    == <<1, r>>
Imm      == <<7, 4>>
Quick(n) == <<8, n>>
Cond(c)  == <<9, c>>
CondReg(c, r) == <<9, 8 * c + r>>
NoOpnd   == <<10, 0>>
Imm16    == <<11, 0>>
Imm32    == <<12, 0>>
Disp8(d) == <<13, d>>
EaOf(op) == <<Mode(op), Reg(op)>>
DstEa(op) == <<OpMode(op), Nine(op)>>

Ins(n, sz, s, d) == [name |-> n, size |-> sz, src |-> s, dst |-> d]
Bare(n)     == Ins(n, 0, NoOpnd, NoOpnd)
Illegal     == Bare("illegal")
Privilege   == Bare("privilege")
Unimplemented == Bare("unimplemented_integer")
ALine       == Bare("A-line")
FLine       == Bare("F-line")
NotDecoded  == Bare("none")

M000 == {"M68000"}
Pre020 == {"M68000", "M68010", "SCC68070"}
M040s  == {"M68EC040", "M68LC040", "M68040"}
M060s  == {"M68060"}

decode_size_00(bits)  == <<1, 2, 4, 1>>[bits + 1]
WordOrLong(op) == IF OpMode(op) = 3 THEN 2 ELSE 4

\* AddressingMode::decode answers for every mode but 7 with register 5..7.
EaDecodes(e)        == e[1] < 7 \/ e[2] <= 4
ea_control(e)       == e[1] \in {2, 5, 6} \/ (e[1] = 7 /\ e[2] <= 3)
ea_data_alterable(e) == e[1] \in {0, 2, 3, 4, 5, 6} \/ (e[1] = 7 /\ e[2] <= 1)
DataEa(e)           == e[1] # 1 /\ EaDecodes(e)
SourceEa(e, sz)     == EaDecodes(e) /\ ~(e[1] = 1 /\ sz = 1)
MemoryAlterable(e)  == e[1] >= 2 /\ ea_data_alterable(e)

Legal(ok, i) == IF ok THEN i ELSE Illegal
Supervisor(s, i) == IF s THEN i ELSE Privilege
\* trap_unimpl_060 with the emulation switch off, its default.
Trap060(c, i) == IF c \in M060s THEN Unimplemented ELSE i

----------------------------------------------------------------------------
(* The dispatcher. *)

dispatch_move(op, sz) ==
  LET src == EaOf(op)
      dst == DstEa(op)
  IN IF sz = 1 /\ src[1] = 1 THEN Illegal
     ELSE IF dst[1] = 7 /\ dst[2] > 1 THEN Illegal
     ELSE IF ~EaDecodes(src) THEN Illegal
     ELSE IF dst[1] = 1 THEN Legal(sz # 1, Ins("MOVEA", sz, src, dst))
     ELSE Ins("MOVE", sz, src, dst)

dispatch_moveq(op) ==
  Legal(~Bit8(op), Ins("MOVEQ", 4, Quick(op % 256), Dn(Nine(op))))

\* The 68010+ and 68020+ encodings that group 0 tests first.
ModuleModels == {"M68EC020", "M68020", "M68EC030", "M68030"} \cup M040s
\* exec_callm and exec_rtm themselves answer with a line-F trap elsewhere.
Only68020(c, i) == IF c = "M68020" THEN i ELSE FLine

IsCas(op)   == (op \div 64) % 64 \in {43, 51, 59}
IsMoves(op) == op \div 256 = 14
IsModule(op) == op \div 64 = 27
IsCmp2(op)  == Sub(op) < 8 /\ ~Bit8(op) /\ SizeBits(op) = 3 /\ (op \div 512) % 4 # 3
IsMovep(op) == Bit8(op) /\ Mode(op) = 1

Group0Extended(c, s, op) ==
  LET e == EaOf(op)
  IN IF op \in {3836, 3324} THEN Legal(c \notin Pre020, Trap060(c, Bare("CAS2")))
     ELSE IF IsCas(op)
          THEN Legal(c \notin Pre020 /\ MemoryAlterable(e),
                     Ins("CAS", <<1, 1, 2, 4>>[((op \div 512) % 4) + 1], Imm16, e))
     ELSE IF IsMoves(op)
          THEN Legal(c \notin M000 /\ SizeBits(op) # 3 /\ MemoryAlterable(e),
                     Supervisor(s, Ins("MOVES", decode_size_00(SizeBits(op)), Imm16, e)))
     ELSE IF IsModule(op) /\ Mode(op) < 2
          THEN Legal(c \in ModuleModels, Only68020(c, Ins("RTM", 4, e, NoOpnd)))
     ELSE IF IsModule(op)
          THEN Legal(c \in ModuleModels /\ ea_control(e), Only68020(c, Ins("CALLM", 4, Imm16, e)))
     ELSE IF IsCmp2(op)
          THEN Legal(c \notin Pre020 /\ ea_control(e),
                     Trap060(c, Ins("CMP2", decode_size_00((op \div 512) % 4), Imm16, e)))
     ELSE Trap060(c, Ins("MOVEP", IF (op \div 64) % 2 = 1 THEN 4 ELSE 2, Imm16, e))

ImmediateName == [i \in {0, 2, 4, 6, 10, 12} |->
  CASE i = 0 -> "ORI" [] i = 2 -> "ANDI" [] i = 4 -> "SUBI"
    [] i = 6 -> "ADDI" [] i = 10 -> "EORI" [] i = 12 -> "CMPI"]

ImmediateAlu(c, s, op) ==
  LET e  == EaOf(op)
      sz == decode_size_00(SizeBits(op))
      n  == ImmediateName[Sub(op)]
  IN CASE Sub(op) \in {0, 2, 10} /\ e = Imm /\ SizeBits(op) = 0 -> Ins(n, 1, Imm16, Quick(0))
       [] Sub(op) \in {0, 2, 10} /\ e = Imm /\ SizeBits(op) = 1 -> Supervisor(s, Ins(n, 2, Imm16, Quick(1)))
       [] Sub(op) = 12 /\ c \notin Pre020 /\ e \in {<<7, 2>>, <<7, 3>>} -> Ins(n, sz, Imm, e)
       [] OTHER -> Legal(ea_data_alterable(e), Ins(n, sz, Imm, e))

BitName == <<"BTST", "BCHG", "BCLR", "BSET">>

\* A bit operation acts on 32 bits of a data register and on a byte elsewhere.
BitOperation(op) ==
  LET e  == EaOf(op)
      ok == IF SizeBits(op) = 0
            THEN DataEa(e) /\ (Bit8(op) \/ e # Imm)
            ELSE ea_data_alterable(e)
  IN Legal(ok, Ins(BitName[SizeBits(op) + 1], IF Mode(op) = 0 THEN 4 ELSE 1,
                   IF Bit8(op) THEN Dn(Nine(op)) ELSE Imm16, e))

dispatch_group_0(c, s, op) ==
  IF \/ op \in {3836, 3324} \/ IsCas(op) \/ IsMoves(op) \/ IsModule(op)
     \/ IsCmp2(op) \/ IsMovep(op)
  THEN Group0Extended(c, s, op)
  ELSE IF Sub(op) \in {0, 2, 4, 6, 10, 12} THEN ImmediateAlu(c, s, op)
  ELSE BitOperation(op)

\* Group 4, first part: the encodings tested before the opcode match.
Group4Early(c, s, op) ==
  LET e == EaOf(op)
      Is(v) == Top(op, 6) = v
  IN CASE Top(op, 3) = 18440 -> Legal(c \notin Pre020, Ins("LINK", 4, Imm32, An(Reg(op))))
       [] Is(19456) -> Legal(c \notin Pre020 /\ DataEa(e), Ins("MULL", 4, Imm16, e))
       [] Is(19520) -> Legal(c \notin Pre020 /\ DataEa(e), Ins("DIVL", 4, Imm16, e))
       [] Is(16576) -> Legal(ea_data_alterable(e), Supervisor(s \/ c \in M000, Ins("MOVE_from_SR", 2, NoOpnd, e)))
       [] Is(17088) -> Legal(c \notin M000 /\ ea_data_alterable(e), Ins("MOVE_from_CCR", 2, NoOpnd, e))
       [] OpMode(op) = 6 -> Legal(DataEa(e), Ins("CHK", 2, e, Dn(Nine(op))))
       [] OpMode(op) = 4 -> Legal(c \notin Pre020 /\ DataEa(e), Ins("CHK", 4, e, Dn(Nine(op))))
       [] OpMode(op) = 5 -> Illegal
       [] OTHER -> NotDecoded

\* The match on whole opcode words: RESET, NOP, STOP, RTE, RTD, RTS, TRAPV, RTR
\* and MOVEC, whose control register is in the extension word x.
movec_reg_legal(c, r) ==
  CASE c \in {"M68010", "SCC68070"} -> r \in {0, 1, 2048, 2049}
    [] c \in {"M68EC020", "M68020", "M68EC030", "M68030"} -> r \in (0 .. 2) \cup (2048 .. 2052)
    [] c = "M68EC040" -> r \in (0 .. 2) \cup (4 .. 7) \cup {2048, 2049, 2051, 2052}
    [] c \in {"M68LC040", "M68040"} -> r \in (0 .. 7) \cup {2048, 2049} \cup (2051 .. 2055)
    [] c \in M060s -> r \in (0 .. 8) \cup {2048, 2049, 2054, 2055, 2056}
    [] OTHER -> FALSE

Movec(c, s, op, x) ==
  IF c \in M000 THEN Illegal
  ELSE IF ~s /\ c \notin M060s THEN Privilege
  ELSE Legal(movec_reg_legal(c, x[1] % 4096),
             Supervisor(s, Ins("MOVEC", 4, Imm16, Quick(op % 2))))

Group4Words(c, s, op, x) ==
  CASE op = 20080 -> Supervisor(s, Bare("RESET"))
    [] op = 20081 -> Bare("NOP")
    [] op = 19144 /\ c \in M060s -> Supervisor(s, Bare("HALT"))
    [] op = 19148 /\ c \in M060s -> Bare("PULSE")
    [] op = 20082 -> Supervisor(s, Ins("STOP", 2, Imm16, NoOpnd))
    [] op = 20083 -> Supervisor(s, Bare("RTE"))
    [] op = 20084 -> Legal(c \notin M000, Ins("RTD", 4, Imm16, NoOpnd))
    [] op = 20085 -> Bare("RTS")
    [] op = 20086 -> Bare("TRAPV")
    [] op = 20087 -> Bare("RTR")
    [] op \in {20090, 20091} -> Movec(c, s, op, x)
    [] OTHER -> NotDecoded

UnaryName == [i \in {0, 2, 4, 6} |->
  CASE i = 0 -> "NEGX" [] i = 2 -> "CLR" [] i = 4 -> "NEG" [] i = 6 -> "NOT"]

\* NEGX, CLR, NEG, NOT, MOVE to CCR and to SR.
Group4Unary(s, op) ==
  LET e == EaOf(op)
  IN IF SizeBits(op) # 3
     THEN Legal(ea_data_alterable(e),
                Ins(UnaryName[Sub(op)], decode_size_00(SizeBits(op)), NoOpnd, e))
     ELSE IF Sub(op) = 4 THEN Legal(DataEa(e), Ins("MOVE_to_CCR", 2, e, NoOpnd))
     ELSE Legal(DataEa(e), Supervisor(s, Ins("MOVE_to_SR", 2, e, NoOpnd)))

\* SWAP, BKPT, NBCD, EXT, EXTB, ILLEGAL, TAS and TST.
Group4Misc(c, op) ==
  LET e == EaOf(op)
      z == SizeBits(op)
      sz == decode_size_00(z)
  IN IF Sub(op) = 8 /\ z = 1 /\ Mode(op) = 0 THEN Ins("SWAP", 4, NoOpnd, e)
     ELSE IF Sub(op) = 8 /\ z = 1 /\ Mode(op) = 1 THEN Bare("BKPT")
     ELSE IF Sub(op) = 8 /\ z = 0 THEN Legal(ea_data_alterable(e), Ins("NBCD", 1, NoOpnd, e))
     ELSE IF Sub(op) = 8 /\ z = 2 /\ Mode(op) = 0 THEN Ins("EXT", 2, NoOpnd, e)
     ELSE IF Sub(op) = 8 /\ z = 3 /\ Mode(op) = 0 THEN Ins("EXT", 4, NoOpnd, e)
     ELSE IF Sub(op) = 9 /\ z = 3 /\ Mode(op) = 0
          THEN Legal(c \notin Pre020, Ins("EXTB", 4, NoOpnd, e))
     ELSE IF op = 19196 THEN Bare("ILLEGAL")
     ELSE IF Sub(op) = 10 /\ z = 3 THEN Legal(ea_data_alterable(e), Ins("TAS", 1, NoOpnd, e))
     ELSE IF Sub(op) = 10
          THEN Legal(IF c \in Pre020 THEN ea_data_alterable(e) ELSE SourceEa(e, sz),
                     Ins("TST", sz, NoOpnd, e))
     ELSE NotDecoded

\* TRAP, LINK, UNLK, MOVE USP, JSR, JMP, LEA, PEA and MOVEM.
Group4Control(s, op) ==
  LET e == EaOf(op)
      Is(v) == Top(op, 6) = v
  IN CASE Top(op, 4) = 20032 -> Bare("TRAP")
       [] Top(op, 3) = 20048 -> Ins("LINK", 2, Imm16, An(Reg(op)))
       [] Top(op, 3) = 20056 -> Ins("UNLK", 4, NoOpnd, An(Reg(op)))
       [] Top(op, 3) = 20064 -> Supervisor(s, Ins("MOVE_to_USP", 4, An(Reg(op)), NoOpnd))
       [] Top(op, 3) = 20072 -> Supervisor(s, Ins("MOVE_from_USP", 4, NoOpnd, An(Reg(op))))
       [] Is(20096) -> Legal(ea_control(e), Ins("JSR", 4, e, NoOpnd))
       [] Is(20160) -> Legal(ea_control(e), Ins("JMP", 4, e, NoOpnd))
       [] OpMode(op) = 7 -> Legal(ea_control(e), Ins("LEA", 4, e, An(Nine(op))))
       [] Is(18496) -> Legal(ea_control(e), Ins("PEA", 4, e, NoOpnd))
       [] (Is(18560) \/ Is(18624)) /\ Mode(op) >= 2 ->
            Legal(e[1] \in {2, 4, 5, 6} \/ (e[1] = 7 /\ e[2] <= 1),
                  Ins("MOVEM_to_memory", IF Is(18560) THEN 2 ELSE 4, Imm16, e))
       [] Sub(op) = 12 /\ Mode(op) >= 2 ->
            Legal(e[1] # 4 /\ (e[1] = 7 => e[2] <= 3),
                  Ins("MOVEM_to_registers", IF (op \div 64) % 2 = 0 THEN 2 ELSE 4, Imm16, e))
       [] OTHER -> Illegal

dispatch_group_4(c, s, op, x) ==
  LET early == Group4Early(c, s, op)
      words == Group4Words(c, s, op, x)
      misc  == Group4Misc(c, op)
  IN IF early # NotDecoded THEN early
     ELSE IF words # NotDecoded THEN words
     ELSE IF Sub(op) \in {0, 2, 4, 6} THEN Group4Unary(s, op)
     ELSE IF misc # NotDecoded THEN misc
     ELSE Group4Control(s, op)

\* ADDQ and SUBQ encode 8 as 0; on an address register they act on all of it,
\* whatever the size field says.
QuickData(op) == Quick(IF Nine(op) = 0 THEN 8 ELSE Nine(op))

dispatch_group_5(c, op) ==
  LET e == EaOf(op)
      sz == decode_size_00(SizeBits(op))
  IN IF SizeBits(op) = 3
     THEN CASE c \notin Pre020 /\ e \in {<<7, 2>>, <<7, 3>>, <<7, 4>>} ->
                 Ins("TRAPcc", 0, Cond(Sub(op)), <<Imm16, Imm32, NoOpnd>>[e[2] - 1])
            [] Mode(op) = 1 -> Ins("DBcc", 2, CondReg(Sub(op), Reg(op)), Imm16)
            [] OTHER -> Legal(ea_data_alterable(e), Ins("Scc", 1, Cond(Sub(op)), e))
     ELSE Legal(ea_data_alterable(e) \/ (e[1] = 1 /\ sz # 1),
                Ins(IF Bit8(op) THEN "SUBQ" ELSE "ADDQ", IF e[1] = 1 THEN 4 ELSE sz, QuickData(op), e))

\* BRA is condition 0, BSR condition 1.
dispatch_group_6(c, op) ==
  LET d == op % 256
  IN Ins(IF Sub(op) = 1 THEN "BSR" ELSE "Bcc", 0, Cond(Sub(op)),
         CASE d = 0 -> Imm16
           [] d = 255 /\ c \notin Pre020 -> Imm32
           [] OTHER -> Disp8(d))

\* OR, SBCD, PACK, UNPK and DIV.
dispatch_group_8(c, op) ==
  LET e == EaOf(op)
      m == OpMode(op)
      sz == decode_size_00(m % 4)
  IN CASE m <= 2 -> Legal(DataEa(e), Ins("OR", sz, e, Dn(Nine(op))))
       [] m = 3 -> Legal(DataEa(e), Ins("DIVU", 2, e, Dn(Nine(op))))
       [] m = 7 -> Legal(DataEa(e), Ins("DIVS", 2, e, Dn(Nine(op))))
       [] m = 4 /\ Mode(op) < 2 -> Ins("SBCD", 1, e, <<Mode(op), Nine(op)>>)
       [] m = 5 /\ Mode(op) < 2 -> Legal(c \notin Pre020, Ins("PACK", 0, Imm16, e))
       [] m = 6 /\ Mode(op) < 2 -> Legal(c \notin Pre020, Ins("UNPK", 0, Imm16, e))
       [] OTHER -> Legal(MemoryAlterable(e), Ins("OR", sz, Dn(Nine(op)), e))

\* SUB, SUBA, SUBX (group 9) and ADD, ADDA, ADDX (group D).
AddSub(op, n, na, nx) ==
  LET e == EaOf(op)
      m == OpMode(op)
      sz == decode_size_00(m % 4)
  IN IF m <= 2 THEN Legal(SourceEa(e, sz), Ins(n, sz, e, Dn(Nine(op))))
     ELSE IF m \in {3, 7} THEN Legal(EaDecodes(e), Ins(na, WordOrLong(op), e, An(Nine(op))))
     ELSE IF Mode(op) < 2 THEN Ins(nx, sz, e, <<Mode(op), Nine(op)>>)
     ELSE Legal(ea_data_alterable(e), Ins(n, sz, Dn(Nine(op)), e))

dispatch_group_9(op) == AddSub(op, "SUB", "SUBA", "SUBX")
dispatch_group_d(op) == AddSub(op, "ADD", "ADDA", "ADDX")

dispatch_group_b(op) ==
  LET e == EaOf(op)
      m == OpMode(op)
      sz == decode_size_00(m % 4)
  IN IF m <= 2 THEN Legal(SourceEa(e, sz), Ins("CMP", sz, e, Dn(Nine(op))))
     ELSE IF m \in {3, 7} THEN Legal(EaDecodes(e), Ins("CMPA", WordOrLong(op), e, An(Nine(op))))
     ELSE IF Mode(op) = 1 THEN Ins("CMPM", sz, <<3, Reg(op)>>, <<3, Nine(op)>>)
     ELSE Legal(ea_data_alterable(e), Ins("EOR", sz, Dn(Nine(op)), e))

\* EXG Dx,Dy (mode field 8), Ax,Ay (9) and Dx,Ay (17).
ExchangeField(op) == (op \div 8) % 32
Exchange(op) == Ins("EXG", 4, IF ExchangeField(op) = 9 THEN An(Nine(op)) ELSE Dn(Nine(op)),
                    IF ExchangeField(op) = 8 THEN Dn(Reg(op)) ELSE An(Reg(op)))

dispatch_group_c(op) ==
  LET e == EaOf(op)
      m == OpMode(op)
      sz == decode_size_00(m % 4)
  IN IF m <= 2 THEN Legal(DataEa(e), Ins("AND", sz, e, Dn(Nine(op))))
     ELSE IF m = 3 THEN Legal(DataEa(e), Ins("MULU", 2, e, Dn(Nine(op))))
     ELSE IF m = 7 THEN Legal(DataEa(e), Ins("MULS", 2, e, Dn(Nine(op))))
     ELSE IF m = 4 /\ Mode(op) < 2 THEN Ins("ABCD", 1, e, <<Mode(op), Nine(op)>>)
     ELSE IF ExchangeField(op) \in {8, 9, 17} THEN Exchange(op)
     ELSE Legal(MemoryAlterable(e), Ins("AND", sz, Dn(Nine(op)), e))

ShiftName == << <<"ASR", "ASL">>, <<"LSR", "LSL">>, <<"ROXR", "ROXL">>, <<"ROR", "ROL">> >>
ShiftOf(kind, op) == ShiftName[kind + 1][(Sub(op) % 2) + 1]

dispatch_group_e(c, op) ==
  LET e == EaOf(op)
      store == Sub(op) \in {10, 12, 14, 15}
  IN IF SizeBits(op) = 3 /\ Sub(op) >= 8
     THEN Legal(/\ c \notin Pre020
                /\ \/ e[1] \in {0, 2, 5, 6}
                   \/ e[1] = 7 /\ (e[2] <= 1 \/ (~store /\ e[2] <= 3)),
                Ins("bit_field", 0, Imm16, e))
     ELSE IF SizeBits(op) = 3
          THEN Legal(MemoryAlterable(e), Ins(ShiftOf(Nine(op), op), 2, Quick(1), e))
     ELSE Ins(ShiftOf((op \div 8) % 4, op), decode_size_00(SizeBits(op)),
              IF (op \div 32) % 2 = 1 THEN Dn(Nine(op)) ELSE QuickData(op), Dn(Reg(op)))

\* Group F before the coprocessors: privileged cpSAVE/cpRESTORE, MOVE16, the
\* cache and MMU operations of the 68040 and 68060, LPSTOP.
CpSaveEa(e)    == e[1] \in {2, 4, 5, 6} \/ (e[1] = 7 /\ e[2] <= 1)
CpRestoreEa(e) == e[1] \in {2, 3, 5, 6} \/ (e[1] = 7 /\ e[2] <= 3)
IsCpState(op)  == \/ OpMode(op) = 4 /\ CpSaveEa(EaOf(op))
                  \/ OpMode(op) = 5 /\ CpRestoreEa(EaOf(op))
IsMove16(op)   == op \in 62976 .. 63007 \/ Top(op, 3) = 63008

MmuOp040(c, s, op) ==
  LET plpa  == Top(op, 3) \in {62856, 62920}
      ptest == Top(op, 3) \in {62792, 62824}
      flush == Top(op, 5) = 62720
  IN IF flush \/ (c \notin M060s /\ ptest) \/ (c \in M060s /\ plpa)
     THEN Supervisor(s, Bare(CASE flush -> "PFLUSH" [] ptest -> "PTEST" [] plpa -> "PLPA"))
     ELSE FLine

LpStop(s, x) == IF x[1] # 448 THEN FLine ELSE Supervisor(s, Ins("LPSTOP", 2, Imm16, Imm16))

\* The coprocessor words proper: PMMU (id 0) and FPU (id 1), whose own decoding
\* answers 0 for a word they do not know.  fpu_present has its default, TRUE.
Coprocessor(op) ==
  LET e == EaOf(op)
  IN IF Nine(op) = 0 THEN Bare("PMMU")
     ELSE IF Top(op, 6) = 62016
          THEN CASE e[1] = 7 /\ e[2] > 4 -> FLine
                  [] e[1] = 1 -> Ins("FDBcc", 2, Imm16, Imm16)
                  [] e \in {<<7, 2>>, <<7, 3>>, <<7, 4>>} -> Ins("FTRAPcc", 0, Imm16, <<Imm16, Imm32, NoOpnd>>[e[2] - 1])
                  [] OTHER -> Ins("FScc", 1, Imm16, e)
     ELSE IF Top(op, 6) = 62080 THEN Ins("FBcc", 0, Imm16, NoOpnd)
     ELSE IF Top(op, 6) = 62144 THEN Ins("FBcc", 0, Imm32, NoOpnd)
     ELSE IF Sub(op) = 2 THEN Ins("FPU_general", 0, Imm16, e)
     ELSE IF Sub(op) = 3 /\ (IF OpMode(op) % 2 = 0 THEN CpSaveEa(e) ELSE CpRestoreEa(e)) THEN Bare("FSAVE/FRESTORE")
     ELSE FLine

dispatch_group_f(c, s, op, x) ==
  LET cache == c \in M040s \cup M060s
  IN IF c \in Pre020 THEN FLine
     ELSE IF ~s /\ (Nine(op) # 0 \/ ~cache) /\ IsCpState(op) THEN Privilege
     ELSE IF IsMove16(op) /\ cache THEN Bare("MOVE16")
     ELSE IF cache /\ Sub(op) = 4
          THEN IF Mode(op) \in {0, 4} THEN FLine ELSE Supervisor(s, Bare("CINV/CPUSH"))
     ELSE IF cache /\ Sub(op) = 5 THEN MmuOp040(c, s, op)
     ELSE IF c \in M060s /\ op = 63488 THEN LpStop(s, x)
     ELSE Coprocessor(op)

\* dispatch_instruction: what model c, in supervisor state or not, executes for
\* the opcode word op followed by the extension words x.
dispatch_instruction(c, s, op, x) ==
  CASE Group(op) = 0 -> dispatch_group_0(c, s, op)
    [] Group(op) = 1 -> dispatch_move(op, 1)
    [] Group(op) = 2 -> dispatch_move(op, 4)
    [] Group(op) = 3 -> dispatch_move(op, 2)
    [] Group(op) = 4 -> dispatch_group_4(c, s, op, x)
    [] Group(op) = 5 -> dispatch_group_5(c, op)
    [] Group(op) = 6 -> dispatch_group_6(c, op)
    [] Group(op) = 7 -> dispatch_moveq(op)
    [] Group(op) = 8 -> dispatch_group_8(c, op)
    [] Group(op) = 9 -> dispatch_group_9(op)
    [] Group(op) = 10 -> ALine
    [] Group(op) = 11 -> dispatch_group_b(op)
    [] Group(op) = 12 -> dispatch_group_c(op)
    [] Group(op) = 13 -> dispatch_group_d(op)
    [] Group(op) = 14 -> dispatch_group_e(c, op)
    [] Group(op) = 15 -> dispatch_group_f(c, s, op, x)

----------------------------------------------------------------------------
(* The decode table's two decoders.  A simple op also carries the cycles of its
   model: the count of a BinaryDataReg, or the m68000_timing flag of a
   MulWordDataReg (1 for true), 0 where the op computes its cycles. *)

Simple(i)    == [kind |-> "Simple", ins |-> i, cycles |-> 0]
Timed(i, cy) == [kind |-> "Simple", ins |-> i, cycles |-> cy]
Mem(i)       == [kind |-> "Mem", ins |-> i, cycles |-> 0]
Complex      == [kind |-> "Complex", ins |-> NotDecoded, cycles |-> 0]
Unknown      == [kind |-> "Unknown", ins |-> NotDecoded, cycles |-> 0]

IsDirect(e) == e[1] <= 1

decode_move_reg(op, sz) ==
  LET src == EaOf(op)
      dst == DstEa(op)
  IN CASE IsDirect(src) /\ dst[1] = 0           -> Simple(Ins("MOVE", sz, src, dst))
       [] IsDirect(src) /\ dst[1] = 1 /\ sz # 1 -> Simple(Ins("MOVEA", sz, src, dst))
       [] OTHER -> Complex

decode_group_4_reg(op) ==
  IF Mode(op) = 0 /\ SizeBits(op) # 3 /\ Sub(op) \in {0, 2, 4, 6, 10}
  THEN Simple(Ins(IF Sub(op) = 10 THEN "TST" ELSE UnaryName[Sub(op)],
                  decode_size_00(SizeBits(op)), NoOpnd, EaOf(op)))
  ELSE Complex

alu_cycles(c, bits, cmp) ==
  IF c \in Pre020 /\ bits = 2 THEN (IF cmp THEN 6 ELSE 8) ELSE 4

AluName == [g \in {8, 9, 11, 12, 13} |->
  CASE g = 8 -> "OR" [] g = 9 -> "SUB" [] g = 11 -> "CMP" [] g = 12 -> "AND" [] g = 13 -> "ADD"]
AddrName == [g \in {9, 11, 13} |-> CASE g = 9 -> "SUBA" [] g = 11 -> "CMPA" [] g = 13 -> "ADDA"]

decode_group_alu_reg(c, op) ==
  LET g == Group(op)
      m == OpMode(op)
      e == EaOf(op)
      sz == decode_size_00(m % 4)
      r == Dn(Nine(op))
  IN CASE m <= 2 /\ IsDirect(e) -> Timed(Ins(AluName[g], sz, e, r), alu_cycles(c, m, g = 11))
       [] g \in {9, 11, 13} /\ m \in {3, 7} /\ IsDirect(e) ->
            Simple(Ins(AddrName[g], WordOrLong(op), e, An(Nine(op))))
       [] g \in {9, 13} /\ m \in 4 .. 6 /\ e[1] = 0 ->
            Simple(Ins(IF g = 9 THEN "SUBX" ELSE "ADDX", sz, e, r))
       [] g = 11 /\ m \in 4 .. 6 /\ e[1] = 0 ->
            Timed(Ins("EOR", sz, r, e), IF c \in Pre020 THEN alu_cycles(c, m - 4, FALSE) ELSE 8)
       [] g \in {8, 12} /\ m = 4 /\ e[1] = 0 ->
            Simple(Ins(IF g = 8 THEN "SBCD" ELSE "ABCD", 1, e, r))
       [] g = 12 /\ m \in {3, 7} /\ e[1] = 0 ->
            Timed(Ins(IF m = 3 THEN "MULU" ELSE "MULS", 2, e, r), IF c \in M000 THEN 1 ELSE 0)
       [] g = 12 /\ m > 2 /\ ExchangeField(op) \in {8, 9, 17} -> Simple(Exchange(op))
       [] OTHER -> Complex

\* DecodedSimpleOp::decode; Complex stands for its None.
SimpleDecode(c, op) ==
  LET g == Group(op)
      e == EaOf(op)
  IN CASE g = 1 -> decode_move_reg(op, 1)
       [] g = 2 -> decode_move_reg(op, 4)
       [] g = 3 -> decode_move_reg(op, 2)
       [] g = 7 -> Simple(Ins("MOVEQ", 4, Quick(op % 256), Dn(Nine(op))))
       [] op = 20081 -> Simple(Bare("NOP"))
       [] g = 4 /\ decode_group_4_reg(op) # Complex -> decode_group_4_reg(op)
       [] g = 0 /\ Bit8(op) /\ e[1] = 0 -> Simple(Ins(BitName[SizeBits(op) + 1], 4, Dn(Nine(op)), e))
       [] Top(op, 3) = 18496 -> Simple(Ins("SWAP", 4, NoOpnd, e))
       [] Top(op, 3) = 18560 -> Simple(Ins("EXT", 2, NoOpnd, e))
       [] Top(op, 3) = 18624 -> Simple(Ins("EXT", 4, NoOpnd, e))
       [] Top(op, 3) = 18880 /\ c \notin Pre020 -> Simple(Ins("EXTB", 4, NoOpnd, e))
       [] g = 5 /\ SizeBits(op) # 3 /\ IsDirect(e) ->
            Simple(Ins(IF Bit8(op) THEN "SUBQ" ELSE "ADDQ",
                       IF e[1] = 1 THEN 4 ELSE decode_size_00(SizeBits(op)), QuickData(op), e))
       [] g = 5 /\ SizeBits(op) = 3 /\ e[1] = 0 -> Simple(Ins("Scc", 1, Cond(Sub(op)), e))
       [] g \in {8, 9, 11, 12, 13} -> decode_group_alu_reg(c, op)
       [] g = 14 /\ SizeBits(op) # 3 ->
            Simple(Ins(ShiftOf((op \div 8) % 4, op), decode_size_00(SizeBits(op)),
                       IF (op \div 32) % 2 = 1 THEN Dn(Nine(op)) ELSE QuickData(op), Dn(Reg(op))))
       [] g = 6 /\ Sub(op) # 1 /\ op % 256 \notin {0, 255} ->
            Simple(Ins("Bcc", 0, Cond(Sub(op)), Disp8(op % 256)))
       [] OTHER -> Complex

\* FastEa: the effective addresses of mem_ops.rs, given that they decode.
is_data_alterable(e) == EaDecodes(e) /\ e[1] # 1 /\ e \notin {<<7, 2>>, <<7, 3>>, <<7, 4>>}
is_control(e)        == EaDecodes(e) /\ (e[1] \in {2, 5, 6} \/ (e[1] = 7 /\ e # Imm))
is_memory(e)         == EaDecodes(e) /\ e[1] >= 2 /\ e # Imm
FastStore(e)         == is_memory(e) /\ is_data_alterable(e)
MemIf(ok, i)         == IF ok THEN Mem(i) ELSE Complex

MemMove(op, sz) ==
  LET src == EaOf(op)
      dst == DstEa(op)
  IN MemIf(/\ EaDecodes(src) /\ EaDecodes(dst)
           /\ ~(sz = 1 /\ (src[1] = 1 \/ dst[1] = 1))
           /\ is_data_alterable(dst) \/ dst[1] = 1,
           Ins(IF dst[1] = 1 THEN "MOVEA" ELSE "MOVE", sz, src, dst))

MemGroup0(op) ==
  LET e == EaOf(op)
      bitop == BitName[SizeBits(op) + 1]
      field == Nine(op)
  IN IF Bit8(op) THEN MemIf(FastStore(e), Ins(bitop, 1, Dn(Nine(op)), e))
     ELSE IF op \div 256 = 8 /\ e[1] = 0 THEN Mem(Ins(bitop, 4, Imm16, e))
     ELSE IF op \div 256 = 8 THEN MemIf(FastStore(e), Ins(bitop, 1, Imm16, e))
     ELSE IF SizeBits(op) # 3 /\ field \in {0, 1, 2, 3, 5, 6}
          THEN MemIf(is_data_alterable(e),
                     Ins(ImmediateName[2 * field], decode_size_00(SizeBits(op)), Imm, e))
     ELSE Complex

MemGroup4(op) ==
  LET e == EaOf(op)
      r == Reg(op)
      Is(v) == Top(op, 6) = v
  IN CASE op = 20085 -> Mem(Bare("RTS"))
       [] Top(op, 3) = 19608 -> Mem(Ins("MOVEM_to_registers", 2, Imm16, <<3, r>>))
       [] Top(op, 3) = 20048 /\ r # 7 -> Mem(Ins("LINK", 2, Imm16, An(r)))
       [] Top(op, 3) = 20056 /\ r # 7 -> Mem(Ins("UNLK", 4, NoOpnd, An(r)))
       [] Top(op, 3) = 18656 -> Mem(Ins("MOVEM_to_memory", 4, Imm16, <<4, r>>))
       [] Top(op, 3) = 19672 -> Mem(Ins("MOVEM_to_registers", 4, Imm16, <<3, r>>))
       [] OpMode(op) = 7 -> MemIf(is_control(e), Ins("LEA", 4, e, An(Nine(op))))
       [] Is(18496) -> MemIf(is_control(e), Ins("PEA", 4, e, NoOpnd))
       [] Is(20096) -> MemIf(is_control(e), Ins("JSR", 4, e, NoOpnd))
       [] Is(20160) -> MemIf(is_control(e), Ins("JMP", 4, e, NoOpnd))
       [] SizeBits(op) # 3 /\ Sub(op) \in {2, 4, 6, 10} ->
            MemIf(FastStore(e), Ins(IF Sub(op) = 10 THEN "TST" ELSE UnaryName[Sub(op)],
                                    decode_size_00(SizeBits(op)), NoOpnd, e))
       [] OTHER -> Complex

MemGroup5(op) ==
  IF SizeBits(op) = 3
  THEN MemIf(Mode(op) = 1, Ins("DBcc", 2, CondReg(Sub(op), Reg(op)), Imm16))
  ELSE MemIf(FastStore(EaOf(op)), Ins(IF Bit8(op) THEN "SUBQ" ELSE "ADDQ",
                                      decode_size_00(SizeBits(op)), QuickData(op), EaOf(op)))

MemGroup6(op) ==
  LET d == op % 256
  IN CASE Sub(op) = 1 -> MemIf(d # 255, Ins("BSR", 0, Cond(1), IF d = 0 THEN Imm16 ELSE Disp8(d)))
       [] OTHER       -> MemIf(d = 0, Ins("Bcc", 0, Cond(Sub(op)), Imm16))

MemAlu(op) ==
  LET g == Group(op)
      m == OpMode(op)
      e == EaOf(op)
      sz == decode_size_00(m % 4)
      r == Dn(Nine(op))
  IN IF ~EaDecodes(e) THEN Complex
     ELSE IF m \in {3, 7}
          THEN IF g \in {9, 11, 13} THEN Mem(Ins(AddrName[g], WordOrLong(op), e, An(Nine(op)))) ELSE Complex
     ELSE IF m <= 2 THEN MemIf(~(e[1] = 1 /\ (sz = 1 \/ g \in {8, 12})), Ins(AluName[g], sz, e, r))
     ELSE IF g = 11 /\ e[1] = 1 THEN Mem(Ins("CMPM", sz, <<3, e[2]>>, <<3, Nine(op)>>))
     ELSE MemIf(FastStore(e), Ins(IF g = 11 THEN "EOR" ELSE AluName[g], sz, r, e))

\* DecodedMemOp::decode.
MemDecode(op) ==
  LET g == Group(op)
  IN CASE g = 0 -> MemGroup0(op)
       [] g = 1 -> MemMove(op, 1)
       [] g = 2 -> MemMove(op, 4)
       [] g = 3 -> MemMove(op, 2)
       [] g = 4 -> MemGroup4(op)
       [] g = 5 -> MemGroup5(op)
       [] g = 6 -> MemGroup6(op)
       [] g \in {8, 9, 11, 12, 13} -> MemAlu(op)
       [] OTHER -> Complex

\* What cached_decode stores for a word it has not seen.
FreshEntry(c, op) ==
  IF SimpleDecode(c, op).kind = "Simple" THEN SimpleDecode(c, op) ELSE MemDecode(op)

----------------------------------------------------------------------------
(* The trace recorder's decoder.  It answers with the instruction and with the
   number of words it recorded, opcode word included (TraceBuildOp::length). *)

Recorded(i, w) == [ins |-> i, words |-> w]
NotRecorded    == Recorded(NotDecoded, 0)
RecordIf(ok, i, w) == IF ok THEN Recorded(i, w) ELSE NotRecorded

FullFormat(c, w) == c \notin Pre020 /\ (w \div 256) % 2 = 1

\* Variant for the checks: full-format index words taken for brief ones.
decode_jit_ea_AnyFormat(c, e, w) == e[1] <= 6

\* decode_jit_ea: the address forms a trace op can hold, w being the word that
\* follows; absolute and PC-relative forms are the callers' own.
decode_jit_ea(c, e, w) == e[1] <= 5 \/ (e[1] = 6 /\ ~FullFormat(c, w))
JitEaWords(e) == IF e[1] \in {5, 6} THEN 1 ELSE 0
AbsWords(e)   == IF e = <<7, 1>> THEN 2 ELSE 1

\* DBcc, Bcc.W, JSR (An), RTS and RTD, LINK and UNLK.
TraceFlowOp(c, op) ==
  CASE Group(op) = 5 /\ SizeBits(op) = 3 /\ Mode(op) = 1 ->
         Recorded(Ins("DBcc", 2, CondReg(Sub(op), Reg(op)), Imm16), 2)
    [] Group(op) = 6 /\ op % 256 = 0 /\ Sub(op) # 1 -> Recorded(Ins("Bcc", 0, Cond(Sub(op)), Imm16), 2)
    [] Top(op, 3) = 20112 -> Recorded(Ins("JSR", 4, EaOf(op), NoOpnd), 1)
    [] op = 20085 -> Recorded(Bare("RTS"), 1)
    [] op = 20084 /\ c \notin M000 -> Recorded(Ins("RTD", 4, Imm16, NoOpnd), 2)
    [] Top(op, 3) = 20048 /\ Reg(op) # 7 -> Recorded(Ins("LINK", 2, Imm16, An(Reg(op))), 2)
    [] Top(op, 3) = 20056 /\ Reg(op) # 7 -> Recorded(Ins("UNLK", 4, NoOpnd, An(Reg(op))), 1)
    [] OTHER -> NotRecorded

ImmWords(sz) == IF sz = 4 THEN 2 ELSE 1
MaskHas(mask, b) == (mask \div 2 ^ b) % 2 = 1

\* Immediate operands: ALU and bit operations on a data register, MULU/MULS,
\* CMPI.W on memory, CMPA, MULL to 32 bits, MOVE #imm to a register.
TraceImmediateOp(c, op, x, i) ==
  LET alu == i.name \in {"ORI", "ANDI", "SUBI", "ADDI", "EORI", "CMPI"}
  IN IF alu /\ i.dst[1] = 0 THEN Recorded(i, 1 + ImmWords(i.size))
     ELSE IF op \div 256 = 8 /\ Mode(op) = 0
          THEN Recorded(Ins(BitName[SizeBits(op) + 1], 4, Imm16, EaOf(op)), 2)
     ELSE IF Group(op) = 12 /\ EaOf(op) = Imm /\ OpMode(op) \in {3, 7}
          THEN Recorded(Ins(IF OpMode(op) = 7 THEN "MULS" ELSE "MULU", 2, Imm, Dn(Nine(op))), 2)
     ELSE IF i.name = "CMPI" /\ i.size = 2
          THEN RecordIf(i.dst[1] \in {5, 6} /\ decode_jit_ea(c, i.dst, x[2]), i, 3)
     ELSE IF i.name = "CMPA" /\ i.src = Imm THEN Recorded(i, 1 + ImmWords(i.size))
     ELSE IF Top(op, 3) = 19456 /\ c \notin Pre020
          THEN RecordIf(~MaskHas(x[1], 10), Ins("MULL", 4, Imm16, EaOf(op)), 2)
     ELSE IF Group(op) \in {2, 3} /\ EaOf(op) = Imm /\ OpMode(op) = 0
          THEN LET sz == IF Group(op) = 2 THEN 4 ELSE 2
               IN Recorded(Ins("MOVE", sz, Imm, Dn(Nine(op))), 1 + ImmWords(sz))
     ELSE NotRecorded

\* decode_an_disp_trace_op: which address forms of which memory op are admitted.
AbsForms == {<<7, 0>>, <<7, 1>>}
AnDispAdmits(n, e) ==
  \/ n = "TST" /\ (e[1] \in {2, 5, 6} \/ e \in AbsForms)
  \/ n = "CLR" /\ (e[1] \in {4, 5, 6} \/ e \in AbsForms)
  \/ n = "PEA" /\ (e[1] \in {2, 5} \/ e \in AbsForms)
  \/ n = "LEA" /\ (e[1] \in {2, 5, 6} \/ e \in AbsForms)
  \/ n \in {"ADDQ", "SUBQ"} /\ e[1] \in {2, 5}
  \/ n \in {"BTST", "BCHG", "BCLR", "BSET"} /\ e[1] = 5

decode_an_disp_trace_op(c, op, x, i) ==
  LET e == IF i.name \in {"PEA", "LEA"} THEN i.src ELSE i.dst
      words == IF e[1] = 7 THEN AbsWords(e) ELSE JitEaWords(e)
  IN RecordIf(/\ AnDispAdmits(i.name, e)
              /\ e[1] = 6 => ~FullFormat(c, x[1]),
              i, 1 + words + (IF i.src = Imm16 THEN 1 ELSE 0))

\* <ea>,Dn and <ea>,An from memory, Dn to memory, MOVEM.
TraceMemoryOp(c, op, x, i) ==
  IF i.name \in {"CMP", "ADD", "SUB", "AND", "OR"} /\ i.dst[1] = 0 /\ i.src[1] \in {2, 5, 6}
  THEN RecordIf(decode_jit_ea(c, i.src, x[1]), i, 1 + JitEaWords(i.src))
  ELSE IF i.name \in {"CMPA", "ADDA"} /\ i.src[1] \in {2, 5} THEN Recorded(i, 1 + JitEaWords(i.src))
  ELSE IF i.name \in {"ADD", "SUB"} /\ i.src[1] = 0 /\ i.dst[1] \in {2, 3, 5} /\ i.size # 1
       THEN Recorded(i, 1 + JitEaWords(i.dst))
  ELSE IF i.name = "MOVEM_to_registers" /\ i.size = 2 THEN RecordIf(x[1] \in 1 .. 255, i, 2)
  ELSE IF i.name = "MOVEM_to_memory" THEN RecordIf(x[1] # 0 /\ ~MaskHas(x[1], 7 - Reg(op)), i, 2)
  ELSE IF i.name = "MOVEM_to_registers" THEN RecordIf(x[1] # 0 /\ ~MaskHas(x[1], 8 + Reg(op)), i, 2)
  ELSE NotRecorded

MoveSize(op) == <<1, 4, 2>>[Group(op)]

\* decode_move_imm_mem_trace_op: at most two extension words.
decode_move_imm_mem_trace_op(c, op, x) ==
  LET sz == MoveSize(op)
      dst == DstEa(op)
  IN RecordIf(/\ EaOf(op) = Imm
              /\ dst[1] \in 2 .. 6
              /\ dst[1] \in {5, 6} => sz # 4
              /\ dst[1] = 6 => decode_jit_ea(c, dst, x[1 + ImmWords(sz)]),
              Ins("MOVE", sz, Imm, dst), 1 + ImmWords(sz) + JitEaWords(dst))

\* decode_move_mem_trace_op: words the operand e takes, or 3 when it is not
\* admitted, its first extension word being w.
TraceMoveWords(c, e, w, is_src) ==
  CASE e[1] < 7       -> IF decode_jit_ea(c, e, w) THEN JitEaWords(e) ELSE 3
    [] e \in AbsForms -> AbsWords(e)
    [] is_src /\ e = <<7, 2>> -> 1
    [] is_src /\ e = <<7, 3>> -> IF FullFormat(c, w) THEN 3 ELSE 1
    [] OTHER -> 3

decode_move_mem_trace_op(c, op, x) ==
  LET sz == MoveSize(op)
      src == EaOf(op)
      dst == DstEa(op)
      sw == TraceMoveWords(c, src, x[1], TRUE)
      dw == TraceMoveWords(c, dst, IF sw = 3 THEN 0 ELSE x[1 + sw], FALSE)
  IN RecordIf(/\ sw + dw <= 2
              /\ src[1] >= 2 \/ dst[1] >= 2
              /\ ~(sz = 1 /\ (src[1] = 1 \/ dst[1] = 1)),
              Ins(IF dst[1] = 1 THEN "MOVEA" ELSE "MOVE", sz, src, dst), 1 + sw + dw)

\* JMP (d8,PC,Xn), recorded with the target it took.
decode_pc_index_jmp_trace_op(c, op, x) ==
  RecordIf(op = 20219 /\ ~FullFormat(c, x[1]), Ins("JMP", 4, <<7, 3>>, NoOpnd), 2)

\* to_jit_trace_op: BCD is not lowered; the native build lowers no ASL and no
\* rotate, which the portable one does.
to_jit_trace_op(i) ==
  /\ i.name \notin {"ABCD", "SBCD"}
  /\ ~Native \/ i.name \notin {"ASL", "ROXR", "ROXL", "ROR", "ROL"}

\* decode_call_op: RTS, JSR d16(PC), JSR (xxx).L and BSR, recorded through.
decode_call_op(c, op) ==
  CASE op = 20085 -> Recorded(Bare("RTS"), 1)
    [] op = 20154 -> Recorded(Ins("JSR", 4, <<7, 2>>, NoOpnd), 2)
    [] op = 20153 -> Recorded(Ins("JSR", 4, <<7, 1>>, NoOpnd), 3)
    [] op \div 256 = 97 ->
         LET d == op % 256
         IN CASE d = 0 -> Recorded(Ins("BSR", 0, Cond(1), Imm16), 2)
              [] d = 255 /\ c \notin Pre020 -> Recorded(Ins("BSR", 0, Cond(1), Imm32), 3)
              [] OTHER -> Recorded(Ins("BSR", 0, Cond(1), Disp8(d)), 1)
    [] OTHER -> NotRecorded

FirstOf(a, b) == IF a = NotRecorded THEN b ELSE a

\* decode_trace_op: the decoders in the order they are tried.
decode_trace_op(c, op, x) ==
  LET mem == MemDecode(op).ins
      simple == SimpleDecode(c, op)
      move == IF Group(op) \in 1 .. 3
              THEN FirstOf(decode_move_imm_mem_trace_op(c, op, x), decode_move_mem_trace_op(c, op, x))
              ELSE decode_pc_index_jmp_trace_op(c, op, x)
      last == RecordIf(simple.kind = "Simple" /\ to_jit_trace_op(simple.ins), simple.ins, 1)
  IN FirstOf(TraceFlowOp(c, op),
       FirstOf(TraceImmediateOp(c, op, x, mem),
         FirstOf(decode_an_disp_trace_op(c, op, x, mem),
           FirstOf(TraceMemoryOp(c, op, x, mem), FirstOf(move, last)))))

----------------------------------------------------------------------------
(* 68010 loop mode: the one-word instructions whose refetch a DBcc loop saves. *)

loopable_68010(op) ==
  LET g == Group(op)
      m == OpMode(op)
      loop_ea == Mode(op) \in 2 .. 4
      pair == Bit8(op) /\ Mode(op) = 1
  IN \/ g \in 1 .. 3 /\ Mode(op) <= 4 /\ m \in 2 .. 4
     \/ g = 4 /\ loop_ea /\ \/ Sub(op) \in {0, 2, 4, 6, 10} /\ SizeBits(op) # 3
                            \/ Sub(op) = 8 /\ SizeBits(op) = 0
     \/ g \in {8, 12} /\ ((pair /\ SizeBits(op) = 0) \/ (m \notin {3, 7} /\ loop_ea))
     \/ g \in {9, 11, 13} /\ ((pair /\ m % 4 # 3) \/ loop_ea)
     \/ g = 14 /\ m = 3 /\ loop_ea /\ Nine(op) <= 3

\* Variant for the checks: any word of the decode table skips the snapshot.
needs_rollback_snapshot_TableMiss(op) == FreshEntry("M68040", op) = Complex

\* needs_rollback_snapshot: decoded for the 68040 whatever the model is.
needs_rollback_snapshot(op) == SimpleDecode("M68040", op).kind # "Simple"

----------------------------------------------------------------------------
(* The table entry's life. *)

Init == /\ cpu_type \in Models
        /\ opcode \in Opcodes
        /\ table = Unknown

\* cached_decode: the entry is filled on first sight and kept.
cached_decode ==
  /\ table = Unknown
  /\ table' = FreshEntry(cpu_type, opcode)
  /\ UNCHANGED <<cpu_type, opcode>>

\* Variant for the checks: the table survives the change of model.
set_cpu_type_KeepsTable(c) == cpu_type' = c /\ UNCHANGED <<opcode, table>>

\* set_cpu_type drops the whole table.
set_cpu_type(c) ==
  /\ cpu_type' = c
  /\ table' = Unknown
  /\ UNCHANGED opcode

SetCpuType == \E c \in Models : set_cpu_type(c)

Next == cached_decode \/ SetCpuType

Spec == Init /\ [][Next]_vars

----------------------------------------------------------------------------
(* Properties. *)

\* The words whose fast decoding is looser than the dispatcher's: MOVEQ with
\* bit 8 set, byte operations on an address register, OR and AND from one.
LooseForm(op) ==
  LET i == SimpleDecode("M68000", op).ins
  IN \/ Group(op) = 7 /\ Bit8(op)
     \/ i.src[1] = 1 /\ (i.size = 1 \/ i.name \in {"OR", "AND"})
     \/ i.name \in {"ADDQ", "SUBQ"} /\ i.dst[1] = 1 /\ SizeBits(op) = 0

Decoded(c, op, s, x) == dispatch_instruction(c, s, op, x)

\* A word the batch takes from its table is the instruction that the dispatcher
\* executes on the current model: same operation, size and operands.  The only
\* other case is a word of a loose form, illegal to the dispatcher.
FastDecodeAgrees ==
  table.kind \in {"Simple", "Mem"} =>
    \A s \in BOOLEAN, x \in Streams :
      LET i == Decoded(cpu_type, opcode, s, x)
      IN i = table.ins \/ (i = Illegal /\ LooseForm(opcode))

\* A filled entry is what decoding the word for the current model gives: no
\* change of model leaves an entry behind.
EntryCurrent == table # Unknown => table = FreshEntry(cpu_type, opcode)

\* The words that the batch executes are legal: an opcode the dispatcher traps
\* is never executed from the table.
IllegalWordsTrap ==
  table.kind \in {"Simple", "Mem"} =>
    \A s \in BOOLEAN, x \in Streams : Decoded(cpu_type, opcode, s, x) # Illegal

RegisterOperand(o) == o[1] \in {0, 1, 8, 9, 10, 13}
TouchesRegistersOnly(i) == /\ RegisterOperand(i.src) /\ RegisterOperand(i.dst)
                           /\ i.name \notin {"LINK", "UNLK", "BSR", "RTS", "RTE", "RTR", "TRAP", "CAS2"}

\* An instruction executed without a rollback snapshot has nothing to roll back:
\* on the current model it reads no extension word, touches no memory and is not
\* privileged, or it is an illegal word that does nothing but trap.
SnapshotSkippedSafely ==
  ~needs_rollback_snapshot(opcode) =>
    \A s \in BOOLEAN, x \in Streams :
      LET i == Decoded(cpu_type, opcode, s, x)
      IN i = Illegal \/ (i # Privilege /\ TouchesRegistersOnly(i))

\* Words an operand takes after the opcode word, w being the first of them:
\* the brief or the full format of an indexed address, an immediate by size.
FullWords(w) == 1 + <<0, 0, 1, 2>>[((w \div 16) % 4) + 1] + <<0, 0, 1, 2>>[(w % 4) + 1]
OperandWords(c, o, sz, w) ==
  CASE o[1] = 6 \/ o = <<7, 3>> -> IF FullFormat(c, w) THEN FullWords(w) ELSE 1
    [] o[1] = 5 \/ o \in {<<7, 0>>, <<7, 2>>, Imm16} -> 1
    [] o \in {<<7, 1>>, Imm32} -> 2
    [] o = Imm -> ImmWords(sz)
    [] OTHER -> 0
Words(c, i, x) ==
  LET s == OperandWords(c, i.src, i.size, x[1])
  IN 1 + s + OperandWords(c, i.dst, i.size, IF s < 3 THEN x[s + 1] ELSE 0)

\* An operation enters a trace as the instruction the dispatcher executes on
\* this model, and with its length: a wrong length would resume the trace inside
\* an instruction.  (The loose forms above are recorded as well.)
TraceDecodeAgrees ==
  \A x \in Streams :
    \A r \in {decode_trace_op(cpu_type, opcode, x), decode_call_op(cpu_type, opcode)} :
      r # NotRecorded =>
        LET i == Decoded(cpu_type, opcode, FALSE, x)
        IN \/ i = r.ins /\ r.words = Words(cpu_type, i, x)
           \/ i = Illegal /\ LooseForm(opcode)

\* Loop mode names one-word instructions with an operand in memory: skipping
\* their refetch skips no extension word.
LoopableOneWord ==
  (cpu_type = "M68010" /\ loopable_68010(opcode)) =>
    \A x \in Streams :
      LET i == Decoded(cpu_type, opcode, FALSE, x)
      IN \/ Words(cpu_type, i, x) = 1 /\ i.name \notin {"illegal", "privilege"}
         \/ i = Illegal /\ Group(opcode) = 1 /\ Mode(opcode) = 1

\* Every hand-written classifier of opcode words (the two tables, the recorder of
\* traces, loop mode) takes a word for what dispatch_instruction executes.
DecodersAgree == FastDecodeAgrees /\ TraceDecodeAgrees /\ LoopableOneWord
=============================================================================
