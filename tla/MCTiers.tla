------------------------------- MODULE MCTiers -------------------------------
(* Bytes of 2 bits: addresses are 8 bits, the address space is 32 bytes and the
   window its bytes 8 to 23.  Address registers point at both ends of the window,
   at an odd byte, outside it and at its alias above the address space. *)
EXTENDS Tiers

MCBits == [Byte |-> 2, Word |-> 4, Long |-> 8]

Machine(model, pc, on, d0, a0, a1, a7) ==
    [dar |-> [r \in {0, 1, 8, 9, 15} |->
                CASE r = 0 -> d0 [] r = 1 -> 145 [] r = 8 -> a0 [] r = 9 -> a1 [] r = 15 -> a7],
     pc |-> pc, f |-> [n |-> on, z |-> ~on, v |-> on, c |-> on, x |-> on],
     mem |-> [a \in 0 .. AddressSpace + 3 |-> (a * a + a \div 3) % 4],
     model |-> model, win |-> [base |-> 8, len |-> 16], fault |-> FALSE, out |-> FALSE]

MCMachines ==
    {Machine(model, 12, on, d0, a0, 14, 16) :
        model \in {"M68000", "M68020"}, on \in BOOLEAN, d0 \in {16, 127},
        a0 \in {8, 9, 16, 22, 24, 42, 250}}
    \cup {Machine(model, 22, TRUE, 2, a0, 9, a7) :
        model \in {"M68000", "M68040"}, a0 \in {10, 20, 23}, a7 \in {9, 12, 24, 28}}

----------------------------------------------------------------------------
I(op, alu, s, src, dst, n, ext) ==
    [op |-> op, alu |-> alu, s |-> s, src |-> src, dst |-> dst, n |-> n, ext |-> ext, at |-> 0]
Ea(mode, r) == [m |-> mode, r |-> r]
None == Ea("none", 0)
D0 == Ea("Dn", 0)
D1 == Ea("Dn", 1)
A0 == Ea("An", 0)
A7 == Ea("An", 7)
Imm == Ea("#imm", 0)
Plains == {Ea(x, 0) : x \in {"(An)", "(An)+", "-(An)"}}
Brief(reg, long, scale) ==
    [reg |-> reg, long |-> long, scale |-> scale, full |-> FALSE, d8 |-> 2,
     bs |-> FALSE, is |-> FALSE, bd |-> 0, od |-> 0, ind |-> "none"]
Full(ind, bd, od) == [Brief(9, TRUE, 1) EXCEPT !.full = TRUE, !.ind = ind, !.bd = bd, !.od = od]
W(w) == [w |-> w, x |-> Brief(0, FALSE, 0), mask |-> {}]
X(x) == [W(0) EXCEPT !.x = x]
Mask(S) == [W(0) EXCEPT !.mask = S]

\* An operand with its extension words.
Operand(mode, r, words) == [ea |-> Ea(mode, r), ext |-> words]
PlainOps == {Operand(e.m, e.r, <<>>) : e \in Plains \cup {D0, A0, Ea("-(An)", 7), Ea("(An)+", 7)}}
Extended == {Operand("d16(An)", 0, <<W(14)>>), Operand("abs.W", 0, <<W(9)>>), Operand("abs.L", 0, <<W(1), W(4)>>),
             Operand("d8(An,Xn)", 0, <<X(Brief(8, TRUE, 0))>>), Operand("d8(An,Xn)", 1, <<X(Brief(8, FALSE, 1))>>)}
Sources  == Extended \cup {Operand("d16(PC)", 0, <<W(4)>>), Operand("d8(PC,Xn)", 0, <<X(Brief(1, FALSE, 0))>>),
             Operand("d8(An,Xn)", 0, <<X(Full("none", 0, 0))>>), Operand("d8(An,Xn)", 0, <<X(Full("none", 1, 0)), W(2)>>), Operand("d8(An,Xn)", 0, <<X(Full("post", 0, 2)), W(0), W(6)>>)}
Immediate(s) == Operand("#imm", 0, IF s = "Long" THEN <<W(9), W(3)>> ELSE <<W(11)>>)

Moves ==
    {I("Move", "Mov", s, a.ea, b.ea, 0, a.ext \o b.ext) :
        s \in Sizes, a \in PlainOps \cup Sources, b \in PlainOps \cup Extended}
    \cup {I("Move", "Mov", s, Imm, b.ea, 0, Immediate(s).ext \o b.ext) : s \in Sizes, b \in PlainOps \cup Extended}
LegalMove(i) == ~(i.s = "Byte" /\ (i.src.m = "An" \/ i.dst.m = "An"))

Alus ==
    {I("AluToReg", alu, "Word", a.ea, D0, 0, a.ext) : alu \in {"Add", "Sub", "Cmp", "And", "Or"},
        a \in {Operand("(An)+", 0, <<>>), Operand("d16(PC)", 0, <<W(4)>>), Operand("Dn", 1, <<>>), Operand("#imm", 0, <<W(9)>>)}}
    \cup {I("AluToReg", "Eor", "Byte", D1, D0, 0, <<>>)}
    \cup {I("AluToMem", alu, s, D0, a, 0, <<>>) : alu \in {"Add", "Sub", "And", "Or", "Eor"}, s \in {"Byte", "Long"}, a \in Plains}
    \cup {I("AluAddr", alu, s, a, A0, 0, <<>>) : alu \in {"Add", "Sub", "Cmp"}, s \in {"Word", "Long"}, a \in {Ea("(An)+", 0), Ea("-(An)", 1), D0}}
    \cup {I("AluImm", alu, "Byte", Imm, a.ea, 0, <<W(7)>> \o a.ext) : alu \in {"Add", "Sub", "Cmp", "And", "Or", "Eor"}, a \in {Operand("(An)+", 7, <<>>), Operand("d8(An,Xn)", 1, <<X(Brief(0, TRUE, 1))>>)}}
Changes ==
    {I("AddqSubq", alu, s, None, a.ea, 3, a.ext) : alu \in {"Add", "Sub"}, s \in {"Byte", "Word"},
        a \in {Operand("-(An)", 0, <<>>), Operand("d16(An)", 0, <<W(3)>>), Operand("Dn", 0, <<>>)}}
    \cup {I("AddqSubq", alu, s, None, A0, 3, <<>>) : alu \in {"Add", "Sub"}, s \in {"Word", "Long"}}
    \cup {I("Unary", alu, s, None, a.ea, 0, a.ext) : alu \in {"Clr", "Neg", "Not", "Tst"}, s \in {"Byte", "Long"},
        a \in {Operand("(An)+", 0, <<>>), Operand("d16(An)", 0, <<W(3)>>), Operand("Dn", 0, <<>>)}}
    \cup {I("Unary", "Negx", s, None, D0, 0, <<>>) : s \in Sizes}
    \cup {I("Bit", alu, "Byte", Imm, a.ea, 0, <<W(5)>> \o a.ext) : alu \in {"Test", "Set", "Clear", "Change"},
        a \in {Operand("-(An)", 0, <<>>), Operand("d16(An)", 0, <<W(3)>>), Operand("Dn", 0, <<>>)}}
    \cup {I("Bit", alu, "Byte", D1, a, 0, <<>>) : alu \in {"Test", "Set", "Clear", "Change"}, a \in {D0, Ea("(An)+", 0)}}
    \cup {I("Bit", alu, "Byte", D1, Ea("d16(An)", 0), 0, <<W(3)>>) : alu \in {"Test", "Set"}}
    \cup {I("CmpM", "Cmp", s, Ea("(An)+", 0), Ea("(An)+", r), 0, <<>>) : s \in Sizes, r \in {0, 1}}
    \cup {I("Moveq", "Mov", "Long", None, D0, n, <<>>) : n \in 0 .. 3}
    \cup {I("MulWord", alu, "Word", a.ea, D0, 0, a.ext) : alu \in {"Signed", "Unsigned"}, a \in {Operand("Dn", 1, <<>>), Operand("#imm", 0, <<W(11)>>)}}
    \cup {I("MulLong", alu, "Long", D1, D0, 0, <<W(0)>>) : alu \in {"Signed", "Unsigned"}}
    \cup {I(op, "Ctl", s, None, D0, 0, <<>>) : op \in {"Swap", "Ext", "Extb"}, s \in {"Word", "Long"}}
    \cup {I("Exg", "Ctl", "Long", D0, a, 0, <<>>) : a \in {D1, A0}}
    \cup {I("Rtd", "Ctl", "Long", None, D0, 0, <<W(6)>>)}
    \cup {I("AluImm", alu, "Word", Imm, D0, 0, <<W(9)>>) : alu \in {"Add", "Sub", "Cmp", "And", "Or", "Eor"}}
    \cup {I("AluImm", "Cmp", "Word", Imm, a.ea, 0, <<W(7)>> \o a.ext) : a \in Extended}
    \cup {I("AluAddr", "Cmp", s, Imm, A0, 0, Immediate(s).ext) : s \in {"Word", "Long"}}
    \cup {I("AluToMem", alu, "Word", D0, a.ea, 0, a.ext) : alu \in {"Add", "Sub"}, a \in {Operand("(An)", 0, <<>>), Operand("d16(An)", 0, <<W(14)>>)}}
    \cup {I("AluToReg", "Add", "Word", a.ea, D0, 0, a.ext) : a \in Extended}
    \cup {I("Unary", alu, "Word", None, a.ea, 0, a.ext) : alu \in {"Clr", "Tst"}, a \in {o \in PlainOps : o.ea.m # "An"} \cup Extended}
    \cup {I("AddSubx", alu, s, D1, D0, 0, <<>>) : alu \in {"Add", "Sub"}, s \in Sizes}
    \cup {I("Scc", alu, "Byte", None, D0, 0, <<>>) : alu \in {"T", "F", "GT", "LS"}}
    \cup {I("ShiftReg", alu, s, a, D0, n, <<>>) : alu \in {"asr", "asl", "lsr", "lsl", "roxr", "roxl", "ror", "rol"}, s \in Sizes, a \in {D1, Imm}, n \in {0, 1}}

Flow ==
    {I(op, "Ctl", "Long", a.ea, A0, 0, a.ext) : op \in {"Lea", "Pea", "Jmp", "Jsr"},
        a \in Sources \cup {Operand("(An)", 7, <<>>)}}
    \cup {I("Rts", "Ctl", "Long", None, D0, 0, <<>>)}
    \cup {I("Bsr", "T", "Long", None, D0, 2, ext) : ext \in {<<>>, <<W(12)>>}}
    \cup {I("Bcc", alu, "Long", None, D0, -2, ext) : alu \in {"T", "EQ", "LT"}, ext \in {<<>>, <<W(6)>>}}
    \cup {I("Dbcc", alu, "Word", None, D0, 0, <<W(12)>>) : alu \in {"F", "NE"}}
    \cup {I("Link", "Ctl", "Word", None, a, 0, <<W(12)>>) : a \in {A0, A7}}
    \cup {I("Unlk", "Ctl", "Word", None, a, 0, <<>>) : a \in {A0, A7}}
    \cup {I("MovemToMem", "Ctl", "Long", None, Ea("-(An)", r), 0, <<Mask(mask)>>) : r \in {0, 7}, mask \in {{}, {0, 7}, {14, 15}, {6, 7, 15}}}
    \cup {I("MovemToMem", "Ctl", "Word", None, ea, 0, <<Mask({0, 15}), W(2)>>) : ea \in {Ea("-(An)", 0), Ea("d16(An)", 0)}}
    \cup {I("MovemToReg", "Ctl", "Long", Ea("d16(An)", 0), None, 0, <<Mask({0, 15}), W(2)>>)}
    \cup {I("MovemToReg", "Ctl", s, Ea("(An)+", r), None, 0, <<Mask(mask)>>) : s \in {"Word", "Long"}, r \in {0, 7}, mask \in {{}, {0, 1}, {0, 8}, {9, 15}}}

MCPrograms == {i \in Moves : LegalMove(i)} \cup Alus \cup Changes \cup Flow
=============================================================================
