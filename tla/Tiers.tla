-------------------------------- MODULE Tiers --------------------------------
(* run_batch runs one instruction on the first tier that takes it: a compiled
   trace that begins with it, the register tier, the memory tier, and the
   dispatcher when the memory tier refuses.  step always uses the dispatcher.  A
   behaviour is one instruction, or one trace, on one machine. *)
EXTENDS TraceOps

CONSTANTS Programs,     \* the instructions
          Machines      \* the machines they start on

VARIABLES ins,          \* the instruction
          m0,           \* the machine before it
          m,            \* the machine
          tier,         \* "start", "simple", "fast", "bailed", "dispatched", "traced"
          ops,          \* the instructions of the trace
          retired       \* how many of them were run

vars == <<ins, m0, m, tier, ops, retired>>

\* RTD is illegal on the 68000 alone, the others before the 68020, where an index
\* word has no displacement words behind it.
Implemented(model, i) ==
    /\ i.op = "Rtd" => model # "M68000"
    /\ Pre020(model) => /\ i.op \notin {"MulLong", "Extb"}
                        /\ \A k \in DOMAIN i.ext : i.ext[k].x.bd + i.ext[k].x.od = 0

Init == /\ m0 \in Machines
        /\ \E p \in Programs : Implemented(m0.model, p) /\ ins = [p EXCEPT !.at = m0.pc]
        /\ m = m0
        /\ tier = "start"
        /\ ops = <<>> /\ retired = 0

\* Operands in registers only, and short branches: the register tier decodes it.
IsSimple(i) ==
    \/ i.op \in {"Moveq", "AddSubx", "Scc", "ShiftReg", "Swap", "Ext", "Extb", "Exg"}
    \/ i.op = "MulWord" /\ i.src.m = "Dn"
    \/ i.op \in {"Move", "AluToReg", "AluAddr"} /\ i.src.m \in Direct /\ i.dst.m \in Direct
    \/ i.op \in {"Unary", "AddqSubq"} /\ i.dst.m \in Direct
    \/ i.op = "Bit" /\ i.src.m = "Dn" /\ i.dst.m = "Dn"
    \/ i.op = "Bcc" /\ i.ext = <<>>

\* Register lists in other modes than the stepping ones, word lists to memory, RTD
\* and the other multiplications are decoded by no table.
IsComplex(i) ==
    \/ i.op \in {"Rtd", "MulLong"} \/ (i.op = "MulWord" /\ i.src.m # "Dn")
    \/ i.op = "MovemToReg" /\ i.src.m # "(An)+"
    \/ i.op = "MovemToMem" /\ (i.dst.m # "-(An)" \/ i.s = "Word")

Step(to, after) == m' = after /\ tier' = to /\ UNCHANGED <<ins, m0, ops, retired>>

Simple == tier = "start" /\ IsSimple(ins) /\ Step("simple", execute(m, ins))
Fast ==
    /\ tier = "start" /\ ~IsSimple(ins) /\ ~IsComplex(ins)
    /\ \E x \in {execute_mem_op(m, ins)} : x.ok /\ Step("fast", x.m)
Complex == tier = "start" /\ IsComplex(ins) /\ Step("bailed", m)
Refuse ==
    /\ tier = "start" /\ ~IsSimple(ins) /\ ~IsComplex(ins)
    /\ \E x \in {execute_mem_op(m, ins)} : ~x.ok /\ Step("bailed", x.m)
Dispatch == tier = "bailed" /\ Step("dispatched", dispatch_instruction(m, ins))

\* A trace of the instruction and what follows it: the return of an empty callee
\* for a recorded call, and then a MOVEQ or a MOVE.W (A0)+,(A1).
Op(op, at) == [op |-> op, alu |-> "Mov", s |-> "Long", src |-> [m |-> "none", r |-> 0],
               dst |-> [m |-> "Dn", r |-> 1], n |-> 1, ext |-> <<>>, at |-> at + Bytes("Word")]
Copy(at) == [Op("Move", at) EXCEPT !.s = "Word", !.src = [m |-> "(An)+", r |-> 0], !.dst = [m |-> "(An)", r |-> 1]]
Callee == IF ins.op = "Bsr" THEN Branch(m0, ins).pc ELSE Jsr(m0, ins).pc
Traces ==
    IF ends_trace(ins) THEN {<<ins>>} ELSE
    {(IF decode_call_op(ins) THEN <<ins, Op("Rts", Callee)>> ELSE <<ins>>) \o <<tail>> :
        tail \in {Op("Moveq", OpEnd(ins)), Copy(OpEnd(ins))}}
\* A trace that wraps around the address space is not compiled.
NoWrap(t) == \A k \in DOMAIN t : address(OpPc(t[k])) + OpEnd(t[k]) - OpPc(t[k]) <= AddressSpace
Trace ==
    /\ tier = "start" /\ decode_trace_op(m.model, ins)
    /\ \E t \in Traces :
          /\ NoWrap(t)
          /\ ops' = t
          /\ \E x \in {execute_portable_trace_raw([m EXCEPT !.pc = OpPc(ins)], t)} :
                m' = x.m /\ retired' = x.retired
    /\ tier' = "traced"
    /\ UNCHANGED <<ins, m0>>

Next == Simple \/ Fast \/ Complex \/ Refuse \/ Dispatch \/ Trace

Spec == Init /\ [][Next]_vars

----------------------------------------------------------------------------

Visible(x) == [dar |-> x.dar, pc |-> x.pc, f |-> x.f, mem |-> x.mem, fault |-> x.fault]
SameAsStep == Visible(m) = Visible(dispatch_instruction(m0, ins))

\* The register tier leaves the registers, flags and PC that step leaves, for every
\* operand size, partial register write and condition.
SimpleIsStep == tier = "simple" => SameAsStep

\* An instruction the memory tier completes leaves the registers, memory, flags and
\* PC that step leaves, and step takes no fault on it: with both operands stepping
\* one register, an index register that is being stepped, A7 as a byte pointer, a
\* base register in its own list, addresses above the address space.  One it
\* refuses, at whatever point it finds out, runs on the dispatcher as if it had not
\* been tried: nothing is stepped or stored twice.
FastIsStep == tier \in {"fast", "dispatched"} => SameAsStep

\* The machine after the first k instructions of the trace, one step each.
Stepped ==
    LET run[k \in 0 .. Len(ops)] ==
            IF k = 0 THEN [m0 EXCEPT !.pc = OpPc(ins)]
            ELSE dispatch_instruction([run[k - 1] EXCEPT !.pc = ops[k].at], ops[k])
    IN  run
\* A trace leaves what as many steps as it retired leave, on the path they take,
\* whether it completes or bails in the middle; and no store of it reaches the code
\* it was recorded from, but the push of a JSR (An), which ends it.
TraceIsStep ==
    tier = "traced" =>
        \A steps \in {Stepped} :
            /\ Visible(m) = Visible(steps[retired])
            /\ \A k \in 1 .. retired : steps[k - 1].pc = OpPc(ops[k])
            /\ ins.op # "Jsr" \/ decode_call_op(ins) => \A k \in DOMAIN ops : \A a \in OpPc(ops[k]) .. OpEnd(ops[k]) - 1 :
                                    m.mem[address(a)] = m0.mem[address(a)]

\* The memory tier changes no byte outside the memory the host lent it, up to the
\* last byte of an operand that begins inside.
FastInWindow ==
    tier = "fast" => \A a \in DOMAIN m.mem : m.mem[a] # m0.mem[a] => Inside(m0, a, 1)

\* data_movement.rs says where the discarded read of MOVEM falls is observable, so
\* an instruction step would take outside the window must not run on the window.
FastBusComplete == tier = "fast" => ~dispatch_instruction(m0, ins).out
=============================================================================
