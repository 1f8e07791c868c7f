------------------------------- MODULE Guest -------------------------------
(***************************************************************************)
(* The guest machine under run_batch: a register, a flag, a stack pointer  *)
(* and a memory whose cells hold instructions.  A cell stands for one      *)
(* instruction with its extension words, or for a long word of the stack.  *)
(* The kinds are the cases the batch loop and the trace recorder tell      *)
(* apart: a register operation (op), a store of the register and a compare *)
(* with memory (st, cmpm), branches (bcc, dbcc, a computed jmp), calls and *)
(* returns (jsr, bsr, rts), an instruction only the full dispatcher knows  *)
(* (cx), one that faults (flt), the A-line and the other traps (al, tr),   *)
(* and a cell whose fetch faults (bad).                                    *)
(***************************************************************************)
EXTENDS Integers

CONSTANTS
    MaxAddr,     \* cells 0..MaxAddr
    Regs,        \* values 0..Regs-1 of the guest register
    Vector,      \* where a fault handler starts
    Written,     \* Written[v]: the instruction a store of register value v leaves
    CpuTypes,    \* models the host may select, as numbers
    Boots,       \* initial guest images: [mem, pc, sp]
    Patches,     \* <<cell, instruction>> the host may write between batches
    Entries,     \* contexts the host may start the guest in: [pc, sp]
    Calls        \* run_batch calls: [max, watch]

Addr == 0..MaxAddr
Kinds == {"op", "st", "cmpm", "bcc", "dbcc", "jmp", "jsr", "bsr", "rts",
          "cx", "flt", "al", "tr", "bad"}
Instr == [k : Kinds, t : Addr]

ASSUME GuestAssumption ==
    /\ MaxAddr \in Nat /\ Regs \in Nat \ {0} /\ Vector \in Addr
    /\ Written \in [0..(Regs - 1) -> Instr]
    /\ CpuTypes \subseteq Nat \ {0} /\ CpuTypes # {}
    /\ Patches \subseteq Addr \X Instr /\ Entries \subseteq [pc : Addr, sp : Addr]
ASSUME BootsAssumption == \A b \in Boots : b.mem \in [Addr -> Instr] /\ b.pc \in Addr /\ b.sp \in Addr
ASSUME CallsAssumption == \A c \in Calls : c.max \in Nat /\ c.watch \subseteq Addr

Cpus == [r : 0..(Regs - 1), f : BOOLEAN, sp : Addr, type : CpuTypes]
\* Bound: the host moves to a newer model, never back
NewerTypes(c) == {y \in CpuTypes : y > c.type}
After(p) == (p + 1) % (MaxAddr + 1)
Before(p) == (p + MaxAddr) % (MaxAddr + 1)
\* A pushed return address: as an instruction it is one only the dispatcher knows
ReturnWord(p) == [k |-> "cx", t |-> p]

\* Where instruction i at p goes
Target(i, p, c, m) ==
    CASE i.k = "bcc" -> IF c.f THEN i.t ELSE After(p)
      [] i.k = "dbcc" -> IF c.r # 0 THEN i.t ELSE After(p)
      [] i.k = "jmp" -> (i.t + c.r) % (MaxAddr + 1)
      [] i.k \in {"jsr", "bsr"} -> i.t
      [] i.k = "rts" -> m[c.sp].t
      [] i.k \in {"flt", "bad"} -> Vector
      [] OTHER -> After(p)

\* The registers it leaves; a call and an exception push.  The arithmetic of "op" differs between models, so
\* a trace of another model would be seen
Registers(i, p, c, m) ==
    CASE i.k = "op" -> LET v == (c.r + c.type) % Regs IN [c EXCEPT !.r = v, !.f = (v # 0)]
      [] i.k = "cx" -> [c EXCEPT !.r = 0]
      [] i.k = "cmpm" -> [c EXCEPT !.f = (m[i.t].k # "op")]
      [] i.k = "dbcc" -> [c EXCEPT !.r = IF @ = 0 THEN 0 ELSE @ - 1]
      [] i.k \in {"jsr", "bsr", "flt", "bad"} -> [c EXCEPT !.sp = Before(@)]
      [] i.k = "rts" -> [c EXCEPT !.sp = After(@)]
      [] OTHER -> c

\* The memory it leaves
Stored(i, p, c, m) ==
    CASE i.k = "st" -> [m EXCEPT ![i.t] = Written[c.r]]
      [] i.k \in {"jsr", "bsr", "flt", "bad"} -> [m EXCEPT ![Before(c.sp)] = ReturnWord(After(p))]
      [] OTHER -> m
=============================================================================
