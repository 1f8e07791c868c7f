----------------------------- MODULE MCTraceJit -----------------------------
(***************************************************************************)
(* Guest programs for TLC.  Each is a loop the recorder can close, broken  *)
(* by one of the things the trace cache must survive.                      *)
(***************************************************************************)
EXTENDS TraceJit

I(k, t) == [k |-> k, t |-> t]
O == I("op", 0)
X == I("cx", 0)
Image(code) == [a \in Addr |-> IF a < Len(code) THEN code[a + 1] ELSE O]
Boot(code) == [mem |-> Image(code), pc |-> 0, sp |-> 0]

\* A loop that stores into its own code, and into a later cell of it
SelfModifying == Boot(<<O, I("st", 2), O, I("bcc", 0), I("al", 0)>>)
\* A loop that stores and reads data
Stores == Boot(<<O, I("st", 5), I("cmpm", 5), I("bcc", 0), I("bcc", 0), O>>)
\* Two paths to the head: guards, side exits, chaining, re-recording
TwoPaths == Boot(<<O, I("bcc", 4), O, I("bcc", 0), O, I("bcc", 0), I("tr", 0)>>)
\* A call recorded through, its return checked
Called == Boot(<<I("bsr", 3), I("cmpm", 7), I("bcc", 0), I("rts", 0), O, O, O, X>>)
\* A loop that ends at an A-line trap
TrapLoop == Boot(<<O, I("al", 0), I("bcc", 0), I("tr", 0)>>)
\* A forward branch over one operation: if-conversion
Skips == Boot(<<O, I("bcc", 3), O, I("bcc", 0), I("al", 0)>>)
\* A computed jump and a counted loop
Computed == Boot(<<O, I("jmp", 2), O, O, I("dbcc", 0), I("tr", 0)>>)
\* A poll loop
Polls == Boot(<<I("cmpm", 7), I("cmpm", 4), I("bcc", 0), I("tr", 0), X>>)
\* An instruction that faults inside a loop
Faults == Boot(<<O, I("bcc", 0), I("flt", 0), O, O, I("cmpm", 7), I("bcc", 0)>>)
\* A loop with an instruction the recorder refuses
Blocked == Boot(<<O, I("bcc", 5), O, O, X, O, I("bcc", 0)>>)
\* A cell that cannot be fetched, outside any loop
Unfetchable == Boot(<<O, I("bad", 0), O, O, O, O, I("al", 0)>>)

MCBoots == {SelfModifying, Stores, TwoPaths, Called, TrapLoop, Skips, Computed, Polls, Faults, Blocked, Unfetchable}
MCWritten == [v \in 0..2 |-> IF v = 2 THEN X ELSE O]
MCEntries == {[pc |-> 0, sp |-> 0]}
MCPatches == {<<0, X>>}
MCCalls == {[max |-> 8, watch |-> {}], [max |-> 5, watch |-> {3}], [max |-> 6, watch |-> {0}]}
MCEnvs == {[win |-> Addr, fast |-> TRUE, mmu |-> FALSE], [win |-> 0..4, fast |-> TRUE, mmu |-> FALSE],
           [win |-> {}, fast |-> FALSE, mmu |-> FALSE]}

\* A program whose recording ends at a checked return to a compiled head, with
\* all of memory in the window: the run that is expected to fail
AllOfMemory == {[win |-> Addr, fast |-> TRUE, mmu |-> FALSE]}
ReturnsToAHead == {Boot(<<I("bsr", 4), O, I("cmpm", 7), I("bcc", 0), I("rts", 0), O, O, X>>)}
=============================================================================
