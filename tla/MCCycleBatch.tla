---------------------------- MODULE MCCycleBatch ----------------------------
(* Calls for CycleBatch: two budgets and a non-positive one, two masks, and     *)
(* every way step can end.                                                     *)
EXTENDS CycleBatch

Ins(op, cost, mask, ends) == [op |-> op, cost |-> cost, mask |-> mask, ends |-> ends]

Common == {Ins("plain", 1, 0, "normal"), Ins("plain", 3, 0, "fault"),
           Ins("plain", 0, 0, "fetch"), Ins("plain", 2, 0, "trace"),
           Ins("sr", 1, 0, "normal"), Ins("sr", 1, 7, "normal"),
           Ins("stop", 2, 0, "normal"), Ins("stop", 2, 5, "normal"),
           Ins("trap", 0, 0, "normal")}
Traced == {Ins("sr", 1, 0, "trace"), Ins("stop", 2, 0, "trace")}

SafetyCalls ==
    { [mode |-> m, budget |-> n, code |-> IF m = "plain" THEN Common ELSE Common \cup Traced] :
        m \in Modes, n \in {0, 2, 5} }
=============================================================================
