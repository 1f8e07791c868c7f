------------------------------- MODULE MCMmu -------------------------------
(***************************************************************************)
(* Guests for TLC.  Logical pages 0 and 1 hold code and data, 2 the        *)
(* supervisor stack, 3 the vectors; page 4 answers nobody.                 *)
(***************************************************************************)
EXTENDS Mmu

D(dt, tab, page) == [dt |-> dt, tab |-> tab, page |-> page, w |-> FALSE, s |-> FALSE]
WP(d) == [d EXCEPT !.w = TRUE]
SO(d) == [d EXCEPT !.s = TRUE]
I(op, addr, size) == [op |-> op, addr |-> addr, size |-> size]
P(n) == D(1, "none", n)

\* Two 68040 trees: user pages 0/1 -> 1/0, supervisor pages 0/1 -> 0/1, stack and
\* vectors mapped for the supervisor only
Tree == [x \in {"u", "ua", "up", "u2", "ua2", "up2", "k", "ka", "kp", "kb", "ks", "ind"} \X {0, 1} |->
    CASE x = <<"u", 0>> -> D(2, "ua", 0)    [] x = <<"ua", 0>> -> D(2, "up", 0)
      [] x = <<"up", 0>> -> P(1)            [] x = <<"up", 1>> -> P(0)
      [] x = <<"u2", 0>> -> D(2, "ua2", 0)  [] x = <<"ua2", 0>> -> D(2, "up2", 0)
      [] x = <<"up2", 0>> -> P(0)           [] x = <<"up2", 1>> -> P(1)
      [] x = <<"k", 0>> -> D(2, "ka", 0)    [] x = <<"ka", 0>> -> D(2, "kp", 0)
      [] x = <<"kp", 0>> -> P(0)            [] x = <<"kp", 1>> -> P(1)
      [] x = <<"k", 1>> -> D(2, "kb", 0)    [] x = <<"kb", 0>> -> D(2, "ks", 0)
      [] x = <<"ks", 0>> -> SO(P(2))        [] x = <<"ks", 1>> -> SO(P(3))
      [] x = <<"ind", 0>> -> P(1)           [] OTHER -> Invalid]
With(x, d) == [Tree EXCEPT ![x] = d]
Edit(slot, desc) == [slot |-> slot, desc |-> desc]

Base == [models |-> {"M68040", "M68060"}, s |-> FALSE, tc |-> [fcl |-> FALSE, sre |-> TRUE, n |-> 3],
         crp |-> [tab |-> "u", dt |-> 2], srp |-> [tab |-> "k", dt |-> 2], ttr |-> {}, fc |-> 1,
         tbl |-> Tree, bad |-> {}, code |-> {}, irq |-> {}, edits |-> {}, movec |-> {},
         probes |-> {0, 1}, completes |-> FALSE, resets |-> FALSE]

Urp(tab) == [reg |-> "urp", val |-> [tab |-> tab, dt |-> 2]]

\* Demand paging, protection changes and address-space switches under
\* misaligned accesses of a user program; reset at any time
Paging ==
    [Base EXCEPT !.tbl = With(<<"up", 1>>, Invalid), !.resets = TRUE,
       !.code = {I("write", 2, 4), I("read", 3, 2), I("fetch", 2, 4)},
       !.edits = {Edit(<<"up", 1>>, P(0)), Edit(<<"up", 0>>, WP(P(1))), Edit(<<"up", 0>>, P(3))},
       !.movec = {Urp("u2"), Urp("u"), [reg |-> "tc", val |-> TRUE]}]

\* Supervisor code reaching the user space with MOVES and PTEST or PLPA, through
\* supervisor-only, indirect and read-only descriptors
Spaces ==
    [Base EXCEPT !.s = TRUE, !.models = {"M68040"}, !.tbl = With(<<"up", 0>>, SO(P(0))),
       !.code = {I("movesr", 2, 2), I("movesw", 3, 3), I("write", 0, 3)},
       !.edits = {Edit(<<"up", 0>>, D(2, "ind", 0)), Edit(<<"ind", 0>>, WP(P(0))),
                  Edit(<<"ind", 0>>, Invalid), Edit(<<"ua", 0>>, WP(D(2, "up", 0)))}]
Spaces060 ==
    [Spaces EXCEPT !.models = {"M68060"},
       !.code = {I("movesw", 3, 3), I("plpar", 4, 4), I("plpaw", 0, 4), I("write", 0, 1)}]

\* Handlers that complete the faulted cycle themselves
Completing ==
    [Base EXCEPT !.models = {"M68030", "M68040", "M68060"}, !.completes = TRUE,
       !.tbl = With(<<"up", 1>>, Invalid),
       !.code = {I("write", 2, 4), I("read", 3, 2), I("write", 4, 2), I("read", 4, 1), I("write", 3, 2)},
       !.edits = {Edit(<<"up", 1>>, P(0)), Edit(<<"up", 0>>, Invalid)}]

\* Interrupts whose handlers touch the same pages from supervisor state
Interrupted ==
    [Base EXCEPT !.models = {"M68030", "M68040"}, !.irq = {I("write", 3, 2)},
       !.code = {I("write", 3, 2)}, !.tbl = With(<<"kp", 1>>, Invalid),
       !.edits = {Edit(<<"up", 1>>, Invalid), Edit(<<"up", 1>>, P(3)), Edit(<<"kp", 1>>, P(0))}]

\* Transparent translation of page 1, for the user or for the supervisor
Window(s) == [frames |-> {1}, fcs |-> IF s = "user" THEN {1, 2} ELSE {5}, s |-> s]
Windows ==
    [Base EXCEPT !.models = {"M68030", "M68040"}, !.ttr = {Window("user")},
       !.code = {I("write", 2, 4), I("fetch", 2, 4)}, !.irq = {I("read", 3, 2)},
       !.tbl = With(<<"up", 1>>, Invalid), !.probes = {},
       !.movec = {[reg |-> "ttr", val |-> {Window("super")}], [reg |-> "ttr", val |-> {}]},
       !.edits = {Edit(<<"up", 1>>, P(0))}]

\* Nothing answers at a table, at a page, on the stack or at the vectors
Unreachable(tbl, bad) ==
    [Base EXCEPT !.models = {"M68030", "M68040"}, !.tbl = tbl, !.bad = bad,
       !.code = {I("write", 2, 4), I("read", 0, 4)},
       !.edits = {Edit(<<"up", 1>>, Invalid)}]
Holes == { Unreachable(With(<<"up", 1>>, P(Hole)), {}),
           Unreachable([Tree EXCEPT ![<<"up", 1>>] = Invalid, ![<<"ks", 0>>] = P(Hole)], {}),
           Unreachable([Tree EXCEPT ![<<"up", 1>>] = Invalid, ![<<"ks", 1>>] = Invalid], {}),
           Unreachable([Tree EXCEPT ![<<"up", 1>>] = Invalid, ![<<"ks", 0>>] = WP(P(2))], {}),
           Unreachable(With(<<"up", 1>>, D(2, "ind", 0)), {"ind"}) }
         \cup {Unreachable(Tree, {t}) : t \in {"u", "ua", "up"}}

\* Tables with missing upper levels, and a user root pointer that is no table
Missing ==
    [Base EXCEPT !.models = {"M68030", "M68040", "M68060"}, !.code = {I("write", 3, 2)},
       !.edits = {Edit(<<"u", 0>>, Invalid), Edit(<<"ua", 0>>, Invalid), Edit(<<"ua", 0>>, P(1)),
                  Edit(<<"up", 1>>, D(3, "ind", 0))}]
NoTable ==
    [Base EXCEPT !.models = {"M68030"}, !.crp = [tab |-> "u", dt |-> 1], !.code = {I("write", 3, 2)}]

\* 68030 programmable tables: a function-code level over one address level,
\* early termination, a long-format supervisor-only subtree, an indirect page
Tree030 == [x \in {"r", "a", "k", "t"} \X (0..6) |->
    CASE x = <<"r", 1>> -> D(3, "a", 0)        [] x = <<"r", 2>> -> P(0)
      [] x = <<"r", 5>> -> D(2, "k", 0)        [] x = <<"r", 6>> -> P(0)
      [] x = <<"a", 0>> -> SO(P(1))            [] x = <<"a", 1>> -> D(2, "t", 0)
      [] x = <<"t", 0>> -> P(0)
      [] x[1] = "k" /\ x[2] < 4 -> P(x[2])     [] OTHER -> Invalid]
Programmable ==
    [Base EXCEPT !.models = {"M68030"}, !.s = TRUE, !.tc = [fcl |-> TRUE, sre |-> FALSE, n |-> 1],
       !.crp = [tab |-> "r", dt |-> 2], !.tbl = Tree030,
       !.code = {I("movesw", 3, 2), I("movesr", 4, 2), I("write", 2, 4), I("fetch", 2, 4),
                 [op |-> "pmovetc", addr |-> 0, size |-> 4, enable |-> TRUE],
                 [op |-> "pmovetc", addr |-> 0, size |-> 4, enable |-> FALSE],
                 [op |-> "pmovecrp", addr |-> 0, size |-> 8, root |-> [tab |-> "r", dt |-> 2]]},
       !.edits = {Edit(<<"a", 0>>, P(1)), Edit(<<"t", 0>>, WP(P(0))), Edit(<<"t", 0>>, Invalid),
                  Edit(<<"r", 1>>, WP(D(2, "a", 0)))}]

SafetyHosts == {Paging, Spaces, Spaces060, Completing, Interrupted, Windows, Programmable,
                Missing, NoTable} \cup Holes
=============================================================================
