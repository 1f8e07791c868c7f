----------------------------- MODULE MCCpuCore -----------------------------
(* Small instances of CpuCore for TLC. *)
EXTENDS CpuCore

Prog(a, b, c, d) ==
    [w \in UserCode |-> IF w = 16 THEN a ELSE IF w = 18 THEN b ELSE IF w = 20 THEN c ELSE d]

User == [s |-> FALSE, m |-> FALSE, t1 |-> FALSE, t0 |-> FALSE, i |-> 0]
UserT1 == [User EXCEPT !.t1 = TRUE]
UserT0 == [User EXCEPT !.t0 = TRUE]
Super == [User EXCEPT !.s = TRUE]
Master == [Super EXCEPT !.m = TRUE]

Counting == Prog("rmw", "pinc", "bra", "nop")
Calling == Prog("rmw", "jsr", "ext", "bra")
Trapping == Prog("rmw", "trap", "pinc", "bra")
Lining == Prog("pinc", "aline", "rmw", "bra")
Dividing == Prog("rmw", "div0", "pinc", "bra")
Stopping == Prog("nop", "stop", "ext", "bra")
StoppingUser == Prog("nop", "stopu", "ext", "bra")
OddJump == Prog("nop", "jodd", "nop", "bra")
Halting == Prog("nop", "halt", "nop", "bra")

\* The 68020 takes every path of the 68030 here; the liveness run has both
DirectModels == {"M68030", "M68040", "M68060"}
AllApis == {"step", "hle", "execute"}
Loops == {Counting, Calling, Trapping, Lining, Dividing}

Host(models, programs, srs, faultable, irqs, apis) ==
    [models |-> models, programs |-> programs, srs |-> srs,
     faultable |-> faultable, irqs |-> irqs, apis |-> apis]

\* Demand paging on the models without a queue; the queue models with device
\* faults (none on the 68000, whose group-0 handlers do not return); a debugger
\* that only steps, with unusable stacks and vectors
SafetyScenarios == {
    Host(DirectModels, Loops \ {Lining}, {User, UserT1, Master}, {"data", "code2", "user"},
         {2, 5}, AllApis),
    Host({"M68010"}, Loops, {User, UserT1}, {"data"}, {2, 5}, AllApis),
    Host({"M68000"}, Loops, {User, UserT1}, {}, {2, 5}, AllApis),
    Host(DirectModels, Loops \cup {OddJump}, {User}, {"isp", "vec", "data"}, {}, {"step"}),
    Host({"M68060"}, {Halting}, {Super}, {}, {}, {"step"}),
    Host({"M68010"}, Loops, {User}, {"vec", "data"}, {}, {"step"}) }

\* Traced guests; STOP with S set and S clear
LivenessScenarios == {
    Host(Models, {Counting, Calling, Trapping, Dividing}, {UserT1, UserT0, Super}, {}, {},
         {"hle", "execute"}),
    Host(Models, {Stopping, StoppingUser}, {Super, Master}, {}, {2, 5}, {"step", "execute"}) }
=============================================================================
