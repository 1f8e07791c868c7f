---------------------------- MODULE CycleBatch ----------------------------
(***************************************************************************)
(* run_for_cycles, run_for_cycles_with_hook and                            *)
(* run_for_cycles_with_boundary_hook: one loop, run_for_cycles_inner,      *)
(* instantiated with the two hook switches.  The loop calls step, which    *)
(* CpuCore models in detail; here an instruction is what the loop sees of  *)
(* it: its cycles, the mask it leaves, STOP, a surfaced trap, and how step *)
(* ended.  The host and its hook set interrupt levels at any boundary, and *)
(* the bus requests a return during any access.                            *)
(***************************************************************************)
EXTENDS Integers

CONSTANTS
    Calls,             \* calls explored: [mode, budget, code]
    Levels,            \* levels the host and the hook may set, 0 included
    EntryCycles,       \* cycles of an interrupt entry (44 or 46 in the code)
    ResetCycles,       \* reset_cycles as the host sets it for the reset before the first call
    HandlersResident   \* the first word of a fault handler can be fetched

Modes == {"plain", "hook", "boundary"}
Instruction == [op : {"plain", "sr", "stop", "trap"}, cost : Nat, mask : 0..7,
                ends : {"normal", "fetch", "fault", "trace"}]

ASSUME CallsAssumption ==
    \A k \in Calls : k.mode \in Modes /\ k.budget \in Int /\ k.code \subseteq Instruction
\* Under the plain runner no instruction both changes the mask and ends in a
\* trace exception: step then returns without an interrupt check
ASSUME PlainCodeAssumption ==
    \A k \in Calls : k.mode = "plain" =>
        \A i \in k.code : i.op \in {"sr", "stop"} => i.ends = "normal"
ASSUME CycleAssumption ==
    EntryCycles \in Nat \ {0} /\ ResetCycles \in Nat /\ Levels \subseteq 0..7
ASSUME ResidentAssumption == HandlersResident \in BOOLEAN

VARIABLES
    c,   \* the CPU fields the loop reads, and the bus's pending request
    b    \* the call: where it is, what it has counted, and ghosts
vars == <<c, b>>

CallInstructionHook == b.call.mode # "plain"
CallInterruptHook == b.call.mode = "boundary"

\* check_and_service_interrupts: level 7 is not maskable
Serviceable(x) == x.int_level = 7 \/ x.int_level > x.mask

\* Mutant: the entry does not end STOP
service_interrupt_StaysStopped(x, r) ==
    [x EXCEPT !.mask = x.int_level, !.int_level = 0, !.request = @ \/ r,
              !.cycles_remaining = @ - EntryCycles]

\* service_interrupt.  r: a bus access of the entry raises a request
service_interrupt(x, r) ==
    [x EXCEPT !.mask = x.int_level, !.int_level = 0, !.stopped = FALSE, !.request = @ \/ r,
              !.cycles_remaining = @ - EntryCycles]

\* What instruction i leaves; a trace exception ends a STOP at once
Executed(x, i, r) ==
    [x EXCEPT !.mask = IF i.op \in {"sr", "stop"} THEN i.mask ELSE @,
              !.stopped = (i.op = "stop" /\ i.ends # "trace"), !.request = @ \/ r]
\* step after the instruction: a fault and a trace exception return before the
\* interrupt check
Epilogue(x, i, r) ==
    IF i.ends = "normal" /\ i.op # "trap" /\ Serviceable(x) THEN service_interrupt(x, r) ELSE x

\* Mutant: the deferred level is not restored
Stepped_Drops(x, i, r) ==
    IF CallInstructionHook THEN Executed([x EXCEPT !.int_level = 0], i, r)
    ELSE Epilogue(Executed(x, i, r), i, r)

\* step, with the pending level hidden from it when a hook is to be called first
Stepped(x, i, r) ==
    IF CallInstructionHook THEN Executed(x, i, r) ELSE Epilogue(Executed(x, i, r), i, r)

----------------------------------------------------------------------------
NoCall == [mode |-> "plain", budget |-> 0, code |-> {}]
Init ==
    /\ c = [int_level |-> 0, mask |-> 7, stopped |-> FALSE, request |-> FALSE,
            reset_cycles |-> ResetCycles, cycles_remaining |-> 0, initial_cycles |-> 0]
    /\ b = [at |-> "idle", call |-> NoCall, control |-> "Continue", cycles |-> 0,
            exit |-> "none", event |-> 0, handler |-> FALSE,
            spent |-> 0, heard |-> 0, owed |-> 0, raised |-> FALSE,
            late |-> FALSE]

\* The result of the call
Exit(x, y, reason) ==
    /\ c' = x
    /\ b' = [y EXCEPT !.at = "idle", !.exit = reason,
                      !.cycles = x.initial_cycles - x.cycles_remaining]

\* The host between two calls: it sets a level, a device asks for a boundary
SetIrq ==
    /\ b.at = "idle"
    /\ \E l \in Levels : c' = [c EXCEPT !.int_level = l] /\ b' = [b EXCEPT !.owed = l]
DeviceRequest ==
    /\ b.at = "idle" /\ ~c.request
    /\ c' = [c EXCEPT !.request = TRUE] /\ UNCHANGED b

\* Mutant: a pending reset is forgotten
Charged_NoReset(x, budget) ==
    [x EXCEPT !.initial_cycles = budget, !.cycles_remaining = budget, !.reset_cycles = 0]

\* The cycles of a reset are charged to the first call with a budget
Charged(x, budget) ==
    [x EXCEPT !.initial_cycles = budget,
              !.cycles_remaining = IF budget <= 0 THEN budget ELSE budget - x.reset_cycles,
              !.reset_cycles = IF budget <= 0 THEN @ ELSE 0]

RunForCycles ==
    /\ b.at = "idle"
    /\ \E k \in Calls :
          /\ c' = Charged(c, k.budget)
          /\ b' = [b EXCEPT !.call = k, !.control = "Continue", !.cycles = 0,
                     !.spent = IF k.budget <= 0 THEN 0 ELSE c.reset_cycles,
                     !.heard = IF k.budget <= 0 THEN 0 ELSE c.reset_cycles,
                     !.raised = FALSE, !.late = FALSE,
                     !.at = IF k.budget <= 0 THEN "idle" ELSE "entry",
                     !.exit = IF k.budget <= 0 THEN "BudgetExhausted" ELSE "none"]

\* service_interrupt_boundary, on entry, after a STOP and after an instruction hook
Service(r) ==
    /\ c' = service_interrupt(c, r)
    /\ b' = [b EXCEPT !.at = IF CallInterruptHook THEN "hook_irq" ELSE "poll_irq",
                      !.control = "Continue", !.event = EntryCycles,
                      !.spent = @ + EntryCycles, !.owed = 0, !.raised = @ \/ r, !.late = FALSE]

\* Mutants: the level the hook set waits; a STOP returns although it unmasked
Boundary_NotAfterHook(r) ==
    IF Serviceable(c) /\ b.at # "irq" THEN Service(r)
    ELSE IF b.at = "stopped" THEN Exit(c, b, "Stopped")
    ELSE UNCHANGED c /\ b' = [b EXCEPT !.at = "top"]
Boundary_StopFirst(r) ==
    IF Serviceable(c) /\ b.at # "stopped" THEN Service(r)
    ELSE IF b.at = "stopped" THEN Exit(c, b, "Stopped")
    ELSE UNCHANGED c /\ b' = [b EXCEPT !.at = "top"]

Boundary(r) ==
    IF Serviceable(c) THEN Service(r)
    ELSE IF b.at = "stopped" THEN Exit(c, b, "Stopped")
    ELSE UNCHANGED c /\ b' = [b EXCEPT !.at = "top"]
InterruptBoundary == b.at \in {"entry", "stopped", "irq"} /\ \E r \in BOOLEAN : Boundary(r)

\* Mutant: the bus is not asked
Polled_Ignores(there) ==
    IF b.control = "Return" THEN Exit(c, b, "BoundaryRequested")
    ELSE UNCHANGED c /\ b' = [b EXCEPT !.at = there]

\* take_boundary_request, then the hook's own answer
Polled(there) ==
    IF c.request \/ b.control = "Return"
    THEN Exit([c EXCEPT !.request = FALSE], [b EXCEPT !.raised = FALSE], "BoundaryRequested")
    ELSE UNCHANGED c /\ b' = [b EXCEPT !.at = there]
PollIrq == b.at = "poll_irq" /\ Polled("top")
PollInstruction ==
    b.at = "poll" /\ Polled(IF CallInstructionHook THEN "irq" ELSE "top")

\* The hook: it may set a level, make the bus request a boundary, or return.
\* late (ghost): an interrupt-entry hook set a level
Hook ==
    /\ b.at \in {"hook", "hook_irq"}
    /\ \E l \in Levels \cup {c.int_level}, r \in BOOLEAN, control \in {"Continue", "Return"} :
          /\ c' = [c EXCEPT !.int_level = l, !.request = @ \/ r]
          /\ b' = [b EXCEPT !.at = IF b.at = "hook" THEN "poll" ELSE "poll_irq",
                            !.control = control, !.owed = l, !.raised = @ \/ r,
                            !.heard = @ + b.event,
                            !.late = b.at = "hook_irq" /\ l # c.int_level]

\* Mutant: a stopped CPU is waited for
Top_Waits ==
    /\ b.at = "top"
    /\ IF c.cycles_remaining <= 0 THEN Exit(c, b, "BudgetExhausted")
       ELSE IF c.stopped THEN UNCHANGED vars
       ELSE UNCHANGED c /\ b' = [b EXCEPT !.at = "step"]

Top ==
    /\ b.at = "top"
    /\ IF c.cycles_remaining <= 0 THEN Exit(c, b, "BudgetExhausted")
       ELSE IF c.stopped THEN Exit(c, b, "Stopped")
       ELSE UNCHANGED c /\ b' = [b EXCEPT !.at = "step"]

\* Where the loop goes after an instruction that step completed
After(x) ==
    IF x.stopped THEN "stopped" ELSE IF CallInstructionHook THEN "hook" ELSE "poll"
Retired(x, i) ==
    LET entered == ~CallInstructionHook /\ x.int_level # c.int_level
    IN  [b EXCEPT !.at = After(x), !.event = i.cost,
                  !.control = "Continue",
                  !.spent = @ + i.cost + (IF entered THEN EntryCycles ELSE 0),
                  !.owed = IF entered THEN 0 ELSE @, !.raised = @ \/ (x.request /\ ~c.request),
                  !.late = FALSE, !.handler = i.ends = "fetch",
                  !.heard = IF x.stopped THEN @ + i.cost ELSE @]
Paid(x, i) == [x EXCEPT !.cycles_remaining = @ - i.cost]
Step ==
    /\ b.at = "step"
    /\ \E i \in b.call.code, r \in BOOLEAN :
          /\ i.ends = "fetch" => ~(HandlersResident /\ b.handler)
          /\ \E x \in {Stepped(c, i, r)} :
             IF i.op = "trap"
             THEN Exit(x, [b EXCEPT !.raised = @ \/ r], "Trap")
             ELSE IF x.stopped /\ ~CallInstructionHook
             THEN Exit(Paid(x, i), Retired(x, i), "Stopped")
             ELSE /\ c' = Paid(x, i)
                  /\ b' = Retired(x, i)

Runner == InterruptBoundary \/ PollIrq \/ PollInstruction \/ Hook \/ Top \/ Step
Next == SetIrq \/ DeviceRequest \/ RunForCycles \/ Runner

Spec == Init /\ [][Next]_vars
\* The loop is straight code and the hook returns
FairSpec == Spec /\ WF_vars(Runner)

----------------------------------------------------------------------------
(* Properties *)
Running == b.at # "idle"
Returned == b.at = "idle" /\ b.exit # "none"

\* TypeOK: the fields keep their types, and only the paths on which the CPU may
\* be stopped are taken with it stopped.
TypeOK ==
    /\ c.int_level \in 0..7 /\ c.mask \in 0..7 /\ c.request \in BOOLEAN
    /\ c.cycles_remaining \in Int /\ b.cycles \in Int
    /\ b.at \in {"idle", "entry", "stopped", "irq", "hook", "hook_irq", "poll", "poll_irq",
                  "top", "step"}
    /\ b.at = "stopped" => c.stopped
    /\ b.at \in {"irq", "hook", "hook_irq", "poll", "poll_irq", "step"} => ~c.stopped

\* IrqPrompt: no instruction is fetched while a serviceable interrupt is
\* pending, whoever set it and whatever unmasked it (execute.rs: "A serviceable
\* interrupt is taken on entry or after an instruction"), except one that an
\* interrupt-entry hook has just set, which waits for one instruction.
IrqPrompt == b.at = "step" /\ Serviceable(c) => b.late

\* IrqKept: the level the host or a hook last set stays pending until its entry,
\* although run_for_cycles_inner hides it from step (deferred_irq).
IrqKept == b.owed = c.int_level

\* RequestHonoured: a boundary request raised in a call is answered before the
\* next fetch, and wins over budget exhaustion (memory.rs, take_boundary_request).
RequestHonoured ==
    c.request /\ b.raised => b.at # "step" /\ ~(Returned /\ b.exit = "BudgetExhausted")

\* Accounted: the cycles a call returns are those of the reset, instructions and
\* interrupt entries it ran; the boundary hook was told of every one of them
\* except STOP (CycleBatchResult, CycleBoundaryEvent).
Accounted ==
    Returned => b.cycles = b.spent /\ (b.call.mode = "boundary" => b.cycles = b.heard)

\* StopIsFinal: a call returns Stopped only when no pending interrupt could end
\* the stop (types.rs: "already stopped with no serviceable interrupt").
StopIsFinal ==
    [][Running /\ b'.at = "idle" /\ b'.exit = "Stopped" => c'.stopped /\ ~Serviceable(c')]_vars

\* CallReturns: every call comes back to the host (run_for_cycles: "until
\* cycle_budget is met or crossed, or until an event requiring host attention").
CallReturns == Running ~> ~Running

=============================================================================
