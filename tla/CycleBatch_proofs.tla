------------------------- MODULE CycleBatch_proofs -------------------------
(***************************************************************************)
(* For every set of calls, levels and cycle counts: no fetch passes over a *)
(* serviceable interrupt or a boundary request of the call, a deferred     *)
(* level is never lost, a Stopped result hides no interrupt, and the       *)
(* cycles of the result are those that ran.                                *)
(***************************************************************************)
EXTENDS CycleBatch, TLAPS

Cpu == [int_level : 0..7, mask : 0..7, stopped : BOOLEAN, request : BOOLEAN,
        reset_cycles : Nat, cycles_remaining : Int, initial_cycles : Int]
Places == {"idle", "entry", "stopped", "irq", "hook", "hook_irq", "poll", "poll_irq", "top", "step"}
Exits == {"none", "BudgetExhausted", "BoundaryRequested", "Stopped", "Trap"}
Call == [at : Places, call : Calls \cup {NoCall}, control : {"Continue", "Return"}, cycles : Int,
         exit : Exits, event : Int, handler : BOOLEAN, spent : Int, heard : Int, owed : 0..7,
         raised : BOOLEAN, late : BOOLEAN]

Types == c \in Cpu /\ b \in Call

\* Where the CPU may be stopped, and where only a hooked runner goes
Paths ==
    /\ b.at = "stopped" => c.stopped
    /\ b.at \in {"irq", "hook", "hook_irq", "poll", "poll_irq", "step"} => ~c.stopped
    /\ b.at \in {"stopped", "irq", "hook"} => b.call.mode # "plain"
    /\ b.at = "hook_irq" => b.call.mode = "boundary"
    /\ Running => b.call \in Calls

\* The pending level at each place of the loop
Pending ==
    /\ b.owed = c.int_level
    /\ b.at = "hook_irq" => c.int_level = 0
    /\ b.late => b.at \in {"idle", "poll_irq", "top", "step"} /\ (Running => ~c.stopped)
    /\ b.late => b.call.mode = "boundary"
    /\ b.at \in {"poll_irq", "top", "step"} => b.late \/ ~Serviceable(c)
    /\ b.at = "poll" /\ b.call.mode = "plain" => ~Serviceable(c)

\* What was spent is what was taken from the budget, and what the boundary hook
\* has heard is what was spent before the event it is about to hear
Book ==
    /\ Running => b.spent = c.initial_cycles - c.cycles_remaining
    /\ Returned => b.cycles = b.spent
    /\ b.call.mode = "boundary" =>
         b.spent = b.heard + (IF b.at \in {"hook", "hook_irq"} THEN b.event ELSE 0)

Inv == Types /\ Paths /\ Pending /\ Book

----------------------------------------------------------------------------
LEMMA InitInv == Init => Inv
<1> SUFFICES ASSUME Init PROVE Inv
  OBVIOUS
<1> USE CycleAssumption DEF Init
<1>1. Types
  <2>1. c \in Cpu
    BY DEF Cpu
  <2>2. NoCall \in Calls \cup {NoCall}
    OBVIOUS
  <2>3. b \in Call
    BY <2>2 DEF Call, Places, Exits
  <2> QED BY <2>1, <2>3 DEF Types
<1>2. Paths
  BY DEF Paths, Running, NoCall
<1>3. Pending
  BY DEF Pending, Running, NoCall
<1>4. Book
  BY DEF Book, Running, Returned, NoCall
<1> QED BY <1>1, <1>2, <1>3, <1>4 DEF Inv

\* An interrupt entry: the level is consumed and becomes the mask.
LEMMA ServiceFields ==
    ASSUME NEW x \in Cpu, NEW r \in BOOLEAN
    PROVE  /\ service_interrupt(x, r) \in Cpu
           /\ service_interrupt(x, r).int_level = 0
           /\ ~service_interrupt(x, r).stopped
           /\ ~Serviceable(service_interrupt(x, r))
           /\ service_interrupt(x, r).initial_cycles = x.initial_cycles
           /\ service_interrupt(x, r).cycles_remaining = x.cycles_remaining - EntryCycles
<1> DEFINE y == service_interrupt(x, r)
<1>1. (x.request \/ r) \in BOOLEAN
  BY DEF Cpu
<1>2. x.cycles_remaining - EntryCycles \in Int
  BY CycleAssumption DEF Cpu
<1>3. y \in Cpu
  <2> DEFINE q == x.request \/ r
             n == x.cycles_remaining - EntryCycles
             l == x.int_level
             z == [int_level |-> 0, mask |-> l, stopped |-> FALSE, request |-> q,
                   reset_cycles |-> x.reset_cycles, cycles_remaining |-> n,
                   initial_cycles |-> x.initial_cycles]
  <2>1. y = [x EXCEPT !.mask = l, !.int_level = 0, !.stopped = FALSE, !.request = q,
                      !.cycles_remaining = n]
    BY DEF service_interrupt, Cpu
  <2>2. q \in BOOLEAN /\ n \in Int /\ l \in 0..7
    BY <1>1, <1>2 DEF Cpu
  <2> HIDE DEF q, n, l, y
  <2>3. z \in Cpu
    BY <2>2 DEF Cpu
  <2>4. y = z
    BY <2>1 DEF Cpu
  <2> QED BY <2>3, <2>4
<1>4. /\ y.int_level = 0 /\ ~y.stopped /\ y.mask = x.int_level
      /\ y.initial_cycles = x.initial_cycles
      /\ y.cycles_remaining = x.cycles_remaining - EntryCycles
  BY DEF service_interrupt, Cpu
<1>5. x.int_level \in 0..7
  BY DEF Cpu
<1>6. ~Serviceable(y)
  BY <1>4, <1>5 DEF Serviceable
<1> QED BY <1>3, <1>4, <1>6

\* What step leaves: the level is kept, or consumed by an entry in the plain
\* runner, which leaves nothing serviceable behind.
LEMMA SteppedFields ==
    ASSUME Inv, b.at = "step", NEW i \in b.call.code, NEW r \in BOOLEAN,
           NEW x, x = Stepped(c, i, r)
    PROVE  /\ x \in Cpu /\ x.initial_cycles = c.initial_cycles
           /\ i.cost \in Nat
           /\ \/ /\ x.int_level = c.int_level /\ x.cycles_remaining = c.cycles_remaining
              \/ /\ b.call.mode = "plain" /\ x.int_level = 0 /\ c.int_level # 0
                 /\ i.op # "trap" /\ x.cycles_remaining = c.cycles_remaining - EntryCycles
           /\ b.call.mode = "plain" /\ i.op # "trap" => ~Serviceable(x)
<1> DEFINE y == Executed(c, i, r)
<1>1. /\ c \in Cpu /\ b.call \in Calls
      /\ b.call.mode = "plain" => ~Serviceable(c)
  BY DEF Inv, Types, Paths, Pending, Running
<1>2. /\ i \in Instruction
      /\ b.call.mode = "plain" /\ i.op \in {"sr", "stop"} => i.ends = "normal"
  BY <1>1, CallsAssumption, PlainCodeAssumption
<1>3. i.cost \in Nat /\ i.mask \in 0..7
  BY <1>2 DEF Instruction
<1>4. /\ y \in Cpu /\ y.initial_cycles = c.initial_cycles
      /\ y.int_level = c.int_level /\ y.cycles_remaining = c.cycles_remaining
      /\ i.op \notin {"sr", "stop"} => y.mask = c.mask
  <2> DEFINE m == IF i.op \in {"sr", "stop"} THEN i.mask ELSE c.mask
             s == i.op = "stop" /\ i.ends # "trace"
             q == c.request \/ r
  <2>1. y = [c EXCEPT !.mask = m, !.stopped = s, !.request = q]
    BY <1>1 DEF Executed, Cpu
  <2>2. m \in 0..7 /\ s \in BOOLEAN /\ q \in BOOLEAN
    BY <1>1, <1>3 DEF Cpu
  <2>3. i.op \notin {"sr", "stop"} => m = c.mask
    OBVIOUS
  <2> HIDE DEF y, m, s, q
  <2> QED BY <1>1, <2>1, <2>2, <2>3 DEF Cpu
<1>5. CASE b.call.mode # "plain"
  BY <1>3, <1>4, <1>5 DEF Stepped, CallInstructionHook
<1>6. CASE b.call.mode = "plain"
  <2>1. x = Epilogue(y, i, r)
    BY <1>6 DEF Stepped, CallInstructionHook
  <2> HIDE DEF y
  <2>2. CASE i.ends = "normal" /\ i.op # "trap" /\ Serviceable(y)
    <3>1. x = service_interrupt(y, r)
      BY <2>1, <2>2 DEF Epilogue
    <3>2. c.int_level # 0
      BY <1>1, <1>4, <2>2 DEF Serviceable, Cpu
    <3>3. /\ x \in Cpu /\ x.int_level = 0 /\ ~Serviceable(x)
          /\ x.initial_cycles = y.initial_cycles
          /\ x.cycles_remaining = y.cycles_remaining - EntryCycles
      BY <1>4, <3>1, ServiceFields
    <3> QED BY <1>3, <1>4, <1>6, <2>2, <3>2, <3>3
  <2>3. CASE ~(i.ends = "normal" /\ i.op # "trap" /\ Serviceable(y))
    <3>1. x = y
      BY <2>1, <2>3 DEF Epilogue
    <3>2. i.op # "trap" => ~Serviceable(y)
      BY <1>1, <1>2, <1>4, <1>6, <2>3 DEF Serviceable
    <3> QED BY <1>3, <1>4, <3>1, <3>2
  <2> QED BY <2>2, <2>3
<1> QED BY <1>5, <1>6

----------------------------------------------------------------------------
\* A Stopped result hides no interrupt: the step form of StopIsFinal
FinalStop == Running /\ b'.at = "idle" /\ b'.exit = "Stopped" => c'.stopped /\ ~Serviceable(c')

\* A return, from whatever place: the books must balance, the level be kept.
LEMMA ExitInv ==
    ASSUME NEW x \in Cpu, NEW y \in Call, NEW reason \in Exits, Exit(x, y, reason),
           y.owed = x.int_level, y.spent = x.initial_cycles - x.cycles_remaining,
           y.late => y.call.mode = "boundary",
           y.call.mode = "boundary" => y.spent = y.heard
    PROVE  Inv' /\ c' = x /\ b'.exit = reason
<1> DEFINE n == x.initial_cycles - x.cycles_remaining
<1>1. c' = x /\ b' = [y EXCEPT !.at = "idle", !.exit = reason, !.cycles = n]
  BY DEF Exit
<1>2. n \in Int /\ y.spent = n
  BY DEF Cpu
<1> HIDE DEF n
<1>3. b' \in Call
  BY <1>1, <1>2 DEF Call, Places
<1>4. /\ b'.at = "idle" /\ b'.exit = reason /\ b'.cycles = n /\ b'.spent = y.spent
      /\ b'.owed = y.owed /\ b'.heard = y.heard /\ b'.late = y.late /\ b'.call = y.call
  BY <1>1 DEF Call
<1>5. Types'
  BY <1>1, <1>3 DEF Types
<1>6. Paths'
  BY <1>4 DEF Paths, Running
<1>7. Pending'
  BY <1>1, <1>4 DEF Pending, Running
<1>8. Book'
  <2>1. y.heard \in Int
    BY DEF Call
  <2> QED BY <1>2, <1>4, <2>1 DEF Book, Running, Returned
<1> QED BY <1>1, <1>4, <1>5, <1>6, <1>7, <1>8 DEF Inv

\* What the invariant says of a call in progress, in one place.
LEMMA RunningFacts ==
    ASSUME Inv, Running
    PROVE  /\ c \in Cpu /\ b \in Call /\ b.call \in Calls /\ b.owed = c.int_level
           /\ b.spent = c.initial_cycles - c.cycles_remaining
           /\ b.late => b.call.mode = "boundary"
  BY DEF Inv, Types, Paths, Pending, Book

LEMMA SetIrqInv == ASSUME Inv, SetIrq PROVE Inv' /\ FinalStop
<1> PICK l \in Levels : c' = [c EXCEPT !.int_level = l] /\ b' = [b EXCEPT !.owed = l]
  BY DEF SetIrq
<1>1. l \in 0..7 /\ b.at = "idle" /\ c \in Cpu /\ b \in Call
  BY CycleAssumption DEF SetIrq, Inv, Types
<1>2. Types'
  BY <1>1 DEF Types, Cpu, Call
<1>3. /\ c'.int_level = l /\ b'.owed = l /\ b'.at = "idle" /\ b'.late = b.late
      /\ b'.call = b.call /\ b'.spent = b.spent /\ b'.heard = b.heard /\ b'.exit = b.exit
      /\ b'.cycles = b.cycles
  BY <1>1 DEF Cpu, Call
<1>4. Paths' /\ Pending'
  BY <1>3 DEF Inv, Paths, Pending, Running
<1>5. Book'
  BY <1>1, <1>3 DEF Inv, Book, Running, Returned
<1> QED BY <1>1, <1>2, <1>4, <1>5 DEF Inv, FinalStop, Running

LEMMA DeviceRequestInv == ASSUME Inv, DeviceRequest PROVE Inv' /\ FinalStop
<1>1. /\ b.at = "idle" /\ c \in Cpu /\ b \in Call /\ b' = b
      /\ c' = [c EXCEPT !.request = TRUE]
  BY DEF DeviceRequest, Inv, Types
<1>2. Types' /\ c'.int_level = c.int_level
  BY <1>1 DEF Types, Cpu
<1>3. Paths' /\ Pending' /\ Book'
  BY <1>1, <1>2 DEF Inv, Paths, Pending, Book, Running, Returned
<1> QED BY <1>1, <1>2, <1>3 DEF Inv, FinalStop, Running

LEMMA RunForCyclesInv == ASSUME Inv, RunForCycles PROVE Inv' /\ FinalStop
<1> PICK k \in Calls :
      /\ c' = Charged(c, k.budget)
      /\ b' = [b EXCEPT !.call = k, !.control = "Continue", !.cycles = 0,
                 !.spent = IF k.budget <= 0 THEN 0 ELSE c.reset_cycles,
                 !.heard = IF k.budget <= 0 THEN 0 ELSE c.reset_cycles,
                 !.raised = FALSE, !.late = FALSE,
                 !.at = IF k.budget <= 0 THEN "idle" ELSE "entry",
                 !.exit = IF k.budget <= 0 THEN "BudgetExhausted" ELSE "none"]
  BY DEF RunForCycles
<1> DEFINE n == k.budget
           s == IF n <= 0 THEN 0 ELSE c.reset_cycles
           p == IF n <= 0 THEN "idle" ELSE "entry"
           e == IF n <= 0 THEN "BudgetExhausted" ELSE "none"
           m == IF n <= 0 THEN n ELSE n - c.reset_cycles
           z == IF n <= 0 THEN c.reset_cycles ELSE 0
<1>1. /\ b.at = "idle" /\ c \in Cpu /\ b \in Call /\ b.owed = c.int_level
      /\ n \in Int /\ c.reset_cycles \in Nat /\ k \in Calls \cup {NoCall}
  BY CallsAssumption DEF RunForCycles, Inv, Types, Cpu, Pending
<1>2. c' = [c EXCEPT !.initial_cycles = n, !.cycles_remaining = m, !.reset_cycles = z]
  BY <1>1 DEF Charged, Cpu
<1>3. b' = [b EXCEPT !.call = k, !.control = "Continue", !.cycles = 0, !.spent = s, !.heard = s,
                     !.raised = FALSE, !.late = FALSE, !.at = p, !.exit = e]
  BY <1>1 DEF Call
<1>4. /\ m \in Int /\ z \in Nat /\ s \in Int /\ p \in {"idle", "entry"}
      /\ e \in {"BudgetExhausted", "none"}
      /\ p = "entry" => s = n - m
      /\ p = "idle" => s = 0
  BY <1>1
<1> HIDE DEF n, s, p, e, m, z
<1>5. c' \in Cpu /\ c'.int_level = c.int_level /\ c'.initial_cycles = n /\ c'.cycles_remaining = m
  BY <1>1, <1>2, <1>4 DEF Cpu
<1>6. b' \in Call
  <2> DEFINE y == [at |-> p, call |-> k, control |-> "Continue", cycles |-> 0, exit |-> e,
                   event |-> b.event, handler |-> b.handler, spent |-> s, heard |-> s,
                   owed |-> b.owed, raised |-> FALSE, late |-> FALSE]
  <2>1. b' = y
    BY <1>1, <1>3 DEF Call
  <2>2. y \in Call
    BY <1>1, <1>4 DEF Call, Places, Exits
  <2> QED BY <2>1, <2>2
<1>7. /\ b'.at = p /\ b'.call = k /\ b'.owed = b.owed /\ ~b'.late /\ b'.exit = e
      /\ b'.cycles = 0 /\ b'.spent = s /\ b'.heard = s
  BY <1>1, <1>3 DEF Call
<1>8. Types' /\ Paths' /\ Pending'
  BY <1>1, <1>4, <1>5, <1>6, <1>7 DEF Types, Paths, Pending, Running
<1>9. Book'
  BY <1>4, <1>5, <1>7 DEF Book, Running, Returned
<1> QED BY <1>1, <1>8, <1>9 DEF Inv, FinalStop, Running

LEMMA ServiceInv ==
    ASSUME Inv, b.at \in {"entry", "stopped", "irq"}, NEW r \in BOOLEAN, Service(r)
    PROVE  Inv' /\ FinalStop
<1> DEFINE p == IF CallInterruptHook THEN "hook_irq" ELSE "poll_irq"
           s == b.spent + EntryCycles
           q == b.raised \/ r
<1>1. /\ c \in Cpu /\ b \in Call /\ b.call \in Calls /\ b.owed = c.int_level
      /\ b.spent = c.initial_cycles - c.cycles_remaining
      /\ b.call.mode = "boundary" => b.spent = b.heard
  <2>1. Running
    BY DEF Running
  <2>2. b.call.mode = "boundary" => b.spent = b.heard
    <3>1. b \in Call
      BY DEF Inv, Types
    <3> QED BY <3>1 DEF Inv, Book, Call
  <2> QED BY <2>1, <2>2, RunningFacts
<1>2. c' = service_interrupt(c, r)
  BY DEF Service
<1>3. /\ c' \in Cpu /\ c'.int_level = 0 /\ ~c'.stopped /\ ~Serviceable(c)'
      /\ c'.initial_cycles = c.initial_cycles
      /\ c'.cycles_remaining = c.cycles_remaining - EntryCycles
  BY <1>1, <1>2, ServiceFields DEF Serviceable
<1>4. b' = [b EXCEPT !.at = p, !.control = "Continue", !.event = EntryCycles, !.spent = s,
                     !.owed = 0, !.raised = q, !.late = FALSE]
  BY <1>1 DEF Service, Call
<1>5. /\ p = IF b.call.mode = "boundary" THEN "hook_irq" ELSE "poll_irq"
      /\ s \in Int /\ q \in BOOLEAN /\ EntryCycles \in Int /\ s = b.spent + EntryCycles
  BY <1>1, CycleAssumption DEF Call, CallInterruptHook
<1> HIDE DEF p, s, q
<1>6. b' \in Call
  <2> DEFINE y == [at |-> p, call |-> b.call, control |-> "Continue", cycles |-> b.cycles,
                   exit |-> b.exit, event |-> EntryCycles, handler |-> b.handler, spent |-> s,
                   heard |-> b.heard, owed |-> 0, raised |-> q, late |-> FALSE]
  <2>1. b' = y
    BY <1>1, <1>4 DEF Call
  <2>2. y \in Call
    BY <1>1, <1>5 DEF Call, Places
  <2> QED BY <2>1, <2>2
<1>7. /\ b'.at = p /\ b'.call = b.call /\ b'.owed = 0 /\ ~b'.late
      /\ b'.spent = s /\ b'.heard = b.heard /\ b'.event = EntryCycles
  BY <1>1, <1>4 DEF Call
<1>8. Types' /\ Paths' /\ Pending'
  BY <1>1, <1>3, <1>5, <1>6, <1>7 DEF Types, Paths, Pending, Running
<1>9. Book'
  <2>1. b.heard \in Int /\ c.initial_cycles \in Int /\ c.cycles_remaining \in Int
    BY <1>1 DEF Call, Cpu
  <2> QED BY <1>1, <1>3, <1>5, <1>7, <2>1 DEF Book, Running, Returned
<1> QED BY <1>5, <1>7, <1>8, <1>9 DEF Inv, FinalStop

\* A step of the loop that only moves to another place.
LEMMA MoveInv ==
    ASSUME Inv, NEW there \in {"top", "irq", "step"}, b' = [b EXCEPT !.at = there], c' = c,
           Running, b.at \notin {"hook", "hook_irq"},
           there \in {"top", "step"} => b.late \/ ~Serviceable(c),
           there \in {"step", "irq"} => ~c.stopped,
           there = "irq" => b.call.mode # "plain" /\ ~b.late
    PROVE  Inv' /\ FinalStop
<1>1. /\ c \in Cpu /\ b \in Call /\ b.call \in Calls
      /\ b.call.mode = "boundary" => b.spent = b.heard
  <2>1. b.call.mode = "boundary" => b.spent = b.heard
    <3>1. b \in Call
      BY DEF Inv, Types
    <3> QED BY <3>1 DEF Inv, Book, Call
  <2> QED BY <2>1, RunningFacts
<1>2. b' \in Call
  BY <1>1 DEF Call, Places
<1>3. /\ b'.at = there /\ b'.call = b.call /\ b'.owed = b.owed /\ b'.late = b.late
      /\ b'.spent = b.spent /\ b'.heard = b.heard
  BY <1>1 DEF Call
<1>4. Types' /\ Paths'
  BY <1>1, <1>2, <1>3 DEF Types, Paths, Running
<1>5. Pending'
  BY <1>1, <1>3 DEF Inv, Pending, Running, Serviceable
<1>6. Book'
  <2>1. b.heard \in Int
    BY <1>1 DEF Call
  <2> QED BY <1>1, <1>3, <2>1, RunningFacts DEF Book, Running, Returned
<1> QED BY <1>3, <1>4, <1>5, <1>6 DEF Inv, FinalStop

LEMMA InterruptBoundaryInv == ASSUME Inv, InterruptBoundary PROVE Inv' /\ FinalStop
<1> PICK r \in BOOLEAN : Boundary(r)
  BY DEF InterruptBoundary
<1>1. b.at \in {"entry", "stopped", "irq"} /\ Running
  BY DEF InterruptBoundary, Running
<1>2. ~b.late
  BY <1>1 DEF Inv, Pending, Types, Call
<1>3. CASE Serviceable(c)
  <2>1. Service(r)
    BY <1>3 DEF Boundary
  <2> QED BY <1>1, <2>1, ServiceInv
<1>4. CASE ~Serviceable(c) /\ b.at = "stopped"
  <2>1. Exit(c, b, "Stopped")
    BY <1>4 DEF Boundary
  <2>2. c.stopped /\ (b.call.mode = "boundary" => b.spent = b.heard)
    <3>1. b \in Call
      BY DEF Inv, Types
    <3> QED BY <1>4, <3>1 DEF Inv, Paths, Book, Call
  <2>3. Inv' /\ c' = c
    BY <1>1, <2>1, <2>2, RunningFacts, ExitInv DEF Exits
  <2> QED BY <1>4, <2>2, <2>3 DEF FinalStop, Serviceable
<1>5. CASE ~Serviceable(c) /\ b.at # "stopped"
  <2>1. c' = c /\ b' = [b EXCEPT !.at = "top"]
    BY <1>5 DEF Boundary
  <2> QED BY <1>1, <1>5, <2>1, MoveInv
<1> QED BY <1>3, <1>4, <1>5

\* At a place that is not a hook's, the boundary hook has heard everything.
LEMMA AllHeard ==
    ASSUME Inv, b.at \notin {"hook", "hook_irq"}
    PROVE  b.call.mode = "boundary" => b.spent = b.heard
<1>1. b \in Call
  BY DEF Inv, Types
<1> QED BY <1>1 DEF Inv, Book, Call

LEMMA PolledInv ==
    ASSUME Inv, NEW there \in {"top", "irq"}, Polled(there), b.at \in {"poll", "poll_irq"},
           there = "irq" => b.at = "poll" /\ b.call.mode # "plain",
           there = "top" => b.at = "poll_irq" \/ b.call.mode = "plain"
    PROVE  Inv' /\ FinalStop
<1>1. Running
  BY DEF Running
<1>2. /\ c \in Cpu /\ b \in Call /\ b.owed = c.int_level
      /\ b.spent = c.initial_cycles - c.cycles_remaining
      /\ b.late => b.call.mode = "boundary"
      /\ b.call.mode = "boundary" => b.spent = b.heard
  BY <1>1, RunningFacts, AllHeard
<1>3. CASE c.request \/ b.control = "Return"
  <2> DEFINE x == [c EXCEPT !.request = FALSE]
             y == [b EXCEPT !.raised = FALSE]
  <2>1. Exit(x, y, "BoundaryRequested")
    BY <1>3 DEF Polled
  <2>2. /\ x \in Cpu /\ x.int_level = c.int_level /\ x.initial_cycles = c.initial_cycles
        /\ x.cycles_remaining = c.cycles_remaining
    BY <1>2 DEF Cpu
  <2>3. /\ y \in Call /\ y.owed = b.owed /\ y.spent = b.spent /\ y.late = b.late
        /\ y.heard = b.heard /\ y.call = b.call
    BY <1>2 DEF Call
  <2> HIDE DEF x, y
  <2>4. Inv' /\ b'.exit = "BoundaryRequested"
    BY <1>2, <2>1, <2>2, <2>3, ExitInv DEF Exits
  <2> QED BY <2>4 DEF FinalStop
<1>4. CASE ~(c.request \/ b.control = "Return")
  <2>1. c' = c /\ b' = [b EXCEPT !.at = there]
    BY <1>4 DEF Polled
  <2>2. ~c.stopped /\ (there = "top" => b.late \/ ~Serviceable(c))
    BY DEF Inv, Paths, Pending
  <2>3. there = "irq" => ~b.late
    BY DEF Inv, Pending
  <2> QED BY <1>1, <2>1, <2>2, <2>3, MoveInv
<1> QED BY <1>3, <1>4

LEMMA PollInv == ASSUME Inv, PollIrq \/ PollInstruction PROVE Inv' /\ FinalStop
<1>1. CASE PollIrq
  BY <1>1, PolledInv DEF PollIrq
<1>2. CASE PollInstruction
  <2> DEFINE there == IF CallInstructionHook THEN "irq" ELSE "top"
  <2>1. /\ b.at = "poll" /\ Polled(there) /\ there \in {"top", "irq"}
        /\ there = "irq" => b.call.mode # "plain"
        /\ there = "top" => b.call.mode = "plain"
    BY <1>2 DEF PollInstruction, CallInstructionHook
  <2> HIDE DEF there
  <2> QED BY <2>1, PolledInv
<1> QED BY <1>1, <1>2

LEMMA HookInv == ASSUME Inv, Hook PROVE Inv' /\ FinalStop
<1> PICK l \in Levels \cup {c.int_level}, r \in BOOLEAN, control \in {"Continue", "Return"} :
      /\ c' = [c EXCEPT !.int_level = l, !.request = @ \/ r]
      /\ b' = [b EXCEPT !.at = IF b.at = "hook" THEN "poll" ELSE "poll_irq",
                        !.control = control, !.owed = l, !.raised = @ \/ r,
                        !.heard = @ + b.event,
                        !.late = b.at = "hook_irq" /\ l # c.int_level]
  BY DEF Hook
<1> DEFINE p == IF b.at = "hook" THEN "poll" ELSE "poll_irq"
           q == b.raised \/ r
           w == c.request \/ r
           h == b.heard + b.event
           f == b.at = "hook_irq" /\ l # c.int_level
<1>1. Running /\ b.at \in {"hook", "hook_irq"}
  BY DEF Hook, Running
<1>2. /\ c \in Cpu /\ b \in Call /\ b.call \in Calls /\ b.owed = c.int_level
      /\ b.spent = c.initial_cycles - c.cycles_remaining
  BY <1>1, RunningFacts
<1>3. c.int_level \in 0..7 /\ b.heard \in Int /\ b.event \in Int
  BY <1>2 DEF Cpu, Call
<1>4. /\ l \in 0..7 /\ q \in BOOLEAN /\ w \in BOOLEAN /\ h \in Int /\ f \in BOOLEAN
      /\ p \in {"poll", "poll_irq"} /\ h = b.heard + b.event
      /\ p = "poll" => b.at = "hook" /\ ~f
      /\ p = "poll_irq" => b.at = "hook_irq" /\ (f <=> l # c.int_level)
  BY <1>1, <1>2, <1>3, CycleAssumption DEF Cpu, Call
<1>5. c' = [c EXCEPT !.int_level = l, !.request = w]
  BY <1>2 DEF Cpu
<1>6. b' = [b EXCEPT !.at = p, !.control = control, !.owed = l, !.raised = q, !.heard = h,
                     !.late = f]
  BY <1>2 DEF Call
<1>7. /\ ~c.stopped /\ b.call.mode # "plain"
      /\ b.at = "hook_irq" => b.call.mode = "boundary" /\ c.int_level = 0
      /\ b.call.mode = "boundary" => b.spent = b.heard + b.event
  <2>1. /\ ~c.stopped /\ b.call.mode # "plain"
        /\ b.at = "hook_irq" => b.call.mode = "boundary" /\ c.int_level = 0
    BY <1>1 DEF Inv, Paths, Pending
  <2> QED BY <1>1, <2>1 DEF Inv, Book
<1> HIDE DEF p, q, w, h, f
<1>8. /\ c' \in Cpu /\ c'.int_level = l /\ c'.mask = c.mask /\ c'.stopped = c.stopped
      /\ c'.initial_cycles = c.initial_cycles /\ c'.cycles_remaining = c.cycles_remaining
  BY <1>2, <1>4, <1>5 DEF Cpu
<1>9. b' \in Call
  <2> DEFINE y == [at |-> p, call |-> b.call, control |-> control, cycles |-> b.cycles,
                   exit |-> b.exit, event |-> b.event, handler |-> b.handler,
                   spent |-> b.spent, heard |-> h, owed |-> l, raised |-> q, late |-> f]
  <2>1. b' = y
    BY <1>2, <1>6 DEF Call
  <2>2. y \in Call
    BY <1>2, <1>4 DEF Call, Places
  <2> QED BY <2>1, <2>2
<1>10. /\ b'.at = p /\ b'.call = b.call /\ b'.owed = l /\ b'.late = f
       /\ b'.spent = b.spent /\ b'.heard = h
  BY <1>2, <1>6 DEF Call
<1>11. Types' /\ Paths'
  BY <1>2, <1>4, <1>7, <1>8, <1>9, <1>10 DEF Types, Paths, Running
<1>12. p = "poll_irq" => f \/ ~Serviceable(c)'
  <2>1. CASE p = "poll_irq" /\ l = c.int_level
    <3>1. c'.int_level = 0 /\ c'.mask \in 0..7
      BY <1>2, <1>4, <1>7, <1>8, <2>1 DEF Cpu
    <3> QED BY <3>1 DEF Serviceable
  <2> QED BY <1>4, <2>1
<1>13. Pending'
  BY <1>4, <1>7, <1>8, <1>10, <1>12 DEF Pending, Running
<1>14. Book'
  BY <1>2, <1>3, <1>4, <1>7, <1>8, <1>10 DEF Book, Running, Returned
<1> QED BY <1>4, <1>10, <1>11, <1>13, <1>14 DEF Inv, FinalStop

LEMMA TopInv == ASSUME Inv, Top PROVE Inv' /\ FinalStop
<1>1. b.at = "top" /\ Running
  BY DEF Top, Running
<1>2. /\ c \in Cpu /\ b \in Call /\ b.owed = c.int_level
      /\ b.spent = c.initial_cycles - c.cycles_remaining
      /\ b.late => b.call.mode = "boundary"
      /\ b.call.mode = "boundary" => b.spent = b.heard
  BY <1>1, RunningFacts, AllHeard
<1>3. (b.late \/ ~Serviceable(c)) /\ (b.late => ~c.stopped)
  BY <1>1 DEF Inv, Pending
<1>4. CASE c.cycles_remaining <= 0
  <2>1. Exit(c, b, "BudgetExhausted")
    BY <1>4 DEF Top
  <2>2. Inv' /\ b'.exit = "BudgetExhausted"
    BY <1>2, <2>1, ExitInv DEF Exits
  <2> QED BY <2>2 DEF FinalStop
<1>5. CASE ~(c.cycles_remaining <= 0) /\ c.stopped
  <2>1. Exit(c, b, "Stopped")
    BY <1>5 DEF Top
  <2>2. Inv' /\ c' = c
    BY <1>2, <2>1, ExitInv DEF Exits
  <2> QED BY <1>3, <1>5, <2>2 DEF FinalStop, Serviceable
<1>6. CASE ~(c.cycles_remaining <= 0) /\ ~c.stopped
  <2>1. c' = c /\ b' = [b EXCEPT !.at = "step"]
    BY <1>6 DEF Top
  <2> QED BY <1>1, <1>3, <1>6, <2>1, MoveInv
<1> QED BY <1>4, <1>5, <1>6

\* An instruction that retired: its cycles and those of an entry are on the
\* books, and the level still owed is the level still pending.
LEMMA RetiredFields ==
    ASSUME Inv, b.at = "step", NEW i \in b.call.code, NEW r \in BOOLEAN,
           NEW x, x = Stepped(c, i, r),
           NEW v, v = Paid(x, i), NEW y, y = Retired(x, i)
    PROVE  /\ v \in Cpu /\ v.int_level = x.int_level /\ v.mask = x.mask /\ v.stopped = x.stopped
           /\ y \in Call /\ y.at = After(x) /\ y.call = b.call /\ y.owed = v.int_level /\ ~y.late
           /\ y.spent = v.initial_cycles - v.cycles_remaining
           /\ y.event = i.cost
           /\ b.call.mode = "boundary" =>
                y.spent = y.heard + (IF x.stopped THEN 0 ELSE y.event)
<1> DEFINE entered == ~CallInstructionHook /\ x.int_level # c.int_level
           k == b.spent + i.cost + (IF entered THEN EntryCycles ELSE 0)
           o == IF entered THEN 0 ELSE b.owed
           q == b.raised \/ (x.request /\ ~c.request)
           g == i.ends = "fetch"
           h == IF x.stopped THEN b.heard + i.cost ELSE b.heard
           p == After(x)
           m == x.cycles_remaining - i.cost
           e == i.cost
<1>1. /\ c \in Cpu /\ b \in Call /\ b.call \in Calls /\ b.owed = c.int_level
      /\ b.spent = c.initial_cycles - c.cycles_remaining
      /\ b.call.mode = "boundary" => b.spent = b.heard
  BY RunningFacts, AllHeard DEF Running
<1>2. /\ x \in Cpu /\ x.initial_cycles = c.initial_cycles /\ i.cost \in Nat
      /\ \/ /\ x.int_level = c.int_level /\ x.cycles_remaining = c.cycles_remaining
         \/ /\ b.call.mode = "plain" /\ x.int_level = 0 /\ c.int_level # 0
            /\ x.cycles_remaining = c.cycles_remaining - EntryCycles
  BY SteppedFields
<1>3. /\ b.spent \in Int /\ b.heard \in Int /\ EntryCycles \in Int /\ b.owed \in 0..7
      /\ x.cycles_remaining \in Int /\ x.initial_cycles \in Int /\ c.cycles_remaining \in Int
      /\ x.int_level \in 0..7 /\ c.int_level \in 0..7
  BY <1>1, <1>2, CycleAssumption DEF Call, Cpu
<1>4. entered <=> b.call.mode = "plain" /\ x.int_level # c.int_level
  BY DEF CallInstructionHook
<1>5. /\ o = x.int_level /\ k = x.initial_cycles - m
      /\ b.call.mode = "boundary" => k = b.heard + i.cost
  <2>1. CASE entered
    BY <1>1, <1>2, <1>3, <1>4, <2>1
  <2>2. CASE ~entered
    <3>1. x.int_level = c.int_level /\ x.cycles_remaining = c.cycles_remaining
      BY <1>2, <1>3, <1>4, <2>2
    <3>2. o = b.owed /\ k = b.spent + i.cost
      BY <1>2, <1>3, <2>2
    <3> QED BY <1>1, <1>2, <1>3, <3>1, <3>2
  <2> QED BY <2>1, <2>2
<1>6. /\ k \in Int /\ m \in Int /\ h \in Int /\ o \in 0..7 /\ q \in BOOLEAN /\ g \in BOOLEAN
      /\ e \in Int /\ p \in Places
      /\ h = IF x.stopped THEN b.heard + e ELSE b.heard
  <2>1. k \in Int /\ m \in Int /\ h \in Int /\ o \in 0..7 /\ e \in Int
    BY <1>2, <1>3
  <2>2. q \in BOOLEAN /\ g \in BOOLEAN
    BY <1>1, <1>2 DEF Call, Cpu
  <2>3. p \in Places
    BY DEF After, Places
  <2> QED BY <2>1, <2>2, <2>3
<1>7. v = [x EXCEPT !.cycles_remaining = m]
  BY <1>2 DEF Paid, Cpu
<1>8. y = [b EXCEPT !.at = p, !.event = e, !.control = "Continue", !.spent = k, !.owed = o,
                    !.raised = q, !.late = FALSE, !.handler = g, !.heard = h]
  BY <1>1 DEF Retired, Call
<1> HIDE DEF entered, k, o, q, g, h, p, m, e
<1>9. /\ v \in Cpu /\ v.int_level = x.int_level /\ v.mask = x.mask /\ v.stopped = x.stopped
      /\ v.initial_cycles = x.initial_cycles /\ v.cycles_remaining = m
  BY <1>2, <1>6, <1>7 DEF Cpu
<1>10. y \in Call
  <2> DEFINE z == [at |-> p, call |-> b.call, control |-> "Continue", cycles |-> b.cycles,
                   exit |-> b.exit, event |-> e, handler |-> g, spent |-> k,
                   heard |-> h, owed |-> o, raised |-> q, late |-> FALSE]
  <2>1. y = z
    BY <1>1, <1>8 DEF Call
  <2>2. z \in Call
    BY <1>1, <1>6 DEF Call
  <2> QED BY <2>1, <2>2
<1>11. /\ y.at = p /\ y.call = b.call /\ y.owed = o /\ ~y.late /\ y.spent = k /\ y.event = e
       /\ y.heard = h
  BY <1>1, <1>8 DEF Call
<1>12. p = After(x) /\ e = i.cost
  BY DEF p, e
<1>13. b.call.mode = "boundary" => y.spent = y.heard + (IF x.stopped THEN 0 ELSE y.event)
  BY <1>3, <1>5, <1>6, <1>11, <1>12
<1> QED BY <1>5, <1>9, <1>10, <1>11, <1>12, <1>13

LEMMA StepInv == ASSUME Inv, Step PROVE Inv' /\ FinalStop
<1>1. b.at = "step" /\ Running
  BY DEF Step, Running
<1> PICK i \in b.call.code, r \in BOOLEAN :
      \E x \in {Stepped(c, i, r)} :
         IF i.op = "trap"
         THEN Exit(x, [b EXCEPT !.raised = @ \/ r], "Trap")
         ELSE IF x.stopped /\ ~CallInstructionHook
         THEN Exit(Paid(x, i), Retired(x, i), "Stopped")
         ELSE /\ c' = Paid(x, i)
              /\ b' = Retired(x, i)
  BY DEF Step
<1> PICK x \in {Stepped(c, i, r)} :
         IF i.op = "trap"
         THEN Exit(x, [b EXCEPT !.raised = @ \/ r], "Trap")
         ELSE IF x.stopped /\ ~CallInstructionHook
         THEN Exit(Paid(x, i), Retired(x, i), "Stopped")
         ELSE /\ c' = Paid(x, i)
              /\ b' = Retired(x, i)
  OBVIOUS
<1> DEFINE v == Paid(x, i)
           y == Retired(x, i)
<1>2. /\ c \in Cpu /\ b \in Call /\ b.call \in Calls /\ b.owed = c.int_level
      /\ b.spent = c.initial_cycles - c.cycles_remaining
      /\ b.late => b.call.mode = "boundary"
      /\ b.call.mode = "boundary" => b.spent = b.heard
  BY <1>1, RunningFacts, AllHeard
<1>3. /\ x \in Cpu /\ x.initial_cycles = c.initial_cycles
      /\ i.op = "trap" => x.int_level = c.int_level /\ x.cycles_remaining = c.cycles_remaining
      /\ b.call.mode = "plain" /\ i.op # "trap" => ~Serviceable(x)
  BY <1>1, SteppedFields
<1>4. CASE i.op = "trap"
  <2> DEFINE q == b.raised \/ r
             z == [b EXCEPT !.raised = q]
  <2>1. z = [b EXCEPT !.raised = @ \/ r] /\ q \in BOOLEAN
    BY <1>2 DEF Call
  <2>2. Exit(x, z, "Trap")
    BY <1>4, <2>1
  <2> HIDE DEF q
  <2>3. /\ z \in Call /\ z.owed = b.owed /\ z.spent = b.spent /\ z.late = b.late
        /\ z.heard = b.heard /\ z.call = b.call
    BY <1>2, <2>1 DEF Call
  <2> HIDE DEF z
  <2>4. Inv' /\ b'.exit = "Trap"
    BY <1>2, <1>3, <1>4, <2>2, <2>3, ExitInv DEF Exits
  <2> QED BY <2>4 DEF FinalStop
<1>5. /\ v \in Cpu /\ v.int_level = x.int_level /\ v.mask = x.mask /\ v.stopped = x.stopped
      /\ y \in Call /\ y.at = After(x) /\ y.call = b.call /\ y.owed = v.int_level /\ ~y.late
      /\ y.spent = v.initial_cycles - v.cycles_remaining
      /\ y.event = i.cost
      /\ b.call.mode = "boundary" =>
           y.spent = y.heard + (IF x.stopped THEN 0 ELSE y.event)
  BY <1>1, RetiredFields
<1> HIDE DEF v, y
<1>6. CASE i.op # "trap" /\ x.stopped /\ b.call.mode = "plain"
  <2>1. Exit(v, y, "Stopped")
    BY <1>6 DEF CallInstructionHook, v, y
  <2>2. Inv' /\ c' = v
    BY <1>5, <1>6, <2>1, ExitInv DEF Exits
  <2>3. ~Serviceable(v)
    BY <1>3, <1>5, <1>6 DEF Serviceable
  <2> QED BY <1>5, <1>6, <2>2, <2>3 DEF FinalStop, Serviceable
<1>7. CASE i.op # "trap" /\ ~(x.stopped /\ b.call.mode = "plain")
  <2>1. c' = v /\ b' = y
    BY <1>7 DEF CallInstructionHook, v, y
  <2>2. y.at = IF x.stopped THEN "stopped" ELSE IF b.call.mode # "plain" THEN "hook" ELSE "poll"
    BY <1>5 DEF After, CallInstructionHook
  <2>3. Types' /\ Paths'
    BY <1>2, <1>5, <1>7, <2>1, <2>2 DEF Types, Paths, Running
  <2>4. b.call.mode = "plain" => ~Serviceable(v)
    BY <1>3, <1>5, <1>7 DEF Serviceable
  <2>5. Pending'
    BY <1>5, <2>1, <2>2, <2>4 DEF Pending, Running, Serviceable
  <2>6. Book'
    <3>1. y.heard \in Int
      BY <1>5 DEF Call
    <3> QED BY <1>5, <2>1, <2>2, <3>1 DEF Book, Running, Returned
  <2> QED BY <2>1, <2>2, <2>3, <2>5, <2>6 DEF Inv, FinalStop
<1> QED BY <1>4, <1>6, <1>7

LEMMA NextInv == ASSUME Inv, [Next]_vars PROVE Inv' /\ (Next => FinalStop)
<1>1. CASE Next
  BY <1>1, SetIrqInv, DeviceRequestInv, RunForCyclesInv, InterruptBoundaryInv, PollInv, HookInv,
     TopInv, StepInv DEF Next, Runner
<1>2. CASE UNCHANGED vars
  <2>1. c' = c /\ b' = b
    BY <1>2 DEF vars
  <2>2. Inv'
    BY <2>1 DEF Inv, Types, Paths, Pending, Book, Running, Returned, Serviceable
  <2>3. Next => FinalStop
    BY SetIrqInv, DeviceRequestInv, RunForCyclesInv, InterruptBoundaryInv, PollInv, HookInv,
       TopInv, StepInv DEF Next, Runner
  <2> QED BY <2>2, <2>3
<1> QED BY <1>1, <1>2

LEMMA Invariance == Spec => []Inv
<1>1. Inv /\ [Next]_vars => Inv'
  BY NextInv
<1> QED BY InitInv, <1>1, PTL DEF Spec

----------------------------------------------------------------------------
\* Where a boundary request raised in the call may still be unanswered: nowhere
\* the loop goes to fetch from, and not behind a BudgetExhausted result.  It is
\* still on the bus: only take_boundary_request removes it.
Requests ==
    /\ b.raised => c.request
    /\ b.at \in {"entry", "irq", "top", "step"} => ~b.raised
    /\ b.at = "idle" /\ b.exit = "BudgetExhausted" => ~b.raised

\* An access only ever adds a request to the one that is pending.
LEMMA SteppedRequest ==
    ASSUME Inv, NEW i, NEW r \in BOOLEAN
    PROVE  Stepped(c, i, r).request = (c.request \/ r)
<1> DEFINE y == Executed(c, i, r)
<1>1. c \in Cpu
  BY DEF Inv, Types
<1>2. y.request = (c.request \/ r) /\ service_interrupt(y, r).request = (y.request \/ r)
  BY <1>1 DEF Executed, service_interrupt, Cpu
<1>3. Epilogue(y, i, r) = service_interrupt(y, r) \/ Epilogue(y, i, r) = y
  BY DEF Epilogue
<1> HIDE DEF y
<1>4. CASE CallInstructionHook
  <2>1. Stepped(c, i, r) = y
    BY <1>4 DEF Stepped, y
  <2> QED BY <1>2, <2>1
<1>5. CASE ~CallInstructionHook
  <2>1. Stepped(c, i, r) = Epilogue(y, i, r)
    BY <1>5 DEF Stepped, y
  <2>2. (y.request \/ r) = y.request
    BY <1>2
  <2> QED BY <1>2, <1>3, <2>1, <2>2
<1> QED BY <1>4, <1>5

\* A return that hides no raised request behind BudgetExhausted.
LEMMA ExitRequests ==
    ASSUME NEW x \in Cpu, NEW y \in Call, NEW reason, Exit(x, y, reason),
           y.raised => x.request, reason = "BudgetExhausted" => ~y.raised
    PROVE  Requests'
<1>1. c' = x /\ b'.at = "idle" /\ b'.exit = reason /\ b'.raised = y.raised
  BY DEF Exit, Call
<1> QED BY <1>1 DEF Requests

LEMMA HostRequests ==
    ASSUME Inv, Requests, SetIrq \/ DeviceRequest \/ RunForCycles
    PROVE  Requests'
<1>1. c \in Cpu /\ b \in Call /\ b.at = "idle"
  BY DEF Inv, Types, SetIrq, DeviceRequest, RunForCycles
<1>2. CASE SetIrq
  BY <1>1, <1>2 DEF SetIrq, Requests, Cpu, Call
<1>3. CASE DeviceRequest
  BY <1>1, <1>3 DEF DeviceRequest, Requests, Cpu, Call
<1>4. CASE RunForCycles
  <2>1. ~b'.raised
    BY <1>1, <1>4 DEF RunForCycles, Call
  <2> QED BY <2>1 DEF Requests
<1> QED BY <1>2, <1>3, <1>4

LEMMA BoundaryRequests == ASSUME Inv, Requests, InterruptBoundary PROVE Requests'
<1> PICK r \in BOOLEAN : Boundary(r)
  BY DEF InterruptBoundary
<1>1. c \in Cpu /\ b \in Call /\ b.at \in {"entry", "stopped", "irq"}
  BY DEF Inv, Types, InterruptBoundary
<1>2. CASE Service(r)
  <2>1. c'.request = (c.request \/ r)
    BY <1>1, <1>2 DEF Service, service_interrupt, Cpu
  <2>2. b'.raised = (b.raised \/ r) /\ b'.at \in {"hook_irq", "poll_irq"}
    BY <1>1, <1>2 DEF Service, Call
  <2> QED BY <2>1, <2>2 DEF Requests
<1>3. CASE Exit(c, b, "Stopped")
  BY <1>1, <1>3, ExitRequests DEF Requests
<1>4. CASE c' = c /\ b' = [b EXCEPT !.at = "top"] /\ b.at # "stopped"
  <2>1. b'.at = "top" /\ b'.raised = b.raised
    BY <1>1, <1>4 DEF Call
  <2> QED BY <1>1, <1>4, <2>1 DEF Requests
<1> QED BY <1>2, <1>3, <1>4 DEF Boundary

\* A poll answers the request or finds none.
LEMMA PollRequests == ASSUME Inv, Requests, PollIrq \/ PollInstruction PROVE Requests'
<1>1. c \in Cpu /\ b \in Call
  BY DEF Inv, Types
<1> PICK there \in {"top", "irq"} : Polled(there)
  BY DEF PollIrq, PollInstruction
<1>2. CASE c.request \/ b.control = "Return"
  <2> DEFINE x == [c EXCEPT !.request = FALSE]
             y == [b EXCEPT !.raised = FALSE]
  <2>1. Exit(x, y, "BoundaryRequested") /\ x \in Cpu /\ y \in Call /\ ~y.raised
    BY <1>1, <1>2 DEF Polled, Cpu, Call
  <2> HIDE DEF x, y
  <2> QED BY <2>1, ExitRequests
<1>3. CASE ~(c.request \/ b.control = "Return")
  <2>1. c' = c /\ b'.at = there /\ b'.raised = b.raised
    BY <1>1, <1>3 DEF Polled, Call
  <2> QED BY <1>3, <2>1 DEF Requests
<1> QED BY <1>2, <1>3

LEMMA HookRequests == ASSUME Inv, Requests, Hook PROVE Requests'
<1>1. c \in Cpu /\ b \in Call
  BY DEF Inv, Types
<1>2. PICK r \in BOOLEAN : c'.request = (c.request \/ r) /\ b'.raised = (b.raised \/ r)
  BY <1>1 DEF Hook, Cpu, Call
<1>3. b'.at \in {"poll", "poll_irq"}
  BY <1>1 DEF Hook, Call
<1> QED BY <1>2, <1>3 DEF Requests

LEMMA TopRequests == ASSUME Inv, Requests, Top PROVE Requests'
<1>1. c \in Cpu /\ b \in Call /\ b.at = "top" /\ ~b.raised
  BY DEF Inv, Types, Top, Requests
<1>2. CASE Exit(c, b, "BudgetExhausted") \/ Exit(c, b, "Stopped")
  BY <1>1, <1>2, ExitRequests
<1>3. CASE c' = c /\ b' = [b EXCEPT !.at = "step"]
  <2>1. ~b'.raised
    BY <1>1, <1>3 DEF Call
  <2> QED BY <2>1 DEF Requests
<1> QED BY <1>2, <1>3 DEF Top

LEMMA StepRequests == ASSUME Inv, Requests, Step PROVE Requests'
<1>1. c \in Cpu /\ b \in Call /\ b.at = "step"
  BY DEF Inv, Types, Step
<1> PICK i \in b.call.code, r \in BOOLEAN :
      \E x \in {Stepped(c, i, r)} :
         IF i.op = "trap"
         THEN Exit(x, [b EXCEPT !.raised = @ \/ r], "Trap")
         ELSE IF x.stopped /\ ~CallInstructionHook
         THEN Exit(Paid(x, i), Retired(x, i), "Stopped")
         ELSE /\ c' = Paid(x, i)
              /\ b' = Retired(x, i)
  BY DEF Step
<1> DEFINE x == Stepped(c, i, r)
           v == Paid(x, i)
           y == Retired(x, i)
<1>2. x \in Cpu /\ x.request = (c.request \/ r)
  BY <1>1, SteppedFields, SteppedRequest
<1>3. /\ v \in Cpu /\ v.stopped = x.stopped /\ y \in Call /\ y.at = After(x)
  BY <1>1, RetiredFields
<1>4. v.request = x.request
  BY <1>2 DEF Paid, Cpu
<1>5. y.raised = (b.raised \/ (x.request /\ ~c.request))
  BY <1>1 DEF Retired, Call
<1> HIDE DEF x, v, y
<1>6. CASE Exit(x, [b EXCEPT !.raised = @ \/ r], "Trap")
  <2> DEFINE z == [b EXCEPT !.raised = @ \/ r]
  <2>1. z \in Call /\ z.raised = (b.raised \/ r)
    BY <1>1 DEF Call
  <2>2. z.raised => x.request
    BY <1>2, <2>1 DEF Requests
  <2> HIDE DEF z
  <2> QED BY <1>2, <1>6, <2>1, <2>2, ExitRequests DEF z
<1>7. y.raised => v.request
  BY <1>2, <1>4, <1>5 DEF Requests
<1>8. CASE Exit(v, y, "Stopped")
  BY <1>3, <1>7, <1>8, ExitRequests
<1>9. CASE c' = v /\ b' = y
  <2>1. b'.at \in {"stopped", "hook", "poll"}
    BY <1>3, <1>9 DEF After
  <2> QED BY <1>7, <1>9, <2>1 DEF Requests
<1> QED BY <1>6, <1>8, <1>9 DEF x, v, y

LEMMA RequestsInvariant == Spec => []Requests
<1>1. Init => Requests
  BY DEF Init, Requests
<1>2. Inv /\ Requests /\ [Next]_vars => Requests'
  <2> SUFFICES ASSUME Inv, Requests, [Next]_vars PROVE Requests'
    OBVIOUS
  <2>1. CASE Next
    BY <2>1, HostRequests, BoundaryRequests, PollRequests, HookRequests, TopRequests,
       StepRequests DEF Next, Runner
  <2>2. CASE UNCHANGED vars
    BY <2>2 DEF vars, Requests
  <2> QED BY <2>1, <2>2
<1> QED BY <1>1, <1>2, Invariance, PTL DEF Spec

\* The fields of the loop keep their types, and each place of run_for_cycles_inner
\* is reached stopped or running as the code's conditions say.
THEOREM LoopTypes == Spec => []TypeOK
<1>1. Inv => TypeOK
  BY DEF Inv, Types, Paths, Cpu, Call, Places, TypeOK
<1> QED BY <1>1, Invariance, PTL

\* A boundary request raised by an access, an interrupt entry or a hook of the
\* call is answered before the next fetch and never reported as an exhausted
\* budget (take_boundary_request in run_for_cycles_inner).
THEOREM RequestsAreHonoured == Spec => []RequestHonoured
<1>1. Requests => RequestHonoured
  BY DEF Requests, RequestHonoured, Returned
<1> QED BY <1>1, RequestsInvariant, PTL

\* No runner fetches an instruction past a serviceable interrupt, except the
\* one a boundary hook raised at an interrupt entry (run_for_cycles_inner).
THEOREM InterruptsArePrompt == Spec => []IrqPrompt
<1>1. Inv => IrqPrompt
  BY DEF Inv, Pending, IrqPrompt
<1> QED BY <1>1, Invariance, PTL

\* Hiding the level from step (deferred_irq) never loses or invents one.
THEOREM DeferredLevelKept == Spec => []IrqKept
<1>1. Inv => IrqKept
  BY DEF Inv, Pending, IrqKept
<1> QED BY <1>1, Invariance, PTL

\* The cycles returned are those of the reset, the instructions and the
\* interrupt entries, and the boundary hook heard of all of them
\* (CycleBatchResult, CycleBoundaryEvent).
THEOREM CyclesAreAccounted == Spec => []Accounted
<1>1. Inv => Accounted
  <2> SUFFICES ASSUME Inv PROVE Accounted
    OBVIOUS
  <2>1. Returned => b.cycles = b.spent
    BY DEF Inv, Book
  <2>2. Returned => (b.call.mode = "boundary" => b.spent = b.heard)
    BY AllHeard DEF Returned
  <2> QED BY <2>1, <2>2 DEF Accounted
<1> QED BY <1>1, Invariance, PTL

\* A call that returns Stopped leaves no interrupt that could end the stop
\* (run_for_cycles_inner, CycleBatchExit::Stopped).
THEOREM StoppedIsFinal == Spec => StopIsFinal
<1>1. Inv /\ [Next]_vars =>
        [Running /\ b'.at = "idle" /\ b'.exit = "Stopped" => c'.stopped /\ ~Serviceable(c')]_vars
  BY NextInv DEF FinalStop
<1> QED BY <1>1, Invariance, PTL DEF Spec, StopIsFinal
=============================================================================
