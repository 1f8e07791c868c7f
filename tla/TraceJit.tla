------------------------------ MODULE TraceJit ------------------------------
(***************************************************************************)
(* run_batch with the trace cache: the decoded fast loop probes the cache  *)
(* after backward branches, counts candidates, records the path the        *)
(* interpreter executes, compiles it, and from then on validates the trace *)
(* against memory and runs it, chaining into the next one at a side exit.  *)
(* Traces run as the portable executor runs them, one recorded operation   *)
(* per step; TraceOps relates the executors' operations.                   *)
(*                                                                         *)
(* j is the thread-local TraceJit with the per-CPU skip filters; a slot    *)
(* is Empty, Counting, Rejected or a compiled trace.  The thresholds are   *)
(* constants so that a small instance reaches them.                        *)
(***************************************************************************)
EXTENDS Guest, Sequences, SequencesExt

CONSTANTS
    CacheSize, SkipWays,
    TRACE_MAX_OPS, TRACE_MIN_OPS, TRACE_MIN_SELF_LOOP_OPS, TRACE_MIN_INDIRECT_JSR_OPS,
    SALVAGE_MIN_OPS, TRACE_HOT_THRESHOLD, TRACE_LINEAR_HOT_THRESHOLD,
    TRACE_TRAP_SEGMENT_HOT_THRESHOLD, HitCap, TRACE_EXIT_CHAIN_BUDGET,
    TRACE_ADAPT_WINDOW, TRACE_ADAPT_MISMATCHES, TRACE_MAX_ADAPTIVE_RERECORDS,
    NO_TERMINAL_STRIKE_LIMIT, CALL_THROUGH_MAX_SPAN, MAX_SKIP_OPS,
    Envs         \* what a call finds: [win, fast, mmu]

ASSUME JitAssumption ==
    /\ CacheSize \in Nat \ {0} /\ SkipWays \in Nat \ {0}
    /\ TRACE_MIN_SELF_LOOP_OPS \in Nat \ {0} /\ TRACE_MIN_OPS \in Nat \ {0}
    /\ TRACE_MAX_OPS \in Nat \ {0} /\ TRACE_HOT_THRESHOLD <= HitCap
    /\ TRACE_TRAP_SEGMENT_HOT_THRESHOLD <= HitCap /\ TRACE_LINEAR_HOT_THRESHOLD <= HitCap
    /\ TRACE_EXIT_CHAIN_BUDGET \in Nat
ASSUME EnvsAssumption ==
    \A e \in Envs : e.win \subseteq Addr /\ e.fast \in BOOLEAN /\ e.mmu \in BOOLEAN
                    /\ (e.mmu => e.win = {})

VARIABLES
    pc, cpu, mem, left, fresh, watch, exit,   \* as in BatchContract
    ph,      \* where the call is
    env,     \* window, whether the decoded loop may run, translation
    probe,   \* the loop owes the cache a probe
    x,       \* the trace being run, or NoRun
    j,       \* the trace cache
    resume   \* pending_trap_resume
guest == <<pc, cpu, mem, left, fresh>>
call == <<watch, env, resume>>
vars == <<pc, cpu, mem, left, fresh, watch, exit, ph, env, probe, x, j, resume>>

Phases == {"host", "loop", "interp", "disp", "trace", "leave", "chain", "ran", "watched"}
NoPc == MaxAddr + 1
None == [k |-> "none"]

-----------------------------------------------------------------------------
(* Slots, side tables and filters *)

trace_cache_index(p) == p % CacheSize
Empty == [k |-> "empty"]
Counting(p, y, hits, again, call_through, trap, linear) ==
    [k |-> "counting", pc |-> p, type |-> y, hits |-> hits, again |-> again,
     call |-> call_through, trap |-> trap, linear |-> linear]
Rejected(p, y) == [k |-> "rejected", pc |-> p, type |-> y]
Holds(slot, kind, p, y) == slot.k = kind /\ slot.pc = p /\ slot.type = y
Slot(q, p) == q.slots[trace_cache_index(p)]
SetSlot(q, p, s) == [q EXCEPT !.slots[trace_cache_index(p)] = s]
compiled_head_at(q, p, y) == Holds(Slot(q, p), "compiled", p, y)

\* A two-way side table; a full index rotates
Has(tab, p) == LET w == tab[trace_cache_index(p)] IN w[1] = p \/ w[2] = p
Remember(tab, p) ==
    LET w == tab[trace_cache_index(p)] IN
    [tab EXCEPT ![trace_cache_index(p)] =
        CASE w[1] = p \/ w[2] = p -> w
          [] w[1] = NoPc -> <<p, w[2]>>
          [] w[2] = NoPc -> <<w[1], p>>
          [] OTHER -> <<p, w[1]>>]
Forget(tab, p) ==
    [tab EXCEPT ![trace_cache_index(p)] = [n \in 1..2 |-> IF @[n] = p THEN NoPc ELSE @[n]]]

grant_call_permission(q, p) == [q EXCEPT !.perm = Remember(@, p)]
has_call_permission(q, p) == Has(q.perm, p)
defer_linear_compilation(q, p) == [q EXCEPT !.linear = Remember(@, p)]
linear_compilation_deferred(q, p) == Has(q.linear, p)
clear_linear_deferral(q, p) == [q EXCEPT !.linear = Forget(@, p)]
remember_structural_rejection(q, p) == [q EXCEPT !.struct = Remember(@, p)]
is_structurally_rejected(q, p) == Has(q.struct, p)
remember_compiled(q, p) == [q EXCEPT !.before = Remember(@, p)]
has_compiled_before(q, p) == Has(q.before, p)

\* no_terminal_strikes: the same shape with a count, which matters up to its limit
Strikes(q, p) ==
    LET w == q.strikes[trace_cache_index(p)] IN
    IF w[1].pc = p THEN w[1].n ELSE IF w[2].pc = p THEN w[2].n ELSE 0
has_no_terminal_strikes(q, p) == Strikes(q, p) > 0
note_no_terminal_strike(q, p) ==
    LET w == q.strikes[trace_cache_index(p)]
        one == [pc |-> p, n |-> 1]
        More(n) == IF n < NO_TERMINAL_STRIKE_LIMIT THEN n + 1 ELSE n
    IN [q EXCEPT !.strikes[trace_cache_index(p)] =
        CASE w[1].pc = p -> <<[pc |-> p, n |-> More(w[1].n)], w[2]>>
          [] w[2].pc = p -> <<w[1], [pc |-> p, n |-> More(w[2].n)]>>
          [] w[1].pc = NoPc -> <<one, w[2]>>
          [] w[2].pc = NoPc -> <<w[1], one>>
          [] OTHER -> <<one, w[1]>>]
clear_no_terminal_strikes(q, p) ==
    [q EXCEPT !.strikes[trace_cache_index(p)] =
        [n \in 1..2 |-> IF @[n].pc = p THEN [pc |-> NoPc, n |-> 0] ELSE @[n]]]
forget_structural_rejection(q, p) ==
    clear_no_terminal_strikes([q EXCEPT !.struct = Forget(@, p)], p)

\* The four-entry filters: round-robin, emptied as a whole
Pushed(s, p) ==
    IF Contains(s, p) THEN s
    ELSE IF Len(s) < SkipWays THEN Append(s, p) ELSE Append(Tail(s), p)
push_probe_skip(q, p) == [q EXCEPT !.pskip = Pushed(@, p)]
rearm_filters(q) == [q EXCEPT !.pskip = <<>>, !.rskip = <<>>]

InstallCandidate(q, p, y) ==
    SetSlot(q, p, Counting(p, y, 1, 0, has_call_permission(q, p), FALSE,
                           linear_compilation_deferred(q, p)))
\* record_trace_target: a backward branch reached p
record_trace_target(q, p, y) ==
    LET s == Slot(q, p) IN
    CASE Holds(s, "compiled", p, y) \/ Holds(s, "counting", p, y) -> q
      [] Holds(s, "rejected", p, y) ->
            IF ~is_structurally_rejected(q, p)
               /\ (has_compiled_before(q, p) \/ has_no_terminal_strikes(q, p))
            THEN InstallCandidate(q, p, y) ELSE q
      [] OTHER -> IF is_structurally_rejected(q, p) THEN q ELSE InstallCandidate(q, p, y)

\* note_backward_branch: <<cache, whether to probe>>
note_backward_branch(q, p, y) ==
    IF Contains(q.pskip, p) THEN <<q, FALSE>>
    ELSE IF Contains(q.rskip, p) THEN <<q, TRUE>>
    ELSE <<record_trace_target([q EXCEPT !.rskip = Pushed(@, p)], p, y), TRUE>>

-----------------------------------------------------------------------------
(* Recorded operations and compilation *)

\* A recorded operation: the instruction read from memory at pc, the trace
\* operation it becomes, and the successor a guard expects
Op(p, i, top, exp) == [pc |-> p, ins |-> i, top |-> top, exp |-> exp, skip |-> 0]
decode_trace_op(i) ==
    CASE i.k = "op" -> "plain"
      [] i.k \in {"st", "cmpm"} -> "mem"
      [] i.k = "bcc" -> "branch"
      [] i.k = "dbcc" -> "dbcc"
      [] i.k = "jmp" -> "jmp"
      [] i.k = "jsr" -> "jsr"
      [] i.k = "rts" -> "ret"
      [] OTHER -> "refused"
ends_trace(o) == o.top \in {"branch", "dbcc", "jsr", "jmp", "trap", "ret"}
taken_target(o) == IF o.top \in {"branch", "dbcc"} THEN o.ins.t ELSE NoPc
Guarded(o) == o.top \in {"branch", "jmp"} /\ o.exp # NoPc
is_if_convertible_block_op(i) == i.k \in {"op", "st", "cmpm"}

\* The caller's and the callee's code intervals of a recorded region
InCallee(ops, n) ==
    \E c \in 1..(n - 1) : ops[c].top = "call" /\ \A d \in (c + 1)..(n - 1) : ops[d].top # "rtsret"
Interval(S) == IF S = {} THEN {} ELSE (CHOOSE a \in S : \A b \in S : a <= b)..(CHOOSE a \in S : \A b \in S : a >= b)
CallerSpan(ops) == Interval({ops[n].pc : n \in {m \in 1..Len(ops) : ~InCallee(ops, m)}})
CalleeSpan(ops) == Interval({ops[n].pc : n \in {m \in 1..Len(ops) : InCallee(ops, m)}})
Wide(span) == \E a \in span, b \in span : b - a >= CALL_THROUGH_MAX_SPAN

\* is_pure_poll_loop: compares with memory only, closed by the conditional branch
is_pure_poll_loop(ops) ==
    /\ Len(ops) > 1 /\ Last(ops).top = "branch"
    /\ \A n \in 1..(Len(ops) - 1) : ops[n].top = "mem" /\ ops[n].ins.k = "cmpm"

SelfLoop(ops, start, exitpc) ==
    exitpc = start \/ (ops # <<>> /\ taken_target(Last(ops)) = start)

\* compile_decoded_ops_reason: the first gate that refuses the region
RejectReason(q, start, y, ops, exitpc) ==
    LET dynamic == Last(ops).top \in {"jsr", "ret"}
        loop == SelfLoop(ops, start, exitpc)
    IN
    CASE /\ ops = <<>> \/ ~ends_trace(Last(ops))
         /\ ~(exitpc # start /\ compiled_head_at(q, exitpc, y)) -> "NoTraceTerminal"
      [] Len(ops) < (IF loop THEN TRACE_MIN_SELF_LOOP_OPS ELSE TRACE_MIN_OPS) -> "TooShort"
      [] dynamic /\ Len(ops) < TRACE_MIN_INDIRECT_JSR_OPS -> "IndirectJsrTooShort"
      [] /\ ~loop /\ ~dynamic /\ Len(ops) < TRACE_MIN_INDIRECT_JSR_OPS
         /\ \E n \in 1..Len(ops) : ops[n].ins.k = "cmpm" -> "LinearMemoryAlu"
      [] exitpc = start /\ is_pure_poll_loop(ops) -> "WaitLoop"
      [] CalleeSpan(ops) # {} /\ (Wide(CallerSpan(ops)) \/ Wide(CalleeSpan(ops))) -> "CallSpan"
      [] OTHER -> "none"
\* The trace the portable compile_ops builds
CompiledTrace(start, y, ops, exitpc, again) ==
    [k |-> "compiled", pc |-> start, type |-> y, ops |-> ops,
     loop |-> SelfLoop(ops, start, exitpc),
     window |-> \E n \in 1..Len(ops) : ops[n].top \in {"mem", "jsr", "call", "rtsret", "ret"},
     spans |-> CallerSpan(ops) \cup CalleeSpan(ops),
     adaptive |-> again < TRACE_MAX_ADAPTIVE_RERECORDS /\ \E n \in 1..Len(ops) : Guarded(ops[n]),
     calls |-> 0, exits |-> 0, again |-> again]

-----------------------------------------------------------------------------
(* Recording *)

Recording(p, y, again, call_through, seeded) ==
    [k |-> "rec", start |-> p, type |-> y, ops |-> <<>>, again |-> again, call |-> call_through,
     ret |-> NoPc, until |-> NoPc, seeded |-> seeded]

reject_recording(q) ==
    push_probe_skip([SetSlot(q, q.rec.start, Rejected(q.rec.start, q.rec.type)) EXCEPT !.rec = None],
                    q.rec.start)

\* A recording stopped by an instruction the decoder refuses is cut back to
\* its last terminal when enough of it is left
LastTerminal(ops) ==
    IF \E n \in 1..Len(ops) : ends_trace(ops[n])
    THEN CHOOSE n \in 1..Len(ops) : ends_trace(ops[n]) /\ \A m \in (n + 1)..Len(ops) : ~ends_trace(ops[m])
    ELSE 0
Salvages(ops, end) ==
    end = "blocker" /\ ops # <<>> /\ ~ends_trace(Last(ops))
    /\ LastTerminal(ops) > 0 /\ LastTerminal(ops) >= SALVAGE_MIN_OPS
\* A final branch is no longer a guard
Unguarded(ops) ==
    IF ops # <<>> /\ Last(ops).top = "branch" THEN [ops EXCEPT ![Len(ops)].exp = NoPc] ELSE ops

\* The verdict on a refused region outlives the slot when it is about structure
RejectWith(q, start, y, reason) ==
    LET struck == IF reason = "NoTraceTerminal" /\ ~has_compiled_before(q, start)
                  THEN note_no_terminal_strike(q, start) ELSE q
        durable == \/ reason \in {"TooShort", "IndirectJsrTooShort"}
                   \/ /\ reason = "NoTraceTerminal" /\ ~has_compiled_before(q, start)
                      /\ Strikes(struck, start) >= NO_TERMINAL_STRIKE_LIMIT
        judged == IF durable THEN remember_structural_rejection(struck, start) ELSE struck
    IN push_probe_skip(SetSlot(judged, start, Rejected(start, y)), start)

CompileRegion(q, start, y, ops, exitpc, again) ==
    LET reason == RejectReason(q, start, y, ops, exitpc) IN
    IF reason # "none" THEN RejectWith(q, start, y, reason)
    ELSE SetSlot(clear_no_terminal_strikes(remember_compiled(q, start), start),
                 start, CompiledTrace(start, y, ops, exitpc, again))

\* finish_recording once the region and its exit are settled; q has no recording
CloseRegion(q, r, ops, exitpc, end) ==
    IF /\ end \in {"region", "blocker"} /\ ops # <<>> /\ ends_trace(Last(ops))
       /\ ~SelfLoop(ops, r.start, exitpc) /\ ~r.seeded
       /\ TRACE_LINEAR_HOT_THRESHOLD > TRACE_HOT_THRESHOLD
       /\ ~linear_compilation_deferred(q, r.start)
    THEN SetSlot(defer_linear_compilation(q, r.start), r.start,
                 Counting(r.start, r.type, 0, r.again, r.call, FALSE, TRUE))
    ELSE CompileRegion(clear_linear_deferral(q, r.start), r.start, r.type, ops, exitpc, r.again)

finish_recording(q, exitpc, end) ==
    LET r == q.rec
        n == LastTerminal(r.ops)
        closed == [q EXCEPT !.rec = None]
    IN IF Salvages(r.ops, end)
       THEN CloseRegion(closed, r, Unguarded(SubSeq(r.ops, 1, n)), r.ops[n + 1].pc, end)
       ELSE CloseRegion(closed, r, Unguarded(r.ops), exitpc, end)

stop_recording(q, p) == IF q.rec = None THEN q ELSE finish_recording(q, p, "stop")

\* The first call a head meets without permission rejects whatever was recorded,
\* and re-arms the head with permission
call_retry(q) ==
    LET r == q.rec IN
    rearm_filters(SetSlot(grant_call_permission([q EXCEPT !.rec = None], r.start), r.start,
                          Counting(r.start, r.type, 0, 0, TRUE, FALSE, FALSE)))

Append1(q, o) == [q EXCEPT !.rec.ops = Append(@, o)]

\* try_if_convert_branch: a forward branch over a few block operations, decoded
\* from memory as it is now
SkipBlock(p, i) == {a \in Addr : p < a /\ a < i.t}
IfConverts(q, p, nxt, i, m) ==
    LET block == SkipBlock(p, i) IN
    /\ i.t > p + 1 /\ nxt \in {i.t, p + 1}
    /\ \A a \in block : is_if_convertible_block_op(m[a])
    /\ i.t - p - 1 <= MAX_SKIP_OPS
    /\ Len(q.rec.ops) + i.t - p < TRACE_MAX_OPS
IfConverted(q, p, nxt, i, m) ==
    LET n == i.t - p - 1
        skip == [Op(p, i, "condskip", NoPc) EXCEPT !.skip = n]
        block == [a \in 1..n |-> Op(p + a, m[p + a], decode_trace_op(m[p + a]), NoPc)]
    IN [q EXCEPT !.rec.ops = @ \o <<skip>> \o block,
                 !.rec.until = IF nxt = p + 1 THEN i.t ELSE NoPc]

\* The recorded call: the caller's and the callee's bytes stay within the cap
SpansTooWide(ops, p, nxt) ==
    LET caller == {ops[n].pc : n \in {m \in 1..Len(ops) : ~InCallee(ops, m)}} \cup {p}
        callee == {ops[n].pc : n \in {m \in 1..Len(ops) : InCallee(ops, m)}} \cup {nxt}
    IN \/ \E a \in caller, b \in caller : b - a > CALL_THROUGH_MAX_SPAN
       \/ \E a \in callee, b \in callee : b - a > CALL_THROUGH_MAX_SPAN
RecordCall(q, p, nxt, i) ==
    IF q.rec.ret # NoPc \/ SpansTooWide(q.rec.ops, p, nxt)
    THEN finish_recording(q, p, "region")
    ELSE [Append1(q, Op(p, i, "call", NoPc)) EXCEPT !.rec.ret = After(p)]
RecordReturn(q, p, nxt, i) ==
    IF q.rec.ret = NoPc THEN finish_recording(Append1(q, Op(p, i, "ret", NoPc)), nxt, "region")
    ELSE IF nxt # q.rec.ret THEN reject_recording(q)
    ELSE [Append1(q, Op(p, i, "rtsret", q.rec.ret)) EXCEPT !.rec.ret = NoPc]

\* After an ordinary operation: close at the head, at a compiled head a seeded
\* recording may link to, at the length cap, and at a PC recorded before
CloseIfDone(q, nxt) ==
    LET ops == q.rec.ops IN
    IF \/ nxt = q.rec.start
       \/ q.rec.seeded /\ Len(ops) >= TRACE_MIN_OPS /\ compiled_head_at(q, nxt, q.rec.type)
       \/ Len(ops) >= TRACE_MAX_OPS
       \/ \E n \in 1..Len(ops) : ops[n].pc = nxt
    THEN finish_recording(q, nxt, "region") ELSE q

\* i is the instruction as memory holds it after execution
RecordPlain(q, p, nxt, i, m) ==
    LET top == decode_trace_op(i) IN
    CASE top = "branch" /\ IfConverts(q, p, nxt, i, m) -> IfConverted(q, p, nxt, i, m)
      [] top = "branch" /\ ~IfConverts(q, p, nxt, i, m) ->
            CloseIfDone(Append1(q, Op(p, i, top, IF nxt = q.rec.start THEN NoPc
                                                 ELSE IF i.t = nxt THEN i.t ELSE After(p))), nxt)
      [] top = "jmp" -> CloseIfDone(Append1(q, Op(p, i, top, nxt)), nxt)
      [] top \in {"dbcc", "jsr", "ret"} ->
            finish_recording(Append1(q, Op(p, i, top, NoPc)), nxt, "region")
      [] top \in {"plain", "mem"} /\ nxt # After(p) -> finish_recording(q, p, "region")
      [] top \in {"plain", "mem"} /\ nxt = After(p) ->
            CloseIfDone(Append1(q, Op(p, i, top, NoPc)), nxt)

\* record_executed: ir was executed at p and control went to nxt; m is memory now
RecordOp(q, p, nxt, ir, m, y) ==
    CASE q.rec.type # y -> reject_recording(q)
      [] q.rec.type = y /\ q.rec.call /\ ir.k = "bsr" -> RecordCall(q, p, nxt, ir)
      [] q.rec.type = y /\ q.rec.call /\ ir.k = "rts" -> RecordReturn(q, p, nxt, ir)
      [] q.rec.type = y /\ ~(q.rec.call /\ ir.k \in {"bsr", "rts"}) ->
            IF decode_trace_op(m[p]) # "refused" THEN RecordPlain(q, p, nxt, m[p], m)
            ELSE IF ~q.rec.call /\ ir.k = "bsr" THEN call_retry(q)
            ELSE finish_recording(q, p, "blocker")
record_executed(q, p, nxt, ir, m, y) ==
    CASE q.rec = None -> q
      [] q.rec # None /\ q.rec.until # NoPc /\ p < q.rec.until -> q
      [] q.rec # None /\ ~(q.rec.until # NoPc /\ p < q.rec.until) ->
            RecordOp([q EXCEPT !.rec.until = NoPc], p, nxt, ir, m, y)

\* finish_recording_at_trap.  The first closure at an A-line only defers the head
AtTrap(q, p) == q.rec # None /\ q.rec.ops # <<>> /\ After(Last(q.rec.ops).pc) = p
TrapProven(q) ==
    LET s == Slot(q, q.rec.start) IN Holds(s, "counting", q.rec.start, q.rec.type) /\ s.trap
finish_recording_at_trap(q, p, i) ==
    CASE ~AtTrap(q, p) -> stop_recording(q, After(p))
      [] AtTrap(q, p) /\ TrapProven(q) ->
            finish_recording(Append1(q, Op(p, i, "trap", NoPc)), p, "trap")
      [] AtTrap(q, p) /\ ~TrapProven(q) ->
            [SetSlot(q, q.rec.start, Counting(q.rec.start, q.rec.type, 0, q.rec.again,
                                              q.rec.call, TRUE, FALSE)) EXCEPT !.rec = None]
\* TrapFinish::Compiled: a trace now ends at this trap
CompiledToTrap(q, q2, p) ==
    /\ AtTrap(q, p) /\ TrapProven(q)
    /\ LET s == Slot(q2, q.rec.start)
       IN Holds(s, "compiled", q.rec.start, q.rec.type) /\ Last(s.ops).top = "trap" /\ Last(s.ops).pc = p

-----------------------------------------------------------------------------
(* Side exits *)

Threshold(s) == IF s.trap THEN TRACE_TRAP_SEGMENT_HOT_THRESHOLD
                ELSE IF s.linear THEN TRACE_LINEAR_HOT_THRESHOLD ELSE TRACE_HOT_THRESHOLD
Hit(s) == [s EXCEPT !.hits = IF @ < HitCap THEN @ + 1 ELSE @]

\* note_trace_exit: <<cache, ExitSeed>>
note_trace_exit(q0, p, y, watched) ==
    LET q == clear_linear_deferral(q0, p)
        s == Slot(q, p)
        hot == Hit([s EXCEPT !.linear = FALSE])
        seed == [pc |-> p, type |-> y]
    IN
    CASE s.k = "compiled" ->
            <<q, IF Holds(s, "compiled", p, y) /\ ~watched THEN "chain" ELSE "none">>
      [] Holds(s, "counting", p, y) ->
            IF watched \/ hot.hits < Threshold(hot) \/ q.rec # None
            THEN <<[SetSlot(q, p, hot) EXCEPT
                      !.seed = IF ~watched /\ q.rec = None THEN seed ELSE @], "none">>
            ELSE <<[SetSlot(q, p, hot) EXCEPT !.rec = Recording(p, y, s.again, s.call, TRUE)], "record">>
      [] Holds(s, "rejected", p, y) -> <<q, "none">>
      [] OTHER ->
            IF is_structurally_rejected(q, p) THEN <<q, "none">>
            ELSE <<[SetSlot(q, p, Counting(p, y, 1, 0, has_call_permission(q, p), FALSE, FALSE))
                      EXCEPT !.seed = seed], "none">>

\* The probe of a slot that holds no trace for this PC
ProbeCandidate(q, p, y) ==
    LET seeded == q.seed = [pc |-> p, type |-> y]
        q1 == IF seeded THEN [q EXCEPT !.seed = None] ELSE q
        s == Slot(q, p)
        counted == IF seeded THEN s ELSE Hit(s)
    IN
    CASE Holds(s, "counting", p, y) ->
            IF counted.hits < Threshold(counted) THEN SetSlot(q1, p, counted)
            ELSE [SetSlot(q1, p, counted) EXCEPT !.rec = Recording(p, y, s.again, s.call, seeded)]
      [] Holds(s, "rejected", p, y) -> push_probe_skip(q1, p)
      [] OTHER -> q1

-----------------------------------------------------------------------------
(* The batch loop *)

NoRun == [head |-> NoPc, i |-> 0, full |-> 0, max |-> 0, ran |-> FALSE, single |-> FALSE,
          chain |-> 0, how |-> "none"]
NoEnv == [win |-> {}, fast |-> TRUE, mmu |-> FALSE]
NoTraces ==
    [slots |-> [n \in 0..(CacheSize - 1) |-> Empty], rec |-> None, seed |-> None,
     perm |-> [n \in 0..(CacheSize - 1) |-> <<NoPc, NoPc>>],
     linear |-> [n \in 0..(CacheSize - 1) |-> <<NoPc, NoPc>>],
     struct |-> [n \in 0..(CacheSize - 1) |-> <<NoPc, NoPc>>],
     before |-> [n \in 0..(CacheSize - 1) |-> <<NoPc, NoPc>>],
     strikes |-> [n \in 0..(CacheSize - 1) |-> <<[pc |-> NoPc, n |-> 0], [pc |-> NoPc, n |-> 0]>>],
     pskip |-> <<>>, rskip |-> <<>>]

Init ==
    /\ \E b \in Boots, y \in CpuTypes :
         mem = b.mem /\ pc = b.pc /\ cpu = [r |-> 0, f |-> FALSE, sp |-> b.sp, type |-> y]
    /\ left = 0 /\ fresh = TRUE /\ watch = {} /\ exit = "none" /\ ph = "host"
    /\ env = NoEnv /\ probe = FALSE /\ x = NoRun
    /\ j = NoTraces /\ resume = NoPc

HostPatch(p) ==
    /\ ph = "host" /\ mem' = [mem EXCEPT ![p[1]] = p[2]]
    /\ UNCHANGED <<pc, cpu, left, fresh, watch, exit, ph, env, probe, x, j, resume>>
SetCpuType(y) ==
    /\ ph = "host" /\ cpu' = [cpu EXCEPT !.type = y]
    /\ UNCHANGED <<pc, mem, left, fresh, watch, exit, ph, env, probe, x, j, resume>>

\* run_batch up to its loop: a window re-arms the filters, and a host that resumes
\* where the last A-line left off makes the continuation a candidate
RunBatch(c, e, n) ==
    LET q == IF n.win # {} THEN rearm_filters(j) ELSE j IN
    /\ ph = "host" /\ ph' = "loop" /\ probe' = TRUE
    /\ pc' = e.pc /\ cpu' = [cpu EXCEPT !.sp = e.sp]
    /\ left' = c.max /\ watch' = c.watch /\ fresh' = TRUE /\ env' = n
    /\ j' = IF resume = e.pc THEN record_trace_target(q, e.pc, cpu.type) ELSE q
    /\ resume' = NoPc /\ exit' = "none"
    /\ UNCHANGED <<mem, x>>

\* The call returns to the host, and its arguments are gone
Leaves(how) ==
    /\ ph' = "host" /\ exit' = how
    /\ left' = 0 /\ fresh' = TRUE /\ watch' = {} /\ env' = NoEnv /\ probe' = FALSE

BudgetExhausted_KeepsRecording ==
    /\ ph = "loop" /\ left = 0
    /\ j' = j /\ Leaves("budget")
    /\ UNCHANGED <<pc, cpu, mem, x, resume>>
BudgetExhausted ==
    /\ ph = "loop" /\ left = 0
    /\ j' = stop_recording(j, pc) /\ Leaves("budget")
    /\ UNCHANGED <<pc, cpu, mem, x, resume>>

-----------------------------------------------------------------------------
(* try_execute *)

FirstStale(ops) ==
    IF \A n \in 1..Len(ops) : mem[ops[n].pc] = ops[n].ins THEN 0
    ELSE CHOOSE n \in 1..Len(ops) : /\ mem[ops[n].pc] # ops[n].ins
                                    /\ \A m \in 1..(n - 1) : mem[ops[m].pc] = ops[m].ins
\* Code changed under the trace: it goes, with every verdict on the old bytes
Invalidate(q, p) ==
    rearm_filters(clear_linear_deferral(forget_structural_rejection(SetSlot(q, p, Empty), p), p))

NoProbe == env.mmu \/ left = 0 \/ j.rec # None
Fits_Any(tr) == TRUE
Fits(tr) == left >= Len(tr.ops)
WatchedInside_Head(tr) == tr.pc \in watch
WatchedInside(tr) == \E n \in 2..Len(tr.ops) : tr.ops[n].pc \in watch

\* Nothing ran: control goes to after, with the cache as q
NotRun(q, after) == ph' = after /\ j' = q /\ x' = NoRun /\ UNCHANGED guest

EnterTrace(tr, single, chain) ==
    /\ ph' = "trace"
    /\ x' = [head |-> pc, i |-> 1, full |-> 0, ran |-> FALSE, single |-> single,
             chain |-> chain, how |-> "none",
             max |-> IF single \/ ~tr.loop THEN 1 ELSE left \div Len(tr.ops)]
    /\ UNCHANGED <<guest, j>>

\* What a probe at PC comes to.  A code word that cannot be read is left to the fetch
ProbeOutcome ==
    LET tr == Slot(j, pc) IN
    CASE NoProbe -> "none"
      [] ~NoProbe /\ ~compiled_head_at(j, pc, cpu.type) -> "candidate"
      [] ~NoProbe /\ compiled_head_at(j, pc, cpu.type) ->
            IF WatchedInside(tr) THEN "none"
            ELSE IF tr.window /\ env.win = {} THEN "skip"
            ELSE CASE FirstStale(tr.ops) = 0 -> IF Fits(tr) THEN "enter" ELSE "none"
                   [] FirstStale(tr.ops) # 0 ->
                        IF mem[tr.ops[FirstStale(tr.ops)].pc].k = "bad" THEN "none"
                        ELSE IF FirstStale(tr.ops) = 1 THEN "miss" ELSE "stale"

TryExecute(after, single, chain) ==
    \E o \in {ProbeOutcome} :
      IF o = "enter" THEN EnterTrace(Slot(j, pc), single, chain)
      ELSE NotRun(CASE o = "none" -> j
                    [] o = "candidate" -> ProbeCandidate(j, pc, cpu.type)
                    [] o = "skip" -> push_probe_skip(j, pc)
                    [] o \in {"miss", "stale"} -> Invalidate(j, pc),
                  IF o = "miss" THEN "disp" ELSE after)

Probing == probe /\ left >= TRACE_MIN_OPS
Probe ==
    /\ ph = "loop" /\ env.fast /\ left > 0 /\ Probing
    /\ probe' = FALSE
    /\ TryExecute("interp", pc \in watch, TRACE_EXIT_CHAIN_BUDGET)
    /\ UNCHANGED <<call, exit>>
\* A side exit onto a compiled head
Chain ==
    /\ ph = "chain"
    /\ TryExecute("ran", FALSE, x.chain)
    /\ UNCHANGED <<call, probe, exit>>

\* guard_store_not_code: the caller's and the callee's bytes
store_hits_code_Head(tr, a) == a = tr.pc
store_hits_code(tr, a) == a \in tr.spans

\* What the executor's checks refuse; nothing of the operation is committed
Bails(tr, o) ==
    CASE o.top = "trap" -> TRUE
      [] o.top = "mem" -> o.ins.t \notin env.win \/ (o.ins.k = "st" /\ store_hits_code(tr, o.ins.t))
      [] o.top = "call" -> Before(cpu.sp) \notin env.win \/ store_hits_code(tr, Before(cpu.sp))
      [] o.top = "jsr" -> Before(cpu.sp) \notin env.win
      [] o.top = "ret" -> cpu.sp \notin env.win
      [] o.top = "rtsret" -> cpu.sp \notin env.win \/ mem[cpu.sp].t # o.exp
      [] OTHER -> FALSE
SetsPc(o) == o.top \in {"branch", "jmp", "dbcc", "jsr", "ret"}

\* The link-exit tail: an operation that is no terminal does not set PC
LinkPc(tr) == After(Last(tr.ops).pc)

\* One operation of the running trace, as recorded: memory is not read for it
TraceOp ==
    LET tr == Slot(j, x.head)
        o == tr.ops[x.i]
        to == Target(o.ins, o.pc, cpu, mem)
        n == IF o.top = "condskip" /\ cpu.f THEN x.i + 1 + o.skip ELSE x.i + 1
        last == n > Len(tr.ops)
        out == IF last /\ ~ends_trace(Last(tr.ops)) THEN LinkPc(tr)
               ELSE IF SetsPc(o) THEN to ELSE pc
        guard == Guarded(o) /\ to # o.exp
        again == last /\ ~guard /\ x.full + 1 < x.max /\ out = x.head
    IN
    /\ ph = "trace" /\ ~Bails(tr, o)
    /\ cpu' = (IF o.top = "condskip" THEN cpu ELSE Registers(o.ins, o.pc, cpu, mem))
    /\ mem' = Stored(o.ins, o.pc, cpu, mem)
    /\ pc' = (IF guard THEN to ELSE out)
    /\ left' = left - 1 /\ fresh' = FALSE
    /\ ph' = IF guard \/ (last /\ ~again) THEN "leave" ELSE "trace"
    /\ x' = [x EXCEPT !.ran = TRUE, !.i = IF again THEN 1 ELSE IF guard \/ last THEN x.i ELSE n,
                      !.full = IF last /\ ~guard THEN @ + 1 ELSE @,
                      !.how = IF guard THEN "guard" ELSE IF last /\ ~again THEN "complete" ELSE @]
    /\ UNCHANGED <<j, call, probe, exit>>
TraceBail ==
    LET tr == Slot(j, x.head) IN
    /\ ph = "trace" /\ Bails(tr, tr.ops[x.i])
    /\ pc' = tr.ops[x.i].pc /\ ph' = "leave" /\ x' = [x EXCEPT !.how = "bail"]
    /\ UNCHANGED <<cpu, mem, left, fresh, j, call, probe, exit>>

\* is_guarded_branch_exit reads ppc, which a bail leaves as it was: the bail may
\* look like the side exit of any guard whose other successor it stopped at
LooksGuarded(tr) ==
    \E n \in 1..Len(tr.ops) : Guarded(tr.ops[n]) /\
        IF tr.ops[n].top = "jmp" THEN pc # tr.ops[n].exp
        ELSE pc \in {tr.ops[n].ins.t, After(tr.ops[n].pc)} \ {tr.ops[n].exp}

\* The accounting of an adaptive trace: <<slot, whether to record again>>
Adapted(tr, guarded) ==
    LET calls == tr.calls + x.full + (IF x.how = "complete" THEN 0 ELSE 1)
        exits == tr.exits + (IF guarded THEN 1 ELSE 0)
    IN IF ~tr.adaptive THEN <<tr, FALSE>>
       ELSE IF calls < TRACE_ADAPT_WINDOW
            THEN <<[tr EXCEPT !.calls = calls, !.exits = exits], FALSE>>
       ELSE <<[tr EXCEPT !.calls = 0, !.exits = 0],
              exits >= TRACE_ADAPT_MISMATCHES
              /\ exits * TRACE_ADAPT_WINDOW >= calls * TRACE_ADAPT_MISMATCHES>>
Rerecord(q, tr) ==
    rearm_filters(SetSlot(q, tr.pc, Counting(tr.pc, tr.type, 0, tr.again + 1,
                                             has_call_permission(q, tr.pc), FALSE, FALSE)))

\* The exit of a trace that ran: continuation, chain or new recording
SeedExit(q, tr, guarded) ==
    LET complete == x.how = "complete"
        seeds == guarded \/ (complete /\ (compiled_head_at(q, pc, tr.type) \/ Last(tr.ops).top = "ret"))
        seed == note_trace_exit(q, pc, tr.type, pc \in watch)
    IN IF seeds /\ ~x.single /\ x.chain > 0 /\ pc # x.head
       THEN /\ j' = seed[1]
            /\ ph' = IF seed[2] = "chain" THEN "chain" ELSE "ran"
            /\ x' = IF seed[2] = "chain" THEN [NoRun EXCEPT !.chain = x.chain - 1] ELSE NoRun
       ELSE j' = q /\ ph' = "ran" /\ x' = NoRun
\* A trace that bailed on its first operation has not run: its instruction is
\* interpreted, unless an earlier trace of the chain ran
AfterEmptyRun_Ran == "ran"
AfterEmptyRun == IF x.chain = TRACE_EXIT_CHAIN_BUDGET THEN "interp" ELSE "ran"
LeaveTrace ==
    LET tr == Slot(j, x.head) IN
    /\ ph = "leave"
    /\ \E guarded \in {x.how = "guard"} \cup
                      (IF x.how = "bail" /\ LooksGuarded(tr) THEN BOOLEAN ELSE {x.how = "guard"}) :
       \E a \in {Adapted(tr, guarded)} :
         IF ~x.ran
         THEN /\ j' = SetSlot(j, x.head, a[1]) /\ x' = NoRun
              /\ ph' = AfterEmptyRun
         ELSE \E q \in {IF a[2] THEN Rerecord(j, tr) ELSE SetSlot(j, x.head, a[1])} :
                SeedExit(q, tr, guarded)
    /\ UNCHANGED <<guest, call, probe, exit>>

\* try_execute returned Ran
RanWatched ==
    /\ ph = "ran" /\ pc \in watch
    /\ Leaves("watched") /\ UNCHANGED <<pc, cpu, mem, x, j, resume>>
RanOn ==
    /\ ph = "ran" /\ pc \notin watch
    /\ probe' = TRUE /\ ph' = "loop" /\ UNCHANGED <<guest, x, j, call, exit>>

-----------------------------------------------------------------------------
(* Interpreted instructions *)

\* Cells the decoded memory path must find in the window
Touched(i) ==
    (IF i.k \in {"st", "cmpm", "dbcc", "jmp"} THEN {pc} ELSE {})
    \cup (IF i.k \in {"st", "cmpm"} THEN {i.t} ELSE {})
    \cup (IF i.k \in {"jsr", "bsr"} THEN {Before(cpu.sp)} ELSE {})
    \cup (IF i.k = "rts" THEN {cpu.sp} ELSE {})
Simple(i) == i.k \in {"op", "bcc"}
MemOp(i) == i.k \in {"st", "cmpm", "dbcc", "jmp", "jsr", "bsr", "rts"}

\* Only the wrap of the small address space takes any other instruction back
Transfers(i) == i.k \in {"bcc", "dbcc", "jmp", "jsr", "bsr", "rts"}

\* The guest executes i at pc
Executes(i) ==
    /\ pc' = Target(i, pc, cpu, mem) /\ cpu' = Registers(i, pc, cpu, mem)
    /\ mem' = Stored(i, pc, cpu, mem) /\ left' = left - 1 /\ fresh' = FALSE

\* The end of an iteration
Iterated(q, again) ==
    j' = q /\ probe' = again /\ UNCHANGED exit /\ ph' = IF pc' \in watch THEN "watched" ELSE "loop"
\* A watched PC closes the recording and returns
WatchedPc ==
    /\ ph = "watched"
    /\ j' = stop_recording(j, pc) /\ Leaves("watched")
    /\ UNCHANGED <<pc, cpu, mem, x, resume>>

Decoding == ph = "interp" \/ (ph = "loop" /\ env.fast /\ left > 0 /\ ~Probing)

DecodedOp ==
    LET i == mem[pc] IN
    /\ Decoding /\ (Simple(i) \/ (MemOp(i) /\ Touched(i) \subseteq env.win))
    /\ Executes(i)
    /\ \E q \in {record_executed(j, pc, pc', i, mem', cpu.type)} :
       \E b \in {IF Transfers(i) /\ pc' <= pc THEN note_backward_branch(q, pc', cpu.type)
                 ELSE <<q, probe>>} :
         Iterated(b[1], b[2])
    /\ UNCHANGED <<call, x>>
\* Anything else goes to the full dispatcher; a memory operation outside the
\* window ends the recording first
DecodedMiss ==
    LET i == mem[pc] IN
    /\ Decoding /\ i.k # "bad" /\ ~Simple(i) /\ ~(MemOp(i) /\ Touched(i) \subseteq env.win)
    /\ ph' = "disp" /\ j' = IF MemOp(i) THEN stop_recording(j, After(pc)) ELSE j
    /\ UNCHANGED <<guest, call, probe, exit, x>>

Dispatching == ph = "disp" \/ (ph = "loop" /\ ~env.fast /\ left > 0)

\* The fetch faults: the handler is entered with the recording as it is
FetchFault ==
    /\ Decoding \/ (Dispatching /\ ph # "disp")
    /\ mem[pc].k = "bad"
    /\ pc' = Vector /\ cpu' = Registers(mem[pc], pc, cpu, mem) /\ mem' = Stored(mem[pc], pc, cpu, mem)
    /\ ph' = "loop" /\ probe' = TRUE
    /\ UNCHANGED <<left, fresh, call, exit, x, j>>

Dispatch ==
    LET i == mem[pc] IN
    /\ Dispatching /\ i.k \notin {"al", "tr", "bad", "flt"}
    /\ Executes(i)
    /\ \E q \in {record_executed(j, pc, pc', i, mem', cpu.type)} :
       \E b \in {IF Transfers(i) /\ pc' <= pc THEN note_backward_branch(q, pc', cpu.type) ELSE <<q, FALSE>>} :
         Iterated(b[1], b[2])
    /\ UNCHANGED <<call, x>>
DispatchFault ==
    LET i == mem[pc] IN
    /\ Dispatching /\ i.k = "flt" /\ Executes(i)
    /\ Iterated(stop_recording(j, Vector), TRUE)
    /\ UNCHANGED <<call, x>>
AlineTrap ==
    /\ Dispatching /\ mem[pc].k = "al"
    /\ pc' = After(pc) /\ j' = finish_recording_at_trap(j, pc, mem[pc])
    /\ resume' = IF CompiledToTrap(j, j', pc) THEN After(pc) ELSE resume
    /\ Leaves("al") /\ UNCHANGED <<cpu, mem, x>>
OtherTrap ==
    /\ Dispatching /\ mem[pc].k = "tr"
    /\ pc' = After(pc) /\ j' = stop_recording(j, After(pc)) /\ Leaves("tr")
    /\ UNCHANGED <<cpu, mem, x, resume>>

Host ==
    \/ \E p \in Patches : HostPatch(p)
    \/ \E y \in NewerTypes(cpu) : SetCpuType(y)
    \/ \E c \in Calls, n \in Envs : \E e \in Entries \cup {[pc |-> pc, sp |-> cpu.sp]} : RunBatch(c, e, n)
Engine ==
    \/ BudgetExhausted \/ Probe \/ Chain \/ TraceOp \/ TraceBail \/ LeaveTrace
    \/ RanWatched \/ RanOn \/ DecodedOp \/ DecodedMiss \/ WatchedPc \/ FetchFault
    \/ Dispatch \/ DispatchFault \/ AlineTrap \/ OtherTrap
Next == Host \/ Engine
Spec == Init /\ [][Next]_vars
\* run_batch is one call of the host's: it does not stop half-way
FairSpec == Spec /\ WF_vars(Engine)

-----------------------------------------------------------------------------
\* Where the guest is: inside a trace PC is not written, the operation says it
GuestPc == IF ph = "trace" THEN Slot(j, x.head).ops[x.i].pc ELSE pc
Contract == INSTANCE BatchContract WITH pc <- GuestPc,
                mode <- IF ph = "host" THEN "host" ELSE "run"

\* try_execute, record_executed and the loop around them are invisible to the
\* guest and to the host: what run_batch retires, where it stops and what it
\* leaves is what executing the instructions one by one from memory would
Implements == Contract!Spec

\* A durable verdict and a compiled trace of the same head exclude each other
\* (record_trace_target, finish_recording and the side tables)
VerdictExcludesTrace ==
    \A p \in Addr, y \in CpuTypes : is_structurally_rejected(j, p) => ~compiled_head_at(j, p, y)

\* The state is well formed: no instruction is retired beyond the budget, a
\* running trace is at one of its operations, and slots and verdicts agree
TypeOK ==
    /\ pc \in Addr /\ cpu \in Cpus /\ mem \in [Addr -> Instr] /\ left \in Nat
    /\ fresh \in BOOLEAN /\ watch \subseteq Addr /\ ph \in Phases /\ probe \in BOOLEAN
    /\ exit \in {"none", "budget", "watched", "al", "tr"} /\ resume \in Addr \cup {NoPc}
    /\ (ph = "trace" => x.i \in 1..Len(Slot(j, x.head).ops))
    /\ VerdictExcludesTrace

\* The operations a running trace has still to execute are the instructions
\* memory holds now
TraceCurrent ==
    ph = "trace" => \A n \in x.i..Len(Slot(j, x.head).ops) :
                        mem[Slot(j, x.head).ops[n].pc] = Slot(j, x.head).ops[n].ins

\* The path a recording names is one the guest can take: after an operation that
\* does not transfer control comes the next instruction, never a handler's; and
\* none is open while the host has control, which may resume the guest anywhere
RecordingSound ==
    j.rec # None =>
        /\ ph # "host"
        /\ j.rec.ops # <<>> => Head(j.rec.ops).pc = j.rec.start
        /\ \A n \in 1..(Len(j.rec.ops) - 1) :
              j.rec.ops[n].top \in {"plain", "mem"} => j.rec.ops[n + 1].pc = After(j.rec.ops[n].pc)

\* A trace that completes without a terminal of its own was compiled because its
\* recorded exit is the head of another: that is where it leaves the guest
LinkExit ==
    LET tr == Slot(j, x.head) IN
    ph = "leave" /\ x.how = "complete" /\ ~ends_trace(Last(tr.ops)) =>
        pc = CASE Last(tr.ops).top = "call" -> Last(tr.ops).ins.t
               [] Last(tr.ops).top = "rtsret" -> Last(tr.ops).exp
               [] OTHER -> After(Last(tr.ops).pc)

\* A trace that bails on its first operation, a chain, a re-recording and a probe
\* all retire nothing; a call nevertheless comes back to its host
CallReturns == (ph # "host") ~> (ph = "host")
=============================================================================
