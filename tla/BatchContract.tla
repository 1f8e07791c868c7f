--------------------------- MODULE BatchContract ---------------------------
(***************************************************************************)
(* What run_batch promises its host: the guest's instructions are executed *)
(* one after another from the memory as it is when each is fetched, at most *)
(* max_instructions of them, and a watched PC is reported before the       *)
(* instruction at it executes.  There is no trace cache here; TraceJit is  *)
(* shown to implement this module.                                         *)
(***************************************************************************)
EXTENDS Guest

VARIABLES
    pc, cpu,     \* cpu: [r, f, sp, type]
    mem,
    mode,        \* "host" between calls, "run" inside one
    left,        \* instructions the call may still retire
    fresh,       \* no instruction has been retired in this call
    watch,       \* the call's watch list
    exit         \* how the last call ended
guestvars == <<pc, cpu, mem, mode, left, fresh, watch, exit>>

ReportWatch == ~fresh /\ pc \in watch

-----------------------------------------------------------------------------
Init ==
    /\ \E b \in Boots, y \in CpuTypes :
         mem = b.mem /\ pc = b.pc /\ cpu = [r |-> 0, f |-> FALSE, sp |-> b.sp, type |-> y]
    /\ mode = "host" /\ left = 0 /\ fresh = TRUE /\ watch = {} /\ exit = "none"

\* The host rewrites a cell of guest memory
HostPatch(p) ==
    /\ mode = "host"
    /\ mem' = [mem EXCEPT ![p[1]] = p[2]]
    /\ UNCHANGED <<pc, cpu, mode, left, fresh, watch, exit>>

\* The host selects another model
SetCpuType(y) ==
    /\ mode = "host"
    /\ cpu' = [cpu EXCEPT !.type = y]
    /\ UNCHANGED <<pc, mem, mode, left, fresh, watch, exit>>

\* run_batch is called
RunBatch(c, e) ==
    /\ mode = "host"
    /\ mode' = "run" /\ left' = c.max /\ watch' = c.watch /\ fresh' = TRUE
    /\ pc' = e.pc /\ cpu' = [cpu EXCEPT !.sp = e.sp] /\ exit' = "none"
    /\ UNCHANGED mem

\* One instruction
Step ==
    /\ mode = "run" /\ left > 0 /\ ~ReportWatch
    /\ mem[pc].k \notin {"al", "tr", "bad"}
    /\ pc' = Target(mem[pc], pc, cpu, mem)
    /\ cpu' = Registers(mem[pc], pc, cpu, mem)
    /\ mem' = Stored(mem[pc], pc, cpu, mem)
    /\ left' = left - 1 /\ fresh' = FALSE
    /\ UNCHANGED <<mode, watch, exit>>

\* The fetch faults: the handler runs, nothing is retired
FetchFault ==
    /\ mode = "run" /\ left > 0 /\ ~ReportWatch
    /\ mem[pc].k = "bad"
    /\ pc' = Target(mem[pc], pc, cpu, mem)
    /\ cpu' = Registers(mem[pc], pc, cpu, mem)
    /\ mem' = Stored(mem[pc], pc, cpu, mem)
    /\ UNCHANGED <<mode, left, fresh, watch, exit>>

\* The call returns, and its arguments are gone
Leaves(how) ==
    mode' = "host" /\ exit' = how /\ left' = 0 /\ fresh' = TRUE /\ watch' = {}

\* A trap surfaces to the host with PC after its word
Trap ==
    /\ mode = "run" /\ left > 0 /\ ~ReportWatch
    /\ mem[pc].k \in {"al", "tr"}
    /\ pc' = After(pc) /\ Leaves(mem[pc].k)
    /\ UNCHANGED <<cpu, mem>>

\* The call ends at a watched PC, which outranks an exhausted budget
Return ==
    /\ mode = "run" /\ (left = 0 \/ ReportWatch)
    /\ Leaves(IF ReportWatch THEN "watched" ELSE "budget")
    /\ UNCHANGED <<pc, cpu, mem>>

Next ==
    \/ \E p \in Patches : HostPatch(p)
    \/ \E y \in NewerTypes(cpu) : SetCpuType(y)
    \/ \E c \in Calls : \E e \in Entries \cup {[pc |-> pc, sp |-> cpu.sp]} : RunBatch(c, e)
    \/ Step \/ FetchFault \/ Trap \/ Return

Spec == Init /\ [][Next]_guestvars
=============================================================================
