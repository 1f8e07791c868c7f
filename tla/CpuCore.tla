------------------------------ MODULE CpuCore ------------------------------
(***************************************************************************)
(* The precise execution engine of m68k-rs: CpuCore::step and              *)
(* CpuCore::execute over an AddressBus that may fault, with the two-word   *)
(* prefetch queue of the 68000/68010, the banked stack pointers, trace,    *)
(* interrupts, exception entry, rollback of a faulted instruction, the     *)
(* re-assertion of the handler-entry state, and the double-fault halt.     *)
(*                                                                         *)
(* A Rust method "fn f(&mut self, bus)" is an operator from machine to     *)
(* machine with the same name.  The machine record m holds CpuCore's       *)
(* fields and the bus it is wired to.  Data is abstracted:                 *)
(*   - D0-D7/A0-A6 are one cell dar.r, counted modulo RegMod; A7 is        *)
(*     dar.a7, a byte address;                                             *)
(*   - a queued instruction word is the ADDRESS it was read from, so the   *)
(*     queue says where its contents come from;                            *)
(*   - an exception frame is one record of m.stk with its size in bytes;   *)
(*   - the bus faults by region: an access to a region in m.bad fails.     *)
(***************************************************************************)
EXTENDS Integers, Sequences, FiniteSets

CONSTANTS
    Scenarios,   \* the hosts explored: CPU models, guest programs and status
                 \* registers they boot, bus regions they may unmap, interrupt
                 \* levels they may assert, and the run loops they call
    MaxDepth     \* bound: bytes of a supervisor stack the run may use

Models == {"M68000", "M68010", "M68020", "M68030", "M68040", "M68060"}
Regions == {"user", "isp", "msp", "vec", "code", "code2", "resident",
            "handler", "data"}

Levels == 0..7   \* interrupt priority levels
RegMod == 3      \* bound on the abstract register file and the data cell
UserBase == 1000
IspBase  == 2000
MspBase  == 3000
Origin   == 16   \* first word of the user program
UserCode == { 16, 18, 20, 22 }   \* its words; a page boundary runs before 20
Subroutine == 200

Normal == "NORMAL"
Fault  == "BERR_AERR_RESET"
NoResume == [pc |-> -1]

(* Exception vectors (exceptions.rs, mod vector). *)
BUS_ERROR == 2
ADDRESS_ERROR == 3
ZERO_DIVIDE == 5
PRIVILEGE_VIOLATION == 8
TRACE == 9
LINE_1010 == 10
TRAP_BASE == 32
Handler(v) == 400 + 4 * v

----------------------------------------------------------------------------
(* Model predicates *)
is_pre_68020(m) == m.cpu_type \in {"M68000", "M68010"}
prefetch_enabled(m) == m.cpu_type \in {"M68000", "M68010"}
faulted(m) == m.run_mode = Fault
is_halted(m) == m.stopped # 0 /\ m.run_mode = Fault
is_stopped(m) == m.stopped # 0 /\ m.run_mode # Fault
Odd(a) == a % 2 = 1

\* The region of an instruction-stream address
CodeRegion(a) == IF a < Origin THEN "vec" ELSE IF a < 20 THEN "code"
                 ELSE IF a < Handler(0) THEN "code2"
                 ELSE IF a < Handler(ADDRESS_ERROR) THEN "resident" ELSE "handler"

StackRegion(a) == IF a > IspBase THEN "msp" ELSE IF a > UserBase THEN "isp" ELSE "user"

----------------------------------------------------------------------------
(* Status register and stack-pointer banks *)
SR == [s : BOOLEAN, m : BOOLEAN, t1 : BOOLEAN, t0 : BOOLEAN, i : Levels]

get_sr(m) == m.sr

\* sr & sr_mask, and M cleared when S is clear
SrMasked(m, sr) ==
    [sr EXCEPT !.m = @ /\ sr.s /\ ~is_pre_68020(m),
               !.t0 = @ /\ ~is_pre_68020(m) /\ m.cpu_type # "M68060"]

sp_index(m) ==
    IF ~m.sr.s THEN 0
    ELSE IF m.sr.m /\ m.cpu_type # "M68060" THEN 6 ELSE 4

\* backup_sp; f; restore_sp
Rebank(m, sr) ==
    LET saved == [m EXCEPT !.sp[sp_index(m)] = m.dar.a7, !.sr = sr]
    IN  [saved EXCEPT !.dar.a7 = saved.sp[sp_index(saved)]]

set_sr(m, sr) == Rebank(m, SrMasked(m, sr))
set_sr_noint_nosp(m, sr) == [m EXCEPT !.sr = SrMasked(m, sr)]
set_s_flag(m) == Rebank(m, [m.sr EXCEPT !.s = TRUE])

Untraced(m) == [m EXCEPT !.sr = [m.sr EXCEPT !.t1 = FALSE, !.t0 = FALSE]]

\* Supervisor state, trace off: the common head of every exception entry
EnterSupervisor(m) == Untraced(set_s_flag(m))

----------------------------------------------------------------------------
(* The prefetch queue and the vector fetch, whose reads may fault.  T is what *)
(* a fault then triggers: trigger_bus_error or, while one is being delivered, *)
(* the double fault                                                           *)
PrefetchFirst(m, T(_)) ==
    IF ~prefetch_enabled(m) THEN m
    ELSE LET e == [m EXCEPT !.queue = <<>>]
         IN  IF Odd(m.pc) THEN e
             ELSE IF CodeRegion(m.pc) \in m.bad THEN T(e)
             ELSE [e EXCEPT !.queue = <<m.pc>>]

PrefetchSecond(m, T(_)) ==
    IF ~prefetch_enabled(m) \/ Len(m.queue) # 1 \/ Odd(m.pc) \/ faulted(m) THEN m
    ELSE IF CodeRegion(m.pc + 2) \in m.bad THEN T(m)
    ELSE [m EXCEPT !.queue = Append(@, m.pc + 2)]

FullPrefetch(m, T(_)) == PrefetchSecond(PrefetchFirst(m, T), T)

\* The vector fetch, then the refill from the handler
JumpVector(m, v, T(_)) ==
    LET r == IF faulted(m) THEN [m EXCEPT !.pc = 0]
             ELSE IF "vec" \in m.bad THEN [T(m) EXCEPT !.pc = 0]
             ELSE [m EXCEPT !.pc = Handler(v)]
    IN  FullPrefetch(r, T)

----------------------------------------------------------------------------
(* Stack frames *)
Frame(fmt, v, pc, sr) == [fmt |-> fmt, vec |-> v, pc |-> pc, sr |-> sr]

FrameBytes(m, fmt) ==
    CASE fmt = "ret" -> 4
      [] fmt = "group0" -> 14
      [] fmt = "0" -> IF m.cpu_type = "M68000" THEN 6 ELSE 8
      [] fmt = "1" -> 8
      [] fmt = "2" -> 12
      [] fmt = "4" -> 16
      [] fmt = "7" -> 60
      [] fmt = "8" -> 58
      [] fmt = "B" -> 92

Overlaps(c, a, n) == c.at < a + n /\ a < c.at + c.n

\* The memory write of a whole frame below A7.  The 68000 group-0 frame is
\* pushed status first, so its low 8 bytes hold PC, SR and IR and the 6 above
\* them the access address and the status word.
Store(m, f) ==
    LET n == FrameBytes(m, f.fmt)
        a == m.dar.a7 - n
        cells == IF f.fmt = "group0"
                 THEN { [at |-> a, n |-> 8, f |-> [f EXCEPT !.fmt = "pc_sr_ir"]],
                        [at |-> a + 8, n |-> 6, f |-> [f EXCEPT !.fmt = "address_status"]] }
                 ELSE { [at |-> a, n |-> n, f |-> f] }
    IN  [m EXCEPT !.dar.a7 = a,
                  !.stk = { c \in @ : ~Overlaps(c, a, n) } \cup cells]

\* push_16_raw / push_32_raw: bus.write_word with no checks and no fault result
PushRaw(m, f) == Store(m, f)

\* A whole frame through push_16/push_32 (write_16/write_32): writes are
\* suppressed in the fault run mode while A7 keeps stepping
Push(m, f, T(_)) ==
    LET below(x) == [x EXCEPT !.dar.a7 = @ - FrameBytes(m, f.fmt)]
    IN  IF faulted(m) THEN below(m)
        ELSE IF StackRegion(m.dar.a7 - 1) \in m.bad THEN below(T(m))
        ELSE Store(m, f)

----------------------------------------------------------------------------
(* Faults *)

\* Mutant: a double fault that forgets to park the CPU
DoubleFault_NotParked(m) ==
    IF faulted(m) THEN m ELSE [m EXCEPT !.run_mode = Fault, !.nested = TRUE]

\* trigger_bus_error while exception_processing is set
DoubleFault(m) ==
    IF faulted(m) THEN m
    ELSE [m EXCEPT !.stopped = 1, !.run_mode = Fault, !.nested = TRUE]

BusErrorFormat(m) ==
    CASE m.cpu_type = "M68000" -> "group0"
      [] m.cpu_type = "M68010" -> "8"
      [] m.cpu_type = "M68060" -> "4"
      [] m.cpu_type = "M68040" -> "7"
      [] OTHER -> "B"

\* Called with exception_processing set: any further fault is a double fault
PushFaultFrame(m, f) == IF is_pre_68020(m) THEN PushRaw(m, f) ELSE Push(m, f, DoubleFault)
exception_bus_error(m) ==
    LET f == Frame(BusErrorFormat(m), BUS_ERROR, m.ppc, m.sr)
    IN  JumpVector(PushFaultFrame(EnterSupervisor(m), f), BUS_ERROR, DoubleFault)

\* Mutant: the SR is rolled back, the D/A registers are not
Rollback_SrOnly(m) == set_sr_noint_nosp(m, m.sr_save)

\* Undo the register side effects of the instruction at ppc
Rollback(m) == [set_sr_noint_nosp(m, m.sr_save) EXCEPT !.dar = m.dar_save]

Resume(m) == [pc |-> m.pc, sr |-> get_sr(m), dar |-> m.dar]

\* The delivery is over: its entry state is kept for end_faulted_instruction
Delivered(m) ==
    [m EXCEPT !.exception_processing = FALSE, !.fault_resume = Resume(m), !.run_mode = Fault]

trigger_bus_error(m) ==
    IF faulted(m) THEN m
    ELSE IF m.exception_processing THEN DoubleFault(m)
    ELSE Delivered(exception_bus_error([Rollback(m) EXCEPT !.exception_processing = TRUE]))

\* push_16 / push_32, the prefetch queue and the vector fetch outside a delivery
PushFrame(m, f) == Push(m, f, trigger_bus_error)
prefetch_first(m) == PrefetchFirst(m, trigger_bus_error)
prefetch_second(m) == PrefetchSecond(m, trigger_bus_error)
full_prefetch(m) == prefetch_second(prefetch_first(m))
jump_vector(m, v) == JumpVector(m, v, trigger_bus_error)

top_up_prefetch_one(m) ==
    IF ~prefetch_enabled(m) \/ Odd(m.pc) \/ Len(m.queue) >= 2 \/ faulted(m) THEN m
    ELSE IF CodeRegion(m.pc + 2 * Len(m.queue)) \in m.bad THEN trigger_bus_error(m)
    ELSE [m EXCEPT !.queue = Append(@, m.pc + 2 * Len(m.queue))]

top_up_prefetch(m) ==
    IF m.stopped # 0 THEN m ELSE top_up_prefetch_one(top_up_prefetch_one(m))

AddressErrorFormat(m) ==
    CASE m.cpu_type = "M68000" -> "group0"
      [] m.cpu_type = "M68010" -> "8"
      [] m.cpu_type = "M68040" -> "2"
      [] OTHER -> "0"

exception_address_error(m) ==
    LET x == EnterSupervisor(m)
        y == PushRaw(x, Frame(AddressErrorFormat(m), ADDRESS_ERROR, m.ppc, m.sr))
    IN  jump_vector(y, ADDRESS_ERROR)

AddressErrorDelivered(m) ==
    [m EXCEPT !.fault_resume = Resume(m), !.run_mode = Fault, !.nested = @ \/ faulted(m)]
trigger_address_error(m) ==
    IF faulted(m) THEN m ELSE AddressErrorDelivered(exception_address_error(Rollback(m)))

\* Close out an instruction that faulted mid-execution
end_faulted_instruction(m) ==
    LET x == IF m.fault_resume = NoResume THEN m
             ELSE [set_sr_noint_nosp(m, m.fault_resume.sr) EXCEPT
                      !.pc = m.fault_resume.pc, !.dar = m.fault_resume.dar,
                      !.fault_resume = NoResume]
    IN  IF x.stopped # 0 THEN x ELSE [x EXCEPT !.run_mode = Normal]

----------------------------------------------------------------------------
(* Exception entry *)
StacksNextPc(v) == v \in {ZERO_DIVIDE, TRACE} \cup (24..31) \cup (TRAP_BASE..(TRAP_BASE + 15))

\* Mutant: the latch is left set when the exception has been taken
take_exception_Latched(m, v) ==
    IF m.exception_processing THEN [DoubleFault(m) EXCEPT !.stopped = 1]
    ELSE LET x == EnterSupervisor([m EXCEPT !.exception_processing = TRUE])
             pc == IF StacksNextPc(v) THEN m.pc ELSE m.ppc
             y == PushFrame(x, Frame("0", v, pc, m.sr))
         IN  jump_vector(y, v)

take_exception(m, v) ==
    IF m.exception_processing THEN [DoubleFault(m) EXCEPT !.stopped = 1]
    ELSE LET x == EnterSupervisor([m EXCEPT !.exception_processing = TRUE])
             pc == IF StacksNextPc(v) THEN m.pc ELSE m.ppc
             y == PushFrame(x, Frame("0", v, pc, m.sr))
         IN  [jump_vector(y, v) EXCEPT !.exception_processing = FALSE]

take_group2_exception(m, v) ==
    LET x == EnterSupervisor(m)
        fmt == IF is_pre_68020(m) THEN "0" ELSE "2"
    IN  jump_vector(PushFrame(x, Frame(fmt, v, m.pc, m.sr)), v)

\* Mutant: the STOP bit is subtracted instead of masked off
exception_trace_Subtracts(m) ==
    take_group2_exception([m EXCEPT !.stopped = @ - 1], TRACE)

exception_trace(m) ==
    take_group2_exception([m EXCEPT !.stopped = IF @ % 2 = 1 THEN @ - 1 ELSE @], TRACE)

exception_privilege(m) == take_exception(m, PRIVILEGE_VIOLATION)

\* Mutant: T0 ignored
check_trace_T1Only(m) == m.sr_save.t1

check_trace(m) == m.sr_save.t1 \/ (m.sr_save.t0 /\ m.change_of_flow)

----------------------------------------------------------------------------
(* Interrupts *)
Serviceable(m) == m.int_level = 7 \/ m.int_level > m.sr.i

\* In master mode the 68020-68040 switch to the interrupt stack and push a
\* throwaway copy of the frame, its SR with S set; the 68060 only clears M
ToInterruptStack(m, f) ==
    IF ~m.sr.m \/ is_pre_68020(m) THEN m
    ELSE IF m.cpu_type = "M68060" THEN [m EXCEPT !.sr.m = FALSE]
    ELSE PushFrame(Rebank(m, [m.sr EXCEPT !.s = TRUE, !.m = FALSE]),
                   [f EXCEPT !.fmt = "1", !.sr.s = TRUE])

\* x is the CPU in supervisor state, f the frame to stack
EnterInterrupt(x, f) == jump_vector(ToInterruptStack(PushFrame(x, f), f), f.vec)

\* Mutants: the retired instruction is stacked; the stop level is not cleared
service_interrupt_StacksPpc(m, level) ==
    [EnterInterrupt([EnterSupervisor(m) EXCEPT !.sr.i = level],
                    Frame("0", 24 + level, m.ppc, m.sr)) EXCEPT !.stopped = 0]
service_interrupt_StaysStopped(m, level) ==
    EnterInterrupt([EnterSupervisor(m) EXCEPT !.sr.i = level],
                   Frame("0", 24 + level, m.pc, m.sr))

service_interrupt(m, level) ==
    [EnterInterrupt([EnterSupervisor(m) EXCEPT !.sr.i = level],
                    Frame("0", 24 + level, m.pc, m.sr)) EXCEPT !.stopped = 0]

\* owed: interrupts acknowledged whose handler has not started (ghost)
check_and_service_interrupts(m) ==
    IF Serviceable(m)
    THEN [service_interrupt(m, m.int_level) EXCEPT
             !.int_level = 0, !.owed = @ \cup {m.int_level}]
    ELSE m

----------------------------------------------------------------------------
(* Instruction stream and stack reads *)

\* consume_imm_16_no_prefetch, read_imm_16: the next word w of the stream
ReadStream(m) ==
    IF Odd(m.pc) THEN [m |-> trigger_address_error(m), w |-> 0]
    ELSE IF m.queue # <<>>
    THEN [m |-> [m EXCEPT !.pc = @ + 2, !.queue = Tail(@)], w |-> Head(m.queue)]
    ELSE IF CodeRegion(m.pc) \in m.bad THEN [m |-> trigger_bus_error(m), w |-> 0]
    ELSE [m |-> [m EXCEPT !.pc = @ + 2], w |-> m.pc]

\* pull_16/pull_32 over the words at A7: only the access check, A7 not moved
StackRead(m) ==
    IF ~faulted(m) /\ StackRegion(m.dar.a7) \in m.bad THEN trigger_bus_error(m) ELSE m

CellsAt(m, fmts) == { c \in m.stk : c.at = m.dar.a7 /\ c.f.fmt \in fmts }

----------------------------------------------------------------------------
(* Instructions (dispatch_instruction).  Traps are surfaced to the caller.  *)
Traps == {"trap", "aline"}
Ops == Traps \cup {"rmw", "pinc", "nop", "jsr", "rts", "bra", "jodd", "div0", "rte",
                   "drop8", "stop", "stopu", "halt", "ext", "stray"}

ASSUME ScenariosAssumption ==
    Scenarios \subseteq [models : SUBSET Models, programs : SUBSET [UserCode -> Ops],
                         srs : SUBSET SR, faultable : SUBSET Regions,
                         irqs : SUBSET Levels, apis : SUBSET {"step", "hle", "execute"}]
ASSUME MaxDepthAssumption == MaxDepth \in Nat

\* The word at address w of the guest's code: its program, the subroutine, and
\* a handler per vector, an RTE (after dropping 4 words for a 68000 group-0 frame)
Group0Handler(m, w) ==
    m.cpu_type = "M68000" /\ w \in {Handler(BUS_ERROR), Handler(ADDRESS_ERROR)}
OpAt(m, w) ==
    IF w \in UserCode THEN m.prog[w]
    ELSE IF w < Handler(0)
         THEN CASE w = Subroutine -> "pinc" [] w = Subroutine + 2 -> "rts" [] OTHER -> "stray"
    ELSE IF Group0Handler(m, w) THEN "drop8"
    ELSE IF w % 4 = 0 \/ Group0Handler(m, w - 2) THEN "rte"
    ELSE "stray"

\* ADDQ #1,(A0): the final prefetch precedes the writeback
WriteBack(m) == IF faulted(m) THEN m ELSE [m EXCEPT !.data = (@ + 1) % RegMod]
rmw(m) ==
    WriteBack(top_up_prefetch(IF "data" \in m.bad THEN trigger_bus_error(m) ELSE m))

\* TST (A0)+: the register moves before the read that may fault
pinc(m) ==
    LET x == [m EXCEPT !.dar.r = (@ + 1) % RegMod]
    IN  IF "data" \in m.bad THEN trigger_bus_error(x) ELSE x

\* Mutant: a flow change without the refill
Jump_NoRefill(m, pc) == [m EXCEPT !.pc = pc, !.change_of_flow = TRUE]

Jump(m, pc) ==
    full_prefetch([m EXCEPT !.pc = pc, !.change_of_flow = TRUE])

Call(m) ==
    Jump(PushFrame(m, Frame("ret", 0, m.pc, m.sr)), IF faulted(m) THEN 0 ELSE Subroutine)
jsr(m) == Call(ReadStream(m).m)

\* The frame of one of the formats at A7
Top(m, fmts) == (CHOOSE c \in CellsAt(m, fmts) : TRUE).f

Return(m) ==
    IF ~faulted(m) /\ CellsAt(m, {"ret"}) = {} THEN [m EXCEPT !.astray = TRUE]
    ELSE Jump([m EXCEPT !.dar.a7 = @ + 4], IF faulted(m) THEN 0 ELSE Top(m, {"ret"}).pc)
rts(m) == Return(StackRead(m))

\* The formats RTE unwinds on each model; the 68000 frame carries no format
RteFormats(m) ==
    CASE m.cpu_type = "M68000" -> {"0"}
      [] m.cpu_type = "M68010" -> {"0", "8"}
      [] m.cpu_type = "M68040" -> {"0", "1", "2", "7"}
      [] m.cpu_type = "M68060" -> {"0", "1", "2", "4"}
      [] OTHER -> {"0", "1", "2", "B"}

ZeroSR == [s |-> FALSE, m |-> FALSE, t1 |-> FALSE, t0 |-> FALSE, i |-> 0]

\* Mutant: RTE leaves the address long of a format-2 frame on the stack
Unwind_Short2(m, f) ==
    LET n == IF f.fmt = "2" THEN 8 ELSE FrameBytes(m, f.fmt)
    IN  set_sr([m EXCEPT !.dar.a7 = @ + n, !.pc = IF f.fmt = "1" THEN @ ELSE f.pc], f.sr)

\* SR, PC, then the rest of the frame
Unwind(m, f) ==
    set_sr([m EXCEPT !.dar.a7 = @ + FrameBytes(m, f.fmt),
                     !.pc = IF f.fmt = "1" THEN @ ELSE f.pc], f.sr)

\* One turn of the RTE loop; suppressed reads return zeros: format 0, SR 0, PC 0
PopFrame(m) ==
    IF faulted(m) THEN Unwind(m, Frame("0", 0, 0, ZeroSR))
    ELSE IF CellsAt(m, RteFormats(m)) # {} THEN Unwind(m, Top(m, RteFormats(m)))
    ELSE [m EXCEPT !.astray = TRUE]
UnwindTop(m) == PopFrame(StackRead(m))

Throwaway(m) ==
    ~faulted(m) /\ StackRegion(m.dar.a7) \notin m.bad /\ "1" \in RteFormats(m)
    /\ CellsAt(m, {"1"}) # {}

rte(m) ==
    IF ~m.sr.s THEN exception_privilege(m)
    ELSE full_prefetch(UnwindTop(IF Throwaway(m) THEN UnwindTop(m) ELSE m))

\* STOP #sr; a faulted operand reads as 0
StopWith(m, sr) ==
    IF m.cpu_type = "M68060" /\ ~sr.s THEN exception_privilege([m EXCEPT !.ppc = m.pc])
    ELSE [set_sr(m, sr) EXCEPT !.stopped = 1]
Stop(m, s) == StopWith(m, IF faulted(m) THEN ZeroSR ELSE [ZeroSR EXCEPT !.s = s])
stop(m, s) == IF m.sr.s THEN Stop(ReadStream(m).m, s) ELSE exception_privilege(m)

\* The 68060 HALT instruction
halt060(m) == IF m.sr.s THEN [m EXCEPT !.stopped = 1] ELSE exception_privilege(m)

dispatch_instruction(m, op) ==
    CASE op = "rmw"   -> rmw(m)
      [] op = "pinc"  -> pinc(m)
      [] op = "nop"   -> m
      [] op = "jsr"   -> jsr(m)
      [] op = "rts"   -> rts(m)
      [] op = "bra"   -> Jump(m, Origin)
      [] op = "jodd"  -> Jump(m, Subroutine + 1)
      [] op = "div0"  -> take_group2_exception(m, ZERO_DIVIDE)
      [] op = "rte"   -> rte(m)
      [] op = "drop8" -> [m EXCEPT !.dar.a7 = @ + 8]
      [] op = "stop"  -> stop(m, TRUE)
      [] op = "stopu" -> stop(m, FALSE)
      [] op = "halt"  -> halt060(m)
      [] OTHER        -> [m EXCEPT !.astray = TRUE]

\* take_aline_exception, take_trap_exception
TakeTrap(m, op) ==
    IF op = "aline" THEN take_exception([m EXCEPT !.pc = m.ppc], LINE_1010)
    ELSE take_exception(m, TRAP_BASE)

----------------------------------------------------------------------------
(* Run loops *)

\* ppc, D/A and SR snapshots, then the opcode fetch
Started(f) == [f EXCEPT !.m.owed = { l \in @ : faulted(f.m) \/ Handler(24 + l) # f.w }]
FetchOpcode(m) ==
    Started(ReadStream([m EXCEPT !.ppc = m.pc, !.dar_save = m.dar, !.sr_save = get_sr(m)]))

\* End-of-instruction prefetch, trace, interrupts.  After a trace exception
\* step and step_with_hle_handler return without sampling interrupts.
Boundary(m, traced, sampleAfterTrace) ==
    LET x == IF traced THEN exception_trace(m) ELSE m
    IN  IF traced /\ ~sampleAfterTrace THEN x ELSE check_and_service_interrupts(x)
EndInstruction(m, sampleAfterTrace) ==
    Boundary([m EXCEPT !.change_of_flow = FALSE], check_trace(m), sampleAfterTrace)
Retire(m, sampleAfterTrace) == EndInstruction(top_up_prefetch(m), sampleAfterTrace)

Complete(m, sampleAfterTrace) ==
    IF faulted(m) THEN end_faulted_instruction(m) ELSE Retire(m, sampleAfterTrace)

\* Mutant: any stopped CPU wakes
SupervisorWake_AnyStop(m) == m.stopped = 1

\* A STOP that loaded an S-clear SR wakes into a privilege violation
SupervisorWake(m) == m.stopped = 1 /\ ~m.sr.s
stopped_supervisor_check(m) ==
    exception_privilege([m EXCEPT !.stopped = 0, !.ppc = m.pc - 4])

reset(m) ==
    [m EXCEPT !.stopped = 0, !.run_mode = Normal, !.queue = <<>>, !.pc = Origin,
              !.sr = [ZeroSR EXCEPT !.s = TRUE, !.i = 7],
              !.dar.a7 = IspBase, !.sp = [@ EXCEPT ![4] = IspBase, ![6] = IspBase]]

----------------------------------------------------------------------------
VARIABLES
    m,         \* CpuCore and its bus
    host,      \* the scenario, fixed at the start
    running,   \* inside an execute() call
    surfaced   \* the trap the last step() handed to the host, or "none"

vars == <<m, host, running, surfaced>>

Sp(b) == IF sp_index(m) = b THEN m.dar.a7 ELSE m.sp[b]

Banks == [b \in {0, 4, 6} |->
             IF b = 0 THEN UserBase ELSE IF b = 4 THEN IspBase ELSE MspBase]

\* The host's boot image: stacks, status register and the guest's counters
Boot(x, sr) ==
    LET y == [x EXCEPT !.sp = Banks, !.sr = SrMasked(x, sr)]
    IN  [y EXCEPT !.dar = [r |-> 0, a7 |-> Banks[sp_index(y)]],
                  !.data = 0, !.stk = {}, !.nested = FALSE, !.owed = {}, !.astray = FALSE]

PowerOn(type, p) ==
    [cpu_type |-> type, prog |-> p, pc |-> Origin, ppc |-> 0,
     dar |-> [r |-> 0, a7 |-> 0], dar_save |-> [r |-> 0, a7 |-> 0],
     sr |-> ZeroSR, sr_save |-> ZeroSR, sp |-> Banks,
     run_mode |-> Normal, stopped |-> 0, exception_processing |-> FALSE,
     fault_resume |-> NoResume, int_level |-> 0, queue |-> <<>>,
     change_of_flow |-> FALSE, stk |-> {}, bad |-> {}, data |-> 0,
     nested |-> FALSE, owed |-> {}, astray |-> FALSE]

Init ==
    /\ host \in Scenarios
    /\ \E type \in host.models, p \in host.programs, sr \in host.srs :
          m = Boot(PowerOn(type, p), sr)
    /\ running = FALSE
    /\ surfaced = "none"

\* Words below a stack pointer are dead between instructions: no instruction
\* of the guest reads them
Prune(x) ==
    LET live(c) == \E b \in {0, 4, 6} :
                      /\ StackRegion(c.at) = StackRegion(Banks[b] - 1)
                      /\ c.at >= (IF sp_index(x) = b THEN x.dar.a7 ELSE x.sp[b])
    IN  IF faulted(x) THEN x ELSE [x EXCEPT !.stk = { c \in @ : live(c) }]

Bounded == IspBase - Sp(4) <= MaxDepth /\ MspBase - Sp(6) <= MaxDepth

\* step() on a CPU that is not stopped
Step ==
    /\ "step" \in host.apis /\ ~running /\ ~m.astray /\ m.stopped = 0 /\ Bounded
    /\ \E f \in {FetchOpcode(m)} :
       \E op \in {OpAt(f.m, f.w)} :
           \/ /\ faulted(f.m)
              /\ m' = Prune(end_faulted_instruction(f.m))
              /\ surfaced' = "none"
           \/ /\ ~faulted(f.m) /\ op \in Traps
              /\ m' = f.m
              /\ surfaced' = op
           \/ /\ ~faulted(f.m) /\ op \notin Traps
              /\ m' = Prune(Complete(dispatch_instruction(f.m, op), FALSE))
              /\ surfaced' = "none"
    /\ UNCHANGED <<host, running>>

\* step() or step_with_hle_handler() on a stopped CPU
StepStopped ==
    /\ host.apis \cap {"step", "hle"} # {} /\ ~running /\ ~m.astray /\ Bounded
    /\ SupervisorWake(m)
    /\ m' = Prune(stopped_supervisor_check(m))
    /\ surfaced' = "none"
    /\ UNCHANGED <<host, running>>

\* The host takes the exception of a trap step() surfaced
TakeSurfaced ==
    /\ surfaced # "none"
    /\ m' = Prune(TakeTrap(m, surfaced))
    /\ surfaced' = "none"
    /\ UNCHANGED <<host, running>>

\* step_with_hle_handler(): the handler may declare a trap handled
HleStep ==
    /\ "hle" \in host.apis /\ ~running /\ ~m.astray /\ m.stopped = 0 /\ Bounded
    /\ \E f \in {FetchOpcode(m)} :
       \E op \in {OpAt(f.m, f.w)} :
           \/ /\ faulted(f.m)
              /\ m' = Prune(end_faulted_instruction(f.m))
           \/ /\ ~faulted(f.m) /\ op \in Traps
              /\ \E handled \in BOOLEAN :
                    m' = Prune(Complete(IF handled THEN f.m ELSE TakeTrap(f.m, op), FALSE))
           \/ /\ ~faulted(f.m) /\ op \notin Traps
              /\ m' = Prune(Complete(dispatch_instruction(f.m, op), FALSE))
    /\ surfaced' = "none"
    /\ UNCHANGED <<host, running>>

\* Entry of execute(): interrupts are sampled, a stopped CPU returns at once
ExecuteEntry ==
    /\ "execute" \in host.apis /\ ~running /\ ~m.astray /\ Bounded
    /\ \E x \in {check_and_service_interrupts(m)} :
           /\ m' = Prune(IF SupervisorWake(x) THEN stopped_supervisor_check(x) ELSE x)
           /\ running' = (x.stopped = 0 \/ SupervisorWake(x))
    /\ surfaced' = "none"
    /\ UNCHANGED host

\* One turn of execute()'s loop; its cycle budget may run out after any of them
ExecuteIteration ==
    /\ running /\ ~m.astray /\ Bounded
    /\ \E f \in {FetchOpcode(m)} :
       \E op \in {OpAt(f.m, f.w)} :
           \/ /\ faulted(f.m)
              /\ m' = Prune(end_faulted_instruction(f.m))
           \/ /\ ~faulted(f.m)
              /\ m' = Prune(Complete(IF op \in Traps THEN TakeTrap(f.m, op)
                                     ELSE dispatch_instruction(f.m, op), TRUE))
    /\ running' \in IF m'.stopped # 0 THEN {FALSE} ELSE BOOLEAN
    /\ UNCHANGED <<host, surfaced>>

\* set_irq, called by the host between steps or by the bus during execute()
SetIrq ==
    /\ \E l \in host.irqs : l # m.int_level /\ m' = [m EXCEPT !.int_level = l]
    /\ UNCHANGED <<host, running, surfaced>>

\* The host maps or unmaps a region of the bus
Remap ==
    /\ \E r \in host.faultable :
          m' = [m EXCEPT !.bad = IF r \in @ THEN @ \ {r} ELSE @ \cup {r}]
    /\ UNCHANGED <<host, running, surfaced>>

\* reset() and a reboot of the guest
Reset ==
    /\ ~running
    /\ \E sr \in host.srs : m' = Boot(reset(m), sr)
    /\ surfaced' = "none"
    /\ UNCHANGED <<host, running>>

Next ==
    \/ Step \/ StepStopped \/ TakeSurfaced \/ HleStep
    \/ ExecuteEntry \/ ExecuteIteration
    \/ SetIrq \/ Remap \/ Reset

Spec == Init /\ [][Next]_vars

\* The host keeps running the CPU: weak fairness of its calls into the CPU,
\* with the condition under which such a call has an effect written out
RunStep == Step \/ StepStopped \/ TakeSurfaced \/ HleStep \/ ExecuteEntry \/ ExecuteIteration
Runnable ==
    ~m.astray /\ Bounded /\ (m.stopped = 0 \/ Serviceable(m) \/ SupervisorWake(m))
FairSpec == Spec /\ ([]<>~Runnable \/ []<><<RunStep>>_vars)

----------------------------------------------------------------------------
(* Properties *)
Formats == {"ret", "group0", "pc_sr_ir", "address_status",
            "0", "1", "2", "4", "7", "8", "B"}
FrameSet == [fmt : Formats, vec : Nat, pc : Int, sr : SR]
Registers == [r : 0..(RegMod - 1), a7 : Int]

Machine ==
    [cpu_type : Models, prog : [UserCode -> Ops], pc : Int, ppc : Int,
     dar : Registers, dar_save : Registers, sr : SR, sr_save : SR,
     sp : [{0, 4, 6} -> Int], run_mode : {Normal, Fault}, stopped : {0, 1},
     exception_processing : BOOLEAN,
     fault_resume : {NoResume} \cup [pc : Int, sr : SR, dar : Registers],
     int_level : Levels, queue : Seq(Int), change_of_flow : BOOLEAN,
     stk : SUBSET [at : Int, n : Nat, f : FrameSet], bad : SUBSET Regions,
     data : 0..(RegMod - 1), nested : BOOLEAN, owed : SUBSET Levels, astray : BOOLEAN]

\* Every field of CpuCore and of the bus stays in its domain at every boundary
TypeOK ==
    /\ m \in Machine
    /\ host \in Scenarios
    /\ running \in BOOLEAN
    /\ surfaced \in Traps \cup {"none"}

\* The in-exception latch never survives a call into the CPU: were it left
\* set, the next ordinary exception would halt the machine (take_exception,
\* trigger_bus_error)
LatchClear == ~m.exception_processing

\* prefetch_queue[0..prefetch_count] holds the words at pc, pc + 2 (the
\* contract stated on the field) whenever the next fetch will use the queue
QueueCoherent ==
    m.run_mode = Normal /\ ~m.astray =>
        /\ Len(m.queue) <= 2
        /\ \A k \in 1..Len(m.queue) : m.queue[k] = m.pc + 2 * (k - 1)

\* A halted CPU stays dead until reset
HaltedUntilReset == [][is_halted(m) => is_halted(m') \/ Reset]_vars

\* Between host calls every fault is settled.  A fault met while a fault was being
\* delivered has parked the CPU, and nothing else parks it; in any other case
\* the fault is delivered whole: fault_resume and the fault run mode are transient
\* within one instruction (trigger_bus_error, end_faulted_instruction)
FaultsSettled ==
    /\ m.nested <=> is_halted(m)
    /\ is_halted(m) \/ (m.run_mode = Normal /\ m.fault_resume = NoResume)

\* An acknowledged interrupt is not lost: its handler is next, or was itself
\* preempted and will be returned to; outstanding interrupt frames nest by
\* strictly rising level (service_interrupt)
InterruptsTaken ==
    /\ ~is_halted(m) /\ ~m.astray =>
          \A l \in m.owed : \/ m.pc = Handler(24 + l)
                            \/ \E c \in m.stk : c.f.pc = Handler(24 + l)
    /\ \A c, d \in m.stk :
          /\ c.f.vec \in 25..30 /\ d.f.vec \in 25..30 /\ c.f.fmt # "1" /\ d.f.fmt # "1"
          /\ StackRegion(c.at) = StackRegion(d.at) /\ c.at < d.at
          => c.f.vec > d.f.vec

InGuest == m.pc \in UserCode /\ m.run_mode = Normal /\ ~m.astray /\ surfaced = "none"

\* Every return finds the frame its exception or call left on the stack, and all
\* frames pushed are popped, on the stack they were pushed on: whenever the guest
\* program itself runs, the three banked stack pointers are back at their bases
StacksBalanced ==
    /\ ~m.astray
    /\ InGuest => /\ Sp(0) = UserBase
                  /\ Sp(4) = IspBase
                  /\ m.cpu_type # "M68060" => Sp(6) = MspBase

\* Exceptions are precise for the guest: a loop that counts in memory and in
\* a register sees the two counters in step at every instruction boundary,
\* whatever faulted, was traced or interrupted on the way
Balance(pc) ==
    Cardinality({ w \in UserCode : w < pc /\ m.prog[w] = "rmw" })
    - Cardinality({ w \in UserCode : w < pc /\ m.prog[w] \in {"pinc", "jsr"} })
GuestCountersInStep == InGuest => (m.data - m.dar.r - Balance(m.pc)) % RegMod = 0

\* With T1 set no guest instruction is followed by another guest instruction:
\* the trace handler runs in between; with T0 set the same holds across a
\* taken branch
Traced == m.sr.t1 \/ (m.sr.t0 /\ m.prog[m.pc] \in {"bra", "jsr"})
OneByOne ==
    [][InGuest /\ m.stopped = 0 /\ Traced => m'.pc >= Handler(0) \/ m'.pc = m.pc \/ Reset]_vars

\* A CPU stopped by STOP wakes once an unmasked interrupt is pending and the
\* host keeps calling execute()
StopWakes == (is_stopped(m) /\ Serviceable(m)) ~> (m.stopped = 0)

\* Without interrupts the guest's loop keeps turning, traced or not: from
\* anywhere, handlers included, control comes back to its first instruction (an
\* RTE that restores a trace bit does not trace itself)
GuestProgresses ==
    (m.pc # Origin /\ host.irqs = {}) ~> (m.pc = Origin \/ m.stopped # 0)

\* Tracing interrupts the guest after every traced instruction and does not keep
\* it from getting on (check_trace, exception_trace)
TracedAndProgressing == OneByOne /\ GuestProgresses
=============================================================================
