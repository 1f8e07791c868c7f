# A TLA+ verification project for m68k-rs

m68k-rs is a Motorola 680x0 CPU core written as a library: a host (an emulator)
owns a `CpuCore` and an `AddressBus`, and calls into the CPU. Nothing in it runs
concurrently. What is hard is sequencing: the host picks one of several run
loops at every call, the bus may fault any access, interrupts arrive between any
two instructions and from inside bus callbacks, and every guest-visible effect
must come out as if the instruction had happened completely or not at all.

## 1. Inventory

| Component | State | Operations | What makes it correct |
|---|---|---|---|
| Precise engine (`core/execute.rs`, `cpu.rs`, `ea.rs`) | registers, three banked stack pointers, SR, prefetch queue, `run_mode`, `stopped`, `fault_resume`, snapshots `dar_save`/`sr_save` | `step`, `step_with_hle_handler`, `execute` | one guest instruction per turn; faults, trace and interrupts only at boundaries; queue follows the PC |
| Exceptions and interrupts (`exceptions.rs`, `interrupts.rs`, RTE in `decode.rs`) | frames in guest memory, `exception_processing` latch, `int_level` | exception entry per model, RTE, bus and address errors, interrupt service | frames balance, double faults halt, faulted instructions restart |
| Cycle-bounded batch (`run_for_cycles*`) | hook request, budget | batch loop with a boundary hook | budget, one hook call per boundary, same guest-visible result as `step` |
| Instruction-bounded batch (`run_batch*`, `op_cache.rs`, `mem_ops.rs`) | decode table, RAM window lent by the host, watch list, instruction budget | batch loop: trace, register tier, memory tier, dispatcher | the four tiers are one instruction set; a refused instruction leaves no trace of the attempt; the table follows the model; never more than `max_instructions` |
| Trace JIT (`trace_jit.rs`) | slots (counting, rejected, compiled), the open recording, side tables by hash of the PC, skip filters | count, record, gate, compile, validate, run, chain, re-record | invisible: guest and host see what one-by-one execution from memory would give; a call returns |
| Trace profiling (`trace_profile.rs`) | counters | report | influences nothing |
| MMU (`mmu/`) | ATC, TTRs, root pointers, status | translate, PTEST, PFLUSH, PMOVE | ATC hit = walk; privileges honoured |
| FPU (`fpu/`) | FP registers, FPCR/FPSR | softfloat, conversions, transcendental functions | rounding per FPCR |
| Decode and integer instructions (`decode.rs`, `core/instructions/`, `ea.rs`) | none of their own | one method per instruction; four decoders of one opcode space | the decoders agree; result and flags exact, also through chains of instructions; a failed instruction can be restarted |
| Timing (`timing*.rs`) | 68060 branch cache and pairing state | cost of an instruction | bounds, cache replacement |
| Disassembler (`dasm/`), `main.rs` | none | text | not a correctness concern of the CPU |

## 2. Modules

*`CpuCore`* models the precise engine and the exceptions. `m` is the CPU and the
bus as one record whose fields keep their Rust names; a Rust method that takes
`&mut self` is an operator of the same name from machine to machine, so the
order of side effects inside a method is the nesting of the operators. Actions
are the host's calls: `Step`, `StepStopped`, `TakeSurfaced` (the host takes a
trap that `step` returned), `HleStep`, `ExecuteEntry` and `ExecuteIteration`
(one turn of `execute`'s loop), `SetIrq`, `Remap` (the bus maps or unmaps a
region), `Reset`.

Abstractions of data: a queued instruction word is the address it came from;
an exception frame is one record with its size in bytes and its stack address
(overlap and misaligned reads are seen); the data registers are one counter
modulo 3 and guest memory one counter modulo 3; the bus faults by region (user
stack, interrupt stack, master stack, vectors, two code pages, handlers, data).
The guest runs a loop of four instructions chosen from those whose control
differs: a read-modify-write with early prefetch, a postincrement read, JSR/RTS,
BRA, a jump to an odd address, TRAP, line-A, divide by zero, STOP with S set or
clear, HALT; its handlers are an RTE each (preceded by `ADDQ #8,SP` for the
68000 group-0 frames, the idiom the documented frame order calls for).

Ghost fields: `nested` (a fault met while a fault was delivered), `owed`
(interrupts acknowledged whose handler has not started), `astray` (control
reached a place no frame or program accounts for; nothing is explored beyond).
`Prune` forgets stack words below every stack pointer.

*`MCCpuCore`* gives the hosts. *`CpuCore_proofs`*, *`CpuFrames_proofs`*
(lemmas about the stacks) and *`CpuStacks_proofs`* hold the theorems.

*`Mmu`* models address translation and every access that goes through it on the
68030, 68040 and 68060. `c` holds the root pointers, TC, TTRs, the ATC, the
descriptor tables as the guest wrote them, the one-shot completions an RTE arms
(`mmu_write_suppress`, `mmu_read_override`), the SFC/DFC override and the fault
being delivered. An instruction is a list of bus cycles; `NextCycle` runs one,
split at page borders as `read_16`..`write_32` split it, `Restart` executes the
instruction again after its fault was handled. The guest's operating system edits
descriptors, flushes, switches roots (`Movec`, `pmove`), completes a faulted
cycle by itself and returns with a format 7 or B frame (`Rte`); interrupts and
resets come between attempts; `Ptest` is compared with what an access would do.
Addresses are bytes with 4-byte pages so that every misalignment exists; the
pages are user data, read-only data, supervisor stack and vectors, and a physical
hole. Ghosts: `edited` (a descriptor or root changed without the flush the manual
asks for), `excused` and `handled` (which bytes the guest's handler completed),
`log` (what each byte cycle of the attempt did).

*`CycleBatch`* models `run_for_cycles_inner` and its three callers. An
instruction is what the loop sees of `step`: its cycles, the mask it leaves,
STOP, a surfaced trap, and how it ended (normally, in a fetch fault that costs
nothing, in a fault, in a trace exception). `b.at` is the place in the loop; each
place that the code passes through is one action, so that the hook (`Hook`), the
bus and the host (`SetIrq`, `DeviceRequest`) act exactly where they can. Ghosts:
`spent` and `heard` (cycles that ran, cycles the hook was told of), `owed` (the
level last set and not yet entered), `raised` (a request made during this call),
`late` (a level set by an interrupt-entry hook), `handler` (the last step was a
fetch fault, so the next word fetched is its handler's). The instruction count of
the result is not kept.

*`MCMmu`*, *`MCCycleBatch`* give hosts and calls; *`Mmu_proofs`* and
*`CycleBatch_proofs`* hold the theorems.

*`Guest`* is the guest under `run_batch`: a register, a flag, a stack pointer and a
memory whose cells hold instructions, one kind for each case the loop and the
recorder tell apart. *`BatchContract`* is what `run_batch` promises the host: the
instructions are executed one after another from memory as it is when each is
fetched, at most `max_instructions` of them, a watched PC is reported before its
instruction runs (but for the first of the call), traps surface with the PC behind
them. It knows no cache.

*`TraceJit`* is `run_batch` with the trace cache. `j` is the thread-local `TraceJit`
with the per-CPU filters, `x` the running trace, `ph` the place in the loop. `Probe`
is `try_execute` up to the first operation (slot, counter, validation of every
segment, budget and watch gates), `TraceOp` and `TraceBail` one operation of the
portable executor, `LeaveTrace` and `Chain` what happens at its exit;
`DecodedOp`, `DecodedMiss`, `Dispatch`, `DispatchFault`, `FetchFault`, `AlineTrap`,
`OtherTrap`, `WatchedPc` and `BudgetExhausted` are the loop around it, each with the
whole of `record_executed`, `note_backward_branch`, `finish_recording`,
`stop_recording` or `finish_recording_at_trap` that the code runs there. The host
patches memory, selects a newer model and calls again, with or without a window.
`Contract` instantiates `BatchContract` with the PC of the running operation for the PC
(the CPU's own is stale inside a trace), and `Implements` is the refinement.
*`MCTraceJit`* holds eleven guest programs; *`TraceJit_proofs`* has the lemmas about
the cache and the recorder, and the theorems about the loop.

*`Decode`* is what an opcode word means to `dispatch_instruction`, to the tables of the
batch (`DecodedSimpleOp`, `DecodedMemOp`), to the recorder (`decode_trace_op`,
`decode_call_op`), to 68010 loop mode and to the predicate that skips the rollback
snapshot, as records of name, size, source and destination. Its state is one entry of
the decode table with its fill and its loss at `set_cpu_type`. *`MCDecode`* gives the
opcode words, *`Decode_proofs`* the theorems.

*`Alu`* and *`RegOps`* are what `core/instructions/*.rs` compute, with widths as a
parameter: flags keep their definitions, and only packed decimals need real bytes.
*`AluPrograms`* chains them into guest programs (numbers of several digits, a comparison
and its condition, a shift by n as n shifts by one, products divided again, bit fields,
and processors that synchronise with TAS, CAS and CAS2), and states what the programs
should compute with ordinary numbers. *`MCAluPrograms`* gives the widths.

*`Dispatch`* (the dispatcher with `ea.rs`), *`SimpleOps`* (`op_cache.rs`, registers
only), *`MemOps`* (`mem_ops.rs`, directly on the window) and *`TraceOps`* (the portable
executor of `trace_jit.rs`) are the four ways in which one instruction is executed; an
instruction is a record with its addressing modes and extension words.
*`Tiers`* puts one instruction, or a trace of two or three, on the tier that `run_batch`
would choose and compares the machine it leaves with what the dispatcher leaves.
*`MCTiers`* gives some 1000 instructions and 80 machines.

## 3. Runs

| Run | Checks | Shows |
|---|---|---|
| `cpu_safety` | `TypeOK`, `LatchClear`, `QueueCoherent`, `FaultsSettled`, `InterruptsTaken`, `StacksBalanced`, `GuestCountersInStep`, `HaltedUntilReset` | whatever faults, interrupts, is traced or returns, under any mix of run loops, the guest's two counters stay in step, stacks balance, no acknowledged interrupt is lost, the queue follows the PC, and a CPU is halted exactly after a double fault and until reset |
| `cpu_liveness` | `TracedAndProgressing`, `StopWakes` | T1/T0 tracing is one-by-one and does not trace its own RTE; the loop goes on; STOP wakes |
| `mmu_safety` | `TypeOK`, `AtcCoherent`, `TablesDecide`, `AccessComplete`, `FrameFaithful`, `HaltJustified` | every byte of every access, frame push, vector fetch and PTEST goes where the tables say for its own address space; a retired instruction transferred all its bytes once although it was restarted or partly completed by the handler; frames describe the faulted cycle; a halt only when stack or vectors are unreachable |
| `cycle_batch` | `TypeOK`, `IrqPrompt`, `IrqKept`, `RequestHonoured`, `Accounted`, `StopIsFinal`, `CallReturns` | interrupts are prompt and never lost, boundary requests are honoured before the next fetch and before budget exhaustion, cycles are accounted, Stopped hides no interrupt, every call returns |
| `trace_jit` | `TypeOK`, `TraceCurrent`, `RecordingSound`, `Implements` | `run_batch` with recording, validation, chaining, re-recording and side tables implements the contract without a cache, through self-modifying code, host patches, watch lists, budgets, traps and faults |
| `trace_liveness` | `CallReturns` | probes, bails, chains and re-recordings retire nothing by themselves and do not keep a call from returning |
| `decode` | `DecodersAgree`, `EntryCurrent`, `SnapshotSkippedSafely` | on five models, every word that a table or the recorder takes is the instruction the dispatcher executes, with its length; no entry survives a change of model; the snapshot is skipped only where nothing can fault |
| `alu` | `NumbersExact`, `ShiftsExact`, `DivisionsExact`, `FieldsExact`, `SharedExact` | chains of instructions compute what arithmetic says; no update is lost between processors; a CAS the 68060 refuses can be redone |
| `tiers` | `SimpleIsStep`, `FastIsStep`, `TraceIsStep`, `FastInWindow` | register tier, memory tier and portable trace leave what `step` leaves, whether they complete, bail in the middle of a trace or refuse; the memory tier writes nothing outside the window and a trace nothing over its own code |
| `v_link_exit` | `LinkExit` | violated: a recording that ends at a checked return to a compiled head leaves the guest behind the RTS |
| `v_fast_illegal` | `IllegalWordsTrap` | violated: the table executes words (MOVEQ with bit 8 set, byte operations from An) that the dispatcher traps as illegal |
| `v_movem_dummy` | `FastBusComplete` | violated: a MOVEM list that ends with the window is loaded without the discarded read the 68000 makes behind it |

Bounds of `CpuCore`. `RegMod` = 3 tells a repeated, a missing and a correct
increment apart. The guest program has 4 words across two code pages, so a fetch,
an extension word and a prefetch can each be the one that faults. `MaxDepth` = 200
bytes holds a bus-error frame (92 bytes at most) with two further frames on top.
Two interrupt levels suffice for preemption and masking.

Bounds of `Mmu`. `AtcEntries` = 2 makes user and supervisor pages collide in the
direct-mapped cache; `MaxFrames` = 2 allows a fault inside the handling of
another (an interrupt handler's access).

Bounds of `CycleBatch`. Budgets 0, 2 and 5 against costs 0 to 3 and an entry of 2
reach a budget met exactly, crossed by an instruction, crossed by an entry and
spent by the reset. Levels 3 and 6 against masks 0, 5 and 7 give maskable,
masked and unmasked-later interrupts; level 7 behaves as an unmasked level and is
covered by the proof.

Bounds of `TraceJit`. Eight cells and programs of four to eight instructions hold every
loop shape of the recorder; thresholds of 2 and 3 keep their order in the code (hot
before linear and trap-segment), so that counting, deferral and compilation are
separate visits. `CacheSize` = 2 makes heads share slots and side tables,
`SkipWays` = 2 lets the filters overflow, `TRACE_MAX_OPS` = 5 lets a recording reach
its limit, a chain budget of 2 allows one chained trace and its refusal. Budgets of 5, 6
and 8 instructions end inside a trace and between two; the watched PC is inside a
trace in one call and its head in another. The liveness run has one CPU model less.

Bounds of `Decode`. All opcode words are there but for data fields (displacement bytes,
MOVEQ data, A-line numbers: four samples each); four streams of extension words hold
brief and full index formats in both places and the register masks that matter.

Bounds of `AluPrograms`. Bytes of 2 bits, words of 4 and longs of 8: all bytes and
words are enumerated, longs at their boundaries; shifts go beyond the widest operand;
two processors make two updates each.

Bounds of `Tiers`. The same widths, addresses of 8 bits over an address space of 32
bytes, so that the address mask matters, and a window in the middle of it: operands
begin before, at, in, at the end of and behind the window and at its alias. A behaviour
is one instruction or one trace, because every tier leaves a machine that the next
instruction starts from. The instructions cross every addressing mode of both operands of
MOVE; the other operations take the modes that the decoders distinguish.

A CASE whose guards overlap is read in order, as TLC evaluates it; the proofs hold for every
arm whose guard is true.

Each property has a mutant of the code that breaks it (a dropped guard, a missing
reset, a swapped order), listed in PROJECT.json; the mutated forms are the
definitions marked as such in the modules.

The passing runs leave out exactly the hosts for which the violation runs and
the observations below show a deviation: for `CpuCore`, queue models with unmapped
code or stack pages, the 68000 with any bus error, halted CPUs driven by `execute`
with interrupts; for `Mmu`, TTRs on the 68060, interrupts together with cycles
completed by the handler, PMOVE on the 68040, malformed tables or physical holes
together with completed cycles, PMOVE operands that are not resident, and resets
with completed cycles or after a double fault over a hole; for `CycleBatch`, fault
handlers whose first word faults (`HandlersResident`) and, under the plain
runner, traced instructions that change the mask (`PlainCodeAssumption`); for
`TraceJit`, fetch faults while a recording is open, computed calls in a recorded loop
and recorded returns to a compiled head; for `Decode`, the words of `LooseForm`.

Deviations seen while modelling, left out of the runs for that reason:

- on the 68000/68010 the handler of a fault in the final prefetch, or in the push of a
  JSR, starts with a queue that is not at its PC: the fault is closed out by the next
  call, which has by then consumed a word of the handler's queue;
- `execute` services an interrupt before it tests the stop level, and so revives a
  halted CPU, of which execute.rs says that only reset can resume it;
- one bus error on STOP's operand word halts the CPU, as `stop` sets the level that
  `end_faulted_instruction` takes for a double fault;
- the 68000 group-0 frame is pushed in the reverse of the order its comment gives;
- an interrupt between RTE and the restarted instruction has its write to the same
  address swallowed by the one-shot completion;
- transparent translation registers do nothing on the 68060;
- a MOVES into a space whose root is no table halts instead of taking vector 56, since
  the SFC/DFC override is still set during the frame pushes;
- a fault handler whose first word cannot be fetched keeps `run_for_cycles` in its loop
  for ever, as such a step costs no cycles, and `run_batch` too, as it retires nothing;
- a fetch fault in `run_batch_inner` leaves an open recording open, and the handler is
  appended to the path, where a fault after dispatch discards it; it also enters the
  handler without the watch check, so that a watched handler head is not reported;
- a block that its own store rewrites while the recorder waits for its end was decoded
  before the store: the path it leaves may skip to the wrong operation;
- the push of a compiled indirect JSR is not checked against the code of its own trace;
- the calls and returns of a recording are appended without the length check, so that it
  can exceed `TRACE_MAX_OPS`, which the compiler asserts;
- a fault met while a trace exception is entered ends the step without
  `end_faulted_instruction`: the CPU stays in the fault run mode with the handler's state
  in `fault_resume`; if a second fault has halted it, `reset` does not clear that state;
- `service_interrupt` clears `stopped` after its frame was pushed, wiping a
  double fault met on the way;
- `trigger_address_error` does not set the latch, so a bus error during the
  delivery of an address error is delivered instead of halting;
- when an interrupt frame faults, the rolled-back instruction is the one that
  retired before, which is then executed again;
- the 68060 HALT shares the STOP level, so an interrupt ends it;
- PMOVE to TC, CRP or SRP whose operand read faults loads zero; on the 68040
  PMOVE, unlike MOVEC, does not flush the ATC;
- a physical bus error under translation stacks the physical address;
- a one-shot completion that is never consumed stays armed across interrupts,
  resets and changes of the PC;
- `pending_fault_cause` survives a double fault, a configuration error and a
  reset; the frame of a faulting PLPA reports the CPU's own function code, not DFC;
- comments say that `exception_processing` makes `translate` bypass the MMU; it
  does not;
- `step` returns after a trace exception without an interrupt check, so the plain
  `run_for_cycles` delays an interrupt that the traced instruction unmasked by
  one instruction, where `execute` and the hooked runners do not;
- a level set by an interrupt-entry hook waits for one instruction; a request left
  pending by a Stopped or trap exit is polled only after the next instruction;
- `run_batch` ends a faulted instruction by resetting `run_mode` alone, and its
  opcode fetch takes vector 58 with a format 0 frame on an MMU fault.

Fairness. In `CpuCore`, `FairSpec` says that the host keeps calling the CPU while
a call has an effect: `[]<>~Runnable \/ []<><<RunStep>>_vars`, weak fairness of the
run loops with its enabling condition written out. It is an assumption on the host;
nothing is assumed of interrupts or of the bus. In `CycleBatch`, `FairSpec` is weak
fairness of `Runner`: once called, the loop is straight code, and a hook returns.
Nothing is assumed of the host between calls, nor that any instruction costs cycles.
In `TraceJit`, `FairSpec` is weak fairness of `Engine`, for the same reason: `run_batch` is
one call, and what it does inside needs nobody else.

## 4. Proofs

`CpuCore_proofs`. `TypeCorrect` (`Spec => []TypeOK`) and `LatchNeverLeaks`
(`Spec => []LatchClear`) hold for every set of hosts, programs, status registers
and regions and every stack bound. Neither is inductive alone; their conjunction
`Inv` is. The argument follows the call graph: `Keeps(x, y)` says that `y` is a
machine with the latch of `x`; a lemma per method shows `Keeps`, methods are composed
by transitivity, and `NextInv` has one case per action. The latch is set by
`take_exception` and `trigger_bus_error`, which return with it clear, and any fault
met in between takes the double-fault path, which leaves it alone. The theorems
assume only that the scenarios are records of the declared sets
(`ScenariosAssumption`).

The second half of the module is about faults, the queue and the halt:

| Theorem | States | For which hosts |
|---|---|---|
| `HaltsAreFinal` | `HaltedUntilReset` | any bus; no interrupt is raised, or `execute` is not called (`Uninterrupted`) |
| `QueueHoldsTheStream` | `[]QueueCoherent` | any bus without a queue; on the 68000/68010 a bus that refuses only data |
| `FaultsAreSettled` | `[]FaultsSettled` | `StacksMapped`: the 68000/68010 as above; otherwise the bus may refuse code, vectors and data, vectors only where nothing interrupts or traces, and code only where the program has no STOP |

Programs, models, status registers, interrupt levels, run loops, the changing of the map
between any two calls and the stack bound are arbitrary in all three. Of the hosts of `cpu_safety`,
`QueueHoldsTheStream` covers all but the 68010 whose vectors are refused, `FaultsAreSettled` the
68000, the 68010 with device faults and the halting 68060; the demand-paged ones also
unmap the user stack, and the remaining ones the interrupt stack. Each exclusion is a deviation of
section 3 (`execute` reviving a halted CPU, the queue of a handler entered from a prefetch, the STOP operand, a
fault under a trace exception, which nobody closes out) with one
exception: a missing *stack* page. A proof about that has to know into which region A7
points, hence how deep each stack is; `TameFaultsSettled`, below, is that proof for the user stack.

None is inductive. `FaultInv` joins `Inv` with

- `Edge` and `Fine`, which hold whatever the bus does: the state a fault owes the guest is
  a supervisor state, so that a halted CPU is never taken for one stopped in user state, and
  a model without a queue has it empty;
- `Settled`: the CPU is halted exactly after a double fault; unhalted, it owes no
  delivery and its queue is at its PC;
- `Plain`: where the host boots no trace bits, no saved or stacked SR has one, so that no
  RTE starts tracing;
- that `execute` runs its loop only on a CPU that is not stopped, or that a double fault
  has just halted, and that a surfaced trap finds the CPU outside both.

`Settled` does not hold inside a method: between the fault and `end_faulted_instruction` the
machine is in the fault run mode, its registers rolled back or not, and every later access
of the instruction is suppressed. The lemmas therefore say what a method does to a machine in
any of these states. `Goes(x, y)`: it faults only with its handler's entry state saved, or halts
(`trigger_bus_error`, the refill, stack accesses, the instructions without RTE
and STOP); `Enters`: an exception entry, which leaves supervisor state and, the
vectors mapped, neither faults nor changes the run state; `Ends`: a whole instruction; `Lands`:
an instruction with its boundary, whose end is at rest again. `NextFaultInv` has one
case per action.

`CpuStacks_proofs`, with the lemmas of `CpuFrames_proofs`, is about the frames on the stacks:

| Theorem | States |
|---|---|
| `StacksAreBalanced` | `[](Tame => StacksBalanced)` |
| `InterruptsAreTaken` | `[](Tame => InterruptsTaken)` |
| `CountersStayInStep` | `[](Tame /\ Closed(m.prog) => GuestCountersInStep)` |
| `TameFaultsSettled` | `[](Tame => FaultsSettled /\ ~is_halted(m))` |

for all six models, every status register booted, every interrupt pattern, mix of run loops,
resets, and remapping between any two calls. `Tame` names what they ask of guest and host:

- the guest program is a loop (`Proper`): up to its first BRA it holds instructions a
  guest may execute on empty stacks (memory and register counts, JSR to the subroutine,
  TRAP, A-line, division by zero, STOP with S set or clear, HALT, NOP), operands directly behind their
  instruction; RTE, RTS, a jump to an odd address and popping without pushing are not the guest's;
- the vectors and both supervisor stacks stay mapped; without a queue the host may
  unmap data, the user stack and any code, handlers included, code only where the
  program has no STOP; the 68010 may miss data; the 68000 nothing, for its
  group-0 handlers do not return to the guest;
- no stack runs into the next one: the bound `MaxDepth` on the bytes in use when a call
  begins is at most 600 of the 1000 between two bases (a call stacks at most 368 more, which
  is proved, too).

`Closed` says that a turn of the loop counts as often in memory as in the register. The first three
scenarios of `cpu_safety` and its halting 68060 are tame, and their programs closed. The other
two leave out what `Tame` asks: they unmap vectors or the interrupt stack.

`StackInv` joins `FaultInv` with `Rested`, which describes the stacks frame by frame.
Each stack is a chain of frames from its stack pointer to its base (`Chained`), nothing else
survives on it, and code can go on at the PC (`Sound`): either the guest, with empty stacks
and its counters in step (`AtGuest`), or the subroutine, on its return
address (`InCall`), or a handler, on the frame that its RTE will find (`InHandler`). The definition is
not recursive, although its subject is: every frame of the chain holds a PC and an SR at which
code can go on *with the stack pointers as they will be once that frame is popped* (`Placed`,
`FrameOk`), so that a pop only moves along the chain. Two more conjuncts keep the interrupts:
`Rising` (a frame below an interrupt's was stacked at that level or above) with `Masking`
(so is the SR now), and `OwedAt` (an interrupt acknowledged but not entered is at the PC or in a
frame). An interrupt taken with M set leaves two frames, of which the throwaway one (format 1) lies at the
base of the interrupt stack and hands over to the master stack (`ThrowOk`).

Inside an instruction the invariant splits. `Whole`: nothing is pending, the stacks hold at the
PC (and, in a STOP that will be refused, at the STOP). `Saved`: the snapshots taken at the fetch
still roll the machine back to a sound one at PPC, whatever the instruction has done so far.
`Due`: a fault has been delivered and the stacks hold in the state that `end_faulted_instruction`
will assert. `FaultDelivered` leads from `Saved` to `Due`; `DispatchSound` says that every
instruction ends `Whole` or `Due`; `CompleteWhole` that trace and interrupts at
the boundary keep it. Each action then has its lemma (`StepRests` to `ResetRests`).

`Mmu_proofs`. `AtcAlwaysCoherent` (`Spec => []AtcCoherent`) holds for every set of
guests (tables, registers, instructions) and every ATC size. The invariant adds the shape of
the machine (`Machine`): a walk fills an entry from the tables as they stand, and
its result is what a later lookup of the same page and privilege would walk to.
`Keep` lemmas along the call graph show that an access changes tables, roots and
entries only through `insert`; the only actions that change what a walk gives are the
guest's edits, which either set `edited` or fill a descriptor that was invalid, so
that no entry can rest on it, and the root changes, which flush or set `edited`.

`MmuSafety_proofs` states the other invariants of `Mmu`:

| Theorem | States | For which guests |
|---|---|---|
| `MmuTypes` | `[]TypeOK` | all |
| `TablesAlwaysDecide` | `[](Orderly(c) => TablesDecide)` | no windows on the 68060, a usable root whenever the 68030 executes MOVES, SFC and DFC name user or supervisor spaces |
| `HaltsAreJustified` | `[](Orderly(c) /\ c.ins.op # "pmovetc" => HaltJustified)` | the same, outside a PMOVE to TC |
| `FramesAreFaithful` | `[](SteadyRoots(host) => FrameFaithful)` | never reset, and with a root on the 68030 |
| `AccessesAreComplete` | `[](~host.completes => AccessComplete)` | handlers that leave the faulted cycle to the restart |

The hypotheses name the deviations of section 3 and nothing else; each is a predicate
on the current state or on the guest, and the guests of `mmu_safety` that satisfy it are
most of them. Transparent windows do nothing on the 68060. A MOVES without a root is a
configuration error delivered with the SFC/DFC override still in force, so its frame is
pushed into the wrong space and halts; function codes 0, 3, 4 and 7 are one address
space to `translate` and another to the reference. A PMOVE to TC that faults loads zero and turns
translation off under its own frame. A configuration error and a reset leave a cause
pending that mislabels the frame of a later physical bus error. A one-shot completion can be
consumed by another access to the same address. What lies outside (the hosts of
`MCMmu` that complete cycles, or have no table) is model-checked only.

None of the five is inductive. Their common invariant `MmuInv` has seven parts:

- `Whole`: the machine is one of its guest's; the tables keep their shape.
- `Working`: the bus cycles left in `todo`, those in `log` and the override belong to the
  instruction being executed, page by page; without this a byte in the log says nothing
  about the operand.
- `Stacked`: every access-error frame belongs to an instruction of the guest and to a cycle of it.
- `Truthful`: what the log, the probe and a halt say agrees with the tables as they
  are now; edits are possible only where no attempt is under way (`Rested`).
- `Reported`: no cause is pending between faults, and every outstanding frame is faithful.
- `Armless`: without completions nothing is armed and every frame asks for a restart.
- `Transferred`: each byte of a retired instruction is in the log or was excused.

The second half of `Mmu_proofs` has the lemmas about the operators, one per method: what `walk`,
`translate`, an aligned access, a split access and a frame push may change, and that a
frame push over resident stack and vectors does not halt. The step from a cached to a
walked translation uses `AtcAlwaysCoherent`'s invariant. `MmuSafety_proofs` has one
lemma per action. Assumptions on the constants: the ATC and the frame stack have at
least one slot, a guest's tables are functions, and its instructions are those the decoder
can hand over (`Encoded`: operand sizes, even instruction addresses, PLPA on the 68060).

`CycleBatch_proofs`. `LoopTypes`, `InterruptsArePrompt`, `DeferredLevelKept`,
`RequestsAreHonoured`, `CyclesAreAccounted` and `StoppedIsFinal`, every invariant of
the component, hold for every set of calls, levels and costs. Their common invariant says,
for each place of the loop, where the CPU may be
stopped and which runner can be there (`Paths`), that nothing serviceable is pending
between a boundary and the next fetch (`Pending`), and that the budget, the cycles
spent and the cycles heard balance, up to the event the hook is about to hear
(`Book`). There is one lemma per action, and `ExitInv` and `MoveInv` for the two
ways most of them end. `RequestsAreHonoured` adds `Requests`: where a request can be
outstanding at each place, and that no place behind the one that takes it is among them.

`Decode_proofs`. For every set of opcode words, models and extension words:

| Theorem | States |
|---|---|
| `DecodersAlwaysAgree` | `Spec => []DecodersAgree` |
| `SnapshotsSkippedSafely` | `Spec => []SnapshotSkippedSafely` |
| `TableIsCurrent` | `Spec => []EntryCurrent` |

TLC enumerates every word that a table or the recorder takes, on five models and with sample
extension words; the theorems cover all 65536 words and all extension words. `EntryCurrent` is inductive as it
stands. The other two say something of a word, a model and its extension words, and follow
from it, the word being one of `Opcodes` (`OpcodeFixed`), and the agreement of the decoders, in this order:

- `Digits`, `Fields`: an opcode word is its group and four octal digits, and every field the
  decoders look at (the size bits, the minor opcode, bit 8, the word with its low bits
  cleared) is a function of them. The decoders are then compared digit by digit, and no
  later step divides.
- `MemAgrees`: `DecodedMemOp` takes a word for what `dispatch_instruction` executes, or the dispatcher
  rejects the loose form; one lemma for each group of the opcode map. `SimpleAgrees`:
  the same for `DecodedSimpleOp`, whose arithmetic groups go by form first.
- `SimpleRegisters`: what the register table takes touches registers only, which is why
  `needs_rollback_snapshot` may skip the snapshot (`SnapshotSkipped`), and which lets the
  memory table be asked only where the register table declines (`MemOrComplex`).
- `MemForms`: the operands that an instruction of the memory table can have. With
  `NoWords`, `OneWord`, `LongWords` and `ShortWords`, what each operand costs in extension words,
  they give its length.
- `TraceRecorded`: the recorder's order of attempts, the register table, a branch, an immediate,
  an address with displacement, MOVE, JMP, the memory table (`TraceFlowRight` to
  `TraceSimpleRight`), each of which records the dispatcher's instruction with its length;
  `CallRight` for JSR, BSR and RTS.
- `LoopIsOneWord`: the words of the loop mode table are one-word instructions that the
  dispatcher executes, form by form.

The matches of the code whose arms overlap are chains of conditionals in `Decode`, in the
order of the arms: TLC evaluates the arms of a CASE in their order, the logic does not.

`TraceJit_proofs`. For every guest, set of calls and patches,
cache and filter size and threshold:

| Theorem | States |
|---|---|
| `RunBatchKeepsItsContract` | `Spec /\ []Ordinary => Implements` |
| `TracesAreCurrent` | `Spec /\ []Ordinary => []TraceCurrent` |
| `RecordingsAreSound` | `Spec /\ []Ordinary => []RecordingSound` |
| `RunsAreTyped` | `Spec /\ []Ordinary => []TypeOK` |

`Ordinary` names the four situations in which the code departs from the contract, and
nothing else: a faulting fetch while a recording is open or the handler is watched
(`CodeFetched`), an if-converted block rewritten while it is being recorded
(`BlockKept`), a traced JSR that pushes onto the code of its own trace
(`CallsOutside`), and a trace linked behind a recorded call or a checked return (`LinkExit`, the
finding; behind any other operation it is what `LinkPc` computes). They are the deviations of
section 3. Every state of the `trace_jit` run satisfies `Ordinary`, and `IInv` too: TLC
evaluates both, in a module that EXTENDS `MCTraceJit` and `TraceJit_proofs`, over all 2.4
million states.

None of the four is inductive. `IInv` joins, besides the types:

- `Good(j)`, the cache: a compiled slot holds a `Trace`, a path of recorded operations from its
  head whose bytes lie inside the intervals that stores are checked against; the open
  recording is such a path; a head with a durable verdict has neither a counter nor a trace.
  A `Path` says for two consecutive operations where the first hands over to, and for an
  if-converted branch that its block follows it and ends at its target.
- `Tracked(j, pc)`: the guest stands where the recording ends, or inside the block that was
  just converted. Without it the next operation would not continue the path.
- `Running`: the trace that runs is the one in its slot, and no recording is open meanwhile.
- `Inside`: its operations are memory's, none but the head is watched, and the budget left
  covers the rest of this iteration and all of those it was granted (`Covered`).
- `Outside`: what each other place of the loop knows about the budget, the watch list and the
  recording.

The first half of the module has a lemma for each operation of the cache, along the call graph from
`Remember` and `SetSlot` to `record_executed`, `finish_recording_at_trap` and
`note_trace_exit`. In the second each action preserves `IInv` (`StepInv`) and maps to a
step of `BatchContract` or to a stutter (`NextRefines`): probes, bails, exits, chains and
misses are invisible, a trace operation is the `Step` of its instruction. The heart of it is
`TraceGoes`: after an operation the guest is where its instruction goes, because the
recorded successor is the target unless the guard fails, and a failed guard leaves the trace.
Assumptions on the constants: sizes and lengths are positive, the chain budget is a
natural number, thresholds do not exceed the saturation of the counter.

Model-checked only: in `CpuCore` whatever lies beyond the hypotheses of its theorems (a missing
vector or interrupt stack, a jump to an odd address); everything with fairness
(`CallReturns` twice, the liveness properties of `CpuCore`), which is out of the prover's reach, as are
ENABLED and induction over data; and the modules
that compute (`Alu`, `RegOps`, `AluPrograms`, `Dispatch`, `MemOps`, `SimpleOps`,
`TraceOps`, `Tiers`), whose statements are about particular operations at particular
widths and rest on bitwise or recursive definitions. No module with a theorem uses a recursive operator.

## 5. Not modelled

- The machine code that Cranelift emits: `TraceJit` and `TraceOps` model the portable
  executor, which `trace_jit.rs` keeps as its counterpart; the emitters are generated
  operation by operation and cannot be checked at this level.
- Cycle counts and the tables of `timing*.rs`: constants from manuals. The 68060
  pairing state and branch cache change costs only.
- The FPU: 80-bit arithmetic is out of the reach of explicit-state checking.
- CALLM and RTM, the FP frames of the 68060, PMOVE from MMU registers.
- In `Tiers`: prefetch, loop mode and `change_of_flow` (they belong to `CpuCore`), odd
  jump targets (an address error at the next fetch), the if-converted `CondSkip` of a
  trace (`TraceJit` has its control).
- Pending interrupts, trace mode and STOP under `run_batch`: they make it leave the
  decoded loop, the case `env.fast = FALSE` of `TraceJit`.
- `trace_profile.rs`, the disassembler and `main.rs`: reports and text.

## 6. Plan

Done: `CpuCore`, `Mmu`, `CycleBatch` with their proofs; `TraceJit` as a refinement of
`BatchContract`; `Decode`; `AluPrograms`; `Tiers`. Left, in this order:

1. Proofs about `CpuCore` on hosts that unmap a supervisor stack or the vectors, where
   `Sound` has to hold only until the double fault.
2. `run_batch` as a third driver of `CpuCore`, which it leaves by resetting `run_mode`
   alone.
3. The boundary contract of the cycle runners, and `CycleBatch` as its refinement.
4. `Timing060` (branch cache and pairing state); exception enables and FSAVE/FRESTORE
   state of the FPU.
