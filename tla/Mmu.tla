-------------------------------- MODULE Mmu --------------------------------
(***************************************************************************)
(* The PMMU of the 68030, 68040 and 68060 and the data path through it:    *)
(* table walks, the address translation cache (ATC), transparent           *)
(* translation, page-straddling accesses, access faults and their frames,  *)
(* and the one-shot completions an RTE arms for the restarted instruction. *)
(*                                                                         *)
(* A Rust method is an operator from machine c to machine, with its name.  *)
(* Data is abstracted:                                                     *)
(*   - a logical address is a byte number, PageBytes bytes to a page;      *)
(*     logical and physical pages are small numbers;                       *)
(*   - tables are named; a descriptor is a record at a slot <<table, i>>;  *)
(*   - the datum of an access is not kept: c.log says which logical byte   *)
(*     went to which physical byte during the instruction attempt.         *)
(***************************************************************************)
EXTENDS Integers, Sequences, FiniteSets

CONSTANTS
    Hosts,       \* guests explored: model, tables, registers, instructions
    AtcEntries,  \* slots of the direct-mapped ATC (64 in the code)
    MaxFrames    \* bound: access-error frames outstanding

ASSUME AtcAssumption == AtcEntries \in Nat \ {0}
ASSUME FramesAssumption == MaxFrames \in Nat \ {0}
\* A guest's tables are a function from slots to descriptors
ASSUME HostsAssumption == \A h \in Hosts : h.tbl = [z \in DOMAIN h.tbl |-> h.tbl[z]]

\* An instruction as the decoder hands it to the data path: the size of its
\* operand, and an even address for instruction words
Encoded(i) ==
    /\ i.addr \in Nat
    /\ \/ i.op \in {"read", "write", "movesr", "movesw"} /\ i.size \in 1..4
       \/ i.op = "fetch" /\ i.size \in {2, 4} /\ i.addr % 2 = 0
       \/ i.op \in {"plpar", "plpaw", "pmovetc"} /\ i.size = 4
       \/ i.op = "pmovecrp" /\ i.size = 8
ASSUME GuestsAssumption ==
    \A h \in Hosts :
        /\ h.models \subseteq {"M68030", "M68040", "M68060"}
        /\ h.s \in BOOLEAN /\ h.fc \in 0..7 /\ h.probes \subseteq Nat
        /\ \A i \in h.code \cup h.irq :
              Encoded(i) /\ (i.op \in {"plpar", "plpaw"} => h.models = {"M68060"})
        /\ \A z \in DOMAIN h.tbl : h.tbl[z].page \in Nat
        /\ \A e \in h.edits : e.desc.page \in Nat

PageBytes == 4       \* bound: 256 bytes to 32 KB in the code
StackPage == 2       \* logical pages of the supervisor stack and the vectors
VectorPage == 3
Hole == 4            \* a physical page where nothing answers
TableAddr == 99      \* the physical address of a descriptor, as a fault address
None == -1
NoIns == [op |-> "none", addr |-> 0, size |-> 0]
NoProbe == [f |-> None]

Page(lb) == lb \div PageBytes
Fc(s, instr) == IF s THEN (IF instr THEN 6 ELSE 5) ELSE IF instr THEN 2 ELSE 1
Super(fc) == fc >= 4

faulted(c) == c.run_mode = "fault"
is_halted(c) == c.stopped /\ faulted(c)
Fixed(c) == c.cpu_type \in {"M68040", "M68060"}   \* the fixed three-level tables

----------------------------------------------------------------------------
(* Descriptors and table walks *)
Invalid == [dt |-> 0, tab |-> "none", page |-> 0, w |-> FALSE, s |-> FALSE]

Desc(c, t, i) == IF <<t, i>> \in DOMAIN c.tbl THEN c.tbl[<<t, i>>] ELSE Invalid

End(cause) == [end |-> cause, page |-> 0, w |-> FALSE, s |-> FALSE]

\* translate_040, the walk: root, pointer and page table.  W accumulates, S is
\* the page's own; an indirect descriptor contributes neither.
Resident(w, d, cause) ==
    IF d.dt = 0 THEN End(cause)
    ELSE [end |-> "Page", page |-> d.page, w |-> w \/ d.w, s |-> d.s]
WalkLeaf(c, w, d) ==
    IF d.dt # 2 THEN Resident(w, d, "PageFault")
    ELSE IF d.tab \in c.bad THEN End("TableWalkBusError")
    ELSE Resident(w, Desc(c, d.tab, 0), "Indirect")
WalkPage(c, f, w, d) ==
    IF d.dt < 2 THEN End("PointerB")
    ELSE IF d.tab \in c.bad THEN End("TableWalkBusError")
    ELSE WalkLeaf(c, w \/ d.w, Desc(c, d.tab, f % 2))
WalkPointer(c, f, d) ==
    IF d.dt < 2 THEN End("PointerA")
    ELSE IF d.tab \in c.bad THEN End("TableWalkBusError")
    ELSE WalkPage(c, f, d.w, Desc(c, d.tab, 0))
WalkRoot(c, f, root) ==
    IF root.tab \in c.bad THEN End("TableWalkBusError")
    ELSE WalkPointer(c, f, Desc(c, root.tab, f \div 2))
Walk040(c, f, sup) == WalkRoot(c, f, IF sup THEN c.srp ELSE c.crp)

\* walk_030: an optional function-code level, then c.tc.n address levels
Fcl(c) == IF c.tc.fcl THEN 1 ELSE 0
Levels030(c) == c.tc.n + Fcl(c)
Index(c, f, fc, li) ==
    CASE c.tc.fcl /\ li = 0 -> fc
      [] c.tc.n = 1 /\ li = Fcl(c) -> f
      [] c.tc.n > 1 /\ li = Fcl(c) -> f \div 2
      [] c.tc.n > 1 /\ li = Levels030(c) - 1 -> f % 2
      [] OTHER -> 0
\* low_bits: the page number bits the first li levels leave unconsumed
Rest(c, f, li) ==
    IF li = Fcl(c) THEN f ELSE IF li = Levels030(c) THEN 0 ELSE f % 2

\* An indirect descriptor: the target is fetched in the format it names
Indirect(c, x, d) ==
    IF d.tab \in c.bad THEN [x EXCEPT !.end = "TableWalkBusError", !.at = <<d.tab, 0>>]
    ELSE LET t == Desc(c, d.tab, 0)
         IN  [x EXCEPT !.at = <<d.tab, 0>>, !.w = @ \/ t.w, !.s = @ \/ (t.s /\ d.dt = 3),
                       !.end = IF t.dt = 1 THEN "Page" ELSE "Indirect", !.page = t.page]
\* d was fetched at x.at, the level x.levels
Fetched(c, f, x, d) ==
    IF d.dt = 0 THEN [x EXCEPT !.end = "PageFault"]
    ELSE IF d.dt = 1
    THEN [x EXCEPT !.end = "Page", !.w = @ \/ d.w, !.s = @ \/ (d.s /\ x.long),
                   !.page = d.page + Rest(c, f, x.levels)]
    ELSE IF x.levels < Levels030(c)
    THEN [x EXCEPT !.w = @ \/ d.w, !.s = @ \/ (d.s /\ x.long), !.tab = d.tab,
                   !.long = (d.dt = 3)]
    ELSE Indirect(c, x, d)
Level(c, f, fc, max, x) ==
    IF x.end # "walk" THEN x
    ELSE IF x.levels >= max THEN [x EXCEPT !.end = "LevelStop"]
    ELSE LET at == <<x.tab, Index(c, f, fc, x.levels)>>
         IN  IF x.tab \in c.bad THEN [x EXCEPT !.at = at, !.end = "TableWalkBusError"]
             ELSE Fetched(c, f, [x EXCEPT !.at = at, !.levels = @ + 1], Desc(c, at[1], at[2]))
Start030(c, root) ==
    [end |-> IF root.dt < 2 \/ Levels030(c) = 0 THEN "Config" ELSE "walk",
     tab |-> root.tab, long |-> root.dt = 3, w |-> FALSE, s |-> FALSE, levels |-> 0,
     at |-> <<root.tab, 0>>, page |-> 0]
\* At most four levels are configured here (FCL, TIA, TIB, TIC)
Walk030(c, f, fc, max) ==
    Level(c, f, fc, max, Level(c, f, fc, max, Level(c, f, fc, max, Level(c, f, fc, max,
        Start030(c, IF c.tc.sre /\ Super(fc) THEN c.srp ELSE c.crp)))))

----------------------------------------------------------------------------
(* The ATC: one entry per slot, tagged with page and privilege *)
Slot(f) == f % AtcEntries
NoEntry == [valid |-> FALSE, f |-> 0, sup |-> FALSE, page |-> 0, w |-> FALSE, s |-> FALSE]
Hit(e, f, sup, write) ==
    e.valid /\ e.f = f /\ e.sup = sup /\ ~(write /\ e.w) /\ ~(~sup /\ e.s)

\* Mutant: privilege is not in the tag
lookup_AnySpace(c, f, sup, write) ==
    LET e == c.atc[Slot(f)] IN e.valid /\ e.f = f /\ ~(write /\ e.w)

lookup(c, f, sup, write) == Hit(c.atc[Slot(f)], f, sup, write)

insert(c, f, sup, r) ==
    [c EXCEPT !.atc = [@ EXCEPT ![Slot(f)] =
        [valid |-> TRUE, f |-> f, sup |-> sup, page |-> r.page, w |-> r.w, s |-> r.s]]]

\* flush_all.  edited (ghost): the guest changed a live mapping since, and owes a flush
flush_all(c) == [c EXCEPT !.atc = [i \in DOMAIN @ |-> NoEntry], !.edited = FALSE]

----------------------------------------------------------------------------
(* Translation: r.c is the machine after it, r.page the physical page *)
Ok(c, page) == [c |-> c, ok |-> TRUE, page |-> page, cause |-> "none"]
Err(c, cause) == [c |-> c, ok |-> FALSE, page |-> 0, cause |-> cause]

Fill(c, f, write, sup, r) ==
    IF r.end # "Page" THEN Err(c, r.end)
    ELSE IF write /\ r.w THEN Err(c, "WriteProtect")
    ELSE IF ~sup /\ r.s THEN Err(c, "SupervisorProtect")
    ELSE Ok(insert(c, f, sup, r), r.page)
translate_040(c, f, write, sup) ==
    IF lookup(c, f, sup, write) THEN Ok(c, c.atc[Slot(f)].page)
    ELSE Fill(c, f, write, sup, Walk040(c, f, sup))

Checked030(c, write, sup, r) ==
    IF r.end # "Page" THEN Err(c, r.end)
    ELSE IF r.s /\ ~sup THEN Err(c, "SupervisorProtect")
    ELSE IF write /\ r.w THEN Err(c, "WriteProtect")
    ELSE Ok(c, r.page)
translate_030(c, f, write, sup, instr) ==
    Checked030(c, write, sup, Walk030(c, f, Fc(sup, instr), 7))

ttr_matches(t, f, fc) == f \in t.frames /\ fc \in t.fcs
ttr_matches_040(t, f, sup) == f \in t.frames /\ (t.s = "both" \/ (t.s = "super") = sup)

compute_function_code(c, instr) == IF c.ov # None THEN c.ov ELSE Fc(c.s, instr)

\* The enabled TT registers of the 68030, ITT/DTT of the 68040; none on others
check_transparent_translation(c, f, instr) ==
    CASE c.cpu_type = "M68030" -> \E t \in c.tt : ttr_matches(t, f, compute_function_code(c, instr))
      [] c.cpu_type = "M68040" ->
            \E t \in (IF instr THEN c.itt ELSE c.dtt) :
                ttr_matches_040(t, f, Super(compute_function_code(c, instr)))
      [] OTHER -> FALSE

Walked(c, f, write, sup, instr) ==
    IF check_transparent_translation(c, f, instr) THEN Ok(c, f)
    ELSE IF Fixed(c) THEN translate_040(c, f, write, sup)
    ELSE translate_030(c, f, write, sup, instr)
translate(c, f, write, instr) ==
    IF ~c.pmmu_enabled THEN Ok(c, f)
    ELSE IF c.ov # None THEN Walked(c, f, write, Super(c.ov), c.ov \in {2, 6})
    ELSE Walked(c, f, write, c.s, instr)

----------------------------------------------------------------------------
(* Access faults *)
\* A fault raised while a fault is being delivered halts; its cause stays pending
DoubleFault(c, cause) ==
    [c EXCEPT !.stopped = TRUE, !.run_mode = "fault",
              !.cause = IF cause = "none" THEN @ ELSE cause]

\* Record the n bytes of a completed bus cycle
Logged(c, lb, n, page, fc, write, instr) ==
    [c EXCEPT !.log = @ \cup
        { [lb |-> lb + k, pb |-> (page * PageBytes) + (lb % PageBytes) + k,
           fc |-> fc, write |-> write, instr |-> instr] : k \in 0..(n - 1) }]

\* The supervisor accesses of the delivery: frame pushes, then the vector fetch.
\* They translate like any other access; a fault in one of them is a double fault.
Delivery(t, lb, write) ==
    IF ~t.ok \/ t.page = Hole THEN DoubleFault(t.c, t.cause)
    ELSE Logged(t.c, lb, 1, t.page, 5, write, FALSE)
PushFrame(c) ==
    Delivery(translate([c EXCEPT !.wdata = [at |-> StackPage * PageBytes, size |-> 4]],
                       StackPage, TRUE, FALSE), StackPage * PageBytes, TRUE)
FetchVector(c) ==
    IF faulted(c) THEN c
    ELSE Delivery(translate(c, VectorPage, FALSE, FALSE), VectorPage * PageBytes, FALSE)
Deliver(c, frame) ==
    FetchVector(PushFrame([c EXCEPT !.s = TRUE, !.frames = Append(@, frame)]))

\* What the frame reports: address space, privilege, datum, the instruction to
\* restart, and whether a translation fault was pending (SSW.ATC)
Described(c, a) ==
    [a EXCEPT !.fc = IF c.ov # None THEN c.ov ELSE Fc(c.s, a.instr), !.s = c.s,
              !.data = c.wdata, !.ins = c.ins, !.handled = c.excused]

\* Mutants: the SFC/DFC override outlives the faulted cycle; the datum of the
\* frame is read after the pushes
exception_bus_error_KeepsOverride(c, a) ==
    [Deliver(c, Described(c, a)) EXCEPT !.ov = None]
exception_bus_error_LateData(c, a) ==
    Deliver([c EXCEPT !.ov = None],
            [Described(c, a) EXCEPT !.data = [at |-> StackPage * PageBytes, size |-> 4]])

\* a: the fault as the frame reports it.  The override and the datum of the
\* faulted write are taken before the frame is pushed.
exception_bus_error(c, a) ==
    Deliver([c EXCEPT !.ov = None], Described(c, a))

\* atc (SSW.ATC) is set when a translation fault is pending
FaultFrame(fa, size, write, instr) ==
    [kind |-> "access", fa |-> fa, size |-> size, write |-> write, instr |-> instr,
     atc |-> FALSE, fc |-> 0, s |-> FALSE, data |-> [at |-> 0, size |-> 0], ins |-> NoIns,
     handled |-> {}, df |-> TRUE]

EndFault(c) == [c EXCEPT !.run_mode = "fault"]
trigger_bus_error(c, a) ==
    IF faulted(c) THEN c
    ELSE EndFault(exception_bus_error([c EXCEPT !.cause = "none"],
                                      [a EXCEPT !.atc = c.cause # "none"]))

\* A configuration error takes vector 56; the override is still in force, and
\* the cause stays pending
ConfigurationError(c) ==
    EndFault(Deliver(c, [FaultFrame(0, 0, FALSE, FALSE) EXCEPT
                            !.kind = "config", !.s = c.s, !.ins = c.ins]))

\* The cause is recorded, the exception taken, the override dropped
TakeFault(c, fa, size, write, instr) ==
    IF c.cause = "Config" THEN ConfigurationError(c)
    ELSE trigger_bus_error(c, FaultFrame(fa, size, write, instr))
handle_mmu_fault(t, lb, size, write, instr) ==
    [TakeFault([t.c EXCEPT !.cause = t.cause],
               IF t.cause = "TableWalkBusError" THEN TableAddr ELSE lb, size, write, instr)
        EXCEPT !.ov = None]

----------------------------------------------------------------------------
(* The data path.  A cycle of n bytes inside one page, after its translation t. *)
\* A physical bus error reports the translated address.
Cycle(t, lb, n, write, instr, fc) ==
    IF ~t.ok THEN handle_mmu_fault(t, lb, n, write, instr)
    ELSE IF t.page = Hole
    THEN trigger_bus_error(t.c, FaultFrame((t.page * PageBytes) + (lb % PageBytes), n, write,
                                           instr))
    ELSE Logged(t.c, lb, n, t.page, fc, write, instr)

\* One-shot substitution of a read or a write a fault handler completed
ReadCycle(c, lb, n) ==
    IF c.rd = lb THEN [c EXCEPT !.rd = None]
    ELSE Cycle(translate(c, Page(lb), FALSE, FALSE), lb, n, FALSE, FALSE,
               compute_function_code(c, FALSE))
WriteCycle(c, lb, n) ==
    IF c.ws = lb THEN [c EXCEPT !.ws = None]
    ELSE Cycle(translate([c EXCEPT !.wdata = [at |-> lb, size |-> n]], Page(lb), TRUE, FALSE),
               lb, n, TRUE, FALSE, compute_function_code(c, FALSE))

\* An instruction word: no one-shots
FetchCycle(c, lb, n) ==
    Cycle(translate(c, Page(lb), FALSE, TRUE), lb, n, FALSE, TRUE, Fc(c.s, TRUE))

\* PLPAR/PLPAW (68060): An becomes the physical address, in the DFC space
Plpa(t, lb, write) ==
    IF ~t.ok THEN handle_mmu_fault(Err([t.c EXCEPT !.ov = None], t.cause), lb, 4, write, FALSE)
    ELSE [t.c EXCEPT !.ov = None,
             !.probe = [f |-> Page(lb), fc |-> t.c.dfc, write |-> write,
                        ok |-> TRUE, page |-> t.page]]
plpa(c, lb, write) == Plpa(translate([c EXCEPT !.ov = c.dfc], Page(lb), write, FALSE), lb, write)

BusCycle(c, k) ==
    CASE k.kind = "read" -> ReadCycle(c, k.lb, k.n)
      [] k.kind = "write" -> WriteCycle(c, k.lb, k.n)
      [] k.kind = "fetch" -> FetchCycle(c, k.lb, k.n)
      [] OTHER -> plpa(c, k.lb, k.kind = "plpaw")

----------------------------------------------------------------------------
(* The bus cycles of an access.  One that reaches into the next MMU page runs  *)
(* as smaller cycles, in address order, each translated on its own page.       *)
Straddles(c, lb, n) == c.pmmu_enabled /\ lb % PageBytes > PageBytes - n
One(kind, lb, n) == <<[kind |-> kind, lb |-> lb, n |-> n]>>

split_16(c, kind, lb) ==
    IF Straddles(c, lb, 2) THEN One(kind, lb, 1) \o One(kind, lb + 1, 1) ELSE One(kind, lb, 2)
split_24(c, kind, lb) ==
    IF Straddles(c, lb, 3) THEN split_16(c, kind, lb) \o One(kind, lb + 2, 1) ELSE One(kind, lb, 3)

split_32(c, kind, lb) ==
    IF Straddles(c, lb, 4) THEN split_16(c, kind, lb) \o split_16(c, kind, lb + 2)
    ELSE One(kind, lb, 4)
Split(c, kind, lb, n) ==
    CASE n = 1 -> One(kind, lb, 1) [] n = 2 -> split_16(c, kind, lb)
      [] n = 3 -> split_24(c, kind, lb) [] OTHER -> split_32(c, kind, lb)

\* read_imm_16 and read_imm_32: instruction words are even
split_imm(c, lb, n) ==
    IF n = 4 /\ Straddles(c, lb, 4) THEN One("fetch", lb, 2) \o One("fetch", lb + 2, 2)
    ELSE One("fetch", lb, n)

\* PMOVE <ea>,CRP reads two longs, <ea>,TC one
Cycles(c, i) ==
    CASE i.op \in {"read", "movesr"} -> Split(c, "read", i.addr, i.size)
      [] i.op \in {"write", "movesw"} -> Split(c, "write", i.addr, i.size)
      [] i.op = "fetch" -> split_imm(c, i.addr, i.size)
      [] i.op \in {"plpar", "plpaw"} -> One(i.op, i.addr, 4)
      [] i.op = "pmovecrp" -> Split(c, "read", i.addr, 4) \o Split(c, "read", i.addr + 4, 4)
      [] OTHER -> Split(c, "read", i.addr, 4)

----------------------------------------------------------------------------
(* Instructions that may fault and be restarted: Begin, then one cycle a step *)

\* exec_moves: the operand cycles run in the SFC or DFC space
moves_space(c, i) == CASE i.op = "movesr" -> c.sfc [] i.op = "movesw" -> c.dfc [] OTHER -> None

\* excused (ghost): the bytes a handler completed for this instruction
Begin(c, i, excused) ==
    [c EXCEPT !.ins = i, !.todo = Cycles(c, i), !.ov = moves_space(c, i), !.log = {},
              !.done = NoIns, !.probe = NoProbe, !.excused = excused]

\* PMOVE <ea>,CRP and <ea>,TC (exec_mmu_op0): a faulted operand read is zero and
\* is loaded all the same.  The ATC is not flushed, so a 68040 guest that uses
\* this 68030 form owes the flush itself (edited).
NoRoot == [tab |-> "none", dt |-> 0]
pmove(c) ==
    CASE c.ins.op = "pmovecrp" -> 
            [c EXCEPT !.crp = IF faulted(c) THEN NoRoot ELSE c.ins.root, !.edited = @ \/ Fixed(c)]
      [] c.ins.op = "pmovetc" -> [c EXCEPT !.pmmu_enabled = ~faulted(c) /\ c.ins.enable]
      [] OTHER -> c

\* A fault ends the instruction; so does its last cycle
Abandon(c) == [c EXCEPT !.todo = <<>>, !.run_mode = IF c.stopped THEN @ ELSE "normal"]
Retire_KeepsOverride(c) ==   \* Mutant: MOVES does not restore the address space
    IF faulted(c) THEN Abandon(pmove(c))
    ELSE IF c.todo = <<>> THEN [pmove(c) EXCEPT !.done = c.ins] ELSE c
Retire(c) ==
    IF faulted(c) THEN Abandon(pmove(c))
    ELSE IF c.todo = <<>> THEN [pmove(c) EXCEPT !.done = c.ins, !.ov = None] ELSE c

----------------------------------------------------------------------------
(* RTE of an access-error frame *)

\* The completions each model honours: a cleared DF on the 68030, a cleared
\* WB3S.V of a translation fault on the 68040
Absorbed(c, a) ==
    /\ a.kind = "access" /\ ~a.df /\ ~a.instr
    /\ \/ c.cpu_type = "M68030"
       \/ c.cpu_type = "M68040" /\ a.write /\ a.atc
Bytes(lb, n) == lb..(lb + n - 1)
rte_Unarmed(c, a) ==
    [c EXCEPT !.s = a.s, !.frames = SubSeq(@, 1, Len(@) - 1), !.restart = a.ins,
              !.handled = a.handled \cup (IF Absorbed(c, a) THEN Bytes(a.fa, a.size) ELSE {})]

\* Mutant: the fault direction is not looked at
rte_ArmsBoth(c, a) ==
    LET x == rte_Unarmed(c, a)
    IN  IF ~Absorbed(c, a) THEN x ELSE [x EXCEPT !.ws = a.fa, !.rd = a.fa]

rte(c, a) ==
    LET x == rte_Unarmed(c, a)
    IN  IF ~Absorbed(c, a) THEN x
        ELSE IF a.write THEN [x EXCEPT !.ws = a.fa] ELSE [x EXCEPT !.rd = a.fa]

----------------------------------------------------------------------------
VARIABLES c,     \* CpuCore's MMU state, its tables and the instruction under way
          host   \* the guest explored, fixed at the start
vars == <<c, host>>

PowerOn(h, type) ==
    [cpu_type |-> type, s |-> h.s, pmmu_enabled |-> TRUE, tc |-> h.tc,
     crp |-> h.crp, srp |-> h.srp, tt |-> h.ttr, itt |-> h.ttr, dtt |-> h.ttr,
     sfc |-> h.fc, dfc |-> h.fc, ov |-> None, mmu_sr |-> 0,
     atc |-> [i \in 0..(AtcEntries - 1) |-> NoEntry],
     rd |-> None, ws |-> None, wdata |-> [at |-> 0, size |-> 0],
     run_mode |-> "normal", stopped |-> FALSE, cause |-> "none",
     frames |-> <<>>, todo |-> <<>>, restart |-> NoIns, ins |-> NoIns, done |-> NoIns,
     tbl |-> h.tbl, bad |-> h.bad, edited |-> FALSE, log |-> {}, probe |-> NoProbe,
     handled |-> {}, excused |-> {}]

Init == host \in Hosts /\ \E type \in host.models : c = PowerOn(host, type)

InHandler == c.frames # <<>>
Boundary == ~is_halted(c) /\ c.todo = <<>>
Kernel == Boundary /\ c.s /\ c.restart = NoIns
Quiet(x) == [x EXCEPT !.log = {}, !.done = NoIns, !.probe = NoProbe]

\* The guest starts its next instruction
Execute ==
    /\ Boundary /\ ~InHandler /\ c.restart = NoIns
    /\ \E i \in host.code : c' = Begin([c EXCEPT !.handled = {}], i, {})
    /\ UNCHANGED host

\* The instruction an RTE returned to is started again
Restart ==
    /\ Boundary /\ c.restart # NoIns /\ Len(c.frames) < MaxFrames
    /\ c' = Begin([c EXCEPT !.restart = NoIns], c.restart, c.handled)
    /\ UNCHANGED host

\* The next bus cycle of the instruction under way
NextCycle ==
    /\ ~is_halted(c) /\ c.todo # <<>>
    /\ c' = Retire(BusCycle([c EXCEPT !.todo = Tail(@)], Head(c.todo)))
    /\ UNCHANGED host

\* An interrupt on the boundary: its handler runs one access in supervisor
\* state, then returns to what was pending (its own frame is taken as resident)
Interrupt ==
    /\ Boundary /\ Len(c.frames) + 1 < MaxFrames
    /\ \E i \in host.irq :
          c' = [Quiet(c) EXCEPT !.s = TRUE, !.restart = i, !.handled = {},
                  !.frames = Append(@, [FaultFrame(0, 0, FALSE, FALSE) EXCEPT
                     !.kind = "irq", !.s = c.s, !.ins = c.restart, !.handled = c.handled])]
    /\ UNCHANGED host

\* The operating system writes a descriptor (its own stores are untranslated
\* here).  Only the rewriting of a resident descriptor calls for a flush.
WriteDescriptor ==
    /\ Kernel
    /\ \E e \in host.edits :
          /\ c.tbl[e.slot] # e.desc
          /\ c' = [Quiet(c) EXCEPT !.tbl = [@ EXCEPT ![e.slot] = e.desc],
                                   !.edited = @ \/ c.tbl[e.slot].dt # 0]
    /\ UNCHANGED host

\* PFLUSH, PFLUSHA, PFLUSHN (every form flushes all)
Pflush ==
    /\ Kernel /\ Fixed(c)
    /\ c' = flush_all(Quiet(c))
    /\ UNCHANGED host

\* Mutant: a root pointer write keeps the ATC
movec_NoFlush(x, reg, v) ==
    CASE reg = "urp" -> [x EXCEPT !.crp = v]
      [] reg = "tc" -> flush_all([x EXCEPT !.pmmu_enabled = v])
      [] OTHER -> flush_all([x EXCEPT !.dtt = v, !.itt = v])

movec(x, reg, v) ==
    CASE reg = "urp" -> flush_all([x EXCEPT !.crp = v])
      [] reg = "tc" -> flush_all([x EXCEPT !.pmmu_enabled = v])
      [] OTHER -> flush_all([x EXCEPT !.dtt = v, !.itt = v])
Movec ==
    /\ Kernel /\ Fixed(c)
    /\ \E w \in host.movec : c' = movec(Quiet(c), w.reg, w.val)
    /\ UNCHANGED host

\* PTEST on the 68040: translate in the DFC space and report residency
Ptest(t, f, write) ==
    [t.c EXCEPT !.ov = None, !.mmu_sr = IF t.ok THEN t.page + 1 ELSE 0,
                !.probe = [f |-> f, fc |-> t.c.dfc, write |-> write, ok |-> t.ok,
                           page |-> t.page]]
Ptest040 ==
    /\ Kernel /\ c.cpu_type = "M68040"
    /\ \E f \in host.probes, write \in BOOLEAN :
          c' = Ptest(translate([Quiet(c) EXCEPT !.ov = c.dfc], f, write, FALSE), f, write)
    /\ UNCHANGED host

\* ptest_030: MMUSR with none of B, I, S, and W clear for a write
Usable030(w, fc, write) ==
    /\ w.end \in {"Page", "LevelStop"}
    /\ ~(w.s /\ ~Super(fc))
    /\ ~(write /\ w.w)
Ptest030 ==
    /\ Kernel /\ c.cpu_type = "M68030"
    /\ \E f \in host.probes, write \in BOOLEAN, level \in {1, 7} :
       \E w \in {Walk030(c, f, c.dfc, level)} :
          c' = [Quiet(c) EXCEPT !.mmu_sr = w.levels,
                  !.probe = IF level # 7 THEN NoProbe
                            ELSE [f |-> f, fc |-> c.dfc, write |-> write,
                                  ok |-> Usable030(w, c.dfc, write), page |-> w.page]]
    /\ UNCHANGED host

\* The fault handler completes the faulted cycle itself (clears DF or WB3S.V)
CompleteCycle ==
    /\ Kernel /\ InHandler /\ host.completes
    /\ c.frames[Len(c.frames)].kind = "access" /\ c.frames[Len(c.frames)].df
    /\ c' = [Quiet(c) EXCEPT !.frames[Len(c.frames)].df = FALSE]
    /\ UNCHANGED host

\* pulse_reset: translation and the TTRs off, the ATC empty, registers kept
Reset ==
    /\ host.resets /\ c.todo = <<>>
    /\ c' = flush_all([Quiet(c) EXCEPT
                !.s = TRUE, !.pmmu_enabled = FALSE, !.tt = {}, !.itt = {}, !.dtt = {},
                !.stopped = FALSE, !.run_mode = "normal", !.frames = <<>>,
                !.restart = NoIns, !.handled = {}, !.excused = {}])
    /\ UNCHANGED host

Rte ==
    /\ Kernel /\ InHandler
    /\ c' = rte(Quiet(c), c.frames[Len(c.frames)])
    /\ UNCHANGED host

Next == \/ Execute \/ Restart \/ NextCycle \/ Interrupt \/ WriteDescriptor \/ Pflush \/ Movec
        \/ Ptest040 \/ Ptest030 \/ CompleteCycle \/ Rte \/ Reset

Spec == Init /\ [][Next]_vars

----------------------------------------------------------------------------
(* Properties *)

\* What the tables say now, written as the set of descriptors on the path
Root(x, sup) == IF sup THEN x.srp.tab ELSE x.crp.tab
RootDesc(x, f, sup) == Desc(x, Root(x, sup), f \div 2)
PtrDesc(x, f, sup) == Desc(x, RootDesc(x, f, sup).tab, 0)
LeafDesc(x, f, sup) == Desc(x, PtrDesc(x, f, sup).tab, f % 2)
PageDesc(x, f, sup) ==
    IF LeafDesc(x, f, sup).dt = 2 THEN Desc(x, LeafDesc(x, f, sup).tab, 0) ELSE LeafDesc(x, f, sup)
Mapped(x, f, sup) ==
    /\ {Root(x, sup), RootDesc(x, f, sup).tab, PtrDesc(x, f, sup).tab} \cap x.bad = {}
    /\ LeafDesc(x, f, sup).dt = 2 => LeafDesc(x, f, sup).tab \notin x.bad
    /\ ~(RootDesc(x, f, sup).dt < 2) /\ ~(PtrDesc(x, f, sup).dt < 2)
    /\ PageDesc(x, f, sup).dt # 0
ReadOnly(x, f, sup) ==
    RootDesc(x, f, sup).w \/ PtrDesc(x, f, sup).w \/ PageDesc(x, f, sup).w

Transparent(x, f, fc, instr) ==
    IF Fixed(x) THEN \E t \in (IF instr THEN x.itt ELSE x.dtt) : ttr_matches_040(t, f, Super(fc))
    ELSE \E t \in x.tt : ttr_matches(t, f, fc)

\* The tables let an access of this kind through, to physical page q
Allows040(x, f, fc, write, q) ==
    /\ Mapped(x, f, Super(fc)) /\ q = PageDesc(x, f, Super(fc)).page
    /\ write => ~ReadOnly(x, f, Super(fc))
    /\ PageDesc(x, f, Super(fc)).s => Super(fc)
Allows030(x, f, fc, write, q) ==
    \E w \in {Walk030(x, f, fc, 7)} :
        w.end = "Page" /\ q = w.page /\ ~(write /\ w.w) /\ ~(w.s /\ ~Super(fc))
TablesAllow(x, f, fc, write, q) ==
    IF Fixed(x) THEN Allows040(x, f, fc, write, q) ELSE Allows030(x, f, fc, write, q)
Allows(x, f, fc, write, instr, q) ==
    IF ~x.pmmu_enabled \/ Transparent(x, f, fc, instr) THEN q = f
    ELSE TablesAllow(x, f, fc, write, q)

\* The operating system owes a flush: a live descriptor was rewritten
Owed == c.edited /\ Fixed(c)

Frame == [kind : {"access", "config", "irq"}, fa : Nat, size : 0..4, write : BOOLEAN,
          instr : BOOLEAN, atc : BOOLEAN, fc : 0..7, s : BOOLEAN,
          data : [at : Nat, size : 0..4], ins : host.code \cup host.irq \cup {NoIns},
          handled : SUBSET Nat, df : BOOLEAN]

\* TypeOK: the fields keep their types, and the SFC/DFC override and the fault
\* latch are transient within one instruction (cpu.rs, mmu_fc_override).
TypeOK ==
    /\ c.todo = <<>> => c.ov = None
    /\ c.run_mode = "fault" <=> c.stopped
    /\ c.restart \in host.code \cup host.irq \cup {NoIns}
    /\ \A i \in DOMAIN c.atc : c.atc[i].valid => Slot(c.atc[i].f) = i
    /\ \A n \in 1..Len(c.frames) : c.frames[n] \in Frame
    /\ Len(c.frames) <= MaxFrames

\* Entry e says what the tables and root pointers of x say now
Agrees(x, e) ==
    /\ Mapped(x, e.f, e.sup)
    /\ e.page = PageDesc(x, e.f, e.sup).page
    /\ e.w = ReadOnly(x, e.f, e.sup)
    /\ e.s = PageDesc(x, e.f, e.sup).s

\* AtcCoherent: when no flush is owed, every valid ATC entry says exactly what
\* the tables and root pointers say for its page and privilege, protection bits
\* included (atc.rs: "a pure cache: it holds nothing that backing memory does not").
AtcCoherent ==
    Fixed(c) /\ ~c.edited => \A i \in DOMAIN c.atc : c.atc[i].valid => Agrees(c, c.atc[i])

\* TranslationCurrent: every byte an instruction attempt transferred (operands,
\* instruction words, frame pushes and the vector fetch) went to the physical
\* page, and under the protection, that the tables and TTRs give its own address
\* space: read_*/write_*, exec_moves and exception_bus_error over translate.
TranslationCurrent ==
    ~Owed /\ c.ins.op \notin {"pmovecrp", "pmovetc"} =>
        \A e \in c.log :
            /\ e.pb % PageBytes = e.lb % PageBytes
            /\ Allows(c, Page(e.lb), e.fc, e.write, e.instr, Page(e.pb))

\* AccessComplete: an instruction that retires has transferred every byte of its
\* operand, in the direction it asked for, except the bytes its own fault handler
\* completed (cpu.rs, mmu_read_override / mmu_write_suppress; the page-straddling
\* halves of read_*/write_*/read_imm_32).
AccessComplete ==
    c.done.op \in {"read", "write", "movesr", "movesw", "fetch"} =>
        Bytes(c.done.addr, c.done.size) \subseteq
            c.excused \cup {e.lb : e \in {d \in c.log : d.write = (c.done.op \in {"write", "movesw"})}}

\* FrameFaithful: the frame of a translation fault names a byte of the operand of
\* the instruction it restarts, the address space of that access and, for a
\* write, the datum that belongs at that address, so the handler's writeback
\* (WB3A/WB3D, data output buffer) stores what the guest was storing.
FrameFaithful ==
    \A n \in 1..Len(c.frames) : \E a \in {c.frames[n]} :
        a.kind = "access" /\ a.atc /\ a.fa # TableAddr =>
            /\ a.fa \in Bytes(a.ins.addr, IF a.ins.op = "pmovecrp" THEN 8 ELSE a.ins.size)
            /\ a.fc = (CASE a.ins.op = "movesr" -> c.sfc [] a.ins.op = "movesw" -> c.dfc
                         [] OTHER -> Fc(a.s, a.instr))
            /\ a.write /\ a.ins.op # "plpaw" => a.data = [at |-> a.fa, size |-> a.size]

\* HaltJustified: the CPU halts on a double fault only when supervisor data
\* accesses really cannot reach the stack or the vector table
\* (trigger_bus_error under exception_processing).
HaltJustified ==
    is_halted(c) /\ ~Owed =>
        \/ ~\E q \in 0..(Hole - 1) : Allows(c, StackPage, 5, TRUE, FALSE, q)
        \/ ~\E q \in 0..(Hole - 1) : Allows(c, VectorPage, 5, FALSE, FALSE, q)

\* PtestAgrees: PTEST and PLPA report a page usable exactly when an access of
\* that kind in the probed space goes through, and report where it goes
\* (decode.rs PTEST/PLPA over translate; ptest_030 over walk_030).
PtestAgrees ==
    c.probe # NoProbe /\ ~Owed =>
        IF c.cpu_type = "M68030"
        THEN c.probe.ok <=> \E q \in {Walk030(c, c.probe.f, c.probe.fc, 7).page} :
                               TablesAllow(c, c.probe.f, c.probe.fc, c.probe.write, q)
        ELSE IF c.probe.ok
        THEN Allows(c, c.probe.f, c.probe.fc, c.probe.write, FALSE, c.probe.page)
        ELSE ~\E q \in 0..Hole : Allows(c, c.probe.f, c.probe.fc, c.probe.write, FALSE, q)

\* TablesDecide: whichever way a page is reached, by an access or by a probe, the
\* tables as they stand decide the answer (translate).
TablesDecide == TranslationCurrent /\ PtestAgrees
=============================================================================
