----------------------------- MODULE Mmu_proofs -----------------------------
(***************************************************************************)
(* The ATC is a pure cache: Spec => []AtcCoherent, for every set of guests *)
(* and every ATC size.                                                     *)
(*                                                                         *)
(* Keep(x, y) says that a method that turns machine x into y left the      *)
(* mapping (tables and root pointers) alone and kept the ATC coherent.     *)
(* Every method of the data path and of the fault delivery is shown to     *)
(* Keep, following the call graph; the actions that change the mapping     *)
(* either flush, or owe a flush, or only fill a slot no translation used.  *)
(***************************************************************************)
EXTENDS Mmu, TLAPS

Fields == {"cpu_type", "s", "pmmu_enabled", "tc", "crp", "srp", "tt", "itt", "dtt", "sfc",
           "dfc", "ov", "mmu_sr", "atc", "rd", "ws", "wdata", "run_mode", "stopped", "cause",
           "frames", "todo", "restart", "ins", "done", "tbl", "bad", "edited", "log", "probe",
           "handled", "excused"}
Slots == 0..(AtcEntries - 1)

\* x has the fields of a machine, and its ATC and tables are functions
Machine(x) ==
    /\ x = [n \in Fields |-> x[n]]
    /\ x.atc = [i \in Slots |-> x.atc[i]]
    /\ x.tbl = [z \in DOMAIN x.tbl |-> x.tbl[z]]

\* The coherence of the ATC of machine x
Good(x) == Fixed(x) /\ ~x.edited => \A i \in Slots : x.atc[i].valid => Agrees(x, x.atc[i])

\* The mapping of y is that of x
Same(x, y) ==
    /\ y.cpu_type = x.cpu_type /\ y.tbl = x.tbl /\ y.bad = x.bad
    /\ y.crp = x.crp /\ y.srp = x.srp /\ y.edited = x.edited
Keep(x, y) == Machine(y) /\ Same(x, y) /\ (Good(x) => Good(y))

----------------------------------------------------------------------------
\* What an entry says is judged by the mapping alone.
LEMMA SameAgrees ==
    ASSUME NEW x, NEW y, Same(x, y), NEW e
    PROVE  Agrees(x, e) <=> Agrees(y, e)
<1>1. \A t, i : Desc(x, t, i) = Desc(y, t, i)
  BY DEF Same, Desc
<1>2. Root(x, e.sup) = Root(y, e.sup)
  BY DEF Same, Root
<1>3. RootDesc(x, e.f, e.sup) = RootDesc(y, e.f, e.sup)
  BY <1>1, <1>2 DEF RootDesc
<1>4. PtrDesc(x, e.f, e.sup) = PtrDesc(y, e.f, e.sup)
  BY <1>1, <1>3 DEF PtrDesc
<1>5. LeafDesc(x, e.f, e.sup) = LeafDesc(y, e.f, e.sup)
  BY <1>1, <1>4 DEF LeafDesc
<1>6. PageDesc(x, e.f, e.sup) = PageDesc(y, e.f, e.sup)
  BY <1>1, <1>5 DEF PageDesc
<1>7. x.bad = y.bad
  BY DEF Same
<1> QED BY <1>2, <1>3, <1>4, <1>5, <1>6, <1>7 DEF Agrees, Mapped, ReadOnly

\* A method that touches neither the mapping nor the ATC keeps coherence.
LEMMA Steady ==
    ASSUME NEW x, NEW y, Machine(y), Same(x, y), y.atc = x.atc
    PROVE  Keep(x, y)
BY SameAgrees DEF Keep, Good, Same, Fixed

\* Methods compose.
LEMMA KeepTrans ==
    ASSUME NEW x, NEW y, NEW z, Keep(x, y), Keep(y, z)
    PROVE  Keep(x, z)
BY DEF Keep, Same

\* Machines keep themselves.
LEMMA KeepRefl == ASSUME NEW x, Machine(x) PROVE Keep(x, x)
BY DEF Keep, Same

\* What translate_040's walk returns for a resident page is what the
\* descriptors on its path say.
LEMMA WalkAgrees ==
    ASSUME NEW x, NEW f, NEW sup, Walk040(x, f, sup).end = "Page"
    PROVE  /\ Mapped(x, f, sup)
           /\ Walk040(x, f, sup).page = PageDesc(x, f, sup).page
           /\ Walk040(x, f, sup).w = ReadOnly(x, f, sup)
           /\ Walk040(x, f, sup).s = PageDesc(x, f, sup).s
<1> DEFINE r == RootDesc(x, f, sup)
           p == PtrDesc(x, f, sup)
           l == LeafDesc(x, f, sup)
           d == PageDesc(x, f, sup)
<1>1. Walk040(x, f, sup) = IF Root(x, sup) \in x.bad THEN End("TableWalkBusError")
                           ELSE WalkPointer(x, f, r)
  BY DEF Walk040, WalkRoot, Root, RootDesc
<1>2. Root(x, sup) \notin x.bad /\ Walk040(x, f, sup) = WalkPointer(x, f, r)
  <2> HIDE DEF r
  <2> QED BY <1>1 DEF End
<1>3. ~(r.dt < 2) /\ r.tab \notin x.bad /\ Walk040(x, f, sup) = WalkPage(x, f, r.w, p)
  <2>1. p = Desc(x, r.tab, 0)  BY DEF PtrDesc
  <2> HIDE DEF r, p
  <2> QED BY <1>2, <2>1 DEF WalkPointer, End
<1>4. ~(p.dt < 2) /\ p.tab \notin x.bad /\ Walk040(x, f, sup) = WalkLeaf(x, r.w \/ p.w, l)
  <2>1. l = Desc(x, p.tab, f % 2)  BY DEF LeafDesc
  <2> HIDE DEF r, p, l
  <2> QED BY <1>3, <2>1 DEF WalkPage, End
<1>5. /\ l.dt = 2 => l.tab \notin x.bad
      /\ \/ Walk040(x, f, sup) = Resident(r.w \/ p.w, d, "PageFault")
         \/ Walk040(x, f, sup) = Resident(r.w \/ p.w, d, "Indirect")
  <2>1. d = IF l.dt = 2 THEN Desc(x, l.tab, 0) ELSE l  BY DEF PageDesc
  <2> HIDE DEF r, p, l, d
  <2> QED BY <1>4, <2>1 DEF WalkLeaf, End
<1>6. /\ d.dt # 0
      /\ Walk040(x, f, sup) = [end |-> "Page", page |-> d.page, w |-> (r.w \/ p.w) \/ d.w, s |-> d.s]
  <2> HIDE DEF r, p, l, d
  <2> QED BY <1>5 DEF Resident, End
<1>7. ReadOnly(x, f, sup) = ((r.w \/ p.w) \/ d.w)
  BY DEF ReadOnly
<1>8. Mapped(x, f, sup)
  BY <1>2, <1>3, <1>4, <1>5, <1>6 DEF Mapped
<1> HIDE DEF r, p, l, d
<1>9. Walk040(x, f, sup).w = ((r.w \/ p.w) \/ d.w)
  BY <1>6
<1>10. Walk040(x, f, sup).page = d.page /\ Walk040(x, f, sup).s = d.s
  BY <1>6
<1> QED BY <1>7, <1>8, <1>9, <1>10 DEF d

\* A fill with the result of a fresh walk keeps the ATC coherent.
LEMMA InsertKeeps ==
    ASSUME NEW x, Machine(x), NEW f, NEW sup, Walk040(x, f, sup).end = "Page"
    PROVE  Keep(x, insert(x, f, sup, Walk040(x, f, sup)))
<1> DEFINE e == [valid |-> TRUE, f |-> f, sup |-> sup, page |-> Walk040(x, f, sup).page,
                 w |-> Walk040(x, f, sup).w, s |-> Walk040(x, f, sup).s]
           y == insert(x, f, sup, Walk040(x, f, sup))
<1>1. y = [x EXCEPT !.atc = [@ EXCEPT ![Slot(f)] = e]]
  BY DEF insert
<1>2. Machine(y) /\ Same(x, y)
  <2> HIDE DEF e
  <2>1. y.atc = [x.atc EXCEPT ![Slot(f)] = e]  BY <1>1 DEF Machine, Fields
  <2>2. y = [n \in Fields |-> y[n]]  BY <1>1 DEF Machine
  <2>3. y.tbl = x.tbl  BY <1>1 DEF Machine, Fields
  <2>4. Same(x, y)  BY <1>1, <2>3 DEF Machine, Fields, Same
  <2> HIDE DEF y
  <2> QED BY <2>1, <2>2, <2>3, <2>4 DEF Machine
<1>3. \A i \in Slots : y.atc[i] = IF i = Slot(f) THEN e ELSE x.atc[i]
  <2> HIDE DEF e
  <2> QED BY <1>1 DEF Machine, Fields
<1>4. Agrees(x, e)
  <2> HIDE DEF y
  <2> QED BY WalkAgrees DEF Agrees
<1>5. Good(x) => Good(y)
  <2> HIDE DEF e, y
  <2> QED BY <1>2, <1>3, <1>4, SameAgrees DEF Good, Same, Fixed
<1> QED BY <1>2, <1>5 DEF Keep

----------------------------------------------------------------------------
(* The methods, from the leaves of the call graph up *)

\* translate_040 either hits, faults, or fills from a fresh walk.
LEMMA Translate040Keeps ==
    ASSUME NEW x, Machine(x), NEW f, NEW write, NEW sup
    PROVE  Keep(x, translate_040(x, f, write, sup).c)
<1>1. Keep(x, Fill(x, f, write, sup, Walk040(x, f, sup)).c)
  <2>1. CASE Fill(x, f, write, sup, Walk040(x, f, sup)).c = x
    BY <2>1, KeepRefl
  <2>2. CASE Fill(x, f, write, sup, Walk040(x, f, sup)).c # x
    <3>1. /\ Walk040(x, f, sup).end = "Page"
          /\ Fill(x, f, write, sup, Walk040(x, f, sup)).c = insert(x, f, sup, Walk040(x, f, sup))
      BY <2>2 DEF Fill, Err, Ok
    <3> QED BY <3>1, InsertKeeps
  <2> QED BY <2>1, <2>2
<1> QED BY <1>1, KeepRefl DEF translate_040, Ok

\* translate fills the ATC on the 68040 and 68060 and changes nothing else.
LEMMA TranslateKeeps ==
    ASSUME NEW x, Machine(x), NEW f, NEW write, NEW instr
    PROVE  Keep(x, translate(x, f, write, instr).c)
<1>1. ASSUME NEW sup, NEW i
      PROVE  Keep(x, Walked(x, f, write, sup, i).c)
  <2>1. translate_030(x, f, write, sup, i).c = x
    BY DEF translate_030, Checked030, Err, Ok
  <2> QED BY <2>1, Translate040Keeps, KeepRefl DEF Walked, Ok
<1> QED BY <1>1, KeepRefl DEF translate, Ok

\* A double fault parks the CPU.
LEMMA DoubleFaultKeeps ==
    ASSUME NEW x, Machine(x), NEW cause
    PROVE  Keep(x, DoubleFault(x, cause))
<1> DEFINE y == DoubleFault(x, cause)
<1>1. Machine(y) /\ Same(x, y) /\ y.atc = x.atc
  BY DEF DoubleFault, Machine, Fields, Same
<1> QED BY <1>1, Steady

\* A completed cycle is recorded.
LEMMA LoggedKeeps ==
    ASSUME NEW x, Machine(x), NEW lb, NEW n, NEW page, NEW fc, NEW write, NEW instr
    PROVE  Keep(x, Logged(x, lb, n, page, fc, write, instr))
<1> DEFINE y == Logged(x, lb, n, page, fc, write, instr)
<1>1. \E v : y = [x EXCEPT !.log = v]
  BY DEF Logged
<1>2. Machine(y) /\ Same(x, y) /\ y.atc = x.atc
  BY <1>1 DEF Machine, Fields, Same
<1> QED BY <1>2, Steady

\* One access of the delivery, after its translation t.
LEMMA DeliveryKeeps ==
    ASSUME NEW x, NEW t, Keep(x, t.c), NEW lb, NEW write
    PROVE  Keep(x, Delivery(t, lb, write))
<1>1. Machine(t.c)
  BY DEF Keep
<1>2. Keep(t.c, Delivery(t, lb, write))
  BY <1>1, DoubleFaultKeeps, LoggedKeeps DEF Delivery
<1> QED BY <1>2, KeepTrans

\* The frame pushes and the vector fetch of the delivery.
LEMMA DeliverKeeps ==
    ASSUME NEW x, Machine(x), NEW frame
    PROVE  Keep(x, Deliver(x, frame))
<1> DEFINE a == [x EXCEPT !.s = TRUE, !.frames = Append(@, frame)]
           b == [a EXCEPT !.wdata = [at |-> StackPage * PageBytes, size |-> 4]]
           p == PushFrame(a)
<1>1. Keep(x, a)
  <2>1. Machine(a) /\ Same(x, a) /\ a.atc = x.atc
    BY DEF Machine, Fields, Same
  <2> QED BY <2>1, Steady
<1>2. Keep(x, b)
  <2>1. Machine(a)  BY <1>1 DEF Keep
  <2> HIDE DEF a
  <2>2. Machine(b) /\ Same(a, b) /\ b.atc = a.atc
    BY <2>1 DEF Machine, Fields, Same
  <2>3. Keep(a, b)
    BY <2>2, Steady
  <2> QED BY <1>1, <2>3, KeepTrans
<1>3. Keep(x, p)
  <2>1. p = Delivery(translate(b, StackPage, TRUE, FALSE), StackPage * PageBytes, TRUE)
    BY DEF PushFrame
  <2>2. Machine(b)  BY <1>2 DEF Keep
  <2> HIDE DEF a, b, p
  <2>3. Keep(x, translate(b, StackPage, TRUE, FALSE).c)
    BY <1>2, <2>2, TranslateKeeps, KeepTrans
  <2> QED BY <2>1, <2>3, DeliveryKeeps
<1>4. Keep(x, FetchVector(p))
  <2>1. Machine(p)  BY <1>3 DEF Keep
  <2> HIDE DEF p
  <2>2. Keep(x, translate(p, VectorPage, FALSE, FALSE).c)
    BY <1>3, <2>1, TranslateKeeps, KeepTrans
  <2> QED BY <1>3, <2>2, DeliveryKeeps DEF FetchVector
<1>5. Deliver(x, frame) = FetchVector(p)
  BY DEF Deliver
<1> QED BY <1>4, <1>5

\* A change of the override, the pending cause, the run mode or the queue of
\* cycles is no change of the mapping.
LEMMA FieldKeeps ==
    ASSUME NEW x, Machine(x), NEW v
    PROVE  /\ Keep(x, [x EXCEPT !.ov = v])
           /\ Keep(x, [x EXCEPT !.cause = v])
           /\ Keep(x, [x EXCEPT !.run_mode = v])
           /\ Keep(x, [x EXCEPT !.rd = v])
           /\ Keep(x, [x EXCEPT !.ws = v])
           /\ Keep(x, [x EXCEPT !.wdata = v])
           /\ Keep(x, [x EXCEPT !.todo = v])
<1>1. ASSUME NEW y, \/ y = [x EXCEPT !.ov = v] \/ y = [x EXCEPT !.cause = v]
                    \/ y = [x EXCEPT !.run_mode = v] \/ y = [x EXCEPT !.rd = v]
                    \/ y = [x EXCEPT !.ws = v] \/ y = [x EXCEPT !.wdata = v]
                    \/ y = [x EXCEPT !.todo = v]
      PROVE  Keep(x, y)
  <2>1. Machine(y) /\ Same(x, y) /\ y.atc = x.atc
    BY <1>1 DEF Machine, Fields, Same
  <2> QED BY <2>1, Steady
<1> QED BY <1>1

\* trigger_bus_error: the frame is delivered, the instruction ended.
LEMMA TriggerKeeps ==
    ASSUME NEW x, Machine(x), NEW a
    PROVE  Keep(x, trigger_bus_error(x, a))
<1> DEFINE p == [x EXCEPT !.cause = "none"]
           q == [p EXCEPT !.ov = None]
           b == [a EXCEPT !.atc = x.cause # "none"]
           d == Deliver(q, Described(p, b))
<1>1. Keep(x, p) /\ Machine(p)
  <2>1. Keep(x, p)  BY FieldKeeps
  <2> QED BY <2>1 DEF Keep
<1>2. Keep(x, q) /\ Machine(q)
  <2> HIDE DEF p
  <2>1. Keep(p, q)  BY <1>1, FieldKeeps
  <2> QED BY <1>1, <2>1, KeepTrans DEF Keep
<1>3. Keep(x, d) /\ Machine(d)
  <2> HIDE DEF q
  <2>1. Keep(q, d)  BY <1>2, DeliverKeeps
  <2> QED BY <1>2, <2>1, KeepTrans DEF Keep
<1>4. Keep(x, EndFault(d))
  <2> HIDE DEF d
  <2>1. Keep(d, EndFault(d))  BY <1>3, FieldKeeps DEF EndFault
  <2> QED BY <1>3, <2>1, KeepTrans
<1>5. trigger_bus_error(x, a) = IF faulted(x) THEN x ELSE EndFault(d)
  BY DEF trigger_bus_error, exception_bus_error
<1> QED BY <1>4, <1>5, KeepRefl

\* handle_mmu_fault, on a failed translation t.
LEMMA HandleKeeps ==
    ASSUME NEW x, NEW t, Keep(x, t.c), NEW lb, NEW size, NEW write, NEW instr
    PROVE  Keep(x, handle_mmu_fault(t, lb, size, write, instr))
<1> DEFINE p == [t.c EXCEPT !.cause = t.cause]
           fa == IF t.cause = "TableWalkBusError" THEN TableAddr ELSE lb
           d == TakeFault(p, fa, size, write, instr)
<1>1. Keep(x, p) /\ Machine(p)
  <2>1. Machine(t.c)  BY DEF Keep
  <2>2. Keep(t.c, p)  BY <2>1, FieldKeeps
  <2> QED BY <2>2, KeepTrans DEF Keep
<1>2. Keep(x, d) /\ Machine(d)
  <2> HIDE DEF p, fa
  <2>1. Keep(p, ConfigurationError(p))
    <3> DEFINE e == Deliver(p, [FaultFrame(0, 0, FALSE, FALSE) EXCEPT
                                  !.kind = "config", !.s = p.s, !.ins = p.ins])
    <3>1. Keep(p, e) /\ Machine(e)
      <4>1. Keep(p, e)  BY <1>1, DeliverKeeps
      <4> QED BY <4>1 DEF Keep
    <3>2. ConfigurationError(p) = EndFault(e)
      BY DEF ConfigurationError
    <3> HIDE DEF e
    <3>3. Keep(e, EndFault(e))
      BY <3>1, FieldKeeps DEF EndFault
    <3> QED BY <3>1, <3>2, <3>3, KeepTrans
  <2>2. Keep(p, d)
    BY <1>1, <2>1, TriggerKeeps DEF TakeFault
  <2> QED BY <1>1, <2>2, KeepTrans DEF Keep
<1>3. handle_mmu_fault(t, lb, size, write, instr) = [d EXCEPT !.ov = None]
  BY DEF handle_mmu_fault
<1> HIDE DEF d
<1>4. Keep(d, [d EXCEPT !.ov = None])
  BY <1>2, FieldKeeps
<1> QED BY <1>2, <1>3, <1>4, KeepTrans

\* One bus cycle, after its translation t.
LEMMA CycleKeeps ==
    ASSUME NEW x, NEW t, Keep(x, t.c), NEW lb, NEW n, NEW write, NEW instr, NEW fc
    PROVE  Keep(x, Cycle(t, lb, n, write, instr, fc))
<1>1. Machine(t.c)
  BY DEF Keep
<1>2. Keep(x, handle_mmu_fault(t, lb, n, write, instr))
  BY HandleKeeps
<1>3. \A a : Keep(x, trigger_bus_error(t.c, a))
  BY <1>1, TriggerKeeps, KeepTrans
<1>4. Keep(x, Logged(t.c, lb, n, t.page, fc, write, instr))
  BY <1>1, LoggedKeeps, KeepTrans
<1> QED BY <1>2, <1>3, <1>4 DEF Cycle

\* read_8 to read_32, one cycle.
LEMMA ReadKeeps ==
    ASSUME NEW x, Machine(x), NEW lb, NEW n
    PROVE  Keep(x, ReadCycle(x, lb, n))
<1>1. Keep(x, translate(x, Page(lb), FALSE, FALSE).c)
  BY TranslateKeeps
<1> QED BY <1>1, CycleKeeps, FieldKeeps DEF ReadCycle

\* write_8 to write_32, one cycle.
LEMMA WriteKeeps ==
    ASSUME NEW x, Machine(x), NEW lb, NEW n
    PROVE  Keep(x, WriteCycle(x, lb, n))
<1> DEFINE y == [x EXCEPT !.wdata = [at |-> lb, size |-> n]]
<1>1. Keep(x, y) /\ Machine(y)
  <2>1. Keep(x, y)  BY FieldKeeps
  <2> QED BY <2>1 DEF Keep
<1>2. WriteCycle(x, lb, n) = IF x.ws = lb THEN [x EXCEPT !.ws = None]
          ELSE Cycle(translate(y, Page(lb), TRUE, FALSE), lb, n, TRUE, FALSE,
                     compute_function_code(x, FALSE))
  BY DEF WriteCycle
<1> HIDE DEF y
<1>3. Keep(x, translate(y, Page(lb), TRUE, FALSE).c)
  BY <1>1, TranslateKeeps, KeepTrans
<1>4. Keep(x, Cycle(translate(y, Page(lb), TRUE, FALSE), lb, n, TRUE, FALSE,
                    compute_function_code(x, FALSE)))
  BY <1>3, CycleKeeps
<1>5. Keep(x, [x EXCEPT !.ws = None])
  BY FieldKeeps
<1> QED BY <1>2, <1>4, <1>5

\* read_imm_16 and read_imm_32, one cycle.
LEMMA FetchKeeps ==
    ASSUME NEW x, Machine(x), NEW lb, NEW n
    PROVE  Keep(x, FetchCycle(x, lb, n))
<1>1. Keep(x, translate(x, Page(lb), FALSE, TRUE).c)
  BY TranslateKeeps
<1> QED BY <1>1, CycleKeeps DEF FetchCycle

\* PLPAR and PLPAW.
LEMMA PlpaKeeps ==
    ASSUME NEW x, Machine(x), NEW lb, NEW write
    PROVE  Keep(x, plpa(x, lb, write))
<1> DEFINE y == [x EXCEPT !.ov = x.dfc]
           t == translate(y, Page(lb), write, FALSE)
           z == [t.c EXCEPT !.ov = None]
<1>1. Keep(x, y) /\ Machine(y)
  <2>1. Keep(x, y)  BY FieldKeeps
  <2> QED BY <2>1 DEF Keep
<1>2. Keep(x, t.c) /\ Machine(t.c)
  <2> HIDE DEF y
  <2>1. Keep(y, t.c)  BY <1>1, TranslateKeeps
  <2> QED BY <1>1, <2>1, KeepTrans DEF Keep
<1>3. Keep(x, z)
  <2> HIDE DEF t
  <2>1. Keep(t.c, z)  BY <1>2, FieldKeeps
  <2> QED BY <1>2, <2>1, KeepTrans
<1>4. Keep(x, handle_mmu_fault(Err(z, t.cause), lb, 4, write, FALSE))
  <2>1. Err(z, t.cause).c = z  BY DEF Err
  <2> HIDE DEF t, z
  <2> QED BY <1>3, <2>1, HandleKeeps
<1>5. ASSUME NEW v PROVE Keep(x, [t.c EXCEPT !.ov = None, !.probe = v])
  <2> HIDE DEF t
  <2> DEFINE u == [t.c EXCEPT !.ov = None, !.probe = v]
  <2>1. Machine(u) /\ Same(t.c, u) /\ u.atc = t.c.atc
    BY <1>2 DEF Machine, Fields, Same
  <2>2. Keep(t.c, u)
    BY <2>1, Steady
  <2> QED BY <1>2, <2>2, KeepTrans
<1>6. plpa(x, lb, write) = Plpa(t, lb, write)
  BY DEF plpa
<1> HIDE DEF t
<1> QED BY <1>4, <1>5, <1>6 DEF Plpa

\* Whatever the kind of the cycle, it keeps the ATC coherent.
LEMMA BusCycleKeeps ==
    ASSUME NEW x, Machine(x), NEW k
    PROVE  Keep(x, BusCycle(x, k))
BY ReadKeeps, WriteKeeps, FetchKeeps, PlpaKeeps DEF BusCycle

----------------------------------------------------------------------------
(* The mapping changes: a flush, an owed flush, or a fresh slot *)

\* PMOVE <ea>,CRP changes a root pointer without a flush: on the 68040 and
\* 68060 it owes one, on the 68030 there is no ATC.
LEMMA PmoveGood ==
    ASSUME NEW x, Machine(x), Good(x)
    PROVE  Machine(pmove(x)) /\ Good(pmove(x))
<1>1. CASE x.ins.op = "pmovecrp"
  <2>1. PICK v : pmove(x) = [x EXCEPT !.crp = v, !.edited = @ \/ Fixed(x)]
    BY <1>1 DEF pmove
  <2>2. Machine(pmove(x))
    BY <2>1 DEF Machine, Fields
  <2>3. pmove(x).cpu_type = x.cpu_type /\ pmove(x).edited = (x.edited \/ Fixed(x))
    BY <2>1 DEF Machine, Fields
  <2>4. Good(pmove(x))
    BY <2>3 DEF Good, Fixed
  <2> QED BY <2>2, <2>4
<1>2. CASE x.ins.op = "pmovetc"
  <2>1. PICK v : pmove(x) = [x EXCEPT !.pmmu_enabled = v]
    BY <1>2 DEF pmove
  <2>2. Machine(pmove(x)) /\ Same(x, pmove(x)) /\ pmove(x).atc = x.atc
    BY <2>1 DEF Machine, Fields, Same
  <2> QED BY <2>2, Steady DEF Keep
<1>3. CASE x.ins.op \notin {"pmovecrp", "pmovetc"}
  BY <1>3 DEF pmove
<1> QED BY <1>1, <1>2, <1>3

\* Retiring or abandoning the instruction.
LEMMA RetireGood ==
    ASSUME NEW x, Machine(x), Good(x)
    PROVE  Machine(Retire(x)) /\ Good(Retire(x))
<1> DEFINE p == pmove(x)
<1>1. Machine(p) /\ Good(p)
  BY PmoveGood
<1>2. Retire(x) = IF faulted(x) THEN Abandon(p)
                  ELSE IF x.todo = <<>> THEN [p EXCEPT !.done = x.ins, !.ov = None] ELSE x
  BY DEF Retire
<1> HIDE DEF p
<1>3. Keep(p, Abandon(p))
  <2>1. PICK v : Abandon(p) = [p EXCEPT !.todo = <<>>, !.run_mode = v]
    BY DEF Abandon
  <2>2. Machine(Abandon(p)) /\ Same(p, Abandon(p)) /\ Abandon(p).atc = p.atc
    BY <1>1, <2>1 DEF Machine, Fields, Same
  <2> QED BY <2>2, Steady
<1>4. Keep(p, [p EXCEPT !.done = x.ins, !.ov = None])
  <2> DEFINE q == [p EXCEPT !.done = x.ins, !.ov = None]
  <2>1. Machine(q) /\ Same(p, q) /\ q.atc = p.atc
    BY <1>1 DEF Machine, Fields, Same
  <2> QED BY <2>1, Steady
<1> QED BY <1>1, <1>2, <1>3, <1>4 DEF Keep

\* An empty ATC is coherent.
LEMMA FlushGood ==
    ASSUME NEW x, Machine(x)
    PROVE  Machine(flush_all(x)) /\ Good(flush_all(x))
<1> DEFINE y == flush_all(x)
<1>1. x.atc = [i \in Slots |-> x.atc[i]]
  BY DEF Machine
<1>2. DOMAIN x.atc = Slots
  BY <1>1
<1>3. y = [x EXCEPT !.atc = [i \in Slots |-> NoEntry], !.edited = FALSE]
  BY <1>2 DEF flush_all
<1>4. y.atc = [i \in Slots |-> NoEntry] /\ y.tbl = x.tbl
  BY <1>3 DEF Machine, Fields
<1>5. y = [n \in Fields |-> y[n]]
  BY <1>3 DEF Machine
<1> HIDE DEF y
<1>6. Machine(y)
  BY <1>4, <1>5 DEF Machine
<1>7. \A i \in Slots : ~y.atc[i].valid
  BY <1>4 DEF NoEntry
<1>8. Good(y)
  BY <1>7 DEF Good
<1> QED BY <1>6, <1>8 DEF y


\* A descriptor no translation can have used (dt = 0) may be filled without a
\* flush: an entry that agreed with the tables still does.
LEMMA FreshSlotAgrees ==
    ASSUME NEW x, Machine(x), NEW y, NEW slot, NEW d,
           y.tbl = [x.tbl EXCEPT ![slot] = d], x.tbl[slot].dt = 0,
           y.bad = x.bad, y.crp = x.crp, y.srp = x.srp,
           NEW e, Agrees(x, e)
    PROVE  Agrees(y, e)
<1>1. ASSUME NEW t, NEW i, Desc(x, t, i).dt # 0
      PROVE  Desc(y, t, i) = Desc(x, t, i)
  <2>1. <<t, i>> \in DOMAIN x.tbl /\ x.tbl[<<t, i>>].dt # 0
    BY <1>1 DEF Desc, Invalid
  <2>2. <<t, i>> # slot
    BY <2>1
  <2>3. <<t, i>> \in DOMAIN y.tbl /\ y.tbl[<<t, i>>] = x.tbl[<<t, i>>]
    <3>1. x.tbl = [z \in DOMAIN x.tbl |-> x.tbl[z]]
      BY DEF Machine
    <3> QED BY <2>1, <2>2, <3>1
  <2> QED BY <2>1, <2>3 DEF Desc
<1>2. Mapped(x, e.f, e.sup)
  BY DEF Agrees
<1>3. RootDesc(x, e.f, e.sup).dt # 0 /\ PtrDesc(x, e.f, e.sup).dt # 0
  BY <1>2 DEF Mapped
<1>4. LeafDesc(x, e.f, e.sup).dt # 0 /\ PageDesc(x, e.f, e.sup).dt # 0
  BY <1>2 DEF Mapped, PageDesc
<1>5. Root(y, e.sup) = Root(x, e.sup)
  BY DEF Root
<1>6. RootDesc(y, e.f, e.sup) = RootDesc(x, e.f, e.sup)
  BY <1>1, <1>3, <1>5 DEF RootDesc
<1>7. PtrDesc(y, e.f, e.sup) = PtrDesc(x, e.f, e.sup)
  BY <1>1, <1>3, <1>6 DEF PtrDesc
<1>8. LeafDesc(y, e.f, e.sup) = LeafDesc(x, e.f, e.sup)
  BY <1>1, <1>4, <1>7 DEF LeafDesc
<1>9. PageDesc(y, e.f, e.sup) = PageDesc(x, e.f, e.sup)
  BY <1>1, <1>4, <1>8 DEF PageDesc
<1> QED BY <1>5, <1>6, <1>7, <1>8, <1>9 DEF Agrees, Mapped, ReadOnly

\* The operating system's descriptor writes, which never touch the ATC.
LEMMA EditGood ==
    ASSUME NEW x, Machine(x), Good(x), NEW slot, NEW d
    PROVE  LET y == [x EXCEPT !.tbl = [@ EXCEPT ![slot] = d],
                              !.edited = @ \/ x.tbl[slot].dt # 0]
           IN  Machine(y) /\ Good(y)
<1> DEFINE y == [x EXCEPT !.tbl = [@ EXCEPT ![slot] = d],
                          !.edited = @ \/ x.tbl[slot].dt # 0]
<1>1. /\ y.tbl = [x.tbl EXCEPT ![slot] = d]
      /\ y.edited = (x.edited \/ x.tbl[slot].dt # 0)
  BY DEF Machine, Fields
<1>2. /\ y.atc = x.atc /\ y.cpu_type = x.cpu_type
      /\ y.bad = x.bad /\ y.crp = x.crp /\ y.srp = x.srp
  BY DEF Machine, Fields
<1>3. y = [n \in Fields |-> y[n]]
  BY DEF Machine
<1> HIDE DEF y
<1>4. Machine(y)
  BY <1>1, <1>2, <1>3 DEF Machine
<1>5. Good(y)
  <2>1. SUFFICES ASSUME Fixed(y), ~y.edited, NEW i \in Slots, y.atc[i].valid
                 PROVE  Agrees(y, y.atc[i])
    BY DEF Good
  <2>2. x.tbl[slot].dt = 0 /\ Agrees(x, x.atc[i])
    BY <1>1, <1>2, <2>1 DEF Good, Fixed
  <2> QED BY <1>1, <1>2, <2>2, FreshSlotAgrees
<1> QED BY <1>4, <1>5 DEF y

----------------------------------------------------------------------------
(* The specification *)

\* The inductive invariant
Coherent == Machine(c) /\ Good(c)

\* Power-on: an empty ATC.
LEMMA InitCoherent == Init => Coherent
<1> SUFFICES ASSUME NEW h \in Hosts, NEW type, c = PowerOn(h, type)
             PROVE  Coherent
  BY DEF Init
<1>1. c.atc = [i \in Slots |-> NoEntry] /\ c.tbl = h.tbl
  BY DEF PowerOn, Slots
<1>2. c = [n \in Fields |-> c[n]]
  BY DEF PowerOn, Fields
<1>3. Machine(c)
  BY <1>1, <1>2, HostsAssumption DEF Machine
<1>4. \A i \in Slots : ~c.atc[i].valid
  BY <1>1 DEF NoEntry
<1> QED BY <1>3, <1>4 DEF Coherent, Good

\* The start of a step outside an instruction.
LEMMA QuietKeeps == ASSUME NEW x, Machine(x) PROVE Keep(x, Quiet(x))
<1> DEFINE y == Quiet(x)
<1>1. Machine(y) /\ Same(x, y) /\ y.atc = x.atc
  BY DEF Quiet, Machine, Fields, Same
<1> QED BY <1>1, Steady

\* The start of an instruction.
LEMMA BeginKeeps ==
    ASSUME NEW x, Machine(x), NEW i, NEW excused
    PROVE  Keep(x, Begin(x, i, excused))
<1> DEFINE t == Cycles(x, i)
           o == moves_space(x, i)
           y == [x EXCEPT !.ins = i, !.todo = t, !.ov = o, !.log = {},
                          !.done = NoIns, !.probe = NoProbe, !.excused = excused]
<1>1. Machine(y) /\ Same(x, y) /\ y.atc = x.atc
  <2> HIDE DEF t, o
  <2>1. Same(x, y) /\ y.atc = x.atc /\ y.tbl = x.tbl
    BY DEF Machine, Fields, Same
  <2>2. y = [n \in Fields |-> y[n]]
    BY DEF Machine
  <2> HIDE DEF y
  <2> QED BY <2>1, <2>2 DEF Machine
<1>2. Begin(x, i, excused) = y
  BY DEF Begin
<1> HIDE DEF y
<1> QED BY <1>1, <1>2, Steady


\* Every step keeps the invariant.
LEMMA NextCoherent == Coherent /\ [Next]_vars => Coherent'
<1> SUFFICES ASSUME Machine(c), Good(c), [Next]_vars
             PROVE  Machine(c') /\ Good(c')
  BY DEF Coherent
<1> DEFINE q == Quiet(c)
<1>q. Keep(c, q) /\ Machine(q) /\ Good(q)
  <2>1. Keep(c, q)  BY QuietKeeps
  <2> QED BY <2>1 DEF Keep
<1>1. CASE Execute
  <2> DEFINE x == [c EXCEPT !.handled = {}]
  <2>1. PICK i : c' = Begin(x, i, {})
    BY <1>1 DEF Execute
  <2>2. Machine(x) /\ Same(c, x) /\ x.atc = c.atc
    BY DEF Machine, Fields, Same
  <2> HIDE DEF x
  <2>3. Keep(c, c')
    BY <2>1, <2>2, Steady, BeginKeeps, KeepTrans
  <2> QED BY <2>3 DEF Keep
<1>2. CASE Restart
  <2> DEFINE x == [c EXCEPT !.restart = NoIns]
  <2>1. c' = Begin(x, c.restart, c.handled)
    BY <1>2 DEF Restart
  <2>2. Machine(x) /\ Same(c, x) /\ x.atc = c.atc
    BY DEF Machine, Fields, Same
  <2> HIDE DEF x
  <2>3. Keep(c, c')
    BY <2>1, <2>2, Steady, BeginKeeps, KeepTrans
  <2> QED BY <2>3 DEF Keep
<1>3. CASE NextCycle
  <2> DEFINE x == [c EXCEPT !.todo = Tail(@)]
             b == BusCycle(x, Head(c.todo))
  <2>1. c' = Retire(b)
    BY <1>3 DEF NextCycle
  <2>2. Keep(c, x) /\ Machine(x)
    <3>1. Keep(c, x)  BY FieldKeeps
    <3> QED BY <3>1 DEF Keep
  <2> HIDE DEF x
  <2>3. Keep(x, b)
    BY <2>2, BusCycleKeeps
  <2>4. Machine(b) /\ Good(b)
    BY <2>2, <2>3 DEF Keep
  <2> HIDE DEF b
  <2> QED BY <2>1, <2>4, RetireGood
<1>4. CASE Interrupt
  <2>1. PICK r, n : c' = [q EXCEPT !.s = TRUE, !.restart = r, !.handled = {}, !.frames = n]
    BY <1>4 DEF Interrupt
  <2> HIDE DEF q
  <2>2. Machine(c') /\ Same(q, c') /\ (c').atc = q.atc
    BY <1>q, <2>1 DEF Machine, Fields, Same
  <2> QED BY <1>q, <2>2, Steady DEF Keep
<1>5. CASE WriteDescriptor
  <2>1. PICK e : c' = [q EXCEPT !.tbl = [@ EXCEPT ![e.slot] = e.desc],
                                !.edited = @ \/ c.tbl[e.slot].dt # 0]
    BY <1>5 DEF WriteDescriptor
  <2>2. c.tbl = q.tbl
    BY <1>q DEF Keep, Same
  <2> HIDE DEF q
  <2> QED BY <1>q, <2>1, <2>2, EditGood
<1>6. CASE Pflush
  <2>1. c' = flush_all(q)
    BY <1>6 DEF Pflush
  <2> HIDE DEF q
  <2> QED BY <1>q, <2>1, FlushGood
<1>7. CASE Movec
  <2>1. PICK r, v : c' = movec(q, r, v)
    BY <1>7 DEF Movec
  <2> HIDE DEF q
  <2>2. /\ Machine([q EXCEPT !.crp = v])
        /\ Machine([q EXCEPT !.pmmu_enabled = v])
        /\ Machine([q EXCEPT !.dtt = v, !.itt = v])
    BY <1>q DEF Machine, Fields
  <2> QED BY <2>1, <2>2, FlushGood DEF movec
<1>8. CASE Ptest040
  <2> DEFINE x == [q EXCEPT !.ov = c.dfc]
  <2>1. PICK f, w : c' = Ptest(translate(x, f, w, FALSE), f, w)
    BY <1>8 DEF Ptest040
  <2> DEFINE y == translate(x, f, w, FALSE).c
  <2>2. Keep(q, x) /\ Machine(x)
    <3> HIDE DEF q
    <3>1. Keep(q, x)  BY <1>q, FieldKeeps
    <3> QED BY <3>1 DEF Keep
  <2>3. PICK m, p : c' = [y EXCEPT !.ov = None, !.mmu_sr = m, !.probe = p]
    BY <2>1 DEF Ptest
  <2> HIDE DEF x
  <2>4. Keep(x, y)
    BY <2>2, TranslateKeeps
  <2>5. Machine(y) /\ Good(y)
    BY <1>q, <2>2, <2>4 DEF Keep
  <2> HIDE DEF y
  <2>6. Machine(c') /\ Same(y, c') /\ (c').atc = y.atc
    BY <2>3, <2>5 DEF Machine, Fields, Same
  <2> QED BY <2>5, <2>6, Steady DEF Keep
<1>9. CASE Ptest030
  <2>1. PICK m, p : c' = [q EXCEPT !.mmu_sr = m, !.probe = p]
    BY <1>9 DEF Ptest030
  <2> HIDE DEF q
  <2>2. Machine(c') /\ Same(q, c') /\ (c').atc = q.atc
    BY <1>q, <2>1 DEF Machine, Fields, Same
  <2> QED BY <1>q, <2>2, Steady DEF Keep
<1>10. CASE CompleteCycle
  <2>1. PICK n : c' = [q EXCEPT !.frames = n]
    BY <1>10 DEF CompleteCycle
  <2> HIDE DEF q
  <2>2. Machine(c') /\ Same(q, c') /\ (c').atc = q.atc
    BY <1>q, <2>1 DEF Machine, Fields, Same
  <2> QED BY <1>q, <2>2, Steady DEF Keep
<1>11. CASE Rte
  <2> DEFINE a == c.frames[Len(c.frames)]
             u == rte_Unarmed(q, a)
  <2>1. c' = rte(q, a)
    BY <1>11 DEF Rte
  <2>2. Machine(u) /\ Same(q, u) /\ u.atc = q.atc
    <3>1. PICK s, n, r, h : u = [q EXCEPT !.s = s, !.frames = n, !.restart = r, !.handled = h]
      BY DEF rte_Unarmed
    <3> HIDE DEF q, u
    <3> QED BY <1>q, <3>1 DEF Machine, Fields, Same
  <2>3. Machine(u) /\ Good(u)
    BY <1>q, <2>2, Steady DEF Keep
  <2>4. c' \in {u, [u EXCEPT !.ws = a.fa], [u EXCEPT !.rd = a.fa]}
    BY <2>1 DEF rte
  <2> HIDE DEF u, a
  <2>5. Keep(u, u) /\ Keep(u, [u EXCEPT !.ws = a.fa]) /\ Keep(u, [u EXCEPT !.rd = a.fa])
    BY <2>3, KeepRefl, FieldKeeps
  <2>6. Keep(u, c')
    BY <2>4, <2>5
  <2> QED BY <2>3, <2>6 DEF Keep
<1>12. CASE Reset
  <2> DEFINE x == [q EXCEPT !.s = TRUE, !.pmmu_enabled = FALSE, !.tt = {}, !.itt = {}, !.dtt = {},
                     !.stopped = FALSE, !.run_mode = "normal", !.frames = <<>>,
                     !.restart = NoIns, !.handled = {}, !.excused = {}]
  <2>1. c' = flush_all(x)
    BY <1>12 DEF Reset
  <2>2. Machine(x)
    <3> HIDE DEF q
    <3>1. x.atc = q.atc /\ x.tbl = q.tbl
      BY <1>q DEF Machine, Fields
    <3>2. x = [n \in Fields |-> x[n]]
      BY <1>q DEF Machine
    <3> HIDE DEF x
    <3> QED BY <1>q, <3>1, <3>2 DEF Machine
  <2> HIDE DEF x
  <2> QED BY <2>1, <2>2, FlushGood
<1>13. CASE UNCHANGED vars
  BY <1>13 DEF vars, Machine, Good, Fixed, Agrees, Mapped, ReadOnly
<1> QED BY <1>1, <1>2, <1>3, <1>4, <1>5, <1>6, <1>7, <1>8, <1>9, <1>10, <1>11, <1>12, <1>13
    DEF Next

\* AtcAlwaysCoherent: for every set of guests and every ATC size, an entry of
\* the ATC never disagrees with the tables unless the guest owes a flush
\* (AtcCoherent; atc.rs over translate_040, MOVEC, PFLUSH and pulse_reset).
THEOREM AtcAlwaysCoherent == Spec => []AtcCoherent
<1>1. Coherent => AtcCoherent
  BY DEF Coherent, Machine, Good, AtcCoherent
<1> QED BY <1>1, InitCoherent, NextCoherent, PTL DEF Spec

----------------------------------------------------------------------------
(* The methods of the data path and of the fault delivery, one lemma each: what *)
(* translate answers and leaves alone, what a bus cycle logs, which frame its    *)
(* fault stacks, when the delivery halts.  MmuSafety_proofs draws the theorems   *)
(* from them.                                                                    *)

Cpus == {"M68030", "M68040", "M68060"}

\* Translation of y is that of x: mapping, transparent windows, MOVES spaces
View(x, y) ==
    /\ y.cpu_type = x.cpu_type /\ y.tbl = x.tbl /\ y.bad = x.bad /\ y.crp = x.crp
    /\ y.srp = x.srp /\ y.tc = x.tc /\ y.edited = x.edited /\ y.pmmu_enabled = x.pmmu_enabled
    /\ y.tt = x.tt /\ y.itt = x.itt /\ y.dtt = x.dtt /\ y.sfc = x.sfc /\ y.dfc = x.dfc

\* The instruction under way is the same
Task(x, y) ==
    /\ y.todo = x.todo /\ y.restart = x.restart /\ y.ins = x.ins /\ y.done = x.done
    /\ y.handled = x.handled /\ y.excused = x.excused

\* No flush is owed by the guest of machine x
Settled(x) == ~(x.edited /\ Fixed(x))

----------------------------------------------------------------------------
(* What the tables allow is a matter of the view alone *)

LEMMA ViewDesc == ASSUME NEW x, NEW y, View(x, y) PROVE \A t, i : Desc(y, t, i) = Desc(x, t, i)
BY DEF View, Desc

\* A level of a walk reads the tables and TC alone, whatever the roots.
LEMMA ViewLevel ==
    ASSUME NEW x, NEW y, y.tbl = x.tbl, y.bad = x.bad, y.tc = x.tc,
           NEW f, NEW fc, NEW max, NEW z
    PROVE  Level(y, f, fc, max, z) = Level(x, f, fc, max, z)
<1>1. \A t, i : Desc(y, t, i) = Desc(x, t, i)
  BY DEF Desc
<1>2. y.tc = x.tc /\ y.bad = x.bad
  OBVIOUS
<1>3. Fcl(y) = Fcl(x) /\ Levels030(y) = Levels030(x)
  BY <1>2 DEF Fcl, Levels030
<1>4. \A li : Index(y, f, fc, li) = Index(x, f, fc, li) /\ Rest(y, f, li) = Rest(x, f, li)
  BY <1>2, <1>3 DEF Index, Rest
<1>5. ASSUME NEW u, NEW d PROVE Indirect(y, u, d) = Indirect(x, u, d)
  <2> DEFINE T(t) == [u EXCEPT !.at = <<d.tab, 0>>, !.w = @ \/ t.w, !.s = @ \/ (t.s /\ d.dt = 3),
                               !.end = IF t.dt = 1 THEN "Page" ELSE "Indirect", !.page = t.page]
             B == [u EXCEPT !.end = "TableWalkBusError", !.at = <<d.tab, 0>>]
  <2>1. /\ Indirect(x, u, d) = IF d.tab \in x.bad THEN B ELSE T(Desc(x, d.tab, 0))
        /\ Indirect(y, u, d) = IF d.tab \in y.bad THEN B ELSE T(Desc(y, d.tab, 0))
    BY DEF Indirect
  <2>2. Desc(y, d.tab, 0) = Desc(x, d.tab, 0)
    BY <1>1
  <2>3. T(Desc(y, d.tab, 0)) = T(Desc(x, d.tab, 0))
    BY <2>2
  <2> HIDE DEF T, B
  <2> QED BY <1>2, <2>1, <2>3
<1>6. \A u, d : Fetched(y, f, u, d) = Fetched(x, f, u, d)
  BY <1>3, <1>4, <1>5 DEF Fetched
<1> QED BY <1>1, <1>2, <1>4, <1>6 DEF Level

LEMMA ViewWalk030 ==
    ASSUME NEW x, NEW y, View(x, y), NEW f, NEW fc, NEW max
    PROVE  Walk030(y, f, fc, max) = Walk030(x, f, fc, max)
<1>1. y.tc = x.tc /\ y.srp = x.srp /\ y.crp = x.crp
  BY DEF View
<1>2. Levels030(y) = Levels030(x)
  BY <1>1 DEF Fcl, Levels030
<1>3. \A r : Start030(y, r) = Start030(x, r)
  BY <1>2 DEF Start030
<1>4. \A z : Level(y, f, fc, max, z) = Level(x, f, fc, max, z)
  BY ViewLevel DEF View
<1> QED BY <1>1, <1>3, <1>4 DEF Walk030

LEMMA ViewAllows ==
    ASSUME NEW x, NEW y, View(x, y), NEW f, NEW fc, NEW write, NEW instr, NEW q
    PROVE  /\ TablesAllow(y, f, fc, write, q) <=> TablesAllow(x, f, fc, write, q)
           /\ Allows(y, f, fc, write, instr, q) <=> Allows(x, f, fc, write, instr, q)
<1>1. \A t, i : Desc(y, t, i) = Desc(x, t, i)
  BY ViewDesc
<1>2. Fixed(y) = Fixed(x) /\ y.pmmu_enabled = x.pmmu_enabled /\ y.bad = x.bad
  BY DEF View, Fixed
<1>3. \A sup : Root(y, sup) = Root(x, sup)
  BY DEF View, Root
<1>4. \A sup : RootDesc(y, f, sup) = RootDesc(x, f, sup)
  BY <1>1, <1>3 DEF RootDesc
<1>5. \A sup : PtrDesc(y, f, sup) = PtrDesc(x, f, sup)
  BY <1>1, <1>4 DEF PtrDesc
<1>6. \A sup : LeafDesc(y, f, sup) = LeafDesc(x, f, sup)
  BY <1>1, <1>5 DEF LeafDesc
<1>7. \A sup : PageDesc(y, f, sup) = PageDesc(x, f, sup)
  BY <1>1, <1>6 DEF PageDesc
<1>8. Allows040(y, f, fc, write, q) <=> Allows040(x, f, fc, write, q)
  BY <1>2, <1>3, <1>4, <1>5, <1>6, <1>7 DEF Allows040, Mapped, ReadOnly
<1>9. Allows030(y, f, fc, write, q) <=> Allows030(x, f, fc, write, q)
  BY ViewWalk030 DEF Allows030
<1>10. TablesAllow(y, f, fc, write, q) <=> TablesAllow(x, f, fc, write, q)
  BY <1>2, <1>8, <1>9 DEF TablesAllow
<1>11. Transparent(y, f, fc, instr) <=> Transparent(x, f, fc, instr)
  BY <1>2 DEF View, Transparent
<1> QED BY <1>2, <1>10, <1>11 DEF Allows

----------------------------------------------------------------------------
(* Translation decides as the tables do *)

\* A page the descriptors map is one the walk of translate_040 finds.
LEMMA MappedWalks ==
    ASSUME NEW x, NEW f, NEW sup, Mapped(x, f, sup)
    PROVE  Walk040(x, f, sup).end = "Page"
<1> DEFINE r == RootDesc(x, f, sup)
           p == PtrDesc(x, f, sup)
           l == LeafDesc(x, f, sup)
           d == PageDesc(x, f, sup)
<1>1. /\ Root(x, sup) \notin x.bad /\ r.tab \notin x.bad /\ p.tab \notin x.bad
      /\ l.dt = 2 => l.tab \notin x.bad
      /\ ~(r.dt < 2) /\ ~(p.dt < 2) /\ d.dt # 0
  BY DEF Mapped
<1>2. /\ p = Desc(x, r.tab, 0) /\ l = Desc(x, p.tab, f % 2)
      /\ d = IF l.dt = 2 THEN Desc(x, l.tab, 0) ELSE l
  BY DEF PtrDesc, LeafDesc, PageDesc
<1>3. Walk040(x, f, sup) = WalkPointer(x, f, r)
  BY <1>1 DEF Walk040, WalkRoot, Root, RootDesc
<1> HIDE DEF r, p, l, d
<1>4. Walk040(x, f, sup) = WalkPage(x, f, r.w, p)
  BY <1>1, <1>2, <1>3 DEF WalkPointer
<1>5. Walk040(x, f, sup) = WalkLeaf(x, r.w \/ p.w, l)
  BY <1>1, <1>2, <1>4 DEF WalkPage
<1>6. PICK w, cause : Walk040(x, f, sup) = Resident(w, d, cause)
  BY <1>1, <1>2, <1>5 DEF WalkLeaf
<1> QED BY <1>1, <1>6 DEF Resident

\* The ATC check, walk and fill of translate_040 let an access through exactly
\* when the tables do, and to their page, unless a flush is owed.
LEMMA Translate040Decides ==
    ASSUME NEW x, Machine(x), Good(x), Settled(x), Fixed(x), NEW f \in Nat,
           NEW write \in BOOLEAN, NEW fc, Super(fc) \in BOOLEAN,
           NEW t, t = translate_040(x, f, write, Super(fc))
    PROVE  /\ t.ok => Allows040(x, f, fc, write, t.page)
           /\ ~t.ok => \A q : ~Allows040(x, f, fc, write, q)
<1> DEFINE sup == Super(fc)
           e == x.atc[Slot(f)]
           r == Walk040(x, f, sup)
<1>1. Slot(f) \in Slots
  BY AtcAssumption DEF Slot, Slots
<1>2. CASE lookup(x, f, sup, write)
  <2>1. t.ok /\ t.page = e.page
    BY <1>2 DEF translate_040, Ok
  <2>2. e.valid /\ e.f = f /\ e.sup = sup /\ ~(write /\ e.w) /\ ~(~sup /\ e.s)
    BY <1>2 DEF lookup, Hit
  <2>3. Agrees(x, e)
    BY <1>1, <2>2 DEF Good, Settled
  <2> HIDE DEF e, sup
  <2>4. /\ Mapped(x, f, sup) /\ e.page = PageDesc(x, f, sup).page
        /\ e.w = ReadOnly(x, f, sup) /\ e.s = PageDesc(x, f, sup).s
    BY <2>2, <2>3 DEF Agrees
  <2>5. Allows040(x, f, fc, write, e.page)
    BY <2>2, <2>4 DEF Allows040, sup
  <2> QED BY <2>1, <2>5
<1>3. CASE ~lookup(x, f, sup, write)
  <2>1. t = Fill(x, f, write, sup, r)
    BY <1>3 DEF translate_040
  <2>2. r.end = "Page" => /\ Mapped(x, f, sup) /\ r.page = PageDesc(x, f, sup).page
                          /\ r.w = ReadOnly(x, f, sup) /\ r.s = PageDesc(x, f, sup).s
    BY WalkAgrees
  <2>3. Mapped(x, f, sup) => r.end = "Page"
    BY MappedWalks
  <2> HIDE DEF r, sup
  <2>4. /\ t.ok <=> r.end = "Page" /\ ~(write /\ r.w) /\ ~(~sup /\ r.s)
        /\ t.ok => t.page = r.page
    BY <2>1 DEF Fill, Ok, Err
  <2>5. t.ok => Allows040(x, f, fc, write, t.page)
    BY <2>2, <2>4 DEF Allows040, sup
  <2>6. ASSUME ~t.ok, NEW q PROVE ~Allows040(x, f, fc, write, q)
    BY <2>2, <2>3, <2>4, <2>6 DEF Allows040, sup
  <2> QED BY <2>5, <2>6
<1> QED BY <1>2, <1>3

\* The function code under which translate looks at the tables
SpaceOf(x, instr) == IF x.ov # None THEN x.ov ELSE Fc(x.s, instr)

\* What the data path assumes of machine x: one of the modelled CPUs, the
\* windows of both sides equal (MOVEC writes them together) and none on the
\* 68060, where check_transparent_translation ignores them.
Ready(x) ==
    /\ Machine(x) /\ Good(x) /\ x.cpu_type \in Cpus /\ x.s \in BOOLEAN
    /\ x.itt = x.dtt /\ (x.cpu_type = "M68060" => x.dtt = {})

\* translate, whichever way it answers, answers as the tables and the windows
\* of the access's own space do.
LEMMA TranslateDecides ==
    ASSUME NEW x, Ready(x), Settled(x), x.ov \in {None, 1, 2, 5, 6}, NEW f \in Nat,
           NEW write \in BOOLEAN, NEW instr \in BOOLEAN,
           NEW t, t = translate(x, f, write, instr)
    PROVE  /\ t.ok => Allows(x, f, SpaceOf(x, instr), write, instr, t.page)
           /\ ~t.ok => \A q : ~Allows(x, f, SpaceOf(x, instr), write, instr, q)
<1> DEFINE fc == SpaceOf(x, instr)
           i == IF x.ov # None THEN x.ov \in {2, 6} ELSE instr
<1>1. CASE ~x.pmmu_enabled
  BY <1>1 DEF translate, Ok, Allows
<1>2. CASE x.pmmu_enabled
  <2>1. /\ fc = Fc(Super(fc), i) /\ Super(fc) \in BOOLEAN /\ i \in BOOLEAN
        /\ t = Walked(x, f, write, Super(fc), i)
    <3>1. CASE x.ov # None
      <4>1. fc = x.ov /\ (i <=> x.ov \in {2, 6}) /\ x.ov \in {1, 2, 5, 6}
        BY <3>1 DEF SpaceOf
      <4>2. t = Walked(x, f, write, Super(fc), x.ov \in {2, 6})
        BY <1>2, <3>1, <4>1 DEF translate
      <4>3. i = (x.ov \in {2, 6})
        BY <3>1
      <4> HIDE DEF fc, i
      <4>4. fc = Fc(Super(fc), i) /\ Super(fc) \in BOOLEAN /\ i \in BOOLEAN
        BY <4>1, <4>3 DEF Fc, Super
      <4> QED BY <4>2, <4>3, <4>4
    <3>2. CASE x.ov = None
      <4>1. fc = Fc(x.s, instr) /\ i = instr /\ x.s \in BOOLEAN
        BY <3>2 DEF SpaceOf, Ready
      <4>2. t = Walked(x, f, write, x.s, i)
        BY <1>2, <3>2 DEF translate
      <4> HIDE DEF fc, i
      <4>3. Super(fc) = x.s
        BY <4>1 DEF Super, Fc
      <4> QED BY <4>1, <4>2, <4>3
    <3> QED BY <3>1, <3>2
  <2>3. compute_function_code(x, i) = fc
    BY <2>1 DEF compute_function_code, SpaceOf
  <2> HIDE DEF fc, i
  <2>4. check_transparent_translation(x, f, i) <=> Transparent(x, f, fc, instr)
    BY <2>3 DEF check_transparent_translation, Transparent, Ready, Fixed, Cpus
  <2>5. CASE check_transparent_translation(x, f, i)
    BY <1>2, <2>1, <2>4, <2>5 DEF Walked, Ok, Allows, fc
  <2>6. CASE ~check_transparent_translation(x, f, i) /\ Fixed(x)
    <3>1. t = translate_040(x, f, write, Super(fc))
      BY <2>1, <2>6 DEF Walked
    <3>2. \A q : Allows(x, f, fc, write, instr, q) <=> Allows040(x, f, fc, write, q)
      BY <1>2, <2>4, <2>6 DEF Allows, TablesAllow
    <3> QED BY <2>1, <2>6, <3>1, <3>2, Translate040Decides DEF Ready, fc
  <2>7. CASE ~check_transparent_translation(x, f, i) /\ ~Fixed(x)
    <3> DEFINE w == Walk030(x, f, fc, 7)
    <3>1. t = Checked030(x, write, Super(fc), w)
      BY <2>1, <2>7 DEF Walked, translate_030
    <3>2. \A q : Allows(x, f, fc, write, instr, q) <=>
                   w.end = "Page" /\ q = w.page /\ ~(write /\ w.w) /\ ~(w.s /\ ~Super(fc))
      BY <1>2, <2>4, <2>7 DEF Allows, TablesAllow, Allows030
    <3> HIDE DEF w
    <3> QED BY <3>1, <3>2 DEF Checked030, Ok, Err, fc
  <2> QED BY <2>5, <2>6, <2>7
<1> QED BY <1>1, <1>2

\* The descriptors of x name pages
Paged(x) == \A z \in DOMAIN x.tbl : x.tbl[z].page \in Nat

\* A walk of the 68030 under way
Walking(z) ==
    /\ z = [n \in {"end", "tab", "long", "w", "s", "levels", "at", "page"} |-> z[n]]
    /\ z.page \in Nat /\ z.levels \in Nat

LEMMA DescPage == ASSUME NEW x, Paged(x) PROVE \A t, i : Desc(x, t, i).page \in Nat
BY DEF Paged, Desc, Invalid

\* One level deeper: a level more at most, a page number still, and neither a
\* configuration error nor a level stop that was not there or asked for.
LEMMA LevelWalks ==
    ASSUME NEW x, Paged(x), NEW f \in Nat, NEW fc, NEW max \in Nat, NEW z, Walking(z)
    PROVE  LET y == Level(x, f, fc, max, z)
           IN  /\ Walking(y) /\ y.levels <= z.levels + 1
               /\ y.end = "Config" => z.end = "Config"
               /\ y.end = "LevelStop" => z.end = "LevelStop" \/ z.levels >= max
<1> DEFINE at == <<z.tab, Index(x, f, fc, z.levels)>>
           d == Desc(x, at[1], at[2])
           u == [z EXCEPT !.at = at, !.levels = @ + 1]
<1>1. d.page \in Nat
  BY DescPage
<1>2. \A li : Rest(x, f, li) \in Nat
  BY DEF Rest
<1>3. Walking(u) /\ u.levels = z.levels + 1 /\ u.end = z.end
  <2> DEFINE n == z.levels + 1
  <2>1. u = [z EXCEPT !.at = at, !.levels = n] /\ n \in Nat
    BY DEF Walking
  <2> HIDE DEF at, n, u
  <2>2. Walking(u) /\ u.levels = n /\ u.end = z.end
    BY <2>1 DEF Walking
  <2> QED BY <2>2 DEF n
<1>5. LET y == Indirect(x, u, d)
      IN  Walking(y) /\ y.levels = z.levels + 1 /\ y.end \notin {"Config", "LevelStop"}
  <2> DEFINE t == Desc(x, d.tab, 0)
             e == IF t.dt = 1 THEN "Page" ELSE "Indirect"
             w == u.w \/ t.w
             v == u.s \/ (t.s /\ d.dt = 3)
             b == <<d.tab, 0>>
             g == t.page
             y == [u EXCEPT !.at = b, !.w = w, !.s = v, !.end = e, !.page = g]
             m == [u EXCEPT !.end = "TableWalkBusError", !.at = b]
  <2>1. g \in Nat /\ e \notin {"Config", "LevelStop"}
    BY DescPage
  <2>2. Indirect(x, u, d) = IF d.tab \in x.bad THEN m ELSE y
    BY <1>3 DEF Indirect, Walking
  <2> HIDE DEF u, d, t, e, w, v, b, g
  <2>3. Walking(y) /\ y.levels = u.levels /\ y.end = e
    BY <1>3, <2>1 DEF Walking
  <2>4. Walking(m) /\ m.levels = u.levels /\ m.end = "TableWalkBusError"
    BY <1>3 DEF Walking
  <2> QED BY <1>3, <2>1, <2>2, <2>3, <2>4
<1>6. z.end = "walk" => LET y == Fetched(x, f, u, d)
      IN  Walking(y) /\ y.levels = z.levels + 1 /\ y.end \notin {"Config", "LevelStop"}
  <2> DEFINE w == u.w \/ d.w
             v == u.s \/ (d.s /\ u.long)
             g == d.page + Rest(x, f, u.levels)
             l == d.dt = 3
             tab == d.tab
             y1 == [u EXCEPT !.end = "PageFault"]
             y2 == [u EXCEPT !.end = "Page", !.w = w, !.s = v, !.page = g]
             y3 == [u EXCEPT !.w = w, !.s = v, !.tab = tab, !.long = l]
  <2>1. g \in Nat
    BY <1>1, <1>2
  <2>2. Fetched(x, f, u, d) \in {y1, y2, y3, Indirect(x, u, d)}
    BY <1>3 DEF Fetched, Walking
  <2> HIDE DEF u, d, w, v, g, l, tab
  <2>3. Walking(y1) /\ y1.levels = u.levels /\ y1.end = "PageFault"
    BY <1>3 DEF Walking
  <2>4. Walking(y2) /\ y2.levels = u.levels /\ y2.end = "Page"
    BY <1>3, <2>1 DEF Walking
  <2>5. Walking(y3) /\ y3.levels = u.levels /\ y3.end = u.end
    BY <1>3 DEF Walking
  <2> HIDE DEF y1, y2, y3
  <2> QED BY <1>3, <1>5, <2>2, <2>3, <2>4, <2>5
<1>7. LET y == [z EXCEPT !.at = at, !.end = "TableWalkBusError"]
      IN  Walking(y) /\ y.levels = z.levels /\ y.end = "TableWalkBusError"
  <2> HIDE DEF at
  <2> QED BY DEF Walking
<1>8. LET y == [z EXCEPT !.end = "LevelStop"]
      IN  Walking(y) /\ y.levels = z.levels
  BY DEF Walking
<1>9. z.levels \in Nat
  BY DEF Walking
<1>10. Level(x, f, fc, max, z) =
         IF z.end # "walk" THEN z
         ELSE IF z.levels >= max THEN [z EXCEPT !.end = "LevelStop"]
         ELSE IF z.tab \in x.bad THEN [z EXCEPT !.at = at, !.end = "TableWalkBusError"]
         ELSE Fetched(x, f, u, d)
  BY DEF Level
<1> HIDE DEF at, u, d
<1>11. CASE z.end # "walk"
  BY <1>9, <1>10, <1>11
<1>12. CASE z.end = "walk" /\ z.levels >= max
  BY <1>8, <1>9, <1>10, <1>12
<1>13. CASE z.end = "walk" /\ ~(z.levels >= max) /\ z.tab \in x.bad
  BY <1>7, <1>9, <1>10, <1>13
<1>14. CASE z.end = "walk" /\ ~(z.levels >= max) /\ z.tab \notin x.bad
  BY <1>6, <1>9, <1>10, <1>14
<1> QED BY <1>11, <1>12, <1>13, <1>14

\* The root pointers of a 68030 point at tables, and some level is configured
RootsValid(x) == ~(x.crp.dt < 2) /\ ~(x.srp.dt < 2) /\ Levels030(x) # 0

\* A walk to the end never stops for its level, ends in a page number, and is a
\* configuration error only for want of a root.
LEMMA Walk030Ends ==
    ASSUME NEW x, Paged(x), NEW f \in Nat, NEW fc
    PROVE  /\ Walk030(x, f, fc, 7).page \in Nat
           /\ Walk030(x, f, fc, 7).end # "LevelStop"
           /\ RootsValid(x) => Walk030(x, f, fc, 7).end # "Config"
<1> DEFINE root == IF x.tc.sre /\ Super(fc) THEN x.srp ELSE x.crp
           L(z) == Level(x, f, fc, 7, z)
           a == Start030(x, root)
<1>1. Walking(a) /\ a.levels = 0 /\ a.end # "LevelStop" /\ (RootsValid(x) => a.end # "Config")
  <2>1. a = [end |-> IF root.dt < 2 \/ Levels030(x) = 0 THEN "Config" ELSE "walk",
             tab |-> root.tab, long |-> root.dt = 3, w |-> FALSE, s |-> FALSE, levels |-> 0,
             at |-> <<root.tab, 0>>, page |-> 0]
    BY DEF Start030
  <2>2. RootsValid(x) => ~(root.dt < 2 \/ Levels030(x) = 0)
    BY DEF RootsValid
  <2> HIDE DEF root, a
  <2> QED BY <2>1, <2>2 DEF Walking
<1>2. ASSUME NEW z, Walking(z), z.levels <= 3, z.end # "LevelStop"
      PROVE  /\ Walking(L(z)) /\ L(z).levels <= z.levels + 1 /\ L(z).end # "LevelStop"
             /\ L(z).end = "Config" => z.end = "Config"
  <2>1. z.levels \in Nat /\ ~(z.levels >= 7)
    BY <1>2 DEF Walking
  <2> QED BY <1>2, <2>1, LevelWalks
<1>3. Walk030(x, f, fc, 7) = L(L(L(L(a))))
  BY DEF Walk030
<1> HIDE DEF a, L
<1>4. \A z : Walking(z) => z.levels \in Nat
  BY DEF Walking
<1>5. /\ Walking(L(a)) /\ L(a).levels <= 1 /\ L(a).end # "LevelStop"
      /\ L(a).end = "Config" => a.end = "Config"
  BY <1>1, <1>2, <1>4
<1>6. /\ Walking(L(L(a))) /\ L(L(a)).levels <= 2 /\ L(L(a)).end # "LevelStop"
      /\ L(L(a)).end = "Config" => a.end = "Config"
  BY <1>2, <1>4, <1>5
<1>7. /\ Walking(L(L(L(a)))) /\ L(L(L(a))).levels <= 3 /\ L(L(L(a))).end # "LevelStop"
      /\ L(L(L(a))).end = "Config" => a.end = "Config"
  BY <1>2, <1>4, <1>6
<1>8. /\ Walking(L(L(L(L(a))))) /\ L(L(L(L(a)))).end # "LevelStop"
      /\ L(L(L(L(a)))).end = "Config" => a.end = "Config"
  BY <1>2, <1>4, <1>7
<1> QED BY <1>1, <1>3, <1>8 DEF Walking

\* An access the tables allow goes to a page.
LEMMA AllowsPage ==
    ASSUME NEW x, Paged(x), NEW f \in Nat, NEW fc, NEW write, NEW instr, NEW q,
           Allows(x, f, fc, write, instr, q)
    PROVE  q \in Nat
<1>1. \A sup : PageDesc(x, f, sup).page \in Nat
  BY DescPage DEF PageDesc, LeafDesc
<1>2. Walk030(x, f, fc, 7).page \in Nat
  BY Walk030Ends
<1> QED BY <1>1, <1>2 DEF Allows, TablesAllow, Allows040, Allows030

----------------------------------------------------------------------------
(* Methods and the fields they leave alone *)

\* y differs from x in the ATC only
Still(x, y) ==
    /\ Machine(y) /\ View(x, y) /\ Task(x, y)
    /\ y.s = x.s /\ y.ov = x.ov /\ y.rd = x.rd /\ y.ws = x.ws /\ y.wdata = x.wdata
    /\ y.run_mode = x.run_mode /\ y.stopped = x.stopped /\ y.cause = x.cause
    /\ y.frames = x.frames /\ y.log = x.log /\ y.probe = x.probe

\* Every valid ATC entry sits in the slot of its page
Tagged(x) == \A i \in Slots : x.atc[i].valid => Slot(x.atc[i].f) = i

LEMMA InsertStill ==
    ASSUME NEW x, Machine(x), NEW f \in Nat, NEW sup, NEW r
    PROVE  /\ Still(x, insert(x, f, sup, r))
           /\ Tagged(x) => Tagged(insert(x, f, sup, r))
<1> DEFINE e == [valid |-> TRUE, f |-> f, sup |-> sup, page |-> r.page, w |-> r.w, s |-> r.s]
           y == insert(x, f, sup, r)
           v == [x.atc EXCEPT ![Slot(f)] = e]
<1>1. y = [x EXCEPT !.atc = v]
  BY DEF insert, Machine, Fields
<1>2. e.f = f
  OBVIOUS
<1> HIDE DEF e, y
<1>3. v = [i \in Slots |-> v[i]] /\ \A i \in Slots : v[i] = IF i = Slot(f) THEN e ELSE x.atc[i]
  BY DEF Machine
<1> HIDE DEF v
<1>4. /\ y = [n \in Fields |-> y[n]] /\ y.atc = v
      /\ \A n \in Fields \ {"atc"} : y[n] = x[n]
  BY <1>1 DEF Machine, Fields
<1>5. Still(x, y)
  <2>1. View(x, y) /\ Task(x, y)
    BY <1>4 DEF View, Task, Fields
  <2>2. Machine(y)
    BY <1>3, <1>4, <2>1 DEF Machine, View
  <2> QED BY <1>4, <2>1, <2>2 DEF Still, Fields
<1>6. Tagged(x) => Tagged(y)
  BY <1>2, <1>3, <1>4 DEF Tagged
<1> QED BY <1>5, <1>6 DEF y

\* Failed translations are of the causes walk_030 and translate_040 give.
LEMMA TranslateStill ==
    ASSUME NEW x, Machine(x), NEW f \in Nat, NEW write, NEW instr,
           NEW t, t = translate(x, f, write, instr)
    PROVE  /\ Still(x, t.c) /\ (Tagged(x) => Tagged(t.c)) /\ t.ok \in BOOLEAN
           /\ Paged(x) /\ (Fixed(x) \/ RootsValid(x)) => t.cause # "Config"
<1>1. Still(x, x)
  BY DEF Still, View, Task
<1>2. ASSUME NEW sup, NEW i, NEW u, u = Walked(x, f, write, sup, i)
      PROVE  /\ Still(x, u.c) /\ (Tagged(x) => Tagged(u.c)) /\ u.ok \in BOOLEAN
             /\ Paged(x) /\ (Fixed(x) \/ RootsValid(x)) => u.cause # "Config"
  <2>1. CASE check_transparent_translation(x, f, i)
    BY <1>1, <1>2, <2>1 DEF Walked, Ok
  <2>2. CASE ~check_transparent_translation(x, f, i) /\ Fixed(x)
    <3> DEFINE r == Walk040(x, f, sup)
    <3>1. r.end # "Config"
      BY DEF Walk040, WalkRoot, WalkPointer, WalkPage, WalkLeaf, Resident, End
    <3>2. u = IF lookup(x, f, sup, write) THEN Ok(x, x.atc[Slot(f)].page)
              ELSE Fill(x, f, write, sup, r)
      BY <1>2, <2>2 DEF Walked, translate_040
    <3> HIDE DEF r
    <3>3. Still(x, insert(x, f, sup, r)) /\ (Tagged(x) => Tagged(insert(x, f, sup, r)))
      BY InsertStill
    <3> QED BY <1>1, <3>1, <3>2, <3>3 DEF Fill, Ok, Err
  <2>3. CASE ~check_transparent_translation(x, f, i) /\ ~Fixed(x)
    <3> DEFINE r == Walk030(x, f, Fc(sup, i), 7)
    <3>1. Paged(x) /\ RootsValid(x) => r.end # "Config"
      BY Walk030Ends
    <3>2. u = Checked030(x, write, sup, r)
      BY <1>2, <2>3 DEF Walked, translate_030
    <3> HIDE DEF r
    <3> QED BY <1>1, <2>3, <3>1, <3>2 DEF Checked030, Ok, Err
  <2> QED BY <2>1, <2>2, <2>3
<1> QED BY <1>1, <1>2 DEF translate, Ok

\* The literals as operators, which the provers match like any other argument
Yes == TRUE
No == FALSE

\* y is x but for the ATC, the log and the fault latch
Beside(x, y) ==
    /\ Machine(y) /\ View(x, y) /\ Task(x, y) /\ y.s = x.s /\ y.ov = x.ov /\ y.rd = x.rd
    /\ y.ws = x.ws /\ y.wdata = x.wdata /\ y.frames = x.frames /\ y.probe = x.probe
SameAtc(x, y) == y.atc = x.atc
SameLog(x, y) == y.log = x.log
Running(x) == x.stopped = FALSE /\ x.run_mode = "normal"
Halted(x) == x.stopped = TRUE /\ x.run_mode = "fault"
SameCause(x, y) == y.cause = x.cause

\* A supervisor data access of this kind cannot reach page f
NoWay(x, f, write) == ~\E q \in 0..(Hole - 1) : Allows(x, f, 5, write, No, q)

\* The byte of e went where the tables and windows of machine x send it
LogOK(x, e) ==
    /\ e.pb % PageBytes = e.lb % PageBytes
    /\ Allows(x, Page(e.lb), e.fc, e.write, e.instr, Page(e.pb))

\* The bytes y logged since x went where they had to
LogsOK(x, y) == \A e \in y.log : e \in x.log \/ LogOK(y, e)

LEMMA SameOfView == ASSUME NEW x, NEW y, View(x, y) PROVE Same(x, y)
BY DEF View, Same

LEMMA ViewTrans == ASSUME NEW x, NEW y, NEW z, View(x, y), View(y, z) PROVE View(x, z)
BY DEF View

LEMMA ViewNoWay ==
    ASSUME NEW x, NEW y, View(x, y), NEW f, NEW write
    PROVE  NoWay(y, f, write) <=> NoWay(x, f, write)
BY ViewAllows DEF NoWay

LEMMA ViewLogOK ==
    ASSUME NEW x, NEW y, View(x, y), NEW e PROVE LogOK(y, e) <=> LogOK(x, e)
BY ViewAllows DEF LogOK

LEMMA LogsTrans ==
    ASSUME NEW x, NEW y, NEW z, View(y, z), LogsOK(x, y), LogsOK(y, z)
    PROVE  LogsOK(x, z)
BY ViewLogOK DEF LogsOK

\* DoubleFault latches the fault and leaves the rest alone.
LEMMA DoubleFaultBeside ==
    ASSUME NEW x, Machine(x), NEW cause
    PROVE  LET y == DoubleFault(x, cause)
           IN  Beside(x, y) /\ SameAtc(x, y) /\ SameLog(x, y) /\ Halted(y)
<1> DEFINE v == IF cause = "none" THEN x.cause ELSE cause
           y == DoubleFault(x, cause)
<1>1. y = [x EXCEPT !.stopped = TRUE, !.run_mode = "fault", !.cause = v]
  BY DEF DoubleFault, Machine, Fields
<1> HIDE DEF v, y
<1>2. /\ y = [n \in Fields |-> y[n]] /\ y.stopped = TRUE /\ y.run_mode = "fault"
      /\ \A n \in Fields \ {"stopped", "run_mode", "cause"} : y[n] = x[n]
  BY <1>1 DEF Machine, Fields
<1>3. /\ y.atc = x.atc /\ y.tbl = x.tbl /\ y.log = x.log /\ View(x, y) /\ Task(x, y)
      /\ y.s = x.s /\ y.ov = x.ov /\ y.rd = x.rd
      /\ y.ws = x.ws /\ y.wdata = x.wdata /\ y.frames = x.frames /\ y.probe = x.probe
  BY <1>2 DEF View, Task, Fields
<1>4. Beside(x, y) /\ SameAtc(x, y) /\ SameLog(x, y) /\ Halted(y)
  BY <1>2, <1>3 DEF Beside, Machine, SameAtc, SameLog, Halted
<1> QED BY <1>4 DEF y

\* Recording a cycle changes the log alone.
LEMMA LogBeside ==
    ASSUME NEW x, Machine(x), NEW v
    PROVE  LET y == [x EXCEPT !.log = v]
           IN  /\ Beside(x, y) /\ SameAtc(x, y) /\ SameCause(x, y) /\ y.log = v
               /\ Running(x) => Running(y)
<1> DEFINE y == [x EXCEPT !.log = v]
<1>1. /\ y = [n \in Fields |-> y[n]] /\ y.log = v
      /\ \A n \in Fields \ {"log"} : y[n] = x[n]
  BY DEF Machine, Fields
<1> HIDE DEF y
<1>2. /\ y.atc = x.atc /\ y.tbl = x.tbl /\ View(x, y) /\ Task(x, y)
      /\ y.s = x.s /\ y.ov = x.ov /\ y.rd = x.rd
      /\ y.ws = x.ws /\ y.wdata = x.wdata /\ y.frames = x.frames /\ y.probe = x.probe
      /\ y.stopped = x.stopped /\ y.run_mode = x.run_mode /\ y.cause = x.cause
  BY <1>1 DEF View, Task, Fields
<1>3. /\ Beside(x, y) /\ SameAtc(x, y) /\ SameCause(x, y) /\ y.log = v
      /\ Running(x) => Running(y)
  BY <1>1, <1>2 DEF Beside, Machine, SameAtc, SameCause, Running
<1> QED BY <1>3 DEF y

\* Logged records the bytes lb .. lb + n - 1 on one page.
LEMMA LoggedEffect ==
    ASSUME NEW x, Machine(x), NEW lb \in Nat, NEW n \in Nat,
           NEW page, NEW fc, NEW write, NEW instr
    PROVE  LET y == Logged(x, lb, n, page, fc, write, instr)
           IN  /\ Beside(x, y) /\ SameAtc(x, y) /\ SameCause(x, y)
               /\ Running(x) => Running(y)
               /\ Bytes(lb, n) \subseteq {e.lb : e \in {d \in y.log : d.write = write}}
               /\ x.log \subseteq y.log
               /\ /\ page \in Nat /\ Allows(x, Page(lb), fc, write, instr, page)
                  /\ x.pmmu_enabled => (lb % PageBytes) + n <= PageBytes
                  => LogsOK(x, y)
<1> DEFINE E(k) == [lb |-> lb + k, pb |-> (page * PageBytes) + (lb % PageBytes) + k,
                    fc |-> fc, write |-> write, instr |-> instr]
           v == x.log \cup {E(k) : k \in 0..(n - 1)}
           y == Logged(x, lb, n, page, fc, write, instr)
<1>1. y = [x EXCEPT !.log = v]
  BY DEF Logged, Machine, Fields
<1>2. \A k : /\ E(k).lb = lb + k /\ E(k).pb = (page * PageBytes) + (lb % PageBytes) + k
             /\ E(k).fc = fc /\ E(k).write = write /\ E(k).instr = instr
  OBVIOUS
<1> HIDE DEF E
<1>3. \A k \in 0..(n - 1) : E(k) \in v
  OBVIOUS
<1>4. \A e \in v : e \in x.log \/ \E k \in 0..(n - 1) : e = E(k)
  OBVIOUS
<1>5. x.log \subseteq v
  OBVIOUS
<1> HIDE DEF v
<1>6. /\ Beside(x, y) /\ SameAtc(x, y) /\ SameCause(x, y) /\ y.log = v
      /\ Running(x) => Running(y)
  BY <1>1, LogBeside
<1> HIDE DEF y
<1>7. Bytes(lb, n) \subseteq {e.lb : e \in {d \in v : d.write = write}}
  <2> SUFFICES ASSUME NEW b \in Bytes(lb, n)
               PROVE  \E e \in {d \in v : d.write = write} : e.lb = b
    OBVIOUS
  <2>1. b - lb \in 0..(n - 1) /\ lb + (b - lb) = b
    BY DEF Bytes
  <2> QED BY <1>2, <1>3, <2>1
<1>8. ASSUME page \in Nat, Allows(x, Page(lb), fc, write, instr, page),
             x.pmmu_enabled => (lb % PageBytes) + n <= PageBytes
      PROVE  LogsOK(x, y)
  <2>1. ASSUME NEW k \in 0..(n - 1) PROVE LogOK(x, E(k))
    <3>1. E(k).pb % PageBytes = E(k).lb % PageBytes
      <4>1. ((page * 4) + (lb % 4) + k) % 4 = (lb + k) % 4
        BY <1>8, <2>1
      <4> QED BY <1>2, <4>1 DEF PageBytes
    <3>2. CASE (lb % PageBytes) + n <= PageBytes
      <4>1. (lb + k) \div 4 = lb \div 4 /\ ((page * 4) + (lb % 4) + k) \div 4 = page
        BY <1>8, <2>1, <3>2 DEF PageBytes
      <4>2. Page(E(k).lb) = Page(lb) /\ Page(E(k).pb) = page
        BY <1>2, <4>1 DEF Page, PageBytes
      <4> QED BY <1>2, <1>8, <3>1, <4>2 DEF LogOK
    <3>3. CASE ~x.pmmu_enabled
      <4>1. page = Page(lb)
        BY <1>8, <3>3 DEF Allows
      <4>2. (lb \div 4) * 4 + (lb % 4) + k = lb + k
        BY <2>1
      <4>3. E(k).pb = E(k).lb
        BY <1>2, <4>1, <4>2 DEF Page, PageBytes
      <4> QED BY <3>1, <3>3, <4>3 DEF LogOK, Allows
    <3> QED BY <1>8, <3>2, <3>3
  <2>2. View(x, y)
    BY <1>6 DEF Beside
  <2>3. \A e \in v : e \in x.log \/ LogOK(y, e)
    BY <1>4, <2>1, <2>2, ViewLogOK
  <2> QED BY <1>6, <2>3 DEF LogsOK
<1>9. /\ Bytes(lb, n) \subseteq {e.lb : e \in {d \in y.log : d.write = write}}
      /\ x.log \subseteq y.log
  BY <1>5, <1>6, <1>7
<1> QED BY <1>6, <1>8, <1>9 DEF y

\* The tables allow one page.
LEMMA AllowsOne ==
    ASSUME NEW x, NEW f, NEW fc, NEW write, NEW instr, NEW q, NEW r,
           Allows(x, f, fc, write, instr, q), Allows(x, f, fc, write, instr, r)
    PROVE  q = r
BY DEF Allows, TablesAllow, Allows040, Allows030

\* What makes translate answer for the tables: nothing is owed to the ATC, the
\* descriptors name pages, and the windows are those the tables' reader sees.
Sane(x) ==
    /\ x.cpu_type \in Cpus /\ x.itt = x.dtt /\ (x.cpu_type = "M68060" => x.dtt = {})
    /\ Paged(x) /\ Settled(x)

\* Machine and ATC in order
Sound(x) == Machine(x) /\ Good(x) /\ Tagged(x)

LEMMA ViewSane == ASSUME NEW x, NEW y, View(x, y) PROVE Sane(y) <=> Sane(x)
BY DEF View, Sane, Paged, Settled, Fixed

LEMMA SoundBeside ==
    ASSUME NEW x, NEW y, Sound(x), Machine(y), View(x, y), SameAtc(x, y)
    PROVE  Sound(y)
BY SameOfView, Steady DEF Sound, Keep, SameAtc, Tagged

\* A translation, whatever it answers, changes the ATC alone and keeps it coherent.
LEMMA TranslateEffect ==
    ASSUME NEW x, Sound(x), NEW f \in Nat, NEW write \in BOOLEAN, NEW instr \in BOOLEAN
    PROVE  LET t == translate(x, f, write, instr)
           IN  /\ Still(x, t.c) /\ Sound(t.c) /\ t.ok \in BOOLEAN
               /\ Paged(x) /\ (Fixed(x) \/ RootsValid(x)) => t.cause # "Config"
               /\ Sane(x) /\ x.s \in BOOLEAN /\ x.ov \in {None, 1, 2, 5, 6} =>
                    /\ t.ok => /\ Allows(x, f, SpaceOf(x, instr), write, instr, t.page)
                               /\ t.page \in Nat
                    /\ ~t.ok => \A q : ~Allows(x, f, SpaceOf(x, instr), write, instr, q)
<1> DEFINE t == translate(x, f, write, instr)
<1>1. /\ Still(x, t.c) /\ Tagged(t.c) /\ t.ok \in BOOLEAN
      /\ Paged(x) /\ (Fixed(x) \/ RootsValid(x)) => t.cause # "Config"
  BY TranslateStill DEF Sound
<1>2. Good(t.c)
  BY TranslateKeeps DEF Keep, Sound
<1>3. Sound(t.c)
  BY <1>1, <1>2 DEF Sound, Still
<1>4. ASSUME Sane(x), x.s \in BOOLEAN, x.ov \in {None, 1, 2, 5, 6}
      PROVE  /\ t.ok => /\ Allows(x, f, SpaceOf(x, instr), write, instr, t.page)
                        /\ t.page \in Nat
             /\ ~t.ok => \A q : ~Allows(x, f, SpaceOf(x, instr), write, instr, q)
  <2>1. Ready(x) /\ Settled(x)
    BY <1>4 DEF Sane, Ready, Sound
  <2>2. /\ t.ok => Allows(x, f, SpaceOf(x, instr), write, instr, t.page)
        /\ ~t.ok => \A q : ~Allows(x, f, SpaceOf(x, instr), write, instr, q)
    BY <1>4, <2>1, TranslateDecides
  <2> HIDE DEF t
  <2> QED BY <1>4, <2>2, AllowsPage DEF Sane
<1> QED BY <1>1, <1>3, <1>4

\* One access of the delivery of an exception.
LEMMA DeliveryEffect ==
    ASSUME NEW x, Sound(x), Running(x), NEW f \in Nat, NEW write \in BOOLEAN
    PROVE  LET y == Delivery(translate(x, f, write, No), f * PageBytes, write)
           IN  /\ Beside(x, y) /\ Sound(y)
               /\ (Running(y) /\ SameCause(x, y)) \/ Halted(y)
               /\ Sane(x) /\ x.ov = None /\ x.s = TRUE =>
                    LogsOK(x, y) /\ (Halted(y) => NoWay(y, f, write))
<1> DEFINE t == translate(x, f, write, No)
           z == t.c
           y == Delivery(t, f * PageBytes, write)
<1>1. No \in BOOLEAN
  BY DEF No
<1>2. Still(x, z) /\ Sound(z) /\ t.ok \in BOOLEAN
  BY <1>1, TranslateEffect
<1>3. Sane(x) /\ x.ov = None /\ x.s = TRUE =>
        /\ t.ok => Allows(x, f, 5, write, No, t.page) /\ t.page \in Nat
        /\ ~t.ok => \A q : ~Allows(x, f, 5, write, No, q)
  <2>1. x.ov = None /\ x.s = TRUE => SpaceOf(x, No) = 5
    BY DEF SpaceOf, Fc, No
  <2>2. ASSUME Sane(x), x.ov = None, x.s = TRUE
        PROVE  /\ t.ok => /\ Allows(x, f, SpaceOf(x, No), write, No, t.page)
                          /\ t.page \in Nat
               /\ ~t.ok => \A q : ~Allows(x, f, SpaceOf(x, No), write, No, q)
    <3>1. x.s \in BOOLEAN /\ x.ov \in {None, 1, 2, 5, 6}
      BY <2>2
    <3> QED BY <1>1, <2>2, <3>1, TranslateEffect
  <2> HIDE DEF t
  <2> QED BY <2>1, <2>2
<1>4. y = IF ~t.ok \/ t.page = Hole THEN DoubleFault(z, t.cause)
          ELSE Logged(z, f * PageBytes, 1, t.page, 5, write, No)
  BY DEF Delivery, No
<1>5. /\ Machine(z) /\ View(x, z) /\ Running(z) /\ Beside(x, z) /\ SameCause(x, z)
      /\ z.log = x.log
  BY <1>2 DEF Still, Running, Beside, SameCause
<1>6. /\ f * PageBytes \in Nat /\ ((f * PageBytes) % PageBytes) + 1 <= PageBytes
      /\ Page(f * PageBytes) = f
  BY DEF PageBytes, Page
<1> HIDE DEF t, z, y
<1>7. ASSUME Beside(z, y), SameAtc(z, y)
      PROVE  Beside(x, y) /\ Sound(y) /\ View(z, y) /\ View(x, y)
  BY <1>2, <1>5, <1>7, SoundBeside DEF Beside, View, Task
<1> DEFINE Goal ==
      /\ Beside(x, y) /\ Sound(y)
      /\ (Running(y) /\ SameCause(x, y)) \/ Halted(y)
      /\ Sane(x) /\ x.ov = None /\ x.s = TRUE =>
           LogsOK(x, y) /\ (Halted(y) => NoWay(y, f, write))
<1>8. ASSUME ~t.ok \/ t.page = Hole PROVE Goal
  <2>1. y = DoubleFault(z, t.cause)
    BY <1>4, <1>8
  <2>2. Beside(z, y) /\ SameAtc(z, y) /\ SameLog(z, y) /\ Halted(y)
    BY <1>5, <2>1, DoubleFaultBeside
  <2>3. LogsOK(x, y)
    BY <1>5, <2>2 DEF SameLog, LogsOK
  <2>4. ASSUME Sane(x), x.ov = None, x.s = TRUE PROVE NoWay(y, f, write)
    <3>1. ASSUME NEW q \in 0..(Hole - 1) PROVE ~Allows(x, f, 5, write, No, q)
      <4>1. q # Hole
        BY DEF Hole
      <4> QED BY <1>3, <1>8, <2>4, <4>1, AllowsOne
    <3>2. NoWay(x, f, write)
      BY <3>1 DEF NoWay
    <3> QED BY <1>7, <2>2, <3>2, ViewNoWay
  <2> QED BY <1>7, <2>2, <2>3, <2>4
<1>9. ASSUME t.ok, t.page # Hole PROVE Goal
  <2>1. y = Logged(z, f * PageBytes, 1, t.page, 5, write, No)
    BY <1>4, <1>9
  <2>2. /\ Beside(z, y) /\ SameAtc(z, y) /\ SameCause(z, y) /\ Running(y)
        /\ t.page \in Nat /\ Allows(z, f, 5, write, No, t.page) => LogsOK(z, y)
    BY <1>5, <1>6, <2>1, LoggedEffect
  <2>3. ASSUME Sane(x), x.ov = None, x.s = TRUE PROVE LogsOK(x, y)
    <3>1. Allows(z, f, 5, write, No, t.page) /\ t.page \in Nat
      BY <1>3, <1>5, <1>9, <2>3, ViewAllows
    <3> QED BY <1>5, <2>2, <3>1 DEF LogsOK
  <2>4. ~Halted(y) /\ SameCause(x, y)
    BY <1>5, <2>2 DEF Running, Halted, SameCause
  <2> QED BY <1>7, <2>2, <2>3, <2>4
<1>10. Goal
  BY <1>2, <1>8, <1>9
<1> QED BY <1>10 DEF y, t

\* Supervisor data accesses cannot reach the stack, or the vector table
Stuck(x) == NoWay(x, StackPage, Yes) \/ NoWay(x, VectorPage, No)

\* y is x with an exception delivered: the frame is on the stack, the fields the
\* delivery does not touch are kept
Delivered(x, frame, y) ==
    /\ Machine(y) /\ View(x, y) /\ Task(x, y) /\ y.ov = x.ov /\ y.rd = x.rd /\ y.ws = x.ws
    /\ y.probe = x.probe /\ y.s = TRUE /\ y.frames = Append(x.frames, frame)
    /\ y.wdata = [at |-> StackPage * PageBytes, size |-> 4]

LEMMA ViewStuck == ASSUME NEW x, NEW y, View(x, y) PROVE Stuck(y) <=> Stuck(x)
BY ViewNoWay DEF Stuck

\* The delivery pushes the frame and fetches the vector in supervisor data
\* space; it halts only if one of the two is out of reach.
LEMMA DeliverEffect ==
    ASSUME NEW x, Sound(x), Running(x), NEW frame
    PROVE  LET y == Deliver(x, frame)
           IN  /\ Delivered(x, frame, y) /\ Sound(y)
               /\ (Running(y) /\ SameCause(x, y)) \/ Halted(y)
               /\ Sane(x) /\ x.ov = None => LogsOK(x, y) /\ (Halted(y) => Stuck(y))
<1> DEFINE fs == Append(x.frames, frame)
           W == [at |-> StackPage * PageBytes, size |-> 4]
           a == [x EXCEPT !.s = TRUE, !.frames = fs]
           b == [a EXCEPT !.wdata = W]
           d == PushFrame(a)
           y == FetchVector(d)
<1>1. Deliver(x, frame) = y
  BY DEF Deliver, Sound, Machine, Fields
<1>2. d = Delivery(translate(b, StackPage, Yes, No), StackPage * PageBytes, Yes)
  BY DEF PushFrame, Yes, No
<1> HIDE DEF fs, W
<1>3. /\ b = [n \in Fields |-> b[n]] /\ b.s = TRUE /\ b.frames = fs /\ b.wdata = W
      /\ \A n \in Fields \ {"s", "frames", "wdata"} : b[n] = x[n]
  BY DEF Sound, Machine, Fields
<1> HIDE DEF a, b, d, y
<1>4. /\ b.atc = x.atc /\ b.log = x.log /\ b.ov = x.ov /\ b.tbl = x.tbl
      /\ View(x, b) /\ Task(x, b) /\ b.cause = x.cause /\ b.stopped = x.stopped
      /\ b.run_mode = x.run_mode /\ b.rd = x.rd /\ b.ws = x.ws /\ b.probe = x.probe
  BY <1>3 DEF View, Task, Fields
<1>5. Machine(b) /\ Running(b)
  BY <1>3, <1>4 DEF Machine, Running, Sound
<1>6. Sound(b)
  BY <1>4, <1>5, SoundBeside DEF SameAtc
<1>7. StackPage \in Nat /\ VectorPage \in Nat /\ Yes \in BOOLEAN /\ No \in BOOLEAN
  BY DEF StackPage, VectorPage, Yes, No
<1>8. /\ Beside(b, d) /\ Sound(d)
      /\ (Running(d) /\ SameCause(b, d)) \/ Halted(d)
      /\ Sane(b) /\ b.ov = None /\ b.s = TRUE =>
           LogsOK(b, d) /\ (Halted(d) => NoWay(d, StackPage, Yes))
  BY <1>2, <1>5, <1>6, <1>7, DeliveryEffect
<1>9. Sane(x) /\ x.ov = None => LogsOK(x, d) /\ (Halted(d) => NoWay(d, StackPage, Yes))
  BY <1>3, <1>4, <1>8, ViewSane DEF LogsOK
<1>10. View(x, d) /\ Task(x, d) /\ d.ov = x.ov /\ d.s = TRUE /\ d.rd = x.rd /\ d.ws = x.ws
       /\ d.probe = x.probe /\ d.frames = fs /\ d.wdata = W /\ Machine(d)
  BY <1>3, <1>4, <1>8 DEF Beside, View, Task
<1>11. Delivered(x, frame, d)
  BY <1>10 DEF Delivered, fs, W
<1> DEFINE Goal == /\ Delivered(x, frame, y) /\ Sound(y)
                   /\ (Running(y) /\ SameCause(x, y)) \/ Halted(y)
                   /\ Sane(x) /\ x.ov = None => LogsOK(x, y) /\ (Halted(y) => Stuck(y))
<1>12. ASSUME Halted(d) PROVE Goal
  <2>1. y = d
    BY <1>12 DEF y, FetchVector, faulted, Halted
  <2> QED BY <1>8, <1>9, <1>11, <1>12, <2>1 DEF Stuck
<1>13. ASSUME Running(d), SameCause(b, d) PROVE Goal
  <2>1. y = Delivery(translate(d, VectorPage, No, No), VectorPage * PageBytes, No)
    BY <1>13 DEF y, FetchVector, faulted, Running, No
  <2>2. /\ Beside(d, y) /\ Sound(y)
        /\ (Running(y) /\ SameCause(d, y)) \/ Halted(y)
        /\ Sane(d) /\ d.ov = None /\ d.s = TRUE =>
             LogsOK(d, y) /\ (Halted(y) => NoWay(y, VectorPage, No))
    BY <1>7, <1>8, <1>13, <2>1, DeliveryEffect
  <2>3. Delivered(x, frame, y)
    BY <1>11, <2>2 DEF Delivered, Beside, View, Task
  <2>4. SameCause(d, y) => SameCause(x, y)
    BY <1>4, <1>13 DEF SameCause
  <2>5. View(d, y)
    BY <2>2 DEF Beside
  <2>6. Sane(x) /\ x.ov = None => LogsOK(x, y) /\ (Halted(y) => Stuck(y))
    BY <1>9, <1>10, <2>2, <2>5, ViewSane, LogsTrans DEF Stuck
  <2> QED BY <2>2, <2>3, <2>4, <2>6
<1>14. Goal
  BY <1>8, <1>12, <1>13
<1> QED BY <1>1, <1>14

\* y is x with the exception of frame taken and its instruction ended
Taken(x, frame, y) ==
    /\ Machine(y) /\ View(x, y) /\ Task(x, y) /\ y.rd = x.rd /\ y.ws = x.ws
    /\ y.probe = x.probe /\ y.s = TRUE /\ y.frames = Append(x.frames, frame)
    /\ y.run_mode = "fault" /\ y.stopped \in BOOLEAN
    /\ y.wdata = [at |-> StackPage * PageBytes, size |-> 4]

\* The bytes logged went where they had to, and a halt has its reason
Honest(x, y) == LogsOK(x, y) /\ (y.stopped => Stuck(y))

\* The frame of an access fault of machine x
AccessFrame(x, fa, size, write, instr, atc) ==
    [kind |-> "access", fa |-> fa, size |-> size, write |-> write, instr |-> instr,
     atc |-> atc, fc |-> SpaceOf(x, instr), s |-> x.s, data |-> x.wdata, ins |-> x.ins,
     handled |-> x.excused, df |-> TRUE]
ConfigFrame(x) ==
    [kind |-> "config", fa |-> 0, size |-> 0, write |-> FALSE, instr |-> FALSE,
     atc |-> FALSE, fc |-> 0, s |-> x.s, data |-> [at |-> 0, size |-> 0], ins |-> x.ins,
     handled |-> {}, df |-> TRUE]

FrameFields == {"kind", "fa", "size", "write", "instr", "atc", "fc", "s", "data", "ins",
                "handled", "df"}

LEMMA AccessFrameFields ==
    ASSUME NEW x, NEW fa, NEW size, NEW write, NEW instr, NEW atc
    PROVE  LET v == AccessFrame(x, fa, size, write, instr, atc)
           IN  /\ v = [n \in FrameFields |-> v[n]]
               /\ v.kind = "access" /\ v.fa = fa /\ v.size = size /\ v.write = write
               /\ v.instr = instr /\ v.atc = atc /\ v.df = TRUE
               /\ v.fc = SpaceOf(x, instr) /\ v.s = x.s /\ v.data = x.wdata /\ v.ins = x.ins
               /\ v.handled = x.excused
BY DEF AccessFrame, FrameFields

LEMMA DescribedFrame ==
    ASSUME NEW x, NEW fa, NEW size, NEW write, NEW instr, NEW atc
    PROVE  Described(x, [FaultFrame(fa, size, write, instr) EXCEPT !.atc = atc])
             = AccessFrame(x, fa, size, write, instr, atc)
<1> DEFINE g == SpaceOf(x, instr)
           u == x.s
           d == x.wdata
           i == x.ins
           h == x.excused
           a == [FaultFrame(fa, size, write, instr) EXCEPT !.atc = atc]
           b == Described(x, a)
<1>1. /\ a = [n \in FrameFields |-> a[n]]
      /\ a.kind = "access" /\ a.fa = fa /\ a.size = size /\ a.write = write /\ a.instr = instr
      /\ a.atc = atc /\ a.df = TRUE
  BY DEF FaultFrame, FrameFields
<1> HIDE DEF a
<1>2. b = [a EXCEPT !.fc = IF x.ov # None THEN x.ov ELSE Fc(x.s, a.instr),
                    !.s = u, !.data = d, !.ins = i, !.handled = h]
  BY DEF Described
<1>3. g = IF x.ov # None THEN x.ov ELSE Fc(x.s, a.instr)
  BY <1>1 DEF SpaceOf
<1> HIDE DEF g, u, d, i, h, b
<1>4. b = [a EXCEPT !.fc = g, !.s = u, !.data = d, !.ins = i, !.handled = h]
  BY <1>2, <1>3
<1>5. /\ b = [n \in FrameFields |-> b[n]]
      /\ b.kind = a.kind /\ b.fa = a.fa /\ b.size = a.size /\ b.write = a.write
      /\ b.instr = a.instr /\ b.atc = a.atc /\ b.df = a.df
      /\ b.fc = g /\ b.s = u /\ b.data = d /\ b.ins = i /\ b.handled = h
  BY <1>1, <1>4 DEF FrameFields
<1> DEFINE v == AccessFrame(x, fa, size, write, instr, atc)
<1>6. /\ v = [n \in FrameFields |-> v[n]]
      /\ v.kind = "access" /\ v.fa = fa /\ v.size = size /\ v.write = write
      /\ v.instr = instr /\ v.atc = atc /\ v.df = TRUE
      /\ v.fc = g /\ v.s = u /\ v.data = d /\ v.ins = i /\ v.handled = h
  BY DEF AccessFrame, FrameFields, g, u, d, i, h
<1> HIDE DEF v
<1>7. \A n \in FrameFields : b[n] = v[n]
  <2>1. /\ b.kind = v.kind /\ b.fa = v.fa /\ b.size = v.size /\ b.write = v.write
        /\ b.instr = v.instr /\ b.atc = v.atc /\ b.df = v.df
        /\ b.fc = v.fc /\ b.s = v.s /\ b.data = v.data /\ b.ins = v.ins /\ b.handled = v.handled
    BY <1>1, <1>5, <1>6, Zenon
  <2> QED BY <2>1 DEF FrameFields
<1>8. b = v
  BY <1>5, <1>6, <1>7
<1> QED BY <1>8, Zenon DEF a, b, v

\* EndFault ends the instruction whether or not the delivery halted.
LEMMA EndFaultTakes ==
    ASSUME NEW x, NEW frame, NEW z, Delivered(x, frame, z), Sound(z), Running(z) \/ Halted(z)
    PROVE  LET y == EndFault(z)
           IN  /\ Taken(x, frame, y) /\ Sound(y) /\ y.ov = x.ov /\ SameCause(z, y)
               /\ y.stopped <=> Halted(z)
               /\ LogsOK(x, z) /\ (Halted(z) => Stuck(z)) => Honest(x, y)
<1> DEFINE y == EndFault(z)
<1>1. y = [z EXCEPT !.run_mode = "fault"]
  BY DEF EndFault
<1> HIDE DEF y
<1>2. /\ y = [n \in Fields |-> y[n]] /\ y.run_mode = "fault"
      /\ \A n \in Fields \ {"run_mode"} : y[n] = z[n]
  BY <1>1 DEF Sound, Machine, Fields
<1>3. /\ View(z, y) /\ Task(z, y) /\ y.atc = z.atc /\ y.tbl = z.tbl /\ y.ov = z.ov
      /\ y.cause = z.cause /\ y.stopped = z.stopped /\ y.log = z.log /\ y.s = z.s
      /\ y.frames = z.frames /\ y.rd = z.rd /\ y.ws = z.ws /\ y.probe = z.probe
      /\ y.wdata = z.wdata
  BY <1>2 DEF View, Task, Fields
<1>4. Machine(y)
  BY <1>2, <1>3 DEF Machine, Sound
<1>5. Sound(y)
  BY <1>3, <1>4, SoundBeside DEF SameAtc
<1>6. Taken(x, frame, y) /\ y.ov = x.ov
  <2>1. View(x, y)
    BY <1>3, ViewTrans DEF Delivered
  <2>2. y.stopped \in BOOLEAN
    BY <1>3 DEF Running, Halted
  <2> QED BY <1>2, <1>3, <1>4, <2>1, <2>2 DEF Taken, Delivered, Task
<1>7. SameCause(z, y) /\ (y.stopped <=> Halted(z))
  BY <1>3 DEF SameCause, Running, Halted
<1>8. LogsOK(x, z) /\ (Halted(z) => Stuck(z)) => Honest(x, y)
  BY <1>3, <1>7, ViewStuck, ViewLogOK DEF LogsOK, Honest
<1> QED BY <1>5, <1>6, <1>7, <1>8 DEF y

\* trigger_bus_error: the override and the pending cause are taken before the
\* frame is pushed.
LEMMA TriggerEffect ==
    ASSUME NEW x, Sound(x), Running(x), NEW fa, NEW size, NEW write, NEW instr
    PROVE  LET y == trigger_bus_error(x, FaultFrame(fa, size, write, instr))
           IN  /\ Taken(x, AccessFrame(x, fa, size, write, instr, x.cause # "none"), y)
               /\ Sound(y) /\ y.ov = None /\ (~y.stopped => y.cause = "none")
               /\ Sane(x) => Honest(x, y)
<1> DEFINE p == [x EXCEPT !.cause = "none"]
           q == [p EXCEPT !.ov = None]
           atc == x.cause # "none"
           b == [FaultFrame(fa, size, write, instr) EXCEPT !.atc = atc]
           a == AccessFrame(x, fa, size, write, instr, atc)
           z == Deliver(q, Described(p, b))
           y == EndFault(z)
<1>1. trigger_bus_error(x, FaultFrame(fa, size, write, instr)) = y
  BY DEF trigger_bus_error, exception_bus_error, faulted, Running
<1>2. /\ p = [n \in Fields |-> p[n]]
      /\ \A n \in Fields \ {"cause"} : p[n] = x[n]
      /\ q = [n \in Fields |-> q[n]] /\ q.ov = None /\ q.cause = "none"
      /\ \A n \in Fields \ {"ov", "cause"} : q[n] = x[n]
  BY DEF Sound, Machine, Fields
<1>3. Described(p, b) = AccessFrame(p, fa, size, write, instr, atc)
  BY DescribedFrame
<1> HIDE DEF p, q, b, z, y, atc
<1>4. Described(p, b) = a
  <2>1. p.ov = x.ov /\ p.s = x.s /\ p.wdata = x.wdata /\ p.ins = x.ins /\ p.excused = x.excused
    BY <1>2 DEF Fields
  <2> QED BY <1>3, <2>1 DEF AccessFrame, SpaceOf
<1> HIDE DEF a
<1>5. /\ View(x, q) /\ Task(x, q) /\ q.atc = x.atc /\ q.tbl = x.tbl /\ q.log = x.log
      /\ q.rd = x.rd /\ q.ws = x.ws /\ q.probe = x.probe /\ q.frames = x.frames
      /\ q.stopped = x.stopped /\ q.run_mode = x.run_mode
  BY <1>2 DEF View, Task, Fields
<1>6. Machine(q) /\ Running(q)
  BY <1>2, <1>5 DEF Machine, Running, Sound
<1>7. Sound(q)
  BY <1>5, <1>6, SoundBeside DEF SameAtc
<1>8. /\ Delivered(q, a, z) /\ Sound(z)
      /\ (Running(z) /\ SameCause(q, z)) \/ Halted(z)
      /\ Sane(q) /\ q.ov = None => LogsOK(q, z) /\ (Halted(z) => Stuck(z))
  BY <1>4, <1>6, <1>7, DeliverEffect DEF z
<1>9. /\ Taken(q, a, y) /\ Sound(y) /\ y.ov = q.ov /\ SameCause(z, y)
      /\ y.stopped <=> Halted(z)
      /\ LogsOK(q, z) /\ (Halted(z) => Stuck(z)) => Honest(q, y)
  BY <1>8, EndFaultTakes DEF y
<1>10. Taken(x, a, y)
  BY <1>5, <1>9, ViewTrans DEF Taken, Task
<1>11. ~y.stopped => y.cause = "none"
  BY <1>2, <1>8, <1>9 DEF SameCause
<1>12. Sane(x) => Honest(x, y)
  BY <1>2, <1>5, <1>8, <1>9, ViewSane DEF Honest, LogsOK
<1> QED BY <1>1, <1>2, <1>9, <1>10, <1>11, <1>12 DEF a, atc

\* A configuration error is delivered with the override still in force.
LEMMA ConfigEffect ==
    ASSUME NEW x, Sound(x), Running(x)
    PROVE  LET y == ConfigurationError(x)
           IN  /\ Taken(x, ConfigFrame(x), y) /\ Sound(y)
               /\ Sane(x) /\ x.ov = None => Honest(x, y)
<1> DEFINE b == [FaultFrame(0, 0, FALSE, FALSE) EXCEPT !.kind = "config", !.s = x.s, !.ins = x.ins]
           a == ConfigFrame(x)
           z == Deliver(x, b)
           y == EndFault(z)
<1>1. ConfigurationError(x) = y
  BY DEF ConfigurationError
<1>2. b = a
  <2> DEFINE u == x.s
             i == x.ins
             r == FaultFrame(0, 0, FALSE, FALSE)
  <2>1. /\ r = [n \in FrameFields |-> r[n]] /\ r.fa = 0 /\ r.size = 0 /\ r.write = FALSE
        /\ r.instr = FALSE /\ r.atc = FALSE /\ r.fc = 0 /\ r.data = [at |-> 0, size |-> 0]
        /\ r.handled = {} /\ r.df = TRUE
    BY DEF FaultFrame, FrameFields
  <2>2. b = [r EXCEPT !.kind = "config", !.s = u, !.ins = i]
    OBVIOUS
  <2> HIDE DEF u, i, b, r
  <2>3. /\ b = [n \in FrameFields |-> b[n]] /\ b.kind = "config" /\ b.s = u /\ b.ins = i
        /\ \A n \in FrameFields \ {"kind", "s", "ins"} : b[n] = r[n]
    BY <2>1, <2>2 DEF FrameFields
  <2>4. b = [kind |-> "config", fa |-> 0, size |-> 0, write |-> FALSE, instr |-> FALSE,
             atc |-> FALSE, fc |-> 0, s |-> u, data |-> [at |-> 0, size |-> 0], ins |-> i,
             handled |-> {}, df |-> TRUE]
    BY <2>1, <2>3 DEF FrameFields
  <2> QED BY <2>4 DEF ConfigFrame, u, i
<1> HIDE DEF a, b, z, y
<1>3. /\ Delivered(x, a, z) /\ Sound(z)
      /\ (Running(z) /\ SameCause(x, z)) \/ Halted(z)
      /\ Sane(x) /\ x.ov = None => LogsOK(x, z) /\ (Halted(z) => Stuck(z))
  BY <1>2, DeliverEffect DEF z
<1>4. /\ Taken(x, a, y) /\ Sound(y)
      /\ LogsOK(x, z) /\ (Halted(z) => Stuck(z)) => Honest(x, y)
  BY <1>3, EndFaultTakes DEF y
<1> QED BY <1>1, <1>3, <1>4 DEF a

\* Assignments to the pending cause and to the override.
LEMMA SetCause ==
    ASSUME NEW x, Sound(x), NEW v
    PROVE  LET y == [x EXCEPT !.cause = v]
           IN  /\ Beside(x, y) /\ SameLog(x, y) /\ Sound(y) /\ y.cause = v
               /\ Running(x) => Running(y)
<1> DEFINE y == [x EXCEPT !.cause = v]
<1>1. /\ y = [n \in Fields |-> y[n]] /\ y.cause = v
      /\ \A n \in Fields \ {"cause"} : y[n] = x[n]
  BY DEF Sound, Machine, Fields
<1> HIDE DEF y
<1>2. /\ y.atc = x.atc /\ y.tbl = x.tbl /\ View(x, y) /\ Task(x, y) /\ y.log = x.log
      /\ y.s = x.s /\ y.ov = x.ov /\ y.rd = x.rd
      /\ y.ws = x.ws /\ y.wdata = x.wdata /\ y.frames = x.frames /\ y.probe = x.probe
      /\ y.stopped = x.stopped /\ y.run_mode = x.run_mode
  BY <1>1 DEF View, Task, Fields
<1>3. Machine(y)
  BY <1>1, <1>2 DEF Sound, Machine
<1>4. Beside(x, y) /\ SameLog(x, y) /\ Sound(y) /\ (Running(x) => Running(y))
  BY <1>2, <1>3, SoundBeside DEF Beside, SameAtc, SameLog, Running
<1> QED BY <1>1, <1>4 DEF y

\* y is x but for the override
Unspaced(x, y) ==
    /\ Machine(y) /\ View(x, y) /\ Task(x, y) /\ y.s = x.s /\ y.rd = x.rd
    /\ y.ws = x.ws /\ y.wdata = x.wdata /\ y.frames = x.frames /\ y.probe = x.probe
    /\ y.log = x.log /\ y.stopped = x.stopped /\ y.run_mode = x.run_mode /\ y.cause = x.cause

LEMMA SetOv ==
    ASSUME NEW x, Sound(x), NEW v
    PROVE  LET y == [x EXCEPT !.ov = v] IN Unspaced(x, y) /\ Sound(y) /\ y.ov = v
<1> DEFINE y == [x EXCEPT !.ov = v]
<1>1. /\ y = [n \in Fields |-> y[n]] /\ y.ov = v
      /\ \A n \in Fields \ {"ov"} : y[n] = x[n]
  BY DEF Sound, Machine, Fields
<1> HIDE DEF y
<1>2. /\ y.atc = x.atc /\ y.tbl = x.tbl /\ View(x, y) /\ Task(x, y) /\ y.log = x.log
      /\ y.s = x.s /\ y.rd = x.rd
      /\ y.ws = x.ws /\ y.wdata = x.wdata /\ y.frames = x.frames /\ y.probe = x.probe
      /\ y.stopped = x.stopped /\ y.run_mode = x.run_mode /\ y.cause = x.cause
  BY <1>1 DEF View, Task, Fields
<1>3. Machine(y)
  BY <1>1, <1>2 DEF Sound, Machine
<1>4. Unspaced(x, y) /\ Sound(y)
  BY <1>2, <1>3, SoundBeside DEF Unspaced, SameAtc
<1> QED BY <1>1, <1>4 DEF y

\* The address a fault of cause reports
FaultAddr(cause, lb) == IF cause = "TableWalkBusError" THEN TableAddr ELSE lb

\* handle_mmu_fault, on a failed translation t: one exception is taken, and the
\* override is gone.
LEMMA HandleEffect ==
    ASSUME NEW t, Sound(t.c), Running(t.c), NEW lb, NEW n, NEW write, NEW instr
    PROVE  LET x == t.c
               y == handle_mmu_fault(t, lb, n, write, instr)
           IN  /\ Sound(y) /\ y.ov = None
               /\ t.cause = "Config" => Taken(x, ConfigFrame(x), y)
               /\ t.cause # "Config" =>
                    /\ Taken(x, AccessFrame(x, FaultAddr(t.cause, lb), n, write, instr,
                                            t.cause # "none"), y)
                    /\ ~y.stopped => y.cause = "none"
               /\ Sane(x) /\ (x.ov = None \/ t.cause # "Config") => Honest(x, y)
<1> DEFINE x == t.c
           p == [x EXCEPT !.cause = t.cause]
           fa == FaultAddr(t.cause, lb)
           d == TakeFault(p, fa, n, write, instr)
           y == [d EXCEPT !.ov = None]
           a == AccessFrame(x, fa, n, write, instr, t.cause # "none")
<1>1. handle_mmu_fault(t, lb, n, write, instr) = y
  BY DEF handle_mmu_fault, FaultAddr
<1>2. Beside(x, p) /\ SameLog(x, p) /\ Sound(p) /\ p.cause = t.cause /\ Running(p)
  BY SetCause
<1> HIDE DEF x, p, fa, d, y
<1>3. /\ View(x, p) /\ Task(x, p) /\ p.rd = x.rd /\ p.ws = x.ws /\ p.probe = x.probe
      /\ p.frames = x.frames /\ p.ov = x.ov /\ p.s = x.s /\ p.wdata = x.wdata /\ p.log = x.log
      /\ p.ins = x.ins /\ p.excused = x.excused
  BY <1>2 DEF Beside, SameLog, Task
<1>4. Sane(p) <=> Sane(x)
  BY <1>3, ViewSane
<1>5. \A b : Taken(p, b, d) => Taken(x, b, d)
  BY <1>3, ViewTrans DEF Taken, Task
<1>6. Honest(p, d) => Honest(x, d)
  BY <1>3 DEF Honest, LogsOK
<1>7. t.cause = "Config" =>
        /\ Taken(x, ConfigFrame(x), d) /\ Sound(d)
        /\ Sane(x) /\ x.ov = None => Honest(x, d)
  <2>1. t.cause = "Config" => d = ConfigurationError(p)
    BY <1>2 DEF d, TakeFault
  <2>2. ConfigFrame(p) = ConfigFrame(x)
    BY <1>3 DEF ConfigFrame
  <2>3. t.cause = "Config" =>
           /\ Taken(p, ConfigFrame(p), d) /\ Sound(d)
           /\ Sane(p) /\ p.ov = None => Honest(p, d)
    BY <1>2, <2>1, ConfigEffect
  <2> QED BY <1>3, <1>4, <1>5, <1>6, <2>2, <2>3
<1>8. t.cause # "Config" =>
        /\ Taken(x, a, d) /\ Sound(d) /\ (~d.stopped => d.cause = "none")
        /\ Sane(x) => Honest(x, d)
  <2>1. t.cause # "Config" => d = trigger_bus_error(p, FaultFrame(fa, n, write, instr))
    BY <1>2 DEF d, TakeFault
  <2>2. AccessFrame(p, fa, n, write, instr, p.cause # "none") = a
    BY <1>2, <1>3 DEF AccessFrame, SpaceOf
  <2>3. t.cause # "Config" =>
           /\ Taken(p, AccessFrame(p, fa, n, write, instr, p.cause # "none"), d) /\ Sound(d)
           /\ ~d.stopped => d.cause = "none"
           /\ Sane(p) => Honest(p, d)
    BY <1>2, <2>1, TriggerEffect
  <2> HIDE DEF a
  <2> QED BY <1>4, <1>5, <1>6, <2>2, <2>3
<1> HIDE DEF a
<1>9. Unspaced(d, y) /\ Sound(y) /\ y.ov = None
  BY <1>7, <1>8, SetOv DEF y
<1>10. \A b : Taken(x, b, d) => Taken(x, b, y)
  BY <1>9, ViewTrans DEF Taken, Unspaced, Task
<1>11. Honest(x, d) => Honest(x, y)
  BY <1>9, ViewStuck, ViewLogOK DEF Unspaced, Honest, LogsOK
<1>12. y.stopped = d.stopped /\ y.cause = d.cause
  BY <1>9 DEF Unspaced
<1>13. /\ Sound(y) /\ y.ov = None
       /\ t.cause = "Config" => Taken(x, ConfigFrame(x), y)
       /\ t.cause # "Config" => Taken(x, a, y) /\ (~y.stopped => y.cause = "none")
       /\ Sane(x) /\ (x.ov = None \/ t.cause # "Config") => Honest(x, y)
  BY <1>7, <1>8, <1>9, <1>10, <1>11, <1>12
<1> QED BY <1>1, <1>13 DEF a, fa, x

----------------------------------------------------------------------------
(* The bus cycles of an instruction *)

\* The cycle went through: y is x with the bytes logged
Went(x, y) ==
    /\ Machine(y) /\ View(x, y) /\ Task(x, y) /\ Running(y) /\ y.s = x.s /\ y.ov = x.ov
    /\ y.frames = x.frames /\ y.cause = x.cause /\ x.log \subseteq y.log

\* The cycle faulted: y is x with the exception of frame a taken
Fell(x, a, y) == Taken(x, a, y) /\ y.ov = None

\* The frame of a fault of this cycle
Reports(x, lb, n, write, instr, a) ==
    \/ a = ConfigFrame(x)
    \/ \E fa \in Nat, atc \in BOOLEAN :
          /\ a = AccessFrame(x, fa, n, write, instr, atc)
          /\ atc /\ x.cause = "none" /\ fa # TableAddr => fa = lb

\* The bytes of a cycle are in the log
Covers(y, lb, n, write) == Bytes(lb, n) \subseteq {e.lb : e \in {d \in y.log : d.write = write}}

\* No configuration error can come while the override is in force
NoConfig(x) == Fixed(x) \/ RootsValid(x)
Spaced(x) == x.s \in BOOLEAN /\ x.ov \in {None, 1, 2, 5, 6} /\ (x.ov = None \/ NoConfig(x))

\* A cycle of n bytes, its translation first.
LEMMA CycleEffect ==
    ASSUME NEW x, Sound(x), Running(x), NEW lb \in Nat, NEW n \in Nat, NEW write \in BOOLEAN,
           NEW instr \in BOOLEAN
    PROVE  LET y == Cycle(translate(x, Page(lb), write, instr), lb, n, write, instr,
                          SpaceOf(x, instr))
           IN  /\ Sound(y)
               /\ \/ /\ Went(x, y) /\ Covers(y, lb, n, write) /\ y.wdata = x.wdata
                     /\ y.rd = x.rd /\ y.ws = x.ws /\ y.probe = x.probe
                  \/ \E a : Reports(x, lb, n, write, instr, a) /\ Fell(x, a, y)
               /\ NoConfig(x) /\ Paged(x) /\ x.cause = "none" /\ ~y.stopped => y.cause = "none"
               /\ Sane(x) /\ Spaced(x) /\ (x.pmmu_enabled => (lb % PageBytes) + n <= PageBytes)
                    => Honest(x, y)
<1> DEFINE t == translate(x, Page(lb), write, instr)
           z == t.c
           fc == SpaceOf(x, instr)
           y == Cycle(t, lb, n, write, instr, fc)
           Inside == x.pmmu_enabled => (lb % PageBytes) + n <= PageBytes
<1>1. Page(lb) \in Nat
  BY DEF Page, PageBytes
<1>2. /\ Still(x, z) /\ Sound(z) /\ t.ok \in BOOLEAN
      /\ Paged(x) /\ NoConfig(x) => t.cause # "Config"
      /\ Sane(x) /\ x.s \in BOOLEAN /\ x.ov \in {None, 1, 2, 5, 6} =>
           (t.ok => Allows(x, Page(lb), fc, write, instr, t.page) /\ t.page \in Nat)
  <2> DEFINE f == Page(lb)
  <2> HIDE DEF f
  <2>1. f \in Nat
    BY <1>1 DEF f
  <2> DEFINE u == translate(x, f, write, instr)
  <2>2. Still(x, u.c) /\ Sound(u.c) /\ u.ok \in BOOLEAN
    BY <2>1, TranslateEffect
  <2>3. ASSUME Paged(x), Fixed(x) \/ RootsValid(x) PROVE u.cause # "Config"
    BY <2>1, <2>3, TranslateStill DEF Sound
  <2>4. ASSUME Sane(x), x.s \in BOOLEAN, x.ov \in {None, 1, 2, 5, 6}, u.ok
        PROVE  Allows(x, f, SpaceOf(x, instr), write, instr, u.page) /\ u.page \in Nat
    BY <2>1, <2>4, TranslateEffect
  <2> QED BY <2>2, <2>3, <2>4 DEF f, NoConfig
<1>3. /\ View(x, z) /\ Task(x, z) /\ Machine(z) /\ Running(z) /\ z.log = x.log /\ z.cause = x.cause
      /\ z.rd = x.rd /\ z.ws = x.ws /\ z.probe = x.probe /\ z.frames = x.frames /\ z.s = x.s
      /\ z.ov = x.ov /\ z.wdata = x.wdata /\ z.ins = x.ins /\ z.excused = x.excused
  BY <1>2 DEF Still, Running, Task
<1>4. y = IF ~t.ok THEN handle_mmu_fault(t, lb, n, write, instr)
          ELSE IF t.page = Hole
          THEN trigger_bus_error(z, FaultFrame((Hole * PageBytes) + (lb % PageBytes), n, write, instr))
          ELSE Logged(z, lb, n, t.page, fc, write, instr)
  BY DEF Cycle
<1> HIDE DEF t, z, fc, y
<1>5. \A fa, atc : AccessFrame(z, fa, n, write, instr, atc) = AccessFrame(x, fa, n, write, instr, atc)
  BY <1>3 DEF AccessFrame, SpaceOf
<1>6. ConfigFrame(z) = ConfigFrame(x)
  BY <1>3 DEF ConfigFrame
<1>7. \A a : Taken(z, a, y) => Taken(x, a, y)
  BY <1>3, ViewTrans DEF Taken, Task
<1>8. Honest(z, y) => Honest(x, y)
  BY <1>3 DEF Honest, LogsOK
<1>9. (Sane(z) <=> Sane(x)) /\ (Paged(z) <=> Paged(x))
  BY <1>3, ViewSane DEF View, Paged
<1> DEFINE Goal ==
      /\ Sound(y)
      /\ \/ /\ Went(x, y) /\ Covers(y, lb, n, write) /\ y.wdata = x.wdata
            /\ y.rd = x.rd /\ y.ws = x.ws /\ y.probe = x.probe
         \/ \E a : Reports(x, lb, n, write, instr, a) /\ Fell(x, a, y)
      /\ NoConfig(x) /\ Paged(x) /\ x.cause = "none" /\ ~y.stopped => y.cause = "none"
      /\ Sane(x) /\ Spaced(x) /\ Inside => Honest(x, y)
<1>10. ASSUME ~t.ok PROVE Goal
  <2> DEFINE fa == FaultAddr(t.cause, lb)
             atc == t.cause # "none"
  <2>1. /\ Sound(y) /\ y.ov = None
        /\ t.cause = "Config" => Taken(z, ConfigFrame(z), y)
        /\ t.cause # "Config" =>
              /\ Taken(z, AccessFrame(z, fa, n, write, instr, atc), y)
              /\ ~y.stopped => y.cause = "none"
        /\ Sane(z) /\ (z.ov = None \/ t.cause # "Config") => Honest(z, y)
    BY <1>2, <1>3, <1>4, <1>10, HandleEffect DEF z
  <2>2. fa \in Nat /\ (fa # TableAddr => fa = lb) /\ atc \in BOOLEAN
    BY DEF FaultAddr, TableAddr
  <2> HIDE DEF fa, atc
  <2>3. CASE t.cause = "Config"
    <3>1. Reports(x, lb, n, write, instr, ConfigFrame(x)) /\ Fell(x, ConfigFrame(x), y)
      BY <1>6, <1>7, <2>1, <2>3 DEF Reports, Fell
    <3>2. ~(Paged(x) /\ NoConfig(x))
      BY <1>2, <2>3
    <3>3. Sane(x) /\ Spaced(x) => Honest(x, y)
      BY <1>3, <1>8, <1>9, <2>1, <3>2 DEF Spaced, Sane
    <3> QED BY <2>1, <3>1, <3>2, <3>3
  <2>4. CASE t.cause # "Config"
    <3> DEFINE a == AccessFrame(x, fa, n, write, instr, atc)
    <3>1. Fell(x, a, y)
      BY <1>5, <1>7, <2>1, <2>4 DEF Fell
    <3>2. Reports(x, lb, n, write, instr, a)
      BY <2>2 DEF Reports
    <3>3. Sane(x) => Honest(x, y)
      BY <1>8, <1>9, <2>1, <2>4
    <3> HIDE DEF a
    <3> QED BY <2>1, <2>4, <3>1, <3>2, <3>3
  <2> QED BY <2>3, <2>4
<1>11. ASSUME t.ok, t.page = Hole PROVE Goal
  <2> DEFINE fa == (Hole * PageBytes) + (lb % PageBytes)
             atc == x.cause # "none"
             a == AccessFrame(x, fa, n, write, instr, atc)
  <2>1. y = trigger_bus_error(z, FaultFrame(fa, n, write, instr))
    BY <1>4, <1>11
  <2>2. fa \in Nat /\ atc \in BOOLEAN /\ (atc => x.cause # "none")
    BY DEF Hole, PageBytes
  <2>3. AccessFrame(z, fa, n, write, instr, z.cause # "none") = a
    BY <1>3, <1>5
  <2> HIDE DEF fa
  <2>4. /\ Taken(z, AccessFrame(z, fa, n, write, instr, z.cause # "none"), y)
        /\ Sound(y) /\ y.ov = None /\ (~y.stopped => y.cause = "none")
        /\ Sane(z) => Honest(z, y)
    BY <1>2, <1>3, <2>1, TriggerEffect
  <2> HIDE DEF a
  <2>5. Fell(x, a, y)
    BY <1>7, <2>3, <2>4 DEF Fell
  <2>6. Reports(x, lb, n, write, instr, a)
    <3> HIDE DEF atc
    <3> QED BY <2>2 DEF Reports, a
  <2> QED BY <1>8, <1>9, <2>4, <2>5, <2>6
<1>12. ASSUME t.ok, t.page # Hole PROVE Goal
  <2>1. y = Logged(z, lb, n, t.page, fc, write, instr)
    BY <1>4, <1>12
  <2>2. /\ Beside(z, y) /\ SameAtc(z, y) /\ SameCause(z, y) /\ Running(y)
        /\ Covers(y, lb, n, write) /\ z.log \subseteq y.log
        /\ /\ t.page \in Nat /\ Allows(z, Page(lb), fc, write, instr, t.page)
           /\ z.pmmu_enabled => (lb % PageBytes) + n <= PageBytes
           => LogsOK(z, y)
    BY <1>3, <2>1, LoggedEffect DEF Covers
  <2>3. View(z, y) /\ Machine(y)
    BY <2>2 DEF Beside
  <2>4. Sound(y)
    BY <1>2, <2>2, <2>3, SoundBeside
  <2>5. Went(x, y) /\ y.wdata = x.wdata /\ y.rd = x.rd /\ y.ws = x.ws /\ y.probe = x.probe
    BY <1>3, <2>2, ViewTrans DEF Went, Beside, Task, SameCause
  <2>6. y.stopped = FALSE /\ y.cause = x.cause
    BY <2>2, <2>5 DEF Running, Went
  <2>7. ASSUME Sane(x), Spaced(x), Inside PROVE Honest(x, y)
    <3>1. Allows(z, Page(lb), fc, write, instr, t.page) /\ t.page \in Nat
      BY <1>2, <1>3, <1>12, <2>7, ViewAllows DEF Spaced
    <3>2. z.pmmu_enabled = x.pmmu_enabled
      BY <1>3 DEF View
    <3>3. LogsOK(z, y)
      BY <2>2, <2>7, <3>1, <3>2
    <3> QED BY <1>8, <2>6, <3>3 DEF Honest
  <2> QED BY <2>2, <2>4, <2>5, <2>6, <2>7
<1>13. Goal
  BY <1>2, <1>10, <1>11, <1>12
<1> QED BY <1>13 DEF y, t, fc

Datum == [at : Nat, size : 0..4]

\* A cycle of the data path, in the space its instruction runs it in
CycleOf(x, k) ==
    /\ k.kind \in {"read", "write", "fetch", "plpar", "plpaw"} /\ k.lb \in Nat /\ k.n \in 1..4
    /\ k.kind \in {"fetch", "plpar", "plpaw"} => x.ov = None
    /\ k.kind \in {"plpar", "plpaw"} => k.n = 4
Typed(x) == x.s \in BOOLEAN /\ x.ov \in -1..7 /\ x.wdata \in Datum
Inside(x, k) ==
    x.pmmu_enabled /\ k.kind \in {"read", "write", "fetch"} => (k.lb % PageBytes) + k.n <= PageBytes

\* What frame a reports of a fault in cycle k of machine x
FrameFacts(x, k, a) ==
    /\ a = [n \in FrameFields |-> a[n]] /\ a.kind \in {"access", "config"} /\ a.fa \in Nat
    /\ a.size \in 0..4 /\ a.write \in BOOLEAN /\ a.instr \in BOOLEAN /\ a.atc \in BOOLEAN
    /\ a.fc \in 0..7 /\ a.s = x.s /\ a.data \in Datum /\ a.ins = x.ins
    /\ a.handled \in {{}, x.excused} /\ a.df = TRUE
    /\ a.kind = "access" /\ a.atc /\ x.cause = "none" /\ a.fa # TableAddr =>
          /\ a.fa = k.lb /\ a.fc = SpaceOf(x, a.instr)
          /\ a.write /\ k.kind # "plpaw" => a.data = [at |-> a.fa, size |-> a.size]

\* A probe of machine x tells what the tables say
ProbeTrue(x) ==
    IF x.cpu_type = "M68030"
    THEN x.probe.ok <=> \E q \in {Walk030(x, x.probe.f, x.probe.fc, 7).page} :
                           TablesAllow(x, x.probe.f, x.probe.fc, x.probe.write, q)
    ELSE IF x.probe.ok
    THEN Allows(x, x.probe.f, x.probe.fc, x.probe.write, No, x.probe.page)
    ELSE ~\E q \in 0..Hole : Allows(x, x.probe.f, x.probe.fc, x.probe.write, No, q)

\* Cycle k went through from x to y, or faulted
CycleDone(x, k, y) ==
    /\ Sound(y) /\ y.wdata \in Datum
    /\ \/ /\ Went(x, y) /\ y.rd \in {x.rd, None} /\ y.ws \in {x.ws, None}
          /\ k.kind \in {"read", "write", "fetch"} =>
                /\ y.probe = x.probe
                /\ x.rd = None /\ x.ws = None => Covers(y, k.lb, k.n, k.kind = "write")
          /\ /\ k.kind \in {"plpar", "plpaw"} /\ Sane(x) /\ Typed(x) /\ x.cpu_type = "M68060"
             /\ x.dfc \in {1, 2, 5, 6}
             => ProbeTrue(y)
       \/ \E a : FrameFacts(x, k, a) /\ Fell(x, a, y)
    /\ NoConfig(x) /\ Paged(x) /\ x.cause = "none" /\ ~y.stopped => y.cause = "none"
    /\ Sane(x) /\ Spaced(x) /\ Inside(x, k) => Honest(x, y)

LEMMA SpaceTyped ==
    ASSUME NEW x, Typed(x), NEW i \in BOOLEAN PROVE SpaceOf(x, i) \in 0..7
BY DEF SpaceOf, Typed, Fc, None

\* The frames of a fault, field by field.
LEMMA ReportsFacts ==
    ASSUME NEW x, Typed(x), NEW k, CycleOf(x, k), NEW w \in BOOLEAN, NEW i \in BOOLEAN, NEW a,
           Reports(x, k.lb, k.n, w, i, a),
           w /\ k.kind # "plpaw" => x.wdata = [at |-> k.lb, size |-> k.n]
    PROVE  FrameFacts(x, k, a)
<1> DEFINE lb == k.lb
           n == k.n
<1>0. lb \in Nat /\ n \in 0..4
  BY DEF CycleOf
<1>1. CASE a = ConfigFrame(x)
  <2> DEFINE v == ConfigFrame(x)
  <2>1. /\ v = [m \in FrameFields |-> v[m]] /\ v.kind = "config" /\ v.fa = 0 /\ v.size = 0
        /\ v.write = FALSE /\ v.instr = FALSE /\ v.atc = FALSE /\ v.fc = 0 /\ v.s = x.s
        /\ v.data = [at |-> 0, size |-> 0] /\ v.ins = x.ins /\ v.handled = {} /\ v.df = TRUE
    BY DEF ConfigFrame, FrameFields
  <2> HIDE DEF v
  <2>2. v.data \in Datum
    BY <2>1 DEF Datum
  <2>3. /\ v.handled \in {{}, x.excused} /\ v.kind \in {"access", "config"} /\ v.kind # "access"
    BY <2>1, Zenon
  <2>4. /\ v.fa \in Nat /\ v.size \in 0..4 /\ v.fc \in 0..7
        /\ v.write \in BOOLEAN /\ v.instr \in BOOLEAN /\ v.atc \in BOOLEAN
    <3>1. v.write \in BOOLEAN /\ v.instr \in BOOLEAN /\ v.atc \in BOOLEAN
      BY <2>1, Zenon
    <3>2. v.fa = 0 /\ v.size = 0 /\ v.fc = 0
      BY <2>1, Zenon
    <3> QED BY <3>1, <3>2
  <2>5. FrameFacts(x, k, v)
    BY <2>1, <2>2, <2>3, <2>4, Zenon DEF FrameFacts
  <2> QED BY <1>1, <2>5 DEF v
<1>2. ASSUME NEW fa \in Nat, NEW atc \in BOOLEAN, a = AccessFrame(x, fa, n, w, i, atc),
             atc /\ x.cause = "none" /\ fa # TableAddr => fa = lb
      PROVE  FrameFacts(x, k, a)
  <2> DEFINE v == AccessFrame(x, fa, n, w, i, atc)
  <2>1. /\ v = [m \in FrameFields |-> v[m]]
        /\ v.kind = "access" /\ v.fa = fa /\ v.size = n /\ v.write = w
        /\ v.instr = i /\ v.atc = atc /\ v.df = TRUE
        /\ v.fc = SpaceOf(x, i) /\ v.s = x.s /\ v.data = x.wdata /\ v.ins = x.ins
        /\ v.handled = x.excused
    BY DEF AccessFrame, FrameFields
  <2> HIDE DEF v
  <2>2. v.fc \in 0..7 /\ v.data \in Datum
    BY <2>1, SpaceTyped DEF Typed
  <2>3. FrameFacts(x, k, v)
    BY <1>0, <1>2, <2>1, <2>2 DEF FrameFacts
  <2> QED BY <1>2, <2>3 DEF v
<1> QED BY <1>1, <1>2 DEF Reports

\* w: cycle k writes (a store, or the probe of PLPAW); the datum of a store is noted
Stores(x, k, w) ==
    (w <=> k.kind = "write") /\ (w => x.wdata = [at |-> k.lb, size |-> k.n])
Probes(k, w) == w <=> k.kind = "plpaw"

\* A cycle of an operand or of instruction words, after its completion was looked at.
LEMMA AccessDone ==
    ASSUME NEW x, Sound(x), Running(x), Typed(x), NEW k, CycleOf(x, k),
           k.kind \in {"read", "write", "fetch"}, NEW w \in BOOLEAN, NEW i \in BOOLEAN,
           Stores(x, k, w)
    PROVE  CycleDone(x, k, Cycle(translate(x, Page(k.lb), w, i), k.lb, k.n, w, i, SpaceOf(x, i)))
<1> DEFINE y == Cycle(translate(x, Page(k.lb), w, i), k.lb, k.n, w, i, SpaceOf(x, i))
           lb == k.lb
           n == k.n
<1>0. lb \in Nat /\ n \in Nat
  BY DEF CycleOf
<1>1. x.wdata \in Datum /\ w = (k.kind = "write")
  BY DEF Typed, Stores
<1>2. y = Cycle(translate(x, Page(lb), w, i), lb, n, w, i, SpaceOf(x, i))
  OBVIOUS
<1> HIDE DEF y, lb, n
<1>3. /\ Sound(y)
      /\ \/ /\ Went(x, y) /\ Covers(y, lb, n, w) /\ y.wdata = x.wdata
            /\ y.rd = x.rd /\ y.ws = x.ws /\ y.probe = x.probe
         \/ \E a : Reports(x, lb, n, w, i, a) /\ Fell(x, a, y)
      /\ NoConfig(x) /\ Paged(x) /\ x.cause = "none" /\ ~y.stopped => y.cause = "none"
      /\ Sane(x) /\ Spaced(x) /\ (x.pmmu_enabled => (lb % PageBytes) + n <= PageBytes)
           => Honest(x, y)
  BY <1>0, <1>2, CycleEffect
<1>4. Inside(x, k) => (x.pmmu_enabled => (lb % PageBytes) + n <= PageBytes)
  BY DEF Inside, lb, n
<1>5. CASE Went(x, y) /\ Covers(y, lb, n, w) /\ y.wdata = x.wdata
           /\ y.rd = x.rd /\ y.ws = x.ws /\ y.probe = x.probe
  <2>1. Covers(y, k.lb, k.n, k.kind = "write")
    BY <1>1, <1>5, Zenon DEF lb, n
  <2>2. k.kind \notin {"plpar", "plpaw"}
    OBVIOUS
  <2>3. CycleDone(x, k, y)
    BY <1>1, <1>3, <1>4, <1>5, <2>1, <2>2 DEF CycleDone
  <2> QED BY <2>3 DEF y
<1>6. ASSUME NEW a, Reports(x, lb, n, w, i, a), Fell(x, a, y)
      PROVE  CycleDone(x, k, y)
  <2>1. FrameFacts(x, k, a)
    BY <1>6, ReportsFacts DEF lb, n, Stores
  <2>2. y.wdata \in Datum
    BY <1>6 DEF Fell, Taken, Datum, StackPage, PageBytes
  <2> QED BY <1>3, <1>4, <1>6, <2>1, <2>2 DEF CycleDone
<1> QED BY <1>3, <1>5, <1>6 DEF y

\* read_8 to read_32, one cycle: a pending completion is consumed instead.
LEMMA ReadDone ==
    ASSUME NEW x, Sound(x), Running(x), Typed(x), NEW k, CycleOf(x, k), k.kind = "read"
    PROVE  CycleDone(x, k, ReadCycle(x, k.lb, k.n))
<1> DEFINE y == ReadCycle(x, k.lb, k.n)
           lb == k.lb
           n == k.n
<1>1. lb \in Nat /\ n \in Nat /\ No \in BOOLEAN /\ x.wdata \in Datum
  BY DEF CycleOf, No, Typed
<1>2. CASE x.rd = lb
  <2>1. y = [x EXCEPT !.rd = None]
    BY <1>2 DEF ReadCycle
  <2> HIDE DEF y
  <2>2. /\ y = [m \in Fields |-> y[m]] /\ y.rd = None
        /\ \A m \in Fields \ {"rd"} : y[m] = x[m]
    BY <2>1 DEF Sound, Machine, Fields
  <2>3. /\ y.atc = x.atc /\ y.tbl = x.tbl /\ View(x, y) /\ Task(x, y) /\ y.log = x.log
        /\ y.s = x.s /\ y.ov = x.ov /\ y.ws = x.ws /\ y.wdata = x.wdata /\ y.frames = x.frames
        /\ y.probe = x.probe /\ y.stopped = x.stopped /\ y.run_mode = x.run_mode
        /\ y.cause = x.cause
    BY <2>2 DEF View, Task, Fields
  <2>4. Machine(y) /\ Running(y)
    BY <2>2, <2>3 DEF Sound, Machine, Running
  <2>5. Sound(y) /\ Went(x, y) /\ Honest(x, y)
    BY <2>3, <2>4, SoundBeside DEF SameAtc, Went, Honest, LogsOK, Running
  <2>6. x.rd # None
    BY <1>1, <1>2 DEF None
  <2>7. y.stopped = FALSE /\ y.cause = x.cause
    BY <2>3, <2>4 DEF Running
  <2>8. CycleDone(x, k, y)
    BY <1>1, <2>2, <2>3, <2>5, <2>6, <2>7 DEF CycleDone
  <2> QED BY <2>8 DEF y
<1>3. CASE x.rd # lb
  <2>1. y = Cycle(translate(x, Page(lb), No, No), lb, n, No, No, SpaceOf(x, No))
    BY <1>3 DEF ReadCycle, No, SpaceOf, compute_function_code
  <2>2. No = FALSE
    BY DEF No
  <2> HIDE DEF y
  <2>3. Stores(x, k, No)
    BY <2>2 DEF Stores
  <2>4. k.kind \in {"read", "write", "fetch"}
    OBVIOUS
  <2>5. CycleDone(x, k, Cycle(translate(x, Page(k.lb), No, No), k.lb, k.n, No, No, SpaceOf(x, No)))
    BY <1>1, <2>3, <2>4, AccessDone
  <2> QED BY <2>1, <2>5 DEF y
<1> QED BY <1>2, <1>3 DEF y

\* The datum of a write is noted before its cycle.
LEMMA SetWdata ==
    ASSUME NEW x, Sound(x), NEW v
    PROVE  LET y == [x EXCEPT !.wdata = v]
           IN  /\ Sound(y) /\ View(x, y) /\ Task(x, y) /\ y.log = x.log /\ y.s = x.s
               /\ y.ov = x.ov /\ y.rd = x.rd /\ y.ws = x.ws /\ y.frames = x.frames
               /\ y.probe = x.probe /\ y.cause = x.cause /\ y.wdata = v
               /\ Running(x) => Running(y)
<1> DEFINE y == [x EXCEPT !.wdata = v]
<1>1. /\ y = [n \in Fields |-> y[n]] /\ y.wdata = v
      /\ \A n \in Fields \ {"wdata"} : y[n] = x[n]
  BY DEF Sound, Machine, Fields
<1> HIDE DEF y
<1>2. /\ y.atc = x.atc /\ y.tbl = x.tbl /\ View(x, y) /\ Task(x, y) /\ y.log = x.log
      /\ y.s = x.s /\ y.ov = x.ov /\ y.rd = x.rd /\ y.ws = x.ws /\ y.frames = x.frames
      /\ y.probe = x.probe /\ y.cause = x.cause /\ y.stopped = x.stopped
      /\ y.run_mode = x.run_mode
  BY <1>1 DEF View, Task, Fields
<1>3. Machine(y) /\ (Running(x) => Running(y))
  BY <1>1, <1>2 DEF Sound, Machine, Running
<1>4. Sound(y)
  BY <1>2, <1>3, SoundBeside DEF SameAtc
<1> QED BY <1>1, <1>2, <1>3, <1>4 DEF y

\* write_8 to write_32, one cycle.
LEMMA WriteDone ==
    ASSUME NEW x, Sound(x), Running(x), Typed(x), NEW k, CycleOf(x, k), k.kind = "write"
    PROVE  CycleDone(x, k, WriteCycle(x, k.lb, k.n))
<1> DEFINE y == WriteCycle(x, k.lb, k.n)
           v == [at |-> k.lb, size |-> k.n]
           z == [x EXCEPT !.wdata = v]
<1>1. k.lb \in Nat /\ k.n \in Nat /\ Yes \in BOOLEAN /\ No \in BOOLEAN /\ x.wdata \in Datum
  BY DEF CycleOf, No, Yes, Typed
<1>2. CASE x.ws = k.lb
  <2>1. y = [x EXCEPT !.ws = None]
    BY <1>2 DEF WriteCycle
  <2> HIDE DEF y
  <2>2. /\ y = [m \in Fields |-> y[m]] /\ y.ws = None
        /\ \A m \in Fields \ {"ws"} : y[m] = x[m]
    BY <2>1 DEF Sound, Machine, Fields
  <2>3. /\ y.atc = x.atc /\ y.tbl = x.tbl /\ View(x, y) /\ Task(x, y) /\ y.log = x.log
        /\ y.s = x.s /\ y.ov = x.ov /\ y.rd = x.rd /\ y.wdata = x.wdata /\ y.frames = x.frames
        /\ y.probe = x.probe /\ y.stopped = x.stopped /\ y.run_mode = x.run_mode
        /\ y.cause = x.cause
    BY <2>2 DEF View, Task, Fields
  <2>4. Machine(y) /\ Running(y)
    BY <2>2, <2>3 DEF Sound, Machine, Running
  <2>5. Sound(y) /\ Went(x, y) /\ Honest(x, y)
    BY <2>3, <2>4, SoundBeside DEF SameAtc, Went, Honest, LogsOK, Running
  <2>6. x.ws # None
    BY <1>1, <1>2 DEF None
  <2>7. y.stopped = FALSE /\ y.cause = x.cause
    BY <2>3, <2>4 DEF Running
  <2>8. CycleDone(x, k, y)
    BY <1>1, <2>2, <2>3, <2>5, <2>6, <2>7 DEF CycleDone
  <2> QED BY <2>8 DEF y
<1>3. CASE x.ws # k.lb
  <2>0. compute_function_code(x, FALSE) = SpaceOf(x, No)
    BY DEF No, SpaceOf, compute_function_code
  <2>1. y = Cycle(translate(z, Page(k.lb), Yes, No), k.lb, k.n, Yes, No, SpaceOf(x, No))
    BY <1>3, <2>0 DEF WriteCycle, No, Yes
  <2>2. v \in Datum
    BY DEF CycleOf, Datum
  <2>3. /\ Sound(z) /\ View(x, z) /\ Task(x, z) /\ z.log = x.log /\ z.s = x.s
        /\ z.ov = x.ov /\ z.rd = x.rd /\ z.ws = x.ws /\ z.frames = x.frames
        /\ z.probe = x.probe /\ z.cause = x.cause /\ z.wdata = v /\ Running(z)
    BY SetWdata
  <2> HIDE DEF y, z, v
  <2>4. Typed(z) /\ CycleOf(z, k) /\ SpaceOf(z, No) = SpaceOf(x, No)
    BY <2>2, <2>3 DEF Typed, CycleOf, SpaceOf
  <2>5. Yes = TRUE
    BY DEF Yes
  <2>6. Stores(z, k, Yes)
    BY <2>3, <2>5 DEF v, Stores
  <2>7. k.kind \in {"read", "write", "fetch"}
    OBVIOUS
  <2>8. CycleDone(z, k, Cycle(translate(z, Page(k.lb), Yes, No), k.lb, k.n, Yes, No, SpaceOf(z, No)))
    BY <1>1, <2>3, <2>4, <2>6, <2>7, AccessDone
  <2>9. CycleDone(z, k, y)
    BY <2>1, <2>4, <2>8
  <2>10. \A a : FrameFacts(z, k, a) => FrameFacts(x, k, a)
    <3>1. z.s = x.s /\ z.ins = x.ins /\ z.excused = x.excused /\ z.cause = x.cause
      BY <2>3 DEF Task
    <3>2. \A i : SpaceOf(z, i) = SpaceOf(x, i)
      BY <2>3 DEF SpaceOf
    <3> QED BY <3>1, <3>2 DEF FrameFacts
  <2>11. \A a : Fell(z, a, y) => Fell(x, a, y)
    BY <2>3, ViewTrans DEF Fell, Taken, Task
  <2>12. Went(z, y) => Went(x, y)
    BY <2>3, ViewTrans DEF Went, Task
  <2>13. Honest(z, y) => Honest(x, y)
    BY <2>3 DEF Honest, LogsOK
  <2>14. /\ Sane(z) <=> Sane(x)
         /\ Paged(z) <=> Paged(x)
         /\ NoConfig(z) <=> NoConfig(x)
         /\ z.pmmu_enabled = x.pmmu_enabled
    BY <2>3, ViewSane DEF View, Paged, NoConfig, Fixed, RootsValid, Levels030, Fcl
  <2>15. (Spaced(z) <=> Spaced(x)) /\ (Inside(z, k) <=> Inside(x, k))
    BY <2>3, <2>14 DEF Spaced, Inside
  <2>16. k.kind \notin {"plpar", "plpaw"}
    OBVIOUS
  <2>17. CycleDone(x, k, y)
    BY <2>3, <2>9, <2>10, <2>11, <2>12, <2>13, <2>14, <2>15, <2>16 DEF CycleDone
  <2> QED BY <2>17 DEF y
<1> QED BY <1>2, <1>3

\* read_imm_16 and read_imm_32, one cycle.
LEMMA FetchDone ==
    ASSUME NEW x, Sound(x), Running(x), Typed(x), NEW k, CycleOf(x, k), k.kind = "fetch"
    PROVE  CycleDone(x, k, FetchCycle(x, k.lb, k.n))
<1>1. FetchCycle(x, k.lb, k.n) =
        Cycle(translate(x, Page(k.lb), No, Yes), k.lb, k.n, No, Yes, SpaceOf(x, Yes))
  BY DEF FetchCycle, No, Yes, SpaceOf, CycleOf
<1>2. No = FALSE /\ No \in BOOLEAN /\ Yes \in BOOLEAN
  BY DEF No, Yes
<1>3. Stores(x, k, No)
  BY <1>2 DEF Stores
<1>4. k.kind \in {"read", "write", "fetch"}
  OBVIOUS
<1>5. CycleDone(x, k, Cycle(translate(x, Page(k.lb), No, Yes), k.lb, k.n, No, Yes, SpaceOf(x, Yes)))
  BY <1>2, <1>3, <1>4, AccessDone
<1> QED BY <1>1, <1>5

\* PLPAR and PLPAW: the override of the probe is gone before the fault is taken.
LEMMA PlpaDone ==
    ASSUME NEW x, Sound(x), Running(x), Typed(x), NEW k, CycleOf(x, k),
           k.kind \in {"plpar", "plpaw"}, NEW w \in BOOLEAN, Probes(k, w)
    PROVE  CycleDone(x, k, plpa(x, k.lb, w))
<1> DEFINE lb == k.lb
           f == Page(lb)
           d == x.dfc
           x1 == [x EXCEPT !.ov = d]
           t == translate(x1, f, w, No)
           z == t.c
           z2 == [z EXCEPT !.ov = None]
           y == plpa(x, lb, w)
<1>1. lb \in Nat /\ k.n = 4 /\ x.ov = None /\ x.wdata \in Datum /\ No \in BOOLEAN
  BY DEF CycleOf, No, Typed
<1>2. f \in Nat
  BY <1>1 DEF Page, PageBytes
<1>3. Unspaced(x, x1) /\ Sound(x1) /\ x1.ov = d
  BY SetOv
<1>4. y = IF ~t.ok THEN handle_mmu_fault(Err(z2, t.cause), lb, 4, w, No)
          ELSE [z EXCEPT !.ov = None,
                  !.probe = [f |-> f, fc |-> z.dfc, write |-> w, ok |-> TRUE, page |-> t.page]]
  BY DEF plpa, Plpa, No
<1> HIDE DEF lb, f, d, x1, y
<1>5. Still(x1, z) /\ Sound(z) /\ t.ok \in BOOLEAN
  BY <1>1, <1>2, <1>3, TranslateEffect
<1>6. NoConfig(x1) /\ Paged(x1) => t.cause # "Config"
  <2>1. ASSUME Paged(x1), Fixed(x1) \/ RootsValid(x1) PROVE t.cause # "Config"
    BY <1>2, <1>3, <2>1, TranslateStill DEF Sound
  <2> QED BY <2>1 DEF NoConfig
<1>7. ASSUME Sane(x1), x1.s \in BOOLEAN, d \in {1, 2, 5, 6}, t.ok
      PROVE  Allows(x1, f, d, w, No, t.page)
  <2>1. SpaceOf(x1, No) = d /\ x1.ov \in {None, 1, 2, 5, 6}
    BY <1>3, <1>7 DEF SpaceOf, None
  <2>2. Allows(x1, f, SpaceOf(x1, No), w, No, t.page)
    BY <1>1, <1>2, <1>3, <1>7, <2>1, TranslateEffect
  <2> QED BY <2>1, <2>2
<1>8. Unspaced(z, z2) /\ Sound(z2) /\ z2.ov = None
  BY <1>5, SetOv
<1> HIDE DEF t, z, z2
<1>9. /\ View(x, z) /\ Task(x, z) /\ z.s = x.s /\ z.rd = x.rd /\ z.ws = x.ws /\ z.wdata = x.wdata
      /\ z.frames = x.frames /\ z.log = x.log /\ z.stopped = x.stopped /\ z.dfc = x.dfc
      /\ z.run_mode = x.run_mode /\ z.cause = x.cause /\ View(x, x1) /\ x1.s = x.s
  BY <1>3, <1>5, ViewTrans DEF Unspaced, Still, Task, View
<1>10. (Sane(x1) <=> Sane(x)) /\ (Paged(x1) <=> Paged(x)) /\ (NoConfig(x1) <=> NoConfig(x))
  BY <1>9, ViewSane DEF View, Paged, NoConfig, Fixed, RootsValid, Levels030, Fcl
<1>11. ASSUME ~t.ok PROVE CycleDone(x, k, y)
  <2> DEFINE e == Err(z2, t.cause)
             fa == FaultAddr(t.cause, lb)
             atc == t.cause # "none"
  <2>1. e.c = z2 /\ e.cause = t.cause
    BY DEF Err
  <2>2. /\ View(x, z2) /\ Task(x, z2) /\ z2.s = x.s /\ z2.rd = x.rd /\ z2.ws = x.ws
        /\ z2.wdata = x.wdata /\ z2.frames = x.frames /\ z2.log = x.log /\ Running(z2)
        /\ z2.probe = z.probe /\ z2.cause = x.cause /\ z2.ins = x.ins /\ z2.excused = x.excused
        /\ z2.ov = x.ov
    BY <1>1, <1>8, <1>9, ViewTrans DEF Unspaced, Task, Running
  <2>3. z2.probe = x.probe
    BY <1>3, <1>5, <2>2 DEF Unspaced, Still
  <2> HIDE DEF e
  <2>4. y = handle_mmu_fault(e, lb, 4, w, No)
    BY <1>4, <1>11 DEF e
  <2>5. /\ Sound(y) /\ y.ov = None
        /\ t.cause = "Config" => Taken(z2, ConfigFrame(z2), y)
        /\ t.cause # "Config" =>
              /\ Taken(z2, AccessFrame(z2, fa, 4, w, No, atc), y)
              /\ ~y.stopped => y.cause = "none"
        /\ Sane(z2) => Honest(z2, y)
    BY <1>8, <2>1, <2>2, <2>4, HandleEffect
  <2>6. fa \in Nat /\ (fa # TableAddr => fa = lb) /\ atc \in BOOLEAN
    BY <1>1 DEF FaultAddr, TableAddr
  <2> HIDE DEF fa, atc
  <2>7. /\ ConfigFrame(z2) = ConfigFrame(x)
        /\ AccessFrame(z2, fa, 4, w, No, atc) = AccessFrame(x, fa, 4, w, No, atc)
    BY <2>2 DEF ConfigFrame, AccessFrame, SpaceOf
  <2>8. \A a : Taken(z2, a, y) => Taken(x, a, y)
    BY <2>2, <2>3, ViewTrans DEF Taken, Task
  <2>9. Sane(x) => Honest(x, y)
    BY <2>2, <2>5, ViewSane DEF Honest, LogsOK
  <2>10. \E a : Reports(x, lb, 4, w, No, a) /\ Fell(x, a, y)
    <3>1. CASE t.cause = "Config"
      BY <2>5, <2>7, <2>8, <3>1 DEF Reports, Fell
    <3>2. CASE t.cause # "Config"
      <4> DEFINE a == AccessFrame(x, fa, 4, w, No, atc)
      <4>1. Fell(x, a, y)
        BY <2>5, <2>7, <2>8, <3>2 DEF Fell
      <4>2. Reports(x, lb, 4, w, No, a)
        BY <2>6 DEF Reports
      <4> QED BY <4>1, <4>2
    <3> QED BY <3>1, <3>2
  <2>11. PICK a : Reports(x, k.lb, k.n, w, No, a) /\ Fell(x, a, y)
    BY <1>1, <2>10 DEF lb
  <2>12. w /\ k.kind # "plpaw" => x.wdata = [at |-> k.lb, size |-> k.n]
    BY DEF Probes
  <2>13. FrameFacts(x, k, a)
    BY <1>1, <2>11, <2>12, ReportsFacts
  <2>14. y.wdata \in Datum
    BY <2>11 DEF Fell, Taken, Datum, StackPage, PageBytes
  <2>15. NoConfig(x) /\ Paged(x) /\ ~y.stopped => y.cause = "none"
    BY <1>6, <1>10, <2>5
  <2> QED BY <2>5, <2>9, <2>11, <2>13, <2>14, <2>15 DEF CycleDone
<1>12. ASSUME t.ok PROVE CycleDone(x, k, y)
  <2> DEFINE g == t.page
             b == z.dfc
             P == [f |-> f, fc |-> b, write |-> w, ok |-> TRUE, page |-> g]
  <2>1. y = [z EXCEPT !.ov = None, !.probe = P]
    BY <1>4, <1>12
  <2>2. P.f = f /\ P.fc = b /\ P.write = w /\ P.ok = TRUE /\ P.page = g
    OBVIOUS
  <2> HIDE DEF P
  <2>3. /\ y = [m \in Fields |-> y[m]] /\ y.ov = None /\ y.probe = P
        /\ \A m \in Fields \ {"ov", "probe"} : y[m] = z[m]
    BY <1>5, <2>1 DEF Sound, Machine, Fields
  <2>4. /\ y.atc = z.atc /\ y.tbl = z.tbl /\ View(z, y) /\ Task(z, y) /\ y.log = z.log
        /\ y.s = z.s /\ y.ws = z.ws /\ y.rd = z.rd /\ y.wdata = z.wdata /\ y.frames = z.frames
        /\ y.stopped = z.stopped /\ y.run_mode = z.run_mode
        /\ y.cause = z.cause
    BY <2>3 DEF View, Task, Fields
  <2>5. Machine(y) /\ Sound(y)
    <3>1. Machine(y)
      BY <1>5, <2>3, <2>4 DEF Sound, Machine
    <3> QED BY <1>5, <2>4, <3>1, SoundBeside DEF SameAtc
  <2>6. Went(x, y) /\ Running(y) /\ View(x, y)
    BY <1>1, <1>9, <2>3, <2>4, <2>5, ViewTrans DEF Went, Task, Running
  <2>7. Honest(x, y)
    BY <1>9, <2>4, <2>6 DEF Honest, LogsOK, Running
  <2>8. ASSUME Sane(x), x.s \in BOOLEAN, x.cpu_type = "M68060", x.dfc \in {1, 2, 5, 6}
        PROVE  ProbeTrue(y)
    <3>1. Allows(x1, f, d, w, No, g)
      BY <1>7, <1>9, <1>10, <1>12, <2>8 DEF d
    <3>2. View(x1, y)
      BY <1>9, <2>6 DEF View
    <3>3. Allows(y, f, d, w, No, g)
      BY <3>1, <3>2, ViewAllows
    <3>4. b = d /\ y.cpu_type = "M68060"
      BY <1>9, <2>6, <2>8 DEF d, View
    <3> HIDE DEF g, b
    <3>5. /\ y.probe.ok = TRUE /\ y.probe.f = f /\ y.probe.fc = d /\ y.probe.write = w
          /\ y.probe.page = g /\ y.cpu_type # "M68030"
      BY <2>2, <2>3, <3>4
    <3>6. Allows(y, y.probe.f, y.probe.fc, y.probe.write, No, y.probe.page)
      BY <3>3, <3>5, Zenon
    <3> QED BY <3>5, <3>6 DEF ProbeTrue
  <2>9. y.stopped = FALSE /\ y.cause = x.cause /\ y.wdata \in Datum /\ y.rd = x.rd /\ y.ws = x.ws
    BY <1>1, <1>9, <2>4, <2>6 DEF Running
  <2>10. k.kind \notin {"read", "write", "fetch"}
    OBVIOUS
  <2> QED BY <2>5, <2>6, <2>7, <2>8, <2>9, <2>10 DEF CycleDone, Typed
<1> QED BY <1>5, <1>11, <1>12 DEF y, lb

\* Every bus cycle, whichever its kind.
LEMMA BusCycleDone ==
    ASSUME NEW x, Sound(x), Running(x), Typed(x), NEW k, CycleOf(x, k)
    PROVE  CycleDone(x, k, BusCycle(x, k))
<1>1. CASE k.kind = "read"
  BY <1>1, ReadDone DEF BusCycle
<1>2. CASE k.kind = "write"
  BY <1>2, WriteDone DEF BusCycle
<1>3. CASE k.kind = "fetch"
  BY <1>3, FetchDone DEF BusCycle
<1>4. CASE k.kind \in {"plpar", "plpaw"}
  <2> DEFINE w == k.kind = "plpaw"
  <2>1. BusCycle(x, k) = plpa(x, k.lb, w)
    BY <1>4 DEF BusCycle
  <2>2. w \in BOOLEAN /\ Probes(k, w)
    BY DEF Probes
  <2> HIDE DEF w
  <2>3. CycleDone(x, k, plpa(x, k.lb, w))
    BY <1>4, <2>2, PlpaDone
  <2> QED BY <2>1, <2>3
<1> QED BY <1>1, <1>2, <1>3, <1>4 DEF CycleOf

----------------------------------------------------------------------------
(* The end of an instruction *)

\* PMOVE loads CRP, or TC, whether or not its operand was read; other
\* instructions load neither.
LEMMA PmoveEffect ==
    ASSUME NEW y, Machine(y)
    PROVE  LET p == pmove(y)
           IN  /\ p = [n \in Fields |-> p[n]]
               /\ \A n \in Fields \ {"crp", "edited", "pmmu_enabled"} : p[n] = y[n]
               /\ y.ins.op # "pmovecrp" => p.crp = y.crp /\ p.edited = y.edited
               /\ y.ins.op # "pmovetc" => p.pmmu_enabled = y.pmmu_enabled
               /\ y.ins.op = "pmovecrp" => /\ Fixed(y) => p.edited
                                           /\ faulted(y) => p.crp = NoRoot
<1> DEFINE p == pmove(y)
<1>1. CASE y.ins.op = "pmovecrp"
  <2> DEFINE v == IF faulted(y) THEN NoRoot ELSE y.ins.root
             w == y.edited \/ Fixed(y)
  <2>1. p = [y EXCEPT !.crp = v, !.edited = w]
    BY <1>1 DEF pmove, Machine, Fields
  <2>2. (faulted(y) => v = NoRoot) /\ (Fixed(y) => w)
    OBVIOUS
  <2> HIDE DEF v, w, p
  <2>3. /\ p = [n \in Fields |-> p[n]] /\ p.crp = v /\ p.edited = w
        /\ \A n \in Fields \ {"crp", "edited"} : p[n] = y[n]
    BY <2>1 DEF Machine, Fields
  <2>4. p.pmmu_enabled = y.pmmu_enabled
    BY <2>3 DEF Fields
  <2>5. /\ p = [n \in Fields |-> p[n]]
        /\ \A n \in Fields \ {"crp", "edited", "pmmu_enabled"} : p[n] = y[n]
        /\ (Fixed(y) => p.edited) /\ (faulted(y) => p.crp = NoRoot)
    BY <2>2, <2>3
  <2> QED BY <1>1, <2>4, <2>5 DEF p
<1>2. CASE y.ins.op = "pmovetc"
  <2> DEFINE v == ~faulted(y) /\ y.ins.enable
  <2>1. p = [y EXCEPT !.pmmu_enabled = v]
    BY <1>2 DEF pmove
  <2> HIDE DEF v, p
  <2>2. /\ p = [n \in Fields |-> p[n]]
        /\ \A n \in Fields \ {"pmmu_enabled"} : p[n] = y[n]
    BY <2>1 DEF Machine, Fields
  <2>3. p.crp = y.crp /\ p.edited = y.edited
    BY <2>2 DEF Fields
  <2> QED BY <1>2, <2>2, <2>3 DEF p
<1>3. CASE y.ins.op \notin {"pmovecrp", "pmovetc"}
  BY <1>3 DEF pmove, Machine
<1> QED BY <1>1, <1>2, <1>3

\* What the end of an instruction, or of a cycle, leaves alone
Kept(y, z) ==
    /\ z.atc = y.atc /\ z.tbl = y.tbl /\ z.bad = y.bad /\ z.srp = y.srp /\ z.tc = y.tc
    /\ z.cpu_type = y.cpu_type /\ z.tt = y.tt /\ z.itt = y.itt /\ z.dtt = y.dtt
    /\ z.sfc = y.sfc /\ z.dfc = y.dfc /\ z.s = y.s /\ z.rd = y.rd /\ z.ws = y.ws
    /\ z.wdata = y.wdata /\ z.stopped = y.stopped /\ z.cause = y.cause /\ z.frames = y.frames
    /\ z.restart = y.restart /\ z.ins = y.ins /\ z.log = y.log /\ z.probe = y.probe
    /\ z.handled = y.handled /\ z.excused = y.excused

\* Retire: a fault abandons the instruction, its last cycle completes it.
LEMMA RetireEffect ==
    ASSUME NEW y, Sound(y)
    PROVE  LET z == Retire(y)
           IN  /\ Sound(z) /\ Kept(y, z)
               /\ y.ins.op # "pmovecrp" => z.crp = y.crp /\ z.edited = y.edited
               /\ y.ins.op # "pmovetc" => z.pmmu_enabled = y.pmmu_enabled
               /\ ~faulted(y) /\ y.todo # <<>> => z = y
               /\ ~faulted(y) /\ y.todo = <<>> =>
                    z.todo = <<>> /\ z.ov = None /\ z.done = y.ins /\ z.run_mode = y.run_mode
               /\ faulted(y) =>
                    /\ z.todo = <<>> /\ z.ov = y.ov /\ z.done = y.done
                    /\ z.run_mode = IF y.stopped THEN y.run_mode ELSE "normal"
                    /\ y.ins.op = "pmovecrp" => (Fixed(y) => z.edited) /\ z.crp = NoRoot
<1> DEFINE z == Retire(y)
           p == pmove(y)
<1>1. /\ p = [n \in Fields |-> p[n]]
      /\ \A n \in Fields \ {"crp", "edited", "pmmu_enabled"} : p[n] = y[n]
      /\ y.ins.op # "pmovecrp" => p.crp = y.crp /\ p.edited = y.edited
      /\ y.ins.op # "pmovetc" => p.pmmu_enabled = y.pmmu_enabled
      /\ y.ins.op = "pmovecrp" => /\ Fixed(y) => p.edited
                                  /\ faulted(y) => p.crp = NoRoot
  BY PmoveEffect DEF Sound
<1>2. z = IF faulted(y) THEN Abandon(p)
          ELSE IF y.todo = <<>> THEN [p EXCEPT !.done = y.ins, !.ov = None] ELSE y
  BY DEF Retire
<1>3. Machine(z) /\ Good(z)
  BY RetireGood DEF Sound, Keep
<1> HIDE DEF z, p
<1>4. p.stopped = y.stopped /\ p.run_mode = y.run_mode /\ p.done = y.done /\ p.ov = y.ov
  BY <1>1 DEF Fields
<1>5. CASE faulted(y)
  <2> DEFINE m == IF p.stopped THEN p.run_mode ELSE "normal"
  <2>1. z = [p EXCEPT !.todo = <<>>, !.run_mode = m]
    BY <1>1, <1>2, <1>5 DEF Abandon, Fields
  <2>2. m = IF y.stopped THEN y.run_mode ELSE "normal"
    BY <1>4
  <2> HIDE DEF m
  <2>3. /\ z.todo = <<>> /\ z.run_mode = m
        /\ \A n \in Fields \ {"todo", "run_mode"} : z[n] = p[n]
    BY <1>1, <2>1 DEF Fields
  <2>4. /\ \A n \in Fields \ {"crp", "edited", "pmmu_enabled", "todo", "run_mode"} : z[n] = y[n]
        /\ z.crp = p.crp /\ z.edited = p.edited /\ z.pmmu_enabled = p.pmmu_enabled
    BY <1>1, <2>3 DEF Fields
  <2>5. Kept(y, z) /\ z.ov = y.ov /\ z.done = y.done
    BY <2>4 DEF Kept, Fields
  <2>6. Sound(z)
    BY <1>3, <2>5 DEF Sound, Kept, Tagged
  <2>7. /\ y.ins.op # "pmovecrp" => z.crp = y.crp /\ z.edited = y.edited
        /\ y.ins.op # "pmovetc" => z.pmmu_enabled = y.pmmu_enabled
        /\ y.ins.op = "pmovecrp" => (Fixed(y) => z.edited) /\ z.crp = NoRoot
    BY <1>1, <1>5, <2>4
  <2> QED BY <1>5, <2>2, <2>3, <2>5, <2>6, <2>7 DEF z
<1>6. CASE ~faulted(y) /\ y.todo = <<>>
  <2> DEFINE i == y.ins
  <2>1. z = [p EXCEPT !.done = i, !.ov = None]
    BY <1>2, <1>6
  <2> HIDE DEF i
  <2>2. /\ z.done = i /\ z.ov = None
        /\ \A n \in Fields \ {"done", "ov"} : z[n] = p[n]
    BY <1>1, <2>1 DEF Fields
  <2>3. /\ \A n \in Fields \ {"crp", "edited", "pmmu_enabled", "done", "ov"} : z[n] = y[n]
        /\ z.crp = p.crp /\ z.edited = p.edited /\ z.pmmu_enabled = p.pmmu_enabled
    BY <1>1, <2>2 DEF Fields
  <2>4. Kept(y, z) /\ z.todo = y.todo /\ z.run_mode = y.run_mode
    BY <2>3 DEF Kept, Fields
  <2>5. Sound(z)
    BY <1>3, <2>4 DEF Sound, Kept, Tagged
  <2>6. /\ y.ins.op # "pmovecrp" => z.crp = y.crp /\ z.edited = y.edited
        /\ y.ins.op # "pmovetc" => z.pmmu_enabled = y.pmmu_enabled
    BY <1>1, <2>3
  <2> QED BY <1>6, <2>2, <2>4, <2>5, <2>6 DEF z, i
<1>7. CASE ~faulted(y) /\ y.todo # <<>>
  <2>1. z = y
    BY <1>2, <1>7
  <2>2. Kept(y, y)
    BY DEF Kept
  <2> QED BY <1>7, <2>1, <2>2 DEF z
<1> QED BY <1>5, <1>6, <1>7
=============================================================================
