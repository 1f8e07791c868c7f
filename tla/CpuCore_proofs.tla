--------------------------- MODULE CpuCore_proofs ---------------------------
(***************************************************************************)
(* Theorems about CpuCore, for every set of scenarios and stack bound.     *)
(* Each operator of CpuCore that stands for a Rust method maps machines to *)
(* machines, and has a lemma on what it may change; the lemmas follow the  *)
(* call graph bottom-up.  The first half is about types and the exception  *)
(* latch (Keeps, Inv).  The second is about faults, the prefetch queue and *)
(* the halt: Goes, Enters, Ends and Lands say what a helper, an exception, *)
(* an instruction and a whole turn of a run loop leave, and FaultInv is    *)
(* the invariant they preserve.                                            *)
(***************************************************************************)
EXTENDS CpuCore, TLAPS

\* y is a machine reached from x by a method that returns with the latch as
\* the caller left it
Keeps(x, y) ==
    /\ y \in Machine
    /\ y.exception_processing = x.exception_processing

LEMMA KeepsTrans ==
    ASSUME NEW x, NEW y, NEW z, Keeps(x, y), Keeps(y, z)
    PROVE  Keeps(x, z)
  BY DEF Keeps

----------------------------------------------------------------------------
(* Status register, banks and frames *)

LEMMA ConstantTypes ==
    /\ Origin \in Int /\ Subroutine \in Int /\ ZeroSR \in SR
    /\ Banks \in [{0, 4, 6} -> Int] /\ IspBase \in Int
    /\ \A v \in Int : Handler(v) \in Int
  BY DEF Origin, Subroutine, ZeroSR, SR, Levels, Banks, UserBase, IspBase, MspBase, Handler

LEMMA SpIndexType ==
    ASSUME NEW x \in Machine
    PROVE  sp_index(x) \in {0, 4, 6}
  BY DEF Machine, sp_index

LEMMA SrMaskedType ==
    ASSUME NEW x \in Machine, NEW sr \in SR
    PROVE  SrMasked(x, sr) \in SR
  BY DEF Machine, SrMasked, SR

LEMMA RebankKeeps ==
    ASSUME NEW x \in Machine, NEW sr \in SR
    PROVE  Keeps(x, Rebank(x, sr))
<1> DEFINE saved == [x EXCEPT !.sp[sp_index(x)] = x.dar.a7, !.sr = sr]
<1>1. x.dar.a7 \in Int
  BY DEF Machine, Registers
<1>2. Keeps(x, saved)
  BY <1>1, SpIndexType DEF Machine, Keeps
<1>3. saved.sp[sp_index(saved)] \in Int
  <2>1. saved \in Machine
    BY <1>2 DEF Keeps
  <2> HIDE DEF saved
  <2> QED BY <2>1, SpIndexType DEF Machine
<1>4. Keeps(saved, [saved EXCEPT !.dar.a7 = saved.sp[sp_index(saved)]])
  <2>1. saved \in Machine
    BY <1>2 DEF Keeps
  <2> HIDE DEF saved
  <2> QED BY <2>1, <1>3 DEF Machine, Registers, Keeps
<1> HIDE DEF saved
<1>5. Keeps(x, [saved EXCEPT !.dar.a7 = saved.sp[sp_index(saved)]])
  BY <1>2, <1>4, KeepsTrans
<1> QED BY <1>5 DEF Rebank, saved

LEMMA SetSrKeeps ==
    ASSUME NEW x \in Machine, NEW sr \in SR
    PROVE  /\ Keeps(x, set_sr(x, sr))
           /\ Keeps(x, set_sr_noint_nosp(x, sr))
<1>1. Keeps(x, set_sr(x, sr))
  BY SrMaskedType, RebankKeeps DEF set_sr
<1>2. Keeps(x, set_sr_noint_nosp(x, sr))
  BY SrMaskedType DEF set_sr_noint_nosp, Keeps, Machine
<1> QED BY <1>1, <1>2

LEMMA EnterSupervisorKeeps ==
    ASSUME NEW x \in Machine
    PROVE  Keeps(x, EnterSupervisor(x))
<1> DEFINE y == set_s_flag(x)
<1>1. [x.sr EXCEPT !.s = TRUE] \in SR
  BY DEF Machine, SR
<1>2. Keeps(x, y)
  BY <1>1, RebankKeeps DEF set_s_flag
<1>3. y \in Machine
  BY <1>2 DEF Keeps
<1> HIDE DEF y
<1> DEFINE untraced == [y.sr EXCEPT !.t1 = FALSE, !.t0 = FALSE]
<1>a. untraced \in SR
  BY <1>3 DEF Machine, SR
<1>4. Keeps(y, [y EXCEPT !.sr = untraced])
  BY <1>3, <1>a DEF Machine, Keeps
<1>5. Keeps(x, [y EXCEPT !.sr = [y.sr EXCEPT !.t1 = FALSE, !.t0 = FALSE]])
  BY <1>2, <1>4, KeepsTrans
<1>6. EnterSupervisor(x) = [y EXCEPT !.sr = [y.sr EXCEPT !.t1 = FALSE, !.t0 = FALSE]]
  BY DEF EnterSupervisor, Untraced, y
<1> QED BY <1>5, <1>6

WholeFormats == Formats \ {"pc_sr_ir", "address_status"}

LEMMA FrameType ==
    ASSUME NEW fmt \in Formats, NEW v \in Nat, NEW pc \in Int, NEW sr \in SR
    PROVE  /\ Frame(fmt, v, pc, sr) \in FrameSet
           /\ Frame(fmt, v, pc, sr).fmt = fmt
  BY DEF Frame, FrameSet

LEMMA FrameBytesType ==
    ASSUME NEW x, NEW fmt \in WholeFormats
    PROVE  FrameBytes(x, fmt) \in Nat
  BY DEF FrameBytes, WholeFormats, Formats

LEMMA StoreKeeps ==
    ASSUME NEW x \in Machine, NEW f \in FrameSet, f.fmt \in WholeFormats
    PROVE  Keeps(x, Store(x, f))
<1> DEFINE n == FrameBytes(x, f.fmt)
           a == x.dar.a7 - n
           cells == IF f.fmt = "group0"
                 THEN { [at |-> a, n |-> 8, f |-> [f EXCEPT !.fmt = "pc_sr_ir"]],
                        [at |-> a + 8, n |-> 6, f |-> [f EXCEPT !.fmt = "address_status"]] }
                 ELSE { [at |-> a, n |-> n, f |-> f] }
           kept == { c \in x.stk : ~Overlaps(c, a, n) }
<1>1. n \in Nat
  BY FrameBytesType
<1> HIDE DEF n
<1>2. a \in Int
  BY <1>1 DEF Machine, Registers
<1> HIDE DEF a
<1>3. /\ [f EXCEPT !.fmt = "pc_sr_ir"] \in FrameSet
      /\ [f EXCEPT !.fmt = "address_status"] \in FrameSet
  BY DEF FrameSet, Formats
<1>4. cells \subseteq [at : Int, n : Nat, f : FrameSet]
  BY <1>1, <1>2, <1>3
<1>5. kept \subseteq [at : Int, n : Nat, f : FrameSet]
  BY DEF Machine
<1> HIDE DEF cells, kept
<1>6. Keeps(x, [x EXCEPT !.dar.a7 = a, !.stk = kept \cup cells])
  BY <1>2, <1>4, <1>5 DEF Machine, Registers, Keeps
<1> QED BY <1>6 DEF Store, n, a, cells, kept

\* Every push moves A7; none of the CPU's state beyond it
LEMMA MoveA7Keeps ==
    ASSUME NEW x \in Machine, NEW n \in Int
    PROVE  /\ Keeps(x, [x EXCEPT !.dar.a7 = @ + n])
           /\ Keeps(x, [x EXCEPT !.dar.a7 = @ - n])
<1>1. x.dar.a7 \in Int
  BY DEF Machine, Registers
<1>2. x.dar.a7 + n \in Int /\ x.dar.a7 - n \in Int
  BY <1>1
<1> QED BY <1>2 DEF Machine, Registers, Keeps

LEMMA SetPcKeeps ==
    ASSUME NEW x \in Machine, NEW pc \in Int
    PROVE  Keeps(x, [x EXCEPT !.pc = pc])
  BY DEF Machine, Keeps

LEMMA SetQueueKeeps ==
    ASSUME NEW x \in Machine, NEW q \in Seq(Int)
    PROVE  Keeps(x, [x EXCEPT !.queue = q])
  BY DEF Machine, Keeps

LEMMA QueueTypes ==
    ASSUME NEW x \in Machine
    PROVE  /\ <<>> \in Seq(Int) /\ <<x.pc>> \in Seq(Int)
           /\ Append(x.queue, x.pc + 2) \in Seq(Int)
           /\ Append(x.queue, x.pc + 2 * Len(x.queue)) \in Seq(Int)
           /\ x.queue # <<>> => Tail(x.queue) \in Seq(Int)
           /\ x.pc \in Int /\ x.pc + 2 \in Int
<1>1. x.pc \in Int /\ x.queue \in Seq(Int)
  BY DEF Machine
<1>2. x.pc + 2 * Len(x.queue) \in Int
  BY <1>1
<1> QED BY <1>1, <1>2

----------------------------------------------------------------------------
(* The delivery of a bus error, in which a further fault is a double fault *)

LEMMA DoubleFaultKeeps ==
    ASSUME NEW x \in Machine
    PROVE  Keeps(x, DoubleFault(x))
  BY DEF DoubleFault, Machine, Keeps

LEMMA PushDoubleFaultKeeps ==
    ASSUME NEW x \in Machine, NEW f \in FrameSet, f.fmt \in WholeFormats
    PROVE  Keeps(x, Push(x, f, DoubleFault))
<1> DEFINE n == FrameBytes(x, f.fmt)
           d == DoubleFault(x)
<1>1. n \in Int
  BY FrameBytesType
<1>2. Keeps(x, d) /\ d \in Machine
  BY DoubleFaultKeeps DEF Keeps
<1> HIDE DEF n, d
<1>3. Keeps(x, [x EXCEPT !.dar.a7 = @ - n])
  BY <1>1, MoveA7Keeps
<1>4. Keeps(x, [d EXCEPT !.dar.a7 = @ - n])
  BY <1>1, <1>2, MoveA7Keeps, KeepsTrans
<1>5. Keeps(x, Store(x, f))
  BY StoreKeeps
<1> QED BY <1>3, <1>4, <1>5 DEF Push, n, d

LEMMA FullPrefetchDoubleFaultKeeps ==
    ASSUME NEW x \in Machine
    PROVE  Keeps(x, FullPrefetch(x, DoubleFault))
<1>1. ASSUME NEW y \in Machine
      PROVE  Keeps(y, PrefetchFirst(y, DoubleFault))
  <2> DEFINE e == [y EXCEPT !.queue = <<>>]
             q == [e EXCEPT !.queue = <<y.pc>>]
  <2>1. Keeps(y, e) /\ e \in Machine
    BY QueueTypes, SetQueueKeeps DEF Keeps
  <2> HIDE DEF e
  <2>2. Keeps(y, DoubleFault(e))
    BY <2>1, DoubleFaultKeeps, KeepsTrans
  <2>3. Keeps(y, q)
    BY <2>1, QueueTypes, SetQueueKeeps, KeepsTrans
  <2>4. Keeps(y, y)
    BY DEF Keeps
  <2> HIDE DEF q
  <2> QED BY <2>1, <2>2, <2>3, <2>4 DEF PrefetchFirst, e, q
<1>2. ASSUME NEW y \in Machine
      PROVE  Keeps(y, PrefetchSecond(y, DoubleFault))
  <2>1. Keeps(y, y)
    BY DEF Keeps
  <2> QED BY <2>1, QueueTypes, SetQueueKeeps, DoubleFaultKeeps DEF PrefetchSecond
<1> DEFINE first == PrefetchFirst(x, DoubleFault)
<1>3. Keeps(x, first) /\ first \in Machine
  BY <1>1 DEF Keeps
<1> HIDE DEF first
<1>4. Keeps(x, PrefetchSecond(first, DoubleFault))
  BY <1>2, <1>3, KeepsTrans
<1> QED BY <1>4 DEF FullPrefetch, first

LEMMA JumpVectorDoubleFaultKeeps ==
    ASSUME NEW x \in Machine, NEW v \in Nat
    PROVE  Keeps(x, JumpVector(x, v, DoubleFault))
<1> DEFINE d == DoubleFault(x)
           r == IF faulted(x) THEN [x EXCEPT !.pc = 0]
                ELSE IF "vec" \in x.bad THEN [d EXCEPT !.pc = 0]
                ELSE [x EXCEPT !.pc = Handler(v)]
<1>1. Keeps(x, d) /\ d \in Machine
  BY DoubleFaultKeeps DEF Keeps
<1> HIDE DEF d
<1>2. Keeps(x, [d EXCEPT !.pc = 0])
  BY <1>1, SetPcKeeps, KeepsTrans
<1>3. Keeps(x, [x EXCEPT !.pc = 0])
  BY SetPcKeeps
<1>4. Keeps(x, [x EXCEPT !.pc = Handler(v)])
  BY SetPcKeeps, ConstantTypes
<1>5. Keeps(x, r) /\ r \in Machine
  BY <1>2, <1>3, <1>4 DEF Keeps
<1> HIDE DEF r
<1>6. Keeps(x, FullPrefetch(r, DoubleFault))
  BY <1>5, FullPrefetchDoubleFaultKeeps, KeepsTrans
<1> QED BY <1>6 DEF JumpVector, r, d

LEMMA BusErrorFormatType ==
    ASSUME NEW x \in Machine
    PROVE  BusErrorFormat(x) \in WholeFormats /\ AddressErrorFormat(x) \in WholeFormats
  BY DEF Machine, BusErrorFormat, AddressErrorFormat, WholeFormats, Formats

LEMMA ExceptionBusErrorKeeps ==
    ASSUME NEW x \in Machine
    PROVE  Keeps(x, exception_bus_error(x))
<1> DEFINE s == EnterSupervisor(x)
           f == Frame(BusErrorFormat(x), BUS_ERROR, x.ppc, x.sr)
           y == PushFaultFrame(s, f)
<1>1. Keeps(x, s) /\ s \in Machine
  BY EnterSupervisorKeeps DEF Keeps
<1>2. f \in FrameSet /\ f.fmt \in WholeFormats
  <2>1. x.ppc \in Int /\ x.sr \in SR /\ BUS_ERROR \in Nat
    BY DEF Machine, BUS_ERROR
  <2>2. BusErrorFormat(x) \in WholeFormats /\ BusErrorFormat(x) \in Formats
    BY BusErrorFormatType DEF WholeFormats
  <2> QED BY <2>1, <2>2, FrameType
<1> HIDE DEF s, f
<1>3. Keeps(s, PushRaw(s, f)) /\ Keeps(s, Push(s, f, DoubleFault))
  BY <1>1, <1>2, StoreKeeps, PushDoubleFaultKeeps DEF PushRaw
<1>4. Keeps(s, y)
  BY <1>3 DEF PushFaultFrame
<1> HIDE DEF y
<1>5. Keeps(x, y) /\ y \in Machine
  BY <1>1, <1>4, KeepsTrans DEF Keeps
<1> HIDE DEF y
<1>6. Keeps(x, JumpVector(y, BUS_ERROR, DoubleFault))
  <2>1. BUS_ERROR \in Nat
    BY DEF BUS_ERROR
  <2> QED BY <1>5, <2>1, JumpVectorDoubleFaultKeeps, KeepsTrans
<1> QED BY <1>6 DEF exception_bus_error, s, f, y

----------------------------------------------------------------------------
(* Faults *)

LEMMA RollbackKeeps ==
    ASSUME NEW x \in Machine
    PROVE  Keeps(x, Rollback(x))
<1> DEFINE y == set_sr_noint_nosp(x, x.sr_save)
<1>1. x.sr_save \in SR /\ x.dar_save \in Registers
  BY DEF Machine
<1>2. Keeps(x, y) /\ y \in Machine
  BY <1>1, SetSrKeeps DEF Keeps
<1> HIDE DEF y
<1>3. Keeps(y, [y EXCEPT !.dar = x.dar_save])
  BY <1>1, <1>2 DEF Machine, Keeps
<1>4. Keeps(x, [y EXCEPT !.dar = x.dar_save])
  BY <1>2, <1>3, KeepsTrans
<1> QED BY <1>4 DEF Rollback, y

LEMMA ResumeType ==
    ASSUME NEW x \in Machine
    PROVE  Resume(x) \in [pc : Int, sr : SR, dar : Registers]
  BY DEF Machine, Resume, get_sr

\* A fault outside an exception's delivery returns with the latch clear, one
\* inside it with the latch set: either way as it was found
LEMMA TriggerBusErrorKeeps ==
    ASSUME NEW x \in Machine
    PROVE  Keeps(x, trigger_bus_error(x))
<1>1. CASE faulted(x)
  BY <1>1 DEF trigger_bus_error, Keeps
<1>2. CASE ~faulted(x) /\ x.exception_processing
  BY <1>2, DoubleFaultKeeps DEF trigger_bus_error
<1>3. CASE ~faulted(x) /\ ~x.exception_processing
  <2> DEFINE r == Rollback(x)
             b == [r EXCEPT !.exception_processing = TRUE]
             y == exception_bus_error(b)
             res == Resume(y)
  <2>1. r \in Machine
    BY RollbackKeeps DEF Keeps
  <2> HIDE DEF r
  <2>2. b \in Machine
    BY <2>1 DEF Machine
  <2> HIDE DEF b
  <2>3. y \in Machine
    BY <2>2, ExceptionBusErrorKeeps DEF Keeps
  <2> HIDE DEF y
  <2>4. res \in [pc : Int, sr : SR, dar : Registers]
    BY <2>3, ResumeType
  <2> HIDE DEF res
  <2> DEFINE t == [y EXCEPT !.exception_processing = FALSE,
                            !.fault_resume = res, !.run_mode = Fault]
  <2>5. t \in Machine /\ ~t.exception_processing
    BY <2>3, <2>4 DEF Machine
  <2>6. trigger_bus_error(x) = t
    BY <1>3 DEF trigger_bus_error, Delivered, r, b, y, res
  <2>7. ~x.exception_processing /\ x.exception_processing \in BOOLEAN
    BY <1>3 DEF Machine
  <2> HIDE DEF t
  <2>8. t.exception_processing \in BOOLEAN
    BY <2>5 DEF Machine
  <2> QED BY <2>5, <2>6, <2>7, <2>8 DEF Keeps
<1> QED BY <1>1, <1>2, <1>3

LEMMA PushFrameKeeps ==
    ASSUME NEW x \in Machine, NEW f \in FrameSet, f.fmt \in WholeFormats
    PROVE  Keeps(x, PushFrame(x, f))
<1> DEFINE n == FrameBytes(x, f.fmt)
           d == trigger_bus_error(x)
<1>1. n \in Int
  BY FrameBytesType
<1>2. Keeps(x, d) /\ d \in Machine
  BY TriggerBusErrorKeeps DEF Keeps
<1> HIDE DEF n, d
<1>3. Keeps(x, [x EXCEPT !.dar.a7 = @ - n])
  BY <1>1, MoveA7Keeps
<1>4. Keeps(x, [d EXCEPT !.dar.a7 = @ - n])
  BY <1>1, <1>2, MoveA7Keeps, KeepsTrans
<1>5. Keeps(x, Store(x, f))
  BY StoreKeeps
<1> QED BY <1>3, <1>4, <1>5 DEF PushFrame, Push, n, d

LEMMA FullPrefetchKeeps ==
    ASSUME NEW x \in Machine
    PROVE  Keeps(x, full_prefetch(x))
<1>1. ASSUME NEW y \in Machine
      PROVE  Keeps(y, prefetch_first(y))
  <2> DEFINE e == [y EXCEPT !.queue = <<>>]
             q == [e EXCEPT !.queue = <<y.pc>>]
  <2>1. Keeps(y, e) /\ e \in Machine
    BY QueueTypes, SetQueueKeeps DEF Keeps
  <2> HIDE DEF e
  <2>2. Keeps(y, trigger_bus_error(e))
    BY <2>1, TriggerBusErrorKeeps, KeepsTrans
  <2>3. Keeps(y, q)
    BY <2>1, QueueTypes, SetQueueKeeps, KeepsTrans
  <2>4. Keeps(y, y)
    BY DEF Keeps
  <2> HIDE DEF q
  <2> QED BY <2>1, <2>2, <2>3, <2>4 DEF prefetch_first, PrefetchFirst, e, q
<1>2. ASSUME NEW y \in Machine
      PROVE  Keeps(y, prefetch_second(y))
  <2>1. Keeps(y, y)
    BY DEF Keeps
  <2> QED BY <2>1, QueueTypes, SetQueueKeeps, TriggerBusErrorKeeps DEF prefetch_second, PrefetchSecond
<1> DEFINE first == prefetch_first(x)
<1>3. Keeps(x, first) /\ first \in Machine
  BY <1>1 DEF Keeps
<1> HIDE DEF first
<1>4. Keeps(x, prefetch_second(first))
  BY <1>2, <1>3, KeepsTrans
<1> QED BY <1>4 DEF full_prefetch, first

LEMMA TopUpKeeps ==
    ASSUME NEW x \in Machine
    PROVE  Keeps(x, top_up_prefetch(x))
<1>1. ASSUME NEW y \in Machine
      PROVE  Keeps(y, top_up_prefetch_one(y))
  <2>1. Keeps(y, y)
    BY DEF Keeps
  <2> QED BY <2>1, QueueTypes, SetQueueKeeps, TriggerBusErrorKeeps DEF top_up_prefetch_one
<1> DEFINE first == top_up_prefetch_one(x)
<1>2. Keeps(x, first) /\ first \in Machine
  BY <1>1 DEF Keeps
<1> HIDE DEF first
<1>3. Keeps(x, top_up_prefetch_one(first))
  BY <1>1, <1>2, KeepsTrans
<1>4. Keeps(x, x)
  BY DEF Keeps
<1> QED BY <1>3, <1>4 DEF top_up_prefetch, first

LEMMA JumpVectorKeeps ==
    ASSUME NEW x \in Machine, NEW v \in Nat
    PROVE  Keeps(x, jump_vector(x, v))
<1> DEFINE d == trigger_bus_error(x)
           r == IF faulted(x) THEN [x EXCEPT !.pc = 0]
                ELSE IF "vec" \in x.bad THEN [d EXCEPT !.pc = 0]
                ELSE [x EXCEPT !.pc = Handler(v)]
<1>1. Keeps(x, d) /\ d \in Machine
  BY TriggerBusErrorKeeps DEF Keeps
<1> HIDE DEF d
<1>2. Keeps(x, [d EXCEPT !.pc = 0])
  BY <1>1, SetPcKeeps, KeepsTrans
<1>3. Keeps(x, [x EXCEPT !.pc = 0])
  BY SetPcKeeps
<1>4. Keeps(x, [x EXCEPT !.pc = Handler(v)])
  BY SetPcKeeps, ConstantTypes
<1>5. Keeps(x, r) /\ r \in Machine
  BY <1>2, <1>3, <1>4 DEF Keeps
<1> HIDE DEF r
<1>6. Keeps(x, full_prefetch(r))
  BY <1>5, FullPrefetchKeeps, KeepsTrans
<1>7. jump_vector(x, v) = full_prefetch(r)
  BY DEF jump_vector, JumpVector, FullPrefetch, full_prefetch, prefetch_first, prefetch_second, r, d
<1> QED BY <1>6, <1>7

LEMMA TriggerAddressErrorKeeps ==
    ASSUME NEW x \in Machine
    PROVE  Keeps(x, trigger_address_error(x))
<1>1. ASSUME NEW y \in Machine
      PROVE  Keeps(y, exception_address_error(y))
  <2> DEFINE s == EnterSupervisor(y)
             f == Frame(AddressErrorFormat(y), ADDRESS_ERROR, y.ppc, y.sr)
             z == PushRaw(s, f)
  <2>1. Keeps(y, s) /\ s \in Machine
    BY EnterSupervisorKeeps DEF Keeps
  <2>2. f \in FrameSet /\ f.fmt \in WholeFormats
    <3>1. y.ppc \in Int /\ y.sr \in SR /\ ADDRESS_ERROR \in Nat
      BY DEF Machine, ADDRESS_ERROR
    <3>2. AddressErrorFormat(y) \in WholeFormats /\ AddressErrorFormat(y) \in Formats
      BY BusErrorFormatType DEF WholeFormats
    <3> QED BY <3>1, <3>2, FrameType
  <2> HIDE DEF s, f
  <2>3. Keeps(y, z) /\ z \in Machine
    BY <2>1, <2>2, StoreKeeps, KeepsTrans DEF PushRaw, Keeps
  <2> HIDE DEF z
  <2>4. ADDRESS_ERROR \in Nat
    BY DEF ADDRESS_ERROR
  <2>5. Keeps(y, jump_vector(z, ADDRESS_ERROR))
    BY <2>3, <2>4, JumpVectorKeeps, KeepsTrans
  <2> QED BY <2>5 DEF exception_address_error, s, f, z
<1> DEFINE r == Rollback(x)
           y == exception_address_error(r)
           res == Resume(y)
           nest == y.nested \/ faulted(y)
           t == [y EXCEPT !.fault_resume = res, !.run_mode = Fault, !.nested = nest]
<1>2. Keeps(x, r) /\ r \in Machine
  BY RollbackKeeps DEF Keeps
<1> HIDE DEF r
<1>3. Keeps(x, y) /\ y \in Machine
  BY <1>1, <1>2, KeepsTrans DEF Keeps
<1> HIDE DEF y
<1>4. res \in [pc : Int, sr : SR, dar : Registers]
  BY <1>3, ResumeType
<1> HIDE DEF res
<1>5. nest \in BOOLEAN
  OBVIOUS
<1> HIDE DEF nest
<1>6. Keeps(y, t)
  BY <1>3, <1>4, <1>5 DEF Machine, Keeps
<1>7. Keeps(x, t)
  BY <1>3, <1>6, KeepsTrans
<1>8. Keeps(x, x)
  BY DEF Keeps
<1> HIDE DEF t
<1> QED BY <1>7, <1>8 DEF trigger_address_error, AddressErrorDelivered, t, r, y, res, nest

LEMMA EndFaultedKeeps ==
    ASSUME NEW x \in Machine
    PROVE  Keeps(x, end_faulted_instruction(x))
<1> DEFINE fr == x.fault_resume
           s == set_sr_noint_nosp(x, fr.sr)
           r == [s EXCEPT !.pc = fr.pc, !.dar = fr.dar, !.fault_resume = NoResume]
           y == IF fr = NoResume THEN x ELSE r
<1>1. Keeps(x, y)
  <2>1. CASE fr = NoResume
    BY <2>1 DEF Keeps
  <2>2. CASE fr # NoResume
    <3>1. fr.sr \in SR /\ fr.pc \in Int /\ fr.dar \in Registers
      BY <2>2 DEF Machine
    <3>2. Keeps(x, s) /\ s \in Machine
      BY <3>1, SetSrKeeps DEF Keeps
    <3> HIDE DEF s, fr
    <3>3. Keeps(s, r)
      BY <3>1, <3>2 DEF Machine, Keeps
    <3>4. Keeps(x, r)
      BY <3>2, <3>3, KeepsTrans
    <3> QED BY <2>2, <3>4
  <2> QED BY <2>1, <2>2
<1>2. y \in Machine
  BY <1>1 DEF Keeps
<1> HIDE DEF y
<1>3. Keeps(y, [y EXCEPT !.run_mode = Normal])
  BY <1>2 DEF Machine, Keeps
<1>4. Keeps(x, [y EXCEPT !.run_mode = Normal])
  BY <1>1, <1>3, KeepsTrans
<1> QED BY <1>1, <1>4 DEF end_faulted_instruction, y

----------------------------------------------------------------------------
(* Exception entry and interrupts *)

LEMMA VectorTypes ==
    /\ ZERO_DIVIDE \in Nat /\ TRACE \in Nat /\ PRIVILEGE_VIOLATION \in Nat
    /\ LINE_1010 \in Nat /\ TRAP_BASE \in Nat
  BY DEF ZERO_DIVIDE, TRACE, PRIVILEGE_VIOLATION, LINE_1010, TRAP_BASE

LEMMA TakeExceptionKeeps ==
    ASSUME NEW x \in Machine, NEW v \in Nat
    PROVE  Keeps(x, take_exception(x, v))
<1>1. CASE x.exception_processing
  <2> DEFINE d == DoubleFault(x)
  <2>1. Keeps(x, d) /\ d \in Machine
    BY DoubleFaultKeeps DEF Keeps
  <2> HIDE DEF d
  <2>2. Keeps(d, [d EXCEPT !.stopped = 1])
    BY <2>1 DEF Machine, Keeps
  <2>3. Keeps(x, [d EXCEPT !.stopped = 1])
    BY <2>1, <2>2, KeepsTrans
  <2> QED BY <1>1, <2>3 DEF take_exception, d
<1>2. CASE ~x.exception_processing
  <2> DEFINE b == [x EXCEPT !.exception_processing = TRUE]
             s == EnterSupervisor(b)
             pc == IF StacksNextPc(v) THEN x.pc ELSE x.ppc
             f == Frame("0", v, pc, x.sr)
             y == PushFrame(s, f)
             j == jump_vector(y, v)
             t == [j EXCEPT !.exception_processing = FALSE]
  <2>1. b \in Machine
    BY DEF Machine
  <2> HIDE DEF b
  <2>2. s \in Machine
    BY <2>1, EnterSupervisorKeeps DEF Keeps
  <2> HIDE DEF s
  <2>3. pc \in Int /\ x.sr \in SR
    BY DEF Machine
  <2> HIDE DEF pc
  <2>4. f \in FrameSet /\ f.fmt \in WholeFormats
    <3>1. "0" \in Formats /\ "0" \in WholeFormats
      BY DEF Formats, WholeFormats
    <3> QED BY <2>3, <3>1, FrameType
  <2> HIDE DEF f
  <2>5. y \in Machine
    BY <2>2, <2>4, PushFrameKeeps DEF Keeps
  <2> HIDE DEF y
  <2>6. j \in Machine
    BY <2>5, JumpVectorKeeps DEF Keeps
  <2> HIDE DEF j
  <2>7. t \in Machine /\ ~t.exception_processing
    BY <2>6 DEF Machine
  <2>8. take_exception(x, v) = t
    BY <1>2 DEF take_exception, b, s, pc, f, y, j
  <2> HIDE DEF t
  <2>9. t.exception_processing \in BOOLEAN /\ x.exception_processing \in BOOLEAN
    BY <2>7 DEF Machine
  <2> QED BY <1>2, <2>7, <2>8, <2>9 DEF Keeps
<1> QED BY <1>1, <1>2

LEMMA TakeGroup2Keeps ==
    ASSUME NEW x \in Machine, NEW v \in Nat
    PROVE  Keeps(x, take_group2_exception(x, v))
<1> DEFINE s == EnterSupervisor(x)
           fmt == IF is_pre_68020(x) THEN "0" ELSE "2"
           f == Frame(fmt, v, x.pc, x.sr)
           y == PushFrame(s, f)
<1>1. Keeps(x, s) /\ s \in Machine
  BY EnterSupervisorKeeps DEF Keeps
<1>2. f \in FrameSet /\ f.fmt \in WholeFormats
  <2>1. fmt \in Formats /\ fmt \in WholeFormats
    BY DEF Formats, WholeFormats
  <2>2. x.pc \in Int /\ x.sr \in SR
    BY DEF Machine
  <2> HIDE DEF fmt
  <2> QED BY <2>1, <2>2, FrameType
<1> HIDE DEF s, f
<1>3. Keeps(x, y) /\ y \in Machine
  BY <1>1, <1>2, PushFrameKeeps, KeepsTrans DEF Keeps
<1> HIDE DEF y
<1>4. Keeps(x, jump_vector(y, v))
  BY <1>3, JumpVectorKeeps, KeepsTrans
<1> QED BY <1>4 DEF take_group2_exception, s, fmt, f, y

LEMMA ExceptionTraceKeeps ==
    ASSUME NEW x \in Machine
    PROVE  Keeps(x, exception_trace(x))
<1> DEFINE w == IF x.stopped % 2 = 1 THEN x.stopped - 1 ELSE x.stopped
           y == [x EXCEPT !.stopped = w]
<1>1. x.stopped \in {0, 1}
  BY DEF Machine
<1>2. w \in {0, 1}
  BY <1>1
<1> HIDE DEF w
<1>3. Keeps(x, y) /\ y \in Machine
  BY <1>2 DEF Machine, Keeps
<1> HIDE DEF y
<1>4. Keeps(x, take_group2_exception(y, TRACE))
  BY <1>3, VectorTypes, TakeGroup2Keeps, KeepsTrans
<1> QED BY <1>4 DEF exception_trace, y, w

LEMMA ToInterruptStackKeeps ==
    ASSUME NEW x \in Machine, NEW f \in FrameSet
    PROVE  Keeps(x, ToInterruptStack(x, f))
<1> DEFINE isp == Rebank(x, [x.sr EXCEPT !.s = TRUE, !.m = FALSE])
           g == [f EXCEPT !.fmt = "1", !.sr.s = TRUE]
<1>1. Keeps(x, isp) /\ isp \in Machine
  <2>1. [x.sr EXCEPT !.s = TRUE, !.m = FALSE] \in SR
    BY DEF Machine, SR
  <2> QED BY <2>1, RebankKeeps DEF Keeps
<1>2. g \in FrameSet /\ g.fmt \in WholeFormats
  <2> DEFINE sr == [f.sr EXCEPT !.s = TRUE]
  <2>1. sr \in SR
    BY DEF FrameSet, SR
  <2>2. g = [f EXCEPT !.fmt = "1", !.sr = sr]
    OBVIOUS
  <2> HIDE DEF sr, g
  <2>3. "1" \in Formats /\ "1" \in WholeFormats
    BY DEF Formats, WholeFormats
  <2> QED BY <2>1, <2>2, <2>3 DEF FrameSet
<1> HIDE DEF isp, g
<1>3. Keeps(x, PushFrame(isp, g))
  BY <1>1, <1>2, PushFrameKeeps, KeepsTrans
<1>4. Keeps(x, [x EXCEPT !.sr.m = FALSE])
  <2> DEFINE sr == [x.sr EXCEPT !.m = FALSE]
  <2>1. sr \in SR
    BY DEF Machine, SR
  <2> HIDE DEF sr
  <2>2. Keeps(x, [x EXCEPT !.sr = sr])
    BY <2>1 DEF Machine, Keeps
  <2> QED BY <2>2 DEF sr
<1>5. Keeps(x, x)
  BY DEF Keeps
<1> QED BY <1>3, <1>4, <1>5 DEF ToInterruptStack, isp, g

LEMMA ServiceInterruptKeeps ==
    ASSUME NEW x \in Machine, NEW level \in Levels
    PROVE  Keeps(x, service_interrupt(x, level))
<1> DEFINE v == 24 + level
           e == EnterSupervisor(x)
           s == [e EXCEPT !.sr.i = level]
           f == Frame("0", v, x.pc, x.sr)
           y == PushFrame(s, f)
           z == ToInterruptStack(y, f)
           j == jump_vector(z, f.vec)
<1>1. v \in Nat
  BY DEF Levels
<1>2. Keeps(x, e) /\ e \in Machine
  BY EnterSupervisorKeeps DEF Keeps
<1> HIDE DEF e, v
<1>3. Keeps(x, s) /\ s \in Machine
  <2> DEFINE sr == [e.sr EXCEPT !.i = level]
  <2>1. sr \in SR
    BY <1>2 DEF Machine, SR
  <2> HIDE DEF sr
  <2>2. Keeps(e, [e EXCEPT !.sr = sr])
    BY <1>2, <2>1 DEF Machine, Keeps
  <2>3. s = [e EXCEPT !.sr = sr]
    BY DEF sr
  <2> QED BY <1>2, <2>2, <2>3, KeepsTrans DEF Keeps
<1> HIDE DEF s
<1>4. f \in FrameSet /\ f.fmt \in WholeFormats /\ f.vec \in Nat
  <2>1. x.pc \in Int /\ x.sr \in SR
    BY DEF Machine
  <2>2. "0" \in Formats /\ "0" \in WholeFormats
    BY DEF Formats, WholeFormats
  <2>3. f \in FrameSet /\ f.fmt \in WholeFormats
    BY <1>1, <2>1, <2>2, FrameType
  <2> QED BY <2>3 DEF FrameSet
<1> HIDE DEF f
<1>5. Keeps(x, y) /\ y \in Machine
  BY <1>3, <1>4, PushFrameKeeps, KeepsTrans DEF Keeps
<1> HIDE DEF y
<1>6. Keeps(x, z) /\ z \in Machine
  BY <1>4, <1>5, ToInterruptStackKeeps, KeepsTrans DEF Keeps
<1> HIDE DEF z
<1>7. Keeps(x, j) /\ j \in Machine
  BY <1>4, <1>6, JumpVectorKeeps, KeepsTrans DEF Keeps
<1> HIDE DEF j
<1>8. Keeps(j, [j EXCEPT !.stopped = 0])
  BY <1>7 DEF Machine, Keeps
<1>9. Keeps(x, [j EXCEPT !.stopped = 0])
  BY <1>7, <1>8, KeepsTrans
<1> QED BY <1>9 DEF service_interrupt, EnterInterrupt, v, e, s, f, y, z, j

LEMMA CheckInterruptsKeeps ==
    ASSUME NEW x \in Machine
    PROVE  Keeps(x, check_and_service_interrupts(x))
<1> DEFINE l == x.int_level
           y == service_interrupt(x, l)
           owed == y.owed \cup {l}
           z == [y EXCEPT !.int_level = 0, !.owed = owed]
<1>1. l \in Levels
  BY DEF Machine
<1>2. Keeps(x, y) /\ y \in Machine
  BY <1>1, ServiceInterruptKeeps DEF Keeps
<1> HIDE DEF y, l
<1>3. Keeps(y, z)
  <2>1. owed \in SUBSET Levels
    BY <1>1, <1>2 DEF Machine
  <2> HIDE DEF owed
  <2>2. 0 \in Levels
    BY DEF Levels
  <2> QED BY <1>2, <2>1, <2>2 DEF Machine, Keeps
<1>4. Keeps(x, z)
  BY <1>2, <1>3, KeepsTrans
<1>5. Keeps(x, x)
  BY DEF Keeps
<1> HIDE DEF z
<1> QED BY <1>4, <1>5 DEF check_and_service_interrupts, z, owed, y, l

----------------------------------------------------------------------------
(* Reads of the instruction stream and of the stack *)

LEMMA ReadStreamKeeps ==
    ASSUME NEW x \in Machine
    PROVE  Keeps(x, ReadStream(x).m)
<1> DEFINE pop == [x EXCEPT !.pc = @ + 2, !.queue = Tail(@)]
           next == [x EXCEPT !.pc = @ + 2]
<1>1. ASSUME x.queue # <<>> PROVE Keeps(x, pop)
  <2> DEFINE tl == Tail(x.queue)
             pc == x.pc + 2
  <2>1. tl \in Seq(Int) /\ pc \in Int
    BY <1>1, QueueTypes
  <2> HIDE DEF tl, pc
  <2>2. Keeps(x, [x EXCEPT !.pc = pc, !.queue = tl])
    BY <2>1 DEF Machine, Keeps
  <2> QED BY <2>2 DEF tl, pc
<1>2. Keeps(x, next)
  <2> DEFINE pc == x.pc + 2
  <2>1. pc \in Int
    BY QueueTypes
  <2> HIDE DEF pc
  <2>2. Keeps(x, [x EXCEPT !.pc = pc])
    BY <2>1, SetPcKeeps
  <2> QED BY <2>2 DEF pc
<1>3. Keeps(x, trigger_bus_error(x)) /\ Keeps(x, trigger_address_error(x))
  BY TriggerBusErrorKeeps, TriggerAddressErrorKeeps
<1>4. ReadStream(x).m \in
        {trigger_address_error(x), trigger_bus_error(x), next}
        \cup (IF x.queue # <<>> THEN {pop} ELSE {})
  BY DEF ReadStream
<1> HIDE DEF pop, next
<1> QED BY <1>1, <1>2, <1>3, <1>4

LEMMA StackReadKeeps ==
    ASSUME NEW x \in Machine
    PROVE  Keeps(x, StackRead(x))
<1>1. Keeps(x, x)
  BY DEF Keeps
<1> QED BY <1>1, TriggerBusErrorKeeps DEF StackRead

\* What a return pops is a frame of the stack
LEMMA PoppedFrameType ==
    ASSUME NEW x \in Machine, NEW fmts, CellsAt(x, fmts) # {}
    PROVE  LET f == (CHOOSE c \in CellsAt(x, fmts) : TRUE).f
           IN  f \in FrameSet /\ f.fmt \in fmts
<1> DEFINE c == CHOOSE c \in CellsAt(x, fmts) : TRUE
<1>1. c \in CellsAt(x, fmts)
  OBVIOUS
<1> HIDE DEF c
<1>2. c \in x.stk /\ c.f.fmt \in fmts
  BY <1>1 DEF CellsAt
<1>3. x.stk \subseteq [at : Int, n : Nat, f : FrameSet]
  BY DEF Machine
<1>4. c.f \in FrameSet
  BY <1>2, <1>3
<1> QED BY <1>2, <1>4 DEF c

LEMMA RteFormatsType ==
    ASSUME NEW x \in Machine
    PROVE  RteFormats(x) \subseteq WholeFormats
<1>1. x.cpu_type \in Models
  BY DEF Machine
<1> QED BY <1>1 DEF RteFormats, WholeFormats, Formats, Models

----------------------------------------------------------------------------
(* Instructions *)

LEMMA IncrementType ==
    ASSUME NEW k \in 0..(RegMod - 1)
    PROVE  (k + 1) % RegMod \in 0..(RegMod - 1)
  BY DEF RegMod

LEMMA AstrayKeeps ==
    ASSUME NEW x \in Machine
    PROVE  Keeps(x, [x EXCEPT !.astray = TRUE])
  BY DEF Machine, Keeps

LEMMA RmwKeeps ==
    ASSUME NEW x \in Machine
    PROVE  Keeps(x, rmw(x))
<1> DEFINE r == IF "data" \in x.bad THEN trigger_bus_error(x) ELSE x
           y == top_up_prefetch(r)
           k == (y.data + 1) % RegMod
<1>1. Keeps(x, r) /\ r \in Machine
  BY TriggerBusErrorKeeps DEF Keeps
<1> HIDE DEF r
<1>2. Keeps(x, y) /\ y \in Machine
  BY <1>1, TopUpKeeps, KeepsTrans DEF Keeps
<1> HIDE DEF y
<1>3. k \in 0..(RegMod - 1)
  BY <1>2, IncrementType DEF Machine
<1> HIDE DEF k
<1>4. Keeps(y, [y EXCEPT !.data = k])
  BY <1>2, <1>3 DEF Machine, Keeps
<1>5. Keeps(x, [y EXCEPT !.data = k])
  BY <1>2, <1>4, KeepsTrans
<1> QED BY <1>2, <1>5 DEF rmw, WriteBack, r, y, k

LEMMA PincKeeps ==
    ASSUME NEW x \in Machine
    PROVE  Keeps(x, pinc(x))
<1> DEFINE k == (x.dar.r + 1) % RegMod
           d == [x.dar EXCEPT !.r = k]
           y == [x EXCEPT !.dar = d]
<1>1. k \in 0..(RegMod - 1)
  BY IncrementType DEF Machine, Registers
<1> HIDE DEF k
<1>2. d \in Registers
  BY <1>1 DEF Machine, Registers
<1> HIDE DEF d
<1>3. Keeps(x, y) /\ y \in Machine
  BY <1>2 DEF Machine, Keeps
<1> HIDE DEF y
<1>4. Keeps(x, trigger_bus_error(y))
  BY <1>3, TriggerBusErrorKeeps, KeepsTrans
<1>5. y = [x EXCEPT !.dar.r = (@ + 1) % RegMod]
  BY DEF y, d, k
<1> QED BY <1>3, <1>4, <1>5 DEF pinc

LEMMA JumpKeeps ==
    ASSUME NEW x \in Machine, NEW pc \in Int
    PROVE  Keeps(x, Jump(x, pc))
<1> DEFINE y == [x EXCEPT !.pc = pc, !.change_of_flow = TRUE]
<1>1. Keeps(x, y) /\ y \in Machine
  BY DEF Machine, Keeps
<1> HIDE DEF y
<1>2. Keeps(x, full_prefetch(y))
  BY <1>1, FullPrefetchKeeps, KeepsTrans
<1> QED BY <1>2 DEF Jump, y

LEMMA JsrKeeps ==
    ASSUME NEW x \in Machine
    PROVE  Keeps(x, jsr(x))
<1> DEFINE r == ReadStream(x).m
           f == Frame("ret", 0, r.pc, r.sr)
           y == PushFrame(r, f)
           to == IF faulted(r) THEN 0 ELSE Subroutine
<1>1. Keeps(x, r) /\ r \in Machine
  BY ReadStreamKeeps DEF Keeps
<1> HIDE DEF r
<1>2. f \in FrameSet /\ f.fmt \in WholeFormats
  <2>1. r.pc \in Int /\ r.sr \in SR
    BY <1>1 DEF Machine
  <2>2. "ret" \in Formats /\ "ret" \in WholeFormats /\ 0 \in Nat
    BY DEF Formats, WholeFormats
  <2> QED BY <2>1, <2>2, FrameType
<1> HIDE DEF f
<1>3. Keeps(x, y) /\ y \in Machine
  BY <1>1, <1>2, PushFrameKeeps, KeepsTrans DEF Keeps
<1> HIDE DEF y
<1>4. to \in Int
  BY ConstantTypes
<1> HIDE DEF to
<1>5. Keeps(x, Jump(y, to))
  BY <1>3, <1>4, JumpKeeps, KeepsTrans
<1> QED BY <1>5 DEF jsr, Call, r, f, y, to

LEMMA RtsKeeps ==
    ASSUME NEW x \in Machine
    PROVE  Keeps(x, rts(x))
<1> DEFINE r == StackRead(x)
           cells == CellsAt(r, {"ret"})
           pop == [r EXCEPT !.dar.a7 = @ + 4]
           to == (CHOOSE c \in cells : TRUE).f.pc
<1>1. Keeps(x, r) /\ r \in Machine
  BY StackReadKeeps DEF Keeps
<1> HIDE DEF r
<1>2. Keeps(x, pop) /\ pop \in Machine
  <2>1. \A n \in Int : Keeps(r, [r EXCEPT !.dar.a7 = @ + n])
    BY <1>1, MoveA7Keeps
  <2>2. Keeps(r, pop)
    BY <2>1
  <2> HIDE DEF pop
  <2> QED BY <1>1, <2>2, KeepsTrans DEF Keeps
<1> HIDE DEF pop
<1>3. Keeps(x, Jump(pop, 0))
  BY <1>2, JumpKeeps, KeepsTrans
<1>4. Keeps(x, [r EXCEPT !.astray = TRUE])
  BY <1>1, AstrayKeeps, KeepsTrans
<1>5. ASSUME cells # {} PROVE Keeps(x, Jump(pop, to))
  <2>1. to \in Int
    BY <1>1, <1>5, PoppedFrameType DEF FrameSet
  <2> HIDE DEF to
  <2> QED BY <1>2, <2>1, JumpKeeps, KeepsTrans
<1> HIDE DEF cells, to
<1> QED BY <1>3, <1>4, <1>5 DEF rts, Return, Top, r, cells, pop, to

LEMMA UnwindKeeps ==
    ASSUME NEW x \in Machine, NEW f \in FrameSet, f.fmt \in WholeFormats
    PROVE  Keeps(x, Unwind(x, f))
<1> DEFINE n == FrameBytes(x, f.fmt)
           pc == IF f.fmt = "1" THEN x.pc ELSE f.pc
           a == [x EXCEPT !.dar.a7 = @ + n]
           b == [a EXCEPT !.pc = pc]
<1>1. n \in Int
  BY FrameBytesType
<1> HIDE DEF n
<1>2. Keeps(x, a) /\ a \in Machine
  BY <1>1, MoveA7Keeps DEF Keeps
<1>3. pc \in Int /\ f.sr \in SR
  BY DEF Machine, FrameSet
<1>4. b = [x EXCEPT !.dar.a7 = @ + n, !.pc = IF f.fmt = "1" THEN @ ELSE f.pc]
  BY DEF Machine
<1> HIDE DEF a, pc
<1>5. Keeps(x, b) /\ b \in Machine
  BY <1>2, <1>3, SetPcKeeps, KeepsTrans DEF Keeps
<1> HIDE DEF b
<1>6. Keeps(x, set_sr(b, f.sr))
  BY <1>3, <1>5, SetSrKeeps, KeepsTrans
<1> QED BY <1>4, <1>6 DEF Unwind, n

LEMMA UnwindTopKeeps ==
    ASSUME NEW x \in Machine
    PROVE  Keeps(x, UnwindTop(x))
<1> DEFINE r == StackRead(x)
           cells == CellsAt(r, RteFormats(r))
           z == Frame("0", 0, 0, ZeroSR)
           f == (CHOOSE c \in cells : TRUE).f
<1>1. Keeps(x, r) /\ r \in Machine
  BY StackReadKeeps DEF Keeps
<1> HIDE DEF r
<1>2. z \in FrameSet /\ z.fmt \in WholeFormats
  <2>1. "0" \in Formats /\ "0" \in WholeFormats /\ 0 \in Nat /\ 0 \in Int
    BY DEF Formats, WholeFormats
  <2> QED BY <2>1, ConstantTypes, FrameType
<1> HIDE DEF z
<1>3. Keeps(x, Unwind(r, z))
  BY <1>1, <1>2, UnwindKeeps, KeepsTrans
<1>4. Keeps(x, [r EXCEPT !.astray = TRUE])
  BY <1>1, AstrayKeeps, KeepsTrans
<1>5. ASSUME cells # {} PROVE Keeps(x, Unwind(r, f))
  <2>1. f \in FrameSet /\ f.fmt \in RteFormats(r)
    BY <1>1, <1>5, PoppedFrameType
  <2> HIDE DEF f
  <2>2. f.fmt \in WholeFormats
    BY <1>1, <2>1, RteFormatsType
  <2> QED BY <1>1, <2>1, <2>2, UnwindKeeps, KeepsTrans
<1> HIDE DEF cells, f
<1> QED BY <1>3, <1>4, <1>5 DEF UnwindTop, PopFrame, Top, r, cells, z, f

LEMMA RteKeeps ==
    ASSUME NEW x \in Machine
    PROVE  Keeps(x, rte(x))
<1> DEFINE one == UnwindTop(x)
           two == UnwindTop(one)
           y == IF Throwaway(x) THEN two ELSE one
<1>1. Keeps(x, one) /\ one \in Machine
  BY UnwindTopKeeps DEF Keeps
<1> HIDE DEF one
<1>2. Keeps(x, two) /\ two \in Machine
  BY <1>1, UnwindTopKeeps, KeepsTrans DEF Keeps
<1> HIDE DEF two
<1>3. Keeps(x, y) /\ y \in Machine
  BY <1>1, <1>2
<1> HIDE DEF y
<1>4. Keeps(x, full_prefetch(y))
  BY <1>3, FullPrefetchKeeps, KeepsTrans
<1>5. Keeps(x, exception_privilege(x))
  BY VectorTypes, TakeExceptionKeeps DEF exception_privilege
<1> QED BY <1>4, <1>5 DEF rte, one, two, y

LEMMA PrivilegeKeeps ==
    ASSUME NEW x \in Machine
    PROVE  Keeps(x, exception_privilege(x))
  BY VectorTypes, TakeExceptionKeeps DEF exception_privilege

LEMMA StopKeeps ==
    ASSUME NEW x \in Machine, NEW s \in BOOLEAN
    PROVE  Keeps(x, stop(x, s))
<1> DEFINE r == ReadStream(x).m
           sr == IF faulted(r) THEN ZeroSR ELSE [ZeroSR EXCEPT !.s = s]
           p == [r EXCEPT !.ppc = r.pc]
           y == set_sr(r, sr)
<1>1. Keeps(x, r) /\ r \in Machine
  BY ReadStreamKeeps DEF Keeps
<1> HIDE DEF r
<1>2. sr \in SR
  <2>1. ZeroSR \in SR
    BY ConstantTypes
  <2>2. [ZeroSR EXCEPT !.s = s] \in SR
    BY <2>1 DEF SR
  <2> QED BY <2>1, <2>2
<1> HIDE DEF sr
<1>3. Keeps(r, p) /\ p \in Machine
  BY <1>1 DEF Machine, Keeps
<1> HIDE DEF p
<1>4. Keeps(x, exception_privilege(p))
  BY <1>1, <1>3, PrivilegeKeeps, KeepsTrans
<1>5. Keeps(x, y) /\ y \in Machine
  BY <1>1, <1>2, SetSrKeeps, KeepsTrans DEF Keeps
<1> HIDE DEF y
<1>6. Keeps(y, [y EXCEPT !.stopped = 1])
  BY <1>5 DEF Machine, Keeps
<1>7. Keeps(x, [y EXCEPT !.stopped = 1])
  BY <1>5, <1>6, KeepsTrans
<1> QED BY <1>4, <1>7, PrivilegeKeeps DEF stop, Stop, StopWith, r, sr, p, y

LEMMA HaltKeeps ==
    ASSUME NEW x \in Machine
    PROVE  Keeps(x, halt060(x))
<1>1. Keeps(x, [x EXCEPT !.stopped = 1])
  BY DEF Machine, Keeps
<1> QED BY <1>1, PrivilegeKeeps DEF halt060

LEMMA DispatchKeeps ==
    ASSUME NEW x \in Machine, NEW op
    PROVE  Keeps(x, dispatch_instruction(x, op))
<1>1. Keeps(x, x)
  BY DEF Keeps
<1>2. Keeps(x, Jump(x, Origin)) /\ Keeps(x, Jump(x, Subroutine + 1))
  <2>1. Subroutine + 1 \in Int
    BY ConstantTypes
  <2> QED BY <2>1, ConstantTypes, JumpKeeps
<1>3. Keeps(x, take_group2_exception(x, ZERO_DIVIDE))
  BY VectorTypes, TakeGroup2Keeps
<1>4. Keeps(x, [x EXCEPT !.dar.a7 = @ + 8])
  <2>1. \A n \in Int : Keeps(x, [x EXCEPT !.dar.a7 = @ + n])
    BY MoveA7Keeps
  <2> QED BY <2>1
<1>5. Keeps(x, stop(x, TRUE)) /\ Keeps(x, stop(x, FALSE))
  BY StopKeeps
<1>6. Keeps(x, [x EXCEPT !.astray = TRUE])
  BY AstrayKeeps
<1>7. /\ Keeps(x, rmw(x)) /\ Keeps(x, pinc(x)) /\ Keeps(x, jsr(x)) /\ Keeps(x, rts(x))
      /\ Keeps(x, rte(x)) /\ Keeps(x, halt060(x))
  BY RmwKeeps, PincKeeps, JsrKeeps, RtsKeeps, RteKeeps, HaltKeeps
<1> QED BY <1>1, <1>2, <1>3, <1>4, <1>5, <1>6, <1>7 DEF dispatch_instruction

LEMMA TakeTrapKeeps ==
    ASSUME NEW x \in Machine, NEW op
    PROVE  Keeps(x, TakeTrap(x, op))
<1> DEFINE y == [x EXCEPT !.pc = x.ppc]
<1>1. Keeps(x, y) /\ y \in Machine
  BY DEF Machine, Keeps
<1> HIDE DEF y
<1>2. Keeps(x, take_exception(y, LINE_1010))
  BY <1>1, VectorTypes, TakeExceptionKeeps, KeepsTrans
<1>3. Keeps(x, take_exception(x, TRAP_BASE))
  BY VectorTypes, TakeExceptionKeeps
<1> QED BY <1>2, <1>3 DEF TakeTrap, y

----------------------------------------------------------------------------
(* The run loops *)

LEMMA FetchOpcodeKeeps ==
    ASSUME NEW x \in Machine
    PROVE  Keeps(x, FetchOpcode(x).m)
<1> DEFINE b == [x EXCEPT !.ppc = x.pc, !.dar_save = x.dar, !.sr_save = get_sr(x)]
           f == ReadStream(b)
           fm == f.m
           owed == { l \in fm.owed : faulted(f.m) \/ Handler(24 + l) # f.w }
<1>1. Keeps(x, b) /\ b \in Machine
  BY DEF Machine, Keeps, get_sr
<1> HIDE DEF b
<1>2. Keeps(x, fm) /\ fm \in Machine
  BY <1>1, ReadStreamKeeps, KeepsTrans DEF Keeps
<1>3. owed \in SUBSET Levels
  BY <1>2 DEF Machine
<1> HIDE DEF owed
<1>4. f = [m |-> f.m, w |-> f.w]
  BY DEF ReadStream
<1> HIDE DEF fm
<1>5. Keeps(fm, [fm EXCEPT !.owed = owed])
  BY <1>2, <1>3 DEF Machine, Keeps
<1>6. Keeps(x, [fm EXCEPT !.owed = owed])
  BY <1>2, <1>5, KeepsTrans
<1> HIDE DEF f
<1>7. FetchOpcode(x) = [f EXCEPT !.m.owed = owed]
  BY DEF FetchOpcode, Started, f, b, owed, fm
<1>8. [f EXCEPT !.m.owed = owed].m = [fm EXCEPT !.owed = owed]
  BY <1>4 DEF fm
<1> QED BY <1>6, <1>7, <1>8

LEMMA CompleteKeeps ==
    ASSUME NEW x \in Machine, NEW sample \in BOOLEAN
    PROVE  Keeps(x, Complete(x, sample))
<1> DEFINE t == top_up_prefetch(x)
           y == [t EXCEPT !.change_of_flow = FALSE]
           tr == exception_trace(y)
<1>1. Keeps(x, t) /\ t \in Machine
  BY TopUpKeeps DEF Keeps
<1> HIDE DEF t
<1>2. Keeps(t, y) /\ y \in Machine
  BY <1>1 DEF Machine, Keeps
<1> HIDE DEF y
<1>3. Keeps(x, y)
  BY <1>1, <1>2, KeepsTrans
<1>4. Keeps(x, tr) /\ tr \in Machine
  BY <1>2, <1>3, ExceptionTraceKeeps, KeepsTrans DEF Keeps
<1> HIDE DEF tr
<1>5. Keeps(x, check_and_service_interrupts(y)) /\ Keeps(x, check_and_service_interrupts(tr))
  BY <1>2, <1>3, <1>4, CheckInterruptsKeeps, KeepsTrans
<1> QED BY <1>4, <1>5, EndFaultedKeeps DEF Complete, Retire, EndInstruction, Boundary, t, y, tr

LEMMA WakeKeeps ==
    ASSUME NEW x \in Machine
    PROVE  Keeps(x, stopped_supervisor_check(x))
<1> DEFINE pc == x.pc - 4
           y == [x EXCEPT !.stopped = 0, !.ppc = pc]
<1>1. pc \in Int
  BY DEF Machine
<1> HIDE DEF pc
<1>2. Keeps(x, y) /\ y \in Machine
  BY <1>1 DEF Machine, Keeps
<1> HIDE DEF y
<1>3. Keeps(x, exception_privilege(y))
  BY <1>2, PrivilegeKeeps, KeepsTrans
<1> QED BY <1>3 DEF stopped_supervisor_check, y, pc

LEMMA PruneKeeps ==
    ASSUME NEW x \in Machine
    PROVE  Keeps(x, Prune(x))
<1> DEFINE live(c) == \E b \in {0, 4, 6} :
                      /\ StackRegion(c.at) = StackRegion(Banks[b] - 1)
                      /\ c.at >= (IF sp_index(x) = b THEN x.dar.a7 ELSE x.sp[b])
           kept == { c \in x.stk : live(c) }
<1>1. kept \in SUBSET [at : Int, n : Nat, f : FrameSet]
  BY DEF Machine
<1> HIDE DEF kept
<1>2. Keeps(x, [x EXCEPT !.stk = kept])
  BY <1>1 DEF Machine, Keeps
<1>3. Keeps(x, x)
  BY DEF Keeps
<1> QED BY <1>2, <1>3 DEF Prune, kept

LEMMA ResetKeeps ==
    ASSUME NEW x \in Machine
    PROVE  Keeps(x, reset(x))
<1> DEFINE sr == [ZeroSR EXCEPT !.s = TRUE, !.i = 7]
           sp == [x.sp EXCEPT ![4] = IspBase, ![6] = IspBase]
           d == [x.dar EXCEPT !.a7 = IspBase]
           y == [x EXCEPT !.stopped = 0, !.run_mode = Normal, !.queue = <<>>, !.pc = Origin]
           z == [y EXCEPT !.sr = sr, !.dar = d, !.sp = sp]
<1>1. sr \in SR
  <2>1. ZeroSR \in SR /\ 7 \in Levels
    BY ConstantTypes DEF Levels
  <2> QED BY <2>1 DEF SR
<1>2. d \in Registers
  BY ConstantTypes DEF Machine, Registers
<1>3. sp \in [{0, 4, 6} -> Int]
  BY ConstantTypes DEF Machine
<1> HIDE DEF sr, sp, d
<1>4. Keeps(x, y) /\ y \in Machine
  <2>1. Origin \in Int /\ <<>> \in Seq(Int)
    BY ConstantTypes
  <2>2. y \in Machine
    BY <2>1 DEF Machine
  <2>3. y.exception_processing = x.exception_processing
    BY DEF Machine
  <2> QED BY <2>2, <2>3 DEF Keeps
<1> HIDE DEF y
<1>5. Keeps(y, z)
  BY <1>1, <1>2, <1>3, <1>4 DEF Machine, Keeps
<1> HIDE DEF z
<1>6. Keeps(x, z)
  BY <1>4, <1>5, KeepsTrans
<1>7. reset(x) = z
  BY DEF reset, sr, sp, d, y, z
<1> QED BY <1>6, <1>7

LEMMA BootKeeps ==
    ASSUME NEW x \in Machine, NEW sr \in SR
    PROVE  Keeps(x, Boot(x, sr))
<1> DEFINE msr == SrMasked(x, sr)
           y == [x EXCEPT !.sp = Banks, !.sr = msr]
           d == [r |-> 0, a7 |-> Banks[sp_index(y)]]
           w == [y EXCEPT !.dar = d, !.data = 0, !.stk = {}]
           z == [w EXCEPT !.nested = FALSE, !.owed = {}, !.astray = FALSE]
<1>1. msr \in SR
  BY SrMaskedType
<1> HIDE DEF msr
<1>2. Keeps(x, y) /\ y \in Machine
  BY <1>1, ConstantTypes DEF Machine, Keeps
<1> HIDE DEF y
<1>3. d \in Registers
  BY <1>2, SpIndexType, ConstantTypes DEF Registers, RegMod
<1> HIDE DEF d
<1>4. Keeps(x, w) /\ w \in Machine
  <2>1. 0 \in 0..(RegMod - 1)
    BY DEF RegMod
  <2>2. Keeps(y, w)
    BY <1>2, <1>3, <2>1 DEF Machine, Keeps
  <2> HIDE DEF w
  <2> QED BY <1>2, <2>2, KeepsTrans DEF Keeps
<1> HIDE DEF w
<1>5. Keeps(w, z)
  BY <1>4 DEF Machine, Keeps
<1> HIDE DEF z
<1>6. Keeps(x, z)
  BY <1>4, <1>5, KeepsTrans
<1>7. Boot(x, sr) = z
  BY DEF Boot, msr, y, d, w, z
<1> QED BY <1>6, <1>7

LEMMA PowerOnType ==
    ASSUME NEW type \in Models, NEW p \in [UserCode -> Ops]
    PROVE  PowerOn(type, p) \in Machine /\ ~PowerOn(type, p).exception_processing
<1> DEFINE d == [r |-> 0, a7 |-> 0]
<1>1. d \in Registers
  BY DEF Registers, RegMod
<1>2. 0 \in Levels
  BY DEF Levels
<1>3. 0 \in 0..(RegMod - 1)
  BY DEF RegMod
<1> HIDE DEF d
<1>4. /\ [cpu_type |-> type, prog |-> p, pc |-> Origin, ppc |-> 0,
          dar |-> d, dar_save |-> d,
          sr |-> ZeroSR, sr_save |-> ZeroSR, sp |-> Banks,
          run_mode |-> Normal, stopped |-> 0, exception_processing |-> FALSE,
          fault_resume |-> NoResume, int_level |-> 0, queue |-> <<>>,
          change_of_flow |-> FALSE, stk |-> {}, bad |-> {}, data |-> 0,
          nested |-> FALSE, owed |-> {}, astray |-> FALSE] \in Machine
  BY <1>1, <1>2, <1>3, ConstantTypes DEF Machine
<1> QED BY <1>4 DEF PowerOn, d

LEMMA HostTypes ==
    ASSUME NEW h \in Scenarios
    PROVE  /\ h.models \subseteq Models /\ h.programs \subseteq [UserCode -> Ops]
           /\ h.srs \subseteq SR /\ h.faultable \subseteq Regions /\ h.irqs \subseteq Levels
  BY ScenariosAssumption

----------------------------------------------------------------------------
(* The invariant.  LatchClear alone is not inductive: what take_exception   *)
(* does depends on the whole machine, and TypeOK is what keeps the callees  *)
(* total.  Together they are.                                               *)

Inv == TypeOK /\ LatchClear

LEMMA KeepsInv ==
    ASSUME m \in Machine, LatchClear, Keeps(m, m')
    PROVE  m' \in Machine /\ LatchClear'
  BY DEF Keeps, LatchClear, Machine

LEMMA InitInv == Init => Inv
<1> SUFFICES ASSUME Init PROVE Inv
  OBVIOUS
<1>1. host \in Scenarios
  BY DEF Init
<1>2. PICK type \in host.models, p \in host.programs, sr \in host.srs :
         m = Boot(PowerOn(type, p), sr)
  BY DEF Init
<1> DEFINE on == PowerOn(type, p)
<1>3. on \in Machine /\ ~on.exception_processing /\ sr \in SR
  BY <1>1, HostTypes, PowerOnType
<1> HIDE DEF on
<1>4. Keeps(on, m)
  BY <1>2, <1>3, BootKeeps DEF on
<1>5. m \in Machine /\ ~m.exception_processing
  BY <1>3, <1>4 DEF Keeps
<1> QED BY <1>1, <1>5 DEF Init, Inv, TypeOK, LatchClear

LEMMA NextInv == Inv /\ [Next]_vars => Inv'
<1> SUFFICES ASSUME Inv, [Next]_vars PROVE Inv'
  OBVIOUS
<1>t. /\ m \in Machine /\ LatchClear /\ host \in Scenarios /\ running \in BOOLEAN
      /\ surfaced \in Traps \cup {"none"}
  BY DEF Inv, TypeOK
<1>k. ASSUME Keeps(m, m'), host' = host, running' \in BOOLEAN,
             surfaced' \in Traps \cup {"none"}
      PROVE  Inv'
  BY <1>t, <1>k, KeepsInv DEF Inv, TypeOK
<1> DEFINE f == FetchOpcode(m)
           op == OpAt(f.m, f.w)
<1>f. Keeps(m, f.m) /\ f.m \in Machine
  BY <1>t, FetchOpcodeKeeps DEF Keeps
<1>p. ASSUME NEW y, Keeps(m, y) PROVE Keeps(m, Prune(y))
  <2>1. y \in Machine
    BY <1>p DEF Keeps
  <2> QED BY <1>p, <2>1, PruneKeeps, KeepsTrans
<1>e. Keeps(m, Prune(end_faulted_instruction(f.m)))
  BY <1>f, <1>p, EndFaultedKeeps, KeepsTrans
<1>c. ASSUME NEW y, Keeps(m, y), NEW sample \in BOOLEAN
      PROVE  Keeps(m, Prune(Complete(y, sample)))
  <2>1. y \in Machine
    BY <1>c DEF Keeps
  <2> QED BY <1>c, <2>1, <1>p, CompleteKeeps, KeepsTrans
<1>d. Keeps(m, dispatch_instruction(f.m, op)) /\ Keeps(m, TakeTrap(f.m, op))
  BY <1>f, DispatchKeeps, TakeTrapKeeps, KeepsTrans
<1> HIDE DEF f, op
<1>1. CASE Step
  <2>1. \/ m' = Prune(end_faulted_instruction(f.m)) /\ surfaced' = "none"
        \/ m' = f.m /\ surfaced' = op /\ op \in Traps
        \/ m' = Prune(Complete(dispatch_instruction(f.m, op), FALSE)) /\ surfaced' = "none"
    BY <1>1 DEF Step, f, op
  <2>2. host' = host /\ running' \in BOOLEAN
    BY <1>1, <1>t DEF Step
  <2> QED BY <2>1, <2>2, <1>c, <1>d, <1>e, <1>f, <1>k
<1>2. CASE StepStopped
  BY <1>2, <1>t, <1>p, <1>k, WakeKeeps DEF StepStopped
<1>3. CASE TakeSurfaced
  BY <1>3, <1>t, <1>p, <1>k, TakeTrapKeeps DEF TakeSurfaced
<1>4. CASE HleStep
  <2>1. \/ m' = Prune(end_faulted_instruction(f.m))
        \/ \E handled \in BOOLEAN :
              m' = Prune(Complete(IF handled THEN f.m ELSE TakeTrap(f.m, op), FALSE))
        \/ m' = Prune(Complete(dispatch_instruction(f.m, op), FALSE))
    BY <1>4 DEF HleStep, f, op
  <2>2. host' = host /\ running' \in BOOLEAN /\ surfaced' = "none"
    BY <1>4, <1>t DEF HleStep
  <2>3. ASSUME NEW handled \in BOOLEAN
        PROVE  Keeps(m, Prune(Complete(IF handled THEN f.m ELSE TakeTrap(f.m, op), FALSE)))
    BY <1>c, <1>d, <1>f
  <2>4. Keeps(m, m')
    BY <2>1, <2>3, <1>c, <1>d, <1>e
  <2> QED BY <2>2, <2>4, <1>k
<1>5. CASE ExecuteEntry
  <2> DEFINE x == check_and_service_interrupts(m)
             w == IF SupervisorWake(x) THEN stopped_supervisor_check(x) ELSE x
  <2>1. Keeps(m, x) /\ x \in Machine
    BY <1>t, CheckInterruptsKeeps DEF Keeps
  <2>2. m' = Prune(w) /\ running' = (x.stopped = 0 \/ SupervisorWake(x))
        /\ surfaced' = "none" /\ host' = host
    BY <1>5 DEF ExecuteEntry
  <2> HIDE DEF x
  <2>3. Keeps(m, w)
    BY <2>1, WakeKeeps, KeepsTrans
  <2> HIDE DEF w
  <2>4. Keeps(m, m')
    BY <2>2, <2>3, <1>p
  <2>5. running' \in BOOLEAN
    BY <2>2 DEF SupervisorWake
  <2> QED BY <2>2, <2>4, <2>5, <1>k
<1>6. CASE ExecuteIteration
  <2> DEFINE y == IF op \in Traps THEN TakeTrap(f.m, op) ELSE dispatch_instruction(f.m, op)
  <2>1. \/ m' = Prune(end_faulted_instruction(f.m))
        \/ m' = Prune(Complete(y, TRUE))
    BY <1>6 DEF ExecuteIteration, f, op
  <2>2. running' \in BOOLEAN /\ host' = host /\ surfaced' = surfaced
    BY <1>6 DEF ExecuteIteration
  <2>3. Keeps(m, y)
    BY <1>d
  <2> HIDE DEF y
  <2>4. Keeps(m, m')
    BY <2>1, <2>3, <1>c, <1>e
  <2> QED BY <2>2, <2>4, <1>t, <1>k
<1>7. CASE SetIrq
  <2>1. PICK l \in host.irqs : m' = [m EXCEPT !.int_level = l]
    BY <1>7 DEF SetIrq
  <2>2. l \in Levels
    BY <1>t, HostTypes
  <2>3. Keeps(m, m')
    BY <1>t, <2>1, <2>2 DEF Machine, Keeps
  <2> QED BY <1>7, <2>3, <1>t, <1>k DEF SetIrq
<1>8. CASE Remap
  <2>1. PICK r \in host.faultable :
           m' = [m EXCEPT !.bad = IF r \in @ THEN @ \ {r} ELSE @ \cup {r}]
    BY <1>8 DEF Remap
  <2> DEFINE bad == IF r \in m.bad THEN m.bad \ {r} ELSE m.bad \cup {r}
  <2>2. bad \in SUBSET Regions
    BY <1>t, HostTypes DEF Machine
  <2>3. m' = [m EXCEPT !.bad = bad]
    BY <2>1
  <2> HIDE DEF bad
  <2>4. Keeps(m, m')
    BY <1>t, <2>2, <2>3 DEF Machine, Keeps
  <2> QED BY <1>8, <2>4, <1>t, <1>k DEF Remap
<1>9. CASE Reset
  <2>1. PICK sr \in host.srs : m' = Boot(reset(m), sr)
    BY <1>9 DEF Reset
  <2>2. sr \in SR
    BY <1>t, HostTypes
  <2>3. Keeps(m, reset(m)) /\ reset(m) \in Machine
    BY <1>t, ResetKeeps DEF Keeps
  <2>4. Keeps(m, m')
    BY <2>1, <2>2, <2>3, BootKeeps, KeepsTrans
  <2> QED BY <1>9, <2>4, <1>t, <1>k DEF Reset
<1>10. CASE UNCHANGED vars
  BY <1>10, <1>t DEF vars, Inv, TypeOK, LatchClear
<1> QED
  BY <1>1, <1>2, <1>3, <1>4, <1>5, <1>6, <1>7, <1>8, <1>9, <1>10 DEF Next

\* In every behaviour, for every set of hosts and every stack bound, each field
\* of the CPU and of the bus stays in its domain: the stop level is 0 or 1, the
\* abstract registers and every stacked frame are well formed
THEOREM TypeCorrect == Spec => []TypeOK
<1>1. Inv => TypeOK
  BY DEF Inv
<1> QED BY <1>1, InitInv, NextInv, PTL DEF Spec

\* The in-exception latch of take_exception and trigger_bus_error never
\* survives a call into the CPU, whatever faults during the delivery: a latch
\* left set would turn the next ordinary exception into a double-fault halt
THEOREM LatchNeverLeaks == Spec => []LatchClear
<1>1. Inv => LatchClear
  BY DEF Inv
<1> QED BY <1>1, InitInv, NextInv, PTL DEF Spec

----------------------------------------------------------------------------
(* Faults, the queue and the halt.  Fine holds of the machine inside every  *)
(* method, whatever the bus does; Settled needs the stacks mapped.          *)

\* The state a fault owes the program is a supervisor state: the one its delivery
\* saved or, when the delivery itself faulted, the current one; without a queue
\* there is nothing in it
Fine(x) ==
    /\ x.fault_resume # NoResume => x.fault_resume.sr.s
    /\ faulted(x) => x.sr.s \/ x.fault_resume # NoResume
    /\ x.exception_processing => x.sr.s
    /\ ~prefetch_enabled(x) => x.queue = <<>>

\* The queue holds the words at pc
QueueAt(q, pc) == Len(q) <= 2 /\ \A k \in 1..Len(q) : q[k] = pc + 2 * (k - 1)

\* The only double fault is the one that parked the CPU; any other fault has its
\* handler's entry state saved, and the queue is that of the PC that comes next
Settled(x) ==
    /\ x.nested <=> is_halted(x)
    /\ ~faulted(x) => x.fault_resume = NoResume /\ QueueAt(x.queue, x.pc)
    /\ faulted(x) /\ x.stopped = 0 =>
          x.fault_resume # NoResume /\ QueueAt(x.queue, x.fault_resume.pc)

Stacks == {"user", "isp", "msp"}
Stops == {"stop", "stopu"}

\* What the bus may refuse: with the queue only data, without it anything but
\* the stacks; and no STOP can lose its operand
Refusals(x, regions) ==
    IF prefetch_enabled(x) THEN regions \subseteq {"data"}
    ELSE /\ regions \cap Stacks = {}
         /\ regions \subseteq {"data", "vec"} \/ \A w \in UserCode : x.prog[w] \notin Stops

\* A status register that does not trace
PlainSR == { sr \in SR : ~sr.t1 /\ ~sr.t0 }

\* The hosts whose stacks are mapped, and whose vectors are unless nothing
\* interrupts or traces
StacksMapped ==
    /\ Refusals(m, host.faultable)
    /\ "vec" \in host.faultable => host.irqs \subseteq {0} /\ host.srs \subseteq PlainSR

Good(x) == StacksMapped /\ Refusals(x, x.bad) /\ Settled(x)

\* No status register, saved or stacked, traces
Plain(x) ==
    /\ x.sr \in PlainSR /\ x.sr_save \in PlainSR
    /\ x.fault_resume # NoResume => x.fault_resume.sr \in PlainSR
    /\ \A c \in x.stk : c.f.sr \in PlainSR

\* What the machine is between two steps
Edge(x) == Fine(x) /\ (faulted(x) => x.sr.s)

FaultInv ==
    /\ Inv
    /\ Edge(m)
    /\ m.bad \subseteq host.faultable
    /\ host.irqs \subseteq {0} => m.int_level = 0
    /\ host.srs \subseteq PlainSR => Plain(m)
    /\ surfaced # "none" => ~faulted(m) /\ ~running
    /\ StacksMapped =>
          /\ Settled(m)
          /\ m.fault_resume = NoResume
          /\ "vec" \notin host.faultable => ~m.nested
          /\ running => m.stopped = 0 \/ m.nested

\* y is reached from x without a fault, a fetch or a change of the run state
Same(x, y) ==
    /\ y.cpu_type = x.cpu_type /\ y.prog = x.prog /\ y.bad = x.bad
    /\ y.int_level = x.int_level /\ y.exception_processing = x.exception_processing
Held(x, y) ==
    /\ Same(x, y)
    /\ y.run_mode = x.run_mode /\ y.stopped = x.stopped /\ y.nested = x.nested
    /\ y.fault_resume = x.fault_resume /\ y.queue = x.queue /\ y.sr_save = x.sr_save

Ok(x) == x \in Machine /\ Fine(x)

\* y is reached from x by a method that neither returns from an exception nor stops
Reaches(x, y) ==
    /\ Ok(y) /\ Same(x, y)
    /\ x.sr.s => y.sr.s
    /\ faulted(y) => y.sr.s \/ faulted(x)
    /\ x.nested => y.nested
Safely(x, y) == Reaches(x, y) /\ (Plain(x) => Plain(y))
Settles(x, y) ==
    Good(x) => /\ Settled(y)
               /\ y.nested => x.nested \/ "vec" \in x.bad
               /\ x.stopped = 0 => y.stopped = 0 \/ y.nested
Goes(x, y) == Safely(x, y) /\ Settles(x, y)

LEMMA SameTrans ==
    ASSUME NEW x, NEW y, NEW z, Same(x, y), Same(y, z)
    PROVE  Same(x, z)
  BY DEF Same

LEMMA SameGood ==
    ASSUME NEW x, NEW y, Same(x, y), Good(x), Settled(y)
    PROVE  Good(y)
  BY DEF Same, Good, Refusals, prefetch_enabled

LEMMA GoesTrans ==
    ASSUME NEW x, NEW y, NEW z, Goes(x, y), Goes(y, z)
    PROVE  Goes(x, z)
<1>1. Same(x, z)
  BY SameTrans DEF Goes, Safely, Reaches, Settles
<1>2. Same(x, y) /\ y.bad = x.bad
  BY DEF Goes, Safely, Reaches, Settles, Same
<1>3. Good(x) => Good(y)
  BY <1>2, SameGood DEF Goes, Safely, Reaches, Settles
<1>4. Good(x) => /\ Settled(z)
                 /\ z.nested => x.nested \/ "vec" \in x.bad
                 /\ x.stopped = 0 => z.stopped = 0 \/ z.nested
  BY <1>2, <1>3 DEF Goes, Safely, Reaches, Settles
<1> QED BY <1>1, <1>4 DEF Goes, Safely, Reaches, Settles

LEMMA ReachesTrans ==
    ASSUME NEW x, NEW y, NEW z, Reaches(x, y), Reaches(y, z)
    PROVE  Reaches(x, z)
<1>1. Same(x, z)
  BY SameTrans DEF Reaches
<1> QED BY <1>1 DEF Reaches

LEMMA SettlesTrans ==
    ASSUME NEW x, NEW y, NEW z, Reaches(x, y), Reaches(y, z),
           Settles(x, y), Settles(y, z)
    PROVE  Settles(x, z)
<1>1. Good(x) => Good(y)
  BY SameGood DEF Reaches, Settles
<1>2. y.bad = x.bad
  BY DEF Reaches, Same
<1> QED BY <1>1, <1>2 DEF Settles, Reaches

LEMMA GoesRefl ==
    ASSUME NEW x, Ok(x)
    PROVE  Goes(x, x)
  BY DEF Goes, Safely, Reaches, Settles, Same, Good

LEMMA HeldGoes ==
    ASSUME NEW x, NEW y, Ok(x), y \in Machine, Held(x, y), y.pc = x.pc,
           x.sr.s => y.sr.s, Plain(x) => Plain(y)
    PROVE  Goes(x, y)
<1>1. Fine(y)
  BY DEF Ok, Fine, Held, Same, faulted, prefetch_enabled
<1>2. Settled(x) => Settled(y)
  BY DEF Settled, Held, Same, faulted, is_halted
<1> QED BY <1>1, <1>2 DEF Goes, Safely, Reaches, Settles, Ok, Held, Good, faulted

\* The status register of an exception entry traces nothing
LEMMA RebankHeld ==
    ASSUME NEW x \in Machine, NEW sr \in SR
    PROVE  /\ Held(x, Rebank(x, sr)) /\ Rebank(x, sr).pc = x.pc
           /\ Rebank(x, sr).sr = sr /\ Rebank(x, sr).stk = x.stk
           /\ Rebank(x, sr) \in Machine
<1> DEFINE saved == [x EXCEPT !.sp[sp_index(x)] = x.dar.a7, !.sr = sr]
<1>1. saved \in Machine
  <2>1. x.dar.a7 \in Int
    BY DEF Machine, Registers
  <2> QED BY <2>1, SpIndexType DEF Machine
<1>2. Held(x, saved) /\ saved.pc = x.pc /\ saved.sr = sr /\ saved.stk = x.stk
  BY DEF Machine, Held, Same
<1>3. Rebank(x, sr) = [saved EXCEPT !.dar.a7 = saved.sp[sp_index(saved)]]
  BY DEF Rebank
<1> HIDE DEF saved
<1> DEFINE a == saved.sp[sp_index(saved)]
           y == [saved EXCEPT !.dar.a7 = a]
<1>4. Held(saved, y) /\ y.pc = saved.pc /\ y.sr = saved.sr /\ y.stk = saved.stk
  <2> HIDE DEF a
  <2> QED BY <1>1 DEF Machine, Held, Same
<1>5. Held(x, y)
  <2> HIDE DEF y
  <2> QED BY <1>2, <1>4 DEF Held, Same
<1>6. Rebank(x, sr) \in Machine
  BY RebankKeeps DEF Keeps
<1> QED BY <1>2, <1>3, <1>4, <1>5, <1>6

LEMMA SrMaskedKeepsS ==
    ASSUME NEW x \in Machine, NEW sr \in SR
    PROVE  /\ SrMasked(x, sr).s = sr.s
           /\ sr \in PlainSR => SrMasked(x, sr) \in PlainSR
<1>1. SrMasked(x, sr).s = sr.s
  BY DEF SrMasked, SR
<1>2. sr \in PlainSR => SrMasked(x, sr).t1 = FALSE /\ SrMasked(x, sr).t0 = FALSE
  BY DEF SrMasked, SR, PlainSR
<1> QED BY <1>1, <1>2, SrMaskedType DEF PlainSR

LEMMA EnterSupervisorHeld ==
    ASSUME NEW x \in Machine
    PROVE  LET y == EnterSupervisor(x)
           IN  /\ Held(x, y) /\ y.pc = x.pc /\ y.sr.s /\ y.sr \in PlainSR
               /\ y.stk = x.stk /\ y \in Machine
<1> DEFINE r == set_s_flag(x)
           sr == [r.sr EXCEPT !.t1 = FALSE, !.t0 = FALSE]
           y == [r EXCEPT !.sr = sr]
           up == [x.sr EXCEPT !.s = TRUE]
<1>1. up \in SR /\ up.s
  BY DEF Machine, SR
<1> HIDE DEF up
<1>2. Held(x, r) /\ r.pc = x.pc /\ r.sr = up /\ r.stk = x.stk /\ r \in Machine
  BY <1>1, RebankHeld DEF set_s_flag, up
<1> HIDE DEF r
<1>3. sr \in PlainSR /\ sr \in SR /\ sr.s
  BY <1>1, <1>2 DEF SR, PlainSR
<1> HIDE DEF sr
<1>4. Held(r, y) /\ y.pc = r.pc /\ y.sr = sr /\ y.stk = r.stk
  BY <1>2 DEF Machine, Held, Same
<1>5. EnterSupervisor(x) = y
  BY DEF EnterSupervisor, Untraced, y, r, sr
<1> HIDE DEF y
<1>6. Held(x, y)
  BY <1>2, <1>4 DEF Held, Same
<1>7. y \in Machine
  BY <1>5, EnterSupervisorKeeps DEF Keeps
<1> QED BY <1>2, <1>3, <1>4, <1>5, <1>6, <1>7

LEMMA MoveA7Held ==
    ASSUME NEW x \in Machine, NEW n \in Int
    PROVE  LET y == [x EXCEPT !.dar.a7 = @ - n]
               z == [x EXCEPT !.dar.a7 = @ + n]
           IN  /\ Held(x, y) /\ y.pc = x.pc /\ y.sr = x.sr /\ y.stk = x.stk /\ y \in Machine
               /\ Held(x, z) /\ z.pc = x.pc /\ z.sr = x.sr /\ z.stk = x.stk /\ z \in Machine
<1>1. ASSUME NEW k
      PROVE  LET y == [x EXCEPT !.dar.a7 = k]
             IN  Held(x, y) /\ y.pc = x.pc /\ y.sr = x.sr /\ y.stk = x.stk
  BY DEF Machine, Held, Same
<1>2. [x EXCEPT !.dar.a7 = @ - n] \in Machine /\ [x EXCEPT !.dar.a7 = @ + n] \in Machine
  BY MoveA7Keeps DEF Keeps
<1> QED BY <1>1, <1>2

LEMMA StoreHeld ==
    ASSUME NEW x \in Machine, NEW f \in FrameSet, f.fmt \in WholeFormats
    PROVE  LET y == Store(x, f)
           IN  /\ Held(x, y) /\ y.pc = x.pc /\ y.sr = x.sr /\ y \in Machine
               /\ Plain(x) /\ f.sr \in PlainSR => Plain(y)
<1> DEFINE n == FrameBytes(x, f.fmt)
           a == x.dar.a7 - n
           cells == IF f.fmt = "group0"
                 THEN { [at |-> a, n |-> 8, f |-> [f EXCEPT !.fmt = "pc_sr_ir"]],
                        [at |-> a + 8, n |-> 6, f |-> [f EXCEPT !.fmt = "address_status"]] }
                 ELSE { [at |-> a, n |-> n, f |-> f] }
           kept == { c \in x.stk : ~Overlaps(c, a, n) }
<1>1. kept \subseteq x.stk
  OBVIOUS
<1>2. \A c \in cells : c.f.sr = f.sr
  BY DEF FrameSet
<1> HIDE DEF cells, kept, a, n
<1> DEFINE y == [x EXCEPT !.dar.a7 = a, !.stk = kept \cup cells]
<1>3. Held(x, y) /\ y.pc = x.pc /\ y.sr = x.sr /\ y.stk = kept \cup cells
  BY DEF Machine, Held, Same
<1>4. Store(x, f) = y
  BY DEF Store, n, a, cells, kept
<1> HIDE DEF y
<1>5. Plain(x) /\ f.sr \in PlainSR => Plain(y)
  <2> SUFFICES ASSUME Plain(x), f.sr \in PlainSR PROVE Plain(y)
    OBVIOUS
  <2>1. \A c \in y.stk : c.f.sr \in PlainSR
    BY <1>1, <1>2, <1>3 DEF Plain
  <2> QED BY <2>1, <1>3 DEF Plain, Held
<1>6. Store(x, f) \in Machine
  BY StoreKeeps DEF Keeps
<1> QED BY <1>3, <1>4, <1>5, <1>6

LEMMA HeldPlain ==
    ASSUME NEW x, NEW y, Held(x, y), y.sr = x.sr \/ y.sr \in PlainSR, y.stk \subseteq x.stk,
           Plain(x)
    PROVE  Plain(y)
  BY DEF Held, Plain

----------------------------------------------------------------------------
(* The refill when nothing of the code is refused *)

RefillOf(x) ==
    IF ~prefetch_enabled(x) THEN x.queue
    ELSE IF Odd(x.pc) THEN <<>> ELSE Append(<<x.pc>>, x.pc + 2)
Refilled(x) == [x EXCEPT !.queue = RefillOf(x)]

LEMMA CodeNotData ==
    ASSUME NEW a
    PROVE  CodeRegion(a) # "data" /\ CodeRegion(a) \notin Stacks /\ StackRegion(a) \in Stacks
  BY DEF CodeRegion, StackRegion, Stacks

LEMMA PrefetchQuiet ==
    ASSUME NEW x \in Machine, ~faulted(x), Refusals(x, x.bad)
    PROVE  /\ FullPrefetch(x, DoubleFault) = Refilled(x)
           /\ full_prefetch(x) = Refilled(x)
<1>1. CASE ~prefetch_enabled(x)
  <2>1. Refilled(x) = x
    BY <1>1 DEF Refilled, RefillOf, Machine
  <2> QED BY <1>1, <2>1 DEF FullPrefetch, full_prefetch, prefetch_first, prefetch_second,
                         PrefetchFirst, PrefetchSecond
<1>2. CASE prefetch_enabled(x)
  <2> DEFINE e == [x EXCEPT !.queue = <<>>]
             q == [e EXCEPT !.queue = <<x.pc>>]
  <2>1. e.pc = x.pc /\ e.bad = x.bad /\ prefetch_enabled(e) /\ ~faulted(e) /\ e.queue = <<>>
    BY <1>2 DEF Machine, prefetch_enabled, faulted
  <2>2. q.pc = x.pc /\ q.bad = x.bad /\ prefetch_enabled(q) /\ ~faulted(q) /\ q.queue = <<x.pc>>
    BY <1>2 DEF Machine, prefetch_enabled, faulted
  <2>3. \A a : CodeRegion(a) \notin x.bad
    BY <1>2, CodeNotData DEF Refusals
  <2>4. PrefetchFirst(x, DoubleFault) = (IF Odd(x.pc) THEN e ELSE q)
        /\ prefetch_first(x) = (IF Odd(x.pc) THEN e ELSE q)
    <3>1. e.pc = x.pc /\ e = [x EXCEPT !.queue = <<>>]
      BY <2>1
    <3> QED BY <1>2, <2>3, <3>1 DEF PrefetchFirst, prefetch_first
  <2>5. Odd(x.pc) => Refilled(x) = e
    BY <1>2 DEF Refilled, RefillOf
  <2>6. ~Odd(x.pc) => Refilled(x) = [q EXCEPT !.queue = Append(@, q.pc + 2)]
    <3>1. RefillOf(x) = Append(<<x.pc>>, x.pc + 2) \/ Odd(x.pc)
      BY <1>2 DEF RefillOf
    <3>2. [q EXCEPT !.queue = Append(@, q.pc + 2)]
          = [x EXCEPT !.queue = Append(<<x.pc>>, x.pc + 2)]
      BY <2>2 DEF Machine
    <3> QED BY <3>1, <3>2 DEF Refilled
  <2> HIDE DEF e, q
  <2>7. PrefetchSecond(e, DoubleFault) = e /\ prefetch_second(e) = e
    <3>1. Len(e.queue) # 1
      BY <2>1
    <3> QED BY <3>1 DEF PrefetchSecond, prefetch_second
  <2>8. ~Odd(x.pc) => /\ PrefetchSecond(q, DoubleFault) = [q EXCEPT !.queue = Append(@, q.pc + 2)]
                      /\ prefetch_second(q) = [q EXCEPT !.queue = Append(@, q.pc + 2)]
    <3>1. Len(q.queue) = 1
      BY <2>2
    <3> QED BY <2>2, <2>3, <3>1 DEF PrefetchSecond, prefetch_second
  <2> QED BY <2>4, <2>5, <2>6, <2>7, <2>8 DEF FullPrefetch, full_prefetch
<1> QED BY <1>1, <1>2

\* What the refill leaves
LEMMA RefilledFacts ==
    ASSUME NEW x \in Machine
    PROVE  LET y == Refilled(x)
           IN  /\ y \in Machine /\ Same(x, y) /\ y.pc = x.pc /\ y.sr = x.sr /\ y.stk = x.stk
               /\ y.run_mode = x.run_mode /\ y.stopped = x.stopped /\ y.nested = x.nested
               /\ y.fault_resume = x.fault_resume /\ y.sr_save = x.sr_save
               /\ Plain(x) => Plain(y)
               /\ (prefetch_enabled(x) \/ x.queue = <<>>) => QueueAt(y.queue, y.pc)
               /\ ~prefetch_enabled(x) => y.queue = x.queue
<1> DEFINE q == RefillOf(x)
           y == [x EXCEPT !.queue = q]
<1>1. q \in Seq(Int)
  BY QueueTypes DEF RefillOf, Machine
<1>2. (prefetch_enabled(x) \/ x.queue = <<>>) => QueueAt(q, x.pc)
  <2>1. QueueAt(<<>>, x.pc)
    BY DEF QueueAt
  <2>2. QueueAt(Append(<<x.pc>>, x.pc + 2), x.pc)
    BY QueueTypes DEF QueueAt
  <2> QED BY <2>1, <2>2 DEF RefillOf
<1>3. ~prefetch_enabled(x) => q = x.queue
  BY DEF RefillOf
<1> HIDE DEF q
<1>4. /\ y \in Machine /\ Same(x, y) /\ y.pc = x.pc /\ y.sr = x.sr /\ y.stk = x.stk
      /\ y.run_mode = x.run_mode /\ y.stopped = x.stopped /\ y.nested = x.nested
      /\ y.fault_resume = x.fault_resume /\ y.sr_save = x.sr_save /\ y.queue = q
  BY <1>1 DEF Machine, Same
<1>5. Refilled(x) = y
  BY DEF Refilled, q
<1> HIDE DEF y
<1>6. Plain(x) => Plain(y)
  BY <1>4 DEF Plain
<1> QED BY <1>2, <1>3, <1>4, <1>5, <1>6

----------------------------------------------------------------------------
(* The delivery of a bus error, which ends in a supervisor state or in a halt *)

\* y is reached from x inside a delivery, where a further fault is a double fault
Delivers(x, y) ==
    /\ y \in Machine /\ Same(x, y) /\ y.sr = x.sr
    /\ x.nested => y.nested
    /\ x.stopped = 1 => y.stopped = 1
    /\ ~prefetch_enabled(x) => y.queue = x.queue

DeliversPlain(x, y) == Delivers(x, y) /\ (Plain(x) => Plain(y))

LEMMA DeliversTrans ==
    ASSUME NEW x, NEW y, NEW z, Delivers(x, y), Delivers(y, z)
    PROVE  Delivers(x, z)
<1>1. Same(x, z)
  BY SameTrans DEF Delivers
<1> QED BY <1>1 DEF Delivers, Same, prefetch_enabled

LEMMA HeldDelivers ==
    ASSUME NEW x, NEW y \in Machine, Held(x, y), y.sr = x.sr
    PROVE  Delivers(x, y)
  BY DEF Held, Delivers

LEMMA DoubleFaultDelivers ==
    ASSUME NEW x \in Machine
    PROVE  LET y == DoubleFault(x)
           IN  /\ Delivers(x, y) /\ (Plain(x) => Plain(y))
               /\ faulted(y) /\ y.fault_resume = x.fault_resume
               /\ ~faulted(x) => y.nested /\ y.stopped = 1
<1>1. CASE faulted(x)
  <2>1. DoubleFault(x) = x
    BY <1>1 DEF DoubleFault
  <2> QED BY <1>1, <2>1 DEF Delivers, Same
<1>2. CASE ~faulted(x)
  <2> DEFINE y == [x EXCEPT !.stopped = 1, !.run_mode = Fault, !.nested = TRUE]
  <2>1. DoubleFault(x) = y
    BY <1>2 DEF DoubleFault
  <2>2. /\ y.stopped = 1 /\ y.run_mode = Fault /\ y.nested /\ Same(x, y) /\ y.sr = x.sr
        /\ y.queue = x.queue /\ y.fault_resume = x.fault_resume
        /\ y.sr_save = x.sr_save /\ y.stk = x.stk
    BY DEF Machine, Same
  <2>3. y \in Machine
    BY <2>1, DoubleFaultKeeps DEF Keeps
  <2> HIDE DEF y
  <2>4. Plain(x) => Plain(y)
    BY <2>2 DEF Plain
  <2> QED BY <2>1, <2>2, <2>3, <2>4 DEF Delivers, faulted
<1> QED BY <1>1, <1>2

LEMMA SetPcDelivers ==
    ASSUME NEW x \in Machine, NEW pc \in Int
    PROVE  LET y == [x EXCEPT !.pc = pc]
           IN  /\ Held(x, y) /\ y.pc = pc /\ y.sr = x.sr /\ y.stk = x.stk /\ y \in Machine
               /\ Plain(x) => Plain(y)
               /\ Delivers(x, y)
<1> DEFINE y == [x EXCEPT !.pc = pc]
<1>1. Held(x, y) /\ y.pc = pc /\ y.sr = x.sr /\ y.stk = x.stk
  BY DEF Machine, Held, Same
<1>2. y \in Machine
  BY SetPcKeeps DEF Keeps
<1> HIDE DEF y
<1>3. Plain(x) => Plain(y)
  BY <1>1, HeldPlain
<1>4. Delivers(x, y)
  BY <1>1, <1>2, HeldDelivers
<1> QED BY <1>1, <1>2, <1>3, <1>4 DEF y

LEMMA SetQueueDelivers ==
    ASSUME NEW x \in Machine, NEW q \in Seq(Int), prefetch_enabled(x)
    PROVE  Delivers(x, [x EXCEPT !.queue = q]) /\ (Plain(x) => Plain([x EXCEPT !.queue = q]))
<1> DEFINE y == [x EXCEPT !.queue = q]
<1>1. /\ Same(x, y) /\ y.sr = x.sr /\ y.stk = x.stk /\ y.nested = x.nested
      /\ y.stopped = x.stopped /\ y.fault_resume = x.fault_resume /\ y.sr_save = x.sr_save
  BY DEF Machine, Same
<1>2. y \in Machine
  BY SetQueueKeeps DEF Keeps
<1> HIDE DEF y
<1> QED BY <1>1, <1>2 DEF Delivers, Plain, y

LEMMA PushDelivers ==
    ASSUME NEW x \in Machine, NEW f \in FrameSet, f.fmt \in WholeFormats
    PROVE  LET y == PushFaultFrame(x, f)
           IN  /\ Delivers(x, y)
               /\ Plain(x) /\ f.sr \in PlainSR => Plain(y)
               /\ Refusals(x, x.bad) /\ ~faulted(x) => Held(x, y)
<1> DEFINE n == FrameBytes(x, f.fmt)
           d == DoubleFault(x)
           s == Store(x, f)
           below == [x EXCEPT !.dar.a7 = @ - n]
           dbelow == [d EXCEPT !.dar.a7 = @ - n]
<1>1. n \in Int
  BY FrameBytesType
<1> HIDE DEF n
<1>2. Held(x, s) /\ s \in Machine /\ s.sr = x.sr /\ (Plain(x) /\ f.sr \in PlainSR => Plain(s))
  BY StoreHeld
<1>3. Delivers(x, d) /\ d \in Machine /\ (Plain(x) => Plain(d))
  BY DoubleFaultDelivers DEF Delivers
<1> HIDE DEF d, s
<1>4. Held(x, below) /\ below \in Machine /\ below.sr = x.sr /\ below.stk = x.stk
  BY <1>1, MoveA7Held
<1>5. Held(d, dbelow) /\ dbelow \in Machine /\ dbelow.sr = d.sr /\ dbelow.stk = d.stk
  BY <1>1, <1>3, MoveA7Held
<1> HIDE DEF below, dbelow
<1>6. Delivers(x, s) /\ Delivers(x, below) /\ Delivers(d, dbelow)
  BY <1>2, <1>3, <1>4, <1>5, HeldDelivers
<1>7. (Plain(x) => Plain(below)) /\ (Plain(d) => Plain(dbelow))
  BY <1>4, <1>5, HeldPlain
<1>8. Delivers(x, dbelow)
  BY <1>3, <1>6, DeliversTrans
<1>9. PushFaultFrame(x, f) \in {s, below, dbelow}
  BY DEF PushFaultFrame, PushRaw, Push, s, below, dbelow, d, n
<1>10. Refusals(x, x.bad) /\ ~faulted(x) => PushFaultFrame(x, f) = s
  <2>1. ~prefetch_enabled(x) /\ Refusals(x, x.bad) => StackRegion(x.dar.a7 - 1) \notin x.bad
    BY CodeNotData DEF Refusals
  <2>2. prefetch_enabled(x) <=> is_pre_68020(x)
    BY DEF prefetch_enabled, is_pre_68020
  <2> QED BY <2>1, <2>2 DEF PushFaultFrame, PushRaw, Push, s
<1> HIDE DEF Held
<1> QED BY <1>2, <1>3, <1>6, <1>7, <1>8, <1>9, <1>10

LEMMA FullPrefetchDelivers ==
    ASSUME NEW x \in Machine
    PROVE  DeliversPlain(x, FullPrefetch(x, DoubleFault))
<1>0. ASSUME NEW y \in Machine PROVE DeliversPlain(y, y)
  BY DEF DeliversPlain, Delivers, Same
<1>1. ASSUME NEW y \in Machine
      PROVE  DeliversPlain(y, PrefetchFirst(y, DoubleFault))
  <2> DEFINE e == [y EXCEPT !.queue = <<>>]
             q == [e EXCEPT !.queue = <<y.pc>>]
  <2>1. CASE ~prefetch_enabled(y)
    BY <1>0, <2>1 DEF PrefetchFirst
  <2>2. CASE prefetch_enabled(y)
    <3>1. DeliversPlain(y, e) /\ e \in Machine /\ prefetch_enabled(e)
      BY <2>2, QueueTypes, SetQueueDelivers DEF DeliversPlain, Delivers, Same, prefetch_enabled
    <3> HIDE DEF e
    <3>2. DeliversPlain(y, DoubleFault(e))
      BY <3>1, DoubleFaultDelivers, DeliversTrans DEF DeliversPlain
    <3>3. DeliversPlain(y, q)
      BY <3>1, QueueTypes, SetQueueDelivers, DeliversTrans DEF DeliversPlain
    <3> HIDE DEF q
    <3> QED BY <2>2, <3>1, <3>2, <3>3 DEF PrefetchFirst, e, q
  <2> QED BY <2>1, <2>2
<1>2. ASSUME NEW y \in Machine
      PROVE  DeliversPlain(y, PrefetchSecond(y, DoubleFault))
  BY <1>0, QueueTypes, SetQueueDelivers, DoubleFaultDelivers DEF PrefetchSecond, DeliversPlain
<1> DEFINE first == PrefetchFirst(x, DoubleFault)
<1>3. DeliversPlain(x, first) /\ first \in Machine
  BY <1>1 DEF DeliversPlain, Delivers
<1> HIDE DEF first
<1>4. DeliversPlain(x, PrefetchSecond(first, DoubleFault))
  BY <1>2, <1>3, DeliversTrans DEF DeliversPlain
<1> QED BY <1>4 DEF FullPrefetch, first

\* The vector table refused: the double fault that parks the CPU
LEMMA JumpVectorDelivers ==
    ASSUME NEW x \in Machine, NEW v \in Nat
    PROVE  LET y == JumpVector(x, v, DoubleFault)
           IN  /\ Delivers(x, y) /\ (Plain(x) => Plain(y))
               /\ Refusals(x, x.bad) /\ ~faulted(x) =>
                    IF "vec" \in x.bad THEN y.nested /\ y.stopped = 1
                    ELSE /\ y.nested = x.nested /\ y.stopped = x.stopped
                         /\ (prefetch_enabled(x) \/ x.queue = <<>>) => QueueAt(y.queue, y.pc)
<1> DEFINE d == DoubleFault(x)
           h == Handler(v)
           r == IF faulted(x) THEN [x EXCEPT !.pc = 0]
                ELSE IF "vec" \in x.bad THEN [d EXCEPT !.pc = 0]
                ELSE [x EXCEPT !.pc = h]
           y == FullPrefetch(r, DoubleFault)
<1>0. JumpVector(x, v, DoubleFault) = y
  BY DEF JumpVector, r, d, h
<1>1. DeliversPlain(x, d) /\ d \in Machine /\ (~faulted(x) => d.nested /\ d.stopped = 1)
  BY DoubleFaultDelivers DEF DeliversPlain, Delivers
<1> HIDE DEF d
<1>2. h \in Int
  BY ConstantTypes
<1> HIDE DEF h
<1>3. DeliversPlain(x, [d EXCEPT !.pc = 0])
  BY <1>1, SetPcDelivers, DeliversTrans DEF DeliversPlain
<1>4. DeliversPlain(x, [x EXCEPT !.pc = 0]) /\ DeliversPlain(x, [x EXCEPT !.pc = h])
  BY <1>2, SetPcDelivers DEF DeliversPlain
<1>5. DeliversPlain(x, r) /\ r \in Machine
  BY <1>3, <1>4 DEF DeliversPlain, Delivers
<1>6. ASSUME ~faulted(x), "vec" \in x.bad PROVE r.nested /\ r.stopped = 1
  <2>1. r = [d EXCEPT !.pc = 0]
    BY <1>6
  <2>2. Held(d, [d EXCEPT !.pc = 0])
    BY <1>1, SetPcDelivers
  <2> HIDE DEF r
  <2> QED BY <1>1, <1>6, <2>1, <2>2 DEF Held
<1>7. ASSUME ~faulted(x), "vec" \notin x.bad
      PROVE  Held(x, r) /\ r.pc = h
  BY <1>2, <1>7, SetPcDelivers
<1> HIDE DEF r
<1>8. DeliversPlain(r, y) /\ DeliversPlain(x, y)
  BY <1>5, FullPrefetchDelivers, DeliversTrans DEF DeliversPlain
<1>9. ASSUME Refusals(x, x.bad), ~faulted(x), "vec" \in x.bad
      PROVE  y.nested /\ y.stopped = 1
  BY <1>6, <1>8, <1>9 DEF DeliversPlain, Delivers
<1>10. ASSUME Refusals(x, x.bad), ~faulted(x), "vec" \notin x.bad
       PROVE  /\ y.nested = x.nested /\ y.stopped = x.stopped
              /\ (prefetch_enabled(x) \/ x.queue = <<>>) => QueueAt(y.queue, y.pc)
  <2>1. ~faulted(r) /\ Refusals(r, r.bad) /\ (prefetch_enabled(r) <=> prefetch_enabled(x))
    BY <1>7, <1>10 DEF Held, Same, faulted, Refusals, prefetch_enabled
  <2>2. y = Refilled(r)
    BY <1>5, <2>1, PrefetchQuiet
  <2>3. y.nested = r.nested /\ y.stopped = r.stopped
    BY <1>5, <2>2, RefilledFacts
  <2>4. (prefetch_enabled(r) \/ r.queue = <<>>) => QueueAt(y.queue, y.pc)
    BY <1>5, <2>2, RefilledFacts
  <2> HIDE DEF y
  <2>5. r.nested = x.nested /\ r.stopped = x.stopped /\ r.queue = x.queue
    BY <1>7, <1>10 DEF Held
  <2> QED BY <2>1, <2>3, <2>4, <2>5
<1> HIDE DEF y
<1> QED BY <1>0, <1>8, <1>9, <1>10 DEF DeliversPlain

LEMMA BusErrorEntry ==
    ASSUME NEW x \in Machine, ~faulted(x)
    PROVE  LET y == exception_bus_error(x)
           IN  /\ y \in Machine /\ Same(x, y) /\ y.sr.s /\ y.sr \in PlainSR
               /\ Plain(x) => Plain(y)
               /\ x.nested => y.nested
               /\ ~prefetch_enabled(x) => y.queue = x.queue
               /\ Refusals(x, x.bad) =>
                    IF "vec" \in x.bad THEN y.nested /\ y.stopped = 1
                    ELSE /\ y.nested = x.nested /\ y.stopped = x.stopped
                         /\ (prefetch_enabled(x) \/ x.queue = <<>>) => QueueAt(y.queue, y.pc)
<1> DEFINE s == EnterSupervisor(x)
           f == Frame(BusErrorFormat(x), BUS_ERROR, x.ppc, x.sr)
           z == PushFaultFrame(s, f)
           y == JumpVector(z, BUS_ERROR, DoubleFault)
<1>0. exception_bus_error(x) = y
  BY DEF exception_bus_error, s, f, z
<1>1. /\ Held(x, s) /\ s.pc = x.pc /\ s.sr.s /\ s.sr \in PlainSR /\ s.stk = x.stk
      /\ s \in Machine
  BY EnterSupervisorHeld
<1>2. f \in FrameSet /\ f.fmt \in WholeFormats /\ f.sr = x.sr
  <2>1. x.ppc \in Int /\ x.sr \in SR /\ BUS_ERROR \in Nat
    BY DEF Machine, BUS_ERROR
  <2>2. BusErrorFormat(x) \in WholeFormats /\ BusErrorFormat(x) \in Formats
    BY BusErrorFormatType DEF WholeFormats
  <2> QED BY <2>1, <2>2, FrameType DEF Frame
<1> HIDE DEF s, f
<1>3. /\ Delivers(s, z) /\ z \in Machine /\ (Refusals(s, s.bad) /\ ~faulted(s) => Held(s, z))
      /\ Plain(s) /\ f.sr \in PlainSR => Plain(z)
  BY <1>1, <1>2, PushDelivers DEF Delivers
<1>4. Plain(x) => Plain(z)
  <2>1. Plain(x) => Plain(s) /\ f.sr \in PlainSR
    BY <1>1, <1>2, HeldPlain DEF Plain
  <2> QED BY <1>3, <2>1
<1> HIDE DEF z
<1>5. BUS_ERROR \in Nat
  BY DEF BUS_ERROR
<1>6. Delivers(z, y) /\ (Plain(z) => Plain(y))
      /\ (Refusals(z, z.bad) /\ ~faulted(z) =>
                    IF "vec" \in z.bad THEN y.nested /\ y.stopped = 1
                    ELSE /\ y.nested = z.nested /\ y.stopped = z.stopped
                         /\ (prefetch_enabled(z) \/ z.queue = <<>>) => QueueAt(y.queue, y.pc))
  BY <1>3, <1>5, JumpVectorDelivers
<1> HIDE DEF y
<1>7. Delivers(s, y)
  BY <1>3, <1>6, DeliversTrans
<1>8. /\ y \in Machine /\ Same(x, y) /\ y.sr.s /\ y.sr \in PlainSR /\ (x.nested => y.nested)
      /\ ~prefetch_enabled(x) => y.queue = x.queue
  <2>1. Same(x, s) /\ Same(s, y)
    BY <1>1, <1>7 DEF Held, Delivers
  <2>2. Same(x, y)
    BY <2>1, SameTrans
  <2>3. prefetch_enabled(x) <=> prefetch_enabled(s)
    BY <2>1 DEF Same, prefetch_enabled
  <2> QED BY <1>1, <1>7, <2>2, <2>3 DEF Held, Delivers
<1>9. ASSUME Refusals(x, x.bad)
      PROVE  IF "vec" \in x.bad THEN y.nested /\ y.stopped = 1
             ELSE /\ y.nested = x.nested /\ y.stopped = x.stopped
                  /\ (prefetch_enabled(x) \/ x.queue = <<>>) => QueueAt(y.queue, y.pc)
  <2>1. Refusals(s, s.bad) /\ ~faulted(s) /\ s.bad = x.bad
        /\ (prefetch_enabled(x) <=> prefetch_enabled(s))
    BY <1>1, <1>9 DEF Held, Same, faulted, Refusals, prefetch_enabled
  <2>2. Held(s, z)
    BY <1>3, <2>1
  <2>3. Refusals(z, z.bad) /\ ~faulted(z) /\ z.bad = x.bad
        /\ (prefetch_enabled(x) <=> prefetch_enabled(z))
    BY <2>1, <2>2 DEF Held, Same, faulted, Refusals, prefetch_enabled
  <2>4. z.nested = x.nested /\ z.stopped = x.stopped /\ z.queue = x.queue
    BY <1>1, <2>2 DEF Held
  <2> QED BY <1>6, <2>3, <2>4
<1> QED BY <1>0, <1>4, <1>6, <1>8, <1>9

----------------------------------------------------------------------------
(* trigger_bus_error *)

LEMMA RollbackHeld ==
    ASSUME NEW x \in Machine
    PROVE  LET r == Rollback(x)
           IN  /\ Held(x, r) /\ r.pc = x.pc /\ r \in Machine
               /\ Plain(x) => Plain(r)
<1> DEFINE sr == SrMasked(x, x.sr_save)
           r == [x EXCEPT !.sr = sr, !.dar = x.dar_save]
<1>1. x.sr_save \in SR /\ sr \in SR /\ (x.sr_save \in PlainSR => sr \in PlainSR)
  BY SrMaskedType, SrMaskedKeepsS DEF Machine
<1> HIDE DEF sr
<1>2. Rollback(x) = r
  BY DEF Rollback, set_sr_noint_nosp, sr, Machine
<1>3. Held(x, r) /\ r.pc = x.pc /\ r.sr = sr /\ r.stk = x.stk
  BY DEF Machine, Held, Same
<1>4. r \in Machine
  BY <1>2, RollbackKeeps DEF Keeps
<1> HIDE DEF r
<1>5. Plain(x) => Plain(r)
  BY <1>1, <1>3, HeldPlain DEF Plain
<1> QED BY <1>2, <1>3, <1>4, <1>5

LEMMA ResumeIsOne ==
    ASSUME NEW x \in Machine
    PROVE  /\ Resume(x) # NoResume /\ Resume(x).sr = x.sr /\ Resume(x).pc = x.pc
<1>1. DOMAIN Resume(x) = {"pc", "sr", "dar"} /\ DOMAIN NoResume = {"pc"}
  BY DEF Resume, NoResume
<1> QED BY <1>1 DEF Resume, get_sr

\* Where a fault may strike: with nothing but the vectors refused it ends in the
\* halt, otherwise an instruction is running
Strikes(x) == Good(x) /\ ~faulted(x) =>
                  "vec" \in x.bad \/ (~x.exception_processing /\ x.stopped = 0)

LEMMA DoubleFaultGoes ==
    ASSUME NEW x, Ok(x), ~faulted(x), x.exception_processing
    PROVE  LET y == DoubleFault(x)
           IN  Safely(x, y) /\ y.nested /\ (Strikes(x) => Settles(x, y))
<1> DEFINE y == DoubleFault(x)
<1>1. /\ Delivers(x, y) /\ faulted(y) /\ y.fault_resume = x.fault_resume
      /\ y.nested /\ y.stopped = 1 /\ (Plain(x) => Plain(y))
  BY DoubleFaultDelivers DEF Ok
<1> HIDE DEF y
<1>2. Fine(y) /\ y.sr.s
  BY <1>1 DEF Ok, Fine, Delivers, Same, prefetch_enabled
<1>3. Settled(y)
  BY <1>1 DEF Settled, is_halted, faulted
<1>4. Strikes(x) /\ Good(x) => "vec" \in x.bad
  BY DEF Strikes
<1>5. y \in Machine /\ Same(x, y)
  BY <1>1 DEF Delivers
<1> QED BY <1>1, <1>2, <1>3, <1>4, <1>5 DEF Goes, Safely, Reaches, Settles, Ok, y

LEMMA TriggerGoes ==
    ASSUME NEW x, Ok(x)
    PROVE  LET y == trigger_bus_error(x)
           IN  /\ Safely(x, y) /\ faulted(y)
               /\ Strikes(x) => Settles(x, y)
               /\ ~faulted(x) => y.sr.s
               /\ ~faulted(x) /\ ~x.exception_processing => y.fault_resume # NoResume
               /\ x.exception_processing => y.fault_resume = x.fault_resume
               /\ Good(x) /\ ~faulted(x) /\ "vec" \in x.bad => y.nested
<1>m. x \in Machine /\ Fine(x)
  BY DEF Ok
<1>1. CASE faulted(x)
  <2>1. trigger_bus_error(x) = x
    BY <1>1 DEF trigger_bus_error
  <2> QED BY <1>1, <2>1, GoesRefl DEF Goes
<1>2. CASE ~faulted(x) /\ x.exception_processing
  <2>1. trigger_bus_error(x) = DoubleFault(x)
    BY <1>2 DEF trigger_bus_error
  <2>2. /\ faulted(DoubleFault(x)) /\ DoubleFault(x).sr = x.sr
        /\ DoubleFault(x).fault_resume = x.fault_resume
    BY <1>m, DoubleFaultDelivers DEF Delivers
  <2> QED BY <1>2, <1>m, <2>1, <2>2, DoubleFaultGoes DEF Fine
<1>3. CASE ~faulted(x) /\ ~x.exception_processing
  <2> DEFINE r == Rollback(x)
             b == [r EXCEPT !.exception_processing = TRUE]
             y == exception_bus_error(b)
             res == Resume(y)
             t == [y EXCEPT !.exception_processing = FALSE,
                            !.fault_resume = res, !.run_mode = Fault]
  <2>0. trigger_bus_error(x) = t
    BY <1>3 DEF trigger_bus_error, Delivered, r, b, y, res
  <2>1. Held(x, r) /\ r \in Machine /\ (Plain(x) => Plain(r))
    BY <1>m, RollbackHeld
  <2> HIDE DEF r
  <2>2. /\ b \in Machine /\ b.cpu_type = r.cpu_type /\ b.prog = r.prog /\ b.bad = r.bad
        /\ b.int_level = r.int_level /\ b.run_mode = r.run_mode /\ b.stopped = r.stopped
        /\ b.nested = r.nested /\ b.queue = r.queue
        /\ b.sr = r.sr /\ b.sr_save = r.sr_save /\ b.fault_resume = r.fault_resume
        /\ b.stk = r.stk
    BY <2>1 DEF Machine
  <2> HIDE DEF b
  <2>3. /\ b.cpu_type = x.cpu_type /\ b.prog = x.prog /\ b.bad = x.bad
        /\ b.int_level = x.int_level /\ b.stopped = x.stopped
        /\ b.nested = x.nested /\ b.queue = x.queue /\ ~faulted(b)
        /\ Plain(x) => Plain(b)
    <3>1. Plain(r) => Plain(b)
      BY <2>2 DEF Plain
    <3> QED BY <1>3, <2>1, <2>2, <3>1 DEF Held, Same, faulted
  <2>4. /\ y \in Machine /\ Same(b, y) /\ y.sr.s /\ y.sr \in PlainSR
        /\ Plain(b) => Plain(y)
        /\ b.nested => y.nested
        /\ ~prefetch_enabled(b) => y.queue = b.queue
        /\ Refusals(b, b.bad) =>
              IF "vec" \in b.bad THEN y.nested /\ y.stopped = 1
              ELSE /\ y.nested = b.nested /\ y.stopped = b.stopped
                   /\ (prefetch_enabled(b) \/ b.queue = <<>>) => QueueAt(y.queue, y.pc)
    BY <2>2, <2>3, BusErrorEntry
  <2> HIDE DEF y
  <2>5. res # NoResume /\ res.sr = y.sr /\ res.pc = y.pc
    BY <2>4, ResumeIsOne
  <2> HIDE DEF res
  <2>6. /\ t.cpu_type = y.cpu_type /\ t.prog = y.prog /\ t.bad = y.bad
        /\ t.int_level = y.int_level /\ t.stopped = y.stopped /\ t.nested = y.nested
        /\ t.queue = y.queue /\ t.sr = y.sr /\ t.sr_save = y.sr_save /\ t.stk = y.stk
        /\ t.exception_processing = FALSE /\ t.fault_resume = res /\ t.run_mode = Fault
    BY <2>4 DEF Machine
  <2>7. t \in Machine
    BY <1>m, <2>0, TriggerBusErrorKeeps DEF Keeps
  <2> HIDE DEF t
  <2>8. x.exception_processing = FALSE
    BY <1>3, <1>m DEF Machine
  <2>9. Same(x, t)
    BY <2>3, <2>4, <2>6, <2>8 DEF Same
  <2>10. prefetch_enabled(b) <=> prefetch_enabled(x)
    BY <2>3 DEF prefetch_enabled
  <2>11. Fine(t)
    <3>1. ~prefetch_enabled(t) => t.queue = <<>>
      BY <1>m, <2>3, <2>4, <2>6, <2>9, <2>10 DEF Fine, Same, prefetch_enabled
    <3> QED BY <2>4, <2>5, <2>6, <3>1 DEF Fine
  <2>12. Plain(x) => Plain(t)
    BY <2>3, <2>4, <2>5, <2>6 DEF Plain
  <2>13. faulted(t) /\ t.sr.s /\ t.fault_resume # NoResume /\ (x.nested => t.nested)
    BY <2>3, <2>4, <2>5, <2>6 DEF faulted
  <2>14. ASSUME Good(x), Strikes(x)
         PROVE  /\ Settled(t) /\ (t.nested => x.nested \/ "vec" \in x.bad)
                /\ x.stopped = 0 => t.stopped = 0 \/ t.nested
    <3>1. Refusals(b, b.bad) /\ (prefetch_enabled(b) \/ b.queue = <<>>)
      BY <1>m, <2>3, <2>10, <2>14 DEF Good, Refusals, Fine
    <3>2. CASE "vec" \in x.bad
      <4>1. t.nested /\ t.stopped = 1
        BY <2>3, <2>4, <2>6, <3>1, <3>2
      <4> QED BY <2>13, <3>2, <4>1 DEF Settled, is_halted, faulted
    <3>3. CASE "vec" \notin x.bad
      <4>1. /\ t.nested = x.nested /\ t.stopped = x.stopped
            /\ QueueAt(t.queue, t.fault_resume.pc)
        BY <2>3, <2>4, <2>5, <2>6, <3>1, <3>3
      <4>2. x.stopped = 0 /\ ~x.nested
        BY <1>3, <2>14, <3>3 DEF Strikes, Good, Settled, is_halted
      <4> QED BY <2>13, <3>3, <4>1, <4>2 DEF Settled, is_halted, faulted
    <3> QED BY <3>2, <3>3
  <2>15. Good(x) /\ "vec" \in x.bad => t.nested
    <3>1. Refusals(x, x.bad) => Refusals(b, b.bad)
      BY <2>3, <2>10 DEF Refusals
    <3> QED BY <2>3, <2>4, <2>6, <3>1 DEF Good
  <2> QED BY <1>3, <2>0, <2>7, <2>9, <2>11, <2>12, <2>13, <2>14, <2>15 DEF Goes, Safely, Reaches, Settles, Ok
<1> QED BY <1>1, <1>2, <1>3

----------------------------------------------------------------------------
(* Pushes, the vector fetch and the prefetch outside a bus error's delivery *)

LEMMA HeldReaches ==
    ASSUME NEW x, NEW y, Ok(x), y \in Machine, Held(x, y), y.pc = x.pc, x.sr.s => y.sr.s
    PROVE  Reaches(x, y) /\ Settles(x, y)
<1>1. Fine(y)
  BY DEF Ok, Fine, Held, Same, faulted, prefetch_enabled
<1>2. Settled(x) => Settled(y)
  BY DEF Settled, Held, Same, faulted, is_halted
<1> QED BY <1>1, <1>2 DEF Reaches, Settles, Ok, Held, Good, faulted

LEMMA PushFrameGoes ==
    ASSUME NEW x, Ok(x), NEW f \in FrameSet, f.fmt \in WholeFormats
    PROVE  LET y == PushFrame(x, f)
           IN  /\ Reaches(x, y) /\ Settles(x, y)
               /\ Plain(x) /\ f.sr \in PlainSR => Plain(y)
               /\ Refusals(x, x.bad) => Held(x, y)
<1>m. x \in Machine
  BY DEF Ok
<1> DEFINE n == FrameBytes(x, f.fmt)
           d == trigger_bus_error(x)
           below == [x EXCEPT !.dar.a7 = @ - n]
           dbelow == [d EXCEPT !.dar.a7 = @ - n]
<1>1. n \in Int
  BY FrameBytesType
<1> HIDE DEF n
<1>2. ASSUME NEW y, Ok(y)
      PROVE  LET z == [y EXCEPT !.dar.a7 = @ - n]
             IN  Goes(y, z) /\ Held(y, z) /\ z.sr = y.sr
  <2> DEFINE z == [y EXCEPT !.dar.a7 = @ - n]
  <2>1. Held(y, z) /\ z.pc = y.pc /\ z.sr = y.sr /\ z.stk = y.stk /\ z \in Machine
    BY <1>1, <1>2, MoveA7Held DEF Ok
  <2> HIDE DEF z
  <2>2. Plain(y) => Plain(z)
    BY <2>1, HeldPlain
  <2>3. Goes(y, z)
    BY <1>2, <2>1, <2>2, HeldGoes
  <2> QED BY <2>1, <2>3 DEF z
<1>3. CASE faulted(x)
  BY <1>2, <1>3 DEF PushFrame, Push, n, Goes, Safely
<1>4. CASE ~faulted(x) /\ StackRegion(x.dar.a7 - 1) \in x.bad
  <2>1. ~Refusals(x, x.bad)
    <3>1. StackRegion(x.dar.a7 - 1) \in Stacks /\ "data" \notin Stacks
      BY CodeNotData DEF Stacks
    <3> QED BY <1>4, <3>1 DEF Refusals
  <2>2. Goes(x, d) /\ Ok(d)
    BY <2>1, TriggerGoes DEF Goes, Safely, Reaches, Settles, Good
  <2> HIDE DEF d
  <2>3. Goes(x, dbelow)
    BY <1>2, <2>2, GoesTrans
  <2> QED BY <1>4, <2>1, <2>3 DEF PushFrame, Push, n, d, Goes, Safely
<1>5. CASE ~faulted(x) /\ StackRegion(x.dar.a7 - 1) \notin x.bad
  <2> DEFINE y == Store(x, f)
  <2>1. PushFrame(x, f) = y
    BY <1>5 DEF PushFrame, Push
  <2>2. /\ Held(x, y) /\ y.pc = x.pc /\ y.sr = x.sr
        /\ y \in Machine /\ (Plain(x) /\ f.sr \in PlainSR => Plain(y))
    BY <1>m, StoreHeld
  <2> HIDE DEF y
  <2>3. Reaches(x, y) /\ Settles(x, y)
    BY <2>2, HeldReaches
  <2> QED BY <2>1, <2>2, <2>3
<1> QED BY <1>3, <1>4, <1>5

LEMMA SafelyTrans ==
    ASSUME NEW x, NEW y, NEW z, Safely(x, y), Safely(y, z)
    PROVE  Safely(x, z)
<1>1. Same(x, z)
  BY SameTrans DEF Safely, Reaches
<1> QED BY <1>1 DEF Safely, Reaches

\* Settled but for the queue of a PC that has just changed
Unfilled(x) ==
    /\ x.nested <=> is_halted(x)
    /\ ~faulted(x) => x.fault_resume = NoResume
    /\ faulted(x) /\ x.stopped = 0 =>
          x.fault_resume # NoResume /\ QueueAt(x.queue, x.fault_resume.pc)

\* The same run state
Steady(x, y) ==
    /\ y.run_mode = x.run_mode /\ y.stopped = x.stopped /\ y.nested = x.nested
    /\ y.fault_resume = x.fault_resume

LEMMA HeldSteady ==
    ASSUME NEW x, NEW y, Held(x, y)
    PROVE  Steady(x, y)
  BY DEF Held, Steady

LEMMA HeldUnfilled ==
    ASSUME NEW x, NEW y, Held(x, y), Settled(x) \/ Unfilled(x)
    PROVE  Unfilled(y)
  BY DEF Held, Unfilled, Settled, is_halted, faulted

LEMMA HeldRefusals ==
    ASSUME NEW x, NEW y, Same(x, y)
    PROVE  /\ Refusals(x, x.bad) <=> Refusals(y, y.bad)
           /\ prefetch_enabled(x) <=> prefetch_enabled(y)
  BY DEF Same, Refusals, prefetch_enabled

LEMMA HeldSafely ==
    ASSUME NEW x, NEW y, Ok(x), y \in Machine, Held(x, y),
           x.sr.s => y.sr.s, Plain(x) => Plain(y)
    PROVE  Safely(x, y)
<1>1. Fine(y)
  BY DEF Ok, Fine, Held, Same, faulted, prefetch_enabled
<1> QED BY <1>1 DEF Safely, Reaches, Ok, Held, faulted

LEMMA SetQueueSafely ==
    ASSUME NEW x, Ok(x), prefetch_enabled(x), NEW q \in Seq(Int)
    PROVE  LET y == [x EXCEPT !.queue = q]
           IN  /\ Safely(x, y) /\ Steady(x, y) /\ y.queue = q /\ y.pc = x.pc
<1> DEFINE y == [x EXCEPT !.queue = q]
<1>1. /\ Same(x, y) /\ y.sr = x.sr /\ y.stk = x.stk /\ y.nested = x.nested
      /\ y.stopped = x.stopped /\ y.fault_resume = x.fault_resume /\ y.sr_save = x.sr_save
      /\ y.run_mode = x.run_mode /\ y.queue = q /\ y.pc = x.pc
  BY DEF Ok, Machine, Same
<1>2. y \in Machine
  BY SetQueueKeeps DEF Keeps, Ok
<1> HIDE DEF y
<1>3. Fine(y)
  BY <1>1 DEF Ok, Fine, Same, faulted, prefetch_enabled
<1>4. Plain(x) => Plain(y)
  BY <1>1 DEF Plain
<1>5. Steady(x, y)
  BY <1>1 DEF Steady
<1> QED BY <1>1, <1>2, <1>3, <1>4, <1>5 DEF Safely, Reaches, Ok, faulted, y

LEMMA RefillSafely ==
    ASSUME NEW x, Ok(x)
    PROVE  LET y == full_prefetch(x)
           IN  /\ Safely(x, y)
               /\ Refusals(x, x.bad) /\ Unfilled(x) /\ (prefetch_enabled(x) => ~faulted(x))
                  => Settled(y) /\ Steady(x, y)
<1>m. x \in Machine
  BY DEF Ok
<1>r. ASSUME NEW y, Ok(y) PROVE Safely(y, y)
  BY <1>r, GoesRefl DEF Goes
<1>q. ASSUME NEW y, Ok(y) PROVE Safely(y, trigger_bus_error(y))
  BY <1>q, TriggerGoes
<1>1. Safely(x, full_prefetch(x))
  <2>1. ASSUME NEW y, Ok(y) PROVE Safely(y, prefetch_first(y))
    <3> DEFINE e == [y EXCEPT !.queue = <<>>]
               q == [e EXCEPT !.queue = <<y.pc>>]
    <3>1. CASE prefetch_enabled(y)
      <4>1. Safely(y, e) /\ Ok(e) /\ prefetch_enabled(e)
        BY <2>1, <3>1, QueueTypes, SetQueueSafely DEF Ok, Safely, Reaches, Same, prefetch_enabled
      <4> HIDE DEF e
      <4>2. Safely(y, trigger_bus_error(e))
        BY <4>1, <1>q, SafelyTrans
      <4>3. <<y.pc>> \in Seq(Int)
        BY <2>1, QueueTypes DEF Ok
      <4>4. Safely(y, q)
        BY <4>1, <4>3, SetQueueSafely, SafelyTrans
      <4> HIDE DEF q
      <4> QED BY <3>1, <4>1, <4>2, <4>4 DEF prefetch_first, PrefetchFirst, e, q
    <3>2. CASE ~prefetch_enabled(y)
      BY <2>1, <3>2, <1>r DEF prefetch_first, PrefetchFirst
    <3> QED BY <3>1, <3>2
  <2>2. ASSUME NEW y, Ok(y) PROVE Safely(y, prefetch_second(y))
    <3>1. prefetch_enabled(y) => Safely(y, [y EXCEPT !.queue = Append(@, y.pc + 2)])
      BY <2>2, QueueTypes, SetQueueSafely DEF Ok
    <3> QED BY <2>2, <3>1, <1>r, <1>q DEF prefetch_second, PrefetchSecond
  <2> DEFINE first == prefetch_first(x)
  <2>3. Safely(x, first) /\ Ok(first)
    BY <2>1 DEF Safely, Reaches
  <2> HIDE DEF first
  <2>4. Safely(x, prefetch_second(first))
    BY <2>2, <2>3, SafelyTrans
  <2> QED BY <2>4 DEF full_prefetch, first
<1>2. ASSUME Refusals(x, x.bad), Unfilled(x), prefetch_enabled(x) => ~faulted(x)
      PROVE  Settled(full_prefetch(x)) /\ Steady(x, full_prefetch(x))
  <2>1. CASE ~prefetch_enabled(x)
    <3>1. full_prefetch(x) = x
      BY <2>1 DEF full_prefetch, prefetch_first, prefetch_second, PrefetchFirst, PrefetchSecond
    <3>2. x.queue = <<>>
      BY <2>1 DEF Ok, Fine
    <3>3. QueueAt(x.queue, x.pc)
      BY <3>2 DEF QueueAt
    <3> QED BY <1>2, <3>1, <3>3 DEF Settled, Unfilled, Steady
  <2>2. CASE prefetch_enabled(x)
    <3> DEFINE y == Refilled(x)
    <3>1. full_prefetch(x) = y
      BY <1>m, <1>2, <2>2, PrefetchQuiet
    <3>2. /\ y.run_mode = x.run_mode /\ y.stopped = x.stopped /\ y.nested = x.nested
          /\ y.fault_resume = x.fault_resume /\ QueueAt(y.queue, y.pc)
      BY <1>m, <2>2, RefilledFacts
    <3> HIDE DEF y
    <3> QED BY <1>2, <2>2, <3>1, <3>2 DEF Settled, Unfilled, Steady, is_halted, faulted
  <2> QED BY <2>1, <2>2
<1> QED BY <1>1, <1>2

\* With the queue nothing but data is refused, and no fault is met by a jump
Unhurt(x) == StacksMapped /\ Refusals(x, x.bad) /\ prefetch_enabled(x) => ~faulted(x)

\* Good but for the queue
Ready(x) == StacksMapped /\ Refusals(x, x.bad) /\ Unfilled(x)

LEMMA ReadyGood ==
    ASSUME NEW x, Ok(x)
    PROVE  /\ Good(x) => Ready(x)
           /\ Ready(x) /\ ~prefetch_enabled(x) => Good(x)
<1>1. ~prefetch_enabled(x) => QueueAt(x.queue, x.pc)
  <2>1. QueueAt(<<>>, x.pc)
    BY DEF QueueAt
  <2> QED BY <2>1 DEF Ok, Fine
<1>2. ~prefetch_enabled(x) => QueueAt(x.queue, x.fault_resume.pc)
  <2>1. QueueAt(<<>>, x.fault_resume.pc)
    BY DEF QueueAt
  <2> QED BY <2>1 DEF Ok, Fine
<1> QED BY <1>1, <1>2 DEF Good, Ready, Settled, Unfilled

\* What a vector taken leaves: the machine as it was or, the vectors refused, the halt
Taken(x, y) ==
    Ready(x) => /\ Settled(y)
                /\ Steady(x, y) \/ (~faulted(x) /\ "vec" \in x.bad /\ y.nested)

LEMMA TakenSettles ==
    ASSUME NEW x, NEW y, Ok(x), Taken(x, y)
    PROVE  Settles(x, y)
  BY ReadyGood DEF Taken, Settles, Steady

LEMMA JumpVectorGoes ==
    ASSUME NEW x, Ok(x), Unhurt(x), NEW v \in Nat
    PROVE  LET y == jump_vector(x, v)
           IN  /\ Safely(x, y) /\ Taken(x, y)
               /\ Ready(x) /\ ~faulted(x) /\ "vec" \in x.bad => y.nested
               /\ Ready(x) /\ x.exception_processing => y.fault_resume = x.fault_resume
<1>m. x \in Machine
  BY DEF Ok
<1>0. ASSUME NEW b, Ok(b), NEW pc \in Int
      PROVE  LET r == [b EXCEPT !.pc = pc]
                 y == full_prefetch(r)
             IN  /\ Safely(b, y)
                 /\ Ready(b) /\ Unhurt(b) => Settled(y) /\ Steady(b, y)
  <2> DEFINE r == [b EXCEPT !.pc = pc]
             y == full_prefetch(r)
  <2>1. Held(b, r) /\ r.sr = b.sr /\ r \in Machine /\ (Plain(b) => Plain(r))
    BY <1>0, SetPcDelivers DEF Ok
  <2> HIDE DEF r
  <2>2. Safely(b, r) /\ Ok(r)
    BY <1>0, <2>1, HeldSafely DEF Safely, Reaches
  <2>3. Safely(b, y)
    BY <2>2, RefillSafely, SafelyTrans
  <2>4. ASSUME Ready(b), Unhurt(b) PROVE Settled(y) /\ Steady(b, y)
    <3>1. Refusals(r, r.bad) /\ (prefetch_enabled(r) <=> prefetch_enabled(b))
      BY <2>1, <2>4, HeldRefusals DEF Held, Ready
    <3>2. Unfilled(r)
      BY <2>1, <2>4, HeldUnfilled DEF Ready
    <3>3. prefetch_enabled(r) => ~faulted(r)
      BY <2>1, <2>4, <3>1 DEF Unhurt, Held, faulted, Ready
    <3>4. Settled(y) /\ Steady(r, y)
      BY <2>2, <3>1, <3>2, <3>3, RefillSafely
    <3> QED BY <2>1, <3>4, HeldSteady DEF Steady
  <2> QED BY <2>3, <2>4 DEF r
<1> DEFINE d == trigger_bus_error(x)
           h == Handler(v)
<1>1. Safely(x, d) /\ (Strikes(x) => Settles(x, d))
      /\ (Good(x) /\ ~faulted(x) /\ "vec" \in x.bad => d.nested)
      /\ (x.exception_processing => d.fault_resume = x.fault_resume)
  BY TriggerGoes
<1> HIDE DEF d
<1>2. h \in Int
  BY ConstantTypes
<1> HIDE DEF h
<1>3. CASE faulted(x) \/ "vec" \notin x.bad
  <2> DEFINE pc == IF faulted(x) THEN 0 ELSE h
             y == full_prefetch([x EXCEPT !.pc = pc])
  <2>1. jump_vector(x, v) = y
    BY <1>3 DEF jump_vector, JumpVector, FullPrefetch, full_prefetch, prefetch_first,
                prefetch_second, h
  <2>2. pc \in Int
    BY <1>2
  <2> HIDE DEF pc
  <2>3. Safely(x, y) /\ (Ready(x) => Settled(y) /\ Steady(x, y))
    BY <1>0, <2>2
  <2> HIDE DEF y
  <2> QED BY <1>3, <2>1, <2>3 DEF Taken, Steady
<1>4. CASE ~faulted(x) /\ "vec" \in x.bad
  <2> DEFINE y == full_prefetch([d EXCEPT !.pc = 0])
  <2>1. jump_vector(x, v) = y
    BY <1>4 DEF jump_vector, JumpVector, FullPrefetch, full_prefetch, prefetch_first,
                prefetch_second, d
  <2>2. Ok(d)
    BY <1>1 DEF Safely, Reaches
  <2>3. Safely(d, y) /\ (Ready(d) /\ Unhurt(d) => Settled(y) /\ Steady(d, y))
    BY <1>0, <2>2
  <2> HIDE DEF y
  <2>4. Safely(x, y)
    BY <1>1, <2>3, SafelyTrans
  <2>5. ASSUME Ready(x)
        PROVE  /\ Settled(y) /\ y.nested
               /\ x.exception_processing => y.fault_resume = x.fault_resume
    <3>1. ~prefetch_enabled(x) /\ (prefetch_enabled(x) <=> prefetch_enabled(d))
      BY <1>1, <1>4, <2>5, HeldRefusals DEF Ready, Refusals, Safely, Reaches
    <3>2. Good(x)
      BY <2>5, <3>1, ReadyGood
    <3>3. Settles(x, d) /\ d.nested
      BY <1>1, <1>4, <3>2 DEF Strikes
    <3>4. Ready(d)
      BY <1>1, <2>2, <3>2, <3>3, SameGood, ReadyGood DEF Safely, Reaches, Settles
    <3> QED BY <1>1, <2>3, <3>1, <3>3, <3>4 DEF Unhurt, Steady
  <2> QED BY <1>4, <2>1, <2>4, <2>5 DEF Taken
<1> QED BY <1>3, <1>4

LEMMA TopUpGoes ==
    ASSUME NEW x, Ok(x)
    PROVE  LET y == top_up_prefetch(x)
           IN  Goes(x, y) /\ (Refusals(x, x.bad) => Steady(x, y))
<1>1. ASSUME NEW y, Ok(y)
      PROVE  LET z == top_up_prefetch_one(y)
             IN  Goes(y, z) /\ (Refusals(y, y.bad) => Steady(y, z))
  <2> DEFINE at == y.pc + 2 * Len(y.queue)
             q == Append(y.queue, at)
             z == [y EXCEPT !.queue = q]
  <2>m. y \in Machine
    BY <1>1 DEF Ok
  <2>r. Goes(y, y) /\ Steady(y, y)
    BY <1>1, GoesRefl DEF Steady
  <2>1. CASE ~prefetch_enabled(y) \/ Odd(y.pc) \/ Len(y.queue) >= 2 \/ faulted(y)
    BY <2>1, <2>r DEF top_up_prefetch_one
  <2>2. CASE /\ ~(~prefetch_enabled(y) \/ Odd(y.pc) \/ Len(y.queue) >= 2 \/ faulted(y))
             /\ CodeRegion(at) \in y.bad
    <3>1. ~Refusals(y, y.bad)
      BY <2>2, CodeNotData DEF Refusals
    <3> QED BY <1>1, <2>2, <3>1, TriggerGoes DEF top_up_prefetch_one, Goes, Settles, Good
  <2>3. CASE /\ ~(~prefetch_enabled(y) \/ Odd(y.pc) \/ Len(y.queue) >= 2 \/ faulted(y))
             /\ CodeRegion(at) \notin y.bad
    <3>1. top_up_prefetch_one(y) = z
      BY <2>3 DEF top_up_prefetch_one
    <3>2. q \in Seq(Int)
      BY <2>m, QueueTypes
    <3>3. y.queue \in Seq(Int) /\ y.pc \in Int /\ at \in Int
      BY <2>m DEF Machine
    <3>4. QueueAt(y.queue, y.pc) => QueueAt(q, y.pc)
      <4>1. Len(y.queue) \in Nat /\ Len(y.queue) < 2 /\ Len(q) = Len(y.queue) + 1
        BY <2>3, <3>3
      <4> SUFFICES ASSUME QueueAt(y.queue, y.pc), NEW k \in 1..Len(q)
                   PROVE  q[k] = y.pc + 2 * (k - 1)
        BY <4>1 DEF QueueAt
      <4>2. CASE k = Len(y.queue) + 1
        BY <3>3, <4>1, <4>2
      <4>3. CASE k \in 1..Len(y.queue)
        BY <3>3, <4>3 DEF QueueAt
      <4> QED BY <4>1, <4>2, <4>3
    <3> HIDE DEF q, at
    <3>5. Safely(y, z) /\ Steady(y, z) /\ z.queue = q /\ z.pc = y.pc
      BY <1>1, <2>3, <3>2, SetQueueSafely
    <3> HIDE DEF z
    <3>6. Settled(y) => Settled(z)
      BY <2>3, <3>4, <3>5 DEF Settled, Steady, is_halted, faulted
    <3> QED BY <3>1, <3>5, <3>6 DEF Goes, Settles, Good, Steady
  <2> QED BY <2>1, <2>2, <2>3
<1> DEFINE a == top_up_prefetch_one(x)
           b == top_up_prefetch_one(a)
<1>2. Goes(x, a) /\ Ok(a) /\ (Refusals(x, x.bad) => Steady(x, a))
  BY <1>1 DEF Goes, Safely, Reaches
<1>3. Refusals(x, x.bad) => Refusals(a, a.bad)
  BY <1>2, HeldRefusals DEF Goes, Safely, Reaches
<1> HIDE DEF a
<1>4. Goes(x, b) /\ (Refusals(x, x.bad) => Steady(a, b))
  BY <1>1, <1>2, <1>3, GoesTrans
<1> HIDE DEF b
<1>5. Refusals(x, x.bad) => Steady(x, b)
  BY <1>2, <1>4 DEF Steady
<1>6. Goes(x, x) /\ Steady(x, x)
  BY GoesRefl DEF Steady
<1> QED BY <1>4, <1>5, <1>6 DEF top_up_prefetch, a, b

----------------------------------------------------------------------------
(* Exceptions, interrupts and the end of a faulted instruction *)

\* Entering an exception: supervisor state, then a frame of the old SR
LEMMA EnterGoes ==
    ASSUME NEW x, Ok(x)
    PROVE  LET s == EnterSupervisor(x)
           IN  Goes(x, s) /\ Held(x, s) /\ s.pc = x.pc /\ s.sr.s /\ s \in Machine
<1> DEFINE s == EnterSupervisor(x)
<1>1. /\ Held(x, s) /\ s.pc = x.pc /\ s.sr.s /\ s.sr \in PlainSR
      /\ s.stk = x.stk /\ s \in Machine
  BY EnterSupervisorHeld DEF Ok
<1> HIDE DEF s
<1>2. Plain(x) => Plain(s)
  BY <1>1, HeldPlain
<1> QED BY <1>1, <1>2, HeldGoes DEF s

LEMMA TriggerAddressErrorGoes ==
    ASSUME NEW x, Ok(x), ~x.exception_processing
    PROVE  LET y == trigger_address_error(x)
           IN  /\ Safely(x, y) /\ faulted(y)
               /\ Strikes(x) => Settles(x, y)
               /\ ~faulted(x) => y.fault_resume # NoResume
<1>m. x \in Machine /\ Fine(x)
  BY DEF Ok
<1>1. CASE faulted(x)
  <2>1. trigger_address_error(x) = x
    BY <1>1 DEF trigger_address_error
  <2> QED BY <1>1, <2>1, GoesRefl DEF Goes
<1>2. CASE ~faulted(x)
  <2> DEFINE r == Rollback(x)
             s == EnterSupervisor(r)
             f == Frame(AddressErrorFormat(r), ADDRESS_ERROR, r.ppc, r.sr)
             z == Store(s, f)
             j == jump_vector(z, ADDRESS_ERROR)
             res == Resume(j)
             nest == j.nested \/ faulted(j)
             t == [j EXCEPT !.fault_resume = res, !.run_mode = Fault, !.nested = nest]
  <2>0. trigger_address_error(x) = t
    BY <1>2 DEF trigger_address_error, exception_address_error, AddressErrorDelivered,
                PushRaw, r, s, f, z, j, res, nest
  <2>1. Held(x, r) /\ r.pc = x.pc /\ r \in Machine /\ (Plain(x) => Plain(r))
    BY <1>m, RollbackHeld
  <2> HIDE DEF r
  <2>2. /\ Held(r, s) /\ s.pc = r.pc /\ s.sr.s /\ s.sr \in PlainSR
        /\ s.stk = r.stk /\ s \in Machine
    BY <2>1, EnterSupervisorHeld
  <2> HIDE DEF s
  <2>3. f \in FrameSet /\ f.fmt \in WholeFormats /\ f.sr = r.sr
    <3>1. r.ppc \in Int /\ r.sr \in SR /\ ADDRESS_ERROR \in Nat
      BY <2>1 DEF Machine, ADDRESS_ERROR
    <3>2. AddressErrorFormat(r) \in WholeFormats /\ AddressErrorFormat(r) \in Formats
      BY <2>1, BusErrorFormatType DEF WholeFormats
    <3> QED BY <3>1, <3>2, FrameType DEF Frame
  <2> HIDE DEF f
  <2>4. /\ Held(s, z) /\ z.pc = s.pc /\ z.sr = s.sr /\ z \in Machine
        /\ Plain(s) /\ f.sr \in PlainSR => Plain(z)
    BY <2>2, <2>3, StoreHeld
  <2> HIDE DEF z
  <2>5. Held(x, z) /\ z.pc = x.pc /\ z.sr.s
    BY <2>1, <2>2, <2>4 DEF Held, Same
  <2>6. Plain(x) => Plain(z)
    <3>1. Plain(x) => Plain(s) /\ f.sr \in PlainSR
      BY <2>1, <2>2, <2>3, HeldPlain DEF Plain
    <3> QED BY <2>4, <3>1
  <2>7. Goes(x, z) /\ Ok(z) /\ ~faulted(z)
    BY <1>2, <2>4, <2>5, <2>6, HeldGoes DEF Goes, Safely, Reaches, Held, faulted
  <2>8. ADDRESS_ERROR \in Nat
    BY DEF ADDRESS_ERROR
  <2>9. /\ Goes(z, j)
        /\ Good(z) => Steady(z, j) \/ ("vec" \in z.bad /\ j.nested)
        /\ Good(z) /\ "vec" \in z.bad => j.nested
    <3>1. Ok(z) /\ Unhurt(z)
      BY <2>7 DEF Unhurt
    <3>2. /\ Safely(z, j) /\ Taken(z, j)
          /\ Ready(z) /\ ~faulted(z) /\ "vec" \in z.bad => j.nested
      BY <2>8, <3>1, JumpVectorGoes
    <3> HIDE DEF j
    <3>3. Settles(z, j) /\ (Good(z) => Ready(z))
      BY <3>1, <3>2, TakenSettles, ReadyGood
    <3> QED BY <2>7, <3>2, <3>3 DEF Goes, Taken
  <2> HIDE DEF j
  <2>10. /\ j \in Machine /\ Goes(x, j) /\ Fine(j) /\ j.sr.s
    BY <2>5, <2>7, <2>9, GoesTrans DEF Goes, Safely, Reaches, Ok
  <2>11. res # NoResume /\ res.sr = j.sr /\ res.pc = j.pc
    BY <2>10, ResumeIsOne
  <2> HIDE DEF res
  <2>12. nest \in BOOLEAN /\ (nest <=> j.nested \/ faulted(j))
    OBVIOUS
  <2> HIDE DEF nest
  <2>13. /\ Same(j, t) /\ t.stopped = j.stopped /\ t.nested = nest
         /\ t.queue = j.queue /\ t.sr = j.sr /\ t.sr_save = j.sr_save /\ t.stk = j.stk
         /\ t.fault_resume = res /\ t.run_mode = Fault
    BY <2>10 DEF Machine, Same
  <2>14. t \in Machine
    BY <1>m, <2>0, TriggerAddressErrorKeeps DEF Keeps
  <2> HIDE DEF t
  <2>15. Same(x, t)
    BY <2>10, <2>13, SameTrans DEF Goes, Safely, Reaches
  <2>16. Fine(t)
    BY <2>10, <2>11, <2>13 DEF Fine, Same, prefetch_enabled
  <2>17. Plain(x) => Plain(t)
    BY <2>10, <2>11, <2>13 DEF Plain, Goes, Safely, Reaches
  <2>18. Safely(x, t) /\ faulted(t) /\ t.fault_resume # NoResume
    <3>1. x.nested => t.nested
      BY <2>10, <2>12, <2>13 DEF Goes, Safely, Reaches
    <3> QED BY <2>10, <2>11, <2>13, <2>14, <2>15, <2>16, <2>17, <3>1 DEF Safely, Reaches, Ok, faulted
  <2>19. ASSUME Strikes(x), Good(x)
         PROVE  /\ Settled(t) /\ (t.nested => x.nested \/ "vec" \in x.bad)
                /\ x.stopped = 0 => t.stopped = 0 \/ t.nested
    <3>1. Good(z) /\ z.bad = x.bad /\ z.stopped = x.stopped /\ z.nested = x.nested
      BY <2>5, <2>7, <2>19, SameGood DEF Goes, Safely, Reaches, Settles, Held, Same
    <3>2. Settled(j)
      BY <2>10, <2>19 DEF Goes, Settles
    <3>3. CASE "vec" \in x.bad
      <4>1. j.nested /\ j.stopped # 0
        BY <2>9, <3>1, <3>2, <3>3 DEF Settled, is_halted
      <4> QED BY <2>12, <2>13, <3>3, <4>1 DEF Settled, is_halted, faulted
    <3>4. CASE "vec" \notin x.bad
      <4>1. Steady(z, j)
        BY <2>9, <3>1, <3>4
      <4>2. ~faulted(j) /\ j.stopped = 0 /\ ~j.nested
        <5>1. x.stopped = 0 /\ ~x.nested
          BY <1>2, <2>19, <3>4 DEF Strikes, Good, Settled, is_halted
        <5> QED BY <2>7, <3>1, <4>1, <5>1 DEF Steady, faulted
      <4>3. QueueAt(t.queue, t.fault_resume.pc)
        BY <2>11, <2>13, <3>2, <4>2 DEF Settled
      <4> QED BY <2>11, <2>12, <2>13, <4>2, <4>3 DEF Settled, is_halted, faulted
    <3> QED BY <3>3, <3>4
  <2> QED BY <2>0, <2>18, <2>19 DEF Settles
<1> QED BY <1>1, <1>2

\* A frame is stacked and its vector taken
LEMMA HandlerGoes ==
    ASSUME NEW x, Ok(x), Unhurt(x), NEW f \in FrameSet, f.fmt \in WholeFormats, NEW v \in Nat
    PROVE  LET y == jump_vector(PushFrame(x, f), v)
           IN  /\ Reaches(x, y) /\ Taken(x, y)
               /\ Plain(x) /\ f.sr \in PlainSR => Plain(y)
               /\ Ready(x) /\ x.exception_processing => y.fault_resume = x.fault_resume
<1> DEFINE p == PushFrame(x, f)
           y == jump_vector(p, v)
<1>1. /\ Reaches(x, p)
      /\ Plain(x) /\ f.sr \in PlainSR => Plain(p)
      /\ Refusals(x, x.bad) => Held(x, p)
  BY PushFrameGoes
<1> HIDE DEF p
<1>2. Ok(p) /\ p.bad = x.bad /\ p.exception_processing = x.exception_processing
      /\ (Refusals(x, x.bad) <=> Refusals(p, p.bad))
      /\ (prefetch_enabled(x) <=> prefetch_enabled(p))
  BY <1>1, HeldRefusals DEF Reaches, Same
<1>3. Unhurt(p)
  BY <1>1, <1>2 DEF Unhurt, Held, faulted
<1>4. Ready(x) => Ready(p) /\ Steady(x, p)
  BY <1>1, <1>2, HeldSteady, HeldUnfilled DEF Ready
<1>5. /\ Safely(p, y) /\ Taken(p, y)
      /\ Ready(p) /\ p.exception_processing => y.fault_resume = p.fault_resume
  BY <1>2, <1>3, JumpVectorGoes
<1> HIDE DEF y
<1>6. Reaches(x, y)
  BY <1>1, <1>5, ReachesTrans DEF Safely
<1>7. Plain(x) /\ f.sr \in PlainSR => Plain(y)
  BY <1>1, <1>5 DEF Safely
<1>8. Taken(x, y)
  BY <1>2, <1>4, <1>5 DEF Taken, Steady, faulted
<1>9. Ready(x) /\ x.exception_processing => y.fault_resume = x.fault_resume
  BY <1>2, <1>4, <1>5 DEF Steady
<1> QED BY <1>6, <1>7, <1>8, <1>9 DEF p, y

\* What an exception entry other than a bus or an address error's leaves
Enters(x, y) == Safely(x, y) /\ Taken(x, y) /\ y.sr.s

LEMMA EntersGoes ==
    ASSUME NEW x, NEW y, Ok(x), Enters(x, y)
    PROVE  Goes(x, y)
  BY TakenSettles DEF Enters, Goes

LEMMA TakeGroup2Goes ==
    ASSUME NEW x, Ok(x), Unhurt(x), NEW v \in Nat
    PROVE  Enters(x, take_group2_exception(x, v))
<1>m. x \in Machine
  BY DEF Ok
<1> DEFINE s == EnterSupervisor(x)
           fmt == IF is_pre_68020(x) THEN "0" ELSE "2"
           f == Frame(fmt, v, x.pc, x.sr)
           y == jump_vector(PushFrame(s, f), v)
<1>0. take_group2_exception(x, v) = y
  BY DEF take_group2_exception, s, fmt, f
<1>1. Goes(x, s) /\ Held(x, s) /\ s.sr.s
  BY EnterGoes
<1> HIDE DEF s
<1>2. f \in FrameSet /\ f.fmt \in WholeFormats /\ f.sr = x.sr
  <2>1. x.pc \in Int /\ x.sr \in SR
    BY <1>m DEF Machine
  <2>2. fmt \in Formats /\ fmt \in WholeFormats
    BY DEF Formats, WholeFormats
  <2> HIDE DEF fmt
  <2> QED BY <2>1, <2>2, FrameType DEF Frame
<1> HIDE DEF f
<1>3. Ok(s) /\ Unhurt(s) /\ (Ready(x) => Ready(s)) /\ Steady(x, s) /\ s.bad = x.bad
  <2>1. Ready(x) => Ready(s)
    BY <1>1, HeldUnfilled, HeldRefusals DEF Ready, Held
  <2> QED BY <1>1, <2>1, HeldSteady, HeldRefusals
          DEF Goes, Safely, Reaches, Unhurt, Held, Same, faulted
<1>4. /\ Reaches(s, y) /\ Taken(s, y)
      /\ Plain(s) /\ f.sr \in PlainSR => Plain(y)
  BY <1>2, <1>3, HandlerGoes
<1> HIDE DEF y
<1>5. Safely(x, y)
  <2>1. Reaches(x, y)
    BY <1>1, <1>4, ReachesTrans DEF Goes, Safely
  <2>2. Plain(x) => Plain(y)
    BY <1>1, <1>2, <1>4 DEF Goes, Safely, Plain
  <2> QED BY <2>1, <2>2 DEF Safely
<1>6. y.sr.s
  BY <1>1, <1>4 DEF Reaches
<1>7. Taken(x, y)
  BY <1>3, <1>4 DEF Taken, Steady, faulted
<1> QED BY <1>0, <1>5, <1>6, <1>7 DEF Enters

LEMMA TakeExceptionGoes ==
    ASSUME NEW x, Ok(x), Unhurt(x), ~x.exception_processing, NEW v \in Nat
    PROVE  LET y == take_exception(x, v)
           IN  Enters(x, y) /\ (Ready(x) => y.fault_resume = x.fault_resume)
<1>m. x \in Machine /\ Fine(x)
  BY DEF Ok
<1> DEFINE b == [x EXCEPT !.exception_processing = TRUE]
           s == EnterSupervisor(b)
           pc == IF StacksNextPc(v) THEN x.pc ELSE x.ppc
           f == Frame("0", v, pc, x.sr)
           j == jump_vector(PushFrame(s, f), v)
           t == [j EXCEPT !.exception_processing = FALSE]
<1>0. take_exception(x, v) = t
  BY DEF take_exception, b, s, pc, f, j
<1>1. b \in Machine
  BY <1>m DEF Machine
<1>2. /\ b.cpu_type = x.cpu_type /\ b.prog = x.prog /\ b.bad = x.bad
      /\ b.int_level = x.int_level /\ b.run_mode = x.run_mode /\ b.stopped = x.stopped
      /\ b.nested = x.nested /\ b.queue = x.queue /\ b.pc = x.pc
      /\ b.sr = x.sr /\ b.sr_save = x.sr_save /\ b.fault_resume = x.fault_resume
      /\ b.stk = x.stk /\ b.exception_processing = TRUE
  BY <1>m DEF Machine
<1> HIDE DEF b
<1>3. /\ Held(b, s) /\ s.pc = b.pc /\ s.sr.s /\ s.sr \in PlainSR
      /\ s.stk = b.stk /\ s \in Machine
  BY <1>1, EnterSupervisorHeld
<1> HIDE DEF s
<1>4. /\ Ok(s) /\ (Plain(x) => Plain(s)) /\ (Ready(x) => Ready(s)) /\ Unhurt(s)
      /\ Steady(x, s) /\ s.exception_processing
  <2>1. Fine(s)
    BY <1>m, <1>2, <1>3 DEF Fine, Held, Same, faulted, prefetch_enabled
  <2>2. Plain(x) => Plain(s)
    BY <1>2, <1>3 DEF Plain, Held
  <2>3. Refusals(x, x.bad) <=> Refusals(s, s.bad)
    BY <1>2, <1>3 DEF Refusals, Held, Same, prefetch_enabled
  <2>4. Unfilled(x) <=> Unfilled(s)
    BY <1>2, <1>3 DEF Unfilled, Held, is_halted, faulted
  <2>5. (prefetch_enabled(x) <=> prefetch_enabled(s)) /\ (faulted(x) <=> faulted(s))
    BY <1>2, <1>3 DEF Held, Same, prefetch_enabled, faulted
  <2>6. Steady(x, s) /\ s.exception_processing
    BY <1>2, <1>3 DEF Steady, Held, Same
  <2> QED BY <1>3, <2>1, <2>2, <2>3, <2>4, <2>5, <2>6 DEF Ok, Ready, Unhurt
<1>5. f \in FrameSet /\ f.fmt \in WholeFormats /\ f.sr = x.sr
  <2>1. pc \in Int /\ x.sr \in SR
    BY <1>m DEF Machine
  <2> HIDE DEF pc
  <2>2. "0" \in Formats /\ "0" \in WholeFormats
    BY DEF Formats, WholeFormats
  <2> QED BY <2>1, <2>2, FrameType DEF Frame
<1> HIDE DEF f
<1>6. /\ Reaches(s, j) /\ Taken(s, j)
      /\ Plain(s) /\ f.sr \in PlainSR => Plain(j)
      /\ Ready(s) /\ s.exception_processing => j.fault_resume = s.fault_resume
  BY <1>4, <1>5, HandlerGoes
<1> HIDE DEF j
<1>7. j \in Machine /\ Fine(j) /\ Same(s, j) /\ j.sr.s
  BY <1>3, <1>6 DEF Reaches, Ok
<1>8. /\ t.cpu_type = j.cpu_type /\ t.prog = j.prog /\ t.bad = j.bad
      /\ t.int_level = j.int_level /\ t.run_mode = j.run_mode /\ t.stopped = j.stopped
      /\ t.nested = j.nested /\ t.queue = j.queue /\ t.pc = j.pc
      /\ t.sr = j.sr /\ t.sr_save = j.sr_save /\ t.fault_resume = j.fault_resume
      /\ t.stk = j.stk /\ t.exception_processing = FALSE /\ t \in Machine
  BY <1>7 DEF Machine
<1> HIDE DEF t
<1>9. Same(x, t) /\ (Plain(x) => Plain(t)) /\ Fine(t)
  <2>1. Same(x, t)
    <3>1. x.exception_processing = FALSE
      BY <1>m DEF Machine
    <3> QED BY <1>2, <1>3, <1>7, <1>8, <3>1 DEF Same, Held
  <2>2. Plain(x) => Plain(t)
    BY <1>4, <1>5, <1>6, <1>8 DEF Plain
  <2>3. Fine(t)
    BY <1>7, <1>8 DEF Fine, faulted, prefetch_enabled
  <2> QED BY <2>1, <2>2, <2>3
<1>10. Safely(x, t)
  <2>1. x.nested => t.nested
    BY <1>4, <1>6, <1>8 DEF Steady, Reaches
  <2> QED BY <1>7, <1>8, <1>9, <2>1 DEF Safely, Reaches, Ok
<1>11. ASSUME Ready(x)
       PROVE  /\ Settled(t) /\ t.fault_resume = x.fault_resume
              /\ Steady(x, t) \/ (~faulted(x) /\ "vec" \in x.bad /\ t.nested)
  <2>0. s.bad = x.bad
    BY <1>2, <1>3 DEF Held, Same
  <2>1. Settled(j) /\ (Steady(s, j) \/ (~faulted(s) /\ "vec" \in s.bad /\ j.nested))
    BY <1>4, <1>6, <1>11 DEF Taken
  <2>2. Settled(t)
    BY <1>8, <2>1 DEF Settled, is_halted, faulted
  <2>3. t.fault_resume = x.fault_resume
    BY <1>4, <1>6, <1>8, <1>11 DEF Steady
  <2>4. Steady(x, t) \/ (~faulted(x) /\ "vec" \in x.bad /\ t.nested)
    BY <1>4, <1>8, <2>0, <2>1 DEF Steady, faulted
  <2> QED BY <2>2, <2>3, <2>4
<1> QED BY <1>0, <1>7, <1>8, <1>10, <1>11 DEF Enters, Taken

----------------------------------------------------------------------------
(* Instructions that neither return from an exception nor stop *)

LEMMA GoesOk ==
    ASSUME NEW x, NEW y, Goes(x, y)
    PROVE  /\ Ok(y) /\ Same(x, y) /\ y.exception_processing = x.exception_processing
           /\ y.bad = x.bad
           /\ Good(x) => Good(y)
           /\ Plain(x) => Plain(y)
<1>1. Good(x) => Good(y)
  BY SameGood DEF Goes, Safely, Reaches, Settles
<1> QED BY <1>1 DEF Goes, Safely, Reaches, Same

\* The fields no fault looks at
LEMMA DataGoes ==
    ASSUME NEW x, Ok(x), NEW y \in Machine, Held(x, y), y.pc = x.pc, y.sr = x.sr,
           y.stk \subseteq x.stk
    PROVE  Goes(x, y)
<1>1. Plain(x) => Plain(y)
  BY HeldPlain
<1> QED BY <1>1, HeldGoes

LEMMA AstrayGoes ==
    ASSUME NEW x, Ok(x)
    PROVE  LET y == [x EXCEPT !.astray = TRUE]
           IN  Goes(x, y) /\ Held(x, y) /\ y.pc = x.pc /\ y.sr = x.sr /\ y.stk = x.stk
<1> DEFINE y == [x EXCEPT !.astray = TRUE]
<1>1. y \in Machine /\ Held(x, y) /\ y.pc = x.pc /\ y.sr = x.sr /\ y.stk = x.stk
  BY DEF Ok, Machine, Held, Same
<1> HIDE DEF y
<1> QED BY <1>1, DataGoes DEF y

LEMMA JumpGoes ==
    ASSUME NEW x, Ok(x), Unhurt(x), NEW pc \in Int
    PROVE  Goes(x, Jump(x, pc)) /\ (Good(x) => Steady(x, Jump(x, pc)))
<1> DEFINE r == [x EXCEPT !.pc = pc, !.change_of_flow = TRUE]
           y == full_prefetch(r)
<1>1. /\ Held(x, r) /\ r.sr = x.sr /\ r.stk = x.stk /\ r \in Machine
  BY DEF Ok, Machine, Held, Same
<1> HIDE DEF r
<1>2. Safely(x, r) /\ Ok(r)
  <2>1. Plain(x) => Plain(r)
    BY <1>1, HeldPlain
  <2> QED BY <1>1, <2>1, HeldSafely DEF Safely, Reaches
<1>3. /\ Safely(r, y)
      /\ Refusals(r, r.bad) /\ Unfilled(r) /\ (prefetch_enabled(r) => ~faulted(r))
            => Settled(y) /\ Steady(r, y)
  BY <1>2, RefillSafely
<1> HIDE DEF y
<1>4. Safely(x, y)
  BY <1>2, <1>3, SafelyTrans
<1>5. ASSUME Good(x) PROVE Settled(y) /\ Steady(x, y)
  <2>1. Refusals(r, r.bad) /\ (prefetch_enabled(r) <=> prefetch_enabled(x))
    BY <1>1, <1>5, HeldRefusals DEF Held, Good
  <2>2. Unfilled(r)
    BY <1>1, <1>5, HeldUnfilled DEF Good
  <2>3. prefetch_enabled(r) => ~faulted(r)
    BY <1>1, <1>5, <2>1 DEF Unhurt, Held, faulted, Good
  <2> QED BY <1>1, <1>3, <2>1, <2>2, <2>3, HeldSteady DEF Steady
<1> QED BY <1>4, <1>5 DEF Jump, Goes, Settles, Steady, y, r

\* Only an instruction that runs is struck by a fault
Runs(x) == ~x.exception_processing /\ (Good(x) => faulted(x) \/ x.stopped = 0)

LEMMA RunsStrikes ==
    ASSUME NEW x, Runs(x)
    PROVE  Strikes(x)
  BY DEF Runs, Strikes

LEMMA RmwGoes ==
    ASSUME NEW x, Ok(x), Runs(x)
    PROVE  Goes(x, rmw(x))
<1> DEFINE a == IF "data" \in x.bad THEN trigger_bus_error(x) ELSE x
           b == top_up_prefetch(a)
           y == [b EXCEPT !.data = (@ + 1) % RegMod]
<1>1. Goes(x, a)
  BY TriggerGoes, RunsStrikes, GoesRefl DEF Goes
<1> HIDE DEF a
<1>2. Goes(x, b) /\ Ok(b)
  BY <1>1, TopUpGoes, GoesTrans, GoesOk
<1> HIDE DEF b
<1>3. y \in Machine
  <2>1. b.data \in 0..(RegMod - 1) /\ b \in Machine
    BY <1>2 DEF Ok, Machine
  <2>2. (b.data + 1) % RegMod \in 0..(RegMod - 1)
    BY <2>1, IncrementType
  <2> QED BY <2>1, <2>2 DEF Machine
<1>4. Held(b, y) /\ y.pc = b.pc /\ y.sr = b.sr /\ y.stk = b.stk
  BY <1>2 DEF Ok, Machine, Held, Same
<1>5. rmw(x) = IF faulted(b) THEN b ELSE y
  BY DEF rmw, WriteBack, a, b
<1> HIDE DEF y
<1>6. Goes(x, y)
  BY <1>2, <1>3, <1>4, DataGoes, GoesTrans
<1> QED BY <1>2, <1>5, <1>6

LEMMA PincGoes ==
    ASSUME NEW x, Ok(x), Runs(x)
    PROVE  Goes(x, pinc(x))
<1> DEFINE k == (x.dar.r + 1) % RegMod
           y == [x EXCEPT !.dar.r = k]
<1>1. k \in 0..(RegMod - 1)
  BY IncrementType DEF Ok, Machine, Registers
<1>0. pinc(x) = IF "data" \in x.bad THEN trigger_bus_error(y) ELSE y
  BY DEF pinc, k
<1> HIDE DEF k
<1>2. y \in Machine /\ Held(x, y) /\ y.pc = x.pc /\ y.sr = x.sr /\ y.stk = x.stk
  BY <1>1 DEF Ok, Machine, Registers, Held, Same
<1> HIDE DEF y
<1>3. Goes(x, y) /\ Ok(y)
  BY <1>2, DataGoes, GoesOk
<1>4. Strikes(y)
  <2>1. Good(y) => Good(x)
    BY <1>2, HeldRefusals DEF Good, Settled, is_halted, faulted, Held, Same
  <2> QED BY <1>2, <2>1 DEF Runs, Strikes, Held, Same, faulted
<1>5. Goes(y, trigger_bus_error(y))
  BY <1>3, <1>4, TriggerGoes DEF Goes
<1> QED BY <1>0, <1>3, <1>5, GoesTrans

\* The next word of the instruction stream; its place is what its opcode depends on
LEMMA ReadStreamGoes ==
    ASSUME NEW x, Ok(x), Runs(x), Good(x) => ~faulted(x) \/ x.stopped # 0
    PROVE  LET y == ReadStream(x).m
               w == ReadStream(x).w
           IN  /\ Goes(x, y)
               /\ faulted(y) /\ ~faulted(x) => y.fault_resume # NoResume
               /\ ~faulted(y) => ~Odd(y.pc)
               /\ faulted(x) => Steady(x, y)
               /\ faulted(y) => Odd(x.pc) \/ faulted(x) \/ CodeRegion(x.pc) \in x.bad
               /\ ~prefetch_enabled(x) /\ ~faulted(y) => w = x.pc /\ y.pc = x.pc + 2
<1>m. x \in Machine /\ x.pc \in Int /\ x.queue \in Seq(Int)
  BY DEF Ok, Machine
<1>t. Goes(x, trigger_bus_error(x)) /\ Goes(x, trigger_address_error(x))
  BY TriggerGoes, TriggerAddressErrorGoes, RunsStrikes DEF Goes, Runs
<1>f. faulted(x) => trigger_bus_error(x) = x /\ trigger_address_error(x) = x
  BY DEF trigger_bus_error, trigger_address_error
<1>e. faulted(trigger_bus_error(x)) /\ faulted(trigger_address_error(x))
      /\ (~faulted(x) => /\ trigger_bus_error(x).fault_resume # NoResume
                         /\ trigger_address_error(x).fault_resume # NoResume)
  BY TriggerGoes, TriggerAddressErrorGoes DEF Runs
<1>s. Steady(x, x)
  BY DEF Steady
<1>1. CASE Odd(x.pc)
  <2>1. ReadStream(x) = [m |-> trigger_address_error(x), w |-> 0]
    BY <1>1 DEF ReadStream
  <2>2. ReadStream(x).m = trigger_address_error(x)
    BY <2>1
  <2> QED BY <1>1, <2>2, <1>t, <1>f, <1>e, <1>s
<1>2. CASE ~Odd(x.pc) /\ x.queue # <<>>
  <2> DEFINE q == Tail(x.queue)
             pc == x.pc + 2
             y == [x EXCEPT !.pc = pc, !.queue = q]
  <2>1. ReadStream(x).m = y /\ prefetch_enabled(x)
    BY <1>2 DEF ReadStream, Ok, Fine
  <2>2. q \in Seq(Int) /\ pc \in Int /\ ~Odd(pc)
    BY <1>m, <1>2, QueueTypes DEF Odd
  <2>3. QueueAt(x.queue, x.pc) => QueueAt(q, pc)
    <3>1. Len(x.queue) \in Nat /\ Len(x.queue) > 0 /\ Len(q) = Len(x.queue) - 1
          /\ \A k \in 1..Len(q) : q[k] = x.queue[k + 1]
      BY <1>m, <1>2
    <3> HIDE DEF q
    <3> SUFFICES ASSUME QueueAt(x.queue, x.pc), NEW k \in 1..Len(q)
                 PROVE  q[k] = pc + 2 * (k - 1)
      BY <3>1 DEF QueueAt
    <3>2. k + 1 \in 1..Len(x.queue) /\ q[k] = x.queue[k + 1]
      BY <3>1
    <3> QED BY <1>m, <3>1, <3>2 DEF QueueAt
  <2> HIDE DEF q, pc
  <2>4. /\ y \in Machine /\ Same(x, y) /\ Steady(x, y) /\ y.sr = x.sr /\ y.stk = x.stk
        /\ y.sr_save = x.sr_save /\ y.queue = q /\ y.pc = pc
    BY <1>m, <2>2 DEF Machine, Same, Steady
  <2> HIDE DEF y
  <2>5. Fine(y)
    BY <2>1, <2>4 DEF Ok, Fine, Same, Steady, faulted, prefetch_enabled
  <2>6. Plain(x) => Plain(y)
    BY <2>4 DEF Plain, Steady
  <2>7. Good(x) => Settled(y)
    BY <2>3, <2>4 DEF Good, Settled, Steady, is_halted, faulted
  <2>8. Goes(x, y)
    BY <2>4, <2>5, <2>6, <2>7 DEF Goes, Safely, Reaches, Settles, Ok, Steady, faulted
  <2>9. faulted(y) <=> faulted(x)
    BY <2>4 DEF Steady, faulted
  <2> QED BY <2>1, <2>2, <2>4, <2>8, <2>9
<1>3. CASE ~Odd(x.pc) /\ x.queue = <<>> /\ CodeRegion(x.pc) \in x.bad
  <2>1. ReadStream(x) = [m |-> trigger_bus_error(x), w |-> 0]
    BY <1>3 DEF ReadStream
  <2>2. ReadStream(x).m = trigger_bus_error(x)
    BY <2>1
  <2> QED BY <1>3, <2>2, <1>t, <1>f, <1>e, <1>s
<1>4. CASE ~Odd(x.pc) /\ x.queue = <<>> /\ CodeRegion(x.pc) \notin x.bad
  <2> DEFINE pc == x.pc + 2
             y == [x EXCEPT !.pc = pc]
  <2>1. ReadStream(x) = [m |-> y, w |-> x.pc]
    BY <1>4 DEF ReadStream
  <2>2. ReadStream(x).m = y /\ ReadStream(x).w = x.pc
    BY <2>1
  <2>3. pc \in Int /\ ~Odd(pc)
    BY <1>m, <1>4 DEF Odd
  <2>4. pc = x.pc + 2
    OBVIOUS
  <2> HIDE DEF pc
  <2>5. /\ Held(x, y) /\ y.pc = pc /\ y.sr = x.sr /\ y.stk = x.stk /\ y \in Machine
        /\ Plain(x) => Plain(y)
    BY <1>m, <2>3, SetPcDelivers
  <2> HIDE DEF y
  <2>6. Safely(x, y)
    BY <2>5, HeldSafely
  <2>7. Good(x) => Settled(y)
    <3>1. y.queue = <<>>
      BY <1>4, <2>5 DEF Held
    <3>2. QueueAt(y.queue, y.pc)
      BY <3>1 DEF QueueAt
    <3> QED BY <1>4, <2>5, <3>1, <3>2 DEF Good, Settled, Held, is_halted, faulted
  <2>8. Goes(x, y)
    BY <2>5, <2>6, <2>7 DEF Goes, Settles, Held
  <2>9. (faulted(y) <=> faulted(x)) /\ Steady(x, y)
    BY <2>5, HeldSteady DEF Held, faulted
  <2> QED BY <2>2, <2>3, <2>4, <2>5, <2>8, <2>9
<1> QED BY <1>1, <1>2, <1>3, <1>4

\* The frames of the program's own calls and returns
LEMMA CallFrame ==
    ASSUME NEW x \in Machine
    PROVE  LET f == Frame("ret", 0, x.pc, x.sr)
           IN  f \in FrameSet /\ f.fmt \in WholeFormats /\ f.sr = x.sr
<1>1. x.pc \in Int /\ x.sr \in SR
  BY DEF Machine
<1>2. "ret" \in Formats /\ "ret" \in WholeFormats /\ 0 \in Nat
  BY DEF Formats, WholeFormats
<1> QED BY <1>1, <1>2, FrameType DEF Frame

LEMMA JsrGoes ==
    ASSUME NEW x, Ok(x), Runs(x), ~faulted(x), ~Odd(x.pc)
    PROVE  Goes(x, jsr(x))
<1> DEFINE r == ReadStream(x).m
           f == Frame("ret", 0, r.pc, r.sr)
           y == PushFrame(r, f)
           to == IF faulted(r) THEN 0 ELSE Subroutine
<1>1. Goes(x, r) /\ Ok(r) /\ Unhurt(r)
  <2>1. /\ Goes(x, r)
        /\ faulted(r) => Odd(x.pc) \/ faulted(x) \/ CodeRegion(x.pc) \in x.bad
    BY ReadStreamGoes
  <2> HIDE DEF r
  <2>2. Same(x, r) /\ Ok(r)
    BY <2>1 DEF Goes, Safely, Reaches
  <2>3. Refusals(r, r.bad) /\ prefetch_enabled(r) => CodeRegion(x.pc) \notin x.bad
    BY <2>2, CodeNotData DEF Refusals, Same
  <2> QED BY <2>1, <2>2, <2>3 DEF Unhurt
<1> HIDE DEF r
<1>2. f \in FrameSet /\ f.fmt \in WholeFormats /\ f.sr = r.sr
  BY <1>1, CallFrame DEF Ok
<1> HIDE DEF f
<1>3. Goes(r, y) /\ Unhurt(y)
  <2>1. /\ Reaches(r, y) /\ Settles(r, y)
        /\ Plain(r) /\ f.sr \in PlainSR => Plain(y)
        /\ Refusals(r, r.bad) => Held(r, y)
    BY <1>1, <1>2, PushFrameGoes
  <2> HIDE DEF y
  <2>2. Plain(r) => Plain(y)
    BY <1>2, <2>1 DEF Plain
  <2>3. Unhurt(y)
    BY <1>1, <2>1, HeldRefusals DEF Reaches, Unhurt, Held, faulted
  <2> QED BY <2>1, <2>2, <2>3 DEF Goes, Safely
<1> HIDE DEF y
<1>4. to \in Int
  BY ConstantTypes
<1> HIDE DEF to
<1>5. Goes(y, Jump(y, to))
  BY <1>3, <1>4, JumpGoes, GoesOk
<1>6. Goes(x, Jump(y, to))
  BY <1>1, <1>3, <1>5, GoesTrans
<1> QED BY <1>6 DEF jsr, Call, r, f, y, to

LEMMA StackReadGoes ==
    ASSUME NEW x, Ok(x), ~x.exception_processing
    PROVE  LET y == StackRead(x)
           IN  /\ Goes(x, y)
               /\ Refusals(x, x.bad) => y = x
               /\ y = x \/ (faulted(y) /\ y.fault_resume # NoResume)
<1>1. Refusals(x, x.bad) => StackRead(x) = x
  <2>1. Refusals(x, x.bad) => StackRegion(x.dar.a7) \notin x.bad
    <3>1. StackRegion(x.dar.a7) \in Stacks /\ "data" \notin Stacks
      BY CodeNotData DEF Stacks
    <3> QED BY <3>1 DEF Refusals
  <2> QED BY <2>1 DEF StackRead
<1>2. Goes(x, x)
  BY GoesRefl
<1>3. CASE ~faulted(x) /\ StackRegion(x.dar.a7) \in x.bad
  <2>1. /\ Safely(x, trigger_bus_error(x)) /\ faulted(trigger_bus_error(x))
        /\ trigger_bus_error(x).fault_resume # NoResume
    BY <1>3, TriggerGoes
  <2>2. StackRead(x) = trigger_bus_error(x)
    BY <1>3 DEF StackRead
  <2>3. Refusals(x, x.bad) => trigger_bus_error(x) = x
    BY <1>1, <2>2
  <2>4. ~Refusals(x, x.bad)
    BY <1>3, <2>1, <2>3
  <2> QED BY <2>1, <2>2, <2>4 DEF Goes, Settles, Good
<1>4. CASE faulted(x) \/ StackRegion(x.dar.a7) \notin x.bad
  BY <1>2, <1>4 DEF StackRead
<1> QED BY <1>1, <1>3, <1>4

LEMMA RtsGoes ==
    ASSUME NEW x, Ok(x), ~x.exception_processing, ~faulted(x)
    PROVE  Goes(x, rts(x))
<1> DEFINE r == StackRead(x)
           cells == CellsAt(r, {"ret"})
           pop == [r EXCEPT !.dar.a7 = @ + 4]
           to == (CHOOSE c \in cells : TRUE).f.pc
<1>1. Goes(x, r) /\ Ok(r) /\ (Refusals(x, x.bad) => r = x)
  BY StackReadGoes, GoesOk
<1>2. Refusals(r, r.bad) => ~faulted(r)
  BY <1>1, HeldRefusals, GoesOk
<1> HIDE DEF r
<1>3. Goes(r, pop) /\ Ok(pop) /\ Unhurt(pop)
  <2>0. \A n \in Int : LET z == [r EXCEPT !.dar.a7 = @ + n]
                       IN  Held(r, z) /\ z.pc = r.pc /\ z.sr = r.sr /\ z.stk = r.stk /\ z \in Machine
    BY <1>1, MoveA7Held DEF Ok
  <2>1. Held(r, pop) /\ pop.pc = r.pc /\ pop.sr = r.sr /\ pop.stk = r.stk /\ pop \in Machine
    BY <2>0
  <2> HIDE DEF pop
  <2>2. Goes(r, pop) /\ Ok(pop)
    BY <1>1, <2>1, DataGoes, GoesOk
  <2> QED BY <1>2, <2>1, <2>2, HeldRefusals DEF Held, Unhurt, faulted
<1> HIDE DEF pop
<1>4. ASSUME NEW pc \in Int PROVE Goes(x, Jump(pop, pc))
  BY <1>1, <1>3, <1>4, JumpGoes, GoesTrans
<1>5. Goes(x, [r EXCEPT !.astray = TRUE])
  BY <1>1, AstrayGoes, GoesTrans
<1>6. cells # {} => to \in Int
  BY <1>1, PoppedFrameType DEF FrameSet, Ok
<1> HIDE DEF cells, to
<1>7. CASE ~faulted(r) /\ cells = {}
  BY <1>5, <1>7 DEF rts, Return, r, cells
<1>8. CASE faulted(r)
  BY <1>4, <1>8 DEF rts, Return, r, pop
<1>9. CASE ~faulted(r) /\ cells # {}
  <2>1. Goes(x, Jump(pop, to))
    BY <1>4, <1>6, <1>9
  <2> QED BY <1>9, <2>1 DEF rts, Return, Top, r, cells, pop, to
<1> QED BY <1>7, <1>8, <1>9

----------------------------------------------------------------------------
(* Returns from exceptions and stops *)

\* What an instruction leaves at its end, whatever status register it loads
Ends(x, y) ==
    /\ Ok(y) /\ Same(x, y)
    /\ Plain(x) => Plain(y)
    /\ Good(x) => Settled(y) /\ (y.nested => x.nested \/ "vec" \in x.bad)

LEMMA GoesEnds ==
    ASSUME NEW x, NEW y, Goes(x, y)
    PROVE  Ends(x, y)
  BY DEF Goes, Safely, Reaches, Settles, Ends

\* The fault of a return or a stop has its handler's entry state saved
Owing(x) == Ok(x) /\ ~x.exception_processing /\ (faulted(x) => x.fault_resume # NoResume)

LEMMA SetSrHeld ==
    ASSUME NEW x \in Machine, NEW sr \in SR
    PROVE  LET y == set_sr(x, sr)
           IN  /\ Held(x, y) /\ y.pc = x.pc /\ y \in Machine
               /\ y.sr.s = sr.s
               /\ Plain(x) /\ sr \in PlainSR => Plain(y)
<1> DEFINE masked == SrMasked(x, sr)
           y == Rebank(x, masked)
<1>1. masked \in SR /\ masked.s = sr.s /\ (sr \in PlainSR => masked \in PlainSR)
  BY SrMaskedType, SrMaskedKeepsS
<1> HIDE DEF masked
<1>2. Held(x, y) /\ y.pc = x.pc /\ y.sr = masked /\ y.stk = x.stk /\ y \in Machine
  BY <1>1, RebankHeld
<1> HIDE DEF y
<1>3. Plain(x) /\ sr \in PlainSR => Plain(y)
  BY <1>1, <1>2, HeldPlain
<1> QED BY <1>1, <1>2, <1>3 DEF set_sr, y, masked

LEMMA UnwindHeld ==
    ASSUME NEW x \in Machine, NEW f \in FrameSet, f.fmt \in WholeFormats
    PROVE  LET y == Unwind(x, f)
           IN  /\ Held(x, y) /\ y \in Machine
               /\ Plain(x) /\ f.sr \in PlainSR => Plain(y)
<1> DEFINE n == FrameBytes(x, f.fmt)
           pc == IF f.fmt = "1" THEN x.pc ELSE f.pc
           b == [x EXCEPT !.dar.a7 = @ + n, !.pc = pc]
           y == set_sr(b, f.sr)
<1>1. n \in Int /\ x.dar.a7 \in Int /\ x.dar.a7 + n \in Int
  BY FrameBytesType DEF Machine, Registers
<1> HIDE DEF n
<1>2. pc \in Int /\ f.sr \in SR
  BY DEF Machine, FrameSet
<1>0. Unwind(x, f) = y
  BY DEF Unwind, n, Machine
<1> HIDE DEF pc
<1>3. Held(x, b) /\ b.sr = x.sr /\ b.stk = x.stk /\ b \in Machine
  BY <1>1, <1>2 DEF Machine, Registers, Held, Same
<1> HIDE DEF b
<1>4. Held(b, y) /\ y \in Machine /\ (Plain(b) /\ f.sr \in PlainSR => Plain(y))
  BY <1>2, <1>3, SetSrHeld
<1> HIDE DEF y
<1>5. Plain(x) => Plain(b)
  BY <1>3, HeldPlain
<1>6. Held(x, y)
  BY <1>3, <1>4 DEF Held, Same
<1> QED BY <1>0, <1>4, <1>5, <1>6

LEMMA HeldOwing ==
    ASSUME NEW x, NEW y \in Machine, Owing(x), Held(x, y)
    PROVE  Owing(y)
  BY DEF Owing, Ok, Fine, Held, Same, faulted, prefetch_enabled

\* One turn of the RTE loop
LEMMA UnwindTopOwes ==
    ASSUME NEW x, Owing(x)
    PROVE  LET y == UnwindTop(x)
           IN  /\ Owing(y) /\ Same(x, y)
               /\ Plain(x) => Plain(y)
               /\ Refusals(x, x.bad) => Steady(x, y)
<1> DEFINE r == StackRead(x)
           cells == CellsAt(r, RteFormats(r))
           z == Frame("0", 0, 0, ZeroSR)
           f == (CHOOSE c \in cells : TRUE).f
           as == [r EXCEPT !.astray = TRUE]
<1>1. Goes(x, r) /\ (Refusals(x, x.bad) => r = x) /\ Owing(r)
  <2>1. /\ Goes(x, r) /\ (Refusals(x, x.bad) => r = x)
        /\ r = x \/ (faulted(r) /\ r.fault_resume # NoResume)
    BY StackReadGoes DEF Owing
  <2> HIDE DEF r
  <2> QED BY <2>1, GoesOk DEF Owing
<1>2. Same(x, r) /\ r \in Machine /\ (Plain(x) => Plain(r))
  BY <1>1, GoesOk DEF Owing, Ok
<1> HIDE DEF r
<1>3. z \in FrameSet /\ z.fmt \in WholeFormats /\ z.sr \in PlainSR
  <2>1. "0" \in Formats /\ "0" \in WholeFormats /\ 0 \in Nat /\ 0 \in Int
    BY DEF Formats, WholeFormats
  <2>2. ZeroSR \in PlainSR /\ z.sr = ZeroSR
    BY ConstantTypes DEF PlainSR, ZeroSR, Frame
  <2> QED BY <2>1, <2>2, ConstantTypes, FrameType
<1> HIDE DEF z
<1>4. ASSUME NEW y \in Machine, Held(r, y), Plain(r) => Plain(y)
      PROVE  Owing(y) /\ Same(x, y) /\ (Plain(x) => Plain(y))
             /\ (Refusals(x, x.bad) => Steady(x, y))
  <2>1. Owing(y) /\ Same(x, y)
    BY <1>1, <1>2, <1>4, HeldOwing, SameTrans DEF Held
  <2>2. Refusals(x, x.bad) => Steady(x, y)
    BY <1>1, <1>4, HeldSteady
  <2> QED BY <1>2, <1>4, <2>1, <2>2
<1>5. CASE faulted(r)
  <2>1. UnwindTop(x) = Unwind(r, z)
    BY <1>5 DEF UnwindTop, PopFrame, r, z
  <2> QED BY <1>2, <1>3, <1>4, <2>1, UnwindHeld
<1>6. CASE ~faulted(r) /\ cells = {}
  <2>1. UnwindTop(x) = as
    BY <1>6 DEF UnwindTop, PopFrame, r
  <2>2. as \in Machine /\ Held(r, as) /\ as.sr = r.sr /\ as.stk = r.stk
    BY <1>1, AstrayGoes, GoesOk DEF Owing, Ok
  <2> HIDE DEF as
  <2>3. Plain(r) => Plain(as)
    BY <2>2, HeldPlain
  <2> QED BY <1>4, <2>1, <2>2, <2>3
<1>7. CASE ~faulted(r) /\ cells # {}
  <2>1. UnwindTop(x) = Unwind(r, f)
    BY <1>7 DEF UnwindTop, PopFrame, Top, r
  <2>2. f \in FrameSet /\ f.fmt \in RteFormats(r)
    BY <1>2, <1>7, PoppedFrameType
  <2>3. f.fmt \in WholeFormats
    BY <1>2, <2>2, RteFormatsType
  <2>4. Plain(r) => f.sr \in PlainSR
    <3>1. \A c \in cells : c \in r.stk
      BY DEF CellsAt
    <3> QED BY <1>7, <3>1 DEF Plain
  <2> HIDE DEF f
  <2> QED BY <1>2, <1>4, <2>1, <2>2, <2>3, <2>4, UnwindHeld
<1> QED BY <1>5, <1>6, <1>7

LEMMA PrivilegeEnters ==
    ASSUME NEW x, Ok(x), Unhurt(x), ~x.exception_processing
    PROVE  /\ Enters(x, exception_privilege(x))
           /\ Ready(x) => exception_privilege(x).fault_resume = x.fault_resume
  BY VectorTypes, TakeExceptionGoes DEF exception_privilege

LEMMA RteEnds ==
    ASSUME NEW x, Ok(x), ~x.exception_processing, ~faulted(x)
    PROVE  Ends(x, rte(x))
<1>1. CASE ~x.sr.s
  <2>1. Unhurt(x)
    BY DEF Unhurt
  <2> QED BY <1>1, <2>1, PrivilegeEnters, EntersGoes, GoesEnds DEF rte
<1>2. CASE x.sr.s
  <2> DEFINE one == UnwindTop(x)
             two == UnwindTop(one)
             y == IF Throwaway(x) THEN two ELSE one
             z == full_prefetch(y)
  <2>0. rte(x) = z
    <3>1. y = UnwindTop(IF Throwaway(x) THEN UnwindTop(x) ELSE x)
      BY DEF one, two
    <3> QED BY <1>2, <3>1 DEF rte
  <2>1. Owing(x)
    BY DEF Owing
  <2>2. /\ Owing(one) /\ Same(x, one) /\ (Plain(x) => Plain(one))
        /\ Refusals(x, x.bad) => Steady(x, one)
    BY <2>1, UnwindTopOwes
  <2> HIDE DEF one
  <2>3. /\ Owing(two) /\ Same(one, two) /\ (Plain(one) => Plain(two))
        /\ Refusals(one, one.bad) => Steady(one, two)
    BY <2>2, UnwindTopOwes
  <2> HIDE DEF two
  <2>4. /\ Owing(y) /\ Same(x, y) /\ (Plain(x) => Plain(y))
        /\ Refusals(x, x.bad) => Steady(x, y)
    <3>1. Same(x, two)
      BY <2>2, <2>3, SameTrans
    <3>2. Refusals(x, x.bad) => Steady(x, two)
      BY <2>2, <2>3, HeldRefusals DEF Steady
    <3> QED BY <2>2, <2>3, <3>1, <3>2
  <2> HIDE DEF y
  <2>5. /\ Safely(y, z)
        /\ Refusals(y, y.bad) /\ Unfilled(y) /\ (prefetch_enabled(y) => ~faulted(y))
              => Settled(z) /\ Steady(y, z)
    BY <2>4, RefillSafely DEF Owing
  <2> HIDE DEF z
  <2>6. Ok(z) /\ Same(x, z) /\ (Plain(x) => Plain(z))
    BY <2>4, <2>5, SameTrans DEF Safely, Reaches
  <2>7. ASSUME Good(x) PROVE Settled(z) /\ (z.nested => x.nested)
    <3>1. Steady(x, y) /\ Refusals(y, y.bad)
      BY <2>4, <2>7, HeldRefusals DEF Good
    <3>2. ~faulted(y) /\ Unfilled(y)
      BY <2>7, <3>1 DEF Good, Settled, Unfilled, Steady, faulted, is_halted
    <3> QED BY <2>5, <3>1, <3>2 DEF Steady
  <2> QED BY <2>0, <2>6, <2>7 DEF Ends
<1> QED BY <1>1, <1>2

LEMMA StoppedEnds ==
    ASSUME NEW x, Owing(x)
    PROVE  LET y == [x EXCEPT !.stopped = 1]
           IN  /\ Ok(y) /\ Same(x, y) /\ (Plain(x) => Plain(y)) /\ y.nested = x.nested
               /\ Settled(x) /\ ~faulted(x) => Settled(y)
<1> DEFINE y == [x EXCEPT !.stopped = 1]
<1>1. /\ y \in Machine /\ Same(x, y) /\ y.run_mode = x.run_mode /\ y.stopped = 1
      /\ y.nested = x.nested /\ y.fault_resume = x.fault_resume /\ y.queue = x.queue
      /\ y.pc = x.pc /\ y.sr = x.sr /\ y.sr_save = x.sr_save /\ y.stk = x.stk
  BY DEF Owing, Ok, Machine, Same
<1> HIDE DEF y
<1>2. Fine(y)
  BY <1>1 DEF Owing, Ok, Fine, Same, faulted, prefetch_enabled
<1>3. Plain(x) => Plain(y)
  BY <1>1 DEF Plain
<1>4. Settled(x) /\ ~faulted(x) => Settled(y)
  BY <1>1 DEF Settled, is_halted, faulted
<1> QED BY <1>1, <1>2, <1>3, <1>4 DEF Ok, y

\* A STOP that gets its operand stops; one that loses it must not
LEMMA StopEnds ==
    ASSUME NEW x, Ok(x), Runs(x), ~faulted(x), ~Odd(x.pc), NEW s \in BOOLEAN,
           Good(x) => CodeRegion(x.pc) \notin x.bad
    PROVE  Ends(x, stop(x, s))
<1>0. Unhurt(x) /\ ~x.exception_processing
  BY DEF Unhurt, Runs
<1>1. CASE ~x.sr.s
  BY <1>0, <1>1, PrivilegeEnters, EntersGoes, GoesEnds DEF stop
<1>2. CASE x.sr.s
  <2> DEFINE r == ReadStream(x).m
             sr == IF faulted(r) THEN ZeroSR ELSE [ZeroSR EXCEPT !.s = s]
             p == [r EXCEPT !.ppc = r.pc]
             y == set_sr(r, sr)
             t == [y EXCEPT !.stopped = 1]
  <2>1. Goes(x, r) /\ Owing(r) /\ (Good(x) => ~faulted(r) /\ Settled(r))
    <3>1. /\ Goes(x, r)
          /\ faulted(r) /\ ~faulted(x) => r.fault_resume # NoResume
          /\ faulted(r) => Odd(x.pc) \/ faulted(x) \/ CodeRegion(x.pc) \in x.bad
      BY ReadStreamGoes
    <3> HIDE DEF r
    <3> QED BY <1>0, <3>1, GoesOk DEF Owing, Good
  <2>2. stop(x, s) = IF r.cpu_type = "M68060" /\ ~sr.s THEN exception_privilege(p) ELSE t
    BY <1>2 DEF stop, Stop, StopWith
  <2> HIDE DEF r
  <2>3. sr \in SR /\ sr \in PlainSR
    <3>1. ZeroSR \in SR /\ ~ZeroSR.t1 /\ ~ZeroSR.t0
      BY ConstantTypes DEF ZeroSR
    <3>2. /\ [ZeroSR EXCEPT !.s = s] \in SR
          /\ ~[ZeroSR EXCEPT !.s = s].t1 /\ ~[ZeroSR EXCEPT !.s = s].t0
      BY <3>1 DEF SR
    <3> QED BY <3>1, <3>2 DEF PlainSR
  <2> HIDE DEF sr
  <2>4. CASE r.cpu_type = "M68060" /\ ~sr.s
    <3>1. r.pc \in Int /\ r \in Machine
      BY <2>1 DEF Owing, Ok, Machine
    <3>2. p \in Machine /\ Held(r, p) /\ p.pc = r.pc /\ p.sr = r.sr /\ p.stk = r.stk
          /\ p.cpu_type = r.cpu_type
      BY <3>1 DEF Machine, Held, Same
    <3> HIDE DEF p
    <3>3. Goes(r, p) /\ Ok(p) /\ ~p.exception_processing
      BY <2>1, <3>2, DataGoes, GoesOk DEF Owing
    <3>4. Unhurt(p)
      BY <2>4, <3>2 DEF Unhurt, prefetch_enabled
    <3>5. Goes(p, exception_privilege(p))
      BY <3>3, <3>4, PrivilegeEnters, EntersGoes
    <3>6. Goes(x, exception_privilege(p))
      BY <2>1, <3>3, <3>5, GoesTrans
    <3> QED BY <2>2, <2>4, <3>6, GoesEnds
  <2>5. CASE ~(r.cpu_type = "M68060" /\ ~sr.s)
    <3>1. Held(r, y) /\ y.pc = r.pc /\ y \in Machine /\ (Plain(r) => Plain(y))
      BY <2>1, <2>3, SetSrHeld DEF Owing, Ok
    <3> HIDE DEF y
    <3>2. Owing(y) /\ (Settled(r) => Settled(y)) /\ (~faulted(r) => ~faulted(y)) /\ Same(r, y)
          /\ y.nested = r.nested
      BY <2>1, <3>1, HeldOwing DEF Settled, Held, is_halted, faulted
    <3>3. /\ Ok(t) /\ Same(y, t) /\ (Plain(y) => Plain(t)) /\ t.nested = y.nested
          /\ Settled(y) /\ ~faulted(y) => Settled(t)
      BY <3>2, StoppedEnds
    <3> HIDE DEF t
    <3>4. Same(x, t) /\ (Plain(x) => Plain(t))
      BY <2>1, <3>1, <3>2, <3>3, SameTrans, GoesOk
    <3>5. Good(x) => Settled(t) /\ (t.nested => x.nested \/ "vec" \in x.bad)
      BY <2>1, <3>2, <3>3 DEF Goes, Settles
    <3> QED BY <2>2, <2>5, <3>3, <3>4, <3>5 DEF Ends
  <2> QED BY <2>4, <2>5
<1> QED BY <1>1, <1>2

LEMMA HaltEnds ==
    ASSUME NEW x, Ok(x), ~x.exception_processing, ~faulted(x)
    PROVE  Ends(x, halt060(x))
<1>1. CASE ~x.sr.s
  <2>1. Unhurt(x)
    BY DEF Unhurt
  <2> QED BY <1>1, <2>1, PrivilegeEnters, EntersGoes, GoesEnds DEF halt060
<1>2. CASE x.sr.s
  <2>1. Owing(x)
    BY DEF Owing
  <2> QED BY <1>2, <2>1, StoppedEnds DEF halt060, Ends, Good
<1> QED BY <1>1, <1>2

\* An instruction that has been fetched and decoded as op
Fetched(x, op) ==
    /\ Ok(x) /\ ~x.exception_processing /\ ~faulted(x) /\ ~Odd(x.pc)
    /\ Good(x) => x.stopped = 0
    /\ Good(x) /\ op \in Stops => CodeRegion(x.pc) \notin x.bad

LEMMA DispatchEnds ==
    ASSUME NEW x, NEW op, Fetched(x, op)
    PROVE  Ends(x, dispatch_instruction(x, op))
<1>0. Ok(x) /\ x \in Machine /\ Runs(x) /\ Unhurt(x) /\ ~faulted(x) /\ ~x.exception_processing
      /\ ~Odd(x.pc)
  BY DEF Fetched, Ok, Runs, Unhurt
<1>1. Ends(x, x)
  BY <1>0, GoesRefl, GoesEnds
<1>2. Ends(x, Jump(x, Origin)) /\ Ends(x, Jump(x, Subroutine + 1))
  <2>1. Subroutine + 1 \in Int
    BY ConstantTypes
  <2> QED BY <1>0, <2>1, ConstantTypes, JumpGoes, GoesEnds
<1>3. Ends(x, take_group2_exception(x, ZERO_DIVIDE))
  BY <1>0, VectorTypes, TakeGroup2Goes, EntersGoes, GoesEnds
<1>4. Ends(x, [x EXCEPT !.dar.a7 = @ + 8])
  <2> DEFINE y == [x EXCEPT !.dar.a7 = @ + 8]
  <2>0. \A n \in Int : LET z == [x EXCEPT !.dar.a7 = @ + n]
                       IN  Held(x, z) /\ z.pc = x.pc /\ z.sr = x.sr /\ z.stk = x.stk /\ z \in Machine
    BY <1>0, MoveA7Held
  <2>1. Held(x, y) /\ y.pc = x.pc /\ y.sr = x.sr /\ y.stk = x.stk /\ y \in Machine
    BY <2>0
  <2> HIDE DEF y
  <2>2. Goes(x, y)
    BY <1>0, <2>1, DataGoes
  <2> QED BY <2>2, GoesEnds DEF y
<1>5. op \in Stops => Ends(x, stop(x, TRUE)) /\ Ends(x, stop(x, FALSE))
  BY <1>0, StopEnds DEF Fetched
<1>6. Ends(x, [x EXCEPT !.astray = TRUE])
  BY <1>0, AstrayGoes, GoesEnds
<1>7. /\ Ends(x, rmw(x)) /\ Ends(x, pinc(x)) /\ Ends(x, jsr(x)) /\ Ends(x, rts(x))
      /\ Ends(x, rte(x)) /\ Ends(x, halt060(x))
  BY <1>0, RmwGoes, PincGoes, JsrGoes, RtsGoes, RteEnds, HaltEnds, GoesEnds
<1> QED BY <1>1, <1>2, <1>3, <1>4, <1>5, <1>6, <1>7 DEF dispatch_instruction, Stops

\* The exception of a trap, at its own address or after it
LEMMA TakeTrapEnters ==
    ASSUME NEW x, NEW op, Ok(x), ~x.exception_processing, ~faulted(x)
    PROVE  /\ Enters(x, TakeTrap(x, op))
           /\ Ready(x) => TakeTrap(x, op).fault_resume = x.fault_resume
<1>0. Unhurt(x)
  BY DEF Unhurt
<1>1. CASE op # "aline"
  BY <1>0, <1>1, VectorTypes, TakeExceptionGoes DEF TakeTrap
<1>2. CASE op = "aline"
  <2> DEFINE b == [x EXCEPT !.pc = x.ppc]
             y == take_exception(b, LINE_1010)
  <2>1. /\ Held(x, b) /\ b.sr = x.sr /\ b \in Machine /\ (Plain(x) => Plain(b))
    <3>1. x \in Machine /\ x.ppc \in Int
      BY DEF Ok, Machine
    <3> QED BY <3>1, SetPcDelivers
  <2> HIDE DEF b
  <2>2. Safely(x, b) /\ Ok(b) /\ ~b.exception_processing /\ Unhurt(b)
    BY <2>1, HeldSafely DEF Safely, Reaches, Held, Same, Unhurt, faulted
  <2>3. (Ready(x) => Ready(b)) /\ Steady(x, b) /\ b.bad = x.bad
    BY <2>1, HeldUnfilled, HeldRefusals, HeldSteady DEF Ready, Held, Same
  <2>4. Enters(b, y) /\ (Ready(b) => y.fault_resume = b.fault_resume)
    BY <2>2, VectorTypes, TakeExceptionGoes
  <2> HIDE DEF y
  <2>5. Safely(x, y)
    BY <2>2, <2>4, SafelyTrans DEF Enters
  <2>6. Enters(x, y) /\ (Ready(x) => y.fault_resume = x.fault_resume)
    BY <2>3, <2>4, <2>5 DEF Enters, Taken, Steady, faulted
  <2> QED BY <1>2, <2>6 DEF TakeTrap, b, y
<1> QED BY <1>1, <1>2

----------------------------------------------------------------------------
(* The end of an instruction *)

\* What a call into the CPU leaves.  With the vectors refused it must not trace or
\* interrupt
Calm(x) == "vec" \in x.bad => Plain(x) /\ x.int_level = 0

Arrives(x, y) ==
    /\ Ok(y) /\ (faulted(y) => y.sr.s)
    /\ y.cpu_type = x.cpu_type /\ y.prog = x.prog /\ y.bad = x.bad
    /\ y.int_level = x.int_level \/ y.int_level = 0
    /\ Plain(x) => Plain(y)
Lands(x, y) ==
    /\ Arrives(x, y)
    /\ Good(x) /\ Calm(x) => /\ Settled(y) /\ y.fault_resume = NoResume
                             /\ y.nested => x.nested \/ "vec" \in x.bad

LEMMA EndsLands ==
    ASSUME NEW x, NEW y, NEW z, Ends(x, y), Lands(y, z)
    PROVE  Lands(x, z)
<1>1. /\ y.cpu_type = x.cpu_type /\ y.prog = x.prog /\ y.bad = x.bad
      /\ y.int_level = x.int_level /\ (Plain(x) => Plain(y))
  BY DEF Ends, Same
<1>2. Good(x) => Good(y)
  BY SameGood DEF Ends
<1>3. Calm(x) => Calm(y)
  BY <1>1 DEF Calm
<1>4. Good(x) => (y.nested => x.nested \/ "vec" \in x.bad)
  BY DEF Ends
<1> QED BY <1>1, <1>2, <1>3, <1>4 DEF Lands, Arrives

LEMMA HeldLands ==
    ASSUME NEW x, NEW y, NEW z \in Machine, Lands(x, y), Held(y, z), z.pc = y.pc, z.sr = y.sr,
           z.stk \subseteq y.stk
    PROVE  Lands(x, z)
<1>1. Plain(y) => Plain(z)
  BY HeldPlain
<1>2. Ok(z) /\ (Settled(y) => Settled(z))
  BY DEF Lands, Arrives, Ok, Fine, Held, Same, faulted, prefetch_enabled, Settled, is_halted
<1> QED BY <1>1, <1>2 DEF Lands, Arrives, Held, Same, faulted

LEMMA EndFaultedLands ==
    ASSUME NEW x, Ok(x), ~x.exception_processing, faulted(x)
    PROVE  LET y == end_faulted_instruction(x)
           IN  /\ Lands(x, y) /\ y.stopped = x.stopped
               /\ x.stopped # 0 => y.run_mode = x.run_mode
<1>m. x \in Machine /\ Fine(x)
  BY DEF Ok
<1> DEFINE res == x.fault_resume
           b == [set_sr_noint_nosp(x, res.sr) EXCEPT
                      !.pc = res.pc, !.dar = res.dar, !.fault_resume = NoResume]
           c == IF res = NoResume THEN x ELSE b
           y == IF c.stopped # 0 THEN c ELSE [c EXCEPT !.run_mode = Normal]
<1>0. end_faulted_instruction(x) = y
  BY DEF end_faulted_instruction, res, b, c, y
<1>1. /\ c \in Machine /\ Same(x, c) /\ c.run_mode = x.run_mode /\ c.stopped = x.stopped
      /\ c.nested = x.nested /\ c.queue = x.queue /\ c.sr.s /\ c.fault_resume = NoResume
      /\ c.sr_save = x.sr_save /\ c.stk = x.stk
      /\ Plain(x) => c.sr \in PlainSR
      /\ res # NoResume => c.pc = res.pc
  <2>1. CASE res = NoResume
    <3>1. c = x
      BY <2>1
    <3> HIDE DEF c
    <3> QED BY <1>m, <2>1, <3>1 DEF Same, Fine, Plain
  <2>2. CASE res # NoResume
    <3> DEFINE sr == SrMasked(x, res.sr)
               pc == res.pc
               dar == res.dar
    <3>1. res.sr \in SR /\ pc \in Int /\ dar \in Registers /\ res.sr.s
      BY <1>m, <2>2 DEF Machine, Fine
    <3>2. sr \in SR /\ sr.s /\ (Plain(x) => sr \in PlainSR)
      BY <1>m, <2>2, <3>1, SrMaskedType, SrMaskedKeepsS DEF Plain
    <3>3. b = [x EXCEPT !.sr = sr, !.pc = pc, !.dar = dar, !.fault_resume = NoResume]
      BY DEF set_sr_noint_nosp
    <3>4. c = b
      BY <2>2
    <3> HIDE DEF sr, pc, dar, b, c
    <3>5. /\ c \in Machine /\ Same(x, c) /\ c.run_mode = x.run_mode /\ c.stopped = x.stopped
          /\ c.nested = x.nested /\ c.queue = x.queue /\ c.sr = sr /\ c.fault_resume = NoResume
          /\ c.sr_save = x.sr_save /\ c.stk = x.stk /\ c.pc = pc
      BY <1>m, <3>1, <3>2, <3>3, <3>4 DEF Machine, Same
    <3> QED BY <3>2, <3>5 DEF pc
  <2> QED BY <2>1, <2>2
<1> HIDE DEF c
<1>2. /\ y \in Machine /\ Same(c, y) /\ y.stopped = c.stopped
      /\ y.run_mode = (IF c.stopped # 0 THEN c.run_mode ELSE Normal)
      /\ y.nested = c.nested /\ y.queue = c.queue /\ y.sr = c.sr
      /\ y.fault_resume = c.fault_resume /\ y.sr_save = c.sr_save /\ y.stk = c.stk
      /\ y.pc = c.pc
  <2>1. CASE c.stopped # 0
    BY <1>1, <2>1 DEF Same
  <2>2. CASE c.stopped = 0
    <3> DEFINE n == [c EXCEPT !.run_mode = Normal]
    <3>1. y = n
      BY <2>2
    <3>2. /\ n \in Machine /\ Same(c, n) /\ n.stopped = c.stopped /\ n.run_mode = Normal
          /\ n.nested = c.nested /\ n.queue = c.queue /\ n.sr = c.sr
          /\ n.fault_resume = c.fault_resume /\ n.sr_save = c.sr_save /\ n.stk = c.stk
          /\ n.pc = c.pc
      BY <1>1 DEF Machine, Same
    <3> HIDE DEF y, n
    <3> QED BY <2>2, <3>1, <3>2
  <2> QED BY <2>1, <2>2
<1> HIDE DEF y
<1>3. Ok(y)
  <2>1. Fine(y)
    BY <1>m, <1>1, <1>2 DEF Fine, Same, prefetch_enabled
  <2> QED BY <1>2, <2>1 DEF Ok
<1>4. Plain(x) => Plain(y)
  BY <1>1, <1>2 DEF Plain
<1>5. Good(x) => Settled(y)
  <2> SUFFICES ASSUME Good(x) PROVE Settled(y)
    OBVIOUS
  <2>1. CASE x.stopped = 0
    <3>1. res # NoResume /\ QueueAt(x.queue, res.pc) /\ ~x.nested
      BY <2>1 DEF Good, Settled, is_halted
    <3>2. y.run_mode # Fault
      BY <1>1, <1>2, <2>1 DEF Normal, Fault
    <3> HIDE DEF res
    <3> QED BY <1>1, <1>2, <2>1, <3>1, <3>2 DEF Settled, is_halted, faulted
  <2>2. CASE x.stopped # 0
    BY <1>1, <1>2, <2>2 DEF Good, Settled, is_halted, faulted
  <2> QED BY <2>1, <2>2
<1>6. Lands(x, y)
  BY <1>1, <1>2, <1>3, <1>4, <1>5 DEF Lands, Arrives, Same
<1> QED BY <1>0, <1>1, <1>2, <1>6

\* The trace exception, which ends a STOP too
LEMMA TraceEnters ==
    ASSUME NEW x, Ok(x), Unhurt(x)
    PROVE  LET y == exception_trace(x)
           IN  /\ Ok(y) /\ Same(x, y) /\ y.sr.s
               /\ Plain(x) => Plain(y)
               /\ Good(x) /\ ~faulted(x) /\ "vec" \notin x.bad => Settled(y) /\ ~faulted(y)
<1> DEFINE k == IF x.stopped % 2 = 1 THEN x.stopped - 1 ELSE x.stopped
           b == [x EXCEPT !.stopped = k]
           y == take_group2_exception(b, TRACE)
<1>0. exception_trace(x) = y
  BY DEF exception_trace, k, b
<1>1. k \in {0, 1}
  BY DEF Ok, Machine
<1> HIDE DEF k
<1>2. /\ b \in Machine /\ Same(x, b) /\ b.run_mode = x.run_mode
      /\ b.nested = x.nested /\ b.fault_resume = x.fault_resume /\ b.queue = x.queue
      /\ b.pc = x.pc /\ b.sr = x.sr /\ b.sr_save = x.sr_save /\ b.stk = x.stk
  BY <1>1 DEF Ok, Machine, Same
<1> HIDE DEF b
<1>3. Ok(b) /\ Unhurt(b) /\ (Plain(x) => Plain(b))
  <2>1. Fine(b)
    BY <1>2 DEF Ok, Fine, Same, faulted, prefetch_enabled
  <2>2. Unhurt(b)
    BY <1>2, HeldRefusals DEF Unhurt, faulted
  <2>3. Plain(x) => Plain(b)
    BY <1>2 DEF Plain
  <2> QED BY <1>2, <2>1, <2>2, <2>3 DEF Ok
<1>4. Enters(b, y)
  BY <1>3, VectorTypes, TakeGroup2Goes
<1> HIDE DEF y
<1>5. Ok(y) /\ Same(x, y) /\ y.sr.s /\ (Plain(x) => Plain(y))
  BY <1>2, <1>3, <1>4, SameTrans DEF Enters, Safely, Reaches
<1>6. Good(x) /\ ~faulted(x) /\ "vec" \notin x.bad =>
         Settled(y) /\ ~faulted(y)
  <2> SUFFICES ASSUME Good(x), ~faulted(x), "vec" \notin x.bad
               PROVE  Settled(y) /\ ~faulted(y)
    OBVIOUS
  <2>1. Refusals(b, b.bad) /\ b.bad = x.bad
    BY <1>2, HeldRefusals DEF Good, Same
  <2>2. Ready(b)
    BY <1>2, <2>1 DEF Ready, Unfilled, Good, Settled, is_halted, faulted
  <2>3. Settled(y) /\ Steady(b, y)
    BY <1>4, <2>1, <2>2 DEF Enters, Taken
  <2> QED BY <1>2, <2>3 DEF Good, Settled, Steady, is_halted, faulted
<1> QED BY <1>0, <1>5, <1>6

----------------------------------------------------------------------------
(* Interrupts and the end of a step *)

LEMMA ToInterruptStackReaches ==
    ASSUME NEW x, Ok(x), x.sr.s, NEW f \in FrameSet
    PROVE  LET y == ToInterruptStack(x, f)
           IN  /\ Reaches(x, y) /\ y.sr.s
               /\ Plain(x) /\ f.sr \in PlainSR => Plain(y)
               /\ Refusals(x, x.bad) => Held(x, y)
<1>m. x \in Machine
  BY DEF Ok
<1> DEFINE up == [x.sr EXCEPT !.s = TRUE, !.m = FALSE]
           isp == Rebank(x, up)
           g == [f EXCEPT !.fmt = "1", !.sr.s = TRUE]
           p == PushFrame(isp, g)
           sr == [x.sr EXCEPT !.m = FALSE]
           z == [x EXCEPT !.sr = sr]
<1>1. up \in SR /\ up.s /\ (x.sr \in PlainSR => up \in PlainSR)
      /\ sr \in SR /\ sr.s /\ (x.sr \in PlainSR => sr \in PlainSR)
  BY <1>m DEF Machine, SR, PlainSR
<1> HIDE DEF up, sr
<1>2. g \in FrameSet /\ g.fmt \in WholeFormats /\ (f.sr \in PlainSR => g.sr \in PlainSR)
  <2> DEFINE h == [f.sr EXCEPT !.s = TRUE]
  <2>1. h \in SR /\ (f.sr \in PlainSR => h \in PlainSR)
    BY DEF FrameSet, SR, PlainSR
  <2>2. g = [f EXCEPT !.fmt = "1", !.sr = h]
    OBVIOUS
  <2> HIDE DEF h, g
  <2>3. "1" \in Formats /\ "1" \in WholeFormats
    BY DEF Formats, WholeFormats
  <2> QED BY <2>1, <2>2, <2>3 DEF FrameSet
<1> HIDE DEF g
<1>3. Held(x, isp) /\ isp.pc = x.pc /\ isp.sr = up /\ isp.stk = x.stk /\ isp \in Machine
  BY <1>m, <1>1, RebankHeld
<1> HIDE DEF isp
<1>4. Held(x, z) /\ z.pc = x.pc /\ z.sr = sr /\ z.stk = x.stk /\ z \in Machine
  BY <1>m, <1>1 DEF Machine, Held, Same
<1> HIDE DEF z
<1>5. (Plain(x) => Plain(isp)) /\ (Plain(x) => Plain(z))
  BY <1>1, <1>3, <1>4, HeldPlain DEF Plain
<1>6. Goes(x, isp) /\ Ok(isp) /\ Goes(x, z)
  BY <1>1, <1>3, <1>4, <1>5, HeldGoes, GoesOk
<1>7. /\ Reaches(isp, p) /\ (Plain(isp) /\ g.sr \in PlainSR => Plain(p))
      /\ Refusals(isp, isp.bad) => Held(isp, p)
  BY <1>2, <1>6, PushFrameGoes
<1> HIDE DEF p
<1>8. Reaches(x, p) /\ p.sr.s /\ (Refusals(x, x.bad) => Held(x, p))
  <2>1. Reaches(x, p)
    BY <1>6, <1>7, ReachesTrans DEF Goes, Safely
  <2>2. Refusals(x, x.bad) => Held(x, p)
    BY <1>3, <1>7, HeldRefusals DEF Held, Same
  <2> QED BY <1>1, <1>3, <1>7, <2>1, <2>2 DEF Reaches
<1>9. Plain(x) /\ f.sr \in PlainSR => Plain(p)
  BY <1>2, <1>5, <1>7
<1>10. Goes(x, x) /\ Held(x, x)
  BY GoesRefl DEF Held, Same
<1>11. ToInterruptStack(x, f) \in {x, z, p}
  BY DEF ToInterruptStack, up, isp, g, p, sr, z
<1> QED BY <1>1, <1>4, <1>5, <1>6, <1>8, <1>9, <1>10, <1>11 DEF Goes, Safely

LEMMA EnterInterruptReaches ==
    ASSUME NEW x, Ok(x), Unhurt(x), x.sr.s, NEW f \in FrameSet, f.fmt \in WholeFormats
    PROVE  LET y == EnterInterrupt(x, f)
           IN  /\ Reaches(x, y) /\ y.sr.s /\ Taken(x, y)
               /\ Plain(x) /\ f.sr \in PlainSR => Plain(y)
<1> DEFINE p == PushFrame(x, f)
           z == ToInterruptStack(p, f)
           y == jump_vector(z, f.vec)
<1>1. /\ Reaches(x, p) /\ (Plain(x) /\ f.sr \in PlainSR => Plain(p))
      /\ Refusals(x, x.bad) => Held(x, p)
  BY PushFrameGoes
<1> HIDE DEF p
<1>2. Ok(p) /\ p.sr.s /\ (Refusals(x, x.bad) <=> Refusals(p, p.bad))
  BY <1>1, HeldRefusals DEF Reaches
<1>3. /\ Reaches(p, z) /\ z.sr.s /\ (Plain(p) /\ f.sr \in PlainSR => Plain(z))
      /\ Refusals(p, p.bad) => Held(p, z)
  BY <1>2, ToInterruptStackReaches
<1> HIDE DEF z
<1>4. Reaches(x, z) /\ (Refusals(x, x.bad) => Held(x, z))
  <2>1. Refusals(x, x.bad) => Held(x, z)
    BY <1>1, <1>2, <1>3, SameTrans DEF Held
  <2> QED BY <1>1, <1>3, <2>1, ReachesTrans
<1>5. Ok(z) /\ Unhurt(z) /\ (Ready(x) => Ready(z) /\ Steady(x, z)) /\ z.bad = x.bad
  <2>1. Ok(z) /\ Same(x, z)
    BY <1>4 DEF Reaches
  <2>2. Unhurt(z)
    BY <1>4, <2>1, HeldRefusals DEF Unhurt, Held, faulted
  <2>3. Ready(x) => Ready(z) /\ Steady(x, z)
    BY <1>4, <2>1, HeldRefusals, HeldUnfilled, HeldSteady DEF Ready
  <2> QED BY <2>1, <2>2, <2>3 DEF Same
<1>6. f.vec \in Nat
  BY DEF FrameSet
<1>7. Safely(z, y) /\ Taken(z, y)
  BY <1>5, <1>6, JumpVectorGoes
<1> HIDE DEF y
<1>8. Reaches(x, y) /\ y.sr.s
  BY <1>3, <1>4, <1>7, ReachesTrans DEF Safely, Reaches
<1>9. Taken(x, y)
  BY <1>5, <1>7 DEF Taken, Steady, faulted
<1>10. Plain(x) /\ f.sr \in PlainSR => Plain(y)
  BY <1>1, <1>3, <1>7 DEF Safely
<1> QED BY <1>8, <1>9, <1>10 DEF EnterInterrupt, p, z, y

\* An interrupt taken ends a STOP; none is pending at level 0
LEMMA CheckInterruptsArrives ==
    ASSUME NEW x, Ok(x), Unhurt(x), faulted(x) => x.sr.s
    PROVE  LET y == check_and_service_interrupts(x)
           IN  /\ Arrives(x, y)
               /\ x.int_level = 0 => y = x
               /\ Good(x) /\ ~faulted(x) /\ ("vec" \in x.bad => x.int_level = 0)
                     => Settled(y) /\ ~faulted(y)
<1>m. x \in Machine /\ x.int_level \in Levels
  BY DEF Ok, Machine
<1>0. x.int_level = 0 => ~Serviceable(x)
  BY <1>m DEF Serviceable, Machine, SR, Levels
<1>1. CASE ~Serviceable(x)
  <2>1. check_and_service_interrupts(x) = x
    BY <1>1 DEF check_and_service_interrupts
  <2> QED BY <2>1 DEF Arrives, Good
<1>2. CASE Serviceable(x)
  <2> DEFINE level == x.int_level
             e == EnterSupervisor(x)
             sr == [e.sr EXCEPT !.i = level]
             s == [e EXCEPT !.sr = sr]
             f == Frame("0", 24 + level, x.pc, x.sr)
             j == EnterInterrupt(s, f)
             owed == j.owed \cup {level}
             y == [j EXCEPT !.stopped = 0, !.int_level = 0, !.owed = owed]
  <2>0. check_and_service_interrupts(x) = y
    <3>1. service_interrupt(x, x.int_level) = [j EXCEPT !.stopped = 0]
      BY DEF service_interrupt, j, f, s, sr, e, level
    <3>2. [[j EXCEPT !.stopped = 0] EXCEPT !.int_level = 0, !.owed = @ \cup {level}]
          = [j EXCEPT !.stopped = 0, !.int_level = 0, !.owed = j.owed \cup {level}]
      <4> HIDE DEF j
      <4>1. [j EXCEPT !.stopped = 0].owed = j.owed
        OBVIOUS
      <4> QED BY <4>1
    <3> HIDE DEF j
    <3> QED BY <1>2, <3>1, <3>2 DEF check_and_service_interrupts
  <2>1. /\ Held(x, e) /\ e.pc = x.pc /\ e.sr.s /\ e.sr \in PlainSR
        /\ e.stk = x.stk /\ e \in Machine
    BY <1>m, EnterSupervisorHeld
  <2> HIDE DEF e
  <2>2. sr \in SR /\ sr.s /\ sr \in PlainSR
    BY <1>m, <2>1 DEF SR, PlainSR
  <2>3. /\ Held(x, s) /\ s.sr.s /\ s.sr \in PlainSR /\ s.stk = x.stk /\ s \in Machine
    <3> HIDE DEF sr
    <3>1. /\ Held(e, s) /\ s.sr = sr /\ s.stk = e.stk /\ s \in Machine
      BY <2>1, <2>2 DEF Machine, Held, Same
    <3> HIDE DEF s
    <3> QED BY <2>1, <2>2, <3>1 DEF Held, Same
  <2> HIDE DEF s, sr
  <2>4. Ok(s) /\ Unhurt(s) /\ (Ready(x) => Ready(s)) /\ Steady(x, s) /\ (Plain(x) => Plain(s))
        /\ Same(x, s) /\ s.bad = x.bad
    <3>1. Same(x, s) /\ s.bad = x.bad
      BY <2>3 DEF Held, Same
    <3>2. Plain(x) => Plain(s)
      BY <2>3, HeldPlain
    <3>3. Ok(s)
      BY <2>3, <3>2, HeldSafely DEF Safely, Reaches
    <3>4. Unhurt(s)
      BY <2>3, <3>1, HeldRefusals DEF Unhurt, Held, faulted
    <3>5. Ready(x) => Ready(s)
      BY <2>3, <3>1, HeldRefusals, HeldUnfilled DEF Ready
    <3> QED BY <2>3, <3>1, <3>2, <3>3, <3>4, <3>5, HeldSteady
  <2>5. f \in FrameSet /\ f.fmt \in WholeFormats /\ f.sr = x.sr
    <3>1. x.pc \in Int /\ x.sr \in SR /\ 24 + level \in Nat
      BY <1>m DEF Machine, Levels
    <3>2. "0" \in Formats /\ "0" \in WholeFormats
      BY DEF Formats, WholeFormats
    <3> HIDE DEF level
    <3> QED BY <3>1, <3>2, FrameType DEF Frame
  <2> HIDE DEF f
  <2>6. /\ Reaches(s, j) /\ j.sr.s /\ Taken(s, j)
        /\ Plain(s) /\ f.sr \in PlainSR => Plain(j)
    BY <2>3, <2>4, <2>5, EnterInterruptReaches
  <2> HIDE DEF j
  <2>7. j \in Machine /\ Fine(j) /\ Same(x, j) /\ owed \in SUBSET Levels /\ 0 \in Levels
    <3>1. j \in Machine /\ Fine(j) /\ Same(x, j)
      BY <2>4, <2>6, SameTrans DEF Reaches, Ok
    <3>2. j.owed \in SUBSET Levels
      BY <3>1 DEF Machine
    <3> QED BY <1>m, <3>1, <3>2 DEF Levels
  <2> HIDE DEF owed
  <2>8. /\ y \in Machine /\ y.cpu_type = j.cpu_type /\ y.prog = j.prog /\ y.bad = j.bad
        /\ y.int_level = 0 /\ y.exception_processing = j.exception_processing
        /\ y.run_mode = j.run_mode /\ y.stopped = 0
        /\ y.nested = j.nested /\ y.queue = j.queue /\ y.sr = j.sr /\ y.pc = j.pc
        /\ y.fault_resume = j.fault_resume /\ y.sr_save = j.sr_save /\ y.stk = j.stk
    BY <2>7 DEF Machine
  <2> HIDE DEF y
  <2>9. Ok(y) /\ y.sr.s
    <3>1. Fine(y)
      BY <2>7, <2>8 DEF Fine, faulted, prefetch_enabled
    <3> QED BY <2>6, <2>8, <3>1 DEF Ok
  <2>10. Plain(x) => Plain(y)
    <3>1. Plain(x) => Plain(j)
      BY <2>4, <2>5, <2>6 DEF Plain
    <3> QED BY <2>8, <3>1 DEF Plain
  <2>11. Arrives(x, y)
    BY <2>7, <2>8, <2>9, <2>10 DEF Arrives, Same
  <2>12. Good(x) /\ ~faulted(x) /\ "vec" \notin x.bad => Settled(y) /\ ~faulted(y)
    <3> SUFFICES ASSUME Good(x), ~faulted(x), "vec" \notin x.bad
                 PROVE  Settled(y) /\ ~faulted(y)
      OBVIOUS
    <3>1. Settled(j) /\ Steady(x, j)
      BY <2>4, <2>6, ReadyGood DEF Taken, Steady
    <3> QED BY <2>8, <3>1 DEF Settled, Steady, is_halted, faulted
  <2> QED BY <1>0, <1>2, <2>0, <2>11, <2>12
<1> QED BY <1>1, <1>2

LEMMA ArrivesTrans ==
    ASSUME NEW x, NEW y, NEW z, Arrives(x, y), Arrives(y, z)
    PROVE  Arrives(x, z)
  BY DEF Arrives

\* The prefetch, the trace exception and the interrupt that end an instruction
LEMMA CompleteLands ==
    ASSUME NEW x, Ok(x), ~x.exception_processing, StacksMapped => Good(x) /\ Calm(x),
           NEW sample \in BOOLEAN
    PROVE  Lands(x, Complete(x, sample))
<1>1. CASE faulted(x)
  BY <1>1, EndFaultedLands DEF Complete
<1>2. CASE ~faulted(x)
  <2> DEFINE t == top_up_prefetch(x)
             y == [t EXCEPT !.change_of_flow = FALSE]
             tr == exception_trace(y)
             r == Complete(x, sample)
  <2>1. Goes(x, t) /\ Ok(t) /\ (Refusals(x, x.bad) => Steady(x, t))
    BY TopUpGoes, GoesOk
  <2>0. \/ check_trace(t) /\ r = tr
        \/ check_trace(t) /\ r = check_and_service_interrupts(tr)
        \/ ~check_trace(t) /\ r = check_and_service_interrupts(y)
    BY <1>2 DEF Complete, Retire, EndInstruction, Boundary, t, y, tr
  <2> HIDE DEF t, r
  <2>2. y \in Machine /\ Held(t, y) /\ y.pc = t.pc /\ y.sr = t.sr /\ y.stk = t.stk
    BY <2>1 DEF Ok, Machine, Held, Same
  <2> HIDE DEF y
  <2>3. Goes(x, y) /\ Ok(y)
    BY <2>1, <2>2, DataGoes, GoesTrans, GoesOk
  <2>4. (faulted(y) => y.sr.s) /\ Arrives(x, y)
    BY <1>2, <2>3 DEF Goes, Safely, Reaches, Same, Arrives
  <2>5. StacksMapped => /\ Good(y) /\ ~faulted(y)
                        /\ "vec" \in y.bad => y.int_level = 0 /\ ~check_trace(t)
    <3> SUFFICES ASSUME StacksMapped
                 PROVE  /\ Good(y) /\ ~faulted(y)
                        /\ "vec" \in y.bad => y.int_level = 0 /\ ~check_trace(t)
      OBVIOUS
    <3>1. Good(x) /\ Calm(x) /\ Refusals(x, x.bad)
      BY DEF Good
    <3>2. Good(y) /\ ~faulted(y)
      BY <1>2, <2>1, <2>2, <2>3, <3>1, GoesOk DEF Steady, Held, faulted
    <3>3. y.bad = x.bad /\ y.int_level = x.int_level /\ (Plain(x) => Plain(t))
      BY <2>1, <2>3 DEF Goes, Safely, Reaches, Same
    <3>4. Plain(t) => ~check_trace(t)
      BY DEF Plain, check_trace, PlainSR
    <3> QED BY <3>1, <3>2, <3>3, <3>4 DEF Calm
  <2>6. Unhurt(y)
    BY <2>5 DEF Unhurt
  <2>7. /\ Ok(tr) /\ Same(y, tr) /\ tr.sr.s /\ (Plain(y) => Plain(tr))
        /\ Good(y) /\ ~faulted(y) /\ "vec" \notin y.bad => Settled(tr) /\ ~faulted(tr)
    BY <2>3, <2>6, TraceEnters
  <2> HIDE DEF tr
  <2>8. Arrives(x, tr)
    <3>1. Arrives(y, tr)
      BY <2>7 DEF Arrives, Same
    <3> QED BY <2>4, <3>1, ArrivesTrans
  <2>9. StacksMapped /\ check_trace(t) =>
           Good(tr) /\ ~faulted(tr) /\ "vec" \notin tr.bad
    BY <2>5, <2>7, SameGood DEF Same
  <2>10. ASSUME NEW a, Ok(a), a.sr.s \/ ~faulted(a), Arrives(x, a),
                StacksMapped => Good(a) /\ ~faulted(a) /\ ("vec" \in a.bad => a.int_level = 0)
         PROVE  LET z == check_and_service_interrupts(a)
                IN  Arrives(x, z) /\ (StacksMapped => Settled(z) /\ ~faulted(z))
    <3>1. Unhurt(a)
      BY <2>10 DEF Unhurt
    <3>2. LET z == check_and_service_interrupts(a)
          IN  /\ Arrives(a, z)
              /\ Good(a) /\ ~faulted(a) /\ ("vec" \in a.bad => a.int_level = 0)
                     => Settled(z) /\ ~faulted(z)
      BY <2>10, <3>1, CheckInterruptsArrives
    <3> QED BY <2>10, <3>2, ArrivesTrans
  <2>11. Arrives(x, r)
    <3>1. CASE check_trace(t) /\ r = tr
      BY <2>8, <3>1
    <3>2. CASE check_trace(t) /\ r = check_and_service_interrupts(tr)
      BY <2>7, <2>8, <2>9, <2>10, <3>2
    <3>3. CASE ~check_trace(t) /\ r = check_and_service_interrupts(y)
      BY <2>3, <2>4, <2>5, <2>10, <3>3
    <3> QED BY <2>0, <3>1, <3>2, <3>3
  <2>12. StacksMapped => Settled(r) /\ ~faulted(r)
    <3>1. CASE check_trace(t) /\ r = tr
      BY <2>9, <3>1 DEF Good
    <3>2. CASE check_trace(t) /\ r = check_and_service_interrupts(tr)
      BY <2>7, <2>8, <2>9, <2>10, <3>2
    <3>3. CASE ~check_trace(t) /\ r = check_and_service_interrupts(y)
      BY <2>3, <2>4, <2>5, <2>10, <3>3
    <3> QED BY <2>0, <3>1, <3>2, <3>3
  <2>13. Settled(r) /\ ~faulted(r) => r.fault_resume = NoResume /\ ~r.nested
    BY DEF Settled, is_halted, faulted
  <2> QED BY <2>11, <2>12, <2>13 DEF Lands, Good, r
<1> QED BY <1>1, <1>2

\* The privilege violation of a CPU stopped in user state
LEMMA WakeLands ==
    ASSUME NEW x, Ok(x), ~x.exception_processing, ~faulted(x)
    PROVE  LET y == stopped_supervisor_check(x)
           IN  /\ Arrives(x, y)
               /\ Good(x) => /\ Settled(y) /\ y.fault_resume = NoResume
                             /\ y.nested => "vec" \in x.bad
                             /\ y.stopped = 0 \/ y.nested
<1> DEFINE pc == x.pc - 4
           b == [x EXCEPT !.stopped = 0, !.ppc = pc]
           y == exception_privilege(b)
<1>0. stopped_supervisor_check(x) = y
  BY DEF stopped_supervisor_check, pc, b
<1>1. pc \in Int
  BY DEF Ok, Machine
<1> HIDE DEF pc
<1>2. /\ b \in Machine /\ Same(x, b) /\ b.run_mode = x.run_mode /\ b.stopped = 0
      /\ b.nested = x.nested /\ b.fault_resume = x.fault_resume /\ b.queue = x.queue
      /\ b.pc = x.pc /\ b.sr = x.sr /\ b.sr_save = x.sr_save /\ b.stk = x.stk
  BY <1>1 DEF Ok, Machine, Same
<1> HIDE DEF b
<1>3. Ok(b) /\ Unhurt(b) /\ ~b.exception_processing /\ ~faulted(b) /\ (Plain(x) => Plain(b))
  <2>1. Fine(b)
    BY <1>2 DEF Ok, Fine, Same, faulted, prefetch_enabled
  <2>2. ~faulted(b)
    BY <1>2 DEF faulted
  <2> QED BY <1>2, <2>1, <2>2 DEF Ok, Unhurt, Plain, Same
<1>4. Enters(b, y) /\ (Ready(b) => y.fault_resume = b.fault_resume)
  BY <1>3, PrivilegeEnters
<1> HIDE DEF y
<1>5. Arrives(x, y)
  BY <1>2, <1>3, <1>4 DEF Enters, Safely, Reaches, Arrives, Same
<1>6. Good(x) => /\ Settled(y) /\ y.fault_resume = NoResume
                 /\ y.nested => "vec" \in x.bad
                 /\ y.stopped = 0 \/ y.nested
  <2> SUFFICES ASSUME Good(x)
               PROVE  /\ Settled(y) /\ y.fault_resume = NoResume
                      /\ y.nested => "vec" \in x.bad
                      /\ y.stopped = 0 \/ y.nested
    OBVIOUS
  <2>1. Ready(b) /\ ~b.nested /\ b.bad = x.bad /\ b.fault_resume = NoResume
    BY <1>2, HeldRefusals DEF Ready, Unfilled, Good, Settled, is_halted, faulted, Same
  <2> QED BY <1>2, <1>4, <2>1 DEF Enters, Taken, Steady
<1> QED BY <1>0, <1>5, <1>6

LEMMA PruneHeld ==
    ASSUME NEW x \in Machine
    PROVE  LET y == Prune(x)
           IN  /\ Held(x, y) /\ y \in Machine /\ y.pc = x.pc /\ y.sr = x.sr
               /\ y.stk \subseteq x.stk
               /\ faulted(x) => y = x
<1> DEFINE live(c) == \E b \in {0, 4, 6} :
                      /\ StackRegion(c.at) = StackRegion(Banks[b] - 1)
                      /\ c.at >= (IF sp_index(x) = b THEN x.dar.a7 ELSE x.sp[b])
           kept == { c \in x.stk : live(c) }
           y == [x EXCEPT !.stk = kept]
<1>0. Prune(x) = IF faulted(x) THEN x ELSE y
  BY DEF Prune, kept, y
<1>1. kept \subseteq x.stk
  OBVIOUS
<1> HIDE DEF kept
<1>2. Held(x, y) /\ y.pc = x.pc /\ y.sr = x.sr /\ y.stk = kept
  BY DEF Machine, Held, Same
<1>3. Held(x, x)
  BY DEF Held, Same
<1>4. Prune(x) \in Machine
  BY PruneKeeps DEF Keeps
<1> HIDE DEF y
<1> QED BY <1>0, <1>1, <1>2, <1>3, <1>4

\* Only the guest's program stops
LEMMA StopOpcode ==
    ASSUME NEW x \in Machine, NEW w \in Int, OpAt(x, w) \in Stops
    PROVE  w \in UserCode /\ x.prog[w] \in Stops
<1>1. CASE w \in UserCode
  BY <1>1 DEF OpAt
<1>2. CASE w \notin UserCode
  <2>1. OpAt(x, w) \in {"pinc", "rts", "stray", "drop8", "rte"}
    BY <1>2 DEF OpAt
  <2> QED BY <2>1 DEF Stops
<1> QED BY <1>1, <1>2

LEMMA FetchGoes ==
    ASSUME NEW x, Ok(x), ~x.exception_processing,
           StacksMapped => /\ Good(x)
                           /\ (~faulted(x) /\ x.stopped = 0) \/ (faulted(x) /\ x.stopped # 0)
    PROVE  LET y == FetchOpcode(x).m
               op == OpAt(y, FetchOpcode(x).w)
           IN  /\ Goes(x, y)
               /\ faulted(x) => Steady(x, y)
               /\ ~faulted(y) => Fetched(y, op)
<1>m. x \in Machine
  BY DEF Ok
<1> DEFINE b == [x EXCEPT !.ppc = x.pc, !.dar_save = x.dar, !.sr_save = get_sr(x)]
           f == ReadStream(b)
           fm == f.m
           owed == { l \in fm.owed : faulted(f.m) \/ Handler(24 + l) # f.w }
           y == [fm EXCEPT !.owed = owed]
           op == OpAt(y, f.w)
<1>1. /\ b \in Machine /\ Same(x, b) /\ b.run_mode = x.run_mode /\ b.stopped = x.stopped
      /\ b.nested = x.nested /\ b.fault_resume = x.fault_resume /\ b.queue = x.queue
      /\ b.pc = x.pc /\ b.sr = x.sr /\ b.sr_save = x.sr /\ b.stk = x.stk
  BY <1>m DEF Machine, Same, get_sr
<1>0. FetchOpcode(x).m = y /\ FetchOpcode(x).w = f.w
  <2>1. f = [m |-> f.m, w |-> f.w]
    BY DEF ReadStream
  <2>2. FetchOpcode(x) = [f EXCEPT !.m.owed = owed]
    BY DEF FetchOpcode, Started, f, b, owed, fm
  <2> HIDE DEF f, owed
  <2> QED BY <2>1, <2>2 DEF y, fm
<1> HIDE DEF b
<1>2. Goes(x, b) /\ Steady(x, b)
  <2>1. Fine(b)
    BY <1>1 DEF Ok, Fine, Same, faulted, prefetch_enabled
  <2>2. Settled(x) => Settled(b)
    BY <1>1 DEF Settled, is_halted, faulted
  <2>3. Plain(x) => Plain(b)
    BY <1>1 DEF Plain
  <2> QED BY <1>1, <2>1, <2>2, <2>3
          DEF Goes, Safely, Reaches, Settles, Ok, Good, Steady, faulted
<1>3. Ok(b) /\ Runs(b) /\ (Good(b) => ~faulted(b) \/ b.stopped # 0)
  BY <1>1, <1>2, GoesOk DEF Runs, Good, faulted
<1>4. /\ Goes(b, fm)
      /\ ~faulted(fm) => ~Odd(fm.pc)
      /\ faulted(b) => Steady(b, fm)
      /\ ~prefetch_enabled(b) /\ ~faulted(fm) => f.w = b.pc /\ fm.pc = b.pc + 2
  BY <1>3, ReadStreamGoes
<1> HIDE DEF fm, f
<1>5. Goes(x, fm) /\ Ok(fm) /\ owed \in SUBSET Levels
  <2>1. Goes(x, fm) /\ Ok(fm)
    BY <1>2, <1>4, GoesTrans, GoesOk
  <2> QED BY <2>1 DEF Ok, Machine
<1> HIDE DEF owed
<1>6. y \in Machine /\ Held(fm, y) /\ y.pc = fm.pc /\ y.sr = fm.sr /\ y.stk = fm.stk
  BY <1>5 DEF Ok, Machine, Held, Same
<1> HIDE DEF y
<1>7. Goes(x, y) /\ Ok(y)
  BY <1>5, <1>6, DataGoes, GoesTrans, GoesOk
<1>8. faulted(x) => Steady(x, y)
  BY <1>2, <1>4, <1>6 DEF Steady, Held, faulted
<1>9. ASSUME ~faulted(y) PROVE Fetched(y, op)
  <2>1. ~faulted(x)
    BY <1>8, <1>9 DEF Steady, faulted
  <2>2. /\ ~y.exception_processing /\ ~Odd(y.pc)
        /\ Good(y) => y.stopped = 0
    <3>1. ~Odd(y.pc)
      BY <1>4, <1>6, <1>9 DEF Held, faulted
    <3>2. Good(y) => y.stopped = 0
      BY <1>7, <1>9, <2>1 DEF Goes, Settles, Good, Settled, is_halted, faulted
    <3> QED BY <1>7, <3>1, <3>2, GoesOk
  <2>3. ASSUME Good(y), op \in Stops PROVE CodeRegion(y.pc) \notin y.bad
    <3>1. CASE prefetch_enabled(y)
      BY <2>3, <3>1, CodeNotData DEF Good, Refusals
    <3>2. CASE ~prefetch_enabled(y)
      <4>1. ~prefetch_enabled(b) /\ ~faulted(fm)
        BY <1>3, <1>4, <1>6, <1>9, <3>2
           DEF Held, Same, Goes, Safely, Reaches, prefetch_enabled, faulted
      <4>2. f.w = x.pc /\ y.pc = x.pc + 2
        BY <1>1, <1>4, <1>6, <4>1
      <4>3. x.pc \in Int
        BY <1>m DEF Machine
      <4>4. x.pc \in UserCode /\ y.prog[x.pc] \in Stops
        BY <1>6, <2>3, <4>2, <4>3, StopOpcode
      <4>5. y.bad \subseteq {"data", "vec"}
        BY <2>3, <3>2, <4>4 DEF Good, Refusals
      <4>6. CodeRegion(y.pc) # "vec"
        BY <4>2, <4>4 DEF UserCode, CodeRegion, Origin
      <4> QED BY <4>5, <4>6, CodeNotData
    <3> QED BY <3>1, <3>2
  <2> QED BY <1>7, <1>9, <2>2, <2>3 DEF Fetched
<1> QED BY <1>0, <1>7, <1>8, <1>9

\* One instruction, from the fetch to its end
LEMMA InstructionLands ==
    ASSUME NEW x, NEW y, Ends(x, y), ~y.exception_processing,
           StacksMapped => Good(x) /\ Calm(x), NEW sample \in BOOLEAN
    PROVE  Lands(x, Complete(y, sample))
<1>1. Ok(y) /\ (StacksMapped => Good(y) /\ Calm(y))
  BY SameGood DEF Ends, Calm, Same
<1>2. Lands(y, Complete(y, sample))
  BY <1>1, CompleteLands
<1> QED BY <1>2, EndsLands

----------------------------------------------------------------------------
(* The invariant of the faults *)

LEMMA BootLeaves ==
    ASSUME NEW x \in Machine, NEW sr \in SR
    PROVE  LET z == Boot(x, sr)
           IN  /\ z \in Machine /\ Same(x, z) /\ z.run_mode = x.run_mode
               /\ z.stopped = x.stopped /\ z.fault_resume = x.fault_resume
               /\ z.queue = x.queue /\ z.sr_save = x.sr_save
               /\ ~z.nested /\ z.stk = {} /\ z.sr = SrMasked(x, sr)
<1> DEFINE msr == SrMasked(x, sr)
           y == [x EXCEPT !.sp = Banks, !.sr = msr]
           d == [r |-> 0, a7 |-> Banks[sp_index(y)]]
           z == [y EXCEPT !.dar = d, !.data = 0, !.stk = {}, !.nested = FALSE,
                          !.owed = {}, !.astray = FALSE]
<1>1. Boot(x, sr) = z
  BY DEF Boot, msr, y, d, z
<1> HIDE DEF d, msr
<1>2. y.sr = msr /\ Held(x, y) /\ DOMAIN y = DOMAIN x
  BY DEF Machine, Held, Same
<1>3. /\ Same(y, z) /\ z.run_mode = y.run_mode /\ z.stopped = y.stopped
      /\ z.fault_resume = y.fault_resume /\ z.queue = y.queue /\ z.sr_save = y.sr_save
      /\ ~z.nested /\ z.stk = {} /\ z.sr = y.sr
  BY DEF Machine, Same
<1> HIDE DEF y, z
<1>4. Boot(x, sr) \in Machine
  BY BootKeeps DEF Keeps
<1> QED BY <1>1, <1>2, <1>3, <1>4 DEF Held, Same, msr

LEMMA ResetLeaves ==
    ASSUME NEW x \in Machine
    PROVE  LET z == reset(x)
           IN  /\ z \in Machine /\ Same(x, z) /\ z.run_mode = Normal /\ z.stopped = 0
               /\ z.fault_resume = x.fault_resume /\ z.queue = <<>> /\ z.sr_save = x.sr_save
<1> DEFINE sr == [ZeroSR EXCEPT !.s = TRUE, !.i = 7]
           sp == [x.sp EXCEPT ![4] = IspBase, ![6] = IspBase]
           d == [x.dar EXCEPT !.a7 = IspBase]
           z == [x EXCEPT !.stopped = 0, !.run_mode = Normal, !.queue = <<>>, !.pc = Origin,
                          !.sr = sr, !.dar = d, !.sp = sp]
<1>1. reset(x) = z
  BY DEF reset, sr, sp, d, z
<1> HIDE DEF sr, sp, d
<1>2. /\ Same(x, z) /\ z.run_mode = Normal /\ z.stopped = 0
      /\ z.fault_resume = x.fault_resume /\ z.queue = <<>> /\ z.sr_save = x.sr_save
  BY DEF Machine, Same
<1>3. reset(x) \in Machine
  BY ResetKeeps DEF Keeps
<1> HIDE DEF z
<1> QED BY <1>1, <1>2, <1>3

\* Booted, the CPU runs with an empty queue and nothing of a fault left but, perhaps,
\* the state an earlier one saved
LEMMA BootedFacts ==
    ASSUME NEW x \in Machine, NEW sr \in SR, x.run_mode = Normal, x.stopped = 0,
           x.queue = <<>>, ~x.exception_processing,
           x.fault_resume # NoResume => x.fault_resume.sr.s
    PROVE  LET z == Boot(x, sr)
           IN  /\ Edge(z) /\ ~faulted(z) /\ z.stopped = 0 /\ ~z.nested
               /\ x.fault_resume = NoResume => Settled(z)
               /\ /\ sr \in PlainSR /\ x.sr_save \in PlainSR
                  /\ x.fault_resume # NoResume => x.fault_resume.sr \in PlainSR
                  => Plain(z)
<1> DEFINE z == Boot(x, sr)
<1>1. /\ z \in Machine /\ Same(x, z) /\ z.run_mode = x.run_mode
      /\ z.stopped = x.stopped /\ z.fault_resume = x.fault_resume
      /\ z.queue = x.queue /\ z.sr_save = x.sr_save
      /\ ~z.nested /\ z.stk = {} /\ z.sr = SrMasked(x, sr)
  BY BootLeaves
<1>2. sr \in PlainSR => z.sr \in PlainSR
  BY <1>1, SrMaskedKeepsS
<1> HIDE DEF z
<1>3. ~faulted(z)
  BY <1>1 DEF faulted, Normal, Fault
<1>4. Edge(z)
  BY <1>1, <1>3 DEF Edge, Fine, Same
<1>5. QueueAt(z.queue, z.pc)
  BY <1>1 DEF QueueAt
<1> QED BY <1>1, <1>2, <1>3, <1>4, <1>5 DEF Settled, Plain, is_halted, faulted, z

LEMMA InitFaultInv == Init => FaultInv
<1> SUFFICES ASSUME Init PROVE FaultInv
  OBVIOUS
<1>1. host \in Scenarios /\ Inv
  BY InitInv DEF Init
<1>2. PICK type \in host.models, p \in host.programs, sr \in host.srs :
         m = Boot(PowerOn(type, p), sr)
  BY DEF Init
<1> DEFINE on == PowerOn(type, p)
<1>3. on \in Machine /\ ~on.exception_processing /\ sr \in SR
  BY <1>1, HostTypes, PowerOnType
<1>4. /\ on.run_mode = Normal /\ on.stopped = 0 /\ on.queue = <<>>
      /\ on.fault_resume = NoResume /\ on.sr_save = ZeroSR /\ on.int_level = 0 /\ on.bad = {}
  BY DEF PowerOn
<1>5. ZeroSR \in PlainSR
  BY ConstantTypes DEF PlainSR, ZeroSR
<1>6. m = Boot(on, sr)
  BY <1>2
<1> HIDE DEF on
<1>7. /\ Edge(m) /\ ~faulted(m) /\ m.stopped = 0 /\ ~m.nested /\ Settled(m)
      /\ sr \in PlainSR => Plain(m)
  BY <1>3, <1>4, <1>5, <1>6, BootedFacts
<1>8. m.bad = {} /\ m.int_level = 0 /\ m.fault_resume = NoResume
  BY <1>3, <1>4, <1>6, BootLeaves DEF Same
<1> QED BY <1>1, <1>2, <1>7, <1>8 DEF FaultInv, Init

\* The CPU model and the guest program never change
Fixed == m'.cpu_type = m.cpu_type /\ m'.prog = m.prog

LEMMA FaultStep ==
    ASSUME FaultInv, Inv', host' = host, Edge(m'),
           m'.cpu_type = m.cpu_type, m'.prog = m.prog, m'.bad \subseteq host.faultable,
           host.irqs \subseteq {0} => m'.int_level = 0,
           host.srs \subseteq PlainSR => Plain(m'),
           surfaced' # "none" => ~faulted(m') /\ ~running',
           StacksMapped => /\ Settled(m') /\ m'.fault_resume = NoResume
                           /\ "vec" \notin host.faultable => ~m'.nested
                           /\ running' => m'.stopped = 0 \/ m'.nested
    PROVE  FaultInv' /\ Fixed
<1>1. StacksMapped' <=> StacksMapped
  BY DEF StacksMapped, Refusals, prefetch_enabled
<1> QED BY <1>1 DEF FaultInv, Fixed

\* What FaultInv promises a call into the CPU
LEMMA CallReady ==
    ASSUME FaultInv
    PROVE  /\ Ok(m) /\ ~m.exception_processing
           /\ StacksMapped => Good(m) /\ Calm(m) /\ m.fault_resume = NoResume
           /\ StacksMapped => (faulted(m) <=> m.nested) /\ (faulted(m) => m.stopped # 0)
           /\ StacksMapped /\ (m.stopped = 0 \/ running) =>
                 (~faulted(m) /\ m.stopped = 0) \/ (faulted(m) /\ m.stopped # 0)
<1>1. Ok(m) /\ ~m.exception_processing
  BY DEF FaultInv, Inv, TypeOK, LatchClear, Edge, Ok
<1>2. ASSUME StacksMapped PROVE Good(m) /\ Calm(m)
  <2>1. Refusals(m, m.bad)
    BY <1>2 DEF FaultInv, StacksMapped, Refusals
  <2>2. Calm(m)
    BY <1>2 DEF FaultInv, StacksMapped, Calm
  <2> QED BY <1>2, <2>1, <2>2 DEF FaultInv, Good
<1>3. ASSUME StacksMapped
      PROVE  (faulted(m) <=> m.nested) /\ (faulted(m) => m.stopped # 0)
  BY <1>3 DEF FaultInv, Settled, is_halted, faulted
<1> QED BY <1>1, <1>2, <1>3 DEF FaultInv

LEMMA GoesArrives ==
    ASSUME NEW x, NEW y, Safely(x, y), faulted(x) => x.sr.s
    PROVE  Arrives(x, y)
  BY DEF Safely, Reaches, Same, Arrives

\* One turn of a run loop, from the fetch to the boundary
LEMMA TurnLands ==
    ASSUME FaultInv, m.stopped = 0 \/ running
    PROVE  LET f == FetchOpcode(m)
               op == OpAt(f.m, f.w)
           IN  /\ Goes(m, f.m)
               /\ faulted(f.m) => Lands(m, Prune(end_faulted_instruction(f.m)))
               /\ ~faulted(f.m) =>
                     \A y \in {f.m, TakeTrap(f.m, op), dispatch_instruction(f.m, op)},
                        sample \in BOOLEAN : Lands(m, Prune(Complete(y, sample)))
<1> DEFINE f == FetchOpcode(m)
           x == f.m
           op == OpAt(x, f.w)
<1>1. Goes(m, x) /\ (~faulted(x) => Fetched(x, op))
  BY CallReady, FetchGoes
<1> HIDE DEF x, op
<1>2. /\ Ok(x) /\ ~x.exception_processing /\ Ends(m, x)
      /\ StacksMapped => Good(x) /\ Calm(x)
  BY <1>1, CallReady, GoesOk, GoesEnds DEF Calm, Same
<1>3. ASSUME NEW z, Lands(m, z) PROVE Lands(m, Prune(z))
  <2>1. z \in Machine
    BY <1>3 DEF Lands, Arrives, Ok
  <2> QED BY <1>3, <2>1, PruneHeld, HeldLands
<1>4. faulted(x) => Lands(m, Prune(end_faulted_instruction(x)))
  BY <1>2, <1>3, EndFaultedLands, EndsLands
<1>5. ASSUME ~faulted(x), NEW sample \in BOOLEAN, NEW y,
             y \in {x, TakeTrap(x, op), dispatch_instruction(x, op)}
      PROVE  Lands(m, Prune(Complete(y, sample)))
  <2>1. Ends(x, x) /\ Ends(x, TakeTrap(x, op))
    BY <1>2, <1>5, GoesRefl, TakeTrapEnters, EntersGoes, GoesEnds
  <2>2. Ends(x, dispatch_instruction(x, op))
    BY <1>1, <1>5, DispatchEnds
  <2>3. Ends(x, y)
    BY <1>5, <2>1, <2>2
  <2>4. ~y.exception_processing
    BY <1>2, <2>3 DEF Ends, Same
  <2> HIDE <1>5
  <2> QED BY <1>2, <1>3, <2>3, <2>4, InstructionLands, EndsLands
<1> QED BY <1>1, <1>4, <1>5 DEF x, op

\* What a call leaves when it lands
LEMMA LandsFaultInv ==
    ASSUME FaultInv, Inv', host' = host, Lands(m, m'),
           surfaced' # "none" => ~faulted(m') /\ ~running',
           StacksMapped => (running' => m'.stopped = 0 \/ m'.nested)
    PROVE  FaultInv' /\ Fixed
<1>1. Ok(m') /\ (faulted(m') => m'.sr.s) /\ m'.cpu_type = m.cpu_type /\ m'.prog = m.prog
      /\ m'.bad = m.bad /\ (m'.int_level = m.int_level \/ m'.int_level = 0)
      /\ (Plain(m) => Plain(m'))
  BY DEF Lands, Arrives
<1>2. Edge(m')
  BY <1>1 DEF Edge, Ok
<1>3. m.bad \subseteq host.faultable /\ (host.irqs \subseteq {0} => m.int_level = 0)
      /\ (host.srs \subseteq PlainSR => Plain(m))
      /\ (StacksMapped => ("vec" \notin host.faultable => ~m.nested))
  BY DEF FaultInv
<1>4. StacksMapped => /\ Settled(m') /\ m'.fault_resume = NoResume
                      /\ "vec" \notin host.faultable => ~m'.nested
  BY <1>3, CallReady DEF Lands
<1> QED BY <1>1, <1>2, <1>3, <1>4, FaultStep

\* A call into the CPU that faulted at its start finds it halted, and leaves it so
LEMMA EntryLands ==
    ASSUME FaultInv
    PROVE  LET x == check_and_service_interrupts(m)
               w == IF SupervisorWake(x) THEN stopped_supervisor_check(x) ELSE x
               z == Prune(w)
           IN  /\ Lands(m, z)
               /\ StacksMapped =>
                     ((x.stopped = 0 \/ SupervisorWake(x)) => z.stopped = 0 \/ z.nested)
<1> DEFINE x == check_and_service_interrupts(m)
           w == IF SupervisorWake(x) THEN stopped_supervisor_check(x) ELSE x
           z == Prune(w)
<1>m. Ok(m) /\ ~m.exception_processing /\ (faulted(m) => m.sr.s) /\ m \in Machine
  BY CallReady DEF FaultInv, Edge, Ok
<1>1. Unhurt(m)
  <2>1. StacksMapped /\ prefetch_enabled(m) => "vec" \notin host.faultable
    BY DEF StacksMapped, Refusals
  <2> QED BY <2>1, CallReady DEF Unhurt, FaultInv
<1>2. /\ Arrives(m, x)
      /\ m.int_level = 0 => x = m
      /\ Good(m) /\ ~faulted(m) /\ ("vec" \in m.bad => m.int_level = 0)
             => Settled(x) /\ ~faulted(x)
  BY <1>m, <1>1, CheckInterruptsArrives
<1>x. ~x.exception_processing
  BY <1>m, CheckInterruptsKeeps DEF Keeps
<1> HIDE DEF x
<1>3. StacksMapped => Settled(x) /\ x.fault_resume = NoResume /\ (x.nested => m.nested)
  <2> SUFFICES ASSUME StacksMapped
               PROVE  Settled(x) /\ x.fault_resume = NoResume /\ (x.nested => m.nested)
    OBVIOUS
  <2>1. Good(m) /\ Calm(m) /\ m.fault_resume = NoResume /\ (faulted(m) <=> m.nested)
    BY CallReady
  <2>2. CASE ~faulted(m)
    <3>1. Settled(x) /\ ~faulted(x)
      BY <1>2, <2>1, <2>2 DEF Calm
    <3> QED BY <3>1 DEF Settled, is_halted, faulted
  <2>3. CASE faulted(m)
    <3>1. "vec" \in host.faultable
      BY <2>1, <2>3 DEF FaultInv
    <3>2. m.int_level = 0
      BY <3>1 DEF StacksMapped, FaultInv
    <3> QED BY <1>2, <2>1, <3>2 DEF Good
  <2> QED BY <2>2, <2>3
<1>4. /\ Arrives(m, w)
      /\ StacksMapped => /\ Settled(w) /\ w.fault_resume = NoResume
                         /\ w.nested => m.nested \/ "vec" \in m.bad
                         /\ x.stopped = 0 \/ SupervisorWake(x) => w.stopped = 0 \/ w.nested
  <2>1. CASE ~SupervisorWake(x)
    BY <1>2, <1>3, <2>1
  <2>2. CASE SupervisorWake(x)
    <3> DEFINE v == stopped_supervisor_check(x)
    <3>1. Ok(x) /\ ~faulted(x) /\ x.bad = m.bad
      BY <1>2, <2>2 DEF SupervisorWake, Arrives
    <3>2. StacksMapped => Good(x)
      <4>1. StacksMapped => Refusals(m, m.bad)
        BY CallReady DEF Good
      <4> QED BY <1>2, <1>3, <4>1 DEF Arrives, Good, Refusals, prefetch_enabled
    <3>3. /\ Arrives(x, v)
          /\ Good(x) => /\ Settled(v) /\ v.fault_resume = NoResume
                        /\ v.nested => "vec" \in x.bad
                        /\ v.stopped = 0 \/ v.nested
      BY <1>x, <3>1, WakeLands
    <3> HIDE DEF v
    <3>4. Arrives(m, v)
      BY <1>2, <3>3, ArrivesTrans
    <3>5. w = v
      BY <2>2 DEF v
    <3> HIDE DEF w
    <3> QED BY <3>1, <3>2, <3>3, <3>4, <3>5
  <2> QED BY <2>1, <2>2
<1> HIDE DEF w
<1>5. w \in Machine /\ Lands(m, w)
  BY <1>4 DEF Lands, Arrives, Ok, Good
<1>6. Held(w, z) /\ Lands(m, z)
  BY <1>5, PruneHeld, HeldLands
<1> HIDE DEF z
<1> QED BY <1>4, <1>6 DEF Held, x, w, z

LEMMA NextFixed == FaultInv /\ [Next]_vars => FaultInv' /\ Fixed
<1> SUFFICES ASSUME FaultInv, [Next]_vars PROVE FaultInv' /\ Fixed
  OBVIOUS
<1>i. Inv' /\ m \in Machine /\ m' \in Machine /\ host \in Scenarios
  <2>1. Inv'
    BY NextInv DEF FaultInv
  <2> QED BY <2>1 DEF FaultInv, Inv, TypeOK
<1> DEFINE f == FetchOpcode(m)
           op == OpAt(f.m, f.w)
<1>t. m.stopped = 0 \/ running =>
         /\ Goes(m, f.m)
         /\ faulted(f.m) => Lands(m, Prune(end_faulted_instruction(f.m)))
         /\ ~faulted(f.m) =>
               \A y \in {f.m, TakeTrap(f.m, op), dispatch_instruction(f.m, op)},
                  sample \in BOOLEAN : Lands(m, Prune(Complete(y, sample)))
  BY TurnLands
<1> HIDE DEF f, op
<1>1. CASE Step
  <2>0. m.stopped = 0 /\ host' = host /\ ~running /\ running' = running
    BY <1>1 DEF Step
  <2>1. \/ faulted(f.m) /\ m' = Prune(end_faulted_instruction(f.m)) /\ surfaced' = "none"
        \/ ~faulted(f.m) /\ m' = f.m
        \/ /\ ~faulted(f.m) /\ surfaced' = "none"
           /\ m' = Prune(Complete(dispatch_instruction(f.m, op), FALSE))
    BY <1>1 DEF Step, f, op
  <2>2. CASE ~faulted(f.m) /\ m' = f.m
    <3>1. Lands(m, m')
      <4>1. Arrives(m, m')
        BY <1>t, <2>0, <2>2, GoesArrives DEF Goes, FaultInv, Edge
      <4> QED BY <1>t, <2>0, <2>2, <4>1 DEF Lands, Goes, Settles, Settled, is_halted, faulted
    <3> QED BY <1>i, <2>0, <2>2, <3>1, LandsFaultInv
  <2>3. CASE ~(~faulted(f.m) /\ m' = f.m)
    <3>1. Lands(m, m') /\ surfaced' = "none"
      BY <1>t, <2>0, <2>1, <2>3
    <3> QED BY <1>i, <2>0, <3>1, LandsFaultInv
  <2> QED BY <2>2, <2>3
<1>2. CASE StepStopped
  <2>0. host' = host /\ ~running /\ running' = running /\ surfaced' = "none" /\ SupervisorWake(m)
    BY <1>2 DEF StepStopped
  <2> DEFINE w == stopped_supervisor_check(m)
  <2>1. ~faulted(m)
    BY <2>0 DEF FaultInv, Edge, SupervisorWake
  <2>2. /\ Arrives(m, w)
        /\ Good(m) => /\ Settled(w) /\ w.fault_resume = NoResume
                      /\ w.nested => "vec" \in m.bad
    BY <2>1, CallReady, WakeLands
  <2>3. m' = Prune(w)
    BY <1>2 DEF StepStopped
  <2> HIDE DEF w
  <2>4. w \in Machine /\ Lands(m, w)
    BY <2>2 DEF Lands, Arrives, Ok
  <2>5. Lands(m, m')
    BY <2>3, <2>4, PruneHeld, HeldLands
  <2> QED BY <1>i, <2>0, <2>5, LandsFaultInv
<1>3. CASE TakeSurfaced
  <2>0. host' = host /\ ~running /\ running' = running /\ surfaced' = "none" /\ ~faulted(m)
    BY <1>3 DEF TakeSurfaced, FaultInv
  <2> DEFINE w == TakeTrap(m, surfaced)
  <2>1. Enters(m, w) /\ (Ready(m) => w.fault_resume = m.fault_resume)
    BY <2>0, CallReady, TakeTrapEnters
  <2>2. m' = Prune(w)
    BY <1>3 DEF TakeSurfaced
  <2> HIDE DEF w
  <2>3. Arrives(m, w)
    BY <2>0, <2>1, GoesArrives DEF Enters
  <2>4. Good(m) => /\ Settled(w) /\ w.fault_resume = NoResume
                   /\ w.nested => m.nested \/ "vec" \in m.bad
    BY <2>1, CallReady, ReadyGood DEF Enters, Taken, Steady, Good
  <2>5. w \in Machine /\ Lands(m, w)
    BY <2>3, <2>4 DEF Lands, Arrives, Ok
  <2>6. Lands(m, m')
    BY <2>2, <2>5, PruneHeld, HeldLands
  <2> QED BY <1>i, <2>0, <2>6, LandsFaultInv
<1>4. CASE HleStep
  <2>0. m.stopped = 0 /\ host' = host /\ ~running /\ running' = running /\ surfaced' = "none"
    BY <1>4 DEF HleStep
  <2>1. \/ faulted(f.m) /\ m' = Prune(end_faulted_instruction(f.m))
        \/ ~faulted(f.m) /\ \E handled \in BOOLEAN :
              m' = Prune(Complete(IF handled THEN f.m ELSE TakeTrap(f.m, op), FALSE))
        \/ ~faulted(f.m) /\ m' = Prune(Complete(dispatch_instruction(f.m, op), FALSE))
    BY <1>4 DEF HleStep, f, op
  <2>2. Lands(m, m')
    BY <1>t, <2>0, <2>1
  <2> QED BY <1>i, <2>0, <2>2, LandsFaultInv
<1>5. CASE ExecuteEntry
  <2> DEFINE x == check_and_service_interrupts(m)
             w == IF SupervisorWake(x) THEN stopped_supervisor_check(x) ELSE x
  <2>1. host' = host /\ surfaced' = "none"
    BY <1>5 DEF ExecuteEntry
  <2>2. m' = Prune(w) /\ running' = (x.stopped = 0 \/ SupervisorWake(x))
    BY <1>5 DEF ExecuteEntry
  <2>3. /\ Lands(m, m')
        /\ StacksMapped => (running' => m'.stopped = 0 \/ m'.nested)
    BY <2>2, EntryLands
  <2> QED BY <1>i, <2>1, <2>3, LandsFaultInv
<1>6. CASE ExecuteIteration
  <2>0. running /\ host' = host /\ surfaced' = surfaced /\ surfaced = "none"
        /\ (running' => m'.stopped = 0)
    BY <1>6 DEF ExecuteIteration, FaultInv
  <2>1. \/ faulted(f.m) /\ m' = Prune(end_faulted_instruction(f.m))
        \/ ~faulted(f.m) /\ \/ m' = Prune(Complete(TakeTrap(f.m, op), TRUE))
                            \/ m' = Prune(Complete(dispatch_instruction(f.m, op), TRUE))
    BY <1>6 DEF ExecuteIteration, f, op
  <2>2. Lands(m, m')
    BY <1>t, <2>0, <2>1
  <2> QED BY <1>i, <2>0, <2>2, LandsFaultInv
<1>7. CASE SetIrq
  <2>1. PICK l \in host.irqs : m' = [m EXCEPT !.int_level = l]
    BY <1>7 DEF SetIrq
  <2>2. host' = host /\ running' = running /\ surfaced' = surfaced
    BY <1>7 DEF SetIrq
  <2>3. /\ m'.cpu_type = m.cpu_type /\ m'.prog = m.prog /\ m'.bad = m.bad
        /\ m'.int_level = l /\ m'.sr = m.sr /\ m'.sr_save = m.sr_save /\ m'.stk = m.stk
        /\ m'.run_mode = m.run_mode /\ m'.stopped = m.stopped /\ m'.nested = m.nested
        /\ m'.fault_resume = m.fault_resume /\ m'.queue = m.queue /\ m'.pc = m.pc
        /\ m'.exception_processing = m.exception_processing
    BY <1>i, <2>1 DEF Machine
  <2>4. Edge(m') /\ (Plain(m) => Plain(m')) /\ (Settled(m) => Settled(m'))
    BY <2>3 DEF FaultInv, Edge, Fine, Plain, Settled, is_halted, faulted, prefetch_enabled
  <2>5. host.irqs \subseteq {0} => m'.int_level = 0
    BY <2>1, <2>3
  <2>6. faulted(m') <=> faulted(m)
    BY <2>3 DEF faulted
  <2> QED BY <1>i, <2>2, <2>3, <2>4, <2>5, <2>6, FaultStep DEF FaultInv
<1>8. CASE Remap
  <2>1. PICK r \in host.faultable :
           m' = [m EXCEPT !.bad = IF r \in @ THEN @ \ {r} ELSE @ \cup {r}]
    BY <1>8 DEF Remap
  <2> DEFINE bad == IF r \in m.bad THEN m.bad \ {r} ELSE m.bad \cup {r}
  <2>2. host' = host /\ running' = running /\ surfaced' = surfaced
    BY <1>8 DEF Remap
  <2>3. m' = [m EXCEPT !.bad = bad] /\ bad \subseteq host.faultable
    BY <2>1 DEF FaultInv
  <2> HIDE DEF bad
  <2>4. /\ m'.cpu_type = m.cpu_type /\ m'.prog = m.prog /\ m'.bad = bad
        /\ m'.int_level = m.int_level /\ m'.sr = m.sr /\ m'.sr_save = m.sr_save
        /\ m'.stk = m.stk
        /\ m'.run_mode = m.run_mode /\ m'.stopped = m.stopped /\ m'.nested = m.nested
        /\ m'.fault_resume = m.fault_resume /\ m'.queue = m.queue /\ m'.pc = m.pc
        /\ m'.exception_processing = m.exception_processing
    BY <1>i, <2>3 DEF Machine
  <2>5. Edge(m') /\ (Plain(m) => Plain(m')) /\ (Settled(m) => Settled(m'))
    BY <2>4 DEF FaultInv, Edge, Fine, Plain, Settled, is_halted, faulted, prefetch_enabled
  <2>6. faulted(m') <=> faulted(m)
    BY <2>4 DEF faulted
  <2> QED BY <1>i, <2>2, <2>3, <2>4, <2>5, <2>6, FaultStep DEF FaultInv
<1>9. CASE Reset
  <2>1. PICK sr \in host.srs : m' = Boot(reset(m), sr)
    BY <1>9 DEF Reset
  <2>2. host' = host /\ ~running /\ running' = running /\ surfaced' = "none" /\ sr \in SR
    BY <1>9, <1>i, HostTypes DEF Reset
  <2> DEFINE x == reset(m)
  <2>3. /\ x \in Machine /\ Same(m, x) /\ x.run_mode = Normal /\ x.stopped = 0
        /\ x.fault_resume = m.fault_resume /\ x.queue = <<>> /\ x.sr_save = m.sr_save
    BY <1>i, ResetLeaves
  <2>4. m' = Boot(x, sr)
    BY <2>1
  <2> HIDE DEF x
  <2>5. ~x.exception_processing /\ (x.fault_resume # NoResume => x.fault_resume.sr.s)
    BY <2>3, CallReady DEF Same, Ok, Fine
  <2>6. /\ Edge(m') /\ ~faulted(m') /\ m'.stopped = 0 /\ ~m'.nested
        /\ x.fault_resume = NoResume => Settled(m')
        /\ /\ sr \in PlainSR /\ x.sr_save \in PlainSR
           /\ x.fault_resume # NoResume => x.fault_resume.sr \in PlainSR
           => Plain(m')
    BY <2>2, <2>3, <2>4, <2>5, BootedFacts
  <2>7. /\ m'.cpu_type = m.cpu_type /\ m'.prog = m.prog /\ m'.bad = m.bad
        /\ m'.int_level = m.int_level /\ m'.fault_resume = m.fault_resume
    BY <2>2, <2>3, <2>4, BootLeaves DEF Same
  <2>8. host.srs \subseteq PlainSR => Plain(m')
    BY <2>1, <2>3, <2>6 DEF FaultInv, Plain
  <2> QED BY <1>i, <2>2, <2>3, <2>6, <2>7, <2>8, FaultStep DEF FaultInv
<1>10. CASE UNCHANGED vars
  BY <1>10, <1>i DEF vars, FaultInv, StacksMapped, Fixed
<1> QED
  BY <1>1, <1>2, <1>3, <1>4, <1>5, <1>6, <1>7, <1>8, <1>9, <1>10 DEF Next

LEMMA NextFaultInv == FaultInv /\ [Next]_vars => FaultInv'
  BY NextFixed

----------------------------------------------------------------------------
(* The halt *)

\* The hosts that cannot interrupt a halted CPU: no interrupt is raised, or only
\* step() and step_with_hle_handler() are called, which return at once when stopped
Uninterrupted == host.irqs \subseteq {0} \/ "execute" \notin host.apis

LEMMA HaltStays ==
    ASSUME FaultInv, Uninterrupted, Next, is_halted(m)
    PROVE  is_halted(m') \/ Reset
<1>m. Ok(m) /\ m \in Machine /\ faulted(m) /\ m.stopped # 0 /\ m.sr.s
  BY CallReady DEF FaultInv, Edge, Ok, is_halted, faulted
<1>1. ~Step /\ ~HleStep
  BY <1>m DEF Step, HleStep
<1>2. ~SupervisorWake(m) /\ ~StepStopped
  BY <1>m DEF SupervisorWake, StepStopped
<1>3. ~TakeSurfaced
  BY <1>m DEF TakeSurfaced, FaultInv
<1>4. CASE ExecuteEntry
  <2> DEFINE x == check_and_service_interrupts(m)
             w == IF SupervisorWake(x) THEN stopped_supervisor_check(x) ELSE x
  <2>1. m' = Prune(w) /\ host.irqs \subseteq {0}
    BY <1>4 DEF ExecuteEntry, Uninterrupted
  <2>2. m.int_level = 0
    BY <2>1 DEF FaultInv
  <2>3. x = m
    <3>1. ~Serviceable(m)
      BY <1>m, <2>2 DEF Serviceable, Machine, SR, Levels
    <3> QED BY <3>1 DEF check_and_service_interrupts
  <2> HIDE DEF x
  <2>4. w = m
    BY <1>2, <2>3
  <2> HIDE DEF w
  <2>5. m' = m
    BY <1>m, <2>1, <2>4, PruneHeld
  <2> QED BY <2>5
<1>5. CASE ExecuteIteration
  <2> DEFINE f == FetchOpcode(m)
             x == f.m
             y == end_faulted_instruction(x)
  <2>1. Goes(m, x) /\ Steady(m, x)
    <3>1. running
      BY <1>5 DEF ExecuteIteration
    <3> QED BY <1>m, <3>1, CallReady, FetchGoes
  <2>2. Ok(x) /\ ~x.exception_processing /\ faulted(x) /\ x.stopped # 0
    BY <1>m, <2>1, CallReady, GoesOk DEF Steady, faulted
  <2>3. m' = Prune(y)
    BY <1>5, <2>2 DEF ExecuteIteration
  <2> HIDE DEF x
  <2>4. y \in Machine /\ is_halted(y)
    BY <2>2, EndFaultedLands DEF Lands, Arrives, Ok, is_halted, faulted
  <2> HIDE DEF y
  <2>5. m' = y
    BY <2>3, <2>4, PruneHeld DEF is_halted, faulted
  <2> QED BY <2>4, <2>5
<1>6. CASE SetIrq
  <2>1. m'.stopped = m.stopped /\ m'.run_mode = m.run_mode
    BY <1>m, <1>6 DEF SetIrq, Machine
  <2> QED BY <2>1 DEF is_halted
<1>7. CASE Remap
  <2>1. m'.stopped = m.stopped /\ m'.run_mode = m.run_mode
    BY <1>m, <1>7 DEF Remap, Machine
  <2> QED BY <2>1 DEF is_halted
<1> QED BY <1>1, <1>2, <1>3, <1>4, <1>5, <1>6, <1>7 DEF Next

\* A CPU halted by a double fault executes nothing and stays halted until it is
\* reset, whatever the bus refuses, when no interrupt is raised or the host only
\* steps: execute() alone services interrupts before it looks at the stop level
THEOREM HaltsAreFinal == Spec /\ Uninterrupted => HaltedUntilReset
<1>1. Uninterrupted /\ [Next]_vars => Uninterrupted'
  <2>1. [Next]_vars => host' = host
    BY DEF Next, vars, Step, StepStopped, TakeSurfaced, HleStep, ExecuteEntry, ExecuteIteration,
           SetIrq, Remap, Reset
  <2> QED BY <2>1 DEF Uninterrupted
<1>2. FaultInv /\ Uninterrupted /\ [Next]_vars =>
         [is_halted(m) => is_halted(m') \/ Reset]_vars
  BY HaltStays
<1> QED BY <1>1, <1>2, InitFaultInv, NextFaultInv, PTL DEF Spec, HaltedUntilReset

\* Whenever the next fetch will use the prefetch queue it holds the words at PC and
\* PC + 2 and nothing else: on every model without a queue, whatever the bus refuses
\* and whoever calls; on the 68000 and 68010 while the bus refuses data only
THEOREM QueueHoldsTheStream ==
    Spec => []((prefetch_enabled(m) => host.faultable \subseteq {"data"}) => QueueCoherent)
<1>1. FaultInv => ((prefetch_enabled(m) => host.faultable \subseteq {"data"}) => QueueCoherent)
  <2> SUFFICES ASSUME FaultInv, prefetch_enabled(m) => host.faultable \subseteq {"data"},
                      m.run_mode = Normal
               PROVE  /\ Len(m.queue) <= 2
                      /\ \A k \in 1..Len(m.queue) : m.queue[k] = m.pc + 2 * (k - 1)
    BY DEF QueueCoherent
  <2>1. CASE ~prefetch_enabled(m)
    <3>1. m.queue = <<>>
      BY <2>1 DEF FaultInv, Edge, Fine
    <3> QED BY <3>1
  <2>2. CASE prefetch_enabled(m)
    <3>1. StacksMapped
      BY <2>2 DEF StacksMapped, Refusals
    <3>2. ~faulted(m)
      BY DEF faulted, Normal, Fault
    <3> QED BY <3>1, <3>2 DEF FaultInv, Settled, QueueAt
  <2> QED BY <2>1, <2>2
<1> QED BY <1>1, InitFaultInv, NextFaultInv, PTL DEF Spec

\* Between calls every fault is settled: only a double fault parks the CPU, and it
\* always does; after any other the CPU runs the handler, in the state the delivery
\* saved, and nothing of fault_resume is left.  So it is for every bus that maps the
\* stacks: with the queue it may refuse data, without it code, vectors and data, the
\* vectors only when nothing interrupts or traces
THEOREM FaultsAreSettled == Spec => [](StacksMapped => FaultsSettled)
<1>1. FaultInv => (StacksMapped => FaultsSettled)
  <2> SUFFICES ASSUME FaultInv, StacksMapped PROVE FaultsSettled
    OBVIOUS
  <2>1. Settled(m) /\ m.fault_resume = NoResume /\ m.run_mode \in {Normal, Fault}
    BY DEF FaultInv, Inv, TypeOK, Machine
  <2> QED BY <2>1 DEF Settled, FaultsSettled, is_halted, faulted
<1> QED BY <1>1, InitFaultInv, NextFaultInv, PTL DEF Spec
=============================================================================
