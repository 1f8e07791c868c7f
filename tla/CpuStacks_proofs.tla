-------------------------- MODULE CpuStacks_proofs --------------------------
(***************************************************************************)
(* No interrupt is lost, every frame pushed is popped, and exceptions are  *)
(* precise for the guest, for every loop of a guest and every host that    *)
(* Tame admits.                                                            *)
(*                                                                         *)
(* Every instruction, return and instruction end leaves the machine Whole, *)
(* or Due when it faulted (Outcome); each action then preserves Rested.    *)
(* The theorems are at the end.                                            *)
(***************************************************************************)
EXTENDS CpuFrames_proofs

----------------------------------------------------------------------------
(* Instructions *)

\* How an instruction ends: whole, or with a fault delivered
Outcome(x, d) == IF faulted(x) THEN Due(x, d) ELSE Whole(x, d)

LEMMA HandlesWhole ==
    ASSUME NEW x, NEW z, NEW v, NEW d, Handles(x, z, v, d),
           x.fault_resume = NoResume, ~x.nested, ~x.exception_processing
    PROVE  Whole(z, d) /\ Outcome(z, d) /\ Follows(x, z) /\ z.stopped = x.stopped
<1>1. Whole(z, d)
  BY DEF Handles, Firm, Same, Steady, Whole, SupervisorWake
<1> QED BY <1>1, FirmFollows DEF Whole, Stands, Outcome, Handles, Firm, Steady

LEMMA WholeOutcome == ASSUME NEW x, NEW d, Whole(x, d) PROVE Outcome(x, d)
  BY DEF Whole, Stands, Outcome

LEMMA DueOutcome == ASSUME NEW x, NEW d, Due(x, d) PROVE Outcome(x, d)
  BY DEF Due, Outcome

LEMMA WholeDeeper ==
    ASSUME NEW x, NEW d \in Int, Whole(x, d), NEW e \in Int, d <= e
    PROVE  Whole(x, e)
  BY StandsDeeper DEF Whole

\* y is x at rest: nothing stacked or popped, the registers and the data apart
Rests(x, y) ==
    /\ y \in Machine /\ Follows(x, y)
    /\ y.stk = x.stk /\ y.owed = x.owed /\ y.astray = x.astray
    /\ \A b \in {0, 4, 6} : SpOf(y, b) = SpOf(x, b)
    /\ SrMasked(y, y.sr) = y.sr

LEMMA RestsLive ==
    ASSUME NEW x, NEW y, Rests(x, y)
    PROVE  \A b \in {0, 4, 6} : Live(y, b) = Live(x, b)
  BY DEF Rests, Live

\* In the guest's code nothing is stacked, and nothing is owed
LEMMA GuestStands ==
    ASSUME NEW x, NEW d, NEW pc \in UserCode, Stands(x, pc, d), OwedStacked(x),
           NEW y, Rests(x, y), NEW q, GuestPc(x, q), Counted(y, q, 0)
    PROVE  Stands(y, q, d)
<1>1. \A b \in {0, 4, 6} : Live(x, b) = {} /\ SpOf(x, b) = Banks[b]
  BY GuestStacks DEF Stands, Sound
<1>2. \A b \in {0, 4, 6} : Live(y, b) = {} /\ SpOf(y, b) = Banks[b]
  BY <1>1, RestsLive DEF Rests
<1>3. GuestPc(y, q)
  BY DEF GuestPc, Rests, Follows
<1>4. ~y.astray
  BY DEF Stands, Sound, Shaped, Rests
<1>5. Sound(y, q)
  BY <1>2, <1>3, <1>4, GuestSound DEF Rests
<1>6. SuperLive(x) = {}
  BY <1>1 DEF SuperLive
<1>7. OwedAt(y, q)
  BY <1>6 DEF OwedStacked, OwedAt, Rests
<1>8. Tidy(y) /\ Deep(y, d)
  BY DEF Stands, Tidy, Deep, Rests
<1>9. Mild(y) /\ ~faulted(y)
  BY DEF Stands, Mild, Rests, Follows, faulted, prefetch_enabled
<1> QED BY <1>5, <1>7, <1>8, <1>9 DEF Stands, Rests

LEMMA AlikeRests ==
    ASSUME NEW x, NEW pc, NEW d, Stands(x, pc, d), NEW y \in Machine, Alike(x, y), Firm(x, y)
    PROVE  Rests(x, y)
<1>1. SrMasked(y, y.sr) = y.sr
  BY AlikeSound DEF Stands, Sound, Shaped
<1> QED BY <1>1, FirmFollows DEF Alike, StackSame, Guested, Rests

\* The guest's instruction at ppc
LEMMA GuestCode ==
    ASSUME NEW x, NEW d, Decoded(x, d), x.ppc \in UserCode
    PROVE  /\ AtGuest(x, x.ppc, SpOf(x, 4), SpOf(x, 6)) /\ GuestPc(x, x.ppc)
           /\ Counted(x, x.ppc, 0) /\ x.ppc \in Body(x.prog) /\ OpAt(x, x.ppc) = x.prog[x.ppc]
           /\ Stands(x, x.ppc, d) /\ OwedStacked(x) /\ x \in Machine /\ Mild(x) /\ ~faulted(x)
           /\ x.stopped = 0 /\ x.fault_resume = NoResume /\ ~x.nested /\ ~x.exception_processing
           /\ SrMasked(x, x.sr) = x.sr /\ x.sr \in SR /\ Counters(x)
<1>1. /\ Stands(x, x.ppc, d) /\ OwedStacked(x) /\ x \in Machine /\ Mild(x) /\ ~faulted(x)
      /\ x.stopped = 0 /\ x.fault_resume = NoResume /\ ~x.nested /\ ~x.exception_processing
  BY DEF Decoded, Saved
<1>2. AtGuest(x, x.ppc, SpOf(x, 4), SpOf(x, 6)) /\ SrMasked(x, x.sr) = x.sr
  BY <1>1, GuestStacks DEF Stands, Sound, Shaped
<1>3. x.sr \in SR /\ Counters(x)
  BY <1>1, MachineCounters DEF Machine
<1> QED BY <1>1, <1>2, <1>3 DEF AtGuest, GuestPc, OpAt

\* The guest goes on to the next word
LEMMA GuestNext ==
    ASSUME NEW x, NEW d, Decoded(x, d), x.ppc \in UserCode, Proper(x.prog),
           x.prog[x.ppc] \notin Operanded, x.prog[x.ppc] # "bra",
           NEW y, Rests(x, y),
           y.data = (IF x.prog[x.ppc] = "rmw" THEN (x.data + 1) % RegMod ELSE x.data),
           y.dar.r = (IF x.prog[x.ppc] = "pinc" THEN (x.dar.r + 1) % RegMod ELSE x.dar.r)
    PROVE  Stands(y, x.ppc + 2, d)
<1>1. /\ Counted(x, x.ppc, 0) /\ x.ppc \in Body(x.prog) /\ Stands(x, x.ppc, d) /\ OwedStacked(x)
      /\ Counters(x)
  BY GuestCode
<1>2. x.ppc \in {16, 18, 20} /\ x.ppc + 2 \in Body(x.prog) /\ x.prog[x.ppc + 2] # "ext"
  BY <1>1, BodyNext
<1>3. y.prog = x.prog
  BY DEF Rests, Follows
<1>4. x.prog[x.ppc] # "jsr"
  BY DEF Operanded
<1>5. Counted(y, x.ppc + 2, 0)
  BY <1>1, <1>2, <1>3, <1>4, CountNext
<1>6. GuestPc(x, x.ppc + 2)
  BY <1>2 DEF GuestPc
<1> QED BY <1>1, <1>5, <1>6, GuestStands

LEMMA StandsWhole ==
    ASSUME NEW x, NEW y, Follows(x, y), NEW d, Stands(y, y.pc, d), y.stopped = 0 \/ y.sr.s,
           x.fault_resume = NoResume, ~x.nested, ~x.exception_processing
    PROVE  Whole(y, d)
  BY DEF Follows, Whole, SupervisorWake

\* The end-of-instruction prefetch changes the queue only
LEMMA TopUpMild ==
    ASSUME NEW x \in Machine, Mild(x), NEW y, y = top_up_prefetch(x)
    PROVE  y \in Machine /\ Alike(x, y) /\ Firm(x, y) /\ y.pc = x.pc /\ y.ppc = x.ppc
<1> DEFINE Same1(u, z) == z \in Machine /\ Alike(u, z) /\ Firm(u, z) /\ z.pc = u.pc /\ z.ppc = u.ppc
<1>1. ASSUME NEW u \in Machine, Mild(u) PROVE Same1(u, top_up_prefetch_one(u))
  <2>1. CASE prefetch_enabled(u)
    <3>1. CodeRegion(u.pc + 2 * Len(u.queue)) \notin u.bad
      BY <1>1, <2>1, CodeNotData DEF Mild
    <3> DEFINE q == Append(u.queue, u.pc + 2 * Len(u.queue))
    <3>2. q \in Seq(Int)
      BY QueueTypes
    <3> HIDE DEF q
    <3>3. Same1(u, [u EXCEPT !.queue = q])
      BY <3>2, FieldAlike, SetQueueKeeps DEF Keeps
    <3>4. Same1(u, u)
      BY VerbatimAlike DEF Verbatim, Firm, Same, Steady
    <3>5. top_up_prefetch_one(u) \in {u, [u EXCEPT !.queue = q]}
      BY <3>1 DEF top_up_prefetch_one, q
    <3> HIDE DEF Same1
    <3> QED BY <3>3, <3>4, <3>5
  <2>2. CASE ~prefetch_enabled(u)
    <3>1. Same1(u, u)
      BY VerbatimAlike DEF Verbatim, Firm, Same, Steady
    <3>2. top_up_prefetch_one(u) = u
      BY <2>2 DEF top_up_prefetch_one
    <3> QED BY <3>1, <3>2
  <2> QED BY <2>1, <2>2
<1> DEFINE a == top_up_prefetch_one(x)
           b == top_up_prefetch_one(a)
<1>2. Same1(x, a) /\ Mild(a)
  BY <1>1, MildSame DEF Firm
<1> HIDE DEF a
<1>3. Same1(a, b)
  BY <1>1, <1>2
<1> HIDE DEF b
<1>4. Same1(x, b)
  BY <1>2, <1>3, StackSameTrans, FirmTrans DEF Alike
<1>5. Same1(x, x)
  BY VerbatimAlike DEF Verbatim, Firm, Same, Steady
<1>6. y \in {x, b}
  BY DEF top_up_prefetch, a, b
<1> QED BY <1>4, <1>5, <1>6

LEMMA FaultedTopUp == ASSUME NEW x, faulted(x) PROVE top_up_prefetch(x) = x
  BY DEF top_up_prefetch, top_up_prefetch_one

LEMMA JumpMild ==
    ASSUME NEW x \in Machine, Mild(x), ~faulted(x), NEW pc \in Int, NEW y, y = Jump(x, pc)
    PROVE  y \in Machine /\ Alike(x, y) /\ Firm(x, y) /\ y.pc = pc
<1> DEFINE a == [x EXCEPT !.pc = pc]
           b == [a EXCEPT !.change_of_flow = TRUE]
<1>1. a \in Machine /\ Alike(x, a) /\ Firm(x, a) /\ a.pc = pc
  BY FieldAlike, SetPcKeeps DEF Keeps
<1>2. y = full_prefetch(b)
  BY DEF Jump
<1> HIDE DEF a
<1>3. b = [a EXCEPT !.change_of_flow = TRUE]
  OBVIOUS
<1> HIDE DEF b
<1>4. b \in Machine /\ Alike(a, b) /\ Firm(a, b) /\ b.pc = pc
  BY <1>1, <1>3, FlowAlike, HeldFirm
<1>5. Mild(b) /\ ~faulted(b) /\ Firm(x, b) /\ Alike(x, b)
  <2>1. Firm(x, b) /\ Alike(x, b)
    BY <1>1, <1>4, FirmTrans, StackSameTrans DEF Alike
  <2> QED BY <2>1, MildSame DEF Firm, Steady, faulted
<1>6. y = Refilled(b)
  BY <1>2, <1>4, <1>5, MildFill
<1>7. y \in Machine /\ Alike(b, y) /\ Firm(b, y) /\ y.pc = pc
  BY <1>4, <1>6, RefilledAlike
<1> QED BY <1>5, <1>7, FirmTrans, StackSameTrans DEF Alike

----------------------------------------------------------------------------
\* An instruction that lets the guest go on to the next word
LEMMA NextOutcome ==
    ASSUME NEW x, NEW d \in 0..708, Decoded(x, d), x.ppc \in UserCode, Proper(x.prog),
           x.prog[x.ppc] \notin Operanded, x.prog[x.ppc] # "bra",
           NEW y, Rests(x, y), y.pc = x.ppc + 2, y.stopped = 0,
           y.data = (IF x.prog[x.ppc] = "rmw" THEN (x.data + 1) % RegMod ELSE x.data),
           y.dar.r = (IF x.prog[x.ppc] = "pinc" THEN (x.dar.r + 1) % RegMod ELSE x.dar.r)
    PROVE  Outcome(y, d + 92)
<1>1. Stands(y, x.ppc + 2, d)
  BY GuestNext
<1>2. x.fault_resume = NoResume /\ ~x.nested /\ ~x.exception_processing
  BY GuestCode
<1>3. Whole(y, d)
  BY <1>1, <1>2, StandsWhole DEF Rests
<1>4. Whole(y, d + 92)
  BY <1>3, WholeDeeper
<1> QED BY <1>4, WholeOutcome

LEMMA DataFields ==
    ASSUME NEW x \in Machine, NEW v \in 0..(RegMod - 1), NEW y, y = [x EXCEPT !.data = v]
    PROVE  /\ y \in Machine /\ Firm(x, y) /\ y.data = v /\ y.dar = x.dar /\ y.sp = x.sp /\ y.sr = x.sr
           /\ y.stk = x.stk /\ y.owed = x.owed /\ y.astray = x.astray /\ y.pc = x.pc
           /\ \A b \in {0, 4, 6} : SpOf(y, b) = SpOf(x, b)
<1>1. y \in Machine
  BY DEF Machine
<1>2. /\ y.data = v /\ y.dar = x.dar /\ y.sp = x.sp /\ y.sr = x.sr /\ y.cpu_type = x.cpu_type
      /\ y.stk = x.stk /\ y.owed = x.owed /\ y.astray = x.astray /\ y.pc = x.pc
  BY DEF Machine
<1>3. Firm(x, y)
  BY DEF Machine, Firm, Same, Steady
<1>4. \A b \in {0, 4, 6} : SpOf(y, b) = SpOf(x, b)
  BY <1>2 DEF SpOf, sp_index
<1> QED BY <1>1, <1>2, <1>3, <1>4

\* y is x with v in the register file
Loads(x, v, y) == y = [x EXCEPT !.dar.r = v]

LEMMA RegisterFields ==
    ASSUME NEW x \in Machine, NEW v \in 0..(RegMod - 1), NEW y, Loads(x, v, y)
    PROVE  /\ Residue(x, y) /\ y.dar.r = v /\ y.sr = x.sr /\ y.pc = x.pc /\ y.ppc = x.ppc
           /\ y.sr_save = x.sr_save /\ y.dar_save = x.dar_save
           /\ \A b \in {0, 4, 6} : SpOf(y, b) = SpOf(x, b)
<1> DEFINE e == [x.dar EXCEPT !.r = v]
<1>1. y \in Machine
  <2>1. e \in Registers
    BY DEF Machine, Registers
  <2>2. y = [x EXCEPT !.dar = e]
    BY DEF Loads
  <2> HIDE DEF e
  <2> QED BY <2>1, <2>2 DEF Machine
<1>2. /\ y.dar.r = v /\ y.dar.a7 = x.dar.a7 /\ y.sp = x.sp /\ y.sr = x.sr /\ y.cpu_type = x.cpu_type
      /\ y.pc = x.pc /\ y.ppc = x.ppc
      /\ y.sr_save = x.sr_save /\ y.dar_save = x.dar_save
  BY DEF Machine, Registers, Loads
<1>3. Residue(x, y)
  BY <1>1 DEF Machine, Loads, Residue, Firm, Same, Steady
<1>4. \A b \in {0, 4, 6} : SpOf(y, b) = SpOf(x, b)
  BY <1>2 DEF SpOf, sp_index
<1> QED BY <1>2, <1>3, <1>4

LEMMA RmwSound ==
    ASSUME NEW x, NEW d \in 0..708, Decoded(x, d), x.ppc \in UserCode, Proper(x.prog),
           x.prog[x.ppc] = "rmw"
    PROVE  Outcome(rmw(x), d + 92)
<1>1. x \in Machine /\ Mild(x) /\ ~faulted(x) /\ Counters(x) /\ x.stopped = 0 /\ Stands(x, x.ppc, d)
  BY GuestCode
<1>2. CASE "data" \in x.bad
  <2> DEFINE t == trigger_bus_error(x)
  <2>1. Due(t, d + 92)
    <3>1. Saved(x, d) /\ x.bad # {} /\ d \in 0..800
      BY <1>2 DEF Decoded
    <3> QED BY <3>1, FaultDelivered
  <2>2. rmw(x) = WriteBack(top_up_prefetch(t))
    BY <1>2 DEF rmw
  <2> HIDE DEF t
  <2>3. rmw(x) = t
    BY <2>1, <2>2, FaultedTopUp DEF Due, WriteBack
  <2> QED BY <2>1, <2>3, DueOutcome
<1>3. CASE "data" \notin x.bad
  <2> DEFINE u == top_up_prefetch(x)
             v == (u.data + 1) % RegMod
             y == [u EXCEPT !.data = v]
  <2>1. u \in Machine /\ Alike(x, u) /\ Firm(x, u) /\ u.pc = x.pc
    BY <1>1, TopUpMild
  <2>2. ~faulted(u)
    BY <1>1, <2>1 DEF Firm, Steady, faulted
  <2>3. rmw(x) = WriteBack(u)
    BY <1>3 DEF rmw
  <2> HIDE DEF u
  <2>4. rmw(x) = y
    BY <2>2, <2>3 DEF WriteBack
  <2>5. u.data = x.data /\ v \in 0..(RegMod - 1)
    BY <2>1, IncrementType DEF Alike, StackSame, Guested, Machine
  <2> HIDE DEF v
  <2>6. /\ y \in Machine /\ Firm(u, y) /\ y.data = v /\ y.dar = u.dar /\ y.sr = u.sr
        /\ y.stk = u.stk /\ y.owed = u.owed /\ y.astray = u.astray /\ y.pc = u.pc
        /\ \A b \in {0, 4, 6} : SpOf(y, b) = SpOf(u, b)
    BY <2>1, <2>5, DataFields
  <2> HIDE DEF y
  <2>7. Rests(x, u)
    BY <1>1, <2>1, AlikeRests
  <2>8. Follows(x, y) /\ Follows(u, y)
    BY <2>6, <2>7, FirmFollows, FollowsTrans DEF Rests
  <2>9. SrMasked(y, y.sr) = y.sr
    BY <2>6, <2>7, <2>8 DEF Rests, Follows, SrMasked, is_pre_68020
  <2>10. Rests(x, y)
    BY <2>6, <2>7, <2>8, <2>9 DEF Rests
  <2>11. y.stopped = 0
    BY <1>1, <2>1, <2>6 DEF Firm, Steady
  <2>12. y.data = (x.data + 1) % RegMod /\ y.dar.r = x.dar.r
    BY <2>1, <2>5, <2>6 DEF v, Alike, StackSame, Guested
  <2>13. y.pc = x.ppc + 2
    BY <2>1, <2>6 DEF Decoded
  <2>14. Outcome(y, d + 92)
    BY <2>10, <2>11, <2>12, <2>13, NextOutcome DEF Operanded
  <2> QED BY <2>4, <2>14
<1> QED BY <1>2, <1>3

----------------------------------------------------------------------------
\* The register moves before the read that may fault
LEMMA PincMoves ==
    ASSUME NEW x, NEW d \in 0..708, Decoded(x, d)
    PROVE  \/ "data" \in x.bad /\ Due(pinc(x), d + 92)
           \/ /\ Residue(x, pinc(x)) /\ pinc(x).dar.r = (x.dar.r + 1) % RegMod
              /\ pinc(x).sr = x.sr /\ pinc(x).pc = x.pc
              /\ \A b \in {0, 4, 6} : SpOf(pinc(x), b) = SpOf(x, b)
<1> DEFINE v == (x.dar.r + 1) % RegMod
           r == [x EXCEPT !.dar.r = v]
<1>1. x \in Machine /\ Saved(x, d)
  BY DEF Decoded, Saved
<1>2. v \in 0..(RegMod - 1)
  BY <1>1, IncrementType DEF Machine, Registers
<1>3. pinc(x) = IF "data" \in x.bad THEN trigger_bus_error(r) ELSE r
  BY DEF pinc
<1>r. Loads(x, v, r)
  BY DEF Loads
<1> HIDE DEF v, r
<1>4. /\ Residue(x, r) /\ r.dar.r = v /\ r.sr = x.sr /\ r.pc = x.pc /\ r.ppc = x.ppc
      /\ r.sr_save = x.sr_save /\ r.dar_save = x.dar_save
      /\ \A b \in {0, 4, 6} : SpOf(r, b) = SpOf(x, b)
  BY <1>1, <1>2, <1>r, RegisterFields
<1>5. CASE "data" \in x.bad
  <2>1. Saved(r, d)
    BY <1>1, <1>4, SavedStays
  <2>2. r.bad # {} /\ d \in 0..800
    BY <1>4, <1>5 DEF Residue, Firm, Same
  <2>3. Due(trigger_bus_error(r), d + 92)
    BY <2>1, <2>2, FaultDelivered
  <2> QED BY <1>3, <1>5, <2>3
<1>6. CASE "data" \notin x.bad
  BY <1>3, <1>4, <1>6 DEF v
<1> QED BY <1>5, <1>6

LEMMA ResidueRests ==
    ASSUME NEW x, NEW y, Residue(x, y), y.sr = x.sr, SrMasked(x, x.sr) = x.sr,
           \A b \in {0, 4, 6} : SpOf(y, b) = SpOf(x, b)
    PROVE  Rests(x, y)
<1>1. Follows(x, y)
  BY FirmFollows DEF Residue
<1>2. SrMasked(y, y.sr) = y.sr
  BY <1>1 DEF Follows, SrMasked, is_pre_68020
<1> QED BY <1>1, <1>2 DEF Residue, Rests

LEMMA PincGuest ==
    ASSUME NEW x, NEW d \in 0..708, Decoded(x, d), x.ppc \in UserCode, Proper(x.prog),
           x.prog[x.ppc] = "pinc"
    PROVE  Outcome(pinc(x), d + 92)
<1> DEFINE y == pinc(x)
<1>1. SrMasked(x, x.sr) = x.sr /\ x.stopped = 0
  BY GuestCode
<1> HIDE DEF y
<1>2. CASE Due(y, d + 92)
  BY <1>2, DueOutcome DEF y
<1>3. CASE /\ Residue(x, y) /\ y.dar.r = (x.dar.r + 1) % RegMod
           /\ y.sr = x.sr /\ y.pc = x.pc
           /\ \A b \in {0, 4, 6} : SpOf(y, b) = SpOf(x, b)
  <2>1. Rests(x, y)
    BY <1>1, <1>3, ResidueRests
  <2>2. y.stopped = 0 /\ y.data = x.data
    BY <1>1, <1>3 DEF Residue, Firm, Steady
  <2>3. y.pc = x.ppc + 2
    BY <1>3 DEF Decoded
  <2>4. Outcome(y, d + 92)
    BY <1>3, <2>1, <2>2, <2>3, NextOutcome DEF Operanded
  <2> QED BY <2>4 DEF y
<1> QED BY <1>2, <1>3, PincMoves DEF y

LEMMA PincCalled ==
    ASSUME NEW x, NEW d \in 0..708, Decoded(x, d), x.ppc = Subroutine
    PROVE  Outcome(pinc(x), d + 92)
<1> DEFINE y == pinc(x)
<1>1. /\ Stands(x, Subroutine, d) /\ OwedStacked(x) /\ x \in Machine /\ Mild(x) /\ ~faulted(x)
      /\ x.stopped = 0 /\ x.fault_resume = NoResume /\ ~x.nested /\ ~x.exception_processing
  BY DEF Decoded, Saved
<1>2. SrMasked(x, x.sr) = x.sr /\ Counters(x) /\ Sound(x, Subroutine)
  BY <1>1, MachineCounters DEF Stands, Sound, Shaped
<1> HIDE DEF y
<1>3. CASE Due(y, d + 92)
  BY <1>3, DueOutcome DEF y
<1>4. CASE /\ Residue(x, y) /\ y.dar.r = (x.dar.r + 1) % RegMod
           /\ y.sr = x.sr /\ y.pc = x.pc
           /\ \A b \in {0, 4, 6} : SpOf(y, b) = SpOf(x, b)
  <2>1. Rests(x, y)
    BY <1>2, <1>4, ResidueRests
  <2>2. \A b \in {0, 4, 6} : Live(y, b) = Live(x, b) /\ SpOf(y, b) = SpOf(x, b)
    BY <2>1, <1>4, RestsLive
  <2>3. /\ y.cpu_type = x.cpu_type /\ y.prog = x.prog /\ y.data = x.data /\ y.astray = x.astray
    BY <1>4 DEF Residue, Firm, Same
  <2>4. Sound(y, Subroutine + 2)
    BY <1>2, <1>4, <2>2, <2>3, SubroutineSound
  <2>5. SuperLive(y) = SuperLive(x) /\ y.owed = x.owed
    BY <1>4, <2>2 DEF SuperLive, Residue
  <2>6. OwedAt(y, Subroutine + 2)
    BY <1>1, <2>5 DEF OwedStacked, OwedAt
  <2>7. Tidy(y) /\ Deep(y, d)
    BY <1>1, <1>4, <2>2 DEF Stands, Tidy, Deep, Residue
  <2>8. Mild(y) /\ ~faulted(y) /\ y.stopped = 0 /\ y \in Machine /\ Follows(x, y)
    BY <1>1, <1>4, MildSame, FirmFollows DEF Residue, Firm, Steady, faulted
  <2>9. y.pc = Subroutine + 2
    BY <1>4 DEF Decoded
  <2>10. Stands(y, y.pc, d)
    BY <2>4, <2>6, <2>7, <2>8, <2>9 DEF Stands
  <2>11. Whole(y, d)
    BY <1>1, <2>8, <2>10, StandsWhole
  <2>12. Outcome(y, d + 92)
    BY <2>11, WholeDeeper, WholeOutcome
  <2> QED BY <2>12 DEF y
<1>5. \/ Due(y, d + 92)
      \/ /\ Residue(x, y) /\ y.dar.r = (x.dar.r + 1) % RegMod
         /\ y.sr = x.sr /\ y.pc = x.pc
         /\ \A b \in {0, 4, 6} : SpOf(y, b) = SpOf(x, b)
  BY PincMoves DEF y
<1> QED BY <1>3, <1>4, <1>5

LEMMA NopSound ==
    ASSUME NEW x, NEW d \in 0..708, Decoded(x, d), x.ppc \in UserCode, Proper(x.prog),
           x.prog[x.ppc] \in {"nop"} \cup Traps
    PROVE  Whole(x, d) /\ Outcome(x, d + 92) /\ Stands(x, x.pc, d)
<1>1. /\ x \in Machine /\ SrMasked(x, x.sr) = x.sr /\ x.stopped = 0
      /\ x.fault_resume = NoResume /\ ~x.nested /\ ~x.exception_processing
  BY GuestCode
<1>2. Rests(x, x) /\ Follows(x, x)
  BY <1>1 DEF Rests, Follows
<1>3. x.prog[x.ppc] \notin {"rmw", "pinc", "bra"} \cup Operanded
  BY DEF Traps, Operanded
<1>4. Stands(x, x.ppc + 2, d)
  BY <1>2, <1>3, GuestNext
<1>5. Stands(x, x.pc, d)
  BY <1>4 DEF Decoded
<1>6. Whole(x, d)
  BY <1>1, <1>2, <1>5, StandsWhole
<1> QED BY <1>5, <1>6, WholeDeeper, WholeOutcome

LEMMA BraSound ==
    ASSUME NEW x, NEW d \in 0..708, Decoded(x, d), x.ppc \in UserCode, Proper(x.prog),
           x.prog[x.ppc] = "bra"
    PROVE  Outcome(Jump(x, Origin), d + 92)
<1> DEFINE y == Jump(x, Origin)
<1>1. /\ x \in Machine /\ Mild(x) /\ ~faulted(x) /\ Stands(x, x.ppc, d) /\ OwedStacked(x) /\ Counters(x)
      /\ Counted(x, x.ppc, 0) /\ x.ppc \in Body(x.prog) /\ x.stopped = 0
      /\ x.fault_resume = NoResume /\ ~x.nested /\ ~x.exception_processing
  BY GuestCode
<1> HIDE DEF y
<1>2. y \in Machine /\ Alike(x, y) /\ Firm(x, y) /\ y.pc = Origin
  BY <1>1, JumpMild DEF y, Origin
<1>3. Rests(x, y)
  BY <1>1, <1>2, AlikeRests
<1>4. GuestPc(x, Origin)
  BY BodyOrigin DEF GuestPc
<1>5. Counted(x, Origin, 0)
  BY <1>1, CountBranch
<1>6. Counted(y, Origin, 0)
  BY <1>2, <1>5, GuestedSame DEF Alike, StackSame
<1>7. Stands(y, Origin, d)
  BY <1>1, <1>3, <1>4, <1>6, GuestStands
<1>8. Whole(y, d)
  BY <1>1, <1>2, <1>3, <1>7, StandsWhole DEF Rests, Firm, Steady
<1>9. Outcome(y, d + 92)
  BY <1>8, WholeDeeper, WholeOutcome
<1> QED BY <1>9 DEF y

LEMMA DivSound ==
    ASSUME NEW x, NEW d \in 0..708, Decoded(x, d), x.ppc \in UserCode, Proper(x.prog),
           x.prog[x.ppc] = "div0"
    PROVE  Outcome(take_group2_exception(x, ZERO_DIVIDE), d + 92)
<1>1. /\ x \in Machine /\ SrMasked(x, x.sr) = x.sr /\ x.stopped = 0
      /\ x.fault_resume = NoResume /\ ~x.nested /\ ~x.exception_processing
  BY GuestCode
<1>2. Rests(x, x)
  BY <1>1 DEF Rests, Follows
<1>3. Stands(x, x.ppc + 2, d)
  BY <1>2, GuestNext DEF Operanded
<1>4. Stands(x, x.pc, d)
  BY <1>3 DEF Decoded
<1>5. Handles(x, take_group2_exception(x, ZERO_DIVIDE), ZERO_DIVIDE, d + 92)
  <2>1. ZERO_DIVIDE \in Nat /\ ZERO_DIVIDE > 3 /\ ZERO_DIVIDE \notin 25..30 /\ d \in 0..800
    BY DEF ZERO_DIVIDE
  <2> QED BY <1>4, <2>1, Group2Sound
<1> QED BY <1>1, <1>5, HandlesWhole

----------------------------------------------------------------------------
\* y is x with its stack pointer at a
Lowers(x, a, y) == y = [x EXCEPT !.dar.a7 = a]

LEMMA LoweredFields ==
    ASSUME NEW x \in Machine, NEW a \in Int, NEW y, Lowers(x, a, y)
    PROVE  /\ Residue(x, y) /\ y.dar.a7 = a /\ y.dar.r = x.dar.r /\ y.sr = x.sr /\ y.pc = x.pc
           /\ y.ppc = x.ppc /\ y.sr_save = x.sr_save /\ y.dar_save = x.dar_save
           /\ y.queue = x.queue
<1> DEFINE e == [x.dar EXCEPT !.a7 = a]
<1>1. y \in Machine
  <2>1. e \in Registers
    BY DEF Machine, Registers
  <2>2. y = [x EXCEPT !.dar = e]
    BY DEF Lowers
  <2> HIDE DEF e
  <2> QED BY <2>1, <2>2 DEF Machine
<1>2. /\ y.dar.a7 = a /\ y.dar.r = x.dar.r /\ y.sr = x.sr /\ y.pc = x.pc /\ y.ppc = x.ppc
      /\ y.sr_save = x.sr_save /\ y.dar_save = x.dar_save /\ y.queue = x.queue
  BY DEF Machine, Registers, Lowers
<1>3. Residue(x, y)
  BY <1>1 DEF Machine, Lowers, Residue, Firm, Same, Steady
<1> QED BY <1>2, <1>3

\* y is x at pc, its flow changed
Turns(x, pc, y) == y = [x EXCEPT !.pc = pc, !.change_of_flow = TRUE]

LEMMA TurnedFields ==
    ASSUME NEW x \in Machine, NEW pc \in Int, NEW y, Turns(x, pc, y)
    PROVE  Residue(x, y)
<1>1. y \in Machine
  BY DEF Machine, Turns
<1> QED BY <1>1 DEF Machine, Turns, Residue, Firm, Same, Steady

\* A fault delivered in mid-instruction: what the instruction still does is undone
LEMMA DueJump ==
    ASSUME NEW x, NEW d, Due(x, d), ~prefetch_enabled(x), NEW a \in Int, NEW pc \in Int,
           NEW y, Lowers(x, a, y)
    PROVE  Due(Jump(y, pc), d)
<1> DEFINE z == [y EXCEPT !.pc = pc, !.change_of_flow = TRUE]
<1>1. x \in Machine
  BY DEF Due
<1>2. Residue(x, y)
  BY <1>1, LoweredFields
<1>3. Turns(y, pc, z)
  BY DEF Turns
<1>4. Jump(y, pc) = full_prefetch(z)
  BY DEF Jump
<1> HIDE DEF z
<1>5. Residue(y, z)
  BY <1>2, <1>3, TurnedFields DEF Residue
<1>6. ~prefetch_enabled(z)
  BY <1>2, <1>5 DEF Residue, Firm, Same, prefetch_enabled
<1>7. full_prefetch(z) = z
  BY <1>6 DEF full_prefetch, prefetch_first, prefetch_second, PrefetchFirst, PrefetchSecond
<1>8. Due(z, d)
  BY <1>2, <1>5, DueStays
<1> QED BY <1>4, <1>7, <1>8

\* The return address stacked by the call
LEMMA CallStacked ==
    ASSUME NEW x, NEW d \in 0..708, Stands(x, x.ppc, d), x.ppc \in UserCode, OwedStacked(x),
           Proper(x.prog), x.prog[x.ppc] = "jsr", x.pc = x.ppc + 4,
           NEW y, y = Store(x, Frame("ret", 0, x.pc, x.sr))
    PROVE  Stands(y, Subroutine, d + 92) /\ Firm(x, y)
<1> DEFINE f == Frame("ret", 0, x.pc, x.sr)
           b == BankOf(x, x.sr)
           c == CellOf(x, f)
<1>1. /\ x \in Machine /\ Mild(x) /\ ~faulted(x) /\ Shaped(x, x.ppc) /\ Tidy(x) /\ Deep(x, d)
      /\ x.sr \in SR /\ x.pc \in Int
  BY DEF Stands, Sound, Machine
<1>2. f \in FrameSet /\ f.fmt = "ret" /\ f.vec = 0 /\ f.pc = x.ppc + 4
  BY <1>1, FrameType DEF Formats, Frame
<1>3. y = Store(x, f)
  OBVIOUS
<1>f. f = Frame("ret", 0, x.ppc + 4, x.sr)
  OBVIOUS
<1> HIDE DEF f
<1>4. f.fmt \in WholeFormats \ {"group0"} /\ f.fmt \in WholeFormats
  BY <1>2 DEF WholeFormats, Formats
<1>5. /\ c \in Cell /\ c.n > 0 /\ c.f = f /\ c.n = FrameBytes(x, f.fmt)
  BY <1>1, <1>2, <1>4, CellOfType
<1>6. c.n = 4
  BY <1>2, <1>5 DEF FrameBytes
<1>7. \A e \in {0, 4, 6} : Chained(Live(x, e), SpOf(x, e), Banks[e])
  BY <1>1 DEF Shaped
<1>8. /\ \A e \in {0, 4, 6} : SpOf(x, e) \in Int
      /\ \A e \in {0, 4, 6} : Live(x, e) = {} /\ SpOf(x, e) = Banks[e]
  BY <1>1, CellPlaces, GuestStacks
<1>9. Deep(x, 900)
  BY <1>8 DEF Deep, Banks, IspBase, MspBase
<1>10. /\ Pushed(x, y, b, c)
       /\ y.stk \subseteq x.stk \cup {c} /\ y.owed = x.owed
       /\ Held(x, y) /\ y.sr = x.sr /\ y \in Machine
  BY <1>1, <1>2, <1>3, <1>4, <1>7, <1>9, StorePushed DEF Tidy
<1>11. b \in {0, 4, 6}
  BY BankOfType
<1> HIDE DEF b, c
<1>12. Sound(y, Subroutine)
  <2>1. Counters(x) /\ Pushed(x, y, BankOf(x, x.sr), c) /\ c.f = Frame("ret", 0, x.ppc + 4, x.sr)
    BY <1>1, <1>5, <1>10, <1>f, MachineCounters DEF b
  <2> DEFINE q == x.ppc
  <2>2. /\ Shaped(x, q) /\ q \in UserCode /\ x.prog[q] = "jsr" /\ x.sr \in SR /\ y.sr = x.sr
        /\ c.f = Frame("ret", 0, q + 4, x.sr) /\ c.n = 4
    BY <1>1, <1>6, <1>10, <2>1
  <2> HIDE DEF q
  <2> QED BY <2>1, <2>2, CallSound
<1>13. OwedAt(y, Subroutine)
  <2>1. SuperLive(x) = {}
    BY <1>8 DEF SuperLive
  <2> QED BY <1>10, <2>1 DEF OwedStacked, OwedAt
<1>14. Tidy(y)
  <2>1. \A e \in y.stk : e \in x.stk \/ e = c
    BY <1>10
  <2>2. ~IntCell(c)
    BY <1>2, <1>5 DEF IntCell
  <2> QED BY <1>1, <1>5, <2>1, <2>2 DEF Tidy
<1>15. Deep(y, d + 92)
  <2>1. c.at = SpOf(x, b) - 4 /\ \A e \in {0, 4, 6} : SpOf(y, e) = IF e = b THEN c.at ELSE SpOf(x, e)
    BY <1>6, <1>10 DEF Pushed
  <2>2. SpOf(x, 4) = 2000 /\ SpOf(x, 6) = 3000
    BY <1>8 DEF Banks, IspBase, MspBase
  <2>3. SpOf(y, 4) \in {1996, 2000} /\ SpOf(y, 6) \in {2996, 3000}
    BY <1>11, <2>1, <2>2
  <2> QED BY <2>3, <2>2 DEF Deep, IspBase, MspBase
<1>16. Firm(x, y)
  BY <1>10, HeldFirm
<1>17. Mild(y) /\ ~faulted(y)
  BY <1>1, <1>16, MildSame DEF Firm, Steady, faulted
<1> QED BY <1>10, <1>12, <1>13, <1>14, <1>15, <1>16, <1>17 DEF Stands

----------------------------------------------------------------------------
LEMMA JsrSound ==
    ASSUME NEW x, NEW d \in 0..708, Decoded(x, d), x.ppc \in UserCode, Proper(x.prog),
           x.prog[x.ppc] = "jsr"
    PROVE  Outcome(jsr(x), d + 92)
<1> DEFINE r == ReadStream(x).m
           f == Frame("ret", 0, r.pc, r.sr)
           a == r.dar.a7 - 4
<1>1. /\ x \in Machine /\ Mild(x) /\ ~faulted(x) /\ Stands(x, x.ppc, d) /\ OwedStacked(x)
      /\ x.ppc \in Body(x.prog) /\ x.stopped = 0 /\ Saved(x, d)
      /\ x.fault_resume = NoResume /\ ~x.nested /\ ~x.exception_processing
  BY GuestCode DEF Decoded
<1>2. x.pc = x.ppc + 2 /\ QueueAt(x.queue, x.pc)
  BY DEF Decoded
<1>3. ~Odd(x.pc)
  <2>1. x.ppc \in {16, 18}
    BY <1>1, BodyOperand DEF Operanded
  <2> QED BY <1>2, <2>1 DEF Odd
<1>4. jsr(x) = Jump(PushFrame(r, f), IF faulted(r) THEN 0 ELSE Subroutine)
  BY DEF jsr, Call
<1>5. \/ CodeRegion(x.pc) \in x.bad /\ r = trigger_bus_error(x) /\ ~prefetch_enabled(x)
      \/ Advanced(x, r)
  BY <1>1, <1>2, <1>3, ReadNext
<1>6. FrameBytes(r, f.fmt) = 4
  BY DEF FrameBytes, Frame
<1>d. d \in 0..800 /\ x.ppc \in Int
  BY <1>1 DEF Machine
<1> HIDE DEF r, f
<1>7. ASSUME NEW t, Due(t, d + 92), ~prefetch_enabled(t), NEW q \in Int,
             NEW y, Lowers(t, t.dar.a7 - 4, y)
      PROVE  Outcome(Jump(y, q), d + 92)
  <2>1. t.dar.a7 - 4 \in Int
    BY <1>7 DEF Due, Machine, Registers
  <2> QED BY <1>7, <2>1, DueJump, DueOutcome
<1>8. CASE CodeRegion(x.pc) \in x.bad /\ r = trigger_bus_error(x) /\ ~prefetch_enabled(x)
  <2>1. Due(r, d + 92) /\ r.cpu_type = x.cpu_type
    <3>1. x.bad # {}
      BY <1>8
    <3>2. Saved(x, d)
      BY <1>1
    <3>3. Due(trigger_bus_error(x), d + 92) /\ trigger_bus_error(x).cpu_type = x.cpu_type
      BY <1>d, <3>1, <3>2, FaultDelivered
    <3> QED BY <1>8, <3>3
  <2>2. PushFrame(r, f) = [r EXCEPT !.dar.a7 = @ - FrameBytes(r, f.fmt)]
    <3>1. faulted(r)
      BY <2>1 DEF Due
    <3> QED BY <3>1 DEF PushFrame, Push
  <2>3. Lowers(r, r.dar.a7 - 4, PushFrame(r, f))
    BY <1>6, <2>2 DEF Lowers
  <2>4. ~prefetch_enabled(r) /\ faulted(r)
    BY <1>8, <2>1 DEF prefetch_enabled, Due
  <2>5. jsr(x) = Jump(PushFrame(r, f), 0)
    BY <1>4, <2>4
  <2> QED BY <1>7, <2>1, <2>3, <2>4, <2>5
<1>9. CASE Advanced(x, r)
  <2>1. /\ Residue(x, r) /\ Alike(x, r) /\ r.pc = x.ppc + 4 /\ r.ppc = x.ppc
        /\ r.sr_save = x.sr_save /\ r.dar_save = x.dar_save /\ r \in Machine
    <3>1. Residue(x, r) /\ Alike(x, r)
      BY <1>9, AdvancedResidue
    <3> QED BY <1>2, <1>9, <1>d, <3>1 DEF Advanced
  <2>2. ~faulted(r) /\ Firm(x, r)
    BY <1>1, <2>1 DEF Residue, Firm, Steady, faulted
  <2>3. Saved(r, d) /\ Mild(r)
    <3>1. Saved(r, d)
      BY <1>1, <2>1, SavedStays
    <3> QED BY <3>1 DEF Saved
  <2>4. jsr(x) = Jump(PushFrame(r, f), Subroutine)
    BY <1>4, <2>2
  <2>5. CASE StackRegion(r.dar.a7 - 1) \in r.bad
    <3> DEFINE t == trigger_bus_error(r)
    <3>1. Due(t, d + 92) /\ t.cpu_type = r.cpu_type
      <4>1. r.bad # {}
        BY <2>5
      <4> QED BY <2>3, <1>d, <4>1, FaultDelivered
    <3>2. PushFrame(r, f) = [t EXCEPT !.dar.a7 = @ - FrameBytes(r, f.fmt)]
      BY <2>2, <2>5 DEF PushFrame, Push
    <3> HIDE DEF t
    <3>3. Lowers(t, t.dar.a7 - 4, PushFrame(r, f))
      BY <1>6, <3>2 DEF Lowers
    <3>4. ~prefetch_enabled(t)
      <4>1. StackRegion(r.dar.a7 - 1) # "data"
        BY CodeNotData DEF Stacks
      <4>2. ~prefetch_enabled(r)
        BY <2>3, <2>5, <4>1 DEF Mild
      <4> QED BY <3>1, <4>2 DEF prefetch_enabled
    <3>5. Subroutine \in Int
      BY DEF Subroutine
    <3> QED BY <1>7, <2>4, <3>1, <3>3, <3>4, <3>5
  <2>6. CASE StackRegion(r.dar.a7 - 1) \notin r.bad
    <3> DEFINE w == PushFrame(r, f)
    <3>1. w = Store(r, f)
      BY <2>2, <2>6 DEF PushFrame, Push
    <3>2. Stands(r, r.ppc, d) /\ Live(r, 4) = Live(x, 4) /\ Live(r, 6) = Live(x, 6) /\ r.owed = x.owed
      <4>1. Stands(r, r.ppc, d)
        BY <1>1, <2>1, <2>2, StandsAlike DEF Firm, Same
      <4> QED BY <2>1, <4>1 DEF Alike, StackSame, Live
    <3>3. OwedStacked(r) /\ r.prog = x.prog
      BY <1>1, <2>2, <3>2 DEF OwedStacked, SuperLive, Firm, Same
    <3>4. r.pc = r.ppc + 4
      BY <2>1
    <3>5. w = Store(r, Frame("ret", 0, r.pc, r.sr))
      BY <3>1 DEF f
    <3> HIDE DEF w
    <3>6. Stands(w, Subroutine, d + 92) /\ Firm(r, w)
      BY <2>1, <3>2, <3>3, <3>4, <3>5, CallStacked
    <3> DEFINE y == Jump(w, Subroutine)
    <3>7. y \in Machine /\ Alike(w, y) /\ Firm(w, y) /\ y.pc = Subroutine
      <4>1. Subroutine \in Int
        BY DEF Subroutine
      <4> QED BY <3>6, <4>1, JumpMild DEF Stands
    <3> HIDE DEF y
    <3>8. Stands(y, y.pc, d + 92)
      BY <3>6, <3>7, StandsAlike DEF Stands, Firm, Same, Steady, faulted
    <3>9. Firm(x, y) /\ y.stopped = 0
      BY <1>1, <2>2, <3>6, <3>7, FirmTrans DEF Firm, Steady
    <3>10. Whole(y, d + 92)
      BY <1>1, <3>8, <3>9, FirmFollows, StandsWhole
    <3> QED BY <2>4, <3>10, WholeOutcome DEF y, w
  <2> QED BY <2>5, <2>6
<1> QED BY <1>5, <1>8, <1>9

----------------------------------------------------------------------------
LEMMA PrivilegeTaken ==
    ASSUME NEW x, NEW d \in 0..708, Stands(x, x.ppc, d), ~x.exception_processing
    PROVE  Handles(x, exception_privilege(x), PRIVILEGE_VIOLATION, d + 92)
<1>1. /\ PRIVILEGE_VIOLATION \in Nat /\ PRIVILEGE_VIOLATION > 3 /\ PRIVILEGE_VIOLATION \notin 25..30
      /\ ~StacksNextPc(PRIVILEGE_VIOLATION) /\ d \in 0..800
  BY DEF PRIVILEGE_VIOLATION, StacksNextPc, ZERO_DIVIDE, TRACE, TRAP_BASE
<1>2. Handles(x, take_exception(x, PRIVILEGE_VIOLATION), PRIVILEGE_VIOLATION, d + 92)
  BY <1>1, TakenSound
<1> QED BY <1>2 DEF exception_privilege

LEMMA PrivilegeOutcome ==
    ASSUME NEW x, NEW d \in 0..708, Decoded(x, d)
    PROVE  Outcome(exception_privilege(x), d + 92)
<1>1. Stands(x, x.ppc, d) /\ x.fault_resume = NoResume /\ ~x.nested /\ ~x.exception_processing
  BY DEF Decoded, Saved
<1> QED BY <1>1, PrivilegeTaken, HandlesWhole

LEMMA HaltSound ==
    ASSUME NEW x, NEW d \in 0..708, Decoded(x, d), x.ppc \in UserCode, Proper(x.prog),
           x.prog[x.ppc] = "halt"
    PROVE  Outcome(halt060(x), d + 92)
<1>1. /\ x \in Machine /\ SrMasked(x, x.sr) = x.sr /\ x.stopped = 0 /\ Stands(x, x.ppc, d)
      /\ x.fault_resume = NoResume /\ ~x.nested /\ ~x.exception_processing
  BY GuestCode
<1>2. CASE x.sr.s
  <2> DEFINE y == [x EXCEPT !.stopped = 1]
  <2>1. halt060(x) = y
    BY <1>2 DEF halt060
  <2>2. /\ y \in Machine /\ Alike(x, y) /\ Same(x, y) /\ y.pc = x.pc
        /\ y.run_mode = x.run_mode /\ y.nested = x.nested /\ y.fault_resume = x.fault_resume
    BY <1>1, StoppedAlike
  <2> HIDE DEF y
  <2>3. Follows(x, y)
    BY <2>2 DEF Same, Follows
  <2>4. SrMasked(y, y.sr) = y.sr
    BY <1>1, <2>2, <2>3 DEF SrMasked, is_pre_68020, Alike, Follows
  <2>5. Rests(x, y)
    BY <2>2, <2>3, <2>4 DEF Rests, Alike, StackSame, Guested
  <2>6. Stands(y, x.ppc + 2, d)
    BY <2>2, <2>5, GuestNext DEF Operanded, Alike, StackSame, Guested
  <2>7. Stands(y, y.pc, d) /\ y.sr.s
    BY <1>2, <2>2, <2>6 DEF Decoded, Alike
  <2>8. Whole(y, d)
    BY <1>1, <2>3, <2>7, StandsWhole
  <2>9. Outcome(y, d + 92)
    BY <2>8, WholeDeeper, WholeOutcome
  <2> QED BY <2>1, <2>9
<1>3. CASE ~x.sr.s
  BY <1>3, PrivilegeOutcome DEF halt060
<1> QED BY <1>2, <1>3

\* The status register a STOP loads
LEMMA StopStatus ==
    ASSUME NEW x, NEW s \in BOOLEAN, NEW sr, sr = [ZeroSR EXCEPT !.s = s]
    PROVE  sr \in SR /\ sr.s = s /\ SrMasked(x, sr) = sr
<1>1. sr \in SR
  <2>1. ZeroSR \in SR
    BY ConstantTypes
  <2> QED BY <2>1 DEF SR
<1>2. sr.m = ZeroSR.m /\ sr.t0 = ZeroSR.t0 /\ sr.s = s
  <2>1. ZeroSR \in SR
    BY ConstantTypes
  <2> QED BY <2>1 DEF SR
<1>3. ZeroSR.m = FALSE /\ ZeroSR.t0 = FALSE
  BY DEF ZeroSR
<1>4. ~sr.m /\ ~sr.t0
  BY <1>2, <1>3
<1> QED BY <1>1, <1>2, <1>4, MaskedIff

\* The CPU stopped by STOP, past its operand
LEMMA StoppedSound ==
    ASSUME NEW x, NEW d \in 0..708, Decoded(x, d), x.ppc \in UserCode, Proper(x.prog),
           x.prog[x.ppc] \in Stops, NEW r, Advanced(x, r),
           NEW sr \in SR, SrMasked(r, sr) = sr, NEW y, y = [set_sr(r, sr) EXCEPT !.stopped = 1]
    PROVE  Whole(y, d)
<1> DEFINE z == Rebank(r, sr)
<1>1. /\ Counted(x, x.ppc, 0) /\ x.ppc \in Body(x.prog) /\ Stands(x, x.ppc, d) /\ OwedStacked(x)
      /\ Counters(x) /\ x \in Machine /\ GuestPc(x, x.ppc)
      /\ x.fault_resume = NoResume /\ ~x.nested /\ ~x.exception_processing
  BY GuestCode
<1>2. r \in Machine /\ Alike(x, r) /\ Firm(x, r) /\ r.pc = x.pc + 2
  BY AdvancedResidue DEF Advanced
<1>3. y = [z EXCEPT !.stopped = 1]
  BY DEF set_sr
<1>4. StackSame(r, z) /\ Held(r, z) /\ z.sr = sr /\ z.pc = r.pc /\ z \in Machine
  BY <1>2, RebankStacks
<1> HIDE DEF z
<1>5. /\ y \in Machine /\ Alike(z, y) /\ Same(z, y) /\ y.pc = z.pc /\ y.run_mode = z.run_mode
      /\ y.nested = z.nested /\ y.fault_resume = z.fault_resume
  BY <1>3, <1>4, StoppedAlike
<1>6. StackSame(x, y)
  BY <1>2, <1>4, <1>5, StackSameTrans DEF Alike
<1>7. Follows(x, y)
  <2>1. Follows(z, y) /\ Follows(r, z) /\ Follows(x, r)
    BY <1>2, <1>4, <1>5, HeldFirm, FirmFollows DEF Follows, Same
  <2> QED BY <2>1, FollowsTrans
<1>8. SrMasked(y, y.sr) = y.sr
  <2>1. y.sr = sr /\ y.cpu_type = r.cpu_type
    BY <1>2, <1>4, <1>5, <1>7 DEF Alike, Follows, Firm, Same
  <2>2. SrMasked(y, sr) = SrMasked(r, sr)
    BY <2>1 DEF SrMasked, is_pre_68020
  <2> QED BY <2>1, <2>2
<1>9. Rests(x, y)
  BY <1>5, <1>6, <1>7, <1>8 DEF Rests, StackSame, Guested
<1>10. x.prog[x.ppc] \in Operanded /\ x.prog[x.ppc] # "jsr"
  BY DEF Stops, Operanded
<1>11. /\ x.ppc \in {16, 18} /\ x.ppc + 4 \in Body(x.prog)
       /\ x.prog[x.ppc + 2] = "ext" /\ x.prog[x.ppc + 4] # "ext"
  BY <1>1, <1>10, BodyOperand
<1>12. Counted(x, x.ppc + 4, 0)
  BY <1>1, <1>10, <1>11, CountOperand
<1>13. Counted(y, x.ppc + 4, 0) /\ Counted(y, x.ppc, 0)
  BY <1>1, <1>6, <1>12, GuestedSame DEF StackSame
<1>14. GuestPc(x, x.ppc + 4)
  BY <1>11 DEF GuestPc
<1>15. Stands(y, x.ppc + 4, d) /\ Stands(y, x.ppc, d)
  BY <1>1, <1>9, <1>13, <1>14, GuestStands
<1>16. y.pc = x.ppc + 4 /\ y.pc - 4 = x.ppc
  BY <1>2, <1>4, <1>5, <1>11 DEF Decoded
<1>17. Stands(y, y.pc, d) /\ Sound(y, y.pc - 4) /\ OwedAt(y, y.pc - 4)
  BY <1>15, <1>16 DEF Stands
<1> QED BY <1>1, <1>7, <1>17 DEF Whole, Follows

\* The 68060 refuses to stop in user mode, its operand read
LEMMA StopRefused ==
    ASSUME NEW x, NEW d \in 0..708, Decoded(x, d), x.ppc \in UserCode, Proper(x.prog),
           x.prog[x.ppc] \in Stops, NEW r, Advanced(x, r),
           NEW y, y = [r EXCEPT !.ppc = r.pc]
    PROVE  Outcome(exception_privilege(y), d + 92)
<1>1. /\ Counted(x, x.ppc, 0) /\ x.ppc \in Body(x.prog) /\ Stands(x, x.ppc, d) /\ OwedStacked(x)
      /\ Counters(x) /\ x \in Machine /\ x.stopped = 0
      /\ x.fault_resume = NoResume /\ ~x.nested /\ ~x.exception_processing
  BY GuestCode
<1>2. r \in Machine /\ Alike(x, r) /\ Firm(x, r) /\ r.pc = x.pc + 2
  BY AdvancedResidue DEF Advanced
<1>3. y \in Machine /\ Verbatim(r, y) /\ Firm(r, y) /\ y.ppc = r.pc
  BY <1>2 DEF Machine, Verbatim, Firm, Same, Steady
<1>4. Alike(x, y) /\ Firm(x, y)
  BY <1>2, <1>3, VerbatimAlike, StackSameTrans, FirmTrans DEF Alike
<1>5. Rests(x, y)
  BY <1>1, <1>3, <1>4, AlikeRests
<1>6. x.prog[x.ppc] \in Operanded /\ x.prog[x.ppc] # "jsr"
  BY DEF Stops, Operanded
<1>7. /\ x.ppc \in {16, 18} /\ x.ppc + 4 \in Body(x.prog)
      /\ x.prog[x.ppc + 2] = "ext" /\ x.prog[x.ppc + 4] # "ext"
  BY <1>1, <1>6, BodyOperand
<1>8. Counted(x, x.ppc + 4, 0)
  BY <1>1, <1>6, <1>7, CountOperand
<1>9. Counted(y, x.ppc + 4, 0)
  BY <1>4, <1>8, GuestedSame DEF Alike, StackSame
<1>10. GuestPc(x, x.ppc + 4)
  BY <1>7 DEF GuestPc
<1>11. Stands(y, x.ppc + 4, d)
  BY <1>1, <1>5, <1>9, <1>10, GuestStands
<1>12. Stands(y, y.ppc, d)
  BY <1>2, <1>3, <1>7, <1>11 DEF Decoded
<1>13. ~y.exception_processing /\ y.fault_resume = NoResume /\ ~y.nested
  BY <1>1, <1>4 DEF Firm, Same, Steady
<1> QED BY <1>12, <1>13, PrivilegeTaken, HandlesWhole

LEMMA StopSound ==
    ASSUME NEW x, NEW d \in 0..708, Decoded(x, d), x.ppc \in UserCode, Proper(x.prog),
           x.prog[x.ppc] \in Stops, NEW s \in BOOLEAN
    PROVE  Outcome(stop(x, s), d + 92)
<1> DEFINE r == ReadStream(x).m
           sr == [ZeroSR EXCEPT !.s = s]
<1>1. /\ x \in Machine /\ Mild(x) /\ ~faulted(x) /\ x.ppc \in Body(x.prog)
  BY GuestCode
<1>2. x.pc = x.ppc + 2 /\ QueueAt(x.queue, x.pc)
  BY DEF Decoded
<1>3. ~Odd(x.pc)
  <2>1. x.ppc \in {16, 18}
    BY <1>1, BodyOperand DEF Operanded, Stops
  <2> QED BY <1>2, <2>1 DEF Odd
<1>4. CodeRegion(x.pc) \notin x.bad
  BY <1>1, CodeNotData DEF Mild, Stacks
<1>5. Advanced(x, r)
  BY <1>1, <1>2, <1>3, <1>4, ReadNext
<1>6. ~faulted(r)
  BY <1>1, <1>5 DEF Advanced, Firm, Steady, faulted
<1>7. stop(x, s) = IF x.sr.s THEN Stop(r, s) ELSE exception_privilege(x)
  BY DEF stop
<1> HIDE DEF r
<1>8. sr \in SR /\ SrMasked(r, sr) = sr
  BY StopStatus
<1>9. Stop(r, s) = StopWith(r, sr)
  BY <1>6 DEF Stop
<1> HIDE DEF sr
<1>10. Outcome(exception_privilege([r EXCEPT !.ppc = r.pc]), d + 92)
  BY <1>5, StopRefused
<1>11. Outcome([set_sr(r, sr) EXCEPT !.stopped = 1], d + 92)
  <2> DEFINE y == [set_sr(r, sr) EXCEPT !.stopped = 1]
  <2>1. Whole(y, d)
    BY <1>5, <1>8, StoppedSound
  <2> HIDE DEF y
  <2>2. Outcome(y, d + 92)
    BY <2>1, WholeDeeper, WholeOutcome
  <2> QED BY <2>2 DEF y
<1>12. Outcome(StopWith(r, sr), d + 92)
  BY <1>10, <1>11 DEF StopWith
<1> QED BY <1>7, <1>9, <1>12, PrivilegeOutcome

----------------------------------------------------------------------------
(* Returns *)

\* The cell at the stack pointer is the only one there
LEMMA TopUnique ==
    ASSUME NEW x, NEW pc, Shaped(x, pc), NEW g \in Live(x, BankOf(x, x.sr)),
           g.at = SpOf(x, BankOf(x, x.sr)), NEW fmts
    PROVE  /\ g.f.fmt \in fmts => CellsAt(x, fmts) = {g} /\ Top(x, fmts) = g.f
           /\ g.f.fmt \notin fmts => CellsAt(x, fmts) = {}
<1> DEFINE b == BankOf(x, x.sr)
<1>1. b \in {0, 4, 6}
  BY BankOfType
<1>2. SpOf(x, b) = x.dar.a7
  BY IndexBank DEF SpOf
<1> HIDE DEF b
<1>3. Chained(Live(x, b), SpOf(x, b), Banks[b]) /\ g \in Live(x, b) /\ g.at = SpOf(x, b)
  BY <1>1 DEF Shaped, b
<1>4. ASSUME NEW c \in x.stk, c.at = x.dar.a7
      PROVE  c = g
  <2>1. c \in Live(x, b) /\ c.at = g.at
    BY <1>2, <1>3, <1>4 DEF Live
  <2>2. c.n > 0 /\ g.n > 0 /\ c.n \in Int /\ g.n \in Int /\ c.at \in Int
    BY <1>3, <2>1 DEF Chained, Cell
  <2>3. c = g \/ c.at + c.n <= g.at \/ g.at + g.n <= c.at
    BY <1>3, <2>1 DEF Chained
  <2> QED BY <2>1, <2>2, <2>3
<1>5. g \in x.stk /\ g.at = x.dar.a7
  BY <1>2, <1>3 DEF Live
<1>6. g.f.fmt \in fmts => CellsAt(x, fmts) = {g}
  BY <1>4, <1>5 DEF CellsAt
<1>7. g.f.fmt \notin fmts => CellsAt(x, fmts) = {}
  BY <1>4 DEF CellsAt
<1>8. CellsAt(x, fmts) = {g} => Top(x, fmts) = g.f
  <2> SUFFICES ASSUME CellsAt(x, fmts) = {g} PROVE Top(x, fmts) = g.f
    OBVIOUS
  <2>1. (CHOOSE c \in {g} : TRUE) = g
    OBVIOUS
  <2> QED BY <2>1 DEF Top
<1> QED BY <1>6, <1>7, <1>8

\* The cell at the stack pointer, popped
LEMMA Unstacked ==
    ASSUME NEW x \in Machine, NEW pc, Shaped(x, pc), NEW g \in Live(x, BankOf(x, x.sr)),
           g.at = SpOf(x, BankOf(x, x.sr)), NEW y, Lowers(x, g.at + g.n, y)
    PROVE  Popped(x, y, BankOf(x, x.sr), g) /\ Residue(x, y) /\ y.sr = x.sr
<1> DEFINE b == BankOf(x, x.sr)
<1>1. b \in {0, 4, 6} /\ b = sp_index(x)
  BY BankOfType, IndexBank
<1> HIDE DEF b
<1>2. Chained(Live(x, b), SpOf(x, b), Banks[b]) /\ g \in Live(x, b) /\ g.at = SpOf(x, b)
  BY <1>1 DEF Shaped, b
<1>3. g.at \in Int /\ g.n \in Int /\ g.n > 0
  BY <1>2 DEF Chained, Cell
<1>4. /\ Residue(x, y) /\ y.dar.a7 = g.at + g.n /\ y.dar.r = x.dar.r /\ y.sr = x.sr
  <2>1. g.at + g.n \in Int
    BY <1>3
  <2> QED BY <2>1, LoweredFields
<1>5. Guested(x, y)
  BY <1>4 DEF Residue, Firm, Same, Guested
<1>6. sp_index(y) = b /\ y.sp = x.sp
  BY <1>1, <1>4 DEF sp_index, Residue, Firm, Same
<1>7. \A e \in {0, 4, 6} : SpOf(y, e) = IF e = b THEN g.at + g.n ELSE SpOf(x, e)
  BY <1>1, <1>4, <1>6 DEF SpOf
<1>8. ASSUME NEW c \in Live(x, b), c # g
      PROVE  c.at >= g.at + g.n
  <2>1. c.n > 0 /\ c.n \in Int /\ c.at \in Int /\ c.at >= g.at
    BY <1>2 DEF Chained, Cell
  <2>2. c.at + c.n <= g.at \/ g.at + g.n <= c.at
    BY <1>2, <1>8 DEF Chained
  <2> QED BY <1>3, <2>1, <2>2
<1>9. \A e \in {0, 4, 6} : Live(y, e) = IF e = b THEN Live(x, e) \ {g} ELSE Live(x, e)
  <2>1. y.stk = x.stk
    BY <1>4 DEF Residue
  <2>2. ASSUME NEW e \in {0, 4, 6}, e # b PROVE Live(y, e) = Live(x, e)
    BY <1>7, <2>1, <2>2 DEF Live
  <2>3. Live(y, b) \subseteq Live(x, b) \ {g}
    <3> SUFFICES ASSUME NEW c \in Live(y, b) PROVE c \in Live(x, b) /\ c # g
      OBVIOUS
    <3>1. c \in x.stk /\ StackRegion(c.at) = BankRegion(b) /\ c.at >= g.at + g.n
      BY <1>1, <1>7, <2>1 DEF Live
    <3>2. c.at \in Int
      BY <3>1 DEF Machine
    <3>3. c.at >= g.at /\ c.at # g.at
      BY <1>3, <3>1, <3>2
    <3> QED BY <1>2, <3>1, <3>3 DEF Live
  <2>4. Live(x, b) \ {g} \subseteq Live(y, b)
    <3> SUFFICES ASSUME NEW c \in Live(x, b), c # g PROVE c \in Live(y, b)
      OBVIOUS
    <3>1. c.at >= g.at + g.n
      BY <1>8
    <3>2. SpOf(y, b) = g.at + g.n
      BY <1>1, <1>7
    <3> QED BY <2>1, <3>1, <3>2 DEF Live
  <2> QED BY <2>2, <2>3, <2>4
<1> QED BY <1>2, <1>4, <1>5, <1>7, <1>9 DEF Popped, b

LEMMA PoppedAlike ==
    ASSUME NEW x, NEW y, NEW b, NEW g, Popped(x, y, b, g), NEW z, StackSame(y, z)
    PROVE  Popped(x, z, b, g)
<1>1. \A e \in {0, 4, 6} : Live(z, e) = Live(y, e)
  BY SameLive
<1> QED BY <1>1 DEF Popped, StackSame, Guested

\* Popping leaves nothing owed behind
LEMMA PoppedOwed ==
    ASSUME NEW x, NEW b, NEW g, OwedStacked(x), NEW y, Popped(x, y, b, g), y.owed = x.owed
    PROVE  OwedAt(y, g.f.pc)
<1> SUFFICES ASSUME NEW l \in y.owed, g.f.pc # Handler(24 + l)
             PROVE  \E c \in SuperLive(y) : Std(c) /\ c.f.pc = Handler(24 + l)
  BY DEF OwedAt
<1>1. PICK c \in SuperLive(x) : Std(c) /\ c.f.pc = Handler(24 + l)
  BY DEF OwedStacked
<1>2. c # g
  BY <1>1
<1>3. c \in SuperLive(y)
  BY <1>1, <1>2 DEF SuperLive, Popped
<1> QED BY <1>1, <1>3

LEMMA PoppedDeep ==
    ASSUME NEW x, NEW pc, Shaped(x, pc), NEW b \in {0, 4, 6}, NEW g, NEW y, Popped(x, y, b, g),
           NEW d \in Int, Deep(x, d)
    PROVE  Deep(y, d)
<1>1. /\ SpOf(x, 4) \in Int /\ SpOf(x, 6) \in Int /\ SpOf(x, b) \in Int
      /\ g.at = SpOf(x, b) /\ g.n > 0 /\ g.n \in Int
  <2>1. Chained(Live(x, b), SpOf(x, b), Banks[b]) /\ g \in Live(x, b)
    BY DEF Shaped, Popped
  <2>2. g.n > 0 /\ g.n \in Int
    BY <2>1 DEF Chained, Cell
  <2> QED BY <2>2, CellPlaces DEF Popped
<1>2. SpOf(y, 4) = (IF b = 4 THEN g.at + g.n ELSE SpOf(x, 4))
      /\ SpOf(y, 6) = (IF b = 6 THEN g.at + g.n ELSE SpOf(x, 6))
  BY DEF Popped
<1> QED BY <1>1, <1>2 DEF Deep, IspBase, MspBase

----------------------------------------------------------------------------
LEMMA FaultOutcome ==
    ASSUME NEW x, NEW d \in 0..708, Saved(x, d), NEW a, StackRegion(a) \in x.bad,
           NEW t, t = trigger_bus_error(x)
    PROVE  Due(t, d + 92) /\ ~prefetch_enabled(t) /\ faulted(t) /\ t \in Machine
<1>1. x.bad # {} /\ d \in 0..800
  OBVIOUS
<1>2. Due(trigger_bus_error(x), d + 92) /\ trigger_bus_error(x).cpu_type = x.cpu_type
  BY <1>1, FaultDelivered
<1>3. StackRegion(a) # "data"
  BY CodeNotData DEF Stacks
<1>4. ~prefetch_enabled(x)
  BY <1>3 DEF Saved, Mild
<1> QED BY <1>2, <1>4 DEF prefetch_enabled, Due

LEMMA RtsSound ==
    ASSUME NEW x, NEW d \in 0..708, Decoded(x, d), x.ppc = Subroutine + 2
    PROVE  Outcome(rts(x), d + 92)
<1>1. /\ Stands(x, Subroutine + 2, d) /\ OwedStacked(x) /\ x \in Machine /\ Mild(x) /\ ~faulted(x)
      /\ x.stopped = 0 /\ x.fault_resume = NoResume /\ ~x.nested /\ ~x.exception_processing
      /\ Saved(x, d)
  BY DEF Decoded, Saved
<1>2. CASE StackRegion(x.dar.a7) \in x.bad
  <2> DEFINE t == trigger_bus_error(x)
             y == [t EXCEPT !.dar.a7 = t.dar.a7 + 4]
  <2>1. Due(t, d + 92) /\ ~prefetch_enabled(t) /\ faulted(t) /\ t \in Machine
    BY <1>1, <1>2, FaultOutcome
  <2>2. StackRead(x) = t
    BY <1>1, <1>2 DEF StackRead
  <2> HIDE DEF t
  <2>3. rts(x) = Jump(y, 0)
    BY <2>1, <2>2 DEF rts, Return
  <2>4. Lowers(t, t.dar.a7 + 4, y)
    BY DEF Lowers
  <2>5. t.dar.a7 + 4 \in Int /\ 0 \in Int
    BY <2>1 DEF Machine, Registers
  <2> HIDE DEF y
  <2>6. Due(Jump(y, 0), d + 92)
    BY <2>1, <2>4, <2>5, DueJump
  <2> QED BY <2>3, <2>6, DueOutcome
<1>3. CASE StackRegion(x.dar.a7) \notin x.bad
  <2> DEFINE b == BankOf(x, x.sr)
  <2>1. Shaped(x, Subroutine + 2)
    BY <1>1 DEF Stands, Sound
  <2>2. PICK g : /\ Live(x, b) = {g} /\ g.f.fmt = "ret" /\ g.n = 4
                 /\ g.at = SpOf(x, b) /\ GuestPc(x, g.f.pc)
    <3>1. Subroutine + 2 \in {Subroutine, Subroutine + 2}
      OBVIOUS
    <3> QED BY <2>1, <3>1, CallStacks
  <2>3. SpOf(x, b) = x.dar.a7 /\ b \in {0, 4, 6}
    BY IndexBank, BankOfType DEF SpOf
  <2>4. g \in Live(x, b) /\ g.at = SpOf(x, b)
    BY <2>2
  <2>5. CellsAt(x, {"ret"}) = {g} /\ Top(x, {"ret"}) = g.f
    BY <2>1, <2>2, <2>4, TopUnique
  <2> DEFINE y == [x EXCEPT !.dar.a7 = x.dar.a7 + 4]
             q == g.f.pc
  <2>6. rts(x) = Jump(y, q)
    <3>1. StackRead(x) = x
      BY <1>3 DEF StackRead
    <3>2. CellsAt(x, {"ret"}) # {}
      BY <2>5
    <3> QED BY <1>1, <2>5, <3>1, <3>2 DEF rts, Return
  <2>7. Lowers(x, g.at + g.n, y)
    BY <2>2, <2>3 DEF Lowers
  <2> HIDE DEF y
  <2>8. Popped(x, y, b, g) /\ Residue(x, y) /\ y.sr = x.sr
    BY <1>1, <2>1, <2>4, <2>7, Unstacked
  <2>9. Sound(y, q)
    BY <2>1, <2>4, <2>8, ReturnSound
  <2>10. OwedAt(y, q)
    BY <1>1, <2>8, PoppedOwed DEF Residue
  <2>11. Deep(y, d)
    <3>1. d \in Int /\ Deep(x, d)
      BY <1>1 DEF Stands
    <3> HIDE DEF b
    <3> QED BY <2>1, <2>3, <2>8, <3>1, PoppedDeep
  <2>12. Tidy(y) /\ Mild(y) /\ ~faulted(y) /\ y \in Machine /\ Firm(x, y)
    BY <1>1, <2>8, MildSame DEF Stands, Tidy, Residue, Firm, Steady, faulted
  <2>13. Stands(y, q, d) /\ q \in Int
    <3>1. Stands(y, q, d)
      BY <2>9, <2>10, <2>11, <2>12 DEF Stands
    <3>2. q \in Int
      BY <2>9, EvenPlaces DEF Sound
    <3> QED BY <3>1, <3>2
  <2> DEFINE z == Jump(y, q)
  <2>14. z \in Machine /\ Alike(y, z) /\ Firm(y, z) /\ z.pc = q
    BY <2>12, <2>13, JumpMild
  <2> HIDE DEF z, q
  <2>15. Stands(z, z.pc, d)
    BY <2>12, <2>13, <2>14, StandsAlike DEF Firm, Same, Steady, faulted
  <2>16. Firm(x, z) /\ z.stopped = 0
    BY <1>1, <2>12, <2>14, FirmTrans DEF Firm, Steady
  <2>17. Whole(z, d)
    BY <1>1, <2>15, <2>16, FirmFollows, StandsWhole
  <2>18. Outcome(z, d + 92)
    BY <2>17, WholeDeeper, WholeOutcome
  <2> QED BY <2>6, <2>18 DEF z
<1> QED BY <1>2, <1>3

----------------------------------------------------------------------------
\* The frame on top of a supervisor stack, unwound
LEMMA UnwindFields ==
    ASSUME NEW x \in Machine, NEW pc, Shaped(x, pc), NEW g \in Live(x, BankOf(x, x.sr)),
           g.at = SpOf(x, BankOf(x, x.sr)),
           NEW u, u = Unwind(x, g.f)
    PROVE  /\ u \in Machine /\ Popped(x, u, BankOf(x, x.sr), g) /\ Firm(x, u)
           /\ u.sr = g.f.sr /\ u.pc = (IF g.f.fmt = "1" THEN x.pc ELSE g.f.pc)
           /\ u.stk = x.stk /\ u.owed = x.owed
<1> DEFINE b == BankOf(x, x.sr)
           p == IF g.f.fmt = "1" THEN x.pc ELSE g.f.pc
           y == [x EXCEPT !.dar.a7 = x.dar.a7 + FrameBytes(x, g.f.fmt)]
           z == [y EXCEPT !.pc = p]
<1>1. b \in {0, 4, 6} /\ SpOf(x, b) = x.dar.a7
  BY IndexBank, BankOfType DEF SpOf
<1>2. FrameOk(x, b, g) /\ g \in Cell
  <2>1. \A e \in {0, 4, 6} : (\A c \in Live(x, e) : FrameOk(x, e, c)) /\ Live(x, e) \subseteq Cell
    BY DEF Shaped, Chained
  <2> QED BY <1>1, <2>1
<1>3. g.n = FrameBytes(x, g.f.fmt) /\ SrMasked(x, g.f.sr) = g.f.sr
  BY <1>2 DEF FrameOk
<1>4. g.f.sr \in SR /\ p \in Int /\ g.f \in FrameSet
  BY <1>2 DEF Cell, FrameSet, Machine
<1>5. Lowers(x, g.at + g.n, y)
  BY <1>1, <1>3 DEF Lowers
<1>6. u = Rebank(z, SrMasked(z, g.f.sr))
  BY DEF Unwind, set_sr
<1> HIDE DEF p, y
<1>7. Popped(x, y, b, g) /\ Residue(x, y) /\ y.sr = x.sr
  BY <1>5, Unstacked
<1>8. /\ z \in Machine /\ Alike(y, z) /\ Firm(y, z) /\ z.pc = p /\ z.stk = y.stk /\ z.owed = y.owed
  <2>1. y \in Machine
    BY <1>7 DEF Residue
  <2>2. z \in Machine
    BY <1>4, <2>1, SetPcKeeps DEF Keeps
  <2>3. Alike(y, z) /\ Firm(y, z) /\ z.pc = p
    BY <2>1, FieldAlike
  <2> HIDE DEF z
  <2> QED BY <2>2, <2>3 DEF Alike, StackSame
<1> HIDE DEF z
<1>9. SrMasked(z, g.f.sr) = g.f.sr
  <2>1. z.cpu_type = x.cpu_type
    BY <1>7, <1>8 DEF Residue, Firm, Same
  <2>2. SrMasked(z, g.f.sr) = SrMasked(x, g.f.sr)
    BY <2>1 DEF SrMasked, is_pre_68020
  <2> QED BY <1>3, <2>2
<1>10. StackSame(z, u) /\ Held(z, u) /\ u.sr = g.f.sr /\ u.pc = z.pc /\ u \in Machine
  BY <1>4, <1>6, <1>8, <1>9, RebankStacks
<1> HIDE DEF b
<1>11. Popped(x, u, b, g)
  BY <1>7, <1>8, <1>10, PoppedAlike, StackSameTrans DEF Alike
<1>12. Firm(x, u)
  BY <1>7, <1>8, <1>10, HeldFirm, FirmTrans DEF Residue
<1>13. u.stk = x.stk /\ u.owed = x.owed
  BY <1>7, <1>8, <1>10 DEF Residue, StackSame
<1> QED BY <1>8, <1>10, <1>11, <1>12, <1>13 DEF b, p

\* The supervisor stacks are mapped
LEMMA SupervisorRead ==
    ASSUME NEW x, NEW pc, Shaped(x, pc), Mild(x), BankOf(x, x.sr) # 0,
           NEW g \in Live(x, BankOf(x, x.sr)), g.at = SpOf(x, BankOf(x, x.sr))
    PROVE  StackRegion(x.dar.a7) \notin x.bad /\ StackRead(x) = x
<1> DEFINE b == BankOf(x, x.sr)
<1>1. b \in {4, 6} /\ SpOf(x, b) = x.dar.a7
  BY IndexBank, BankOfType DEF SpOf
<1>2. StackRegion(g.at) = BankRegion(b)
  BY DEF Live
<1> HIDE DEF b
<1>3. StackRegion(x.dar.a7) \in {"isp", "msp"}
  BY <1>1, <1>2 DEF BankRegion, b
<1>4. StackRegion(x.dar.a7) \notin x.bad
  BY <1>3 DEF Mild
<1> QED BY <1>4 DEF StackRead

\* RTE over the frame of an exception
LEMMA UnwindSound ==
    ASSUME NEW x \in Machine, NEW pc, Shaped(x, pc), Mild(x), ~faulted(x), Tidy(x),
           NEW d \in Int, Deep(x, d), OwedStacked(x), BankOf(x, x.sr) # 0,
           NEW g \in Live(x, BankOf(x, x.sr)), g.at = SpOf(x, BankOf(x, x.sr)), Std(g)
    PROVE  Stands(UnwindTop(x), UnwindTop(x).pc, d) /\ Firm(x, UnwindTop(x))
<1> DEFINE b == BankOf(x, x.sr)
           u == Unwind(x, g.f)
<1>1. b \in {4, 6}
  BY BankOfType
<1> HIDE DEF b
<1>2. g.f.fmt \in RteFormats(x) /\ g.f.fmt # "1"
  <2>1. FrameOk(x, b, g)
    BY <1>1 DEF Shaped, b
  <2> QED BY <2>1 DEF FrameOk, RetOk, ThrowOk, StdOk, Std
<1>3. CellsAt(x, RteFormats(x)) = {g} /\ Top(x, RteFormats(x)) = g.f
  BY <1>2, TopUnique
<1>4. StackRead(x) = x
  BY SupervisorRead
<1>5. UnwindTop(x) = u
  <2>1. CellsAt(x, RteFormats(x)) # {}
    BY <1>3
  <2> QED BY <1>3, <1>4, <2>1 DEF UnwindTop, PopFrame
<1> HIDE DEF u
<1>6. /\ u \in Machine /\ Popped(x, u, b, g) /\ Firm(x, u)
      /\ u.sr = g.f.sr /\ u.pc = g.f.pc /\ u.stk = x.stk /\ u.owed = x.owed
  <2>1. u = Unwind(x, g.f)
    BY DEF u
  <2> QED BY <1>2, <2>1, UnwindFields DEF b
<1>7. Sound(u, g.f.pc)
  BY <1>6, PopSound DEF b
<1>8. OwedAt(u, g.f.pc)
  BY <1>6, PoppedOwed
<1>9. Deep(u, d)
  <2>1. b \in {0, 4, 6}
    BY <1>1
  <2> QED BY <1>6, <2>1, PoppedDeep
<1>10. Tidy(u) /\ Mild(u) /\ ~faulted(u)
  BY <1>6, MildSame DEF Tidy, Firm, Steady, faulted
<1> QED BY <1>5, <1>6, <1>7, <1>8, <1>9, <1>10 DEF Stands

----------------------------------------------------------------------------
LEMMA PoppedStacked ==
    ASSUME NEW x, NEW b, NEW g, OwedStacked(x), ~Std(g), NEW y, Popped(x, y, b, g), y.owed = x.owed
    PROVE  OwedStacked(y)
<1> SUFFICES ASSUME NEW l \in y.owed
             PROVE  \E c \in SuperLive(y) : Std(c) /\ c.f.pc = Handler(24 + l)
  BY DEF OwedStacked
<1>1. PICK c \in SuperLive(x) : Std(c) /\ c.f.pc = Handler(24 + l)
  BY DEF OwedStacked
<1>2. c # g
  BY <1>1
<1>3. c \in SuperLive(y)
  BY <1>1, <1>2 DEF SuperLive, Popped
<1> QED BY <1>1, <1>3

\* A handler runs on the frame it was entered with
LEMMA HandlerFrame ==
    ASSUME NEW x, NEW pc, Shaped(x, pc), HandlerPc(x, pc)
    PROVE  /\ x.sr.s /\ BankOf(x, x.sr) # 0
           /\ \E g \in Live(x, BankOf(x, x.sr)) :
                 /\ g.at = SpOf(x, BankOf(x, x.sr))
                 /\ Std(g) \/ (g.f.fmt = "1" /\ BankOf(x, x.sr) = 4)
<1>1. InHandler(x, pc, x.sr, SpOf(x, 4), SpOf(x, 6))
  BY HandlerIsNoGuest DEF Shaped
<1>2. x.sr.s /\ BankOf(x, x.sr) = IF OnMaster(x, x.sr) THEN 6 ELSE 4
  BY <1>1 DEF InHandler, BankOf
<1> QED BY <1>1, <1>2 DEF InHandler, Std

\* The throwaway frame is dropped: the frame on the master stack is next
LEMMA ThrownFrame ==
    ASSUME NEW x \in Machine, NEW pc, Shaped(x, pc), HandlerPc(x, pc), Mild(x), ~faulted(x), Tidy(x),
           NEW d \in Int, Deep(x, d), OwedStacked(x), BankOf(x, x.sr) = 4,
           NEW g \in Live(x, 4), g.at = SpOf(x, 4), g.f.fmt = "1",
           NEW w, w = UnwindTop(x)
    PROVE  /\ Throwaway(x)
           /\ w \in Machine /\ Shaped(w, pc) /\ Mild(w) /\ ~faulted(w) /\ Tidy(w) /\ Deep(w, d)
           /\ OwedStacked(w) /\ Firm(x, w) /\ BankOf(w, w.sr) # 0
           /\ \E h \in Live(w, BankOf(w, w.sr)) : h.at = SpOf(w, BankOf(w, w.sr)) /\ Std(h)
<1>1. g \in Live(x, BankOf(x, x.sr)) /\ g.at = SpOf(x, BankOf(x, x.sr)) /\ BankOf(x, x.sr) # 0
  OBVIOUS
<1>2. "1" \in RteFormats(x)
  <2>1. FrameOk(x, 4, g)
    BY DEF Shaped
  <2>2. ~is_pre_68020(x) /\ OnMaster(x, g.f.sr)
    BY <2>1 DEF FrameOk, RetOk, ThrowOk, StdOk, Std
  <2>3. x.cpu_type \in Models
    BY DEF Machine
  <2> QED BY <2>2, <2>3 DEF Models, is_pre_68020, OnMaster, RteFormats
<1>3. CellsAt(x, RteFormats(x)) = {g} /\ Top(x, RteFormats(x)) = g.f /\ CellsAt(x, {"1"}) = {g}
  BY <1>1, <1>2, TopUnique
<1>4. StackRegion(x.dar.a7) \notin x.bad /\ StackRead(x) = x
  BY <1>1, SupervisorRead
<1>5. Throwaway(x)
  BY <1>2, <1>3, <1>4 DEF Throwaway
<1>6. w = Unwind(x, g.f)
  <2>1. CellsAt(x, RteFormats(x)) # {}
    BY <1>3
  <2> QED BY <1>3, <1>4, <2>1 DEF UnwindTop, PopFrame
<1>7. /\ w \in Machine /\ Popped(x, w, 4, g) /\ Firm(x, w)
      /\ w.sr = g.f.sr /\ w.stk = x.stk /\ w.owed = x.owed
  BY <1>1, <1>6, UnwindFields
<1>8. /\ Shaped(w, pc) /\ BankOf(w, w.sr) = 6
      /\ \E h \in Live(w, 6) : h.at = SpOf(w, 6) /\ Std(h)
  BY <1>7, ThrowPopShaped
<1>9. OwedStacked(w)
  <2>1. ~Std(g)
    BY DEF Std
  <2> QED BY <1>7, <2>1, PoppedStacked
<1>10. Deep(w, d)
  <2>1. 4 \in {0, 4, 6}
    OBVIOUS
  <2> QED BY <1>7, <2>1, PoppedDeep
<1>11. Tidy(w) /\ Mild(w) /\ ~faulted(w)
  BY <1>7, MildSame DEF Tidy, Firm, Steady, faulted
<1>12. BankOf(w, w.sr) # 0
  BY <1>8
<1>13. \E h \in Live(w, BankOf(w, w.sr)) : h.at = SpOf(w, BankOf(w, w.sr)) /\ Std(h)
  BY <1>8
<1> QED BY <1>5, <1>7, <1>8, <1>9, <1>10, <1>11, <1>12, <1>13

LEMMA RteSound ==
    ASSUME NEW x, NEW d \in 0..708, Decoded(x, d), HandlerPc(x, x.ppc)
    PROVE  Outcome(rte(x), d + 92)
<1> DEFINE b == BankOf(x, x.sr)
           w == IF Throwaway(x) THEN UnwindTop(x) ELSE x
           u == UnwindTop(w)
           z == full_prefetch(u)
<1>1. /\ Stands(x, x.ppc, d) /\ OwedStacked(x) /\ x \in Machine /\ Mild(x) /\ ~faulted(x)
      /\ Shaped(x, x.ppc) /\ Tidy(x) /\ Deep(x, d) /\ d \in Int
      /\ x.stopped = 0 /\ x.fault_resume = NoResume /\ ~x.nested /\ ~x.exception_processing
  BY DEF Decoded, Saved, Stands, Sound
<1>2. x.sr.s /\ b # 0
  BY <1>1, HandlerFrame
<1>3. PICK g \in Live(x, b) : g.at = SpOf(x, b) /\ (Std(g) \/ (g.f.fmt = "1" /\ b = 4))
  BY <1>1, HandlerFrame
<1>4. rte(x) = z
  BY <1>2 DEF rte
<1>5. Stands(u, u.pc, d) /\ Firm(x, u)
  <2>1. CASE Std(g)
    <3>1. CellsAt(x, {"1"}) = {}
      BY <1>1, <1>3, <2>1, TopUnique DEF Std
    <3>2. w = x
      BY <3>1 DEF Throwaway
    <3> HIDE DEF w
    <3>3. Stands(UnwindTop(x), UnwindTop(x).pc, d) /\ Firm(x, UnwindTop(x))
      BY <1>1, <1>2, <1>3, <2>1, UnwindSound
    <3> QED BY <3>2, <3>3
  <2>2. CASE ~Std(g)
    <3> DEFINE y == UnwindTop(x)
    <3>1. BankOf(x, x.sr) = 4 /\ g \in Live(x, 4) /\ g.at = SpOf(x, 4) /\ g.f.fmt = "1"
      BY <1>3, <2>2
    <3>2. /\ Throwaway(x)
          /\ y \in Machine /\ Shaped(y, x.ppc) /\ Mild(y) /\ ~faulted(y) /\ Tidy(y) /\ Deep(y, d)
          /\ OwedStacked(y) /\ Firm(x, y) /\ BankOf(y, y.sr) # 0
          /\ \E h \in Live(y, BankOf(y, y.sr)) : h.at = SpOf(y, BankOf(y, y.sr)) /\ Std(h)
      BY <1>1, <3>1, ThrownFrame
    <3>3. w = y
      BY <3>2
    <3> HIDE DEF w, y
    <3>4. Stands(UnwindTop(y), UnwindTop(y).pc, d) /\ Firm(y, UnwindTop(y))
      BY <1>1, <3>2, UnwindSound
    <3>5. Firm(x, UnwindTop(y))
      BY <3>2, <3>4, FirmTrans
    <3> QED BY <3>3, <3>4, <3>5
  <2> QED BY <2>1, <2>2
<1> HIDE DEF u, b
<1>6. u \in Machine /\ Mild(u) /\ ~faulted(u)
  BY <1>5 DEF Stands
<1>7. z = Refilled(u)
  BY <1>6, MildFill
<1> HIDE DEF z
<1>8. z \in Machine /\ Alike(u, z) /\ Firm(u, z) /\ z.pc = u.pc
  BY <1>6, <1>7, RefilledAlike
<1>9. Stands(z, z.pc, d)
  BY <1>5, <1>6, <1>8, StandsAlike DEF Firm, Same, Steady, faulted
<1>10. Firm(x, z) /\ z.stopped = 0
  BY <1>1, <1>5, <1>8, FirmTrans DEF Firm, Steady
<1>11. Whole(z, d)
  BY <1>1, <1>9, <1>10, FirmFollows, StandsWhole
<1>12. Outcome(z, d + 92)
  BY <1>11, WholeDeeper, WholeOutcome
<1> QED BY <1>4, <1>12

----------------------------------------------------------------------------
\* Where the guest's code may be, and the instruction there
LEMMA Placing ==
    ASSUME NEW x, NEW pc, Shaped(x, pc), Proper(x.prog)
    PROVE  \/ pc \in UserCode /\ OpAt(x, pc) = x.prog[pc] /\ x.prog[pc] \in SafeOps \ {"ext"}
           \/ pc = Subroutine /\ OpAt(x, pc) = "pinc"
           \/ pc = Subroutine + 2 /\ OpAt(x, pc) = "rts"
           \/ HandlerPc(x, pc) /\ OpAt(x, pc) = "rte"
<1>1. Placed(x, pc, x.sr, SpOf(x, 4), SpOf(x, 6))
  BY DEF Shaped
<1>2. CASE AtGuest(x, pc, SpOf(x, 4), SpOf(x, 6))
  BY <1>2 DEF AtGuest, GuestPc, Proper, Body, OpAt
<1>3. CASE InCall(x, pc, x.sr, SpOf(x, 4), SpOf(x, 6))
  <2>1. pc \in {200, 202}
    BY <1>3 DEF InCall, Subroutine
  <2> QED BY <2>1 DEF OpAt, Subroutine, UserCode, Handler
<1>4. CASE InHandler(x, pc, x.sr, SpOf(x, 4), SpOf(x, 6))
  <2>1. HandlerPc(x, pc)
    BY <1>4 DEF InHandler
  <2>2. pc > 400 /\ pc \in Int /\ pc % 4 = 0 /\ ~Group0Handler(x, pc)
    BY <2>1 DEF HandlerPc, Handler
  <2>3. pc \notin UserCode /\ ~(pc < Handler(0))
    BY <2>2 DEF UserCode, Handler
  <2> QED BY <2>1, <2>2, <2>3 DEF OpAt
<1> QED BY <1>1, <1>2, <1>3, <1>4 DEF Placed

LEMMA DispatchSound ==
    ASSUME NEW x, NEW d \in 0..708, Decoded(x, d), Proper(x.prog),
           NEW op, op = OpAt(x, x.ppc), op \notin Traps
    PROVE  Outcome(dispatch_instruction(x, op), d + 92)
<1>1. Shaped(x, x.ppc)
  BY DEF Decoded, Stands, Sound
<1>2. CASE x.ppc \in UserCode /\ op = x.prog[x.ppc] /\ x.prog[x.ppc] \in SafeOps \ {"ext"}
  <2>1. CASE op = "rmw"
    BY <1>2, <2>1, RmwSound DEF dispatch_instruction
  <2>2. CASE op = "pinc"
    BY <1>2, <2>2, PincGuest DEF dispatch_instruction
  <2>3. CASE op = "nop"
    BY <1>2, <2>3, NopSound DEF dispatch_instruction
  <2>4. CASE op = "bra"
    BY <1>2, <2>4, BraSound DEF dispatch_instruction
  <2>5. CASE op = "jsr"
    BY <1>2, <2>5, JsrSound DEF dispatch_instruction
  <2>6. CASE op = "div0"
    BY <1>2, <2>6, DivSound DEF dispatch_instruction
  <2>7. CASE op = "stop"
    BY <1>2, <2>7, StopSound DEF dispatch_instruction, Stops
  <2>8. CASE op = "stopu"
    BY <1>2, <2>8, StopSound DEF dispatch_instruction, Stops
  <2>9. CASE op = "halt"
    BY <1>2, <2>9, HaltSound DEF dispatch_instruction
  <2> QED BY <1>2, <2>1, <2>2, <2>3, <2>4, <2>5, <2>6, <2>7, <2>8, <2>9 DEF SafeOps, Traps
<1>3. CASE x.ppc = Subroutine /\ op = "pinc"
  BY <1>3, PincCalled DEF dispatch_instruction
<1>4. CASE x.ppc = Subroutine + 2 /\ op = "rts"
  BY <1>4, RtsSound DEF dispatch_instruction
<1>5. CASE HandlerPc(x, x.ppc) /\ op = "rte"
  BY <1>5, RteSound DEF dispatch_instruction
<1> QED BY <1>1, <1>2, <1>3, <1>4, <1>5, Placing

\* A trap the decoder has reached: the CPU stands on both sides of it
LEMMA TrapReached ==
    ASSUME NEW x, NEW d \in 0..708, Decoded(x, d), Proper(x.prog),
           NEW op, op = OpAt(x, x.ppc), op \in Traps
    PROVE  Whole(x, d) /\ Stands(x, x.pc, d) /\ Stands(x, x.ppc, d)
<1>1. Shaped(x, x.ppc) /\ Stands(x, x.ppc, d)
  BY DEF Decoded, Stands, Sound
<1>2. x.ppc \in UserCode /\ x.prog[x.ppc] \in Traps
  BY <1>1, Placing DEF Traps
<1>3. x.prog[x.ppc] \in {"nop"} \cup Traps
  BY <1>2
<1> QED BY <1>1, <1>2, <1>3, NopSound

\* y is x back at the instruction that trapped
Restarts(x, y) == y = [x EXCEPT !.pc = x.ppc]

LEMMA RestartFields ==
    ASSUME NEW x \in Machine, NEW y, Restarts(x, y)
    PROVE  y \in Machine /\ Verbatim(x, y) /\ Firm(x, y) /\ y.pc = x.ppc /\ y.ppc = x.ppc
<1>1. y \in Machine
  BY DEF Machine, Restarts
<1> QED BY <1>1 DEF Machine, Restarts, Verbatim, Firm, Same, Steady

LEMMA TrapTaken ==
    ASSUME NEW x, NEW d \in 0..708, Stands(x, x.pc, d), Stands(x, x.ppc, d), NEW op \in Traps,
           x.fault_resume = NoResume, ~x.nested, ~x.exception_processing,
           NEW z, z = TakeTrap(x, op)
    PROVE  Whole(z, d + 92) /\ Follows(x, z) /\ z.stopped = x.stopped
<1>d. d \in 0..800
  OBVIOUS
<1>1. CASE op = "aline"
  <2> DEFINE y == [x EXCEPT !.pc = x.ppc]
  <2>1. Restarts(x, y)
    BY DEF Restarts
  <2>2. z = take_exception(y, LINE_1010)
    BY <1>1 DEF TakeTrap
  <2> HIDE DEF y
  <2>3. y \in Machine /\ Verbatim(x, y) /\ Firm(x, y) /\ y.ppc = x.ppc
    BY <2>1, RestartFields DEF Stands
  <2>4. Stands(y, y.ppc, d)
    BY <2>3, VerbatimAlike, StandsAlike DEF Stands, Firm, Same, Steady, faulted
  <2>5. /\ LINE_1010 \in Nat /\ LINE_1010 > 3 /\ LINE_1010 \notin 25..30 /\ ~StacksNextPc(LINE_1010)
    BY DEF LINE_1010, StacksNextPc, ZERO_DIVIDE, TRACE, TRAP_BASE
  <2>6. y.fault_resume = NoResume /\ ~y.nested /\ ~y.exception_processing /\ y.stopped = x.stopped
    BY <2>3 DEF Firm, Same, Steady
  <2>7. Handles(y, z, LINE_1010, d + 92)
    <3>1. Stands(y, IF StacksNextPc(LINE_1010) THEN y.pc ELSE y.ppc, d)
      BY <2>4, <2>5
    <3>2. ~y.exception_processing
      BY <2>6
    <3>3. Handles(y, take_exception(y, LINE_1010), LINE_1010, d + 92)
      BY <1>d, <2>5, <3>1, <3>2, TakenSound
    <3> QED BY <2>2, <3>3
  <2>8. Whole(z, d + 92) /\ Follows(y, z) /\ z.stopped = y.stopped
    BY <2>6, <2>7, HandlesWhole
  <2> QED BY <2>3, <2>6, <2>8, FirmFollows, FollowsTrans
<1>2. CASE op # "aline"
  <2>1. z = take_exception(x, TRAP_BASE)
    BY <1>2 DEF TakeTrap
  <2>2. /\ TRAP_BASE \in Nat /\ TRAP_BASE > 3 /\ TRAP_BASE \notin 25..30 /\ StacksNextPc(TRAP_BASE)
    BY DEF StacksNextPc, ZERO_DIVIDE, TRACE, TRAP_BASE
  <2>3. Handles(x, z, TRAP_BASE, d + 92)
    <3>1. Stands(x, IF StacksNextPc(TRAP_BASE) THEN x.pc ELSE x.ppc, d)
      BY <2>2
    <3>2. Handles(x, take_exception(x, TRAP_BASE), TRAP_BASE, d + 92)
      BY <1>d, <2>2, <3>1, TakenSound
    <3> QED BY <2>1, <3>2
  <2> QED BY <2>3, HandlesWhole
<1> QED BY <1>1, <1>2

----------------------------------------------------------------------------
(* The end of an instruction, and the run loops' other calls *)

LEMMA WholeAlike ==
    ASSUME NEW x, NEW d, Whole(x, d), NEW y \in Machine, Alike(x, y), Firm(x, y), y.pc = x.pc
    PROVE  Whole(y, d)
<1>1. Stands(y, y.pc, d)
  BY StandsAlike DEF Whole, Stands, Firm, Same, Steady, faulted
<1>2. y.fault_resume = NoResume /\ ~y.nested /\ ~y.exception_processing
  BY DEF Whole, Firm, Same, Steady
<1>3. SupervisorWake(y) => SupervisorWake(x)
  BY DEF SupervisorWake, Alike, Firm, Steady
<1>4. SupervisorWake(y) => Sound(y, y.pc - 4) /\ OwedAt(y, y.pc - 4)
  BY <1>3, AlikeSound DEF Whole
<1> QED BY <1>1, <1>2, <1>4 DEF Whole

LEMMA TracedWhole ==
    ASSUME NEW x, NEW d \in 0..708, Whole(x, d), NEW z, z = exception_trace(x)
    PROVE  Whole(z, d + 92) /\ Follows(x, z)
<1>1. Stands(x, x.pc, d) /\ d \in 0..800
  BY DEF Whole
<1>2. /\ Stands(z, Handler(TRACE), d + 92) /\ z.pc = Handler(TRACE)
      /\ Same(x, z) /\ z.stopped = 0 /\ z.run_mode = x.run_mode /\ z.nested = x.nested
      /\ z.fault_resume = x.fault_resume
  <2>1. Tracing(x, z, d + 92)
    BY <1>1, TraceSound
  <2> QED BY <2>1 DEF Tracing
<1>3. Follows(x, z)
  BY <1>2 DEF Same, Follows
<1>4. Stands(z, z.pc, d + 92)
  BY <1>2
<1> QED BY <1>2, <1>3, <1>4, StandsWhole DEF Whole

LEMMA ServedWhole ==
    ASSUME NEW x, NEW d \in 0..800, Whole(x, d), NEW z, z = check_and_service_interrupts(x)
    PROVE  Whole(z, d + 184) /\ Follows(x, z) /\ (Serviceable(x) => z.stopped = 0)
<1>1. CASE Serviceable(x)
  <2>1. Stands(z, z.pc, d + 184) /\ Follows(x, z) /\ z.stopped = 0
    BY <1>1, ServedSound DEF Whole
  <2>2. Whole(z, d + 184)
    BY <2>1, StandsWhole DEF Whole
  <2> QED BY <2>1, <2>2
<1>2. CASE ~Serviceable(x)
  <2>1. z = x
    BY <1>2 DEF check_and_service_interrupts
  <2>2. Whole(x, d + 184) /\ Follows(x, x)
    BY WholeDeeper DEF Follows
  <2> QED BY <1>2, <2>1, <2>2
<1> QED BY <1>1, <1>2

LEMMA CompleteWhole ==
    ASSUME NEW x, NEW d \in 0..708, Outcome(x, d), NEW s \in BOOLEAN, NEW z, z = Complete(x, s)
    PROVE  Whole(z, d + 276)
<1>1. CASE faulted(x)
  <2>1. Whole(end_faulted_instruction(x), d)
    BY <1>1, DueEnds DEF Outcome
  <2>2. z = end_faulted_instruction(x)
    BY <1>1 DEF Complete
  <2> QED BY <2>1, <2>2, WholeDeeper
<1>2. CASE ~faulted(x)
  <2> DEFINE u == top_up_prefetch(x)
             w == [u EXCEPT !.change_of_flow = FALSE]
             t == exception_trace(w)
  <2>1. Whole(x, d) /\ x \in Machine /\ Mild(x)
    BY <1>2 DEF Outcome, Whole, Stands
  <2>2. u \in Machine /\ Alike(x, u) /\ Firm(x, u) /\ u.pc = x.pc
    BY <2>1, TopUpMild
  <2>3. z = Boundary(w, check_trace(u), s)
    BY <1>2 DEF Complete, Retire, EndInstruction
  <2> HIDE DEF u
  <2>4. w \in Machine /\ Alike(u, w) /\ Held(u, w) /\ w.pc = u.pc
    BY <2>2, FlowAlike
  <2> HIDE DEF w
  <2>5. Whole(u, d)
    BY <2>1, <2>2, WholeAlike
  <2>6. Whole(w, d)
    BY <2>4, <2>5, HeldFirm, WholeAlike
  <2>7. Whole(t, d + 92)
    BY <2>6, TracedWhole
  <2>8. z \in {t, check_and_service_interrupts(t), check_and_service_interrupts(w)}
    BY <2>3 DEF Boundary
  <2> HIDE DEF t
  <2>9. Whole(check_and_service_interrupts(t), (d + 92) + 184)
    <3>1. d + 92 \in 0..800
      OBVIOUS
    <3> QED BY <2>7, <3>1, ServedWhole
  <2>10. Whole(check_and_service_interrupts(w), d + 184)
    <3>1. d \in 0..800
      OBVIOUS
    <3> QED BY <2>6, <3>1, ServedWhole
  <2>11. Whole(t, d + 276)
    BY <2>7, WholeDeeper
  <2>12. Whole(check_and_service_interrupts(t), d + 276)
    <3>1. (d + 92) + 184 = d + 276
      OBVIOUS
    <3> QED BY <2>9, <3>1
  <2>13. Whole(check_and_service_interrupts(w), d + 276)
    BY <2>10, WholeDeeper
  <2> QED BY <2>8, <2>11, <2>12, <2>13
<1> QED BY <1>1, <1>2

\* y is x awake, at the STOP it had executed
Wakes(x, y) == y = [x EXCEPT !.stopped = 0, !.ppc = x.pc - 4]

LEMMA WokenFields ==
    ASSUME NEW x \in Machine, NEW y, Wakes(x, y)
    PROVE  /\ y \in Machine /\ Verbatim(x, y) /\ Same(x, y) /\ y.ppc = x.pc - 4 /\ y.stopped = 0
           /\ y.run_mode = x.run_mode /\ y.nested = x.nested /\ y.fault_resume = x.fault_resume
<1>1. y \in Machine
  <2>1. x.pc - 4 \in Int
    BY DEF Machine
  <2> QED BY <2>1 DEF Machine, Wakes
<1> QED BY <1>1 DEF Machine, Wakes, Verbatim, Same

LEMMA WakeWhole ==
    ASSUME NEW x, NEW d \in 0..708, Whole(x, d), SupervisorWake(x),
           NEW z, z = stopped_supervisor_check(x)
    PROVE  Whole(z, d + 92) /\ z.stopped = 0
<1> DEFINE y == [x EXCEPT !.stopped = 0, !.ppc = x.pc - 4]
<1>1. Wakes(x, y) /\ z = exception_privilege(y)
  BY DEF Wakes, stopped_supervisor_check
<1> HIDE DEF y
<1>2. Stands(x, x.pc, d) /\ Sound(x, x.pc - 4) /\ OwedAt(x, x.pc - 4) /\ x \in Machine
  BY DEF Whole, Stands
<1>3. /\ y \in Machine /\ Verbatim(x, y) /\ Same(x, y) /\ y.ppc = x.pc - 4 /\ y.stopped = 0
      /\ y.run_mode = x.run_mode /\ y.nested = x.nested /\ y.fault_resume = x.fault_resume
  BY <1>1, <1>2, WokenFields
<1>4. Stands(x, x.pc - 4, d)
  BY <1>2 DEF Stands
<1>5. Stands(y, y.ppc, d)
  BY <1>3, <1>4, VerbatimAlike, StandsAlike DEF Stands, Same, faulted
<1>6. y.fault_resume = NoResume /\ ~y.nested /\ ~y.exception_processing
  BY <1>3 DEF Whole, Same
<1>7. Handles(y, z, PRIVILEGE_VIOLATION, d + 92)
  BY <1>1, <1>5, <1>6, PrivilegeTaken
<1> QED BY <1>3, <1>6, <1>7, HandlesWhole

\* Pruning keeps what is live
Prunes(x, S, y) == y = [x EXCEPT !.stk = S]

LEMMA PrunedFields ==
    ASSUME NEW x \in Machine, NEW S \in SUBSET x.stk, NEW y, Prunes(x, S, y)
    PROVE  /\ y \in Machine /\ Guested(x, y) /\ Firm(x, y) /\ y.sr = x.sr /\ y.owed = x.owed
           /\ y.stk = S /\ y.pc = x.pc /\ y.ppc = x.ppc /\ y.queue = x.queue
           /\ \A b \in {0, 4, 6} : SpOf(y, b) = SpOf(x, b)
<1>1. y \in Machine
  <2>1. S \in SUBSET [at : Int, n : Nat, f : FrameSet]
    BY DEF Machine
  <2> QED BY <2>1 DEF Machine, Prunes
<1>2. /\ Guested(x, y) /\ y.sr = x.sr /\ y.owed = x.owed /\ y.sp = x.sp /\ y.dar = x.dar
      /\ y.stk = S /\ y.pc = x.pc /\ y.ppc = x.ppc /\ y.queue = x.queue
  BY DEF Machine, Prunes, Guested
<1>3. Firm(x, y)
  BY DEF Machine, Prunes, Firm, Same, Steady
<1>4. \A b \in {0, 4, 6} : SpOf(y, b) = SpOf(x, b)
  BY <1>2 DEF SpOf, sp_index, Guested
<1> QED BY <1>1, <1>2, <1>3, <1>4

Lives(x) == Live(x, 0) \cup Live(x, 4) \cup Live(x, 6)

LEMMA PruneLives ==
    ASSUME NEW x, ~faulted(x)
    PROVE  Prunes(x, Lives(x), Prune(x)) /\ Lives(x) \in SUBSET x.stk
<1> DEFINE live(c) == \E b \in {0, 4, 6} :
                         /\ StackRegion(c.at) = StackRegion(Banks[b] - 1)
                         /\ c.at >= (IF sp_index(x) = b THEN x.dar.a7 ELSE x.sp[b])
<1>1. Prune(x) = [x EXCEPT !.stk = { c \in x.stk : live(c) }]
  BY DEF Prune
<1>2. \A b \in {0, 4, 6} : StackRegion(Banks[b] - 1) = BankRegion(b)
  BY DEF Banks, StackRegion, BankRegion, UserBase, IspBase, MspBase
<1>3. { c \in x.stk : live(c) } = Lives(x)
  BY <1>2 DEF Lives, Live, SpOf
<1>4. Lives(x) \in SUBSET x.stk
  BY DEF Lives, Live
<1> QED BY <1>1, <1>3, <1>4 DEF Prunes

LEMMA PruneWhole ==
    ASSUME NEW x, NEW d, Whole(x, d), NEW y, y = Prune(x)
    PROVE  /\ Whole(y, d) /\ Firm(x, y) /\ y.stk = Lives(y) /\ y.pc = x.pc /\ y.ppc = x.ppc
           /\ y.queue = x.queue
<1>1. Stands(x, x.pc, d) /\ x \in Machine /\ ~faulted(x)
  BY DEF Whole, Stands
<1>2. Prunes(x, Lives(x), y) /\ Lives(x) \in SUBSET x.stk
  BY <1>1, PruneLives
<1>3. /\ y \in Machine /\ Guested(x, y) /\ Firm(x, y) /\ y.sr = x.sr /\ y.owed = x.owed
      /\ y.stk = Lives(x) /\ y.pc = x.pc /\ y.ppc = x.ppc /\ y.queue = x.queue
      /\ \A b \in {0, 4, 6} : SpOf(y, b) = SpOf(x, b)
  BY <1>1, <1>2, PrunedFields
<1>4. \A b \in {0, 4, 6} : Live(y, b) = Live(x, b)
  BY <1>3 DEF Live, Lives
<1>5. Resembles(x, y)
  BY <1>3, <1>4 DEF Resembles
<1>6. SuperLive(y) = SuperLive(x) /\ \A pc : Sound(x, pc) => Sound(y, pc)
  BY <1>5, ResemblesSound
<1>7. \A pc : OwedAt(x, pc) => OwedAt(y, pc)
  BY <1>3, <1>6 DEF OwedAt
<1>8. Mild(y) /\ ~faulted(y)
  BY <1>1, <1>3, MildSame DEF Stands, Firm, Steady, faulted
<1>9. Tidy(y) /\ Deep(y, d)
  BY <1>1, <1>2, <1>3 DEF Stands, Tidy, Deep
<1>10. Stands(y, y.pc, d)
  BY <1>1, <1>3, <1>6, <1>7, <1>8, <1>9 DEF Stands
<1>11. SupervisorWake(y) => SupervisorWake(x)
  BY <1>3 DEF SupervisorWake, Firm, Steady
<1>12. SupervisorWake(y) => Sound(y, y.pc - 4) /\ OwedAt(y, y.pc - 4)
  BY <1>3, <1>6, <1>7, <1>11 DEF Whole
<1>13. y.fault_resume = NoResume /\ ~y.nested /\ ~y.exception_processing
  BY <1>3 DEF Whole, Firm, Same, Steady
<1>14. y.stk = Lives(y)
  BY <1>3, <1>4 DEF Lives
<1> QED BY <1>3, <1>10, <1>12, <1>13, <1>14 DEF Whole

----------------------------------------------------------------------------
(* The steps of the specification *)

LEMMA ShedsLives ==
    ASSUME NEW x, NEW y, Sheds(x, y)
    PROVE  Lives(y) = Lives(x) /\ y.stk = x.stk
<1>1. sp_index(y) = sp_index(x)
  BY DEF Sheds, sp_index
<1>2. \A b \in {0, 4, 6} : SpOf(y, b) = SpOf(x, b)
  BY <1>1 DEF Sheds, SpOf
<1>3. \A b \in {0, 4, 6} : Live(y, b) = Live(x, b)
  BY <1>2 DEF Sheds, Live
<1> QED BY <1>3 DEF Sheds, Lives

\* One turn of a run loop
Turned(x, f, op) ==
    /\ faulted(f) => Whole(end_faulted_instruction(f), 968)
    /\ ~faulted(f) /\ op \in Traps =>
          /\ Whole(f, 600) /\ Stands(f, f.ppc, 600) /\ f.stopped = 0
          /\ f.stk = x.stk /\ Lives(f) = Lives(x)
          /\ \A s \in BOOLEAN : Whole(Complete(f, s), 968) /\ Whole(Complete(TakeTrap(f, op), s), 968)
    /\ ~faulted(f) /\ op \notin Traps =>
          \A s \in BOOLEAN : Whole(Complete(dispatch_instruction(f, op), s), 968)

LEMMA TurnWhole ==
    ASSUME NEW x, Whole(x, 600), x.stopped = 0, QueueAt(x.queue, x.pc), Proper(x.prog),
           NEW f, f = FetchOpcode(x).m, NEW op, op = OpAt(f, FetchOpcode(x).w)
    PROVE  Turned(x, f, op)
<1>1. /\ faulted(f) => Due(f, 692)
      /\ ~faulted(f) => /\ Decoded(f, 600) /\ FetchOpcode(x).w = f.ppc
                        /\ Follows(x, f) /\ Sheds(x, f)
  <2>1. 600 \in 0..800 /\ 600 + 92 = 692
    OBVIOUS
  <2> QED BY <2>1, Fetching
<1>2. CASE faulted(f)
  <2>1. Whole(end_faulted_instruction(f), 692)
    BY <1>1, <1>2, DueEnds
  <2>2. Whole(end_faulted_instruction(f), 968)
    BY <2>1, WholeDeeper
  <2> QED BY <1>2, <2>2 DEF Turned
<1>3. CASE ~faulted(f) /\ op \in Traps
  <2>1. Decoded(f, 600) /\ op = OpAt(f, f.ppc) /\ Proper(f.prog)
    BY <1>1, <1>3 DEF Follows
  <2>2. Whole(f, 600) /\ Stands(f, f.pc, 600) /\ Stands(f, f.ppc, 600)
    BY <1>3, <2>1, TrapReached
  <2>3. f.stopped = 0 /\ f.fault_resume = NoResume /\ ~f.nested /\ ~f.exception_processing
    BY <2>1 DEF Decoded, Saved
  <2>4. f.stk = x.stk /\ Lives(f) = Lives(x)
    BY <1>1, <1>3, ShedsLives
  <2> DEFINE z == TakeTrap(f, op)
  <2>5. Whole(z, 600 + 92)
    <3>1. 600 \in 0..708 /\ op \in Traps
      BY <1>3
    <3> HIDE DEF z
    <3>2. z = TakeTrap(f, op)
      BY DEF z
    <3> QED BY <2>2, <2>3, <3>1, <3>2, TrapTaken
  <2> HIDE DEF z
  <2>6. Outcome(z, 692) /\ Outcome(f, 692)
    <3>1. Whole(z, 692) /\ Whole(f, 692)
      BY <2>2, <2>5, WholeDeeper
    <3> QED BY <3>1, WholeOutcome
  <2>7. ASSUME NEW s \in BOOLEAN PROVE Whole(Complete(f, s), 968) /\ Whole(Complete(z, s), 968)
    <3>1. 692 \in 0..708 /\ 692 + 276 = 968
      OBVIOUS
    <3> QED BY <2>6, <3>1, CompleteWhole
  <2> QED BY <1>3, <2>2, <2>3, <2>4, <2>7 DEF Turned, z
<1>4. CASE ~faulted(f) /\ op \notin Traps
  <2>1. Decoded(f, 600) /\ op = OpAt(f, f.ppc) /\ Proper(f.prog)
    BY <1>1, <1>4 DEF Follows
  <2> DEFINE z == dispatch_instruction(f, op)
  <2>2. Outcome(z, 600 + 92)
    BY <1>4, <2>1, DispatchSound
  <2> HIDE DEF z
  <2>3. ASSUME NEW s \in BOOLEAN PROVE Whole(Complete(z, s), 968)
    <3>1. 692 \in 0..708 /\ 692 + 276 = 968 /\ 600 + 92 = 692
      OBVIOUS
    <3> QED BY <2>2, <3>1, CompleteWhole
  <2> QED BY <1>4, <2>3 DEF Turned, z
<1> QED BY <1>2, <1>3, <1>4

----------------------------------------------------------------------------
(* Boot, and what the host does to the machine between calls *)

LEMMA BootFields ==
    ASSUME NEW x \in Machine, NEW sr \in SR, NEW y, y = Boot(x, sr)
    PROVE  /\ y \in Machine /\ Same(x, y) /\ y.run_mode = x.run_mode /\ y.stopped = x.stopped
           /\ y.fault_resume = x.fault_resume /\ ~y.nested /\ y.pc = x.pc
           /\ y.stk = {} /\ y.owed = {} /\ ~y.astray /\ y.data = 0 /\ y.dar.r = 0
           /\ y.sr = SrMasked(x, sr) /\ y.sp = Banks /\ y.dar.a7 = Banks[sp_index(y)]
<1>1. /\ y \in Machine /\ Same(x, y) /\ y.run_mode = x.run_mode /\ y.stopped = x.stopped
      /\ y.fault_resume = x.fault_resume /\ ~y.nested /\ y.stk = {} /\ y.sr = SrMasked(x, sr)
  BY BootLeaves
<1> DEFINE msr == SrMasked(x, sr)
           w == [x EXCEPT !.sp = Banks, !.sr = msr]
           d == [r |-> 0, a7 |-> Banks[sp_index(w)]]
           z == [w EXCEPT !.dar = d, !.data = 0, !.stk = {}, !.nested = FALSE,
                          !.owed = {}, !.astray = FALSE]
<1>2. y = z
  BY DEF Boot, msr, w, d, z
<1>3. d.r = 0 /\ d.a7 = Banks[sp_index(w)]
  OBVIOUS
<1> HIDE DEF d, msr
<1>4. w.sr = msr /\ w.sp = Banks /\ w.pc = x.pc /\ w.cpu_type = x.cpu_type /\ DOMAIN w = DOMAIN x
  BY DEF Machine
<1>5. /\ z.pc = w.pc /\ z.dar = d /\ z.data = 0 /\ z.owed = {} /\ ~z.astray /\ z.sp = w.sp
      /\ z.sr = w.sr /\ z.cpu_type = w.cpu_type
  BY DEF Machine
<1> HIDE DEF z, w
<1>6. sp_index(z) = sp_index(w)
  BY <1>5 DEF sp_index
<1> QED BY <1>1, <1>2, <1>3, <1>4, <1>5, <1>6

\* Booted, the guest is at its first instruction on empty stacks
LEMMA BootWhole ==
    ASSUME NEW x \in Machine, NEW sr \in SR, Proper(x.prog), Mild(x),
           x.run_mode = Normal, x.stopped = 0, x.pc = Origin, ~x.exception_processing,
           x.fault_resume = NoResume, NEW y, y = Boot(x, sr)
    PROVE  Whole(y, 968) /\ y.stk = Lives(y) /\ y.stopped = 0
<1>1. /\ y \in Machine /\ Same(x, y) /\ y.run_mode = Normal /\ y.stopped = 0
      /\ y.fault_resume = NoResume /\ ~y.nested /\ y.pc = Origin
      /\ y.stk = {} /\ y.owed = {} /\ ~y.astray /\ y.data = 0 /\ y.dar.r = 0
      /\ y.sr = SrMasked(x, sr) /\ y.sp = Banks /\ y.dar.a7 = Banks[sp_index(y)]
  BY BootFields
<1>2. \A b \in {0, 4, 6} : Live(y, b) = {} /\ SpOf(y, b) = Banks[b]
  BY <1>1 DEF Live, SpOf
<1>3. y.stk = Lives(y)
  BY <1>1, <1>2 DEF Lives
<1>4. SrMasked(y, y.sr) = y.sr
  <2>1. SrMasked(x, SrMasked(x, sr)) = SrMasked(x, sr)
    BY DEF SrMasked, SR
  <2>2. is_pre_68020(y) = is_pre_68020(x) /\ y.cpu_type = x.cpu_type
    BY <1>1 DEF Same, is_pre_68020
  <2>3. SrMasked(y, y.sr) = SrMasked(x, y.sr)
    BY <2>2 DEF SrMasked
  <2> QED BY <1>1, <2>1, <2>3
<1>5. y.prog = x.prog /\ y.exception_processing = x.exception_processing
  BY <1>1 DEF Same
<1>6. GuestPc(y, Origin)
  BY <1>5, BodyOrigin DEF GuestPc
<1>7. Counted(y, Origin, 0)
  <2>1. BalanceOf(y.prog, Origin) = 0
    BY BalanceOrigin
  <2>2. (y.data - y.dar.r - BalanceOf(y.prog, Origin) - 0) % RegMod = 0
    BY <1>1, <2>1 DEF RegMod
  <2> QED BY <2>2 DEF Counted
<1>8. Sound(y, Origin)
  BY <1>1, <1>2, <1>4, <1>6, <1>7, GuestSound
<1>9. Mild(y) /\ ~faulted(y)
  BY <1>1, MildSame DEF faulted, Normal, Fault
<1>10. OwedAt(y, Origin) /\ Tidy(y)
  BY <1>1 DEF OwedAt, Tidy
<1>11. Deep(y, 968)
  BY <1>2, BankFacts DEF Deep
<1>12. Stands(y, y.pc, 968)
  BY <1>1, <1>8, <1>9, <1>10, <1>11 DEF Stands
<1>13. ~SupervisorWake(y)
  BY <1>1 DEF SupervisorWake
<1> QED BY <1>1, <1>3, <1>5, <1>12, <1>13 DEF Whole

\* The host's calls that touch no state of the program
Touched(x, y) ==
    /\ y \in Machine /\ Verbatim(x, y) /\ y.pc = x.pc /\ y.ppc = x.ppc
    /\ y.run_mode = x.run_mode /\ y.stopped = x.stopped /\ y.nested = x.nested
    /\ y.fault_resume = x.fault_resume /\ y.exception_processing = x.exception_processing

LEMMA TouchedStands ==
    ASSUME NEW x, NEW y, Touched(x, y), Mild(y), NEW pc, NEW d, Stands(x, pc, d)
    PROVE  Stands(y, pc, d)
<1>1. Alike(x, y)
  BY VerbatimAlike DEF Touched
<1>2. Sound(y, pc) /\ OwedAt(y, pc)
  BY <1>1, AlikeSound DEF Stands
<1>3. Deep(y, d)
  BY <1>1, SameDeep DEF Alike, Stands
<1>4. Tidy(y) /\ ~faulted(y)
  BY DEF Stands, Tidy, Touched, Verbatim, faulted
<1> QED BY <1>2, <1>3, <1>4 DEF Stands, Touched

LEMMA TouchedWhole ==
    ASSUME NEW x, NEW y, Touched(x, y), Mild(y), NEW d, Whole(x, d)
    PROVE  Whole(y, d) /\ Lives(y) = Lives(x)
<1>1. Alike(x, y)
  BY VerbatimAlike DEF Touched
<1>2. Stands(y, y.pc, d)
  BY TouchedStands DEF Whole, Touched
<1>3. SupervisorWake(y) => SupervisorWake(x)
  BY DEF SupervisorWake, Touched, Verbatim
<1>4. SupervisorWake(y) => Sound(y, y.pc - 4) /\ OwedAt(y, y.pc - 4)
  BY <1>1, <1>3, AlikeSound DEF Whole, Touched
<1>5. Lives(y) = Lives(x)
  BY <1>1, SameLive DEF Lives, Alike
<1> QED BY <1>2, <1>4, <1>5 DEF Whole, Touched

LEMMA IrqTouches ==
    ASSUME NEW x \in Machine, NEW l, NEW y \in Machine, y = [x EXCEPT !.int_level = l]
    PROVE  Touched(x, y) /\ y.bad = x.bad
  BY DEF Machine, Touched, Verbatim

LEMMA RemapTouches ==
    ASSUME NEW x \in Machine, NEW S, NEW y \in Machine, y = [x EXCEPT !.bad = S]
    PROVE  Touched(x, y) /\ y.bad = S
  BY DEF Machine, Touched, Verbatim

----------------------------------------------------------------------------
(* The invariant: between two calls the machine stands on its stacks *)

\* The guests and hosts of the theorems.  The program is a loop whose operands follow
\* their instructions; the bus keeps the vectors and the supervisor stacks mapped; the
\* 68010 may miss data, the 68000, whose group-0 handlers do not return, nothing; and
\* where code may be missing the program does not stop
Tame ==
    /\ MaxDepth <= 600 /\ Proper(m.prog)
    /\ host.faultable \cap {"isp", "msp", "vec"} = {}
    /\ prefetch_enabled(m) => host.faultable \subseteq {"data"}
    /\ m.cpu_type = "M68000" => host.faultable = {}
    /\ host.faultable \subseteq {"data", "user"} \/ \A w \in UserCode : m.prog[w] \notin Stops

Rested ==
    /\ Whole(m, 968) /\ m.stk = Lives(m)
    /\ running => m.stopped = 0
    /\ surfaced # "none" => Stands(m, m.pc, 600) /\ Stands(m, m.ppc, 600) /\ m.stopped = 0

LEMMA TameMild ==
    ASSUME Tame, NEW x, x.bad \subseteq host.faultable, x.cpu_type = m.cpu_type, x.prog = m.prog
    PROVE  Mild(x)
  BY DEF Tame, Mild, prefetch_enabled

\* What a call into the CPU starts from
LEMMA RestedReady ==
    ASSUME FaultInv, Tame, Rested
    PROVE  /\ m \in Machine /\ Proper(m.prog) /\ QueueAt(m.queue, m.pc)
           /\ m.fault_resume = NoResume /\ ~m.nested /\ ~m.exception_processing
           /\ Bounded => Whole(m, 600)
<1>1. /\ Whole(m, 968) /\ Stands(m, m.pc, 968) /\ m \in Machine /\ Mild(m)
      /\ m.fault_resume = NoResume /\ ~m.nested /\ ~m.exception_processing /\ ~faulted(m)
  BY DEF Rested, Whole, Stands
<1>2. QueueAt(m.queue, m.pc)
  <2>1. CASE ~prefetch_enabled(m)
    <3>1. m.queue = <<>>
      BY <2>1 DEF FaultInv, Edge, Fine
    <3> QED BY <3>1 DEF QueueAt
  <2>2. CASE prefetch_enabled(m)
    <3>1. StacksMapped
      BY <2>2 DEF Tame, StacksMapped, Refusals
    <3> QED BY <1>1, <3>1 DEF FaultInv, Settled
  <2> QED BY <2>1, <2>2
<1>3. ASSUME Bounded PROVE Whole(m, 600)
  <2>1. SpOf(m, 4) \in Int /\ SpOf(m, 6) \in Int
    BY <1>1 DEF Stands, Sound, Shaped, Chained
  <2>2. SpOf(m, 4) = Sp(4) /\ SpOf(m, 6) = Sp(6)
    BY DEF Sp, SpOf
  <2>3. IspBase - SpOf(m, 4) <= MaxDepth /\ MspBase - SpOf(m, 6) <= MaxDepth
    BY <1>3, <2>2 DEF Bounded
  <2>4. Deep(m, 600)
    BY <2>1, <2>3, MaxDepthAssumption DEF Tame, Deep, IspBase, MspBase
  <2>5. Stands(m, m.pc, 600)
    BY <1>1, <2>4 DEF Stands
  <2> QED BY <1>1, <2>5 DEF Whole
<1> QED BY <1>1, <1>2, <1>3 DEF Tame

LEMMA PrunedRests ==
    ASSUME NEW z, Whole(z, 968), m' = Prune(z), surfaced' = "none", running' => z.stopped = 0
    PROVE  Rested'
<1>1. /\ Whole(m', 968) /\ Firm(z, m') /\ m'.stk = Lives(m')
  BY PruneWhole
<1>2. m'.stopped = z.stopped
  BY <1>1 DEF Firm, Steady
<1> QED BY <1>1, <1>2 DEF Rested

LEMMA PrunedTurnRests ==
    ASSUME NEW z, Whole(z, 968), m' = Prune(z), surfaced' = "none", running' => m'.stopped = 0
    PROVE  Rested'
  BY PruneWhole DEF Rested

\* A turn of a loop leaves the machine at rest
LEMMA TurnRests ==
    ASSUME FaultInv, Tame, Rested, Bounded, m.stopped = 0,
           NEW f, f = FetchOpcode(m).m, NEW op, op = OpAt(f, FetchOpcode(m).w)
    PROVE  Turned(m, f, op)
  BY RestedReady, TurnWhole

LEMMA StepRests ==
    ASSUME FaultInv, Tame, Rested, Step
    PROVE  Rested'
<1> DEFINE f == FetchOpcode(m)
           op == OpAt(f.m, f.w)
<1>1. Turned(m, f.m, op)
  BY TurnRests DEF Step
<1>2. ~running' /\ \/ faulted(f.m) /\ m' = Prune(end_faulted_instruction(f.m)) /\ surfaced' = "none"
                   \/ ~faulted(f.m) /\ op \in Traps /\ m' = f.m
                   \/ /\ ~faulted(f.m) /\ op \notin Traps /\ surfaced' = "none"
                      /\ m' = Prune(Complete(dispatch_instruction(f.m, op), FALSE))
  BY DEF Step
<1> HIDE DEF f, op
<1>3. CASE faulted(f.m) /\ m' = Prune(end_faulted_instruction(f.m)) /\ surfaced' = "none"
  BY <1>1, <1>2, <1>3, PrunedRests DEF Turned
<1>4. CASE ~faulted(f.m) /\ op \in Traps /\ m' = f.m
  <2>1. Whole(m', 600) /\ Stands(m', m'.ppc, 600) /\ m'.stopped = 0 /\ m'.stk = Lives(m')
    BY <1>1, <1>4 DEF Turned, Rested
  <2>2. Whole(m', 968)
    BY <2>1, WholeDeeper
  <2> QED BY <1>2, <2>1, <2>2 DEF Rested, Whole
<1>5. CASE /\ ~faulted(f.m) /\ op \notin Traps /\ surfaced' = "none"
           /\ m' = Prune(Complete(dispatch_instruction(f.m, op), FALSE))
  <2>1. Whole(Complete(dispatch_instruction(f.m, op), FALSE), 968)
    BY <1>1, <1>5 DEF Turned
  <2> QED BY <1>2, <1>5, <2>1, PrunedRests
<1> QED BY <1>2, <1>3, <1>4, <1>5

LEMMA StepStoppedRests ==
    ASSUME FaultInv, Tame, Rested, StepStopped
    PROVE  Rested'
<1> DEFINE z == stopped_supervisor_check(m)
<1>1. SupervisorWake(m) /\ m' = Prune(z) /\ surfaced' = "none" /\ ~running' /\ Bounded
  BY DEF StepStopped
<1>2. Whole(m, 600) /\ 600 \in 0..708
  BY <1>1, RestedReady
<1>3. Whole(z, 600 + 92)
  BY <1>1, <1>2, WakeWhole
<1> HIDE DEF z
<1>4. Whole(z, 968)
  BY <1>3, WholeDeeper
<1> QED BY <1>1, <1>4, PrunedRests

LEMMA TakeSurfacedRests ==
    ASSUME FaultInv, Tame, Rested, TakeSurfaced
    PROVE  Rested'
<1> DEFINE z == TakeTrap(m, surfaced)
<1>1. surfaced \in Traps /\ ~running /\ running' = running /\ m' = Prune(z) /\ surfaced' = "none"
  BY DEF TakeSurfaced, FaultInv, Inv, TypeOK
<1>2. Stands(m, m.pc, 600) /\ Stands(m, m.ppc, 600) /\ 600 \in 0..708
  BY DEF TakeSurfaced, Rested
<1>3. Whole(z, 600 + 92)
  BY <1>1, <1>2, RestedReady, TrapTaken
<1> HIDE DEF z
<1>4. Whole(z, 968)
  BY <1>3, WholeDeeper
<1> QED BY <1>1, <1>4, PrunedRests

LEMMA HleStepRests ==
    ASSUME FaultInv, Tame, Rested, HleStep
    PROVE  Rested'
<1> DEFINE f == FetchOpcode(m)
           op == OpAt(f.m, f.w)
<1>1. Turned(m, f.m, op)
  BY TurnRests DEF HleStep
<1>2. /\ ~running' /\ surfaced' = "none"
      /\ \/ faulted(f.m) /\ m' = Prune(end_faulted_instruction(f.m))
         \/ /\ ~faulted(f.m) /\ op \in Traps
            /\ \/ m' = Prune(Complete(f.m, FALSE))
               \/ m' = Prune(Complete(TakeTrap(f.m, op), FALSE))
         \/ /\ ~faulted(f.m) /\ op \notin Traps
            /\ m' = Prune(Complete(dispatch_instruction(f.m, op), FALSE))
  BY DEF HleStep
<1> HIDE DEF f, op
<1>3. CASE faulted(f.m) /\ m' = Prune(end_faulted_instruction(f.m))
  <2>1. Whole(end_faulted_instruction(f.m), 968)
    BY <1>1, <1>3 DEF Turned
  <2> QED BY <1>2, <1>3, <2>1, PrunedTurnRests
<1>4. CASE ~faulted(f.m) /\ op \in Traps /\ m' = Prune(Complete(f.m, FALSE))
  <2> DEFINE z == Complete(f.m, FALSE)
  <2>1. Whole(z, 968)
    BY <1>1, <1>4 DEF Turned
  <2> HIDE DEF z
  <2>2. m' = Prune(z)
    BY <1>4 DEF z
  <2> QED BY <1>2, <2>1, <2>2, PrunedTurnRests
<1>5. CASE ~faulted(f.m) /\ op \in Traps /\ m' = Prune(Complete(TakeTrap(f.m, op), FALSE))
  <2> DEFINE z == Complete(TakeTrap(f.m, op), FALSE)
  <2>1. Whole(z, 968)
    BY <1>1, <1>5 DEF Turned
  <2> HIDE DEF z
  <2>2. m' = Prune(z)
    BY <1>5 DEF z
  <2> QED BY <1>2, <2>1, <2>2, PrunedTurnRests
<1>6. CASE ~faulted(f.m) /\ op \notin Traps /\ m' = Prune(Complete(dispatch_instruction(f.m, op), FALSE))
  <2> DEFINE z == Complete(dispatch_instruction(f.m, op), FALSE)
  <2>1. Whole(z, 968)
    BY <1>1, <1>6 DEF Turned
  <2> HIDE DEF z
  <2>2. m' = Prune(z)
    BY <1>6 DEF z
  <2> QED BY <1>2, <2>1, <2>2, PrunedTurnRests
<1> QED BY <1>2, <1>3, <1>4, <1>5, <1>6

LEMMA ExecuteEntryRests ==
    ASSUME FaultInv, Tame, Rested, ExecuteEntry
    PROVE  Rested'
<1> DEFINE x == check_and_service_interrupts(m)
           z == IF SupervisorWake(x) THEN stopped_supervisor_check(x) ELSE x
<1>1. /\ surfaced' = "none" /\ Bounded /\ m' = Prune(z)
      /\ running' = (x.stopped = 0 \/ SupervisorWake(x))
  BY DEF ExecuteEntry
<1>2. Whole(m, 600) /\ 600 \in 0..708 /\ 600 \in 0..800
  BY <1>1, RestedReady
<1>3. Whole(x, 600 + 184) /\ (Serviceable(m) => x.stopped = 0) /\ (~Serviceable(m) => x = m)
  <2>1. ~Serviceable(m) => x = m
    BY DEF check_and_service_interrupts
  <2> HIDE DEF x
  <2>2. Whole(x, 600 + 184) /\ (Serviceable(m) => x.stopped = 0)
    BY <1>2, ServedWhole DEF x
  <2> QED BY <2>1, <2>2
<1> HIDE DEF x
<1>4. CASE SupervisorWake(x)
  <2>1. x = m
    BY <1>3, <1>4 DEF SupervisorWake
  <2>2. Whole(z, 600 + 92) /\ z.stopped = 0
    BY <1>2, <1>4, <2>1, WakeWhole
  <2> HIDE DEF z
  <2>3. Whole(z, 968)
    BY <2>2, WholeDeeper
  <2> QED BY <1>1, <2>2, <2>3, PrunedRests
<1>5. CASE ~SupervisorWake(x)
  <2>1. Whole(x, 968)
    BY <1>3, WholeDeeper
  <2> QED BY <1>1, <1>5, <2>1, PrunedRests
<1> QED BY <1>4, <1>5

LEMMA ExecuteIterationRests ==
    ASSUME FaultInv, Tame, Rested, ExecuteIteration
    PROVE  Rested'
<1> DEFINE f == FetchOpcode(m)
           op == OpAt(f.m, f.w)
<1>1. Turned(m, f.m, op)
  BY TurnRests DEF ExecuteIteration, Rested
<1>2. /\ surfaced' = "none" /\ (running' => m'.stopped = 0)
      /\ \/ faulted(f.m) /\ m' = Prune(end_faulted_instruction(f.m))
         \/ ~faulted(f.m) /\ op \in Traps /\ m' = Prune(Complete(TakeTrap(f.m, op), TRUE))
         \/ /\ ~faulted(f.m) /\ op \notin Traps
            /\ m' = Prune(Complete(dispatch_instruction(f.m, op), TRUE))
  BY DEF ExecuteIteration, FaultInv
<1> HIDE DEF f, op
<1>3. CASE faulted(f.m) /\ m' = Prune(end_faulted_instruction(f.m))
  <2>1. Whole(end_faulted_instruction(f.m), 968)
    BY <1>1, <1>3 DEF Turned
  <2> QED BY <1>2, <1>3, <2>1, PrunedTurnRests
<1>4. CASE ~faulted(f.m) /\ op \in Traps /\ m' = Prune(Complete(TakeTrap(f.m, op), TRUE))
  <2> DEFINE z == Complete(TakeTrap(f.m, op), TRUE)
  <2>1. Whole(z, 968)
    BY <1>1, <1>4 DEF Turned
  <2> HIDE DEF z
  <2>2. m' = Prune(z)
    BY <1>4 DEF z
  <2> QED BY <1>2, <2>1, <2>2, PrunedTurnRests
<1>5. CASE ~faulted(f.m) /\ op \notin Traps /\ m' = Prune(Complete(dispatch_instruction(f.m, op), TRUE))
  <2> DEFINE z == Complete(dispatch_instruction(f.m, op), TRUE)
  <2>1. Whole(z, 968)
    BY <1>1, <1>5 DEF Turned
  <2> HIDE DEF z
  <2>2. m' = Prune(z)
    BY <1>5 DEF z
  <2> QED BY <1>2, <2>1, <2>2, PrunedTurnRests
<1> QED BY <1>2, <1>3, <1>4, <1>5

LEMMA TouchedRests ==
    ASSUME Rested, Touched(m, m'), Mild(m'), surfaced' = surfaced, running' = running
    PROVE  Rested'
<1>1. Whole(m', 968) /\ Lives(m') = Lives(m)
  BY TouchedWhole DEF Rested
<1>2. m'.stk = m.stk /\ m'.stopped = m.stopped /\ m'.pc = m.pc /\ m'.ppc = m.ppc
  BY DEF Touched, Verbatim
<1>3. surfaced # "none" => Stands(m', m.pc, 600) /\ Stands(m', m.ppc, 600)
  BY TouchedStands DEF Rested
<1> QED BY <1>1, <1>2, <1>3 DEF Rested

LEMMA SetIrqRests ==
    ASSUME FaultInv, Tame, Rested, m' \in Machine, SetIrq
    PROVE  Rested'
<1>1. PICK l \in host.irqs : m' = [m EXCEPT !.int_level = l]
  BY DEF SetIrq
<1>2. Touched(m, m') /\ m'.bad = m.bad
  BY <1>1, RestedReady, IrqTouches
<1>3. Mild(m')
  BY <1>2, TameMild DEF Touched, Verbatim, FaultInv
<1> QED BY <1>2, <1>3, TouchedRests DEF SetIrq

LEMMA RemapRests ==
    ASSUME FaultInv, Tame, Rested, m' \in Machine, Remap
    PROVE  Rested'
<1>1. PICK r \in host.faultable :
         m' = [m EXCEPT !.bad = IF r \in @ THEN @ \ {r} ELSE @ \cup {r}]
  BY DEF Remap
<1> DEFINE S == IF r \in m.bad THEN m.bad \ {r} ELSE m.bad \cup {r}
<1>2. m' = [m EXCEPT !.bad = S] /\ S \subseteq host.faultable
  BY <1>1 DEF FaultInv
<1> HIDE DEF S
<1>3. Touched(m, m') /\ m'.bad = S
  BY <1>2, RestedReady, RemapTouches
<1>4. Mild(m')
  BY <1>2, <1>3, TameMild DEF Touched, Verbatim
<1> QED BY <1>3, <1>4, TouchedRests DEF Remap

LEMMA ResetRests ==
    ASSUME FaultInv, Tame, Rested, Reset
    PROVE  Rested'
<1>1. PICK sr \in host.srs : m' = Boot(reset(m), sr)
  BY DEF Reset
<1>2. sr \in SR /\ m \in Machine
  BY <1>1, HostTypes DEF FaultInv, Inv, TypeOK
<1> DEFINE x == reset(m)
<1>3. /\ x \in Machine /\ Same(m, x) /\ x.run_mode = Normal /\ x.stopped = 0
      /\ x.fault_resume = m.fault_resume
  BY <1>2, ResetLeaves
<1>4. x.pc = Origin
  BY <1>2 DEF reset, Machine
<1> HIDE DEF x
<1>5. Mild(x) /\ Proper(x.prog) /\ x.fault_resume = NoResume /\ ~x.exception_processing
  BY <1>3, RestedReady, TameMild DEF Same, FaultInv
<1>6. Whole(m', 968) /\ m'.stk = Lives(m') /\ m'.stopped = 0
  BY <1>1, <1>2, <1>3, <1>4, <1>5, BootWhole DEF x
<1>7. surfaced' = "none"
  BY DEF Reset
<1> QED BY <1>6, <1>7 DEF Rested

StackInv == FaultInv /\ (Tame => Rested)

LEMMA InitStackInv == Init => StackInv
<1> SUFFICES ASSUME Init, Tame PROVE Rested
  BY InitFaultInv DEF StackInv
<1>1. PICK type \in host.models, p \in host.programs, sr \in host.srs :
         m = Boot(PowerOn(type, p), sr)
  BY DEF Init
<1> DEFINE x == PowerOn(type, p)
<1>2. x \in Machine /\ ~x.exception_processing /\ sr \in SR
  <2>1. host \in Scenarios
    BY DEF Init
  <2> QED BY <1>1, <2>1, HostTypes, PowerOnType
<1>3. /\ x.run_mode = Normal /\ x.stopped = 0 /\ x.pc = Origin
      /\ x.fault_resume = NoResume /\ x.bad = {}
  BY DEF PowerOn
<1>4. m = Boot(x, sr)
  BY <1>1
<1> HIDE DEF x
<1>5. m.cpu_type = x.cpu_type /\ m.prog = x.prog
  BY <1>2, <1>4, BootFields DEF Same
<1>6. Mild(x) /\ Proper(x.prog)
  BY <1>3, <1>5, TameMild DEF Tame
<1>7. Whole(m, 968) /\ m.stk = Lives(m) /\ m.stopped = 0
  BY <1>2, <1>3, <1>4, <1>6, BootWhole
<1> QED BY <1>7 DEF Init, Rested

LEMMA NextStackInv == StackInv /\ [Next]_vars => StackInv'
<1> SUFFICES ASSUME StackInv, [Next]_vars PROVE StackInv'
  OBVIOUS
<1>1. FaultInv /\ FaultInv' /\ Fixed
  BY NextFixed DEF StackInv
<1>2. host' = host
  BY DEF Next, Step, StepStopped, TakeSurfaced, HleStep, ExecuteEntry, ExecuteIteration,
         SetIrq, Remap, Reset, vars
<1> SUFFICES ASSUME Tame' PROVE Rested'
  BY <1>1 DEF StackInv
<1>3. Tame
  BY <1>1, <1>2 DEF Tame, Fixed, prefetch_enabled
<1>4. Rested /\ m' \in Machine
  BY <1>1, <1>3 DEF StackInv, FaultInv, Inv, TypeOK
<1>5. CASE UNCHANGED vars
  BY <1>4, <1>5 DEF Rested, vars
<1>6. CASE Next
  BY <1>1, <1>3, <1>4, <1>6, StepRests, StepStoppedRests, TakeSurfacedRests, HleStepRests,
     ExecuteEntryRests, ExecuteIterationRests, SetIrqRests, RemapRests, ResetRests DEF Next
<1> QED BY <1>5, <1>6

----------------------------------------------------------------------------
(* The theorems *)

\* Of two interrupt frames on one stack the lower is the later, and of higher level
LEMMA FramesNest ==
    ASSUME NEW x, NEW pc, Shaped(x, pc), Tidy(x), NEW b \in {0, 4, 6},
           NEW c \in Live(x, b), NEW d \in Live(x, b), IntCell(c), IntCell(d), c.at < d.at
    PROVE  c.f.vec > d.f.vec
<1>1. /\ Chained(Live(x, b), SpOf(x, b), Banks[b]) /\ FrameOk(x, b, c) /\ FrameOk(x, b, d)
      /\ c \in x.stk /\ Rising(x)
  BY DEF Shaped, Live
<1>2. c \in Cell /\ d \in Cell /\ d.n > 0 /\ d.at + d.n <= Banks[b] /\ Banks[b] \in Int
  BY <1>1, BanksInt DEF Chained
<1>3. c.f.fmt # "ret"
  <2>1. SUFFICES ASSUME c.f.fmt = "ret" PROVE FALSE
    OBVIOUS
  <2>2. RetOk(x, b, c) /\ c.n = 4
    BY <1>1, <2>1 DEF FrameOk, ThrowOk, StdOk, Std, FrameBytes
  <2>3. c.at = Banks[b] - 4
    BY <2>2 DEF RetOk
  <2>4. c = d \/ c.at + c.n <= d.at \/ d.at + d.n <= c.at
    BY <1>1 DEF Chained
  <2> QED BY <1>2, <2>2, <2>3, <2>4 DEF Cell
<1>4. Std(c)
  BY <1>3 DEF Std, IntCell
<1>5. b # 0
  BY <1>1, <1>4 DEF FrameOk, RetOk, ThrowOk, StdOk, Std
<1>6. c.f.sr.i >= d.f.vec - 24
  BY <1>1, <1>4, <1>5 DEF Rising, SuperLive
<1>7. c.f.sr.i < c.f.vec - 24
  BY <1>1 DEF Tidy
<1>8. c.f.sr.i \in Int /\ c.f.vec \in Int /\ d.f.vec \in Int
  BY <1>2 DEF Cell, FrameSet, SR, Levels
<1> QED BY <1>6, <1>7, <1>8

LEMMA RestedTaken == ASSUME Rested PROVE InterruptsTaken
<1>1. /\ Shaped(m, m.pc) /\ OwedAt(m, m.pc) /\ Tidy(m) /\ m.stk = Lives(m)
  BY DEF Rested, Whole, Stands, Sound
<1>2. \A l \in m.owed : \/ m.pc = Handler(24 + l)
                        \/ \E c \in m.stk : c.f.pc = Handler(24 + l)
  BY <1>1 DEF OwedAt, SuperLive, Lives
<1>3. ASSUME NEW c \in m.stk, NEW d \in m.stk,
             c.f.vec \in 25..30, d.f.vec \in 25..30, c.f.fmt # "1", d.f.fmt # "1",
             StackRegion(c.at) = StackRegion(d.at), c.at < d.at
      PROVE  c.f.vec > d.f.vec
  <2>1. IntCell(c) /\ IntCell(d)
    BY <1>3 DEF IntCell
  <2>2. PICK b \in {0, 4, 6} : c \in Live(m, b)
    BY <1>1 DEF Lives
  <2>3. d \in Live(m, b)
    <3>1. PICK e \in {0, 4, 6} : d \in Live(m, e)
      BY <1>1 DEF Lives
    <3>2. BankRegion(b) = BankRegion(e)
      BY <1>3, <2>2, <3>1 DEF Live
    <3>3. b = e
      BY <3>2 DEF BankRegion
    <3> QED BY <3>1, <3>3
  <2> QED BY <1>1, <1>3, <2>1, <2>2, <2>3, FramesNest
<1> QED BY <1>2, <1>3 DEF InterruptsTaken

LEMMA RestedGuest ==
    ASSUME Rested, InGuest
    PROVE  /\ AtGuest(m, m.pc, SpOf(m, 4), SpOf(m, 6)) /\ m \in Machine
           /\ \A b \in {0, 4, 6} : SpOf(m, b) = Banks[b]
  BY GuestStacks DEF Rested, Whole, Stands, Sound, InGuest

LEMMA RestedBalanced == ASSUME Rested PROVE StacksBalanced
<1>1. ~m.astray
  BY DEF Rested, Whole, Stands, Sound, Shaped
<1>2. ASSUME InGuest PROVE Sp(0) = UserBase /\ Sp(4) = IspBase /\ Sp(6) = MspBase
  <2>1. \A b \in {0, 4, 6} : Sp(b) = Banks[b]
    BY <1>2, RestedGuest DEF Sp, SpOf
  <2> QED BY <2>1, BankFacts
<1> QED BY <1>1, <1>2 DEF StacksBalanced

LEMMA RestedInStep == ASSUME Rested, Closed(m.prog) PROVE GuestCountersInStep
<1> SUFFICES ASSUME InGuest PROVE (m.data - m.dar.r - Balance(m.pc)) % RegMod = 0
  BY DEF GuestCountersInStep
<1>1. Counted(m, m.pc, 0) /\ m \in Machine
  BY RestedGuest DEF AtGuest
<1>2. Balance(m.pc) = BalanceOf(m.prog, m.pc) /\ BalanceOf(m.prog, m.pc) \in Int
  BY BalanceInt DEF Balance, BalanceOf
<1>3. (m.data - m.dar.r - BalanceOf(m.prog, m.pc) - 0) % RegMod = 0
  BY <1>1 DEF Counted
<1>4. m.data \in Int /\ m.dar.r \in Int
  BY <1>1, MachineCounters DEF Counters
<1> QED BY <1>2, <1>3, <1>4

LEMMA RestedSettled == ASSUME Rested PROVE FaultsSettled /\ ~is_halted(m)
<1>1. m.fault_resume = NoResume /\ ~m.nested /\ ~faulted(m) /\ m \in Machine
  BY DEF Rested, Whole, Stands
<1> QED BY <1>1 DEF FaultsSettled, is_halted, faulted, Machine

\* An acknowledged interrupt is never lost, and outstanding interrupts nest by rising
\* level: with every model, guest and host that Tame admits, whatever faults, traces,
\* traps and resets come between service_interrupt and the handler's RTE
THEOREM InterruptsAreTaken == Spec => [](Tame => InterruptsTaken)
<1>1. StackInv => (Tame => InterruptsTaken)
  BY RestedTaken DEF StackInv
<1> QED BY <1>1, InitStackInv, NextStackInv, PTL DEF Spec

\* Every frame and return address pushed is popped, on the stack it was pushed on:
\* whenever the guest's own code runs the three stack pointers are at their bases, and
\* no return has found a frame that is not there (push_exception_frame, rte, rts)
THEOREM StacksAreBalanced == Spec => [](Tame => StacksBalanced)
<1>1. StackInv => (Tame => StacksBalanced)
  BY RestedBalanced DEF StackInv
<1> QED BY <1>1, InitStackInv, NextStackInv, PTL DEF Spec

\* Exceptions are precise: a loop that counts once in memory and once in a register per
\* turn sees the two counts agree at each of its instructions, however often one of
\* them faulted half done, was rolled back and ran again
THEOREM CountersStayInStep ==
    Spec => [](Tame /\ Closed(m.prog) => GuestCountersInStep)
<1>1. StackInv => (Tame /\ Closed(m.prog) => GuestCountersInStep)
  BY RestedInStep DEF StackInv
<1> QED BY <1>1, InitStackInv, NextStackInv, PTL DEF Spec

\* A machine whose handlers are mapped is never parked by a double fault: every fault,
\* one of the user stack included, is delivered whole
THEOREM TameFaultsSettled == Spec => [](Tame => FaultsSettled /\ ~is_halted(m))
<1>1. StackInv => (Tame => FaultsSettled /\ ~is_halted(m))
  BY RestedSettled DEF StackInv
<1> QED BY <1>1, InitStackInv, NextStackInv, PTL DEF Spec

=============================================================================
