--------------------------- MODULE TraceJit_proofs ---------------------------
(***************************************************************************)
(* run_batch with the trace cache executes the guest's instructions one    *)
(* after another from memory: the loop's invariant, and the proof that     *)
(* TraceJit implements BatchContract.  What a host must grant for that is  *)
(* Ordinary.                                                               *)
(*                                                                         *)
(* The first half takes the cache and its recorder operation by operation: *)
(* a recording is a path the guest took, a compiled trace is such a path   *)
(* from its head with its bytes inside the intervals its stores are        *)
(* checked against, and a head with a durable verdict has neither counter  *)
(* nor trace.  The second half is about the loop.                          *)
(***************************************************************************)
EXTENDS TraceJit, WellFoundedInduction, TLAPS

Tops == {"plain", "mem", "branch", "condskip", "dbcc", "jmp", "jsr", "call", "ret", "rtsret", "trap"}
OpRec == [pc : Addr, ins : Instr, top : Tops, exp : Addr \cup {NoPc}, skip : Nat]

\* The instructions a trace operation is decoded from
Sources(top) ==
    CASE top = "plain" -> {"op"} [] top = "mem" -> {"st", "cmpm"}
      [] top \in {"branch", "condskip"} -> {"bcc"} [] top = "dbcc" -> {"dbcc"}
      [] top = "jmp" -> {"jmp"} [] top = "jsr" -> {"jsr"} [] top = "call" -> {"bsr"}
      [] top \in {"ret", "rtsret"} -> {"rts"} [] top = "trap" -> {"al"}
Recorded(o) == o \in OpRec /\ o.ins.k \in Sources(o.top)

\* Operation o has a recorded successor, and where it is
Onwards(o) == o.top \in {"plain", "mem", "call"} \/ (o.top \in {"branch", "jmp", "rtsret"} /\ o.exp # NoPc)
Onward(o) ==
    CASE o.top \in {"plain", "mem", "condskip"} -> After(o.pc)
      [] o.top = "call" -> o.ins.t
      [] OTHER -> o.exp

\* The block that an if-converted branch skips follows it
Block(ops, n) ==
    /\ ops[n].skip > 0 /\ n + ops[n].skip <= Len(ops)
    /\ ops[n].ins.t = ops[n].pc + ops[n].skip + 1
    /\ \A d \in 1..ops[n].skip : ops[n + d].pc = ops[n].pc + d /\ ops[n + d].top \in {"plain", "mem"}

\* A path through the guest's program
Path(ops) ==
    /\ ops \in Seq(OpRec)
    /\ \A n \in 1..Len(ops) : Recorded(ops[n]) /\ (ops[n].top = "condskip" => Block(ops, n))
    /\ \A n \in 1..(Len(ops) - 1) : /\ Onwards(ops[n]) \/ ops[n].top = "condskip"
                                    /\ ops[n + 1].pc = Onward(ops[n])
From(ops, p) == Path(ops) /\ (ops # <<>> => ops[1].pc = p)

Trace(tr) ==
    /\ {"k", "pc", "ops", "spans", "loop"} \subseteq DOMAIN tr
    /\ tr.ops # <<>> /\ From(tr.ops, tr.pc)
    /\ \A n \in 1..Len(tr.ops) : tr.ops[n].pc \in tr.spans
    /\ tr.loop => ends_trace(Last(tr.ops))

Indexes == 0..(CacheSize - 1)
CacheFields == {"slots", "rec", "seed", "perm", "linear", "struct", "before", "strikes", "pskip", "rskip"}
RecFields == {"k", "start", "type", "ops", "again", "call", "ret", "until", "seeded"}
Live(s) == s.k \in {"counting", "compiled"}

\* The three parts of a sound cache
Slots(q) ==
    /\ DOMAIN q = CacheFields /\ DOMAIN q.slots = Indexes /\ DOMAIN q.struct = Indexes
    /\ \A n \in Indexes : /\ q.slots[n].k = "compiled" => Trace(q.slots[n])
                          /\ q.slots[n].k = "counting" => {"k", "pc"} \subseteq DOMAIN q.slots[n]
Record(q) ==
    q.rec # None =>
        /\ DOMAIN q.rec = RecFields /\ q.rec.start \in Addr /\ q.rec.ret \in Addr \cup {NoPc}
        /\ From(q.rec.ops, q.rec.start)
Verdicts(q) ==
    \A p \in Addr : is_structurally_rejected(q, p) =>
        ~(Live(Slot(q, p)) /\ Slot(q, p).pc = p) /\ (q.rec # None => q.rec.start # p)
Good(q) == Slots(q) /\ Record(q) /\ Verdicts(q)

\* The guest is where the recording went: behind its last operation, or still in
\* the block it has just if-converted
AtEnd(r, p) == IF r.ops = <<>> THEN p = r.start ELSE Onwards(Last(r.ops)) /\ p = Onward(Last(r.ops))
InBlock(r, p) ==
    /\ r.until \in Addr /\ p <= r.until /\ r.ops # <<>>
    /\ Onwards(Last(r.ops)) /\ Onward(Last(r.ops)) = r.until
Tracked(q, p) ==
    q.rec # None => IF q.rec.until = NoPc THEN AtEnd(q.rec, p) ELSE InBlock(q.rec, p)

----------------------------------------------------------------------------
(* Addresses, least elements and code intervals *)

LEMMA Addresses ==
    /\ MaxAddr \in Nat /\ Addr \subseteq Nat /\ NoPc \in Nat /\ NoPc \notin Addr
    /\ \A p \in Addr : After(p) \in Addr /\ Before(p) \in Addr
    /\ \A p, a \in Addr : p < a => After(p) = p + 1
  BY GuestAssumption DEF Addr, NoPc, After, Before

LEMMA OpTypes ==
    ASSUME NEW o \in OpRec
    PROVE  o.pc \in Addr /\ o.ins \in Instr /\ o.top \in Tops /\ o.exp \in Addr \cup {NoPc} /\ o.skip \in Nat
  BY DEF OpRec

LEMMA Operation ==
    ASSUME NEW ops \in Seq(OpRec), NEW n \in 1..Len(ops)
    PROVE  ops[n] \in OpRec
  OBVIOUS

Less == {ss \in Nat \X Nat : ss[1] < ss[2]}
LEMMA LessWellFounded == IsWellFoundedOn(Less, Nat)
  BY NatLessThanWellFounded, Zenon DEF OpToRel, Less

LEMMA Least ==
    ASSUME NEW T \in SUBSET Nat, T # {}
    PROVE  \E a \in T : \A b \in T : a <= b
<1>1. PICK a \in T : \A b \in T : ~(<<b, a>> \in Less)
  BY LessWellFounded, WFMin
<1>2. ASSUME NEW b \in T PROVE a <= b
  <2>1. a \in Nat /\ b \in Nat
    OBVIOUS
  <2>2. b < a => <<b, a>> \in Less
    BY <2>1 DEF Less
  <2> QED BY <2>1, <2>2, <1>1
<1> QED BY <1>2

LEMMA Greatest ==
    ASSUME NEW T \in SUBSET Addr, T # {}
    PROVE  \E a \in T : \A b \in T : a >= b
<1> DEFINE U == {MaxAddr - a : a \in T}
<1>1. U \in SUBSET Nat /\ U # {}
  <2>1. \A a \in T : MaxAddr - a \in Nat
    BY GuestAssumption DEF Addr
  <2>2. U # {}
    OBVIOUS
  <2>3. U \in SUBSET Nat
    BY <2>1
  <2> QED BY <2>2, <2>3
<1>2. PICK u \in U : \A v \in U : u <= v
  <2> HIDE DEF U
  <2> QED BY <1>1, Least
<1>3. PICK a \in T : u = MaxAddr - a
  OBVIOUS
<1>4. ASSUME NEW b \in T PROVE a >= b
  <2>1. MaxAddr - b \in U
    BY Zenon
  <2>2. a \in Nat /\ b \in Nat /\ MaxAddr \in Nat
    BY Addresses
  <2>3. MaxAddr - a <= MaxAddr - b
    <3> HIDE DEF U
    <3> QED BY <2>1, <1>2, <1>3
  <2> QED
    <3> HIDE DEF U
    <3> QED BY <2>2, <2>3
<1> QED BY <1>4

\* The interval of a set of addresses covers it.
LEMMA IntervalCovers ==
    ASSUME NEW T \in SUBSET Addr, NEW p \in T
    PROVE  p \in Interval(T)
<1>1. T \in SUBSET Nat
  BY Addresses
<1> DEFINE lo == CHOOSE a \in T : \A b \in T : a <= b
           hi == CHOOSE a \in T : \A b \in T : a >= b
<1>2. lo \in T /\ \A b \in T : lo <= b
  <2>1. \E a \in T : \A b \in T : a <= b
    BY <1>1, Least
  <2> QED BY <2>1, Zenon
<1>3. hi \in T /\ \A b \in T : hi >= b
  <2>1. \E a \in T : \A b \in T : a >= b
    BY Greatest
  <2> QED BY <2>1, Zenon
<1>4. Interval(T) = lo..hi
  BY DEF Interval
<1> HIDE DEF lo, hi
<1> QED BY <1>1, <1>2, <1>3, <1>4

\* store_hits_code compares with the intervals of the caller and of the callee,
\* and every recorded instruction is in one of them.
LEMMA SpansCover ==
    ASSUME NEW ops \in Seq(OpRec), NEW n \in 1..Len(ops)
    PROVE  ops[n].pc \in CallerSpan(ops) \cup CalleeSpan(ops)
<1> DEFINE caller == {ops[m].pc : m \in {l \in 1..Len(ops) : ~InCallee(ops, l)}}
           callee == {ops[m].pc : m \in {l \in 1..Len(ops) : InCallee(ops, l)}}
<1>1. caller \in SUBSET Addr /\ callee \in SUBSET Addr
  <2>1. \A m \in 1..Len(ops) : ops[m].pc \in Addr
    BY OpTypes, Operation
  <2> QED BY <2>1
<1>2. ops[n].pc \in caller \/ ops[n].pc \in callee
  OBVIOUS
<1>3. CallerSpan(ops) = Interval(caller) /\ CalleeSpan(ops) = Interval(callee)
  BY DEF CallerSpan, CalleeSpan
<1> HIDE DEF caller, callee
<1> QED BY <1>1, <1>2, <1>3, IntervalCovers

----------------------------------------------------------------------------
(* Paths *)

LEMMA EmptyPath == \A p : From(<<>>, p)
  BY DEF From, Path

LEMMA PathOps ==
    ASSUME NEW ops, Path(ops)
    PROVE  /\ ops \in Seq(OpRec) /\ Len(ops) \in Nat
           /\ \A n \in 1..Len(ops) : ops[n] \in OpRec /\ Recorded(ops[n])
           /\ ops # <<>> => Len(ops) \in 1..Len(ops) /\ Last(ops) = ops[Len(ops)] /\ Last(ops) \in OpRec
  BY DEF Path, Recorded, Last

\* An operation is appended where the path has got to.
LEMMA PathAppend ==
    ASSUME NEW ops, Path(ops), NEW o, Recorded(o), o.top # "condskip",
           ops # <<>> => Onwards(Last(ops)) /\ o.pc = Onward(Last(ops))
    PROVE  /\ Path(Append(ops, o)) /\ Append(ops, o) # <<>> /\ Last(Append(ops, o)) = o
           /\ Append(ops, o)[1].pc = IF ops = <<>> THEN o.pc ELSE ops[1].pc
<1> DEFINE s == Append(ops, o)
<1>1. ops \in Seq(OpRec) /\ Len(ops) \in Nat /\ o \in OpRec
  BY PathOps DEF Recorded
<1>2. /\ s \in Seq(OpRec) /\ Len(s) = Len(ops) + 1 /\ s[Len(ops) + 1] = o
      /\ \A n \in 1..Len(ops) : s[n] = ops[n]
  BY <1>1
<1>3. s # <<>> /\ Last(s) = o
  BY <1>1, <1>2 DEF Last
<1>4. s[1].pc = IF ops = <<>> THEN o.pc ELSE ops[1].pc
  BY <1>1, <1>2
<1> HIDE DEF s
<1>5. ASSUME NEW n \in 1..Len(s) PROVE Recorded(s[n]) /\ (s[n].top = "condskip" => Block(s, n))
  <2>1. CASE n = Len(ops) + 1
    BY <2>1, <1>2
  <2>2. CASE n \in 1..Len(ops)
    <3>1. s[n] = ops[n] /\ Recorded(ops[n])
      BY <2>2, <1>2, PathOps
    <3>2. ASSUME ops[n].top = "condskip" PROVE Block(s, n)
      <4>1. Block(ops, n) /\ ops[n].skip \in Nat
        BY <2>2, <3>2, <3>1 DEF Path, Recorded, OpRec
      <4>2. \A d \in 1..ops[n].skip : n + d \in 1..Len(ops)
        BY <2>2, <4>1, <1>1 DEF Block
      <4>3. \A d \in 1..ops[n].skip : s[n + d] = ops[n + d]
        BY <4>2, <1>2
      <4>4. n + ops[n].skip <= Len(s)
        BY <4>1, <1>1, <1>2, <2>2 DEF Block
      <4> QED BY <4>1, <4>3, <4>4, <3>1 DEF Block
    <3> QED BY <3>1, <3>2
  <2> QED BY <2>1, <2>2, <1>1, <1>2
<1>6. ASSUME NEW n \in 1..(Len(s) - 1)
      PROVE  (Onwards(s[n]) \/ s[n].top = "condskip") /\ s[n + 1].pc = Onward(s[n])
  <2>1. n \in 1..Len(ops) /\ s[n] = ops[n]
    BY <1>1, <1>2
  <2>2. CASE n = Len(ops)
    <3>1. ops # <<>> /\ Last(ops) = ops[n] /\ s[n + 1] = o
      BY <2>1, <2>2, <1>1, <1>2, PathOps
    <3> QED BY <2>1, <3>1
  <2>3. CASE n \in 1..(Len(ops) - 1)
    <3>1. s[n + 1] = ops[n + 1]
      BY <2>3, <1>1, <1>2
    <3> QED BY <2>1, <2>3, <3>1 DEF Path
  <2> QED BY <2>1, <2>2, <2>3, <1>1
<1> QED BY <1>2, <1>3, <1>4, <1>5, <1>6 DEF Path, s

\* A path cut behind a terminal is a path: no if-converted block reaches over one.
LEMMA PathPrefix ==
    ASSUME NEW ops, Path(ops), NEW n \in 1..Len(ops), ends_trace(ops[n])
    PROVE  /\ Path(SubSeq(ops, 1, n)) /\ SubSeq(ops, 1, n) # <<>> /\ SubSeq(ops, 1, n)[1] = ops[1]
           /\ Last(SubSeq(ops, 1, n)) = ops[n]
<1> DEFINE s == SubSeq(ops, 1, n)
<1>1. ops \in Seq(OpRec) /\ Len(ops) \in Nat
  BY PathOps
<1>2. s \in Seq(OpRec) /\ Len(s) = n /\ \A m \in 1..n : s[m] = ops[m]
  BY <1>1
<1>3. s # <<>> /\ s[1] = ops[1] /\ Last(s) = ops[n]
  BY <1>1, <1>2 DEF Last
<1> HIDE DEF s
<1>4. ASSUME NEW m \in 1..n PROVE Recorded(s[m]) /\ (s[m].top = "condskip" => Block(s, m))
  <2>1. s[m] = ops[m] /\ Recorded(ops[m]) /\ m \in 1..Len(ops)
    BY <1>1, <1>2, PathOps
  <2>2. ASSUME ops[m].top = "condskip" PROVE Block(s, m)
    <3>1. Block(ops, m) /\ ops[m].skip \in Nat
      BY <2>1, <2>2 DEF Path, Recorded, OpRec
    <3>2. m + ops[m].skip < n
      <4>1. ASSUME n - m \in 1..ops[m].skip PROVE FALSE
        <5>1. m + (n - m) = n
          OBVIOUS
        <5>2. ops[n].top \in {"plain", "mem"}
          BY <4>1, <3>1, <5>1 DEF Block
        <5> QED BY <5>2 DEF ends_trace
      <4>2. n # m
        BY <2>2 DEF ends_trace
      <4> QED BY <4>1, <4>2, <3>1, <1>1
    <3>3. \A d \in 1..ops[m].skip : m + d \in 1..n
      BY <3>1, <3>2, <1>1
    <3>4. \A d \in 1..ops[m].skip : s[m + d] = ops[m + d]
      BY <3>3, <1>2
    <3> QED BY <3>1, <3>2, <3>4, <2>1, <1>1, <1>2 DEF Block
  <2> QED BY <2>1, <2>2
<1>5. ASSUME NEW m \in 1..(n - 1)
      PROVE  (Onwards(s[m]) \/ s[m].top = "condskip") /\ s[m + 1].pc = Onward(s[m])
  <2>1. s[m] = ops[m] /\ s[m + 1] = ops[m + 1] /\ m \in 1..(Len(ops) - 1)
    BY <1>1, <1>2
  <2> QED BY <2>1 DEF Path
<1> QED BY <1>2, <1>3, <1>4, <1>5 DEF Path, s

\* Freeing the final branch from its guard keeps the path.
LEMMA PathUnguarded ==
    ASSUME NEW ops, Path(ops)
    PROVE  /\ Path(Unguarded(ops)) /\ Len(Unguarded(ops)) = Len(ops)
           /\ \A n \in 1..Len(ops) : /\ Unguarded(ops)[n].pc = ops[n].pc
                                     /\ Unguarded(ops)[n].top = ops[n].top
<1> DEFINE s == Unguarded(ops)
           z == [ops[Len(ops)] EXCEPT !.exp = NoPc]
<1>1. ops \in Seq(OpRec) /\ Len(ops) \in Nat
  BY PathOps
<1>2. CASE ~(ops # <<>> /\ Last(ops).top = "branch")
  BY <1>2 DEF Unguarded
<1>3. CASE ops # <<>> /\ Last(ops).top = "branch"
  <2>1. /\ Len(ops) \in 1..Len(ops) /\ Last(ops) = ops[Len(ops)] /\ ops[Len(ops)] \in OpRec
        /\ Recorded(ops[Len(ops)])
    BY <1>3, PathOps
  <2>2. z \in OpRec /\ z.pc = ops[Len(ops)].pc /\ z.top = ops[Len(ops)].top /\ z.ins = ops[Len(ops)].ins
    BY <2>1 DEF OpRec
  <2>3. s = [ops EXCEPT ![Len(ops)] = z]
    BY <1>3 DEF Unguarded
  <2> HIDE DEF z
  <2>4. /\ s \in Seq(OpRec) /\ Len(s) = Len(ops) /\ s[Len(ops)] = z
        /\ \A n \in 1..(Len(ops) - 1) : s[n] = ops[n]
    BY <2>1, <2>2, <2>3, <1>1
  <2> HIDE DEF s
  <2>5. \A n \in 1..Len(ops) : s[n].pc = ops[n].pc /\ s[n].top = ops[n].top /\ s[n].ins = ops[n].ins
    BY <2>2, <2>4, <1>1
  <2>6. ASSUME NEW n \in 1..Len(s) PROVE Recorded(s[n]) /\ (s[n].top = "condskip" => Block(s, n))
    <3>1. Recorded(s[n])
      <4>1. s[n] \in OpRec
        BY <2>4
      <4>2. Recorded(ops[n])
        BY <2>4, PathOps
      <4> QED BY <4>1, <4>2, <2>4, <2>5 DEF Recorded
    <3>2. ASSUME s[n].top = "condskip" PROVE Block(s, n)
      <4>1. ops[n].top = "condskip" /\ n \in 1..Len(ops)
        BY <3>2, <2>4, <2>5
      <4>2. Block(ops, n) /\ ops[n].skip \in Nat
        BY <4>1, PathOps DEF Path, OpRec
      <4>3. \A d \in 1..ops[n].skip : n + d \in 1..Len(ops)
        BY <4>1, <4>2, <1>1 DEF Block
      <4>4. s[n] = ops[n]
        <5>1. n # Len(ops)
          BY <4>1, <1>3, <2>1
        <5> QED BY <5>1, <4>1, <2>4, <1>1
      <4>5. \A d \in 1..ops[n].skip : s[n + d].pc = ops[n + d].pc /\ s[n + d].top = ops[n + d].top
        BY <4>3, <2>5
      <4> QED BY <4>2, <4>4, <4>5, <2>4 DEF Block
    <3> QED BY <3>1, <3>2
  <2>7. ASSUME NEW n \in 1..(Len(s) - 1)
        PROVE  (Onwards(s[n]) \/ s[n].top = "condskip") /\ s[n + 1].pc = Onward(s[n])
    <3>1. s[n] = ops[n] /\ s[n + 1].pc = ops[n + 1].pc /\ n \in 1..(Len(ops) - 1)
      BY <2>4, <2>5, <1>1
    <3> QED BY <3>1 DEF Path
  <2> QED BY <2>4, <2>5, <2>6, <2>7 DEF Path, s
<1> QED BY <1>2, <1>3

\* A branch and the block it skips continue the path, up to the branch's target.
Converts(s, ops, head, n) ==
    /\ n \in Nat \ {0} /\ s \in Seq(OpRec) /\ Len(s) = Len(ops) + 1 + n
    /\ \A a \in 1..Len(ops) : s[a] = ops[a]
    /\ Recorded(head) /\ head.top = "condskip" /\ head.skip = n
    /\ head.ins.t = head.pc + n + 1 /\ s[Len(ops) + 1] = head
    /\ \A a \in 1..n : /\ Recorded(s[Len(ops) + 1 + a]) /\ s[Len(ops) + 1 + a].pc = head.pc + a
                       /\ s[Len(ops) + 1 + a].top \in {"plain", "mem"}
    /\ ops # <<>> => Onwards(Last(ops)) /\ head.pc = Onward(Last(ops))
LEMMA PathBlock ==
    ASSUME NEW ops, Path(ops), NEW n, NEW s, NEW head, Converts(s, ops, head, n)
    PROVE  /\ Path(s) /\ s # <<>> /\ s[1].pc = IF ops = <<>> THEN head.pc ELSE ops[1].pc
           /\ Onwards(Last(s)) /\ Onward(Last(s)) = head.ins.t
<1> DEFINE L == Len(ops)
           p == head.pc
<1>1. /\ ops \in Seq(OpRec) /\ L \in Nat /\ n \in Nat /\ n > 0
      /\ MaxAddr \in Nat /\ p \in Addr /\ p \in Nat /\ head.ins.t \in Addr /\ head.ins.t = p + n + 1
  <2>1. head.ins \in Instr /\ p \in Addr
    BY OpTypes DEF Recorded, Converts
  <2>2. head.ins.t \in Addr
    BY <2>1 DEF Instr
  <2>3. ops \in Seq(OpRec) /\ L \in Nat
    BY PathOps
  <2>4. n \in Nat /\ n > 0 /\ head.ins.t = p + n + 1
    BY DEF Converts
  <2>5. p \in Nat /\ MaxAddr \in Nat
    BY <2>1, Addresses
  <2> QED BY <2>1, <2>2, <2>3, <2>4, <2>5
<1>2. \A a \in 1..n : p + a \in Addr
  BY <1>1 DEF Addr
<1>3. ASSUME NEW a \in 1..n
      PROVE  s[L + 1 + a].pc = p + a /\ s[L + 1 + a].top \in {"plain", "mem"} /\ Recorded(s[L + 1 + a])
  BY DEF Converts
<1>6. \A a \in 1..L : s[a] = ops[a]
  BY DEF Converts
<1>7. /\ s[L + 1] = head /\ Len(s) = L + 1 + n /\ s \in Seq(OpRec) /\ Recorded(head) /\ head.skip = n
      /\ head.top = "condskip"
      /\ ops # <<>> => Onwards(Last(ops)) /\ p = Onward(Last(ops))
  BY DEF Converts
<1> HIDE DEF p
<1> HIDE DEF L
<1>9. ASSUME NEW a \in 1..(L + 1 + n) PROVE Recorded(s[a]) /\ (s[a].top = "condskip" => Block(s, a))
  <2>1. CASE a \in 1..L
    <3>1. s[a] = ops[a] /\ Recorded(ops[a])
      BY <2>1, <1>6, PathOps DEF L
    <3>2. ASSUME ops[a].top = "condskip" PROVE Block(s, a)
      <4>1. Block(ops, a) /\ ops[a].skip \in Nat
        BY <2>1, <3>2, <3>1 DEF Path, Recorded, OpRec, L
      <4>2. \A d \in 1..ops[a].skip : a + d \in 1..L
        BY <2>1, <4>1, <1>1 DEF Block, L
      <4>3. \A d \in 1..ops[a].skip : s[a + d] = ops[a + d]
        BY <4>2, <1>6
      <4>4. a + ops[a].skip <= Len(s)
        BY <4>1, <1>1, <1>7, <2>1 DEF Block, L
      <4> QED BY <4>1, <4>3, <4>4, <3>1 DEF Block
    <3> QED BY <3>1, <3>2
  <2>2. CASE a = L + 1
    <3>1. s[a] = head /\ Recorded(head)
      BY <2>2, <1>7
    <3>2. \A d \in 1..n : s[a + d].pc = p + d /\ s[a + d].top \in {"plain", "mem"}
      BY <2>2, <1>3
    <3>3. s[a].skip = n /\ s[a].ins.t = s[a].pc + n + 1 /\ s[a].pc = p
      BY <3>1, <1>1, <1>7 DEF p
    <3>4. n > 0 /\ a + n <= Len(s)
      BY <2>2, <1>1, <1>7
    <3>5. Block(s, a)
      BY <3>2, <3>3, <3>4 DEF Block
    <3> QED BY <3>1, <3>5
  <2>3. CASE a \in (L + 2)..(L + 1 + n)
    <3>1. a - L - 1 \in 1..n /\ L + 1 + (a - L - 1) = a
      BY <2>3, <1>1
    <3>2. Recorded(s[a]) /\ s[a].top \in {"plain", "mem"}
      BY <3>1, <1>3
    <3> QED BY <3>2
  <2> QED BY <2>1, <2>2, <2>3, <1>1
<1>10. ASSUME NEW a \in 1..(L + n)
       PROVE  (Onwards(s[a]) \/ s[a].top = "condskip") /\ s[a + 1].pc = Onward(s[a])
  <2>1. CASE a \in 1..(L - 1)
    <3>1. s[a] = ops[a] /\ s[a + 1] = ops[a + 1]
      <4>1. a \in 1..L /\ a + 1 \in 1..L
        BY <2>1, <1>1
      <4> QED BY <4>1, <1>6
    <3> QED BY <2>1, <3>1 DEF Path, L
  <2>2. CASE a = L
    <3>1. ops # <<>> /\ s[a] = Last(ops) /\ s[a + 1].pc = p
      <4>1. ops # <<>>
        BY <2>2, <1>1 DEF L
      <4>2. s[a] = ops[L] /\ Last(ops) = ops[L]
        BY <4>1, <2>2, <1>6, PathOps DEF L
      <4>3. s[a + 1].pc = p
        BY <2>2, <1>7 DEF p
      <4> QED BY <4>1, <4>2, <4>3
    <3> QED BY <3>1, <1>7
  <2>3. CASE a = L + 1
    <3>1. s[a + 1].pc = p + 1
      <4>1. 1 \in 1..n
        BY <1>1
      <4>2. L + 1 + 1 = a + 1
        BY <2>3, <1>1
      <4> QED BY <4>1, <4>2, <1>3
    <3>2. After(p) = p + 1
      BY <1>1, Addresses
    <3> QED BY <2>3, <3>1, <3>2, <1>7 DEF Onward, p
  <2>4. CASE a \in (L + 2)..(L + n)
    <3>1. /\ a - L - 1 \in 1..n /\ L + 1 + (a - L - 1) = a
          /\ a - L \in 1..n /\ L + 1 + (a - L) = a + 1
      BY <2>4, <1>1
    <3>3. /\ s[a].pc = p + (a - L - 1) /\ s[a].top \in {"plain", "mem"} /\ s[a + 1].pc = p + (a - L)
          /\ s[a].pc \in Addr
      <4>1. s[L + 1 + (a - L - 1)].pc = p + (a - L - 1) /\ s[L + 1 + (a - L - 1)].top \in {"plain", "mem"}
        BY <3>1, <1>3
      <4>2. s[L + 1 + (a - L)].pc = p + (a - L)
        BY <3>1, <1>3
      <4> QED BY <3>1, <4>1, <4>2, <1>2
    <3>4. s[a].pc < head.ins.t
      BY <3>1, <3>3, <1>1
    <3>5. After(s[a].pc) = s[a].pc + 1
      BY <3>3, <3>4, <1>1, Addresses
    <3>6. s[a + 1].pc = After(s[a].pc)
      BY <3>3, <3>5, <2>4, <1>1
    <3> QED BY <3>3, <3>6 DEF Onward, Onwards
  <2>5. a \in 1..(L - 1) \/ a = L \/ a = L + 1 \/ a \in (L + 2)..(L + n)
    BY <1>1
  <2> QED BY <2>1, <2>2, <2>3, <2>4, <2>5
<1>11. Onwards(Last(s)) /\ Onward(Last(s)) = head.ins.t /\ s # <<>>
  <2>1. n \in 1..n /\ Last(s) = s[L + 1 + n]
    BY <1>1, <1>7 DEF Last
  <2>4. s # <<>>
    BY <1>1, <1>7
  <2>2. Last(s).pc = p + n /\ Last(s).top \in {"plain", "mem"} /\ p + n \in Addr
    BY <2>1, <1>2, <1>3
  <2>3. After(p + n) = head.ins.t
    BY <2>2, <1>1, Addresses
  <2> QED BY <2>2, <2>3, <2>4 DEF Onward, Onwards
<1>12. s[1].pc = IF ops = <<>> THEN p ELSE ops[1].pc
  <2>1. CASE ops = <<>>
    BY <2>1, <1>1, <1>7 DEF L, p
  <2>2. CASE ops # <<>>
    BY <2>2, <1>1, <1>6 DEF L
  <2> QED BY <2>1, <2>2
<1> QED BY <1>1, <1>7, <1>9, <1>10, <1>11, <1>12 DEF Path, p

\* try_if_convert_branch
LEMMA PathConverted ==
    ASSUME NEW ops, Path(ops), NEW p \in Addr, NEW i \in Instr, i.k = "bcc", i.t > p + 1,
           NEW m \in [Addr -> Instr], \A a \in SkipBlock(p, i) : is_if_convertible_block_op(m[a]),
           ops # <<>> => Onwards(Last(ops)) /\ p = Onward(Last(ops))
    PROVE  LET n == i.t - p - 1
               skip == [Op(p, i, "condskip", NoPc) EXCEPT !.skip = n]
               block == [a \in 1..n |-> Op(p + a, m[p + a], decode_trace_op(m[p + a]), NoPc)]
               s == ops \o <<skip>> \o block
           IN /\ Path(s) /\ s # <<>> /\ s[1].pc = IF ops = <<>> THEN p ELSE ops[1].pc
              /\ Onwards(Last(s)) /\ Onward(Last(s)) = i.t
<1> DEFINE n == i.t - p - 1
           head == [Op(p, i, "condskip", NoPc) EXCEPT !.skip = n]
           block == [a \in 1..n |-> Op(p + a, m[p + a], decode_trace_op(m[p + a]), NoPc)]
           s == ops \o <<head>> \o block
           L == Len(ops)
<1>1. /\ ops \in Seq(OpRec) /\ L \in Nat /\ p \in Nat /\ i.t \in Addr /\ i.t \in Nat /\ n \in Nat \ {0}
      /\ MaxAddr \in Nat /\ i.t = p + n + 1
  <2>1. ops \in Seq(OpRec) /\ L \in Nat
    BY PathOps
  <2>2. p \in Nat /\ MaxAddr \in Nat /\ i.t \in Addr
    BY Addresses DEF Instr
  <2>3. i.t \in Nat
    BY <2>2, Addresses
  <2>4. n \in Nat \ {0} /\ i.t = p + n + 1
    BY <2>2, <2>3
  <2> HIDE DEF n
  <2> QED BY <2>1, <2>2, <2>3, <2>4
<1> HIDE DEF n
<1>2. head \in OpRec /\ head.pc = p /\ head.ins = i /\ head.top = "condskip" /\ head.skip = n
  BY <1>1 DEF Op, OpRec, Tops, Instr
<1>3. ASSUME NEW a \in 1..n
      PROVE  /\ block[a] \in OpRec /\ block[a].pc = p + a /\ block[a].top \in {"plain", "mem"}
             /\ Recorded(block[a])
  <2>1. p + a \in Addr /\ p + a \in SkipBlock(p, i)
    BY <1>1 DEF Addr, SkipBlock
  <2>2. m[p + a] \in Instr /\ m[p + a].k \in {"op", "st", "cmpm"}
    BY <2>1 DEF is_if_convertible_block_op
  <2>3. block[a] = Op(p + a, m[p + a], decode_trace_op(m[p + a]), NoPc)
    OBVIOUS
  <2>4. /\ decode_trace_op(m[p + a]) \in {"plain", "mem"}
        /\ m[p + a].k \in Sources(decode_trace_op(m[p + a]))
    BY <2>2 DEF decode_trace_op, Sources
  <2> HIDE DEF block
  <2> QED BY <2>1, <2>2, <2>3, <2>4 DEF Op, OpRec, Tops, Recorded
<1>4. block \in Seq(OpRec) /\ Len(block) = n
  BY <1>1, <1>3
<1> HIDE DEF head, block
<1>5. s \in Seq(OpRec) /\ Len(s) = L + 1 + n
  <2>1. <<head>> \in Seq(OpRec) /\ Len(<<head>>) = 1
    BY <1>2
  <2>2. ops \o <<head>> \in Seq(OpRec) /\ Len(ops \o <<head>>) = L + 1
    BY <2>1, <1>1
  <2> QED BY <2>2, <1>1, <1>4
<1>6. \A a \in 1..L : s[a] = ops[a]
  BY <1>1, <1>2, <1>4
<1>7. s[L + 1] = head
  BY <1>1, <1>2, <1>4
<1>8. \A a \in 1..n : s[L + 1 + a] = block[a]
  BY <1>1, <1>2, <1>4
<1>9. Recorded(head) /\ head.ins.t = head.pc + n + 1
  BY <1>1, <1>2 DEF Recorded, Sources
<1>10. \A a \in 1..n : /\ Recorded(s[L + 1 + a]) /\ s[L + 1 + a].pc = head.pc + a
                       /\ s[L + 1 + a].top \in {"plain", "mem"}
  BY <1>2, <1>3, <1>8
<1> HIDE DEF s
<1>11. ops # <<>> => Onwards(Last(ops)) /\ head.pc = Onward(Last(ops))
  BY <1>2
<1>12. Converts(s, ops, head, n)
  BY <1>1, <1>2, <1>5, <1>6, <1>7, <1>9, <1>10, <1>11 DEF Converts, L
<1>13. /\ Path(s) /\ s # <<>> /\ s[1].pc = IF ops = <<>> THEN head.pc ELSE ops[1].pc
       /\ Onwards(Last(s)) /\ Onward(Last(s)) = head.ins.t
  BY <1>1, <1>2, <1>5, <1>6, <1>7, <1>12, PathBlock
<1> QED BY <1>2, <1>13 DEF s, head, block, n

----------------------------------------------------------------------------
(* Slots, side tables and filters *)

LEMMA Index == \A p \in Addr : trace_cache_index(p) \in Indexes
  BY JitAssumption, Addresses DEF trace_cache_index, Indexes

\* r differs from q in counters, hints and filters only
Same(q, r) ==
    DOMAIN r = CacheFields /\ r.slots = q.slots /\ r.rec = q.rec /\ r.struct = q.struct
LEMMA SameGood ==
    ASSUME NEW q, NEW r, Good(q), Same(q, r)
    PROVE  Good(r) /\ (\A p : Slot(r, p) = Slot(q, p) /\ Tracked(r, p) = Tracked(q, p))
                   /\ (\A p : is_structurally_rejected(r, p) = is_structurally_rejected(q, p))
<1>1. /\ \A p : Slot(r, p) = Slot(q, p)
      /\ \A p : is_structurally_rejected(r, p) = is_structurally_rejected(q, p)
  BY DEF Same, Slot, is_structurally_rejected
<1>2. \A p : Tracked(r, p) = Tracked(q, p)
  BY DEF Same, Tracked
<1>3. Slots(r)
  BY DEF Same, Good, Slots
<1>4. Record(r)
  BY DEF Same, Good, Record
<1>5. Verdicts(r)
  BY <1>1 DEF Same, Good, Verdicts
<1> QED BY <1>1, <1>2, <1>3, <1>4, <1>5 DEF Good
LEMMA SameTrans ==
    ASSUME NEW q, NEW r, NEW s, Same(q, r), Same(r, s)
    PROVE  Same(q, s)
  BY DEF Same

LEMMA Hints ==
    ASSUME NEW q, DOMAIN q = CacheFields
    PROVE  /\ \A p : Same(q, grant_call_permission(q, p)) /\ Same(q, defer_linear_compilation(q, p))
           /\ \A p : Same(q, clear_linear_deferral(q, p)) /\ Same(q, remember_compiled(q, p))
           /\ \A p : Same(q, push_probe_skip(q, p)) /\ Same(q, note_no_terminal_strike(q, p))
           /\ \A p : Same(q, clear_no_terminal_strikes(q, p))
           /\ \A v : Same(q, [q EXCEPT !.rskip = v]) /\ Same(q, [q EXCEPT !.seed = v])
           /\ Same(q, rearm_filters(q))
<1>1. /\ \A v : Same(q, [q EXCEPT !.perm = v]) /\ Same(q, [q EXCEPT !.linear = v])
      /\ \A v : Same(q, [q EXCEPT !.before = v]) /\ Same(q, [q EXCEPT !.pskip = v])
      /\ \A v : Same(q, [q EXCEPT !.strikes = v])
      /\ \A v : Same(q, [q EXCEPT !.rskip = v]) /\ Same(q, [q EXCEPT !.seed = v])
  BY DEF Same, CacheFields
<1>2. \A p : Same(q, grant_call_permission(q, p)) /\ Same(q, defer_linear_compilation(q, p))
  BY <1>1 DEF grant_call_permission, defer_linear_compilation
<1>3. \A p : Same(q, clear_linear_deferral(q, p)) /\ Same(q, remember_compiled(q, p))
  BY <1>1 DEF clear_linear_deferral, remember_compiled
<1>4. \A p : Same(q, push_probe_skip(q, p)) /\ Same(q, note_no_terminal_strike(q, p))
  BY <1>1 DEF push_probe_skip, note_no_terminal_strike
<1>5. \A p : Same(q, clear_no_terminal_strikes(q, p))
  BY <1>1 DEF clear_no_terminal_strikes
<1>6. Same(q, rearm_filters(q))
  BY DEF rearm_filters, Same, CacheFields
<1> QED BY <1>1, <1>2, <1>3, <1>4, <1>5, <1>6

\* Slot s may be put where p belongs
Admitted(q, p, s) ==
    /\ s.k = "compiled" => Trace(s)
    /\ s.k = "counting" => {"k", "pc"} \subseteq DOMAIN s
    /\ Live(s) => s.pc = p /\ ~is_structurally_rejected(q, p)

LEMMA SlotSet ==
    ASSUME NEW q, Slots(q), NEW p \in Addr, NEW s
    PROVE  /\ DOMAIN SetSlot(q, p, s) = CacheFields /\ DOMAIN SetSlot(q, p, s).slots = Indexes
           /\ SetSlot(q, p, s).rec = q.rec /\ SetSlot(q, p, s).struct = q.struct
           /\ SetSlot(q, p, s).slots = [q.slots EXCEPT ![trace_cache_index(p)] = s]
           /\ Slot(SetSlot(q, p, s), p) = s
           /\ \A t \in Addr : Slot(SetSlot(q, p, s), t) = s \/ Slot(SetSlot(q, p, s), t) = Slot(q, t)
           /\ \A t : is_structurally_rejected(SetSlot(q, p, s), t) = is_structurally_rejected(q, t)
<1> DEFINE r == SetSlot(q, p, s)
<1>1. DOMAIN q = CacheFields /\ DOMAIN q.slots = Indexes /\ trace_cache_index(p) \in Indexes
  BY Index DEF Slots
<1>2. /\ DOMAIN r = CacheFields /\ r.rec = q.rec /\ r.struct = q.struct
      /\ r.slots = [q.slots EXCEPT ![trace_cache_index(p)] = s]
  BY <1>1 DEF SetSlot, CacheFields
<1> HIDE DEF r
<1>3. DOMAIN r.slots = Indexes /\ r.slots[trace_cache_index(p)] = s
  BY <1>1, <1>2
<1>4. \A t \in Addr : Slot(r, t) = s \/ Slot(r, t) = Slot(q, t)
  BY <1>1, <1>2, Index DEF Slot
<1>5. \A t : is_structurally_rejected(r, t) = is_structurally_rejected(q, t)
  BY <1>2 DEF is_structurally_rejected
<1> QED BY <1>2, <1>3, <1>4, <1>5 DEF Slot, r

LEMMA SlotSetVerdicts ==
    ASSUME NEW q, Slots(q), NEW p \in Addr, NEW s
    PROVE  SetSlot(q, p, s).struct = q.struct
<1> DEFINE r == SetSlot(q, p, s)
<1>1. /\ DOMAIN r = CacheFields /\ DOMAIN r.slots = Indexes
      /\ r.rec = q.rec /\ r.struct = q.struct
      /\ r.slots = [q.slots EXCEPT ![trace_cache_index(p)] = s]
      /\ Slot(r, p) = s
      /\ \A t \in Addr : Slot(r, t) = s \/ Slot(r, t) = Slot(q, t)
      /\ \A t : is_structurally_rejected(r, t) = is_structurally_rejected(q, t)
  BY SlotSet
<1> HIDE DEF r
<1>2. r.struct = q.struct
  BY <1>1
<1> QED BY <1>2 DEF r

LEMMA SetSlotGood ==
    ASSUME NEW q, Good(q), NEW p \in Addr, NEW s, Admitted(q, p, s)
    PROVE  Good(SetSlot(q, p, s)) /\ SetSlot(q, p, s).rec = q.rec
           /\ \A t : Tracked(SetSlot(q, p, s), t) = Tracked(q, t)
<1> DEFINE r == SetSlot(q, p, s)
<1>1. /\ DOMAIN r = CacheFields /\ DOMAIN r.slots = Indexes
      /\ r.rec = q.rec /\ r.struct = q.struct
      /\ r.slots = [q.slots EXCEPT ![trace_cache_index(p)] = s]
      /\ Slot(r, p) = s
      /\ \A t \in Addr : Slot(r, t) = s \/ Slot(r, t) = Slot(q, t)
      /\ \A t : is_structurally_rejected(r, t) = is_structurally_rejected(q, t)
  BY SlotSet DEF Good
<1> HIDE DEF r
<1>2. Slots(r)
  <2>1. DOMAIN q.slots = Indexes
    BY DEF Good, Slots
  <2>2. \A n \in Indexes : r.slots[n] = s \/ r.slots[n] = q.slots[n]
    BY <1>1, <2>1
  <2>3. DOMAIN r.struct = Indexes
    BY <1>1 DEF Good, Slots
  <2> QED BY <1>1, <2>2, <2>3 DEF Slots, Good, Admitted
<1>3. Record(r)
  BY <1>1 DEF Good, Record
<1>4. Verdicts(r)
  <2> SUFFICES ASSUME NEW t \in Addr, is_structurally_rejected(r, t)
               PROVE  ~(Live(Slot(r, t)) /\ Slot(r, t).pc = t) /\ (r.rec # None => r.rec.start # t)
    BY DEF Verdicts
  <2>1. ~(Live(Slot(q, t)) /\ Slot(q, t).pc = t) /\ (q.rec # None => q.rec.start # t)
    BY <1>1 DEF Good, Verdicts
  <2>2. CASE Slot(r, t) = s
    BY <2>1, <2>2, <1>1 DEF Admitted
  <2>3. CASE Slot(r, t) = Slot(q, t)
    BY <2>1, <2>3, <1>1
  <2> QED BY <2>2, <2>3, <1>1
<1>5. \A t : Tracked(r, t) = Tracked(q, t)
  BY <1>1 DEF Tracked
<1> QED BY <1>1, <1>2, <1>3, <1>4, <1>5 DEF Good, r

LEMMA SlotKinds ==
    /\ \A q, p, y, h, a, c, t, l :
          ~is_structurally_rejected(q, p) => Admitted(q, p, Counting(p, y, h, a, c, t, l))
    /\ \A q, p, y : Admitted(q, p, Rejected(p, y)) /\ Admitted(q, p, Empty)
  BY DEF Admitted, Live, Counting, Rejected, Empty

\* The recording is closed, or a new one is opened.
LEMMA Closed ==
    ASSUME NEW q, Good(q)
    PROVE  /\ Good([q EXCEPT !.rec = None]) /\ [q EXCEPT !.rec = None].rec = None
           /\ \A p : is_structurally_rejected([q EXCEPT !.rec = None], p) = is_structurally_rejected(q, p)
           /\ \A p : Slot([q EXCEPT !.rec = None], p) = Slot(q, p)
<1> DEFINE r == [q EXCEPT !.rec = None]
<1>1. DOMAIN r = CacheFields /\ r.rec = None /\ r.struct = q.struct /\ r.slots = q.slots
  BY DEF Good, Slots, CacheFields
<1> HIDE DEF r
<1>2. \A p : is_structurally_rejected(r, p) = is_structurally_rejected(q, p) /\ Slot(r, p) = Slot(q, p)
  BY <1>1 DEF is_structurally_rejected, Slot
<1>3. Slots(r) /\ Record(r)
  BY <1>1 DEF Good, Slots, Record
<1>4. Verdicts(r)
  BY <1>1, <1>2 DEF Good, Verdicts
<1> QED BY <1>1, <1>2, <1>3, <1>4 DEF Good, r

LEMMA Opened ==
    ASSUME NEW q, Good(q), NEW p \in Addr, ~is_structurally_rejected(q, p), NEW y, NEW a, NEW c, NEW s
    PROVE  /\ Good([q EXCEPT !.rec = Recording(p, y, a, c, s)])
           /\ Tracked([q EXCEPT !.rec = Recording(p, y, a, c, s)], p)
<1> DEFINE R == Recording(p, y, a, c, s)
           r == [q EXCEPT !.rec = R]
<1>1. /\ DOMAIN R = RecFields /\ R.start = p /\ R.ops = <<>> /\ R.ret = NoPc /\ R.until = NoPc
  BY DEF Recording, RecFields
<1> HIDE DEF R
<1>2. DOMAIN r = CacheFields /\ r.rec = R /\ r.struct = q.struct /\ r.slots = q.slots
  BY DEF Good, Slots, CacheFields
<1> HIDE DEF r
<1>3. \A t : is_structurally_rejected(r, t) = is_structurally_rejected(q, t) /\ Slot(r, t) = Slot(q, t)
  BY <1>2 DEF is_structurally_rejected, Slot
<1>4. Slots(r)
  BY <1>2 DEF Good, Slots
<1>5. Record(r)
  BY <1>1, <1>2, EmptyPath DEF Record
<1>6. Verdicts(r)
  BY <1>1, <1>2, <1>3 DEF Good, Verdicts
<1>7. Tracked(r, p)
  BY <1>1, <1>2 DEF Tracked, AtEnd
<1> QED BY <1>4, <1>5, <1>6, <1>7 DEF Good, r, R

----------------------------------------------------------------------------
(* Verdicts *)

\* A full index of a side table forgets its older address, and gains none but p.
LEMMA Remembered ==
    ASSUME NEW tab, DOMAIN tab = Indexes, NEW p \in Addr, NEW t \in Addr
    PROVE  DOMAIN Remember(tab, p) = Indexes /\ (Has(Remember(tab, p), t) => Has(tab, t) \/ t = p)
<1> DEFINE w == tab[trace_cache_index(p)]
           v == CASE w[1] = p \/ w[2] = p -> w
                  [] w[1] = NoPc -> <<p, w[2]>>
                  [] w[2] = NoPc -> <<w[1], p>>
                  [] OTHER -> <<p, w[1]>>
<1>1. Remember(tab, p) = [tab EXCEPT ![trace_cache_index(p)] = v]
  BY DEF Remember
<1>2. v[1] \in {w[1], w[2], p} /\ v[2] \in {w[1], w[2], p}
  OBVIOUS
<1> HIDE DEF v
<1>3. DOMAIN Remember(tab, p) = Indexes
  BY <1>1
<1>4. CASE trace_cache_index(t) = trace_cache_index(p)
  <2>1. Remember(tab, p)[trace_cache_index(t)] = v
    BY <1>1, <1>4, Index
  <2> QED BY <1>2, <1>3, <1>4, <2>1 DEF Has
<1>5. CASE trace_cache_index(t) # trace_cache_index(p)
  <2>1. Remember(tab, p)[trace_cache_index(t)] = tab[trace_cache_index(t)]
    BY <1>1, <1>5, Index
  <2> QED BY <1>3, <2>1 DEF Has
<1> QED BY <1>4, <1>5

LEMMA Forgotten ==
    ASSUME NEW tab, DOMAIN tab = Indexes, NEW p \in Addr, NEW t \in Addr
    PROVE  DOMAIN Forget(tab, p) = Indexes /\ (Has(Forget(tab, p), t) => Has(tab, t))
<1> DEFINE w == tab[trace_cache_index(p)]
           v == [n \in 1..2 |-> IF w[n] = p THEN NoPc ELSE w[n]]
<1>1. Forget(tab, p) = [tab EXCEPT ![trace_cache_index(p)] = v]
  BY DEF Forget
<1>2. v[1] \in {w[1], NoPc} /\ v[2] \in {w[2], NoPc}
  OBVIOUS
<1> HIDE DEF v
<1>3. DOMAIN Forget(tab, p) = Indexes
  BY <1>1
<1>4. CASE trace_cache_index(t) = trace_cache_index(p)
  <2>1. Forget(tab, p)[trace_cache_index(t)] = v
    BY <1>1, <1>4, Index
  <2> QED BY <1>2, <1>3, <1>4, <2>1, Addresses DEF Has
<1>5. CASE trace_cache_index(t) # trace_cache_index(p)
  <2>1. Forget(tab, p)[trace_cache_index(t)] = tab[trace_cache_index(t)]
    BY <1>1, <1>5, Index
  <2> QED BY <1>3, <2>1 DEF Has
<1> QED BY <1>4, <1>5

\* A durable verdict is remembered together with the rejection of the slot.
LEMMA Judged ==
    ASSUME NEW q, Good(q), q.rec = None, NEW p \in Addr, NEW y
    PROVE  /\ Good(SetSlot(remember_structural_rejection(q, p), p, Rejected(p, y)))
           /\ SetSlot(remember_structural_rejection(q, p), p, Rejected(p, y)).rec = None
<1> DEFINE k == remember_structural_rejection(q, p)
           r == SetSlot(k, p, Rejected(p, y))
<1>1. /\ DOMAIN k = CacheFields /\ k.rec = None /\ k.slots = q.slots
      /\ k.struct = Remember(q.struct, p)
  BY DEF Good, Slots, CacheFields, remember_structural_rejection
<1> HIDE DEF k
<1>2. Slots(k)
  BY <1>1, Remembered DEF Good, Slots
<1>3. /\ DOMAIN r = CacheFields /\ DOMAIN r.slots = Indexes /\ r.rec = None /\ r.struct = k.struct
      /\ r.slots = [k.slots EXCEPT ![trace_cache_index(p)] = Rejected(p, y)]
      /\ Slot(r, p) = Rejected(p, y)
      /\ \A t \in Addr : Slot(r, t) = Rejected(p, y) \/ Slot(r, t) = Slot(k, t)
  BY <1>1, <1>2, SlotSet
<1> HIDE DEF r
<1>4. Rejected(p, y).k = "rejected"
  BY DEF Rejected
<1>5. Slots(r)
  <2>1. DOMAIN k.slots = Indexes
    BY <1>2 DEF Slots
  <2>2. \A n \in Indexes : r.slots[n] = Rejected(p, y) \/ r.slots[n] = k.slots[n]
    BY <1>3, <2>1
  <2> QED BY <1>2, <1>3, <1>4, <2>2 DEF Slots
<1>6. Record(r)
  BY <1>3 DEF Record
<1>7. ASSUME NEW t \in Addr, is_structurally_rejected(r, t) PROVE ~(Live(Slot(r, t)) /\ Slot(r, t).pc = t)
  <2>1. Has(Remember(q.struct, p), t)
    BY <1>7, <1>1, <1>3 DEF is_structurally_rejected
  <2>2. Has(q.struct, t) \/ t = p
    BY <2>1, Remembered DEF Good, Slots
  <2>3. ~Live(Rejected(p, y))
    BY <1>4 DEF Live
  <2>4. CASE t = p
    BY <2>3, <2>4, <1>3
  <2>5. CASE Has(q.struct, t)
    <3>1. ~(Live(Slot(q, t)) /\ Slot(q, t).pc = t)
      BY <2>5 DEF Good, Verdicts, is_structurally_rejected
    <3>2. Slot(k, t) = Slot(q, t)
      BY <1>1 DEF Slot
    <3> QED BY <2>3, <3>1, <3>2, <1>3
  <2> QED BY <2>2, <2>4, <2>5
<1>8. Verdicts(r)
  BY <1>3, <1>7 DEF Verdicts
<1> QED BY <1>3, <1>5, <1>6, <1>8 DEF Good, r, k

LEMMA Pardoned ==
    ASSUME NEW q, Good(q), NEW p \in Addr
    PROVE  /\ Good(forget_structural_rejection(q, p))
           /\ forget_structural_rejection(q, p).rec = q.rec
           /\ \A t : Slot(forget_structural_rejection(q, p), t) = Slot(q, t)
<1> DEFINE k == [q EXCEPT !.struct = Forget(@, p)]
<1>1. /\ DOMAIN k = CacheFields /\ k.rec = q.rec /\ k.slots = q.slots
      /\ k.struct = Forget(q.struct, p)
  BY DEF Good, Slots, CacheFields
<1> HIDE DEF k
<1>2. Slots(k)
  BY <1>1, Forgotten DEF Good, Slots
<1>3. Record(k)
  BY <1>1 DEF Good, Record
<1>4. ASSUME NEW t \in Addr, is_structurally_rejected(k, t) PROVE is_structurally_rejected(q, t)
  BY <1>1, <1>4, Forgotten DEF Good, Slots, is_structurally_rejected
<1>5. \A t : Slot(k, t) = Slot(q, t)
  BY <1>1 DEF Slot
<1>6. Verdicts(k)
  BY <1>1, <1>4, <1>5 DEF Good, Verdicts
<1>7. Good(k) /\ Same(k, clear_no_terminal_strikes(k, p))
  BY <1>1, <1>2, <1>3, <1>6, Hints DEF Good
<1>8. forget_structural_rejection(q, p) = clear_no_terminal_strikes(k, p)
  BY DEF forget_structural_rejection, k
<1>9. /\ Good(clear_no_terminal_strikes(k, p))
      /\ \A t : Slot(clear_no_terminal_strikes(k, p), t) = Slot(k, t)
  BY <1>7, SameGood
<1> QED BY <1>1, <1>5, <1>7, <1>8, <1>9 DEF Same

----------------------------------------------------------------------------
(* Closing a recording *)

\* What may be compiled or refused at head p: no recording is open
Region(q, p, ops) ==
    Good(q) /\ q.rec = None /\ p \in Addr /\ ~is_structurally_rejected(q, p) /\ From(ops, p)
Settled(q) == Good(q) /\ q.rec = None

LEMMA RejectWithGood ==
    ASSUME NEW q, NEW p, NEW ops, Region(q, p, ops), NEW y, NEW reason
    PROVE  Settled(RejectWith(q, p, y, reason))
<1> DEFINE struck == IF reason = "NoTraceTerminal" /\ ~has_compiled_before(q, p)
                     THEN note_no_terminal_strike(q, p) ELSE q
           durable == \/ reason \in {"TooShort", "IndirectJsrTooShort"}
                      \/ /\ reason = "NoTraceTerminal" /\ ~has_compiled_before(q, p)
                         /\ Strikes(struck, p) >= NO_TERMINAL_STRIKE_LIMIT
           judged == IF durable THEN remember_structural_rejection(struck, p) ELSE struck
           r == SetSlot(judged, p, Rejected(p, y))
<1>1. p \in Addr /\ Good(q) /\ q.rec = None /\ DOMAIN q = CacheFields
  BY DEF Region, Good, Slots
<1>2. Good(struck) /\ struck.rec = None
  <2>1. Same(q, note_no_terminal_strike(q, p))
    BY <1>1, Hints
  <2>2. Good(note_no_terminal_strike(q, p)) /\ note_no_terminal_strike(q, p).rec = None
    BY <2>1, <1>1, SameGood DEF Same
  <2> QED BY <1>1, <2>2
<1>3. RejectWith(q, p, y, reason) = push_probe_skip(r, p)
  BY DEF RejectWith
<1> HIDE DEF struck, durable
<1>4. Good(r) /\ r.rec = None
  <2>1. CASE durable
    BY <2>1, <1>1, <1>2, Judged
  <2>2. CASE ~durable
    <3>1. judged = struck
      BY <2>2
    <3> HIDE DEF judged
    <3>2. Admitted(struck, p, Rejected(p, y))
      BY SlotKinds
    <3>3. Good(SetSlot(struck, p, Rejected(p, y))) /\ SetSlot(struck, p, Rejected(p, y)).rec = struck.rec
      BY <1>1, <1>2, <3>2, SetSlotGood
    <3> QED BY <3>1, <3>3, <1>2
  <2> QED BY <2>1, <2>2
<1> HIDE DEF r
<1>5. Same(r, push_probe_skip(r, p))
  BY <1>4, Hints DEF Good, Slots
<1>6. Good(push_probe_skip(r, p))
  BY <1>4, <1>5, SameGood
<1> QED BY <1>3, <1>4, <1>5, <1>6 DEF Settled, Same

\* A region that passes every gate is a sound trace.
LEMMA CompiledGood ==
    ASSUME NEW q, NEW p, NEW ops, Region(q, p, ops), NEW y, NEW e, NEW again,
           RejectReason(q, p, y, ops, e) = "none"
    PROVE  Trace(CompiledTrace(p, y, ops, e, again))
<1> DEFINE tr == CompiledTrace(p, y, ops, e, again)
           loop == SelfLoop(ops, p, e)
<1>1. ops \in Seq(OpRec) /\ From(ops, p) /\ Len(ops) \in Nat /\ p \in Addr
  BY PathOps DEF Region, From
<1>2. /\ ~(/\ ops = <<>> \/ ~ends_trace(Last(ops))
           /\ ~(e # p /\ compiled_head_at(q, e, y)))
      /\ ~(Len(ops) < (IF loop THEN TRACE_MIN_SELF_LOOP_OPS ELSE TRACE_MIN_OPS))
  BY DEF RejectReason
<1>3. ops # <<>>
  BY <1>1, <1>2, JitAssumption
<1>4. loop => ends_trace(Last(ops))
  <2> SUFFICES ASSUME loop, ~ends_trace(Last(ops)) PROVE FALSE
    OBVIOUS
  <2>1. e # p
    BY <1>2
  <2>2. taken_target(Last(ops)) = p
    BY <2>1 DEF SelfLoop
  <2>3. taken_target(Last(ops)) = NoPc
    BY DEF taken_target, ends_trace
  <2> QED BY <2>2, <2>3, <1>1, Addresses
<1>5. \A n \in 1..Len(ops) : ops[n].pc \in CallerSpan(ops) \cup CalleeSpan(ops)
  BY <1>1, SpansCover
<1>6. /\ tr.pc = p /\ tr.ops = ops /\ tr.loop = loop /\ tr.spans = CallerSpan(ops) \cup CalleeSpan(ops)
      /\ {"k", "pc", "ops", "spans", "loop"} \subseteq DOMAIN tr
  BY DEF CompiledTrace
<1> HIDE DEF tr, loop
<1> QED BY <1>1, <1>3, <1>4, <1>5, <1>6 DEF Trace, tr

LEMMA CompileRegionGood ==
    ASSUME NEW q, NEW p, NEW ops, Region(q, p, ops), NEW y, NEW e, NEW again
    PROVE  Settled(CompileRegion(q, p, y, ops, e, again))
<1> DEFINE k == clear_no_terminal_strikes(remember_compiled(q, p), p)
           tr == CompiledTrace(p, y, ops, e, again)
<1>1. CASE RejectReason(q, p, y, ops, e) # "none"
  <2>1. CompileRegion(q, p, y, ops, e, again) = RejectWith(q, p, y, RejectReason(q, p, y, ops, e))
    BY <1>1 DEF CompileRegion
  <2> QED BY <2>1, RejectWithGood
<1>2. CASE RejectReason(q, p, y, ops, e) = "none"
  <2>1. CompileRegion(q, p, y, ops, e, again) = SetSlot(k, p, tr)
    BY <1>2 DEF CompileRegion
  <2>2. Same(q, k)
    <3>1. DOMAIN q = CacheFields
      BY DEF Region, Good, Slots
    <3>2. Same(q, remember_compiled(q, p))
      BY <3>1, Hints
    <3>3. Same(remember_compiled(q, p), k)
      BY <3>2, Hints DEF Same
    <3> QED BY <3>2, <3>3, SameTrans
  <2> HIDE DEF k
  <2>3. Good(k) /\ k.rec = None /\ ~is_structurally_rejected(k, p) /\ p \in Addr
    BY <2>2, SameGood DEF Region, Same
  <2>4. Trace(tr)
    BY <1>2, CompiledGood
  <2>5. tr.k = "compiled" /\ tr.pc = p
    BY DEF CompiledTrace
  <2> HIDE DEF tr
  <2>6. Admitted(k, p, tr)
    BY <2>3, <2>4, <2>5 DEF Admitted
  <2> QED BY <2>1, <2>3, <2>6, SetSlotGood DEF Settled
<1> QED BY <1>1, <1>2

LEMMA CloseRegionGood ==
    ASSUME NEW q, NEW r, NEW ops, Region(q, r.start, ops), NEW e, NEW end
    PROVE  Settled(CloseRegion(q, r, ops, e, end))
<1> DEFINE p == r.start
           k == defer_linear_compilation(q, p)
           c == clear_linear_deferral(q, p)
           s == Counting(p, r.type, 0, r.again, r.call, FALSE, TRUE)
<1>1. DOMAIN q = CacheFields /\ Good(q) /\ q.rec = None /\ p \in Addr
      /\ ~is_structurally_rejected(q, p) /\ From(ops, p)
  BY DEF Region, Good, Slots
<1>2. Same(q, k) /\ Same(q, c)
  BY <1>1, Hints
<1>3. Settled(SetSlot(k, p, s))
  <2>1. Good(k) /\ k.rec = None /\ ~is_structurally_rejected(k, p)
    BY <1>1, <1>2, SameGood DEF Same
  <2>2. Admitted(k, p, s)
    BY <2>1, SlotKinds
  <2> HIDE DEF k, s, p
  <2> QED BY <1>1, <2>1, <2>2, SetSlotGood DEF Settled
<1>4. Settled(CompileRegion(c, p, r.type, ops, e, r.again))
  <2>1. Good(c) /\ c.rec = None /\ ~is_structurally_rejected(c, p)
    BY <1>1, <1>2, SameGood DEF Same
  <2>2. Region(c, p, ops)
    BY <1>1, <2>1 DEF Region
  <2> HIDE DEF c, p
  <2> QED BY <2>2, CompileRegionGood
<1>5. CloseRegion(q, r, ops, e, end) \in
        {SetSlot(k, p, s), CompileRegion(c, p, r.type, ops, e, r.again)}
  BY DEF CloseRegion
<1> QED BY <1>3, <1>4, <1>5

\* The last terminal of a path that has one is a terminal of it.
LEMMA LastTerminalIs ==
    ASSUME NEW ops, Path(ops), LastTerminal(ops) > 0
    PROVE  LastTerminal(ops) \in 1..Len(ops) /\ ends_trace(ops[LastTerminal(ops)])
<1> DEFINE E == {n \in 1..Len(ops) : ends_trace(ops[n])}
           U == {Len(ops) - n : n \in E}
<1>1. Len(ops) \in Nat
  BY PathOps
<1>2. PICK m \in 1..Len(ops) : ends_trace(ops[m])
  BY DEF LastTerminal
<1>3. U \in SUBSET Nat /\ U # {}
  <2>1. \A n \in E : Len(ops) - n \in Nat
    BY <1>1
  <2>2. m \in E
    BY <1>2
  <2> QED BY <2>1, <2>2
<1>4. PICK u \in U : \A v \in U : u <= v
  <2> HIDE DEF U
  <2> QED BY <1>3, Least
<1>5. PICK n \in E : u = Len(ops) - n
  OBVIOUS
<1>6. ASSUME NEW b \in (n + 1)..Len(ops), ends_trace(ops[b]) PROVE FALSE
  <2>1. b \in E
    BY <1>1, <1>6
  <2>2. Len(ops) - b \in U
    BY <2>1
  <2>3. Len(ops) - n <= Len(ops) - b
    <3> HIDE DEF U
    <3> QED BY <1>4, <1>5, <2>2
  <2> QED BY <1>1, <2>3
<1>7. \E l \in 1..Len(ops) : ends_trace(ops[l]) /\ \A b \in (l + 1)..Len(ops) : ~ends_trace(ops[b])
  BY <1>6
<1>8. LastTerminal(ops) = CHOOSE l \in 1..Len(ops) :
         ends_trace(ops[l]) /\ \A b \in (l + 1)..Len(ops) : ~ends_trace(ops[b])
  BY <1>2 DEF LastTerminal
<1> QED BY <1>7, <1>8, Zenon

\* finish_recording settles the recording: a compiled trace, a counter or a verdict.
LEMMA FinishGood ==
    ASSUME NEW q, Good(q), q.rec # None, NEW e, NEW end
    PROVE  Settled(finish_recording(q, e, end))
<1> DEFINE r == q.rec
           n == LastTerminal(r.ops)
           closed == [q EXCEPT !.rec = None]
<1>1. r.start \in Addr /\ From(r.ops, r.start) /\ Path(r.ops)
  BY DEF Good, Record, From
<1>2. Good(closed) /\ closed.rec = None /\ ~is_structurally_rejected(closed, r.start)
  <2>1. Good(closed) /\ closed.rec = None
    BY Closed
  <2>2. is_structurally_rejected(closed, r.start) = is_structurally_rejected(q, r.start)
    BY Closed
  <2>3. ~is_structurally_rejected(q, r.start)
    BY <1>1 DEF Good, Verdicts
  <2> QED BY <2>1, <2>2, <2>3
<1>3. \A ops : From(ops, r.start) => From(Unguarded(ops), r.start)
  <2> SUFFICES ASSUME NEW ops, From(ops, r.start) PROVE From(Unguarded(ops), r.start)
    OBVIOUS
  <2>1. Path(ops) /\ (ops # <<>> => ops[1].pc = r.start)
    BY DEF From
  <2>2. /\ Path(Unguarded(ops)) /\ Len(Unguarded(ops)) = Len(ops)
        /\ \A a \in 1..Len(ops) : Unguarded(ops)[a].pc = ops[a].pc
    BY <2>1, PathUnguarded
  <2>3. ops \in Seq(OpRec) /\ Unguarded(ops) \in Seq(OpRec)
    BY <2>1, <2>2, PathOps
  <2>4. Unguarded(ops) # <<>> => 1 \in 1..Len(ops) /\ ops # <<>>
    BY <2>2, <2>3
  <2> QED BY <2>1, <2>2, <2>4 DEF From
<1>4. \A ops, a : From(ops, r.start) => Settled(CloseRegion(closed, r, Unguarded(ops), a, end))
  <2> HIDE DEF closed, r
  <2>1. \A ops : From(ops, r.start) => Region(closed, r.start, Unguarded(ops))
    BY <1>1, <1>2, <1>3 DEF Region
  <2> QED BY <2>1, CloseRegionGood
<1>5. CASE Salvages(r.ops, end)
  <2>1. n \in 1..Len(r.ops) /\ ends_trace(r.ops[n]) /\ r.ops # <<>>
    BY <1>1, <1>5, LastTerminalIs DEF Salvages
  <2>2. From(SubSeq(r.ops, 1, n), r.start)
    <3> HIDE DEF n, r
    <3> QED BY <1>1, <2>1, PathPrefix DEF From
  <2>3. finish_recording(q, e, end) = CloseRegion(closed, r, Unguarded(SubSeq(r.ops, 1, n)), r.ops[n + 1].pc, end)
    BY <1>5 DEF finish_recording
  <2> HIDE DEF n, r, closed
  <2> QED BY <1>4, <2>2, <2>3
<1>6. CASE ~Salvages(r.ops, end)
  <2>1. finish_recording(q, e, end) = CloseRegion(closed, r, Unguarded(r.ops), e, end)
    BY <1>6 DEF finish_recording
  <2> HIDE DEF r, closed
  <2> QED BY <1>1, <1>4, <2>1
<1> QED BY <1>5, <1>6

LEMMA StopGood ==
    ASSUME NEW q, Good(q), NEW e
    PROVE  Settled(stop_recording(q, e))
  BY FinishGood DEF stop_recording, Settled

LEMMA RejectGood ==
    ASSUME NEW q, Good(q), q.rec # None
    PROVE  Settled(reject_recording(q))
<1> DEFINE p == q.rec.start
           s == Rejected(p, q.rec.type)
           k == SetSlot(q, p, s)
           c == [k EXCEPT !.rec = None]
<1>1. p \in Addr
  BY DEF Good, Record
<1>2. Good(k)
  <2>1. Admitted(q, p, s)
    BY SlotKinds
  <2> HIDE DEF s, p
  <2> QED BY <1>1, <2>1, SetSlotGood
<1>3. Settled(c)
  <2> HIDE DEF k
  <2> QED BY <1>2, Closed DEF Settled
<1>4. reject_recording(q) = push_probe_skip(c, p)
  BY DEF reject_recording
<1> HIDE DEF c
<1>5. Same(c, push_probe_skip(c, p))
  BY <1>3, Hints DEF Settled, Good, Slots
<1> QED BY <1>3, <1>4, <1>5, SameGood DEF Settled, Same

LEMMA CallRetryGood ==
    ASSUME NEW q, Good(q), q.rec # None
    PROVE  Settled(call_retry(q))
<1> DEFINE p == q.rec.start
           s == Counting(p, q.rec.type, 0, 0, TRUE, FALSE, FALSE)
           c == [q EXCEPT !.rec = None]
           g == grant_call_permission(c, p)
           k == SetSlot(g, p, s)
<1>1. p \in Addr /\ ~is_structurally_rejected(q, p)
  BY DEF Good, Record, Verdicts
<1>2. Good(c) /\ c.rec = None /\ ~is_structurally_rejected(c, p)
  <2>1. Good(c) /\ c.rec = None /\ is_structurally_rejected(c, p) = is_structurally_rejected(q, p)
    BY Closed
  <2> QED BY <1>1, <2>1
<1> HIDE DEF c
<1>3. Same(c, g)
  BY <1>2, Hints DEF Good, Slots
<1> HIDE DEF g
<1>4. Good(g) /\ g.rec = None /\ ~is_structurally_rejected(g, p)
  BY <1>2, <1>3, SameGood DEF Same
<1>5. Admitted(g, p, s)
  BY <1>4, SlotKinds
<1>6. call_retry(q) = rearm_filters(k)
  BY DEF call_retry, k, g, c
<1>7. Good(k) /\ k.rec = None
  <2> HIDE DEF s, p
  <2> QED BY <1>1, <1>4, <1>5, SetSlotGood
<1> HIDE DEF k
<1>8. Same(k, rearm_filters(k))
  BY <1>7, Hints DEF Good, Slots
<1> QED BY <1>6, <1>7, <1>8, SameGood DEF Settled, Same

----------------------------------------------------------------------------
(* Candidates and side exits *)

\* The cache changes, the recording does not
Kept(q, r) == Good(r) /\ r.rec = q.rec
LEMMA KeptTracked ==
    ASSUME NEW q, NEW r, Kept(q, r), NEW p, Tracked(q, p)
    PROVE  Tracked(r, p)
  BY DEF Kept, Tracked
LEMMA SameKept ==
    ASSUME NEW q, NEW r, Good(q), Same(q, r)
    PROVE  Kept(q, r)
  BY SameGood DEF Kept, Same

LEMMA CandidateKept ==
    ASSUME NEW q, Good(q), NEW p \in Addr, ~is_structurally_rejected(q, p), NEW y
    PROVE  Kept(q, InstallCandidate(q, p, y))
<1> DEFINE s == Counting(p, y, 1, 0, has_call_permission(q, p), FALSE, linear_compilation_deferred(q, p))
<1>1. Admitted(q, p, s)
  BY SlotKinds
<1>2. InstallCandidate(q, p, y) = SetSlot(q, p, s)
  BY DEF InstallCandidate
<1> HIDE DEF s
<1> QED BY <1>1, <1>2, SetSlotGood DEF Kept

LEMMA TargetKept ==
    ASSUME NEW q, Good(q), NEW p \in Addr, NEW y
    PROVE  Kept(q, record_trace_target(q, p, y))
<1>1. Kept(q, q)
  BY DEF Kept
<1>2. ~is_structurally_rejected(q, p) => Kept(q, InstallCandidate(q, p, y))
  BY CandidateKept
<1>3. /\ is_structurally_rejected(q, p) => record_trace_target(q, p, y) = q
      /\ record_trace_target(q, p, y) \in {q, InstallCandidate(q, p, y)}
  BY DEF record_trace_target
<1> QED BY <1>1, <1>2, <1>3

LEMMA BackwardKept ==
    ASSUME NEW q, Good(q), NEW p \in Addr, NEW y
    PROVE  Kept(q, note_backward_branch(q, p, y)[1])
<1> DEFINE c == [q EXCEPT !.rskip = Pushed(@, p)]
<1>1. c = [q EXCEPT !.rskip = Pushed(q.rskip, p)]
  OBVIOUS
<1>2. Same(q, c)
  BY <1>1, Hints DEF Good, Slots
<1>3. note_backward_branch(q, p, y)[1] \in {q, record_trace_target(c, p, y)}
  BY DEF note_backward_branch
<1> HIDE DEF c
<1>4. Kept(q, c) /\ Kept(c, record_trace_target(c, p, y))
  BY <1>2, SameKept, TargetKept DEF Kept
<1> QED BY <1>3, <1>4 DEF Kept

LEMMA RearmKept ==
    ASSUME NEW q, Good(q)
    PROVE  Kept(q, rearm_filters(q))
  BY Hints, SameKept DEF Good, Slots

\* The probe of a counter counts it, and opens a recording at the guest's PC.
LEMMA ProbeKept ==
    ASSUME NEW q, Good(q), q.rec = None, NEW p \in Addr, NEW y
    PROVE  Good(ProbeCandidate(q, p, y)) /\ Tracked(ProbeCandidate(q, p, y), p)
<1> DEFINE seeded == q.seed = [pc |-> p, type |-> y]
           q1 == IF seeded THEN [q EXCEPT !.seed = None] ELSE q
           s == Slot(q, p)
           counted == IF seeded THEN s ELSE Hit(s)
           k == SetSlot(q1, p, counted)
           o == [k EXCEPT !.rec = Recording(p, y, s.again, s.call, seeded)]
<1>1. Same(q, q1) /\ Good(q1) /\ q1.rec = None /\ Slot(q1, p) = s
      /\ is_structurally_rejected(q1, p) = is_structurally_rejected(q, p)
  <2>1. Same(q, [q EXCEPT !.seed = None]) /\ Same(q, q)
    BY Hints DEF Good, Slots, Same
  <2>2. Same(q, q1)
    BY <2>1
  <2> HIDE DEF q1
  <2> QED BY <2>2, SameGood DEF Same
<1>2. \/ ProbeCandidate(q, p, y) \in {q1, push_probe_skip(q1, p)}
      \/ Holds(s, "counting", p, y) /\ ProbeCandidate(q, p, y) \in {k, o}
  <2>1. CASE Holds(s, "counting", p, y)
    <3>1. ProbeCandidate(q, p, y) = IF counted.hits < Threshold(counted) THEN k ELSE o
      BY <2>1, Zenon DEF ProbeCandidate, Holds
    <3> HIDE DEF k, o, counted, s
    <3> QED BY <2>1, <3>1
  <2>2. CASE Holds(s, "rejected", p, y)
    <3>1. ~Holds(s, "counting", p, y)
      BY <2>2 DEF Holds
    <3>2. ProbeCandidate(q, p, y) = push_probe_skip(q1, p)
      BY <2>2, <3>1, Zenon DEF ProbeCandidate
    <3> HIDE DEF q1, s, k, o
    <3> QED BY <3>2
  <2>3. CASE ~Holds(s, "counting", p, y) /\ ~Holds(s, "rejected", p, y)
    BY <2>3, Zenon DEF ProbeCandidate
  <2> QED BY <2>1, <2>2, <2>3
<1>3. \A r : Good(r) /\ r.rec = None => Tracked(r, p)
  BY DEF Tracked
<1>4. Good(push_probe_skip(q1, p)) /\ push_probe_skip(q1, p).rec = None
  <2> HIDE DEF q1
  <2>1. Same(q1, push_probe_skip(q1, p))
    BY <1>1, Hints DEF Good, Slots
  <2> QED BY <1>1, <2>1, SameGood DEF Same
<1>5. ASSUME Holds(s, "counting", p, y) PROVE Good(k) /\ k.rec = None /\ Good(o) /\ Tracked(o, p)
  <2>1. s.k = "counting" /\ s.pc = p /\ {"k", "pc"} \subseteq DOMAIN s
    <3>1. s.k = "counting" /\ s.pc = p
      BY <1>5 DEF Holds
    <3>2. trace_cache_index(p) \in Indexes
      BY Index
    <3> QED BY <3>1, <3>2 DEF Good, Slots, Slot
  <2>2. counted.k = "counting" /\ counted.pc = p /\ {"k", "pc"} \subseteq DOMAIN counted
    BY <2>1 DEF Hit
  <2>3. ~is_structurally_rejected(q, p)
    BY <2>1 DEF Good, Verdicts, Live
  <2>4. Admitted(q1, p, counted)
    <3> HIDE DEF counted, q1
    <3> QED BY <1>1, <2>2, <2>3 DEF Admitted
  <2>5. Good(k) /\ k.rec = None /\ ~is_structurally_rejected(k, p)
    <3> HIDE DEF counted, q1
    <3>1. Slots(q1)
      BY <1>1 DEF Good
    <3>2. is_structurally_rejected(k, p) = is_structurally_rejected(q1, p)
      <4>1. k.struct = q1.struct
        BY <3>1, SlotSetVerdicts
      <4> QED BY <4>1 DEF is_structurally_rejected
    <3>3. Good(k) /\ k.rec = q1.rec
      BY <1>1, <2>4, SetSlotGood
    <3> QED BY <1>1, <2>3, <3>2, <3>3
  <2> HIDE DEF k, s, seeded
  <2> QED BY <2>5, Opened
<1> HIDE DEF q1, k, o
<1> QED BY <1>1, <1>2, <1>3, <1>4, <1>5

\* note_trace_exit: a chain leaves the recording alone and is not taken to a
\* watched PC; nor is a recording opened at one.
LEMMA ExitNoted ==
    ASSUME NEW q0, Good(q0), NEW p \in Addr, NEW y, NEW watched \in BOOLEAN
    PROVE  LET r == note_trace_exit(q0, p, y, watched) IN
           /\ Good(r[1]) /\ r[2] \in {"none", "chain", "record"}
           /\ r[2] # "record" => r[1].rec = q0.rec
           /\ r[2] # "none" => ~watched
           /\ r[2] = "record" => q0.rec = None /\ Tracked(r[1], p)
<1> DEFINE q == clear_linear_deferral(q0, p)
           s == Slot(q, p)
           hot == Hit([s EXCEPT !.linear = FALSE])
           k == SetSlot(q, p, hot)
           seed == [pc |-> p, type |-> y]
           o == [k EXCEPT !.rec = Recording(p, y, s.again, s.call, TRUE)]
           c == SetSlot(q, p, Counting(p, y, 1, 0, has_call_permission(q, p), FALSE, FALSE))
           r == note_trace_exit(q0, p, y, watched)
<1>1. Kept(q0, q)
  <2>1. Same(q0, q)
    BY Hints DEF Good, Slots
  <2> QED BY <2>1, SameKept
<1>2. \/ r[1] = q /\ r[2] = "none"
      \/ r[1] = q /\ r[2] = "chain" /\ ~watched
      \/ /\ Holds(s, "counting", p, y) /\ r[2] = "none"
         /\ \E v : r[1] = [k EXCEPT !.seed = v]
      \/ /\ Holds(s, "counting", p, y) /\ r[2] = "record" /\ ~watched /\ q.rec = None
         /\ r[1] = o
      \/ /\ ~is_structurally_rejected(q, p) /\ r[2] = "none"
         /\ r[1] = [c EXCEPT !.seed = seed]
  <2>1. CASE s.k = "compiled"
    <3>1. r = <<q, IF Holds(s, "compiled", p, y) /\ ~watched THEN "chain" ELSE "none">>
      BY <2>1, Zenon DEF note_trace_exit, Holds
    <3> HIDE DEF r, q
    <3> QED BY <3>1
  <2>2. CASE s.k # "compiled" /\ Holds(s, "counting", p, y)
    <3>1. CASE watched \/ hot.hits < Threshold(hot) \/ q.rec # None
      <4>1. r = <<[k EXCEPT !.seed = IF ~watched /\ q.rec = None THEN seed ELSE @], "none">>
        BY <2>2, <3>1, Zenon DEF note_trace_exit, Holds
      <4>2. r[1] = [k EXCEPT !.seed = IF ~watched /\ q.rec = None THEN seed ELSE k.seed]
        BY <4>1
      <4> HIDE DEF k, s, r
      <4> QED BY <2>2, <4>1, <4>2
    <3>2. CASE ~(watched \/ hot.hits < Threshold(hot) \/ q.rec # None)
      <4>1. r = <<o, "record">>
        BY <2>2, <3>2, Zenon DEF note_trace_exit, Holds
      <4> HIDE DEF o, s, r
      <4> QED BY <2>2, <3>2, <4>1
    <3> QED BY <3>1, <3>2
  <2>3. CASE s.k # "compiled" /\ Holds(s, "rejected", p, y)
    BY <2>3 DEF note_trace_exit, Holds
  <2>4. CASE s.k # "compiled" /\ ~Holds(s, "counting", p, y) /\ ~Holds(s, "rejected", p, y)
    BY <2>4 DEF note_trace_exit
  <2> QED BY <2>1, <2>2, <2>3, <2>4
<1> HIDE DEF r
<1>3. ASSUME Holds(s, "counting", p, y)
      PROVE  /\ Kept(q0, k) /\ (q.rec = None => Good(o) /\ Tracked(o, p))
             /\ \A v : Kept(q0, [k EXCEPT !.seed = v])
  <2>1. s.k = "counting" /\ s.pc = p /\ {"k", "pc"} \subseteq DOMAIN s
    <3>1. s.k = "counting" /\ s.pc = p
      BY <1>3 DEF Holds
    <3>2. trace_cache_index(p) \in Indexes
      BY Index
    <3> HIDE DEF q
    <3> QED BY <1>1, <3>1, <3>2 DEF Good, Slots, Slot, Kept
  <2>2. hot.k = "counting" /\ hot.pc = p /\ {"k", "pc"} \subseteq DOMAIN hot
    <3> HIDE DEF s
    <3> QED BY <2>1 DEF Hit
  <2> HIDE DEF hot, q
  <2>3. ~is_structurally_rejected(q, p)
    BY <1>1, <2>1 DEF Good, Verdicts, Live, Kept
  <2>4. Admitted(q, p, hot)
    BY <2>2, <2>3 DEF Admitted
  <2>5. Good(k) /\ k.rec = q.rec /\ ~is_structurally_rejected(k, p)
    <3>1. Slots(q) /\ Good(q)
      BY <1>1 DEF Kept, Good
    <3>2. is_structurally_rejected(k, p) = is_structurally_rejected(q, p)
      <4>1. k.struct = q.struct
        BY <3>1, SlotSetVerdicts
      <4> QED BY <4>1 DEF is_structurally_rejected
    <3>3. Good(k) /\ k.rec = q.rec
      BY <3>1, <2>4, SetSlotGood
    <3> QED BY <2>3, <3>2, <3>3
  <2> HIDE DEF k, s
  <2>6. Kept(q0, k)
    BY <1>1, <2>5 DEF Kept
  <2>7. \A v : Kept(k, [k EXCEPT !.seed = v])
    <3>1. \A v : Same(k, [k EXCEPT !.seed = v])
      BY <2>5, Hints DEF Good, Slots
    <3> QED BY <2>5, <3>1, SameKept
  <2>8. \A v : Kept(q0, [k EXCEPT !.seed = v])
    BY <2>6, <2>7 DEF Kept
  <2> QED BY <2>5, <2>6, <2>8, Opened
<1>4. ASSUME ~is_structurally_rejected(q, p) PROVE Kept(q0, [c EXCEPT !.seed = seed])
  <2>1. Admitted(q, p, Counting(p, y, 1, 0, has_call_permission(q, p), FALSE, FALSE))
    BY <1>4, SlotKinds
  <2>2. Good(c) /\ c.rec = q.rec
    <3> HIDE DEF q
    <3> QED BY <1>1, <2>1, SetSlotGood DEF Kept
  <2> HIDE DEF c
  <2>3. Kept(c, [c EXCEPT !.seed = seed])
    <3>1. Same(c, [c EXCEPT !.seed = seed])
      BY <2>2, Hints DEF Good, Slots
    <3> QED BY <2>2, <3>1, SameKept
  <2> QED BY <1>1, <2>2, <2>3 DEF Kept
<1> HIDE DEF q, k, o, c, s
<1>5. Good(r[1]) /\ r[2] \in {"none", "chain", "record"}
  BY <1>1, <1>2, <1>3, <1>4 DEF Kept
<1>6. r[2] # "record" => r[1].rec = q0.rec
  BY <1>1, <1>2, <1>3, <1>4 DEF Kept
<1>7. /\ r[2] # "none" => ~watched
      /\ r[2] = "record" => q0.rec = None /\ Tracked(r[1], p)
  BY <1>1, <1>2, <1>3 DEF Kept
<1> QED BY <1>5, <1>6, <1>7 DEF r

----------------------------------------------------------------------------
(* Recording an operation *)

\* The recording goes on as R
Continues(q, R) ==
    /\ q.rec # None /\ DOMAIN R = RecFields /\ R.start = q.rec.start
    /\ R.ret \in Addr \cup {NoPc} /\ From(R.ops, R.start)
LEMMA ContinuesGood ==
    ASSUME NEW q, Good(q), NEW R, Continues(q, R)
    PROVE  Good([q EXCEPT !.rec = R]) /\ [q EXCEPT !.rec = R].rec = R /\ R # None
<1> DEFINE r == [q EXCEPT !.rec = R]
<1>1. DOMAIN r = CacheFields /\ r.rec = R /\ r.struct = q.struct /\ r.slots = q.slots
  BY DEF Good, Slots, CacheFields
<1> HIDE DEF r
<1>2. \A t : is_structurally_rejected(r, t) = is_structurally_rejected(q, t) /\ Slot(r, t) = Slot(q, t)
  BY <1>1 DEF is_structurally_rejected, Slot
<1>3. Slots(r)
  BY <1>1 DEF Good, Slots
<1>4. Record(r)
  BY <1>1 DEF Record, Continues, Good
<1>5. Verdicts(r)
  BY <1>1, <1>2 DEF Good, Verdicts, Continues
<1>6. R # None
  <2>1. "start" \in DOMAIN R /\ "start" \notin DOMAIN None
    BY DEF Continues, RecFields, None
  <2> QED BY <2>1
<1> QED BY <1>1, <1>3, <1>4, <1>5, <1>6 DEF Good, r

\* What RecordOp finds: an open recording that ends where the guest executed
Open(q, p) ==
    /\ Good(q) /\ q.rec # None /\ DOMAIN q.rec = RecFields /\ q.rec.until = NoPc
    /\ AtEnd(q.rec, p) /\ p \in Addr
Advanced(q, p) == Good(q) /\ Tracked(q, p)
LEMMA SettledAdvanced == \A q, p : Settled(q) => Advanced(q, p)
  BY DEF Settled, Advanced, Tracked

LEMMA AppendOpen ==
    ASSUME NEW q, NEW p, Open(q, p), NEW o, Recorded(o), o.top # "condskip", o.pc = p
    PROVE  /\ Good(Append1(q, o)) /\ Append1(q, o).rec # None
           /\ Append1(q, o).rec.start = q.rec.start /\ Append1(q, o).rec.ret = q.rec.ret
           /\ DOMAIN Append1(q, o).rec = RecFields /\ DOMAIN Append1(q, o) = CacheFields
           /\ Append1(q, o).rec.ops = Append(q.rec.ops, o)
           /\ Onwards(o) => Open(Append1(q, o), Onward(o)) \/ Onward(o) \notin Addr
<1> DEFINE s == Append(q.rec.ops, o)
           R == [q.rec EXCEPT !.ops = s]
           r == Append1(q, o)
<1>1. r = [q EXCEPT !.rec = R]
  BY DEF Append1
<1>2. DOMAIN q = CacheFields /\ q.rec # None /\ DOMAIN q.rec = RecFields /\ From(q.rec.ops, q.rec.start)
      /\ q.rec.ret \in Addr \cup {NoPc} /\ q.rec.until = NoPc
  BY DEF Open, Good, Slots, Record
<1>3. /\ Path(s) /\ s # <<>> /\ Last(s) = o
      /\ s[1].pc = IF q.rec.ops = <<>> THEN o.pc ELSE q.rec.ops[1].pc
  <2>1. Path(q.rec.ops)
    BY <1>2 DEF From
  <2>2. q.rec.ops # <<>> => Onwards(Last(q.rec.ops)) /\ o.pc = Onward(Last(q.rec.ops))
    BY DEF Open, AtEnd
  <2> QED BY <2>1, <2>2, PathAppend
<1>4. From(s, q.rec.start)
  <2>1. q.rec.ops = <<>> => o.pc = q.rec.start
    BY DEF Open, AtEnd
  <2>2. q.rec.ops # <<>> => q.rec.ops[1].pc = q.rec.start
    BY <1>2 DEF From
  <2> HIDE DEF s
  <2> QED BY <1>3, <2>1, <2>2 DEF From
<1> HIDE DEF s
<1>5. /\ DOMAIN R = RecFields /\ R.start = q.rec.start /\ R.ret = q.rec.ret /\ R.ops = s
      /\ R.until = NoPc
  BY <1>2 DEF RecFields
<1> HIDE DEF R, r
<1>6. Continues(q, R)
  BY <1>2, <1>4, <1>5 DEF Continues
<1>7. Good(r) /\ r.rec = R /\ R # None
  BY <1>1, <1>6, ContinuesGood DEF Open
<1>8. Onwards(o) => AtEnd(R, Onward(o))
  BY <1>3, <1>5 DEF AtEnd
<1>9. DOMAIN r = CacheFields
  BY <1>7 DEF Good, Slots
<1> QED BY <1>5, <1>7, <1>8, <1>9 DEF Open, r, s

LEMMA CloseDone ==
    ASSUME NEW q, NEW nxt, Open(q, nxt)
    PROVE  Advanced(CloseIfDone(q, nxt), nxt)
<1>1. Good(q) /\ q.rec # None /\ Tracked(q, nxt)
  BY DEF Open, Tracked
<1>2. Settled(finish_recording(q, nxt, "region"))
  BY <1>1, FinishGood
<1>3. CloseIfDone(q, nxt) \in {q, finish_recording(q, nxt, "region")}
  BY DEF CloseIfDone
<1> QED BY <1>1, <1>2, <1>3, SettledAdvanced DEF Advanced

\* try_if_convert_branch: the guest took the branch, or is in the block it skips
LEMMA IfConvertedGood ==
    ASSUME NEW q, NEW p, Open(q, p), NEW nxt, NEW i \in Instr, i.k = "bcc",
           NEW m \in [Addr -> Instr], IfConverts(q, p, nxt, i, m)
    PROVE  Advanced(IfConverted(q, p, nxt, i, m), nxt)
<1> DEFINE n == i.t - p - 1
           skip == [Op(p, i, "condskip", NoPc) EXCEPT !.skip = n]
           block == [a \in 1..n |-> Op(p + a, m[p + a], decode_trace_op(m[p + a]), NoPc)]
           s == q.rec.ops \o <<skip>> \o block
           u == IF nxt = p + 1 THEN i.t ELSE NoPc
           R == [q.rec EXCEPT !.ops = s, !.until = u]
           r == IfConverted(q, p, nxt, i, m)
<1>1. DOMAIN q = CacheFields /\ q.rec # None /\ DOMAIN q.rec = RecFields /\ From(q.rec.ops, q.rec.start)
      /\ q.rec.ret \in Addr \cup {NoPc} /\ p \in Addr /\ Good(q)
  BY DEF Open, Good, Slots, Record
<1>2. i.t > p + 1 /\ nxt \in {i.t, p + 1} /\ \A a \in SkipBlock(p, i) : is_if_convertible_block_op(m[a])
  BY DEF IfConverts
<1>3. /\ Path(s) /\ s # <<>> /\ s[1].pc = IF q.rec.ops = <<>> THEN p ELSE q.rec.ops[1].pc
      /\ Onwards(Last(s)) /\ Onward(Last(s)) = i.t
  <2>1. Path(q.rec.ops)
    BY <1>1 DEF From
  <2>2. q.rec.ops # <<>> => Onwards(Last(q.rec.ops)) /\ p = Onward(Last(q.rec.ops))
    BY DEF Open, AtEnd
  <2> QED BY <1>1, <1>2, <2>1, <2>2, PathConverted
<1>4. r = [q EXCEPT !.rec = R]
  <2>1. r = [q EXCEPT !.rec.ops = s, !.rec.until = u]
    BY DEF IfConverted
  <2> HIDE DEF s, u, r
  <2>2. "rec" \in DOMAIN q
    BY <1>1 DEF CacheFields
  <2> QED BY <2>1, <2>2
<1> HIDE DEF s, r, skip, block
<1>5. From(s, q.rec.start)
  <2>1. q.rec.ops = <<>> => p = q.rec.start
    BY DEF Open, AtEnd
  <2>2. q.rec.ops # <<>> => q.rec.ops[1].pc = q.rec.start
    BY <1>1 DEF From
  <2> QED BY <1>3, <2>1, <2>2 DEF From
<1> HIDE DEF u
<1>6. DOMAIN R = RecFields /\ R.start = q.rec.start /\ R.ret = q.rec.ret /\ R.ops = s /\ R.until = u
  BY <1>1 DEF RecFields
<1> HIDE DEF R
<1>7. Continues(q, R)
  BY <1>1, <1>5, <1>6 DEF Continues
<1>8. Good(r) /\ r.rec = R
  BY <1>1, <1>4, <1>7, ContinuesGood
<1>9. Tracked(r, nxt)
  <2>1. i.t \in Addr /\ i.t \in Nat /\ p \in Nat /\ NoPc \notin Addr
    BY <1>1, Addresses DEF Instr
  <2>2. CASE nxt = p + 1
    <3>1. u = i.t
      BY <2>2 DEF u
    <3>2. nxt <= i.t
      BY <1>2, <2>1, <2>2
    <3>3. InBlock(R, nxt)
      BY <1>3, <1>6, <2>1, <3>1, <3>2 DEF InBlock
    <3> QED BY <1>6, <1>8, <2>1, <3>1, <3>3 DEF Tracked
  <2>3. CASE nxt # p + 1
    <3>1. u = NoPc /\ nxt = i.t
      BY <1>2, <2>3 DEF u
    <3>2. AtEnd(R, nxt)
      BY <1>3, <1>6, <3>1 DEF AtEnd
    <3> QED BY <1>6, <1>8, <3>1, <3>2 DEF Tracked
  <2> QED BY <2>2, <2>3
<1> QED BY <1>8, <1>9 DEF Advanced, r

LEMMA RecordCallGood ==
    ASSUME NEW q, NEW p, Open(q, p), NEW nxt, NEW i \in Instr, i.k = "bsr", nxt = i.t
    PROVE  Advanced(RecordCall(q, p, nxt, i), nxt)
<1> DEFINE o == Op(p, i, "call", NoPc)
           k == Append1(q, o)
           R == [k.rec EXCEPT !.ret = After(p)]
           r == [k EXCEPT !.rec = R]
<1>1. Settled(finish_recording(q, p, "region"))
  BY FinishGood DEF Open
<1>2. Recorded(o) /\ o.top = "call" /\ o.pc = p /\ o.ins = i
  BY OpTypes DEF Op, Recorded, Sources, OpRec, Tops, Open
<1>3. Onwards(o) /\ Onward(o) = nxt /\ nxt \in Addr
  BY <1>2 DEF Onwards, Onward, Instr
<1>4. RecordCall(q, p, nxt, i) \in {finish_recording(q, p, "region"), r}
  BY DEF RecordCall
<1> HIDE DEF o
<1>5. Open(k, nxt)
  BY <1>2, <1>3, AppendOpen
<1> HIDE DEF k
<1>6. /\ DOMAIN k.rec = RecFields /\ k.rec # None /\ From(k.rec.ops, k.rec.start) /\ k.rec.until = NoPc
      /\ AtEnd(k.rec, nxt) /\ Good(k) /\ After(p) \in Addr
  BY <1>5, Addresses DEF Open, Good, Record
<1>7. /\ DOMAIN R = RecFields /\ R.start = k.rec.start /\ R.ops = k.rec.ops /\ R.ret = After(p)
      /\ R.until = NoPc
  BY <1>6 DEF RecFields
<1> HIDE DEF R
<1>8. Continues(k, R)
  BY <1>6, <1>7 DEF Continues
<1>9. Good(r) /\ r.rec = R
  BY <1>6, <1>8, ContinuesGood
<1>10. Tracked(r, nxt)
  BY <1>6, <1>7, <1>9 DEF Tracked, AtEnd
<1> HIDE DEF r
<1> QED BY <1>1, <1>4, <1>9, <1>10, SettledAdvanced DEF Advanced

LEMMA RecordReturnGood ==
    ASSUME NEW q, NEW p, Open(q, p), NEW nxt \in Addr, NEW i \in Instr, i.k = "rts"
    PROVE  Advanced(RecordReturn(q, p, nxt, i), nxt)
<1>1. q.rec.ret \in Addr \cup {NoPc} /\ p \in Addr /\ Good(q) /\ q.rec # None
  BY DEF Open, Good, Record
<1>2. CASE q.rec.ret = NoPc
  <2> DEFINE o == Op(p, i, "ret", NoPc)
  <2>1. Recorded(o) /\ o.top = "ret" /\ o.pc = p
    BY <1>1 DEF Op, Recorded, Sources, OpRec, Tops
  <2>2. RecordReturn(q, p, nxt, i) = finish_recording(Append1(q, o), nxt, "region")
    BY <1>2 DEF RecordReturn
  <2> HIDE DEF o
  <2>3. Good(Append1(q, o)) /\ Append1(q, o).rec # None
    BY <2>1, AppendOpen
  <2> QED BY <2>2, <2>3, FinishGood, SettledAdvanced
<1>3. CASE q.rec.ret # NoPc /\ nxt # q.rec.ret
  <2>1. RecordReturn(q, p, nxt, i) = reject_recording(q)
    BY <1>3 DEF RecordReturn
  <2> QED BY <1>1, <2>1, RejectGood, SettledAdvanced
<1>4. CASE q.rec.ret # NoPc /\ nxt = q.rec.ret
  <2> DEFINE o == Op(p, i, "rtsret", q.rec.ret)
             k == Append1(q, o)
             R == [k.rec EXCEPT !.ret = NoPc]
             r == [k EXCEPT !.rec = R]
  <2>1. Recorded(o) /\ o.top = "rtsret" /\ o.pc = p /\ o.exp = nxt
    BY <1>1, <1>4 DEF Op, Recorded, Sources, OpRec, Tops
  <2>2. Onwards(o) /\ Onward(o) = nxt
    BY <2>1, Addresses DEF Onwards, Onward
  <2>3. RecordReturn(q, p, nxt, i) = r
    BY <1>4 DEF RecordReturn
  <2> HIDE DEF o
  <2>5. Open(k, nxt)
    BY <2>1, <2>2, AppendOpen
  <2> HIDE DEF k
  <2>6. /\ DOMAIN k.rec = RecFields /\ k.rec # None /\ From(k.rec.ops, k.rec.start) /\ k.rec.until = NoPc
        /\ AtEnd(k.rec, nxt) /\ Good(k)
    BY <2>5 DEF Open, Good, Record
  <2>7. /\ DOMAIN R = RecFields /\ R.start = k.rec.start /\ R.ops = k.rec.ops /\ R.ret = NoPc
        /\ R.until = NoPc
    BY <2>6 DEF RecFields
  <2> HIDE DEF R
  <2>8. Continues(k, R)
    BY <2>6, <2>7 DEF Continues
  <2>9. Good(r) /\ r.rec = R
    BY <2>6, <2>8, ContinuesGood
  <2>10. Tracked(r, nxt)
    BY <2>6, <2>7, <2>9 DEF Tracked, AtEnd
  <2> QED BY <2>3, <2>9, <2>10 DEF Advanced
<1> QED BY <1>2, <1>3, <1>4

\* Control may go from p to nxt, where ir was executed and memory is now m
Went(p, nxt, ir, m) ==
    /\ p \in Addr /\ nxt \in Addr /\ ir \in Instr /\ m \in [Addr -> Instr]
    /\ m[p].k = "bcc" => nxt \in {m[p].t, After(p)}
    /\ ir.k = "bsr" => nxt = ir.t

LEMMA RecordPlainGood ==
    ASSUME NEW q, NEW p, Open(q, p), NEW nxt, NEW ir, NEW m, Went(p, nxt, ir, m),
           decode_trace_op(m[p]) # "refused"
    PROVE  Advanced(RecordPlain(q, p, nxt, m[p], m), nxt)
<1> DEFINE i == m[p]
           top == decode_trace_op(i)
           guard == IF nxt = q.rec.start THEN NoPc ELSE IF i.t = nxt THEN i.t ELSE After(p)
           r == RecordPlain(q, p, nxt, i, m)
<1> SUFFICES Advanced(r, nxt)
  OBVIOUS
<1>1. /\ Good(q) /\ q.rec # None /\ p \in Addr /\ nxt \in Addr /\ m \in [Addr -> Instr]
      /\ i \in Instr /\ i.t \in Addr /\ After(p) \in Addr /\ NoPc \notin Addr
  BY Addresses DEF Open, Went, Instr
<1>2. top \in {"plain", "mem", "branch", "dbcc", "jmp", "jsr", "ret"} /\ i.k \in Sources(top)
  <2>1. decode_trace_op(i) # "refused"
    OBVIOUS
  <2> HIDE DEF i
  <2> QED BY <2>1 DEF decode_trace_op, Sources
<1>3. Settled(finish_recording(q, p, "region"))
  BY <1>1, FinishGood
<1>4. \A e \in Addr \cup {NoPc} : Recorded(Op(p, i, top, e))
  <2> HIDE DEF i, top
  <2> QED BY <1>1, <1>2 DEF Recorded, Op, OpRec, Tops
<1>5. \A e : Op(p, i, top, e).top = top /\ Op(p, i, top, e).pc = p /\ Op(p, i, top, e).exp = e
  BY DEF Op
<1>6. \A e \in Addr \cup {NoPc} :
        /\ Good(Append1(q, Op(p, i, top, e))) /\ Append1(q, Op(p, i, top, e)).rec # None
        /\ Append1(q, Op(p, i, top, e)).rec.start = q.rec.start
        /\ Onwards(Op(p, i, top, e)) => Open(Append1(q, Op(p, i, top, e)), Onward(Op(p, i, top, e)))
                                        \/ Onward(Op(p, i, top, e)) \notin Addr
  <2> SUFFICES ASSUME NEW e \in Addr \cup {NoPc}
               PROVE  /\ Good(Append1(q, Op(p, i, top, e))) /\ Append1(q, Op(p, i, top, e)).rec # None
                      /\ Append1(q, Op(p, i, top, e)).rec.start = q.rec.start
                      /\ Onwards(Op(p, i, top, e)) => Open(Append1(q, Op(p, i, top, e)), Onward(Op(p, i, top, e)))
                                                      \/ Onward(Op(p, i, top, e)) \notin Addr
    OBVIOUS
  <2> DEFINE o == Op(p, i, top, e)
  <2>1. Recorded(o) /\ o.top # "condskip" /\ o.pc = p
    BY <1>2, <1>4, <1>5
  <2> HIDE DEF o
  <2>2. /\ Good(Append1(q, o)) /\ Append1(q, o).rec # None /\ Append1(q, o).rec.start = q.rec.start
        /\ Onwards(o) => Open(Append1(q, o), Onward(o)) \/ Onward(o) \notin Addr
    BY <2>1, AppendOpen
  <2> QED BY <2>2 DEF o
<1> HIDE DEF i
<1>7. CASE top = "branch" /\ IfConverts(q, p, nxt, i, m)
  <2>1. r = IfConverted(q, p, nxt, i, m)
    BY <1>7 DEF RecordPlain
  <2>2. i.k = "bcc"
    BY <1>2, <1>7 DEF Sources
  <2> QED BY <1>1, <1>7, <2>1, <2>2, IfConvertedGood DEF i
<1>8. CASE top = "branch" /\ ~IfConverts(q, p, nxt, i, m)
  <2> DEFINE o == Op(p, i, top, guard)
             k == Append1(q, o)
  <2>1. r = CloseIfDone(k, nxt)
    BY <1>8 DEF RecordPlain
  <2>2. guard \in Addr \cup {NoPc}
    BY <1>1
  <2>3. nxt \in {i.t, After(p)}
    BY <1>2, <1>8 DEF Sources, Went, i
  <2>4. /\ o.top = "branch" /\ o.exp = guard
        /\ Good(k) /\ k.rec # None /\ k.rec.start = q.rec.start
        /\ Onwards(o) => Open(k, Onward(o)) \/ Onward(o) \notin Addr
    BY <1>5, <1>6, <1>8, <2>2
  <2>5. CASE nxt = q.rec.start
    <3> HIDE DEF k
    <3>1. r = finish_recording(k, nxt, "region")
      BY <2>1, <2>4, <2>5 DEF CloseIfDone
    <3> QED BY <2>4, <3>1, FinishGood, SettledAdvanced
  <2>6. CASE nxt # q.rec.start
    <3>1. guard = nxt
      BY <2>3, <2>6
    <3> HIDE DEF k, o, guard
    <3>2. Onwards(o) /\ Onward(o) = nxt
      BY <1>1, <2>4, <3>1 DEF Onwards, Onward
    <3> QED BY <1>1, <2>1, <2>4, <3>2, CloseDone
  <2> QED BY <2>5, <2>6
<1>9. CASE top = "jmp"
  <2> DEFINE o == Op(p, i, top, nxt)
             k == Append1(q, o)
  <2>1. r = CloseIfDone(k, nxt)
    BY <1>9 DEF RecordPlain
  <2>2. /\ o.top = "jmp" /\ o.exp = nxt
        /\ Onwards(o) => Open(k, Onward(o)) \/ Onward(o) \notin Addr
    BY <1>1, <1>5, <1>6, <1>9
  <2> HIDE DEF k, o
  <2>3. Onwards(o) /\ Onward(o) = nxt
    BY <1>1, <2>2 DEF Onwards, Onward
  <2> QED BY <1>1, <2>1, <2>2, <2>3, CloseDone
<1>10. CASE top \in {"dbcc", "jsr", "ret"}
  <2> DEFINE k == Append1(q, Op(p, i, top, NoPc))
  <2>1. r = finish_recording(k, nxt, "region")
    BY <1>10 DEF RecordPlain
  <2>2. Good(k) /\ k.rec # None
    BY <1>6
  <2> HIDE DEF k
  <2> QED BY <2>1, <2>2, FinishGood, SettledAdvanced
<1>11. CASE top \in {"plain", "mem"} /\ nxt # After(p)
  <2>1. r = finish_recording(q, p, "region")
    BY <1>11 DEF RecordPlain
  <2> QED BY <1>3, <2>1, SettledAdvanced
<1>12. CASE top \in {"plain", "mem"} /\ nxt = After(p)
  <2> DEFINE o == Op(p, i, top, NoPc)
             k == Append1(q, o)
  <2>1. r = CloseIfDone(k, nxt)
    BY <1>12 DEF RecordPlain
  <2>2. /\ o.top = top /\ o.pc = p
        /\ Onwards(o) => Open(k, Onward(o)) \/ Onward(o) \notin Addr
    BY <1>5, <1>6
  <2> HIDE DEF k, o
  <2>3. Onwards(o) /\ Onward(o) = nxt
    BY <1>12, <2>2 DEF Onwards, Onward
  <2> QED BY <1>1, <2>1, <2>2, <2>3, CloseDone
<1> HIDE DEF r, top
<1> QED BY <1>2, <1>7, <1>8, <1>9, <1>10, <1>11, <1>12

LEMMA RecordOpGood ==
    ASSUME NEW q, NEW p, Open(q, p), NEW nxt, NEW ir, NEW m, Went(p, nxt, ir, m), NEW y
    PROVE  Advanced(RecordOp(q, p, nxt, ir, m, y), nxt)
<1> DEFINE r == RecordOp(q, p, nxt, ir, m, y)
<1> SUFFICES Advanced(r, nxt)
  OBVIOUS
<1>1. Good(q) /\ q.rec # None /\ ir \in Instr /\ nxt \in Addr
  BY DEF Open, Went
<1>2. Advanced(reject_recording(q), nxt) /\ Advanced(call_retry(q), nxt)
      /\ Advanced(finish_recording(q, p, "blocker"), nxt)
  BY <1>1, RejectGood, CallRetryGood, FinishGood, SettledAdvanced
<1>3. CASE q.rec.type # y
  BY <1>2, <1>3 DEF RecordOp
<1>4. CASE q.rec.type = y /\ q.rec.call /\ ir.k = "bsr"
  <2>1. r = RecordCall(q, p, nxt, ir)
    BY <1>4 DEF RecordOp
  <2> QED BY <1>1, <1>4, <2>1, RecordCallGood DEF Went
<1>5. CASE q.rec.type = y /\ q.rec.call /\ ir.k = "rts"
  <2>1. r = RecordReturn(q, p, nxt, ir)
    BY <1>5 DEF RecordOp
  <2> QED BY <1>1, <1>5, <2>1, RecordReturnGood
<1>6. CASE q.rec.type = y /\ ~(q.rec.call /\ ir.k \in {"bsr", "rts"})
  <2>1. r = IF decode_trace_op(m[p]) # "refused" THEN RecordPlain(q, p, nxt, m[p], m)
            ELSE IF ~q.rec.call /\ ir.k = "bsr" THEN call_retry(q)
            ELSE finish_recording(q, p, "blocker")
    BY <1>6 DEF RecordOp
  <2>2. decode_trace_op(m[p]) # "refused" => Advanced(RecordPlain(q, p, nxt, m[p], m), nxt)
    BY RecordPlainGood
  <2> HIDE DEF r
  <2> QED BY <1>2, <2>1, <2>2
<1> QED BY <1>3, <1>4, <1>5, <1>6

\* The instructions of an if-converted block are in the recording already.
KeepsBlock(q, p, nxt) ==
    q.rec # None /\ q.rec.until # NoPc /\ p < q.rec.until => nxt = After(p)
LEMMA RecordedGood ==
    ASSUME NEW q, NEW p, Advanced(q, p), NEW nxt, NEW ir, NEW m, Went(p, nxt, ir, m), KeepsBlock(q, p, nxt),
           NEW y
    PROVE  Advanced(record_executed(q, p, nxt, ir, m, y), nxt)
<1>1. CASE q.rec = None
  BY <1>1 DEF record_executed, Advanced, Tracked
<1>2. CASE q.rec # None /\ q.rec.until # NoPc /\ p < q.rec.until
  <2>1. record_executed(q, p, nxt, ir, m, y) = q
    BY <1>2 DEF record_executed
  <2>2. InBlock(q.rec, p) /\ nxt = After(p) /\ p \in Addr
    BY <1>2 DEF Advanced, Tracked, KeepsBlock, Went
  <2>3. q.rec.until \in Addr /\ nxt = p + 1
    BY <1>2, <2>2, Addresses DEF InBlock
  <2>4. nxt <= q.rec.until
    BY <1>2, <2>2, <2>3, Addresses
  <2> QED BY <1>2, <2>1, <2>2, <2>4 DEF Advanced, Tracked, InBlock
<1>3. CASE q.rec # None /\ ~(q.rec.until # NoPc /\ p < q.rec.until)
  <2> DEFINE R == [q.rec EXCEPT !.until = NoPc]
             k == [q EXCEPT !.rec.until = NoPc]
  <2>1. record_executed(q, p, nxt, ir, m, y) = RecordOp(k, p, nxt, ir, m, y)
    BY <1>3 DEF record_executed
  <2>2. /\ Good(q) /\ DOMAIN q.rec = RecFields /\ From(q.rec.ops, q.rec.start)
        /\ q.rec.ret \in Addr \cup {NoPc} /\ p \in Addr
    BY <1>3 DEF Advanced, Good, Record, Went
  <2>3. k = [q EXCEPT !.rec = R]
    OBVIOUS
  <2>4. AtEnd(q.rec, p)
    <3>1. CASE q.rec.until = NoPc
      BY <1>3, <3>1 DEF Advanced, Tracked
    <3>2. CASE q.rec.until # NoPc
      <4>1. InBlock(q.rec, p) /\ ~(p < q.rec.until)
        BY <1>3, <3>2 DEF Advanced, Tracked
      <4>2. p = q.rec.until
        <5>1. p \in Nat /\ q.rec.until \in Nat /\ p <= q.rec.until
          BY <4>1, <2>2, Addresses DEF InBlock
        <5> QED BY <4>1, <5>1
      <4> QED BY <4>1, <4>2 DEF InBlock, AtEnd
    <3> QED BY <3>1, <3>2
  <2>5. /\ DOMAIN R = RecFields /\ R.start = q.rec.start /\ R.ret = q.rec.ret /\ R.ops = q.rec.ops
        /\ R.until = NoPc
    BY <2>2 DEF RecFields
  <2> HIDE DEF R, k
  <2>6. Continues(q, R)
    BY <1>3, <2>2, <2>5 DEF Continues
  <2>7. Good(k) /\ k.rec = R /\ R # None
    BY <2>2, <2>3, <2>6, ContinuesGood
  <2>8. Open(k, p)
    BY <2>2, <2>4, <2>5, <2>7 DEF Open, AtEnd
  <2> QED BY <2>1, <2>8, RecordOpGood
<1> QED BY <1>1, <1>2, <1>3

LEMMA TrapGood ==
    ASSUME NEW q, NEW p \in Addr, Advanced(q, p), NEW i \in Instr, i.k = "al",
           ~(q.rec # None /\ q.rec.until # NoPc /\ p < q.rec.until)
    PROVE  Settled(finish_recording_at_trap(q, p, i))
<1>1. Good(q)
  BY DEF Advanced
<1>2. CASE ~AtTrap(q, p)
  <2>1. finish_recording_at_trap(q, p, i) = stop_recording(q, After(p))
    BY <1>2 DEF finish_recording_at_trap
  <2> QED BY <1>1, <2>1, StopGood
<1>3. CASE AtTrap(q, p) /\ TrapProven(q)
  <2> DEFINE o == Op(p, i, "trap", NoPc)
             R == [q.rec EXCEPT !.ops = Append(q.rec.ops, o)]
             k == Append1(q, o)
  <2>1. finish_recording_at_trap(q, p, i) = finish_recording(k, p, "trap")
    BY <1>3 DEF finish_recording_at_trap
  <2>2. q.rec # None /\ q.rec.ops # <<>>
    BY <1>3 DEF AtTrap
  <2>3. /\ DOMAIN q.rec = RecFields /\ From(q.rec.ops, q.rec.start) /\ q.rec.ret \in Addr \cup {NoPc}
    BY <1>1, <2>2 DEF Good, Record
  <2>4. Onwards(Last(q.rec.ops)) /\ p = Onward(Last(q.rec.ops))
    <3>1. CASE q.rec.until = NoPc
      BY <2>2, <3>1 DEF Advanced, Tracked, AtEnd
    <3>2. CASE q.rec.until # NoPc
      <4>1. InBlock(q.rec, p) /\ ~(p < q.rec.until)
        BY <2>2, <3>2 DEF Advanced, Tracked
      <4>2. p = q.rec.until
        <5>1. p \in Nat /\ q.rec.until \in Nat /\ p <= q.rec.until
          BY <4>1, Addresses DEF InBlock
        <5> QED BY <4>1, <5>1
      <4> QED BY <4>1, <4>2 DEF InBlock
    <3> QED BY <3>1, <3>2
  <2>5. Recorded(o) /\ o.top = "trap" /\ o.pc = p
    BY DEF Op, Recorded, OpRec, Tops, Sources
  <2> HIDE DEF o
  <2>6. From(Append(q.rec.ops, o), q.rec.start)
    BY <2>2, <2>3, <2>4, <2>5, PathAppend DEF From
  <2>7. k = [q EXCEPT !.rec = R]
    BY DEF Append1
  <2>8. DOMAIN R = RecFields /\ R.start = q.rec.start /\ R.ret = q.rec.ret /\ R.ops = Append(q.rec.ops, o)
    BY <2>3 DEF RecFields
  <2> HIDE DEF R, k
  <2>9. Continues(q, R)
    BY <2>2, <2>3, <2>6, <2>8 DEF Continues
  <2>10. Good(k) /\ k.rec # None
    BY <1>1, <2>7, <2>9, ContinuesGood
  <2> QED BY <2>1, <2>10, FinishGood
<1>4. CASE AtTrap(q, p) /\ ~TrapProven(q)
  <2> DEFINE s == Counting(q.rec.start, q.rec.type, 0, q.rec.again, q.rec.call, TRUE, FALSE)
             k == SetSlot(q, q.rec.start, s)
  <2>1. finish_recording_at_trap(q, p, i) = [k EXCEPT !.rec = None]
    BY <1>4 DEF finish_recording_at_trap
  <2>2. q.rec.start \in Addr /\ ~is_structurally_rejected(q, q.rec.start)
    BY <1>1, <1>4 DEF AtTrap, Good, Record, Verdicts
  <2>3. Admitted(q, q.rec.start, s)
    BY <2>2, SlotKinds
  <2> HIDE DEF s
  <2>4. Good(k)
    BY <1>1, <2>2, <2>3, SetSlotGood
  <2> HIDE DEF k
  <2> QED BY <2>1, <2>4, Closed DEF Settled
<1> QED BY <1>2, <1>3, <1>4

----------------------------------------------------------------------------
(* Slots of traces that ran *)

LEMMA InvalidateKept ==
    ASSUME NEW q, Good(q), NEW p \in Addr
    PROVE  Kept(q, Invalidate(q, p))
<1> DEFINE a == SetSlot(q, p, Empty)
           b == forget_structural_rejection(a, p)
           c == clear_linear_deferral(b, p)
<1>1. Kept(q, a)
  BY SlotKinds, SetSlotGood DEF Kept
<1> HIDE DEF a
<1>2. Kept(a, b)
  BY <1>1, Pardoned DEF Kept
<1> HIDE DEF b
<1>3. Kept(b, c)
  BY <1>2, Hints, SameKept DEF Kept, Good, Slots
<1> HIDE DEF c
<1>4. Kept(c, rearm_filters(c))
  BY <1>3, RearmKept DEF Kept
<1>5. Invalidate(q, p) = rearm_filters(c)
  BY DEF Invalidate, a, b, c
<1> QED BY <1>1, <1>2, <1>3, <1>4, <1>5 DEF Kept

\* The trace at p gives its slot back, as itself with other counts or as a counter.
LEMMA SlotVerdict ==
    ASSUME NEW q, Good(q), NEW p \in Addr, Slot(q, p).k = "compiled", Slot(q, p).pc = p
    PROVE  Trace(Slot(q, p)) /\ ~is_structurally_rejected(q, p)
  BY Index DEF Good, Slots, Verdicts, Slot, Live

LEMMA RerecordKept ==
    ASSUME NEW q, Good(q), NEW p \in Addr, NEW tr, tr.pc = p, ~is_structurally_rejected(q, p)
    PROVE  Kept(q, Rerecord(q, tr))
<1> DEFINE s == Counting(tr.pc, tr.type, 0, tr.again + 1, has_call_permission(q, tr.pc), FALSE, FALSE)
           k == SetSlot(q, p, s)
<1>1. Admitted(q, p, s)
  BY SlotKinds
<1>2. Rerecord(q, tr) = rearm_filters(k)
  BY DEF Rerecord
<1> HIDE DEF s
<1>3. Kept(q, k)
  BY <1>1, SetSlotGood DEF Kept
<1> HIDE DEF k
<1> QED BY <1>2, <1>3, RearmKept DEF Kept

LEMMA AdaptedKept ==
    ASSUME NEW q, Good(q), NEW p \in Addr, NEW tr, tr = Slot(q, p), tr.k = "compiled", tr.pc = p,
           NEW guarded
    PROVE  Kept(q, SetSlot(q, p, Adapted(tr, guarded)[1]))
<1> DEFINE s == Adapted(tr, guarded)[1]
<1>1. Trace(tr) /\ ~is_structurally_rejected(q, p)
  BY SlotVerdict
<1>2. {"k", "pc", "ops", "spans", "loop"} \subseteq DOMAIN tr
  BY <1>1 DEF Trace
<1>3. s = tr \/ \E c, e : s = [tr EXCEPT !.calls = c, !.exits = e]
  BY DEF Adapted
<1>4. /\ s.k = tr.k /\ s.pc = tr.pc /\ s.ops = tr.ops /\ s.spans = tr.spans /\ s.loop = tr.loop
      /\ DOMAIN s = DOMAIN tr
  <2> HIDE DEF s
  <2> QED BY <1>2, <1>3
<1> HIDE DEF s
<1>5. Trace(s)
  BY <1>1, <1>2, <1>4 DEF Trace
<1>6. Admitted(q, p, s)
  BY <1>1, <1>4, <1>5 DEF Admitted, Live
<1> QED BY <1>6, SetSlotGood DEF Kept, s

----------------------------------------------------------------------------
(* The loop: what is asked of the host *)

Here == ph \in {"loop", "interp", "disp"}
Tr == Slot(j, x.head)

\* What the host and the guest must grant; each names a case in which the code
\* departs from the contract.  No handler is entered by a faulting fetch while a
\* recording is open or while the handler is watched
CodeFetched == Here /\ mem[pc].k = "bad" => j.rec = None /\ Vector \notin watch
\* a block that was just if-converted is not rewritten before the guest is through
BlockKept ==
    Here /\ j.rec # None /\ j.rec.until # NoPc /\ pc < j.rec.until => is_if_convertible_block_op(mem[pc])
\* a traced jsr does not push onto the code of its own trace
CallsOutside == ph = "trace" /\ Tr.ops[x.i].top = "jsr" => Before(cpu.sp) \notin Tr.spans
\* and a trace without a terminal leaves the guest where its last operation goes
Ordinary == CodeFetched /\ BlockKept /\ CallsOutside /\ LinkExit

----------------------------------------------------------------------------
(* The invariant of the loop *)

Types ==
    /\ pc \in Addr /\ cpu \in Cpus /\ mem \in [Addr -> Instr] /\ left \in Nat
    /\ fresh \in BOOLEAN /\ watch \subseteq Addr /\ ph \in Phases /\ probe \in BOOLEAN
    /\ exit \in {"none", "budget", "watched", "al", "tr"} /\ resume \in Addr \cup {NoPc}
RunFields == {"head", "i", "full", "max", "ran", "single", "chain", "how"}
RunTypes == DOMAIN x = RunFields /\ x.ran \in BOOLEAN
\* A trace is run from its slot, and no recording is open meanwhile
Running ==
    ph \in {"trace", "leave"} =>
        /\ j.rec = None /\ x.head \in Addr /\ Tr.k = "compiled" /\ Tr.pc = x.head
        /\ x.i \in 1..Len(Tr.ops) /\ x.chain \in 0..TRACE_EXIT_CHAIN_BUDGET
        /\ x.ran => ~fresh
        /\ x.chain # TRACE_EXIT_CHAIN_BUDGET => ~fresh
\* Its operations are memory's, none of them is to be reported, and the budget
\* covers the rest of this iteration and the whole of those to come
Covered == left >= (x.max - x.full - 1) * Len(Tr.ops) + (Len(Tr.ops) - x.i + 1)
Inside ==
    ph = "trace" =>
        /\ \A n \in 1..Len(Tr.ops) : mem[Tr.ops[n].pc] = Tr.ops[n].ins
        /\ \A n \in 2..Len(Tr.ops) : Tr.ops[n].pc \notin watch
        /\ x.i = 1 /\ x.head \in watch => fresh
        /\ x.max \in Nat /\ x.full \in Nat /\ x.full < x.max
        /\ x.max > 1 => Tr.loop /\ x.head \notin watch
        /\ Covered
        /\ ~x.ran => x.i = 1
\* Outside a trace a watched PC that is to be reported is never executed, and an
\* open recording ends where the guest is
Outside ==
    /\ Here => (pc \in watch => fresh)
    /\ ph \in {"interp", "disp"} => left > 0
    /\ ph \in {"chain", "ran", "watched"} => ~fresh
    /\ ph \in {"chain", "host"} => j.rec = None
    /\ ph = "chain" => pc \notin watch /\ x.chain \in 0..(TRACE_EXIT_CHAIN_BUDGET - 1)
    /\ ph = "watched" => pc \in watch
    /\ ph = "ran" => j.rec = None \/ pc \notin watch
    /\ ph = "leave" /\ ~x.ran => left > 0 /\ (pc \in watch => fresh)
    /\ Here \/ ph \in {"watched", "ran"} => Tracked(j, pc)
IInv == Types /\ RunTypes /\ Good(j) /\ Running /\ Inside /\ Outside
Invs == IInv /\ Ordinary

----------------------------------------------------------------------------
(* The guest *)

LEMMA GuestTypes ==
    ASSUME NEW i \in Instr, NEW p \in Addr, NEW c \in Cpus, NEW m \in [Addr -> Instr]
    PROVE  Target(i, p, c, m) \in Addr /\ Registers(i, p, c, m) \in Cpus /\ Stored(i, p, c, m) \in [Addr -> Instr]
<1>1. /\ i.k \in Kinds /\ i.t \in Addr /\ c.sp \in Addr /\ m[c.sp] \in Instr /\ m[c.sp].t \in Addr
      /\ Vector \in Addr /\ Before(c.sp) \in Addr /\ After(c.sp) \in Addr /\ After(p) \in Addr
      /\ c.r \in 0..(Regs - 1) /\ c.f \in BOOLEAN /\ c.type \in CpuTypes
  BY GuestAssumption, Addresses DEF Instr, Cpus
<1>2. MaxAddr \in Nat /\ Regs \in Nat \ {0} /\ CpuTypes \subseteq Nat /\ i.t \in Nat /\ c.r \in Nat /\ c.type \in Nat
  <2>1. MaxAddr \in Nat /\ Regs \in Nat \ {0} /\ CpuTypes \subseteq Nat
    BY GuestAssumption
  <2>2. i.t \in Nat
    BY <1>1, Addresses
  <2>3. c.r \in Nat
    <3>1. c.r \in 0..(Regs - 1)
      BY <1>1
    <3>2. Regs \in Nat
      BY <2>1
    <3> QED BY <3>1, <3>2
  <2>4. c.type \in Nat
    BY <1>1, <2>1
  <2> QED BY <2>1, <2>2, <2>3, <2>4
<1>3. (i.t + c.r) % (MaxAddr + 1) \in Addr
  BY <1>2 DEF Addr
<1>4. (c.r + c.type) % Regs \in 0..(Regs - 1)
  BY <1>2
<1>5. Target(i, p, c, m) \in Addr
  BY <1>1, <1>3 DEF Target
<1>6. \A v \in 0..(Regs - 1), s \in Addr, f \in BOOLEAN :
         /\ [c EXCEPT !.r = v, !.f = f] \in Cpus /\ [c EXCEPT !.r = v] \in Cpus
         /\ [c EXCEPT !.f = f] \in Cpus /\ [c EXCEPT !.sp = s] \in Cpus
  BY DEF Cpus
<1>7. Registers(i, p, c, m) \in Cpus
  <2>1. CASE i.k = "op"
    BY <2>1, <1>4, <1>6 DEF Registers
  <2>2. CASE i.k = "cx"
    <3>1. 0 \in 0..(Regs - 1)
      BY <1>2
    <3> QED BY <2>2, <3>1, <1>6 DEF Registers
  <2>3. CASE i.k = "cmpm"
    <3> DEFINE f == m[i.t].k # "op"
    <3>1. Registers(i, p, c, m) = [c EXCEPT !.f = f]
      BY <2>3 DEF Registers
    <3>2. f \in BOOLEAN
      OBVIOUS
    <3> HIDE DEF f
    <3>3. 0 \in 0..(Regs - 1) /\ c.sp \in Addr
      BY <1>1, <1>2
    <3> QED BY <1>6, <3>1, <3>2, <3>3
  <2>4. CASE i.k = "dbcc"
    <3>1. (IF c.r = 0 THEN 0 ELSE c.r - 1) \in 0..(Regs - 1)
      BY <1>1, <1>2
    <3> QED BY <2>4, <3>1, <1>6 DEF Registers
  <2>5. CASE i.k \in {"jsr", "bsr", "flt", "bad", "rts"}
    BY <2>5, <1>1, <1>6 DEF Registers
  <2>6. CASE i.k \notin {"op", "cx", "cmpm", "dbcc", "jsr", "bsr", "flt", "bad", "rts"}
    BY <2>6 DEF Registers
  <2> QED BY <2>1, <2>2, <2>3, <2>4, <2>5, <2>6
<1>8. Stored(i, p, c, m) \in [Addr -> Instr]
  <2>1. Written[c.r] \in Instr
    BY <1>1, GuestAssumption
  <2>2. ReturnWord(After(p)) \in Instr
    BY <1>1 DEF ReturnWord, Instr, Kinds
  <2> QED BY <1>1, <2>1, <2>2 DEF Stored
<1> QED BY <1>5, <1>7, <1>8

\* Control goes from a conditional branch to one of its two successors, though the
\* instruction be rewritten by its own execution.
LEMMA GuestWent ==
    ASSUME NEW p \in Addr, NEW c \in Cpus, NEW m \in [Addr -> Instr], m[p].k # "bad"
    PROVE  Went(p, Target(m[p], p, c, m), m[p], Stored(m[p], p, c, m))
<1> DEFINE i == m[p]
           n == Stored(i, p, c, m)
           to == Target(i, p, c, m)
<1>1. i \in Instr /\ to \in Addr /\ n \in [Addr -> Instr]
  BY GuestTypes
<1>2. i.k = "bsr" => to = i.t
  BY DEF Target
<1>3. ASSUME n[p].k = "bcc" PROVE to \in {n[p].t, After(p)}
  <2>1. CASE i.k = "st"
    BY <2>1 DEF Target
  <2>2. CASE i.k \in {"jsr", "bsr", "flt", "bad"}
    <3>1. n = [m EXCEPT ![Before(c.sp)] = ReturnWord(After(p))]
      BY <2>2 DEF Stored
    <3>2. n[p] = i \/ n[p] = ReturnWord(After(p))
      <4> HIDE DEF n
      <4> QED BY <3>1
    <3> QED BY <1>3, <2>2, <3>2 DEF ReturnWord
  <2>3. CASE i.k \notin {"st", "jsr", "bsr", "flt", "bad"}
    <3>1. n = m
      BY <2>3 DEF Stored
    <3>2. i.k = "bcc"
      BY <1>3, <3>1
    <3> QED BY <3>1, <3>2 DEF Target
  <2> QED BY <2>1, <2>2, <2>3
<1> HIDE DEF i, n, to
<1> QED BY <1>1, <1>2, <1>3 DEF Went, i, n, to

LEMMA PlainTarget ==
    ASSUME NEW i, i.k \in {"op", "st", "cmpm", "cx", "al", "tr"}, NEW p, NEW c, NEW m
    PROVE  Target(i, p, c, m) = After(p)
  BY DEF Target

----------------------------------------------------------------------------
(* The steps outside a trace *)

LEMMA InitialInv == Init => IInv
<1> SUFFICES ASSUME Init PROVE IInv
  OBVIOUS
<1>1. PICK b \in Boots, y \in CpuTypes :
        mem = b.mem /\ pc = b.pc /\ cpu = [r |-> 0, f |-> FALSE, sp |-> b.sp, type |-> y]
  BY DEF Init
<1>2. left = 0 /\ fresh = TRUE /\ watch = {} /\ exit = "none" /\ ph = "host" /\ probe = FALSE
      /\ x = NoRun /\ j = NoTraces /\ resume = NoPc
  BY DEF Init
<1>3. 0 \in 0..(Regs - 1)
  BY GuestAssumption
<1>4. Types
  BY <1>1, <1>2, <1>3, BootsAssumption DEF Types, Cpus, Phases
<1>5. RunTypes
  BY <1>2 DEF RunTypes, NoRun, RunFields
<1>6. Good(j)
  <2>1. DOMAIN j = CacheFields /\ j.rec = None /\ j.slots = [n \in Indexes |-> Empty]
        /\ j.struct = [n \in Indexes |-> <<NoPc, NoPc>>]
    BY <1>2 DEF NoTraces, CacheFields, Indexes
  <2>2. Slots(j)
    BY <2>1 DEF Slots, Empty
  <2>3. \A p \in Addr : ~is_structurally_rejected(j, p)
    BY <2>1, Index, Addresses DEF is_structurally_rejected, Has
  <2> QED BY <2>1, <2>2, <2>3 DEF Good, Record, Verdicts
<1>7. Running /\ Inside /\ Outside
  <2>1. j.rec = None
    BY <1>2 DEF NoTraces
  <2> QED BY <1>2, <2>1 DEF Running, Inside, Outside, Here
<1> QED BY <1>4, <1>5, <1>6, <1>7 DEF IInv

\* The call returns with no recording open.
LEMMA HostLeaves ==
    ASSUME IInv, NEW how \in {"budget", "watched", "al", "tr"}, Leaves(how),
           pc' \in Addr, cpu' = cpu, mem' = mem, x' = x, resume' \in Addr \cup {NoPc}, Settled(j')
    PROVE  IInv'
<1>1. ph' = "host" /\ exit' = how /\ left' = 0 /\ fresh' = TRUE /\ watch' = {} /\ probe' = FALSE
  BY DEF Leaves
<1>2. Types'
  BY <1>1 DEF IInv, Types, Phases
<1>3. RunTypes'
  BY DEF IInv, RunTypes
<1>4. Good(j') /\ j'.rec = None
  BY DEF Settled
<1>5. Running' /\ Inside' /\ Outside'
  BY <1>1, <1>4 DEF Running, Inside, Outside, Here
<1> QED BY <1>2, <1>3, <1>4, <1>5 DEF IInv

\* An instruction was retired outside a trace.
LEMMA LoopTurn ==
    ASSUME IInv, NEW q, NEW again \in BOOLEAN, Advanced(q, pc'), Iterated(q, again),
           pc' \in Addr, cpu' \in Cpus, mem' \in [Addr -> Instr], left' \in Nat, fresh' = FALSE,
           UNCHANGED <<call, x>>
    PROVE  IInv'
<1>1. /\ j' = q /\ probe' = again /\ exit' = exit /\ watch' = watch /\ resume' = resume /\ x' = x
      /\ ph' = IF pc' \in watch THEN "watched" ELSE "loop"
  BY DEF Iterated, call
<1>2. Types'
  BY <1>1 DEF IInv, Types, Phases
<1>3. RunTypes'
  BY <1>1 DEF IInv, RunTypes
<1>4. Good(j') /\ Tracked(j', pc')
  BY <1>1 DEF Advanced
<1>5. Running' /\ Inside' /\ Outside'
  BY <1>1, <1>4 DEF Running, Inside, Outside, Here
<1> QED BY <1>2, <1>3, <1>4, <1>5 DEF IInv

LEMMA StepHost == IInv /\ Host => IInv'
<1> SUFFICES ASSUME IInv, Host PROVE IInv'
  OBVIOUS
<1>1. ASSUME NEW p \in Patches, HostPatch(p) PROVE IInv'
  <2>1. p[1] \in Addr /\ p[2] \in Instr
    BY GuestAssumption
  <2>2. /\ ph = "host" /\ mem' = [mem EXCEPT ![p[1]] = p[2]]
        /\ pc' = pc /\ cpu' = cpu /\ left' = left /\ fresh' = fresh /\ watch' = watch /\ exit' = exit
        /\ ph' = ph /\ env' = env /\ probe' = probe /\ x' = x /\ j' = j /\ resume' = resume
    BY <1>1 DEF HostPatch
  <2>3. Types'
    BY <2>1, <2>2 DEF IInv, Types
  <2> QED BY <2>2, <2>3 DEF IInv, RunTypes, Running, Inside, Outside, Here
<1>2. ASSUME NEW y \in NewerTypes(cpu), SetCpuType(y) PROVE IInv'
  <2>1. y \in CpuTypes
    BY DEF NewerTypes
  <2>2. /\ ph = "host" /\ cpu' = [cpu EXCEPT !.type = y]
        /\ pc' = pc /\ mem' = mem /\ left' = left /\ fresh' = fresh /\ watch' = watch /\ exit' = exit
        /\ ph' = ph /\ env' = env /\ probe' = probe /\ x' = x /\ j' = j /\ resume' = resume
    BY <1>2 DEF SetCpuType
  <2>3. cpu' \in Cpus
    BY <2>1, <2>2 DEF IInv, Types, Cpus
  <2>4. Types'
    BY <2>2, <2>3 DEF IInv, Types
  <2> QED BY <2>2, <2>4 DEF IInv, RunTypes, Running, Inside, Outside, Here
<1>3. ASSUME NEW c \in Calls, NEW n \in Envs, NEW e \in Entries \cup {[pc |-> pc, sp |-> cpu.sp]},
             RunBatch(c, e, n)
      PROVE  IInv'
  <2> DEFINE q == IF n.win # {} THEN rearm_filters(j) ELSE j
  <2>1. c.max \in Nat /\ c.watch \subseteq Addr
    BY CallsAssumption
  <2>2. e.pc \in Addr /\ e.sp \in Addr
    <3>1. CASE e \in Entries
      BY <3>1, GuestAssumption
    <3>2. CASE e = [pc |-> pc, sp |-> cpu.sp]
      BY <3>2 DEF IInv, Types, Cpus
    <3> QED BY <3>1, <3>2
  <2>3. /\ ph = "host" /\ ph' = "loop" /\ probe' = TRUE
        /\ pc' = e.pc /\ cpu' = [cpu EXCEPT !.sp = e.sp]
        /\ left' = c.max /\ watch' = c.watch /\ fresh' = TRUE
        /\ j' \in {record_trace_target(q, e.pc, cpu.type), q}
        /\ resume' = NoPc /\ exit' = "none" /\ mem' = mem /\ x' = x
    BY <1>3 DEF RunBatch
  <2>4. cpu' \in Cpus
    BY <2>2, <2>3 DEF IInv, Types, Cpus
  <2>5. Types'
    BY <2>1, <2>2, <2>3, <2>4 DEF IInv, Types, Phases
  <2>6. Kept(j, q)
    BY RearmKept DEF IInv, Kept
  <2> HIDE DEF q
  <2>7. Good(j') /\ j'.rec = None
    <3>1. j.rec = None
      BY <2>3 DEF IInv, Outside
    <3>2. Kept(q, record_trace_target(q, e.pc, cpu.type))
      BY <2>2, <2>6, TargetKept DEF Kept
    <3> QED BY <2>3, <2>6, <3>1, <3>2 DEF Kept
  <2>8. Running' /\ Inside' /\ Outside'
    BY <2>3, <2>7 DEF Running, Inside, Outside, Here, Tracked
  <2> QED BY <2>3, <2>5, <2>7, <2>8 DEF IInv, RunTypes
<1> QED BY <1>1, <1>2, <1>3 DEF Host

LEMMA StepLeaves ==
    IInv /\ Ordinary /\ (BudgetExhausted \/ RanWatched \/ WatchedPc \/ AlineTrap \/ OtherTrap) => IInv'
<1> SUFFICES ASSUME IInv, Ordinary, BudgetExhausted \/ RanWatched \/ WatchedPc \/ AlineTrap \/ OtherTrap
             PROVE  IInv'
  OBVIOUS
<1>1. Good(j) /\ pc \in Addr /\ After(pc) \in Addr /\ resume \in Addr \cup {NoPc}
      /\ mem \in [Addr -> Instr] /\ mem[pc] \in Instr
  BY Addresses DEF IInv, Types
<1>2. CASE BudgetExhausted
  <2>1. j' = stop_recording(j, pc) /\ Leaves("budget") /\ pc' = pc /\ cpu' = cpu /\ mem' = mem
        /\ x' = x /\ resume' = resume
    BY <1>2 DEF BudgetExhausted
  <2>2. Settled(j')
    BY <1>1, <2>1, StopGood
  <2> QED BY <1>1, <2>1, <2>2, HostLeaves
<1>3. CASE RanWatched
  <2>1. ph = "ran" /\ pc \in watch /\ Leaves("watched") /\ pc' = pc /\ cpu' = cpu /\ mem' = mem
        /\ x' = x /\ resume' = resume /\ j' = j
    BY <1>3 DEF RanWatched
  <2>2. Settled(j')
    BY <1>1, <2>1 DEF IInv, Outside, Settled
  <2> QED BY <1>1, <2>1, <2>2, HostLeaves
<1>4. CASE WatchedPc
  <2>1. j' = stop_recording(j, pc) /\ Leaves("watched") /\ pc' = pc /\ cpu' = cpu /\ mem' = mem
        /\ x' = x /\ resume' = resume
    BY <1>4 DEF WatchedPc
  <2>2. Settled(j')
    BY <1>1, <2>1, StopGood
  <2> QED BY <1>1, <2>1, <2>2, HostLeaves
<1>5. CASE AlineTrap
  <2>1. /\ Dispatching /\ mem[pc].k = "al" /\ pc' = After(pc)
        /\ j' = finish_recording_at_trap(j, pc, mem[pc])
        /\ resume' \in {After(pc), resume}
        /\ Leaves("al") /\ cpu' = cpu /\ mem' = mem /\ x' = x
    BY <1>5 DEF AlineTrap
  <2>2. Here
    BY <2>1 DEF Dispatching, Here
  <2>3. Advanced(j, pc)
    BY <2>2 DEF IInv, Outside, Advanced
  <2>4. ~(j.rec # None /\ j.rec.until # NoPc /\ pc < j.rec.until)
    BY <2>1, <2>2 DEF Ordinary, BlockKept, is_if_convertible_block_op
  <2>5. Settled(j')
    BY <1>1, <2>1, <2>3, <2>4, TrapGood
  <2> QED BY <1>1, <2>1, <2>5, HostLeaves
<1>6. CASE OtherTrap
  <2>1. j' = stop_recording(j, After(pc)) /\ Leaves("tr") /\ pc' = After(pc) /\ cpu' = cpu /\ mem' = mem
        /\ x' = x /\ resume' = resume
    BY <1>6 DEF OtherTrap
  <2>2. Settled(j')
    BY <1>1, <2>1, StopGood
  <2> QED BY <1>1, <2>1, <2>2, HostLeaves
<1> QED BY <1>2, <1>3, <1>4, <1>5, <1>6

\* An instruction executed outside a trace, recorded and counted.
LEMMA Executed ==
    ASSUME IInv, Ordinary, Here, left > 0, mem[pc].k # "bad", Executes(mem[pc])
    PROVE  /\ pc' \in Addr /\ cpu' \in Cpus /\ mem' \in [Addr -> Instr] /\ left' \in Nat /\ fresh' = FALSE
           /\ Advanced(record_executed(j, pc, pc', mem[pc], mem', cpu.type), pc')
           /\ \A q : Advanced(q, pc') => Advanced(note_backward_branch(q, pc', cpu.type)[1], pc')
<1>1. Good(j) /\ pc \in Addr /\ mem \in [Addr -> Instr] /\ cpu \in Cpus /\ mem[pc] \in Instr
      /\ left \in Nat /\ Tracked(j, pc)
  BY DEF IInv, Types, Outside
<1>2. /\ pc' = Target(mem[pc], pc, cpu, mem) /\ cpu' = Registers(mem[pc], pc, cpu, mem)
      /\ mem' = Stored(mem[pc], pc, cpu, mem) /\ left' = left - 1 /\ fresh' = FALSE
  BY DEF Executes
<1>3. pc' \in Addr /\ cpu' \in Cpus /\ mem' \in [Addr -> Instr]
  BY <1>1, <1>2, GuestTypes
<1>4. Went(pc, pc', mem[pc], mem')
  BY <1>1, <1>2, GuestWent
<1>5. KeepsBlock(j, pc, pc')
  <2>1. j.rec # None /\ j.rec.until # NoPc /\ pc < j.rec.until => mem[pc].k \in {"op", "st", "cmpm"}
    BY DEF Ordinary, BlockKept, is_if_convertible_block_op
  <2>2. mem[pc].k \in {"op", "st", "cmpm"} => pc' = After(pc)
    BY <1>2, PlainTarget
  <2> QED BY <2>1, <2>2 DEF KeepsBlock
<1>6. Advanced(record_executed(j, pc, pc', mem[pc], mem', cpu.type), pc')
  <2>1. Advanced(j, pc)
    BY <1>1 DEF Advanced
  <2> QED BY <1>4, <1>5, <2>1, RecordedGood
<1>7. ASSUME NEW q, Advanced(q, pc') PROVE Advanced(note_backward_branch(q, pc', cpu.type)[1], pc')
  <2>1. Kept(q, note_backward_branch(q, pc', cpu.type)[1])
    BY <1>3, <1>7, BackwardKept DEF Advanced
  <2> QED BY <1>7, <2>1, KeptTracked DEF Advanced, Kept
<1> QED BY <1>1, <1>2, <1>3, <1>6, <1>7

LEMMA BackwardProbe == \A q, p, y : note_backward_branch(q, p, y)[2] \in BOOLEAN
  BY DEF note_backward_branch

LEMMA StepExecutes ==
    IInv /\ Ordinary /\ (DecodedOp \/ Dispatch \/ DispatchFault) => IInv'
<1> SUFFICES ASSUME IInv, Ordinary, DecodedOp \/ Dispatch \/ DispatchFault
             PROVE  IInv'
  OBVIOUS
<1> DEFINE q == record_executed(j, pc, pc', mem[pc], mem', cpu.type)
           back == note_backward_branch(q, pc', cpu.type)
<1>1. probe \in BOOLEAN /\ left \in Nat
  BY DEF IInv, Types
<1>2. CASE DecodedOp \/ Dispatch
  <2>1. /\ Here /\ left > 0 /\ mem[pc].k # "bad" /\ Executes(mem[pc]) /\ UNCHANGED <<call, x>>
        /\ \E b \in {back, <<q, probe>>, <<q, FALSE>>} : Iterated(b[1], b[2])
    <3>1. CASE DecodedOp
      <4>1. Here /\ left > 0
        BY <3>1 DEF DecodedOp, Decoding, Here, IInv, Outside
      <4>2. mem[pc].k # "bad" /\ Executes(mem[pc]) /\ UNCHANGED <<call, x>>
        BY <3>1 DEF DecodedOp, Simple, MemOp
      <4>3. \E b \in {back, <<q, probe>>} : Iterated(b[1], b[2])
        <5>1. \E z \in {q} : \E b \in {IF Transfers(mem[pc]) /\ pc' <= pc
                                      THEN note_backward_branch(z, pc', cpu.type)
                                      ELSE <<z, probe>>} : Iterated(b[1], b[2])
          BY <3>1 DEF DecodedOp
        <5> HIDE DEF q
        <5> QED BY <5>1
      <4> QED BY <4>1, <4>2, <4>3
    <3>2. CASE Dispatch
      <4>1. Here /\ left > 0
        BY <3>2 DEF Dispatch, Dispatching, Here, IInv, Outside
      <4>2. mem[pc].k # "bad" /\ Executes(mem[pc]) /\ UNCHANGED <<call, x>>
        BY <3>2 DEF Dispatch
      <4>3. \E b \in {back, <<q, FALSE>>} : Iterated(b[1], b[2])
        <5>1. \E z \in {q} : \E b \in {IF Transfers(mem[pc]) /\ pc' <= pc
                                      THEN note_backward_branch(z, pc', cpu.type)
                                      ELSE <<z, FALSE>>} : Iterated(b[1], b[2])
          BY <3>2 DEF Dispatch
        <5> HIDE DEF q
        <5> QED BY <5>1
      <4> QED BY <4>1, <4>2, <4>3
    <3> QED BY <1>2, <3>1, <3>2
  <2>2. /\ pc' \in Addr /\ cpu' \in Cpus /\ mem' \in [Addr -> Instr] /\ left' \in Nat /\ fresh' = FALSE
        /\ Advanced(q, pc')
        /\ \A z : Advanced(z, pc') => Advanced(note_backward_branch(z, pc', cpu.type)[1], pc')
    BY <2>1, Executed
  <2>3. Advanced(back[1], pc') /\ back[2] \in BOOLEAN
    BY <2>2, BackwardProbe
  <2> HIDE DEF q, back
  <2>4. PICK b \in {back, <<q, probe>>, <<q, FALSE>>} : Iterated(b[1], b[2])
    BY <2>1
  <2>5. Advanced(b[1], pc') /\ b[2] \in BOOLEAN
    <3>1. CASE b = back
      BY <2>3, <3>1
    <3>2. CASE b = <<q, probe>>
      <4>1. b[1] = q /\ b[2] = probe
        BY <3>2
      <4> QED BY <4>1, <1>1, <2>2
    <3>3. CASE b = <<q, FALSE>>
      BY <2>2, <3>3
    <3> QED BY <2>4, <3>1, <3>2, <3>3
  <2>6. CASE b[2] = TRUE
    <3>1. Iterated(b[1], TRUE)
      BY <2>4, <2>6
    <3> QED BY <2>1, <2>2, <2>5, <3>1, LoopTurn
  <2>7. CASE b[2] = FALSE
    <3>1. Iterated(b[1], FALSE)
      BY <2>4, <2>7
    <3> QED BY <2>1, <2>2, <2>5, <3>1, LoopTurn
  <2> QED BY <2>5, <2>6, <2>7
<1>3. CASE DispatchFault
  <2>1. /\ Here /\ left > 0 /\ mem[pc].k # "bad" /\ Executes(mem[pc]) /\ UNCHANGED <<call, x>>
        /\ Iterated(stop_recording(j, Vector), TRUE)
    BY <1>3 DEF DispatchFault, Dispatching, Here, IInv, Outside
  <2>2. /\ pc' \in Addr /\ cpu' \in Cpus /\ mem' \in [Addr -> Instr] /\ left' \in Nat /\ fresh' = FALSE
    BY <2>1, Executed
  <2>3. Advanced(stop_recording(j, Vector), pc')
    BY StopGood, SettledAdvanced DEF IInv
  <2> QED BY <2>1, <2>2, <2>3, LoopTurn
<1> QED BY <1>2, <1>3

LEMMA StepLoop ==
    IInv /\ Ordinary /\ (RanOn \/ DecodedMiss \/ FetchFault) => IInv'
<1> SUFFICES ASSUME IInv, Ordinary, RanOn \/ DecodedMiss \/ FetchFault
             PROVE  IInv'
  OBVIOUS
<1>1. /\ pc \in Addr /\ cpu \in Cpus /\ mem \in [Addr -> Instr] /\ left \in Nat
      /\ fresh \in BOOLEAN /\ watch \subseteq Addr /\ probe \in BOOLEAN
      /\ exit \in {"none", "budget", "watched", "al", "tr"} /\ resume \in Addr \cup {NoPc}
      /\ RunTypes /\ Good(j)
  BY DEF IInv, Types
<1>2. CASE RanOn
  <2>1. /\ ph = "ran" /\ pc \notin watch /\ probe' = TRUE /\ ph' = "loop"
        /\ pc' = pc /\ cpu' = cpu /\ mem' = mem /\ left' = left /\ fresh' = fresh
        /\ x' = x /\ j' = j /\ watch' = watch /\ resume' = resume /\ exit' = exit
    BY <1>2 DEF RanOn, guest, call
  <2>2. Types'
    BY <1>1, <2>1 DEF Types, Phases
  <2>3. Tracked(j, pc)
    BY <2>1 DEF IInv, Outside
  <2>4. Running' /\ Inside' /\ Outside'
    BY <2>1, <2>3 DEF Running, Inside, Outside, Here
  <2> QED BY <1>1, <2>1, <2>2, <2>4 DEF IInv, RunTypes
<1>3. CASE DecodedMiss
  <2>1. /\ Decoding /\ ph' = "disp" /\ j' \in {stop_recording(j, After(pc)), j}
        /\ pc' = pc /\ cpu' = cpu /\ mem' = mem /\ left' = left /\ fresh' = fresh
        /\ x' = x /\ watch' = watch /\ resume' = resume /\ exit' = exit /\ probe' = probe
    BY <1>3 DEF DecodedMiss, guest, call
  <2>2. Types'
    BY <1>1, <2>1 DEF Types, Phases
  <2>3. Here /\ left > 0
    BY <2>1 DEF Decoding, Here, IInv, Outside
  <2>4. Advanced(j', pc)
    <3>1. Advanced(j, pc)
      BY <1>1, <2>3 DEF IInv, Outside, Advanced
    <3>2. Advanced(stop_recording(j, After(pc)), pc)
      BY <1>1, StopGood, SettledAdvanced
    <3> QED BY <2>1, <3>1, <3>2
  <2>5. pc \in watch => fresh
    BY <2>3 DEF IInv, Outside
  <2>6. Running' /\ Inside' /\ Outside'
    BY <2>1, <2>3, <2>4, <2>5 DEF Running, Inside, Outside, Here, Advanced
  <2> QED BY <1>1, <2>1, <2>2, <2>4, <2>6 DEF IInv, RunTypes, Advanced
<1>4. CASE FetchFault
  <2>1. /\ Here /\ mem[pc].k = "bad"
        /\ pc' = Vector /\ cpu' = Registers(mem[pc], pc, cpu, mem) /\ mem' = Stored(mem[pc], pc, cpu, mem)
        /\ ph' = "loop" /\ probe' = TRUE
        /\ left' = left /\ fresh' = fresh /\ watch' = watch /\ resume' = resume /\ exit' = exit
        /\ x' = x /\ j' = j
    BY <1>4 DEF FetchFault, Decoding, Dispatching, Here, call
  <2>2. cpu' \in Cpus /\ mem' \in [Addr -> Instr] /\ pc' \in Addr
    BY <1>1, <2>1, GuestTypes, GuestAssumption
  <2>3. Types'
    BY <1>1, <2>1, <2>2 DEF Types, Phases
  <2>4. j.rec = None /\ Vector \notin watch
    BY <2>1 DEF Ordinary, CodeFetched
  <2>5. Running' /\ Inside' /\ Outside'
    BY <2>1, <2>4 DEF Running, Inside, Outside, Here, Tracked
  <2> QED BY <1>1, <2>1, <2>3, <2>5 DEF IInv, RunTypes
<1> QED BY <1>2, <1>3, <1>4

----------------------------------------------------------------------------
(* The probe *)

\* A trace whose operations are not all in memory has a first stale one.
LEMMA FirstStaleIs ==
    ASSUME NEW ops, Len(ops) \in Nat, FirstStale(ops) = 0
    PROVE  \A n \in 1..Len(ops) : mem[ops[n].pc] = ops[n].ins
<1> DEFINE L == Len(ops)
<1> SUFFICES ASSUME ~(\A n \in 1..L : mem[ops[n].pc] = ops[n].ins) PROVE FALSE
  OBVIOUS
<1> DEFINE T == {n \in 1..L : mem[ops[n].pc] # ops[n].ins}
<1>1. T \in SUBSET Nat /\ T # {}
  OBVIOUS
<1>2. PICK a \in T : \A b \in T : a <= b
  <2> HIDE DEF T
  <2> QED BY <1>1, Least
<1>3. \A m \in 1..(a - 1) : mem[ops[m].pc] = ops[m].ins
  <2> SUFFICES ASSUME NEW m \in 1..(a - 1), mem[ops[m].pc] # ops[m].ins PROVE FALSE
    OBVIOUS
  <2>1. m \in T
    OBVIOUS
  <2>2. a <= m
    <3> HIDE DEF T
    <3> QED BY <1>2, <2>1
  <2> QED BY <2>2
<1>4. \E n \in 1..L : mem[ops[n].pc] # ops[n].ins /\ \A m \in 1..(n - 1) : mem[ops[m].pc] = ops[m].ins
  BY <1>3
<1>5. FirstStale(ops) = CHOOSE n \in 1..L : /\ mem[ops[n].pc] # ops[n].ins
                                            /\ \A m \in 1..(n - 1) : mem[ops[m].pc] = ops[m].ins
  BY DEF FirstStale
<1>6. FirstStale(ops) \in 1..L
  BY <1>4, <1>5, Zenon
<1> QED BY <1>6

LEMMA Iterations ==
    ASSUME NEW a \in Nat, NEW b \in Nat \ {0}, a >= b
    PROVE  a \div b \in Nat /\ 0 < a \div b /\ a >= (a \div b) * b
  OBVIOUS

LEMMA Outcomes ==
    /\ ProbeOutcome \in {"none", "candidate", "skip", "enter", "miss", "stale"}
    /\ ProbeOutcome # "none" => j.rec = None /\ left # 0
    /\ ProbeOutcome = "enter" =>
         /\ compiled_head_at(j, pc, cpu.type) /\ ~WatchedInside(Slot(j, pc))
         /\ FirstStale(Slot(j, pc).ops) = 0 /\ Fits(Slot(j, pc))
<1> DEFINE tr == Slot(j, pc)
<1>1. CASE NoProbe
  BY <1>1 DEF ProbeOutcome
<1>2. CASE ~NoProbe /\ ~compiled_head_at(j, pc, cpu.type)
  <2>1. ProbeOutcome = "candidate"
    BY <1>2 DEF ProbeOutcome
  <2> QED BY <1>2, <2>1 DEF NoProbe
<1>3. CASE ~NoProbe /\ compiled_head_at(j, pc, cpu.type)
  <2>1. ProbeOutcome =
            IF WatchedInside(tr) THEN "none"
            ELSE IF tr.window /\ env.win = {} THEN "skip"
            ELSE CASE FirstStale(tr.ops) = 0 -> IF Fits(tr) THEN "enter" ELSE "none"
                   [] FirstStale(tr.ops) # 0 ->
                        IF mem[tr.ops[FirstStale(tr.ops)].pc].k = "bad" THEN "none"
                        ELSE IF FirstStale(tr.ops) = 1 THEN "miss" ELSE "stale"
    BY <1>3 DEF ProbeOutcome
  <2> HIDE DEF tr
  <2>2. ProbeOutcome \in {"none", "skip", "enter", "miss", "stale"}
    BY <2>1
  <2>3. ProbeOutcome = "enter" => ~WatchedInside(tr) /\ FirstStale(tr.ops) = 0 /\ Fits(tr)
    BY <2>1
  <2> QED BY <1>3, <2>2, <2>3 DEF NoProbe, tr
<1> QED BY <1>1, <1>2, <1>3

\* At a watched PC one iteration is allowed, by TryExecute's argument or for want of one
Enters(single, chain) ==
    /\ ph' = "trace" /\ j' = j
    /\ pc' = pc /\ cpu' = cpu /\ mem' = mem /\ left' = left /\ fresh' = fresh
    /\ x' = [head |-> pc, i |-> 1, full |-> 0, ran |-> FALSE, single |-> single,
             chain |-> chain, how |-> "none",
             max |-> IF pc \in watch \/ ~Slot(j, pc).loop THEN 1 ELSE left \div Len(Slot(j, pc).ops)]
\* A trace is entered: it is memory's, it holds no watched PC but its head, and
\* the budget covers the iterations it is allowed.
LEMMA Entered ==
    ASSUME IInv, ProbeOutcome = "enter", NEW single, NEW chain \in 0..TRACE_EXIT_CHAIN_BUDGET,
           Enters(single, chain), chain # TRACE_EXIT_CHAIN_BUDGET => ~fresh,
           pc \in watch => fresh,
           watch' = watch, resume' = resume, exit' = exit, probe' \in BOOLEAN
    PROVE  IInv'
<1> DEFINE tr == Slot(j, pc)
           L == Len(tr.ops)
           max == IF pc \in watch \/ ~tr.loop THEN 1 ELSE left \div L
<1>1. /\ pc \in Addr /\ cpu \in Cpus /\ mem \in [Addr -> Instr] /\ left \in Nat
      /\ fresh \in BOOLEAN /\ watch \subseteq Addr
      /\ exit \in {"none", "budget", "watched", "al", "tr"} /\ resume \in Addr \cup {NoPc} /\ Good(j)
  BY DEF IInv, Types
<1>2. /\ tr.k = "compiled" /\ tr.pc = pc /\ ~WatchedInside(tr) /\ FirstStale(tr.ops) = 0 /\ left >= L
      /\ j.rec = None
  BY Outcomes DEF compiled_head_at, Holds, Fits
<1>3. Trace(tr)
  BY <1>1, <1>2, SlotVerdict
<1>4. L \in Nat \ {0} /\ tr.ops[1].pc = pc
  <2>1. tr.ops \in Seq(OpRec) /\ tr.ops # <<>> /\ tr.ops[1].pc = pc
    BY <1>2, <1>3, PathOps DEF Trace, From
  <2> QED BY <2>1
<1>5. /\ ph' = "trace" /\ j' = j /\ pc' = pc /\ cpu' = cpu /\ mem' = mem /\ left' = left /\ fresh' = fresh
      /\ x' = [head |-> pc, i |-> 1, full |-> 0, ran |-> FALSE, single |-> single,
               chain |-> chain, how |-> "none", max |-> max]
  BY DEF Enters
<1> HIDE DEF max
<1>6. /\ DOMAIN x' = RunFields /\ x'.head = pc /\ x'.i = 1 /\ x'.full = 0 /\ x'.ran = FALSE
      /\ x'.chain = chain /\ x'.max = max
  BY <1>5 DEF RunFields
<1>7. Types'
  BY <1>1, <1>5 DEF Types, Phases
<1>8. Tr' = tr
  BY <1>5, <1>6 DEF Tr
<1>9. \A n \in 1..L : mem[tr.ops[n].pc] = tr.ops[n].ins
  BY <1>2, <1>4, FirstStaleIs
<1>10. \A n \in 2..L : tr.ops[n].pc \notin watch
  BY <1>2 DEF WatchedInside
<1>11. max \in Nat /\ 0 < max /\ left >= max * L /\ (max > 1 => tr.loop /\ pc \notin watch)
  <2>1. CASE pc \in watch \/ ~tr.loop
    <3>1. max = 1
      BY <2>1 DEF max
    <3> HIDE DEF L, tr
    <3> QED BY <1>1, <1>2, <1>4, <3>1
  <2>2. CASE ~(pc \in watch \/ ~tr.loop)
    <3>1. max = left \div L
      BY <2>2 DEF max
    <3> HIDE DEF L, tr
    <3>2. left \div L \in Nat /\ 0 < left \div L /\ left >= (left \div L) * L
      BY <1>1, <1>2, <1>4, Iterations
    <3> QED BY <2>2, <3>1, <3>2
  <2> QED BY <2>1, <2>2
<1> HIDE DEF tr
<1>12. left >= (max - 0 - 1) * L + (L - 1 + 1)
  <2> HIDE DEF L
  <2>1. (max - 0 - 1) * L + (L - 1 + 1) = max * L
    BY <1>4, <1>11
  <2> QED BY <1>11, <2>1
<1>13. Running'
  BY <1>1, <1>2, <1>4, <1>5, <1>6, <1>8 DEF Running
<1>14. Inside'
  <2>1. Covered'
    BY <1>5, <1>6, <1>8, <1>12 DEF Covered
  <2> QED BY <1>5, <1>6, <1>8, <1>9, <1>10, <1>11, <2>1 DEF Inside
<1>15. Outside'
  BY <1>5 DEF Outside, Here
<1>16. RunTypes'
  BY <1>6 DEF RunTypes
<1> QED BY <1>1, <1>5, <1>7, <1>13, <1>14, <1>15, <1>16 DEF IInv

LEMMA NotEntered ==
    ASSUME IInv, ProbeOutcome # "enter", Tracked(j, pc), NEW after, after \in {"interp", "ran"},
           NotRun(CASE ProbeOutcome = "none" -> j
                    [] ProbeOutcome = "candidate" -> ProbeCandidate(j, pc, cpu.type)
                    [] ProbeOutcome = "skip" -> push_probe_skip(j, pc)
                    [] ProbeOutcome \in {"miss", "stale"} -> Invalidate(j, pc),
                  IF ProbeOutcome = "miss" THEN "disp" ELSE after),
           after = "interp" => left > 0,
           after = "ran" => ~fresh /\ pc \notin watch,
           pc \in watch => fresh,
           watch' = watch, resume' = resume, exit' = exit, probe' \in BOOLEAN
    PROVE  IInv'
<1>1. /\ pc \in Addr /\ cpu \in Cpus /\ mem \in [Addr -> Instr] /\ left \in Nat
      /\ fresh \in BOOLEAN /\ watch \subseteq Addr
      /\ exit \in {"none", "budget", "watched", "al", "tr"} /\ resume \in Addr \cup {NoPc} /\ Good(j)
  BY DEF IInv, Types
<1>2. /\ pc' = pc /\ cpu' = cpu /\ mem' = mem /\ left' = left /\ fresh' = fresh /\ x' = NoRun
      /\ ph' = IF ProbeOutcome = "miss" THEN "disp" ELSE after
      /\ j' = CASE ProbeOutcome = "none" -> j
                [] ProbeOutcome = "candidate" -> ProbeCandidate(j, pc, cpu.type)
                [] ProbeOutcome = "skip" -> push_probe_skip(j, pc)
                [] ProbeOutcome \in {"miss", "stale"} -> Invalidate(j, pc)
  BY DEF NotRun, guest
<1>3. Advanced(j', pc)
  <2>1. Advanced(j, pc)
    BY <1>1 DEF Advanced
  <2>2. ProbeOutcome = "candidate" => Advanced(ProbeCandidate(j, pc, cpu.type), pc)
    BY <1>1, Outcomes, ProbeKept DEF Advanced
  <2>3. Advanced(push_probe_skip(j, pc), pc)
    <3>1. Kept(j, push_probe_skip(j, pc))
      BY <1>1, Hints, SameKept DEF Good, Slots
    <3> QED BY <2>1, <3>1, KeptTracked DEF Advanced, Kept
  <2>4. Advanced(Invalidate(j, pc), pc)
    <3>1. Kept(j, Invalidate(j, pc))
      BY <1>1, InvalidateKept
    <3> QED BY <2>1, <3>1, KeptTracked DEF Advanced, Kept
  <2>5. ProbeOutcome \in {"none", "candidate", "skip", "miss", "stale"}
    BY Outcomes
  <2> QED BY <1>2, <2>1, <2>2, <2>3, <2>4, <2>5
<1>4. ProbeOutcome = "miss" => left > 0
  BY <1>1, Outcomes
<1>5. Types'
  BY <1>1, <1>2 DEF Types, Phases
<1>6. RunTypes'
  BY <1>2 DEF RunTypes, NoRun, RunFields
<1>7. Running' /\ Inside' /\ Outside'
  BY <1>2, <1>3, <1>4 DEF Running, Inside, Outside, Here, Advanced
<1> QED BY <1>3, <1>5, <1>6, <1>7 DEF IInv, Advanced

LEMMA StepProbe == IInv /\ (Probe \/ Chain) => IInv'
<1> SUFFICES ASSUME IInv, Probe \/ Chain PROVE IInv'
  OBVIOUS
<1>1. TRACE_EXIT_CHAIN_BUDGET \in Nat
  BY JitAssumption
<1>2. CASE Probe
  <2>1. /\ ph = "loop" /\ left > 0 /\ probe' = FALSE /\ TryExecute("interp", pc \in watch, TRACE_EXIT_CHAIN_BUDGET)
        /\ watch' = watch /\ resume' = resume /\ exit' = exit
    BY <1>2 DEF Probe, call
  <2>2. Tracked(j, pc) /\ (pc \in watch => fresh)
    BY <2>1 DEF IInv, Outside, Here
  <2>3. CASE ProbeOutcome = "enter"
    <3>1. EnterTrace(Slot(j, pc), pc \in watch, TRACE_EXIT_CHAIN_BUDGET)
      BY <2>1, <2>3 DEF TryExecute
    <3>2. ph' = "trace" /\ j' = j /\ pc' = pc /\ cpu' = cpu /\ mem' = mem /\ left' = left /\ fresh' = fresh
      BY <3>1 DEF EnterTrace, guest
    <3>3. x' = [head |-> pc, i |-> 1, full |-> 0, ran |-> FALSE, single |-> (pc \in watch),
                chain |-> TRACE_EXIT_CHAIN_BUDGET, how |-> "none",
                max |-> IF pc \in watch \/ ~Slot(j, pc).loop THEN 1 ELSE left \div Len(Slot(j, pc).ops)]
      BY <3>1, Zenon DEF EnterTrace
    <3>4. Enters(pc \in watch, TRACE_EXIT_CHAIN_BUDGET)
      BY <3>2, <3>3, Zenon DEF Enters
    <3>5. \E z : Enters(z, TRACE_EXIT_CHAIN_BUDGET)
      BY <3>4, Zenon
    <3>6. PICK z : Enters(z, TRACE_EXIT_CHAIN_BUDGET)
      BY <3>5, Zenon
    <3>7. TRACE_EXIT_CHAIN_BUDGET \in 0..TRACE_EXIT_CHAIN_BUDGET
      BY <1>1
    <3>8. probe' \in BOOLEAN
      BY <1>2, Zenon DEF Probe
    <3>9. watch' = watch /\ resume' = resume /\ exit' = exit
      BY <2>1
    <3> QED BY <2>2, <2>3, <3>6, <3>7, <3>8, <3>9, Entered
  <2>4. CASE ProbeOutcome # "enter"
    <3>1. NotRun(CASE ProbeOutcome = "none" -> j
                   [] ProbeOutcome = "candidate" -> ProbeCandidate(j, pc, cpu.type)
                   [] ProbeOutcome = "skip" -> push_probe_skip(j, pc)
                   [] ProbeOutcome \in {"miss", "stale"} -> Invalidate(j, pc),
                 IF ProbeOutcome = "miss" THEN "disp" ELSE "interp")
      BY <2>1, <2>4 DEF TryExecute
    <3> QED BY <2>1, <2>2, <2>4, <3>1, NotEntered
  <2> QED BY <2>3, <2>4
<1>3. CASE Chain
  <2>1. /\ ph = "chain" /\ TryExecute("ran", FALSE, x.chain)
        /\ watch' = watch /\ resume' = resume /\ exit' = exit /\ probe' = probe /\ probe \in BOOLEAN
    BY <1>3 DEF Chain, call, IInv, Types
  <2>2. /\ j.rec = None /\ ~fresh /\ pc \notin watch /\ x.chain \in 0..(TRACE_EXIT_CHAIN_BUDGET - 1)
        /\ Tracked(j, pc)
    BY <2>1 DEF IInv, Outside, Tracked
  <2>3. CASE ProbeOutcome = "enter"
    <3>1. EnterTrace(Slot(j, pc), FALSE, x.chain)
      BY <2>1, <2>3 DEF TryExecute
    <3>2. x.chain \in 0..TRACE_EXIT_CHAIN_BUDGET /\ x.chain # TRACE_EXIT_CHAIN_BUDGET
      BY <1>1, <2>2
    <3>3. Enters(FALSE, x.chain)
      BY <2>2, <3>1 DEF EnterTrace, Enters, guest
    <3> QED BY <2>1, <2>2, <2>3, <3>2, <3>3, Entered
  <2>4. CASE ProbeOutcome # "enter"
    <3>1. NotRun(CASE ProbeOutcome = "none" -> j
                   [] ProbeOutcome = "candidate" -> ProbeCandidate(j, pc, cpu.type)
                   [] ProbeOutcome = "skip" -> push_probe_skip(j, pc)
                   [] ProbeOutcome \in {"miss", "stale"} -> Invalidate(j, pc),
                 IF ProbeOutcome = "miss" THEN "disp" ELSE "ran")
      BY <2>1, <2>4 DEF TryExecute
    <3> QED BY <2>1, <2>2, <2>4, <3>1, NotEntered
  <2> QED BY <2>3, <2>4
<1> QED BY <1>2, <1>3

----------------------------------------------------------------------------
(* A running trace *)

LEMMA TraceRuns ==
    ASSUME IInv, ph \in {"trace", "leave"}
    PROVE  /\ Trace(Tr) /\ ~is_structurally_rejected(j, x.head)
           /\ Tr.ops \in Seq(OpRec) /\ Len(Tr.ops) \in Nat \ {0} /\ x.i \in 1..Len(Tr.ops)
           /\ Path(Tr.ops) /\ Last(Tr.ops) = Tr.ops[Len(Tr.ops)] /\ Tr.ops[1].pc = x.head
           /\ Recorded(Tr.ops[x.i]) /\ Tr.ops[x.i] \in OpRec
<1>1. Good(j) /\ x.head \in Addr /\ Tr.k = "compiled" /\ Tr.pc = x.head /\ x.i \in 1..Len(Tr.ops)
  BY DEF IInv, Running
<1>2. Trace(Tr) /\ ~is_structurally_rejected(j, x.head)
  BY <1>1, SlotVerdict DEF Tr
<1>3. Tr.ops # <<>> /\ Path(Tr.ops) /\ Tr.ops[1].pc = x.head
  BY <1>1, <1>2 DEF Trace, From
<1>4. /\ Tr.ops \in Seq(OpRec) /\ Last(Tr.ops) = Tr.ops[Len(Tr.ops)]
      /\ \A n \in 1..Len(Tr.ops) : Tr.ops[n] \in OpRec /\ Recorded(Tr.ops[n])
  BY <1>3, PathOps
<1>5. Len(Tr.ops) \in Nat \ {0}
  BY <1>3, <1>4
<1> QED BY <1>1, <1>2, <1>3, <1>4, <1>5

\* The instruction of an operation, by the operation it became.
LEMMA RecordedAs ==
    ASSUME NEW o, Recorded(o)
    PROVE  /\ o.top \in Tops /\ o.ins.k \in {"op", "st", "cmpm", "bcc", "dbcc", "jmp", "jsr", "bsr", "rts", "al"}
           /\ o.ins.k = "st" => o.top = "mem"
           /\ o.ins.k = "jsr" => o.top = "jsr"
           /\ o.ins.k = "bsr" => o.top = "call"
           /\ o.ins.k = "al" => o.top = "trap"
           /\ o.top \in {"plain", "mem"} => o.ins.k \in {"op", "st", "cmpm"}
           /\ o.top = "condskip" => o.ins.k = "bcc"
           /\ o.top = "call" => o.ins.k = "bsr"
           /\ o.top = "rtsret" => o.ins.k = "rts"
<1>1. o.top \in Tops /\ o.ins.k \in Sources(o.top)
  BY OpTypes DEF Recorded
<1> QED BY <1>1 DEF Sources, Tops

\* guard_store_not_code: what an operation stores is not an instruction of its trace.
LEMMA CodeKept ==
    ASSUME IInv, CallsOutside, ph = "trace", ~Bails(Tr, Tr.ops[x.i])
    PROVE  \A n \in 1..Len(Tr.ops) :
               Stored(Tr.ops[x.i].ins, Tr.ops[x.i].pc, cpu, mem)[Tr.ops[n].pc] = Tr.ops[n].ins
<1> DEFINE o == Tr.ops[x.i]
           i == o.ins
<1>1. Recorded(o) /\ Trace(Tr)
  BY TraceRuns
<1>2. \A n \in 1..Len(Tr.ops) : Tr.ops[n].pc \in Tr.spans /\ mem[Tr.ops[n].pc] = Tr.ops[n].ins
  BY <1>1 DEF IInv, Inside, Trace
<1>3. mem \in [Addr -> Instr]
  BY DEF IInv, Types
<1>4. CASE i.k = "st"
  <2>1. i.t \notin Tr.spans
    BY <1>1, <1>4, RecordedAs DEF Bails, store_hits_code
  <2>2. Stored(i, o.pc, cpu, mem) = [mem EXCEPT ![i.t] = Written[cpu.r]]
    BY <1>4 DEF Stored
  <2> QED BY <1>2, <1>3, <2>1, <2>2
<1>5. CASE i.k \in {"jsr", "bsr"}
  <2>1. Before(cpu.sp) \notin Tr.spans
    <3>1. CASE i.k = "jsr"
      BY <1>1, <3>1, RecordedAs DEF CallsOutside
    <3>2. CASE i.k = "bsr"
      BY <1>1, <3>2, RecordedAs DEF Bails, store_hits_code
    <3> QED BY <1>5, <3>1, <3>2
  <2>2. Stored(i, o.pc, cpu, mem) = [mem EXCEPT ![Before(cpu.sp)] = ReturnWord(After(o.pc))]
    BY <1>5 DEF Stored
  <2> QED BY <1>2, <1>3, <2>1, <2>2
<1>6. CASE i.k \notin {"st", "jsr", "bsr"}
  <2>1. i.k \notin {"flt", "bad"}
    BY <1>1, RecordedAs
  <2>2. Stored(i, o.pc, cpu, mem) = mem
    BY <1>6, <2>1 DEF Stored
  <2> QED BY <1>2, <2>2
<1> QED BY <1>4, <1>5, <1>6

\* Where an operation hands over: the next one, or the one behind its block.
Next1(o) == IF o.top = "condskip" /\ cpu.f THEN x.i + 1 + o.skip ELSE x.i + 1
LEMMA NextOperation ==
    ASSUME IInv, ph = "trace"
    PROVE  /\ Next1(Tr.ops[x.i]) \in (x.i + 1)..(Len(Tr.ops) + 1)
           /\ Next1(Tr.ops[x.i]) \in Nat
<1> DEFINE o == Tr.ops[x.i]
           L == Len(Tr.ops)
<1>1. Path(Tr.ops) /\ L \in Nat /\ x.i \in 1..L /\ o.skip \in Nat
  BY TraceRuns, OpTypes
<1>2. o.top = "condskip" => x.i + o.skip <= L
  BY <1>1 DEF Path, Block
<1> HIDE DEF o, L
<1>3. Next1(o) \in (x.i + 1)..(L + 1) /\ Next1(o) \in Nat
  BY <1>1, <1>2 DEF Next1
<1> QED BY <1>3 DEF o, L

\* The parts of TraceOp: where the instruction goes, whether it is the last of an
\* iteration, where PC is left, and whether a guard or another iteration follows
Operand == Tr.ops[x.i]
GoesTo == Target(Operand.ins, Operand.pc, cpu, mem)
Completes == Next1(Operand) > Len(Tr.ops)
LeavesAt == IF Completes /\ ~ends_trace(Last(Tr.ops)) THEN LinkPc(Tr) ELSE IF SetsPc(Operand) THEN GoesTo ELSE pc
Diverges == Guarded(Operand) /\ GoesTo # Operand.exp
Repeats == Completes /\ ~Diverges /\ x.full + 1 < x.max /\ LeavesAt = x.head

LEMMA TraceOpParts ==
    ASSUME IInv, TraceOp
    PROVE  /\ ph = "trace" /\ ~Bails(Tr, Operand)
           /\ cpu' = (IF Operand.top = "condskip" THEN cpu ELSE Registers(Operand.ins, Operand.pc, cpu, mem))
           /\ mem' = Stored(Operand.ins, Operand.pc, cpu, mem)
           /\ pc' = (IF Diverges THEN GoesTo ELSE LeavesAt)
           /\ left' = left - 1 /\ fresh' = FALSE
           /\ ph' = IF Diverges \/ (Completes /\ ~Repeats) THEN "leave" ELSE "trace"
           /\ x'.ran = TRUE
           /\ x'.i = IF Repeats THEN 1 ELSE IF Diverges \/ Completes THEN x.i ELSE Next1(Operand)
           /\ x'.full = IF Completes /\ ~Diverges THEN x.full + 1 ELSE x.full
           /\ Completes /\ ~Diverges /\ ~Repeats => x'.how = "complete"
           /\ x'.head = x.head /\ x'.max = x.max /\ x'.chain = x.chain
           /\ DOMAIN x' = RunFields
           /\ j' = j /\ watch' = watch /\ resume' = resume /\ probe' = probe /\ exit' = exit
<1>1. DOMAIN x = RunFields
  BY DEF IInv, RunTypes
<1>2. /\ ph = "trace" /\ ~Bails(Tr, Operand)
      /\ cpu' = (IF Operand.top = "condskip" THEN cpu ELSE Registers(Operand.ins, Operand.pc, cpu, mem))
      /\ mem' = Stored(Operand.ins, Operand.pc, cpu, mem)
      /\ left' = left - 1 /\ fresh' = FALSE
      /\ j' = j /\ watch' = watch /\ resume' = resume /\ probe' = probe /\ exit' = exit
  BY DEF TraceOp, Tr, Operand, call
<1>3. /\ pc' = (IF Diverges THEN GoesTo ELSE LeavesAt)
      /\ ph' = IF Diverges \/ (Completes /\ ~Repeats) THEN "leave" ELSE "trace"
  BY DEF TraceOp, Tr, Operand, GoesTo, Completes, LeavesAt, Diverges, Repeats, Next1
<1> DEFINE I == IF Repeats THEN 1 ELSE IF Diverges \/ Completes THEN x.i ELSE Next1(Operand)
           F == IF Completes /\ ~Diverges THEN x.full + 1 ELSE x.full
           H == IF Diverges THEN "guard" ELSE IF Completes /\ ~Repeats THEN "complete" ELSE x.how
<1>4. x' = [x EXCEPT !.ran = TRUE, !.i = I, !.full = F, !.how = H]
  BY DEF TraceOp, Tr, Operand, GoesTo, Completes, LeavesAt, Diverges, Repeats, Next1
<1>5. /\ x'.ran = TRUE /\ x'.i = I /\ x'.full = F /\ x'.how = H
      /\ x'.head = x.head /\ x'.max = x.max /\ x'.chain = x.chain /\ DOMAIN x' = RunFields
  <2> HIDE DEF I, F, H
  <2> QED BY <1>1, <1>4 DEF RunFields
<1> QED BY <1>2, <1>3, <1>5

LEMMA StepTraceOp == IInv /\ CallsOutside /\ TraceOp => IInv'
<1> SUFFICES ASSUME IInv, CallsOutside, TraceOp PROVE IInv'
  OBVIOUS
<1> DEFINE o == Operand
           L == Len(Tr.ops)
           n == Next1(Operand)
           K == (x.max - x.full - 1) * L
<1>1. /\ ph = "trace" /\ ~Bails(Tr, o)
      /\ cpu' = (IF o.top = "condskip" THEN cpu ELSE Registers(o.ins, o.pc, cpu, mem))
      /\ mem' = Stored(o.ins, o.pc, cpu, mem)
      /\ pc' = (IF Diverges THEN GoesTo ELSE LeavesAt)
      /\ left' = left - 1 /\ fresh' = FALSE
      /\ ph' = IF Diverges \/ (Completes /\ ~Repeats) THEN "leave" ELSE "trace"
      /\ x'.ran = TRUE
      /\ x'.i = IF Repeats THEN 1 ELSE IF Diverges \/ Completes THEN x.i ELSE n
      /\ x'.full = IF Completes /\ ~Diverges THEN x.full + 1 ELSE x.full
      /\ x'.head = x.head /\ x'.max = x.max /\ x'.chain = x.chain
      /\ DOMAIN x' = RunFields
      /\ j' = j /\ watch' = watch /\ resume' = resume /\ probe' = probe /\ exit' = exit
  BY TraceOpParts
<1>2. /\ pc \in Addr /\ cpu \in Cpus /\ mem \in [Addr -> Instr] /\ left \in Nat
      /\ watch \subseteq Addr /\ probe \in BOOLEAN
      /\ exit \in {"none", "budget", "watched", "al", "tr"} /\ resume \in Addr \cup {NoPc} /\ Good(j)
  BY DEF IInv, Types
<1>3. /\ Tr.ops \in Seq(OpRec) /\ L \in Nat \ {0} /\ x.i \in 1..L /\ Last(Tr.ops) = Tr.ops[L]
      /\ Tr.ops[1].pc = x.head /\ o \in OpRec
  BY <1>1, TraceRuns DEF Operand
<1>4. n \in (x.i + 1)..(L + 1) /\ n \in Nat
  BY <1>1, NextOperation DEF Operand
<1>5. /\ j.rec = None /\ x.head \in Addr /\ Tr.k = "compiled" /\ Tr.pc = x.head
      /\ x.chain \in 0..TRACE_EXIT_CHAIN_BUDGET
  BY <1>1 DEF IInv, Running
<1>6. /\ \A m \in 2..L : Tr.ops[m].pc \notin watch
      /\ x.max \in Nat /\ x.full \in Nat /\ x.full < x.max
      /\ x.max > 1 => Tr.loop /\ x.head \notin watch
      /\ left >= K + (L - x.i + 1)
  BY <1>1 DEF IInv, Inside, Covered
<1>7. \A m \in 1..L : mem'[Tr.ops[m].pc] = Tr.ops[m].ins
  BY <1>1, CodeKept DEF Operand
<1>8. Tr' = Tr
  BY <1>1 DEF Tr
<1>9. GoesTo \in Addr /\ cpu' \in Cpus /\ mem' \in [Addr -> Instr]
  <2>1. o.ins \in Instr /\ o.pc \in Addr
    BY <1>3, OpTypes
  <2> QED BY <1>1, <1>2, <2>1, GuestTypes DEF GoesTo
<1>10. LeavesAt \in Addr
  <2>1. LinkPc(Tr) \in Addr
    <3>1. Last(Tr.ops) \in OpRec
      BY <1>3
    <3> QED BY <3>1, OpTypes, Addresses DEF LinkPc
  <2> QED BY <1>2, <1>9, <2>1 DEF LeavesAt
<1> HIDE DEF n, o, L, K
<1>11. K \in Nat
  <2>1. x.max - x.full - 1 \in Nat
    BY <1>6
  <2> QED BY <1>3, <2>1 DEF K
<1>12. left' \in Nat
  BY <1>1, <1>2, <1>3, <1>6, <1>11
<1>13. Types'
  BY <1>1, <1>2, <1>9, <1>10, <1>12 DEF Types, Phases
<1>14. x'.i \in 1..L
  BY <1>1, <1>3, <1>4 DEF Completes, n, L
<1>15. Running'
  BY <1>1, <1>5, <1>8, <1>14 DEF Running, L
<1>16. Outside'
  BY <1>1 DEF Outside, Here
<1>17. ASSUME ph' = "trace" PROVE Inside'
  <2>1. ~Diverges /\ (Completes => Repeats)
    BY <1>1, <1>17
  <2>2. x'.full \in Nat /\ x'.full < x'.max /\ x'.i \in Nat
        /\ (x'.i = 1 => x.head \notin watch)
        /\ left' >= (x'.max - x'.full - 1) * L + (L - x'.i + 1)
    <3>1. CASE Completes
      <4>1. x'.i = 1 /\ x'.full = x.full + 1 /\ x.full + 1 < x.max
        BY <1>1, <2>1, <3>1 DEF Repeats
      <4>2. (x.max - (x.full + 1) - 1) * L + L = K
        <5>1. x.max - x.full - 1 \in Nat
          BY <1>6
        <5>2. \A a \in Nat : (a - 1) * L + L = a * L
          BY <1>3
        <5>3. x.max - (x.full + 1) - 1 = (x.max - x.full - 1) - 1
          BY <1>6
        <5> QED BY <5>1, <5>2, <5>3 DEF K
      <4> DEFINE M == (x.max - (x.full + 1) - 1) * L
      <4>3. M \in Nat
        <5>1. x.max - (x.full + 1) - 1 \in Nat
          BY <1>6, <4>1
        <5> QED BY <1>3, <5>1
      <4>4. (x'.max - x'.full - 1) * L = M
        BY <1>1, <4>1
      <4>5. M + L = K
        BY <4>2
      <4> HIDE DEF M
      <4>6. left' >= M + (L - 1 + 1)
        BY <1>1, <1>2, <1>3, <1>6, <4>3, <4>5
      <4>7. x.max > 1
        BY <1>6, <4>1
      <4> QED BY <1>1, <1>6, <4>1, <4>4, <4>6, <4>7
    <3>2. CASE ~Completes
      <4>1. x'.i = n /\ x'.full = x.full
        BY <1>1, <2>1, <3>2 DEF Repeats
      <4>2. (x'.max - x'.full - 1) * L = K
        BY <1>1, <4>1 DEF K
      <4>3. n # 1 /\ left' >= K + (L - n + 1)
        BY <1>1, <1>2, <1>3, <1>4, <1>6, <1>11
      <4> QED BY <1>1, <1>4, <1>6, <4>1, <4>2, <4>3
    <3> QED BY <3>1, <3>2
  <2>3. Covered'
    BY <1>8, <2>2 DEF Covered, L
  <2>4. (\A m \in 1..Len(Tr.ops) : mem[Tr.ops[m].pc] = Tr.ops[m].ins)'
    BY <1>7, <1>8 DEF L
  <2>5. (\A m \in 2..Len(Tr.ops) : Tr.ops[m].pc \notin watch)'
    BY <1>1, <1>6, <1>8 DEF L
  <2> QED BY <1>1, <1>6, <1>8, <2>2, <2>3, <2>4, <2>5 DEF Inside
<1>18. Inside'
  BY <1>1, <1>17 DEF Inside
<1> QED BY <1>1, <1>2, <1>13, <1>15, <1>16, <1>18 DEF IInv, RunTypes

LEMMA StepTraceBail == IInv /\ TraceBail => IInv'
<1> SUFFICES ASSUME IInv, TraceBail PROVE IInv'
  OBVIOUS
<1>1. /\ ph = "trace" /\ pc' = Operand.pc /\ ph' = "leave" /\ x' = [x EXCEPT !.how = "bail"]
      /\ cpu' = cpu /\ mem' = mem /\ left' = left /\ fresh' = fresh /\ j' = j
      /\ watch' = watch /\ resume' = resume /\ probe' = probe /\ exit' = exit
  BY DEF TraceBail, Tr, Operand, call
<1>2. DOMAIN x' = RunFields /\ x'.ran = x.ran /\ x'.head = x.head /\ x'.i = x.i /\ x'.chain = x.chain
  BY <1>1 DEF IInv, RunTypes, RunFields
<1>3. /\ pc \in Addr /\ cpu \in Cpus /\ mem \in [Addr -> Instr] /\ left \in Nat
      /\ fresh \in BOOLEAN /\ watch \subseteq Addr /\ probe \in BOOLEAN /\ x.ran \in BOOLEAN
      /\ exit \in {"none", "budget", "watched", "al", "tr"} /\ resume \in Addr \cup {NoPc} /\ Good(j)
  BY DEF IInv, Types, RunTypes
<1>4. Operand \in OpRec /\ Len(Tr.ops) \in Nat \ {0} /\ x.i \in 1..Len(Tr.ops) /\ Tr.ops[1].pc = x.head
  BY <1>1, TraceRuns DEF Operand
<1>5. Operand.pc \in Addr
  BY <1>4, OpTypes
<1>6. Types'
  BY <1>1, <1>3, <1>5 DEF Types, Phases
<1>7. Tr' = Tr
  BY <1>1, <1>2 DEF Tr
<1>8. Running'
  BY <1>1, <1>2, <1>7 DEF IInv, Running
<1>9. ~x.ran => left > 0 /\ (pc' \in watch => fresh)
  <2> SUFFICES ASSUME ~x.ran PROVE left > 0 /\ (pc' \in watch => fresh)
    OBVIOUS
  <2>1. /\ x.i = 1 /\ x.max \in Nat /\ x.full \in Nat /\ x.full < x.max
        /\ (x.i = 1 /\ x.head \in watch => fresh)
        /\ left >= (x.max - x.full - 1) * Len(Tr.ops) + (Len(Tr.ops) - x.i + 1)
    BY <1>1 DEF IInv, Inside, Covered
  <2>2. pc' = x.head
    BY <1>1, <1>4, <2>1 DEF Operand
  <2> DEFINE K == (x.max - x.full - 1) * Len(Tr.ops)
  <2>3. K \in Nat
    <3>1. x.max - x.full - 1 \in Nat
      BY <2>1
    <3> QED BY <1>4, <3>1
  <2>4. left >= K + (Len(Tr.ops) - x.i + 1)
    BY <2>1
  <2> HIDE DEF K
  <2>5. left > 0
    BY <1>3, <1>4, <2>3, <2>4
  <2> QED BY <2>1, <2>2, <2>5
<1>10. Inside' /\ Outside'
  BY <1>1, <1>2, <1>9 DEF Inside, Outside, Here
<1> QED BY <1>2, <1>1, <1>3, <1>6, <1>8, <1>10 DEF IInv, RunTypes

\* The exit of a trace that ran.
LEMMA ExitSeeded ==
    ASSUME NEW q, Good(q), q.rec = None, pc \in Addr, NEW y
    PROVE  LET r == note_trace_exit(q, pc, y, pc \in watch) IN
           /\ Good(r[1]) /\ r[2] \in {"none", "chain", "record"}
           /\ r[2] # "record" => r[1].rec = None
           /\ r[2] # "none" => pc \notin watch
           /\ r[2] = "record" => Tracked(r[1], pc)
<1> DEFINE P(w) == LET r == note_trace_exit(q, pc, y, w) IN
                   /\ Good(r[1]) /\ r[2] \in {"none", "chain", "record"}
                   /\ r[2] # "record" => r[1].rec = q.rec
                   /\ r[2] # "none" => ~w
                   /\ r[2] = "record" => q.rec = None /\ Tracked(r[1], pc)
<1>1. \A w \in BOOLEAN : P(w)
  BY ExitNoted
<1>2. (pc \in watch) \in BOOLEAN
  OBVIOUS
<1>3. P(pc \in watch)
  <2> HIDE DEF P
  <2> QED BY <1>1, <1>2, Zenon
<1> QED BY <1>3, Zenon

LEMMA StepLeaveTrace == IInv /\ LeaveTrace => IInv'
<1> SUFFICES ASSUME IInv, LeaveTrace PROVE IInv'
  OBVIOUS
<1>1. /\ ph = "leave" /\ pc' = pc /\ cpu' = cpu /\ mem' = mem /\ left' = left /\ fresh' = fresh
      /\ watch' = watch /\ resume' = resume /\ probe' = probe /\ exit' = exit
  BY DEF LeaveTrace, guest, call
<1>2. /\ pc \in Addr /\ cpu \in Cpus /\ mem \in [Addr -> Instr] /\ left \in Nat
      /\ fresh \in BOOLEAN /\ watch \subseteq Addr /\ probe \in BOOLEAN /\ x.ran \in BOOLEAN
      /\ exit \in {"none", "budget", "watched", "al", "tr"} /\ resume \in Addr \cup {NoPc} /\ Good(j)
  BY DEF IInv, Types, RunTypes
<1>3. /\ j.rec = None /\ x.head \in Addr /\ Tr.k = "compiled" /\ Tr.pc = x.head
      /\ x.chain \in 0..TRACE_EXIT_CHAIN_BUDGET
      /\ x.ran => ~fresh
      /\ x.chain # TRACE_EXIT_CHAIN_BUDGET => ~fresh
      /\ ~x.ran => left > 0 /\ (pc \in watch => fresh)
  BY <1>1 DEF IInv, Running, Outside
<1>4. ~is_structurally_rejected(j, x.head)
  BY <1>1, TraceRuns
<1>5. \A g : Kept(j, SetSlot(j, x.head, Adapted(Tr, g)[1]))
  BY <1>2, <1>3, AdaptedKept DEF Tr
<1>6. Kept(j, Rerecord(j, Tr))
  BY <1>2, <1>3, <1>4, RerecordKept
<1>7. PICK g : \E a \in {Adapted(Tr, g)} :
                 IF ~x.ran
                 THEN /\ j' = SetSlot(j, x.head, a[1]) /\ x' = NoRun
                      /\ ph' = AfterEmptyRun
                 ELSE \E q \in {IF a[2] THEN Rerecord(j, Tr) ELSE SetSlot(j, x.head, a[1])} :
                        SeedExit(q, Tr, g)
  BY Zenon DEF LeaveTrace, Tr
<1>8. CASE ~x.ran
  <2>1. j' = SetSlot(j, x.head, Adapted(Tr, g)[1]) /\ x' = NoRun /\ ph' = AfterEmptyRun
    BY <1>7, <1>8
  <2>2. Good(j') /\ j'.rec = None
    BY <1>3, <1>5, <2>1 DEF Kept
  <2>3. ph' = "interp" \/ (ph' = "ran" /\ ~fresh)
    BY <1>3, <2>1 DEF AfterEmptyRun
  <2>4. Types'
    BY <1>1, <1>2, <2>3 DEF Types, Phases
  <2>5. Running' /\ Inside' /\ Outside'
    BY <1>1, <1>3, <1>8, <2>2, <2>3 DEF Running, Inside, Outside, Here, Tracked
  <2>6. RunTypes'
    BY <2>1 DEF RunTypes, NoRun, RunFields
  <2> QED BY <2>2, <2>4, <2>5, <2>6 DEF IInv
<1>9. CASE x.ran
  <2>1. PICK q \in {Rerecord(j, Tr), SetSlot(j, x.head, Adapted(Tr, g)[1])} : SeedExit(q, Tr, g)
    <3>1. \E q \in {IF Adapted(Tr, g)[2] THEN Rerecord(j, Tr) ELSE SetSlot(j, x.head, Adapted(Tr, g)[1])} :
             SeedExit(q, Tr, g)
      BY <1>7, <1>9
    <3> QED BY <3>1
  <2>2. Good(q) /\ q.rec = None
    BY <1>3, <1>5, <1>6, <2>1 DEF Kept
  <2> DEFINE r == note_trace_exit(q, pc, Tr.type, pc \in watch)
  <2>3. /\ Good(r[1]) /\ r[2] \in {"none", "chain", "record"}
        /\ r[2] # "record" => r[1].rec = None
        /\ r[2] # "none" => pc \notin watch
        /\ r[2] = "record" => Tracked(r[1], pc)
    BY <1>2, <2>2, ExitSeeded
  <2>4. \/ /\ x.chain > 0 /\ j' = r[1] /\ ph' = (IF r[2] = "chain" THEN "chain" ELSE "ran")
           /\ x' = (IF r[2] = "chain" THEN [NoRun EXCEPT !.chain = x.chain - 1] ELSE NoRun)
        \/ j' = q /\ ph' = "ran" /\ x' = NoRun
    BY <2>1, Zenon DEF SeedExit
  <2> HIDE DEF r
  <2>5. Good(j') /\ ph' \in {"chain", "ran"}
    BY <2>2, <2>3, <2>4
  <2>6. ph' = "chain" => j'.rec = None /\ pc \notin watch /\ x'.chain \in 0..(TRACE_EXIT_CHAIN_BUDGET - 1)
    <3> SUFFICES ASSUME ph' = "chain"
                 PROVE  j'.rec = None /\ pc \notin watch /\ x'.chain \in 0..(TRACE_EXIT_CHAIN_BUDGET - 1)
      OBVIOUS
    <3>1. x.chain > 0 /\ j' = r[1] /\ r[2] = "chain" /\ x' = [NoRun EXCEPT !.chain = x.chain - 1]
      BY <2>4
    <3>2. x'.chain = x.chain - 1
      BY <3>1 DEF NoRun
    <3>3. x.chain - 1 \in 0..(TRACE_EXIT_CHAIN_BUDGET - 1)
      BY <1>3, <3>1, JitAssumption
    <3> QED BY <2>3, <3>1, <3>2, <3>3
  <2>7. ph' = "ran" => (j'.rec = None \/ pc \notin watch) /\ Tracked(j', pc)
    BY <2>2, <2>3, <2>4 DEF Tracked
  <2>8. DOMAIN x' = RunFields /\ x'.ran \in BOOLEAN
    <3>1. x' = NoRun \/ x' = [NoRun EXCEPT !.chain = x.chain - 1]
      BY <2>4
    <3>2. DOMAIN NoRun = RunFields /\ NoRun.ran = FALSE
      BY DEF NoRun, RunFields
    <3>3. "ran" \in DOMAIN NoRun
      BY <3>2 DEF RunFields
    <3> QED BY <3>1, <3>2, <3>3
  <2>9. Types'
    BY <1>1, <1>2, <2>5 DEF Types, Phases
  <2>10. ~fresh
    BY <1>3, <1>9
  <2>11. Running' /\ Inside' /\ Outside'
    BY <1>1, <2>5, <2>6, <2>7, <2>10 DEF Running, Inside, Outside, Here
  <2> QED BY <2>5, <2>8, <2>9, <2>11 DEF IInv, RunTypes
<1> QED BY <1>8, <1>9


----------------------------------------------------------------------------
(* The theorems about Spec *)

LEMMA StutterInv == IInv /\ UNCHANGED vars => IInv'
<1> SUFFICES ASSUME IInv, UNCHANGED vars PROVE IInv'
  OBVIOUS
<1>1. /\ pc' = pc /\ cpu' = cpu /\ mem' = mem /\ left' = left /\ fresh' = fresh /\ watch' = watch
      /\ exit' = exit /\ ph' = ph /\ env' = env /\ probe' = probe /\ x' = x /\ j' = j /\ resume' = resume
  BY DEF vars
<1>2. Types' /\ RunTypes' /\ Good(j')
  BY <1>1 DEF IInv, Types, RunTypes
<1>3. Running' /\ Inside' /\ Outside'
  BY <1>1 DEF IInv, Running, Inside, Covered, Outside, Here, Tr
<1> QED BY <1>2, <1>3 DEF IInv

LEMMA StepInv == IInv /\ Ordinary /\ [Next]_vars => IInv'
  BY StepHost, StepLeaves, StepExecutes, StepLoop, StepProbe, StepTraceOp, StepTraceBail, StepLeaveTrace,
     StutterInv DEF Next, Engine, Ordinary

\* What the invariant says of the runs' properties.
LEMMA InvTyped == IInv => TypeOK
<1> SUFFICES ASSUME IInv PROVE TypeOK
  OBVIOUS
<1>1. ph = "trace" => x.i \in 1..Len(Slot(j, x.head).ops)
  BY DEF IInv, Running, Tr
<1>2. VerdictExcludesTrace
  BY DEF IInv, Good, Verdicts, Live, VerdictExcludesTrace, compiled_head_at, Holds
<1> QED BY <1>1, <1>2 DEF IInv, Types, TypeOK

LEMMA InvCurrent == IInv => TraceCurrent
<1> SUFFICES ASSUME IInv, ph = "trace" PROVE TraceCurrent
  BY DEF TraceCurrent
<1>1. x.i \in 1..Len(Tr.ops) /\ Len(Tr.ops) \in Nat
  BY TraceRuns
<1>2. \A n \in 1..Len(Tr.ops) : mem[Tr.ops[n].pc] = Tr.ops[n].ins
  BY DEF IInv, Inside
<1>3. \A n \in x.i..Len(Tr.ops) : n \in 1..Len(Tr.ops)
  BY <1>1
<1> QED BY <1>2, <1>3 DEF TraceCurrent, Tr

LEMMA InvRecording == IInv => RecordingSound
<1> SUFFICES ASSUME IInv, j.rec # None PROVE RecordingSound
  BY DEF RecordingSound
<1>1. ph # "host"
  BY DEF IInv, Outside
<1>2. Path(j.rec.ops) /\ (j.rec.ops # <<>> => j.rec.ops[1].pc = j.rec.start)
  BY DEF IInv, Good, Record, From
<1>3. j.rec.ops # <<>> => Head(j.rec.ops).pc = j.rec.start
  BY <1>2, PathOps
<1>4. ASSUME NEW n \in 1..(Len(j.rec.ops) - 1), j.rec.ops[n].top \in {"plain", "mem"}
      PROVE  j.rec.ops[n + 1].pc = After(j.rec.ops[n].pc)
  BY <1>2, <1>4 DEF Path, Onward
<1> QED BY <1>1, <1>3, <1>4 DEF RecordingSound

LEMMA AlwaysIInv == Spec /\ []Ordinary => []IInv
<1>1. Init => IInv
  BY InitialInv
<1>2. IInv /\ Ordinary /\ [Next]_vars => IInv'
  BY StepInv
<1> QED BY <1>1, <1>2, PTL DEF Spec

\* The state of run_batch is well formed: the budget is never overdrawn, a running
\* trace is at one of its operations, and no head has both a verdict and a trace.
THEOREM RunsAreTyped == Spec /\ []Ordinary => []TypeOK
<1>1. IInv => TypeOK
  BY InvTyped
<1> QED BY AlwaysIInv, <1>1, PTL

\* A trace that runs holds the instructions memory holds: try_execute compares
\* them, and no operation of the trace stores over another.
THEOREM TracesAreCurrent == Spec /\ []Ordinary => []TraceCurrent
<1>1. IInv => TraceCurrent
  BY InvCurrent
<1> QED BY AlwaysIInv, <1>1, PTL

\* A recording is a path the guest took, and none survives the call.
THEOREM RecordingsAreSound == Spec /\ []Ordinary => []RecordingSound
<1>1. IInv => RecordingSound
  BY InvRecording
<1> QED BY AlwaysIInv, <1>1, PTL

----------------------------------------------------------------------------
(* The refinement: what the guest and the host see is BatchContract's *)

LEMMA SameGuest ==
    /\ \A p : Contract!After(p) = After(p) /\ Contract!Before(p) = Before(p)
    /\ \A i, p, c, m : Contract!Target(i, p, c, m) = Target(i, p, c, m)
    /\ \A i, p, c, m : Contract!Registers(i, p, c, m) = Registers(i, p, c, m)
    /\ \A i, p, c, m : Contract!Stored(i, p, c, m) = Stored(i, p, c, m)
<1>1. \A p : Contract!After(p) = After(p) /\ Contract!Before(p) = Before(p)
  BY DEF Contract!After, After, Contract!Before, Before
<1>2. \A i, p, c, m : Contract!Target(i, p, c, m) = Target(i, p, c, m)
  BY <1>1 DEF Contract!Target, Target
<1>3. \A i, p, c, m : Contract!Registers(i, p, c, m) = Registers(i, p, c, m)
  BY <1>1 DEF Contract!Registers, Registers
<1>4. \A i, p, c, m : Contract!Stored(i, p, c, m) = Stored(i, p, c, m)
  BY <1>1 DEF Contract!Stored, Stored, Contract!ReturnWord, ReturnWord
<1> QED BY <1>1, <1>2, <1>3, <1>4

\* Outside a trace the guest is at PC.
LEMMA AtPc == ph # "trace" => GuestPc = pc
  BY DEF GuestPc

LEMMA InitRefines == Init => Contract!Init
<1> SUFFICES ASSUME Init PROVE Contract!Init
  OBVIOUS
<1>1. ph = "host" /\ GuestPc = pc
  BY AtPc DEF Init
<1> QED BY <1>1 DEF Init, Contract!Init

LEMMA HostRefines == Host => Contract!Next
<1> SUFFICES ASSUME Host PROVE Contract!Next
  OBVIOUS
<1>1. ASSUME NEW p \in Patches, HostPatch(p) PROVE Contract!HostPatch(p)
  <2>1. ph = "host" /\ ph' = "host" /\ GuestPc = pc /\ GuestPc' = pc'
    BY <1>1 DEF HostPatch, GuestPc
  <2> QED BY <1>1, <2>1 DEF HostPatch, Contract!HostPatch
<1>2. ASSUME NEW y \in NewerTypes(cpu), SetCpuType(y)
      PROVE  y \in Contract!NewerTypes(cpu) /\ Contract!SetCpuType(y)
  <2>1. ph = "host" /\ ph' = "host" /\ GuestPc = pc /\ GuestPc' = pc'
    BY <1>2 DEF SetCpuType, GuestPc
  <2>2. y \in Contract!NewerTypes(cpu)
    BY DEF NewerTypes, Contract!NewerTypes
  <2> QED BY <1>2, <2>1, <2>2 DEF SetCpuType, Contract!SetCpuType
<1>3. ASSUME NEW c \in Calls, NEW n \in Envs, NEW e \in Entries \cup {[pc |-> pc, sp |-> cpu.sp]},
             RunBatch(c, e, n)
      PROVE  e \in Entries \cup {[pc |-> GuestPc, sp |-> cpu.sp]} /\ Contract!RunBatch(c, e)
  <2>1. ph = "host" /\ ph' = "loop" /\ GuestPc = pc /\ GuestPc' = pc'
    BY <1>3 DEF RunBatch, GuestPc
  <2> QED BY <1>3, <2>1 DEF RunBatch, Contract!RunBatch
<1> QED BY <1>1, <1>2, <1>3 DEF Host, Contract!Next

\* The call ends: at a watched PC that is to be reported, or for want of budget.
LEMMA ReturnRefines == IInv /\ (BudgetExhausted \/ RanWatched \/ WatchedPc) => Contract!Return
<1> SUFFICES ASSUME IInv, BudgetExhausted \/ RanWatched \/ WatchedPc PROVE Contract!Return
  OBVIOUS
<1> DEFINE how == IF ~fresh /\ pc \in watch THEN "watched" ELSE "budget"
<1>1. /\ ph # "host" /\ ph # "trace" /\ Leaves(how) /\ pc' = pc /\ cpu' = cpu /\ mem' = mem
      /\ left = 0 \/ (~fresh /\ pc \in watch)
  <2>1. CASE BudgetExhausted
    <3>1. ph = "loop" /\ left = 0 /\ Leaves("budget") /\ pc' = pc /\ cpu' = cpu /\ mem' = mem
      BY <2>1 DEF BudgetExhausted
    <3>2. ~(~fresh /\ pc \in watch)
      BY <3>1 DEF IInv, Outside, Here
    <3> QED BY <3>1, <3>2
  <2>2. CASE RanWatched
    <3>1. ph = "ran" /\ pc \in watch /\ Leaves("watched") /\ pc' = pc /\ cpu' = cpu /\ mem' = mem
      BY <2>2 DEF RanWatched
    <3>2. ~fresh
      BY <3>1 DEF IInv, Outside
    <3> QED BY <3>1, <3>2
  <2>3. CASE WatchedPc
    <3>1. ph = "watched" /\ Leaves("watched") /\ pc' = pc /\ cpu' = cpu /\ mem' = mem
      BY <2>3 DEF WatchedPc
    <3>2. ~fresh /\ pc \in watch
      BY <3>1 DEF IInv, Outside
    <3> QED BY <3>1, <3>2
  <2> QED BY <2>1, <2>2, <2>3
<1>2. /\ ph' = "host" /\ exit' = how /\ left' = 0 /\ fresh' = TRUE /\ watch' = {}
      /\ GuestPc = pc /\ GuestPc' = pc
  BY <1>1 DEF Leaves, GuestPc
<1> QED BY <1>1, <1>2 DEF Contract!Return, Contract!Leaves, Contract!ReportWatch

LEMMA TrapRefines == IInv /\ (AlineTrap \/ OtherTrap) => Contract!Trap
<1> SUFFICES ASSUME IInv, AlineTrap \/ OtherTrap PROVE Contract!Trap
  OBVIOUS
<1>1. /\ Dispatching /\ mem[pc].k \in {"al", "tr"} /\ pc' = After(pc) /\ Leaves(mem[pc].k)
      /\ cpu' = cpu /\ mem' = mem
  BY DEF AlineTrap, OtherTrap
<1>2. /\ ph # "host" /\ ph # "trace" /\ left > 0 /\ ~(~fresh /\ pc \in watch)
  BY <1>1 DEF Dispatching, IInv, Outside, Here
<1>3. /\ ph' = "host" /\ exit' = mem[pc].k /\ left' = 0 /\ fresh' = TRUE /\ watch' = {}
      /\ GuestPc = pc /\ GuestPc' = Contract!After(pc)
  BY <1>1, <1>2, SameGuest DEF Leaves, GuestPc
<1> QED BY <1>1, <1>2, <1>3 DEF Contract!Trap, Contract!Leaves, Contract!ReportWatch

\* An instruction interpreted at PC.
LEMMA StepRefines ==
    IInv /\ (DecodedOp \/ Dispatch \/ DispatchFault) => Contract!Step
<1> SUFFICES ASSUME IInv, DecodedOp \/ Dispatch \/ DispatchFault PROVE Contract!Step
  OBVIOUS
<1>1. /\ Here /\ left > 0 /\ mem[pc].k \notin {"al", "tr", "bad"} /\ Executes(mem[pc])
      /\ ph' \in {"watched", "loop"} /\ exit' = exit /\ watch' = watch
  <2>1. CASE DecodedOp
    <3>1. Here /\ left > 0
      BY <2>1 DEF DecodedOp, Decoding, Here, IInv, Outside
    <3>2. mem[pc].k \notin {"al", "tr", "bad"} /\ Executes(mem[pc]) /\ watch' = watch
      BY <2>1 DEF DecodedOp, Simple, MemOp, call
    <3>3. \E a, b : Iterated(a, b)
      BY <2>1, Zenon DEF DecodedOp
    <3> QED BY <3>1, <3>2, <3>3 DEF Iterated
  <2>2. CASE Dispatch
    <3>1. Here /\ left > 0
      BY <2>2 DEF Dispatch, Dispatching, Here, IInv, Outside
    <3>2. mem[pc].k \notin {"al", "tr", "bad"} /\ Executes(mem[pc]) /\ watch' = watch
      BY <2>2 DEF Dispatch, call
    <3>3. \E a, b : Iterated(a, b)
      BY <2>2, Zenon DEF Dispatch
    <3> QED BY <3>1, <3>2, <3>3 DEF Iterated
  <2>3. CASE DispatchFault
    BY <2>3 DEF DispatchFault, Dispatching, Here, IInv, Outside, Iterated, call
  <2> QED BY <2>1, <2>2, <2>3
<1>2. /\ pc' = Target(mem[pc], pc, cpu, mem) /\ cpu' = Registers(mem[pc], pc, cpu, mem)
      /\ mem' = Stored(mem[pc], pc, cpu, mem) /\ left' = left - 1 /\ fresh' = FALSE
  BY <1>1 DEF Executes
<1>3. ph # "host" /\ ph # "trace" /\ ~(~fresh /\ pc \in watch)
  BY <1>1 DEF IInv, Outside, Here
<1>4. GuestPc = pc /\ GuestPc' = pc' /\ ph' # "host"
  BY <1>1, <1>3 DEF GuestPc
<1> QED BY <1>1, <1>2, <1>3, <1>4, SameGuest DEF Contract!Step, Contract!ReportWatch

LEMMA FetchRefines == IInv /\ FetchFault => Contract!FetchFault
<1> SUFFICES ASSUME IInv, FetchFault PROVE Contract!FetchFault
  OBVIOUS
<1>1. /\ Here /\ mem[pc].k = "bad" /\ left > 0
      /\ pc' = Vector /\ cpu' = Registers(mem[pc], pc, cpu, mem) /\ mem' = Stored(mem[pc], pc, cpu, mem)
      /\ ph' = "loop" /\ left' = left /\ fresh' = fresh /\ watch' = watch /\ exit' = exit
  BY DEF FetchFault, Decoding, Dispatching, Here, call, IInv, Outside
<1>2. ph # "host" /\ ph # "trace" /\ ~(~fresh /\ pc \in watch)
  BY <1>1 DEF IInv, Outside, Here
<1>3. GuestPc = pc /\ GuestPc' = pc' /\ pc' = Target(mem[pc], pc, cpu, mem)
  BY <1>1, <1>2 DEF GuestPc, Target
<1> QED BY <1>1, <1>2, <1>3, SameGuest DEF Contract!FetchFault, Contract!ReportWatch

\* An operation with a recorded successor goes there unless its guard fails: the
\* path a recording names is the path its instructions take.
LEMMA GoesOnward ==
    ASSUME NEW o, Recorded(o), Onwards(o), NEW c, NEW m,
           Guarded(o) => Target(o.ins, o.pc, c, m) = o.exp,
           o.top = "rtsret" => m[c.sp].t = o.exp
    PROVE  Target(o.ins, o.pc, c, m) = Onward(o)
<1>1. CASE o.top \in {"plain", "mem"}
  <2>1. o.ins.k \in {"op", "st", "cmpm"}
    BY <1>1, RecordedAs
  <2> QED BY <1>1, <2>1, PlainTarget DEF Onward
<1>2. CASE o.top = "call"
  <2>1. o.ins.k = "bsr"
    BY <1>2, RecordedAs
  <2> QED BY <1>2, <2>1 DEF Onward, Target
<1>3. CASE o.top = "rtsret"
  <2>1. o.ins.k = "rts"
    BY <1>3, RecordedAs
  <2> QED BY <1>3, <2>1 DEF Onward, Target
<1>4. CASE o.top \in {"branch", "jmp"} /\ o.exp # NoPc
  BY <1>4 DEF Onward, Guarded
<1> QED BY <1>1, <1>2, <1>3, <1>4 DEF Onwards

\* An if-converted branch that is taken leads behind its block, the last operation
\* of which is a plain one that goes there too.
LEMMA SkipGoes ==
    ASSUME NEW ops, Path(ops), NEW i \in 1..Len(ops), ops[i].top = "condskip"
    PROVE  /\ i + ops[i].skip \in (i + 1)..Len(ops)
           /\ ops[i + ops[i].skip].top \in {"plain", "mem"}
           /\ After(ops[i + ops[i].skip].pc) = ops[i].ins.t
           /\ i + ops[i].skip < Len(ops) => ops[i + ops[i].skip + 1].pc = ops[i].ins.t
<1> DEFINE s == ops[i].skip
           b == ops[i + s]
           t == ops[i].ins.t
<1>1. ops \in Seq(OpRec) /\ Len(ops) \in Nat /\ ops[i] \in OpRec
  BY PathOps
<1>2. s \in Nat /\ ops[i].pc \in Addr /\ t \in Addr
  BY <1>1, OpTypes DEF Instr
<1>3. Block(ops, i)
  BY DEF Path
<1>4. s > 0 /\ i + s <= Len(ops) /\ t = ops[i].pc + s + 1
  BY <1>3 DEF Block
<1>5. b.pc = ops[i].pc + s /\ b.top \in {"plain", "mem"}
  <2>1. s \in 1..s
    BY <1>2, <1>4
  <2> QED BY <1>3, <2>1 DEF Block
<1> HIDE DEF s, t
<1>6. i + s \in (i + 1)..Len(ops)
  BY <1>1, <1>2, <1>4
<1>7. b.pc \in Addr
  <2>1. i + s \in 1..Len(ops)
    BY <1>1, <1>6
  <2> QED BY <1>1, <2>1, OpTypes, Operation
<1>8. b.pc < t /\ t = b.pc + 1
  <2>1. ops[i].pc \in Nat /\ t \in Nat /\ b.pc \in Nat
    BY <1>2, <1>7, Addresses
  <2> QED BY <1>2, <1>4, <1>5, <2>1
<1>9. After(b.pc) = t
  BY <1>2, <1>7, <1>8, Addresses
<1>10. i + s < Len(ops) => ops[i + s + 1].pc = t
  <2> SUFFICES ASSUME i + s < Len(ops) PROVE ops[i + s + 1].pc = t
    OBVIOUS
  <2>1. i + s \in 1..(Len(ops) - 1)
    BY <1>1, <1>6
  <2>2. ops[i + s + 1].pc = Onward(b)
    BY <2>1 DEF Path
  <2> QED BY <1>5, <1>9, <2>2 DEF Onward
<1> QED BY <1>5, <1>6, <1>9, <1>10 DEF s, t

\* Where the guest is after an operation is where its instruction goes.
LEMMA TraceGoes ==
    ASSUME IInv, LinkExit', TraceOp
    PROVE  GuestPc' = GoesTo
<1> DEFINE ops == Tr.ops
           o == Operand
           L == Len(Tr.ops)
           n == Next1(Operand)
<1>1. /\ ph = "trace" /\ ~Bails(Tr, o)
      /\ pc' = (IF Diverges THEN GoesTo ELSE LeavesAt)
      /\ ph' = IF Diverges \/ (Completes /\ ~Repeats) THEN "leave" ELSE "trace"
      /\ x'.i = IF Repeats THEN 1 ELSE IF Diverges \/ Completes THEN x.i ELSE n
      /\ Completes /\ ~Diverges /\ ~Repeats => x'.how = "complete"
      /\ x'.head = x.head /\ j' = j
  BY TraceOpParts
<1>2. /\ Path(ops) /\ ops \in Seq(OpRec) /\ L \in Nat \ {0} /\ x.i \in 1..L /\ Last(ops) = ops[L]
      /\ ops[1].pc = x.head /\ Recorded(o) /\ o \in OpRec
  BY <1>1, TraceRuns DEF Operand
<1>3. Tr' = Tr
  BY <1>1 DEF Tr
<1>4. GuestPc' = IF ph' = "trace" THEN ops[x'.i].pc ELSE pc'
  BY <1>1, <1>3 DEF GuestPc, Tr
<1>5. o.top # "trap" /\ (o.top = "rtsret" => mem[cpu.sp].t = o.exp)
  BY <1>1 DEF Bails
<1>6. o = ops[x.i]
  BY DEF Operand
<1> DEFINE taken == o.top = "condskip" /\ cpu.f
<1>7. n = IF taken THEN x.i + 1 + o.skip ELSE x.i + 1
  BY DEF Next1
<1>8. o.top = "condskip" =>
        /\ x.i + o.skip \in (x.i + 1)..L /\ o.skip \in Nat
        /\ ops[x.i + o.skip].top \in {"plain", "mem"}
        /\ After(ops[x.i + o.skip].pc) = o.ins.t
        /\ x.i + o.skip < L => ops[x.i + o.skip + 1].pc = o.ins.t
        /\ GoesTo = IF cpu.f THEN o.ins.t ELSE After(o.pc)
  <2> SUFFICES ASSUME o.top = "condskip"
               PROVE  /\ x.i + o.skip \in (x.i + 1)..L /\ o.skip \in Nat
                      /\ ops[x.i + o.skip].top \in {"plain", "mem"}
                      /\ After(ops[x.i + o.skip].pc) = o.ins.t
                      /\ x.i + o.skip < L => ops[x.i + o.skip + 1].pc = o.ins.t
                      /\ GoesTo = IF cpu.f THEN o.ins.t ELSE After(o.pc)
    OBVIOUS
  <2>1. o.ins.k = "bcc"
    BY <1>2, RecordedAs
  <2>2. GoesTo = IF cpu.f THEN o.ins.t ELSE After(o.pc)
    BY <2>1 DEF GoesTo, Target
  <2> QED BY <1>2, <1>6, <2>2, SkipGoes, OpTypes
<1>9. CASE Diverges
  BY <1>1, <1>4, <1>9
<1>10. ASSUME ~Diverges, Onwards(o) PROVE GoesTo = Onward(o)
  BY <1>2, <1>5, <1>10, GoesOnward DEF Diverges, GoesTo
<1>11. CASE ~Diverges /\ ~Completes
  <2>1. ph' = "trace" /\ x'.i = n /\ n <= L
    <3>1. n \in Nat
      BY <1>1, NextOperation DEF Operand
    <3>2. n <= L
      BY <1>2, <1>11, <3>1 DEF Completes
    <3> QED BY <1>1, <1>11, <3>2 DEF Repeats
  <2>2. ops[n].pc = GoesTo
    <3>1. CASE taken
      <4>1. n = x.i + o.skip + 1 /\ x.i + o.skip < L
        BY <1>2, <1>7, <1>8, <2>1, <3>1
      <4> QED BY <1>8, <3>1, <4>1
    <3>2. CASE ~taken
      <4>1. n = x.i + 1 /\ x.i \in 1..(L - 1)
        BY <1>2, <1>7, <2>1, <3>2
      <4>2. ops[x.i + 1].pc = Onward(o) /\ (Onwards(o) \/ o.top = "condskip")
        BY <1>2, <1>6, <4>1 DEF Path
      <4>3. CASE Onwards(o)
        BY <1>10, <1>11, <4>1, <4>2, <4>3
      <4>4. CASE o.top = "condskip"
        <5>1. Onward(o) = After(o.pc)
          BY <4>4 DEF Onward
        <5> QED BY <1>8, <3>2, <4>1, <4>2, <4>4, <5>1
      <4> QED BY <4>2, <4>3, <4>4
    <3> QED BY <3>1, <3>2
  <2> QED BY <1>4, <2>1, <2>2
<1>12. CASE ~Diverges /\ Completes
  <2>1. CASE taken
    <3>1. x.i + o.skip = L
      <4>1. n = x.i + 1 + o.skip /\ n > L
        BY <1>7, <1>12, <2>1 DEF Completes
      <4> QED BY <1>2, <1>8, <2>1, <4>1
    <3>2. ~ends_trace(Last(ops)) /\ LinkPc(Tr) = GoesTo
      BY <1>2, <1>8, <2>1, <3>1 DEF ends_trace, LinkPc
    <3>3. LeavesAt = GoesTo
      BY <1>12, <3>2 DEF LeavesAt
    <3>4. pc' = GoesTo
      BY <1>1, <1>12, <3>3
    <3>5. ph' = "trace" => ops[x'.i].pc = pc'
      BY <1>1, <1>2, <1>12 DEF Repeats
    <3> QED BY <1>4, <3>4, <3>5
  <2>2. CASE ~taken
    <3>1. x.i = L /\ o = Last(ops)
      <4>1. n = x.i + 1 /\ n > L
        BY <1>7, <1>12, <2>2 DEF Completes
      <4> QED BY <1>2, <1>6, <4>1
    <3>2. o.top # "condskip"
      BY <1>2, <1>8, <3>1
    <3>3. CASE ends_trace(o)
      <4>1. SetsPc(o)
        BY <1>5, <3>3 DEF ends_trace, SetsPc
      <4>2. LeavesAt = GoesTo
        BY <3>1, <3>3, <4>1 DEF LeavesAt
      <4>3. ph' = "trace" => ops[x'.i].pc = LeavesAt
        BY <1>1, <1>2, <1>12 DEF Repeats
      <4> QED BY <1>1, <1>4, <1>12, <4>2, <4>3
    <3>4. CASE ~ends_trace(o)
      <4>1. ~Repeats
        <5>1. x.max \in Nat /\ x.full \in Nat /\ (x.max > 1 => Tr.loop)
          BY <1>1 DEF IInv, Inside
        <5>2. Tr.loop => ends_trace(Last(Tr.ops))
          BY <1>1, TraceRuns DEF Trace
        <5> QED BY <3>1, <3>4, <5>1, <5>2 DEF Repeats
      <4>2. ph' = "leave" /\ x'.how = "complete"
        BY <1>1, <1>12, <4>1
      <4>3. pc' = CASE Last(ops).top = "call" -> Last(ops).ins.t
                    [] Last(ops).top = "rtsret" -> Last(ops).exp
                    [] OTHER -> After(Last(ops).pc)
        BY <1>3, <3>1, <3>4, <4>2 DEF LinkExit, Tr
      <4>4. o.top \in {"plain", "mem", "call", "rtsret"}
        BY <1>2, <3>2, <3>4, RecordedAs DEF ends_trace, Tops
      <4>5. pc' = GoesTo
        <5>1. CASE o.top \in {"plain", "mem"}
          <6>1. o.ins.k \in {"op", "st", "cmpm"}
            BY <1>2, <5>1, RecordedAs
          <6>2. GoesTo = After(o.pc)
            BY <6>1, PlainTarget DEF GoesTo
          <6> QED BY <3>1, <4>3, <5>1, <6>2
        <5>2. CASE o.top = "call"
          <6>1. o.ins.k = "bsr"
            BY <1>2, <5>2, RecordedAs
          <6>2. GoesTo = o.ins.t
            BY <6>1 DEF GoesTo, Target
          <6> QED BY <3>1, <4>3, <5>2, <6>2
        <5>3. CASE o.top = "rtsret"
          <6>1. o.ins.k = "rts"
            BY <1>2, <5>3, RecordedAs
          <6>2. GoesTo = mem[cpu.sp].t
            BY <6>1 DEF GoesTo, Target
          <6> QED BY <1>5, <3>1, <4>3, <5>3, <6>2
        <5> QED BY <4>4, <5>1, <5>2, <5>3
      <4> QED BY <1>4, <4>2, <4>5
    <3> QED BY <3>3, <3>4
  <2> QED BY <2>1, <2>2
<1> QED BY <1>9, <1>11, <1>12

\* An operation of a running trace is the instruction at its address.
LEMMA TraceRefines == IInv /\ LinkExit' /\ TraceOp => Contract!Step
<1> SUFFICES ASSUME IInv, LinkExit', TraceOp PROVE Contract!Step
  OBVIOUS
<1>1. /\ ph = "trace" /\ ~Bails(Tr, Operand) /\ ph' \in {"trace", "leave"}
      /\ cpu' = (IF Operand.top = "condskip" THEN cpu ELSE Registers(Operand.ins, Operand.pc, cpu, mem))
      /\ mem' = Stored(Operand.ins, Operand.pc, cpu, mem)
      /\ left' = left - 1 /\ fresh' = FALSE /\ watch' = watch /\ exit' = exit
  BY TraceOpParts
<1>2. GuestPc = Operand.pc /\ GuestPc' = GoesTo
  BY <1>1, TraceGoes DEF GuestPc, Operand, Tr
<1>3. /\ Recorded(Operand) /\ x.i \in 1..Len(Tr.ops) /\ Len(Tr.ops) \in Nat \ {0} /\ Tr.ops[1].pc = x.head
  BY <1>1, TraceRuns DEF Operand
<1>4. mem[Operand.pc] = Operand.ins
  BY <1>1, <1>3 DEF IInv, Inside, Operand
<1>5. Operand.ins.k \notin {"al", "tr", "bad"}
  BY <1>1, <1>3, RecordedAs DEF Bails
<1>6. cpu' = Registers(Operand.ins, Operand.pc, cpu, mem)
  <2>1. Operand.top = "condskip" => Operand.ins.k = "bcc"
    BY <1>3, RecordedAs
  <2> QED BY <1>1, <2>1 DEF Registers
<1>7. left > 0 /\ ~(~fresh /\ Operand.pc \in watch)
  <2>1. /\ left \in Nat /\ x.max \in Nat /\ x.full \in Nat /\ x.full < x.max
        /\ (x.i = 1 /\ x.head \in watch => fresh)
        /\ \A n \in 2..Len(Tr.ops) : Tr.ops[n].pc \notin watch
        /\ left >= (x.max - x.full - 1) * Len(Tr.ops) + (Len(Tr.ops) - x.i + 1)
    BY <1>1 DEF IInv, Types, Inside, Covered
  <2> DEFINE K == (x.max - x.full - 1) * Len(Tr.ops)
  <2>2. K \in Nat
    <3>1. x.max - x.full - 1 \in Nat
      BY <2>1
    <3> QED BY <1>3, <3>1
  <2>3. left >= K + (Len(Tr.ops) - x.i + 1)
    BY <2>1
  <2> HIDE DEF K
  <2>4. left > 0
    BY <1>3, <2>1, <2>2, <2>3
  <2>5. ~(~fresh /\ Operand.pc \in watch)
    <3>1. CASE x.i = 1
      BY <1>3, <2>1, <3>1 DEF Operand
    <3>2. CASE x.i \in 2..Len(Tr.ops)
      BY <2>1, <3>2 DEF Operand
    <3> QED BY <1>3, <3>1, <3>2
  <2> QED BY <2>4, <2>5
<1>8. /\ GuestPc' = Contract!Target(mem[GuestPc], GuestPc, cpu, mem)
      /\ cpu' = Contract!Registers(mem[GuestPc], GuestPc, cpu, mem)
      /\ mem' = Contract!Stored(mem[GuestPc], GuestPc, cpu, mem)
  BY <1>1, <1>2, <1>4, <1>6, SameGuest DEF GoesTo
<1> QED BY <1>1, <1>2, <1>4, <1>5, <1>7, <1>8 DEF Contract!Step, Contract!ReportWatch

\* The cache at work is invisible.
LEMMA CacheRefines ==
    IInv /\ (Probe \/ Chain \/ TraceBail \/ LeaveTrace \/ RanOn \/ DecodedMiss) => UNCHANGED Contract!guestvars
<1> SUFFICES ASSUME IInv, Probe \/ Chain \/ TraceBail \/ LeaveTrace \/ RanOn \/ DecodedMiss
             PROVE  UNCHANGED Contract!guestvars
  OBVIOUS
<1>1. /\ GuestPc' = GuestPc /\ cpu' = cpu /\ mem' = mem /\ left' = left /\ fresh' = fresh
      /\ watch' = watch /\ exit' = exit /\ ph # "host" /\ ph' # "host"
  <2>1. ASSUME NEW after, after \in {"interp", "ran"}, NEW single, NEW chain, TryExecute(after, single, chain),
               ph \in {"loop", "chain"}
        PROVE  /\ GuestPc' = GuestPc /\ cpu' = cpu /\ mem' = mem /\ left' = left /\ fresh' = fresh
               /\ ph' # "host"
    <3>1. CASE ProbeOutcome = "enter"
      <4>1. EnterTrace(Slot(j, pc), single, chain)
        BY <2>1, <3>1 DEF TryExecute
      <4>2. ph' = "trace" /\ j' = j /\ pc' = pc /\ cpu' = cpu /\ mem' = mem /\ left' = left /\ fresh' = fresh
        BY <4>1 DEF EnterTrace, guest
      <4>3. x'.head = pc /\ x'.i = 1
        BY <4>1 DEF EnterTrace
      <4>4. Slot(j, pc).ops[1].pc = pc
        <5>1. Slot(j, pc).k = "compiled" /\ Slot(j, pc).pc = pc /\ Good(j) /\ pc \in Addr
          BY <3>1, Outcomes DEF compiled_head_at, Holds, IInv, Types
        <5>2. Trace(Slot(j, pc))
          BY <5>1, SlotVerdict
        <5> QED BY <5>1, <5>2 DEF Trace, From
      <4>5. GuestPc' = Slot(j, pc).ops[1].pc
        BY <4>2, <4>3 DEF GuestPc
      <4> QED BY <2>1, <4>2, <4>4, <4>5, AtPc
    <3>2. CASE ProbeOutcome # "enter"
      <4>1. \E q : NotRun(q, IF ProbeOutcome = "miss" THEN "disp" ELSE after)
        BY <2>1, <3>2, Zenon DEF TryExecute
      <4>2. /\ ph' \in {"disp", "interp", "ran"}
            /\ pc' = pc /\ cpu' = cpu /\ mem' = mem /\ left' = left /\ fresh' = fresh
        BY <2>1, <4>1 DEF NotRun, guest
      <4>3. GuestPc' = pc'
        BY <4>2 DEF GuestPc
      <4> QED BY <2>1, <4>2, <4>3, AtPc
    <3> QED BY <3>1, <3>2
  <2>2. CASE Probe
    <3>1. \E z : TryExecute("interp", z, TRACE_EXIT_CHAIN_BUDGET)
      BY <2>2, Zenon DEF Probe
    <3>2. ph = "loop" /\ watch' = watch /\ exit' = exit
      BY <2>2 DEF Probe, call
    <3> QED BY <2>1, <3>1, <3>2
  <2>3. CASE Chain
    <3>1. TryExecute("ran", FALSE, x.chain) /\ ph = "chain" /\ watch' = watch /\ exit' = exit
      BY <2>3 DEF Chain, call
    <3> QED BY <2>1, <3>1
  <2>4. CASE TraceBail
    <3>1. /\ ph = "trace" /\ ph' = "leave" /\ pc' = Operand.pc
          /\ cpu' = cpu /\ mem' = mem /\ left' = left /\ fresh' = fresh /\ watch' = watch /\ exit' = exit
      BY <2>4 DEF TraceBail, Tr, Operand, call
    <3>2. GuestPc = Operand.pc /\ GuestPc' = pc'
      BY <3>1 DEF GuestPc, Operand, Tr
    <3> QED BY <3>1, <3>2
  <2>5. CASE LeaveTrace
    <3>1. /\ ph = "leave" /\ pc' = pc /\ cpu' = cpu /\ mem' = mem /\ left' = left /\ fresh' = fresh
          /\ watch' = watch /\ exit' = exit
      BY <2>5 DEF LeaveTrace, guest, call
    <3>2. ph' \in {"interp", "ran", "chain"}
      BY <2>5 DEF LeaveTrace, SeedExit, AfterEmptyRun
    <3>3. GuestPc = pc /\ GuestPc' = pc'
      BY <3>1, <3>2 DEF GuestPc
    <3> QED BY <3>1, <3>2, <3>3
  <2>6. CASE RanOn \/ DecodedMiss
    <3>1. /\ ph # "host" /\ ph # "trace" /\ ph' \in {"loop", "disp"} /\ pc' = pc /\ cpu' = cpu /\ mem' = mem
          /\ left' = left /\ fresh' = fresh /\ watch' = watch /\ exit' = exit
      BY <2>6 DEF RanOn, DecodedMiss, Decoding, guest, call
    <3>2. GuestPc = pc /\ GuestPc' = pc'
      BY <3>1 DEF GuestPc
    <3> QED BY <3>1, <3>2
  <2> QED BY <2>2, <2>3, <2>4, <2>5, <2>6
<1> QED BY <1>1 DEF Contract!guestvars

LEMMA NextRefines == IInv /\ Ordinary' /\ [Next]_vars => [Contract!Next]_Contract!guestvars
<1> SUFFICES ASSUME IInv, LinkExit', [Next]_vars PROVE [Contract!Next]_Contract!guestvars
  BY DEF Ordinary
<1>1. CASE Host
  BY <1>1, HostRefines
<1>2. CASE BudgetExhausted \/ RanWatched \/ WatchedPc
  BY <1>2, ReturnRefines DEF Contract!Next
<1>3. CASE AlineTrap \/ OtherTrap
  BY <1>3, TrapRefines DEF Contract!Next
<1>4. CASE DecodedOp \/ Dispatch \/ DispatchFault
  BY <1>4, StepRefines DEF Contract!Next
<1>5. CASE FetchFault
  BY <1>5, FetchRefines DEF Contract!Next
<1>6. CASE TraceOp
  BY <1>6, TraceRefines DEF Contract!Next
<1>7. CASE Probe \/ Chain \/ TraceBail \/ LeaveTrace \/ RanOn \/ DecodedMiss
  BY <1>7, CacheRefines
<1>8. CASE UNCHANGED vars
  <2>1. /\ pc' = pc /\ cpu' = cpu /\ mem' = mem /\ left' = left /\ fresh' = fresh /\ watch' = watch
        /\ exit' = exit /\ ph' = ph /\ x' = x /\ j' = j
    BY <1>8 DEF vars
  <2> QED BY <2>1 DEF Contract!guestvars, GuestPc
<1> QED BY <1>1, <1>2, <1>3, <1>4, <1>5, <1>6, <1>7, <1>8 DEF Next, Engine

\* run_batch with the trace cache is run_batch without one: the instructions it
\* retires, the state it leaves and the places where it returns are those of
\* executing the guest's instructions one by one from memory.
THEOREM RunBatchKeepsItsContract == Spec /\ []Ordinary => Implements
<1>1. Init => Contract!Init
  BY InitRefines
<1>2. IInv /\ Ordinary' /\ [Next]_vars => [Contract!Next]_Contract!guestvars
  BY NextRefines
<1> QED BY <1>1, <1>2, AlwaysIInv, PTL DEF Spec, Implements, Contract!Spec

=============================================================================
