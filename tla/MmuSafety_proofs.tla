-------------------------- MODULE MmuSafety_proofs --------------------------
(***************************************************************************)
(* Safety of the PMMU and its data path, for every set of guests, every    *)
(* ATC size and every number of outstanding frames.  Inv is the inductive  *)
(* invariant: a conjunction of what is true of the machine (Whole), of the *)
(* instruction under way (Working), of the frames (Stacked, Reported), of  *)
(* the log, the probe and a halt (Truthful), and of the bytes still to be  *)
(* transferred (Armless, Transferred).  Each action has its lemma (CycleInv*)
(* for NextCycle); the theorems are at the end.                            *)
(***************************************************************************)
EXTENDS Mmu_proofs

----------------------------------------------------------------------------
(* The cycles of an access *)

\* Sequence s holds cycles of this kind, each inside lo..hi and, while
\* translation is on, inside one page, and together they cover lo..hi.
Chunk(x, kind, lo, hi, s) ==
    /\ s \in Seq([kind : {kind}, lb : Nat, n : 1..4]) /\ s # <<>>
    /\ \A j \in 1..Len(s) :
          /\ lo <= s[j].lb /\ s[j].lb + s[j].n - 1 <= hi
          /\ x.pmmu_enabled => (s[j].lb % PageBytes) + s[j].n <= PageBytes
    /\ \A b \in lo..hi : \E j \in 1..Len(s) : b \in Bytes(s[j].lb, s[j].n)

LEMMA ChunkOne ==
    ASSUME NEW x, NEW kind, NEW lb \in Nat, NEW n \in 1..4,
           x.pmmu_enabled => (lb % PageBytes) + n <= PageBytes
    PROVE  Chunk(x, kind, lb, lb + n - 1, One(kind, lb, n))
<1> DEFINE k == [kind |-> kind, lb |-> lb, n |-> n]
           s == <<k>>
<1>1. One(kind, lb, n) = s
  BY DEF One
<1>2. k \in [kind : {kind}, lb : Nat, n : 1..4] /\ k.lb = lb /\ k.n = n
  OBVIOUS
<1> HIDE DEF k
<1>3. Len(s) = 1 /\ s[1] = k /\ s \in Seq([kind : {kind}, lb : Nat, n : 1..4]) /\ s # <<>>
  BY <1>2
<1> HIDE DEF s
<1>4. \A j \in 1..Len(s) : s[j] = k
  BY <1>3
<1>5. Chunk(x, kind, lb, lb + n - 1, s)
  BY <1>2, <1>3, <1>4 DEF Chunk, Bytes
<1> QED BY <1>1, <1>5

LEMMA ChunkCat ==
    ASSUME NEW x, NEW kind, NEW lo \in Nat, NEW mid \in Nat, NEW hi \in Nat, NEW s, NEW t,
           lo <= mid + 1, mid <= hi,
           Chunk(x, kind, lo, mid, s), Chunk(x, kind, mid + 1, hi, t)
    PROVE  Chunk(x, kind, lo, hi, s \o t)
<1> DEFINE S == [kind : {kind}, lb : Nat, n : 1..4]
           u == s \o t
<1>1. s \in Seq(S) /\ t \in Seq(S) /\ s # <<>>
  BY DEF Chunk
<1>2. /\ u \in Seq(S) /\ Len(u) = Len(s) + Len(t) /\ Len(s) \in Nat /\ Len(t) \in Nat
      /\ \A j \in 1..Len(u) : u[j] = IF j <= Len(s) THEN s[j] ELSE t[j - Len(s)]
      /\ Len(s) > 0
  BY <1>1
<1>3. u # <<>>
  BY <1>2
<1>4. \A j \in 1..Len(u) : \/ j \in 1..Len(s) /\ u[j] = s[j]
                           \/ j - Len(s) \in 1..Len(t) /\ u[j] = t[j - Len(s)]
  BY <1>2
<1>5. /\ \A j \in 1..Len(s) : j \in 1..Len(u) /\ u[j] = s[j]
      /\ \A j \in 1..Len(t) : j + Len(s) \in 1..Len(u) /\ u[j + Len(s)] = t[j]
  BY <1>2
<1>6. \A k \in S : k.lb \in Nat /\ k.n \in 1..4
  OBVIOUS
<1> HIDE DEF u, S
<1>7. (\A j \in 1..Len(s) : s[j] \in S) /\ \A j \in 1..Len(t) : t[j] \in S
  BY <1>1
<1>8. ASSUME NEW j \in 1..Len(u)
      PROVE  /\ lo <= u[j].lb /\ u[j].lb + u[j].n - 1 <= hi
             /\ x.pmmu_enabled => (u[j].lb % PageBytes) + u[j].n <= PageBytes
  <2>1. CASE j \in 1..Len(s) /\ u[j] = s[j]
    <3>1. /\ lo <= s[j].lb /\ s[j].lb + s[j].n - 1 <= mid
          /\ x.pmmu_enabled => (s[j].lb % PageBytes) + s[j].n <= PageBytes
      BY <2>1 DEF Chunk
    <3>2. s[j].lb \in Nat /\ s[j].n \in 1..4
      BY <1>6, <1>7, <2>1
    <3> QED BY <2>1, <3>1, <3>2
  <2>2. CASE j - Len(s) \in 1..Len(t) /\ u[j] = t[j - Len(s)]
    <3> DEFINE i == j - Len(s)
    <3> HIDE DEF i
    <3>1. i \in 1..Len(t) /\ u[j] = t[i]
      BY <2>2 DEF i
    <3>2. /\ mid + 1 <= t[i].lb /\ t[i].lb + t[i].n - 1 <= hi
          /\ x.pmmu_enabled => (t[i].lb % PageBytes) + t[i].n <= PageBytes
      BY <3>1 DEF Chunk
    <3>3. t[i].lb \in Nat /\ t[i].n \in 1..4
      BY <1>6, <1>7, <3>1
    <3> QED BY <3>1, <3>2, <3>3
  <2> QED BY <1>4, <2>1, <2>2
<1>9. ASSUME NEW b \in lo..hi PROVE \E j \in 1..Len(u) : b \in Bytes(u[j].lb, u[j].n)
  <2>1. CASE b <= mid
    <3>1. PICK j \in 1..Len(s) : b \in Bytes(s[j].lb, s[j].n)
      BY <2>1 DEF Chunk
    <3> QED BY <1>5, <3>1
  <2>2. CASE b > mid
    <3>1. PICK j \in 1..Len(t) : b \in Bytes(t[j].lb, t[j].n)
      BY <2>2 DEF Chunk
    <3> QED BY <1>5, <3>1
  <2> QED BY <2>1, <2>2
<1>10. Chunk(x, kind, lo, hi, u)
  BY <1>2, <1>3, <1>8, <1>9 DEF Chunk, S
<1> QED BY <1>10 DEF u

LEMMA Chunk16 ==
    ASSUME NEW x, NEW kind, NEW lb \in Nat
    PROVE  Chunk(x, kind, lb, lb + 1, split_16(x, kind, lb))
<1>1. CASE Straddles(x, lb, 2)
  <2>1. Chunk(x, kind, lb, lb, One(kind, lb, 1)) /\ Chunk(x, kind, lb + 1, lb + 1, One(kind, lb + 1, 1))
    <3>1. (lb % PageBytes) + 1 <= PageBytes /\ ((lb + 1) % PageBytes) + 1 <= PageBytes
      BY DEF PageBytes
    <3>2. Chunk(x, kind, lb, lb + 1 - 1, One(kind, lb, 1))
      BY <3>1, ChunkOne
    <3>3. Chunk(x, kind, lb + 1, (lb + 1) + 1 - 1, One(kind, lb + 1, 1))
      BY <3>1, ChunkOne
    <3>4. lb + 1 - 1 = lb /\ (lb + 1) + 1 - 1 = lb + 1
      OBVIOUS
    <3> QED BY <3>2, <3>3, <3>4
  <2>2. Chunk(x, kind, lb, lb + 1, One(kind, lb, 1) \o One(kind, lb + 1, 1))
    <3>1. lb + 1 \in Nat /\ lb <= lb + 1
      OBVIOUS
    <3> QED BY <2>1, <3>1, ChunkCat
  <2> QED BY <1>1, <2>2 DEF split_16
<1>2. CASE ~Straddles(x, lb, 2)
  <2>1. x.pmmu_enabled => (lb % PageBytes) + 2 <= PageBytes
    BY <1>2 DEF Straddles, PageBytes
  <2>2. Chunk(x, kind, lb, lb + 2 - 1, One(kind, lb, 2))
    <3> DEFINE n == 2
    <3>1. n \in 1..4 /\ (x.pmmu_enabled => (lb % PageBytes) + n <= PageBytes)
      BY <2>1
    <3> HIDE DEF n
    <3>2. Chunk(x, kind, lb, lb + n - 1, One(kind, lb, n))
      BY <3>1, ChunkOne
    <3> QED BY <3>2 DEF n
  <2>3. lb + 2 - 1 = lb + 1
    OBVIOUS
  <2> QED BY <1>2, <2>2, <2>3 DEF split_16
<1> QED BY <1>1, <1>2

\* Split covers the operand with cycles inside one page each.
LEMMA ChunkSplit ==
    ASSUME NEW x, NEW kind, NEW lb \in Nat, NEW n \in 1..4
    PROVE  Chunk(x, kind, lb, lb + n - 1, Split(x, kind, lb, n))
<1>1. CASE n = 1
  <2>1. (lb % PageBytes) + 1 <= PageBytes
    BY DEF PageBytes
  <2>2. Chunk(x, kind, lb, lb + 1 - 1, One(kind, lb, 1))
    BY <2>1, ChunkOne
  <2> QED BY <1>1, <2>2 DEF Split
<1>2. CASE n = 2
  <2>1. lb + n - 1 = lb + 1
    BY <1>2
  <2> QED BY <1>2, <2>1, Chunk16 DEF Split
<1>3. CASE n = 3
  <2>0. Split(x, kind, lb, n) = split_24(x, kind, lb) /\ lb + n - 1 = lb + 2
    BY <1>3 DEF Split
  <2>1. CASE Straddles(x, lb, 3)
    <3>1. Chunk(x, kind, lb, lb + 1, split_16(x, kind, lb))
      BY Chunk16
    <3>2. ((lb + 2) % PageBytes) + 1 <= PageBytes
      BY DEF PageBytes
    <3>3. Chunk(x, kind, lb + 2, (lb + 2) + 1 - 1, One(kind, lb + 2, 1))
      BY <3>2, ChunkOne
    <3>4. (lb + 2) + 1 - 1 = lb + 2 /\ (lb + 1) + 1 = lb + 2
      OBVIOUS
    <3>5. Chunk(x, kind, (lb + 1) + 1, lb + 2, One(kind, lb + 2, 1))
      BY <3>3, <3>4
    <3>6. Chunk(x, kind, lb, lb + 2, split_16(x, kind, lb) \o One(kind, lb + 2, 1))
      BY <3>1, <3>5, ChunkCat
    <3> QED BY <2>0, <2>1, <3>6 DEF split_24
  <2>2. CASE ~Straddles(x, lb, 3)
    <3>1. x.pmmu_enabled => (lb % PageBytes) + 3 <= PageBytes
      BY <2>2 DEF Straddles, PageBytes
    <3>2. Chunk(x, kind, lb, lb + 3 - 1, One(kind, lb, 3))
      BY <3>1, ChunkOne
    <3> QED BY <1>3, <2>0, <2>2, <3>2 DEF split_24
  <2> QED BY <2>1, <2>2
<1>4. CASE n = 4
  <2>0. Split(x, kind, lb, n) = split_32(x, kind, lb) /\ lb + n - 1 = lb + 3
    BY <1>4 DEF Split
  <2>1. CASE Straddles(x, lb, 4)
    <3>1. Chunk(x, kind, lb, lb + 1, split_16(x, kind, lb))
      BY Chunk16
    <3>2. Chunk(x, kind, lb + 2, (lb + 2) + 1, split_16(x, kind, lb + 2))
      BY Chunk16
    <3>3. (lb + 2) + 1 = lb + 3 /\ (lb + 1) + 1 = lb + 2
      OBVIOUS
    <3>4. Chunk(x, kind, (lb + 1) + 1, lb + 3, split_16(x, kind, lb + 2))
      BY <3>2, <3>3
    <3>5. Chunk(x, kind, lb, lb + 3, split_16(x, kind, lb) \o split_16(x, kind, lb + 2))
      BY <3>1, <3>4, ChunkCat
    <3> QED BY <2>0, <2>1, <3>5 DEF split_32
  <2>2. CASE ~Straddles(x, lb, 4)
    <3>1. x.pmmu_enabled => (lb % PageBytes) + 4 <= PageBytes
      BY <2>2 DEF Straddles, PageBytes
    <3>2. Chunk(x, kind, lb, lb + 4 - 1, One(kind, lb, 4))
      BY <3>1, ChunkOne
    <3> QED BY <1>4, <2>0, <2>2, <3>2 DEF split_32
  <2> QED BY <2>1, <2>2
<1> QED BY <1>1, <1>2, <1>3, <1>4

Kinds == {"read", "write", "fetch", "plpar", "plpaw"}
CycleRec == [kind : Kinds, lb : Nat, n : 1..4]
Writes == {"write", "movesw"}
Accesses == {"read", "write", "movesr", "movesw", "fetch"}

\* The operations whose cycles are of this kind
OpsOf(kind) ==
    CASE kind = "read" -> {"read", "movesr", "pmovecrp", "pmovetc"} [] kind = "write" -> Writes
      [] OTHER -> {kind}

\* Cycle k is one of instruction i on machine x
Due(x, i, k) ==
    /\ k \in CycleRec /\ i.op \in OpsOf(k.kind) /\ Inside(x, k)
    /\ k.kind \in {"plpar", "plpaw"} => k.n = 4
    /\ k.lb \in Bytes(i.addr, i.size)

\* The cycles of s transfer every byte of the operand of i
Spans(i, s) ==
    \A b \in Bytes(i.addr, i.size) : \E j \in 1..Len(s) : b \in Bytes(s[j].lb, s[j].n)

LEMMA ChunkDue ==
    ASSUME NEW x, NEW i, Encoded(i), NEW kind \in Kinds, NEW s, i.op \in OpsOf(kind),
           kind \notin {"plpar", "plpaw"}, i.size \in Nat \ {0},
           Chunk(x, kind, i.addr, i.addr + i.size - 1, s)
    PROVE  /\ s \in Seq(CycleRec) /\ s # <<>> /\ Spans(i, s)
           /\ \A j \in 1..Len(s) : Due(x, i, s[j])
<1> DEFINE S == [kind : {kind}, lb : Nat, n : 1..4]
<1>1. s \in Seq(S) /\ s # <<>> /\ Spans(i, s)
  BY DEF Chunk, Spans, Bytes
<1>2. \A k \in S : k \in CycleRec /\ k.kind = kind /\ k.lb \in Nat /\ k.n \in 1..4
  BY DEF CycleRec
<1> HIDE DEF S
<1>3. \A j \in 1..Len(s) : s[j] \in S
  BY <1>1
<1>4. s \in Seq(CycleRec)
  BY <1>1, <1>2, <1>3
<1>5. ASSUME NEW j \in 1..Len(s) PROVE Due(x, i, s[j])
  <2>1. /\ s[j] \in CycleRec /\ s[j].kind = kind /\ s[j].lb \in Nat /\ s[j].n \in 1..4
    BY <1>2, <1>3
  <2>2. /\ i.addr <= s[j].lb /\ s[j].lb + s[j].n - 1 <= i.addr + i.size - 1
        /\ x.pmmu_enabled => (s[j].lb % PageBytes) + s[j].n <= PageBytes
    BY DEF Chunk
  <2>3. i.addr \in Nat
    BY DEF Encoded
  <2>4. s[j].lb \in Bytes(i.addr, i.size)
    BY <2>1, <2>2, <2>3 DEF Bytes
  <2>5. Inside(x, s[j])
    BY <2>2 DEF Inside
  <2> QED BY <2>1, <2>4, <2>5 DEF Due
<1> QED BY <1>1, <1>4, <1>5

\* The cycles of an instruction are its own, and cover its operand.
LEMMA CyclesDue ==
    ASSUME NEW x, NEW i, Encoded(i)
    PROVE  LET s == Cycles(x, i)
           IN  /\ s \in Seq(CycleRec) /\ s # <<>> /\ Spans(i, s)
               /\ \A j \in 1..Len(s) : Due(x, i, s[j])
<1> DEFINE lo == i.addr
           hi == i.addr + i.size - 1
           s == Cycles(x, i)
<1>0. i.addr \in Nat
  BY DEF Encoded
<1>1. CASE i.op \in {"read", "movesr"} /\ i.size \in 1..4
  <2>1. s = Split(x, "read", i.addr, i.size)
    BY <1>1 DEF Cycles
  <2>2. Chunk(x, "read", lo, hi, s)
    BY <1>0, <1>1, <2>1, ChunkSplit
  <2>3. i.op \in OpsOf("read") /\ "read" \in Kinds /\ i.size \in Nat \ {0}
    BY <1>1 DEF OpsOf, Kinds
  <2> HIDE DEF s
  <2> QED BY <2>2, <2>3, ChunkDue DEF s
<1>2. CASE i.op \in {"write", "movesw"} /\ i.size \in 1..4
  <2>1. s = Split(x, "write", i.addr, i.size)
    BY <1>2 DEF Cycles
  <2>2. Chunk(x, "write", lo, hi, s)
    BY <1>0, <1>2, <2>1, ChunkSplit
  <2>3. i.op \in OpsOf("write") /\ "write" \in Kinds /\ i.size \in Nat \ {0}
    BY <1>2 DEF OpsOf, Kinds, Writes
  <2> HIDE DEF s
  <2> QED BY <2>2, <2>3, ChunkDue DEF s
<1>3. CASE i.op = "fetch" /\ i.size \in {2, 4} /\ i.addr % 2 = 0
  <2>1. s = split_imm(x, i.addr, i.size)
    BY <1>3 DEF Cycles
  <2>2. Chunk(x, "fetch", lo, hi, s)
    <3>1. CASE i.size = 4 /\ Straddles(x, i.addr, 4)
      <4> DEFINE n == 2
                 a == lo + 2
      <4>1. s = One("fetch", lo, n) \o One("fetch", a, n)
        BY <2>1, <3>1 DEF split_imm
      <4>2. /\ n \in 1..4 /\ (lo % PageBytes) + n <= PageBytes /\ (a % PageBytes) + n <= PageBytes
            /\ lo \in Nat /\ a \in Nat /\ a = (lo + n - 1) + 1 /\ hi = a + n - 1
            /\ lo + n - 1 \in Nat /\ hi \in Nat /\ lo <= (lo + n - 1) + 1 /\ lo + n - 1 <= hi
        BY <1>0, <1>3, <3>1 DEF PageBytes
      <4> HIDE DEF n, a, s, lo, hi
      <4>3. Chunk(x, "fetch", lo, lo + n - 1, One("fetch", lo, n))
        BY <4>2, ChunkOne
      <4>4. Chunk(x, "fetch", a, a + n - 1, One("fetch", a, n))
        BY <4>2, ChunkOne
      <4>5. Chunk(x, "fetch", (lo + n - 1) + 1, hi, One("fetch", a, n))
        BY <4>2, <4>4
      <4>6. Chunk(x, "fetch", lo, hi, One("fetch", lo, n) \o One("fetch", a, n))
        BY <4>2, <4>3, <4>5, ChunkCat
      <4> QED BY <4>1, <4>6
    <3>2. CASE ~(i.size = 4 /\ Straddles(x, i.addr, 4))
      <4> DEFINE n == i.size
      <4>1. s = One("fetch", lo, n)
        BY <2>1, <3>2 DEF split_imm
      <4>2. n \in 1..4 /\ (x.pmmu_enabled => (lo % PageBytes) + n <= PageBytes)
        <5>1. CASE n = 2
          BY <1>0, <1>3, <5>1 DEF PageBytes
        <5>2. CASE n = 4
          BY <1>0, <3>2, <5>2 DEF PageBytes, Straddles
        <5> QED BY <1>3, <5>1, <5>2
      <4> QED BY <1>0, <4>1, <4>2, ChunkOne
    <3> QED BY <3>1, <3>2
  <2>3. i.op \in OpsOf("fetch") /\ "fetch" \in Kinds /\ i.size \in Nat \ {0}
    BY <1>3 DEF OpsOf, Kinds
  <2> HIDE DEF s
  <2> QED BY <2>2, <2>3, ChunkDue DEF s
<1>4. CASE i.op \in {"plpar", "plpaw"} /\ i.size = 4
  <2> DEFINE k == [kind |-> i.op, lb |-> i.addr, n |-> 4]
             r == <<k>>
  <2>1. s = r
    BY <1>4 DEF Cycles, One
  <2>2. k \in CycleRec /\ k.kind = i.op /\ k.lb = i.addr /\ k.n = 4
    BY <1>0, <1>4 DEF CycleRec, Kinds
  <2> HIDE DEF k
  <2>3. r \in Seq(CycleRec) /\ r # <<>> /\ Len(r) = 1 /\ r[1] = k
    BY <2>2
  <2> HIDE DEF r, s
  <2>4. i.addr \in Bytes(i.addr, i.size)
    BY <1>0, <1>4 DEF Bytes
  <2>5. Due(x, i, k)
    BY <1>4, <2>2, <2>4 DEF Due, OpsOf, Inside
  <2>6. Spans(i, r)
    BY <1>4, <2>2, <2>3 DEF Spans
  <2>7. \A j \in 1..Len(r) : r[j] = k
    BY <2>3
  <2> QED BY <2>1, <2>3, <2>5, <2>6, <2>7 DEF s
<1>5. CASE i.op = "pmovecrp" /\ i.size = 8
  <2> DEFINE n == 4
             a == lo + 4
  <2>1. s = Split(x, "read", lo, n) \o Split(x, "read", a, n)
    BY <1>5 DEF Cycles
  <2>2. /\ n \in 1..4 /\ lo \in Nat /\ a \in Nat /\ a = (lo + n - 1) + 1 /\ hi = a + n - 1
        /\ lo + n - 1 \in Nat /\ hi \in Nat /\ lo <= (lo + n - 1) + 1 /\ lo + n - 1 <= hi
    BY <1>0, <1>5
  <2>3. i.op \in OpsOf("read") /\ "read" \in Kinds /\ i.size \in Nat \ {0}
    BY <1>5 DEF OpsOf, Kinds
  <2> HIDE DEF n, a, s, lo, hi
  <2>4. Chunk(x, "read", lo, lo + n - 1, Split(x, "read", lo, n))
    BY <2>2, ChunkSplit
  <2>5. Chunk(x, "read", a, a + n - 1, Split(x, "read", a, n))
    BY <2>2, ChunkSplit
  <2>6. Chunk(x, "read", (lo + n - 1) + 1, hi, Split(x, "read", a, n))
    BY <2>2, <2>5
  <2>7. Chunk(x, "read", lo, hi, s)
    BY <2>1, <2>2, <2>4, <2>6, ChunkCat
  <2> QED BY <2>3, <2>7, ChunkDue DEF s, lo, hi
<1>6. CASE i.op = "pmovetc" /\ i.size = 4
  <2>1. s = Split(x, "read", i.addr, i.size)
    BY <1>6 DEF Cycles
  <2>2. Chunk(x, "read", lo, hi, s)
    BY <1>0, <1>6, <2>1, ChunkSplit
  <2>3. i.op \in OpsOf("read") /\ "read" \in Kinds /\ i.size \in Nat \ {0}
    BY <1>6 DEF OpsOf, Kinds
  <2> HIDE DEF s
  <2> QED BY <2>2, <2>3, ChunkDue DEF s
<1> QED BY <1>1, <1>2, <1>3, <1>4, <1>5, <1>6 DEF Encoded

----------------------------------------------------------------------------
(* The invariant, of machine x of guest h *)

Program(h) == h.code \cup h.irq
FrameSet(h) ==
    [kind : {"access", "config", "irq"}, fa : Nat, size : 0..4, write : BOOLEAN,
     instr : BOOLEAN, atc : BOOLEAN, fc : 0..7, s : BOOLEAN,
     data : [at : Nat, size : 0..4], ins : h.code \cup h.irq \cup {NoIns},
     handled : SUBSET Nat, df : BOOLEAN]

\* A guest that uses the MMU as the tables' reader does: no TTRs on the 68060,
\* which ignores them; a usable root when MOVES runs on the 68030, where a
\* configuration error is delivered in the space of the override; function codes
\* of user and supervisor data and program in SFC and DFC.
Orderly(x) ==
    /\ x.cpu_type = "M68060" => x.dtt = {}
    /\ x.cpu_type = "M68030" /\ x.ins.op \in {"movesr", "movesw"} => RootsValid(x)
    /\ {x.sfc, x.dfc} \subseteq {1, 2, 5, 6}

\* A guest whose 68030 always has a usable root, and that is not reset: no
\* configuration error and no reset leaves a cause pending.
SteadyRoots(h) ==
    /\ ~h.resets
    /\ \/ "M68030" \notin h.models
       \/ /\ ~(h.crp.dt < 2) /\ ~(h.srp.dt < 2) /\ h.tc.n + (IF h.tc.fcl THEN 1 ELSE 0) # 0
          /\ \A i \in h.code \cup h.irq : i.op # "pmovecrp"

\* The machine is one of its guest's
Whole(x, h) ==
    /\ h \in Hosts /\ Sound(x) /\ Typed(x) /\ Paged(x) /\ x.itt = x.dtt
    /\ x.cpu_type \in h.models /\ x.sfc = h.fc /\ x.dfc = h.fc

\* The instruction under way, its override and its cycles
UnderWay(x, h) ==
    /\ Running(x) /\ x.ov = moves_space(x, x.ins) /\ x.ins \in Program(h)
    /\ Len(x.frames) < MaxFrames /\ x.done = NoIns
    /\ x.ins.op \notin {"plpar", "plpaw"} => x.probe = NoProbe
Working(x, h) ==
    /\ Running(x) \/ Halted(x)
    /\ x.todo \in Seq(CycleRec)
    /\ x.todo = <<>> => x.ov = None
    /\ x.todo # <<>> => UnderWay(x, h)
    /\ \A j \in 1..Len(x.todo) : Due(x, x.ins, x.todo[j])

\* Frames, and the instructions to restart
Stacked(x, h) ==
    /\ x.frames \in Seq(FrameSet(h)) /\ Len(x.frames) <= MaxFrames
    /\ x.restart \in Program(h) \cup {NoIns} /\ x.ins \in Program(h) \cup {NoIns}
    /\ x.handled \in SUBSET Nat /\ x.excused \in SUBSET Nat

\* What was logged, probed or halted on is what the tables say
Truthful(x) ==
    Orderly(x) /\ Settled(x) =>
        /\ x.ins.op \notin {"pmovecrp", "pmovetc"} => \A e \in x.log : LogOK(x, e)
        /\ x.ins.op # "pmovetc" /\ Halted(x) => Stuck(x)
        /\ x.probe = NoProbe \/ ProbeTrue(x)

\* FrameFaithful, of one frame
FaithfulFrame(a, h) ==
    a.kind = "access" /\ a.atc /\ a.fa # TableAddr =>
        /\ a.fa \in Bytes(a.ins.addr, IF a.ins.op = "pmovecrp" THEN 8 ELSE a.ins.size)
        /\ a.fc = (CASE a.ins.op = "movesr" -> h.fc [] a.ins.op = "movesw" -> h.fc
                     [] OTHER -> Fc(a.s, a.instr))
        /\ a.write /\ a.ins.op # "plpaw" => a.data = [at |-> a.fa, size |-> a.size]
Reported(x, h) ==
    SteadyRoots(h) =>
        /\ NoConfig(x) /\ (Running(x) => x.cause = "none")
        /\ \A n \in 1..Len(x.frames) : FaithfulFrame(x.frames[n], h)

\* Byte b of instruction i was transferred, or completed by a fault handler
Moved(x, i, b) == b \in x.excused \/ \E e \in x.log : e.lb = b /\ e.write = (i.op \in Writes)
Armless(x, h) ==
    ~h.completes => /\ x.rd = None /\ x.ws = None
                    /\ \A n \in 1..Len(x.frames) : x.frames[n].df = TRUE
Transferred(x, h) ==
    ~h.completes =>
        /\ x.todo # <<>> /\ x.ins.op \in Accesses =>
              \A b \in Bytes(x.ins.addr, x.ins.size) :
                  Moved(x, x.ins, b) \/ \E j \in 1..Len(x.todo) : b \in Bytes(x.todo[j].lb, x.todo[j].n)
        /\ x.done.op \in Accesses => \A b \in Bytes(x.done.addr, x.done.size) : Moved(x, x.done, b)

Inv(x, h) ==
    /\ Whole(x, h) /\ Working(x, h) /\ Stacked(x, h) /\ Truthful(x) /\ Reported(x, h)
    /\ Armless(x, h) /\ Transferred(x, h)

\* No instruction is under way, nothing is logged
Rested(x) ==
    /\ x.todo = <<>> /\ x.ov = None /\ Running(x) /\ x.log = {} /\ x.done = NoIns
    /\ x.probe = NoProbe \/ (Orderly(x) /\ Settled(x) => ProbeTrue(x))

\* Between instructions the invariant is about registers and frames.
LEMMA RestedInv ==
    ASSUME NEW x, NEW h, Rested(x), Whole(x, h), Stacked(x, h), Reported(x, h), Armless(x, h)
    PROVE  Inv(x, h)
<1>1. x.todo = <<>> /\ x.ov = None /\ Running(x) /\ x.log = {} /\ x.done = NoIns
  BY DEF Rested
<1>2. ~Halted(x)
  BY <1>1 DEF Running, Halted
<1>3. x.todo \in Seq(CycleRec) /\ \A j \in 1..Len(x.todo) : Due(x, x.ins, x.todo[j])
  BY <1>1
<1>4. Working(x, h)
  BY <1>1, <1>3 DEF Working
<1>5. Truthful(x)
  BY <1>1, <1>2 DEF Truthful, Rested
<1>6. x.done.op \notin Accesses
  BY <1>1 DEF NoIns, Accesses
<1>7. Transferred(x, h)
  BY <1>1, <1>6 DEF Transferred
<1> QED BY <1>4, <1>5, <1>7 DEF Inv

----------------------------------------------------------------------------
(* A bus cycle of the instruction under way *)

\* A 68030 whose user root is lost has no way it had not before.
LEMMA LostRoot ==
    ASSUME NEW y, NEW z, ~Fixed(y), z.cpu_type = y.cpu_type, z.tbl = y.tbl, z.bad = y.bad,
           z.srp = y.srp, z.tc = y.tc, z.tt = y.tt, z.pmmu_enabled = y.pmmu_enabled,
           z.crp = NoRoot, NEW f, NEW write, NoWay(y, f, write)
    PROVE  NoWay(z, f, write)
<1> DEFINE wy == Walk030(y, f, 5, 7)
           wz == Walk030(z, f, 5, 7)
<1>1. \A u : Level(z, f, 5, 7, u) = Level(y, f, 5, 7, u)
  BY ViewLevel
<1>2. \A r : Start030(z, r) = Start030(y, r)
  BY DEF Start030, Levels030, Fcl
<1>3. Super(5)
  BY DEF Super
<1>4. ASSUME y.tc.sre PROVE wz = wy
  BY <1>1, <1>2, <1>3, <1>4 DEF Walk030
<1>5. ASSUME ~y.tc.sre PROVE wz.end # "Page"
  <2> DEFINE u == Start030(z, z.crp)
  <2>1. u.end = "Config"
    BY DEF Start030, NoRoot
  <2> HIDE DEF u
  <2>2. Level(z, f, 5, 7, u) = u
    BY <2>1 DEF Level
  <2>3. wz = u
    BY <1>5, <2>2 DEF Walk030, u
  <2> QED BY <2>1, <2>3
<1>6. wz = wy \/ wz.end # "Page"
  BY <1>4, <1>5
<1> HIDE DEF wy, wz
<1>7. \A q : Allows030(z, f, 5, write, q) => Allows030(y, f, 5, write, q)
  BY <1>6 DEF Allows030, wy, wz
<1>8. ~Fixed(z)
  BY DEF Fixed
<1>9. Transparent(z, f, 5, No) = Transparent(y, f, 5, No)
  BY <1>8 DEF Transparent
<1>10. \A q : Allows(z, f, 5, write, No, q) => Allows(y, f, 5, write, No, q)
  BY <1>7, <1>8, <1>9 DEF Allows, TablesAllow
<1> QED BY <1>10 DEF NoWay

\* y is x with its next cycle taken off the list
Ahead(x, y) ==
    /\ Machine(y) /\ View(x, y) /\ y.todo = Tail(x.todo) /\ y.s = x.s /\ y.ov = x.ov
    /\ y.rd = x.rd /\ y.ws = x.ws /\ y.wdata = x.wdata /\ y.stopped = x.stopped
    /\ y.run_mode = x.run_mode /\ y.cause = x.cause /\ y.frames = x.frames
    /\ y.restart = x.restart /\ y.ins = x.ins /\ y.done = x.done /\ y.log = x.log
    /\ y.probe = x.probe /\ y.handled = x.handled /\ y.excused = x.excused

LEMMA SetTodo ==
    ASSUME NEW x, Sound(x)
    PROVE  LET y == [x EXCEPT !.todo = Tail(@)] IN Ahead(x, y) /\ Sound(y)
<1> DEFINE v == Tail(x.todo)
           y == [x EXCEPT !.todo = v]
<1>0. y = [x EXCEPT !.todo = Tail(@)]
  BY DEF Sound, Machine, Fields
<1> HIDE DEF v
<1>1. /\ y = [n \in Fields |-> y[n]] /\ y.todo = v
      /\ \A n \in Fields \ {"todo"} : y[n] = x[n]
  BY DEF Sound, Machine, Fields
<1> HIDE DEF y
<1>2. y.atc = x.atc /\ y.tbl = x.tbl /\ View(x, y)
  BY <1>1 DEF View, Fields
<1>3. Machine(y)
  BY <1>1, <1>2 DEF Sound, Machine
<1>4. Sound(y)
  BY <1>2, <1>3, SoundBeside DEF SameAtc
<1>5. /\ y.s = x.s /\ y.ov = x.ov
      /\ y.rd = x.rd /\ y.ws = x.ws /\ y.wdata = x.wdata /\ y.stopped = x.stopped
      /\ y.run_mode = x.run_mode /\ y.cause = x.cause /\ y.frames = x.frames
      /\ y.restart = x.restart /\ y.ins = x.ins /\ y.done = x.done /\ y.log = x.log
      /\ y.probe = x.probe /\ y.handled = x.handled /\ y.excused = x.excused
  BY <1>1 DEF Fields
<1>6. Ahead(x, y)
  BY <1>1, <1>2, <1>3, <1>5 DEF Ahead, v
<1> QED BY <1>0, <1>4, <1>6 DEF y

\* The registers of z are those of x, but for what a PMOVE loads
Mostly(x, z) ==
    /\ z.tbl = x.tbl /\ z.bad = x.bad /\ z.srp = x.srp /\ z.tc = x.tc
    /\ z.cpu_type = x.cpu_type /\ z.tt = x.tt /\ z.itt = x.itt /\ z.dtt = x.dtt
    /\ z.sfc = x.sfc /\ z.dfc = x.dfc /\ z.restart = x.restart /\ z.ins = x.ins
    /\ z.handled = x.handled /\ z.excused = x.excused
    /\ x.ins.op # "pmovecrp" => z.crp = x.crp /\ z.edited = x.edited
    /\ x.ins.op # "pmovetc" => z.pmmu_enabled = x.pmmu_enabled

\* Cycle k of x went through; it was the last one, or is not
Passed(x, k, z) ==
    /\ Running(z) /\ z.s = x.s /\ z.frames = x.frames /\ z.cause = x.cause
    /\ x.log \subseteq z.log /\ z.todo = Tail(x.todo)
    /\ z.rd \in {x.rd, None} /\ z.ws \in {x.ws, None}
    /\ z.todo # <<>> => z.ov = x.ov /\ z.done = x.done /\ z.pmmu_enabled = x.pmmu_enabled
    /\ z.todo = <<>> => z.ov = None /\ z.done = x.ins
    /\ k.kind \in {"read", "write", "fetch"} =>
          /\ z.probe = x.probe
          /\ x.rd = None /\ x.ws = None => Covers(z, k.lb, k.n, k.kind = "write")
    /\ /\ k.kind \in {"plpar", "plpaw"} /\ Sane(x) /\ x.cpu_type = "M68060"
       /\ x.dfc \in {1, 2, 5, 6} /\ x.ins.op \notin {"pmovecrp", "pmovetc"}
       => ProbeTrue(z)

\* Cycle k of x faulted, and frame a was stacked
Failed(x, k, a, z) ==
    /\ FrameFacts(x, k, a) /\ z.frames = Append(x.frames, a) /\ z.s = TRUE
    /\ z.rd = x.rd /\ z.ws = x.ws /\ z.probe = x.probe /\ z.todo = <<>> /\ z.ov = None
    /\ z.done = x.done /\ (Running(z) \/ Halted(z))
    /\ x.ins.op = "pmovecrp" /\ Fixed(x) => z.edited

\* The registers the predicates of a cycle read are those of its machine.
LEMMA AheadSame ==
    ASSUME NEW x, NEW w, Ahead(x, w), NEW k
    PROVE  /\ Typed(w) <=> Typed(x)
           /\ Running(w) <=> Running(x)
           /\ CycleOf(w, k) <=> CycleOf(x, k)
           /\ Inside(w, k) <=> Inside(x, k)
           /\ Sane(w) <=> Sane(x)
           /\ Spaced(w) <=> Spaced(x)
           /\ NoConfig(w) <=> NoConfig(x)
           /\ Paged(w) <=> Paged(x)
           /\ \A a : FrameFacts(w, k, a) <=> FrameFacts(x, k, a)
<1>1. View(x, w) /\ w.s = x.s /\ w.ov = x.ov /\ w.wdata = x.wdata /\ w.stopped = x.stopped
      /\ w.run_mode = x.run_mode /\ w.cause = x.cause /\ w.ins = x.ins /\ w.excused = x.excused
  BY DEF Ahead
<1>2. Sane(w) <=> Sane(x)
  BY <1>1, ViewSane
<1>3. NoConfig(w) <=> NoConfig(x)
  BY <1>1 DEF NoConfig, View, Fixed, RootsValid, Levels030, Fcl
<1>4. \A i : SpaceOf(w, i) = SpaceOf(x, i)
  BY <1>1 DEF SpaceOf
<1>5. \A a : FrameFacts(w, k, a) <=> FrameFacts(x, k, a)
  BY <1>1, <1>4 DEF FrameFacts
<1>6. Paged(w) <=> Paged(x)
  BY <1>1 DEF View, Paged
<1>7. Inside(w, k) <=> Inside(x, k)
  BY <1>1 DEF View, Inside
<1>8. CycleOf(w, k) <=> CycleOf(x, k)
  BY <1>1 DEF CycleOf
<1>9. (Typed(w) <=> Typed(x)) /\ (Running(w) <=> Running(x))
  BY <1>1 DEF Typed, Running
<1>10. Spaced(w) <=> Spaced(x)
  BY <1>1, <1>3 DEF Spaced
<1> QED BY <1>2, <1>3, <1>5, <1>6, <1>7, <1>8, <1>9, <1>10

LEMMA ViewProbe ==
    ASSUME NEW y, NEW z, View(y, z), z.probe = y.probe, ProbeTrue(y)
    PROVE  ProbeTrue(z)
<1>1. \A f, fc, write, q : TablesAllow(z, f, fc, write, q) <=> TablesAllow(y, f, fc, write, q)
  BY ViewAllows
<1>2. \A f, fc, write, instr, q : Allows(z, f, fc, write, instr, q) <=> Allows(y, f, fc, write, instr, q)
  BY ViewAllows
<1>3. \A f, fc, max : Walk030(z, f, fc, max) = Walk030(y, f, fc, max)
  BY ViewWalk030
<1>4. z.cpu_type = y.cpu_type
  BY DEF View
<1> QED BY <1>1, <1>2, <1>3, <1>4 DEF ProbeTrue

\* What a step of NextCycle does, from machine to machine.
LEMMA StepEffect ==
    ASSUME NEW x, Sound(x), Running(x), Typed(x), NEW k, CycleOf(x, k)
    PROVE  LET z == Retire(BusCycle([x EXCEPT !.todo = Tail(@)], k))
           IN  /\ Sound(z) /\ z.wdata \in Datum /\ Mostly(x, z)
               /\ Passed(x, k, z) \/ \E a : Failed(x, k, a, z)
               /\ NoConfig(x) /\ Paged(x) /\ x.cause = "none" /\ Running(z) => z.cause = "none"
               /\ Sane(x) /\ Spaced(x) /\ Inside(x, k) /\ Settled(z) =>
                    /\ x.ins.op \notin {"pmovecrp", "pmovetc"} =>
                          \A e \in z.log : e \in x.log \/ LogOK(z, e)
                    /\ x.ins.op # "pmovetc" /\ Halted(z) => Stuck(z)
<1> DEFINE w == [x EXCEPT !.todo = Tail(@)]
           y == BusCycle(w, k)
           z == Retire(y)
<1>1. Ahead(x, w) /\ Sound(w)
  BY SetTodo
<1> HIDE DEF w
<1>2. Running(w) /\ Typed(w) /\ CycleOf(w, k)
  BY <1>1, AheadSame
<1>3. CycleDone(w, k, y)
  BY <1>1, <1>2, BusCycleDone
<1> HIDE DEF y
<1>4. Sound(y) /\ y.wdata \in Datum
  BY <1>3 DEF CycleDone
<1>5. /\ Sound(z) /\ Kept(y, z)
      /\ y.ins.op # "pmovecrp" => z.crp = y.crp /\ z.edited = y.edited
      /\ y.ins.op # "pmovetc" => z.pmmu_enabled = y.pmmu_enabled
      /\ ~faulted(y) /\ y.todo # <<>> => z = y
      /\ ~faulted(y) /\ y.todo = <<>> =>
           z.todo = <<>> /\ z.ov = None /\ z.done = y.ins /\ z.run_mode = y.run_mode
      /\ faulted(y) =>
           /\ z.todo = <<>> /\ z.ov = y.ov /\ z.done = y.done
           /\ z.run_mode = IF y.stopped THEN y.run_mode ELSE "normal"
           /\ y.ins.op = "pmovecrp" => (Fixed(y) => z.edited) /\ z.crp = NoRoot
  BY <1>4, RetireEffect
<1> HIDE DEF z
<1>6. PICK a : \/ Went(w, y)
               \/ FrameFacts(w, k, a) /\ Fell(w, a, y)
  BY <1>3 DEF CycleDone
<1>7. View(w, y) /\ Task(w, y)
  BY <1>6 DEF Went, Fell, Taken
<1>8. View(x, y) /\ View(x, w)
  BY <1>1, <1>7, ViewTrans DEF Ahead
<1>9. /\ y.restart = x.restart /\ y.ins = x.ins /\ y.handled = x.handled /\ y.excused = x.excused
      /\ y.todo = Tail(x.todo) /\ y.done = x.done
  BY <1>1, <1>7 DEF Ahead, Task
<1>10. Mostly(x, z)
  BY <1>5, <1>8, <1>9 DEF Mostly, View, Kept
<1>11. x.ins.op \notin {"pmovecrp", "pmovetc"} => View(y, z)
  BY <1>5, <1>9 DEF View, Kept
<1>12. CASE Went(w, y)
  <2>1. ~faulted(y) /\ Running(y)
    BY <1>12 DEF Went, Running, faulted
  <2>2. /\ z.wdata = y.wdata /\ z.log = y.log /\ z.probe = y.probe /\ z.stopped = y.stopped
        /\ z.cause = y.cause /\ z.frames = y.frames /\ z.s = y.s /\ z.rd = y.rd /\ z.ws = y.ws
    BY <1>5 DEF Kept
  <2>3. z.todo = y.todo /\ z.run_mode = y.run_mode
    BY <1>5, <2>1
  <2>4. Running(z) /\ ~Halted(z)
    BY <2>1, <2>2, <2>3 DEF Running, Halted
  <2>5. /\ y.s = x.s /\ y.frames = x.frames /\ y.cause = x.cause /\ x.log \subseteq y.log
        /\ y.ov = x.ov /\ w.rd = x.rd /\ w.ws = x.ws /\ w.probe = x.probe
        /\ w.cpu_type = x.cpu_type /\ w.dfc = x.dfc
    BY <1>1, <1>12 DEF Went, Ahead, View
  <2>6. /\ z.todo # <<>> => z.ov = x.ov /\ z.done = x.done /\ z.pmmu_enabled = x.pmmu_enabled
        /\ z.todo = <<>> => z.ov = None /\ z.done = x.ins
    BY <1>5, <1>8, <1>9, <2>1, <2>3, <2>5 DEF View
  <2>8. /\ y.rd \in {x.rd, None} /\ y.ws \in {x.ws, None}
        /\ k.kind \in {"read", "write", "fetch"} =>
              /\ y.probe = x.probe
              /\ x.rd = None /\ x.ws = None => Covers(y, k.lb, k.n, k.kind = "write")
        /\ /\ k.kind \in {"plpar", "plpaw"} /\ Sane(w) /\ Typed(w) /\ x.cpu_type = "M68060"
           /\ x.dfc \in {1, 2, 5, 6}
           => ProbeTrue(y)
    <3>1. \A b : ~Fell(w, b, y)
      BY <2>1 DEF Fell, Taken, faulted
    <3> QED BY <1>3, <2>5, <3>1 DEF CycleDone
  <2>9. Covers(y, k.lb, k.n, k.kind = "write") => Covers(z, k.lb, k.n, k.kind = "write")
    BY <2>2 DEF Covers
  <2>10. ASSUME k.kind \in {"plpar", "plpaw"}, Sane(x), x.cpu_type = "M68060",
                x.dfc \in {1, 2, 5, 6}, x.ins.op \notin {"pmovecrp", "pmovetc"}
         PROVE  ProbeTrue(z)
    <3>1. ProbeTrue(y)
      BY <1>1, <1>2, <2>8, <2>10, AheadSame
    <3> QED BY <1>11, <2>2, <2>10, <3>1, ViewProbe
  <2>11. Passed(x, k, z)
    BY <1>9, <2>2, <2>3, <2>4, <2>5, <2>6, <2>8, <2>9, <2>10 DEF Passed
  <2>12. ASSUME Sane(x), Spaced(x), Inside(x, k), x.ins.op \notin {"pmovecrp", "pmovetc"}
         PROVE  \A e \in z.log : e \in x.log \/ LogOK(z, e)
    <3>1. Sane(w) /\ Spaced(w) /\ Inside(w, k)
      BY <1>1, <2>12, AheadSame
    <3>2. LogsOK(w, y)
      BY <1>3, <3>1 DEF CycleDone, Honest
    <3>3. w.log = x.log
      BY <1>1 DEF Ahead
    <3> QED BY <1>11, <2>2, <2>12, <3>2, <3>3, ViewLogOK DEF LogsOK
  <2> QED BY <1>4, <1>5, <1>10, <2>2, <2>4, <2>5, <2>11, <2>12 DEF z, y, w
<1>13. CASE FrameFacts(w, k, a) /\ Fell(w, a, y)
  <2>1. /\ faulted(y) /\ y.run_mode = "fault" /\ y.stopped \in BOOLEAN /\ y.ov = None /\ y.s = TRUE
        /\ y.rd = x.rd /\ y.ws = x.ws /\ y.probe = x.probe /\ y.frames = Append(x.frames, a)
    BY <1>1, <1>13 DEF Fell, Taken, faulted, Ahead
  <2>2. /\ z.wdata = y.wdata /\ z.log = y.log /\ z.probe = y.probe /\ z.stopped = y.stopped
        /\ z.cause = y.cause /\ z.frames = y.frames /\ z.s = y.s /\ z.rd = y.rd /\ z.ws = y.ws
    BY <1>5 DEF Kept
  <2>3. /\ z.todo = <<>> /\ z.ov = None /\ z.done = x.done
        /\ y.stopped => z.run_mode = "fault"
        /\ ~y.stopped => z.run_mode = "normal"
    BY <1>5, <1>9, <2>1
  <2>4. (Running(z) /\ ~y.stopped) \/ (Halted(z) /\ y.stopped)
    <3>1. CASE y.stopped = TRUE
      BY <2>2, <2>3, <3>1 DEF Halted
    <3>2. CASE y.stopped = FALSE
      BY <2>2, <2>3, <3>2 DEF Running
    <3> QED BY <2>1, <3>1, <3>2
  <2>5. FrameFacts(x, k, a)
    BY <1>1, <1>13, AheadSame
  <2>6. Failed(x, k, a, z)
    <3>1. x.ins.op = "pmovecrp" /\ Fixed(x) => z.edited
      BY <1>5, <1>8, <1>9, <2>1 DEF View, Fixed
    <3> QED BY <2>1, <2>2, <2>3, <2>4, <2>5, <3>1 DEF Failed
  <2>7. ~(Running(z) /\ Halted(z))
    BY DEF Running, Halted
  <2>8. ASSUME NoConfig(x), Paged(x), x.cause = "none", Running(z) PROVE z.cause = "none"
    <3>1. NoConfig(w) /\ Paged(w) /\ w.cause = "none"
      BY <1>1, <2>8, AheadSame DEF Ahead
    <3>2. ~y.stopped
      BY <2>4, <2>7, <2>8
    <3> QED BY <1>3, <2>2, <3>1, <3>2 DEF CycleDone
  <2>9. ASSUME Sane(x), Spaced(x), Inside(x, k), Settled(z)
        PROVE  /\ x.ins.op \notin {"pmovecrp", "pmovetc"} =>
                     \A e \in z.log : e \in x.log \/ LogOK(z, e)
               /\ x.ins.op # "pmovetc" /\ Halted(z) => Stuck(z)
    <3>1. Sane(w) /\ Spaced(w) /\ Inside(w, k)
      BY <1>1, <2>9, AheadSame
    <3>2. LogsOK(w, y) /\ (y.stopped => Stuck(y))
      BY <1>3, <3>1 DEF CycleDone, Honest
    <3>3. w.log = x.log
      BY <1>1 DEF Ahead
    <3>4. x.ins.op \notin {"pmovecrp", "pmovetc"} => \A e \in z.log : e \in x.log \/ LogOK(z, e)
      BY <1>11, <2>2, <3>2, <3>3, ViewLogOK DEF LogsOK
    <3>5. ASSUME x.ins.op # "pmovetc", Halted(z) PROVE Stuck(z)
      <4>1. Stuck(y)
        BY <2>4, <2>7, <3>2, <3>5
      <4>2. CASE x.ins.op # "pmovecrp"
        BY <1>11, <3>5, <4>1, <4>2, ViewStuck
      <4>3. CASE x.ins.op = "pmovecrp"
        <5>1. (Fixed(y) => z.edited) /\ z.crp = NoRoot /\ z.pmmu_enabled = y.pmmu_enabled
          BY <1>5, <1>9, <2>1, <4>3
        <5>2. /\ z.cpu_type = y.cpu_type /\ z.tbl = y.tbl /\ z.bad = y.bad
              /\ z.srp = y.srp /\ z.tc = y.tc /\ z.tt = y.tt
          BY <1>5 DEF Kept
        <5>3. ~Fixed(y)
          BY <2>9, <5>1, <5>2 DEF Settled, Fixed
        <5> QED BY <4>1, <5>1, <5>2, <5>3, LostRoot DEF Stuck
      <4> QED BY <4>2, <4>3
    <3> QED BY <3>4, <3>5
  <2> QED BY <1>4, <1>5, <1>10, <2>2, <2>6, <2>8, <2>9 DEF z, y, w
<1> QED BY <1>6, <1>12, <1>13

\* The guest's constants, as its machine meets them
LEMMA GuestFacts ==
    ASSUME NEW x, NEW h, Whole(x, h)
    PROVE  /\ x.cpu_type \in Cpus /\ h.fc \in 0..7 /\ (x.cpu_type = "M68030" <=> ~Fixed(x))
           /\ \A i \in Program(h) : /\ Encoded(i)
                                    /\ i.op \in {"plpar", "plpaw"} => x.cpu_type = "M68060"
<1>1. h \in Hosts /\ x.cpu_type \in h.models
  BY DEF Whole
<1>2. /\ h.models \subseteq {"M68030", "M68040", "M68060"} /\ h.fc \in 0..7
      /\ \A i \in h.code \cup h.irq :
            Encoded(i) /\ (i.op \in {"plpar", "plpaw"} => h.models = {"M68060"})
  BY <1>1, GuestsAssumption
<1> QED BY <1>1, <1>2 DEF Cpus, Fixed, Program

\* The head of the list is a cycle of the instruction under way.
LEMMA HeadDue ==
    ASSUME NEW x, NEW h, Whole(x, h), Working(x, h), x.todo # <<>>
    PROVE  LET k == Head(x.todo)
           IN  /\ Due(x, x.ins, k) /\ CycleOf(x, k) /\ UnderWay(x, h)
               /\ k = x.todo[1] /\ Len(x.todo) \in Nat \ {0}
               /\ Tail(x.todo) \in Seq(CycleRec) /\ Len(Tail(x.todo)) = Len(x.todo) - 1
               /\ \A j \in 1..Len(Tail(x.todo)) : Tail(x.todo)[j] = x.todo[j + 1]
<1> DEFINE k == Head(x.todo)
<1>1. x.todo \in Seq(CycleRec) /\ UnderWay(x, h)
  BY DEF Working
<1>2. /\ k = x.todo[1] /\ Len(x.todo) \in Nat \ {0}
      /\ Tail(x.todo) \in Seq(CycleRec) /\ Len(Tail(x.todo)) = Len(x.todo) - 1
      /\ \A j \in 1..Len(Tail(x.todo)) : Tail(x.todo)[j] = x.todo[j + 1]
  BY <1>1
<1>3. Due(x, x.ins, k)
  BY <1>2 DEF Working
<1> HIDE DEF k
<1>4. k \in CycleRec /\ x.ins.op \in OpsOf(k.kind) /\ (k.kind \in {"plpar", "plpaw"} => k.n = 4)
  BY <1>3 DEF Due
<1>5. k.kind \in Kinds /\ k.lb \in Nat /\ k.n \in 1..4
  BY <1>4 DEF CycleRec
<1>6. k.kind \in {"fetch", "plpar", "plpaw"} => x.ins.op = k.kind
  BY <1>4 DEF OpsOf
<1>7. k.kind \in {"fetch", "plpar", "plpaw"} => x.ov = None
  BY <1>1, <1>6 DEF UnderWay, moves_space
<1>8. CycleOf(x, k)
  BY <1>4, <1>5, <1>7 DEF CycleOf, Kinds
<1> QED BY <1>1, <1>2, <1>3, <1>8 DEF k

\* The frame of a fault of the instruction under way is one of the guest's.
LEMMA FrameTyped ==
    ASSUME NEW x, NEW h, Stacked(x, h), UnderWay(x, h), Typed(x), NEW k, NEW a, FrameFacts(x, k, a)
    PROVE  a \in FrameSet(h)
<1>1. /\ a = [n \in FrameFields |-> a[n]] /\ a.kind \in {"access", "config", "irq"} /\ a.fa \in Nat
      /\ a.size \in 0..4 /\ a.write \in BOOLEAN /\ a.instr \in BOOLEAN /\ a.atc \in BOOLEAN
      /\ a.fc \in 0..7 /\ a.data \in Datum /\ a.df = TRUE
  BY DEF FrameFacts
<1>2. a.s \in BOOLEAN
  BY DEF FrameFacts, Typed
<1>3. a.ins \in h.code \cup h.irq \cup {NoIns}
  BY DEF FrameFacts, UnderWay, Program
<1>4. a.handled \in SUBSET Nat
  BY DEF FrameFacts, Stacked
<1>5. a.data \in [at : Nat, size : 0..4] /\ a.df \in BOOLEAN
  BY <1>1 DEF Datum
<1> QED BY <1>1, <1>2, <1>3, <1>4, <1>5 DEF FrameSet, FrameFields

\* Registers, types and tables after the cycle
LEMMA CycleWhole ==
    ASSUME NEW x, NEW h, Whole(x, h), NEW k, NEW z, Sound(z), z.wdata \in Datum, Mostly(x, z),
           Passed(x, k, z) \/ \E a : Failed(x, k, a, z)
    PROVE  Whole(z, h)
<1>1. z.s \in BOOLEAN
  BY DEF Passed, Failed, Whole, Typed
<1>2. z.ov \in -1..7
  BY DEF Passed, Failed, Whole, Typed, None
<1>3. Typed(z)
  BY <1>1, <1>2 DEF Typed
<1>4. Paged(z)
  BY DEF Whole, Paged, Mostly
<1> QED BY <1>3, <1>4 DEF Whole, Mostly

\* The instruction and its remaining cycles after the cycle
LEMMA CycleWorking ==
    ASSUME NEW x, NEW h, Whole(x, h), Working(x, h), x.todo # <<>>, NEW z, Mostly(x, z),
           Passed(x, Head(x.todo), z) \/ \E a : Failed(x, Head(x.todo), a, z)
    PROVE  Working(z, h)
<1> DEFINE k == Head(x.todo)
<1>1. /\ Due(x, x.ins, k) /\ CycleOf(x, k) /\ UnderWay(x, h) /\ Len(x.todo) \in Nat \ {0}
      /\ Tail(x.todo) \in Seq(CycleRec) /\ Len(Tail(x.todo)) = Len(x.todo) - 1
      /\ \A j \in 1..Len(Tail(x.todo)) : Tail(x.todo)[j] = x.todo[j + 1]
  BY HeadDue
<1> HIDE DEF k
<1>2. CASE z.todo = <<>>
  <2>1. Running(z) \/ Halted(z)
    BY DEF Passed, Failed
  <2>2. z.ov = None
    BY <1>2 DEF Passed, Failed
  <2> QED BY <1>2, <2>1, <2>2 DEF Working
<1>3. CASE z.todo # <<>>
  <2>1. Passed(x, k, z)
    BY <1>3 DEF Failed, k
  <2>2. /\ Running(z) /\ z.todo = Tail(x.todo) /\ z.ov = x.ov /\ z.done = x.done
        /\ z.pmmu_enabled = x.pmmu_enabled /\ z.frames = x.frames
    BY <1>3, <2>1 DEF Passed
  <2>3. z.ins = x.ins /\ z.sfc = x.sfc /\ z.dfc = x.dfc
    BY DEF Mostly
  <2>4. x.ins.op \notin {"plpar", "plpaw"} => z.probe = NoProbe
    <3>1. SUFFICES ASSUME x.ins.op \notin {"plpar", "plpaw"} PROVE z.probe = NoProbe
      OBVIOUS
    <3>2. k.kind \in {"read", "write", "fetch"}
      BY <1>1, <3>1 DEF Due, OpsOf, CycleOf
    <3> QED BY <1>1, <2>1, <3>1, <3>2 DEF Passed, UnderWay
  <2>5. moves_space(z, z.ins) = moves_space(x, x.ins)
    BY <2>3 DEF moves_space
  <2>6. UnderWay(z, h)
    BY <1>1, <2>2, <2>3, <2>4, <2>5 DEF UnderWay
  <2>7. ASSUME NEW j \in 1..Len(z.todo) PROVE Due(z, z.ins, z.todo[j])
    <3>1. z.todo[j] = x.todo[j + 1] /\ j + 1 \in 1..Len(x.todo)
      BY <1>1, <2>2
    <3>2. Due(x, x.ins, z.todo[j])
      BY <3>1 DEF Working
    <3> QED BY <2>2, <2>3, <3>2 DEF Due, Inside
  <2> QED BY <1>1, <1>3, <2>2, <2>6, <2>7 DEF Working
<1> QED BY <1>2, <1>3

\* The frames after the cycle
LEMMA CycleStacked ==
    ASSUME NEW x, NEW h, Whole(x, h), Stacked(x, h), UnderWay(x, h), NEW k, NEW z, Mostly(x, z),
           Passed(x, k, z) \/ \E a : Failed(x, k, a, z)
    PROVE  Stacked(z, h)
<1>1. /\ z.restart = x.restart /\ z.ins = x.ins /\ z.handled = x.handled /\ z.excused = x.excused
  BY DEF Mostly
<1>2. z.frames \in Seq(FrameSet(h)) /\ Len(z.frames) <= MaxFrames
  <2>1. CASE Passed(x, k, z)
    BY <2>1 DEF Passed, Stacked
  <2>2. ASSUME NEW a, Failed(x, k, a, z)
        PROVE  z.frames \in Seq(FrameSet(h)) /\ Len(z.frames) <= MaxFrames
    <3>1. a \in FrameSet(h)
      BY <2>2, FrameTyped DEF Whole, Failed
    <3>2. z.frames = Append(x.frames, a) /\ x.frames \in Seq(FrameSet(h)) /\ Len(x.frames) < MaxFrames
      BY <2>2 DEF Failed, Stacked, UnderWay
    <3>3. Len(Append(x.frames, a)) = Len(x.frames) + 1 /\ Append(x.frames, a) \in Seq(FrameSet(h))
          /\ Len(x.frames) \in Nat
      BY <3>1, <3>2
    <3> QED BY <3>2, <3>3, FramesAssumption
  <2> QED BY <2>1, <2>2
<1> QED BY <1>1, <1>2 DEF Stacked

\* An orderly guest's cycle runs where translate answers for the tables.
LEMMA OrderlySane ==
    ASSUME NEW x, NEW h, Whole(x, h), UnderWay(x, h), Orderly(x), Settled(x)
    PROVE  Sane(x) /\ Spaced(x)
<1>1. x.cpu_type \in Cpus /\ (x.cpu_type = "M68030" <=> ~Fixed(x))
  BY GuestFacts
<1>2. Sane(x)
  BY <1>1 DEF Sane, Whole, Orderly
<1>3. x.s \in BOOLEAN
  BY DEF Whole, Typed
<1>4. /\ x.ov \in {None, x.sfc, x.dfc}
      /\ x.ov # None => x.ins.op \in {"movesr", "movesw"}
  BY DEF UnderWay, moves_space
<1>5. x.sfc \in {1, 2, 5, 6} /\ x.dfc \in {1, 2, 5, 6}
  BY DEF Orderly
<1>6. x.ov \in {None, 1, 2, 5, 6}
  BY <1>4, <1>5
<1>7. x.ov = None \/ NoConfig(x)
  BY <1>1, <1>4 DEF Orderly, NoConfig
<1> QED BY <1>2, <1>3, <1>6, <1>7 DEF Spaced

\* The log, the probe and a halt tell the truth after the cycle.
LEMMA CycleTruthful ==
    ASSUME NEW x, NEW h, Whole(x, h), Truthful(x), UnderWay(x, h), NEW k, CycleOf(x, k),
           Due(x, x.ins, k), NEW z, Mostly(x, z),
           Passed(x, k, z) \/ \E a : Failed(x, k, a, z),
           Sane(x) /\ Spaced(x) /\ Inside(x, k) /\ Settled(z) =>
               /\ x.ins.op \notin {"pmovecrp", "pmovetc"} =>
                     \A e \in z.log : e \in x.log \/ LogOK(z, e)
               /\ x.ins.op # "pmovetc" /\ Halted(z) => Stuck(z)
    PROVE  Truthful(z)
<1>1. SUFFICES ASSUME Orderly(z), Settled(z)
               PROVE  /\ z.ins.op \notin {"pmovecrp", "pmovetc"} => \A e \in z.log : LogOK(z, e)
                      /\ z.ins.op # "pmovetc" /\ Halted(z) => Stuck(z)
                      /\ z.probe = NoProbe \/ ProbeTrue(z)
  BY DEF Truthful
<1>2. z.ins = x.ins
  BY DEF Mostly
<1>3. x.ins.op \notin {"pmovecrp", "pmovetc"} => View(x, z)
  BY DEF Mostly, View
<1>4. Orderly(x)
  BY <1>1 DEF Orderly, Mostly, RootsValid, Levels030, Fcl
<1>5. x.probe # NoProbe => x.ins.op \in {"plpar", "plpaw"}
  BY DEF UnderWay
<1>6. Inside(x, k)
  BY DEF Due
<1>7. CASE x.ins.op # "pmovecrp"
  <2>1. Settled(x)
    BY <1>1, <1>7 DEF Settled, Mostly, Fixed
  <2>2. Sane(x) /\ Spaced(x)
    BY <1>4, <2>1, OrderlySane
  <2>3. /\ x.ins.op \notin {"pmovecrp", "pmovetc"} =>
              \A e \in z.log : e \in x.log \/ LogOK(z, e)
        /\ x.ins.op # "pmovetc" /\ Halted(z) => Stuck(z)
    BY <1>1, <1>6, <2>2
  <2>4. x.ins.op \notin {"pmovecrp", "pmovetc"} => \A e \in z.log : LogOK(z, e)
    <3>1. SUFFICES ASSUME x.ins.op \notin {"pmovecrp", "pmovetc"}, NEW e \in z.log
                   PROVE  LogOK(z, e)
      OBVIOUS
    <3>2. CASE e \in x.log
      <4>1. LogOK(x, e)
        BY <1>4, <2>1, <3>1, <3>2 DEF Truthful
      <4> QED BY <1>3, <3>1, <4>1, ViewLogOK
    <3> QED BY <2>3, <3>1, <3>2
  <2>5. z.probe = NoProbe \/ ProbeTrue(z)
    <3>1. CASE z.probe = x.probe
      <4>1. CASE x.probe # NoProbe
        <5>1. ProbeTrue(x) /\ View(x, z)
          BY <1>3, <1>4, <1>5, <2>1, <4>1 DEF Truthful
        <5> QED BY <3>1, <5>1, ViewProbe
      <4> QED BY <3>1, <4>1
    <3>2. CASE z.probe # x.probe
      <4>1. Passed(x, k, z) /\ k.kind \in {"plpar", "plpaw"}
        BY <3>2 DEF Passed, Failed, CycleOf
      <4>2. x.ins.op \in {"plpar", "plpaw"}
        BY <4>1 DEF Due, OpsOf
      <4>3. x.cpu_type = "M68060"
        BY <4>2, GuestFacts DEF UnderWay
      <4>4. x.dfc \in {1, 2, 5, 6}
        BY <1>4 DEF Orderly
      <4> QED BY <2>2, <4>1, <4>2, <4>3, <4>4 DEF Passed
    <3> QED BY <3>1, <3>2
  <2> QED BY <1>2, <2>3, <2>4, <2>5
<1>8. CASE x.ins.op = "pmovecrp"
  <2>1. z.probe = NoProbe
    BY <1>5, <1>8 DEF Passed, Failed, CycleOf, Due, OpsOf
  <2>2. ASSUME Halted(z) PROVE Stuck(z)
    <3>1. \E a : Failed(x, k, a, z)
      BY <2>2 DEF Passed, Running, Halted
    <3>2. ~Fixed(x)
      BY <1>1, <1>8, <3>1 DEF Failed, Settled, Fixed, Mostly
    <3>3. Sane(x) /\ Spaced(x)
      BY <1>4, <3>2, OrderlySane DEF Settled
    <3> QED BY <1>1, <1>6, <1>8, <2>2, <3>3
  <2> QED BY <1>2, <1>8, <2>1, <2>2
<1> QED BY <1>7, <1>8

\* With steady roots no configuration error is possible.
LEMMA SteadyStep ==
    ASSUME NEW x, NEW h, Whole(x, h), SteadyRoots(h), x.ins \in Program(h), NEW z, Mostly(x, z),
           NoConfig(x)
    PROVE  NoConfig(z)
<1>1. x.cpu_type \in h.models /\ (x.cpu_type = "M68030" <=> ~Fixed(x))
  BY GuestFacts DEF Whole
<1>2. CASE Fixed(x)
  BY <1>2 DEF NoConfig, Fixed, Mostly
<1>3. CASE ~Fixed(x)
  <2>1. x.ins.op # "pmovecrp"
    BY <1>1, <1>3 DEF SteadyRoots, Program
  <2> QED BY <1>3, <2>1 DEF NoConfig, Mostly, RootsValid, Levels030, Fcl
<1> QED BY <1>2, <1>3

\* The frame a cycle's fault stacks is faithful to the access.
LEMMA FrameIsFaithful ==
    ASSUME NEW x, NEW h, Whole(x, h), UnderWay(x, h), x.cause = "none", NEW k,
           Due(x, x.ins, k), NEW a, FrameFacts(x, k, a)
    PROVE  FaithfulFrame(a, h)
<1>1. SUFFICES ASSUME a.kind = "access", a.atc, a.fa # TableAddr
               PROVE  /\ a.fa \in Bytes(a.ins.addr, IF a.ins.op = "pmovecrp" THEN 8 ELSE a.ins.size)
                      /\ a.fc = (CASE a.ins.op = "movesr" -> h.fc [] a.ins.op = "movesw" -> h.fc
                                   [] OTHER -> Fc(a.s, a.instr))
                      /\ a.write /\ a.ins.op # "plpaw" => a.data = [at |-> a.fa, size |-> a.size]
  BY DEF FaithfulFrame
<1>2. /\ a.fa = k.lb /\ a.fc = SpaceOf(x, a.instr) /\ a.s = x.s /\ a.ins = x.ins
      /\ a.write /\ k.kind # "plpaw" => a.data = [at |-> a.fa, size |-> a.size]
  BY <1>1 DEF FrameFacts
<1>3. Encoded(x.ins) /\ h.fc \in 0..7
  BY GuestFacts DEF UnderWay
<1>4. (IF x.ins.op = "pmovecrp" THEN 8 ELSE x.ins.size) = x.ins.size
  BY <1>3 DEF Encoded
<1>5. a.fa \in Bytes(a.ins.addr, IF a.ins.op = "pmovecrp" THEN 8 ELSE a.ins.size)
  BY <1>2, <1>4 DEF Due
<1>6. k.kind = "plpaw" => x.ins.op = "plpaw"
  BY DEF Due, OpsOf
<1>7. x.ov = moves_space(x, x.ins) /\ x.sfc = h.fc /\ x.dfc = h.fc
  BY DEF UnderWay, Whole
<1>8. h.fc # None
  BY <1>3 DEF None
<1>9. a.fc = (CASE a.ins.op = "movesr" -> h.fc [] a.ins.op = "movesw" -> h.fc
                [] OTHER -> Fc(a.s, a.instr))
  BY <1>2, <1>7, <1>8 DEF SpaceOf, moves_space
<1> QED BY <1>2, <1>5, <1>6, <1>9

\* Causes and frames after the cycle
LEMMA CycleReported ==
    ASSUME NEW x, NEW h, Whole(x, h), Stacked(x, h), Reported(x, h), UnderWay(x, h), NEW k,
           Due(x, x.ins, k), NEW z, Mostly(x, z),
           Passed(x, k, z) \/ \E a : Failed(x, k, a, z),
           NoConfig(x) /\ Paged(x) /\ x.cause = "none" /\ Running(z) => z.cause = "none"
    PROVE  Reported(z, h)
<1>1. SUFFICES ASSUME SteadyRoots(h)
               PROVE  /\ NoConfig(z) /\ (Running(z) => z.cause = "none")
                      /\ \A n \in 1..Len(z.frames) : FaithfulFrame(z.frames[n], h)
  BY DEF Reported
<1>2. /\ NoConfig(x) /\ x.cause = "none"
      /\ \A n \in 1..Len(x.frames) : FaithfulFrame(x.frames[n], h)
  BY <1>1 DEF Reported, UnderWay
<1>3. NoConfig(z)
  BY <1>1, <1>2, SteadyStep DEF UnderWay
<1>4. Running(z) => z.cause = "none"
  BY <1>2 DEF Whole
<1>5. ASSUME NEW n \in 1..Len(z.frames) PROVE FaithfulFrame(z.frames[n], h)
  <2>1. CASE Passed(x, k, z)
    BY <1>2, <1>5, <2>1 DEF Passed
  <2>2. ASSUME NEW a, Failed(x, k, a, z) PROVE FaithfulFrame(z.frames[n], h)
    <3>1. FaithfulFrame(a, h)
      BY <1>2, <2>2, FrameIsFaithful DEF Failed
    <3>2. z.frames = Append(x.frames, a) /\ x.frames \in Seq(FrameSet(h))
      BY <2>2 DEF Failed, Stacked
    <3>3. z.frames[n] = a \/ (n \in 1..Len(x.frames) /\ z.frames[n] = x.frames[n])
      BY <3>2
    <3> QED BY <1>2, <3>1, <3>3
  <2> QED BY <2>1, <2>2
<1> QED BY <1>3, <1>4, <1>5

\* No completion is armed after the cycle.
LEMMA CycleArmless ==
    ASSUME NEW x, NEW h, Stacked(x, h), Armless(x, h), NEW k, NEW z,
           Passed(x, k, z) \/ \E a : Failed(x, k, a, z)
    PROVE  Armless(z, h)
<1>1. SUFFICES ASSUME ~h.completes
               PROVE  /\ z.rd = None /\ z.ws = None
                      /\ \A n \in 1..Len(z.frames) : z.frames[n].df = TRUE
  BY DEF Armless
<1>2. /\ x.rd = None /\ x.ws = None
      /\ \A n \in 1..Len(x.frames) : x.frames[n].df = TRUE
  BY <1>1 DEF Armless
<1>3. CASE Passed(x, k, z)
  BY <1>2, <1>3 DEF Passed
<1>4. ASSUME NEW a, Failed(x, k, a, z)
      PROVE  /\ z.rd = None /\ z.ws = None
             /\ \A n \in 1..Len(z.frames) : z.frames[n].df = TRUE
  <2>1. z.rd = None /\ z.ws = None /\ a.df = TRUE
    BY <1>2, <1>4 DEF Failed, FrameFacts
  <2>2. z.frames = Append(x.frames, a) /\ x.frames \in Seq(FrameSet(h))
    BY <1>4 DEF Failed, Stacked
  <2>3. ASSUME NEW n \in 1..Len(z.frames) PROVE z.frames[n].df = TRUE
    <3>1. z.frames[n] = a \/ (n \in 1..Len(x.frames) /\ z.frames[n] = x.frames[n])
      BY <2>2
    <3> QED BY <1>2, <2>1, <3>1
  <2> QED BY <2>1, <2>3
<1> QED BY <1>3, <1>4

\* The bytes of the operand are transferred, or in a cycle still to come.
LEMMA CycleTransferred ==
    ASSUME NEW x, NEW h, Whole(x, h), Working(x, h), x.todo # <<>>, Armless(x, h),
           Transferred(x, h), NEW z, Mostly(x, z),
           Passed(x, Head(x.todo), z) \/ \E a : Failed(x, Head(x.todo), a, z)
    PROVE  Transferred(z, h)
<1> DEFINE k == Head(x.todo)
<1>1. /\ Due(x, x.ins, k) /\ CycleOf(x, k) /\ UnderWay(x, h) /\ Len(x.todo) \in Nat \ {0}
      /\ Tail(x.todo) \in Seq(CycleRec) /\ Len(Tail(x.todo)) = Len(x.todo) - 1
      /\ \A j \in 1..Len(Tail(x.todo)) : Tail(x.todo)[j] = x.todo[j + 1]
      /\ k = x.todo[1]
  BY HeadDue
<1>2. Passed(x, k, z) \/ \E a : Failed(x, k, a, z)
  OBVIOUS
<1> HIDE DEF k
<1>3. SUFFICES ASSUME ~h.completes
               PROVE  /\ z.todo # <<>> /\ z.ins.op \in Accesses =>
                            \A b \in Bytes(z.ins.addr, z.ins.size) :
                                \/ Moved(z, z.ins, b)
                                \/ \E j \in 1..Len(z.todo) : b \in Bytes(z.todo[j].lb, z.todo[j].n)
                      /\ z.done.op \in Accesses =>
                            \A b \in Bytes(z.done.addr, z.done.size) : Moved(z, z.done, b)
  BY DEF Transferred
<1>4. x.rd = None /\ x.ws = None /\ x.done = NoIns /\ "none" \notin Accesses
  BY <1>1, <1>3 DEF Armless, UnderWay, Accesses
<1>5. NoIns.op = "none"
  BY DEF NoIns
<1>6. z.ins = x.ins /\ z.excused = x.excused
  BY DEF Mostly
<1>7. CASE \E a : Failed(x, k, a, z)
  BY <1>4, <1>5, <1>7 DEF Failed
<1>8. CASE Passed(x, k, z)
  <2>1. ASSUME x.ins.op \in Accesses, NEW b \in Bytes(x.ins.addr, x.ins.size)
        PROVE  \/ Moved(z, x.ins, b)
               \/ \E j \in 1..Len(z.todo) : b \in Bytes(z.todo[j].lb, z.todo[j].n)
    <3>1. \/ Moved(x, x.ins, b)
          \/ \E j \in 1..Len(x.todo) : b \in Bytes(x.todo[j].lb, x.todo[j].n)
      BY <1>3, <2>1 DEF Transferred
    <3>2. x.log \subseteq z.log /\ z.todo = Tail(x.todo)
      BY <1>8 DEF Passed
    <3>3. CASE Moved(x, x.ins, b)
      BY <1>6, <3>2, <3>3 DEF Moved
    <3>4. ASSUME NEW j \in 1..Len(x.todo), b \in Bytes(x.todo[j].lb, x.todo[j].n)
          PROVE  \/ Moved(z, x.ins, b)
                 \/ \E m \in 1..Len(z.todo) : b \in Bytes(z.todo[m].lb, z.todo[m].n)
      <4>1. CASE j = 1
        <5>1. k.kind \in {"read", "write", "fetch"} /\ ((k.kind = "write") = (x.ins.op \in Writes))
          BY <1>1, <2>1 DEF Due, OpsOf, CycleOf, Accesses, Writes
        <5>2. Covers(z, k.lb, k.n, k.kind = "write")
          BY <1>4, <1>8, <5>1 DEF Passed
        <5>3. b \in {e.lb : e \in {d \in z.log : d.write = (k.kind = "write")}}
          BY <1>1, <3>4, <4>1, <5>2 DEF Covers
        <5>4. \E e \in z.log : e.lb = b /\ e.write = (k.kind = "write")
          BY <5>3
        <5> QED BY <5>1, <5>4 DEF Moved
      <4>2. CASE j # 1
        <5> DEFINE m == j - 1
        <5>1. m \in 1..Len(z.todo) /\ m + 1 = j
          BY <1>1, <3>2, <4>2
        <5> HIDE DEF m
        <5>2. z.todo[m] = x.todo[j]
          BY <1>1, <3>2, <5>1
        <5> QED BY <3>4, <5>1, <5>2
      <4> QED BY <4>1, <4>2
    <3> QED BY <3>1, <3>3, <3>4
  <2>2. CASE z.todo = <<>>
    <3>1. z.done = x.ins
      BY <1>8, <2>2 DEF Passed
    <3>2. \A j : j \notin 1..Len(z.todo)
      BY <2>2
    <3> QED BY <2>1, <2>2, <3>1, <3>2
  <2>3. CASE z.todo # <<>>
    <3>1. z.done = NoIns
      BY <1>4, <1>8, <2>3 DEF Passed
    <3> QED BY <1>4, <1>5, <1>6, <2>1, <3>1
  <2> QED BY <2>2, <2>3
<1> QED BY <1>2, <1>7, <1>8

\* A bus cycle of the instruction under way, its fault included, keeps the invariant.
LEMMA CycleInv ==
    ASSUME NEW x, NEW h, Inv(x, h), x.todo # <<>>
    PROVE  Inv(Retire(BusCycle([x EXCEPT !.todo = Tail(@)], Head(x.todo))), h)
<1> DEFINE k == Head(x.todo)
           z == Retire(BusCycle([x EXCEPT !.todo = Tail(@)], k))
<1>1. /\ Whole(x, h) /\ Working(x, h) /\ Stacked(x, h) /\ Truthful(x) /\ Reported(x, h)
      /\ Armless(x, h) /\ Transferred(x, h)
  BY DEF Inv
<1>2. Due(x, x.ins, k) /\ CycleOf(x, k) /\ UnderWay(x, h)
  BY <1>1, HeadDue
<1>3. Sound(x) /\ Typed(x) /\ Running(x)
  BY <1>1, <1>2 DEF Whole, UnderWay
<1>4. k = Head(x.todo)
  OBVIOUS
<1> HIDE DEF k
<1>5. /\ Sound(z) /\ z.wdata \in Datum /\ Mostly(x, z)
      /\ Passed(x, k, z) \/ \E a : Failed(x, k, a, z)
      /\ NoConfig(x) /\ Paged(x) /\ x.cause = "none" /\ Running(z) => z.cause = "none"
      /\ Sane(x) /\ Spaced(x) /\ Inside(x, k) /\ Settled(z) =>
           /\ x.ins.op \notin {"pmovecrp", "pmovetc"} =>
                 \A e \in z.log : e \in x.log \/ LogOK(z, e)
           /\ x.ins.op # "pmovetc" /\ Halted(z) => Stuck(z)
  BY <1>2, <1>3, StepEffect
<1> HIDE DEF z
<1>6. Whole(z, h)
  BY <1>1, <1>5, CycleWhole
<1>7. Working(z, h)
  BY <1>1, <1>4, <1>5, CycleWorking
<1>8. Stacked(z, h)
  BY <1>1, <1>2, <1>5, CycleStacked
<1>9. Truthful(z)
  BY <1>1, <1>2, <1>5, CycleTruthful
<1>10. Reported(z, h)
  BY <1>1, <1>2, <1>5, CycleReported
<1>11. Armless(z, h)
  BY <1>1, <1>5, CycleArmless
<1>12. Transferred(z, h)
  BY <1>1, <1>4, <1>5, CycleTransferred
<1>13. Inv(z, h)
  BY <1>6, <1>7, <1>8, <1>9, <1>10, <1>11, <1>12 DEF Inv
<1> QED BY <1>4, <1>13 DEF z

----------------------------------------------------------------------------
(* Starting an instruction *)

\* y is x but for what an instruction starts with
Begun(x, y) ==
    /\ y.atc = x.atc /\ View(x, y) /\ y.s = x.s /\ y.wdata = x.wdata /\ y.rd = x.rd
    /\ y.ws = x.ws /\ y.stopped = x.stopped /\ y.run_mode = x.run_mode /\ y.cause = x.cause
    /\ y.frames = x.frames /\ y.restart = x.restart /\ y.handled = x.handled

LEMMA BeginEffect ==
    ASSUME NEW x, Sound(x), NEW i, NEW ex
    PROVE  LET y == Begin(x, i, ex)
           IN  /\ Sound(y) /\ Begun(x, y) /\ y.ins = i /\ y.todo = Cycles(x, i)
               /\ y.ov = moves_space(x, i) /\ y.log = {} /\ y.done = NoIns /\ y.probe = NoProbe
               /\ y.excused = ex
<1> DEFINE s == Cycles(x, i)
           m == moves_space(x, i)
           p == NoProbe
           d == NoIns
           l == {}
           y == [x EXCEPT !.ins = i, !.todo = s, !.ov = m, !.log = l, !.done = d, !.probe = p,
                          !.excused = ex]
<1>1. y = Begin(x, i, ex)
  BY DEF Begin
<1> HIDE DEF s, m, p, d, l
<1>2. /\ y = [n \in Fields |-> y[n]] /\ y.ins = i /\ y.todo = s /\ y.ov = m /\ y.log = l
      /\ y.done = d /\ y.probe = p /\ y.excused = ex
      /\ \A n \in Fields \ {"ins", "todo", "ov", "log", "done", "probe", "excused"} : y[n] = x[n]
  BY DEF Sound, Machine, Fields
<1> HIDE DEF y
<1>3. Begun(x, y) /\ y.tbl = x.tbl
  BY <1>2 DEF Begun, View, Fields
<1>4. Machine(y)
  BY <1>2, <1>3 DEF Sound, Machine, Begun
<1>5. Sound(y)
  BY <1>3, <1>4, SoundBeside DEF SameAtc, Begun
<1> QED BY <1>1, <1>2, <1>3, <1>5 DEF s, m, p, d, l

\* An instruction of the guest starts on a machine at rest.
LEMMA BeginInv ==
    ASSUME NEW x, NEW h, Whole(x, h), Stacked(x, h), Reported(x, h), Armless(x, h), Running(x),
           Len(x.frames) < MaxFrames, NEW i \in Program(h), NEW ex \in SUBSET Nat
    PROVE  Inv(Begin(x, i, ex), h)
<1> DEFINE y == Begin(x, i, ex)
<1>1. /\ Sound(y) /\ Begun(x, y) /\ y.ins = i /\ y.todo = Cycles(x, i)
      /\ y.ov = moves_space(x, i) /\ y.log = {} /\ y.done = NoIns /\ y.probe = NoProbe
      /\ y.excused = ex
  BY BeginEffect DEF Whole
<1> HIDE DEF y
<1>2. Encoded(i) /\ h.fc \in 0..7
  BY GuestFacts
<1>3. /\ y.todo \in Seq(CycleRec) /\ y.todo # <<>> /\ Spans(i, y.todo)
      /\ \A j \in 1..Len(y.todo) : Due(x, i, y.todo[j])
  BY <1>1, <1>2, CyclesDue
<1>4. y.ov \in -1..7
  BY <1>1, <1>2 DEF moves_space, Whole, None
<1>5. Typed(y)
  BY <1>1, <1>4 DEF Typed, Begun, Whole
<1>6. Whole(y, h)
  BY <1>1, <1>5 DEF Whole, Begun, View, Paged
<1>7. \A j \in 1..Len(y.todo) : Due(y, y.ins, y.todo[j])
  BY <1>1, <1>3 DEF Due, Inside, Begun, View
<1>8. Running(y)
  BY <1>1 DEF Running, Begun
<1>9. moves_space(y, y.ins) = moves_space(x, i)
  BY <1>1 DEF moves_space, Begun, View
<1>10. UnderWay(y, h)
  BY <1>1, <1>8, <1>9 DEF UnderWay, Begun
<1>11. Working(y, h)
  BY <1>3, <1>7, <1>8, <1>10 DEF Working
<1>12. Stacked(y, h)
  BY <1>1 DEF Stacked, Begun, Program
<1>13. Truthful(y)
  BY <1>1, <1>8 DEF Truthful, Running, Halted
<1>14. NoConfig(y) <=> NoConfig(x)
  BY <1>1 DEF NoConfig, Begun, View, Fixed, RootsValid, Levels030, Fcl
<1>15. Reported(y, h)
  BY <1>1, <1>14 DEF Reported, Begun
<1>16. Armless(y, h)
  BY <1>1 DEF Armless, Begun
<1>17. y.done.op \notin Accesses
  BY <1>1 DEF NoIns, Accesses
<1>18. Transferred(y, h)
  BY <1>1, <1>3, <1>17 DEF Transferred, Spans
<1>19. Inv(y, h)
  BY <1>6, <1>11, <1>12, <1>13, <1>15, <1>16, <1>18 DEF Inv
<1> QED BY <1>19 DEF y

----------------------------------------------------------------------------
(* Between instructions *)

\* The invariant of a machine at rest
Idle(x, h) ==
    Whole(x, h) /\ Stacked(x, h) /\ Reported(x, h) /\ Armless(x, h) /\ Running(x)
    /\ x.todo = <<>> /\ x.ov = None

LEMMA IdleFacts ==
    ASSUME NEW x, NEW h, Inv(x, h), x.todo = <<>>, ~is_halted(x)
    PROVE  Idle(x, h)
<1>1. Running(x)
  BY DEF Inv, Working, Halted, is_halted, faulted
<1> QED BY <1>1 DEF Inv, Working, Idle

\* y is x but for the fields of S
But(x, S, y) == Machine(y) /\ \A n \in Fields \ S : y[n] = x[n]

\* A field that is no register, no frame and no part of the instruction
LEMMA ButIdle ==
    ASSUME NEW x, NEW h, Idle(x, h), NEW y,
           But(x, {"log", "done", "probe", "mmu_sr", "restart", "handled"}, y),
           y.restart \in Program(h) \cup {NoIns}, y.handled \in SUBSET Nat
    PROVE  Idle(y, h) /\ View(x, y) /\ y.frames = x.frames /\ y.s = x.s
<1>1. /\ y.atc = x.atc /\ View(x, y) /\ y.s = x.s /\ y.wdata = x.wdata /\ y.rd = x.rd
      /\ y.ws = x.ws /\ y.stopped = x.stopped /\ y.run_mode = x.run_mode /\ y.cause = x.cause
      /\ y.frames = x.frames /\ y.todo = x.todo /\ y.ov = x.ov /\ y.ins = x.ins
      /\ y.excused = x.excused
  BY DEF But, Fields, View
<1>2. Sound(y)
  BY <1>1, SoundBeside DEF SameAtc, But, Idle, Whole
<1>3. Whole(y, h)
  BY <1>1, <1>2 DEF Whole, View, Paged, Typed, Idle
<1>4. Stacked(y, h)
  BY <1>1 DEF Stacked, Idle
<1>5. NoConfig(y) <=> NoConfig(x)
  BY <1>1 DEF NoConfig, View, Fixed, RootsValid, Levels030, Fcl
<1>6. Running(y)
  BY <1>1 DEF Running, Idle
<1>7. Reported(y, h) /\ Armless(y, h)
  BY <1>1, <1>5, <1>6 DEF Reported, Armless, Idle
<1> QED BY <1>1, <1>3, <1>4, <1>6, <1>7 DEF Idle

\* Quiet ends the account of the last instruction.
LEMMA QuietIdle ==
    ASSUME NEW x, NEW h, Idle(x, h)
    PROVE  LET q == Quiet(x)
           IN  /\ Idle(q, h) /\ q.log = {} /\ q.done = NoIns /\ q.probe = NoProbe
               /\ But(x, {"log", "done", "probe"}, q)
<1> DEFINE p == NoProbe
           d == NoIns
           l == {}
           y == [x EXCEPT !.log = l, !.done = d, !.probe = p]
<1>1. y = Quiet(x)
  BY DEF Quiet
<1> HIDE DEF p, d, l
<1>2. /\ y = [n \in Fields |-> y[n]] /\ y.log = l /\ y.done = d /\ y.probe = p
      /\ \A n \in Fields \ {"log", "done", "probe"} : y[n] = x[n]
  BY DEF Idle, Whole, Sound, Machine, Fields
<1> HIDE DEF y
<1>3. y.atc = x.atc /\ y.tbl = x.tbl /\ y.restart = x.restart /\ y.handled = x.handled
  BY <1>2 DEF Fields
<1>4. Machine(y)
  BY <1>2, <1>3 DEF Idle, Whole, Sound, Machine
<1>5. But(x, {"log", "done", "probe"}, y)
  BY <1>2, <1>4 DEF But
<1>6. But(x, {"log", "done", "probe", "mmu_sr", "restart", "handled"}, y)
  BY <1>5 DEF But
<1>7. Idle(y, h)
  BY <1>3, <1>6, ButIdle DEF Stacked, Idle
<1> QED BY <1>1, <1>2, <1>5, <1>7 DEF p, d, l

\* A machine at rest with nothing to account for has the invariant.
LEMMA IdleInv ==
    ASSUME NEW x, NEW h, Idle(x, h), x.log = {}, x.done = NoIns,
           x.probe = NoProbe \/ (Orderly(x) /\ Settled(x) => ProbeTrue(x))
    PROVE  Inv(x, h)
BY RestedInv DEF Idle, Rested

\* Execute and Restart
LEMMA ExecuteInv ==
    ASSUME NEW x, NEW h, Idle(x, h), x.frames = <<>>, NEW i \in h.code
    PROVE  Inv(Begin([x EXCEPT !.handled = {}], i, {}), h)
<1> DEFINE v == {}
           y == [x EXCEPT !.handled = v]
<1>1. v \in SUBSET Nat
  OBVIOUS
<1> HIDE DEF v
<1>2. /\ y = [n \in Fields |-> y[n]] /\ y.handled = v
      /\ \A n \in Fields \ {"handled"} : y[n] = x[n]
  BY DEF Idle, Whole, Sound, Machine, Fields
<1> HIDE DEF y
<1>3. y.atc = x.atc /\ y.tbl = x.tbl /\ y.restart = x.restart /\ y.frames = x.frames
  BY <1>2 DEF Fields
<1>4. Machine(y)
  BY <1>2, <1>3 DEF Idle, Whole, Sound, Machine
<1>5. But(x, {"log", "done", "probe", "mmu_sr", "restart", "handled"}, y)
  BY <1>2, <1>4 DEF But
<1>6. Idle(y, h)
  BY <1>1, <1>2, <1>3, <1>5, ButIdle DEF Stacked, Idle
<1>7. Len(y.frames) < MaxFrames
  BY <1>3, FramesAssumption
<1>8. i \in Program(h)
  BY DEF Program
<1>9. Inv(Begin(y, i, v), h)
  BY <1>1, <1>6, <1>7, <1>8, BeginInv DEF Idle
<1> QED BY <1>9 DEF y, v

LEMMA RestartInv ==
    ASSUME NEW x, NEW h, Idle(x, h), x.restart # NoIns, Len(x.frames) < MaxFrames
    PROVE  Inv(Begin([x EXCEPT !.restart = NoIns], x.restart, x.handled), h)
<1> DEFINE v == NoIns
           y == [x EXCEPT !.restart = v]
<1>1. v = NoIns /\ x.restart \in Program(h) /\ x.handled \in SUBSET Nat
  BY DEF Idle, Stacked
<1> HIDE DEF v
<1>2. /\ y = [n \in Fields |-> y[n]] /\ y.restart = v
      /\ \A n \in Fields \ {"restart"} : y[n] = x[n]
  BY DEF Idle, Whole, Sound, Machine, Fields
<1> HIDE DEF y
<1>3. y.atc = x.atc /\ y.tbl = x.tbl /\ y.handled = x.handled /\ y.frames = x.frames
  BY <1>2 DEF Fields
<1>4. Machine(y)
  BY <1>2, <1>3 DEF Idle, Whole, Sound, Machine
<1>5. But(x, {"log", "done", "probe", "mmu_sr", "restart", "handled"}, y)
  BY <1>2, <1>4 DEF But
<1>6. Idle(y, h)
  BY <1>1, <1>2, <1>3, <1>5, ButIdle
<1>7. Inv(Begin(y, x.restart, x.handled), h)
  BY <1>1, <1>3, <1>6, BeginInv DEF Idle
<1> QED BY <1>7 DEF y, v

\* Frames, the stacked state and the completions change, the registers do not.
LEMMA ButFrames ==
    ASSUME NEW x, NEW h, Idle(x, h), NEW y,
           But(x, {"s", "frames", "restart", "handled", "rd", "ws"}, y),
           y.s \in BOOLEAN, Stacked(y, h), Armless(y, h),
           SteadyRoots(h) => \A n \in 1..Len(y.frames) : FaithfulFrame(y.frames[n], h)
    PROVE  Idle(y, h) /\ y.log = x.log /\ y.done = x.done /\ y.probe = x.probe
<1>1. /\ y.atc = x.atc /\ View(x, y) /\ y.wdata = x.wdata
      /\ y.stopped = x.stopped /\ y.run_mode = x.run_mode /\ y.cause = x.cause
      /\ y.todo = x.todo /\ y.ov = x.ov /\ y.log = x.log /\ y.done = x.done /\ y.probe = x.probe
  BY DEF But, Fields, View
<1>2. Sound(y)
  BY <1>1, SoundBeside DEF SameAtc, But, Idle, Whole
<1>3. Whole(y, h)
  BY <1>1, <1>2 DEF Whole, View, Paged, Typed, Idle
<1>4. NoConfig(y) <=> NoConfig(x)
  BY <1>1 DEF NoConfig, View, Fixed, RootsValid, Levels030, Fcl
<1>5. Running(y)
  BY <1>1 DEF Running, Idle
<1>6. Reported(y, h)
  BY <1>1, <1>4, <1>5 DEF Reported, Idle
<1> QED BY <1>1, <1>3, <1>5, <1>6 DEF Idle

\* The mapping changes, frames and instructions do not.
LEMMA ButMapping ==
    ASSUME NEW x, NEW h, Idle(x, h), NEW y, Sound(y),
           But(x, {"tbl", "edited", "atc", "crp", "pmmu_enabled", "dtt", "itt"}, y),
           Paged(y), y.itt = y.dtt, Fixed(x) \/ y.crp = x.crp
    PROVE  Idle(y, h) /\ y.log = x.log /\ y.done = x.done /\ y.probe = x.probe
<1>1. /\ y.wdata = x.wdata /\ y.s = x.s /\ y.rd = x.rd /\ y.ws = x.ws
      /\ y.stopped = x.stopped /\ y.run_mode = x.run_mode /\ y.cause = x.cause
      /\ y.todo = x.todo /\ y.ov = x.ov /\ y.log = x.log /\ y.done = x.done /\ y.probe = x.probe
      /\ y.cpu_type = x.cpu_type /\ y.srp = x.srp /\ y.tc = x.tc /\ y.sfc = x.sfc /\ y.dfc = x.dfc
      /\ y.frames = x.frames /\ y.restart = x.restart /\ y.handled = x.handled
      /\ y.ins = x.ins /\ y.excused = x.excused
  BY DEF But, Fields
<1>2. Whole(y, h)
  BY <1>1 DEF Whole, Typed, Idle
<1>3. NoConfig(x) => NoConfig(y)
  BY <1>1 DEF NoConfig, Fixed, RootsValid, Levels030, Fcl
<1>4. Running(y)
  BY <1>1 DEF Running, Idle
<1>5. Stacked(y, h) /\ Reported(y, h) /\ Armless(y, h)
  BY <1>1, <1>3, <1>4 DEF Reported, Stacked, Armless, Idle
<1> QED BY <1>1, <1>2, <1>4, <1>5 DEF Idle

\* Interrupt
LEMMA InterruptInv ==
    ASSUME NEW x, NEW h, Idle(x, h), Len(x.frames) + 1 < MaxFrames, NEW i \in h.irq
    PROVE  Inv([Quiet(x) EXCEPT !.s = TRUE, !.restart = i, !.handled = {},
                  !.frames = Append(@, [FaultFrame(0, 0, FALSE, FALSE) EXCEPT
                     !.kind = "irq", !.s = x.s, !.ins = x.restart, !.handled = x.handled])], h)
<1> DEFINE q == Quiet(x)
           a == [FaultFrame(0, 0, FALSE, FALSE) EXCEPT
                     !.kind = "irq", !.s = x.s, !.ins = x.restart, !.handled = x.handled]
           fs == Append(q.frames, a)
           v == {}
           t == TRUE
           y == [q EXCEPT !.s = t, !.restart = i, !.handled = v, !.frames = fs]
<1>1. /\ Idle(q, h) /\ q.log = {} /\ q.done = NoIns /\ q.probe = NoProbe
      /\ But(x, {"log", "done", "probe"}, q)
  BY QuietIdle
<1> HIDE DEF q
<1>2. q.frames = x.frames
  BY <1>1 DEF But, Fields
<1>3. [q EXCEPT !.s = TRUE, !.restart = i, !.handled = {}, !.frames = Append(@, a)] = y
  BY <1>1 DEF Idle, Whole, Sound, Machine, Fields
<1>4. a.kind = "irq" /\ a.df = TRUE /\ a \in FrameSet(h)
  <2>1. /\ x.s \in BOOLEAN /\ x.restart \in h.code \cup h.irq \cup {NoIns} /\ x.handled \in SUBSET Nat
    BY DEF Idle, Whole, Typed, Stacked, Program
  <2> DEFINE r == FaultFrame(0, 0, FALSE, FALSE)
             g == "irq"
             u == x.s
             e == x.restart
             d == x.handled
  <2>2. /\ r = [n \in FrameFields |-> r[n]] /\ r.fa = 0 /\ r.size = 0 /\ r.write = FALSE
        /\ r.instr = FALSE /\ r.atc = FALSE /\ r.fc = 0 /\ r.data = [at |-> 0, size |-> 0]
        /\ r.df = TRUE
    BY DEF FaultFrame, FrameFields
  <2>3. a = [r EXCEPT !.kind = g, !.s = u, !.ins = e, !.handled = d]
    OBVIOUS
  <2>4. g = "irq" /\ u \in BOOLEAN /\ e \in h.code \cup h.irq \cup {NoIns} /\ d \in SUBSET Nat
    BY <2>1
  <2> HIDE DEF a, r, g, u, e, d
  <2>5. /\ a = [n \in FrameFields |-> a[n]] /\ a.kind = g /\ a.s = u /\ a.ins = e /\ a.handled = d
        /\ \A n \in FrameFields \ {"kind", "s", "ins", "handled"} : a[n] = r[n]
    BY <2>2, <2>3 DEF FrameFields
  <2>6. /\ a.fa = r.fa /\ a.size = r.size /\ a.write = r.write /\ a.instr = r.instr
        /\ a.atc = r.atc /\ a.fc = r.fc /\ a.data = r.data /\ a.df = r.df
    BY <2>5 DEF FrameFields
  <2>7. a \in FrameSet(h)
    <3>1. a.kind \in {"access", "config", "irq"} /\ a.fa \in Nat /\ a.size \in 0..4 /\ a.fc \in 0..7
      BY <2>2, <2>4, <2>5, <2>6
    <3>2. a.write \in BOOLEAN /\ a.instr \in BOOLEAN /\ a.atc \in BOOLEAN /\ a.df \in BOOLEAN
      BY <2>2, <2>6
    <3>3. a.s \in BOOLEAN /\ a.ins \in h.code \cup h.irq \cup {NoIns} /\ a.handled \in SUBSET Nat
      BY <2>4, <2>5
    <3>4. a.data \in [at : Nat, size : 0..4]
      BY <2>2, <2>6
    <3> QED BY <2>5, <3>1, <3>2, <3>3, <3>4 DEF FrameSet, FrameFields
  <2> QED BY <2>2, <2>4, <2>5, <2>6, <2>7
<1> HIDE DEF a
<1>5. q.frames \in Seq(FrameSet(h))
  BY <1>1 DEF Idle, Stacked
<1>6. /\ fs \in Seq(FrameSet(h)) /\ Len(fs) = Len(q.frames) + 1 /\ Len(q.frames) \in Nat
      /\ \A n \in 1..Len(fs) : fs[n] = a \/ (n \in 1..Len(q.frames) /\ fs[n] = q.frames[n])
  BY <1>4, <1>5
<1>7. v \in SUBSET Nat /\ t \in BOOLEAN
  OBVIOUS
<1> HIDE DEF fs, v, t
<1>8. /\ y = [n \in Fields |-> y[n]] /\ y.s = t /\ y.restart = i /\ y.handled = v /\ y.frames = fs
      /\ \A n \in Fields \ {"s", "restart", "handled", "frames"} : y[n] = q[n]
  BY <1>1 DEF Idle, Whole, Sound, Machine, Fields
<1> HIDE DEF y
<1>9. /\ y.atc = q.atc /\ y.tbl = q.tbl /\ y.rd = q.rd /\ y.ws = q.ws /\ y.ins = q.ins
      /\ y.excused = q.excused
  BY <1>8 DEF Fields
<1>10. Machine(y)
  BY <1>1, <1>8, <1>9 DEF Idle, Whole, Sound, Machine
<1>11. But(q, {"s", "frames", "restart", "handled", "rd", "ws"}, y)
  BY <1>8, <1>10 DEF But
<1>12. Len(fs) <= MaxFrames
  BY <1>2, <1>6, FramesAssumption
<1>13. Stacked(y, h)
  BY <1>1, <1>6, <1>7, <1>8, <1>9, <1>12 DEF Stacked, Idle, Program
<1>14. Armless(y, h)
  BY <1>1, <1>4, <1>6, <1>8, <1>9 DEF Armless, Idle
<1>15. FaithfulFrame(a, h)
  BY <1>4 DEF FaithfulFrame
<1>16. SteadyRoots(h) => \A n \in 1..Len(y.frames) : FaithfulFrame(y.frames[n], h)
  BY <1>1, <1>6, <1>8, <1>15 DEF Idle, Reported
<1>17. Idle(y, h) /\ y.log = q.log /\ y.done = q.done /\ y.probe = q.probe
  BY <1>1, <1>7, <1>8, <1>11, <1>13, <1>14, <1>16, ButFrames
<1>18. Inv(y, h)
  BY <1>1, <1>17, IdleInv
<1> QED BY <1>3, <1>18 DEF q, a

\* WriteDescriptor
LEMMA EditInv ==
    ASSUME NEW x, NEW h, Idle(x, h), NEW e \in h.edits
    PROVE  Inv([Quiet(x) EXCEPT !.tbl = [@ EXCEPT ![e.slot] = e.desc],
                                !.edited = @ \/ x.tbl[e.slot].dt # 0], h)
<1> DEFINE q == Quiet(x)
           t == [q.tbl EXCEPT ![e.slot] = e.desc]
           v == q.edited \/ q.tbl[e.slot].dt # 0
           y == [q EXCEPT !.tbl = t, !.edited = v]
           y0 == [q EXCEPT !.tbl = [@ EXCEPT ![e.slot] = e.desc],
                           !.edited = @ \/ q.tbl[e.slot].dt # 0]
<1>1. /\ Idle(q, h) /\ q.log = {} /\ q.done = NoIns /\ q.probe = NoProbe
      /\ But(x, {"log", "done", "probe"}, q)
  BY QuietIdle
<1> HIDE DEF q
<1>2. q.tbl = x.tbl
  BY <1>1 DEF But, Fields
<1>3. Machine(q) /\ Good(q) /\ Tagged(q) /\ Paged(q) /\ q.itt = q.dtt
  BY <1>1 DEF Idle, Whole, Sound
<1>4. Machine(y0) /\ Good(y0)
  BY <1>3, EditGood
<1>5. y0 = y
  BY <1>3 DEF Machine, Fields
<1>6. \A z \in DOMAIN t : t[z].page \in Nat
  <2>1. q.tbl = [z \in DOMAIN q.tbl |-> q.tbl[z]]
    BY <1>3 DEF Machine
  <2>2. e.desc.page \in Nat
    BY <1>1, GuestsAssumption DEF Idle, Whole
  <2>3. \A z \in DOMAIN t : z \in DOMAIN q.tbl /\ (t[z] = e.desc \/ t[z] = q.tbl[z])
    BY <2>1
  <2> HIDE DEF t
  <2> QED BY <1>3, <2>2, <2>3 DEF Paged
<1> HIDE DEF t, v, y0
<1>7. /\ y.tbl = t
      /\ \A n \in Fields \ {"tbl", "edited"} : y[n] = q[n]
  BY <1>3 DEF Machine, Fields
<1> HIDE DEF y
<1>8. y.atc = q.atc /\ y.itt = q.itt /\ y.dtt = q.dtt /\ y.crp = q.crp
  BY <1>7 DEF Fields
<1>9. Sound(y) /\ Paged(y)
  BY <1>3, <1>4, <1>5, <1>6, <1>7, <1>8 DEF Sound, Tagged, Paged
<1>10. But(q, {"tbl", "edited", "atc", "crp", "pmmu_enabled", "dtt", "itt"}, y)
  BY <1>4, <1>5, <1>7 DEF But
<1>11. Idle(y, h) /\ y.log = q.log /\ y.done = q.done /\ y.probe = q.probe
  BY <1>1, <1>3, <1>8, <1>9, <1>10, ButMapping
<1>12. Inv(y, h)
  BY <1>1, <1>11, IdleInv
<1>13. Inv(y0, h)
  BY <1>5, <1>12
<1> QED BY <1>2, <1>13 DEF y0, q

\* A flush empties the ATC and leaves the rest alone.
LEMMA FlushEffect ==
    ASSUME NEW x, Machine(x)
    PROVE  LET y == flush_all(x) IN Sound(y) /\ But(x, {"atc", "edited"}, y)
<1> DEFINE v == [i \in Slots |-> NoEntry]
           f == FALSE
           y == [x EXCEPT !.atc = v, !.edited = f]
<1>1. DOMAIN x.atc = Slots
  <2>1. x.atc = [i \in Slots |-> x.atc[i]]
    BY DEF Machine
  <2> QED BY <2>1
<1>2. y = flush_all(x)
  BY <1>1 DEF flush_all, Machine, Fields
<1>3. \A i \in Slots : v[i].valid = FALSE
  BY DEF NoEntry
<1> HIDE DEF v, f
<1>4. y.atc = v /\ \A n \in Fields \ {"atc", "edited"} : y[n] = x[n]
  BY DEF Machine, Fields
<1>5. Machine(y) /\ Good(y)
  BY <1>2, FlushGood
<1> HIDE DEF y
<1>6. Sound(y)
  BY <1>3, <1>4, <1>5 DEF Sound, Tagged
<1>7. But(x, {"atc", "edited"}, y)
  BY <1>4, <1>5 DEF But
<1> QED BY <1>2, <1>6, <1>7

\* The mapping changes, the ATC is flushed: Pflush and Movec.
LEMMA FlushedInv ==
    ASSUME NEW q, NEW h, Idle(q, h), q.log = {}, q.done = NoIns, q.probe = NoProbe, Fixed(q),
           NEW u, Machine(u), But(q, {"crp", "pmmu_enabled", "dtt", "itt"}, u), u.dtt = u.itt
    PROVE  Inv(flush_all(u), h)
<1> DEFINE y == flush_all(u)
<1>1. Sound(y) /\ But(u, {"atc", "edited"}, y)
  BY FlushEffect
<1> HIDE DEF y
<1>2. But(q, {"tbl", "edited", "atc", "crp", "pmmu_enabled", "dtt", "itt"}, y)
  <2>1. ASSUME NEW n \in Fields \ {"tbl", "edited", "atc", "crp", "pmmu_enabled", "dtt", "itt"}
        PROVE  y[n] = q[n]
    BY <1>1 DEF But
  <2> QED BY <1>1, <2>1 DEF But
<1>3. y.tbl = u.tbl /\ u.tbl = q.tbl /\ y.itt = u.itt /\ y.dtt = u.dtt
  BY <1>1 DEF But, Fields
<1>4. Paged(y) /\ y.itt = y.dtt
  BY <1>3 DEF Paged, Idle, Whole
<1>5. Idle(y, h) /\ y.log = q.log /\ y.done = q.done /\ y.probe = q.probe
  BY <1>1, <1>2, <1>4, ButMapping
<1>6. Inv(y, h)
  BY <1>5, IdleInv
<1> QED BY <1>6 DEF y

LEMMA PflushInv ==
    ASSUME NEW x, NEW h, Idle(x, h), Fixed(x)
    PROVE  Inv(flush_all(Quiet(x)), h)
<1> DEFINE q == Quiet(x)
<1>1. /\ Idle(q, h) /\ q.log = {} /\ q.done = NoIns /\ q.probe = NoProbe
      /\ But(x, {"log", "done", "probe"}, q)
  BY QuietIdle
<1> HIDE DEF q
<1>2. Machine(q) /\ q.dtt = q.itt /\ Fixed(q)
  BY <1>1 DEF Idle, Whole, Sound, But, Fields, Fixed
<1>3. But(q, {"crp", "pmmu_enabled", "dtt", "itt"}, q)
  BY <1>2 DEF But
<1>4. Inv(flush_all(q), h)
  BY <1>1, <1>2, <1>3, FlushedInv
<1> QED BY <1>4 DEF q

LEMMA MovecInv ==
    ASSUME NEW x, NEW h, Idle(x, h), Fixed(x), NEW reg, NEW v
    PROVE  Inv(movec(Quiet(x), reg, v), h)
<1> DEFINE q == Quiet(x)
           S == {"crp", "pmmu_enabled", "dtt", "itt"}
           u1 == [q EXCEPT !.crp = v]
           u2 == [q EXCEPT !.pmmu_enabled = v]
           u3 == [q EXCEPT !.dtt = v, !.itt = v]
<1>1. /\ Idle(q, h) /\ q.log = {} /\ q.done = NoIns /\ q.probe = NoProbe
      /\ But(x, {"log", "done", "probe"}, q)
  BY QuietIdle
<1>2. movec(q, reg, v) \in {flush_all(u1), flush_all(u2), flush_all(u3)}
  BY DEF movec
<1> HIDE DEF q
<1>3. Machine(q) /\ q.dtt = q.itt /\ Fixed(q)
  BY <1>1 DEF Idle, Whole, Sound, But, Fields, Fixed
<1>4. Machine(u1) /\ But(q, S, u1) /\ u1.dtt = u1.itt
  <2>1. u1 = [n \in Fields |-> u1[n]] /\ \A n \in Fields \ {"crp"} : u1[n] = q[n]
    BY <1>3 DEF Machine, Fields
  <2> HIDE DEF u1
  <2>2. u1.atc = q.atc /\ u1.tbl = q.tbl /\ u1.dtt = q.dtt /\ u1.itt = q.itt
    BY <2>1 DEF Fields
  <2>3. Machine(u1)
    BY <1>3, <2>1, <2>2 DEF Machine
  <2> QED BY <1>3, <2>1, <2>2, <2>3 DEF But
<1>5. Machine(u2) /\ But(q, S, u2) /\ u2.dtt = u2.itt
  <2>1. u2 = [n \in Fields |-> u2[n]] /\ \A n \in Fields \ {"pmmu_enabled"} : u2[n] = q[n]
    BY <1>3 DEF Machine, Fields
  <2> HIDE DEF u2
  <2>2. u2.atc = q.atc /\ u2.tbl = q.tbl /\ u2.dtt = q.dtt /\ u2.itt = q.itt
    BY <2>1 DEF Fields
  <2>3. Machine(u2)
    BY <1>3, <2>1, <2>2 DEF Machine
  <2> QED BY <1>3, <2>1, <2>2, <2>3 DEF But
<1>6. Machine(u3) /\ But(q, S, u3) /\ u3.dtt = u3.itt
  <2>1. /\ u3 = [n \in Fields |-> u3[n]] /\ u3.dtt = v /\ u3.itt = v
        /\ \A n \in Fields \ {"dtt", "itt"} : u3[n] = q[n]
    BY <1>3 DEF Machine, Fields
  <2> HIDE DEF u3
  <2>2. u3.atc = q.atc /\ u3.tbl = q.tbl
    BY <2>1 DEF Fields
  <2>3. Machine(u3)
    BY <1>3, <2>1, <2>2 DEF Machine
  <2> QED BY <2>1, <2>3 DEF But
<1> HIDE DEF u1, u2, u3
<1>7. Inv(flush_all(u1), h) /\ Inv(flush_all(u2), h) /\ Inv(flush_all(u3), h)
  BY <1>1, <1>3, <1>4, <1>5, <1>6, FlushedInv
<1>8. Inv(movec(q, reg, v), h)
  BY <1>2, <1>7
<1> QED BY <1>8 DEF q

\* Ptest040: the answer is that of translate in the DFC space.
LEMMA Ptest040Inv ==
    ASSUME NEW x, NEW h, Idle(x, h), x.cpu_type = "M68040", NEW f \in Nat, NEW write \in BOOLEAN
    PROVE  Inv(Ptest(translate([Quiet(x) EXCEPT !.ov = x.dfc], f, write, FALSE), f, write), h)
<1> DEFINE q == Quiet(x)
           p == [q EXCEPT !.ov = x.dfc]
           t == translate(p, f, write, No)
           z == t.c
           r == [f |-> f, fc |-> z.dfc, write |-> write, ok |-> t.ok, page |-> t.page]
           m == IF t.ok THEN t.page + 1 ELSE 0
           e == None
           y == [z EXCEPT !.ov = e, !.mmu_sr = m, !.probe = r]
<1>1. /\ Idle(q, h) /\ q.log = {} /\ q.done = NoIns /\ q.probe = NoProbe
      /\ But(x, {"log", "done", "probe"}, q)
  BY QuietIdle
<1> HIDE DEF q
<1>2. Sound(q) /\ q.dfc = x.dfc /\ q.cpu_type = "M68040"
  BY <1>1 DEF Idle, Whole, But, Fields
<1>3. Unspaced(q, p) /\ Sound(p) /\ p.ov = x.dfc
  BY <1>2, SetOv
<1> HIDE DEF p
<1>4. No \in BOOLEAN
  BY DEF No
<1>5. /\ Still(p, z) /\ Sound(z) /\ t.ok \in BOOLEAN
      /\ Sane(p) /\ p.s \in BOOLEAN /\ p.ov \in {None, 1, 2, 5, 6} =>
           /\ t.ok => Allows(p, f, SpaceOf(p, No), write, No, t.page)
           /\ ~t.ok => \A g : ~Allows(p, f, SpaceOf(p, No), write, No, g)
  BY <1>3, <1>4, TranslateEffect
<1>6. y = Ptest(t, f, write)
  BY DEF Ptest
<1>7. e = None
  OBVIOUS
<1>8. r.f = f /\ r.fc = z.dfc /\ r.write = write /\ r.ok = t.ok /\ r.page = t.page
  OBVIOUS
<1> HIDE DEF t, z, r, m, e
<1>9. /\ y = [n \in Fields |-> y[n]] /\ y.ov = e /\ y.probe = r
      /\ \A n \in Fields \ {"ov", "mmu_sr", "probe"} : y[n] = z[n]
  BY <1>5 DEF Sound, Machine, Fields
<1> HIDE DEF y
<1>10. /\ y.atc = z.atc /\ y.tbl = z.tbl /\ View(z, y) /\ y.s = z.s /\ y.rd = z.rd /\ y.ws = z.ws
       /\ y.wdata = z.wdata /\ y.stopped = z.stopped /\ y.run_mode = z.run_mode
       /\ y.cause = z.cause /\ y.frames = z.frames /\ y.log = z.log /\ Task(z, y)
  BY <1>9 DEF View, Fields, Task
<1>11. Machine(y)
  BY <1>5, <1>9, <1>10 DEF Sound, Machine
<1>12. Sound(y)
  BY <1>5, <1>10, <1>11, SoundBeside DEF SameAtc
<1>13. View(q, p) /\ View(p, z)
  BY <1>3, <1>5 DEF Unspaced, Still
<1>14. View(p, y) /\ View(q, y)
  BY <1>10, <1>13, ViewTrans
<1>15. /\ y.s = q.s /\ y.rd = q.rd /\ y.ws = q.ws
       /\ y.wdata = q.wdata /\ y.stopped = q.stopped /\ y.run_mode = q.run_mode
       /\ y.cause = q.cause /\ y.frames = q.frames /\ y.log = q.log /\ Task(q, y)
  BY <1>3, <1>5, <1>10 DEF Unspaced, Still, Task
<1>16. Whole(y, h)
  <2>1. Typed(y)
    BY <1>1, <1>7, <1>9, <1>15 DEF Typed, Idle, Whole, None
  <2>2. Paged(y)
    BY <1>1, <1>14 DEF Idle, Whole, Paged, View
  <2> QED BY <1>1, <1>12, <1>14, <2>1, <2>2 DEF Idle, Whole, View
<1>17. NoConfig(y) <=> NoConfig(q)
  BY <1>14 DEF NoConfig, View, Fixed, RootsValid, Levels030, Fcl
<1>18. Running(y)
  BY <1>1, <1>15 DEF Running, Idle
<1>19. Stacked(y, h) /\ Reported(y, h) /\ Armless(y, h) /\ y.todo = <<>> /\ y.done = NoIns
  BY <1>1, <1>15, <1>17, <1>18 DEF Stacked, Reported, Armless, Idle, Task
<1>20. Idle(y, h)
  BY <1>7, <1>9, <1>16, <1>18, <1>19 DEF Idle
<1>21. ASSUME Orderly(y), Settled(y) PROVE ProbeTrue(y)
  <2>1. x.dfc \in {1, 2, 5, 6} /\ y.dfc = x.dfc /\ y.cpu_type = "M68040"
    BY <1>2, <1>14, <1>21 DEF Orderly, View
  <2>2. Sane(y)
    BY <1>16, <1>21, <2>1 DEF Sane, Cpus, Whole
  <2>3. Sane(p) /\ p.s \in BOOLEAN
    BY <1>1, <1>3, <1>14, <2>2, ViewSane DEF Unspaced, Idle, Whole, Typed
  <2>4. x.dfc # None /\ p.ov \in {None, 1, 2, 5, 6}
    BY <1>3, <2>1 DEF None
  <2>5. SpaceOf(p, No) = x.dfc
    BY <1>3, <2>4 DEF SpaceOf
  <2>6. /\ t.ok => Allows(p, f, x.dfc, write, No, t.page)
        /\ ~t.ok => \A g : ~Allows(p, f, x.dfc, write, No, g)
    BY <1>5, <2>3, <2>4, <2>5
  <2>7. /\ t.ok => Allows(y, f, x.dfc, write, No, t.page)
        /\ ~t.ok => \A g : ~Allows(y, f, x.dfc, write, No, g)
    BY <1>14, <2>6, ViewAllows
  <2>8. z.dfc = x.dfc
    BY <1>10, <2>1 DEF View
  <2> QED BY <1>8, <1>9, <2>1, <2>7, <2>8 DEF ProbeTrue
<1>22. Inv(y, h)
  BY <1>1, <1>15, <1>19, <1>20, <1>21, IdleInv
<1>23. Inv(Ptest(translate(p, f, write, No), f, write), h)
  BY <1>6, <1>22 DEF t
<1> QED BY <1>23 DEF p, q, No

\* Ptest030: a walk to the end reports what an access would meet.
LEMMA Ptest030Inv ==
    ASSUME NEW x, NEW h, Idle(x, h), x.cpu_type = "M68030", NEW f \in Nat, NEW write \in BOOLEAN,
           NEW level
    PROVE  LET w == Walk030(x, f, x.dfc, level)
           IN  Inv([Quiet(x) EXCEPT !.mmu_sr = w.levels,
                      !.probe = IF level # 7 THEN NoProbe
                                ELSE [f |-> f, fc |-> x.dfc, write |-> write,
                                      ok |-> Usable030(w, x.dfc, write), page |-> w.page]], h)
<1> DEFINE w == Walk030(x, f, x.dfc, level)
           q == Quiet(x)
           r == [f |-> f, fc |-> x.dfc, write |-> write,
                 ok |-> Usable030(w, x.dfc, write), page |-> w.page]
           p == IF level # 7 THEN NoProbe ELSE r
           m == w.levels
           y == [q EXCEPT !.mmu_sr = m, !.probe = p]
<1>1. /\ Idle(q, h) /\ q.log = {} /\ q.done = NoIns /\ q.probe = NoProbe
      /\ But(x, {"log", "done", "probe"}, q)
  BY QuietIdle
<1> HIDE DEF q
<1>2. /\ r.f = f /\ r.fc = x.dfc /\ r.write = write /\ r.ok = Usable030(w, x.dfc, write)
      /\ r.page = w.page
  OBVIOUS
<1>3. (level # 7 => p = NoProbe) /\ (level = 7 => p = r)
  OBVIOUS
<1> HIDE DEF r, p, m, w
<1>4. /\ y = [n \in Fields |-> y[n]] /\ y.probe = p
      /\ \A n \in Fields \ {"mmu_sr", "probe"} : y[n] = q[n]
  BY <1>1 DEF Idle, Whole, Sound, Machine, Fields
<1> HIDE DEF y
<1>5. /\ y.atc = q.atc /\ y.tbl = q.tbl /\ y.restart = q.restart /\ y.handled = q.handled
      /\ y.log = q.log /\ y.done = q.done
  BY <1>4 DEF Fields
<1>6. Machine(y)
  BY <1>1, <1>4, <1>5 DEF Idle, Whole, Sound, Machine
<1>7. But(q, {"log", "done", "probe", "mmu_sr", "restart", "handled"}, y)
  BY <1>4, <1>6 DEF But
<1>8. Idle(y, h) /\ View(q, y)
  BY <1>1, <1>5, <1>7, ButIdle DEF Stacked, Idle
<1>9. View(x, q) /\ Paged(x) /\ ~Fixed(x)
  BY <1>1 DEF But, View, Fields, Idle, Whole, Fixed
<1>10. View(x, y)
  BY <1>8, <1>9, ViewTrans
<1>11. ASSUME level = 7 PROVE ProbeTrue(y)
  <2> DEFINE u == Walk030(x, f, x.dfc, 7)
  <2>1. u = w /\ Walk030(y, f, x.dfc, 7) = u
    BY <1>10, <1>11, ViewWalk030 DEF w
  <2>2. u.end # "LevelStop"
    BY <1>9, Walk030Ends
  <2>3. TablesAllow(y, f, x.dfc, write, u.page) <=> TablesAllow(x, f, x.dfc, write, u.page)
    BY <1>10, ViewAllows
  <2>4. TablesAllow(x, f, x.dfc, write, u.page) <=> Allows030(x, f, x.dfc, write, u.page)
    BY <1>9 DEF TablesAllow
  <2>5. Allows030(x, f, x.dfc, write, u.page) <=>
           u.end = "Page" /\ ~(write /\ u.w) /\ ~(u.s /\ ~Super(x.dfc))
    BY DEF Allows030
  <2> HIDE DEF u
  <2>6. Usable030(u, x.dfc, write) <=> TablesAllow(y, f, x.dfc, write, u.page)
    BY <2>2, <2>3, <2>4, <2>5 DEF Usable030
  <2>7. y.probe = r /\ r.ok = Usable030(u, x.dfc, write) /\ y.cpu_type = "M68030"
    BY <1>2, <1>3, <1>4, <1>10, <1>11, <2>1 DEF View
  <2>8. Walk030(y, y.probe.f, y.probe.fc, 7).page = u.page
    BY <1>2, <2>1, <2>7
  <2> QED BY <1>2, <2>6, <2>7, <2>8 DEF ProbeTrue
<1>12. y.probe = NoProbe \/ ProbeTrue(y)
  BY <1>3, <1>4, <1>11
<1>13. Inv(y, h)
  BY <1>1, <1>5, <1>8, <1>12, IdleInv
<1> QED BY <1>13 DEF y, p, r, m, w, q

\* CompleteCycle: the frame stays what it was but for DF.
LEMMA CompleteInv ==
    ASSUME NEW x, NEW h, Idle(x, h), x.frames # <<>>, h.completes
    PROVE  Inv([Quiet(x) EXCEPT !.frames[Len(x.frames)].df = FALSE], h)
<1> DEFINE q == Quiet(x)
           l == Len(q.frames)
           b == q.frames[l]
           d == FALSE
           a == [b EXCEPT !.df = d]
           fs == [q.frames EXCEPT ![l] = a]
           y == [q EXCEPT !.frames = fs]
<1>1. /\ Idle(q, h) /\ q.log = {} /\ q.done = NoIns /\ q.probe = NoProbe
      /\ But(x, {"log", "done", "probe"}, q)
  BY QuietIdle
<1> HIDE DEF q
<1>2. q.frames = x.frames
  BY <1>1 DEF But, Fields
<1>3. q.frames \in Seq(FrameSet(h)) /\ l \in 1..Len(q.frames) /\ l <= MaxFrames
  BY <1>1, <1>2 DEF Idle, Stacked
<1>4. [q EXCEPT !.frames[l].df = FALSE] = y
  BY <1>1 DEF Idle, Whole, Sound, Machine, Fields
<1>5. b \in FrameSet(h) /\ d \in BOOLEAN
  BY <1>3
<1> HIDE DEF b, d
<1>6. /\ a \in FrameSet(h) /\ a.kind = b.kind /\ a.atc = b.atc /\ a.fa = b.fa /\ a.ins = b.ins
      /\ a.fc = b.fc /\ a.s = b.s /\ a.instr = b.instr /\ a.write = b.write /\ a.data = b.data
      /\ a.size = b.size
  BY <1>5 DEF FrameSet
<1> HIDE DEF a
<1>7. /\ fs \in Seq(FrameSet(h)) /\ Len(fs) = l
      /\ \A n \in 1..Len(fs) : fs[n] = (IF n = l THEN a ELSE q.frames[n])
  BY <1>3, <1>6
<1> HIDE DEF fs
<1>8. /\ y = [n \in Fields |-> y[n]] /\ y.frames = fs
      /\ \A n \in Fields \ {"frames"} : y[n] = q[n]
  BY <1>1 DEF Idle, Whole, Sound, Machine, Fields
<1> HIDE DEF y, l
<1>9. /\ y.atc = q.atc /\ y.tbl = q.tbl /\ y.s = q.s /\ y.ins = q.ins /\ y.excused = q.excused
      /\ y.restart = q.restart /\ y.handled = q.handled
  BY <1>8 DEF Fields
<1>10. Machine(y)
  BY <1>1, <1>8, <1>9 DEF Idle, Whole, Sound, Machine
<1>11. But(q, {"s", "frames", "restart", "handled", "rd", "ws"}, y)
  BY <1>8, <1>10 DEF But
<1>12. Stacked(y, h)
  BY <1>1, <1>3, <1>7, <1>8, <1>9 DEF Stacked, Idle
<1>13. Armless(y, h)
  BY DEF Armless
<1>14. ASSUME SteadyRoots(h), NEW n \in 1..Len(y.frames) PROVE FaithfulFrame(y.frames[n], h)
  <2>1. \A i \in 1..Len(q.frames) : FaithfulFrame(q.frames[i], h)
    BY <1>1, <1>14 DEF Idle, Reported
  <2>2. FaithfulFrame(b, h)
    BY <1>3, <2>1 DEF b
  <2>3. FaithfulFrame(a, h)
    BY <1>6, <2>2 DEF FaithfulFrame
  <2> QED BY <1>3, <1>7, <1>8, <1>14, <2>1, <2>3 DEF l
<1>15. y.s \in BOOLEAN
  BY <1>1, <1>9 DEF Idle, Whole, Typed
<1>16. Idle(y, h) /\ y.log = q.log /\ y.done = q.done /\ y.probe = q.probe
  BY <1>1, <1>11, <1>12, <1>13, <1>14, <1>15, ButFrames
<1>17. Inv(y, h)
  BY <1>1, <1>16, IdleInv
<1> QED BY <1>2, <1>4, <1>17 DEF q, l

\* Rte: the frame is popped, its instruction is to be restarted.
LEMMA RteInv ==
    ASSUME NEW x, NEW h, Idle(x, h), x.frames # <<>>
    PROVE  Inv(rte(Quiet(x), x.frames[Len(x.frames)]), h)
<1> DEFINE q == Quiet(x)
           l == Len(q.frames)
           a == q.frames[l]
           fs == SubSeq(q.frames, 1, l - 1)
           hd == a.handled \cup (IF Absorbed(q, a) THEN Bytes(a.fa, a.size) ELSE {})
           y == rte(q, a)
<1>1. /\ Idle(q, h) /\ q.log = {} /\ q.done = NoIns /\ q.probe = NoProbe
      /\ But(x, {"log", "done", "probe"}, q)
  BY QuietIdle
<1> HIDE DEF q
<1>2. q.frames = x.frames
  BY <1>1 DEF But, Fields
<1>3. /\ q.frames \in Seq(FrameSet(h)) /\ l \in 1..Len(q.frames) /\ l <= MaxFrames
      /\ l \in Nat
  BY <1>1, <1>2 DEF Idle, Stacked
<1>4. a \in FrameSet(h)
  BY <1>3
<1>5. fs \in Seq(FrameSet(h)) /\ Len(fs) = l - 1 /\ \A n \in 1..Len(fs) : fs[n] = q.frames[n]
  BY <1>3
<1> HIDE DEF a
<1>6. /\ a.s \in BOOLEAN /\ a.ins \in Program(h) \cup {NoIns} /\ a.handled \in SUBSET Nat
      /\ a.fa \in Nat /\ a.size \in 0..4
  BY <1>4 DEF FrameSet, Program
<1>7. hd \in SUBSET Nat
  <2>1. Bytes(a.fa, a.size) \subseteq Nat
    BY <1>6 DEF Bytes
  <2> QED BY <1>6, <2>1
<1>8. PICK rd, ws : /\ y = [q EXCEPT !.s = a.s, !.frames = fs, !.restart = a.ins, !.handled = hd,
                                     !.rd = rd, !.ws = ws]
                    /\ ~Absorbed(q, a) => rd = q.rd /\ ws = q.ws
  <2> DEFINE u == a.s
             i == a.ins
             z == [q EXCEPT !.s = u, !.frames = fs, !.restart = i, !.handled = hd]
  <2>1. rte_Unarmed(q, a) = z
    BY <1>1 DEF rte_Unarmed, Idle, Whole, Sound, Machine, Fields
  <2>2. y \in {z, [z EXCEPT !.ws = a.fa], [z EXCEPT !.rd = a.fa]} /\ (~Absorbed(q, a) => y = z)
    BY <2>1 DEF rte
  <2> DEFINE Y(rd, ws) == [q EXCEPT !.s = u, !.frames = fs, !.restart = i, !.handled = hd,
                                    !.rd = rd, !.ws = ws]
             g == a.fa
             r == q.rd
             w == q.ws
  <2> HIDE DEF u, i, fs, hd, y, g
  <2>3. z = Y(r, w)
    BY <1>1 DEF Idle, Whole, Sound, Machine, Fields
  <2>4. [z EXCEPT !.ws = g] = Y(r, g)
    BY <1>1 DEF Idle, Whole, Sound, Machine, Fields
  <2>5. [z EXCEPT !.rd = g] = Y(g, w)
    BY <1>1 DEF Idle, Whole, Sound, Machine, Fields
  <2> HIDE DEF Y, z, r, w
  <2>6. \E rd, ws : y = Y(rd, ws) /\ (~Absorbed(q, a) => rd = r /\ ws = w)
    BY <2>2, <2>3, <2>4, <2>5 DEF g
  <2> QED BY <2>6 DEF Y, u, i, r, w
<1> DEFINE u == a.s
           i == a.ins
<1>9. y = [q EXCEPT !.s = u, !.frames = fs, !.restart = i, !.handled = hd, !.rd = rd, !.ws = ws]
  BY <1>8
<1>10. u \in BOOLEAN /\ i \in Program(h) \cup {NoIns}
  BY <1>6
<1> HIDE DEF fs, hd, y, u, i
<1>11. /\ y = [n \in Fields |-> y[n]] /\ y.s = u /\ y.frames = fs /\ y.restart = i
       /\ y.handled = hd /\ y.rd = rd /\ y.ws = ws
       /\ \A n \in Fields \ {"s", "frames", "restart", "handled", "rd", "ws"} : y[n] = q[n]
  BY <1>1, <1>9 DEF Idle, Whole, Sound, Machine, Fields
<1>12. y.atc = q.atc /\ y.tbl = q.tbl /\ y.ins = q.ins /\ y.excused = q.excused
  BY <1>11 DEF Fields
<1>13. Machine(y)
  BY <1>1, <1>11, <1>12 DEF Idle, Whole, Sound, Machine
<1>14. But(q, {"s", "frames", "restart", "handled", "rd", "ws"}, y)
  BY <1>11, <1>13 DEF But
<1>15. Len(fs) <= MaxFrames
  BY <1>3, <1>5, FramesAssumption
<1>16. Stacked(y, h)
  BY <1>1, <1>5, <1>7, <1>10, <1>11, <1>12, <1>15 DEF Stacked, Idle
<1>17. \A n \in 1..Len(fs) : n \in 1..Len(q.frames)
  BY <1>3, <1>5
<1>18. ASSUME ~h.completes
       PROVE  y.rd = None /\ y.ws = None /\ \A n \in 1..Len(y.frames) : y.frames[n].df = TRUE
  <2>1. /\ q.rd = None /\ q.ws = None
        /\ \A n \in 1..Len(q.frames) : q.frames[n].df = TRUE
    BY <1>1, <1>18 DEF Idle, Armless
  <2>2. a.df = TRUE
    BY <1>3, <2>1 DEF a
  <2>3. ~Absorbed(q, a)
    BY <2>2 DEF Absorbed
  <2> QED BY <1>5, <1>8, <1>11, <1>17, <2>1, <2>3
<1>19. Armless(y, h)
  BY <1>18 DEF Armless
<1>20. SteadyRoots(h) => \A n \in 1..Len(y.frames) : FaithfulFrame(y.frames[n], h)
  BY <1>1, <1>5, <1>11, <1>17 DEF Idle, Reported
<1>21. Idle(y, h) /\ y.log = q.log /\ y.done = q.done /\ y.probe = q.probe
  BY <1>1, <1>10, <1>11, <1>14, <1>16, <1>19, <1>20, ButFrames
<1>22. Inv(y, h)
  BY <1>1, <1>21, IdleInv
<1> QED BY <1>2, <1>22 DEF y, a, l, q

\* Reset: a machine at rest, its mapping off, its ATC empty
LEMMA ResetInv ==
    ASSUME NEW x, NEW h, Inv(x, h), x.todo = <<>>, h.resets
    PROVE  Inv(flush_all([Quiet(x) EXCEPT
                !.s = TRUE, !.pmmu_enabled = FALSE, !.tt = {}, !.itt = {}, !.dtt = {},
                !.stopped = FALSE, !.run_mode = "normal", !.frames = <<>>,
                !.restart = NoIns, !.handled = {}, !.excused = {}]), h)
<1> DEFINE q == Quiet(x)
           t == TRUE
           f == FALSE
           o == {}
           r == "normal"
           s == <<>>
           i == NoIns
           u == [q EXCEPT !.s = t, !.pmmu_enabled = f, !.tt = o, !.itt = o, !.dtt = o,
                   !.stopped = f, !.run_mode = r, !.frames = s, !.restart = i, !.handled = o,
                   !.excused = o]
           y == flush_all(u)
<1>1. Whole(x, h) /\ Stacked(x, h) /\ Armless(x, h) /\ x.ov = None
  BY DEF Inv, Working
<1>2. Machine(x)
  BY <1>1 DEF Whole, Sound
<1>3. Machine(q) /\ q.log = {} /\ q.done = NoIns /\ q.probe = NoProbe
      /\ \A n \in Fields \ {"log", "done", "probe"} : q[n] = x[n]
  <2> DEFINE p == NoProbe
             d == NoIns
             l == {}
             z == [x EXCEPT !.log = l, !.done = d, !.probe = p]
  <2>1. z = q
    BY DEF Quiet
  <2> HIDE DEF p, d, l
  <2>2. /\ z = [n \in Fields |-> z[n]] /\ z.log = l /\ z.done = d /\ z.probe = p
        /\ \A n \in Fields \ {"log", "done", "probe"} : z[n] = x[n]
    BY <1>2 DEF Machine, Fields
  <2> HIDE DEF z, q
  <2>3. z.atc = x.atc /\ z.tbl = x.tbl
    BY <2>2 DEF Fields
  <2>4. Machine(z)
    BY <1>2, <2>2, <2>3 DEF Machine
  <2> QED BY <2>1, <2>2, <2>4 DEF p, d, l
<1> HIDE DEF q
<1>4. t = TRUE /\ f = FALSE /\ o = {} /\ r = "normal" /\ s = <<>> /\ i = NoIns
  OBVIOUS
<1> HIDE DEF t, f, o, r, s, i
<1>5. /\ u = [n \in Fields |-> u[n]] /\ u.s = t /\ u.itt = o /\ u.dtt = o /\ u.stopped = f
      /\ u.run_mode = r /\ u.frames = s /\ u.restart = i /\ u.handled = o /\ u.excused = o
      /\ \A n \in Fields \ {"s", "pmmu_enabled", "tt", "itt", "dtt", "stopped", "run_mode",
                            "frames", "restart", "handled", "excused"} : u[n] = q[n]
  <2>0. q = [n \in Fields |-> q[n]]
    BY <1>3 DEF Machine
  <2>1. u = [n \in Fields |-> u[n]]
    BY <2>0
  <2>2. u.s = t /\ u.itt = o /\ u.dtt = o /\ u.stopped = f
    BY <2>0 DEF Fields
  <2>3. u.run_mode = r /\ u.frames = s /\ u.restart = i
    BY <2>0 DEF Fields
  <2>4. u.handled = o /\ u.excused = o
    BY <2>0 DEF Fields
  <2>5. ASSUME NEW n \in Fields, n # "s", n # "pmmu_enabled", n # "tt", n # "itt", n # "dtt",
               n # "stopped", n # "run_mode", n # "frames", n # "restart", n # "handled",
               n # "excused"
        PROVE  u[n] = q[n]
    BY <2>0, <2>5
  <2> HIDE DEF u
  <2> QED BY <2>1, <2>2, <2>3, <2>4, <2>5
<1> HIDE DEF u
<1>6. u.atc = q.atc /\ u.tbl = q.tbl
  BY <1>5 DEF Fields
<1>7. Machine(u)
  BY <1>3, <1>5, <1>6 DEF Machine
<1>8. Sound(y) /\ But(u, {"atc", "edited"}, y)
  BY <1>7, FlushEffect
<1> HIDE DEF y
<1>9. /\ y.s = t /\ y.itt = o /\ y.dtt = o /\ y.stopped = f
      /\ y.run_mode = r /\ y.frames = s /\ y.restart = i /\ y.handled = o /\ y.excused = o
      /\ y.tbl = u.tbl /\ y.cpu_type = u.cpu_type /\ y.sfc = u.sfc /\ y.dfc = u.dfc
      /\ y.ov = u.ov /\ y.wdata = u.wdata /\ y.todo = u.todo /\ y.ins = u.ins /\ y.rd = u.rd
      /\ y.ws = u.ws /\ y.log = u.log /\ y.done = u.done /\ y.probe = u.probe
  BY <1>5, <1>8 DEF But, Fields
<1>10. /\ u.tbl = q.tbl /\ u.cpu_type = q.cpu_type /\ u.sfc = q.sfc /\ u.dfc = q.dfc
       /\ u.ov = q.ov /\ u.wdata = q.wdata /\ u.todo = q.todo /\ u.ins = q.ins /\ u.rd = q.rd
       /\ u.ws = q.ws /\ u.log = q.log /\ u.done = q.done /\ u.probe = q.probe
  BY <1>5 DEF Fields
<1>11. /\ q.tbl = x.tbl /\ q.cpu_type = x.cpu_type /\ q.sfc = x.sfc /\ q.dfc = x.dfc
       /\ q.ov = x.ov /\ q.wdata = x.wdata /\ q.todo = x.todo /\ q.ins = x.ins /\ q.rd = x.rd
       /\ q.ws = x.ws
  BY <1>3 DEF Fields
<1>12. Typed(y) /\ Paged(y)
  <2>1. t \in BOOLEAN
    BY <1>4
  <2>2. y.ov \in -1..7
    BY <1>1, <1>9, <1>10, <1>11 DEF None
  <2> QED BY <1>1, <1>9, <1>10, <1>11, <2>1, <2>2 DEF Typed, Whole, Paged
<1>13. Whole(y, h)
  BY <1>1, <1>8, <1>9, <1>10, <1>11, <1>12 DEF Whole
<1>14. Stacked(y, h)
  <2>1. s \in Seq(FrameSet(h)) /\ Len(s) = 0 /\ o \in SUBSET Nat /\ i \in Program(h) \cup {NoIns}
    BY <1>4
  <2> QED BY <1>1, <1>9, <1>10, <1>11, <2>1, FramesAssumption DEF Stacked
<1>15. Reported(y, h)
  BY DEF Reported, SteadyRoots
<1>16. Armless(y, h)
  BY <1>1, <1>4, <1>9, <1>10, <1>11 DEF Armless
<1>17. Running(y)
  BY <1>4, <1>9 DEF Running
<1>18. Idle(y, h)
  BY <1>1, <1>9, <1>10, <1>11, <1>13, <1>14, <1>15, <1>16, <1>17 DEF Idle
<1>19. Inv(y, h)
  BY <1>3, <1>9, <1>10, <1>18, IdleInv
<1> QED BY <1>19 DEF y, u, q, t, f, o, r, s, i

----------------------------------------------------------------------------
(* The invariant holds *)

\* Power-on
LEMMA InitInv == Init => Inv(c, host)
<1> SUFFICES ASSUME Init PROVE Inv(c, host)
  OBVIOUS
<1>1. host \in Hosts /\ Machine(c) /\ Good(c)
  BY InitCoherent DEF Init, Coherent
<1>2. PICK type \in host.models : c = PowerOn(host, type)
  BY DEF Init
<1>3. /\ c.cpu_type = type /\ c.s = host.s /\ c.tc = host.tc /\ c.crp = host.crp
      /\ c.srp = host.srp /\ c.itt = host.ttr /\ c.dtt = host.ttr /\ c.sfc = host.fc
      /\ c.dfc = host.fc /\ c.ov = None
  BY <1>2 DEF PowerOn
<1>4. /\ c.atc = [i \in Slots |-> NoEntry] /\ c.rd = None /\ c.ws = None
      /\ c.wdata = [at |-> 0, size |-> 0] /\ c.run_mode = "normal" /\ c.stopped = FALSE
      /\ c.cause = "none" /\ c.frames = <<>> /\ c.todo = <<>> /\ c.restart = NoIns
      /\ c.ins = NoIns /\ c.done = NoIns
  BY <1>2 DEF PowerOn, Slots
<1>5. /\ c.tbl = host.tbl /\ c.log = {} /\ c.probe = NoProbe /\ c.handled = {} /\ c.excused = {}
  BY <1>2 DEF PowerOn
<1>6. /\ host.models \subseteq {"M68030", "M68040", "M68060"} /\ host.s \in BOOLEAN
      /\ host.fc \in 0..7 /\ \A z \in DOMAIN host.tbl : host.tbl[z].page \in Nat
  BY <1>1, GuestsAssumption
<1>7. Sound(c)
  <2>1. \A i \in Slots : c.atc[i].valid = FALSE
    BY <1>4 DEF NoEntry
  <2> QED BY <1>1, <2>1 DEF Sound, Tagged
<1>8. Typed(c)
  <2>1. c.wdata \in Datum
    BY <1>4 DEF Datum
  <2>2. c.ov \in -1..7
    BY <1>3 DEF None
  <2> QED BY <1>3, <1>6, <2>1, <2>2 DEF Typed
<1>9. Whole(c, host)
  BY <1>1, <1>3, <1>5, <1>6, <1>7, <1>8 DEF Whole, Paged
<1>10. Stacked(c, host)
  BY <1>4, <1>5, FramesAssumption DEF Stacked
<1>11. Running(c)
  BY <1>4 DEF Running
<1>12. SteadyRoots(host) => NoConfig(c)
  BY <1>3, <1>6 DEF SteadyRoots, NoConfig, Fixed, RootsValid, Levels030, Fcl
<1>13. Reported(c, host) /\ Armless(c, host)
  BY <1>4, <1>12 DEF Reported, Armless
<1>14. Idle(c, host)
  BY <1>3, <1>4, <1>9, <1>10, <1>11, <1>13 DEF Idle
<1> QED BY <1>4, <1>5, <1>14, IdleInv

\* Every step
LEMMA NextInv == Inv(c, host) /\ [Next]_vars => Inv(c', host')
<1> SUFFICES ASSUME Inv(c, host), [Next]_vars PROVE Inv(c', host')
  OBVIOUS
<1>0. /\ Boundary => Idle(c, host)
      /\ Kernel => Idle(c, host)
  BY IdleFacts DEF Boundary, Kernel
<1>1. CASE Execute
  <2>1. PICK i \in host.code : c' = Begin([c EXCEPT !.handled = {}], i, {})
    BY <1>1 DEF Execute
  <2>2. Idle(c, host) /\ c.frames = <<>> /\ host' = host
    BY <1>0, <1>1 DEF Execute, InHandler
  <2>3. Inv(Begin([c EXCEPT !.handled = {}], i, {}), host)
    BY <2>2, ExecuteInv
  <2> QED BY <2>1, <2>2, <2>3
<1>2. CASE Restart
  <2>1. /\ c' = Begin([c EXCEPT !.restart = NoIns], c.restart, c.handled)
        /\ Idle(c, host) /\ c.restart # NoIns /\ Len(c.frames) < MaxFrames /\ host' = host
    BY <1>0, <1>2 DEF Restart
  <2>2. Inv(Begin([c EXCEPT !.restart = NoIns], c.restart, c.handled), host)
    BY <2>1, RestartInv
  <2> QED BY <2>1, <2>2
<1>3. CASE NextCycle
  <2>1. /\ c' = Retire(BusCycle([c EXCEPT !.todo = Tail(@)], Head(c.todo)))
        /\ c.todo # <<>> /\ host' = host
    BY <1>3 DEF NextCycle
  <2>2. Inv(Retire(BusCycle([c EXCEPT !.todo = Tail(@)], Head(c.todo))), host)
    BY <2>1, CycleInv
  <2> QED BY <2>1, <2>2
<1>4. CASE Interrupt
  <2>1. PICK i \in host.irq :
          c' = [Quiet(c) EXCEPT !.s = TRUE, !.restart = i, !.handled = {},
                  !.frames = Append(@, [FaultFrame(0, 0, FALSE, FALSE) EXCEPT
                     !.kind = "irq", !.s = c.s, !.ins = c.restart, !.handled = c.handled])]
    BY <1>4 DEF Interrupt
  <2>2. Idle(c, host) /\ Len(c.frames) + 1 < MaxFrames /\ host' = host
    BY <1>0, <1>4 DEF Interrupt
  <2>3. Inv([Quiet(c) EXCEPT !.s = TRUE, !.restart = i, !.handled = {},
                  !.frames = Append(@, [FaultFrame(0, 0, FALSE, FALSE) EXCEPT
                     !.kind = "irq", !.s = c.s, !.ins = c.restart, !.handled = c.handled])], host)
    BY <2>2, InterruptInv
  <2> QED BY <2>1, <2>2, <2>3
<1>5. CASE WriteDescriptor
  <2>1. PICK e \in host.edits :
          c' = [Quiet(c) EXCEPT !.tbl = [@ EXCEPT ![e.slot] = e.desc],
                                !.edited = @ \/ c.tbl[e.slot].dt # 0]
    BY <1>5 DEF WriteDescriptor
  <2>2. Idle(c, host) /\ host' = host
    BY <1>0, <1>5 DEF WriteDescriptor
  <2>3. Inv([Quiet(c) EXCEPT !.tbl = [@ EXCEPT ![e.slot] = e.desc],
                             !.edited = @ \/ c.tbl[e.slot].dt # 0], host)
    BY <2>2, EditInv
  <2> QED BY <2>1, <2>2, <2>3
<1>6. CASE Pflush
  <2>1. c' = flush_all(Quiet(c)) /\ Idle(c, host) /\ Fixed(c) /\ host' = host
    BY <1>0, <1>6 DEF Pflush
  <2>2. Inv(flush_all(Quiet(c)), host)
    BY <2>1, PflushInv
  <2> QED BY <2>1, <2>2
<1>7. CASE Movec
  <2>1. PICK w \in host.movec : c' = movec(Quiet(c), w.reg, w.val)
    BY <1>7 DEF Movec
  <2>2. Idle(c, host) /\ Fixed(c) /\ host' = host
    BY <1>0, <1>7 DEF Movec
  <2>3. Inv(movec(Quiet(c), w.reg, w.val), host)
    BY <2>2, MovecInv
  <2> QED BY <2>1, <2>2, <2>3
<1>8. CASE Ptest040
  <2>1. PICK f \in host.probes, write \in BOOLEAN :
          c' = Ptest(translate([Quiet(c) EXCEPT !.ov = c.dfc], f, write, FALSE), f, write)
    BY <1>8 DEF Ptest040
  <2>2. Idle(c, host) /\ c.cpu_type = "M68040" /\ host' = host
    BY <1>0, <1>8 DEF Ptest040
  <2>3. f \in Nat
    BY <2>2, GuestsAssumption DEF Idle, Whole
  <2>4. Inv(Ptest(translate([Quiet(c) EXCEPT !.ov = c.dfc], f, write, FALSE), f, write), host)
    BY <2>2, <2>3, Ptest040Inv
  <2> QED BY <2>1, <2>2, <2>4
<1>9. CASE Ptest030
  <2>1. PICK f \in host.probes, write \in BOOLEAN, level \in {1, 7} :
           LET w == Walk030(c, f, c.dfc, level)
           IN  c' = [Quiet(c) EXCEPT !.mmu_sr = w.levels,
                       !.probe = IF level # 7 THEN NoProbe
                                 ELSE [f |-> f, fc |-> c.dfc, write |-> write,
                                       ok |-> Usable030(w, c.dfc, write), page |-> w.page]]
    BY <1>9 DEF Ptest030
  <2>2. Idle(c, host) /\ c.cpu_type = "M68030" /\ host' = host
    BY <1>0, <1>9 DEF Ptest030
  <2>3. f \in Nat
    BY <2>2, GuestsAssumption DEF Idle, Whole
  <2>4. LET w == Walk030(c, f, c.dfc, level)
        IN  Inv([Quiet(c) EXCEPT !.mmu_sr = w.levels,
                   !.probe = IF level # 7 THEN NoProbe
                             ELSE [f |-> f, fc |-> c.dfc, write |-> write,
                                   ok |-> Usable030(w, c.dfc, write), page |-> w.page]], host)
    BY <2>2, <2>3, Ptest030Inv
  <2> QED BY <2>1, <2>2, <2>4
<1>10. CASE CompleteCycle
  <2>1. /\ c' = [Quiet(c) EXCEPT !.frames[Len(c.frames)].df = FALSE]
        /\ Idle(c, host) /\ c.frames # <<>> /\ host.completes /\ host' = host
    BY <1>0, <1>10 DEF CompleteCycle, InHandler
  <2>2. Inv([Quiet(c) EXCEPT !.frames[Len(c.frames)].df = FALSE], host)
    BY <2>1, CompleteInv
  <2> QED BY <2>1, <2>2
<1>11. CASE Rte
  <2>1. /\ c' = rte(Quiet(c), c.frames[Len(c.frames)])
        /\ Idle(c, host) /\ c.frames # <<>> /\ host' = host
    BY <1>0, <1>11 DEF Rte, InHandler
  <2>2. Inv(rte(Quiet(c), c.frames[Len(c.frames)]), host)
    BY <2>1, RteInv
  <2> QED BY <2>1, <2>2
<1>12. CASE Reset
  <2>1. /\ c' = flush_all([Quiet(c) EXCEPT
                !.s = TRUE, !.pmmu_enabled = FALSE, !.tt = {}, !.itt = {}, !.dtt = {},
                !.stopped = FALSE, !.run_mode = "normal", !.frames = <<>>,
                !.restart = NoIns, !.handled = {}, !.excused = {}])
        /\ c.todo = <<>> /\ host.resets /\ host' = host
    BY <1>12 DEF Reset
  <2>2. Inv(flush_all([Quiet(c) EXCEPT
                !.s = TRUE, !.pmmu_enabled = FALSE, !.tt = {}, !.itt = {}, !.dtt = {},
                !.stopped = FALSE, !.run_mode = "normal", !.frames = <<>>,
                !.restart = NoIns, !.handled = {}, !.excused = {}]), host)
    BY <2>1, ResetInv
  <2> QED BY <2>1, <2>2
<1>13. CASE UNCHANGED vars
  BY <1>13 DEF vars
<1> QED BY <1>1, <1>2, <1>3, <1>4, <1>5, <1>6, <1>7, <1>8, <1>9, <1>10, <1>11, <1>12, <1>13
        DEF Next

MmuInv == Inv(c, host)

LEMMA AlwaysInv == Spec => []MmuInv
<1>1. Init => MmuInv
  BY InitInv DEF MmuInv
<1>2. MmuInv /\ [Next]_vars => MmuInv'
  BY NextInv DEF MmuInv
<1> QED BY <1>1, <1>2, PTL DEF Spec

----------------------------------------------------------------------------
(* What it says *)

LEMMA InvTypeOK == MmuInv => TypeOK
<1> SUFFICES ASSUME MmuInv PROVE TypeOK
  OBVIOUS
<1>1. c.todo = <<>> => c.ov = None
  BY DEF MmuInv, Inv, Working
<1>2. c.run_mode = "fault" <=> c.stopped
  <2>1. CASE Running(c)
    BY <2>1 DEF Running
  <2>2. CASE Halted(c)
    BY <2>2 DEF Halted
  <2> QED BY <2>1, <2>2 DEF MmuInv, Inv, Working
<1>3. c.restart \in host.code \cup host.irq \cup {NoIns} /\ Len(c.frames) <= MaxFrames
  BY DEF MmuInv, Inv, Stacked, Program
<1>4. \A i \in DOMAIN c.atc : c.atc[i].valid => Slot(c.atc[i].f) = i
  <2>1. c.atc = [i \in Slots |-> c.atc[i]] /\ Tagged(c)
    BY DEF MmuInv, Inv, Whole, Sound, Machine
  <2>2. DOMAIN c.atc = Slots
    BY <2>1
  <2> QED BY <2>1, <2>2 DEF Tagged
<1>5. \A n \in 1..Len(c.frames) : c.frames[n] \in Frame
  <2>1. FrameSet(host) = Frame
    BY DEF FrameSet, Frame
  <2>2. c.frames \in Seq(FrameSet(host))
    BY DEF MmuInv, Inv, Stacked
  <2> QED BY <2>1, <2>2
<1> QED BY <1>1, <1>2, <1>3, <1>4, <1>5 DEF TypeOK

LEMMA InvHalt == MmuInv => (Orderly(c) /\ c.ins.op # "pmovetc" => HaltJustified)
<1> SUFFICES ASSUME MmuInv, Orderly(c), c.ins.op # "pmovetc", is_halted(c), ~Owed
             PROVE  \/ ~\E q \in 0..(Hole - 1) : Allows(c, StackPage, 5, TRUE, FALSE, q)
                    \/ ~\E q \in 0..(Hole - 1) : Allows(c, VectorPage, 5, FALSE, FALSE, q)
  BY DEF HaltJustified
<1>1. Halted(c)
  BY DEF MmuInv, Inv, Working, Running, Halted, is_halted, faulted
<1>2. Settled(c)
  BY DEF Owed, Settled
<1>3. Stuck(c)
  BY <1>1, <1>2 DEF MmuInv, Inv, Truthful
<1> QED BY <1>3 DEF Stuck, NoWay, Yes, No

LEMMA InvTables == MmuInv => (Orderly(c) => TablesDecide)
<1> SUFFICES ASSUME MmuInv, Orderly(c) PROVE TranslationCurrent /\ PtestAgrees
  BY DEF TablesDecide
<1>1. Truthful(c) /\ (~Owed => Settled(c))
  BY DEF MmuInv, Inv, Owed, Settled
<1>2. TranslationCurrent
  <2> SUFFICES ASSUME ~Owed, c.ins.op \notin {"pmovecrp", "pmovetc"}, NEW e \in c.log
               PROVE  /\ e.pb % PageBytes = e.lb % PageBytes
                      /\ Allows(c, Page(e.lb), e.fc, e.write, e.instr, Page(e.pb))
    BY DEF TranslationCurrent
  <2>1. LogOK(c, e)
    BY <1>1 DEF Truthful
  <2> QED BY <2>1 DEF LogOK
<1>3. PtestAgrees
  <2>1. c.probe # NoProbe /\ ~Owed => ProbeTrue(c)
    BY <1>1 DEF Truthful
  <2> QED BY <2>1 DEF PtestAgrees, ProbeTrue, No
<1> QED BY <1>2, <1>3

LEMMA InvFrames == MmuInv => (SteadyRoots(host) => FrameFaithful)
<1> SUFFICES ASSUME MmuInv, SteadyRoots(host) PROVE FrameFaithful
  OBVIOUS
<1>1. c.sfc = host.fc /\ c.dfc = host.fc
  BY DEF MmuInv, Inv, Whole
<1>2. \A n \in 1..Len(c.frames) : FaithfulFrame(c.frames[n], host)
  BY DEF MmuInv, Inv, Reported
<1> QED BY <1>1, <1>2 DEF FrameFaithful, FaithfulFrame

LEMMA InvAccess == MmuInv => (~host.completes => AccessComplete)
<1> SUFFICES ASSUME MmuInv, ~host.completes, c.done.op \in Accesses,
                    NEW b \in Bytes(c.done.addr, c.done.size)
             PROVE  b \in c.excused \cup {e.lb : e \in {d \in c.log : d.write = (c.done.op \in Writes)}}
  BY DEF AccessComplete, Accesses, Writes
<1>1. Moved(c, c.done, b)
  BY DEF MmuInv, Inv, Transferred
<1> QED BY <1>1 DEF Moved

----------------------------------------------------------------------------
(* The theorems, for every set of guests, every ATC size and every number of   *)
(* outstanding frames                                                          *)

\* The fields keep their types; the override ends with its instruction, the fault
\* latch with the exception unless the CPU halted, and every ATC entry sits in
\* the slot of its page (Retire, handle_mmu_fault, insert).
THEOREM MmuTypes == Spec => []TypeOK
BY AlwaysInv, InvTypeOK, PTL

\* Of an orderly guest, the CPU halts only when a supervisor data access cannot
\* reach the stack or the vector table (exception_bus_error, DoubleFault).
THEOREM HaltsAreJustified ==
    Spec => [](Orderly(c) /\ c.ins.op # "pmovetc" => HaltJustified)
BY AlwaysInv, InvHalt, PTL

\* Of an orderly guest, every byte transferred and every probe answered went as
\* the tables and windows of its own address space say (translate, ptest_030,
\* PTEST, PLPA).
THEOREM TablesAlwaysDecide == Spec => [](Orderly(c) => TablesDecide)
BY AlwaysInv, InvTables, PTL

\* With steady roots, the frame of a translation fault names a byte of the
\* operand, its address space and the datum of the write (exception_bus_error).
THEOREM FramesAreFaithful == Spec => [](SteadyRoots(host) => FrameFaithful)
BY AlwaysInv, InvFrames, PTL

\* Unless handlers complete cycles themselves, an instruction that retires has
\* transferred every byte of its operand, page-straddling halves included
\* (read_*, write_*, read_imm_*, exec_moves).
THEOREM AccessesAreComplete == Spec => [](~host.completes => AccessComplete)
BY AlwaysInv, InvAccess, PTL
=============================================================================
