-------------------------- MODULE CpuFrames_proofs --------------------------
(***************************************************************************)
(* The stack frames of CpuCore, one method at a time: what exception entry,*)
(* fault delivery, interrupt entry and the instruction fetch leave on the  *)
(* stacks.  CpuStacks_proofs draws the theorems from them.                 *)
(*                                                                         *)
(* Sound(x, pc) says that code can go on at pc: each stack is a chain of   *)
(* frames down from its base, and each frame holds a place, a PC and an SR *)
(* with the stacks as they will be once it is popped (Placed), at which    *)
(* code can go on in turn.  Stands adds the interrupts still owed, the     *)
(* levels at which they nest and the bytes in use; Whole is a machine      *)
(* between two instructions, Due one whose fault has been delivered and    *)
(* waits for the end of the instruction.                                   *)
(***************************************************************************)
EXTENDS CpuCore_proofs, FiniteSetTheorems

----------------------------------------------------------------------------
(* A stack is a chain of frames: they follow one another without gaps from  *)
(* the stack pointer to the base.                                           *)

Cell == [at : Int, n : Nat, f : FrameSet]

Chained(S, lo, base) ==
    /\ S \subseteq Cell /\ lo \in Int /\ lo <= base
    /\ lo = base \/ \E c \in S : c.at = lo
    /\ \A c \in S : /\ c.n > 0 /\ lo <= c.at /\ c.at + c.n <= base
                    /\ c.at + c.n = base \/ \E d \in S : d.at = c.at + c.n
    /\ \A c, d \in S : c = d \/ c.at + c.n <= d.at \/ d.at + d.n <= c.at

\* A frame written below the stack pointer extends the chain
LEMMA ChainPush ==
    ASSUME NEW S, NEW lo, NEW base \in Int, Chained(S, lo, base),
           NEW c \in Cell, c.n > 0, c.at = lo - c.n
    PROVE  Chained(S \cup {c}, c.at, base)
<1> DEFINE T == S \cup {c}
<1>1. T \subseteq Cell /\ c.at \in Int /\ c.at <= base /\ c \in T
  BY DEF Chained, Cell
<1>2. ASSUME NEW d \in T
      PROVE  /\ d.n > 0 /\ c.at <= d.at /\ d.at + d.n <= base
             /\ d.at + d.n = base \/ \E e \in T : e.at = d.at + d.n
  <2>1. CASE d = c
    <3>1. c.at + c.n = lo
      BY DEF Chained, Cell
    <3> QED BY <2>1, <3>1 DEF Chained, Cell
  <2>2. CASE d \in S
    <3>1. d.n > 0 /\ lo <= d.at /\ d.at + d.n <= base /\ lo \in Int /\ d.at \in Int
      BY <2>2 DEF Chained, Cell
    <3>2. d.at + d.n = base \/ \E e \in S : e.at = d.at + d.n
      BY <2>2 DEF Chained
    <3>3. c.at <= lo
      BY <3>1 DEF Cell
    <3> QED BY <1>1, <3>1, <3>2, <3>3
  <2> QED BY <2>1, <2>2
<1>3. ASSUME NEW d \in T, NEW e \in T
      PROVE  d = e \/ d.at + d.n <= e.at \/ e.at + e.n <= d.at
  <2>1. ASSUME NEW g \in S PROVE c.at + c.n <= g.at
    BY DEF Chained, Cell
  <2>2. d \in S /\ e \in S => d = e \/ d.at + d.n <= e.at \/ e.at + e.n <= d.at
    BY DEF Chained
  <2> QED BY <2>1, <2>2
<1> QED BY <1>1, <1>2, <1>3 DEF Chained

\* The frame at the stack pointer is the only one there, and the chain goes on behind it
LEMMA ChainPop ==
    ASSUME NEW S, NEW lo, NEW base \in Int, Chained(S, lo, base), NEW c \in S, c.at = lo
    PROVE  Chained(S \ {c}, c.at + c.n, base)
<1> DEFINE T == S \ {c}
<1>1. T \subseteq Cell /\ c.at + c.n \in Int /\ c.at + c.n <= base /\ c.n > 0 /\ c \in Cell
  BY DEF Chained, Cell
<1>2. ASSUME NEW d \in T PROVE c.at + c.n <= d.at /\ d.n > 0 /\ d \in Cell
  BY <1>1 DEF Chained, Cell
<1>3. c.at + c.n = base \/ \E d \in T : d.at = c.at + c.n
  <2>1. ASSUME NEW d \in S, d.at = c.at + c.n PROVE d # c
    BY <1>1, <2>1 DEF Cell
  <2> QED BY <2>1 DEF Chained
<1>4. ASSUME NEW d \in T
      PROVE  d.at + d.n <= base /\ (d.at + d.n = base \/ \E e \in T : e.at = d.at + d.n)
  <2>1. ASSUME NEW e \in S, e.at = d.at + d.n PROVE e # c
    BY <1>1, <1>2, <2>1 DEF Cell
  <2> QED BY <2>1 DEF Chained
<1>5. ASSUME NEW d \in T, NEW e \in T
      PROVE  d = e \/ d.at + d.n <= e.at \/ e.at + e.n <= d.at
  BY DEF Chained
<1> QED BY <1>1, <1>2, <1>3, <1>4, <1>5 DEF Chained

\* Where the pointer is at the base nothing is stacked
LEMMA ChainEmpty ==
    ASSUME NEW S, NEW base \in Int, Chained(S, base, base)
    PROVE  S = {}
<1> SUFFICES ASSUME NEW c \in S PROVE FALSE
  OBVIOUS
<1> QED BY DEF Chained, Cell

\* One frame fills a stack as deep as itself
LEMMA ChainOne ==
    ASSUME NEW S, NEW base \in Int, NEW c \in S, Chained(S, c.at, base), c.at + c.n = base
    PROVE  S = {c}
<1> SUFFICES ASSUME NEW d \in S PROVE d = c
  OBVIOUS
<1> QED BY DEF Chained, Cell

\* An untouched stack
LEMMA ChainBase ==
    ASSUME NEW base \in Int PROVE Chained({}, base, base)
  BY DEF Chained

----------------------------------------------------------------------------
(* The guest, its stacks and where it stands *)

\* The stack pointer of a bank, whichever bank A7 is
SpOf(x, b) == IF sp_index(x) = b THEN x.dar.a7 ELSE x.sp[b]

\* The stacked words that are not below their stack pointer
BankRegion(b) == IF b = 0 THEN "user" ELSE IF b = 4 THEN "isp" ELSE "msp"
Live(x, b) == { c \in x.stk : StackRegion(c.at) = BankRegion(b) /\ c.at >= SpOf(x, b) }

\* The supervisor stack that a status register selects
OnMaster(x, sr) == sr.s /\ sr.m /\ x.cpu_type # "M68060"
BankOf(x, sr) == IF ~sr.s THEN 0 ELSE IF OnMaster(x, sr) THEN 6 ELSE 4

\* The guest's loop: the words up to its first branch, and what they may be
SafeOps == {"rmw", "pinc", "nop", "bra", "jsr", "trap", "aline", "div0",
            "stop", "stopu", "halt", "ext"}
Operanded == {"jsr", "stop", "stopu"}
Body(p) == { w \in UserCode : \A v \in UserCode : v < w => p[v] # "bra" }
Proper(p) ==
    /\ \E w \in UserCode : p[w] = "bra"
    /\ p[Origin] # "ext"
    /\ \A w \in Body(p) : /\ p[w] \in SafeOps
                          /\ p[w] \in Operanded => p[w + 2] = "ext"
                          /\ p[w] = "ext" => p[w - 2] \in Operanded

\* The counters of the two kinds of instruction before pc, and the loops that leave
\* them in step
BalanceOf(p, pc) ==
    Cardinality({ w \in UserCode : w < pc /\ p[w] = "rmw" })
    - Cardinality({ w \in UserCode : w < pc /\ p[w] \in {"pinc", "jsr"} })
Closed(p) == \A w \in Body(p) : p[w] = "bra" => BalanceOf(p, w) % RegMod = 0
Counted(x, pc, due) ==
    Closed(x.prog) => (x.data - x.dar.r - BalanceOf(x.prog, pc) - due) % RegMod = 0

GuestPc(x, pc) == pc \in Body(x.prog) /\ x.prog[pc] # "ext"
HandlerPc(x, pc) == pc \in Int /\ pc % 4 = 0 /\ pc > Handler(0) /\ ~Group0Handler(x, pc)

\* An exception frame that RTE unwinds to where it was taken
Std(c) == c.f.fmt \notin {"ret", "1"}

\* With the interrupt stack at i and the master stack at k, code at pc under the
\* status register sr can go on: the guest's loop with every stack at its base,
AtGuest(x, pc, i, k) ==
    /\ GuestPc(x, pc) /\ Counted(x, pc, 0)
    /\ SpOf(x, 0) = UserBase /\ i = IspBase /\ k = MspBase

\* the subroutine with the return address alone on its stack,
InCall(x, pc, sr, i, k) ==
    /\ pc \in {Subroutine, Subroutine + 2}
    /\ SpOf(x, 0) = (IF BankOf(x, sr) = 0 THEN UserBase - 4 ELSE UserBase)
    /\ i = (IF BankOf(x, sr) = 4 THEN IspBase - 4 ELSE IspBase)
    /\ k = (IF BankOf(x, sr) = 6 THEN MspBase - 4 ELSE MspBase)
    /\ \E g \in Live(x, BankOf(x, sr)) :
          /\ g.f.fmt = "ret" /\ g.at = Banks[BankOf(x, sr)] - 4
          /\ Counted(x, g.f.pc, IF pc = Subroutine THEN 1 ELSE 0)

\* and a handler with its frame on top
InHandler(x, pc, sr, i, k) ==
    /\ HandlerPc(x, pc) /\ sr.s
    /\ IF OnMaster(x, sr) THEN i = IspBase /\ \E d \in Live(x, 6) : d.at = k /\ Std(d)
       ELSE \E d \in Live(x, 4) : d.at = i /\ d.f.fmt # "ret"

Placed(x, pc, sr, i, k) == AtGuest(x, pc, i, k) \/ InCall(x, pc, sr, i, k) \/ InHandler(x, pc, sr, i, k)

\* What is stacked: the return address of the guest, the throwaway frame at the base
\* of the interrupt stack, and frames behind which their code can go on
RetOk(x, b, c) == c.f.fmt = "ret" /\ c.at = Banks[b] - 4 /\ GuestPc(x, c.f.pc)
ThrowOk(x, c) ==
    /\ c.f.fmt = "1" /\ c.at + c.n = IspBase
    /\ OnMaster(x, c.f.sr) /\ ~is_pre_68020(x)
    /\ \E d \in Live(x, 6) : d.at = SpOf(x, 6) /\ Std(d)
StdOk(x, b, c) ==
    /\ Std(c) /\ c.f.fmt \in RteFormats(x)
    /\ b # 0
    /\ Placed(x, c.f.pc, c.f.sr, IF b = 4 THEN c.at + c.n ELSE IspBase,
                                 IF b = 6 THEN c.at + c.n ELSE SpOf(x, 6))
FrameOk(x, b, c) ==
    /\ SrMasked(x, c.f.sr) = c.f.sr
    /\ c.n = FrameBytes(x, c.f.fmt)
    /\ RetOk(x, b, c) \/ (b = 4 /\ ThrowOk(x, c)) \/ StdOk(x, b, c)

\* Interrupts nest by rising level: every frame above one for an interrupt was stacked
\* under a mask as high
IntCell(c) == c.f.vec \in 25..30 /\ c.f.fmt # "1"
SuperLive(x) == Live(x, 4) \cup Live(x, 6)
Rising(x) ==
    \A c, d \in SuperLive(x) : IntCell(d) /\ Std(c) /\ c.at < d.at => c.f.sr.i >= d.f.vec - 24
Masking(x) == \A d \in SuperLive(x) : IntCell(d) => x.sr.i >= d.f.vec - 24

\* The stacks of x are such that code can go on at pc
Shaped(x, pc) ==
    /\ ~x.astray /\ SrMasked(x, x.sr) = x.sr
    /\ \A b \in {0, 4, 6} : Chained(Live(x, b), SpOf(x, b), Banks[b])
    /\ \A b \in {0, 4, 6} : \A c \in Live(x, b) : FrameOk(x, b, c)
    /\ Placed(x, pc, x.sr, SpOf(x, 4), SpOf(x, 6))
    /\ Rising(x)
Sound(x, pc) == Shaped(x, pc) /\ Masking(x)

\* The interrupts acknowledged whose handler has not started are stacked, or start at pc
OwedAt(x, pc) ==
    \A l \in x.owed : \/ pc = Handler(24 + l)
                      \/ \E c \in SuperLive(x) : Std(c) /\ c.f.pc = Handler(24 + l)

\* n bytes of each supervisor stack are in use at most
Deep(x, n) == SpOf(x, 4) >= IspBase - n /\ SpOf(x, 6) >= MspBase - n

----------------------------------------------------------------------------
(* Frames pushed and popped *)

LEMMA BankFacts ==
    /\ Banks[0] = 1000 /\ Banks[4] = 2000 /\ Banks[6] = 3000
    /\ UserBase = 1000 /\ IspBase = 2000 /\ MspBase = 3000
  BY DEF Banks, UserBase, IspBase, MspBase

\* The machine y has the guest and the counters of x
Guested(x, y) ==
    /\ y.cpu_type = x.cpu_type /\ y.prog = x.prog
    /\ y.data = x.data /\ y.dar.r = x.dar.r /\ y.astray = x.astray

\* y is x with the frame c pushed on bank b
Pushed(x, y, b, c) ==
    /\ Guested(x, y)
    /\ c \in Cell /\ c.n > 0 /\ c.at = SpOf(x, b) - c.n
    /\ \A e \in {0, 4, 6} : SpOf(y, e) = IF e = b THEN c.at ELSE SpOf(x, e)
    /\ \A e \in {0, 4, 6} : Live(y, e) = IF e = b THEN Live(x, e) \cup {c} ELSE Live(x, e)

\* y is x with the top frame c of bank b popped
Popped(x, y, b, c) ==
    /\ Guested(x, y)
    /\ c \in Live(x, b) /\ c.at = SpOf(x, b)
    /\ \A e \in {0, 4, 6} : SpOf(y, e) = IF e = b THEN c.at + c.n ELSE SpOf(x, e)
    /\ \A e \in {0, 4, 6} : Live(y, e) = IF e = b THEN Live(x, e) \ {c} ELSE Live(x, e)

LEMMA GuestedSame ==
    ASSUME NEW x, NEW y, Guested(x, y)
    PROVE  /\ \A sr : OnMaster(y, sr) = OnMaster(x, sr) /\ BankOf(y, sr) = BankOf(x, sr)
           /\ \A sr : SrMasked(y, sr) = SrMasked(x, sr)
           /\ \A pc : GuestPc(y, pc) = GuestPc(x, pc)
           /\ \A pc : HandlerPc(y, pc) = HandlerPc(x, pc)
           /\ \A pc, due : Counted(y, pc, due) = Counted(x, pc, due)
           /\ \A fmt : FrameBytes(y, fmt) = FrameBytes(x, fmt)
           /\ RteFormats(y) = RteFormats(x) /\ is_pre_68020(y) = is_pre_68020(x)
<1>1. \A sr : OnMaster(y, sr) = OnMaster(x, sr) /\ BankOf(y, sr) = BankOf(x, sr)
  BY DEF Guested, OnMaster, BankOf
<1>2. is_pre_68020(y) = is_pre_68020(x)
  BY DEF Guested, is_pre_68020
<1>3. \A sr : SrMasked(y, sr) = SrMasked(x, sr)
  BY <1>2 DEF Guested, SrMasked
<1>4. \A pc : GuestPc(y, pc) = GuestPc(x, pc)
  BY DEF Guested, GuestPc
<1>5. \A pc : HandlerPc(y, pc) = HandlerPc(x, pc)
  BY DEF Guested, HandlerPc, Group0Handler
<1>6. \A pc, due : Counted(y, pc, due) = Counted(x, pc, due)
  BY DEF Guested, Counted
<1>7. \A fmt : FrameBytes(y, fmt) = FrameBytes(x, fmt)
  BY DEF Guested, FrameBytes
<1>8. RteFormats(y) = RteFormats(x)
  BY DEF Guested, RteFormats
<1> QED BY <1>1, <1>2, <1>3, <1>4, <1>5, <1>6, <1>7, <1>8

\* Code that can go on still can when more is stacked
LEMMA PlacedMore ==
    ASSUME NEW x, NEW y, Guested(x, y), SpOf(y, 0) = SpOf(x, 0),
           \A e \in {0, 4, 6} : Live(x, e) \subseteq Live(y, e),
           NEW pc, NEW sr, NEW i, NEW k, Placed(x, pc, sr, i, k)
    PROVE  Placed(y, pc, sr, i, k)
<1>g. /\ OnMaster(y, sr) = OnMaster(x, sr) /\ BankOf(y, sr) = BankOf(x, sr)
      /\ GuestPc(y, pc) = GuestPc(x, pc) /\ HandlerPc(y, pc) = HandlerPc(x, pc)
      /\ \A p, due : Counted(y, p, due) = Counted(x, p, due)
      /\ BankOf(x, sr) \in {0, 4, 6}
  BY GuestedSame DEF BankOf
<1>1. CASE AtGuest(x, pc, i, k)
  BY <1>g, <1>1 DEF AtGuest, Placed
<1>2. CASE InCall(x, pc, sr, i, k)
  <2>1. Live(x, BankOf(x, sr)) \subseteq Live(y, BankOf(x, sr))
    BY <1>g
  <2>2. InCall(y, pc, sr, i, k)
    BY <1>g, <1>2, <2>1 DEF InCall
  <2> QED BY <2>2 DEF Placed
<1>3. CASE InHandler(x, pc, sr, i, k)
  <2>1. Live(x, 4) \subseteq Live(y, 4) /\ Live(x, 6) \subseteq Live(y, 6)
    OBVIOUS
  <2>2. InHandler(y, pc, sr, i, k)
    BY <1>g, <1>3, <2>1 DEF InHandler
  <2> QED BY <2>2 DEF Placed
<1> QED BY <1>1, <1>2, <1>3 DEF Placed

\* Code that can go on with less on the stacks than the frame c still can without c
LEMMA PlacedLess ==
    ASSUME NEW x, NEW y, Guested(x, y), SpOf(y, 0) = SpOf(x, 0), NEW c, c.f.fmt # "ret",
           \A e \in {0, 4, 6} : Live(x, e) \ {c} \subseteq Live(y, e),
           NEW pc, NEW sr, NEW i, NEW k, Placed(x, pc, sr, i, k),
           OnMaster(x, sr) => c.at # k, ~OnMaster(x, sr) => c.at # i
    PROVE  Placed(y, pc, sr, i, k)
<1>g. /\ OnMaster(y, sr) = OnMaster(x, sr) /\ BankOf(y, sr) = BankOf(x, sr)
      /\ GuestPc(y, pc) = GuestPc(x, pc) /\ HandlerPc(y, pc) = HandlerPc(x, pc)
      /\ \A p, due : Counted(y, p, due) = Counted(x, p, due)
      /\ BankOf(x, sr) \in {0, 4, 6}
  BY GuestedSame DEF BankOf
<1>1. CASE AtGuest(x, pc, i, k)
  BY <1>g, <1>1 DEF AtGuest, Placed
<1>2. CASE InCall(x, pc, sr, i, k)
  <2>1. Live(x, BankOf(x, sr)) \ {c} \subseteq Live(y, BankOf(x, sr))
    BY <1>g
  <2>2. PICK g \in Live(x, BankOf(x, sr)) :
          /\ g.f.fmt = "ret" /\ g.at = Banks[BankOf(x, sr)] - 4
          /\ Counted(x, g.f.pc, IF pc = Subroutine THEN 1 ELSE 0)
    BY <1>2 DEF InCall
  <2>3. g \in Live(y, BankOf(y, sr))
    BY <1>g, <2>1, <2>2
  <2>4. InCall(y, pc, sr, i, k)
    BY <1>g, <1>2, <2>2, <2>3 DEF InCall
  <2> QED BY <2>4 DEF Placed
<1>3. CASE InHandler(x, pc, sr, i, k)
  <2>1. Live(x, 4) \ {c} \subseteq Live(y, 4) /\ Live(x, 6) \ {c} \subseteq Live(y, 6)
    OBVIOUS
  <2>2. InHandler(y, pc, sr, i, k)
    BY <1>g, <1>3, <2>1 DEF InHandler
  <2> QED BY <2>2 DEF Placed
<1> QED BY <1>1, <1>2, <1>3 DEF Placed

\* What the code that goes on says about the stacks it is not on
LEMMA OffStacks ==
    ASSUME NEW x, NEW pc, Shaped(x, pc)
    PROVE  /\ BankOf(x, x.sr) # 4 => SpOf(x, 4) = IspBase /\ Live(x, 4) = {}
           /\ BankOf(x, x.sr) = 0 => SpOf(x, 6) = MspBase /\ Live(x, 6) = {}
<1>1. Placed(x, pc, x.sr, SpOf(x, 4), SpOf(x, 6))
  BY DEF Shaped
<1>2. BankOf(x, x.sr) # 4 => SpOf(x, 4) = IspBase
  BY <1>1 DEF Placed, AtGuest, InCall, InHandler, BankOf
<1>3. BankOf(x, x.sr) = 0 => SpOf(x, 6) = MspBase
  BY <1>1 DEF Placed, AtGuest, InCall, InHandler, BankOf, OnMaster
<1>4. Chained(Live(x, 4), SpOf(x, 4), IspBase) /\ Chained(Live(x, 6), SpOf(x, 6), MspBase)
  BY BankFacts DEF Shaped
<1>5. IspBase \in Int /\ MspBase \in Int
  BY BankFacts
<1> QED BY <1>2, <1>3, <1>4, <1>5, ChainEmpty

\* The guest itself runs with nothing stacked
LEMMA GuestStacks ==
    ASSUME NEW x, NEW pc, Shaped(x, pc), pc \in UserCode
    PROVE  /\ AtGuest(x, pc, SpOf(x, 4), SpOf(x, 6))
           /\ \A b \in {0, 4, 6} : Live(x, b) = {} /\ SpOf(x, b) = Banks[b]
<1>1. Placed(x, pc, x.sr, SpOf(x, 4), SpOf(x, 6))
  BY DEF Shaped
<1>2. AtGuest(x, pc, SpOf(x, 4), SpOf(x, 6))
  BY <1>1 DEF Placed, InCall, InHandler, UserCode, Subroutine, HandlerPc, Handler
<1>3. \A b \in {0, 4, 6} : SpOf(x, b) = Banks[b]
  BY <1>2, BankFacts DEF AtGuest
<1>4. ASSUME NEW b \in {0, 4, 6} PROVE Live(x, b) = {}
  <2>1. Chained(Live(x, b), Banks[b], Banks[b]) /\ Banks[b] \in Int
    BY <1>3, BankFacts DEF Shaped
  <2> QED BY <2>1, ChainEmpty
<1> QED BY <1>2, <1>3, <1>4

\* Frames of the interrupt stack lie below those of the master stack
LEMMA LiveOrder ==
    ASSUME NEW x, NEW pc, Shaped(x, pc), NEW c \in Live(x, 4), NEW d \in Live(x, 6)
    PROVE  c.at < d.at
<1>1. c.at \in Int /\ d.at \in Int
  BY DEF Shaped, Chained, Cell
<1>2. StackRegion(c.at) = "isp" /\ StackRegion(d.at) = "msp"
  BY DEF Live, BankRegion
<1> QED BY <1>1, <1>2, BankFacts DEF StackRegion

\* The stacks have a range of addresses each
LEMMA CellPlaces ==
    ASSUME NEW x, NEW pc, Shaped(x, pc)
    PROVE  /\ \A b \in {0, 4, 6} : SpOf(x, b) \in Int /\ Live(x, b) \subseteq Cell
           /\ \A c \in Live(x, 4) : c.at < 2000 /\ c.n > 0 /\ SpOf(x, 4) <= c.at
           /\ \A c \in Live(x, 6) : c.at > 2000 /\ c.n > 0 /\ SpOf(x, 6) <= c.at
           /\ SpOf(x, 4) <= 2000 /\ SpOf(x, 6) > 2000
<1>1. \A b \in {0, 4, 6} : SpOf(x, b) \in Int /\ Live(x, b) \subseteq Cell
  BY DEF Shaped, Chained
<1>4. /\ SpOf(x, 4) <= 2000
      /\ \A c \in Live(x, 4) : c.n > 0 /\ SpOf(x, 4) <= c.at /\ c.at + c.n <= 2000
  BY BankFacts DEF Shaped, Chained
<1>6. /\ SpOf(x, 6) = 3000 \/ \E c \in Live(x, 6) : c.at = SpOf(x, 6)
      /\ \A c \in Live(x, 6) : c.n > 0 /\ SpOf(x, 6) <= c.at
  BY BankFacts DEF Shaped, Chained
<1>7. \A c \in Live(x, 4) : c.at < 2000
  BY <1>1, <1>4 DEF Cell
<1>8. ASSUME NEW c \in Live(x, 6) PROVE c.at > 2000
  <2>1. StackRegion(c.at) = "msp" /\ c.at \in Int
    BY <1>1 DEF Live, BankRegion, Cell
  <2> QED BY <2>1, BankFacts DEF StackRegion
<1>9. SpOf(x, 6) > 2000
  BY <1>6, <1>8
<1> QED BY <1>1, <1>4, <1>6, <1>7, <1>8, <1>9

\* An exception frame that says where to go on: its handler can start
LEMMA PushSound ==
    ASSUME NEW x, NEW y, NEW c, NEW pc, Sound(x, c.f.pc), BankOf(x, x.sr) = 0 => ~x.sr.m,
           Pushed(x, y, BankOf(y, y.sr), c),
           y.sr \in SR, x.sr \in SR, y.sr.s, y.sr.m = x.sr.m, y.sr.i >= x.sr.i, SrMasked(y, y.sr) = y.sr,
           c.f.sr = x.sr, Std(c), c.f.fmt \in RteFormats(x), c.n = FrameBytes(x, c.f.fmt),
           IntCell(c) => y.sr.i >= c.f.vec - 24,
           HandlerPc(x, pc)
    PROVE  Sound(y, pc)
<1> DEFINE b == BankOf(y, y.sr)
<1>g. Guested(x, y) /\ y.astray = x.astray
  BY DEF Pushed, Guested
<1>h. /\ \A sr : OnMaster(y, sr) = OnMaster(x, sr) /\ BankOf(y, sr) = BankOf(x, sr)
      /\ \A sr : SrMasked(y, sr) = SrMasked(x, sr)
      /\ \A p : GuestPc(y, p) = GuestPc(x, p)
      /\ \A p : HandlerPc(y, p) = HandlerPc(x, p)
      /\ \A fmt : FrameBytes(y, fmt) = FrameBytes(x, fmt)
      /\ RteFormats(y) = RteFormats(x) /\ is_pre_68020(y) = is_pre_68020(x)
  BY <1>g, GuestedSame
<1>b. b \in {4, 6} /\ (b = 6 <=> OnMaster(x, y.sr)) /\ (b = 6 <=> BankOf(x, x.sr) = 6)
  BY <1>h DEF BankOf, OnMaster
<1>1. /\ SpOf(y, 0) = SpOf(x, 0) /\ SpOf(y, b) = c.at /\ c.at = SpOf(x, b) - c.n
      /\ b = 4 => SpOf(y, 6) = SpOf(x, 6)
      /\ b = 6 => SpOf(y, 4) = SpOf(x, 4)
      /\ c \in Cell /\ c.n > 0
      /\ Live(y, 0) = Live(x, 0) /\ Live(y, b) = Live(x, b) \cup {c}
      /\ b = 4 => Live(y, 6) = Live(x, 6)
      /\ b = 6 => Live(y, 4) = Live(x, 4)
  BY <1>b DEF Pushed
<1>2. \A e \in {0, 4, 6} : Live(x, e) \subseteq Live(y, e)
  BY <1>1, <1>b
<1>3. b = 6 => SpOf(x, 4) = IspBase /\ Live(x, 4) = {}
  BY <1>b, OffStacks DEF Sound
<1>4. ASSUME NEW e \in {0, 4, 6} PROVE Chained(Live(y, e), SpOf(y, e), Banks[e])
  <2>1. Chained(Live(x, e), SpOf(x, e), Banks[e]) /\ Banks[e] \in Int
    BY BankFacts DEF Sound, Shaped
  <2>2. CASE e = b
    <3>1. c.at = SpOf(x, e) - c.n /\ c.n > 0 /\ c \in Cell
      BY <2>2, <1>1
    <3>2. Chained(Live(x, e) \cup {c}, c.at, Banks[e])
      BY <2>1, <3>1, ChainPush
    <3> QED BY <2>2, <3>2, <1>1
  <2>3. CASE e # b
    BY <2>1, <2>3, <1>1, <1>b
  <2> QED BY <2>2, <2>3
<1>5. SpOf(x, b) \in Int /\ c.at + c.n = SpOf(x, b)
  <2>1. SpOf(x, b) \in Int
    BY <1>b DEF Sound, Shaped, Chained
  <2> QED BY <2>1, <1>1 DEF Cell
<1>6. ASSUME NEW e \in {0, 4, 6}, NEW d \in Live(x, e) PROVE FrameOk(y, e, d)
  <2>1. FrameOk(x, e, d)
    BY DEF Sound, Shaped
  <2>2. SrMasked(y, d.f.sr) = d.f.sr /\ d.n = FrameBytes(y, d.f.fmt)
    BY <2>1, <1>h DEF FrameOk
  <2>3. RetOk(x, e, d) => RetOk(y, e, d)
    BY <1>h DEF RetOk
  <2>4. e = 4 => b = 4 /\ SpOf(y, 6) = SpOf(x, 6) /\ Live(y, 6) = Live(x, 6)
    BY <1>1, <1>3, <1>b
  <2>5. e = 4 /\ ThrowOk(x, d) => ThrowOk(y, d)
    BY <2>4, <1>h DEF ThrowOk
  <2>6. ASSUME StdOk(x, e, d) PROVE StdOk(y, e, d)
    <3>1. Placed(x, d.f.pc, d.f.sr, IF e = 4 THEN d.at + d.n ELSE IspBase,
                                    IF e = 6 THEN d.at + d.n ELSE SpOf(x, 6))
      BY <2>6 DEF StdOk
    <3>2. (IF e = 6 THEN d.at + d.n ELSE SpOf(x, 6)) = (IF e = 6 THEN d.at + d.n ELSE SpOf(y, 6))
      BY <2>4, <2>6 DEF StdOk
    <3>3. Placed(y, d.f.pc, d.f.sr, IF e = 4 THEN d.at + d.n ELSE IspBase,
                                    IF e = 6 THEN d.at + d.n ELSE SpOf(y, 6))
      BY <3>1, <3>2, <1>g, <1>1, <1>2, PlacedMore
    <3> QED BY <3>3, <2>6, <1>h DEF StdOk
  <2> QED BY <2>1, <2>2, <2>3, <2>5, <2>6 DEF FrameOk
<1>7. FrameOk(y, b, c)
  <2>1. Placed(x, c.f.pc, x.sr, SpOf(x, 4), SpOf(x, 6))
    BY DEF Sound, Shaped
  <2>2. Placed(y, c.f.pc, c.f.sr, SpOf(x, 4), SpOf(x, 6))
    BY <2>1, <1>g, <1>1, <1>2, PlacedMore
  <2>3. /\ (IF b = 4 THEN c.at + c.n ELSE IspBase) = SpOf(x, 4)
        /\ (IF b = 6 THEN c.at + c.n ELSE SpOf(y, 6)) = SpOf(x, 6)
    BY <1>1, <1>3, <1>5, <1>b
  <2>4. StdOk(y, b, c)
    BY <2>2, <2>3, <1>h, <1>b DEF StdOk
  <2>5. SrMasked(y, c.f.sr) = c.f.sr
    BY <1>h DEF Sound, Shaped
  <2> QED BY <2>4, <2>5, <1>h DEF FrameOk
<1>8. Placed(y, pc, y.sr, SpOf(y, 4), SpOf(y, 6))
  <2>1. c \in Live(y, b) /\ c.f.fmt # "ret"
    BY <1>1 DEF Std
  <2>2. InHandler(y, pc, y.sr, SpOf(y, 4), SpOf(y, 6))
    BY <2>1, <1>1, <1>3, <1>b, <1>h DEF InHandler
  <2> QED BY <2>2 DEF Placed
<1>9. Rising(y) /\ Masking(y)
  <2>1. SuperLive(y) = SuperLive(x) \cup {c}
    BY <1>1, <1>b DEF SuperLive
  <2>2. x.sr.i \in Int /\ y.sr.i \in Int /\ c.f.vec \in Int
    BY <1>1 DEF SR, Levels, Cell, FrameSet
  <2>3. ASSUME NEW d \in SuperLive(x), IntCell(d)
        PROVE  /\ x.sr.i >= d.f.vec - 24
               /\ y.sr.i >= d.f.vec - 24
               /\ \A e \in SuperLive(y) : Std(e) /\ e.at < d.at => e.f.sr.i >= d.f.vec - 24
    <3>1. /\ x.sr.i >= d.f.vec - 24
          /\ \A e \in SuperLive(x) : Std(e) /\ e.at < d.at => e.f.sr.i >= d.f.vec - 24
      BY <2>3 DEF Sound, Shaped, Rising, Masking
    <3>2. d.f.vec \in Int
      BY <2>3 DEF IntCell
    <3> QED BY <3>1, <3>2, <2>1, <2>2
  <2>4. ASSUME NEW e \in SuperLive(x) PROVE ~(e.at < c.at)
    <3>1. CASE e \in Live(x, b)
      <4>1. Chained(Live(x, b), SpOf(x, b), Banks[b])
        BY <1>b DEF Sound, Shaped
      <4>2. SpOf(x, b) <= e.at /\ e.at \in Int
        BY <3>1, <4>1 DEF Chained, Cell
      <4> QED BY <4>2, <1>1, <1>5 DEF Cell
    <3>2. CASE e \notin Live(x, b)
      <4>1. b = 4 /\ e \in Live(x, 6)
        BY <3>2, <1>b, <1>3 DEF SuperLive
      <4>2. e.at \in Int /\ StackRegion(e.at) = "msp"
        BY <4>1 DEF Sound, Shaped, Chained, Cell, Live, BankRegion
      <4>3. e.at > 2000
        BY <4>2, BankFacts DEF StackRegion
      <4>4. SpOf(x, 4) <= 2000
        BY BankFacts DEF Sound, Shaped, Chained
      <4> QED BY <4>1, <4>2, <4>3, <4>4, <1>1, <1>5 DEF Cell
    <3> QED BY <3>1, <3>2
  <2>5. ASSUME IntCell(c)
        PROVE  /\ y.sr.i >= c.f.vec - 24
               /\ \A e \in SuperLive(y) : Std(e) /\ e.at < c.at => e.f.sr.i >= c.f.vec - 24
    BY <2>1, <2>4, <2>5, <1>1 DEF Cell
  <2> QED BY <2>1, <2>3, <2>5 DEF Rising, Masking
<1> QED BY <1>g, <1>4, <1>6, <1>7, <1>8, <1>9, <1>1, <1>b DEF Sound, Shaped

\* The word of a handler is none of the guest's
LEMMA HandlerIsNoGuest ==
    ASSUME NEW x, NEW pc, NEW sr, NEW i, NEW k, HandlerPc(x, pc), Placed(x, pc, sr, i, k)
    PROVE  InHandler(x, pc, sr, i, k)
<1>1. pc \in Int /\ pc > 400
  BY DEF HandlerPc, Handler
<1>2. ~AtGuest(x, pc, i, k)
  BY <1>1 DEF AtGuest, GuestPc, Body, UserCode
<1>3. ~InCall(x, pc, sr, i, k)
  BY <1>1 DEF InCall, Subroutine
<1> QED BY <1>2, <1>3 DEF Placed

\* RTE goes on behind the frame on top
LEMMA PopSound ==
    ASSUME NEW x, NEW y, NEW c, NEW pc, Shaped(x, pc), BankOf(x, x.sr) # 0,
           Popped(x, y, BankOf(x, x.sr), c), Std(c), y.sr = c.f.sr
    PROVE  Sound(y, c.f.pc)
<1> DEFINE b == BankOf(x, x.sr)
<1>g. Guested(x, y) /\ y.astray = x.astray
  BY DEF Popped, Guested
<1>h. /\ \A sr : OnMaster(y, sr) = OnMaster(x, sr) /\ BankOf(y, sr) = BankOf(x, sr)
      /\ \A sr : SrMasked(y, sr) = SrMasked(x, sr)
      /\ \A p : GuestPc(y, p) = GuestPc(x, p)
      /\ \A fmt : FrameBytes(y, fmt) = FrameBytes(x, fmt)
      /\ RteFormats(y) = RteFormats(x) /\ is_pre_68020(y) = is_pre_68020(x)
  BY <1>g, GuestedSame
<1>b. b \in {4, 6}
  BY DEF BankOf
<1>1. /\ c \in Live(x, b) /\ c.at = SpOf(x, b)
      /\ SpOf(y, 0) = SpOf(x, 0) /\ SpOf(y, b) = c.at + c.n
      /\ b = 4 => SpOf(y, 6) = SpOf(x, 6) /\ Live(y, 6) = Live(x, 6)
      /\ b = 6 => SpOf(y, 4) = SpOf(x, 4) /\ Live(y, 4) = Live(x, 4)
      /\ Live(y, b) = Live(x, b) \ {c} /\ Live(y, 0) = Live(x, 0)
  BY <1>b DEF Popped
<1>2. \A e \in {0, 4, 6} : Live(x, e) \ {c} \subseteq Live(y, e) /\ Live(y, e) \subseteq Live(x, e)
  BY <1>1, <1>b
<1>3. b = 6 => SpOf(x, 4) = IspBase /\ Live(x, 4) = {}
  BY <1>b, OffStacks
<1>4. ASSUME NEW e \in {0, 4, 6} PROVE Chained(Live(y, e), SpOf(y, e), Banks[e])
  <2>1. Chained(Live(x, e), SpOf(x, e), Banks[e]) /\ Banks[e] \in Int
    BY BankFacts DEF Shaped
  <2>2. CASE e = b
    <3>1. c \in Live(x, e) /\ c.at = SpOf(x, e)
      BY <2>2, <1>1
    <3>2. Chained(Live(x, e) \ {c}, c.at + c.n, Banks[e])
      BY <2>1, <3>1, ChainPop
    <3> QED BY <2>2, <3>2, <1>1
  <2>3. CASE e # b
    BY <2>1, <2>3, <1>1, <1>b
  <2> QED BY <2>2, <2>3
<1>5. /\ c \in Cell /\ c.n > 0 /\ c.at \in Int /\ c.n \in Int
      /\ b = 4 => c.at < 2000
      /\ b = 6 => c.at > 2000
      /\ SpOf(x, 6) > 2000 /\ SpOf(x, 6) \in Int
  BY <1>1, <1>b, CellPlaces DEF Cell
<1>6. ASSUME NEW d \in Live(y, b)
      PROVE  c.at < d.at /\ d.at \in Int /\ d.n \in Int /\ d.n > 0
  <2>1. Chained(Live(x, b), SpOf(x, b), Banks[b]) /\ d \in Live(x, b) /\ d # c
    BY <1>1, <1>b DEF Shaped
  <2> QED BY <2>1, <1>1, <1>5 DEF Chained, Cell
<1>7. ASSUME NEW e \in {0, 4, 6}, NEW d \in Live(y, e) PROVE FrameOk(y, e, d)
  <2>1. FrameOk(x, e, d)
    BY <1>2 DEF Shaped
  <2>2. SrMasked(y, d.f.sr) = d.f.sr /\ d.n = FrameBytes(y, d.f.fmt)
    BY <2>1, <1>h DEF FrameOk
  <2>3. RetOk(x, e, d) => RetOk(y, e, d)
    BY <1>h DEF RetOk
  <2>4. e = 4 => b = 4 /\ SpOf(y, 6) = SpOf(x, 6) /\ Live(y, 6) = Live(x, 6)
    BY <1>1, <1>2, <1>3, <1>b
  <2>5. e = 4 /\ ThrowOk(x, d) => ThrowOk(y, d)
    BY <2>4, <1>h DEF ThrowOk
  <2>6. ASSUME StdOk(x, e, d) PROVE StdOk(y, e, d)
    <3> DEFINE i == IF e = 4 THEN d.at + d.n ELSE IspBase
               k == IF e = 6 THEN d.at + d.n ELSE SpOf(x, 6)
    <3>1. Placed(x, d.f.pc, d.f.sr, i, k) /\ e \in {4, 6}
      BY <2>6 DEF StdOk
    <3>2. k = (IF e = 6 THEN d.at + d.n ELSE SpOf(y, 6))
      BY <2>4, <3>1
    <3>3. d \in Live(x, e)
      BY <1>2
    <3>4. /\ e = 4 => d.at < 2000
          /\ e = 6 => d.at > 2000
          /\ d.at \in Int /\ d.n \in Int /\ d.n > 0
      BY <3>1, <3>3, CellPlaces DEF Cell
    <3>5. c.at # i /\ c.at # k
      <4>1. CASE e = b
        BY <4>1, <3>4, <1>5, <1>6, <1>b, BankFacts
      <4>2. CASE e # b
        <5>1. b = 4 /\ e = 6
          BY <4>2, <3>1, <1>b, <2>4
        <5> QED BY <5>1, <3>4, <1>5, BankFacts
      <4> QED BY <4>1, <4>2
    <3>6. c.f.fmt # "ret"
      BY DEF Std
    <3> HIDE DEF i, k
    <3>7. Placed(y, d.f.pc, d.f.sr, i, k)
      BY <3>1, <3>5, <3>6, <1>g, <1>1, <1>2, PlacedLess
    <3> QED BY <3>7, <3>2, <2>6, <1>h DEF StdOk, i
  <2> QED BY <2>1, <2>2, <2>3, <2>5, <2>6 DEF FrameOk
<1>8. Placed(y, c.f.pc, y.sr, SpOf(y, 4), SpOf(y, 6))
  <2> DEFINE i == IF b = 4 THEN c.at + c.n ELSE IspBase
             k == IF b = 6 THEN c.at + c.n ELSE SpOf(x, 6)
  <2>1. StdOk(x, b, c)
    <3>1. FrameOk(x, b, c)
      BY <1>1, <1>b DEF Shaped
    <3> QED BY <3>1 DEF FrameOk, RetOk, ThrowOk, Std
  <2>2. Placed(x, c.f.pc, c.f.sr, i, k)
    BY <2>1 DEF StdOk
  <2>3. i = SpOf(y, 4) /\ k = SpOf(y, 6)
    BY <1>1, <1>3, <1>b
  <2>4. c.at # i /\ c.at # k
    BY <1>5, <1>b, BankFacts
  <2>5. c.f.fmt # "ret"
    BY DEF Std
  <2> HIDE DEF i, k
  <2>6. Placed(y, c.f.pc, c.f.sr, i, k)
    BY <2>2, <2>4, <2>5, <1>g, <1>1, <1>2, PlacedLess
  <2> QED BY <2>3, <2>6
<1>9. SrMasked(y, y.sr) = y.sr
  BY <1>1, <1>b, <1>h DEF Shaped, FrameOk
<1>10. Rising(y) /\ Masking(y)
  <2>1. SuperLive(y) \subseteq SuperLive(x) /\ c \in SuperLive(x)
    BY <1>1, <1>2, <1>b DEF SuperLive
  <2>2. ASSUME NEW d \in SuperLive(y) PROVE c.at < d.at
    <3>1. CASE d \in Live(y, b)
      BY <3>1, <1>6
    <3>2. CASE d \notin Live(y, b)
      <4>1. b = 4 /\ d \in Live(x, 6)
        BY <3>2, <1>1, <1>3, <1>b DEF SuperLive
      <4> QED BY <4>1, <1>1, LiveOrder
    <3> QED BY <3>1, <3>2
  <2>3. Rising(y)
    BY <2>1 DEF Rising, Shaped
  <2>4. Masking(y)
    BY <2>1, <2>2 DEF Rising, Masking, Shaped
  <2> QED BY <2>3, <2>4
<1> QED BY <1>g, <1>4, <1>7, <1>8, <1>9, <1>10 DEF Sound, Shaped

\* Popping the throwaway frame leads to the frame on the master stack
LEMMA ThrowPopShaped ==
    ASSUME NEW x, NEW y, NEW t, NEW pc, Shaped(x, pc), HandlerPc(x, pc), BankOf(x, x.sr) = 4,
           Popped(x, y, 4, t), t.f.fmt = "1", y.sr = t.f.sr
    PROVE  /\ Shaped(y, pc) /\ BankOf(y, y.sr) = 6
           /\ \E d \in Live(y, 6) : d.at = SpOf(y, 6) /\ Std(d)
<1>g. Guested(x, y) /\ y.astray = x.astray
  BY DEF Popped, Guested
<1>h. /\ \A sr : OnMaster(y, sr) = OnMaster(x, sr) /\ BankOf(y, sr) = BankOf(x, sr)
      /\ \A sr : SrMasked(y, sr) = SrMasked(x, sr)
      /\ \A p : GuestPc(y, p) = GuestPc(x, p) /\ HandlerPc(y, p) = HandlerPc(x, p)
      /\ \A fmt : FrameBytes(y, fmt) = FrameBytes(x, fmt)
      /\ RteFormats(y) = RteFormats(x) /\ is_pre_68020(y) = is_pre_68020(x)
  BY <1>g, GuestedSame
<1>1. /\ t \in Live(x, 4) /\ t.at = SpOf(x, 4)
      /\ SpOf(y, 0) = SpOf(x, 0) /\ SpOf(y, 4) = t.at + t.n /\ SpOf(y, 6) = SpOf(x, 6)
      /\ Live(y, 4) = Live(x, 4) \ {t} /\ Live(y, 0) = Live(x, 0) /\ Live(y, 6) = Live(x, 6)
  BY DEF Popped
<1>2. FrameOk(x, 4, t) /\ ThrowOk(x, t) /\ SrMasked(x, t.f.sr) = t.f.sr
  <2>1. FrameOk(x, 4, t)
    BY <1>1 DEF Shaped
  <2> QED BY <2>1 DEF FrameOk, RetOk, StdOk, Std
<1>3. t.at + t.n = IspBase /\ OnMaster(x, t.f.sr)
      /\ \E d \in Live(x, 6) : d.at = SpOf(x, 6) /\ Std(d)
  BY <1>2 DEF ThrowOk
<1>4. ASSUME NEW e \in {0, 4, 6} PROVE Chained(Live(y, e), SpOf(y, e), Banks[e])
  <2>1. Chained(Live(x, e), SpOf(x, e), Banks[e]) /\ Banks[e] \in Int
    BY BankFacts DEF Shaped
  <2>2. CASE e = 4
    <3>1. Chained(Live(x, e) \ {t}, t.at + t.n, Banks[e])
      BY <2>1, <2>2, <1>1, ChainPop
    <3> QED BY <2>2, <3>1, <1>1
  <2>3. CASE e # 4
    BY <2>1, <2>3, <1>1
  <2> QED BY <2>2, <2>3
<1>5. Live(y, 4) = {}
  <2>1. Chained(Live(y, 4), IspBase, IspBase) /\ IspBase \in Int
    BY <1>1, <1>3, <1>4, BankFacts
  <2> QED BY <2>1, ChainEmpty
<1>6. \A e \in {0, 4, 6} : Live(x, e) \ {t} \subseteq Live(y, e) /\ Live(y, e) \subseteq Live(x, e)
  BY <1>1
<1>7. ASSUME NEW e \in {0, 4, 6}, NEW d \in Live(y, e) PROVE FrameOk(y, e, d)
  <2>1. FrameOk(x, e, d) /\ e # 4
    BY <1>5, <1>6 DEF Shaped
  <2>2. SrMasked(y, d.f.sr) = d.f.sr /\ d.n = FrameBytes(y, d.f.fmt)
    BY <2>1, <1>h DEF FrameOk
  <2>3. RetOk(x, e, d) => RetOk(y, e, d)
    BY <1>h DEF RetOk
  <2>4. ASSUME StdOk(x, e, d) PROVE StdOk(y, e, d)
    <3>1. Placed(x, d.f.pc, d.f.sr, IspBase, d.at + d.n) /\ e = 6
      BY <2>1, <2>4 DEF StdOk
    <3>2. d \in Live(x, 6)
      BY <1>6, <3>1
    <3>3. d.at > 2000 /\ d.at \in Int /\ d.n \in Int /\ d.n > 0
      BY <3>2, CellPlaces DEF Cell
    <3>4. t.at < 2000 /\ t.at \in Int
      BY <1>1, CellPlaces DEF Cell
    <3>5. t.at # IspBase /\ t.at # d.at + d.n
      BY <3>3, <3>4, BankFacts
    <3>6. t.f.fmt # "ret"
      OBVIOUS
    <3>7. Placed(y, d.f.pc, d.f.sr, IspBase, d.at + d.n)
      BY <3>1, <3>5, <3>6, <1>g, <1>1, <1>6, PlacedLess
    <3> QED BY <3>1, <3>7, <2>4, <1>h DEF StdOk
  <2> QED BY <2>1, <2>2, <2>3, <2>4 DEF FrameOk
<1>8. Placed(y, pc, y.sr, SpOf(y, 4), SpOf(y, 6))
  <2>1. OnMaster(y, y.sr) /\ y.sr.s
    BY <1>3, <1>h DEF OnMaster
  <2>2. InHandler(y, pc, y.sr, SpOf(y, 4), SpOf(y, 6))
    BY <2>1, <1>1, <1>3, <1>h DEF InHandler
  <2> QED BY <2>2 DEF Placed
<1>9. Rising(y)
  BY <1>6 DEF Shaped, Rising, SuperLive
<1>10. BankOf(y, y.sr) = 6
  BY <1>3, <1>h DEF BankOf, OnMaster
<1>11. SrMasked(y, y.sr) = y.sr
  BY <1>2, <1>h
<1>12. \E d \in Live(y, 6) : d.at = SpOf(y, 6) /\ Std(d)
  BY <1>1, <1>3
<1> QED BY <1>g, <1>4, <1>7, <1>8, <1>9, <1>10, <1>11, <1>12 DEF Shaped

\* An interrupt of the master state copies its frame onto the interrupt stack
LEMMA ThrowPushSound ==
    ASSUME NEW x, NEW y, NEW t, NEW pc, Sound(x, pc), HandlerPc(x, pc), BankOf(x, x.sr) = 6,
           \E d \in Live(x, 6) : d.at = SpOf(x, 6) /\ Std(d), ~is_pre_68020(x),
           Pushed(x, y, 4, t), t.f.fmt = "1", t.n = FrameBytes(x, "1"),
           OnMaster(x, t.f.sr), SrMasked(x, t.f.sr) = t.f.sr,
           SrMasked(y, y.sr) = y.sr, y.sr.s, ~y.sr.m, y.sr.i = x.sr.i
    PROVE  Sound(y, pc)
<1>g. Guested(x, y) /\ y.astray = x.astray
  BY DEF Pushed, Guested
<1>h. /\ \A sr : OnMaster(y, sr) = OnMaster(x, sr) /\ BankOf(y, sr) = BankOf(x, sr)
      /\ \A sr : SrMasked(y, sr) = SrMasked(x, sr)
      /\ \A p : GuestPc(y, p) = GuestPc(x, p) /\ HandlerPc(y, p) = HandlerPc(x, p)
      /\ \A fmt : FrameBytes(y, fmt) = FrameBytes(x, fmt)
      /\ RteFormats(y) = RteFormats(x) /\ is_pre_68020(y) = is_pre_68020(x)
  BY <1>g, GuestedSame
<1>s. Shaped(x, pc)
  BY DEF Sound
<1>1. SpOf(x, 4) = IspBase /\ Live(x, 4) = {}
  BY <1>s, OffStacks
<1>2. /\ SpOf(y, 0) = SpOf(x, 0) /\ SpOf(y, 4) = t.at /\ SpOf(y, 6) = SpOf(x, 6)
      /\ t.at = IspBase - t.n /\ t \in Cell /\ t.n > 0
      /\ Live(y, 4) = {t} /\ Live(y, 0) = Live(x, 0) /\ Live(y, 6) = Live(x, 6)
  BY <1>1 DEF Pushed
<1>3. \A e \in {0, 4, 6} : Live(x, e) \subseteq Live(y, e)
  BY <1>1, <1>2
<1>4. ASSUME NEW e \in {0, 4, 6} PROVE Chained(Live(y, e), SpOf(y, e), Banks[e])
  <2>1. Chained(Live(x, e), SpOf(x, e), Banks[e]) /\ Banks[e] \in Int
    BY <1>s, BankFacts DEF Shaped
  <2>2. CASE e = 4
    <3>1. Chained(Live(x, 4) \cup {t}, t.at, Banks[4])
      BY <2>1, <2>2, <1>1, <1>2, ChainPush
    <3> QED BY <2>2, <3>1, <1>1, <1>2
  <2>3. CASE e # 4
    BY <2>1, <2>3, <1>2
  <2> QED BY <2>2, <2>3
<1>5. t.at + t.n = IspBase
  BY <1>2, BankFacts DEF Cell
<1>6. ASSUME NEW e \in {0, 4, 6}, NEW d \in Live(y, e) PROVE FrameOk(y, e, d)
  <2>1. CASE e = 4
    <3>1. d = t
      BY <2>1, <1>2
    <3>2. ThrowOk(y, t)
      BY <1>2, <1>5, <1>h DEF ThrowOk
    <3> QED BY <2>1, <3>1, <3>2, <1>h DEF FrameOk
  <2>2. CASE e # 4
    <3>1. FrameOk(x, e, d)
      BY <2>2, <1>s, <1>2 DEF Shaped
    <3>2. SrMasked(y, d.f.sr) = d.f.sr /\ d.n = FrameBytes(y, d.f.fmt)
      BY <3>1, <1>h DEF FrameOk
    <3>3. RetOk(x, e, d) => RetOk(y, e, d)
      BY <1>h DEF RetOk
    <3>4. ASSUME StdOk(x, e, d) PROVE StdOk(y, e, d)
      <4>1. Placed(x, d.f.pc, d.f.sr, IspBase, d.at + d.n) /\ e = 6
        BY <2>2, <3>4 DEF StdOk
      <4>2. Placed(y, d.f.pc, d.f.sr, IspBase, d.at + d.n)
        BY <4>1, <1>g, <1>2, <1>3, PlacedMore
      <4> QED BY <4>1, <4>2, <3>4, <1>h DEF StdOk
    <3> QED BY <2>2, <3>1, <3>2, <3>3, <3>4 DEF FrameOk
  <2> QED BY <2>1, <2>2
<1>7. Placed(y, pc, y.sr, SpOf(y, 4), SpOf(y, 6))
  <2>1. ~OnMaster(y, y.sr)
    BY DEF OnMaster
  <2>2. t \in Live(y, 4) /\ t.at = SpOf(y, 4) /\ t.f.fmt # "ret"
    BY <1>2
  <2>3. InHandler(y, pc, y.sr, SpOf(y, 4), SpOf(y, 6))
    BY <2>1, <2>2, <1>h DEF InHandler
  <2> QED BY <2>3 DEF Placed
<1>8. Rising(y) /\ Masking(y)
  <2>1. SuperLive(y) = SuperLive(x) \cup {t} /\ ~Std(t) /\ ~IntCell(t)
    BY <1>1, <1>2 DEF SuperLive, Std, IntCell
  <2> QED BY <2>1, <1>s DEF Sound, Shaped, Rising, Masking
<1> QED BY <1>g, <1>s, <1>4, <1>6, <1>7, <1>8 DEF Sound, Shaped

----------------------------------------------------------------------------
(* The guest's loop and its counters *)

\* A word of the loop that takes no operand is followed by another
LEMMA BodyNext ==
    ASSUME NEW p, Proper(p), NEW w \in Body(p), p[w] \notin Operanded, p[w] # "bra"
    PROVE  w \in {16, 18, 20} /\ w + 2 \in Body(p) /\ p[w + 2] # "ext"
<1>1. w \in UserCode /\ \A v \in UserCode : v < w => p[v] # "bra"
  BY DEF Body
<1>2. w \in {16, 18, 20}
  BY <1>1 DEF Proper, UserCode
<1>3. w + 2 \in Body(p)
  <2>1. w + 2 \in UserCode
    BY <1>2 DEF UserCode
  <2>2. ASSUME NEW v \in UserCode, v < w + 2 PROVE p[v] # "bra"
    <3>1. v < w \/ v = w
      BY <1>2, <2>2 DEF UserCode
    <3> QED BY <1>1, <3>1
  <2> QED BY <2>1, <2>2 DEF Body
<1>4. p[w + 2] # "ext"
  <2>1. (w + 2) - 2 = w
    BY <1>2
  <2> QED BY <1>3, <2>1 DEF Proper
<1> QED BY <1>2, <1>3, <1>4

\* A word with an operand is followed by it, and it by another
LEMMA BodyOperand ==
    ASSUME NEW p, Proper(p), NEW w \in Body(p), p[w] \in Operanded
    PROVE  /\ w \in {16, 18} /\ w + 2 \in Body(p) /\ w + 4 \in Body(p)
           /\ p[w + 2] = "ext" /\ p[w + 4] # "ext"
<1>1. w \in UserCode /\ (\A v \in UserCode : v < w => p[v] # "bra") /\ p[w] # "bra"
  BY DEF Body, Operanded
<1>2. p[w + 2] = "ext"
  BY DEF Proper
<1>3. w \in {16, 18, 20}
  BY <1>1 DEF Proper, UserCode
<1>4. w + 2 \in Body(p)
  <2>1. w + 2 \in UserCode
    BY <1>3 DEF UserCode
  <2>2. ASSUME NEW v \in UserCode, v < w + 2 PROVE p[v] # "bra"
    <3>1. v < w \/ v = w
      BY <1>3, <2>2 DEF UserCode
    <3> QED BY <1>1, <3>1
  <2> QED BY <2>1, <2>2 DEF Body
<1>5. p[w + 2] \notin Operanded /\ p[w + 2] # "bra"
  BY <1>2 DEF Operanded
<1>6. w + 2 \in {16, 18, 20} /\ (w + 2) + 2 \in Body(p) /\ p[(w + 2) + 2] # "ext"
  BY <1>4, <1>5, BodyNext
<1>7. (w + 2) + 2 = w + 4
  BY <1>3
<1> QED BY <1>2, <1>3, <1>4, <1>6, <1>7

LEMMA BodyOrigin ==
    ASSUME NEW p, Proper(p)
    PROVE  Origin \in Body(p) /\ p[Origin] # "ext"
  BY DEF Proper, Body, Origin, UserCode

LEMMA FiniteCode ==
    ASSUME NEW S, S \subseteq UserCode
    PROVE  IsFiniteSet(S) /\ Cardinality(S) \in Nat
<1>1. UserCode \subseteq 16..22
  BY DEF UserCode
<1>2. IsFiniteSet(16..22)
  <2>1. 16 \in Int /\ 22 \in Int
    OBVIOUS
  <2> QED BY <2>1, FS_Interval
<1>3. S \in SUBSET (16..22)
  BY <1>1
<1>4. IsFiniteSet(S)
  BY <1>2, <1>3, FS_Subset
<1> QED BY <1>4, FS_CardinalityType

LEMMA BalanceInt == ASSUME NEW p, NEW pc PROVE BalanceOf(p, pc) \in Int
<1>1. /\ Cardinality({ w \in UserCode : w < pc /\ p[w] = "rmw" }) \in Nat
      /\ Cardinality({ w \in UserCode : w < pc /\ p[w] \in {"pinc", "jsr"} }) \in Nat
  BY FiniteCode
<1> QED BY <1>1 DEF BalanceOf

\* One word more counts for what it is
LEMMA CountOne ==
    ASSUME NEW w \in {16, 18, 20}, NEW Q
    PROVE  Cardinality({ v \in UserCode : v < w + 2 /\ v \in Q })
           = Cardinality({ v \in UserCode : v < w /\ v \in Q }) + (IF w \in Q THEN 1 ELSE 0)
<1> DEFINE S == { v \in UserCode : v < w /\ v \in Q }
           T == { v \in UserCode : v < w + 2 /\ v \in Q }
<1>1. \A v \in UserCode : v < w + 2 <=> v < w \/ v = w
  BY DEF UserCode
<1>2. w \in UserCode /\ w \notin S
  BY DEF UserCode
<1>3. T = IF w \in Q THEN S \cup {w} ELSE S
  BY <1>1, <1>2
<1>4. IsFiniteSet(S) /\ Cardinality(S) \in Nat
  BY FiniteCode
<1>5. Cardinality(S \cup {w}) = Cardinality(S) + 1
  BY <1>2, <1>4, FS_AddElement
<1> HIDE DEF S, T
<1>6. Cardinality(T) = Cardinality(S) + (IF w \in Q THEN 1 ELSE 0)
  BY <1>3, <1>4, <1>5
<1> QED BY <1>6 DEF S, T

LEMMA BalanceNext ==
    ASSUME NEW p, NEW w \in {16, 18, 20}
    PROVE  BalanceOf(p, w + 2) = BalanceOf(p, w) + (IF p[w] = "rmw" THEN 1 ELSE 0)
                                 - (IF p[w] \in {"pinc", "jsr"} THEN 1 ELSE 0)
<1> DEFINE A == { v \in UserCode : p[v] = "rmw" }
           B == { v \in UserCode : p[v] \in {"pinc", "jsr"} }
           Up(Q, pc) == { v \in UserCode : v < pc /\ v \in Q }
           a == Cardinality(Up(A, w))
           b == Cardinality(Up(B, w))
<1>1. a \in Nat /\ b \in Nat
  BY FiniteCode
<1>2. Cardinality(Up(A, w + 2)) = a + (IF w \in A THEN 1 ELSE 0)
  <2> HIDE DEF A
  <2> QED BY CountOne
<1>3. Cardinality(Up(B, w + 2)) = b + (IF w \in B THEN 1 ELSE 0)
  <2> HIDE DEF B
  <2> QED BY CountOne
<1>4. ASSUME NEW pc PROVE BalanceOf(p, pc) = Cardinality(Up(A, pc)) - Cardinality(Up(B, pc))
  <2>1. /\ Up(A, pc) = { v \in UserCode : v < pc /\ p[v] = "rmw" }
        /\ Up(B, pc) = { v \in UserCode : v < pc /\ p[v] \in {"pinc", "jsr"} }
    OBVIOUS
  <2> HIDE DEF Up
  <2> QED BY <2>1 DEF BalanceOf
<1>5. /\ BalanceOf(p, w) = a - b
      /\ BalanceOf(p, w + 2) = Cardinality(Up(A, w + 2)) - Cardinality(Up(B, w + 2))
  BY <1>4
<1>6. (w \in A <=> p[w] = "rmw") /\ (w \in B <=> p[w] \in {"pinc", "jsr"})
  BY DEF UserCode
<1> HIDE DEF a, b, A, B, Up
<1> QED BY <1>1, <1>2, <1>3, <1>5, <1>6

LEMMA BalanceOrigin == ASSUME NEW p PROVE BalanceOf(p, Origin) = 0
<1>1. /\ { w \in UserCode : w < Origin /\ p[w] = "rmw" } = {}
      /\ { w \in UserCode : w < Origin /\ p[w] \in {"pinc", "jsr"} } = {}
  BY DEF UserCode, Origin
<1>2. Cardinality({}) = 0
  BY FS_EmptySet
<1> QED BY <1>1, <1>2 DEF BalanceOf

LEMMA Modulo ==
    ASSUME NEW a \in Int, a % 3 = 0
    PROVE  (a - 3) % 3 = 0 /\ (a + 3) % 3 = 0
  BY SMT

LEMMA ModuloSum ==
    ASSUME NEW a \in Int, a % 3 = 0, NEW b \in Int, b % 3 = 0
    PROVE  (a + b) % 3 = 0
<1> DEFINE q == a \div 3
           r == b \div 3
<1>1. q \in Int /\ r \in Int
  BY SMT
<1>2. a = 3 * q /\ b = 3 * r
  BY SMT
<1> HIDE DEF q, r
<1>3. (3 * (q + r)) % 3 = 0
  BY <1>1, SMT
<1>4. a + b = 3 * (q + r)
  BY <1>1, <1>2
<1> QED BY <1>3, <1>4

\* A machine's counters
Counters(x) == x.data \in 0..2 /\ x.dar.r \in 0..2

LEMMA MachineCounters == ASSUME NEW x \in Machine PROVE Counters(x)
  BY DEF Machine, Registers, RegMod, Counters

\* An instruction done counts
LEMMA CountNext ==
    ASSUME NEW x, NEW y, NEW w \in {16, 18, 20}, Counters(x), y.prog = x.prog, x.prog[w] # "jsr",
           y.data = (IF x.prog[w] = "rmw" THEN (x.data + 1) % RegMod ELSE x.data),
           y.dar.r = (IF x.prog[w] = "pinc" THEN (x.dar.r + 1) % RegMod ELSE x.dar.r),
           Counted(x, w, 0)
    PROVE  Counted(y, w + 2, 0)
<1> SUFFICES ASSUME Closed(x.prog)
             PROVE  (y.data - y.dar.r - BalanceOf(x.prog, w + 2) - 0) % RegMod = 0
  BY DEF Counted
<1> DEFINE b == BalanceOf(x.prog, w)
           c == BalanceOf(x.prog, w + 2)
           a == x.data - x.dar.r - b
<1>1. b \in Int /\ c \in Int /\ x.data \in 0..2 /\ x.dar.r \in 0..2
  BY BalanceInt DEF Counters
<1>2. c = b + (IF x.prog[w] = "rmw" THEN 1 ELSE 0)
            - (IF x.prog[w] \in {"pinc", "jsr"} THEN 1 ELSE 0)
  BY BalanceNext
<1>3. a \in Int /\ a % 3 = 0
  <2>1. a - 0 = a /\ a \in Int
    BY <1>1
  <2>2. (a - 0) % 3 = 0
    BY DEF Counted, RegMod
  <2> QED BY <2>1, <2>2
<1>4. \A n \in 0..2 : (n + 1) % 3 = IF n = 2 THEN 0 ELSE n + 1
  BY SMT
<1> HIDE DEF b, c
<1>5. y.data - y.dar.r - c \in {a, a - 3, a + 3}
  BY <1>1, <1>2, <1>4 DEF RegMod
<1>6. (y.data - y.dar.r - c) % 3 = 0
  <2> HIDE DEF a
  <2> QED BY <1>3, <1>5, Modulo
<1>7. y.data - y.dar.r - c - 0 = y.data - y.dar.r - c
  BY <1>1, <1>5
<1> QED BY <1>6, <1>7 DEF RegMod, c

\* A call owes the count of its subroutine, an operand none
LEMMA CountOperand ==
    ASSUME NEW x, NEW w \in {16, 18}, Counters(x), x.prog[w] \in Operanded, x.prog[w + 2] = "ext",
           Counted(x, w, 0)
    PROVE  Counted(x, w + 4, IF x.prog[w] = "jsr" THEN 1 ELSE 0)
<1> DEFINE b == BalanceOf(x.prog, w)
           c == BalanceOf(x.prog, w + 2)
           d == BalanceOf(x.prog, w + 4)
<1>1. b \in Int /\ x.data \in 0..2 /\ x.dar.r \in 0..2
  BY BalanceInt DEF Counters
<1>2. c = b - (IF x.prog[w] = "jsr" THEN 1 ELSE 0)
  <2>1. x.prog[w] # "rmw" /\ (x.prog[w] \in {"pinc", "jsr"} <=> x.prog[w] = "jsr")
    BY DEF Operanded
  <2>2. w \in {16, 18, 20}
    OBVIOUS
  <2> HIDE DEF b, c
  <2>3. c = b + 0 - (IF x.prog[w] = "jsr" THEN 1 ELSE 0)
    BY <2>1, <2>2, BalanceNext DEF b, c
  <2> QED BY <1>1, <2>3
<1>3. d = c
  <2>1. w + 2 \in {16, 18, 20} /\ (w + 2) + 2 = w + 4
    OBVIOUS
  <2>2. BalanceOf(x.prog, (w + 2) + 2) = c + 0 - 0
    BY <2>1, BalanceNext
  <2>3. c \in Int
    BY BalanceInt
  <2> QED BY <2>1, <2>2, <2>3
<1> HIDE DEF b, c, d
<1>4. x.data - x.dar.r - d - (IF x.prog[w] = "jsr" THEN 1 ELSE 0) = x.data - x.dar.r - b - 0
  BY <1>1, <1>2, <1>3
<1> QED BY <1>4 DEF Counted, b, d

\* The subroutine's count is what the call owed
LEMMA CountSubroutine ==
    ASSUME NEW x, NEW y, Counters(x), y.prog = x.prog, y.data = x.data,
           y.dar.r = (x.dar.r + 1) % RegMod, NEW pc, Counted(x, pc, 1)
    PROVE  Counted(y, pc, 0)
<1> SUFFICES ASSUME Closed(x.prog)
             PROVE  (y.data - y.dar.r - BalanceOf(x.prog, pc) - 0) % RegMod = 0
  BY DEF Counted
<1> DEFINE b == BalanceOf(x.prog, pc)
           a == x.data - x.dar.r - b - 1
<1>1. b \in Int /\ x.data \in 0..2 /\ x.dar.r \in 0..2
  BY BalanceInt DEF Counters
<1>2. a \in Int /\ a % 3 = 0
  BY <1>1 DEF Counted, RegMod
<1>3. \A n \in 0..2 : (n + 1) % 3 = IF n = 2 THEN 0 ELSE n + 1
  BY SMT
<1> HIDE DEF b
<1>4. y.data - y.dar.r - b - 0 \in {a, a + 3}
  BY <1>1, <1>3 DEF RegMod
<1>5. (y.data - y.dar.r - b - 0) % 3 = 0
  <2> HIDE DEF a
  <2> QED BY <1>2, <1>4, Modulo
<1> QED BY <1>5 DEF RegMod, b

\* A closed loop starts over
LEMMA CountBranch ==
    ASSUME NEW x, NEW w \in Body(x.prog), Counters(x), x.prog[w] = "bra", Counted(x, w, 0)
    PROVE  Counted(x, Origin, 0)
<1> SUFFICES ASSUME Closed(x.prog)
             PROVE  (x.data - x.dar.r - BalanceOf(x.prog, Origin) - 0) % RegMod = 0
  BY DEF Counted
<1> DEFINE b == BalanceOf(x.prog, w)
           a == x.data - x.dar.r - b
<1>1. b \in Int /\ x.data \in 0..2 /\ x.dar.r \in 0..2
  BY BalanceInt DEF Counters
<1>2. a \in Int /\ a % 3 = 0 /\ b % 3 = 0
  <2>1. b % 3 = 0
    BY DEF Closed, RegMod
  <2>2. a - 0 = a /\ a \in Int
    BY <1>1
  <2>3. (a - 0) % 3 = 0
    BY DEF Counted, RegMod
  <2> QED BY <2>1, <2>2, <2>3
<1> HIDE DEF b
<1>3. (a + b) % 3 = 0
  <2> HIDE DEF a
  <2> QED BY <1>1, <1>2, ModuloSum
<1>4. x.data - x.dar.r - 0 - 0 = a + b
  BY <1>1
<1> QED BY <1>3, <1>4, BalanceOrigin DEF RegMod

----------------------------------------------------------------------------
(* The guest's own steps *)

LEMMA BankOfType == ASSUME NEW x, NEW sr PROVE BankOf(x, sr) \in {0, 4, 6}
  BY DEF BankOf

LEMMA BanksInt == ASSUME NEW b \in {0, 4, 6} PROVE Banks[b] \in Int
  BY BankFacts

\* With nothing stacked the guest can run
LEMMA GuestSound ==
    ASSUME NEW y, NEW pc, ~y.astray, SrMasked(y, y.sr) = y.sr,
           \A b \in {0, 4, 6} : Live(y, b) = {} /\ SpOf(y, b) = Banks[b],
           GuestPc(y, pc), Counted(y, pc, 0)
    PROVE  Sound(y, pc)
<1>1. \A b \in {0, 4, 6} : Chained(Live(y, b), SpOf(y, b), Banks[b])
  BY BanksInt, ChainBase
<1>2. Placed(y, pc, y.sr, SpOf(y, 4), SpOf(y, 6))
  BY BankFacts DEF Placed, AtGuest
<1>3. SuperLive(y) = {}
  BY DEF SuperLive
<1> QED BY <1>1, <1>2, <1>3 DEF Sound, Shaped, Rising, Masking

\* The subroutine runs with its return address alone on the stacks
LEMMA CallStacks ==
    ASSUME NEW x, NEW pc, Shaped(x, pc), pc \in {Subroutine, Subroutine + 2}
    PROVE  LET b == BankOf(x, x.sr)
           IN  /\ \E g : /\ Live(x, b) = {g} /\ g.f.fmt = "ret" /\ g.n = 4
                         /\ g.at = SpOf(x, b) /\ g.at = Banks[b] - 4
                         /\ GuestPc(x, g.f.pc)
                         /\ Counted(x, g.f.pc, IF pc = Subroutine THEN 1 ELSE 0)
               /\ \A e \in {0, 4, 6} \ {b} : Live(x, e) = {} /\ SpOf(x, e) = Banks[e]
<1> DEFINE b == BankOf(x, x.sr)
<1>1. InCall(x, pc, x.sr, SpOf(x, 4), SpOf(x, 6))
  <2>1. Placed(x, pc, x.sr, SpOf(x, 4), SpOf(x, 6))
    BY DEF Shaped
  <2>2. ~AtGuest(x, pc, SpOf(x, 4), SpOf(x, 6))
    BY DEF AtGuest, GuestPc, Body, UserCode, Subroutine
  <2>3. ~InHandler(x, pc, x.sr, SpOf(x, 4), SpOf(x, 6))
    BY DEF InHandler, HandlerPc, Handler, Subroutine
  <2> QED BY <2>1, <2>2, <2>3 DEF Placed
<1>2. b \in {0, 4, 6}
  BY BankOfType
<1>3. /\ \A e \in {0, 4, 6} \ {b} : SpOf(x, e) = Banks[e]
      /\ SpOf(x, b) = Banks[b] - 4
  BY <1>1, <1>2, BankFacts DEF InCall
<1>4. ASSUME NEW e \in {0, 4, 6} \ {b} PROVE Live(x, e) = {}
  <2>1. Chained(Live(x, e), Banks[e], Banks[e]) /\ Banks[e] \in Int
    BY <1>3, BanksInt DEF Shaped
  <2> QED BY <2>1, ChainEmpty
<1>5. PICK g \in Live(x, b) : /\ g.f.fmt = "ret" /\ g.at = Banks[b] - 4
                              /\ Counted(x, g.f.pc, IF pc = Subroutine THEN 1 ELSE 0)
  BY <1>1 DEF InCall
<1>6. FrameOk(x, b, g)
  BY <1>2 DEF Shaped
<1>7. g.n = 4 /\ GuestPc(x, g.f.pc)
  BY <1>5, <1>6 DEF FrameOk, RetOk, ThrowOk, StdOk, Std, FrameBytes
<1>8. Live(x, b) = {g}
  <2>1. Chained(Live(x, b), g.at, Banks[b]) /\ Banks[b] \in Int
    BY <1>2, <1>3, <1>5, BanksInt DEF Shaped
  <2>2. g.at + g.n = Banks[b]
    BY <1>5, <1>7, <1>2, BanksInt
  <2> QED BY <2>1, <2>2, ChainOne
<1> QED BY <1>3, <1>4, <1>5, <1>7, <1>8

\* A machine in the subroutine
LEMMA InCallSound ==
    ASSUME NEW y, NEW pc, pc \in {Subroutine, Subroutine + 2}, ~y.astray, SrMasked(y, y.sr) = y.sr,
           NEW g \in Cell, Live(y, BankOf(y, y.sr)) = {g}, SpOf(y, BankOf(y, y.sr)) = g.at,
           g.at = Banks[BankOf(y, y.sr)] - 4, g.n = 4, g.f.fmt = "ret", g.f.vec = 0,
           SrMasked(y, g.f.sr) = g.f.sr, GuestPc(y, g.f.pc),
           Counted(y, g.f.pc, IF pc = Subroutine THEN 1 ELSE 0),
           \A e \in {0, 4, 6} \ {BankOf(y, y.sr)} : Live(y, e) = {} /\ SpOf(y, e) = Banks[e]
    PROVE  Sound(y, pc)
<1> DEFINE b == BankOf(y, y.sr)
<1>1. b \in {0, 4, 6} /\ Banks[b] \in Int
  BY BankOfType, BanksInt
<1>2. ASSUME NEW e \in {0, 4, 6} PROVE Chained(Live(y, e), SpOf(y, e), Banks[e])
  <2>1. CASE e = b
    <3>1. Chained({}, Banks[b], Banks[b])
      BY <1>1, ChainBase
    <3>2. g.n > 0 /\ g.at = Banks[b] - g.n /\ {} \cup {g} = {g}
      OBVIOUS
    <3> HIDE DEF b
    <3>3. Chained({} \cup {g}, g.at, Banks[b])
      BY <1>1, <3>1, <3>2, ChainPush
    <3> QED BY <2>1, <3>2, <3>3 DEF b
  <2>2. CASE e # b
    BY <2>2, BanksInt, ChainBase
  <2> QED BY <2>1, <2>2
<1>3. FrameOk(y, b, g)
  BY DEF FrameOk, RetOk, FrameBytes
<1>4. InCall(y, pc, y.sr, SpOf(y, 4), SpOf(y, 6))
  <2>1. \A e \in {0, 4, 6} : SpOf(y, e) = IF e = b THEN Banks[e] - 4 ELSE Banks[e]
    BY <1>1
  <2>2. g \in Live(y, b)
    OBVIOUS
  <2> HIDE DEF b
  <2>3. /\ SpOf(y, 0) = (IF b = 0 THEN UserBase - 4 ELSE UserBase)
        /\ SpOf(y, 4) = (IF b = 4 THEN IspBase - 4 ELSE IspBase)
        /\ SpOf(y, 6) = (IF b = 6 THEN MspBase - 4 ELSE MspBase)
    BY <2>1, BankFacts
  <2> QED BY <2>2, <2>3 DEF InCall, b
<1>5. ~IntCell(g) /\ \A d \in SuperLive(y) : d = g
  <2>1. \A e \in {0, 4, 6} : Live(y, e) \subseteq {g}
    BY <1>1
  <2> QED BY <2>1 DEF IntCell, SuperLive
<1> QED BY <1>1, <1>2, <1>3, <1>4, <1>5 DEF Sound, Shaped, Rising, Masking, Placed

\* JSR: the return address is stacked and the subroutine starts
LEMMA CallSound ==
    ASSUME NEW x, NEW y, NEW c, NEW pc, Shaped(x, pc), pc \in UserCode, Proper(x.prog),
           x.prog[pc] = "jsr", Counters(x), y.sr = x.sr, x.sr \in SR,
           Pushed(x, y, BankOf(x, x.sr), c), c.n = 4,
           c.f = Frame("ret", 0, pc + 4, x.sr)
    PROVE  Sound(y, Subroutine)
<1> DEFINE b == BankOf(x, x.sr)
<1>g. Guested(x, y) /\ y.astray = x.astray
  BY DEF Pushed, Guested
<1>h. /\ BankOf(y, y.sr) = b
      /\ \A sr : SrMasked(y, sr) = SrMasked(x, sr)
      /\ \A p : GuestPc(y, p) = GuestPc(x, p)
      /\ \A p, due : Counted(y, p, due) = Counted(x, p, due)
  BY <1>g, GuestedSame
<1>1. /\ AtGuest(x, pc, SpOf(x, 4), SpOf(x, 6))
      /\ \A e \in {0, 4, 6} : Live(x, e) = {} /\ SpOf(x, e) = Banks[e]
  <2>1. Placed(x, pc, x.sr, SpOf(x, 4), SpOf(x, 6))
    BY DEF Shaped
  <2>2. AtGuest(x, pc, SpOf(x, 4), SpOf(x, 6))
    BY <2>1 DEF Placed, InCall, InHandler, UserCode, Subroutine, HandlerPc, Handler
  <2>3. \A e \in {0, 4, 6} : SpOf(x, e) = Banks[e]
    BY <2>2, BankFacts DEF AtGuest
  <2>4. ASSUME NEW e \in {0, 4, 6} PROVE Live(x, e) = {}
    <3>1. Chained(Live(x, e), Banks[e], Banks[e]) /\ Banks[e] \in Int
      BY <2>3, BankFacts DEF Shaped
    <3> QED BY <3>1, ChainEmpty
  <2> QED BY <2>2, <2>3, <2>4
<1>2. pc \in Body(x.prog) /\ Counted(x, pc, 0)
  BY <1>1 DEF AtGuest, GuestPc
<1>3. /\ pc \in {16, 18} /\ GuestPc(x, pc + 4) /\ x.prog[pc + 2] = "ext"
  BY <1>2, BodyOperand DEF Operanded, GuestPc
<1>4. Counted(x, pc + 4, 1)
  BY <1>2, <1>3, CountOperand DEF Operanded
<1>5. c.f.fmt = "ret" /\ c.f.vec = 0 /\ c.f.pc = pc + 4 /\ c.f.sr = x.sr
  BY DEF Frame
<1>6. b \in {0, 4, 6} /\ Banks[b] \in Int
  BY BankOfType, BanksInt
<1>7. /\ c \in Cell /\ c.at = Banks[b] - 4 /\ SpOf(y, b) = c.at /\ Live(y, b) = {c}
      /\ \A e \in {0, 4, 6} \ {b} : Live(y, e) = {} /\ SpOf(y, e) = Banks[e]
  <2>1. /\ c \in Cell /\ c.at = SpOf(x, b) - c.n
        /\ \A e \in {0, 4, 6} : SpOf(y, e) = IF e = b THEN c.at ELSE SpOf(x, e)
        /\ \A e \in {0, 4, 6} : Live(y, e) = IF e = b THEN Live(x, e) \cup {c} ELSE Live(x, e)
    BY DEF Pushed
  <2> HIDE DEF b
  <2> QED BY <1>1, <1>6, <2>1
<1>8. /\ ~y.astray /\ SrMasked(y, y.sr) = y.sr /\ SrMasked(y, c.f.sr) = c.f.sr
      /\ GuestPc(y, c.f.pc) /\ Counted(y, c.f.pc, 1)
  BY <1>g, <1>h, <1>3, <1>4, <1>5 DEF Shaped
<1> QED BY <1>h, <1>5, <1>7, <1>8, InCallSound DEF Subroutine

\* TST (A0)+ in the subroutine
LEMMA SubroutineSound ==
    ASSUME NEW x, NEW y, Sound(x, Subroutine), Counters(x),
           y.cpu_type = x.cpu_type, y.prog = x.prog, y.data = x.data, y.astray = x.astray,
           y.dar.r = (x.dar.r + 1) % RegMod, y.sr = x.sr,
           \A e \in {0, 4, 6} : Live(y, e) = Live(x, e) /\ SpOf(y, e) = SpOf(x, e)
    PROVE  Sound(y, Subroutine + 2)
<1> DEFINE b == BankOf(x, x.sr)
<1>1. Shaped(x, Subroutine)
  BY DEF Sound
<1>2. PICK g : /\ Live(x, b) = {g} /\ g.f.fmt = "ret" /\ g.n = 4
               /\ g.at = SpOf(x, b) /\ g.at = Banks[b] - 4
               /\ GuestPc(x, g.f.pc) /\ Counted(x, g.f.pc, 1)
  BY <1>1, CallStacks
<1>3. \A e \in {0, 4, 6} \ {b} : Live(x, e) = {} /\ SpOf(x, e) = Banks[e]
  BY <1>1, CallStacks
<1>4. b \in {0, 4, 6} /\ b = BankOf(y, y.sr)
  BY DEF BankOf, OnMaster
<1>5. SrMasked(y, y.sr) = y.sr /\ SrMasked(y, g.f.sr) = g.f.sr
  <2>1. \A sr : SrMasked(y, sr) = SrMasked(x, sr)
    BY DEF SrMasked, is_pre_68020
  <2>2. FrameOk(x, b, g)
    BY <1>1, <1>2, <1>4 DEF Shaped
  <2> QED BY <1>1, <2>1, <2>2 DEF Shaped, FrameOk
<1>6. GuestPc(y, g.f.pc)
  BY <1>2 DEF GuestPc
<1>7. Counted(y, g.f.pc, 0)
  BY <1>2, CountSubroutine
<1>8. g \in Cell
  BY <1>1, <1>2, <1>4, CellPlaces
<1>9. Subroutine + 2 # Subroutine
  BY DEF Subroutine
<1>10. Live(y, b) = {g} /\ SpOf(y, b) = g.at
       /\ \A e \in {0, 4, 6} \ {b} : Live(y, e) = {} /\ SpOf(y, e) = Banks[e]
  BY <1>2, <1>3, <1>4
<1>11. ~y.astray /\ Chained(Live(y, b), SpOf(y, b), Banks[b])
  BY <1>1, <1>4 DEF Shaped
<1>12. \A e \in {0, 4, 6} : Chained(Live(y, e), SpOf(y, e), Banks[e])
  BY <1>1 DEF Shaped
<1>13. FrameOk(y, b, g)
  BY <1>2, <1>5, <1>6 DEF FrameOk, RetOk, FrameBytes
<1>14. InCall(y, Subroutine + 2, y.sr, SpOf(y, 4), SpOf(y, 6))
  <2>1. \A e \in {0, 4, 6} : SpOf(y, e) = IF e = b THEN Banks[e] - 4 ELSE Banks[e]
    BY <1>2, <1>4, <1>10
  <2>2. g \in Live(y, b)
    BY <1>10
  <2> HIDE DEF b
  <2>3. /\ SpOf(y, 0) = (IF b = 0 THEN UserBase - 4 ELSE UserBase)
        /\ SpOf(y, 4) = (IF b = 4 THEN IspBase - 4 ELSE IspBase)
        /\ SpOf(y, 6) = (IF b = 6 THEN MspBase - 4 ELSE MspBase)
    BY <2>1, BankFacts
  <2> QED BY <2>2, <2>3, <1>2, <1>4, <1>7, <1>9 DEF InCall
<1>15. Rising(y) /\ Masking(y)
  <2>1. SuperLive(y) = SuperLive(x)
    BY DEF SuperLive
  <2> QED BY <2>1, <1>1 DEF Sound, Shaped, Rising, Masking
<1>16. ASSUME NEW e \in {0, 4, 6}, NEW d \in Live(y, e) PROVE FrameOk(y, e, d)
  BY <1>10, <1>13
<1> QED BY <1>5, <1>11, <1>12, <1>14, <1>15, <1>16 DEF Sound, Shaped, Placed

\* RTS: the return address is unstacked
LEMMA ReturnSound ==
    ASSUME NEW x, NEW y, NEW g, Shaped(x, Subroutine + 2), g \in Live(x, BankOf(x, x.sr)),
           Popped(x, y, BankOf(x, x.sr), g), y.sr = x.sr
    PROVE  Sound(y, g.f.pc)
<1> DEFINE b == BankOf(x, x.sr)
<1>9. Subroutine + 2 # Subroutine
  BY DEF Subroutine
<1>2. PICK h : /\ Live(x, b) = {h} /\ h.f.fmt = "ret" /\ h.n = 4
               /\ h.at = SpOf(x, b) /\ h.at = Banks[b] - 4
               /\ GuestPc(x, h.f.pc) /\ Counted(x, h.f.pc, 0)
  BY <1>9, CallStacks
<1>3. \A e \in {0, 4, 6} \ {b} : Live(x, e) = {} /\ SpOf(x, e) = Banks[e]
  BY CallStacks
<1>4. h = g
  BY <1>2
<1>5. b \in {0, 4, 6} /\ Banks[b] \in Int
  BY BankOfType, BanksInt
<1>6. \A e \in {0, 4, 6} : Live(y, e) = {} /\ SpOf(y, e) = Banks[e]
  <2>1. /\ \A e \in {0, 4, 6} : SpOf(y, e) = IF e = b THEN g.at + g.n ELSE SpOf(x, e)
        /\ \A e \in {0, 4, 6} : Live(y, e) = IF e = b THEN Live(x, e) \ {g} ELSE Live(x, e)
    BY DEF Popped
  <2> HIDE DEF b
  <2>2. g.at + g.n = Banks[b]
    BY <1>2, <1>4, <1>5
  <2> QED BY <1>2, <1>3, <1>4, <1>5, <2>1, <2>2
<1>7. Guested(x, y)
  BY DEF Popped
<1>8. GuestPc(y, g.f.pc) /\ Counted(y, g.f.pc, 0) /\ SrMasked(y, y.sr) = y.sr /\ ~y.astray
  <2>1. ~x.astray /\ SrMasked(x, x.sr) = x.sr
    BY DEF Shaped
  <2> QED BY <2>1, <1>2, <1>4, <1>7, GuestedSame DEF Guested
<1> QED BY <1>6, <1>8, GuestSound

----------------------------------------------------------------------------
(* The stacks behind the fields of the machine *)

\* y has the guest, the frames and the stack pointers of x
StackSame(x, y) ==
    /\ Guested(x, y) /\ y.stk = x.stk /\ y.owed = x.owed
    /\ \A b \in {0, 4, 6} : SpOf(y, b) = SpOf(x, b)
Alike(x, y) == StackSame(x, y) /\ y.sr = x.sr

\* The fields that say so
Verbatim(x, y) ==
    /\ y.cpu_type = x.cpu_type /\ y.prog = x.prog /\ y.data = x.data /\ y.astray = x.astray
    /\ y.dar = x.dar /\ y.sp = x.sp /\ y.sr = x.sr /\ y.stk = x.stk /\ y.owed = x.owed

\* y has the run state and the bus of x
Firm(x, y) == Same(x, y) /\ Steady(x, y)

LEMMA VerbatimAlike ==
    ASSUME NEW x, NEW y, Verbatim(x, y)
    PROVE  Alike(x, y)
<1>1. sp_index(y) = sp_index(x)
  BY DEF Verbatim, sp_index
<1> QED BY <1>1 DEF Verbatim, Alike, StackSame, Guested, SpOf

LEMMA StackSameTrans ==
    ASSUME NEW x, NEW y, NEW z, StackSame(x, y), StackSame(y, z)
    PROVE  StackSame(x, z)
  BY DEF StackSame, Guested

LEMMA FirmTrans ==
    ASSUME NEW x, NEW y, NEW z, Firm(x, y), Firm(y, z)
    PROVE  Firm(x, z)
  BY DEF Firm, Same, Steady

LEMMA HeldFirm ==
    ASSUME NEW x, NEW y, Held(x, y)
    PROVE  Firm(x, y)
  BY DEF Held, Firm, Steady

LEMMA SameLive ==
    ASSUME NEW x, NEW y, StackSame(x, y)
    PROVE  \A b \in {0, 4, 6} : Live(y, b) = Live(x, b)
  BY DEF StackSame, Live

\* y has the guest, the status register and the live frames of x
Resembles(x, y) ==
    /\ Guested(x, y) /\ y.sr = x.sr
    /\ \A b \in {0, 4, 6} : SpOf(y, b) = SpOf(x, b) /\ Live(y, b) = Live(x, b)

LEMMA ResemblesSound ==
    ASSUME NEW x, NEW y, Resembles(x, y), NEW pc
    PROVE  /\ Shaped(x, pc) => Shaped(y, pc)
           /\ Sound(x, pc) => Sound(y, pc)
           /\ SuperLive(y) = SuperLive(x)
<1>1. /\ Guested(x, y) /\ y.sr = x.sr /\ y.astray = x.astray
      /\ \A b \in {0, 4, 6} : SpOf(y, b) = SpOf(x, b)
  BY DEF Resembles, Guested
<1>2. \A b \in {0, 4, 6} : Live(y, b) = Live(x, b)
  BY DEF Resembles
<1>3. SuperLive(y) = SuperLive(x)
  BY <1>2 DEF SuperLive
<1>4. /\ \A sr : SrMasked(y, sr) = SrMasked(x, sr)
      /\ \A sr : OnMaster(y, sr) = OnMaster(x, sr)
      /\ \A p : GuestPc(y, p) = GuestPc(x, p)
      /\ \A fmt : FrameBytes(y, fmt) = FrameBytes(x, fmt)
      /\ RteFormats(y) = RteFormats(x) /\ is_pre_68020(y) = is_pre_68020(x)
  BY <1>1, GuestedSame
<1>5. ASSUME NEW p, NEW sr, NEW i, NEW k, Placed(x, p, sr, i, k)
      PROVE  Placed(y, p, sr, i, k)
  BY <1>1, <1>2, <1>5, PlacedMore
<1>6. ASSUME NEW b \in {0, 4, 6}, NEW c \in Live(x, b), FrameOk(x, b, c)
      PROVE  FrameOk(y, b, c)
  <2>1. SrMasked(y, c.f.sr) = c.f.sr /\ c.n = FrameBytes(y, c.f.fmt)
    BY <1>4, <1>6 DEF FrameOk
  <2>2. RetOk(x, b, c) => RetOk(y, b, c)
    BY <1>4 DEF RetOk
  <2>3. ThrowOk(x, c) => ThrowOk(y, c)
    BY <1>1, <1>2, <1>4 DEF ThrowOk
  <2>4. StdOk(x, b, c) => StdOk(y, b, c)
    <3>1. SpOf(y, 6) = SpOf(x, 6)
      BY <1>1
    <3> QED BY <1>4, <1>5, <3>1 DEF StdOk
  <2> QED BY <1>6, <2>1, <2>2, <2>3, <2>4 DEF FrameOk
<1>7. Shaped(x, pc) => Shaped(y, pc)
  <2> SUFFICES ASSUME Shaped(x, pc) PROVE Shaped(y, pc)
    OBVIOUS
  <2>1. ~y.astray /\ SrMasked(y, y.sr) = y.sr
    BY <1>1, <1>4 DEF Shaped
  <2>2. \A b \in {0, 4, 6} : Chained(Live(y, b), SpOf(y, b), Banks[b])
    BY <1>1, <1>2 DEF Shaped
  <2>3. \A b \in {0, 4, 6} : \A c \in Live(y, b) : FrameOk(y, b, c)
    BY <1>2, <1>6 DEF Shaped
  <2>4. Placed(y, pc, y.sr, SpOf(y, 4), SpOf(y, 6))
    <3>1. Placed(x, pc, x.sr, SpOf(x, 4), SpOf(x, 6))
      BY DEF Shaped
    <3>2. SpOf(y, 4) = SpOf(x, 4) /\ SpOf(y, 6) = SpOf(x, 6)
      BY <1>1
    <3> QED BY <1>1, <1>5, <3>1, <3>2
  <2>5. Rising(y)
    BY <1>3 DEF Shaped, Rising
  <2> QED BY <2>1, <2>2, <2>3, <2>4, <2>5 DEF Shaped
<1>8. Masking(x) => Masking(y)
  BY <1>1, <1>3 DEF Masking
<1> QED BY <1>3, <1>7, <1>8 DEF Sound

\* What is said of the stacks is said of machines that are alike
LEMMA AlikeSound ==
    ASSUME NEW x, NEW y, Alike(x, y), NEW pc
    PROVE  /\ Shaped(x, pc) => Shaped(y, pc)
           /\ Sound(x, pc) => Sound(y, pc)
           /\ OwedAt(x, pc) => OwedAt(y, pc)
<1>1. Resembles(x, y)
  BY SameLive DEF Alike, StackSame, Resembles
<1>2. SuperLive(y) = SuperLive(x) /\ y.owed = x.owed
  BY <1>1, ResemblesSound DEF Alike, StackSame
<1> QED BY <1>1, <1>2, ResemblesSound DEF OwedAt

LEMMA SameDeep ==
    ASSUME NEW x, NEW y, StackSame(x, y), NEW n
    PROVE  Deep(x, n) => Deep(y, n)
  BY DEF StackSame, Deep

----------------------------------------------------------------------------
(* Fields, banks and the queue *)

LEMMA FieldAlike ==
    ASSUME NEW x \in Machine, NEW v
    PROVE  /\ LET y == [x EXCEPT !.pc = v]
              IN  Alike(x, y) /\ Firm(x, y) /\ y.pc = v /\ y.queue = x.queue /\ y.ppc = x.ppc
                  /\ y.sr_save = x.sr_save /\ y.dar_save = x.dar_save
           /\ LET y == [x EXCEPT !.queue = v]
              IN  Alike(x, y) /\ Firm(x, y) /\ y.pc = x.pc /\ y.queue = v /\ y.ppc = x.ppc
                  /\ y.sr_save = x.sr_save /\ y.dar_save = x.dar_save
<1>1. ASSUME NEW y, y = [x EXCEPT !.pc = v] \/ y = [x EXCEPT !.queue = v]
      PROVE  Verbatim(x, y) /\ Firm(x, y) /\ y.ppc = x.ppc
             /\ y.sr_save = x.sr_save /\ y.dar_save = x.dar_save
  BY <1>1 DEF Machine, Verbatim, Firm, Same, Steady
<1>2. /\ [x EXCEPT !.pc = v].pc = v /\ [x EXCEPT !.pc = v].queue = x.queue
      /\ [x EXCEPT !.queue = v].pc = x.pc /\ [x EXCEPT !.queue = v].queue = v
  BY DEF Machine
<1> QED BY <1>1, <1>2, VerbatimAlike

\* The stack pointers survive a change of the bank that A7 stands for
LEMMA RebankStacks ==
    ASSUME NEW x \in Machine, NEW sr \in SR
    PROVE  LET y == Rebank(x, sr)
           IN  /\ StackSame(x, y) /\ Held(x, y) /\ y.sr = sr /\ y.pc = x.pc /\ y.ppc = x.ppc
               /\ y \in Machine
<1> DEFINE i == sp_index(x)
           saved == [x EXCEPT !.sp[i] = x.dar.a7, !.sr = sr]
           j == sp_index(saved)
           a == saved.sp[j]
           y == [saved EXCEPT !.dar.a7 = a]
<1>1. i \in {0, 4, 6}
  BY SpIndexType
<1>2. /\ saved.cpu_type = x.cpu_type /\ saved.prog = x.prog /\ saved.data = x.data
      /\ saved.dar = x.dar /\ saved.astray = x.astray /\ saved.stk = x.stk
      /\ saved.owed = x.owed /\ saved.sr = sr /\ saved.ppc = x.ppc
      /\ \A b \in {0, 4, 6} : saved.sp[b] = IF b = i THEN x.dar.a7 ELSE x.sp[b]
  <2> HIDE DEF i
  <2> QED BY <1>1 DEF Machine
<1>3. saved \in Machine
  <2>1. x.dar.a7 \in Int
    BY DEF Machine, Registers
  <2> HIDE DEF i
  <2> QED BY <1>1, <2>1 DEF Machine
<1>4. Rebank(x, sr) = y
  BY DEF Rebank
<1> HIDE DEF saved
<1>5. /\ y.cpu_type = saved.cpu_type /\ y.prog = saved.prog /\ y.data = saved.data
      /\ y.dar.r = saved.dar.r /\ y.dar.a7 = a /\ y.astray = saved.astray /\ y.stk = saved.stk
      /\ y.owed = saved.owed /\ y.sr = saved.sr /\ y.sp = saved.sp /\ y.ppc = saved.ppc
  <2> HIDE DEF a
  <2> QED BY <1>3 DEF Machine, Registers
<1>6. sp_index(y) = j
  <2> HIDE DEF y
  <2> QED BY <1>5 DEF sp_index
<1> HIDE DEF y
<1>7. \A b \in {0, 4, 6} : SpOf(y, b) = saved.sp[b]
  <2> HIDE DEF j
  <2> QED BY <1>5, <1>6 DEF SpOf
<1>8. \A b \in {0, 4, 6} : SpOf(x, b) = IF b = i THEN x.dar.a7 ELSE x.sp[b]
  BY DEF SpOf
<1> HIDE DEF i, j, a
<1>9. StackSame(x, y)
  BY <1>2, <1>5, <1>7, <1>8 DEF StackSame, Guested
<1> QED BY <1>2, <1>4, <1>5, <1>9, RebankHeld

\* Every exception entry keeps the stacks and goes to supervisor state
LEMMA EnterSupervisorStacks ==
    ASSUME NEW x \in Machine
    PROVE  LET y == EnterSupervisor(x)
           IN  /\ StackSame(x, y) /\ Held(x, y) /\ y.pc = x.pc /\ y.ppc = x.ppc /\ y \in Machine
               /\ y.sr \in SR /\ y.sr.s /\ ~y.sr.t1 /\ ~y.sr.t0
               /\ y.sr.m = x.sr.m /\ y.sr.i = x.sr.i
<1> DEFINE up == [x.sr EXCEPT !.s = TRUE]
           r == Rebank(x, up)
           sr == [r.sr EXCEPT !.t1 = FALSE, !.t0 = FALSE]
           y == [r EXCEPT !.sr = sr]
<1>1. up \in SR /\ up.s /\ up.m = x.sr.m /\ up.i = x.sr.i
  BY DEF Machine, SR
<1> HIDE DEF up
<1>2. StackSame(x, r) /\ Held(x, r) /\ r.sr = up /\ r.pc = x.pc /\ r.ppc = x.ppc /\ r \in Machine
  BY <1>1, RebankStacks
<1>3. EnterSupervisor(x) = y
  BY DEF EnterSupervisor, Untraced, set_s_flag, up
<1> HIDE DEF r
<1>4. sr \in SR /\ sr.s /\ ~sr.t1 /\ ~sr.t0 /\ sr.m = up.m /\ sr.i = up.i
  BY <1>1, <1>2 DEF SR
<1>5. /\ y.sr = sr /\ y.ppc = r.ppc /\ y.pc = r.pc /\ y.stk = r.stk /\ y.owed = r.owed
      /\ y.sp = r.sp /\ y.dar = r.dar /\ Guested(r, y)
  <2> HIDE DEF sr
  <2> QED BY <1>2 DEF Machine, Guested
<1>6. sp_index(y) = sp_index(r)
  <2>1. y.cpu_type = r.cpu_type
    BY <1>5 DEF Guested
  <2>2. sr.s = r.sr.s /\ sr.m = r.sr.m
    BY <1>1, <1>2, <1>4
  <2> HIDE DEF y, sr
  <2> QED BY <1>5, <2>1, <2>2 DEF sp_index
<1>7. StackSame(r, y)
  <2> HIDE DEF y
  <2> QED BY <1>5, <1>6 DEF StackSame, SpOf
<1>8. Held(x, y) /\ y \in Machine
  BY <1>3, EnterSupervisorHeld
<1>9. StackSame(x, y)
  <2> HIDE DEF y
  <2> QED BY <1>2, <1>7, StackSameTrans
<1> HIDE DEF y, sr
<1> QED BY <1>1, <1>2, <1>3, <1>4, <1>5, <1>8, <1>9

\* The exception table and the supervisor stacks are there; the 68000 and the 68010
\* may miss data only, and the 68000 not that; and where the code may be missing,
\* the guest does not stop
Mild(x) ==
    /\ x.bad \cap {"isp", "msp", "vec"} = {}
    /\ prefetch_enabled(x) => x.bad \subseteq {"data"}
    /\ x.cpu_type = "M68000" => x.bad = {}
    /\ x.bad \subseteq {"data", "user"} \/ \A w \in UserCode : x.prog[w] \notin Stops

LEMMA MildSame == ASSUME NEW x, NEW y, Same(x, y), Mild(x) PROVE Mild(y)
  BY DEF Same, Mild, prefetch_enabled

LEMMA MildFill ==
    ASSUME NEW x \in Machine, Mild(x), ~faulted(x)
    PROVE  /\ FullPrefetch(x, DoubleFault) = Refilled(x)
           /\ full_prefetch(x) = Refilled(x)
<1>1. CASE prefetch_enabled(x)
  <2>1. Refusals(x, x.bad)
    BY <1>1 DEF Mild, Refusals
  <2> QED BY <2>1, PrefetchQuiet
<1>2. CASE ~prefetch_enabled(x)
  <2>1. Refilled(x) = x
    BY <1>2 DEF Refilled, RefillOf, Machine
  <2> QED BY <1>2, <2>1 DEF FullPrefetch, full_prefetch, PrefetchFirst, PrefetchSecond,
                            prefetch_first, prefetch_second
<1> QED BY <1>1, <1>2

LEMMA RefilledAlike ==
    ASSUME NEW x \in Machine
    PROVE  LET y == Refilled(x)
           IN  Alike(x, y) /\ Firm(x, y) /\ y.pc = x.pc /\ y \in Machine
               /\ y.ppc = x.ppc /\ y.sr_save = x.sr_save /\ y.dar_save = x.dar_save
<1>1. Refilled(x) \in Machine
  BY RefilledFacts
<1> DEFINE q == RefillOf(x)
<1> HIDE DEF q
<1>2. Refilled(x) = [x EXCEPT !.queue = q]
  BY DEF Refilled, q
<1> DEFINE y == [x EXCEPT !.queue = q]
<1>3. Alike(x, y) /\ Firm(x, y) /\ y.pc = x.pc /\ y.ppc = x.ppc
      /\ y.sr_save = x.sr_save /\ y.dar_save = x.dar_save
  BY FieldAlike
<1> HIDE DEF y
<1> QED BY <1>1, <1>2, <1>3 DEF y

\* The jump through the vector table
LEMMA Vectored ==
    ASSUME NEW x \in Machine, Mild(x), ~faulted(x), NEW v \in Nat, NEW y,
           y = JumpVector(x, v, DoubleFault) \/ y = jump_vector(x, v)
    PROVE  Alike(x, y) /\ Firm(x, y) /\ y.pc = Handler(v) /\ y \in Machine
<1> DEFINE r == [x EXCEPT !.pc = Handler(v)]
<1>1. /\ JumpVector(x, v, DoubleFault) = FullPrefetch(r, DoubleFault)
      /\ jump_vector(x, v) = full_prefetch(r)
  BY DEF Mild, JumpVector, jump_vector, full_prefetch, FullPrefetch, prefetch_first, prefetch_second
<1>2. Handler(v) \in Int
  BY ConstantTypes
<1>3. Alike(x, r) /\ Firm(x, r) /\ r.pc = Handler(v) /\ r \in Machine
  BY <1>2, FieldAlike, SetPcKeeps DEF Keeps
<1> HIDE DEF r
<1>4. Mild(r) /\ ~faulted(r)
  BY <1>3, MildSame DEF Firm, Steady, faulted
<1>5. y = Refilled(r)
  BY <1>1, <1>3, <1>4, MildFill
<1>6. Alike(r, y) /\ Firm(r, y) /\ y.pc = r.pc /\ y \in Machine
  BY <1>3, <1>5, RefilledAlike
<1>7. Alike(x, y)
  BY <1>3, <1>6, StackSameTrans DEF Alike
<1> QED BY <1>3, <1>6, <1>7, FirmTrans

----------------------------------------------------------------------------
(* A frame stored *)

LEMMA IndexBank == ASSUME NEW x PROVE sp_index(x) = BankOf(x, x.sr)
  BY DEF sp_index, BankOf, OnMaster

LEMMA FrameSizes ==
    ASSUME NEW x, NEW fmt \in WholeFormats
    PROVE  FrameBytes(x, fmt) \in 1..92
  BY DEF WholeFormats, Formats, FrameBytes

\* An interrupt is taken above the mask it stacks
Tidy(x) == \A c \in x.stk : c.n > 0 /\ (IntCell(c) => c.f.sr.i < c.f.vec - 24)

CellOf(x, f) == [at |-> x.dar.a7 - FrameBytes(x, f.fmt), n |-> FrameBytes(x, f.fmt), f |-> f]

LEMMA CellOfType ==
    ASSUME NEW x \in Machine, NEW f \in FrameSet, f.fmt \in WholeFormats
    PROVE  LET c == CellOf(x, f)
           IN  /\ c \in Cell /\ c.n > 0 /\ c.n <= 92 /\ c.at = x.dar.a7 - c.n /\ c.f = f
               /\ c.n = FrameBytes(x, f.fmt)
<1> DEFINE n == FrameBytes(x, f.fmt)
<1>1. n \in 1..92 /\ x.dar.a7 \in Int
  BY FrameSizes DEF Machine, Registers
<1> HIDE DEF n
<1>2. CellOf(x, f) = [at |-> x.dar.a7 - n, n |-> n, f |-> f]
  BY DEF CellOf, n
<1> QED BY <1>1, <1>2 DEF Cell, n

\* A frame stored is live on the bank of A7 and covers nothing live
LEMMA StorePushed ==
    ASSUME NEW x \in Machine, NEW f \in FrameSet, f.fmt \in WholeFormats \ {"group0"},
           \A b \in {0, 4, 6} : Chained(Live(x, b), SpOf(x, b), Banks[b]),
           Deep(x, 900), \A c \in x.stk : c.n > 0
    PROVE  LET y == Store(x, f)
               c == CellOf(x, f)
           IN  /\ Pushed(x, y, BankOf(x, x.sr), c)
               /\ y.stk \subseteq x.stk \cup {c} /\ y.owed = x.owed
               /\ Held(x, y) /\ y.sr = x.sr /\ y.pc = x.pc /\ y.ppc = x.ppc /\ y \in Machine
               /\ y.sr_save = x.sr_save /\ y.dar_save = x.dar_save /\ y.sp = x.sp
<1> DEFINE b == BankOf(x, x.sr)
           c == CellOf(x, f)
           n == c.n
           a == c.at
           kept == { d \in x.stk : ~Overlaps(d, a, n) }
           s == kept \cup {c}
           z == [x EXCEPT !.dar.a7 = a, !.stk = s]
           y == Store(x, f)
<1>1. b \in {0, 4, 6} /\ b = sp_index(x)
  BY BankOfType, IndexBank
<1>2. /\ c \in Cell /\ n \in 1..92 /\ a = x.dar.a7 - n /\ x.dar.a7 \in Int /\ a \in Int
      /\ n = FrameBytes(x, f.fmt) /\ c = [at |-> a, n |-> n, f |-> f]
  <2>1. /\ c \in Cell /\ c.at = x.dar.a7 - c.n /\ c.f = f /\ c.n = FrameBytes(x, f.fmt)
        /\ x.dar.a7 \in Int
    BY CellOfType DEF Machine, Registers
  <2>2. c.n \in 1..92
    BY <2>1, FrameSizes
  <2> HIDE DEF c
  <2>3. c = [at |-> c.at, n |-> c.n, f |-> c.f]
    BY <2>1 DEF Cell
  <2> QED BY <2>1, <2>2, <2>3
<1>3. y = z
  <2>1. x.dar.a7 - FrameBytes(x, f.fmt) = a /\ FrameBytes(x, f.fmt) = n /\ f.fmt # "group0"
    BY <1>2
  <2>2. [at |-> a, n |-> n, f |-> f] = c
    BY <1>2
  <2> HIDE DEF a, n, c
  <2> QED BY <2>1, <2>2 DEF Store
<1>4. Held(x, y) /\ y.sr = x.sr /\ y.pc = x.pc /\ y \in Machine
  BY StoreHeld
<1> HIDE DEF y
<1>5. /\ z.cpu_type = x.cpu_type /\ z.prog = x.prog /\ z.data = x.data /\ z.astray = x.astray
      /\ z.dar.r = x.dar.r /\ z.dar.a7 = a /\ z.stk = s /\ z.owed = x.owed
      /\ z.sp = x.sp /\ z.ppc = x.ppc /\ z.sr_save = x.sr_save /\ z.dar_save = x.dar_save
  <2> HIDE DEF a, s
  <2>1. z.dar.r = x.dar.r /\ z.dar.a7 = a
    BY DEF Machine, Registers
  <2>2. /\ z.cpu_type = x.cpu_type /\ z.prog = x.prog /\ z.data = x.data /\ z.astray = x.astray
        /\ z.owed = x.owed /\ z.sp = x.sp /\ z.ppc = x.ppc
    BY DEF Machine
  <2>3. z.sr_save = x.sr_save /\ z.dar_save = x.dar_save
    BY DEF Machine
  <2>4. z.stk = s
    BY DEF Machine
  <2> QED BY <2>1, <2>2, <2>3, <2>4
<1> HIDE DEF z
<1>6. sp_index(y) = sp_index(x)
  BY <1>3, <1>4, <1>5 DEF sp_index
<1>7. \A e \in {0, 4, 6} : SpOf(y, e) = IF e = b THEN a ELSE SpOf(x, e)
  <2> HIDE DEF b, a
  <2> QED BY <1>1, <1>3, <1>5, <1>6 DEF SpOf
<1>8. a + n = SpOf(x, b)
  <2> HIDE DEF b, a, n
  <2> QED BY <1>1, <1>2 DEF SpOf
<1>p. /\ \A e \in {0, 4, 6} : SpOf(x, e) \in Int /\ Live(x, e) \subseteq Cell
      /\ SpOf(x, 0) <= 1000 /\ SpOf(x, 4) <= 2000 /\ SpOf(x, 6) <= 3000
      /\ SpOf(x, 4) >= 1100 /\ SpOf(x, 6) >= 2100
      /\ \A d \in Live(x, 0) : d.at + d.n <= 1000
      /\ \A d \in Live(x, 4) : d.at + d.n <= 2000 /\ d.at >= 1100
      /\ \A d \in Live(x, 6) : d.at >= 2100
  <2>1. \A e \in {0, 4, 6} : SpOf(x, e) \in Int /\ Live(x, e) \subseteq Cell
    BY DEF Chained
  <2>2. \A e \in {0, 4, 6} : \A d \in Live(x, e) : SpOf(x, e) <= d.at /\ d.at + d.n <= Banks[e]
    BY DEF Chained
  <2>3. \A e \in {0, 4, 6} : SpOf(x, e) <= Banks[e]
    BY DEF Chained
  <2>4. SpOf(x, 4) >= 1100 /\ SpOf(x, 6) >= 2100
    BY <2>1 DEF Deep, IspBase, MspBase
  <2>5. ASSUME NEW e \in {0, 4, 6}, NEW d \in Live(x, e) PROVE d.at \in Int
    BY <2>1 DEF Cell
  <2> QED BY <2>1, <2>2, <2>3, <2>4, <2>5, BankFacts
<1>9. StackRegion(a) = BankRegion(b)
  <2> HIDE DEF a, n, b
  <2> QED BY <1>1, <1>2, <1>8, <1>p DEF StackRegion, BankRegion, IspBase, UserBase
<1>10. ASSUME NEW e \in {0, 4, 6}, NEW d \in Live(x, e) PROVE d \in kept
  <2>1. d \in x.stk /\ d.at \in Int /\ d.n \in Nat /\ d.at >= SpOf(x, e)
    BY <1>p DEF Live, Cell
  <2>2. d.at >= a + n \/ d.at + d.n <= a
    <3>1. CASE e = b
      <4> HIDE DEF a, n, b
      <4> QED BY <3>1, <2>1, <1>8
    <3>2. CASE e # b
      <4> HIDE DEF a, n, b
      <4> QED BY <3>2, <2>1, <1>1, <1>2, <1>8, <1>p
    <3> QED BY <3>1, <3>2
  <2> HIDE DEF a, n
  <2> QED BY <1>2, <2>1, <2>2 DEF Overlaps
<1>11. ASSUME NEW e \in {0, 4, 6} PROVE Live(y, e) = IF e = b THEN Live(x, e) \cup {c} ELSE Live(x, e)
  <2>1. y.stk = kept \cup {c}
    BY <1>3, <1>5
  <2>2. kept \subseteq x.stk
    OBVIOUS
  <2>3. CASE e = b
    <3>1. ASSUME NEW d \in kept, d.at >= a PROVE d.at >= SpOf(x, b)
      <4>1. ~Overlaps(d, a, n) /\ d.at \in Int /\ d.n \in Nat /\ d.n > 0
        BY DEF Machine
      <4> HIDE DEF a, n, b, kept
      <4> QED BY <4>1, <3>1, <1>2, <1>8 DEF Overlaps
    <3>2. ASSUME NEW d \in x.stk, d.at >= SpOf(x, b) PROVE d.at >= a
      <4>1. d.at \in Int
        BY DEF Machine
      <4> HIDE DEF a, n, b
      <4> QED BY <4>1, <3>2, <1>2, <1>8
    <3>3. c.at >= a
      BY <1>2
    <3>4. SpOf(y, b) = a
      BY <1>1, <1>7
    <3> HIDE DEF b, kept, y
    <3>5. ASSUME NEW d \in Live(y, b) PROVE d \in Live(x, b) \cup {c}
      BY <3>1, <3>4, <2>1, <2>2 DEF Live
    <3>6. ASSUME NEW d \in Live(x, b) PROVE d \in Live(y, b)
      BY <3>2, <3>4, <2>1, <2>3, <1>10 DEF Live
    <3>7. c \in Live(y, b)
      BY <3>3, <3>4, <2>1, <1>9 DEF Live
    <3> QED BY <2>3, <3>5, <3>6, <3>7
  <2>4. CASE e # b
    <3>1. SpOf(y, e) = SpOf(x, e)
      BY <2>4, <1>7
    <3>2. StackRegion(c.at) # BankRegion(e)
      <4> HIDE DEF b
      <4> QED BY <1>1, <1>9, <2>4 DEF BankRegion
    <3> HIDE DEF b, kept, y
    <3>3. ASSUME NEW d \in Live(y, e) PROVE d \in Live(x, e)
      BY <3>1, <3>2, <2>1, <2>2 DEF Live
    <3>4. ASSUME NEW d \in Live(x, e) PROVE d \in Live(y, e)
      BY <3>1, <2>1, <1>10 DEF Live
    <3> QED BY <2>4, <3>3, <3>4
  <2> QED BY <2>3, <2>4
<1>12. Guested(x, y)
  BY <1>3, <1>5 DEF Guested
<1>13. c.at = SpOf(x, b) - c.n
  <2> HIDE DEF b
  <2> QED BY <1>2, <1>8
<1>14. Pushed(x, y, b, c)
  BY <1>2, <1>7, <1>11, <1>12, <1>13 DEF Pushed
<1>15. y.stk \subseteq x.stk \cup {c} /\ y.owed = x.owed /\ y.ppc = x.ppc
       /\ y.sr_save = x.sr_save /\ y.dar_save = x.dar_save /\ y.sp = x.sp
  BY <1>3, <1>5
<1> QED BY <1>4, <1>14, <1>15 DEF y

----------------------------------------------------------------------------
(* Exception entry *)

\* A machine on which code can go on at pc, with at most d bytes stacked
Stands(x, pc, d) ==
    /\ x \in Machine /\ Mild(x) /\ ~faulted(x)
    /\ Sound(x, pc) /\ OwedAt(x, pc) /\ Tidy(x) /\ Deep(x, d)

LEMMA StandsAlike ==
    ASSUME NEW x, NEW pc, NEW d, Stands(x, pc, d),
           NEW y \in Machine, Alike(x, y), y.bad = x.bad, ~faulted(y)
    PROVE  Stands(y, pc, d)
<1>1. Sound(y, pc) /\ OwedAt(y, pc)
  BY AlikeSound DEF Stands
<1>2. Tidy(y)
  BY DEF Stands, Tidy, Alike, StackSame
<1>3. Deep(y, d)
  BY SameDeep DEF Stands, Alike
<1>4. Mild(y)
  BY DEF Stands, Alike, StackSame, Guested, Mild, prefetch_enabled
<1> QED BY <1>1, <1>2, <1>3, <1>4 DEF Stands

LEMMA StandsDeeper ==
    ASSUME NEW x, NEW pc, NEW d \in Int, Stands(x, pc, d), NEW e \in Int, d <= e
    PROVE  Stands(x, pc, e)
<1>1. SpOf(x, 4) \in Int /\ SpOf(x, 6) \in Int
  BY DEF Stands, Sound, Shaped, Chained
<1> QED BY <1>1 DEF Stands, Deep, IspBase, MspBase

LEMMA MaskedIff ==
    ASSUME NEW x, NEW sr \in SR
    PROVE  SrMasked(x, sr) = sr <=> /\ sr.m => sr.s /\ ~is_pre_68020(x)
                                    /\ sr.t0 => ~is_pre_68020(x) /\ x.cpu_type # "M68060"
<1> DEFINE p == is_pre_68020(x)
           q == x.cpu_type # "M68060"
<1>1. SrMasked(x, sr) = [sr EXCEPT !.m = @ /\ sr.s /\ ~p, !.t0 = @ /\ ~p /\ q]
  BY DEF SrMasked
<1>2. /\ SrMasked(x, sr).m = (sr.m /\ sr.s /\ ~p) /\ SrMasked(x, sr).t0 = (sr.t0 /\ ~p /\ q)
      /\ SrMasked(x, sr).s = sr.s /\ SrMasked(x, sr).t1 = sr.t1 /\ SrMasked(x, sr).i = sr.i
  <2> HIDE DEF p, q
  <2> QED BY <1>1 DEF SR
<1>3. /\ SrMasked(x, sr) = [s |-> SrMasked(x, sr).s, m |-> SrMasked(x, sr).m, t1 |-> SrMasked(x, sr).t1,
                            t0 |-> SrMasked(x, sr).t0, i |-> SrMasked(x, sr).i]
      /\ sr = [s |-> sr.s, m |-> sr.m, t1 |-> sr.t1, t0 |-> sr.t0, i |-> sr.i]
  <2> HIDE DEF p, q
  <2> QED BY <1>1 DEF SR
<1>4. sr.m \in BOOLEAN /\ sr.t0 \in BOOLEAN /\ sr.s \in BOOLEAN
  BY DEF SR
<1>5. p \in BOOLEAN /\ q \in BOOLEAN
  BY DEF is_pre_68020
<1> DEFINE z == SrMasked(x, sr)
<1>6. (z.m = sr.m /\ z.t0 = sr.t0) <=> z = sr
  <2> HIDE DEF z, p, q
  <2> QED BY <1>2, <1>3 DEF z
<1>7. (z.m = sr.m) <=> (sr.m => sr.s /\ ~p)
  <2> HIDE DEF p, q
  <2> QED BY <1>2, <1>4, <1>5
<1>8. (z.t0 = sr.t0) <=> (sr.t0 => ~p /\ q)
  <2> HIDE DEF p, q
  <2> QED BY <1>2, <1>4, <1>5
<1> QED BY <1>6, <1>7, <1>8

\* s is x in supervisor state, where an exception of vector v is stacked in a frame fmt
Vectors(x, s, fmt, v) ==
    /\ s \in Machine /\ StackSame(x, s) /\ Firm(x, s)
    /\ s.sr \in SR /\ s.sr.s /\ ~s.sr.t0 /\ s.sr.m = x.sr.m /\ s.sr.i >= x.sr.i
    /\ fmt \in RteFormats(x) /\ fmt # "1"
    /\ v \in Nat /\ v > 0 /\ (x.cpu_type = "M68000" => v \notin {2, 3})
    /\ v \in 25..30 => s.sr.i >= v - 24 /\ x.sr.i < v - 24

\* y is x with that frame on the stack of its mode, not yet at the handler
Stacked(x, s, v, d, y) ==
    /\ Stands(y, Handler(v), d) /\ Firm(x, y) /\ y.sr = s.sr /\ y.owed = x.owed
    /\ \E c \in Live(y, BankOf(y, y.sr)) : c.at = SpOf(y, BankOf(y, y.sr)) /\ Std(c)

\* The frame of an exception is stacked, and its handler can run
LEMMA FrameStacked ==
    ASSUME NEW x, NEW pc \in Int, NEW d \in 0..800, Stands(x, pc, d),
           NEW s, NEW fmt, NEW v, Vectors(x, s, fmt, v),
           NEW y, y = PushFrame(s, Frame(fmt, v, pc, x.sr)) \/ y = PushFaultFrame(s, Frame(fmt, v, pc, x.sr))
    PROVE  Stacked(x, s, v, d + 92, y)
<1>v. /\ s \in Machine /\ StackSame(x, s) /\ Firm(x, s)
      /\ s.sr \in SR /\ s.sr.s /\ ~s.sr.t0 /\ s.sr.m = x.sr.m /\ s.sr.i >= x.sr.i
      /\ fmt \in RteFormats(x) /\ fmt # "1"
      /\ v \in Nat /\ v > 0 /\ (x.cpu_type = "M68000" => v \notin {2, 3})
      /\ v \in 25..30 => s.sr.i >= v - 24 /\ x.sr.i < v - 24
  BY DEF Vectors
<1> USE <1>v
<1> DEFINE f == Frame(fmt, v, pc, x.sr)
           w == Store(s, f)
           c == CellOf(s, f)
           b == BankOf(s, s.sr)
<1>1. /\ x \in Machine /\ x.sr \in SR /\ Mild(x) /\ ~faulted(x)
      /\ Sound(x, pc) /\ OwedAt(x, pc) /\ Tidy(x) /\ Deep(x, d) /\ Shaped(x, pc)
  BY DEF Stands, Machine, Sound
<1>2. fmt \in WholeFormats \ {"group0"} /\ fmt # "ret"
  <2>1. fmt \in WholeFormats
    BY <1>1, RteFormatsType
  <2> QED BY <2>1 DEF RteFormats
<1>3. f \in FrameSet /\ f.fmt = fmt /\ f.vec = v /\ f.pc = pc /\ f.sr = x.sr
  BY <1>1, <1>2, FrameType DEF Frame, WholeFormats
<1>4. /\ \A e \in {0, 4, 6} : SpOf(s, e) = SpOf(x, e) /\ Live(s, e) = Live(x, e)
      /\ Guested(x, s) /\ s.stk = x.stk /\ s.owed = x.owed
  BY SameLive DEF StackSame
<1>5. /\ \A e \in {0, 4, 6} : Chained(Live(s, e), SpOf(s, e), Banks[e])
      /\ \A e \in {0, 4, 6} : SpOf(s, e) \in Int
      /\ Deep(s, 900) /\ \A e \in s.stk : e.n > 0
  <2>1. \A e \in {0, 4, 6} : Chained(Live(s, e), SpOf(s, e), Banks[e])
    BY <1>1, <1>4 DEF Shaped
  <2>2. \A e \in {0, 4, 6} : SpOf(s, e) \in Int
    BY <2>1 DEF Chained
  <2>3. SpOf(s, 4) >= 2000 - d /\ SpOf(s, 6) >= 3000 - d
    BY <1>1, <1>4 DEF Deep, IspBase, MspBase
  <2> QED BY <1>1, <1>4, <2>1, <2>2, <2>3 DEF Tidy, Deep, IspBase, MspBase
<1>6. /\ Pushed(s, w, b, c)
      /\ w.stk \subseteq s.stk \cup {c} /\ w.owed = s.owed
      /\ Held(s, w) /\ w.sr = s.sr /\ w \in Machine
  BY <1>2, <1>3, <1>5, StorePushed
<1>7. /\ c \in Cell /\ c.n > 0 /\ c.n <= 92 /\ c.f = f /\ c.n = FrameBytes(s, fmt)
  BY <1>2, <1>3, CellOfType
<1> HIDE DEF w, c, f
<1>8. Guested(s, w) /\ BankOf(w, w.sr) = b /\ BankOf(x, s.sr) = b
  <2>1. Guested(s, w)
    BY <1>6 DEF Pushed
  <2> QED BY <2>1, <1>4, <1>6, GuestedSame
<1>9. Pushed(x, w, b, c)
  <2>1. b \in {0, 4, 6}
    BY BankOfType
  <2>2. Guested(x, w)
    BY <1>4, <1>8 DEF Guested
  <2> HIDE DEF b
  <2> QED BY <1>4, <1>6, <2>1, <2>2 DEF Pushed
<1>10. b \in {4, 6}
  BY DEF BankOf
<1>11. BankOf(x, x.sr) = 0 => ~x.sr.m
  <2>1. SrMasked(x, x.sr) = x.sr
    BY <1>1 DEF Shaped
  <2> QED BY <1>1, <2>1, MaskedIff DEF BankOf
<1>12. SrMasked(w, w.sr) = w.sr
  <2>1. SrMasked(x, x.sr) = x.sr
    BY <1>1 DEF Shaped
  <2>2. x.sr.m => ~is_pre_68020(x)
    BY <1>1, <2>1, MaskedIff
  <2>3. is_pre_68020(w) = is_pre_68020(x)
    BY <1>4, <1>8 DEF Guested, is_pre_68020
  <2> QED BY <1>6, <2>2, <2>3, MaskedIff
<1>13. HandlerPc(x, Handler(v))
  <2>1. Handler(v) = 400 + 4 * v /\ Handler(v) \in Int /\ Handler(0) = 400
    BY DEF Handler
  <2>2. Handler(v) % 4 = 0 /\ Handler(v) > 400
    BY <2>1
  <2>3. Handler(BUS_ERROR) = 408 /\ Handler(ADDRESS_ERROR) = 412
    BY DEF Handler, BUS_ERROR, ADDRESS_ERROR
  <2> QED BY <2>1, <2>2, <2>3 DEF HandlerPc, Group0Handler
<1>14. Std(c) /\ IntCell(c) => w.sr.i >= c.f.vec - 24 /\ c.f.sr.i < c.f.vec - 24
  BY <1>3, <1>6, <1>7 DEF IntCell
<1>15. Std(c)
  BY <1>2, <1>3, <1>7 DEF Std
<1>16. Sound(w, Handler(v))
  <2>1. c.n = FrameBytes(x, c.f.fmt)
    BY <1>3, <1>4, <1>7, GuestedSame
  <2>2. c.f.pc = pc /\ c.f.sr = x.sr /\ c.f.fmt \in RteFormats(x)
    BY <1>3, <1>7
  <2>3. Sound(x, c.f.pc)
    BY <1>1, <2>2
  <2>4. Pushed(x, w, BankOf(w, w.sr), c)
    BY <1>8, <1>9
  <2>5. w.sr \in SR /\ w.sr.s /\ w.sr.m = x.sr.m /\ w.sr.i >= x.sr.i
    BY <1>6
  <2> HIDE DEF b
  <2> QED BY <1>1, <1>11, <1>12, <1>13, <1>14, <1>15, <2>1, <2>2, <2>3, <2>4, <2>5, PushSound
<1>17. \A e \in {0, 4, 6} : /\ SpOf(w, e) = IF e = b THEN c.at ELSE SpOf(x, e)
                            /\ Live(w, e) = IF e = b THEN Live(x, e) \cup {c} ELSE Live(x, e)
  BY <1>9 DEF Pushed
<1>18. OwedAt(w, Handler(v))
  <2> SUFFICES ASSUME NEW l \in w.owed
               PROVE  \E e \in SuperLive(w) : Std(e) /\ e.f.pc = Handler(24 + l)
    BY DEF OwedAt
  <2>1. l \in x.owed
    BY <1>4, <1>6
  <2>2. SuperLive(x) \subseteq SuperLive(w) /\ c \in SuperLive(w)
    <3> HIDE DEF b
    <3> QED BY <1>10, <1>17 DEF SuperLive
  <2>3. c.f.pc = pc
    BY <1>3, <1>7
  <2> QED BY <1>1, <1>15, <2>1, <2>2, <2>3 DEF OwedAt
<1>19. Deep(w, d + 92)
  <2>1. c.at = SpOf(x, b) - c.n /\ c.n \in Int
    BY <1>7, <1>9 DEF Pushed, Cell
  <2>2. SpOf(x, 4) >= 2000 - d /\ SpOf(x, 6) >= 3000 - d /\ SpOf(x, 4) \in Int /\ SpOf(x, 6) \in Int
    BY <1>1, <1>4, <1>5 DEF Deep, IspBase, MspBase
  <2>3. /\ SpOf(w, 4) = IF b = 4 THEN c.at ELSE SpOf(x, 4)
        /\ SpOf(w, 6) = IF b = 6 THEN c.at ELSE SpOf(x, 6)
    <3> HIDE DEF b
    <3> QED BY <1>17
  <2> HIDE DEF b
  <2>4. SpOf(w, 4) >= 2000 - (d + 92) /\ SpOf(w, 6) >= 3000 - (d + 92)
    BY <1>7, <1>10, <2>1, <2>2, <2>3
  <2> QED BY <2>4 DEF Deep, IspBase, MspBase
<1>20. Tidy(w)
  <2>1. \A e \in w.stk : e \in x.stk \/ e = c
    BY <1>4, <1>6
  <2> QED BY <1>1, <1>7, <1>14, <1>15, <2>1 DEF Tidy
<1>21. Firm(x, w)
  BY <1>6, HeldFirm, FirmTrans
<1>22. Mild(w) /\ ~faulted(w)
  BY <1>1, <1>21, MildSame DEF Firm, Steady, faulted
<1>23. PushFrame(s, f) = w /\ PushFaultFrame(s, f) = w
  <2>1. ~faulted(s) /\ Mild(s)
    BY <1>1, MildSame DEF Firm, Steady, faulted
  <2>2. s.dar.a7 = SpOf(x, b) /\ s.dar.a7 \in Int
    <3>1. b = sp_index(s)
      BY IndexBank
    <3>2. SpOf(s, b) = s.dar.a7
      BY <3>1 DEF SpOf
    <3> QED BY <1>4, <1>10, <3>2 DEF Machine, Registers
  <2>3. s.dar.a7 - 1 > 1000
    <3>1. SpOf(x, 4) > 1001 /\ SpOf(x, 6) > 1001
      BY <1>4, <1>5 DEF Deep, IspBase, MspBase
    <3> HIDE DEF b
    <3> QED BY <1>10, <2>2, <3>1
  <2>4. StackRegion(s.dar.a7 - 1) \notin s.bad
    BY <2>1, <2>3 DEF StackRegion, Mild, UserBase
  <2> QED BY <2>1, <2>4 DEF PushFrame, PushFaultFrame, Push, PushRaw, w
<1>24. \E e \in Live(w, BankOf(w, w.sr)) : e.at = SpOf(w, BankOf(w, w.sr)) /\ Std(e)
  <2> HIDE DEF b
  <2> QED BY <1>8, <1>10, <1>15, <1>17
<1> QED BY <1>4, <1>6, <1>16, <1>18, <1>19, <1>20, <1>21, <1>22, <1>23, <1>24 DEF Stands, Stacked, w, f

\* z is x at the handler of vector v
Handles(x, z, v, d) ==
    /\ Stands(z, Handler(v), d) /\ z.pc = Handler(v) /\ z.sr.s /\ z.owed = x.owed
    /\ Firm(x, z)

\* z has stacked the frame f in supervisor state s and fetched the vector
Vectoring(s, f, v, z) ==
    z \in {jump_vector(PushFrame(s, f), v), JumpVector(PushFaultFrame(s, f), v, DoubleFault)}

\* x enters the handler of vector v in z, with pc stacked
Entering(x, pc, d, s, fmt, v, z) ==
    /\ pc \in Int /\ d \in 0..800 /\ Stands(x, pc, d)
    /\ Vectors(x, s, fmt, v) /\ Vectoring(s, Frame(fmt, v, pc, x.sr), v, z)

LEMMA Entry ==
    ASSUME NEW x, NEW pc, NEW d, NEW s, NEW fmt, NEW v, NEW z, Entering(x, pc, d, s, fmt, v, z)
    PROVE  Handles(x, z, v, d + 92)
<1>e. /\ pc \in Int /\ d \in 0..800 /\ Stands(x, pc, d)
      /\ Vectors(x, s, fmt, v) /\ Vectoring(s, Frame(fmt, v, pc, x.sr), v, z)
  BY DEF Entering
<1>1. PICK y : /\ z = jump_vector(y, v) \/ z = JumpVector(y, v, DoubleFault)
               /\ \/ y = PushFrame(s, Frame(fmt, v, pc, x.sr))
                  \/ y = PushFaultFrame(s, Frame(fmt, v, pc, x.sr))
  BY <1>e DEF Vectoring
<1>2. Stacked(x, s, v, d + 92, y)
  BY <1>e, <1>1, FrameStacked
<1>3. /\ Stands(y, Handler(v), d + 92) /\ Firm(x, y) /\ y.sr = s.sr /\ y.owed = x.owed
      /\ v \in Nat /\ s.sr.s
  BY <1>e, <1>2 DEF Stacked, Vectors
<1>4. y \in Machine /\ Mild(y) /\ ~faulted(y)
  BY <1>3 DEF Stands
<1>5. Alike(y, z) /\ Firm(y, z) /\ z.pc = Handler(v) /\ z \in Machine
  BY <1>1, <1>3, <1>4, Vectored
<1>6. z.bad = y.bad /\ ~faulted(z)
  BY <1>4, <1>5 DEF Firm, Same, Steady, faulted
<1>7. Stands(z, Handler(v), d + 92)
  BY <1>3, <1>5, <1>6, StandsAlike
<1>8. z.sr = s.sr /\ z.owed = x.owed
  BY <1>3, <1>5 DEF Alike, StackSame
<1> QED BY <1>3, <1>5, <1>7, <1>8, FirmTrans DEF Handles

\* A vector that is not an interrupt's, in the supervisor state of the machine as it is
LEMMA PlainVectors ==
    ASSUME NEW x \in Machine, NEW fmt \in RteFormats(x), fmt # "1",
           NEW v \in Nat, v > 0, x.cpu_type = "M68000" => v \notin {2, 3}, v \notin 25..30
    PROVE  Vectors(x, EnterSupervisor(x), fmt, v)
<1> DEFINE s == EnterSupervisor(x)
<1>1. /\ StackSame(x, s) /\ Held(x, s) /\ s \in Machine
      /\ s.sr \in SR /\ s.sr.s /\ ~s.sr.t0
      /\ s.sr.m = x.sr.m /\ s.sr.i = x.sr.i
  BY EnterSupervisorStacks
<1>2. Firm(x, s)
  BY <1>1, HeldFirm
<1>3. s.sr.i >= x.sr.i
  BY <1>1 DEF SR, Levels
<1> HIDE DEF s
<1>4. Vectors(x, s, fmt, v)
  BY <1>1, <1>2, <1>3 DEF Vectors
<1> QED BY <1>4 DEF s

LEMMA Formats0 == ASSUME NEW x PROVE "0" \in RteFormats(x)
  BY DEF RteFormats

\* Updates of fields that the stacks do not depend on
LEMMA BusyAlike ==
    ASSUME NEW x \in Machine, NEW y,
           y = [x EXCEPT !.exception_processing = TRUE] \/ y = [x EXCEPT !.exception_processing = FALSE]
    PROVE  /\ y \in Machine /\ Alike(x, y) /\ y.bad = x.bad /\ Steady(x, y) /\ y.pc = x.pc
           /\ y.ppc = x.ppc
           /\ y.int_level = x.int_level /\ y.queue = x.queue
           /\ y.sr_save = x.sr_save /\ y.dar_save = x.dar_save
<1>0. PICK e \in BOOLEAN : y = [x EXCEPT !.exception_processing = e]
  OBVIOUS
<1>1. /\ y \in Machine /\ Verbatim(x, y) /\ y.bad = x.bad /\ Steady(x, y) /\ y.pc = x.pc
      /\ y.ppc = x.ppc
      /\ y.int_level = x.int_level /\ y.queue = x.queue
      /\ y.sr_save = x.sr_save /\ y.dar_save = x.dar_save
  BY <1>0 DEF Machine, Verbatim, Steady
<1> QED BY <1>1, VerbatimAlike

LEMMA StoppedAlike ==
    ASSUME NEW x \in Machine, NEW y, y = [x EXCEPT !.stopped = 0] \/ y = [x EXCEPT !.stopped = 1]
    PROVE  /\ y \in Machine /\ Alike(x, y) /\ Same(x, y) /\ y.pc = x.pc /\ y.ppc = x.ppc
           /\ y.run_mode = x.run_mode /\ y.nested = x.nested
           /\ y.fault_resume = x.fault_resume /\ y.queue = x.queue
<1>0. PICK n \in {0, 1} : y = [x EXCEPT !.stopped = n]
  OBVIOUS
<1>1. /\ y \in Machine /\ Verbatim(x, y) /\ Same(x, y) /\ y.pc = x.pc /\ y.ppc = x.ppc
      /\ y.run_mode = x.run_mode /\ y.nested = x.nested
      /\ y.fault_resume = x.fault_resume /\ y.queue = x.queue
  BY <1>0 DEF Machine, Verbatim, Same
<1> QED BY <1>1, VerbatimAlike

LEMMA FlowAlike ==
    ASSUME NEW x \in Machine, NEW y,
           y = [x EXCEPT !.change_of_flow = TRUE] \/ y = [x EXCEPT !.change_of_flow = FALSE]
    PROVE  y \in Machine /\ Alike(x, y) /\ Held(x, y) /\ y.pc = x.pc /\ y.ppc = x.ppc
<1>0. PICK e \in BOOLEAN : y = [x EXCEPT !.change_of_flow = e]
  OBVIOUS
<1>1. y \in Machine /\ Verbatim(x, y) /\ Held(x, y) /\ y.pc = x.pc /\ y.ppc = x.ppc
  BY <1>0 DEF Machine, Verbatim, Held, Same
<1> QED BY <1>1, VerbatimAlike

\* The exceptions of the 68000 frame: traps, line A, privilege violations
LEMMA TakenSound ==
    ASSUME NEW x, NEW d \in 0..800, ~x.exception_processing,
           NEW v \in Nat, v > 3, v \notin 25..30,
           Stands(x, IF StacksNextPc(v) THEN x.pc ELSE x.ppc, d)
    PROVE  Handles(x, take_exception(x, v), v, d + 92)
<1> DEFINE pc == IF StacksNextPc(v) THEN x.pc ELSE x.ppc
           w == [x EXCEPT !.exception_processing = TRUE]
           s == EnterSupervisor(w)
           y == jump_vector(PushFrame(s, Frame("0", v, pc, x.sr)), v)
           z == [y EXCEPT !.exception_processing = FALSE]
<1>1. x \in Machine /\ pc \in Int
  BY DEF Stands, Machine
<1>w. w = [x EXCEPT !.exception_processing = TRUE]
  OBVIOUS
<1>y. Vectoring(s, Frame("0", v, pc, x.sr), v, y)
  BY DEF Vectoring
<1>z. z = [y EXCEPT !.exception_processing = FALSE]
  OBVIOUS
<1>2. /\ w \in Machine /\ Alike(x, w) /\ w.bad = x.bad /\ Steady(x, w) /\ w.pc = x.pc
      /\ w.ppc = x.ppc /\ w.int_level = x.int_level
  <2> HIDE DEF w
  <2> QED BY <1>1, <1>w, BusyAlike
<1>3. take_exception(x, v) = z
  <2>1. w.pc = x.pc /\ w.ppc = x.ppc
    BY <1>2
  <2> QED BY <1>1, <2>1 DEF take_exception, Machine
<1> HIDE DEF z, y, w, pc
<1>4. Stands(w, pc, d)
  BY <1>2, StandsAlike DEF pc, Stands, Steady, faulted
<1>5. w.sr = x.sr
  BY <1>2 DEF Alike
<1>e. Vectors(w, s, "0", v)
  <2>1. "0" \in RteFormats(w) /\ "0" # "1" /\ v > 0 /\ v \notin {2, 3}
    BY Formats0
  <2> QED BY <1>2, <2>1, PlainVectors
<1> HIDE DEF s
<1>f. Vectoring(s, Frame("0", v, pc, w.sr), v, y)
  BY <1>5, <1>y
<1>6. Handles(w, y, v, d + 92)
  <2>1. Entering(w, pc, d, s, "0", v, y)
    BY <1>1, <1>4, <1>e, <1>f DEF Entering
  <2> QED BY <2>1, Entry
<1> HIDE DEF y
<1>7. y \in Machine
  BY <1>6 DEF Handles, Stands
<1>8. /\ z \in Machine /\ Alike(y, z) /\ z.bad = y.bad /\ Steady(y, z) /\ z.pc = y.pc
      /\ z.exception_processing = FALSE /\ z.int_level = y.int_level
  BY <1>7, <1>z, BusyAlike DEF Machine
<1>9. Stands(z, Handler(v), d + 92)
  BY <1>6, <1>8, StandsAlike DEF Handles, Stands, Steady, faulted
<1>10. z.cpu_type = x.cpu_type /\ z.prog = x.prog /\ z.owed = x.owed /\ z.sr = y.sr
  BY <1>2, <1>6, <1>8 DEF Alike, StackSame, Guested, Handles, Firm, Same
<1>11. Firm(x, z)
  <2>1. x.exception_processing = FALSE
    BY <1>1 DEF Machine
  <2>2. Firm(w, y)
    BY <1>6 DEF Handles
  <2>3. z.bad = x.bad /\ z.int_level = x.int_level
    BY <2>2, <1>2, <1>8 DEF Firm, Same
  <2>4. Steady(x, z)
    BY <2>2, <1>2, <1>8 DEF Firm, Steady
  <2>5. z.exception_processing = x.exception_processing
    BY <2>1, <1>8
  <2> QED BY <2>3, <2>4, <2>5, <1>10 DEF Firm, Same
<1> QED BY <1>3, <1>6, <1>8, <1>9, <1>10, <1>11 DEF Handles

\* Those of the longer frame: division by zero, trace
LEMMA Group2Sound ==
    ASSUME NEW x, NEW d \in 0..800, NEW v \in Nat, v > 3, v \notin 25..30, Stands(x, x.pc, d)
    PROVE  Handles(x, take_group2_exception(x, v), v, d + 92)
<1> DEFINE fmt == IF is_pre_68020(x) THEN "0" ELSE "2"
           s == EnterSupervisor(x)
           y == jump_vector(PushFrame(s, Frame(fmt, v, x.pc, x.sr)), v)
<1>1. x \in Machine /\ x.pc \in Int
  BY DEF Stands, Machine
<1>2. fmt \in RteFormats(x) /\ fmt # "1"
  BY <1>1 DEF RteFormats, is_pre_68020, Machine, Models
<1>3. s.pc = x.pc /\ s.cpu_type = x.cpu_type
  BY <1>1, EnterSupervisorStacks DEF StackSame, Guested
<1>4. take_group2_exception(x, v) = y
  BY <1>3 DEF take_group2_exception, is_pre_68020
<1>5. Vectors(x, s, fmt, v)
  <2>1. v > 0 /\ v \notin {2, 3}
    OBVIOUS
  <2> HIDE DEF fmt
  <2> QED BY <1>1, <1>2, <2>1, PlainVectors
<1>6. Vectoring(s, Frame(fmt, v, x.pc, x.sr), v, y)
  BY DEF Vectoring
<1> HIDE DEF fmt, s, y
<1>7. Entering(x, x.pc, d, s, fmt, v, y)
  BY <1>1, <1>5, <1>6 DEF Entering
<1>8. Handles(x, y, v, d + 92)
  BY <1>7, Entry
<1> QED BY <1>4, <1>8

Tracing(x, z, d) ==
    /\ Stands(z, Handler(TRACE), d) /\ z.pc = Handler(TRACE) /\ z.owed = x.owed
    /\ Same(x, z) /\ z.stopped = 0 /\ z.run_mode = x.run_mode /\ z.nested = x.nested
    /\ z.fault_resume = x.fault_resume

LEMMA TraceSound ==
    ASSUME NEW x, NEW d \in 0..800, Stands(x, x.pc, d), NEW z, z = exception_trace(x)
    PROVE  Tracing(x, z, d + 92)
<1> DEFINE w == [x EXCEPT !.stopped = 0]
<1>1. x \in Machine /\ x.stopped \in {0, 1}
  BY DEF Stands, Machine
<1>2. /\ w \in Machine /\ Alike(x, w) /\ Same(x, w) /\ w.pc = x.pc
      /\ w.stopped = 0 /\ w.run_mode = x.run_mode /\ w.nested = x.nested
      /\ w.fault_resume = x.fault_resume
  <2>1. w = [x EXCEPT !.stopped = 0] /\ w.stopped = 0
    BY <1>1 DEF Machine
  <2> HIDE DEF w
  <2> QED BY <1>1, <2>1, StoppedAlike
<1>3. [x EXCEPT !.stopped = IF @ % 2 = 1 THEN @ - 1 ELSE @] = w
  <2>1. (IF x.stopped % 2 = 1 THEN x.stopped - 1 ELSE x.stopped) = 0
    <3>1. 0 % 2 = 0 /\ 1 % 2 = 1 /\ 1 - 1 = 0
      BY SMT
    <3> QED BY <1>1, <3>1
  <2> QED BY <1>1, <2>1 DEF Machine
<1>4. z = take_group2_exception(w, TRACE)
  BY <1>3 DEF exception_trace
<1> HIDE DEF w
<1>5. Stands(w, w.pc, d)
  BY <1>2, StandsAlike DEF Stands, faulted, Same
<1>6. Handles(w, z, TRACE, d + 92)
  <2>1. TRACE \in Nat /\ TRACE > 3 /\ TRACE \notin 25..30
    BY DEF TRACE
  <2>2. Handles(w, take_group2_exception(w, TRACE), TRACE, d + 92)
    BY <1>5, <2>1, Group2Sound
  <2> QED BY <1>4, <2>2
<1>7. w.owed = x.owed
  BY <1>2 DEF Alike, StackSame
<1> QED BY <1>2, <1>6, <1>7 DEF Tracing, Handles, Firm, Steady, Same

----------------------------------------------------------------------------
(* The delivery of a bus error *)

\* y has the run state, the bus, the stacks and the data of x, whatever its registers
Residue(x, y) ==
    /\ y \in Machine /\ Firm(x, y)
    /\ y.data = x.data /\ y.astray = x.astray /\ y.sp = x.sp /\ y.stk = x.stk /\ y.owed = x.owed

\* Between instructions: the code at pc can go on, and that of a STOP which waits in
\* user mode
Whole(x, d) ==
    /\ Stands(x, x.pc, d)
    /\ x.fault_resume = NoResume /\ ~x.nested /\ ~x.exception_processing
    /\ SupervisorWake(x) => Sound(x, x.pc - 4) /\ OwedAt(x, x.pc - 4)

\* In an instruction: the code at ppc can go on once the registers are rolled back
Saved(x, d) ==
    /\ x \in Machine /\ Mild(x) /\ ~faulted(x) /\ x.stopped = 0
    /\ x.fault_resume = NoResume /\ ~x.nested /\ ~x.exception_processing
    /\ Stands(Rollback(x), x.ppc, d)

\* A fault has been delivered and the instruction is to be ended
Due(x, d) ==
    /\ x \in Machine /\ faulted(x) /\ x.stopped = 0
    /\ x.fault_resume # NoResume /\ ~x.nested /\ ~x.exception_processing
    /\ LET e == end_faulted_instruction(x) IN Stands(e, e.pc, d)

LEMMA RollbackFields ==
    ASSUME NEW x \in Machine
    PROVE  LET r == Rollback(x)
           IN  /\ Residue(x, r) /\ r.sr = SrMasked(x, x.sr_save) /\ r.dar = x.dar_save
               /\ r.pc = x.pc /\ r.ppc = x.ppc
<1> DEFINE q == SrMasked(x, x.sr_save)
           r == Rollback(x)
<1>1. q \in SR
  BY SrMaskedType DEF Machine
<1>2. r \in Machine /\ Held(x, r) /\ r.pc = x.pc
  BY RollbackHeld
<1>3. r = [[x EXCEPT !.sr = q] EXCEPT !.dar = x.dar_save]
  BY DEF Rollback, set_sr_noint_nosp
<1> HIDE DEF q
<1>4. /\ r.sr = q /\ r.dar = x.dar_save /\ r.ppc = x.ppc /\ r.data = x.data
      /\ r.astray = x.astray /\ r.sp = x.sp /\ r.stk = x.stk /\ r.owed = x.owed
  <2> HIDE DEF r
  <2> QED BY <1>3 DEF Machine
<1> HIDE DEF r
<1>5. Residue(x, r)
  BY <1>2, <1>4, HeldFirm DEF Residue
<1> QED BY <1>2, <1>4, <1>5 DEF q, r

LEMMA EndedFields ==
    ASSUME NEW x \in Machine, x.stopped = 0, x.fault_resume # NoResume
    PROVE  LET e == end_faulted_instruction(x)
               f == x.fault_resume
           IN  /\ e \in Machine /\ Same(x, e) /\ e.data = x.data /\ e.astray = x.astray /\ e.sp = x.sp
               /\ e.stk = x.stk /\ e.owed = x.owed /\ e.stopped = 0 /\ e.nested = x.nested
               /\ e.run_mode = Normal /\ e.fault_resume = NoResume
               /\ e.pc = f.pc /\ e.dar = f.dar /\ e.sr = SrMasked(x, f.sr)
<1> DEFINE f == x.fault_resume
           q == SrMasked(x, f.sr)
           e == end_faulted_instruction(x)
           y == [[x EXCEPT !.sr = q] EXCEPT !.pc = f.pc, !.dar = f.dar, !.fault_resume = NoResume]
<1>1. f \in [pc : Int, sr : SR, dar : Registers]
  BY DEF Machine
<1>2. e \in Machine
  BY EndFaultedKeeps DEF Keeps
<1>3. y.stopped = 0
  <2> HIDE DEF q, f
  <2> QED BY DEF Machine
<1>4. e = [y EXCEPT !.run_mode = Normal]
  <2>1. y = [set_sr_noint_nosp(x, f.sr) EXCEPT !.pc = f.pc, !.dar = f.dar, !.fault_resume = NoResume]
    BY DEF set_sr_noint_nosp
  <2> HIDE DEF y, q
  <2> QED BY <1>3, <2>1 DEF end_faulted_instruction
<1> HIDE DEF q, f, e
<1>5. /\ e.cpu_type = x.cpu_type /\ e.prog = x.prog /\ e.bad = x.bad /\ e.int_level = x.int_level
      /\ e.exception_processing = x.exception_processing
      /\ e.data = x.data /\ e.astray = x.astray /\ e.sp = x.sp
      /\ e.stk = x.stk /\ e.owed = x.owed /\ e.stopped = 0 /\ e.nested = x.nested
  BY <1>4 DEF Machine
<1>6. /\ e.run_mode = Normal /\ e.fault_resume = NoResume
      /\ e.pc = f.pc /\ e.dar = f.dar /\ e.sr = q
  BY <1>4 DEF Machine
<1> QED BY <1>2, <1>5, <1>6 DEF Same, e, f, q

\* What is left of the instruction does not matter
LEMMA DueStays ==
    ASSUME NEW x, NEW d, Due(x, d), NEW y, Residue(x, y)
    PROVE  Due(y, d)
<1> DEFINE e == end_faulted_instruction(x)
           g == end_faulted_instruction(y)
<1>1. /\ y \in Machine /\ x \in Machine /\ y.run_mode = x.run_mode /\ y.stopped = 0 /\ x.stopped = 0
      /\ x.fault_resume # NoResume /\ y.fault_resume = x.fault_resume /\ y.nested = x.nested
      /\ y.exception_processing = x.exception_processing /\ y.cpu_type = x.cpu_type
  BY DEF Residue, Firm, Same, Steady, Due
<1>2. SrMasked(y, x.fault_resume.sr) = SrMasked(x, x.fault_resume.sr)
  BY <1>1 DEF SrMasked, is_pre_68020
<1>3. /\ e \in Machine /\ Same(x, e) /\ e.data = x.data /\ e.astray = x.astray /\ e.sp = x.sp
      /\ e.stk = x.stk /\ e.owed = x.owed
      /\ e.pc = x.fault_resume.pc /\ e.dar = x.fault_resume.dar
      /\ e.sr = SrMasked(x, x.fault_resume.sr)
  BY <1>1, EndedFields
<1>4. /\ g \in Machine /\ Same(y, g) /\ g.data = y.data /\ g.astray = y.astray /\ g.sp = y.sp
      /\ g.stk = y.stk /\ g.owed = y.owed /\ g.run_mode = Normal
      /\ g.pc = y.fault_resume.pc /\ g.dar = y.fault_resume.dar
      /\ g.sr = SrMasked(y, y.fault_resume.sr)
  BY <1>1, EndedFields
<1>5. Stands(e, e.pc, d)
  BY DEF Due
<1> HIDE DEF e, g
<1>6. Verbatim(e, g) /\ g.bad = e.bad /\ g.pc = e.pc
  BY <1>1, <1>2, <1>3, <1>4 DEF Verbatim, Residue, Firm, Same
<1>7. ~faulted(g)
  BY <1>4 DEF faulted, Normal, Fault
<1>8. Stands(g, g.pc, d)
  BY <1>4, <1>5, <1>6, <1>7, VerbatimAlike, StandsAlike
<1> QED BY <1>1, <1>8 DEF Due, faulted, g

LEMMA DueEnds ==
    ASSUME NEW x, NEW d, Due(x, d)
    PROVE  Whole(end_faulted_instruction(x), d)
<1> DEFINE e == end_faulted_instruction(x)
<1>1. /\ Same(x, e) /\ e.stopped = 0 /\ e.nested = x.nested /\ e.fault_resume = NoResume
  BY EndedFields DEF Due
<1>2. Stands(e, e.pc, d) /\ ~x.nested /\ ~x.exception_processing
  BY DEF Due
<1> HIDE DEF e
<1>3. ~SupervisorWake(e)
  BY <1>1 DEF SupervisorWake
<1>4. Whole(e, d)
  BY <1>1, <1>2, <1>3 DEF Whole, Same
<1> QED BY <1>4 DEF e

LEMMA SavedStays ==
    ASSUME NEW x, NEW d, Saved(x, d), NEW y, Residue(x, y), y.ppc = x.ppc,
           y.sr_save = x.sr_save, y.dar_save = x.dar_save
    PROVE  Saved(y, d)
<1> DEFINE r == Rollback(x)
           s == Rollback(y)
<1>1. x \in Machine /\ y \in Machine /\ Firm(x, y) /\ Mild(x) /\ ~faulted(x)
  BY DEF Saved, Residue
<1>2. /\ Residue(x, r) /\ r.sr = SrMasked(x, x.sr_save) /\ r.dar = x.dar_save
      /\ Residue(y, s) /\ s.sr = SrMasked(y, y.sr_save) /\ s.dar = y.dar_save
  BY <1>1, RollbackFields
<1>3. Stands(r, x.ppc, d)
  BY DEF Saved
<1> HIDE DEF r, s
<1>4. SrMasked(y, y.sr_save) = SrMasked(x, x.sr_save)
  BY <1>1 DEF Firm, Same, SrMasked, is_pre_68020
<1>5. Verbatim(r, s) /\ s.bad = r.bad /\ s \in Machine /\ s.run_mode = x.run_mode
  BY <1>1, <1>2, <1>4 DEF Residue, Verbatim, Firm, Same, Steady
<1>6. Stands(s, y.ppc, d)
  BY <1>1, <1>3, <1>5, VerbatimAlike, StandsAlike DEF faulted
<1>7. Mild(y) /\ ~faulted(y)
  BY <1>1, MildSame DEF Firm, Steady, faulted
<1> QED BY <1>1, <1>6, <1>7 DEF Saved, s, Firm, Same, Steady

LEMMA DeliveredType ==
    ASSUME NEW y \in Machine, NEW f \in [pc : Int, sr : SR, dar : Registers]
    PROVE  [y EXCEPT !.exception_processing = FALSE, !.fault_resume = f, !.run_mode = Fault] \in Machine
  BY DEF Machine

LEMMA DeliveredFields ==
    ASSUME NEW y \in Machine, SrMasked(y, y.sr) = y.sr, y.stopped = 0
    PROVE  LET z == Delivered(y)
               e == end_faulted_instruction(z)
           IN  /\ z \in Machine /\ faulted(z) /\ z.stopped = 0 /\ z.fault_resume # NoResume
               /\ z.nested = y.nested /\ ~z.exception_processing
               /\ e \in Machine /\ Alike(y, e) /\ e.bad = y.bad /\ ~faulted(e) /\ e.pc = y.pc
<1> DEFINE f == Resume(y)
           z == Delivered(y)
           e == end_faulted_instruction(z)
<1>1. f \in [pc : Int, sr : SR, dar : Registers] /\ f # NoResume
      /\ f.pc = y.pc /\ f.sr = y.sr /\ f.dar = y.dar
  <2>1. f = [pc |-> y.pc, sr |-> y.sr, dar |-> y.dar]
    BY DEF Resume, get_sr
  <2>2. f \in [pc : Int, sr : SR, dar : Registers] /\ f # NoResume
    BY ResumeType, ResumeIsOne
  <2> QED BY <2>1, <2>2
<1>2. z = [y EXCEPT !.exception_processing = FALSE, !.fault_resume = f, !.run_mode = Fault]
  BY DEF Delivered
<1> HIDE DEF f, z
<1>3. /\ z \in Machine /\ z.run_mode = Fault /\ z.stopped = 0 /\ z.fault_resume = f
      /\ z.nested = y.nested /\ ~z.exception_processing
      /\ z.cpu_type = y.cpu_type /\ z.prog = y.prog /\ z.bad = y.bad
      /\ z.data = y.data /\ z.astray = y.astray /\ z.sp = y.sp /\ z.stk = y.stk /\ z.owed = y.owed
  <2>1. f \in [pc : Int, sr : SR, dar : Registers]
    BY <1>1
  <2>2. z \in Machine
    BY <2>1, <1>2, DeliveredType
  <2>3. /\ z.run_mode = Fault /\ z.stopped = 0 /\ z.fault_resume = f
        /\ z.nested = y.nested /\ ~z.exception_processing
    BY <1>2 DEF Machine
  <2>4. /\ z.cpu_type = y.cpu_type /\ z.prog = y.prog /\ z.bad = y.bad
        /\ z.data = y.data /\ z.astray = y.astray /\ z.sp = y.sp /\ z.stk = y.stk /\ z.owed = y.owed
    BY <1>2 DEF Machine
  <2> QED BY <2>2, <2>3, <2>4
<1>4. /\ e \in Machine /\ Same(z, e) /\ e.data = z.data /\ e.astray = z.astray /\ e.sp = z.sp
      /\ e.stk = z.stk /\ e.owed = z.owed /\ e.run_mode = Normal
      /\ e.pc = f.pc /\ e.dar = f.dar /\ e.sr = SrMasked(z, f.sr)
  BY <1>1, <1>3, EndedFields
<1> HIDE DEF e
<1>5. SrMasked(z, f.sr) = y.sr
  BY <1>1, <1>3 DEF SrMasked, is_pre_68020
<1>6. Verbatim(y, e) /\ e.bad = y.bad
  BY <1>1, <1>3, <1>4, <1>5 DEF Verbatim, Same
<1> QED BY <1>1, <1>3, <1>4, <1>6, VerbatimAlike DEF faulted, Normal, Fault, z, e

LEMMA BusErrorVectors ==
    ASSUME NEW x \in Machine, x.cpu_type # "M68000"
    PROVE  Vectors(x, EnterSupervisor(x), BusErrorFormat(x), BUS_ERROR)
<1>1. BusErrorFormat(x) \in RteFormats(x) /\ BusErrorFormat(x) # "1"
  BY DEF BusErrorFormat, RteFormats, Machine, Models
<1>2. BUS_ERROR \in Nat /\ BUS_ERROR > 0 /\ BUS_ERROR \notin 25..30
  BY DEF BUS_ERROR
<1> QED BY <1>1, <1>2, PlainVectors

\* A fault outside a delivery is delivered whole
LEMMA FaultDelivered ==
    ASSUME NEW x, NEW d \in 0..800, Saved(x, d), x.bad # {}
    PROVE  Due(trigger_bus_error(x), d + 92) /\ trigger_bus_error(x).cpu_type = x.cpu_type
<1> DEFINE r == Rollback(x)
           w == [r EXCEPT !.exception_processing = TRUE]
           y == exception_bus_error(w)
<1>1. /\ x \in Machine /\ ~faulted(x) /\ x.stopped = 0 /\ ~x.nested /\ ~x.exception_processing
      /\ Stands(r, x.ppc, d) /\ x.cpu_type # "M68000" /\ x.ppc \in Int
  BY DEF Saved, Mild, Machine
<1>2. /\ Residue(x, r) /\ r.ppc = x.ppc
  BY <1>1, RollbackFields
<1>3. trigger_bus_error(x) = Delivered(y)
  BY <1>1 DEF trigger_bus_error
<1> HIDE DEF r
<1>w. w = [r EXCEPT !.exception_processing = TRUE]
  OBVIOUS
<1> HIDE DEF w
<1>4. /\ w \in Machine /\ Alike(r, w) /\ w.bad = r.bad /\ Steady(r, w) /\ w.ppc = r.ppc
  BY <1>2, <1>w, BusyAlike DEF Residue
<1>5. Stands(w, x.ppc, d)
  BY <1>1, <1>4, StandsAlike DEF Stands, Steady, faulted
<1>6. w.cpu_type # "M68000" /\ w.stopped = 0 /\ ~w.nested
  BY <1>1, <1>2, <1>4 DEF Alike, StackSame, Guested, Steady, Residue, Firm, Same
<1> DEFINE s == EnterSupervisor(w)
           fmt == BusErrorFormat(w)
<1>7. Vectors(w, s, fmt, BUS_ERROR)
  BY <1>4, <1>6, BusErrorVectors
<1>8. y = JumpVector(PushFaultFrame(s, Frame(fmt, BUS_ERROR, w.ppc, w.sr)), BUS_ERROR, DoubleFault)
  BY DEF exception_bus_error
<1> HIDE DEF s, fmt, y
<1>9. Entering(w, x.ppc, d, s, fmt, BUS_ERROR, y)
  BY <1>1, <1>2, <1>4, <1>5, <1>7, <1>8 DEF Entering, Vectoring
<1>10. Handles(w, y, BUS_ERROR, d + 92)
  BY <1>9, Entry
<1>11. /\ Stands(y, Handler(BUS_ERROR), d + 92) /\ y.pc = Handler(BUS_ERROR) /\ y.stopped = 0
       /\ ~y.nested
  BY <1>6, <1>10 DEF Handles, Firm, Steady
<1>12. y \in Machine /\ SrMasked(y, y.sr) = y.sr
  BY <1>11 DEF Stands, Sound, Shaped
<1> DEFINE z == Delivered(y)
           e == end_faulted_instruction(z)
<1>13. /\ z \in Machine /\ faulted(z) /\ z.stopped = 0 /\ z.fault_resume # NoResume
       /\ z.nested = y.nested /\ ~z.exception_processing
       /\ e \in Machine /\ Alike(y, e) /\ e.bad = y.bad /\ ~faulted(e) /\ e.pc = y.pc
  BY <1>11, <1>12, DeliveredFields
<1>14. Stands(e, e.pc, d + 92)
  <2> HIDE DEF e
  <2> QED BY <1>11, <1>13, StandsAlike
<1>15. Due(z, d + 92)
  <2> HIDE DEF z
  <2> QED BY <1>11, <1>13, <1>14 DEF Due
<1>16. z.cpu_type = x.cpu_type
  <2>1. y.cpu_type = x.cpu_type /\ y \in Machine
    BY <1>2, <1>4, <1>10, <1>12 DEF Handles, Firm, Same, Residue, Alike, StackSame, Guested
  <2>2. z.cpu_type = y.cpu_type
    BY <2>1 DEF Delivered, Machine
  <2> QED BY <2>1, <2>2
<1> QED BY <1>3, <1>15, <1>16

----------------------------------------------------------------------------
(* Interrupts *)

\* Where code can go on depends on the mode of the status register only
LEMMA PlacedMode ==
    ASSUME NEW x, NEW pc, NEW sr, NEW q, NEW i, NEW k, Placed(x, pc, sr, i, k),
           q.s = sr.s, OnMaster(x, q) = OnMaster(x, sr)
    PROVE  Placed(x, pc, q, i, k)
<1>1. BankOf(x, q) = BankOf(x, sr)
  BY DEF BankOf
<1>2. InCall(x, pc, sr, i, k) => InCall(x, pc, q, i, k)
  BY <1>1 DEF InCall
<1>3. InHandler(x, pc, sr, i, k) => InHandler(x, pc, q, i, k)
  BY DEF InHandler
<1> QED BY <1>2, <1>3 DEF Placed

\* The 68060 clears M and stays on its stack
Clears(x, pc, d, y) ==
    /\ Stands(x, pc, d) /\ x.cpu_type = "M68060" /\ x.sr.s /\ ~x.sr.t0
    /\ y = [x EXCEPT !.sr.m = FALSE]

LEMMA MasterCleared ==
    ASSUME NEW x, NEW pc, NEW d, NEW y, Clears(x, pc, d, y)
    PROVE  Stands(y, pc, d) /\ Firm(x, y) /\ y.sr.s /\ y.owed = x.owed
<1>c. /\ Stands(x, pc, d) /\ x.cpu_type = "M68060" /\ x.sr.s /\ ~x.sr.t0
      /\ y = [x EXCEPT !.sr.m = FALSE]
  BY DEF Clears
<1> USE <1>c
<1> DEFINE q == [x.sr EXCEPT !.m = FALSE]
<1>1. /\ x \in Machine /\ x.sr \in SR /\ Sound(x, pc) /\ OwedAt(x, pc) /\ Tidy(x) /\ Deep(x, d)
      /\ ~faulted(x) /\ Mild(x)
  BY DEF Stands, Machine
<1>2. q \in SR /\ q.s = x.sr.s /\ q.i = x.sr.i /\ ~q.m /\ ~q.t0
  BY <1>1 DEF SR
<1> HIDE DEF q
<1>3. y = [x EXCEPT !.sr = q]
  BY DEF q
<1>4. y \in Machine
  BY <1>1, <1>2, <1>3 DEF Machine
<1>5. /\ y.sr = q /\ y.cpu_type = x.cpu_type /\ y.prog = x.prog /\ y.data = x.data
      /\ y.dar = x.dar /\ y.astray = x.astray /\ y.stk = x.stk /\ y.owed = x.owed /\ y.sp = x.sp
      /\ Firm(x, y)
  BY <1>1, <1>3 DEF Machine, Firm, Same, Steady
<1> HIDE DEF Machine
<1>6. sp_index(y) = sp_index(x)
  BY <1>2, <1>5 DEF sp_index
<1>7. Guested(x, y)
  BY <1>5 DEF Guested
<1>8. /\ \A b \in {0, 4, 6} : SpOf(y, b) = SpOf(x, b)
      /\ \A b \in {0, 4, 6} : Live(y, b) = Live(x, b)
  <2>1. \A b \in {0, 4, 6} : SpOf(y, b) = SpOf(x, b)
    BY <1>5, <1>6 DEF SpOf
  <2> QED BY <2>1, <1>5 DEF Live
<1>9. \A sr : ~OnMaster(x, sr)
  BY DEF OnMaster
<1>10. SrMasked(y, y.sr) = y.sr
  <2>1. SrMasked(y, q) = q
    BY <1>2, MaskedIff
  <2> QED BY <1>5, <2>1
<1>11. ASSUME NEW p, NEW sr, NEW i, NEW k, Placed(x, p, sr, i, k) PROVE Placed(y, p, sr, i, k)
  BY <1>7, <1>8, <1>11, PlacedMore
<1>12. Shaped(y, pc)
  <2>1. \A b \in {0, 4, 6} : Chained(Live(y, b), SpOf(y, b), Banks[b])
    BY <1>1, <1>8 DEF Sound, Shaped
  <2>2. ASSUME NEW b \in {0, 4, 6}, NEW c \in Live(y, b) PROVE FrameOk(y, b, c)
    <3>1. FrameOk(x, b, c)
      BY <1>1, <1>8 DEF Sound, Shaped
    <3>2. SrMasked(y, c.f.sr) = c.f.sr /\ c.n = FrameBytes(y, c.f.fmt)
      BY <3>1, <1>7, GuestedSame DEF FrameOk
    <3>3. ~ThrowOk(x, c)
      BY <1>9 DEF ThrowOk
    <3>4. RetOk(x, b, c) => RetOk(y, b, c)
      BY <1>7, GuestedSame DEF RetOk
    <3>5. StdOk(x, b, c) => StdOk(y, b, c)
      <4>1. SpOf(y, 6) = SpOf(x, 6)
        BY <1>8
      <4>2. RteFormats(y) = RteFormats(x)
        BY <1>7, GuestedSame
      <4> QED BY <1>11, <4>1, <4>2 DEF StdOk
    <3> QED BY <3>1, <3>2, <3>3, <3>4, <3>5 DEF FrameOk
  <2>3. Placed(y, pc, y.sr, SpOf(y, 4), SpOf(y, 6))
    <3>1. Placed(x, pc, x.sr, SpOf(x, 4), SpOf(x, 6))
      BY <1>1 DEF Sound, Shaped
    <3> DEFINE i == SpOf(x, 4)
               k == SpOf(x, 6)
    <3> HIDE DEF i, k
    <3>2. Placed(x, pc, q, i, k)
      <4>1. OnMaster(x, q) = OnMaster(x, x.sr)
        BY DEF OnMaster
      <4>2. Placed(x, pc, x.sr, i, k)
        BY <3>1 DEF i, k
      <4> QED BY <4>1, <4>2, <1>2, PlacedMode
    <3>3. SpOf(y, 4) = SpOf(x, 4) /\ SpOf(y, 6) = SpOf(x, 6)
      BY <1>8
    <3> QED BY <3>2, <3>3, <1>5, <1>11 DEF i, k
  <2>4. Rising(y)
    BY <1>1, <1>8 DEF Sound, Shaped, Rising, SuperLive
  <2>5. ~y.astray
    BY <1>1, <1>5 DEF Sound, Shaped
  <2> QED BY <1>10, <2>1, <2>2, <2>3, <2>4, <2>5 DEF Shaped
<1>13. SuperLive(y) = SuperLive(x)
  BY <1>8 DEF SuperLive
<1>14. Sound(y, pc)
  BY <1>1, <1>2, <1>5, <1>12, <1>13 DEF Sound, Masking
<1>15. OwedAt(y, pc) /\ Tidy(y) /\ Deep(y, d)
  BY <1>1, <1>5, <1>8, <1>13 DEF OwedAt, Tidy, Deep
<1>16. Mild(y) /\ ~faulted(y)
  BY <1>1, <1>5, MildSame DEF Firm, Steady, faulted
<1> QED BY <1>2, <1>4, <1>5, <1>14, <1>15, <1>16 DEF Stands

\* The supervisor stacks are always mapped
LEMMA SupervisorMapped ==
    ASSUME NEW x \in Machine, Mild(x), x.sr.s, Deep(x, 900),
           SpOf(x, 4) \in Int, SpOf(x, 6) \in Int
    PROVE  x.dar.a7 \in Int /\ x.dar.a7 > 1001 /\ StackRegion(x.dar.a7 - 1) \notin x.bad
<1>1. x.dar.a7 \in Int
  BY DEF Machine, Registers
<1>2. x.dar.a7 = SpOf(x, 4) \/ x.dar.a7 = SpOf(x, 6)
  BY DEF SpOf, sp_index
<1>3. SpOf(x, 4) > 1001 /\ SpOf(x, 6) > 1001
  BY DEF Deep, IspBase, MspBase
<1>4. x.dar.a7 - 1 > 1000
  BY <1>1, <1>2, <1>3
<1> QED BY <1>1, <1>2, <1>3, <1>4 DEF StackRegion, Mild, UserBase

\* The throwaway frame on the interrupt stack
Throws(y, v, d, f, w) ==
    /\ d \in 0..900 /\ Stands(y, Handler(v), d) /\ HandlerPc(y, Handler(v)) /\ v \in Nat
    /\ \E c \in Live(y, 6) : c.at = SpOf(y, 6) /\ Std(c)
    /\ y.sr.m /\ y.sr.s /\ ~y.sr.t0 /\ ~is_pre_68020(y) /\ y.cpu_type # "M68060"
    /\ f \in FrameSet /\ f.fmt = "1" /\ OnMaster(y, f.sr) /\ SrMasked(y, f.sr) = f.sr
    /\ w = PushFrame(Rebank(y, [y.sr EXCEPT !.s = TRUE, !.m = FALSE]), f)

LEMMA ThrowawayStacked ==
    ASSUME NEW y, NEW v, NEW d, NEW f, NEW w, Throws(y, v, d, f, w)
    PROVE  Stands(w, Handler(v), d + 92) /\ Firm(y, w) /\ w.sr.s /\ w.owed = y.owed
<1>t. /\ d \in 0..900 /\ Stands(y, Handler(v), d) /\ HandlerPc(y, Handler(v)) /\ v \in Nat
      /\ \E c \in Live(y, 6) : c.at = SpOf(y, 6) /\ Std(c)
      /\ y.sr.m /\ y.sr.s /\ ~y.sr.t0 /\ ~is_pre_68020(y) /\ y.cpu_type # "M68060"
      /\ f \in FrameSet /\ f.fmt = "1" /\ OnMaster(y, f.sr) /\ SrMasked(y, f.sr) = f.sr
      /\ w = PushFrame(Rebank(y, [y.sr EXCEPT !.s = TRUE, !.m = FALSE]), f)
  BY DEF Throws
<1> USE <1>t
<1> DEFINE q == [y.sr EXCEPT !.s = TRUE, !.m = FALSE]
           z == Rebank(y, q)
           c == CellOf(z, f)
           t == Store(z, f)
<1>1. /\ y \in Machine /\ y.sr \in SR /\ Sound(y, Handler(v)) /\ OwedAt(y, Handler(v)) /\ Tidy(y)
      /\ Deep(y, d) /\ ~faulted(y) /\ Mild(y) /\ Shaped(y, Handler(v))
  BY DEF Stands, Machine, Sound
<1>2. q \in SR /\ q.s /\ ~q.m /\ q.i = y.sr.i /\ ~q.t0
  BY <1>1 DEF SR
<1> HIDE DEF q
<1>3. StackSame(y, z) /\ Held(y, z) /\ z.sr = q /\ z \in Machine
  BY <1>1, <1>2, RebankStacks
<1> HIDE DEF z
<1>4. /\ \A e \in {0, 4, 6} : SpOf(z, e) = SpOf(y, e) /\ Live(z, e) = Live(y, e)
      /\ Guested(y, z) /\ z.stk = y.stk /\ z.owed = y.owed
  BY <1>3, SameLive DEF StackSame
<1>5. /\ \A e \in {0, 4, 6} : Chained(Live(z, e), SpOf(z, e), Banks[e])
      /\ \A e \in {0, 4, 6} : SpOf(z, e) \in Int
      /\ Deep(z, 900) /\ \A e \in z.stk : e.n > 0
  <2>1. \A e \in {0, 4, 6} : Chained(Live(z, e), SpOf(z, e), Banks[e])
    BY <1>1, <1>4 DEF Shaped
  <2>2. \A e \in {0, 4, 6} : SpOf(z, e) \in Int
    BY <2>1 DEF Chained
  <2>3. SpOf(z, 4) >= 2000 - d /\ SpOf(z, 6) >= 3000 - d
    BY <1>1, <1>4 DEF Deep, IspBase, MspBase
  <2> QED BY <1>1, <1>4, <2>1, <2>2, <2>3 DEF Tidy, Deep, IspBase, MspBase
<1>6. f.fmt \in WholeFormats \ {"group0"} /\ f.fmt \in WholeFormats
  BY DEF WholeFormats, Formats
<1>7. /\ Pushed(z, t, BankOf(z, z.sr), c)
      /\ t.stk \subseteq z.stk \cup {c} /\ t.owed = z.owed
      /\ Held(z, t) /\ t.sr = z.sr /\ t \in Machine
  BY <1>3, <1>5, <1>6, StorePushed
<1>8. /\ c \in Cell /\ c.n > 0 /\ c.n <= 92 /\ c.f = f /\ c.n = FrameBytes(z, "1")
  BY <1>3, <1>6, CellOfType
<1> HIDE DEF c, t
<1>9. BankOf(z, z.sr) = 4 /\ BankOf(y, y.sr) = 6
  BY <1>2, <1>3 DEF BankOf, OnMaster
<1>10. Guested(y, t)
  BY <1>4, <1>7 DEF Pushed, Guested
<1>11. Pushed(y, t, 4, c)
  <2>1. Pushed(z, t, 4, c)
    BY <1>7, <1>9
  <2> QED BY <1>4, <1>10, <2>1 DEF Pushed
<1>12. c.n = FrameBytes(y, "1")
  BY <1>4, <1>8, GuestedSame
<1>13. SrMasked(t, t.sr) = t.sr
  BY <1>2, <1>3, <1>7, MaskedIff
<1>14. Sound(t, Handler(v))
  <2>1. c.f.fmt = "1" /\ OnMaster(y, c.f.sr) /\ SrMasked(y, c.f.sr) = c.f.sr
    BY <1>8
  <2>2. t.sr.s /\ ~t.sr.m /\ t.sr.i = y.sr.i
    BY <1>2, <1>3, <1>7
  <2> QED BY <1>1, <1>9, <1>11, <1>12, <1>13, <2>1, <2>2, ThrowPushSound
<1>15. \A e \in {0, 4, 6} : /\ SpOf(t, e) = IF e = 4 THEN c.at ELSE SpOf(y, e)
                            /\ Live(t, e) = IF e = 4 THEN Live(y, e) \cup {c} ELSE Live(y, e)
  BY <1>11 DEF Pushed
<1>16. OwedAt(t, Handler(v))
  <2>1. SuperLive(y) \subseteq SuperLive(t)
    BY <1>15 DEF SuperLive
  <2> QED BY <1>1, <1>4, <1>7, <2>1 DEF OwedAt
<1>17. Deep(t, d + 92)
  <2>1. c.at = SpOf(y, 4) - c.n /\ c.n \in Int
    BY <1>8, <1>11 DEF Pushed, Cell
  <2>2. SpOf(y, 4) >= 2000 - d /\ SpOf(y, 6) >= 3000 - d /\ SpOf(y, 4) \in Int /\ SpOf(y, 6) \in Int
    BY <1>1, <1>4, <1>5 DEF Deep, IspBase, MspBase
  <2>3. SpOf(t, 4) = c.at /\ SpOf(t, 6) = SpOf(y, 6)
    BY <1>15
  <2>4. SpOf(t, 4) >= 2000 - (d + 92) /\ SpOf(t, 6) >= 3000 - (d + 92)
    BY <1>8, <2>1, <2>2, <2>3
  <2> QED BY <2>4 DEF Deep, IspBase, MspBase
<1>18. Tidy(t)
  <2>1. \A e \in t.stk : e \in y.stk \/ e = c
    BY <1>4, <1>7
  <2> QED BY <1>1, <1>8, <2>1 DEF Tidy, IntCell
<1>19. Firm(y, t)
  BY <1>3, <1>7, HeldFirm, FirmTrans
<1>20. Mild(t) /\ ~faulted(t) /\ Mild(z) /\ ~faulted(z)
  BY <1>1, <1>3, <1>19, MildSame, HeldFirm DEF Firm, Steady, faulted
<1>21. w = t
  <2>1. StackRegion(z.dar.a7 - 1) \notin z.bad
    BY <1>2, <1>3, <1>5, <1>20, SupervisorMapped
  <2> QED BY <1>20, <2>1 DEF PushFrame, Push, t, z, q
<1> QED BY <1>2, <1>3, <1>4, <1>7, <1>14, <1>16, <1>17, <1>18, <1>19, <1>20, <1>21 DEF Stands

LEMMA InterruptVectors ==
    ASSUME NEW x \in Machine, NEW l \in Levels, l = 7 \/ l > x.sr.i,
           NEW s, s = [EnterSupervisor(x) EXCEPT !.sr.i = l]
    PROVE  Vectors(x, s, "0", 24 + l)
<1> DEFINE e == EnterSupervisor(x)
           q == [e.sr EXCEPT !.i = l]
<1>1. /\ StackSame(x, e) /\ Held(x, e) /\ e \in Machine
      /\ e.sr \in SR /\ e.sr.s /\ ~e.sr.t0 /\ e.sr.m = x.sr.m /\ e.sr.i = x.sr.i
  BY EnterSupervisorStacks
<1> HIDE DEF e
<1>2. q \in SR /\ q.s /\ ~q.t0 /\ q.m = x.sr.m /\ q.i = l
  BY <1>1 DEF SR
<1> HIDE DEF q
<1>3. s = [e EXCEPT !.sr = q]
  BY DEF e, q
<1>4. s \in Machine
  BY <1>1, <1>2, <1>3 DEF Machine
<1>5. /\ s.sr = q /\ s.cpu_type = e.cpu_type /\ s.prog = e.prog /\ s.data = e.data
      /\ s.dar = e.dar /\ s.astray = e.astray /\ s.stk = e.stk /\ s.owed = e.owed /\ s.sp = e.sp
      /\ Firm(e, s)
  BY <1>1, <1>3 DEF Machine, Firm, Same, Steady
<1>6. sp_index(s) = sp_index(e)
  BY <1>1, <1>2, <1>5 DEF sp_index
<1>7. StackSame(e, s)
  BY <1>5, <1>6 DEF StackSame, Guested, SpOf
<1>8. StackSame(x, s) /\ Firm(x, s)
  BY <1>1, <1>5, <1>7, StackSameTrans, FirmTrans, HeldFirm
<1>9. x.sr.i \in 0..7 /\ l \in 0..7
  BY DEF Machine, SR, Levels
<1>10. s.sr.i >= x.sr.i /\ (24 + l) \in Nat /\ 24 + l > 3
  BY <1>2, <1>5, <1>9
<1>11. 24 + l \in 25..30 => s.sr.i >= (24 + l) - 24 /\ x.sr.i < (24 + l) - 24
  BY <1>2, <1>5, <1>9
<1>12. "0" \in RteFormats(x) /\ "0" # "1"
  BY Formats0
<1>13. s.sr \in SR /\ s.sr.s /\ ~s.sr.t0 /\ s.sr.m = x.sr.m
  BY <1>2, <1>5
<1>14. 24 + l > 0 /\ (24 + l \notin {2, 3})
  BY <1>10
<1> QED BY <1>4, <1>8, <1>10, <1>11, <1>12, <1>13, <1>14 DEF Vectors

\* The acknowledgement of an interrupt
Acknowledges(x, l, y) ==
    y = [[x EXCEPT !.stopped = 0] EXCEPT !.int_level = 0, !.owed = @ \cup {l}]

LEMMA AcknowledgedFields ==
    ASSUME NEW x \in Machine, NEW l \in Levels, NEW y, Acknowledges(x, l, y)
    PROVE  /\ y \in Machine /\ Guested(x, y) /\ y.sr = x.sr /\ y.stk = x.stk /\ y.owed = x.owed \cup {l}
           /\ \A b \in {0, 4, 6} : SpOf(y, b) = SpOf(x, b) /\ Live(y, b) = Live(x, b)
           /\ y.pc = x.pc /\ y.stopped = 0 /\ y.bad = x.bad /\ y.run_mode = x.run_mode
           /\ y.nested = x.nested /\ y.fault_resume = x.fault_resume
           /\ y.exception_processing = x.exception_processing
<1>1. y = [x EXCEPT !.stopped = 0, !.int_level = 0, !.owed = x.owed \cup {l}]
  BY DEF Machine, Acknowledges
<1>2. 0 \in Levels /\ x.owed \cup {l} \in SUBSET Levels
  BY DEF Machine, Levels
<1>3. y \in Machine
  BY <1>1, <1>2 DEF Machine
<1>4. /\ Guested(x, y) /\ y.sr = x.sr /\ y.stk = x.stk /\ y.owed = x.owed \cup {l}
      /\ y.dar = x.dar /\ y.sp = x.sp /\ y.cpu_type = x.cpu_type
      /\ y.pc = x.pc /\ y.stopped = 0 /\ y.bad = x.bad /\ y.run_mode = x.run_mode
      /\ y.nested = x.nested /\ y.fault_resume = x.fault_resume
      /\ y.exception_processing = x.exception_processing
  BY <1>1 DEF Machine, Guested
<1>5. sp_index(y) = sp_index(x)
  BY <1>4 DEF sp_index
<1>6. \A b \in {0, 4, 6} : SpOf(y, b) = SpOf(x, b)
  BY <1>4, <1>5 DEF SpOf
<1>7. \A b \in {0, 4, 6} : Live(y, b) = Live(x, b)
  BY <1>4, <1>6 DEF Live
<1> QED BY <1>3, <1>4, <1>6, <1>7

\* y is x between instructions, run by the same host, with the CPU running
Follows(x, y) ==
    /\ y.cpu_type = x.cpu_type /\ y.prog = x.prog /\ y.bad = x.bad
    /\ y.run_mode = x.run_mode /\ y.nested = x.nested /\ y.fault_resume = x.fault_resume
    /\ y.exception_processing = x.exception_processing

LEMMA FirmFollows == ASSUME NEW x, NEW y, Firm(x, y) PROVE Follows(x, y)
  BY DEF Firm, Same, Steady, Follows

LEMMA FollowsTrans ==
    ASSUME NEW x, NEW y, NEW z, Follows(x, y), Follows(y, z) PROVE Follows(x, z)
  BY DEF Follows

\* The stacks hold at the interrupt's handler
Interrupting(x, d, l, u) ==
    /\ d \in 0..800 /\ Stands(x, x.pc, d) /\ l \in Levels /\ (l = 7 \/ l > x.sr.i)
    /\ u = ToInterruptStack(PushFrame([EnterSupervisor(x) EXCEPT !.sr.i = l],
                                      Frame("0", 24 + l, x.pc, x.sr)),
                            Frame("0", 24 + l, x.pc, x.sr))

LEMMA OntoInterruptStack ==
    ASSUME NEW x, NEW d, NEW l, NEW u, Interrupting(x, d, l, u)
    PROVE  Stands(u, Handler(24 + l), d + 184) /\ Firm(x, u) /\ u.sr.s /\ u.owed = x.owed
<1> DEFINE v == 24 + l
           f == Frame("0", 24 + l, x.pc, x.sr)
           s == [EnterSupervisor(x) EXCEPT !.sr.i = l]
           y == PushFrame(s, f)
<1>i. /\ d \in 0..800 /\ Stands(x, x.pc, d) /\ l \in Levels /\ (l = 7 \/ l > x.sr.i)
      /\ u = ToInterruptStack(y, f) /\ s = [EnterSupervisor(x) EXCEPT !.sr.i = l]
  BY DEF Interrupting
<1> HIDE DEF s
<1> USE <1>i
<1>1. x \in Machine /\ x.pc \in Int /\ v \in Nat /\ x.sr \in SR /\ SrMasked(x, x.sr) = x.sr
  BY DEF Stands, Machine, Levels, Sound, Shaped
<1>2. Vectors(x, s, "0", v)
  BY <1>1, InterruptVectors
<1>3. y = PushFrame(s, Frame("0", v, x.pc, x.sr))
  OBVIOUS
<1>f. f = Frame("0", v, x.pc, x.sr)
  OBVIOUS
<1> HIDE DEF y, f
<1>v. v > 0
  BY DEF Levels
<1> HIDE DEF v
<1>4. Stacked(x, s, v, d + 92, y)
  BY <1>1, <1>2, <1>3, FrameStacked
<1>5. /\ Stands(y, Handler(v), d + 92) /\ Firm(x, y) /\ y.owed = x.owed /\ y.sr = s.sr
      /\ y.sr.s /\ ~y.sr.t0 /\ y.sr.m = x.sr.m /\ y \in Machine /\ y.sr \in SR
  BY <1>2, <1>4 DEF Stacked, Vectors, Stands
<1>6. d + 92 \in 0..900 /\ d + 92 <= d + 184 /\ d + 184 = (d + 92) + 92 /\ d + 92 \in Int /\ d + 184 \in Int
  OBVIOUS
<1>7. Stands(y, Handler(v), d + 184)
  BY <1>5, <1>6, StandsDeeper
<1>8. u = ToInterruptStack(y, f)
  OBVIOUS
<1>9. CASE ~y.sr.m \/ is_pre_68020(y)
  BY <1>5, <1>7, <1>8, <1>9 DEF ToInterruptStack, v
<1>10. CASE y.sr.m /\ ~is_pre_68020(y) /\ y.cpu_type = "M68060"
  <2>1. u = [y EXCEPT !.sr.m = FALSE]
    BY <1>8, <1>10 DEF ToInterruptStack
  <2>2. Stands(u, Handler(v), d + 184) /\ Firm(y, u) /\ u.sr.s /\ u.owed = y.owed
    <3>1. Clears(y, Handler(v), d + 184, u)
      BY <1>5, <1>7, <1>10, <2>1 DEF Clears
    <3> QED BY <3>1, MasterCleared
  <2> QED BY <1>5, <2>2, FirmTrans DEF v
<1>11. CASE y.sr.m /\ ~is_pre_68020(y) /\ y.cpu_type # "M68060"
  <2> DEFINE g == [f EXCEPT !.fmt = "1", !.sr.s = TRUE]
  <2>1. u = PushFrame(Rebank(y, [y.sr EXCEPT !.s = TRUE, !.m = FALSE]), g)
    BY <1>8, <1>11 DEF ToInterruptStack
  <2>2. x.cpu_type = y.cpu_type
    BY <1>5 DEF Firm, Same
  <2>3. x.sr.m /\ x.sr.s
    BY <1>1, <1>5, <1>11, MaskedIff
  <2>4. g = Frame("1", v, x.pc, x.sr)
    <3>1. [x.sr EXCEPT !.s = TRUE] = x.sr
      BY <1>1, <2>3 DEF SR
    <3>2. f.sr = x.sr /\ f = [fmt |-> "0", vec |-> v, pc |-> x.pc, sr |-> x.sr]
      BY <1>f DEF Frame
    <3>3. g = [f EXCEPT !.fmt = "1", !.sr = x.sr]
      BY <3>1, <3>2
    <3> HIDE DEF g
    <3>4. g = [fmt |-> "1", vec |-> v, pc |-> x.pc, sr |-> x.sr]
      BY <3>2, <3>3
    <3> QED BY <3>4 DEF Frame
  <2> HIDE DEF g
  <2>5. g \in FrameSet /\ g.fmt = "1" /\ g.sr = x.sr
    BY <1>1, <2>4, FrameType DEF Frame, Formats
  <2>6. OnMaster(y, g.sr) /\ SrMasked(y, g.sr) = g.sr
    <3>1. SrMasked(y, x.sr) = SrMasked(x, x.sr)
      BY <2>2 DEF SrMasked, is_pre_68020
    <3> QED BY <1>1, <1>11, <2>3, <2>5, <3>1 DEF OnMaster
  <2>7. HandlerPc(y, Handler(v))
    <3>1. Handler(v) = 400 + 4 * v /\ Handler(v) \in Int /\ Handler(0) = 400
      BY <1>1 DEF Handler
    <3>2. Handler(v) % 4 = 0 /\ Handler(v) > 400
      BY <1>1, <1>v, <3>1
    <3>3. y.cpu_type # "M68000"
      BY <1>11 DEF is_pre_68020
    <3> QED BY <3>1, <3>2, <3>3 DEF HandlerPc, Group0Handler
  <2>8. BankOf(y, y.sr) = 6
    BY <1>5, <1>11 DEF BankOf, OnMaster
  <2>9. \E c \in Live(y, 6) : c.at = SpOf(y, 6) /\ Std(c)
    BY <1>4, <2>8 DEF Stacked
  <2>10. Stands(u, Handler(v), (d + 92) + 92) /\ Firm(y, u) /\ u.sr.s /\ u.owed = y.owed
    <3>1. Throws(y, v, d + 92, g, u)
      BY <1>1, <1>5, <1>6, <1>11, <2>1, <2>5, <2>6, <2>7, <2>9 DEF Throws
    <3> QED BY <3>1, ThrowawayStacked
  <2> QED BY <1>5, <1>6, <2>10, FirmTrans DEF v
<1> QED BY <1>9, <1>10, <1>11

LEMMA ServedSound ==
    ASSUME NEW x, NEW d \in 0..800, Stands(x, x.pc, d), Serviceable(x),
           NEW z, z = check_and_service_interrupts(x)
    PROVE  Stands(z, z.pc, d + 184) /\ Follows(x, z) /\ z.stopped = 0
<1> DEFINE l == x.int_level
           f == Frame("0", 24 + l, x.pc, x.sr)
           s == [EnterSupervisor(x) EXCEPT !.sr.i = l]
           u == ToInterruptStack(PushFrame(s, f), f)
           e == jump_vector(u, 24 + l)
<1>1. x \in Machine /\ l \in Levels /\ (l = 7 \/ l > x.sr.i) /\ 24 + l \in Nat
  BY DEF Stands, Machine, Levels, Serviceable
<1>2. Acknowledges(e, l, z)
  BY DEF check_and_service_interrupts, service_interrupt, EnterInterrupt, Frame, Acknowledges
<1> HIDE DEF u, e, l
<1>3. Stands(u, Handler(24 + l), d + 184) /\ Firm(x, u) /\ u.sr.s /\ u.owed = x.owed
  <2>1. Interrupting(x, d, l, u)
    BY <1>1 DEF Interrupting, u
  <2> QED BY <2>1, OntoInterruptStack
<1>4. Alike(u, e) /\ Firm(u, e) /\ e.pc = Handler(24 + l) /\ e \in Machine
  BY <1>1, <1>3, Vectored DEF Stands, e
<1>5. Stands(e, Handler(24 + l), d + 184)
  BY <1>3, <1>4, StandsAlike DEF Stands, Firm, Same, Steady, faulted
<1>6. /\ z \in Machine /\ Guested(e, z) /\ z.sr = e.sr /\ z.stk = e.stk /\ z.owed = e.owed \cup {l}
      /\ \A b \in {0, 4, 6} : SpOf(z, b) = SpOf(e, b) /\ Live(z, b) = Live(e, b)
      /\ z.pc = e.pc /\ z.stopped = 0 /\ z.bad = e.bad /\ z.run_mode = e.run_mode
      /\ z.nested = e.nested /\ z.fault_resume = e.fault_resume
      /\ z.exception_processing = e.exception_processing
  BY <1>1, <1>2, <1>4, AcknowledgedFields
<1>7. Resembles(e, z)
  BY <1>6 DEF Resembles
<1>8. Sound(z, Handler(24 + l)) /\ SuperLive(z) = SuperLive(e)
  BY <1>5, <1>7, ResemblesSound DEF Stands
<1>9. OwedAt(z, Handler(24 + l))
  BY <1>5, <1>6, <1>8 DEF Stands, OwedAt
<1>10. Tidy(z) /\ Deep(z, d + 184)
  BY <1>5, <1>6 DEF Stands, Tidy, Deep
<1>11. Mild(z) /\ ~faulted(z)
  BY <1>5, <1>6 DEF Stands, Mild, faulted, prefetch_enabled, Guested
<1>12. Follows(x, z)
  <2>1. Follows(e, z)
    BY <1>6 DEF Follows, Guested
  <2> QED BY <1>3, <1>4, <2>1, FirmFollows, FollowsTrans
<1> QED BY <1>4, <1>6, <1>8, <1>9, <1>10, <1>11, <1>12 DEF Stands

----------------------------------------------------------------------------
(* The instruction stream *)

\* y has the stacks of x, and no interrupt more to take
Sheds(x, y) ==
    /\ y.cpu_type = x.cpu_type /\ y.prog = x.prog /\ y.data = x.data /\ y.astray = x.astray
    /\ y.dar = x.dar /\ y.sp = x.sp /\ y.sr = x.sr /\ y.stk = x.stk /\ y.owed \subseteq x.owed

LEMMA ShedsStands ==
    ASSUME NEW x, NEW pc, NEW d, Stands(x, pc, d), NEW y \in Machine, Sheds(x, y), y.bad = x.bad,
           ~faulted(y)
    PROVE  Stands(y, pc, d)
<1>1. sp_index(y) = sp_index(x)
  BY DEF Sheds, sp_index
<1>2. \A b \in {0, 4, 6} : SpOf(y, b) = SpOf(x, b)
  BY <1>1 DEF Sheds, SpOf
<1>3. \A b \in {0, 4, 6} : Live(y, b) = Live(x, b)
  BY <1>2 DEF Sheds, Live
<1>4. Resembles(x, y)
  BY <1>2, <1>3 DEF Sheds, Resembles, Guested
<1>5. Sound(y, pc) /\ SuperLive(y) = SuperLive(x)
  BY <1>4, ResemblesSound DEF Stands
<1>6. OwedAt(y, pc)
  BY <1>5 DEF Stands, OwedAt, Sheds
<1>7. Tidy(y) /\ Deep(y, d)
  BY <1>2 DEF Stands, Tidy, Deep, Sheds
<1>8. Mild(y)
  BY DEF Stands, Mild, Sheds, prefetch_enabled
<1> QED BY <1>5, <1>6, <1>7, <1>8 DEF Stands

\* Code starts at an even address
LEMMA EvenPlaces ==
    ASSUME NEW x, NEW pc, Shaped(x, pc)
    PROVE  pc \in Int /\ ~Odd(pc)
<1>1. Placed(x, pc, x.sr, SpOf(x, 4), SpOf(x, 6))
  BY DEF Shaped
<1>2. CASE GuestPc(x, pc) \/ pc \in {Subroutine, Subroutine + 2}
  <2>1. pc \in {16, 18, 20, 22, 200, 202}
    BY <1>2 DEF GuestPc, Body, UserCode, Subroutine
  <2> QED BY <2>1 DEF Odd
<1>3. CASE HandlerPc(x, pc)
  <2>1. pc \in Int /\ pc % 4 = 0
    BY <1>3 DEF HandlerPc
  <2>2. pc % 2 = 0
    BY <2>1
  <2> QED BY <2>1, <2>2 DEF Odd
<1> QED BY <1>1, <1>2, <1>3 DEF Placed, AtGuest, InCall, InHandler

\* A word is read off the queue
LEMMA QueueNext ==
    ASSUME NEW q \in Seq(Int), NEW pc \in Int, QueueAt(q, pc), q # <<>>
    PROVE  Head(q) = pc /\ Tail(q) \in Seq(Int) /\ QueueAt(Tail(q), pc + 2)
<1>1. Len(q) \in 1..2 /\ Head(q) = q[1] /\ Len(Tail(q)) = Len(q) - 1 /\ Tail(q) \in Seq(Int)
  <2>1. Len(q) \in Nat /\ Len(q) # 0 /\ Len(q) <= 2
    BY DEF QueueAt
  <2>2. Tail(q) \in Seq(Int) /\ Len(Tail(q)) = Len(q) - 1 /\ Head(q) = q[1]
    OBVIOUS
  <2> QED BY <2>1, <2>2
<1>2. q[1] = pc
  <2>1. q[1] = pc + 2 * (1 - 1)
    BY <1>1 DEF QueueAt
  <2> QED BY <2>1
<1>3. \A k \in 1..Len(Tail(q)) : Tail(q)[k] = q[k + 1] /\ k + 1 \in 1..Len(q)
  BY <1>1
<1>4. ASSUME NEW k \in 1..Len(Tail(q)) PROVE Tail(q)[k] = (pc + 2) + 2 * (k - 1)
  <2>1. q[k + 1] = pc + 2 * ((k + 1) - 1)
    BY <1>3 DEF QueueAt
  <2>2. Tail(q)[k] = q[k + 1]
    BY <1>3
  <2>3. pc + 2 * ((k + 1) - 1) = (pc + 2) + 2 * (k - 1)
    BY <1>1
  <2> QED BY <2>1, <2>2, <2>3
<1> QED BY <1>1, <1>2, <1>4 DEF QueueAt

\* y is x with the next word read
Advanced(x, y) ==
    /\ y \in Machine /\ Verbatim(x, y) /\ Firm(x, y)
    /\ y.pc = x.pc + 2 /\ QueueAt(y.queue, y.pc) /\ y.ppc = x.ppc
    /\ y.sr_save = x.sr_save /\ y.dar_save = x.dar_save

LEMMA AdvancedFields ==
    ASSUME NEW x \in Machine, NEW q \in Seq(Int), QueueAt(q, x.pc + 2), NEW y,
           y = [x EXCEPT !.pc = x.pc + 2, !.queue = q]
    PROVE  Advanced(x, y)
<1>1. x.pc + 2 \in Int
  BY DEF Machine
<1> DEFINE a == x.pc + 2
<1>2. /\ y \in Machine /\ y.pc = a /\ y.queue = q
  <2> HIDE DEF a
  <2> QED BY <1>1 DEF Machine, a
<1>3. Verbatim(x, y) /\ Firm(x, y)
  BY DEF Machine, Verbatim, Firm, Same, Steady
<1>4. y.ppc = x.ppc /\ y.sr_save = x.sr_save /\ y.dar_save = x.dar_save
  BY DEF Machine
<1> QED BY <1>2, <1>3, <1>4 DEF Advanced

LEMMA ReadNext ==
    ASSUME NEW x \in Machine, Mild(x), ~Odd(x.pc), QueueAt(x.queue, x.pc),
           NEW y, y = ReadStream(x).m
    PROVE  \/ CodeRegion(x.pc) \in x.bad /\ y = trigger_bus_error(x) /\ ~prefetch_enabled(x)
           \/ ReadStream(x).w = x.pc /\ Advanced(x, y)
<1>1. x.queue \in Seq(Int) /\ x.pc \in Int
  BY DEF Machine
<1>2. CASE x.queue # <<>>
  <2> DEFINE q == Tail(x.queue)
  <2>1. Head(x.queue) = x.pc /\ q \in Seq(Int) /\ QueueAt(q, x.pc + 2)
    BY <1>1, <1>2, QueueNext
  <2>2. y = [x EXCEPT !.pc = x.pc + 2, !.queue = q] /\ ReadStream(x).w = x.pc
    BY <1>2, <2>1 DEF ReadStream
  <2> HIDE DEF q
  <2> QED BY <2>1, <2>2, AdvancedFields
<1>3. CASE x.queue = <<>> /\ CodeRegion(x.pc) \in x.bad
  <2>1. y = trigger_bus_error(x)
    BY <1>3 DEF ReadStream
  <2>2. ~prefetch_enabled(x)
    BY <1>3, CodeNotData DEF Mild
  <2> QED BY <1>3, <2>1, <2>2
<1>4. CASE x.queue = <<>> /\ CodeRegion(x.pc) \notin x.bad
  <2>1. y = [x EXCEPT !.pc = x.pc + 2] /\ ReadStream(x).w = x.pc
    BY <1>4 DEF ReadStream
  <2>2. [x EXCEPT !.pc = x.pc + 2] = [x EXCEPT !.pc = x.pc + 2, !.queue = <<>>]
    BY <1>4 DEF Machine
  <2>3. <<>> \in Seq(Int) /\ QueueAt(<<>>, x.pc + 2)
    BY DEF QueueAt
  <2> QED BY <2>1, <2>2, <2>3, AdvancedFields
<1> QED BY <1>2, <1>3, <1>4

LEMMA AdvancedResidue ==
    ASSUME NEW x, NEW y, Advanced(x, y)
    PROVE  Residue(x, y) /\ Alike(x, y)
  BY VerbatimAlike DEF Advanced, Verbatim, Residue

\* The interrupts still owed are stacked
OwedStacked(x) ==
    \A l \in x.owed : \E c \in SuperLive(x) : Std(c) /\ c.f.pc = Handler(24 + l)

\* An instruction has been fetched at ppc
Decoded(x, d) ==
    /\ Saved(x, d) /\ Stands(x, x.ppc, d) /\ OwedStacked(x)
    /\ x.pc = x.ppc + 2 /\ QueueAt(x.queue, x.pc)

\* The snapshots of FetchOpcode
Snapped(x, y) == y = [x EXCEPT !.ppc = x.pc, !.dar_save = x.dar, !.sr_save = x.sr]

LEMMA SnappedFields ==
    ASSUME NEW x \in Machine, NEW y, Snapped(x, y)
    PROVE  /\ y \in Machine /\ Verbatim(x, y) /\ Firm(x, y)
           /\ y.pc = x.pc /\ y.queue = x.queue /\ y.ppc = x.pc
           /\ y.sr_save = x.sr /\ y.dar_save = x.dar
<1>1. y \in Machine
  BY DEF Machine, Snapped
<1>2. Verbatim(x, y) /\ Firm(x, y)
  BY DEF Machine, Snapped, Verbatim, Firm, Same, Steady
<1>3. /\ y.pc = x.pc /\ y.queue = x.queue /\ y.ppc = x.pc
      /\ y.sr_save = x.sr /\ y.dar_save = x.dar
  BY DEF Machine, Snapped
<1> QED BY <1>1, <1>2, <1>3

LEMMA Snapshots ==
    ASSUME NEW x, NEW d, Whole(x, d), x.stopped = 0, NEW y, Snapped(x, y)
    PROVE  /\ y \in Machine /\ Verbatim(x, y) /\ Firm(x, y) /\ y.pc = x.pc /\ y.queue = x.queue
           /\ Saved(y, d) /\ Stands(y, x.pc, d) /\ y.ppc = x.pc
<1>1. x \in Machine /\ Stands(x, x.pc, d) /\ SrMasked(x, x.sr) = x.sr /\ Mild(x) /\ ~faulted(x)
  BY DEF Whole, Stands, Sound, Shaped
<1>2. y \in Machine /\ Verbatim(x, y) /\ Firm(x, y)
  BY <1>1, SnappedFields
<1>3. /\ y.pc = x.pc /\ y.queue = x.queue /\ y.ppc = x.pc
      /\ y.sr_save = x.sr /\ y.dar_save = x.dar
  BY <1>1, SnappedFields
<1> DEFINE r == Rollback(y)
<1>4. /\ Residue(y, r) /\ r.sr = SrMasked(y, y.sr_save) /\ r.dar = y.dar_save
  BY <1>2, RollbackFields
<1> HIDE DEF r
<1>5. SrMasked(y, x.sr) = SrMasked(x, x.sr)
  BY <1>2 DEF Verbatim, SrMasked, is_pre_68020
<1>6. Verbatim(x, r) /\ r.bad = x.bad /\ r.run_mode = x.run_mode
  BY <1>1, <1>2, <1>3, <1>4, <1>5 DEF Residue, Verbatim, Firm, Same, Steady
<1>7. Stands(r, x.pc, d)
  BY <1>1, <1>4, <1>6, VerbatimAlike, StandsAlike DEF Residue, faulted
<1>8. Stands(y, x.pc, d)
  BY <1>1, <1>2, VerbatimAlike, StandsAlike DEF Firm, Same, Steady, faulted
<1>9. /\ y.stopped = 0 /\ y.fault_resume = NoResume /\ ~y.nested /\ ~y.exception_processing
      /\ ~faulted(y) /\ Mild(y)
  BY <1>1, <1>2, MildSame DEF Whole, Firm, Same, Steady, faulted
<1>10. Saved(y, d)
  BY <1>2, <1>3, <1>7, <1>9 DEF Saved, r
<1> QED BY <1>2, <1>3, <1>8, <1>10

LEMMA OwedFields ==
    ASSUME NEW x \in Machine, NEW T, T \subseteq x.owed, NEW y, y = [x EXCEPT !.owed = T]
    PROVE  /\ y \in Machine /\ Sheds(x, y) /\ Firm(x, y) /\ y.owed = T /\ y.pc = x.pc
           /\ y.ppc = x.ppc /\ y.queue = x.queue
           /\ y.sr_save = x.sr_save /\ y.dar_save = x.dar_save
<1>1. T \in SUBSET Levels
  BY DEF Machine
<1>2. y \in Machine
  BY <1>1 DEF Machine
<1>3. y.owed = T /\ y.pc = x.pc /\ y.ppc = x.ppc /\ y.queue = x.queue
      /\ y.sr_save = x.sr_save /\ y.dar_save = x.dar_save
  BY DEF Machine
<1>4. Sheds(x, y) /\ Firm(x, y)
  BY DEF Machine, Sheds, Firm, Same, Steady
<1> QED BY <1>2, <1>3, <1>4

LEMMA OwedShed ==
    ASSUME NEW x, NEW d, Saved(x, d), NEW T, T \subseteq x.owed, NEW y, y = [x EXCEPT !.owed = T]
    PROVE  Saved(y, d)
<1> DEFINE r == Rollback(x)
           s == Rollback(y)
<1>1. x \in Machine /\ Mild(x) /\ ~faulted(x) /\ Stands(r, x.ppc, d)
  BY DEF Saved
<1> HIDE DEF r, s
<1>2. /\ y \in Machine /\ Sheds(x, y) /\ Firm(x, y) /\ y.ppc = x.ppc
      /\ y.sr_save = x.sr_save /\ y.dar_save = x.dar_save
  BY <1>1, OwedFields
<1>3. /\ Residue(x, r) /\ r.sr = SrMasked(x, x.sr_save) /\ r.dar = x.dar_save
      /\ Residue(y, s) /\ s.sr = SrMasked(y, y.sr_save) /\ s.dar = y.dar_save
  BY <1>1, <1>2, RollbackFields DEF r, s
<1>4. SrMasked(y, y.sr_save) = SrMasked(x, x.sr_save)
  BY <1>2 DEF Firm, Same, SrMasked, is_pre_68020
<1>5. Sheds(r, s) /\ s.bad = r.bad /\ s \in Machine /\ s.run_mode = x.run_mode
  BY <1>2, <1>3, <1>4 DEF Residue, Sheds, Firm, Same, Steady
<1>6. Stands(s, y.ppc, d)
  BY <1>1, <1>2, <1>5, ShedsStands DEF faulted
<1>7. Mild(y) /\ ~faulted(y)
  BY <1>1, <1>2, MildSame DEF Firm, Steady, faulted
<1> QED BY <1>2, <1>6, <1>7 DEF Saved, s, Firm, Same, Steady

LEMMA Fetching ==
    ASSUME NEW x, NEW d \in 0..800, Whole(x, d), x.stopped = 0, QueueAt(x.queue, x.pc),
           NEW y, y = FetchOpcode(x).m
    PROVE  /\ faulted(y) => Due(y, d + 92)
           /\ ~faulted(y) => /\ Decoded(y, d) /\ FetchOpcode(x).w = y.ppc /\ y.ppc = x.pc
                             /\ Follows(x, y) /\ Sheds(x, y)
<1> DEFINE s == [x EXCEPT !.ppc = x.pc, !.dar_save = x.dar, !.sr_save = x.sr]
           f == ReadStream(s).m
           w == ReadStream(s).w
           T == { l \in f.owed : faulted(f) \/ Handler(24 + l) # w }
<1>1. /\ s \in Machine /\ Verbatim(x, s) /\ Firm(x, s) /\ s.pc = x.pc /\ s.queue = x.queue
      /\ Saved(s, d) /\ Stands(s, x.pc, d) /\ s.ppc = x.pc
  <2>1. Snapped(x, s)
    BY DEF Snapped
  <2> HIDE DEF s
  <2> QED BY <2>1, Snapshots
<1>2. y = [f EXCEPT !.owed = T] /\ FetchOpcode(x).w = w
  <2> DEFINE g == ReadStream(s)
  <2>1. FetchOpcode(x) = [g EXCEPT !.m.owed = { l \in @ : faulted(g.m) \/ Handler(24 + l) # g.w }]
    BY DEF FetchOpcode, Started, get_sr
  <2>2. \E a, b : g = [m |-> a, w |-> b]
    <3> HIDE DEF s
    <3> QED BY DEF ReadStream
  <2>3. PICK a, b : g = [m |-> a, w |-> b]
    BY <2>2
  <2>4. f = a /\ w = b
    BY <2>3
  <2> HIDE DEF g, s
  <2>5. FetchOpcode(x) = [m |-> [a EXCEPT !.owed = { l \in @ : faulted(a) \/ Handler(24 + l) # b }], w |-> b]
    BY <2>1, <2>3
  <2> QED BY <2>4, <2>5
<1> HIDE DEF s, w, f
<1>3. ~Odd(s.pc) /\ QueueAt(s.queue, s.pc) /\ Mild(s)
  <2>1. Shaped(x, x.pc)
    BY DEF Whole, Stands, Sound
  <2> QED BY <1>1, <2>1, EvenPlaces DEF Stands
<1>4. \/ CodeRegion(s.pc) \in s.bad /\ f = trigger_bus_error(s)
      \/ w = s.pc /\ Advanced(s, f)
  BY <1>1, <1>3, ReadNext DEF f, w
<1>5. T \subseteq f.owed /\ (faulted(f) => T = f.owed)
  OBVIOUS
<1>6. CASE CodeRegion(s.pc) \in s.bad /\ f = trigger_bus_error(s)
  <2>1. Due(f, d + 92)
    BY <1>1, <1>6, FaultDelivered
  <2>2. f \in Machine /\ T = f.owed
    BY <1>5, <2>1 DEF Due
  <2> HIDE DEF T
  <2>3. Residue(f, y)
    BY <1>2, <2>2, OwedFields DEF Sheds, Residue
  <2>4. Due(y, d + 92)
    BY <2>1, <2>3, DueStays
  <2> QED BY <2>4 DEF Due
<1>7. CASE w = s.pc /\ Advanced(s, f)
  <2>1. Residue(s, f) /\ Alike(s, f) /\ f.ppc = s.ppc /\ f.sr_save = s.sr_save /\ f.dar_save = s.dar_save
        /\ f.pc = s.pc + 2 /\ QueueAt(f.queue, f.pc) /\ f \in Machine /\ Firm(s, f)
    BY <1>7, AdvancedResidue DEF Advanced
  <2>2. Saved(f, d)
    BY <1>1, <2>1, SavedStays
  <2>3. Stands(f, x.pc, d)
    BY <1>1, <2>1, StandsAlike DEF Stands, Firm, Same, Steady, faulted
  <2>4. \A l \in T : Handler(24 + l) # x.pc
    BY <1>1, <1>7, <2>3 DEF Stands
  <2> HIDE DEF T
  <2>5. /\ y \in Machine /\ Sheds(f, y) /\ Firm(f, y) /\ y.owed = T /\ y.pc = f.pc
        /\ y.ppc = f.ppc /\ y.queue = f.queue
    BY <1>2, <1>5, <2>1, OwedFields
  <2>6. Saved(y, d)
    BY <1>2, <1>5, <2>2, OwedShed
  <2>7. Stands(y, x.pc, d) /\ ~faulted(y)
    BY <2>3, <2>5, ShedsStands DEF Stands, Firm, Same, Steady, faulted
  <2>8. OwedStacked(y)
    BY <2>4, <2>5, <2>7 DEF Stands, OwedAt, OwedStacked
  <2>9. Decoded(y, d)
    BY <1>1, <2>1, <2>5, <2>6, <2>7, <2>8 DEF Decoded
  <2>10. Follows(x, y)
    BY <1>1, <2>1, <2>5, FirmFollows, FollowsTrans
  <2>11. Sheds(x, y)
    <3>1. Verbatim(s, f)
      BY <1>7 DEF Advanced
    <3> QED BY <1>1, <2>5, <3>1 DEF Verbatim, Sheds
  <2> QED BY <1>1, <1>2, <1>7, <2>1, <2>5, <2>7, <2>9, <2>10, <2>11
<1> QED BY <1>4, <1>6, <1>7

=============================================================================
