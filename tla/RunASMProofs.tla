----------------------------- MODULE RunASMProofs -----------------------------
(* Proofs about the generated code, for every function that GenIR can make:   *)
(* slots of the frame do not overlap, seven temporaries are enough, and code  *)
(* of different blocks stands under different labels. Then about the code     *)
(* when it runs, for every runnable function: it is refused for known reasons *)
(* only, keeps to its frame, gives the stack back, and does what the IR says. *)
EXTENDS RunASM, FiniteSetTheorems, WellFoundedInduction, NaturalsInduction, TLAPS

-----------------------------------------------------------------------------
(* The order of the places.                                                   *)

\* A place is a pair of positive numbers, and holds an instruction.
LEMMA PlacesTyped ==
    ASSUME NEW f \in Functions, NEW p \in Places(f)
    PROVE  /\ p \in Nat \X Nat
           /\ p = <<p[1], p[2]>>
           /\ p[1] \in DOMAIN f.blocks /\ p[2] \in DOMAIN f.blocks[p[1]]
           /\ InsAt(f, p) \in IRInstrs(f)
<1> f.blocks \in Seq(Seq(IRInstrs(f)))
  BY FunctionsAssumption
<1>1. PICK b \in DOMAIN f.blocks : p \in {b} \X DOMAIN f.blocks[b]
  BY DEF Places
<1>2. b \in Nat /\ f.blocks[b] \in Seq(IRInstrs(f))
  OBVIOUS
<1>3. /\ p[1] = b /\ p[2] \in DOMAIN f.blocks[b]
      /\ p = <<p[1], p[2]>>
  BY <1>1
<1>4. p[2] \in Nat /\ f.blocks[b][p[2]] \in IRInstrs(f)
  BY <1>2, <1>3
<1> QED
  BY <1>2, <1>3, <1>4 DEF InsAt

\* The places of a function are finitely many.
LEMMA PlacesFinite ==
    ASSUME NEW f \in Functions
    PROVE  IsFiniteSet(Places(f))
<1> f.blocks \in Seq(Seq(IRInstrs(f)))
  BY FunctionsAssumption
<1> DEFINE D == DOMAIN f.blocks
           T == {{b} \X DOMAIN f.blocks[b] : b \in D}
           g == [b \in D |-> {b} \X DOMAIN f.blocks[b]]
<1>1. IsFiniteSet(D)
  <2>1. D = 1..Len(f.blocks) /\ Len(f.blocks) \in Nat
    OBVIOUS
  <2>2. 1 \in Int /\ Len(f.blocks) \in Int
    BY <2>1
  <2> HIDE DEF D
  <2>3. IsFiniteSet(1..Len(f.blocks))
    BY <2>2, FS_Interval, Zenon
  <2> QED
    BY <2>1, <2>3
<1>2. IsFiniteSet(T)
  <2>1. g \in Surjection(D, T)
    BY DEF Surjection
  <2> QED
    BY <1>1, <2>1, FS_Surjection
<1>3. ASSUME NEW U \in T
      PROVE  IsFiniteSet(U)
  <2>1. PICK b \in D : U = {b} \X DOMAIN f.blocks[b]
    OBVIOUS
  <2>2. f.blocks[b] \in Seq(IRInstrs(f))
    OBVIOUS
  <2>3. DOMAIN f.blocks[b] = 1..Len(f.blocks[b]) /\ Len(f.blocks[b]) \in Nat
    BY <2>2
  <2>4. IsFiniteSet(DOMAIN f.blocks[b])
    BY <2>3, FS_Interval
  <2>5. IsFiniteSet({b})
    BY FS_Singleton
  <2> QED
    BY <2>1, <2>4, <2>5, FS_Product
<1> HIDE DEF T
<1>4. IsFiniteSet(UNION T)
  BY <1>2, <1>3, FS_UNION
<1> QED
  BY <1>4 DEF Places, T

\* Of two different places one is before the other, and the order is strict.
LEMMA BeforeOrders ==
    ASSUME NEW f \in Functions, NEW p \in Places(f), NEW q \in Places(f)
    PROVE  /\ ~Before(p, p)
           /\ Before(p, q) => ~Before(q, p)
           /\ p # q => Before(p, q) \/ Before(q, p)
           /\ \A r \in Places(f) : Before(p, q) /\ Before(q, r) => Before(p, r)
<1>1. \A x \in Places(f) : x = <<x[1], x[2]>> /\ x[1] \in Nat /\ x[2] \in Nat
  BY PlacesTyped
<1> QED
  BY <1>1 DEF Before

\* Every set of places has a first one.
LEMMA FirstPlace ==
    ASSUME NEW f \in Functions, NEW T \in SUBSET Places(f), T # {}
    PROVE  \E p \in T : \A q \in T : ~Before(q, p)
<1> DEFINE L == {ss \in Nat \X Nat : ss[1] < ss[2]}
           R == LexPairOrdering(L, L, Nat, Nat)
<1>1. IsWellFoundedOn(L, Nat)
  BY NatLessThanWellFounded DEF OpToRel
<1>2. IsWellFoundedOn(R, Nat \X Nat)
  BY <1>1, WFLexPairOrdering
<1>3. T \subseteq Nat \X Nat
  BY PlacesTyped
<1>4. PICK p \in T : \A q \in T : ~(<<q, p>> \in R)
  BY <1>2, <1>3, WFMin
<1>5. ASSUME NEW q \in T, Before(q, p)
      PROVE  <<q, p>> \in R
  <2>1. q \in Nat \X Nat /\ p \in Nat \X Nat
    BY <1>3
  <2> QED
    BY <1>5, <2>1 DEF Before, LexPairOrdering
<1> QED
  BY <1>4, <1>5

-----------------------------------------------------------------------------
(* The slots.                                                                 *)

\* A definition that gets a slot is the only one of its symbol that does, and
\* the slot stands behind those of the definitions before it.
LEMMA SlotOfFirst ==
    ASSUME NEW f \in Functions, NEW p \in FirstDefs(f)
    PROVE  /\ FirstDefsOf(f, InsAt(f, p).def) = {p}
           /\ SlotsBefore(f, {p}) \in SUBSET FirstDefs(f)
           /\ p \notin SlotsBefore(f, {p})
           /\ Offset(f, InsAt(f, p).def)
                 = IntSize * Cardinality(SlotsBefore(f, {p}))
<1> DEFINE s == InsAt(f, p).def
<1>1. FirstDefs(f) \subseteq DefPlaces(f) /\ DefPlaces(f) \subseteq Places(f)
  BY DEF FirstDefs, DefPlaces
<1>2. ASSUME NEW q \in FirstDefsOf(f, s)
      PROVE  q = p
  <2>1. q \in FirstDefs(f) /\ NameAt(f, q) = NameAt(f, p)
    BY DEF FirstDefsOf, NameAt
  <2>2. ~Before(q, p) /\ ~Before(p, q)
    BY <1>1, <2>1 DEF FirstDefs
  <2> QED
    BY <1>1, <2>1, <2>2, BeforeOrders
<1>3. p \in FirstDefsOf(f, s)
  BY DEF FirstDefsOf
<1>4. FirstDefsOf(f, s) = {p}
  BY <1>2, <1>3
<1>5. p \notin SlotsBefore(f, {p})
  BY <1>1, BeforeOrders DEF SlotsBefore
<1>6. SlotsBefore(f, {p}) \in SUBSET FirstDefs(f)
  BY DEF SlotsBefore
<1>7. Offset(f, s) = IntSize * Cardinality(SlotsBefore(f, {p}))
  BY <1>4 DEF Offset
<1> QED
  BY <1>4, <1>5, <1>6, <1>7

\* The counts behind the offsets are natural numbers, below the number of slots.
LEMMA SlotCounts ==
    ASSUME NEW f \in Functions
    PROVE  /\ IsFiniteSet(FirstDefs(f)) /\ Cardinality(FirstDefs(f)) \in Nat
           /\ \A p \in FirstDefs(f) :
                 /\ Cardinality(SlotsBefore(f, {p})) \in Nat
                 /\ Cardinality(SlotsBefore(f, {p})) < Cardinality(FirstDefs(f))
<1>1. FirstDefs(f) \in SUBSET Places(f)
  BY DEF FirstDefs, DefPlaces
<1>2. IsFiniteSet(FirstDefs(f))
  BY <1>1, PlacesFinite, FS_Subset
<1>3. Cardinality(FirstDefs(f)) \in Nat
  BY <1>2, FS_CardinalityType
<1>4. ASSUME NEW p \in FirstDefs(f)
      PROVE  /\ Cardinality(SlotsBefore(f, {p})) \in Nat
             /\ Cardinality(SlotsBefore(f, {p})) < Cardinality(FirstDefs(f))
  <2> DEFINE B == SlotsBefore(f, {p})
  <2>1. B \in SUBSET FirstDefs(f) /\ B # FirstDefs(f)
    BY SlotOfFirst
  <2> HIDE DEF B
  <2>2. /\ IsFiniteSet(B) /\ Cardinality(B) <= Cardinality(FirstDefs(f))
        /\ Cardinality(FirstDefs(f)) # Cardinality(B)
    BY <1>2, <2>1, FS_Subset
  <2>3. Cardinality(B) \in Nat
    BY <2>2, FS_CardinalityType
  <2> QED
    BY <1>3, <2>2, <2>3 DEF B
<1> QED
  BY <1>2, <1>3, <1>4

\* A later slot has more slots before it.
LEMMA SlotsAscend ==
    ASSUME NEW f \in Functions, NEW p \in FirstDefs(f), NEW q \in FirstDefs(f),
           Before(p, q)
    PROVE  Cardinality(SlotsBefore(f, {p})) + 1
               <= Cardinality(SlotsBefore(f, {q}))
<1> DEFINE P == SlotsBefore(f, {p})
           Q == SlotsBefore(f, {q})
<1>1. FirstDefs(f) \in SUBSET Places(f)
  BY DEF FirstDefs, DefPlaces
<1>2. P \in SUBSET FirstDefs(f) /\ Q \in SUBSET FirstDefs(f) /\ p \notin P
  BY SlotOfFirst
<1>3. P \cup {p} \in SUBSET Q
  <2>1. ASSUME NEW r \in P
        PROVE  r \in Q
    <3>1. r \in FirstDefs(f) /\ Before(r, p)
      BY DEF SlotsBefore
    <3>2. Before(r, q)
      BY <1>1, <3>1, BeforeOrders
    <3> QED
      BY <3>1, <3>2 DEF SlotsBefore
  <2>2. p \in Q
    BY DEF SlotsBefore
  <2> QED
    BY <2>1, <2>2
<1>4. Cardinality(P) \in Nat /\ Cardinality(Q) \in Nat
  BY SlotCounts
<1> HIDE DEF P, Q
<1>5. IsFiniteSet(P) /\ IsFiniteSet(Q)
  BY <1>2, SlotCounts, FS_Subset
<1>6. Cardinality(P \cup {p}) = Cardinality(P) + 1
  BY <1>2, <1>5, FS_AddElement
<1>7. Cardinality(P \cup {p}) <= Cardinality(Q)
  BY <1>3, <1>5, FS_Subset
<1> QED
  BY <1>6, <1>7 DEF P, Q

\* Rounding up does not shrink.
LEMMA AlignUp ==
    ASSUME NEW n \in Nat
    PROVE  align_16_bytes(n) \in Nat /\ n <= align_16_bytes(n)
BY DEF align_16_bytes

\* Of the definitions of one name the first gets a slot.
LEMMA NameHasSlot ==
    ASSUME NEW f \in Functions, NEW p \in DefPlaces(f)
    PROVE  \E q \in FirstDefs(f) : NameAt(f, q) = NameAt(f, p)
<1> DEFINE T == {q \in DefPlaces(f) : NameAt(f, q) = NameAt(f, p)}
<1>1. T \in SUBSET Places(f) /\ T # {}
  BY DEF DefPlaces
<1>2. PICK q \in T : \A r \in T : ~Before(r, q)
  BY <1>1, FirstPlace
<1>3. q \in FirstDefs(f)
  BY <1>2 DEF FirstDefs
<1> QED
  BY <1>3

-----------------------------------------------------------------------------
(* The frame is laid out once.                                                *)

FrameLaid ==
    /\ func \in Functions
    /\ DOMAIN offset = Names(func)
    /\ phase # "prologue" =>
          /\ offset = [s \in Names(func) |-> Offset(func, s)]
          /\ stackSz = align_16_bytes(IntSize * Cardinality(FirstDefs(func)))

LEMMA FrameLaidInit == Init => FrameLaid
BY DEF Init, FrameLaid, Names

LEMMA FrameLaidStep ==
    ASSUME FrameLaid, [GenNext]_genVars
    PROVE  FrameLaid'
<1> USE DEF FrameLaid
<1>1. CASE Prologue
  BY <1>1 DEF Prologue
<1>2. CASE EnterBlock
  BY <1>2 DEF EnterBlock
<1>3. CASE LeaveBlock
  BY <1>3 DEF LeaveBlock
<1>4. CASE VisitAlloc
  BY <1>4 DEF VisitAlloc, AtInstr, Emit
<1>5. CASE VisitRet
  BY <1>5 DEF VisitRet, AtInstr, Emit, AssertFails
<1>6. CASE VisitStore
  BY <1>6 DEF VisitStore, AtInstr, Emit, AssertFails
<1>7. CASE VisitLoad
  BY <1>7 DEF VisitLoad, AtInstr, Emit
<1>8. CASE \E op \in BinaryOps : VisitBExpr(op)
  BY <1>8 DEF VisitBExpr, AtInstr, Emit
<1>9. CASE VisitBr
  BY <1>9 DEF VisitBr, AtInstr, Emit
<1>10. CASE VisitJump
  BY <1>10 DEF VisitJump, AtInstr, Emit
<1>11. CASE UNCHANGED genVars
  BY <1>11 DEF genVars
<1> QED
  BY <1>1, <1>2, <1>3, <1>4, <1>5, <1>6, <1>7, <1>8, <1>9, <1>10, <1>11
     DEF GenNext

LEMMA FrameLaidInvariant == GenSpec => []FrameLaid
<1>1. FrameLaid /\ [GenNext]_genVars => FrameLaid'
  BY FrameLaidStep
<1> QED
  BY <1>1, FrameLaidInit, PTL DEF GenSpec

LEMMA FrameLaidDisjoint == FrameLaid => SlotsDisjoint
<1> SUFFICES ASSUME FrameLaid, phase # "prologue"
             PROVE  SlotsDisjoint
  BY DEF SlotsDisjoint
<1> DEFINE n == Cardinality(FirstDefs(func))
           Count(p) == Cardinality(SlotsBefore(func, {p}))
<1>1. func \in Functions
  BY DEF FrameLaid
<1>2. n \in Nat /\ \A p \in FirstDefs(func) : Count(p) \in Nat /\ Count(p) < n
  BY <1>1, SlotCounts
<1>3. stackSz \in Nat /\ IntSize * n <= stackSz
  BY <1>2, AlignUp DEF FrameLaid, IntSize
<1>4. ASSUME NEW p \in DefPlaces(func)
      PROVE  InsAt(func, p).def \in Names(func)
  <2>1. p \in Places(func) /\ InsAt(func, p).def # NoSymbol
    BY DEF DefPlaces, IsSymbolDef
  <2>2. InsAt(func, p) \in IRInstrs(func)
    BY <1>1, <2>1, PlacesTyped
  <2> QED
    BY <2>1, <2>2 DEF IRInstrs
<1>5. ASSUME NEW p \in FirstDefs(func)
      PROVE  /\ InsAt(func, p).def \in Slotted
             /\ offset[InsAt(func, p).def] = IntSize * Count(p)
  <2>1. p \in DefPlaces(func)
    BY DEF FirstDefs
  <2>2. offset[InsAt(func, p).def] = IntSize * Count(p)
    BY <1>1, <1>4, <2>1, SlotOfFirst DEF FrameLaid
  <2>3. offset[InsAt(func, p).def] # NoOffset
    BY <1>2, <2>2 DEF IntSize, NoOffset
  <2> QED
    BY <2>1, <2>2, <2>3 DEF Slotted, Occurring
<1>6. ASSUME NEW s \in Slotted
      PROVE  \E p \in FirstDefs(func) : InsAt(func, p).def = s
  <2>1. PICK p \in DefPlaces(func) : InsAt(func, p).def = s
    BY DEF Slotted, Occurring
  <2>2. Offset(func, s) # NoOffset
    BY <1>4, <2>1 DEF Slotted, FrameLaid
  <2>3. FirstDefsOf(func, s) # {}
    BY <2>2 DEF Offset
  <2> QED
    BY <2>3 DEF FirstDefsOf
<1>7. ASSUME NEW s \in Slotted
      PROVE  0 <= offset[s] /\ offset[s] + IntSize <= stackSz
  <2>1. PICK p \in FirstDefs(func) : InsAt(func, p).def = s
    BY <1>6
  <2>2. offset[s] = IntSize * Count(p) /\ Count(p) \in Nat /\ Count(p) < n
    BY <1>2, <1>5, <2>1
  <2> HIDE DEF n, Count
  <2> QED
    BY <1>2, <1>3, <2>2 DEF IntSize
<1>8. ASSUME NEW s \in Slotted, NEW t \in Slotted, s # t
      PROVE  \/ offset[s] + IntSize <= offset[t]
             \/ offset[t] + IntSize <= offset[s]
  <2>1. PICK p \in FirstDefs(func) : InsAt(func, p).def = s
    BY <1>6
  <2>2. PICK q \in FirstDefs(func) : InsAt(func, q).def = t
    BY <1>6
  <2>3. p \in Places(func) /\ q \in Places(func) /\ p # q
    BY <1>8, <2>1, <2>2 DEF FirstDefs, DefPlaces
  <2>4. Before(p, q) \/ Before(q, p)
    BY <1>1, <2>3, BeforeOrders
  <2>5. Count(p) + 1 <= Count(q) \/ Count(q) + 1 <= Count(p)
    BY <1>1, <2>4, SlotsAscend
  <2>6. /\ offset[s] = IntSize * Count(p) /\ offset[t] = IntSize * Count(q)
        /\ Count(p) \in Nat /\ Count(q) \in Nat
    BY <1>2, <1>5, <2>1, <2>2
  <2> HIDE DEF Count
  <2> QED
    BY <2>5, <2>6 DEF IntSize
<1>9. ASSUME NEW s \in Occurring
      PROVE  \E t \in Slotted : func.names[t] = func.names[s]
  <2>1. PICK p \in DefPlaces(func) : InsAt(func, p).def = s
    BY DEF Occurring
  <2>2. PICK q \in FirstDefs(func) : NameAt(func, q) = NameAt(func, p)
    BY <1>1, NameHasSlot
  <2> QED
    BY <1>5, <2>1, <2>2 DEF NameAt
<1> QED
  BY <1>7, <1>8, <1>9 DEF SlotsDisjoint

\* Of every function the compiler can be given, the slots of the frame lie
\* inside it and do not overlap, and every name has one (GenASM.cc:18-51).
THEOREM SlotsAreDisjoint == GenSpec => []SlotsDisjoint
BY FrameLaidInvariant, FrameLaidDisjoint, PTL
-----------------------------------------------------------------------------
(* The registers.                                                             *)

Regs == {X0, A0, SP} \cup TmpVars
Opcodes == {"li", "lw", "sw", "add", "addi", "xor", "xori", "slt", "sgt", "sub",
            "mul", "div", "rem", "seqz", "snez", "bnez", "j", "ret"}
ASMInstrs == [op : Opcodes, rd : Regs, a : Int, b : Int, to : Nat,
              ir : Nat \X Nat]
BBs == [label : Nat, instrs : Seq(ASMInstrs)]

\* What is generated for the instruction that is visited now.
Own == {ins \in ASMInstrs : ins.ir = todo}

\* Between two visits no temporary register is in use.
GenTyped ==
    /\ func \in Functions
    /\ todo \in Nat \X Nat /\ todo[1] \in DOMAIN func.blocks
    /\ offset \in [Names(func) -> Int] /\ stackSz \in Int
    /\ bbs \in Seq(BBs)
    /\ phase # "prologue" => curBB \in DOMAIN bbs
    /\ tmpVarCount = 0

LEMMA AsmTyped ==
    ASSUME todo \in Nat \X Nat, NEW op \in Opcodes, NEW rd \in Regs,
           NEW a \in Int, NEW b \in Int, NEW to \in Nat
    PROVE  /\ ASM(op, rd, a, b, to) \in Own
           /\ Instr3(op, rd, a, b) \in Own
BY DEF ASM, ASMInstrs, Own, Instr3

\* The shorter forms, whose other operands are x0.
LEMMA ShortTyped ==
    ASSUME todo \in Nat \X Nat, NEW op \in Opcodes, NEW rd \in Regs,
           NEW a \in Int, NEW to \in Nat
    PROVE  /\ Instr0(op) \in Own
           /\ Instr1S(op, to) \in Own
           /\ Instr2RI(op, rd, a) \in Own
           /\ Instr2RR(op, rd, a) \in Own
           /\ Instr2RS(op, rd, to) \in Own
<1>1. X0 \in Int /\ X0 \in Regs /\ 0 \in Nat
  BY DEF X0, Regs
<1> HIDE DEF Regs
<1>2. /\ ASM(op, X0, X0, X0, 0) \in Own
      /\ ASM(op, X0, X0, X0, to) \in Own
  BY <1>1, AsmTyped
<1>3. /\ ASM(op, rd, a, X0, 0) \in Own
      /\ ASM(op, rd, X0, X0, to) \in Own
  BY <1>1, AsmTyped
<1> QED
  BY <1>2, <1>3 DEF Instr0, Instr1S, Instr2RI, Instr2RR, Instr2RS

\* A register of an instruction may stand where an integer may.
LEMMA RegsAreIntegers ==
    Regs \subseteq Int /\ X0 \in Regs /\ A0 \in Regs /\ SP \in Regs
BY DEF Regs, X0, A0, SP, TmpVars

\* A visit that lowers its instruction appends code for that instruction, and
\* gives its registers back.
AtCode == phase = "code" /\ todo[2] \in DOMAIN Body
EmitsOwn == AtCode /\ tmpVarCount' = 0 /\ \E code \in Seq(Own) : Emit(code)

\* An operand takes at most one register, the next.
LEMMA GetRegTyped ==
    ASSUME GenTyped, NEW v \in Operands(func), NEW t \in 0..5
    PROVE  /\ GetReg(v, t).reg \in Regs
           /\ GetReg(v, t).code \in Seq(Own)
           /\ GetReg(v, t).t \in {t, t + 1}
<1>1. todo \in Nat \X Nat /\ offset \in [Names(func) -> Int]
  BY DEF GenTyped
<1>2. t \in Regs /\ SP \in Int /\ X0 \in Int /\ X0 \in Regs /\ t \in Int
  BY DEF Regs, TmpVars, X0, SP
<1>3. CASE v.k = "num" /\ v.n = 0
  <2>1. GetReg(v, t) = [reg |-> X0, code |-> <<>>, t |-> t]
    BY <1>3 DEF GetReg
  <2> QED
    BY <1>2, <2>1
<1>4. CASE v.k = "num" /\ v.n # 0
  <2>1. GetReg(v, t)
          = [reg |-> t, code |-> <<Instr2RI("li", t, v.n)>>, t |-> t + 1]
    BY <1>4 DEF GetReg
  <2>2. v.n \in Int
    BY <1>4 DEF Operands, Symbols
  <2>3. Instr2RI("li", t, v.n) \in Own
    <3>1. "li" \in Opcodes
      BY DEF Opcodes
    <3> QED
      BY <1>1, <1>2, <2>2, <3>1, ShortTyped
  <2> QED
    BY <1>2, <2>1, <2>3
<1>5. CASE v.k = "sym"
  <2>1. GetReg(v, t)
          = [reg |-> t, code |-> <<Instr3("lw", t, offset[v.s], SP)>>,
             t |-> t + 1]
    BY <1>5 DEF GetReg
  <2>2. offset[v.s] \in Int
    BY <1>1, <1>5 DEF Operands, Symbols
  <2>3. Instr3("lw", t, offset[v.s], SP) \in Own
    <3>1. "lw" \in Opcodes
      BY DEF Opcodes
    <3> QED
      BY <1>1, <1>2, <2>2, <3>1, AsmTyped
  <2> QED
    BY <1>2, <2>1, <2>3
<1>6. v.k = "num" \/ v.k = "sym"
  BY DEF Operands, Symbols
<1> QED
  BY <1>3, <1>4, <1>5, <1>6

\* The instruction a visit is at is one of its function.
LEMMA InsTyped ==
    ASSUME GenTyped, NEW op, AtInstr(op)
    PROVE  Ins \in IRInstrs(func) /\ Ins.op = op /\ AtCode
<1>1. func.blocks \in Seq(Seq(IRInstrs(func))) /\ todo[1] \in DOMAIN func.blocks
  BY FunctionsAssumption DEF GenTyped
<1>2. Body \in Seq(IRInstrs(func)) /\ todo[2] \in DOMAIN Body
  BY <1>1 DEF Body, AtInstr
<1> QED
  BY <1>2 DEF Ins, AtInstr, AtCode

\* A place in the frame is a number, so what loads and stores there is typed.
LEMMA SlotTyped ==
    ASSUME GenTyped, NEW s \in Names(func), NEW rd \in Regs
    PROVE  /\ Instr3("lw", rd, offset[s], SP) \in Own
           /\ Instr3("sw", rd, offset[s], SP) \in Own
<1>1. todo \in Nat \X Nat /\ offset[s] \in Int
  BY DEF GenTyped
<1>2. SP \in Int
  BY DEF SP
<1>3. "lw" \in Opcodes /\ "sw" \in Opcodes
  BY DEF Opcodes
<1> QED
  BY <1>1, <1>2, <1>3, AsmTyped

LEMMA AllocEmits ==
    ASSUME GenTyped, VisitAlloc
    PROVE  EmitsOwn
<1>1. Emit(<<>>) /\ tmpVarCount' = tmpVarCount /\ AtInstr("alloc")
  BY DEF VisitAlloc
<1>2. tmpVarCount' = 0 /\ AtCode
  BY <1>1, InsTyped DEF GenTyped
<1>3. <<>> \in Seq(Own)
  OBVIOUS
<1> QED
  BY <1>1, <1>2, <1>3, Zenon DEF EmitsOwn

LEMMA RetEmits ==
    ASSUME GenTyped, VisitRet
    PROVE  EmitsOwn \/ (AtCode /\ AssertFails)
<1>1. Ins \in IRInstrs(func) /\ Ins.op = "ret" /\ AtCode
  BY InsTyped DEF VisitRet
<1>2. Ins.args[1] \in Values(func)
  BY <1>1 DEF IRInstrs, BinaryOps
<1> DEFINE v == Ins.args[1]
           load == IF v.k = "num" THEN Instr2RI("li", A0, v.n)
                   ELSE Instr3("lw", A0, offset[v.s], SP)
<1>3. CASE v.k = "undef"
  BY <1>1, <1>3 DEF VisitRet
<1>4. CASE v.k # "undef"
  <2>1. /\ Emit(<<load>> \o Epilogue \o <<Instr0("ret")>>)
        /\ tmpVarCount' = tmpVarCount
    BY <1>4 DEF VisitRet
  <2>2. todo \in Nat \X Nat /\ stackSz \in Int /\ tmpVarCount = 0
    BY DEF GenTyped
  <2>3. v \in Operands(func)
    BY <1>2, <1>4 DEF Values, Undefined
  <2>4. load \in Own
    <3>1. CASE v.k = "num"
      <4>1. v.n \in Int
        BY <2>3, <3>1 DEF Operands, Symbols
      <4>2. "li" \in Opcodes /\ A0 \in Regs
        BY DEF Opcodes, Regs
      <4> QED
        BY <2>2, <3>1, <4>1, <4>2, ShortTyped
    <3>2. CASE v.k # "num"
      <4>1. v.s \in Names(func)
        BY <2>3, <3>2 DEF Operands, Symbols
      <4>2. A0 \in Regs
        BY DEF Regs
      <4> QED
        BY <3>2, <4>1, <4>2, SlotTyped
    <3> QED
      BY <3>1, <3>2
  <2>5. Epilogue \in Seq(Own)
    <3>1. "addi" \in Opcodes /\ SP \in Regs /\ SP \in Int
      BY DEF Opcodes, Regs, SP
    <3>2. Instr3("addi", SP, SP, stackSz) \in Own
      BY <2>2, <3>1, AsmTyped
    <3> QED
      BY <3>2 DEF Epilogue
  <2>6. Instr0("ret") \in Own
    <3>1. "ret" \in Opcodes /\ X0 \in Regs /\ X0 \in Int
      BY DEF Opcodes, Regs, X0
    <3> QED
      BY <2>2, <3>1, ShortTyped
  <2> HIDE DEF load, v
  <2>7. <<load>> \o Epilogue \o <<Instr0("ret")>> \in Seq(Own)
    BY <2>4, <2>5, <2>6
  <2> QED
    BY <1>1, <2>1, <2>2, <2>7, Zenon DEF EmitsOwn
<1> QED
  BY <1>3, <1>4

LEMMA StoreEmits ==
    ASSUME GenTyped, VisitStore
    PROVE  EmitsOwn \/ (AtCode /\ AssertFails)
<1>1. Ins \in IRInstrs(func) /\ Ins.op = "store" /\ AtCode
  BY InsTyped DEF VisitStore
<1>2. Ins.args[1] \in Values(func) /\ Ins.args[2].s \in Names(func)
  BY <1>1 DEF IRInstrs, BinaryOps, Symbols
<1>3. CASE Ins.args[1].k = "undef"
  BY <1>1, <1>3 DEF VisitStore
<1>4. CASE Ins.args[1].k # "undef"
  <2> DEFINE x == GetReg(Ins.args[1], 0)
             sw == Instr3("sw", x.reg, offset[Ins.args[2].s], SP)
  <2>1. tmpVarCount = 0
    BY DEF GenTyped
  <2>2. Emit(x.code \o <<sw>>) /\ tmpVarCount' = 0
    BY <1>4, <2>1 DEF VisitStore, ReturnTmpVars
  <2>3. Ins.args[1] \in Operands(func)
    BY <1>2, <1>4 DEF Values, Undefined
  <2>4. x.reg \in Regs /\ x.code \in Seq(Own)
    BY <2>3, GetRegTyped
  <2>5. sw \in Own
    BY <1>2, <2>4, SlotTyped
  <2> HIDE DEF x, sw
  <2>6. x.code \o <<sw>> \in Seq(Own)
    BY <2>4, <2>5
  <2> QED
    BY <1>1, <2>2, <2>6, Zenon DEF EmitsOwn
<1> QED
  BY <1>3, <1>4

LEMMA LoadEmits ==
    ASSUME GenTyped, VisitLoad
    PROVE  EmitsOwn
<1>1. Ins \in IRInstrs(func) /\ Ins.op = "load" /\ AtCode
  BY InsTyped DEF VisitLoad
<1>2. Ins.args[1] \in Operands(func) /\ Ins.def \in Names(func)
  BY <1>1 DEF IRInstrs, BinaryOps, Operands
<1> DEFINE x == GetReg(Ins.args[1], 0)
           sw == Instr3("sw", x.reg, offset[Ins.def], SP)
<1>3. tmpVarCount = 0
  BY DEF GenTyped
<1>4. Emit(x.code \o <<sw>>) /\ tmpVarCount' = 0
  BY <1>3 DEF VisitLoad, ReturnTmpVars
<1>5. x.reg \in Regs /\ x.code \in Seq(Own)
  BY <1>2, GetRegTyped
<1>6. sw \in Own
  BY <1>2, <1>5, SlotTyped
<1> HIDE DEF x, sw
<1>7. x.code \o <<sw>> \in Seq(Own)
  BY <1>5, <1>6
<1> QED
  BY <1>1, <1>4, <1>7, Zenon DEF EmitsOwn

LEMMA BrEmits ==
    ASSUME GenTyped, VisitBr
    PROVE  EmitsOwn
<1>1. Ins \in IRInstrs(func) /\ Ins.op = "br" /\ AtCode
  BY InsTyped DEF VisitBr
<1>2. Ins.args[1] \in Operands(func)
      /\ Ins.to \in (DOMAIN func.blocks) \X (DOMAIN func.blocks)
  BY <1>1 DEF IRInstrs, BinaryOps
<1>3. Ins.to[1] \in Nat /\ Ins.to[2] \in Nat
  <2>1. func.blocks \in Seq(Seq(IRInstrs(func)))
    BY FunctionsAssumption DEF GenTyped
  <2>2. DOMAIN func.blocks \subseteq Nat
    BY <2>1
  <2> QED
    BY <1>2, <2>2
<1> DEFINE x == GetReg(Ins.args[1], 0)
           bnez == Instr2RS("bnez", x.reg, Ins.to[1])
           j == Instr1S("j", Ins.to[2])
<1>4. todo \in Nat \X Nat /\ tmpVarCount = 0
  BY DEF GenTyped
<1>5. Emit(x.code \o <<bnez, j>>) /\ tmpVarCount' = 0
  BY <1>4 DEF VisitBr, ReturnTmpVars, TargetsOf
<1>6. x.reg \in Regs /\ x.code \in Seq(Own)
  BY <1>2, GetRegTyped
<1>7. bnez \in Own /\ j \in Own
  <2>1. "bnez" \in Opcodes /\ "j" \in Opcodes /\ X0 \in Int
    BY DEF Opcodes, X0
  <2> QED
    BY <1>3, <1>4, <1>6, <2>1, ShortTyped
<1> HIDE DEF x, bnez, j
<1>8. x.code \o <<bnez, j>> \in Seq(Own)
  BY <1>6, <1>7
<1> QED
  BY <1>1, <1>5, <1>8, Zenon DEF EmitsOwn

LEMMA JumpEmits ==
    ASSUME GenTyped, VisitJump
    PROVE  EmitsOwn
<1>1. Ins \in IRInstrs(func) /\ Ins.op = "jump" /\ AtCode
  BY InsTyped DEF VisitJump
<1>2. Ins.to[1] \in DOMAIN func.blocks
  BY <1>1 DEF IRInstrs, BinaryOps
<1>3. func.blocks \in Seq(Seq(IRInstrs(func)))
  BY FunctionsAssumption DEF GenTyped
<1>4. Ins.to[1] \in Nat
  BY <1>2, <1>3
<1>5. todo \in Nat \X Nat /\ tmpVarCount = 0
  BY DEF GenTyped
<1>6. /\ Emit(<<Instr1S("j", Ins.to[1])>>)
      /\ tmpVarCount' = 0
  BY <1>5 DEF VisitJump, LabelOf
<1>7. Instr1S("j", Ins.to[1]) \in Own
  <2>1. "j" \in Opcodes /\ X0 \in Int /\ X0 \in Regs
    BY DEF Opcodes, X0, Regs
  <2> QED
    BY <1>4, <1>5, <2>1, ShortTyped
<1>8. <<Instr1S("j", Ins.to[1])>> \in Seq(Own)
  BY <1>7
<1> QED
  BY <1>1, <1>6, <1>8, Zenon DEF EmitsOwn

\* The opcodes of the operations.
LEMMA OpsAreOpcodes ==
    ASSUME NEW op \in BinaryOps
    PROVE  /\ RegOp(op) \in Opcodes
           /\ op \in DOMAIN ImmOp => ImmOp[op] \in Opcodes
BY DEF BinaryOps, RegOp, ImmOp, Opcodes

LEMMA BExprEmits ==
    ASSUME GenTyped, NEW op \in BinaryOps, VisitBExpr(op)
    PROVE  EmitsOwn
<1>1. Ins \in IRInstrs(func) /\ Ins.op = op /\ AtCode
  BY InsTyped DEF VisitBExpr
<1>2. Ins.args \in Operands(func) \X Operands(func) /\ Ins.def \in Names(func)
  BY <1>1 DEF IRInstrs, BinaryOps
<1>3. Ins.args[1] \in Operands(func) /\ Ins.args[2] \in Operands(func)
  BY <1>2
<1>4. todo \in Nat \X Nat /\ tmpVarCount = 0
  BY DEF GenTyped
<1> DEFINE x  == GetReg(Ins.args[1], 0)
           y  == GetReg(Ins.args[2], x.t)
           r  == IF IsTemp(x.reg) THEN x.reg ELSE y.t
           do == IF op \in DOMAIN ImmOp /\ Ins.args[2].k = "num"
                 THEN Instr3(ImmOp[op], r, x.reg, Ins.args[2].n)
                 ELSE Instr3(RegOp(op), r, x.reg, y.reg)
           sw == Instr3("sw", r, offset[Ins.def], SP)
<1>5. /\ Emit(x.code \o y.code \o <<do>> \o Fix(op, r) \o <<sw>>)
      /\ tmpVarCount' = 0
  BY <1>4 DEF VisitBExpr, ReturnTmpVars
<1>6. x.reg \in Regs /\ x.code \in Seq(Own) /\ x.t \in {0, 1}
  BY <1>3, GetRegTyped
<1>7. y.reg \in Regs /\ y.code \in Seq(Own) /\ y.t \in {0, 1, 2}
  <2>1. x.t \in 0..5
    BY <1>6
  <2> HIDE DEF x
  <2>2. y.reg \in Regs /\ y.code \in Seq(Own) /\ y.t \in {x.t, x.t + 1}
    BY <1>3, <2>1, GetRegTyped
  <2> QED
    BY <1>6, <2>2
<1> HIDE DEF x, y
<1>8. r \in Regs
  BY <1>6, <1>7 DEF Regs, TmpVars
<1> HIDE DEF r
<1>9. do \in Own
  <2>1. x.reg \in Int /\ y.reg \in Int
    BY <1>6, <1>7, RegsAreIntegers
  <2>2. CASE op \in DOMAIN ImmOp /\ Ins.args[2].k = "num"
    <3>1. Ins.args[2].n \in Int
      BY <1>3, <2>2 DEF Operands, Symbols
    <3>2. ImmOp[op] \in Opcodes
      BY <2>2, OpsAreOpcodes
    <3> QED
      BY <1>4, <1>8, <2>1, <2>2, <3>1, <3>2, AsmTyped
  <2>3. CASE ~(op \in DOMAIN ImmOp /\ Ins.args[2].k = "num")
    <3>1. RegOp(op) \in Opcodes
      BY OpsAreOpcodes
    <3> QED
      BY <1>4, <1>8, <2>1, <2>3, <3>1, AsmTyped
  <2> QED
    BY <2>2, <2>3
<1>10. Fix(op, r) \in Seq(Own)
  <2>1. "seqz" \in Opcodes /\ "snez" \in Opcodes
    BY DEF Opcodes
  <2>2. r \in Int
    BY <1>8, RegsAreIntegers
  <2>3. /\ Instr2RR("seqz", r, r) \in Own
        /\ Instr2RR("snez", r, r) \in Own
    BY <1>4, <1>8, <2>1, <2>2, ShortTyped
  <2>4. Fix(op, r)
           \in {<<Instr2RR("seqz", r, r)>>, <<Instr2RR("snez", r, r)>>, <<>>}
    BY DEF Fix
  <2>5. <<Instr2RR("seqz", r, r)>> \in Seq(Own)
    BY <2>3
  <2>6. <<Instr2RR("snez", r, r)>> \in Seq(Own)
    BY <2>3
  <2>7. <<>> \in Seq(Own)
    OBVIOUS
  <2> QED
    BY <2>4, <2>5, <2>6, <2>7, Zenon
<1>11. sw \in Own
  BY <1>2, <1>8, SlotTyped
<1> HIDE DEF do, sw
<1>12. x.code \o y.code \o <<do>> \o Fix(op, r) \o <<sw>> \in Seq(Own)
  BY <1>6, <1>7, <1>9, <1>10, <1>11
<1> QED
  BY <1>1, <1>5, <1>12, Zenon DEF EmitsOwn

\* An assertion that fails changes the phase alone.
LEMMA FailureTyped ==
    ASSUME GenTyped, AtCode, AssertFails
    PROVE  GenTyped'
BY DEF AtCode, GenTyped, AssertFails, Names

\* Such a visit keeps the types.
LEMMA EmitKeepsTypes ==
    ASSUME GenTyped, EmitsOwn
    PROVE  GenTyped'
<1>0. PICK code \in Seq(Own) : Emit(code)
  BY DEF EmitsOwn
<1>1. bbs \in Seq(BBs) /\ curBB \in DOMAIN bbs
  BY DEF GenTyped, EmitsOwn, AtCode
<1>2. bbs[curBB].instrs \in Seq(ASMInstrs) /\ bbs[curBB] \in BBs
  <2>1. bbs[curBB] \in BBs
    BY <1>1
  <2> QED
    BY <2>1 DEF BBs
<1> DEFINE bb == [bbs[curBB] EXCEPT !.instrs = bbs[curBB].instrs \o code]
<1>3. bb \in BBs
  <2>1. code \in Seq(ASMInstrs)
    BY DEF Own
  <2>2. bbs[curBB].instrs \o code \in Seq(ASMInstrs)
    BY <1>2, <2>1
  <2>3. \A is \in Seq(ASMInstrs) : [bbs[curBB] EXCEPT !.instrs = is] \in BBs
    BY <1>2 DEF BBs
  <2> QED
    BY <2>2, <2>3
<1>4. bbs' = [bbs EXCEPT ![curBB] = bb]
  BY <1>0 DEF Emit
<1> HIDE DEF bb
<1>5. bbs' \in Seq(BBs) /\ DOMAIN bbs' = DOMAIN bbs
  BY <1>1, <1>3, <1>4
<1>6. todo' = <<todo[1], todo[2] + 1>> /\ func' = func /\ offset' = offset
      /\ stackSz' = stackSz /\ curBB' = curBB
  BY <1>0 DEF Emit
<1>7. todo' \in Nat \X Nat /\ todo'[1] = todo[1]
  BY <1>6 DEF GenTyped
<1>8. tmpVarCount' = 0
  BY DEF EmitsOwn
<1> QED
  BY <1>1, <1>5, <1>6, <1>7, <1>8 DEF GenTyped

\* The actions that visit an instruction.
VisitIns ==
    \/ VisitAlloc \/ VisitRet \/ VisitStore \/ VisitLoad
    \/ \E op \in BinaryOps : VisitBExpr(op)
    \/ VisitBr \/ VisitJump

LEMMA VisitEmits ==
    ASSUME GenTyped, VisitIns
    PROVE  EmitsOwn \/ (AtCode /\ AssertFails)
BY AllocEmits, RetEmits, StoreEmits, LoadEmits, BExprEmits, BrEmits, JumpEmits
   DEF VisitIns

LEMMA EnterTyped ==
    ASSUME GenTyped, EnterBlock
    PROVE  GenTyped'
<1>1. /\ phase = "code" /\ phase' = phase /\ func' = func /\ offset' = offset
      /\ stackSz' = stackSz /\ tmpVarCount' = tmpVarCount
      /\ todo' = <<todo[1], 1>>
  BY DEF EnterBlock
<1>2. bbs \in Seq(BBs) /\ curBB \in DOMAIN bbs /\ todo[1] \in Nat
  BY <1>1 DEF GenTyped
<1>3. bbs' \in Seq(BBs) /\ curBB' \in DOMAIN bbs'
  <2>1. CASE Body = <<>>
    BY <1>2, <2>1 DEF EnterBlock
  <2>2. CASE Body # <<>>
    <3> DEFINE list == WithBB(bbs, todo[1])
               new == [label |-> todo[1], instrs |-> <<>>]
    <3>1. bbs' = list /\ curBB' = IndexOf(bbs', todo[1])
      BY <2>2 DEF EnterBlock
    <3>2. list \in Seq(BBs) /\ \E i \in DOMAIN list : list[i].label = todo[1]
      <4>1. CASE \E i \in DOMAIN bbs : bbs[i].label = todo[1]
        BY <1>2, <4>1 DEF WithBB
      <4>2. CASE ~\E i \in DOMAIN bbs : bbs[i].label = todo[1]
        <5>1. list = Append(bbs, new)
          BY <4>2 DEF WithBB
        <5>2. new \in BBs /\ new.label = todo[1]
          BY <1>2 DEF BBs
        <5> HIDE DEF new, list
        <5>3. list \in Seq(BBs) /\ Len(bbs) + 1 \in DOMAIN list
              /\ list[Len(bbs) + 1] = new
          BY <1>2, <5>1, <5>2
        <5> QED
          BY <5>2, <5>3
      <4> QED
        BY <4>1, <4>2
    <3> HIDE DEF list
    <3> QED
      BY <3>1, <3>2 DEF IndexOf
  <2> QED
    BY <2>1, <2>2
<1> QED
  BY <1>1, <1>2, <1>3 DEF GenTyped

LEMMA LeaveTyped ==
    ASSUME GenTyped, LeaveBlock
    PROVE  GenTyped'
<1>1. /\ phase = "code" /\ func' = func /\ offset' = offset
      /\ stackSz' = stackSz /\ tmpVarCount' = tmpVarCount /\ bbs' = bbs
      /\ curBB' = curBB
  BY DEF LeaveBlock
<1>2. todo' \in Nat \X Nat /\ todo'[1] \in DOMAIN func.blocks
  <2>1. func.blocks \in Seq(Seq(IRInstrs(func)))
    BY FunctionsAssumption DEF GenTyped
  <2>2. CASE todo[1] = Len(func.blocks)
    BY <2>2 DEF LeaveBlock, GenTyped
  <2>3. CASE todo[1] # Len(func.blocks)
    <3>1. todo' = <<todo[1] + 1, 0>>
      BY <2>3 DEF LeaveBlock
    <3>2. todo[1] \in 1..Len(func.blocks) /\ Len(func.blocks) \in Nat
      BY <2>1 DEF GenTyped
    <3> QED
      BY <2>1, <2>3, <3>1, <3>2
  <2> QED
    BY <2>2, <2>3
<1> QED
  BY <1>1, <1>2 DEF GenTyped

\* Offsets and size of the frame are numbers.
LEMMA FrameTyped ==
    ASSUME NEW f \in Functions
    PROVE  /\ align_16_bytes(IntSize * Cardinality(FirstDefs(f))) \in Int
           /\ \A s \in Names(f) : Offset(f, s) \in Int
<1>1. Cardinality(FirstDefs(f)) \in Nat
  BY SlotCounts
<1>2. ASSUME NEW s \in Names(f)
      PROVE  Offset(f, s) \in Int
  <2>1. CASE FirstDefsOf(f, s) = {}
    BY <2>1 DEF Offset, NoOffset
  <2>2. CASE FirstDefsOf(f, s) # {}
    <3>1. PICK p \in FirstDefs(f) : InsAt(f, p).def = s
      BY <2>2 DEF FirstDefsOf
    <3>2. Offset(f, s) = IntSize * Cardinality(SlotsBefore(f, {p}))
      BY <3>1, SlotOfFirst
    <3>3. Cardinality(SlotsBefore(f, {p})) \in Nat
      BY SlotCounts
    <3> QED
      BY <3>2, <3>3 DEF IntSize
  <2> QED
    BY <2>1, <2>2
<1>3. IntSize * Cardinality(FirstDefs(f)) \in Nat
  BY <1>1 DEF IntSize
<1> QED
  BY <1>2, <1>3, AlignUp

LEMMA PrologueTyped ==
    ASSUME GenTyped, Prologue
    PROVE  /\ GenTyped'
           /\ \E code \in Seq(Own) :
                 bbs' = <<[label |-> func.label, instrs |-> code]>>
<1> DEFINE size == align_16_bytes(IntSize * Cardinality(FirstDefs(func)))
           code == IF size > ImmLimit
                   THEN <<Instr2RI("li", 0, -size), Instr3("add", SP, SP, 0)>>
                   ELSE <<Instr3("addi", SP, SP, -size)>>
           bb == [label |-> func.label, instrs |-> code]
<1>1. tmpVarCount = 0 /\ func \in Functions /\ todo \in Nat \X Nat
      /\ todo[1] \in DOMAIN func.blocks /\ DOMAIN offset = Names(func)
  BY DEF GenTyped
<1>2. /\ func' = func /\ todo' = todo /\ stackSz' = size /\ bbs' = <<bb>>
      /\ curBB' = 1 /\ tmpVarCount' = 0
      /\ offset' = [s \in DOMAIN offset |-> Offset(func, s)]
  BY <1>1 DEF Prologue, ReturnTmpVars
<1>3. size \in Int /\ offset' \in [Names(func) -> Int]
  BY <1>1, <1>2, FrameTyped
<1> HIDE DEF size
<1>4. code \in Seq(Own)
  <2>1. /\ "li" \in Opcodes /\ "add" \in Opcodes /\ "addi" \in Opcodes
        /\ SP \in Regs /\ SP \in Int /\ X0 \in Int
        /\ 0 \in Regs /\ -size \in Int
    BY <1>3 DEF Opcodes, Regs, SP, X0, TmpVars
  <2>2. /\ Instr2RI("li", 0, -size) \in Own
        /\ Instr3("add", SP, SP, 0) \in Own
        /\ Instr3("addi", SP, SP, -size) \in Own
    <3>1. Instr2RI("li", 0, -size) \in Own
      BY <1>1, <2>1, ShortTyped
    <3>2. Instr3("add", SP, SP, 0) \in Own
      <4>1. \A n \in Int : Instr3("add", SP, SP, n) \in Own
        BY <1>1, <2>1, AsmTyped
      <4> QED
        BY <4>1
    <3>3. Instr3("addi", SP, SP, -size) \in Own
      BY <1>1, <2>1, AsmTyped
    <3> QED
      BY <3>1, <3>2, <3>3
  <2> QED
    BY <2>2
<1>5. func.label \in Nat
  BY <1>1, FunctionsAssumption
<1> HIDE DEF code
<1>6. code \in Seq(ASMInstrs)
  BY <1>4 DEF Own
<1>7. bb \in BBs
  BY <1>5, <1>6 DEF BBs
<1>8. \E c \in Seq(Own) : bbs' = <<[label |-> func.label, instrs |-> c]>>
  BY <1>2, <1>4
<1> HIDE DEF bb
<1>9. bbs' \in Seq(BBs) /\ curBB' \in DOMAIN bbs'
  BY <1>2, <1>7
<1>10. GenTyped'
  BY <1>1, <1>2, <1>3, <1>9 DEF GenTyped
<1> QED
  BY <1>8, <1>10

LEMMA GenTypedInit ==
    ASSUME Init
    PROVE  GenTyped
<1>1. func \in Functions /\ todo = <<1, 0>> /\ bbs = <<>> /\ tmpVarCount = 0
      /\ phase = "prologue" /\ stackSz = 0
      /\ offset = [s \in Names(func) |-> NoOffset]
  BY DEF Init, Names
<1>2. func.blocks \in Seq(Seq(IRInstrs(func))) /\ Len(func.blocks) >= 2
  BY <1>1, FunctionsAssumption
<1>3. 1 \in DOMAIN func.blocks
  BY <1>2
<1>4. todo \in Nat \X Nat /\ todo[1] \in DOMAIN func.blocks
  BY <1>1, <1>3
<1>5. offset \in [Names(func) -> Int]
  BY <1>1 DEF NoOffset
<1>6. bbs \in Seq(BBs) /\ stackSz \in Int
  BY <1>1
<1> QED
  BY <1>1, <1>4, <1>5, <1>6 DEF GenTyped

LEMMA GenTypedStep ==
    ASSUME GenTyped, [GenNext]_genVars
    PROVE  GenTyped'
<1>1. CASE Prologue
  BY <1>1, PrologueTyped
<1>2. CASE EnterBlock
  BY <1>2, EnterTyped
<1>3. CASE LeaveBlock
  BY <1>3, LeaveTyped
<1>4. CASE VisitIns
  BY <1>4, VisitEmits, EmitKeepsTypes, FailureTyped
<1>5. CASE UNCHANGED genVars
  BY <1>5 DEF genVars, GenTyped, Names
<1> QED
  BY <1>1, <1>2, <1>3, <1>4, <1>5 DEF GenNext, VisitIns

LEMMA GenTypedInvariant == GenSpec => []GenTyped
<1>1. Init => GenTyped
  BY GenTypedInit
<1>2. GenTyped /\ [GenNext]_genVars => GenTyped'
  BY GenTypedStep
<1> QED
  BY <1>1, <1>2, PTL DEF GenSpec

LEMMA TypedHasRegisters == GenTyped => RegistersSuffice
<1> SUFFICES ASSUME GenTyped, NEW b \in DOMAIN bbs,
                    NEW i \in DOMAIN bbs[b].instrs
             PROVE  bbs[b].instrs[i].rd \in {X0, A0, SP} \cup TmpVars
  BY DEF RegistersSuffice
<1>1. bbs[b] \in BBs
  BY DEF GenTyped
<1>2. bbs[b].instrs \in Seq(ASMInstrs)
  BY <1>1 DEF BBs
<1>3. bbs[b].instrs[i] \in ASMInstrs
  BY <1>2
<1> QED
  BY <1>3 DEF ASMInstrs, Regs

\* No function, however long its blocks are, makes the code generator take more
\* than the seven temporary registers there are (GenASM.hh:42).
THEOREM RegistersAreEnough == GenSpec => []RegistersSuffice
BY GenTypedInvariant, TypedHasRegisters, PTL

-----------------------------------------------------------------------------
(* The labels: which block the code of an instruction stands under.           *)

\* The label that code for a place of the IR belongs under; place 0 of a block
\* is the prologue's.
LabelFor(p) == IF p[2] = 0 THEN func.label ELSE p[1]
Placed(p) == p[1] \in DOMAIN func.blocks /\ (p[2] = 0 => p[1] = 1)

LabelsApart == \A i, j \in DOMAIN bbs : bbs[i].label = bbs[j].label => i = j
CodeLabelled ==
    \A b \in DOMAIN bbs : \A i \in DOMAIN bbs[b].instrs :
        /\ bbs[b].label = LabelFor(bbs[b].instrs[i].ir)
        /\ Placed(bbs[b].instrs[i].ir)

\* The inductive invariant. That the labels are right needs the current block to
\* be the one of the instruction that is visited, and that its list was found by
\* label needs the labels to be different.
Labelled ==
    /\ LabelsApart
    /\ CodeLabelled
    /\ phase = "prologue" => todo = <<1, 0>>
    /\ phase = "code" /\ todo[2] # 0 /\ Body # <<>>
          => bbs[curBB].label = todo[1]

LEMMA PrologueLabels ==
    ASSUME GenTyped, Labelled, Prologue
    PROVE  Labelled'
<1>1. PICK code \in Seq(Own) :
          bbs' = <<[label |-> func.label, instrs |-> code]>>
  BY PrologueTyped
<1>2. todo = <<1, 0>> /\ todo' = todo /\ phase' = "code" /\ func' = func
  BY DEF Labelled, Prologue
<1>3. 1 \in DOMAIN func.blocks
  BY <1>2 DEF GenTyped
<1>4. DOMAIN bbs' = {1} /\ bbs'[1] = [label |-> func.label, instrs |-> code]
  BY <1>1
<1>5. ASSUME NEW i \in DOMAIN code
      PROVE  code[i].ir = <<1, 0>>
  BY <1>2 DEF Own
<1>6. LabelsApart'
  BY <1>4 DEF LabelsApart
<1>7. CodeLabelled'
  BY <1>2, <1>3, <1>4, <1>5 DEF CodeLabelled, LabelFor, Placed
<1> QED
  BY <1>2, <1>6, <1>7 DEF Labelled

LEMMA EnterLabels ==
    ASSUME GenTyped, Labelled, EnterBlock
    PROVE  Labelled'
<1>1. /\ phase = "code" /\ phase' = phase /\ func' = func
      /\ todo' = <<todo[1], 1>>
  BY DEF EnterBlock
<1>2. bbs \in Seq(BBs) /\ todo \in Nat \X Nat
  BY DEF GenTyped
<1>3. Body' = Body /\ todo'[1] = todo[1]
  BY <1>1 DEF Body
<1>4. CASE Body = <<>>
  <2>1. bbs' = bbs
    BY <1>4 DEF EnterBlock
  <2>2. LabelsApart' /\ CodeLabelled'
    BY <1>1, <2>1
       DEF Labelled, LabelsApart, CodeLabelled, LabelFor, Placed
  <2> QED
    BY <1>1, <1>3, <1>4, <2>2 DEF Labelled
<1>5. CASE Body # <<>>
  <2> DEFINE new == [label |-> todo[1], instrs |-> <<>>]
  <2>1. bbs' = WithBB(bbs, todo[1]) /\ curBB' = IndexOf(bbs', todo[1])
    BY <1>5 DEF EnterBlock
  <2>2. /\ LabelsApart' /\ CodeLabelled'
        /\ \E i \in DOMAIN bbs' : bbs'[i].label = todo[1]
    <3>1. CASE \E i \in DOMAIN bbs : bbs[i].label = todo[1]
      <4>1. bbs' = bbs
        BY <2>1, <3>1 DEF WithBB
      <4> QED
        BY <1>1, <3>1, <4>1
           DEF Labelled, LabelsApart, CodeLabelled, LabelFor, Placed
    <3>2. CASE ~\E i \in DOMAIN bbs : bbs[i].label = todo[1]
      <4>1. bbs' = Append(bbs, new)
        BY <2>1, <3>2 DEF WithBB
      <4>2. /\ DOMAIN bbs' = DOMAIN bbs \cup {Len(bbs) + 1}
            /\ \A i \in DOMAIN bbs : bbs'[i] = bbs[i]
            /\ bbs'[Len(bbs) + 1] = new
        <5> HIDE DEF new
        <5> QED
          BY <1>2, <4>1
      <4>3. new.label = todo[1] /\ DOMAIN new.instrs = {}
        OBVIOUS
      <4> HIDE DEF new
      <4>4. LabelsApart'
        BY <3>2, <4>2, <4>3 DEF Labelled, LabelsApart
      <4>5. CodeLabelled'
        BY <1>1, <4>2, <4>3 DEF Labelled, CodeLabelled, LabelFor, Placed
      <4> QED
        BY <4>2, <4>3, <4>4, <4>5
    <3> QED
      BY <3>1, <3>2
  <2>3. bbs'[curBB'].label = todo[1]
    BY <2>1, <2>2 DEF IndexOf
  <2> QED
    BY <1>1, <1>3, <2>2, <2>3 DEF Labelled
<1> QED
  BY <1>4, <1>5

LEMMA LeaveLabels ==
    ASSUME GenTyped, Labelled, LeaveBlock
    PROVE  Labelled'
<1>1. /\ phase = "code" /\ func' = func /\ bbs' = bbs
      /\ phase' = "done" \/ (phase' = phase /\ todo' = <<todo[1] + 1, 0>>)
  BY DEF LeaveBlock
<1>2. LabelsApart' /\ CodeLabelled'
  BY <1>1 DEF Labelled, LabelsApart, CodeLabelled, LabelFor, Placed
<1> QED
  BY <1>1, <1>2 DEF Labelled

LEMMA EmitLabels ==
    ASSUME GenTyped, Labelled, EmitsOwn
    PROVE  Labelled'
<1>1. PICK code \in Seq(Own) : Emit(code)
  BY DEF EmitsOwn
<1>2. /\ phase = "code" /\ phase' = phase /\ func' = func /\ curBB' = curBB
      /\ todo' = <<todo[1], todo[2] + 1>>
      /\ bbs' = [bbs EXCEPT ![curBB].instrs = bbs[curBB].instrs \o code]
  BY <1>1 DEF EmitsOwn, AtCode, Emit
<1>3. /\ todo \in Nat \X Nat /\ todo[1] \in DOMAIN func.blocks
      /\ bbs \in Seq(BBs) /\ curBB \in DOMAIN bbs
  BY <1>2 DEF GenTyped
<1>4. Body # <<>> /\ todo[2] # 0
  <2>1. func.blocks \in Seq(Seq(IRInstrs(func)))
    BY FunctionsAssumption DEF GenTyped
  <2>2. Body \in Seq(IRInstrs(func))
    BY <1>3, <2>1 DEF Body
  <2> QED
    BY <2>2 DEF EmitsOwn, AtCode
<1>5. bbs[curBB].label = todo[1]
  BY <1>2, <1>4 DEF Labelled
<1>6. bbs[curBB].instrs \in Seq(ASMInstrs) /\ code \in Seq(ASMInstrs)
  <2>1. bbs[curBB] \in BBs
    BY <1>3
  <2> QED
    BY <2>1 DEF BBs, Own
<1> DEFINE old == bbs[curBB].instrs
           both == old \o code
<1>7. /\ DOMAIN bbs' = DOMAIN bbs
      /\ \A b \in DOMAIN bbs : bbs'[b].label = bbs[b].label
      /\ \A b \in DOMAIN bbs : b # curBB => bbs'[b].instrs = bbs[b].instrs
      /\ bbs'[curBB].instrs = both
  <2>1. \A b \in DOMAIN bbs : bbs[b] \in BBs
    BY <1>3
  <2> HIDE DEF both
  <2> QED
    BY <1>2, <1>3, <2>1 DEF BBs, both
<1>8. ASSUME NEW i \in DOMAIN both
      PROVE  (\E j \in DOMAIN old : both[i] = old[j]) \/ both[i].ir = todo
  <2>1. CASE i \in 1..Len(old)
    BY <1>6, <2>1
  <2>2. CASE i \notin 1..Len(old)
    <3>1. i - Len(old) \in DOMAIN code /\ both[i] = code[i - Len(old)]
      BY <1>6, <2>2
    <3>2. code[i - Len(old)] \in Own
      BY <3>1
    <3> QED
      BY <3>1, <3>2 DEF Own
  <2> QED
    BY <2>1, <2>2
<1> HIDE DEF both, old
<1>9. LabelsApart'
  BY <1>7 DEF Labelled, LabelsApart
<1>10. LabelFor(todo) = todo[1] /\ Placed(todo)
  BY <1>3, <1>4 DEF LabelFor, Placed
<1>11. ASSUME NEW b \in DOMAIN bbs', NEW i \in DOMAIN bbs'[b].instrs
       PROVE  /\ bbs[b].label = LabelFor(bbs'[b].instrs[i].ir)
              /\ Placed(bbs'[b].instrs[i].ir)
  <2>1. CASE b # curBB
    BY <1>7, <2>1 DEF Labelled, CodeLabelled
  <2>2. CASE b = curBB
    <3>1. i \in DOMAIN both /\ bbs'[b].instrs[i] = both[i]
      BY <1>7, <2>2
    <3>2. CASE both[i].ir = todo
      BY <1>5, <1>10, <2>2, <3>1, <3>2
    <3>3. CASE \E j \in DOMAIN old : both[i] = old[j]
      BY <1>3, <2>2, <3>1, <3>3 DEF Labelled, CodeLabelled, old
    <3> QED
      BY <1>8, <3>1, <3>2, <3>3
  <2> QED
    BY <2>1, <2>2
<1>12. CodeLabelled'
  <2>1. func' = func
    BY <1>2
  <2>2. \A b \in DOMAIN bbs' : bbs'[b].label = bbs[b].label
    BY <1>7
  <2> HIDE DEF Labelled
  <2>3. \A b \in DOMAIN bbs' : \A i \in DOMAIN bbs'[b].instrs :
            /\ bbs'[b].label = LabelFor(bbs'[b].instrs[i].ir)
            /\ Placed(bbs'[b].instrs[i].ir)
    BY <1>11, <2>2
  <2> QED
    BY <2>1, <2>3 DEF CodeLabelled, LabelFor, Placed
<1>13. todo'[1] = todo[1] /\ bbs'[curBB'].label = todo'[1]
  BY <1>2, <1>3, <1>5, <1>7
<1> QED
  BY <1>2, <1>9, <1>12, <1>13 DEF Labelled

LEMMA LabelledInit == Init => Labelled
BY DEF Init, Labelled, LabelsApart, CodeLabelled

LEMMA LabelledStep ==
    ASSUME GenTyped, Labelled, [GenNext]_genVars
    PROVE  Labelled'
<1>1. CASE Prologue
  BY <1>1, PrologueLabels
<1>2. CASE EnterBlock
  BY <1>2, EnterLabels
<1>3. CASE LeaveBlock
  BY <1>3, LeaveLabels
<1>4. CASE VisitIns
  <2>1. CASE EmitsOwn
    BY <2>1, EmitLabels
  <2>2. CASE AtCode /\ AssertFails
    BY <2>2 DEF AssertFails, Labelled, LabelsApart, CodeLabelled, LabelFor,
                Placed
  <2> QED
    BY <1>4, <2>1, <2>2, VisitEmits
<1>5. CASE UNCHANGED genVars
  BY <1>5 DEF genVars, Labelled, LabelsApart, CodeLabelled, LabelFor, Placed,
              Body
<1> QED
  BY <1>1, <1>2, <1>3, <1>4, <1>5 DEF GenNext, VisitIns

LEMMA LabelledInvariant == GenSpec => [](GenTyped /\ Labelled)
<1>1. GenTyped /\ Labelled /\ [GenNext]_genVars => Labelled'
  BY LabelledStep
<1> QED
  BY <1>1, LabelledInit, GenTypedInvariant, PTL DEF GenSpec

LEMMA LabelledKeepsApart == GenTyped /\ Labelled => BlocksApart
<1> SUFFICES ASSUME GenTyped, Labelled, func.label \notin DOMAIN func.blocks,
                    NEW b \in DOMAIN bbs, NEW c \in DOMAIN bbs,
                    NEW i \in DOMAIN bbs[b].instrs,
                    NEW j \in DOMAIN bbs[c].instrs
             PROVE  b = c <=> OfOneBlock(bbs[b].instrs[i].ir,
                                         bbs[c].instrs[j].ir)
  BY DEF BlocksApart
<1> DEFINE p == bbs[b].instrs[i].ir
           q == bbs[c].instrs[j].ir
<1>1. /\ bbs[b].label = LabelFor(p) /\ Placed(p)
      /\ bbs[c].label = LabelFor(q) /\ Placed(q)
  BY DEF Labelled, CodeLabelled
<1>2. b = c <=> bbs[b].label = bbs[c].label
  BY DEF Labelled, LabelsApart
<1> HIDE DEF p, q
<1>3. b = c <=> OfOneBlock(p, q)
  BY <1>1, <1>2 DEF LabelFor, Placed, OfOneBlock
<1> QED
  BY <1>3 DEF p, q

\* Of every function, code for two blocks of the IR is in two basic blocks, and
\* code for one block in one, unless the function is named like a block of its
\* own (create_or_get_BB, asm/cfg.cc:21-29).
THEOREM BlocksAreApart == GenSpec => []BlocksApart
BY LabelledInvariant, LabelledKeepsApart, PTL

-----------------------------------------------------------------------------
(* Words. Power and XorBits are recursive functions; a function that solves   *)
(* their equations up to n can be extended to n + 1.                          *)

\* Induction over a set of numbers.
LEMMA AllNumbers ==
    ASSUME NEW S, 0 \in S, \A n \in Nat : n \in S => n + 1 \in S
    PROVE  \A n \in Nat : n \in S
<1> DEFINE T == Nat \ S
<1> SUFFICES ASSUME T # {} PROVE FALSE
  OBVIOUS
<1>1. PICK m \in T : \A y \in T : ~ (<<y, m>> \in OpToRel(<, Nat))
  <2>1. T \subseteq Nat
    OBVIOUS
  <2> HIDE DEF T
  <2> QED  BY <2>1, WFMin, NatLessThanWellFounded
<1>2. m \in Nat /\ m # 0 /\ m \notin S
  OBVIOUS
<1>3. m - 1 \in Nat /\ (m - 1) + 1 = m
  BY <1>2
<1>4. m - 1 \in T
  BY <1>2, <1>3
<1>5. <<m - 1, m>> \in {ss \in Nat \X Nat : ss[1] < ss[2]}
  BY <1>2, <1>3
<1> QED  BY <1>1, <1>4, <1>5 DEF OpToRel

\* The equations of the two functions.
PowerEq(f, n) == IF n = 0 THEN 1 ELSE 2 * f[n - 1]
XorEq(f, n) ==
    [p \in Nat \X Nat |->
        IF n = 0 THEN 0
        ELSE 2 * f[n - 1][<<p[1] \div 2, p[2] \div 2>>] + ((p[1] + p[2]) % 2)]

LEMMA PowerSolved ==
    ASSUME NEW m \in Nat
    PROVE  \E f : f = [n \in 0..m |-> PowerEq(f, n)]
<1> DEFINE S == {k \in Nat : \E f : f = [n \in 0..k |-> PowerEq(f, n)]}
<1>1. 0 \in S
  <2> DEFINE f == [n \in 0..0 |-> 1]
  <2>1. f = [n \in 0..0 |-> PowerEq(f, n)]
    BY DEF PowerEq
  <2> QED  BY <2>1
<1>2. ASSUME NEW k \in Nat, k \in S
      PROVE  k + 1 \in S
  <2>1. PICK f : f = [n \in 0..k |-> PowerEq(f, n)]
    BY <1>2
  <2> DEFINE g == [n \in 0..k + 1 |-> PowerEq(f, n)]
  <2>2. ASSUME NEW n \in 0..k + 1
        PROVE  PowerEq(f, n) = PowerEq(g, n)
    <3>1. CASE n = 0
      BY <3>1 DEF PowerEq
    <3>2. CASE n # 0
      <4>1. n - 1 \in 0..k /\ n - 1 \in 0..k + 1
        BY <3>2
      <4>2. f[n - 1] = g[n - 1]
        BY <2>1, <4>1
      <4> HIDE DEF g
      <4> QED  BY <3>2, <4>2 DEF PowerEq
    <3> QED  BY <3>1, <3>2
  <2>3. g = [n \in 0..k + 1 |-> PowerEq(g, n)]
    <3> DEFINE h == [n \in 0..k + 1 |-> PowerEq(g, n)]
    <3>1. g = h
      BY <2>2
    <3> QED  BY <3>1
  <2> HIDE DEF g
  <2>4. \E s : s = [n \in 0..k + 1 |-> PowerEq(s, n)]
    BY <2>3
  <2> QED  BY <2>4
<1>3. \A n \in Nat : n \in S
  <2> HIDE DEF S
  <2> QED  BY <1>1, <1>2, AllNumbers
<1> QED  BY <1>3

LEMMA PowerIs ==
    ASSUME NEW n \in 0..Width
    PROVE  /\ Power[n] \in Nat \ {0}
           /\ n = 0 => Power[n] = 1
           /\ n # 0 => Power[n] = 2 * Power[n - 1]
<1> USE WidthAssumption
<1>1. PICK f : f = [k \in 0..Width |-> PowerEq(f, k)]
  BY PowerSolved
<1>2. Power = [k \in 0..Width |-> PowerEq(Power, k)]
  BY <1>1 DEF Power, PowerEq
<1>3. \A k \in 0..Width : Power[k] = PowerEq(Power, k)
  BY <1>2
<1> DEFINE S == {k \in Nat : k <= Width => Power[k] \in Nat \ {0}}
<1>4. 0 \in S
  BY <1>3 DEF PowerEq
<1>5. ASSUME NEW k \in Nat, k \in S
      PROVE  k + 1 \in S
  <2> SUFFICES ASSUME k + 1 <= Width
               PROVE  Power[k + 1] \in Nat \ {0}
    OBVIOUS
  <2>1. k + 1 \in 0..Width /\ k + 1 # 0 /\ (k + 1) - 1 = k
    OBVIOUS
  <2>2. Power[k + 1] = 2 * Power[k]
    BY <1>3, <2>1 DEF PowerEq
  <2> QED  BY <1>5, <2>2
<1>6. n \in S
  <2> HIDE DEF S
  <2>1. \A k \in Nat : k \in S
    BY <1>4, <1>5, AllNumbers
  <2> QED  BY <2>1
<1> QED  BY <1>3, <1>6 DEF PowerEq

LEMMA WordsAre ==
    /\ LeastWord \in Int /\ LeastWord <= -2
    /\ Modulus = -(2 * LeastWord)
    /\ Word = LeastWord..(-LeastWord - 1)
<1>1. Width \in 0..Width /\ Width - 1 \in 0..Width /\ Width # 0
      /\ Width - 1 # 0 /\ (Width - 1) - 1 \in 0..Width
  BY WidthAssumption
<1> DEFINE a == Power[Width - 1]
           b == Power[(Width - 1) - 1]
<1>2. a = 2 * b /\ b \in Nat \ {0} /\ a \in Nat \ {0}
  BY <1>1, PowerIs
<1>3. Modulus = 2 * a
  BY <1>1, PowerIs DEF Modulus
<1>4. LeastWord = -a
  BY DEF LeastWord
<1> HIDE DEF a, b
<1> QED  BY <1>2, <1>3, <1>4 DEF Word

LEMMA WrapIs ==
    ASSUME NEW n \in Int
    PROVE  Wrap(n) \in Word /\ (n \in Word => Wrap(n) = n)
<1> DEFINE h == -LeastWord
           r == (n + h) % (2 * h)
<1>1. h \in Int /\ h >= 2 /\ LeastWord = -h /\ Modulus = 2 * h
      /\ Word = (-h)..(h - 1)
  BY WordsAre
<1>2. Wrap(n) = r - h
  BY <1>1 DEF Wrap
<1> HIDE DEF h
<1>3. r \in Int /\ 0 <= r /\ r < 2 * h
  BY <1>1
<1>4. 0 <= n + h /\ n + h < 2 * h => r = n + h
  BY <1>1
<1> HIDE DEF r
<1> QED  BY <1>1, <1>2, <1>3, <1>4

-----------------------------------------------------------------------------
(* The exclusive or of two words is zero when they are the same.              *)

LEMMA XorSolved ==
    ASSUME NEW m \in Nat
    PROVE  \E f : f = [n \in 0..m |-> XorEq(f, n)]
<1> DEFINE S == {k \in Nat : \E f : f = [n \in 0..k |-> XorEq(f, n)]}
<1>1. 0 \in S
  <2> DEFINE z == [p \in Nat \X Nat |-> 0]
             f == [n \in 0..0 |-> z]
  <2>1. \A g : XorEq(g, 0) = z
    BY DEF XorEq
  <2> HIDE DEF z
  <2>2. f = [n \in 0..0 |-> XorEq(f, n)]
    BY <2>1
  <2> HIDE DEF f
  <2> QED  BY <2>2
<1>2. ASSUME NEW k \in Nat, k \in S
      PROVE  k + 1 \in S
  <2>1. PICK f : f = [n \in 0..k |-> XorEq(f, n)]
    BY <1>2
  <2> DEFINE g == [n \in 0..k + 1 |-> XorEq(f, n)]
  <2>2. ASSUME NEW n \in 0..k + 1
        PROVE  XorEq(f, n) = XorEq(g, n)
    <3>1. CASE n = 0
      BY <3>1 DEF XorEq
    <3>2. CASE n # 0
      <4>1. n - 1 \in 0..k /\ n - 1 \in 0..k + 1
        BY <3>2
      <4>2. f[n - 1] = g[n - 1]
        BY <2>1, <4>1
      <4> HIDE DEF g
      <4> QED  BY <3>2, <4>2 DEF XorEq
    <3> QED  BY <3>1, <3>2
  <2>3. g = [n \in 0..k + 1 |-> XorEq(g, n)]
    <3> DEFINE h == [n \in 0..k + 1 |-> XorEq(g, n)]
    <3>1. g = h
      BY <2>2
    <3> QED  BY <3>1
  <2> HIDE DEF g
  <2>4. \E s : s = [n \in 0..k + 1 |-> XorEq(s, n)]
    BY <2>3
  <2> QED  BY <2>4
<1>3. \A n \in Nat : n \in S
  <2> HIDE DEF S
  <2> QED  BY <1>1, <1>2, AllNumbers
<1> QED  BY <1>3

LEMMA XorBitsIs ==
    ASSUME NEW n \in 0..Width, NEW x \in Nat, NEW y \in Nat
    PROVE  XorBits[n][<<x, y>>]
             = IF n = 0 THEN 0
               ELSE 2 * XorBits[n - 1][<<x \div 2, y \div 2>>] + ((x + y) % 2)
<1>1. PICK f : f = [k \in 0..Width |-> XorEq(f, k)]
  BY XorSolved, WidthAssumption
<1>2. XorBits = [k \in 0..Width |-> XorEq(XorBits, k)]
  BY <1>1 DEF XorBits, XorEq
<1>3. XorBits[n] = XorEq(XorBits, n)
  BY <1>2
<1>4. <<x, y>> \in Nat \X Nat
  OBVIOUS
<1> QED  BY <1>3, <1>4 DEF XorEq

\* Of numbers with n bits it is a number with n bits.
LEMMA XorBitsZero ==
    ASSUME NEW n \in 0..Width
    PROVE  \A x, y \in 0..(Power[n] - 1) :
              /\ XorBits[n][<<x, y>>] \in 0..(Power[n] - 1)
              /\ XorBits[n][<<x, y>>] = 0 <=> x = y
<1> DEFINE Good(k) == \A x, y \in 0..(Power[k] - 1) :
                         /\ XorBits[k][<<x, y>>] \in 0..(Power[k] - 1)
                         /\ XorBits[k][<<x, y>>] = 0 <=> x = y
           S == {k \in Nat : k <= Width => Good(k)}
<1>1. 0 \in S
  <2>1. 0 \in 0..Width
    BY WidthAssumption
  <2>2. Power[0] = 1 /\ XorBits[0][<<0, 0>>] = 0
    BY <2>1, PowerIs, XorBitsIs
  <2> QED  BY <2>2
<1>2. ASSUME NEW k \in Nat, k \in S
      PROVE  k + 1 \in S
  <2> SUFFICES ASSUME k + 1 <= Width, NEW x \in 0..(Power[k + 1] - 1),
                      NEW y \in 0..(Power[k + 1] - 1)
               PROVE  /\ XorBits[k + 1][<<x, y>>] \in 0..(Power[k + 1] - 1)
                      /\ XorBits[k + 1][<<x, y>>] = 0 <=> x = y
    OBVIOUS
  <2>1. k + 1 \in 0..Width /\ k \in 0..Width /\ (k + 1) - 1 = k /\ k + 1 # 0
    BY WidthAssumption
  <2>2. Power[k + 1] = 2 * Power[k] /\ Power[k] \in Nat \ {0}
    BY <2>1, PowerIs
  <2> DEFINE a == x \div 2
             b == y \div 2
             z == XorBits[k][<<a, b>>]
  <2>3. /\ x = 2 * a + (x % 2) /\ y = 2 * b + (y % 2)
        /\ a \in 0..(Power[k] - 1) /\ b \in 0..(Power[k] - 1)
        /\ x % 2 \in {0, 1} /\ y % 2 \in {0, 1} /\ x \in Nat /\ y \in Nat
    BY <2>2
  <2>4. z \in 0..(Power[k] - 1) /\ (z = 0 <=> a = b)
    <3>1. Good(k)
      <4> HIDE DEF Good, a, b, z
      <4> QED  BY <1>2, <2>1
    <3> HIDE DEF a, b
    <3> QED  BY <2>3, <3>1
  <2>5. XorBits[k + 1][<<x, y>>] = 2 * z + ((x + y) % 2)
    BY <2>1, <2>3, XorBitsIs
  <2>6. (x + y) % 2 \in {0, 1} /\ ((x + y) % 2 = 0 <=> x % 2 = y % 2)
    BY <2>3
  <2> HIDE DEF a, b, z
  <2>7. 2 * z + ((x + y) % 2) \in 0..(2 * Power[k] - 1)
    BY <2>2, <2>4, <2>6
  <2>8. 2 * z + ((x + y) % 2) = 0 <=> x = y
    BY <2>2, <2>3, <2>4, <2>6
  <2> QED  BY <2>2, <2>5, <2>7, <2>8
<1>3. n \in S
  <2> HIDE DEF S
  <2>1. \A k \in Nat : k \in S
    BY <1>1, <1>2, AllNumbers
  <2> QED  BY <2>1
<1>4. Good(n)
  <2> HIDE DEF Good
  <2> QED  BY <1>3
<1> QED  BY <1>4

LEMMA XorIs ==
    ASSUME NEW x \in Word, NEW y \in Word
    PROVE  Xor(x, y) \in Int /\ (Wrap(Xor(x, y)) = 0 <=> x = y)
<1> DEFINE h == -LeastWord
           X == x % (2 * h)
           Y == y % (2 * h)
<1>1. h \in Int /\ h >= 2 /\ LeastWord = -h /\ Modulus = 2 * h
      /\ Word = (-h)..(h - 1) /\ x \in Int /\ y \in Int
  BY WordsAre
<1>2. X = Bits(x) /\ Y = Bits(y) /\ Power[Width] = 2 * h /\ Width \in 0..Width
  BY <1>1, WidthAssumption DEF Bits, Modulus
<1> HIDE DEF h
<1>3. X \in 0..(2 * h - 1) /\ Y \in 0..(2 * h - 1)
  BY <1>1
<1>4. X = (IF x < 0 THEN x + 2 * h ELSE x) /\ Y = (IF y < 0 THEN y + 2 * h ELSE y)
  BY <1>1
<1>5. X = Y <=> x = y
  BY <1>1, <1>4
<1> HIDE DEF X, Y
<1> DEFINE z == XorBits[Width][<<X, Y>>]
<1>6. z \in 0..(2 * h - 1) /\ (z = 0 <=> X = Y)
  BY <1>2, <1>3, XorBitsZero
<1>7. Xor(x, y) = z
  BY <1>2 DEF Xor
<1> HIDE DEF z
<1>8. Wrap(z) = 0 <=> z = 0
  <2> DEFINE r == (z + h) % (2 * h)
  <2>1. Wrap(z) = r - h /\ z + h \in Int
    BY <1>1, <1>6 DEF Wrap
  <2>2. r = (IF z + h < 2 * h THEN z + h ELSE z - h)
    BY <1>1, <1>6
  <2> HIDE DEF r
  <2> QED  BY <1>1, <1>6, <2>1, <2>2
<1> QED  BY <1>5, <1>6, <1>7, <1>8

-----------------------------------------------------------------------------
(* The code as a path. Every instruction of the code plays a role for the IR  *)
(* instruction at a place: it takes the stack for the function ("size" and    *)
(* "take", at place 0 of block 1), loads an operand into a register ("x",     *)
(* "y"), computes ("do", "fix") or puts the result into its slot, goes to     *)
(* another block ("bnez", "else", "jump"), loads the value to return          *)
(* ("result"), gives the stack back ("free") or returns ("ret"). A node is a  *)
(* place and a role; it has one successor, and one instruction, which depend  *)
(* on the function, the offsets and the size of the frame only: its unit.     *)

Unit == [f |-> func, off |-> offset, sz |-> stackSz]
IsUnit(K) ==
    /\ K.f \in Functions
    /\ K.off = [s \in Names(K.f) |-> Offset(K.f, s)]
    /\ K.sz = align_16_bytes(IntSize * Cardinality(FirstDefs(K.f)))

\* The registers of the operands and of the result.
IsZero(v) == v.k = "num" /\ v.n = 0
Second(ins) == IF IsZero(ins.args[1]) THEN 0 ELSE 1
RegX(ins) == IF IsZero(ins.args[1]) THEN X0 ELSE 0
RegY(ins) == IF IsZero(ins.args[2]) THEN X0 ELSE Second(ins)
RegR(ins) == IF IsZero(ins.args[1]) /\ ~IsZero(ins.args[2]) THEN 1 ELSE 0
HasFix(ins) == ins.op \in {"eq", "ne", "le", "ge"}
AtOnce(ins) == ins.op \in {"eq", "ne", "add"} /\ ins.args[2].k = "num"

AfterX(ins) ==
    CASE ins.op \in BinaryOps -> IF IsZero(ins.args[2]) THEN "do" ELSE "y"
      [] ins.op = "br" -> "bnez"
      [] OTHER -> "put"
FirstRole(ins) ==
    CASE ins.op = "jump" -> "jump"
      [] ins.op = "ret" -> "result"
      [] OTHER -> IF IsZero(ins.args[1]) THEN AfterX(ins) ELSE "x"
NextRole(sz, ins, r) ==
    CASE r = "x" -> AfterX(ins)
      [] r = "y" -> "do"
      [] r = "do" -> IF HasFix(ins) THEN "fix" ELSE "put"
      [] r = "fix" -> "put"
      [] r = "bnez" -> "else"
      [] r = "result" -> IF sz > 0 THEN "free" ELSE "ret"
      [] r = "free" -> "ret"
      [] OTHER -> "end"

\* The place of the prologue, and the node a block goes on with at place i.
Opening == <<1, 0>>
Start(K, b, i) ==
    LET q == SkipAllocs(K.f, b, i)
    IN  <<q, FirstRole(InsAt(K.f, q))>>
Succ(K, n) ==
    LET p == n[1]
        r == IF p = Opening THEN IF n[2] = "size" THEN "take" ELSE "end"
             ELSE NextRole(K.sz, InsAt(K.f, p), n[2])
    IN  IF r = "end" THEN Start(K, p[1], p[2] + 1) ELSE <<p, r>>

\* The instruction of a node.
AsmOf(p, op, rd, a, b, to) ==
    [op |-> op, rd |-> rd, a |-> a, b |-> b, to |-> to, ir |-> p]
Fetch(K, p, v, rd) ==
    IF v.k = "num" THEN AsmOf(p, "li", rd, v.n, X0, 0)
    ELSE AsmOf(p, "lw", rd, K.off[v.s], SP, 0)
Target(ins) == IF ins.op = "store" THEN ins.args[2].s ELSE ins.def
Source(ins) == IF ins.op \in BinaryOps THEN RegR(ins) ELSE RegX(ins)
InstrOf(K, n) ==
    LET p == n[1]
        ins == InsAt(K.f, p)
    IN  CASE n[2] = "size" -> AsmOf(p, "li", 0, -K.sz, X0, 0)
          [] n[2] = "take" ->
                IF K.sz > ImmLimit THEN AsmOf(p, "add", SP, SP, 0, 0)
                ELSE AsmOf(p, "addi", SP, SP, -K.sz, 0)
          [] n[2] = "x" -> Fetch(K, p, ins.args[1], 0)
          [] n[2] = "y" -> Fetch(K, p, ins.args[2], Second(ins))
          [] n[2] = "do" ->
                IF AtOnce(ins)
                THEN AsmOf(p, ImmOp[ins.op], RegR(ins), RegX(ins),
                           ins.args[2].n, 0)
                ELSE AsmOf(p, RegOp(ins.op), RegR(ins), RegX(ins),
                           RegY(ins), 0)
          [] n[2] = "fix" ->
                AsmOf(p, IF ins.op = "ne" THEN "snez" ELSE "seqz",
                      RegR(ins), RegR(ins), X0, 0)
          [] n[2] = "put" ->
                AsmOf(p, "sw", Source(ins), K.off[Target(ins)], SP, 0)
          [] n[2] = "bnez" -> AsmOf(p, "bnez", RegX(ins), X0, X0, ins.to[1])
          [] n[2] = "else" -> AsmOf(p, "j", X0, X0, X0, ins.to[2])
          [] n[2] = "jump" -> AsmOf(p, "j", X0, X0, X0, ins.to[1])
          [] n[2] = "result" -> Fetch(K, p, ins.args[1], A0)
          [] n[2] = "free" -> AsmOf(p, "addi", SP, SP, K.sz, 0)
          [] n[2] = "ret" -> AsmOf(p, "ret", X0, X0, X0, 0)

\* The nodes there is code for: a role of an instruction whose operands are
\* defined.
RolesOf(ins) ==
    CASE ins.op \in {"store", "load"} -> {"x", "put"}
      [] ins.op \in BinaryOps -> {"x", "y", "do", "fix", "put"}
      [] ins.op = "br" -> {"x", "bnez", "else"}
      [] ins.op = "jump" -> {"jump"}
      [] ins.op = "ret" -> {"result", "free", "ret"}
      [] OTHER -> {}
Lowers(ins, r) ==
    /\ r \in RolesOf(ins)
    /\ \A k \in DOMAIN ins.args : ins.args[k].k \in {"num", "sym"}
    /\ r = "x" => ~IsZero(ins.args[1])
    /\ r = "y" => ~IsZero(ins.args[2])
    /\ r = "fix" => HasFix(ins)
IsNode(K, n) ==
    \/ n[1] = Opening /\ n[2] \in {"size", "take"}
    \/ n[1] \in Places(K.f) /\ Lowers(InsAt(K.f, n[1]), n[2])

\* The code goes from node a up to node b, by the nodes of N.
Path(K, code, a, b, N) ==
    /\ N[1] = a /\ N[Len(code) + 1] = b
    /\ \A i \in 1..Len(code) :
          /\ IsNode(K, N[i]) /\ code[i] = InstrOf(K, N[i])
          /\ N[i + 1] = Succ(K, N[i])
Goes(K, code, a, b) ==
    (\E S : code \in Seq(S)) /\ \E N : Path(K, code, a, b, N)

\* Nothing, one instruction, and one path behind another.
LEMMA NoCode == \A K, a : Goes(K, <<>>, a, a)
<1> TAKE K, a
<1> DEFINE N == <<a>>
<1>1. Path(K, <<>>, a, a, N)
  BY DEF Path
<1>2. <<>> \in Seq({})
  OBVIOUS
<1> QED  BY <1>1, <1>2 DEF Goes

LEMMA OneCode ==
    ASSUME NEW K, NEW n, IsNode(K, n), NEW ins, ins = InstrOf(K, n)
    PROVE  Goes(K, <<ins>>, n, Succ(K, n))
<1> DEFINE N == <<n, Succ(K, n)>>
<1>1. Path(K, <<ins>>, n, Succ(K, n), N)
  <2>1. Len(<<ins>>) = 1 /\ <<ins>>[1] = ins /\ N[1] = n /\ N[2] = Succ(K, n)
    OBVIOUS
  <2> HIDE DEF N
  <2> QED  BY <2>1 DEF Path
<1> HIDE DEF N
<1>2. <<ins>> \in Seq({ins})
  OBVIOUS
<1> QED  BY <1>1, <1>2 DEF Goes

LEMMA BothCodes ==
    ASSUME NEW K, NEW c, NEW d, NEW a, NEW b, NEW e,
           Goes(K, c, a, b), Goes(K, d, b, e)
    PROVE  Goes(K, c \o d, a, e)
<1>1. PICK M : Path(K, c, a, b, M)
  BY DEF Goes
<1>2. PICK N : Path(K, d, b, e, N)
  BY DEF Goes
<1>0. PICK S, T : c \in Seq(S) /\ d \in Seq(T)
  BY DEF Goes
<1>10. c \in Seq(S \cup T) /\ d \in Seq(S \cup T) /\ c \o d \in Seq(S \cup T)
  <2>1. c \in Seq(S \cup T) /\ d \in Seq(S \cup T)
    BY <1>0
  <2> QED  BY <2>1
<1> DEFINE m == Len(c)
           n == Len(d)
           L == [i \in 1..m + n + 1 |-> IF i <= m THEN M[i] ELSE N[i - m]]
           cd == c \o d
<1>3. /\ m \in Nat /\ n \in Nat /\ Len(cd) = m + n
      /\ \A i \in 1..m : cd[i] = c[i]
      /\ \A i \in 1..n : cd[m + i] = d[i]
  BY <1>10
<1>4. /\ M[1] = a /\ M[m + 1] = b /\ N[1] = b /\ N[n + 1] = e
      /\ \A i \in 1..m : /\ IsNode(K, M[i]) /\ c[i] = InstrOf(K, M[i])
                         /\ M[i + 1] = Succ(K, M[i])
      /\ \A i \in 1..n : /\ IsNode(K, N[i]) /\ d[i] = InstrOf(K, N[i])
                         /\ N[i + 1] = Succ(K, N[i])
  BY <1>1, <1>2 DEF Path
<1> HIDE DEF cd, m, n
<1>5. /\ \A i \in 1..m : L[i] = M[i]
      /\ \A i \in 1..n + 1 : L[m + i] = N[i]
      /\ L[m + 1] = M[m + 1]
  BY <1>3, <1>4
<1> HIDE DEF L
<1>6. L[1] = a /\ L[m + n + 1] = e
  <2>1. L[m + (n + 1)] = N[n + 1] /\ m + (n + 1) = m + n + 1
    <3>1. n + 1 \in 1..n + 1 /\ m + (n + 1) = m + n + 1
      BY <1>3
    <3> QED  BY <1>5, <3>1
  <2>2. CASE m = 0
    BY <1>3, <1>4, <1>5, <2>1, <2>2
  <2>3. CASE m # 0
    BY <1>3, <1>4, <1>5, <2>1, <2>3
  <2> QED  BY <2>2, <2>3
<1>7. ASSUME NEW i \in 1..m + n
      PROVE  /\ IsNode(K, L[i]) /\ cd[i] = InstrOf(K, L[i])
             /\ L[i + 1] = Succ(K, L[i])
  <2>1. CASE i <= m
    <3>1. i \in 1..m /\ i + 1 \in 1..m + 1
      BY <1>3, <2>1
    <3>2. L[i] = M[i] /\ L[i + 1] = M[i + 1]
      BY <1>3, <1>5, <3>1
    <3> QED  BY <1>3, <1>4, <3>1, <3>2
  <2>2. CASE i > m
    <3>1. i - m \in 1..n /\ (i - m) + 1 \in 1..n + 1 /\ i = m + (i - m)
          /\ i + 1 = m + ((i - m) + 1) /\ i - m \in 1..n + 1
      BY <1>3, <2>2
    <3>2. L[i] = N[i - m] /\ L[i + 1] = N[(i - m) + 1]
      BY <1>5, <3>1
    <3>3. cd[i] = d[i - m]
      BY <1>3, <3>1
    <3>4. /\ IsNode(K, N[i - m]) /\ d[i - m] = InstrOf(K, N[i - m])
          /\ N[(i - m) + 1] = Succ(K, N[i - m])
      BY <1>4, <3>1
    <3> QED  BY <3>2, <3>3, <3>4
  <2> QED  BY <1>3, <2>1, <2>2
<1>8. Path(K, cd, a, e, L)
  BY <1>3, <1>6, <1>7 DEF Path
<1>9. Goes(K, cd, a, e)
  <2>1. \E U : cd \in Seq(U)
    BY <1>10 DEF cd
  <2> QED  BY <1>8, <2>1 DEF Goes
<1> QED  BY <1>9 DEF cd

\* A set of numbers has a least one.
LEMMA LeastOf ==
    ASSUME NEW T \in SUBSET Nat, T # {}
    PROVE  \E j \in T : \A k \in T : j <= k
<1>1. PICK j \in T : \A k \in T : ~ (<<k, j>> \in OpToRel(<, Nat))
  BY WFMin, NatLessThanWellFounded
<1>2. ASSUME NEW k \in T PROVE j <= k
  <2>1. j \in Nat /\ k \in Nat
    OBVIOUS
  <2>2. k < j => <<k, j>> \in {ss \in Nat \X Nat : ss[1] < ss[2]}
    BY <2>1
  <2>3. ~(k < j)
    BY <1>1, <2>2 DEF OpToRel
  <2> QED  BY <2>1, <2>3
<1> QED  BY <1>2

\* The first instruction from place i of a block on that is not an alloc.
LEMMA SkipIs ==
    ASSUME NEW f \in Functions, NEW b \in DOMAIN f.blocks, NEW i \in Nat, i > 0
    PROVE  LET body == f.blocks[b]
               n == Len(body)
               j == SkipAllocs(f, b, i)[2]
           IN  /\ SkipAllocs(f, b, i) = <<b, j>>
               /\ j \in Nat
               /\ i <= n + 1 => i <= j /\ j <= n + 1
               /\ i > n => j = n + 1
               /\ j <= n => body[j].op # "alloc"
               /\ i <= n /\ body[n].op # "alloc" => j <= n
               /\ i <= n /\ body[i].op # "alloc" => j = i
               /\ i <= n /\ body[i].op = "alloc"
                     => SkipAllocs(f, b, i) = SkipAllocs(f, b, i + 1)
<1> DEFINE body == f.blocks[b]
           n == Len(body)
           Live(k) == {j \in k..n : body[j].op # "alloc"}
           At_(k) == IF Live(k) = {} THEN n + 1
                     ELSE CHOOSE j \in Live(k) : \A l \in Live(k) : j <= l
<1>1. n \in Nat
  BY FunctionsAssumption
<1>2. \A k : SkipAllocs(f, b, k) = <<b, At_(k)>>
  BY DEF SkipAllocs
<1>3. ASSUME Live(i) # {}
      PROVE  At_(i) \in Live(i) /\ \A l \in Live(i) : At_(i) <= l
  <2>1. Live(i) \in SUBSET Nat
    BY <1>1
  <2>2. \E j \in Live(i) : \A l \in Live(i) : j <= l
    BY <1>3, <2>1, LeastOf
  <2> HIDE DEF Live
  <2> QED  BY <1>3, <2>2
<1>4. ASSUME i <= n, body[i].op = "alloc"
      PROVE  At_(i) = At_(i + 1)
  <2>1. \A j \in Int : i <= j /\ j <= n /\ j # i => i + 1 <= j
    BY <1>1
  <2>2. Live(i) = Live(i + 1)
    BY <1>1, <1>4, <2>1
  <2> HIDE DEF Live
  <2> QED  BY <2>2
<1>5. i <= n /\ body[n].op # "alloc" => n \in Live(i)
  BY <1>1
<1>6. i <= n /\ body[i].op # "alloc" => i \in Live(i)
  BY <1>1
<1>7. i > n => Live(i) = {}
  BY <1>1
<1>8. \A j \in Live(i) : /\ j \in Nat /\ i <= j /\ j <= n
                         /\ body[j].op # "alloc"
  BY <1>1
<1>9. Live(i) = {} => At_(i) = n + 1
  OBVIOUS
<1> DEFINE a == At_(i)
           c == At_(i + 1)
           L == Live(i)
<1>10. SkipAllocs(f, b, i) = <<b, a>> /\ SkipAllocs(f, b, i + 1) = <<b, c>>
  BY <1>2
<1>11. /\ L # {} => a \in L /\ \A l \in L : a <= l
       /\ L = {} => a = n + 1
       /\ i <= n /\ body[i].op = "alloc" => a = c
  BY <1>3, <1>4, <1>9
<1>12. \A j \in L : /\ j \in Nat /\ i <= j /\ j <= n
                    /\ body[j].op # "alloc"
  BY <1>8
<1>13. /\ i <= n /\ body[n].op # "alloc" => n \in L
       /\ i <= n /\ body[i].op # "alloc" => i \in L
       /\ i > n => L = {}
  BY <1>5, <1>6, <1>7
<1> HIDE DEF a, c, L, n, body
<1>14. /\ a \in Nat /\ (i <= n + 1 => i <= a /\ a <= n + 1)
       /\ (i > n => a = n + 1) /\ (a <= n => body[a].op # "alloc")
       /\ (i <= n /\ body[n].op # "alloc" => a <= n)
       /\ (i <= n /\ body[i].op # "alloc" => a = i)
  <2>1. CASE L = {}
    BY <1>1, <1>11, <1>13, <2>1
  <2>2. CASE L # {}
    <3>1. a \in L /\ \A l \in L : a <= l
      BY <1>11, <2>2
    <3>2. a \in Nat /\ i <= a /\ a <= n /\ body[a].op # "alloc"
      BY <1>12, <3>1
    <3> QED  BY <1>1, <1>13, <3>1, <3>2
  <2> QED  BY <2>1, <2>2
<1> QED  BY <1>10, <1>11, <1>14 DEF n, body

\* What is before a node's place to be lowered: nothing for an alloc, and its
\* own first role for any other instruction.
LEMMA StartIs ==
    ASSUME NEW K, K.f \in Functions, NEW b \in DOMAIN K.f.blocks,
           NEW i \in DOMAIN K.f.blocks[b]
    PROVE  IF K.f.blocks[b][i].op = "alloc"
           THEN Start(K, b, i) = Start(K, b, i + 1)
           ELSE Start(K, b, i) = <<<<b, i>>, FirstRole(InsAt(K.f, <<b, i>>))>>
<1>1. i \in Nat /\ i > 0 /\ i <= Len(K.f.blocks[b])
  <2>1. K.f.blocks[b] \in Seq(IRInstrs(K.f))
    BY FunctionsAssumption
  <2> QED  BY <2>1
<1>2. /\ SkipAllocs(K.f, b, i) = <<b, SkipAllocs(K.f, b, i)[2]>>
      /\ K.f.blocks[b][i].op # "alloc" => SkipAllocs(K.f, b, i)[2] = i
      /\ K.f.blocks[b][i].op = "alloc"
            => SkipAllocs(K.f, b, i) = SkipAllocs(K.f, b, i + 1)
  BY <1>1, SkipIs
<1> QED  BY <1>2 DEF Start

-----------------------------------------------------------------------------
(* Every visit appends the code of its instruction.                           *)

\* The instruction that is visited.
LEMMA HereIs ==
    ASSUME GenTyped, NEW op, AtInstr(op)
    PROVE  /\ todo \in Places(func) /\ InsAt(func, todo) = Ins
           /\ todo = <<todo[1], todo[2]>> /\ todo # Opening
           /\ Ins \in IRInstrs(func) /\ Ins.op = op /\ AtCode
           /\ todo[1] \in DOMAIN func.blocks
           /\ todo[2] \in DOMAIN func.blocks[todo[1]]
<1>1. Ins \in IRInstrs(func) /\ Ins.op = op /\ AtCode
  BY InsTyped
<1>2. /\ todo = <<todo[1], todo[2]>> /\ todo[1] \in DOMAIN func.blocks
      /\ todo[2] \in DOMAIN func.blocks[todo[1]]
  BY DEF GenTyped, AtInstr, Body
<1>3. todo \in Places(func)
  BY <1>2 DEF Places
<1>4. todo[2] # 0
  BY <1>2, FunctionsAssumption DEF GenTyped
<1> QED  BY <1>1, <1>2, <1>3, <1>4 DEF InsAt, Ins, Body, Opening

\* The code that loads the first operand, and the second.
Loads == {"store", "load", "br"} \cup BinaryOps

LEMMA RoleNames ==
    ASSUME NEW ins, ins.op \in Loads
    PROVE  /\ {"x"} \subseteq RolesOf(ins)
           /\ AfterX(ins) \in RolesOf(ins)
           /\ FirstRole(ins) = IF IsZero(ins.args[1]) THEN AfterX(ins) ELSE "x"
           /\ AfterX(ins) # "end"
           /\ ins.op \in BinaryOps => {"y", "do", "put"} \subseteq RolesOf(ins)
BY DEF Loads, RolesOf, AfterX, FirstRole, BinaryOps

LEMMA FetchX ==
    ASSUME GenTyped, AtInstr(Ins.op), Ins.op \in Loads, Ins.args[1] \in Operands(func),
           \A k \in DOMAIN Ins.args : Ins.args[k].k \in {"num", "sym"}
    PROVE  LET x == GetReg(Ins.args[1], 0) IN
           /\ x.reg = RegX(Ins) /\ x.t = Second(Ins)
           /\ Goes(Unit, x.code, <<todo, FirstRole(Ins)>>, <<todo, AfterX(Ins)>>)
<1> DEFINE v == Ins.args[1]
           x == GetReg(v, 0)
           n == <<todo, "x">>
<1> SUFFICES /\ x.reg = RegX(Ins) /\ x.t = Second(Ins)
             /\ Goes(Unit, x.code, <<todo, FirstRole(Ins)>>,
                     <<todo, AfterX(Ins)>>)
  OBVIOUS
<1>1. /\ todo \in Places(func) /\ InsAt(func, todo) = Ins /\ todo # Opening
  BY HereIs
<1>2. CASE IsZero(v)
  <2>1. x = [reg |-> X0, code |-> <<>>, t |-> 0]
    BY <1>2 DEF IsZero, GetReg
  <2>2. FirstRole(Ins) = AfterX(Ins)
    BY <1>2, RoleNames
  <2>3. x.reg = RegX(Ins) /\ x.t = Second(Ins) /\ x.code = <<>>
    BY <1>2, <2>1 DEF RegX, Second
  <2> HIDE DEF x
  <2> QED  BY <2>2, <2>3, NoCode
<1>3. CASE ~IsZero(v)
  <2> DEFINE ins == IF v.k = "num" THEN Instr2RI("li", 0, v.n)
                    ELSE Instr3("lw", 0, offset[v.s], SP)
  <2>1. x = [reg |-> 0, code |-> <<ins>>, t |-> 1]
    <3>1. v.k = "num" \/ v.k = "sym"
      BY DEF Operands, Symbols
    <3> QED  BY <1>3, <3>1 DEF IsZero, GetReg
  <2>2. x.reg = RegX(Ins) /\ x.t = Second(Ins) /\ x.code = <<ins>>
    BY <1>3, <2>1 DEF RegX, Second
  <2>3. ins = InstrOf(Unit, n)
    BY <1>1 DEF InstrOf, Unit, Fetch, AsmOf, Instr2RI, Instr3, ASM
  <2>4. IsNode(Unit, n)
    BY <1>1, <1>3, RoleNames DEF IsNode, Lowers, Unit
  <2>5. Succ(Unit, n) = <<todo, AfterX(Ins)>>
    BY <1>1, RoleNames DEF Succ, NextRole, Unit
  <2>6. <<todo, FirstRole(Ins)>> = n
    BY <1>3, RoleNames
  <2> HIDE DEF ins, n, x
  <2>7. Goes(Unit, <<ins>>, n, Succ(Unit, n))
    BY <2>3, <2>4, OneCode
  <2> QED  BY <2>2, <2>5, <2>6, <2>7
<1> HIDE DEF x
<1> QED  BY <1>2, <1>3

LEMMA FetchY ==
    ASSUME GenTyped, AtInstr(Ins.op), Ins.op \in BinaryOps,
           Ins.args[2] \in Operands(func),
           \A k \in DOMAIN Ins.args : Ins.args[k].k \in {"num", "sym"}
    PROVE  LET y == GetReg(Ins.args[2], Second(Ins)) IN
           /\ y.reg = RegY(Ins)
           /\ y.t = IF IsZero(Ins.args[2]) THEN Second(Ins) ELSE Second(Ins) + 1
           /\ Goes(Unit, y.code, <<todo, AfterX(Ins)>>, <<todo, "do">>)
<1> DEFINE v == Ins.args[2]
           t == Second(Ins)
           y == GetReg(v, t)
           n == <<todo, "y">>
<1> SUFFICES /\ y.reg = RegY(Ins)
             /\ y.t = IF IsZero(Ins.args[2]) THEN t ELSE t + 1
             /\ Goes(Unit, y.code, <<todo, AfterX(Ins)>>, <<todo, "do">>)
  OBVIOUS
<1>0. Ins.op \in Loads /\ AfterX(Ins) = (IF IsZero(v) THEN "do" ELSE "y")
  <2>1. Ins.op \in Loads
    BY DEF Loads
  <2>2. AfterX(Ins) = (IF IsZero(v) THEN "do" ELSE "y")
    BY DEF AfterX, BinaryOps
  <2> QED  BY <2>1, <2>2
<1>1. /\ todo \in Places(func) /\ InsAt(func, todo) = Ins /\ todo # Opening
  BY HereIs
<1>2. CASE IsZero(v)
  <2>1. y = [reg |-> X0, code |-> <<>>, t |-> t]
    BY <1>2 DEF IsZero, GetReg
  <2>2. /\ y.reg = RegY(Ins) /\ y.code = <<>>
        /\ y.t = IF IsZero(Ins.args[2]) THEN t ELSE t + 1
    BY <1>2, <2>1 DEF RegY
  <2> HIDE DEF y
  <2> QED  BY <1>0, <1>2, <2>2, NoCode
<1>3. CASE ~IsZero(v)
  <2> DEFINE ins == IF v.k = "num" THEN Instr2RI("li", t, v.n)
                    ELSE Instr3("lw", t, offset[v.s], SP)
  <2>1. y = [reg |-> t, code |-> <<ins>>, t |-> t + 1]
    <3>1. v.k = "num" \/ v.k = "sym"
      BY DEF Operands, Symbols
    <3> HIDE DEF t
    <3> QED  BY <1>3, <3>1 DEF IsZero, GetReg
  <2>2. /\ y.reg = RegY(Ins) /\ y.code = <<ins>>
        /\ y.t = IF IsZero(Ins.args[2]) THEN t ELSE t + 1
    BY <1>3, <2>1 DEF RegY
  <2>3. ins = InstrOf(Unit, n)
    BY <1>1 DEF InstrOf, Unit, Fetch, AsmOf, Instr2RI, Instr3, ASM
  <2>4. IsNode(Unit, n)
    BY <1>0, <1>1, <1>3, RoleNames DEF IsNode, Lowers, Unit
  <2>5. Succ(Unit, n) = <<todo, "do">>
    BY <1>1, RoleNames DEF Succ, NextRole, Unit
  <2>6. <<todo, AfterX(Ins)>> = n
    BY <1>0, <1>3
  <2> HIDE DEF ins, n, y
  <2>7. Goes(Unit, <<ins>>, n, Succ(Unit, n))
    BY <2>3, <2>4, OneCode
  <2> QED  BY <2>2, <2>5, <2>6, <2>7
<1> HIDE DEF y, t
<1> QED  BY <1>2, <1>3

\* What a visit appends: the code from here up to the next instruction.
EmitsPath ==
    \E code : /\ Emit(code)
              /\ Goes(Unit, code, Start(Unit, todo[1], todo[2]),
                      Start(Unit, todo[1], todo[2] + 1))

\* Where the visited instruction starts, and what follows its last role.
LEMMA ThisStart ==
    ASSUME GenTyped, AtInstr(Ins.op), Ins.op # "alloc"
    PROVE  /\ Start(Unit, todo[1], todo[2]) = <<todo, FirstRole(Ins)>>
           /\ \A r : NextRole(stackSz, Ins, r) = "end" =>
                 Succ(Unit, <<todo, r>>) = Start(Unit, todo[1], todo[2] + 1)
           /\ \A r : NextRole(stackSz, Ins, r) # "end" =>
                 Succ(Unit, <<todo, r>>) = <<todo, NextRole(stackSz, Ins, r)>>
<1>1. /\ InsAt(func, todo) = Ins /\ todo # Opening
      /\ todo = <<todo[1], todo[2]>> /\ todo[1] \in DOMAIN func.blocks
      /\ todo[2] \in DOMAIN func.blocks[todo[1]]
  BY HereIs
<1>2. Unit.f = func /\ Unit.sz = stackSz
  BY DEF Unit
<1>3. Ins = func.blocks[todo[1]][todo[2]]
  BY <1>1 DEF InsAt
<1>4. func \in Functions
  BY DEF GenTyped
<1>5. Start(Unit, todo[1], todo[2]) = <<todo, FirstRole(Ins)>>
  BY <1>1, <1>2, <1>3, <1>4, StartIs
<1>6. \A r : Succ(Unit, <<todo, r>>) =
             IF NextRole(stackSz, Ins, r) = "end"
             THEN Start(Unit, todo[1], todo[2] + 1)
             ELSE <<todo, NextRole(stackSz, Ins, r)>>
  BY <1>1, <1>2 DEF Succ
<1> QED  BY <1>5, <1>6

\* One instruction of it.
LEMMA ThisNode ==
    ASSUME GenTyped, AtInstr(Ins.op), NEW r, Lowers(Ins, r),
           NEW ins, ins = InstrOf(Unit, <<todo, r>>)
    PROVE  Goes(Unit, <<ins>>, <<todo, r>>, Succ(Unit, <<todo, r>>))
<1>1. todo \in Places(func) /\ InsAt(func, todo) = Ins
  BY HereIs
<1>2. IsNode(Unit, <<todo, r>>)
  BY <1>1 DEF IsNode, Unit
<1> QED  BY <1>2, OneCode

LEMMA AllocGoes ==
    ASSUME GenTyped, VisitAlloc
    PROVE  EmitsPath
<1>1. AtInstr("alloc") /\ Emit(<<>>)
  BY DEF VisitAlloc
<1>2. /\ InsAt(func, todo) = Ins /\ Ins.op = "alloc"
      /\ todo = <<todo[1], todo[2]>> /\ todo[1] \in DOMAIN func.blocks
      /\ todo[2] \in DOMAIN func.blocks[todo[1]]
  BY <1>1, HereIs
<1>3. Unit.f = func /\ func \in Functions
  BY DEF Unit, GenTyped
<1>4. func.blocks[todo[1]][todo[2]].op = "alloc"
  BY <1>2 DEF InsAt
<1>5. Start(Unit, todo[1], todo[2]) = Start(Unit, todo[1], todo[2] + 1)
  BY <1>2, <1>3, <1>4, StartIs
<1> QED  BY <1>1, <1>5, NoCode DEF EmitsPath

\* A store and a load: the operand is loaded and put.
LEMMA PutGoes ==
    ASSUME GenTyped, AtInstr(Ins.op), Ins.op \in {"store", "load"},
           Ins.args[1] \in Operands(func),
           \A k \in DOMAIN Ins.args : Ins.args[k].k \in {"num", "sym"},
           NEW x, x = GetReg(Ins.args[1], 0),
           Emit(x.code \o <<Instr3("sw", x.reg, offset[Target(Ins)], SP)>>)
    PROVE  EmitsPath
<1> DEFINE sw == Instr3("sw", x.reg, offset[Target(Ins)], SP)
           n == <<todo, "put">>
<1>1. Ins.op \in Loads /\ Ins.op # "alloc" /\ AfterX(Ins) = "put"
      /\ Lowers(Ins, "put") /\ Source(Ins) = RegX(Ins)
  BY DEF Loads, AfterX, BinaryOps, Lowers, RolesOf, Source
<1>2. /\ x.reg = RegX(Ins)
      /\ Goes(Unit, x.code, <<todo, FirstRole(Ins)>>, n)
  BY <1>1, FetchX
<1>3. InsAt(func, todo) = Ins
  BY HereIs
<1>4. sw = InstrOf(Unit, n)
  BY <1>1, <1>2, <1>3 DEF InstrOf, Unit, AsmOf, Instr3, ASM
<1>5. Succ(Unit, n) = Start(Unit, todo[1], todo[2] + 1)
      /\ Start(Unit, todo[1], todo[2]) = <<todo, FirstRole(Ins)>>
  BY <1>1, ThisStart DEF NextRole
<1> HIDE DEF sw
<1>6. Goes(Unit, <<sw>>, n, Succ(Unit, n))
  BY <1>1, <1>4, ThisNode
<1>7. Goes(Unit, x.code \o <<sw>>, <<todo, FirstRole(Ins)>>, Succ(Unit, n))
  BY <1>2, <1>6, BothCodes
<1> QED  BY <1>5, <1>7 DEF EmitsPath, sw

LEMMA StoreGoes ==
    ASSUME GenTyped, VisitStore
    PROVE  EmitsPath \/ (AtCode /\ AssertFails)
<1>1. AtInstr("store")
  BY DEF VisitStore
<1>2. Ins \in IRInstrs(func) /\ Ins.op = "store" /\ AtCode
  BY <1>1, InsTyped
<1>3. /\ Ins.args \in Values(func) \X Symbols(func)
      /\ Target(Ins) = Ins.args[2].s
  BY <1>2 DEF IRInstrs, BinaryOps, Target
<1>4. CASE Ins.args[1].k = "undef"
  BY <1>2, <1>4 DEF VisitStore
<1>5. CASE Ins.args[1].k # "undef"
  <2>1. Ins.args[1] \in Operands(func)
    BY <1>3, <1>5 DEF Values, Undefined
  <2>2. \A k \in DOMAIN Ins.args : Ins.args[k].k \in {"num", "sym"}
    BY <1>3, <2>1 DEF Operands, Symbols
  <2> DEFINE x == GetReg(Ins.args[1], 0)
  <2>3. tmpVarCount = 0
    BY DEF GenTyped
  <2>4. Emit(x.code \o <<Instr3("sw", x.reg, offset[Target(Ins)], SP)>>)
    BY <1>3, <1>5, <2>3 DEF VisitStore
  <2> HIDE DEF x
  <2>5. x = GetReg(Ins.args[1], 0)
    BY DEF x
  <2> QED  BY <1>1, <1>2, <2>1, <2>2, <2>4, <2>5, PutGoes
<1> QED  BY <1>4, <1>5

LEMMA LoadGoes ==
    ASSUME GenTyped, VisitLoad
    PROVE  EmitsPath
<1>1. AtInstr("load")
  BY DEF VisitLoad
<1>2. Ins \in IRInstrs(func) /\ Ins.op = "load"
  BY <1>1, InsTyped
<1>3. Ins.args \in [{1} -> Symbols(func)] /\ Target(Ins) = Ins.def
  BY <1>2 DEF IRInstrs, BinaryOps, Target
<1>4. /\ Ins.args[1] \in Operands(func)
      /\ \A k \in DOMAIN Ins.args : Ins.args[k].k \in {"num", "sym"}
  BY <1>3 DEF Operands, Symbols
<1> DEFINE x == GetReg(Ins.args[1], 0)
<1>5. tmpVarCount = 0
  BY DEF GenTyped
<1>6. Emit(x.code \o <<Instr3("sw", x.reg, offset[Target(Ins)], SP)>>)
  BY <1>3, <1>5 DEF VisitLoad
<1> HIDE DEF x
<1>7. x = GetReg(Ins.args[1], 0)
  BY DEF x
<1> QED  BY <1>1, <1>2, <1>4, <1>6, <1>7, PutGoes

LEMMA JumpGoes ==
    ASSUME GenTyped, VisitJump
    PROVE  EmitsPath
<1> DEFINE j == Instr1S("j", Ins.to[1])
           n == <<todo, "jump">>
<1>1. AtInstr("jump") /\ Emit(<<j>>)
  BY DEF VisitJump, LabelOf
<1>2. /\ Ins \in IRInstrs(func) /\ Ins.op = "jump"
      /\ InsAt(func, todo) = Ins
  BY <1>1, HereIs
<1>3. Ins.args = <<>>
  BY <1>2 DEF IRInstrs, BinaryOps
<1>4. Lowers(Ins, "jump") /\ FirstRole(Ins) = "jump"
  BY <1>2, <1>3 DEF Lowers, RolesOf, BinaryOps, FirstRole
<1>5. j = InstrOf(Unit, n)
  BY <1>2 DEF InstrOf, Unit, AsmOf, Instr1S, ASM
<1>6. Succ(Unit, n) = Start(Unit, todo[1], todo[2] + 1)
      /\ Start(Unit, todo[1], todo[2]) = n
  BY <1>1, <1>2, <1>4, ThisStart DEF NextRole
<1> HIDE DEF j
<1>7. Goes(Unit, <<j>>, n, Succ(Unit, n))
  BY <1>1, <1>2, <1>4, <1>5, ThisNode
<1> QED  BY <1>1, <1>6, <1>7 DEF EmitsPath

LEMMA TwoInARow == \A a, b : <<a>> \o <<b>> = <<a, b>>
<1> TAKE a, b
<1> DEFINE s == <<a>>
           t == <<b>>
           u == <<a, b>>
<1>1. /\ s \in Seq({a, b}) /\ t \in Seq({a, b}) /\ u \in Seq({a, b})
      /\ Len(s) = 1 /\ Len(t) = 1 /\ Len(u) = 2
      /\ s[1] = a /\ t[1] = b /\ u[1] = a /\ u[2] = b
  OBVIOUS
<1> DEFINE S == {a, b}
<1> HIDE DEF s, t, u, S
<1>2. /\ s \o t \in Seq(S) /\ Len(s \o t) = Len(s) + Len(t)
      /\ (s \o t)[1] = s[1] /\ (s \o t)[2] = t[2 - Len(s)]
  <2>1. s \in Seq(S) /\ t \in Seq(S)
    BY <1>1 DEF S
  <2>2. s \o t \in Seq(S) /\ Len(s \o t) = Len(s) + Len(t)
    BY <2>1
  <2>3. /\ \A i \in 1..Len(s) : (s \o t)[i] = s[i]
        /\ \A i \in 1..Len(t) : (s \o t)[Len(s) + i] = t[i]
    BY <2>1
  <2>4. (s \o t)[1] = s[1] /\ (s \o t)[1 + 1] = t[1]
    <3>1. 1 \in 1..Len(s) /\ 1 \in 1..Len(t) /\ Len(s) = 1
      BY <1>1
    <3> QED  BY <2>3, <3>1
  <2> QED  BY <1>1, <2>2, <2>4
<1>3. \A i \in 1..2 : (s \o t)[i] = u[i]
  BY <1>1, <1>2
<1>4. s \o t = u
  BY <1>1, <1>2, <1>3
<1> QED  BY <1>4 DEF s, t, u

LEMMA BrGoes ==
    ASSUME GenTyped, VisitBr
    PROVE  EmitsPath
<1> DEFINE x == GetReg(Ins.args[1], 0)
           bnez == Instr2RS("bnez", x.reg, Ins.to[1])
           j == Instr1S("j", Ins.to[2])
           n == <<todo, "bnez">>
           m == <<todo, "else">>
<1>1. AtInstr("br")
  BY DEF VisitBr
<1>2. /\ Ins \in IRInstrs(func) /\ Ins.op = "br" /\ InsAt(func, todo) = Ins
      /\ Ins.op \in Loads /\ AtInstr(Ins.op)
  BY <1>1, HereIs DEF Loads
<1>3. Ins.args \in [{1} -> Operands(func)]
  BY <1>2 DEF IRInstrs, BinaryOps
<1>4. /\ Ins.args[1] \in Operands(func)
      /\ \A k \in DOMAIN Ins.args : Ins.args[k].k \in {"num", "sym"}
  BY <1>3 DEF Operands, Symbols
<1>5. tmpVarCount = 0
  BY DEF GenTyped
<1>6. Emit(x.code \o <<bnez, j>>)
  BY <1>5 DEF VisitBr, TargetsOf
<1>7. Lowers(Ins, "bnez") /\ Lowers(Ins, "else") /\ AfterX(Ins) = "bnez"
  BY <1>2, <1>4 DEF Lowers, RolesOf, BinaryOps, AfterX
<1>8. /\ x.reg = RegX(Ins)
      /\ Goes(Unit, x.code, <<todo, FirstRole(Ins)>>, n)
  BY <1>2, <1>4, <1>7, FetchX
<1>9. bnez = InstrOf(Unit, n) /\ j = InstrOf(Unit, m)
  BY <1>2, <1>8 DEF InstrOf, Unit, AsmOf, Instr1S, Instr2RS, ASM
<1>10. /\ Succ(Unit, n) = m /\ Succ(Unit, m) = Start(Unit, todo[1], todo[2] + 1)
       /\ Start(Unit, todo[1], todo[2]) = <<todo, FirstRole(Ins)>>
  BY <1>1, <1>2, ThisStart DEF NextRole
<1> HIDE DEF x, bnez, j
<1>11. Goes(Unit, <<bnez>>, n, Succ(Unit, n))
  BY <1>2, <1>7, <1>9, ThisNode
<1>12. Goes(Unit, <<j>>, m, Succ(Unit, m))
  BY <1>2, <1>7, <1>9, ThisNode
<1> HIDE DEF n, m
<1>13. Goes(Unit, <<bnez>> \o <<j>>, n, Succ(Unit, m))
  BY <1>10, <1>11, <1>12, BothCodes
<1>14. <<bnez>> \o <<j>> = <<bnez, j>>
  BY TwoInARow
<1>15. Goes(Unit, x.code \o <<bnez, j>>, <<todo, FirstRole(Ins)>>, Succ(Unit, m))
  BY <1>8, <1>13, <1>14, BothCodes
<1> QED  BY <1>6, <1>10, <1>15 DEF EmitsPath

LEMMA RetGoes ==
    ASSUME GenTyped, VisitRet
    PROVE  EmitsPath \/ (AtCode /\ AssertFails)
<1> DEFINE v == Ins.args[1]
           load == IF v.k = "num" THEN Instr2RI("li", A0, v.n)
                   ELSE Instr3("lw", A0, offset[v.s], SP)
           ret == Instr0("ret")
           free == Instr3("addi", SP, SP, stackSz)
           n == <<todo, "result">>
           l == <<todo, "free">>
           m == <<todo, "ret">>
<1>1. AtInstr("ret")
  BY DEF VisitRet
<1>2. /\ Ins \in IRInstrs(func) /\ Ins.op = "ret" /\ InsAt(func, todo) = Ins
      /\ AtInstr(Ins.op) /\ AtCode
  BY <1>1, HereIs
<1>3. Ins.args \in [{1} -> Values(func)]
  BY <1>2 DEF IRInstrs, BinaryOps
<1>4. CASE v.k = "undef"
  BY <1>2, <1>4 DEF VisitRet
<1>5. CASE v.k # "undef"
  <2>1. Emit(<<load>> \o Epilogue \o <<ret>>)
    BY <1>5 DEF VisitRet
  <2>2. \A k \in DOMAIN Ins.args : Ins.args[k].k \in {"num", "sym"}
    BY <1>3, <1>5 DEF Values, Undefined, Operands, Symbols
  <2>3. \A r \in {"result", "free", "ret"} : Lowers(Ins, r)
    BY <1>2, <2>2 DEF Lowers, RolesOf, BinaryOps
  <2>4. FirstRole(Ins) = "result"
    BY <1>2 DEF FirstRole
  <2>5. /\ load = InstrOf(Unit, n) /\ ret = InstrOf(Unit, m)
        /\ free = InstrOf(Unit, l)
    BY <1>2 DEF InstrOf, Unit, AsmOf, Fetch, Instr0, Instr2RI, Instr3, ASM
  <2>6. /\ Start(Unit, todo[1], todo[2]) = n
        /\ Succ(Unit, n) = (IF stackSz > 0 THEN l ELSE m)
        /\ Succ(Unit, l) = m
        /\ Succ(Unit, m) = Start(Unit, todo[1], todo[2] + 1)
    <3>1. /\ NextRole(stackSz, Ins, "result") = (IF stackSz > 0 THEN "free" ELSE "ret")
          /\ NextRole(stackSz, Ins, "free") = "ret"
          /\ NextRole(stackSz, Ins, "ret") = "end"
      BY DEF NextRole
    <3>2. Start(Unit, todo[1], todo[2]) = n
      BY <1>2, <2>4, ThisStart
    <3>3. Succ(Unit, m) = Start(Unit, todo[1], todo[2] + 1)
      BY <1>2, <3>1, ThisStart
    <3>4. Succ(Unit, l) = m
      BY <1>2, <3>1, ThisStart
    <3>5. Succ(Unit, n) = (IF stackSz > 0 THEN l ELSE m)
      BY <1>2, <3>1, ThisStart
    <3> QED  BY <3>2, <3>3, <3>4, <3>5
  <2> HIDE DEF load, ret, free
  <2>7. Goes(Unit, <<load>>, n, Succ(Unit, n)) /\ Goes(Unit, <<ret>>, m, Succ(Unit, m))
        /\ Goes(Unit, <<free>>, l, Succ(Unit, l))
    BY <1>2, <2>3, <2>5, ThisNode
  <2> HIDE DEF n, m, l
  <2>8. Goes(Unit, Epilogue, Succ(Unit, n), m)
    <3>1. CASE stackSz > 0
      BY <2>6, <2>7, <3>1 DEF Epilogue, free
    <3>2. CASE ~(stackSz > 0)
      BY <2>6, <3>2, NoCode DEF Epilogue
    <3> QED  BY <3>1, <3>2
  <2>9. Goes(Unit, <<load>> \o Epilogue, n, m)
    BY <2>7, <2>8, BothCodes
  <2>10. Goes(Unit, (<<load>> \o Epilogue) \o <<ret>>, n, Succ(Unit, m))
    BY <2>7, <2>9, BothCodes
  <2> QED  BY <2>1, <2>6, <2>10 DEF EmitsPath
<1> QED  BY <1>4, <1>5

LEMMA BExprGoes ==
    ASSUME GenTyped, NEW op \in BinaryOps, VisitBExpr(op)
    PROVE  EmitsPath
<1> DEFINE x == GetReg(Ins.args[1], 0)
           y == GetReg(Ins.args[2], x.t)
           r == IF IsTemp(x.reg) THEN x.reg ELSE y.t
           do == IF op \in DOMAIN ImmOp /\ Ins.args[2].k = "num"
                 THEN Instr3(ImmOp[op], r, x.reg, Ins.args[2].n)
                 ELSE Instr3(RegOp(op), r, x.reg, y.reg)
           sw == Instr3("sw", r, offset[Ins.def], SP)
           fix == Instr2RR(IF op = "ne" THEN "snez" ELSE "seqz", r, r)
           n == <<todo, "do">>
           l == <<todo, "fix">>
           m == <<todo, "put">>
<1>1. AtInstr(op)
  BY DEF VisitBExpr
<1>2. /\ Ins \in IRInstrs(func) /\ Ins.op = op /\ InsAt(func, todo) = Ins
      /\ Ins.op \in Loads /\ AtInstr(Ins.op) /\ Ins.op \in BinaryOps
      /\ Ins.op # "alloc" /\ Ins.op # "store"
  BY <1>1, HereIs DEF Loads, BinaryOps
<1>3. Ins.args \in Operands(func) \X Operands(func)
  BY <1>2 DEF IRInstrs, BinaryOps
<1>4. /\ Ins.args[1] \in Operands(func) /\ Ins.args[2] \in Operands(func)
      /\ \A k \in DOMAIN Ins.args : Ins.args[k].k \in {"num", "sym"}
  BY <1>3 DEF Operands, Symbols
<1>5. tmpVarCount = 0
  BY DEF GenTyped
<1>6. Emit(x.code \o y.code \o <<do>> \o Fix(op, r) \o <<sw>>)
  BY <1>5 DEF VisitBExpr
<1>7. /\ Lowers(Ins, "do") /\ Lowers(Ins, "put")
      /\ HasFix(Ins) => Lowers(Ins, "fix")
  BY <1>2, <1>4 DEF Lowers, RolesOf, BinaryOps
<1>8. /\ x.reg = RegX(Ins) /\ x.t = Second(Ins)
      /\ Goes(Unit, x.code, <<todo, FirstRole(Ins)>>, <<todo, AfterX(Ins)>>)
  BY <1>2, <1>4, FetchX
<1>9. /\ y.reg = RegY(Ins)
      /\ y.t = IF IsZero(Ins.args[2]) THEN Second(Ins) ELSE Second(Ins) + 1
      /\ Goes(Unit, y.code, <<todo, AfterX(Ins)>>, n)
  BY <1>2, <1>4, <1>8, FetchY
<1>10. r = RegR(Ins)
  BY <1>8, <1>9 DEF IsTemp, RegX, Second, RegR, X0
<1> HIDE DEF x, y, r
<1>11. AtOnce(Ins) = (op \in DOMAIN ImmOp /\ Ins.args[2].k = "num")
  BY <1>2 DEF AtOnce, ImmOp
<1>12. do = InstrOf(Unit, n)
  <2>1. InstrOf(Unit, n) =
           IF AtOnce(Ins)
           THEN AsmOf(todo, ImmOp[op], RegR(Ins), RegX(Ins), Ins.args[2].n, 0)
           ELSE AsmOf(todo, RegOp(op), RegR(Ins), RegX(Ins), RegY(Ins), 0)
    BY <1>2 DEF InstrOf, Unit
  <2> QED  BY <1>8, <1>9, <1>10, <1>11, <2>1 DEF AsmOf, Instr3, ASM
<1>13. fix = InstrOf(Unit, l)
  BY <1>2, <1>10 DEF InstrOf, Unit, AsmOf, Instr2RR, ASM
<1>14. sw = InstrOf(Unit, m)
  BY <1>2, <1>10 DEF InstrOf, Unit, AsmOf, Instr3, ASM, Source, Target
<1>15. /\ Start(Unit, todo[1], todo[2]) = <<todo, FirstRole(Ins)>>
       /\ Succ(Unit, m) = Start(Unit, todo[1], todo[2] + 1)
       /\ Succ(Unit, n) = (IF HasFix(Ins) THEN l ELSE m)
       /\ Succ(Unit, l) = m
  <2>1. /\ NextRole(stackSz, Ins, "do") = (IF HasFix(Ins) THEN "fix" ELSE "put")
        /\ NextRole(stackSz, Ins, "fix") = "put"
        /\ NextRole(stackSz, Ins, "put") = "end"
    BY DEF NextRole
  <2>2. Start(Unit, todo[1], todo[2]) = <<todo, FirstRole(Ins)>>
    BY <1>2, ThisStart
  <2>3. Succ(Unit, m) = Start(Unit, todo[1], todo[2] + 1)
    BY <1>2, <2>1, ThisStart
  <2>4. Succ(Unit, n) = (IF HasFix(Ins) THEN l ELSE m)
    BY <1>2, <2>1, ThisStart
  <2>5. Succ(Unit, l) = m
    BY <1>2, <2>1, ThisStart
  <2> QED  BY <2>2, <2>3, <2>4, <2>5
<1>16. Fix(op, r) = IF HasFix(Ins) THEN <<fix>> ELSE <<>>
  BY <1>2 DEF Fix, HasFix
<1> HIDE DEF do, sw, fix
<1>17. Goes(Unit, <<do>>, n, Succ(Unit, n)) /\ Goes(Unit, <<sw>>, m, Succ(Unit, m))
  BY <1>2, <1>7, <1>12, <1>14, ThisNode
<1>18. HasFix(Ins) => Goes(Unit, <<fix>>, l, Succ(Unit, l))
  BY <1>2, <1>7, <1>13, ThisNode
<1> DEFINE a == <<todo, FirstRole(Ins)>>
           b == <<todo, AfterX(Ins)>>
<1> HIDE DEF n, m, l, a, b
<1>19. Goes(Unit, Fix(op, r), Succ(Unit, n), m)
  <2>1. CASE HasFix(Ins)
    BY <1>15, <1>16, <1>18, <2>1
  <2>2. CASE ~HasFix(Ins)
    BY <1>15, <1>16, <2>2, NoCode
  <2> QED  BY <2>1, <2>2
<1>20. Goes(Unit, x.code, a, b) /\ Goes(Unit, y.code, b, n)
  BY <1>8, <1>9 DEF a, b
<1>21. Goes(Unit, x.code \o y.code, a, n)
  BY <1>20, BothCodes
<1>22. Goes(Unit, (x.code \o y.code) \o <<do>>, a, Succ(Unit, n))
  BY <1>17, <1>21, BothCodes
<1>23. Goes(Unit, ((x.code \o y.code) \o <<do>>) \o Fix(op, r), a, m)
  BY <1>19, <1>22, BothCodes
<1>24. Goes(Unit, (((x.code \o y.code) \o <<do>>) \o Fix(op, r)) \o <<sw>>, a,
            Succ(Unit, m))
  BY <1>17, <1>23, BothCodes
<1>25. Start(Unit, todo[1], todo[2]) = a
  BY <1>15 DEF a
<1> QED  BY <1>6, <1>15, <1>24, <1>25 DEF EmitsPath

LEMMA VisitGoes ==
    ASSUME GenTyped, VisitIns
    PROVE  EmitsPath \/ (AtCode /\ AssertFails)
BY AllocGoes, RetGoes, StoreGoes, LoadGoes, BExprGoes, BrGoes, JumpGoes
   DEF VisitIns

-----------------------------------------------------------------------------
(* The code of every block lies under its label, whole, once the block is     *)
(* visited, and the first block of the IR follows the prologue.               *)

\* The node a basic block begins with, and the one its code has come to.
Entry(b) ==
    IF b = 1
    THEN <<Opening, IF stackSz > ImmLimit THEN "size" ELSE "take">>
    ELSE Start(Unit, bbs[b].label, 1)
EndOf(c) == Len(func.blocks[c]) + 1
UpTo(c) == IF phase = "code" /\ todo[1] = c THEN todo[2] ELSE EndOf(c)
Reached(b) ==
    IF b = 1 THEN Start(Unit, 1, 1)
    ELSE Start(Unit, bbs[b].label, UpTo(bbs[b].label))

\* Block c of the IR has a basic block.
Begun(c) ==
    /\ func.blocks[c] # <<>>
    /\ phase = "code" => c < todo[1] \/ (c = todo[1] /\ todo[2] # 0)

CodeLaid ==
    phase \notin {"prologue", "abort"} =>
        /\ 1 \in DOMAIN bbs /\ bbs[1].label = func.label
        /\ \A b \in DOMAIN bbs : b # 1 =>
              bbs[b].label \in DOMAIN func.blocks /\ Begun(bbs[b].label)
        /\ \A c \in DOMAIN func.blocks : Begun(c) =>
              \E b \in DOMAIN bbs : b # 1 /\ bbs[b].label = c
        /\ Begun(1) => 2 \in DOMAIN bbs /\ bbs[2].label = 1
        /\ \A b \in DOMAIN bbs : Goes(Unit, bbs[b].instrs, Entry(b), Reached(b))
        /\ phase = "code" => todo[2] <= EndOf(todo[1])

LEMMA PrologueLaid ==
    ASSUME GenTyped, Labelled, Prologue
    PROVE  CodeLaid'
<1> DEFINE size == align_16_bytes(IntSize * Cardinality(FirstDefs(func)))
           li == Instr2RI("li", 0, -size)
           add == Instr3("add", SP, SP, 0)
           addi == Instr3("addi", SP, SP, -size)
           code == IF size > ImmLimit THEN <<li, add>> ELSE <<addi>>
           bb == [label |-> func.label, instrs |-> code]
<1>1. /\ tmpVarCount = 0 /\ todo = Opening /\ func \in Functions
      /\ 1 \in DOMAIN func.blocks
  BY DEF GenTyped, Labelled, Opening, Prologue
<1>2. /\ phase' = "code" /\ func' = func /\ todo' = todo /\ stackSz' = size
      /\ bbs' = <<bb>>
  BY <1>1 DEF Prologue, ReturnTmpVars
<1> DEFINE K == Unit'
<1>3. K.f = func /\ K.sz = size
  BY <1>2 DEF Unit
<1> DEFINE n == <<Opening, "size">>
           m == <<Opening, "take">>
<1>4. IsNode(K, n) /\ IsNode(K, m)
  BY DEF IsNode
<1>5. Succ(K, n) = m /\ Succ(K, m) = Start(K, 1, 1)
  <2>1. Opening[1] = 1 /\ Opening[2] + 1 = 1
    BY DEF Opening
  <2> QED  BY <2>1 DEF Succ
<1>6. /\ li = InstrOf(K, n)
      /\ size > ImmLimit => add = InstrOf(K, m)
      /\ ~(size > ImmLimit) => addi = InstrOf(K, m)
  BY <1>1, <1>3 DEF InstrOf, Instr2RI, Instr3, ASM, AsmOf
<1> HIDE DEF K, li, add, addi, size, n, m
<1>7. Goes(K, code, IF size > ImmLimit THEN n ELSE m, Start(K, 1, 1))
  <2>1. CASE size > ImmLimit
    <3>1. Goes(K, <<li>>, n, m) /\ Goes(K, <<add>>, m, Start(K, 1, 1))
      BY <1>4, <1>5, <1>6, <2>1, OneCode
    <3>2. Goes(K, <<li>> \o <<add>>, n, Start(K, 1, 1))
      BY <3>1, BothCodes
    <3>3. <<li>> \o <<add>> = <<li, add>>
      BY TwoInARow
    <3> QED  BY <2>1, <3>2, <3>3
  <2>2. CASE ~(size > ImmLimit)
    <3>1. Goes(K, <<addi>>, m, Start(K, 1, 1))
      BY <1>4, <1>5, <1>6, <2>2, OneCode
    <3> QED  BY <2>2, <3>1
  <2> QED  BY <2>1, <2>2
<1> HIDE DEF code
<1>8. /\ DOMAIN bbs' = {1} /\ bbs'[1].label = func.label
      /\ bbs'[1].instrs = code
  BY <1>2
<1>9. \A c \in DOMAIN func.blocks : ~Begun(c)'
  <2>1. todo'[1] = 1 /\ todo'[2] = 0
    BY <1>1, <1>2 DEF Opening
  <2>2. \A c \in DOMAIN func.blocks : c \in Nat /\ c > 0
    BY <1>1, FunctionsAssumption
  <2> QED  BY <1>2, <2>1, <2>2 DEF Begun
<1>10. Entry(1)' = (IF size > ImmLimit THEN n ELSE m)
       /\ Reached(1)' = Start(K, 1, 1)
  BY <1>2, <1>3 DEF Entry, Reached, K, n, m
<1>11. \A b \in DOMAIN bbs' : Goes(K, bbs'[b].instrs, Entry(b)', Reached(b)')
  BY <1>7, <1>8, <1>10
<1>12. todo'[2] <= EndOf(todo[1])'
  <2>1. todo'[2] = 0 /\ todo[1] = 1
    BY <1>1, <1>2 DEF Opening
  <2>2. Len(func.blocks[1]) \in Nat
    BY <1>1, FunctionsAssumption
  <2> QED  BY <1>2, <2>1, <2>2 DEF EndOf
<1> QED  BY <1>1, <1>2, <1>8, <1>9, <1>11, <1>12 DEF CodeLaid, K

\* The number of a block, and how far its code has come, in a step that leaves
\* the compiled unit alone.
LEMMA SameUnit ==
    ASSUME UNCHANGED <<func, offset, stackSz>>
    PROVE  /\ Unit' = Unit
           /\ \A c : EndOf(c)' = EndOf(c)
BY DEF Unit, EndOf

LEMMA BlockNumbers ==
    ASSUME GenTyped
    PROVE  /\ func \in Functions /\ func.label \notin DOMAIN func.blocks
           /\ 1 \in DOMAIN func.blocks /\ func.blocks[1] # <<>>
           /\ \A c \in DOMAIN func.blocks :
                 c \in Nat /\ c > 0 /\ c <= Len(func.blocks)
                 /\ EndOf(c) \in Nat /\ EndOf(c) > 0
                 /\ (func.blocks[c] = <<>> <=> EndOf(c) = 1)
           /\ Len(func.blocks) \in Nat
           /\ todo[1] \in DOMAIN func.blocks /\ todo[2] \in Nat
           /\ todo = <<todo[1], todo[2]>>
<1>1. func \in Functions /\ todo[1] \in DOMAIN func.blocks /\ todo[2] \in Nat
      /\ todo = <<todo[1], todo[2]>>
  BY DEF GenTyped
<1>2. Runnable(func)
  BY <1>1, RunnableAssumption
<1>3. func.blocks \in Seq(Seq(IRInstrs(func))) /\ Len(func.blocks) >= 2
  BY <1>1, FunctionsAssumption
<1>4. \A c \in DOMAIN func.blocks : func.blocks[c] \in Seq(IRInstrs(func))
  BY <1>3
<1>5. \A c \in DOMAIN func.blocks :
         /\ Len(func.blocks[c]) \in Nat
         /\ func.blocks[c] = <<>> <=> Len(func.blocks[c]) = 0
  BY <1>4
<1>6. func.label \notin DOMAIN func.blocks /\ func.blocks[1] # <<>>
  BY <1>2 DEF Runnable
<1>7. Len(func.blocks) \in Nat /\ DOMAIN func.blocks = 1..Len(func.blocks)
  BY <1>3
<1>8. \A c \in DOMAIN func.blocks :
         /\ EndOf(c) \in Nat /\ EndOf(c) > 0
         /\ func.blocks[c] = <<>> <=> EndOf(c) = 1
  <2> TAKE c \in DOMAIN func.blocks
  <2>1. /\ Len(func.blocks[c]) \in Nat
        /\ func.blocks[c] = <<>> <=> Len(func.blocks[c]) = 0
    BY <1>5
  <2> QED  BY <2>1 DEF EndOf
<1> QED  BY <1>1, <1>3, <1>6, <1>7, <1>8

LEMMA EnterLaid ==
    ASSUME GenTyped, Labelled, CodeLaid, EnterBlock
    PROVE  CodeLaid'
<1> DEFINE t == todo[1]
<1>1. /\ phase = "code" /\ phase' = phase /\ todo[2] = 0 /\ todo' = <<t, 1>>
      /\ UNCHANGED <<func, offset, stackSz>>
  BY DEF EnterBlock
<1>2. /\ Unit' = Unit /\ \A c : EndOf(c)' = EndOf(c)
      /\ t \in DOMAIN func.blocks /\ todo'[1] = t /\ todo'[2] = 1
  BY <1>1, SameUnit, BlockNumbers
<1>3. \A c \in DOMAIN func.blocks :
         /\ Begun(c) => c # t
         /\ Begun(c)' <=> Begun(c) \/ (c = t /\ func.blocks[t] # <<>>)
         /\ c # t => UpTo(c) = EndOf(c) /\ UpTo(c)' = EndOf(c)
  BY <1>1, <1>2, BlockNumbers DEF Begun, UpTo
<1>4. UpTo(t)' = 1
  BY <1>1, <1>2 DEF UpTo
<1>5. todo'[2] <= EndOf(todo[1])'
  BY <1>2, BlockNumbers
<1>6. /\ 1 \in DOMAIN bbs /\ bbs[1].label = func.label
      /\ \A b \in DOMAIN bbs : b # 1 =>
            bbs[b].label \in DOMAIN func.blocks /\ Begun(bbs[b].label)
      /\ \A c \in DOMAIN func.blocks : Begun(c) =>
            \E b \in DOMAIN bbs : b # 1 /\ bbs[b].label = c
      /\ Begun(1) => 2 \in DOMAIN bbs /\ bbs[2].label = 1
      /\ \A b \in DOMAIN bbs : Goes(Unit, bbs[b].instrs, Entry(b), Reached(b))
  BY <1>1 DEF CodeLaid
<1>7. \A b \in DOMAIN bbs : bbs[b].label # t
  BY <1>2, <1>3, <1>6, BlockNumbers
<1>8. ASSUME NEW b \in DOMAIN bbs, b \in DOMAIN bbs', bbs'[b] = bbs[b]
      PROVE  Goes(Unit, bbs'[b].instrs, Entry(b)', Reached(b)')
  <2>1. Entry(b)' = Entry(b)
    BY <1>1, <1>2, <1>8 DEF Entry
  <2>2. Reached(b)' = Reached(b)
    <3>1. CASE b = 1
      BY <1>2, <3>1 DEF Reached
    <3>2. CASE b # 1
      BY <1>2, <1>3, <1>6, <1>7, <1>8, <3>2 DEF Reached
    <3> QED  BY <3>1, <3>2
  <2> QED  BY <1>6, <1>8, <2>1, <2>2
<1>9. CASE Body = <<>>
  <2>1. bbs' = bbs /\ func.blocks[t] = <<>>
    BY <1>9 DEF EnterBlock, Body
  <2>2. \A c \in DOMAIN func.blocks : Begun(c)' <=> Begun(c)
    BY <1>3, <2>1
  <2>3. \A b \in DOMAIN bbs' : Goes(Unit', bbs'[b].instrs, Entry(b)', Reached(b)')
    BY <1>2, <1>8, <2>1
  <2> QED  BY <1>1, <1>5, <1>6, <2>1, <2>2, <2>3, BlockNumbers DEF CodeLaid
<1>10. CASE Body # <<>>
  <2> DEFINE new == [label |-> t, instrs |-> <<>>]
  <2>0. PICK e : e = Len(bbs) + 1
    OBVIOUS
  <2>1. bbs' = Append(bbs, new)
    BY <1>7, <1>10 DEF EnterBlock, WithBB
  <2>2. /\ Len(bbs) \in Nat /\ DOMAIN bbs = 1..Len(bbs)
        /\ DOMAIN bbs' = DOMAIN bbs \cup {e} /\ e \notin DOMAIN bbs
        /\ \A b \in DOMAIN bbs : bbs'[b] = bbs[b]
        /\ bbs'[e] = new
    <3>1. bbs \in Seq(BBs)
      BY DEF GenTyped
    <3> HIDE DEF new
    <3> QED  BY <2>0, <2>1, <3>1
  <2>3. bbs'[e].label = t /\ bbs'[e].instrs = <<>> /\ func.blocks[t] # <<>>
    BY <1>10, <2>2 DEF Body
  <2>4. e # 1
    BY <1>6, <2>2
  <2> HIDE DEF new
  <2>5. Entry(e)' = Start(Unit, t, 1) /\ Reached(e)' = Start(Unit, t, 1)
    BY <1>2, <1>4, <2>3, <2>4 DEF Entry, Reached
  <2>6. \A b \in DOMAIN bbs' : Goes(Unit', bbs'[b].instrs, Entry(b)', Reached(b)')
    <3>1. Goes(Unit', bbs'[e].instrs, Entry(e)', Reached(e)')
      BY <1>2, <2>3, <2>5, NoCode
    <3> QED  BY <1>2, <1>8, <2>2, <3>1
  <2>7. Begun(1)' => 2 \in DOMAIN bbs' /\ bbs'[2].label = 1
    <3>1. CASE Begun(1)
      BY <1>6, <2>2, <3>1
    <3>2. CASE ~Begun(1)
      <4>1. t = 1 => DOMAIN bbs = {1}
        <5>1. \A c \in DOMAIN func.blocks : t = 1 => ~Begun(c)
          BY <1>1, <1>2, BlockNumbers DEF Begun
        <5> QED  BY <1>2, <1>6, <5>1
      <4>2. t = 1 => e = 2
        BY <2>0, <2>2, <4>1
      <4>3. Begun(1)' => t = 1
        BY <1>3, <3>2, BlockNumbers
      <4> QED  BY <2>2, <2>3, <4>2, <4>3
    <3> QED  BY <3>1, <3>2
  <2>8. \A b \in DOMAIN bbs' : b # 1 =>
           bbs'[b].label \in DOMAIN func.blocks /\ Begun(bbs[b].label)'
    BY <1>2, <1>3, <1>6, <2>2, <2>3
  <2>9. \A c \in DOMAIN func.blocks : Begun(c)' =>
           \E b \in DOMAIN bbs' : b # 1 /\ bbs'[b].label = c
    BY <1>3, <1>6, <2>2, <2>3, <2>4
  <2>10. 1 \in DOMAIN bbs' /\ bbs'[1].label = func.label
    BY <1>6, <2>2
  <2> QED  BY <1>1, <1>5, <2>6, <2>7, <2>8, <2>9, <2>10 DEF CodeLaid
<1> QED  BY <1>9, <1>10

LEMMA LeaveLaid ==
    ASSUME GenTyped, Labelled, CodeLaid, LeaveBlock
    PROVE  CodeLaid'
<1> DEFINE t == todo[1]
<1>1. /\ phase = "code" /\ phase' \in {"code", "done"} /\ todo[2] = EndOf(t)
      /\ UNCHANGED <<func, offset, stackSz, bbs>>
      /\ phase' = "code" => todo' = <<t + 1, 0>> /\ t # Len(func.blocks)
      /\ phase' = "done" => t = Len(func.blocks)
  BY DEF LeaveBlock, EndOf, Body
<1>2. /\ Unit' = Unit /\ \A c : EndOf(c)' = EndOf(c)
      /\ t \in DOMAIN func.blocks
      /\ phase' = "code" => todo'[1] = t + 1 /\ todo'[2] = 0
  BY <1>1, SameUnit, BlockNumbers
<1>3. \A c \in DOMAIN func.blocks :
         /\ Begun(c)' <=> Begun(c)
         /\ UpTo(c) = EndOf(c)
  BY <1>1, <1>2, BlockNumbers DEF Begun, UpTo
<1>4. \A b \in DOMAIN bbs : b # 1 =>
            bbs[b].label \in DOMAIN func.blocks /\ Begun(bbs[b].label)
  BY <1>1 DEF CodeLaid
<1>5. \A c \in DOMAIN func.blocks : Begun(c) => UpTo(c)' = EndOf(c)
  BY <1>1, <1>2, BlockNumbers DEF Begun, UpTo
<1>6. ASSUME NEW b \in DOMAIN bbs
      PROVE  Entry(b)' = Entry(b) /\ Reached(b)' = Reached(b)
  <2>1. Entry(b)' = Entry(b)
    BY <1>1, <1>2 DEF Entry
  <2>2. Reached(b)' = Reached(b)
    <3>1. CASE b = 1
      BY <1>2, <3>1 DEF Reached
    <3>2. CASE b # 1
      BY <1>1, <1>2, <1>3, <1>4, <1>5, <3>2 DEF Reached
    <3> QED  BY <3>1, <3>2
  <2> QED  BY <2>1, <2>2
<1>7. \A b \in DOMAIN bbs : Goes(Unit, bbs[b].instrs, Entry(b), Reached(b))
  BY <1>1 DEF CodeLaid
<1>8. \A b \in DOMAIN bbs' : Goes(Unit', bbs'[b].instrs, Entry(b)', Reached(b)')
  BY <1>1, <1>2, <1>6, <1>7
<1>9. phase' = "code" => todo'[2] <= EndOf(todo[1])'
  <2>1. phase' = "code" => t + 1 \in DOMAIN func.blocks
    <3>1. func.blocks \in Seq(Seq(IRInstrs(func)))
      BY FunctionsAssumption, BlockNumbers
    <3>2. DOMAIN func.blocks = 1..Len(func.blocks)
      BY <3>1
    <3> QED  BY <1>1, <1>2, <3>2, BlockNumbers
  <2> QED  BY <1>2, <2>1, BlockNumbers
<1>10. /\ 1 \in DOMAIN bbs /\ bbs[1].label = func.label
       /\ \A c \in DOMAIN func.blocks : Begun(c) =>
             \E b \in DOMAIN bbs : b # 1 /\ bbs[b].label = c
       /\ Begun(1) => 2 \in DOMAIN bbs /\ bbs[2].label = 1
  BY <1>1 DEF CodeLaid
<1>11. Begun(1)' <=> Begun(1)
  BY <1>3, BlockNumbers
<1> QED  BY <1>1, <1>3, <1>4, <1>8, <1>9, <1>10, <1>11 DEF CodeLaid

LEMMA EmitLaid ==
    ASSUME GenTyped, Labelled, CodeLaid, AtCode, EmitsPath
    PROVE  CodeLaid'
<1> DEFINE t == todo[1]
           i == todo[2]
<1>0. PICK code : /\ Emit(code)
                  /\ Goes(Unit, code, Start(Unit, t, i), Start(Unit, t, i + 1))
  BY DEF EmitsPath
<1>1. /\ phase = "code" /\ phase' = phase /\ todo' = <<t, i + 1>>
      /\ UNCHANGED <<func, offset, stackSz, curBB>>
      /\ bbs' = [bbs EXCEPT ![curBB].instrs = @ \o code]
  BY <1>0 DEF AtCode, Emit
<1>2. /\ Unit' = Unit /\ \A c : EndOf(c)' = EndOf(c)
      /\ t \in DOMAIN func.blocks /\ todo'[1] = t /\ todo'[2] = i + 1
  BY <1>1, SameUnit, BlockNumbers
<1>3. i # 0 /\ i \in Nat /\ i + 1 <= EndOf(t) /\ func.blocks[t] # <<>>
  <2>1. func.blocks[t] \in Seq(IRInstrs(func)) /\ i \in DOMAIN func.blocks[t]
    BY FunctionsAssumption, BlockNumbers DEF AtCode, Body
  <2>2. i \in 1..Len(func.blocks[t]) /\ Len(func.blocks[t]) \in Nat
    BY <2>1
  <2> HIDE DEF i
  <2> QED  BY <2>1, <2>2 DEF EndOf
<1>4. \A c \in DOMAIN func.blocks : Begun(c)' <=> Begun(c)
  BY <1>1, <1>2, <1>3, BlockNumbers DEF Begun
<1>5. /\ \A c \in DOMAIN func.blocks : c # t => UpTo(c)' = UpTo(c)
      /\ UpTo(t) = i /\ UpTo(t)' = i + 1
  BY <1>1, <1>2 DEF UpTo
<1>6. /\ 1 \in DOMAIN bbs /\ bbs[1].label = func.label
      /\ \A b \in DOMAIN bbs : b # 1 =>
            bbs[b].label \in DOMAIN func.blocks /\ Begun(bbs[b].label)
      /\ \A c \in DOMAIN func.blocks : Begun(c) =>
            \E b \in DOMAIN bbs : b # 1 /\ bbs[b].label = c
      /\ Begun(1) => 2 \in DOMAIN bbs /\ bbs[2].label = 1
      /\ \A b \in DOMAIN bbs : Goes(Unit, bbs[b].instrs, Entry(b), Reached(b))
  BY <1>1 DEF CodeLaid
<1>7. /\ curBB \in DOMAIN bbs /\ bbs[curBB].label = t /\ curBB # 1
      /\ \A b \in DOMAIN bbs : bbs[b].label = t => b = curBB
  <2>1. curBB \in DOMAIN bbs
    BY <1>1 DEF GenTyped
  <2>2. bbs[curBB].label = t
    BY <1>1, <1>3 DEF Labelled, Body
  <2>3. \A b \in DOMAIN bbs : bbs[b].label = t => b = curBB
    BY <2>1, <2>2 DEF Labelled, LabelsApart
  <2> QED  BY <1>2, <1>6, <2>1, <2>2, <2>3, BlockNumbers
<1>8. /\ DOMAIN bbs' = DOMAIN bbs
      /\ \A b \in DOMAIN bbs : bbs'[b].label = bbs[b].label
      /\ \A b \in DOMAIN bbs : b # curBB => bbs'[b].instrs = bbs[b].instrs
      /\ bbs'[curBB].instrs = bbs[curBB].instrs \o code
  <2>1. \A b \in DOMAIN bbs : bbs[b] \in BBs
    BY DEF GenTyped
  <2> QED  BY <1>1, <1>7, <2>1 DEF BBs
<1>9. ASSUME NEW b \in DOMAIN bbs, b # curBB
      PROVE  Goes(Unit, bbs'[b].instrs, Entry(b)', Reached(b)')
  <2>1. Entry(b)' = Entry(b)
    BY <1>1, <1>2, <1>8 DEF Entry
  <2>2. Reached(b)' = Reached(b)
    <3>1. CASE b = 1
      BY <1>2, <3>1 DEF Reached
    <3>2. CASE b # 1
      BY <1>2, <1>5, <1>6, <1>7, <1>8, <1>9, <3>2 DEF Reached
    <3> QED  BY <3>1, <3>2
  <2> QED  BY <1>6, <1>8, <1>9, <2>1, <2>2
<1>10. Goes(Unit, bbs'[curBB].instrs, Entry(curBB)', Reached(curBB)')
  <2>1. /\ Entry(curBB)' = Start(Unit, t, 1)
        /\ Entry(curBB) = Start(Unit, t, 1)
        /\ Reached(curBB) = Start(Unit, t, i)
        /\ Reached(curBB)' = Start(Unit, t, i + 1)
    BY <1>1, <1>2, <1>5, <1>7, <1>8 DEF Entry, Reached
  <2>2. Goes(Unit, bbs[curBB].instrs, Start(Unit, t, 1), Start(Unit, t, i))
    BY <1>6, <1>7, <2>1
  <2>3. Goes(Unit, bbs[curBB].instrs \o code, Start(Unit, t, 1),
             Start(Unit, t, i + 1))
    BY <1>0, <2>2, BothCodes
  <2> QED  BY <1>8, <2>1, <2>3
<1>11. \A b \in DOMAIN bbs' : Goes(Unit', bbs'[b].instrs, Entry(b)', Reached(b)')
  <2>1. curBB' = curBB
    BY <1>1
  <2> QED  BY <1>2, <1>8, <1>9, <1>10, <2>1
<1>12. todo'[2] <= EndOf(todo[1])'
  BY <1>2, <1>3
<1>13. Begun(1)' <=> Begun(1)
  BY <1>4, BlockNumbers
<1>14. /\ \A b \in DOMAIN bbs' : b # 1 =>
             bbs'[b].label \in DOMAIN func.blocks /\ Begun(bbs[b].label)'
       /\ \A c \in DOMAIN func.blocks : Begun(c)' =>
             \E b \in DOMAIN bbs' : b # 1 /\ bbs'[b].label = c
       /\ Begun(1)' => 2 \in DOMAIN bbs' /\ bbs'[2].label = 1
       /\ 1 \in DOMAIN bbs' /\ bbs'[1].label = func.label
  BY <1>4, <1>6, <1>8, <1>13
<1> QED  BY <1>1, <1>11, <1>12, <1>14 DEF CodeLaid

LEMMA LaidStep ==
    ASSUME GenTyped, Labelled, CodeLaid, GenNext
    PROVE  CodeLaid'
<1>1. CASE Prologue
  BY <1>1, PrologueLaid
<1>2. CASE EnterBlock
  BY <1>2, EnterLaid
<1>3. CASE LeaveBlock
  BY <1>3, LeaveLaid
<1>4. CASE VisitIns
  <2>1. CASE EmitsPath
    <3>1. AtCode
      BY <1>4, VisitEmits DEF EmitsOwn
    <3> QED  BY <2>1, <3>1, EmitLaid
  <2>2. CASE AssertFails
    BY <2>2 DEF AssertFails, CodeLaid
  <2> QED  BY <1>4, <2>1, <2>2, VisitGoes
<1> QED  BY <1>1, <1>2, <1>3, <1>4 DEF GenNext, VisitIns

-----------------------------------------------------------------------------
(* The operands and the slots of a unit.                                      *)

\* The symbols an instruction defines: the others have no slot.
DefinedIn(f) == {InsAt(f, q).def : q \in DefPlaces(f)}
Known(K, s) == s \in Names(K.f) /\ s \in DefinedIn(K.f)
Usable(K, v) == (v.k = "num" /\ v.n \in Word) \/ (v.k = "sym" /\ Known(K, v.s))

\* The offset of a symbol is none, or that of a whole word of the frame.
IsOffset(K, n) ==
    \/ n = NoOffset
    \/ n \in Nat /\ n % IntSize = 0 /\ n + IntSize <= K.sz

LEMMA UnitIs ==
    ASSUME NEW K, IsUnit(K)
    PROVE  /\ K.sz \in Nat /\ K.sz % IntSize = 0 /\ K.sz <= StackTop
           /\ \A s \in Names(K.f) : IsOffset(K, K.off[s])
           /\ \A s, t \in Names(K.f) :
                 s # t /\ K.off[s] # NoOffset => K.off[s] # K.off[t]
           /\ \A s \in Names(K.f) : K.off[s] # NoOffset => s \in DefinedIn(K.f)
<1> DEFINE f == K.f
           n == Cardinality(FirstDefs(f))
           Count(p) == Cardinality(SlotsBefore(f, {p}))
<1>1. f \in Functions /\ Runnable(f)
  BY RunnableAssumption DEF IsUnit
<1>2. n \in Nat /\ \A p \in FirstDefs(f) : Count(p) \in Nat /\ Count(p) < n
  BY <1>1, SlotCounts
<1>3. K.sz = align_16_bytes(4 * n) /\ K.sz <= StackTop
  BY <1>1 DEF IsUnit, Runnable, IntSize
<1>4. K.sz \in Nat /\ 4 * n <= K.sz /\ K.sz % 4 = 0
  <2> HIDE DEF n
  <2>1. align_16_bytes(4 * n) \in Nat /\ 4 * n <= align_16_bytes(4 * n)
    BY <1>2, AlignUp
  <2>2. align_16_bytes(4 * n) % 4 = 0
    BY <1>2 DEF align_16_bytes
  <2> QED  BY <1>3, <2>1, <2>2
<1>5. ASSUME NEW s \in Names(f), K.off[s] # NoOffset
      PROVE  \E p \in FirstDefs(f) : /\ InsAt(f, p).def = s
                                     /\ K.off[s] = 4 * Count(p)
  <2>1. K.off[s] = Offset(f, s)
    BY DEF IsUnit
  <2>2. FirstDefsOf(f, s) # {}
    BY <1>5, <2>1 DEF Offset
  <2>3. PICK p \in FirstDefs(f) : InsAt(f, p).def = s
    BY <2>2 DEF FirstDefsOf
  <2>4. Offset(f, s) = 4 * Count(p)
    BY <1>1, <2>3, SlotOfFirst DEF IntSize
  <2> QED  BY <2>1, <2>3, <2>4
<1> HIDE DEF n, Count
<1>6. ASSUME NEW s \in Names(f)
      PROVE  IsOffset(K, K.off[s])
  <2>1. CASE K.off[s] # NoOffset
    <3>1. PICK p \in FirstDefs(f) : K.off[s] = 4 * Count(p)
      BY <1>5, <2>1
    <3>2. Count(p) \in Nat /\ Count(p) < n
      BY <1>2
    <3>3. (4 * Count(p)) % 4 = 0 /\ 4 * Count(p) + 4 <= K.sz
      BY <1>2, <1>4, <3>2
    <3> QED  BY <3>1, <3>2, <3>3 DEF IsOffset, IntSize
  <2> QED  BY <2>1 DEF IsOffset
<1>7. ASSUME NEW s \in Names(f), NEW t \in Names(f), s # t,
             K.off[s] # NoOffset, K.off[s] = K.off[t]
      PROVE  FALSE
  <2>1. PICK p \in FirstDefs(f) : InsAt(f, p).def = s
                                  /\ K.off[s] = 4 * Count(p)
    BY <1>5, <1>7
  <2>2. PICK q \in FirstDefs(f) : InsAt(f, q).def = t
                                  /\ K.off[t] = 4 * Count(q)
    BY <1>5, <1>7
  <2>3. p # q /\ p \in Places(f) /\ q \in Places(f)
    BY <1>7, <2>1, <2>2 DEF FirstDefs, DefPlaces
  <2>4. Before(p, q) \/ Before(q, p)
    BY <1>1, <2>3, BeforeOrders
  <2>5. /\ Before(p, q) => Count(p) + 1 <= Count(q)
        /\ Before(q, p) => Count(q) + 1 <= Count(p)
    BY <1>1, SlotsAscend DEF Count
  <2>6. Count(p) \in Nat /\ Count(q) \in Nat
    BY <1>2
  <2>7. 4 * Count(p) = 4 * Count(q)
    BY <1>7, <2>1, <2>2
  <2>8. \A a, b \in Nat : 4 * a = 4 * b /\ (a + 1 <= b \/ b + 1 <= a) => FALSE
    OBVIOUS
  <2> QED  BY <2>4, <2>5, <2>6, <2>7, <2>8
<1>8. ASSUME NEW s \in Names(f), K.off[s] # NoOffset
      PROVE  s \in DefinedIn(f)
  <2>1. PICK p \in FirstDefs(f) : InsAt(f, p).def = s
    BY <1>5, <1>8
  <2> QED  BY <2>1 DEF FirstDefs, DefinedIn
<1> QED  BY <1>3, <1>4, <1>6, <1>7, <1>8 DEF IntSize

LEMMA LaidUnit ==
    ASSUME FrameLaid, phase # "prologue"
    PROVE  IsUnit(Unit)
BY DEF FrameLaid, Unit, IsUnit

\* What the nodes of an instruction may rely on.
LEMMA NodeIs ==
    ASSUME NEW K, IsUnit(K), NEW p \in Places(K.f), NEW r,
           Lowers(InsAt(K.f, p), r)
    PROVE  LET ins == InsAt(K.f, p)
           IN  /\ ins.op \in Loads \cup {"ret"} => Usable(K, ins.args[1])
               /\ ins.op \in BinaryOps => Usable(K, ins.args[2])
               /\ ins.op \in Loads \ {"br"} => Known(K, Target(ins))
               /\ ins.op \in {"br", "jump"} => ins.to[1] \in DOMAIN K.f.blocks
               /\ ins.op = "br" => ins.to[2] \in DOMAIN K.f.blocks
               /\ ins.op \in Loads \cup {"ret", "jump"}
               /\ r \in RolesOf(ins) /\ p # Opening
               /\ ins.op \in BinaryOps \cup {"store"} => 2 \in DOMAIN ins.args
               /\ ins.op \in {"br", "jump"} => 1 \in DOMAIN ins.to
               /\ ins.op = "br" => 2 \in DOMAIN ins.to
<1> DEFINE f == K.f
           ins == InsAt(f, p)
<1>1. f \in Functions /\ Runnable(f) /\ ins \in IRInstrs(f) /\ p[2] # 0
  <2>1. K.f \in Functions
    BY DEF IsUnit
  <2>2. p[2] \in DOMAIN f.blocks[p[1]] /\ p[1] \in DOMAIN f.blocks
        /\ ins \in IRInstrs(f)
    BY <2>1, PlacesTyped
  <2>3. f.blocks[p[1]] \in Seq(IRInstrs(f))
    BY <2>1, <2>2, FunctionsAssumption
  <2>4. p[2] # 0
    BY <2>2, <2>3
  <2> QED  BY <2>1, <2>2, <2>4, RunnableAssumption
<1>2. ASSUME NEW k \in DOMAIN ins.args
      PROVE  /\ ins.args[k].k = "num" => ins.args[k].n \in Word
             /\ ins.args[k].k = "sym" => ins.args[k].s \in DefinedIn(f)
             /\ ins.args[k].k \in {"num", "sym"}
  <2>1. /\ ins.args[k].k = "num" => ins.args[k].n \in Word
        /\ ins.args[k].k = "sym" =>
              \E q \in DefPlaces(f) : InsAt(f, q).def = ins.args[k].s
    BY <1>1 DEF Runnable
  <2>2. ins.args[k].k \in {"num", "sym"}
    BY DEF Lowers
  <2> QED  BY <2>1, <2>2 DEF DefinedIn
<1>3. ASSUME NEW v \in Values(f), v.k = "sym"
      PROVE  v.s \in Names(f)
  BY <1>3 DEF Values, Operands, Symbols, Undefined
<1>4. ins.def # NoSymbol => ins.def \in DefinedIn(f)
  BY DEF DefinedIn, DefPlaces, IsSymbolDef
<1>5. Names(f) \subseteq Nat \ {NoSymbol}
  BY <1>1, FunctionsAssumption
<1>6. r \in RolesOf(ins)
  BY DEF Lowers
<1>7. /\ ins.op \in Loads \cup {"ret"} =>
            1 \in DOMAIN ins.args /\ ins.args[1] \in Values(f)
      /\ ins.op \in BinaryOps \cup {"store"}
            => 2 \in DOMAIN ins.args /\ ins.args[2] \in Values(f)
      /\ ins.op \in Loads \ {"br", "store"} => ins.def \in Names(f)
      /\ ins.op = "store" => ins.args[2].k = "sym" /\ ins.args[2].s \in Names(f)
      /\ ins.op \in {"br", "jump"} => ins.to[1] \in DOMAIN K.f.blocks
      /\ ins.op = "br" => ins.to[2] \in DOMAIN K.f.blocks
      /\ ins.op \in Loads \cup {"ret", "jump", "alloc"}
      /\ ins.op \in {"br", "jump"} => 1 \in DOMAIN ins.to
      /\ ins.op = "br" => 2 \in DOMAIN ins.to
  <2>1. \A v : v \in Symbols(f) => v \in Values(f) /\ v.k = "sym" /\ v.s \in Names(f)
    BY DEF Symbols, Operands, Values
  <2>2. \A v \in Operands(f) : v \in Values(f)
    BY DEF Values
  <2> HIDE DEF f, ins
  <2>3. CASE ins.op = "store"
    <3>1. ins.args \in Values(f) \X Symbols(f)
      BY <1>1, <2>3 DEF IRInstrs, BinaryOps
    <3> QED  BY <2>1, <2>3, <3>1 DEF BinaryOps, Loads
  <2>4. CASE ins.op = "load"
    <3>1. ins.args \in [{1} -> Symbols(f)] /\ ins.def \in Names(f)
      BY <1>1, <2>4 DEF IRInstrs, BinaryOps
    <3> QED  BY <2>1, <2>4, <3>1 DEF BinaryOps, Loads
  <2>5. CASE ins.op \in BinaryOps
    <3>1. ins.args \in Operands(f) \X Operands(f) /\ ins.def \in Names(f)
      BY <1>1, <2>5 DEF IRInstrs, BinaryOps
    <3> QED  BY <2>2, <2>5, <3>1 DEF BinaryOps, Loads
  <2>6. CASE ins.op = "br"
    <3>1. /\ ins.args \in [{1} -> Operands(f)]
          /\ ins.to \in (DOMAIN f.blocks) \X (DOMAIN f.blocks)
      BY <1>1, <2>6 DEF IRInstrs, BinaryOps
    <3> QED  BY <2>2, <2>6, <3>1 DEF BinaryOps, Loads, f
  <2>7. CASE ins.op = "jump"
    <3>1. ins.to \in [{1} -> DOMAIN f.blocks]
      BY <1>1, <2>7 DEF IRInstrs, BinaryOps
    <3> QED  BY <2>7, <3>1 DEF BinaryOps, Loads, f
  <2>8. CASE ins.op = "ret"
    <3>1. ins.args \in [{1} -> Values(f)]
      BY <1>1, <2>8 DEF IRInstrs, BinaryOps
    <3> QED  BY <2>8, <3>1 DEF BinaryOps, Loads
  <2>9. CASE ins.op = "alloc"
    BY <2>9 DEF BinaryOps, Loads
  <2>10. ins.op \in Loads \cup {"ret", "jump", "alloc"}
    BY <1>1 DEF IRInstrs, Loads
  <2> QED  BY <2>3, <2>4, <2>5, <2>6, <2>7, <2>8, <2>9, <2>10 DEF Loads
<1>8. ins.op # "alloc"
  BY <1>6 DEF RolesOf, BinaryOps
<1>9. \A k \in DOMAIN ins.args : ins.args[k] \in Values(f) => Usable(K, ins.args[k])
  BY <1>2, <1>3 DEF Usable, Known
<1>10. ins.op \in Loads \ {"br"} => Known(K, Target(ins))
  <2>1. CASE ins.op = "store"
    BY <1>2, <1>7, <2>1 DEF Known, Target
  <2>2. CASE ins.op \in Loads \ {"br", "store"}
    BY <1>4, <1>5, <1>7, <2>2 DEF Known, Target
  <2> QED  BY <2>1, <2>2
<1>11. p # Opening
  BY <1>1 DEF Opening
<1> HIDE DEF ins
<1>12. /\ ins.op \in Loads \cup {"ret"} => Usable(K, ins.args[1])
       /\ ins.op \in BinaryOps => Usable(K, ins.args[2])
  BY <1>7, <1>9
<1> QED  BY <1>6, <1>7, <1>8, <1>10, <1>11, <1>12 DEF ins

-----------------------------------------------------------------------------
(* What the assembler refuses.                                                *)

\* The roles of an instruction.
Roles == {"x", "y", "do", "fix", "put", "bnez", "else", "jump", "result", "free",
          "ret"}
LEMMA RolesAre ==
    ASSUME NEW ins, NEW r \in RolesOf(ins)
    PROVE  /\ r \in Roles
           /\ r = "x" => ins.op \in Loads
           /\ r \in {"y", "do", "fix"} => ins.op \in BinaryOps
           /\ r = "put" => ins.op \in Loads \ {"br"}
           /\ r \in {"bnez", "else"} => ins.op = "br"
           /\ r = "jump" => ins.op = "jump"
           /\ r \in {"result", "free", "ret"} => ins.op = "ret"
           /\ ins.op \in BinaryOps => r \in {"x", "y", "do", "fix", "put"}
           /\ ins.op = "br" => r \in {"x", "bnez", "else"}
           /\ ins.op = "ret" => r \in {"result", "free", "ret"}
BY DEF RolesOf, Loads, BinaryOps, Roles

\* A node of an instruction.
LEMMA NodeOf ==
    ASSUME NEW K, IsUnit(K), NEW n, IsNode(K, n), n[1] # Opening
    PROVE  /\ n[1] \in Places(K.f) /\ Lowers(InsAt(K.f, n[1]), n[2])
           /\ n[2] \in RolesOf(InsAt(K.f, n[1])) /\ n[2] \in Roles
<1>1. n[1] \in Places(K.f) /\ Lowers(InsAt(K.f, n[1]), n[2])
  BY DEF IsNode
<1> QED  BY <1>1, NodeIs, RolesAre

LEMMA NodeFits ==
    ASSUME NEW K, IsUnit(K), NEW n, IsNode(K, n), NEW m \in Imm12(InstrOf(K, n)),
           ~Fits(m), K.sz < ImmLimit
    PROVE  /\ n[1] \in Places(K.f)
           /\ LET ins == InsAt(K.f, n[1])
              IN  /\ ins.op \in DOMAIN ImmOp /\ ins.args[2].k = "num"
                  /\ ~Fits(ins.args[2].n)
<1> DEFINE p == n[1]
           r == n[2]
           ins == InsAt(K.f, p)
           op == InstrOf(K, n).op
           a == InstrOf(K, n).a
           b == InstrOf(K, n).b
<1>1. \/ op \in {"addi", "xori"} /\ m = b
      \/ op \in {"lw", "sw"} /\ m = a
  BY DEF Imm12
<1>2. K.sz \in Nat /\ ImmLimit \in Nat /\ ImmLimit > 0
      /\ \A s \in Names(K.f) : IsOffset(K, K.off[s])
  BY UnitIs, ImmAssumption
<1>3. Fits(K.sz) /\ Fits(-K.sz)
  BY <1>2 DEF Fits
<1>4. \A s \in Names(K.f) : Fits(K.off[s])
  BY <1>2 DEF Fits, IsOffset, NoOffset, IntSize
<1>5. CASE n[1] = Opening
  <2>1. r \in {"size", "take"}
    <3>1. n[1] \notin Places(K.f) \/ ~Lowers(ins, r)
      BY <1>5, NodeIs
    <3> QED  BY <3>1 DEF IsNode
  <2>2. op = "li" \/ op = "add" \/ (op = "addi" /\ b = -K.sz)
    BY <2>1 DEF InstrOf, AsmOf
  <2> HIDE DEF op, a, b
  <2> QED  BY <1>1, <1>3, <2>2
<1>6. CASE n[1] # Opening
  <2>1. p \in Places(K.f) /\ Lowers(ins, r) /\ r \in RolesOf(ins) /\ r \in Roles
    BY <1>6, NodeOf
  <2>2. /\ ins.op \in Loads \cup {"ret"} => Usable(K, ins.args[1])
        /\ ins.op \in BinaryOps => Usable(K, ins.args[2])
        /\ ins.op \in Loads \ {"br"} => Known(K, Target(ins))
    BY <2>1, NodeIs
  <2>3. \A v, rd : Usable(K, v) =>
           LET l == Fetch(K, p, v, rd)
           IN  l.op = "li" \/ (l.op = "lw" /\ Fits(l.a))
    BY <1>4 DEF Fetch, AsmOf, Usable, Known
  <2>4. CASE r \in {"x", "y", "result"}
    <3>1. PICK v, rd : Usable(K, v) /\ InstrOf(K, n) = Fetch(K, p, v, rd)
      BY <2>1, <2>2, <2>4, RolesAre DEF InstrOf, Loads
    <3>2. op = "li" \/ (op = "lw" /\ Fits(a))
      BY <2>3, <3>1
    <3> HIDE DEF op, a, b
    <3> QED  BY <1>1, <3>2
  <2>5. CASE r = "put"
    <3>1. Known(K, Target(ins))
      BY <2>1, <2>2, <2>5, RolesAre
    <3>2. op = "sw" /\ a = K.off[Target(ins)]
      BY <2>5 DEF InstrOf, AsmOf
    <3>3. Fits(a)
      BY <1>4, <3>1, <3>2 DEF Known
    <3> HIDE DEF op, a, b
    <3> QED  BY <1>1, <3>2, <3>3
  <2>6. CASE r = "do"
    <3>1. ins.op \in BinaryOps
      BY <2>1, <2>6, RolesAre
    <3>2. CASE AtOnce(ins)
      <4>1. b = ins.args[2].n /\ op = ImmOp[ins.op]
        BY <2>6, <3>2 DEF InstrOf, AsmOf
      <4>2. op \in {"addi", "xori"} /\ ins.op \in DOMAIN ImmOp
            /\ ins.args[2].k = "num"
        BY <3>2, <4>1 DEF AtOnce, ImmOp
      <4>3. m = b
        <5> HIDE DEF op, a, b
        <5> QED  BY <1>1, <4>2
      <4> QED  BY <2>1, <4>1, <4>2, <4>3
    <3>3. CASE ~AtOnce(ins)
      <4>1. op = RegOp(ins.op)
        BY <2>6, <3>3 DEF InstrOf, AsmOf
      <4>2. RegOp(ins.op) \notin {"addi", "xori", "lw", "sw"}
        BY <3>1 DEF RegOp, BinaryOps
      <4> HIDE DEF op, a, b
      <4> QED  BY <1>1, <4>1, <4>2
    <3> QED  BY <3>2, <3>3
  <2>7. CASE r = "free"
    <3>1. op = "addi" /\ b = K.sz
      BY <2>7 DEF InstrOf, AsmOf
    <3> HIDE DEF op, a, b
    <3> QED  BY <1>1, <1>3, <3>1
  <2>8. CASE r \in {"fix", "bnez", "else", "jump", "ret"}
    <3>1. op \in {"seqz", "snez", "bnez", "j", "ret"}
      BY <2>8 DEF InstrOf, AsmOf
    <3> HIDE DEF op, a, b
    <3> QED  BY <1>1, <3>1
  <2> QED  BY <2>1, <2>4, <2>5, <2>6, <2>7, <2>8 DEF Roles
<1> QED  BY <1>5, <1>6

\* A branch or a jump goes to a block of the IR.
LEMMA NodeTargets ==
    ASSUME NEW K, IsUnit(K), NEW n, IsNode(K, n), NEW ins, ins = InstrOf(K, n),
           ins.op \in {"j", "bnez"}
    PROVE  LET here == InsAt(K.f, n[1])
           IN  /\ n[1] \in Places(K.f) /\ n[1] # Opening
               /\ n[2] \in {"bnez", "else", "jump"}
               /\ \E i \in DOMAIN here.to :
                     ins.to = here.to[i] /\ here.to[i] \in DOMAIN K.f.blocks
<1> DEFINE p == n[1]
           r == n[2]
           here == InsAt(K.f, p)
<1>1. r \notin {"size", "take"}
  BY DEF InstrOf, AsmOf
<1>2. p \in Places(K.f) /\ Lowers(here, r) /\ p # Opening
  <2>1. p \in Places(K.f) /\ Lowers(here, r)
    BY <1>1 DEF IsNode
  <2> QED  BY <2>1, NodeIs
<1>3. r \in RolesOf(here) /\ r \in Roles
  BY <1>2, NodeOf
<1>4. r \in {"bnez", "else", "jump"}
  <2>1. \A v, rd : Fetch(K, p, v, rd).op \in {"li", "lw"}
    BY DEF Fetch, AsmOf
  <2>2. r \in {"x", "y", "result"} => ins.op \in {"li", "lw"}
    <3>1. r \in {"x", "y", "result"} => \E v, rd : ins = Fetch(K, p, v, rd)
      BY DEF InstrOf
    <3> QED  BY <2>1, <3>1
  <2>3. r = "do" => ins.op \notin {"j", "bnez"}
    <3>1. r = "do" => here.op \in BinaryOps
      BY <1>3, RolesAre
    <3>2. r = "do" => IF AtOnce(here) THEN ins.op = ImmOp[here.op]
                      ELSE ins.op = RegOp(here.op)
      BY DEF InstrOf, AsmOf
    <3> QED  BY <3>1, <3>2 DEF AtOnce, ImmOp, RegOp, BinaryOps
  <2>4. r \in {"fix", "put", "free", "ret"} => ins.op \notin {"j", "bnez"}
    BY DEF InstrOf, AsmOf
  <2> QED  BY <1>3, <2>2, <2>3, <2>4 DEF Roles
<1>5. /\ here.op \in {"br", "jump"}
      /\ r \in {"bnez", "else"} => here.op = "br"
  BY <1>3, <1>4, RolesAre
<1>6. /\ here.to[1] \in DOMAIN K.f.blocks /\ 1 \in DOMAIN here.to
      /\ here.op = "br" => here.to[2] \in DOMAIN K.f.blocks /\ 2 \in DOMAIN here.to
  BY <1>2, <1>5, NodeIs
<1>7. ins.to = here.to[IF r = "else" THEN 2 ELSE 1]
  BY <1>4 DEF InstrOf, AsmOf
<1> HIDE DEF here
<1>8. \E i \in DOMAIN here.to :
         ins.to = here.to[i] /\ here.to[i] \in DOMAIN K.f.blocks
  BY <1>4, <1>5, <1>6, <1>7
<1> QED  BY <1>2, <1>4, <1>8 DEF here

\* The code of a block is the code of nodes.
LEMMA CodeOfNodes ==
    ASSUME CodeLaid, phase \notin {"prologue", "abort"}, NEW ins \in Code
    PROVE  \E n : IsNode(Unit, n) /\ ins = InstrOf(Unit, n)
<1>1. PICK b \in DOMAIN bbs : \E i \in DOMAIN bbs[b].instrs :
         ins = bbs[b].instrs[i]
  BY DEF Code
<1>2. PICK i \in DOMAIN bbs[b].instrs : ins = bbs[b].instrs[i]
  BY <1>1
<1>3. Goes(Unit, bbs[b].instrs, Entry(b), Reached(b))
  BY DEF CodeLaid
<1>4. PICK N : Path(Unit, bbs[b].instrs, Entry(b), Reached(b), N)
  BY <1>3 DEF Goes
<1>5. PICK S : bbs[b].instrs \in Seq(S)
  BY <1>3 DEF Goes
<1>6. i \in 1..Len(bbs[b].instrs)
  BY <1>5
<1> QED  BY <1>2, <1>4, <1>6 DEF Path

LEMMA RefusedFor ==
    ASSUME FrameLaid, CodeLaid, phase = "done", ~Assembles
    PROVE  \/ stackSz >= ImmLimit
           \/ \E b \in DOMAIN func.blocks : \E i \in DOMAIN func.blocks[b] :
                 LET ins == func.blocks[b][i]
                 IN \/ /\ ins.op \in DOMAIN ImmOp /\ ins.args[2].k = "num"
                       /\ ~Fits(ins.args[2].n)
                    \/ \E n \in DOMAIN ins.to : func.blocks[ins.to[n]] = <<>>
<1> SUFFICES ASSUME ~(stackSz >= ImmLimit)
             PROVE  \E b \in DOMAIN func.blocks : \E i \in DOMAIN func.blocks[b] :
                 LET ins == func.blocks[b][i]
                 IN \/ /\ ins.op \in DOMAIN ImmOp /\ ins.args[2].k = "num"
                       /\ ~Fits(ins.args[2].n)
                    \/ \E n \in DOMAIN ins.to : func.blocks[ins.to[n]] = <<>>
  OBVIOUS
<1>1. IsUnit(Unit) /\ Unit.f = func /\ Unit.sz = stackSz /\ func \in Functions
  BY LaidUnit DEF Unit, FrameLaid
<1>2. stackSz < ImmLimit
  BY <1>1, UnitIs, ImmAssumption
<1>3. ASSUME NEW p \in Places(func)
      PROVE  /\ p[1] \in DOMAIN func.blocks /\ p[2] \in DOMAIN func.blocks[p[1]]
             /\ InsAt(func, p) = func.blocks[p[1]][p[2]]
  BY <1>1, PlacesTyped DEF InsAt
<1>4. CASE ~Defined
  <2>1. PICK ins \in Code : ins.op \in {"j", "bnez"} /\ ins.to \notin Labels
    BY <1>4 DEF Defined
  <2>2. PICK n : IsNode(Unit, n) /\ ins = InstrOf(Unit, n)
    BY CodeOfNodes
  <2>3. n[1] \in Places(func)
        /\ \E i \in DOMAIN InsAt(func, n[1]).to :
              /\ ins.to = InsAt(func, n[1]).to[i]
              /\ InsAt(func, n[1]).to[i] \in DOMAIN func.blocks
    BY <1>1, <2>1, <2>2, NodeTargets
  <2>4. ASSUME NEW c \in DOMAIN func.blocks, func.blocks[c] # <<>>
        PROVE  c \in Labels
    <3>1. Begun(c)
      BY <2>4 DEF Begun
    <3> QED  BY <3>1 DEF CodeLaid, Labels
  <2>5. \E i \in DOMAIN InsAt(func, n[1]).to :
           func.blocks[InsAt(func, n[1]).to[i]] = <<>>
    BY <2>1, <2>3, <2>4
  <2> QED  BY <1>3, <2>3, <2>5
<1>5. CASE ~Encodable
  <2>1. PICK ins \in Code : \E m \in Imm12(ins) : ~Fits(m)
    BY <1>5 DEF Encodable
  <2>2. PICK n : IsNode(Unit, n) /\ ins = InstrOf(Unit, n)
    BY CodeOfNodes
  <2>3. n[1] \in Places(func)
        /\ InsAt(func, n[1]).op \in DOMAIN ImmOp
        /\ InsAt(func, n[1]).args[2].k = "num"
        /\ ~Fits(InsAt(func, n[1]).args[2].n)
    BY <1>1, <1>2, <2>1, <2>2, NodeFits
  <2> QED  BY <1>3, <2>3
<1> QED  BY <1>4, <1>5 DEF Assembles

-----------------------------------------------------------------------------
(* What a node relies on: the registers and the stack before its instruction  *)
(* runs.                                                                      *)

Cells == {n \in 0..StackTop : n % IntSize = 0}
Machine(R, M) == R \in [Regs -> Word] /\ R[X0] = 0 /\ M \in [Cells -> Word]

\* The address of a symbol's slot, and the word an operand holds.
Slot(K, s) == StackTop - K.sz + K.off[s]
Holds(K, M, v) ==
    IF v.k = "num" THEN v.n
    ELSE IF K.off[v.s] # NoOffset THEN M[Slot(K, v.s)] ELSE 0

\* The result before it is fixed.
Raw(op, z, x, y) ==
    CASE op \in {"eq", "ne"} -> z = 0 <=> x = y
      [] op = "ge" -> z = Truth(x < y)
      [] op = "le" -> z = Truth(x > y)

GoodAt(K, R, M, n) ==
    LET r == n[2]
        ins == InsAt(K.f, n[1])
        x == Holds(K, M, ins.args[1])
        y == Holds(K, M, ins.args[2])
    IN  /\ R[SP] = IF r \in {"size", "take", "ret"} THEN StackTop
                   ELSE StackTop - K.sz
        /\ r = "take" /\ K.sz > ImmLimit => R[0] = -K.sz
        /\ r \in {"y", "do", "bnez"} => R[RegX(ins)] = x
        /\ r = "do" => R[RegY(ins)] = y
        /\ r = "fix" => Raw(ins.op, R[RegR(ins)], x, y)
        /\ r = "put" => IF ins.op \in BinaryOps
                        THEN R[RegR(ins)] \in IRM!Results(ins.op, x, y)
                        ELSE R[RegX(ins)] = x
        /\ r = "else" => x = 0
        /\ r \in {"free", "ret"} => R[A0] = x

LEMMA SlotIs ==
    ASSUME NEW K, IsUnit(K), NEW s \in Names(K.f)
    PROVE  /\ Slot(K, s) \in Int
           /\ Slot(K, s) \in Cells <=> K.off[s] # NoOffset
           /\ K.off[s] # NoOffset =>
                 StackTop - K.sz <= Slot(K, s) /\ Slot(K, s) < StackTop
           /\ \A t \in Names(K.f) : K.off[s] # NoOffset /\ s # t =>
                 Slot(K, s) # Slot(K, t)
<1>1. /\ StackTop \in Int /\ StackTop >= 0 /\ StackTop % 4 = 0
      /\ K.sz \in Nat /\ K.sz % 4 = 0 /\ K.sz <= StackTop
  BY UnitIs, StackAssumption, WordsAre DEF IntSize
<1>2. \A t \in Names(K.f) : \/ K.off[t] = -1
                            \/ /\ K.off[t] \in Nat /\ K.off[t] % 4 = 0
                               /\ K.off[t] + 4 <= K.sz
  BY UnitIs DEF IsOffset, NoOffset, IntSize
<1>3. \A t \in Names(K.f) : K.off[s] # NoOffset /\ s # t => K.off[s] # K.off[t]
  BY UnitIs
<1>4. ASSUME K.off[s] = -1
      PROVE  (StackTop - K.sz + K.off[s]) % 4 # 0
  BY <1>1, <1>4
<1>5. ASSUME K.off[s] # -1
      PROVE  (StackTop - K.sz + K.off[s]) % 4 = 0
  <2>1. K.off[s] \in Nat /\ K.off[s] % 4 = 0
    BY <1>2, <1>5
  <2> QED  BY <1>1, <2>1
<1>6. \A t \in Names(K.f) : K.off[t] \in Int
  BY <1>2
<1> QED  BY <1>1, <1>2, <1>3, <1>4, <1>5, <1>6 DEF Slot, Cells, IntSize, NoOffset

LEMMA HoldsWord ==
    ASSUME NEW K, IsUnit(K), NEW M \in [Cells -> Word], NEW v, Usable(K, v)
    PROVE  Holds(K, M, v) \in Word
<1>1. 0 \in Word
  BY WordsAre
<1>2. v.k = "sym" /\ K.off[v.s] # NoOffset => M[Slot(K, v.s)] \in Word
  BY SlotIs DEF Usable, Known
<1> QED  BY <1>1, <1>2 DEF Holds, Usable

\* Words the machine computes with.
LEMMA WordFacts ==
    /\ StackTop \in Nat /\ StackTop \in Word /\ 0 \in Word
    /\ Word \subseteq Int
    /\ \A z \in Word : Wrap(z) = z
    /\ \A n \in Nat : n <= StackTop => n \in Word /\ -n \in Word
<1>1. StackTop \in Word /\ LeastWord \in Int /\ LeastWord <= -2
      /\ Word = LeastWord..(-LeastWord - 1)
  BY WordsAre, StackAssumption
<1>2. StackTop \in Int
  BY <1>1
<1>3. StackTop >= 0
  BY <1>1, StackAssumption DEF IntSize
<1>4. \A z \in Word : Wrap(z) = z
  BY <1>1, WrapIs
<1>5. \A n \in Nat : n <= StackTop => n \in Word /\ -n \in Word
  BY <1>1, <1>2
<1> QED  BY <1>1, <1>2, <1>3, <1>4, <1>5

\* The first node of an instruction relies on the stack pointer only.
LEMMA FirstGood ==
    ASSUME NEW K, IsUnit(K), NEW n, IsNode(K, n), n[1] # Opening,
           n[2] = FirstRole(InsAt(K.f, n[1])),
           NEW R, NEW M, R[X0] = 0, R[SP] = StackTop - K.sz
    PROVE  GoodAt(K, R, M, n)
<1> DEFINE p == n[1]
           r == n[2]
           ins == InsAt(K.f, p)
<1>1. p \in Places(K.f) /\ Lowers(ins, r) /\ r \in RolesOf(ins)
  BY NodeOf
<1>2. /\ r = "x" => ins.op \in Loads
      /\ r \in {"y", "do", "bnez", "put"} => ins.op \in Loads
      /\ r = "put" => ins.op # "br"
  BY <1>1, RolesAre DEF Loads
<1>3. ins.op \in Loads => r = IF IsZero(ins.args[1]) THEN AfterX(ins) ELSE "x"
  BY RoleNames
<1>4. /\ r \notin {"size", "take", "ret", "fix", "else", "free"}
      /\ r = "put" => ins.op \notin BinaryOps
  <2>1. CASE ins.op \in Loads
    <3>1. r \in {"x", "y", "do", "bnez", "put"}
          /\ (r = "put" => ins.op \notin BinaryOps)
      BY <1>3, <2>1 DEF AfterX
    <3> QED  BY <3>1
  <2>2. CASE ins.op \notin Loads
    <3>1. ins.op \in {"jump", "ret"}
      BY <1>1, <2>2 DEF RolesOf, Loads
    <3> QED  BY <3>1 DEF FirstRole, BinaryOps
  <2> QED  BY <2>1, <2>2
<1>5. r \in {"y", "do", "bnez", "put"} =>
         RegX(ins) = X0 /\ Holds(K, M, ins.args[1]) = 0
  BY <1>2, <1>3 DEF RegX, IsZero, Holds
<1>6. r = "do" => RegY(ins) = X0 /\ Holds(K, M, ins.args[2]) = 0
  <2>1. r = "do" => r = AfterX(ins)
    BY <1>2, <1>3
  <2>2. r = "do" => ins.op \in BinaryOps
    BY <1>1, RolesAre
  <2>3. r = "do" => IsZero(ins.args[2])
    BY <2>1, <2>2 DEF AfterX, BinaryOps
  <2> QED  BY <2>3 DEF RegY, IsZero, Holds
<1> HIDE DEF p, r, ins
<1>7. GoodAt(K, R, M, n)
  BY <1>4, <1>5, <1>6 DEF GoodAt, p, r, ins
<1> QED  BY <1>7

-----------------------------------------------------------------------------
(* The operations.                                                            *)

\* The words and the operations of the two machines are the same.
LEMMA SamePower == IRM!Power = Power
BY DEF IRM!Power, Power

LEMMA SameWords ==
    /\ IRM!LeastWord = LeastWord /\ IRM!Modulus = Modulus /\ IRM!Word = Word
    /\ IRM!BinaryOps = BinaryOps
BY SamePower DEF IRM!LeastWord, LeastWord, IRM!Modulus, Modulus, IRM!Word, Word,
                 IRM!BinaryOps, BinaryOps

LEMMA SameOperations ==
    /\ \A n : IRM!Wrap(n) = Wrap(n) /\ IRM!Truth(n) = Truth(n)
    /\ \A x, y : IRM!Quotient(x, y) = Quotient(x, y)
    /\ \A x, y : IRM!Remainder(x, y) = Remainder(x, y)
    /\ \A f, b, i : IRM!SkipAllocs(f, b, i) = SkipAllocs(f, b, i)
<1>1. \A n : IRM!Wrap(n) = Wrap(n) /\ IRM!Truth(n) = Truth(n)
  BY SameWords DEF IRM!Wrap, Wrap, IRM!Truth, Truth
<1>2. \A x, y : IRM!Quotient(x, y) = Quotient(x, y)
  BY DEF IRM!Quotient, Quotient, IRM!Abs, Abs
<1>3. \A x, y : IRM!Remainder(x, y) = Remainder(x, y)
  BY <1>2 DEF IRM!Remainder, Remainder
<1>4. \A f, b, i : IRM!SkipAllocs(f, b, i) = SkipAllocs(f, b, i)
  BY DEF IRM!SkipAllocs, SkipAllocs
<1> QED  BY <1>1, <1>2, <1>3, <1>4

\* A remainder lies between 0 and the dividend.
LEMMA DivisionIs ==
    ASSUME NEW a \in Nat, NEW b \in Nat \ {0}
    PROVE  a \div b \in Nat /\ b * (a \div b) <= a
<1>1. a = b * (a \div b) + (a % b) /\ a % b \in 0..(b - 1) /\ a \div b \in Int
  OBVIOUS
<1> DEFINE q == a \div b
           r == a % b
<1>2. a = b * q + r /\ r >= 0 /\ r < b /\ q \in Int /\ r \in Int
  BY <1>1
<1> HIDE DEF q, r
<1>3. q < 0 => b * q <= -b
  <2>1. q < 0 => q + 1 <= 0
    BY <1>2
  <2>2. \A k \in Int : k <= 0 => b * k <= 0
    OBVIOUS
  <2>3. b * (q + 1) = b * q + b
    BY <1>2
  <2> QED  BY <1>2, <2>1, <2>2, <2>3
<1>4. b * q \in Int
  BY <1>2
<1>5. q >= 0
  <2> DEFINE bq == b * q
  <2>1. bq \in Int /\ (q < 0 => bq <= -b) /\ a = bq + r
    BY <1>2, <1>3, <1>4
  <2> HIDE DEF bq
  <2> QED  BY <1>2, <2>1
<1>6. b * q <= a
  <2> DEFINE bq == b * q
  <2>1. bq \in Int /\ a = bq + r
    BY <1>2, <1>4
  <2> HIDE DEF bq
  <2>2. bq <= a
    BY <1>2, <2>1
  <2> QED  BY <2>2 DEF bq
<1> QED  BY <1>2, <1>5, <1>6 DEF q

LEMMA RemainderIs ==
    ASSUME NEW x \in Word, NEW y \in Word, y # 0
    PROVE  Remainder(x, y) \in Word /\ Quotient(x, y) \in Int
<1> DEFINE a == Abs(x)
           b == Abs(y)
           q == a \div b
           m == b * q
<1>1. x \in Int /\ y \in Int
  BY WordsAre
<1>2. a \in Nat /\ b \in Nat \ {0}
      /\ a = (IF x < 0 THEN -x ELSE x) /\ b = (IF y < 0 THEN -y ELSE y)
  BY <1>1 DEF Abs
<1>3. q \in Nat /\ m \in Int /\ m <= a
  <2> HIDE DEF a, b
  <2>1. q \in Nat /\ m <= a
    BY <1>2, DivisionIs
  <2> QED  BY <1>2, <2>1
<1>4. m >= 0
  <2> HIDE DEF a, b, q
  <2> QED  BY <1>2, <1>3
<1>5. Quotient(x, y) = IF (x < 0) = (y < 0) THEN q ELSE -q
  BY DEF Quotient
<1>6. y * Quotient(x, y) = IF x < 0 THEN -m ELSE m
  <2> HIDE DEF a, q
  <2>1. CASE y < 0
    <3>1. b = -y
      BY <1>1, <1>2, <2>1
    <3>2. m = -(y * q) /\ y * (-q) = -(y * q)
      BY <1>1, <1>3, <3>1
    <3> QED  BY <1>1, <1>3, <1>5, <2>1, <3>2
  <2>2. CASE ~(y < 0)
    <3>1. b = y
      BY <1>1, <1>2, <2>2
    <3>2. m = y * q /\ y * (-q) = -(y * q)
      BY <1>1, <1>3, <3>1
    <3> QED  BY <1>1, <1>3, <1>5, <2>2, <3>2
  <2> QED  BY <2>1, <2>2
<1> HIDE DEF m
<1>7. Remainder(x, y) = IF x < 0 THEN x + m ELSE x - m
  BY <1>1, <1>3, <1>6 DEF Remainder
<1>8. Quotient(x, y) \in Int
  <2> HIDE DEF q
  <2> QED  BY <1>3, <1>5
<1>9. LeastWord \in Int /\ LeastWord <= -2 /\ Word = LeastWord..(-LeastWord - 1)
  BY WordsAre
<1> HIDE DEF a
<1>10. Remainder(x, y) \in Word
  BY <1>1, <1>2, <1>3, <1>4, <1>7, <1>9
<1> QED  BY <1>8, <1>10

\* What the instruction for an operation computes, and what fixes it.
Computes(op, x, y) ==
    CASE op \in {"eq", "ne"} -> Xor(x, y)
      [] op \in {"lt", "ge"} -> Truth(x < y)
      [] op \in {"gt", "le"} -> Truth(x > y)
      [] op = "add" -> x + y
      [] op = "sub" -> x - y
      [] op = "mul" -> x * y
      [] op = "div" -> IF y = 0 THEN -1 ELSE Quotient(x, y)
      [] op = "mod" -> IF y = 0 THEN x ELSE Remainder(x, y)

LEMMA TruthIs == \A b : Truth(b) \in Word /\ Wrap(Truth(b)) = Truth(b)
<1>1. 0 \in Word /\ 1 \in Word
  BY WordsAre
<1> QED  BY <1>1, WordFacts DEF Truth

LEMMA ComputesRight ==
    ASSUME NEW op \in BinaryOps, NEW x \in Word, NEW y \in Word, NEW z,
           z = Wrap(Computes(op, x, y))
    PROVE  /\ z \in Word
           /\ op \in {"eq", "ne", "le", "ge"} => Raw(op, z, x, y)
           /\ op \notin {"eq", "ne", "le", "ge"} => z \in IRM!Results(op, x, y)
<1>1. x \in Int /\ y \in Int /\ \A n \in Int : Wrap(n) \in Word
  BY WordFacts, WrapIs
<1>2. CASE op \in {"eq", "ne"}
  <2>1. Computes(op, x, y) = Xor(x, y)
    BY <1>2 DEF Computes
  <2> QED  BY <1>1, <1>2, <2>1, XorIs DEF Raw
<1>3. CASE op \in {"lt", "ge"}
  <2>1. Computes(op, x, y) = Truth(x < y)
    BY <1>3 DEF Computes
  <2>2. z = Truth(x < y) /\ z \in Word
    BY <2>1, TruthIs
  <2>3. op = "lt" => IRM!Results(op, x, y) = {Truth(x < y)}
    BY SameOperations DEF IRM!Results
  <2> QED  BY <1>3, <2>2, <2>3 DEF Raw
<1>4. CASE op \in {"gt", "le"}
  <2>1. Computes(op, x, y) = Truth(x > y)
    BY <1>4 DEF Computes
  <2>2. z = Truth(x > y) /\ z \in Word
    BY <2>1, TruthIs
  <2>3. op = "gt" => IRM!Results(op, x, y) = {Truth(x > y)}
    BY SameOperations DEF IRM!Results
  <2> QED  BY <1>4, <2>2, <2>3 DEF Raw
<1>5. CASE op = "add"
  <2>1. Computes(op, x, y) = x + y
    BY <1>5 DEF Computes
  <2>2. IRM!Results(op, x, y) = {Wrap(x + y)}
    BY <1>5, SameOperations DEF IRM!Results
  <2> QED  BY <1>1, <1>5, <2>1, <2>2
<1>6. CASE op = "sub"
  <2>1. Computes(op, x, y) = x - y
    BY <1>6 DEF Computes
  <2>2. IRM!Results(op, x, y) = {Wrap(x - y)}
    BY <1>6, SameOperations DEF IRM!Results
  <2> QED  BY <1>1, <1>6, <2>1, <2>2
<1>7. CASE op = "mul"
  <2>1. Computes(op, x, y) = x * y
    BY <1>7 DEF Computes
  <2>2. IRM!Results(op, x, y) = {Wrap(x * y)}
    BY <1>7, SameOperations DEF IRM!Results
  <2>3. x * y \in Int
    BY <1>1
  <2> QED  BY <1>1, <1>7, <2>1, <2>2, <2>3
<1>8. CASE op = "div"
  <2>1. Computes(op, x, y) = IF y = 0 THEN -1 ELSE Quotient(x, y)
    BY <1>8 DEF Computes
  <2>2. IRM!Results(op, x, y)
          = IF y = 0 THEN Word ELSE {Wrap(Quotient(x, y))}
    BY <1>8, SameOperations, SameWords DEF IRM!Results
  <2> QED  BY <1>1, <1>8, <2>1, <2>2, RemainderIs
<1>9. CASE op = "mod"
  <2>1. Computes(op, x, y) = IF y = 0 THEN x ELSE Remainder(x, y)
    BY <1>9 DEF Computes
  <2>2. IRM!Results(op, x, y) = IF y = 0 THEN Word ELSE {Remainder(x, y)}
    BY <1>9, SameOperations, SameWords DEF IRM!Results
  <2>3. Computes(op, x, y) \in Word
    BY <2>1, RemainderIs
  <2>4. z = Computes(op, x, y)
    BY <2>3, WordFacts
  <2> QED  BY <1>9, <2>1, <2>2, <2>3, <2>4
<1> QED  BY <1>2, <1>3, <1>4, <1>5, <1>6, <1>7, <1>8, <1>9 DEF BinaryOps

\* seqz and snez turn it into the answer.
LEMMA FixRight ==
    ASSUME NEW op \in {"eq", "ne", "le", "ge"}, NEW x \in Word, NEW y \in Word,
           NEW z, Raw(op, z, x, y)
    PROVE  Truth(IF op = "ne" THEN z # 0 ELSE z = 0) \in IRM!Results(op, x, y)
<1>1. x \in Int /\ y \in Int
  BY WordFacts
<1>2. CASE op = "eq"
  BY <1>2, SameOperations DEF IRM!Results, Raw
<1>3. CASE op = "ne"
  BY <1>3, SameOperations DEF IRM!Results, Raw
<1>4. CASE op = "ge"
  <2>1. z = 0 <=> x >= y
    BY <1>1, <1>4 DEF Raw, Truth
  <2>2. IRM!Results(op, x, y) = {Truth(x >= y)}
    BY <1>4, SameOperations DEF IRM!Results
  <2> QED  BY <1>4, <2>1, <2>2
<1>5. CASE op = "le"
  <2>1. z = 0 <=> x <= y
    BY <1>1, <1>5 DEF Raw, Truth
  <2>2. IRM!Results(op, x, y) = {Truth(x <= y)}
    BY <1>5, SameOperations DEF IRM!Results
  <2> QED  BY <1>5, <2>1, <2>2
<1> QED  BY <1>2, <1>3, <1>4, <1>5

-----------------------------------------------------------------------------
(* One instruction takes a node to the next: what the next one relies on is   *)
(* what this one did.                                                         *)

ComputeOps ==
    {"li", "addi", "xori", "xor", "seqz", "snez", "add", "sub", "mul", "div",
     "rem", "slt", "sgt"}

Standing(K, n) ==
    /\ IsUnit(K) /\ IsNode(K, n) /\ Here = InstrOf(K, n)
    /\ GoodAt(K, regs, mem, n) /\ Machine(regs, mem)

LEMMA RegsDiffer ==
    /\ X0 \in Regs /\ A0 \in Regs /\ SP \in Regs /\ 0 \in Regs /\ 1 \in Regs
    /\ X0 # A0 /\ X0 # SP /\ A0 # SP
    /\ X0 \notin {0, 1} /\ A0 \notin {0, 1} /\ SP \notin {0, 1}
    /\ \A ins : /\ RegX(ins) \in {X0, 0} /\ RegR(ins) \in {0, 1}
                /\ Second(ins) \in {0, 1} /\ RegY(ins) \in {X0, 0, 1}
                /\ Second(ins) # RegX(ins)
BY DEF Regs, X0, A0, SP, TmpVars, RegX, RegY, RegR, Second

\* The opcode tells which action executes a node's instruction.
LEMMA NodeOps ==
    ASSUME NEW K, IsUnit(K), NEW n, IsNode(K, n)
    PROVE  /\ n[1] = Opening <=> n[2] \in {"size", "take"}
           /\ n[2] \in Roles \cup {"size", "take"}
           /\ LET op == InstrOf(K, n).op
              IN  /\ n[2] \in {"size", "take", "do", "fix", "free"} => op \in ComputeOps
                  /\ n[2] \in {"x", "y", "result"} => op \in {"li", "lw"}
                  /\ n[2] = "put" => op = "sw"
                  /\ n[2] = "bnez" => op = "bnez"
                  /\ n[2] \in {"else", "jump"} => op = "j"
                  /\ n[2] = "ret" => op = "ret"
<1> DEFINE p == n[1]
           r == n[2]
           ins == InsAt(K.f, p)
           op == InstrOf(K, n).op
<1>1. CASE n[1] = Opening
  <2>1. r \in {"size", "take"}
    <3>1. n[1] \notin Places(K.f) \/ ~Lowers(ins, r)
      BY <1>1, NodeIs
    <3> QED  BY <3>1 DEF IsNode
  <2>2. op \in ComputeOps
    BY <2>1 DEF InstrOf, AsmOf, ComputeOps
  <2> QED  BY <1>1, <2>1, <2>2
<1>2. CASE n[1] # Opening
  <2>1. r \in RolesOf(ins) /\ r \in Roles
    BY <1>2, NodeOf
  <2>2. r \in {"x", "y", "result"} => op \in {"li", "lw"}
    BY DEF InstrOf, Fetch, AsmOf
  <2>3. r = "do" => op \in ComputeOps
    <3>1. r = "do" => ins.op \in BinaryOps
      BY <2>1, RolesAre
    <3>2. r = "do" => IF AtOnce(ins) THEN op = ImmOp[ins.op]
                      ELSE op = RegOp(ins.op)
      BY DEF InstrOf, AsmOf
    <3> QED  BY <3>1, <3>2 DEF AtOnce, ImmOp, RegOp, BinaryOps, ComputeOps
  <2>4. /\ r \in {"fix", "free"} => op \in ComputeOps
        /\ r = "put" => op = "sw"
        /\ r = "bnez" => op = "bnez"
        /\ r \in {"else", "jump"} => op = "j"
        /\ r = "ret" => op = "ret"
    BY DEF InstrOf, AsmOf, ComputeOps
  <2> QED  BY <1>2, <2>1, <2>2, <2>3, <2>4 DEF Roles
<1> QED  BY <1>1, <1>2

\* An operand that is fetched.
LEMMA FetchDone ==
    ASSUME NEW K, IsUnit(K), Machine(regs, mem), regs[SP] = StackTop - K.sz,
           NEW p, NEW v, Usable(K, v), NEW rd, Here = Fetch(K, p, v, rd),
           Compute \/ LoadWord
    PROVE  /\ regs' = [regs EXCEPT ![rd] = Holds(K, mem, v)] /\ mem' = mem
           /\ Holds(K, mem, v) \in Word
<1>1. Holds(K, mem, v) \in Word
  BY HoldsWord DEF Machine
<1>2. CASE v.k = "num"
  <2>1. Here.op = "li" /\ Here.rd = rd /\ Here.a = v.n
    BY <1>2 DEF Fetch, AsmOf
  <2>2. Compute
    BY <2>1 DEF LoadWord, At
  <2>3. Result(Here) = v.n
    BY <2>1 DEF Result
  <2>4. Wrap(v.n) = v.n
    BY <1>2, WordFacts DEF Usable
  <2> QED  BY <1>1, <1>2, <2>1, <2>2, <2>3, <2>4 DEF Compute, Set, Holds
<1>3. CASE v.k # "num"
  <2>1. /\ Here.op = "lw" /\ Here.rd = rd /\ Here.a = K.off[v.s] /\ Here.b = SP
        /\ v.s \in Names(K.f)
    BY <1>3 DEF Fetch, AsmOf, Usable, Known
  <2>2. LoadWord
    BY <2>1 DEF Compute, At
  <2>3. Address = Slot(K, v.s)
    BY <2>1 DEF Address, Slot
  <2>4. Address \in Cells
    BY <2>2 DEF LoadWord, Machine
  <2>5. K.off[v.s] # NoOffset
    BY <2>1, <2>3, <2>4, SlotIs
  <2>6. mem[Address] = Holds(K, mem, v)
    BY <1>3, <2>3, <2>5 DEF Holds
  <2>7. Wrap(mem[Address]) = mem[Address]
    BY <1>1, <2>6, WordFacts
  <2> QED  BY <1>1, <2>1, <2>2, <2>6, <2>7 DEF LoadWord, Set
<1> QED  BY <1>2, <1>3

\* A register that is set.
LEMMA SetMachine ==
    ASSUME Machine(regs, mem), NEW rd \in Regs \ {X0}, NEW w \in Word,
           regs' = [regs EXCEPT ![rd] = w], mem' = mem
    PROVE  /\ Machine(regs', mem') /\ regs'[rd] = w
           /\ \A q \in Regs : q # rd => regs'[q] = regs[q]
BY RegsDiffer DEF Machine

\* The node a block goes on with.
LEMMA StartGood ==
    ASSUME NEW K, IsUnit(K), NEW b, NEW i, IsNode(K, Start(K, b, i)),
           NEW R, NEW M, R[X0] = 0, R[SP] = StackTop - K.sz
    PROVE  GoodAt(K, R, M, Start(K, b, i)) /\ Start(K, b, i)[1] # Opening
<1> DEFINE n == Start(K, b, i)
<1>0. IsNode(K, n)
  OBVIOUS
<1>1. n[2] = FirstRole(InsAt(K.f, n[1]))
  BY DEF Start
<1>2. n[2] \notin {"size", "take"}
  BY <1>1 DEF FirstRole, AfterX
<1>3. n[1] # Opening
  BY <1>2, NodeOps
<1> HIDE DEF n
<1>4. GoodAt(K, R, M, n)
  BY <1>0, <1>1, <1>3, FirstGood
<1> QED  BY <1>3, <1>4 DEF n

\* What the next node relies on holds behind the instruction.
Moves(K, n) == Machine(regs', mem') /\ GoodAt(K, regs', mem', Succ(K, n))

\* The prologue.
LEMMA SizeMoves ==
    ASSUME NEW K, NEW n, Standing(K, n), n[2] = "size", Compute
    PROVE  Moves(K, n)
<1>1. n[1] = Opening /\ IsUnit(K) /\ Machine(regs, mem) /\ regs[SP] = StackTop
  BY NodeOps DEF Standing, GoodAt
<1>2. Here.op = "li" /\ Here.rd = 0 /\ Here.a = -K.sz
  BY DEF Standing, InstrOf, AsmOf
<1>3. Result(Here) = -K.sz
  BY <1>2 DEF Result
<1>4. -K.sz \in Word /\ Wrap(-K.sz) = -K.sz
  BY <1>1, UnitIs, WordFacts
<1>5. regs' = [regs EXCEPT ![0] = -K.sz] /\ mem' = mem
  BY <1>2, <1>3, <1>4 DEF Compute, Set
<1>6. /\ Machine(regs', mem') /\ regs'[0] = -K.sz
      /\ regs'[SP] = StackTop
  BY <1>1, <1>4, <1>5, SetMachine, RegsDiffer
<1>7. Succ(K, n) = <<Opening, "take">>
  BY <1>1 DEF Succ
<1> QED  BY <1>6, <1>7 DEF Moves, GoodAt

LEMMA TakeMoves ==
    ASSUME NEW K, NEW n, Standing(K, n), n[2] = "take", Compute,
           IsNode(K, Succ(K, n))
    PROVE  Moves(K, n)
<1>1. /\ n[1] = Opening /\ IsUnit(K) /\ Machine(regs, mem) /\ regs[SP] = StackTop
      /\ K.sz > ImmLimit => regs[0] = -K.sz
  BY NodeOps DEF Standing, GoodAt
<1>2. Here = IF K.sz > ImmLimit THEN AsmOf(n[1], "add", SP, SP, 0, 0)
             ELSE AsmOf(n[1], "addi", SP, SP, -K.sz, 0)
  BY DEF Standing, InstrOf
<1>3. Here.rd = SP /\ Result(Here) = StackTop + (-K.sz)
  <2>1. CASE K.sz > ImmLimit
    <3>1. Here.op = "add" /\ Here.a = SP /\ Here.b = 0 /\ Here.rd = SP
      BY <1>2, <2>1 DEF AsmOf
    <3> QED  BY <1>1, <2>1, <3>1 DEF Result
  <2>2. CASE ~(K.sz > ImmLimit)
    <3>1. Here.op = "addi" /\ Here.a = SP /\ Here.b = -K.sz /\ Here.rd = SP
      BY <1>2, <2>2 DEF AsmOf
    <3> QED  BY <1>1, <3>1 DEF Result
  <2> QED  BY <2>1, <2>2
<1>4. /\ StackTop + (-K.sz) = StackTop - K.sz /\ StackTop - K.sz \in Word
      /\ Wrap(StackTop - K.sz) = StackTop - K.sz
  <2>1. K.sz \in Nat /\ K.sz <= StackTop /\ StackTop \in Nat
    BY <1>1, UnitIs, WordFacts
  <2>2. StackTop - K.sz \in Nat /\ StackTop - K.sz <= StackTop
        /\ StackTop + (-K.sz) = StackTop - K.sz
    BY <2>1
  <2> QED  BY <2>2, WordFacts
<1>5. regs' = [regs EXCEPT ![SP] = StackTop - K.sz] /\ mem' = mem
  BY <1>3, <1>4 DEF Compute, Set
<1>6. Machine(regs', mem') /\ regs'[SP] = StackTop - K.sz
  BY <1>1, <1>4, <1>5, SetMachine, RegsDiffer
<1>7. Succ(K, n) = Start(K, n[1][1], n[1][2] + 1)
  BY <1>1 DEF Succ
<1> QED  BY <1>1, <1>6, <1>7, StartGood DEF Moves, Machine

\* The operands.
LEMMA XMoves ==
    ASSUME NEW K, NEW n, Standing(K, n), n[2] = "x", Compute \/ LoadWord
    PROVE  Moves(K, n)
<1> DEFINE ins == InsAt(K.f, n[1])
           x == Holds(K, mem, ins.args[1])
           y == Holds(K, mem, ins.args[2])
<1>1. /\ n[1] # Opening /\ IsUnit(K) /\ Machine(regs, mem)
      /\ regs[SP] = StackTop - K.sz /\ IsNode(K, n)
  BY NodeOps DEF Standing, GoodAt
<1>2. n[1] \in Places(K.f) /\ Lowers(ins, "x") /\ "x" \in RolesOf(ins)
  BY <1>1, NodeOf
<1>3. ins.op \in Loads /\ Usable(K, ins.args[1])
  BY <1>1, <1>2, RolesAre, NodeIs
<1>4. Here = Fetch(K, n[1], ins.args[1], 0)
  BY DEF Standing, InstrOf
<1>5. regs' = [regs EXCEPT ![0] = x] /\ mem' = mem /\ x \in Word
  BY <1>1, <1>3, <1>4, FetchDone
<1>6. /\ Machine(regs', mem') /\ regs'[0] = x /\ regs'[X0] = 0
      /\ regs'[SP] = StackTop - K.sz
  <2>1. /\ Machine(regs', mem') /\ regs'[0] = x
        /\ regs'[SP] = regs[SP]
    BY <1>1, <1>5, SetMachine, RegsDiffer
  <2> QED  BY <1>1, <2>1 DEF Machine
<1>7. RegX(ins) = 0
  BY <1>2 DEF Lowers, RegX
<1>8. Succ(K, n) = <<n[1], AfterX(ins)>>
  BY <1>1, <1>3, RoleNames DEF Succ, NextRole
<1>9. AfterX(ins) \in {"y", "do", "bnez", "put"}
      /\ (AfterX(ins) = "put" => ins.op \notin BinaryOps)
      /\ (AfterX(ins) = "do" => RegY(ins) = X0 /\ y = 0)
  BY DEF AfterX, RegY, IsZero, Holds
<1> DEFINE m == Succ(K, n)
<1>10. m[1] = n[1] /\ m[2] = AfterX(ins)
  BY <1>8
<1> HIDE DEF m
<1>11. GoodAt(K, regs', mem', m)
  BY <1>5, <1>6, <1>7, <1>9, <1>10 DEF GoodAt
<1> QED  BY <1>6, <1>11 DEF Moves, m

LEMMA YMoves ==
    ASSUME NEW K, NEW n, Standing(K, n), n[2] = "y", Compute \/ LoadWord
    PROVE  Moves(K, n)
<1> DEFINE ins == InsAt(K.f, n[1])
           x == Holds(K, mem, ins.args[1])
           y == Holds(K, mem, ins.args[2])
<1>1. /\ n[1] # Opening /\ IsUnit(K) /\ Machine(regs, mem)
      /\ regs[SP] = StackTop - K.sz /\ IsNode(K, n) /\ regs[RegX(ins)] = x
  BY NodeOps DEF Standing, GoodAt
<1>2. n[1] \in Places(K.f) /\ Lowers(ins, "y") /\ "y" \in RolesOf(ins)
  BY <1>1, NodeOf
<1>3. ins.op \in BinaryOps /\ Usable(K, ins.args[2])
  BY <1>1, <1>2, RolesAre, NodeIs
<1>4. Here = Fetch(K, n[1], ins.args[2], Second(ins))
  BY DEF Standing, InstrOf
<1>5. regs' = [regs EXCEPT ![Second(ins)] = y] /\ mem' = mem /\ y \in Word
  BY <1>1, <1>3, <1>4, FetchDone
<1>6. /\ Machine(regs', mem') /\ regs'[Second(ins)] = y
      /\ regs'[SP] = StackTop - K.sz
      /\ regs'[RegX(ins)] = x
  <2>1. Second(ins) \in Regs \ {X0} /\ Second(ins) # SP /\ RegX(ins) \in Regs
        /\ Second(ins) # RegX(ins)
    BY RegsDiffer
  <2>2. /\ Machine(regs', mem') /\ regs'[Second(ins)] = y
        /\ \A q \in Regs : q # Second(ins) => regs'[q] = regs[q]
    BY <1>1, <1>5, <2>1, SetMachine
  <2>3. SP \in Regs
    BY RegsDiffer
  <2> QED  BY <1>1, <2>1, <2>2, <2>3
<1>7. RegY(ins) = Second(ins)
  BY <1>2 DEF Lowers, RegY
<1>8. Succ(K, n) = <<n[1], "do">>
  BY <1>1 DEF Succ, NextRole
<1> DEFINE m == Succ(K, n)
<1>9. m[1] = n[1] /\ m[2] = "do"
  BY <1>8
<1> HIDE DEF m
<1>10. GoodAt(K, regs', mem', m)
  BY <1>5, <1>6, <1>7, <1>9 DEF GoodAt
<1> QED  BY <1>6, <1>10 DEF Moves, m

\* The operation.
LEMMA DoComputes ==
    ASSUME NEW K, NEW n, Standing(K, n), n[2] = "do"
    PROVE  LET ins == InsAt(K.f, n[1])
           IN  /\ ins.op \in BinaryOps
               /\ Holds(K, mem, ins.args[1]) \in Word
               /\ Holds(K, mem, ins.args[2]) \in Word
               /\ Here.rd = RegR(ins)
               /\ Result(Here) = Computes(ins.op, Holds(K, mem, ins.args[1]),
                                          Holds(K, mem, ins.args[2]))
<1> DEFINE ins == InsAt(K.f, n[1])
           x == Holds(K, mem, ins.args[1])
           y == Holds(K, mem, ins.args[2])
<1>1. /\ n[1] # Opening /\ IsUnit(K) /\ Machine(regs, mem) /\ IsNode(K, n)
      /\ regs[RegX(ins)] = x /\ regs[RegY(ins)] = y
  BY NodeOps DEF Standing, GoodAt
<1>2. n[1] \in Places(K.f) /\ Lowers(ins, "do") /\ "do" \in RolesOf(ins)
  BY <1>1, NodeOf
<1>3. ins.op \in BinaryOps /\ Usable(K, ins.args[1]) /\ Usable(K, ins.args[2])
  <2>1. ins.op \in BinaryOps
    BY <1>2, RolesAre
  <2> QED  BY <1>1, <1>2, <2>1, NodeIs DEF Loads
<1>4. x \in Word /\ y \in Word
  BY <1>1, <1>3, HoldsWord DEF Machine
<1>5. CASE AtOnce(ins)
  <2>1. Here = AsmOf(n[1], ImmOp[ins.op], RegR(ins), RegX(ins), ins.args[2].n, 0)
    BY <1>5 DEF Standing, InstrOf
  <2>2. /\ Here.op = ImmOp[ins.op] /\ Here.rd = RegR(ins) /\ Here.a = RegX(ins)
        /\ Here.b = ins.args[2].n
    BY <2>1 DEF AsmOf
  <2>3. y = ins.args[2].n /\ ins.op \in {"eq", "ne", "add"}
    BY <1>5 DEF AtOnce, Holds
  <2> HIDE DEF x, y
  <2>4. Result(Here) = Computes(ins.op, x, y)
    <3>1. CASE ins.op = "add"
      <4>1. Here.op = "addi"
        BY <2>2, <3>1 DEF ImmOp
      <4> QED  BY <1>1, <2>2, <2>3, <3>1, <4>1 DEF Result, Computes
    <3>2. CASE ins.op \in {"eq", "ne"}
      <4>1. Here.op = "xori"
        BY <2>2, <3>2 DEF ImmOp
      <4> QED  BY <1>1, <2>2, <2>3, <3>2, <4>1 DEF Result, Computes
    <3> QED  BY <2>3, <3>1, <3>2
  <2> QED  BY <1>3, <1>4, <2>2, <2>4 DEF x, y
<1>6. CASE ~AtOnce(ins)
  <2>1. Here = AsmOf(n[1], RegOp(ins.op), RegR(ins), RegX(ins), RegY(ins), 0)
    BY <1>6 DEF Standing, InstrOf
  <2>2. /\ Here.op = RegOp(ins.op) /\ Here.rd = RegR(ins) /\ Here.a = RegX(ins)
        /\ Here.b = RegY(ins)
    BY <2>1 DEF AsmOf
  <2> HIDE DEF x, y, ins
  <2>3. Result(Here) = Computes(ins.op, x, y)
    <3>1. CASE ins.op \in {"eq", "ne"}
      BY <1>1, <2>2, <3>1 DEF Result, Computes, RegOp
    <3>2. CASE ins.op \in {"lt", "ge", "gt", "le"}
      BY <1>1, <2>2, <3>2 DEF Result, Computes, RegOp
    <3>3. CASE ins.op \in {"add", "sub", "mul", "div", "mod"}
      BY <1>1, <2>2, <3>3 DEF Result, Computes, RegOp
    <3> QED  BY <1>3, <3>1, <3>2, <3>3 DEF BinaryOps
  <2> QED  BY <1>3, <1>4, <2>2, <2>3 DEF x, y, ins
<1> QED  BY <1>5, <1>6

LEMMA DoMoves ==
    ASSUME NEW K, NEW n, Standing(K, n), n[2] = "do", Compute
    PROVE  Moves(K, n)
<1> DEFINE ins == InsAt(K.f, n[1])
           x == Holds(K, mem, ins.args[1])
           y == Holds(K, mem, ins.args[2])
           z == Wrap(Result(Here))
<1>1. /\ n[1] # Opening /\ IsUnit(K) /\ Machine(regs, mem)
      /\ regs[SP] = StackTop - K.sz
  BY NodeOps DEF Standing, GoodAt
<1>2. /\ ins.op \in BinaryOps /\ x \in Word /\ y \in Word
      /\ Here.rd = RegR(ins) /\ z = Wrap(Computes(ins.op, x, y))
  BY DoComputes
<1>3. regs' = [regs EXCEPT ![RegR(ins)] = z] /\ mem' = mem
  BY <1>2 DEF Compute, Set
<1> HIDE DEF x, y, z, ins
<1>4. /\ z \in Word
      /\ ins.op \in {"eq", "ne", "le", "ge"} => Raw(ins.op, z, x, y)
      /\ ins.op \notin {"eq", "ne", "le", "ge"} => z \in IRM!Results(ins.op, x, y)
  BY <1>2, ComputesRight
<1>5. /\ Machine(regs', mem') /\ regs'[RegR(ins)] = z
      /\ regs'[SP] = StackTop - K.sz
  <2>1. RegR(ins) \in Regs \ {X0} /\ RegR(ins) # SP /\ SP \in Regs
    BY RegsDiffer
  <2> QED  BY <1>1, <1>3, <1>4, <2>1, SetMachine
<1> DEFINE m == Succ(K, n)
<1>6. m[1] = n[1] /\ m[2] = IF HasFix(ins) THEN "fix" ELSE "put"
  BY <1>1 DEF Succ, NextRole, ins
<1> HIDE DEF m
<1>7. GoodAt(K, regs', mem', m)
  BY <1>2, <1>3, <1>4, <1>5, <1>6 DEF GoodAt, HasFix, x, y, ins
<1> QED  BY <1>5, <1>7 DEF Moves, m

LEMMA FixMoves ==
    ASSUME NEW K, NEW n, Standing(K, n), n[2] = "fix", Compute
    PROVE  Moves(K, n)
<1> DEFINE ins == InsAt(K.f, n[1])
           x == Holds(K, mem, ins.args[1])
           y == Holds(K, mem, ins.args[2])
           z == regs[RegR(ins)]
           w == Truth(IF ins.op = "ne" THEN z # 0 ELSE z = 0)
<1>1. /\ n[1] # Opening /\ IsUnit(K) /\ Machine(regs, mem) /\ IsNode(K, n)
      /\ regs[SP] = StackTop - K.sz /\ Raw(ins.op, z, x, y)
  BY NodeOps DEF Standing, GoodAt
<1>2. n[1] \in Places(K.f) /\ Lowers(ins, "fix") /\ "fix" \in RolesOf(ins)
  BY <1>1, NodeOf
<1>3. /\ ins.op \in BinaryOps /\ Usable(K, ins.args[1]) /\ Usable(K, ins.args[2])
      /\ ins.op \in {"eq", "ne", "le", "ge"}
  <2>1. ins.op \in BinaryOps
    BY <1>2, RolesAre
  <2> QED  BY <1>1, <1>2, <2>1, NodeIs DEF Loads, Lowers, HasFix
<1>4. x \in Word /\ y \in Word
  BY <1>1, <1>3, HoldsWord DEF Machine
<1>5. /\ Here.op = (IF ins.op = "ne" THEN "snez" ELSE "seqz")
      /\ Here.rd = RegR(ins) /\ Here.a = RegR(ins)
  BY DEF Standing, InstrOf, AsmOf
<1>6. Result(Here) = w
  BY <1>5 DEF Result, Truth
<1>7. regs' = [regs EXCEPT ![RegR(ins)] = w] /\ mem' = mem /\ w \in Word
  BY <1>5, <1>6, TruthIs DEF Compute, Set
<1> HIDE DEF x, y, z
<1>8. w \in IRM!Results(ins.op, x, y)
  BY <1>1, <1>3, <1>4, FixRight
<1> HIDE DEF w, ins
<1>9. /\ Machine(regs', mem') /\ regs'[RegR(ins)] = w
      /\ regs'[SP] = StackTop - K.sz
  <2>1. RegR(ins) \in Regs \ {X0} /\ RegR(ins) # SP /\ SP \in Regs
    BY RegsDiffer
  <2> QED  BY <1>1, <1>7, <2>1, SetMachine
<1> DEFINE m == Succ(K, n)
<1>10. m[1] = n[1] /\ m[2] = "put"
  BY <1>1 DEF Succ, NextRole
<1> HIDE DEF m
<1>11. GoodAt(K, regs', mem', m)
  BY <1>3, <1>7, <1>8, <1>9, <1>10 DEF GoodAt, x, y, ins
<1> QED  BY <1>9, <1>11 DEF Moves, m

\* An access is to the slot of a symbol that is defined.
LEMMA Accesses ==
    ASSUME NEW K, NEW n, Standing(K, n), Here.op \in {"lw", "sw"}
    PROVE  /\ n[2] \in {"x", "y", "put", "result"}
           /\ Here.b = SP
           /\ \E s : Known(K, s) /\ Here.a = K.off[s] /\ Address = Slot(K, s)
<1> DEFINE ins == InsAt(K.f, n[1])
           r == n[2]
<1>1. IsUnit(K) /\ IsNode(K, n) /\ Here = InstrOf(K, n)
  BY DEF Standing
<1>2. r \in {"x", "y", "put", "result"}
  BY <1>1, NodeOps DEF ComputeOps, Roles
<1>3. /\ n[1] # Opening /\ regs[SP] = StackTop - K.sz
  BY <1>1, <1>2, NodeOps DEF Standing, GoodAt
<1>4. n[1] \in Places(K.f) /\ Lowers(ins, r) /\ r \in RolesOf(ins)
  BY <1>1, <1>3, NodeOf
<1>5. /\ ins.op \in Loads \cup {"ret"} => Usable(K, ins.args[1])
      /\ ins.op \in BinaryOps => Usable(K, ins.args[2])
      /\ ins.op \in Loads \ {"br"} => Known(K, Target(ins))
  BY <1>1, <1>4, NodeIs
<1>6. Here.b = SP /\ \E s : Known(K, s) /\ Here.a = K.off[s]
  <2>1. CASE r = "put"
    <3>1. Known(K, Target(ins))
      BY <1>4, <1>5, <2>1, RolesAre
    <3>2. Here.a = K.off[Target(ins)] /\ Here.b = SP
      BY <1>1, <2>1 DEF InstrOf, AsmOf
    <3> QED  BY <3>1, <3>2
  <2>2. CASE r # "put"
    <3>1. PICK v, rd : Usable(K, v) /\ Here = Fetch(K, n[1], v, rd)
      BY <1>1, <1>2, <1>4, <1>5, <2>2, RolesAre DEF InstrOf, Loads
    <3>2. v.k # "num"
      BY <3>1 DEF Fetch, AsmOf
    <3>3. Known(K, v.s) /\ Here.a = K.off[v.s] /\ Here.b = SP
      BY <3>1, <3>2 DEF Fetch, AsmOf, Usable
    <3> QED  BY <3>3
  <2> QED  BY <2>1, <2>2
<1>7. PICK s : Known(K, s) /\ Here.a = K.off[s]
  BY <1>6
<1>8. Address = Slot(K, s)
  BY <1>3, <1>6, <1>7 DEF Address, Slot
<1> QED  BY <1>2, <1>6, <1>7, <1>8

\* The result goes to its slot.
LEMMA PutStores ==
    ASSUME NEW K, NEW n, Standing(K, n), n[2] = "put", StoreWord
    PROVE  LET ins == InsAt(K.f, n[1])
               x == Holds(K, mem, ins.args[1])
               y == Holds(K, mem, ins.args[2])
               s == Target(ins)
               w == regs[Source(ins)]
           IN  /\ ins.op \in Loads \ {"br"} /\ Known(K, s) /\ K.off[s] # NoOffset
               /\ w \in Word /\ regs' = regs
               /\ mem' = [mem EXCEPT ![Slot(K, s)] = w]
               /\ ins.op \in BinaryOps => w \in IRM!Results(ins.op, x, y)
               /\ ins.op \notin BinaryOps => w = x
<1> DEFINE ins == InsAt(K.f, n[1])
           x == Holds(K, mem, ins.args[1])
           y == Holds(K, mem, ins.args[2])
           s == Target(ins)
           w == regs[Source(ins)]
<1>1. /\ n[1] # Opening /\ IsUnit(K) /\ Machine(regs, mem) /\ IsNode(K, n)
      /\ regs[SP] = StackTop - K.sz /\ Here = InstrOf(K, n)
      /\ IF ins.op \in BinaryOps
         THEN regs[RegR(ins)] \in IRM!Results(ins.op, x, y)
         ELSE regs[RegX(ins)] = x
  BY NodeOps DEF Standing, GoodAt
<1>2. n[1] \in Places(K.f) /\ Lowers(ins, "put") /\ "put" \in RolesOf(ins)
  BY <1>1, NodeOf
<1>3. ins.op \in Loads \ {"br"} /\ Known(K, s)
  <2>1. ins.op \in Loads \ {"br"}
    BY <1>2, RolesAre
  <2> QED  BY <1>1, <1>2, <2>1, NodeIs
<1>4. Here.rd = Source(ins) /\ Here.a = K.off[s] /\ Here.b = SP
  BY <1>1 DEF InstrOf, AsmOf
<1>5. Source(ins) \in Regs /\ w \in Word
  BY <1>1, RegsDiffer DEF Source, Machine
<1>6. Address = Slot(K, s)
  BY <1>1, <1>4 DEF Address, Slot
<1>7. K.off[s] # NoOffset
  <2>1. Address \in Cells
    BY <1>1 DEF StoreWord, Machine
  <2> QED  BY <1>1, <1>3, <1>6, <2>1, SlotIs DEF Known
<1>8. mem' = [mem EXCEPT ![Slot(K, s)] = w] /\ regs' = regs
  BY <1>4, <1>6 DEF StoreWord
<1>9. /\ ins.op \in BinaryOps => w \in IRM!Results(ins.op, x, y)
      /\ ins.op \notin BinaryOps => w = x
  BY <1>1 DEF Source
<1> HIDE DEF ins, x, y, s, w
<1>10. /\ ins.op \in Loads \ {"br"} /\ Known(K, s) /\ K.off[s] # NoOffset
       /\ w \in Word /\ regs' = regs
       /\ mem' = [mem EXCEPT ![Slot(K, s)] = w]
       /\ ins.op \in BinaryOps => w \in IRM!Results(ins.op, x, y)
       /\ ins.op \notin BinaryOps => w = x
  BY <1>3, <1>5, <1>7, <1>8, <1>9
<1> QED  BY <1>10 DEF ins, x, y, s, w

LEMMA PutMoves ==
    ASSUME NEW K, NEW n, Standing(K, n), n[2] = "put", StoreWord,
           IsNode(K, Succ(K, n))
    PROVE  Moves(K, n)
<1> DEFINE s == Target(InsAt(K.f, n[1]))
           w == regs[Source(InsAt(K.f, n[1]))]
<1>1. /\ n[1] # Opening /\ IsUnit(K) /\ Machine(regs, mem)
      /\ regs[SP] = StackTop - K.sz
  BY NodeOps DEF Standing, GoodAt
<1>2. w \in Word /\ regs' = regs /\ mem' = [mem EXCEPT ![Slot(K, s)] = w]
  BY PutStores
<1> HIDE DEF w, s
<1>3. Machine(regs', mem')
  BY <1>1, <1>2 DEF Machine
<1>4. Succ(K, n) = Start(K, n[1][1], n[1][2] + 1)
  BY <1>1 DEF Succ, NextRole
<1> QED  BY <1>1, <1>2, <1>3, <1>4, StartGood DEF Moves, Machine

\* The way out.
LEMMA ResultMoves ==
    ASSUME NEW K, NEW n, Standing(K, n), n[2] = "result", Compute \/ LoadWord
    PROVE  Moves(K, n)
<1> DEFINE ins == InsAt(K.f, n[1])
           x == Holds(K, mem, ins.args[1])
<1>1. /\ n[1] # Opening /\ IsUnit(K) /\ Machine(regs, mem)
      /\ regs[SP] = StackTop - K.sz /\ IsNode(K, n)
  BY NodeOps DEF Standing, GoodAt
<1>2. n[1] \in Places(K.f) /\ Lowers(ins, "result") /\ "result" \in RolesOf(ins)
  BY <1>1, NodeOf
<1>3. Usable(K, ins.args[1])
  BY <1>1, <1>2, RolesAre, NodeIs
<1>4. Here = Fetch(K, n[1], ins.args[1], A0)
  BY DEF Standing, InstrOf
<1>5. regs' = [regs EXCEPT ![A0] = x] /\ mem' = mem /\ x \in Word
  BY <1>1, <1>3, <1>4, FetchDone
<1> HIDE DEF x
<1>6. Machine(regs', mem') /\ regs'[A0] = x /\ regs'[SP] = StackTop - K.sz
  <2>1. A0 \in Regs \ {X0} /\ SP \in Regs /\ SP # A0
    BY RegsDiffer
  <2>2. Machine(regs', mem') /\ regs'[A0] = x /\ regs'[SP] = regs[SP]
    BY <1>1, <1>5, <2>1, SetMachine
  <2> QED  BY <1>1, <2>2
<1> DEFINE m == Succ(K, n)
<1>7. m[1] = n[1] /\ m[2] = IF K.sz > 0 THEN "free" ELSE "ret"
  BY <1>1 DEF Succ, NextRole
<1>8. StackTop - K.sz = StackTop \/ K.sz > 0
  BY <1>1, UnitIs, WordFacts
<1> HIDE DEF m
<1>9. GoodAt(K, regs', mem', m)
  BY <1>5, <1>6, <1>7, <1>8 DEF GoodAt, x
<1> QED  BY <1>6, <1>9 DEF Moves, m

LEMMA FreeMoves ==
    ASSUME NEW K, NEW n, Standing(K, n), n[2] = "free", Compute
    PROVE  Moves(K, n)
<1> DEFINE ins == InsAt(K.f, n[1])
           x == Holds(K, mem, ins.args[1])
<1>1. /\ n[1] # Opening /\ IsUnit(K) /\ Machine(regs, mem)
      /\ regs[SP] = StackTop - K.sz /\ regs[A0] = x
  BY NodeOps DEF Standing, GoodAt
<1>2. Here.op = "addi" /\ Here.rd = SP /\ Here.a = SP /\ Here.b = K.sz
  BY DEF Standing, InstrOf, AsmOf
<1>3. Wrap(Result(Here)) = StackTop /\ StackTop \in Word
  <2>1. Result(Here) = StackTop - K.sz + K.sz
    BY <1>1, <1>2 DEF Result
  <2>2. StackTop - K.sz + K.sz = StackTop
    BY <1>1, UnitIs, WordFacts
  <2> QED  BY <2>1, <2>2, WordFacts
<1>4. regs' = [regs EXCEPT ![SP] = StackTop] /\ mem' = mem
  BY <1>2, <1>3 DEF Compute, Set
<1> HIDE DEF x
<1>5. Machine(regs', mem') /\ regs'[A0] = x /\ regs'[SP] = StackTop
  <2>1. SP \in Regs \ {X0} /\ A0 \in Regs /\ A0 # SP
    BY RegsDiffer
  <2>2. /\ Machine(regs', mem') /\ regs'[SP] = StackTop
        /\ \A q \in Regs : q # SP => regs'[q] = regs[q]
    BY <1>1, <1>3, <1>4, <2>1, SetMachine
  <2> QED  BY <1>1, <2>1, <2>2
<1> DEFINE m == Succ(K, n)
<1>6. m[1] = n[1] /\ m[2] = "ret"
  BY <1>1 DEF Succ, NextRole
<1> HIDE DEF m
<1>7. GoodAt(K, regs', mem', m)
  BY <1>4, <1>5, <1>6 DEF GoodAt, x
<1> QED  BY <1>5, <1>7 DEF Moves, m

\* A branch that is not taken.
LEMMA BnezMoves ==
    ASSUME NEW K, NEW n, Standing(K, n), n[2] = "bnez", regs[Here.rd] = 0,
           UNCHANGED <<regs, mem>>
    PROVE  Moves(K, n)
<1> DEFINE ins == InsAt(K.f, n[1])
           x == Holds(K, mem, ins.args[1])
<1>1. /\ n[1] # Opening /\ IsUnit(K) /\ Machine(regs, mem)
      /\ regs[SP] = StackTop - K.sz /\ regs[RegX(ins)] = x
  BY NodeOps DEF Standing, GoodAt
<1>2. Here.rd = RegX(ins)
  BY DEF Standing, InstrOf, AsmOf
<1> DEFINE m == Succ(K, n)
<1>3. m[1] = n[1] /\ m[2] = "else"
  BY <1>1 DEF Succ, NextRole
<1> HIDE DEF m
<1>4. GoodAt(K, regs', mem', m)
  BY <1>1, <1>2, <1>3 DEF GoodAt
<1> QED  BY <1>1, <1>4 DEF Moves, m

\* Every instruction but a jump or a return goes on with the next node.
Falls == \/ Compute \/ LoadWord \/ StoreWord
         \/ BranchNotZero /\ regs[Here.rd] = 0
LEMMA NodeMoves ==
    ASSUME NEW K, NEW n, Standing(K, n), Falls, IsNode(K, Succ(K, n))
    PROVE  Moves(K, n) /\ n[2] \notin {"else", "jump", "ret"}
<1>1. IsUnit(K) /\ IsNode(K, n) /\ Here = InstrOf(K, n)
  BY DEF Standing
<1>2. CASE Compute
  <2>1. Here.op \in ComputeOps
    BY <1>2 DEF Compute, At, ComputeOps
  <2>2. n[2] \in {"size", "take", "x", "y", "do", "fix", "result", "free"}
    BY <1>1, <2>1, NodeOps DEF Roles, ComputeOps
  <2> QED  BY <1>2, <2>2, SizeMoves, TakeMoves, XMoves, YMoves, DoMoves,
              FixMoves, ResultMoves, FreeMoves
<1>3. CASE LoadWord
  <2>1. Here.op = "lw"
    BY <1>3 DEF LoadWord, At
  <2>2. n[2] \in {"x", "y", "result"}
    BY <1>1, <2>1, NodeOps DEF Roles, ComputeOps
  <2> QED  BY <1>3, <2>2, XMoves, YMoves, ResultMoves
<1>4. CASE StoreWord
  <2>1. Here.op = "sw"
    BY <1>4 DEF StoreWord, At
  <2>2. n[2] = "put"
    BY <1>1, <2>1, NodeOps DEF Roles, ComputeOps
  <2> QED  BY <1>4, <2>2, PutMoves
<1>5. CASE BranchNotZero /\ regs[Here.rd] = 0
  <2>1. Here.op = "bnez"
    BY <1>5 DEF BranchNotZero, At
  <2>2. n[2] = "bnez"
    BY <1>1, <2>1, NodeOps DEF Roles, ComputeOps
  <2> QED  BY <1>5, <2>2, BnezMoves DEF BranchNotZero
<1> QED  BY <1>2, <1>3, <1>4, <1>5 DEF Falls

-----------------------------------------------------------------------------
(* Where the program counter stands: at the code of a node, in the path of    *)
(* its basic block.                                                           *)

Stands(q, n) ==
    /\ q = <<q[1], q[2]>> /\ q[1] \in DOMAIN bbs
    /\ q[2] \in 1..Len(bbs[q[1]].instrs)
    /\ \E N : /\ Path(Unit, bbs[q[1]].instrs, Entry(q[1]), Reached(q[1]), N)
              /\ N[q[2]] = n

\* All that is known of the code of a function that is complete.
Whole == GenTyped /\ FrameLaid /\ Labelled /\ CodeLaid
         /\ phase \in {"done", "run", "stray", "rejected"}

LEMMA StandsIs ==
    ASSUME NEW n, Stands(pc, n)
    PROVE  IsNode(Unit, n) /\ Here = InstrOf(Unit, n)
<1>1. PICK N : Path(Unit, bbs[pc[1]].instrs, Entry(pc[1]), Reached(pc[1]), N)
               /\ N[pc[2]] = n
  BY DEF Stands
<1>2. pc[2] \in 1..Len(bbs[pc[1]].instrs)
  BY DEF Stands
<1> QED  BY <1>1, <1>2 DEF Path, Here

LEMMA StandsStays ==
    ASSUME NEW q, NEW n, Stands(q, n), UNCHANGED <<func, offset, stackSz, bbs>>,
           phase # "code", phase' # "code"
    PROVE  Stands(q, n)'
<1>1. Unit' = Unit /\ \A c : EndOf(c)' = EndOf(c)
  BY SameUnit
<1>2. \A b : Entry(b)' = Entry(b) /\ Reached(b)' = Reached(b)
  BY <1>1 DEF Entry, Reached, UpTo
<1> QED  BY <1>1, <1>2 DEF Stands

\* The nodes a block begins and ends with.
LEMMA EndIs ==
    ASSUME Whole, NEW c \in DOMAIN func.blocks, func.blocks[c] # <<>>
    PROVE  /\ Start(Unit, c, EndOf(c))[1] = <<c, EndOf(c)>>
           /\ \A i \in 1..Len(func.blocks[c]) :
                 /\ Start(Unit, c, i)[1] = <<c, Start(Unit, c, i)[1][2]>>
                 /\ Start(Unit, c, i)[1][2] \in i..Len(func.blocks[c])
           /\ EndOf(c) = Len(func.blocks[c]) + 1
           /\ Len(func.blocks[c]) \in Nat \ {0}
           /\ func.blocks[c][Len(func.blocks[c])].op \in {"br", "jump", "ret"}
<1> DEFINE body == func.blocks[c]
           n == Len(body)
<1>1. func \in Functions /\ Runnable(func) /\ Unit.f = func
  BY RunnableAssumption DEF Whole, FrameLaid, Unit
<1>2. n \in Nat /\ n # 0
  <2>1. body \in Seq(IRInstrs(func))
    BY <1>1, FunctionsAssumption
  <2> QED  BY <2>1
<1>3. body[n].op \in {"br", "jump", "ret"}
  BY <1>1 DEF Runnable
<1>4. \A i : Start(Unit, c, i)[1] = SkipAllocs(func, c, i)
  BY <1>1 DEF Start
<1>5. \A i \in Nat : i > 0 =>
         LET j == SkipAllocs(func, c, i)[2]
         IN  /\ SkipAllocs(func, c, i) = <<c, j>> /\ j \in Nat
             /\ i <= n + 1 => i <= j /\ j <= n + 1
             /\ i > n => j = n + 1
             /\ i <= n /\ body[n].op # "alloc" => j <= n
  BY <1>1, SkipIs
<1> HIDE DEF n, body
<1>6. SkipAllocs(func, c, n + 1) = <<c, n + 1>>
  BY <1>2, <1>5
<1>7. \A i \in 1..n : /\ SkipAllocs(func, c, i) = <<c, SkipAllocs(func, c, i)[2]>>
                      /\ SkipAllocs(func, c, i)[2] \in i..n
  <2> TAKE i \in 1..n
  <2>1. i \in Nat /\ i > 0 /\ i <= n
    BY <1>2
  <2>2. LET j == SkipAllocs(func, c, i)[2]
        IN  /\ SkipAllocs(func, c, i) = <<c, j>> /\ j \in Nat
            /\ i <= j /\ j <= n
    <3>1. body[n].op # "alloc"
      BY <1>3
    <3> QED  BY <1>2, <1>5, <2>1, <3>1
  <2> QED  BY <1>2, <2>1, <2>2
<1>8. EndOf(c) = n + 1
  BY DEF EndOf, n, body
<1>9. /\ Start(Unit, c, EndOf(c))[1] = <<c, EndOf(c)>>
      /\ \A i \in 1..n : /\ Start(Unit, c, i)[1] = <<c, Start(Unit, c, i)[1][2]>>
                         /\ Start(Unit, c, i)[1][2] \in i..n
  BY <1>4, <1>6, <1>7, <1>8
<1> QED  BY <1>2, <1>3, <1>8, <1>9 DEF n, body

\* A basic block for a block of the IR begins with that block's first node.
LEMMA BlockEntered ==
    ASSUME Whole, NEW b \in DOMAIN bbs, b # 1
    PROVE  LET c == bbs[b].label
           IN  /\ c \in DOMAIN func.blocks /\ func.blocks[c] # <<>>
               /\ Reached(b) = Start(Unit, c, EndOf(c))
               /\ Stands(<<b, 1>>, Start(Unit, c, 1))
<1> DEFINE c == bbs[b].label
           code == bbs[b].instrs
<1>1. c \in DOMAIN func.blocks /\ Begun(c)
  BY DEF Whole, CodeLaid
<1>2. func.blocks[c] # <<>>
  BY <1>1 DEF Begun
<1>3. Reached(b) = Start(Unit, c, EndOf(c)) /\ Entry(b) = Start(Unit, c, 1)
  BY DEF Reached, UpTo, Entry, Whole
<1>4. Goes(Unit, code, Entry(b), Reached(b))
  BY DEF Whole, CodeLaid
<1>5. PICK N : Path(Unit, code, Entry(b), Reached(b), N)
  BY <1>4 DEF Goes
<1>6. PICK S : code \in Seq(S)
  BY <1>4 DEF Goes
<1>7. Entry(b) # Reached(b)
  <2>1. /\ Start(Unit, c, EndOf(c))[1] = <<c, EndOf(c)>>
        /\ Start(Unit, c, 1)[1][2] \in 1..Len(func.blocks[c])
        /\ EndOf(c) = Len(func.blocks[c]) + 1
        /\ Len(func.blocks[c]) \in Nat
    BY <1>1, <1>2, EndIs
  <2>2. Start(Unit, c, EndOf(c))[1][2] = EndOf(c)
    BY <2>1
  <2>3. Start(Unit, c, 1)[1][2] # EndOf(c)
    BY <2>1
  <2> QED  BY <1>3, <2>2, <2>3
<1>8. Len(code) # 0
  BY <1>5, <1>7 DEF Path
<1>9. 1 \in 1..Len(code) /\ N[1] = Start(Unit, c, 1)
  <2>1. Len(code) \in Nat
    BY <1>6
  <2> QED  BY <1>3, <1>5, <1>8, <2>1 DEF Path
<1>10. Stands(<<b, 1>>, Start(Unit, c, 1))
  BY <1>5, <1>9 DEF Stands
<1> QED  BY <1>1, <1>2, <1>3, <1>10

\* Behind the last instruction of a block there is no more to do: it is a jump
\* or a return. So code goes on behind a basic block from the prologue only.
LEMMA LastLeaves ==
    ASSUME Whole, NEW n, IsNode(Unit, n), NEW c \in DOMAIN func.blocks,
           func.blocks[c] # <<>>, Succ(Unit, n) = Start(Unit, c, EndOf(c))
    PROVE  n[2] \in {"else", "jump", "ret"}
<1> DEFINE p == n[1]
           r == n[2]
           ins == InsAt(func, p)
           k == Len(func.blocks[c])
<1>1. func \in Functions /\ Unit.f = func /\ IsUnit(Unit)
  BY LaidUnit DEF Whole, FrameLaid, Unit
<1>2. Succ(Unit, n)[1] = <<c, EndOf(c)>> /\ EndOf(c) = k + 1 /\ k \in Nat \ {0}
      /\ func.blocks[c][k].op \in {"br", "jump", "ret"}
  BY EndIs
<1>3. n[1] # Opening
  <2> SUFFICES ASSUME n[1] = Opening PROVE FALSE
    OBVIOUS
  <2>1. Succ(Unit, n) # <<Opening, "take">>
    <3>1. Succ(Unit, n)[1][2] = EndOf(c) /\ EndOf(c) # 0
      BY <1>2
    <3>2. <<Opening, "take">>[1][2] = 0
      BY DEF Opening
    <3> QED  BY <3>1, <3>2
  <2>2. Opening[1] = 1 /\ Opening[2] + 1 = 1
    BY DEF Opening
  <2>3. Succ(Unit, n) = Start(Unit, 1, 1)
    BY <2>1, <2>2 DEF Succ
  <2>4. 1 \in DOMAIN func.blocks /\ func.blocks[1] # <<>>
    BY BlockNumbers DEF Whole
  <2>5. /\ Start(Unit, 1, 1)[1] = <<1, Start(Unit, 1, 1)[1][2]>>
        /\ Start(Unit, 1, 1)[1][2] \in 1..Len(func.blocks[1])
        /\ Len(func.blocks[1]) \in Nat \ {0}
    <3>1. Len(func.blocks[1]) \in Nat \ {0}
      BY <2>4, EndIs
    <3>2. 1 \in 1..Len(func.blocks[1])
      BY <3>1
    <3> QED  BY <2>4, <3>1, <3>2, EndIs
  <2>6. c = 1 /\ Start(Unit, 1, 1)[1][2] = EndOf(c)
    BY <1>2, <2>3, <2>5
  <2> QED  BY <1>2, <2>5, <2>6
<1>4. p \in Places(func) /\ r \in RolesOf(ins)
  BY <1>1, <1>3, NodeOf
<1>5. /\ p = <<p[1], p[2]>> /\ p[1] \in DOMAIN func.blocks
      /\ p[2] \in DOMAIN func.blocks[p[1]]
  BY <1>1, <1>4, PlacesTyped
<1>6. p[2] \in 1..Len(func.blocks[p[1]]) /\ Len(func.blocks[p[1]]) \in Nat
  <2>1. func.blocks[p[1]] \in Seq(IRInstrs(func))
    BY <1>1, <1>5, FunctionsAssumption
  <2> QED  BY <1>5, <2>1
<1>7. Succ(Unit, n) = Start(Unit, p[1], p[2] + 1)
      /\ NextRole(stackSz, ins, r) = "end"
  <2>1. CASE NextRole(stackSz, ins, r) = "end"
    BY <1>1, <1>3, <2>1 DEF Succ, Unit
  <2>2. CASE NextRole(stackSz, ins, r) # "end"
    <3>1. Succ(Unit, n)[1] = p
      BY <1>1, <1>3, <2>2 DEF Succ, Unit
    <3>2. p[1] = c /\ p[2] = k + 1
      BY <1>2, <1>5, <3>1
    <3> QED  BY <1>2, <1>6, <3>2
  <2> QED  BY <2>1, <2>2
<1>8. p[1] = c /\ p[2] = k
  <2>1. CASE p[2] = Len(func.blocks[p[1]])
    <3>1. func.blocks[p[1]] # <<>>
      BY <1>6, <2>1
    <3>2. Start(Unit, p[1], EndOf(p[1]))[1] = <<p[1], EndOf(p[1])>>
          /\ EndOf(p[1]) = p[2] + 1
      BY <1>5, <2>1, <3>1, EndIs
    <3> QED  BY <1>2, <1>7, <2>1, <3>2
  <2>2. CASE p[2] # Len(func.blocks[p[1]])
    <3>1. func.blocks[p[1]] # <<>> /\ p[2] + 1 \in 1..Len(func.blocks[p[1]])
      BY <1>6, <2>2
    <3>2. /\ Start(Unit, p[1], p[2] + 1)[1]
               = <<p[1], Start(Unit, p[1], p[2] + 1)[1][2]>>
          /\ Start(Unit, p[1], p[2] + 1)[1][2]
               \in p[2] + 1 .. Len(func.blocks[p[1]])
      BY <1>5, <3>1, EndIs
    <3>3. p[1] = c /\ Start(Unit, p[1], p[2] + 1)[1][2] = k + 1
      BY <1>2, <1>7, <3>2
    <3> QED  BY <1>2, <1>6, <3>2, <3>3
  <2> QED  BY <2>1, <2>2
<1>9. ins.op \in {"br", "jump", "ret"}
  BY <1>2, <1>8 DEF InsAt
<1>10. r \in {"x", "bnez", "else", "jump", "result", "free", "ret"}
  BY <1>4, <1>9 DEF RolesOf, BinaryOps
<1> HIDE DEF r, ins
<1>11. r \notin {"x", "bnez", "result", "free"}
  BY <1>7, <1>9 DEF NextRole, AfterX
<1> QED  BY <1>10, <1>11 DEF r

LEMMA NextStands ==
    ASSUME Whole, NEW n, Stands(pc, n), n[2] \notin {"else", "jump", "ret"}
    PROVE  Stands(Following, Succ(Unit, n))
<1> DEFINE b == pc[1]
           i == pc[2]
           code == bbs[b].instrs
<1>1. PICK N : Path(Unit, code, Entry(b), Reached(b), N) /\ N[i] = n
  BY DEF Stands
<1>2. b \in DOMAIN bbs /\ i \in 1..Len(code)
  BY DEF Stands
<1>3. IsNode(Unit, n) /\ N[i + 1] = Succ(Unit, n)
  BY <1>1, <1>2 DEF Path
<1>4. Len(code) \in Nat /\ b \in Nat
  <2>1. Goes(Unit, code, Entry(b), Reached(b))
    BY <1>2 DEF Whole, CodeLaid
  <2>2. PICK S : code \in Seq(S)
    BY <2>1 DEF Goes
  <2>3. bbs \in Seq(BBs)
    BY DEF Whole, GenTyped
  <2> QED  BY <1>2, <2>2, <2>3
<1>5. CASE i < Len(code)
  <2>1. Following = <<b, i + 1>> /\ i + 1 \in 1..Len(code)
    BY <1>2, <1>4, <1>5 DEF Following
  <2> HIDE DEF b, i, code
  <2>2. Stands(<<b, i + 1>>, Succ(Unit, n))
    BY <1>1, <1>2, <1>3, <2>1 DEF Stands, code
  <2> QED  BY <2>1, <2>2
<1>6. CASE ~(i < Len(code))
  <2>1. i = Len(code) /\ Following = <<b + 1, 1>>
    BY <1>2, <1>4, <1>6 DEF Following
  <2>2. Succ(Unit, n) = Reached(b)
    BY <1>1, <1>3, <2>1 DEF Path
  <2>3. b = 1
    <3> SUFFICES ASSUME b # 1 PROVE FALSE
      OBVIOUS
    <3>1. /\ bbs[b].label \in DOMAIN func.blocks
          /\ func.blocks[bbs[b].label] # <<>>
          /\ Reached(b) = Start(Unit, bbs[b].label, EndOf(bbs[b].label))
      BY <1>2, BlockEntered
    <3> QED  BY <1>3, <2>2, <3>1, LastLeaves
  <2>4. Begun(1) /\ phase \notin {"prologue", "abort"}
    BY BlockNumbers DEF Whole, Begun
  <2>5. 2 \in DOMAIN bbs /\ bbs[2].label = 1
    BY <2>4 DEF Whole, CodeLaid
  <2>6. Stands(<<2, 1>>, Start(Unit, 1, 1))
    BY <2>5, BlockEntered
  <2>7. Following = <<2, 1>>
    BY <2>1, <2>3
  <2>8. Succ(Unit, n) = Start(Unit, 1, 1)
    BY <2>2, <2>3 DEF Reached
  <2> QED  BY <2>6, <2>7, <2>8
<1> QED  BY <1>5, <1>6

LEMMA JumpStands ==
    ASSUME Whole, NEW c \in DOMAIN func.blocks, c \in Labels
    PROVE  Stands(Reach(c), Start(Unit, c, 1))
<1>1. PICK b \in DOMAIN bbs : bbs[b].label = c
  BY DEF Labels
<1>2. b # 1
  <2>1. func.label \notin DOMAIN func.blocks
    BY BlockNumbers DEF Whole
  <2> QED  BY <1>1, <2>1 DEF Whole, CodeLaid
<1>3. Stands(<<b, 1>>, Start(Unit, c, 1))
  BY <1>1, <1>2, BlockEntered
<1>4. \A i \in DOMAIN bbs : bbs[i].label = c => i = b
  BY <1>1 DEF Whole, Labelled, LabelsApart
<1>5. IndexOf(bbs, c) = b
  BY <1>1, <1>4 DEF IndexOf
<1> QED  BY <1>3, <1>5 DEF Reach

\* The first instruction of the code takes the stack.
LEMMA OpeningStands ==
    ASSUME Whole
    PROVE  Stands(<<1, 1>>, Entry(1))
<1>1. /\ 1 \in DOMAIN bbs
      /\ Goes(Unit, bbs[1].instrs, Entry(1), Reached(1))
  BY DEF Whole, CodeLaid
<1>2. PICK N : Path(Unit, bbs[1].instrs, Entry(1), Reached(1), N)
  BY <1>1 DEF Goes
<1>3. PICK S : bbs[1].instrs \in Seq(S)
  BY <1>1 DEF Goes
<1>4. Entry(1)[1] = Opening
  BY DEF Entry
<1>5. Reached(1)[1] # Opening
  <2>1. 1 \in DOMAIN func.blocks /\ func.blocks[1] # <<>>
    BY BlockNumbers DEF Whole
  <2>2. Len(func.blocks[1]) \in Nat \ {0}
    BY <2>1, EndIs
  <2>3. 1 \in 1..Len(func.blocks[1])
    BY <2>2
  <2>4. Start(Unit, 1, 1)[1][2] \in 1..Len(func.blocks[1])
    BY <2>1, <2>3, EndIs
  <2>5. Opening[2] = 0
    BY DEF Opening
  <2> QED  BY <2>4, <2>5 DEF Reached
<1>6. Len(bbs[1].instrs) # 0
  BY <1>2, <1>4, <1>5 DEF Path
<1>7. 1 \in 1..Len(bbs[1].instrs) /\ N[1] = Entry(1)
  <2>1. Len(bbs[1].instrs) \in Nat
    BY <1>3
  <2> QED  BY <1>2, <1>6, <2>1 DEF Path
<1> QED  BY <1>1, <1>2, <1>7 DEF Stands

-----------------------------------------------------------------------------
(* The inductive invariant. While the code runs the counter stands at a node, *)
(* and what that node relies on holds.                                        *)

\* Why the assembler refused the code.
Refusal ==
    \/ stackSz >= ImmLimit
    \/ \E b \in DOMAIN func.blocks : \E i \in DOMAIN func.blocks[b] :
          LET ins == func.blocks[b][i]
          IN \/ /\ ins.op \in DOMAIN ImmOp /\ ins.args[2].k = "num"
                /\ ~Fits(ins.args[2].n)
             \/ \E n \in DOMAIN ins.to : func.blocks[ins.to[n]] = <<>>

Running == \E q, n :
    /\ q = pc /\ Stands(q, n) /\ GoodAt(Unit, regs, mem, n)
    /\ out # <<>> => n[2] = "ret"
Unrun ==
    /\ pc = <<1, 1>> /\ out = <<>> /\ regs[SP] = StackTop
    /\ mem = [a \in Cells |-> 0]
Fresh == curBB = 0 /\ stackSz = 0 /\ \A s \in DOMAIN offset : offset[s] = NoOffset

RunInv ==
    /\ GenTyped /\ FrameLaid /\ Labelled /\ CodeLaid
    /\ phase \in {"prologue", "code", "done", "abort", "run", "rejected", "stray"}
    /\ phase = "prologue" => Fresh
    /\ Machine(regs, mem)
    /\ out = <<>> \/ \E w \in Word : out = <<w>>
    /\ phase \notin {"run", "stray"} => Unrun
    /\ phase = "run" => Defined /\ Running
    /\ phase = "stray" => Slotted # Occurring /\ out = <<>>
    /\ phase = "rejected" => Refusal

LEMMA RunInvInit == RunInit => RunInv
<1> SUFFICES ASSUME RunInit PROVE RunInv
  OBVIOUS
<1>1. /\ Init /\ phase = "prologue" /\ pc = <<1, 1>> /\ out = <<>>
      /\ regs = [r \in Regs |-> IF r = SP THEN StackTop ELSE 0]
      /\ mem = [a \in Cells |-> 0]
  BY DEF RunInit, Init, Regs, Cells
<1>2. GenTyped /\ FrameLaid /\ Labelled
  BY <1>1, GenTypedInit, FrameLaidInit, LabelledInit
<1>3. CodeLaid
  BY <1>1 DEF CodeLaid
<1>4. Fresh
  BY <1>1 DEF Init, Fresh
<1>5. regs \in [Regs -> Word] /\ regs[X0] = 0 /\ regs[SP] = StackTop
  BY <1>1, WordFacts, RegsDiffer
<1>6. mem \in [Cells -> Word]
  BY <1>1, WordFacts
<1> QED  BY <1>1, <1>2, <1>3, <1>4, <1>5, <1>6 DEF RunInv, Machine, Unrun

LEMMA GenPhases ==
    ASSUME GenNext
    PROVE  phase \in {"prologue", "code"} /\ phase' \in {"code", "done", "abort"}
BY DEF GenNext, Prologue, EnterBlock, LeaveBlock, VisitAlloc, VisitRet, VisitStore,
       VisitLoad, VisitBExpr, VisitBr, VisitJump, AtInstr, Emit, AssertFails

LEMMA GenerateKeeps ==
    ASSUME RunInv, Generate
    PROVE  RunInv'
<1>1. /\ GenNext /\ UNCHANGED <<regs, mem, pc, out>>
      /\ phase \in {"prologue", "code"} /\ phase' \in {"code", "done", "abort"}
  BY GenPhases DEF Generate, machine
<1>2. GenTyped' /\ FrameLaid' /\ Labelled' /\ CodeLaid'
  BY <1>1, GenTypedStep, FrameLaidStep, LabelledStep, LaidStep DEF RunInv
<1>3. Unrun' /\ Machine(regs', mem') /\ out' = <<>>
  BY <1>1 DEF RunInv, Unrun
<1> QED  BY <1>1, <1>2, <1>3 DEF RunInv

\* Complete code stays as it is.
LEMMA WholeStays ==
    ASSUME Whole, phase' \in {"done", "run", "stray", "rejected"},
           UNCHANGED <<func, todo, offset, stackSz, bbs, curBB, tmpVarCount>>
    PROVE  Whole' /\ Unit' = Unit
<1>1. Unit' = Unit /\ \A c : EndOf(c)' = EndOf(c)
  BY SameUnit
<1>2. GenTyped' /\ FrameLaid' /\ Labelled'
  BY DEF Whole, GenTyped, FrameLaid, Labelled, LabelsApart, CodeLabelled,
         LabelFor, Placed, Body, Names
<1>3. \A b : Entry(b)' = Entry(b) /\ Reached(b)' = Reached(b)
  BY <1>1 DEF Entry, Reached, UpTo, Whole
<1>4. \A c : Begun(c)' <=> Begun(c)
  BY DEF Begun, Whole
<1>5. CodeLaid'
  BY <1>1, <1>3, <1>4 DEF CodeLaid, Whole
<1> QED  BY <1>1, <1>2, <1>5 DEF Whole

LEMMA RunInvWhole ==
    ASSUME RunInv, phase \in {"done", "run", "stray", "rejected"}
    PROVE  Whole /\ IsUnit(Unit) /\ Unit.f = func /\ Unit.sz = stackSz
           /\ Unit.off = offset
BY LaidUnit DEF RunInv, Whole, Unit

LEMMA AssembleKeeps ==
    ASSUME RunInv, Assemble
    PROVE  RunInv'
<1>1. /\ phase = "done" /\ phase' = IF Assembles THEN "run" ELSE "rejected"
      /\ UNCHANGED <<func, todo, offset, stackSz, bbs, curBB, tmpVarCount>>
      /\ UNCHANGED <<regs, mem, pc, out>>
  BY DEF Assemble, machine
<1>2. Whole /\ Whole' /\ Unit' = Unit /\ Unrun /\ Machine(regs, mem)
      /\ phase' \in {"run", "rejected"}
  BY <1>1, RunInvWhole, WholeStays DEF RunInv
<1>3. GenTyped' /\ FrameLaid' /\ Labelled' /\ CodeLaid' /\ Unrun'
      /\ Machine(regs', mem') /\ out' = <<>>
  BY <1>1, <1>2 DEF Whole, Unrun
<1>4. phase' = "run" => Defined'
  BY <1>1 DEF Assembles, Defined, Code, Labels
<1>5. phase' = "rejected" => Refusal'
  <2>1. phase' = "rejected" => Refusal
    BY <1>1, <1>2, RefusedFor DEF Refusal, Whole
  <2> QED  BY <1>1, <2>1 DEF Refusal
<1>6. phase' = "run" => Running'
  <2>1. Stands(<<1, 1>>, Entry(1))
    BY <1>2, OpeningStands
  <2>2. PICK q, n : q = <<1, 1>> /\ n = Entry(1) /\ Stands(q, n)
    BY <2>1
  <2>3. n = <<Opening, IF stackSz > ImmLimit THEN "size" ELSE "take">>
    BY <2>2 DEF Entry
  <2>4. GoodAt(Unit, regs, mem, n)
    <3>1. n[2] = IF Unit.sz > ImmLimit THEN "size" ELSE "take"
      BY <2>3 DEF Unit
    <3>2. regs[SP] = StackTop
      BY <1>2 DEF Unrun
    <3> QED  BY <3>1, <3>2 DEF GoodAt
  <2>5. q = pc'
    BY <1>1, <1>2, <2>2 DEF Unrun
  <2>6. Stands(q, n)'
    BY <1>1, <1>2, <2>2, StandsStays
  <2> QED  BY <1>1, <1>2, <1>3, <2>4, <2>5, <2>6 DEF Running
<1> QED  BY <1>1, <1>2, <1>3, <1>4, <1>5, <1>6 DEF RunInv

-----------------------------------------------------------------------------
(* A step of the code.                                                        *)

LEMMA RunningStands ==
    ASSUME RunInv, phase = "run"
    PROVE  \E n : /\ Stands(pc, n) /\ Standing(Unit, n)
                  /\ out # <<>> => n[2] = "ret"
<1>1. PICK q, n : /\ q = pc /\ Stands(q, n) /\ GoodAt(Unit, regs, mem, n)
                  /\ out # <<>> => n[2] = "ret"
  BY DEF RunInv, Running
<1>2. Stands(pc, n)
  BY <1>1
<1>3. IsNode(Unit, n) /\ Here = InstrOf(Unit, n)
  BY <1>2, StandsIs
<1> QED  BY <1>1, <1>2, <1>3, RunInvWhole DEF Standing, RunInv

LEMMA StandsNode ==
    ASSUME NEW q, NEW n, Stands(q, n)
    PROVE  IsNode(Unit, n)
BY DEF Stands, Path

LEMMA FallsOn ==
    ASSUME NEW K, NEW n, Standing(K, n), Falls
    PROVE  n[2] \notin {"else", "jump", "ret"}
<1>1. Here.op \notin {"j", "ret"}
  BY DEF Falls, Compute, LoadWord, StoreWord, BranchNotZero, At
<1> QED  BY <1>1, NodeOps DEF Standing

\* A step that leaves the code alone and comes to stand at a node.
LEMMA StepKeeps ==
    ASSUME RunInv, phase = "run", UNCHANGED genVars, NEW n, Stands(pc', n),
           GoodAt(Unit, regs', mem', n), Machine(regs', mem'),
           out' = <<>> \/ \E w \in Word : out' = <<w>>,
           out' # <<>> => n[2] = "ret"
    PROVE  RunInv'
<1>1. /\ UNCHANGED <<func, todo, offset, stackSz, bbs, curBB, tmpVarCount>>
      /\ phase' = "run"
  BY DEF genVars
<1>2. Whole /\ Whole' /\ Unit' = Unit
  BY <1>1, RunInvWhole, WholeStays
<1>3. Defined'
  BY <1>1 DEF RunInv, Defined, Code, Labels
<1>4. PICK q : q = pc'
  OBVIOUS
<1>5. Stands(q, n)
  BY <1>4
<1>6. Stands(q, n)'
  BY <1>1, <1>5, StandsStays
<1>7. Running'
  BY <1>2, <1>4, <1>6 DEF Running
<1> QED  BY <1>1, <1>2, <1>3, <1>7 DEF RunInv, Whole

LEMMA FallsKeeps ==
    ASSUME RunInv, Falls
    PROVE  RunInv'
<1>1. /\ phase = "run" /\ UNCHANGED genVars /\ out' = <<>>
      /\ pc' = Following
  BY DEF Falls, Compute, LoadWord, StoreWord, BranchNotZero, At
<1>2. PICK n : Stands(pc, n) /\ Standing(Unit, n)
  BY <1>1, RunningStands
<1>3. n[2] \notin {"else", "jump", "ret"}
  BY <1>2, FallsOn
<1>4. Stands(Following, Succ(Unit, n))
  BY <1>1, <1>2, <1>3, RunInvWhole, NextStands
<1>5. IsNode(Unit, Succ(Unit, n))
  BY <1>4, StandsNode
<1>6. Moves(Unit, n)
  BY <1>2, <1>5, NodeMoves
<1> DEFINE m == Succ(Unit, n)
<1>7. Stands(pc', m) /\ Machine(regs', mem') /\ GoodAt(Unit, regs', mem', m)
  BY <1>1, <1>4, <1>6 DEF Moves
<1> HIDE DEF m
<1> QED  BY <1>1, <1>7, StepKeeps

Leaps == (BranchNotZero /\ regs[Here.rd] # 0) \/ JumpTo

\* A jump goes to the first node of its block.
LEMMA LeapsTo ==
    ASSUME RunInv, Leaps, NEW n, Stands(pc, n), Standing(Unit, n)
    PROVE  /\ n[1] \in Places(func) /\ n[2] \in {"bnez", "else", "jump"}
           /\ BranchNotZero => n[2] = "bnez"
           /\ JumpTo => n[2] \in {"else", "jump"}
           /\ Here.to \in DOMAIN func.blocks
           /\ pc' = Reach(Here.to)
           /\ Stands(Reach(Here.to), Start(Unit, Here.to, 1))
           /\ regs[SP] = StackTop - stackSz
<1>1. /\ phase = "run" /\ Here.op \in {"j", "bnez"} /\ pc' = Reach(Here.to)
      /\ BranchNotZero => Here.op = "bnez"
      /\ JumpTo => Here.op = "j"
  BY DEF Leaps, BranchNotZero, JumpTo, At
<1>2. Whole /\ IsUnit(Unit) /\ Unit.f = func /\ Unit.sz = stackSz
  BY <1>1, RunInvWhole
<1>3. IsNode(Unit, n) /\ Here = InstrOf(Unit, n)
  BY DEF Standing
<1>4. /\ n[1] \in Places(func) /\ n[2] \in {"bnez", "else", "jump"}
      /\ Here.to \in DOMAIN func.blocks
  BY <1>1, <1>2, <1>3, NodeTargets
<1>5. Here.to \in Labels
  <2>1. Here \in Code
    BY DEF Stands, Code, Here
  <2> QED  BY <1>1, <2>1 DEF RunInv, Defined
<1>6. Stands(Reach(Here.to), Start(Unit, Here.to, 1))
  BY <1>2, <1>4, <1>5, JumpStands
<1>7. regs[SP] = StackTop - stackSz
  BY <1>2, <1>4 DEF Standing, GoodAt
<1>8. /\ BranchNotZero => n[2] = "bnez"
      /\ JumpTo => n[2] \in {"else", "jump"}
  BY <1>1, <1>2, <1>3, <1>4, NodeOps
<1> QED  BY <1>1, <1>4, <1>6, <1>7, <1>8

LEMMA LeapsKeeps ==
    ASSUME RunInv, Leaps
    PROVE  RunInv'
<1>1. /\ phase = "run" /\ UNCHANGED genVars /\ UNCHANGED <<regs, mem>>
      /\ out' = <<>>
  BY DEF Leaps, BranchNotZero, JumpTo, At
<1>2. PICK n : Stands(pc, n) /\ Standing(Unit, n)
  BY <1>1, RunningStands
<1> DEFINE m == Start(Unit, Here.to, 1)
<1>3. pc' = Reach(Here.to) /\ Stands(Reach(Here.to), m)
      /\ regs[SP] = StackTop - stackSz
  BY <1>2, LeapsTo
<1>4. IsNode(Unit, m) /\ IsUnit(Unit) /\ Unit.sz = stackSz
  BY <1>1, <1>3, StandsNode, RunInvWhole
<1>5. Machine(regs', mem') /\ GoodAt(Unit, regs', mem', m)
  <2>1. regs' = regs /\ mem' = mem /\ Machine(regs, mem)
    BY <1>1 DEF RunInv
  <2>2. regs[X0] = 0
    BY <2>1 DEF Machine
  <2>3. GoodAt(Unit, regs, mem, m)
    BY <1>3, <1>4, <2>2, StartGood
  <2> QED  BY <2>1, <2>3
<1>6. Stands(pc', m)
  BY <1>3
<1> HIDE DEF m
<1> QED  BY <1>1, <1>5, <1>6, StepKeeps

LEMMA ReturnKeeps ==
    ASSUME RunInv, Return
    PROVE  RunInv'
<1>1. /\ phase = "run" /\ UNCHANGED genVars /\ UNCHANGED <<regs, mem, pc>>
      /\ out' = <<regs[A0]>> /\ Here.op = "ret"
  BY DEF Return, At
<1>2. PICK n : Stands(pc, n) /\ Standing(Unit, n)
  BY <1>1, RunningStands
<1>3. n[2] = "ret"
  BY <1>1, <1>2, NodeOps DEF Standing, Roles, ComputeOps
<1>4. regs[A0] \in Word
  BY RegsDiffer DEF RunInv, Machine
<1>5. Stands(pc', n) /\ Machine(regs', mem') /\ GoodAt(Unit, regs', mem', n)
  BY <1>1, <1>2 DEF Standing
<1> QED  BY <1>1, <1>3, <1>4, <1>5, StepKeeps

LEMMA StrayKeeps ==
    ASSUME RunInv, Stray
    PROVE  RunInv'
<1>1. /\ phase = "run" /\ phase' = "stray" /\ out = <<>>
      /\ UNCHANGED <<func, todo, offset, stackSz, bbs, curBB, tmpVarCount>>
      /\ UNCHANGED <<regs, mem, pc, out>>
      /\ Here.op \in {"lw", "sw"} /\ Address \notin DOMAIN mem
  BY DEF Stray, At, machine
<1>2. PICK n : Standing(Unit, n)
  BY <1>1, RunningStands
<1>3. /\ IsUnit(Unit) /\ Unit.f = func /\ Unit.off = offset
      /\ Whole /\ Whole'
  BY <1>1, RunInvWhole, WholeStays
<1>4. PICK s : Known(Unit, s) /\ Address = Slot(Unit, s)
  BY <1>1, <1>2, Accesses
<1>5. DOMAIN mem = Cells
  BY DEF RunInv, Machine
<1>6. offset[s] = NoOffset
  BY <1>1, <1>3, <1>4, <1>5, SlotIs DEF Known
<1>7. s \in Occurring /\ s \notin Slotted
  BY <1>3, <1>4, <1>6 DEF Known, DefinedIn, Occurring, Slotted
<1>8. Slotted' # Occurring'
  <2>1. Slotted' = Slotted /\ Occurring' = Occurring
    BY <1>1 DEF Slotted, Occurring
  <2> QED  BY <1>7, <2>1
<1>9. Machine(regs', mem')
  BY <1>1 DEF RunInv
<1> QED  BY <1>1, <1>3, <1>8, <1>9 DEF RunInv, Whole

LEMMA RunInvStep ==
    ASSUME RunInv, [Next]_vars
    PROVE  RunInv'
<1>1. CASE Generate
  BY <1>1, GenerateKeeps
<1>2. CASE Assemble
  BY <1>2, AssembleKeeps
<1>3. CASE Stray
  BY <1>3, StrayKeeps
<1>4. CASE Return
  BY <1>4, ReturnKeeps
<1>5. CASE Compute \/ LoadWord \/ StoreWord \/ BranchNotZero \/ JumpTo
  BY <1>5, FallsKeeps, LeapsKeeps DEF Falls, Leaps
<1>6. CASE UNCHANGED vars
  <2>1. /\ UNCHANGED <<func, phase, todo, offset, stackSz, bbs, curBB,
                       tmpVarCount>>
        /\ UNCHANGED <<regs, mem, pc, out>>
    BY <1>6 DEF vars
  <2>2. GenTyped' /\ FrameLaid' /\ Labelled'
    BY <2>1, GenTypedStep, FrameLaidStep, LabelledStep DEF RunInv, genVars
  <2>3. CodeLaid'
    <3>1. Unit' = Unit /\ \A c : EndOf(c)' = EndOf(c)
      BY <2>1, SameUnit
    <3>2. \A b : Entry(b)' = Entry(b) /\ Reached(b)' = Reached(b)
      BY <2>1, <3>1 DEF Entry, Reached, UpTo
    <3>3. \A c : Begun(c)' <=> Begun(c)
      BY <2>1 DEF Begun
    <3> QED  BY <2>1, <3>1, <3>2, <3>3 DEF CodeLaid, RunInv
  <2>4. Refusal => Refusal'
    BY <2>1 DEF Refusal
  <2>5. /\ Machine(regs', mem') /\ (Fresh => Fresh') /\ (Unrun => Unrun')
        /\ (Slotted # Occurring => Slotted' # Occurring')
        /\ (Defined => Defined')
    BY <2>1 DEF RunInv, Fresh, Unrun, Slotted, Occurring, Defined, Code, Labels
  <2>6. phase = "run" => Running'
    <3> SUFFICES ASSUME phase = "run" PROVE Running'
      OBVIOUS
    <3>1. PICK q, n : /\ q = pc /\ Stands(q, n) /\ GoodAt(Unit, regs, mem, n)
                      /\ out # <<>> => n[2] = "ret"
      BY DEF RunInv, Running
    <3>2. Unit' = Unit
      BY <2>1, SameUnit
    <3>3. Stands(q, n)'
      BY <2>1, <3>1, StandsStays
    <3> QED  BY <2>1, <3>1, <3>2, <3>3 DEF Running
  <2> QED  BY <2>1, <2>2, <2>3, <2>4, <2>5, <2>6 DEF RunInv
<1> QED  BY <1>1, <1>2, <1>3, <1>4, <1>5, <1>6 DEF Next, Run, Stop

LEMMA RunInvInvariant == Spec => []RunInv
<1>1. RunInv /\ [Next]_vars => RunInv'
  BY RunInvStep
<1> QED  BY <1>1, RunInvInit, PTL DEF Spec

-----------------------------------------------------------------------------
(* The results.                                                               *)

LEMMA RunInvTypes == RunInv => TypeOK
<1> SUFFICES ASSUME RunInv PROVE TypeOK
  OBVIOUS
<1>1. /\ GenTyped /\ FrameLaid /\ Machine(regs, mem)
      /\ phase = "prologue" => Fresh
      /\ out = <<>> \/ \E w \in Word : out = <<w>>
      /\ phase \in {"prologue", "code", "done", "abort", "run", "rejected",
                    "stray"}
  BY DEF RunInv
<1>2. phase # "prologue" => IsUnit(Unit)
  BY <1>1, LaidUnit
<1>3. stackSz \in Nat
  BY <1>1, <1>2, UnitIs DEF Unit, Fresh
<1>4. \A s \in DOMAIN offset : offset[s] \in {NoOffset} \cup Nat
  <2>1. phase # "prologue" =>
           \A s \in DOMAIN offset : IsOffset(Unit, offset[s])
    BY <1>1, <1>2, UnitIs DEF Unit, FrameLaid
  <2> QED  BY <1>1, <2>1 DEF IsOffset, Fresh
<1>5. curBB \in 0..Len(bbs)
  <2>1. bbs \in Seq(BBs)
    BY <1>1 DEF GenTyped
  <2>2. Len(bbs) \in Nat /\ DOMAIN bbs = 1..Len(bbs)
    BY <2>1
  <2> QED  BY <1>1, <2>2 DEF GenTyped, Fresh
<1>6. todo[1] \in DOMAIN func.blocks /\ \A r \in DOMAIN regs : regs[r] \in Word
  BY <1>1 DEF GenTyped, Machine
<1>7. Len(out) <= 1
  <2>1. Len(<<>>) = 0 /\ \A w : Len(<<w>>) = 1
    OBVIOUS
  <2>2. CASE out = <<>>
    BY <2>1, <2>2
  <2>3. CASE \E w \in Word : out = <<w>>
    <3>1. PICK w : out = <<w>>
      BY <2>3
    <3>2. Len(out) = 1
      BY <2>1, <3>1
    <3> QED  BY <3>2
  <2> QED  BY <1>1, <2>2, <2>3
<1> QED  BY <1>1, <1>3, <1>4, <1>5, <1>6, <1>7 DEF TypeOK

\* Registers hold words and offsets are not negative, in every run of every
\* function: no operation leaves the words, and none writes to x0.
THEOREM TypesAreKept == Spec => []TypeOK
BY RunInvInvariant, RunInvTypes, PTL

\* The assembler takes all code but that with a frame or a literal that is too
\* large for an immediate, or a branch to a block without code.
THEOREM RefusedForAReason == Spec => []RejectedFor
<1>1. RunInv => RejectedFor
  BY DEF RunInv, Refusal, RejectedFor
<1> QED  BY <1>1, RunInvInvariant, PTL

\* Whichever way a function is left, the stack pointer is where it was.
THEOREM StackIsBalanced == Spec => []StackBalanced
<1>1. RunInv => StackBalanced
  <2> SUFFICES ASSUME RunInv, out # <<>> PROVE regs[SP] = StackTop
    BY DEF StackBalanced
  <2>1. phase = "run"
    BY DEF RunInv, Unrun
  <2>2. PICK n : Standing(Unit, n) /\ n[2] = "ret"
    BY <2>1, RunningStands
  <2> QED  BY <2>2 DEF Standing, GoodAt
<1> QED  BY <1>1, RunInvInvariant, PTL

\* Every access of the code is to the slot of a symbol; only one without a slot
\* leads out of the frame.
THEOREM FrameIsKept == Spec => []StaysInFrame
<1>1. RunInv => StaysInFrame
  <2> SUFFICES ASSUME RunInv PROVE StaysInFrame
    OBVIOUS
  <2>1. phase = "stray" => Occurring # Slotted
    BY DEF RunInv
  <2>2. ASSUME phase = "run", Here.op \in {"lw", "sw"}
        PROVE  \/ Here.a = NoOffset
               \/ StackTop - stackSz <= Address /\ Address < StackTop
    <3>1. PICK n : Standing(Unit, n)
      BY <2>2, RunningStands
    <3>2. PICK s : Known(Unit, s) /\ Here.a = offset[s] /\ Address = Slot(Unit, s)
      BY <2>2, <3>1, Accesses DEF Unit
    <3>3. IsUnit(Unit) /\ Unit.sz = stackSz /\ Unit.off = offset
      BY <2>2, RunInvWhole
    <3> QED  BY <3>2, <3>3, SlotIs DEF Known
  <2> QED  BY <2>1, <2>2 DEF StaysInFrame
<1> QED  BY <1>1, RunInvInvariant, PTL

\* What GenASM guarantees of the code is true of it while it runs.
THEOREM CodeKeepsItsForm ==
    Spec => [](RegistersSuffice /\ SlotsDisjoint /\ BlocksApart)
<1>1. RunInv => RegistersSuffice /\ SlotsDisjoint /\ BlocksApart
  BY TypedHasRegisters, FrameLaidDisjoint, LabelledKeepsApart DEF RunInv
<1> QED  BY <1>1, RunInvInvariant, PTL

-----------------------------------------------------------------------------
(* The code implements the function. Each instruction of the IR takes effect  *)
(* when the last instruction of its code runs; the others change nothing.     *)

\* The store and the counter of the IR machine.
Env ==
    [s \in DOMAIN func.names |->
        IF phase \in {"run", "stray"} /\ s \in Slotted
        THEN mem[SlotAddress(s)] ELSE 0]
Point ==
    LET p == IF phase \in {"run", "stray"} THEN RunPoint ELSE <<1, 1>>
    IN  SkipAllocs(func, p[1], p[2])
Operand(v) == IF v.k = "num" THEN v.n ELSE Env[v.s]

\* The machine of the IR, read over this state.
LEMMA MachineIs ==
    /\ IRM!Init <=> func \in Functions /\ Env \in [DOMAIN func.names -> {0}]
                    /\ Point = SkipAllocs(func, 1, 1) /\ out = <<>>
    /\ IRM!irVars = <<func, Env, Point, out>>
    /\ IRM!Running <=> out = <<>> /\ Point[2] <= Len(func.blocks[Point[1]])
    /\ IRM!Ins = InsAt(func, Point)
    /\ \A v : IRM!Value(v) = Operand(v)
    /\ IRM!GoOn <=> Point' = SkipAllocs(func, Point[1], Point[2] + 1)
    /\ \A b : IRM!Goto(b) <=> Point' = SkipAllocs(func, b, 1)
<1>1. IRM!Init <=> func \in Functions /\ Env \in [DOMAIN func.names -> {0}]
                   /\ Point = SkipAllocs(func, 1, 1) /\ out = <<>>
  BY SameOperations DEF IRM!Init, Env, Point
<1>2. IRM!irVars = <<func, Env, Point, out>>
  BY DEF IRM!irVars, Env, Point
<1>3. /\ IRM!Running <=> out = <<>> /\ Point[2] <= Len(func.blocks[Point[1]])
      /\ IRM!Ins = InsAt(func, Point)
  BY DEF IRM!Running, IRM!Ins, Point, InsAt
<1>4. \A v : IRM!Value(v) = Operand(v)
  BY DEF IRM!Value, Operand, Env
<1>5. IRM!GoOn <=> Point' = SkipAllocs(func, Point[1], Point[2] + 1)
  BY SameOperations DEF IRM!GoOn, Point
<1>6. \A b : IRM!Goto(b) <=> Point' = SkipAllocs(func, b, 1)
  BY SameOperations DEF IRM!Goto, Point
<1> QED  BY <1>1, <1>2, <1>3, <1>4, <1>5, <1>6

\* The word a symbol holds, and the place of a node.
EnvOf(K, M) ==
    [s \in Names(K.f) |-> IF K.off[s] # NoOffset THEN M[Slot(K, s)] ELSE 0]
PointAt(K, n) == IF n[1] = Opening THEN SkipAllocs(K.f, 1, 1) ELSE n[1]

LEMMA EnvIs ==
    ASSUME IsUnit(Unit), phase \in {"run", "stray"}
    PROVE  /\ Env = EnvOf(Unit, mem)
           /\ phase' \in {"run", "stray"} /\ UNCHANGED <<func, offset, stackSz>>
                 => Env' = EnvOf(Unit, mem')
           /\ \A v : Usable(Unit, v) => Operand(v) = Holds(Unit, mem, v)
<1>1. \A s \in Names(func) : offset[s] # NoOffset => s \in Occurring
  BY UnitIs DEF Unit, DefinedIn, Occurring
<1>2. /\ Unit.f = func /\ Unit.off = offset /\ Unit.sz = stackSz
      /\ Names(func) = DOMAIN func.names
  BY DEF Unit, Names
<1>3. \A s \in Names(func) : s \in Slotted <=> offset[s] # NoOffset
  BY <1>1 DEF Slotted
<1>4. \A s : SlotAddress(s) = Slot(Unit, s)
  BY <1>2 DEF SlotAddress, Slot
<1>5. Env = EnvOf(Unit, mem)
  BY <1>2, <1>3, <1>4 DEF Env, EnvOf
<1>6. ASSUME phase' \in {"run", "stray"}, UNCHANGED <<func, offset, stackSz>>
      PROVE  Env' = EnvOf(Unit, mem')
  <2>1. \A s \in Names(func) : s \in Slotted' <=> offset[s] # NoOffset
    BY <1>3, <1>6 DEF Slotted, Occurring
  <2>3. Env' = [s \in DOMAIN func.names |->
                  IF s \in Slotted' THEN mem'[StackTop - stackSz + offset[s]] ELSE 0]
    BY <1>6 DEF Env, SlotAddress
  <2> QED  BY <2>1, <2>3, <1>2 DEF EnvOf, Slot
<1>7. \A v : Usable(Unit, v) => Operand(v) = Holds(Unit, mem, v)
  BY <1>2, <1>5 DEF Operand, Holds, Usable, Known, EnvOf
<1> QED  BY <1>5, <1>6, <1>7

\* The place a node stands for.
LEMMA NodePlace ==
    ASSUME NEW K, IsUnit(K), NEW n, IsNode(K, n)
    PROVE  /\ InstrOf(K, n).ir = n[1]
           /\ n[1] # Opening =>
                 /\ n[1] \in Places(K.f) /\ n[1] = <<n[1][1], n[1][2]>>
                 /\ n[1][1] \in DOMAIN K.f.blocks
                 /\ n[1][2] \in DOMAIN K.f.blocks[n[1][1]] /\ n[1][2] # 0
                 /\ n[1][2] <= Len(K.f.blocks[n[1][1]])
                 /\ SkipAllocs(K.f, n[1][1], n[1][2]) = n[1]
<1>1. InstrOf(K, n).ir = n[1]
  BY NodeOps DEF InstrOf, AsmOf, Fetch, Roles
<1>2. ASSUME n[1] # Opening
      PROVE  /\ n[1] \in Places(K.f) /\ n[1] = <<n[1][1], n[1][2]>>
             /\ n[1][1] \in DOMAIN K.f.blocks
             /\ n[1][2] \in DOMAIN K.f.blocks[n[1][1]] /\ n[1][2] # 0
             /\ n[1][2] <= Len(K.f.blocks[n[1][1]])
             /\ SkipAllocs(K.f, n[1][1], n[1][2]) = n[1]
  <2>1. n[1] \in Places(K.f) /\ Lowers(InsAt(K.f, n[1]), n[2])
    BY <1>2, NodeOf
  <2>2. InsAt(K.f, n[1]).op # "alloc"
    BY <2>1, NodeIs DEF Loads, BinaryOps
  <2>3. PICK b \in DOMAIN K.f.blocks : \E i \in DOMAIN K.f.blocks[b] : n[1] = <<b, i>>
    BY <2>1 DEF Places
  <2>4. PICK i \in DOMAIN K.f.blocks[b] : n[1] = <<b, i>>
    BY <2>3
  <2>5. K.f \in Functions /\ K.f.blocks[b] \in Seq(IRInstrs(K.f))
    BY FunctionsAssumption DEF IsUnit
  <2>6. i \in Nat /\ i > 0 /\ i <= Len(K.f.blocks[b])
    BY <2>4, <2>5
  <2>7. K.f.blocks[b][i].op # "alloc"
    BY <2>2, <2>4 DEF InsAt
  <2>8. /\ SkipAllocs(K.f, b, i)[2] = i
        /\ SkipAllocs(K.f, b, i) = <<b, SkipAllocs(K.f, b, i)[2]>>
    BY <2>5, <2>6, <2>7, SkipIs
  <2> QED  BY <2>1, <2>4, <2>6, <2>8
<1> QED  BY <1>1, <1>2

LEMMA PointIs ==
    ASSUME IsUnit(Unit), phase \in {"run", "stray"}
    PROVE  /\ \A n : Stands(pc, n) => Point = PointAt(Unit, n)
           /\ phase' \in {"run", "stray"} /\ UNCHANGED <<func, bbs>>
                 => \A n : Stands(pc', n) => Point' = PointAt(Unit, n)
<1> Unit.f = func
  BY DEF Unit
<1>1. ASSUME NEW q, NEW n, Stands(q, n)
      PROVE  LET ir == bbs[q[1]].instrs[q[2]].ir
                 p == IF ir[2] = 0 THEN <<1, 1>> ELSE ir
             IN  SkipAllocs(func, p[1], p[2]) = PointAt(Unit, n)
  <2>1. IsNode(Unit, n) /\ bbs[q[1]].instrs[q[2]] = InstrOf(Unit, n)
    BY <1>1 DEF Stands, Path
  <2>2. bbs[q[1]].instrs[q[2]].ir = n[1]
    BY <2>1, NodePlace
  <2>3. CASE n[1] = Opening
    BY <2>2, <2>3 DEF PointAt, Opening
  <2>4. CASE n[1] # Opening
    BY <2>1, <2>2, <2>4, NodePlace DEF PointAt
  <2> QED  BY <2>3, <2>4
<1>2. \A n : Stands(pc, n) => Point = PointAt(Unit, n)
  BY <1>1 DEF Point, RunPoint, Here
<1>3. ASSUME phase' \in {"run", "stray"}, UNCHANGED <<func, bbs>>,
             NEW n, Stands(pc', n)
      PROVE  Point' = PointAt(Unit, n)
  <2> DEFINE ir == bbs[pc'[1]].instrs[pc'[2]].ir
             p == IF ir[2] = 0 THEN <<1, 1>> ELSE ir
  <2>1. SkipAllocs(func, p[1], p[2]) = PointAt(Unit, n)
    BY <1>1, <1>3
  <2>2. Point' = SkipAllocs(func, p[1], p[2])
    BY <1>3 DEF Point, RunPoint, Here
  <2> QED  BY <2>1, <2>2
<1> QED  BY <1>2, <1>3

\* The place moves when a result is put, and when a block is left.
LEMMA SuccPlace ==
    ASSUME NEW K, IsUnit(K), NEW n, IsNode(K, n), IsNode(K, Succ(K, n)),
           n[2] \notin {"else", "jump", "ret"}
    PROVE  PointAt(K, Succ(K, n))
             = IF n[2] = "put" THEN SkipAllocs(K.f, n[1][1], n[1][2] + 1)
               ELSE PointAt(K, n)
<1> DEFINE p == n[1]
           ins == InsAt(K.f, p)
<1>1. CASE p = Opening
  <2>1. n[2] \in {"size", "take"}
    BY <1>1, NodeOps
  <2>2. CASE n[2] = "size"
    BY <1>1, <2>2 DEF Succ, PointAt
  <2>3. CASE n[2] = "take"
    <3>1. Succ(K, n) = Start(K, 1, 1)
      BY <1>1, <2>3 DEF Succ, Opening
    <3>2. Start(K, 1, 1)[1] # Opening
      <4>1. IsNode(K, Start(K, 1, 1))
        BY <3>1
      <4>2. PICK R : R = [r \in Regs |-> IF r = SP THEN StackTop - K.sz ELSE 0]
        OBVIOUS
      <4>3. R[X0] = 0 /\ R[SP] = StackTop - K.sz
        BY <4>2, RegsDiffer
      <4> QED  BY <4>1, <4>3, StartGood
    <3> QED  BY <1>1, <2>3, <3>1, <3>2 DEF Start, PointAt
  <2> QED  BY <2>1, <2>2, <2>3
<1>2. CASE p # Opening
  <2>1. /\ p \in Places(K.f) /\ n[2] \in RolesOf(ins) /\ n[2] \in Roles
    BY <1>2, NodeOf
  <2>2. CASE n[2] = "put"
    <3>1. Succ(K, n) = Start(K, p[1], p[2] + 1)
      BY <1>2, <2>2 DEF Succ, NextRole
    <3>2. Start(K, p[1], p[2] + 1)[1] # Opening
      <4>2. PICK R : R = [r \in Regs |-> IF r = SP THEN StackTop - K.sz ELSE 0]
        OBVIOUS
      <4>3. R[X0] = 0 /\ R[SP] = StackTop - K.sz
        BY <4>2, RegsDiffer
      <4> QED  BY <3>1, <4>3, StartGood
    <3> QED  BY <2>2, <3>1, <3>2 DEF Start, PointAt
  <2>3. CASE n[2] # "put"
    <3>1. NextRole(K.sz, ins, n[2]) # "end"
      <4>1. n[2] = "x" => AfterX(ins) # "end"
        BY DEF AfterX
      <4> QED  BY <4>1, <2>1, <2>3 DEF NextRole, Roles
    <3>2. Succ(K, n)[1] = p
      BY <1>2, <3>1 DEF Succ
    <3> QED  BY <1>2, <2>3, <3>2 DEF PointAt
  <2> QED  BY <2>2, <2>3
<1> QED  BY <1>1, <1>2

\* What a store into a slot does to the words of the symbols.
LEMMA EnvStored ==
    ASSUME NEW K, IsUnit(K), mem \in [Cells -> Word], NEW s, Known(K, s),
           K.off[s] # NoOffset, NEW w, mem' = [mem EXCEPT ![Slot(K, s)] = w]
    PROVE  EnvOf(K, mem') = [EnvOf(K, mem) EXCEPT ![s] = w]
<1>1. s \in Names(K.f) /\ Slot(K, s) \in Cells
  BY SlotIs DEF Known
<1>2. \A t \in Names(K.f) : s # t => Slot(K, s) # Slot(K, t)
  BY <1>1, SlotIs
<1>3. \A t \in Names(K.f) : K.off[t] # NoOffset => Slot(K, t) \in Cells
  BY SlotIs
<1>4. \A t \in Names(K.f) : EnvOf(K, mem')[t] = [EnvOf(K, mem) EXCEPT ![s] = w][t]
  <2> TAKE t \in Names(K.f)
  <2>1. CASE t = s
    BY <1>1, <2>1 DEF EnvOf
  <2>2. CASE t # s
    BY <1>1, <1>2, <1>3, <2>2 DEF EnvOf
  <2> QED  BY <2>1, <2>2
<1> QED  BY <1>4 DEF EnvOf

\* The place of an instruction that has an effect.
LEMMA PlaceRuns ==
    ASSUME RunInv, phase = "run", out = <<>>, NEW n, Stands(pc, n),
           n[1] # Opening
    PROVE  /\ Point = n[1] /\ IRM!Running /\ IRM!Ins = InsAt(func, n[1])
           /\ n[1] \in Places(func) /\ Lowers(InsAt(func, n[1]), n[2])
<1> IsUnit(Unit) /\ Unit.f = func
  BY RunInvWhole
<1>1. IsNode(Unit, n)
  BY StandsNode
<1>2. Point = n[1]
  BY PointIs DEF PointAt
<1>3. n[1] \in Places(func) /\ Lowers(InsAt(func, n[1]), n[2])
  BY <1>1, NodeOf
<1>4. Point[2] <= Len(func.blocks[Point[1]])
  BY <1>1, <1>2, NodePlace
<1> QED  BY <1>2, <1>3, <1>4, MachineIs

\* A result that is put is the effect of its instruction.
LEMMA PutIs ==
    ASSUME RunInv, phase = "run", NEW n, Stands(pc, n), Standing(Unit, n),
           n[2] = "put", StoreWord
    PROVE  IRM!Next
<1> DEFINE ins == InsAt(func, n[1])
           x == Holds(Unit, mem, ins.args[1])
           y == Holds(Unit, mem, ins.args[2])
           s == Target(ins)
           w == regs[Source(ins)]
<1> IsUnit(Unit) /\ Unit.f = func /\ Whole
  BY RunInvWhole
<1>1. /\ ins.op \in Loads \ {"br"} /\ Known(Unit, s) /\ Unit.off[s] # NoOffset
      /\ mem' = [mem EXCEPT ![Slot(Unit, s)] = w]
      /\ ins.op \in BinaryOps => w \in IRM!Results(ins.op, x, y)
      /\ ins.op \notin BinaryOps => w = x
  BY PutStores
<1>2. out = <<>> /\ UNCHANGED <<func, offset, stackSz, bbs, phase, out>>
  BY DEF StoreWord, At, genVars
<1>3. IsNode(Unit, n) /\ n[1] # Opening
  BY StandsNode, NodeOps
<1>4. Point = n[1] /\ IRM!Running /\ IRM!Ins = ins /\ Lowers(ins, "put")
      /\ n[1] \in Places(func)
  BY <1>2, <1>3, PlaceRuns
<1>5. IRM!GoOn
  <2>1. Stands(Following, Succ(Unit, n)) /\ pc' = Following
    BY NextStands DEF StoreWord
  <2>2. IsNode(Unit, Succ(Unit, n))
    BY <2>1, StandsNode
  <2>3. Point' = PointAt(Unit, Succ(Unit, n))
    BY <1>2, <2>1, PointIs
  <2>4. Point' = SkipAllocs(func, n[1][1], n[1][2] + 1)
    BY <1>3, <2>2, <2>3, SuccPlace
  <2> QED  BY <1>4, <2>4, MachineIs
<1>6. Env' = [Env EXCEPT ![s] = w]
  <2>1. Env = EnvOf(Unit, mem) /\ Env' = EnvOf(Unit, mem')
    BY <1>2, EnvIs
  <2>2. mem \in [Cells -> Word]
    BY DEF RunInv, Machine
  <2>3. /\ Known(Unit, s) /\ Unit.off[s] # NoOffset
        /\ mem' = [mem EXCEPT ![Slot(Unit, s)] = w]
    BY <1>1
  <2> HIDE DEF s, w
  <2>4. EnvOf(Unit, mem') = [EnvOf(Unit, mem) EXCEPT ![s] = w]
    BY <2>2, <2>3, EnvStored
  <2> QED  BY <2>1, <2>4
<1>7. IRM!irVars = <<func, Env, Point, out>>
  BY MachineIs
<1>8. /\ Usable(Unit, ins.args[1]) => IRM!Value(ins.args[1]) = x
      /\ Usable(Unit, ins.args[2]) => IRM!Value(ins.args[2]) = y
  BY EnvIs, MachineIs
<1>9. /\ Usable(Unit, ins.args[1])
      /\ ins.op \in BinaryOps => Usable(Unit, ins.args[2])
  BY <1>1, <1>4, NodeIs
<1>10. CASE ins.op = "store"
  <2>1. s = ins.args[2].s /\ w = IRM!Value(ins.args[1])
    BY <1>1, <1>8, <1>9, <1>10 DEF Target, BinaryOps
  <2>2. IRM!DoStore
    BY <1>2, <1>4, <1>5, <1>6, <1>10, <2>1 DEF IRM!DoStore, Env
  <2> QED  BY <2>2 DEF IRM!Next
<1>11. CASE ins.op = "load"
  <2>1. s = ins.def /\ w = IRM!Value(ins.args[1])
    BY <1>1, <1>8, <1>9, <1>11 DEF Target, BinaryOps
  <2>2. IRM!DoLoad
    BY <1>2, <1>4, <1>5, <1>6, <1>11, <2>1 DEF IRM!DoLoad, Env
  <2> QED  BY <2>2 DEF IRM!Next
<1>12. CASE ins.op \in BinaryOps
  <2>1. s = ins.def
    BY <1>12 DEF Target, BinaryOps
  <2>2. w \in IRM!Results(ins.op, IRM!Value(ins.args[1]), IRM!Value(ins.args[2]))
    BY <1>1, <1>8, <1>9, <1>12
  <2>3. IRM!DoBinary
    BY <1>2, <1>4, <1>5, <1>6, <1>12, <2>1, <2>2, SameWords DEF IRM!DoBinary, Env
  <2> QED  BY <2>3 DEF IRM!Next
<1> QED  BY <1>1, <1>10, <1>11, <1>12 DEF Loads

\* A jump is the effect of its instruction.
LEMMA LeapIs ==
    ASSUME RunInv, phase = "run", Leaps, NEW n, Stands(pc, n), Standing(Unit, n)
    PROVE  IRM!Next
<1> DEFINE ins == InsAt(func, n[1])
           x == Holds(Unit, mem, ins.args[1])
<1> IsUnit(Unit) /\ Unit.f = func /\ Unit.sz = stackSz /\ Whole
  BY RunInvWhole
<1>1. /\ n[1] \in Places(func) /\ n[2] \in {"bnez", "else", "jump"}
      /\ BranchNotZero => n[2] = "bnez"
      /\ JumpTo => n[2] \in {"else", "jump"}
      /\ Here.to \in DOMAIN func.blocks /\ pc' = Reach(Here.to)
      /\ Stands(Reach(Here.to), Start(Unit, Here.to, 1))
      /\ regs[SP] = StackTop - stackSz
  BY LeapsTo
<1>2. /\ out = <<>> /\ UNCHANGED <<func, offset, stackSz, bbs, phase, mem, out>>
  BY DEF Leaps, BranchNotZero, JumpTo, At, genVars
<1>3. IsNode(Unit, n) /\ n[1] # Opening /\ Here = InstrOf(Unit, n)
  BY <1>1, StandsNode, StandsIs, NodeOps
<1>4. Point = n[1] /\ IRM!Running /\ IRM!Ins = ins /\ Lowers(ins, n[2])
  BY <1>2, <1>3, PlaceRuns
<1>5. IRM!Goto(Here.to)
  <2>1. regs[X0] = 0
    BY DEF RunInv, Machine
  <2>2. IsNode(Unit, Start(Unit, Here.to, 1))
    BY <1>1, StandsNode
  <2>3. Start(Unit, Here.to, 1)[1] # Opening
    BY <1>1, <2>1, <2>2, StartGood
  <2>4. Point' = PointAt(Unit, Start(Unit, Here.to, 1))
    BY <1>1, <1>2, PointIs
  <2>5. Point' = SkipAllocs(func, Here.to, 1)
    BY <2>3, <2>4 DEF PointAt, Start
  <2> QED  BY <2>5, MachineIs
<1>6. Env' = Env
  BY <1>2, EnvIs
<1>7. /\ ins.op \in Loads \cup {"ret"} => Usable(Unit, ins.args[1])
      /\ n[2] \in RolesOf(ins)
  BY <1>1, <1>4, NodeIs
<1>8. CASE n[2] = "jump"
  <2>1. ins.op = "jump" /\ Here.to = ins.to[1]
    BY <1>3, <1>7, <1>8, RolesAre DEF InstrOf, AsmOf
  <2>2. IRM!DoJump
    BY <1>2, <1>4, <1>5, <1>6, <2>1 DEF IRM!DoJump, Env
  <2> QED  BY <2>2 DEF IRM!Next
<1>9. CASE n[2] \in {"bnez", "else"}
  <2>1. ins.op = "br"
    BY <1>7, <1>9, RolesAre
  <2>2. IRM!Value(ins.args[1]) = x
    BY <1>7, <2>1, EnvIs, MachineIs DEF Loads
  <2>3. Here.to = ins.to[IF x # 0 THEN 1 ELSE 2]
    <3>1. CASE n[2] = "bnez"
      <4>1. Here.to = ins.to[1] /\ Here.rd = RegX(ins) /\ Here.op = "bnez"
        BY <1>3, <3>1 DEF InstrOf, AsmOf
      <4>2. regs[Here.rd] # 0
        BY <4>1 DEF Leaps, JumpTo, At
      <4>3. regs[RegX(ins)] = x
        BY <3>1 DEF Standing, GoodAt
      <4> QED  BY <4>1, <4>2, <4>3
    <3>2. CASE n[2] = "else"
      <4>1. Here.to = ins.to[2]
        BY <1>3, <3>2 DEF InstrOf, AsmOf
      <4>2. x = 0
        BY <3>2 DEF Standing, GoodAt
      <4> QED  BY <4>1, <4>2
    <3> QED  BY <1>9, <3>1, <3>2
  <2>4. IRM!DoBranch
    BY <1>2, <1>4, <1>5, <1>6, <2>1, <2>2, <2>3 DEF IRM!DoBranch, Env
  <2> QED  BY <2>4 DEF IRM!Next
<1> QED  BY <1>1, <1>8, <1>9

\* And so is a return.
LEMMA ReturnIs ==
    ASSUME RunInv, phase = "run", Return
    PROVE  IRM!Next
<1>1. /\ UNCHANGED <<func, offset, stackSz, bbs, phase, mem, pc>> /\ out = <<>>
      /\ out' = <<regs[A0]>> /\ Here.op = "ret"
  BY DEF Return, At, genVars
<1>2. PICK n : Stands(pc, n) /\ Standing(Unit, n)
  BY RunningStands
<1>3. n[2] = "ret"
  BY <1>1, <1>2, NodeOps DEF Standing, Roles, ComputeOps
<1> DEFINE ins == InsAt(func, n[1])
           x == Holds(Unit, mem, ins.args[1])
<1> IsUnit(Unit) /\ Unit.f = func
  BY RunInvWhole
<1>4. IsNode(Unit, n) /\ n[1] # Opening
  BY <1>2, <1>3, StandsNode, NodeOps
<1>5. Point = n[1] /\ IRM!Running /\ IRM!Ins = ins /\ Lowers(ins, n[2])
      /\ n[1] \in Places(func)
  BY <1>1, <1>2, <1>4, PlaceRuns
<1>6. ins.op = "ret" /\ Usable(Unit, ins.args[1])
  BY <1>3, <1>5, NodeIs, RolesAre
<1>7. IRM!Value(ins.args[1]) = regs[A0]
  <2>1. regs[A0] = x
    BY <1>2, <1>3 DEF Standing, GoodAt
  <2> QED  BY <1>6, <2>1, EnvIs, MachineIs
<1>8. Env' = Env /\ Point' = Point
  <2>1. Env' = Env
    BY <1>1, EnvIs
  <2>2. Point' = Point
    BY <1>1 DEF Point, RunPoint, Here
  <2> QED  BY <2>1, <2>2
<1>9. IRM!DoReturn
  BY <1>1, <1>5, <1>6, <1>7, <1>8 DEF IRM!DoReturn, Env, Point
<1> QED  BY <1>9 DEF IRM!Next

\* The other instructions change nothing the IR knows of.
LEMMA FallIs ==
    ASSUME RunInv, phase = "run", Falls, NEW n, Stands(pc, n), Standing(Unit, n),
           n[2] # "put"
    PROVE  UNCHANGED IRM!irVars
<1> IsUnit(Unit) /\ Unit.f = func /\ Whole
  BY RunInvWhole
<1>1. IsNode(Unit, n) /\ Here = InstrOf(Unit, n)
  BY StandsIs
<1>2. ~StoreWord
  <2>1. Here.op # "sw"
    BY <1>1, NodeOps DEF Roles, ComputeOps
  <2> QED  BY <2>1 DEF StoreWord, At
<1>3. /\ pc' = Following
      /\ UNCHANGED <<func, offset, stackSz, bbs, phase, mem, out>>
  BY <1>2 DEF Falls, Compute, LoadWord, BranchNotZero, At, genVars
<1>4. n[2] \notin {"else", "jump", "ret"}
  BY FallsOn
<1>5. Stands(Following, Succ(Unit, n)) /\ IsNode(Unit, Succ(Unit, n))
  BY <1>4, NextStands, StandsNode
<1>6. Point' = PointAt(Unit, Succ(Unit, n)) /\ Point = PointAt(Unit, n)
  BY <1>3, <1>5, PointIs
<1>7. Point' = Point
  BY <1>1, <1>4, <1>5, <1>6, SuccPlace
<1>8. Env' = Env
  BY <1>3, EnvIs
<1> QED  BY <1>3, <1>7, <1>8, MachineIs DEF IRM!irVars, Env, Point

\* Before the code runs the machine of the IR has not begun.
LEMMA BeforeRun ==
    ASSUME phase \notin {"run", "stray"}
    PROVE  /\ Env = [s \in DOMAIN func.names |-> 0]
           /\ Point = SkipAllocs(func, 1, 1)
BY DEF Env, Point

LEMMA InitIs == RunInit => IRM!Init
<1> SUFFICES ASSUME RunInit PROVE IRM!Init
  OBVIOUS
<1>1. func \in Functions /\ phase = "prologue" /\ out = <<>>
  BY DEF RunInit, Init
<1>2. Env = [s \in DOMAIN func.names |-> 0] /\ Point = SkipAllocs(func, 1, 1)
  BY <1>1, BeforeRun
<1>3. Env \in [DOMAIN func.names -> {0}]
  BY <1>2
<1> QED  BY <1>1, <1>2, <1>3, MachineIs

LEMMA GenerateIs ==
    ASSUME RunInv, Generate
    PROVE  UNCHANGED IRM!irVars
<1>1. /\ phase \notin {"run", "stray"} /\ phase' \notin {"run", "stray"}
  BY GenPhases DEF Generate
<1>2. func' = func /\ out' = out
  BY DEF Generate, machine, GenNext, Prologue, EnterBlock, LeaveBlock, VisitAlloc,
         VisitRet, VisitStore, VisitLoad, VisitBExpr, VisitBr, VisitJump, Emit,
         AssertFails
<1>3. Env' = [s \in DOMAIN func.names |-> 0] /\ Point' = SkipAllocs(func, 1, 1)
  BY <1>1, <1>2 DEF Env, Point
<1> QED  BY <1>1, <1>2, <1>3, BeforeRun, MachineIs DEF IRM!irVars, Env, Point

\* The stack is empty when the code begins, and what it begins with is the
\* prologue.
LEMMA AssembleIs ==
    ASSUME RunInv, Assemble
    PROVE  UNCHANGED IRM!irVars
<1>1. /\ phase = "done" /\ phase' \in {"run", "rejected"}
      /\ UNCHANGED <<func, todo, offset, stackSz, bbs, curBB, tmpVarCount>>
      /\ UNCHANGED <<regs, mem, pc, out>>
  BY DEF Assemble, machine
<1> IsUnit(Unit) /\ Unit.f = func /\ Unit.sz = stackSz /\ Unit.off = offset /\ Whole
  BY <1>1, RunInvWhole
<1>2. Env = [s \in DOMAIN func.names |-> 0] /\ Point = SkipAllocs(func, 1, 1)
  BY <1>1, BeforeRun
<1>3. pc = <<1, 1>> /\ mem = [a \in Cells |-> 0]
  BY <1>1 DEF RunInv, Unrun
<1>4. Env' = Env
  <2>1. \A s \in DOMAIN func.names : s \in Slotted => mem[SlotAddress(s)] = 0
    <3> TAKE s \in DOMAIN func.names
    <3>1. s \in Slotted => Slot(Unit, s) \in Cells
      BY SlotIs DEF Slotted, Names
    <3>2. SlotAddress(s) = Slot(Unit, s)
      BY DEF SlotAddress, Slot
    <3> QED  BY <1>3, <3>1, <3>2
  <2>2. Env' = [s \in DOMAIN func.names |->
                  IF phase' = "run" /\ s \in Slotted
                  THEN mem[SlotAddress(s)] ELSE 0]
    BY <1>1 DEF Env, Slotted, Occurring, SlotAddress
  <2> QED  BY <1>2, <2>1, <2>2
<1>5. Point' = Point
  <2>1. Stands(<<1, 1>>, Entry(1)) /\ Entry(1)[1] = Opening
    BY OpeningStands DEF Entry
  <2>2. /\ IsNode(Unit, Entry(1)) /\ bbs[1].instrs[1] = InstrOf(Unit, Entry(1))
    BY <2>1 DEF Stands, Path
  <2>3. bbs[1].instrs[1].ir = Opening
    BY <2>1, <2>2, NodePlace
  <2>4. Here' = bbs[1].instrs[1]
    BY <1>1, <1>3 DEF Here
  <2>5. RunPoint' = <<1, 1>>
    BY <2>3, <2>4 DEF RunPoint, Opening
  <2> QED  BY <1>1, <1>2, <2>5 DEF Point
<1> QED  BY <1>1, <1>4, <1>5, MachineIs DEF IRM!irVars, Env, Point

LEMMA StrayIs ==
    ASSUME RunInv, Stray
    PROVE  UNCHANGED IRM!irVars
<1>1. /\ phase = "run" /\ phase' = "stray"
      /\ UNCHANGED <<func, todo, offset, stackSz, bbs, curBB, tmpVarCount>>
      /\ UNCHANGED <<regs, mem, pc, out>>
  BY DEF Stray, machine, At
<1>2. Env' = Env /\ Point' = Point
  <2>1. Env' = Env
    BY <1>1 DEF Env, Slotted, Occurring, SlotAddress
  <2>2. Point' = Point
    BY <1>1 DEF Point, RunPoint, Here
  <2> QED  BY <2>1, <2>2
<1> QED  BY <1>1, <1>2 DEF IRM!irVars, Env, Point

LEMMA StopIs ==
    ASSUME UNCHANGED vars
    PROVE  UNCHANGED IRM!irVars
BY DEF vars, IRM!irVars, Slotted, Occurring, SlotAddress, RunPoint, Here

LEMMA StepIs ==
    ASSUME RunInv, [Next]_vars
    PROVE  [IRM!Next]_(IRM!irVars)
<1>1. ASSUME Falls PROVE [IRM!Next]_(IRM!irVars)
  <2>1. phase = "run"
    BY <1>1 DEF Falls, Compute, LoadWord, StoreWord, BranchNotZero, At
  <2>2. PICK n : Stands(pc, n) /\ Standing(Unit, n)
    BY <2>1, RunningStands
  <2>3. CASE n[2] = "put"
    <3>1. StoreWord
      <4>1. Here.op = "sw"
        BY <2>2, <2>3, NodeOps DEF Standing
      <4> QED  BY <1>1, <4>1 DEF Falls, Compute, LoadWord, BranchNotZero, At
    <3> QED  BY <2>1, <2>2, <2>3, <3>1, PutIs
  <2>4. CASE n[2] # "put"
    BY <1>1, <2>1, <2>2, <2>4, FallIs
  <2> QED  BY <2>3, <2>4
<1>2. ASSUME Leaps PROVE [IRM!Next]_(IRM!irVars)
  <2>1. phase = "run"
    BY <1>2 DEF Leaps, JumpTo, BranchNotZero, At
  <2>2. PICK n : Stands(pc, n) /\ Standing(Unit, n)
    BY <2>1, RunningStands
  <2> QED  BY <1>2, <2>1, <2>2, LeapIs
<1>3. ASSUME Return PROVE [IRM!Next]_(IRM!irVars)
  BY <1>3, ReturnIs DEF Return, At
<1>4. Next \/ UNCHANGED vars
  OBVIOUS
<1>5. CASE Run
  BY <1>1, <1>2, <1>3, <1>5, StrayIs DEF Run, Falls, Leaps
<1>6. CASE ~Run
  BY <1>4, <1>6, GenerateIs, AssembleIs, StopIs DEF Next, Stop
<1> QED  BY <1>5, <1>6

\* The code does what the IR says, for every function: each IR instruction
\* takes effect once, in its order and with one of the results it may have, when
\* the last instruction generated for it runs, and no other instruction changes
\* the slot of a symbol.
THEOREM CodeImplements == Spec => Implements
<1>1. RunInit => IRM!Init
  BY InitIs
<1>2. RunInv /\ [Next]_vars => [IRM!Next]_(IRM!irVars)
  BY StepIs
<1> QED  BY <1>1, <1>2, RunInvInvariant, PTL DEF Spec, Implements, IRM!Spec

=============================================================================
