-------------------------------- MODULE GenASM --------------------------------
(* The fourth pass, GenASMVisitor with its context (src/ir/GenASM.cc), and    *)
(* the FuncASM it fills (src/asm/cfg.cc): RISC-V code for one function. Every *)
(* symbol gets a slot of the frame; every instruction loads its operands into *)
(* temporary registers and stores its result. One action per visit.           *)
EXTENDS IRCode

CONSTANTS
    Functions,  \* the functions of the IR that may be compiled
    ImmLimit    \* 2^11: an immediate is at least -ImmLimit and below ImmLimit

ASSUME ImmAssumption == ImmLimit \in Nat \ {0}

\* The functions GenIR makes: an entry and an exit block; only what is stored
\* or returned may be undefined.
Names(f) == DOMAIN f.names
Symbols(f) == [k : {"sym"}, s : Names(f)]
Operands(f) == [k : {"num"}, n : Int] \cup Symbols(f)
Values(f) == Operands(f) \cup {Undefined}
IRInstrs(f) ==
    [op : {"alloc"}, def : Names(f), args : {<<>>}, to : {<<>>}]
    \cup [op : {"store"}, def : {NoSymbol}, args : Values(f) \X Symbols(f),
          to : {<<>>}]
    \cup [op : {"load"}, def : Names(f), args : [{1} -> Symbols(f)],
          to : {<<>>}]
    \cup [op : BinaryOps, def : Names(f), args : Operands(f) \X Operands(f),
          to : {<<>>}]
    \cup [op : {"br"}, def : {NoSymbol}, args : [{1} -> Operands(f)],
          to : (DOMAIN f.blocks) \X (DOMAIN f.blocks)]
    \cup [op : {"jump"}, def : {NoSymbol}, args : {<<>>},
          to : [{1} -> DOMAIN f.blocks]]
    \cup [op : {"ret"}, def : {NoSymbol}, args : [{1} -> Values(f)],
          to : {<<>>}]

ASSUME FunctionsAssumption ==
    \A f \in Functions :
        /\ f.label \in Nat
        /\ Names(f) \subseteq Nat \ {NoSymbol}
        /\ f.blocks \in Seq(Seq(IRInstrs(f)))
        /\ Len(f.blocks) >= 2

VARIABLES
    func,       \* the function that is compiled
    phase,      \* "prologue", "code", "done"; "abort": an assertion failed
    todo,       \* the next instruction to visit: a block and a place in it
    offset,     \* Symbol::stackOffset_ of each symbol
    stackSz,    \* FuncASM::stackSize_
    bbs,        \* FuncASM::bbs_: labels and their instructions
    curBB,      \* currentBB_, an index of bbs
    tmpVarCount \* tmpVarCount_: temporary registers in use

genVars == <<func, phase, todo, offset, stackSz, bbs, curBB, tmpVarCount>>

-----------------------------------------------------------------------------
(* Registers: t0 to t6 are 0 to 6.                                            *)

X0 == -3
A0 == -2
SP == -1
IsTemp(r) == r >= 0
TmpVars == 0..6

(* Instructions. "rd" is the register named first, "a" and "b" the other      *)
(* operands: registers, or an immediate. "ir" is the IR instruction the code  *)
(* is generated for.                                                          *)

ASM(op, rd, a, b, to) ==
    [op |-> op, rd |-> rd, a |-> a, b |-> b, to |-> to, ir |-> todo]
Instr0(op) == ASM(op, X0, X0, X0, 0)
Instr1S(op, label) == ASM(op, X0, X0, X0, label)
Instr2RI(op, rd, imm) == ASM(op, rd, imm, X0, 0)
Instr2RR(op, rd, r) == ASM(op, rd, r, X0, 0)
Instr2RS(op, r, label) == ASM(op, r, X0, X0, label)
Instr3(op, rd, a, b) == ASM(op, rd, a, b, 0)

-----------------------------------------------------------------------------
(* The frame.                                                                 *)

IntSize == 4        \* TypeInt::get_layout_size: every slot holds an int
NoOffset == -1      \* (unsigned)-1, read back as an int

\* The places of the instructions, the ones that define a symbol, and their
\* order. The prologue walks the vectors of the blocks; where the slot of the
\* return value stands in them is of no consequence.
Places(f) == UNION {{b} \X DOMAIN f.blocks[b] : b \in DOMAIN f.blocks}
InsAt(f, p) == f.blocks[p[1]][p[2]]
Before(p, q) == p[1] < q[1] \/ (p[1] = q[1] /\ p[2] < q[2])
DefPlaces(f) == {p \in Places(f) : IsSymbolDef(InsAt(f, p))}
NameAt(f, p) == f.names[InsAt(f, p).def]

\* The definitions that get a slot: the first of each name.
FirstDefs(f) ==
    {p \in DefPlaces(f) :
        \A q \in DefPlaces(f) : NameAt(f, q) = NameAt(f, p) => ~Before(q, p)}
FirstDefsOf(f, s) == {p \in FirstDefs(f) : InsAt(f, p).def = s}

\* The slots handed out before the symbols of some definitions got theirs.
SlotsBefore(f, own) == {q \in FirstDefs(f) : \A p \in own : Before(q, p)}

\* Mutants: the count starts one slot too low; the first two symbols share one.
OffsetBelow(f, s) ==
    IntSize * (Cardinality(SlotsBefore(f, FirstDefsOf(f, s))) - 1)
OffsetShared(f, s) ==
    IF FirstDefsOf(f, s) = {} THEN NoOffset
    ELSE IntSize * Cardinality(SlotsBefore(f, FirstDefsOf(f, s)) \ {<<1, 1>>})

\* set_offset: a symbol whose name has a slot already gets none of its own.
Offset(f, s) ==
    IF FirstDefsOf(f, s) = {} THEN NoOffset
    ELSE IntSize * Cardinality(SlotsBefore(f, FirstDefsOf(f, s)))

align_16_bytes(v) == ((v + 15) \div 16) * 16

-----------------------------------------------------------------------------
(* Basic blocks of the assembly.                                              *)

\* The place create_or_get_BB gives for a label, in the list it leaves.
WithBB(list, label) ==
    IF \E i \in DOMAIN list : list[i].label = label THEN list
    ELSE Append(list, [label |-> label, instrs |-> <<>>])

\* Mutant: the block is always the first one.
IndexOfFront(list, label) == 1

IndexOf(list, label) == CHOOSE i \in DOMAIN list : list[i].label = label

Body == func.blocks[todo[1]]
Ins == Body[todo[2]]
AtInstr(op) == phase = "code" /\ todo[2] \in DOMAIN Body /\ Ins.op = op

\* One IR instruction lowered to a sequence; go on with the next of the list.
Emit(code) ==
    /\ bbs' = [bbs EXCEPT ![curBB].instrs = @ \o code]
    /\ todo' = <<todo[1], todo[2] + 1>>
    /\ UNCHANGED <<func, phase, offset, stackSz, curBB>>

\* Mutant: the registers are not given back.
KeepTmpVars(t) == tmpVarCount' = t

\* return_all_tmp_var, after t registers were taken
ReturnTmpVars(t) == tmpVarCount' = 0

\* get_a_reg_var: the register that holds v, the code that loads it and the
\* count of registers then in use. An undefined value fails an assertion.
GetReg(v, t) ==
    CASE v.k = "num" /\ v.n = 0 -> [reg |-> X0, code |-> <<>>, t |-> t]
      [] v.k = "num" /\ v.n # 0 ->
            [reg |-> t, code |-> <<Instr2RI("li", t, v.n)>>, t |-> t + 1]
      [] v.k = "sym" ->
            [reg |-> t, code |-> <<Instr3("lw", t, offset[v.s], SP)>>,
             t |-> t + 1]

AssertFails ==
    /\ phase' = "abort"
    /\ UNCHANGED <<func, todo, offset, stackSz, bbs, curBB, tmpVarCount>>

-----------------------------------------------------------------------------
Init ==
    /\ func \in Functions
    /\ phase = "prologue" /\ todo = <<1, 0>>
    /\ offset = [s \in DOMAIN func.names |-> NoOffset]
    /\ stackSz = 0
    /\ bbs = <<>> /\ curBB = 0 /\ tmpVarCount = 0

\* visit(Function) up to its loop: the label of the function, the slots and
\* the prologue. A frame too large for an immediate is loaded first.
Prologue ==
    LET size == align_16_bytes(IntSize * Cardinality(FirstDefs(func)))
        t    == tmpVarCount
        code == IF size > ImmLimit
                THEN <<Instr2RI("li", t, -size), Instr3("add", SP, SP, t)>>
                ELSE <<Instr3("addi", SP, SP, -size)>>
    IN /\ phase = "prologue" /\ phase' = "code"
       /\ offset' = [s \in DOMAIN offset |-> Offset(func, s)]
       /\ stackSz' = size
       /\ bbs' = <<[label |-> func.label, instrs |-> code]>>
       /\ curBB' = 1
       /\ ReturnTmpVars(IF size > ImmLimit THEN t + 1 ELSE t)
       /\ UNCHANGED <<func, todo>>

\* visit(Block); a block without instructions gets no label.
EnterBlock ==
    /\ phase = "code" /\ todo[2] = 0
    /\ IF Body = <<>>
       THEN UNCHANGED <<bbs, curBB>>
       ELSE /\ bbs' = WithBB(bbs, todo[1])
            /\ curBB' = IndexOf(bbs', todo[1])
    /\ todo' = <<todo[1], 1>>
    /\ UNCHANGED <<func, phase, offset, stackSz, tmpVarCount>>

LeaveBlock ==
    /\ phase = "code" /\ todo[2] = Len(Body) + 1
    /\ IF todo[1] = Len(func.blocks)
       THEN phase' = "done" /\ UNCHANGED todo
       ELSE todo' = <<todo[1] + 1, 0>> /\ UNCHANGED phase
    /\ UNCHANGED <<func, offset, stackSz, bbs, curBB, tmpVarCount>>

\* No code: the slot is there already.
VisitAlloc ==
    /\ AtInstr("alloc") /\ Emit(<<>>)
    /\ UNCHANGED tmpVarCount

\* Mutant: the stack pointer stays where it is.
NoEpilogue == <<>>

\* gen_asm_func_epilogue
Epilogue ==
    IF stackSz > 0 THEN <<Instr3("addi", SP, SP, stackSz)>> ELSE <<>>

VisitRet ==
    /\ AtInstr("ret")
    /\ LET v == Ins.args[1]
       IN IF v.k = "undef" THEN AssertFails
          ELSE /\ Emit(<<IF v.k = "num"
                         THEN Instr2RI("li", A0, v.n)
                         ELSE Instr3("lw", A0, offset[v.s], SP)>>
                       \o Epilogue \o <<Instr0("ret")>>)
               /\ UNCHANGED tmpVarCount

\* The opcode for registers, and the one for an immediate on the right, if any.
RegOp(op) ==
    CASE op \in {"eq", "ne"} -> "xor"
      [] op \in {"lt", "ge"} -> "slt"
      [] op \in {"gt", "le"} -> "sgt"
      [] op = "mod" -> "rem"
      [] OTHER -> op
ImmOp == [eq |-> "xori", ne |-> "xori", add |-> "addi"]

\* Mutant: <= is not negated.
FixNotLe(op, r) ==
    CASE op \in {"eq", "ge"} -> <<Instr2RR("seqz", r, r)>>
      [] op = "ne" -> <<Instr2RR("snez", r, r)>>
      [] OTHER -> <<>>

\* What follows when the operation alone does not give the answer.
Fix(op, r) ==
    CASE op \in {"eq", "le", "ge"} -> <<Instr2RR("seqz", r, r)>>
      [] op = "ne" -> <<Instr2RR("snez", r, r)>>
      [] OTHER -> <<>>

\* gen_asm_binary_stmt_*: both operands get registers, a literal on the right
\* even where it is an immediate; the result overwrites the first one if that
\* is a temporary.
VisitBExpr(op) ==
    /\ AtInstr(op)
    /\ LET x  == GetReg(Ins.args[1], tmpVarCount)
           y  == GetReg(Ins.args[2], x.t)
           r  == IF IsTemp(x.reg) THEN x.reg ELSE y.t
           do == IF op \in DOMAIN ImmOp /\ Ins.args[2].k = "num"
                 THEN Instr3(ImmOp[op], r, x.reg, Ins.args[2].n)
                 ELSE Instr3(RegOp(op), r, x.reg, y.reg)
       IN /\ Emit(x.code \o y.code \o <<do>> \o Fix(op, r)
                  \o <<Instr3("sw", r, offset[Ins.def], SP)>>)
          /\ ReturnTmpVars(IF r = y.t THEN y.t + 1 ELSE y.t)

VisitStore ==
    /\ AtInstr("store")
    /\ IF Ins.args[1].k = "undef" THEN AssertFails
       ELSE LET x == GetReg(Ins.args[1], tmpVarCount)
            IN /\ Emit(x.code \o
                       <<Instr3("sw", x.reg, offset[Ins.args[2].s], SP)>>)
               /\ ReturnTmpVars(x.t)

VisitLoad ==
    /\ AtInstr("load")
    /\ LET x == GetReg(Ins.args[1], tmpVarCount)
       IN /\ Emit(x.code \o <<Instr3("sw", x.reg, offset[Ins.def], SP)>>)
          /\ ReturnTmpVars(x.t)

\* Mutants: the second target is one off; a jump goes to its own block.
OneOff(ins) == <<ins.to[1], ins.to[2] + 1>>
OwnLabel(ins) == todo[1]

TargetsOf(ins) == ins.to

LabelOf(ins) == ins.to[1]

VisitBr ==
    /\ AtInstr("br")
    /\ LET x == GetReg(Ins.args[1], tmpVarCount)
       IN /\ Emit(x.code \o <<Instr2RS("bnez", x.reg, TargetsOf(Ins)[1]),
                              Instr1S("j", TargetsOf(Ins)[2])>>)
          /\ ReturnTmpVars(x.t)

VisitJump ==
    /\ AtInstr("jump") /\ Emit(<<Instr1S("j", LabelOf(Ins))>>)
    /\ UNCHANGED tmpVarCount

GenNext ==
    \/ Prologue \/ EnterBlock \/ LeaveBlock
    \/ VisitAlloc \/ VisitRet \/ VisitStore \/ VisitLoad
    \/ \E op \in BinaryOps : VisitBExpr(op)
    \/ VisitBr \/ VisitJump

GenSpec == Init /\ [][GenNext]_genVars

-----------------------------------------------------------------------------
(* Properties.                                                                *)

\* tmpVars_ has seven registers, and nothing looks whether one is left. No
\* function, however long, asks for an eighth: each visit gives back its own.
RegistersSuffice ==
    \A b \in DOMAIN bbs : \A i \in DOMAIN bbs[b].instrs :
        bbs[b].instrs[i].rd \in {X0, A0, SP} \cup TmpVars

\* create_or_get_BB finds a basic block by its label, and the prologue has one
\* too: the name of the function. Code for two blocks of the IR, or for a block
\* and the prologue, is in one basic block only in a function that is named like
\* one of its own blocks, and no block of the IR is spread over two.
OfOneBlock(p, q) == p[1] = q[1] /\ (p[2] = 0 <=> q[2] = 0)
BlocksApart ==
    \A b, c \in DOMAIN bbs :
        \A i \in DOMAIN bbs[b].instrs, j \in DOMAIN bbs[c].instrs :
            \/ b = c <=> OfOneBlock(bbs[b].instrs[i].ir, bbs[c].instrs[j].ir)
            \/ func.label \in DOMAIN func.blocks

Occurring == {InsAt(func, p).def : p \in DefPlaces(func)}
Slotted == {s \in Occurring : offset[s] # NoOffset}

\* The slots the prologue hands out lie in the frame and do not overlap, and of
\* every name that is defined one symbol has a slot.
SlotsDisjoint ==
    phase # "prologue" =>
        /\ \A s \in Slotted : 0 <= offset[s] /\ offset[s] + IntSize <= stackSz
        /\ \A s, t \in Slotted :
              s # t => \/ offset[s] + IntSize <= offset[t]
                       \/ offset[t] + IntSize <= offset[s]
        /\ \A s \in Occurring : \E t \in Slotted : func.names[t] = func.names[s]
=============================================================================
