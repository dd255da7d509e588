-------------------------------- MODULE GenIR --------------------------------
(* The third pass, GenIRVisitor with its GenIRCtx (src/ast/GenIR.cc), and the *)
(* Function and Block it fills (src/ir/FunctionIR.cc, src/ir/BlockIR.hh): the *)
(* control-flow graph of a function, built while the AST is walked.           *)
(*                                                                            *)
(* The program is picked node by node as the walk reaches it. "frames" is the *)
(* C++ call stack: what each visit in progress still has to do, with the      *)
(* local variables it keeps across the visits it makes. Numbers and the       *)
(* operators are left out; the symbols instructions define and use are kept.  *)
EXTENDS InstrList, Integers, FiniteSets

CONSTANTS
    MaxNodes,   \* bound: AST nodes visited
    MaxVars,    \* bound: variables declared
    TempLike,   \* numbers n for which the program may use the name "tn"
    SlotLike,   \* whether it may use the name "_retSlot_"
    Captures,   \* whether the renaming may have given two variables one name
    Exprs       \* bound: the kinds of expression the program uses

ASSUME GenIRAssumption ==
    /\ {MaxNodes, MaxVars} \subseteq Nat /\ TempLike \subseteq Nat
    /\ {SlotLike, Captures} \subseteq BOOLEAN
    /\ Exprs \subseteq {"num", "lval", "unbound", "unary", "binary", "logical"}

VARIABLES
    mode,       \* "next", "stmt", "exp", "value"; "done" and "crash" are final
    frames,     \* the visits in progress
    blocks,     \* Function::bbs_
    cur,        \* GenIRCtx::curBlock_
    val,        \* GenIRCtx::curValue_: a symbol, or Literal
    entryB,     \* GenIRCtx::whileEntryB_
    mergeB,     \* GenIRCtx::whileMergeB_
    slot,       \* Function::returnSlot_
    nsym,       \* the symbols made so far
    tmps,       \* Function::tmpVarCount_
    symTab,     \* Function::symTab_: from names to symbols
    irvar,      \* VarAST::IRVar_ of each variable: a symbol, or Null
    name,       \* VarAST::ident_ of each variable
    vis,        \* the variables the scope check lets the program use here
    nodes       \* the nodes visited so far

control == <<mode, frames, nodes>>
context == <<cur, entryB, mergeB>>
symbols == <<nsym, tmps, symTab>>
variables == <<irvar, name, vis>>
vars == <<mode, frames, blocks, cur, val, entryB, mergeB, slot, nsym, tmps,
          symTab, irvar, name, vis, nodes>>

Null == 0
Literal == 0        \* a ValueInt
Undef == -1         \* a ValueUndef
Entry == 1          \* entryBB_
Exit == 2           \* exitBB_

-----------------------------------------------------------------------------
(* Instructions and blocks.                                                   *)

Instr(op, def, args, to) == [op |-> op, def |-> def, args |-> args, to |-> to]
Alloc(s) == Instr("alloc", s, <<>>, <<>>)
Store(v, s) == Instr("store", Null, <<v, s>>, <<>>)
Load(s, from) == Instr("load", s, <<from>>, <<>>)
BExpr(s, v, w) == Instr("bexpr", s, <<v, w>>, <<>>)
Br(v, t, f) == Instr("br", Null, <<v>>, <<t, f>>)
Jump(b) == Instr("jump", Null, <<>>, <<b>>)
Ret(s) == Instr("ret", Null, <<s>>, <<>>)

Used(ins) == {ins.args[i] : i \in DOMAIN ins.args} \ {Literal, Undef}
IsEnd(ins) == ins.op \in {"br", "jump", "ret"}

\* The linked list of instructions, and beside it what the list should hold:
\* everything but the dump is stated of the latter.
EmptyBlock == [list |-> EmptyList, instrs |-> <<>>, term |-> FALSE,
               pre |-> <<>>, next |-> <<>>]

\* Mutant: one block too few.
CreateShort(bs, n) == bs \o [i \in 1..(n - 1) |-> EmptyBlock]

\* create_BB, n times
Create(bs, n) == bs \o [i \in 1..n |-> EmptyBlock]

\* Block::create_instr, for each of a sequence of instructions
Emit(bs, b, seq) ==
    [bs EXCEPT ![b].instrs = @ \o seq,
               ![b].list = create_instrs(@, seq),
               ![b].term = @ \/ \E i \in DOMAIN seq : IsEnd(seq[i])]

link_bb(bs, p, n) ==
    [bs EXCEPT ![p].next = Append(@, n), ![n].pre = Append(@, p)]

\* Mutant: the slot is made at the end of the entry block.
WithSlotAtEnd(bs, s) ==
    Emit([bs EXCEPT ![Entry].instrs = @ \o <<Alloc(s)>>],
         Exit, <<Load(s + 1, s), Ret(s + 1)>>)

\* get_return_var: the first return makes the slot, at the head of the entry
\* block, and fills the exit block.
WithSlot(bs, s) ==
    Emit([bs EXCEPT ![Entry].instrs = <<Alloc(s)>> \o @,
                    ![Entry].list = create_first(@, Alloc(s))],
         Exit, <<Load(s + 1, s), Ret(s + 1)>>)

-----------------------------------------------------------------------------
(* Names. The scope check renames variables until their names differ, but one *)
(* it makes, such as a_1, may be the name of another variable already.        *)

Tmp(n) == <<"t", n>>
Named(v) == <<"v", v>>
SlotName == <<"_retSlot_", 0>>

\* Mutant: an entry that is there already is kept.
PutNew(tab, x, s) ==
    [y \in DOMAIN tab \cup {x} |-> IF y \in DOMAIN tab THEN tab[y] ELSE s]

\* symTab_[x] = s
Put(tab, x, s) ==
    [y \in DOMAIN tab \cup {x} |-> IF y = x THEN s ELSE tab[y]]

\* get_tmp_var, with the symbol it makes
NewTmp(s) ==
    /\ tmps' = tmps + 1
    /\ symTab' = Put(symTab, Tmp(tmps), s)

\* add_var, beside a new symbol
AddVar(v, s) ==
    /\ symTab' = Put(symTab, name[v], s)
    /\ UNCHANGED tmps

-----------------------------------------------------------------------------
Top == frames[Len(frames)]
Rest == SubSeq(frames, 1, Len(frames) - 1)

\* Mutants: the check is forgotten, or looks at the entry block.
Unchecked == FALSE
EntryTerminated == blocks[Entry].term
Terminated == blocks[cur].term

Init ==
    /\ mode = "next" /\ frames = <<[k |-> "block", vis |-> {}]>>
    /\ blocks = <<EmptyBlock, EmptyBlock>>
    /\ cur = Entry /\ val = Literal
    /\ entryB = Null /\ mergeB = Null
    /\ slot = Null /\ nsym = 0 /\ tmps = 0 /\ symTab = <<>>
    /\ irvar = <<>> /\ name = <<>> /\ vis = {} /\ nodes = 0

-----------------------------------------------------------------------------
(* Statements. A visit of a declaration or a statement returns at once when   *)
(* the current block is terminated.                                           *)

AtStmt == mode = "stmt" \/ (mode = "next" /\ Top.k = "block")
AtItem == mode = "next" /\ Top.k = "block"
NextNode == nodes < MaxNodes /\ nodes' = nodes + 1

\* A branch or a body may always be a block, or be skipped: that needs no room
\* in the bound.
HasRoom == (AtItem /\ NextNode) \/ (mode = "stmt" /\ UNCHANGED nodes)

\* Visit an expression, then go on with frame f.
Evaluate(f) ==
    /\ mode' = "exp" /\ frames' = Append(frames, f)

\* The next variable, under a name of its own, one a temporary may get, or one
\* the renaming has given another variable too.
Declare == Len(irvar) + 1
Declares(x) ==
    /\ Declare <= MaxVars
    /\ name' = Append(name, x)
    /\ vis' = vis \cup {Declare}
NewNames == {Named(Declare)} \cup {Tmp(n) : n \in TempLike}
            \cup (IF SlotLike THEN {SlotName} ELSE {})
            \cup (IF Captures THEN {name[v] : v \in DOMAIN name} ELSE {})

SkipStmt ==
    /\ Terminated /\ HasRoom /\ mode' = "next"
    /\ UNCHANGED <<frames, blocks, context, val, slot, symbols, variables>>

SkipDecl(x) ==
    /\ AtItem /\ Terminated /\ NextNode /\ Declares(x)
    /\ irvar' = Append(irvar, Null)
    /\ UNCHANGED <<mode, frames, blocks, context, val, slot, symbols>>

\* int x;
DeclPlain(x) ==
    /\ AtItem /\ ~Terminated /\ NextNode /\ Declares(x)
    /\ blocks' = Emit(blocks, cur, <<Alloc(nsym + 1)>>)
    /\ nsym' = nsym + 1 /\ val' = nsym + 1
    /\ irvar' = Append(irvar, nsym + 1)
    /\ symTab' = Put(symTab, x, nsym + 1)
    /\ UNCHANGED <<mode, frames, context, slot, tmps>>

\* int x = exp; the initializer is lowered before x has an IR variable.
DeclInit(x) ==
    /\ AtItem /\ ~Terminated /\ NextNode /\ Declares(x)
    /\ Evaluate([k |-> "init", var |-> Declare])
    /\ irvar' = Append(irvar, Null)
    /\ UNCHANGED <<blocks, context, val, slot, symbols>>

AfterInit ==
    LET s == nsym + 1
    IN /\ mode = "value" /\ Top.k = "init"
       /\ blocks' = Emit(blocks, cur, <<Alloc(s), Store(val, s)>>)
       /\ nsym' = s /\ val' = s
       /\ irvar' = [irvar EXCEPT ![Top.var] = s]
       /\ AddVar(Top.var, s)
       /\ mode' = "next" /\ frames' = Rest
       /\ UNCHANGED <<context, slot, name, vis, nodes>>

OpenBlock ==
    /\ ~Terminated /\ HasRoom /\ mode' = "next"
    /\ frames' = Append(frames, [k |-> "block", vis |-> vis])
    /\ UNCHANGED <<blocks, context, val, slot, symbols, variables>>

CloseBlock ==
    /\ AtItem
    /\ frames' = Rest
    /\ mode' = IF Len(frames) = 1 THEN "done" ELSE "next"
    /\ vis' = Top.vis
    /\ UNCHANGED <<blocks, context, val, slot, symbols, irvar, name, nodes>>

ExpStmt ==
    /\ AtStmt /\ ~Terminated /\ NextNode /\ Evaluate([k |-> "exp"])
    /\ UNCHANGED <<blocks, context, val, slot, symbols, variables>>

AfterExpStmt ==
    /\ mode = "value" /\ Top.k = "exp"
    /\ mode' = "next" /\ frames' = Rest
    /\ UNCHANGED <<blocks, context, val, slot, symbols, variables, nodes>>

Assign(v) ==
    /\ AtStmt /\ ~Terminated /\ NextNode /\ v \in vis
    /\ Evaluate([k |-> "assign", var |-> v])
    /\ UNCHANGED <<blocks, context, val, slot, symbols, variables>>

\* Function::get_var looks the name up; a name that is not there throws.
AfterAssign ==
    /\ mode = "value" /\ Top.k = "assign"
    /\ frames' = Rest
    /\ IF name[Top.var] \notin DOMAIN symTab
       THEN mode' = "crash" /\ UNCHANGED blocks
       ELSE /\ mode' = "next"
            /\ blocks' = Emit(blocks, cur, <<Store(val, symTab[name[Top.var]])>>)
    /\ UNCHANGED <<context, val, slot, symbols, variables, nodes>>

\* process_return_stmt, once the value is there
StoreAndLeave(v) ==
    LET new == slot = Null
        s   == IF new THEN nsym + 1 ELSE slot
        bs  == IF new THEN WithSlot(blocks, s) ELSE blocks
    IN /\ blocks' = Emit(bs, cur, <<Store(v, s), Jump(Exit)>>)
       /\ slot' = s
       /\ IF new THEN nsym' = nsym + 2 /\ NewTmp(nsym + 2)
                 ELSE UNCHANGED symbols
       /\ mode' = "next"

ReturnVoid ==
    /\ AtStmt /\ ~Terminated /\ NextNode
    /\ StoreAndLeave(Undef)
    /\ UNCHANGED <<frames, context, val, variables>>

ReturnExp ==
    /\ AtStmt /\ ~Terminated /\ NextNode /\ Evaluate([k |-> "ret"])
    /\ UNCHANGED <<blocks, context, val, slot, symbols, variables>>

AfterReturnExp ==
    /\ mode = "value" /\ Top.k = "ret"
    /\ StoreAndLeave(val)
    /\ frames' = Rest
    /\ UNCHANGED <<context, val, variables, nodes>>

-----------------------------------------------------------------------------
(* process_ifelse_stmt                                                        *)

\* An if with neither branch is not lowered at all, its condition included.
IfEmpty ==
    /\ AtStmt /\ ~Terminated /\ NextNode
    /\ mode' = "next"
    /\ UNCHANGED <<frames, blocks, context, val, slot, symbols, variables>>

If(then, else) ==
    /\ AtStmt /\ ~Terminated /\ NextNode /\ (then \/ else)
    /\ Evaluate([k |-> "if", then |-> then, else |-> else])
    /\ UNCHANGED <<blocks, context, val, slot, symbols, variables>>

\* ifStmt_->accept: an if with an else and an empty statement before it goes
\* through the null pointer.
AfterIfCond ==
    LET n     == Len(blocks)
        thenB == n + 1
        elseB == IF Top.else THEN n + 2 ELSE Null
        merge == IF Top.else THEN n + 3 ELSE n + 2
        false == IF Top.else THEN elseB ELSE merge
        bs    == Emit(Create(blocks, merge - n), cur, <<Br(val, thenB, false)>>)
    IN /\ mode = "value" /\ Top.k = "if"
       /\ blocks' = link_bb(link_bb(bs, cur, thenB), cur, false)
       /\ cur' = thenB
       /\ mode' = IF Top.then THEN "stmt" ELSE "crash"
       /\ frames' = Append(Rest, [k |-> "then", else |-> elseB,
                                  merge |-> merge])
       /\ UNCHANGED <<val, entryB, mergeB, slot, symbols, variables, nodes>>

\* Mutant: the jump is left out.
JoinWithoutJump(merge) ==
    link_bb(blocks, cur, IF Terminated THEN Exit ELSE merge)

\* The end of a branch: fall into the merge block unless it is terminated.
JoinAt(merge) ==
    IF Terminated
    THEN link_bb(blocks, cur, Exit)
    ELSE link_bb(Emit(blocks, cur, <<Jump(merge)>>), cur, merge)

AfterThen ==
    /\ mode = "next" /\ Top.k = "then"
    /\ blocks' = JoinAt(Top.merge)
    /\ IF Top.else = Null
       THEN /\ cur' = Top.merge /\ frames' = Rest /\ UNCHANGED mode
       ELSE /\ cur' = Top.else /\ mode' = "stmt"
            /\ frames' = Append(Rest, [k |-> "else", merge |-> Top.merge])
    /\ UNCHANGED <<val, entryB, mergeB, slot, symbols, variables, nodes>>

AfterElse ==
    /\ mode = "next" /\ Top.k = "else"
    /\ blocks' = JoinAt(Top.merge)
    /\ cur' = Top.merge /\ frames' = Rest
    /\ UNCHANGED <<mode, val, entryB, mergeB, slot, symbols, variables, nodes>>

-----------------------------------------------------------------------------
(* process_while_stmt and process_break_continue_stmt                         *)

While(stmt) ==
    LET n == Len(blocks)
        f == [k |-> "while", stmt |-> stmt, entry |-> n + 1, body |-> n + 2,
              merge |-> n + 3, preEntry |-> entryB, preMerge |-> mergeB]
    IN /\ AtStmt /\ ~Terminated /\ NextNode
       /\ blocks' = link_bb(Emit(Create(blocks, 3), cur, <<Jump(n + 1)>>),
                            cur, n + 1)
       /\ cur' = f.entry /\ entryB' = f.entry /\ mergeB' = f.merge
       /\ Evaluate(f)
       /\ UNCHANGED <<val, slot, symbols, variables>>

AfterWhileCond ==
    /\ mode = "value" /\ Top.k = "while"
    /\ blocks' = link_bb(link_bb(
                    Emit(blocks, cur, <<Br(val, Top.body, Top.merge)>>),
                    cur, Top.body), cur, Top.merge)
    /\ cur' = Top.body
    /\ mode' = IF Top.stmt THEN "stmt" ELSE "next"
    /\ frames' = [frames EXCEPT ![Len(frames)].k = "body"]
    /\ UNCHANGED <<val, entryB, mergeB, slot, symbols, variables, nodes>>

\* Mutant: the context of the enclosing loop is not put back.
AfterBodyNoRestore ==
    /\ mode = "next" /\ Top.k = "body"
    /\ blocks' = link_bb(Emit(blocks, cur, <<Jump(Top.entry)>>),
                         cur, Top.entry)
    /\ cur' = Top.merge
    /\ frames' = Rest
    /\ UNCHANGED <<mode, val, entryB, mergeB, slot, symbols, variables, nodes>>

\* The back jump is added whether or not the body is terminated.
AfterBody ==
    /\ mode = "next" /\ Top.k = "body"
    /\ blocks' = link_bb(Emit(blocks, cur, <<Jump(Top.entry)>>),
                         cur, Top.entry)
    /\ cur' = Top.merge
    /\ entryB' = Top.preEntry /\ mergeB' = Top.preMerge
    /\ frames' = Rest
    /\ UNCHANGED <<mode, val, slot, symbols, variables, nodes>>

\* The scope check lets a break or a continue through inside a loop only.
InLoop == \E i \in DOMAIN frames : frames[i].k = "body"

\* Mutant: break goes back to the test, continue leaves the loop.
BreakOrContinueSwapped(isBreak) ==
    /\ AtStmt /\ ~Terminated /\ NextNode /\ InLoop
    /\ blocks' = Emit(blocks, cur, <<Jump(IF isBreak THEN entryB ELSE mergeB)>>)
    /\ mode' = "next"
    /\ UNCHANGED <<frames, context, val, slot, symbols, variables>>

BreakOrContinue(isBreak) ==
    /\ AtStmt /\ ~Terminated /\ NextNode /\ InLoop
    /\ blocks' = Emit(blocks, cur, <<Jump(IF isBreak THEN mergeB ELSE entryB)>>)
    /\ mode' = "next"
    /\ UNCHANGED <<frames, context, val, slot, symbols, variables>>

-----------------------------------------------------------------------------
(* Expressions.                                                               *)

AtExp(kind) == mode = "exp" /\ kind \in Exprs /\ nodes < MaxNodes

\* A literal needs no bound: it ends the expression.
Number ==
    /\ mode = "exp" /\ "num" \in Exprs
    /\ val' = Literal /\ mode' = "value"
    /\ UNCHANGED <<frames, blocks, context, slot, symbols, variables, nodes>>

\* visit(VarAST) reads through the IR variable of the use, here one of a
\* variable: the scope check has put its VarAST in the place of the use.
LVal(v) ==
    /\ AtExp("lval") /\ v \in vis /\ nodes' = nodes + 1
    /\ IF irvar[v] = Null
       THEN mode' = "crash" /\ UNCHANGED <<blocks, symbols, val>>
       ELSE /\ blocks' = Emit(blocks, cur, <<Load(nsym + 1, irvar[v])>>)
            /\ nsym' = nsym + 1 /\ NewTmp(nsym + 1) /\ val' = nsym + 1
            /\ mode' = "value"
    /\ UNCHANGED <<frames, context, slot, variables>>

\* A use nothing was bound to still has the parser's VarAST, which has no IR
\* variable. It can be in any expression. The scope check binds no use it takes
\* for one of a constant, not even of a variable that hides the constant. The
\* second pass replaces those that it finds to be constants, but never comes to
\* an expression statement, drops the number a condition folds to, and finds a
\* variable where one is declared further down or was renamed to that name.
UnboundLVal ==
    /\ AtExp("unbound") /\ nodes' = nodes + 1
    /\ mode' = "crash"
    /\ UNCHANGED <<frames, blocks, context, val, slot, symbols, variables>>

\* A unary plus makes no instruction; !x is x = 0 and -x is 0 - x.
Operation(f, kind) ==
    /\ AtExp(kind) /\ nodes' = nodes + 1
    /\ Evaluate(f)
    /\ UNCHANGED <<blocks, context, val, slot, symbols, variables>>

Unary(op) == Operation([k |-> "unary", op |-> op], "unary")
Binary == Operation([k |-> "opnd1"], "binary")
Logical == Operation([k |-> "lhs"], "logical")

AfterUnary ==
    /\ mode = "value" /\ Top.k = "unary"
    /\ frames' = Rest
    /\ IF Top.op = "+"
       THEN UNCHANGED <<blocks, symbols, val>>
       ELSE /\ blocks' = Emit(blocks, cur,
                  <<IF Top.op = "!" THEN BExpr(nsym + 1, val, Literal)
                                    ELSE BExpr(nsym + 1, Literal, val)>>)
            /\ nsym' = nsym + 1 /\ NewTmp(nsym + 1) /\ val' = nsym + 1
    /\ UNCHANGED <<mode, context, slot, variables, nodes>>

AfterOpnd1 ==
    /\ mode = "value" /\ Top.k = "opnd1"
    /\ mode' = "exp"
    /\ frames' = Append(Rest, [k |-> "opnd2", val1 |-> val])
    /\ UNCHANGED <<blocks, context, val, slot, symbols, variables, nodes>>

AfterOpnd2 ==
    /\ mode = "value" /\ Top.k = "opnd2"
    /\ blocks' = Emit(blocks, cur, <<BExpr(nsym + 1, Top.val1, val)>>)
    /\ nsym' = nsym + 1 /\ NewTmp(nsym + 1) /\ val' = nsym + 1
    /\ frames' = Rest
    /\ UNCHANGED <<mode, context, slot, variables, nodes>>

\* process_short_circuit_eval: the result lives in a slot; the right operand is
\* evaluated in a block of its own.
AfterLhs ==
    LET n    == Len(blocks)
        ret  == nsym + 1
        cond == nsym + 2
        bs   == Emit(Create(blocks, 2), cur,
                     <<Alloc(ret), Store(Literal, ret),
                       BExpr(cond, val, Literal), Br(cond, n + 1, n + 2)>>)
    IN /\ mode = "value" /\ Top.k = "lhs"
       /\ blocks' = link_bb(link_bb(bs, cur, n + 1), cur, n + 2)
       /\ nsym' = nsym + 2 /\ tmps' = tmps + 2
       /\ symTab' = Put(Put(symTab, Tmp(tmps), ret), Tmp(tmps + 1), cond)
       /\ cur' = n + 1
       /\ mode' = "exp"
       /\ frames' = Append(Rest, [k |-> "rhs", ret |-> ret, merge |-> n + 2])
       /\ UNCHANGED <<val, entryB, mergeB, slot, variables, nodes>>

\* The right operand's truth is loaded into the slot, and the slot itself is
\* the value of the expression.
AfterRhs ==
    /\ mode = "value" /\ Top.k = "rhs"
    /\ frames' = Rest
    /\ IF Terminated
       THEN mode' = "crash" /\ UNCHANGED <<blocks, symbols, val, cur>>
       ELSE /\ blocks' = link_bb(
                  Emit(blocks, cur, <<BExpr(nsym + 1, val, Literal),
                                      Load(Top.ret, nsym + 1),
                                      Jump(Top.merge)>>), cur, Top.merge)
            /\ nsym' = nsym + 1 /\ NewTmp(nsym + 1) /\ val' = Top.ret
            /\ cur' = Top.merge
            /\ UNCHANGED mode
    /\ UNCHANGED <<entryB, mergeB, slot, variables, nodes>>

-----------------------------------------------------------------------------
Statement ==
    \/ SkipStmt \/ OpenBlock \/ CloseBlock
    \/ \E x \in NewNames : SkipDecl(x) \/ DeclPlain(x) \/ DeclInit(x)
    \/ ExpStmt \/ ReturnVoid \/ ReturnExp \/ IfEmpty
    \/ \E v \in vis : Assign(v)
    \/ \E then, else \in BOOLEAN : If(then, else)
    \/ \E b \in BOOLEAN : While(b) \/ BreakOrContinue(b)

Expression ==
    \/ Number \/ UnboundLVal \/ Binary \/ Logical
    \/ \E v \in vis : LVal(v)
    \/ \E op \in {"+", "-", "!"} : Unary(op)

Continue ==
    \/ AfterInit \/ AfterExpStmt \/ AfterAssign \/ AfterReturnExp
    \/ AfterIfCond \/ AfterThen \/ AfterElse \/ AfterWhileCond \/ AfterBody
    \/ AfterUnary \/ AfterOpnd1 \/ AfterOpnd2 \/ AfterLhs \/ AfterRhs

Over == mode \in {"done", "crash"} /\ UNCHANGED vars

Next == Statement \/ Expression \/ Continue \/ Over
Spec == Init /\ [][Next]_vars

-----------------------------------------------------------------------------
(* Properties.                                                                *)

Symbols == 0..nsym
BlockNums == 0..Len(blocks)

\* Every variable has its type, and instructions name existing symbols and
\* blocks: no branch has a null target.
TypeOK ==
    /\ mode \in {"next", "stmt", "exp", "value", "done", "crash"}
    /\ \A b \in DOMAIN blocks :
          /\ blocks[b].term \in BOOLEAN
          /\ blocks[b].pre \in Seq(DOMAIN blocks)
          /\ blocks[b].next \in Seq(DOMAIN blocks)
          /\ \A i \in DOMAIN blocks[b].instrs :
                LET ins == blocks[b].instrs[i]
                IN /\ ins.def \in Symbols /\ Used(ins) \subseteq Symbols
                   /\ ins.to \in Seq(DOMAIN blocks)
    /\ cur \in DOMAIN blocks /\ {entryB, mergeB} \subseteq BlockNums
    /\ {val, slot} \subseteq Symbols /\ irvar \in Seq(Symbols)
    /\ {nsym, tmps} \subseteq Nat /\ Len(name) = Len(irvar)
    /\ \A x \in DOMAIN symTab : symTab[x] \in Symbols
    /\ vis \subseteq DOMAIN irvar /\ nodes \in 0..MaxNodes

LoopFrames == {i \in DOMAIN frames : frames[i].k \in {"while", "body"}}

\* break and continue go to the innermost loop whose visit is in progress: the
\* two context fields are put back when a nested loop ends.
WhileContext ==
    mode \notin {"done", "crash"} =>
        IF LoopFrames = {}
        THEN entryB = Null /\ mergeB = Null
        ELSE \E i \in LoopFrames :
                /\ \A j \in LoopFrames : j <= i
                /\ entryB = frames[i].entry /\ mergeB = frames[i].merge

\* The instruction that leaves a block: the first end instruction.
Ends(b) == {i \in DOMAIN blocks[b].instrs : IsEnd(blocks[b].instrs[i])}
Leave(b) == CHOOSE i \in Ends(b) : \A j \in Ends(b) : i <= j
Targets(b) == IF Ends(b) = {} THEN {}
              ELSE LET to == blocks[b].instrs[Leave(b)].to
                   IN {to[i] : i \in DOMAIN to}

\* What a frame still owes an end to, because the walk will come back to it.
Owed(f) ==
    CASE f.k = "while" -> {f.body, f.merge}
      [] f.k = "else"  -> {f.merge}
      [] f.k = "then"  -> {f.else, f.merge}
      [] f.k \in {"body", "rhs"} -> {f.merge}
      [] OTHER -> {}

\* No block is left behind open: one that does not end yet is the current one,
\* or one a visit in progress will come back to, or the exit before the first
\* return. When the walk is over only the last block can be open.
OpenEnds ==
    \A b \in DOMAIN blocks :
        \/ blocks[b].term
        \/ b = cur \/ (b = Exit /\ slot = Null)
        \/ \E i \in DOMAIN frames : b \in Owed(frames[i])

\* The flag is what the instructions say, and nothing is lowered behind the
\* end of a block but the back jump of a loop whose body has left already.
DeadTail ==
    \A b \in DOMAIN blocks :
        /\ blocks[b].term <=> Ends(b) # {}
        /\ Ends(b) # {} =>
              LET n == Len(blocks[b].instrs)
              IN \/ Leave(b) = n
                 \/ /\ Leave(b) = n - 1
                    /\ blocks[b].instrs[n - 1].op = "jump"
                    /\ blocks[b].instrs[n].op = "jump"

\* The return slot is made once, at the head of the entry block; the exit block
\* reads it and returns, and whoever goes there has just stored it.
ReturnProtocol ==
    /\ IF slot = Null THEN blocks[Exit].instrs = <<>>
       ELSE /\ blocks[Entry].instrs[1] = Alloc(slot)
            /\ Len(blocks[Exit].instrs) = 2
            /\ blocks[Exit].instrs[1].args = <<slot>>
    /\ \A b \in DOMAIN blocks : \A i \in DOMAIN blocks[b].instrs :
          blocks[b].instrs[i] = Jump(Exit) =>
             LET ins == blocks[b].instrs[i - 1]
             IN slot # Null /\ ins.op = "store" /\ ins.args[2] = slot

\* The blocks the function can be in before it has defined symbol s: a path
\* from the entry leads to them through no block that defines s.
DefinedIn(b, s) ==
    \E i \in DOMAIN blocks[b].instrs :
        /\ blocks[b].instrs[i].def = s
        /\ \A j \in Ends(b) : i < j
Without(s) ==
    LET reach[n \in 0..Len(blocks)] ==
          IF n = 0 THEN {Entry}
          ELSE LET r == reach[n - 1]
               IN r \cup UNION {Targets(b) : b \in {c \in r : ~DefinedIn(c, s)}}
    IN reach[Len(blocks)]

\* A variable of the program and a temporary of the compiler share a name.
NameTaken(v) == \E n \in 0..(tmps - 1) : name[v] = Tmp(n)

\* The renaming gave two variables one name.
Shared(v) == \E u \in DOMAIN name \ {v} : name[u] = name[v]

\* Whatever way the function takes, an instruction that is executed uses only
\* symbols that were defined before it, in a program where each variable has its
\* name to itself (in another an assignment may write to a temporary, or to a
\* variable that was declared on another way).
DefsReachUses ==
    mode = "done" /\ (\A v \in DOMAIN name : ~NameTaken(v) /\ ~Shared(v)) =>
        \A b \in DOMAIN blocks : \A i \in DOMAIN blocks[b].instrs :
            (\A j \in Ends(b) : i <= j) =>
                \A s \in Used(blocks[b].instrs[i]) :
                    \/ \E j \in 1..(i - 1) : blocks[b].instrs[j].def = s
                    \/ b \notin Without(s)

Initializing(v) == \E i \in DOMAIN frames : frames[i] = [k |-> "init", var |-> v]

\* Where code is still lowered, every variable the program may use there has its
\* symbol, though declarations behind the end of a block are skipped; only a
\* variable in its own initializer has none yet.
VisibleLowered ==
    ~blocks[cur].term => \A v \in vis : irvar[v] # Null \/ Initializing(v)

\* The table has an entry for the name of v: a variable of that name that was
\* lowered after v, or v itself.
Latest(v) ==
    /\ name[v] \in DOMAIN symTab
    /\ \E u \in DOMAIN name : /\ name[u] = name[v] /\ irvar[u] >= irvar[v]
                              /\ symTab[name[v]] = irvar[u]

\* A use reads the symbol stored in its VarAST, an assignment writes the one
\* found under its name: that of the variable of this name that was lowered
\* last, so the same one if the name is not shared, unless a temporary has it.
NamesAgree ==
    \A v \in DOMAIN name : irvar[v] # Null /\ ~NameTaken(v) => Latest(v)

\* The walk ends early at a null pointer only, and only at these: an if with an
\* else whose first branch is the empty statement, a variable read in its own
\* initializer, and a use the passes before have left unbound, which is the only
\* null there is when every variable in sight has its symbol. No assignment
\* misses its name, and no operand of a logical operator ends its block.
WalkStops ==
    mode # "crash" /\ mode' = "crash" =>
        \/ mode = "value" /\ Top.k = "if" /\ ~Top.then
        \/ mode = "exp" /\ \E v \in vis : Initializing(v)
        \/ /\ mode = "exp" /\ "unbound" \in Exprs
           /\ \A v \in vis : irvar[v] # Null
CrashesKnown == [][WalkStops]_vars
=============================================================================
