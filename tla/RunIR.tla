-------------------------------- MODULE RunIR --------------------------------
(* The IR of GenIR, run. While the function is lowered its AST is written     *)
(* down, and which node each store and each branch was made for. When it is   *)
(* done the blocks are run, from one of those instructions to the next: the   *)
(* run follows module SourceProgram.                                          *)
EXTENDS GenIR, SequencesExt

VARIABLES
    tree,       \* the AST, as in SourceProgram
    path,       \* the node of each visit in progress
    origin,     \* for each block, the nodes its stores and branches are for
    pc          \* the next of them to run, by block and position

runVars == <<vars, tree, path, origin, pc>>

\* A run that has not begun, and three ways to end: behind the block the
\* lowering left open, on a return, and behind any other block.
NotBegun == <<0, 0>>
Ended == <<0, -1>>
Returned == <<0, -2>>
Stuck == <<0, -3>>

Acts(ins) == ins.op \in {"store", "br"}
ActsOf(b) == SelectSeq(blocks[b].instrs, Acts)

\* Where the run comes to by itself, from behind the first k actions of b.
RECURSIVE Lead(_, _)
Lead(b, k) ==
    CASE k < Len(ActsOf(b)) -> <<b, k + 1>>
      [] Ends(b) = {} -> IF b = cur THEN Ended ELSE Stuck
      [] OTHER -> LET ins == blocks[b].instrs[Leave(b)]
                  IN  IF ins.op = "ret" THEN Returned ELSE Lead(ins.to[1], 0)

-----------------------------------------------------------------------------
RunInit ==
    /\ Init /\ pc = NotBegun
    /\ tree = <<[k |-> "block", in |-> Null, part |-> "function"]>>
    /\ path = <<1>> /\ origin = <<<<>>, <<>>>>

\* A step of the lowering, which visits the nodes of new for the first time.
\* What it emits is for that node, or for the one it goes on with.
Writes(new) ==
    /\ tree' = tree \o new
    /\ path' = [i \in DOMAIN frames' |->
                   IF i <= Len(path) THEN path[i] ELSE Len(tree')]
    /\ LET made(b) == IF b \in DOMAIN origin THEN origin[b] ELSE <<>>
           node == IF new = <<>> THEN Last(path) ELSE Len(tree')
       IN  origin' = [b \in DOMAIN blocks' |->
               made(b) \o [i \in 1..Len(ActsOf(b)') - Len(made(b)) |-> node]]
    /\ UNCHANGED pc
Node(k) == Writes(<<[k |-> k, in |-> Last(path), part |-> Top.k]>>)

\* Bound: the program begins with the declaration of the variable it assigns.
Lower ==
    IF nodes = 0 THEN \E x \in NewNames : DeclPlain(x) /\ Node("decl")
    ELSE \/ SkipStmt /\ Node("skipped")
         \/ OpenBlock /\ Node("block")
         \/ ExpStmt /\ Node("exp")
         \/ \E v \in vis : Assign(v) /\ Node("assign")
         \/ (ReturnVoid \/ ReturnExp) /\ Node("ret")
         \/ IfEmpty /\ Node("empty")
         \/ \E then, else \in BOOLEAN : If(then, else) /\ Node("if")
         \/ \E b \in BOOLEAN : While(b) /\ Node("while")
         \/ BreakOrContinue(TRUE) /\ Node("break")
         \/ BreakOrContinue(FALSE) /\ Node("continue")
         \/ (CloseBlock \/ Expression \/ Continue) /\ Writes(<<>>)

Start ==
    /\ mode = "done" /\ pc = NotBegun /\ pc' = Lead(Entry, 0)
    /\ UNCHANGED <<vars, tree, path, origin>>

\* A store goes on in its block, a branch to either of its targets.
Execute ==
    /\ pc[1] # 0
    /\ LET ins == ActsOf(pc[1])[pc[2]]
       IN  IF ins.op = "store" THEN pc' = Lead(pc[1], pc[2])
           ELSE \E way \in 1..2 : pc' = Lead(ins.to[way], 0)
    /\ UNCHANGED <<vars, tree, path, origin>>

RunNext == Lower \/ Start \/ Execute
RunSpec == RunInit /\ [][RunNext]_runVars

-----------------------------------------------------------------------------
\* Follows: run the blocks, and the assignments, tests and returns of the source
\* come in the order the source says, for every outcome of the tests: an if
\* takes the branch of its outcome, a loop comes back to its test, break and
\* continue go to the innermost loop, nothing is skipped that could be reached,
\* and the function ends by itself exactly when the source does
\* (process_ifelse_stmt, process_while_stmt, process_break_continue_stmt,
\* process_return_stmt).
Source == INSTANCE SourceProgram WITH
              here <- IF pc[1] = 0 THEN pc[2] ELSE origin[pc[1]][pc[2]]
Follows == Source!SourceSpec
=============================================================================
