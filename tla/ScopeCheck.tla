----------------------------- MODULE ScopeCheck -----------------------------
(* The first pass of the compiler, ScopeCheckerVisitor with its ScopeCheckCtx *)
(* (src/ast/SemanticCheck.cc), over the symbol tables of src/ast/BaseAST.hh:  *)
(* it declares, binds every use of a variable to the VarAST of its            *)
(* declaration, rejects bad programs, and at the end of the function renames  *)
(* the variables that share a name.                                           *)
(*                                                                            *)
(* The program is not fixed in advance: each visit of a node picks the node   *)
(* the parser could have produced there, and "ast" records the nodes in the   *)
(* order every visitor meets them, so that later passes can replay them.      *)
EXTENDS Integers, Sequences, FiniteSetsExt

CONSTANTS
    Base,       \* what an identifier is made of before any "_n" suffix
    Names,      \* the identifiers the source program may use
    Stmts,      \* bound: the kinds of statement the source program may use
    MaxBlocks,  \* bound: blocks in the program
    MaxDecls,   \* bound: declarations in the program
    MaxNodes,   \* bound: recorded nodes
    MaxDepth,   \* bound: nested visits
    MaxUses     \* bound: identifiers read by one expression

\* An identifier is a base and the numbers appended to it: <<1>> is "_1".
Ident == [base : Base, sfx : Seq(Nat)]

ASSUME NamesAssumption == Names \subseteq Ident
ASSUME BoundAssumption ==
    /\ {MaxBlocks, MaxDecls, MaxNodes, MaxDepth, MaxUses} \subseteq Nat
    /\ Stmts \subseteq {"block", "assign", "ret", "exp", "if", "while", "jump"}

VARIABLES
    pass,       \* "scope", "rename", then "replay"; "throw" is final
    err,        \* the ASTCheckFailed that ended the pass
    scopes,     \* ScopeCheckCtx::scopes_, as a stack of block numbers
    underWhile, \* ScopeCheckCtx::isUnderWhile_
    record,     \* ScopeCheckCtx::namedVarRecord_: the tables that got a var
    pending,    \* the names the rename loop has still to visit
    tab,        \* the SymTabAST of each block
    decls,      \* each declaration as written: name, block, const or not
    ident,      \* VarAST::ident_ of each declaration
    frames,     \* the visits in progress: the C++ call stack
    ast         \* the nodes visited so far, in visiting order

scopeVars == <<pass, err, scopes, underWhile, record, pending, tab, decls,
               ident, frames, ast>>

-----------------------------------------------------------------------------
(* Symbol tables: a table is a function from the identifiers it holds.        *)

NoDecl == 0
INT32_MIN == {NoDecl}   \* the placeholder value of a constant

\* A value is the set of declarations whose literals it was computed from.
ConstEntry(val) == [const |-> TRUE, val |-> val, var |-> NoDecl]
VarEntry(d) == [const |-> FALSE, val |-> {}, var |-> d]

add_sym(t, x, entry) ==
    [y \in DOMAIN t \cup {x} |-> IF y = x THEN entry ELSE t[y]]
remove_sym(t, x) == [y \in DOMAIN t \ {x} |-> t[y]]

\* sym + "_" + std::to_string(n)
Renamed(x, n) == [x EXCEPT !.sfx = Append(@, n)]

\* Mutant: push_scope pushes a block that is not there yet.
push_scope_off_by_one(b) == Append(scopes, b + 1)
push_scope(b) == Append(scopes, b)
pop_scope == SubSeq(scopes, 1, Len(scopes) - 1)
Cur == scopes[Len(scopes)]

Holders(t, x) == {i \in DOMAIN scopes : x \in DOMAIN t[scopes[i]]}

\* Mutant: only the current scope is searched.
has_sym_local(t, x) == x \in DOMAIN t[Cur]
has_sym(t, x) == Holders(t, x) # {}

\* Mutant: the scopes are searched from the outermost one.
Outermost(t, x) == t[scopes[Min(Holders(t, x))]][x]
Innermost(t, x) == t[scopes[Max(Holders(t, x))]][x]
get_sym_var(t, x) == Innermost(t, x).var

\* Any enclosing scope that holds x as a constant makes x a constant.
sym_is_const(t, x) == \E i \in Holders(t, x) : t[scopes[i]][x].const

-----------------------------------------------------------------------------
(* What C says, from the declarations as written: the latest declaration of x *)
(* in a block that is still open. It is recorded beside every use and never   *)
(* read by the visitor.                                                       *)

Open == {scopes[i] : i \in DOMAIN scopes}
Visible(ds, x) == {d \in DOMAIN ds : ds[d].name = x /\ ds[d].block \in Open}
Lexical(ds, x) == Max(Visible(ds, x) \cup {NoDecl})

-----------------------------------------------------------------------------
\* A visit in progress: the statements it may still visit, the flag it saved,
\* and how many scopes are open during it.
Frame == [kind : {"block", "while", "if"}, left : 0..2, saved : BOOLEAN,
          depth : Nat]
BlockFrame(depth) ==
    [kind |-> "block", left |-> 0, saved |-> FALSE, depth |-> depth]
StmtFrame(kind, left) ==
    [kind |-> kind, left |-> left, saved |-> underWhile, depth |-> Len(scopes)]
Top == frames[Len(frames)]

Node(kind, at) == [kind |-> kind, at |-> at, lex |-> NoDecl, uses |-> <<>>]

NoErr == [kind |-> "none", sym |-> "none"]

Init ==
    /\ pass = "scope" /\ err = NoErr
    /\ scopes = <<1>> /\ underWhile = FALSE
    /\ record = [x \in Names |-> <<>>] /\ pending = {}
    /\ tab = << <<>> >> /\ decls = <<>> /\ ident = <<>>
    /\ frames = <<BlockFrame(1)>> /\ ast = <<Node("open", 1)>>

Room == Len(ast) < MaxNodes

\* A statement may be visited next: as an item of a block, or as a branch of
\* an if or the body of a while, which are single statements.
AtStmt(kind) ==
    /\ pass = "scope" /\ (Top.kind = "block" \/ Top.left > 0)
    /\ Room /\ kind \in Stmts
AtItem == pass = "scope" /\ Top.kind = "block"
Entered == [frames EXCEPT ![Len(frames)].left = IF @ = 0 THEN 0 ELSE @ - 1]

Exps == UNION {[1..n -> Names] : n \in 0..MaxUses}

Throw(kind, x) == pass' = "throw" /\ err' = [kind |-> kind, sym |-> x]

Undefined(t, xs) == {i \in DOMAIN xs : ~has_sym(t, xs[i])}

\* visit(ExpAST): the first undefined identifier throws; a constant keeps the
\* VarAST the parser made for the use, a variable gets the declared VarAST.
Use(t, ds, x) ==
    [name |-> x,
     var |-> IF sym_is_const(t, x) THEN NoDecl ELSE get_sym_var(t, x),
     lex |-> Lexical(ds, x)]

VisitExp(t, ds, node, xs) ==
    \/ /\ Undefined(t, xs) # {}
       /\ Throw("undefined", xs[Min(Undefined(t, xs))])
       /\ UNCHANGED ast
    \/ /\ Undefined(t, xs) = {}
       /\ ast' = Append(ast, [node EXCEPT !.uses =
                                [i \in DOMAIN xs |-> Use(t, ds, xs[i])]])
       /\ UNCHANGED <<pass, err>>

-----------------------------------------------------------------------------
(* Blocks and declarations.                                                   *)

OpenBlock ==
    /\ AtStmt("block") /\ Len(tab) < MaxBlocks /\ Len(frames) < MaxDepth
    /\ tab' = Append(tab, <<>>)
    /\ scopes' = push_scope(Len(tab) + 1)
    /\ frames' = Append(Entered, BlockFrame(Len(scopes) + 1))
    /\ ast' = Append(ast, Node("open", Len(tab) + 1))
    /\ UNCHANGED <<pass, err, underWhile, record, pending, decls, ident>>

\* The visit of the function's own block ends the walk and starts the renaming.
CloseBlock ==
    /\ AtItem
    /\ ast' = Append(ast, Node("close", Cur))
    /\ scopes' = pop_scope
    /\ frames' = SubSeq(frames, 1, Len(frames) - 1)
    /\ IF Len(frames) > 1
       THEN UNCHANGED <<pass, pending>>
       ELSE /\ pass' = "rename"
            /\ pending' = {x \in Names : Len(record[x]) > 1}
    /\ UNCHANGED <<err, underWhile, record, tab, decls, ident>>

Redefine(x) ==
    /\ AtItem /\ Room
    /\ x \in DOMAIN tab[Cur]
    /\ Throw("redefined", x)
    /\ UNCHANGED <<scopes, underWhile, record, pending, tab, decls, ident,
                   frames, ast>>

\* The entry is in the table before the initializer is visited.
Decl(x, const, xs) ==
    LET d  == Len(decls) + 1
        ds == Append(decls, [name |-> x, block |-> Cur, const |-> const])
        t  == [tab EXCEPT ![Cur] = add_sym(@, x,
                 IF const THEN ConstEntry(INT32_MIN) ELSE VarEntry(d))]
    IN /\ AtItem /\ Room /\ Len(decls) < MaxDecls
       /\ x \notin DOMAIN tab[Cur]
       /\ tab' = t
       /\ decls' = ds
       /\ ident' = Append(ident, x)
       /\ VisitExp(t, ds, Node(IF const THEN "const" ELSE "var", d), xs)
       /\ UNCHANGED <<scopes, underWhile, pending, frames>>

\* Mutant: constants are recorded for renaming as well.
RecordedConstDecl(x, xs) ==
    /\ Decl(x, TRUE, xs)
    /\ record' = [record EXCEPT ![x] = Append(@, Cur)]

ConstDecl(x, xs) == Decl(x, TRUE, xs) /\ UNCHANGED record

VarDecl(x, xs) ==
    /\ Decl(x, FALSE, xs)
    /\ record' = [record EXCEPT ![x] = Append(@, Cur)]

-----------------------------------------------------------------------------
(* Statements.                                                                *)

Assign(x, xs) ==
    /\ AtStmt("assign")
    /\ \/ /\ ~has_sym(tab, x)
          /\ Throw("undefined", x) /\ UNCHANGED ast
       \/ /\ has_sym(tab, x) /\ sym_is_const(tab, x)
          /\ Throw("const lval", x) /\ UNCHANGED ast
       \/ /\ has_sym(tab, x) /\ ~sym_is_const(tab, x)
          /\ VisitExp(tab, decls,
                      [Node("assign", get_sym_var(tab, x))
                         EXCEPT !.lex = Lexical(decls, x)], xs)
    /\ frames' = Entered
    /\ UNCHANGED <<scopes, underWhile, record, pending, tab, decls, ident>>

\* return exp; and exp; differ only in what the later passes do with them.
ReturnOrExp(kind, xs) ==
    /\ AtStmt(kind)
    /\ VisitExp(tab, decls, Node(kind, NoDecl), xs)
    /\ frames' = Entered
    /\ UNCHANGED <<scopes, underWhile, record, pending, tab, decls, ident>>

If(xs) ==
    /\ AtStmt("if") /\ Len(frames) < MaxDepth
    /\ VisitExp(tab, decls, Node("cond", NoDecl), xs)
    /\ frames' = Append(Entered, StmtFrame("if", 2))
    /\ UNCHANGED <<scopes, underWhile, record, pending, tab, decls, ident>>

While(xs) ==
    /\ AtStmt("while") /\ Len(frames) < MaxDepth
    /\ VisitExp(tab, decls, Node("cond", NoDecl), xs)
    /\ frames' = Append(Entered, StmtFrame("while", 1))
    /\ underWhile' = TRUE
    /\ UNCHANGED <<scopes, record, pending, tab, decls, ident>>

\* Mutant: the end of any loop clears the flag.
Cleared == IF Top.kind = "while" THEN FALSE ELSE underWhile
Restored == IF Top.kind = "while" THEN Top.saved ELSE underWhile

\* A branch or a body the program leaves out is simply not visited.
EndStmt ==
    /\ pass = "scope" /\ Top.kind \in {"if", "while"}
    /\ frames' = SubSeq(frames, 1, Len(frames) - 1)
    /\ underWhile' = Restored
    /\ UNCHANGED <<pass, err, scopes, record, pending, tab, decls, ident, ast>>

BreakOrContinue ==
    /\ AtStmt("jump")
    /\ \/ ~underWhile /\ Throw("loop control", "none") /\ UNCHANGED ast
       \/ /\ underWhile
          /\ ast' = Append(ast, Node("jump", NoDecl))
          /\ UNCHANGED <<pass, err>>
    /\ frames' = Entered
    /\ UNCHANGED <<scopes, underWhile, record, pending, tab, decls, ident>>

-----------------------------------------------------------------------------
(* handle_same_name_var_within_func: an unordered_map gives the names in any  *)
(* order; the tables of one name are visited in the order they got it.        *)

\* Mutant: the counter stands still.
Stuck(x, b) == IF \E i \in DOMAIN record[x] : record[x][i] = b THEN 1 ELSE 0
Turn(x, b) == Max({i \in DOMAIN record[x] : record[x][i] = b} \cup {0})
Renaming(x) == {b \in DOMAIN tab : Turn(x, b) # 0}

\* Mutant: the table learns the new name, the VarAST does not.
KeepIdent(x, d) == ident[d]
set_ident(x, d) ==
    LET Mine == {b \in Renaming(x) : tab[b][x].var = d}
    IN IF Mine = {} THEN ident[d] ELSE Renamed(x, Turn(x, Max(Mine)))

RenameSym(x) ==
    /\ pass = "rename" /\ x \in pending
    /\ ident' = [d \in DOMAIN ident |-> set_ident(x, d)]
    /\ tab' = [b \in DOMAIN tab |->
                 IF b \in Renaming(x)
                 THEN remove_sym(add_sym(tab[b], Renamed(x, Turn(x, b)),
                                         VarEntry(tab[b][x].var)), x)
                 ELSE tab[b]]
    /\ pending' = pending \ {x}
    /\ UNCHANGED <<pass, err, scopes, underWhile, record, decls, frames, ast>>

FinishRename ==
    /\ pass = "rename" /\ pending = {}
    /\ pass' = "replay"
    /\ record' = [x \in Names |-> <<>>]
    /\ UNCHANGED <<err, scopes, underWhile, pending, tab, decls, ident, frames,
                   ast>>

-----------------------------------------------------------------------------
ScopeNext ==
    \/ OpenBlock \/ CloseBlock \/ EndStmt \/ BreakOrContinue
    \/ \E x \in Names : Redefine(x)
    \/ \E x \in Names, xs \in Exps :
          ConstDecl(x, xs) \/ VarDecl(x, xs) \/ Assign(x, xs)
    \/ \E xs \in Exps : If(xs) \/ While(xs)
    \/ \E kind \in {"ret", "exp"}, xs \in Exps : ReturnOrExp(kind, xs)
    \/ \E x \in Names : RenameSym(x)
    \/ FinishRename

\* The pass is over: the next visitor starts, or the program has terminated.
ScopeDone == pass \in {"replay", "throw"}
ScopeOver == ScopeDone /\ UNCHANGED scopeVars

Next == ScopeNext \/ ScopeOver
Spec == Init /\ [][Next]_scopeVars

-----------------------------------------------------------------------------
(* Properties.                                                                *)

Entry == [const : BOOLEAN, val : SUBSET Nat, var : Nat]
UseType == [name : Names, var : Nat, lex : Nat]
NodeType == [kind : {"open", "close", "const", "var", "assign", "ret", "exp",
                     "cond", "jump"},
             at : Nat, lex : Nat, uses : Seq(UseType)]

\* Every variable has its type; tables hold entries under identifiers.
TypeOK ==
    /\ pass \in {"scope", "rename", "replay", "throw"}
    /\ scopes \in Seq(DOMAIN tab)
    /\ underWhile \in BOOLEAN
    /\ record \in [Names -> Seq(DOMAIN tab)]
    /\ pending \subseteq Names
    /\ \A b \in DOMAIN tab : \A x \in DOMAIN tab[b] :
          x \in Ident /\ tab[b][x] \in Entry
    /\ decls \in Seq([name : Names, block : DOMAIN tab, const : BOOLEAN])
    /\ DOMAIN ident = DOMAIN decls /\ ident \in Seq(Ident)
    /\ frames \in Seq(Frame)
    /\ ast \in Seq(NodeType)

\* The visitor finds what C means: a use or an assignment that the pass binds
\* is bound to the declaration that is lexically visible there, whatever was
\* declared in the blocks in between; a use of a constant is left unbound; and
\* no accepted assignment writes a constant (visit(StmtAST), visit(ExpAST)).
BindingLexical ==
    \A i \in DOMAIN ast :
        /\ \A j \in DOMAIN ast[i].uses :
              LET u == ast[i].uses[j]
              IN /\ u.lex # NoDecl
                 /\ u.var # NoDecl => u.var = u.lex
                 /\ decls[u.lex].const => u.var = NoDecl
        /\ ast[i].kind = "assign" =>
              /\ ast[i].at = ast[i].lex /\ ast[i].lex # NoDecl
              /\ ~decls[ast[i].lex].const

\* A program is rejected for an undefined or a redefined name, or for a break
\* outside a loop, only if it has that error by the declarations as written.
ErrorsJustified ==
    pass = "throw" =>
        /\ err.kind = "undefined" => Lexical(decls, err.sym) = NoDecl
        /\ err.kind = "redefined" => \E d \in DOMAIN decls :
                                        /\ decls[d].name = err.sym
                                        /\ decls[d].block = Cur
        /\ err.kind = "loop control" => \A i \in DOMAIN frames :
                                           frames[i].kind # "while"

\* isUnderWhile_, saved in one visit and restored when it returns, is set
\* exactly while the visit of some while statement is in progress.
LoopFlag ==
    pass = "scope" =>
        (underWhile <=> \E i \in DOMAIN frames : frames[i].kind = "while")

\* The renaming never asks a table for a name it lost, or for the variable of
\* a constant: table_.at and std::get would throw (BaseAST.hh:85-86).
RenameSafe ==
    pass = "rename" =>
        \A x \in pending : \A i \in DOMAIN record[x] :
            LET t == tab[record[x][i]] IN x \in DOMAIN t /\ ~t[x].const

\* No name in the program is what the renaming makes of another one.
CleanNames ==
    \A d, e \in DOMAIN decls : \A n \in DOMAIN decls :
        decls[e].name # Renamed(decls[d].name, n)

\* After the pass no two variables of the function share a name: GenIR keeps
\* them in one table for the whole function, by name (FunctionIR.hh:33).
RenamedUnique ==
    pass = "replay" /\ CleanNames =>
        \A d, e \in DOMAIN decls :
            ~decls[d].const /\ ~decls[e].const /\ ident[d] = ident[e] => d = e

\* After the pass the table of its block still holds every declaration, a
\* variable under its new name and a constant under the name it had.
TablesKeepDecls ==
    pass = "replay" /\ CleanNames =>
        \A d \in DOMAIN decls :
            LET t == tab[decls[d].block]
            IN /\ ident[d] \in DOMAIN t
               /\ t[ident[d]].const = decls[d].const
               /\ ~decls[d].const => t[ident[d]].var = d

\* "Use const var '%s' as LVal": the rejected name denotes a constant.
ConstLvalJustified ==
    pass = "throw" /\ err.kind = "const lval" =>
        decls[Lexical(decls, err.sym)].const
=============================================================================
