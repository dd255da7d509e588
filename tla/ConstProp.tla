------------------------------ MODULE ConstProp ------------------------------
(* The second pass, ConstPropVisitor with its ConstPropCtx                    *)
(* (src/ast/ConstProp.cc), composed with the first: it walks the same AST     *)
(* again over the symbol tables the first pass left, computes the constants   *)
(* and puts their values where they are used. The first pass filled every     *)
(* table to the end of its block and renamed variables in it, so a name can   *)
(* mean something else to the second walk than it meant to the first.         *)
(*                                                                            *)
(* A value is the set of constants whose literals it was folded from: two     *)
(* values are equal in the model only when they are computed from the same    *)
(* declarations. Arithmetic is the subject of other modules.                  *)
EXTENDS ScopeCheck

VARIABLES
    stage,      \* "visit", then "done"; "throw" and "abort" are final
    cscopes,    \* ConstPropCtx::scopes_, as a stack of block numbers
    out         \* per visited node, what its uses were replaced by

cpVars == <<stage, cscopes, out>>
allVars == <<scopeVars, cpVars>>

CPInit == Init /\ stage = "visit" /\ cscopes = <<>> /\ out = <<>>

\* The node visited next; the visitor meets the nodes in the recorded order.
Pc == Len(out) + 1
At(kinds) ==
    /\ pass = "replay" /\ stage = "visit"
    /\ Pc \in DOMAIN ast /\ ast[Pc].kind \in kinds
Here == ast[Pc]

-----------------------------------------------------------------------------
(* visit(ExpAST): a leaf that names a constant becomes its value.             *)

\* VarAST::repr() of a use: a bound one shows the new name of its declaration.
Repr(u) == IF u.var = NoDecl THEN u.name ELSE ident[u.var]

\* Mutant: only the current scope is searched.
CPHoldersLocal(x) ==
    {i \in {Len(cscopes)} \cap DOMAIN cscopes : x \in DOMAIN tab[cscopes[i]]}
CPHolders(x) == {i \in DOMAIN cscopes : x \in DOMAIN tab[cscopes[i]]}

\* Mutant: the scopes are searched from the outermost one.
FoundOutermost(x) == tab[cscopes[Min(CPHolders(x))]][x]
Found(x) == tab[cscopes[Max(CPHolders(x))]][x]

\* sym_is_const and get_sym_const: the innermost scope decides, and a name no
\* scope holds runs into assert(false).
Lost(uses) == \E j \in DOMAIN uses : CPHolders(Repr(uses[j])) = {}
Raw(u) == [num |-> FALSE, val |-> {}, var |-> u.var]
Visited(u) ==
    LET e == Found(Repr(u))
    IN IF e.const THEN [num |-> TRUE, val |-> e.val, var |-> NoDecl] ELSE Raw(u)

Results(uses) == [j \in DOMAIN uses |-> Visited(uses[j])]
Unvisited(uses) == [j \in DOMAIN uses |-> Raw(uses[j])]

\* Mutant: an expression of literals alone does not count as a number.
FoldsNonLiteral(res) == res # <<>> /\ \A j \in DOMAIN res : res[j].num

\* An expression folds to one number when all its leaves are numbers.
Folds(res) == \A j \in DOMAIN res : res[j].num

FoldedVal(res) == UNION {res[j].val : j \in DOMAIN res}

Abort ==
    /\ At({"const", "var", "assign", "ret", "cond"}) /\ Lost(Here.uses)
    /\ stage' = "abort"
    /\ UNCHANGED <<scopeVars, cscopes, out>>

Evaluates(kinds) == At(kinds) /\ ~Lost(Here.uses)

-----------------------------------------------------------------------------
\* Mutant: a block that is not there is pushed.
push_off_by_one(b) == Append(cscopes, b + Len(tab))
push(b) == Append(cscopes, b)

VisitOpen ==
    /\ At({"open"})
    /\ cscopes' = push(Here.at)
    /\ out' = Append(out, <<>>)
    /\ UNCHANGED <<scopeVars, stage>>

VisitClose ==
    /\ At({"close"})
    /\ cscopes' = SubSeq(cscopes, 1, Len(cscopes) - 1)
    /\ out' = Append(out, <<>>)
    /\ UNCHANGED <<scopeVars, stage>>

\* add_sym replaces the placeholder in the table of the current scope.
VisitConst ==
    LET res == Results(Here.uses)
        now == cscopes[Len(cscopes)]
    IN /\ Evaluates({"const"}) /\ Folds(res)
       /\ tab' = [tab EXCEPT ![now] = add_sym(@, ident[Here.at],
                    ConstEntry({Here.at} \cup FoldedVal(res)))]
       /\ out' = Append(out, res)
       /\ UNCHANGED <<pass, err, scopes, underWhile, record, pending, decls,
                      ident, frames, ast, stage, cscopes>>

NotConst ==
    /\ Evaluates({"const"}) /\ ~Folds(Results(Here.uses))
    /\ stage' = "throw"
    /\ UNCHANGED <<scopeVars, cscopes, out>>

\* Mutant: the node the visit returned is dropped.
VisitStoredDropped ==
    /\ Evaluates({"var", "assign", "ret"})
    /\ out' = Append(out, Unvisited(Here.uses))
    /\ UNCHANGED <<scopeVars, stage, cscopes>>

\* An initializer, an assigned or a returned expression is replaced by what
\* its visit returned.
VisitStored ==
    /\ Evaluates({"var", "assign", "ret"})
    /\ out' = Append(out, Results(Here.uses))
    /\ UNCHANGED <<scopeVars, stage, cscopes>>

\* A condition is visited but the node the visit returned is dropped: only the
\* operands replaced inside an expression that does not fold as a whole stay.
VisitCond ==
    LET res == Results(Here.uses)
    IN /\ Evaluates({"cond"})
       /\ out' = Append(out, IF Folds(res) THEN Unvisited(Here.uses) ELSE res)
       /\ UNCHANGED <<scopeVars, stage, cscopes>>

\* Nothing is visited in an expression statement, a break or a continue.
Skip ==
    /\ At({"exp", "jump"})
    /\ out' = Append(out, Unvisited(Here.uses))
    /\ UNCHANGED <<scopeVars, stage, cscopes>>

CPDone ==
    /\ pass = "replay" /\ stage = "visit" /\ Len(out) = Len(ast)
    /\ stage' = "done"
    /\ UNCHANGED <<scopeVars, cscopes, out>>

CPVisit == Abort \/ VisitOpen \/ VisitClose \/ VisitConst \/ NotConst
           \/ VisitStored \/ VisitCond \/ Skip \/ CPDone

CPOver ==
    /\ pass = "throw" \/ stage \in {"done", "throw", "abort"}
    /\ UNCHANGED allVars

CPNext == (ScopeNext /\ UNCHANGED cpVars) \/ CPVisit \/ CPOver
CPSpec == CPInit /\ [][CPNext]_allVars

-----------------------------------------------------------------------------
(* Properties.                                                                *)

CPTypeOK ==
    /\ stage \in {"visit", "done", "throw", "abort"}
    /\ cscopes \in Seq(DOMAIN tab)
    /\ out \in Seq(Seq([num : BOOLEAN, val : SUBSET Nat, var : Nat]))

\* The walk is inside the same blocks as the first pass was at that node.
Enclosing(i) ==
    {b \in DOMAIN tab : /\ \E k \in 1..i : ast[k] = Node("open", b)
                        /\ ~\E k \in 1..i : ast[k] = Node("close", b)}

\* A declaration of the same name in a block between a use and what the use
\* means, but after the use: the second pass has it in the table already when
\* it comes to the use. Renaming keeps variables apart, not constants.
LateDecl(i, u) ==
    \E d \in DOMAIN decls :
        /\ decls[d].name = u.name /\ d > u.lex
        /\ decls[d].block \in Enclosing(i)
        /\ decls[d].const \/ u.var = NoDecl

\* A variable declared where a constant of that name is visible: the first
\* pass leaves its uses unbound.
HiddenVar(u) == ~decls[u.lex].const /\ u.var = NoDecl

PlainProgram ==
    /\ CleanNames
    /\ \A i \in DOMAIN ast : \A j \in DOMAIN ast[i].uses :
          LET u == ast[i].uses[j] IN ~LateDecl(i, u) /\ ~HiddenVar(u)

\* The value C gives a constant: its own literals and those of the constants
\* its initializer names.
ConstNode(d) == CHOOSE i \in DOMAIN ast : ast[i].kind = "const" /\ ast[i].at = d
RefVal[d \in DOMAIN decls] ==
    IF ~decls[d].const THEN {}
    ELSE {d} \cup UNION {IF u.lex = d THEN INT32_MIN ELSE RefVal[u.lex] :
                           u \in Range(ast[ConstNode(d)].uses)}

\* In a plain program every constant in an initializer, an assignment or a
\* return was replaced by the value of the declaration visible there, and
\* every variable was left to its declaration.
FoldedRight ==
    PlainProgram =>
        \A i \in DOMAIN out :
            ast[i].kind \in {"const", "var", "assign", "ret"} =>
                \A j \in DOMAIN out[i] :
                    LET u == ast[i].uses[j]
                        r == out[i][j]
                        self == ast[i].kind = "const" /\ ast[i].at = u.lex
                    IN IF decls[u.lex].const
                       THEN r.num /\ r.val = IF self THEN INT32_MIN
                                             ELSE RefVal[u.lex]
                       ELSE ~r.num /\ r.var = u.lex

\* Names that do not look renamed never run into the assertion.
CleanLookups == CleanNames => stage # "abort"

\* The only uses that reach GenIR without a declaration are the constants of
\* conditions and expression statements, variables that hide a constant and
\* constants that a later declaration hides.
\* (GenIR.cc:345 reads through the null IR variable of such a use.)
UnboundUses ==
    CleanNames =>
        \A i \in DOMAIN out : \A j \in DOMAIN out[i] :
            LET u == ast[i].uses[j]
            IN ~out[i][j].num /\ out[i][j].var = NoDecl =>
                  \/ ast[i].kind \in {"cond", "exp"}
                  \/ HiddenVar(u) \/ LateDecl(i, u)

\* A plain program is rejected only for a constant initialized from a variable.
NotConstJustified ==
    stage = "throw" /\ PlainProgram =>
        \E j \in DOMAIN Here.uses : ~decls[Here.uses[j].lex].const

\* assert(false) after the scope walk: every name of the AST is in a scope.
AssertHolds == stage # "abort"
=============================================================================
