---------------------------- MODULE MCConstProp ----------------------------
(* Names for TLC, as in MCScopeCheck, and the programs of the passing run:    *)
(* small ones with all kinds of statement, and longer ones of declarations    *)
(* alone, where a name may look like a renamed one.                           *)
EXTENDS ConstProp

CONSTANTS
    a, b,
    MixedDecls,     \* bound: declarations in a program with statements
    MixedNodes      \* bound: its recorded nodes, the closing ones left out

Plain(x) == [base |-> x, sfx |-> <<>>]
MCBase == {a, b}
OneName == {Plain(a)}
TwoNames == {Plain(a), Plain(b)}
SuffixNames == {Plain(a), [base |-> a, sfx |-> <<1>>]}
AllNames == TwoNames \cup SuffixNames

Written(xs) == \A d \in DOMAIN decls : decls[d].name \in xs
Reads(xs, n) == UNION {[1..k -> xs] : k \in 0..n}

Mixed ==
    /\ Written(TwoNames) /\ Len(ast) < MixedNodes
    /\ \/ OpenBlock
       \/ \E x \in TwoNames : Redefine(x)
       \/ \E x \in TwoNames, xs \in Reads(TwoNames, MaxUses) :
             Len(decls) < MixedDecls /\ (ConstDecl(x, xs) \/ VarDecl(x, xs))
       \/ \E xs \in Reads(TwoNames, MaxUses) :
             If(xs) \/ \E kind \in {"ret", "exp"} : ReturnOrExp(kind, xs)

OnlyDecls ==
    /\ Written(SuffixNames)
    /\ \A i \in DOMAIN ast : ast[i].kind \in {"open", "close", "const", "var"}
    /\ \/ OpenBlock
       \/ \E x \in SuffixNames, xs \in Reads(SuffixNames, 1) :
             ConstDecl(x, xs) \/ VarDecl(x, xs)

MCNext ==
    \/ /\ Mixed \/ OnlyDecls \/ CloseBlock \/ EndStmt
          \/ FinishRename \/ \E x \in Names : RenameSym(x)
       /\ UNCHANGED cpVars
    \/ CPVisit
    \/ CPOver
MCSpec == CPInit /\ [][MCNext]_allVars
===========================================================================
