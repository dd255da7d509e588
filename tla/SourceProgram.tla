---------------------------- MODULE SourceProgram ----------------------------
(* What a function means that has only statements: the order in which its     *)
(* assignments, tests and returns come, for any outcome of the tests. "tree"  *)
(* is its AST, the nodes in the order of the text: a node has a kind, the     *)
(* node it is in, and the part of that one it is. "here" is the node that     *)
(* acts next. Module RunIR implements it.                                     *)
EXTENDS Integers, Sequences, FiniteSetsExt

VARIABLES tree, here

Root == 1
NotBegun == 0
Ended == -1         \* by itself, behind its last statement
Returned == -2
Acting == {"assign", "ret", "if", "while", "skipped"}

Children(n) == {c \in DOMAIN tree : tree[c].in = n}
Later(n) == {c \in Children(tree[n].in) : c > n}
Part(n, part) == {c \in Children(n) : tree[c].part = part}

\* The innermost loop around n.
RECURSIVE Loop(_)
Loop(n) == IF tree[n].k = "while" THEN n ELSE Loop(tree[n].in)

\* Who acts next when n is reached, and when n is over.
RECURSIVE Reached(_), Over(_)
Reached(n) ==
    CASE tree[n].k \in Acting -> n
      [] tree[n].k = "block" -> IF Children(n) = {} THEN Over(n)
                                ELSE Reached(Min(Children(n)))
      [] tree[n].k = "break" -> Over(Loop(tree[n].in))
      [] tree[n].k = "continue" -> Loop(tree[n].in)
      [] OTHER -> Over(n)
Over(n) ==
    IF n = Root THEN Ended
    ELSE LET up == tree[n].in
         IN  CASE tree[up].k = "block" /\ Later(n) # {} -> Reached(Min(Later(n)))
               [] tree[up].k = "while" -> up
               [] OTHER -> Over(up)

\* What the node that acts does, if its test has this outcome.
Acted(n, outcome) ==
    LET part == Part(n, IF tree[n].k = "while" THEN "body"
                        ELSE IF outcome THEN "then" ELSE "else")
    IN  CASE tree[n].k = "ret" -> Returned
          [] tree[n].k = "if" /\ part # {} -> Reached(Min(part))
          [] tree[n].k = "while" /\ outcome ->
                IF part = {} THEN n ELSE Reached(Min(part))
          [] OTHER -> Over(n)

Begin == here = NotBegun /\ here' = Reached(Root) /\ UNCHANGED tree
Act ==
    /\ here \in DOMAIN tree /\ tree[here].k # "skipped"
    /\ \E outcome \in BOOLEAN : here' = Acted(here, outcome)
    /\ UNCHANGED tree
\* The program is still being written.
Write == here = NotBegun /\ UNCHANGED here

SourceInit == here = NotBegun
SourceSpec == SourceInit /\ [][Begin \/ Act \/ Write]_<<tree, here>>
=============================================================================
