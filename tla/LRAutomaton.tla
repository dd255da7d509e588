---------------------------- MODULE LRAutomaton ----------------------------
(* What bison makes of SysY.y: the states of the LR automaton, numbered, with *)
(* the one rule a state may reduce by. Bison gives a state with a complete    *)
(* item a default reduction, taken on every token the state does not shift;   *)
(* the ELSE that could be shifted or reduced on is shifted, since %prec gives *)
(* it precedence over LOWER_THAN_ELSE.                                        *)
(*                                                                            *)
(* R is a sequence of rules, K the kernels of the states by number. All of it *)
(* is functions and plain operators, so that TLC evaluates Bison only once.   *)
EXTENDS Grammar, Integers, FiniteSets, TLC

\* An item is a rule and how much of its right side has been seen.
Complete(R, i) == i[2] = Len(R[i[1]].rhs)
AfterDot(R, i) == R[i[1]].rhs[i[2] + 1]
Expected(R, items) == {AfterDot(R, i) : i \in {j \in items : ~Complete(R, j)}}
Heads(R, symbols) == {q \in DOMAIN R : R[q].lhs \in symbols}

Closure(R, kernel) ==
    LET grown[items \in SUBSET (Nat \X Nat)] ==
            LET more == {<<r, 0>> : r \in Heads(R, Expected(R, items))}
            IN  IF more \subseteq items THEN items ELSE grown[items \cup more]
    IN  grown[kernel]

\* The kernel that follows a kernel, whose closure is given, on a symbol.
Advance(R, items, X) ==
    {<<i[1], i[2] + 1>> :
        i \in {j \in items : ~Complete(R, j) /\ AfterDot(R, j) = X}}
Followers(R, items) == {Advance(R, items, X) : X \in Expected(R, items)}

\* Each known kernel in turn adds the ones not met before.
KernelsOf(R) ==
    LET explored[known \in Seq(SUBSET (Nat \X Nat)), s \in Nat] ==
            IF s > Len(known) THEN known
            ELSE LET new == Followers(R, Closure(R, known[s]))
                                \ {known[i] : i \in DOMAIN known}
                 IN  IF new = {} THEN explored[known, s + 1]
                     ELSE explored[Append(known, CHOOSE k \in new : TRUE), s]
    IN  explored[<<{<<1, 0>>}>>, 1]

\* The state after each symbol that a state can be followed by.
Goto(R, K, items) ==
    LET row[symbols \in SUBSET Symbols] ==
            IF symbols = {} THEN <<>>
            ELSE LET X == CHOOSE Y \in symbols : TRUE
                     next == Advance(R, items, X)
                 IN  row[symbols \ {X}]
                     @@ X :> CHOOSE s \in DOMAIN K : K[s] = next
    IN  row[Expected(R, items)]

State(R, K, items) ==
    [goto |-> Goto(R, K, items), shifts |-> Expected(R, items) \cap Tokens,
     reduces |-> {i[1] : i \in {j \in items : Complete(R, j)}}]
TablesOf(R, K) ==
    LET states[s \in Nat] ==
            IF s = 0 THEN <<>>
            ELSE Append(states[s - 1], State(R, K, Closure(R, K[s])))
    IN  [rules |-> R, states |-> states[Len(K)]]
Kernels == KernelsOf(Rules)
Bison == TablesOf(Rules, Kernels)

FirstState == 1  \* of the tables, and the first rule is the start rule
AcceptRule == 1

-----------------------------------------------------------------------------
(* What the tables are trusted for, as TLC finds it of this grammar.          *)

States == DOMAIN Bison.states
Items(s) == Closure(Rules, Kernels[s])

\* The symbol a state other than the first is entered on.
Entry(s) ==
    LET i == CHOOSE item \in Kernels[s] : TRUE IN Rules[i[1]].rhs[i[2]]

\* The grammar has no conflict but the one of ELSE: no state can reduce by two
\* rules.
ASSUME NoConflict ==
    \A s \in States : \A r, q \in Bison.states[s].reduces : r = q

\* An item that has seen a symbol comes from a state entered on that symbol,
\* whose predecessor holds the same item one symbol earlier; where a rule
\* begins, there is a state to go to on its left side.
ASSUME TablesClosed ==
    /\ FirstState \in States /\ Rules[AcceptRule].rhs = <<"CompUnit", "$end">>
    /\ \A s \in States :
          LET row == Bison.states[s]
          IN  /\ row.shifts \subseteq Tokens \cap DOMAIN row.goto
              /\ \A X \in DOMAIN row.goto :
                    /\ row.goto[X] \in States \ {FirstState}
                    /\ Entry(row.goto[X]) = X
                    /\ \A r \in DOMAIN Rules : \A d \in 1..Len(Rules[r].rhs) :
                          <<r, d>> \in Items(row.goto[X]) =>
                              Rules[r].rhs[d] = X /\ <<r, d - 1>> \in Items(s)
              /\ \A r \in DOMAIN Rules :
                    <<r, 0>> \in Items(s) =>
                        IF r = AcceptRule THEN s = FirstState
                        ELSE Rules[r].lhs \in DOMAIN row.goto
              /\ \A r \in row.reduces :
                    r \in DOMAIN Rules /\ <<r, Len(Rules[r].rhs)>> \in Items(s)
    /\ \A r \in DOMAIN Rules : \A d \in 1..Len(Rules[r].rhs) :
          <<r, d>> \notin Items(FirstState)
    /\ \A s \in States \ {FirstState} :
          Entry(s) = "$end" => Bison.states[s].shifts = {}
=============================================================================
