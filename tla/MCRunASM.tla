------------------------------- MODULE MCRunASM -------------------------------
(* Functions for RunASM, lowered as GenIR lowers them: block 1 is the entry,  *)
(* block 2 the exit, symbol 1 the return slot. Names differ, but in one.      *)
EXTENDS RunASM, ConstFold

Function(n, blocks) ==
    [label |-> 0, names |-> [s \in 1..n |-> s], blocks |-> blocks]

\* The exit block, and how a block returns a value.
ExitBlock(s) == <<Load(s, 1), Ret(Sym(s))>>
Leave(v) == <<Store(v, 1), Jump(2)>>

\* Words around zero and near both ends; -128 and 100 are no immediates.
Numbers == {-128, -1, 0, 1, 3, 100}

-----------------------------------------------------------------------------
\* int a = m, b = n; return x op y;   where x is a or m, and y is b or n, not
\* both literals: those the compiler folds.
Arith(op, m, n, lit) ==
    LET x == IF lit = 1 THEN Num(m) ELSE Sym(4)
        y == IF lit = 2 THEN Num(n) ELSE Sym(5)
    IN Function(7, <<
        <<Alloc(1), Alloc(2), Store(Num(m), 2), Alloc(3), Store(Num(n), 3)>>
        \o (IF lit = 1 THEN <<>> ELSE <<Load(4, 2)>>)
        \o (IF lit = 2 THEN <<>> ELSE <<Load(5, 3)>>)
        \o <<BExpr(op, 6, x, y)>> \o Leave(Sym(6)),
        ExitBlock(7)>>)

Ariths ==
    {Arith(op, m, n, lit) :
        op \in BinaryOps, m \in Numbers, n \in Numbers, lit \in 0..2}

\* int a = n; return op a;
Prefix(op, n) ==
    Function(5, <<
        <<Alloc(1), Alloc(2), Store(Num(n), 2), Load(3, 2),
          LowerUnary(op, 4, Sym(3))>> \o Leave(Sym(4)),
        ExitBlock(5)>>)

-----------------------------------------------------------------------------
\* int i = n; while (i > 0) { i = i - 1; if (i == m) break; } return i;
Countdown(n, m) ==
    Function(9, <<
        <<Alloc(1), Alloc(2), Store(Num(n), 2), Jump(3)>>,
        ExitBlock(9),
        <<Load(3, 2), BExpr("gt", 4, Sym(3), Num(0)), Br(Sym(4), 4, 5)>>,
        <<Load(5, 2), BExpr("sub", 6, Sym(5), Num(1)), Store(Sym(6), 2),
          Load(7, 2), BExpr("eq", 8, Sym(7), Num(m)), Br(Sym(8), 6, 7)>>,
        Leave(Sym(3)),
        <<Jump(5)>>,
        <<Jump(3)>> >>)

\* if (c) return 5; else return 7;
TwoReturns(c) ==
    Function(2, <<
        <<Alloc(1), Br(Num(c), 3, 4)>>, ExitBlock(2),
        Leave(Num(5)), Leave(Num(7)), <<>> >>)

\* process_short_circuit_eval: int a = m, b = n; return a op b;
ShortCircuit(op, m, n) ==
    Function(9, <<
        <<Alloc(1), Alloc(2), Store(Num(m), 2), Alloc(3), Store(Num(n), 3),
          Load(4, 2),
          Alloc(5), Store(Num(Preset(op)), 5),
          BExpr("eq", 6, Sym(4), Num(Compared(op))),
          Br(Sym(6), 3, 4)>>,
        ExitBlock(9),
        <<Load(7, 3), BExpr("ne", 8, Sym(7), Num(0)), Load(5, 8), Jump(4)>>,
        Leave(Sym(5))>>)

\* while (1) return 5;   the block behind the loop is empty.
NeverLeft ==
    Function(2, <<
        <<Alloc(1), Jump(3)>>, ExitBlock(2), <<Br(Num(1), 4, 5)>>,
        Leave(Num(5)) \o <<Jump(3)>>, <<>> >>)

\* int x, ...; return 5;   with n variables
Wide(n) ==
    Function(n + 2, <<
        [s \in 1..(n + 1) |-> Alloc(s)] \o Leave(Num(5)), ExitBlock(n + 2)>>)

\* int t0 = 5; return t0;   the first temporary is named t0 as well.
SharedName ==
    [Function(4, <<
        <<Alloc(1), Alloc(2), Store(Num(5), 2), Load(3, 2)>> \o Leave(Sym(3)),
        ExitBlock(4)>>)
     EXCEPT !.names[3] = 2]

\* return;
Bare == Function(2, <<<<Alloc(1)>> \o Leave(Undefined), ExitBlock(2)>>)

Programs ==
    {Countdown(n, m) : n \in -1..4, m \in {-1, 0, 2}}
    \cup {TwoReturns(c) : c \in {0, 1, 2}}
    \cup {ShortCircuit(op, m, n) : op \in {"LAND", "LOR"}, m \in 0..2, n \in 0..2}
    \cup {Prefix(op, n) : op \in {"LNOT", "MINUS"}, n \in Numbers}
    \cup {Wide(n) : n \in {2, 12, 14, 15, 18}}
    \cup {NeverLeft, SharedName, Bare}

Everything == Ariths \cup Programs

-----------------------------------------------------------------------------
\* A function that computes an operation of two variables, or of a variable and
\* a literal, returns what the compiler would have put there had both been
\* literals (ConstProp.cc:38-103), unless the compiler traps on those. Only &&
\* differs, and only when its left operand is neither 0 nor 1.
Operand(i) == func.blocks[1][i].args[1].n
FoldAgrees ==
    out # <<>> =>
        /\ func \in Ariths =>
              \A op \in DOMAIN OpIR, lit \in 0..2 :
                  LET folded == CalBinary(op, Operand(3), Operand(5))
                  IN  func = Arith(OpIR[op], Operand(3), Operand(5), lit)
                      => folded = Trap \/ out[1] \in folded
        /\ \A op \in {"LAND", "LOR"}, m, n \in 0..2 :
              func = ShortCircuit(op, m, n) =>
                  out[1] \in CalBinary(op, m, n) \/ (op = "LAND" /\ m \notin {0, 1})
        /\ \A op \in {"LNOT", "MINUS"}, n \in Numbers :
              func = Prefix(op, n) => out[1] \in CalUnary(op, n)

\* "ret = lhs && rhs": the code computes the conjunction.
ConjunctionComputed ==
    \A m, n \in 0..2 :
        func = ShortCircuit("LAND", m, n) /\ out # <<>> =>
            out = <<Truth(m # 0 /\ n # 0)>>
=============================================================================
