------------------------------ MODULE ConstFold ------------------------------
(* The same operators twice: as the second pass computes them when the        *)
(* operands are literals (src/ast/ConstProp.cc), and as the third pass hands  *)
(* them on to be computed when the program runs (src/ast/GenIR.cc).           *)
EXTENDS IRCode

\* What the compiler, built without optimization, does with a division by zero
\* and with the one quotient that is no word: it dies of a signal.
Trap == {}
Traps(x, y) == y = 0 \/ (x = LeastWord /\ y = -1)

\* ConstPropCtx::cal_unary_exp, cal_binary_exp: the set of the value, or Trap.
CalUnary(op, x) ==
    CASE op = "PLUS" -> {x}
      [] op = "MINUS" -> {Wrap(-x)}
      [] op = "LNOT" -> {Truth(x = 0)}

\* Mutant: the remainder takes the sign of the divisor.
CalBinarySign(op, x, y) ==
    CASE op = "PLUS" -> {Wrap(x + y)} [] op = "MINUS" -> {Wrap(x - y)}
      [] op = "MUL" -> {Wrap(x * y)}
      [] op = "DIV" -> IF Traps(x, y) THEN Trap ELSE {Quotient(x, y)}
      [] op = "MOD" -> IF Traps(x, y) THEN Trap
                       ELSE {IF y < 0 THEN -(x % (-y)) ELSE x % y}
      [] op = "LT" -> {Truth(x < y)} [] op = "GT" -> {Truth(x > y)}
      [] op = "LE" -> {Truth(x <= y)} [] op = "GE" -> {Truth(x >= y)}
      [] op = "EQ" -> {Truth(x = y)} [] op = "NEQ" -> {Truth(x # y)}
      [] op = "LAND" -> {Truth(x # 0 /\ y # 0)}
      [] op = "LOR" -> {Truth(x # 0 \/ y # 0)}

CalBinary(op, x, y) ==
    CASE op = "PLUS" -> {Wrap(x + y)} [] op = "MINUS" -> {Wrap(x - y)}
      [] op = "MUL" -> {Wrap(x * y)}
      [] op = "DIV" -> IF Traps(x, y) THEN Trap ELSE {Quotient(x, y)}
      [] op = "MOD" -> IF Traps(x, y) THEN Trap ELSE {Remainder(x, y)}
      [] op = "LT" -> {Truth(x < y)} [] op = "GT" -> {Truth(x > y)}
      [] op = "LE" -> {Truth(x <= y)} [] op = "GE" -> {Truth(x >= y)}
      [] op = "EQ" -> {Truth(x = y)} [] op = "NEQ" -> {Truth(x # y)}
      [] op = "LAND" -> {Truth(x # 0 /\ y # 0)}
      [] op = "LOR" -> {Truth(x # 0 \/ y # 0)}

-----------------------------------------------------------------------------
\* visit(ExpAST*): OpIR of each binary operator but the two that branch.
OpIR == [PLUS |-> "add", MINUS |-> "sub", MUL |-> "mul", DIV |-> "div",
         MOD |-> "mod", LT |-> "lt", LE |-> "le", GT |-> "gt", GE |-> "ge",
         EQ |-> "eq", NEQ |-> "ne"]

\* !x and -x, as instructions on x and a literal zero.
LowerUnary(op, s, x) ==
    CASE op = "LNOT" -> BExpr("eq", s, x, Num(0))
      [] op = "MINUS" -> BExpr("sub", s, Num(0), x)

\* process_short_circuit_eval: what the slot holds at first, and what the left
\* operand is compared with before the right one is evaluated.
Preset(op) == IF op = "LOR" THEN 1 ELSE 0
Compared(op) == IF op = "LOR" THEN 0 ELSE 1
=============================================================================
