--------------------------- MODULE SysYReference ---------------------------
(* What a program text means, without a parser: the rules of ast/rules.txt    *)
(* and of the comments of ast/StmtAST.hh, read off the text by splitting it.  *)
(* The meaning is spelled as the Dump of the right AST: an expression in full *)
(* parentheses, one definition at a time, a ";" behind each statement. Only   *)
(* the properties of Parser use it.                                           *)
EXTENDS Grammar, Integers, FiniteSetsExt, SequencesExt

LOCAL Sym(k) == <<[kind |-> k, pos |-> 0]>>
LOCAL Rest(ts, i) == SubSeq(ts, i, Len(ts))

\* How many brackets are open in front of token i.
Depth(ts, i) ==
    Cardinality({j \in 1..i - 1 : ts[j].kind \in {"(", "{"}})
    - Cardinality({j \in 1..i - 1 : ts[j].kind \in {")", "}"}})
\* The positions of a token outside all brackets, and the bracket that closes
\* the one at i.
Outer(ts, kinds) ==
    {i \in DOMAIN ts : ts[i].kind \in kinds /\ Depth(ts, i) = 0}
Closing(ts, i) ==
    Min({j \in DOMAIN ts : j > i /\ Depth(ts, j + 1) = Depth(ts, i)})

\* An operator is binary if an operand ends in front of it.
Binary(ts, kinds) ==
    {i \in Outer(ts, kinds) :
        i > 1 /\ ts[i - 1].kind \in {"IDENT", "INT_CONST", ")"}}

\* The operator applied last: the rightmost one of the loosest level.
RECURSIVE MeaningOfExp(_)
MeaningOfExp(ts) ==
    LET levels == {l \in DOMAIN BinaryOps : Binary(ts, BinaryOps[l]) # {}}
        i == Max(Binary(ts, BinaryOps[Min(levels)]))
    IN  IF levels # {}
        THEN Sym("(") \o MeaningOfExp(SubSeq(ts, 1, i - 1))
             \o Sym(ts[i].kind) \o MeaningOfExp(Rest(ts, i + 1)) \o Sym(")")
        ELSE IF ts[1].kind \in UnaryOps
        THEN Sym("(") \o Sym(ts[1].kind) \o MeaningOfExp(Rest(ts, 2))
             \o Sym(")")
        ELSE IF ts[1].kind = "("
        THEN MeaningOfExp(SubSeq(ts, 2, Len(ts) - 1))
        ELSE ts

-----------------------------------------------------------------------------
\* A name with its initial value, if it has one.
MeaningOfDef(const, ts) ==
    (IF const THEN Sym("const") ELSE <<>>) \o Sym("int")
    \o (IF Len(ts) = 1 THEN ts
        ELSE <<ts[1]>> \o Sym("=") \o MeaningOfExp(Rest(ts, 3)))
    \o Sym(";")
RECURSIVE MeaningOfDefs(_, _)
MeaningOfDefs(const, ts) ==
    LET commas == Outer(ts, {","})
    IN  IF commas = {} THEN MeaningOfDef(const, ts)
        ELSE MeaningOfDef(const, SubSeq(ts, 1, Min(commas) - 1))
             \o MeaningOfDefs(const, Rest(ts, Min(commas) + 1))

\* How many tokens the first item of ts takes. An else is taken by the nearest
\* if in front of it.
RECURSIVE ItemLen(_)
ItemLen(ts) ==
    CASE ts[1].kind = "{" -> Closing(ts, 1)
      [] ts[1].kind = "while" ->
            LET c == Closing(ts, 2) IN c + ItemLen(Rest(ts, c + 1))
      [] ts[1].kind = "if" ->
            LET c == Closing(ts, 2)
                n == c + ItemLen(Rest(ts, c + 1))
            IN  IF n < Len(ts) /\ ts[n + 1].kind = "else"
                THEN n + 1 + ItemLen(Rest(ts, n + 2)) ELSE n
      [] OTHER -> Min(Outer(ts, {";"}))

RECURSIVE MeaningOfItems(_), MeaningOfItem(_)
MeaningOfItems(ts) ==
    IF ts = <<>> THEN <<>>
    ELSE LET n == ItemLen(ts)
         IN  MeaningOfItem(SubSeq(ts, 1, n)) \o MeaningOfItems(Rest(ts, n + 1))

\* ts without its first n tokens and its last one
LOCAL Within(ts, n) == SubSeq(ts, n + 1, Len(ts) - 1)

MeaningOfItem(ts) ==
    CASE ts[1].kind = ";" -> <<>>
      [] ts[1].kind = "const" -> MeaningOfDefs(TRUE, Within(ts, 2))
      [] ts[1].kind = "int" -> MeaningOfDefs(FALSE, Within(ts, 1))
      [] ts[1].kind = "{" ->
            Sym("{") \o MeaningOfItems(Within(ts, 1)) \o Sym("}") \o Sym(";")
      [] ts[1].kind = "return" ->
            Sym("return")
            \o (IF Len(ts) = 2 THEN <<>> ELSE MeaningOfExp(Within(ts, 1)))
            \o Sym(";")
      [] ts[1].kind \in {"break", "continue"} -> Sym(ts[1].kind) \o Sym(";")
      [] ts[1].kind = "while" ->
            LET c == Closing(ts, 2)
            IN  Sym("while") \o Sym("(") \o MeaningOfExp(SubSeq(ts, 3, c - 1))
                \o Sym(")") \o Sym("{") \o MeaningOfItem(Rest(ts, c + 1))
                \o Sym("}") \o Sym(";")
      [] ts[1].kind = "if" ->
            LET c == Closing(ts, 2)
                n == c + ItemLen(Rest(ts, c + 1))
                other == IF n = Len(ts) THEN <<>>
                         ELSE MeaningOfItem(Rest(ts, n + 2))
            IN  Sym("if") \o Sym("(") \o MeaningOfExp(SubSeq(ts, 3, c - 1))
                \o Sym(")") \o MeaningOfItem(SubSeq(ts, c + 1, n))
                \o (IF other = <<>> THEN <<>> ELSE Sym("else") \o other)
                \o Sym(";")
      [] OTHER ->
            LET eq == Outer(ts, {"="})
            IN  (IF eq = {} THEN MeaningOfExp(Within(ts, 0))
                 ELSE <<ts[1]>> \o Sym("=") \o MeaningOfExp(Within(ts, 2)))
                \o Sym(";")

\* int f ( ) { ... }
Meaning(ts) ==
    Sym("int") \o <<ts[2]>>
    \o Sym("{") \o MeaningOfItems(Within(ts, 5)) \o Sym("}")
=============================================================================
