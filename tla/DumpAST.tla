------------------------------ MODULE DumpAST ------------------------------
(* Dump, as the tokens it prints: what only marks the layout is left out, and *)
(* a variable or a number prints the text it was made from.                   *)
EXTENDS Parser, SysYReference

dump_op_ast(op) ==
    CASE op = "MINUS" -> "-" [] op = "PLUS" -> "+" [] op = "LNOT" -> "!"
      [] op = "MUL" -> "*" [] op = "DIV" -> "/" [] op = "MOD" -> "%"
      [] op = "LT" -> "<" [] op = "LE" -> "<=" [] op = "GT" -> ">"
      [] op = "GE" -> ">=" [] op = "EQ" -> "==" [] op = "NEQ" -> "!="
      [] op = "LAND" -> "&&" [] op = "LOR" -> "||"

Symbol(k) == <<[kind |-> k, pos |-> 0]>>
Word(k, t) == <<[kind |-> k, pos |-> t]>>
RECURSIVE DumpExp(_), DumpStmt(_), DumpBlock(_)

DumpVar(n) == Word("IDENT", node[n].ident)
DumpExp(n) ==
    LET e == node[n]
    IN  CASE e.alt = "op" ->
               Symbol("(")
               \o (IF e.parts[1] = nullptr THEN <<>> ELSE DumpExp(e.parts[1]))
               \o Symbol(dump_op_ast(e.op)) \o DumpExp(e.parts[2])
               \o Symbol(")")
          [] e.alt = "lval" -> DumpVar(e.parts[1])
          [] e.alt = "num" -> Word("INT_CONST", node[e.parts[1]].val)

DumpDef(n) ==
    LET def == node[n]
    IN  (IF def.const THEN Symbol("const") ELSE <<>>)
        \o Symbol("int") \o DumpVar(def.var)
        \o (IF def.init = nullptr THEN <<>>
            ELSE Symbol("=") \o DumpExp(def.init))
        \o Symbol(";")
DumpDecl(n) ==
    FoldLeft(LAMBDA out, def : out \o DumpDef(def), <<>>, node[n].defs)

DumpItem(n) ==
    IF node[n].is = "DeclAST" THEN DumpDecl(node[n].item)
    ELSE DumpStmt(node[n].item)
DumpBlock(n) ==
    FoldLeft(LAMBDA out, item : out \o DumpItem(item), Symbol("{"),
             node[n].items)
    \o Symbol("}")

DumpBranch(n) == IF n = nullptr THEN <<>> ELSE DumpStmt(n)
DumpStmt(n) ==
    LET p == node[n].parts
        alt == node[n].alt
    IN  (CASE alt = "return" ->
                Symbol("return")
                \o (IF p[1] = nullptr THEN <<>> ELSE DumpExp(p[1]))
           [] alt = "assign" -> DumpVar(p[1]) \o Symbol("=") \o DumpExp(p[2])
           [] alt = "block" -> DumpBlock(p[1])
           [] alt = "exp" -> DumpExp(p[1])
           [] alt = "if" ->
                Symbol("if") \o Symbol("(") \o DumpExp(p[1]) \o Symbol(")")
                \o DumpBranch(p[2])
                \o (IF p[3] = nullptr THEN <<>>
                    ELSE Symbol("else") \o DumpStmt(p[3]))
           [] alt = "while" ->
                Symbol("while") \o Symbol("(") \o DumpExp(p[1])
                \o Symbol(")") \o Symbol("{") \o DumpBranch(p[2])
                \o Symbol("}")
           [] alt \in {"break", "continue"} -> Symbol(alt))
        \o Symbol(";")

\* __AST_TOP__.Dump
DumpUnit ==
    Symbol("int") \o Word("IDENT", node[top].ident)
    \o DumpBlock(node[top].block)

-----------------------------------------------------------------------------
\* ParsedRight: the AST of a program the parser accepts means what the grammar
\* in the comments of StmtAST.hh and rules.txt says of its text: the operators
\* bind by level and to the left, an else belongs to the nearest if, every
\* definition, statement and name is there, once and in order, and an empty
\* statement vanishes (actions of SysY.y, set_op_ast, Dump).
ParsedRight ==
    Accepted => DumpUnit = Meaning([t \in 1..Len(tokens) - 1 |->
                                       [kind |-> tokens[t], pos |-> t]])
=============================================================================
