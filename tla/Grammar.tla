------------------------------ MODULE Grammar ------------------------------
(* The tokens of SysY.l and the productions of SysY.y. A token kind is named  *)
(* by its text, a production by its sides and by what its action does, which  *)
(* module Parser defines. $$ = $1 is "first", $$ = $2 is "second".            *)
EXTENDS Sequences

Rule(lhs, rhs, do) == [lhs |-> lhs, rhs |-> rhs, do |-> do]

UnaryOps == {"+", "-", "!"}
\* From the loosest binding to the tightest.
BinaryOps == << {"||"}, {"&&"}, {"==", "!="}, {"<", ">", "<=", ">="},
                {"+", "-"}, {"*", "/", "%"} >>
Operators == UNION {BinaryOps[i] : i \in DOMAIN BinaryOps} \cup UnaryOps

\* The lexer keeps a strdup of the text of these.
Texts == Operators \cup {"IDENT"}
Keywords == {"int", "return", "const", "if", "else", "while", "break",
             "continue"}
\* yytext[0], for a character that has no rule of its own.
Single == {"(", ")", "{", "}", ";", ",", "=", "bad"}
Tokens == Texts \cup Keywords \cup Single \cup {"INT_CONST", "$end"}

\* The symbols whose value is a text, a definition, or a list of them (%type).
TextSymbols ==
    Texts \cup {"UnaryOp", "BinaryOp1", "BinaryOp2", "BinaryOp3", "BinaryOp4"}
DefSymbols == {"ConstDef", "VarDef"}
ListSymbols == {"ConstDecl", "ConstDefList", "VarDecl", "VarDefList"}

-----------------------------------------------------------------------------
TopRules == <<
    Rule("$accept", <<"CompUnit", "$end">>, "accept"),
    Rule("CompUnit", <<"FuncDef">>, "unit"),
    Rule("FuncDef", <<"FuncType", "IDENT", "(", ")", "Block">>, "func"),
    Rule("FuncType", <<"int">>, "first"),
    Rule("Block", <<"{", "BlockItemList", "}">>, "second"),
    Rule("BlockItemList", <<>>, "block"),
    Rule("BlockItemList", <<"BlockItemList", "BlockItem">>, "add_item"),
    Rule("BlockItem", <<"Decl">>, "item"),
    Rule("BlockItem", <<"Stmt">>, "item") >>

DeclRules == <<
    Rule("Decl", <<"ConstDecl">>, "decl"),
    Rule("Decl", <<"VarDecl">>, "decl"),
    Rule("ConstDecl", <<"const", "BType", "ConstDefList", ";">>, "constDecl"),
    Rule("BType", <<"int">>, "first"),
    Rule("ConstDefList", <<"ConstDef">>, "defs"),
    Rule("ConstDefList", <<"ConstDefList", ",", "ConstDef">>, "push_back"),
    Rule("ConstDef", <<"IDENT", "=", "ConstInitVal">>, "constDef"),
    Rule("ConstInitVal", <<"ConstExp">>, "first"),
    Rule("VarDecl", <<"BType", "VarDefList", ";">>, "second"),
    Rule("VarDefList", <<"VarDef">>, "defs"),
    Rule("VarDefList", <<"VarDefList", ",", "VarDef">>, "push_back"),
    Rule("VarDef", <<"IDENT">>, "varDef"),
    Rule("VarDef", <<"IDENT", "=", "InitVal">>, "varDefInit"),
    Rule("InitVal", <<"Exp">>, "first"),
    Rule("ConstExp", <<"Exp">>, "first") >>

StmtRules == <<
    Rule("Stmt", <<"return", "Exp", ";">>, "return"),
    Rule("Stmt", <<"return", ";">>, "returnVoid"),
    Rule("Stmt", <<"LVal", "=", "Exp", ";">>, "assign"),
    Rule("Stmt", <<"Block">>, "blockStmt"),
    Rule("Stmt", <<"Exp", ";">>, "expStmt"),
    Rule("Stmt", <<";">>, "nullStmt"),
    Rule("Stmt", <<"if", "(", "Exp", ")", "Stmt">>, "if"),
    Rule("Stmt", <<"if", "(", "Exp", ")", "Stmt", "else", "Stmt">>, "ifElse"),
    Rule("Stmt", <<"while", "(", "Exp", ")", "Stmt">>, "while"),
    Rule("Stmt", <<"break", ";">>, "break"),
    Rule("Stmt", <<"continue", ";">>, "continue") >>

\* The four named operator classes have no action: bison's default is $$ = $1.
OpRules(lhs, ops) ==
    [i \in DOMAIN ops |-> Rule(lhs, <<ops[i]>>, "first")]

PrimaryRules == <<
    Rule("LVal", <<"IDENT">>, "lval"),
    Rule("PrimaryExp", <<"(", "Exp", ")">>, "second"),
    Rule("PrimaryExp", <<"Number">>, "numExp"),
    Rule("PrimaryExp", <<"LVal">>, "lvalExp"),
    Rule("Number", <<"INT_CONST">>, "number"),
    Rule("UnaryExp", <<"PrimaryExp">>, "first"),
    Rule("UnaryExp", <<"UnaryOp", "UnaryExp">>, "unary") >>
    \o OpRules("UnaryOp", <<"+", "-", "!">>)
    \o OpRules("BinaryOp1", <<"+", "-">>)
    \o OpRules("BinaryOp2", <<"*", "/", "%">>)
    \o OpRules("BinaryOp3", <<"<", ">", "<=", ">=">>)
    \o OpRules("BinaryOp4", <<"==", "!=">>)

\* One level of binary operators: its operands are of the level below, and it
\* is left recursive.
\* Mutant: it is right recursive.
Level_right(lhs, below, op) == <<
    Rule(lhs, <<below>>, "first"),
    Rule(lhs, <<below, op, lhs>>, "binary") >>
Level(lhs, below, op) == <<
    Rule(lhs, <<below>>, "first"),
    Rule(lhs, <<lhs, op, below>>, "binary") >>

BinaryRules ==
    Level("AddExp", "MulExp", "BinaryOp1")
    \o Level("MulExp", "UnaryExp", "BinaryOp2")
    \o Level("RelExp", "AddExp", "BinaryOp3")
    \o Level("EqExp", "RelExp", "BinaryOp4")
    \o Level("LAndExp", "EqExp", "&&")
    \o Level("LOrExp", "LAndExp", "||")

ExpRules == <<Rule("Exp", <<"LOrExp">>, "first")>> \o PrimaryRules \o BinaryRules

NonTerminals == {"$accept", "CompUnit", "FuncDef", "FuncType", "Block",
    "BlockItemList", "BlockItem", "Decl", "ConstDecl", "BType", "ConstDefList",
    "ConstDef", "ConstInitVal", "VarDecl", "VarDefList", "VarDef", "InitVal",
    "ConstExp", "Stmt", "Exp", "LVal", "PrimaryExp", "Number", "UnaryExp",
    "UnaryOp", "BinaryOp1", "BinaryOp2", "BinaryOp3", "BinaryOp4", "AddExp",
    "MulExp", "RelExp", "EqExp", "LAndExp", "LOrExp"}
Symbols == Tokens \cup NonTerminals

Rules == TopRules \o DeclRules \o StmtRules \o ExpRules

ASSUME GrammarAssumption ==
    /\ Tokens \cap (NonTerminals \cup {"none"}) = {}
    /\ Tokens \cap TextSymbols = Texts /\ "$end" \notin Texts
    /\ DefSymbols \cup ListSymbols \subseteq NonTerminals
    /\ \A r \in DOMAIN Rules :
          Rules[r].lhs \in NonTerminals /\ Rules[r].rhs \in Seq(Symbols)
=============================================================================
