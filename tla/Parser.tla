------------------------------- MODULE Parser -------------------------------
(* yyparse with the actions of SysY.y, the tokens of SysY.l as they are asked *)
(* for, and the nodes the actions build in the arena.                         *)
(*                                                                            *)
(* The source is not fixed in advance: each call of yylex may return any      *)
(* token of the alphabet. A token is known by its position in "tokens", and   *)
(* so is the copy of its text that the lexer makes; every value on the stack  *)
(* is such a position, or the index of a node or of a list of definitions.    *)
EXTENDS LRAutomaton, Arena, SequencesExt

CONSTANTS
    Inputs  \* bound: how sources begin, the phrases they go on with, and how
            \* many tokens they have

ASSUME InputsAssumption ==
    \A i \in Inputs : /\ i.head \in Seq(Tokens)
                      /\ i.phrases \subseteq Seq(Tokens) \ {<<>>}
                      /\ i.max \in Nat

VARIABLES
    input,      \* the element of Inputs this source is drawn from
    ahead,      \* the rest of the phrase yylex is in
    tokens,     \* the tokens yylex has returned
    yychar,     \* the lookahead; "none" is YYEMPTY
    stack,      \* the parser's stack: LR states and semantic values
    texts,      \* the strdup'ed texts not yet freed, by token
    vecs,       \* each std::vector<varDefAST*>: its elements, or deleted
    node,       \* the AST nodes, in the order they were made
    top,        \* __AST_TOP__.funcDef_
    misused,    \* a text or list was used after it was freed
    result      \* what yyparse returned, once it has

parseVars == <<input, ahead, tokens, yychar, stack, texts, vecs, node, top,
               misused, result>>

nullptr == 0
At(s) == Bison.states[s]
Deleted == <<nullptr>>

-----------------------------------------------------------------------------
(* Operators, by their text (struct OpAST).                                   *)

\* Mutant: the operators that start alike are told by their first character.
set_op_ast_first(text) ==
    CASE text \in {"<", "<="} -> "LT" [] text \in {">", ">="} -> "GT"
      [] text = "-" -> "MINUS" [] text = "+" -> "PLUS" [] text = "!" -> "LNOT"
      [] text = "!=" -> "NEQ" [] text = "==" -> "EQ" [] text = "*" -> "MUL"
      [] text = "/" -> "DIV" [] text = "%" -> "MOD" [] text = "&&" -> "LAND"
      [] text = "||" -> "LOR"
set_op_ast(text) ==
    CASE text = "-" -> "MINUS" [] text = "+" -> "PLUS" [] text = "!" -> "LNOT"
      [] text = "!=" -> "NEQ" [] text = "==" -> "EQ" [] text = "*" -> "MUL"
      [] text = "/" -> "DIV" [] text = "%" -> "MOD" [] text = "<" -> "LT"
      [] text = "<=" -> "LE" [] text = ">" -> "GT" [] text = ">=" -> "GE"
      [] text = "&&" -> "LAND" [] text = "||" -> "LOR"

-----------------------------------------------------------------------------
(* What the actions do to the heap H: the record of the variables above.      *)

Heap == [arena |-> arena, texts |-> texts, vecs |-> vecs, node |-> node,
         top |-> top, misused |-> misused]

make(H, content) ==
    [H EXCEPT !.arena = Make(@, content.type), !.node = Append(@, content)]
made(H) == Len(H.node)

UseText(H, t) == [H EXCEPT !.misused = @ \/ t \notin H.texts]
free(H, t) == [UseText(H, t) EXCEPT !.texts = @ \ {t}]
UseVec(H, v) == [H EXCEPT !.misused = @ \/ H.vecs[v] = Deleted]

\* A VarAST copies the text it is given.
VarAST(H, t) == make(UseText(H, t), [type |-> "VarAST", ident |-> t])

\* Mutant: the node is taken to own the text, which is not freed.
DefAST_keeps(H, t, init) ==
    LET H1 == make(H, [type |-> "varDefAST", const |-> FALSE, var |-> nullptr,
                       init |-> init])
        H2 == VarAST(H1, t)
    IN  [H2 EXCEPT !.node[made(H1)].var = made(H2)]
DefAST(H, t, init) ==
    LET H1 == make(H, [type |-> "varDefAST", const |-> FALSE, var |-> nullptr,
                       init |-> init])
        H2 == VarAST(H1, t)
    IN  free([H2 EXCEPT !.node[made(H1)].var = made(H2)], t)

NewVec(H, def) == [H EXCEPT !.vecs = Append(@, <<def>>)]
PushBack(H, v, def) == [UseVec(H, v) EXCEPT !.vecs[v] = Append(@, def)]
SetConst(H, v) ==
    [UseVec(H, v) EXCEPT !.node =
        [n \in DOMAIN @ |->
            IF \E i \in DOMAIN H.vecs[v] : H.vecs[v][i] = n
            THEN [@[n] EXCEPT !.const = TRUE] ELSE @[n]]]
\* DeclAST moves the elements out of the list.
DeclAST(H, v) ==
    [make(UseVec(H, v), [type |-> "DeclAST", defs |-> H.vecs[v]])
        EXCEPT !.vecs[v] = Deleted]

\* The alternative of the variant, by the type id of the node.
BlockItemAST(H, n) ==
    make(H, [type |-> "BlockItemAST", item |-> n, is |-> H.node[n].type])
AddItem(H, block, item) ==
    IF item = nullptr THEN H
    ELSE [H EXCEPT !.node[block].items = Append(@, item)]

StmtAST(H, alt, parts) ==
    make(H, [type |-> "StmtAST", alt |-> alt, parts |-> parts])
ExpAST(H, alt, op, parts) ==
    make(H, [type |-> "ExpAST", alt |-> alt, op |-> op, parts |-> parts])
OpExpAST(H, left, t, right) ==
    free(ExpAST(UseText(H, t), "op", set_op_ast(tokens[t]), <<left, right>>), t)

-----------------------------------------------------------------------------
(* The actions: v holds $1, $2, ...; the heap afterwards, and $$.             *)

Gives(H, val) == [heap |-> H, val |-> val]
GivesNode(H) == Gives(H, made(H))

DeclAction(H, do, v) ==
    CASE do = "decl" -> GivesNode(DeclAST(H, v[1]))
      [] do = "constDecl" -> Gives(SetConst(H, v[3]), v[3])
      [] do = "defs" -> Gives(NewVec(H, v[1]), Len(H.vecs) + 1)
      [] do = "push_back" -> Gives(PushBack(H, v[1], v[3]), v[1])
      [] do \in {"constDef", "varDefInit"} ->
            Gives(DefAST(H, v[1], v[3]), made(H) + 1)
      [] do = "varDef" -> Gives(DefAST(H, v[1], nullptr), made(H) + 1)

\* Mutant: an else branch is dropped.
StmtAction_noelse(H, do, v) ==
    CASE do = "return" -> GivesNode(StmtAST(H, "return", <<v[2]>>))
      [] do = "returnVoid" -> GivesNode(StmtAST(H, "return", <<nullptr>>))
      [] do = "assign" -> GivesNode(StmtAST(H, "assign", <<v[1], v[3]>>))
      [] do = "blockStmt" -> GivesNode(StmtAST(H, "block", <<v[1]>>))
      [] do = "expStmt" -> GivesNode(StmtAST(H, "exp", <<v[1]>>))
      [] do = "nullStmt" -> Gives(H, nullptr)
      [] do \in {"if", "ifElse"} ->
            GivesNode(StmtAST(H, "if", <<v[3], v[5], nullptr>>))
      [] do = "while" -> GivesNode(StmtAST(H, "while", <<v[3], v[5]>>))
      [] do \in {"break", "continue"} -> GivesNode(StmtAST(H, do, <<>>))
StmtAction(H, do, v) ==
    CASE do = "return" -> GivesNode(StmtAST(H, "return", <<v[2]>>))
      [] do = "returnVoid" -> GivesNode(StmtAST(H, "return", <<nullptr>>))
      [] do = "assign" -> GivesNode(StmtAST(H, "assign", <<v[1], v[3]>>))
      [] do = "blockStmt" -> GivesNode(StmtAST(H, "block", <<v[1]>>))
      [] do = "expStmt" -> GivesNode(StmtAST(H, "exp", <<v[1]>>))
      [] do = "nullStmt" -> Gives(H, nullptr)
      [] do = "if" -> GivesNode(StmtAST(H, "if", <<v[3], v[5], nullptr>>))
      [] do = "ifElse" -> GivesNode(StmtAST(H, "if", <<v[3], v[5], v[7]>>))
      [] do = "while" -> GivesNode(StmtAST(H, "while", <<v[3], v[5]>>))
      [] do \in {"break", "continue"} -> GivesNode(StmtAST(H, do, <<>>))

ExpAction(H, do, v) ==
    CASE do = "lval" -> GivesNode(free(VarAST(H, v[1]), v[1]))
      [] do = "number" ->
            GivesNode(make(H, [type |-> "NumberAST", val |-> v[1]]))
      [] do = "numExp" -> GivesNode(ExpAST(H, "num", "OP_BAD", <<v[1]>>))
      [] do = "lvalExp" -> GivesNode(ExpAST(H, "lval", "OP_BAD", <<v[1]>>))
      [] do = "unary" -> GivesNode(OpExpAST(H, nullptr, v[1], v[2]))
      [] do = "binary" -> GivesNode(OpExpAST(H, v[1], v[2], v[3]))

DeclActions == {"decl", "constDecl", "defs", "push_back", "constDef",
                "varDefInit", "varDef"}
StmtActions == {"return", "returnVoid", "assign", "blockStmt", "expStmt",
                "nullStmt", "if", "ifElse", "while", "break", "continue"}
ExpActions == {"lval", "number", "numExp", "lvalExp", "unary", "binary"}
Actions == {"unit", "func", "block", "add_item", "item", "first", "second"}
           \cup DeclActions \cup StmtActions \cup ExpActions
\* $$ = $1 is also the default of a rule without an action.
Action(H, do, v) ==
    CASE do = "unit" -> Gives([H EXCEPT !.top = v[1]], v[1])
      [] do = "func" ->
            GivesNode(free(make(UseText(H, v[2]),
                                [type |-> "FuncDefAST", ident |-> v[2],
                                 block |-> v[5]]), v[2]))
      [] do = "block" ->
            GivesNode(make(H, [type |-> "BlockAST", items |-> <<>>]))
      [] do = "add_item" -> Gives(AddItem(H, v[1], v[2]), v[1])
      [] do = "item" /\ v[1] # nullptr -> GivesNode(BlockItemAST(H, v[1]))
      [] do = "item" /\ v[1] = nullptr -> Gives(H, nullptr)
      [] do = "first" -> Gives(H, v[1])
      [] do = "second" -> Gives(H, v[2])
      [] do \in DeclActions -> DeclAction(H, do, v)
      [] do \in StmtActions -> StmtAction(H, do, v)
      [] OTHER -> ExpAction(H, do, v)

-----------------------------------------------------------------------------
(* Who owns what.                                                             *)

\* The text an action frees and the list it uses, by the place on the right
\* side, and the value it hands on as it is.
FreedAt(do) ==
    CASE do \in {"constDef", "varDefInit", "varDef", "lval", "unary"} -> {1}
      [] do \in {"func", "binary"} -> {2}
      [] OTHER -> {}
UsedAt(do) ==
    CASE do \in {"decl", "push_back"} -> {1}
      [] do = "constDecl" -> {3}
      [] OTHER -> {}
PassedOn == [first |-> 1, second |-> 2]

Places(rhs, symbols) == {k \in DOMAIN rhs : rhs[k] \in symbols}
Only(k, condition) == IF condition THEN {k} ELSE {}

\* A production and its action agree on it.
Agree(rule) ==
    LET do == rule.do
        textAt == Places(rule.rhs, TextSymbols)
        listAt == Places(rule.rhs, ListSymbols)
        defAt == Places(rule.rhs, DefSymbols)
    IN  IF do \in DOMAIN PassedOn
        THEN /\ PassedOn[do] \in DOMAIN rule.rhs /\ rule.lhs \notin DefSymbols
             /\ textAt = Only(PassedOn[do], rule.lhs \in TextSymbols)
             /\ listAt = Only(PassedOn[do], rule.lhs \in ListSymbols)
        ELSE /\ textAt = FreedAt(do) /\ rule.lhs \notin TextSymbols
             /\ listAt = UsedAt(do)
             /\ rule.lhs \in ListSymbols
                    <=> do \in {"defs", "push_back", "constDecl"}
             /\ rule.lhs \in DefSymbols
                    => do \in {"constDef", "varDefInit", "varDef"}
             /\ do = "defs" => 1 \in defAt
             /\ do = "push_back" => 3 \in defAt

ASSUME ActionsAgree ==
    \A r \in DOMAIN Rules \ {AcceptRule} :
        Rules[r].do \in Actions /\ Agree(Rules[r])

-----------------------------------------------------------------------------
(* The parser.                                                                *)

Top == Last(stack)
Values(n) == [i \in 1..n |-> stack[Len(stack) - n + i].val]

\* A state that shifts nothing reduces without a lookahead.
Consistent == At(Top.state).shifts = {}
Reducible ==
    /\ result = "none" /\ At(Top.state).reduces \notin {{}, {AcceptRule}}
    /\ Consistent \/ (yychar # "none" /\ yychar \notin At(Top.state).shifts)

ParserInit ==
    /\ input \in Inputs
    /\ ahead = <<>> /\ tokens = <<>> /\ yychar = "none"
    /\ stack = <<[state |-> FirstState, val |-> nullptr]>>
    /\ texts = {} /\ vecs = <<>> /\ node = <<>> /\ top = nullptr
    /\ misused = FALSE /\ result = "none"

\* A new process, on another source of the same input.
ParserReset ==
    /\ ahead' = input.head /\ tokens' = <<>> /\ yychar' = "none"
    /\ stack' = <<[state |-> FirstState, val |-> nullptr]>>
    /\ texts' = {} /\ vecs' = <<>> /\ node' = <<>> /\ top' = nullptr
    /\ misused' = FALSE /\ result' = "none"
    /\ UNCHANGED input

\* Whether the parser, in these states, will shift t. The tokens it will not
\* shift lead it through the same reductions to the same error, so that one of
\* them stands for all ("bad").
Expects(states, t) ==
    LET shifts[ss \in Seq(Nat)] ==
            LET s == Last(ss)
                rule == Bison.rules[CHOOSE r \in At(s).reduces : TRUE]
                below == SubSeq(ss, 1, Len(ss) - Len(rule.rhs))
            IN  \/ t \in At(s).shifts
                \/ /\ At(s).reduces \notin {{}, {AcceptRule}}
                   /\ shifts[Append(below, At(Last(below)).goto[rule.lhs])]
    IN  shifts[states]

\* Bound: a source is given up when it cannot close its brackets in time.
Fits(ts) ==
    Len(ts) + Cardinality({i \in DOMAIN ts : ts[i] \in {"(", "{"}})
        - Cardinality({i \in DOMAIN ts : ts[i] \in {")", "}"}}) <= input.max

\* The phrases the source may go on with.
Continuations ==
    IF ahead # <<>> THEN {ahead}
    ELSE {p \in input.phrases :
            /\ Expects([i \in DOMAIN stack |-> stack[i].state], p[1])
            /\ Fits(tokens \o p)}
         \cup {<<"bad">>, <<"$end">>}

\* yylex: the next token, with a copy of its text if it has one.
Lex ==
    /\ result = "none" /\ yychar = "none" /\ ~Consistent
    /\ \E phrase \in Continuations :
          /\ yychar' = phrase[1]
          /\ tokens' = Append(tokens, phrase[1])
          /\ texts' = IF phrase[1] \in Texts
                      THEN texts \cup {Len(tokens) + 1} ELSE texts
          /\ ahead' = Tail(phrase)
    /\ UNCHANGED <<input, stack, vecs, node, top, misused, result, arena>>

Shift ==
    /\ result = "none" /\ yychar \in At(Top.state).shifts
    /\ stack' = Append(stack, [state |-> At(Top.state).goto[yychar],
                               val |-> Len(tokens)])
    /\ yychar' = "none"
    /\ UNCHANGED <<input, ahead, tokens, texts, vecs, node, top, misused,
                   result, arena>>

\* YYABORT of the action for a constant without an initial value.
Aborts(do, v) == do = "constDef" /\ v[3] = nullptr

Reduce ==
    /\ Reducible
    /\ \E r \in At(Top.state).reduces :
          LET rule == Bison.rules[r]
              below == SubSeq(stack, 1, Len(stack) - Len(rule.rhs))
          IN  \E v \in {Values(Len(rule.rhs))} :
              \E did \in {Action(Heap, rule.do, v)} :
                 /\ stack' = Append(below,
                        [state |-> At(Last(below).state).goto[rule.lhs],
                         val |-> did.val])
                 /\ arena' = did.heap.arena /\ texts' = did.heap.texts
                 /\ vecs' = did.heap.vecs /\ node' = did.heap.node
                 /\ top' = did.heap.top /\ misused' = did.heap.misused
                 /\ result' = IF Aborts(rule.do, v) THEN "error" ELSE "none"
    /\ UNCHANGED <<input, ahead, tokens, yychar>>

Return(res) ==
    /\ result' = res
    /\ UNCHANGED <<input, ahead, tokens, yychar, stack, texts, vecs, node,
                   top, misused, arena>>
\* The end of the input has been shifted.
Accept ==
    /\ result = "none" /\ At(Top.state).reduces = {AcceptRule}
    /\ Return("accepted")
\* yyerror, and nothing of what was read is freed.
SyntaxError ==
    /\ result = "none" /\ yychar # "none"
    /\ yychar \notin At(Top.state).shifts /\ At(Top.state).reduces = {}
    /\ Return("error")

ParserNext ==
    \/ Lex \/ Shift \/ Reduce \/ Accept \/ SyntaxError

-----------------------------------------------------------------------------
Accepted == result = "accepted"

\* NothingLeaks: no text or list is used after it was freed, nor freed twice,
\* and a program that is accepted leaves none behind (free and delete in the
\* actions of SysY.y, against the strdup of SysY.l).
NothingLeaks ==
    /\ ~misused
    /\ Accepted => texts = {} /\ \A v \in DOMAIN vecs : vecs[v] = Deleted
=============================================================================
