------------------------------ MODULE MCDriver ------------------------------
(* Sources and sizes for TLC. Each input is there for one part of the grammar *)
(* and is taken by one compiler; the last is nearly empty, and is for what    *)
(* two compilers do to one directory.                                         *)
EXTENDS Driver, DumpAST

Main == <<"int", "IDENT", "(", ")", "{">>
Each(kinds) == {<<k>> : k \in kinds}
Cond(k) == <<k, "(", "IDENT", ")">>

\* "-d" is as no flag at all, as far as files go.
Flags == {"-f", "none"}
Source(phrases, max) ==
    [head |-> Main, phrases |-> phrases, max |-> max, modes |-> {"other"},
     flags |-> {"none"}, tests |-> FALSE, turns |-> 1]

\* Parentheses and signs among operators of four levels.
Nested == Source(Each({"IDENT", "(", ")", "||", "&&", "-", "*", "!"})
                     \cup {<<";", "}">>}, 13)
\* Three operands, with an operator of the levels in between.
Levels == Source(Each({"IDENT", "&&", "==", "<=", "-"}) \cup {<<";", "}">>}, 12)
\* Every operator.
Operations == Source(Each((Operators \cup {"IDENT"})) \cup {<<";", "}">>}, 10)
\* Up to two conditions with their branches.
Branches == Source({Cond("if"), Cond("while"), <<"else">>, <<";">>, <<"}">>}, 18)
\* Blocks and statements in branches.
Statements ==
    Source({Cond("if"), Cond("while"), <<"else">>, <<"{">>, <<"}">>,
            <<"break", ";">>, <<"IDENT", "=", "IDENT", ";">>,
            <<"int", "IDENT", ";">>}, 16)
Returns == Source(Each({"IDENT", "{", "}", ";", "=", "return"})
                      \cup {<<"continue", ";">>}, 12)
Definitions == Source(Each({"int", "IDENT", "}", ";", "const", "=", ",",
                            "INT_CONST"}), 14)
Directory == [Source({<<"}">>}, 6) EXCEPT !.modes = Modes, !.flags = Flags,
                                          !.tests = TRUE, !.turns = 2]

MCInputs == {Nested, Levels, Operations, Branches, Statements, Returns,
             Definitions, Directory}

\* sizeof on a 64-bit target, the larger IR types at the size of a Symbol.
MCTypes == {"FuncDefAST", "BlockAST", "BlockItemAST", "DeclAST", "varDefAST",
            "VarAST", "NumberAST", "StmtAST", "ExpAST", "ValueInt", "TypeInt"}
MCSizeOf ==
    [T \in MCTypes |->
        CASE T \in {"TypeInt", "NumberAST"} -> 16
          [] T \in {"varDefAST", "ValueInt"} -> 24
          [] T = "BlockItemAST" -> 32 [] T = "DeclAST" -> 40
          [] T \in {"StmtAST", "ExpAST"} -> 48 [] T = "VarAST" -> 56
          [] T = "FuncDefAST" -> 88 [] T = "BlockAST" -> 96]
MCTrivial == {"varDefAST"}
MCIRTypes == {"ValueInt", "TypeInt"}
=============================================================================
