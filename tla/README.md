# SysY compiler: models, checks and proofs

The compiler turns one SysY function (`int f() { ... }`, a subset of C with
`int`, `const int`, `if`, `while`, `break`, `continue`, `return`) into RISC-V
assembly. `src/src/main.cc` parses the file, then runs three visitors over the
AST, then one over the IR; each result may be dumped to a file. What makes the
compiler hard is that every pass is a recursion over an arbitrarily nested
program, that passes talk to each other through *mutable shared structure*
(symbol tables, identifiers and IR pointers stored in AST nodes), and that state
is saved in C++ locals across recursive visits. Around the compiler,
`src/run_test.py` runs one source after the other in a single directory, with
timeouts: there the processes, their files and their failures are the
difficulty. Paths below are relative to `src/src/`.

## Inventory

| Component | State it keeps | Operations | What makes it correct |
|---|---|---|---|
| Driver, `main.cc` | the mode and the flag, the stream of a dump, the exit status, the files `out.ast`, `out.koopa`, `out.S` | open the input, parse, run the passes in order, dump, tear down; an assertion or an exception ends the process at once | a file a later program reads is the whole output of this compilation |
| Lexer, parser, `SysY.l`, `SysY.y` | the parser's stack, the strdup'ed texts, the lists of definitions, the AST | one action per production | the AST means what the text means; no text is used after it was freed or left behind |
| AST and symbol tables, `ast/BaseAST.hh`, `VarAST.hh`, `StmtAST.hh`, `BlockAST.hh` | a `SymTabAST` per block, `ident_` and `IRVar_` per `VarAST` | `add_sym`, `remove_sym`, `set_ident`, `set_IR_var` | entries are looked up only where they are |
| Scope check, `ast/SemanticCheck.cc` | scope stack, `isUnderWhile_`, `namedVarRecord_` | declare, bind, reject, rename | lexical scoping; exact rejections; distinct variables afterwards, for names that do not look renamed |
| Constant propagation, `ast/ConstProp.cc` | scope stack, the node a visit returns | fold, replace, reject | a constant's use becomes *its* value, a variable's use stays |
| IR generation, `ast/GenIR.cc`, `ir/FunctionIR.cc`, `ir/BlockIR.hh`, `ir/InstrIR.hh` | current block and value, loop context, return slot, block list, instruction lists | lower declarations, statements, expressions | a well-formed control-flow graph in which every path defines before it uses |
| Code generation, `ir/GenASM.cc`, `asm/` | stack offsets, register counter, labels | prologue, one handler per instruction, epilogue | slots do not overlap, registers suffice, labels exist, immediates fit |
| Arena, `common/mmp.hh` | bump pointer, block list, destructor stack | `make`, destruction | every object destroyed once, before its memory goes |
| IR types and dump, `ir/InstrIR.cc`, `ir/BlockIR.cc`, `ir/ValueIR.hh`, `ir/TypeIR.hh` | none | print | the text can be read back |
| Test runner, `../run_test.py` | the counts, `run.log`, the processes it started | compile, make, compare, time out | every source is counted; the program that was run is the one that was compiled, and its output the one compared |

How they interact. The scope check fills one `SymTabAST` per block and replaces
the `VarAST` of each use by that of its declaration; at the end of the function
it renames the variables that share a name, *in the tables and in the shared
`VarAST`s*. Constant propagation walks the same AST again over those tables,
which by then hold every declaration of a block, including the ones behind the
node being visited, and overwrites the placeholders of constants. IR generation
reads the symbol of a use through the `VarAST` the first pass bound, if it bound
one, and the
symbol of an assignment through a function-wide table keyed by the renamed
identifier. Code generation keys stack slots by symbol name and labels by block
name. Every node, symbol, type and instruction lives in one arena, whose blocks
and destructors go when `main` returns, and never when the process dies.

### Hard behaviours

`PROJECT.json` lists the hazards with their lines and the properties that cover
them. In short:

* two searches of one scope stack that do not agree (`sym_is_const`,
  `get_sym_var`), and a third one in the next pass that agrees with neither;
* a renaming loop over an `unordered_map` that edits the tables it searches;
* a second pass that sees declarations the first had not reached;
* state saved in locals over recursive visits (`isUnderWhile_`, the loop
  blocks), and "the current block" changing under a caller's feet;
* code skipped once a block has ended, together with its declarations;
* a return slot inserted at the head of a block that is being filled;
* null pointers that a later pass reads if an earlier one skipped a node, dropped
  its replacement or took a variable for a constant;
* names the renaming makes that the program has already, under which two variables
  share one entry of the table of names;
* limits of the target: 12-bit immediates, seven temporaries, label names;
* semantic values of the parser that own memory, handed on or freed by each
  production;
* constructors that allocate while they run;
* a compiler that is killed, or dies, between the opening of an output and its
  last byte, in a directory with the outputs of the sources before; a program
  that goes on running after its test has timed out.

## Modules

| Module | Models | Extends |
|---|---|---|
| `Grammar` | the tokens and productions | |
| `LRAutomaton` | external: the tables bison builds | `Grammar` |
| `SysYReference` | abstract: what a program text means | `Grammar` |
| `Arena` | the allocator and its destructor stack | |
| `Parser` | lexer, parser, its actions, the AST | `LRAutomaton`, `Arena` |
| `DumpAST` | the dump of the AST, compared with the meaning of the text | `Parser`, `SysYReference` |
| `Driver` | the compiler process, its files, the test runner | `Parser` |
| `DriverProofs` | objects of the arena are apart and die in order; each text and each list is freed once; what the test runner runs and compares | `Driver` |
| `MCDriver` | sources and sizes for TLC | `Driver`, `DumpAST` |
| `ScopeCheck` | the scope check, with the symbol tables and the renaming loop | |
| `MCScopeCheck` | names for TLC | `ScopeCheck` |
| `ScopeCheckProofs` | type correctness, the loop flag, lexical binding, justified rejections, safety of the renaming and what it leaves | `ScopeCheck` |
| `ConstProp` | constant propagation composed with the scope check | `ScopeCheck` |
| `MCConstProp` | names and programs for TLC | `ConstProp` |
| `ConstPropProofs` | lookups of the second pass, right folding | `ConstProp`, `ScopeCheckProofs` |
| `InstrList` | the linked list of a block's instructions | |
| `GenIR` | IR generation with functions, blocks and instructions | `InstrList` |
| `GenIRProofs` | well-formed output, the loop context | `GenIR` |
| `GenIRBlockProofs` | every block ends once, the return slot, symbols are found, the known ways to stop | `GenIRProofs` |
| `GenIRFlowProofs` | on every way through the function a symbol is defined before it is used | `GenIRBlockProofs` |
| `DumpIR` | the text of the IR, and reading it back | `GenIR` |
| `DumpIRProofs` | the linked lists hold the code, printed names stand for one symbol | `DumpIR`, `GenIRFlowProofs` |
| `SourceProgram` | abstract: the order in which a function's statements act | |
| `RunIR` | the blocks `GenIR` made, run; implements `SourceProgram` | `GenIR` |
| `IRCode` | the instructions of the IR as data, the words they compute with | |
| `IRMachine` | abstract: what a function of the IR means | `IRCode` |
| `GenASM` | code generation: frame, registers, labels | `IRCode` |
| `RunASM` | the assembler and the machine, composed with `GenASM`; implements `IRMachine` | `GenASM` |
| `ConstFold` | each operator as the compiler folds it and as it is lowered | `IRCode` |
| `MCRunASM` | functions for TLC, lowered as IR generation lowers them | `RunASM`, `ConstFold` |
| `RunASMProofs` | slots are disjoint, registers suffice, code of different blocks stands under different labels; the code that is run implements the IR, keeps to its frame and gives its stack back | `RunASM` |

### How a recursive visitor becomes a state machine

The program is not a constant of the models. Each step of the walk picks, with
`\E`, a node the parser could have produced at that place, so one run covers all
programs within the bounds; in `Parser` each call of the lexer picks the next
token. A visit that makes nested visits is split where the
nested visit returns: the variable `frames` is the C++ call stack, one frame for
each visit in progress, holding exactly the locals the code keeps across the
nested call (`v` of a `while` in the scope check; `preB1`, `preB2`, `mergeB`,
`elseB`, `val1`, `retVar` in IR generation). Everything a handler does between
two nested visits is one action.

### Grammar, LRAutomaton, Parser, DumpAST, SysYReference

`Grammar` is the productions of `SysY.y` in their order, each with the name of
its action. `LRAutomaton` builds from them the states and the default reductions
that bison builds (bison is not part of the repository, so the module is marked
external); `%prec LOWER_THAN_ELSE` is the shift of an `else` that could also be
reduced on. `Parser` runs it: `yylex` makes a text for the tokens that carry
one, `Shift`, `Reduce` with the action of the production, and the ways to fail.
A text is known by the position of its token, a node by its index, so that a
value used twice or never is seen; `texts` and `vecs` are the `strdup`s and the
`std::vector`s that are still there, `misused` the use of one that is not.

Which symbols carry a text, a definition or a list is what the `%token` and
`%type` lines say (`TextSymbols`, `DefSymbols`, `ListSymbols`). `Agree` compares
a production with its action: each text on the right side is freed by the action
or is what it passes on, each list is used up or passed on. `ActionsAgree` says
so of all productions, and `NoConflict` and `TablesClosed` say of the tables what
every LR automaton has. The three are closed formulas about the one grammar
there is: nothing in them is left to choose, and TLC finds them true of all 69
productions and all 112 states in the run that has the parser.

`DumpAST` is the `Dump` methods. `ParsedRight` compares what they print with the
meaning of the text in `SysYReference`, which knows no parser: an expression is split at its loosest
operator farthest right, an `else` is given to the nearest `if`, statement by
statement, as `ast/rules.txt` and the comments of `ast/StmtAST.hh` state the
grammar. An empty statement leaves no trace in either.

### Arena

`Begin` and `Finish` are the two halves of `MArena::make` (`common/mmp.hh`):
memory is taken before the constructor runs, the destructor is recorded behind
it, and what the constructor makes comes in between. `arena` holds the blocks,
`curPtr_` as an offset into the last one, the objects and `dtorStack_`.
`ArenaSpec` uses it in any way at all and is what the proofs are about; the
`compile` run uses it as the compiler does, with nested makes where the source
has them (`ValueInt` makes its type, `ir/ValueIR.hh:25`).

### Driver

One process after the other in one directory. `stage` is where the compiler is:
`OpenInput`, `Parse`, the passes, `OpenDump` and `WriteDump`, `ExitMain` and the
teardown of the arena. A pass is reduced to what it can do to the process: make
objects, end, or bring everything down (`Dies`), which leaves a dump that was
being written unfinished and runs no destructor. A stream may fail to open or to
write; `main` never asks it and returns 0.

`StartTest`, `CompileTimeout`, `CompileFailed`, `Compiled`, `MakeFails`,
`MakeRuns`, `Compared` and `RunTimeout` are `process_c_files` of `run_test.py`.
The timeout of the compiler kills the compiler; that of `make run_asm` kills
`make` but not the program it has started (`alive`), which may go on writing
into the `run.log` of the next source. So `RunsOwnOutput` has one exception,
an output that could not be opened or written, and `ReadsOwnLog` one, the program
of an earlier source that was counted as a timeout. Both are what the code does,
and both properties say that it does nothing worse.

### ScopeCheck

`scopes`, `underWhile` and `record` are the fields of `ScopeCheckCtx`
(`curSymTab_` is always the table of the last scope); `tab` holds the
`SymTabAST` of each block, `ident` the `ident_` of each declared `VarAST`. An
identifier is a base and the numbers appended to it, so that `a_1` in the source
and the renamed `a` can be the same name. `ast` is the tree as every visitor
meets it, one record per node; each use in it holds both the `VarAST` the code
bound (`var`) and the declaration C means (`lex`), which is computed from the
declarations alone and read by no action.

| Action | Code |
|---|---|
| `OpenBlock`, `CloseBlock` | `visit(BlockAST*)`, `push_scope`, `pop_scope` |
| `Redefine`, `ConstDecl`, `VarDecl` | `visit(DeclAST*)`: one definition; the entry is made before the initializer is visited |
| `Assign`, `ReturnOrExp`, `If`, `While`, `EndStmt`, `BreakOrContinue` | `visit(StmtAST*)` |
| `VisitExp`, `Use` | `visit(ExpAST*)`: the leaves of an expression in order |
| `RenameSym`, `FinishRename` | `handle_same_name_var_within_func`; one step per name, because the order is the hash map's |

A `throw` is a state: `pass = "throw"` with the name and the reason in `err`.
The tables of one name are visited in the order they recorded it; since a block
records a name once, that order is the order of the blocks in `record[x]`, and
one step may do them all.

### ConstProp

Replays `ast` over the tables the first pass left. `cscopes` is its own stack of
scopes, `out` what each use was replaced by. A value is the set of constants
whose literals it was folded from (`INT32_MIN` is the value of the placeholder):
this tells apart which *declaration* a folded number came from, which is what
can go wrong, and leaves the arithmetic out. `VisitStored` is an initializer,
assignment or return, whose replacement is stored; `VisitCond` a condition,
whose replacement is dropped; `Skip` an expression statement, which the pass
ignores; `Abort` the `assert(false)` of `sym_is_const` (the Makefile builds
without `NDEBUG`).

### GenIR

`blocks` is `Function::bbs_`, each with its instructions, `isTerminated_` and
edges; `cur`, `val`, `entryB`, `mergeB` are the fields of `GenIRCtx`; `irvar` is
`IRVar_` per variable. Symbols are numbered. `symTab` and `tmps` are the
function-wide table of names and the counter behind the names `t0`, `t1`, ... of
temporaries (`get_tmp_var`, `add_var`): a use goes through `irvar`, an
assignment through `symTab`, and `NamesAgree` relates the two. A variable may be
named like a temporary, for the numbers in `TempLike`. Such a variable does clash
in the code: after `int t0; if (c) return;` the table entry of `t0` belongs to
the temporary of the exit block, and `t0 = 1;` stores there (`NameTaken`).
`SlotLike` allows a variable the name `_retSlot_`. With `Captures` two variables
may have one name (`Shared`): `RenamedUnique` of `ScopeCheck` rules that out for
names that do not look renamed only, and in
`int a_1; { int a; { int a; a_1 = 1; } }` the renaming makes a second `a_1`. The
two then share an entry of `symTab`, and `a_1 = 1` stores to the one lowered last.
`NamesAgree` says just this: an assignment goes to the variable of that name that
was lowered last, so to the right one if the name is not shared, unless a
temporary took it. `DefsReachUses` excepts programs with a taken or a shared
name: the symbol an assignment finds there may be defined on another way only.

`vis` is the set of variables the scope check would accept at the place; it is
the environment's, and no handler reads it. A use is of one of them (`LVal`), its
`VarAST` that of the declaration, or it is one nothing was bound to
(`UnboundLVal`), its `VarAST` the parser's, whose `IRVar_` is null. The scope
check binds no use that `sym_is_const` takes for one of a constant. The second
pass then replaces constants by numbers, but it skips expression statements
(`c;`), drops the replacement of a condition (`while (c)`), and finds a variable
where one hides the constant (`const int a = 1; { int a = 2; return a; }`), is
declared further down, or was renamed to that name. The last three leave unbound
uses in any expression, so `UnboundLVal` may be wherever an expression is.

A block has its instructions twice: `list` is the linked
list of `InstrList`, with `create_instr` and the edit by which `get_return_var`
puts the slot first; `instrs` is the sequence it should hold.

Three null pointers end the walk in `mode = "crash"`: `IRVar_` of a variable in
its own initializer, that of an unbound use, and the empty first branch of an `if`
that has an `else`. So would `Function::get_var` for an unknown name.
`CrashesKnown`, a property of steps, says that the walk ends early in these ways
and in no other: while no variable in sight waits for its symbol, only a use that
the passes before left unbound is read through a null pointer.

`DeadTail` names one exception: the back jump that `process_while_stmt` adds
behind a body that has left already. `ir/rules.txt:42` gives a block one end
instruction; `while (1) return 1;` makes a block with two (`ast/GenIR.cc:266`),
and a function that falls off its end leaves its last block with none.

### DumpIR

`Lines` is what `Block::dump` prints, along the linked list from the entry
instruction: the same walk as that of code generation. `InstrMeant` reads a line
back by the names in it. `DumpReadsBack` says that this gives the block: no
instruction is lost, met twice or out of order, and no two symbols are printed
alike. A variable `t0` is told from a temporary by its sigil; a variable
`_retSlot_` is not told from the return slot, nor one variable from another of
its name, and the property says so.

### RunIR and SourceProgram

`SourceProgram` gives a nest of statements its meaning: which assignment, test
or return comes next, for every outcome of the tests. `RunIR` writes the AST
down while `GenIR` lowers it, with the node each store and each branch was made
for, and then runs the blocks from one of these to the next. `Follows` is the
refinement: the blocks do what the source says in its order, and the run ends
behind the block the lowering left open exactly when the source falls off its
end. Values play no part in it.

### GenASM

A function of the IR is a constant of the model, out of any set `Functions` with
the shape `GenIR` gives (`FunctionsAssumption`): the record of its label, the
names of its symbols and the instructions of its blocks.

| Definition | Code (`ir/GenASM.cc`) |
|---|---|
| `Prologue` | `visit(Function*)`: the label, `set_offset` for the first symbol of each name, the frame rounded up to 16 bytes, the adjustment of `sp` |
| `EnterBlock`, `LeaveBlock` | `visit(Block*)`; a block without instructions is skipped, label included |
| `VisitAlloc`, `VisitStore`, `VisitLoad`, `VisitBExpr`, `VisitBr`, `VisitJump`, `VisitRet` | one visit each, all the instructions it emits |
| `GetReg` | `get_a_reg_var`, with the `assert(false)` for an undefined value as `AssertFails` |
| `WithBB` | `FuncASM::create_or_get_BB` (`asm/cfg.cc`) |

`offset` starts as `(unsigned)-1` and stays so for a symbol whose name has a
slot already. The generators for the operators `and` and `or` are not modelled:
IR generation turns `&&` and `||` into branches and never makes those.
Immediates fit when they are at least `-ImmLimit` and below `ImmLimit`, which
stands for 2^11.

### RunASM and IRMachine

`IRMachine` is the abstract specification: a symbol holds a word, one action per
kind of IR instruction, words wrap at `Width` bits, division rounds to zero and
division by zero gives any word. `RunASM` runs the code: `Assemble` refuses code
with an undefined label or an immediate that does not fit, the other actions are
the instructions `asm/instr.hh` describes on registers and a stack of words, and
an access outside of the stack or between two words is the final state
`"stray"`. Each emitted instruction remembers the IR instruction it was made for
(`ir`), which no action reads.

`FunctionsAssumption` lets `GenASM` compile functions that mean nothing, among
them one that is named like a block of its own. `RunASM` runs those the IR gives
a meaning to, and says which (`RunnableAssumption`): the entry has code; a block
with code ends in a branch, a jump or a return; a literal is a word, and a symbol
that is used is defined somewhere; the frame fits the stack. What that leaves out
is a function that falls off its end, whose code runs on into whatever comes
behind it, and a stack overflow. `OpenEnds` and `DefsReachUses` of `GenIR` are the
reasons for which the other functions it lowers are like this.

The exclusive or is a recursive function over the bits of its two operands
(`XorBits`), as are the powers of two in `IRCode`: the operators of `Bitwise` are
`RECURSIVE`, and nothing could be proved about them.

The refinement `IRM` reads a symbol's word in its slot and takes the IR
instruction the program counter is in as the place of the abstract machine.
`Implements == IRM!Spec` says that each IR instruction takes effect in its
order, with its result, at the last instruction generated for it, and that
nothing else changes a slot: comparisons built from `slt`, `sgt` and a negation,
operands that are overwritten, and jumps over blocks are all checked by it.

`BlocksApart` looks at the basic blocks of the assembly: they are found by label
(`asm/cfg.cc:24`), and code of two blocks of the IR never ends up in one, nor
does the prologue's with a block's. The exception is a function named like one
of its own blocks (`int b1() { ... }`), whose prologue shares that block's code.

`ConstFold` has every operator twice, as `cal_unary_exp` and `cal_binary_exp`
compute it and as `GenIR` lowers it. The functions of `MCRunASM` are built from
the second, and `FoldAgrees` compares what they return with the first: the same
expression gives the same number whether its operands are literals or variables,
but for divisions that trap in the compiler and for `&&` with a left operand
that is neither 0 nor 1.

`RejectedFor` names the three reasons for which the assembler refuses code the
compiler made: the frame is too large for the epilogue's immediate, a literal is
too large for one, or a branch names a block without instructions, whose label
`ir/GenASM.cc:110` leaves out (`while (1) return 5;` at the end of a function).

## Runs

The runs of the passes check deadlock: a finished run stutters explicitly
(`ScopeOver`, `CPOver`, `Over`, `Stop`). `source` and `compile` do not: there
the system really stops, when the function has been run, and when the last
compiler of an input has ended.

Fairness is assumed twice. `run_code` has `WF_vars(Next)`: the compiler and then
the machine go on as long as they can, which is all that running a sequential
program means. `Halts` needs it: the functions of that run return, so compiling
and running them must come to an end. `compile` has `WF_vars(Runner)` and
`WF_vars(Timeouts)`: `run_test.py` is scheduled, and the timer of
`subprocess.run` fires. Nothing is assumed of the compiler or of the program
under test, either may hang; `TestsEnd` says that the test is counted all the
same. The passes over the AST state no liveness: a recursion over a finite tree
ends, and to say so would only restate the bounds.

| Run | Checks | Shows |
|---|---|---|
| `scope_bindings` | `TypeOK`, `BindingLexical`, `ErrorsJustified`, `LoopFlag` | the search through the tables is lexical scoping, for one name declared again and again as constant and variable, in nested blocks, branches and loops |
| `scope_rename` | `RenameSafe`, `RenamedUnique`, `TablesKeepDecls` | the renaming never misses a name, in any order; for names that do not look renamed the variables end up distinct and each table keeps its declarations |
| `constprop_folding` | `CPTypeOK`, `FoldedRight`, `UnboundUses`, `NotConstJustified`, `CleanLookups` | with conditions, expression statements and expressions of two operands: in a plain program each constant became its own value and each variable stayed; in all clean programs the exceptions are the named ones; lookups fail only in programs with a name that looks renamed, and do fail there |
| `source` | `WhileContext`, `OpenEnds`, `DeadTail`, `ReturnProtocol`, `Follows` | the control-flow graph of all statement nests of five nodes, and that running it is running the source |
| `genir_values` | `TypeOK`, `DefsReachUses`, `VisibleLowered`, `NamesAgree`, `CrashesKnown`, `DumpReadsBack` | symbols, with all kinds of expression and two variables, one of them perhaps named `t0`, `_retSlot_` or like the other, and uses that were left unbound |
| `run_code` | `TypeOK`, `RegistersSuffice`, `SlotsDisjoint`, `RejectedFor`, `BlocksApart`, `StackBalanced`, `StaysInFrame`, `FoldAgrees`, `Implements`, `Halts` | the code of 1247 functions: every operator on words around zero and near both ends, as variables and literals; loops, branches, early returns, short circuits, frames on both sides of the limit |
| `compile` | `ParsedRight`, `NothingLeaks`, `RegionsApart`, `OuterDiesFirst`, `RunsOwnOutput`, `ReadsOwnLog`, `TestsEnd` | the compiler from its first token to its exit, for eight families of sources, and two compilations in one directory |

Five runs end in a counterexample, each a disagreement between the code and what
the repository says of it:

| Run | Property | Counterexample |
|---|---|---|
| `scope_const_lval` | `ConstLvalJustified` | `const int a = 1; { int a; a = 2; }` is rejected with "Use const var 'a' as LVal." although this `a` is a variable |
| `constprop_capture` | `AssertHolds` | `{ {int a_1 = a_1; int a;} int a; int a_1 = a; }`: renaming `a` takes the table entry of the program's own `a_1`, and a later lookup runs into `assert(false)` |
| `run_undef` | `NoUnexpectedBranch` | `return;`, which the grammar has, ends the compiler in `assert(false && "unexpected branch!")` |
| `run_imm` | `ImmediatesFit` | a frame or a literal beyond twelve bits becomes the immediate of an instruction described as `imm12` |
| `run_and` | `ConjunctionComputed` | `2 && 1` at run time is 0: the code tests `lhs == 1`, the comment and the folding pass say `lhs && rhs` |

`FoldedRight` and `NotConstJustified` speak of *plain* programs, and say so:
`PlainProgram` excludes names that look renamed, uses that a later declaration
of an enclosing block hides from the second pass, and variables that hide a
constant. `UnboundUses` and `CleanLookups` state what happens outside of these.

### Bounds

Every bound is a constant that appears in a guard. The smallest programs that
exercise a hazard are small: shadowing needs two blocks, restoring a flag after
a nested loop needs two nested `while` frames and a statement behind them,
capture needs three declarations, the return slot needs a return behind another
instruction. `scope_bindings` has three blocks, three declarations, seven nodes
and four nested visits (1.3 million states); `scope_rename` five declarations
in three blocks with `a`, `b` and `a_1`; `source` five statement nodes, which allow two
nested loops with a jump in and behind the inner one, and one variable; `genir_values` four nodes
and two variables. A literal, and a block that is the single statement of a
branch, cost no node, so a walk never stops in the middle for lack of room.
`constprop_folding` has two families of programs (`MCConstProp`): with statements,
up to three declarations of two names, five nodes and two operands an
expression, enough for a fold that depends on an earlier one across a block
border; of declarations alone, four of them in seven nodes, with a name that
looks renamed, which is the least a failing lookup takes (two million states).

`compile` draws each source from one of eight inputs, which give it a beginning,
the phrases it goes on with and a number of tokens: operators of four levels with
parentheses and signs (`Nested`, 13 tokens), three operands with the levels in
between (`Levels`), every operator (`Operations`), two conditions with their
branches (`Branches`, 18), blocks and statements in branches (`Statements`),
`Returns`, `Definitions`, and a nearly empty function compiled twice, by hand or
by the runner, in every mode (`Directory`): two compilations are what it takes to
take one's output for the other's. Wrong tokens are among the phrases, so errors
come at every place. The arena has blocks of 64 bytes, in which few objects fit
and some do not, and the later passes make two objects. The bound on a written
`run.log` is that a program writes only while `run_test.py` is making or running:
what it writes earlier is gone when the file is opened (1.5 million states).

`run_code` computes with words of `Width` = 8 bits and `ImmLimit` = 64, a stack
of 32 words. `Numbers` holds both signs, 0 and 1, the least word, a number that
overflows when doubled and numbers on both sides of the immediate's limit; `Wide`
has frames below, at and above that limit, where the prologue changes form. Smaller
words than the program's 32 bits change no operator: only `Width` and `ImmLimit`
occur in them. The functions of `MCRunASM` follow what `GenIR` lowers, one of
them with two symbols of one name.

## Proofs

Of the scope check, for all values of the constants (`Names` any set of identifiers, the bounds any
naturals: `NamesAssumption`, `BoundAssumption`), `tlapm` proves:

| Theorem | Statement |
|---|---|
| `TypeCorrect` | `Spec => []TypeOK` |
| `RenamingIsSafe` | `Spec => []RenameSafe` |
| `LoopFlagCorrect` | `Spec => []LoopFlag` |
| `BindingIsLexical` | `Spec => []BindingLexical` |
| `RejectionsAreJustified` | `Spec => []ErrorsJustified` |
| `VariablesEndUpDistinct` | `Spec => []RenamedUnique` |
| `TablesStayComplete` | `Spec => []TablesKeepDecls` |

`TypeOK` is not inductive: `push_scope` and the tables stay in step only
because the open scopes are nested as the frames are. `Shape` adds that:
`Depths` says that each frame remembers how many scopes are open during it, that
the last frame has all of them open, and that only block frames open one;
`InTables` that tables hold entries for existing declarations.
`RenamingIsSafe` adds `Recorded`: a table in `record[x]` still holds `x` as a
variable until `x` itself has been renamed, each table at most once. The loop
that renames `y # x` only adds `Renamed(y, n)` as a variable and removes `y`, so
it cannot take `x` away.

`LoopFlagCorrect` needs, for each `while` frame, that the flag it saved says
whether a `while` frame lies below it (`SavedFlags`). `BindingIsLexical` rests
on `Bindings`: block numbers in `scopes` ascend, and a declaration of `x` lies
in a table exactly as the declarations say, so the innermost table that holds
`x` is the one of the latest visible declaration; the accepted nodes stay right
because declarations are only appended. `RejectionsAreJustified` follows from
the same invariant at the moment of the throw.

The last two theorems rest on `Renames`. It gives the name a declaration has at
this moment, `NameNow`: the one it was declared with until its turn comes (for good,
if it is a constant or its name is in one block only), and `Renamed(x, n)` after it, where `n` is the place of its block in `record[x]`. The
invariant says that `record[x]` lists each block that declares `x` as a variable,
once (`RecordOf`), and that each declaration is in the table of its block under
`NameNow`. `CleanNames` is what makes this inductive: the entry `Renamed(x, n)`
overwrites is nobody's, as no name of the program looks renamed and two renamed
names differ when the name or the number does (`RenamedApart`). Then two
variables end up with one name only if they have the same name and the same place
in its record, so they are one.

Of constant propagation, composed with the scope check, for the same names and
bounds:

| Theorem | Statement |
|---|---|
| `SecondWalkTyped` | `CPSpec => []CPTypeOK` |
| `LookupsAreClean` | `CPSpec => []CleanLookups` |
| `UnboundUsesExcused` | `CPSpec => []UnboundUses` |
| `NotConstIsJustified` | `CPSpec => []NotConstJustified` |
| `FoldingIsRight` | `CPSpec => []FoldedRight` |

They reach over both passes, so what the scope check is known to keep
(`Recorded`, `Bindings`, `Renames`) is one half of `CPInv`, and what its output
looks like to the second walk is the other. `Trail` reads the blocks that are
open at a node off the AST alone: each use is of a declaration in one of them,
and no earlier declaration of that name lies further inside. `Walk` says that the
second walk's `cscopes` are just those blocks, the outer ones first. `Owned` says that the
tables hold no name but those that declarations have now, which is what stops a
lookup from finding anything else.

So a lookup finds some declaration of the name (`UseIsFound`), which gives
`LookupsAreClean`. It finds the one that lexical scoping means unless a later
declaration of an open block is in the way or the use was unbound before
(`FoundIsLexical`); that gives `UnboundUsesExcused` and `NotConstIsJustified`, and
shows that the exceptions they name, `LateDecl` and `HiddenVar`, are all there
are.

`FoldingIsRight` also has to know the value found, and `Folding` says it: each
constant has one node, in front of every use of it outside of its initializer (`Consts`);
until the second walk each constant has the placeholder `INT32_MIN`
(`Placeholders`), and during it the constants whose node is behind have `RefVal`,
the others the placeholder still (`Values`). `RefVal` is a recursive function. Its equation
is proved and not taken for granted: an initializer names no later
declaration, so a function that solves the equation for the first *n*
declarations can be extended to one more (`PrefixSolved`), and the induction over
*n* is over a set of numbers and their minimum (`AllNumbers`), since the
library's induction theorem is out of reach.

Of code generation, for any set of functions of the shape
`FunctionsAssumption` states, any word width and any limit of immediates:

| Theorem | Statement |
|---|---|
| `SlotsAreDisjoint` | `GenSpec => []SlotsDisjoint` |
| `RegistersAreEnough` | `GenSpec => []RegistersSuffice` |
| `BlocksAreApart` | `GenSpec => []BlocksApart` |

`SlotsAreDisjoint` goes through `FrameLaid`: outside of the prologue `offset`
and `stackSz` are what `Offset` and `align_16_bytes` say of the function. That
implies the property because the places of a function are finite and totally
ordered (`PlacesFinite`, `BeforeOrders`), a name that is defined has a first
definition (`FirstPlace`), and the number of slots handed out before a
definition grows from one first definition to the next and stays below their
total (`SlotsAscend`, `SlotCounts`); rounding up loses nothing (`AlignUp`).

`RegistersAreEnough` goes through `GenTyped`, whose part that matters is
`tmpVarCount = 0` between two visits: a visit takes three registers at most and
gives all of them back, so the count never depends on how long the function is.
There is one lemma per visit.

`BlocksAreApart` goes through `Labelled`: that labels of basic blocks differ
(`LabelsApart`) and that each instruction stands under the label of the place it
was made for (`CodeLabelled`) are inductive only together, since a block is found
by its label, and only with the fact that the current block is the one of the
instruction being visited.

Of the code when it runs, for any set of runnable functions, any word width, any
limit of immediates and any top of the stack that is a word and a multiple of four:

| Theorem | Statement |
|---|---|
| `CodeImplements` | `Spec => Implements` |
| `StackIsBalanced` | `Spec => []StackBalanced` |
| `FrameIsKept` | `Spec => []StaysInFrame` |
| `RefusedForAReason` | `Spec => []RejectedFor` |
| `TypesAreKept` | `Spec => []TypeOK` |
| `CodeKeepsItsForm` | `Spec => [](RegistersSuffice /\ SlotsDisjoint /\ BlocksApart)` |

None of these is inductive: what an instruction does depends on what the ones
before it left in the registers, and where the counter is depends on how the code
was laid out. The proof gives each instruction a *node*: the place of the IR
instruction it is for, and its role there (load the first operand, the second,
compute, correct the answer, store it, branch, jump; for the way in and out: take
the stack, load the result, give the stack back, return). A node has one
instruction (`InstrOf`) and one successor (`Succ`), which depend on the function
and its frame only, and it says what must hold when its instruction runs
(`GoodAt`): the operand that is in a register already is the word in the slot of
that operand, a result that is to be stored is one of the results the IR allows,
the second jump of a branch is reached with a zero only, and the stack pointer is
below the frame.

The proof then has three parts, and `RunInv` is their conjunction.

`CodeLaid` says of every basic block that its code is a path of nodes, from the
first one of its block to where the visitor has come (`Goes`). Each visit appends
a path that begins where the code ended (`EmitsPath`, one lemma per visit); with
`Labelled` this goes on to the end (`LaidStep`). So a label leads to the first
node of its block (`JumpStands`), and behind a node comes its successor, from the
prologue into the entry block (`NextStands`). No code falls through otherwise, as
the last instruction of a block is a branch, a jump or a return (`LastLeaves`).
`RefusedFor` reads the immediates and the labels off the nodes.

`Running` says that the counter stands at a node and that `GoodAt` of it holds.
One lemma per role shows that its instruction leaves what its successor needs
(`SizeMoves` to `BnezMoves`, put together in `NodeMoves`). They rest on the
arithmetic of words: `xor` of two words is zero exactly when they are equal
(`XorIs`, by induction over the bits), `Wrap` gives a word and leaves words alone
(`WrapIs`), a remainder is a word (`RemainderIs`), and what an operation computes,
with its correction, is a result the IR allows (`ComputesRight`, `FixRight`).
Slots are words of the stack that differ from symbol to symbol (`SlotIs`), so a
store changes one symbol.

The refinement follows by cases (`StepIs`). A `put` is the store, the load or the
operation of the IR (`PutIs`), a jump is its branch or jump (`LeapIs`), a return
its return (`ReturnIs`); every other step leaves the machine of the IR as it is:
the slots do not change, and the place of a node changes only behind a `put` and
with a jump (`SuccPlace`). Before the code runs, the machine of the IR stands at
its first instruction with every symbol zero, as the stack is.

Of IR generation, for any bounds on the program, any numbers in `TempLike`,
either value of `SlotLike` and `Captures` and any kinds of expression (`GenIRAssumption`):

| Theorem | Statement |
|---|---|
| `LoweringIsWellFormed` | `Spec => []TypeOK` |
| `LoopContextIsRestored` | `Spec => []WhileContext` |
| `BlocksEndOnce` | `Spec => []DeadTail` |
| `NoBlockForgotten` | `Spec => []OpenEnds` |
| `ReturnsWhatWasStored` | `Spec => []ReturnProtocol` |
| `SightedIsLowered` | `Spec => []VisibleLowered` |
| `AssignmentsFindTheVariable` | `Spec => []NamesAgree` |
| `WalkStopsOnlyThere` | `Spec => []CrashesKnown` |
| `UsesAreDefined` | `Spec => []DefsReachUses` |
| `DumpIsReadBack` | `Spec => []DumpReadsBack` |

They are six layers, each with its inductive invariant, and each layer uses some
of those below.

`Control` (`GenIRProofs`): the state is typed (`Typed`), the frames nest as the
visits of the code do (`StackOK`: which frame may stand on which, and which one
may be on top in each mode), and the context is the one of the innermost loop
whose visit is in progress (`ContextOK`). `WhileContext` alone is not inductive:
what a loop restores when it ends is in its frame, so `ContextOK` says of each
loop frame that it saved the blocks of the loop below it. `Extends` is the
interface between a handler and the list of blocks: a handler makes some blocks,
adds instructions to one, and leaves the others alone.

`BlockInv` (`GenIRBlockProofs`): the code of a block is open, has one end as its
last instruction, or has a jump behind the jump that ended it, the back jump of a
loop (`Shape`); the current block is open or has been ended by a jump, so the back
jump can only follow a jump; a block is ended unless it is
the current one, the exit before the first return, or one that a frame will come
back to (`Debts`). `OpenEnds` is not inductive, as it does not say that the blocks
frames come back to are still empty, differ from each other and from the current
one; `Laid` and `Stacked` do. The jump to the exit stands behind a store to the
slot in every block (`ExitsBy`), and the slot's allocation stays in front of the
entry block, whatever is appended to it.

`LowerInv` (also there): a frame that will put a set of visible variables
back remembers only lowered ones, and only in code that is skipped may a variable
be in sight without a symbol: a declaration is skipped only when the block has
ended, and then it stays ended until the block statement is over.

`NameInv`: the name of every temporary made so far is in the table, and of each
variable that has a symbol and whose name no temporary took the table has the
symbol, or that of a variable of the same name lowered later (`Latest`). To lower
a variable makes it the latest of its name, which is why the order of the symbols
is in it. `CrashesKnown` is a property of steps, and follows from the invariants
before the step: a stop in `get_var` contradicts `NameInv`, one at a use that is
bound contradicts `LowerInv` unless the variable is being initialized, and one at
an operand of a logical operator contradicts `OpenNow`.

`FlowInv` (`GenIRFlowProofs`) is about programs in which no variable has a name a
temporary got or another variable has (`Clear`). `DefsReachUses` is a statement about all paths of the
finished graph, and says nothing while the graph is being built. The invariant
replaces paths by three witnesses. `In[b]` is a set of symbols that are defined
whenever block *b* is entered: each use in *b* is of one of them or is defined
above it in *b*, and a block that *b* may go to asks only for what *b* leaves
defined (`Flows`). `W[i]` is what the visit in frame *i* counts on where it goes on:
the blocks it will come back to ask for just that, and it never shrinks towards
the top of the stack (`StackFlows`). `V[i]` are the variables in sight when that
visit is over, whose symbols `W[i]` holds (`SightFlows`), so that what a later use
may name is defined on the ways round a branch or a body too. The return slot is made in the middle of the walk but at the head of the entry block,
and from then on every block but the entry may ask for it (`SlotFlows`,
`SlotAsked`). At the end `Without(s)`, a recursive function, is shown to reach no
block that asks for *s* (`AskedIsDefined`): its equation has a solution
(`ReachSolved`), in the way of `PrefixSolved`, and the rounds are gone through by
`EveryNumber`, induction over a set of numbers.

`ListInv` (`DumpIRProofs`): every block's linked list and its sequence agree
(`Linked`). There is an order, a permutation of the numbers under which the
instructions were made, that begins at the entry instruction, ends at the current
one, follows `next_`, and in which the instructions are the sequence (`InOrder`). To
make an instruction puts its number at the end of the order (`MadeLast`); to make
the slot puts it in front although it was made last (`FirstLinked`), with the
current instruction what it was, so that what is made next goes behind it. The walk
of the dump then follows the order (`WalkMeets`). That the names can be read back
is the property's hypothesis for variables; two temporaries differ in the number
of temporaries before them (`TempsDiffer`), and a sigil tells one from the other.

Of the arena, for any block size, any types and sizes, and any order of
makes, nested or not (`ArenaAssumption`):

| Theorem | Statement |
|---|---|
| `ObjectsDoNotOverlap` | `ArenaSpec => []RegionsApart` |
| `InnerObjectsOutlive` | `ArenaSpec => []OuterDiesFirst` |

`ObjectsDoNotOverlap` goes through `Allocated`: the current pointer is aligned
and inside the last block, and whatever was made in that block lies in front of
it. `InnerObjectsOutlive` goes through `Nested`: the constructors that are
running are nested as their objects were made (`MakingNested`), the destructor
stack holds exactly the built objects that need it (`DtorsRecorded`), an object
stands in it in front of its maker (`MakersBehind`), and during destruction a
dead object's maker is dead (`MakersDead`). `Driver` uses the arena with the
same operators in a fixed order; the `compile` run checks both properties there.

Of the compiler process and the test runner, for any sources, any number of turns,
any stream that fails and any death or timeout:

| Theorem | Statement |
|---|---|
| `TestsRunTheirOwnOutput` | `DriverSpec => []RunsOwnOutput` |
| `LogsAreTheirOwn` | `DriverSpec => []ReadsOwnLog` |

`TestsRunTheirOwnOutput` goes through `Produced`: an exit status of zero says that
the dump of the assembly is behind the process, a process that dies has another
one, and what `make` would find is either whole and of this turn or was lost with
a stream. `LogsAreTheirOwn` goes through `Watched`: only a program that is running
writes, and one is left running only when its own time was over, which
`run_test.py` has counted by then. The parser, the arena and what passes make are
quiet for both (`InnerIsQuiet`).

Of the parser, for any source, well-formed or not, as long as one likes:

| Theorem | Statement |
|---|---|
| `EachTextIsFreedOnce` | `DriverSpec => []NothingLeaks` |

It goes through `Owned`. The stack is a path in the tables (`PathOK`), so that an
item with *d* symbols behind its dot has them on top of the stack (`Handle`, by
induction over *d*): when a rule is reduced, what its action calls `$1`, `$2`, ...
are the values of the symbols it was written for. Each text that is not freed has
exactly one owner, a text symbol on the stack or the lookahead (`TextsOwned`), and
each list that is not deleted exactly one list symbol (`ListsOwned`). `NothingLeaks`
is not inductive without both: a text that two places of the stack share would be
freed twice. Then, as production and action agree (`ActionsAgree`), a reduction
takes the owners of what it frees off the stack, and gives what it passes on to
the left side. At the end `$accept: CompUnit $end` is on the stack, which owns
nothing. A syntax error frees nothing and is not claimed to. Of the tables the
proof uses only `GrammarAssumption`, `NoConflict` and `TablesClosed`, which TLC
evaluates; building the tables is a recursive function the provers cannot run.

Only model-checked: everything about `RunIR` and `DumpAST`, whose reference
meanings, `SourceProgram` and `SysYReference`, are recursive operators over the tree
of the program (`RECURSIVE`), in whose modules tlapm has no SMT solver.
`FoldAgrees`, which speaks of the functions `MCRunASM` lists. `Halts` and
`TestsEnd`, since liveness under fairness is out of the prover's reach.

## Not modelled

* which characters make a token, and what the lexer does with a number that is
  too large: the models begin with tokens (the hazards name the lines). The token
  `bad` is a character without a rule; a byte from 0x80 on is negative as a `char`
  and ends the input for bison;
* the layout of dumps and messages, the numbers and operator names in them, and
  the printed types, of which the program makes two;
* the value of expressions, in both `ConstProp` and `GenIR`: `ConstFold` and
  `RunASM` have the arithmetic;
* running a function that is named like one of its own blocks (`asm/cfg.cc:24`),
  that falls off its end, or whose frame is larger than the stack: `GenASM` and its
  proofs allow them, `RunnableAssumption` does not;
* the generators of `and` and `or` in `ir/GenASM.cc:462-524`, which no IR reaches;
* `insert_me_behind` and the edges between blocks (`pre_`, `next_`) beyond their
  being recorded: nothing in the compiler reads them;
* assembler, linker and emulator as programs of their own: `Assemble` has their
  conditions, `MakeFails` their failure. The timeout of `make` is modelled while the
  program runs; it may also kill `make` under a linker, which would go on and
  write `out.o` for a later source.

## Plan

1. `GenASM` on the blocks `GenIR` makes, in place of the functions `MCRunASM`
   lists.
2. An abstract resolver (a map from use to declaration, computed by lexical
   scoping) that `ScopeCheck` refines.
