------------------------------- MODULE Driver -------------------------------
(* main.cc around the parser, the arena's life from the first node to exit,   *)
(* the files the compiler leaves in the working directory, and the loop of    *)
(* run_test.py that compiles and runs one source after the other in           *)
(* that same directory. The passes are those of the other modules: here a     *)
(* pass makes objects, and ends or takes the whole process down.              *)
EXTENDS Parser

CONSTANTS
    IRTypes,    \* types the later passes make
    MaxIR       \* bound: objects the later passes make

ASSUME DriverAssumption == IRTypes \subseteq Types /\ MaxIR \in Nat

VARIABLES
    stage,      \* where the compiler is; "idle" between two of them
    turn,       \* how many compilers have been started; the source's number
    argv,       \* mode and flag, and whether run_test.py started it
    status,     \* the exit status of the compiler
    fp,         \* the std::ofstream of a dump: "closed", "open" or "failed"
    out,        \* each output file: the source it came from, and if all of it
    lost,       \* an open or a write of this compiler failed
    tested,     \* the sources run_test.py has counted, and what it compared
    ran,        \* what the last make run_asm assembled
    alive,      \* the sources whose compiled program is running
    log         \* run.log: the sources whose program has written into it

driverVars == <<stage, turn, argv, status, fp, out, lost, tested, ran, alive,
                log>>
logs == <<alive, log>>
vars == <<arena, exiting, parseVars, driverVars>>

Modes == {"ast", "koopa", "asm", "other"}
Outputs == {"out.ast", "out.koopa", "out.S"}

genAST == argv.mode \in {"ast", "koopa", "asm"}
genIR == argv.mode \in {"koopa", "asm"}
genASM == argv.mode = "asm"
dumpFile == argv.flag = "-f"

\* A pass, the dump of its result, and what comes after both.
Dumps == [ast |-> "out.ast", koopa |-> "out.koopa", asm |-> "out.S"]
AfterDump(s) ==
    CASE s = "ast" -> IF genIR THEN "genIR" ELSE "return"
      [] s = "koopa" -> IF genASM THEN "genASM" ELSE "return"
      [] s = "asm" -> "return"
AfterPass(s) ==
    CASE s = "scopeCheck" -> "constProp" [] s = "constProp" -> "ast"
      [] s = "genIR" -> "koopa" [] s = "genASM" -> "asm"
Passes == {"scopeCheck", "constProp", "genIR", "genASM"}

DriverInit ==
    /\ ArenaInit /\ ParserInit
    /\ stage = "idle" /\ turn = 0 /\ status = "none"
    /\ argv = [mode |-> "other", flag |-> "none", test |-> FALSE]
    /\ fp = "closed" /\ lost = FALSE
    /\ out = [f \in Outputs |-> [of |-> 0, whole |-> TRUE]]
    /\ tested = <<>> /\ ran = [turn |-> 0, file |-> out["out.S"], lost |-> FALSE]
    /\ alive = {} /\ log = {}

-----------------------------------------------------------------------------
(* The compiler process.                                                      *)

Start(mode, flag, test) ==
    /\ stage = "idle" /\ turn < input.turns
    /\ turn' = turn + 1 /\ stage' = "main" /\ status' = "none"
    /\ argv' = [mode |-> mode, flag |-> flag, test |-> test]
    /\ fp' = "closed" /\ lost' = FALSE
    /\ arena' = NewArena /\ exiting' = FALSE
    /\ ParserReset
    /\ UNCHANGED <<out, tested, ran, logs>>

StartByHand ==
    \E mode \in input.modes, flag \in input.flags : Start(mode, flag, FALSE)

Step(s) ==
    /\ stage' = s
    /\ UNCHANGED <<turn, argv, status, fp, out, lost, tested, ran, logs>>
\* assert, a pointer that is null, or an exception nobody catches: no
\* destructor runs, and what a stream has not written yet is gone.
Dies(how) ==
    /\ stage' = "gone" /\ status' = how
    /\ UNCHANGED <<turn, argv, fp, out, lost, tested, ran, logs, arena,
                   exiting, parseVars>>

\* fopen and its assert.
OpenInput ==
    /\ stage = "main"
    /\ \/ Step("yyparse") /\ UNCHANGED <<arena, exiting, parseVars>>
       \/ Dies("abort")

Parse ==
    /\ stage = "yyparse" /\ ParserNext
    /\ UNCHANGED <<exiting, driverVars>>

Parsed ==
    /\ stage = "yyparse" /\ result # "none"
    /\ stage' = IF result = "accepted" /\ genAST THEN "scopeCheck" ELSE "exit"
    /\ status' = IF result = "accepted" THEN "zero" ELSE "one"
    /\ UNCHANGED <<turn, argv, fp, out, lost, tested, ran, logs, arena,
                   exiting, parseVars>>

\* A pass makes an object whose constructor makes nothing, or a ValueInt,
\* whose constructor makes its type.
InPass == stage \in Passes \ {"scopeCheck"}
MakeInPass(T) ==
    /\ InPass /\ arena.making = <<>> /\ Len(arena.objs) < Len(node) + MaxIR
    /\ arena' = IF T = "ValueInt" THEN Begin(arena, T) ELSE Make(arena, T)
    /\ UNCHANGED <<exiting, parseVars, driverVars>>
MakeType ==
    /\ InPass /\ arena.making # <<>> /\ arena.objs[Newest(arena)].state = "raw"
    /\ arena' = Make(arena, "TypeInt")
    /\ UNCHANGED <<exiting, parseVars, driverVars>>
MadeValue ==
    /\ InPass /\ arena.making # <<>> /\ arena.objs[Newest(arena)].state # "raw"
    /\ arena' = Finish(arena)
    /\ UNCHANGED <<exiting, parseVars, driverVars>>

EndPass ==
    /\ stage \in Passes /\ arena.making = <<>>
    /\ \/ Step(AfterPass(stage)) /\ UNCHANGED <<arena, exiting, parseVars>>
       \/ Dies("abort")

OpenDump ==
    /\ stage \in DOMAIN Dumps /\ dumpFile /\ fp = "closed"
    /\ \/ /\ out' = [out EXCEPT ![Dumps[stage]] = [of |-> turn, whole |-> FALSE]]
          /\ fp' = "open" /\ UNCHANGED lost
       \/ /\ fp' = "failed" /\ lost' = TRUE /\ UNCHANGED out
    /\ UNCHANGED <<stage, turn, argv, status, tested, ran, logs, arena, exiting,
                   parseVars>>
\* Dump, and the stream's destructor. Nobody looks at the stream's state.
WriteDump ==
    /\ stage \in DOMAIN Dumps /\ (dumpFile => fp # "closed")
    /\ fp' = "closed" /\ stage' = AfterDump(stage)
    /\ \/ /\ out' = IF fp = "open" THEN [out EXCEPT ![Dumps[stage]].whole = TRUE]
                    ELSE out
          /\ UNCHANGED lost
       \/ /\ fp = "open" /\ lost' = TRUE /\ UNCHANGED out
    /\ UNCHANGED <<turn, argv, status, tested, ran, logs, arena, exiting,
                   parseVars>>

ReturnZero ==
    /\ stage = "return" /\ Step("exit")
    /\ UNCHANGED <<arena, exiting, parseVars>>

\* The static objects are destroyed.
ExitMain ==
    /\ stage = "exit" /\ Exit
    /\ UNCHANGED <<parseVars, driverVars>>
TearDown ==
    /\ stage = "exit" /\ Teardown
    /\ UNCHANGED <<parseVars, driverVars>>
Gone ==
    /\ stage = "exit" /\ exiting /\ arena.blocks = <<>> /\ Step("gone")
    /\ UNCHANGED <<arena, exiting, parseVars>>

Compiler ==
    \/ OpenInput \/ Parse \/ Parsed \/ EndPass \/ MakeType \/ MadeValue
    \/ \E T \in IRTypes : MakeInPass(T)
    \/ OpenDump \/ WriteDump \/ ReturnZero \/ ExitMain \/ TearDown \/ Gone

-----------------------------------------------------------------------------
(* process_c_files of run_test.py, one source after the other.                *)

StartTest == input.tests /\ Start("asm", "-f", TRUE)

\* subprocess.run with timeout=30 kills the compiler wherever it is.
CompileTimeout ==
    /\ argv.test /\ stage \notin {"idle", "gone", "make", "run"}
    /\ Dies("timeout")

\* check=True
\* Mutant: only the timeout is an exception.
Succeeded_unchecked == status # "timeout"
Succeeded == status = "zero"

\* "read" is what was compared.
Count(how, read) ==
    /\ tested' = Append(tested, [turn |-> turn, how |-> how, read |-> read])
    /\ stage' = "idle"
    /\ UNCHANGED <<turn, argv, status, fp, out, lost, ran, log, arena, exiting,
                   parseVars>>

ByHandEnds ==
    /\ stage = "gone" /\ ~argv.test /\ Step("idle")
    /\ UNCHANGED <<arena, exiting, parseVars>>

\* Mutant: a source that does not compile is passed over.
CompileFailed_skips ==
    /\ stage = "gone" /\ argv.test /\ ~Succeeded /\ Step("idle")
    /\ UNCHANGED <<arena, exiting, parseVars>>
CompileFailed ==
    /\ stage = "gone" /\ argv.test /\ ~Succeeded /\ Count("failed", {})
    /\ UNCHANGED alive

\* open('run.log', 'w'): what is there already is gone.
\* Mutant: it is opened with 'a'.
OpenLog_append(old) == old
OpenLog(old) == {}

Compiled ==
    /\ stage = "gone" /\ argv.test /\ Succeeded
    /\ stage' = "make" /\ log' = OpenLog(log)
    /\ UNCHANGED <<turn, argv, status, fp, out, lost, tested, ran, alive, arena,
                   exiting, parseVars>>

\* make run_asm assembles out.S, links it and runs the program, which may go
\* on for ever; a command that fails ends make.
MakeFails == stage = "make" /\ Count("failed", {}) /\ UNCHANGED alive
MakeRuns ==
    /\ stage = "make" /\ stage' = "run"
    /\ ran' = [turn |-> turn, file |-> out["out.S"], lost |-> lost]
    /\ alive' = alive \cup {turn}
    /\ UNCHANGED <<turn, argv, status, fp, out, lost, tested, log, arena,
                   exiting, parseVars>>
\* The program has ended; diff of what is in run.log with the .out file.
Compared ==
    /\ stage = "run" /\ \E same \in {"success", "failed"} : Count(same, log)
    /\ alive' = alive \ {turn}
\* Only make is killed: the program it has started goes on.
RunTimeout == stage = "run" /\ Count("timeout", {}) /\ UNCHANGED alive

\* A program writes, whether run_test.py still waits for it or not. Bound: not
\* while another source is compiled; that would be gone when run.log is opened.
Writes(k) ==
    /\ k \in alive /\ log' = log \cup {k}
    /\ UNCHANGED <<stage, turn, argv, status, fp, out, lost, tested, ran, alive,
                   arena, exiting, parseVars>>
OrphanEnds(k) ==
    /\ k \in alive /\ (stage = "run" => k # turn) /\ alive' = alive \ {k}
    /\ UNCHANGED <<stage, turn, argv, status, fp, out, lost, tested, ran, log,
                   arena, exiting, parseVars>>
Program ==
    stage \in {"make", "run"} /\ \E k \in alive : Writes(k) \/ OrphanEnds(k)

Runner == CompileFailed \/ Compiled \/ MakeFails \/ MakeRuns
Timeouts == CompileTimeout \/ RunTimeout

DriverNext ==
    \/ StartByHand \/ StartTest \/ Compiler \/ ByHandEnds
    \/ Runner \/ Compared \/ Timeouts \/ Program

\* run_test.py itself is scheduled, and so is the timer of subprocess.run.
\* Nothing is assumed of the compiler or of the program under test.
DriverSpec ==
    DriverInit /\ [][DriverNext]_vars /\ WF_vars(Runner) /\ WF_vars(Timeouts)

-----------------------------------------------------------------------------
\* RunsOwnOutput: the program that run_test.py runs for a source was compiled
\* from that very source, to the end, in this run of the compiler: no output of
\* an earlier source, and none of a compiler that died or was killed half way
\* (run_test.py:41, check=True; main.cc:96). The exception is a compiler that
\* could not open or write out.S: main never looks at the stream and returns 0.
RunsOwnOutput ==
    ran.turn # 0 /\ ~ran.lost => ran.file = [of |-> ran.turn, whole |-> TRUE]

\* ReadsOwnLog: what is compared for a source was printed by its own program, or
\* by one of an earlier source that ran into its timeout, which nobody has
\* killed (run_test.py:54-59). No other program ever gets into the comparison.
ReadsOwnLog ==
    \A i \in DOMAIN tested : \A k \in tested[i].read :
        \/ k = tested[i].turn
        \/ \E j \in 1..i - 1 : tested[j].turn = k /\ tested[j].how = "timeout"

\* The sources a run can get to.
Turns == 1..Max({i.turns : i \in Inputs})

\* TestsEnd: a source whose test has begun is counted, whatever the compiler
\* and the compiled program do (run_test.py:45, :59: timeout=30).
TestsEnd ==
    \A k \in Turns :
        (argv.test /\ turn = k /\ stage # "idle")
            ~> (\E i \in DOMAIN tested : tested[i].turn = k)
=============================================================================
