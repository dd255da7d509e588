------------------------------ MODULE IRMachine ------------------------------
(* What a function of the IR means: the abstract specification of the code    *)
(* that is generated for it. A symbol holds one word: an alloc'd slot its     *)
(* content, a temporary its value; the generator of the IR uses the two       *)
(* alike. What the source language leaves undefined may give any word.        *)
EXTENDS IRCode

CONSTANTS Functions     \* the functions that may be run

VARIABLES
    func,       \* the function
    env,        \* the word each symbol holds
    at,         \* the next instruction: a block and a place in it
    out         \* the sequence of the words returned: none or one

irVars == <<func, env, at, out>>

Running == out = <<>> /\ at[2] <= Len(func.blocks[at[1]])
Ins == func.blocks[at[1]][at[2]]
Value(v) == IF v.k = "num" THEN v.n ELSE env[v.s]

Results(op, x, y) ==
    CASE op = "eq" -> {Truth(x = y)}
      [] op = "ne" -> {Truth(x # y)}
      [] op = "lt" -> {Truth(x < y)}
      [] op = "gt" -> {Truth(x > y)}
      [] op = "le" -> {Truth(x <= y)}
      [] op = "ge" -> {Truth(x >= y)}
      [] op = "add" -> {Wrap(x + y)}
      [] op = "sub" -> {Wrap(x - y)}
      [] op = "mul" -> {Wrap(x * y)}
      [] op = "div" -> IF y = 0 THEN Word ELSE {Wrap(Quotient(x, y))}
      [] op = "mod" -> IF y = 0 THEN Word ELSE {Remainder(x, y)}

Init ==
    /\ func \in Functions
    /\ env \in [DOMAIN func.names -> {0}]
    /\ at = SkipAllocs(func, 1, 1)
    /\ out = <<>>

GoOn == at' = SkipAllocs(func, at[1], at[2] + 1)
Goto(b) == at' = SkipAllocs(func, b, 1)

DoStore ==
    /\ Running /\ Ins.op = "store" /\ GoOn
    /\ env' = [env EXCEPT ![Ins.args[2].s] = Value(Ins.args[1])]
    /\ UNCHANGED <<func, out>>

DoLoad ==
    /\ Running /\ Ins.op = "load" /\ GoOn
    /\ env' = [env EXCEPT ![Ins.def] = Value(Ins.args[1])]
    /\ UNCHANGED <<func, out>>

DoBinary ==
    /\ Running /\ Ins.op \in BinaryOps /\ GoOn
    /\ \E r \in Results(Ins.op, Value(Ins.args[1]), Value(Ins.args[2])) :
          env' = [env EXCEPT ![Ins.def] = r]
    /\ UNCHANGED <<func, out>>

DoBranch ==
    /\ Running /\ Ins.op = "br"
    /\ Goto(Ins.to[IF Value(Ins.args[1]) # 0 THEN 1 ELSE 2])
    /\ UNCHANGED <<func, env, out>>

DoJump ==
    /\ Running /\ Ins.op = "jump" /\ Goto(Ins.to[1])
    /\ UNCHANGED <<func, env, out>>

DoReturn ==
    /\ Running /\ Ins.op = "ret"
    /\ out' = <<Value(Ins.args[1])>>
    /\ UNCHANGED <<func, env, at>>

Next == DoStore \/ DoLoad \/ DoBinary \/ DoBranch \/ DoJump \/ DoReturn
Spec == Init /\ [][Next]_irVars
=============================================================================
