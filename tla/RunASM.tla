-------------------------------- MODULE RunASM --------------------------------
(* The generated code, assembled and run: GenASM composed with the machine    *)
(* whose instructions src/asm/instr.hh describes. The run implements the      *)
(* meaning of the IR function, IRMachine, through the frame: the word a       *)
(* symbol holds is the word in its slot.                                      *)
EXTENDS GenASM

CONSTANTS StackTop  \* the address the stack grows down from

ASSUME StackAssumption == StackTop \in Word \cap Nat /\ StackTop % IntSize = 0

\* A function the IR gives a meaning to: it begins with its entry, it cannot run
\* off the end of a block that has code, and it uses words and symbols it defines.
\* Its name is no label of its own, and its frame fits the stack.
Runnable(f) ==
    /\ f.label \notin DOMAIN f.blocks
    /\ f.blocks[1] # <<>>
    /\ \A b \in DOMAIN f.blocks : LET body == f.blocks[b] IN
          body # <<>> => body[Len(body)].op \in {"br", "jump", "ret"}
    /\ \A p \in Places(f) : \A k \in DOMAIN InsAt(f, p).args :
          LET v == InsAt(f, p).args[k]
          IN  /\ v.k = "num" => v.n \in Word
              /\ v.k = "sym" => \E q \in DefPlaces(f) : InsAt(f, q).def = v.s
    /\ align_16_bytes(IntSize * Cardinality(FirstDefs(f))) <= StackTop

ASSUME RunnableAssumption == \A f \in Functions : Runnable(f)

VARIABLES
    regs,       \* the registers
    mem,        \* the words of the stack, by address
    pc,         \* the next instruction: a basic block and a place in it
    out         \* the sequence of the words returned: none or one

machine == <<regs, mem, pc, out>>
vars == <<func, phase, todo, offset, stackSz, bbs, curBB, tmpVarCount,
          regs, mem, pc, out>>

-----------------------------------------------------------------------------
(* The assembler takes the code if every label that is used is defined and    *)
(* every immediate fits in twelve bits.                                       *)

Code == UNION {{bbs[b].instrs[i] : i \in DOMAIN bbs[b].instrs} :
                  b \in DOMAIN bbs}
Labels == {bbs[b].label : b \in DOMAIN bbs}
Imm12(ins) ==
    CASE ins.op \in {"addi", "xori"} -> {ins.b}
      [] ins.op \in {"lw", "sw"} -> {ins.a}
      [] OTHER -> {}
Fits(n) == -ImmLimit <= n /\ n < ImmLimit

Defined == \A ins \in Code : ins.op \in {"j", "bnez"} => ins.to \in Labels
Encodable == \A ins \in Code : \A n \in Imm12(ins) : Fits(n)
Assembles == Defined /\ Encodable

Assemble ==
    /\ phase = "done"
    /\ phase' = IF Assembles THEN "run" ELSE "rejected"
    /\ UNCHANGED <<func, todo, offset, stackSz, bbs, curBB, tmpVarCount>>
    /\ UNCHANGED machine

-----------------------------------------------------------------------------
Here == bbs[pc[1]].instrs[pc[2]]
At(ops) == phase = "run" /\ out = <<>> /\ Here.op \in ops

\* Code goes on behind the end of a basic block.
Following ==
    IF pc[2] < Len(bbs[pc[1]].instrs) THEN <<pc[1], pc[2] + 1>>
    ELSE <<pc[1] + 1, 1>>
Reach(label) == <<IndexOf(bbs, label), 1>>

Set(r, n) == regs' = [regs EXCEPT ![r] = Wrap(n)]
Bits(n) == n % Modulus

\* The exclusive or of the last n bits.
XorBits[n \in 0..Width] ==
    [p \in Nat \X Nat |->
        IF n = 0 THEN 0
        ELSE 2 * XorBits[n - 1][<<p[1] \div 2, p[2] \div 2>>]
             + ((p[1] + p[2]) % 2)]
Xor(x, y) == XorBits[Width][<<Bits(x), Bits(y)>>]

Result(ins) ==
    LET x == regs[ins.a]
        y == regs[ins.b]
    IN CASE ins.op = "li" -> ins.a
         [] ins.op = "addi" -> x + ins.b
         [] ins.op = "xori" -> Xor(x, ins.b)
         [] ins.op = "xor" -> Xor(x, y)
         [] ins.op = "seqz" -> Truth(x = 0)
         [] ins.op = "snez" -> Truth(x # 0)
         [] ins.op = "add" -> x + y
         [] ins.op = "sub" -> x - y
         [] ins.op = "mul" -> x * y
         [] ins.op = "div" -> IF y = 0 THEN -1 ELSE Quotient(x, y)
         [] ins.op = "rem" -> IF y = 0 THEN x ELSE Remainder(x, y)
         [] ins.op = "slt" -> Truth(x < y)
         [] ins.op = "sgt" -> Truth(x > y)

Compute ==
    /\ At({"li", "addi", "xori", "xor", "seqz", "snez", "add", "sub", "mul",
           "div", "rem", "slt", "sgt"})
    /\ Set(Here.rd, Result(Here))
    /\ pc' = Following
    /\ UNCHANGED <<genVars, mem, out>>

\* lw and sw are for the words of the stack; an access between two words, or
\* outside of the stack, ends the run.
Address == regs[Here.b] + Here.a

LoadWord ==
    /\ At({"lw"}) /\ Address \in DOMAIN mem
    /\ Set(Here.rd, mem[Address])
    /\ pc' = Following
    /\ UNCHANGED <<genVars, mem, out>>

StoreWord ==
    /\ At({"sw"}) /\ Address \in DOMAIN mem
    /\ mem' = [mem EXCEPT ![Address] = regs[Here.rd]]
    /\ pc' = Following
    /\ UNCHANGED <<genVars, regs, out>>

Stray ==
    /\ At({"lw", "sw"}) /\ Address \notin DOMAIN mem
    /\ phase' = "stray"
    /\ UNCHANGED <<func, todo, offset, stackSz, bbs, curBB, tmpVarCount>>
    /\ UNCHANGED machine

BranchNotZero ==
    /\ At({"bnez"})
    /\ pc' = IF regs[Here.rd] # 0 THEN Reach(Here.to) ELSE Following
    /\ UNCHANGED <<genVars, regs, mem, out>>

JumpTo ==
    /\ At({"j"}) /\ pc' = Reach(Here.to)
    /\ UNCHANGED <<genVars, regs, mem, out>>

Return ==
    /\ At({"ret"}) /\ out' = <<regs[A0]>>
    /\ UNCHANGED <<genVars, regs, mem, pc>>

RunInit ==
    /\ Init
    /\ regs = [r \in {X0, A0, SP} \cup TmpVars |->
                  IF r = SP THEN StackTop ELSE 0]
    /\ mem = [a \in {n \in 0..StackTop : n % IntSize = 0} |-> 0]
    /\ pc = <<1, 1>> /\ out = <<>>

Generate == GenNext /\ UNCHANGED machine
Run ==
    \/ Compute \/ LoadWord \/ StoreWord \/ Stray
    \/ BranchNotZero \/ JumpTo \/ Return
Stopped == phase \in {"abort", "rejected", "stray"} \/ out # <<>>
Stop == Stopped /\ UNCHANGED vars

Next == Generate \/ Assemble \/ Run \/ Stop
Spec == RunInit /\ [][Next]_vars
FairSpec == Spec /\ WF_vars(Next)

-----------------------------------------------------------------------------
(* Properties.                                                                *)

\* Every variable has its type: offsets are not negative, registers hold words.
TypeOK ==
    /\ phase \in {"prologue", "code", "done", "abort", "run", "rejected",
                 "stray"}
    /\ stackSz \in Nat
    /\ \A s \in DOMAIN offset : offset[s] \in {NoOffset} \cup Nat
    /\ curBB \in 0..Len(bbs) /\ todo[1] \in DOMAIN func.blocks
    /\ \A r \in DOMAIN regs : regs[r] \in Word
    /\ Len(out) <= 1

\* The assembler refuses the code for three reasons only: a frame too large for
\* the epilogue, a literal too large for an immediate, a branch to a block
\* without instructions.
RejectedFor ==
    phase = "rejected" =>
        \/ stackSz >= ImmLimit
        \/ \E b \in DOMAIN func.blocks : \E i \in DOMAIN func.blocks[b] :
              LET ins == func.blocks[b][i]
              IN \/ /\ ins.op \in DOMAIN ImmOp /\ ins.args[2].k = "num"
                    /\ ~Fits(ins.args[2].n)
                 \/ \E n \in DOMAIN ins.to : func.blocks[ins.to[n]] = <<>>

\* A function gives back the stack it took, whichever way it went.
StackBalanced == out # <<>> => regs[SP] = StackTop

\* Generated code uses the words of its frame only, unless two symbols of the
\* function share a name and the later one has no slot.
StaysInFrame ==
    /\ phase = "stray" => Occurring # Slotted
    /\ phase = "run" /\ out = <<>> /\ Here.op \in {"lw", "sw"} =>
          \/ Here.a = NoOffset
          \/ StackTop - stackSz <= Address /\ Address < StackTop

\* The frame as the store of the IR machine.
SlotAddress(s) == StackTop - stackSz + offset[s]
RunPoint == LET ir == Here.ir IN IF ir[2] = 0 THEN <<1, 1>> ELSE ir

IRM == INSTANCE IRMachine WITH
    env <- [s \in DOMAIN func.names |->
              IF phase \in {"run", "stray"} /\ s \in Slotted
              THEN mem[SlotAddress(s)] ELSE 0],
    at <- LET p == IF phase \in {"run", "stray"} THEN RunPoint ELSE <<1, 1>>
          IN SkipAllocs(func, p[1], p[2])

\* The code does what the IR says: every instruction of the IR takes effect, in
\* its order, with its result, by the last instruction generated for it, and
\* nothing else changes the slot of a symbol.
Implements == IRM!Spec

\* Compiling and running a function that returns comes to an end.
Halts == <>Stopped

\* "assert(false && "unexpected branch!")": every value that gets a register is
\* a literal or a symbol.
NoUnexpectedBranch == phase # "abort"

\* "addi rd, rs1, imm12", "lw rs, imm12(rd)" and the like: an immediate has
\* twelve bits.
ImmediatesFit == phase = "done" => Encodable
=============================================================================
