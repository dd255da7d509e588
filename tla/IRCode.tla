-------------------------------- MODULE IRCode --------------------------------
(* The code a Function of the IR holds (src/ir/InstrIR.hh, src/ir/ValueIR.hh) *)
(* and the words it computes with. A function is the record                   *)
(*   [label, names, blocks]                                                   *)
(* of its own name, the names of its symbols and the instructions of its      *)
(* blocks. Symbols are numbers; two symbols may have one name. The name of    *)
(* block b is b, so a label is a block number, or 0 for any other name.       *)
EXTENDS Integers, Sequences, FiniteSets

CONSTANTS Width     \* bits of a word; 32 in the program

ASSUME WidthAssumption == Width \in Nat /\ Width > 1

Power[n \in 0..Width] == IF n = 0 THEN 1 ELSE 2 * Power[n - 1]
Modulus == Power[Width]
LeastWord == -Power[Width - 1]
Word == LeastWord .. (-LeastWord - 1)
Wrap(n) == ((n - LeastWord) % Modulus) + LeastWord
Truth(b) == IF b THEN 1 ELSE 0

\* Division rounds to zero.
Abs(n) == IF n < 0 THEN -n ELSE n
Quotient(x, y) ==
    IF (x < 0) = (y < 0) THEN Abs(x) \div Abs(y) ELSE -(Abs(x) \div Abs(y))
Remainder(x, y) == x - y * Quotient(x, y)

-----------------------------------------------------------------------------
NoSymbol == 0
Num(n) == [k |-> "num", n |-> n]
Sym(s) == [k |-> "sym", s |-> s]
Undefined == [k |-> "undef"]

IR(op, def, args, to) == [op |-> op, def |-> def, args |-> args, to |-> to]
Alloc(s) == IR("alloc", s, <<>>, <<>>)
Store(v, s) == IR("store", NoSymbol, <<v, Sym(s)>>, <<>>)
Load(s, from) == IR("load", s, <<Sym(from)>>, <<>>)
BExpr(op, s, v, w) == IR(op, s, <<v, w>>, <<>>)
Br(v, t, f) == IR("br", NoSymbol, <<v>>, <<t, f>>)
Jump(b) == IR("jump", NoSymbol, <<>>, <<b>>)
Ret(v) == IR("ret", NoSymbol, <<v>>, <<>>)

BinaryOps == {"eq", "ne", "lt", "gt", "le", "ge",
              "add", "sub", "mul", "div", "mod"}

IsSymbolDef(ins) == ins.def # NoSymbol

\* The first instruction at place i of block b, or behind it, that does
\* something when the function runs: an alloc does not.
SkipAllocs(f, b, i) ==
    LET body == f.blocks[b]
        live == {j \in i..Len(body) : body[j].op # "alloc"}
    IN <<b, IF live = {} THEN Len(body) + 1
            ELSE CHOOSE j \in live : \A k \in live : j <= k>>
=============================================================================
