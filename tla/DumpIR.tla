-------------------------------- MODULE DumpIR --------------------------------
(* The text of a function of the IR, as Function::dump, Block::dump and the   *)
(* dump of each instruction write it (src/ir/FunctionIR.cc, BlockIR.cc,       *)
(* InstrIR.cc, ValueIR.hh). A line is a record; the numbers, types and        *)
(* punctuation in it, and the counter in front of it, are left out.           *)
EXTENDS GenIR

\* The symbols of variables and the return slot; all others come from
\* get_tmp_var, which numbers them in the order they are made.
Allocated == {irvar[v] : v \in DOMAIN irvar} \cup {slot}
TempNumber(s) == Cardinality({r \in 1..(s - 1) : r \notin Allocated})

repr(s) ==
    CASE s = slot -> SlotName
      [] s \in Allocated \ {slot} -> name[CHOOSE v \in DOMAIN irvar : irvar[v] = s]
      [] OTHER -> Tmp(TempNumber(s))

\* Symbol::dump
SymbolText(s) == <<IF s \in Allocated THEN "@" ELSE "%", repr(s)>>

ValueText(v) ==
    CASE v = Literal -> <<"int">>
      [] v = Undef -> <<"undef">>
      [] OTHER -> SymbolText(v)

Line(ins) ==
    [op |-> ins.op,
     def |-> IF ins.def = Null THEN <<>> ELSE SymbolText(ins.def),
     args |-> [i \in DOMAIN ins.args |-> ValueText(ins.args[i])],
     to |-> ins.to]

\* Block::dump, below the line with the block's own symbol.
Lines(b) ==
    LET met == Walk(blocks[b].list) IN [i \in DOMAIN met |-> Line(met[i])]

-----------------------------------------------------------------------------
\* Reading a dump: the symbol a printed name stands for.
Means(text) == CHOOSE s \in 1..nsym : SymbolText(s) = text
ValueMeant(text) ==
    CASE text = <<"int">> -> Literal
      [] text = <<"undef">> -> Undef
      [] OTHER -> Means(text)
InstrMeant(line) ==
    Instr(line.op, IF line.def = <<>> THEN Null ELSE Means(line.def),
          [i \in DOMAIN line.args |-> ValueMeant(line.args[i])], line.to)

\* The dump of a block, read back by the names in it, is the block: the walk
\* along the linked list meets every instruction once and in its order, with
\* the return slot moved to the head of a block that was being filled, and a
\* variable is told from a temporary of its name. Two variables of one name are
\* printed alike, and so are the return slot and a variable of its name: only in
\* a function without such variables can the symbols be told apart.
DumpReadsBack ==
    (\A v \in DOMAIN name : name[v] # SlotName /\ ~Shared(v)) =>
        \A b \in DOMAIN blocks :
            LET lines == Lines(b)
            IN [i \in DOMAIN lines |-> InstrMeant(lines[i])] = blocks[b].instrs
===============================================================================
