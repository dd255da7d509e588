------------------------------ MODULE InstrList ------------------------------
(* The instructions of a block of the IR: the doubly linked list of           *)
(* src/ir/BlockIR.hh and src/ir/InstrIR.hh. An instruction is numbered in the *)
(* order Block::create_instr made it, which is its place in Instrs_; pre_ and *)
(* next_ link the numbers, 0 is the null pointer.                             *)
EXTENDS Naturals, Sequences

EmptyList == [made |-> <<>>, entry |-> 0, last |-> 0, pre |-> <<>>, next |-> <<>>]

\* Block::create_instr: made behind the current instruction, if there is one.
create_instr(l, ins) ==
    LET me == Len(l.made) + 1
    IN [made |-> Append(l.made, ins),
        entry |-> IF l.last = 0 THEN me ELSE l.entry,
        last |-> me,
        pre |-> Append(l.pre, l.last),
        next |-> [i \in 1..me |-> IF i = l.last THEN me
                                  ELSE IF i = me THEN 0 ELSE l.next[i]]]

create_instrs(l, seq) ==
    LET list[k \in 0..Len(seq)] ==
          IF k = 0 THEN l ELSE create_instr(list[k - 1], seq[k])
    IN list[Len(seq)]

\* InstrBase::insert_me_before
insert_me_before(l, me, at) ==
    LET unlinked == [i \in DOMAIN l.next |->
                       IF i = l.pre[me] THEN l.next[me] ELSE l.next[i]]
    IN [l EXCEPT !.pre = [@ EXCEPT ![at] = me, ![me] = l.pre[at]],
                 !.next = [unlinked EXCEPT ![me] = at]]

\* Mutant: the instruction put first stays the current one.
create_first_current(l, ins) ==
    LET c == create_instr(l, ins)
    IN IF l.entry = 0 THEN c
       ELSE [insert_me_before(c, c.last, l.entry) EXCEPT !.entry = c.last]

\* Function::get_return_var: the slot is made at the end of the list and moved
\* to its head; the current instruction is put back.
create_first(l, ins) ==
    LET c == create_instr(l, ins)
    IN IF l.entry = 0 THEN c
       ELSE [insert_me_before(c, c.last, l.entry)
               EXCEPT !.entry = c.last, !.last = l.last]

\* What Block::dump and GenASM's visit(Block*) meet, going from the entry
\* instruction along next_ until it is null; a cycle is cut off.
Walk(l) ==
    LET at[k \in 1..Len(l.made) + 1] ==
          IF k = 1 THEN l.entry
          ELSE IF at[k - 1] = 0 THEN 0 ELSE l.next[at[k - 1]]
        met == {k \in DOMAIN at : at[k] # 0}
    IN [k \in met |-> l.made[at[k]]]
==============================================================================
