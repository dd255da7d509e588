------------------------------- MODULE Arena -------------------------------
(* MArena of common/mmp.hh, the one allocator of the compiler: blocks that    *)
(* are filled from the front and never given back, and a stack of destructors *)
(* that runs when the program exits normally. A constructor may itself make   *)
(* objects (ValueInt makes its type, ir/ValueIR.hh:25), so a make is two      *)
(* steps: the object gets its memory, and later its constructor returns.      *)
EXTENDS Integers, Sequences, FiniteSetsExt

CONSTANTS
    BlockSize,  \* blockSize_
    Types,      \* the types objects are made of
    SizeOf,     \* sizeof each of them
    Trivial,    \* the ones whose destructor does nothing
    MaxObjects  \* bound: objects of ArenaSpec

ASSUME ArenaAssumption ==
    /\ BlockSize \in Nat \ {0} /\ MaxObjects \in Nat
    /\ SizeOf \in [Types -> Nat \ {0}]
    /\ Trivial \subseteq Types

VARIABLES
    arena,      \* mmpool_
    exiting     \* main has returned: the arena is being destroyed

Outside == 0    \* the maker of an object no constructor made

Alignment == 8
Round(size) == ((size + Alignment - 1) \div Alignment) * Alignment

-----------------------------------------------------------------------------
(* The operations, on an arena A: its blocks by size, curPtr_ as an offset    *)
(* into the last one, the objects made so far, dtorStack_ as indices of them, *)
(* and the constructors now running, innermost last.                          *)

EndPtr(A) == IF A.blocks = <<>> THEN 0 ELSE A.blocks[Len(A.blocks)]

\* Mutant: only a full block is left, not one with too little room.
allocate_late(A, size) ==
    IF A.cur = EndPtr(A)
    THEN [A EXCEPT !.blocks = Append(@, Max({Round(size), BlockSize})),
                   !.cur = Round(size)]
    ELSE [A EXCEPT !.cur = @ + Round(size)]
allocate(A, size) ==
    IF A.cur + Round(size) > EndPtr(A)
    THEN [A EXCEPT !.blocks = Append(@, Max({Round(size), BlockSize})),
                   !.cur = Round(size)]
    ELSE [A EXCEPT !.cur = @ + Round(size)]

\* The constructor of MArena takes a whole block, which no object then fits in.
NewArena ==
    allocate([blocks |-> <<>>, cur |-> 0, objs |-> <<>>, dtors |-> <<>>,
              making |-> <<>>], BlockSize)

Maker(A) == IF A.making = <<>> THEN Outside ELSE A.making[Len(A.making)]

\* make, up to the call of the constructor.
Begin(A, T) ==
    LET B == allocate(A, SizeOf[T])
    IN  [B EXCEPT !.objs = Append(@, [type |-> T, state |-> "raw",
                                      maker |-> Maker(A),
                                      block |-> Len(B.blocks),
                                      at |-> B.cur - Round(SizeOf[T])]),
                  !.making = Append(@, Len(A.objs) + 1)]

\* make, once the constructor of the innermost object has returned.
\* Mutant: the destructor is recorded in front of the others.
Finish_front(A) ==
    LET i == Maker(A)
    IN  [A EXCEPT !.objs[i].state = "built",
                  !.making = SubSeq(@, 1, Len(@) - 1),
                  !.dtors = IF A.objs[i].type \in Trivial THEN @
                            ELSE <<i>> \o @]
Finish(A) ==
    LET i == Maker(A)
    IN  [A EXCEPT !.objs[i].state = "built",
                  !.making = SubSeq(@, 1, Len(@) - 1),
                  !.dtors = IF A.objs[i].type \in Trivial THEN @
                            ELSE Append(@, i)]

\* A make whose constructor makes nothing, and the object it returns.
Make(A, T) == Finish(Begin(A, T))
Newest(A) == Len(A.objs)

\* ~MArena: the recorded destructors from the last to the first, then the
\* blocks.
Destroy(A) ==
    LET i == A.dtors[Len(A.dtors)]
    IN  [A EXCEPT !.objs[i].state = "dead",
                  !.dtors = SubSeq(@, 1, Len(@) - 1)]
Release(A) == [A EXCEPT !.blocks = <<>>]

-----------------------------------------------------------------------------
(* The arena by itself, used in any way.                                      *)

ArenaInit == arena = NewArena /\ exiting = FALSE

BeginMake(T) ==
    /\ ~exiting /\ Len(arena.objs) < MaxObjects
    /\ arena' = Begin(arena, T)
    /\ UNCHANGED exiting

FinishMake ==
    /\ ~exiting /\ arena.making # <<>>
    /\ arena' = Finish(arena)
    /\ UNCHANGED exiting

Exit ==
    /\ ~exiting /\ arena.making = <<>>
    /\ exiting' = TRUE
    /\ UNCHANGED arena

DestroyLast ==
    /\ exiting /\ arena.dtors # <<>>
    /\ arena' = Destroy(arena)
    /\ UNCHANGED exiting

ReleaseBlocks ==
    /\ exiting /\ arena.dtors = <<>> /\ arena.blocks # <<>>
    /\ arena' = Release(arena)
    /\ UNCHANGED exiting

Teardown == DestroyLast \/ ReleaseBlocks

ArenaNext ==
    \/ \E T \in Types : BeginMake(T)
    \/ FinishMake \/ Exit \/ Teardown

ArenaSpec == ArenaInit /\ [][ArenaNext]_<<arena, exiting>>

-----------------------------------------------------------------------------
Objects == DOMAIN arena.objs
Low(i) == arena.objs[i].at
High(i) == Low(i) + SizeOf[arena.objs[i].type]
InBlock(i) ==
    /\ Low(i) % Alignment = 0
    /\ arena.objs[i].block \in DOMAIN arena.blocks
    /\ High(i) <= arena.blocks[arena.objs[i].block]
Apart(i, j) ==
    \/ arena.objs[i].block # arena.objs[j].block
    \/ High(i) <= Low(j) \/ High(j) <= Low(i)

\* RegionsApart: while the arena has its blocks, every object lies in one of
\* them, aligned, and no two objects share a byte (allocate, mmp.hh:44), even
\* when one is made while the constructor of the other is running.
RegionsApart ==
    arena.blocks # <<>> =>
        \A i \in Objects : InBlock(i) /\ \A j \in 1..i - 1 : Apart(i, j)

\* OuterDiesFirst: an object made by another one's constructor is still there
\* when the destructor of that other one runs (make, mmp.hh:30: the inner make
\* records its destructor before the outer one), and when the blocks go every
\* destructor that does something has run.
OuterDiesFirst ==
    /\ \A i \in Objects :
          LET o == arena.objs[i]
          IN  o.state = "dead" /\ o.maker # Outside
              => \/ arena.objs[o.maker].state = "dead"
                 \/ arena.objs[o.maker].type \in Trivial
    /\ arena.blocks = <<>> =>
          \A i \in Objects : (arena.objs[i].state = "dead")
                                 = (arena.objs[i].type \notin Trivial)
=============================================================================
