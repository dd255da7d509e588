---------------------------- MODULE DriverProofs ----------------------------
(* Proofs about the arena, for every block size, every set of types and every *)
(* order of makes: objects do not overlap, and what a constructor made        *)
(* outlives the object it was made for. Then about the compiler process that  *)
(* uses it: the parser with what its actions own, the process around it and   *)
(* the test runner, for every source, any number of turns, and whatever a     *)
(* pass or a compiled program does. Of the parser only the grammar is fixed,  *)
(* and with it the tables of bison: what the proofs say of those, the named   *)
(* assumptions about them, TLC finds true of all of them.                     *)
EXTENDS Driver, TLAPS, WellFoundedInduction, NaturalsInduction

-----------------------------------------------------------------------------
(* The arena.                                                                 *)

Objs == [type : Types, state : {"raw", "built", "dead"}, maker : Nat,
         block : Nat, at : Nat]
Arenas == [blocks : Seq(Nat), cur : Nat, objs : Seq(Objs), dtors : Seq(Nat),
           making : Seq(Nat)]

-----------------------------------------------------------------------------
(* The allocation.                                                            *)

LEMMA MaxOfTwo ==
    ASSUME NEW a \in Nat, NEW b \in Nat
    PROVE  Max({a, b}) \in Nat /\ a <= Max({a, b}) /\ b <= Max({a, b})
<1>1. \E x \in {a, b} : \A y \in {a, b} : x >= y
  OBVIOUS
<1>2. Max({a, b}) \in {a, b} /\ \A y \in {a, b} : Max({a, b}) >= y
  BY <1>1 DEF Max
<1> QED
  BY <1>2

\* Rounding up makes a multiple of the alignment, and does not shrink.
LEMMA RoundUp ==
    ASSUME NEW n \in Nat
    PROVE  Round(n) \in Nat /\ n <= Round(n) /\ Round(n) % Alignment = 0
BY DEF Round, Alignment

LEMMA MultiplesAdd ==
    ASSUME NEW a \in Nat, NEW b \in Nat, a % Alignment = 0, b % Alignment = 0
    PROVE  (a + b) % Alignment = 0
BY DEF Alignment

\* What is allocated lies between the old end and the new one, in the last
\* block, or from the front of a new block.
LEMMA AllocateGives ==
    ASSUME NEW A \in Arenas, NEW n \in Nat,
           A.cur % Alignment = 0, A.cur <= EndPtr(A)
    PROVE  /\ allocate(A, n) \in Arenas
           /\ allocate(A, n).objs = A.objs /\ allocate(A, n).dtors = A.dtors
           /\ allocate(A, n).making = A.making
           /\ allocate(A, n).blocks # <<>> \/ Round(n) = 0
           /\ allocate(A, n).cur % Alignment = 0
           /\ allocate(A, n).cur <= EndPtr(allocate(A, n))
           /\ \/ /\ allocate(A, n).blocks = A.blocks
                 /\ allocate(A, n).cur = A.cur + Round(n)
              \/ /\ allocate(A, n).blocks
                       = Append(A.blocks, Max({Round(n), BlockSize}))
                 /\ allocate(A, n).cur = Round(n)
<1>1. Round(n) \in Nat /\ Round(n) % Alignment = 0
  BY RoundUp
<1>2. A.blocks \in Seq(Nat) /\ A.cur \in Nat
  BY DEF Arenas
<1>3. BlockSize \in Nat
  BY ArenaAssumption
<1> DEFINE M == Max({Round(n), BlockSize})
<1>4. M \in Nat /\ Round(n) <= M
  BY <1>1, <1>3, MaxOfTwo
<1> HIDE DEF M
<1>5. CASE A.cur + Round(n) > EndPtr(A)
  <2>1. allocate(A, n) = [A EXCEPT !.blocks = Append(A.blocks, M),
                                   !.cur = Round(n)]
    BY <1>5 DEF allocate, M
  <2>2. /\ Append(A.blocks, M) \in Seq(Nat) /\ Append(A.blocks, M) # <<>>
        /\ Append(A.blocks, M)[Len(Append(A.blocks, M))] = M
    BY <1>2, <1>4
  <2> DEFINE bs == Append(A.blocks, M)
  <2>3. /\ allocate(A, n).blocks = bs /\ allocate(A, n).cur = Round(n)
        /\ allocate(A, n).objs = A.objs /\ allocate(A, n).dtors = A.dtors
        /\ allocate(A, n).making = A.making
    BY <2>1 DEF Arenas
  <2>4. EndPtr(allocate(A, n)) = M
    BY <2>2, <2>3 DEF EndPtr
  <2>5. allocate(A, n) \in Arenas
    <3> HIDE DEF bs
    <3> QED
      BY <1>1, <2>1, <2>2 DEF Arenas, bs
  <2> QED
    BY <1>1, <1>4, <2>2, <2>3, <2>4, <2>5 DEF M
<1>6. CASE ~(A.cur + Round(n) > EndPtr(A))
  <2>1. allocate(A, n) = [A EXCEPT !.cur = A.cur + Round(n)]
    BY <1>6 DEF allocate
  <2>2. EndPtr(A) \in Nat
    BY <1>2 DEF EndPtr
  <2>3. A.cur + Round(n) \in Nat /\ A.cur + Round(n) <= EndPtr(A)
    BY <1>1, <1>2, <1>6, <2>2
  <2>4. (A.cur + Round(n)) % Alignment = 0
    BY <1>1, <1>2, MultiplesAdd
  <2>5. /\ allocate(A, n).blocks = A.blocks
        /\ allocate(A, n).cur = A.cur + Round(n)
        /\ allocate(A, n).objs = A.objs /\ allocate(A, n).dtors = A.dtors
        /\ allocate(A, n).making = A.making
    BY <2>1 DEF Arenas
  <2>6. allocate(A, n) \in Arenas
    BY <2>1, <2>3 DEF Arenas
  <2>7. A.blocks = <<>> => Round(n) = 0
    BY <1>1, <1>2, <2>3 DEF EndPtr
  <2>8. EndPtr(allocate(A, n)) = EndPtr(A)
    BY <2>5 DEF EndPtr
  <2> QED
    BY <2>3, <2>4, <2>5, <2>6, <2>7, <2>8
<1> QED
  BY <1>5, <1>6

-----------------------------------------------------------------------------
(* Where the objects lie.                                                     *)

BelowCur(i) == arena.objs[i].block = Len(arena.blocks) => High(i) <= arena.cur

\* The inductive invariant: RegionsApart alone does not say that the room behind
\* curPtr_ is free.
Allocated ==
    /\ arena \in Arenas /\ exiting \in BOOLEAN
    /\ ~exiting => arena.blocks # <<>>
    /\ arena.blocks # <<>> =>
          /\ arena.cur % Alignment = 0 /\ arena.cur <= EndPtr(arena)
          /\ \A i \in Objects : InBlock(i) /\ BelowCur(i)
          /\ \A i \in Objects : \A j \in 1..i - 1 : Apart(i, j)

\* The memory of the objects that are there is not touched by a step that leaves
\* the blocks, and what the objects are, as they were.
LEMMA SameMemory ==
    ASSUME Allocated, arena' \in Arenas,
           arena'.blocks = arena.blocks, arena'.cur = arena.cur,
           DOMAIN arena'.objs = Objects,
           \A i \in Objects : /\ arena'.objs[i].type = arena.objs[i].type
                              /\ arena'.objs[i].block = arena.objs[i].block
                              /\ arena'.objs[i].at = arena.objs[i].at,
           exiting' \in BOOLEAN, ~exiting' => ~exiting
    PROVE  Allocated'
<1>1. \A i \in Objects : Low(i)' = Low(i) /\ High(i)' = High(i)
  BY DEF Objects, Low, High
<1>2. Objects' = Objects /\ Objects \subseteq Int
  BY DEF Objects, Allocated, Arenas
<1>3. EndPtr(arena)' = EndPtr(arena)
  BY DEF EndPtr
<1>4. ASSUME NEW i \in Objects, InBlock(i), BelowCur(i)
      PROVE  InBlock(i)' /\ BelowCur(i)'
  BY <1>1, <1>4 DEF InBlock, BelowCur
<1>5. ASSUME NEW i \in Objects, NEW j \in Objects, Apart(i, j)
      PROVE  Apart(i, j)'
  BY <1>1, <1>5 DEF Apart
<1>6. \A i \in Objects : \A j \in 1..i - 1 : j \in Objects
  BY DEF Objects, Allocated, Arenas
<1> QED
  BY <1>2, <1>3, <1>4, <1>5, <1>6 DEF Allocated

\* What make does before the constructor: one more object, at the end of the
\* room in use.
LEMMA BeginGives ==
    ASSUME Allocated, ~exiting, NEW T \in Types,
           arena' = Begin(arena, T)
    PROVE  LET n == Len(arena.objs) + 1
               o == [type |-> T, state |-> "raw", maker |-> Maker(arena),
                     block |-> Len(arena'.blocks),
                     at |-> arena'.cur - Round(SizeOf[T])]
           IN /\ arena' \in Arenas
              /\ arena'.objs = Append(arena.objs, o) /\ o \in Objs
              /\ arena'.making = Append(arena.making, n)
              /\ arena'.dtors = arena.dtors
              /\ arena'.blocks # <<>>
              /\ arena'.cur % Alignment = 0 /\ arena'.cur <= EndPtr(arena')
              /\ \/ /\ arena'.blocks = arena.blocks
                    /\ arena'.cur = arena.cur + Round(SizeOf[T])
                 \/ /\ \E m \in Nat : arena'.blocks = Append(arena.blocks, m)
                    /\ arena'.cur = Round(SizeOf[T])
<1> DEFINE n == Len(arena.objs) + 1
           z == Round(SizeOf[T])
           B == allocate(arena, SizeOf[T])
           o == [type |-> T, state |-> "raw", maker |-> Maker(arena),
                 block |-> Len(B.blocks), at |-> B.cur - z]
<1>1. SizeOf[T] \in Nat \ {0} /\ BlockSize \in Nat
  BY ArenaAssumption
<1>2. z \in Nat /\ z # 0
  BY <1>1, RoundUp
<1>3. /\ arena \in Arenas /\ arena.cur % Alignment = 0
      /\ arena.cur <= EndPtr(arena)
  BY DEF Allocated
<1>4. /\ B \in Arenas
      /\ B.objs = arena.objs /\ B.dtors = arena.dtors
      /\ B.making = arena.making
      /\ B.blocks # <<>>
      /\ B.cur % Alignment = 0
      /\ B.cur <= EndPtr(B)
      /\ \/ /\ B.blocks = arena.blocks
            /\ B.cur = arena.cur + z
         \/ /\ B.blocks = Append(arena.blocks, Max({z, BlockSize}))
            /\ B.cur = z
  BY <1>1, <1>2, <1>3, AllocateGives
<1>5. Max({z, BlockSize}) \in Nat
  BY <1>1, <1>2, MaxOfTwo
<1> HIDE DEF B, z
<1>6. Maker(arena) \in Nat
  BY <1>3 DEF Maker, Outside, Arenas
<1>7. B.cur - z \in Nat /\ Len(B.blocks) \in Nat
  BY <1>2, <1>3, <1>4 DEF Arenas
<1>8. o \in Objs
  BY <1>6, <1>7 DEF Objs
<1>9. arena' = [B EXCEPT !.objs = Append(arena.objs, o),
                         !.making = Append(arena.making, n)]
  BY <1>4 DEF Begin, B, z
<1> HIDE DEF o
<1>10. /\ Append(arena.objs, o) \in Seq(Objs) /\ n \in Nat
       /\ Append(arena.making, n) \in Seq(Nat)
  <2>1. arena.objs \in Seq(Objs) /\ arena.making \in Seq(Nat)
    BY <1>3 DEF Arenas
  <2>2. n \in Nat
    BY <2>1
  <2> HIDE DEF n
  <2> QED
    BY <1>8, <2>1, <2>2
<1> HIDE DEF n
<1>11. arena' \in Arenas
  BY <1>4, <1>9, <1>10 DEF Arenas
<1>12. /\ arena'.objs = Append(arena.objs, o) /\ arena'.blocks = B.blocks
       /\ arena'.making = Append(arena.making, n) /\ arena'.cur = B.cur
       /\ arena'.dtors = arena.dtors
  BY <1>4, <1>9 DEF Arenas
<1>13. EndPtr(arena') = EndPtr(B)
  BY <1>12 DEF EndPtr
<1>14. \/ /\ arena'.blocks = arena.blocks /\ arena'.cur = arena.cur + z
       \/ /\ \E m \in Nat : arena'.blocks = Append(arena.blocks, m)
          /\ arena'.cur = z
  BY <1>4, <1>5, <1>12
<1>15. o = [type |-> T, state |-> "raw", maker |-> Maker(arena),
            block |-> Len(arena'.blocks), at |-> arena'.cur - z]
  BY <1>12 DEF o
<1> QED
  BY <1>4, <1>8, <1>11, <1>12, <1>13, <1>14, <1>15 DEF n, z

LEMMA BeginAllocates ==
    ASSUME Allocated, NEW T \in Types, BeginMake(T)
    PROVE  Allocated'
<1> DEFINE z == Round(SizeOf[T])
           o == [type |-> T, state |-> "raw", maker |-> Maker(arena),
                 block |-> Len(arena'.blocks), at |-> arena'.cur - z]
<1>1. ~exiting /\ exiting' = exiting /\ arena' = Begin(arena, T)
  BY DEF BeginMake
<1>2. /\ arena' \in Arenas
      /\ arena'.objs = Append(arena.objs, o) /\ o \in Objs
      /\ arena'.blocks # <<>>
      /\ arena'.cur % Alignment = 0 /\ arena'.cur <= EndPtr(arena')
      /\ \/ arena'.blocks = arena.blocks /\ arena'.cur = arena.cur + z
         \/ /\ \E m \in Nat : arena'.blocks = Append(arena.blocks, m)
            /\ arena'.cur = z
  BY <1>1, BeginGives
<1>3. SizeOf[T] \in Nat /\ z \in Nat /\ SizeOf[T] <= z /\ z % Alignment = 0
  BY ArenaAssumption, RoundUp
<1>4. /\ o.type = T /\ o.block = Len(arena'.blocks) /\ o.at = arena'.cur - z
  OBVIOUS
<1> HIDE DEF o, z
<1>5. /\ arena.objs \in Seq(Objs) /\ arena.blocks \in Seq(Nat)
      /\ arena.cur \in Nat /\ arena'.cur \in Nat /\ arena'.blocks \in Seq(Nat)
      /\ arena.cur % Alignment = 0
      /\ \A i \in Objects : InBlock(i) /\ BelowCur(i)
      /\ \A i \in Objects : \A j \in 1..i - 1 : Apart(i, j)
  BY <1>1, <1>2 DEF Allocated, Arenas
<1>0. PICK n \in Nat : n = Len(arena.objs) + 1
  BY <1>5
<1>6. /\ n \in Nat /\ Objects = 1..n - 1 /\ Objects' = 1..n
      /\ arena'.objs[n] = o
      /\ \A i \in Objects : arena'.objs[i] = arena.objs[i]
  BY <1>0, <1>2, <1>5 DEF Objects
\* The blocks that were there keep their sizes; the last one may be new.
<1>7. /\ Len(arena'.blocks) \in DOMAIN arena'.blocks
      /\ EndPtr(arena') = arena'.blocks[Len(arena'.blocks)]
      /\ \A b \in DOMAIN arena.blocks :
            b \in DOMAIN arena'.blocks /\ arena'.blocks[b] = arena.blocks[b]
  <2>1. CASE arena'.blocks = arena.blocks
    BY <1>2, <1>5, <2>1 DEF EndPtr
  <2>2. CASE \E m \in Nat : arena'.blocks = Append(arena.blocks, m)
    <3>1. PICK m \in Nat : arena'.blocks = Append(arena.blocks, m)
      BY <2>2
    <3> DEFINE bs == Append(arena.blocks, m)
    <3>2. /\ Len(bs) \in DOMAIN bs
          /\ \A b \in DOMAIN arena.blocks :
                b \in DOMAIN bs /\ bs[b] = arena.blocks[b]
      BY <1>5
    <3> HIDE DEF bs
    <3>3. arena'.blocks = bs
      BY <3>1 DEF bs
    <3> QED
      BY <1>2, <3>2, <3>3 DEF EndPtr
  <2> QED
    BY <1>2, <2>1, <2>2
<1>8. /\ Low(n)' = arena'.cur - z /\ High(n)' = arena'.cur - z + SizeOf[T]
      /\ \A i \in Objects : Low(i)' = Low(i) /\ High(i)' = High(i)
  BY <1>4, <1>6 DEF Low, High
<1>9. /\ \A i \in Objects : arena.objs[i] \in Objs
      /\ \A i \in Objects : Low(i) \in Nat /\ High(i) \in Nat
  <2>1. ASSUME NEW i \in Objects
        PROVE  arena.objs[i] \in Objs /\ Low(i) \in Nat /\ High(i) \in Nat
    <3>1. arena.objs[i] \in Objs
      BY <1>5 DEF Objects
    <3>2. arena.objs[i].at \in Nat /\ SizeOf[arena.objs[i].type] \in Nat
      BY <3>1, ArenaAssumption DEF Objs
    <3> QED
      BY <3>1, <3>2 DEF Low, High
  <2> QED
    BY <2>1
<1>10. InBlock(n)' /\ BelowCur(n)'
  <2>1. Low(n)' % Alignment = 0
    <3>1. Low(n)' = arena.cur \/ Low(n)' = 0
      BY <1>2, <1>3, <1>5, <1>8
    <3>2. 0 % Alignment = 0
      BY DEF Alignment
    <3> QED
      BY <1>5, <3>1, <3>2
  <2>2. High(n)' <= arena'.cur
    BY <1>3, <1>5, <1>8
  <2>3. High(n)' <= arena'.blocks[Len(arena'.blocks)]
    <3>1. arena'.blocks[Len(arena'.blocks)] \in Nat
      BY <1>5, <1>7
    <3>2. High(n)' \in Int
      BY <1>3, <1>5, <1>8
    <3> QED
      BY <1>2, <1>5, <1>7, <2>2, <3>1, <3>2
  <2> QED
    BY <1>4, <1>6, <1>7, <2>1, <2>2, <2>3 DEF InBlock, BelowCur
\* What is in the last block ends before the new object begins.
<1>11. ASSUME NEW i \in Objects, arena.objs[i].block = Len(arena'.blocks)
       PROVE  High(i) <= arena'.cur - z
  <2>1. InBlock(i) /\ BelowCur(i)
    BY <1>5
  <2>2. arena.objs[i].block \in DOMAIN arena.blocks
    BY <2>1 DEF InBlock
  <2>3. arena'.blocks = arena.blocks /\ arena'.cur = arena.cur + z
    BY <1>2, <1>5, <1>11, <2>2
  <2>4. High(i) <= arena.cur
    BY <1>11, <2>1, <2>3 DEF BelowCur
  <2> QED
    BY <1>3, <1>5, <2>3, <2>4
<1>12. ASSUME NEW i \in Objects
       PROVE  InBlock(i)' /\ BelowCur(i)' /\ Apart(n, i)'
  <2>1. InBlock(i)
    BY <1>5
  <2>2. InBlock(i)'
    BY <1>6, <1>7, <1>8, <2>1 DEF InBlock
  <2>3. arena.objs[i].block = Len(arena'.blocks)
           => High(i) <= arena'.cur - z /\ High(i) <= arena'.cur
    BY <1>3, <1>5, <1>9, <1>11
  <2>4. BelowCur(i)'
    BY <1>6, <1>8, <2>3 DEF BelowCur
  <2>5. Apart(n, i)'
    BY <1>4, <1>6, <1>8, <2>3 DEF Apart
  <2> QED
    BY <2>2, <2>4, <2>5
<1>13. ASSUME NEW i \in Objects, NEW j \in Objects, Apart(i, j)
       PROVE  Apart(i, j)'
  BY <1>6, <1>8, <1>13 DEF Apart
<1>14. \A i \in Objects' : InBlock(i)' /\ BelowCur(i)'
  BY <1>6, <1>10, <1>12
<1>15. ASSUME NEW i \in Objects', NEW j \in 1..i - 1
       PROVE  Apart(i, j)'
  <2>1. CASE i = n
    BY <1>6, <1>12, <2>1
  <2>2. CASE i # n
    <3>1. i \in Objects /\ j \in Objects
      BY <1>6, <2>2
    <3> QED
      BY <1>5, <1>13, <3>1
  <2> QED
    BY <2>1, <2>2
<1> QED
  BY <1>1, <1>2, <1>14, <1>15 DEF Allocated

\* What make does after the constructor.
LEMMA FinishGives ==
    ASSUME arena \in Arenas, arena.making # <<>>, FinishMake
    PROVE  LET i == arena.making[Len(arena.making)]
               o == [arena.objs[i] EXCEPT !.state = "built"]
           IN /\ arena' \in Arenas /\ exiting' = exiting
              /\ arena'.blocks = arena.blocks /\ arena'.cur = arena.cur
              /\ arena'.objs = [arena.objs EXCEPT ![i] = o]
              /\ arena'.making
                    = SubSeq(arena.making, 1, Len(arena.making) - 1)
              /\ arena'.dtors = IF arena.objs[i].type \in Trivial
                                THEN arena.dtors ELSE Append(arena.dtors, i)
<1> DEFINE i == arena.making[Len(arena.making)]
           o == [arena.objs[i] EXCEPT !.state = "built"]
           objs == [arena.objs EXCEPT ![i] = o]
           making == SubSeq(arena.making, 1, Len(arena.making) - 1)
           dtors == IF arena.objs[i].type \in Trivial
                    THEN arena.dtors ELSE Append(arena.dtors, i)
<1>1. /\ arena.objs \in Seq(Objs) /\ arena.making \in Seq(Nat)
      /\ arena.dtors \in Seq(Nat)
  BY DEF Arenas
<1>2. i \in Nat
  BY <1>1
<1>3. making \in Seq(Nat) /\ dtors \in Seq(Nat)
  <2> HIDE DEF i
  <2>1. Append(arena.dtors, i) \in Seq(Nat)
    BY <1>1, <1>2
  <2>2. dtors \in Seq(Nat)
    BY <1>1, <2>1
  <2>3. making \in Seq(Nat)
    BY <1>1
  <2> QED
    BY <2>2, <2>3
<1>4. objs \in Seq(Objs)
  <2>1. i \in DOMAIN arena.objs => o \in Objs
    <3> HIDE DEF i
    <3>1. i \in DOMAIN arena.objs => arena.objs[i] \in Objs
      BY <1>1
    <3> QED
      BY <3>1 DEF Objs
  <2> HIDE DEF i, o
  <2>2. DOMAIN objs = 1..Len(arena.objs) /\ Len(arena.objs) \in Nat
    BY <1>1
  <2>3. \A k \in 1..Len(arena.objs) : objs[k] \in Objs
    BY <1>1, <2>1
  <2>4. objs = [k \in 1..Len(arena.objs) |-> objs[k]]
    BY <1>1
  <2> HIDE DEF objs
  <2> QED
    BY <2>2, <2>3, <2>4
<1>5. arena' = [arena EXCEPT !.objs = objs, !.making = making, !.dtors = dtors]
  BY DEF FinishMake, Finish, Maker
<1>6. exiting' = exiting
  BY DEF FinishMake
<1> HIDE DEF objs, making, dtors
<1>7. arena' \in Arenas
  BY <1>3, <1>4, <1>5 DEF Arenas
<1>8. /\ arena'.objs = objs /\ arena'.making = making /\ arena'.dtors = dtors
      /\ arena'.blocks = arena.blocks /\ arena'.cur = arena.cur
  BY <1>5 DEF Arenas
<1> QED
  BY <1>6, <1>7, <1>8 DEF objs, making, dtors

\* What the destruction of one object does.
LEMMA DestroyGives ==
    ASSUME arena \in Arenas, DestroyLast
    PROVE  LET i == arena.dtors[Len(arena.dtors)]
               o == [arena.objs[i] EXCEPT !.state = "dead"]
           IN /\ exiting /\ exiting' = exiting
              /\ arena' \in Arenas /\ arena.dtors # <<>>
              /\ arena'.blocks = arena.blocks /\ arena'.cur = arena.cur
              /\ arena'.objs = [arena.objs EXCEPT ![i] = o]
              /\ arena'.making = arena.making
              /\ arena'.dtors = SubSeq(arena.dtors, 1, Len(arena.dtors) - 1)
<1> DEFINE i == arena.dtors[Len(arena.dtors)]
           o == [arena.objs[i] EXCEPT !.state = "dead"]
           objs == [arena.objs EXCEPT ![i] = o]
           dtors == SubSeq(arena.dtors, 1, Len(arena.dtors) - 1)
<1>1. arena.objs \in Seq(Objs) /\ arena.dtors \in Seq(Nat)
  BY DEF Arenas
<1>2. dtors \in Seq(Nat)
  BY <1>1
<1>3. objs \in Seq(Objs)
  <2>1. i \in DOMAIN arena.objs => o \in Objs
    <3> HIDE DEF i
    <3>1. i \in DOMAIN arena.objs => arena.objs[i] \in Objs
      BY <1>1
    <3> QED
      BY <3>1 DEF Objs
  <2> HIDE DEF i, o
  <2>2. DOMAIN objs = 1..Len(arena.objs) /\ Len(arena.objs) \in Nat
    BY <1>1
  <2>3. \A k \in 1..Len(arena.objs) : objs[k] \in Objs
    BY <1>1, <2>1
  <2>4. objs = [k \in 1..Len(arena.objs) |-> objs[k]]
    BY <1>1
  <2> HIDE DEF objs
  <2> QED
    BY <2>2, <2>3, <2>4
<1>4. arena' = [arena EXCEPT !.objs = objs, !.dtors = dtors]
  BY DEF DestroyLast, Destroy
<1>5. exiting /\ exiting' = exiting /\ arena.dtors # <<>>
  BY DEF DestroyLast
<1> HIDE DEF objs, dtors
<1>6. arena' \in Arenas
  BY <1>2, <1>3, <1>4 DEF Arenas
<1>7. /\ arena'.objs = objs /\ arena'.making = arena.making
      /\ arena'.dtors = dtors
      /\ arena'.blocks = arena.blocks /\ arena'.cur = arena.cur
  BY <1>4 DEF Arenas
<1> QED
  BY <1>5, <1>6, <1>7 DEF objs, dtors

\* A change of the state of one object leaves everything else about all of them.
LEMMA OneState ==
    ASSUME arena \in Arenas, NEW i \in Nat,
           NEW st \in {"raw", "built", "dead"},
           arena'.objs = [arena.objs EXCEPT
                             ![i] = [arena.objs[i] EXCEPT !.state = st]]
    PROVE  /\ Objects' = Objects
           /\ \A j \in Objects : /\ arena'.objs[j].type = arena.objs[j].type
                                 /\ arena'.objs[j].maker = arena.objs[j].maker
                                 /\ arena'.objs[j].block = arena.objs[j].block
                                 /\ arena'.objs[j].at = arena.objs[j].at
                                 /\ j # i => arena'.objs[j] = arena.objs[j]
           /\ i \in Objects => arena'.objs[i].state = st
<1>1. arena.objs \in Seq(Objs)
  BY DEF Arenas
<1>2. \A j \in Objects : arena.objs[j] \in Objs
  BY <1>1 DEF Objects
<1> QED
  BY <1>1, <1>2 DEF Objects, Objs

LEMMA AllocatedInvariant == ArenaSpec => []Allocated
<1>1. ArenaInit => Allocated
  <2> SUFFICES ASSUME ArenaInit
               PROVE  Allocated
    OBVIOUS
  <2> DEFINE A == [blocks |-> <<>>, cur |-> 0, objs |-> <<>>, dtors |-> <<>>,
                   making |-> <<>>]
  <2>1. A \in Arenas /\ A.cur % Alignment = 0 /\ A.cur <= EndPtr(A)
    BY DEF Arenas, Alignment, EndPtr
  <2>2. BlockSize \in Nat \ {0} /\ Round(BlockSize) # 0
    BY ArenaAssumption, RoundUp
  <2>3. arena = allocate(A, BlockSize) /\ exiting = FALSE
    BY DEF ArenaInit, NewArena
  <2>4. A.objs = <<>>
    OBVIOUS
  <2> HIDE DEF A
  <2>5. /\ arena \in Arenas /\ arena.objs = <<>> /\ arena.blocks # <<>>
        /\ arena.cur % Alignment = 0 /\ arena.cur <= EndPtr(arena)
    BY <2>1, <2>2, <2>3, <2>4, AllocateGives
  <2>6. Objects = {}
    BY <2>5 DEF Objects
  <2> QED
    BY <2>3, <2>5, <2>6 DEF Allocated
<1>2. Allocated /\ [ArenaNext]_<<arena, exiting>> => Allocated'
  <2> SUFFICES ASSUME Allocated, [ArenaNext]_<<arena, exiting>>
               PROVE  Allocated'
    OBVIOUS
  <2>0. arena \in Arenas /\ exiting \in BOOLEAN
    BY DEF Allocated
  <2>1. CASE \E T \in Types : BeginMake(T)
    BY <2>1, BeginAllocates
  <2>2. CASE FinishMake
    <3> DEFINE i == arena.making[Len(arena.making)]
    <3>1. i \in Nat /\ arena.making # <<>>
      BY <2>0, <2>2 DEF Arenas, FinishMake
    <3>2. /\ arena' \in Arenas /\ exiting' = exiting
          /\ arena'.blocks = arena.blocks /\ arena'.cur = arena.cur
          /\ arena'.objs = [arena.objs EXCEPT
                               ![i] = [arena.objs[i] EXCEPT !.state = "built"]]
      BY <2>0, <2>2, <3>1, FinishGives
    <3> HIDE DEF i
    <3>3. /\ DOMAIN arena'.objs = Objects
          /\ \A j \in Objects : /\ arena'.objs[j].type = arena.objs[j].type
                                /\ arena'.objs[j].block = arena.objs[j].block
                                /\ arena'.objs[j].at = arena.objs[j].at
      BY <2>0, <3>1, <3>2, OneState DEF Objects
    <3> QED
      BY <2>0, <3>2, <3>3, SameMemory
  <2>3. CASE Exit
    BY <2>3 DEF Exit, Allocated, Objects, InBlock, BelowCur, Apart, Low, High
  <2>4. CASE DestroyLast
    <3> DEFINE i == arena.dtors[Len(arena.dtors)]
    <3>1. /\ arena' \in Arenas /\ exiting /\ exiting' = exiting
          /\ arena.dtors # <<>>
          /\ arena'.blocks = arena.blocks /\ arena'.cur = arena.cur
          /\ arena'.objs = [arena.objs EXCEPT
                               ![i] = [arena.objs[i] EXCEPT !.state = "dead"]]
      BY <2>0, <2>4, DestroyGives
    <3>2. i \in Nat
      BY <2>0, <3>1 DEF Arenas
    <3> HIDE DEF i
    <3>3. /\ DOMAIN arena'.objs = Objects
          /\ \A j \in Objects : /\ arena'.objs[j].type = arena.objs[j].type
                                /\ arena'.objs[j].block = arena.objs[j].block
                                /\ arena'.objs[j].at = arena.objs[j].at
      BY <2>0, <3>1, <3>2, OneState DEF Objects
    <3> QED
      BY <2>0, <3>1, <3>3, SameMemory
  <2>5. CASE ReleaseBlocks
    BY <2>0, <2>5 DEF ReleaseBlocks, Release, Allocated, Arenas
  <2>6. CASE UNCHANGED <<arena, exiting>>
    BY <2>6 DEF Allocated, Objects, InBlock, BelowCur, Apart, Low, High
  <2> QED
    BY <2>1, <2>2, <2>3, <2>4, <2>5, <2>6 DEF ArenaNext, Teardown
<1> QED
  BY <1>1, <1>2, PTL DEF ArenaSpec

LEMMA AllocatedKeepsApart == Allocated => RegionsApart
BY DEF Allocated, RegionsApart

\* Whatever is made and however constructors nest, no two objects of the arena
\* share a byte, and each is aligned inside its block (allocate, mmp.hh:44-58).
THEOREM ObjectsDoNotOverlap == ArenaSpec => []RegionsApart
BY AllocatedInvariant, AllocatedKeepsApart, PTL

-----------------------------------------------------------------------------
(* The order of the destructors.                                              *)

Stage(i) == arena.objs[i].state
MakerOf(i) == arena.objs[i].maker
Light(i) == arena.objs[i].type \in Trivial

\* The running constructors are the raw objects, each made by the one before.
MakingNested ==
    /\ \A k \in DOMAIN arena.making :
          /\ arena.making[k] \in Objects /\ Stage(arena.making[k]) = "raw"
          /\ MakerOf(arena.making[k])
                = IF k = 1 THEN Outside ELSE arena.making[k - 1]
    /\ \A k, l \in DOMAIN arena.making :
          k < l => arena.making[k] < arena.making[l]
    /\ \A i \in Objects :
          /\ Stage(i) = "raw" => \E k \in DOMAIN arena.making :
                                    arena.making[k] = i
          /\ MakerOf(i) \in 0..i - 1

\* The recorded destructors are those of the built objects that have one.
DtorsRecorded ==
    /\ \A p \in DOMAIN arena.dtors :
          /\ arena.dtors[p] \in Objects /\ Stage(arena.dtors[p]) = "built"
          /\ ~Light(arena.dtors[p])
    /\ \A p, q \in DOMAIN arena.dtors :
          arena.dtors[p] = arena.dtors[q] => p = q
    /\ \A i \in Objects :
          /\ Stage(i) = "built" /\ ~Light(i)
                => \E p \in DOMAIN arena.dtors : arena.dtors[p] = i
          /\ Stage(i) = "dead" => ~Light(i)

\* The maker of an object whose destructor is recorded is not built yet, is dead
\* already, or is recorded behind it.
RecordedBehind(i, p) ==
    \/ MakerOf(i) = Outside \/ Light(MakerOf(i))
    \/ Stage(MakerOf(i)) \in {"raw", "dead"}
    \/ \E q \in DOMAIN arena.dtors : p < q /\ arena.dtors[q] = MakerOf(i)
MakersBehind ==
    \A p \in DOMAIN arena.dtors : RecordedBehind(arena.dtors[p], p)

MakersDead ==
    \A i \in Objects :
        Stage(i) = "dead" /\ MakerOf(i) # Outside
            => Stage(MakerOf(i)) = "dead" \/ Light(MakerOf(i))

\* The inductive invariant behind OuterDiesFirst.
Nested ==
    /\ MakingNested /\ DtorsRecorded /\ MakersBehind /\ MakersDead
    /\ exiting => arena.making = <<>>
    /\ arena.blocks = <<>> => exiting /\ arena.dtors = <<>>

LEMMA BeginNests ==
    ASSUME Allocated, Nested, NEW T \in Types, BeginMake(T)
    PROVE  Nested'
<1> DEFINE o == [type |-> T, state |-> "raw", maker |-> Maker(arena),
                 block |-> Len(arena'.blocks),
                 at |-> arena'.cur - Round(SizeOf[T])]
<1>1. ~exiting /\ exiting' = exiting /\ arena' = Begin(arena, T)
  BY DEF BeginMake
<1>2. /\ arena.objs \in Seq(Objs) /\ arena.making \in Seq(Nat)
      /\ arena.dtors \in Seq(Nat)
  BY DEF Allocated, Arenas
<1>3. PICK n \in Nat : n = Len(arena.objs) + 1
  BY <1>2
<1>4. /\ arena'.objs = Append(arena.objs, o) /\ o \in Objs
      /\ arena'.making = Append(arena.making, n)
      /\ arena'.dtors = arena.dtors /\ arena'.blocks # <<>>
  BY <1>1, <1>3, BeginGives
<1>5. o.state = "raw" /\ o.maker = Maker(arena)
  OBVIOUS
<1> HIDE DEF o
<1>6. /\ Objects = 1..n - 1 /\ Objects' = 1..n /\ n # 0
      /\ arena'.objs[n] = o
      /\ \A i \in Objects : arena'.objs[i] = arena.objs[i]
  BY <1>2, <1>3, <1>4 DEF Objects
<1>7. PICK m \in Nat : m = Len(arena.making)
  BY <1>2
<1>8. /\ DOMAIN arena.making = 1..m /\ DOMAIN arena'.making = 1..m + 1
      /\ arena'.making[m + 1] = n
      /\ \A k \in 1..m : arena'.making[k] = arena.making[k]
  BY <1>2, <1>4, <1>7
<1>9. /\ Stage(n)' = "raw"
      /\ MakerOf(n)' = IF m = 0 THEN Outside ELSE arena.making[m]
      /\ \A i \in Objects : /\ Stage(i)' = Stage(i) /\ MakerOf(i)' = MakerOf(i)
                            /\ Light(i)' = Light(i)
  BY <1>2, <1>5, <1>6, <1>7 DEF Stage, MakerOf, Light, Maker
<1>10. /\ \A k \in 1..m : arena.making[k] \in Objects
       /\ \A p \in DOMAIN arena.dtors : arena.dtors[p] \in Objects
       /\ \A i \in Objects : MakerOf(i) = Outside \/ MakerOf(i) \in Objects
  <2>1. \A k \in 1..m : arena.making[k] \in Objects
    BY <1>8 DEF Nested, MakingNested
  <2>2. \A p \in DOMAIN arena.dtors : arena.dtors[p] \in Objects
    BY DEF Nested, DtorsRecorded
  <2>3. \A i \in Objects : MakerOf(i) \in 0..i - 1
    BY DEF Nested, MakingNested
  <2>4. \A i \in Objects : MakerOf(i) = Outside \/ MakerOf(i) \in Objects
    BY <1>6, <2>3 DEF Outside
  <2> QED
    BY <2>1, <2>2, <2>4
<1>11. MakingNested'
  <2>1. ASSUME NEW k \in DOMAIN arena'.making
        PROVE  /\ arena'.making[k] \in Objects'
               /\ arena'.objs[arena'.making[k]].state = "raw"
               /\ arena'.objs[arena'.making[k]].maker
                     = IF k = 1 THEN Outside ELSE arena'.making[k - 1]
    <3>1. CASE k = m + 1
      <4>1. arena'.making[k] = n /\ n \in Objects'
        BY <1>6, <1>8, <3>1
      <4>2. k # 1 => m # 0 /\ arena'.making[k - 1] = arena.making[m]
        BY <1>8, <3>1
      <4> QED
        BY <1>9, <3>1, <4>1, <4>2 DEF Stage, MakerOf
    <3>2. CASE k # m + 1
      <4>1. k \in 1..m /\ arena'.making[k] = arena.making[k]
        BY <1>8, <3>2
      <4>2. PICK i \in Objects : i = arena.making[k]
        BY <1>10, <4>1
      <4>3. Stage(i) = "raw" /\ MakerOf(i)
                = IF k = 1 THEN Outside ELSE arena.making[k - 1]
        BY <1>8, <4>1, <4>2 DEF Nested, MakingNested
      <4>4. k # 1 => arena'.making[k - 1] = arena.making[k - 1]
        BY <1>8, <4>1
      <4>5. i \in Objects'
        BY <1>6
      <4> QED
        BY <1>9, <4>1, <4>2, <4>3, <4>4, <4>5 DEF Stage, MakerOf
    <3> QED
      BY <3>1, <3>2
  <2>2. ASSUME NEW k \in DOMAIN arena'.making, NEW l \in DOMAIN arena'.making,
               k < l
        PROVE  arena'.making[k] < arena'.making[l]
    <3>1. k \in 1..m /\ arena'.making[k] = arena.making[k]
      BY <1>8, <2>2
    <3>2. CASE l = m + 1
      BY <1>6, <1>8, <1>10, <3>1, <3>2
    <3>3. CASE l # m + 1
      BY <1>8, <2>2, <3>1, <3>3 DEF Nested, MakingNested
    <3> QED
      BY <3>2, <3>3
  <2>3. ASSUME NEW i \in Objects'
        PROVE  /\ Stage(i)' = "raw" => \E k \in DOMAIN arena'.making :
                                          arena'.making[k] = i
               /\ MakerOf(i)' \in 0..i - 1
    <3>1. CASE i = n
      BY <1>6, <1>8, <1>9, <1>10, <3>1 DEF Outside
    <3>2. CASE i # n
      <4>1. i \in Objects
        BY <1>6, <3>2
      <4>2. MakerOf(i)' \in 0..i - 1
        BY <1>9, <4>1 DEF Nested, MakingNested
      <4>3. ASSUME Stage(i)' = "raw"
            PROVE  \E k \in DOMAIN arena'.making : arena'.making[k] = i
        <5>1. PICK k \in DOMAIN arena.making : arena.making[k] = i
          BY <1>9, <4>1, <4>3 DEF Nested, MakingNested
        <5> QED
          BY <1>8, <5>1
      <4> QED
        BY <4>2, <4>3
    <3> QED
      BY <3>1, <3>2
  <2> QED
    BY <2>1, <2>2, <2>3 DEF MakingNested, Stage, MakerOf
<1>12. DtorsRecorded'
  BY <1>4, <1>6, <1>9, <1>10 DEF Nested, DtorsRecorded
<1>13. MakersBehind'
  BY <1>4, <1>9, <1>10 DEF Nested, MakersBehind, RecordedBehind
<1>14. MakersDead'
  BY <1>6, <1>9, <1>10 DEF Nested, MakersDead
<1> QED
  BY <1>1, <1>4, <1>11, <1>12, <1>13, <1>14 DEF Nested

LEMMA FinishNests ==
    ASSUME Allocated, Nested, FinishMake
    PROVE  Nested'
<1>1. /\ arena \in Arenas /\ arena.making # <<>> /\ ~exiting
      /\ arena.making \in Seq(Nat) /\ arena.dtors \in Seq(Nat)
  BY DEF Allocated, FinishMake, Arenas
<1>2. PICK m \in Nat : m = Len(arena.making) /\ m # 0
  BY <1>1
<1>3. DOMAIN arena.making = 1..m /\ m \in DOMAIN arena.making
  BY <1>1, <1>2
<1>4. PICK i \in Objects : i = arena.making[m]
  BY <1>3 DEF Nested, MakingNested
<1>5. /\ arena' \in Arenas /\ exiting' = exiting
      /\ arena'.blocks = arena.blocks
      /\ arena'.objs = [arena.objs EXCEPT
                           ![i] = [arena.objs[i] EXCEPT !.state = "built"]]
      /\ arena'.making = SubSeq(arena.making, 1, m - 1)
      /\ arena'.dtors = IF arena.objs[i].type \in Trivial
                        THEN arena.dtors ELSE Append(arena.dtors, i)
  BY <1>1, <1>2, <1>4, FinishGives
<1>6. i \in Nat /\ Objects \subseteq Nat
  BY <1>1 DEF Arenas, Objects
<1>7. /\ Objects' = Objects
      /\ Stage(i)' = "built"
      /\ \A j \in Objects : /\ MakerOf(j)' = MakerOf(j) /\ Light(j)' = Light(j)
                            /\ j # i => Stage(j)' = Stage(j)
  BY <1>1, <1>5, <1>6, OneState DEF Stage, MakerOf, Light
<1>8. /\ DOMAIN arena'.making = 1..m - 1
      /\ \A k \in 1..m - 1 : arena'.making[k] = arena.making[k]
  BY <1>1, <1>2, <1>5
<1>9. /\ Stage(i) = "raw"
      /\ MakerOf(i) = Outside \/ Stage(MakerOf(i)) = "raw"
      /\ MakerOf(i) \in 0..i - 1
  <2>1. Stage(i) = "raw" /\ MakerOf(i)
            = IF m = 1 THEN Outside ELSE arena.making[m - 1]
    BY <1>3, <1>4 DEF Nested, MakingNested, Stage, MakerOf
  <2>2. m # 1 => m - 1 \in DOMAIN arena.making
    <3>1. m \in Nat /\ m # 0
      BY <1>2
    <3>2. m # 1 => m - 1 \in 1..m
      BY <3>1
    <3> QED
      BY <1>3, <3>2
  <2>3. m # 1 => arena.objs[arena.making[m - 1]].state = "raw"
    BY <2>2 DEF Nested, MakingNested, Stage
  <2>4. MakerOf(i) \in 0..i - 1
    BY DEF Nested, MakingNested
  <2> QED
    BY <2>1, <2>3, <2>4 DEF Stage
\* Below the innermost object only other ones are being made.
<1>10. \A k \in 1..m - 1 : arena.making[k] \in Objects /\ arena.making[k] # i
  <2>1. ASSUME NEW k \in 1..m - 1
        PROVE  arena.making[k] \in Objects /\ arena.making[k] # i
    <3>1. k \in DOMAIN arena.making /\ k < m
      BY <1>2, <1>3
    <3>2. arena.making[k] < i /\ arena.making[k] \in Objects
      BY <1>3, <1>4, <3>1 DEF Nested, MakingNested
    <3> QED
      BY <1>6, <3>2
  <2> QED
    BY <2>1
<1>11. MakingNested'
  <2>1. ASSUME NEW k \in DOMAIN arena'.making
        PROVE  /\ arena'.making[k] \in Objects'
               /\ arena'.objs[arena'.making[k]].state = "raw"
               /\ arena'.objs[arena'.making[k]].maker
                     = IF k = 1 THEN Outside ELSE arena'.making[k - 1]
    <3>1. /\ k \in 1..m - 1 /\ k \in DOMAIN arena.making
          /\ arena'.making[k] = arena.making[k]
          /\ k # 1 => arena'.making[k - 1] = arena.making[k - 1]
      BY <1>2, <1>3, <1>8
    <3>2. PICK j \in Objects : j = arena.making[k] /\ j # i
      BY <1>10, <3>1
    <3>3. Stage(j) = "raw" /\ MakerOf(j)
              = IF k = 1 THEN Outside ELSE arena.making[k - 1]
      BY <3>1, <3>2 DEF Nested, MakingNested, Stage, MakerOf
    <3> QED
      BY <1>7, <3>1, <3>2, <3>3 DEF Stage, MakerOf
  <2>2. ASSUME NEW k \in DOMAIN arena'.making, NEW l \in DOMAIN arena'.making,
               k < l
        PROVE  arena'.making[k] < arena'.making[l]
    <3>1. k \in DOMAIN arena.making /\ l \in DOMAIN arena.making
      BY <1>2, <1>3, <1>8
    <3> QED
      BY <1>8, <2>2, <3>1 DEF Nested, MakingNested
  <2>3. ASSUME NEW j \in Objects'
        PROVE  /\ Stage(j)' = "raw" => \E k \in DOMAIN arena'.making :
                                          arena'.making[k] = j
               /\ MakerOf(j)' \in 0..j - 1
    <3>1. MakerOf(j)' \in 0..j - 1
      BY <1>7 DEF Nested, MakingNested
    <3>2. ASSUME Stage(j)' = "raw"
          PROVE  \E k \in DOMAIN arena'.making : arena'.making[k] = j
      <4>1. j # i /\ Stage(j) = "raw"
        BY <1>7, <3>2
      <4>2. PICK k \in DOMAIN arena.making : arena.making[k] = j
        BY <1>7, <4>1 DEF Nested, MakingNested
      <4>3. k \in 1..m - 1
        BY <1>2, <1>3, <1>4, <4>1, <4>2
      <4> QED
        BY <1>8, <4>2, <4>3
    <3> QED
      BY <3>1, <3>2
  <2> QED
    BY <2>1, <2>2, <2>3 DEF MakingNested, Stage, MakerOf
\* What is recorded after the step: what was, and the object unless it is plain.
<1>12. PICK d \in Nat : d = Len(arena.dtors) /\ DOMAIN arena.dtors = 1..d
  BY <1>1
<1>13. /\ 1..d \subseteq DOMAIN arena'.dtors
       /\ \A p \in 1..d : arena'.dtors[p] = arena.dtors[p]
       /\ \A p \in DOMAIN arena'.dtors :
             p \in 1..d \/ (p = d + 1 /\ ~Light(i))
       /\ ~Light(i) => d + 1 \in DOMAIN arena'.dtors /\ arena'.dtors[d + 1] = i
  <2>1. CASE Light(i)
    BY <1>5, <1>12, <2>1 DEF Light
  <2>2. CASE ~Light(i)
    <3>1. arena'.dtors = Append(arena.dtors, i)
      BY <1>5, <2>2 DEF Light
    <3> QED
      BY <1>1, <1>6, <1>12, <2>2, <3>1
  <2> QED
    BY <2>1, <2>2
<1>14. \A p \in 1..d : /\ arena.dtors[p] \in Objects /\ arena.dtors[p] # i
                       /\ arena.objs[arena.dtors[p]].state = "built"
                       /\ arena.objs[arena.dtors[p]].type \notin Trivial
  BY <1>9, <1>12 DEF Nested, DtorsRecorded, Stage, Light
<1>15. DtorsRecorded'
  <2>1. ASSUME NEW p \in DOMAIN arena'.dtors
        PROVE  /\ arena'.dtors[p] \in Objects'
               /\ arena'.objs[arena'.dtors[p]].state = "built"
               /\ arena'.objs[arena'.dtors[p]].type \notin Trivial
    <3>1. CASE p \in 1..d
      BY <1>7, <1>13, <1>14, <3>1 DEF Stage, Light
    <3>2. CASE p = d + 1 /\ ~Light(i)
      BY <1>7, <1>13, <3>2 DEF Stage, Light
    <3> QED
      BY <1>13, <3>1, <3>2
  <2>2. ASSUME NEW p \in DOMAIN arena'.dtors, NEW q \in DOMAIN arena'.dtors,
               arena'.dtors[p] = arena'.dtors[q]
        PROVE  p = q
    <3>1. CASE p \in 1..d /\ q \in 1..d
      BY <1>12, <1>13, <2>2, <3>1 DEF Nested, DtorsRecorded
    <3>2. CASE ~(p \in 1..d /\ q \in 1..d)
      BY <1>13, <1>14, <2>2, <3>2
    <3> QED
      BY <3>1, <3>2
  <2>3. ASSUME NEW j \in Objects'
        PROVE  /\ Stage(j)' = "built" /\ ~Light(j)'
                      => \E p \in DOMAIN arena'.dtors : arena'.dtors[p] = j
               /\ Stage(j)' = "dead" => ~Light(j)'
    <3>1. CASE j = i
      BY <1>7, <1>13, <3>1
    <3>2. CASE j # i
      <4>1. Stage(j)' = Stage(j) /\ Light(j)' = Light(j) /\ j \in Objects
        BY <1>7, <3>2
      <4>2. ASSUME Stage(j) = "built", ~Light(j)
            PROVE  \E p \in DOMAIN arena'.dtors : arena'.dtors[p] = j
        <5>1. PICK p \in DOMAIN arena.dtors : arena.dtors[p] = j
          BY <4>1, <4>2 DEF Nested, DtorsRecorded
        <5> QED
          BY <1>12, <1>13, <5>1
      <4> QED
        BY <4>1, <4>2 DEF Nested, DtorsRecorded
    <3> QED
      BY <3>1, <3>2
  <2> QED
    BY <2>1, <2>2, <2>3 DEF DtorsRecorded, Stage, Light

<1>16. \A j \in Objects : MakerOf(j) = Outside \/ MakerOf(j) \in Objects
  <2>1. \A j \in Objects : MakerOf(j) \in 0..j - 1
    BY DEF Nested, MakingNested
  <2>2. PICK n \in Nat : Objects = 1..n
    BY <1>1 DEF Arenas, Objects
  <2> QED
    BY <2>1, <2>2 DEF Outside
<1>17. MakersBehind'
  <2>1. ASSUME NEW p \in DOMAIN arena'.dtors
        PROVE  \E j \in Objects : /\ j = arena'.dtors[p]
                                  /\ RecordedBehind(j, p)'
    <3>1. CASE p \in 1..d
      <4>1. PICK j \in Objects : j = arena.dtors[p] /\ j = arena'.dtors[p]
        BY <1>13, <1>14, <3>1
      <4>2. RecordedBehind(j, p)
        BY <1>12, <3>1, <4>1 DEF Nested, MakersBehind, RecordedBehind, Stage,
                                 Light, MakerOf
      <4>3. CASE MakerOf(j) = Outside
        BY <1>7, <4>1, <4>3 DEF RecordedBehind
      <4>4. CASE MakerOf(j) \in Objects
        <5>1. PICK m1 \in Objects : m1 = MakerOf(j)
          BY <4>4
        <5>2. MakerOf(j)' = m1
          BY <1>7, <5>1
        <5>3. CASE m1 = i
          <6>1. CASE Light(i)
            BY <1>7, <4>1, <5>2, <5>3, <6>1 DEF RecordedBehind, Light, MakerOf
          <6>2. CASE ~Light(i)
            <7>1. d + 1 \in DOMAIN arena'.dtors /\ arena'.dtors[d + 1] = i
                  /\ p < d + 1
              BY <1>13, <3>1, <6>2
            <7> QED
              BY <4>1, <5>2, <5>3, <7>1 DEF RecordedBehind, MakerOf
          <6> QED
            BY <6>1, <6>2
        <5>4. CASE m1 # i
          <6>1. /\ Stage(m1)' = Stage(m1) /\ Light(m1)' = Light(m1)
            BY <1>7, <5>4
          <6>2. Light(m1) \/ Stage(m1) \in {"raw", "dead"}
                \/ (m1 = Outside)
                \/ \E q \in DOMAIN arena.dtors : p < q /\ arena.dtors[q] = m1
            BY <4>2, <5>1 DEF RecordedBehind, Stage, Light, MakerOf
          <6>3. (\E q \in DOMAIN arena.dtors : p < q /\ arena.dtors[q] = m1)
                => \E q \in DOMAIN arena'.dtors : p < q /\ arena'.dtors[q] = m1
            BY <1>12, <1>13
          <6> QED
            BY <4>1, <5>2, <6>1, <6>2, <6>3
               DEF RecordedBehind, Stage, Light, MakerOf
        <5> QED
          BY <5>3, <5>4
      <4> QED
        BY <1>16, <4>3, <4>4
    <3>2. CASE p = d + 1 /\ ~Light(i)
      <4>1. i = arena'.dtors[p]
        BY <1>13, <3>2
      <4>2. CASE MakerOf(i) = Outside
        BY <1>7, <4>1, <4>2 DEF RecordedBehind
      <4>3. CASE MakerOf(i) # Outside
        <5>1. PICK m1 \in Objects : m1 = MakerOf(i)
          BY <1>16, <4>3
        <5>2. MakerOf(i)' = m1 /\ m1 # i /\ Stage(m1) = "raw"
          BY <1>6, <1>7, <1>9, <4>3, <5>1 DEF Stage, MakerOf
        <5>3. Stage(m1)' = "raw"
          BY <1>7, <5>2
        <5> QED
          BY <4>1, <5>2, <5>3 DEF RecordedBehind, Stage, MakerOf
      <4> QED
        BY <4>2, <4>3
    <3> QED
      BY <1>13, <3>1, <3>2
  <2> QED
    BY <2>1 DEF MakersBehind, RecordedBehind, Stage, Light, MakerOf
<1>18. MakersDead'
  <2>1. ASSUME NEW j \in Objects', Stage(j)' = "dead", MakerOf(j)' # Outside
        PROVE  \E m1 \in Objects : /\ m1 = MakerOf(j)'
                                   /\ Stage(m1)' = "dead" \/ Light(m1)'
    <3>1. j \in Objects /\ Stage(j) = "dead" /\ MakerOf(j)' = MakerOf(j)
      BY <1>7, <2>1
    <3>2. PICK m1 \in Objects : m1 = MakerOf(j)
      BY <1>16, <2>1, <3>1
    <3>3. Stage(m1) = "dead" \/ Light(m1)
      BY <2>1, <3>1, <3>2 DEF Nested, MakersDead, Stage, Light, MakerOf
    <3> QED
      BY <1>7, <1>9, <3>1, <3>2, <3>3
  <2> QED
    BY <2>1 DEF MakersDead, Stage, Light, MakerOf
<1> QED
  BY <1>1, <1>5, <1>11, <1>15, <1>17, <1>18 DEF Nested

LEMMA DestroyNests ==
    ASSUME Allocated, Nested, DestroyLast
    PROVE  Nested'
<1>1. /\ arena \in Arenas /\ exiting /\ exiting' = exiting
      /\ arena.dtors # <<>> /\ arena.dtors \in Seq(Nat)
      /\ arena.making = <<>> /\ arena'.making = <<>>
      /\ arena'.blocks = arena.blocks /\ arena'.blocks # <<>>
  <2>1. arena \in Arenas
    BY DEF Allocated
  <2>2. exiting /\ exiting' = exiting /\ arena.dtors # <<>>
        /\ arena'.making = arena.making /\ arena'.blocks = arena.blocks
    BY <2>1, DestroyGives
  <2> QED
    BY <2>1, <2>2 DEF Nested, Arenas
<1>2. PICK d \in Nat : d = Len(arena.dtors) /\ d # 0
  BY <1>1
<1>3. DOMAIN arena.dtors = 1..d /\ d \in DOMAIN arena.dtors
  BY <1>1, <1>2
<1>4. PICK i \in Objects : i = arena.dtors[d]
  BY <1>3 DEF Nested, DtorsRecorded
<1>5. /\ arena'.objs = [arena.objs EXCEPT
                           ![i] = [arena.objs[i] EXCEPT !.state = "dead"]]
      /\ arena'.dtors = SubSeq(arena.dtors, 1, d - 1)
  BY <1>1, <1>2, <1>4, DestroyGives
<1>6. i \in Nat
  BY <1>1, <1>3, <1>4
<1>7. /\ Objects' = Objects
      /\ Stage(i)' = "dead"
      /\ \A j \in Objects : /\ MakerOf(j)' = MakerOf(j) /\ Light(j)' = Light(j)
                            /\ j # i => Stage(j)' = Stage(j)
  BY <1>1, <1>5, <1>6, OneState DEF Stage, MakerOf, Light
<1>8. /\ DOMAIN arena'.dtors = 1..d - 1
      /\ \A p \in 1..d - 1 : arena'.dtors[p] = arena.dtors[p]
  BY <1>1, <1>2, <1>5
<1>9. /\ Stage(i) = "built" /\ ~Light(i)
      /\ \A j \in Objects : Stage(j) # "raw" /\ MakerOf(j) \in 0..j - 1
  BY <1>1, <1>3, <1>4
     DEF Nested, MakingNested, DtorsRecorded, Stage, Light, MakerOf
<1>10. \A j \in Objects : MakerOf(j) = Outside \/ MakerOf(j) \in Objects
  <2>1. arena.objs \in Seq(Objs)
    BY <1>1 DEF Arenas
  <2>2. PICK n \in Nat : Objects = 1..n
    BY <2>1 DEF Objects
  <2> QED
    BY <1>9, <2>2 DEF Outside
<1>11. \A p \in 1..d - 1 : /\ p \in 1..d
                           /\ arena.dtors[p] \in Objects /\ arena.dtors[p] # i
  <2>1. ASSUME NEW p \in 1..d - 1
        PROVE  p \in 1..d /\ arena.dtors[p] \in Objects /\ arena.dtors[p] # i
    <3>1. p \in 1..d /\ p # d
      BY <1>2
    <3> QED
      BY <1>3, <1>4, <3>1 DEF Nested, DtorsRecorded
  <2> QED
    BY <2>1
<1>12. MakingNested'
  <2>1. \A j \in Objects : Stage(j)' # "raw" /\ MakerOf(j)' \in 0..j - 1
    BY <1>7, <1>9
  <2> QED
    BY <1>1, <1>7, <2>1 DEF MakingNested
<1>13. DtorsRecorded'
  <2>1. ASSUME NEW p \in DOMAIN arena'.dtors
        PROVE  /\ arena'.dtors[p] \in Objects'
               /\ arena'.objs[arena'.dtors[p]].state = "built"
               /\ arena'.objs[arena'.dtors[p]].type \notin Trivial
    <3>1. PICK j \in Objects : j = arena.dtors[p] /\ j = arena'.dtors[p] /\ j # i
      BY <1>8, <1>11
    <3>2. Stage(j) = "built" /\ ~Light(j)
      BY <1>3, <1>8, <1>11, <3>1 DEF Nested, DtorsRecorded, Stage, Light
    <3> QED
      BY <1>7, <3>1, <3>2 DEF Stage, Light
  <2>2. ASSUME NEW p \in DOMAIN arena'.dtors, NEW q \in DOMAIN arena'.dtors,
               arena'.dtors[p] = arena'.dtors[q]
        PROVE  p = q
    BY <1>3, <1>8, <1>11, <2>2 DEF Nested, DtorsRecorded
  <2>3. ASSUME NEW j \in Objects'
        PROVE  /\ Stage(j)' = "built" /\ ~Light(j)'
                      => \E p \in DOMAIN arena'.dtors : arena'.dtors[p] = j
               /\ Stage(j)' = "dead" => ~Light(j)'
    <3>1. CASE j = i
      BY <1>7, <1>9, <3>1
    <3>2. CASE j # i
      <4>1. Stage(j)' = Stage(j) /\ Light(j)' = Light(j) /\ j \in Objects
        BY <1>7, <3>2
      <4>2. ASSUME Stage(j) = "built", ~Light(j)
            PROVE  \E p \in DOMAIN arena'.dtors : arena'.dtors[p] = j
        <5>1. PICK p \in 1..d : arena.dtors[p] = j
          BY <1>3, <4>1, <4>2 DEF Nested, DtorsRecorded
        <5>2. p # d
          BY <1>4, <3>2, <5>1
        <5>3. p \in 1..d - 1
          BY <1>2, <5>2
        <5> QED
          BY <1>8, <5>1, <5>3
      <4> QED
        BY <4>1, <4>2 DEF Nested, DtorsRecorded
    <3> QED
      BY <3>1, <3>2
  <2> QED
    BY <2>1, <2>2, <2>3 DEF DtorsRecorded, Stage, Light
\* A maker that is still alive is recorded in front of the last one.
<1>14. MakersBehind'
  <2>1. ASSUME NEW p \in DOMAIN arena'.dtors
        PROVE  \E j \in Objects : j = arena'.dtors[p] /\ RecordedBehind(j, p)'
    <3>1. PICK j \in Objects : j = arena.dtors[p] /\ j = arena'.dtors[p]
      BY <1>8, <1>11
    <3>2. RecordedBehind(j, p)
      <4>1. p \in DOMAIN arena.dtors
        BY <1>3, <1>8, <1>11
      <4> QED
        BY <3>1, <4>1
           DEF Nested, MakersBehind, RecordedBehind, Stage, Light, MakerOf
    <3>3. CASE MakerOf(j) = Outside
      BY <1>7, <3>1, <3>3 DEF RecordedBehind
    <3>4. CASE MakerOf(j) \in Objects
      <4>1. PICK m1 \in Objects : m1 = MakerOf(j)
        BY <3>4
      <4>2. MakerOf(j)' = m1
        BY <1>7, <4>1
      <4>3. CASE m1 = i
        BY <1>7, <3>1, <4>2, <4>3 DEF RecordedBehind, Stage, MakerOf
      <4>4. CASE m1 # i
        <5>1. Stage(m1)' = Stage(m1) /\ Light(m1)' = Light(m1)
          BY <1>7, <4>4
        <5>2. Light(m1) \/ Stage(m1) \in {"raw", "dead"} \/ m1 = Outside
              \/ \E q \in DOMAIN arena.dtors : p < q /\ arena.dtors[q] = m1
          BY <3>2, <4>1 DEF RecordedBehind, Stage, Light, MakerOf
        <5>3. ASSUME NEW q \in DOMAIN arena.dtors, p < q, arena.dtors[q] = m1
              PROVE  \E r \in DOMAIN arena'.dtors :
                         p < r /\ arena'.dtors[r] = m1
          <6>1. q # d /\ q \in 1..d
            BY <1>3, <1>4, <4>4, <5>3
          <6>2. q \in 1..d - 1
            BY <1>2, <6>1
          <6> QED
            BY <1>8, <5>3, <6>2
        <5> QED
          BY <3>1, <4>2, <5>1, <5>2, <5>3
             DEF RecordedBehind, Stage, Light, MakerOf
      <4> QED
        BY <4>3, <4>4
    <3> QED
      BY <1>10, <3>3, <3>4
  <2> QED
    BY <2>1 DEF MakersBehind, RecordedBehind, Stage, Light, MakerOf
\* Nothing is recorded behind the last one, so its maker is dead already.
<1>15. MakersDead'
  <2>1. ASSUME NEW j \in Objects', Stage(j)' = "dead", MakerOf(j)' # Outside
        PROVE  \E m1 \in Objects : /\ m1 = MakerOf(j)'
                                   /\ Stage(m1)' = "dead" \/ Light(m1)'
    <3>1. j \in Objects /\ MakerOf(j)' = MakerOf(j)
      BY <1>7
    <3>2. PICK m1 \in Objects : m1 = MakerOf(j)
      BY <1>10, <2>1, <3>1
    <3>3. CASE j = i
      <4>1. RecordedBehind(i, d)
        BY <1>3, <1>4
           DEF Nested, MakersBehind, RecordedBehind, Stage, Light, MakerOf
      <4>2. ~\E q \in DOMAIN arena.dtors : d < q
        BY <1>2, <1>3
      <4>3. Stage(m1) # "raw" /\ m1 # Outside
        BY <1>9, <2>1, <3>1, <3>2
      <4>4. Light(m1) \/ Stage(m1) = "dead"
        BY <3>2, <3>3, <4>1, <4>2, <4>3
           DEF RecordedBehind, Stage, Light, MakerOf
      <4> QED
        BY <1>7, <1>9, <3>1, <3>2, <4>4
    <3>4. CASE j # i
      <4>1. Stage(j) = "dead"
        BY <1>7, <2>1, <3>4
      <4>2. Stage(m1) = "dead" \/ Light(m1)
        BY <2>1, <3>1, <3>2, <4>1 DEF Nested, MakersDead, Stage, Light, MakerOf
      <4> QED
        BY <1>7, <1>9, <3>1, <3>2, <4>2
    <3> QED
      BY <3>3, <3>4
  <2> QED
    BY <2>1 DEF MakersDead, Stage, Light, MakerOf
<1> QED
  BY <1>1, <1>12, <1>13, <1>14, <1>15 DEF Nested

\* Who made whom, and what is recorded, is all these say.
LEMMA SameObjects ==
    ASSUME Nested, arena'.objs = arena.objs, arena'.dtors = arena.dtors,
           arena'.making = arena.making
    PROVE  MakingNested' /\ DtorsRecorded' /\ MakersBehind' /\ MakersDead'
<1>1. MakingNested'
  BY DEF Nested, MakingNested, Stage, MakerOf, Objects
<1>2. DtorsRecorded'
  BY DEF Nested, DtorsRecorded, Stage, Light, Objects
<1>3. MakersBehind'
  BY DEF Nested, MakersBehind, RecordedBehind, Stage, Light, MakerOf
<1>4. MakersDead'
  BY DEF Nested, MakersDead, Stage, Light, MakerOf, Objects
<1> QED
  BY <1>1, <1>2, <1>3, <1>4

LEMMA NestedInvariant == ArenaSpec => []Nested
<1>1. ArenaInit /\ Allocated => Nested
  <2> SUFFICES ASSUME ArenaInit, Allocated
               PROVE  Nested
    OBVIOUS
  <2> DEFINE A == [blocks |-> <<>>, cur |-> 0, objs |-> <<>>, dtors |-> <<>>,
                   making |-> <<>>]
  <2>1. A \in Arenas /\ A.cur % Alignment = 0 /\ A.cur <= EndPtr(A)
    BY DEF Arenas, Alignment, EndPtr
  <2>2. arena = allocate(A, BlockSize) /\ exiting = FALSE
    BY DEF ArenaInit, NewArena
  <2>3. A.objs = <<>> /\ A.dtors = <<>> /\ A.making = <<>>
    OBVIOUS
  <2>4. BlockSize \in Nat
    BY ArenaAssumption
  <2> HIDE DEF A
  <2>5. arena.objs = <<>> /\ arena.dtors = <<>> /\ arena.making = <<>>
    BY <2>1, <2>2, <2>3, <2>4, AllocateGives
  <2>6. arena.blocks # <<>>
    BY <2>2 DEF Allocated
  <2> QED
    BY <2>2, <2>5, <2>6
       DEF Nested, MakingNested, DtorsRecorded, MakersBehind, MakersDead,
           Objects
<1>2. Allocated /\ Nested /\ [ArenaNext]_<<arena, exiting>> => Nested'
  <2> SUFFICES ASSUME Allocated, Nested, [ArenaNext]_<<arena, exiting>>
               PROVE  Nested'
    OBVIOUS
  <2>1. CASE \E T \in Types : BeginMake(T)
    BY <2>1, BeginNests
  <2>2. CASE FinishMake
    BY <2>2, FinishNests
  <2>3. CASE Exit
    <3>1. arena' = arena /\ arena.making = <<>> /\ ~exiting
      BY <2>3 DEF Exit
    <3> QED
      BY <3>1, SameObjects DEF Nested
  <2>4. CASE DestroyLast
    BY <2>4, DestroyNests
  <2>5. CASE ReleaseBlocks
    <3>1. /\ exiting /\ exiting' = exiting /\ arena.dtors = <<>>
          /\ arena' = [arena EXCEPT !.blocks = <<>>] /\ arena \in Arenas
      BY <2>5 DEF ReleaseBlocks, Release, Allocated
    <3>2. /\ arena'.objs = arena.objs /\ arena'.dtors = arena.dtors
          /\ arena'.making = arena.making
      BY <3>1 DEF Arenas
    <3> QED
      BY <3>1, <3>2, SameObjects DEF Nested
  <2>6. CASE UNCHANGED <<arena, exiting>>
    BY <2>6, SameObjects DEF Nested
  <2> QED
    BY <2>1, <2>2, <2>3, <2>4, <2>5, <2>6 DEF ArenaNext, Teardown
<1> QED
  BY <1>1, <1>2, AllocatedInvariant, PTL DEF ArenaSpec

LEMMA NestedDiesInOrder == Allocated /\ Nested => OuterDiesFirst
<1> SUFFICES ASSUME Allocated, Nested
             PROVE  OuterDiesFirst
  OBVIOUS
<1>1. ASSUME NEW i \in Objects, arena.objs[i].state = "dead",
             arena.objs[i].maker # Outside
      PROVE  \/ arena.objs[arena.objs[i].maker].state = "dead"
             \/ arena.objs[arena.objs[i].maker].type \in Trivial
  BY <1>1 DEF Nested, MakersDead, Stage, Light, MakerOf
<1>2. ASSUME arena.blocks = <<>>, NEW i \in Objects
      PROVE  (arena.objs[i].state = "dead")
                 = (arena.objs[i].type \notin Trivial)
  <2>1. arena.making = <<>> /\ arena.dtors = <<>>
    BY <1>2 DEF Nested
  <2>2. Stage(i) # "raw"
    BY <2>1 DEF Nested, MakingNested
  <2>3. ~(Stage(i) = "built" /\ ~Light(i)) /\ (Stage(i) = "dead" => ~Light(i))
    BY <2>1 DEF Nested, DtorsRecorded
  <2>4. Stage(i) \in {"raw", "built", "dead"}
    <3>1. arena.objs \in Seq(Objs)
      BY DEF Allocated, Arenas
    <3>2. arena.objs[i] \in Objs
      BY <3>1 DEF Objects
    <3> QED
      BY <3>2 DEF Objs, Stage
  <2>5. Stage(i) = "dead" <=> ~Light(i)
    BY <2>2, <2>3, <2>4
  <2> QED
    BY <2>5 DEF Stage, Light
<1> QED
  BY <1>1, <1>2 DEF OuterDiesFirst

\* An object made inside the constructor of another one is destroyed after it,
\* although its destructor is recorded first, and when the blocks are freed
\* every destructor that does something has run (make, mmp.hh:26-34, ~MArena).
THEOREM InnerObjectsOutlive == ArenaSpec => []OuterDiesFirst
BY AllocatedInvariant, NestedInvariant, NestedDiesInOrder, PTL

-----------------------------------------------------------------------------
(* The stack is a path in the tables.                                         *)

IsSeq(s) == s \in Seq(Range(s))

EntryAt(i) == Entry(stack[i].state)
OnPath(i) == LET row == At(stack[i - 1].state)
             IN  /\ EntryAt(i) \in DOMAIN row.goto
                 /\ row.goto[EntryAt(i)] = stack[i].state
PathOK ==
    /\ IsSeq(stack) /\ stack # <<>>
    /\ \A i \in 1..Len(stack) : stack[i].state \in States
    /\ stack[1].state = FirstState
    /\ \A i \in 2..Len(stack) : OnPath(i)

\* Behind the end of the input nothing is read.
LexOK ==
    /\ input \in Inputs /\ ahead \in Seq(Tokens) /\ tokens \in Seq(Tokens)
    /\ yychar \in Tokens \cup {"none"}
    /\ yychar # "none" => tokens # <<>>
    /\ Len(stack) > 1 /\ EntryAt(Len(stack)) = "$end" => yychar = "none"

-----------------------------------------------------------------------------
(* Each text that is not freed yet has one owner, and so has each list.       *)

Held(S) == {i \in 2..Len(stack) : EntryAt(i) \in S}
Looked == IF yychar \in Texts THEN {Len(tokens)} ELSE {}
OneEach(S) == \A i, j \in Held(S) : stack[i].val = stack[j].val => i = j

TextsOwned ==
    /\ texts = {stack[i].val : i \in Held(TextSymbols)} \cup Looked
    /\ \A i \in Held(TextSymbols) : stack[i].val \in (1..Len(tokens)) \ Looked
    /\ OneEach(TextSymbols)
ListsOwned ==
    /\ IsSeq(vecs) /\ \A v \in DOMAIN vecs : IsSeq(vecs[v])
    /\ \A i \in Held(ListSymbols) :
          stack[i].val \in DOMAIN vecs /\ vecs[stack[i].val] # Deleted
    /\ OneEach(ListSymbols)
    /\ \A v \in DOMAIN vecs :
          vecs[v] = Deleted \/ \E i \in Held(ListSymbols) : stack[i].val = v
DefsMade == \A i \in Held(DefSymbols) : stack[i].val # nullptr

Owned ==
    /\ PathOK /\ LexOK
    /\ TextsOwned /\ ListsOwned /\ DefsMade
    /\ IsSeq(node)
    /\ NothingLeaks

-----------------------------------------------------------------------------
(* What the tables are trusted for.                                           *)

LEMMA RulesOfBison == Bison.rules = Rules
BY DEF Bison, TablesOf

LEMMA RuleTyped ==
    ASSUME NEW r \in DOMAIN Rules
    PROVE  /\ Rules[r].rhs \in Seq(Symbols) /\ Len(Rules[r].rhs) \in Nat
           /\ DOMAIN Rules[r].rhs = 1..Len(Rules[r].rhs)
           /\ Rules[r].lhs \in NonTerminals
<1>1. Rules[r].rhs \in Seq(Symbols) /\ Rules[r].lhs \in NonTerminals
  BY GrammarAssumption
<1> HIDE DEF Rules
<1> QED  BY <1>1

LEMMA GotoTable ==
    ASSUME NEW s \in States, NEW X \in DOMAIN At(s).goto
    PROVE  /\ At(s).goto[X] \in States /\ At(s).goto[X] # FirstState
           /\ Entry(At(s).goto[X]) = X
           /\ \A r \in DOMAIN Rules : \A d \in 1..Len(Rules[r].rhs) :
                 <<r, d>> \in Items(At(s).goto[X]) =>
                     Rules[r].rhs[d] = X /\ <<r, d - 1>> \in Items(s)
BY TablesClosed DEF At

LEMMA StateTable ==
    ASSUME NEW s \in States
    PROVE  /\ At(s).shifts \subseteq Tokens
           /\ At(s).shifts \subseteq DOMAIN At(s).goto
           /\ \A r \in DOMAIN Rules : <<r, 0>> \in Items(s) =>
                 IF r = AcceptRule THEN s = FirstState
                 ELSE Rules[r].lhs \in DOMAIN At(s).goto
           /\ \A r \in At(s).reduces :
                 r \in DOMAIN Rules /\ <<r, Len(Rules[r].rhs)>> \in Items(s)
           /\ \A r, q \in At(s).reduces : r = q
           /\ s # FirstState /\ Entry(s) = "$end" => At(s).shifts = {}
BY TablesClosed, NoConflict DEF At

LEMMA FirstTable ==
    /\ FirstState \in States
    /\ Rules[AcceptRule].rhs = <<"CompUnit", "$end">>
    /\ \A r \in DOMAIN Rules : \A d \in 1..Len(Rules[r].rhs) :
          <<r, d>> \notin Items(FirstState)
BY TablesClosed

-----------------------------------------------------------------------------
(* The right side of a rule is on the stack when it is complete.              *)

LEMMA AllNumbers ==
    ASSUME NEW S, 0 \in S, \A n \in Nat : n \in S => n + 1 \in S
    PROVE  \A n \in Nat : n \in S
<1> DEFINE T == Nat \ S
<1> SUFFICES ASSUME T # {} PROVE FALSE
  OBVIOUS
<1>1. PICK m \in T : \A y \in T : ~ (<<y, m>> \in OpToRel(<, Nat))
  <2>1. T \subseteq Nat
    OBVIOUS
  <2> HIDE DEF T
  <2> QED  BY <2>1, WFMin, NatLessThanWellFounded
<1>2. m \in Nat /\ m # 0 /\ m \notin S
  OBVIOUS
<1>3. m - 1 \in Nat /\ (m - 1) + 1 = m
  BY <1>2
<1>4. m - 1 \in T
  BY <1>2, <1>3
<1>5. <<m - 1, m>> \in {ss \in Nat \X Nat : ss[1] < ss[2]}
  BY <1>2, <1>3
<1> QED  BY <1>1, <1>4, <1>5 DEF OpToRel

LEMMA StackTyped ==
    ASSUME PathOK
    PROVE  /\ Len(stack) \in Nat /\ Len(stack) >= 1
           /\ DOMAIN stack = 1..Len(stack)
           /\ \A i \in 1..Len(stack) : stack[i].state \in States
<1>1. stack \in Seq(Range(stack)) /\ stack # <<>>
  BY DEF PathOK, IsSeq
<1>2. Len(stack) \in Nat /\ Len(stack) >= 1 /\ DOMAIN stack = 1..Len(stack)
  BY <1>1
<1> QED  BY <1>2 DEF PathOK

LEMMA TopIs == Top = stack[Len(stack)]
BY DEF Top, Last

\* An item that has seen d symbols has the last of them on top of a shorter
\* stack, in the state of which it had seen one less.
LEMMA OneSymbol ==
    ASSUME PathOK, NEW i \in 1..Len(stack), NEW r \in DOMAIN Rules,
           NEW d \in 1..Len(Rules[r].rhs), <<r, d>> \in Items(stack[i].state)
    PROVE  /\ i - 1 \in 1..Len(stack) /\ EntryAt(i) = Rules[r].rhs[d]
           /\ <<r, d - 1>> \in Items(stack[i - 1].state)
<1>1. i # 1
  BY FirstTable DEF PathOK
<1>2. Len(stack) \in Nat /\ i \in 2..Len(stack) /\ i - 1 \in 1..Len(stack)
  BY <1>1, StackTyped
<1>3. stack[i - 1].state \in States /\ OnPath(i)
  BY <1>2, StackTyped DEF PathOK
<1> QED
  BY <1>2, <1>3, GotoTable DEF OnPath

LEMMA Handle ==
    ASSUME PathOK, NEW r \in At(Top.state).reduces, NEW n,
           n = Len(Rules[r].rhs)
    PROVE  /\ r \in DOMAIN Rules /\ n \in Nat
           /\ Len(stack) - n \in 1..Len(stack)
           /\ \A k \in 1..n : EntryAt(Len(stack) - n + k) = Rules[r].rhs[k]
           /\ <<r, 0>> \in Items(stack[Len(stack) - n].state)
<1> DEFINE L == Len(stack)
<1>1. /\ L \in Nat /\ L >= 1 /\ Top = stack[L] /\ stack[L].state \in States
  BY StackTyped, TopIs
<1>2. /\ r \in DOMAIN Rules /\ n \in Nat
      /\ <<r, n>> \in Items(stack[L].state)
  BY <1>1, StateTable, RuleTyped
<1> DEFINE Seen(m) ==
               /\ L - m \in 1..L /\ <<r, n - m>> \in Items(stack[L - m].state)
               /\ \A j \in 1..m :
                     EntryAt(L - m + j) = Rules[r].rhs[n - m + j]
           S == {m \in Nat : m <= n => Seen(m)}
<1>member. \A m \in Nat : m \in S <=> (m <= n => Seen(m))
  <2> HIDE DEF Seen
  <2> QED  OBVIOUS
<1>3. 0 \in S
  BY <1>1, <1>2
<1> HIDE DEF S
<1>4. ASSUME NEW m \in Nat, m \in S PROVE m + 1 \in S
  <2> SUFFICES ASSUME m + 1 <= n PROVE Seen(m + 1)
    <3> HIDE DEF Seen
    <3> QED  BY <1>member
  <2>1. Seen(m) /\ n - m \in 1..n
    <3>1. m <= n /\ n - m \in 1..n
      BY <1>2
    <3> HIDE DEF Seen
    <3> QED  BY <1>4, <1>member, <3>1
  <2>2. /\ L - m - 1 \in 1..L /\ EntryAt(L - m) = Rules[r].rhs[n - m]
        /\ <<r, n - m - 1>> \in Items(stack[L - m - 1].state)
    BY <1>2, <2>1, OneSymbol
  <2>3. L - (m + 1) = L - m - 1 /\ n - (m + 1) = n - m - 1
    BY <1>1, <1>2
  <2>4. ASSUME NEW j \in 1..m + 1
        PROVE  EntryAt(L - (m + 1) + j) = Rules[r].rhs[n - (m + 1) + j]
    <3>1. CASE j = 1
      <4>1. L - (m + 1) + j = L - m /\ n - (m + 1) + j = n - m
        BY <1>1, <1>2, <3>1
      <4> QED  BY <2>2, <4>1
    <3>2. CASE j # 1
      <4>1. /\ j - 1 \in 1..m /\ L - (m + 1) + j = L - m + (j - 1)
            /\ n - (m + 1) + j = n - m + (j - 1)
        BY <1>1, <1>2, <3>2
      <4> QED  BY <2>1, <4>1
    <3> QED  BY <3>1, <3>2
  <2> QED  BY <2>2, <2>3, <2>4
<1>5. n \in S
  BY <1>2, <1>3, <1>4, AllNumbers
<1>6. Seen(n)
  <2> HIDE DEF Seen
  <2> QED  BY <1>2, <1>5, <1>member
<1>7. /\ n - n = 0 /\ \A k \in 1..n : n - n + k = k
  BY <1>2
<1> QED  BY <1>2, <1>6, <1>7

-----------------------------------------------------------------------------
(* What the actions do to texts and lists.                                    *)

IsHeap(H) ==
    /\ DOMAIN H = {"arena", "texts", "vecs", "node", "top", "misused"}
    /\ IsSeq(H.node) /\ ~H.misused

LEMMA SeqIs == ASSUME NEW S, NEW s \in Seq(S) PROVE IsSeq(s)
<1>1. Len(s) \in Nat /\ s \in [1..Len(s) -> S] /\ DOMAIN s = 1..Len(s)
  OBVIOUS
<1>2. s \in [1..Len(s) -> Range(s)]
  BY <1>1 DEF Range
<1> QED  BY <1>1, <1>2 DEF IsSeq

LEMMA IsSeqChanges ==
    ASSUME NEW s, IsSeq(s), NEW x
    PROVE  /\ Len(s) \in Nat /\ DOMAIN s = 1..Len(s)
           /\ IsSeq(Append(s, x)) /\ Len(Append(s, x)) = Len(s) + 1
           /\ \A i : /\ IsSeq([s EXCEPT ![i] = x])
                     /\ Len([s EXCEPT ![i] = x]) = Len(s)
<1> DEFINE S == Range(s) \cup {x}
<1>1. s \in Seq(Range(s)) /\ Range(s) \subseteq S
  BY DEF IsSeq
<1> HIDE DEF S
<1>2. s \in Seq(S) /\ x \in S
  BY <1>1 DEF S
<1>3. Append(s, x) \in Seq(S) /\ Len(Append(s, x)) = Len(s) + 1
  BY <1>2
<1>4. ASSUME NEW i
      PROVE  [s EXCEPT ![i] = x] \in Seq(S) /\ Len([s EXCEPT ![i] = x]) = Len(s)
  <2> DEFINE t == [s EXCEPT ![i] = x]
  <2>1. Len(s) \in Nat /\ s \in [1..Len(s) -> S]
    BY <1>2
  <2>2. t \in [1..Len(s) -> S] /\ DOMAIN t = 1..Len(s)
    BY <1>2, <2>1
  <2> HIDE DEF t
  <2>3. t \in Seq(S) /\ Len(t) = Len(s)
    BY <2>1, <2>2
  <2> QED  BY <2>3 DEF t
<1> QED  BY <1>2, <1>3, <1>4, SeqIs

LEMMA MakeHeap ==
    ASSUME NEW H, IsHeap(H), NEW c
    PROVE  /\ IsHeap(make(H, c)) /\ made(make(H, c)) = made(H) + 1
           /\ made(H) \in Nat
           /\ make(H, c).texts = H.texts /\ make(H, c).vecs = H.vecs
<1>1. /\ make(H, c).node = Append(H.node, c) /\ DOMAIN make(H, c) = DOMAIN H
      /\ make(H, c).texts = H.texts /\ make(H, c).vecs = H.vecs
      /\ make(H, c).misused = H.misused
  BY DEF make, IsHeap
<1>2. IsSeq(Append(H.node, c)) /\ Len(Append(H.node, c)) = Len(H.node) + 1
      /\ Len(H.node) \in Nat
  BY IsSeqChanges DEF IsHeap
<1> QED  BY <1>1, <1>2 DEF IsHeap, made

LEMMA UseHeap ==
    ASSUME NEW H, IsHeap(H), NEW t \in H.texts
    PROVE  /\ IsHeap(UseText(H, t)) /\ UseText(H, t).texts = H.texts
           /\ UseText(H, t).vecs = H.vecs /\ UseText(H, t).node = H.node
BY DEF UseText, IsHeap

LEMMA FreeHeap ==
    ASSUME NEW H, IsHeap(H), NEW t \in H.texts
    PROVE  /\ IsHeap(free(H, t)) /\ free(H, t).texts = H.texts \ {t}
           /\ free(H, t).vecs = H.vecs /\ free(H, t).node = H.node
BY UseHeap DEF free, IsHeap

LEMMA UseVecHeap ==
    ASSUME NEW H, IsHeap(H), NEW v, H.vecs[v] # Deleted
    PROVE  /\ IsHeap(UseVec(H, v)) /\ UseVec(H, v).texts = H.texts
           /\ UseVec(H, v).vecs = H.vecs /\ UseVec(H, v).node = H.node
BY DEF UseVec, IsHeap

\* The heap G is H but for what is said of it.
Same(H, G) == IsHeap(G) /\ G.texts = H.texts /\ G.vecs = H.vecs
Freed(H, G, t) == IsHeap(G) /\ G.texts = H.texts \ {t} /\ G.vecs = H.vecs

Plain == {"unit", "block", "add_item", "item", "number", "numExp", "lvalExp"}
         \cup StmtActions
DefActions == {"constDef", "varDefInit", "varDef"}

LEMMA StmtHeap ==
    ASSUME NEW H, IsHeap(H), NEW v, NEW do \in StmtActions
    PROVE  Same(H, StmtAction(H, do, v).heap)
<1>1. \A alt, parts : Same(H, StmtAST(H, alt, parts))
  BY MakeHeap DEF StmtAST, Same
<1>2. Same(H, H)
  BY DEF Same
<1>3. \A G, val : Gives(G, val).heap = G /\ GivesNode(G).heap = G
  BY DEF Gives, GivesNode
<1>4. StmtAction(H, do, v).heap = H
      \/ \E alt, parts : StmtAction(H, do, v).heap = StmtAST(H, alt, parts)
  BY <1>3 DEF StmtAction, StmtActions
<1> QED  BY <1>1, <1>2, <1>4

LEMMA PlainHeap ==
    ASSUME NEW H, IsHeap(H), NEW v, NEW do \in Plain
    PROVE  Same(H, Action(H, do, v).heap)
<1>1. \A G, val : Gives(G, val).heap = G /\ GivesNode(G).heap = G
  BY DEF Gives, GivesNode
<1>2. Same(H, H) /\ \A c : Same(H, make(H, c))
  BY MakeHeap DEF Same
<1>3. CASE do = "unit"
  <2>1. Action(H, do, v).heap = [H EXCEPT !.top = v[1]]
    BY <1>1, <1>3 DEF Action, DeclActions, StmtActions
  <2> QED  BY <2>1 DEF Same, IsHeap
<1>4. CASE do = "block"
  BY <1>1, <1>2, <1>4 DEF Action, DeclActions, StmtActions
<1>5. CASE do = "add_item"
  <2>1. Action(H, do, v).heap = AddItem(H, v[1], v[2])
    BY <1>1, <1>5 DEF Action, DeclActions, StmtActions
  <2>2. CASE v[2] = nullptr
    BY <1>2, <2>1, <2>2 DEF AddItem
  <2>3. CASE v[2] # nullptr
    <3> DEFINE G == AddItem(H, v[1], v[2])
               x == [H.node[v[1]] EXCEPT !.items = Append(@, v[2])]
    <3>1. /\ DOMAIN G = DOMAIN H /\ G.node = [H.node EXCEPT ![v[1]] = x]
          /\ G.texts = H.texts /\ G.vecs = H.vecs /\ G.misused = H.misused
      BY <2>3 DEF AddItem, IsHeap
    <3>2. IsSeq([H.node EXCEPT ![v[1]] = x])
      BY IsSeqChanges DEF IsHeap
    <3> QED  BY <2>1, <3>1, <3>2 DEF Same, IsHeap
  <2> QED  BY <2>2, <2>3
<1>6. CASE do = "item"
  BY <1>1, <1>2, <1>6 DEF Action, DeclActions, StmtActions, BlockItemAST
<1>7. CASE do \in {"number", "numExp", "lvalExp"}
  <2>1. Action(H, do, v) = ExpAction(H, do, v)
    BY <1>7 DEF Action, DeclActions, StmtActions
  <2> QED  BY <1>1, <1>2, <1>7, <2>1 DEF ExpAction, ExpAST
<1>8. CASE do \in StmtActions
  <2>1. Action(H, do, v) = StmtAction(H, do, v)
    BY <1>8 DEF Action, DeclActions, StmtActions
  <2> QED  BY <1>8, <2>1, StmtHeap
<1> QED  BY <1>3, <1>4, <1>5, <1>6, <1>7, <1>8 DEF Plain

LEMMA VarHeap ==
    ASSUME NEW H, IsHeap(H), NEW t \in H.texts
    PROVE  /\ Same(H, VarAST(H, t)) /\ made(H) \in Nat
           /\ Freed(H, free(VarAST(H, t), t), t)
<1>1. Same(H, UseText(H, t))
  BY UseHeap DEF Same
<1>2. Same(H, VarAST(H, t)) /\ made(H) \in Nat
  BY <1>1, MakeHeap DEF VarAST, Same
<1> QED  BY <1>2, FreeHeap DEF Same, Freed

LEMMA DefHeap ==
    ASSUME NEW H, IsHeap(H), NEW t \in H.texts, NEW init
    PROVE  Freed(H, DefAST(H, t, init), t)
<1> DEFINE H1 == make(H, [type |-> "varDefAST", const |-> FALSE,
                          var |-> nullptr, init |-> init])
           H2 == VarAST(H1, t)
           x == [H2.node[made(H1)] EXCEPT !.var = made(H2)]
           H3 == [H2 EXCEPT !.node[made(H1)].var = made(H2)]
<1>1. Same(H, H1)
  BY MakeHeap DEF Same
<1> HIDE DEF H1
<1>2. Same(H, H2)
  BY <1>1, VarHeap DEF Same
<1>3. DefAST(H, t, init) = free(H3, t)
  BY DEF DefAST, H1
<1> HIDE DEF H2
<1>4. /\ DOMAIN H3 = DOMAIN H2 /\ H3.node = [H2.node EXCEPT ![made(H1)] = x]
      /\ H3.texts = H2.texts /\ H3.vecs = H2.vecs /\ H3.misused = H2.misused
  BY <1>2 DEF Same, IsHeap
<1> HIDE DEF H3, x
<1>5. IsSeq(H3.node)
  <2>1. IsSeq(H2.node)
    BY <1>2 DEF Same, IsHeap
  <2>2. IsSeq([H2.node EXCEPT ![made(H1)] = x])
    BY <2>1, IsSeqChanges
  <2> QED  BY <1>4, <2>2
<1>6. Same(H, H3)
  BY <1>2, <1>4, <1>5 DEF Same, IsHeap
<1> QED  BY <1>3, <1>6, FreeHeap DEF Same, Freed

LEMMA OpHeap ==
    ASSUME NEW H, IsHeap(H), NEW t \in H.texts, NEW left, NEW right
    PROVE  Freed(H, OpExpAST(H, left, t, right), t)
<1>1. Same(H, UseText(H, t))
  BY UseHeap DEF Same
<1>2. \A op : Same(H, ExpAST(UseText(H, t), "op", op, <<left, right>>))
  BY <1>1, MakeHeap DEF ExpAST, Same
<1> QED  BY <1>2, FreeHeap DEF OpExpAST, Same, Freed

LEMMA FreeingHeap ==
    ASSUME NEW H, IsHeap(H), NEW v, NEW do, NEW k \in FreedAt(do),
           v[k] \in H.texts
    PROVE  /\ Freed(H, Action(H, do, v).heap, v[k])
           /\ do \in DefActions => Action(H, do, v).val # nullptr
<1>1. \A G, val : /\ Gives(G, val).heap = G /\ Gives(G, val).val = val
                  /\ GivesNode(G).heap = G
  BY DEF Gives, GivesNode
<1>2. CASE do \in DefActions /\ k = 1
  <2>1. \E init : Action(H, do, v) = Gives(DefAST(H, v[1], init), made(H) + 1)
    BY <1>2 DEF Action, DeclActions, StmtActions, DefActions, DeclAction
  <2>2. made(H) + 1 # nullptr
    BY MakeHeap DEF nullptr
  <2> QED  BY <1>1, <1>2, <2>1, <2>2, DefHeap
<1>3. CASE do = "lval" /\ k = 1
  <2>1. Action(H, do, v).heap = free(VarAST(H, v[1]), v[1])
    BY <1>1, <1>3 DEF Action, DeclActions, StmtActions, ExpAction
  <2> QED  BY <1>3, <2>1, VarHeap DEF DefActions
<1>4. CASE do = "unary" /\ k = 1
  <2>1. Action(H, do, v).heap = OpExpAST(H, nullptr, v[1], v[2])
    BY <1>1, <1>4 DEF Action, DeclActions, StmtActions, ExpAction
  <2> QED  BY <1>4, <2>1, OpHeap DEF DefActions
<1>5. CASE do = "binary" /\ k = 2
  <2>1. Action(H, do, v).heap = OpExpAST(H, v[1], v[2], v[3])
    BY <1>1, <1>5 DEF Action, DeclActions, StmtActions, ExpAction
  <2> QED  BY <1>5, <2>1, OpHeap DEF DefActions
<1>6. CASE do = "func" /\ k = 2
  <2>1. \E c : Action(H, do, v).heap = free(make(UseText(H, v[2]), c), v[2])
    BY <1>1, <1>6 DEF Action, DeclActions, StmtActions
  <2>2. \A c : Same(H, make(UseText(H, v[2]), c))
    BY <1>6, UseHeap, MakeHeap DEF Same
  <2> QED  BY <1>6, <2>1, <2>2, FreeHeap DEF DefActions, Same, Freed
<1>7. \/ do \in DefActions \cup {"lval", "unary"} /\ k = 1
      \/ do \in {"func", "binary"} /\ k = 2
  BY DEF FreedAt, DefActions
<1> QED  BY <1>2, <1>3, <1>4, <1>5, <1>6, <1>7

Emptied(q, i) == [q EXCEPT ![i] = Deleted]
Longer(q, i, x) == [q EXCEPT ![i] = Append(@, x)]

LEMMA ListHeap ==
    ASSUME NEW H, IsHeap(H), NEW v, NEW do, NEW k \in UsedAt(do),
           H.vecs[v[k]] # Deleted, NEW did, did = Action(H, do, v)
    PROVE  /\ IsHeap(did.heap) /\ did.heap.texts = H.texts
           /\ do = "decl" => did.heap.vecs = Emptied(H.vecs, v[k])
           /\ do = "push_back" =>
                 did.val = v[k] /\ did.heap.vecs = Longer(H.vecs, v[k], v[3])
           /\ do = "constDecl" => did.val = v[k] /\ did.heap.vecs = H.vecs
<1>1. \A G, val : /\ Gives(G, val).heap = G /\ Gives(G, val).val = val
                  /\ GivesNode(G).heap = G
  BY DEF Gives, GivesNode
<1> DEFINE U == UseVec(H, v[k])
<1>2. Same(H, U) /\ U.node = H.node
  BY UseVecHeap DEF Same
<1>3. CASE do = "decl" /\ k = 1
  <2> DEFINE M == make(U, [type |-> "DeclAST", defs |-> H.vecs[v[1]]])
  <2>1. Action(H, do, v).heap = [M EXCEPT !.vecs[v[1]] = Deleted]
    BY <1>1, <1>3 DEF Action, DeclActions, StmtActions, DeclAction, DeclAST
  <2>2. Same(H, M)
    BY <1>2, MakeHeap DEF Same
  <2> HIDE DEF M
  <2>3. did.heap.vecs = Emptied(M.vecs, v[1])
    BY <1>3, <2>1, <2>2 DEF Same, IsHeap, Emptied
  <2> QED  BY <1>3, <2>1, <2>2, <2>3 DEF Same, IsHeap
<1>4. CASE do = "push_back" /\ k = 1
  <2>1. Action(H, do, v)
          = Gives([U EXCEPT !.vecs[v[1]] = Append(@, v[3])], v[1])
    BY <1>4 DEF Action, DeclActions, StmtActions, DeclAction, PushBack
  <2> HIDE DEF U
  <2>2. did.heap = [U EXCEPT !.vecs[v[1]] = Append(@, v[3])] /\ did.val = v[1]
    BY <1>1, <2>1
  <2>3. did.heap.vecs = Longer(U.vecs, v[1], v[3])
    BY <1>2, <2>2 DEF Same, IsHeap, Longer
  <2> QED  BY <1>2, <1>4, <2>2, <2>3 DEF Same, IsHeap
<1>5. CASE do = "constDecl" /\ k = 3
  <2>1. /\ Action(H, do, v).val = v[3]
        /\ Action(H, do, v).heap = SetConst(H, v[3])
    BY <1>1, <1>5 DEF Action, DeclActions, StmtActions, DeclAction
  <2> DEFINE G == SetConst(H, v[3])
             Const(n) == IF \E i \in DOMAIN H.vecs[v[3]] : H.vecs[v[3]][i] = n
                         THEN [H.node[n] EXCEPT !.const = TRUE] ELSE H.node[n]
  <2>2. /\ DOMAIN G = DOMAIN U /\ G.texts = U.texts /\ G.vecs = U.vecs
        /\ G.misused = U.misused
        /\ G.node = [n \in DOMAIN H.node |-> Const(n)]
    BY <1>2, <1>5 DEF SetConst, Same, IsHeap
  <2>3. IsSeq([n \in DOMAIN H.node |-> Const(n)])
    <3> DEFINE q == [n \in DOMAIN H.node |-> Const(n)]
    <3> HIDE DEF Const
    <3>1. DOMAIN H.node = 1..Len(H.node) /\ Len(H.node) \in Nat
      BY IsSeqChanges DEF IsHeap
    <3>2. q \in Seq({Const(n) : n \in DOMAIN H.node})
      BY <3>1
    <3> QED  BY <3>2, SeqIs
  <2> HIDE DEF G, Const
  <2> QED  BY <1>2, <1>5, <2>1, <2>2, <2>3 DEF Same, IsHeap, G
<1>6. \/ do \in {"decl", "push_back"} /\ k = 1
      \/ do = "constDecl" /\ k = 3
  BY DEF UsedAt
<1> QED  BY <1>3, <1>4, <1>5, <1>6

LEMMA NewListHeap ==
    ASSUME NEW H, IsHeap(H), NEW v
    PROVE  LET did == Action(H, "defs", v)
           IN  /\ IsHeap(did.heap) /\ did.heap.texts = H.texts
               /\ did.heap.vecs = Append(H.vecs, <<v[1]>>)
               /\ did.val = Len(H.vecs) + 1
<1>1. Action(H, "defs", v) = Gives(NewVec(H, v[1]), Len(H.vecs) + 1)
  BY DEF Action, DeclActions, StmtActions, DeclAction
<1> QED  BY <1>1 DEF Gives, NewVec, IsHeap

-----------------------------------------------------------------------------
(* A reduction, as far as values on the stack are concerned.                  *)

Below(b, S) == {i \in 2..b : EntryAt(i) \in S}
Handled(rule, b, v, val) ==
    /\ b \in 1..Len(stack)
    /\ \A i \in 1..b : stack'[i].val = stack[i].val
    /\ stack'[b + 1].val = val
    /\ \A k \in DOMAIN rule.rhs : v[k] = stack[b + k].val
    /\ DOMAIN rule.rhs \subseteq Nat \ {0}
    /\ \A S : /\ Held(S) = Below(b, S) \cup {b + k : k \in Places(rule.rhs, S)}
              /\ Held(S)' = Below(b, S) \cup Only(b + 1, rule.lhs \in S)

LEMMA AppendIs ==
    ASSUME NEW s, IsSeq(s), NEW x
    PROVE  /\ \A i \in 1..Len(s) : Append(s, x)[i] = s[i]
           /\ Append(s, x)[Len(s) + 1] = x
<1>1. s \in Seq(Range(s) \cup {x})
  BY DEF IsSeq
<1> QED  BY <1>1

LEMMA PrefixIs ==
    ASSUME NEW s, IsSeq(s), NEW b \in 0..Len(s)
    PROVE  /\ IsSeq(SubSeq(s, 1, b)) /\ Len(SubSeq(s, 1, b)) = b
           /\ \A i \in 1..b : SubSeq(s, 1, b)[i] = s[i]
<1>1. s \in Seq(Range(s))
  BY DEF IsSeq
<1>2. SubSeq(s, 1, b) \in Seq(Range(s)) /\ Len(SubSeq(s, 1, b)) = b
  BY <1>1
<1>3. \A i \in 1..b : SubSeq(s, 1, b)[i] = s[i]
  BY <1>1
<1> QED  BY <1>2, <1>3, SeqIs

\* A path goes on by one state.
LEMMA PathGoesOn ==
    ASSUME PathOK, NEW b \in 1..Len(stack), NEW X, NEW val,
           X \in DOMAIN At(stack[b].state).goto,
           stack' = Append(SubSeq(stack, 1, b),
                           [state |-> At(stack[b].state).goto[X], val |-> val])
    PROVE  /\ PathOK' /\ Len(stack') = b + 1
           /\ \A i \in 1..b : stack'[i] = stack[i]
           /\ stack'[b + 1].val = val /\ EntryAt(b + 1)' = X
<1> DEFINE e == [state |-> At(stack[b].state).goto[X], val |-> val]
           q == SubSeq(stack, 1, b)
<1>1. Len(stack) \in Nat /\ b \in 0..Len(stack) /\ stack[b].state \in States
  BY StackTyped
<1>2. IsSeq(q) /\ Len(q) = b /\ \A i \in 1..b : q[i] = stack[i]
  BY <1>1, PrefixIs DEF PathOK
<1> HIDE DEF q
<1>3. /\ IsSeq(Append(q, e)) /\ Len(Append(q, e)) = b + 1
      /\ \A i \in 1..b : Append(q, e)[i] = q[i]
      /\ Append(q, e)[b + 1] = e
  BY <1>2, IsSeqChanges, AppendIs
<1>4. /\ IsSeq(stack') /\ Len(stack') = b + 1 /\ stack'[b + 1] = e
      /\ \A i \in 1..b : stack'[i] = stack[i]
  BY <1>2, <1>3 DEF q
<1>5. /\ e.state \in States /\ Entry(e.state) = X /\ e.val = val
      /\ e.state = At(stack[b].state).goto[X]
  BY <1>1, GotoTable
<1> HIDE DEF e
<1>6. stack' # <<>> /\ stack'[1].state = FirstState
  <2>1. Len(stack') # 0 /\ Len(<<>>) = 0
    BY <1>1, <1>4
  <2>2. stack'[1] = stack[1]
    BY <1>1, <1>4
  <2> QED  BY <2>1, <2>2 DEF PathOK
<1>7. \A i \in 1..b + 1 : stack'[i].state \in States
  BY <1>1, <1>4, <1>5, StackTyped
<1>8. ASSUME NEW i \in 2..b + 1 PROVE OnPath(i)'
  <2>1. CASE i <= b
    <3>1. i \in 2..Len(stack) /\ i - 1 \in 1..b /\ i \in 1..b
      BY <1>1, <2>1
    <3>2. stack'[i] = stack[i] /\ stack'[i - 1] = stack[i - 1]
      BY <1>4, <3>1
    <3> QED  BY <3>1, <3>2 DEF PathOK, OnPath, EntryAt
  <2>2. CASE i = b + 1
    <3>1. i - 1 = b /\ stack'[b] = stack[b] /\ stack'[i] = e
      BY <1>1, <1>4, <2>2
    <3> QED  BY <1>5, <3>1 DEF OnPath, EntryAt, At
  <2> QED  BY <1>1, <2>1, <2>2
<1>9. PathOK'
  BY <1>4, <1>6, <1>7, <1>8 DEF PathOK
<1> QED  BY <1>4, <1>5, <1>9 DEF EntryAt

LEMMA HeldAfter ==
    ASSUME NEW b \in Nat, NEW X, Len(stack') = b + 1,
           \A i \in 1..b : stack'[i] = stack[i], EntryAt(b + 1)' = X, b >= 1
    PROVE  \A S : Held(S)' = Below(b, S) \cup Only(b + 1, X \in S)
<1> TAKE S
<1>1. \A i \in 1..b : EntryAt(i)' = EntryAt(i)
  BY DEF EntryAt
<1>2. Held(S)' = {i \in 2..b + 1 : EntryAt(i)' \in S}
  BY DEF Held
<1>3. 2..b + 1 = (2..b) \cup {b + 1}
  OBVIOUS
<1> QED  BY <1>1, <1>2, <1>3 DEF Below, Only

LEMMA HeldBefore ==
    ASSUME NEW b \in Nat, NEW rhs, NEW n \in Nat, DOMAIN rhs = 1..n,
           Len(stack) = b + n, b >= 1,
           \A k \in 1..n : EntryAt(b + k) = rhs[k]
    PROVE  \A S : Held(S) = Below(b, S) \cup {b + k : k \in Places(rhs, S)}
<1> TAKE S
<1>1. ASSUME NEW i \in Held(S)
      PROVE  i \in Below(b, S) \cup {b + k : k \in Places(rhs, S)}
  <2>1. i \in 2..b + n /\ EntryAt(i) \in S
    BY DEF Held
  <2>2. CASE i <= b
    BY <2>1, <2>2 DEF Below
  <2>3. CASE i > b
    <3>1. i - b \in 1..n /\ b + (i - b) = i
      BY <2>1, <2>3
    <3> QED  BY <2>1, <3>1 DEF Places
  <2> QED  BY <2>1, <2>2, <2>3
<1>2. ASSUME NEW i \in Below(b, S) PROVE i \in Held(S)
  BY DEF Held, Below
<1>3. ASSUME NEW k \in Places(rhs, S) PROVE b + k \in Held(S)
  <2>1. k \in 1..n /\ EntryAt(b + k) \in S
    BY DEF Places
  <2> QED  BY <2>1 DEF Held
<1> QED  BY <1>1, <1>2, <1>3

LEMMA TextsStep ==
    ASSUME TextsOwned, NEW rule, NEW b, NEW v, NEW val,
           Handled(rule, b, v, val), UNCHANGED <<yychar, tokens>>,
           NEW k, LET held == Places(rule.rhs, TextSymbols)
                  IN  \/ /\ held = {k} /\ rule.lhs \in TextSymbols
                         /\ val = v[k] /\ texts' = texts
                      \/ /\ held = {} /\ rule.lhs \notin TextSymbols
                         /\ texts' = texts
                      \/ /\ held = {k} /\ rule.lhs \notin TextSymbols
                         /\ texts' = texts \ {v[k]}
    PROVE  TextsOwned'
<1> DEFINE B == Below(b, TextSymbols)
           K == Places(rule.rhs, TextSymbols)
           A == Held(TextSymbols)
<1>1. /\ A = B \cup {b + j : j \in K}
      /\ A' = B \cup Only(b + 1, rule.lhs \in TextSymbols)
  BY DEF Handled
<1>2. /\ \A i \in B : i \in 1..b /\ stack'[i].val = stack[i].val
      /\ stack'[b + 1].val = val /\ Looked' = Looked
      /\ Len(tokens') = Len(tokens)
      /\ \A j \in K : v[j] = stack[b + j].val /\ b + j \notin B
      /\ b + 1 \notin B
  BY DEF Handled, Below, Looked, Places
<1>3. /\ texts = {stack[i].val : i \in A} \cup Looked
      /\ \A i \in A : stack[i].val \in (1..Len(tokens)) \ Looked
      /\ \A i, j \in A : stack[i].val = stack[j].val => i = j
  BY DEF TextsOwned, OneEach
<1> SUFFICES /\ texts' = {stack'[i].val : i \in A'} \cup Looked'
             /\ \A i \in A' : stack'[i].val \in (1..Len(tokens')) \ Looked'
             /\ \A i, j \in A' : stack'[i].val = stack'[j].val => i = j
  BY DEF TextsOwned, OneEach
<1> HIDE DEF A, B, K
<1>4. CASE /\ K = {k} /\ rule.lhs \in TextSymbols
           /\ val = v[k] /\ texts' = texts
  <2>1. A = B \cup {b + k} /\ A' = B \cup {b + 1}
    BY <1>1, <1>4 DEF Only
  <2>2. stack'[b + 1].val = stack[b + k].val /\ b + k \notin B /\ b + 1 \notin B
    BY <1>2, <1>4
  <2> QED  BY <1>2, <1>3, <1>4, <2>1, <2>2
<1>5. CASE K = {} /\ rule.lhs \notin TextSymbols /\ texts' = texts
  <2>1. A = B /\ A' = B
    BY <1>1, <1>5 DEF Only
  <2> QED  BY <1>2, <1>3, <1>5, <2>1
<1>6. CASE K = {k} /\ rule.lhs \notin TextSymbols /\ texts' = texts \ {v[k]}
  <2>1. A = B \cup {b + k} /\ A' = B
    BY <1>1, <1>6 DEF Only
  <2>2. v[k] = stack[b + k].val /\ b + k \notin B
    BY <1>2, <1>6
  <2> QED  BY <1>2, <1>3, <1>6, <2>1, <2>2
<1> QED  BY <1>4, <1>5, <1>6 DEF K

\* A list with an element, or with one more, is not a deleted one.
LEMMA NotDeleted ==
    /\ \A x : x # nullptr => <<x>> # Deleted /\ IsSeq(<<x>>)
    /\ \A s, x : IsSeq(s) /\ x # nullptr =>
          Append(s, x) # Deleted /\ IsSeq(Append(s, x))
    /\ IsSeq(Deleted)
<1>1. \A x : IsSeq(<<x>>) /\ <<x>>[1] = x
  <2> TAKE x
  <2>1. <<x>> \in Seq({x})
    OBVIOUS
  <2> QED  BY <2>1, SeqIs
<1>2. Deleted = <<nullptr>> /\ Len(Deleted) = 1 /\ Deleted[1] = nullptr
  BY DEF Deleted
<1>3. ASSUME NEW s, NEW x, IsSeq(s), x # nullptr
      PROVE  Append(s, x) # Deleted /\ IsSeq(Append(s, x))
  <2>1. /\ IsSeq(Append(s, x)) /\ Len(Append(s, x)) = Len(s) + 1
        /\ Len(s) \in Nat /\ Append(s, x)[Len(s) + 1] = x
    BY <1>3, IsSeqChanges, AppendIs
  <2> HIDE DEF nullptr
  <2> QED  BY <1>2, <1>3, <2>1
<1> QED  BY <1>1, <1>2, <1>3

LEMMA OneMore ==
    \A n \in Nat : 1..n + 1 = (1..n) \cup {n + 1} /\ n + 1 \notin 1..n
OBVIOUS

ListsTyped == IsSeq(vecs) /\ \A v \in DOMAIN vecs : IsSeq(vecs[v])

\* The list on the right side, if any, becomes that of the left side, with an
\* element more or not, or is deleted; or there is a new one.
ListStep(rule, v, val, x, k) ==
    LET held == Places(rule.rhs, ListSymbols)
    IN  \/ /\ held = {k} /\ rule.lhs \in ListSymbols /\ val = v[k]
           /\ vecs' = vecs \/ vecs' = Longer(vecs, v[k], x)
        \/ held = {} /\ rule.lhs \notin ListSymbols /\ vecs' = vecs
        \/ /\ held = {k} /\ rule.lhs \notin ListSymbols
           /\ vecs' = Emptied(vecs, v[k])
        \/ /\ held = {} /\ rule.lhs \in ListSymbols
           /\ val = Len(vecs) + 1 /\ vecs' = Append(vecs, <<x>>)

LEMMA ListsStep ==
    ASSUME ListsOwned, NEW rule, NEW b, NEW v, NEW val,
           Handled(rule, b, v, val), NEW x, x # nullptr,
           NEW k, ListStep(rule, v, val, x, k)
    PROVE  ListsOwned'
<1> DEFINE B == Below(b, ListSymbols)
           K == Places(rule.rhs, ListSymbols)
           A == Held(ListSymbols)
<1>1. /\ A = B \cup {b + j : j \in K}
      /\ A' = B \cup Only(b + 1, rule.lhs \in ListSymbols)
  BY DEF Handled
<1>2. /\ \A i \in B : i \in 1..b /\ stack'[i].val = stack[i].val
      /\ stack'[b + 1].val = val
      /\ \A j \in K : v[j] = stack[b + j].val /\ b + j \notin B
      /\ b + 1 \notin B
  BY DEF Handled, Below, Places
<1>3. /\ ListsTyped
      /\ \A i \in A :
            stack[i].val \in DOMAIN vecs /\ vecs[stack[i].val] # Deleted
      /\ \A i, j \in A : stack[i].val = stack[j].val => i = j
      /\ \A w \in DOMAIN vecs :
            vecs[w] = Deleted \/ \E i \in A : stack[i].val = w
  BY DEF ListsOwned, OneEach, ListsTyped
<1> SUFFICES
      /\ ListsTyped'
      /\ \A i \in A' :
            stack'[i].val \in DOMAIN vecs' /\ vecs'[stack'[i].val] # Deleted
      /\ \A i, j \in A' : stack'[i].val = stack'[j].val => i = j
      /\ \A w \in DOMAIN vecs' :
            vecs'[w] = Deleted \/ \E i \in A' : stack'[i].val = w
  BY DEF ListsOwned, OneEach, ListsTyped
<1> HIDE DEF A, B, K
<1>4. CASE K = {k} /\ rule.lhs \in ListSymbols /\ val = v[k]
  <2>1. A = B \cup {b + k} /\ A' = B \cup {b + 1}
    BY <1>1, <1>4 DEF Only
  <2>2. stack'[b + 1].val = stack[b + k].val /\ b + k \notin B /\ b + 1 \notin B
    BY <1>2, <1>4
  <2>3. CASE vecs' = vecs
    BY <1>2, <1>3, <2>1, <2>2, <2>3 DEF ListsTyped
  <2>4. CASE vecs' = Longer(vecs, v[k], x)
    <3>1. /\ DOMAIN vecs' = DOMAIN vecs /\ ListsTyped'
          /\ \A w \in DOMAIN vecs : vecs'[w] = Deleted => vecs[w] = Deleted
          /\ \A w \in DOMAIN vecs :
                vecs[w] = Deleted /\ w # v[k] => vecs'[w] = Deleted
      BY <1>3, <2>4, NotDeleted, IsSeqChanges DEF ListsTyped, Longer
    <3>2. v[k] = stack[b + k].val
      BY <1>2, <1>4
    <3> QED  BY <1>2, <1>3, <2>1, <2>2, <3>1, <3>2
  <2> QED  BY <1>4, <2>3, <2>4 DEF K, ListStep
<1>5. CASE K = {} /\ rule.lhs \notin ListSymbols /\ vecs' = vecs
  <2>1. A = B /\ A' = B
    BY <1>1, <1>5 DEF Only
  <2> QED  BY <1>2, <1>3, <1>5, <2>1 DEF ListsTyped
<1>6. CASE /\ K = {k} /\ rule.lhs \notin ListSymbols
           /\ vecs' = Emptied(vecs, v[k])
  <2>1. A = B \cup {b + k} /\ A' = B
    BY <1>1, <1>6 DEF Only
  <2>2. v[k] = stack[b + k].val /\ b + k \notin B
    BY <1>2, <1>6
  <2>3. ListsTyped' /\ DOMAIN vecs' = DOMAIN vecs
    BY <1>3, <1>6, NotDeleted, IsSeqChanges DEF ListsTyped, Emptied
  <2> QED  BY <1>2, <1>3, <1>6, <2>1, <2>2, <2>3 DEF Emptied
<1>7. CASE /\ K = {} /\ rule.lhs \in ListSymbols
           /\ val = Len(vecs) + 1 /\ vecs' = Append(vecs, <<x>>)
  <2>1. A = B /\ A' = B \cup {b + 1}
    BY <1>1, <1>7 DEF Only
  <2>2. /\ Len(vecs) \in Nat /\ DOMAIN vecs = 1..Len(vecs)
        /\ IsSeq(vecs') /\ DOMAIN vecs' = 1..Len(vecs) + 1
        /\ vecs'[Len(vecs) + 1] = <<x>>
        /\ \A w \in DOMAIN vecs : vecs'[w] = vecs[w]
    <3>1. IsSeq(vecs') /\ Len(vecs') = Len(vecs) + 1 /\ Len(vecs) \in Nat
      BY <1>3, <1>7, IsSeqChanges DEF ListsTyped
    <3>2. DOMAIN vecs' = 1..Len(vecs') /\ DOMAIN vecs = 1..Len(vecs)
      BY <1>3, <3>1, IsSeqChanges DEF ListsTyped
    <3>3. IsSeq(vecs)
      BY <1>3 DEF ListsTyped
    <3> DEFINE y == <<x>>
    <3> HIDE DEF y
    <3>4. /\ \A i \in 1..Len(vecs) : Append(vecs, y)[i] = vecs[i]
          /\ Append(vecs, y)[Len(vecs) + 1] = y
      BY <3>3, AppendIs
    <3>5. vecs' = Append(vecs, y)
      BY <1>7 DEF y
    <3> QED  BY <3>1, <3>2, <3>4, <3>5 DEF y
  <2> DEFINE N == Len(vecs) + 1
  <2>4. /\ DOMAIN vecs' = DOMAIN vecs \cup {N} /\ N \notin DOMAIN vecs
        /\ vecs'[N] = <<x>> /\ stack'[b + 1].val = N
    <3>1. /\ 1..Len(vecs) + 1 = (1..Len(vecs)) \cup {Len(vecs) + 1}
          /\ Len(vecs) + 1 \notin 1..Len(vecs)
      BY <2>2, OneMore
    <3> QED  BY <1>2, <1>7, <2>2, <3>1
  <2> HIDE DEF N
  <2>3. ListsTyped' /\ <<x>> # Deleted
    <3>1. <<x>> # Deleted /\ IsSeq(<<x>>)
      BY NotDeleted
    <3>2. \A w \in DOMAIN vecs : IsSeq(vecs[w])
      BY <1>3 DEF ListsTyped
    <3>3. \A w \in DOMAIN vecs' : IsSeq(vecs'[w])
      BY <2>2, <2>4, <3>1, <3>2
    <3> QED  BY <2>2, <3>1, <3>3 DEF ListsTyped
  <2>5. \A i \in B : /\ stack'[i].val \in DOMAIN vecs'
                    /\ vecs'[stack'[i].val] # Deleted
                    /\ stack'[i].val # N
    <3>1. \A w \in DOMAIN vecs : vecs'[w] = vecs[w]
      BY <2>2
    <3> QED  BY <1>2, <1>3, <2>1, <2>4, <3>1
  <2>6. \A i \in A' : /\ stack'[i].val \in DOMAIN vecs'
                     /\ vecs'[stack'[i].val] # Deleted
    BY <2>1, <2>2, <2>3, <2>4, <2>5
  <2>7. \A i, j \in A' : stack'[i].val = stack'[j].val => i = j
    BY <1>2, <1>3, <2>1, <2>4, <2>5
  <2>8. \A w \in DOMAIN vecs' :
           vecs'[w] = Deleted \/ \E i \in A' : stack'[i].val = w
    <3>1. \A w \in DOMAIN vecs : vecs'[w] = vecs[w]
      BY <2>2
    <3> QED  BY <1>2, <1>3, <2>1, <2>4, <3>1
  <2> QED  BY <2>3, <2>6, <2>7, <2>8
<1> QED  BY <1>4, <1>5, <1>6, <1>7 DEF K, ListStep

LEMMA DefsStep ==
    ASSUME DefsMade, NEW rule, NEW b, NEW v, NEW val,
           Handled(rule, b, v, val), rule.lhs \in DefSymbols => val # nullptr
    PROVE  DefsMade'
<1>1. /\ Held(DefSymbols)' =
            Below(b, DefSymbols) \cup Only(b + 1, rule.lhs \in DefSymbols)
      /\ Below(b, DefSymbols) \subseteq Held(DefSymbols)
  BY DEF Handled
<1>2. /\ \A i \in Below(b, DefSymbols) : stack'[i].val = stack[i].val
      /\ stack'[b + 1].val = val
  BY DEF Handled, Below
<1> QED  BY <1>1, <1>2 DEF DefsMade, Only

-----------------------------------------------------------------------------
(* The steps of the parser.                                                   *)

LEMMA NothingElse ==
    ASSUME Owned
    PROVE  IsHeap(Heap) /\ Heap.texts = texts /\ Heap.vecs = vecs
BY DEF Owned, NothingLeaks, IsHeap, Heap

LEMMA Reduction ==
    ASSUME PathOK, Reduce
    PROVE  \E r \in DOMAIN Rules \ {AcceptRule} : \E b, v, did :
              /\ Handled(Rules[r], b, v, did.val)
              /\ did = Action(Heap, Rules[r].do, v)
              /\ PathOK' /\ EntryAt(Len(stack))' = Rules[r].lhs
              /\ texts' = did.heap.texts /\ vecs' = did.heap.vecs
              /\ node' = did.heap.node /\ misused' = did.heap.misused
              /\ result' # "accepted"
<1>1. PICK r \in At(Top.state).reduces :
         LET rule == Bison.rules[r]
             below == SubSeq(stack, 1, Len(stack) - Len(rule.rhs))
         IN  \E v \in {Values(Len(rule.rhs))} :
             \E did \in {Action(Heap, rule.do, v)} :
                /\ stack' = Append(below,
                       [state |-> At(Last(below).state).goto[rule.lhs],
                        val |-> did.val])
                /\ texts' = did.heap.texts /\ vecs' = did.heap.vecs
                /\ node' = did.heap.node /\ misused' = did.heap.misused
                /\ result' \in {"error", "none"}
  BY DEF Reduce
<1> DEFINE rule == Rules[r]
           n == Len(rule.rhs)
<1>0. PICK b, v, did : /\ b = Len(stack) - n /\ v = Values(n)
                         /\ did = Action(Heap, rule.do, v)
  OBVIOUS
<1>2. /\ r \in DOMAIN Rules /\ n \in Nat /\ b \in 1..Len(stack)
      /\ \A k \in 1..n : EntryAt(b + k) = rule.rhs[k]
      /\ <<r, 0>> \in Items(stack[b].state)
      /\ DOMAIN rule.rhs = 1..n /\ Len(stack) \in Nat
  BY <1>0, Handle, RuleTyped, StackTyped
<1>3. r # AcceptRule
  <2>1. At(Top.state).reduces # {AcceptRule} /\ Top.state \in States
    <3>1. At(Top.state).reduces # {AcceptRule}
      BY DEF Reduce, Reducible
    <3>2. Len(stack) \in 1..Len(stack)
      BY StackTyped
    <3> HIDE DEF rule, n
    <3>3. stack[Len(stack)].state \in States
      BY <3>2, StackTyped
    <3> QED  BY <3>1, <3>3, TopIs
  <2>2. \A q \in At(Top.state).reduces : q = r
    BY <2>1, StateTable
  <2>3. r \in At(Top.state).reduces
    BY <1>1
  <2> DEFINE R == At(Top.state).reduces
  <2> HIDE DEF R, rule, n
  <2>4. R = {r}
    BY <2>2, <2>3 DEF R
  <2> QED  BY <2>1, <2>4 DEF R
<1>4. stack[b].state \in States
  BY <1>2, StackTyped
<1>5. rule.lhs \in DOMAIN At(stack[b].state).goto
  BY <1>2, <1>3, <1>4, StateTable
<1>6. Last(SubSeq(stack, 1, b)) = stack[b]
  <2>1. b \in 0..Len(stack) /\ b \in 1..b
    BY <1>2
  <2>2. Len(SubSeq(stack, 1, b)) = b /\ SubSeq(stack, 1, b)[b] = stack[b]
    BY <2>1, PrefixIs DEF PathOK
  <2> QED  BY <2>2 DEF Last
<1>7. /\ stack' = Append(SubSeq(stack, 1, b),
                        [state |-> At(stack[b].state).goto[rule.lhs],
                         val |-> did.val])
      /\ texts' = did.heap.texts /\ vecs' = did.heap.vecs
      /\ node' = did.heap.node /\ misused' = did.heap.misused
      /\ result' \in {"error", "none"}
  BY <1>1, <1>6, <1>0, RulesOfBison
<1>8. \A k \in 1..n : v[k] = stack[b + k].val
  BY <1>2, <1>0 DEF Values
<1>9. /\ PathOK' /\ Len(stack') = b + 1 /\ \A i \in 1..b : stack'[i] = stack[i]
      /\ stack'[b + 1].val = did.val /\ EntryAt(b + 1)' = rule.lhs
  <2> DEFINE X == rule.lhs
             val == did.val
  <2>1. /\ b \in 1..Len(stack) /\ X \in DOMAIN At(stack[b].state).goto
        /\ stack' = Append(SubSeq(stack, 1, b),
                       [state |-> At(stack[b].state).goto[X], val |-> val])
    BY <1>2, <1>5, <1>7
  <2> HIDE DEF X, val, rule, n
  <2>2. /\ PathOK' /\ Len(stack') = b + 1 /\ \A i \in 1..b : stack'[i] = stack[i]
        /\ stack'[b + 1].val = val /\ EntryAt(b + 1)' = X
    BY <2>1, PathGoesOn
  <2> QED  BY <2>2 DEF X, val
<1>10. Handled(rule, b, v, did.val)
  <2>1. b \in Nat /\ b >= 1 /\ Len(stack) = b + n
    BY <1>2, <1>0
  <2> DEFINE X == rule.lhs
             rhs == rule.rhs
  <2>2. \A S : Held(S)' = Below(b, S) \cup Only(b + 1, X \in S)
    <3> HIDE DEF X
    <3> QED  BY <1>9, <2>1, HeldAfter DEF X
  <2>5. \A S : Held(S) = Below(b, S) \cup {b + k : k \in Places(rhs, S)}
    <3>1. /\ n \in Nat /\ DOMAIN rhs = 1..n
          /\ \A k \in 1..n : EntryAt(b + k) = rhs[k]
      BY <1>2
    <3> HIDE DEF rhs, n
    <3> QED  BY <2>1, <3>1, HeldBefore
  <2>3. \A i \in 1..b : stack'[i].val = stack[i].val
    BY <1>9
  <2>4. DOMAIN rule.rhs \subseteq Nat \ {0}
    BY <1>2
  <2> QED  BY <1>2, <1>8, <1>9, <2>2, <2>3, <2>4, <2>5 DEF Handled
<1>11. EntryAt(Len(stack))' = rule.lhs
  BY <1>9 DEF EntryAt
<1> QED  BY <1>2, <1>3, <1>7, <1>9, <1>10, <1>11, <1>0

Freeing == DefActions \cup {"lval", "unary", "func", "binary"}
Using == {"decl", "push_back", "constDecl"}

LEMMA ActionKinds ==
    /\ Actions =
         DOMAIN PassedOn \cup Plain \cup Freeing \cup Using \cup {"defs"}
    /\ \A do \in Plain : FreedAt(do) = {} /\ UsedAt(do) = {}
    /\ \A do \in Freeing : UsedAt(do) = {} /\ \E k : FreedAt(do) = {k}
    /\ \A do \in Using : FreedAt(do) = {} /\ \E k : UsedAt(do) = {k}
    /\ FreedAt("defs") = {} /\ UsedAt("defs") = {}
    /\ (Plain \cup Using \cup {"defs"}) \cap DefActions = {}
    /\ (Plain \cup Freeing \cup {"decl"})
          \cap {"defs", "push_back", "constDecl"} = {}
    /\ (Plain \cup Freeing \cup Using \cup {"defs"}) \cap DOMAIN PassedOn = {}
<1>1. DOMAIN PassedOn = {"first", "second"}
  BY DEF PassedOn
<1>2. Actions = DOMAIN PassedOn \cup Plain \cup Freeing \cup Using \cup {"defs"}
  BY <1>1
  DEF Actions, Plain, Freeing, Using, DefActions, DeclActions, ExpActions
<1>3. \A do \in Plain : FreedAt(do) = {} /\ UsedAt(do) = {}
  BY DEF Plain, FreedAt, UsedAt, StmtActions
<1>4. \A do \in Freeing : UsedAt(do) = {} /\ \E k : FreedAt(do) = {k}
  BY DEF Freeing, DefActions, FreedAt, UsedAt
<1>5. \A do \in Using : FreedAt(do) = {} /\ \E k : UsedAt(do) = {k}
  BY DEF Using, FreedAt, UsedAt
<1>6. FreedAt("defs") = {} /\ UsedAt("defs") = {}
  BY DEF FreedAt, UsedAt
<1>7. /\ (Plain \cup Using \cup {"defs"}) \cap DefActions = {}
      /\ (Plain \cup Freeing \cup {"decl"})
            \cap {"defs", "push_back", "constDecl"} = {}
      /\ (Plain \cup Freeing \cup Using \cup {"defs"}) \cap DOMAIN PassedOn = {}
  BY <1>1 DEF Plain, Freeing, Using, DefActions, StmtActions
<1> QED  BY <1>2, <1>3, <1>4, <1>5, <1>6, <1>7

\* What a production and its action agree on, for the actions that are there.
LEMMA Agreement ==
    ASSUME NEW r \in DOMAIN Rules \ {AcceptRule}
    PROVE  LET rule == Rules[r]
               do == rule.do
           IN  /\ do \in Actions
               /\ do \in DOMAIN PassedOn =>
                     /\ rule.lhs \notin DefSymbols
                     /\ PassedOn[do] \in DOMAIN rule.rhs
                     /\ Places(rule.rhs, TextSymbols)
                           = Only(PassedOn[do], rule.lhs \in TextSymbols)
                     /\ Places(rule.rhs, ListSymbols)
                           = Only(PassedOn[do], rule.lhs \in ListSymbols)
               /\ do \notin DOMAIN PassedOn =>
                     /\ Places(rule.rhs, TextSymbols) = FreedAt(do)
                     /\ Places(rule.rhs, ListSymbols) = UsedAt(do)
                     /\ rule.lhs \notin TextSymbols
                     /\ rule.lhs \in ListSymbols
                           <=> do \in {"defs", "push_back", "constDecl"}
                     /\ rule.lhs \in DefSymbols => do \in DefActions
                     /\ do = "defs" => 1 \in Places(rule.rhs, DefSymbols)
                     /\ do = "push_back" => 3 \in Places(rule.rhs, DefSymbols)
BY ActionsAgree DEF Agree, DefActions

(* What the actions "first" and "second" hand on.                             *)
LEMMA PassedPlaces == PassedOn["first"] = 1 /\ PassedOn["second"] = 2
BY DEF PassedOn

LEMMA FirstPasses ==
    ASSUME NEW H, NEW v
    PROVE  Action(H, "first", v) = Gives(H, v[1])
BY DEF Action, DeclActions, StmtActions

LEMMA SecondPasses ==
    ASSUME NEW H, NEW v
    PROVE  Action(H, "second", v) = Gives(H, v[2])
BY DEF Action, DeclActions, StmtActions

LEMMA ReductionOwns ==
    ASSUME Owned, NEW r \in DOMAIN Rules \ {AcceptRule}, NEW b, NEW v, NEW did,
           Handled(Rules[r], b, v, did.val),
           did = Action(Heap, Rules[r].do, v),
           texts' = did.heap.texts, vecs' = did.heap.vecs,
           UNCHANGED <<yychar, tokens>>
    PROVE  IsHeap(did.heap) /\ TextsOwned' /\ ListsOwned' /\ DefsMade'
<1> DEFINE rule == Rules[r]
           do == rule.do
           textAt == Places(rule.rhs, TextSymbols)
           listAt == Places(rule.rhs, ListSymbols)
<1>1. /\ IsHeap(Heap) /\ Heap.texts = texts /\ Heap.vecs = vecs
      /\ TextsOwned /\ ListsOwned /\ DefsMade /\ IsSeq(vecs)
  BY NothingElse DEF Owned, ListsOwned
<1>2. \A k \in textAt : v[k] \in texts
  BY <1>1 DEF Handled, TextsOwned, Places
<1>3. \A k \in listAt : vecs[v[k]] # Deleted
  BY <1>1 DEF Handled, ListsOwned, Places
<1>4. \A k \in Places(rule.rhs, DefSymbols) : v[k] # nullptr
  BY <1>1 DEF Handled, DefsMade, Places
<1> HIDE DEF rule
<1>5. CASE do \in DOMAIN PassedOn
  <2> DEFINE k == PassedOn[do]
  <2>1. /\ rule.lhs \notin DefSymbols
        /\ textAt = Only(k, rule.lhs \in TextSymbols)
        /\ listAt = Only(k, rule.lhs \in ListSymbols)
    BY <1>5, Agreement DEF rule
  <2>2. did.heap = Heap /\ did.val = v[k]
    <3>1. do \in {"first", "second"}
      BY <1>5 DEF PassedOn
    <3>2. did = Action(Heap, do, v)
      BY DEF rule
    <3> HIDE DEF do
    <3>3. CASE do = "first"
      <4>1. k = 1
        BY <3>3, PassedPlaces
      <4>2. did = Gives(Heap, v[1])
        BY <3>2, <3>3, FirstPasses
      <4> QED  BY <4>1, <4>2 DEF Gives
    <3>4. CASE do = "second"
      <4>1. k = 2
        BY <3>4, PassedPlaces
      <4>2. did = Gives(Heap, v[2])
        BY <3>2, <3>4, SecondPasses
      <4> QED  BY <4>1, <4>2 DEF Gives
    <3> QED  BY <3>1, <3>3, <3>4
  <2>3. texts' = texts /\ vecs' = vecs
    BY <1>1, <2>2
  <2> HIDE DEF k, do
  <2>4. TextsOwned'
    BY <1>1, <2>1, <2>2, <2>3, TextsStep DEF rule, Only
  <2>5. ListsOwned'
    <3>1. 1 # nullptr
      BY DEF nullptr
    <3>2. \/ listAt = {k} /\ rule.lhs \in ListSymbols
          \/ listAt = {} /\ rule.lhs \notin ListSymbols
      BY <2>1 DEF Only
    <3>3. ListStep(Rules[r], v, did.val, 1, k)
      BY <2>2, <2>3, <3>2 DEF ListStep, rule
    <3> QED  BY <1>1, <3>1, <3>3, ListsStep
  <2>6. DefsMade'
    BY <1>1, <2>1, DefsStep DEF rule
  <2> QED  BY <1>1, <2>2, <2>4, <2>5, <2>6
<1> DEFINE other == /\ textAt = FreedAt(do) /\ listAt = UsedAt(do)
                    /\ rule.lhs \notin TextSymbols
                    /\ rule.lhs \in ListSymbols
                          <=> do \in {"defs", "push_back", "constDecl"}
                    /\ rule.lhs \in DefSymbols => do \in DefActions
                    /\ do = "defs" => 1 \in Places(rule.rhs, DefSymbols)
                    /\ do = "push_back" => 3 \in Places(rule.rhs, DefSymbols)
<1>6. do \notin DOMAIN PassedOn => other
  BY Agreement DEF rule
<1>7. CASE do \in Plain
  <2>1. /\ other /\ FreedAt(do) = {} /\ UsedAt(do) = {}
        /\ rule.lhs \notin ListSymbols \cup DefSymbols
    BY <1>6, <1>7, ActionKinds
  <2>2. IsHeap(did.heap) /\ texts' = texts /\ vecs' = vecs
    BY <1>1, <1>7, PlainHeap DEF rule, Same
  <2> HIDE DEF do
  <2>3. TextsOwned' /\ DefsMade'
    BY <1>1, <2>1, <2>2, TextsStep, DefsStep DEF rule
  <2>4. ListsOwned'
    <3>1. 1 # nullptr
      BY DEF nullptr
    <3>2. ListStep(Rules[r], v, did.val, 1, 1)
      BY <2>1, <2>2 DEF ListStep, rule
    <3> QED  BY <1>1, <3>1, <3>2, ListsStep
  <2> QED  BY <2>2, <2>3, <2>4
<1>8. CASE do \in Freeing
  <2>1. /\ other /\ UsedAt(do) = {} /\ rule.lhs \notin ListSymbols
    BY <1>6, <1>8, ActionKinds
  <2>2. PICK k : FreedAt(do) = {k}
    BY <1>8, ActionKinds
  <2>3. /\ Freed(Heap, did.heap, v[k])
        /\ do \in DefActions => did.val # nullptr
    <3>1. k \in FreedAt(do) /\ v[k] \in texts
      BY <1>2, <2>1, <2>2
    <3> QED  BY <1>1, <3>1, FreeingHeap DEF rule
  <2>4. IsHeap(did.heap) /\ texts' = texts \ {v[k]} /\ vecs' = vecs
    BY <1>1, <2>3 DEF Freed
  <2> HIDE DEF do
  <2>5. TextsOwned'
    BY <1>1, <2>1, <2>2, <2>4, TextsStep DEF rule
  <2>6. DefsMade'
    BY <1>1, <2>1, <2>3, DefsStep DEF rule
  <2>7. ListsOwned'
    <3>1. 1 # nullptr
      BY DEF nullptr
    <3>2. ListStep(Rules[r], v, did.val, 1, 1)
      BY <2>1, <2>4 DEF ListStep, rule
    <3> QED  BY <1>1, <3>1, <3>2, ListsStep
  <2> QED  BY <2>4, <2>5, <2>6, <2>7
<1>9. CASE do \in Using
  <2>1. other /\ FreedAt(do) = {} /\ rule.lhs \notin DefSymbols
    BY <1>6, <1>9, ActionKinds
  <2>2. PICK k : UsedAt(do) = {k}
    BY <1>9, ActionKinds
  <2>3. /\ IsHeap(did.heap) /\ texts' = texts
        /\ do = "decl" => vecs' = Emptied(vecs, v[k])
        /\ do = "push_back" =>
              did.val = v[k] /\ vecs' = Longer(vecs, v[k], v[3])
        /\ do = "constDecl" => did.val = v[k] /\ vecs' = vecs
    <3>1. k \in UsedAt(do) /\ vecs[v[k]] # Deleted
      BY <1>3, <2>1, <2>2
    <3>2. Heap.vecs[v[k]] # Deleted /\ IsHeap(Heap)
      BY <1>1, <3>1
    <3>3. did = Action(Heap, do, v)
      BY DEF rule
    <3> HIDE DEF do
    <3>4. /\ IsHeap(did.heap) /\ did.heap.texts = Heap.texts
          /\ do = "decl" => did.heap.vecs = Emptied(Heap.vecs, v[k])
          /\ do = "push_back" =>
                did.val = v[k] /\ did.heap.vecs = Longer(Heap.vecs, v[k], v[3])
          /\ do = "constDecl" => did.val = v[k] /\ did.heap.vecs = Heap.vecs
      BY <3>1, <3>2, <3>3, ListHeap
    <3> QED  BY <1>1, <3>4
  <2>4. TextsOwned' /\ DefsMade'
    BY <1>1, <2>1, <2>3, TextsStep, DefsStep DEF rule
  <2>5. 1 # nullptr /\ (do = "push_back" => v[3] # nullptr)
    BY <1>4, <2>1 DEF nullptr
  <2>6. ListsOwned'
    <3> DEFINE x == IF do = "push_back" THEN v[3] ELSE 1
    <3>1. x # nullptr
      BY <2>5
    <3>2. ListStep(Rules[r], v, did.val, x, k)
      <4>1. CASE do = "decl"
        BY <2>1, <2>2, <2>3, <4>1 DEF ListStep, rule
      <4>2. CASE do = "push_back"
        BY <2>1, <2>2, <2>3, <4>2 DEF ListStep, rule
      <4>3. CASE do = "constDecl"
        BY <2>1, <2>2, <2>3, <4>3 DEF ListStep, rule
      <4> QED  BY <1>9, <4>1, <4>2, <4>3 DEF Using
    <3> HIDE DEF x
    <3> QED  BY <1>1, <3>1, <3>2, ListsStep
  <2> QED  BY <2>3, <2>4, <2>6
<1>10. CASE do = "defs"
  <2>1. /\ other /\ FreedAt(do) = {} /\ UsedAt(do) = {}
        /\ rule.lhs \in ListSymbols /\ rule.lhs \notin DefSymbols
    BY <1>6, <1>10, ActionKinds
  <2>2. /\ IsHeap(did.heap) /\ texts' = texts
        /\ vecs' = Append(vecs, <<v[1]>>) /\ did.val = Len(vecs) + 1
    BY <1>1, <1>10, NewListHeap DEF rule
  <2>3. v[1] # nullptr
    BY <1>4, <1>10, <2>1
  <2> HIDE DEF do
  <2>4. TextsOwned' /\ DefsMade'
    BY <1>1, <2>1, <2>2, TextsStep, DefsStep DEF rule
  <2>5. ListsOwned'
    <3>1. ListStep(Rules[r], v, did.val, v[1], 1)
      BY <2>1, <2>2 DEF ListStep, rule
    <3> QED  BY <1>1, <2>3, <3>1, ListsStep
  <2> QED  BY <2>2, <2>4, <2>5
<1>11. do \in Actions
  BY Agreement DEF rule
<1> HIDE DEF do
<1> QED  BY <1>5, <1>7, <1>8, <1>9, <1>10, <1>11, ActionKinds

\* Neither side of a reduction is the end of the input.
LEMMA Owned_Reduce == ASSUME Owned, Reduce PROVE Owned'
<1>1. PICK r \in DOMAIN Rules \ {AcceptRule} : \E b, v, did :
        /\ Handled(Rules[r], b, v, did.val)
        /\ did = Action(Heap, Rules[r].do, v)
        /\ PathOK' /\ EntryAt(Len(stack))' = Rules[r].lhs
        /\ texts' = did.heap.texts /\ vecs' = did.heap.vecs
        /\ node' = did.heap.node /\ misused' = did.heap.misused
        /\ result' # "accepted"
  BY Reduction DEF Owned
<1>2. PICK b, v, did :
        /\ Handled(Rules[r], b, v, did.val)
        /\ did = Action(Heap, Rules[r].do, v)
        /\ PathOK' /\ EntryAt(Len(stack))' = Rules[r].lhs
        /\ texts' = did.heap.texts /\ vecs' = did.heap.vecs
        /\ node' = did.heap.node /\ misused' = did.heap.misused
        /\ result' # "accepted"
  BY <1>1
<1>3. UNCHANGED <<input, ahead, tokens, yychar>>
  BY DEF Reduce
<1>4. IsHeap(did.heap) /\ TextsOwned' /\ ListsOwned' /\ DefsMade'
  BY <1>2, <1>3, ReductionOwns
<1>5. LexOK'
  <2>1. "$end" \in Tokens /\ Rules[r].lhs \notin Tokens
    BY RuleTyped, GrammarAssumption DEF Tokens
  <2> QED  BY <1>2, <1>3, <2>1 DEF LexOK, Owned
<1> QED  BY <1>2, <1>4, <1>5 DEF Owned, IsHeap, NothingLeaks, Accepted

LEMMA Owned_Shift == ASSUME Owned, Shift PROVE Owned'
<1> DEFINE L == Len(stack)
<1>1. /\ PathOK /\ LexOK /\ TextsOwned /\ ListsOwned /\ DefsMade /\ IsSeq(node)
      /\ NothingLeaks /\ result = "none"
  BY DEF Owned, Shift
<1>2. /\ L \in Nat /\ L >= 1 /\ stack[L].state \in States /\ Top = stack[L]
  BY <1>1, StackTyped, TopIs
<1>3. /\ yychar \in Tokens /\ yychar \in DOMAIN At(stack[L].state).goto
      /\ stack' = Append(stack, [state |-> At(stack[L].state).goto[yychar],
                                val |-> Len(tokens)])
      /\ yychar' = "none"
      /\ UNCHANGED <<input, ahead, tokens, texts, vecs, node, misused, result>>
  BY <1>2, StateTable DEF Shift
<1>4. SubSeq(stack, 1, L) = stack
  BY <1>1, <1>2 DEF PathOK, IsSeq
<1>5. PICK m, X : m = L /\ X = yychar
  OBVIOUS
<1>6. /\ PathOK' /\ Len(stack') = m + 1 /\ \A i \in 1..m : stack'[i] = stack[i]
      /\ stack'[m + 1].val = Len(tokens) /\ EntryAt(m + 1)' = X
  <2>1. /\ PathOK /\ m \in 1..Len(stack) /\ X \in DOMAIN At(stack[m].state).goto
    BY <1>1, <1>2, <1>3, <1>5
  <2>2. stack' = Append(SubSeq(stack, 1, m),
                       [state |-> At(stack[m].state).goto[X],
                        val |-> Len(tokens)])
    BY <1>3, <1>4, <1>5
  <2>3. PICK val : val = Len(tokens)
    OBVIOUS
  <2> QED  BY <2>1, <2>2, <2>3, PathGoesOn
<1>7. \A S : Held(S)' = Held(S) \cup Only(m + 1, X \in S)
  <2>1. \A S : Held(S) = Below(m, S)
    BY <1>5 DEF Held, Below
  <2>2. \A S : Held(S)' = Below(m, S) \cup Only(m + 1, X \in S)
    BY <1>2, <1>5, <1>6, HeldAfter
  <2> QED  BY <2>1, <2>2
<1>8. \A S : \A i \in Held(S) : stack'[i].val = stack[i].val /\ i # m + 1
  BY <1>2, <1>5, <1>6 DEF Held
<1>9. /\ X \in TextSymbols <=> X \in Texts
      /\ X \notin ListSymbols /\ X \notin DefSymbols
  BY <1>3, <1>5, GrammarAssumption
<1>10. "none" \notin Tokens /\ "none" \notin Texts
  BY GrammarAssumption DEF Tokens
<1>11. TextsOwned'
  <2> DEFINE A == Held(TextSymbols)
             n == Len(tokens)
  <2>1. /\ texts = {stack[i].val : i \in A} \cup Looked
        /\ \A i \in A : stack[i].val \in (1..n) \ Looked
        /\ \A i, j \in A : stack[i].val = stack[j].val => i = j
    BY <1>1 DEF TextsOwned, OneEach
  <2>2. Looked' = {} /\ Looked = Only(n, X \in Texts)
    BY <1>3, <1>5, <1>10 DEF Looked, Only
  <2>3. n \in Nat /\ n # 0
    BY <1>1, <1>3, <1>10 DEF LexOK
  <2>4. A' = A \cup Only(m + 1, X \in Texts)
    BY <1>7, <1>9
  <2>5. \A i \in A : stack'[i].val = stack[i].val /\ i # m + 1
    BY <1>8
  <2>6. stack'[m + 1].val = n /\ texts' = texts /\ tokens' = tokens
    BY <1>3, <1>6
  <2> SUFFICES /\ texts' = {stack'[i].val : i \in A'} \cup Looked'
               /\ \A i \in A' : stack'[i].val \in (1..n) \ Looked'
               /\ \A i, j \in A' : stack'[i].val = stack'[j].val => i = j
    BY <2>6 DEF TextsOwned, OneEach
  <2> HIDE DEF A, n
  <2>7. CASE X \in Texts
    <3>1. A' = A \cup {m + 1} /\ Looked = {n}
      BY <2>2, <2>4, <2>7 DEF Only
    <3> QED  BY <2>1, <2>2, <2>3, <2>5, <2>6, <3>1
  <2>8. CASE X \notin Texts
    <3>1. A' = A /\ Looked = {}
      BY <2>2, <2>4, <2>8 DEF Only
    <3> QED  BY <2>1, <2>2, <2>5, <2>6, <3>1
  <2> QED  BY <2>7, <2>8
<1>12. ListsOwned' /\ DefsMade'
  <2>1. /\ Held(ListSymbols)' = Held(ListSymbols)
        /\ Held(DefSymbols)' = Held(DefSymbols)
    BY <1>7, <1>9 DEF Only
  <2>2. /\ \A i \in Held(ListSymbols) : stack'[i].val = stack[i].val
        /\ \A i \in Held(DefSymbols) : stack'[i].val = stack[i].val
    BY <1>8
  <2>3. ListsOwned'
    <3> DEFINE A == Held(ListSymbols)
    <3>1. /\ IsSeq(vecs) /\ \A v \in DOMAIN vecs : IsSeq(vecs[v])
          /\ \A i \in A :
            stack[i].val \in DOMAIN vecs /\ vecs[stack[i].val] # Deleted
          /\ \A i, j \in A : stack[i].val = stack[j].val => i = j
          /\ \A v \in DOMAIN vecs :
                vecs[v] = Deleted \/ \E i \in A : stack[i].val = v
      BY <1>1 DEF ListsOwned, OneEach
    <3>2. A' = A /\ vecs' = vecs /\ \A i \in A : stack'[i].val = stack[i].val
      BY <1>3, <2>1, <2>2
    <3> SUFFICES
          /\ \A i \in A' :
                stack'[i].val \in DOMAIN vecs /\ vecs[stack'[i].val] # Deleted
          /\ \A i, j \in A' : stack'[i].val = stack'[j].val => i = j
          /\ \A v \in DOMAIN vecs :
                vecs[v] = Deleted \/ \E i \in A' : stack'[i].val = v
      BY <3>1, <3>2 DEF ListsOwned, OneEach
    <3> HIDE DEF A
    <3> QED  BY <3>1, <3>2
  <2> QED  BY <1>1, <2>1, <2>2, <2>3 DEF DefsMade
<1>13. LexOK'
  BY <1>1, <1>3 DEF LexOK
<1> QED
  BY <1>1, <1>3, <1>6, <1>11, <1>12, <1>13 DEF Owned, NothingLeaks, Accepted

LEMMA Owned_Lex == ASSUME Owned, Lex PROVE Owned'
<1>1. PICK phrase \in Continuations :
        /\ yychar' = phrase[1] /\ tokens' = Append(tokens, phrase[1])
        /\ texts' = IF phrase[1] \in Texts
                    THEN texts \cup {Len(tokens) + 1} ELSE texts
        /\ ahead' = Tail(phrase)
  BY DEF Lex
<1>2. /\ UNCHANGED <<input, stack, vecs, node, misused, result>>
      /\ result = "none" /\ yychar = "none" /\ At(Top.state).shifts # {}
  BY DEF Lex, Consistent
<1>3. /\ PathOK /\ LexOK /\ TextsOwned /\ ListsOwned /\ DefsMade /\ IsSeq(node)
      /\ NothingLeaks
  BY DEF Owned
<1>4. phrase \in Seq(Tokens) /\ phrase # <<>>
  <2>1. CASE ahead # <<>>
    BY <1>3, <2>1 DEF Continuations, LexOK
  <2>2. CASE phrase \in input.phrases
    BY <1>3, <2>2, InputsAssumption DEF LexOK
  <2>3. CASE phrase \in {<<"bad">>, <<"$end">>}
    <3>1. "bad" \in Tokens /\ "$end" \in Tokens
      BY DEF Tokens, Single
    <3>2. \A t \in Tokens : <<t>> \in Seq(Tokens) /\ <<t>> # <<>>
      OBVIOUS
    <3> QED  BY <2>3, <3>1, <3>2
  <2> QED  BY <2>1, <2>2, <2>3 DEF Continuations
<1>5. phrase[1] \in Tokens /\ Tail(phrase) \in Seq(Tokens)
  BY <1>4
<1>6. /\ tokens \in Seq(Tokens) /\ Len(tokens) \in Nat
      /\ tokens' \in Seq(Tokens) /\ Len(tokens') = Len(tokens) + 1
  BY <1>1, <1>3, <1>5 DEF LexOK
<1>7. \A S : Held(S)' = Held(S)
  BY <1>2 DEF Held, EntryAt
<1>8. TextsOwned'
  <2> DEFINE A == Held(TextSymbols)
             n == Len(tokens)
  <2>1. /\ texts = {stack[i].val : i \in A} \cup Looked
        /\ \A i \in A : stack[i].val \in (1..n) \ Looked
        /\ \A i, j \in A : stack[i].val = stack[j].val => i = j
    BY <1>3 DEF TextsOwned, OneEach
  <2>2. Looked' = Only(n + 1, phrase[1] \in Texts) /\ Looked = {}
    <3>1. "none" \notin Texts
      BY GrammarAssumption DEF Tokens
    <3> QED  BY <1>1, <1>2, <1>6, <3>1 DEF Looked, Only
  <2>3. A' = A /\ texts' = texts \cup Only(n + 1, phrase[1] \in Texts)
    BY <1>1, <1>7 DEF Only
  <2>4. \A i \in 1..n : i \in 1..n + 1 /\ i # n + 1
    BY <1>6
  <2> SUFFICES /\ texts' = {stack'[i].val : i \in A'} \cup Looked'
               /\ \A i \in A' : stack'[i].val \in (1..n + 1) \ Looked'
               /\ \A i, j \in A' : stack'[i].val = stack'[j].val => i = j
    BY <1>6 DEF TextsOwned, OneEach
  <2> HIDE DEF A, n
  <2> QED  BY <1>2, <2>1, <2>2, <2>3, <2>4 DEF Only
<1>9. ListsOwned' /\ DefsMade' /\ PathOK'
  BY <1>2, <1>3, <1>7
  DEF ListsOwned, DefsMade, OneEach, PathOK, OnPath, EntryAt
<1>10. LexOK'
  <2>1. ~(Len(stack) > 1 /\ EntryAt(Len(stack)) = "$end")
    <3> SUFFICES ASSUME Len(stack) > 1, EntryAt(Len(stack)) = "$end"
                 PROVE  FALSE
      OBVIOUS
    <3>1. /\ stack[Len(stack)].state \in States /\ Len(stack) \in 2..Len(stack)
          /\ Len(stack) - 1 \in 1..Len(stack)
      BY <1>3, StackTyped
    <3>2. /\ OnPath(Len(stack)) /\ stack[Len(stack) - 1].state \in States
      BY <1>3, <3>1 DEF PathOK
    <3>3. stack[Len(stack)].state # FirstState
      BY <3>2, GotoTable DEF OnPath
    <3> QED  BY <1>2, <3>1, <3>3, StateTable, TopIs DEF EntryAt
  <2>2. tokens' # <<>>
    BY <1>6
  <2> QED  BY <1>1, <1>2, <1>3, <1>5, <1>6, <2>1, <2>2 DEF LexOK, EntryAt
<1> QED
  BY <1>2, <1>3, <1>8, <1>9, <1>10 DEF Owned, NothingLeaks, Accepted

\* The end of the input lies on the whole program, which owns nothing.
LEMMA Owned_Accept == ASSUME Owned, Accept PROVE Owned'
<1>1. /\ PathOK /\ LexOK /\ TextsOwned /\ ListsOwned /\ DefsMade /\ IsSeq(node)
      /\ NothingLeaks /\ AcceptRule \in At(Top.state).reduces
      /\ result' = "accepted"
      /\ UNCHANGED <<input, ahead, tokens, yychar, stack, texts, vecs, node,
                     misused>>
  BY DEF Owned, Accept, Return
<1> DEFINE rhs == <<"CompUnit", "$end">>
           L == Len(stack)
<1>2. Rules[AcceptRule].rhs = rhs /\ Len(rhs) = 2
  BY FirstTable
<1>3. /\ L - 2 \in 1..L /\ AcceptRule \in DOMAIN Rules
      /\ \A k \in 1..2 : EntryAt(L - 2 + k) = rhs[k]
      /\ <<AcceptRule, 0>> \in Items(stack[L - 2].state)
  <2> HIDE DEF rhs
  <2>1. Len(Rules[AcceptRule].rhs) = 2
    BY <1>2
  <2> QED  BY <1>1, <1>2, <2>1, Handle
<1>4. L \in Nat /\ stack[L - 2].state \in States
  BY <1>1, <1>3, StackTyped
<1>5. stack[L - 2].state = FirstState
  BY <1>3, <1>4, StateTable
<1>6. L - 2 = 1 /\ L = 3
  <2>1. L - 2 \in 1..L
    BY <1>3
  <2>2. CASE L - 2 \in 2..L
    <3>1. L - 2 - 1 \in 1..L
      BY <1>4, <2>2
    <3>2. OnPath(L - 2) /\ stack[L - 2 - 1].state \in States
      BY <1>1, <2>2, <3>1, StackTyped DEF PathOK
    <3> QED  BY <1>5, <3>2, GotoTable DEF OnPath
  <2> HIDE DEF L
  <2> QED  BY <1>4, <2>1, <2>2
<1>7. Held(TextSymbols) = {} /\ Held(ListSymbols) = {}
  <2>1. EntryAt(2) = "CompUnit" /\ EntryAt(3) = "$end"
    <3>1. EntryAt(1 + 1) = rhs[1] /\ EntryAt(1 + 2) = rhs[2]
      BY <1>3, <1>6
    <3> QED  BY <3>1
  <2>2. "CompUnit" \notin TextSymbols /\ "CompUnit" \notin ListSymbols
    <3>1. "CompUnit" \in NonTerminals
      BY DEF NonTerminals
    <3>2. "CompUnit" \notin Texts
      BY <3>1, GrammarAssumption DEF Tokens
    <3> QED  BY <3>2 DEF TextSymbols, ListSymbols
  <2>3. "$end" \notin TextSymbols /\ "$end" \notin ListSymbols
    BY GrammarAssumption DEF TextSymbols, ListSymbols
  <2>4. 2..3 = {2, 3}
    OBVIOUS
  <2> QED  BY <1>6, <2>1, <2>2, <2>3, <2>4 DEF Held
<1>8. Looked = {}
  <2>1. "none" \notin Texts
    BY GrammarAssumption DEF Tokens
  <2>2. yychar = "none"
    <3>1. EntryAt(3) = rhs[2]
      BY <1>3, <1>6
    <3> QED  BY <1>1, <1>6, <3>1 DEF LexOK
  <2> QED  BY <2>1, <2>2 DEF Looked
<1>9. texts = {} /\ \A v \in DOMAIN vecs : vecs[v] = Deleted
  BY <1>1, <1>7, <1>8 DEF TextsOwned, ListsOwned
<1>10. /\ PathOK' /\ LexOK' /\ TextsOwned' /\ ListsOwned' /\ DefsMade'
       /\ IsSeq(node)'
  BY <1>1 DEF PathOK, OnPath, EntryAt, LexOK, TextsOwned, ListsOwned, DefsMade,
              Held, Looked, OneEach
<1>11. NothingLeaks'
  BY <1>1, <1>9 DEF NothingLeaks
<1> QED  BY <1>10, <1>11 DEF Owned

LEMMA Owned_Same ==
    ASSUME Owned,
           UNCHANGED <<input, ahead, tokens, yychar, stack, texts, vecs, node,
                       misused>>,
           result' = "accepted" => result = "accepted"
    PROVE  Owned'
<1>1. /\ PathOK' /\ LexOK' /\ TextsOwned' /\ ListsOwned' /\ DefsMade'
      /\ IsSeq(node)'
  BY DEF Owned, PathOK, OnPath, EntryAt, LexOK, TextsOwned, ListsOwned,
         DefsMade, Held, Looked, OneEach
<1> QED  BY <1>1 DEF Owned, NothingLeaks, Accepted

\* A parser that has not begun.
Empty ==
    /\ input \in Inputs /\ ahead \in Seq(Tokens) /\ tokens = <<>>
    /\ yychar = "none" /\ stack = <<[state |-> FirstState, val |-> nullptr]>>
    /\ texts = {} /\ vecs = <<>> /\ node = <<>> /\ ~misused /\ result = "none"

LEMMA Owned_Empty == Empty => Owned
<1> SUFFICES ASSUME Empty PROVE Owned
  OBVIOUS
<1>1. /\ stack \in Seq({[state |-> FirstState, val |-> nullptr]})
      /\ Len(stack) = 1 /\ stack[1].state = FirstState
  BY DEF Empty
<1>2. IsSeq(stack) /\ IsSeq(<<>>)
  <2>1. <<>> \in Seq({})
    OBVIOUS
  <2> QED  BY <1>1, <2>1, SeqIs
<1>3. PathOK
  <2>1. stack # <<>> /\ 2..Len(stack) = {} /\ 1..Len(stack) = {1}
    BY <1>1
  <2> QED  BY <1>1, <1>2, <2>1, FirstTable DEF PathOK
<1>4. \A S : Held(S) = {}
  BY <1>1 DEF Held
<1>5. LexOK
  BY <1>1 DEF LexOK, Empty
<1>6. Looked = {}
  <2>1. "none" \notin Texts
    BY GrammarAssumption DEF Tokens
  <2> QED  BY <2>1 DEF Looked, Empty
<1>7. TextsOwned /\ DefsMade
  BY <1>4, <1>6 DEF TextsOwned, DefsMade, OneEach, Empty
<1>8. ListsOwned
  <2>1. vecs = <<>> /\ DOMAIN vecs = {}
    BY DEF Empty
  <2> QED  BY <1>2, <1>4, <2>1 DEF ListsOwned, OneEach
<1> QED
  BY <1>2, <1>3, <1>5, <1>7, <1>8 DEF Owned, NothingLeaks, Accepted, Empty

\* The compiler process starts the parser anew, and runs it in one stage.
LEMMA Owned_Step == ASSUME Owned, [DriverNext]_vars PROVE Owned'
<1>1. CASE StartByHand \/ StartTest
  <2>1. ParserReset
    BY <1>1 DEF StartByHand, StartTest, Start
  <2>2. Empty'
    BY <2>1, InputsAssumption DEF ParserReset, Empty, Owned, LexOK
  <2> QED  BY <2>2, Owned_Empty, PTL
<1>2. CASE Parse
  <2>1. CASE Accept
    BY <2>1, Owned_Accept
  <2>2. CASE SyntaxError
    BY <2>2, Owned_Same DEF SyntaxError, Return
  <2> QED
    BY <1>2, <2>1, <2>2, Owned_Lex, Owned_Shift, Owned_Reduce
    DEF Parse, ParserNext
<1>3. CASE UNCHANGED parseVars
  BY <1>3, Owned_Same DEF parseVars
<1>4. [DriverNext]_vars =>
        \/ StartByHand \/ StartTest \/ Parse
        \/ UNCHANGED parseVars
  BY DEF DriverNext, Compiler, Runner, Timeouts, Program, ByHandEnds, Compared,
         OpenInput, Parsed, EndPass, MakeType, MadeValue, MakeInPass, OpenDump,
         WriteDump, ReturnZero, ExitMain, TearDown, Gone, CompileFailed,
         Compiled, MakeFails, MakeRuns, CompileTimeout, RunTimeout, Writes,
         OrphanEnds, Count, Dies, vars
<1> QED  BY <1>1, <1>2, <1>3, <1>4

\* Whatever the source, no text the lexer has copied and no list of definitions
\* is used after it was freed or freed twice, and a program that is accepted
\* leaves none behind (the free and delete of each action of SysY.y).
THEOREM EachTextIsFreedOnce == DriverSpec => []NothingLeaks
<1>1. DriverInit => Owned
  <2> SUFFICES ASSUME DriverInit PROVE Empty
    BY Owned_Empty
  <2>1. <<>> \in Seq(Tokens)
    OBVIOUS
  <2> QED  BY <2>1 DEF DriverInit, ParserInit, Empty
<1>2. Owned /\ [DriverNext]_vars => Owned'
  BY Owned_Step
<1>3. Owned => NothingLeaks
  BY DEF Owned
<1> QED  BY <1>1, <1>2, <1>3, PTL DEF DriverSpec

-----------------------------------------------------------------------------
(* The process and the test runner.                                           *)

\* The parser, the arena and what passes make change nothing of the process.
Inner ==
    \/ Parse \/ MakeType \/ MadeValue \/ ExitMain \/ TearDown
    \/ \E T \in IRTypes : MakeInPass(T)

LEMMA InnerIsQuiet == Inner => UNCHANGED driverVars
BY DEF Inner, Parse, MakeType, MadeValue, ExitMain, TearDown, MakeInPass

LEMMA DumpStages == DOMAIN Dumps = {"ast", "koopa", "asm"}
BY DEF Dumps

-----------------------------------------------------------------------------
(* The output that is run.                                                    *)

\* Where the process is once the dump of the assembly is behind it.
Behind == {"return", "exit", "gone", "make", "run"}
Own(file) == file = [of |-> turn, whole |-> TRUE]

DriverTyped ==
    /\ stage \in {"idle", "main", "yyparse"} \cup Behind \cup Passes
                 \cup DOMAIN Dumps
    /\ fp \in {"closed", "open", "failed"}
    /\ out \in [Outputs -> [of : Nat, whole : BOOLEAN]]
    /\ turn \in Nat /\ lost \in BOOLEAN

\* A compiler that run_test.py has started goes through all the passes, so an
\* exit status of zero says that the dump of the assembly is behind it. A
\* process that dies has another one.
Produced ==
    /\ DriverTyped
    /\ argv.test => argv.mode = "asm" /\ argv.flag = "-f"
    /\ stage \in {"make", "run"} => argv.test /\ status = "zero"
    /\ fp = "failed" => lost
    /\ stage = "asm" /\ fp = "open" =>
          out["out.S"] = [of |-> turn, whole |-> FALSE]
    /\ argv.test /\ status = "zero" /\ stage \in Behind =>
          lost \/ Own(out["out.S"])
    /\ stage \in {"main", "yyparse"} => status = "none"
    /\ stage \in {"main", "yyparse"} \cup Passes => fp = "closed"
    /\ RunsOwnOutput

LEMMA Produced_Init == DriverInit => Produced
<1> SUFFICES ASSUME DriverInit PROVE Produced
  OBVIOUS
<1>1. /\ stage = "idle" /\ turn = 0 /\ fp = "closed" /\ lost = FALSE
      /\ argv.test = FALSE /\ ran.turn = 0
      /\ out = [f \in Outputs |-> [of |-> 0, whole |-> TRUE]]
  BY DEF DriverInit
<1>2. out \in [Outputs -> [of : Nat, whole : BOOLEAN]]
  BY <1>1
<1>3. DriverTyped
  BY <1>1, <1>2 DEF DriverTyped
<1> QED  BY <1>1, <1>3 DEF Produced, Behind, RunsOwnOutput

LEMMA Produced_Same ==
    ASSUME Produced, UNCHANGED <<stage, turn, argv, status, fp, out, lost, ran>>
    PROVE  Produced'
BY DEF Produced, DriverTyped, Own, RunsOwnOutput

\* A new process, which has not succeeded yet.
LEMMA Produced_Start ==
    ASSUME Produced, NEW mode, NEW flag, NEW test,
           Start(mode, flag, test),
           test => mode = "asm" /\ flag = "-f"
    PROVE  Produced'
<1>1. /\ stage' = "main" /\ status' = "none" /\ fp' = "closed"
      /\ lost' = FALSE /\ turn' = turn + 1 /\ UNCHANGED <<out, ran>>
      /\ argv'.test = test /\ argv'.mode = mode /\ argv'.flag = flag
  BY DEF Start
<1>2. DriverTyped' /\ RunsOwnOutput'
  <2>1. DriverTyped'
    <3>1. stage' = "main" /\ fp' = "closed" /\ lost' = FALSE /\ out' = out
      BY <1>1
    <3>2. turn' \in Nat
      BY <1>1 DEF Produced, DriverTyped
    <3> QED  BY <3>1, <3>2 DEF Produced, DriverTyped
  <2>2. RunsOwnOutput'
    BY <1>1 DEF Produced, RunsOwnOutput
  <2> QED  BY <2>1, <2>2
<1> QED  BY <1>1, <1>2 DEF Produced, Behind, Passes

\* A process that dies has another status than zero.
LEMMA Produced_Dies ==
    ASSUME Produced, NEW how \in {"abort", "timeout"}, Dies(how)
    PROVE  Produced'
<1>1. /\ stage' = "gone" /\ status' # "zero"
      /\ UNCHANGED <<turn, argv, fp, out, lost, ran>>
  BY DEF Dies
<1>2. DriverTyped' /\ RunsOwnOutput'
  BY <1>1 DEF Produced, DriverTyped, Behind, RunsOwnOutput
<1> QED  BY <1>1, <1>2 DEF Produced, Passes

LEMMA Produced_Passes ==
    ASSUME Produced, OpenInput \/ Parsed \/ EndPass
    PROVE  Produced'
<1>1. CASE OpenInput
  <2>1. CASE Step("yyparse") /\ stage = "main"
    BY <2>1 DEF Produced, DriverTyped, Behind, Own, RunsOwnOutput, Step
  <2> QED  BY <1>1, <2>1, Produced_Dies DEF OpenInput
<1>2. CASE Parsed
  BY <1>2 DEF Produced, DriverTyped, Behind, Own, RunsOwnOutput, Parsed, genAST,
              Passes
<1>3. CASE EndPass
  <2>1. CASE stage \in Passes /\ Step(AfterPass(stage))
    <3>1. stage' \in {"constProp", "ast", "koopa", "asm"} /\ fp' = fp
      BY <2>1 DEF Step, AfterPass, Passes
    <3> QED
      BY <2>1, <3>1, DumpStages
      DEF Produced, DriverTyped, Behind, Own, RunsOwnOutput, Step, Passes
  <2> QED  BY <1>3, <2>1, Produced_Dies DEF EndPass
<1> QED  BY <1>1, <1>2, <1>3

LEMMA Produced_Dumps ==
    ASSUME Produced, OpenDump \/ WriteDump \/ ReturnZero \/ Gone
    PROVE  Produced'
<1>1. CASE OpenDump
  <2>1. /\ stage \in {"ast", "koopa", "asm"}
        /\ UNCHANGED <<stage, turn, argv, status, ran>>
    BY <1>1, DumpStages DEF OpenDump
  <2>2. CASE /\ out' = [out EXCEPT
                           ![Dumps[stage]] = [of |-> turn, whole |-> FALSE]]
             /\ fp' = "open" /\ UNCHANGED lost
    <3>1. stage = "asm" => Dumps[stage] = "out.S"
      BY DEF Dumps
    <3>2. out' \in [Outputs -> [of : Nat, whole : BOOLEAN]]
      BY <2>2 DEF Produced, DriverTyped
    <3>3. stage = "asm" => out'["out.S"] = [of |-> turn, whole |-> FALSE]
      BY <2>2, <3>1 DEF Produced, DriverTyped, Outputs
    <3> QED
      BY <2>1, <2>2, <3>2, <3>3
      DEF Produced, DriverTyped, Behind, RunsOwnOutput, Passes
  <2>3. CASE fp' = "failed" /\ lost' = TRUE /\ UNCHANGED out
    BY <2>1, <2>3 DEF Produced, DriverTyped, Behind, RunsOwnOutput, Passes
  <2> QED  BY <1>1, <2>2, <2>3 DEF OpenDump
<1>2. CASE WriteDump
  <2>1. /\ stage \in {"ast", "koopa", "asm"}
        /\ UNCHANGED <<turn, argv, status, ran>>
        /\ dumpFile => fp # "closed"
        /\ fp' = "closed" /\ stage' = AfterDump(stage)
    BY <1>2, DumpStages DEF WriteDump
  <2>2. /\ stage' \in {"genIR", "genASM", "return"}
        /\ stage' = "return" /\ argv.test => stage = "asm" /\ fp # "closed"
    BY <2>1 DEF AfterDump, genIR, genASM, Produced, dumpFile
  <2>3. CASE /\ out' = IF fp = "open"
                       THEN [out EXCEPT ![Dumps[stage]].whole = TRUE] ELSE out
             /\ UNCHANGED lost
    <3>1. out' \in [Outputs -> [of : Nat, whole : BOOLEAN]]
      BY <2>3 DEF Produced, DriverTyped
    <3>2. stage = "asm" /\ fp = "open" =>
             out'["out.S"] = [of |-> turn, whole |-> TRUE]
      <4> SUFFICES ASSUME stage = "asm", fp = "open"
                   PROVE  out'["out.S"] = [of |-> turn, whole |-> TRUE]
        OBVIOUS
      <4>1. Dumps[stage] = "out.S" /\ "out.S" \in DOMAIN out
        BY DEF Dumps, Produced, DriverTyped, Outputs
      <4>2. out["out.S"] = [of |-> turn, whole |-> FALSE]
        BY DEF Produced
      <4>3. out' = [out EXCEPT !["out.S"].whole = TRUE]
        BY <2>3, <4>1
      <4>4. out'["out.S"] = [out["out.S"] EXCEPT !.whole = TRUE]
        BY <4>1, <4>3
      <4>5. /\ out["out.S"] \in [of : Nat, whole : BOOLEAN]
            /\ out["out.S"].of = turn
        BY <4>2 DEF Produced, DriverTyped
      <4> QED  BY <4>2, <4>4, <4>5
    <3> QED
      BY <2>1, <2>2, <2>3, <3>1, <3>2
      DEF Produced, DriverTyped, Behind, Own, RunsOwnOutput, Passes
  <2>4. CASE fp = "open" /\ lost' = TRUE /\ UNCHANGED out
    BY <2>1, <2>2, <2>4 DEF Produced, DriverTyped, Behind, RunsOwnOutput, Passes
  <2> QED  BY <1>2, <2>3, <2>4 DEF WriteDump
<1>3. CASE ReturnZero
  BY <1>3 DEF Produced, DriverTyped, Behind, Own, RunsOwnOutput, ReturnZero,
              Step, Passes
<1>4. CASE Gone
  BY <1>4 DEF Produced, DriverTyped, Behind, Own, RunsOwnOutput, Gone, Step,
              Passes
<1> QED  BY <1>1, <1>2, <1>3, <1>4

LEMMA Produced_Runner ==
    ASSUME Produced, Runner \/ Compared \/ RunTimeout \/ ByHandEnds
    PROVE  Produced'
<1>1. /\ UNCHANGED <<turn, argv, status, fp, out, lost>>
      /\ stage \in {"gone", "make", "run"}
      /\ stage' \in {"idle", "make", "run"}
  BY DEF Runner, CompileFailed, Compiled, MakeFails, MakeRuns, Compared,
         RunTimeout, ByHandEnds, Count, Step
<1>2. stage' \in {"make", "run"} => argv.test /\ status = "zero"
  BY DEF Runner, CompileFailed, Compiled, MakeFails, MakeRuns, Compared,
         RunTimeout, ByHandEnds, Count, Step, Produced, Succeeded
<1>3. DriverTyped'
  BY <1>1 DEF Produced, DriverTyped, Behind
<1>4. RunsOwnOutput'
  <2>1. CASE MakeRuns
    BY <2>1 DEF MakeRuns, RunsOwnOutput, Produced, Own, Behind
  <2>2. CASE ran' = ran
    BY <2>2 DEF RunsOwnOutput, Produced
  <2> QED
    BY <2>1, <2>2 DEF Runner, CompileFailed, Compiled, MakeFails, Compared,
                      RunTimeout, ByHandEnds, Count, Step
<1> QED  BY <1>1, <1>2, <1>3, <1>4 DEF Produced, Behind, Own, Passes

LEMMA Produced_Step ==
    ASSUME Produced, [DriverNext]_vars
    PROVE  Produced'
<1>1. CASE StartByHand \/ StartTest
  BY <1>1, Produced_Start DEF StartByHand, StartTest
<1>2. CASE Inner \/ UNCHANGED vars
  BY <1>2, InnerIsQuiet, Produced_Same DEF driverVars, vars
<1>3. CASE Program
  BY <1>3, Produced_Same DEF Program, Writes, OrphanEnds
<1>4. CASE CompileTimeout
  BY <1>4, Produced_Dies DEF CompileTimeout
<1> QED
  BY <1>1, <1>2, <1>3, <1>4, Produced_Passes, Produced_Dumps, Produced_Runner
  DEF DriverNext, Compiler, Timeouts, Inner

\* Whatever sources are compiled and whatever goes wrong, make run_asm never
\* picks up the output of another source or half an output, unless a stream
\* failed (check=True in run_test.py:45, the dump of main.cc:96).
THEOREM TestsRunTheirOwnOutput == DriverSpec => []RunsOwnOutput
<1>1. DriverInit => Produced
  BY Produced_Init
<1>2. Produced /\ [DriverNext]_vars => Produced'
  BY Produced_Step
<1>3. Produced => RunsOwnOutput
  BY DEF Produced
<1> QED  BY <1>1, <1>2, <1>3, PTL DEF DriverSpec

-----------------------------------------------------------------------------
(* The log that is compared.                                                  *)

Outcomes == {"success", "failed", "timeout"}
TimedOut(k) ==
    \E j \in 1..Len(tested) : tested[j].turn = k /\ tested[j].how = "timeout"

\* A program is only left running when its time is over, and only a program
\* that runs writes.
Watched ==
    /\ tested \in Seq([turn : Nat, how : Outcomes, read : SUBSET Nat])
    /\ alive \subseteq Nat /\ log \subseteq Nat /\ turn \in Nat
    /\ \A k \in alive : TimedOut(k) \/ (stage = "run" /\ k = turn)
    /\ stage \in {"make", "run"} => \A k \in log : TimedOut(k) \/ k = turn
    /\ ReadsOwnLog

LEMMA Watched_Init == DriverInit => Watched
BY DEF DriverInit, Watched, ReadsOwnLog

LEMMA SameTests ==
    ASSUME tested' = tested
    PROVE  ReadsOwnLog' = ReadsOwnLog /\ \A k : TimedOut(k)' = TimedOut(k)
BY DEF ReadsOwnLog, TimedOut

LEMMA Watched_Same ==
    ASSUME Watched, UNCHANGED <<turn, tested, alive, log>>,
           stage # "run", stage' \notin {"make", "run"} \/ stage' = stage
    PROVE  Watched'
BY SameTests DEF Watched

LEMMA Watched_Count ==
    ASSUME Watched, NEW how \in Outcomes, NEW read, Count(how, read),
           read = {} \/ (stage = "run" /\ read = log),
           alive' = alive \/ alive' = alive \ {turn},
           turn \in alive' /\ stage = "run" => how = "timeout"
    PROVE  Watched'
<1> DEFINE c == [turn |-> turn, how |-> how, read |-> read]
           n == Len(tested)
<1>1. /\ tested' = Append(tested, c) /\ stage' = "idle"
      /\ UNCHANGED <<turn, log>>
  BY DEF Count
<1>2. c \in [turn : Nat, how : Outcomes, read : SUBSET Nat]
  BY DEF Watched
<1>3. /\ tested' \in Seq([turn : Nat, how : Outcomes, read : SUBSET Nat])
      /\ n \in Nat /\ Len(tested') = n + 1 /\ tested'[n + 1] = c
      /\ \A i \in 1..n : tested'[i] = tested[i]
  BY <1>1, <1>2 DEF Watched
<1>4. c.turn = turn /\ c.how = how /\ c.read = read
  OBVIOUS
<1> HIDE DEF c, n
<1>5. \A k : TimedOut(k) => TimedOut(k)'
  BY <1>3 DEF TimedOut, n
<1>6. \A k \in alive' : TimedOut(k)'
  <2> SUFFICES ASSUME NEW k \in alive' PROVE TimedOut(k)'
    OBVIOUS
  <2>1. CASE TimedOut(k)
    BY <1>5, <2>1
  <2>2. CASE stage = "run" /\ k = turn
    BY <1>3, <1>4, <2>2 DEF TimedOut
  <2> QED  BY <2>1, <2>2 DEF Watched
<1>7. ReadsOwnLog'
  <2> SUFFICES ASSUME NEW i \in 1..(n + 1), NEW k \in tested'[i].read
               PROVE  \/ k = tested'[i].turn
                      \/ \E j \in 1..i - 1 : tested'[j].turn = k
                            /\ tested'[j].how = "timeout"
    BY <1>3 DEF ReadsOwnLog
  <2>1. CASE i \in 1..n
    <3>1. /\ tested'[i] = tested[i] /\ i \in DOMAIN tested
          /\ \A j \in 1..i - 1 : tested'[j] = tested[j]
      <4>1. DOMAIN tested = 1..n /\ n \in Nat
        BY <1>3 DEF Watched, n
      <4>2. \A j \in 1..i - 1 : j \in 1..n
        BY <2>1, <4>1
      <4> QED  BY <1>3, <2>1, <4>1, <4>2
    <3>2. k \in tested[i].read
      BY <3>1
    <3>3. \/ k = tested[i].turn
          \/ \E j \in 1..i - 1 : tested[j].turn = k /\ tested[j].how = "timeout"
      BY <3>1, <3>2 DEF Watched, ReadsOwnLog
    <3> QED  BY <3>1, <3>3
  <2>2. CASE i = n + 1
    <3>1. stage = "run" /\ k \in log
      BY <1>3, <1>4, <2>2
    <3>2. TimedOut(k) \/ k = turn
      BY <3>1 DEF Watched
    <3> QED  BY <1>3, <1>4, <2>2, <3>2 DEF TimedOut, n
  <2> QED  BY <1>3, <2>1, <2>2
<1>8. alive' \subseteq Nat /\ log' \subseteq Nat /\ turn' \in Nat
  BY <1>1 DEF Watched
<1> QED  BY <1>1, <1>3, <1>6, <1>7, <1>8 DEF Watched

LEMMA Watched_Step ==
    ASSUME Watched, [DriverNext]_vars
    PROVE  Watched'
<1>1. CASE StartByHand \/ StartTest
  <2>1. /\ stage = "idle" /\ stage' = "main" /\ turn' = turn + 1
        /\ UNCHANGED <<tested, alive, log>>
    BY <1>1 DEF StartByHand, StartTest, Start, logs
  <2> QED  BY <2>1, SameTests DEF Watched
<1>2. CASE Inner \/ UNCHANGED vars
  <2>1. UNCHANGED <<stage, turn, tested, alive, log>>
    BY <1>2, InnerIsQuiet DEF driverVars, vars
  <2> QED  BY <2>1, SameTests DEF Watched
<1>3. CASE Program
  <2>1. PICK k \in alive : Writes(k) \/ OrphanEnds(k)
    BY <1>3 DEF Program
  <2>2. UNCHANGED <<stage, turn, tested>> /\ alive' \subseteq alive
        /\ log' \subseteq log \cup {k}
    BY <2>1 DEF Writes, OrphanEnds
  <2> QED  BY <2>2, SameTests DEF Watched
<1>4. CASE OpenInput \/ Parsed \/ EndPass \/ OpenDump \/ WriteDump \/ ReturnZero
           \/ Gone \/ ByHandEnds \/ CompileTimeout
  <2>1. /\ UNCHANGED <<turn, tested, alive, log>> /\ stage # "run"
        /\ stage' \notin {"make", "run"}
    BY <1>4, DumpStages
    DEF OpenInput, Parsed, EndPass, OpenDump, WriteDump, ReturnZero, Gone,
        ByHandEnds, CompileTimeout, Step, Dies, AfterPass, AfterDump, Passes,
        logs
  <2> QED  BY <2>1, Watched_Same
<1>5. CASE Compiled
  BY <1>5, SameTests DEF Compiled, OpenLog, Watched
<1>6. CASE MakeRuns
  BY <1>6, SameTests DEF MakeRuns, Watched
<1>7. CASE CompileFailed \/ MakeFails
  <2>1. Count("failed", {}) /\ alive' = alive /\ stage # "run"
    BY <1>7 DEF CompileFailed, MakeFails
  <2> QED  BY <2>1, Watched_Count DEF Outcomes
<1>8. CASE RunTimeout
  <2>1. Count("timeout", {}) /\ alive' = alive
    BY <1>8 DEF RunTimeout
  <2> QED  BY <2>1, Watched_Count DEF Outcomes
<1>9. CASE Compared
  <2>1. PICK same \in {"success", "failed"} : Count(same, log)
    BY <1>9 DEF Compared
  <2>2. stage = "run" /\ alive' = alive \ {turn}
    BY <1>9 DEF Compared
  <2> QED  BY <2>1, <2>2, Watched_Count DEF Outcomes
<1> QED
  BY <1>1, <1>2, <1>3, <1>4, <1>5, <1>6, <1>7, <1>8, <1>9
  DEF DriverNext, Compiler, Timeouts, Inner, Runner

\* In whatever order programs start, write, end and run out of time, the output
\* compared for a source is its own, but for a program that was left running
\* when its own time was over (subprocess.run in run_test.py:59 kills make).
THEOREM LogsAreTheirOwn == DriverSpec => []ReadsOwnLog
<1>1. DriverInit => Watched
  BY Watched_Init
<1>2. Watched /\ [DriverNext]_vars => Watched'
  BY Watched_Step
<1>3. Watched => ReadsOwnLog
  BY DEF Watched
<1> QED  BY <1>1, <1>2, <1>3, PTL DEF DriverSpec
=============================================================================
