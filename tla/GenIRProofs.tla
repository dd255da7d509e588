------------------------------ MODULE GenIRProofs ------------------------------
(* The lowering of GenIR, for every program: types, the call stack, and the   *)
(* context of the loops.                                                      *)
EXTENDS GenIR, SequenceTheorems, TLAPS

Ops == {"alloc", "store", "load", "bexpr", "br", "jump", "ret"}
Instrs(n, B) == [op : Ops, def : 0..n, args : Seq(-1..n), to : Seq(1..B)]

-----------------------------------------------------------------------------
(* Blocks.                                                                    *)

Fields == {"list", "instrs", "term", "pre", "next"}

\* A sequence of blocks that name each other; the linked lists have no type.
IsBlocks(bs) ==
    /\ bs \in Seq({bs[b] : b \in DOMAIN bs})
    /\ \A b \in DOMAIN bs :
          /\ DOMAIN bs[b] = Fields
          /\ bs[b].term \in BOOLEAN
          /\ bs[b].pre \in Seq(1..Len(bs)) /\ bs[b].next \in Seq(1..Len(bs))
Code(bs, n) == \A b \in DOMAIN bs : bs[b].instrs \in Seq(Instrs(n, Len(bs)))

HasEnd(seq) == \E i \in DOMAIN seq : IsEnd(seq[i])

\* bs2 is bs with k new blocks, and with seq behind the code of block b.
Extends(bs, bs2, k, b, seq) ==
    /\ IsBlocks(bs2) /\ Len(bs2) = Len(bs) + k
    /\ \A c \in DOMAIN bs2 :
          LET old  == IF c \in DOMAIN bs THEN bs[c].instrs ELSE <<>>
              term == IF c \in DOMAIN bs THEN bs[c].term ELSE FALSE
          IN /\ bs2[c].instrs = IF c = b THEN old \o seq ELSE old
             /\ bs2[c].term = IF c = b THEN term \/ HasEnd(seq) ELSE term

LEMMA BlocksLen ==
    ASSUME NEW bs, IsBlocks(bs)
    PROVE  Len(bs) \in Nat /\ DOMAIN bs = 1..Len(bs)
BY DEF IsBlocks

\* A sequence with the right elements is one of blocks.
LEMMA BlocksFrom ==
    ASSUME NEW S, NEW bs \in Seq(S)
    PROVE  bs \in Seq({bs[b] : b \in DOMAIN bs})
<1> DEFINE R == {bs[b] : b \in DOMAIN bs}
<1>1. Len(bs) \in Nat /\ DOMAIN bs = 1..Len(bs)
  OBVIOUS
<1>2. bs = [b \in 1..Len(bs) |-> bs[b]]
  OBVIOUS
<1>3. \A b \in 1..Len(bs) : bs[b] \in R
  BY <1>1
<1> QED
  BY <1>1, <1>2, <1>3

LEMMA Widened ==
    ASSUME NEW S, NEW T, S \subseteq T, NEW q \in Seq(S)
    PROVE  q \in Seq(T)
OBVIOUS

LEMMA WiderRange ==
    ASSUME NEW a \in Int, NEW m \in Int, NEW n \in Int, m <= n
    PROVE  Seq(a..m) \subseteq Seq(a..n)
<1>1. a..m \subseteq a..n
  OBVIOUS
<1> QED
  BY <1>1

LEMMA CreateGives ==
    ASSUME NEW bs, IsBlocks(bs), NEW k \in Nat
    PROVE  /\ IsBlocks(Create(bs, k))
           /\ Len(Create(bs, k)) = Len(bs) + k
           /\ \A c \in 1..Len(bs) : Create(bs, k)[c] = bs[c]
           /\ \A c \in Len(bs) + 1..Len(bs) + k : Create(bs, k)[c] = EmptyBlock
<1>1. Len(bs) \in Nat /\ DOMAIN bs = 1..Len(bs)
  BY BlocksLen
<1> DEFINE S == {bs[b] : b \in DOMAIN bs} \cup {EmptyBlock}
           new == [i \in 1..k |-> EmptyBlock]
           bs2 == Create(bs, k)
<1>2. bs \in Seq(S) /\ new \in Seq(S) /\ Len(new) = k
  BY DEF IsBlocks
<1>3. /\ bs2 \in Seq(S) /\ Len(bs2) = Len(bs) + k
      /\ \A c \in 1..Len(bs) : bs2[c] = bs[c]
      /\ \A c \in Len(bs) + 1..Len(bs) + k : bs2[c] = EmptyBlock
  <2> HIDE DEF S
  <2> QED
    BY <1>1, <1>2 DEF Create
<1> HIDE DEF S, bs2
<1>4. bs2 \in Seq({bs2[b] : b \in DOMAIN bs2})
  BY <1>3, BlocksFrom
<1>5. DOMAIN bs2 = 1..Len(bs) + k
  BY <1>1, <1>3
<1>6. /\ DOMAIN EmptyBlock = Fields /\ EmptyBlock.term \in BOOLEAN
      /\ EmptyBlock.pre = <<>> /\ EmptyBlock.next = <<>>
  BY DEF EmptyBlock, Fields
<1>7. ASSUME NEW b \in DOMAIN bs2
      PROVE  /\ DOMAIN bs2[b] = Fields
             /\ bs2[b].term \in BOOLEAN
             /\ bs2[b].pre \in Seq(1..Len(bs2)) /\ bs2[b].next \in Seq(1..Len(bs2))
  <2>1. CASE b \in 1..Len(bs)
    <3>1. bs2[b] = bs[b] /\ b \in DOMAIN bs
      BY <1>1, <1>3, <2>1
    <3>2. /\ DOMAIN bs[b] = Fields /\ bs[b].term \in BOOLEAN
          /\ bs[b].pre \in Seq(1..Len(bs)) /\ bs[b].next \in Seq(1..Len(bs))
      BY <3>1 DEF IsBlocks
    <3>3. Seq(1..Len(bs)) \subseteq Seq(1..Len(bs2))
      BY <1>1, <1>3, WiderRange
    <3> QED
      BY <3>1, <3>2, <3>3, Zenon
  <2>2. CASE b \in Len(bs) + 1..Len(bs) + k
    <3>1. bs2[b] = EmptyBlock /\ <<>> \in Seq(1..Len(bs2))
      BY <1>3, <2>2
    <3> QED
      BY <1>6, <3>1, Zenon
  <2> QED
    BY <1>1, <1>5, <2>1, <2>2
<1> QED
  BY <1>3, <1>4, <1>7 DEF IsBlocks, bs2

LEMMA EmitGives ==
    ASSUME NEW bs, IsBlocks(bs), NEW b \in DOMAIN bs, NEW seq
    PROVE  /\ IsBlocks(Emit(bs, b, seq)) /\ Len(Emit(bs, b, seq)) = Len(bs)
           /\ \A c \in DOMAIN bs :
                 /\ Emit(bs, b, seq)[c].instrs
                      = IF c = b THEN bs[c].instrs \o seq ELSE bs[c].instrs
                 /\ Emit(bs, b, seq)[c].term
                      = IF c = b THEN bs[c].term \/ HasEnd(seq) ELSE bs[c].term
<1>1. Len(bs) \in Nat /\ DOMAIN bs = 1..Len(bs)
  BY BlocksLen
<1> DEFINE bs2 == Emit(bs, b, seq)
           S == {bs[c] : c \in DOMAIN bs} \cup {bs2[b]}
<1>2. /\ DOMAIN bs[b] = Fields /\ "instrs" \in Fields /\ "list" \in Fields
      /\ "term" \in Fields
  BY DEF IsBlocks, Fields
<1>3. /\ DOMAIN bs2 = DOMAIN bs /\ DOMAIN bs2[b] = Fields
      /\ \A c \in DOMAIN bs : c # b => bs2[c] = bs[c]
      /\ bs2[b].instrs = bs[b].instrs \o seq
      /\ bs2[b].term = (bs[b].term \/ HasEnd(seq))
      /\ bs2[b].pre = bs[b].pre /\ bs2[b].next = bs[b].next
  BY <1>2 DEF Emit, HasEnd, Fields
<1>4. bs2 = [c \in 1..Len(bs) |-> bs2[c]]
  BY <1>1, <1>3 DEF Emit
<1>5. \A c \in 1..Len(bs) : bs2[c] \in S
  BY <1>1, <1>3
<1> HIDE DEF bs2, S
<1>6. bs2 \in Seq(S) /\ Len(bs2) = Len(bs)
  BY <1>1, <1>4, <1>5
<1>7. bs2 \in Seq({bs2[c] : c \in DOMAIN bs2})
  BY <1>6, BlocksFrom
<1>8. ASSUME NEW c \in DOMAIN bs2
      PROVE  /\ DOMAIN bs2[c] = Fields /\ bs2[c].term \in BOOLEAN
             /\ bs2[c].pre \in Seq(1..Len(bs2)) /\ bs2[c].next \in Seq(1..Len(bs2))
  <2>1. /\ DOMAIN bs[c] = Fields /\ bs[c].term \in BOOLEAN
        /\ bs[c].pre \in Seq(1..Len(bs)) /\ bs[c].next \in Seq(1..Len(bs))
    BY <1>3, <1>8 DEF IsBlocks
  <2>2. CASE c = b
    BY <1>3, <1>6, <2>1, <2>2
  <2>3. CASE c # b
    BY <1>3, <1>6, <1>8, <2>1, <2>3
  <2> QED
    BY <2>2, <2>3
<1> QED
  BY <1>3, <1>6, <1>7, <1>8 DEF IsBlocks, bs2

LEMMA LinkGives ==
    ASSUME NEW bs, IsBlocks(bs), NEW p \in DOMAIN bs, NEW n \in DOMAIN bs
    PROVE  /\ IsBlocks(link_bb(bs, p, n)) /\ Len(link_bb(bs, p, n)) = Len(bs)
           /\ \A c \in DOMAIN bs : /\ link_bb(bs, p, n)[c].instrs = bs[c].instrs
                                   /\ link_bb(bs, p, n)[c].term = bs[c].term
<1>1. Len(bs) \in Nat /\ DOMAIN bs = 1..Len(bs)
  BY BlocksLen
<1> DEFINE mid == [bs EXCEPT ![p].next = Append(@, n)]
           bs2 == [mid EXCEPT ![n].pre = Append(@, p)]
           S == {bs2[c] : c \in DOMAIN bs}
<1>2. \A c \in DOMAIN bs :
         /\ DOMAIN bs[c] = Fields /\ bs[c].term \in BOOLEAN
         /\ bs[c].pre \in Seq(1..Len(bs)) /\ bs[c].next \in Seq(1..Len(bs))
  BY DEF IsBlocks
<1>3. bs2 = link_bb(bs, p, n)
  BY DEF link_bb
<1>4. /\ DOMAIN mid = DOMAIN bs
      /\ \A c \in DOMAIN bs :
            /\ DOMAIN mid[c] = Fields /\ mid[c].instrs = bs[c].instrs
            /\ mid[c].term = bs[c].term /\ mid[c].pre = bs[c].pre
            /\ mid[c].next = IF c = p THEN Append(bs[c].next, n) ELSE bs[c].next
  BY <1>2 DEF Fields
<1>5. /\ DOMAIN bs2 = DOMAIN bs
      /\ \A c \in DOMAIN bs :
            /\ DOMAIN bs2[c] = Fields /\ bs2[c].instrs = bs[c].instrs
            /\ bs2[c].term = bs[c].term /\ bs2[c].next = mid[c].next
            /\ bs2[c].pre = IF c = n THEN Append(bs[c].pre, p) ELSE bs[c].pre
  <2> HIDE DEF mid
  <2> QED
    BY <1>4 DEF Fields
<1>6. bs2 = [c \in 1..Len(bs) |-> bs2[c]]
  <2> HIDE DEF mid
  <2> QED
    BY <1>1, <1>4
<1> HIDE DEF mid, bs2
<1>7. bs2 \in Seq(S) /\ Len(bs2) = Len(bs)
  <2>1. \A c \in 1..Len(bs) : bs2[c] \in S
    BY <1>1
  <2> DEFINE m == Len(bs)
  <2>2. m \in Nat
    BY <1>1
  <2> HIDE DEF S, m
  <2>3. [c \in 1..m |-> bs2[c]] \in Seq(S) /\ Len([c \in 1..m |-> bs2[c]]) = m
    BY <2>1, <2>2 DEF m
  <2> QED
    BY <1>6, <2>3 DEF m
<1>8. bs2 \in Seq({bs2[c] : c \in DOMAIN bs2})
  BY <1>7, BlocksFrom
<1>9. ASSUME NEW c \in DOMAIN bs
      PROVE  bs2[c].next \in Seq(1..Len(bs)) /\ bs2[c].pre \in Seq(1..Len(bs))
  <2>1. /\ bs[c].pre \in Seq(1..Len(bs)) /\ bs[c].next \in Seq(1..Len(bs))
        /\ n \in 1..Len(bs) /\ p \in 1..Len(bs)
    BY <1>1, <1>2
  <2>2. /\ Append(bs[c].pre, p) \in Seq(1..Len(bs))
        /\ Append(bs[c].next, n) \in Seq(1..Len(bs))
    BY <2>1
  <2> QED
    BY <1>4, <1>5, <2>1, <2>2, Zenon
<1> QED
  BY <1>2, <1>3, <1>5, <1>7, <1>8, <1>9 DEF IsBlocks

\* What a statement lowers to: new blocks, instructions, and links.
LEMMA EmitExtendsHere ==
    ASSUME NEW bs, IsBlocks(bs), NEW b \in DOMAIN bs, NEW seq
    PROVE  Extends(bs, Emit(bs, b, seq), 0, b, seq)
<1> DEFINE bs2 == Emit(bs, b, seq)
<1>1. /\ IsBlocks(bs2) /\ Len(bs2) = Len(bs)
      /\ \A c \in DOMAIN bs :
            /\ bs2[c].instrs = IF c = b THEN bs[c].instrs \o seq ELSE bs[c].instrs
            /\ bs2[c].term = IF c = b THEN bs[c].term \/ HasEnd(seq) ELSE bs[c].term
  BY EmitGives
<1> HIDE DEF bs2
<1>2. DOMAIN bs2 = DOMAIN bs /\ Len(bs) \in Nat
  BY <1>1, BlocksLen
<1>3. Len(bs2) = Len(bs) + 0
  BY <1>1, <1>2
<1> QED
  BY <1>1, <1>2, <1>3, Zenon DEF Extends, bs2

LEMMA EmitExtends ==
    ASSUME NEW bs, IsBlocks(bs), NEW k \in Nat, NEW b \in DOMAIN bs, NEW seq
    PROVE  Extends(bs, Emit(Create(bs, k), b, seq), k, b, seq)
<1> DEFINE mid == Create(bs, k)
<1>1. Len(bs) \in Nat /\ DOMAIN bs = 1..Len(bs)
  BY BlocksLen
<1>2. /\ IsBlocks(mid) /\ Len(mid) = Len(bs) + k
      /\ \A c \in 1..Len(bs) : mid[c] = bs[c]
      /\ \A c \in Len(bs) + 1..Len(bs) + k : mid[c] = EmptyBlock
  BY CreateGives
<1> HIDE DEF mid
<1>3. DOMAIN mid = 1..Len(bs) + k /\ b \in DOMAIN mid
  BY <1>1, <1>2, BlocksLen
<1>4. Extends(mid, Emit(mid, b, seq), 0, b, seq)
  BY <1>2, <1>3, EmitExtendsHere
<1> DEFINE bs2 == Emit(mid, b, seq)
<1> HIDE DEF bs2
<1>5. IsBlocks(bs2) /\ Len(bs2) = Len(mid)
  BY <1>2, <1>3, <1>4, BlocksLen DEF Extends, bs2
<1>6. DOMAIN bs2 = DOMAIN mid
  BY <1>2, <1>5, BlocksLen
<1>7. EmptyBlock.instrs = <<>> /\ EmptyBlock.term = FALSE
  BY DEF EmptyBlock
<1>8. ASSUME NEW c \in DOMAIN bs2
      PROVE  /\ mid[c].instrs = IF c \in DOMAIN bs THEN bs[c].instrs ELSE <<>>
             /\ mid[c].term = IF c \in DOMAIN bs THEN bs[c].term ELSE FALSE
  <2>1. CASE c \in 1..Len(bs)
    BY <1>1, <1>2, <2>1, Zenon
  <2>2. CASE c \in Len(bs) + 1..Len(bs) + k
    <3>1. c \notin DOMAIN bs /\ mid[c] = EmptyBlock
      BY <1>1, <1>2, <2>2
    <3> QED
      BY <1>7, <3>1, Zenon
  <2>3. c \in 1..Len(bs) \/ c \in Len(bs) + 1..Len(bs) + k
    BY <1>1, <1>3, <1>6
  <2> QED
    BY <2>1, <2>2, <2>3
<1>9. ASSUME NEW c \in DOMAIN bs2
      PROVE  LET old  == IF c \in DOMAIN bs THEN bs[c].instrs ELSE <<>>
                 term == IF c \in DOMAIN bs THEN bs[c].term ELSE FALSE
             IN /\ bs2[c].instrs = IF c = b THEN old \o seq ELSE old
                /\ bs2[c].term = IF c = b THEN term \/ HasEnd(seq) ELSE term
  <2>1. /\ bs2[c].instrs = IF c = b THEN mid[c].instrs \o seq ELSE mid[c].instrs
        /\ bs2[c].term = IF c = b THEN mid[c].term \/ HasEnd(seq) ELSE mid[c].term
    BY <1>4, <1>6 DEF Extends, bs2
  <2> QED
    BY <1>8, <2>1, Zenon
<1> QED
  BY <1>2, <1>5, <1>9, Zenon DEF Extends, bs2, mid

LEMMA LinkExtends ==
    ASSUME NEW bs, NEW bs2, NEW k \in Nat, NEW b \in DOMAIN bs, NEW seq,
           Extends(bs, bs2, k, b, seq), NEW p \in DOMAIN bs2, NEW n \in DOMAIN bs2
    PROVE  /\ Extends(bs, link_bb(bs2, p, n), k, b, seq)
           /\ DOMAIN link_bb(bs2, p, n) = DOMAIN bs2
<1> DEFINE bs3 == link_bb(bs2, p, n)
<1>1. IsBlocks(bs2)
  BY DEF Extends
<1>2. /\ IsBlocks(bs3) /\ Len(bs3) = Len(bs2)
      /\ \A c \in DOMAIN bs2 : /\ bs3[c].instrs = bs2[c].instrs
                               /\ bs3[c].term = bs2[c].term
  BY <1>1, LinkGives
<1> HIDE DEF bs3
<1>3. DOMAIN bs3 = DOMAIN bs2
  BY <1>1, <1>2, BlocksLen
<1> QED
  BY <1>2, <1>3, Zenon DEF Extends, bs3

LEMMA StayExtends ==
    ASSUME NEW bs, IsBlocks(bs), NEW n, Code(bs, n), NEW b \in DOMAIN bs
    PROVE  Extends(bs, bs, 0, b, <<>>)
<1>1. Len(bs) \in Nat
  BY BlocksLen
<1>2. \A c \in DOMAIN bs : bs[c].instrs \o <<>> = bs[c].instrs
  BY DEF Code
<1>3. \A c \in DOMAIN bs : bs[c].term \in BOOLEAN
  BY DEF IsBlocks
<1>4. ~HasEnd(<<>>)
  BY DEF HasEnd
<1>5. \A c \in DOMAIN bs : bs[c].term = (bs[c].term \/ HasEnd(<<>>))
  BY <1>3, <1>4, Zenon
<1> QED
  BY <1>1, <1>2, <1>5 DEF Extends

-----------------------------------------------------------------------------
(* Instructions.                                                              *)

LEMMA InstrsGrow ==
    ASSUME NEW n \in Nat, NEW B \in Nat, NEW n2 \in Nat, NEW B2 \in Nat,
           n <= n2, B <= B2
    PROVE  Instrs(n, B) \subseteq Instrs(n2, B2)
<1>1. 0..n \subseteq 0..n2
  OBVIOUS
<1>2. Seq(-1..n) \subseteq Seq(-1..n2) /\ Seq(1..B) \subseteq Seq(1..B2)
  BY WiderRange
<1> QED
  BY <1>1, <1>2 DEF Instrs

\* The instructions that are made name the symbols and the blocks they are
\* given.
LEMMA InstrsTyped ==
    ASSUME NEW n \in Nat, NEW B \in Nat
    PROVE  /\ \A s \in 0..n : Alloc(s) \in Instrs(n, B)
           /\ \A v \in -1..n, s \in 0..n : Store(v, s) \in Instrs(n, B)
           /\ \A s, f \in 0..n : Load(s, f) \in Instrs(n, B)
           /\ \A s, v, w \in 0..n : BExpr(s, v, w) \in Instrs(n, B)
           /\ \A v \in 0..n, t, f \in 1..B : Br(v, t, f) \in Instrs(n, B)
           /\ \A b \in 1..B : Jump(b) \in Instrs(n, B)
           /\ \A s \in 0..n : Ret(s) \in Instrs(n, B)
<1>1. 0..n \subseteq -1..n /\ 0 \in 0..n /\ -1 \in -1..n
  OBVIOUS
<1>2. \A v \in -1..n : <<v>> \in Seq(-1..n)
  OBVIOUS
<1>3. \A v, w \in -1..n : <<v, w>> \in Seq(-1..n)
  OBVIOUS
<1>4. <<>> \in Seq(-1..n) /\ <<>> \in Seq(1..B)
  OBVIOUS
<1>5. \A b \in 1..B : <<b>> \in Seq(1..B)
  OBVIOUS
<1>6. \A b, c \in 1..B : <<b, c>> \in Seq(1..B)
  OBVIOUS
<1>7. ASSUME NEW op \in Ops, NEW def \in 0..n, NEW args \in Seq(-1..n),
             NEW to \in Seq(1..B)
      PROVE  Instr(op, def, args, to) \in Instrs(n, B)
  BY DEF Instr, Instrs
<1>8. {"alloc", "store", "load", "bexpr", "br", "jump", "ret"} \subseteq Ops
  BY DEF Ops
<1> QED
  BY <1>1, <1>2, <1>3, <1>4, <1>5, <1>6, <1>7, <1>8, Zenon
  DEF Alloc, Store, Load, BExpr, Br, Jump, Ret, Null

\* Code stays code when symbols and blocks are added.
LEMMA ExtendsCode ==
    ASSUME NEW bs, IsBlocks(bs), NEW n \in Nat, Code(bs, n),
           NEW bs2, NEW k \in Nat, NEW b \in DOMAIN bs, NEW n2 \in Nat, n <= n2,
           NEW seq \in Seq(Instrs(n2, Len(bs) + k)), Extends(bs, bs2, k, b, seq)
    PROVE  Code(bs2, n2)
<1>1. Len(bs) \in Nat /\ DOMAIN bs = 1..Len(bs) /\ Len(bs2) = Len(bs) + k
  BY BlocksLen DEF Extends
<1> DEFINE I == Instrs(n, Len(bs))
           J == Instrs(n2, Len(bs2))
<1>2. I \subseteq J /\ seq \in Seq(J)
  BY <1>1, InstrsGrow
<1>3. \A c \in DOMAIN bs : bs[c].instrs \in Seq(I)
  BY DEF Code
<1> HIDE DEF I, J
<1>4. /\ \A c \in DOMAIN bs : bs[c].instrs \in Seq(J)
      /\ <<>> \in Seq(J) /\ \A old \in Seq(J) : old \o seq \in Seq(J)
  BY <1>2, <1>3
<1>5. \A c \in DOMAIN bs2 : bs2[c].instrs \in Seq(J)
  BY <1>4, Zenon DEF Extends
<1> QED
  BY <1>5 DEF Code, J

-----------------------------------------------------------------------------
(* The call stack.                                                            *)

StmtKinds == {"block", "then", "else", "body"}
HeadKinds == {"init", "exp", "assign", "ret", "if", "while"}
OperandKinds == {"unary", "opnd1", "opnd2", "lhs", "rhs"}
LoopKinds == {"while", "body"}

\* What a visit keeps, when there are n symbols, V variables and B blocks.
Frames(n, V, B) ==
    [k : {"block"}, vis : SUBSET (1..V)]
    \cup [k : {"exp", "ret", "opnd1", "lhs"}]
    \cup [k : {"init", "assign"}, var : 1..V]
    \cup [k : {"if"}, then : BOOLEAN, else : BOOLEAN]
    \cup [k : {"then"}, else : {Null} \cup 3..B, merge : 3..B]
    \cup [k : {"else"}, merge : 3..B]
    \cup [k : LoopKinds, stmt : BOOLEAN, entry : 3..B, body : 3..B,
          merge : 3..B, preEntry : 0..B, preMerge : 0..B]
    \cup [k : {"unary"}, op : {"+", "-", "!"}]
    \cup [k : {"opnd2"}, val1 : 0..n]
    \cup [k : {"rhs"}, ret : 0..n, merge : 3..B]

LEMMA FrameFields ==
    ASSUME NEW n, NEW V, NEW B, NEW f \in Frames(n, V, B)
    PROVE  /\ f.k \in StmtKinds \cup HeadKinds \cup OperandKinds
           /\ f.k = "block" => f.vis \in SUBSET (1..V)
           /\ f.k \in {"init", "assign"} => f.var \in 1..V
           /\ f.k = "if" => f.then \in BOOLEAN /\ f.else \in BOOLEAN
           /\ f.k = "then" => f.else \in {Null} \cup 3..B /\ f.merge \in 3..B
           /\ f.k \in {"else", "rhs"} => f.merge \in 3..B
           /\ f.k \in LoopKinds =>
                 f \in [k : LoopKinds, stmt : BOOLEAN, entry : 3..B, body : 3..B,
                        merge : 3..B, preEntry : 0..B, preMerge : 0..B]
           /\ f.k = "unary" => f.op \in {"+", "-", "!"}
           /\ f.k = "opnd2" => f.val1 \in 0..n
           /\ f.k = "rhs" => f.ret \in 0..n
<1>1. CASE f \in [k : {"block"}, vis : SUBSET (1..V)]
  BY <1>1 DEF StmtKinds, LoopKinds
<1>2. CASE f \in [k : {"exp", "ret", "opnd1", "lhs"}]
  BY <1>2 DEF HeadKinds, OperandKinds, LoopKinds
<1>3. CASE f \in [k : {"init", "assign"}, var : 1..V]
  BY <1>3 DEF HeadKinds, LoopKinds
<1>4. CASE f \in [k : {"if"}, then : BOOLEAN, else : BOOLEAN]
  BY <1>4 DEF HeadKinds, LoopKinds
<1>5. CASE f \in [k : {"then"}, else : {Null} \cup 3..B, merge : 3..B]
  BY <1>5 DEF StmtKinds, LoopKinds
<1>6. CASE f \in [k : {"else"}, merge : 3..B]
  BY <1>6 DEF StmtKinds, LoopKinds
<1>7. CASE f \in [k : LoopKinds, stmt : BOOLEAN, entry : 3..B, body : 3..B,
                  merge : 3..B, preEntry : 0..B, preMerge : 0..B]
  BY <1>7 DEF StmtKinds, HeadKinds, LoopKinds
<1>8. CASE f \in [k : {"unary"}, op : {"+", "-", "!"}]
  BY <1>8 DEF OperandKinds, LoopKinds
<1>9. CASE f \in [k : {"opnd2"}, val1 : 0..n]
  BY <1>9 DEF OperandKinds, LoopKinds
<1>10. CASE f \in [k : {"rhs"}, ret : 0..n, merge : 3..B]
  BY <1>10 DEF OperandKinds, LoopKinds
<1> QED
  BY <1>1, <1>2, <1>3, <1>4, <1>5, <1>6, <1>7, <1>8, <1>9, <1>10 DEF Frames

LEMMA FramesGrow ==
    ASSUME NEW n \in Nat, NEW V \in Nat, NEW B \in Nat,
           NEW n2 \in Nat, NEW V2 \in Nat, NEW B2 \in Nat,
           n <= n2, V <= V2, B <= B2
    PROVE  Frames(n, V, B) \subseteq Frames(n2, V2, B2)
<1>1. /\ 0..n \subseteq 0..n2 /\ 1..V \subseteq 1..V2 /\ 3..B \subseteq 3..B2
      /\ 0..B \subseteq 0..B2
  OBVIOUS
<1> SUFFICES ASSUME NEW f \in Frames(n, V, B)
             PROVE  f \in Frames(n2, V2, B2)
  OBVIOUS
<1>2. CASE f \in [k : {"block"}, vis : SUBSET (1..V)]
  BY <1>1, <1>2 DEF Frames
<1>3. CASE f \in [k : {"exp", "ret", "opnd1", "lhs"}]
  BY <1>3 DEF Frames
<1>4. CASE f \in [k : {"init", "assign"}, var : 1..V]
  BY <1>1, <1>4 DEF Frames
<1>5. CASE f \in [k : {"if"}, then : BOOLEAN, else : BOOLEAN]
  BY <1>5 DEF Frames
<1>6. CASE f \in [k : {"then"}, else : {Null} \cup 3..B, merge : 3..B]
  BY <1>1, <1>6 DEF Frames
<1>7. CASE f \in [k : {"else"}, merge : 3..B]
  BY <1>1, <1>7 DEF Frames
<1>8. CASE f \in [k : LoopKinds, stmt : BOOLEAN, entry : 3..B, body : 3..B,
                  merge : 3..B, preEntry : 0..B, preMerge : 0..B]
  BY <1>1, <1>8 DEF Frames
<1>9. CASE f \in [k : {"unary"}, op : {"+", "-", "!"}]
  BY <1>9 DEF Frames
<1>10. CASE f \in [k : {"opnd2"}, val1 : 0..n]
  BY <1>1, <1>10 DEF Frames
<1>11. CASE f \in [k : {"rhs"}, ret : 0..n, merge : 3..B]
  BY <1>1, <1>11 DEF Frames
<1> QED
  BY <1>2, <1>3, <1>4, <1>5, <1>6, <1>7, <1>8, <1>9, <1>10, <1>11 DEF Frames

LEMMA PushGives ==
    ASSUME NEW F, NEW fs \in Seq(F), NEW f \in F
    PROVE  /\ Append(fs, f) \in Seq(F) /\ Len(Append(fs, f)) = Len(fs) + 1
           /\ \A i \in DOMAIN fs : Append(fs, f)[i] = fs[i]
           /\ Append(fs, f)[Len(fs) + 1] = f
           /\ DOMAIN Append(fs, f) = DOMAIN fs \cup {Len(fs) + 1}
OBVIOUS

Below(fs) == SubSeq(fs, 1, Len(fs) - 1)

LEMMA PopGives ==
    ASSUME NEW F, NEW fs \in Seq(F), fs # <<>>
    PROVE  /\ Below(fs) \in Seq(F) /\ Len(Below(fs)) = Len(fs) - 1
           /\ \A i \in 1..Len(fs) - 1 : Below(fs)[i] = fs[i]
           /\ DOMAIN Below(fs) = 1..Len(fs) - 1
           /\ Len(fs) \in Nat /\ Len(fs) >= 1
<1>1. Len(fs) \in Nat /\ Len(fs) >= 1
  OBVIOUS
<1>2. /\ \A i \in 1..Len(fs) - 1 : i \in DOMAIN fs
      /\ Len(fs) - 1 \in Nat
  BY <1>1
<1> DEFINE n == Len(fs) - 1
<1>3. n \in Int /\ 1 \in Int /\ \A i \in 1..n : fs[i] \in F
  BY <1>1, <1>2
<1> HIDE DEF n
<1>4. /\ SubSeq(fs, 1, n) \in Seq(F)
      /\ Len(SubSeq(fs, 1, n)) = IF 1 <= n THEN n - 1 + 1 ELSE 0
      /\ \A i \in 1..n - 1 + 1 : SubSeq(fs, 1, n)[i] = fs[1 + i - 1]
  BY <1>3, SubSeqProperties
<1>5. Below(fs) = SubSeq(fs, 1, n) /\ n = Len(fs) - 1
  BY DEF Below, n
<1> DEFINE b == Below(fs)
<1> HIDE DEF b
<1>6. b \in Seq(F) /\ Len(b) = n /\ \A i \in 1..n : b[i] = fs[i]
  BY <1>1, <1>4, <1>5 DEF b
<1> QED
  BY <1>1, <1>5, <1>6 DEF b

\* An expression is visited above the statement it is part of, and a statement
\* above statements.
Nested(fs) ==
    /\ \A i, j \in DOMAIN fs :
          i < j /\ fs[i].k \notin StmtKinds => fs[j].k \in OperandKinds
    /\ \A j \in DOMAIN fs :
          fs[j].k \in OperandKinds => j > 1 /\ fs[j - 1].k \notin StmtKinds

\* The stack in mode m.
StackOK(m, fs) ==
    LET top == fs[Len(fs)].k
    IN /\ Nested(fs)
       /\ IF m = "done" THEN fs = <<>> ELSE fs # <<>> /\ fs[1].k = "block"
       /\ m = "next" => top \in StmtKinds
       /\ m = "stmt" => top \in StmtKinds \ {"block"}
       /\ m \in {"exp", "value"} => top \notin StmtKinds

LEMMA Kinds ==
    /\ StmtKinds \cap HeadKinds = {} /\ StmtKinds \cap OperandKinds = {}
    /\ HeadKinds \cap OperandKinds = {}
BY DEF StmtKinds, HeadKinds, OperandKinds

LEMMA PushNested ==
    ASSUME NEW F, NEW fs \in Seq(F), NEW f \in F, Nested(fs), fs # <<>>,
           \/ f.k \in OperandKinds /\ fs[Len(fs)].k \notin StmtKinds
           \/ f.k \notin OperandKinds /\ fs[Len(fs)].k \in StmtKinds
    PROVE  Nested(Append(fs, f))
<1> DEFINE gs == Append(fs, f)
<1>1. /\ \A i \in 1..Len(fs) : gs[i] = fs[i]
      /\ gs[Len(fs) + 1] = f
      /\ DOMAIN gs = 1..Len(fs) + 1 /\ DOMAIN fs = 1..Len(fs)
      /\ Len(fs) \in Nat /\ Len(fs) >= 1
  OBVIOUS
<1> HIDE DEF gs
<1>2. ASSUME NEW i \in 1..Len(fs), fs[i].k \notin StmtKinds
      PROVE  f.k \in OperandKinds
  <2>1. Len(fs) \in DOMAIN fs /\ i \in DOMAIN fs
    BY <1>1
  <2>2. i = Len(fs) \/ fs[Len(fs)].k \in OperandKinds
    BY <1>1, <1>2, <2>1 DEF Nested
  <2> QED
    BY <1>2, <2>2, Kinds
<1>3. \A i, j \in DOMAIN gs :
         i < j /\ gs[i].k \notin StmtKinds => gs[j].k \in OperandKinds
  BY <1>1, <1>2 DEF Nested
<1>4. \A j \in DOMAIN gs :
         gs[j].k \in OperandKinds => j > 1 /\ gs[j - 1].k \notin StmtKinds
  BY <1>1 DEF Nested
<1> QED
  BY <1>3, <1>4 DEF Nested, gs

LEMMA PopNested ==
    ASSUME NEW F, NEW fs \in Seq(F), Nested(fs), fs # <<>>
    PROVE  /\ Nested(Below(fs))
           /\ fs[Len(fs)].k \in OperandKinds =>
                 Len(fs) > 1 /\ fs[Len(fs) - 1].k \notin StmtKinds
           /\ fs[Len(fs)].k \notin OperandKinds =>
                 \A i \in 1..Len(fs) - 1 : fs[i].k \in StmtKinds
<1>1. /\ \A i \in 1..Len(fs) - 1 : Below(fs)[i] = fs[i]
      /\ DOMAIN Below(fs) = 1..Len(fs) - 1 /\ DOMAIN fs = 1..Len(fs)
      /\ Len(fs) \in Nat /\ Len(fs) >= 1
  BY PopGives
<1>2. Nested(Below(fs))
  BY <1>1 DEF Nested
<1>3. Len(fs) \in DOMAIN fs
  BY <1>1
<1> QED
  BY <1>1, <1>2, <1>3 DEF Nested

LEMMA StackPush ==
    ASSUME NEW F, NEW fs \in Seq(F), NEW f \in F, NEW m, NEW m2, StackOK(m, fs),
           \/ m \in {"next", "stmt"} /\ f.k \in HeadKinds /\ m2 = "exp"
           \/ m \in {"next", "stmt"} /\ f.k = "block" /\ m2 = "next"
           \/ m = "exp" /\ f.k \in OperandKinds /\ m2 = "exp"
    PROVE  StackOK(m2, Append(fs, f))
<1>1. /\ fs # <<>> /\ fs[1].k = "block" /\ Nested(fs)
      /\ m \in {"next", "stmt"} => fs[Len(fs)].k \in StmtKinds
      /\ m = "exp" => fs[Len(fs)].k \notin StmtKinds
  BY DEF StackOK
<1>2. /\ f.k \in HeadKinds => f.k \notin StmtKinds /\ f.k \notin OperandKinds
      /\ f.k \in OperandKinds => f.k \notin StmtKinds
      /\ "block" \in StmtKinds /\ "block" \notin OperandKinds
  BY Kinds DEF StmtKinds, OperandKinds
<1>3. Nested(Append(fs, f))
  BY <1>1, <1>2, PushNested
<1>4. /\ Append(fs, f)[Len(Append(fs, f))] = f /\ Append(fs, f) # <<>>
      /\ Append(fs, f)[1] = fs[1]
  BY <1>1
<1> QED
  BY <1>1, <1>2, <1>3, <1>4 DEF StackOK

LEMMA StackPop ==
    ASSUME NEW F, NEW fs \in Seq(F), NEW m, NEW m2, StackOK(m, fs), m # "done",
           \/ /\ m = "value" /\ fs[Len(fs)].k \in HeadKinds
              /\ m2 \in {"next", "crash"}
           \/ /\ m = "value" /\ fs[Len(fs)].k \in OperandKinds
              /\ m2 \in {"value", "crash"}
           \/ m = "next" /\ fs[Len(fs)].k \in StmtKinds \ {"block"} /\ m2 = "next"
           \/ /\ m = "next" /\ fs[Len(fs)].k = "block"
              /\ m2 = IF Len(fs) = 1 THEN "done" ELSE "next"
    PROVE  StackOK(m2, Below(fs))
<1>1. /\ fs # <<>> /\ fs[1].k = "block" /\ Nested(fs)
  BY DEF StackOK
<1>2. /\ \A i \in 1..Len(fs) - 1 : Below(fs)[i] = fs[i]
      /\ Len(Below(fs)) = Len(fs) - 1 /\ Below(fs) \in Seq(F)
      /\ Len(fs) \in Nat /\ Len(fs) >= 1
  BY <1>1, PopGives
<1>3. /\ Nested(Below(fs))
      /\ fs[Len(fs)].k \in OperandKinds =>
            Len(fs) > 1 /\ fs[Len(fs) - 1].k \notin StmtKinds
      /\ fs[Len(fs)].k \notin OperandKinds =>
            \A i \in 1..Len(fs) - 1 : fs[i].k \in StmtKinds
  BY <1>1, PopNested
<1>4. /\ "block" \in StmtKinds /\ "block" \notin HeadKinds /\ "block" \notin OperandKinds
      /\ \A k \in StmtKinds : k \notin OperandKinds
      /\ \A k \in HeadKinds : k \notin OperandKinds
  BY Kinds DEF StmtKinds, HeadKinds, OperandKinds
<1>5. CASE Len(fs) > 1
  <2>1. /\ Below(fs) # <<>> /\ Below(fs)[1] = fs[1]
        /\ Below(fs)[Len(Below(fs))] = fs[Len(fs) - 1]
        /\ Len(fs) - 1 \in 1..Len(fs) - 1
    BY <1>2, <1>5
  <2> QED
    BY <1>1, <1>3, <1>4, <1>5, <2>1 DEF StackOK
<1>6. CASE Len(fs) = 1
  <2>1. Below(fs) = <<>>
    BY <1>2, <1>6
  <2>2. fs[Len(fs)].k = "block"
    BY <1>1, <1>6
  <2> QED
    BY <1>3, <1>4, <1>6, <2>1, <2>2 DEF StackOK
<1> QED
  BY <1>2, <1>5, <1>6

LEMMA StackSwap ==
    ASSUME NEW F, NEW fs \in Seq(F), NEW f \in F, NEW m, NEW m2,
           StackOK(m, fs), m # "done",
           \/ /\ m = "value" /\ fs[Len(fs)].k \in HeadKinds
              /\ f.k \in StmtKinds \ {"block"} /\ m2 \in {"next", "stmt", "crash"}
           \/ /\ m = "value" /\ fs[Len(fs)].k \in OperandKinds
              /\ f.k \in OperandKinds /\ m2 = "exp"
           \/ /\ m = "next" /\ fs[Len(fs)].k \in StmtKinds \ {"block"}
              /\ f.k \in StmtKinds \ {"block"} /\ m2 = "stmt"
    PROVE  StackOK(m2, Append(Below(fs), f))
<1>1. /\ fs # <<>> /\ fs[1].k = "block" /\ Nested(fs)
  BY DEF StackOK
<1>2. /\ \A i \in 1..Len(fs) - 1 : Below(fs)[i] = fs[i]
      /\ Len(Below(fs)) = Len(fs) - 1 /\ Below(fs) \in Seq(F)
      /\ Len(fs) \in Nat /\ Len(fs) >= 1
  BY <1>1, PopGives
<1>3. /\ Nested(Below(fs))
      /\ fs[Len(fs)].k \in OperandKinds => fs[Len(fs) - 1].k \notin StmtKinds
      /\ fs[Len(fs)].k \notin OperandKinds =>
            \A i \in 1..Len(fs) - 1 : fs[i].k \in StmtKinds
  BY <1>1, PopNested
<1>4. /\ "block" \notin HeadKinds /\ "block" \notin OperandKinds
      /\ \A k \in StmtKinds : k \notin OperandKinds
      /\ \A k \in HeadKinds : k \notin OperandKinds
      /\ \A k \in OperandKinds : k \notin StmtKinds
  BY Kinds DEF StmtKinds, HeadKinds, OperandKinds
<1>5. Len(fs) > 1
  <2>1. fs[Len(fs)].k # "block"
    BY <1>4
  <2> QED
    BY <1>1, <1>2, <2>1
<1>6. /\ Below(fs) # <<>> /\ Below(fs)[1] = fs[1]
      /\ Below(fs)[Len(Below(fs))] = fs[Len(fs) - 1]
      /\ Len(fs) - 1 \in 1..Len(fs) - 1
  BY <1>2, <1>5
<1>7. Nested(Append(Below(fs), f))
  BY <1>2, <1>3, <1>4, <1>6, PushNested
<1>8. /\ Append(Below(fs), f)[Len(Append(Below(fs), f))] = f
      /\ Append(Below(fs), f) # <<>> /\ Append(Below(fs), f)[1] = fs[1]
  BY <1>2, <1>6
<1> QED
  BY <1>1, <1>4, <1>7, <1>8 DEF StackOK

-----------------------------------------------------------------------------
(* The context of the loops: the two fields hold the innermost loop on the    *)
(* stack, and each loop keeps the one around it.                              *)

Loops(fs, n) == {i \in DOMAIN fs : i <= n /\ fs[i].k \in LoopKinds}
ContextIs(fs, n, e, m) ==
    IF Loops(fs, n) = {} THEN e = Null /\ m = Null
    ELSE \E i \in Loops(fs, n) :
            /\ \A j \in Loops(fs, n) : j <= i
            /\ e = fs[i].entry /\ m = fs[i].merge
ContextOK(fs, e, m) ==
    /\ ContextIs(fs, Len(fs), e, m)
    /\ \A i \in Loops(fs, Len(fs)) :
          ContextIs(fs, i - 1, fs[i].preEntry, fs[i].preMerge)

\* The context depends on the loops below only.
LEMMA SameContext ==
    ASSUME NEW fs, NEW gs, NEW n \in Nat, NEW e, NEW m,
           1..n \subseteq DOMAIN fs, 1..n \subseteq DOMAIN gs,
           DOMAIN fs \subseteq Nat \ {0}, DOMAIN gs \subseteq Nat \ {0},
           \A i \in 1..n : fs[i] = gs[i],
           ContextIs(fs, n, e, m)
    PROVE  ContextIs(gs, n, e, m)
<1>1. /\ \A i \in DOMAIN fs : i <= n <=> i \in 1..n
      /\ \A i \in DOMAIN gs : i <= n <=> i \in 1..n
  OBVIOUS
<1>2. Loops(fs, n) = Loops(gs, n) /\ Loops(fs, n) \subseteq 1..n
  BY <1>1 DEF Loops
<1>3. \A i \in Loops(gs, n) : fs[i] = gs[i]
  BY <1>2
<1> QED
  BY <1>2, <1>3, Zenon DEF ContextIs

\* A frame that is no loop does not change it.
LEMMA PlainTop ==
    ASSUME NEW fs, NEW n \in Nat, NEW e, NEW m, DOMAIN fs \subseteq Nat,
           n + 1 \in DOMAIN fs => fs[n + 1].k \notin LoopKinds
    PROVE  ContextIs(fs, n + 1, e, m) <=> ContextIs(fs, n, e, m)
<1>1. Loops(fs, n + 1) = Loops(fs, n)
  BY DEF Loops
<1> QED
  BY <1>1, Zenon DEF ContextIs

LEMMA ContextPush ==
    ASSUME NEW F, NEW fs \in Seq(F), NEW f \in F, NEW e, NEW m,
           ContextOK(fs, e, m), f.k \notin LoopKinds
    PROVE  ContextOK(Append(fs, f), e, m)
<1> DEFINE gs == Append(fs, f)
           n == Len(fs)
<1>1. /\ \A i \in 1..n : gs[i] = fs[i]
      /\ gs[n + 1] = f /\ Len(gs) = n + 1
      /\ DOMAIN gs = 1..n + 1 /\ DOMAIN fs = 1..n
      /\ n \in Nat
  BY PushGives
<1> HIDE DEF gs, n
<1>2. ASSUME NEW k \in 0..n, NEW e1, NEW m1, ContextIs(fs, k, e1, m1)
      PROVE  ContextIs(gs, k, e1, m1)
  BY <1>1, <1>2, SameContext
<1>3. ContextIs(fs, n, e, m)
  BY DEF ContextOK, n
<1>4. ContextIs(gs, n + 1, e, m)
  BY <1>1, <1>2, <1>3, PlainTop
<1>5. ASSUME NEW i \in Loops(gs, n + 1)
      PROVE  ContextIs(gs, i - 1, gs[i].preEntry, gs[i].preMerge)
  <2>1. i \in 1..n /\ gs[i] = fs[i] /\ i \in Loops(fs, n)
    BY <1>1 DEF Loops
  <2>2. ContextIs(fs, i - 1, fs[i].preEntry, fs[i].preMerge)
    BY <2>1 DEF ContextOK, n
  <2> QED
    BY <1>1, <1>2, <2>1, <2>2
<1> QED
  BY <1>1, <1>4, <1>5 DEF ContextOK, gs

LEMMA ContextPushLoop ==
    ASSUME NEW F, NEW fs \in Seq(F), NEW f \in F,
           ContextOK(fs, f.preEntry, f.preMerge), f.k \in LoopKinds
    PROVE  ContextOK(Append(fs, f), f.entry, f.merge)
<1> DEFINE gs == Append(fs, f)
           n == Len(fs)
<1>1. /\ \A i \in 1..n : gs[i] = fs[i]
      /\ gs[n + 1] = f /\ Len(gs) = n + 1
      /\ DOMAIN gs = 1..n + 1 /\ DOMAIN fs = 1..n
      /\ n \in Nat
  BY PushGives
<1> HIDE DEF gs, n
<1>2. ASSUME NEW k \in 0..n, NEW e1, NEW m1, ContextIs(fs, k, e1, m1)
      PROVE  ContextIs(gs, k, e1, m1)
  BY <1>1, <1>2, SameContext
<1>3. ContextIs(fs, n, f.preEntry, f.preMerge)
  BY DEF ContextOK, n
<1>4. ContextIs(gs, n + 1, f.entry, f.merge)
  <2>1. n + 1 \in Loops(gs, n + 1) /\ \A j \in Loops(gs, n + 1) : j <= n + 1
    BY <1>1 DEF Loops
  <2> QED
    BY <1>1, <2>1, Zenon DEF ContextIs
<1>5. ASSUME NEW i \in Loops(gs, n + 1)
      PROVE  ContextIs(gs, i - 1, gs[i].preEntry, gs[i].preMerge)
  <2>1. CASE i = n + 1
    <3>1. i - 1 = n /\ gs[i] = f /\ n \in 0..n
      BY <1>1, <2>1
    <3> QED
      BY <1>2, <1>3, <3>1
  <2>2. CASE i # n + 1
    <3>1. i \in 1..n /\ gs[i] = fs[i] /\ i \in Loops(fs, n)
      BY <1>1, <2>2 DEF Loops
    <3>2. ContextIs(fs, i - 1, fs[i].preEntry, fs[i].preMerge)
      BY <3>1 DEF ContextOK, n
    <3> QED
      BY <1>1, <1>2, <3>1, <3>2
  <2> QED
    BY <2>1, <2>2
<1> QED
  BY <1>1, <1>4, <1>5 DEF ContextOK, gs

\* The frame at the top is left: a loop puts its context back.
LEMMA ContextPop ==
    ASSUME NEW F, NEW fs \in Seq(F), NEW e, NEW m, fs # <<>>,
           ContextOK(fs, e, m)
    PROVE  /\ fs[Len(fs)].k \notin LoopKinds => ContextOK(Below(fs), e, m)
           /\ fs[Len(fs)].k \in LoopKinds =>
                 /\ e = fs[Len(fs)].entry /\ m = fs[Len(fs)].merge
                 /\ ContextOK(Below(fs), fs[Len(fs)].preEntry,
                                         fs[Len(fs)].preMerge)
<1> DEFINE gs == Below(fs)
           n == Len(fs) - 1
           top == fs[Len(fs)]
<1>1. /\ \A i \in 1..n : gs[i] = fs[i]
      /\ Len(gs) = n /\ DOMAIN gs = 1..n
      /\ DOMAIN fs = 1..n + 1 /\ Len(fs) = n + 1 /\ n \in Nat
  BY PopGives
<1>2. top = fs[n + 1]
  BY <1>1
<1> HIDE DEF gs, n
<1>3. ASSUME NEW k \in 0..n, NEW e1, NEW m1, ContextIs(fs, k, e1, m1)
      PROVE  ContextIs(gs, k, e1, m1)
  <2>1. /\ k \in Nat /\ 1..k \subseteq 1..n /\ 1..n \subseteq 1..n + 1
        /\ 1..n + 1 \subseteq Nat \ {0} /\ 1..n \subseteq Nat \ {0}
    BY <1>1
  <2> QED
    BY <1>1, <1>3, <2>1, SameContext
<1>4. ContextIs(fs, n + 1, e, m)
  BY <1>1 DEF ContextOK
<1>5. ASSUME NEW i \in Loops(gs, n)
      PROVE  ContextIs(gs, i - 1, gs[i].preEntry, gs[i].preMerge)
  <2>1. i \in 1..n /\ gs[i] = fs[i] /\ i \in Loops(fs, n + 1) /\ i - 1 \in 0..n
    BY <1>1 DEF Loops
  <2>2. ContextIs(fs, i - 1, fs[i].preEntry, fs[i].preMerge)
    BY <1>1, <2>1 DEF ContextOK
  <2> QED
    BY <1>3, <2>1, <2>2
<1>6. ASSUME top.k \notin LoopKinds
      PROVE  ContextOK(gs, e, m)
  <2>1. ContextIs(fs, n, e, m)
    BY <1>1, <1>2, <1>4, <1>6, PlainTop
  <2> QED
    BY <1>1, <1>3, <1>5, <2>1 DEF ContextOK
<1>7. ASSUME top.k \in LoopKinds
      PROVE  /\ e = top.entry /\ m = top.merge
             /\ ContextOK(gs, top.preEntry, top.preMerge)
  <2>1. n + 1 \in Loops(fs, n + 1) /\ \A j \in Loops(fs, n + 1) : j \in 1..n + 1
    BY <1>1, <1>2, <1>7 DEF Loops
  <2>2. PICK i \in Loops(fs, n + 1) :
           /\ \A j \in Loops(fs, n + 1) : j <= i
           /\ e = fs[i].entry /\ m = fs[i].merge
    BY <1>4, <2>1 DEF ContextIs
  <2>3. i = n + 1
    BY <1>1, <2>1, <2>2
  <2>4. ContextIs(fs, n, top.preEntry, top.preMerge)
    BY <1>1, <1>2, <2>1 DEF ContextOK
  <2> QED
    BY <1>1, <1>2, <1>3, <1>5, <2>2, <2>3, <2>4 DEF ContextOK
<1> QED
  BY <1>6, <1>7 DEF gs

-----------------------------------------------------------------------------
(* The inductive invariant.                                                   *)

Modes == {"next", "stmt", "exp", "value", "done", "crash"}
VarNames == {"v", "t", "_retSlot_"} \X Nat

Typed ==
    /\ mode \in Modes
    /\ nsym \in Nat /\ tmps \in Nat /\ nodes \in 0..MaxNodes
    /\ IsBlocks(blocks) /\ Code(blocks, nsym)
    /\ Len(blocks) >= 2 /\ cur \in DOMAIN blocks
    /\ entryB \in 0..Len(blocks) /\ mergeB \in 0..Len(blocks)
    /\ val \in 0..nsym /\ slot \in 0..nsym
    /\ irvar \in Seq(0..nsym)
    /\ name \in Seq(VarNames) /\ Len(name) = Len(irvar)
    /\ vis \subseteq 1..Len(irvar)
    /\ \A x \in DOMAIN symTab : symTab[x] \in 0..nsym
    /\ frames \in Seq(Frames(nsym, Len(irvar), Len(blocks)))

Control ==
    /\ Typed
    /\ StackOK(mode, frames)
    /\ ContextOK(frames, entryB, mergeB)

-----------------------------------------------------------------------------
(* What a step does to the blocks: it adds k new ones, and puts seq behind    *)
(* the code of the current one.                                               *)

Lowers(k, seq) ==
    /\ k \in Nat /\ nsym' \in Nat /\ nsym <= nsym'
    /\ seq \in Seq(Instrs(nsym', Len(blocks) + k))
    /\ Extends(blocks, blocks', k, cur, seq)

\* Nothing that a frame or an instruction names goes away.
Grows ==
    /\ nsym' \in Nat /\ nsym <= nsym'
    /\ IsBlocks(blocks') /\ Code(blocks', nsym') /\ Len(blocks) <= Len(blocks')
    /\ irvar' \in Seq(0..nsym') /\ Len(irvar) <= Len(irvar')
    /\ name' \in Seq(VarNames) /\ Len(name') = Len(irvar')

LEMMA LowersBlocks ==
    ASSUME Typed, NEW k, NEW seq, Lowers(k, seq)
    PROVE  /\ IsBlocks(blocks') /\ Code(blocks', nsym')
           /\ Len(blocks') = Len(blocks) + k /\ Len(blocks) <= Len(blocks')
           /\ DOMAIN blocks' = 1..Len(blocks) + k /\ Len(blocks) \in Nat
<1>1. /\ IsBlocks(blocks) /\ Code(blocks, nsym) /\ nsym \in Nat
      /\ cur \in DOMAIN blocks
  BY DEF Typed
<1>2. /\ k \in Nat /\ nsym' \in Nat /\ nsym <= nsym'
      /\ seq \in Seq(Instrs(nsym', Len(blocks) + k))
      /\ Extends(blocks, blocks', k, cur, seq)
  BY DEF Lowers
<1>3. Code(blocks', nsym')
  BY <1>1, <1>2, ExtendsCode
<1>4. IsBlocks(blocks') /\ Len(blocks') = Len(blocks) + k
  BY <1>2 DEF Extends
<1>5. Len(blocks) \in Nat /\ DOMAIN blocks' = 1..Len(blocks')
  BY <1>1, <1>4, BlocksLen
<1> QED
  BY <1>2, <1>3, <1>4, <1>5

LEMMA LowersGrows ==
    ASSUME Typed, NEW k, NEW seq, Lowers(k, seq),
           irvar' \in Seq(0..nsym'), Len(irvar) <= Len(irvar'),
           name' \in Seq(VarNames), Len(name') = Len(irvar')
    PROVE  Grows
BY LowersBlocks DEF Grows, Lowers

LEMMA SameGrows ==
    ASSUME Typed, UNCHANGED <<blocks, nsym, irvar, name>>
    PROVE  Grows
<1>1. Len(blocks) \in Nat
  BY BlocksLen DEF Typed
<1> QED
  BY <1>1 DEF Grows, Typed

FramesNow == Frames(nsym, Len(irvar), Len(blocks))

LEMMA Wider ==
    ASSUME Typed, Grows
    PROVE  /\ frames \in Seq(FramesNow')
           /\ 0..nsym \subseteq 0..nsym' /\ DOMAIN blocks \subseteq DOMAIN blocks'
           /\ 0..Len(blocks) \subseteq 0..Len(blocks')
           /\ 1..Len(irvar) \subseteq 1..Len(irvar')
           /\ Len(blocks) \in Nat /\ DOMAIN blocks = 1..Len(blocks)
           /\ Len(blocks') \in Nat /\ DOMAIN blocks' = 1..Len(blocks')
           /\ Len(irvar) \in Nat /\ Len(irvar') \in Nat
<1>1. /\ Len(blocks) \in Nat /\ DOMAIN blocks = 1..Len(blocks)
      /\ Len(blocks') \in Nat /\ DOMAIN blocks' = 1..Len(blocks')
  BY BlocksLen DEF Typed, Grows
<1>2. /\ nsym \in Nat /\ nsym' \in Nat /\ nsym <= nsym'
      /\ Len(blocks) <= Len(blocks') /\ Len(irvar) <= Len(irvar')
      /\ Len(irvar) \in Nat /\ Len(irvar') \in Nat
  BY DEF Typed, Grows
<1>3. frames \in Seq(FramesNow')
  <2>1. Frames(nsym, Len(irvar), Len(blocks))
            \subseteq Frames(nsym', Len(irvar'), Len(blocks'))
    <3> DEFINE n == nsym  V == Len(irvar)  B == Len(blocks)
               n2 == nsym'  V2 == Len(irvar')  B2 == Len(blocks')
    <3>1. /\ n \in Nat /\ V \in Nat /\ B \in Nat /\ n2 \in Nat /\ V2 \in Nat
          /\ B2 \in Nat /\ n <= n2 /\ V <= V2 /\ B <= B2
      BY <1>1, <1>2
    <3> HIDE DEF n, V, B, n2, V2, B2
    <3>2. Frames(n, V, B) \subseteq Frames(n2, V2, B2)
      BY <3>1, FramesGrow
    <3> QED
      BY <3>2 DEF n, V, B, n2, V2, B2
  <2>2. frames \in Seq(Frames(nsym, Len(irvar), Len(blocks)))
    BY DEF Typed
  <2> QED
    BY <2>1, <2>2 DEF FramesNow
<1> QED
  BY <1>1, <1>2, <1>3

\* What is left to show of the types when nothing goes away.
LEMMA TypedAgain ==
    ASSUME Typed, Grows, mode' \in Modes, tmps' \in Nat, nodes' \in 0..MaxNodes,
           cur' \in DOMAIN blocks',
           entryB' \in 0..Len(blocks'), mergeB' \in 0..Len(blocks'),
           val' \in 0..nsym', slot' \in 0..nsym', vis' \subseteq 1..Len(irvar'),
           \A x \in DOMAIN symTab' : symTab'[x] \in 0..nsym',
           frames' \in Seq(FramesNow')
    PROVE  Typed'
<1>1. Len(blocks') >= 2
  <2>1. Len(blocks) \in Nat /\ Len(blocks') \in Nat
    BY Wider
  <2> QED
    BY <2>1 DEF Typed, Grows
<1> QED
  BY <1>1 DEF Typed, Grows, FramesNow

\* A step that touches neither symbols nor the context of the loops.
LEMMA TypedRest ==
    ASSUME Typed, Grows, mode' \in Modes, nodes' \in 0..MaxNodes,
           UNCHANGED <<entryB, mergeB, val, slot, tmps, symTab>>,
           cur' \in DOMAIN blocks', vis' \subseteq 1..Len(irvar'),
           frames' \in Seq(FramesNow')
    PROVE  Typed'
<1>1. /\ entryB' \in 0..Len(blocks') /\ mergeB' \in 0..Len(blocks')
      /\ val' \in 0..nsym' /\ slot' \in 0..nsym'
      /\ \A x \in DOMAIN symTab' : symTab'[x] \in 0..nsym'
      /\ tmps' \in Nat
  BY Wider DEF Typed
<1> QED
  BY <1>1, TypedAgain

LEMMA FramesMade ==
    ASSUME NEW n, NEW V, NEW B
    PROVE  /\ \A S \in SUBSET (1..V) : [k |-> "block", vis |-> S] \in Frames(n, V, B)
           /\ \A v \in 1..V : /\ [k |-> "init", var |-> v] \in Frames(n, V, B)
                              /\ [k |-> "assign", var |-> v] \in Frames(n, V, B)
           /\ [k |-> "exp"] \in Frames(n, V, B) /\ [k |-> "ret"] \in Frames(n, V, B)
           /\ [k |-> "opnd1"] \in Frames(n, V, B) /\ [k |-> "lhs"] \in Frames(n, V, B)
           /\ \A t, e \in BOOLEAN :
                 [k |-> "if", then |-> t, else |-> e] \in Frames(n, V, B)
           /\ \A e \in {Null} \cup 3..B, m \in 3..B :
                 [k |-> "then", else |-> e, merge |-> m] \in Frames(n, V, B)
           /\ \A m \in 3..B : [k |-> "else", merge |-> m] \in Frames(n, V, B)
           /\ \A op \in {"+", "-", "!"} :
                 [k |-> "unary", op |-> op] \in Frames(n, V, B)
           /\ \A v \in 0..n : [k |-> "opnd2", val1 |-> v] \in Frames(n, V, B)
           /\ \A r \in 0..n, m \in 3..B :
                 [k |-> "rhs", ret |-> r, merge |-> m] \in Frames(n, V, B)
<1>1. \A S \in SUBSET (1..V) : [k |-> "block", vis |-> S] \in Frames(n, V, B)
  BY DEF Frames
<1>2. \A v \in 1..V : /\ [k |-> "init", var |-> v] \in Frames(n, V, B)
                      /\ [k |-> "assign", var |-> v] \in Frames(n, V, B)
  BY DEF Frames
<1>3. /\ [k |-> "exp"] \in Frames(n, V, B) /\ [k |-> "ret"] \in Frames(n, V, B)
      /\ [k |-> "opnd1"] \in Frames(n, V, B) /\ [k |-> "lhs"] \in Frames(n, V, B)
  BY DEF Frames
<1>4. \A t, e \in BOOLEAN : [k |-> "if", then |-> t, else |-> e] \in Frames(n, V, B)
  BY DEF Frames
<1>5. \A e \in {Null} \cup 3..B, m \in 3..B :
         [k |-> "then", else |-> e, merge |-> m] \in Frames(n, V, B)
  BY DEF Frames
<1>6. \A m \in 3..B : [k |-> "else", merge |-> m] \in Frames(n, V, B)
  BY DEF Frames
<1>7. /\ \A op \in {"+", "-", "!"} : [k |-> "unary", op |-> op] \in Frames(n, V, B)
      /\ \A v \in 0..n : [k |-> "opnd2", val1 |-> v] \in Frames(n, V, B)
  BY DEF Frames
<1>8. \A r \in 0..n, m \in 3..B :
         [k |-> "rhs", ret |-> r, merge |-> m] \in Frames(n, V, B)
  BY DEF Frames
<1> QED
  BY <1>1, <1>2, <1>3, <1>4, <1>5, <1>6, <1>7, <1>8

\* The frame at the top.
LEMMA TopFrame ==
    ASSUME Control, mode # "done"
    PROVE  /\ frames # <<>> /\ frames[1].k = "block"
           /\ Len(frames) \in Nat /\ Len(frames) >= 1
           /\ Top = frames[Len(frames)] /\ Top \in FramesNow
           /\ Rest = Below(frames) /\ frames \in Seq(FramesNow)
<1>1. frames \in Seq(FramesNow) /\ frames # <<>> /\ frames[1].k = "block"
  BY DEF Control, Typed, StackOK, FramesNow
<1> QED
  BY <1>1 DEF Top, Rest, Below

-----------------------------------------------------------------------------
(* Steps that push, pop or replace a frame, for Control.                      *)

LEMMA Pushed ==
    ASSUME Control, Grows, NEW f \in FramesNow', frames' = Append(frames, f),
           UNCHANGED <<entryB, mergeB>>, f.k \notin LoopKinds,
           \/ mode \in {"next", "stmt"} /\ f.k \in HeadKinds /\ mode' = "exp"
           \/ mode \in {"next", "stmt"} /\ f.k = "block" /\ mode' = "next"
           \/ mode = "exp" /\ f.k \in OperandKinds /\ mode' = "exp"
    PROVE  /\ frames' \in Seq(FramesNow') /\ mode' \in Modes
           /\ StackOK(mode', frames') /\ ContextOK(frames', entryB', mergeB')
<1>1. frames \in Seq(FramesNow')
  BY Wider DEF Control
<1>2. StackOK(mode, frames) /\ ContextOK(frames, entryB, mergeB)
  BY DEF Control
<1>3. StackOK(mode', Append(frames, f))
  BY <1>1, <1>2, StackPush
<1>4. ContextOK(Append(frames, f), entryB, mergeB)
  BY <1>1, <1>2, ContextPush
<1> QED
  BY <1>1, <1>3, <1>4 DEF Modes

LEMMA Popped ==
    ASSUME Control, Grows, frames' = Rest, mode # "done", mode' \in Modes,
           \/ /\ mode = "value" /\ Top.k \in HeadKinds
              /\ mode' \in {"next", "crash"}
           \/ /\ mode = "value" /\ Top.k \in OperandKinds
              /\ mode' \in {"value", "crash"}
           \/ mode = "next" /\ Top.k \in StmtKinds \ {"block"} /\ mode' = "next"
           \/ /\ mode = "next" /\ Top.k = "block"
              /\ mode' = IF Len(frames) = 1 THEN "done" ELSE "next",
           IF Top.k \in LoopKinds
           THEN entryB' = Top.preEntry /\ mergeB' = Top.preMerge
           ELSE UNCHANGED <<entryB, mergeB>>
    PROVE  /\ frames' \in Seq(FramesNow')
           /\ StackOK(mode', frames') /\ ContextOK(frames', entryB', mergeB')
<1>1. frames \in Seq(FramesNow')
  BY Wider DEF Control
<1>2. StackOK(mode, frames) /\ ContextOK(frames, entryB, mergeB)
  BY DEF Control
<1>3. frames # <<>> /\ Top = frames[Len(frames)] /\ frames' = Below(frames)
  BY TopFrame
<1>4. StackOK(mode', Below(frames))
  BY <1>1, <1>2, <1>3, StackPop
<1>5. /\ Top.k \notin LoopKinds => ContextOK(Below(frames), entryB, mergeB)
      /\ Top.k \in LoopKinds =>
            ContextOK(Below(frames), Top.preEntry, Top.preMerge)
  BY <1>1, <1>2, <1>3, ContextPop
<1>6. Below(frames) \in Seq(FramesNow')
  BY <1>1, <1>3, PopGives
<1> QED
  BY <1>3, <1>4, <1>5, <1>6

LEMMA Swapped ==
    ASSUME Control, Grows, NEW f \in FramesNow', frames' = Append(Rest, f),
           mode # "done", UNCHANGED <<entryB, mergeB>>,
           Top.k \notin LoopKinds, f.k \notin LoopKinds,
           \/ /\ mode = "value" /\ Top.k \in HeadKinds
              /\ f.k \in StmtKinds \ {"block"}
              /\ mode' \in {"next", "stmt", "crash"}
           \/ /\ mode = "value" /\ Top.k \in OperandKinds
              /\ f.k \in OperandKinds /\ mode' = "exp"
           \/ /\ mode = "next" /\ Top.k \in StmtKinds \ {"block"}
              /\ f.k \in StmtKinds \ {"block"} /\ mode' = "stmt"
    PROVE  /\ frames' \in Seq(FramesNow') /\ mode' \in Modes
           /\ StackOK(mode', frames') /\ ContextOK(frames', entryB', mergeB')
<1>1. frames \in Seq(FramesNow')
  BY Wider DEF Control
<1>2. StackOK(mode, frames) /\ ContextOK(frames, entryB, mergeB)
  BY DEF Control
<1>3. /\ frames # <<>> /\ Top = frames[Len(frames)]
      /\ frames' = Append(Below(frames), f)
  BY TopFrame
<1>4. StackOK(mode', Append(Below(frames), f))
  BY <1>1, <1>2, <1>3, StackSwap
<1>5. ContextOK(Below(frames), entryB, mergeB)
  BY <1>1, <1>2, <1>3, ContextPop
<1>6. Below(frames) \in Seq(FramesNow')
  BY <1>1, <1>3, PopGives
<1>7. ContextOK(Append(Below(frames), f), entryB, mergeB)
  BY <1>5, <1>6, ContextPush
<1>8. Append(Below(frames), f) \in Seq(FramesNow')
  BY <1>6
<1> QED
  BY <1>3, <1>4, <1>7, <1>8 DEF Modes

-----------------------------------------------------------------------------
(* What each step lowers.                                                     *)

LEMMA Sizes ==
    ASSUME Control
    PROVE  /\ Len(blocks) \in Nat /\ DOMAIN blocks = 1..Len(blocks)
           /\ Len(blocks) >= 2 /\ nsym \in Nat /\ nsym + 1 \in Nat /\ nsym + 2 \in Nat
           /\ cur \in 1..Len(blocks) /\ val \in 0..nsym /\ slot \in 0..nsym
           /\ IsBlocks(blocks) /\ Code(blocks, nsym) /\ cur \in DOMAIN blocks
           /\ Len(irvar) \in Nat /\ tmps \in Nat
BY BlocksLen DEF Control, Typed

LEMMA EmitLowers ==
    ASSUME Control, nsym' \in Nat, nsym <= nsym',
           NEW seq \in Seq(Instrs(nsym', Len(blocks))),
           blocks' = Emit(blocks, cur, seq)
    PROVE  Lowers(0, seq)
<1>1. Extends(blocks, blocks', 0, cur, seq)
  BY Sizes, EmitExtendsHere
<1>2. Len(blocks) + 0 = Len(blocks)
  BY Sizes
<1> QED
  BY <1>1, <1>2 DEF Lowers

\* The same with new blocks, and linked to two others.
LEMMA EmitLinkLowers ==
    ASSUME Control, nsym' \in Nat, nsym <= nsym', NEW k \in Nat,
           NEW seq \in Seq(Instrs(nsym', Len(blocks) + k)),
           NEW bs, Extends(blocks, bs, k, cur, seq),
           NEW b \in 1..Len(blocks) + k, NEW c \in 1..Len(blocks) + k
    PROVE  /\ blocks' = link_bb(bs, cur, b) => Lowers(k, seq)
           /\ blocks' = link_bb(link_bb(bs, cur, b), cur, c) => Lowers(k, seq)
<1>1. /\ cur \in 1..Len(blocks) + k
      /\ DOMAIN bs = 1..Len(blocks) + k
  <2>1. IsBlocks(bs) /\ Len(bs) = Len(blocks) + k
    BY DEF Extends
  <2>2. DOMAIN bs = 1..Len(bs)
    BY <2>1, BlocksLen
  <2>3. Len(blocks) \in Nat /\ cur \in 1..Len(blocks)
    BY Sizes
  <2>4. 1..Len(blocks) \subseteq 1..Len(blocks) + k
    BY <2>3
  <2> QED
    BY <2>1, <2>2, <2>3, <2>4, Zenon
<1>2. /\ Extends(blocks, link_bb(bs, cur, b), k, cur, seq)
      /\ DOMAIN link_bb(bs, cur, b) = DOMAIN bs
  <2>1. cur \in DOMAIN blocks /\ cur \in DOMAIN bs /\ b \in DOMAIN bs
    BY <1>1, Sizes
  <2> QED
    BY <2>1, LinkExtends
<1> DEFINE bs2 == link_bb(bs, cur, b)
<1> HIDE DEF bs2
<1>3. /\ Extends(blocks, bs2, k, cur, seq) /\ cur \in DOMAIN bs2 /\ c \in DOMAIN bs2
      /\ cur \in DOMAIN blocks
  BY <1>1, <1>2, Sizes DEF bs2
<1>4. Extends(blocks, link_bb(bs2, cur, c), k, cur, seq)
  BY <1>3, LinkExtends
<1> QED
  BY <1>2, <1>4 DEF Lowers, bs2

LEMMA DeclPlainLowers ==
    ASSUME Control, NEW x, DeclPlain(x)
    PROVE  Lowers(0, <<Alloc(nsym + 1)>>)
<1>1. nsym' = nsym + 1 /\ blocks' = Emit(blocks, cur, <<Alloc(nsym + 1)>>)
  BY DEF DeclPlain
<1>2. Alloc(nsym + 1) \in Instrs(nsym + 1, Len(blocks))
  BY Sizes, InstrsTyped
<1>3. /\ <<Alloc(nsym + 1)>> \in Seq(Instrs(nsym', Len(blocks)))
      /\ nsym' \in Nat /\ nsym <= nsym'
  BY <1>1, <1>2, Sizes
<1> QED
  BY <1>1, <1>3, EmitLowers, Zenon

LEMMA AfterInitLowers ==
    ASSUME Control, AfterInit
    PROVE  Lowers(0, <<Alloc(nsym + 1), Store(val, nsym + 1)>>)
<1>1. /\ nsym' = nsym + 1
      /\ blocks' = Emit(blocks, cur, <<Alloc(nsym + 1), Store(val, nsym + 1)>>)
  BY DEF AfterInit
<1>2. /\ Alloc(nsym + 1) \in Instrs(nsym + 1, Len(blocks))
      /\ Store(val, nsym + 1) \in Instrs(nsym + 1, Len(blocks))
  BY Sizes, InstrsTyped
<1>3. /\ <<Alloc(nsym + 1), Store(val, nsym + 1)>> \in Seq(Instrs(nsym', Len(blocks)))
      /\ nsym' \in Nat /\ nsym <= nsym'
  BY <1>1, <1>2, Sizes
<1> QED
  BY <1>1, <1>3, EmitLowers, Zenon

LEMMA AfterAssignLowers ==
    ASSUME Control, AfterAssign, name[Top.var] \in DOMAIN symTab
    PROVE  Lowers(0, <<Store(val, symTab[name[Top.var]])>>)
<1>1. /\ nsym' = nsym
      /\ blocks' = Emit(blocks, cur, <<Store(val, symTab[name[Top.var]])>>)
  BY DEF AfterAssign, symbols
<1>2. symTab[name[Top.var]] \in 0..nsym
  BY DEF Control, Typed
<1>3. Store(val, symTab[name[Top.var]]) \in Instrs(nsym, Len(blocks))
  <2>1. nsym \in Nat /\ Len(blocks) \in Nat /\ val \in -1..nsym
    BY Sizes
  <2> QED
    BY <1>2, <2>1, InstrsTyped
<1>4. /\ <<Store(val, symTab[name[Top.var]])>> \in Seq(Instrs(nsym', Len(blocks)))
      /\ nsym' \in Nat /\ nsym <= nsym'
  BY <1>1, <1>3, Sizes
<1> QED
  BY <1>1, <1>4, EmitLowers, Zenon

LEMMA LValLowers ==
    ASSUME Control, NEW v \in vis, LVal(v), irvar[v] # Null
    PROVE  Lowers(0, <<Load(nsym + 1, irvar[v])>>)
<1>1. nsym' = nsym + 1 /\ blocks' = Emit(blocks, cur, <<Load(nsym + 1, irvar[v])>>)
  BY DEF LVal
<1>2. irvar[v] \in 0..nsym
  BY DEF Control, Typed
<1>3. Load(nsym + 1, irvar[v]) \in Instrs(nsym + 1, Len(blocks))
  <2>1. /\ nsym + 1 \in Nat /\ Len(blocks) \in Nat
        /\ nsym + 1 \in 0..nsym + 1 /\ irvar[v] \in 0..nsym + 1
    BY <1>2, Sizes
  <2> QED
    BY <2>1, InstrsTyped
<1>4. /\ <<Load(nsym + 1, irvar[v])>> \in Seq(Instrs(nsym', Len(blocks)))
      /\ nsym' \in Nat /\ nsym <= nsym'
  BY <1>1, <1>3, Sizes
<1> QED
  BY <1>1, <1>4, EmitLowers, Zenon

UnaryCode == IF Top.op = "!" THEN BExpr(nsym + 1, val, Literal)
                             ELSE BExpr(nsym + 1, Literal, val)

LEMMA AfterUnaryLowers ==
    ASSUME Control, AfterUnary, Top.op # "+"
    PROVE  Lowers(0, <<UnaryCode>>)
<1>1. nsym' = nsym + 1 /\ blocks' = Emit(blocks, cur, <<UnaryCode>>)
  BY DEF AfterUnary, UnaryCode
<1>2. UnaryCode \in Instrs(nsym + 1, Len(blocks))
  <2>1. /\ nsym + 1 \in Nat /\ Len(blocks) \in Nat /\ nsym + 1 \in 0..nsym + 1
        /\ Literal \in 0..nsym + 1 /\ val \in 0..nsym + 1
    BY Sizes DEF Literal
  <2> QED
    BY <2>1, InstrsTyped DEF UnaryCode
<1>3. /\ <<UnaryCode>> \in Seq(Instrs(nsym', Len(blocks)))
      /\ nsym' \in Nat /\ nsym <= nsym'
  BY <1>1, <1>2, Sizes
<1> QED
  BY <1>1, <1>3, EmitLowers, Zenon

LEMMA AfterOpnd2Lowers ==
    ASSUME Control, AfterOpnd2
    PROVE  Lowers(0, <<BExpr(nsym + 1, Top.val1, val)>>)
<1>1. /\ nsym' = nsym + 1 /\ mode # "done" /\ Top.k = "opnd2"
      /\ blocks' = Emit(blocks, cur, <<BExpr(nsym + 1, Top.val1, val)>>)
  BY DEF AfterOpnd2
<1>2. Top.val1 \in 0..nsym
  BY <1>1, TopFrame, FrameFields DEF FramesNow
<1>3. BExpr(nsym + 1, Top.val1, val) \in Instrs(nsym + 1, Len(blocks))
  <2>1. /\ nsym + 1 \in Nat /\ Len(blocks) \in Nat /\ nsym + 1 \in 0..nsym + 1
        /\ Top.val1 \in 0..nsym + 1 /\ val \in 0..nsym + 1
    BY <1>2, Sizes
  <2> QED
    BY <2>1, InstrsTyped
<1>4. /\ <<BExpr(nsym + 1, Top.val1, val)>> \in Seq(Instrs(nsym', Len(blocks)))
      /\ nsym' \in Nat /\ nsym <= nsym'
  BY <1>1, <1>3, Sizes
<1> QED
  BY <1>1, <1>4, EmitLowers, Zenon

\* A branch to the new blocks.
LEMMA AfterIfCondLowers ==
    ASSUME Control, AfterIfCond
    PROVE  LET k == IF Top.else THEN 3 ELSE 2
           IN Lowers(k, <<Br(val, Len(blocks) + 1, Len(blocks) + 2)>>)
<1> DEFINE n == Len(blocks)
           k == IF Top.else THEN 3 ELSE 2
           seq == <<Br(val, n + 1, n + 2)>>
           bs == Emit(Create(blocks, k), cur, seq)
<1>1. k \in Nat /\ k >= 2 /\ n \in Nat
  BY Sizes
<1>2. /\ nsym' = nsym
      /\ blocks' = link_bb(link_bb(bs, cur, n + 1), cur, n + 2)
  <2>1. CASE Top.else
    BY <2>1, Sizes DEF AfterIfCond, symbols
  <2>2. CASE ~Top.else
    BY <2>2, Sizes DEF AfterIfCond, symbols
  <2> QED
    BY <2>1, <2>2
<1> HIDE DEF k
<1>3. /\ n + 1 \in 1..n + k /\ n + 2 \in 1..n + k /\ n + k \in Nat
  BY <1>1
<1>4. Br(val, n + 1, n + 2) \in Instrs(nsym, n + k)
  BY <1>3, Sizes, InstrsTyped
<1>5. seq \in Seq(Instrs(nsym', n + k))
  BY <1>2, <1>4
<1>6. Extends(blocks, bs, k, cur, seq)
  BY <1>1, Sizes, EmitExtends
<1> HIDE DEF bs, seq
<1>7. Lowers(k, seq)
  <2>1. nsym' \in Nat /\ nsym <= nsym'
    BY <1>2, Sizes
  <2>2. seq \in Seq(Instrs(nsym', Len(blocks) + k))
    BY <1>5
  <2>3. n + 1 \in 1..Len(blocks) + k /\ n + 2 \in 1..Len(blocks) + k /\ k \in Nat
    BY <1>1, <1>3
  <2> HIDE DEF n
  <2> QED
    BY <1>2, <1>6, <2>1, <2>2, <2>3, EmitLinkLowers, Zenon
<1> QED
  BY <1>7 DEF k, seq

\* The end of a branch.
LEMMA JoinLowers ==
    ASSUME Control, NEW merge \in 3..Len(blocks), blocks' = JoinAt(merge),
           UNCHANGED nsym
    PROVE  Lowers(0, IF Terminated THEN <<>> ELSE <<Jump(merge)>>)
<1> DEFINE B == Len(blocks)
<1>1. /\ B \in Nat /\ B + 0 = B /\ Exit \in 1..B /\ merge \in 1..B
      /\ nsym' = nsym /\ nsym \in Nat /\ nsym <= nsym'
  BY Sizes DEF Exit
<1>2. CASE Terminated
  <2>1. blocks' = link_bb(blocks, cur, Exit)
    BY <1>2 DEF JoinAt
  <2>2. Extends(blocks, blocks, 0, cur, <<>>) /\ <<>> \in Seq(Instrs(nsym', B + 0))
    BY Sizes, StayExtends
  <2>3. Lowers(0, <<>>)
    BY <1>1, <2>1, <2>2, EmitLinkLowers
  <2> QED
    BY <1>2, <2>3
<1>3. CASE ~Terminated
  <2>1. blocks' = link_bb(Emit(blocks, cur, <<Jump(merge)>>), cur, merge)
    BY <1>3 DEF JoinAt
  <2>2. Jump(merge) \in Instrs(nsym, B)
    BY <1>1, InstrsTyped
  <2>3. <<Jump(merge)>> \in Seq(Instrs(nsym', B + 0))
    BY <1>1, <2>2
  <2>4. Extends(blocks, Emit(blocks, cur, <<Jump(merge)>>), 0, cur, <<Jump(merge)>>)
    BY Sizes, EmitExtendsHere
  <2>5. Lowers(0, <<Jump(merge)>>)
    BY <1>1, <2>1, <2>3, <2>4, EmitLinkLowers
  <2> QED
    BY <1>3, <2>5
<1> QED
  BY <1>2, <1>3

LEMMA AfterThenLowers ==
    ASSUME Control, AfterThen
    PROVE  /\ Top.merge \in 3..Len(blocks) /\ Top.else \in {Null} \cup 3..Len(blocks)
           /\ Lowers(0, IF Terminated THEN <<>> ELSE <<Jump(Top.merge)>>)
<1>1. /\ mode # "done" /\ Top.k = "then" /\ nsym' = nsym
      /\ blocks' = JoinAt(Top.merge)
  BY DEF AfterThen, symbols
<1>2. Top.merge \in 3..Len(blocks) /\ Top.else \in {Null} \cup 3..Len(blocks)
  BY <1>1, TopFrame, FrameFields DEF FramesNow
<1> QED
  BY <1>1, <1>2, JoinLowers

LEMMA AfterElseLowers ==
    ASSUME Control, AfterElse
    PROVE  /\ Top.merge \in 3..Len(blocks)
           /\ Lowers(0, IF Terminated THEN <<>> ELSE <<Jump(Top.merge)>>)
<1>1. /\ mode # "done" /\ Top.k = "else" /\ nsym' = nsym
      /\ blocks' = JoinAt(Top.merge)
  BY DEF AfterElse, symbols
<1>2. Top.merge \in 3..Len(blocks)
  BY <1>1, TopFrame, FrameFields DEF FramesNow
<1> QED
  BY <1>1, <1>2, JoinLowers

LEMMA WhileLowers ==
    ASSUME Control, NEW stmt, While(stmt)
    PROVE  Lowers(3, <<Jump(Len(blocks) + 1)>>)
<1> DEFINE n == Len(blocks)
           seq == <<Jump(n + 1)>>
           bs == Emit(Create(blocks, 3), cur, seq)
<1>1. nsym' = nsym /\ blocks' = link_bb(bs, cur, n + 1)
  BY DEF While, symbols
<1>2. n + 1 \in 1..n + 3 /\ n + 3 \in Nat /\ nsym \in Nat /\ 3 \in Nat
  BY Sizes
<1>3. Jump(n + 1) \in Instrs(nsym, n + 3)
  BY <1>2, InstrsTyped
<1>4. seq \in Seq(Instrs(nsym', n + 3)) /\ nsym' \in Nat /\ nsym <= nsym'
  BY <1>1, <1>2, <1>3
<1>5. Extends(blocks, bs, 3, cur, seq)
  BY <1>2, Sizes, EmitExtends
<1> HIDE DEF bs, seq
<1>6. Lowers(3, seq)
  BY <1>1, <1>2, <1>4, <1>5, EmitLinkLowers
<1> QED
  BY <1>6 DEF seq

\* A frame of a loop.
LEMMA LoopFrame ==
    ASSUME Control, mode # "done", Top.k \in LoopKinds
    PROVE  /\ {Top.entry, Top.body, Top.merge} \subseteq 3..Len(blocks)
           /\ {Top.preEntry, Top.preMerge} \subseteq 0..Len(blocks)
           /\ Top.stmt \in BOOLEAN
           /\ Top = [k |-> Top.k, stmt |-> Top.stmt, entry |-> Top.entry,
                     body |-> Top.body, merge |-> Top.merge,
                     preEntry |-> Top.preEntry, preMerge |-> Top.preMerge]
<1>1. Top \in [k : LoopKinds, stmt : BOOLEAN, entry : 3..Len(blocks),
               body : 3..Len(blocks), merge : 3..Len(blocks),
               preEntry : 0..Len(blocks), preMerge : 0..Len(blocks)]
  BY TopFrame, FrameFields DEF FramesNow
<1> HIDE DEF Top
<1> QED
  BY <1>1

LEMMA AfterWhileCondLowers ==
    ASSUME Control, AfterWhileCond
    PROVE  Lowers(0, <<Br(val, Top.body, Top.merge)>>)
<1> DEFINE B == Len(blocks)
           seq == <<Br(val, Top.body, Top.merge)>>
           bs == Emit(blocks, cur, seq)
<1>1. /\ nsym' = nsym /\ mode # "done" /\ Top.k \in LoopKinds
      /\ blocks' = link_bb(link_bb(bs, cur, Top.body), cur, Top.merge)
  BY DEF AfterWhileCond, symbols, LoopKinds
<1>2. /\ B \in Nat /\ B + 0 = B /\ nsym \in Nat
      /\ Top.body \in 1..B /\ Top.merge \in 1..B
  <2>1. Len(blocks) \in Nat /\ nsym \in Nat
    BY Sizes
  <2>2. Top.body \in 3..Len(blocks) /\ Top.merge \in 3..Len(blocks)
    BY <1>1, LoopFrame
  <2> QED
    BY <1>1, <2>1, <2>2
<1>3. Br(val, Top.body, Top.merge) \in Instrs(nsym, B)
  BY <1>2, Sizes, InstrsTyped
<1>4. seq \in Seq(Instrs(nsym', B + 0)) /\ nsym' \in Nat /\ nsym <= nsym'
  BY <1>1, <1>2, <1>3
<1>5. Extends(blocks, bs, 0, cur, seq)
  BY Sizes, EmitExtendsHere
<1> HIDE DEF bs, seq
<1>6. Lowers(0, seq)
  BY <1>1, <1>2, <1>4, <1>5, EmitLinkLowers
<1> QED
  BY <1>6 DEF seq

LEMMA AfterBodyLowers ==
    ASSUME Control, AfterBody
    PROVE  Lowers(0, <<Jump(Top.entry)>>)
<1> DEFINE B == Len(blocks)
           seq == <<Jump(Top.entry)>>
           bs == Emit(blocks, cur, seq)
<1>1. /\ nsym' = nsym /\ mode # "done" /\ Top.k \in LoopKinds
      /\ blocks' = link_bb(bs, cur, Top.entry)
  BY DEF AfterBody, symbols, LoopKinds
<1>2. B \in Nat /\ B + 0 = B /\ nsym \in Nat /\ Top.entry \in 1..B
  BY <1>1, Sizes, LoopFrame
<1>3. Jump(Top.entry) \in Instrs(nsym, B)
  BY <1>2, InstrsTyped
<1>4. seq \in Seq(Instrs(nsym', B + 0)) /\ nsym' \in Nat /\ nsym <= nsym'
  BY <1>1, <1>2, <1>3
<1>5. Extends(blocks, bs, 0, cur, seq)
  BY Sizes, EmitExtendsHere
<1> HIDE DEF bs, seq
<1>6. Lowers(0, seq)
  BY <1>1, <1>2, <1>4, <1>5, EmitLinkLowers
<1> QED
  BY <1>6 DEF seq

\* Inside a loop the context is that loop's.
LEMMA InLoopContext ==
    ASSUME Control, InLoop
    PROVE  entryB \in 3..Len(blocks) /\ mergeB \in 3..Len(blocks)
<1>1. frames \in Seq(FramesNow) /\ ContextIs(frames, Len(frames), entryB, mergeB)
  BY DEF Control, Typed, ContextOK, FramesNow
<1>2. PICK i \in DOMAIN frames : frames[i].k = "body"
  BY DEF InLoop
<1>3. i \in Loops(frames, Len(frames))
  BY <1>1, <1>2 DEF Loops, LoopKinds
<1>4. PICK j \in Loops(frames, Len(frames)) :
         entryB = frames[j].entry /\ mergeB = frames[j].merge
  BY <1>1, <1>3 DEF ContextIs
<1>5. frames[j] \in FramesNow /\ frames[j].k \in LoopKinds
  BY <1>1, <1>4 DEF Loops
<1>6. frames[j] \in [k : LoopKinds, stmt : BOOLEAN, entry : 3..Len(blocks),
                     body : 3..Len(blocks), merge : 3..Len(blocks),
                     preEntry : 0..Len(blocks), preMerge : 0..Len(blocks)]
  BY <1>5, FrameFields DEF FramesNow
<1> QED
  BY <1>4, <1>6

LEMMA BreakLowers ==
    ASSUME Control, NEW isBreak, BreakOrContinue(isBreak)
    PROVE  LET b == IF isBreak THEN mergeB ELSE entryB
           IN b \in 3..Len(blocks) /\ Lowers(0, <<Jump(b)>>)
<1> DEFINE b == IF isBreak THEN mergeB ELSE entryB
<1>1. InLoop /\ nsym' = nsym /\ blocks' = Emit(blocks, cur, <<Jump(b)>>)
  BY DEF BreakOrContinue, symbols
<1>2. b \in 3..Len(blocks)
  BY <1>1, InLoopContext
<1> HIDE DEF b
<1>3. Jump(b) \in Instrs(nsym, Len(blocks))
  BY <1>2, Sizes, InstrsTyped
<1>4. <<Jump(b)>> \in Seq(Instrs(nsym', Len(blocks))) /\ nsym' \in Nat /\ nsym <= nsym'
  BY <1>1, <1>3, Sizes
<1>5. Lowers(0, <<Jump(b)>>)
  BY <1>1, <1>4, EmitLowers, Zenon
<1> QED
  BY <1>2, <1>5 DEF b

ShortCircuitCode ==
    <<Alloc(nsym + 1), Store(Literal, nsym + 1), BExpr(nsym + 2, val, Literal),
      Br(nsym + 2, Len(blocks) + 1, Len(blocks) + 2)>>

LEMMA AfterLhsLowers ==
    ASSUME Control, AfterLhs
    PROVE  Lowers(2, ShortCircuitCode)
<1> DEFINE n == Len(blocks)
           s == nsym + 2
           bs == Emit(Create(blocks, 2), cur, ShortCircuitCode)
<1>1. /\ nsym' = s
      /\ blocks' = link_bb(link_bb(bs, cur, n + 1), cur, n + 2)
  BY DEF AfterLhs, ShortCircuitCode
<1>2. /\ n + 1 \in 1..n + 2 /\ n + 2 \in 1..n + 2 /\ n + 2 \in Nat /\ s \in Nat
      /\ nsym <= s /\ nsym + 1 \in 0..s /\ nsym + 2 \in 0..s /\ val \in 0..s
      /\ 0 \in 0..s /\ 0 \in -1..s /\ 2 \in Nat
  BY Sizes
<1> HIDE DEF s
<1>3. /\ Alloc(nsym + 1) \in Instrs(s, n + 2)
      /\ Store(Literal, nsym + 1) \in Instrs(s, n + 2)
      /\ BExpr(nsym + 2, val, Literal) \in Instrs(s, n + 2)
      /\ Br(nsym + 2, n + 1, n + 2) \in Instrs(s, n + 2)
  BY <1>2, InstrsTyped DEF Literal
<1>4. ShortCircuitCode \in Seq(Instrs(nsym', n + 2)) /\ nsym' \in Nat /\ nsym <= nsym'
  BY <1>1, <1>2, <1>3 DEF ShortCircuitCode
<1>5. Extends(blocks, bs, 2, cur, ShortCircuitCode)
  BY <1>2, Sizes, EmitExtends
<1> HIDE DEF bs
<1> QED
  BY <1>1, <1>2, <1>4, <1>5, EmitLinkLowers

RhsCode == <<BExpr(nsym + 1, val, Literal), Load(Top.ret, nsym + 1),
             Jump(Top.merge)>>

LEMMA AfterRhsLowers ==
    ASSUME Control, AfterRhs, ~Terminated
    PROVE  /\ Top.merge \in 3..Len(blocks) /\ Top.ret \in 0..nsym
           /\ Lowers(0, RhsCode)
<1> DEFINE B == Len(blocks)
           s == nsym + 1
           bs == Emit(blocks, cur, RhsCode)
<1>1. /\ nsym' = s /\ mode # "done" /\ Top.k = "rhs"
      /\ blocks' = link_bb(bs, cur, Top.merge)
  BY DEF AfterRhs, RhsCode
<1>2. Top.merge \in 3..Len(blocks) /\ Top.ret \in 0..nsym
  BY <1>1, TopFrame, FrameFields DEF FramesNow
<1>3. /\ B \in Nat /\ B + 0 = B /\ s \in Nat /\ nsym <= s /\ nsym + 1 \in 0..s
      /\ val \in 0..s /\ 0 \in 0..s /\ Top.merge \in 1..B /\ Top.ret \in 0..s
  <2>1. Len(blocks) \in Nat /\ nsym \in Nat /\ val \in 0..nsym
    BY Sizes
  <2> QED
    BY <1>2, <2>1
<1> HIDE DEF s
<1>4. /\ BExpr(nsym + 1, val, Literal) \in Instrs(s, B)
      /\ Load(Top.ret, nsym + 1) \in Instrs(s, B) /\ Jump(Top.merge) \in Instrs(s, B)
  BY <1>3, InstrsTyped DEF Literal
<1>5. RhsCode \in Seq(Instrs(nsym', B + 0)) /\ nsym' \in Nat /\ nsym <= nsym'
  BY <1>1, <1>3, <1>4 DEF RhsCode
<1>6. Extends(blocks, bs, 0, cur, RhsCode)
  BY Sizes, EmitExtendsHere
<1> HIDE DEF bs
<1>7. Lowers(0, RhsCode)
  BY <1>1, <1>3, <1>5, <1>6, EmitLinkLowers
<1> QED
  BY <1>2, <1>7

-----------------------------------------------------------------------------
(* A return.                                                                  *)

SlotCode(s) == <<Load(s + 1, s), Ret(s + 1)>>

LEMMA SlotGives ==
    ASSUME NEW bs, IsBlocks(bs), Len(bs) >= 2, NEW s
    PROVE  /\ IsBlocks(WithSlot(bs, s)) /\ Len(WithSlot(bs, s)) = Len(bs)
           /\ DOMAIN WithSlot(bs, s) = DOMAIN bs
           /\ \A c \in DOMAIN bs :
                 /\ WithSlot(bs, s)[c].instrs
                      = IF c = Entry THEN <<Alloc(s)>> \o bs[c].instrs
                        ELSE IF c = Exit THEN bs[c].instrs \o SlotCode(s)
                        ELSE bs[c].instrs
                 /\ WithSlot(bs, s)[c].term
                      = IF c = Exit THEN TRUE ELSE bs[c].term
<1> DEFINE mid == [bs EXCEPT ![Entry].instrs = <<Alloc(s)>> \o @,
                             ![Entry].list = create_first(@, Alloc(s))]
           bs2 == Emit(mid, Exit, SlotCode(s))
           S == {mid[c] : c \in DOMAIN bs}
<1>1. /\ Len(bs) \in Nat /\ DOMAIN bs = 1..Len(bs)
      /\ Entry \in DOMAIN bs /\ Exit \in DOMAIN bs /\ Entry # Exit
  BY BlocksLen DEF Entry, Exit
<1>2. \A c \in DOMAIN bs :
         /\ DOMAIN bs[c] = Fields /\ bs[c].term \in BOOLEAN
         /\ bs[c].pre \in Seq(1..Len(bs)) /\ bs[c].next \in Seq(1..Len(bs))
  BY DEF IsBlocks
<1>3. "instrs" \in Fields /\ "list" \in Fields
  BY DEF Fields
<1>4. /\ DOMAIN mid = DOMAIN bs /\ DOMAIN mid[Entry] = Fields
      /\ \A c \in DOMAIN bs : c # Entry => mid[c] = bs[c]
      /\ mid[Entry].instrs = <<Alloc(s)>> \o bs[Entry].instrs
      /\ mid[Entry].term = bs[Entry].term
      /\ mid[Entry].pre = bs[Entry].pre /\ mid[Entry].next = bs[Entry].next
  BY <1>1, <1>2, <1>3 DEF Fields
<1>5. mid = [c \in 1..Len(bs) |-> mid[c]]
  BY <1>1, <1>4
<1>6. \A c \in 1..Len(bs) : mid[c] \in S
  BY <1>1
<1> HIDE DEF mid, S
<1>7. mid \in Seq(S) /\ Len(mid) = Len(bs)
  BY <1>1, <1>5, <1>6
<1>8. mid \in Seq({mid[c] : c \in DOMAIN mid})
  BY <1>7, BlocksFrom
<1>9. ASSUME NEW c \in DOMAIN mid
      PROVE  /\ DOMAIN mid[c] = Fields /\ mid[c].term \in BOOLEAN
             /\ mid[c].pre \in Seq(1..Len(mid)) /\ mid[c].next \in Seq(1..Len(mid))
  <2>1. CASE c = Entry
    BY <1>1, <1>2, <1>4, <1>7, <2>1
  <2>2. CASE c # Entry
    BY <1>2, <1>4, <1>7, <2>2
  <2> QED
    BY <2>1, <2>2
<1>10. IsBlocks(mid)
  BY <1>8, <1>9 DEF IsBlocks
<1>11. Extends(mid, bs2, 0, Exit, SlotCode(s))
  BY <1>1, <1>4, <1>10, EmitExtendsHere
<1>12. HasEnd(SlotCode(s))
  <2>1. 2 \in DOMAIN SlotCode(s) /\ SlotCode(s)[2] = Ret(s + 1)
    BY DEF SlotCode
  <2>2. IsEnd(Ret(s + 1))
    BY DEF IsEnd, Ret, Instr
  <2> QED
    BY <2>1, <2>2, Zenon DEF HasEnd
<1>13. bs2 = WithSlot(bs, s)
  BY DEF WithSlot, mid, SlotCode
<1> HIDE DEF bs2
<1>14. IsBlocks(bs2) /\ Len(bs2) = Len(bs) /\ DOMAIN bs2 = DOMAIN bs
  BY <1>1, <1>7, <1>11, BlocksLen DEF Extends
<1>15. ASSUME NEW c \in DOMAIN bs
       PROVE  /\ bs2[c].instrs = IF c = Exit THEN mid[c].instrs \o SlotCode(s)
                                 ELSE mid[c].instrs
              /\ bs2[c].term = IF c = Exit THEN mid[c].term \/ HasEnd(SlotCode(s))
                               ELSE mid[c].term
  BY <1>4, <1>11, <1>14, <1>15, Zenon DEF Extends
<1>16. ASSUME NEW c \in DOMAIN bs
       PROVE  /\ bs2[c].instrs = IF c = Entry THEN <<Alloc(s)>> \o bs[c].instrs
                                 ELSE IF c = Exit THEN bs[c].instrs \o SlotCode(s)
                                 ELSE bs[c].instrs
              /\ bs2[c].term = IF c = Exit THEN TRUE ELSE bs[c].term
  <2>1. CASE c = Entry
    BY <1>1, <1>4, <1>15, <2>1, Zenon
  <2>2. CASE c = Exit
    <3>1. mid[c] = bs[c] /\ bs2[c].term = (mid[c].term \/ HasEnd(SlotCode(s)))
      BY <1>1, <1>4, <1>15, <2>2, Zenon
    <3>2. bs2[c].term = TRUE
      BY <1>12, <3>1, Zenon
    <3> QED
      BY <1>1, <1>15, <2>2, <3>1, <3>2, Zenon
  <2>3. CASE c # Entry /\ c # Exit
    BY <1>4, <1>15, <2>3, Zenon
  <2> QED
    BY <2>1, <2>2, <2>3
<1> QED
  BY <1>13, <1>14, <1>16

\* Where the return value is stored, and the blocks it is stored from.
SlotNow == IF slot = Null THEN nsym + 1 ELSE slot
BlocksNow == IF slot = Null THEN WithSlot(blocks, nsym + 1) ELSE blocks

LEMMA BlocksNowGives ==
    ASSUME Control, NEW n2 \in Nat, nsym <= n2, slot = Null => nsym + 2 <= n2
    PROVE  /\ IsBlocks(BlocksNow) /\ Len(BlocksNow) = Len(blocks)
           /\ DOMAIN BlocksNow = DOMAIN blocks
           /\ Code(BlocksNow, n2) /\ SlotNow \in 0..n2
<1> DEFINE s == nsym + 1
           I == Instrs(n2, Len(blocks))
<1>1. /\ IsBlocks(blocks) /\ Len(blocks) >= 2 /\ nsym \in Nat /\ slot \in 0..nsym
      /\ Len(blocks) \in Nat
  BY Sizes
<1>2. Code(blocks, n2)
  <2>1. Seq(Instrs(nsym, Len(blocks))) \subseteq Seq(I)
    <3>1. Instrs(nsym, Len(blocks)) \subseteq I
      BY <1>1, InstrsGrow
    <3> HIDE DEF I
    <3> QED
      BY <3>1
  <2> QED
    BY <2>1, Sizes DEF Code
<1>3. CASE slot # Null
  BY <1>1, <1>2, <1>3 DEF BlocksNow, SlotNow
<1>4. CASE slot = Null
  <2> DEFINE bs == WithSlot(blocks, s)
  <2>1. /\ IsBlocks(bs) /\ Len(bs) = Len(blocks) /\ DOMAIN bs = DOMAIN blocks
        /\ \A c \in DOMAIN blocks :
              bs[c].instrs = IF c = Entry THEN <<Alloc(s)>> \o blocks[c].instrs
                             ELSE IF c = Exit THEN blocks[c].instrs \o SlotCode(s)
                             ELSE blocks[c].instrs
    BY <1>1, SlotGives
  <2>2. /\ s \in 0..n2 /\ s + 1 \in 0..n2
    BY <1>1, <1>4
  <2> HIDE DEF s
  <2>3. Alloc(s) \in I /\ Load(s + 1, s) \in I /\ Ret(s + 1) \in I
    BY <1>1, <2>2, InstrsTyped
  <2> HIDE DEF bs, I
  <2>4. <<Alloc(s)>> \in Seq(I) /\ SlotCode(s) \in Seq(I)
    BY <2>3 DEF SlotCode
  <2>5. \A c \in DOMAIN blocks : blocks[c].instrs \in Seq(I)
    BY <1>2 DEF Code, I
  <2>6. \A c \in DOMAIN blocks :
           /\ <<Alloc(s)>> \o blocks[c].instrs \in Seq(I)
           /\ blocks[c].instrs \o SlotCode(s) \in Seq(I)
    BY <2>4, <2>5
  <2>7. \A c \in DOMAIN bs : bs[c].instrs \in Seq(I)
    BY <2>1, <2>5, <2>6, Zenon
  <2>8. Code(bs, n2)
    BY <2>1, <2>7, Zenon DEF Code, I
  <2> QED
    BY <1>4, <2>1, <2>2, <2>8 DEF BlocksNow, SlotNow, bs, s
<1> QED
  BY <1>3, <1>4

LEMMA ReturnLowers ==
    ASSUME Control, NEW v \in -1..nsym, StoreAndLeave(v)
    PROVE  /\ nsym' \in Nat /\ nsym <= nsym'
           /\ slot = Null => nsym + 2 <= nsym'
           /\ Extends(BlocksNow, blocks', 0, cur, <<Store(v, SlotNow), Jump(Exit)>>)
           /\ IsBlocks(blocks') /\ Code(blocks', nsym')
           /\ Len(blocks') = Len(blocks)
           /\ slot' = SlotNow /\ SlotNow \in 0..nsym'
<1> DEFINE B == Len(blocks)
           seq == <<Store(v, SlotNow), Jump(Exit)>>
<1>1. /\ B \in Nat /\ B >= 2 /\ nsym \in Nat /\ cur \in DOMAIN blocks
  BY Sizes
<1>2. /\ nsym' \in Nat /\ nsym <= nsym' /\ (slot = Null => nsym + 2 <= nsym')
  <2>1. CASE slot = Null
    BY <1>1, <2>1 DEF StoreAndLeave
  <2>2. CASE slot # Null
    BY <1>1, <2>2 DEF StoreAndLeave, symbols
  <2> QED
    BY <2>1, <2>2
<1>3. /\ IsBlocks(BlocksNow) /\ Len(BlocksNow) = B
      /\ DOMAIN BlocksNow = DOMAIN blocks
      /\ Code(BlocksNow, nsym') /\ SlotNow \in 0..nsym'
  BY <1>2, BlocksNowGives
<1>4. slot' = SlotNow /\ blocks' = Emit(BlocksNow, cur, seq)
  BY DEF StoreAndLeave, SlotNow, BlocksNow
<1>5. Extends(BlocksNow, blocks', 0, cur, seq)
  BY <1>1, <1>3, <1>4, EmitExtendsHere
<1>6. v \in -1..nsym' /\ Exit \in 1..B /\ B + 0 = B
  BY <1>1, <1>2 DEF Exit
<1>7. Store(v, SlotNow) \in Instrs(nsym', B) /\ Jump(Exit) \in Instrs(nsym', B)
  BY <1>1, <1>2, <1>3, <1>6, InstrsTyped
<1>8. seq \in Seq(Instrs(nsym', Len(BlocksNow) + 0))
  BY <1>3, <1>6, <1>7
<1> HIDE DEF seq
<1>9. Code(blocks', nsym')
  <2>1. /\ nsym' \in Nat /\ nsym' <= nsym' /\ 0 \in Nat /\ cur \in DOMAIN BlocksNow
        /\ IsBlocks(BlocksNow) /\ Code(BlocksNow, nsym')
    BY <1>1, <1>2, <1>3
  <2> QED
    BY <1>5, <1>8, <2>1, ExtendsCode, Zenon
<1>10. IsBlocks(blocks') /\ Len(blocks') = B
  BY <1>1, <1>3, <1>5 DEF Extends
<1> QED
  BY <1>2, <1>3, <1>4, <1>5, <1>9, <1>10 DEF seq

\* A new entry of the symbol table names an existing symbol.
LEMMA PutGives ==
    ASSUME NEW S, NEW t, \A x \in DOMAIN t : t[x] \in S, NEW a, NEW s \in S
    PROVE  /\ DOMAIN Put(t, a, s) = {a} \cup DOMAIN t
           /\ Put(t, a, s)[a] = s
           /\ \A x \in DOMAIN t : x # a => Put(t, a, s)[x] = t[x]
           /\ \A x \in DOMAIN Put(t, a, s) : Put(t, a, s)[x] \in S
BY DEF Put

-----------------------------------------------------------------------------
(* Control is kept by each step. First those that lower nothing.              *)

\* No step but a change of the mode, the frames and the visible variables.
Quiet ==
    /\ UNCHANGED <<blocks, cur, entryB, mergeB, val, slot, nsym, tmps, symTab,
                   irvar, name>>
    /\ nodes' \in 0..MaxNodes /\ vis' \subseteq 1..Len(irvar)

LEMMA QuietGrows ==
    ASSUME Control, Quiet
    PROVE  Grows
BY SameGrows DEF Control, Quiet

LEMMA QuietKeeps ==
    ASSUME Control, Quiet, mode' \in Modes, frames' \in Seq(FramesNow'),
           StackOK(mode', frames'), ContextOK(frames', entryB', mergeB')
    PROVE  Control'
<1>1. Typed /\ Grows
  BY QuietGrows DEF Control
<1>2. cur' \in DOMAIN blocks' /\ vis' \subseteq 1..Len(irvar')
  BY <1>1 DEF Quiet, Typed
<1>3. Typed'
  BY <1>1, <1>2, TypedRest DEF Quiet
<1> QED
  BY <1>3 DEF Control

\* The stack stays what it is, and so do the words of the mode for it.
LEMMA QuietStays ==
    ASSUME Control, Quiet, UNCHANGED frames,
           \/ mode' = mode
           \/ mode = "stmt" /\ mode' = "next"
           \/ mode = "exp" /\ mode' \in {"value", "crash"}
    PROVE  Control'
<1>1. mode' \in Modes
  BY DEF Control, Typed, Modes
<1>2. StackOK(mode', frames')
  BY DEF Control, StackOK
<1>3. ContextOK(frames', entryB', mergeB')
  BY DEF Control, Quiet
<1>4. frames' \in Seq(FramesNow')
  BY QuietGrows, Wider DEF Control
<1> QED
  BY <1>1, <1>2, <1>3, <1>4, QuietKeeps

LEMMA NodesTyped ==
    ASSUME Control
    PROVE  /\ NextNode => nodes' \in 0..MaxNodes
           /\ nodes < MaxNodes /\ nodes' = nodes + 1 => nodes' \in 0..MaxNodes
           /\ UNCHANGED nodes => nodes' \in 0..MaxNodes
           /\ HasRoom => nodes' \in 0..MaxNodes
BY GenIRAssumption DEF Control, Typed, NextNode, HasRoom

LEMMA AtStmtModes ==
    /\ AtStmt => mode \in {"next", "stmt"}
    /\ AtItem => AtStmt /\ mode = "next"
    /\ HasRoom => mode \in {"next", "stmt"} /\ AtStmt
BY DEF AtStmt, AtItem, HasRoom

LEMMA SkipStmtControl ==
    ASSUME Control, SkipStmt
    PROVE  Control'
<1>1. Quiet /\ UNCHANGED frames
  BY NodesTyped DEF SkipStmt, Quiet, context, symbols, variables, Control, Typed
<1>2. mode \in {"next", "stmt"} /\ mode' = "next"
  BY AtStmtModes DEF SkipStmt
<1> QED
  BY <1>1, <1>2, QuietStays

LEMMA IfEmptyControl ==
    ASSUME Control, IfEmpty
    PROVE  Control'
<1>1. Quiet /\ UNCHANGED frames
  BY NodesTyped DEF IfEmpty, Quiet, context, symbols, variables, Control, Typed
<1>2. mode \in {"next", "stmt"} /\ mode' = "next"
  BY AtStmtModes DEF IfEmpty
<1> QED
  BY <1>1, <1>2, QuietStays

LEMMA OpenBlockControl ==
    ASSUME Control, OpenBlock
    PROVE  Control'
<1> DEFINE f == [k |-> "block", vis |-> vis]
<1>1. Quiet /\ frames' = Append(frames, f) /\ mode' = "next"
  BY NodesTyped DEF OpenBlock, Quiet, context, symbols, variables, Control, Typed
<1>2. mode \in {"next", "stmt"}
  BY AtStmtModes DEF OpenBlock
<1>3. Grows
  BY <1>1, QuietGrows
<1>4. f \in FramesNow'
  <2>1. vis \in SUBSET (1..Len(irvar'))
    BY <1>1 DEF Quiet, Control, Typed
  <2> QED
    BY <2>1, FramesMade DEF FramesNow
<1>5. f.k = "block" /\ f.k \notin LoopKinds
  BY DEF LoopKinds
<1> HIDE DEF f
<1>6. /\ frames' \in Seq(FramesNow') /\ mode' \in Modes
      /\ StackOK(mode', frames') /\ ContextOK(frames', entryB', mergeB')
  BY <1>1, <1>2, <1>3, <1>4, <1>5, Pushed DEF Quiet
<1> QED
  BY <1>1, <1>6, QuietKeeps

LEMMA CloseBlockControl ==
    ASSUME Control, CloseBlock
    PROVE  Control'
<1>1. /\ mode = "next" /\ Top.k = "block" /\ frames' = Rest
      /\ mode' = IF Len(frames) = 1 THEN "done" ELSE "next"
  BY DEF CloseBlock, AtItem
<1>2. Top \in FramesNow
  BY <1>1, TopFrame
<1>3. Top.vis \in SUBSET (1..Len(irvar))
  BY <1>1, <1>2, FrameFields DEF FramesNow
<1>4. Quiet
  BY <1>3, NodesTyped DEF CloseBlock, Quiet, context, symbols
<1>5. Top.k \notin LoopKinds /\ mode' \in Modes
  BY <1>1 DEF LoopKinds, Modes
<1>6. /\ frames' \in Seq(FramesNow')
      /\ StackOK(mode', frames') /\ ContextOK(frames', entryB', mergeB')
  BY <1>1, <1>4, <1>5, QuietGrows, Popped DEF Quiet
<1> QED
  BY <1>4, <1>5, <1>6, QuietKeeps

\* An expression of a statement is about to be visited.
LEMMA HeadPushed ==
    ASSUME Control, Grows, NEW f \in FramesNow', AtStmt, Evaluate(f),
           UNCHANGED <<entryB, mergeB>>,
           f.k \in {"init", "exp", "assign", "ret", "if"}
    PROVE  /\ frames' \in Seq(FramesNow') /\ mode' \in Modes
           /\ StackOK(mode', frames') /\ ContextOK(frames', entryB', mergeB')
<1>1. mode \in {"next", "stmt"} /\ mode' = "exp" /\ frames' = Append(frames, f)
  BY AtStmtModes DEF Evaluate
<1>2. f.k \in HeadKinds /\ f.k \notin LoopKinds
  BY DEF HeadKinds, LoopKinds
<1> QED
  BY <1>1, <1>2, Pushed

LEMMA HeadControl ==
    ASSUME Control, Quiet, NEW f \in FramesNow', AtStmt, Evaluate(f),
           f.k \in {"init", "exp", "assign", "ret", "if"}
    PROVE  Control'
BY QuietGrows, HeadPushed, QuietKeeps DEF Quiet

LEMMA ExpStmtControl ==
    ASSUME Control, ExpStmt
    PROVE  Control'
<1>1. Quiet /\ AtStmt /\ Evaluate([k |-> "exp"])
  BY NodesTyped DEF ExpStmt, Quiet, context, symbols, variables, Control, Typed
<1>2. [k |-> "exp"] \in FramesNow'
  BY FramesMade DEF FramesNow
<1> QED
  BY <1>1, <1>2, HeadControl

LEMMA ReturnExpControl ==
    ASSUME Control, ReturnExp
    PROVE  Control'
<1>1. Quiet /\ AtStmt /\ Evaluate([k |-> "ret"])
  BY NodesTyped DEF ReturnExp, Quiet, context, symbols, variables, Control, Typed
<1>2. [k |-> "ret"] \in FramesNow'
  BY FramesMade DEF FramesNow
<1> QED
  BY <1>1, <1>2, HeadControl

LEMMA AssignControl ==
    ASSUME Control, NEW v \in vis, Assign(v)
    PROVE  Control'
<1> DEFINE f == [k |-> "assign", var |-> v]
<1>1. Quiet /\ AtStmt /\ Evaluate(f)
  BY NodesTyped DEF Assign, Quiet, context, symbols, variables, Control, Typed
<1>2. v \in 1..Len(irvar')
  BY <1>1 DEF Quiet, Control, Typed
<1>3. f \in FramesNow' /\ f.k = "assign"
  BY <1>2, FramesMade DEF FramesNow
<1> HIDE DEF f
<1> QED
  BY <1>1, <1>3, HeadControl

LEMMA IfControl ==
    ASSUME Control, NEW then \in BOOLEAN, NEW else \in BOOLEAN, If(then, else)
    PROVE  Control'
<1> DEFINE f == [k |-> "if", then |-> then, else |-> else]
<1>1. Quiet /\ AtStmt /\ Evaluate(f)
  BY NodesTyped DEF If, Quiet, context, symbols, variables, Control, Typed
<1>2. f \in FramesNow' /\ f.k = "if"
  BY FramesMade DEF FramesNow
<1> HIDE DEF f
<1> QED
  BY <1>1, <1>2, HeadControl

LEMMA OperationControl ==
    ASSUME Control, NEW f \in FramesNow', NEW kind, Operation(f, kind),
           f.k \in OperandKinds
    PROVE  Control'
<1>1. Quiet /\ mode = "exp" /\ mode' = "exp" /\ frames' = Append(frames, f)
  BY NodesTyped DEF Operation, AtExp, Evaluate, Quiet, context, symbols, variables,
                    Control, Typed
<1>2. f.k \notin LoopKinds
  BY DEF OperandKinds, LoopKinds
<1>3. /\ frames' \in Seq(FramesNow') /\ mode' \in Modes
      /\ StackOK(mode', frames') /\ ContextOK(frames', entryB', mergeB')
  BY <1>1, <1>2, QuietGrows, Pushed DEF Quiet
<1> QED
  BY <1>1, <1>3, QuietKeeps

LEMMA OperandControl ==
    ASSUME Control, \/ Binary \/ Logical \/ \E op \in {"+", "-", "!"} : Unary(op)
    PROVE  Control'
<1>1. /\ [k |-> "opnd1"] \in FramesNow' /\ [k |-> "lhs"] \in FramesNow'
      /\ \A op \in {"+", "-", "!"} : [k |-> "unary", op |-> op] \in FramesNow'
  BY FramesMade DEF FramesNow
<1>2. /\ [k |-> "opnd1"].k \in OperandKinds /\ [k |-> "lhs"].k \in OperandKinds
      /\ \A op \in {"+", "-", "!"} : [k |-> "unary", op |-> op].k \in OperandKinds
  BY DEF OperandKinds
<1>3. CASE Binary
  BY <1>1, <1>2, <1>3, OperationControl, Zenon DEF Binary
<1>4. CASE Logical
  BY <1>1, <1>2, <1>4, OperationControl, Zenon DEF Logical
<1>5. ASSUME NEW op \in {"+", "-", "!"}, Unary(op)
      PROVE  Control'
  BY <1>1, <1>2, <1>5, OperationControl, Zenon DEF Unary
<1> QED
  BY <1>3, <1>4, <1>5

LEMMA AfterOpnd1Control ==
    ASSUME Control, AfterOpnd1
    PROVE  Control'
<1> DEFINE f == [k |-> "opnd2", val1 |-> val]
<1>1. /\ Quiet /\ mode = "value" /\ Top.k = "opnd1" /\ mode' = "exp"
      /\ frames' = Append(Rest, f)
  BY NodesTyped DEF AfterOpnd1, Quiet, context, symbols, variables, Control, Typed
<1>2. val \in 0..nsym'
  BY <1>1 DEF Quiet, Control, Typed
<1>3. f \in FramesNow' /\ f.k = "opnd2"
  BY <1>2, FramesMade DEF FramesNow
<1> HIDE DEF f
<1>4. Top.k \in OperandKinds /\ f.k \in OperandKinds
  BY <1>1, <1>3 DEF OperandKinds
<1>5. Top.k \notin LoopKinds /\ f.k \notin LoopKinds
  BY <1>1, <1>3 DEF LoopKinds
<1>6. /\ frames' \in Seq(FramesNow') /\ mode' \in Modes
      /\ StackOK(mode', frames') /\ ContextOK(frames', entryB', mergeB')
  BY <1>1, <1>3, <1>4, <1>5, QuietGrows, Swapped DEF Quiet
<1> QED
  BY <1>1, <1>6, QuietKeeps

LEMMA AfterExpStmtControl ==
    ASSUME Control, AfterExpStmt
    PROVE  Control'
<1>1. /\ Quiet /\ mode = "value" /\ Top.k = "exp" /\ mode' = "next"
      /\ frames' = Rest
  BY NodesTyped DEF AfterExpStmt, Quiet, context, symbols, variables, Control, Typed
<1>2. Top.k \in HeadKinds /\ Top.k \notin LoopKinds /\ mode' \in Modes
  BY <1>1 DEF HeadKinds, LoopKinds, Modes
<1>3. /\ frames' \in Seq(FramesNow')
      /\ StackOK(mode', frames') /\ ContextOK(frames', entryB', mergeB')
  BY <1>1, <1>2, QuietGrows, Popped DEF Quiet
<1> QED
  BY <1>1, <1>2, <1>3, QuietKeeps

LEMMA NumberControl ==
    ASSUME Control, Number
    PROVE  Control'
<1>1. /\ UNCHANGED <<frames, blocks, cur, entryB, mergeB, slot, nsym, tmps, symTab,
                     irvar, name, vis, nodes>>
      /\ mode = "exp" /\ mode' = "value" /\ val' = 0
  BY DEF Number, context, symbols, variables, Literal
<1>2. Grows
  BY <1>1, SameGrows DEF Control
<1>3. frames' \in Seq(FramesNow')
  BY <1>1, <1>2, Wider DEF Control
<1>4. Typed'
  BY <1>1, <1>2, <1>3, TypedAgain DEF Control, Typed, Modes
<1>5. StackOK(mode', frames') /\ ContextOK(frames', entryB', mergeB')
  BY <1>1 DEF Control, StackOK
<1> QED
  BY <1>4, <1>5 DEF Control

-----------------------------------------------------------------------------
(* Declarations.                                                              *)

\* What the entries of the symbol table name stays there.
LEMMA TableTyped ==
    ASSUME Control, Grows, NEW s \in 0..nsym'
    PROVE  /\ \A a, x : x \in DOMAIN Put(symTab, a, s) =>
                           Put(symTab, a, s)[x] \in 0..nsym'
           /\ \A x \in DOMAIN symTab : symTab[x] \in 0..nsym'
<1>1. \A x \in DOMAIN symTab : symTab[x] \in 0..nsym'
  BY Wider DEF Control, Typed
<1> QED
  BY <1>1, PutGives

LEMMA NewTmpTyped ==
    ASSUME Control, Grows, NEW s \in 0..nsym', NewTmp(s)
    PROVE  tmps' \in Nat /\ \A x \in DOMAIN symTab' : symTab'[x] \in 0..nsym'
BY TableTyped, Sizes DEF NewTmp

LEMMA DeclaresTyped ==
    ASSUME Control, NEW x \in NewNames, Declares(x), nsym' \in Nat, nsym <= nsym',
           NEW s \in 0..nsym', irvar' = Append(irvar, s)
    PROVE  /\ irvar' \in Seq(0..nsym') /\ Len(irvar') = Len(irvar) + 1
           /\ name' \in Seq(VarNames) /\ Len(name') = Len(irvar')
           /\ vis' \subseteq 1..Len(irvar') /\ Len(irvar) <= Len(irvar')
<1>1. /\ irvar \in Seq(0..nsym) /\ name \in Seq(VarNames) /\ Len(name) = Len(irvar)
      /\ vis \subseteq 1..Len(irvar) /\ nsym \in Nat
  BY DEF Control, Typed
<1>2. x \in VarNames
  <2>1. CASE \E v \in DOMAIN name : x = name[v]
    BY <1>1, <2>1
  <2>2. CASE x \in {Named(Declare), SlotName} \cup {Tmp(n) : n \in TempLike}
    BY <1>1, <2>2, GenIRAssumption DEF Named, Tmp, SlotName, Declare, VarNames
  <2> QED
    BY <2>1, <2>2 DEF NewNames
<1>3. name' = Append(name, x) /\ vis' = vis \cup {Len(irvar) + 1}
  BY DEF Declares, Declare
<1>4. irvar \in Seq(0..nsym')
  <2>1. 0..nsym \subseteq 0..nsym'
    BY <1>1
  <2> QED
    BY <1>1, <2>1
<1>5. irvar' \in Seq(0..nsym') /\ Len(irvar') = Len(irvar) + 1 /\ Len(irvar) \in Nat
  BY <1>4
<1>6. name' \in Seq(VarNames) /\ Len(name') = Len(name) + 1
  BY <1>1, <1>2, <1>3
<1>7. vis' \subseteq 1..Len(irvar')
  <2>1. /\ 1..Len(irvar) \subseteq 1..Len(irvar')
        /\ Len(irvar) + 1 \in 1..Len(irvar')
    BY <1>5
  <2> QED
    BY <1>1, <1>3, <2>1, Zenon
<1> QED
  BY <1>1, <1>5, <1>6, <1>7

LEMMA SkipDeclControl ==
    ASSUME Control, NEW x \in NewNames, SkipDecl(x)
    PROVE  Control'
<1>1. /\ Declares(x) /\ irvar' = Append(irvar, Null) /\ nodes' \in 0..MaxNodes
      /\ UNCHANGED <<mode, frames, blocks, cur, entryB, mergeB, val, slot, nsym,
                     tmps, symTab>>
  BY NodesTyped DEF SkipDecl, context, symbols
<1>2. Null \in 0..nsym' /\ nsym' \in Nat /\ nsym <= nsym'
  BY <1>1, Sizes DEF Null
<1>3. /\ irvar' \in Seq(0..nsym') /\ Len(irvar') = Len(irvar) + 1
      /\ name' \in Seq(VarNames) /\ Len(name') = Len(irvar')
      /\ vis' \subseteq 1..Len(irvar') /\ Len(irvar) <= Len(irvar')
  BY <1>1, <1>2, DeclaresTyped
<1>4. Grows
  BY <1>1, <1>2, <1>3, Sizes DEF Grows
<1>5. frames' \in Seq(FramesNow') /\ cur' \in DOMAIN blocks' /\ mode' \in Modes
  BY <1>1, <1>4, Wider DEF Control, Typed
<1>6. Typed'
  BY <1>1, <1>3, <1>4, <1>5, TypedRest DEF Control
<1> QED
  BY <1>1, <1>6 DEF Control

LEMMA DeclPlainControl ==
    ASSUME Control, NEW x \in NewNames, DeclPlain(x)
    PROVE  Control'
<1>1. /\ Declares(x) /\ irvar' = Append(irvar, nsym + 1) /\ nodes' \in 0..MaxNodes
      /\ nsym' = nsym + 1 /\ val' = nsym + 1 /\ symTab' = Put(symTab, x, nsym + 1)
      /\ UNCHANGED <<mode, frames, cur, entryB, mergeB, slot, tmps>>
  BY NodesTyped DEF DeclPlain, context
<1>2. nsym + 1 \in 0..nsym' /\ nsym' \in Nat /\ nsym <= nsym'
  BY <1>1, Sizes
<1>3. /\ irvar' \in Seq(0..nsym') /\ Len(irvar') = Len(irvar) + 1
      /\ name' \in Seq(VarNames) /\ Len(name') = Len(irvar')
      /\ vis' \subseteq 1..Len(irvar') /\ Len(irvar) <= Len(irvar')
  BY <1>1, <1>2, DeclaresTyped
<1>4. Lowers(0, <<Alloc(nsym + 1)>>) /\ Typed
  BY DeclPlainLowers DEF Control
<1>5. Grows
  BY <1>3, <1>4, LowersGrows
<1>6. /\ frames' \in Seq(FramesNow') /\ cur' \in DOMAIN blocks' /\ mode' \in Modes
      /\ entryB' \in 0..Len(blocks') /\ mergeB' \in 0..Len(blocks')
      /\ slot' \in 0..nsym' /\ tmps' \in Nat
  BY <1>1, <1>4, <1>5, Wider DEF Typed
<1>7. \A y \in DOMAIN symTab' : symTab'[y] \in 0..nsym'
  BY <1>1, <1>2, <1>5, TableTyped
<1>8. Typed'
  BY <1>1, <1>2, <1>3, <1>4, <1>5, <1>6, <1>7, TypedAgain
<1> QED
  BY <1>1, <1>8 DEF Control

LEMMA DeclInitControl ==
    ASSUME Control, NEW x \in NewNames, DeclInit(x)
    PROVE  Control'
<1> DEFINE f == [k |-> "init", var |-> Declare]
<1>1. /\ Declares(x) /\ irvar' = Append(irvar, Null) /\ nodes' \in 0..MaxNodes
      /\ UNCHANGED <<blocks, cur, entryB, mergeB, val, slot, nsym, tmps, symTab>>
      /\ AtStmt /\ Evaluate(f)
  BY NodesTyped, AtStmtModes DEF DeclInit, context, symbols
<1>2. Null \in 0..nsym' /\ nsym' \in Nat /\ nsym <= nsym'
  BY <1>1, Sizes DEF Null
<1>3. /\ irvar' \in Seq(0..nsym') /\ Len(irvar') = Len(irvar) + 1
      /\ name' \in Seq(VarNames) /\ Len(name') = Len(irvar')
      /\ vis' \subseteq 1..Len(irvar') /\ Len(irvar) <= Len(irvar')
  BY <1>1, <1>2, DeclaresTyped
<1>4. Grows
  BY <1>1, <1>2, <1>3, Sizes DEF Grows
<1>5. f \in FramesNow' /\ f.k = "init"
  <2>1. Declare \in 1..Len(irvar')
    BY <1>3, Sizes DEF Declare
  <2> QED
    BY <2>1, FramesMade DEF FramesNow
<1> HIDE DEF f
<1>6. /\ frames' \in Seq(FramesNow') /\ mode' \in Modes
      /\ StackOK(mode', frames') /\ ContextOK(frames', entryB', mergeB')
  BY <1>1, <1>4, <1>5, HeadPushed
<1>7. cur' \in DOMAIN blocks'
  BY <1>1, Sizes
<1>8. Typed'
  BY <1>1, <1>3, <1>4, <1>6, <1>7, TypedRest DEF Control
<1> QED
  BY <1>6, <1>8 DEF Control

\* A frame is popped at the end of a visit that lowered code, and nothing is
\* declared.
LEMMA PoppedControl ==
    ASSUME Control, Grows, frames' = Rest, mode' \in Modes,
           UNCHANGED <<entryB, mergeB, vis, nodes>>,
           cur' \in DOMAIN blocks', val' \in 0..nsym', slot' \in 0..nsym',
           tmps' \in Nat, \A x \in DOMAIN symTab' : symTab'[x] \in 0..nsym',
           Top.k \notin LoopKinds,
           \/ /\ mode = "value" /\ Top.k \in HeadKinds
              /\ mode' \in {"next", "crash"}
           \/ /\ mode = "value" /\ Top.k \in OperandKinds
              /\ mode' \in {"value", "crash"}
           \/ mode = "next" /\ Top.k \in StmtKinds \ {"block"} /\ mode' = "next"
    PROVE  Control'
<1>1. /\ frames' \in Seq(FramesNow')
      /\ StackOK(mode', frames') /\ ContextOK(frames', entryB', mergeB')
  BY Popped
<1>2. /\ entryB' \in 0..Len(blocks') /\ mergeB' \in 0..Len(blocks')
      /\ vis' \subseteq 1..Len(irvar') /\ nodes' \in 0..MaxNodes
  BY Wider DEF Control, Typed
<1>3. Typed'
  BY <1>1, <1>2, TypedAgain DEF Control
<1> QED
  BY <1>1, <1>3 DEF Control

LEMMA Replaced ==
    ASSUME NEW S, NEW q \in Seq(S), NEW s \in S, NEW i
    PROVE  /\ [q EXCEPT ![i] = s] \in Seq(S)
           /\ Len([q EXCEPT ![i] = s]) = Len(q)
<1>1. Len(q) \in Nat /\ DOMAIN q = 1..Len(q) /\ \A j \in 1..Len(q) : q[j] \in S
  OBVIOUS
<1> DEFINE q2 == [q EXCEPT ![i] = s]
<1>2. q2 = [j \in 1..Len(q) |-> IF j = i THEN s ELSE q[j]]
  BY <1>1
<1> HIDE DEF q2
<1>3. q2 \in Seq(S) /\ Len(q2) = Len(q)
  BY <1>1, <1>2
<1> QED
  BY <1>3 DEF q2

LEMMA AfterInitControl ==
    ASSUME Control, AfterInit
    PROVE  Control'
<1>1. /\ mode = "value" /\ Top.k = "init" /\ nsym' = nsym + 1 /\ val' = nsym + 1
      /\ irvar' = [irvar EXCEPT ![Top.var] = nsym + 1]
      /\ symTab' = Put(symTab, name[Top.var], nsym + 1)
      /\ mode' = "next" /\ frames' = Rest
      /\ UNCHANGED <<cur, entryB, mergeB, slot, name, vis, nodes, tmps>>
  BY DEF AfterInit, AddVar, context
<1>2. nsym + 1 \in 0..nsym' /\ nsym' \in Nat /\ nsym <= nsym' /\ slot' \in 0..nsym'
  BY <1>1, Sizes
<1>3. Lowers(0, <<Alloc(nsym + 1), Store(val, nsym + 1)>>) /\ Typed
  BY AfterInitLowers DEF Control
<1>4. irvar' \in Seq(0..nsym') /\ Len(irvar') = Len(irvar)
  <2>1. 0..nsym \subseteq 0..nsym' /\ irvar \in Seq(0..nsym)
    BY <1>2, <1>3, Sizes DEF Typed
  <2> DEFINE S == 0..nsym'
  <2>2. nsym + 1 \in S
    BY <1>2
  <2> HIDE DEF S
  <2>3. irvar \in Seq(S)
    <3>1. 0..nsym \subseteq S
      BY <2>1 DEF S
    <3>2. irvar \in Seq(0..nsym)
      BY <2>1
    <3> QED
      BY <3>1, <3>2, Widened, Zenon
  <2>4. [irvar EXCEPT ![Top.var] = nsym + 1] \in Seq(S)
    BY <2>2, <2>3, Replaced
  <2>5. Len([irvar EXCEPT ![Top.var] = nsym + 1]) = Len(irvar)
    BY <2>2, <2>3, Replaced
  <2> QED
    BY <1>1, <2>4, <2>5 DEF S
<1>5. Grows
  BY <1>1, <1>3, <1>4, Sizes, LowersGrows DEF Typed
<1>6. \A y \in DOMAIN symTab' : symTab'[y] \in 0..nsym'
  BY <1>1, <1>2, <1>5, TableTyped
<1>7. /\ cur' \in DOMAIN blocks' /\ tmps' \in Nat /\ mode' \in Modes
      /\ Top.k \notin LoopKinds /\ Top.k \in HeadKinds
  BY <1>1, <1>3, <1>5, Wider DEF Typed, Modes, LoopKinds, HeadKinds
<1> QED
  BY <1>1, <1>2, <1>5, <1>6, <1>7, PoppedControl

LEMMA LowersKeeps ==
    ASSUME Control, NEW k, NEW seq, Lowers(k, seq), UNCHANGED <<nsym, irvar, name>>
    PROVE  Grows
<1>1. irvar' \in Seq(0..nsym') /\ name' \in Seq(VarNames) /\ Len(name') = Len(irvar')
      /\ Len(irvar) <= Len(irvar')
  BY Sizes DEF Control, Typed
<1> QED
  BY <1>1, LowersGrows DEF Control

\* New symbols come above the old ones.
LEMMA BlocksStay ==
    ASSUME Control, Grows
    PROVE  /\ 3..Len(blocks) \subseteq DOMAIN blocks'
           /\ 0..Len(blocks) \subseteq 0..Len(blocks')
<1>1. /\ 0..Len(blocks) \subseteq 0..Len(blocks')
      /\ DOMAIN blocks \subseteq DOMAIN blocks'
  BY Wider DEF Control
<1>2. 3..Len(blocks) \subseteq DOMAIN blocks
  <2>1. Len(blocks) \in Nat /\ DOMAIN blocks = 1..Len(blocks)
    BY Sizes
  <2> QED
    BY <2>1
<1> QED
  BY <1>1, <1>2

LEMMA NewSymbols ==
    ASSUME Control, nsym' \in Nat, nsym <= nsym', NEW k, NEW seq, Lowers(k, seq),
           UNCHANGED <<irvar, name>>
    PROVE  Grows
<1>1. irvar' \in Seq(0..nsym')
  <2>1. 0..nsym \subseteq 0..nsym' /\ irvar \in Seq(0..nsym)
    BY Sizes DEF Control, Typed
  <2>2. irvar \in Seq(0..nsym')
    BY <2>1, Widened, Zenon
  <2> QED
    BY <2>2
<1>2. name' \in Seq(VarNames) /\ Len(name') = Len(irvar') /\ Len(irvar) <= Len(irvar')
  BY Sizes DEF Control, Typed
<1> QED
  BY <1>1, <1>2, LowersGrows DEF Control

LEMMA AfterAssignControl ==
    ASSUME Control, AfterAssign
    PROVE  Control'
<1>1. /\ mode = "value" /\ Top.k = "assign" /\ frames' = Rest
      /\ UNCHANGED <<cur, entryB, mergeB, val, slot, nsym, tmps, symTab, irvar,
                     name, vis, nodes>>
      /\ mode' \in {"next", "crash"}
  BY DEF AfterAssign, context, symbols, variables
<1>2. Grows
  <2>1. CASE name[Top.var] \in DOMAIN symTab
    BY <1>1, <2>1, AfterAssignLowers, LowersKeeps
  <2>2. CASE name[Top.var] \notin DOMAIN symTab
    BY <1>1, <2>2, SameGrows DEF AfterAssign, Control
  <2> QED
    BY <2>1, <2>2
<1>3. /\ cur' \in DOMAIN blocks' /\ val' \in 0..nsym' /\ slot' \in 0..nsym'
      /\ tmps' \in Nat /\ \A x \in DOMAIN symTab' : symTab'[x] \in 0..nsym'
  BY <1>1, <1>2, Wider DEF Control, Typed
<1>4. Top.k \notin LoopKinds /\ Top.k \in HeadKinds /\ mode' \in Modes
  BY <1>1 DEF LoopKinds, HeadKinds, Modes
<1> QED
  BY <1>1, <1>2, <1>3, <1>4, PoppedControl

\* A return.
LEMMA ReturnGrows ==
    ASSUME Control, NEW v \in -1..nsym, StoreAndLeave(v), UNCHANGED <<irvar, name>>
    PROVE  /\ Grows /\ DOMAIN blocks' = DOMAIN blocks /\ slot' \in 0..nsym'
           /\ tmps' \in Nat /\ \A x \in DOMAIN symTab' : symTab'[x] \in 0..nsym'
<1>1. /\ nsym' \in Nat /\ nsym <= nsym' /\ (slot = Null => nsym + 2 <= nsym')
      /\ IsBlocks(blocks') /\ Code(blocks', nsym') /\ Len(blocks') = Len(blocks)
      /\ slot' = SlotNow /\ SlotNow \in 0..nsym'
  BY ReturnLowers
<1>2. irvar' \in Seq(0..nsym')
  <2>1. 0..nsym \subseteq 0..nsym' /\ irvar \in Seq(0..nsym)
    BY <1>1, Sizes DEF Control, Typed
  <2>2. irvar \in Seq(0..nsym')
    BY <2>1, Widened, Zenon
  <2> QED
    BY <2>2
<1>3. Grows
  BY <1>1, <1>2, Sizes DEF Grows, Control, Typed
<1>4. tmps' \in Nat /\ \A x \in DOMAIN symTab' : symTab'[x] \in 0..nsym'
  <2>1. CASE slot = Null
    <3>1. NewTmp(nsym + 2) /\ nsym + 2 \in 0..nsym'
      BY <1>1, <2>1, Sizes DEF StoreAndLeave
    <3> QED
      BY <1>3, <3>1, NewTmpTyped
  <2>2. CASE slot # Null
    <3>1. UNCHANGED <<tmps, symTab>>
      BY <2>2 DEF StoreAndLeave, symbols
    <3>2. \A x \in DOMAIN symTab : symTab[x] \in 0..nsym'
      BY <1>1, Sizes DEF Control, Typed
    <3> QED
      BY <3>1, <3>2, Sizes
  <2> QED
    BY <2>1, <2>2
<1> QED
  BY <1>1, <1>3, <1>4, BlocksLen, Sizes

LEMMA ReturnVoidControl ==
    ASSUME Control, ReturnVoid
    PROVE  Control'
<1>1. /\ mode \in {"next", "stmt"} /\ mode' = "next" /\ StoreAndLeave(Undef)
      /\ UNCHANGED <<frames, cur, entryB, mergeB, val, irvar, name, vis>>
      /\ nodes' \in 0..MaxNodes
  BY NodesTyped, AtStmtModes DEF ReturnVoid, StoreAndLeave, context, variables
<1>2. /\ Grows /\ DOMAIN blocks' = DOMAIN blocks /\ slot' \in 0..nsym'
      /\ tmps' \in Nat /\ \A x \in DOMAIN symTab' : symTab'[x] \in 0..nsym'
  <2>1. Undef \in -1..nsym
    BY Sizes DEF Undef
  <2> QED
    BY <1>1, <2>1, ReturnGrows
<1>3. /\ frames' \in Seq(FramesNow') /\ cur' \in DOMAIN blocks' /\ mode' \in Modes
      /\ entryB' \in 0..Len(blocks') /\ mergeB' \in 0..Len(blocks')
      /\ val' \in 0..nsym' /\ vis' \subseteq 1..Len(irvar')
  BY <1>1, <1>2, Wider DEF Control, Typed, Modes
<1>4. Typed'
  BY <1>1, <1>2, <1>3, TypedAgain DEF Control
<1>5. StackOK(mode', frames') /\ ContextOK(frames', entryB', mergeB')
  BY <1>1 DEF Control, StackOK
<1> QED
  BY <1>4, <1>5 DEF Control

LEMMA AfterReturnExpControl ==
    ASSUME Control, AfterReturnExp
    PROVE  Control'
<1>1. /\ mode = "value" /\ Top.k = "ret" /\ mode' = "next" /\ frames' = Rest
      /\ StoreAndLeave(val)
      /\ UNCHANGED <<cur, entryB, mergeB, val, irvar, name, vis, nodes>>
  BY DEF AfterReturnExp, StoreAndLeave, context, variables
<1>2. /\ Grows /\ DOMAIN blocks' = DOMAIN blocks /\ slot' \in 0..nsym'
      /\ tmps' \in Nat /\ \A x \in DOMAIN symTab' : symTab'[x] \in 0..nsym'
  <2>1. val \in -1..nsym
    BY Sizes
  <2> QED
    BY <1>1, <2>1, ReturnGrows
<1>3. cur' \in DOMAIN blocks' /\ val' \in 0..nsym'
  BY <1>1, <1>2, Wider DEF Control, Typed
<1>4. Top.k \notin LoopKinds /\ Top.k \in HeadKinds /\ mode' \in Modes
  BY <1>1 DEF LoopKinds, HeadKinds, Modes
<1> QED
  BY <1>1, <1>2, <1>3, <1>4, PoppedControl

-----------------------------------------------------------------------------
(* Branches and loops.                                                        *)

LEMMA AfterIfCondControl ==
    ASSUME Control, AfterIfCond
    PROVE  Control'
<1> DEFINE n == Len(blocks)
           k == IF Top.else THEN 3 ELSE 2
           f == [k |-> "then", else |-> IF Top.else THEN n + 2 ELSE Null,
                 merge |-> IF Top.else THEN n + 3 ELSE n + 2]
<1>1. /\ mode = "value" /\ Top.k = "if" /\ cur' = n + 1
      /\ mode' \in {"stmt", "crash"} /\ frames' = Append(Rest, f)
      /\ UNCHANGED <<val, entryB, mergeB, slot, nsym, tmps, symTab, irvar, name,
                     vis, nodes>>
  BY DEF AfterIfCond, symbols, variables
<1>2. Lowers(k, <<Br(val, n + 1, n + 2)>>)
  BY AfterIfCondLowers
<1>3. Grows
  BY <1>1, <1>2, LowersKeeps
<1>4. /\ Len(blocks') = n + k /\ DOMAIN blocks' = 1..n + k /\ n \in Nat /\ n >= 2
  <2>1. n \in Nat /\ n >= 2
    BY Sizes
  <2> QED
    BY <1>2, <2>1, LowersBlocks DEF Control
<1>5. f \in FramesNow' /\ f.k = "then"
  <2>1. /\ f.else \in {Null} \cup 3..Len(blocks')
        /\ f.merge \in 3..Len(blocks')
    BY <1>4
  <2> QED
    BY <2>1, FramesMade DEF FramesNow
<1>6. /\ Top.k \in HeadKinds /\ Top.k \notin LoopKinds
      /\ f.k \in StmtKinds \ {"block"} /\ f.k \notin LoopKinds
  BY <1>1, <1>5 DEF HeadKinds, LoopKinds, StmtKinds
<1>7. cur' \in DOMAIN blocks'
  BY <1>1, <1>4
<1> HIDE DEF f
<1>8. /\ frames' \in Seq(FramesNow') /\ mode' \in Modes
      /\ StackOK(mode', frames') /\ ContextOK(frames', entryB', mergeB')
  BY <1>1, <1>3, <1>5, <1>6, Swapped
<1>9. Typed'
  BY <1>1, <1>3, <1>7, <1>8, TypedRest DEF Control, Typed
<1> QED
  BY <1>8, <1>9 DEF Control

LEMMA AfterThenControl ==
    ASSUME Control, AfterThen
    PROVE  Control'
<1>1. /\ mode = "next" /\ Top.k = "then"
      /\ UNCHANGED <<val, entryB, mergeB, slot, nsym, tmps, symTab, irvar, name,
                     vis, nodes>>
  BY DEF AfterThen, symbols, variables
<1>2. /\ Top.merge \in 3..Len(blocks) /\ Top.else \in {Null} \cup 3..Len(blocks)
      /\ Lowers(0, IF Terminated THEN <<>> ELSE <<Jump(Top.merge)>>)
  BY AfterThenLowers
<1>3. Grows /\ Len(blocks') = Len(blocks)
  <2>1. Len(blocks') = Len(blocks) + 0
    BY <1>2, LowersBlocks DEF Control
  <2> QED
    BY <1>1, <1>2, <2>1, LowersKeeps, Sizes
<1>4. Top.k \in StmtKinds \ {"block"} /\ Top.k \notin LoopKinds
  BY <1>1 DEF StmtKinds, LoopKinds
<1>5. CASE Top.else = Null
  <2>1. cur' = Top.merge /\ frames' = Rest /\ mode' = "next"
    BY <1>1, <1>5 DEF AfterThen
  <2>2. /\ cur' \in DOMAIN blocks' /\ val' \in 0..nsym' /\ slot' \in 0..nsym'
        /\ tmps' \in Nat /\ \A x \in DOMAIN symTab' : symTab'[x] \in 0..nsym'
        /\ mode' \in Modes
    BY <1>1, <1>2, <1>3, <2>1, Wider DEF Control, Typed, Modes
  <2> QED
    BY <1>1, <1>3, <1>4, <2>1, <2>2, PoppedControl
<1>6. CASE Top.else # Null
  <2> DEFINE f == [k |-> "else", merge |-> Top.merge]
  <2>1. cur' = Top.else /\ frames' = Append(Rest, f) /\ mode' = "stmt"
    BY <1>6 DEF AfterThen
  <2>2. f \in FramesNow' /\ f.k = "else"
    BY <1>2, <1>3, FramesMade DEF FramesNow
  <2>3. f.k \in StmtKinds \ {"block"} /\ f.k \notin LoopKinds
    BY <2>2 DEF StmtKinds, LoopKinds
  <2>4. cur' \in DOMAIN blocks'
    BY <1>2, <1>3, <1>6, <2>1, Wider DEF Control
  <2> HIDE DEF f
  <2>5. /\ frames' \in Seq(FramesNow') /\ mode' \in Modes
        /\ StackOK(mode', frames') /\ ContextOK(frames', entryB', mergeB')
    BY <1>1, <1>3, <1>4, <2>1, <2>2, <2>3, Swapped
  <2>6. Typed'
    BY <1>1, <1>3, <2>4, <2>5, TypedRest DEF Control, Typed
  <2> QED
    BY <2>5, <2>6 DEF Control
<1> QED
  BY <1>5, <1>6

LEMMA AfterElseControl ==
    ASSUME Control, AfterElse
    PROVE  Control'
<1>1. /\ mode = "next" /\ Top.k = "else" /\ cur' = Top.merge /\ frames' = Rest
      /\ UNCHANGED <<mode, val, entryB, mergeB, slot, nsym, tmps, symTab, irvar,
                     name, vis, nodes>>
  BY DEF AfterElse, symbols, variables
<1>2. /\ Top.merge \in 3..Len(blocks)
      /\ Lowers(0, IF Terminated THEN <<>> ELSE <<Jump(Top.merge)>>)
  BY AfterElseLowers
<1>3. Grows
  BY <1>1, <1>2, LowersKeeps
<1>4. Top.k \in StmtKinds \ {"block"} /\ Top.k \notin LoopKinds
  BY <1>1 DEF StmtKinds, LoopKinds
<1>5. Top.merge \in DOMAIN blocks
  BY <1>2, Sizes
<1>6. /\ cur' \in DOMAIN blocks' /\ val' \in 0..nsym' /\ slot' \in 0..nsym'
      /\ tmps' \in Nat /\ \A x \in DOMAIN symTab' : symTab'[x] \in 0..nsym'
      /\ mode' \in Modes
  BY <1>1, <1>3, <1>5, Wider DEF Control, Typed, Modes
<1> QED
  BY <1>1, <1>3, <1>4, <1>6, PoppedControl

LEMMA LoopMade ==
    ASSUME NEW n, NEW V, NEW B, NEW k \in LoopKinds, NEW stmt \in BOOLEAN,
           NEW e \in 3..B, NEW b \in 3..B, NEW m \in 3..B,
           NEW pe \in 0..B, NEW pm \in 0..B
    PROVE  [k |-> k, stmt |-> stmt, entry |-> e, body |-> b, merge |-> m,
            preEntry |-> pe, preMerge |-> pm] \in Frames(n, V, B)
BY DEF Frames

LEMMA WhileControl ==
    ASSUME Control, NEW stmt \in BOOLEAN, While(stmt)
    PROVE  Control'
<1> DEFINE n == Len(blocks)
           f == [k |-> "while", stmt |-> stmt, entry |-> n + 1, body |-> n + 2,
                 merge |-> n + 3, preEntry |-> entryB, preMerge |-> mergeB]
<1>1. /\ mode \in {"next", "stmt"} /\ mode' = "exp" /\ frames' = Append(frames, f)
      /\ cur' = n + 1 /\ entryB' = n + 1 /\ mergeB' = n + 3
      /\ UNCHANGED <<val, slot, nsym, tmps, symTab, irvar, name, vis>>
      /\ nodes' \in 0..MaxNodes
  BY AtStmtModes, NodesTyped DEF While, Evaluate, symbols, variables
<1>2. Lowers(3, <<Jump(n + 1)>>)
  BY WhileLowers
<1>3. Grows
  BY <1>1, <1>2, LowersKeeps
<1>4. /\ Len(blocks') = n + 3 /\ DOMAIN blocks' = 1..n + 3 /\ n \in Nat /\ n >= 2
  BY <1>2, LowersBlocks, Sizes DEF Control
<1>5. f \in FramesNow'
  <2>1. /\ n + 1 \in 3..Len(blocks') /\ n + 2 \in 3..Len(blocks')
        /\ n + 3 \in 3..Len(blocks') /\ "while" \in LoopKinds
    BY <1>4 DEF LoopKinds
  <2>2. entryB \in 0..Len(blocks') /\ mergeB \in 0..Len(blocks')
    BY <1>4 DEF Control, Typed
  <2> QED
    BY <2>1, <2>2, LoopMade DEF FramesNow
<1>6. /\ f.k \in HeadKinds /\ f.k \in LoopKinds /\ f.entry = n + 1 /\ f.merge = n + 3
      /\ f.preEntry = entryB /\ f.preMerge = mergeB
  BY DEF HeadKinds, LoopKinds
<1>7. frames \in Seq(FramesNow')
  BY <1>3, Wider DEF Control
<1> HIDE DEF f
<1>8. StackOK(mode', frames')
  BY <1>1, <1>5, <1>6, <1>7, StackPush DEF Control
<1>9. ContextOK(frames', entryB', mergeB')
  BY <1>1, <1>5, <1>6, <1>7, ContextPushLoop DEF Control
<1>10. /\ frames' \in Seq(FramesNow') /\ mode' \in Modes /\ cur' \in DOMAIN blocks'
       /\ entryB' \in 0..Len(blocks') /\ mergeB' \in 0..Len(blocks')
  BY <1>1, <1>4, <1>5, <1>7 DEF Modes
<1>11. /\ val' \in 0..nsym' /\ slot' \in 0..nsym' /\ vis' \subseteq 1..Len(irvar')
       /\ tmps' \in Nat /\ \A x \in DOMAIN symTab' : symTab'[x] \in 0..nsym'
  BY <1>1 DEF Control, Typed
<1>12. Typed'
  BY <1>1, <1>3, <1>10, <1>11, TypedAgain DEF Control
<1> QED
  BY <1>8, <1>9, <1>12 DEF Control

\* The frame at the top is changed in place.
LEMMA TopChanged ==
    ASSUME NEW F, NEW fs \in Seq(F), fs # <<>>, NEW g \in F,
           NEW gs, gs = [fs EXCEPT ![Len(fs)] = g]
    PROVE  gs = Append(Below(fs), g)
<1> DEFINE n == Len(fs) - 1
           b == Below(fs)
<1>1. /\ b \in Seq(F) /\ Len(b) = n /\ \A i \in 1..n : b[i] = fs[i]
      /\ n \in Nat /\ Len(fs) = n + 1 /\ DOMAIN fs = 1..n + 1
  BY PopGives
<1> HIDE DEF b, n
<1>2. /\ gs \in Seq(F) /\ Len(gs) = n + 1
      /\ \A i \in 1..n + 1 : gs[i] = IF i = n + 1 THEN g ELSE fs[i]
  BY <1>1, Replaced
<1>3. /\ Append(b, g) \in Seq(F) /\ Len(Append(b, g)) = n + 1
      /\ \A i \in 1..n : Append(b, g)[i] = b[i]
      /\ Append(b, g)[n + 1] = g
  BY <1>1, PushGives
<1>4. \A i \in 1..n + 1 : gs[i] = Append(b, g)[i]
  BY <1>1, <1>2, <1>3
<1> QED
  BY <1>1, <1>2, <1>3, <1>4, SeqEqual DEF b

\* The frame of a loop once its condition has been lowered.
BodyFrame == [k |-> "body", stmt |-> Top.stmt, entry |-> Top.entry,
              body |-> Top.body, merge |-> Top.merge,
              preEntry |-> Top.preEntry, preMerge |-> Top.preMerge]

LEMMA BodyEntered ==
    ASSUME Control, AfterWhileCond
    PROVE  frames' = Append(Rest, BodyFrame) /\ BodyFrame \in FramesNow
<1>1. /\ mode = "value" /\ Top.k \in LoopKinds
      /\ frames' = [frames EXCEPT ![Len(frames)].k = "body"]
  BY DEF AfterWhileCond, LoopKinds
<1>2. /\ {Top.entry, Top.body, Top.merge} \subseteq 3..Len(blocks)
      /\ {Top.preEntry, Top.preMerge} \subseteq 0..Len(blocks)
      /\ Top.stmt \in BOOLEAN
      /\ Top = [k |-> Top.k, stmt |-> Top.stmt, entry |-> Top.entry,
                body |-> Top.body, merge |-> Top.merge,
                preEntry |-> Top.preEntry, preMerge |-> Top.preMerge]
  BY <1>1, LoopFrame
<1>3. BodyFrame \in FramesNow
  <2>1. "body" \in LoopKinds
    BY DEF LoopKinds
  <2> QED
    BY <1>2, <2>1, LoopMade DEF FramesNow, BodyFrame
<1>4. /\ frames \in Seq(FramesNow) /\ frames # <<>> /\ Top = frames[Len(frames)]
      /\ Len(frames) \in DOMAIN frames /\ Rest = Below(frames)
  BY <1>1, TopFrame
<1>5. [Top EXCEPT !.k = "body"] = BodyFrame
  BY <1>2 DEF BodyFrame
<1>6. frames' = [frames EXCEPT ![Len(frames)] = BodyFrame]
  <2>1. frames' = [frames EXCEPT ![Len(frames)] = [Top EXCEPT !.k = "body"]]
    BY <1>1, <1>4
  <2> QED
    BY <1>5, <2>1
<1> QED
  BY <1>3, <1>4, <1>6, TopChanged

LEMMA AfterWhileCondControl ==
    ASSUME Control, AfterWhileCond
    PROVE  Control'
<1> DEFINE f == [k |-> "body", stmt |-> Top.stmt, entry |-> Top.entry,
                 body |-> Top.body, merge |-> Top.merge,
                 preEntry |-> Top.preEntry, preMerge |-> Top.preMerge]
<1>1. /\ mode = "value" /\ Top.k = "while" /\ cur' = Top.body
      /\ mode' \in {"stmt", "next"}
      /\ frames' = [frames EXCEPT ![Len(frames)].k = "body"]
      /\ UNCHANGED <<val, entryB, mergeB, slot, nsym, tmps, symTab, irvar, name,
                     vis, nodes>>
  BY DEF AfterWhileCond, symbols, variables
<1>2. Grows
  BY <1>1, AfterWhileCondLowers, LowersKeeps
<1>3. /\ {Top.entry, Top.body, Top.merge} \subseteq 3..Len(blocks)
      /\ {Top.preEntry, Top.preMerge} \subseteq 0..Len(blocks)
      /\ Top.stmt \in BOOLEAN /\ Top.k \in LoopKinds
      /\ Top = [k |-> Top.k, stmt |-> Top.stmt, entry |-> Top.entry,
                body |-> Top.body, merge |-> Top.merge,
                preEntry |-> Top.preEntry, preMerge |-> Top.preMerge]
  <2>1. Top.k \in LoopKinds /\ mode # "done"
    BY <1>1 DEF LoopKinds
  <2> QED
    BY <2>1, LoopFrame
<1>4. /\ frames \in Seq(FramesNow') /\ frames # <<>> /\ Top = frames[Len(frames)]
      /\ Len(frames) \in DOMAIN frames
  BY <1>1, <1>2, TopFrame, Wider DEF Control
<1>5. f \in FramesNow'
  <2>1. \A b \in 3..Len(blocks) : b \in 3..Len(blocks')
    BY <1>2, Sizes, Wider DEF Control, Grows
  <2>2. /\ Top.entry \in 3..Len(blocks') /\ Top.body \in 3..Len(blocks')
        /\ Top.merge \in 3..Len(blocks') /\ Top.preEntry \in 0..Len(blocks')
        /\ Top.preMerge \in 0..Len(blocks') /\ "body" \in LoopKinds
    BY <1>2, <1>3, <2>1, Wider DEF LoopKinds, Control
  <2> QED
    BY <1>3, <2>2, LoopMade DEF FramesNow
<1>6. frames' = Append(Below(frames), f)
  BY <1>1, BodyEntered, TopFrame DEF BodyFrame
<1>7. /\ f.k \in StmtKinds \ {"block"} /\ f.k \in LoopKinds /\ Top.k \in HeadKinds
      /\ f.entry = Top.entry /\ f.merge = Top.merge
      /\ f.preEntry = Top.preEntry /\ f.preMerge = Top.preMerge
  BY <1>1 DEF HeadKinds, StmtKinds, LoopKinds
<1> HIDE DEF f
<1>8. StackOK(mode', frames')
  <2>1. /\ StackOK(mode, frames) /\ mode # "done" /\ mode = "value"
        /\ frames[Len(frames)].k \in HeadKinds
        /\ f.k \in StmtKinds \ {"block"} /\ mode' \in {"next", "stmt", "crash"}
    BY <1>1, <1>4, <1>7 DEF Control
  <2>2. StackOK(mode', Append(Below(frames), f))
    BY <1>4, <1>5, <2>1, StackSwap
  <2> QED
    BY <1>6, <2>2
<1>9. ContextOK(frames', entryB', mergeB')
  <2>1. /\ entryB = Top.entry /\ mergeB = Top.merge
        /\ ContextOK(Below(frames), Top.preEntry, Top.preMerge)
    BY <1>3, <1>4, ContextPop DEF Control
  <2>2. Below(frames) \in Seq(FramesNow')
    BY <1>4, PopGives
  <2>3. ContextOK(Append(Below(frames), f), f.entry, f.merge)
    BY <1>5, <1>7, <2>1, <2>2, ContextPushLoop
  <2> QED
    BY <1>1, <1>6, <1>7, <2>1, <2>3
<1>10. frames' \in Seq(FramesNow') /\ mode' \in Modes
  <2>1. Below(frames) \in Seq(FramesNow')
    BY <1>4, PopGives
  <2> QED
    <3>1. Append(Below(frames), f) \in Seq(FramesNow')
      BY <1>5, <2>1, PushGives, Zenon
    <3> QED
      BY <1>1, <1>6, <3>1 DEF Modes
<1>11. cur' \in DOMAIN blocks'
  BY <1>1, <1>2, <1>3, BlocksStay
<1>12. Typed'
  BY <1>1, <1>2, <1>10, <1>11, TypedRest DEF Control, Typed
<1> QED
  BY <1>8, <1>9, <1>12 DEF Control

LEMMA AfterBodyControl ==
    ASSUME Control, AfterBody
    PROVE  Control'
<1>1. /\ mode = "next" /\ Top.k = "body" /\ cur' = Top.merge /\ frames' = Rest
      /\ entryB' = Top.preEntry /\ mergeB' = Top.preMerge
      /\ UNCHANGED <<mode, val, slot, nsym, tmps, symTab, irvar, name, vis, nodes>>
  BY DEF AfterBody, symbols, variables
<1>2. Grows
  BY <1>1, AfterBodyLowers, LowersKeeps
<1>3. Top.k \in LoopKinds /\ mode # "done" /\ Top.k \in StmtKinds \ {"block"}
  BY <1>1 DEF LoopKinds, StmtKinds
<1>4. /\ Top.merge \in 3..Len(blocks)
      /\ {Top.preEntry, Top.preMerge} \subseteq 0..Len(blocks)
  BY <1>3, LoopFrame
<1>5. /\ frames' \in Seq(FramesNow')
      /\ StackOK(mode', frames') /\ ContextOK(frames', entryB', mergeB')
  <2>1. mode' \in Modes
    BY <1>1 DEF Modes
  <2> QED
    BY <1>1, <1>2, <1>3, <2>1, Popped
<1>6. /\ cur' \in DOMAIN blocks'
      /\ entryB' \in 0..Len(blocks') /\ mergeB' \in 0..Len(blocks')
  BY <1>1, <1>2, <1>4, BlocksStay
<1>7. /\ val' \in 0..nsym' /\ slot' \in 0..nsym' /\ vis' \subseteq 1..Len(irvar')
      /\ tmps' \in Nat /\ \A x \in DOMAIN symTab' : symTab'[x] \in 0..nsym'
      /\ mode' \in Modes /\ nodes' \in 0..MaxNodes
  BY <1>1 DEF Control, Typed
<1>8. Typed'
  BY <1>2, <1>5, <1>6, <1>7, TypedAgain DEF Control
<1> QED
  BY <1>5, <1>8 DEF Control

\* Code is put into the current block, and the stack stays what it is.
LEMMA StaysControl ==
    ASSUME Control, Grows, UNCHANGED <<frames, cur, entryB, mergeB, slot, vis>>,
           nodes' \in 0..MaxNodes, val' \in 0..nsym', tmps' \in Nat,
           \A x \in DOMAIN symTab' : symTab'[x] \in 0..nsym',
           \/ mode \in {"next", "stmt"} /\ mode' = "next"
           \/ mode = "exp" /\ mode' = "value"
    PROVE  Control'
<1>1. /\ frames' \in Seq(FramesNow') /\ cur' \in DOMAIN blocks' /\ mode' \in Modes
      /\ entryB' \in 0..Len(blocks') /\ mergeB' \in 0..Len(blocks')
      /\ slot' \in 0..nsym' /\ vis' \subseteq 1..Len(irvar')
  BY Wider DEF Control, Typed, Modes
<1>2. Typed'
  BY <1>1, TypedAgain DEF Control
<1>3. StackOK(mode', frames') /\ ContextOK(frames', entryB', mergeB')
  BY DEF Control, StackOK
<1> QED
  BY <1>2, <1>3 DEF Control

LEMMA BreakOrContinueControl ==
    ASSUME Control, NEW isBreak \in BOOLEAN, BreakOrContinue(isBreak)
    PROVE  Control'
<1>1. /\ mode \in {"next", "stmt"} /\ mode' = "next"
      /\ UNCHANGED <<frames, cur, entryB, mergeB, val, slot, nsym, tmps, symTab,
                     irvar, name, vis>>
      /\ nodes' \in 0..MaxNodes
  BY AtStmtModes, NodesTyped DEF BreakOrContinue, context, symbols, variables
<1>2. Grows
  BY <1>1, BreakLowers, LowersKeeps
<1>3. /\ val' \in 0..nsym' /\ tmps' \in Nat
      /\ \A x \in DOMAIN symTab' : symTab'[x] \in 0..nsym'
  BY <1>1 DEF Control, Typed
<1> QED
  BY <1>1, <1>2, <1>3, StaysControl

-----------------------------------------------------------------------------
(* Expressions.                                                               *)

LEMMA LValControl ==
    ASSUME Control, NEW v \in vis, LVal(v)
    PROVE  Control'
<1>1. /\ mode = "exp" /\ nodes' \in 0..MaxNodes
      /\ UNCHANGED <<frames, cur, entryB, mergeB, slot, irvar, name, vis>>
  BY NodesTyped DEF LVal, AtExp, context, variables
<1>2. CASE irvar[v] = Null
  <2>1. Quiet /\ mode' = "crash"
    BY <1>1, <1>2 DEF LVal, Quiet, symbols, Control, Typed
  <2> QED
    BY <1>1, <2>1, QuietStays
<1>3. CASE irvar[v] # Null
  <2>1. nsym' = nsym + 1 /\ NewTmp(nsym + 1) /\ val' = nsym + 1 /\ mode' = "value"
    BY <1>3 DEF LVal
  <2>2. nsym + 1 \in 0..nsym' /\ nsym' \in Nat /\ nsym <= nsym' /\ val' \in 0..nsym'
    BY <2>1, Sizes
  <2>3. Lowers(0, <<Load(nsym + 1, irvar[v])>>)
    BY <1>3, LValLowers
  <2>4. Grows
    BY <1>1, <2>2, <2>3, NewSymbols
  <2>5. tmps' \in Nat /\ \A x \in DOMAIN symTab' : symTab'[x] \in 0..nsym'
    BY <2>1, <2>2, <2>4, NewTmpTyped
  <2> QED
    BY <1>1, <2>1, <2>2, <2>4, <2>5, StaysControl
<1> QED
  BY <1>2, <1>3

LEMMA UnboundControl ==
    ASSUME Control, UnboundLVal
    PROVE  Control'
<1>1. /\ mode = "exp" /\ mode' = "crash" /\ nodes' \in 0..MaxNodes
      /\ UNCHANGED <<frames, blocks, cur, entryB, mergeB, val, slot, nsym, tmps,
                     symTab, irvar, name, vis>>
  BY NodesTyped DEF UnboundLVal, AtExp, context, symbols, variables
<1>2. Quiet
  BY <1>1 DEF Quiet, Control, Typed
<1> QED
  BY <1>1, <1>2, QuietStays

LEMMA AfterUnaryControl ==
    ASSUME Control, AfterUnary
    PROVE  Control'
<1>1. /\ mode = "value" /\ mode' = "value" /\ Top.k = "unary" /\ frames' = Rest
      /\ UNCHANGED <<cur, entryB, mergeB, slot, irvar, name, vis, nodes>>
  BY DEF AfterUnary, context, variables
<1>2. Top.k \notin LoopKinds /\ Top.k \in OperandKinds /\ mode' \in Modes
  BY <1>1 DEF LoopKinds, OperandKinds, Modes
<1>3. CASE Top.op = "+"
  <2>1. UNCHANGED <<blocks, nsym, tmps, symTab, val>>
    BY <1>3 DEF AfterUnary, symbols
  <2>2. Grows
    BY <1>1, <2>1, SameGrows DEF Control
  <2>3. /\ cur' \in DOMAIN blocks' /\ val' \in 0..nsym' /\ slot' \in 0..nsym'
        /\ tmps' \in Nat /\ \A x \in DOMAIN symTab' : symTab'[x] \in 0..nsym'
    BY <1>1, <2>1 DEF Control, Typed
  <2> QED
    BY <1>1, <1>2, <2>2, <2>3, PoppedControl
<1>4. CASE Top.op # "+"
  <2>1. nsym' = nsym + 1 /\ NewTmp(nsym + 1) /\ val' = nsym + 1
    BY <1>4 DEF AfterUnary
  <2>2. /\ nsym + 1 \in 0..nsym' /\ nsym' \in Nat /\ nsym <= nsym'
        /\ val' \in 0..nsym' /\ slot' \in 0..nsym'
    BY <1>1, <2>1, Sizes
  <2>3. Lowers(0, <<UnaryCode>>)
    BY <1>4, AfterUnaryLowers
  <2>4. Grows
    BY <1>1, <2>2, <2>3, NewSymbols
  <2>5. tmps' \in Nat /\ \A x \in DOMAIN symTab' : symTab'[x] \in 0..nsym'
    BY <2>1, <2>2, <2>4, NewTmpTyped
  <2>6. cur' \in DOMAIN blocks'
    BY <1>1, <2>4, Sizes, Wider DEF Control
  <2> QED
    BY <1>1, <1>2, <2>2, <2>4, <2>5, <2>6, PoppedControl
<1> QED
  BY <1>3, <1>4

LEMMA AfterOpnd2Control ==
    ASSUME Control, AfterOpnd2
    PROVE  Control'
<1>1. /\ mode = "value" /\ mode' = "value" /\ Top.k = "opnd2" /\ frames' = Rest
      /\ nsym' = nsym + 1 /\ NewTmp(nsym + 1) /\ val' = nsym + 1
      /\ UNCHANGED <<cur, entryB, mergeB, slot, irvar, name, vis, nodes>>
  BY DEF AfterOpnd2, context, variables
<1>2. Top.k \notin LoopKinds /\ Top.k \in OperandKinds /\ mode' \in Modes
  BY <1>1 DEF LoopKinds, OperandKinds, Modes
<1>3. /\ nsym + 1 \in 0..nsym' /\ nsym' \in Nat /\ nsym <= nsym'
      /\ val' \in 0..nsym' /\ slot' \in 0..nsym'
  BY <1>1, Sizes
<1>4. Grows
  BY <1>1, <1>3, AfterOpnd2Lowers, NewSymbols
<1>5. tmps' \in Nat /\ \A x \in DOMAIN symTab' : symTab'[x] \in 0..nsym'
  BY <1>1, <1>3, <1>4, NewTmpTyped
<1>6. cur' \in DOMAIN blocks'
  BY <1>1, <1>4, Sizes, Wider DEF Control
<1> QED
  BY <1>1, <1>2, <1>3, <1>4, <1>5, <1>6, PoppedControl

LEMMA AfterLhsControl ==
    ASSUME Control, AfterLhs
    PROVE  Control'
<1> DEFINE n == Len(blocks)
           f == [k |-> "rhs", ret |-> nsym + 1, merge |-> n + 2]
           t == Put(symTab, Tmp(tmps), nsym + 1)
<1>1. /\ mode = "value" /\ mode' = "exp" /\ Top.k = "lhs"
      /\ frames' = Append(Rest, f) /\ cur' = n + 1
      /\ nsym' = nsym + 2 /\ tmps' = tmps + 2
      /\ symTab' = Put(t, Tmp(tmps + 1), nsym + 2)
      /\ UNCHANGED <<val, entryB, mergeB, slot, irvar, name, vis, nodes>>
  BY DEF AfterLhs, variables
<1>2. /\ nsym + 1 \in 0..nsym' /\ nsym + 2 \in 0..nsym' /\ nsym' \in Nat
      /\ nsym <= nsym' /\ val' \in 0..nsym' /\ slot' \in 0..nsym' /\ tmps' \in Nat
  <2>1. nsym \in Nat /\ val \in 0..nsym /\ slot \in 0..nsym /\ tmps \in Nat
    BY Sizes
  <2>2. /\ nsym' = nsym + 2 /\ tmps' = tmps + 2 /\ val' = val /\ slot' = slot
    BY <1>1
  <2> QED
    BY <2>1, <2>2
<1>3. Lowers(2, ShortCircuitCode)
  BY AfterLhsLowers
<1>4. Grows
  BY <1>1, <1>2, <1>3, NewSymbols
<1>5. Len(blocks') = n + 2 /\ DOMAIN blocks' = 1..n + 2 /\ n \in Nat /\ n >= 2
  BY <1>3, LowersBlocks, Sizes DEF Control
<1>6. \A x \in DOMAIN symTab' : symTab'[x] \in 0..nsym'
  <2>1. \A x \in DOMAIN t : t[x] \in 0..nsym'
    BY <1>2, <1>4, TableTyped
  <2> HIDE DEF t
  <2> QED
    BY <1>1, <1>2, <2>1, PutGives
<1>7. f \in FramesNow' /\ f.k = "rhs"
  <2>1. n + 2 \in 3..Len(blocks')
    BY <1>5
  <2> QED
    BY <1>2, <2>1, FramesMade DEF FramesNow
<1>8. /\ Top.k \in OperandKinds /\ Top.k \notin LoopKinds
      /\ f.k \in OperandKinds /\ f.k \notin LoopKinds
  BY <1>1, <1>7 DEF OperandKinds, LoopKinds
<1>9. /\ cur' \in DOMAIN blocks' /\ vis' \subseteq 1..Len(irvar')
      /\ entryB' \in 0..Len(blocks') /\ mergeB' \in 0..Len(blocks')
      /\ nodes' \in 0..MaxNodes
  <2>1. n + 1 \in DOMAIN blocks'
    BY <1>5
  <2> QED
    BY <1>1, <1>4, <2>1, Wider DEF Control, Typed
<1> HIDE DEF f
<1>10. /\ frames' \in Seq(FramesNow') /\ mode' \in Modes
       /\ StackOK(mode', frames') /\ ContextOK(frames', entryB', mergeB')
  BY <1>1, <1>4, <1>7, <1>8, Swapped
<1>11. Typed'
  BY <1>2, <1>4, <1>6, <1>9, <1>10, TypedAgain DEF Control
<1> QED
  BY <1>10, <1>11 DEF Control

LEMMA AfterRhsControl ==
    ASSUME Control, AfterRhs
    PROVE  Control'
<1>1. /\ mode = "value" /\ Top.k = "rhs" /\ frames' = Rest
      /\ UNCHANGED <<entryB, mergeB, slot, irvar, name, vis, nodes>>
  BY DEF AfterRhs, variables
<1>2. Top.k \notin LoopKinds /\ Top.k \in OperandKinds
  BY <1>1 DEF LoopKinds, OperandKinds
<1>3. CASE Terminated
  <2>1. mode' = "crash" /\ UNCHANGED <<blocks, nsym, tmps, symTab, val, cur>>
    BY <1>3 DEF AfterRhs, symbols
  <2>2. Grows
    BY <1>1, <2>1, SameGrows DEF Control
  <2>3. /\ cur' \in DOMAIN blocks' /\ val' \in 0..nsym' /\ slot' \in 0..nsym'
        /\ tmps' \in Nat /\ \A x \in DOMAIN symTab' : symTab'[x] \in 0..nsym'
        /\ mode' \in Modes
    BY <1>1, <2>1 DEF Control, Typed, Modes
  <2> QED
    BY <1>1, <1>2, <2>1, <2>2, <2>3, PoppedControl
<1>4. CASE ~Terminated
  <2>1. /\ nsym' = nsym + 1 /\ NewTmp(nsym + 1) /\ val' = Top.ret
        /\ cur' = Top.merge /\ mode' = "value"
    BY <1>1, <1>4 DEF AfterRhs
  <2>2. /\ Top.merge \in 3..Len(blocks) /\ Top.ret \in 0..nsym
        /\ Lowers(0, RhsCode)
    BY <1>4, AfterRhsLowers
  <2>3. /\ nsym + 1 \in 0..nsym' /\ nsym' \in Nat /\ nsym <= nsym'
        /\ val' \in 0..nsym' /\ slot' \in 0..nsym'
    BY <1>1, <2>1, <2>2, Sizes
  <2>4. Grows
    BY <1>1, <2>2, <2>3, NewSymbols
  <2>5. tmps' \in Nat /\ \A x \in DOMAIN symTab' : symTab'[x] \in 0..nsym'
    BY <2>1, <2>3, <2>4, NewTmpTyped
  <2>6. cur' \in DOMAIN blocks' /\ mode' \in Modes
    BY <2>1, <2>2, <2>4, BlocksStay DEF Modes
  <2> QED
    BY <1>1, <1>2, <2>1, <2>3, <2>4, <2>5, <2>6, PoppedControl
<1> QED
  BY <1>3, <1>4

-----------------------------------------------------------------------------
(* Control is an invariant.                                                   *)

LEMMA InitControl == Init => Control
<1> SUFFICES ASSUME Init PROVE Control
  OBVIOUS
<1> DEFINE f == [k |-> "block", vis |-> {}]
           F == Frames(0, 0, 2)
<1>1. /\ mode = "next" /\ frames = <<f>> /\ blocks = <<EmptyBlock, EmptyBlock>>
      /\ cur = 1 /\ val = 0 /\ entryB = 0 /\ mergeB = 0 /\ slot = 0
      /\ nsym = 0 /\ tmps = 0 /\ symTab = <<>> /\ irvar = <<>> /\ name = <<>>
      /\ vis = {} /\ nodes = 0
  BY DEF Init, Entry, Null, Literal
<1>2. IsBlocks(blocks) /\ Len(blocks) = 2 /\ DOMAIN blocks = 1..2
  <2>1. /\ DOMAIN EmptyBlock = Fields /\ EmptyBlock.term \in BOOLEAN
        /\ EmptyBlock.pre = <<>> /\ EmptyBlock.next = <<>>
    BY DEF EmptyBlock, Fields
  <2>2. /\ <<EmptyBlock, EmptyBlock>> \in Seq({EmptyBlock})
        /\ Len(blocks) = 2 /\ DOMAIN blocks = 1..2
        /\ \A b \in DOMAIN blocks : blocks[b] = EmptyBlock
    BY <1>1
  <2>3. blocks \in Seq({blocks[b] : b \in DOMAIN blocks})
    BY <1>1, <2>2, BlocksFrom
  <2>4. <<>> \in Seq(1..2)
    OBVIOUS
  <2>5. ASSUME NEW b \in DOMAIN blocks
        PROVE  /\ DOMAIN blocks[b] = Fields /\ blocks[b].term \in BOOLEAN
               /\ blocks[b].pre \in Seq(1..Len(blocks))
               /\ blocks[b].next \in Seq(1..Len(blocks))
    BY <2>1, <2>2, <2>4, Zenon
  <2> QED
    BY <2>2, <2>3, <2>5 DEF IsBlocks
<1>3. Code(blocks, nsym)
  <2>1. \A b \in DOMAIN blocks : blocks[b].instrs = <<>>
    BY <1>1, <1>2 DEF EmptyBlock
  <2>2. <<>> \in Seq(Instrs(nsym, Len(blocks)))
    OBVIOUS
  <2> QED
    BY <2>1, <2>2, Zenon DEF Code
<1>4. f \in F /\ f.k = "block"
  BY FramesMade
<1> HIDE DEF f, F
<1>5. /\ frames \in Seq(F) /\ Len(frames) = 1 /\ frames[1] = f
      /\ DOMAIN frames = 1..1 /\ frames # <<>>
  BY <1>1, <1>4
<1>6. Typed
  <2>1. /\ irvar \in Seq(0..nsym) /\ name \in Seq(VarNames) /\ Len(irvar) = 0
        /\ Len(name) = 0 /\ nodes \in 0..MaxNodes
    BY <1>1, GenIRAssumption
  <2>2. frames \in Seq(Frames(nsym, Len(irvar), Len(blocks)))
    BY <1>1, <1>2, <1>5, <2>1 DEF F
  <2> QED
    BY <1>1, <1>2, <1>3, <2>1, <2>2 DEF Typed, Modes
<1>7. StackOK(mode, frames)
  BY <1>1, <1>4, <1>5 DEF StackOK, Nested, StmtKinds, OperandKinds
<1>8. ContextOK(frames, entryB, mergeB)
  <2>1. Loops(frames, Len(frames)) = {}
    BY <1>4, <1>5 DEF Loops, LoopKinds
  <2> QED
    BY <1>1, <2>1 DEF ContextOK, ContextIs, Null
<1> QED
  BY <1>6, <1>7, <1>8 DEF Control

LEMMA StatementControl ==
    ASSUME Control, Statement
    PROVE  Control'
<1>1. CASE SkipStmt \/ OpenBlock \/ CloseBlock
  BY <1>1, SkipStmtControl, OpenBlockControl, CloseBlockControl
<1>2. ASSUME NEW x \in NewNames, SkipDecl(x) \/ DeclPlain(x) \/ DeclInit(x)
      PROVE  Control'
  BY <1>2, SkipDeclControl, DeclPlainControl, DeclInitControl
<1>3. CASE ExpStmt \/ ReturnVoid \/ ReturnExp \/ IfEmpty
  BY <1>3, ExpStmtControl, ReturnVoidControl, ReturnExpControl, IfEmptyControl
<1>4. ASSUME NEW v \in vis, Assign(v)
      PROVE  Control'
  BY <1>4, AssignControl
<1>5. ASSUME NEW then \in BOOLEAN, NEW else \in BOOLEAN, If(then, else)
      PROVE  Control'
  BY <1>5, IfControl
<1>6. ASSUME NEW b \in BOOLEAN, While(b) \/ BreakOrContinue(b)
      PROVE  Control'
  BY <1>6, WhileControl, BreakOrContinueControl
<1> QED
  BY <1>1, <1>2, <1>3, <1>4, <1>5, <1>6 DEF Statement

LEMMA ExpressionControl ==
    ASSUME Control, Expression
    PROVE  Control'
<1>1. CASE Number \/ UnboundLVal
  BY <1>1, NumberControl, UnboundControl
<1>2. CASE Binary \/ Logical \/ \E op \in {"+", "-", "!"} : Unary(op)
  BY <1>2, OperandControl
<1>3. ASSUME NEW v \in vis, LVal(v)
      PROVE  Control'
  BY <1>3, LValControl
<1> QED
  BY <1>1, <1>2, <1>3 DEF Expression

LEMMA ContinueControl ==
    ASSUME Control, Continue
    PROVE  Control'
BY AfterInitControl, AfterExpStmtControl, AfterAssignControl,
   AfterReturnExpControl, AfterIfCondControl, AfterThenControl,
   AfterElseControl, AfterWhileCondControl, AfterBodyControl,
   AfterUnaryControl, AfterOpnd1Control, AfterOpnd2Control, AfterLhsControl,
   AfterRhsControl DEF Continue

LEMMA StillControl ==
    ASSUME Control, UNCHANGED vars
    PROVE  Control'
<1>1. Quiet /\ UNCHANGED <<mode, frames>>
  BY DEF vars, Quiet, Control, Typed
<1> QED
  BY <1>1, QuietStays

LEMMA StepControl == Control /\ [Next]_vars => Control'
<1> SUFFICES ASSUME Control, [Next]_vars PROVE Control'
  OBVIOUS
<1>1. CASE Statement
  BY <1>1, StatementControl
<1>2. CASE Expression
  BY <1>2, ExpressionControl
<1>3. CASE Continue
  BY <1>3, ContinueControl
<1>4. CASE UNCHANGED vars
  BY <1>4, StillControl
<1> QED
  BY <1>1, <1>2, <1>3, <1>4 DEF Next, Over

LEMMA ControlInvariant == Spec => []Control
BY InitControl, StepControl, PTL DEF Spec

-----------------------------------------------------------------------------

LEMMA UsedTyped ==
    ASSUME NEW n \in Nat, NEW B \in Nat, NEW ins \in Instrs(n, B)
    PROVE  ins.def \in 0..n /\ Used(ins) \subseteq 0..n /\ ins.to \in Seq(1..B)
<1>1. ins.def \in 0..n /\ ins.args \in Seq(-1..n) /\ ins.to \in Seq(1..B)
  BY DEF Instrs
<1>2. \A i \in DOMAIN ins.args : ins.args[i] \in -1..n
  BY <1>1
<1> QED
  BY <1>1, <1>2 DEF Used, Literal, Undef

\* What the walk has built is well formed at every step, for every program:
\* instructions name symbols and blocks that exist, a branch has no null
\* target, the blocks link each other, and the table of names holds symbols.
THEOREM LoweringIsWellFormed == Spec => []TypeOK
<1>1. Control => TypeOK
  <2> SUFFICES ASSUME Control PROVE TypeOK
    OBVIOUS
  <2>1. /\ IsBlocks(blocks) /\ Code(blocks, nsym) /\ nsym \in Nat
        /\ Len(blocks) \in Nat /\ DOMAIN blocks = 1..Len(blocks)
    BY Sizes
  <2>2. ASSUME NEW b \in DOMAIN blocks, NEW i \in DOMAIN blocks[b].instrs
        PROVE  LET ins == blocks[b].instrs[i]
               IN /\ ins.def \in Symbols /\ Used(ins) \subseteq Symbols
                  /\ ins.to \in Seq(DOMAIN blocks)
    <3>1. blocks[b].instrs \in Seq(Instrs(nsym, Len(blocks)))
      BY <2>1 DEF Code
    <3>2. blocks[b].instrs[i] \in Instrs(nsym, Len(blocks))
      BY <2>2, <3>1
    <3> QED
      BY <2>1, <3>2, UsedTyped DEF Symbols
  <2>3. \A b \in DOMAIN blocks :
           /\ blocks[b].term \in BOOLEAN
           /\ blocks[b].pre \in Seq(DOMAIN blocks)
           /\ blocks[b].next \in Seq(DOMAIN blocks)
    BY <2>1 DEF IsBlocks
  <2>4. /\ mode \in {"next", "stmt", "exp", "value", "done", "crash"}
        /\ cur \in DOMAIN blocks /\ {entryB, mergeB} \subseteq BlockNums
        /\ {val, slot} \subseteq Symbols /\ irvar \in Seq(Symbols)
        /\ {nsym, tmps} \subseteq Nat /\ Len(name) = Len(irvar)
        /\ \A x \in DOMAIN symTab : symTab[x] \in Symbols
        /\ nodes \in 0..MaxNodes
    BY DEF Control, Typed, Modes, Symbols, BlockNums
  <2>5. vis \subseteq DOMAIN irvar
    BY DEF Control, Typed
  <2> QED
    BY <2>2, <2>3, <2>4, <2>5 DEF TypeOK
<1> QED
  BY <1>1, ControlInvariant, PTL

\* break and continue always go to the loop they are written in: the two fields
\* of the context are those of the innermost loop whose visit is in progress,
\* however deep loops nest and however their bodies end.
THEOREM LoopContextIsRestored == Spec => []WhileContext
<1>1. Control => WhileContext
  <2> SUFFICES ASSUME Control PROVE WhileContext
    OBVIOUS
  <2>1. /\ ContextIs(frames, Len(frames), entryB, mergeB)
        /\ frames \in Seq(FramesNow)
    BY DEF Control, ContextOK, Typed, FramesNow
  <2>2. Loops(frames, Len(frames)) = LoopFrames
    BY <2>1 DEF Loops, LoopFrames, LoopKinds
  <2> QED
    BY <2>1, <2>2, Zenon DEF ContextIs, WhileContext
<1> QED
  BY <1>1, ControlInvariant, PTL
=============================================================================
