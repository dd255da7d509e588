--------------------------- MODULE GenIRBlockProofs ---------------------------
(* The blocks that GenIR builds: each has one end, none is left behind open,   *)
(* and whoever goes to the exit has stored the value to return. Then the names:*)
(* where code is lowered, every variable in sight has its symbol, and the      *)
(* table of names agrees with it.                                              *)
EXTENDS GenIRProofs

-----------------------------------------------------------------------------
(* The code of a block.                                                       *)

EndsOf(q) == {i \in DOMAIN q : IsEnd(q[i])}

\* It goes on, it has been left, or a jump back is behind the jump that left it.
IsOpen(q) == EndsOf(q) = {}
IsLeft(q) == q # <<>> /\ EndsOf(q) = {Len(q)}
ByJump(q) == q[Len(q)].op = "jump"
IsTailed(q) == /\ Len(q) > 1 /\ EndsOf(q) = {Len(q) - 1, Len(q)}
               /\ ByJump(q) /\ q[Len(q) - 1].op = "jump"
Shape(q) == IsOpen(q) \/ IsLeft(q) \/ IsTailed(q)

\* Whoever goes to the exit has just stored into slot s.
ExitsBy(q, s) ==
    \A i \in DOMAIN q : q[i] = Jump(Exit) =>
        i > 1 /\ s # Null /\ q[i - 1].op = "store" /\ q[i - 1].args[2] = s
NoExit(seq) == \A i \in DOMAIN seq : seq[i] # Jump(Exit)

LEMMA ConcatGives ==
    ASSUME NEW I, NEW q \in Seq(I), NEW seq \in Seq(I)
    PROVE  /\ q \o seq \in Seq(I) /\ Len(q \o seq) = Len(q) + Len(seq)
           /\ Len(q) \in Nat /\ Len(seq) \in Nat
           /\ DOMAIN q = 1..Len(q) /\ DOMAIN seq = 1..Len(seq)
           /\ DOMAIN (q \o seq) = 1..Len(q) + Len(seq)
           /\ \A i \in 1..Len(q) : (q \o seq)[i] = q[i]
           /\ \A i \in 1..Len(seq) : (q \o seq)[Len(q) + i] = seq[i]
           /\ \A i \in 1..Len(q) + Len(seq) :
                 i \in 1..Len(q) \/ \E j \in 1..Len(seq) : i = Len(q) + j
<1>1. /\ q \o seq \in Seq(I) /\ Len(q \o seq) = Len(q) + Len(seq)
      /\ Len(q) \in Nat /\ Len(seq) \in Nat
      /\ DOMAIN q = 1..Len(q) /\ DOMAIN seq = 1..Len(seq)
  OBVIOUS
<1>2. DOMAIN (q \o seq) = 1..Len(q) + Len(seq)
  BY <1>1
<1>3. /\ \A i \in 1..Len(q) : (q \o seq)[i] = q[i]
      /\ \A i \in 1..Len(seq) : (q \o seq)[Len(q) + i] = seq[i]
  BY <1>1
<1>4. ASSUME NEW i \in 1..Len(q) + Len(seq), i \notin 1..Len(q)
      PROVE  \E j \in 1..Len(seq) : i = Len(q) + j
  <2>1. i - Len(q) \in 1..Len(seq) /\ i = Len(q) + (i - Len(q))
    BY <1>1, <1>4
  <2> QED
    BY <2>1
<1> QED
  BY <1>1, <1>2, <1>3, <1>4

\* The ends of two pieces of code, one behind the other.
LEMMA ConcatEnds ==
    ASSUME NEW I, NEW q \in Seq(I), NEW seq \in Seq(I)
    PROVE  EndsOf(q \o seq) = EndsOf(q) \cup {Len(q) + i : i \in EndsOf(seq)}
<1> DEFINE c == q \o seq
<1>1. /\ Len(q) \in Nat /\ Len(seq) \in Nat
      /\ DOMAIN q = 1..Len(q) /\ DOMAIN seq = 1..Len(seq)
      /\ DOMAIN c = 1..Len(q) + Len(seq)
      /\ \A i \in 1..Len(q) : c[i] = q[i]
      /\ \A i \in 1..Len(seq) : c[Len(q) + i] = seq[i]
      /\ \A i \in 1..Len(q) + Len(seq) :
            i \in 1..Len(q) \/ \E j \in 1..Len(seq) : i = Len(q) + j
  BY ConcatGives
<1> HIDE DEF c
<1>2. ASSUME NEW i \in EndsOf(c)
      PROVE  i \in EndsOf(q) \cup {Len(q) + j : j \in EndsOf(seq)}
  <2>1. i \in DOMAIN c /\ IsEnd(c[i])
    BY <1>2 DEF EndsOf
  <2>2. CASE i \in 1..Len(q)
    BY <1>1, <2>1, <2>2 DEF EndsOf
  <2>3. ASSUME NEW j \in 1..Len(seq), i = Len(q) + j
        PROVE  i \in {Len(q) + m : m \in EndsOf(seq)}
    <3>1. IsEnd(seq[j]) /\ j \in DOMAIN seq
      BY <1>1, <2>1, <2>3
    <3> QED
      BY <2>3, <3>1 DEF EndsOf
  <2> QED
    BY <1>1, <2>1, <2>2, <2>3
<1>3. ASSUME NEW i \in EndsOf(q)
      PROVE  i \in EndsOf(c)
  <2>1. i \in 1..Len(q) /\ IsEnd(q[i])
    BY <1>1, <1>3 DEF EndsOf
  <2> QED
    BY <1>1, <2>1 DEF EndsOf
<1>4. ASSUME NEW j \in EndsOf(seq)
      PROVE  Len(q) + j \in EndsOf(c)
  <2>1. j \in 1..Len(seq) /\ IsEnd(seq[j])
    BY <1>1, <1>4 DEF EndsOf
  <2>2. Len(q) + j \in DOMAIN c /\ c[Len(q) + j] = seq[j]
    BY <1>1, <2>1
  <2> QED
    BY <2>1, <2>2 DEF EndsOf
<1>5. EndsOf(c) \subseteq EndsOf(q) \cup {Len(q) + i : i \in EndsOf(seq)}
  BY <1>2
<1>6. EndsOf(q) \cup {Len(q) + i : i \in EndsOf(seq)} \subseteq EndsOf(c)
  BY <1>3, <1>4
<1> QED
  BY <1>5, <1>6 DEF c

\* Open code that goes on, and open code that is left.
LEMMA GoesOn ==
    ASSUME NEW I, NEW q \in Seq(I), NEW seq \in Seq(I), IsOpen(q), IsOpen(seq)
    PROVE  IsOpen(q \o seq)
BY ConcatEnds DEF IsOpen

LEMMA Leaves ==
    ASSUME NEW I, NEW q \in Seq(I), NEW seq \in Seq(I), IsOpen(q), IsLeft(seq)
    PROVE  IsLeft(q \o seq) /\ (ByJump(seq) => ByJump(q \o seq))
<1>1. /\ Len(q \o seq) = Len(q) + Len(seq) /\ Len(q) \in Nat /\ Len(seq) \in Nat
      /\ \A i \in 1..Len(seq) : (q \o seq)[Len(q) + i] = seq[i]
      /\ q \o seq \in Seq(I)
  BY ConcatGives
<1>2. Len(seq) > 0 /\ EndsOf(seq) = {Len(seq)} /\ EndsOf(q) = {}
  BY DEF IsLeft, IsOpen
<1>3. EndsOf(q \o seq) = {Len(q) + Len(seq)}
  BY <1>2, ConcatEnds
<1>4. q \o seq # <<>>
  BY <1>1, <1>2
<1>5. (q \o seq)[Len(q) + Len(seq)] = seq[Len(seq)]
  BY <1>1, <1>2
<1> QED
  BY <1>1, <1>3, <1>4, <1>5 DEF IsLeft, ByJump

\* A jump behind a jump.
LEMMA Tails ==
    ASSUME NEW I, NEW q \in Seq(I), NEW x \in I, IsLeft(q), ByJump(q), x.op = "jump"
    PROVE  IsTailed(q \o <<x>>)
<1> DEFINE seq == <<x>>
           c == q \o seq
<1>1. seq \in Seq(I) /\ Len(seq) = 1 /\ seq[1] = x /\ DOMAIN seq = {1}
  OBVIOUS
<1>2. EndsOf(seq) = {1}
  BY <1>1 DEF EndsOf, IsEnd
<1> HIDE DEF seq
<1>3. /\ Len(c) = Len(q) + 1 /\ Len(q) \in Nat
      /\ \A i \in 1..Len(q) : c[i] = q[i]
      /\ \A i \in 1..1 : c[Len(q) + i] = seq[i]
  <2>1. seq \in Seq(I)
    BY <1>1
  <2>2. /\ Len(c) = Len(q) + Len(seq) /\ Len(q) \in Nat
        /\ \A i \in 1..Len(q) : c[i] = q[i]
        /\ \A i \in 1..Len(seq) : c[Len(q) + i] = seq[i]
    BY <2>1, ConcatGives
  <2> QED
    BY <1>1, <2>2
<1>4. EndsOf(c) = EndsOf(q) \cup {Len(q) + 1}
  <2>1. seq \in Seq(I)
    BY <1>1
  <2>2. EndsOf(c) = EndsOf(q) \cup {Len(q) + i : i \in EndsOf(seq)}
    BY <2>1, ConcatEnds
  <2> QED
    BY <1>2, <2>2
<1> HIDE DEF c
<1>5. Len(q) > 0 /\ EndsOf(q) = {Len(q)} /\ q[Len(q)].op = "jump"
  BY DEF IsLeft, ByJump
<1>6. c[Len(q)].op = "jump" /\ c[Len(q) + 1].op = "jump"
  BY <1>1, <1>3, <1>5
<1>7. Len(c) > 1 /\ Len(c) - 1 = Len(q)
  BY <1>3, <1>5
<1> QED
  BY <1>3, <1>4, <1>5, <1>6, <1>7 DEF IsTailed, ByJump, c, seq

\* An instruction in front that is no end.
LEMMA Prefixed ==
    ASSUME NEW I, NEW q \in Seq(I), NEW x \in I, ~IsEnd(x)
    PROVE  /\ IsOpen(q) <=> IsOpen(<<x>> \o q)
           /\ IsLeft(q) => IsLeft(<<x>> \o q) /\ (ByJump(q) => ByJump(<<x>> \o q))
           /\ IsTailed(q) => IsTailed(<<x>> \o q)
<1> DEFINE seq == <<x>>
           c == seq \o q
<1>1. seq \in Seq(I) /\ Len(seq) = 1 /\ seq[1] = x /\ DOMAIN seq = {1}
  OBVIOUS
<1>2. EndsOf(seq) = {}
  BY <1>1 DEF EndsOf
<1> HIDE DEF seq
<1>3. /\ Len(c) = 1 + Len(q) /\ Len(q) \in Nat
      /\ \A i \in 1..Len(q) : c[1 + i] = q[i]
      /\ DOMAIN q = 1..Len(q)
  <2>1. seq \in Seq(I)
    BY <1>1
  <2>2. /\ Len(c) = Len(seq) + Len(q) /\ Len(q) \in Nat
        /\ \A i \in 1..Len(q) : c[Len(seq) + i] = q[i]
        /\ DOMAIN q = 1..Len(q)
    BY <2>1, ConcatGives
  <2> QED
    BY <1>1, <2>2
<1>4. EndsOf(c) = {1 + i : i \in EndsOf(q)}
  <2>1. seq \in Seq(I)
    BY <1>1
  <2>2. EndsOf(c) = EndsOf(seq) \cup {Len(seq) + i : i \in EndsOf(q)}
    BY <2>1, ConcatEnds
  <2> QED
    BY <1>1, <1>2, <2>2
<1> HIDE DEF c
<1>5. EndsOf(q) \subseteq 1..Len(q)
  BY <1>3 DEF EndsOf
<1>6. IsOpen(q) <=> IsOpen(c)
  BY <1>4 DEF IsOpen
<1>7. c # <<>>
  BY <1>3
<1>8. ASSUME IsLeft(q)
      PROVE  IsLeft(c) /\ (ByJump(q) => ByJump(c))
  <2>1. EndsOf(q) = {Len(q)} /\ Len(q) > 0
    BY <1>3, <1>5, <1>8 DEF IsLeft
  <2>2. EndsOf(c) = {1 + Len(q)} /\ c[1 + Len(q)] = q[Len(q)]
    BY <1>3, <1>4, <2>1
  <2> QED
    BY <1>3, <1>7, <2>2 DEF IsLeft, ByJump
<1>9. ASSUME IsTailed(q)
      PROVE  IsTailed(c)
  <2>1. /\ EndsOf(q) = {Len(q) - 1, Len(q)} /\ Len(q) > 1
        /\ q[Len(q)].op = "jump" /\ q[Len(q) - 1].op = "jump"
    BY <1>9 DEF IsTailed, ByJump
  <2>2. EndsOf(c) = {1 + (Len(q) - 1), 1 + Len(q)}
    BY <1>4, <2>1
  <2>3. /\ 1 + (Len(q) - 1) = Len(c) - 1 /\ 1 + Len(q) = Len(c)
        /\ Len(q) - 1 \in 1..Len(q) /\ Len(q) \in 1..Len(q) /\ Len(c) > 1
    BY <1>3, <2>1
  <2>4. c[Len(c) - 1] = q[Len(q) - 1] /\ c[Len(c)] = q[Len(q)]
    BY <1>3, <2>3
  <2> QED
    BY <2>1, <2>2, <2>3, <2>4 DEF IsTailed, ByJump
<1> QED
  BY <1>6, <1>8, <1>9 DEF c, seq

\* The end of a block shows in its flag.
LEMMA OpenHasNoEnd ==
    ASSUME NEW q
    PROVE  IsOpen(q) <=> ~HasEnd(q)
BY DEF IsOpen, EndsOf, HasEnd

LEMMA ShapeEnds ==
    ASSUME NEW I, NEW q \in Seq(I)
    PROVE  /\ IsLeft(q) => HasEnd(q)
           /\ IsTailed(q) => HasEnd(q)
BY DEF IsLeft, IsTailed, EndsOf, HasEnd

LEMMA ConcatHasEnd ==
    ASSUME NEW I, NEW q \in Seq(I), NEW seq \in Seq(I)
    PROVE  HasEnd(q \o seq) <=> HasEnd(q) \/ HasEnd(seq)
<1>1. EndsOf(q \o seq) = EndsOf(q) \cup {Len(q) + i : i \in EndsOf(seq)}
  BY ConcatEnds
<1>2. \A c : HasEnd(c) <=> EndsOf(c) # {}
  BY DEF HasEnd, EndsOf
<1>3. {Len(q) + i : i \in EndsOf(seq)} = {} <=> EndsOf(seq) = {}
  OBVIOUS
<1> QED
  BY <1>1, <1>2, <1>3

LEMMA NoExitConcat ==
    ASSUME NEW I, NEW q \in Seq(I), NEW seq \in Seq(I), NoExit(q), NoExit(seq)
    PROVE  NoExit(q \o seq)
<1> DEFINE c == q \o seq
<1>1. /\ DOMAIN q = 1..Len(q) /\ DOMAIN seq = 1..Len(seq)
      /\ DOMAIN c = 1..Len(q) + Len(seq)
      /\ \A i \in 1..Len(q) : c[i] = q[i]
      /\ \A i \in 1..Len(seq) : c[Len(q) + i] = seq[i]
      /\ \A i \in 1..Len(q) + Len(seq) :
            i \in 1..Len(q) \/ \E j \in 1..Len(seq) : i = Len(q) + j
  BY ConcatGives
<1> HIDE DEF c
<1>2. \A i \in DOMAIN c : c[i] # Jump(Exit)
  <2>1. /\ \A i \in 1..Len(q) : c[i] # Jump(Exit)
        /\ \A i \in 1..Len(seq) : c[Len(q) + i] # Jump(Exit)
    BY <1>1 DEF NoExit
  <2>2. ASSUME NEW i \in DOMAIN c
        PROVE  i \in 1..Len(q) \/ \E j \in 1..Len(seq) : i = Len(q) + j
    BY <1>1, <2>2
  <2> QED
    BY <2>1, <2>2, Zenon
<1> QED
  BY <1>2, Zenon DEF NoExit, c

LEMMA ExitsStay ==
    ASSUME NEW I, NEW q \in Seq(I), NEW seq \in Seq(I), NEW s, ExitsBy(q, s),
           NoExit(seq)
    PROVE  ExitsBy(q \o seq, s)
<1> DEFINE c == q \o seq
<1>1. /\ Len(q) \in Nat /\ Len(seq) \in Nat
      /\ DOMAIN q = 1..Len(q) /\ DOMAIN seq = 1..Len(seq)
      /\ DOMAIN c = 1..Len(q) + Len(seq)
      /\ \A i \in 1..Len(q) : c[i] = q[i]
      /\ \A i \in 1..Len(seq) : c[Len(q) + i] = seq[i]
      /\ \A i \in 1..Len(q) + Len(seq) :
            i \in 1..Len(q) \/ \E j \in 1..Len(seq) : i = Len(q) + j
  BY ConcatGives
<1> HIDE DEF c
<1>2. ASSUME NEW i \in DOMAIN c, c[i] = Jump(Exit)
      PROVE  i > 1 /\ s # Null /\ c[i - 1].op = "store" /\ c[i - 1].args[2] = s
  <2>1. i \in 1..Len(q)
    <3>1. \A j \in 1..Len(seq) : c[Len(q) + j] # Jump(Exit)
      BY <1>1 DEF NoExit
    <3>2. i \in 1..Len(q) \/ \E j \in 1..Len(seq) : i = Len(q) + j
      BY <1>1, <1>2
    <3> QED
      BY <1>2, <3>1, <3>2, Zenon
  <2>2. i > 1 /\ s # Null /\ q[i - 1].op = "store" /\ q[i - 1].args[2] = s
    BY <1>1, <1>2, <2>1 DEF ExitsBy
  <2>3. c[i - 1] = q[i - 1]
    BY <1>1, <2>1, <2>2
  <2> QED
    BY <2>2, <2>3
<1> QED
  BY <1>2 DEF ExitsBy, c

LEMMA ExitsReturn ==
    ASSUME NEW I, NEW q \in Seq(I), NEW s, s # Null, ExitsBy(q, s),
           NEW x \in I, NEW y \in I, x.op = "store", x.args[2] = s,
           x # Jump(Exit)
    PROVE  ExitsBy(q \o <<x, y>>, s)
<1> DEFINE seq == <<x, y>>
           c == q \o seq
<1>1. /\ seq \in Seq(I) /\ Len(seq) = 2 /\ seq[1] = x /\ seq[2] = y
  OBVIOUS
<1> HIDE DEF seq
<1>2. /\ Len(q) \in Nat /\ DOMAIN q = 1..Len(q)
      /\ DOMAIN c = 1..Len(q) + Len(seq)
      /\ \A i \in 1..Len(q) : c[i] = q[i]
      /\ \A i \in 1..Len(seq) : c[Len(q) + i] = seq[i]
  <2>1. seq \in Seq(I)
    BY <1>1
  <2> QED
    BY <2>1, ConcatGives
<1> HIDE DEF c
<1>3. c[Len(q) + 1] = x /\ DOMAIN c = 1..Len(q) + 2
  BY <1>1, <1>2
<1>4. ASSUME NEW i \in DOMAIN c, c[i] = Jump(Exit)
      PROVE  i > 1 /\ s # Null /\ c[i - 1].op = "store" /\ c[i - 1].args[2] = s
  <2>1. i \in 1..Len(q) \/ i = Len(q) + 1 \/ i = Len(q) + 2
    BY <1>2, <1>3
  <2>2. CASE i \in 1..Len(q)
    <3>1. i > 1 /\ s # Null /\ q[i - 1].op = "store" /\ q[i - 1].args[2] = s
      BY <1>2, <1>4, <2>2 DEF ExitsBy
    <3>2. c[i - 1] = q[i - 1]
      BY <1>2, <2>2, <3>1
    <3> QED
      BY <3>1, <3>2
  <2>3. CASE i = Len(q) + 2
    <3>1. i - 1 = Len(q) + 1 /\ i > 1
      BY <1>2, <2>3
    <3> QED
      BY <1>3, <3>1
  <2>4. i # Len(q) + 1
    BY <1>3, <1>4
  <2> QED
    BY <2>1, <2>2, <2>3, <2>4
<1> QED
  BY <1>4 DEF ExitsBy, c, seq

LEMMA NoExits ==
    ASSUME NEW q
    PROVE  /\ ExitsBy(q, Null) => NoExit(q)
           /\ \A s : NoExit(q) => ExitsBy(q, s)
BY DEF ExitsBy, NoExit

\* The instructions, told apart.
LEMMA Builders ==
    /\ \A s : ~IsEnd(Alloc(s)) /\ Alloc(s) # Jump(Exit)
    /\ \A v, s : /\ ~IsEnd(Store(v, s)) /\ Store(v, s) # Jump(Exit)
                 /\ Store(v, s).op = "store" /\ Store(v, s).args[2] = s
    /\ \A s, f : ~IsEnd(Load(s, f)) /\ Load(s, f) # Jump(Exit)
    /\ \A s, v, w : ~IsEnd(BExpr(s, v, w)) /\ BExpr(s, v, w) # Jump(Exit)
    /\ \A v, t, f : IsEnd(Br(v, t, f)) /\ Br(v, t, f) # Jump(Exit)
    /\ \A b : IsEnd(Jump(b)) /\ Jump(b).op = "jump"
    /\ \A b : b # Exit => Jump(b) # Jump(Exit)
    /\ \A s : IsEnd(Ret(s)) /\ Ret(s) # Jump(Exit)
<1>1. /\ \A s : Alloc(s).op = "alloc" /\ \A v, w : Store(v, w).op = "store"
      /\ \A s, f : Load(s, f).op = "load"
      /\ \A s, v, w : BExpr(s, v, w).op = "bexpr"
      /\ \A v, t, f : Br(v, t, f).op = "br"
      /\ \A b : Jump(b).op = "jump" /\ \A s : Ret(s).op = "ret"
  BY DEF Alloc, Store, Load, BExpr, Br, Jump, Ret, Instr
<1>2. \A v, s : Store(v, s).args[2] = s
  BY DEF Store, Instr
<1>3. \A b : Jump(b).to[1] = b
  BY DEF Jump, Instr
<1> QED
  BY <1>1, <1>2, <1>3 DEF IsEnd

\* Short pieces of code.
LEMMA CodeOf1 ==
    ASSUME NEW x, x # Jump(Exit)
    PROVE  /\ NoExit(<<x>>)
           /\ ~IsEnd(x) => IsOpen(<<x>>)
           /\ IsEnd(x) => IsLeft(<<x>>)
           /\ x.op = "jump" => ByJump(<<x>>)
BY DEF NoExit, IsOpen, IsLeft, EndsOf, ByJump

LEMMA CodeOf2 ==
    ASSUME NEW x, NEW y, ~IsEnd(x), x # Jump(Exit)
    PROVE  /\ ~IsEnd(y) => IsOpen(<<x, y>>)
           /\ y # Jump(Exit) => NoExit(<<x, y>>)
           /\ IsEnd(y) => IsLeft(<<x, y>>)
           /\ y.op = "jump" => ByJump(<<x, y>>)
BY DEF NoExit, IsOpen, IsLeft, EndsOf, ByJump

LEMMA CodeOf3 ==
    ASSUME NEW x, NEW y, NEW z, ~IsEnd(x), ~IsEnd(y), IsEnd(z),
           x # Jump(Exit), y # Jump(Exit), z # Jump(Exit)
    PROVE  NoExit(<<x, y, z>>) /\ IsLeft(<<x, y, z>>)
BY DEF NoExit, IsLeft, EndsOf

LEMMA CodeOf4 ==
    ASSUME NEW w, NEW x, NEW y, NEW z, ~IsEnd(w), ~IsEnd(x), ~IsEnd(y), IsEnd(z),
           w # Jump(Exit), x # Jump(Exit), y # Jump(Exit), z # Jump(Exit)
    PROVE  NoExit(<<w, x, y, z>>) /\ IsLeft(<<w, x, y, z>>)
BY DEF NoExit, IsLeft, EndsOf

-----------------------------------------------------------------------------
(* What the visits in progress still owe an end to.                           *)

Due(f) == Owed(f) \ {Null}
Debts(fs) == UNION {Due(fs[i]) : i \in DOMAIN fs}
BranchOK(f) == /\ f.k = "then" => f.else # f.merge
               /\ f.k = "while" => f.body # f.merge
               /\ f.k = "if" => f.then \/ f.else
Stacked(fs) ==
    /\ \A i, j \in DOMAIN fs : i # j => Due(fs[i]) \cap Due(fs[j]) = {}
    /\ \A i \in DOMAIN fs : BranchOK(fs[i])

LEMMA OwedIs ==
    ASSUME NEW f
    PROVE  /\ f.k = "while" => Owed(f) = {f.body, f.merge}
           /\ f.k = "then" => Owed(f) = {f.else, f.merge}
           /\ f.k \in {"else", "body", "rhs"} => Owed(f) = {f.merge}
           /\ f.k \notin {"while", "then", "else", "body", "rhs"} => Owed(f) = {}
BY DEF Owed

LEMMA DueTyped ==
    ASSUME NEW n, NEW V, NEW B, NEW f \in Frames(n, V, B)
    PROVE  Due(f) \subseteq 3..B
<1>1. /\ f.k = "then" => f.else \in {Null} \cup 3..B /\ f.merge \in 3..B
      /\ f.k \in {"else", "rhs"} => f.merge \in 3..B
      /\ f.k \in LoopKinds =>
            f \in [k : LoopKinds, stmt : BOOLEAN, entry : 3..B, body : 3..B,
                   merge : 3..B, preEntry : 0..B, preMerge : 0..B]
  BY FrameFields
<1>2. f.k \in {"while", "body"} => f.body \in 3..B /\ f.merge \in 3..B
  BY <1>1 DEF LoopKinds
<1> QED
  BY <1>1, <1>2, OwedIs DEF Due

LEMMA DebtsTyped ==
    ASSUME Control
    PROVE  Debts(frames) \subseteq 3..Len(blocks)
<1>1. \A i \in DOMAIN frames : frames[i] \in FramesNow
  BY DEF Control, Typed, FramesNow
<1>2. \A i \in DOMAIN frames : Due(frames[i]) \subseteq 3..Len(blocks)
  BY <1>1, DueTyped DEF FramesNow
<1> QED
  BY <1>2 DEF Debts

LEMMA DebtsPush ==
    ASSUME NEW F, NEW fs \in Seq(F), NEW f \in F, Stacked(fs), BranchOK(f),
           Due(f) \cap Debts(fs) = {}
    PROVE  /\ Stacked(Append(fs, f))
           /\ Debts(Append(fs, f)) = Debts(fs) \cup Due(f)
<1> DEFINE gs == Append(fs, f)
           n == Len(fs) + 1
<1>1. /\ \A i \in DOMAIN fs : gs[i] = fs[i]
      /\ gs[n] = f /\ DOMAIN gs = DOMAIN fs \cup {n}
  BY PushGives
<1> HIDE DEF gs, n
<1>2. \A i \in DOMAIN fs : Due(fs[i]) \cap Due(f) = {}
  BY DEF Debts
<1>3. ASSUME NEW i \in DOMAIN gs, NEW j \in DOMAIN gs, i # j
      PROVE  Due(gs[i]) \cap Due(gs[j]) = {}
  <2>1. CASE i \in DOMAIN fs /\ j \in DOMAIN fs
    BY <1>1, <1>3, <2>1, Zenon DEF Stacked
  <2>2. CASE i = n /\ j \in DOMAIN fs
    BY <1>1, <1>2, <2>2
  <2>3. CASE j = n /\ i \in DOMAIN fs
    BY <1>1, <1>2, <2>3
  <2> QED
    BY <1>1, <1>3, <2>1, <2>2, <2>3
<1>4. \A i \in DOMAIN gs : BranchOK(gs[i])
  BY <1>1, Zenon DEF Stacked
<1>5. Debts(gs) = Debts(fs) \cup Due(f)
  <2>1. \A b : b \in Debts(gs) <=> \E i \in DOMAIN gs : b \in Due(gs[i])
    BY DEF Debts
  <2>2. \A b : b \in Debts(fs) <=> \E i \in DOMAIN fs : b \in Due(fs[i])
    BY DEF Debts
  <2>3. \A b : b \in Debts(gs) <=> b \in Debts(fs) \/ b \in Due(f)
    BY <1>1, <2>1, <2>2, Zenon
  <2> QED
    BY <2>3
<1> QED
  BY <1>3, <1>4, <1>5 DEF Stacked, gs

LEMMA DebtsPop ==
    ASSUME NEW F, NEW fs \in Seq(F), fs # <<>>, Stacked(fs)
    PROVE  /\ Stacked(Below(fs)) /\ BranchOK(fs[Len(fs)])
           /\ Debts(Below(fs)) = Debts(fs) \ Due(fs[Len(fs)])
           /\ Due(fs[Len(fs)]) \subseteq Debts(fs)
<1> DEFINE gs == Below(fs)
           n == Len(fs)
<1>1. /\ \A i \in DOMAIN gs : gs[i] = fs[i]
      /\ DOMAIN fs = DOMAIN gs \cup {n} /\ n \notin DOMAIN gs
  <2>1. /\ \A i \in 1..n - 1 : gs[i] = fs[i]
        /\ DOMAIN gs = 1..n - 1 /\ n \in Nat /\ n >= 1 /\ DOMAIN fs = 1..n
    BY PopGives
  <2> QED
    BY <2>1
<1> HIDE DEF gs, n
<1>2. Stacked(gs) /\ BranchOK(fs[n])
  BY <1>1, Zenon DEF Stacked
<1>3. \A i \in DOMAIN gs : Due(fs[i]) \cap Due(fs[n]) = {}
  BY <1>1, Zenon DEF Stacked
<1>4. \A b : b \in Debts(gs) <=> \E i \in DOMAIN gs : b \in Due(gs[i])
  BY DEF Debts
<1>5. \A b : b \in Debts(fs) <=> \E i \in DOMAIN fs : b \in Due(fs[i])
  BY DEF Debts
<1>6. ASSUME NEW b \in Debts(gs)
      PROVE  b \in Debts(fs) /\ b \notin Due(fs[n])
  <2>1. PICK i \in DOMAIN gs : b \in Due(gs[i])
    BY <1>4, <1>6
  <2>2. i \in DOMAIN fs /\ b \in Due(fs[i])
    BY <1>1, <2>1
  <2>3. b \in Debts(fs)
    BY <1>5, <2>2
  <2>4. Due(fs[i]) \cap Due(fs[n]) = {}
    BY <1>3, <2>1
  <2> QED
    BY <2>2, <2>3, <2>4
<1>7. \A b : b \in Debts(fs) => b \in Debts(gs) \/ b \in Due(fs[n])
  BY <1>1, <1>4, <1>5, Zenon
<1>8. Due(fs[n]) \subseteq Debts(fs)
  BY <1>1, <1>5
<1>9. Debts(gs) = Debts(fs) \ Due(fs[n])
  BY <1>6, <1>7
<1> QED
  BY <1>2, <1>8, <1>9 DEF gs, n

-----------------------------------------------------------------------------
(* How the blocks are laid out: bs are the blocks, c is the current one, D are *)
(* those that visits in progress owe an end to, s is the return slot.          *)

Blocked(bs, c, D, s) ==
    /\ \A b \in DOMAIN bs : /\ Shape(bs[b].instrs)
                            /\ bs[b].term <=> HasEnd(bs[b].instrs)
    /\ c # Exit
    /\ IsOpen(bs[c].instrs) \/ (IsLeft(bs[c].instrs) /\ ByJump(bs[c].instrs))
    /\ D \subseteq 3..Len(bs) /\ \A b \in D : bs[b].instrs = <<>> /\ b # c
    /\ \A b \in DOMAIN bs :
          bs[b].term \/ b = c \/ (b = Exit /\ s = Null) \/ b \in D
Slotted(bs, s) ==
    /\ s = Null => bs[Exit].instrs = <<>>
    /\ s # Null => /\ bs[Entry].instrs # <<>> /\ bs[Entry].instrs[1] = Alloc(s)
                   /\ bs[Exit].instrs = SlotCode(s)
    /\ \A b \in DOMAIN bs : ExitsBy(bs[b].instrs, s)
Laid(bs, c, D, s) == Blocked(bs, c, D, s) /\ Slotted(bs, s)

\* Code that may follow: what goes on, what leaves, or the jump behind a jump.
MayFollow(q, seq) ==
    \/ IsOpen(q) /\ IsOpen(seq)
    \/ IsOpen(q) /\ IsLeft(seq)
    \/ ~IsOpen(q) /\ seq = <<>>
    \/ /\ IsLeft(q) /\ ByJump(q)
       /\ Len(seq) = 1 /\ seq[1].op = "jump"

LEMMA ShapeFollows ==
    ASSUME NEW I, NEW q \in Seq(I), NEW seq \in Seq(I), Shape(q), MayFollow(q, seq)
    PROVE  Shape(q \o seq)
<1>1. CASE IsOpen(q) /\ IsOpen(seq)
  BY <1>1, GoesOn DEF Shape
<1>2. CASE IsOpen(q) /\ IsLeft(seq)
  BY <1>2, Leaves DEF Shape
<1>3. CASE seq = <<>>
  <2>1. q \o seq = q
    BY <1>3
  <2> QED
    BY <2>1
<1>4. CASE /\ IsLeft(q) /\ ByJump(q)
           /\ Len(seq) = 1 /\ seq[1].op = "jump"
  <2>1. seq = <<seq[1]>> /\ seq[1] \in I
    BY <1>4
  <2>2. IsTailed(q \o <<seq[1]>>)
    BY <1>4, <2>1, Tails
  <2> QED
    BY <2>1, <2>2 DEF Shape
<1> QED
  BY <1>1, <1>2, <1>3, <1>4 DEF MayFollow

LEMMA StepLaid ==
    ASSUME NEW bs, IsBlocks(bs), Len(bs) >= 2, NEW c \in DOMAIN bs, NEW D, NEW s,
           Laid(bs, c, D, s),
           NEW I, \A b \in DOMAIN bs : bs[b].instrs \in Seq(I), NEW seq \in Seq(I),
           NEW bs2, NEW k \in Nat, Extends(bs, bs2, k, c, seq),
           ExitsBy(bs[c].instrs \o seq, s), MayFollow(bs[c].instrs, seq),
           NEW c2 \in {c} \cup D \cup (Len(bs) + 1..Len(bs) + k),
           c2 = c => \/ IsOpen(bs[c].instrs) /\ IsOpen(seq)
                     \/ IsOpen(bs[c].instrs) /\ IsLeft(seq) /\ ByJump(seq),
           c2 # c /\ IsOpen(bs[c].instrs) => IsLeft(seq)
    PROVE  /\ Laid(bs2, c2, (D \cup (Len(bs) + 1..Len(bs) + k)) \ {c2}, s)
           /\ c2 # c => IsOpen(bs2[c2].instrs)
           /\ c2 = c /\ IsOpen(seq) => IsOpen(bs2[c2].instrs)
<1> DEFINE new == Len(bs) + 1..Len(bs) + k
           D2 == (D \cup new) \ {c2}
           q == bs[c].instrs
<1>1. /\ Len(bs) \in Nat /\ DOMAIN bs = 1..Len(bs) /\ IsBlocks(bs2)
      /\ Len(bs2) = Len(bs) + k
      /\ DOMAIN bs2 = 1..Len(bs) + k
  BY BlocksLen DEF Extends
<1>2. /\ \A b \in DOMAIN bs : /\ Shape(bs[b].instrs)
                              /\ bs[b].term <=> HasEnd(bs[b].instrs)
      /\ c # Exit /\ D \subseteq 3..Len(bs)
      /\ \A b \in D : bs[b].instrs = <<>> /\ b # c
      /\ \A b \in DOMAIN bs :
            bs[b].term \/ b = c \/ (b = Exit /\ s = Null) \/ b \in D
  BY DEF Laid, Blocked
<1>3. q \in Seq(I) /\ Shape(q) /\ (bs[c].term <=> HasEnd(q))
  BY <1>2
<1>4. \A b \in DOMAIN bs : /\ b # c => bs2[b].instrs = bs[b].instrs
                           /\ b # c => bs2[b].term = bs[b].term
  <2>1. DOMAIN bs \subseteq DOMAIN bs2
    BY <1>1
  <2> QED
    BY <2>1, Zenon DEF Extends
<1>5. bs2[c].instrs = q \o seq /\ bs2[c].term = (bs[c].term \/ HasEnd(seq))
  <2>1. c \in DOMAIN bs2
    BY <1>1
  <2> QED
    BY <2>1, Zenon DEF Extends
<1>6. \A b \in new : bs2[b].instrs = <<>> /\ bs2[b].term = FALSE
  <2>1. \A b \in new : b \in DOMAIN bs2 /\ b \notin DOMAIN bs /\ b # c
    BY <1>1
  <2> QED
    BY <2>1, Zenon DEF Extends
<1>7. \A b \in DOMAIN bs2 : b = c \/ b \in new \/ (b \in DOMAIN bs /\ b # c)
  BY <1>1
<1>8. Shape(q \o seq)
  BY <1>3, ShapeFollows
<1>9. HasEnd(q \o seq) <=> HasEnd(q) \/ HasEnd(seq)
  BY <1>3, ConcatHasEnd
<1>10. Shape(<<>>) /\ IsOpen(<<>>) /\ ~HasEnd(<<>>) /\ ExitsBy(<<>>, s)
  BY DEF Shape, IsOpen, EndsOf, HasEnd, ExitsBy
<1>11. c2 \in {c} \cup D \cup new
  OBVIOUS
<1> HIDE DEF new, q
<1>12. \A b \in DOMAIN bs2 : /\ Shape(bs2[b].instrs)
                             /\ bs2[b].term <=> HasEnd(bs2[b].instrs)
  <2> SUFFICES ASSUME NEW b \in DOMAIN bs2
               PROVE  /\ Shape(bs2[b].instrs)
                      /\ bs2[b].term <=> HasEnd(bs2[b].instrs)
    OBVIOUS
  <2>1. CASE b = c
    BY <1>3, <1>5, <1>8, <1>9, <2>1, Zenon
  <2>2. CASE b \in new
    BY <1>6, <1>10, <2>2, Zenon
  <2>3. CASE b \in DOMAIN bs /\ b # c
    BY <1>2, <1>4, <2>3, Zenon
  <2> QED
    BY <1>7, <2>1, <2>2, <2>3
<1>13. /\ \A b \in D : b \in DOMAIN bs /\ b # c /\ b # Exit
       /\ \A b \in new : b \notin D /\ b # c /\ b # Exit
  BY <1>1, <1>2 DEF Exit, new
<1>14. \A b \in D \cup new : bs2[b].instrs = <<>>
  BY <1>2, <1>4, <1>6, <1>13, Zenon
<1>15. c2 # Exit
  BY <1>11, <1>2, <1>13
<1>16. c2 # c => bs2[c2].instrs = <<>>
  BY <1>11, <1>14
<1>17. IsOpen(bs2[c2].instrs) \/ (IsLeft(bs2[c2].instrs) /\ ByJump(bs2[c2].instrs))
  <2>1. CASE c2 # c
    BY <1>10, <1>16, <2>1, Zenon
  <2>2. CASE c2 = c /\ IsOpen(seq)
    <3>1. IsOpen(q)
      BY <2>2 DEF q
    <3>2. IsOpen(q \o seq)
      BY <1>3, <2>2, <3>1, GoesOn
    <3> QED
      BY <1>5, <2>2, <3>2
  <2>3. CASE c2 = c /\ IsLeft(seq) /\ ByJump(seq)
    <3>1. IsOpen(q)
      BY <2>3 DEF q
    <3>2. IsLeft(q \o seq) /\ ByJump(q \o seq)
      BY <1>3, <2>3, <3>1, Leaves
    <3> QED
      BY <1>5, <2>3, <3>2
  <2> QED
    BY <2>1, <2>2, <2>3
<1>18. D2 \subseteq 3..Len(bs2) /\ \A b \in D2 : bs2[b].instrs = <<>> /\ b # c2
  <2>1. new \subseteq 3..Len(bs2) /\ 3..Len(bs) \subseteq 3..Len(bs2)
    BY <1>1 DEF new
  <2> QED
    BY <1>2, <1>14, <2>1, Zenon
<1>19. c2 # c => bs2[c].term
  <2>1. ASSUME c2 # c
        PROVE  HasEnd(q) \/ HasEnd(seq)
    <3>1. CASE IsOpen(q)
      BY <2>1, <3>1, ShapeEnds DEF q
    <3>2. CASE ~IsOpen(q)
      BY <3>2, OpenHasNoEnd
    <3> QED
      BY <3>1, <3>2
  <2> QED
    BY <1>3, <1>5, <2>1, Zenon
<1>20. \A b \in DOMAIN bs2 :
          bs2[b].term \/ b = c2 \/ (b = Exit /\ s = Null) \/ b \in D2
  <2> SUFFICES ASSUME NEW b \in DOMAIN bs2, ~bs2[b].term, b # c2,
                      ~(b = Exit /\ s = Null)
               PROVE  b \in D2
    OBVIOUS
  <2>1. CASE b = c
    BY <1>19, <2>1, Zenon
  <2>2. CASE b \in DOMAIN bs /\ b # c
    <3>1. ~bs[b].term
      BY <1>4, <2>2, Zenon
    <3>2. b \in D
      BY <1>2, <2>2, <3>1, Zenon
    <3> QED
      BY <3>2
  <2> QED
    BY <1>7, <2>1, <2>2
<1>21. Blocked(bs2, c2, D2, s)
  BY <1>12, <1>15, <1>17, <1>18, <1>20, Zenon DEF Blocked
<1>22. Slotted(bs2, s)
  <2>1. /\ s = Null => bs[Exit].instrs = <<>>
        /\ s # Null => /\ bs[Entry].instrs # <<>> /\ bs[Entry].instrs[1] = Alloc(s)
                       /\ bs[Exit].instrs = SlotCode(s)
        /\ \A b \in DOMAIN bs : ExitsBy(bs[b].instrs, s)
    BY DEF Laid, Slotted
  <2>2. Exit \in DOMAIN bs /\ Entry \in DOMAIN bs
    BY <1>1 DEF Exit, Entry
  <2>3. bs2[Exit].instrs = bs[Exit].instrs
    BY <1>2, <1>4, <2>2, Zenon
  <2>4. ASSUME s # Null
        PROVE  bs2[Entry].instrs # <<>> /\ bs2[Entry].instrs[1] = Alloc(s)
    <3>1. bs[Entry].instrs # <<>> /\ bs[Entry].instrs[1] = Alloc(s)
      BY <2>1, <2>4
    <3>2. CASE Entry = c
      <4>1. q # <<>> /\ q[1] = Alloc(s) /\ q \in Seq(I)
        BY <1>3, <3>1, <3>2 DEF q
      <4>2. q \o seq # <<>> /\ (q \o seq)[1] = q[1]
        <5>1. Len(q) \in Nat /\ Len(q) > 0
          BY <4>1
        <5> QED
          BY <4>1, <5>1, ConcatGives
      <4> QED
        BY <1>5, <3>2, <4>1, <4>2
    <3>3. CASE Entry # c
      BY <1>4, <2>2, <3>1, <3>3, Zenon
    <3> QED
      BY <3>2, <3>3
  <2>5. ASSUME NEW b \in DOMAIN bs2
        PROVE  ExitsBy(bs2[b].instrs, s)
    <3>1. CASE b = c
      BY <1>5, <3>1, Zenon DEF q
    <3>2. CASE b \in new
      BY <1>6, <1>10, <3>2, Zenon
    <3>3. CASE b \in DOMAIN bs /\ b # c
      BY <1>4, <2>1, <3>3, Zenon
    <3> QED
      BY <1>7, <3>1, <3>2, <3>3
  <2> QED
    BY <2>1, <2>3, <2>4, <2>5, Zenon DEF Slotted
<1>23. c2 = c /\ IsOpen(seq) => IsOpen(bs2[c2].instrs)
  <2> SUFFICES ASSUME c2 = c, IsOpen(seq)
               PROVE  IsOpen(q \o seq)
    BY <1>5
  <2>1. IsOpen(q)
    <3>1. IsOpen(seq) => ~HasEnd(seq)
      BY OpenHasNoEnd
    <3>2. IsLeft(seq) => HasEnd(seq)
      BY ShapeEnds
    <3> QED
      BY <3>1, <3>2 DEF q
  <2> QED
    BY <1>3, <2>1, GoesOn
<1>24. c2 # c => IsOpen(bs2[c2].instrs)
  BY <1>10, <1>16, Zenon
<1> QED
  BY <1>21, <1>22, <1>23, <1>24 DEF Laid, new

\* The first return makes the slot.
LEMMA SlotLaid ==
    ASSUME NEW bs, IsBlocks(bs), Len(bs) >= 2, NEW c \in DOMAIN bs, NEW D,
           Laid(bs, c, D, Null),
           NEW I, \A b \in DOMAIN bs : bs[b].instrs \in Seq(I),
           NEW s, s # Null, Alloc(s) \in I, SlotCode(s) \in Seq(I)
    PROVE  /\ Laid(WithSlot(bs, s), c, D, s)
           /\ IsOpen(bs[c].instrs) => IsOpen(WithSlot(bs, s)[c].instrs)
<1> DEFINE bs2 == WithSlot(bs, s)
           head == <<Alloc(s)>> \o bs[Entry].instrs
<1>1. /\ Len(bs) \in Nat /\ DOMAIN bs = 1..Len(bs)
      /\ Entry \in DOMAIN bs /\ Exit \in DOMAIN bs /\ Entry # Exit
  BY BlocksLen DEF Entry, Exit
<1>2. /\ Len(bs2) = Len(bs) /\ DOMAIN bs2 = DOMAIN bs
      /\ \A b \in DOMAIN bs :
            /\ bs2[b].instrs = IF b = Entry THEN head
                               ELSE IF b = Exit THEN bs[b].instrs \o SlotCode(s)
                               ELSE bs[b].instrs
            /\ bs2[b].term = IF b = Exit THEN TRUE ELSE bs[b].term
  <2>1. /\ Len(WithSlot(bs, s)) = Len(bs) /\ DOMAIN WithSlot(bs, s) = DOMAIN bs
        /\ \A b \in DOMAIN bs :
              /\ WithSlot(bs, s)[b].instrs
                   = IF b = Entry THEN <<Alloc(s)>> \o bs[b].instrs
                     ELSE IF b = Exit THEN bs[b].instrs \o SlotCode(s)
                     ELSE bs[b].instrs
              /\ WithSlot(bs, s)[b].term = IF b = Exit THEN TRUE ELSE bs[b].term
    BY SlotGives
  <2>2. \A b \in DOMAIN bs :
           (IF b = Entry THEN <<Alloc(s)>> \o bs[b].instrs
            ELSE IF b = Exit THEN bs[b].instrs \o SlotCode(s)
            ELSE bs[b].instrs)
           = (IF b = Entry THEN head
              ELSE IF b = Exit THEN bs[b].instrs \o SlotCode(s)
              ELSE bs[b].instrs)
    OBVIOUS
  <2> QED
    BY <2>1, <2>2, Zenon
<1>3. /\ \A b \in DOMAIN bs : /\ Shape(bs[b].instrs)
                              /\ bs[b].term <=> HasEnd(bs[b].instrs)
                              /\ ExitsBy(bs[b].instrs, Null)
      /\ c # Exit /\ D \subseteq 3..Len(bs)
      /\ IsOpen(bs[c].instrs) \/ (IsLeft(bs[c].instrs) /\ ByJump(bs[c].instrs))
      /\ \A b \in D : bs[b].instrs = <<>> /\ b # c
      /\ \A b \in DOMAIN bs : bs[b].term \/ b = c \/ b = Exit \/ b \in D
      /\ bs[Exit].instrs = <<>>
  BY DEF Laid, Blocked, Slotted
<1>4. \A b \in DOMAIN bs : NoExit(bs[b].instrs)
  BY <1>3, NoExits
<1>5. ~IsEnd(Alloc(s)) /\ Alloc(s) # Jump(Exit)
  BY Builders
<1>6. /\ <<Alloc(s)>> \in Seq(I) /\ bs[Entry].instrs \in Seq(I)
  BY <1>1
<1>7. /\ IsOpen(bs[Entry].instrs) <=> IsOpen(head)
      /\ IsLeft(bs[Entry].instrs) =>
            IsLeft(head) /\ (ByJump(bs[Entry].instrs) => ByJump(head))
      /\ IsTailed(bs[Entry].instrs) => IsTailed(head)
  BY <1>5, <1>6, Prefixed
<1>8. Shape(head) /\ (HasEnd(bs[Entry].instrs) <=> HasEnd(head))
  BY <1>1, <1>3, <1>7, OpenHasNoEnd DEF Shape
<1>9. NoExit(head)
  <2>1. NoExit(<<Alloc(s)>>)
    BY <1>5, CodeOf1
  <2> QED
    BY <1>1, <1>4, <1>6, <2>1, NoExitConcat
<1>10. head # <<>> /\ head[1] = Alloc(s)
  BY <1>6
<1>11. bs2[Exit].instrs = SlotCode(s)
  <2>1. <<>> \o SlotCode(s) = SlotCode(s)
    OBVIOUS
  <2> QED
    BY <1>1, <1>2, <1>3, <2>1, Zenon
<1>12. IsLeft(SlotCode(s)) /\ NoExit(SlotCode(s))
  BY Builders, CodeOf2 DEF SlotCode
<1>13. HasEnd(SlotCode(s)) /\ Shape(SlotCode(s))
  BY <1>12, ShapeEnds DEF Shape
<1> HIDE DEF bs2, head
<1>14. \A b \in DOMAIN bs : b # Entry /\ b # Exit =>
          bs2[b].instrs = bs[b].instrs /\ bs2[b].term = bs[b].term
  BY <1>2, Zenon
<1>15. bs2[Entry].instrs = head /\ bs2[Entry].term = bs[Entry].term
  BY <1>1, <1>2, Zenon
<1>16. bs2[Exit].term = TRUE
  BY <1>1, <1>2, Zenon
<1>17. ASSUME NEW b \in DOMAIN bs
       PROVE  /\ Shape(bs2[b].instrs)
              /\ bs2[b].term <=> HasEnd(bs2[b].instrs)
              /\ ExitsBy(bs2[b].instrs, s)
  <2>1. CASE b = Entry
    <3>1. ExitsBy(head, s)
      BY <1>9, NoExits
    <3> QED
      BY <1>1, <1>3, <1>8, <1>15, <2>1, <3>1, Zenon
  <2>2. CASE b = Exit
    <3>1. ExitsBy(SlotCode(s), s)
      BY <1>12, NoExits
    <3> QED
      BY <1>11, <1>13, <1>16, <2>2, <3>1, Zenon
  <2>3. CASE b # Entry /\ b # Exit
    <3>1. ExitsBy(bs[b].instrs, s)
      BY <1>4, NoExits
    <3> QED
      BY <1>3, <1>14, <2>3, <3>1, Zenon
  <2> QED
    BY <2>1, <2>2, <2>3
<1>18. /\ IsOpen(bs[c].instrs) => IsOpen(bs2[c].instrs)
       /\ IsOpen(bs2[c].instrs) \/ (IsLeft(bs2[c].instrs) /\ ByJump(bs2[c].instrs))
  <2>1. CASE c = Entry
    BY <1>3, <1>7, <1>15, <2>1, Zenon
  <2>2. CASE c # Entry
    BY <1>3, <1>14, <2>2, Zenon
  <2> QED
    BY <2>1, <2>2
<1>19. \A b \in D : bs2[b].instrs = <<>> /\ b # c
  <2>1. \A b \in D : b \in DOMAIN bs /\ b # Entry /\ b # Exit
    BY <1>1, <1>3 DEF Entry, Exit
  <2> QED
    BY <1>3, <1>14, <2>1, Zenon
<1>20. \A b \in DOMAIN bs2 : bs2[b].term \/ b = c \/ b \in D
  BY <1>1, <1>2, <1>3, <1>14, <1>15, <1>16, Zenon
<1>21. Blocked(bs2, c, D, s)
  BY <1>2, <1>3, <1>17, <1>18, <1>19, <1>20 DEF Blocked
<1>22. Slotted(bs2, s)
  BY <1>2, <1>10, <1>11, <1>15, <1>17, Zenon DEF Slotted
<1> QED
  BY <1>18, <1>21, <1>22 DEF Laid, bs2

-----------------------------------------------------------------------------
(* The invariant.                                                             *)

OpenNow == IsOpen(blocks[cur].instrs)
BlockInv ==
    /\ Laid(blocks, cur, Debts(frames), slot)
    /\ Stacked(frames)
    /\ mode \in {"exp", "value"} => OpenNow

LEMMA OpenIs ==
    ASSUME Control, BlockInv
    PROVE  /\ Terminated <=> ~OpenNow
           /\ mode \in {"exp", "value"} => OpenNow
           /\ OpenNow \/ (IsLeft(blocks[cur].instrs) /\ ByJump(blocks[cur].instrs))
<1>1. cur \in DOMAIN blocks
  BY Sizes
<1>2. /\ blocks[cur].term <=> HasEnd(blocks[cur].instrs)
      /\ IsOpen(blocks[cur].instrs)
            \/ (IsLeft(blocks[cur].instrs) /\ ByJump(blocks[cur].instrs))
  BY <1>1 DEF BlockInv, Laid, Blocked
<1> QED
  BY <1>2, OpenHasNoEnd DEF Terminated, BlockInv, OpenNow

\* The code of the blocks and what is put behind it, under one type.
LEMMA CodeTyped ==
    ASSUME Control, NEW n \in Nat, nsym <= n, NEW B \in Nat, Len(blocks) <= B
    PROVE  \A b \in DOMAIN blocks : blocks[b].instrs \in Seq(Instrs(n, B))
<1> DEFINE I == Instrs(nsym, Len(blocks))
           J == Instrs(n, B)
<1>1. I \subseteq J
  <2>1. nsym \in Nat /\ Len(blocks) \in Nat
    BY Sizes
  <2> QED
    BY <2>1, InstrsGrow
<1>2. \A b \in DOMAIN blocks : blocks[b].instrs \in Seq(I)
  BY Sizes DEF Code
<1> HIDE DEF I, J
<1>3. \A b \in DOMAIN blocks : blocks[b].instrs \in Seq(J)
  BY <1>1, <1>2, Widened
<1> QED
  BY <1>3 DEF J

NewBlocks(k) == Len(blocks) + 1..Len(blocks) + k

\* Code is put behind the current block, and the walk stays there or goes on to
\* a new block or to one that was owed an end.
LEMMA Advances ==
    ASSUME Control, BlockInv, NEW k, NEW seq, Lowers(k, seq), UNCHANGED slot,
           NoExit(seq), MayFollow(blocks[cur].instrs, seq),
           cur' \in {cur} \cup Debts(frames) \cup NewBlocks(k),
           cur' = cur => \/ OpenNow /\ IsOpen(seq)
                         \/ /\ OpenNow /\ IsLeft(seq) /\ ByJump(seq)
                            /\ mode' \notin {"exp", "value"},
           cur' # cur /\ OpenNow => IsLeft(seq),
           Debts(frames') = (Debts(frames) \cup NewBlocks(k)) \ {cur'},
           Stacked(frames')
    PROVE  BlockInv'
<1> DEFINE I == Instrs(nsym', Len(blocks) + k)
           D == Debts(frames)
           c2 == cur'
<1>1. /\ k \in Nat /\ nsym' \in Nat /\ nsym <= nsym' /\ seq \in Seq(I)
      /\ Extends(blocks, blocks', k, cur, seq)
  BY DEF Lowers
<1>2. \A b \in DOMAIN blocks : blocks[b].instrs \in Seq(I)
  <2>1. Len(blocks) + k \in Nat /\ Len(blocks) <= Len(blocks) + k
    BY <1>1, Sizes
  <2> QED
    BY <1>1, <2>1, CodeTyped
<1>3. IsBlocks(blocks) /\ Len(blocks) >= 2 /\ cur \in DOMAIN blocks
  BY Sizes
<1> HIDE DEF I, D, c2
<1>4. Laid(blocks, cur, D, slot)
  BY DEF BlockInv, D
<1>5. ExitsBy(blocks[cur].instrs \o seq, slot)
  <2>1. ExitsBy(blocks[cur].instrs, slot)
    BY <1>3, <1>4 DEF Laid, Slotted
  <2> QED
    BY <1>1, <1>2, <1>3, <2>1, ExitsStay
<1>6. c2 \in {cur} \cup D \cup (Len(blocks) + 1..Len(blocks) + k)
  BY DEF NewBlocks, D, c2
<1>7. /\ c2 = cur => \/ IsOpen(blocks[cur].instrs) /\ IsOpen(seq)
                     \/ IsOpen(blocks[cur].instrs) /\ IsLeft(seq) /\ ByJump(seq)
      /\ c2 # cur /\ IsOpen(blocks[cur].instrs) => IsLeft(seq)
  BY DEF OpenNow, c2
<1>8. /\ Laid(blocks', c2,
              (D \cup (Len(blocks) + 1..Len(blocks) + k)) \ {c2}, slot)
      /\ c2 # cur => IsOpen(blocks'[c2].instrs)
      /\ c2 = cur /\ IsOpen(seq) => IsOpen(blocks'[c2].instrs)
  <2>1. /\ IsBlocks(blocks) /\ Len(blocks) >= 2 /\ cur \in DOMAIN blocks
        /\ Laid(blocks, cur, D, slot)
        /\ \A b \in DOMAIN blocks : blocks[b].instrs \in Seq(I)
        /\ seq \in Seq(I) /\ k \in Nat /\ Extends(blocks, blocks', k, cur, seq)
        /\ ExitsBy(blocks[cur].instrs \o seq, slot)
        /\ MayFollow(blocks[cur].instrs, seq)
        /\ c2 \in {cur} \cup D \cup (Len(blocks) + 1..Len(blocks) + k)
        /\ c2 = cur => \/ IsOpen(blocks[cur].instrs) /\ IsOpen(seq)
                       \/ /\ IsOpen(blocks[cur].instrs)
                          /\ IsLeft(seq) /\ ByJump(seq)
        /\ c2 # cur /\ IsOpen(blocks[cur].instrs) => IsLeft(seq)
    BY <1>1, <1>2, <1>3, <1>4, <1>5, <1>6, <1>7, Zenon
  <2> QED
    BY <2>1, StepLaid, ZenonT(120)
<1>9. Laid(blocks', cur', Debts(frames'), slot')
  BY <1>8 DEF NewBlocks, D, c2
<1>10. mode' \in {"exp", "value"} => IsOpen(blocks'[cur'].instrs)
  <2>1. mode' \in {"exp", "value"} /\ cur' = cur => IsOpen(seq)
    OBVIOUS
  <2> QED
    BY <1>8, <2>1 DEF c2
<1> QED
  BY <1>9, <1>10 DEF BlockInv, OpenNow

\* The blocks stay what they are.
LEMMA Stays ==
    ASSUME Control, BlockInv, UNCHANGED <<blocks, cur, slot>>,
           Debts(frames') = Debts(frames), Stacked(frames'),
           mode' \in {"exp", "value"} => OpenNow
    PROVE  BlockInv'
BY DEF BlockInv, OpenNow

\* Code without an end is put behind the current block.
LEMMA GoesOnHere ==
    ASSUME Control, BlockInv, NEW seq, Lowers(0, seq), UNCHANGED <<cur, slot>>,
           NoExit(seq), IsOpen(seq), OpenNow,
           Debts(frames') = Debts(frames), Stacked(frames')
    PROVE  BlockInv'
<1>1. NewBlocks(0) = {} /\ cur \notin Debts(frames)
  BY Sizes DEF NewBlocks, BlockInv, Laid, Blocked
<1>2. MayFollow(blocks[cur].instrs, seq)
  BY DEF MayFollow, OpenNow
<1>3. /\ cur' \in {cur} \cup Debts(frames) \cup NewBlocks(0)
      /\ Debts(frames') = (Debts(frames) \cup NewBlocks(0)) \ {cur'}
  BY <1>1
<1> QED
  BY <1>2, <1>3, Advances

-----------------------------------------------------------------------------
(* The frames of a step.                                                      *)

LEMMA PushDebts ==
    ASSUME Control, BlockInv, NEW f, frames' = Append(frames, f), BranchOK(f),
           NEW k, Due(f) \subseteq NewBlocks(k)
    PROVE  Stacked(frames') /\ Debts(frames') = Debts(frames) \cup Due(f)
<1> DEFINE F == FramesNow \cup {f}
<1>1. frames \in Seq(F) /\ f \in F
  <2>1. FramesNow \subseteq F /\ frames \in Seq(FramesNow) /\ f \in F
    BY DEF Control, Typed, FramesNow
  <2> HIDE DEF F
  <2> QED
    BY <2>1, Widened
<1>2. Due(f) \cap Debts(frames) = {}
  BY DebtsTyped, Sizes DEF NewBlocks
<1> HIDE DEF F
<1> QED
  BY <1>1, <1>2, DebtsPush DEF BlockInv

LEMMA PopDebts ==
    ASSUME Control, BlockInv, mode # "done"
    PROVE  /\ Stacked(Rest) /\ BranchOK(Top)
           /\ Debts(Rest) = Debts(frames) \ Due(Top) /\ Due(Top) \subseteq Debts(frames)
<1>1. /\ frames \in Seq(FramesNow) /\ frames # <<>> /\ Stacked(frames)
      /\ Top = frames[Len(frames)] /\ Rest = Below(frames)
  BY TopFrame DEF BlockInv
<1> QED
  BY <1>1, DebtsPop

LEMMA SwapDebts ==
    ASSUME Control, BlockInv, mode # "done", NEW f, frames' = Append(Rest, f),
           BranchOK(f), NEW k, Due(f) \subseteq Due(Top) \cup NewBlocks(k)
    PROVE  /\ Stacked(frames')
           /\ Debts(frames') = (Debts(frames) \ Due(Top)) \cup Due(f)
<1> DEFINE F == FramesNow \cup {f}
<1>1. Rest \in Seq(F) /\ f \in F
  <2>1. /\ FramesNow \subseteq F /\ frames \in Seq(FramesNow) /\ frames # <<>>
        /\ Rest = Below(frames) /\ f \in F
    BY TopFrame
  <2>2. Rest \in Seq(FramesNow)
    BY <2>1, PopGives
  <2> HIDE DEF F
  <2> QED
    BY <2>1, <2>2, Widened
<1>2. Stacked(Rest) /\ Debts(Rest) = Debts(frames) \ Due(Top)
  BY PopDebts
<1>3. Due(f) \cap Debts(Rest) = {}
  BY <1>2, DebtsTyped, Sizes DEF NewBlocks
<1> HIDE DEF F
<1> QED
  BY <1>1, <1>2, <1>3, DebtsPush

\* Most frames owe nothing.
LEMMA NothingDue ==
    ASSUME NEW f, f.k \notin {"while", "then", "else", "body", "rhs"}
    PROVE  /\ Due(f) = {}
           /\ f.k # "if" => BranchOK(f)
           /\ \A k : Due(f) \subseteq NewBlocks(k)
BY OwedIs DEF Due, BranchOK

LEMMA PopsNothing ==
    ASSUME Control, BlockInv, mode # "done", frames' = Rest,
           Top.k \notin {"while", "then", "else", "body", "rhs"}
    PROVE  Stacked(frames') /\ Debts(frames') = Debts(frames)
<1>1. Due(Top) = {}
  BY NothingDue
<1> QED
  BY <1>1, PopDebts

LEMMA PushesNothing ==
    ASSUME Control, BlockInv, NEW f, frames' = Append(frames, f), BranchOK(f),
           f.k \notin {"while", "then", "else", "body", "rhs"}
    PROVE  Stacked(frames') /\ Debts(frames') = Debts(frames)
<1>1. Due(f) = {} /\ Due(f) \subseteq NewBlocks(0)
  BY NothingDue
<1> QED
  BY <1>1, PushDebts

-----------------------------------------------------------------------------
(* BlockInv is kept by each step. First those that lower nothing.             *)

LEMMA QuietLaid ==
    ASSUME Control, BlockInv,
           \/ SkipStmt \/ IfEmpty \/ (\E x : SkipDecl(x)) \/ Number
           \/ UnboundLVal \/ UNCHANGED vars
    PROVE  BlockInv'
<1>1. /\ UNCHANGED <<blocks, cur, slot, frames>>
      /\ mode' = "next" \/ mode' = mode \/ mode = "exp"
  BY DEF SkipStmt, IfEmpty, SkipDecl, Number, UnboundLVal, AtExp, context, vars
<1>2. Debts(frames') = Debts(frames) /\ Stacked(frames')
  BY <1>1 DEF BlockInv
<1>3. mode' \in {"exp", "value"} => OpenNow
  BY <1>1 DEF BlockInv
<1> QED
  BY <1>1, <1>2, <1>3, Stays

\* Nothing ends the block while an expression is visited.
LEMMA EvaluateLaid ==
    ASSUME Control, BlockInv, NEW f, BranchOK(f), Evaluate(f), OpenNow,
           f.k \notin {"while", "then", "else", "body", "rhs"},
           UNCHANGED <<blocks, cur, slot>>
    PROVE  BlockInv'
<1>1. Stacked(frames') /\ Debts(frames') = Debts(frames)
  BY PushesNothing DEF Evaluate
<1> QED
  BY <1>1, Stays

LEMMA HeadLaid ==
    ASSUME Control, BlockInv,
           \/ ExpStmt \/ ReturnExp \/ \E v : Assign(v)
           \/ \E then, else : If(then, else)
           \/ \E x : DeclInit(x)
    PROVE  BlockInv'
<1>1. ~Terminated => OpenNow
  BY OpenIs
<1>2. CASE ExpStmt
  <2>1. UNCHANGED <<blocks, cur, slot>> /\ OpenNow /\ Evaluate([k |-> "exp"])
    BY <1>1, <1>2 DEF ExpStmt, context
  <2> QED
    BY <2>1, EvaluateLaid DEF BranchOK
<1>3. CASE ReturnExp
  <2>1. UNCHANGED <<blocks, cur, slot>> /\ OpenNow /\ Evaluate([k |-> "ret"])
    BY <1>1, <1>3 DEF ReturnExp, context
  <2> QED
    BY <2>1, EvaluateLaid DEF BranchOK
<1>4. ASSUME NEW v, Assign(v)
      PROVE  BlockInv'
  <2>1. /\ UNCHANGED <<blocks, cur, slot>> /\ OpenNow
        /\ Evaluate([k |-> "assign", var |-> v])
    BY <1>1, <1>4 DEF Assign, context
  <2> QED
    BY <2>1, EvaluateLaid DEF BranchOK
<1>5. ASSUME NEW then, NEW else, If(then, else)
      PROVE  BlockInv'
  <2>1. /\ UNCHANGED <<blocks, cur, slot>> /\ OpenNow /\ (then \/ else)
        /\ Evaluate([k |-> "if", then |-> then, else |-> else])
    BY <1>1, <1>5, Zenon DEF If, context
  <2>2. BranchOK([k |-> "if", then |-> then, else |-> else])
    <3>1. /\ [k |-> "if", then |-> then, else |-> else].k = "if"
          /\ [k |-> "if", then |-> then, else |-> else].then = then
          /\ [k |-> "if", then |-> then, else |-> else].else = else
      OBVIOUS
    <3> QED
      BY <2>1, <3>1 DEF BranchOK
  <2> QED
    BY <2>1, <2>2, EvaluateLaid
<1>6. ASSUME NEW x, DeclInit(x)
      PROVE  BlockInv'
  <2>1. /\ UNCHANGED <<blocks, cur, slot>> /\ OpenNow
        /\ Evaluate([k |-> "init", var |-> Declare])
    BY <1>1, <1>6 DEF DeclInit, context
  <2> QED
    BY <2>1, EvaluateLaid DEF BranchOK
<1> QED
  BY <1>2, <1>3, <1>4, <1>5, <1>6

LEMMA OperandLaid ==
    ASSUME Control, BlockInv, \/ Binary \/ Logical \/ \E op : Unary(op)
    PROVE  BlockInv'
<1>1. ASSUME NEW f, NEW kind, Operation(f, kind), f.k \in {"opnd1", "lhs", "unary"}
      PROVE  BlockInv'
  <2>1. UNCHANGED <<blocks, cur, slot>> /\ OpenNow /\ Evaluate(f)
    BY <1>1 DEF Operation, AtExp, context, BlockInv
  <2> QED
    BY <1>1, <2>1, EvaluateLaid DEF BranchOK
<1>2. CASE Binary
  BY <1>1, <1>2 DEF Binary
<1>3. CASE Logical
  BY <1>1, <1>3 DEF Logical
<1>4. ASSUME NEW op, Unary(op)
      PROVE  BlockInv'
  BY <1>1, <1>4 DEF Unary
<1> QED
  BY <1>2, <1>3, <1>4

LEMMA BlockLaid ==
    ASSUME Control, BlockInv, OpenBlock \/ CloseBlock \/ AfterExpStmt
    PROVE  BlockInv'
<1>1. UNCHANGED <<blocks, cur, slot>> /\ mode' \notin {"exp", "value"}
  BY DEF OpenBlock, CloseBlock, AfterExpStmt, context
<1>2. Stacked(frames') /\ Debts(frames') = Debts(frames)
  <2>1. CASE OpenBlock
    BY <2>1, PushesNothing DEF OpenBlock, BranchOK
  <2>2. CASE CloseBlock \/ AfterExpStmt
    <3>1. mode # "done" /\ frames' = Rest /\ Top.k \in {"block", "exp"}
      BY <2>2 DEF CloseBlock, AfterExpStmt, AtItem
    <3> QED
      BY <3>1, PopsNothing
  <2> QED
    BY <2>1, <2>2
<1> QED
  BY <1>1, <1>2, Stays

LEMMA AfterOpnd1Laid ==
    ASSUME Control, BlockInv, AfterOpnd1
    PROVE  BlockInv'
<1> DEFINE f == [k |-> "opnd2", val1 |-> val]
<1>1. /\ UNCHANGED <<blocks, cur, slot>> /\ OpenNow /\ mode # "done"
      /\ frames' = Append(Rest, f) /\ Top.k = "opnd1"
  BY DEF AfterOpnd1, context, BlockInv
<1>2. BranchOK(f) /\ Due(f) = {} /\ Due(Top) = {}
  BY <1>1, NothingDue
<1>3. Stacked(frames') /\ Debts(frames') = Debts(frames)
  <2> HIDE DEF f
  <2>1. Due(f) \subseteq Due(Top) \cup NewBlocks(0)
    BY <1>2
  <2> QED
    BY <1>1, <1>2, <2>1, SwapDebts
<1> QED
  BY <1>1, <1>3, Stays

-----------------------------------------------------------------------------
(* Steps that put code behind the current block and stay there.               *)

LEMMA DeclPlainLaid ==
    ASSUME Control, BlockInv, NEW x, DeclPlain(x)
    PROVE  BlockInv'
<1>1. UNCHANGED <<cur, slot, frames>> /\ OpenNow
  BY OpenIs DEF DeclPlain, context
<1>2. Lowers(0, <<Alloc(nsym + 1)>>)
  BY DeclPlainLowers
<1>3. NoExit(<<Alloc(nsym + 1)>>) /\ IsOpen(<<Alloc(nsym + 1)>>)
  BY Builders, CodeOf1
<1>4. Debts(frames') = Debts(frames) /\ Stacked(frames')
  BY <1>1 DEF BlockInv
<1> QED
  BY <1>1, <1>2, <1>3, <1>4, GoesOnHere

LEMMA AfterInitLaid ==
    ASSUME Control, BlockInv, AfterInit
    PROVE  BlockInv'
<1> DEFINE seq == <<Alloc(nsym + 1), Store(val, nsym + 1)>>
<1>1. /\ UNCHANGED <<cur, slot>> /\ OpenNow /\ mode # "done"
      /\ frames' = Rest /\ Top.k = "init"
  BY DEF AfterInit, context, BlockInv
<1>2. Lowers(0, seq)
  BY AfterInitLowers
<1>3. NoExit(seq) /\ IsOpen(seq)
  BY Builders, CodeOf2
<1>4. Debts(frames') = Debts(frames) /\ Stacked(frames')
  BY <1>1, PopsNothing
<1> HIDE DEF seq
<1> QED
  BY <1>1, <1>2, <1>3, <1>4, GoesOnHere

LEMMA AfterAssignLaid ==
    ASSUME Control, BlockInv, AfterAssign
    PROVE  BlockInv'
<1> DEFINE seq == <<Store(val, symTab[name[Top.var]])>>
<1>1. /\ UNCHANGED <<cur, slot>> /\ OpenNow /\ mode # "done"
      /\ frames' = Rest /\ Top.k = "assign"
  BY DEF AfterAssign, context, BlockInv
<1>2. Debts(frames') = Debts(frames) /\ Stacked(frames')
  BY <1>1, PopsNothing
<1>3. CASE name[Top.var] \in DOMAIN symTab
  <2>1. Lowers(0, seq)
    BY <1>3, AfterAssignLowers
  <2>2. NoExit(seq) /\ IsOpen(seq)
    BY Builders, CodeOf1
  <2> HIDE DEF seq
  <2> QED
    BY <1>1, <1>2, <2>1, <2>2, GoesOnHere
<1>4. CASE name[Top.var] \notin DOMAIN symTab
  <2>1. UNCHANGED blocks
    BY <1>4 DEF AfterAssign
  <2> QED
    BY <1>1, <1>2, <2>1, Stays
<1> QED
  BY <1>3, <1>4

LEMMA LValLaid ==
    ASSUME Control, BlockInv, NEW v \in vis, LVal(v)
    PROVE  BlockInv'
<1>1. UNCHANGED <<cur, slot, frames>> /\ OpenNow
  BY DEF LVal, AtExp, context, BlockInv
<1>2. Debts(frames') = Debts(frames) /\ Stacked(frames')
  BY <1>1 DEF BlockInv
<1>3. CASE irvar[v] # Null
  <2>1. Lowers(0, <<Load(nsym + 1, irvar[v])>>)
    BY <1>3, LValLowers
  <2>2. /\ NoExit(<<Load(nsym + 1, irvar[v])>>)
        /\ IsOpen(<<Load(nsym + 1, irvar[v])>>)
    BY Builders, CodeOf1
  <2> QED
    BY <1>1, <1>2, <2>1, <2>2, GoesOnHere
<1>4. CASE irvar[v] = Null
  <2>1. UNCHANGED blocks
    BY <1>4 DEF LVal
  <2> QED
    BY <1>1, <1>2, <2>1, Stays
<1> QED
  BY <1>3, <1>4

LEMMA AfterUnaryLaid ==
    ASSUME Control, BlockInv, AfterUnary
    PROVE  BlockInv'
<1>1. /\ UNCHANGED <<cur, slot>> /\ OpenNow /\ mode # "done"
      /\ frames' = Rest /\ Top.k = "unary"
  BY DEF AfterUnary, context, BlockInv
<1>2. Debts(frames') = Debts(frames) /\ Stacked(frames')
  BY <1>1, PopsNothing
<1>3. CASE Top.op # "+"
  <2>1. Lowers(0, <<UnaryCode>>)
    BY <1>3, AfterUnaryLowers
  <2>2. ~IsEnd(UnaryCode) /\ UnaryCode # Jump(Exit)
    BY Builders DEF UnaryCode
  <2>3. NoExit(<<UnaryCode>>) /\ IsOpen(<<UnaryCode>>)
    BY <2>2, CodeOf1
  <2> QED
    BY <1>1, <1>2, <2>1, <2>3, GoesOnHere
<1>4. CASE Top.op = "+"
  <2>1. UNCHANGED blocks
    BY <1>4 DEF AfterUnary
  <2> QED
    BY <1>1, <1>2, <2>1, Stays
<1> QED
  BY <1>3, <1>4

LEMMA AfterOpnd2Laid ==
    ASSUME Control, BlockInv, AfterOpnd2
    PROVE  BlockInv'
<1> DEFINE seq == <<BExpr(nsym + 1, Top.val1, val)>>
<1>1. /\ UNCHANGED <<cur, slot>> /\ OpenNow /\ mode # "done"
      /\ frames' = Rest /\ Top.k = "opnd2"
  BY DEF AfterOpnd2, context, BlockInv
<1>2. Lowers(0, seq)
  BY AfterOpnd2Lowers
<1>3. NoExit(seq) /\ IsOpen(seq)
  BY Builders, CodeOf1
<1>4. Debts(frames') = Debts(frames) /\ Stacked(frames')
  BY <1>1, PopsNothing
<1> HIDE DEF seq
<1> QED
  BY <1>1, <1>2, <1>3, <1>4, GoesOnHere

\* break and continue leave the block; what follows is skipped.
LEMMA BreakLaid ==
    ASSUME Control, BlockInv, NEW isBreak, BreakOrContinue(isBreak)
    PROVE  BlockInv'
<1> DEFINE b == IF isBreak THEN mergeB ELSE entryB
           seq == <<Jump(b)>>
<1>1. /\ UNCHANGED <<cur, slot, frames>> /\ OpenNow /\ mode' = "next"
  BY OpenIs DEF BreakOrContinue, context
<1>2. b \in 3..Len(blocks) /\ Lowers(0, seq)
  BY BreakLowers
<1> HIDE DEF b
<1>3. NoExit(seq) /\ IsLeft(seq) /\ ByJump(seq)
  <2>1. b # Exit
    BY <1>2, Sizes DEF Exit
  <2>2. Jump(b) # Jump(Exit) /\ IsEnd(Jump(b)) /\ Jump(b).op = "jump"
    BY <2>1, Builders
  <2> QED
    BY <2>2, CodeOf1
<1> HIDE DEF seq
<1>4. NewBlocks(0) = {} /\ cur \notin Debts(frames)
  BY Sizes DEF NewBlocks, BlockInv, Laid, Blocked
<1>5. Debts(frames') = Debts(frames) /\ Stacked(frames')
  BY <1>1 DEF BlockInv
<1>6. MayFollow(blocks[cur].instrs, seq)
  BY <1>1, <1>3 DEF MayFollow, OpenNow
<1>7. /\ cur' \in {cur} \cup Debts(frames) \cup NewBlocks(0)
      /\ Debts(frames') = (Debts(frames) \cup NewBlocks(0)) \ {cur'}
  BY <1>1, <1>4, <1>5
<1> QED
  BY <1>1, <1>2, <1>3, <1>5, <1>6, <1>7, Advances

-----------------------------------------------------------------------------
(* Steps that go on in another block.                                         *)

LEMMA MovesOn ==
    ASSUME Control, BlockInv, NEW k, NEW seq, Lowers(k, seq), UNCHANGED slot,
           NoExit(seq), MayFollow(blocks[cur].instrs, seq), OpenNow => IsLeft(seq),
           cur' \in Debts(frames) \cup NewBlocks(k),
           Debts(frames') = (Debts(frames) \cup NewBlocks(k)) \ {cur'},
           Stacked(frames')
    PROVE  BlockInv'
<1>1. cur \notin Debts(frames) \cup NewBlocks(k)
  <2>1. k \in Nat
    BY DEF Lowers
  <2> QED
    BY <2>1, Sizes DEF NewBlocks, BlockInv, Laid, Blocked
<1>2. cur' # cur
  BY <1>1
<1> QED
  BY <1>2, Advances

\* From an open block, by an end.
LEMMA LeavesFor ==
    ASSUME Control, BlockInv, NEW k, NEW seq, Lowers(k, seq), UNCHANGED slot,
           NoExit(seq), IsLeft(seq), OpenNow,
           cur' \in Debts(frames) \cup NewBlocks(k),
           Debts(frames') = (Debts(frames) \cup NewBlocks(k)) \ {cur'},
           Stacked(frames')
    PROVE  BlockInv'
<1>1. MayFollow(blocks[cur].instrs, seq)
  BY DEF MayFollow, OpenNow
<1> QED
  BY <1>1, MovesOn

LEMMA AfterIfCondLaid ==
    ASSUME Control, BlockInv, AfterIfCond
    PROVE  BlockInv'
<1> DEFINE n == Len(blocks)
           k == IF Top.else THEN 3 ELSE 2
           merge == IF Top.else THEN n + 3 ELSE n + 2
           f == [k |-> "then", else |-> IF Top.else THEN n + 2 ELSE Null,
                 merge |-> merge]
           seq == <<Br(val, n + 1, n + 2)>>
<1>1. /\ UNCHANGED slot /\ OpenNow /\ mode # "done" /\ cur' = n + 1
      /\ frames' = Append(Rest, f) /\ Top.k = "if"
  BY Zenon DEF AfterIfCond, BlockInv
<1>2. Lowers(k, seq)
  BY AfterIfCondLowers
<1>3. NoExit(seq) /\ IsLeft(seq)
  BY Builders, CodeOf1
<1>4. n \in Nat /\ n >= 2 /\ Debts(frames) \subseteq 3..n
  BY Sizes, DebtsTyped
<1>5. Due(Top) = {}
  BY <1>1, NothingDue
<1>6. /\ BranchOK(f) /\ Due(f) = NewBlocks(k) \ {n + 1}
      /\ n + 1 \in NewBlocks(k)
  <2>1. f.k = "then" /\ Owed(f) = {f.else, f.merge}
    BY OwedIs
  <2>2. CASE Top.else
    <3>1. f.else = n + 2 /\ f.merge = n + 3 /\ k = 3
      BY <2>2, Zenon
    <3>2. NewBlocks(3) = {n + 1, n + 2, n + 3}
      BY <1>4 DEF NewBlocks
    <3> HIDE DEF f, k
    <3>3. Due(f) = {n + 2, n + 3} /\ f.else # f.merge
      BY <1>4, <2>1, <3>1 DEF Due, Null
    <3> QED
      BY <1>4, <2>1, <3>1, <3>2, <3>3 DEF BranchOK
  <2>3. CASE ~Top.else
    <3>1. f.else = Null /\ f.merge = n + 2 /\ k = 2
      BY <2>3, Zenon
    <3>2. NewBlocks(2) = {n + 1, n + 2}
      BY <1>4 DEF NewBlocks
    <3> HIDE DEF f, k
    <3>3. Due(f) = {n + 2} /\ f.else # f.merge
      BY <1>4, <2>1, <3>1 DEF Due, Null
    <3> QED
      BY <1>4, <2>1, <3>1, <3>2, <3>3 DEF BranchOK
  <2> QED
    BY <2>2, <2>3
<1> HIDE DEF f, k, seq, n
<1>7. Stacked(frames') /\ Debts(frames') = Debts(frames) \cup Due(f)
  <2>1. Due(f) \subseteq Due(Top) \cup NewBlocks(k)
    BY <1>6
  <2>2. /\ Stacked(frames')
        /\ Debts(frames') = (Debts(frames) \ Due(Top)) \cup Due(f)
    BY <1>1, <1>6, <2>1, SwapDebts
  <2> QED
    BY <1>5, <2>2
<1>8. n + 1 \notin Debts(frames)
  BY <1>4
<1>9. /\ cur' \in Debts(frames) \cup NewBlocks(k)
      /\ Debts(frames') = (Debts(frames) \cup NewBlocks(k)) \ {cur'}
  BY <1>1, <1>6, <1>7, <1>8
<1> QED
  BY <1>1, <1>2, <1>3, <1>7, <1>9, LeavesFor

\* The code at the end of a branch.
JoinCode(merge) == IF Terminated THEN <<>> ELSE <<Jump(merge)>>

LEMMA JoinFollows ==
    ASSUME Control, BlockInv, NEW merge \in 3..Len(blocks)
    PROVE  /\ NoExit(JoinCode(merge)) /\ MayFollow(blocks[cur].instrs, JoinCode(merge))
           /\ OpenNow => IsLeft(JoinCode(merge))
<1>1. CASE Terminated
  <2>1. ~OpenNow /\ JoinCode(merge) = <<>>
    BY <1>1, OpenIs DEF JoinCode
  <2>2. NoExit(<<>>)
    BY DEF NoExit
  <2> QED
    BY <2>1, <2>2 DEF MayFollow, OpenNow
<1>2. CASE ~Terminated
  <2>1. OpenNow /\ JoinCode(merge) = <<Jump(merge)>>
    BY <1>2, OpenIs DEF JoinCode
  <2>2. merge # Exit
    BY Sizes DEF Exit
  <2>3. NoExit(<<Jump(merge)>>) /\ IsLeft(<<Jump(merge)>>)
    BY <2>2, Builders, CodeOf1
  <2> QED
    BY <2>1, <2>3 DEF MayFollow, OpenNow
<1> QED
  BY <1>1, <1>2

LEMMA AfterThenLaid ==
    ASSUME Control, BlockInv, AfterThen
    PROVE  BlockInv'
<1>1. UNCHANGED slot /\ mode # "done" /\ Top.k = "then"
  BY DEF AfterThen
<1>2. /\ Top.merge \in 3..Len(blocks) /\ Top.else \in {Null} \cup 3..Len(blocks)
      /\ Lowers(0, JoinCode(Top.merge))
  BY AfterThenLowers DEF JoinCode
<1>3. /\ NoExit(JoinCode(Top.merge))
      /\ MayFollow(blocks[cur].instrs, JoinCode(Top.merge))
      /\ OpenNow => IsLeft(JoinCode(Top.merge))
  BY <1>2, JoinFollows
<1>4. /\ Stacked(Rest) /\ BranchOK(Top) /\ Due(Top) \subseteq Debts(frames)
      /\ Debts(Rest) = Debts(frames) \ Due(Top)
  BY <1>1, PopDebts
<1>5. /\ Due(Top) = {Top.else, Top.merge} \ {Null} /\ Top.else # Top.merge
      /\ Top.merge # Null /\ NewBlocks(0) = {}
  <2>1. Len(blocks) \in Nat
    BY Sizes
  <2>2. /\ Owed(Top) = {Top.else, Top.merge}
        /\ Top.else # Top.merge /\ Top.merge # Null
    BY <1>1, <1>2, <1>4, OwedIs DEF BranchOK, Null
  <2>3. Due(Top) = {Top.else, Top.merge} \ {Null}
    BY <2>2, Zenon DEF Due
  <2>4. NewBlocks(0) = {}
    BY <2>1 DEF NewBlocks
  <2> QED
    BY <2>2, <2>3, <2>4, Zenon
<1>6. CASE Top.else = Null
  <2>1. cur' = Top.merge /\ frames' = Rest
    BY <1>6 DEF AfterThen
  <2>2. /\ cur' \in Debts(frames) \cup NewBlocks(0)
        /\ Debts(frames') = (Debts(frames) \cup NewBlocks(0)) \ {cur'}
    BY <1>4, <1>5, <1>6, <2>1
  <2> QED
    BY <1>1, <1>2, <1>3, <1>4, <2>1, <2>2, MovesOn
<1>7. CASE Top.else # Null
  <2> DEFINE f == [k |-> "else", merge |-> Top.merge]
  <2>1. cur' = Top.else /\ frames' = Append(Rest, f)
    BY <1>7 DEF AfterThen
  <2>2. Due(f) = {Top.merge} /\ BranchOK(f)
    <3>1. f.k = "else" /\ f.merge = Top.merge
      OBVIOUS
    <3> HIDE DEF f
    <3> QED
      BY <1>5, <3>1, OwedIs DEF Due, BranchOK
  <2> HIDE DEF f
  <2>3. Due(f) \subseteq Due(Top) \cup NewBlocks(0)
    BY <1>5, <2>2
  <2>4. /\ Stacked(frames')
        /\ Debts(frames') = (Debts(frames) \ Due(Top)) \cup Due(f)
    BY <1>1, <2>1, <2>2, <2>3, SwapDebts
  <2>5. /\ cur' \in Debts(frames) \cup NewBlocks(0)
        /\ Debts(frames') = (Debts(frames) \cup NewBlocks(0)) \ {cur'}
    BY <1>4, <1>5, <1>7, <2>1, <2>2, <2>4
  <2> QED
    BY <1>1, <1>2, <1>3, <2>4, <2>5, MovesOn
<1> QED
  BY <1>6, <1>7

LEMMA AfterElseLaid ==
    ASSUME Control, BlockInv, AfterElse
    PROVE  BlockInv'
<1>1. /\ UNCHANGED slot /\ mode # "done" /\ Top.k = "else"
      /\ cur' = Top.merge /\ frames' = Rest
  BY DEF AfterElse
<1>2. Top.merge \in 3..Len(blocks) /\ Lowers(0, JoinCode(Top.merge))
  BY AfterElseLowers DEF JoinCode
<1>3. /\ NoExit(JoinCode(Top.merge))
      /\ MayFollow(blocks[cur].instrs, JoinCode(Top.merge))
      /\ OpenNow => IsLeft(JoinCode(Top.merge))
  BY <1>2, JoinFollows
<1>4. /\ Stacked(Rest) /\ Due(Top) \subseteq Debts(frames)
      /\ Debts(Rest) = Debts(frames) \ Due(Top)
  BY <1>1, PopDebts
<1>5. Due(Top) = {Top.merge} /\ NewBlocks(0) = {}
  BY <1>1, <1>2, OwedIs, Sizes DEF Due, Null, NewBlocks
<1>6. /\ cur' \in Debts(frames) \cup NewBlocks(0)
      /\ Debts(frames') = (Debts(frames) \cup NewBlocks(0)) \ {cur'}
  BY <1>1, <1>4, <1>5
<1> QED
  BY <1>1, <1>2, <1>3, <1>4, <1>6, MovesOn

LEMMA WhileLaid ==
    ASSUME Control, BlockInv, NEW stmt, While(stmt)
    PROVE  BlockInv'
<1> DEFINE n == Len(blocks)
           f == [k |-> "while", stmt |-> stmt, entry |-> n + 1, body |-> n + 2,
                 merge |-> n + 3, preEntry |-> entryB, preMerge |-> mergeB]
           seq == <<Jump(n + 1)>>
<1>1. /\ UNCHANGED slot /\ OpenNow /\ cur' = n + 1
      /\ frames' = Append(frames, f)
  BY OpenIs DEF While, Evaluate
<1>2. Lowers(3, seq)
  BY WhileLowers
<1>3. n \in Nat /\ n >= 2 /\ Debts(frames) \subseteq 3..n
  BY Sizes, DebtsTyped
<1>4. NoExit(seq) /\ IsLeft(seq)
  <2>1. n + 1 # Exit
    BY <1>3 DEF Exit
  <2> QED
    BY <2>1, Builders, CodeOf1
<1>5. NewBlocks(3) = {n + 1, n + 2, n + 3}
  BY <1>3 DEF NewBlocks
<1>6. BranchOK(f) /\ Due(f) = {n + 2, n + 3}
  <2>1. f.k = "while" /\ f.body = n + 2 /\ f.merge = n + 3
    OBVIOUS
  <2> HIDE DEF f
  <2> QED
    BY <1>3, <2>1, OwedIs DEF Due, Null, BranchOK
<1> HIDE DEF f, seq
<1>7. Stacked(frames') /\ Debts(frames') = Debts(frames) \cup Due(f)
  <2>1. Due(f) \subseteq NewBlocks(3)
    BY <1>5, <1>6
  <2> QED
    BY <1>1, <1>6, <2>1, PushDebts
<1>8. /\ cur' \in Debts(frames) \cup NewBlocks(3)
      /\ Debts(frames') = (Debts(frames) \cup NewBlocks(3)) \ {cur'}
  BY <1>1, <1>3, <1>5, <1>6, <1>7
<1> QED
  BY <1>1, <1>2, <1>4, <1>7, <1>8, LeavesFor

LEMMA AfterWhileCondLaid ==
    ASSUME Control, BlockInv, AfterWhileCond
    PROVE  BlockInv'
<1> DEFINE seq == <<Br(val, Top.body, Top.merge)>>
<1>1. /\ UNCHANGED slot /\ OpenNow /\ mode # "done" /\ cur' = Top.body
      /\ Top.k = "while"
  BY DEF AfterWhileCond, BlockInv
<1>2. Lowers(0, seq)
  BY AfterWhileCondLowers
<1>3. NoExit(seq) /\ IsLeft(seq)
  BY Builders, CodeOf1
<1>4. frames' = Append(Rest, BodyFrame)
  BY BodyEntered
<1>5. Top.body \in 3..Len(blocks) /\ Top.merge \in 3..Len(blocks)
  BY <1>1, LoopFrame DEF LoopKinds
<1>6. BranchOK(Top) /\ Due(Top) \subseteq Debts(frames)
  BY <1>1, PopDebts
<1>7. /\ Due(Top) = {Top.body, Top.merge} /\ Top.body # Top.merge
      /\ NewBlocks(0) = {}
  <2>1. Len(blocks) \in Nat
    BY Sizes
  <2>2. Owed(Top) = {Top.body, Top.merge} /\ Top.body # Top.merge
    BY <1>1, <1>6, OwedIs DEF BranchOK
  <2> QED
    BY <1>5, <2>1, <2>2 DEF Due, Null, NewBlocks
<1>8. Due(BodyFrame) = {Top.merge} /\ BranchOK(BodyFrame)
  <2>1. BodyFrame.k = "body" /\ BodyFrame.merge = Top.merge
    BY DEF BodyFrame
  <2> QED
    BY <1>5, <2>1, OwedIs, Sizes DEF Due, BranchOK, Null
<1> HIDE DEF seq
<1>9. /\ Stacked(frames')
      /\ Debts(frames') = (Debts(frames) \ Due(Top)) \cup Due(BodyFrame)
  <2>1. Due(BodyFrame) \subseteq Due(Top) \cup NewBlocks(0)
    BY <1>7, <1>8
  <2> QED
    BY <1>1, <1>4, <1>8, <2>1, SwapDebts
<1>10. /\ cur' \in Debts(frames) \cup NewBlocks(0)
       /\ Debts(frames') = (Debts(frames) \cup NewBlocks(0)) \ {cur'}
  BY <1>1, <1>6, <1>7, <1>8, <1>9
<1> QED
  BY <1>1, <1>2, <1>3, <1>9, <1>10, LeavesFor

\* The back jump, which may come behind the jump that left the body.
LEMMA AfterBodyLaid ==
    ASSUME Control, BlockInv, AfterBody
    PROVE  BlockInv'
<1> DEFINE seq == <<Jump(Top.entry)>>
<1>1. /\ UNCHANGED slot /\ mode # "done" /\ cur' = Top.merge /\ frames' = Rest
      /\ Top.k = "body"
  BY DEF AfterBody
<1>2. Lowers(0, seq)
  BY AfterBodyLowers
<1>3. Top.entry \in 3..Len(blocks) /\ Top.merge \in 3..Len(blocks)
  BY <1>1, LoopFrame DEF LoopKinds
<1>4. /\ NoExit(seq) /\ IsLeft(seq)
      /\ Len(seq) = 1 /\ seq[1].op = "jump"
  <2>1. Top.entry # Exit
    BY <1>3, Sizes DEF Exit
  <2>2. NoExit(seq) /\ IsLeft(seq) /\ Jump(Top.entry).op = "jump"
    BY <2>1, Builders, CodeOf1
  <2> QED
    BY <2>2
<1>5. MayFollow(blocks[cur].instrs, seq)
  BY <1>4, OpenIs DEF MayFollow, OpenNow
<1>6. /\ Stacked(Rest) /\ Due(Top) \subseteq Debts(frames)
      /\ Debts(Rest) = Debts(frames) \ Due(Top)
  BY <1>1, PopDebts
<1>7. Due(Top) = {Top.merge} /\ NewBlocks(0) = {}
  BY <1>1, <1>3, OwedIs, Sizes DEF Due, Null, NewBlocks
<1> HIDE DEF seq
<1>8. /\ cur' \in Debts(frames) \cup NewBlocks(0)
      /\ Debts(frames') = (Debts(frames) \cup NewBlocks(0)) \ {cur'}
  BY <1>1, <1>6, <1>7
<1> QED
  BY <1>1, <1>2, <1>4, <1>5, <1>6, <1>8, MovesOn

LEMMA AfterLhsLaid ==
    ASSUME Control, BlockInv, AfterLhs
    PROVE  BlockInv'
<1> DEFINE n == Len(blocks)
           f == [k |-> "rhs", ret |-> nsym + 1, merge |-> n + 2]
<1>1. /\ UNCHANGED slot /\ OpenNow /\ mode # "done" /\ cur' = n + 1
      /\ frames' = Append(Rest, f) /\ Top.k = "lhs"
  BY DEF AfterLhs, BlockInv
<1>2. Lowers(2, ShortCircuitCode)
  BY AfterLhsLowers
<1>3. NoExit(ShortCircuitCode) /\ IsLeft(ShortCircuitCode)
  BY Builders, CodeOf4 DEF ShortCircuitCode
<1>4. n \in Nat /\ n >= 2 /\ Debts(frames) \subseteq 3..n
  BY Sizes, DebtsTyped
<1>5. Due(Top) = {} /\ NewBlocks(2) = {n + 1, n + 2}
  BY <1>1, <1>4, NothingDue DEF NewBlocks
<1>6. BranchOK(f) /\ Due(f) = {n + 2}
  <2>1. f.k = "rhs" /\ f.merge = n + 2
    OBVIOUS
  <2> HIDE DEF f
  <2> QED
    BY <1>4, <2>1, OwedIs DEF Due, Null, BranchOK
<1> HIDE DEF f
<1>7. /\ Stacked(frames')
      /\ Debts(frames') = (Debts(frames) \ Due(Top)) \cup Due(f)
  <2>1. Due(f) \subseteq Due(Top) \cup NewBlocks(2)
    BY <1>5, <1>6
  <2> QED
    BY <1>1, <1>6, <2>1, SwapDebts
<1>8. /\ cur' \in Debts(frames) \cup NewBlocks(2)
      /\ Debts(frames') = (Debts(frames) \cup NewBlocks(2)) \ {cur'}
  BY <1>1, <1>4, <1>5, <1>6, <1>7
<1> QED
  BY <1>1, <1>2, <1>3, <1>7, <1>8, LeavesFor

LEMMA AfterRhsLaid ==
    ASSUME Control, BlockInv, AfterRhs
    PROVE  BlockInv'
<1>1. OpenNow /\ ~Terminated
  BY OpenIs DEF AfterRhs
<1>2. /\ UNCHANGED slot /\ mode # "done" /\ cur' = Top.merge /\ frames' = Rest
      /\ Top.k = "rhs"
  BY <1>1 DEF AfterRhs
<1>3. Top.merge \in 3..Len(blocks) /\ Lowers(0, RhsCode)
  BY <1>1, AfterRhsLowers
<1>4. NoExit(RhsCode) /\ IsLeft(RhsCode)
  <2>1. Top.merge # Exit
    BY <1>3, Sizes DEF Exit
  <2> QED
    BY <2>1, Builders, CodeOf3 DEF RhsCode
<1>5. /\ Stacked(Rest) /\ Due(Top) \subseteq Debts(frames)
      /\ Debts(Rest) = Debts(frames) \ Due(Top)
  BY <1>2, PopDebts
<1>6. Due(Top) = {Top.merge} /\ NewBlocks(0) = {}
  BY <1>2, <1>3, OwedIs, Sizes DEF Due, Null, NewBlocks
<1>7. /\ cur' \in Debts(frames) \cup NewBlocks(0)
      /\ Debts(frames') = (Debts(frames) \cup NewBlocks(0)) \ {cur'}
  <2>1. cur' \in Due(Top) /\ cur' = Top.merge
    BY <1>2, <1>6
  <2>2. Debts(frames') = Debts(frames) \ {cur'}
    <3>1. Debts(frames') = Debts(Rest)
      BY <1>2
    <3> QED  BY <1>5, <1>6, <2>1, <3>1
  <2> QED  BY <1>5, <1>6, <2>1, <2>2
<1> QED
  BY <1>1, <1>2, <1>3, <1>4, <1>5, <1>7, LeavesFor

-----------------------------------------------------------------------------
(* A return: the slot is made if there is none yet, and the value is stored   *)
(* before the exit is gone to.                                                *)

LEMMA SlotNowLaid ==
    ASSUME Control, BlockInv, OpenNow, NEW n \in Nat, nsym <= n,
           slot = Null => nsym + 2 <= n
    PROVE  /\ Laid(BlocksNow, cur, Debts(frames), SlotNow)
           /\ IsOpen(BlocksNow[cur].instrs) /\ SlotNow # Null
<1> DEFINE I == Instrs(n, Len(blocks))
<1>1. /\ IsBlocks(blocks) /\ Len(blocks) >= 2 /\ cur \in DOMAIN blocks
      /\ Len(blocks) \in Nat /\ nsym \in Nat
      /\ Laid(blocks, cur, Debts(frames), slot) /\ IsOpen(blocks[cur].instrs)
  BY Sizes DEF BlockInv, OpenNow
<1>2. CASE slot = Null
  <2>1. \A b \in DOMAIN blocks : blocks[b].instrs \in Seq(I)
    BY <1>1, CodeTyped
  <2>2. /\ Alloc(nsym + 1) \in I /\ Load(nsym + 2, nsym + 1) \in I
        /\ Ret(nsym + 2) \in I
    BY <1>1, <1>2, InstrsTyped
  <2>3. SlotCode(nsym + 1) \in Seq(I)
    <3>1. SlotCode(nsym + 1) = <<Load(nsym + 2, nsym + 1), Ret(nsym + 2)>>
      BY <1>1 DEF SlotCode
    <3> HIDE DEF I
    <3>2. ASSUME NEW x \in I, NEW y \in I
          PROVE  <<x, y>> \in Seq(I)
      OBVIOUS
    <3>3. <<Load(nsym + 2, nsym + 1), Ret(nsym + 2)>> \in Seq(I)
      BY <2>2, <3>2, Zenon
    <3> QED
      BY <3>1, <3>3, Zenon
  <2>4. nsym + 1 # Null
    BY <1>1 DEF Null
  <2> HIDE DEF I
  <2>5. Laid(blocks, cur, Debts(frames), Null)
    BY <1>1, <1>2
  <2>6. /\ Laid(WithSlot(blocks, nsym + 1), cur, Debts(frames), nsym + 1)
        /\ IsOpen(WithSlot(blocks, nsym + 1)[cur].instrs)
    BY <1>1, <2>1, <2>2, <2>3, <2>4, <2>5, SlotLaid
  <2> QED
    BY <1>2, <2>4, <2>6 DEF BlocksNow, SlotNow
<1>3. CASE slot # Null
  BY <1>1, <1>3 DEF BlocksNow, SlotNow
<1> QED
  BY <1>2, <1>3

LEMMA ReturnLaid ==
    ASSUME Control, BlockInv, OpenNow, NEW v \in -1..nsym, StoreAndLeave(v),
           UNCHANGED cur, Stacked(frames'), Debts(frames') = Debts(frames)
    PROVE  BlockInv'
<1> DEFINE s == SlotNow
           B == BlocksNow
           D == Debts(frames)
           seq == <<Store(v, s), Jump(Exit)>>
           I == Instrs(nsym', Len(blocks))
<1>1. /\ nsym' \in Nat /\ nsym <= nsym' /\ (slot = Null => nsym + 2 <= nsym')
      /\ Extends(B, blocks', 0, cur, seq)
      /\ slot' = s /\ s \in 0..nsym'
  BY ReturnLowers
<1>2. /\ IsBlocks(B) /\ Len(B) = Len(blocks) /\ DOMAIN B = DOMAIN blocks
      /\ Code(B, nsym')
  BY <1>1, BlocksNowGives
<1>3. Laid(B, cur, D, s) /\ IsOpen(B[cur].instrs) /\ s # Null
  BY <1>1, SlotNowLaid
<1>4. Store(v, s) \in I /\ Jump(Exit) \in I
  <2>1. v \in -1..nsym' /\ Exit \in 1..Len(blocks) /\ Len(blocks) \in Nat
    BY <1>1, Sizes DEF Exit
  <2> QED
    BY <1>1, <2>1, InstrsTyped
<1>5. \A b \in DOMAIN B : B[b].instrs \in Seq(I)
  BY <1>2 DEF Code
<1>6. /\ mode' = "next" /\ cur \in DOMAIN B /\ Len(B) >= 2 /\ Len(B) \in Nat
  BY <1>2, Sizes DEF StoreAndLeave
<1> HIDE DEF s, B, D, I
<1>7. seq \in Seq(I)
  BY <1>4
<1>8. /\ IsLeft(seq) /\ ByJump(seq) /\ Store(v, s).op = "store"
      /\ Store(v, s).args[2] = s /\ Store(v, s) # Jump(Exit)
  BY Builders, CodeOf2
<1>9. ExitsBy(B[cur].instrs \o seq, s)
  <2>1. ExitsBy(B[cur].instrs, s)
    BY <1>3, <1>6 DEF Laid, Slotted
  <2> QED
    BY <1>3, <1>4, <1>5, <1>6, <1>8, <2>1, ExitsReturn
<1> HIDE DEF seq
<1>10. MayFollow(B[cur].instrs, seq)
  BY <1>3, <1>8 DEF MayFollow
<1>11. Laid(blocks', cur, (D \cup (Len(B) + 1..Len(B) + 0)) \ {cur}, s)
  <2>1. /\ IsBlocks(B) /\ Len(B) >= 2 /\ cur \in DOMAIN B /\ Laid(B, cur, D, s)
        /\ \A b \in DOMAIN B : B[b].instrs \in Seq(I)
        /\ seq \in Seq(I) /\ 0 \in Nat /\ Extends(B, blocks', 0, cur, seq)
        /\ ExitsBy(B[cur].instrs \o seq, s) /\ MayFollow(B[cur].instrs, seq)
        /\ cur \in {cur} \cup D \cup (Len(B) + 1..Len(B) + 0)
        /\ IsOpen(B[cur].instrs) /\ IsLeft(seq) /\ ByJump(seq)
    BY <1>1, <1>2, <1>3, <1>5, <1>6, <1>7, <1>8, <1>9, <1>10
  <2> QED
    BY <2>1, StepLaid, Zenon
<1>12. (D \cup (Len(B) + 1..Len(B) + 0)) \ {cur} = D
  <2>1. cur \notin D
    BY DEF D, BlockInv, Laid, Blocked
  <2> QED
    BY <1>6, <2>1
<1>13. Laid(blocks', cur, D, s)
  BY <1>11, <1>12
<1> QED
  BY <1>1, <1>6, <1>13 DEF BlockInv, OpenNow, D

LEMMA ReturnVoidLaid ==
    ASSUME Control, BlockInv, ReturnVoid
    PROVE  BlockInv'
<1>1. /\ OpenNow /\ StoreAndLeave(Undef) /\ UNCHANGED <<cur, frames>>
  BY OpenIs DEF ReturnVoid, context
<1>2. Undef \in -1..nsym
  BY Sizes DEF Undef
<1>3. Stacked(frames') /\ Debts(frames') = Debts(frames)
  BY <1>1 DEF BlockInv
<1> QED
  BY <1>1, <1>2, <1>3, ReturnLaid

LEMMA AfterReturnExpLaid ==
    ASSUME Control, BlockInv, AfterReturnExp
    PROVE  BlockInv'
<1>1. /\ OpenNow /\ StoreAndLeave(val) /\ UNCHANGED cur /\ mode # "done"
      /\ frames' = Rest /\ Top.k = "ret"
  BY DEF AfterReturnExp, context, BlockInv
<1>2. val \in -1..nsym
  BY Sizes
<1>3. Stacked(frames') /\ Debts(frames') = Debts(frames)
  BY <1>1, PopsNothing
<1> QED
  BY <1>1, <1>2, <1>3, ReturnLaid

-----------------------------------------------------------------------------
(* BlockInv is an invariant.                                                  *)

LEMMA InitLaid == Init => BlockInv
<1> SUFFICES ASSUME Init PROVE BlockInv
  OBVIOUS
<1> DEFINE f == [k |-> "block", vis |-> {}]
<1>1. /\ mode = "next" /\ frames = <<f>> /\ blocks = <<EmptyBlock, EmptyBlock>>
      /\ cur = 1 /\ slot = Null
  BY DEF Init, Entry
<1>2. /\ Len(blocks) = 2 /\ DOMAIN blocks = {1, 2}
      /\ \A b \in DOMAIN blocks : blocks[b] = EmptyBlock
  BY <1>1
<1>3. \A b \in DOMAIN blocks : blocks[b].instrs = <<>> /\ blocks[b].term = FALSE
  <2>1. EmptyBlock.instrs = <<>> /\ EmptyBlock.term = FALSE
    BY DEF EmptyBlock
  <2> QED
    BY <1>2, <2>1, Zenon
<1>4. IsOpen(<<>>) /\ ~HasEnd(<<>>) /\ \A s : ExitsBy(<<>>, s)
  BY DEF IsOpen, EndsOf, HasEnd, ExitsBy
<1>5. BranchOK(f) /\ Due(f) = {}
  BY NothingDue
<1> HIDE DEF f
<1>6. Stacked(frames) /\ Debts(frames) = {}
  <2>1. DOMAIN frames = {1} /\ frames[1] = f
    BY <1>1
  <2> QED
    BY <1>5, <2>1 DEF Stacked, Debts
<1>7. Blocked(blocks, cur, {}, slot)
  <2>1. \A b \in DOMAIN blocks : /\ Shape(blocks[b].instrs)
                                 /\ blocks[b].term <=> HasEnd(blocks[b].instrs)
    BY <1>3, <1>4, Zenon DEF Shape
  <2>2. cur \in DOMAIN blocks /\ cur # Exit
    BY <1>1, <1>2 DEF Exit
  <2>3. IsOpen(blocks[cur].instrs)
    BY <1>3, <1>4, <2>2, Zenon
  <2>4. \A b \in DOMAIN blocks : b = cur \/ b = Exit
    BY <1>1, <1>2 DEF Exit
  <2> QED
    BY <1>1, <2>1, <2>2, <2>3, <2>4 DEF Blocked
<1>8. Slotted(blocks, slot)
  <2>1. Exit \in DOMAIN blocks
    BY <1>2 DEF Exit
  <2> QED
    BY <1>1, <1>3, <1>4, <2>1, Zenon DEF Slotted
<1>9. mode \notin {"exp", "value"}
  BY <1>1
<1> QED
  BY <1>6, <1>7, <1>8, <1>9 DEF BlockInv, Laid

LEMMA StatementLaid ==
    ASSUME Control, BlockInv, Statement
    PROVE  BlockInv'
<1>1. CASE SkipStmt \/ IfEmpty
  BY <1>1, QuietLaid
<1>2. CASE OpenBlock \/ CloseBlock
  BY <1>2, BlockLaid
<1>3. ASSUME NEW x, SkipDecl(x) \/ DeclPlain(x) \/ DeclInit(x)
      PROVE  BlockInv'
  BY <1>3, QuietLaid, DeclPlainLaid, HeadLaid
<1>4. CASE ExpStmt \/ ReturnExp
  BY <1>4, HeadLaid
<1>5. CASE ReturnVoid
  BY <1>5, ReturnVoidLaid
<1>6. ASSUME NEW v, Assign(v)
      PROVE  BlockInv'
  BY <1>6, HeadLaid
<1>7. ASSUME NEW then, NEW else, If(then, else)
      PROVE  BlockInv'
  BY <1>7, HeadLaid
<1>8. ASSUME NEW b, While(b) \/ BreakOrContinue(b)
      PROVE  BlockInv'
  BY <1>8, WhileLaid, BreakLaid
<1> QED
  BY <1>1, <1>2, <1>3, <1>4, <1>5, <1>6, <1>7, <1>8 DEF Statement

LEMMA ExpressionLaid ==
    ASSUME Control, BlockInv, Expression
    PROVE  BlockInv'
<1>1. CASE Number \/ UnboundLVal
  BY <1>1, QuietLaid
<1>2. CASE Binary \/ Logical \/ \E op : Unary(op)
  BY <1>2, OperandLaid
<1>3. ASSUME NEW v \in vis, LVal(v)
      PROVE  BlockInv'
  BY <1>3, LValLaid
<1> QED
  BY <1>1, <1>2, <1>3 DEF Expression

LEMMA ContinueLaid ==
    ASSUME Control, BlockInv, Continue
    PROVE  BlockInv'
BY AfterInitLaid, BlockLaid, AfterAssignLaid, AfterReturnExpLaid, AfterIfCondLaid,
   AfterThenLaid, AfterElseLaid, AfterWhileCondLaid, AfterBodyLaid, AfterUnaryLaid,
   AfterOpnd1Laid, AfterOpnd2Laid, AfterLhsLaid, AfterRhsLaid DEF Continue

LEMMA StepLaidOut == Control /\ BlockInv /\ [Next]_vars => BlockInv'
<1> SUFFICES ASSUME Control, BlockInv, [Next]_vars PROVE BlockInv'
  OBVIOUS
<1>1. CASE Statement
  BY <1>1, StatementLaid
<1>2. CASE Expression
  BY <1>2, ExpressionLaid
<1>3. CASE Continue
  BY <1>3, ContinueLaid
<1>4. CASE UNCHANGED vars
  BY <1>4, QuietLaid
<1> QED
  BY <1>1, <1>2, <1>3, <1>4 DEF Next, Over

LEMMA BlockInvariant == Spec => [](Control /\ BlockInv)
<1>1. Init => Control /\ BlockInv
  BY InitControl, InitLaid
<1>2. Control /\ BlockInv /\ [Next]_vars => Control' /\ BlockInv'
  BY StepControl, StepLaidOut
<1> QED
  BY <1>1, <1>2, PTL DEF Spec

-----------------------------------------------------------------------------

\* Every block of the function ends exactly once, whatever the program: the flag
\* the walk looks at is what the instructions say, and behind the instruction
\* that leaves a block comes nothing but the back jump of a loop whose body has
\* left by a jump already.
THEOREM BlocksEndOnce == Spec => []DeadTail
<1>1. Control /\ BlockInv => DeadTail
  <2> SUFFICES ASSUME Control, BlockInv, NEW b \in DOMAIN blocks
               PROVE  /\ blocks[b].term <=> Ends(b) # {}
                      /\ Ends(b) # {} =>
                            LET n == Len(blocks[b].instrs)
                            IN \/ Leave(b) = n
                               \/ /\ Leave(b) = n - 1
                                  /\ blocks[b].instrs[n - 1].op = "jump"
                                  /\ blocks[b].instrs[n].op = "jump"
    BY DEF DeadTail
  <2> DEFINE q == blocks[b].instrs
             n == Len(q)
  <2>1. /\ Shape(q) /\ (blocks[b].term <=> HasEnd(q))
        /\ q \in Seq(Instrs(nsym, Len(blocks)))
    BY Sizes DEF BlockInv, Laid, Blocked, Code
  <2>2. n \in Nat
    BY <2>1
  <2>3. Ends(b) = EndsOf(q)
    BY DEF Ends, EndsOf
  <2>4. Leave(b) = CHOOSE i \in EndsOf(q) : \A j \in EndsOf(q) : i <= j
    BY <2>3, Zenon DEF Leave
  <2> HIDE DEF q, n
  <2>5. blocks[b].term <=> Ends(b) # {}
    BY <2>1, <2>3, OpenHasNoEnd DEF IsOpen
  <2>6. CASE IsLeft(q)
    <3>1. EndsOf(q) = {n}
      BY <2>6 DEF IsLeft, n
    <3>2. Leave(b) = n
      BY <2>2, <2>4, <3>1
    <3> QED
      BY <2>5, <3>2 DEF q, n
  <2>7. CASE IsTailed(q)
    <3>1. EndsOf(q) = {n - 1, n} /\ q[n].op = "jump" /\ q[n - 1].op = "jump"
      BY <2>7 DEF IsTailed, ByJump, n
    <3>2. Leave(b) = n - 1
      <4>1. n - 1 \in EndsOf(q) /\ \A j \in EndsOf(q) : n - 1 <= j
        BY <2>2, <3>1
      <4>2. \A i \in EndsOf(q) : (\A j \in EndsOf(q) : i <= j) => i = n - 1
        BY <2>2, <3>1
      <4> QED
        BY <2>4, <4>1, <4>2
    <3> QED
      BY <2>5, <3>1, <3>2 DEF q, n
  <2>8. CASE IsOpen(q)
    BY <2>3, <2>5, <2>8 DEF IsOpen
  <2> QED
    BY <2>1, <2>6, <2>7, <2>8 DEF Shape
<1> QED
  BY <1>1, BlockInvariant, PTL

\* The walk leaves no block behind without an end: an open block is the one code
\* goes to, one that a visit in progress will come back to, or the exit as long
\* as nothing has returned.
THEOREM NoBlockForgotten == Spec => []OpenEnds
<1>1. Control /\ BlockInv => OpenEnds
  <2> SUFFICES ASSUME Control, BlockInv, NEW b \in DOMAIN blocks
               PROVE  \/ blocks[b].term
                      \/ b = cur \/ (b = Exit /\ slot = Null)
                      \/ \E i \in DOMAIN frames : b \in Owed(frames[i])
    BY DEF OpenEnds
  <2>1. blocks[b].term \/ b = cur \/ (b = Exit /\ slot = Null) \/ b \in Debts(frames)
    BY DEF BlockInv, Laid, Blocked
  <2> QED
    BY <2>1 DEF Debts, Due
<1> QED
  BY <1>1, BlockInvariant, PTL

\* The return slot is made once, at the head of the entry block; the exit block
\* is then what reads it and returns, and every jump to the exit comes right
\* behind a store into the slot, so no path returns a value nobody has set.
THEOREM ReturnsWhatWasStored == Spec => []ReturnProtocol
<1>1. Control /\ BlockInv => ReturnProtocol
  <2> SUFFICES ASSUME Control, BlockInv PROVE ReturnProtocol
    OBVIOUS
  <2>1. /\ slot = Null => blocks[Exit].instrs = <<>>
        /\ slot # Null => /\ blocks[Entry].instrs[1] = Alloc(slot)
                          /\ blocks[Exit].instrs = SlotCode(slot)
        /\ \A b \in DOMAIN blocks : ExitsBy(blocks[b].instrs, slot)
    BY DEF BlockInv, Laid, Slotted
  <2>2. ASSUME slot # Null
        PROVE  Len(blocks[Exit].instrs) = 2 /\ blocks[Exit].instrs[1].args = <<slot>>
    <3>1. Len(SlotCode(slot)) = 2 /\ SlotCode(slot)[1].args = <<slot>>
      BY DEF SlotCode, Load, Instr
    <3> QED
      BY <2>1, <2>2, <3>1, Zenon
  <2>3. \A b \in DOMAIN blocks : \A i \in DOMAIN blocks[b].instrs :
           blocks[b].instrs[i] = Jump(Exit) =>
              LET ins == blocks[b].instrs[i - 1]
              IN slot # Null /\ ins.op = "store" /\ ins.args[2] = slot
    BY <2>1, Zenon DEF ExitsBy
  <2> QED
    BY <2>1, <2>2, <2>3 DEF ReturnProtocol
<1> QED
  BY <1>1, BlockInvariant, PTL

-----------------------------------------------------------------------------
(* The symbols of the variables in sight.                                     *)

Lowered(S) == \A v \in S : irvar[v] # Null

\* What a visit in progress will put back, or assign to, has its symbol.
KeepsLowered(f) == /\ f.k = "block" => Lowered(f.vis)
                   /\ f.k = "assign" => irvar[f.var] # Null
FramesLowered == \A i \in DOMAIN frames : KeepsLowered(frames[i])

\* Only code behind the end of a block, which is skipped, may be in sight of a
\* variable that has no symbol; in an expression the one being initialized is.
VisLowered ==
    /\ mode \in {"next", "stmt"} /\ (Top.k # "block" \/ OpenNow) => Lowered(vis)
    /\ mode = "done" => Lowered(vis)
    /\ mode \in {"exp", "value", "crash"} =>
          \A v \in vis : irvar[v] # Null \/ Initializing(v)

LowerInv == FramesLowered /\ VisLowered

LEMMA StmtLowered ==
    ASSUME Control, BlockInv, LowerInv, AtStmt, ~Terminated
    PROVE  OpenNow /\ Lowered(vis)
<1>1. OpenNow /\ mode \in {"next", "stmt"}
  BY OpenIs, AtStmtModes
<1> QED
  BY <1>1 DEF LowerInv, VisLowered

\* At the end of the expression of a statement no other is being visited.
LEMMA HeadDone ==
    ASSUME Control, LowerInv, mode = "value", Top.k \in HeadKinds
    PROVE  /\ \A v \in vis : irvar[v] # Null \/ (Top.k = "init" /\ v = Top.var)
           /\ Top.k # "init" => Lowered(vis)
<1>1. /\ frames \in Seq(FramesNow) /\ Len(frames) \in Nat /\ Top = frames[Len(frames)]
      /\ DOMAIN frames = 1..Len(frames) /\ Nested(frames) /\ frames # <<>>
  BY TopFrame DEF Control, StackOK
<1>2. ASSUME NEW v \in vis, irvar[v] = Null
      PROVE  Top.k = "init" /\ v = Top.var
  <2>1. PICK i \in DOMAIN frames : frames[i] = [k |-> "init", var |-> v]
    BY <1>2 DEF LowerInv, VisLowered, Initializing
  <2>2. frames[i].k = "init" /\ frames[i].var = v
    BY <2>1
  <2>3. "init" \notin StmtKinds /\ Top.k \notin OperandKinds
    BY DEF HeadKinds, StmtKinds, OperandKinds
  <2>4. ~(i < Len(frames))
    BY <1>1, <2>2, <2>3 DEF Nested
  <2>5. i = Len(frames)
    BY <1>1, <2>1, <2>4
  <2> QED
    BY <1>1, <2>2, <2>5
<1> QED
  BY <1>2 DEF Lowered

-----------------------------------------------------------------------------
(* The frames of a step.                                                      *)

\* The stack stays, or f is pushed, or the frame at the top goes, or f replaces it.
Turn(f) ==
    \/ UNCHANGED frames \/ frames' = Append(frames, f)
    \/ mode # "done" /\ (frames' = Rest \/ frames' = Append(Rest, f))

LEMMA TurnGives ==
    ASSUME Control, NEW f, Turn(f)
    PROVE  \A i \in DOMAIN frames' :
              \/ i = Len(frames') /\ frames'[i] = f
              \/ i \in DOMAIN frames /\ frames'[i] = frames[i]
<1> DEFINE F == FramesNow \cup {f}
<1>1. frames \in Seq(F) /\ f \in F
  <2>1. FramesNow \subseteq F /\ frames \in Seq(FramesNow) /\ f \in F
    BY DEF Control, Typed, FramesNow
  <2> HIDE DEF F
  <2> QED
    BY <2>1, Widened
<1> HIDE DEF F
<1>2. CASE UNCHANGED frames
  BY <1>2
<1>3. CASE frames' = Append(frames, f)
  <2>1. /\ Len(Append(frames, f)) = Len(frames) + 1
        /\ \A i \in DOMAIN frames : Append(frames, f)[i] = frames[i]
        /\ Append(frames, f)[Len(frames) + 1] = f
        /\ DOMAIN Append(frames, f) = DOMAIN frames \cup {Len(frames) + 1}
    BY <1>1, PushGives
  <2> QED
    BY <1>3, <2>1
<1>4. ASSUME mode # "done"
      PROVE  /\ Rest \in Seq(F) /\ DOMAIN Rest \subseteq DOMAIN frames
             /\ \A i \in DOMAIN Rest : Rest[i] = frames[i]
  <2>1. frames # <<>> /\ Rest = Below(frames)
    BY <1>4, TopFrame
  <2>2. /\ Below(frames) \in Seq(F) /\ DOMAIN Below(frames) = 1..Len(frames) - 1
        /\ \A i \in 1..Len(frames) - 1 : Below(frames)[i] = frames[i]
        /\ Len(frames) \in Nat
    BY <1>1, <2>1, PopGives
  <2>3. DOMAIN frames = 1..Len(frames)
    BY <1>1
  <2> QED
    BY <2>1, <2>2, <2>3
<1>5. CASE mode # "done" /\ frames' = Rest
  BY <1>4, <1>5
<1>6. CASE mode # "done" /\ frames' = Append(Rest, f)
  <2>1. /\ Len(Append(Rest, f)) = Len(Rest) + 1
        /\ \A i \in DOMAIN Rest : Append(Rest, f)[i] = Rest[i]
        /\ Append(Rest, f)[Len(Rest) + 1] = f
        /\ DOMAIN Append(Rest, f) = DOMAIN Rest \cup {Len(Rest) + 1}
    BY <1>1, <1>4, <1>6, PushGives
  <2> QED
    BY <1>4, <1>6, <2>1
<1> QED
  BY <1>2, <1>3, <1>5, <1>6 DEF Turn

\* Symbols do not go away.
Keeps == \A v \in 1..Len(irvar) : irvar[v] # Null => irvar'[v] # Null

LEMMA FramesStay ==
    ASSUME Control, LowerInv, Keeps, NEW f, Turn(f),
           f.k = "block" => \A v \in f.vis : irvar'[v] # Null,
           f.k = "assign" => irvar'[f.var] # Null
    PROVE  FramesLowered'
<1> SUFFICES ASSUME NEW i \in DOMAIN frames'
             PROVE  /\ frames'[i].k = "block" =>
                          \A v \in frames'[i].vis : irvar'[v] # Null
                    /\ frames'[i].k = "assign" => irvar'[frames'[i].var] # Null
  BY DEF FramesLowered, KeepsLowered, Lowered
<1>1. CASE frames'[i] = f
  BY <1>1
<1>2. CASE i \in DOMAIN frames /\ frames'[i] = frames[i]
  <2>1. frames[i] \in FramesNow
    <3>1. frames \in Seq(FramesNow)
      BY DEF Control, Typed, FramesNow
    <3> QED
      BY <1>2, <3>1
  <2>2. /\ frames[i].k = "block" => frames[i].vis \in SUBSET (1..Len(irvar))
        /\ frames[i].k \in {"init", "assign"} => frames[i].var \in 1..Len(irvar)
    BY <2>1, FrameFields DEF FramesNow
  <2>3. KeepsLowered(frames[i])
    BY <1>2 DEF LowerInv, FramesLowered
  <2> QED
    BY <1>2, <2>2, <2>3 DEF KeepsLowered, Lowered, Keeps
<1> QED
  BY <1>1, <1>2, TurnGives

\* A frame that keeps no variable.
Plain == [k |-> "exp"]

\* A step of a statement, with nothing in sight without a symbol.
LEMMA StatementStep ==
    ASSUME Control, LowerInv, Lowered(vis), UNCHANGED <<vis, irvar>>,
           NEW f, Turn(f), f.k = "block" => f.vis = vis,
           f.k = "assign" => f.var \in vis
    PROVE  LowerInv'
<1>1. Keeps
  BY DEF Keeps
<1>2. FramesLowered'
  BY <1>1, FramesStay DEF Lowered
<1> QED
  BY <1>2 DEF LowerInv, VisLowered, Lowered

\* A step of an expression.
LEMMA OperandStep ==
    ASSUME Control, LowerInv, UNCHANGED <<vis, irvar>>,
           mode \in {"exp", "value"}, mode' \in {"exp", "value", "crash"},
           NEW f, f.k \in OperandKinds,
           \/ UNCHANGED frames \/ frames' = Append(frames, f)
           \/ Top.k \in OperandKinds /\ (frames' = Rest \/ frames' = Append(Rest, f))
    PROVE  LowerInv'
<1>1. Turn(f) /\ f.k \notin {"block", "assign"} /\ mode # "done"
  BY DEF Turn, OperandKinds
<1>2. FramesLowered'
  BY <1>1, FramesStay DEF Keeps
<1>3. ASSUME NEW v \in vis, Initializing(v)
      PROVE  Initializing(v)'
  <2> DEFINE F == FramesNow \cup {f}
  <2>1. PICK i \in DOMAIN frames : frames[i] = [k |-> "init", var |-> v]
    BY <1>3 DEF Initializing
  <2>2. frames[i].k \notin OperandKinds
    BY <2>1 DEF OperandKinds
  <2>3. frames \in Seq(F) /\ f \in F
    <3>1. FramesNow \subseteq F /\ frames \in Seq(FramesNow) /\ f \in F
      BY DEF Control, Typed, FramesNow
    <3> HIDE DEF F
    <3> QED
      BY <3>1, Widened
  <2> HIDE DEF F
  <2>4. CASE UNCHANGED frames
    BY <2>1, <2>4 DEF Initializing
  <2>5. CASE frames' = Append(frames, f)
    <3>1. i \in DOMAIN frames' /\ frames'[i] = frames[i]
      BY <2>3, <2>5, PushGives
    <3> QED
      BY <2>1, <3>1 DEF Initializing
  <2>6. ASSUME Top.k \in OperandKinds
        PROVE  /\ i \in DOMAIN Rest /\ Rest[i] = frames[i] /\ Rest \in Seq(F)
    <3>1. /\ frames # <<>> /\ Rest = Below(frames) /\ Top = frames[Len(frames)]
      BY <1>1, TopFrame
    <3>2. i # Len(frames)
      BY <2>2, <2>6, <3>1
    <3>3. /\ Below(frames) \in Seq(F) /\ DOMAIN Below(frames) = 1..Len(frames) - 1
          /\ \A j \in 1..Len(frames) - 1 : Below(frames)[j] = frames[j]
          /\ Len(frames) \in Nat
      BY <2>3, <3>1, PopGives
    <3>4. i \in 1..Len(frames) - 1
      BY <2>1, <2>3, <3>2, <3>3
    <3> QED
      BY <3>1, <3>3, <3>4
  <2>7. CASE Top.k \in OperandKinds /\ frames' = Rest
    BY <2>1, <2>6, <2>7 DEF Initializing
  <2>8. CASE Top.k \in OperandKinds /\ frames' = Append(Rest, f)
    <3>1. i \in DOMAIN frames' /\ frames'[i] = Rest[i]
      BY <2>3, <2>6, <2>8, PushGives
    <3> QED
      BY <2>1, <2>6, <2>8, <3>1 DEF Initializing
  <2> QED
    BY <2>4, <2>5, <2>7, <2>8
<1>4. \A v \in vis' : irvar'[v] # Null \/ Initializing(v)'
  BY <1>3 DEF LowerInv, VisLowered
<1>5. VisLowered'
  BY <1>4 DEF VisLowered
<1> QED
  BY <1>2, <1>5 DEF LowerInv

-----------------------------------------------------------------------------
(* LowerInv is kept by each step.                                             *)

LEMMA SkipStmtLowered ==
    ASSUME Control, LowerInv, SkipStmt \/ UNCHANGED vars
    PROVE  LowerInv'
<1>1. /\ UNCHANGED <<frames, vis, irvar, blocks, cur>>
      /\ \/ mode \in {"next", "stmt"} /\ mode' = "next"
         \/ mode' = mode
  BY DEF SkipStmt, HasRoom, AtItem, variables, context, vars
<1>2. FramesLowered'
  BY <1>1 DEF LowerInv, FramesLowered, KeepsLowered, Lowered
<1>3. mode = "stmt" => Top.k # "block"
  BY DEF Control, StackOK, Top
<1>4. VisLowered'
  BY <1>1, <1>3 DEF LowerInv, VisLowered, Lowered, Initializing, Top, OpenNow
<1> QED
  BY <1>2, <1>4 DEF LowerInv

\* Statements that are lowered at once, or whose expression comes first.
LEMMA StatementLowered ==
    ASSUME Control, BlockInv, LowerInv,
           \/ OpenBlock \/ ExpStmt \/ ReturnVoid \/ ReturnExp \/ IfEmpty
           \/ \E v \in vis : Assign(v)
           \/ \E then, else : If(then, else)
           \/ \E b : While(b) \/ BreakOrContinue(b)
    PROVE  LowerInv'
<1>1. Lowered(vis) /\ UNCHANGED <<vis, irvar>>
  <2>1. AtStmt /\ ~Terminated
    BY AtStmtModes DEF OpenBlock, ExpStmt, ReturnVoid, ReturnExp, IfEmpty, Assign, If,
       While, BreakOrContinue
  <2>2. UNCHANGED <<vis, irvar>>
    BY DEF OpenBlock, ExpStmt, ReturnVoid, ReturnExp, IfEmpty, Assign, If, While,
       BreakOrContinue, variables
  <2> QED
    BY <2>1, <2>2, StmtLowered
<1>2. ASSUME NEW f, frames' = Append(frames, f), f.k \notin {"block", "assign"}
      PROVE  LowerInv'
  BY <1>1, <1>2, StatementStep DEF Turn
<1>3. CASE UNCHANGED frames
  <2>1. Turn(Plain) /\ Plain.k = "exp"
    BY <1>3 DEF Turn, Plain
  <2> QED
    BY <1>1, <2>1, StatementStep
<1>4. CASE OpenBlock
  <2>1. frames' = Append(frames, [k |-> "block", vis |-> vis])
    BY <1>4 DEF OpenBlock
  <2> QED
    BY <1>1, <2>1, StatementStep DEF Turn
<1>5. CASE ExpStmt
  BY <1>2, <1>5 DEF ExpStmt, Evaluate
<1>6. CASE ReturnExp
  BY <1>2, <1>6 DEF ReturnExp, Evaluate
<1>7. CASE ReturnVoid \/ IfEmpty \/ \E b : BreakOrContinue(b)
  BY <1>3, <1>7 DEF ReturnVoid, IfEmpty, BreakOrContinue
<1>8. ASSUME NEW v \in vis, Assign(v)
      PROVE  LowerInv'
  <2>1. frames' = Append(frames, [k |-> "assign", var |-> v])
    BY <1>8 DEF Assign, Evaluate
  <2> QED
    BY <1>1, <2>1, StatementStep DEF Turn
<1>9. ASSUME NEW then, NEW else, If(then, else)
      PROVE  LowerInv'
  <2> DEFINE f == [k |-> "if", then |-> then, else |-> else]
  <2>1. frames' = Append(frames, f) /\ f.k = "if"
    BY <1>9 DEF If, Evaluate
  <2> HIDE DEF f
  <2> QED
    BY <1>2, <2>1
<1>10. ASSUME NEW b, While(b)
       PROVE  LowerInv'
  <2> DEFINE n == Len(blocks)
             f == [k |-> "while", stmt |-> b, entry |-> n + 1, body |-> n + 2,
                   merge |-> n + 3, preEntry |-> entryB, preMerge |-> mergeB]
  <2>1. frames' = Append(frames, f) /\ f.k = "while"
    BY <1>10 DEF While, Evaluate
  <2> HIDE DEF f
  <2> QED
    BY <1>2, <2>1
<1> QED
  BY <1>4, <1>5, <1>6, <1>7, <1>8, <1>9, <1>10

\* The end of a block puts back what was in sight before it.
LEMMA CloseBlockLowered ==
    ASSUME Control, LowerInv, CloseBlock
    PROVE  LowerInv'
<1>1. /\ frames' = Rest /\ vis' = Top.vis /\ UNCHANGED irvar
      /\ Top.k = "block" /\ mode # "done"
  BY DEF CloseBlock, AtItem
<1>2. KeepsLowered(Top)
  BY <1>1, TopFrame DEF LowerInv, FramesLowered
<1>3. \A v \in vis' : irvar'[v] # Null
  BY <1>1, <1>2 DEF KeepsLowered, Lowered
<1>4. FramesLowered'
  <2>1. Keeps /\ Turn(Plain) /\ Plain.k = "exp"
    BY <1>1 DEF Keeps, Turn, Plain
  <2> QED
    BY <2>1, FramesStay
<1> QED
  BY <1>3, <1>4 DEF LowerInv, VisLowered, Lowered

\* Statements that go on after a part of them has been visited.
LEMMA ContinueLowered ==
    ASSUME Control, BlockInv, LowerInv,
           \/ AfterExpStmt \/ AfterAssign \/ AfterReturnExp \/ AfterIfCond
           \/ AfterWhileCond \/ AfterThen \/ AfterElse \/ AfterBody
    PROVE  LowerInv'
<1>1. Lowered(vis)
  <2>1. CASE mode = "value" /\ Top.k \in HeadKinds \ {"init"}
    BY <2>1, HeadDone
  <2>2. CASE mode = "next" /\ Top.k # "block"
    BY <2>2 DEF LowerInv, VisLowered
  <2> QED
    BY <2>1, <2>2 DEF AfterExpStmt, AfterAssign, AfterReturnExp, AfterIfCond,
       AfterWhileCond, AfterThen, AfterElse, AfterBody, HeadKinds
<1>2. UNCHANGED <<vis, irvar>> /\ mode # "done"
  BY DEF AfterExpStmt, AfterAssign, AfterReturnExp, AfterIfCond, AfterWhileCond,
     AfterThen, AfterElse, AfterBody, variables
<1>3. ASSUME NEW f, frames' = Append(Rest, f), f.k \notin {"block", "assign"}
      PROVE  LowerInv'
  BY <1>1, <1>2, <1>3, StatementStep DEF Turn
<1>4. CASE frames' = Rest
  <2>1. Turn(Plain) /\ Plain.k = "exp"
    BY <1>2, <1>4 DEF Turn, Plain
  <2> QED
    BY <1>1, <1>2, <2>1, StatementStep
<1>5. CASE AfterIfCond
  <2> DEFINE n == Len(blocks)
             f == [k |-> "then", else |-> IF Top.else THEN n + 2 ELSE Null,
                   merge |-> IF Top.else THEN n + 3 ELSE n + 2]
  <2>1. frames' = Append(Rest, f) /\ f.k = "then"
    BY <1>5, Zenon DEF AfterIfCond
  <2> HIDE DEF f
  <2> QED
    BY <1>3, <2>1
<1>6. CASE AfterWhileCond
  <2>1. frames' = Append(Rest, BodyFrame) /\ BodyFrame.k = "body"
    BY <1>6, BodyEntered DEF BodyFrame
  <2> QED
    BY <1>3, <2>1
<1>7. CASE AfterThen
  <2>1. frames' = Rest \/ frames' = Append(Rest, [k |-> "else", merge |-> Top.merge])
    BY <1>7 DEF AfterThen
  <2> QED
    BY <1>3, <1>4, <2>1
<1> QED
  BY <1>4, <1>5, <1>6, <1>7 DEF AfterExpStmt, AfterAssign, AfterReturnExp,
     AfterElse, AfterBody

LEMMA ExpressionLowered ==
    ASSUME Control, LowerInv,
           \/ Number \/ UnboundLVal \/ Binary \/ Logical \/ (\E op : Unary(op))
           \/ (\E v : LVal(v)) \/ AfterUnary \/ AfterOpnd1 \/ AfterOpnd2
           \/ AfterLhs \/ AfterRhs
    PROVE  LowerInv'
<1>1. /\ UNCHANGED <<vis, irvar>> /\ mode \in {"exp", "value"}
      /\ mode' \in {"exp", "value", "crash"}
  BY DEF Number, UnboundLVal, Binary, Logical, Unary, Operation, Evaluate, AtExp, LVal,
     AfterUnary, AfterOpnd1, AfterOpnd2, AfterLhs, AfterRhs, variables
<1>2. ASSUME NEW f, frames' = Append(frames, f), f.k \in OperandKinds
      PROVE  LowerInv'
  BY <1>1, <1>2, OperandStep
<1>3. ASSUME NEW f, frames' = Append(Rest, f), Top.k \in OperandKinds,
             f.k \in OperandKinds
      PROVE  LowerInv'
  BY <1>1, <1>3, OperandStep
<1>4. CASE UNCHANGED frames \/ (frames' = Rest /\ Top.k \in OperandKinds)
  <2>1. [k |-> "lhs"].k \in OperandKinds
    BY DEF OperandKinds
  <2> QED
    BY <1>1, <1>4, <2>1, OperandStep
<1>5. CASE Number \/ UnboundLVal \/ (\E v : LVal(v))
  BY <1>4, <1>5 DEF Number, UnboundLVal, LVal
<1>6. CASE Binary \/ Logical \/ (\E op : Unary(op))
  BY <1>2, <1>6 DEF Binary, Logical, Unary, Operation, Evaluate, OperandKinds
<1>7. CASE AfterUnary \/ AfterOpnd2 \/ AfterRhs
  BY <1>4, <1>7 DEF AfterUnary, AfterOpnd2, AfterRhs, OperandKinds
<1>8. CASE AfterOpnd1
  BY <1>3, <1>8 DEF AfterOpnd1, OperandKinds
<1>9. CASE AfterLhs
  <2> DEFINE f == [k |-> "rhs", ret |-> nsym + 1, merge |-> Len(blocks) + 2]
  <2>1. frames' = Append(Rest, f) /\ f.k = "rhs" /\ Top.k = "lhs"
    BY <1>9 DEF AfterLhs
  <2> HIDE DEF f
  <2> QED
    BY <1>3, <2>1 DEF OperandKinds
<1> QED
  BY <1>5, <1>6, <1>7, <1>8, <1>9

-----------------------------------------------------------------------------
(* Declarations.                                                              *)

LEMMA NewVar ==
    ASSUME Control, NEW s, irvar' = Append(irvar, s)
    PROVE  /\ Keeps /\ Declare = Len(irvar) + 1 /\ irvar'[Declare] = s
           /\ \A v \in 1..Len(irvar) : irvar'[v] = irvar[v] /\ v # Declare
           /\ vis \subseteq 1..Len(irvar) /\ DOMAIN irvar' = 1..Declare
           /\ Len(irvar) \in Nat
<1>1. irvar \in Seq(0..nsym) /\ vis \subseteq 1..Len(irvar)
  BY DEF Control, Typed
<1> QED
  BY <1>1 DEF Keeps, Declare

\* A declaration behind the end of a block leaves its variable without a symbol
\* until the block is closed.
LEMMA SkipDeclLowered ==
    ASSUME Control, BlockInv, LowerInv, NEW x, SkipDecl(x)
    PROVE  LowerInv'
<1>1. /\ UNCHANGED <<frames, mode, blocks, cur>> /\ Top.k = "block" /\ mode = "next"
      /\ irvar' = Append(irvar, Null) /\ ~OpenNow
  BY OpenIs DEF SkipDecl, AtItem, context
<1>2. Turn(Plain) /\ Plain.k = "exp"
  BY <1>1 DEF Turn, Plain
<1>3. FramesLowered'
  BY <1>1, <1>2, NewVar, FramesStay
<1>4. VisLowered'
  BY <1>1 DEF VisLowered, Top, OpenNow
<1> QED
  BY <1>3, <1>4 DEF LowerInv

LEMMA DeclPlainLowered ==
    ASSUME Control, BlockInv, LowerInv, NEW x, DeclPlain(x)
    PROVE  LowerInv'
<1>1. /\ UNCHANGED frames /\ vis' = vis \cup {Declare} /\ Lowered(vis)
      /\ irvar' = Append(irvar, nsym + 1)
  BY AtStmtModes, StmtLowered DEF DeclPlain, Declares
<1>2. nsym + 1 # Null
  BY Sizes DEF Null
<1>3. Turn(Plain) /\ Plain.k = "exp"
  BY <1>1 DEF Turn, Plain
<1>4. FramesLowered'
  BY <1>1, <1>3, NewVar, FramesStay
<1>5. \A v \in vis' : irvar'[v] # Null
  <2>1. /\ irvar'[Declare] = nsym + 1 /\ vis \subseteq 1..Len(irvar)
        /\ \A v \in 1..Len(irvar) : irvar'[v] = irvar[v]
    BY <1>1, NewVar
  <2> QED
    BY <1>1, <1>2, <2>1 DEF Lowered
<1> QED
  BY <1>4, <1>5 DEF LowerInv, VisLowered, Lowered

LEMMA DeclInitLowered ==
    ASSUME Control, BlockInv, LowerInv, NEW x, DeclInit(x)
    PROVE  LowerInv'
<1> DEFINE f == [k |-> "init", var |-> Declare]
<1>1. /\ frames' = Append(frames, f) /\ vis' = vis \cup {Declare} /\ Lowered(vis)
      /\ irvar' = Append(irvar, Null) /\ mode' = "exp"
  BY AtStmtModes, StmtLowered DEF DeclInit, Declares, Evaluate
<1>2. Turn(f) /\ f.k = "init"
  BY <1>1 DEF Turn
<1>3. FramesLowered'
  <2> HIDE DEF f
  <2> QED
    BY <1>1, <1>2, NewVar, FramesStay
<1>4. \E i \in DOMAIN frames' : frames'[i] = f
  <2>1. Len(frames) + 1 \in DOMAIN frames' /\ frames'[Len(frames) + 1] = f
    <3>1. frames \in Seq(FramesNow \cup {f})
      <4>1. FramesNow \subseteq FramesNow \cup {f} /\ frames \in Seq(FramesNow)
        BY DEF Control, Typed, FramesNow
      <4> QED
        BY <4>1, Widened
    <3>2. f \in FramesNow \cup {f}
      OBVIOUS
    <3> HIDE DEF f
    <3> QED
      BY <1>1, <3>1, <3>2, PushGives
  <2> QED
    BY <2>1
<1>5. \A v \in vis' : irvar'[v] # Null \/ v = Declare
  <2>1. /\ vis \subseteq 1..Len(irvar)
        /\ \A v \in 1..Len(irvar) : irvar'[v] = irvar[v]
    BY <1>1, NewVar
  <2> QED
    BY <1>1, <2>1 DEF Lowered
<1>6. \A v \in vis' : irvar'[v] # Null \/ Initializing(v)'
  BY <1>4, <1>5 DEF Initializing
<1> QED
  BY <1>1, <1>3, <1>6 DEF LowerInv, VisLowered

\* The initializer has been visited: its variable gets its symbol.
LEMMA AfterInitLowered ==
    ASSUME Control, LowerInv, AfterInit
    PROVE  LowerInv'
<1>1. /\ frames' = Rest /\ UNCHANGED vis /\ mode = "value" /\ Top.k = "init"
      /\ irvar' = [irvar EXCEPT ![Top.var] = nsym + 1]
  BY DEF AfterInit
<1>2. nsym + 1 # Null /\ irvar \in Seq(0..nsym) /\ vis \subseteq 1..Len(irvar)
  BY Sizes DEF Null, Control, Typed
<1>3. \A v \in 1..Len(irvar) : irvar[v] # Null \/ v = Top.var => irvar'[v] # Null
  BY <1>1, <1>2
<1>4. FramesLowered'
  <2>1. Turn(Plain) /\ Plain.k = "exp" /\ Keeps
    BY <1>1, <1>3 DEF Turn, Plain, Keeps
  <2> QED
    BY <2>1, FramesStay
<1>5. \A v \in vis : irvar[v] # Null \/ v = Top.var
  <2>1. Top.k \in HeadKinds
    BY <1>1 DEF HeadKinds
  <2> QED
    BY <1>1, <2>1, HeadDone
<1>6. \A v \in vis' : irvar'[v] # Null
  BY <1>1, <1>2, <1>3, <1>5
<1> QED
  BY <1>4, <1>6 DEF LowerInv, VisLowered, Lowered

-----------------------------------------------------------------------------
(* LowerInv is an invariant.                                                  *)

LEMMA InitLowered == Init => LowerInv
<1> SUFFICES ASSUME Init PROVE LowerInv
  OBVIOUS
<1>1. /\ frames = <<[k |-> "block", vis |-> {}]>> /\ vis = {} /\ mode = "next"
  BY DEF Init
<1>2. DOMAIN frames = {1} /\ frames[1] = [k |-> "block", vis |-> {}]
  BY <1>1
<1> QED
  BY <1>1, <1>2 DEF LowerInv, FramesLowered, VisLowered, KeepsLowered, Lowered

LEMMA StepLowered == Control /\ BlockInv /\ LowerInv /\ [Next]_vars => LowerInv'
<1> SUFFICES ASSUME Control, BlockInv, LowerInv, [Next]_vars PROVE LowerInv'
  OBVIOUS
<1>1. CASE Statement
  <2>1. ASSUME NEW x, SkipDecl(x) \/ DeclPlain(x) \/ DeclInit(x)
        PROVE  LowerInv'
    BY <2>1, SkipDeclLowered, DeclPlainLowered, DeclInitLowered
  <2> QED
    BY <1>1, <2>1, SkipStmtLowered, StatementLowered, CloseBlockLowered
       DEF Statement
<1>2. CASE Expression
  BY <1>2, ExpressionLowered DEF Expression
<1>3. CASE Continue
  BY <1>3, AfterInitLowered, ContinueLowered, ExpressionLowered DEF Continue
<1>4. CASE UNCHANGED vars
  BY <1>4, SkipStmtLowered
<1> QED
  BY <1>1, <1>2, <1>3, <1>4 DEF Next, Over

LEMMA LowerInvariant == Spec => [](Control /\ BlockInv /\ LowerInv)
<1>1. Init => LowerInv
  BY InitLowered
<1>2. Control /\ BlockInv /\ LowerInv /\ [Next]_vars => LowerInv'
  BY StepLowered
<1> QED
  BY <1>1, <1>2, BlockInvariant, PTL DEF Spec

\* Where code is lowered, every variable the program may use there has its
\* symbol, though declarations behind the end of a block are skipped: they are
\* out of sight again before lowering resumes. Only a variable in its own
\* initializer has none yet.
THEOREM SightedIsLowered == Spec => []VisibleLowered
<1>1. Control /\ BlockInv /\ LowerInv => VisibleLowered
  <2> SUFFICES ASSUME Control, BlockInv, LowerInv, ~blocks[cur].term, NEW v \in vis
               PROVE  irvar[v] # Null \/ Initializing(v)
    BY DEF VisibleLowered
  <2>1. OpenNow
    BY OpenIs DEF Terminated
  <2>2. mode \in Modes
    BY DEF Control, Typed
  <2> QED
    BY <2>1, <2>2 DEF LowerInv, VisLowered, Lowered, Modes
<1> QED
  BY <1>1, LowerInvariant, PTL

-----------------------------------------------------------------------------
(* The table of names.                                                        *)

NameInv ==
    /\ \A n \in 0..(tmps - 1) : Tmp(n) \in DOMAIN symTab
    /\ NamesAgree

LEMMA HeldLatest ==
    ASSUME NameInv, NEW v \in DOMAIN name, irvar[v] # Null, ~NameTaken(v)
    PROVE  Latest(v)
BY DEF NameInv, NamesAgree

LEMMA NameDomain ==
    ASSUME Control
    PROVE  /\ DOMAIN name = 1..Len(irvar) /\ DOMAIN irvar = 1..Len(irvar)
           /\ Len(irvar) \in Nat /\ tmps \in Nat
           /\ irvar \in Seq(0..nsym) /\ name \in Seq(VarNames)
           /\ Len(name) = Len(irvar) /\ vis \subseteq DOMAIN name
BY DEF Control, Typed

\* The table changes at names of temporaries only.
LEMMA NamesStay ==
    ASSUME Control, NameInv, UNCHANGED <<irvar, name>>,
           tmps' \in Nat, tmps <= tmps', DOMAIN symTab \subseteq DOMAIN symTab',
           \A n \in 0..(tmps' - 1) : Tmp(n) \in DOMAIN symTab',
           \A x \in DOMAIN symTab : \/ symTab'[x] = symTab[x]
                                    \/ \E n \in 0..(tmps' - 1) : x = Tmp(n)
    PROVE  NameInv'
<1>1. tmps \in Nat
  BY NameDomain
<1>2. ASSUME NEW v \in DOMAIN name, irvar[v] # Null,
             ~ \E n \in 0..(tmps' - 1) : name[v] = Tmp(n)
      PROVE  Latest(v)'
  <2>1. \A n \in 0..(tmps - 1) : n \in 0..(tmps' - 1)
    <3>1. \A m \in Nat : tmps <= m => \A n \in 0..(tmps - 1) : n \in 0..(m - 1)
      BY <1>1
    <3> QED
      BY <3>1, Zenon
  <2>2. ~NameTaken(v)
    BY <1>2, <2>1 DEF NameTaken
  <2>3. Latest(v)
    BY <1>2, <2>2, HeldLatest
  <2> QED
    BY <1>2, <2>3 DEF Latest
<1>3. NamesAgree'
  BY <1>2 DEF NamesAgree, NameTaken
<1> QED
  BY <1>3 DEF NameInv

LEMMA SameNames ==
    ASSUME Control, NameInv, UNCHANGED <<irvar, name, tmps, symTab>>
    PROVE  NameInv'
BY DEF NameInv, NamesAgree, NameTaken, Latest

LEMMA TmpNamed ==
    ASSUME Control, NameInv, UNCHANGED <<irvar, name>>, NEW s, NewTmp(s)
    PROVE  NameInv'
<1>1. tmps \in Nat /\ tmps' = tmps + 1 /\ symTab' = Put(symTab, Tmp(tmps), s)
  BY NameDomain DEF NewTmp
<1>2. /\ DOMAIN symTab' = DOMAIN symTab \cup {Tmp(tmps)}
      /\ \A x \in DOMAIN symTab : x # Tmp(tmps) => symTab'[x] = symTab[x]
  BY <1>1 DEF Put
<1>3. \A n \in 0..(tmps' - 1) : n = tmps \/ n \in 0..(tmps - 1)
  BY <1>1
<1>4. \A n \in 0..(tmps' - 1) : Tmp(n) \in DOMAIN symTab'
  BY <1>2, <1>3 DEF NameInv
<1>5. tmps \in 0..(tmps' - 1)
  BY <1>1
<1> QED
  BY <1>1, <1>2, <1>4, <1>5, NamesStay

LEMMA AfterLhsNamed ==
    ASSUME Control, NameInv, AfterLhs
    PROVE  NameInv'
<1> DEFINE t == Put(symTab, Tmp(tmps), nsym + 1)
<1>1. /\ tmps \in Nat /\ tmps' = tmps + 2 /\ UNCHANGED <<irvar, name>>
      /\ symTab' = Put(t, Tmp(tmps + 1), nsym + 2)
  BY NameDomain DEF AfterLhs, variables
<1>2. /\ DOMAIN t = DOMAIN symTab \cup {Tmp(tmps)}
      /\ \A x \in DOMAIN symTab : x # Tmp(tmps) => t[x] = symTab[x]
  BY DEF Put
<1>3. /\ DOMAIN symTab' = DOMAIN t \cup {Tmp(tmps + 1)}
      /\ \A x \in DOMAIN t : x # Tmp(tmps + 1) => symTab'[x] = t[x]
  BY <1>1 DEF Put
<1> HIDE DEF t
<1>4. \A n \in 0..(tmps' - 1) : n = tmps \/ n = tmps + 1 \/ n \in 0..(tmps - 1)
  BY <1>1
<1>5. \A n \in 0..(tmps' - 1) : Tmp(n) \in DOMAIN symTab'
  BY <1>2, <1>3, <1>4 DEF NameInv
<1>6. tmps \in 0..(tmps' - 1) /\ tmps + 1 \in 0..(tmps' - 1)
  BY <1>1
<1>7. \A x \in DOMAIN symTab : \/ symTab'[x] = symTab[x]
                               \/ \E n \in 0..(tmps' - 1) : x = Tmp(n)
  BY <1>2, <1>3, <1>6
<1> QED
  BY <1>1, <1>2, <1>3, <1>5, <1>7, NamesStay

\* The symbol of a declared variable, if it gets one, is new, and is entered
\* under its name.
LEMMA DeclareNamed ==
    ASSUME Control, NameInv, NEW x, Declares(x), UNCHANGED tmps,
           NEW s, irvar' = Append(irvar, s),
           \/ s = Null /\ UNCHANGED symTab
           \/ s = nsym + 1 /\ symTab' = Put(symTab, x, s)
    PROVE  NameInv'
<1>1. name' = Append(name, x) /\ Declare = Len(irvar) + 1
  BY DEF Declares, Declare
<1>2. /\ DOMAIN name = 1..Len(irvar) /\ Len(irvar) \in Nat /\ tmps \in Nat
      /\ irvar \in Seq(0..nsym) /\ name \in Seq(VarNames) /\ Len(name) = Len(irvar)
  BY NameDomain
<1>3. /\ DOMAIN name' = DOMAIN name \cup {Declare} /\ Declare \notin DOMAIN name
      /\ \A v \in DOMAIN name : name'[v] = name[v] /\ irvar'[v] = irvar[v]
      /\ name'[Declare] = x /\ irvar'[Declare] = s
  BY <1>1, <1>2
<1>4. /\ s \in Nat /\ nsym \in Nat /\ \A v \in DOMAIN name : irvar[v] \in 0..nsym
      /\ s = Null \/ s = nsym + 1
  BY <1>2, Sizes DEF Null
<1>5. /\ DOMAIN symTab \subseteq DOMAIN symTab'
      /\ \A y \in DOMAIN symTab : y # x => symTab'[y] = symTab[y]
      /\ s = Null \/ (x \in DOMAIN symTab' /\ symTab'[x] = s)
  <2>1. /\ DOMAIN Put(symTab, x, s) = DOMAIN symTab \cup {x}
        /\ Put(symTab, x, s)[x] = s
        /\ \A y \in DOMAIN symTab : y # x => Put(symTab, x, s)[y] = symTab[y]
    BY DEF Put
  <2>2. CASE symTab' = Put(symTab, x, s)
    <3>1. x \in DOMAIN symTab \cup {x} /\ DOMAIN symTab \subseteq DOMAIN symTab \cup {x}
      OBVIOUS
    <3> QED
      BY <2>1, <2>2, <3>1, Zenon
  <2>3. CASE s = Null /\ UNCHANGED symTab
    BY <2>3
  <2> QED
    BY <2>2, <2>3
<1>6. \A n \in 0..(tmps' - 1) : Tmp(n) \in DOMAIN symTab'
  BY <1>5 DEF NameInv
<1>7. ASSUME NEW v \in DOMAIN name'
      PROVE  \/ irvar'[v] = Null
             \/ \E n \in 0..(tmps' - 1) : name'[v] = Tmp(n)
             \/ Latest(v)'
  <2>1. CASE name'[v] = x /\ s # Null
    <3>1. irvar'[v] <= s
      <4>1. CASE v \in DOMAIN name
        <5>1. irvar'[v] = irvar[v] /\ irvar[v] \in 0..nsym
          BY <1>3, <1>4, <4>1
        <5>2. s = nsym + 1
          BY <1>4, <2>1
        <5> QED
          BY <1>4, <5>1, <5>2
      <4>2. CASE v = Declare
        <5>1. irvar'[v] = s
          BY <1>3, <4>2
        <5> QED
          BY <1>4, <5>1
      <4> QED
        BY <1>3, <4>1, <4>2
    <3>2. /\ Declare \in DOMAIN name' /\ name'[Declare] = name'[v]
          /\ irvar'[Declare] = symTab'[name'[v]] /\ name'[v] \in DOMAIN symTab'
      BY <1>3, <1>5, <2>1
    <3>3. irvar'[Declare] >= irvar'[v]
      BY <1>3, <1>4, <3>1
    <3> QED
      BY <3>2, <3>3 DEF Latest
  <2>2. CASE v \in DOMAIN name /\ (name'[v] # x \/ s = Null)
    <3>1. SUFFICES ASSUME irvar[v] # Null, ~NameTaken(v)
                   PROVE  Latest(v)'
      BY <1>3, <2>2 DEF NameTaken
    <3>2. PICK u \in DOMAIN name : /\ name[u] = name[v] /\ irvar[u] >= irvar[v]
                                   /\ irvar[u] = symTab[name[v]]
      BY <2>2, <3>1, HeldLatest DEF Latest
    <3>3. name[v] \in DOMAIN symTab
      BY <2>2, <3>1, HeldLatest DEF Latest
    <3>4. name'[v] \in DOMAIN symTab' /\ symTab'[name'[v]] = symTab[name[v]]
      <4>1. name'[v] = name[v] /\ name[v] \in DOMAIN symTab'
        BY <1>3, <1>5, <2>2, <3>3
      <4>2. CASE name[v] # x
        BY <1>5, <3>3, <4>1, <4>2
      <4>3. CASE s = Null
        BY <1>4, <4>1, <4>3 DEF Null
      <4> QED
        BY <2>2, <4>1, <4>2, <4>3
    <3>5. /\ u \in DOMAIN name' /\ name'[u] = name'[v]
          /\ irvar'[u] >= irvar'[v] /\ irvar'[u] = symTab'[name'[v]]
      BY <1>3, <2>2, <3>2, <3>4
    <3> QED
      BY <3>4, <3>5 DEF Latest
  <2>3. CASE v = Declare /\ s = Null
    BY <1>3, <2>3
  <2> QED
    BY <1>3, <2>1, <2>2, <2>3
<1>8. NamesAgree'
  BY <1>7 DEF NamesAgree, NameTaken
<1> QED
  BY <1>6, <1>8 DEF NameInv

\* The symbol of an initialized variable is entered under its name.
LEMMA AfterInitNamed ==
    ASSUME Control, NameInv, AfterInit
    PROVE  NameInv'
<1> DEFINE s == nsym + 1
           u == Top.var
<1>1. /\ UNCHANGED <<name, tmps>> /\ irvar' = [irvar EXCEPT ![u] = s]
      /\ symTab' = Put(symTab, name[u], s) /\ mode = "value" /\ Top.k = "init"
  BY DEF AfterInit, AddVar
<1>2. /\ DOMAIN name = 1..Len(irvar) /\ irvar \in Seq(0..nsym)
  BY NameDomain
<1>3. u \in DOMAIN name
  <2>1. Top \in Frames(nsym, Len(irvar), Len(blocks))
    BY <1>1, TopFrame DEF FramesNow
  <2> QED
    BY <1>1, <1>2, <2>1, FrameFields
<1>4. /\ irvar'[u] = s /\ \A v \in DOMAIN name : v # u => irvar'[v] = irvar[v]
      /\ \A v \in DOMAIN name : irvar'[v] \in Nat /\ irvar'[v] <= s
  <2>1. /\ irvar'[u] = s /\ \A v \in DOMAIN name : v # u => irvar'[v] = irvar[v]
    BY <1>1, <1>2, <1>3
  <2>2. nsym \in Nat /\ s = nsym + 1 /\ \A v \in DOMAIN name : irvar[v] \in 0..nsym
    BY <1>2, Sizes
  <2> HIDE DEF s, u
  <2> QED
    BY <2>1, <2>2
<1> HIDE DEF s, u
<1>5. /\ DOMAIN symTab' = DOMAIN symTab \cup {name[u]} /\ symTab'[name[u]] = s
      /\ \A y \in DOMAIN symTab : y # name[u] => symTab'[y] = symTab[y]
  BY <1>1 DEF Put
<1>6. ASSUME NEW v \in DOMAIN name
      PROVE  \/ irvar'[v] = Null
             \/ \E n \in 0..(tmps - 1) : name[v] = Tmp(n)
             \/ Latest(v)'
  <2>1. CASE name[v] = name[u]
    <3>1. irvar'[u] >= irvar'[v] /\ irvar'[u] = symTab'[name[v]]
      BY <1>4, <1>5, <2>1
    <3>2. name[v] \in DOMAIN symTab'
      BY <1>5, <2>1
    <3> QED
      BY <1>1, <1>3, <2>1, <3>1, <3>2 DEF Latest
  <2>2. CASE name[v] # name[u]
    <3>1. v # u /\ irvar'[v] = irvar[v]
      BY <1>4, <2>2
    <3>2. SUFFICES ASSUME irvar[v] # Null, ~NameTaken(v)
                   PROVE  Latest(v)'
      BY <3>1 DEF NameTaken
    <3>3. PICK w \in DOMAIN name : /\ name[w] = name[v] /\ irvar[w] >= irvar[v]
                                   /\ irvar[w] = symTab[name[v]]
      BY <3>2, HeldLatest DEF Latest
    <3>4. name[v] \in DOMAIN symTab /\ w # u
      BY <2>2, <3>2, <3>3, HeldLatest DEF Latest
    <3>5. name[v] \in DOMAIN symTab' /\ symTab'[name[v]] = symTab[name[v]]
      BY <1>5, <2>2, <3>4
    <3>6. irvar'[w] >= irvar'[v] /\ irvar'[w] = symTab'[name[v]]
      BY <1>4, <3>1, <3>3, <3>4, <3>5
    <3> QED
      BY <1>1, <3>3, <3>5, <3>6 DEF Latest
  <2> QED
    BY <2>1, <2>2
<1>7. NamesAgree'
  BY <1>1, <1>6 DEF NamesAgree, NameTaken
<1> QED
  BY <1>1, <1>5, <1>7 DEF NameInv

LEMMA ReturnNamed ==
    ASSUME Control, NameInv, NEW v, StoreAndLeave(v), UNCHANGED <<irvar, name>>
    PROVE  NameInv'
<1>1. CASE slot = Null
  <2>1. NewTmp(nsym + 2)
    BY <1>1 DEF StoreAndLeave
  <2> QED
    BY <2>1, TmpNamed
<1>2. CASE slot # Null
  <2>1. UNCHANGED <<tmps, symTab>>
    BY <1>2 DEF StoreAndLeave, symbols
  <2> QED
    BY <2>1, SameNames
<1> QED
  BY <1>1, <1>2

LEMMA InitNamed == Init => NameInv
<1> SUFFICES ASSUME Init PROVE NameInv
  OBVIOUS
<1>1. name = <<>> /\ tmps = 0
  BY DEF Init
<1>2. DOMAIN name = {} /\ 0..(tmps - 1) = {}
  BY <1>1
<1> QED
  BY <1>2 DEF NameInv, NamesAgree

LEMMA StepNamed == Control /\ NameInv /\ [Next]_vars => NameInv'
<1> SUFFICES ASSUME Control, NameInv, [Next]_vars PROVE NameInv'
  OBVIOUS
<1>1. CASE Statement
  <2>1. ASSUME NEW x, SkipDecl(x) \/ DeclInit(x)
        PROVE  NameInv'
    <3>1. /\ Declares(x) /\ UNCHANGED <<tmps, symTab>>
          /\ irvar' = Append(irvar, Null)
      BY <2>1 DEF SkipDecl, DeclInit, symbols
    <3> QED
      BY <3>1, DeclareNamed
  <2>2. ASSUME NEW x, DeclPlain(x)
        PROVE  NameInv'
    <3>1. /\ Declares(x) /\ UNCHANGED tmps /\ irvar' = Append(irvar, nsym + 1)
          /\ symTab' = Put(symTab, x, nsym + 1)
      BY <2>2 DEF DeclPlain
    <3> QED
      BY <3>1, DeclareNamed
  <2>3. CASE ReturnVoid
    BY <2>3, ReturnNamed DEF ReturnVoid, variables
  <2>4. CASE SkipStmt \/ OpenBlock \/ CloseBlock \/ ExpStmt \/ ReturnExp \/ IfEmpty
    <3>1. UNCHANGED <<irvar, name, tmps, symTab>>
      BY <2>4 DEF SkipStmt, OpenBlock, CloseBlock, ExpStmt, ReturnExp, IfEmpty,
         symbols, variables
    <3> QED
      BY <3>1, SameNames
  <2>5. ASSUME NEW v, Assign(v)
        PROVE  NameInv'
    BY <2>5, SameNames DEF Assign, symbols, variables
  <2>6. ASSUME NEW then, NEW else, If(then, else)
        PROVE  NameInv'
    <3>1. UNCHANGED <<irvar, name, tmps, symTab>>
      BY <2>6, Zenon DEF If, symbols, variables
    <3> QED
      BY <3>1, SameNames
  <2>7. ASSUME NEW b, While(b) \/ BreakOrContinue(b)
        PROVE  NameInv'
    <3>1. UNCHANGED <<irvar, name, tmps, symTab>>
      BY <2>7 DEF While, BreakOrContinue, symbols, variables
    <3> QED
      BY <3>1, SameNames
  <2> QED
    BY <1>1, <2>1, <2>2, <2>3, <2>4, <2>5, <2>6, <2>7 DEF Statement
<1>2. CASE Expression
  <2>1. CASE Number \/ UnboundLVal \/ Binary \/ Logical \/ \E op : Unary(op)
    <3>1. UNCHANGED <<irvar, name, tmps, symTab>>
      BY <2>1 DEF Number, UnboundLVal, Binary, Logical, Unary, Operation, symbols, variables
    <3> QED
      BY <3>1, SameNames
  <2>2. ASSUME NEW v, LVal(v)
        PROVE  NameInv'
    <3>1. /\ UNCHANGED <<irvar, name>>
          /\ UNCHANGED <<tmps, symTab>> \/ NewTmp(nsym + 1)
      BY <2>2 DEF LVal, symbols, variables
    <3> QED
      BY <3>1, SameNames, TmpNamed
  <2> QED
    BY <1>2, <2>1, <2>2 DEF Expression
<1>3. CASE Continue
  <2>1. CASE AfterExpStmt \/ AfterAssign \/ AfterIfCond \/ AfterThen \/ AfterElse
             \/ AfterWhileCond \/ AfterBody \/ AfterOpnd1
    <3>1. UNCHANGED <<irvar, name, tmps, symTab>>
      BY <2>1 DEF AfterExpStmt, AfterAssign, AfterIfCond, AfterThen, AfterElse,
         AfterWhileCond, AfterBody, AfterOpnd1, symbols, variables
    <3> QED
      BY <3>1, SameNames
  <2>2. CASE AfterUnary \/ AfterOpnd2 \/ AfterRhs
    <3>1. /\ UNCHANGED <<irvar, name>>
          /\ UNCHANGED <<tmps, symTab>> \/ NewTmp(nsym + 1)
      BY <2>2 DEF AfterUnary, AfterOpnd2, AfterRhs, symbols, variables
    <3> QED
      BY <3>1, SameNames, TmpNamed
  <2>3. CASE AfterReturnExp
    BY <2>3, ReturnNamed DEF AfterReturnExp, variables
  <2> QED
    BY <1>3, <2>1, <2>2, <2>3, AfterInitNamed, AfterLhsNamed DEF Continue
<1>4. CASE UNCHANGED vars
  BY <1>4, SameNames DEF vars
<1> QED
  BY <1>1, <1>2, <1>3, <1>4 DEF Next, Over

LEMMA NameInvariant == Spec => [](Control /\ BlockInv /\ LowerInv /\ NameInv)
<1>1. Init => NameInv
  BY InitNamed
<1>2. Control /\ NameInv /\ [Next]_vars => NameInv'
  BY StepNamed
<1> QED
  BY <1>1, <1>2, LowerInvariant, PTL DEF Spec

\* An assignment, which looks its variable up by name, writes the symbol of the
\* variable of that name lowered last, unless a temporary has been made under
\* the name: the very symbol that a use of the variable reads, when the renaming
\* has given the name to no other variable.
THEOREM AssignmentsFindTheVariable == Spec => []NamesAgree
<1>1. NameInv => NamesAgree
  BY DEF NameInv
<1> QED
  BY <1>1, NameInvariant, PTL

-----------------------------------------------------------------------------
(* The walk stops at a null pointer only.                                     *)

LEMMA CrashStep ==
    ASSUME Control, BlockInv, LowerInv, NameInv, [Next]_vars
    PROVE  WalkStops
<1> SUFFICES ASSUME mode # "crash", mode' = "crash"
             PROVE  \/ mode = "value" /\ Top.k = "if" /\ ~Top.then
                    \/ mode = "exp" /\ \E v \in vis : Initializing(v)
                    \/ /\ mode = "exp" /\ "unbound" \in Exprs
                       /\ \A v \in vis : irvar[v] # Null
  BY DEF WalkStops
<1>1. CASE UNCHANGED vars
  BY <1>1 DEF vars
<1>2. ASSUME NEW v \in vis, LVal(v)
      PROVE  mode = "exp" /\ \E w \in vis : Initializing(w)
  <2>1. irvar[v] = Null /\ mode = "exp"
    BY <1>2 DEF LVal, AtExp
  <2> QED
    BY <2>1 DEF LowerInv, VisLowered
<1>3. CASE UnboundLVal
  <2>1. mode = "exp" /\ "unbound" \in Exprs
    BY <1>3 DEF UnboundLVal, AtExp
  <2>2. \A v \in vis : irvar[v] # Null \/ Initializing(v)
    BY <2>1 DEF LowerInv, VisLowered
  <2> QED
    BY <2>1, <2>2
<1>4. CASE AfterIfCond
  BY <1>4, Zenon DEF AfterIfCond
<1>5. CASE AfterAssign
  <2> DEFINE v == Top.var
  <2>1. name[v] \notin DOMAIN symTab /\ Top.k = "assign" /\ mode = "value"
    BY <1>5 DEF AfterAssign
  <2>2. irvar[v] # Null /\ v \in DOMAIN name
    <3>1. Top \in Frames(nsym, Len(irvar), Len(blocks)) /\ KeepsLowered(Top)
      BY <2>1, TopFrame DEF LowerInv, FramesLowered, FramesNow
    <3> QED
      BY <2>1, <3>1, FrameFields, NameDomain DEF KeepsLowered
  <2>3. NameTaken(v)
    BY <2>1, <2>2, HeldLatest DEF Latest
  <2> QED
    BY <2>1, <2>3 DEF NameTaken, NameInv
<1>6. CASE AfterRhs
  <2>1. Terminated /\ mode = "value"
    BY <1>6 DEF AfterRhs
  <2> QED
    BY <2>1, OpenIs
<1>7. CASE Statement
  BY <1>7, Zenon DEF Statement, SkipStmt, OpenBlock, CloseBlock, SkipDecl, DeclPlain,
     DeclInit, ExpStmt, ReturnVoid, ReturnExp, IfEmpty, Assign, If, While,
     BreakOrContinue, Evaluate, StoreAndLeave, AtItem
<1>8. CASE Expression /\ ~UnboundLVal /\ ~ \E v \in vis : LVal(v)
  BY <1>8 DEF Expression, Number, Binary, Logical, Unary, Operation, Evaluate
<1>9. CASE /\ Continue
           /\ ~AfterIfCond /\ ~AfterAssign /\ ~AfterRhs
  BY <1>9 DEF Continue, AfterInit, AfterExpStmt, AfterReturnExp, AfterThen,
     AfterElse, AfterWhileCond, AfterBody, AfterUnary, AfterOpnd1, AfterOpnd2,
     AfterLhs, StoreAndLeave
<1> QED
  BY <1>1, <1>2, <1>3, <1>4, <1>5, <1>6, <1>7, <1>8, <1>9 DEF Next, Over

\* The walk ends early only where it goes through a null pointer: at an if with
\* an else whose first branch is the empty statement, at a variable read in its
\* own initializer, and at a use the passes before have left unbound. A variable
\* that is bound is never missed, a name an assignment looks up is always found,
\* and no operand of a logical operator ends its block.
THEOREM WalkStopsOnlyThere == Spec => CrashesKnown
<1>1. Control /\ BlockInv /\ LowerInv /\ NameInv /\ [Next]_vars => [WalkStops]_vars
  BY CrashStep
<1> QED
  BY <1>1, NameInvariant, PTL DEF Spec, CrashesKnown
=============================================================================
