---------------------------- MODULE GenIRFlowProofs ----------------------------
(* The symbols that GenIR's instructions use: on every way through the         *)
(* function they have been defined before.                                     *)
EXTENDS GenIRBlockProofs, WellFoundedInduction, NaturalsInduction

-----------------------------------------------------------------------------
(* Code, and the symbols and blocks it names.                                 *)

\* The symbols code defines, and the blocks it may go on to.
Made(q) == {q[i].def : i \in DOMAIN q}
GoesTo(q) == UNION {{q[i].to[k] : k \in DOMAIN q[i].to} : i \in DOMAIN q}

\* Every use is of a symbol of S, or of one that is defined before it. An end
\* defines nothing.
UsesDefined(q, S) ==
    \A i \in DOMAIN q : \A s \in Used(q[i]) :
        s \in S \/ \E j \in 1..(i - 1) : q[j].def = s
EndsQuiet(q) == \A i \in DOMAIN q : IsEnd(q[i]) => q[i].def = Null

\* A piece of code that may be put where the symbols of S are defined, and goes
\* to blocks of T only.
Piece(q, S, T) == UsesDefined(q, S) /\ EndsQuiet(q) /\ GoesTo(q) \subseteq T

LEMMA MadeConcat ==
    ASSUME NEW I, NEW q \in Seq(I), NEW seq \in Seq(I)
    PROVE  /\ Made(q \o seq) = Made(q) \cup Made(seq)
           /\ GoesTo(q \o seq) = GoesTo(q) \cup GoesTo(seq)
<1> DEFINE c == q \o seq
           n == Len(q)
           m == Len(seq)
<1>1. /\ n \in Nat /\ m \in Nat /\ DOMAIN q = 1..n /\ DOMAIN seq = 1..m
      /\ DOMAIN c = 1..n + m
      /\ \A i \in 1..n : c[i] = q[i]
      /\ \A i \in 1..m : c[n + i] = seq[i]
      /\ \A i \in 1..n + m : i \in 1..n \/ \E j \in 1..m : i = n + j
  BY ConcatGives
<1> HIDE DEF c, n, m
<1>2. (\A i \in 1..n : i \in 1..n + m) /\ \A i \in 1..m : n + i \in 1..n + m
  <2>1. n \in Nat /\ m \in Nat
    BY <1>1, Zenon
  <2> QED
    BY <2>1
<1>3. \A x : (\E i \in DOMAIN c : c[i] = x) <=>
                 (\E i \in DOMAIN q : q[i] = x) \/ \E i \in DOMAIN seq : seq[i] = x
  <2>1. ASSUME NEW i \in DOMAIN c
        PROVE  (\E j \in DOMAIN q : q[j] = c[i]) \/ \E j \in DOMAIN seq : seq[j] = c[i]
    <3>1. i \in 1..n \/ \E j \in 1..m : i = n + j
      BY <1>1, Zenon
    <3>2. CASE i \in 1..n
      BY <1>1, <3>2, Zenon
    <3>3. ASSUME NEW j \in 1..m, i = n + j
          PROVE  \E l \in DOMAIN seq : seq[l] = c[i]
      <4>1. j \in DOMAIN seq /\ seq[j] = c[i]
        BY <1>1, <3>3, Zenon
      <4> QED
        BY <4>1
    <3> QED
      BY <3>1, <3>2, <3>3, Zenon
  <2>2. ASSUME NEW i \in DOMAIN q
        PROVE  i \in DOMAIN c /\ c[i] = q[i]
    BY <1>1, <1>2
  <2>3. ASSUME NEW i \in DOMAIN seq
        PROVE  n + i \in DOMAIN c /\ c[n + i] = seq[i]
    BY <1>1, <1>2
  <2> QED
    BY <2>1, <2>2, <2>3
<1> DEFINE In(p, x) == \E i \in DOMAIN p : p[i] = x
<1>4. \A x : In(c, x) <=> In(q, x) \/ In(seq, x)
  BY <1>3
<1>5. ASSUME NEW s
      PROVE  s \in Made(c) <=> s \in Made(q) \/ s \in Made(seq)
  <2>1. \A p : s \in Made(p) <=> \E x : s = x.def /\ In(p, x)
    BY DEF Made
  <2> HIDE DEF In
  <2>2. (\E x : s = x.def /\ In(c, x)) <=>
           (\E x : s = x.def /\ In(q, x)) \/ \E x : s = x.def /\ In(seq, x)
    BY <1>4
  <2> QED
    BY <2>1, <2>2
<1>6. ASSUME NEW t
      PROVE  t \in GoesTo(c) <=> t \in GoesTo(q) \/ t \in GoesTo(seq)
  <2> DEFINE Leads(x) == \E k \in DOMAIN x.to : t = x.to[k]
  <2>1. \A p : t \in GoesTo(p) <=> \E x : Leads(x) /\ In(p, x)
    BY DEF GoesTo
  <2> HIDE DEF Leads, In
  <2>2. (\E x : Leads(x) /\ In(c, x)) <=>
           (\E x : Leads(x) /\ In(q, x)) \/ \E x : Leads(x) /\ In(seq, x)
    BY <1>4
  <2> QED
    BY <2>1, <2>2
<1> QED
  BY <1>5, <1>6 DEF c

\* Code may be put behind code that defines what it uses.
LEMMA PieceConcat ==
    ASSUME NEW I, NEW q \in Seq(I), NEW seq \in Seq(I), NEW S,
           UsesDefined(q, S), EndsQuiet(q),
           UsesDefined(seq, S \cup Made(q)), EndsQuiet(seq)
    PROVE  UsesDefined(q \o seq, S) /\ EndsQuiet(q \o seq)
<1> DEFINE c == q \o seq
           n == Len(q)
           m == Len(seq)
<1>1. /\ n \in Nat /\ m \in Nat /\ DOMAIN q = 1..n /\ DOMAIN seq = 1..m
      /\ DOMAIN c = 1..n + m
      /\ \A i \in 1..n : c[i] = q[i]
      /\ \A i \in 1..m : c[n + i] = seq[i]
      /\ \A i \in 1..n + m : i \in 1..n \/ \E j \in 1..m : i = n + j
  BY ConcatGives
<1> HIDE DEF c, n, m
<1>2. EndsQuiet(c)
  <2> SUFFICES ASSUME NEW i \in DOMAIN c, IsEnd(c[i])
               PROVE  c[i].def = Null
    BY DEF EndsQuiet
  <2>1. CASE i \in 1..n
    BY <1>1, <2>1 DEF EndsQuiet
  <2>2. ASSUME NEW j \in 1..m, i = n + j
        PROVE  c[i].def = Null
    <3>1. j \in DOMAIN seq /\ c[i] = seq[j]
      BY <1>1, <2>2
    <3> QED
      BY <3>1, Zenon DEF EndsQuiet
  <2> QED
    BY <1>1, <2>1, <2>2
<1>3. ASSUME NEW i \in DOMAIN c, NEW s \in Used(c[i])
      PROVE  s \in S \/ \E j \in 1..(i - 1) : c[j].def = s
  <2>1. CASE i \in 1..n
    <3>1. s \in S \/ \E j \in 1..(i - 1) : q[j].def = s
      BY <1>1, <1>3, <2>1 DEF UsesDefined
    <3>2. \A j \in 1..(i - 1) : j \in 1..n
      BY <1>1, <2>1
    <3> QED
      BY <1>1, <3>1, <3>2
  <2>2. ASSUME NEW k \in 1..m, i = n + k
        PROVE  s \in S \/ \E j \in 1..(i - 1) : c[j].def = s
    <3>1. s \in S \cup Made(q) \/ \E j \in 1..(k - 1) : seq[j].def = s
      BY <1>1, <1>3, <2>2 DEF UsesDefined
    <3>2. CASE s \in Made(q)
      <4>1. PICK j \in 1..n : q[j].def = s
        BY <1>1, <3>2 DEF Made
      <4>2. j \in 1..(i - 1) /\ c[j].def = s
        BY <1>1, <2>2, <4>1
      <4> QED
        BY <4>2
    <3>3. ASSUME NEW j \in 1..(k - 1), seq[j].def = s
          PROVE  \E l \in 1..(i - 1) : c[l].def = s
      <4>1. j \in 1..m /\ n + j \in 1..(i - 1)
        BY <1>1, <2>2
      <4>2. c[n + j].def = s
        BY <1>1, <3>3, <4>1
      <4> QED
        BY <4>1, <4>2
    <3> QED
      BY <3>1, <3>2, <3>3
  <2> QED
    BY <1>1, <2>1, <2>2
<1> QED
  BY <1>2, <1>3 DEF UsesDefined, c

\* What the symbols of S define, those of a larger set do.
LEMMA PieceWider ==
    ASSUME NEW q, NEW S, NEW T, S \subseteq T, UsesDefined(q, S)
    PROVE  UsesDefined(q, T)
  BY DEF UsesDefined

\* An operand that is no symbol, or one of S.
Operand(v, S) == v \in S \cup {Literal, Undef}

\* What each instruction uses and where it goes.
LEMMA UsedBy ==
    ASSUME NEW S
    PROVE  /\ \A s : Used(Alloc(s)) = {} /\ Alloc(s).def = s /\ Alloc(s).to = <<>>
           /\ \A v, s : /\ Operand(v, S) /\ Operand(s, S) => Used(Store(v, s)) \subseteq S
                        /\ Store(v, s).to = <<>>
           /\ \A s, f : /\ Operand(f, S) => Used(Load(s, f)) \subseteq S
                        /\ Load(s, f).def = s /\ Load(s, f).to = <<>>
           /\ \A s, v, w : /\ Operand(v, S) /\ Operand(w, S) =>
                                 Used(BExpr(s, v, w)) \subseteq S
                           /\ BExpr(s, v, w).def = s /\ BExpr(s, v, w).to = <<>>
           /\ \A v, t, f : /\ Operand(v, S) => Used(Br(v, t, f)) \subseteq S
                           /\ Br(v, t, f).def = Null /\ Br(v, t, f).to = <<t, f>>
           /\ \A b : Used(Jump(b)) = {} /\ Jump(b).def = Null /\ Jump(b).to = <<b>>
           /\ \A s : /\ Operand(s, S) => Used(Ret(s)) \subseteq S
                     /\ Ret(s).def = Null /\ Ret(s).to = <<>>
<1>1. ASSUME NEW v, NEW w, NEW ins
      PROVE  /\ ins.args = <<>> => Used(ins) = {}
             /\ ins.args = <<v>> /\ Operand(v, S) => Used(ins) \subseteq S
             /\ ins.args = <<v, w>> /\ Operand(v, S) /\ Operand(w, S) =>
                   Used(ins) \subseteq S
  BY DEF Used, Operand
<1>2. \A s : Alloc(s).args = <<>> /\ Alloc(s).def = s /\ Alloc(s).to = <<>>
  BY DEF Alloc, Instr
<1>3. \A v, s : Store(v, s).args = <<v, s>> /\ Store(v, s).to = <<>>
  BY DEF Store, Instr
<1>4. \A s, f : Load(s, f).args = <<f>> /\ Load(s, f).def = s /\ Load(s, f).to = <<>>
  BY DEF Load, Instr
<1>5. \A s, v, w : /\ BExpr(s, v, w).args = <<v, w>> /\ BExpr(s, v, w).def = s
                   /\ BExpr(s, v, w).to = <<>>
  BY DEF BExpr, Instr
<1>6. \A v, t, f : /\ Br(v, t, f).args = <<v>> /\ Br(v, t, f).def = Null
                   /\ Br(v, t, f).to = <<t, f>>
  BY DEF Br, Instr
<1>7. \A b : Jump(b).args = <<>> /\ Jump(b).def = Null /\ Jump(b).to = <<b>>
  BY DEF Jump, Instr
<1>8. \A s : Ret(s).args = <<s>> /\ Ret(s).def = Null /\ Ret(s).to = <<>>
  BY DEF Ret, Instr
<1>9. \A s : Used(Alloc(s)) = {}
  BY <1>1, <1>2
<1>10. \A v, s : Operand(v, S) /\ Operand(s, S) => Used(Store(v, s)) \subseteq S
  BY <1>1, <1>3
<1>11. \A s, f : Operand(f, S) => Used(Load(s, f)) \subseteq S
  BY <1>1, <1>4
<1>12. \A s, v, w : Operand(v, S) /\ Operand(w, S) => Used(BExpr(s, v, w)) \subseteq S
  BY <1>1, <1>5
<1>13. \A v, t, f : Operand(v, S) => Used(Br(v, t, f)) \subseteq S
  BY <1>1, <1>6
<1>14. \A b : Used(Jump(b)) = {}
  BY <1>1, <1>7
<1>15. \A s : Operand(s, S) => Used(Ret(s)) \subseteq S
  BY <1>1, <1>8
<1> QED
  BY <1>2, <1>3, <1>4, <1>5, <1>6, <1>7, <1>8, <1>9, <1>10, <1>11, <1>12, <1>13,
     <1>14, <1>15

\* An instruction that uses symbols of S only, defines nothing if it is an end,
\* and goes to blocks of T.
Fits(x, S, T) ==
    /\ Used(x) \subseteq S /\ (IsEnd(x) => x.def = Null)
    /\ \A k \in DOMAIN x.to : x.to[k] \in T

\* Short pieces of code.
LEMMA PieceOf1 ==
    ASSUME NEW x, NEW S, NEW T, Fits(x, S, T)
    PROVE  Piece(<<x>>, S, T) /\ Made(<<x>>) = {x.def}
<1> DEFINE q == <<x>>
<1>1. DOMAIN q = {1} /\ q[1] = x
  OBVIOUS
<1> HIDE DEF q
<1>2. UsesDefined(q, S) /\ EndsQuiet(q)
  BY <1>1 DEF Fits, UsesDefined, EndsQuiet
<1>3. GoesTo(q) \subseteq T /\ Made(q) = {x.def}
  BY <1>1 DEF Fits, GoesTo, Made
<1> QED
  BY <1>2, <1>3 DEF Piece, q

LEMMA PieceOf2 ==
    ASSUME NEW x, NEW y, NEW S, NEW T, Fits(x, S, T), Fits(y, S \cup {x.def}, T)
    PROVE  Piece(<<x, y>>, S, T) /\ {x.def, y.def} = Made(<<x, y>>)
<1> DEFINE q == <<x, y>>
<1>1. DOMAIN q = {1, 2} /\ q[1] = x /\ q[2] = y /\ 1 \in 1..(2 - 1)
  OBVIOUS
<1> HIDE DEF q
<1>2. EndsQuiet(q) /\ GoesTo(q) \subseteq T /\ {x.def, y.def} = Made(q)
  BY <1>1 DEF Fits, EndsQuiet, GoesTo, Made
<1>3. UsesDefined(q, S)
  <2> SUFFICES ASSUME NEW i \in DOMAIN q, NEW s \in Used(q[i]), s \notin S
               PROVE  \E j \in 1..(i - 1) : q[j].def = s
    BY DEF UsesDefined
  <2>1. i = 2 /\ s = x.def
    BY <1>1 DEF Fits
  <2> QED
    BY <1>1, <2>1
<1> QED
  BY <1>2, <1>3 DEF Piece, q

LEMMA PieceOf3 ==
    ASSUME NEW x, NEW y, NEW z, NEW S, NEW T, Fits(x, S, T),
           Fits(y, S \cup {x.def}, T), Fits(z, S \cup {x.def, y.def}, T)
    PROVE  Piece(<<x, y, z>>, S, T) /\ {x.def, y.def, z.def} = Made(<<x, y, z>>)
<1> DEFINE q == <<x, y, z>>
<1>1. /\ DOMAIN q = {1, 2, 3} /\ q[1] = x /\ q[2] = y /\ q[3] = z
      /\ 1 \in 1..(2 - 1) /\ {1, 2} \subseteq 1..(3 - 1)
  OBVIOUS
<1> HIDE DEF q
<1>2. EndsQuiet(q) /\ GoesTo(q) \subseteq T /\ {x.def, y.def, z.def} = Made(q)
  BY <1>1 DEF Fits, EndsQuiet, GoesTo, Made
<1>3. UsesDefined(q, S)
  <2> SUFFICES ASSUME NEW i \in DOMAIN q, NEW s \in Used(q[i]), s \notin S
               PROVE  \E j \in 1..(i - 1) : q[j].def = s
    BY DEF UsesDefined
  <2>1. \/ i = 2 /\ s = x.def
        \/ i = 3 /\ s \in {x.def, y.def}
    BY <1>1 DEF Fits
  <2> QED
    BY <1>1, <2>1
<1> QED
  BY <1>2, <1>3 DEF Piece, q

LEMMA PieceOf4 ==
    ASSUME NEW w, NEW x, NEW y, NEW z, NEW S, NEW T, Fits(w, S, T),
           Fits(x, S \cup {w.def}, T), Fits(y, S \cup {w.def, x.def}, T),
           Fits(z, S \cup {w.def, x.def, y.def}, T)
    PROVE  /\ Piece(<<w, x, y, z>>, S, T)
           /\ {w.def, x.def, y.def, z.def} = Made(<<w, x, y, z>>)
<1> DEFINE q == <<w, x, y, z>>
<1>1. /\ DOMAIN q = {1, 2, 3, 4} /\ q[1] = w /\ q[2] = x /\ q[3] = y /\ q[4] = z
      /\ 1 \in 1..(2 - 1) /\ {1, 2} \subseteq 1..(3 - 1)
      /\ {1, 2, 3} \subseteq 1..(4 - 1)
  OBVIOUS
<1> HIDE DEF q
<1>2. EndsQuiet(q) /\ GoesTo(q) \subseteq T /\ {w.def, x.def, y.def, z.def} = Made(q)
  BY <1>1 DEF Fits, EndsQuiet, GoesTo, Made
<1>3. UsesDefined(q, S)
  <2> SUFFICES ASSUME NEW i \in DOMAIN q, NEW s \in Used(q[i]), s \notin S
               PROVE  \E j \in 1..(i - 1) : q[j].def = s
    BY DEF UsesDefined
  <2>1. \/ i = 2 /\ s = w.def
        \/ i = 3 /\ s \in {w.def, x.def}
        \/ i = 4 /\ s \in {w.def, x.def, y.def}
    BY <1>1 DEF Fits
  <2> QED
    BY <1>1, <2>1
<1> QED
  BY <1>2, <1>3 DEF Piece, q

\* The instructions fit where their operands are defined.
LEMMA FitsHere ==
    ASSUME NEW S, NEW T
    PROVE  /\ \A s : Fits(Alloc(s), S, T) /\ Alloc(s).def = s
           /\ \A v, s : Operand(v, S) /\ Operand(s, S) => Fits(Store(v, s), S, T)
           /\ \A s, f : /\ Operand(f, S) => Fits(Load(s, f), S, T)
                        /\ Load(s, f).def = s
           /\ \A s, v, w : /\ Operand(v, S) /\ Operand(w, S) => Fits(BExpr(s, v, w), S, T)
                           /\ BExpr(s, v, w).def = s
           /\ \A v, t, f : Operand(v, S) /\ {t, f} \subseteq T => Fits(Br(v, t, f), S, T)
           /\ \A b \in T : Fits(Jump(b), S, T)
           /\ \A s : Operand(s, S) => Fits(Ret(s), S, T)
<1>1. ASSUME NEW x, Used(x) \subseteq S, x.to = <<>>, ~IsEnd(x)
      PROVE  Fits(x, S, T)
  BY <1>1 DEF Fits
<1>2. \A s : Fits(Alloc(s), S, T) /\ Alloc(s).def = s
  BY <1>1, UsedBy, Builders
<1>3. ASSUME NEW v, NEW s, Operand(v, S), Operand(s, S)
      PROVE  Fits(Store(v, s), S, T)
  <2>1. Used(Store(v, s)) \subseteq S /\ Store(v, s).to = <<>>
    BY <1>3, UsedBy, ZenonT(40)
  <2> QED
    BY <1>1, <2>1, Builders
<1>4. ASSUME NEW s, NEW f
      PROVE  (Operand(f, S) => Fits(Load(s, f), S, T)) /\ Load(s, f).def = s
  <2>1. /\ Operand(f, S) => Used(Load(s, f)) \subseteq S
        /\ Load(s, f).to = <<>> /\ Load(s, f).def = s
    BY UsedBy
  <2> QED
    BY <1>1, <2>1, Builders
<1>5. ASSUME NEW s, NEW v, NEW w
      PROVE  /\ Operand(v, S) /\ Operand(w, S) => Fits(BExpr(s, v, w), S, T)
             /\ BExpr(s, v, w).def = s
  <2>1. BExpr(s, v, w).to = <<>> /\ BExpr(s, v, w).def = s
    BY UsedBy
  <2>2. Operand(v, S) /\ Operand(w, S) => Used(BExpr(s, v, w)) \subseteq S
    BY UsedBy, Zenon
  <2>3. ~IsEnd(BExpr(s, v, w))
    BY Builders
  <2> QED
    BY <1>1, <2>1, <2>2, <2>3
<1>6. ASSUME NEW v, NEW t \in T, NEW f \in T, Operand(v, S)
      PROVE  Fits(Br(v, t, f), S, T)
  <2>1. \A k \in DOMAIN <<t, f>> : <<t, f>>[k] \in T
    OBVIOUS
  <2>2. /\ Used(Br(v, t, f)) \subseteq S /\ Br(v, t, f).to = <<t, f>>
        /\ Br(v, t, f).def = Null
    BY <1>6, UsedBy
  <2> QED
    BY <2>1, <2>2 DEF Fits
<1>7. \A b \in T : Fits(Jump(b), S, T)
  <2> SUFFICES ASSUME NEW b \in T
               PROVE  Fits(Jump(b), S, T)
    OBVIOUS
  <2>1. \A k \in DOMAIN <<b>> : <<b>>[k] \in T
    OBVIOUS
  <2> QED
    BY <2>1, UsedBy DEF Fits
<1>8. \A s : Operand(s, S) => Fits(Ret(s), S, T)
  BY UsedBy DEF Fits
<1> QED
  BY <1>2, <1>3, <1>4, <1>5, <1>6, <1>7, <1>8

-----------------------------------------------------------------------------
(* Where symbols are defined: In[b] are symbols that are defined whenever block *)
(* b is entered. The entry needs none, and a block that another one goes to    *)
(* can only ask for what is there when that one ends.                          *)

Avail(bs, c, In) == In[c] \cup Made(bs[c].instrs)
Flows(bs, In) ==
    /\ DOMAIN In = DOMAIN bs
    /\ \A b \in DOMAIN bs :
          Piece(bs[b].instrs, In[b], {t \in DOMAIN bs : In[t] \subseteq Avail(bs, b, In)})

\* New blocks ask for N.
Grown(In, D, N) == [c \in D |-> IF c \in DOMAIN In THEN In[c] ELSE N]

LEMMA FlowsOn ==
    ASSUME NEW bs, IsBlocks(bs), NEW b \in DOMAIN bs, NEW I,
           \A c \in DOMAIN bs : bs[c].instrs \in Seq(I), NEW seq \in Seq(I),
           NEW k \in Nat, NEW bs2, Extends(bs, bs2, k, b, seq),
           NEW In, Flows(bs, In), NEW N, NEW In2, In2 = Grown(In, DOMAIN bs2, N),
           NEW A, A = Avail(bs, b, In),
           Piece(seq, A, {t \in DOMAIN bs2 : In2[t] \subseteq A \cup Made(seq)})
    PROVE  /\ Flows(bs2, In2) /\ Avail(bs2, b, In2) = A \cup Made(seq)
           /\ DOMAIN In2 = DOMAIN bs2
           /\ \A c \in DOMAIN bs : In2[c] = In[c]
           /\ \A c \in DOMAIN bs2 \ DOMAIN bs : In2[c] = N
<1>1. /\ Len(bs) \in Nat /\ DOMAIN bs = 1..Len(bs)
      /\ Len(bs2) = Len(bs) + k /\ DOMAIN bs2 = 1..Len(bs2)
  BY BlocksLen DEF Extends
<1>2. DOMAIN bs \subseteq DOMAIN bs2
  BY <1>1
<1>3. /\ DOMAIN In = DOMAIN bs /\ DOMAIN In2 = DOMAIN bs2
      /\ \A c \in DOMAIN bs : In2[c] = In[c]
      /\ \A c \in DOMAIN bs2 \ DOMAIN bs : In2[c] = N
  BY <1>2 DEF Flows, Grown
<1>4. /\ \A c \in DOMAIN bs \ {b} : bs2[c].instrs = bs[c].instrs
      /\ bs2[b].instrs = bs[b].instrs \o seq
      /\ \A c \in DOMAIN bs2 \ DOMAIN bs : bs2[c].instrs = <<>>
  BY <1>2 DEF Extends
<1>5. bs[b].instrs \in Seq(I)
  OBVIOUS
<1>6. /\ Made(bs2[b].instrs) = Made(bs[b].instrs) \cup Made(seq)
      /\ GoesTo(bs2[b].instrs) = GoesTo(bs[b].instrs) \cup GoesTo(seq)
  BY <1>4, <1>5, MadeConcat
<1>7. Avail(bs2, b, In2) = A \cup Made(seq)
  BY <1>3, <1>6 DEF Avail
<1>8. ASSUME NEW c \in DOMAIN bs
      PROVE  /\ Avail(bs, c, In) \subseteq Avail(bs2, c, In2)
             /\ UsesDefined(bs[c].instrs, In[c]) /\ EndsQuiet(bs[c].instrs)
             /\ \A t \in GoesTo(bs[c].instrs) :
                   t \in DOMAIN bs2 /\ In2[t] \subseteq Avail(bs2, c, In2)
  <2>1. Avail(bs, c, In) \subseteq Avail(bs2, c, In2)
    BY <1>3, <1>4, <1>7 DEF Avail
  <2>2. Piece(bs[c].instrs, In[c], {t \in DOMAIN bs : In[t] \subseteq Avail(bs, c, In)})
    BY DEF Flows
  <2> QED
    BY <1>2, <1>3, <2>1, <2>2 DEF Piece
<1>9. ASSUME NEW c \in DOMAIN bs2
      PROVE  /\ UsesDefined(bs2[c].instrs, In2[c]) /\ EndsQuiet(bs2[c].instrs)
             /\ \A t \in GoesTo(bs2[c].instrs) :
                   t \in DOMAIN bs2 /\ In2[t] \subseteq Avail(bs2, c, In2)
  <2>1. CASE c \in DOMAIN bs \ {b}
    <3>1. bs2[c].instrs = bs[c].instrs /\ In2[c] = In[c]
      BY <1>3, <1>4, <2>1
    <3> QED
      BY <1>8, <2>1, <3>1
  <2>2. CASE c \notin DOMAIN bs
    <3>1. bs2[c].instrs = <<>>
      BY <1>4, <2>2
    <3> QED
      BY <3>1 DEF UsesDefined, EndsQuiet, GoesTo
  <2>3. CASE c = b
    <3>1. UsesDefined(seq, In[b] \cup Made(bs[b].instrs)) /\ EndsQuiet(seq)
      BY DEF Piece, Avail
    <3>2. UsesDefined(bs[b].instrs, In[b]) /\ EndsQuiet(bs[b].instrs)
      BY <1>8
    <3>3. /\ UsesDefined(bs[b].instrs \o seq, In[b])
          /\ EndsQuiet(bs[b].instrs \o seq)
      BY <1>5, <3>1, <3>2, PieceConcat
    <3>4. \A t \in GoesTo(seq) : t \in DOMAIN bs2 /\ In2[t] \subseteq Avail(bs2, b, In2)
      BY <1>7 DEF Piece
    <3> QED
      BY <1>3, <1>4, <1>6, <1>8, <2>3, <3>3, <3>4
  <2> QED
    BY <2>1, <2>2, <2>3
<1>10. Flows(bs2, In2)
  BY <1>3, <1>9 DEF Flows, Piece
<1> QED
  BY <1>3, <1>7, <1>10

-----------------------------------------------------------------------------
(* What the visits in progress count on: W[i] are symbols that are defined      *)
(* where visit i goes on, V[i] are the variables in sight once it is over.     *)

\* The blocks a visit goes on in, or goes back to.
Back(f) ==
    CASE f.k \in LoopKinds -> {f.entry, f.body, f.merge}
      [] f.k = "then" -> {f.else, f.merge} \ {Null}
      [] f.k \in {"else", "rhs"} -> {f.merge}
      [] OTHER -> {}

FrameFlows(f, S, In) ==
    /\ \A b \in Back(f) : In[b] = S
    /\ f.k = "opnd2" => Operand(f.val1, S)
    /\ f.k = "rhs" => f.ret \in S

\* A is what is defined where the walk is.
StackFlows(A, fs, In, W) ==
    /\ DOMAIN W = DOMAIN fs
    /\ \A i \in DOMAIN fs : W[i] \subseteq A /\ FrameFlows(fs[i], W[i], In)
    /\ \A i, j \in DOMAIN fs : i < j => W[i] \subseteq W[j]

\* The return slot s is defined everywhere but before the entry.
SlotFlows(s, In, W) ==
    /\ In[Entry] = {} /\ In[Exit] = (IF s = Null THEN {} ELSE {s})
    /\ s # Null => /\ \A b \in DOMAIN In \ {Entry} : s \in In[b]
                   /\ \A i \in DOMAIN W : s \in W[i]

\* The symbols of the variables in sight are defined; only a block has others in
\* sight than those that are when it is over.
SymsOf(S, ir) == {ir[v] : v \in S} \ {Null}
SightFlows(A, fs, vs, ir, W, V) ==
    /\ DOMAIN V = DOMAIN fs /\ SymsOf(vs, ir) \subseteq A
    /\ \A i \in DOMAIN fs :
          /\ V[i] \subseteq DOMAIN ir /\ SymsOf(V[i], ir) \subseteq W[i]
          /\ V[i] = IF fs[i].k = "block" THEN fs[i].vis
                    ELSE IF i + 1 \in DOMAIN fs THEN V[i + 1] ELSE vs
          /\ fs[i].k = "init" => \A j \in DOMAIN fs : j < i => fs[i].var \notin V[j]
          /\ fs[i].k = "assign" => fs[i].var \in V[i]

\* The first m visits stay in progress, and f may be one above them.
KeptFrames(fs, fs2, m, f) ==
    /\ m \in Nat /\ 1..m \subseteq DOMAIN fs /\ \A i \in 1..m : fs2[i] = fs[i]
    /\ DOMAIN fs2 = 1..m \/ (DOMAIN fs2 = 1..m + 1 /\ fs2[m + 1] = f)
With(F, D, m, X) == [i \in D |-> IF i = m + 1 THEN X ELSE F[i]]

LEMMA WithGives ==
    ASSUME NEW fs, NEW fs2, NEW m, NEW f, KeptFrames(fs, fs2, m, f), NEW F, NEW X
    PROVE  LET G == With(F, DOMAIN fs2, m, X)
           IN /\ DOMAIN G = DOMAIN fs2
              /\ \A i \in 1..m : i \in DOMAIN fs2 /\ i # m + 1 /\ G[i] = F[i]
              /\ m + 1 \in DOMAIN fs2 => G[m + 1] = X /\ fs2[m + 1] = f
              /\ \A i \in DOMAIN fs2 : i \in 1..m \/ i = m + 1
              /\ m \in Nat
<1>1. m \in Nat /\ (DOMAIN fs2 = 1..m \/ DOMAIN fs2 = 1..m + 1)
  BY DEF KeptFrames
<1>2. /\ \A i \in 1..m : i \in DOMAIN fs2 /\ i # m + 1
      /\ \A i \in DOMAIN fs2 : i \in 1..m \/ i = m + 1
  BY <1>1
<1>3. m + 1 \in DOMAIN fs2 => fs2[m + 1] = f
  BY <1>1 DEF KeptFrames
<1> QED
  BY <1>1, <1>2, <1>3 DEF With

LEMMA StackTurns ==
    ASSUME NEW fs, NEW fs2, NEW m, NEW f, KeptFrames(fs, fs2, m, f),
           NEW A, NEW A2, NEW In, NEW In2, NEW W, NEW X,
           StackFlows(A, fs, In, W),
           \A i \in 1..m : W[i] \subseteq A2,
           \A i \in 1..m : \A b \in Back(fs[i]) : In2[b] = In[b],
           m + 1 \in DOMAIN fs2 => /\ X \subseteq A2 /\ FrameFlows(f, X, In2)
                                   /\ \A i \in 1..m : W[i] \subseteq X
    PROVE  StackFlows(A2, fs2, In2, With(W, DOMAIN fs2, m, X))
<1> DEFINE W2 == With(W, DOMAIN fs2, m, X)
<1>1. /\ DOMAIN W2 = DOMAIN fs2
      /\ \A i \in 1..m : i \in DOMAIN fs2 /\ i # m + 1 /\ W2[i] = W[i]
      /\ m + 1 \in DOMAIN fs2 => W2[m + 1] = X /\ fs2[m + 1] = f
      /\ \A i \in DOMAIN fs2 : i \in 1..m \/ i = m + 1
      /\ m \in Nat
  BY WithGives
<1>2. 1..m \subseteq DOMAIN fs /\ \A i \in 1..m : fs2[i] = fs[i]
  BY DEF KeptFrames
<1> HIDE DEF W2
<1>3. ASSUME NEW i \in DOMAIN fs2
      PROVE  W2[i] \subseteq A2 /\ FrameFlows(fs2[i], W2[i], In2)
  <2>1. CASE i \in 1..m
    <3>1. FrameFlows(fs[i], W[i], In) /\ \A b \in Back(fs[i]) : In2[b] = In[b]
      BY <1>2, <2>1 DEF StackFlows
    <3> QED
      BY <1>1, <1>2, <2>1, <3>1 DEF FrameFlows
  <2>2. CASE i = m + 1
    BY <1>1, <1>3, <2>2
  <2> QED
    BY <1>1, <2>1, <2>2
<1>4. ASSUME NEW i \in DOMAIN fs2, NEW j \in DOMAIN fs2, i < j
      PROVE  W2[i] \subseteq W2[j]
  <2>1. i \in 1..m
    BY <1>1, <1>4
  <2>2. CASE j \in 1..m
    BY <1>1, <1>2, <1>4, <2>1, <2>2 DEF StackFlows
  <2>3. CASE j = m + 1
    BY <1>1, <1>4, <2>1, <2>3
  <2> QED
    BY <1>1, <2>2, <2>3
<1> QED
  BY <1>1, <1>3, <1>4 DEF StackFlows, W2

LEMMA SightTurns ==
    ASSUME NEW fs, NEW fs2, NEW m, NEW f, KeptFrames(fs, fs2, m, f),
           NEW A, NEW A2, NEW vs, NEW vs2, NEW ir, NEW ir2, NEW W, NEW V, NEW X, NEW Y,
           SightFlows(A, fs, vs, ir, W, V), SymsOf(vs2, ir2) \subseteq A2,
           DOMAIN ir \subseteq DOMAIN ir2,
           \A i \in 1..m : \A v \in V[i] : ir2[v] = ir[v],
           m # 0 /\ fs[m].k # "block" =>
               V[m] = IF m + 1 \in DOMAIN fs2 THEN Y ELSE vs2,
           m + 1 \in DOMAIN fs2 =>
               /\ Y \subseteq DOMAIN ir2 /\ SymsOf(Y, ir2) \subseteq X
               /\ Y = IF f.k = "block" THEN f.vis ELSE vs2
               /\ f.k = "init" => \A i \in 1..m : f.var \notin V[i]
               /\ f.k = "assign" => f.var \in Y
    PROVE  SightFlows(A2, fs2, vs2, ir2, With(W, DOMAIN fs2, m, X),
                      With(V, DOMAIN fs2, m, Y))
<1> DEFINE W2 == With(W, DOMAIN fs2, m, X)
           V2 == With(V, DOMAIN fs2, m, Y)
<1>1. /\ DOMAIN V2 = DOMAIN fs2
      /\ \A i \in 1..m : i \in DOMAIN fs2 /\ i # m + 1 /\ W2[i] = W[i] /\ V2[i] = V[i]
      /\ m + 1 \in DOMAIN fs2 => W2[m + 1] = X /\ V2[m + 1] = Y /\ fs2[m + 1] = f
      /\ \A i \in DOMAIN fs2 : i \in 1..m \/ i = m + 1
      /\ m \in Nat
  BY WithGives
<1>2. 1..m \subseteq DOMAIN fs /\ \A i \in 1..m : fs2[i] = fs[i]
  BY DEF KeptFrames
<1>3. m + 2 \notin DOMAIN fs2
  BY <1>1
<1> HIDE DEF W2, V2
<1>4. ASSUME NEW i \in 1..m
      PROVE  /\ V2[i] \subseteq DOMAIN ir2 /\ SymsOf(V2[i], ir2) \subseteq W2[i]
             /\ V2[i] = IF fs2[i].k = "block" THEN fs2[i].vis
                        ELSE IF i + 1 \in DOMAIN fs2 THEN V2[i + 1] ELSE vs2
             /\ fs2[i].k = "init" =>
                   \A j \in DOMAIN fs2 : j < i => fs2[i].var \notin V2[j]
             /\ fs2[i].k = "assign" => fs2[i].var \in V2[i]
  <2>1. /\ V[i] \subseteq DOMAIN ir /\ SymsOf(V[i], ir) \subseteq W[i]
        /\ V[i] = IF fs[i].k = "block" THEN fs[i].vis
                  ELSE IF i + 1 \in DOMAIN fs THEN V[i + 1] ELSE vs
        /\ fs[i].k = "init" => \A j \in DOMAIN fs : j < i => fs[i].var \notin V[j]
        /\ fs[i].k = "assign" => fs[i].var \in V[i]
    BY <1>2 DEF SightFlows
  <2>2. V2[i] = V[i] /\ W2[i] = W[i] /\ fs2[i] = fs[i]
    BY <1>1, <1>2
  <2>3. SymsOf(V[i], ir2) = SymsOf(V[i], ir)
    BY DEF SymsOf
  <2>4. V2[i] = IF fs2[i].k = "block" THEN fs2[i].vis
                ELSE IF i + 1 \in DOMAIN fs2 THEN V2[i + 1] ELSE vs2
    <3>1. CASE i # m
      <4>1. i + 1 \in 1..m
        BY <1>1, <3>1
      <4>2. i + 1 \in DOMAIN fs /\ i + 1 \in DOMAIN fs2 /\ V2[i + 1] = V[i + 1]
        BY <1>1, <1>2, <4>1
      <4> QED
        BY <2>1, <2>2, <4>2
    <3>2. CASE i = m
      <4>1. m # 0
        BY <3>2
      <4> QED
        BY <1>1, <2>1, <2>2, <3>2, <4>1
    <3> QED
      BY <3>1, <3>2
  <2>5. \A j \in DOMAIN fs2 : j < i => j \in 1..m /\ j \in DOMAIN fs
    BY <1>1, <1>2
  <2>6. fs2[i].k = "init" => \A j \in DOMAIN fs2 : j < i => fs2[i].var \notin V2[j]
    BY <1>1, <2>1, <2>2, <2>5
  <2> QED
    BY <2>1, <2>2, <2>3, <2>4, <2>6
<1>5. ASSUME m + 1 \in DOMAIN fs2
      PROVE  LET i == m + 1
             IN /\ V2[i] \subseteq DOMAIN ir2 /\ SymsOf(V2[i], ir2) \subseteq W2[i]
                /\ V2[i] = IF fs2[i].k = "block" THEN fs2[i].vis
                           ELSE IF i + 1 \in DOMAIN fs2 THEN V2[i + 1] ELSE vs2
                /\ fs2[i].k = "init" =>
                      \A j \in DOMAIN fs2 : j < i => fs2[i].var \notin V2[j]
                /\ fs2[i].k = "assign" => fs2[i].var \in V2[i]
  <2>1. W2[m + 1] = X /\ V2[m + 1] = Y /\ fs2[m + 1] = f
    BY <1>1, <1>5
  <2>2. (m + 1) + 1 \notin DOMAIN fs2
    BY <1>1, <1>3
  <2>3. \A j \in DOMAIN fs2 : j < m + 1 => j \in 1..m
    BY <1>1
  <2>4. f.k = "init" => \A j \in DOMAIN fs2 : j < m + 1 => f.var \notin V2[j]
    BY <1>1, <1>5, <2>3
  <2> QED
    BY <1>5, <2>1, <2>2, <2>4
<1> QED
  BY <1>1, <1>4, <1>5 DEF SightFlows, W2, V2

-----------------------------------------------------------------------------
(* The invariant.                                                             *)

FlowOf(bs, s, In, W, V) ==
    LET A == Avail(bs, cur, In)
    IN /\ Flows(bs, In) /\ SlotFlows(s, In, W)
       /\ StackFlows(A, frames, In, W) /\ SightFlows(A, frames, vis, irvar, W, V)
ValueFlows(In) == mode = "value" => Operand(val, Avail(blocks, cur, In))
FlowInv == \E In, W, V : FlowOf(blocks, slot, In, W, V) /\ ValueFlows(In)

\* The code of a step, in blocks that ask for what they did before.
Coded(In, In2) ==
    /\ Flows(blocks', In2) /\ DOMAIN blocks \subseteq DOMAIN blocks'
    /\ DOMAIN In2 = DOMAIN blocks'
    /\ \A c \in DOMAIN blocks : In2[c] = In[c]
    /\ \A c \in DOMAIN blocks' \ DOMAIN blocks : slot' # Null => slot' \in In2[c]

LEMMA BackTyped ==
    ASSUME NEW n, NEW V, NEW B, NEW f \in Frames(n, V, B)
    PROVE  Back(f) \subseteq 3..B
<1>1. CASE f.k \in LoopKinds
  <2>1. f \in [k : LoopKinds, stmt : BOOLEAN, entry : 3..B, body : 3..B,
               merge : 3..B, preEntry : 0..B, preMerge : 0..B]
    BY <1>1, FrameFields
  <2>2. f.entry \in 3..B /\ f.body \in 3..B /\ f.merge \in 3..B
    BY <2>1
  <2> QED
    BY <1>1, <2>2 DEF Back, LoopKinds
<1>2. CASE f.k = "then"
  <2>1. f.else \in {Null} \cup 3..B /\ f.merge \in 3..B
    BY <1>2, FrameFields
  <2> QED
    BY <1>2, <2>1 DEF Back, LoopKinds
<1>3. CASE f.k \in {"else", "rhs"}
  <2>1. f.merge \in 3..B
    BY <1>3, FrameFields
  <2> QED
    BY <1>3, <2>1 DEF Back, LoopKinds
<1>4. CASE f.k \notin LoopKinds \cup {"then", "else", "rhs"}
  BY <1>4 DEF Back, LoopKinds
<1> QED
  BY <1>1, <1>2, <1>3, <1>4

LEMMA FramesBack ==
    ASSUME Control, NEW i \in DOMAIN frames
    PROVE  Back(frames[i]) \subseteq DOMAIN blocks
<1>1. frames[i] \in FramesNow
  BY DEF Control, Typed, FramesNow
<1>2. Back(frames[i]) \subseteq 3..Len(blocks)
  BY <1>1, BackTyped DEF FramesNow
<1> QED
  BY <1>2, Sizes

LEMMA FlowThen ==
    ASSUME NEW In2, NEW W2, NEW V2, NEW A2, A2 = Avail(blocks', cur', In2),
           Flows(blocks', In2), SlotFlows(slot', In2, W2),
           StackFlows(A2, frames', In2, W2),
           SightFlows(A2, frames', vis', irvar', W2, V2),
           mode' = "value" => Operand(val', A2)
    PROVE  FlowInv'
<1>1. FlowOf(blocks, slot, In2, W2, V2)'
  BY DEF FlowOf
<1>2. ValueFlows(In2)'
  BY DEF ValueFlows
<1> QED
  BY <1>1, <1>2 DEF FlowInv

\* A step, put together from its code, its stack and the variables in sight.
LEMMA FlowStep ==
    ASSUME Control, NEW bs, DOMAIN bs = DOMAIN blocks,
           NEW In, NEW W, NEW V, FlowOf(bs, slot', In, W, V),
           NEW In2, Coded(In, In2),
           NEW m, NEW f, KeptFrames(frames, frames', m, f),
           NEW A2, A2 = Avail(blocks', cur', In2), NEW X, NEW Y,
           \A i \in 1..m : W[i] \subseteq A2,
           m + 1 \in DOMAIN frames' =>
               /\ X \subseteq A2 /\ FrameFlows(f, X, In2)
               /\ \A i \in 1..m : W[i] \subseteq X
               /\ slot' # Null => slot' \in X,
           SightFlows(A2, frames', vis', irvar', With(W, DOMAIN frames', m, X),
                      With(V, DOMAIN frames', m, Y)),
           mode' = "value" => Operand(val', A2)
    PROVE  FlowInv'
<1> DEFINE W2 == With(W, DOMAIN frames', m, X)
           V2 == With(V, DOMAIN frames', m, Y)
           A == Avail(bs, cur, In)
<1>1. /\ SlotFlows(slot', In, W) /\ StackFlows(A, frames, In, W)
      /\ DOMAIN In = DOMAIN blocks
  BY DEF FlowOf, Flows
<1>2. /\ 1..m \subseteq DOMAIN frames /\ DOMAIN W = DOMAIN frames
      /\ 1 \in DOMAIN blocks /\ 2 \in DOMAIN blocks
  BY <1>1, Sizes DEF KeptFrames, StackFlows
<1>3. /\ DOMAIN W2 = DOMAIN frames'
      /\ \A i \in 1..m : W2[i] = W[i]
      /\ m + 1 \in DOMAIN frames' => W2[m + 1] = X
      /\ \A i \in DOMAIN frames' : i \in 1..m \/ i = m + 1
  BY WithGives
<1>4. StackFlows(A2, frames', In2, W2)
  <2>1. \A i \in 1..m : \A b \in Back(frames[i]) : In2[b] = In[b]
    BY <1>2, FramesBack DEF Coded
  <2> QED
    BY <1>1, <2>1, StackTurns
<1> HIDE DEF W2, A
<1>5. SlotFlows(slot', In2, W2)
  <2>1. /\ In2[Entry] = {} /\ In2[Exit] = (IF slot' = Null THEN {} ELSE {slot'})
    BY <1>1, <1>2 DEF SlotFlows, Coded, Entry, Exit
  <2>2. ASSUME slot' # Null
        PROVE  /\ \A b \in DOMAIN In2 \ {Entry} : slot' \in In2[b]
               /\ \A i \in DOMAIN W2 : slot' \in W2[i]
    <3>1. /\ \A b \in DOMAIN blocks \ {Entry} : slot' \in In[b]
          /\ \A i \in DOMAIN frames : slot' \in W[i]
      BY <1>1, <1>2, <2>2 DEF SlotFlows
    <3>2. \A b \in DOMAIN In2 \ {Entry} : slot' \in In2[b]
      BY <2>2, <3>1 DEF Coded
    <3>3. \A i \in DOMAIN W2 : slot' \in W2[i]
      BY <1>2, <1>3, <2>2, <3>1
    <3> QED
      BY <3>2, <3>3
  <2> QED
    BY <2>1, <2>2 DEF SlotFlows
<1>6. Flows(blocks', In2)
  BY DEF Coded
<1>7. /\ Avail(blocks', cur', In2) = A2
      /\ SightFlows(A2, frames', vis', irvar', W2, V2)
  BY DEF W2
<1> HIDE DEF V2
<1> QED
  BY <1>4, <1>5, <1>6, <1>7, FlowThen

-----------------------------------------------------------------------------
(* The shapes of a step: the visits stay, one is added, is over, or goes on.   *)

LEMMA StackShape ==
    ASSUME Control, NEW f
    PROVE  LET n == Len(frames)
           IN /\ n \in Nat /\ DOMAIN frames = 1..n
              /\ UNCHANGED frames =>
                    KeptFrames(frames, frames', n, f) /\ n + 1 \notin DOMAIN frames'
              /\ frames' = Append(frames, f) =>
                    KeptFrames(frames, frames', n, f) /\ n + 1 \in DOMAIN frames'
              /\ mode # "done" => /\ n >= 1 /\ Top = frames[n] /\ n - 1 \in Nat
                                  /\ (n - 1) + 1 = n /\ n \in DOMAIN frames
              /\ mode # "done" /\ frames' = Rest =>
                    KeptFrames(frames, frames', n - 1, f) /\ n \notin DOMAIN frames'
              /\ mode # "done" /\ frames' = Append(Rest, f) =>
                    KeptFrames(frames, frames', n - 1, f) /\ n \in DOMAIN frames'
<1> DEFINE n == Len(frames)
           F == FramesNow \cup {f}
<1>1. frames \in Seq(F) /\ f \in F
  <2>1. FramesNow \subseteq F /\ frames \in Seq(FramesNow) /\ f \in F
    BY DEF Control, Typed, FramesNow
  <2> HIDE DEF F
  <2> QED
    BY <2>1, Widened
<1> HIDE DEF F
<1>2. n \in Nat /\ DOMAIN frames = 1..n
  BY <1>1
<1>3. ASSUME UNCHANGED frames
      PROVE  KeptFrames(frames, frames', n, f) /\ n + 1 \notin DOMAIN frames'
  BY <1>2, <1>3 DEF KeptFrames
<1>4. ASSUME frames' = Append(frames, f)
      PROVE  KeptFrames(frames, frames', n, f) /\ n + 1 \in DOMAIN frames'
  <2>1. /\ \A i \in DOMAIN frames : Append(frames, f)[i] = frames[i]
        /\ Append(frames, f)[n + 1] = f
        /\ DOMAIN Append(frames, f) = DOMAIN frames \cup {n + 1}
    BY <1>1, PushGives
  <2>2. DOMAIN frames' = 1..n + 1
    BY <1>2, <1>4, <2>1
  <2> QED
    BY <1>2, <1>4, <2>1, <2>2 DEF KeptFrames
<1>5. ASSUME mode # "done"
      PROVE  /\ n >= 1 /\ Top = frames[n] /\ n - 1 \in Nat /\ (n - 1) + 1 = n
             /\ Rest \in Seq(F) /\ DOMAIN Rest = 1..n - 1 /\ Len(Rest) = n - 1
             /\ \A i \in 1..n - 1 : Rest[i] = frames[i]
             /\ n \in DOMAIN frames /\ 1..n - 1 \subseteq DOMAIN frames
  <2>1. frames # <<>> /\ Rest = Below(frames) /\ n >= 1 /\ Top = frames[n]
    BY <1>5, TopFrame
  <2>2. /\ Below(frames) \in Seq(F) /\ DOMAIN Below(frames) = 1..n - 1
        /\ Len(Below(frames)) = n - 1
        /\ \A i \in 1..n - 1 : Below(frames)[i] = frames[i]
    BY <1>1, <2>1, PopGives
  <2> QED
    BY <1>2, <2>1, <2>2
<1>6. ASSUME mode # "done", frames' = Rest
      PROVE  KeptFrames(frames, frames', n - 1, f) /\ n \notin DOMAIN frames'
  BY <1>2, <1>5, <1>6 DEF KeptFrames
<1>7. ASSUME mode # "done", frames' = Append(Rest, f)
      PROVE  KeptFrames(frames, frames', n - 1, f) /\ n \in DOMAIN frames'
  <2>1. /\ \A i \in DOMAIN Rest : Append(Rest, f)[i] = Rest[i]
        /\ Append(Rest, f)[Len(Rest) + 1] = f
        /\ DOMAIN Append(Rest, f) = DOMAIN Rest \cup {Len(Rest) + 1}
    BY <1>1, <1>5, <1>7, PushGives
  <2>2. DOMAIN frames' = 1..n
    BY <1>2, <1>5, <1>7, <2>1
  <2> QED
    BY <1>2, <1>5, <1>7, <2>1, <2>2 DEF KeptFrames
<1> QED
  BY <1>2, <1>3, <1>4, <1>5, <1>6, <1>7

\* What FlowOf says of the top of the stack.
LEMMA TopFlows ==
    ASSUME Control, NEW bs, NEW s, NEW In, NEW W, NEW V, FlowOf(bs, s, In, W, V)
    PROVE  LET n == Len(frames)
               A == Avail(bs, cur, In)
           IN /\ SymsOf(vis, irvar) \subseteq A
              /\ \A i \in DOMAIN frames : W[i] \subseteq A
              /\ \A i \in DOMAIN frames : V[i] \subseteq DOMAIN irvar
              /\ n # 0 /\ frames[n].k # "block" => V[n] = vis
              /\ mode # "done" =>
                    /\ Top = frames[n] /\ n \in DOMAIN frames /\ n - 1 \in Nat
                    /\ \A i \in 1..n - 1 : W[i] \subseteq W[n]
                    /\ FrameFlows(Top, W[n], In) /\ SymsOf(V[n], irvar) \subseteq W[n]
                    /\ Top.k = "block" => V[n] = Top.vis
                    /\ Top.k # "block" => V[n] = vis
                    /\ n - 1 # 0 /\ frames[n - 1].k # "block" => V[n - 1] = V[n]
                    /\ s # Null => s \in W[n]
<1> DEFINE n == Len(frames)
           A == Avail(bs, cur, In)
<1>1. /\ n \in Nat /\ DOMAIN frames = 1..n
      /\ mode # "done" => n >= 1 /\ Top = frames[n] /\ n - 1 \in Nat /\ (n - 1) + 1 = n
  BY StackShape
<1>2. /\ StackFlows(A, frames, In, W) /\ SightFlows(A, frames, vis, irvar, W, V)
      /\ SlotFlows(s, In, W)
  BY DEF FlowOf
<1> HIDE DEF n, A
<1>3. /\ SymsOf(vis, irvar) \subseteq A
      /\ \A i \in DOMAIN frames : W[i] \subseteq A
      /\ \A i \in DOMAIN frames : V[i] \subseteq DOMAIN irvar
  BY <1>2 DEF StackFlows, SightFlows
<1>4. n # 0 /\ frames[n].k # "block" => V[n] = vis
  <2>1. n + 1 \notin DOMAIN frames
    BY <1>1
  <2>2. n # 0 => n \in DOMAIN frames
    BY <1>1
  <2> QED
    BY <1>2, <2>1, <2>2 DEF SightFlows
<1>5. ASSUME mode # "done"
      PROVE  /\ Top = frames[n] /\ n \in DOMAIN frames /\ n - 1 \in Nat
             /\ \A i \in 1..n - 1 : W[i] \subseteq W[n]
             /\ FrameFlows(Top, W[n], In) /\ SymsOf(V[n], irvar) \subseteq W[n]
             /\ Top.k = "block" => V[n] = Top.vis
             /\ Top.k # "block" => V[n] = vis
             /\ n - 1 # 0 /\ frames[n - 1].k # "block" => V[n - 1] = V[n]
             /\ s # Null => s \in W[n]
  <2>1. Top = frames[n] /\ n \in DOMAIN frames /\ n - 1 \in Nat /\ n # 0
    BY <1>1, <1>5
  <2>2. \A i \in 1..n - 1 : i \in DOMAIN frames /\ i < n
    BY <1>1
  <2>3. \A i \in 1..n - 1 : W[i] \subseteq W[n]
    BY <1>2, <2>1, <2>2 DEF StackFlows
  <2>4. FrameFlows(Top, W[n], In) /\ SymsOf(V[n], irvar) \subseteq W[n]
    BY <1>2, <2>1 DEF StackFlows, SightFlows
  <2>5. Top.k = "block" => V[n] = Top.vis
    BY <1>2, <2>1 DEF SightFlows
  <2>6. n - 1 # 0 /\ frames[n - 1].k # "block" => V[n - 1] = V[n]
    <3>1. n - 1 # 0 => n - 1 \in DOMAIN frames /\ (n - 1) + 1 = n
      BY <1>1, <2>1
    <3> QED
      BY <1>2, <2>1, <3>1 DEF SightFlows
  <2>7. s # Null => s \in W[n]
    BY <1>2, <2>1 DEF SlotFlows, StackFlows
  <2> QED
    BY <1>4, <2>1, <2>3, <2>4, <2>5, <2>6, <2>7
<1> QED
  BY <1>3, <1>4, <1>5 DEF n, A

\* The slot is there wherever the walk is.
LEMMA SlotHere ==
    ASSUME Control, BlockInv, NEW In, NEW W, NEW V, FlowOf(blocks, slot, In, W, V)
    PROVE  slot # Null => slot \in Avail(blocks, cur, In)
<1> SUFFICES ASSUME slot # Null
             PROVE  slot \in Avail(blocks, cur, In)
  OBVIOUS
<1>1. SlotFlows(slot, In, W) /\ DOMAIN In = DOMAIN blocks /\ cur \in DOMAIN blocks
  BY Sizes DEF FlowOf, Flows
<1>2. CASE cur # Entry
  BY <1>1, <1>2 DEF SlotFlows, Avail
<1>3. CASE cur = Entry
  <2>1. blocks[cur].instrs # <<>> /\ blocks[cur].instrs[1] = Alloc(slot)
    BY <1>3 DEF BlockInv, Laid, Slotted
  <2>2. blocks[cur].instrs \in Seq(Instrs(nsym, Len(blocks)))
    BY Sizes DEF Code
  <2>3. 1 \in DOMAIN blocks[cur].instrs
    BY <2>1, <2>2
  <2>4. Alloc(slot).def = slot
    BY UsedBy
  <2> QED
    BY <2>1, <2>3, <2>4 DEF Avail, Made
<1> QED
  BY <1>2, <1>3

\* The code of a step; In2 is what the blocks ask for then.
LEMMA CodeHere ==
    ASSUME Control, UNCHANGED slot, NEW k, NEW seq, Lowers(k, seq),
           NEW In, NEW W, NEW V, FlowOf(blocks, slot, In, W, V),
           NEW A, A = Avail(blocks, cur, In), NEW N, slot # Null => slot \in N,
           NEW In2, In2 = Grown(In, DOMAIN blocks', N),
           Piece(seq, A, {t \in DOMAIN blocks' : In2[t] \subseteq A \cup Made(seq)})
    PROVE  /\ Coded(In, In2) /\ Avail(blocks', cur, In2) = A \cup Made(seq)
           /\ \A c \in DOMAIN blocks' \ DOMAIN blocks : In2[c] = N
<1> DEFINE I == Instrs(nsym', Len(blocks) + k)
<1>1. /\ k \in Nat /\ nsym' \in Nat /\ nsym <= nsym' /\ seq \in Seq(I)
      /\ Extends(blocks, blocks', k, cur, seq)
  BY DEF Lowers
<1>2. /\ IsBlocks(blocks) /\ cur \in DOMAIN blocks /\ Len(blocks) \in Nat
      /\ Len(blocks) + k \in Nat /\ Len(blocks) <= Len(blocks) + k
  BY <1>1, Sizes
<1>3. \A b \in DOMAIN blocks : blocks[b].instrs \in Seq(I)
  BY <1>1, <1>2, CodeTyped
<1>4. DOMAIN blocks \subseteq DOMAIN blocks'
  BY <1>1, <1>2, LowersBlocks DEF Control
<1> HIDE DEF I
<1>5. Flows(blocks, In)
  BY DEF FlowOf
<1>6. /\ Flows(blocks', In2) /\ Avail(blocks', cur, In2) = A \cup Made(seq)
      /\ DOMAIN In2 = DOMAIN blocks'
      /\ \A c \in DOMAIN blocks : In2[c] = In[c]
      /\ \A c \in DOMAIN blocks' \ DOMAIN blocks : In2[c] = N
  BY <1>1, <1>2, <1>3, <1>5, FlowsOn, SMTT(40)
<1> QED
  BY <1>4, <1>6 DEF Coded

\* No code at all.
LEMMA NoCode ==
    ASSUME Control, UNCHANGED <<blocks, slot>>,
           NEW In, NEW W, NEW V, FlowOf(blocks, slot, In, W, V)
    PROVE  Coded(In, In) /\ Avail(blocks', cur, In) = Avail(blocks, cur, In)
  BY DEF FlowOf, Coded, Flows

\* The visits stay. Variables that come into sight have no symbol, or one that is
\* defined.
LEMMA SameFlows ==
    ASSUME Control, UNCHANGED frames, NEW bs, DOMAIN bs = DOMAIN blocks,
           NEW In, NEW W, NEW V, FlowOf(bs, slot', In, W, V),
           NEW A, A = Avail(bs, cur, In),
           NEW In2, Coded(In, In2), NEW A2, A2 = Avail(blocks', cur', In2),
           A \subseteq A2, mode' = "value" => Operand(val', A2),
           \/ UNCHANGED <<vis, irvar>>
           \/ /\ frames # <<>> /\ Top.k = "block"
              /\ SymsOf(vis', irvar') \subseteq A2 /\ DOMAIN irvar \subseteq DOMAIN irvar'
              /\ \A v \in DOMAIN irvar : irvar'[v] = irvar[v]
    PROVE  FlowInv'
<1> DEFINE n == Len(frames)
           W2 == With(W, DOMAIN frames', n, A)
           V2 == With(V, DOMAIN frames', n, vis)
<1>1. /\ n \in Nat /\ DOMAIN frames = 1..n
      /\ KeptFrames(frames, frames', n, Plain) /\ n + 1 \notin DOMAIN frames'
  BY StackShape
<1>2. /\ SymsOf(vis, irvar) \subseteq A
      /\ \A i \in DOMAIN frames : W[i] \subseteq A
      /\ \A i \in DOMAIN frames : V[i] \subseteq DOMAIN irvar
      /\ n # 0 /\ frames[n].k # "block" => V[n] = vis
  BY TopFlows
<1>3. SightFlows(A, frames, vis, irvar, W, V)
  BY DEF FlowOf
<1>4. /\ SymsOf(vis', irvar') \subseteq A2 /\ DOMAIN irvar \subseteq DOMAIN irvar'
      /\ \A v \in DOMAIN irvar : irvar'[v] = irvar[v]
      /\ n # 0 /\ frames[n].k # "block" => V[n] = vis'
  BY <1>1, <1>2 DEF Top
<1>5. \A i \in 1..n : \A v \in V[i] : irvar'[v] = irvar[v]
  BY <1>1, <1>2, <1>4
<1> HIDE DEF n
<1>6. SightFlows(A2, frames', vis', irvar', W2, V2)
  BY <1>1, <1>3, <1>4, <1>5, SightTurns
<1>7. \A i \in 1..n : W[i] \subseteq A2
  BY <1>1, <1>2
<1>8. KeptFrames(frames, frames', n, Plain) /\ n + 1 \notin DOMAIN frames'
  BY <1>1
<1> QED
  BY <1>6, <1>7, <1>8, FlowStep, ZenonT(40)

\* A visit is added: it counts on all that is defined.
LEMMA AddedFlows ==
    ASSUME Control, BlockInv, UNCHANGED slot, NEW f,
           KeptFrames(frames, frames', Len(frames), f), Len(frames) + 1 \in DOMAIN frames',
           NEW In, NEW W, NEW V, FlowOf(blocks, slot, In, W, V),
           NEW In2, Coded(In, In2), NEW A2, A2 = Avail(blocks', cur', In2),
           Avail(blocks, cur, In) \subseteq A2, mode' # "value",
           FrameFlows(f, Avail(blocks, cur, In), In2),
           f.k = "block" => f.vis = vis, f.k = "assign" => f.var \in vis,
           \/ UNCHANGED <<vis, irvar>> /\ f.k # "init"
           \/ /\ frames # <<>> /\ Top.k = "block" /\ f.k = "init"
              /\ f.var \notin DOMAIN irvar /\ f.var \in DOMAIN irvar'
              /\ irvar'[f.var] = Null /\ vis' = vis \cup {f.var}
              /\ DOMAIN irvar \subseteq DOMAIN irvar'
              /\ \A v \in DOMAIN irvar : irvar'[v] = irvar[v]
    PROVE  FlowInv'
<1> DEFINE n == Len(frames)
           A == Avail(blocks, cur, In)
           W2 == With(W, DOMAIN frames', n, A)
           Y == vis'
           V2 == With(V, DOMAIN frames', n, Y)
<1>1. /\ n \in Nat /\ DOMAIN frames = 1..n
      /\ KeptFrames(frames, frames', n, f) /\ n + 1 \in DOMAIN frames'
  BY StackShape 
<1>2. /\ SymsOf(vis, irvar) \subseteq A
      /\ \A i \in DOMAIN frames : W[i] \subseteq A
      /\ \A i \in DOMAIN frames : V[i] \subseteq DOMAIN irvar
      /\ n # 0 /\ frames[n].k # "block" => V[n] = vis
  BY TopFlows
<1>3. SightFlows(A, frames, vis, irvar, W, V)
  BY DEF FlowOf
<1>4. vis \subseteq DOMAIN irvar
  BY DEF Control, Typed
<1>5. /\ SymsOf(vis', irvar') \subseteq A /\ DOMAIN irvar \subseteq DOMAIN irvar'
      /\ \A v \in DOMAIN irvar : irvar'[v] = irvar[v]
      /\ vis' \subseteq DOMAIN irvar'
  <2>1. CASE UNCHANGED <<vis, irvar>>
    BY <1>2, <1>4, <2>1
  <2>2. CASE ~UNCHANGED <<vis, irvar>>
    BY <1>2, <1>4, <2>2 DEF SymsOf
  <2> QED
    BY <2>1, <2>2
<1>6. n # 0 /\ frames[n].k # "block" => V[n] = vis'
  BY <1>1, <1>2 DEF Top
<1>7. \A i \in 1..n : \A v \in V[i] : irvar'[v] = irvar[v]
  BY <1>1, <1>2, <1>5
<1>8. /\ vis' = IF f.k = "block" THEN f.vis ELSE vis'
      /\ f.k = "init" => \A i \in 1..n : f.var \notin V[i]
      /\ f.k = "assign" => f.var \in vis'
  BY <1>1, <1>2
<1>9. /\ SymsOf(vis', irvar') \subseteq A2
      /\ n # 0 /\ frames[n].k # "block" =>
             V[n] = IF n + 1 \in DOMAIN frames' THEN Y ELSE vis'
      /\ Y \subseteq DOMAIN irvar' /\ SymsOf(Y, irvar') \subseteq A
      /\ Y = IF f.k = "block" THEN f.vis ELSE vis'
      /\ f.k = "init" => \A i \in 1..n : f.var \notin V[i]
      /\ f.k = "assign" => f.var \in Y
  BY <1>5, <1>6, <1>8
<1>10. (\A i \in 1..n : W[i] \subseteq A2) /\ \A i \in 1..n : W[i] \subseteq A
  BY <1>1, <1>2
<1>11. slot' # Null => slot' \in A
  BY SlotHere
<1> HIDE DEF n, Y
<1>12. SightFlows(A2, frames', vis', irvar', W2, V2)
  BY <1>1, <1>3, <1>5, <1>7, <1>9, SightTurns
<1>13. FlowOf(blocks, slot', In, W, V)
  OBVIOUS
<1>14. /\ n + 1 \in DOMAIN frames' =>
              /\ A \subseteq A2 /\ FrameFlows(f, A, In2)
              /\ \A i \in 1..n : W[i] \subseteq A
              /\ slot' # Null => slot' \in A
       /\ mode' = "value" => Operand(val', A2)
       /\ \A i \in 1..n : W[i] \subseteq A2
  BY <1>10, <1>11
<1>15. /\ KeptFrames(frames, frames', n, f) /\ Coded(In, In2)
       /\ DOMAIN blocks = DOMAIN blocks
  BY <1>1
<1> HIDE DEF W2, V2
<1>16. SightFlows(A2, frames', vis', irvar', With(W, DOMAIN frames', n, A),
                  With(V, DOMAIN frames', n, Y))
  BY <1>12 DEF W2, V2
<1> QED
  BY <1>13, <1>14, <1>15, <1>16, FlowStep

LEMMA PushFlows ==
    ASSUME Control, BlockInv, UNCHANGED slot, NEW f,
           frames' = Append(frames, f),
           NEW In, NEW W, NEW V, FlowOf(blocks, slot, In, W, V),
           NEW A, A = Avail(blocks, cur, In),
           NEW In2, Coded(In, In2), NEW A2, A2 = Avail(blocks', cur', In2),
           A \subseteq A2, mode' # "value", FrameFlows(f, A, In2),
           f.k = "block" => f.vis = vis, f.k = "assign" => f.var \in vis,
           \/ UNCHANGED <<vis, irvar>> /\ f.k # "init"
           \/ /\ frames # <<>> /\ Top.k = "block" /\ f.k = "init"
              /\ f.var \notin DOMAIN irvar /\ f.var \in DOMAIN irvar'
              /\ irvar'[f.var] = Null /\ vis' = vis \cup {f.var}
              /\ DOMAIN irvar \subseteq DOMAIN irvar'
              /\ \A v \in DOMAIN irvar : irvar'[v] = irvar[v]
    PROVE  FlowInv'
<1>1. /\ KeptFrames(frames, frames', Len(frames), f)
      /\ Len(frames) + 1 \in DOMAIN frames'
  BY StackShape
<1> QED
  BY <1>1, AddedFlows

\* The visit at the top is over.
LEMMA PopFlows ==
    ASSUME Control, mode # "done", frames' = Rest, NEW bs, DOMAIN bs = DOMAIN blocks,
           NEW In, NEW W, NEW V, FlowOf(bs, slot', In, W, V),
           NEW In2, Coded(In, In2), NEW A2, A2 = Avail(blocks', cur', In2),
           W[Len(frames)] \subseteq A2, mode' = "value" => Operand(val', A2),
           vis' = IF Top.k = "block" THEN Top.vis ELSE vis,
           \/ UNCHANGED irvar
           \/ /\ Top.k = "init" /\ Top.var \in DOMAIN irvar /\ Len(frames) > 1
              /\ \E s \in A2 : irvar' = [irvar EXCEPT ![Top.var] = s]
    PROVE  FlowInv'
<1> DEFINE n == Len(frames)
           A == Avail(bs, cur, In)
           W2 == With(W, DOMAIN frames', n - 1, A)
           V2 == With(V, DOMAIN frames', n - 1, vis)
<1>1. /\ n \in Nat /\ DOMAIN frames = 1..n /\ n - 1 \in Nat /\ (n - 1) + 1 = n
      /\ KeptFrames(frames, frames', n - 1, Plain) /\ n \notin DOMAIN frames'
  BY StackShape
<1>2. /\ \A i \in DOMAIN frames : V[i] \subseteq DOMAIN irvar
      /\ Top = frames[n] /\ n \in DOMAIN frames
      /\ \A i \in 1..n - 1 : W[i] \subseteq W[n]
      /\ SymsOf(V[n], irvar) \subseteq W[n]
      /\ V[n] = vis'
      /\ n - 1 # 0 /\ frames[n - 1].k # "block" => V[n - 1] = V[n]
  BY TopFlows
<1>3. SightFlows(A, frames, vis, irvar, W, V)
  BY DEF FlowOf
<1>4. /\ SymsOf(vis', irvar') \subseteq A2 /\ DOMAIN irvar \subseteq DOMAIN irvar'
      /\ \A i \in 1..n - 1 : \A v \in V[i] : irvar'[v] = irvar[v]
  <2>1. CASE UNCHANGED irvar
    BY <1>2, <2>1
  <2>2. CASE /\ Top.k = "init" /\ Top.var \in DOMAIN irvar
             /\ \E s \in A2 : irvar' = [irvar EXCEPT ![Top.var] = s]
    <3>1. PICK s \in A2 : irvar' = [irvar EXCEPT ![Top.var] = s]
      BY <2>2
    <3>2. /\ DOMAIN irvar' = DOMAIN irvar
          /\ \A v \in DOMAIN irvar : irvar'[v] = IF v = Top.var THEN s ELSE irvar[v]
      BY <3>1
    <3>3. \A i \in 1..n - 1 : i \in DOMAIN frames /\ i < n
      BY <1>1
    <3>4. \A i \in 1..n - 1 : Top.var \notin V[i]
      BY <1>2, <1>3, <2>2, <3>3 DEF SightFlows
    <3>5. \A i \in 1..n - 1 : \A v \in V[i] : irvar'[v] = irvar[v]
      BY <1>2, <3>2, <3>3, <3>4
    <3>6. SymsOf(V[n], irvar') \subseteq A2
      <4>1. V[n] \subseteq DOMAIN irvar
        BY <1>2
      <4> QED
        BY <1>2, <3>1, <3>2, <4>1 DEF SymsOf
    <3> QED
      BY <1>2, <3>2, <3>5, <3>6
  <2> QED
    BY <2>1, <2>2
<1>5. n - 1 # 0 /\ frames[n - 1].k # "block" => V[n - 1] = vis'
  BY <1>2
<1>6. \A i \in 1..n - 1 : W[i] \subseteq A2
  BY <1>2
<1> HIDE DEF n
<1>7. SightFlows(A2, frames', vis', irvar', W2, V2)
  BY <1>1, <1>3, <1>4, <1>5, SightTurns
<1> DEFINE m == n - 1
<1>8. /\ KeptFrames(frames, frames', m, Plain) /\ m + 1 \notin DOMAIN frames'
      /\ \A i \in 1..m : W[i] \subseteq A2
      /\ SightFlows(A2, frames', vis', irvar', With(W, DOMAIN frames', m, A),
                    With(V, DOMAIN frames', m, vis))
  BY <1>1, <1>6, <1>7
<1> HIDE DEF m
<1> QED
  BY <1>8, FlowStep, ZenonT(40)

\* The visit at the top goes on as f, which counts on more.
LEMMA SwapFlows ==
    ASSUME Control, mode # "done", NEW f, frames' = Append(Rest, f), UNCHANGED slot,
           UNCHANGED <<vis, irvar>>, Top.k # "block", f.k \notin {"block", "init", "assign"},
           NEW In, NEW W, NEW V, FlowOf(blocks, slot, In, W, V),
           NEW In2, Coded(In, In2), NEW A2, A2 = Avail(blocks', cur', In2),
           NEW X, W[Len(frames)] \subseteq X, X \subseteq A2, FrameFlows(f, X, In2),
           mode' # "value"
    PROVE  FlowInv'
<1> DEFINE n == Len(frames)
           A == Avail(blocks, cur, In)
           W2 == With(W, DOMAIN frames', n - 1, X)
           V2 == With(V, DOMAIN frames', n - 1, vis)
<1>1. /\ n \in Nat /\ DOMAIN frames = 1..n /\ n - 1 \in Nat /\ (n - 1) + 1 = n
      /\ KeptFrames(frames, frames', n - 1, f) /\ n \in DOMAIN frames'
  BY StackShape
<1>2. /\ \A i \in DOMAIN frames : V[i] \subseteq DOMAIN irvar
      /\ Top = frames[n] /\ n \in DOMAIN frames
      /\ \A i \in 1..n - 1 : W[i] \subseteq W[n]
      /\ SymsOf(V[n], irvar) \subseteq W[n]
      /\ V[n] = vis
      /\ n - 1 # 0 /\ frames[n - 1].k # "block" => V[n - 1] = V[n]
      /\ slot # Null => slot \in W[n]
  BY TopFlows
<1>3. SightFlows(A, frames, vis, irvar, W, V)
  BY DEF FlowOf
<1>4. /\ vis \subseteq DOMAIN irvar /\ SymsOf(vis, irvar) \subseteq X
      /\ SymsOf(vis', irvar') \subseteq A2 /\ DOMAIN irvar \subseteq DOMAIN irvar'
      /\ \A i \in 1..n - 1 : \A v \in V[i] : irvar'[v] = irvar[v]
  BY <1>2
<1>5. /\ n - 1 # 0 /\ frames[n - 1].k # "block" => V[n - 1] = vis
      /\ \A i \in 1..n - 1 : W[i] \subseteq A2 /\ W[i] \subseteq X
      /\ slot' # Null => slot' \in X
  BY <1>2
<1> HIDE DEF n
<1>6. SightFlows(A2, frames', vis', irvar', W2, V2)
  BY <1>1, <1>3, <1>4, <1>5, SightTurns, ZenonT(40)
<1> QED
  BY <1>1, <1>5, <1>6, FlowStep

-----------------------------------------------------------------------------
(* FlowInv is kept by each step. First those that lower nothing.              *)

LEMMA FlowNow ==
    ASSUME FlowInv
    PROVE  \E In, W, V : /\ FlowOf(blocks, slot, In, W, V)
                         /\ mode = "value" => Operand(val, Avail(blocks, cur, In))
  BY DEF FlowInv, ValueFlows

LEMMA QuietFlows ==
    ASSUME Control, FlowInv, UNCHANGED <<blocks, cur, slot, frames, vis, irvar>>,
           mode' = "value" => (mode = "value" /\ val' = val) \/ val' = Literal
    PROVE  FlowInv'
<1>1. PICK In, W, V : /\ FlowOf(blocks, slot, In, W, V)
                      /\ mode = "value" => Operand(val, Avail(blocks, cur, In))
  BY FlowNow
<1> DEFINE A == Avail(blocks, cur, In)
<1>2. Coded(In, In) /\ A = Avail(blocks', cur', In)
  BY <1>1, NoCode
<1>3. mode' = "value" => Operand(val', A)
  BY <1>1 DEF Operand
<1>4. FlowOf(blocks, slot', In, W, V) /\ A \subseteq A
  BY <1>1
<1> HIDE DEF A
<1> QED
  BY <1>2, <1>3, <1>4, SameFlows DEF A

LEMMA QuietSteps ==
    ASSUME Control, FlowInv,
           SkipStmt \/ IfEmpty \/ Number \/ UnboundLVal \/ UNCHANGED vars
    PROVE  FlowInv'
<1>1. CASE SkipStmt \/ IfEmpty
  BY <1>1, QuietFlows DEF SkipStmt, IfEmpty, context, variables
<1>2. CASE Number \/ UnboundLVal
  BY <1>2, QuietFlows DEF Number, UnboundLVal, AtExp, context, variables
<1>3. CASE UNCHANGED vars
  BY <1>3, QuietFlows DEF vars
<1> QED
  BY <1>1, <1>2, <1>3

\* A visit begins.
LEMMA BeginFlows ==
    ASSUME Control, BlockInv, FlowInv, UNCHANGED <<blocks, cur, slot, vis, irvar>>,
           NEW f, frames' = Append(frames, f), mode' # "value",
           f.k \in {"block", "exp", "assign", "ret", "if", "unary", "opnd1", "lhs"},
           f.k = "block" => f.vis = vis, f.k = "assign" => f.var \in vis
    PROVE  FlowInv'
<1>1. PICK In, W, V : FlowOf(blocks, slot, In, W, V)
  BY FlowNow
<1> DEFINE A == Avail(blocks, cur, In)
<1>2. Coded(In, In) /\ A = Avail(blocks', cur', In) /\ A \subseteq A
  BY <1>1, NoCode
<1>3. FrameFlows(f, A, In)
  BY DEF FrameFlows, Back, LoopKinds
<1>4. UNCHANGED slot /\ UNCHANGED <<vis, irvar>> /\ f.k # "init"
  OBVIOUS
<1> HIDE DEF A
<1> QED
  BY <1>1, <1>2, <1>3, <1>4, PushFlows DEF A

LEMMA BeginSteps ==
    ASSUME Control, BlockInv, FlowInv,
           \/ OpenBlock \/ ExpStmt \/ ReturnExp \/ (\E v \in vis : Assign(v))
           \/ (\E then, else : If(then, else))
           \/ Binary \/ Logical \/ \E op : Unary(op)
    PROVE  FlowInv'
<1>1. ASSUME NEW f, Evaluate(f), UNCHANGED <<blocks, cur, slot, vis, irvar>>,
             f.k \in {"exp", "assign", "ret", "if", "unary", "opnd1", "lhs"},
             f.k = "assign" => f.var \in vis
      PROVE  FlowInv'
  BY <1>1, BeginFlows DEF Evaluate
<1>2. CASE OpenBlock
  <2>1. /\ frames' = Append(frames, [k |-> "block", vis |-> vis]) /\ mode' # "value"
        /\ UNCHANGED <<blocks, cur, slot, vis, irvar>>
    BY <1>2 DEF OpenBlock, context, variables
  <2> QED
    BY <2>1, BeginFlows
<1>3. CASE ExpStmt
  BY <1>1, <1>3 DEF ExpStmt, context, variables
<1>4. CASE ReturnExp
  BY <1>1, <1>4 DEF ReturnExp, context, variables
<1>5. ASSUME NEW v \in vis, Assign(v)
      PROVE  FlowInv'
  BY <1>1, <1>5 DEF Assign, context, variables
<1>6. ASSUME NEW then, NEW else, If(then, else)
      PROVE  FlowInv'
  BY <1>1, <1>6 DEF If, context, variables
<1>7. ASSUME NEW f, NEW kind, Operation(f, kind), f.k \in {"unary", "opnd1", "lhs"}
      PROVE  FlowInv'
  BY <1>1, <1>7 DEF Operation, context, variables
<1>8. CASE Binary
  BY <1>7, <1>8 DEF Binary
<1>9. CASE Logical
  BY <1>7, <1>9 DEF Logical
<1>10. ASSUME NEW op, Unary(op)
       PROVE  FlowInv'
  BY <1>7, <1>10 DEF Unary
<1> QED
  BY <1>2, <1>3, <1>4, <1>5, <1>6, <1>8, <1>9, <1>10

\* A visit is over.
LEMMA OverFlows ==
    ASSUME Control, FlowInv, mode # "done", UNCHANGED <<blocks, cur, slot, irvar>>,
           frames' = Rest, vis' = IF Top.k = "block" THEN Top.vis ELSE vis,
           mode' = "value" => mode = "value" /\ val' = val
    PROVE  FlowInv'
<1>1. PICK In, W, V : /\ FlowOf(blocks, slot, In, W, V)
                      /\ mode = "value" => Operand(val, Avail(blocks, cur, In))
  BY FlowNow
<1> DEFINE A == Avail(blocks, cur, In)
<1>2. Coded(In, In) /\ A = Avail(blocks', cur', In)
  BY <1>1, NoCode
<1>3. mode' = "value" => Operand(val', A)
  BY <1>1
<1>4. W[Len(frames)] \subseteq A
  BY <1>1, TopFlows
<1>5. FlowOf(blocks, slot', In, W, V) /\ UNCHANGED irvar
  BY <1>1
<1> HIDE DEF A
<1> QED
  BY <1>2, <1>3, <1>4, <1>5, PopFlows DEF A

LEMMA OverSteps ==
    ASSUME Control, FlowInv, CloseBlock \/ AfterExpStmt \/ (AfterUnary /\ Top.op = "+")
    PROVE  FlowInv'
<1>1. CASE CloseBlock
  <2>1. /\ mode = "next" /\ frames' = Rest /\ Top.k = "block" /\ vis' = Top.vis
        /\ UNCHANGED <<blocks, cur, slot, irvar>> /\ mode' # "value"
    BY <1>1 DEF CloseBlock, AtItem, context
  <2> QED
    BY <2>1, OverFlows
<1>2. CASE AfterExpStmt
  <2>1. /\ mode = "value" /\ frames' = Rest /\ Top.k = "exp" /\ UNCHANGED vis
        /\ UNCHANGED <<blocks, cur, slot, irvar>> /\ mode' # "value"
    BY <1>2 DEF AfterExpStmt, context, variables
  <2> QED
    BY <2>1, OverFlows
<1>3. CASE AfterUnary /\ Top.op = "+"
  <2>1. /\ mode = "value" /\ frames' = Rest /\ Top.k = "unary" /\ UNCHANGED vis
        /\ UNCHANGED <<blocks, cur, slot, irvar, val>>
    BY <1>3 DEF AfterUnary, context, variables
  <2> QED
    BY <2>1, OverFlows
<1> QED
  BY <1>1, <1>2, <1>3

LEMMA AfterOpnd1Flows ==
    ASSUME Control, BlockInv, FlowInv, AfterOpnd1
    PROVE  FlowInv'
<1> DEFINE f == [k |-> "opnd2", val1 |-> val]
<1>1. PICK In, W, V : /\ FlowOf(blocks, slot, In, W, V)
                      /\ mode = "value" => Operand(val, Avail(blocks, cur, In))
  BY FlowNow
<1>2. /\ mode = "value" /\ Top.k = "opnd1" /\ mode' = "exp"
      /\ frames' = Append(Rest, f) /\ f.k = "opnd2" /\ f.val1 = val
      /\ UNCHANGED <<blocks, cur, slot, vis, irvar>>
  BY DEF AfterOpnd1, context, variables
<1> HIDE DEF f
<1> DEFINE A == Avail(blocks, cur, In)
<1>3. Coded(In, In) /\ A = Avail(blocks', cur', In)
  BY <1>1, <1>2, NoCode
<1>4. W[Len(frames)] \subseteq A
  BY <1>1, <1>2, TopFlows
<1>5. FrameFlows(f, A, In)
  BY <1>1, <1>2 DEF FrameFlows, Back, LoopKinds
<1>6. mode # "done" /\ mode' # "value"
  BY <1>2
<1> HIDE DEF A
<1> QED
  BY <1>1, <1>2, <1>3, <1>4, <1>5, <1>6, SwapFlows

-----------------------------------------------------------------------------
(* The steps that lower code for the current block.                           *)

LEMMA PieceTo ==
    ASSUME NEW q, NEW S, NEW T, NEW T2, T \subseteq T2, Piece(q, S, T)
    PROVE  Piece(q, S, T2)
  BY DEF Piece

\* Where a block is among those that ask for nothing that is not there.
Ready(In, A) == {t \in DOMAIN blocks : In[t] \subseteq A}

LEMMA CodeStays ==
    ASSUME Control, UNCHANGED slot, NEW seq, Lowers(0, seq),
           NEW In, NEW W, NEW V, FlowOf(blocks, slot, In, W, V),
           NEW A, A = Avail(blocks, cur, In), Piece(seq, A, Ready(In, A))
    PROVE  LET In2 == Grown(In, DOMAIN blocks', {slot})
           IN Coded(In, In2) /\ Avail(blocks', cur, In2) = A \cup Made(seq)
<1> DEFINE N == {slot}
           In2 == Grown(In, DOMAIN blocks', N)
           T == {t \in DOMAIN blocks' : In2[t] \subseteq A \cup Made(seq)}
<1>1. DOMAIN blocks' = DOMAIN blocks
  BY LowersBlocks, Sizes DEF Control
<1>2. DOMAIN In = DOMAIN blocks
  BY DEF FlowOf, Flows
<1>3. \A c \in DOMAIN blocks : In2[c] = In[c]
  BY <1>1, <1>2 DEF Grown
<1>4. Ready(In, A) \subseteq T
  BY <1>1, <1>3 DEF Ready
<1> HIDE DEF T
<1>5. Piece(seq, A, T)
  BY <1>4, PieceTo
<1>6. slot # Null => slot \in N
  OBVIOUS
<1>7. In2 = Grown(In, DOMAIN blocks', N)
  OBVIOUS
<1> HIDE DEF In2, N
<1>8. Piece(seq, A, {t \in DOMAIN blocks' : In2[t] \subseteq A \cup Made(seq)})
  BY <1>5 DEF T
<1>9. Coded(In, In2) /\ Avail(blocks', cur, In2) = A \cup Made(seq)
  BY <1>6, <1>7, <1>8, CodeHere
<1> QED
  BY <1>9 DEF In2, N

\* Code for the current block, and the visits stay.
LEMMA EmitSame ==
    ASSUME Control, UNCHANGED <<slot, cur, frames>>, NEW seq, Lowers(0, seq),
           NEW In, NEW W, NEW V, FlowOf(blocks, slot, In, W, V),
           NEW A, A = Avail(blocks, cur, In), Piece(seq, A, Ready(In, A)),
           mode' = "value" => Operand(val', A \cup Made(seq)),
           \/ UNCHANGED <<vis, irvar>>
           \/ /\ frames # <<>> /\ Top.k = "block"
              /\ SymsOf(vis', irvar') \subseteq A \cup Made(seq)
              /\ DOMAIN irvar \subseteq DOMAIN irvar'
              /\ \A v \in DOMAIN irvar : irvar'[v] = irvar[v]
    PROVE  FlowInv'
<1> DEFINE In2 == Grown(In, DOMAIN blocks', {slot})
           A2 == A \cup Made(seq)
<1>1. Coded(In, In2) /\ A2 = Avail(blocks', cur', In2)
  BY CodeStays
<1>2. FlowOf(blocks, slot', In, W, V) /\ UNCHANGED frames /\ A \subseteq A2
  OBVIOUS
<1> HIDE DEF In2
<1> QED
  BY <1>1, <1>2, SameFlows

\* Code for the current block, and the visit at the top is over.
LEMMA EmitPop ==
    ASSUME Control, UNCHANGED <<slot, cur, vis>>, mode # "done", frames' = Rest,
           Top.k # "block", NEW seq, Lowers(0, seq),
           NEW In, NEW W, NEW V, FlowOf(blocks, slot, In, W, V),
           NEW A, A = Avail(blocks, cur, In), Piece(seq, A, Ready(In, A)),
           mode' = "value" => Operand(val', A \cup Made(seq)),
           \/ UNCHANGED irvar
           \/ /\ Top.k = "init" /\ Top.var \in DOMAIN irvar /\ Len(frames) > 1
              /\ \E s \in A \cup Made(seq) : irvar' = [irvar EXCEPT ![Top.var] = s]
    PROVE  FlowInv'
<1> DEFINE In2 == Grown(In, DOMAIN blocks', {slot})
           A2 == A \cup Made(seq)
<1>1. Coded(In, In2) /\ A2 = Avail(blocks', cur', In2)
  BY CodeStays
<1>2. W[Len(frames)] \subseteq A
  BY TopFlows
<1>3. FlowOf(blocks, slot', In, W, V) /\ W[Len(frames)] \subseteq A2
  BY <1>2
<1>4. vis' = IF Top.k = "block" THEN Top.vis ELSE vis
  OBVIOUS
<1> HIDE DEF In2
<1> QED
  BY <1>1, <1>3, <1>4, PopFlows

LEMMA SkipDeclFlows ==
    ASSUME Control, FlowInv, NEW x, SkipDecl(x)
    PROVE  FlowInv'
<1>1. PICK In, W, V : FlowOf(blocks, slot, In, W, V)
  BY FlowNow
<1> DEFINE A == Avail(blocks, cur, In)
<1>2. /\ mode = "next" /\ Top.k = "block" /\ irvar' = Append(irvar, Null)
      /\ vis' = vis \cup {Declare} /\ UNCHANGED <<mode, frames, blocks, cur, slot>>
  BY DEF SkipDecl, AtItem, Declares, context
<1>3. /\ irvar'[Declare] = Null /\ DOMAIN irvar \subseteq DOMAIN irvar'
      /\ \A v \in DOMAIN irvar : irvar'[v] = irvar[v]
      /\ vis \subseteq DOMAIN irvar
  BY <1>2, NewVar, NameDomain
<1>4. Coded(In, In) /\ A = Avail(blocks', cur', In) /\ A \subseteq A
  BY <1>1, <1>2, NoCode
<1>5. SymsOf(vis', irvar') \subseteq A
  <2>1. SymsOf(vis, irvar) \subseteq A
    BY <1>1, TopFlows
  <2> QED
    BY <1>2, <1>3, <2>1 DEF SymsOf
<1>6. FlowOf(blocks, slot', In, W, V) /\ frames # <<>> /\ mode' # "value"
  BY <1>1, <1>2, TopFrame
<1> HIDE DEF A
<1> QED
  BY <1>2, <1>3, <1>4, <1>5, <1>6, SameFlows DEF A

LEMMA DeclPlainFlows ==
    ASSUME Control, FlowInv, NEW x, DeclPlain(x)
    PROVE  FlowInv'
<1> DEFINE s == nsym + 1
           seq == <<Alloc(s)>>
<1>1. PICK In, W, V : FlowOf(blocks, slot, In, W, V)
  BY FlowNow
<1> DEFINE A == Avail(blocks, cur, In)
<1>2. /\ mode = "next" /\ Top.k = "block" /\ irvar' = Append(irvar, s)
      /\ vis' = vis \cup {Declare} /\ UNCHANGED <<mode, frames, cur, slot>>
  BY DEF DeclPlain, AtItem, Declares, context
<1>3. /\ irvar'[Declare] = s /\ DOMAIN irvar \subseteq DOMAIN irvar'
      /\ \A v \in DOMAIN irvar : irvar'[v] = irvar[v]
      /\ vis \subseteq DOMAIN irvar
  BY <1>2, NewVar, NameDomain
<1>4. Lowers(0, seq)
  BY DeclPlainLowers
<1>5. Fits(Alloc(s), A, Ready(In, A)) /\ Alloc(s).def = s
  BY FitsHere
<1>6. Piece(seq, A, Ready(In, A)) /\ Made(seq) = {s}
  BY <1>5, PieceOf1
<1>7. SymsOf(vis', irvar') \subseteq A \cup Made(seq)
  <2>1. SymsOf(vis, irvar) \subseteq A
    BY <1>1, TopFlows
  <2> QED
    BY <1>2, <1>3, <1>6, <2>1 DEF SymsOf
<1>8. UNCHANGED <<slot, cur, frames>> /\ frames # <<>> /\ mode' # "value"
  BY <1>2, TopFrame
<1> HIDE DEF A, seq
<1> QED
  BY <1>1, <1>2, <1>3, <1>4, <1>6, <1>7, <1>8, EmitSame DEF A

LEMMA DeclInitFlows ==
    ASSUME Control, BlockInv, FlowInv, NEW x, DeclInit(x)
    PROVE  FlowInv'
<1> DEFINE f == [k |-> "init", var |-> Declare]
<1>1. PICK In, W, V : FlowOf(blocks, slot, In, W, V)
  BY FlowNow
<1> DEFINE A == Avail(blocks, cur, In)
<1>2. /\ mode = "next" /\ Top.k = "block" /\ irvar' = Append(irvar, Null)
      /\ vis' = vis \cup {Declare} /\ UNCHANGED <<blocks, cur, slot>>
      /\ mode' = "exp" /\ frames' = Append(frames, f)
      /\ f.k = "init" /\ f.var = Declare
  BY DEF DeclInit, AtItem, Declares, Evaluate, context
<1>3. /\ irvar'[Declare] = Null /\ DOMAIN irvar \subseteq DOMAIN irvar'
      /\ Declare \notin DOMAIN irvar /\ Declare \in DOMAIN irvar'
      /\ \A v \in DOMAIN irvar : irvar'[v] = irvar[v]
  BY <1>2, NewVar, NameDomain
<1>4. Coded(In, In) /\ A = Avail(blocks', cur', In) /\ A \subseteq A
  BY <1>1, <1>2, NoCode
<1>5. FrameFlows(f, A, In)
  BY <1>2 DEF FrameFlows, Back, LoopKinds
<1>6. UNCHANGED slot /\ frames # <<>> /\ mode' # "value"
  BY <1>2, TopFrame
<1>7. /\ f.k # "block" /\ f.k # "assign" /\ vis' = vis \cup {f.var}
      /\ f.var \notin DOMAIN irvar /\ f.var \in DOMAIN irvar' /\ irvar'[f.var] = Null
  BY <1>2, <1>3
<1> HIDE DEF A, f
<1> QED
  BY <1>1, <1>2, <1>3, <1>4, <1>5, <1>6, <1>7, PushFlows DEF A

LEMMA AfterInitFlows ==
    ASSUME Control, FlowInv, AfterInit
    PROVE  FlowInv'
<1> DEFINE s == nsym + 1
           seq == <<Alloc(s), Store(val, s)>>
<1>1. PICK In, W, V : /\ FlowOf(blocks, slot, In, W, V)
                      /\ mode = "value" => Operand(val, Avail(blocks, cur, In))
  BY FlowNow
<1> DEFINE A == Avail(blocks, cur, In)
<1>2. /\ mode = "value" /\ Top.k = "init" /\ irvar' = [irvar EXCEPT ![Top.var] = s]
      /\ mode' = "next" /\ frames' = Rest /\ UNCHANGED <<vis, cur, slot>>
  BY DEF AfterInit, context
<1>3. Top.var \in DOMAIN irvar /\ Len(frames) > 1
  <2>1. /\ Top \in FramesNow /\ frames[1].k = "block" /\ Top = frames[Len(frames)]
        /\ Len(frames) \in Nat /\ Len(frames) >= 1
    BY <1>2, TopFrame
  <2>2. Top.var \in 1..Len(irvar)
    BY <1>2, <2>1, FrameFields DEF FramesNow
  <2>3. Len(frames) # 1
    BY <1>2, <2>1
  <2>4. Len(frames) > 1
    <3> DEFINE n == Len(frames)
    <3>1. n \in Nat /\ n >= 1 /\ n # 1
      BY <1>2, <2>3, TopFrame
    <3> HIDE DEF n
    <3>2. n > 1
      BY <3>1
    <3> QED
      BY <3>2 DEF n
  <2>5. Top.var \in DOMAIN irvar
    BY <2>2, NameDomain
  <2> QED
    BY <2>4, <2>5
<1>4. Lowers(0, seq)
  BY AfterInitLowers
<1>5. Fits(Alloc(s), A, Ready(In, A)) /\ Alloc(s).def = s
  BY FitsHere
<1>6. Operand(val, A \cup {s}) /\ Operand(s, A \cup {s})
  BY <1>1, <1>2 DEF Operand
<1>7. Fits(Store(val, s), A \cup {s}, Ready(In, A))
  BY <1>6, FitsHere
<1>8. Piece(seq, A, Ready(In, A)) /\ s \in Made(seq)
  BY <1>5, <1>7, PieceOf2
<1>9. /\ mode # "done" /\ Top.k # "block" /\ mode' # "value"
      /\ \E x \in A \cup Made(seq) : irvar' = [irvar EXCEPT ![Top.var] = x]
  BY <1>2, <1>8
<1> HIDE DEF A, seq, s
<1>10. A = Avail(blocks, cur, In)
  BY DEF A
<1> QED
  BY <1>1, <1>2, <1>3, <1>4, <1>8, <1>9, <1>10, EmitPop

LEMMA AfterUnaryFlows ==
    ASSUME Control, FlowInv, AfterUnary
    PROVE  FlowInv'
<1>1. CASE Top.op = "+"
  BY <1>1, OverSteps
<1>2. ASSUME Top.op # "+"
      PROVE  FlowInv'
  <2> DEFINE s == nsym + 1
             seq == <<UnaryCode>>
  <2>1. PICK In, W, V : /\ FlowOf(blocks, slot, In, W, V)
                        /\ mode = "value" => Operand(val, Avail(blocks, cur, In))
    BY FlowNow
  <2> DEFINE A == Avail(blocks, cur, In)
  <2>2. /\ mode = "value" /\ Top.k = "unary" /\ frames' = Rest /\ val' = s
        /\ UNCHANGED <<mode, vis, irvar, cur, slot>>
    BY <1>2 DEF AfterUnary, context, variables
  <2>3. Lowers(0, seq)
    BY <1>2, AfterUnaryLowers
  <2>4. Operand(val, A) /\ Operand(Literal, A)
    BY <2>1, <2>2 DEF Operand
  <2>5. Fits(UnaryCode, A, Ready(In, A)) /\ UnaryCode.def = s
    BY <2>4, FitsHere DEF UnaryCode
  <2>6. Piece(seq, A, Ready(In, A)) /\ Made(seq) = {s}
    BY <2>5, PieceOf1
  <2>7. mode # "done" /\ Top.k # "block" /\ Operand(val', A \cup Made(seq))
    BY <2>2, <2>6 DEF Operand
  <2> HIDE DEF A, seq, s
  <2>8. A = Avail(blocks, cur, In)
    BY DEF A
  <2> QED
    BY <2>1, <2>2, <2>3, <2>6, <2>7, <2>8, EmitPop
<1> QED
  BY <1>1, <1>2

LEMMA AfterOpnd2Flows ==
    ASSUME Control, FlowInv, AfterOpnd2
    PROVE  FlowInv'
<1> DEFINE s == nsym + 1
           ins == BExpr(s, Top.val1, val)
           seq == <<ins>>
<1>1. PICK In, W, V : /\ FlowOf(blocks, slot, In, W, V)
                      /\ mode = "value" => Operand(val, Avail(blocks, cur, In))
  BY FlowNow
<1> DEFINE A == Avail(blocks, cur, In)
<1>2. /\ mode = "value" /\ Top.k = "opnd2" /\ frames' = Rest /\ val' = s
      /\ UNCHANGED <<mode, vis, irvar, cur, slot>>
  BY DEF AfterOpnd2, context, variables
<1>3. Lowers(0, seq)
  BY AfterOpnd2Lowers
<1>4. Operand(val, A) /\ Operand(Top.val1, A)
  <2>1. FrameFlows(Top, W[Len(frames)], In) /\ W[Len(frames)] \subseteq A
    BY <1>1, <1>2, TopFlows
  <2> QED
    BY <1>1, <1>2, <2>1 DEF FrameFlows, Operand
<1>5. Fits(ins, A, Ready(In, A)) /\ ins.def = s
  BY <1>4, FitsHere
<1>6. Piece(seq, A, Ready(In, A)) /\ Made(seq) = {s}
  BY <1>5, PieceOf1
<1>7. mode # "done" /\ Top.k # "block" /\ Operand(val', A \cup Made(seq))
  BY <1>2, <1>6 DEF Operand
<1> HIDE DEF A, seq, s
<1>8. A = Avail(blocks, cur, In)
  BY DEF A
<1> QED
  BY <1>1, <1>2, <1>3, <1>6, <1>7, <1>8, EmitPop

LEMMA LValFlows ==
    ASSUME Control, FlowInv, NEW v \in vis, LVal(v)
    PROVE  FlowInv'
<1>1. CASE irvar[v] = Null
  BY <1>1, QuietFlows DEF LVal, context, variables
<1>2. ASSUME irvar[v] # Null
      PROVE  FlowInv'
  <2> DEFINE s == nsym + 1
             ins == Load(s, irvar[v])
             seq == <<ins>>
  <2>1. PICK In, W, V : FlowOf(blocks, slot, In, W, V)
    BY FlowNow
  <2> DEFINE A == Avail(blocks, cur, In)
  <2>2. /\ val' = s /\ UNCHANGED <<frames, vis, irvar, cur, slot>>
    BY <1>2 DEF LVal, context, variables
  <2>3. Lowers(0, seq)
    BY <1>2, LValLowers
  <2>4. Operand(irvar[v], A)
    <3>1. SymsOf(vis, irvar) \subseteq A
      BY <2>1, TopFlows
    <3> QED
      BY <1>2, <3>1 DEF SymsOf, Operand
  <2>5. Fits(ins, A, Ready(In, A)) /\ ins.def = s
    BY <2>4, FitsHere
  <2>6. Piece(seq, A, Ready(In, A)) /\ Made(seq) = {s}
    BY <2>5, PieceOf1
  <2>7. Operand(val', A \cup Made(seq))
    BY <2>2, <2>6 DEF Operand
  <2> HIDE DEF A, seq, s
  <2>8. A = Avail(blocks, cur, In)
    BY DEF A
  <2> QED
    BY <2>1, <2>2, <2>3, <2>6, <2>7, <2>8, EmitSame
<1> QED
  BY <1>1, <1>2

\* No variable has the name of a temporary or of another variable.
Clear == \A v \in DOMAIN name : ~NameTaken(v) /\ ~Shared(v)

LEMMA AfterAssignFlows ==
    ASSUME Control, LowerInv, NameInv, Clear, FlowInv, AfterAssign
    PROVE  FlowInv'
<1> DEFINE v == Top.var
           ins == Store(val, symTab[name[v]])
           seq == <<ins>>
<1>1. PICK In, W, V : /\ FlowOf(blocks, slot, In, W, V)
                      /\ mode = "value" => Operand(val, Avail(blocks, cur, In))
  BY FlowNow
<1> DEFINE A == Avail(blocks, cur, In)
<1>2. /\ mode = "value" /\ Top.k = "assign" /\ frames' = Rest
      /\ UNCHANGED <<vis, irvar, cur, slot>> /\ mode' # "value"
  BY DEF AfterAssign, context, variables
<1>3. /\ Top = frames[Len(frames)] /\ Len(frames) \in DOMAIN frames
      /\ SymsOf(vis, irvar) \subseteq A /\ V[Len(frames)] = vis
  BY <1>1, <1>2, TopFlows
<1>4. v \in vis /\ v \in DOMAIN name /\ irvar[v] # Null
  <2>1. SightFlows(A, frames, vis, irvar, W, V)
    BY <1>1 DEF FlowOf
  <2>2. v \in vis
    BY <1>2, <1>3, <2>1 DEF SightFlows
  <2>3. irvar[v] # Null
    BY <1>2, <1>3 DEF LowerInv, FramesLowered, KeepsLowered
  <2> QED
    BY <2>2, <2>3, NameDomain
<1>5. name[v] \in DOMAIN symTab /\ symTab[name[v]] = irvar[v]
  <2>1. Latest(v) /\ ~Shared(v)
    BY <1>4, HeldLatest DEF Clear
  <2> QED
    BY <2>1 DEF Latest, Shared
<1>6. Lowers(0, seq)
  BY <1>5, AfterAssignLowers
<1>7. Operand(val, A) /\ Operand(irvar[v], A)
  BY <1>1, <1>2, <1>3, <1>4 DEF SymsOf, Operand
<1>8. Fits(ins, A, Ready(In, A))
  BY <1>5, <1>7, FitsHere
<1>9. Piece(seq, A, Ready(In, A))
  BY <1>8, PieceOf1
<1>10. mode # "done" /\ Top.k # "block"
  BY <1>2
<1> HIDE DEF A, seq
<1>11. A = Avail(blocks, cur, In)
  BY DEF A
<1> QED
  BY <1>1, <1>2, <1>6, <1>9, <1>10, <1>11, EmitPop

LEMMA BreakFlows ==
    ASSUME Control, FlowInv, NEW isBreak, BreakOrContinue(isBreak)
    PROVE  FlowInv'
<1> DEFINE b == IF isBreak THEN mergeB ELSE entryB
           seq == <<Jump(b)>>
<1>1. PICK In, W, V : FlowOf(blocks, slot, In, W, V)
  BY FlowNow
<1> DEFINE A == Avail(blocks, cur, In)
<1>2. /\ InLoop /\ mode' # "value" /\ UNCHANGED <<frames, vis, irvar, cur, slot>>
  BY DEF BreakOrContinue, context, variables
<1>3. b \in 3..Len(blocks) /\ Lowers(0, seq)
  BY BreakLowers
<1>4. In[b] \subseteq A
  <2>1. ContextIs(frames, Len(frames), entryB, mergeB)
    BY DEF Control, ContextOK
  <2>2. DOMAIN frames = 1..Len(frames) /\ Len(frames) \in Nat
    BY StackShape
  <2>3. Loops(frames, Len(frames)) # {}
    BY <1>2, <2>2 DEF InLoop, Loops, LoopKinds
  <2>4. PICK i \in Loops(frames, Len(frames)) :
           entryB = frames[i].entry /\ mergeB = frames[i].merge
    BY <2>1, <2>3 DEF ContextIs
  <2>5. i \in DOMAIN frames /\ b \in Back(frames[i])
    <3>1. i \in DOMAIN frames /\ frames[i].k \in LoopKinds
      BY DEF Loops
    <3>2. Back(frames[i]) = {frames[i].entry, frames[i].body, frames[i].merge}
      BY <3>1 DEF Back, LoopKinds
    <3> QED
      BY <2>4, <3>1, <3>2
  <2>6. StackFlows(A, frames, In, W)
    BY <1>1 DEF FlowOf
  <2> QED
    BY <2>5, <2>6 DEF StackFlows, FrameFlows
<1>5. b \in Ready(In, A)
  BY <1>3, <1>4, Sizes DEF Ready
<1>6. Fits(Jump(b), A, Ready(In, A))
  BY <1>5, FitsHere
<1>7. Piece(seq, A, Ready(In, A))
  BY <1>6, PieceOf1
<1> HIDE DEF A, seq, b
<1>8. A = Avail(blocks, cur, In)
  BY DEF A
<1> QED
  BY <1>1, <1>2, <1>3, <1>7, <1>8, EmitSame

-----------------------------------------------------------------------------
(* The steps that go on in another block.                                     *)

LEMMA MovePop ==
    ASSUME Control, UNCHANGED <<slot, vis, irvar>>, mode # "done", frames' = Rest,
           Top.k # "block", NEW seq, Lowers(0, seq),
           NEW In, NEW W, NEW V, FlowOf(blocks, slot, In, W, V),
           Piece(seq, Avail(blocks, cur, In), Ready(In, Avail(blocks, cur, In))),
           cur' \in DOMAIN blocks, W[Len(frames)] \subseteq In[cur'],
           mode' = "value" => Operand(val', W[Len(frames)])
    PROVE  FlowInv'
<1> DEFINE In2 == Grown(In, DOMAIN blocks', {slot})
           A2 == Avail(blocks', cur', In2)
           R == W[Len(frames)]
<1>1. Coded(In, In2)
  BY CodeStays
<1>2. In2[cur'] = In[cur'] /\ In2[cur'] \subseteq A2
  BY <1>1 DEF Coded, Avail
<1> HIDE DEF In2
<1>3. R \subseteq A2 /\ (mode' = "value" => Operand(val', A2))
  BY <1>2 DEF Operand
<1>4. FlowOf(blocks, slot', In, W, V) /\ UNCHANGED irvar
  OBVIOUS
<1>5. vis' = IF Top.k = "block" THEN Top.vis ELSE vis
  OBVIOUS
<1> HIDE DEF A2
<1>6. A2 = Avail(blocks', cur', In2)
  BY DEF A2
<1> QED
  BY <1>1, <1>3, <1>4, <1>5, <1>6, PopFlows

LEMMA MoveSwap ==
    ASSUME Control, UNCHANGED <<slot, vis, irvar>>, mode # "done",
           NEW f, frames' = Append(Rest, f), mode' # "value",
           Top.k # "block", f.k \notin {"block", "init", "assign"},
           NEW k, NEW seq, Lowers(k, seq),
           NEW In, NEW W, NEW V, FlowOf(blocks, slot, In, W, V),
           NEW N, W[Len(frames)] \subseteq N,
           NEW In2, In2 = Grown(In, DOMAIN blocks', N),
           Piece(seq, Avail(blocks, cur, In),
                 {t \in DOMAIN blocks' :
                     In2[t] \subseteq Avail(blocks, cur, In) \cup Made(seq)}),
           NEW X, W[Len(frames)] \subseteq X, X \subseteq In2[cur'],
           FrameFlows(f, X, In2)
    PROVE  FlowInv'
<1> DEFINE A == Avail(blocks, cur, In)
           A2 == Avail(blocks', cur', In2)
<1>1. slot # Null => slot \in N
  BY TopFlows
<1>2. A = Avail(blocks, cur, In) /\ X \subseteq A2 /\ UNCHANGED slot
  BY DEF Avail
<1> HIDE DEF A, A2
<1>3. Piece(seq, A, {t \in DOMAIN blocks' : In2[t] \subseteq A \cup Made(seq)})
  BY <1>2
<1>4. Coded(In, In2)
  BY <1>1, <1>2, <1>3, CodeHere
<1>5. A2 = Avail(blocks', cur', In2) /\ UNCHANGED <<vis, irvar>>
  BY DEF A2
<1> QED
  BY <1>2, <1>4, <1>5, SwapFlows

\* What a block asks for once there are others.
LEMMA GrownGives ==
    ASSUME Control, NEW k, NEW seq, Lowers(k, seq),
           NEW In, DOMAIN In = DOMAIN blocks, NEW N
    PROVE  LET In2 == Grown(In, DOMAIN blocks', N)
           IN /\ \A c \in DOMAIN blocks : c \in DOMAIN blocks' /\ In2[c] = In[c]
              /\ \A c \in NewBlocks(k) : c \in DOMAIN blocks' /\ In2[c] = N
<1>1. /\ DOMAIN blocks' = 1..Len(blocks) + k /\ Len(blocks) \in Nat
      /\ DOMAIN blocks = 1..Len(blocks) /\ k \in Nat
  BY LowersBlocks, Sizes DEF Control, Lowers
<1>2. /\ \A c \in DOMAIN blocks : c \in DOMAIN blocks'
      /\ \A c \in NewBlocks(k) : c \in DOMAIN blocks' /\ c \notin DOMAIN blocks
  BY <1>1 DEF NewBlocks
<1> QED
  BY <1>2 DEF Grown

\* The same when there are none.
LEMMA MoveSwapHere ==
    ASSUME Control, UNCHANGED <<slot, vis, irvar>>, mode # "done",
           NEW f, frames' = Append(Rest, f), mode' # "value",
           Top.k # "block", f.k \notin {"block", "init", "assign"},
           NEW seq, Lowers(0, seq),
           NEW In, NEW W, NEW V, FlowOf(blocks, slot, In, W, V),
           Piece(seq, Avail(blocks, cur, In), Ready(In, Avail(blocks, cur, In))),
           cur' \in DOMAIN blocks, W[Len(frames)] \subseteq In[cur'],
           Back(f) \subseteq DOMAIN blocks, FrameFlows(f, W[Len(frames)], In)
    PROVE  FlowInv'
<1> DEFINE A == Avail(blocks, cur, In)
           X == W[Len(frames)]
           In2 == Grown(In, DOMAIN blocks', X)
           T == {t \in DOMAIN blocks' : In2[t] \subseteq A \cup Made(seq)}
<1>1. DOMAIN In = DOMAIN blocks
  BY DEF FlowOf, Flows
<1>2. \A c \in DOMAIN blocks : c \in DOMAIN blocks' /\ In2[c] = In[c]
  BY <1>1, GrownGives
<1> HIDE DEF In2, A, X
<1>3. Ready(In, A) \subseteq T
  BY <1>2 DEF Ready
<1>4. Piece(seq, A, Ready(In, A)) /\ FrameFlows(f, X, In) /\ X \subseteq In[cur']
  BY DEF A, X
<1>5. Piece(seq, A, T)
  <2> HIDE DEF T
  <2> QED
    BY <1>3, <1>4, PieceTo
<1>6. X \subseteq In2[cur'] /\ FrameFlows(f, X, In2)
  BY <1>2, <1>4 DEF FrameFlows
<1>7. In2 = Grown(In, DOMAIN blocks', X) /\ X = W[Len(frames)] /\ W[Len(frames)] \subseteq X
  BY DEF In2, X
<1>8. Piece(seq, Avail(blocks, cur, In),
            {t \in DOMAIN blocks' :
                In2[t] \subseteq Avail(blocks, cur, In) \cup Made(seq)})
  BY <1>5 DEF A
<1>9. UNCHANGED <<slot, vis, irvar>>
  OBVIOUS
<1> QED
  BY <1>6, <1>7, <1>8, <1>9, MoveSwap

\* A visit that goes back to a block finds it asking for what the visit counts on.
LEMMA BackHere ==
    ASSUME Control, mode # "done",
           NEW In, NEW W, NEW V, FlowOf(blocks, slot, In, W, V)
    PROVE  \A b \in Back(Top) :
              /\ b \in DOMAIN blocks /\ In[b] = W[Len(frames)]
              /\ b \in Ready(In, Avail(blocks, cur, In))
<1>1. /\ FrameFlows(Top, W[Len(frames)], In) /\ Len(frames) \in DOMAIN frames
      /\ W[Len(frames)] \subseteq Avail(blocks, cur, In)
      /\ Top = frames[Len(frames)]
  BY TopFlows
<1>2. Back(Top) \subseteq DOMAIN blocks
  BY <1>1, FramesBack
<1>3. \A b \in Back(Top) : In[b] = W[Len(frames)]
  BY <1>1 DEF FrameFlows
<1> QED
  BY <1>1, <1>2, <1>3 DEF Ready

LEMMA JoinFits ==
    ASSUME NEW S, NEW T, NEW merge \in T
    PROVE  Piece(JoinCode(merge), S, T)
<1>1. CASE Terminated
  <2>1. DOMAIN <<>> = {}
    OBVIOUS
  <2> QED
    BY <1>1, <2>1 DEF JoinCode, Piece, UsesDefined, EndsQuiet, GoesTo
<1>2. CASE ~Terminated
  <2>1. Fits(Jump(merge), S, T)
    BY FitsHere
  <2>2. Piece(<<Jump(merge)>>, S, T)
    BY <2>1, PieceOf1
  <2> QED
    BY <1>2, <2>2 DEF JoinCode
<1> QED
  BY <1>1, <1>2

LEMMA AfterThenFlows ==
    ASSUME Control, FlowInv, AfterThen
    PROVE  FlowInv'
<1> DEFINE merge == Top.merge
           seq == JoinCode(merge)
<1>1. PICK In, W, V : FlowOf(blocks, slot, In, W, V)
  BY FlowNow
<1> DEFINE A == Avail(blocks, cur, In)
<1>2. /\ mode = "next" /\ Top.k = "then" /\ UNCHANGED <<slot, vis, irvar>>
      /\ mode # "done" /\ Top.k # "block"
  BY DEF AfterThen, variables
<1>3. Lowers(0, seq)
  BY AfterThenLowers DEF JoinCode
<1>4. Back(Top) = {Top.else, merge} \ {Null} /\ merge # Null
  BY <1>2, AfterThenLowers DEF Back, LoopKinds, Null
<1>5. /\ merge \in DOMAIN blocks /\ In[merge] = W[Len(frames)]
      /\ merge \in Ready(In, A)
      /\ Top.else # Null => Top.else \in DOMAIN blocks /\ In[Top.else] = W[Len(frames)]
  BY <1>1, <1>2, <1>4, BackHere
<1>6. Piece(seq, A, Ready(In, A))
  BY <1>5, JoinFits
<1>7. CASE Top.else = Null
  <2>1. cur' = merge /\ frames' = Rest /\ mode' # "value"
    BY <1>2, <1>7 DEF AfterThen
  <2> HIDE DEF seq
  <2> QED
    BY <1>1, <1>2, <1>3, <1>5, <1>6, <2>1, MovePop
<1>8. CASE Top.else # Null
  <2> DEFINE f == [k |-> "else", merge |-> merge]
  <2>1. /\ cur' = Top.else /\ frames' = Append(Rest, f) /\ mode' # "value"
        /\ f.k = "else" /\ f.merge = merge
    BY <1>2, <1>8 DEF AfterThen
  <2> HIDE DEF f
  <2>2. Back(f) = {merge}
    BY <2>1 DEF Back, LoopKinds
  <2>3. FrameFlows(f, W[Len(frames)], In)
    BY <1>5, <2>1, <2>2 DEF FrameFlows
  <2>4. /\ cur' \in DOMAIN blocks /\ W[Len(frames)] \subseteq In[cur']
        /\ Back(f) \subseteq DOMAIN blocks /\ f.k \notin {"block", "init", "assign"}
    BY <1>5, <1>8, <2>1, <2>2
  <2> HIDE DEF seq
  <2> QED
    BY <1>1, <1>2, <1>3, <1>6, <2>1, <2>3, <2>4, MoveSwapHere
<1> QED
  BY <1>7, <1>8

LEMMA AfterElseFlows ==
    ASSUME Control, FlowInv, AfterElse
    PROVE  FlowInv'
<1> DEFINE merge == Top.merge
           seq == JoinCode(merge)
<1>1. PICK In, W, V : FlowOf(blocks, slot, In, W, V)
  BY FlowNow
<1> DEFINE A == Avail(blocks, cur, In)
<1>2. /\ mode = "next" /\ Top.k = "else" /\ UNCHANGED <<slot, vis, irvar>>
      /\ mode # "done" /\ Top.k # "block"
      /\ cur' = merge /\ frames' = Rest /\ mode' # "value"
  BY DEF AfterElse, variables
<1>3. Lowers(0, seq)
  BY AfterElseLowers DEF JoinCode
<1>4. Back(Top) = {merge}
  BY <1>2 DEF Back, LoopKinds
<1>5. /\ merge \in DOMAIN blocks /\ In[merge] = W[Len(frames)]
      /\ merge \in Ready(In, A)
  BY <1>1, <1>2, <1>4, BackHere
<1>6. Piece(seq, A, Ready(In, A))
  BY <1>5, JoinFits
<1> HIDE DEF seq
<1> QED
  BY <1>1, <1>2, <1>3, <1>5, <1>6, MovePop

LEMMA AfterBodyFlows ==
    ASSUME Control, FlowInv, AfterBody
    PROVE  FlowInv'
<1> DEFINE seq == <<Jump(Top.entry)>>
<1>1. PICK In, W, V : FlowOf(blocks, slot, In, W, V)
  BY FlowNow
<1> DEFINE A == Avail(blocks, cur, In)
<1>2. /\ mode = "next" /\ Top.k = "body" /\ UNCHANGED <<slot, vis, irvar>>
      /\ mode # "done" /\ Top.k # "block"
      /\ cur' = Top.merge /\ frames' = Rest /\ mode' # "value"
  BY DEF AfterBody, variables
<1>3. Lowers(0, seq)
  BY AfterBodyLowers
<1>4. Back(Top) = {Top.entry, Top.body, Top.merge}
  BY <1>2 DEF Back, LoopKinds
<1>5. /\ cur' \in DOMAIN blocks /\ W[Len(frames)] \subseteq In[cur']
      /\ Top.entry \in Ready(In, A)
  BY <1>1, <1>2, <1>4, BackHere
<1>6. Fits(Jump(Top.entry), A, Ready(In, A))
  BY <1>5, FitsHere
<1>7. Piece(seq, A, Ready(In, A))
  BY <1>6, PieceOf1
<1> HIDE DEF seq
<1> QED
  BY <1>1, <1>2, <1>3, <1>5, <1>7, MovePop

LEMMA AfterWhileCondFlows ==
    ASSUME Control, FlowInv, AfterWhileCond
    PROVE  FlowInv'
<1> DEFINE ins == Br(val, Top.body, Top.merge)
           seq == <<ins>>
           f == BodyFrame
<1>1. PICK In, W, V : /\ FlowOf(blocks, slot, In, W, V)
                      /\ mode = "value" => Operand(val, Avail(blocks, cur, In))
  BY FlowNow
<1> DEFINE A == Avail(blocks, cur, In)
<1>2. /\ mode = "value" /\ Top.k = "while" /\ UNCHANGED <<slot, vis, irvar>>
      /\ mode # "done" /\ Top.k # "block"
      /\ cur' = Top.body /\ mode' # "value"
  BY DEF AfterWhileCond, variables
<1>3. Lowers(0, seq)
  BY AfterWhileCondLowers
<1>4. Back(Top) = {Top.entry, Top.body, Top.merge}
  BY <1>2 DEF Back, LoopKinds
<1>5. /\ \A b \in Back(Top) : b \in DOMAIN blocks /\ In[b] = W[Len(frames)]
      /\ {Top.body, Top.merge} \subseteq Ready(In, A) /\ Top.body \in Back(Top)
  BY <1>1, <1>2, <1>4, BackHere
<1>6. Fits(ins, A, Ready(In, A))
  BY <1>1, <1>2, <1>5, FitsHere
<1>7. Piece(seq, A, Ready(In, A))
  BY <1>6, PieceOf1
<1>8. /\ frames' = Append(Rest, f) /\ f.k = "body"
      /\ f.entry = Top.entry /\ f.body = Top.body /\ f.merge = Top.merge
  BY BodyEntered DEF BodyFrame
<1> HIDE DEF f
<1>9. Back(f) = Back(Top)
  BY <1>4, <1>8 DEF Back, LoopKinds
<1>10. FrameFlows(f, W[Len(frames)], In)
  BY <1>5, <1>8, <1>9 DEF FrameFlows
<1>11. /\ cur' \in DOMAIN blocks /\ W[Len(frames)] \subseteq In[cur']
       /\ Back(f) \subseteq DOMAIN blocks /\ f.k \notin {"block", "init", "assign"}
  BY <1>2, <1>5, <1>8, <1>9
<1> HIDE DEF seq
<1> QED
  BY <1>1, <1>2, <1>3, <1>7, <1>8, <1>10, <1>11, MoveSwapHere

LEMMA AfterIfCondFlows ==
    ASSUME Control, FlowInv, AfterIfCond
    PROVE  FlowInv'
<1> DEFINE n == Len(blocks)
           k == IF Top.else THEN 3 ELSE 2
           seq == <<Br(val, n + 1, n + 2)>>
           elseB == IF Top.else THEN n + 2 ELSE Null
           merge == IF Top.else THEN n + 3 ELSE n + 2
           f == [k |-> "then", else |-> elseB, merge |-> merge]
<1>1. PICK In, W, V : /\ FlowOf(blocks, slot, In, W, V)
                      /\ mode = "value" => Operand(val, Avail(blocks, cur, In))
  BY FlowNow
<1> DEFINE A == Avail(blocks, cur, In)
           N == W[Len(frames)]
           In2 == Grown(In, DOMAIN blocks', N)
           T == {t \in DOMAIN blocks' : In2[t] \subseteq A \cup Made(seq)}
<1>2. /\ mode = "value" /\ Top.k = "if" /\ UNCHANGED <<slot, vis, irvar>>
      /\ mode # "done" /\ Top.k # "block" /\ mode' # "value"
      /\ cur' = n + 1 /\ frames' = Append(Rest, f)
  BY DEF AfterIfCond, variables
<1>3. Lowers(k, seq)
  BY AfterIfCondLowers
<1>4. n \in Nat /\ n + 1 \in NewBlocks(k) /\ n + 2 \in NewBlocks(k)
      /\ {elseB, merge} \ {Null} \subseteq NewBlocks(k)
  BY Sizes DEF NewBlocks
<1>5. f.k = "then" /\ f.else = elseB /\ f.merge = merge
  OBVIOUS
<1> HIDE DEF f, elseB, merge, k
<1>6. DOMAIN In = DOMAIN blocks
  BY <1>1 DEF FlowOf, Flows
<1>7. \A c \in NewBlocks(k) : c \in DOMAIN blocks' /\ In2[c] = N
  BY <1>3, <1>6, GrownGives
<1>8. N \subseteq A
  BY <1>1, <1>2, TopFlows
<1> HIDE DEF In2, N, A
<1>9. n + 1 \in T /\ n + 2 \in T
  BY <1>4, <1>7, <1>8
<1>10. Operand(val, A)
  BY <1>1, <1>2 DEF A
<1>11. Fits(Br(val, n + 1, n + 2), A, T)
  <2> HIDE DEF T, n
  <2> QED
    BY <1>9, <1>10, FitsHere
<1>12. Piece(seq, A, T)
  <2> HIDE DEF T
  <2> QED
    BY <1>11, PieceOf1
<1>13. Back(f) = {elseB, merge} \ {Null}
  BY <1>5 DEF Back, LoopKinds
<1>14. FrameFlows(f, N, In2)
  BY <1>4, <1>5, <1>7, <1>13 DEF FrameFlows
<1>15. N \subseteq In2[cur'] /\ W[Len(frames)] \subseteq N
  BY <1>2, <1>4, <1>7 DEF N
<1>16. Piece(seq, Avail(blocks, cur, In),
             {t \in DOMAIN blocks' :
                 In2[t] \subseteq Avail(blocks, cur, In) \cup Made(seq)})
  BY <1>12 DEF A
<1>17. In2 = Grown(In, DOMAIN blocks', N)
  BY DEF In2
<1>18. f.k \notin {"block", "init", "assign"}
  BY <1>5
<1> HIDE DEF seq
<1> QED
  BY <1>1, <1>2, <1>3, <1>14, <1>15, <1>16, <1>17, <1>18, MoveSwap

LEMMA AfterLhsFlows ==
    ASSUME Control, FlowInv, AfterLhs
    PROVE  FlowInv'
<1> DEFINE n == Len(blocks)
           ret == nsym + 1
           cond == nsym + 2
           seq == ShortCircuitCode
           f == [k |-> "rhs", ret |-> ret, merge |-> n + 2]
<1>1. PICK In, W, V : /\ FlowOf(blocks, slot, In, W, V)
                      /\ mode = "value" => Operand(val, Avail(blocks, cur, In))
  BY FlowNow
<1> DEFINE A == Avail(blocks, cur, In)
           N == W[Len(frames)] \cup {ret}
           In2 == Grown(In, DOMAIN blocks', N)
           T == {t \in DOMAIN blocks' : In2[t] \subseteq A \cup Made(seq)}
<1>2. /\ mode = "value" /\ Top.k = "lhs" /\ UNCHANGED <<slot, vis, irvar>>
      /\ mode # "done" /\ Top.k # "block" /\ mode' # "value"
      /\ cur' = n + 1 /\ frames' = Append(Rest, f)
  BY DEF AfterLhs, variables
<1>3. Lowers(2, seq)
  BY AfterLhsLowers
<1>4. n \in Nat /\ n + 1 \in NewBlocks(2) /\ n + 2 \in NewBlocks(2)
  BY Sizes DEF NewBlocks
<1>5. f.k = "rhs" /\ f.ret = ret /\ f.merge = n + 2
  OBVIOUS
<1> HIDE DEF f
<1>6. DOMAIN In = DOMAIN blocks
  BY <1>1 DEF FlowOf, Flows
<1>7. \A c \in NewBlocks(2) : c \in DOMAIN blocks' /\ In2[c] = N
  BY <1>3, <1>6, GrownGives
<1>8. W[Len(frames)] \subseteq A
  BY <1>1, <1>2, TopFlows
<1>9. Operand(val, A) /\ ret \in N /\ W[Len(frames)] \subseteq N
      /\ N \subseteq A \cup {ret}
  BY <1>1, <1>2, <1>8
<1>10. In2 = Grown(In, DOMAIN blocks', N) /\ A = Avail(blocks, cur, In)
  OBVIOUS
<1> DEFINE w == Alloc(ret)
           x == Store(Literal, ret)
           y == BExpr(cond, val, Literal)
           z == Br(cond, n + 1, n + 2)
<1>11. seq = <<w, x, y, z>>
  BY DEF ShortCircuitCode
<1> HIDE DEF In2, N, A, seq
<1>12. w.def = ret /\ y.def = cond
  BY FitsHere
<1> DEFINE T2 == {t \in DOMAIN blocks' : In2[t] \subseteq A \cup {ret}}
           S1 == A \cup {w.def}
           S2 == A \cup {w.def, x.def}
           S3 == A \cup {w.def, x.def, y.def}
<1>13. n + 1 \in T2 /\ n + 2 \in T2
  BY <1>4, <1>7, <1>9
<1> HIDE DEF T2, ret, cond
<1>14. Fits(w, A, T2)
  BY FitsHere
<1>15. Fits(x, S1, T2)
  <2>1. Operand(Literal, S1) /\ Operand(ret, S1)
    BY <1>12 DEF Operand
  <2> HIDE DEF S1
  <2> QED
    BY <2>1, FitsHere
<1>16. Fits(y, S2, T2)
  <2>1. Operand(Literal, S2) /\ Operand(val, S2)
    BY <1>9 DEF Operand
  <2> HIDE DEF S2
  <2> QED
    BY <2>1, FitsHere
<1>17. Fits(z, S3, T2)
  <2>1. Operand(cond, S3)
    BY <1>12 DEF Operand
  <2> HIDE DEF S3, n
  <2> QED
    BY <1>13, <2>1, FitsHere
<1> HIDE DEF w, x, y, z
<1>18. Piece(seq, A, T2) /\ ret \in Made(seq)
  BY <1>11, <1>12, <1>14, <1>15, <1>16, <1>17, PieceOf4
<1>19. T2 \subseteq T
  BY <1>18 DEF T2
<1>20. Piece(seq, A, T)
  <2> HIDE DEF T
  <2> QED
    BY <1>18, <1>19, PieceTo
<1>21. Back(f) = {n + 2}
  BY <1>5 DEF Back, LoopKinds
<1>22. FrameFlows(f, N, In2)
  BY <1>4, <1>5, <1>7, <1>9, <1>21 DEF FrameFlows
<1>23. N \subseteq In2[cur']
  BY <1>2, <1>4, <1>7
<1>24. Piece(seq, Avail(blocks, cur, In),
             {t \in DOMAIN blocks' :
                 In2[t] \subseteq Avail(blocks, cur, In) \cup Made(seq)})
  BY <1>20 DEF A
<1>25. f.k \notin {"block", "init", "assign"}
  BY <1>5
<1> QED
  BY <1>1, <1>2, <1>3, <1>9, <1>10, <1>22, <1>23, <1>24, <1>25, MoveSwap

LEMMA AfterRhsFlows ==
    ASSUME Control, FlowInv, AfterRhs
    PROVE  FlowInv'
<1>1. CASE Terminated
  <2>1. /\ mode = "value" /\ Top.k = "rhs" /\ frames' = Rest /\ mode' = "crash"
        /\ UNCHANGED <<blocks, cur, slot, vis, irvar>>
    BY <1>1 DEF AfterRhs, variables
  <2> QED
    BY <2>1, OverFlows
<1>2. ASSUME ~Terminated
      PROVE  FlowInv'
  <2> DEFINE s == nsym + 1
             merge == Top.merge
             ret == Top.ret
             seq == RhsCode
             x == BExpr(s, val, Literal)
             y == Load(ret, s)
             z == Jump(merge)
  <2>1. PICK In, W, V : /\ FlowOf(blocks, slot, In, W, V)
                        /\ mode = "value" => Operand(val, Avail(blocks, cur, In))
    BY FlowNow
  <2> DEFINE A == Avail(blocks, cur, In)
             T == Ready(In, A)
  <2>2. /\ mode = "value" /\ Top.k = "rhs" /\ UNCHANGED <<slot, vis, irvar>>
        /\ mode # "done" /\ Top.k # "block"
        /\ cur' = merge /\ frames' = Rest /\ val' = ret
    BY <1>2 DEF AfterRhs, variables
  <2>3. Lowers(0, seq)
    BY <1>2, AfterRhsLowers
  <2>4. Back(Top) = {merge}
    BY <2>2 DEF Back, LoopKinds
  <2>5. merge \in DOMAIN blocks /\ In[merge] = W[Len(frames)] /\ merge \in T
    BY <2>1, <2>2, <2>4, BackHere
  <2>6. FrameFlows(Top, W[Len(frames)], In)
    BY <2>1, <2>2, TopFlows
  <2>7. Operand(val', W[Len(frames)])
    BY <2>2, <2>6 DEF FrameFlows, Operand
  <2>8. Operand(val, A) /\ Operand(Literal, A)
    BY <2>1, <2>2 DEF Operand
  <2>9. seq = <<x, y, z>>
    BY DEF RhsCode
  <2> HIDE DEF seq
  <2> DEFINE S1 == A \cup {x.def}
             S2 == A \cup {x.def, y.def}
  <2>10. x.def = s
    BY FitsHere
  <2> HIDE DEF s
  <2>11. Fits(x, A, T)
    <3> HIDE DEF T, A
    <3> QED
      BY <2>8, FitsHere
  <2>12. Fits(y, S1, T)
    <3>1. Operand(s, S1)
      BY <2>10 DEF Operand
    <3> HIDE DEF T, S1
    <3> QED
      BY <3>1, FitsHere
  <2>13. Fits(z, S2, T)
    <3> HIDE DEF T, S2
    <3> QED
      BY <2>5, FitsHere
  <2> HIDE DEF x, y, z, T, A
  <2>14. Piece(seq, A, T)
    BY <2>9, <2>11, <2>12, <2>13, PieceOf3
  <2> QED
    BY <2>1, <2>2, <2>3, <2>5, <2>7, <2>14, MovePop DEF A, T
<1> QED
  BY <1>1, <1>2

LEMMA WhileFlows ==
    ASSUME Control, BlockInv, FlowInv, NEW stmt, While(stmt)
    PROVE  FlowInv'
<1> DEFINE n == Len(blocks)
           seq == <<Jump(n + 1)>>
           f == [k |-> "while", stmt |-> stmt, entry |-> n + 1, body |-> n + 2,
                 merge |-> n + 3, preEntry |-> entryB, preMerge |-> mergeB]
<1>1. PICK In, W, V : FlowOf(blocks, slot, In, W, V)
  BY FlowNow
<1> DEFINE A == Avail(blocks, cur, In)
           In2 == Grown(In, DOMAIN blocks', A)
           T == {t \in DOMAIN blocks' : In2[t] \subseteq A \cup Made(seq)}
           A2 == Avail(blocks', cur', In2)
<1>2. /\ UNCHANGED <<slot, vis, irvar>> /\ mode' # "value"
      /\ cur' = n + 1 /\ frames' = Append(frames, f)
  BY DEF While, Evaluate, variables
<1>3. Lowers(3, seq)
  BY WhileLowers
<1>4. n \in Nat /\ {n + 1, n + 2, n + 3} \subseteq NewBlocks(3)
  BY Sizes DEF NewBlocks
<1>5. f.k = "while" /\ f.entry = n + 1 /\ f.body = n + 2 /\ f.merge = n + 3
  OBVIOUS
<1> HIDE DEF f
<1>6. DOMAIN In = DOMAIN blocks
  BY <1>1 DEF FlowOf, Flows
<1>7. \A c \in NewBlocks(3) : c \in DOMAIN blocks' /\ In2[c] = A
  BY <1>3, <1>6, GrownGives
<1>8. slot # Null => slot \in A
  BY <1>1, SlotHere
<1>9. In2 = Grown(In, DOMAIN blocks', A) /\ A = Avail(blocks, cur, In)
      /\ A2 = Avail(blocks', cur', In2) /\ In2[cur'] \subseteq A2
  BY DEF Avail
<1> HIDE DEF In2, A, A2
<1>10. n + 1 \in T
  BY <1>4, <1>7
<1>11. Fits(Jump(n + 1), A, T)
  <2> HIDE DEF T, n
  <2> QED
    BY <1>10, FitsHere
<1>12. Piece(seq, A, T)
  <2> HIDE DEF T
  <2> QED
    BY <1>11, PieceOf1
<1>13. Back(f) = {n + 1, n + 2, n + 3}
  BY <1>5 DEF Back, LoopKinds
<1>14. FrameFlows(f, A, In2)
  BY <1>4, <1>5, <1>7, <1>13 DEF FrameFlows
<1>15. A \subseteq A2
  BY <1>2, <1>4, <1>7, <1>9
<1> HIDE DEF seq
<1>16. Coded(In, In2)
  BY <1>1, <1>2, <1>3, <1>8, <1>9, <1>12, CodeHere
<1>17. /\ f.k # "block" /\ f.k # "assign" /\ f.k # "init"
       /\ UNCHANGED slot /\ UNCHANGED <<vis, irvar>>
  BY <1>2, <1>5
<1> QED
  BY <1>1, <1>2, <1>9, <1>14, <1>15, <1>16, <1>17, PushFlows

-----------------------------------------------------------------------------
(* A return. The first one makes the slot, which is then defined everywhere.  *)

\* What is asked for, once s is defined at the head of the entry.
SlotAsked(In, s) == [b \in DOMAIN In |-> IF b = Entry THEN {} ELSE In[b] \cup {s}]
SlotKept(W, s) == [i \in DOMAIN W |-> W[i] \cup {s}]

LEMMA SlotIn ==
    ASSUME Control, NEW s
    PROVE  /\ DOMAIN WithSlot(blocks, s) = DOMAIN blocks
           /\ \A c \in DOMAIN blocks :
                 WithSlot(blocks, s)[c].instrs
                    = IF c = Entry THEN <<Alloc(s)>> \o blocks[c].instrs
                      ELSE IF c = Exit THEN blocks[c].instrs \o SlotCode(s)
                      ELSE blocks[c].instrs
<1>1. IsBlocks(blocks) /\ Len(blocks) >= 2
  BY Sizes
<1> QED
  BY <1>1, SlotGives

LEMMA SlotMade ==
    ASSUME Control, BlockInv, slot = Null, NEW s, s = nsym + 1,
           NEW In, Flows(blocks, In), In[Entry] = {}, In[Exit] = {},
           NEW In2, In2 = SlotAsked(In, s), NEW bs, bs = WithSlot(blocks, s)
    PROVE  /\ Flows(bs, In2)
           /\ \A b \in DOMAIN blocks :
                 Avail(blocks, b, In) \cup {s} \subseteq Avail(bs, b, In2)
<1> DEFINE I == Instrs(nsym + 2, Len(blocks))
           old(b) == blocks[b].instrs
<1>1. /\ IsBlocks(blocks) /\ Len(blocks) >= 2 /\ Len(blocks) \in Nat /\ nsym \in Nat
      /\ 1 \in DOMAIN blocks /\ 2 \in DOMAIN blocks /\ nsym + 2 \in Nat
      /\ DOMAIN In = DOMAIN blocks
  BY Sizes DEF Flows
<1>2. /\ DOMAIN bs = DOMAIN blocks
      /\ \A c \in DOMAIN blocks :
            bs[c].instrs = IF c = Entry THEN <<Alloc(s)>> \o old(c)
                           ELSE IF c = Exit THEN old(c) \o SlotCode(s)
                           ELSE old(c)
  BY SlotIn
<1>3. \A b \in DOMAIN blocks : old(b) \in Seq(I)
  BY <1>1, CodeTyped
<1>4. old(Exit) = <<>>
  BY DEF BlockInv, Laid, Slotted
<1>5. /\ DOMAIN In2 = DOMAIN blocks /\ In2[Entry] = {} /\ In2[Exit] = {s}
      /\ \A b \in DOMAIN blocks : b # Entry => In2[b] = In[b] \cup {s}
  BY <1>1 DEF SlotAsked, Entry, Exit
<1>6. Alloc(s) \in I
  BY <1>1, InstrsTyped
<1> DEFINE T(b) == {t \in DOMAIN blocks : In[t] \subseteq Avail(blocks, b, In)}
           T2(b) == {t \in DOMAIN bs : In2[t] \subseteq Avail(bs, b, In2)}
<1>7. \A b \in DOMAIN blocks : /\ UsesDefined(old(b), In[b]) /\ EndsQuiet(old(b))
                               /\ GoesTo(old(b)) \subseteq T(b)
  BY DEF Flows, Piece
<1> HIDE DEF I, old
<1>8. ASSUME NEW b \in DOMAIN blocks,
             Avail(blocks, b, In) \cup {s} \subseteq Avail(bs, b, In2)
      PROVE  T(b) \subseteq T2(b)
  <2> SUFFICES ASSUME NEW t \in T(b)
               PROVE  In2[t] \subseteq Avail(bs, b, In2)
    BY <1>2
  <2> QED
    BY <1>5, <1>8
<1> DEFINE Good(b) == /\ Avail(blocks, b, In) \cup {s} \subseteq Avail(bs, b, In2)
                      /\ Piece(bs[b].instrs, In2[b], T2(b))
<1>9. Good(Entry)
  <2> DEFINE q == <<Alloc(s)>>
             c == q \o old(Entry)
  <2>1. bs[Entry].instrs = c /\ Entry \in DOMAIN blocks
    BY <1>1, <1>2 DEF Entry
  <2>2. Piece(q, {}, {}) /\ Made(q) = {s}
    <3>1. Fits(Alloc(s), {}, {}) /\ Alloc(s).def = s
      BY FitsHere
    <3> QED
      BY <3>1, PieceOf1
  <2>3. q \in Seq(I) /\ old(Entry) \in Seq(I)
    BY <1>3, <1>6, <2>1
  <2> HIDE DEF q
  <2>4. Made(c) = {s} \cup Made(old(Entry)) /\ GoesTo(c) = GoesTo(old(Entry))
    <3>1. Made(c) = Made(q) \cup Made(old(Entry))
      BY <2>3, MadeConcat
    <3>2. GoesTo(c) = GoesTo(q) \cup GoesTo(old(Entry))
      BY <2>3, MadeConcat
    <3>3. GoesTo(q) = {}
      BY <2>2 DEF Piece
    <3> QED
      BY <2>2, <3>1, <3>2, <3>3
  <2>5. UsesDefined(old(Entry), {} \cup Made(q))
    <3>1. UsesDefined(old(Entry), {}) /\ {} \subseteq {} \cup Made(q)
      BY <1>7, <2>1
    <3> QED
      BY <3>1, PieceWider
  <2>6. UsesDefined(c, {}) /\ EndsQuiet(c)
    BY <1>7, <2>1, <2>2, <2>3, <2>5, PieceConcat DEF Piece
  <2> HIDE DEF c
  <2>7. Avail(blocks, Entry, In) \cup {s} \subseteq Avail(bs, Entry, In2)
    BY <1>5, <2>1, <2>4 DEF Avail, old
  <2>8. T(Entry) \subseteq T2(Entry)
    BY <1>8, <2>1, <2>7
  <2> QED
    BY <1>5, <1>7, <2>1, <2>4, <2>6, <2>7, <2>8 DEF Piece
<1>10. Good(Exit)
  <2>1. bs[Exit].instrs = SlotCode(s) /\ Exit \in DOMAIN blocks
    <3>1. /\ bs[Exit].instrs = old(Exit) \o SlotCode(s) /\ Exit \in DOMAIN blocks
      <4>1. Exit \in DOMAIN blocks /\ Exit # Entry
        BY <1>1 DEF Entry, Exit
      <4> QED
        BY <1>2, <4>1
    <3>2. <<>> \o SlotCode(s) = SlotCode(s)
      BY DEF SlotCode
    <3> QED
      BY <1>4, <3>1, <3>2
  <2>2. Fits(Load(s + 1, s), {s}, {}) /\ Load(s + 1, s).def = s + 1
    BY FitsHere DEF Operand
  <2>3. Fits(Ret(s + 1), {s} \cup {Load(s + 1, s).def}, {})
    <3> DEFINE S == {s} \cup {Load(s + 1, s).def}
    <3>1. Operand(s + 1, S)
      BY <2>2 DEF Operand
    <3> HIDE DEF S
    <3> QED
      BY <3>1, FitsHere DEF S
  <2>4. Piece(SlotCode(s), {s}, {})
    BY <2>2, <2>3, PieceOf2 DEF SlotCode
  <2>5. Avail(blocks, Exit, In) \cup {s} \subseteq Avail(bs, Exit, In2)
    <3>1. Made(<<>>) = {}
      BY DEF Made
    <3> QED
      BY <1>4, <1>5, <3>1 DEF Avail, old
  <2> QED
    BY <1>5, <2>1, <2>4, <2>5 DEF Piece
<1>11. ASSUME NEW b \in DOMAIN blocks, b # Entry, b # Exit
       PROVE  Good(b)
  <2>1. bs[b].instrs = old(b) /\ In2[b] = In[b] \cup {s}
    BY <1>2, <1>5, <1>11
  <2>2. Avail(blocks, b, In) \cup {s} \subseteq Avail(bs, b, In2)
    BY <2>1 DEF Avail, old
  <2>3. T(b) \subseteq T2(b)
    BY <1>8, <2>2
  <2>4. UsesDefined(old(b), In2[b])
    <3>1. In[b] \subseteq In2[b] /\ UsesDefined(old(b), In[b])
      BY <1>7, <2>1
    <3> QED
      BY <3>1, PieceWider
  <2> QED
    BY <1>7, <2>1, <2>2, <2>3, <2>4 DEF Piece
<1> HIDE DEF Good
<1>12. \A b \in DOMAIN blocks : Good(b)
  BY <1>9, <1>10, <1>11
<1> QED
  BY <1>2, <1>5, <1>12 DEF Flows, Good

LEMMA SlotStack ==
    ASSUME Control, NEW A, NEW A2, NEW s, A \cup {s} \subseteq A2,
           NEW In, DOMAIN In = DOMAIN blocks, NEW W, NEW V,
           StackFlows(A, frames, In, W), SightFlows(A, frames, vis, irvar, W, V)
    PROVE  /\ StackFlows(A2, frames, SlotAsked(In, s), SlotKept(W, s))
           /\ SightFlows(A2, frames, vis, irvar, SlotKept(W, s), V)
<1> DEFINE In2 == SlotAsked(In, s)
           W2 == SlotKept(W, s)
<1>1. DOMAIN W2 = DOMAIN frames /\ \A i \in DOMAIN frames : W2[i] = W[i] \cup {s}
  BY DEF SlotKept, StackFlows
<1>2. ASSUME NEW i \in DOMAIN frames, NEW b \in Back(frames[i])
      PROVE  In2[b] = In[b] \cup {s}
  <2>1. frames[i] \in FramesNow
    BY DEF Control, Typed, FramesNow
  <2>2. Back(frames[i]) \subseteq 3..Len(blocks)
    BY <2>1, BackTyped DEF FramesNow
  <2>3. b \in DOMAIN blocks /\ b # Entry
    BY <2>2, FramesBack DEF Entry
  <2> QED
    BY <2>3 DEF SlotAsked
<1> HIDE DEF In2, W2
<1>3. ASSUME NEW i \in DOMAIN frames
      PROVE  W2[i] \subseteq A2 /\ FrameFlows(frames[i], W2[i], In2)
  <2>1. W[i] \subseteq A /\ FrameFlows(frames[i], W[i], In)
    BY DEF StackFlows
  <2>2. \A b \in Back(frames[i]) : In2[b] = W2[i]
    BY <1>1, <1>2, <2>1 DEF FrameFlows
  <2> QED
    BY <1>1, <2>1, <2>2 DEF FrameFlows, Operand
<1>4. \A i, j \in DOMAIN frames : i < j => W2[i] \subseteq W2[j]
  BY <1>1 DEF StackFlows
<1>5. StackFlows(A2, frames, In2, W2)
  BY <1>1, <1>3, <1>4 DEF StackFlows
<1>6. SightFlows(A2, frames, vis, irvar, W2, V)
  BY <1>1 DEF SightFlows
<1> QED
  BY <1>5, <1>6 DEF In2, W2

LEMMA SlotNowFlows ==
    ASSUME Control, BlockInv, NEW In, NEW W, NEW V, FlowOf(blocks, slot, In, W, V)
    PROVE  \E In2, W2 : /\ FlowOf(BlocksNow, SlotNow, In2, W2, V)
                        /\ Avail(blocks, cur, In) \cup {SlotNow}
                              \subseteq Avail(BlocksNow, cur, In2)
                        /\ SlotNow # Null
<1> DEFINE A == Avail(blocks, cur, In)
<1>1. CASE slot # Null
  <2>1. BlocksNow = blocks /\ SlotNow = slot /\ slot \in A
    BY <1>1, SlotHere DEF BlocksNow, SlotNow
  <2> QED
    BY <1>1, <2>1
<1>2. ASSUME slot = Null
      PROVE  \E In2, W2 : /\ FlowOf(BlocksNow, SlotNow, In2, W2, V)
                          /\ A \cup {SlotNow} \subseteq Avail(BlocksNow, cur, In2)
                          /\ SlotNow # Null
  <2> DEFINE s == nsym + 1
             bs == WithSlot(blocks, s)
             In2 == SlotAsked(In, s)
             W2 == SlotKept(W, s)
             A2 == Avail(bs, cur, In2)
  <2>1. BlocksNow = bs /\ SlotNow = s /\ s # Null
    BY <1>2, Sizes DEF BlocksNow, SlotNow, Null
  <2>2. /\ Flows(blocks, In) /\ In[Entry] = {} /\ In[Exit] = {}
        /\ StackFlows(A, frames, In, W) /\ SightFlows(A, frames, vis, irvar, W, V)
        /\ DOMAIN In = DOMAIN blocks /\ cur \in DOMAIN blocks
        /\ 1 \in DOMAIN blocks /\ 2 \in DOMAIN blocks
    <3>1. /\ Flows(blocks, In) /\ SlotFlows(slot, In, W)
          /\ StackFlows(A, frames, In, W) /\ SightFlows(A, frames, vis, irvar, W, V)
      BY DEF FlowOf
    <3>2. In[Entry] = {} /\ In[Exit] = {}
      BY <1>2, <3>1 DEF SlotFlows
    <3>3. DOMAIN In = DOMAIN blocks
      BY <3>1 DEF Flows
    <3>4. cur \in DOMAIN blocks /\ 1 \in DOMAIN blocks /\ 2 \in DOMAIN blocks
      BY Sizes
    <3> QED
      BY <3>1, <3>2, <3>3, <3>4
  <2>3. Flows(bs, In2) /\ A \cup {s} \subseteq A2
    BY <1>2, <2>2, SlotMade
  <2>4. SlotFlows(s, In2, W2)
    <3>1. In2[Entry] = {} /\ In2[Exit] = {s}
      BY <2>2 DEF SlotAsked, Entry, Exit
    <3>2. \A b \in DOMAIN In2 \ {Entry} : s \in In2[b]
      BY DEF SlotAsked
    <3>3. \A i \in DOMAIN W2 : s \in W2[i]
      BY DEF SlotKept
    <3> QED
      BY <2>1, <3>1, <3>2, <3>3 DEF SlotFlows
  <2> HIDE DEF A, A2, s
  <2>5. /\ StackFlows(A2, frames, In2, W2)
        /\ SightFlows(A2, frames, vis, irvar, W2, V)
    BY <2>2, <2>3, SlotStack
  <2> HIDE DEF bs, In2, W2
  <2>6. FlowOf(bs, s, In2, W2, V)
    BY <2>3, <2>4, <2>5 DEF FlowOf, A2
  <2> QED
    BY <2>1, <2>3, <2>6 DEF A2
<1> QED
  BY <1>1, <1>2

LEMMA ReturnCode ==
    ASSUME Control, BlockInv, NEW v \in -1..nsym, StoreAndLeave(v),
           NEW In, NEW W, NEW V, FlowOf(blocks, slot, In, W, V),
           Operand(v, Avail(blocks, cur, In))
    PROVE  \E In2, W2, In3 :
              /\ FlowOf(BlocksNow, slot', In2, W2, V) /\ Coded(In2, In3)
              /\ Avail(BlocksNow, cur, In2) \subseteq Avail(blocks', cur, In3)
<1> DEFINE s == SlotNow
           B == BlocksNow
           seq == <<Store(v, s), Jump(Exit)>>
           I == Instrs(nsym', Len(blocks))
<1>1. /\ nsym' \in Nat /\ nsym <= nsym' /\ (slot = Null => nsym + 2 <= nsym')
      /\ Extends(B, blocks', 0, cur, seq)
      /\ slot' = s /\ s \in 0..nsym' /\ Len(blocks') = Len(blocks)
      /\ IsBlocks(blocks')
  BY ReturnLowers
<1>2. /\ IsBlocks(B) /\ Len(B) = Len(blocks) /\ DOMAIN B = DOMAIN blocks
      /\ Code(B, nsym')
  BY <1>1, BlocksNowGives
<1>3. DOMAIN blocks' = DOMAIN blocks
  BY <1>1, BlocksLen, Sizes
<1>4. Store(v, s) \in I /\ Jump(Exit) \in I
  <2>1. v \in -1..nsym' /\ Exit \in 1..Len(blocks) /\ Len(blocks) \in Nat
    BY <1>1, Sizes DEF Exit
  <2> QED
    BY <1>1, <2>1, InstrsTyped
<1>5. \A b \in DOMAIN B : B[b].instrs \in Seq(I)
  BY <1>2 DEF Code
<1>6. PICK In2, W2 : /\ FlowOf(B, s, In2, W2, V)
                     /\ Avail(blocks, cur, In) \cup {s} \subseteq Avail(B, cur, In2)
                     /\ s # Null
  BY SlotNowFlows
<1> DEFINE A == Avail(B, cur, In2)
           N == {s}
           In3 == Grown(In2, DOMAIN blocks', N)
           T == {t \in DOMAIN blocks' : In3[t] \subseteq A \cup Made(seq)}
<1>7. Flows(B, In2) /\ In2[Exit] = {s} /\ cur \in DOMAIN B /\ Exit \in DOMAIN B
  BY <1>2, <1>6, Sizes DEF FlowOf, SlotFlows, Exit
<1>8. In3[Exit] = {s}
  BY <1>2, <1>3, <1>7 DEF Grown, Flows
<1>9. Operand(v, A) /\ Operand(s, A) /\ s \in A
  BY <1>6 DEF Operand
<1>10. In3 = Grown(In2, DOMAIN blocks', N) /\ A = Avail(B, cur, In2)
  OBVIOUS
<1> HIDE DEF In3, A, B, s, I, N
<1>11. Exit \in T
  BY <1>2, <1>3, <1>7, <1>8, <1>9
<1>12. Fits(Store(v, s), A, T)
  <2> HIDE DEF T
  <2> QED
    BY <1>9, FitsHere
<1>13. Fits(Jump(Exit), A \cup {Store(v, s).def}, T)
  <2> HIDE DEF T
  <2> QED
    BY <1>11, FitsHere
<1>14. Piece(seq, A, T)
  <2> HIDE DEF T
  <2> QED
    BY <1>12, <1>13, PieceOf2
<1>15. seq \in Seq(I)
  BY <1>4
<1> HIDE DEF seq
<1>16. /\ Flows(blocks', In3) /\ Avail(blocks', cur, In3) = A \cup Made(seq)
       /\ DOMAIN In3 = DOMAIN blocks'
       /\ \A c \in DOMAIN B : In3[c] = In2[c]
  <2>1. /\ IsBlocks(B) /\ cur \in DOMAIN B /\ 0 \in Nat
        /\ \A b \in DOMAIN B : B[b].instrs \in Seq(I)
        /\ Extends(B, blocks', 0, cur, seq) /\ Flows(B, In2)
    BY <1>1, <1>2, <1>5, <1>7
  <2>2. Piece(seq, A, {t \in DOMAIN blocks' : In3[t] \subseteq A \cup Made(seq)})
    BY <1>14
  <2> HIDE DEF T
  <2> QED
    BY <1>10, <1>15, <2>1, <2>2, FlowsOn
<1>17. Coded(In2, In3)
  BY <1>2, <1>3, <1>16 DEF Coded
<1> QED
  BY <1>1, <1>6, <1>10, <1>16, <1>17 DEF B

LEMMA ReturnVoidFlows ==
    ASSUME Control, BlockInv, FlowInv, ReturnVoid
    PROVE  FlowInv'
<1>1. PICK In, W, V : FlowOf(blocks, slot, In, W, V)
  BY FlowNow
<1>2. /\ StoreAndLeave(Undef) /\ UNCHANGED <<cur, frames, vis, irvar>>
      /\ mode' # "value"
  BY DEF ReturnVoid, StoreAndLeave, context, variables
<1>3. Undef \in -1..nsym /\ Operand(Undef, Avail(blocks, cur, In))
  BY Sizes DEF Undef, Operand
<1>4. PICK In2, W2, In3 :
         /\ FlowOf(BlocksNow, slot', In2, W2, V) /\ Coded(In2, In3)
         /\ Avail(BlocksNow, cur, In2) \subseteq Avail(blocks', cur, In3)
  BY <1>1, <1>2, <1>3, ReturnCode
<1>5. DOMAIN BlocksNow = DOMAIN blocks
  BY <1>2, <1>3, ReturnLowers, BlocksNowGives
<1>6. /\ UNCHANGED frames /\ UNCHANGED <<vis, irvar>>
      /\ Avail(BlocksNow, cur, In2) \subseteq Avail(blocks', cur', In3)
  BY <1>2, <1>4
<1> QED
  BY <1>2, <1>4, <1>5, <1>6, SameFlows

LEMMA AfterReturnExpFlows ==
    ASSUME Control, BlockInv, FlowInv, AfterReturnExp
    PROVE  FlowInv'
<1>1. PICK In, W, V : /\ FlowOf(blocks, slot, In, W, V)
                      /\ mode = "value" => Operand(val, Avail(blocks, cur, In))
  BY FlowNow
<1>2. /\ StoreAndLeave(val) /\ UNCHANGED <<cur, vis, irvar>> /\ frames' = Rest
      /\ mode = "value" /\ mode # "done" /\ Top.k = "ret" /\ mode' # "value"
  BY DEF AfterReturnExp, StoreAndLeave, context, variables
<1>3. val \in -1..nsym /\ Operand(val, Avail(blocks, cur, In))
  BY <1>1, <1>2, Sizes
<1>4. PICK In2, W2, In3 :
         /\ FlowOf(BlocksNow, slot', In2, W2, V) /\ Coded(In2, In3)
         /\ Avail(BlocksNow, cur, In2) \subseteq Avail(blocks', cur, In3)
  BY <1>1, <1>2, <1>3, ReturnCode
<1>5. DOMAIN BlocksNow = DOMAIN blocks
  BY <1>2, <1>3, ReturnLowers, BlocksNowGives
<1>6. W2[Len(frames)] \subseteq Avail(BlocksNow, cur, In2)
  BY <1>2, <1>4, TopFlows
<1>7. /\ UNCHANGED irvar /\ vis' = IF Top.k = "block" THEN Top.vis ELSE vis
      /\ W2[Len(frames)] \subseteq Avail(blocks', cur', In3)
  BY <1>2, <1>4, <1>6
<1> QED
  BY <1>2, <1>4, <1>5, <1>7, PopFlows

-----------------------------------------------------------------------------
(* FlowInv is an invariant, in a program that keeps clear of the names of       *)
(* temporaries.                                                                *)

LEMMA InitFlows == Init => FlowInv
<1> SUFFICES ASSUME Init PROVE FlowInv
  OBVIOUS
<1> DEFINE f == [k |-> "block", vis |-> {}]
           In == [b \in {1, 2} |-> {}]
           N == <<{}>>
           A == Avail(blocks, cur, In)
<1>1. /\ mode = "next" /\ frames = <<f>> /\ blocks = <<EmptyBlock, EmptyBlock>>
      /\ slot = Null /\ vis = {} /\ irvar = <<>>
  BY DEF Init, Entry
<1>2. /\ DOMAIN blocks = {1, 2} /\ DOMAIN frames = {1} /\ frames[1] = f
      /\ \A b \in DOMAIN blocks : blocks[b].instrs = <<>>
  <2>1. EmptyBlock.instrs = <<>>
    BY DEF EmptyBlock
  <2>2. /\ DOMAIN blocks = {1, 2} /\ DOMAIN frames = {1} /\ frames[1] = f
        /\ \A b \in DOMAIN blocks : blocks[b] = EmptyBlock
    <3> HIDE DEF f
    <3> QED
      BY <1>1
  <2> QED
    BY <2>1, <2>2, Zenon
<1>3. Flows(blocks, In)
  <2>1. \A S, T : Piece(<<>>, S, T)
    BY DEF Piece, UsesDefined, EndsQuiet, GoesTo
  <2>2. DOMAIN In = DOMAIN blocks
    BY <1>2
  <2> HIDE DEF In
  <2> QED
    BY <1>2, <2>1, <2>2 DEF Flows
<1>4. DOMAIN N = {1} /\ N[1] = {} /\ In[1] = {} /\ In[2] = {}
  OBVIOUS
<1>5. SlotFlows(slot, In, N)
  BY <1>1, <1>4 DEF SlotFlows, Entry, Exit
<1>6. Back(f) = {} /\ f.k = "block" /\ f.vis = {}
  BY DEF Back, LoopKinds
<1> HIDE DEF f, In, N
<1>7. StackFlows(A, frames, In, N)
  BY <1>2, <1>4, <1>6 DEF StackFlows, FrameFlows
<1>8. SightFlows(A, frames, vis, irvar, N, N)
  BY <1>1, <1>2, <1>4, <1>6 DEF SightFlows, SymsOf
<1>9. FlowOf(blocks, slot, In, N, N)
  BY <1>3, <1>5, <1>7, <1>8 DEF FlowOf
<1>10. ValueFlows(In)
  BY <1>1 DEF ValueFlows
<1> QED
  BY <1>9, <1>10 DEF FlowInv

LEMMA StatementFlows ==
    ASSUME Control, BlockInv, FlowInv, Statement
    PROVE  FlowInv'
<1>1. CASE SkipStmt \/ IfEmpty
  BY <1>1, QuietSteps
<1>2. CASE OpenBlock \/ ExpStmt \/ ReturnExp
  BY <1>2, BeginSteps
<1>3. ASSUME NEW x, SkipDecl(x) \/ DeclPlain(x) \/ DeclInit(x)
      PROVE  FlowInv'
  BY <1>3, SkipDeclFlows, DeclPlainFlows, DeclInitFlows
<1>4. CASE CloseBlock
  BY <1>4, OverSteps
<1>5. CASE ReturnVoid
  BY <1>5, ReturnVoidFlows
<1>6. ASSUME NEW v \in vis, Assign(v)
      PROVE  FlowInv'
  BY <1>6, BeginSteps
<1>7. ASSUME NEW then, NEW else, If(then, else)
      PROVE  FlowInv'
  BY <1>7, BeginSteps
<1>8. ASSUME NEW b, While(b) \/ BreakOrContinue(b)
      PROVE  FlowInv'
  BY <1>8, WhileFlows, BreakFlows
<1> QED
  BY <1>1, <1>2, <1>3, <1>4, <1>5, <1>6, <1>7, <1>8 DEF Statement

LEMMA ExpressionFlows ==
    ASSUME Control, BlockInv, FlowInv, Expression
    PROVE  FlowInv'
<1>1. CASE Number \/ UnboundLVal
  BY <1>1, QuietSteps
<1>2. CASE Binary \/ Logical \/ \E op : Unary(op)
  BY <1>2, BeginSteps
<1>3. ASSUME NEW v \in vis, LVal(v)
      PROVE  FlowInv'
  BY <1>3, LValFlows
<1> QED
  BY <1>1, <1>2, <1>3 DEF Expression

LEMMA ContinueFlows ==
    ASSUME Control, BlockInv, LowerInv, NameInv, Clear, FlowInv, Continue
    PROVE  FlowInv'
BY AfterInitFlows, OverSteps, AfterAssignFlows, AfterReturnExpFlows, AfterIfCondFlows,
   AfterThenFlows, AfterElseFlows, AfterWhileCondFlows, AfterBodyFlows,
   AfterUnaryFlows, AfterOpnd1Flows, AfterOpnd2Flows, AfterLhsFlows, AfterRhsFlows
   DEF Continue

LEMMA FlowSteps ==
    ASSUME Control, BlockInv, LowerInv, NameInv, Clear, FlowInv, [Next]_vars
    PROVE  FlowInv'
<1>1. CASE Statement
  BY <1>1, StatementFlows
<1>2. CASE Expression
  BY <1>2, ExpressionFlows
<1>3. CASE Continue
  BY <1>3, ContinueFlows
<1>4. CASE UNCHANGED vars
  BY <1>4, QuietSteps
<1> QED
  BY <1>1, <1>2, <1>3, <1>4 DEF Next, Over

LEMMA ClearBefore ==
    ASSUME Control, tmps' \in {tmps, tmps + 1, tmps + 2},
           name' = name \/ \E x : name' = Append(name, x), Clear'
    PROVE  Clear
<1>1. /\ tmps \in Nat /\ name \in Seq(VarNames)
      /\ \A n \in 0..(tmps - 1) : n \in 0..(tmps' - 1)
  BY NameDomain
<1>2. \A v \in DOMAIN name : v \in DOMAIN name' /\ name'[v] = name[v]
  <2>1. ASSUME NEW x, name' = Append(name, x)
        PROVE  \A v \in DOMAIN name : v \in DOMAIN name' /\ name'[v] = name[v]
    <3>1. name \in Seq(VarNames \cup {x})
      BY <1>1, Widened
    <3>2. /\ \A v \in DOMAIN name : Append(name, x)[v] = name[v]
          /\ DOMAIN name \subseteq DOMAIN Append(name, x)
      BY <3>1, PushGives
    <3> QED
      BY <2>1, <3>2
  <2> QED
    BY <2>1
<1>3. ASSUME NEW v \in DOMAIN name, NameTaken(v)
      PROVE  FALSE
  <2>1. PICK n \in 0..(tmps - 1) : name[v] = Tmp(n)
    BY <1>3 DEF NameTaken
  <2> QED
    BY <1>1, <1>2, <1>3, <2>1 DEF Clear, NameTaken, Tmp
<1>4. ASSUME NEW v \in DOMAIN name, Shared(v)
      PROVE  FALSE
  BY <1>2, <1>4 DEF Clear, Shared
<1> QED
  BY <1>3, <1>4 DEF Clear

LEMMA StepClears == Control /\ [Next]_vars /\ Clear' => Clear
<1> SUFFICES ASSUME Control, [Next]_vars
             PROVE  /\ tmps' \in {tmps, tmps + 1, tmps + 2}
                    /\ name' = name \/ \E x : name' = Append(name, x)
  BY ClearBefore
<1>1. CASE Statement
  <2>1. ASSUME NEW x, SkipDecl(x) \/ DeclPlain(x) \/ DeclInit(x)
        PROVE  tmps' = tmps /\ name' = Append(name, x)
    BY <2>1 DEF SkipDecl, DeclPlain, DeclInit, Declares, symbols
  <2>2. CASE ReturnVoid
    BY <2>2 DEF ReturnVoid, StoreAndLeave, NewTmp, symbols, variables
  <2>3. CASE SkipStmt \/ OpenBlock \/ CloseBlock \/ ExpStmt \/ ReturnExp \/ IfEmpty
    BY <2>3 DEF SkipStmt, OpenBlock, CloseBlock, ExpStmt, ReturnExp, IfEmpty,
       symbols, variables
  <2>4. ASSUME NEW v, Assign(v)
        PROVE  UNCHANGED <<tmps, name>>
    BY <2>4 DEF Assign, symbols, variables
  <2>5. ASSUME NEW then, NEW else, If(then, else)
        PROVE  UNCHANGED <<tmps, name>>
    BY <2>5, Zenon DEF If, symbols, variables
  <2>6. ASSUME NEW b, While(b) \/ BreakOrContinue(b)
        PROVE  UNCHANGED <<tmps, name>>
    BY <2>6 DEF While, BreakOrContinue, symbols, variables
  <2> QED
    BY <1>1, <2>1, <2>2, <2>3, <2>4, <2>5, <2>6 DEF Statement
<1>2. CASE Expression
  <2>1. CASE Number \/ UnboundLVal \/ Binary \/ Logical \/ \E op : Unary(op)
    BY <2>1 DEF Number, UnboundLVal, Binary, Logical, Unary, Operation, symbols, variables
  <2>2. ASSUME NEW v, LVal(v)
        PROVE  tmps' \in {tmps, tmps + 1} /\ name' = name
    BY <2>2 DEF LVal, NewTmp, symbols, variables
  <2> QED
    BY <1>2, <2>1, <2>2 DEF Expression
<1>3. CASE Continue
  <2>1. CASE AfterExpStmt \/ AfterAssign \/ AfterIfCond \/ AfterThen \/ AfterElse
             \/ AfterWhileCond \/ AfterBody \/ AfterOpnd1
    BY <2>1 DEF AfterExpStmt, AfterAssign, AfterIfCond, AfterThen, AfterElse,
       AfterWhileCond, AfterBody, AfterOpnd1, symbols, variables
  <2>2. CASE AfterUnary \/ AfterOpnd2 \/ AfterRhs
    BY <2>2 DEF AfterUnary, AfterOpnd2, AfterRhs, NewTmp, symbols, variables
  <2>3. CASE AfterReturnExp
    BY <2>3 DEF AfterReturnExp, StoreAndLeave, NewTmp, symbols, variables
  <2>4. CASE AfterInit \/ AfterLhs
    BY <2>4 DEF AfterInit, AfterLhs, AddVar, variables
  <2> QED
    BY <1>3, <2>1, <2>2, <2>3, <2>4 DEF Continue
<1>4. CASE UNCHANGED vars
  BY <1>4 DEF vars
<1> QED
  BY <1>1, <1>2, <1>3, <1>4 DEF Next, Over

LEMMA FlowInvariant == Spec => [](Control /\ BlockInv /\ (Clear => FlowInv))
<1> DEFINE J == Control /\ BlockInv /\ LowerInv /\ NameInv
           K == Clear => FlowInv
<1>1. Init => K
  BY InitFlows
<1>2. J /\ K /\ [Next]_vars => K'
  BY FlowSteps, StepClears
<1>3. Spec => []J
  BY NameInvariant
<1> QED
  BY <1>1, <1>2, <1>3, PTL DEF Spec

-----------------------------------------------------------------------------
(* The blocks that Without(s) collects are blocks that do not ask for s.        *)

\* Induction over a set of numbers.
LEMMA EveryNumber ==
    ASSUME NEW S, 0 \in S, \A n \in Nat : n \in S => n + 1 \in S
    PROVE  Nat \subseteq S
<1> DEFINE T == Nat \ S
<1> SUFFICES ASSUME T # {} PROVE FALSE
  OBVIOUS
<1>1. PICK m \in T : \A y \in T : ~ (<<y, m>> \in OpToRel(<, Nat))
  <2>1. T \subseteq Nat
    OBVIOUS
  <2> HIDE DEF T
  <2> QED
    BY <2>1, WFMin, NatLessThanWellFounded
<1>2. m - 1 \in Nat /\ (m - 1) + 1 = m
  OBVIOUS
<1>3. m - 1 \in T
  BY <1>2
<1>4. <<m - 1, m>> \in {p \in Nat \X Nat : p[1] < p[2]}
  BY <1>2
<1> QED
  BY <1>1, <1>3, <1>4 DEF OpToRel

\* One round of Without(s).
Beyond(r, s) == r \cup UNION {Targets(b) : b \in {c \in r : ~DefinedIn(c, s)}}
ReachEq(f, s, n) == IF n = 0 THEN {Entry} ELSE Beyond(f[n - 1], s)
Solves(f, s, m) == f = [n \in 0..m |-> ReachEq(f, s, n)]

LEMMA ReachSolved ==
    ASSUME NEW s, NEW m \in Nat
    PROVE  \E f : Solves(f, s, m)
<1> DEFINE S == {k \in Nat : \E f : Solves(f, s, k)}
<1>1. 0 \in S
  <2> DEFINE f == [n \in 0..0 |-> {Entry}]
  <2>1. Solves(f, s, 0)
    BY DEF Solves, ReachEq
  <2> QED
    BY <2>1
<1>2. ASSUME NEW k \in Nat, k \in S
      PROVE  k + 1 \in S
  <2>1. PICK f : Solves(f, s, k)
    BY <1>2
  <2>2. f = [n \in 0..k |-> ReachEq(f, s, n)]
    BY <2>1 DEF Solves
  <2> DEFINE g == [n \in 0..k + 1 |-> ReachEq(f, s, n)]
             h == [n \in 0..k + 1 |-> ReachEq(g, s, n)]
  <2>3. ASSUME NEW n \in 0..k + 1
        PROVE  ReachEq(f, s, n) = ReachEq(g, s, n)
    <3>1. ASSUME n # 0
          PROVE  f[n - 1] = g[n - 1]
      <4>1. n - 1 \in 0..k /\ n - 1 \in 0..k + 1
        BY <3>1
      <4> QED
        BY <2>2, <4>1
    <3> HIDE DEF g
    <3> QED
      BY <3>1 DEF ReachEq
  <2>4. g = h
    BY <2>3
  <2> HIDE DEF g
  <2>5. Solves(g, s, k + 1)
    BY <2>4 DEF Solves
  <2> QED
    BY <2>5
<1>3. Nat \subseteq S
  <2> HIDE DEF S
  <2> QED
    BY <1>1, <1>2, EveryNumber
<1> QED
  BY <1>3

LEMMA WithoutIs ==
    ASSUME NEW s, Len(blocks) \in Nat
    PROVE  \E f : Solves(f, s, Len(blocks)) /\ Without(s) = f[Len(blocks)]
<1> DEFINE f == CHOOSE g : Solves(g, s, Len(blocks))
<1>1. Solves(f, s, Len(blocks))
  BY ReachSolved
<1>2. Without(s) = f[Len(blocks)]
  BY DEF Without, Solves, ReachEq, Beyond
<1> QED
  BY <1>1, <1>2

\* The ends of a block come behind all it defines, and the first one is its
\* instruction to leave.
LEMMA BlockLeft ==
    ASSUME Control, BlockInv, NEW b \in DOMAIN blocks, EndsQuiet(blocks[b].instrs)
    PROVE  /\ \A s \in Made(blocks[b].instrs) \ {Null} : DefinedIn(b, s)
           /\ Targets(b) \subseteq GoesTo(blocks[b].instrs)
<1> DEFINE q == blocks[b].instrs
           n == Len(q)
<1>1. Shape(q) /\ q \in Seq(Instrs(nsym, Len(blocks)))
  BY Sizes DEF BlockInv, Laid, Blocked, Code
<1>2. n \in Nat /\ DOMAIN q = 1..n
  BY <1>1
<1>3. Ends(b) = EndsOf(q)
  BY DEF Ends, EndsOf
<1>4. Leave(b) = CHOOSE i \in EndsOf(q) : \A j \in EndsOf(q) : i <= j
  BY <1>3, Zenon DEF Leave
<1>5. /\ EndsQuiet(q)
      /\ \A s : DefinedIn(b, s) <=>
                   \E i \in DOMAIN q : q[i].def = s /\ \A j \in EndsOf(q) : i < j
      /\ Targets(b) = IF EndsOf(q) = {} THEN {}
                      ELSE {q[Leave(b)].to[i] : i \in DOMAIN q[Leave(b)].to}
  BY <1>3, Zenon DEF DefinedIn, Targets
<1> HIDE DEF q, n
<1>6. EndsOf(q) = {} \/ EndsOf(q) = {n} \/ EndsOf(q) = {n - 1, n}
  BY <1>1 DEF Shape, IsOpen, IsLeft, IsTailed, n
<1>7. ASSUME NEW s \in Made(q) \ {Null}
      PROVE  DefinedIn(b, s)
  <2>1. PICK i \in DOMAIN q : q[i].def = s
    BY DEF Made
  <2>2. i \notin EndsOf(q)
    BY <1>5, <2>1 DEF EndsQuiet, EndsOf
  <2>3. \A j \in EndsOf(q) : i < j
    BY <1>2, <1>6, <2>2
  <2> QED
    BY <1>5, <2>1, <2>3
<1>8. ASSUME EndsOf(q) # {}
      PROVE  Leave(b) \in DOMAIN q
  <2>1. \E i \in EndsOf(q) : \A j \in EndsOf(q) : i <= j
    BY <1>2, <1>6, <1>8
  <2>2. Leave(b) \in EndsOf(q)
    BY <1>4, <2>1
  <2> QED
    BY <2>2 DEF EndsOf
<1>9. Targets(b) \subseteq GoesTo(q)
  BY <1>5, <1>8 DEF GoesTo
<1> QED
  BY <1>7, <1>9 DEF q

LEMMA AskedIsDefined ==
    ASSUME Control, BlockInv, NEW In, Flows(blocks, In), In[Entry] = {},
           NEW s, s # Null
    PROVE  \A b \in Without(s) : b \in DOMAIN blocks /\ s \notin In[b]
<1> DEFINE n == Len(blocks)
           B == {b \in DOMAIN blocks : s \notin In[b]}
<1>1. n \in Nat /\ Entry \in B
  BY Sizes DEF Entry
<1>2. PICK f : Solves(f, s, n) /\ Without(s) = f[n]
  BY <1>1, WithoutIs
<1>3. \A k \in 0..n : f[k] = ReachEq(f, s, k)
  <2>1. f = [k \in 0..n |-> ReachEq(f, s, k)]
    BY <1>2 DEF Solves
  <2> QED
    BY <2>1
<1>4. ASSUME NEW b \in B, ~DefinedIn(b, s)
      PROVE  Targets(b) \subseteq B
  <2> DEFINE T == {t \in DOMAIN blocks : In[t] \subseteq Avail(blocks, b, In)}
  <2>1. Piece(blocks[b].instrs, In[b], T)
    BY DEF Flows
  <2> HIDE DEF T
  <2>2. EndsQuiet(blocks[b].instrs) /\ GoesTo(blocks[b].instrs) \subseteq T
    BY <2>1 DEF Piece
  <2>3. s \notin Avail(blocks, b, In)
    BY <1>4, <2>2, BlockLeft DEF Avail
  <2>4. T \subseteq B
    BY <2>3 DEF T
  <2> QED
    BY <2>2, <2>4, BlockLeft
<1> DEFINE S == {k \in Nat : k <= n => f[k] \subseteq B}
<1> HIDE DEF n, B
<1>5. 0 \in S
  BY <1>1, <1>3 DEF ReachEq
<1>6. ASSUME NEW k \in Nat, k \in S
      PROVE  k + 1 \in S
  <2> SUFFICES ASSUME k + 1 <= n
               PROVE  f[k + 1] \subseteq B
    OBVIOUS
  <2>1. k + 1 \in 0..n /\ k + 1 # 0 /\ (k + 1) - 1 = k /\ k <= n
    BY <1>1
  <2>2. f[k] \subseteq B
    BY <1>6, <2>1
  <2>3. f[k + 1] = Beyond(f[k], s)
    BY <1>3, <2>1 DEF ReachEq
  <2>4. Beyond(f[k], s) \subseteq B
    BY <1>4, <2>2 DEF Beyond
  <2> QED
    BY <2>3, <2>4
<1>7. n \in S
  <2> HIDE DEF S
  <2> QED
    BY <1>1, <1>5, <1>6, EveryNumber
<1>8. f[n] \subseteq B
  BY <1>1, <1>7
<1> QED
  BY <1>2, <1>8 DEF B

-----------------------------------------------------------------------------

\* Whatever way the function takes, an instruction that is executed uses only
\* symbols that were defined before it on that way, for every program in which
\* no variable shares its name with a temporary or another. No way leads round the declaration of a
\* variable that is used, round the slot of the return value, round the variable
\* that holds the outcome of a logical operator, or round a temporary.
THEOREM UsesAreDefined == Spec => []DefsReachUses
<1>1. Control /\ BlockInv /\ (Clear => FlowInv) => DefsReachUses
  <2> SUFFICES ASSUME Control, BlockInv, FlowInv,
                      NEW b \in DOMAIN blocks, NEW i \in DOMAIN blocks[b].instrs,
                      NEW s \in Used(blocks[b].instrs[i])
               PROVE  \/ \E j \in 1..(i - 1) : blocks[b].instrs[j].def = s
                      \/ b \notin Without(s)
    BY Zenon DEF DefsReachUses, Clear
  <2>1. PICK In : Flows(blocks, In) /\ In[Entry] = {}
    BY Zenon DEF FlowInv, FlowOf, SlotFlows
  <2>2. UsesDefined(blocks[b].instrs, In[b])
    BY <2>1 DEF Flows, Piece
  <2>3. CASE s \in In[b]
    <3>1. s # Null
      BY DEF Used, Literal, Null
    <3> QED
      BY <2>1, <2>3, <3>1, AskedIsDefined
  <2> QED
    BY <2>2, <2>3 DEF UsesDefined
<1> QED
  BY <1>1, FlowInvariant, PTL
=============================================================================
