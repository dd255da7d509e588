----------------------------- MODULE DumpIRProofs -----------------------------
(* The linked list of a block holds its code, and the dump of a function can  *)
(* be read back, for every program.                                           *)
EXTENDS DumpIR, GenIRFlowProofs, FiniteSetTheorems

-----------------------------------------------------------------------------
(* Lists. The order of the code is one of the numbers under which the         *)
(* instructions were made.                                                    *)

AnyIns == [op : Ops, def : Nat, args : Seq(Int), to : Seq(Nat)]

IsList(l, n) ==
    /\ DOMAIN l = {"made", "entry", "last", "pre", "next"}
    /\ l.made \in Seq(AnyIns) /\ l.pre \in Seq(Nat) /\ l.next \in Seq(Nat)
    /\ Len(l.made) = n /\ Len(l.pre) = n /\ Len(l.next) = n
InOrder(l, n, o) ==
    /\ o \in [1..n -> 1..n] /\ \A i, j \in 1..n : o[i] = o[j] => i = j
    /\ l.entry = IF n = 0 THEN 0 ELSE o[1]
    /\ l.last = IF n = 0 THEN 0 ELSE o[n]
    /\ \A k \in 1..n : l.next[o[k]] = IF k = n THEN 0 ELSE o[k + 1]
Linked(l, q) ==
    /\ q \in Seq(AnyIns) /\ IsList(l, Len(q))
    /\ \E o : /\ InOrder(l, Len(q), o)
              /\ \A k \in 1..Len(q) : l.made[o[k]] = q[k]

LEMMA EmptyLinked == Linked(EmptyList, <<>>)
<1>1. IsList(EmptyList, 0)
  BY DEF IsList, EmptyList
<1> DEFINE o == [k \in 1..0 |-> 0]
<1>2. InOrder(EmptyList, 0, o)
  <2>1. o \in [1..0 -> 1..0] /\ 1..0 = {}
    OBVIOUS
  <2>2. EmptyList.entry = 0 /\ EmptyList.last = 0
    BY DEF EmptyList
  <2> HIDE DEF o
  <2> QED
    BY <2>1, <2>2 DEF InOrder
<1>3. <<>> \in Seq(AnyIns) /\ Len(<<>>) = 0 /\ 1..0 = {}
  OBVIOUS
<1> HIDE DEF o
<1> QED
  BY <1>1, <1>2, <1>3 DEF Linked

\* An instruction that is made comes last, in the list and in the order.
LEMMA MadeLast ==
    ASSUME NEW l, NEW n \in Nat, IsList(l, n), NEW o, InOrder(l, n, o), NEW ins \in AnyIns
    PROVE  LET c  == create_instr(l, ins)
               o2 == [k \in 1..n + 1 |-> IF k = n + 1 THEN n + 1 ELSE o[k]]
           IN /\ IsList(c, n + 1) /\ InOrder(c, n + 1, o2)
              /\ c.made[n + 1] = ins /\ \A i \in 1..n : c.made[i] = l.made[i]
              /\ c.pre[n + 1] = l.last /\ c.last = n + 1
<1> DEFINE c == create_instr(l, ins)
           o2 == [k \in 1..n + 1 |-> IF k = n + 1 THEN n + 1 ELSE o[k]]
           nx == [i \in 1..n + 1 |-> IF i = l.last THEN n + 1
                                     ELSE IF i = n + 1 THEN 0 ELSE l.next[i]]
<1>1. /\ Len(l.made) = n /\ l.made \in Seq(AnyIns) /\ l.pre \in Seq(Nat)
      /\ l.next \in Seq(Nat) /\ Len(l.pre) = n /\ Len(l.next) = n
  BY DEF IsList
<1>2. /\ c.made = Append(l.made, ins) /\ c.last = n + 1
      /\ c.entry = IF l.last = 0 THEN n + 1 ELSE l.entry
      /\ c.pre = Append(l.pre, l.last) /\ c.next = nx
      /\ DOMAIN c = {"made", "entry", "last", "pre", "next"}
  BY <1>1 DEF create_instr
<1>3. /\ o \in [1..n -> 1..n] /\ \A i, j \in 1..n : o[i] = o[j] => i = j
      /\ l.entry = IF n = 0 THEN 0 ELSE o[1]
      /\ l.last = IF n = 0 THEN 0 ELSE o[n]
      /\ \A k \in 1..n : l.next[o[k]] = IF k = n THEN 0 ELSE o[k + 1]
  BY DEF InOrder
<1>4. l.last \in 0..n /\ (l.last = 0 <=> n = 0)
  BY <1>3
<1>5. nx \in Seq(Nat) /\ Len(nx) = n + 1
  <2>1. \A i \in 1..n : l.next[i] \in Nat
    BY <1>1
  <2>2. \A i \in 1..n + 1 : i # n + 1 => i \in 1..n
    OBVIOUS
  <2>3. nx \in [1..n + 1 -> Nat]
    BY <2>1, <2>2
  <2> HIDE DEF nx
  <2> QED
    BY <2>3
<1>6. /\ c.made \in Seq(AnyIns) /\ Len(c.made) = n + 1 /\ c.made[n + 1] = ins
      /\ \A i \in 1..n : c.made[i] = l.made[i]
      /\ c.pre \in Seq(Nat) /\ Len(c.pre) = n + 1 /\ c.pre[n + 1] = l.last
  <2>1. l.last \in Nat
    BY <1>4
  <2>2. DOMAIN l.made = 1..n
    BY <1>1
  <2> HIDE DEF c
  <2> QED
    BY <1>1, <1>2, <2>1, <2>2, PushGives
<1> HIDE DEF c
<1>7. IsList(c, n + 1)
  <2> HIDE DEF nx
  <2> QED
    BY <1>2, <1>5, <1>6 DEF IsList
<1>8. /\ o2 \in [1..n + 1 -> 1..n + 1] /\ o2[n + 1] = n + 1
      /\ \A k \in 1..n : o2[k] = o[k] /\ o[k] \in 1..n
  BY <1>3
<1>9. \A i \in 1..n + 1 : nx[i] = IF i = l.last THEN n + 1
                                  ELSE IF i = n + 1 THEN 0 ELSE l.next[i]
  OBVIOUS
<1> HIDE DEF o2, nx
<1>10. \A i, j \in 1..n + 1 : o2[i] = o2[j] => i = j
  <2>1. \A i, j \in 1..n : o2[i] = o2[j] => i = j
    BY <1>3, <1>8
  <2>2. \A i \in 1..n : o2[i] # o2[n + 1]
    BY <1>8
  <2>3. \A i \in 1..n + 1 : i \in 1..n \/ i = n + 1
    OBVIOUS
  <2> QED
    BY <2>1, <2>2, <2>3
<1>11. ASSUME NEW k \in 1..n + 1
       PROVE  nx[o2[k]] = IF k = n + 1 THEN 0 ELSE o2[k + 1]
  <2>1. CASE k = n + 1
    BY <1>4, <1>8, <1>9, <2>1
  <2>2. CASE k = n /\ k # n + 1
    <3>1. n \in 1..n /\ n # 0 /\ o2[k] = o[n] /\ o[n] = l.last /\ o[n] \in 1..n + 1
      BY <1>3, <1>8, <2>2
    <3> QED
      BY <1>8, <1>9, <2>2, <3>1
  <2>3. CASE k # n /\ k # n + 1
    <3>1. k \in 1..n /\ n \in 1..n /\ k + 1 \in 1..n
      BY <2>3
    <3>2. o[k] # o[n] /\ o2[k] = o[k] /\ o[k] \in 1..n /\ o2[k + 1] = o[k + 1]
      BY <1>3, <1>8, <2>3, <3>1
    <3>3. o[k] # l.last /\ o[k] # n + 1 /\ o[k] \in 1..n + 1
      BY <1>3, <3>1, <3>2
    <3>4. nx[o[k]] = l.next[o[k]]
      BY <1>9, <3>3
    <3>5. l.next[o[k]] = o[k + 1]
      BY <1>3, <2>3, <3>1
    <3> QED
      BY <2>3, <3>2, <3>4, <3>5
  <2> QED
    BY <2>1, <2>2, <2>3
<1>12. c.entry = o2[1]
  BY <1>2, <1>3, <1>4, <1>8
<1>13. InOrder(c, n + 1, o2)
  BY <1>2, <1>8, <1>10, <1>11, <1>12 DEF InOrder
<1> QED
  BY <1>2, <1>6, <1>7, <1>13 DEF c, o2

LEMMA CreateLinked ==
    ASSUME NEW l, NEW q, Linked(l, q), NEW ins \in AnyIns
    PROVE  Linked(create_instr(l, ins), Append(q, ins))
<1> DEFINE n == Len(q)
           c == create_instr(l, ins)
<1>1. n \in Nat /\ q \in Seq(AnyIns) /\ IsList(l, n)
  BY DEF Linked
<1>2. PICK o : InOrder(l, n, o) /\ \A k \in 1..n : l.made[o[k]] = q[k]
  BY DEF Linked
<1> DEFINE o2 == [k \in 1..n + 1 |-> IF k = n + 1 THEN n + 1 ELSE o[k]]
<1> HIDE DEF n
<1>3. /\ IsList(c, n + 1) /\ InOrder(c, n + 1, o2)
      /\ c.made[n + 1] = ins /\ \A i \in 1..n : c.made[i] = l.made[i]
  BY <1>1, <1>2, MadeLast, ZenonT(40)
<1>4. /\ Append(q, ins) \in Seq(AnyIns) /\ Len(Append(q, ins)) = n + 1
      /\ Append(q, ins)[n + 1] = ins
      /\ \A k \in 1..n : Append(q, ins)[k] = q[k]
  BY <1>1 DEF n
<1>5. /\ o2[n + 1] = n + 1
      /\ \A k \in 1..n : o2[k] = o[k] /\ o[k] \in 1..n
  <2>1. o \in [1..n -> 1..n]
    BY <1>2 DEF InOrder
  <2> QED
    BY <1>1, <2>1
<1> HIDE DEF o2, c
<1>6. \A k \in 1..n + 1 : c.made[o2[k]] = Append(q, ins)[k]
  <2>1. ASSUME NEW k \in 1..n
        PROVE  c.made[o2[k]] = Append(q, ins)[k]
    <3>1. o2[k] = o[k] /\ c.made[o[k]] = l.made[o[k]]
      BY <1>3, <1>5
    <3> QED
      BY <1>2, <1>4, <3>1
  <2>2. \A k \in 1..n + 1 : k \in 1..n \/ k = n + 1
    BY <1>1
  <2> QED
    BY <1>3, <1>4, <1>5, <2>1, <2>2
<1> QED
  BY <1>3, <1>4, <1>6 DEF Linked, c

\* The slot comes first in the order, though it is made last.
LEMMA FirstLinked ==
    ASSUME NEW l, NEW q, Linked(l, q), NEW ins \in AnyIns
    PROVE  Linked(create_first(l, ins), <<ins>> \o q)
<1> DEFINE n == Len(q)
           c == create_instr(l, ins)
           m == n + 1
<1>1. n \in Nat /\ q \in Seq(AnyIns) /\ IsList(l, n)
  BY DEF Linked
<1>2. PICK o : InOrder(l, n, o) /\ \A k \in 1..n : l.made[o[k]] = q[k]
  BY DEF Linked
<1>3. /\ o \in [1..n -> 1..n] /\ \A i, j \in 1..n : o[i] = o[j] => i = j
      /\ l.entry = IF n = 0 THEN 0 ELSE o[1]
      /\ l.last = IF n = 0 THEN 0 ELSE o[n]
  BY <1>2 DEF InOrder
<1>4. CASE n = 0
  <2>1. Linked(c, Append(q, ins))
    BY CreateLinked
  <2>2. <<ins>> \o q = Append(q, ins)
    <3>1. q = <<>>
      BY <1>1, <1>4
    <3> QED
      BY <3>1
  <2>3. create_first(l, ins) = c
    BY <1>3, <1>4 DEF create_first
  <2> QED
    BY <2>1, <2>2, <2>3
<1>5. CASE n # 0
  <2> DEFINE o2 == [k \in 1..n + 1 |-> IF k = n + 1 THEN n + 1 ELSE o[k]]
             o3 == [k \in 1..n + 1 |-> IF k = 1 THEN n + 1 ELSE o[k - 1]]
             d == create_first(l, ins)
             mid == [i \in DOMAIN c.next |->
                       IF i = c.pre[m] THEN c.next[m] ELSE c.next[i]]
  <2> HIDE DEF n
  <2>1. /\ IsList(c, m) /\ InOrder(c, m, o2)
        /\ c.made[m] = ins /\ \A i \in 1..n : c.made[i] = l.made[i]
        /\ c.pre[m] = l.last /\ c.last = m
    BY <1>1, <1>2, MadeLast, ZenonT(40)
  <2>2. /\ l.entry = o[1] /\ l.last = o[n] /\ o[1] \in 1..n /\ o[n] \in 1..n
        /\ 1 \in 1..n /\ n \in 1..n /\ m \in Nat /\ m \notin 1..n
    BY <1>1, <1>3, <1>5
  <2>3. /\ DOMAIN c = {"made", "entry", "last", "pre", "next"}
        /\ c.made \in Seq(AnyIns) /\ c.pre \in Seq(Nat) /\ c.next \in Seq(Nat)
        /\ Len(c.made) = m /\ Len(c.pre) = m /\ Len(c.next) = m
    BY <2>1 DEF IsList
  <2>4. /\ d.made = c.made /\ d.entry = m /\ d.last = l.last
        /\ d.pre = [[c.pre EXCEPT ![l.entry] = m] EXCEPT ![m] = c.pre[l.entry]]
        /\ d.next = [mid EXCEPT ![m] = l.entry]
        /\ DOMAIN d = {"made", "entry", "last", "pre", "next"}
    <3> HIDE DEF c
    <3>1. l.entry # 0 /\ c.last = m
      BY <2>1, <2>2
    <3> DEFINE b == insert_me_before(c, m, l.entry)
    <3>2. d = [b EXCEPT !.entry = m, !.last = l.last]
      BY <3>1 DEF create_first, c
    <3>3. /\ b.made = c.made
          /\ b.pre = [c.pre EXCEPT ![l.entry] = m, ![m] = c.pre[l.entry]]
          /\ b.next = [mid EXCEPT ![m] = l.entry]
          /\ DOMAIN b = {"made", "entry", "last", "pre", "next"}
      BY <2>3 DEF insert_me_before
    <3> HIDE DEF b, mid, d
    <3> QED
      BY <3>2, <3>3
  <2>5. /\ \A k \in 1..n : o2[k] = o[k] /\ o[k] \in 1..n
        /\ o2[m] = m /\ m \in 1..m /\ \A k \in 1..n : k \in 1..m /\ k # m
        /\ \A k \in 1..n : k # n => k + 1 \in 1..n
    BY <1>1, <1>3
  <2>6. /\ c.next[m] = 0 /\ c.next[o[n]] = m
        /\ \A k \in 1..n : k # n => c.next[o[k]] = o[k + 1]
    <3>1. \A k \in 1..m : c.next[o2[k]] = IF k = m THEN 0 ELSE o2[k + 1]
      BY <2>1 DEF InOrder
    <3>2. c.next[o2[m]] = 0 /\ c.next[o2[n]] = o2[n + 1]
      BY <2>2, <2>5, <3>1
    <3>3. ASSUME NEW k \in 1..n, k # n
          PROVE  c.next[o[k]] = o[k + 1]
      <4>1. c.next[o2[k]] = o2[k + 1] /\ o2[k + 1] = o[k + 1] /\ o2[k] = o[k]
        BY <2>5, <3>1, <3>3
      <4> QED
        BY <4>1
    <3> HIDE DEF o2
    <3> QED
      BY <2>2, <2>5, <3>2, <3>3
  <2>7. /\ DOMAIN c.next = 1..m /\ DOMAIN c.pre = 1..m
        /\ \A i \in 1..m : c.next[i] \in Nat /\ c.pre[i] \in Nat
    BY <2>2, <2>3
  <2> HIDE DEF c, d, o2
  <2>8. /\ DOMAIN mid = 1..m /\ mid[o[n]] = 0 /\ \A i \in 1..m : mid[i] \in Nat
        /\ \A k \in 1..n : k # n => mid[o[k]] = o[k + 1]
    <3>1. \A i \in 1..m : mid[i] = IF i = o[n] THEN 0 ELSE c.next[i]
      BY <2>1, <2>2, <2>6, <2>7
    <3>2. \A k \in 1..n : k # n => o[k] # o[n] /\ o[k] \in 1..m
      BY <1>3, <2>2, <2>5
    <3>3. DOMAIN mid = 1..m /\ o[n] \in 1..m
      BY <2>2, <2>5, <2>7
    <3> HIDE DEF mid, m
    <3>4. mid[o[n]] = 0 /\ \A i \in 1..m : mid[i] \in Nat
      BY <2>7, <3>1, <3>3
    <3>5. \A k \in 1..n : k # n => mid[o[k]] = c.next[o[k]]
      BY <3>1, <3>2
    <3> QED
      BY <2>6, <3>3, <3>4, <3>5
  <2> HIDE DEF mid
  <2>9. /\ DOMAIN d.next = 1..m /\ d.next[m] = o[1] /\ d.next[o[n]] = 0
        /\ \A k \in 1..n : k # n => d.next[o[k]] = o[k + 1]
        /\ d.next \in [1..m -> Nat]
    <3>1. /\ DOMAIN d.next = 1..m
          /\ \A i \in 1..m : d.next[i] = IF i = m THEN o[1] ELSE mid[i]
          /\ d.next = [i \in 1..m |-> d.next[i]]
      BY <2>2, <2>4, <2>5, <2>8
    <3>2. o[1] \in Nat /\ \A k \in 1..n : o[k] \in 1..m /\ o[k] # m
      BY <2>2, <2>5
    <3>3. \A i \in 1..m : d.next[i] \in Nat
      BY <2>8, <3>1, <3>2
    <3>4. m \in 1..m /\ o[n] \in 1..m /\ o[n] # m
      BY <2>2, <2>5
    <3> HIDE DEF m
    <3>5. d.next[m] = o[1] /\ d.next[o[n]] = 0
      BY <2>8, <3>1, <3>4
    <3>6. \A k \in 1..n : k # n => d.next[o[k]] = o[k + 1]
      BY <2>8, <3>1, <3>2
    <3>7. d.next \in [1..m -> Nat]
      BY <3>1, <3>3
    <3> QED
      BY <3>1, <3>5, <3>6, <3>7
  <2>10. IsList(d, m)
    <3>1. d.pre \in [1..m -> Nat]
      <4> DEFINE p == [c.pre EXCEPT ![l.entry] = m]
      <4>1. m \in Nat /\ c.pre[l.entry] \in Nat
        BY <2>2, <2>5, <2>7
      <4>2. DOMAIN p = 1..m /\ \A i \in 1..m : p[i] = IF i = l.entry THEN m ELSE c.pre[i]
        BY <2>7
      <4> HIDE DEF m
      <4>3. \A i \in 1..m : p[i] \in Nat
        BY <2>7, <4>1, <4>2
      <4>4. d.pre = [p EXCEPT ![m] = c.pre[l.entry]]
        BY <2>4
      <4> HIDE DEF p
      <4> QED
        BY <4>1, <4>2, <4>3, <4>4
    <3>2. \A F \in [1..m -> Nat] : F \in Seq(Nat) /\ Len(F) = m
      <4>1. m \in Nat
        BY <2>2
      <4> HIDE DEF m
      <4> QED
        BY <4>1
    <3>3. /\ d.pre \in Seq(Nat) /\ Len(d.pre) = m
          /\ d.next \in Seq(Nat) /\ Len(d.next) = m
      BY <2>9, <3>1, <3>2, Zenon
    <3> HIDE DEF m
    <3> QED
      BY <2>3, <2>4, <3>3 DEF IsList
  <2>11. /\ o3[1] = m /\ \A k \in 1..n : o3[k + 1] = o[k]
         /\ o3 \in [1..m -> 1..m]
         /\ \A k \in 1..m : k = 1 \/ \E j \in 1..n : k = j + 1
    <3>1. \A k \in 1..m : k # 1 => k - 1 \in 1..n /\ k = (k - 1) + 1
      BY <1>1
    <3>2. \A k \in 1..n : k + 1 \in 1..m /\ k + 1 # 1 /\ (k + 1) - 1 = k
      BY <1>1
    <3>3. 1 \in 1..m /\ m \in 1..m
      BY <1>1
    <3> QED
      BY <2>5, <3>1, <3>2, <3>3
  <2> HIDE DEF o3
  <2>12. InOrder(d, m, o3)
    <3>1. ASSUME NEW i \in 1..m, NEW j \in 1..m, o3[i] = o3[j]
          PROVE  i = j
      BY <1>3, <2>5, <2>11, <3>1
    <3>2. d.entry = o3[1] /\ d.last = o3[m] /\ m # 0
      BY <2>2, <2>4, <2>11
    <3>3. d.next[o3[1]] = o3[1 + 1] /\ 1 # m
      BY <2>2, <2>9, <2>11
    <3>4. ASSUME NEW j \in 1..n
          PROVE  d.next[o3[j + 1]] = IF j + 1 = m THEN 0 ELSE o3[j + 1 + 1]
      <4>1. CASE j = n
        BY <2>9, <2>11, <4>1
      <4>2. CASE j # n
        <5>1. j + 1 \in 1..n /\ j + 1 # m
          BY <1>1, <2>5, <4>2
        <5> QED
          BY <2>9, <2>11, <4>2, <5>1
      <4> QED
        BY <4>1, <4>2
    <3>5. \A k \in 1..m : d.next[o3[k]] = IF k = m THEN 0 ELSE o3[k + 1]
      BY <2>11, <3>3, <3>4
    <3> HIDE DEF m
    <3> QED
      BY <2>11, <3>1, <3>2, <3>5 DEF InOrder
  <2>13. /\ <<ins>> \o q \in Seq(AnyIns) /\ Len(<<ins>> \o q) = m
         /\ (<<ins>> \o q)[1] = ins
         /\ \A k \in 1..n : (<<ins>> \o q)[k + 1] = q[k]
    <3>1. <<ins>> \in Seq(AnyIns) /\ Len(<<ins>>) = 1 /\ <<ins>>[1] = ins
      OBVIOUS
    <3>2. /\ Len(<<ins>> \o q) = 1 + n /\ <<ins>> \o q \in Seq(AnyIns)
          /\ (<<ins>> \o q)[1] = ins
          /\ \A k \in 1..n : (<<ins>> \o q)[1 + k] = q[k]
      BY <1>1, <3>1, ConcatGives DEF n
    <3>3. 1 + n = m /\ \A k \in 1..n : 1 + k = k + 1
      BY <1>1
    <3> QED
      BY <3>2, <3>3
  <2>14. \A k \in 1..m : d.made[o3[k]] = (<<ins>> \o q)[k]
    <3>1. d.made[o3[1]] = ins
      BY <2>1, <2>4, <2>11
    <3>2. ASSUME NEW k \in 1..n
          PROVE  d.made[o3[k + 1]] = q[k]
      <4>1. o3[k + 1] = o[k] /\ o[k] \in 1..n
        BY <2>5, <2>11
      <4>2. d.made[o[k]] = l.made[o[k]]
        BY <2>1, <2>4, <4>1
      <4> QED
        BY <1>2, <4>1, <4>2
    <3> QED
      BY <2>11, <2>13, <3>1, <3>2
  <2> HIDE DEF m
  <2> QED
    BY <2>10, <2>12, <2>13, <2>14 DEF Linked, d
<1> QED
  BY <1>4, <1>5

-----------------------------------------------------------------------------
(* Several instructions at once, and the walk along a list. Both are recursive *)
(* functions; a function that solves their equations up to n can be extended  *)
(* to n + 1.                                                                   *)

MadeEq(f, l, seq, k) == IF k = 0 THEN l ELSE create_instr(f[k - 1], seq[k])
Makes(f, l, seq, m) == f = [k \in 0..m |-> MadeEq(f, l, seq, k)]

LEMMA MakesSolved ==
    ASSUME NEW l, NEW seq, NEW m \in Nat
    PROVE  \E f : Makes(f, l, seq, m)
<1> DEFINE S == {k \in Nat : \E f : Makes(f, l, seq, k)}
<1>1. 0 \in S
  <2> DEFINE f == [n \in 0..0 |-> l]
  <2>1. Makes(f, l, seq, 0)
    BY DEF Makes, MadeEq
  <2> QED
    BY <2>1
<1>2. ASSUME NEW k \in Nat, k \in S
      PROVE  k + 1 \in S
  <2>1. PICK f : Makes(f, l, seq, k)
    BY <1>2
  <2>2. f = [n \in 0..k |-> MadeEq(f, l, seq, n)]
    BY <2>1 DEF Makes
  <2> DEFINE g == [n \in 0..k + 1 |-> MadeEq(f, l, seq, n)]
             h == [n \in 0..k + 1 |-> MadeEq(g, l, seq, n)]
  <2>3. ASSUME NEW n \in 0..k + 1
        PROVE  MadeEq(f, l, seq, n) = MadeEq(g, l, seq, n)
    <3>1. ASSUME n # 0
          PROVE  f[n - 1] = g[n - 1]
      <4>1. n - 1 \in 0..k /\ n - 1 \in 0..k + 1
        BY <3>1
      <4> QED
        BY <2>2, <4>1
    <3> HIDE DEF g
    <3> QED
      BY <3>1 DEF MadeEq
  <2>4. g = h
    BY <2>3
  <2> HIDE DEF g
  <2>5. Makes(g, l, seq, k + 1)
    BY <2>4 DEF Makes
  <2> QED
    BY <2>5
<1>3. Nat \subseteq S
  <2> HIDE DEF S
  <2> QED
    BY <1>1, <1>2, EveryNumber
<1> QED
  BY <1>3

LEMMA CreatesLinked ==
    ASSUME NEW l, NEW q, Linked(l, q), NEW seq \in Seq(AnyIns)
    PROVE  Linked(create_instrs(l, seq), q \o seq)
<1> DEFINE n == Len(q)
           m == Len(seq)
           p == q \o seq
           F == CHOOSE f : Makes(f, l, seq, m)
<1>1. /\ n \in Nat /\ m \in Nat /\ q \in Seq(AnyIns) /\ p \in Seq(AnyIns)
      /\ Len(p) = n + m
      /\ \A i \in 1..n : p[i] = q[i]
      /\ \A i \in 1..m : p[n + i] = seq[i]
  <2>1. q \in Seq(AnyIns)
    BY DEF Linked
  <2> QED
    BY <2>1, ConcatGives, SMTT(40)
<1>2. Makes(F, l, seq, m)
  BY <1>1, MakesSolved
<1>3. create_instrs(l, seq) = F[m]
  BY DEF create_instrs, Makes, MadeEq
<1>4. \A k \in 0..m : F[k] = MadeEq(F, l, seq, k)
  <2>1. F = [k \in 0..m |-> MadeEq(F, l, seq, k)]
    BY <1>2 DEF Makes
  <2> HIDE DEF F
  <2> QED
    BY <2>1
<1> DEFINE Part(k, r) == /\ Linked(F[k], r) /\ Len(r) = n + k
                         /\ \A i \in 1..n + k : r[i] = p[i]
           S == {k \in Nat : k <= m => \E r : Part(k, r)}
<1> HIDE DEF F
<1>5. 0 \in S
  <2>1. F[0] = l
    BY <1>1, <1>4 DEF MadeEq
  <2>2. n + 0 = n
    BY <1>1
  <2>3. Part(0, q)
    BY <1>1, <2>1, <2>2
  <2> HIDE DEF Part
  <2> QED
    BY <2>3
<1>6. ASSUME NEW k \in Nat, k \in S
      PROVE  k + 1 \in S
  <2> SUFFICES ASSUME k + 1 <= m
               PROVE  \E r : Part(k + 1, r)
    <3> HIDE DEF Part, m
    <3> QED
      OBVIOUS
  <2>1. /\ k + 1 \in 0..m /\ k + 1 # 0 /\ (k + 1) - 1 = k /\ k <= m
        /\ k + 1 \in 1..m /\ n + (k + 1) = (n + k) + 1 /\ n + k \in Nat
    BY <1>1
  <2>2. PICK r : Part(k, r)
    BY <1>6, <2>1
  <2>3. F[k + 1] = create_instr(F[k], seq[k + 1])
    BY <1>4, <2>1 DEF MadeEq
  <2>4. seq[k + 1] \in AnyIns /\ p[(n + k) + 1] = seq[k + 1]
    BY <1>1, <2>1
  <2>5. Linked(F[k + 1], Append(r, seq[k + 1]))
    BY <2>2, <2>3, <2>4, CreateLinked
  <2>6. /\ Len(Append(r, seq[k + 1])) = (n + k) + 1
        /\ \A i \in 1..(n + k) + 1 : Append(r, seq[k + 1])[i] = p[i]
    <3>1. r \in Seq(AnyIns) /\ Len(r) = n + k /\ \A i \in 1..n + k : r[i] = p[i]
      BY <2>2 DEF Linked
    <3> DEFINE a == Append(r, seq[k + 1])
               N == n + k
    <3>2. /\ Len(a) = N + 1 /\ a[N + 1] = seq[k + 1]
          /\ \A i \in 1..N : a[i] = r[i]
      <4>1. /\ Len(a) = Len(r) + 1 /\ a[Len(r) + 1] = seq[k + 1]
            /\ \A i \in DOMAIN r : a[i] = r[i]
        <5>1. r \in Seq(AnyIns) /\ seq[k + 1] \in AnyIns
          BY <2>4, <3>1
        <5> DEFINE e == seq[k + 1]
        <5> HIDE DEF e
        <5>2. /\ Len(Append(r, e)) = Len(r) + 1 /\ Append(r, e)[Len(r) + 1] = e
              /\ \A i \in DOMAIN r : Append(r, e)[i] = r[i]
          BY <5>1, PushGives DEF e
        <5> QED
          BY <5>2 DEF e
      <4>2. Len(r) = N /\ DOMAIN r = 1..N
        BY <3>1
      <4> HIDE DEF a, N
      <4> QED
        BY <4>1, <4>2
    <3>3. N \in Nat /\ p[N + 1] = seq[k + 1] /\ \A i \in 1..N : r[i] = p[i]
      BY <2>1, <2>4, <3>1
    <3> HIDE DEF a, N
    <3>4. \A i \in 1..N + 1 : a[i] = p[i]
      <4>1. \A i \in 1..N + 1 : i \in 1..N \/ i = N + 1
        BY <3>3
      <4> QED
        BY <3>2, <3>3, <4>1
    <3> QED
      BY <3>2, <3>4 DEF a, N
  <2>7. Part(k + 1, Append(r, seq[k + 1]))
    BY <2>1, <2>5, <2>6
  <2> HIDE DEF Part
  <2> QED
    BY <2>7
<1>7. m \in S
  <2> HIDE DEF S
  <2> QED
    BY <1>1, <1>5, <1>6, EveryNumber
<1>8. PICK r : Part(m, r)
  BY <1>1, <1>7
<1>9. r = p
  <2>1. /\ r \in Seq(AnyIns) /\ Len(r) = n + m /\ \A i \in 1..n + m : r[i] = p[i]
    BY <1>8 DEF Linked
  <2> HIDE DEF p
  <2> QED
    BY <1>1, <2>1
<1> QED
  BY <1>3, <1>8, <1>9

AtEq(f, l, k) ==
    IF k = 1 THEN l.entry ELSE IF f[k - 1] = 0 THEN 0 ELSE l.next[f[k - 1]]

\* The walk along the list of a block meets its code.
LEMMA WalkMeets ==
    ASSUME NEW l, NEW q, Linked(l, q)
    PROVE  Walk(l) = q
<1> DEFINE n == Len(q)
           Goes(f) == f = [k \in 1..n + 1 |-> AtEq(f, l, k)]
           F == CHOOSE f : Goes(f)
           M == {k \in DOMAIN F : F[k] # 0}
<1>1. n \in Nat /\ q \in Seq(AnyIns) /\ Len(l.made) = n /\ q = [k \in 1..n |-> q[k]]
  BY DEF Linked, IsList
<1>2. PICK o : InOrder(l, n, o) /\ \A k \in 1..n : l.made[o[k]] = q[k]
  BY DEF Linked
<1>3. /\ \A k \in 1..n : o[k] \in 1..n
      /\ l.entry = IF n = 0 THEN 0 ELSE o[1]
      /\ \A k \in 1..n : l.next[o[k]] = IF k = n THEN 0 ELSE o[k + 1]
  <2>1. o \in [1..n -> 1..n]
    BY <1>2 DEF InOrder
  <2> QED
    BY <1>2, <2>1 DEF InOrder
<1>4. Walk(l) = [k \in M |-> l.made[F[k]]]
  BY <1>1 DEF Walk, AtEq
<1> HIDE DEF n, F
<1> DEFINE To(k) == IF k = n + 1 THEN 0 ELSE o[k]
<1>5. \E f : Goes(f)
  <2> DEFINE f == [k \in 1..n + 1 |-> To(k)]
             g == [k \in 1..n + 1 |-> AtEq(f, l, k)]
  <2>1. ASSUME NEW k \in 1..n + 1
        PROVE  To(k) = AtEq(f, l, k)
    <3>1. CASE k = 1
      BY <1>1, <1>3, <3>1 DEF AtEq
    <3>2. CASE k # 1
      <4>1. k - 1 \in 1..n /\ k - 1 \in 1..n + 1 /\ k - 1 # n + 1 /\ (k - 1) + 1 = k
        BY <1>1, <3>2
      <4>2. f[k - 1] = o[k - 1] /\ o[k - 1] # 0
        BY <1>1, <1>3, <4>1
      <4>3. l.next[o[k - 1]] = IF k - 1 = n THEN 0 ELSE o[k]
        BY <1>3, <4>1
      <4>4. k - 1 = n <=> k = n + 1
        BY <1>1, <3>2
      <4> HIDE DEF f
      <4> QED
        BY <3>2, <4>2, <4>3, <4>4 DEF AtEq
    <3> QED
      BY <3>1, <3>2
  <2>2. f = g
    <3> HIDE DEF To
    <3>1. \A k \in 1..n + 1 : To(k) = AtEq(f, l, k)
      BY <2>1
    <3> QED
      BY <3>1
  <2>3. Goes(f)
    BY <2>2
  <2> QED
    BY <2>3
<1>6. \A k \in 1..n + 1 : F[k] = AtEq(F, l, k)
  <2>1. Goes(F)
    BY <1>5 DEF F
  <2> QED
    BY <2>1
<1>7. DOMAIN F = 1..n + 1
  <2>1. Goes(F)
    BY <1>5 DEF F
  <2> QED
    BY <2>1
<1> DEFINE S == {k \in Nat : k + 1 <= n + 1 => F[k + 1] = To(k + 1)}
<1>8. 0 \in S
  BY <1>1, <1>3, <1>6 DEF AtEq
<1>9. ASSUME NEW k \in Nat, k \in S
      PROVE  k + 1 \in S
  <2> SUFFICES ASSUME k + 2 <= n + 1
               PROVE  F[k + 2] = To(k + 2)
    BY <1>1
  <2>1. /\ k + 2 \in 1..n + 1 /\ k + 2 # 1 /\ (k + 2) - 1 = k + 1
        /\ k + 1 \in 1..n /\ k + 1 <= n + 1 /\ k + 1 # n + 1
        /\ (k + 1) + 1 = k + 2 /\ (k + 1 = n <=> k + 2 = n + 1)
    BY <1>1
  <2>2. F[k + 1] = o[k + 1]
    BY <1>9, <2>1
  <2>3. o[k + 1] # 0
    BY <1>1, <1>3, <2>1
  <2>4. F[k + 2] = l.next[o[k + 1]]
    BY <1>6, <2>1, <2>2, <2>3 DEF AtEq
  <2> QED
    BY <1>3, <2>1, <2>4
<1>10. ASSUME NEW k \in 1..n + 1
       PROVE  F[k] = To(k)
  <2>1. Nat \subseteq S
    <3> HIDE DEF S
    <3> QED
      BY <1>8, <1>9, EveryNumber
  <2>2. k - 1 \in Nat /\ (k - 1) + 1 = k /\ k <= n + 1
    BY <1>1
  <2> QED
    BY <2>1, <2>2
<1>11. M = 1..n /\ \A k \in 1..n : F[k] = o[k]
  BY <1>1, <1>3, <1>7, <1>10
<1> HIDE DEF M
<1> QED
  BY <1>1, <1>2, <1>4, <1>11

-----------------------------------------------------------------------------
(* The lists of the blocks.                                                   *)

ListsOK(bs) == \A b \in DOMAIN bs : Linked(bs[b].list, bs[b].instrs)

LEMMA InstrsAny ==
    ASSUME NEW n \in Nat, NEW B \in Nat
    PROVE  Instrs(n, B) \subseteq AnyIns /\ Seq(Instrs(n, B)) \subseteq Seq(AnyIns)
<1>1. 0..n \subseteq Nat /\ -1..n \subseteq Int /\ 1..B \subseteq Nat
  OBVIOUS
<1>2. Seq(-1..n) \subseteq Seq(Int) /\ Seq(1..B) \subseteq Seq(Nat)
  BY <1>1
<1>3. Instrs(n, B) \subseteq AnyIns
  BY <1>1, <1>2 DEF Instrs, AnyIns
<1> DEFINE I == Instrs(n, B)
<1>4. \A q \in Seq(I) : q \in Seq(AnyIns)
  <2>1. I \subseteq AnyIns
    BY <1>3
  <2> HIDE DEF I
  <2> QED
    BY <2>1, Widened
<1> QED
  BY <1>3, <1>4

LEMMA CreateKeeps ==
    ASSUME NEW bs, IsBlocks(bs), ListsOK(bs), NEW k \in Nat
    PROVE  ListsOK(Create(bs, k))
<1> DEFINE bs2 == Create(bs, k)
<1>1. /\ IsBlocks(bs2) /\ Len(bs2) = Len(bs) + k
      /\ \A c \in 1..Len(bs) : bs2[c] = bs[c]
      /\ \A c \in Len(bs) + 1..Len(bs) + k : bs2[c] = EmptyBlock
  BY CreateGives
<1> HIDE DEF bs2
<1>2. Len(bs) \in Nat /\ DOMAIN bs = 1..Len(bs) /\ DOMAIN bs2 = 1..Len(bs) + k
  BY <1>1, BlocksLen
<1>3. Linked(EmptyBlock.list, EmptyBlock.instrs)
  BY EmptyLinked DEF EmptyBlock
<1>4. ASSUME NEW c \in DOMAIN bs2
      PROVE  Linked(bs2[c].list, bs2[c].instrs)
  <2>1. CASE c \in 1..Len(bs)
    BY <1>1, <1>2, <2>1, Zenon DEF ListsOK
  <2>2. CASE c \in Len(bs) + 1..Len(bs) + k
    BY <1>1, <1>3, <2>2, Zenon
  <2>3. c \in 1..Len(bs) \/ c \in Len(bs) + 1..Len(bs) + k
    BY <1>2
  <2> QED
    BY <2>1, <2>2, <2>3
<1> QED
  BY <1>4 DEF ListsOK, bs2

LEMMA EmitKeeps ==
    ASSUME NEW bs, IsBlocks(bs), ListsOK(bs), NEW b \in DOMAIN bs,
           NEW seq \in Seq(AnyIns)
    PROVE  ListsOK(Emit(bs, b, seq))
<1> DEFINE bs2 == Emit(bs, b, seq)
<1>1. DOMAIN bs[b] = Fields
  BY DEF IsBlocks
<1>2. /\ DOMAIN bs2 = DOMAIN bs
      /\ \A c \in DOMAIN bs : c # b => bs2[c] = bs[c]
      /\ bs2[b].instrs = bs[b].instrs \o seq
      /\ bs2[b].list = create_instrs(bs[b].list, seq)
  BY <1>1 DEF Emit, Fields
<1>3. Linked(bs2[b].list, bs2[b].instrs)
  <2>1. Linked(bs[b].list, bs[b].instrs)
    BY DEF ListsOK
  <2> HIDE DEF bs2
  <2> QED
    BY <1>2, <2>1, CreatesLinked
<1> HIDE DEF bs2
<1>4. \A c \in DOMAIN bs2 : Linked(bs2[c].list, bs2[c].instrs)
  BY <1>2, <1>3, Zenon DEF ListsOK
<1> QED
  BY <1>4 DEF ListsOK, bs2

LEMMA LinkKeeps ==
    ASSUME NEW bs, IsBlocks(bs), ListsOK(bs), NEW p \in DOMAIN bs, NEW n \in DOMAIN bs
    PROVE  ListsOK(link_bb(bs, p, n))
<1> DEFINE mid == [bs EXCEPT ![p].next = Append(@, n)]
           bs2 == [mid EXCEPT ![n].pre = Append(@, p)]
<1>1. \A c \in DOMAIN bs : DOMAIN bs[c] = Fields
  BY DEF IsBlocks
<1>2. /\ DOMAIN mid = DOMAIN bs
      /\ \A c \in DOMAIN bs : /\ DOMAIN mid[c] = Fields
                              /\ mid[c].instrs = bs[c].instrs
                              /\ mid[c].list = bs[c].list
  BY <1>1 DEF Fields
<1>3. /\ DOMAIN bs2 = DOMAIN bs
      /\ \A c \in DOMAIN bs : /\ bs2[c].instrs = bs[c].instrs
                              /\ bs2[c].list = bs[c].list
  <2> HIDE DEF mid
  <2> QED
    BY <1>2 DEF Fields
<1>4. bs2 = link_bb(bs, p, n)
  BY DEF link_bb
<1> HIDE DEF mid, bs2
<1> QED
  BY <1>3, <1>4, Zenon DEF ListsOK

\* The slot is put at the head of the entry block, and read in the exit block.
LEMMA SlotKeeps ==
    ASSUME NEW bs, IsBlocks(bs), Len(bs) >= 2, ListsOK(bs), NEW s \in Nat
    PROVE  ListsOK(WithSlot(bs, s))
<1> DEFINE mid == [bs EXCEPT ![Entry].instrs = <<Alloc(s)>> \o @,
                             ![Entry].list = create_first(@, Alloc(s))]
           bs2 == [mid EXCEPT ![Exit].instrs = @ \o SlotCode(s),
                              ![Exit].list = create_instrs(@, SlotCode(s)),
                              ![Exit].term = @ \/ HasEnd(SlotCode(s))]
<1>1. /\ Entry \in DOMAIN bs /\ Exit \in DOMAIN bs /\ Entry # Exit
      /\ \A c \in DOMAIN bs : DOMAIN bs[c] = Fields
  BY BlocksLen DEF IsBlocks, Entry, Exit
<1>2. /\ DOMAIN mid = DOMAIN bs
      /\ \A c \in DOMAIN bs : DOMAIN mid[c] = Fields
      /\ \A c \in DOMAIN bs : c # Entry => mid[c] = bs[c]
      /\ mid[Entry].instrs = <<Alloc(s)>> \o bs[Entry].instrs
      /\ mid[Entry].list = create_first(bs[Entry].list, Alloc(s))
  BY <1>1 DEF Fields
<1>3. bs2 = WithSlot(bs, s)
  BY DEF WithSlot, Emit, SlotCode, HasEnd
<1> HIDE DEF mid
<1>4. /\ DOMAIN bs2 = DOMAIN bs
      /\ \A c \in DOMAIN bs : c # Exit => bs2[c] = mid[c]
      /\ bs2[Exit].instrs = mid[Exit].instrs \o SlotCode(s)
      /\ bs2[Exit].list = create_instrs(mid[Exit].list, SlotCode(s))
  BY <1>1, <1>2 DEF Fields
<1> HIDE DEF bs2
<1>5. Alloc(s) \in AnyIns /\ SlotCode(s) \in Seq(AnyIns)
  <2>1. s \in 0..s + 1 /\ s + 1 \in 0..s + 1 /\ s + 1 \in Nat /\ 2 \in Nat
    OBVIOUS
  <2>2. /\ Alloc(s) \in Instrs(s + 1, 2) /\ Load(s + 1, s) \in Instrs(s + 1, 2)
        /\ Ret(s + 1) \in Instrs(s + 1, 2)
    BY <2>1, InstrsTyped
  <2>3. Instrs(s + 1, 2) \subseteq AnyIns
    BY <2>1, InstrsAny
  <2>4. Alloc(s) \in AnyIns /\ Load(s + 1, s) \in AnyIns /\ Ret(s + 1) \in AnyIns
    BY <2>2, <2>3, Zenon
  <2> QED
    BY <2>4 DEF SlotCode
<1>6. \A c \in DOMAIN bs : Linked(bs[c].list, bs[c].instrs)
  BY DEF ListsOK
<1>7. Linked(mid[Entry].list, mid[Entry].instrs)
  BY <1>1, <1>2, <1>5, <1>6, FirstLinked
<1>8. Linked(bs2[Exit].list, bs2[Exit].instrs)
  <2>1. Linked(mid[Exit].list, mid[Exit].instrs)
    BY <1>1, <1>2, <1>6, Zenon
  <2> QED
    BY <1>4, <1>5, <2>1, CreatesLinked
<1>9. ASSUME NEW c \in DOMAIN bs2
      PROVE  Linked(bs2[c].list, bs2[c].instrs)
  <2>1. CASE c = Entry
    BY <1>1, <1>4, <1>7, <2>1, Zenon
  <2>2. CASE c = Exit
    BY <1>8, <2>2
  <2>3. CASE c # Entry /\ c # Exit
    BY <1>2, <1>4, <1>6, <2>3, Zenon
  <2> QED
    BY <2>1, <2>2, <2>3
<1> QED
  BY <1>3, <1>9 DEF ListsOK

-----------------------------------------------------------------------------
(* Every step of the walk keeps the lists.                                    *)

ListInv == ListsOK(blocks)

LEMMA LowersAny ==
    ASSUME Control, NEW k, NEW seq, Lowers(k, seq)
    PROVE  k \in Nat /\ seq \in Seq(AnyIns)
<1>1. /\ k \in Nat /\ nsym' \in Nat /\ Len(blocks) + k \in Nat
      /\ seq \in Seq(Instrs(nsym', Len(blocks) + k))
  BY Sizes DEF Lowers
<1> DEFINE n == nsym'
           B == Len(blocks) + k
<1> HIDE DEF n, B
<1>2. Seq(Instrs(n, B)) \subseteq Seq(AnyIns)
  BY <1>1, InstrsAny DEF n, B
<1> QED
  BY <1>1, <1>2 DEF n, B

\* The code is emitted, into the current block of the old blocks or of the old
\* and new ones.
LEMMA EmitListed ==
    ASSUME Control, ListInv, NEW k, NEW seq, Lowers(k, seq)
    PROVE  LET bs == Emit(blocks, cur, seq)
               cs == Emit(Create(blocks, k), cur, seq)
           IN /\ IsBlocks(bs) /\ ListsOK(bs) /\ DOMAIN bs = 1..Len(blocks)
              /\ IsBlocks(cs) /\ ListsOK(cs) /\ DOMAIN cs = 1..Len(blocks) + k
              /\ cur \in DOMAIN bs /\ cur \in DOMAIN cs
<1> DEFINE bs == Emit(blocks, cur, seq)
           ds == Create(blocks, k)
           cs == Emit(ds, cur, seq)
<1>1. k \in Nat /\ seq \in Seq(AnyIns)
  BY LowersAny
<1>2. /\ IsBlocks(blocks) /\ cur \in DOMAIN blocks /\ Len(blocks) \in Nat
      /\ DOMAIN blocks = 1..Len(blocks)
  BY Sizes
<1>3. ListsOK(blocks)
  BY DEF ListInv
<1>4. IsBlocks(bs) /\ Len(bs) = Len(blocks)
  BY <1>2, EmitGives
<1>5. ListsOK(bs)
  BY <1>1, <1>2, <1>3, EmitKeeps
<1>6. IsBlocks(ds) /\ Len(ds) = Len(blocks) + k
  BY <1>1, <1>2, CreateGives
<1>7. ListsOK(ds)
  BY <1>1, <1>2, <1>3, CreateKeeps
<1> HIDE DEF ds, bs
<1>8. DOMAIN ds = 1..Len(blocks) + k /\ cur \in DOMAIN ds
  <2>1. DOMAIN ds = 1..Len(blocks) + k
    BY <1>6, BlocksLen
  <2> QED
    BY <1>1, <1>2, <2>1
<1>9. IsBlocks(cs) /\ Len(cs) = Len(ds)
  BY <1>6, <1>8, EmitGives
<1>10. ListsOK(cs)
  BY <1>1, <1>6, <1>7, <1>8, EmitKeeps
<1> HIDE DEF cs
<1>11. DOMAIN cs = 1..Len(blocks) + k /\ DOMAIN bs = 1..Len(blocks)
  BY <1>4, <1>6, <1>9, BlocksLen
<1> QED
  BY <1>2, <1>4, <1>5, <1>8, <1>9, <1>10, <1>11, Zenon DEF bs, cs, ds

\* The blocks are linked.
LEMMA LinkListed ==
    ASSUME NEW bs, IsBlocks(bs), ListsOK(bs), cur \in DOMAIN bs,
           NEW b \in DOMAIN bs, NEW c \in DOMAIN bs,
           \/ blocks' = link_bb(bs, cur, b)
           \/ blocks' = link_bb(link_bb(bs, cur, b), cur, c)
    PROVE  ListInv'
<1> DEFINE cs == link_bb(bs, cur, b)
           ds == link_bb(cs, cur, c)
<1>1. IsBlocks(cs) /\ Len(cs) = Len(bs) /\ ListsOK(cs)
  BY LinkGives, LinkKeeps
<1> HIDE DEF cs
<1>2. DOMAIN cs = DOMAIN bs
  BY <1>1, BlocksLen
<1>3. ListsOK(ds)
  BY <1>1, <1>2, LinkKeeps
<1>4. blocks' = cs \/ blocks' = ds
  BY DEF cs
<1> HIDE DEF ds
<1> QED
  BY <1>1, <1>3, <1>4 DEF ListInv

LEMMA SameLists ==
    ASSUME ListInv, UNCHANGED blocks
    PROVE  ListInv'
BY DEF ListInv

LEMMA StraightListed ==
    ASSUME Control, ListInv, NEW seq, Lowers(0, seq),
           blocks' = Emit(blocks, cur, seq)
    PROVE  ListInv'
<1>1. ListsOK(Emit(blocks, cur, seq))
  BY EmitListed
<1> QED
  BY <1>1, Zenon DEF ListInv

\* The actions that link what they emit.
LEMMA AfterIfCondListed ==
    ASSUME Control, ListInv, AfterIfCond
    PROVE  ListInv'
<1> DEFINE n == Len(blocks)
           k == IF Top.else THEN 3 ELSE 2
           seq == <<Br(val, n + 1, n + 2)>>
           bs == Emit(Create(blocks, k), cur, seq)
<1>1. Lowers(k, seq)
  BY AfterIfCondLowers
<1>2. blocks' = link_bb(link_bb(bs, cur, n + 1), cur, n + 2)
  <2>1. CASE Top.else
    BY <2>1, Sizes DEF AfterIfCond
  <2>2. CASE ~Top.else
    BY <2>2, Sizes DEF AfterIfCond
  <2> QED
    BY <2>1, <2>2
<1>3. n + 1 \in 1..n + k /\ n + 2 \in 1..n + k
  BY Sizes
<1> HIDE DEF k, seq
<1>4. IsBlocks(bs) /\ ListsOK(bs) /\ DOMAIN bs = 1..n + k /\ cur \in DOMAIN bs
  BY <1>1, EmitListed
<1> HIDE DEF n, bs
<1> QED
  BY <1>2, <1>3, <1>4, LinkListed

LEMMA JoinListed ==
    ASSUME Control, ListInv, NEW merge \in 3..Len(blocks), blocks' = JoinAt(merge),
           UNCHANGED nsym
    PROVE  ListInv'
<1>1. /\ IsBlocks(blocks) /\ cur \in DOMAIN blocks /\ Exit \in DOMAIN blocks
      /\ merge \in 1..Len(blocks) /\ ListsOK(blocks)
  BY Sizes DEF Exit, ListInv
<1>2. CASE Terminated
  <2>1. blocks' = link_bb(blocks, cur, Exit)
    BY <1>2 DEF JoinAt
  <2> QED
    BY <1>1, <2>1, LinkListed
<1>3. CASE ~Terminated
  <2> DEFINE bs == Emit(blocks, cur, <<Jump(merge)>>)
  <2>1. Lowers(0, <<Jump(merge)>>)
    BY <1>3, JoinLowers
  <2>2. IsBlocks(bs) /\ ListsOK(bs) /\ DOMAIN bs = 1..Len(blocks) /\ cur \in DOMAIN bs
    BY <2>1, EmitListed
  <2>3. blocks' = link_bb(bs, cur, merge)
    BY <1>3 DEF JoinAt
  <2> HIDE DEF bs
  <2> QED
    BY <1>1, <2>2, <2>3, LinkListed
<1> QED
  BY <1>2, <1>3

LEMMA AfterThenListed ==
    ASSUME Control, ListInv, AfterThen
    PROVE  ListInv'
<1>1. blocks' = JoinAt(Top.merge) /\ UNCHANGED nsym /\ Top.merge \in 3..Len(blocks)
  BY AfterThenLowers DEF AfterThen, symbols
<1> QED
  BY <1>1, JoinListed

LEMMA AfterElseListed ==
    ASSUME Control, ListInv, AfterElse
    PROVE  ListInv'
<1>1. blocks' = JoinAt(Top.merge) /\ UNCHANGED nsym /\ Top.merge \in 3..Len(blocks)
  BY AfterElseLowers DEF AfterElse, symbols
<1> QED
  BY <1>1, JoinListed

LEMMA WhileListed ==
    ASSUME Control, ListInv, NEW stmt, While(stmt)
    PROVE  ListInv'
<1> DEFINE n == Len(blocks)
           seq == <<Jump(n + 1)>>
           bs == Emit(Create(blocks, 3), cur, seq)
<1>1. Lowers(3, seq)
  BY WhileLowers
<1>2. blocks' = link_bb(bs, cur, n + 1) /\ n + 1 \in 1..n + 3
  BY Sizes DEF While
<1> HIDE DEF seq
<1>3. IsBlocks(bs) /\ ListsOK(bs) /\ DOMAIN bs = 1..n + 3 /\ cur \in DOMAIN bs
  BY <1>1, EmitListed
<1> HIDE DEF n, bs
<1> QED
  BY <1>2, <1>3, LinkListed

LEMMA AfterWhileCondListed ==
    ASSUME Control, ListInv, AfterWhileCond
    PROVE  ListInv'
<1> DEFINE seq == <<Br(val, Top.body, Top.merge)>>
           bs == Emit(blocks, cur, seq)
<1>1. Lowers(0, seq)
  BY AfterWhileCondLowers
<1>2. /\ mode # "done" /\ Top.k \in LoopKinds
      /\ blocks' = link_bb(link_bb(bs, cur, Top.body), cur, Top.merge)
  BY DEF AfterWhileCond, LoopKinds
<1>3. Top.body \in 1..Len(blocks) /\ Top.merge \in 1..Len(blocks)
  <2>1. Top.body \in 3..Len(blocks) /\ Top.merge \in 3..Len(blocks)
    BY <1>2, LoopFrame
  <2>2. 3..Len(blocks) \subseteq 1..Len(blocks)
    BY Sizes
  <2> QED
    BY <2>1, <2>2
<1> HIDE DEF seq
<1>4. IsBlocks(bs) /\ ListsOK(bs) /\ DOMAIN bs = 1..Len(blocks) /\ cur \in DOMAIN bs
  BY <1>1, EmitListed
<1> HIDE DEF bs
<1> QED
  BY <1>2, <1>3, <1>4, LinkListed

LEMMA AfterBodyListed ==
    ASSUME Control, ListInv, AfterBody
    PROVE  ListInv'
<1> DEFINE seq == <<Jump(Top.entry)>>
           bs == Emit(blocks, cur, seq)
<1>1. Lowers(0, seq)
  BY AfterBodyLowers
<1>2. /\ mode # "done" /\ Top.k \in LoopKinds
      /\ blocks' = link_bb(bs, cur, Top.entry)
  BY DEF AfterBody, LoopKinds
<1>3. Top.entry \in 1..Len(blocks)
  <2>1. Top.entry \in 3..Len(blocks)
    BY <1>2, LoopFrame
  <2>2. 3..Len(blocks) \subseteq 1..Len(blocks)
    BY Sizes
  <2> QED
    BY <2>1, <2>2
<1> HIDE DEF seq
<1>4. IsBlocks(bs) /\ ListsOK(bs) /\ DOMAIN bs = 1..Len(blocks) /\ cur \in DOMAIN bs
  BY <1>1, EmitListed
<1> HIDE DEF bs
<1> QED
  BY <1>2, <1>3, <1>4, LinkListed

LEMMA AfterLhsListed ==
    ASSUME Control, ListInv, AfterLhs
    PROVE  ListInv'
<1> DEFINE n == Len(blocks)
           bs == Emit(Create(blocks, 2), cur, ShortCircuitCode)
<1>1. Lowers(2, ShortCircuitCode)
  BY AfterLhsLowers
<1>2. blocks' = link_bb(link_bb(bs, cur, n + 1), cur, n + 2)
  BY DEF AfterLhs, ShortCircuitCode
<1>3. n + 1 \in 1..n + 2 /\ n + 2 \in 1..n + 2
  BY Sizes
<1>4. IsBlocks(bs) /\ ListsOK(bs) /\ DOMAIN bs = 1..n + 2 /\ cur \in DOMAIN bs
  BY <1>1, EmitListed
<1> HIDE DEF n, bs
<1> QED
  BY <1>2, <1>3, <1>4, LinkListed

LEMMA AfterRhsListed ==
    ASSUME Control, ListInv, AfterRhs
    PROVE  ListInv'
<1>1. CASE Terminated
  BY <1>1, SameLists DEF AfterRhs
<1>2. CASE ~Terminated
  <2> DEFINE bs == Emit(blocks, cur, RhsCode)
  <2>1. Lowers(0, RhsCode) /\ Top.merge \in 3..Len(blocks)
    BY <1>2, AfterRhsLowers
  <2>2. blocks' = link_bb(bs, cur, Top.merge)
    BY <1>2 DEF AfterRhs, RhsCode
  <2>3. Top.merge \in 1..Len(blocks)
    <3>1. 3..Len(blocks) \subseteq 1..Len(blocks)
      BY Sizes
    <3> QED
      BY <2>1, <3>1
  <2>4. IsBlocks(bs) /\ ListsOK(bs) /\ DOMAIN bs = 1..Len(blocks) /\ cur \in DOMAIN bs
    BY <2>1, EmitListed
  <2> HIDE DEF bs
  <2> QED
    BY <2>2, <2>3, <2>4, LinkListed
<1> QED
  BY <1>1, <1>2

LEMMA ReturnListed ==
    ASSUME Control, ListInv, NEW v \in -1..nsym, StoreAndLeave(v)
    PROVE  ListInv'
<1> DEFINE seq == <<Store(v, SlotNow), Jump(Exit)>>
<1>1. /\ nsym \in Nat /\ nsym + 1 \in Nat /\ Len(blocks) \in Nat /\ slot \in Nat
      /\ IsBlocks(blocks) /\ Len(blocks) >= 2 /\ cur \in DOMAIN blocks
      /\ ListsOK(blocks)
  BY Sizes DEF ListInv
<1>2. blocks' = Emit(BlocksNow, cur, seq)
  BY DEF StoreAndLeave, SlotNow, BlocksNow
<1>3. /\ nsym' \in Nat /\ nsym <= nsym' /\ SlotNow \in 0..nsym'
      /\ slot = Null => nsym + 2 <= nsym'
  BY ReturnLowers
<1>4. IsBlocks(BlocksNow) /\ DOMAIN BlocksNow = DOMAIN blocks
  BY <1>3, BlocksNowGives
<1>5. ListsOK(BlocksNow)
  BY <1>1, SlotKeeps DEF BlocksNow
<1>6. seq \in Seq(AnyIns)
  <2> DEFINE m == nsym'
             B == Len(blocks)
  <2>1. v \in -1..m /\ Exit \in 1..B /\ m \in Nat /\ B \in Nat /\ SlotNow \in 0..m
    BY <1>1, <1>3 DEF Exit
  <2> HIDE DEF m, B
  <2>2. Store(v, SlotNow) \in Instrs(m, B) /\ Jump(Exit) \in Instrs(m, B)
    BY <2>1, InstrsTyped
  <2>3. Store(v, SlotNow) \in AnyIns /\ Jump(Exit) \in AnyIns
    BY <2>1, <2>2, InstrsAny
  <2> QED
    BY <2>3
<1> HIDE DEF seq
<1>7. ListsOK(Emit(BlocksNow, cur, seq))
  BY <1>1, <1>4, <1>5, <1>6, EmitKeeps
<1> QED
  BY <1>2, <1>7, Zenon DEF ListInv

LEMMA StatementListed ==
    ASSUME Control, ListInv, Statement
    PROVE  ListInv'
<1>1. CASE SkipStmt \/ OpenBlock \/ CloseBlock
  BY <1>1, SameLists DEF SkipStmt, OpenBlock, CloseBlock
<1>2. ASSUME NEW x, SkipDecl(x) \/ DeclInit(x)
      PROVE  ListInv'
  BY <1>2, SameLists DEF SkipDecl, DeclInit
<1>3. ASSUME NEW x, DeclPlain(x)
      PROVE  ListInv'
  <2>1. blocks' = Emit(blocks, cur, <<Alloc(nsym + 1)>>)
    BY <1>3 DEF DeclPlain
  <2>2. Lowers(0, <<Alloc(nsym + 1)>>)
    BY <1>3, DeclPlainLowers
  <2> QED
    BY <2>1, <2>2, StraightListed
<1>4. CASE ExpStmt \/ ReturnExp \/ IfEmpty
  BY <1>4, SameLists DEF ExpStmt, ReturnExp, IfEmpty
<1>5. CASE ReturnVoid
  <2>1. StoreAndLeave(Undef) /\ Undef \in -1..nsym
    BY <1>5, Sizes DEF ReturnVoid, Undef
  <2> QED
    BY <2>1, ReturnListed
<1>6. ASSUME NEW v, Assign(v)
      PROVE  ListInv'
  BY <1>6, SameLists DEF Assign
<1>7. ASSUME NEW then, NEW else, If(then, else)
      PROVE  ListInv'
  <2>1. UNCHANGED blocks
    BY <1>7, Zenon DEF If
  <2> QED
    BY <2>1, SameLists
<1>8. ASSUME NEW stmt, While(stmt)
      PROVE  ListInv'
  BY <1>8, WhileListed
<1>9. ASSUME NEW isBreak, BreakOrContinue(isBreak)
      PROVE  ListInv'
  <2> DEFINE b == IF isBreak THEN mergeB ELSE entryB
  <2>1. blocks' = Emit(blocks, cur, <<Jump(b)>>)
    BY <1>9 DEF BreakOrContinue
  <2>2. Lowers(0, <<Jump(b)>>)
    BY <1>9, BreakLowers
  <2> HIDE DEF b
  <2> QED
    BY <2>1, <2>2, StraightListed
<1> QED
  BY <1>1, <1>2, <1>3, <1>4, <1>5, <1>6, <1>7, <1>8, <1>9 DEF Statement

LEMMA ExpressionListed ==
    ASSUME Control, ListInv, Expression
    PROVE  ListInv'
<1>1. CASE Number \/ UnboundLVal \/ Binary \/ Logical \/ \E op : Unary(op)
  BY <1>1, SameLists DEF Number, UnboundLVal, Binary, Logical, Unary, Operation
<1>2. ASSUME NEW v \in vis, LVal(v)
      PROVE  ListInv'
  <2>1. CASE irvar[v] = Null
    <3>1. UNCHANGED blocks
      BY <1>2, <2>1 DEF LVal
    <3> QED
      BY <3>1, SameLists
  <2>2. CASE irvar[v] # Null
    <3>1. blocks' = Emit(blocks, cur, <<Load(nsym + 1, irvar[v])>>)
      BY <1>2, <2>2 DEF LVal
    <3>2. Lowers(0, <<Load(nsym + 1, irvar[v])>>)
      BY <1>2, <2>2, LValLowers
    <3> QED
      BY <3>1, <3>2, StraightListed
  <2> QED
    BY <2>1, <2>2
<1> QED
  BY <1>1, <1>2 DEF Expression

LEMMA ContinueListed ==
    ASSUME Control, ListInv, Continue
    PROVE  ListInv'
<1>1. CASE AfterExpStmt \/ AfterOpnd1
  BY <1>1, SameLists DEF AfterExpStmt, AfterOpnd1
<1>2. CASE AfterInit
  <2>1. blocks' = Emit(blocks, cur, <<Alloc(nsym + 1), Store(val, nsym + 1)>>)
    BY <1>2 DEF AfterInit
  <2>2. Lowers(0, <<Alloc(nsym + 1), Store(val, nsym + 1)>>)
    BY <1>2, AfterInitLowers
  <2> QED
    BY <2>1, <2>2, StraightListed
<1>3. CASE AfterAssign
  <2>1. CASE name[Top.var] \notin DOMAIN symTab
    <3>1. UNCHANGED blocks
      BY <1>3, <2>1 DEF AfterAssign
    <3> QED
      BY <3>1, SameLists
  <2>2. CASE name[Top.var] \in DOMAIN symTab
    <3>1. blocks' = Emit(blocks, cur, <<Store(val, symTab[name[Top.var]])>>)
      BY <1>3, <2>2 DEF AfterAssign
    <3>2. Lowers(0, <<Store(val, symTab[name[Top.var]])>>)
      BY <1>3, <2>2, AfterAssignLowers
    <3> QED
      BY <3>1, <3>2, StraightListed
  <2> QED
    BY <2>1, <2>2
<1>4. CASE AfterReturnExp
  <2>1. StoreAndLeave(val) /\ val \in -1..nsym
    BY <1>4, Sizes DEF AfterReturnExp
  <2> QED
    BY <2>1, ReturnListed
<1>5. CASE AfterUnary
  <2>1. CASE Top.op = "+"
    <3>1. UNCHANGED blocks
      BY <1>5, <2>1 DEF AfterUnary
    <3> QED
      BY <3>1, SameLists
  <2>2. CASE Top.op # "+"
    <3>1. blocks' = Emit(blocks, cur, <<UnaryCode>>)
      BY <1>5, <2>2 DEF AfterUnary, UnaryCode
    <3>2. Lowers(0, <<UnaryCode>>)
      BY <1>5, <2>2, AfterUnaryLowers
    <3> QED
      BY <3>1, <3>2, StraightListed
  <2> QED
    BY <2>1, <2>2
<1>6. CASE AfterOpnd2
  <2>1. blocks' = Emit(blocks, cur, <<BExpr(nsym + 1, Top.val1, val)>>)
    BY <1>6 DEF AfterOpnd2
  <2>2. Lowers(0, <<BExpr(nsym + 1, Top.val1, val)>>)
    BY <1>6, AfterOpnd2Lowers
  <2> QED
    BY <2>1, <2>2, StraightListed
<1> QED
  BY <1>1, <1>2, <1>3, <1>4, <1>5, <1>6, AfterIfCondListed, AfterThenListed,
     AfterElseListed, AfterWhileCondListed, AfterBodyListed, AfterLhsListed,
     AfterRhsListed DEF Continue

LEMMA InitListed == Init => ListInv
<1> SUFFICES ASSUME Init PROVE ListInv
  OBVIOUS
<1>1. /\ blocks = <<EmptyBlock, EmptyBlock>>
      /\ DOMAIN blocks = 1..2
  BY DEF Init
<1>2. \A b \in DOMAIN blocks : blocks[b] = EmptyBlock
  BY <1>1
<1>3. Linked(EmptyBlock.list, EmptyBlock.instrs)
  BY EmptyLinked DEF EmptyBlock
<1> QED
  BY <1>2, <1>3, Zenon DEF ListInv, ListsOK

LEMMA StepListed == Control /\ ListInv /\ [Next]_vars => ListInv'
<1>1. ASSUME Control, ListInv, UNCHANGED vars
      PROVE  ListInv'
  BY <1>1, SameLists DEF vars
<1> QED
  BY <1>1, StatementListed, ExpressionListed, ContinueListed DEF Next, Over

LEMMA ListInvariant == Spec => [](Control /\ ListInv)
<1>1. Init => ListInv
  BY InitListed
<1>2. Control /\ ListInv /\ [Next]_vars => ListInv'
  BY StepListed
<1> QED
  BY <1>1, <1>2, ControlInvariant, PTL DEF Spec

-----------------------------------------------------------------------------
(* Names. No two symbols are printed alike if each variable has a name of its *)
(* own.                                                                       *)

AllNamed == \A v \in DOMAIN name : name[v] # SlotName /\ ~Shared(v)

LEMMA TempsDiffer ==
    ASSUME NEW s \in Nat, NEW t \in Nat, 1 <= s, s < t, s \notin Allocated
    PROVE  TempNumber(s) # TempNumber(t)
<1> DEFINE S == {r \in 1..(s - 1) : r \notin Allocated}
           T == {r \in 1..(t - 1) : r \notin Allocated}
<1>1. S \subseteq T /\ s \in T /\ s \notin S
  OBVIOUS
<1>2. IsFiniteSet(T)
  <2>1. IsFiniteSet(1..(t - 1))
    BY FS_Interval
  <2>2. T \subseteq 1..(t - 1)
    OBVIOUS
  <2> HIDE DEF T
  <2> QED
    BY <2>1, <2>2, FS_Subset
<1> HIDE DEF S, T
<1>3. Cardinality(S) # Cardinality(T)
  BY <1>1, <1>2, FS_Subset
<1> QED
  BY <1>3 DEF TempNumber, S, T

LEMMA NamedDiffer ==
    ASSUME Control, AllNamed, NEW s, NEW t, s # t,
           s \in Allocated \ {slot}, t \in Allocated \ {slot}
    PROVE  repr(s) # repr(t)
<1> DEFINE u == CHOOSE v \in DOMAIN irvar : irvar[v] = s
           w == CHOOSE v \in DOMAIN irvar : irvar[v] = t
<1>1. u \in DOMAIN irvar /\ irvar[u] = s /\ w \in DOMAIN irvar /\ irvar[w] = t
  BY DEF Allocated
<1>2. repr(s) = name[u] /\ repr(t) = name[w]
  BY DEF repr
<1> HIDE DEF u, w
<1>3. DOMAIN irvar = DOMAIN name /\ u # w
  BY <1>1, NameDomain
<1> QED
  BY <1>1, <1>2, <1>3 DEF AllNamed, Shared

LEMMA ReprIs ==
    ASSUME Control, NEW s
    PROVE  /\ s = slot => repr(s) = SlotName
           /\ s \in Allocated \ {slot} => \E v \in DOMAIN name : repr(s) = name[v]
           /\ s \notin Allocated => repr(s) = Tmp(TempNumber(s))
<1>1. s \in Allocated \ {slot} => \E v \in DOMAIN name : repr(s) = name[v]
  <2> SUFFICES ASSUME s \in Allocated \ {slot}
               PROVE  \E v \in DOMAIN name : repr(s) = name[v]
    OBVIOUS
  <2> DEFINE u == CHOOSE v \in DOMAIN irvar : irvar[v] = s
  <2>1. u \in DOMAIN irvar
    BY DEF Allocated
  <2>2. repr(s) = name[u] /\ DOMAIN irvar = DOMAIN name
    BY NameDomain DEF repr
  <2> HIDE DEF u
  <2> QED
    BY <2>1, <2>2
<1>2. slot \in Allocated
  BY DEF Allocated
<1> QED
  BY <1>1, <1>2 DEF repr

LEMMA TextsDiffer ==
    ASSUME Control, AllNamed,
           NEW s \in 1..nsym, NEW t \in 1..nsym, s # t
    PROVE  SymbolText(s) # SymbolText(t)
<1>1. s \in Nat /\ t \in Nat /\ 1 <= s /\ 1 <= t /\ (s < t \/ t < s)
  BY Sizes
<1>2. CASE s \notin Allocated /\ t \notin Allocated
  <2>1. TempNumber(s) # TempNumber(t)
    BY <1>1, <1>2, TempsDiffer
  <2>2. repr(s) = Tmp(TempNumber(s)) /\ repr(t) = Tmp(TempNumber(t))
    BY <1>2, ReprIs
  <2>3. repr(s) # repr(t)
    BY <2>1, <2>2 DEF Tmp
  <2> QED
    BY <1>2, <2>3 DEF SymbolText
<1>3. CASE (s \in Allocated) # (t \in Allocated)
  BY <1>3 DEF SymbolText
<1>4. CASE s \in Allocated /\ t \in Allocated
  <2>1. repr(s) # repr(t)
    <3>1. CASE s # slot /\ t # slot
      BY <1>4, <3>1, NamedDiffer
    <3>2. CASE s = slot
      <4>1. t \in Allocated \ {slot}
        BY <1>4, <3>2
      <4> QED
        BY <3>2, <4>1, ReprIs DEF AllNamed
    <3>3. CASE t = slot
      <4>1. s \in Allocated \ {slot}
        BY <1>4, <3>3
      <4> QED
        BY <3>3, <4>1, ReprIs DEF AllNamed
    <3> QED
      BY <3>1, <3>2, <3>3
  <2> QED
    BY <1>4, <2>1 DEF SymbolText
<1> QED
  BY <1>2, <1>3, <1>4

-----------------------------------------------------------------------------
(* Reading a dump.                                                            *)

LEMMA MeansRight ==
    ASSUME Control, AllNamed,
           NEW s \in 1..nsym
    PROVE  Means(SymbolText(s)) = s
<1>1. \A t \in 1..nsym : SymbolText(t) = SymbolText(s) => t = s
  BY TextsDiffer
<1> QED
  BY <1>1, Zenon DEF Means

LEMMA ValueRight ==
    ASSUME Control, AllNamed,
           NEW w \in -1..nsym
    PROVE  ValueMeant(ValueText(w)) = w
<1>1. CASE w = 0
  BY <1>1 DEF ValueText, ValueMeant, Literal
<1>2. CASE w = -1
  BY <1>2 DEF ValueText, ValueMeant, Literal, Undef
<1>3. CASE w \in 1..nsym
  <2>1. ValueText(w) = SymbolText(w)
    BY <1>3 DEF ValueText, Literal, Undef
  <2>2. SymbolText(w) # <<"int">> /\ SymbolText(w) # <<"undef">>
    BY DEF SymbolText
  <2>3. ValueMeant(SymbolText(w)) = Means(SymbolText(w))
    BY <2>2 DEF ValueMeant
  <2> QED
    BY <1>3, <2>1, <2>3, MeansRight
<1> QED
  BY <1>1, <1>2, <1>3, Sizes

LEMMA InstrRight ==
    ASSUME Control, AllNamed,
           NEW B \in Nat, NEW ins \in Instrs(nsym, B)
    PROVE  InstrMeant(Line(ins)) = ins
<1> DEFINE line == Line(ins)
           def == IF line.def = <<>> THEN Null ELSE Means(line.def)
           args == [i \in DOMAIN line.args |-> ValueMeant(line.args[i])]
<1>1. /\ ins.def \in 0..nsym /\ ins.args \in Seq(-1..nsym)
      /\ ins = [op |-> ins.op, def |-> ins.def, args |-> ins.args, to |-> ins.to]
  BY DEF Instrs
<1>2. /\ line.op = ins.op /\ line.to = ins.to
      /\ line.def = IF ins.def = Null THEN <<>> ELSE SymbolText(ins.def)
      /\ line.args = [i \in DOMAIN ins.args |-> ValueText(ins.args[i])]
  BY DEF Line
<1>3. InstrMeant(line) = Instr(line.op, def, args, line.to)
  BY DEF InstrMeant
<1> HIDE DEF line
<1>4. def = ins.def
  <2>1. CASE ins.def = Null
    BY <1>2, <2>1
  <2>2. CASE ins.def # Null
    <3>1. ins.def \in 1..nsym
      BY <1>1, <2>2, Sizes DEF Null
    <3>2. SymbolText(ins.def) # <<>>
      BY DEF SymbolText
    <3> QED
      BY <1>2, <2>2, <3>1, <3>2, MeansRight
  <2> QED
    BY <2>1, <2>2
<1>5. args = ins.args
  <2>1. \A i \in DOMAIN ins.args : ins.args[i] \in -1..nsym
    <3> DEFINE V == -1..nsym
               a == ins.args
    <3>1. a \in Seq(V)
      BY <1>1
    <3> HIDE DEF V, a
    <3>2. \A i \in DOMAIN a : a[i] \in V
      BY <3>1
    <3> QED
      BY <3>2 DEF V, a
  <2>2. \A i \in DOMAIN ins.args : ValueMeant(ValueText(ins.args[i])) = ins.args[i]
    BY <2>1, ValueRight
  <2>3. args = [i \in DOMAIN ins.args |-> ValueMeant(ValueText(ins.args[i]))]
    BY <1>2
  <2>4. \A a \in Seq(-1..nsym) : a = [i \in DOMAIN a |-> a[i]]
    OBVIOUS
  <2> HIDE DEF args
  <2> QED
    BY <1>1, <2>2, <2>3, <2>4
<1> HIDE DEF def, args
<1> QED
  BY <1>1, <1>2, <1>3, <1>4, <1>5 DEF Instr, line

\* The text of a function, as the dump of its blocks writes it, determines the
\* code of each block, in every program where no variable has the name of another
\* or of the return slot: the linked list is walked through every instruction once and in
\* order, though the slot is made last and put first, and a name that is
\* printed stands for one symbol.
THEOREM DumpIsReadBack == Spec => []DumpReadsBack
<1>1. Control /\ ListInv => DumpReadsBack
  <2> SUFFICES ASSUME Control, ListInv,
                      AllNamed, NEW b \in DOMAIN blocks
               PROVE  LET lines == Lines(b)
                      IN [i \in DOMAIN lines |-> InstrMeant(lines[i])]
                           = blocks[b].instrs
    BY DEF DumpReadsBack, AllNamed
  <2> DEFINE q == blocks[b].instrs
             lines == Lines(b)
             B == Len(blocks)
  <2>1. B \in Nat /\ q \in Seq(Instrs(nsym, B))
    BY Sizes DEF Code
  <2>2. Walk(blocks[b].list) = q
    BY WalkMeets DEF ListInv, ListsOK
  <2>3. lines = [i \in DOMAIN q |-> Line(q[i])]
    BY <2>2 DEF Lines
  <2>4. q = [i \in DOMAIN q |-> q[i]] /\ \A i \in DOMAIN q : q[i] \in Instrs(nsym, B)
    BY <2>1
  <2> HIDE DEF q, lines, B
  <2>5. \A i \in DOMAIN q : InstrMeant(Line(q[i])) = q[i]
    BY <2>1, <2>4, InstrRight
  <2>6. [i \in DOMAIN lines |-> InstrMeant(lines[i])]
          = [i \in DOMAIN q |-> InstrMeant(Line(q[i]))]
    BY <2>3
  <2>7. [i \in DOMAIN lines |-> InstrMeant(lines[i])] = q
    BY <2>4, <2>5, <2>6
  <2> QED
    BY <2>7 DEF q, lines
<1> QED
  BY <1>1, ListInvariant, PTL
=============================================================================
