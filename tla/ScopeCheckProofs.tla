-------------------------- MODULE ScopeCheckProofs --------------------------
(* Proofs about the scope check, for every set of names and every bound: the  *)
(* renaming is safe, what a name is bound to, which programs are rejected, and*)
(* what the renaming leaves behind.                                           *)
EXTENDS ScopeCheck, TLAPS, WellFoundedInduction, SequenceTheorems

-----------------------------------------------------------------------------
(* Lemmas about the operators the model is built from.                        *)

\* A non-empty set of numbers up to n has a greatest element.
LEMMA MaxOfBounded ==
  ASSUME NEW n \in Nat, NEW S, S \subseteq 0..n, S # {}
  PROVE  Max(S) \in S /\ \A y \in S : y <= Max(S)
<1> DEFINE T == {n - s : s \in S}
<1>1. T \subseteq Nat /\ T # {}
  OBVIOUS
<1>2. PICK m \in T : \A y \in T : ~ (<<y, m>> \in OpToRel(<, Nat))
  <2> HIDE DEF T
  <2> QED  BY <1>1, WFMin, NatLessThanWellFounded
<1>3. \A y \in T : m <= y
  <2> SUFFICES ASSUME NEW y \in T, ~ (m <= y) PROVE FALSE
    OBVIOUS
  <2>1. m \in Nat /\ y \in Nat
    BY <1>1
  <2>2. ~ (<<y, m>> \in {ss \in Nat \X Nat : ss[1] < ss[2]})
    BY <1>2 DEF OpToRel
  <2>3. y < m
    BY <2>1
  <2> QED  BY <2>1, <2>2, <2>3
<1>4. PICK s \in S : m = n - s
  OBVIOUS
<1>5. \A y \in S : y <= s
  BY <1>3, <1>4
<1>6. \E x \in S : \A y \in S : x >= y
  BY <1>5
<1> QED  BY <1>6 DEF Max

\* Push and pop of a stack kept in a sequence.
LEMMA Push ==
  ASSUME NEW S, NEW s \in Seq(S), NEW e \in S
  PROVE  /\ Append(s, e) \in Seq(S) /\ Len(Append(s, e)) = Len(s) + 1
         /\ Append(s, e)[Len(s) + 1] = e
         /\ \A i \in 1..Len(s) : Append(s, e)[i] = s[i]
  BY AppendProperties

LEMMA Pop ==
  ASSUME NEW S, NEW s \in Seq(S), Len(s) > 0
  PROVE  LET r == SubSeq(s, 1, Len(s) - 1)
         IN /\ r \in Seq(S) /\ Len(r) = Len(s) - 1
            /\ \A i \in 1..Len(r) : r[i] = s[i]
<1> DEFINE n == Len(s) - 1
<1>1. n \in Nat /\ \A i \in 1..n : s[i] \in S
  OBVIOUS
<1>2. SubSeq(s, 1, n) = [i \in 1..n |-> s[i]]
  BY <1>1
<1> HIDE DEF n
<1>3. [i \in 1..n |-> s[i]] \in Seq(S) /\ Len([i \in 1..n |-> s[i]]) = n
  BY <1>1
<1> QED  BY <1>1, <1>2, <1>3 DEF n

Table == UNION {[D -> Entry] : D \in SUBSET Ident}

\* add_sym adds or replaces one entry and keeps the others.
LEMMA AddSym ==
  ASSUME NEW t \in Table, NEW x \in Ident, NEW e \in Entry
  PROVE  /\ add_sym(t, x, e) \in Table
         /\ DOMAIN add_sym(t, x, e) = DOMAIN t \cup {x}
         /\ add_sym(t, x, e)[x] = e
         /\ \A y \in DOMAIN t : y # x => add_sym(t, x, e)[y] = t[y]
<1>1. PICK D \in SUBSET Ident : t \in [D -> Entry]
  BY DEF Table
<1>2. add_sym(t, x, e) \in [D \cup {x} -> Entry]
  BY <1>1 DEF add_sym
<1> QED  BY <1>1, <1>2 DEF Table, add_sym

\* remove_sym drops one entry and keeps the others.
LEMMA RemoveSym ==
  ASSUME NEW t \in Table, NEW x
  PROVE  /\ remove_sym(t, x) \in Table
         /\ DOMAIN remove_sym(t, x) = DOMAIN t \ {x}
         /\ \A y \in DOMAIN t : y # x => remove_sym(t, x)[y] = t[y]
<1>1. PICK D \in SUBSET Ident : t \in [D -> Entry]
  BY DEF Table
<1>2. remove_sym(t, x) \in [D \ {x} -> Entry]
  BY <1>1 DEF remove_sym
<1> QED  BY <1>1, <1>2 DEF Table, remove_sym

\* The entry of a table under a name it holds.
LEMMA TableEntry ==
  ASSUME NEW t \in Table, NEW x \in DOMAIN t
  PROVE  x \in Ident /\ t[x] \in Entry
  BY DEF Table

\* A renamed identifier is an identifier.
LEMMA RenamedIdent ==
  ASSUME NEW x \in Ident, NEW n \in Nat
  PROVE  Renamed(x, n) \in Ident /\ Renamed(x, n) # x
<1>1. PICK b \in Base, s \in Seq(Nat) : x = [base |-> b, sfx |-> s]
  BY DEF Ident
<1>2. Append(s, n) \in Seq(Nat) /\ Append(s, n) # s
  BY AppendProperties
<1> QED  BY <1>1, <1>2 DEF Renamed, Ident

-----------------------------------------------------------------------------
(* Type correctness. Besides the types, the invariant says what numbers refer *)
(* to, and that a scope is open for every block whose visit is in progress.   *)

DeclType == [name : Names, block : Nat, const : BOOLEAN]

Typed ==
  /\ pass \in {"scope", "rename", "replay", "throw"}
  /\ scopes \in Seq(Nat)
  /\ underWhile \in BOOLEAN
  /\ record \in [Names -> Seq(Nat)]
  /\ pending \subseteq Names
  /\ tab \in Seq(Table)
  /\ decls \in Seq(DeclType)
  /\ ident \in Seq(Ident) /\ Len(ident) = Len(decls)
  /\ frames \in Seq(Frame)
  /\ ast \in Seq(NodeType)

InTables ==
  /\ \A i \in 1..Len(scopes) : scopes[i] \in 1..Len(tab)
  /\ \A x \in Names : \A i \in 1..Len(record[x]) : record[x][i] \in 1..Len(tab)
  /\ \A d \in 1..Len(decls) : decls[d].block \in 1..Len(tab)

\* The visits in progress start with the function's block, and the depth of
\* each counts the block visits up to it; the innermost has depth n.
Nested(fs, n) ==
  /\ Len(fs) > 0 /\ fs[Len(fs)].depth = n
  /\ fs[1].kind = "block" /\ fs[1].depth = 1
  /\ \A i \in 1..Len(fs) : fs[i].depth > 0
  /\ \A i \in 2..Len(fs) :
       fs[i].depth = IF fs[i].kind = "block"
                     THEN fs[i - 1].depth + 1 ELSE fs[i - 1].depth

Depths == pass = "scope" => Nested(frames, Len(scopes))

Shape == Typed /\ InTables /\ Depths

\* Names that are looked up successfully are in the table of an open scope.
LEMMA InnermostHolder ==
  ASSUME NEW t, NEW x, scopes \in Seq(Nat), has_sym(t, x)
  PROVE  /\ Max(Holders(t, x)) \in Holders(t, x)
         /\ \A i \in Holders(t, x) : i <= Max(Holders(t, x))
<1>1. Holders(t, x) \subseteq 0..Len(scopes) /\ Len(scopes) \in Nat
  BY DEF Holders
<1> QED  BY <1>1, MaxOfBounded DEF has_sym

\* The declaration that is lexically visible, or none.
LEMMA LexicalMax ==
  ASSUME NEW ds \in Seq(DeclType), NEW x
  PROVE  /\ Lexical(ds, x) \in Visible(ds, x) \cup {NoDecl}
         /\ Lexical(ds, x) \in 0..Len(ds)
         /\ \A d \in Visible(ds, x) : d <= Lexical(ds, x)
<1>1. Visible(ds, x) \subseteq 1..Len(ds) /\ Len(ds) \in Nat
  BY DEF Visible
<1>2. Visible(ds, x) \cup {NoDecl} \subseteq 0..Len(ds)
  BY <1>1 DEF NoDecl
<1> QED  BY <1>1, <1>2, MaxOfBounded DEF Lexical

\* What visit(ExpAST) may do: throw, or record the uses.
VisitExpThrows(t, xs) ==
  /\ Undefined(t, xs) # {} /\ pass' = "throw"
  /\ err' = [kind |-> "undefined", sym |-> xs[Min(Undefined(t, xs))]]
  /\ UNCHANGED ast
VisitExpRecords(t, ds, node, xs) ==
  /\ \A i \in DOMAIN xs : has_sym(t, xs[i])
  /\ UNCHANGED <<pass, err>>
  /\ ast' = Append(ast, [node EXCEPT !.uses =
                           [i \in DOMAIN xs |-> Use(t, ds, xs[i])]])

LEMMA VisitExpCases ==
  ASSUME NEW t, NEW ds, NEW node, NEW xs, VisitExp(t, ds, node, xs)
  PROVE  VisitExpThrows(t, xs) \/ VisitExpRecords(t, ds, node, xs)
  BY DEF VisitExp, VisitExpThrows, VisitExpRecords, Undefined, Throw

LEMMA ExpsAreSeqs ==
  ASSUME NEW xs \in Exps
  PROVE  xs \in Seq(Names) /\ DOMAIN xs = 1..Len(xs)
<1>1. PICK n \in 0..MaxUses : xs \in [1..n -> Names]
  BY DEF Exps
<1>2. n \in Nat
  BY BoundAssumption
<1> QED  BY <1>1, <1>2

LEMMA UseTyped ==
  ASSUME NEW t \in Seq(Table), NEW ds \in Seq(DeclType), NEW x \in Names,
         scopes \in Seq(Nat), \A i \in 1..Len(scopes) : scopes[i] \in 1..Len(t),
         has_sym(t, x)
  PROVE  Use(t, ds, x) \in UseType
<1>1. Max(Holders(t, x)) \in Holders(t, x)
  BY InnermostHolder
<1>2. Innermost(t, x) \in Entry
  <2> DEFINE m == Max(Holders(t, x))
  <2>1. m \in 1..Len(scopes) /\ x \in DOMAIN t[scopes[m]]
    BY <1>1 DEF Holders
  <2>2. t[scopes[m]] \in Table
    BY <2>1
  <2>3. t[scopes[m]][x] \in Entry
    BY <2>1, <2>2, TableEntry
  <2> QED  BY <2>3 DEF Innermost
<1>3. get_sym_var(t, x) \in Nat
  BY <1>2 DEF get_sym_var, Entry
<1>4. Lexical(ds, x) \in Nat
  BY LexicalMax
<1> QED  BY <1>3, <1>4 DEF Use, UseType, NoDecl

LEMMA NodeTyped ==
  ASSUME NEW k \in {"open", "close", "const", "var", "assign", "ret", "exp",
                    "cond", "jump"}, NEW n \in Nat
  PROVE  Node(k, n) \in NodeType
<1>1. <<>> \in Seq(UseType)
  OBVIOUS
<1> QED  BY <1>1 DEF Node, NodeType, NoDecl

\* The node that visit(ExpAST) records is well typed.
LEMMA VisitExpTyped ==
  ASSUME NEW t \in Seq(Table), NEW ds \in Seq(DeclType), NEW xs \in Exps,
         NEW node \in NodeType, VisitExp(t, ds, node, xs), ast \in Seq(NodeType),
         scopes \in Seq(Nat), \A i \in 1..Len(scopes) : scopes[i] \in 1..Len(t)
  PROVE  ast' \in Seq(NodeType) /\ pass' \in {pass, "throw"}
<1>1. CASE VisitExpThrows(t, xs)
  BY <1>1 DEF VisitExpThrows
<1>2. CASE VisitExpRecords(t, ds, node, xs)
  <2> DEFINE us == [i \in DOMAIN xs |-> Use(t, ds, xs[i])]
  <2>1. \A i \in DOMAIN xs : Use(t, ds, xs[i]) \in UseType
    BY <1>2, UseTyped, ExpsAreSeqs DEF VisitExpRecords
  <2>2. us \in [1..Len(xs) -> UseType] /\ Len(xs) \in Nat
    BY <2>1, ExpsAreSeqs
  <2>3. us \in Seq(UseType)
    BY <2>2
  <2>4. [node EXCEPT !.uses = us] \in NodeType
    BY <2>3 DEF NodeType
  <2> QED  BY <2>4, <1>2, AppendProperties DEF VisitExpRecords
<1> QED  BY <1>1, <1>2, VisitExpCases

\* Entering a statement changes nothing of a frame but what it may still visit.
LEMMA EnteredFrames ==
  ASSUME Shape, pass = "scope"
  PROVE  /\ Entered \in Seq(Frame) /\ Len(Entered) = Len(frames)
         /\ \A i \in 1..Len(frames) :
              /\ Entered[i].kind = frames[i].kind
              /\ Entered[i].depth = frames[i].depth
              /\ Entered[i].saved = frames[i].saved
<1> DEFINE n == Len(frames)
           f == [frames[n] EXCEPT !.left = IF @ = 0 THEN 0 ELSE @ - 1]
<1>1. frames \in Seq(Frame) /\ n \in 1..Len(frames)
  BY DEF Shape, Typed, Depths, Nested
<1>2. f \in Frame /\ f.kind = frames[n].kind /\ f.depth = frames[n].depth
      /\ f.saved = frames[n].saved
  <2>1. PICK g \in Frame : g = frames[n]
    BY <1>1
  <2> DEFINE l == IF g.left = 0 THEN 0 ELSE g.left - 1
  <2>2. l \in 0..2
    BY DEF Frame
  <2>3. f = [g EXCEPT !.left = l]
    BY <2>1
  <2> HIDE DEF l, f
  <2> QED  BY <2>1, <2>2, <2>3 DEF Frame
<1>3. Entered = [frames EXCEPT ![n] = f]
  BY <1>1 DEF Entered, Frame
<1> HIDE DEF f
<1> QED  BY <1>1, <1>2, <1>3

LEMMA Depths_push ==
  ASSUME Shape, pass = "scope", NEW f \in Frame,
         f.depth = IF f.kind = "block" THEN Len(scopes) + 1 ELSE Len(scopes)
  PROVE  /\ Append(Entered, f) \in Seq(Frame)
         /\ Nested(Append(Entered, f), f.depth)
<1> DEFINE fs == Append(Entered, f)
<1>1. /\ Entered \in Seq(Frame) /\ Len(Entered) = Len(frames)
      /\ Len(frames) \in Nat /\ Len(frames) > 0
  BY EnteredFrames DEF Shape, Depths, Nested, Typed
<1>2. fs \in Seq(Frame) /\ Len(fs) = Len(frames) + 1 /\ fs[Len(fs)] = f
      /\ \A i \in 1..Len(frames) : fs[i] = Entered[i]
  BY <1>1, AppendProperties
<1>3. \A i \in 1..Len(frames) : fs[i].kind = frames[i].kind
                               /\ fs[i].depth = frames[i].depth
  BY <1>2, EnteredFrames
<1>4. frames[Len(frames)].depth = Len(scopes) /\ Len(scopes) \in Nat
      /\ Len(scopes) > 0
  BY <1>1 DEF Shape, Depths, Nested, Typed
<1> HIDE DEF fs
<1>5. \A i \in 1..Len(fs) : fs[i].depth > 0
  <2> TAKE i \in 1..Len(fs)
  <2>1. CASE i = Len(fs)
    BY <2>1, <1>2, <1>4
  <2>2. CASE i # Len(fs)
    <3>1. i \in 1..Len(frames)
      BY <2>2, <1>1, <1>2
    <3> QED  BY <3>1, <1>3 DEF Shape, Depths, Nested
  <2> QED  BY <2>1, <2>2
<1>6. \A i \in 2..Len(fs) :
        fs[i].depth = IF fs[i].kind = "block"
                      THEN fs[i - 1].depth + 1 ELSE fs[i - 1].depth
  <2> TAKE i \in 2..Len(fs)
  <2>1. CASE i = Len(fs)
    BY <2>1, <1>1, <1>2, <1>3, <1>4
  <2>2. CASE i # Len(fs)
    <3>1. i \in 2..Len(frames) /\ i - 1 \in 1..Len(frames)
          /\ i \in 1..Len(frames)
      BY <2>2, <1>1, <1>2
    <3> QED  BY <3>1, <1>3 DEF Shape, Depths, Nested
  <2> QED  BY <2>1, <2>2
<1>7. fs[1].kind = "block" /\ fs[1].depth = 1
  BY <1>1, <1>3 DEF Shape, Depths, Nested
<1> QED  BY <1>1, <1>2, <1>5, <1>6, <1>7 DEF fs, Nested

LEMMA Shape_Init ==
  ASSUME Init PROVE Shape
<1>1. tab = << <<>> >> /\ <<>> \in Table
  BY DEF Init, Table
<1>2. Typed
  <2>1. tab \in Seq(Table)
    BY <1>1
  <2>2. frames \in Seq(Frame)
    <3>1. BlockFrame(1) \in Frame
      BY DEF BlockFrame, Frame
    <3> QED  BY <3>1 DEF Init
  <2>3. ast \in Seq(NodeType)
    <3>1. Node("open", 1) \in NodeType
      BY NodeTyped
    <3> QED  BY <3>1 DEF Init
  <2>4. record \in [Names -> Seq(Nat)]
    BY DEF Init
  <2>5. scopes = <<1>> /\ decls = <<>> /\ ident = <<>>
    BY DEF Init
  <2>6. scopes \in Seq(Nat) /\ decls \in Seq(DeclType) /\ ident \in Seq(Ident)
        /\ Len(ident) = Len(decls)
    BY <2>5
  <2>7. /\ pass \in {"scope", "rename", "replay", "throw"}
        /\ underWhile \in BOOLEAN /\ pending \subseteq Names
    BY DEF Init
  <2> QED  BY <2>1, <2>2, <2>3, <2>4, <2>6, <2>7 DEF Typed
<1>3. InTables
  BY <1>1 DEF Init, InTables
<1>4. Depths
  BY DEF Init, Depths, Nested, BlockFrame
<1> QED  BY <1>2, <1>3, <1>4 DEF Shape

\* Steps that leave the tables and the scopes alone.
LEMMA Shape_Stmt ==
  ASSUME Shape, pass = "scope", pass' \in {"scope", "throw"},
         UNCHANGED <<scopes, record, pending, tab, decls, ident>>,
         underWhile' \in BOOLEAN, ast' \in Seq(NodeType),
         \/ frames' = frames
         \/ frames' = Entered
         \/ \E kind \in {"if", "while"}, left \in 0..2 :
              frames' = Append(Entered, StmtFrame(kind, left))
  PROVE  Shape'
<1>1. frames' \in Seq(Frame) /\ Depths'
  <2>1. CASE frames' = frames
    BY <2>1 DEF Shape, Typed, Depths, Nested
  <2>2. CASE frames' = Entered
    <3>1. /\ frames' \in Seq(Frame) /\ Len(frames') = Len(frames)
          /\ \A i \in 1..Len(frames) : /\ frames'[i].kind = frames[i].kind
                                       /\ frames'[i].depth = frames[i].depth
      BY <2>2, EnteredFrames
    <3>2. /\ Len(frames) \in Nat /\ Len(frames) > 0
          /\ Len(scopes) = frames[Len(frames)].depth
          /\ frames[1].kind = "block" /\ frames[1].depth = 1
          /\ \A i \in 1..Len(frames) : frames[i].depth > 0
      BY DEF Shape, Typed, Depths, Nested
    <3>3. \A i \in 2..Len(frames') :
            frames'[i].depth = IF frames'[i].kind = "block"
                               THEN frames'[i - 1].depth + 1
                               ELSE frames'[i - 1].depth
      <4> TAKE i \in 2..Len(frames')
      <4>1. i \in 2..Len(frames) /\ i - 1 \in 1..Len(frames)
            /\ i \in 1..Len(frames)
        BY <3>1, <3>2
      <4> QED  BY <4>1, <3>1 DEF Shape, Depths, Nested
    <3> QED  BY <3>1, <3>2, <3>3 DEF Depths, Nested
  <2>3. ASSUME NEW kind \in {"if", "while"}, NEW left \in 0..2,
               frames' = Append(Entered, StmtFrame(kind, left))
        PROVE  frames' \in Seq(Frame) /\ Depths'
    <3> DEFINE f == StmtFrame(kind, left)
    <3>1. /\ f \in Frame /\ f.kind # "block" /\ f.depth = Len(scopes)
          /\ Len(scopes) \in Nat
      BY DEF StmtFrame, Frame, Shape, Typed
    <3>2. f.depth = IF f.kind = "block" THEN Len(scopes) + 1 ELSE Len(scopes)
      BY <3>1
    <3> HIDE DEF f
    <3>3. /\ Append(Entered, f) \in Seq(Frame)
          /\ Nested(Append(Entered, f), f.depth)
      BY <3>1, <3>2, Depths_push
    <3>4. frames' = Append(Entered, f)
      BY <2>3 DEF f
    <3>5. Len(frames) \in Nat /\ scopes' = scopes
      BY DEF Shape, Typed
    <3> QED  BY <3>1, <3>3, <3>4, <3>5 DEF Depths, Nested
  <2> QED  BY <2>1, <2>2, <2>3
<1>2. Typed'
  BY <1>1 DEF Shape, Typed
<1>3. InTables'
  BY DEF Shape, InTables
<1> QED  BY <1>1, <1>2, <1>3 DEF Shape

LEMMA Shape_Assign ==
  ASSUME Shape, NEW x \in Names, NEW xs \in Exps, Assign(x, xs)
  PROVE  Shape'
<1>1. pass = "scope" /\ frames' = Entered
      /\ UNCHANGED <<scopes, underWhile, record, pending, tab, decls, ident>>
  BY DEF Assign, AtStmt
<1>2. ast' \in Seq(NodeType) /\ pass' \in {"scope", "throw"}
  <2>1. CASE pass' = "throw" /\ UNCHANGED ast
    BY <2>1 DEF Shape, Typed
  <2>2. CASE /\ has_sym(tab, x) /\ ~sym_is_const(tab, x)
             /\ VisitExp(tab, decls, [Node("assign", get_sym_var(tab, x))
                                        EXCEPT !.lex = Lexical(decls, x)], xs)
    <3> DEFINE node == [Node("assign", get_sym_var(tab, x))
                          EXCEPT !.lex = Lexical(decls, x)]
    <3>1. /\ tab \in Seq(Table) /\ decls \in Seq(DeclType) /\ ast \in Seq(NodeType)
          /\ scopes \in Seq(Nat)
          /\ \A i \in 1..Len(scopes) : scopes[i] \in 1..Len(tab)
      BY DEF Shape, Typed, InTables
    <3>2. Use(tab, decls, x) \in UseType
      BY <2>2, <3>1, UseTyped
    <3>3. get_sym_var(tab, x) \in Nat /\ Lexical(decls, x) \in Nat
      BY <2>2, <3>2 DEF Use, UseType
    <3>4. node \in NodeType
      <4>1. Node("assign", get_sym_var(tab, x)) \in NodeType
        BY <3>3, NodeTyped
      <4> QED  BY <4>1, <3>3 DEF NodeType
    <3> HIDE DEF node
    <3>5. VisitExp(tab, decls, node, xs)
      BY <2>2 DEF node
    <3> QED  BY <3>1, <3>4, <3>5, <1>1, VisitExpTyped
  <2> QED  BY <2>1, <2>2 DEF Assign, Throw
<1> QED  BY <1>1, <1>2, Shape_Stmt DEF Shape, Typed

\* Steps that visit an expression of a statement without a declaration.
LEMMA VisitExpHere ==
  ASSUME Shape, NEW k \in {"ret", "exp", "cond"}, NEW xs \in Exps,
         VisitExp(tab, decls, Node(k, NoDecl), xs)
  PROVE  ast' \in Seq(NodeType) /\ pass' \in {pass, "throw"}
<1>1. /\ tab \in Seq(Table) /\ decls \in Seq(DeclType) /\ ast \in Seq(NodeType)
      /\ scopes \in Seq(Nat)
      /\ \A i \in 1..Len(scopes) : scopes[i] \in 1..Len(tab)
  BY DEF Shape, Typed, InTables
<1>2. Node(k, NoDecl) \in NodeType
  BY NodeTyped DEF NoDecl
<1> QED  BY <1>1, <1>2, VisitExpTyped

LEMMA Shape_ReturnOrExp ==
  ASSUME Shape, NEW kind \in {"ret", "exp"}, NEW xs \in Exps,
         ReturnOrExp(kind, xs)
  PROVE  Shape'
  BY VisitExpHere, Shape_Stmt DEF ReturnOrExp, AtStmt, Shape, Typed

LEMMA Shape_If ==
  ASSUME Shape, NEW xs \in Exps, If(xs)
  PROVE  Shape'
  BY VisitExpHere, Shape_Stmt DEF If, AtStmt, Shape, Typed

LEMMA Shape_While ==
  ASSUME Shape, NEW xs \in Exps, While(xs)
  PROVE  Shape'
  BY VisitExpHere, Shape_Stmt DEF While, AtStmt, Shape, Typed

LEMMA Shape_BreakOrContinue ==
  ASSUME Shape, BreakOrContinue
  PROVE  Shape'
<1>1. Node("jump", NoDecl) \in NodeType
  BY NodeTyped DEF NoDecl
<1>2. ast' \in Seq(NodeType) /\ pass' \in {"scope", "throw"}
  <2>1. CASE Throw("loop control", "none") /\ UNCHANGED ast
    BY <2>1 DEF Throw, Shape, Typed
  <2>2. CASE ast' = Append(ast, Node("jump", NoDecl)) /\ UNCHANGED <<pass, err>>
    BY <1>1, <2>2, AppendProperties DEF BreakOrContinue, AtStmt, Shape, Typed
  <2> QED  BY <2>1, <2>2 DEF BreakOrContinue
<1> QED  BY <1>2, Shape_Stmt DEF BreakOrContinue, AtStmt, Shape, Typed

LEMMA Shape_Redefine ==
  ASSUME Shape, NEW x \in Names, Redefine(x)
  PROVE  Shape'
  BY Shape_Stmt DEF Redefine, AtItem, Throw, Shape, Typed

\* Leaving the innermost visit uncovers the one below it.
LEMMA Depths_pop ==
  ASSUME Shape, pass = "scope", Len(frames) > 1
  PROVE  LET fs == SubSeq(frames, 1, Len(frames) - 1)
         IN /\ fs \in Seq(Frame)
            /\ Nested(fs, IF Top.kind = "block" THEN Len(scopes) - 1
                          ELSE Len(scopes))
<1> DEFINE n == Len(frames)
           fs == SubSeq(frames, 1, n - 1)
<1>1. frames \in Seq(Frame) /\ n \in Nat /\ n > 1
  BY DEF Shape, Typed
<1>2. /\ fs \in Seq(Frame) /\ Len(fs) = n - 1
      /\ \A i \in 1..Len(fs) : fs[i] = frames[i]
  BY <1>1, Pop
<1>3. \A i \in 1..Len(fs) : fs[i].depth > 0
  BY <1>1, <1>2 DEF Shape, Depths, Nested
<1>4. \A i \in 2..Len(fs) :
        fs[i].depth = IF fs[i].kind = "block"
                      THEN fs[i - 1].depth + 1 ELSE fs[i - 1].depth
  <2> TAKE i \in 2..Len(fs)
  <2>1. /\ i \in 1..Len(fs) /\ i - 1 \in 1..Len(fs) /\ i \in 2..Len(frames)
    BY <1>1, <1>2
  <2>2. fs[i] = frames[i] /\ fs[i - 1] = frames[i - 1]
    BY <1>2, <2>1
  <2> QED  BY <2>1, <2>2 DEF Shape, Depths, Nested
<1>5. fs[1].kind = "block" /\ fs[1].depth = 1
  BY <1>1, <1>2 DEF Shape, Depths, Nested
<1>6. fs[Len(fs)].depth = IF Top.kind = "block" THEN Len(scopes) - 1
                          ELSE Len(scopes)
  <2>1. /\ fs[n - 1] = frames[n - 1]
        /\ frames[n].depth = IF frames[n].kind = "block"
                             THEN frames[n - 1].depth + 1
                             ELSE frames[n - 1].depth
        /\ Len(scopes) = frames[n].depth
    BY <1>1, <1>2 DEF Shape, Depths, Nested
  <2>2. frames[n - 1] \in Frame
    BY <1>1
  <2>3. frames[n - 1].depth \in Nat
    BY <2>2 DEF Frame
  <2> QED  BY <1>2, <2>1, <2>3 DEF Top
<1> HIDE DEF fs
<1>7. Len(fs) > 0
  BY <1>1, <1>2
<1> QED  BY <1>2, <1>3, <1>4, <1>5, <1>6, <1>7 DEF Nested, fs

LEMMA Shape_EndStmt ==
  ASSUME Shape, EndStmt
  PROVE  Shape'
<1>1. /\ pass = "scope" /\ pass' = pass
      /\ frames' = SubSeq(frames, 1, Len(frames) - 1)
      /\ UNCHANGED <<scopes, record, pending, tab, decls, ident, ast>>
      /\ Top.kind \in {"if", "while"}
  BY DEF EndStmt
<1>2. Len(frames) > 1
  BY <1>1 DEF Shape, Typed, Depths, Nested, Top
<1>3. frames' \in Seq(Frame) /\ Depths'
  <2> USE Depths_pop
  <2>1. Len(frames) \in Nat
    BY DEF Shape, Typed
  <2> QED  BY <1>1, <1>2, <2>1 DEF Depths, Nested
<1>4. underWhile' \in BOOLEAN
  <2>1. Top \in Frame
    BY <1>2 DEF Top, Shape, Typed
  <2> QED  BY <2>1, <1>1 DEF EndStmt, Restored, Frame, Shape, Typed
<1>5. Typed' /\ InTables'
  BY <1>1, <1>3, <1>4 DEF Shape, Typed, InTables
<1> QED  BY <1>3, <1>5 DEF Shape

LEMMA Shape_OpenBlock ==
  ASSUME Shape, OpenBlock
  PROVE  Shape'
<1> DEFINE b == Len(tab) + 1
           f == BlockFrame(Len(scopes) + 1)
<1>1. /\ pass = "scope" /\ pass' = pass
      /\ tab' = Append(tab, <<>>) /\ scopes' = Append(scopes, b)
      /\ frames' = Append(Entered, f)
      /\ ast' = Append(ast, Node("open", b))
      /\ UNCHANGED <<underWhile, record, pending, decls, ident>>
  BY DEF OpenBlock, AtStmt, push_scope
<1>2. /\ tab \in Seq(Table) /\ scopes \in Seq(Nat) /\ ast \in Seq(NodeType)
      /\ Len(tab) \in Nat /\ Len(scopes) \in Nat /\ Len(frames) \in Nat
  BY DEF Shape, Typed
<1>3. <<>> \in Table
  BY DEF Table
<1>10. Node("open", b) \in NodeType
  BY <1>2, NodeTyped
<1>4. /\ tab' \in Seq(Table) /\ Len(tab') = Len(tab) + 1
      /\ scopes' \in Seq(Nat) /\ Len(scopes') = Len(scopes) + 1
      /\ scopes'[Len(scopes) + 1] = b
      /\ \A i \in 1..Len(scopes) : scopes'[i] = scopes[i]
  BY <1>1, <1>2, <1>3, AppendProperties
<1>5. ast' \in Seq(NodeType)
  BY <1>1, <1>2, <1>10, AppendProperties
<1>6. f \in Frame /\ f.kind = "block" /\ f.depth = Len(scopes) + 1
  BY <1>2 DEF BlockFrame, Frame
<1> HIDE DEF f, b
<1>7. frames' \in Seq(Frame) /\ Depths'
  BY <1>1, <1>2, <1>4, <1>6, Depths_push DEF Depths, Nested
<1>8. InTables'
  <2>1. \A i \in 1..Len(scopes') : scopes'[i] \in 1..Len(tab')
    <3> TAKE i \in 1..Len(scopes')
    <3>1. CASE i = Len(scopes) + 1
      BY <3>1, <1>2, <1>4 DEF b
    <3>2. CASE i \in 1..Len(scopes)
      <4>1. scopes'[i] = scopes[i] /\ scopes[i] \in 1..Len(tab)
        BY <3>2, <1>4 DEF Shape, InTables
      <4> QED  BY <4>1, <1>2, <1>4
    <3> QED  BY <3>1, <3>2, <1>2, <1>4
  <2>2. 1..Len(tab) \subseteq 1..Len(tab')
    BY <1>2, <1>4
  <2> QED  BY <1>1, <2>1, <2>2 DEF Shape, InTables
<1>9. Typed'
  BY <1>1, <1>4, <1>5, <1>7 DEF Shape, Typed
<1> QED  BY <1>7, <1>8, <1>9 DEF Shape

LEMMA Shape_CloseBlock ==
  ASSUME Shape, CloseBlock
  PROVE  Shape'
<1>1. /\ pass = "scope" /\ Top.kind = "block"
      /\ ast' = Append(ast, Node("close", Cur))
      /\ scopes' = SubSeq(scopes, 1, Len(scopes) - 1)
      /\ frames' = SubSeq(frames, 1, Len(frames) - 1)
      /\ UNCHANGED <<underWhile, record, tab, decls, ident>>
  BY DEF CloseBlock, AtItem, pop_scope
<1>2. /\ scopes \in Seq(Nat) /\ frames \in Seq(Frame) /\ ast \in Seq(NodeType)
      /\ Len(scopes) \in Nat /\ Len(frames) \in Nat /\ Len(frames) > 0
      /\ Len(scopes) > 0
  <2>1. scopes \in Seq(Nat) /\ frames \in Seq(Frame) /\ ast \in Seq(NodeType)
    BY DEF Shape, Typed
  <2>2. Nested(frames, Len(scopes))
    BY <1>1 DEF Shape, Depths
  <2>3. Len(frames) \in Nat /\ Len(scopes) \in Nat
    BY <2>1
  <2>4. Len(frames) > 0 /\ Len(scopes) > 0
    BY <2>2, <2>3 DEF Nested
  <2> QED  BY <2>1, <2>3, <2>4
<1>3. Cur \in Nat
  BY <1>2 DEF Cur
<1>4. ast' \in Seq(NodeType)
  BY <1>1, <1>2, <1>3, NodeTyped, AppendProperties
<1>5. /\ scopes' \in Seq(Nat) /\ Len(scopes') = Len(scopes) - 1
      /\ \A i \in 1..Len(scopes') : scopes'[i] = scopes[i]
  BY <1>1, <1>2, Pop
<1>6. InTables'
  <2>1. \A i \in 1..Len(scopes') : scopes'[i] \in 1..Len(tab)
    <3> TAKE i \in 1..Len(scopes')
    <3>1. i \in 1..Len(scopes) /\ scopes'[i] = scopes[i]
      BY <1>2, <1>5
    <3> QED  BY <3>1 DEF Shape, InTables
  <2> QED  BY <1>1, <2>1 DEF Shape, InTables
<1>7. CASE Len(frames) > 1
  <2>1. UNCHANGED <<pass, pending>>
    BY <1>7 DEF CloseBlock
  <2>2. frames' \in Seq(Frame) /\ Depths'
    BY <1>1, <1>2, <1>5, <1>7, <2>1, Depths_pop DEF Depths, Nested
  <2>3. Typed'
    BY <1>1, <1>4, <1>5, <2>1, <2>2 DEF Shape, Typed
  <2> QED  BY <1>6, <2>2, <2>3 DEF Shape
<1>8. CASE ~ (Len(frames) > 1)
  <2>1. pass' = "rename" /\ pending' \subseteq Names
    BY <1>8 DEF CloseBlock
  <2>2. frames' \in Seq(Frame)
    BY <1>1, <1>2, Pop
  <2>3. Typed'
    BY <1>1, <1>4, <1>5, <2>1, <2>2 DEF Shape, Typed
  <2> QED  BY <1>6, <2>1, <2>3 DEF Shape, Depths, Nested
<1> QED  BY <1>7, <1>8

\* What a declaration leaves behind: its entry in the table of its block, and
\* its own record at the end of decls.
DeclEntry(const) == IF const THEN ConstEntry(INT32_MIN)
                    ELSE VarEntry(Len(decls) + 1)
DeclTab(x, const) == [tab EXCEPT ![Cur] = add_sym(@, x, DeclEntry(const))]
DeclRecord(x, const) == [name |-> x, block |-> Cur, const |-> const]

LEMMA DeclCases ==
  ASSUME NEW x \in Names, NEW const \in BOOLEAN, NEW xs \in Exps,
         Decl(x, const, xs)
  PROVE  /\ pass = "scope" /\ Top.kind = "block" /\ x \notin DOMAIN tab[Cur]
         /\ tab' = DeclTab(x, const)
         /\ decls' = Append(decls, DeclRecord(x, const))
         /\ ident' = Append(ident, x)
         /\ VisitExp(DeclTab(x, const), Append(decls, DeclRecord(x, const)),
                     Node(IF const THEN "const" ELSE "var", Len(decls) + 1), xs)
         /\ UNCHANGED <<scopes, underWhile, pending, frames>>
  BY DEF Decl, AtItem, DeclTab, DeclRecord, DeclEntry

\* The current scope is the block of the innermost block visit.
LEMMA CurrentScope ==
  ASSUME Shape, pass = "scope"
  PROVE  /\ Len(scopes) \in Nat /\ Len(scopes) > 0
         /\ Cur \in 1..Len(tab) /\ Cur = scopes[Len(scopes)]
<1>1. /\ scopes \in Seq(Nat) /\ frames \in Seq(Frame) /\ Len(frames) > 0
      /\ Len(scopes) = frames[Len(frames)].depth
      /\ \A i \in 1..Len(frames) : frames[i].depth > 0
  <2>1. scopes \in Seq(Nat) /\ frames \in Seq(Frame)
    BY DEF Shape, Typed
  <2>2. Nested(frames, Len(scopes))
    BY DEF Shape, Depths
  <2> QED  BY <2>1, <2>2 DEF Nested
<1>2. Len(scopes) \in 1..Len(scopes)
  <2>1. Len(frames) \in 1..Len(frames) /\ Len(scopes) \in Nat
    BY <1>1
  <2> QED  BY <1>1, <2>1
<1> QED  BY <1>2 DEF Cur, Shape, InTables

\* The tables after a declaration.
LEMMA DeclTables ==
  ASSUME Shape, pass = "scope", NEW x \in Names, NEW const \in BOOLEAN
  PROVE  LET t == DeclTab(x, const)
         IN /\ t \in Seq(Table) /\ Len(t) = Len(tab)
            /\ DOMAIN t[Cur] = DOMAIN tab[Cur] \cup {x}
            /\ t[Cur][x] = DeclEntry(const) /\ DeclEntry(const) \in Entry
            /\ \A y \in DOMAIN tab[Cur] : y # x => t[Cur][y] = tab[Cur][y]
            /\ \A b \in 1..Len(tab) : b # Cur => t[b] = tab[b]
<1>1. /\ tab \in Seq(Table) /\ Cur \in 1..Len(tab) /\ x \in Ident
      /\ Len(decls) \in Nat
  BY CurrentScope, NamesAssumption DEF Shape, Typed
<1>2. DeclEntry(const) \in Entry
  <2>1. ConstEntry(INT32_MIN) \in Entry
    BY DEF ConstEntry, INT32_MIN, NoDecl, Entry
  <2>2. VarEntry(Len(decls) + 1) \in Entry
    BY <1>1 DEF VarEntry, Entry
  <2> QED  BY <2>1, <2>2 DEF DeclEntry
<1> DEFINE e == DeclEntry(const)
           t1 == add_sym(tab[Cur], x, e)
<1>3. tab[Cur] \in Table
  BY <1>1
<1>4. /\ t1 \in Table /\ DOMAIN t1 = DOMAIN tab[Cur] \cup {x} /\ t1[x] = e
      /\ \A y \in DOMAIN tab[Cur] : y # x => t1[y] = tab[Cur][y]
  <2>1. x \in Ident /\ e \in Entry
    BY <1>1, <1>2
  <2> HIDE DEF e
  <2> QED  BY <2>1, <1>3, AddSym
<1>5. DeclTab(x, const) = [tab EXCEPT ![Cur] = t1]
  BY <1>1 DEF DeclTab
<1> HIDE DEF t1
<1>6. /\ [tab EXCEPT ![Cur] = t1] \in Seq(Table)
      /\ Len([tab EXCEPT ![Cur] = t1]) = Len(tab)
      /\ [tab EXCEPT ![Cur] = t1][Cur] = t1
      /\ \A b \in 1..Len(tab) : b # Cur => [tab EXCEPT ![Cur] = t1][b] = tab[b]
  BY <1>1, <1>4
<1> QED  BY <1>2, <1>4, <1>5, <1>6

LEMMA Shape_Decl ==
  ASSUME Shape, NEW x \in Names, NEW const \in BOOLEAN, NEW xs \in Exps,
         Decl(x, const, xs),
         record' \in {record, [record EXCEPT ![x] = Append(@, Cur)]}
  PROVE  Shape'
<1> DEFINE t == DeclTab(x, const)
           r == DeclRecord(x, const)
<1>1. /\ pass = "scope" /\ tab' = t /\ decls' = Append(decls, r)
      /\ ident' = Append(ident, x)
      /\ UNCHANGED <<scopes, underWhile, pending, frames>>
  BY DeclCases
<1>2. /\ Len(scopes) \in Nat /\ Len(scopes) > 0 /\ Cur \in 1..Len(tab)
  BY <1>1, CurrentScope
<1>3. /\ tab \in Seq(Table) /\ decls \in Seq(DeclType) /\ ident \in Seq(Ident)
      /\ Len(ident) = Len(decls) /\ Len(decls) \in Nat /\ Len(tab) \in Nat
      /\ ast \in Seq(NodeType) /\ scopes \in Seq(Nat)
      /\ record \in [Names -> Seq(Nat)] /\ record[x] \in Seq(Nat)
  BY DEF Shape, Typed
<1>4. t \in Seq(Table) /\ Len(t) = Len(tab)
  BY <1>1, DeclTables
<1>5. r \in DeclType /\ r.block = Cur
  BY <1>2, <1>3 DEF DeclRecord, DeclType
<1>6. /\ decls' \in Seq(DeclType) /\ Len(decls') = Len(decls) + 1
      /\ decls'[Len(decls) + 1] = r
      /\ \A d \in 1..Len(decls) : decls'[d] = decls[d]
  BY <1>1, <1>3, <1>5, Push
<1>7. ident' \in Seq(Ident) /\ Len(ident') = Len(ident) + 1
  BY <1>1, <1>3, NamesAssumption, Push
<1>8. ast' \in Seq(NodeType) /\ pass' \in {"scope", "throw"}
  <2> DEFINE node == Node(IF const THEN "const" ELSE "var", Len(decls) + 1)
  <2>1. node \in NodeType
    BY <1>3, NodeTyped
  <2>2. VisitExp(t, decls', node, xs)
    BY <1>1, DeclCases
  <2>3. \A i \in 1..Len(scopes) : scopes[i] \in 1..Len(t)
    BY <1>4 DEF Shape, InTables
  <2> HIDE DEF node, t
  <2> QED  BY <1>1, <1>3, <1>4, <1>6, <2>1, <2>2, <2>3, VisitExpTyped
<1> DEFINE a == Append(record[x], Cur)
<1>9. /\ a \in Seq(Nat)
      /\ \A i \in 1..Len(a) : a[i] \in 1..Len(tab)
  <2>1. /\ a \in Seq(Nat) /\ Len(a) = Len(record[x]) + 1
        /\ a[Len(record[x]) + 1] = Cur
        /\ \A i \in 1..Len(record[x]) : a[i] = record[x][i]
    BY <1>2, <1>3, Push
  <2>2. \A i \in 1..Len(record[x]) : record[x][i] \in 1..Len(tab)
    BY DEF Shape, InTables
  <2>3. Len(record[x]) \in Nat
    BY <1>3
  <2> HIDE DEF a
  <2>4. \A i \in 1..Len(a) : i \in 1..Len(record[x]) \/ i = Len(record[x]) + 1
    BY <2>1, <2>3
  <2> QED  BY <1>2, <2>1, <2>2, <2>4
<1> HIDE DEF t, r, a
<1>10. /\ record' \in [Names -> Seq(Nat)]
       /\ \A y \in Names : record'[y] \in {record[y], IF y = x THEN a ELSE record[y]}
  BY <1>3, <1>9 DEF a
<1>11. InTables'
  <2>1. \A y \in Names : \A i \in 1..Len(record'[y]) :
          record'[y][i] \in 1..Len(tab')
    BY <1>1, <1>4, <1>9, <1>10 DEF Shape, InTables
  <2>2. \A d \in 1..Len(decls') : decls'[d].block \in 1..Len(tab')
    <3> TAKE d \in 1..Len(decls')
    <3>1. d \in 1..Len(decls) \/ d = Len(decls) + 1
      BY <1>3, <1>6
    <3> QED  BY <3>1, <1>1, <1>2, <1>4, <1>5, <1>6 DEF Shape, InTables
  <2> QED  BY <2>1, <2>2, <1>1, <1>4 DEF Shape, InTables
<1>12. Typed'
  BY <1>1, <1>3, <1>4, <1>6, <1>7, <1>8, <1>10 DEF Shape, Typed
<1>13. Depths'
  BY <1>1 DEF Shape, Depths
<1> QED  BY <1>11, <1>12, <1>13 DEF Shape

LEMMA Shape_ConstDecl ==
  ASSUME Shape, NEW x \in Names, NEW xs \in Exps, ConstDecl(x, xs)
  PROVE  Shape'
  BY Shape_Decl DEF ConstDecl

LEMMA Shape_VarDecl ==
  ASSUME Shape, NEW x \in Names, NEW xs \in Exps, VarDecl(x, xs)
  PROVE  Shape'
  BY Shape_Decl DEF VarDecl

-----------------------------------------------------------------------------
(* The record of the names to rename. While the tree is walked, and for each  *)
(* name the rename loop has still to visit, the recorded tables hold the name *)
(* as that of a variable.                                                     *)

RecordedHere(t, rec, x) ==
  \A i \in 1..Len(rec[x]) : x \in DOMAIN t[rec[x][i]] /\ ~t[rec[x][i]][x].const

Recorded ==
  /\ pass = "scope" => \A x \in Names : RecordedHere(tab, record, x)
  /\ pass = "rename" => \A x \in pending : RecordedHere(tab, record, x)

LEMMA Recorded_Decl ==
  ASSUME Shape, Recorded, NEW x \in Names, NEW const \in BOOLEAN,
         NEW xs \in Exps, Decl(x, const, xs),
         \/ record' = record
         \/ ~const /\ record' = [record EXCEPT ![x] = Append(@, Cur)]
  PROVE  Recorded'
<1>1. /\ pass = "scope" /\ tab' = DeclTab(x, const) /\ x \notin DOMAIN tab[Cur]
  BY DeclCases
<1>2. Cur \in 1..Len(tab)
  BY <1>1, CurrentScope
<1> DEFINE t == DeclTab(x, const)
<1>3. /\ DOMAIN t[Cur] = DOMAIN tab[Cur] \cup {x}
      /\ t[Cur][x] = DeclEntry(const)
      /\ \A y \in DOMAIN tab[Cur] : y # x => t[Cur][y] = tab[Cur][y]
      /\ \A b \in 1..Len(tab) : b # Cur => t[b] = tab[b]
  BY <1>1, DeclTables
<1>4. ~const => ~DeclEntry(const).const
  BY DEF DeclEntry, VarEntry
<1> HIDE DEF t
<1>5. ASSUME NEW y \in Names
      PROVE  RecordedHere(t, record, y)
  <2> SUFFICES ASSUME NEW i \in 1..Len(record[y])
               PROVE  y \in DOMAIN t[record[y][i]] /\ ~t[record[y][i]][y].const
    BY DEF RecordedHere
  <2>1. /\ y \in DOMAIN tab[record[y][i]] /\ ~tab[record[y][i]][y].const
        /\ record[y][i] \in 1..Len(tab)
    BY <1>1, <1>5 DEF Recorded, RecordedHere, Shape, InTables
  <2>2. CASE record[y][i] = Cur
    <3>1. y # x
      BY <1>1, <2>1, <2>2
    <3> QED  BY <1>3, <2>1, <2>2, <3>1
  <2>3. CASE record[y][i] # Cur
    BY <1>3, <2>1, <2>3
  <2> QED  BY <2>2, <2>3
<1>6. ASSUME ~const, record' = [record EXCEPT ![x] = Append(@, Cur)],
             NEW y \in Names
      PROVE  RecordedHere(t, record', y)
  <2>1. record \in [Names -> Seq(Nat)] /\ record[y] \in Seq(Nat) /\ Cur \in Nat
    BY <1>2, <1>6 DEF Shape, Typed
  <2>2. CASE y = x
    <3> DEFINE a == Append(record[x], Cur)
    <3>1. record'[y] = a
      BY <1>6, <2>1, <2>2
    <3>2. /\ Len(a) = Len(record[x]) + 1 /\ a[Len(record[x]) + 1] = Cur
          /\ \A i \in 1..Len(record[x]) : a[i] = record[x][i]
          /\ Len(record[x]) \in Nat
      BY <2>1, <2>2, Push
    <3> HIDE DEF a
    <3>3. \A i \in 1..Len(a) : i \in 1..Len(record[x]) \/ i = Len(record[x]) + 1
      BY <3>2
    <3>4. RecordedHere(t, record, x)
      BY <1>5
    <3>5. x \in DOMAIN t[Cur] /\ ~t[Cur][x].const
      BY <1>3, <1>4, <1>6
    <3> QED  BY <2>2, <3>1, <3>2, <3>3, <3>4, <3>5 DEF RecordedHere
  <2>3. CASE y # x
    <3>1. record'[y] = record[y]
      BY <1>6, <2>1, <2>3
    <3> QED  BY <1>5, <3>1 DEF RecordedHere
  <2> QED  BY <2>2, <2>3
<1>7. \A y \in Names : RecordedHere(tab', record', y)
  BY <1>1, <1>5, <1>6 DEF t
<1>8. pass' \in {"scope", "throw"}
  <2>1. VisitExp(t, Append(decls, DeclRecord(x, const)),
                 Node(IF const THEN "const" ELSE "var", Len(decls) + 1), xs)
    BY DeclCases DEF t
  <2> QED  BY <1>1, <2>1, VisitExpCases DEF VisitExpThrows, VisitExpRecords
<1> QED  BY <1>7, <1>8 DEF Recorded

\* Steps that leave the tables and the record alone and start no renaming.
LEMMA Recorded_Same ==
  ASSUME Recorded, pass = "scope", pass' \in {"scope", "throw"},
         UNCHANGED <<record, tab>>
  PROVE  Recorded'
  BY DEF Recorded, RecordedHere

LEMMA Recorded_OpenBlock ==
  ASSUME Shape, Recorded, OpenBlock
  PROVE  Recorded'
<1>1. /\ pass = "scope" /\ pass' = pass /\ record' = record
      /\ tab' = Append(tab, <<>>) /\ tab \in Seq(Table)
  BY DEF OpenBlock, AtStmt, Shape, Typed
<1>2. \A b \in 1..Len(tab) : tab'[b] = tab[b]
  BY <1>1
<1> QED  BY <1>1, <1>2 DEF Recorded, RecordedHere, Shape, InTables

LEMMA Recorded_CloseBlock ==
  ASSUME Shape, Recorded, CloseBlock
  PROVE  Recorded'
<1>1. pass = "scope" /\ UNCHANGED <<record, tab>>
  BY DEF CloseBlock, AtItem
<1>2. CASE UNCHANGED <<pass, pending>>
  BY <1>1, <1>2, Recorded_Same
<1>3. CASE pass' = "rename" /\ pending' \subseteq Names
  BY <1>1, <1>3 DEF Recorded, RecordedHere
<1> QED  BY <1>2, <1>3 DEF CloseBlock

\* The turn of a table in the renaming of x.
LEMMA TurnTyped ==
  ASSUME Shape, NEW x \in Names, NEW b
  PROVE  /\ Turn(x, b) \in Nat
         /\ Turn(x, b) # 0 => /\ Turn(x, b) \in 1..Len(record[x])
                              /\ record[x][Turn(x, b)] = b
<1> DEFINE S == {i \in DOMAIN record[x] : record[x][i] = b} \cup {0}
<1>1. record[x] \in Seq(Nat) /\ DOMAIN record[x] = 1..Len(record[x])
      /\ Len(record[x]) \in Nat
  BY DEF Shape, Typed
<1>2. S \subseteq 0..Len(record[x]) /\ S # {}
  BY <1>1
<1>3. Max(S) \in S
  BY <1>1, <1>2, MaxOfBounded
<1>4. Turn(x, b) = Max(S)
  BY DEF Turn
<1> HIDE DEF Turn
<1> QED  BY <1>1, <1>3, <1>4

\* One name renamed: the tables of x drop x and get its new name.
LEMMA RenameTables ==
  ASSUME Shape, Recorded, NEW x \in Names, RenameSym(x)
  PROVE  /\ tab' \in Seq(Table) /\ Len(tab') = Len(tab)
         /\ \A b \in 1..Len(tab), y \in Names :
              y # x /\ y \in DOMAIN tab[b] /\ ~tab[b][y].const =>
                y \in DOMAIN tab'[b] /\ ~tab'[b][y].const
<1>1. /\ pass = "rename" /\ x \in pending /\ tab \in Seq(Table)
      /\ DOMAIN tab = 1..Len(tab) /\ Len(tab) \in Nat
  BY DEF RenameSym, Shape, Typed
<1> DEFINE e(b) == VarEntry(tab[b][x].var)
           n(b) == Renamed(x, Turn(x, b))
           t(b) == add_sym(tab[b], n(b), e(b))
<1>2. ASSUME NEW b \in Renaming(x)
      PROVE  /\ b \in 1..Len(tab) /\ tab[b] \in Table
             /\ n(b) \in Ident /\ n(b) # x /\ e(b) \in Entry /\ ~e(b).const
             /\ x \in DOMAIN tab[b] /\ ~tab[b][x].const
  <2>1. b \in 1..Len(tab) /\ Turn(x, b) # 0 /\ tab[b] \in Table
    BY <1>1, <1>2 DEF Renaming
  <2>2. Turn(x, b) \in 1..Len(record[x]) /\ record[x][Turn(x, b)] = b
    BY <2>1, TurnTyped
  <2>3. x \in DOMAIN tab[b] /\ ~tab[b][x].const
    BY <1>1, <2>2 DEF Recorded, RecordedHere
  <2>4. tab[b][x] \in Entry
    BY <2>1, <2>3, TableEntry
  <2>5. e(b) \in Entry /\ ~e(b).const
    BY <2>4 DEF VarEntry, Entry
  <2>6. n(b) \in Ident /\ n(b) # x
    BY <2>2, RenamedIdent, NamesAssumption, TurnTyped
  <2> QED  BY <2>1, <2>3, <2>5, <2>6
<1> DEFINE u(b) == IF b \in Renaming(x) THEN remove_sym(t(b), x) ELSE tab[b]
<1>3. ASSUME NEW b \in 1..Len(tab)
      PROVE  /\ u(b) \in Table
             /\ \A y \in Names :
                  y # x /\ y \in DOMAIN tab[b] /\ ~tab[b][y].const =>
                    y \in DOMAIN u(b) /\ ~u(b)[y].const
  <2>1. CASE b \in Renaming(x)
    <3>1. /\ t(b) \in Table /\ DOMAIN t(b) = DOMAIN tab[b] \cup {n(b)}
          /\ t(b)[n(b)] = e(b)
          /\ \A y \in DOMAIN tab[b] : y # n(b) => t(b)[y] = tab[b][y]
      <4>1. tab[b] \in Table /\ n(b) \in Ident /\ e(b) \in Entry
        BY <1>2, <2>1
      <4> HIDE DEF n, e
      <4> QED  BY <4>1, AddSym
    <3> HIDE DEF t
    <3>2. /\ remove_sym(t(b), x) \in Table
          /\ DOMAIN remove_sym(t(b), x) = DOMAIN t(b) \ {x}
          /\ \A y \in DOMAIN t(b) : y # x => remove_sym(t(b), x)[y] = t(b)[y]
      BY <3>1, RemoveSym
    <3> QED  BY <2>1, <3>1, <3>2, <1>2
  <2>2. CASE b \notin Renaming(x)
    BY <1>1, <2>2
  <2> QED  BY <2>1, <2>2
<1>4. tab' = [b \in 1..Len(tab) |-> u(b)]
  BY <1>1 DEF RenameSym
<1> HIDE DEF u
<1>5. tab' \in Seq(Table) /\ Len(tab') = Len(tab)
  BY <1>1, <1>3, <1>4
<1> QED  BY <1>3, <1>4, <1>5

LEMMA Shape_RenameSym ==
  ASSUME Shape, Recorded, NEW x \in Names, RenameSym(x)
  PROVE  Shape' /\ Recorded'
<1>1. /\ pass = "rename" /\ x \in pending /\ pending' = pending \ {x}
      /\ ident' = [d \in DOMAIN ident |-> set_ident(x, d)]
      /\ UNCHANGED <<pass, scopes, underWhile, record, decls, frames, ast>>
  BY DEF RenameSym
<1>2. tab' \in Seq(Table) /\ Len(tab') = Len(tab)
  BY RenameTables
<1>3. ident' \in Seq(Ident) /\ Len(ident') = Len(ident)
  <2>1. ident \in Seq(Ident) /\ DOMAIN ident = 1..Len(ident) /\ Len(ident) \in Nat
    BY DEF Shape, Typed
  <2>2. \A d \in 1..Len(ident) : set_ident(x, d) \in Ident
    BY <2>1, RenamedIdent, TurnTyped, NamesAssumption DEF set_ident
  <2> QED  BY <1>1, <2>1, <2>2
<1>4. Typed'
  BY <1>1, <1>2, <1>3 DEF Shape, Typed
<1>5. InTables'
  BY <1>1, <1>2 DEF Shape, InTables
<1>6. Depths'
  BY <1>1 DEF Depths
<1>7. Recorded'
  <2>1. ASSUME NEW y \in pending'
        PROVE  RecordedHere(tab', record', y)
    <3>1. y \in pending /\ y # x /\ y \in Names /\ record' = record
      BY <1>1, <2>1 DEF Shape, Typed
    <3>2. \A i \in 1..Len(record[y]) :
            /\ record[y][i] \in 1..Len(tab)
            /\ y \in DOMAIN tab[record[y][i]] /\ ~tab[record[y][i]][y].const
      BY <1>1, <3>1 DEF Recorded, RecordedHere, Shape, InTables
    <3> QED  BY <3>1, <3>2, RenameTables DEF RecordedHere
  <2> QED  BY <1>1, <2>1 DEF Recorded
<1> QED  BY <1>4, <1>5, <1>6, <1>7 DEF Shape

LEMMA Shape_FinishRename ==
  ASSUME Shape, FinishRename
  PROVE  Shape' /\ Recorded'
<1>1. /\ pass' = "replay" /\ record' = [x \in Names |-> <<>>]
      /\ UNCHANGED <<scopes, underWhile, pending, tab, decls, ident, frames, ast>>
  BY DEF FinishRename
<1>2. Typed'
  BY <1>1 DEF Shape, Typed
<1>3. InTables'
  BY <1>1 DEF Shape, InTables
<1> QED  BY <1>1, <1>2, <1>3 DEF Shape, Depths, Recorded

-----------------------------------------------------------------------------
(* The steps together.                                                        *)

LEMMA Step ==
  ASSUME Shape, Recorded, [Next]_scopeVars
  PROVE  Shape' /\ Recorded'
<1>1. CASE OpenBlock
  BY <1>1, Shape_OpenBlock, Recorded_OpenBlock
<1>2. CASE CloseBlock
  BY <1>2, Shape_CloseBlock, Recorded_CloseBlock
<1>3. CASE EndStmt
  BY <1>3, Shape_EndStmt, Recorded_Same DEF EndStmt
<1>4. CASE BreakOrContinue
  BY <1>4, Shape_BreakOrContinue, Recorded_Same
     DEF BreakOrContinue, AtStmt, Throw
<1>5. ASSUME NEW x \in Names, Redefine(x)
      PROVE  Shape' /\ Recorded'
  BY <1>5, Shape_Redefine, Recorded_Same DEF Redefine, AtItem, Throw
<1>6. ASSUME NEW x \in Names, NEW xs \in Exps, ConstDecl(x, xs)
      PROVE  Shape' /\ Recorded'
  BY <1>6, Shape_ConstDecl, Recorded_Decl DEF ConstDecl
<1>7. ASSUME NEW x \in Names, NEW xs \in Exps, VarDecl(x, xs)
      PROVE  Shape' /\ Recorded'
  BY <1>7, Shape_VarDecl, Recorded_Decl DEF VarDecl
<1>8. ASSUME NEW x \in Names, NEW xs \in Exps, Assign(x, xs)
      PROVE  Shape' /\ Recorded'
  BY <1>8, Shape_Assign, Recorded_Same, VisitExpCases
     DEF Assign, AtStmt, Throw, VisitExpThrows, VisitExpRecords
<1>9. ASSUME NEW xs \in Exps, If(xs) \/ While(xs)
      PROVE  Shape' /\ Recorded'
  BY <1>9, Shape_If, Shape_While, Recorded_Same, VisitExpCases
     DEF If, While, AtStmt, VisitExpThrows, VisitExpRecords
<1>10. ASSUME NEW kind \in {"ret", "exp"}, NEW xs \in Exps,
              ReturnOrExp(kind, xs)
       PROVE  Shape' /\ Recorded'
  BY <1>10, Shape_ReturnOrExp, Recorded_Same, VisitExpCases
     DEF ReturnOrExp, AtStmt, VisitExpThrows, VisitExpRecords
<1>11. ASSUME NEW x \in Names, RenameSym(x)
       PROVE  Shape' /\ Recorded'
  BY <1>11, Shape_RenameSym
<1>12. CASE FinishRename
  BY <1>12, Shape_FinishRename
<1>13. CASE UNCHANGED scopeVars
  BY <1>13 DEF scopeVars, Shape, Typed, InTables, Depths, Nested, Recorded,
               RecordedHere
<1> QED
  BY <1>1, <1>2, <1>3, <1>4, <1>5, <1>6, <1>7, <1>8, <1>9, <1>10, <1>11,
     <1>12, <1>13 DEF Next, ScopeNext, ScopeOver

LEMMA Start ==
  ASSUME Init PROVE Shape /\ Recorded
<1>1. Recorded
  BY DEF Init, Recorded, RecordedHere
<1> QED  BY <1>1, Shape_Init

LEMMA TypeOKFollows ==
  ASSUME Shape PROVE TypeOK
<1>1. /\ tab \in Seq(Table) /\ DOMAIN tab = 1..Len(tab)
      /\ scopes \in Seq(Nat) /\ record \in [Names -> Seq(Nat)]
      /\ decls \in Seq(DeclType) /\ Len(decls) \in Nat
      /\ DOMAIN decls = 1..Len(decls)
      /\ ident \in Seq(Ident) /\ Len(ident) = Len(decls)
  BY DEF Shape, Typed
<1>2. scopes \in Seq(DOMAIN tab)
  <2>1. \A i \in 1..Len(scopes) : scopes[i] \in DOMAIN tab
    BY <1>1 DEF Shape, InTables
  <2> QED  BY <1>1, <2>1
<1>3. record \in [Names -> Seq(DOMAIN tab)]
  <2>1. ASSUME NEW x \in Names PROVE record[x] \in Seq(DOMAIN tab)
    <3>1. \A i \in 1..Len(record[x]) : record[x][i] \in DOMAIN tab
      BY <1>1 DEF Shape, InTables
    <3>2. record[x] \in Seq(Nat)
      BY <1>1
    <3> QED  BY <3>1, <3>2
  <2> QED  BY <1>1, <2>1
<1>4. decls \in Seq([name : Names, block : DOMAIN tab, const : BOOLEAN])
  <2> DEFINE D == [name : Names, block : DOMAIN tab, const : BOOLEAN]
  <2>1. ASSUME NEW d \in 1..Len(decls) PROVE decls[d] \in D
    <3>1. decls[d] \in DeclType /\ decls[d].block \in DOMAIN tab
      BY <1>1 DEF Shape, InTables
    <3> QED  BY <3>1 DEF DeclType
  <2> HIDE DEF D
  <2>2. decls \in Seq(D)
    BY <1>1, <2>1
  <2> QED  BY <2>2 DEF D
<1>5. \A b \in DOMAIN tab : \A x \in DOMAIN tab[b] :
        x \in Ident /\ tab[b][x] \in Entry
  <2> TAKE b \in DOMAIN tab
  <2>1. tab[b] \in Table
    BY <1>1
  <2> QED  BY <2>1, TableEntry
<1>6. DOMAIN ident = DOMAIN decls
  BY <1>1
<1> QED  BY <1>1, <1>2, <1>3, <1>4, <1>5, <1>6 DEF TypeOK, Shape, Typed

\* Every variable of the pass keeps its type, and every block number kept in
\* the scope stack, in the rename record or in a declaration has a table.
THEOREM TypeCorrect == Spec => []TypeOK
<1>1. Init => Shape /\ Recorded
  BY Start
<1>2. Shape /\ Recorded /\ [Next]_scopeVars => (Shape /\ Recorded)'
  BY Step
<1>3. Shape => TypeOK
  BY TypeOKFollows
<1> QED  BY <1>1, <1>2, <1>3, PTL DEF Spec

\* The rename loop finds each name it visits in every table it recorded, and as
\* a variable: table_.at and std::get never throw.
THEOREM RenamingIsSafe == Spec => []RenameSafe
<1>1. Init => Shape /\ Recorded
  BY Start
<1>2. Shape /\ Recorded /\ [Next]_scopeVars => (Shape /\ Recorded)'
  BY Step
<1>3. Shape /\ Recorded => RenameSafe
  <2>1. Shape => \A x \in Names : DOMAIN record[x] = 1..Len(record[x])
    BY DEF Shape, Typed
  <2> QED  BY <2>1 DEF Shape, Typed, Recorded, RecordedHere, RenameSafe
<1> QED  BY <1>1, <1>2, <1>3, PTL DEF Spec

-----------------------------------------------------------------------------
(* The loop flag.                                                             *)

\* A while statement is among the first n visits in progress.
WhileAmong(fs, n) == \E i \in 1..n : fs[i].kind = "while"

\* Each while visit saved the flag as it was outside of it.
SavedFlags(fs) ==
  \A i \in 1..Len(fs) :
    fs[i].kind = "while" => fs[i].saved = WhileAmong(fs, i - 1)

Loops ==
  pass = "scope" =>
    underWhile = WhileAmong(frames, Len(frames)) /\ SavedFlags(frames)

\* Frames that agree on kind and saved agree on the loops.
LEMMA SameLoops ==
  ASSUME NEW fs, NEW gs, NEW n \in Nat,
         \A i \in 1..n : gs[i].kind = fs[i].kind
  PROVE  \A m \in 0..n : WhileAmong(gs, m) = WhileAmong(fs, m)
  BY DEF WhileAmong

LEMMA SameSavedFlags ==
  ASSUME NEW fs, NEW gs, Len(gs) \in Nat, Len(gs) <= Len(fs), Len(fs) \in Nat,
         SavedFlags(fs),
         \A i \in 1..Len(gs) : gs[i].kind = fs[i].kind /\ gs[i].saved = fs[i].saved
  PROVE  SavedFlags(gs)
<1> SUFFICES ASSUME NEW i \in 1..Len(gs), gs[i].kind = "while"
             PROVE  gs[i].saved = WhileAmong(gs, i - 1)
  BY DEF SavedFlags
<1>1. i \in 1..Len(fs) /\ i - 1 \in 0..Len(gs) /\ fs[i].kind = "while"
  OBVIOUS
<1>2. fs[i].saved = WhileAmong(fs, i - 1)
  BY <1>1 DEF SavedFlags
<1>3. WhileAmong(gs, i - 1) = WhileAmong(fs, i - 1)
  BY <1>1, SameLoops
<1> QED  BY <1>2, <1>3

LEMMA Loops_Enter ==
  ASSUME Shape, Loops, pass = "scope", frames' = Entered,
         underWhile' = underWhile
  PROVE  Loops'
<1>1. /\ Len(frames') = Len(frames) /\ Len(frames) \in Nat
      /\ \A i \in 1..Len(frames) : /\ frames'[i].kind = frames[i].kind
                                   /\ frames'[i].saved = frames[i].saved
  BY EnteredFrames DEF Shape, Typed
<1>2. SavedFlags(frames')
  BY <1>1, SameSavedFlags DEF Loops
<1>3. WhileAmong(frames', Len(frames)) = WhileAmong(frames, Len(frames))
  <2>1. Len(frames) \in 0..Len(frames)
    BY <1>1
  <2> QED  BY <1>1, <2>1, SameLoops
<1> QED  BY <1>1, <1>2, <1>3 DEF Loops

LEMMA Loops_Push ==
  ASSUME Shape, Loops, pass = "scope", NEW f \in Frame,
         frames' = Append(Entered, f),
         f.kind = "while" => f.saved = underWhile,
         underWhile' = (f.kind = "while" \/ underWhile)
  PROVE  Loops'
<1> DEFINE n == Len(frames)
<1>1. /\ Entered \in Seq(Frame) /\ Len(Entered) = n /\ n \in Nat
      /\ \A i \in 1..n : /\ Entered[i].kind = frames[i].kind
                         /\ Entered[i].saved = frames[i].saved
  BY EnteredFrames DEF Shape, Typed
<1>2. /\ Len(frames') = n + 1 /\ frames'[n + 1] = f
      /\ \A i \in 1..n : frames'[i] = Entered[i]
  BY <1>1, Push
<1>3. /\ Len(frames') = n + 1 /\ frames'[n + 1] = f
      /\ \A i \in 1..n : /\ frames'[i].kind = frames[i].kind
                         /\ frames'[i].saved = frames[i].saved
  BY <1>1, <1>2
<1>4. \A m \in 0..n : WhileAmong(frames', m) = WhileAmong(frames, m)
  BY <1>1, <1>3, SameLoops
<1>5. underWhile = WhileAmong(frames, n) /\ SavedFlags(frames)
  BY DEF Loops
<1> HIDE DEF n
<1>6. SavedFlags(frames')
  <2> SUFFICES ASSUME NEW i \in 1..n+1, frames'[i].kind = "while"
               PROVE  frames'[i].saved = WhileAmong(frames', i - 1)
    BY <1>3 DEF SavedFlags
  <2>1. CASE i = n + 1
    <3>1. f.saved = WhileAmong(frames, n)
      BY <1>3, <1>5, <2>1
    <3>2. i - 1 = n /\ n \in 0..n
      BY <1>1, <2>1
    <3> QED  BY <1>3, <1>4, <2>1, <3>1, <3>2
  <2>2. CASE i \in 1..n
    <3>1. frames[i].saved = WhileAmong(frames, i - 1) /\ i - 1 \in 0..n
      BY <1>1, <1>3, <1>5, <2>2 DEF SavedFlags, n
    <3> QED  BY <1>3, <1>4, <2>2, <3>1
  <2> QED  BY <1>1, <2>1, <2>2
<1>7. WhileAmong(frames', n + 1) = (f.kind = "while" \/ underWhile)
  <2>1. WhileAmong(frames', n + 1) <=> (f.kind = "while" \/ WhileAmong(frames', n))
    BY <1>1, <1>3 DEF WhileAmong
  <2>2. WhileAmong(frames', n) = underWhile
    BY <1>1, <1>4, <1>5
  <2>3. WhileAmong(frames', n + 1) \in BOOLEAN
    BY DEF WhileAmong
  <2> QED  BY <2>1, <2>2, <2>3
<1> QED  BY <1>3, <1>6, <1>7 DEF Loops

LEMMA Loops_Pop ==
  ASSUME Shape, Loops, pass = "scope", Len(frames) > 1,
         frames' = SubSeq(frames, 1, Len(frames) - 1),
         underWhile' = IF Top.kind = "while" THEN Top.saved ELSE underWhile
  PROVE  Loops'
<1> DEFINE n == Len(frames)
<1>1. frames \in Seq(Frame) /\ n \in Nat /\ n > 1
  BY DEF Shape, Typed
<1>2. Len(frames') = n - 1 /\ \A i \in 1..n-1 : frames'[i] = frames[i]
  BY <1>1, Pop
<1> HIDE DEF n
<1>3. underWhile = WhileAmong(frames, n) /\ SavedFlags(frames)
  BY DEF Loops, n
<1>4. SavedFlags(frames')
  <2>1. /\ Len(frames') \in Nat /\ Len(frames') <= Len(frames)
        /\ Len(frames) \in Nat
        /\ \A i \in 1..Len(frames') : /\ frames'[i].kind = frames[i].kind
                                      /\ frames'[i].saved = frames[i].saved
    BY <1>1, <1>2 DEF n
  <2> QED  BY <1>3, <2>1, SameSavedFlags
<1>5. WhileAmong(frames', n - 1) = WhileAmong(frames, n - 1)
  <2>1. n - 1 \in Nat /\ n - 1 \in 0..(n - 1)
    BY <1>1
  <2>2. \A i \in 1..(n - 1) : frames'[i].kind = frames[i].kind
    BY <1>2
  <2> QED  BY <2>1, <2>2, SameLoops
<1>6. underWhile' = WhileAmong(frames, n - 1)
  <2>1. CASE Top.kind = "while"
    BY <1>1, <1>3, <2>1 DEF Top, SavedFlags, n
  <2>2. CASE Top.kind # "while"
    <3>1. WhileAmong(frames, n) <=> WhileAmong(frames, n - 1)
      BY <1>1, <2>2 DEF Top, WhileAmong, n
    <3>2. WhileAmong(frames, n) = WhileAmong(frames, n - 1)
      BY <3>1 DEF WhileAmong
    <3> QED  BY <1>3, <2>2, <3>2
  <2> QED  BY <2>1, <2>2
<1> QED  BY <1>2, <1>4, <1>5, <1>6 DEF Loops

LEMMA Loops_Init ==
  ASSUME Init PROVE Loops
<1>1. frames = <<BlockFrame(1)>> /\ underWhile = FALSE
  BY DEF Init
<1>2. Len(frames) = 1 /\ frames[1].kind = "block"
  BY <1>1 DEF BlockFrame
<1>3. WhileAmong(frames, 1) <=> FALSE
  BY <1>2 DEF WhileAmong
<1>4. SavedFlags(frames)
  BY <1>2 DEF SavedFlags
<1>5. underWhile = WhileAmong(frames, Len(frames))
  BY <1>1, <1>2, <1>3 DEF WhileAmong
<1> QED  BY <1>4, <1>5 DEF Loops

LEMMA Loops_Statement ==
  ASSUME Shape, Loops, NEW kind \in {"if", "while"}, NEW left \in 0..2,
         pass = "scope", frames' = Append(Entered, StmtFrame(kind, left)),
         underWhile' = (kind = "while" \/ underWhile)
  PROVE  Loops'
<1> DEFINE f == StmtFrame(kind, left)
<1>1. f \in Frame /\ f.kind = kind /\ f.saved = underWhile
  BY DEF StmtFrame, Frame, Shape, Typed
<1> HIDE DEF f
<1>2. frames' = Append(Entered, f)
  BY DEF f
<1> QED  BY <1>1, <1>2, Loops_Push

LEMMA Loops_Step ==
  ASSUME Shape, Loops, [Next]_scopeVars
  PROVE  Loops'
<1>0. underWhile \in BOOLEAN
  BY DEF Shape, Typed
<1>1. CASE OpenBlock
  <2> DEFINE f == BlockFrame(Len(scopes) + 1)
  <2>1. /\ pass = "scope" /\ frames' = Append(Entered, f)
        /\ underWhile' = underWhile /\ Len(scopes) \in Nat
    BY <1>1 DEF OpenBlock, AtStmt, Shape, Typed
  <2>2. f \in Frame /\ f.kind = "block"
    BY <2>1 DEF BlockFrame, Frame
  <2> HIDE DEF f
  <2> QED  BY <1>0, <2>1, <2>2, Loops_Push
<1>2. CASE CloseBlock
  <2>1. /\ pass = "scope" /\ Top.kind = "block" /\ underWhile' = underWhile
        /\ frames' = SubSeq(frames, 1, Len(frames) - 1)
    BY <1>2 DEF CloseBlock, AtItem
  <2>2. CASE Len(frames) > 1
    BY <2>1, <2>2, Loops_Pop
  <2>3. CASE ~ (Len(frames) > 1)
    BY <1>2, <2>3 DEF CloseBlock, Loops
  <2> QED  BY <2>2, <2>3
<1>3. CASE EndStmt
  <2>1. Len(frames) > 1
    BY <1>3 DEF EndStmt, Top, Shape, Typed, Depths, Nested
  <2> QED  BY <1>3, <2>1, Loops_Pop DEF EndStmt, Restored
<1>4. CASE BreakOrContinue
  BY <1>4, Loops_Enter DEF BreakOrContinue, AtStmt
<1>5. ASSUME NEW x \in Names, Redefine(x) PROVE Loops'
  BY <1>5 DEF Redefine, Throw, Loops
<1>6. ASSUME NEW x \in Names, NEW xs \in Exps,
             ConstDecl(x, xs) \/ VarDecl(x, xs)
      PROVE  Loops'
  BY <1>6, DeclCases DEF ConstDecl, VarDecl, Loops, WhileAmong, SavedFlags
<1>7. ASSUME NEW x \in Names, NEW xs \in Exps, Assign(x, xs) PROVE Loops'
  BY <1>7, Loops_Enter DEF Assign, AtStmt
<1>8. ASSUME NEW xs \in Exps, If(xs) PROVE Loops'
  <2>1. underWhile' = ("if" = "while" \/ underWhile)
    BY <1>0, <1>8 DEF If
  <2>2. pass = "scope" /\ frames' = Append(Entered, StmtFrame("if", 2))
    BY <1>8 DEF If, AtStmt
  <2>3. "if" \in {"if", "while"} /\ 2 \in 0..2
    OBVIOUS
  <2> QED  BY <2>1, <2>2, <2>3, Loops_Statement
<1>9. ASSUME NEW xs \in Exps, While(xs) PROVE Loops'
  <2>1. underWhile' = ("while" = "while" \/ underWhile)
    BY <1>9 DEF While
  <2> QED  BY <1>9, <2>1, Loops_Statement DEF While, AtStmt
<1>10. ASSUME NEW kind \in {"ret", "exp"}, NEW xs \in Exps,
              ReturnOrExp(kind, xs)
       PROVE  Loops'
  BY <1>10, Loops_Enter DEF ReturnOrExp, AtStmt
<1>11. CASE (\E x \in Names : RenameSym(x)) \/ FinishRename
  BY <1>11 DEF RenameSym, FinishRename, Loops
<1>12. CASE UNCHANGED scopeVars
  BY <1>12 DEF scopeVars, Loops, WhileAmong, SavedFlags
<1> QED
  BY <1>1, <1>2, <1>3, <1>4, <1>5, <1>6, <1>7, <1>8, <1>9, <1>10, <1>11, <1>12
     DEF Next, ScopeNext, ScopeOver

\* isUnderWhile_ is set exactly while a while statement is being visited, at
\* every depth of nesting.
THEOREM LoopFlagCorrect == Spec => []LoopFlag
<1>1. Init => Shape /\ Recorded /\ Loops
  BY Start, Loops_Init
<1>2. Shape /\ Recorded /\ Loops /\ [Next]_scopeVars
        => (Shape /\ Recorded /\ Loops)'
  BY Step, Loops_Step
<1>3. Shape /\ Recorded /\ Loops => LoopFlag
  BY DEF Shape, Typed, Loops, WhileAmong, LoopFlag
<1> QED  BY <1>1, <1>2, <1>3, PTL DEF Spec

-----------------------------------------------------------------------------
(* Binding. The scopes are opened in the order of their block numbers; each   *)
(* table entry is that of exactly one declaration of its block; and of two    *)
(* declarations whose blocks are open, the later is never in the outer one.   *)

Ascending == \A i, j \in 1..Len(scopes) : i < j => scopes[i] < scopes[j]

EntryOf(t, ds, b, x, d) ==
  /\ ds[d].name = x /\ ds[d].block = b /\ ds[d].const = t[b][x].const
  /\ ~t[b][x].const => t[b][x].var = d

Declared(t, ds) ==
  /\ \A b \in 1..Len(t) : \A x \in DOMAIN t[b] :
       \E d \in 1..Len(ds) : EntryOf(t, ds, b, x, d)
  /\ \A d \in 1..Len(ds) : ds[d].name \in DOMAIN t[ds[d].block]
  /\ \A d, e \in 1..Len(ds) :
       ds[d].name = ds[e].name /\ ds[d].block = ds[e].block => d = e
  /\ \A d, e \in 1..Len(ds) :
       d < e /\ ds[d].block \in Open /\ ds[e].block \in Open =>
         ds[d].block <= ds[e].block

\* The declaration behind the innermost entry is the lexically visible one.
LEMMA InnermostIsLexical ==
  ASSUME NEW t \in Seq(Table), NEW ds \in Seq(DeclType), NEW x,
         scopes \in Seq(Nat), \A i \in 1..Len(scopes) : scopes[i] \in 1..Len(t),
         Ascending, Declared(t, ds), has_sym(t, x)
  PROVE  /\ Lexical(ds, x) \in 1..Len(ds)
         /\ ds[Lexical(ds, x)].const = Innermost(t, x).const
         /\ ~Innermost(t, x).const => get_sym_var(t, x) = Lexical(ds, x)
<1> DEFINE m == Max(Holders(t, x))
           b == scopes[m]
<1>1. /\ m \in 1..Len(scopes) /\ b \in 1..Len(t) /\ x \in DOMAIN t[b]
      /\ b \in Open
      /\ \A i \in 1..Len(scopes) : x \in DOMAIN t[scopes[i]] => i <= m
  <2>1. m \in Holders(t, x) /\ \A i \in Holders(t, x) : i <= m
    BY InnermostHolder
  <2> HIDE DEF m
  <2>2. m \in 1..Len(scopes) /\ x \in DOMAIN t[scopes[m]]
    BY <2>1 DEF Holders
  <2>3. \A i \in 1..Len(scopes) : x \in DOMAIN t[scopes[i]] => i <= m
    BY <2>1 DEF Holders
  <2>4. scopes[m] \in Open
    BY <2>2 DEF Open
  <2> QED  BY <2>2, <2>3, <2>4
<1>2. Innermost(t, x) = t[b][x]
  BY DEF Innermost
<1> HIDE DEF m, b
<1>3. PICK d \in 1..Len(ds) : EntryOf(t, ds, b, x, d)
  BY <1>1 DEF Declared
<1>4. d \in Visible(ds, x)
  BY <1>1, <1>3 DEF Visible, EntryOf
<1>5. ASSUME NEW e \in Visible(ds, x) PROVE e <= d
  <2>1. e \in 1..Len(ds) /\ ds[e].name = x /\ ds[e].block \in Open
    BY <1>5 DEF Visible
  <2> DEFINE c == ds[e].block
  <2>9. \E k \in 1..Len(scopes) : c = scopes[k]
    <3>1. DOMAIN scopes = 1..Len(scopes)
      OBVIOUS
    <3> HIDE DEF c
    <3>2. c \in Open
      BY <2>1 DEF c
    <3> QED  BY <3>1, <3>2 DEF Open
  <2>2. PICK k \in 1..Len(scopes) : ds[e].block = scopes[k]
    BY <2>9
  <2>3. x \in DOMAIN t[scopes[k]]
    <3>1. ds[e].name \in DOMAIN t[ds[e].block]
      BY <2>1 DEF Declared
    <3> QED  BY <3>1, <2>1, <2>2
  <2>4. k <= m
    BY <1>1, <2>3
  <2>5. scopes[k] <= b
    BY <1>1, <2>4 DEF Ascending, b
  <2> SUFFICES ASSUME d < e PROVE FALSE
    BY <2>1
  <2>6. ds[d].block = b /\ b <= ds[e].block /\ ds[d].name = x
    <3>1. ds[d].block = b /\ ds[d].name = x
      BY <1>3 DEF EntryOf
    <3> QED  BY <3>1, <1>1, <2>1 DEF Declared
  <2>7. scopes[k] \in Nat /\ b \in Nat
    BY <1>1
  <2>8. ds[e].block = b
    BY <2>2, <2>5, <2>6, <2>7
  <2> QED  BY <2>1, <2>6, <2>8 DEF Declared
<1>6. Lexical(ds, x) = d
  <2>1. /\ Lexical(ds, x) \in Visible(ds, x) \cup {0}
        /\ Lexical(ds, x) \in 0..Len(ds) /\ d <= Lexical(ds, x)
    BY <1>4, LexicalMax DEF NoDecl
  <2> QED  BY <1>5, <2>1
<1> QED  BY <1>2, <1>3, <1>6 DEF EntryOf, get_sym_var

\* A name that no open table holds is not declared in an open block.
LEMMA AbsentIsUndeclared ==
  ASSUME NEW t \in Seq(Table), NEW ds \in Seq(DeclType), NEW x,
         scopes \in Seq(Nat), Declared(t, ds), ~has_sym(t, x)
  PROVE  Lexical(ds, x) = NoDecl
<1>1. Visible(ds, x) = {}
  <2> SUFFICES ASSUME NEW d \in Visible(ds, x) PROVE FALSE
    OBVIOUS
  <2>1. d \in 1..Len(ds) /\ ds[d].name = x /\ ds[d].block \in Open
    BY DEF Visible
  <2>2. PICK k \in 1..Len(scopes) : ds[d].block = scopes[k]
    BY <2>1 DEF Open
  <2> QED  BY <2>1, <2>2 DEF Declared, has_sym, Holders
<1> QED  BY <1>1, LexicalMax

GoodUse(ds, u) ==
  /\ u.lex \in 1..Len(ds)
  /\ u.var # NoDecl => u.var = u.lex
  /\ ds[u.lex].const => u.var = NoDecl

GoodNode(ds, n) ==
  /\ \A j \in 1..Len(n.uses) : GoodUse(ds, n.uses[j])
  /\ n.kind = "assign" =>
       /\ n.at = n.lex /\ n.lex \in 1..Len(ds) /\ ~ds[n.lex].const

GoodNodes(ds, ns) == \A i \in 1..Len(ns) : GoodNode(ds, ns[i])

Bindings ==
  /\ pass = "scope" => Ascending /\ Declared(tab, decls)
  /\ GoodNodes(decls, ast)

\* A use the pass accepts is bound as C says.
LEMMA UseIsGood ==
  ASSUME NEW t \in Seq(Table), NEW ds \in Seq(DeclType), NEW x,
         scopes \in Seq(Nat), \A i \in 1..Len(scopes) : scopes[i] \in 1..Len(t),
         Ascending, Declared(t, ds), has_sym(t, x)
  PROVE  GoodUse(ds, Use(t, ds, x))
<1> DEFINE l == Lexical(ds, x)
<1>1. /\ l \in 1..Len(ds) /\ ds[l].const = Innermost(t, x).const
      /\ ~Innermost(t, x).const => get_sym_var(t, x) = l
  BY InnermostIsLexical
<1>2. Max(Holders(t, x)) \in Holders(t, x)
  BY InnermostHolder
<1>3. Innermost(t, x).const => sym_is_const(t, x)
  BY <1>2 DEF Innermost, sym_is_const
<1>4. /\ Use(t, ds, x).lex = l
      /\ Use(t, ds, x).var = IF sym_is_const(t, x) THEN NoDecl
                             ELSE get_sym_var(t, x)
  BY DEF Use
<1> HIDE DEF l
<1> QED  BY <1>1, <1>3, <1>4 DEF GoodUse

LEMMA VisitExpGood ==
  ASSUME NEW t \in Seq(Table), NEW ds \in Seq(DeclType), NEW xs \in Exps,
         NEW node \in NodeType, VisitExp(t, ds, node, xs), ast \in Seq(NodeType),
         scopes \in Seq(Nat), \A i \in 1..Len(scopes) : scopes[i] \in 1..Len(t),
         Ascending, Declared(t, ds), GoodNodes(ds, ast),
         node.kind = "assign" =>
           node.at = node.lex /\ node.lex \in 1..Len(ds) /\ ~ds[node.lex].const
  PROVE  GoodNodes(ds, ast')
<1>1. CASE VisitExpThrows(t, xs)
  BY <1>1 DEF VisitExpThrows, GoodNodes
<1>2. CASE VisitExpRecords(t, ds, node, xs)
  <2> DEFINE us == [i \in DOMAIN xs |-> Use(t, ds, xs[i])]
             n == [node EXCEPT !.uses = us]
  <2>1. \A i \in DOMAIN xs : GoodUse(ds, Use(t, ds, xs[i]))
    BY <1>2, UseIsGood DEF VisitExpRecords
  <2>2. DOMAIN xs = 1..Len(xs) /\ Len(xs) \in Nat
    BY ExpsAreSeqs
  <2>3. Len(us) = Len(xs)
    BY <2>2
  <2>4. \A j \in 1..Len(us) : GoodUse(ds, us[j])
    BY <2>1, <2>2, <2>3
  <2> HIDE DEF us
  <2>5. n.uses = us /\ n.kind = node.kind /\ n.at = node.at /\ n.lex = node.lex
    BY DEF NodeType
  <2> HIDE DEF n
  <2>6. GoodNode(ds, n)
    BY <2>4, <2>5 DEF GoodNode
  <2>7. ast' = Append(ast, n)
    BY <1>2 DEF VisitExpRecords, n, us
  <2>8. Len(ast) \in Nat /\ Len(ast') = Len(ast) + 1 /\ ast'[Len(ast) + 1] = n
        /\ \A i \in 1..Len(ast) : ast'[i] = ast[i]
    BY <2>7
  <2>9. \A i \in 1..Len(ast') : i \in 1..Len(ast) \/ i = Len(ast) + 1
    BY <2>8
  <2> QED  BY <2>6, <2>8, <2>9 DEF GoodNodes
<1> QED  BY <1>1, <1>2, VisitExpCases

\* A node without uses that is not an assignment binds nothing.
LEMMA PlainNodeGood ==
  ASSUME NEW ds, NEW kind, NEW n, kind # "assign", ast \in Seq(NodeType),
         GoodNodes(ds, ast)
  PROVE  GoodNodes(ds, Append(ast, Node(kind, n)))
<1> DEFINE new == Node(kind, n)
<1>1. GoodNode(ds, new)
  <2>1. new.uses = <<>> /\ new.kind = kind
    BY DEF Node
  <2> HIDE DEF new
  <2> QED  BY <2>1 DEF GoodNode
<1> HIDE DEF new
<1>2. /\ Len(ast) \in Nat /\ Len(Append(ast, new)) = Len(ast) + 1
      /\ Append(ast, new)[Len(ast) + 1] = new
      /\ \A i \in 1..Len(ast) : Append(ast, new)[i] = ast[i]
  OBVIOUS
<1>3. \A i \in 1..Len(Append(ast, new)) : i \in 1..Len(ast) \/ i = Len(ast) + 1
  BY <1>2
<1>4. GoodNodes(ds, Append(ast, new))
  BY <1>1, <1>2, <1>3 DEF GoodNodes
<1> QED  BY <1>4 DEF new

\* A new declaration changes nothing for the nodes already visited.
LEMMA GoodNodesStay ==
  ASSUME NEW ds \in Seq(DeclType), NEW d \in DeclType, GoodNodes(ds, ast),
         ast \in Seq(NodeType)
  PROVE  GoodNodes(Append(ds, d), ast)
<1> DEFINE es == Append(ds, d)
<1>1. /\ Len(ds) \in Nat /\ Len(es) = Len(ds) + 1
      /\ \A k \in 1..Len(ds) : es[k] = ds[k]
  BY Push
<1> HIDE DEF es
<1>2. ASSUME NEW i \in 1..Len(ast) PROVE GoodNode(es, ast[i])
  <2>1. GoodNode(ds, ast[i])
    BY DEF GoodNodes
  <2>2. \A j \in 1..Len(ast[i].uses) : GoodUse(es, ast[i].uses[j])
    <3> TAKE j \in 1..Len(ast[i].uses)
    <3>1. GoodUse(ds, ast[i].uses[j])
      BY <2>1 DEF GoodNode
    <3>2. /\ ast[i].uses[j].lex \in 1..Len(es)
          /\ es[ast[i].uses[j].lex] = ds[ast[i].uses[j].lex]
      BY <1>1, <3>1 DEF GoodUse
    <3> QED  BY <3>1, <3>2 DEF GoodUse
  <2> QED  BY <1>1, <2>1, <2>2 DEF GoodNode
<1>3. GoodNodes(es, ast)
  BY <1>2 DEF GoodNodes
<1> QED  BY <1>3 DEF es

\* The declarations whose blocks are open, after one more in the current block.
LEMMA DeclaredStays ==
  ASSUME Shape, pass = "scope", Ascending, Declared(tab, decls),
         NEW x \in Names, NEW const \in BOOLEAN, x \notin DOMAIN tab[Cur]
  PROVE  Declared(DeclTab(x, const), Append(decls, DeclRecord(x, const)))
<1> DEFINE t == DeclTab(x, const)
           r == DeclRecord(x, const)
           ds == Append(decls, r)
           n == Len(decls)
<1>1. /\ t \in Seq(Table) /\ Len(t) = Len(tab)
      /\ DOMAIN t[Cur] = DOMAIN tab[Cur] \cup {x}
      /\ t[Cur][x] = DeclEntry(const)
      /\ \A y \in DOMAIN tab[Cur] : y # x => t[Cur][y] = tab[Cur][y]
      /\ \A b \in 1..Len(tab) : b # Cur => t[b] = tab[b]
  BY DeclTables
<1>2. /\ Cur \in 1..Len(tab) /\ decls \in Seq(DeclType) /\ n \in Nat
      /\ Len(tab) \in Nat /\ Len(scopes) \in Nat /\ Len(scopes) > 0
      /\ Cur = scopes[Len(scopes)] /\ scopes \in Seq(Nat)
      /\ \A d \in 1..n : decls[d].block \in 1..Len(tab)
  BY CurrentScope DEF Shape, Typed, InTables
<1>3. r.name = x /\ r.block = Cur /\ r.const = const /\ r \in DeclType
  BY <1>2 DEF DeclRecord, DeclType
<1> HIDE DEF r
<1>4. /\ Len(ds) = n + 1 /\ ds[n + 1] = r
      /\ \A d \in 1..n : ds[d] = decls[d]
  BY <1>2, <1>3, Push
<1>5. /\ DeclEntry(const).const = const
      /\ ~const => DeclEntry(const).var = n + 1
  BY DEF DeclEntry, ConstEntry, VarEntry
<1> HIDE DEF t, ds, n
<1>6. \A b \in 1..Len(t) : \A y \in DOMAIN t[b] :
        \E d \in 1..Len(ds) : EntryOf(t, ds, b, y, d)
  <2> TAKE b \in 1..Len(t)
  <2> TAKE y \in DOMAIN t[b]
  <2>1. CASE b = Cur /\ y = x
    <3>1. n + 1 \in 1..Len(ds)
      BY <1>2, <1>4
    <3>2. EntryOf(t, ds, b, y, n + 1)
      BY <2>1, <1>1, <1>3, <1>4, <1>5 DEF EntryOf
    <3> QED  BY <3>1, <3>2
  <2>2. CASE ~ (b = Cur /\ y = x)
    <3>1. b \in 1..Len(tab) /\ y \in DOMAIN tab[b] /\ t[b][y] = tab[b][y]
      BY <2>2, <1>1
    <3>2. PICK d \in 1..n : EntryOf(tab, decls, b, y, d)
      BY <3>1 DEF Declared, n
    <3>3. d \in 1..Len(ds) /\ EntryOf(t, ds, b, y, d)
      BY <3>1, <3>2, <1>2, <1>4 DEF EntryOf
    <3> QED  BY <3>3
  <2> QED  BY <2>1, <2>2
<1>7. \A d \in 1..Len(ds) : ds[d].name \in DOMAIN t[ds[d].block]
  <2> TAKE d \in 1..Len(ds)
  <2>1. CASE d = n + 1
    BY <2>1, <1>1, <1>3, <1>4
  <2>2. CASE d \in 1..n
    <3>1. decls[d].name \in DOMAIN tab[decls[d].block]
      BY <2>2 DEF Declared, n
    <3>2. ds[d] = decls[d] /\ decls[d].block \in 1..Len(tab)
      BY <2>2, <1>2, <1>4
    <3> QED  BY <3>1, <3>2, <1>1
  <2> QED  BY <2>1, <2>2, <1>2, <1>4
<1>8. \A d \in 1..n : ~ (decls[d].name = x /\ decls[d].block = Cur)
  BY DEF Declared, n
<1>9. \A d, e \in 1..Len(ds) :
        ds[d].name = ds[e].name /\ ds[d].block = ds[e].block => d = e
  <2> TAKE d, e \in 1..Len(ds)
  <2>1. CASE d \in 1..n /\ e \in 1..n
    BY <2>1, <1>4 DEF Declared, n
  <2>2. CASE d = n + 1 /\ e \in 1..n
    BY <2>2, <1>3, <1>4, <1>8
  <2>3. CASE e = n + 1 /\ d \in 1..n
    BY <2>3, <1>3, <1>4, <1>8
  <2>4. d \in 1..n + 1 /\ e \in 1..n + 1
    BY <1>4
  <2> QED  BY <2>1, <2>2, <2>3, <2>4, <1>2
<1>10. \A b \in Open : b <= Cur
  <2> TAKE b \in Open
  <2>1. PICK i \in 1..Len(scopes) : b = scopes[i]
    BY <1>2 DEF Open
  <2>2. i = Len(scopes) \/ i < Len(scopes)
    BY <1>2
  <2>3. scopes[i] \in Nat /\ Cur \in Nat
    BY <1>2
  <2> QED  BY <1>2, <2>1, <2>2, <2>3 DEF Ascending
<1>11. \A d, e \in 1..Len(ds) :
         d < e /\ ds[d].block \in Open /\ ds[e].block \in Open =>
           ds[d].block <= ds[e].block
  <2> TAKE d, e \in 1..Len(ds)
  <2> HAVE d < e /\ ds[d].block \in Open /\ ds[e].block \in Open
  <2>1. CASE e \in 1..n
    <3>1. d \in 1..n
      BY <2>1, <1>2
    <3> QED  BY <2>1, <3>1, <1>4 DEF Declared, n
  <2>2. CASE e = n + 1
    BY <2>2, <1>3, <1>4, <1>10
  <2> QED  BY <2>1, <2>2, <1>2, <1>4
<1> QED  BY <1>6, <1>7, <1>9, <1>11 DEF Declared, t, ds, r

LEMMA Bindings_Init ==
  ASSUME Init PROVE Bindings
<1>1. tab = << <<>> >> /\ decls = <<>> /\ scopes = <<1>>
      /\ ast = <<Node("open", 1)>>
  BY DEF Init
<1>2. Ascending
  BY <1>1 DEF Ascending
<1>3. Declared(tab, decls)
  BY <1>1 DEF Declared
<1>4. GoodNodes(decls, ast)
  <2> DEFINE n == Node("open", 1)
  <2>1. n.uses = <<>> /\ n.kind = "open"
    BY DEF Node
  <2> HIDE DEF n
  <2>2. GoodNode(decls, n)
    BY <2>1 DEF GoodNode
  <2>3. ast = <<n>>
    BY <1>1 DEF n
  <2> QED  BY <2>2, <2>3 DEF GoodNodes
<1> QED  BY <1>2, <1>3, <1>4 DEF Bindings

\* The chain and the tables of a step that leaves the scopes alone.
LEMMA ScopesStay ==
  ASSUME scopes' = scopes, Ascending, Declared(tab', decls')
  PROVE  Ascending' /\ Declared(tab, decls)'
<1>1. Open' = Open
  BY DEF Open
<1>2. Ascending'
  BY DEF Ascending
<1> QED  BY <1>1, <1>2 DEF Declared, EntryOf

\* Steps that leave scopes, tables and declarations alone.
LEMMA Bindings_Same ==
  ASSUME Bindings, pass = "scope", UNCHANGED <<scopes, tab, decls>>,
         GoodNodes(decls, ast')
  PROVE  Bindings'
<1>1. Ascending' /\ Declared(tab, decls)'
  <2>1. Ascending /\ Declared(tab, decls)
    BY DEF Bindings
  <2> QED  BY <2>1, ScopesStay
<1>2. GoodNodes(decls, ast)'
  BY DEF GoodNodes, GoodNode, GoodUse
<1> QED  BY <1>1, <1>2 DEF Bindings

LEMMA Bindings_Exp ==
  ASSUME Shape, Bindings, pass = "scope", UNCHANGED <<scopes, tab, decls>>,
         NEW kind \in {"ret", "exp", "cond"}, NEW xs \in Exps,
         VisitExp(tab, decls, Node(kind, NoDecl), xs)
  PROVE  Bindings'
<1>1. Node(kind, NoDecl) \in NodeType
  BY NodeTyped DEF NoDecl
<1>2. Node(kind, NoDecl).kind # "assign"
  BY DEF Node
<1>3. GoodNodes(decls, ast')
  <2> DEFINE node == Node(kind, NoDecl)
  <2>1. node \in NodeType /\ node.kind # "assign" /\ VisitExp(tab, decls, node, xs)
    BY <1>1, <1>2
  <2> HIDE DEF node
  <2> QED  BY <2>1, VisitExpGood DEF Bindings, Shape, Typed, InTables
<1> QED  BY <1>3, Bindings_Same

LEMMA Bindings_Assign ==
  ASSUME Shape, Bindings, NEW x \in Names, NEW xs \in Exps, Assign(x, xs)
  PROVE  Bindings'
<1>1. pass = "scope" /\ UNCHANGED <<scopes, tab, decls>>
  BY DEF Assign, AtStmt
<1>2. CASE UNCHANGED ast
  BY <1>1, <1>2, Bindings_Same DEF Bindings
<1> DEFINE node == [Node("assign", get_sym_var(tab, x))
                      EXCEPT !.lex = Lexical(decls, x)]
<1>3. CASE /\ has_sym(tab, x) /\ ~sym_is_const(tab, x)
           /\ VisitExp(tab, decls, node, xs)
  <2>1. /\ tab \in Seq(Table) /\ decls \in Seq(DeclType) /\ ast \in Seq(NodeType)
        /\ scopes \in Seq(Nat) /\ Ascending /\ Declared(tab, decls)
        /\ GoodNodes(decls, ast)
        /\ \A i \in 1..Len(scopes) : scopes[i] \in 1..Len(tab)
    BY <1>1 DEF Bindings, Shape, Typed, InTables
  <2>2. Max(Holders(tab, x)) \in Holders(tab, x)
    BY <1>3, <2>1, InnermostHolder
  <2>3. ~Innermost(tab, x).const
    BY <1>3, <2>2 DEF sym_is_const, Innermost
  <2>4. /\ Lexical(decls, x) \in 1..Len(decls)
        /\ ~decls[Lexical(decls, x)].const
        /\ get_sym_var(tab, x) = Lexical(decls, x)
    BY <1>3, <2>1, <2>3, InnermostIsLexical
  <2>5. /\ node.kind = "assign" /\ node.lex = Lexical(decls, x)
        /\ node.at = get_sym_var(tab, x)
    BY DEF Node
  <2>6. node \in NodeType
    <3>1. Node("assign", get_sym_var(tab, x)) \in NodeType
      BY <2>1, <2>4, NodeTyped
    <3>2. Lexical(decls, x) \in Nat
      BY <2>1, <2>4
    <3> QED  BY <3>1, <3>2 DEF NodeType
  <2> HIDE DEF node
  <2>7. GoodNodes(decls, ast')
    BY <1>3, <2>1, <2>4, <2>5, <2>6, VisitExpGood
  <2> QED  BY <1>1, <2>7, Bindings_Same
<1> QED  BY <1>2, <1>3 DEF Assign

LEMMA Bindings_Decl ==
  ASSUME Shape, Bindings, NEW x \in Names, NEW const \in BOOLEAN,
         NEW xs \in Exps, Decl(x, const, xs)
  PROVE  Bindings'
<1> DEFINE t == DeclTab(x, const)
           r == DeclRecord(x, const)
           ds == Append(decls, r)
           node == Node(IF const THEN "const" ELSE "var", Len(decls) + 1)
<1>1. /\ pass = "scope" /\ x \notin DOMAIN tab[Cur] /\ tab' = t /\ decls' = ds
      /\ scopes' = scopes /\ VisitExp(t, ds, node, xs)
  BY DeclCases
<1>2. Ascending /\ Declared(tab, decls) /\ GoodNodes(decls, ast)
  BY <1>1 DEF Bindings
<1>3. Declared(t, ds)
  BY <1>1, <1>2, DeclaredStays
<1>4. /\ t \in Seq(Table) /\ Len(t) = Len(tab)
      /\ scopes \in Seq(Nat) /\ decls \in Seq(DeclType) /\ ast \in Seq(NodeType)
      /\ Len(decls) \in Nat
      /\ \A i \in 1..Len(scopes) : scopes[i] \in 1..Len(t)
  <2>1. t \in Seq(Table) /\ Len(t) = Len(tab)
    BY <1>1, DeclTables
  <2> HIDE DEF t
  <2> QED  BY <2>1 DEF Shape, Typed, InTables
<1>5. r \in DeclType
  BY <1>1, CurrentScope DEF DeclRecord, DeclType
<1>6. ds \in Seq(DeclType) /\ GoodNodes(ds, ast)
  BY <1>2, <1>4, <1>5, Push, GoodNodesStay
<1>7. node \in NodeType
  BY <1>4, NodeTyped
<1>8. node.kind # "assign"
  BY DEF Node
<1> HIDE DEF t, ds, node
<1>9. GoodNodes(ds, ast')
  BY <1>1, <1>2, <1>3, <1>4, <1>6, <1>7, <1>8, VisitExpGood
<1>10. decls' = ds /\ tab' = t /\ scopes' = scopes
  BY <1>1
<1>11. Ascending' /\ Declared(tab, decls)'
  BY <1>2, <1>3, <1>10, ScopesStay
<1>12. GoodNodes(decls, ast)'
  BY <1>9, <1>10
<1> QED  BY <1>11, <1>12 DEF Bindings

LEMMA Bindings_OpenBlock ==
  ASSUME Shape, Bindings, OpenBlock
  PROVE  Bindings'
<1> DEFINE b == Len(tab) + 1
<1>1. /\ pass = "scope" /\ tab' = Append(tab, <<>>)
      /\ scopes' = Append(scopes, b) /\ decls' = decls
      /\ ast' = Append(ast, Node("open", b))
  BY DEF OpenBlock, AtStmt, push_scope
<1>2. /\ tab \in Seq(Table) /\ scopes \in Seq(Nat) /\ decls \in Seq(DeclType)
      /\ ast \in Seq(NodeType) /\ Len(tab) \in Nat /\ Len(scopes) \in Nat
      /\ \A i \in 1..Len(scopes) : scopes[i] \in 1..Len(tab)
      /\ \A d \in 1..Len(decls) : decls[d].block \in 1..Len(tab)
  BY DEF Shape, Typed, InTables
<1>3. Ascending /\ Declared(tab, decls) /\ GoodNodes(decls, ast)
  BY <1>1 DEF Bindings
<1>4. GoodNodes(decls, ast')
  BY <1>1, <1>2, <1>3, PlainNodeGood
<1>5. /\ Len(scopes') = Len(scopes) + 1 /\ scopes'[Len(scopes) + 1] = b
      /\ \A i \in 1..Len(scopes) : scopes'[i] = scopes[i]
      /\ Len(tab') = b /\ tab'[b] = <<>>
      /\ \A c \in 1..Len(tab) : tab'[c] = tab[c]
      /\ DOMAIN scopes = 1..Len(scopes) /\ DOMAIN scopes' = 1..Len(scopes')
  BY <1>1, <1>2
<1> HIDE DEF b
<1>6. Ascending'
  <2> SUFFICES ASSUME NEW i \in 1..Len(scopes'), NEW j \in 1..Len(scopes'), i < j
               PROVE  scopes'[i] < scopes'[j]
    BY DEF Ascending
  <2>1. CASE j = Len(scopes) + 1
    <3>1. i \in 1..Len(scopes) /\ scopes[i] \in 1..Len(tab)
      BY <2>1, <1>2
    <3> QED  BY <2>1, <3>1, <1>2, <1>5 DEF b
  <2>2. CASE j \in 1..Len(scopes)
    <3>1. i \in 1..Len(scopes)
      BY <2>2, <1>2
    <3>2. scopes'[i] = scopes[i] /\ scopes'[j] = scopes[j]
      BY <2>2, <3>1, <1>5
    <3> QED  BY <2>2, <3>1, <3>2, <1>3 DEF Ascending
  <2>3. j = Len(scopes) + 1 \/ j \in 1..Len(scopes)
    <3>1. Len(scopes') = Len(scopes) + 1 /\ Len(scopes) \in Nat
      BY <1>2, <1>5
    <3> QED  BY <3>1
  <2> QED  BY <2>1, <2>2, <2>3
<1>7. \A d \in 1..Len(decls) : decls[d].block \in Open' => decls[d].block \in Open
  <2> TAKE d \in 1..Len(decls)
  <2> HAVE decls[d].block \in Open'
  <2>1. PICK i \in 1..Len(scopes') : decls[d].block = scopes'[i]
    BY <1>5 DEF Open
  <2>2. decls[d].block # b
    BY <1>2 DEF b
  <2>3. i \in 1..Len(scopes)
    BY <2>1, <2>2, <1>2, <1>5
  <2> QED  BY <2>1, <2>3, <1>5 DEF Open
<1>8. \A c \in 1..Len(tab') : \A x \in DOMAIN tab'[c] :
        \E d \in 1..Len(decls) : EntryOf(tab', decls, c, x, d)
  <2> TAKE c \in 1..Len(tab')
  <2> TAKE x \in DOMAIN tab'[c]
  <2>1. c \in 1..Len(tab)
    BY <1>2, <1>5 DEF b
  <2> QED  BY <2>1, <1>3, <1>5 DEF Declared, EntryOf
<1>9. Declared(tab, decls)'
  <2>1. (\A c \in 1..Len(tab) : \A x \in DOMAIN tab[c] :
           \E d \in 1..Len(decls) : EntryOf(tab, decls, c, x, d))'
    <3>1. decls' = decls
      BY <1>1
    <3> QED  BY <3>1, <1>8 DEF EntryOf
  <2>2. (\A d \in 1..Len(decls) : decls[d].name \in DOMAIN tab[decls[d].block])'
    <3>1. \A d \in 1..Len(decls) :
            tab'[decls[d].block] = tab[decls[d].block]
      BY <1>2, <1>5
    <3>2. \A d \in 1..Len(decls) : decls[d].name \in DOMAIN tab[decls[d].block]
      BY <1>3 DEF Declared
    <3>3. decls' = decls
      BY <1>1
    <3> QED  BY <3>1, <3>2, <3>3
  <2>3. (\A d, e \in 1..Len(decls) :
           decls[d].name = decls[e].name /\ decls[d].block = decls[e].block
             => d = e)'
    BY <1>1, <1>3 DEF Declared
  <2>4. (\A d, e \in 1..Len(decls) :
           d < e /\ decls[d].block \in Open /\ decls[e].block \in Open
             => decls[d].block <= decls[e].block)'
    BY <1>1, <1>3, <1>7 DEF Declared
  <2> QED  BY <2>1, <2>2, <2>3, <2>4 DEF Declared
<1>10. GoodNodes(decls, ast)'
  <2>1. decls' = decls
    BY <1>1
  <2> QED  BY <1>4, <2>1
<1> QED  BY <1>6, <1>9, <1>10 DEF Bindings

LEMMA Bindings_CloseBlock ==
  ASSUME Shape, Bindings, CloseBlock
  PROVE  Bindings'
<1>1. /\ pass = "scope" /\ UNCHANGED <<tab, decls>>
      /\ scopes' = SubSeq(scopes, 1, Len(scopes) - 1)
      /\ ast' = Append(ast, Node("close", Cur))
  BY DEF CloseBlock, AtItem, pop_scope
<1>2. /\ scopes \in Seq(Nat) /\ ast \in Seq(NodeType)
      /\ Len(scopes) \in Nat /\ Len(scopes) > 0
  BY <1>1, CurrentScope DEF Shape, Typed
<1>3. Ascending /\ Declared(tab, decls) /\ GoodNodes(decls, ast)
  BY <1>1 DEF Bindings
<1>4. GoodNodes(decls, ast')
  BY <1>1, <1>2, <1>3, PlainNodeGood
<1>5. /\ Len(scopes') = Len(scopes) - 1 /\ scopes' \in Seq(Nat)
      /\ \A i \in 1..Len(scopes') : i \in 1..Len(scopes) /\ scopes'[i] = scopes[i]
  <2>1. /\ Len(scopes') = Len(scopes) - 1 /\ scopes' \in Seq(Nat)
        /\ \A i \in 1..Len(scopes') : scopes'[i] = scopes[i]
    BY <1>1, <1>2, Pop
  <2>2. \A i \in 1..Len(scopes') : i \in 1..Len(scopes)
    BY <1>2, <2>1
  <2> QED  BY <2>1, <2>2
<1>6. Ascending'
  BY <1>3, <1>5 DEF Ascending
<1>7. Open' \subseteq Open
  <2>1. DOMAIN scopes = 1..Len(scopes) /\ DOMAIN scopes' = 1..Len(scopes')
    BY <1>2, <1>5
  <2>2. \A i \in DOMAIN scopes' : i \in DOMAIN scopes /\ scopes'[i] = scopes[i]
    BY <1>5, <2>1
  <2> QED  BY <2>2 DEF Open
<1>8. Declared(tab, decls)'
  <2>1. (\A b \in 1..Len(tab) : \A x \in DOMAIN tab[b] :
           \E d \in 1..Len(decls) : EntryOf(tab, decls, b, x, d))'
    BY <1>1, <1>3 DEF Declared, EntryOf
  <2>2. (\A d \in 1..Len(decls) : decls[d].name \in DOMAIN tab[decls[d].block])'
    BY <1>1, <1>3 DEF Declared
  <2>3. (\A d, e \in 1..Len(decls) :
           decls[d].name = decls[e].name /\ decls[d].block = decls[e].block
             => d = e)'
    BY <1>1, <1>3 DEF Declared
  <2>4. (\A d, e \in 1..Len(decls) :
           d < e /\ decls[d].block \in Open /\ decls[e].block \in Open
             => decls[d].block <= decls[e].block)'
    BY <1>1, <1>3, <1>7 DEF Declared
  <2> QED  BY <2>1, <2>2, <2>3, <2>4 DEF Declared
<1>9. GoodNodes(decls, ast)'
  <2>1. decls' = decls
    BY <1>1
  <2> QED  BY <1>4, <2>1
<1> QED  BY <1>6, <1>8, <1>9 DEF Bindings

LEMMA Bindings_Step ==
  ASSUME Shape, Bindings, [Next]_scopeVars
  PROVE  Bindings'
<1>1. CASE OpenBlock
  BY <1>1, Bindings_OpenBlock
<1>2. CASE CloseBlock
  BY <1>2, Bindings_CloseBlock
<1>3. CASE EndStmt
  BY <1>3, Bindings_Same DEF EndStmt, Bindings
<1>4. CASE BreakOrContinue
  <2>1. /\ pass = "scope" /\ UNCHANGED <<scopes, tab, decls>>
        /\ ast' = ast \/ ast' = Append(ast, Node("jump", NoDecl))
        /\ GoodNodes(decls, ast) /\ ast \in Seq(NodeType)
    BY <1>4 DEF BreakOrContinue, AtStmt, Bindings, Shape, Typed
  <2>2. GoodNodes(decls, ast')
    BY <2>1, PlainNodeGood
  <2> QED  BY <2>1, <2>2, Bindings_Same
<1>5. ASSUME NEW x \in Names, Redefine(x) PROVE Bindings'
  BY <1>5, Bindings_Same DEF Redefine, AtItem, Bindings
<1>6. ASSUME NEW x \in Names, NEW xs \in Exps,
             ConstDecl(x, xs) \/ VarDecl(x, xs)
      PROVE  Bindings'
  BY <1>6, Bindings_Decl DEF ConstDecl, VarDecl
<1>7. ASSUME NEW x \in Names, NEW xs \in Exps, Assign(x, xs) PROVE Bindings'
  BY <1>7, Bindings_Assign
<1>8. ASSUME NEW xs \in Exps, If(xs) \/ While(xs) PROVE Bindings'
  BY <1>8, Bindings_Exp DEF If, While, AtStmt
<1>9. ASSUME NEW kind \in {"ret", "exp"}, NEW xs \in Exps,
             ReturnOrExp(kind, xs)
      PROVE  Bindings'
  BY <1>9, Bindings_Exp DEF ReturnOrExp, AtStmt
<1>10. CASE (\E x \in Names : RenameSym(x)) \/ FinishRename
  <2>1. pass' # "scope" /\ UNCHANGED <<decls, ast>>
    BY <1>10 DEF RenameSym, FinishRename
  <2>2. GoodNodes(decls, ast)'
    BY <2>1 DEF Bindings, GoodNodes, GoodNode, GoodUse
  <2> QED  BY <2>1, <2>2 DEF Bindings
<1>11. CASE UNCHANGED scopeVars
  <2>1. UNCHANGED <<pass, scopes, tab, decls, ast>>
    BY <1>11 DEF scopeVars
  <2>2. pass = "scope" => Ascending' /\ Declared(tab, decls)'
    BY <2>1, ScopesStay DEF Bindings
  <2>3. GoodNodes(decls, ast)'
    BY <2>1 DEF Bindings, GoodNodes, GoodNode, GoodUse
  <2> QED  BY <2>1, <2>2, <2>3 DEF Bindings
<1> QED
  BY <1>1, <1>2, <1>3, <1>4, <1>5, <1>6, <1>7, <1>8, <1>9, <1>10, <1>11
     DEF Next, ScopeNext, ScopeOver

\* The visitor finds what C means: every use and every assignment the pass
\* binds is bound to the declaration that is lexically visible there.
THEOREM BindingIsLexical == Spec => []BindingLexical
<1>1. Init => Shape /\ Recorded /\ Bindings
  BY Start, Bindings_Init
<1>2. Shape /\ Recorded /\ Bindings /\ [Next]_scopeVars
        => (Shape /\ Recorded /\ Bindings)'
  BY Step, Bindings_Step
<1>3. Shape /\ Recorded /\ Bindings => BindingLexical
  <2> SUFFICES ASSUME Shape, Bindings, NEW i \in DOMAIN ast
               PROVE  /\ \A j \in DOMAIN ast[i].uses :
                           LET u == ast[i].uses[j]
                           IN /\ u.lex # NoDecl
                              /\ u.var # NoDecl => u.var = u.lex
                              /\ decls[u.lex].const => u.var = NoDecl
                      /\ ast[i].kind = "assign" =>
                           /\ ast[i].at = ast[i].lex /\ ast[i].lex # NoDecl
                           /\ ~decls[ast[i].lex].const
    BY DEF BindingLexical
  <2>1. i \in 1..Len(ast) /\ ast[i] \in NodeType
    BY DEF Shape, Typed
  <2>2. DOMAIN ast[i].uses = 1..Len(ast[i].uses)
    BY <2>1 DEF NodeType
  <2>3. GoodNode(decls, ast[i])
    BY <2>1 DEF Bindings, GoodNodes
  <2> QED  BY <2>2, <2>3 DEF GoodNode, GoodUse, NoDecl
<1> QED  BY <1>1, <1>2, <1>3, PTL DEF Spec

-----------------------------------------------------------------------------
(* The programs the pass rejects.                                             *)

LEMMA MinOfBounded ==
  ASSUME NEW n \in Nat, NEW S, S \subseteq 0..n, S # {}
  PROVE  Min(S) \in S
<1>1. S \subseteq Nat
  OBVIOUS
<1>2. PICK m \in S : \A y \in S : ~ (<<y, m>> \in OpToRel(<, Nat))
  BY <1>1, WFMin, NatLessThanWellFounded
<1>3. \A y \in S : m <= y
  <2> SUFFICES ASSUME NEW y \in S, ~ (m <= y) PROVE FALSE
    OBVIOUS
  <2>1. ~ (<<y, m>> \in {ss \in Nat \X Nat : ss[1] < ss[2]})
    BY <1>2 DEF OpToRel
  <2>2. m \in Nat /\ y \in Nat
    BY <1>1
  <2> QED  BY <2>1, <2>2
<1> QED  BY <1>3 DEF Min

\* The identifier an expression is rejected for is not declared anywhere it
\* could be seen from.
LEMMA RejectedName ==
  ASSUME NEW t \in Seq(Table), NEW ds \in Seq(DeclType), NEW xs \in Exps,
         scopes \in Seq(Nat), Declared(t, ds), VisitExpThrows(t, xs)
  PROVE  err'.kind = "undefined" /\ Lexical(ds, err'.sym) = NoDecl
<1> DEFINE S == Undefined(t, xs)
<1>1. S \subseteq 0..Len(xs) /\ Len(xs) \in Nat /\ S # {}
  BY ExpsAreSeqs DEF Undefined, VisitExpThrows
<1>2. Min(S) \in S
  BY <1>1, MinOfBounded
<1>3. ~has_sym(t, xs[Min(S)])
  BY <1>2 DEF Undefined
<1> QED  BY <1>3, AbsentIsUndeclared DEF VisitExpThrows

LEMMA Errors_Exp ==
  ASSUME Shape, Bindings, pass = "scope", UNCHANGED <<scopes, decls>>,
         NEW xs \in Exps, NEW node, VisitExp(tab, decls, node, xs)
  PROVE  ErrorsJustified'
<1>1. /\ tab \in Seq(Table) /\ decls \in Seq(DeclType) /\ scopes \in Seq(Nat)
      /\ Declared(tab, decls)
  BY DEF Shape, Typed, Bindings
<1>2. CASE VisitExpThrows(tab, xs)
  <2>1. err'.kind = "undefined" /\ Lexical(decls, err'.sym) = NoDecl
    BY <1>1, <1>2, RejectedName
  <2>2. Lexical(decls, err'.sym) = Lexical(decls, err.sym)'
    BY DEF Lexical, Visible, Open
  <2> QED  BY <2>1, <2>2 DEF ErrorsJustified
<1>3. CASE VisitExpRecords(tab, decls, node, xs)
  BY <1>3 DEF VisitExpRecords, ErrorsJustified
<1> QED  BY <1>2, <1>3, VisitExpCases

LEMMA Errors_Decl ==
  ASSUME Shape, Bindings, NEW x \in Names, NEW const \in BOOLEAN,
         NEW xs \in Exps, Decl(x, const, xs)
  PROVE  ErrorsJustified'
<1> DEFINE t == DeclTab(x, const)
           r == DeclRecord(x, const)
           ds == Append(decls, r)
           node == Node(IF const THEN "const" ELSE "var", Len(decls) + 1)
<1>1. /\ pass = "scope" /\ x \notin DOMAIN tab[Cur] /\ decls' = ds
      /\ scopes' = scopes /\ VisitExp(t, ds, node, xs)
  BY DeclCases
<1>2. Declared(t, ds)
  BY <1>1, DeclaredStays DEF Bindings
<1>3. r \in DeclType
  BY <1>1, CurrentScope DEF DeclRecord, DeclType
<1>4. t \in Seq(Table) /\ ds \in Seq(DeclType) /\ scopes \in Seq(Nat)
  BY <1>1, <1>3, DeclTables, Push DEF Shape, Typed
<1> HIDE DEF t, ds, node
<1>5. CASE VisitExpThrows(t, xs)
  <2>1. err'.kind = "undefined" /\ Lexical(ds, err'.sym) = NoDecl
    BY <1>2, <1>4, <1>5, RejectedName
  <2>2. Lexical(ds, err'.sym) = Lexical(decls, err.sym)'
    BY <1>1 DEF Lexical, Visible, Open
  <2> QED  BY <2>1, <2>2 DEF ErrorsJustified
<1>6. CASE VisitExpRecords(t, ds, node, xs)
  BY <1>1, <1>6 DEF VisitExpRecords, ErrorsJustified
<1> QED  BY <1>1, <1>5, <1>6, VisitExpCases

LEMMA Errors_Step ==
  ASSUME Shape, Loops, Bindings, ErrorsJustified, [Next]_scopeVars
  PROVE  ErrorsJustified'
<1>1. CASE OpenBlock \/ CloseBlock \/ EndStmt
  BY <1>1 DEF OpenBlock, CloseBlock, EndStmt, AtStmt, AtItem, ErrorsJustified
<1>2. CASE BreakOrContinue
  <2>1. CASE ~underWhile /\ Throw("loop control", "none")
    <3>1. pass = "scope" /\ frames' = Entered
      BY <1>2 DEF BreakOrContinue, AtStmt
    <3>2. /\ Entered \in Seq(Frame) /\ Len(Entered) = Len(frames)
          /\ \A i \in 1..Len(frames) : Entered[i].kind = frames[i].kind
      BY <3>1, EnteredFrames
    <3>3. ~WhileAmong(frames, Len(frames))
      BY <2>1, <3>1 DEF Loops
    <3>4. \A i \in DOMAIN frames' : frames'[i].kind # "while"
      BY <3>1, <3>2, <3>3 DEF WhileAmong
    <3>5. err'.kind = "loop control"
      BY <2>1 DEF Throw
    <3> QED  BY <3>4, <3>5 DEF ErrorsJustified
  <2>2. CASE UNCHANGED <<pass, err>>
    BY <1>2, <2>2 DEF BreakOrContinue, AtStmt, ErrorsJustified
  <2> QED  BY <1>2, <2>1, <2>2 DEF BreakOrContinue
<1>3. ASSUME NEW x \in Names, Redefine(x) PROVE ErrorsJustified'
  <2>1. /\ pass = "scope" /\ x \in DOMAIN tab[Cur] /\ UNCHANGED <<scopes, decls>>
        /\ err' = [kind |-> "redefined", sym |-> x]
    BY <1>3 DEF Redefine, AtItem, Throw
  <2>2. Cur \in 1..Len(tab) /\ DOMAIN decls = 1..Len(decls)
    BY <2>1, CurrentScope DEF Shape, Typed
  <2>3. PICK d \in 1..Len(decls) : EntryOf(tab, decls, Cur, x, d)
    BY <2>1, <2>2 DEF Bindings, Declared
  <2>4. decls[d].name = x /\ decls[d].block = Cur
    BY <2>3 DEF EntryOf
  <2>5. Cur' = Cur
    BY <2>1 DEF Cur
  <2> QED  BY <2>1, <2>2, <2>4, <2>5 DEF ErrorsJustified
<1>4. ASSUME NEW x \in Names, NEW xs \in Exps,
             ConstDecl(x, xs) \/ VarDecl(x, xs)
      PROVE  ErrorsJustified'
  BY <1>4, Errors_Decl DEF ConstDecl, VarDecl
<1>5. ASSUME NEW x \in Names, NEW xs \in Exps, Assign(x, xs)
      PROVE  ErrorsJustified'
  <2>1. /\ pass = "scope" /\ UNCHANGED <<scopes, decls, tab>>
        /\ tab \in Seq(Table) /\ decls \in Seq(DeclType) /\ scopes \in Seq(Nat)
        /\ Declared(tab, decls)
    BY <1>5 DEF Assign, AtStmt, Shape, Typed, Bindings
  <2>2. CASE ~has_sym(tab, x) /\ Throw("undefined", x)
    <3>1. Lexical(decls, x) = NoDecl
      BY <2>1, <2>2, AbsentIsUndeclared
    <3>2. Lexical(decls, x)' = Lexical(decls, x)
      BY <2>1 DEF Lexical, Visible, Open
    <3>3. err'.kind = "undefined" /\ err'.sym = x
      BY <2>2 DEF Throw
    <3>4. Lexical(decls, err.sym)' = Lexical(decls, x)'
      BY <3>3 DEF Lexical, Visible, Open
    <3> QED  BY <3>1, <3>2, <3>3, <3>4 DEF ErrorsJustified
  <2>3. CASE Throw("const lval", x)
    BY <2>3 DEF Throw, ErrorsJustified
  <2>4. CASE VisitExp(tab, decls, [Node("assign", get_sym_var(tab, x))
                                     EXCEPT !.lex = Lexical(decls, x)], xs)
    BY <2>1, <2>4, Errors_Exp
  <2> QED  BY <1>5, <2>2, <2>3, <2>4 DEF Assign
<1>6. ASSUME NEW xs \in Exps, If(xs) \/ While(xs) PROVE ErrorsJustified'
  BY <1>6, Errors_Exp DEF If, While, AtStmt
<1>7. ASSUME NEW kind \in {"ret", "exp"}, NEW xs \in Exps,
             ReturnOrExp(kind, xs)
      PROVE  ErrorsJustified'
  BY <1>7, Errors_Exp DEF ReturnOrExp, AtStmt
<1>8. CASE (\E x \in Names : RenameSym(x)) \/ FinishRename
  BY <1>8 DEF RenameSym, FinishRename, ErrorsJustified
<1>9. CASE UNCHANGED scopeVars
  BY <1>9 DEF scopeVars, ErrorsJustified, Lexical, Visible, Open, Cur
<1> QED
  BY <1>1, <1>2, <1>3, <1>4, <1>5, <1>6, <1>7, <1>8, <1>9
     DEF Next, ScopeNext, ScopeOver

\* A program is rejected for an undefined or a redefined name, or for a break
\* outside a loop, only if it has that error.
THEOREM RejectionsAreJustified == Spec => []ErrorsJustified
<1> DEFINE Inv == Shape /\ Recorded /\ Loops /\ Bindings /\ ErrorsJustified
<1>1. Init => Inv
  BY Start, Loops_Init, Bindings_Init DEF Init, ErrorsJustified
<1>2. Inv /\ [Next]_scopeVars => Inv'
  BY Step, Loops_Step, Bindings_Step, Errors_Step
<1> QED  BY <1>1, <1>2, PTL DEF Spec

-----------------------------------------------------------------------------
(* The renaming. The record has, for each name, the block of each variable of *)
(* that name once; a declaration stays in the table of its block, under its   *)
(* new name from the turn of that name on.                                    *)

RecordOf(rec, ds) ==
  /\ \A x \in Names : Len(rec[x]) <= Len(ds)
  /\ \A x \in Names : \A i \in 1..Len(rec[x]) : \E d \in 1..Len(ds) :
       ds[d].name = x /\ ds[d].block = rec[x][i] /\ ~ds[d].const
  /\ \A d \in 1..Len(ds) : ~ds[d].const =>
       \E i \in 1..Len(rec[ds[d].name]) : rec[ds[d].name][i] = ds[d].block
  /\ \A x \in Names : \A i, j \in 1..Len(rec[x]) : rec[x][i] = rec[x][j] => i = j

Distinct(ds) ==
  \A d, e \in 1..Len(ds) :
    ds[d].name = ds[e].name /\ ds[d].block = ds[e].block => d = e

\* Declaration d is called n now, and its block's table has it under n.
KeptAs(d, n) ==
  LET t == tab[decls[d].block]
  IN /\ ident[d] = n /\ n \in DOMAIN t /\ t[n].const = decls[d].const
     /\ ~decls[d].const => t[n].var = d

\* What d is to be called once the names that are not pending are done.
NameNow(d) ==
  LET x == decls[d].name
  IN IF decls[d].const \/ x \in pending \/ Len(record[x]) <= 1 THEN x
     ELSE Renamed(x, Turn(x, decls[d].block))

Renames ==
  /\ pass = "scope" =>
       /\ RecordOf(record, decls)
       /\ \A d \in 1..Len(decls) : ident[d] = decls[d].name
  /\ pass = "rename" =>
       /\ RecordOf(record, decls) /\ Distinct(decls)
       /\ \A x \in pending : Len(record[x]) > 1
       /\ CleanNames => \A d \in 1..Len(decls) : KeptAs(d, NameNow(d))
  /\ RenamedUnique /\ TablesKeepDecls

\* Different names are never renamed to the same.
LEMMA RenamedApart ==
  ASSUME NEW x \in Ident, NEW y \in Ident, NEW m \in Nat, NEW n \in Nat,
         Renamed(x, m) = Renamed(y, n)
  PROVE  x = y
<1>1. PICK a \in Base, s \in Seq(Nat) : x = [base |-> a, sfx |-> s]
  BY DEF Ident
<1>2. PICK b \in Base, t \in Seq(Nat) : y = [base |-> b, sfx |-> t]
  BY DEF Ident
<1>3. a = b /\ Append(s, m) = Append(t, n)
  <2>1. Renamed(x, m).base = a /\ Renamed(x, m).sfx = Append(s, m)
    BY <1>1 DEF Renamed
  <2>2. Renamed(y, n).base = b /\ Renamed(y, n).sfx = Append(t, n)
    BY <1>2 DEF Renamed
  <2> QED  BY <2>1, <2>2
<1>4. s = t
  BY <1>3, AppendInjective
<1> QED  BY <1>1, <1>2, <1>3, <1>4

\* A table is renamed in the turn of its place in the record.
LEMMA TurnIs ==
  ASSUME Shape, RecordOf(record, decls), NEW x \in Names,
         NEW i \in 1..Len(record[x])
  PROVE  Turn(x, record[x][i]) = i
<1> DEFINE b == record[x][i]
           S == {j \in DOMAIN record[x] : record[x][j] = b} \cup {0}
<1>1. record[x] \in Seq(Nat) /\ DOMAIN record[x] = 1..Len(record[x])
      /\ Len(record[x]) \in Nat
  BY DEF Shape, Typed
<1>2. S \subseteq 0..Len(record[x]) /\ i \in S
  BY <1>1
<1>3. Max(S) \in S /\ i <= Max(S)
  <2> HIDE DEF S
  <2>1. S # {}
    BY <1>2
  <2> QED  BY <1>1, <1>2, <2>1, MaxOfBounded
<1>4. Turn(x, b) = Max(S)
  BY DEF Turn
<1>5. Max(S) \in 1..Len(record[x]) /\ record[x][Max(S)] = record[x][i]
  <2> DEFINE m == Max(S)
  <2>1. m \in S /\ i <= m /\ i \in 1..Len(record[x])
    BY <1>3
  <2> HIDE DEF m
  <2>2. m # 0
    BY <2>1
  <2>3. m \in DOMAIN record[x] /\ record[x][m] = b
    BY <2>1, <2>2
  <2>4. m \in 1..Len(record[x])
    BY <1>1, <2>3
  <2>5. record[x][m] = record[x][i]
    BY <2>3
  <2> QED  BY <2>4, <2>5 DEF m
<1> HIDE DEF S
<1> QED  BY <1>4, <1>5 DEF RecordOf

-----------------------------------------------------------------------------

LEMMA Renames_Same ==
  ASSUME Renames, pass = "scope", pass' \in {"scope", "throw"},
         UNCHANGED <<record, decls, ident>>
  PROVE  Renames'
BY DEF Renames, RecordOf, RenamedUnique, TablesKeepDecls

LEMMA Renames_Decl ==
  ASSUME Shape, Bindings, Renames, NEW x \in Names, NEW const \in BOOLEAN,
         NEW xs \in Exps, Decl(x, const, xs),
         IF const THEN record' = record
         ELSE record' = [record EXCEPT ![x] = Append(@, Cur)]
  PROVE  Renames'
<1> DEFINE r == DeclRecord(x, const)
           ds == Append(decls, r)
           n == Len(decls)
<1>1. /\ pass = "scope" /\ decls' = ds /\ ident' = Append(ident, x)
      /\ x \notin DOMAIN tab[Cur]
  BY DeclCases
<1>2. pass' \in {"scope", "throw"}
  <2>1. VisitExp(DeclTab(x, const), ds,
                 Node(IF const THEN "const" ELSE "var", Len(decls) + 1), xs)
    BY DeclCases
  <2> QED  BY <1>1, <2>1, VisitExpCases DEF VisitExpThrows, VisitExpRecords
<1>3. /\ decls \in Seq(DeclType) /\ n \in Nat /\ Cur \in Nat
      /\ record \in [Names -> Seq(Nat)] /\ ident \in Seq(Ident)
      /\ Len(ident) = n /\ x \in Ident
      /\ \A d \in 1..n : decls[d].name \in Names
  <2>1. decls \in Seq(DeclType) /\ Len(decls) \in Nat
    BY DEF Shape, Typed
  <2>2. \A d \in 1..n : decls[d] \in DeclType
    BY <2>1
  <2> QED  BY <1>1, <2>1, <2>2, CurrentScope, NamesAssumption
              DEF Shape, Typed, DeclType
<1>4. r.name = x /\ r.block = Cur /\ r.const = const /\ r \in DeclType
  BY <1>3 DEF DeclRecord, DeclType
<1> HIDE DEF r
<1>5. /\ Len(ds) = n + 1 /\ ds[n + 1] = r
      /\ \A d \in 1..n : ds[d] = decls[d]
  BY <1>3, <1>4, Push
<1>6. \A d \in 1..n : ~ (decls[d].name = x /\ decls[d].block = Cur)
  BY <1>1 DEF Bindings, Declared
<1>7. \A d \in 1..n + 1 : ident'[d] = ds[d].name
  <2>1. /\ ident'[n + 1] = x /\ \A d \in 1..n : ident'[d] = ident[d]
    BY <1>1, <1>3, Push
  <2>2. \A d \in 1..n : ident[d] = decls[d].name
    BY <1>1 DEF Renames
  <2>3. \A d \in 1..n + 1 : d \in 1..n \/ d = n + 1
    BY <1>3
  <2> QED  BY <1>4, <1>5, <2>1, <2>2, <2>3
<1> DEFINE a == Append(record[x], Cur)
<1>8. /\ Len(a) = Len(record[x]) + 1 /\ a[Len(record[x]) + 1] = Cur
      /\ \A i \in 1..Len(record[x]) : a[i] = record[x][i]
      /\ \A y \in Names : Len(record[y]) \in Nat
      /\ ~const => record'[x] = a
      /\ \A y \in Names : y # x \/ const => record'[y] = record[y]
  <2>1. record[x] \in Seq(Nat) /\ \A y \in Names : Len(record[y]) \in Nat
    BY <1>3
  <2>2. /\ Len(a) = Len(record[x]) + 1 /\ a[Len(record[x]) + 1] = Cur
        /\ \A i \in 1..Len(record[x]) : a[i] = record[x][i]
    BY <1>3, <2>1, Push
  <2> HIDE DEF a
  <2>3. /\ ~const => record' = [record EXCEPT ![x] = a]
        /\ const => record' = record
    BY DEF a
  <2> QED  BY <1>3, <2>1, <2>2, <2>3
<1>9. RecordOf(record, decls)
  BY <1>1 DEF Renames
<1> HIDE DEF ds, a, n
<1>10. ASSUME NEW y \in Names
       PROVE  /\ Len(record'[y]) <= n + 1
              /\ \A i \in 1..Len(record'[y]) : \E d \in 1..n + 1 :
                   ds[d].name = y /\ ds[d].block = record'[y][i] /\ ~ds[d].const
              /\ \A i, j \in 1..Len(record'[y]) :
                   record'[y][i] = record'[y][j] => i = j
  <2>1. /\ Len(record[y]) <= n /\ Len(record[y]) \in Nat
        /\ \A i \in 1..Len(record[y]) : \E d \in 1..n :
             /\ decls[d].name = y /\ decls[d].block = record[y][i]
             /\ ~decls[d].const
        /\ \A i, j \in 1..Len(record[y]) : record[y][i] = record[y][j] => i = j
    BY <1>8, <1>9 DEF RecordOf, n
  <2>2. \A i \in 1..Len(record[y]) : \E d \in 1..n + 1 :
          ds[d].name = y /\ ds[d].block = record[y][i] /\ ~ds[d].const
    <3> TAKE i \in 1..Len(record[y])
    <3>1. PICK d \in 1..n : /\ decls[d].name = y /\ decls[d].block = record[y][i]
                            /\ ~decls[d].const
      BY <2>1
    <3>2. d \in 1..n + 1
      BY <1>3
    <3>3. ds[d] = decls[d]
      BY <1>5
    <3> QED  BY <3>1, <3>2, <3>3
  <2>3. CASE y # x \/ const
    <3>1. record'[y] = record[y]
      BY <1>8, <2>3
    <3>2. Len(record[y]) <= n + 1
      BY <1>3, <2>1
    <3> QED  BY <2>1, <2>2, <3>1, <3>2
  <2>4. CASE y = x /\ ~const
    <3> DEFINE m == Len(record[x])
    <3>1. /\ record'[y] = a /\ Len(a) = m + 1 /\ m \in Nat /\ m <= n
          /\ \A i \in 1..m + 1 : i \in 1..m \/ i = m + 1
      BY <1>8, <2>1, <2>4
    <3>2. a[m + 1] = Cur /\ \A i \in 1..m : a[i] = record[x][i] /\ a[i] # Cur
      BY <1>6, <1>8, <2>1, <2>4
    <3> HIDE DEF m
    <3>3. n + 1 \in 1..n + 1 /\ ds[n + 1] = r
      BY <1>3, <1>5
    <3>4. \A i \in 1..m + 1 : \E d \in 1..n + 1 :
            ds[d].name = y /\ ds[d].block = a[i] /\ ~ds[d].const
      <4> TAKE i \in 1..m + 1
      <4>1. CASE i = m + 1
        BY <1>4, <2>4, <3>2, <3>3, <4>1
      <4>2. CASE i \in 1..m
        <5>1. a[i] = record[y][i] /\ i \in 1..Len(record[y])
          BY <2>4, <3>2, <4>2 DEF m
        <5> QED  BY <2>2, <5>1
      <4> QED  BY <3>1, <4>1, <4>2
    <3>5. \A i, j \in 1..m + 1 : a[i] = a[j] => i = j
      BY <2>1, <2>4, <3>1, <3>2 DEF m
    <3> QED  BY <1>3, <3>1, <3>4, <3>5
  <2> QED  BY <2>3, <2>4
<1>11. ASSUME NEW d \in 1..n + 1, ~ds[d].const
       PROVE  \E i \in 1..Len(record'[ds[d].name]) :
                record'[ds[d].name][i] = ds[d].block
  <2>1. CASE d = n + 1
    <3>1. Len(a) \in 1..Len(a) /\ a[Len(a)] = Cur
      BY <1>8
    <3> QED  BY <1>4, <1>5, <1>8, <1>11, <2>1, <3>1
  <2>2. CASE d \in 1..n
    <3> DEFINE y == decls[d].name
    <3>1. ds[d] = decls[d] /\ y \in Names
      BY <1>3, <1>5, <2>2
    <3>2. PICK i \in 1..Len(record[y]) : record[y][i] = decls[d].block
      BY <1>9, <1>11, <2>2, <3>1 DEF RecordOf, n
    <3> HIDE DEF y
    <3>3. i \in 1..Len(record'[y]) /\ record'[y][i] = record[y][i]
      BY <1>8, <3>1
    <3> QED  BY <3>1, <3>2, <3>3 DEF y
  <2> QED  BY <1>3, <2>1, <2>2
<1>12. decls' = ds /\ Len(ds) = n + 1
  BY <1>1, <1>5 DEF ds, n
<1>13. RecordOf(record', decls')
  <2>1. /\ \A y \in Names : Len(record'[y]) <= Len(decls')
        /\ \A y \in Names : \A i \in 1..Len(record'[y]) :
             \E d \in 1..Len(decls') :
               /\ decls'[d].name = y /\ decls'[d].block = record'[y][i]
               /\ ~decls'[d].const
        /\ \A y \in Names : \A i, j \in 1..Len(record'[y]) :
             record'[y][i] = record'[y][j] => i = j
    BY <1>10, <1>12
  <2>2. \A d \in 1..Len(decls') : ~decls'[d].const =>
          \E i \in 1..Len(record'[decls'[d].name]) :
            record'[decls'[d].name][i] = decls'[d].block
    BY <1>11, <1>12
  <2> QED  BY <2>1, <2>2 DEF RecordOf
<1>14. \A d \in 1..Len(decls') : ident'[d] = decls'[d].name
  BY <1>7, <1>12
<1>15. RenamedUnique' /\ TablesKeepDecls'
  BY <1>2 DEF RenamedUnique, TablesKeepDecls
<1> QED
  BY <1>2, <1>13, <1>14, <1>15 DEF Renames, RecordOf

LEMMA Renames_Init ==
  ASSUME Init PROVE Renames
<1>1. /\ pass = "scope" /\ record = [x \in Names |-> <<>>] /\ decls = <<>>
      /\ ident = <<>>
  BY DEF Init
<1>2. Len(decls) = 0 /\ \A x \in Names : Len(record[x]) = 0
  BY <1>1
<1>3. RecordOf(record, decls)
  BY <1>2 DEF RecordOf
<1> QED
  BY <1>1, <1>2, <1>3 DEF Renames, RenamedUnique, TablesKeepDecls

\* The walk of the tree ends with each table as it was filled.
LEMMA Renames_CloseBlock ==
  ASSUME Shape, Bindings, Renames, CloseBlock
  PROVE  Renames'
<1>1. /\ pass = "scope" /\ UNCHANGED <<record, tab, decls, ident>>
  BY DEF CloseBlock, AtItem
<1>2. CASE UNCHANGED <<pass, pending>>
  BY <1>1, <1>2, Renames_Same
<1>3. CASE /\ pass' = "rename"
           /\ pending' = {x \in Names : Len(record[x]) > 1}
  <2>1. RecordOf(record, decls) /\ \A d \in 1..Len(decls) : ident[d] = decls[d].name
    BY <1>1 DEF Renames
  <2>2. Declared(tab, decls)
    BY <1>1 DEF Bindings
  <2>3. Distinct(decls)
    BY <2>2 DEF Declared, Distinct
  <2>4. ASSUME NEW d \in 1..Len(decls)
        PROVE  KeptAs(d, NameNow(d))'
    <3> DEFINE x == decls[d].name
               b == decls[d].block
    <3>1. x \in Names /\ b \in 1..Len(tab)
      <4>1. decls[d] \in DeclType
        BY DEF Shape, Typed
      <4> QED  BY <4>1 DEF DeclType, Shape, InTables
    <3>2. x \in DOMAIN tab[b]
      BY <2>2 DEF Declared
    <3>3. PICK e \in 1..Len(decls) : EntryOf(tab, decls, b, x, e)
      BY <2>2, <3>1, <3>2 DEF Declared
    <3>4. e = d
      BY <2>3, <3>3 DEF EntryOf, Distinct
    <3>5. ident'[d] = x /\ decls' = decls /\ tab' = tab /\ record' = record
      BY <1>1, <2>1
    <3>6. NameNow(d)' = x
      <4>1. x \in pending' \/ ~ (Len(record'[x]) > 1)
        BY <1>3, <3>1, <3>5
      <4>2. x \notin pending' => Len(record'[x]) <= 1
        <5>1. Len(record[x]) \in Nat
          BY <3>1 DEF Shape, Typed
        <5> QED  BY <3>5, <4>1, <5>1
      <4> QED  BY <3>5, <4>2 DEF NameNow
    <3>7. /\ tab'[decls'[d].block][x].const = decls'[d].const
          /\ ~decls'[d].const => tab'[decls'[d].block][x].var = d
      BY <3>3, <3>4, <3>5 DEF EntryOf
    <3> QED  BY <3>2, <3>5, <3>6, <3>7 DEF KeptAs
  <2>5. RenamedUnique' /\ TablesKeepDecls'
    BY <1>3 DEF RenamedUnique, TablesKeepDecls
  <2> QED
    BY <1>1, <1>3, <2>1, <2>3, <2>4, <2>5 DEF Renames, RecordOf, Distinct
<1> QED  BY <1>2, <1>3 DEF CloseBlock

\* Once no name is pending, the variables are told apart by their names: one
\* name stands at one place of one record, and that is one block.
LEMMA DoneRenaming ==
  ASSUME Shape, Renames, pass = "rename", pending = {}, CleanNames
  PROVE  /\ \A d \in 1..Len(decls) : KeptAs(d, ident[d])
         /\ \A d, e \in 1..Len(decls) :
              ~decls[d].const /\ ~decls[e].const /\ ident[d] = ident[e] => d = e
<1>1. /\ \A d \in 1..Len(decls) : KeptAs(d, NameNow(d))
      /\ RecordOf(record, decls) /\ Distinct(decls)
  BY DEF Renames
<1>2. \A d \in 1..Len(decls) : ident[d] = NameNow(d)
  BY <1>1 DEF KeptAs
<1>3. ASSUME NEW d \in 1..Len(decls), NEW e \in 1..Len(decls),
             ~decls[d].const, ~decls[e].const, ident[d] = ident[e]
      PROVE  d = e
  <2> DEFINE x == decls[d].name
             y == decls[e].name
             m == Turn(x, decls[d].block)
             n == Turn(y, decls[e].block)
  <2>1. x \in Names /\ y \in Names /\ x \in Ident /\ y \in Ident
    <3>1. decls[d] \in DeclType /\ decls[e] \in DeclType
      BY DEF Shape, Typed
    <3> QED  BY <3>1, NamesAssumption DEF DeclType
  <2>2. /\ Len(record[x]) \in Nat /\ Len(record[y]) \in Nat
        /\ Len(decls) \in Nat
    BY <2>1 DEF Shape, Typed
  <2>3. PICK i \in 1..Len(record[x]) : record[x][i] = decls[d].block
    BY <1>1, <1>3 DEF RecordOf
  <2>4. PICK j \in 1..Len(record[y]) : record[y][j] = decls[e].block
    BY <1>1, <1>3 DEF RecordOf
  <2>5. m = i /\ n = j
    <3>1. Turn(x, record[x][i]) = i
      BY <1>1, <2>1, TurnIs
    <3>2. Turn(y, record[y][j]) = j
      BY <1>1, <2>1, TurnIs
    <3> QED  BY <2>3, <2>4, <3>1, <3>2
  <2>6. /\ NameNow(d) = IF Len(record[x]) <= 1 THEN x ELSE Renamed(x, m)
        /\ NameNow(e) = IF Len(record[y]) <= 1 THEN y ELSE Renamed(y, n)
    BY <1>3 DEF NameNow
  <2>7. m \in 1..Len(decls) /\ n \in 1..Len(decls) /\ m \in Nat /\ n \in Nat
    <3>1. Len(record[x]) <= Len(decls) /\ Len(record[y]) <= Len(decls)
      BY <1>1, <2>1 DEF RecordOf
    <3> HIDE DEF m, n
    <3> QED  BY <2>2, <2>5, <3>1
  <2>8. x # Renamed(y, n) /\ y # Renamed(x, m)
    <3>1. DOMAIN decls = 1..Len(decls)
      BY DEF Shape, Typed
    <3> HIDE DEF m, n
    <3> QED  BY <2>7, <3>1 DEF CleanNames
  <2>9. x = y
    <3>1. Renamed(x, m) = Renamed(y, n) => x = y
      BY <2>1, <2>7, RenamedApart
    <3>2. NameNow(d) = NameNow(e)
      BY <1>2, <1>3
    <3> QED  BY <2>6, <2>8, <3>1, <3>2
  <2>10. m = n
    <3>1. CASE Len(record[x]) <= 1
      <4> HIDE DEF m, n
      <4> QED  BY <2>2, <2>5, <2>9, <3>1
    <3>2. CASE ~ (Len(record[x]) <= 1)
      <4>1. Renamed(x, m) = Renamed(x, n)
        BY <1>2, <1>3, <2>6, <2>9, <3>2
      <4>2. PICK a \in Base, s \in Seq(Nat) : x = [base |-> a, sfx |-> s]
        BY <2>1 DEF Ident
      <4>3. Renamed(x, m).sfx = Append(s, m) /\ Renamed(x, n).sfx = Append(s, n)
        <5> HIDE DEF m, n, x
        <5> QED  BY <4>2 DEF Renamed
      <4>4. Append(s, m) = Append(s, n)
        BY <4>1, <4>3
      <4>5. m = n
        <5> HIDE DEF m, n
        <5> QED  BY <2>7, <4>2, <4>4, AppendInjective
      <4> QED  BY <4>5
    <3> QED  BY <3>1, <3>2
  <2>11. decls[d].block = decls[e].block
    BY <2>3, <2>4, <2>5, <2>9, <2>10
  <2> QED  BY <1>1, <2>9, <2>11 DEF Distinct
<1> QED  BY <1>1, <1>2, <1>3

LEMMA Renames_FinishRename ==
  ASSUME Shape, Renames, FinishRename
  PROVE  Renames'
<1>1. /\ pass = "rename" /\ pending = {} /\ pass' = "replay"
      /\ UNCHANGED <<tab, decls, ident>>
  BY DEF FinishRename
<1>2. DOMAIN decls = 1..Len(decls)
  BY DEF Shape, Typed
<1>3. CleanNames' => CleanNames
  BY <1>1 DEF CleanNames
<1>4. RenamedUnique'
  BY <1>1, <1>2, <1>3, DoneRenaming DEF RenamedUnique
<1>5. TablesKeepDecls'
  BY <1>1, <1>2, <1>3, DoneRenaming DEF TablesKeepDecls, KeptAs
<1> QED  BY <1>1, <1>4, <1>5 DEF Renames

\* A table that is renamed for x holds the variable declared there as x.
LEMMA RenamingDeclared ==
  ASSUME Shape, Renames, CleanNames, pass = "rename", NEW x \in pending,
         NEW b \in Renaming(x)
  PROVE  /\ Turn(x, b) \in 1..Len(decls)
         /\ \E e \in 1..Len(decls) :
              /\ decls[e].name = x /\ ~decls[e].const /\ decls[e].block = b
              /\ tab[b][x].var = e
<1>1. /\ \A e \in 1..Len(decls) : KeptAs(e, NameNow(e))
      /\ RecordOf(record, decls) /\ x \in Names
  BY DEF Renames, Shape, Typed
<1> DEFINE i == Turn(x, b)
<1>2. i # 0
  BY DEF Renaming
<1>3. i \in 1..Len(record[x]) /\ record[x][i] = b
  BY <1>1, <1>2, TurnTyped
<1> HIDE DEF i
<1>4. PICK e \in 1..Len(decls) :
        decls[e].name = x /\ decls[e].block = b /\ ~decls[e].const
  BY <1>1, <1>3 DEF RecordOf
<1>5. NameNow(e) = x
  BY <1>4 DEF NameNow
<1>6. tab[b][x].var = e
  BY <1>1, <1>4, <1>5 DEF KeptAs
<1>7. i \in 1..Len(decls)
  <2>1. /\ Len(record[x]) <= Len(decls) /\ Len(record[x]) \in Nat
        /\ Len(decls) \in Nat
    BY <1>1 DEF RecordOf, Shape, Typed
  <2> QED  BY <1>3, <2>1
<1> QED  BY <1>4, <1>6, <1>7 DEF i

\* A table in which a variable was declared as x is renamed for x.
LEMMA DeclaredRenaming ==
  ASSUME Shape, RecordOf(record, decls), NEW d \in 1..Len(decls),
         ~decls[d].const
  PROVE  LET x == decls[d].name
             b == decls[d].block
         IN /\ x \in Names /\ b \in Renaming(x)
            /\ Turn(x, b) \in 1..Len(decls) /\ Turn(x, b) \in Nat
<1> DEFINE x == decls[d].name
           b == decls[d].block
<1>1. x \in Names /\ b \in 1..Len(tab) /\ DOMAIN tab = 1..Len(tab)
  <2>1. decls[d] \in DeclType
    BY DEF Shape, Typed
  <2> QED  BY <2>1 DEF DeclType, Shape, Typed, InTables
<1>2. PICK i \in 1..Len(record[x]) : record[x][i] = b
  BY DEF RecordOf
<1>3. Turn(x, b) = i
  <2>1. Turn(x, record[x][i]) = i
    BY <1>1, TurnIs
  <2> QED  BY <1>2, <2>1
<1>4. i \in 1..Len(decls) /\ i # 0 /\ i \in Nat
  <2>1. /\ Len(record[x]) <= Len(decls) /\ Len(record[x]) \in Nat
        /\ Len(decls) \in Nat
    BY <1>1 DEF RecordOf, Shape, Typed
  <2> HIDE DEF x
  <2> QED  BY <2>1
<1>5. b \in Renaming(x)
  BY <1>1, <1>3, <1>4 DEF Renaming
<1> QED  BY <1>1, <1>3, <1>4, <1>5

\* What the renaming of x does to one declaration: one of another name, or a
\* constant, is left alone, and a variable of that name gets its new one.
LEMMA SetIdent ==
  ASSUME Shape, Recorded, Renames, CleanNames, NEW x \in pending,
         pass = "rename", NEW d \in 1..Len(decls)
  PROVE  set_ident(x, d) =
           IF decls[d].name = x /\ ~decls[d].const
           THEN Renamed(x, Turn(x, decls[d].block)) ELSE ident[d]
<1>1. /\ \A e \in 1..Len(decls) : KeptAs(e, NameNow(e))
      /\ RecordOf(record, decls) /\ Distinct(decls) /\ x \in Names
  BY DEF Renames, Shape, Typed
<1> DEFINE Mine == {b \in Renaming(x) : tab[b][x].var = d}
<1>2. \A b \in Renaming(x) : \E e \in 1..Len(decls) :
        /\ decls[e].name = x /\ ~decls[e].const /\ decls[e].block = b
        /\ tab[b][x].var = e
  BY RenamingDeclared
<1>3. CASE decls[d].name = x /\ ~decls[d].const
  <2> DEFINE b == decls[d].block
  <2>1. b \in Renaming(x)
    BY <1>1, <1>3, DeclaredRenaming
  <2>2. \A c \in Renaming(x) : tab[c][x].var = d => c = b
    BY <1>2
  <2>3. tab[b][x].var = d
    <3>1. PICK e \in 1..Len(decls) :
            /\ decls[e].name = x /\ ~decls[e].const /\ decls[e].block = b
            /\ tab[b][x].var = e
      BY <1>2, <2>1
    <3>2. e = d
      BY <1>1, <1>3, <3>1 DEF Distinct
    <3> QED  BY <3>1, <3>2
  <2>4. Mine = {b}
    BY <2>1, <2>2, <2>3
  <2>5. Max({b}) = b
    <3>1. b \in Nat
      <4>1. decls[d] \in DeclType
        BY DEF Shape, Typed
      <4> QED  BY <4>1 DEF DeclType
    <3>2. {b} \subseteq 0..b /\ {b} # {}
      BY <3>1
    <3>3. Max({b}) \in {b}
      BY <3>1, <3>2, MaxOfBounded
    <3> QED  BY <3>3
  <2>6. set_ident(x, d) = Renamed(x, Turn(x, Max(Mine)))
    <3> HIDE DEF b
    <3> QED  BY <2>4 DEF set_ident
  <2> QED  BY <1>3, <2>4, <2>5, <2>6
<1>4. CASE ~ (decls[d].name = x /\ ~decls[d].const)
  <2>1. Mine = {}
    BY <1>2, <1>4
  <2> QED  BY <1>4, <2>1 DEF set_ident
<1> QED  BY <1>3, <1>4

\* A declaration that is not renamed is called neither x nor what x becomes.
LEMMA OtherName ==
  ASSUME Shape, Renames, CleanNames, pass = "rename", NEW x \in pending,
         NEW d \in 1..Len(decls), ~ (decls[d].name = x /\ ~decls[d].const),
         decls[d].block \in Renaming(x)
  PROVE  /\ decls[d].name # x /\ NameNow(d) # x
         /\ NameNow(d) # Renamed(x, Turn(x, decls[d].block))
<1> DEFINE y == decls[d].name
           b == decls[d].block
           m == Turn(x, b)
           k == Turn(y, b)
<1>1. /\ RecordOf(record, decls) /\ Distinct(decls) /\ x \in Names
      /\ DOMAIN decls = 1..Len(decls)
  BY DEF Renames, Shape, Typed
<1>2. PICK e \in 1..Len(decls) :
        decls[e].name = x /\ ~decls[e].const /\ decls[e].block = b
  BY RenamingDeclared
<1>3. m \in 1..Len(decls) /\ m \in Nat
  <2>1. m \in 1..Len(decls)
    BY RenamingDeclared
  <2> HIDE DEF m
  <2> QED  BY <2>1
<1>4. y # x
  BY <1>1, <1>2 DEF Distinct
<1>5. y # Renamed(x, m)
  <2> HIDE DEF m
  <2> QED  BY <1>1, <1>2, <1>3 DEF CleanNames
<1>6. CASE NameNow(d) = y
  BY <1>4, <1>5, <1>6
<1>7. CASE NameNow(d) # y
  <2>1. ~decls[d].const /\ NameNow(d) = Renamed(y, k)
    BY <1>7 DEF NameNow
  <2>2. y \in Names /\ k \in 1..Len(decls) /\ k \in Nat
    BY <1>1, <2>1, DeclaredRenaming
  <2>3. x # Renamed(y, k)
    <3> HIDE DEF k
    <3> QED  BY <1>1, <1>2, <2>2 DEF CleanNames
  <2>4. Renamed(y, k) # Renamed(x, m)
    <3>1. x \in Ident /\ y \in Ident
      BY <1>1, <2>2, NamesAssumption
    <3> HIDE DEF k, m, y
    <3> QED  BY <1>3, <1>4, <2>2, <3>1, RenamedApart
  <2> QED  BY <1>4, <2>1, <2>3, <2>4
<1> QED  BY <1>6, <1>7

\* What the renaming of x does to one table.
LEMMA RenamedTable ==
  ASSUME Shape, Recorded, NEW x \in Names, RenameSym(x), NEW b \in Renaming(x)
  PROVE  LET n == Renamed(x, Turn(x, b))
         IN /\ DOMAIN tab'[b] = (DOMAIN tab[b] \cup {n}) \ {x}
            /\ n \in DOMAIN tab'[b]
            /\ tab'[b][n] = VarEntry(tab[b][x].var)
            /\ \A y \in DOMAIN tab[b] : y # x /\ y # n =>
                 y \in DOMAIN tab'[b] /\ tab'[b][y] = tab[b][y]
<1> DEFINE n == Renamed(x, Turn(x, b))
           e == VarEntry(tab[b][x].var)
           t == add_sym(tab[b], n, e)
<1>1. /\ pass = "rename" /\ x \in pending
      /\ b \in DOMAIN tab /\ DOMAIN tab = 1..Len(tab) /\ tab[b] \in Table
      /\ Turn(x, b) # 0
  BY DEF RenameSym, Shape, Typed, Renaming
<1>2. tab'[b] = remove_sym(t, x)
  BY <1>1 DEF RenameSym
<1>3. Turn(x, b) \in Nat /\ \E i \in 1..Len(record[x]) : record[x][i] = b
  BY <1>1, TurnTyped
<1>4. x \in DOMAIN tab[b]
  BY <1>1, <1>3 DEF Recorded, RecordedHere
<1>5. n \in Ident /\ n # x
  BY <1>3, NamesAssumption, RenamedIdent
<1>6. e \in Entry
  <2>1. tab[b][x] \in Entry
    BY <1>1, <1>4, TableEntry
  <2> QED  BY <2>1 DEF VarEntry, Entry
<1> HIDE DEF n, e
<1>7. /\ t \in Table /\ DOMAIN t = DOMAIN tab[b] \cup {n} /\ t[n] = e
      /\ \A y \in DOMAIN tab[b] : y # n => t[y] = tab[b][y]
  BY <1>1, <1>5, <1>6, AddSym
<1> HIDE DEF t
<1>8. /\ DOMAIN remove_sym(t, x) = DOMAIN t \ {x}
      /\ \A y \in DOMAIN t : y # x => remove_sym(t, x)[y] = t[y]
  BY <1>7, RemoveSym
<1>9. /\ DOMAIN tab'[b] = (DOMAIN tab[b] \cup {n}) \ {x}
      /\ n \in DOMAIN tab'[b] /\ tab'[b][n] = e
      /\ \A y \in DOMAIN tab[b] : y # x /\ y # n =>
           y \in DOMAIN tab'[b] /\ tab'[b][y] = tab[b][y]
  BY <1>2, <1>5, <1>7, <1>8
<1> QED  BY <1>9 DEF n, e

LEMMA Renames_RenameSym ==
  ASSUME Shape, Recorded, Renames, NEW x \in Names, RenameSym(x)
  PROVE  Renames'
<1>1. /\ pass = "rename" /\ x \in pending /\ pending' = pending \ {x}
      /\ ident' = [d \in DOMAIN ident |-> set_ident(x, d)]
      /\ UNCHANGED <<pass, record, decls>>
      /\ DOMAIN ident = 1..Len(decls) /\ DOMAIN tab = 1..Len(tab)
  BY DEF RenameSym, Shape, Typed
<1>2. /\ RecordOf(record, decls) /\ Distinct(decls)
      /\ \A y \in pending : Len(record[y]) > 1
  BY <1>1 DEF Renames
<1>3. RenamedUnique' /\ TablesKeepDecls'
  BY <1>1 DEF RenamedUnique, TablesKeepDecls
<1>4. ASSUME CleanNames, NEW d \in 1..Len(decls)
      PROVE  KeptAs(d, NameNow(d))'
  <2> DEFINE b == decls[d].block
             n == NameNow(d)
             m == Renamed(x, Turn(x, b))
  <2>1. KeptAs(d, n)
    BY <1>1, <1>4 DEF Renames
  <2>2. ident'[d] = IF decls[d].name = x /\ ~decls[d].const THEN m ELSE ident[d]
    BY <1>1, <1>4, SetIdent
  <2>3. b \in 1..Len(tab)
    BY DEF Shape, InTables
  <2>4. CASE decls[d].name = x /\ ~decls[d].const
    <3>1. n = x
      BY <1>1, <2>4 DEF NameNow
    <3>2. NameNow(d)' = m
      <4>1. Len(record[x]) > 1 /\ Len(record[x]) \in Nat
        BY <1>1, <1>2 DEF Shape, Typed
      <4>2. Turn(x, b)' = Turn(x, b)
        BY <1>1 DEF Turn
      <4> QED  BY <1>1, <2>4, <4>1, <4>2 DEF NameNow
    <3>3. tab[b][x].var = d
      BY <2>1, <2>4, <3>1 DEF KeptAs
    <3>4. b \in Renaming(x)
      BY <1>2, <2>4, DeclaredRenaming
    <3>5. m \in DOMAIN tab'[b] /\ tab'[b][m] = VarEntry(d)
      BY <3>3, <3>4, RenamedTable
    <3>6. VarEntry(d).const = FALSE /\ VarEntry(d).var = d
      BY DEF VarEntry
    <3>7. decls[d].const = FALSE
      <4>1. decls[d] \in DeclType
        BY DEF Shape, Typed
      <4> QED  BY <2>4, <4>1 DEF DeclType
    <3> HIDE DEF m, n
    <3> QED  BY <1>1, <2>2, <2>4, <3>2, <3>5, <3>6, <3>7 DEF KeptAs
  <2>5. CASE ~ (decls[d].name = x /\ ~decls[d].const)
    <3>1. NameNow(d)' = n
      <4>1. Turn(decls[d].name, b)' = Turn(decls[d].name, b)
        BY <1>1 DEF Turn
      <4> QED  BY <1>1, <2>5, <4>1 DEF NameNow
    <3>2. n \in DOMAIN tab'[b] /\ tab'[b][n] = tab[b][n]
      <4>1. n \in DOMAIN tab[b]
        BY <2>1 DEF KeptAs
      <4>2. CASE b \in Renaming(x)
        <5>1. n # x /\ n # m
          BY <1>1, <1>4, <2>5, <4>2, OtherName
        <5> HIDE DEF n
        <5> QED  BY <4>1, <4>2, <5>1, RenamedTable
      <4>3. CASE b \notin Renaming(x)
        <5>1. tab'[b] = tab[b]
          BY <1>1, <2>3, <4>3 DEF RenameSym
        <5> QED  BY <4>1, <5>1
      <4> QED  BY <4>2, <4>3
    <3>3. ident'[d] = ident[d]
      BY <2>2, <2>5
    <3> HIDE DEF m, n
    <3> QED  BY <1>1, <2>1, <3>1, <3>2, <3>3 DEF KeptAs
  <2> QED  BY <2>4, <2>5
<1>5. CleanNames' => \A d \in 1..Len(decls') : KeptAs(d, NameNow(d))'
  BY <1>1, <1>4 DEF CleanNames
<1>6. RecordOf(record, decls)' /\ Distinct(decls)'
  <2>1. RecordOf(record, decls)'
    BY <1>1, <1>2 DEF RecordOf
  <2> QED  BY <1>1, <1>2, <2>1 DEF Distinct
<1>7. \A y \in pending' : Len(record'[y]) > 1
  BY <1>1, <1>2
<1> QED  BY <1>1, <1>3, <1>5, <1>6, <1>7 DEF Renames

-----------------------------------------------------------------------------

LEMMA Renames_Step ==
  ASSUME Shape, Recorded, Bindings, Renames, [Next]_scopeVars
  PROVE  Renames'
<1>1. CASE OpenBlock
  BY <1>1, Renames_Same DEF OpenBlock, AtStmt
<1>2. CASE CloseBlock
  BY <1>2, Renames_CloseBlock
<1>3. CASE EndStmt
  BY <1>3, Renames_Same DEF EndStmt
<1>4. CASE BreakOrContinue
  BY <1>4, Renames_Same DEF BreakOrContinue, AtStmt, Throw
<1>5. ASSUME NEW x \in Names, Redefine(x) PROVE Renames'
  BY <1>5, Renames_Same DEF Redefine, AtItem, Throw
<1>6. ASSUME NEW x \in Names, NEW xs \in Exps,
             ConstDecl(x, xs) \/ VarDecl(x, xs)
      PROVE  Renames'
  BY <1>6, Renames_Decl DEF ConstDecl, VarDecl
<1>7. ASSUME NEW x \in Names, NEW xs \in Exps, Assign(x, xs) PROVE Renames'
  BY <1>7, Renames_Same DEF Assign, AtStmt, Throw, VisitExp
<1>8. ASSUME NEW xs \in Exps, If(xs) \/ While(xs) PROVE Renames'
  BY <1>8, Renames_Same DEF If, While, AtStmt, Throw, VisitExp
<1>9. ASSUME NEW kind \in {"ret", "exp"}, NEW xs \in Exps,
             ReturnOrExp(kind, xs)
      PROVE  Renames'
  BY <1>9, Renames_Same DEF ReturnOrExp, AtStmt, Throw, VisitExp
<1>10. ASSUME NEW x \in Names, RenameSym(x) PROVE Renames'
  BY <1>10, Renames_RenameSym
<1>11. CASE FinishRename
  BY <1>11, Renames_FinishRename
<1>12. CASE UNCHANGED scopeVars
  <2>1. UNCHANGED <<pass, record, pending, tab, decls, ident>>
    BY <1>12 DEF scopeVars
  <2>2. RenamedUnique' /\ TablesKeepDecls' /\ (CleanNames' => CleanNames)
    BY <2>1 DEF Renames, RenamedUnique, TablesKeepDecls, CleanNames
  <2>3. CASE pass = "rename"
    <3>1. ASSUME CleanNames, NEW d \in 1..Len(decls)
          PROVE  KeptAs(d, NameNow(d))'
      <4>1. KeptAs(d, NameNow(d))
        BY <2>3, <3>1 DEF Renames
      <4>2. NameNow(d)' = NameNow(d)
        BY <2>1 DEF NameNow, Turn
      <4> QED  BY <2>1, <4>1, <4>2 DEF KeptAs
    <3>2. RecordOf(record, decls)' /\ Distinct(decls)'
      <4>1. RecordOf(record, decls) /\ Distinct(decls)
        BY <2>3 DEF Renames
      <4>2. RecordOf(record, decls)'
        BY <2>1, <4>1 DEF RecordOf
      <4> QED  BY <2>1, <4>1, <4>2 DEF Distinct
    <3>3. \A x \in pending' : Len(record'[x]) > 1
      BY <2>1, <2>3 DEF Renames
    <3> QED  BY <2>1, <2>2, <2>3, <3>1, <3>2, <3>3 DEF Renames
  <2>4. CASE pass # "rename"
    <3>1. pass = "scope" => RecordOf(record, decls)'
      BY <2>1 DEF Renames, RecordOf
    <3> QED  BY <2>1, <2>2, <2>4, <3>1 DEF Renames
  <2> QED  BY <2>3, <2>4
<1> QED
  BY <1>1, <1>2, <1>3, <1>4, <1>5, <1>6, <1>7, <1>8, <1>9, <1>10, <1>11, <1>12
     DEF Next, ScopeNext, ScopeOver

LEMMA RenamesAlways == Spec => []Renames
<1>1. Init => Shape /\ Recorded /\ Bindings /\ Renames
  BY Start, Bindings_Init, Renames_Init
<1>2. Shape /\ Recorded /\ Bindings /\ Renames /\ [Next]_scopeVars
        => (Shape /\ Recorded /\ Bindings /\ Renames)'
  BY Step, Bindings_Step, Renames_Step
<1> QED  BY <1>1, <1>2, PTL DEF Spec

\* After the pass no two variables of the function share a name, so that one
\* table by name can hold them all (FunctionIR.hh:33).
THEOREM VariablesEndUpDistinct == Spec => []RenamedUnique
<1>1. Renames => RenamedUnique
  BY DEF Renames
<1> QED  BY <1>1, RenamesAlways, PTL

\* After the pass the table of its block still holds every declaration: a
\* variable under its new name, a constant under the name it had.
THEOREM TablesStayComplete == Spec => []TablesKeepDecls
<1>1. Renames => TablesKeepDecls
  BY DEF Renames
<1> QED  BY <1>1, RenamesAlways, PTL
=============================================================================
