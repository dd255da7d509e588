--------------------------- MODULE ConstPropProofs ---------------------------
(* Proofs about constant propagation, for every program the scope check lets  *)
(* through: the second walk over the tables the first one left.               *)
EXTENDS ConstProp, ScopeCheckProofs

-----------------------------------------------------------------------------
(* What the first pass leaves to the second. "ast" tells which blocks are     *)
(* open at each node, and every use names a declaration in one of them.       *)

Opened(ns, i) == {ns[k].at : k \in {m \in 1..i : ns[m].kind = "open"}}
Closed(ns, i) == {ns[k].at : k \in {m \in 1..i : ns[m].kind = "close"}}
Inside(ns, i) == Opened(ns, i) \ Closed(ns, i)

\* A use is of a declaration of its name in a block that is open there, and no
\* earlier declaration stands further inside. A use that is left unbound has a
\* constant of its name in such a block.
UseInside(ds, now, u) ==
  /\ ds[u.lex].name = u.name /\ ds[u.lex].block \in now
  /\ u.var = NoDecl => \E d \in 1..Len(ds) :
       ds[d].const /\ ds[d].name = u.name /\ ds[d].block \in now
  /\ \A d \in 1..u.lex : ds[d].block \in now => ds[d].block <= ds[u.lex].block

\* A block opens inside of all that are open and the innermost one closes; a
\* constant is declared in the innermost one.
NodeInside(n, ds, before, now) ==
  /\ \A j \in 1..Len(n.uses) : UseInside(ds, now, n.uses[j])
  /\ n.kind = "open" =>
       /\ n = Node("open", n.at) /\ now = before \cup {n.at}
       /\ \A c \in before : c < n.at
  /\ n.kind = "close" =>
       /\ n = Node("close", n.at) /\ now = before \ {n.at}
       /\ n.at \in before /\ \A c \in before : c <= n.at
  /\ n.kind \notin {"open", "close"} => now = before
  /\ n.kind = "const" =>
       /\ n.at \in 1..Len(ds) /\ ds[n.at].const
       /\ ds[n.at].block \in now /\ \A c \in now : c <= ds[n.at].block

Trail ==
  /\ \A i \in 1..Len(ast) :
       /\ NodeInside(ast[i], decls, Inside(ast, i - 1), Inside(ast, i))
       /\ ast[i].kind \in {"open", "close"} => ast[i].at \in 1..Len(tab)
  /\ pass = "scope" => Open = Inside(ast, Len(ast))

\* What one more node changes.
LEMMA InsideGrows ==
  ASSUME NEW ns \in Seq(NodeType), NEW n \in NodeType
  PROVE  LET ms == Append(ns, n)
             l == Len(ns)
         IN /\ \A i \in 0..l : Inside(ms, i) = Inside(ns, i)
            /\ n.kind = "open" =>
                 Inside(ms, l + 1) = (Opened(ns, l) \cup {n.at}) \ Closed(ns, l)
            /\ n.kind = "close" =>
                 Inside(ms, l + 1) = Inside(ns, l) \ {n.at}
            /\ n.kind \notin {"open", "close"} =>
                 Inside(ms, l + 1) = Inside(ns, l)
<1> DEFINE ms == Append(ns, n)
           l == Len(ns)
<1>1. /\ Len(ms) = l + 1 /\ ms[l + 1] = n /\ l \in Nat
      /\ \A i \in 1..l : ms[i] = ns[i]
  BY Push
<1> HIDE DEF ms, l
<1>2. ASSUME NEW i \in 0..l
      PROVE  Opened(ms, i) = Opened(ns, i) /\ Closed(ms, i) = Closed(ns, i)
  <2>1. \A m \in 1..i : ms[m] = ns[m]
    BY <1>1
  <2> QED  BY <2>1 DEF Opened, Closed
<1>3. /\ n.kind = "open" => Opened(ms, l + 1) = Opened(ms, l) \cup {n.at}
      /\ n.kind # "open" => Opened(ms, l + 1) = Opened(ms, l)
      /\ n.kind = "close" => Closed(ms, l + 1) = Closed(ms, l) \cup {n.at}
      /\ n.kind # "close" => Closed(ms, l + 1) = Closed(ms, l)
  <2>1. 1..(l + 1) = 1..l \cup {l + 1}
    BY <1>1
  <2> QED  BY <1>1, <2>1 DEF Opened, Closed
<1>4. l \in 0..l
  BY <1>1
<1>5. /\ \A i \in 0..l : Inside(ms, i) = Inside(ns, i)
      /\ n.kind = "open" =>
           Inside(ms, l + 1) = (Opened(ns, l) \cup {n.at}) \ Closed(ns, l)
      /\ n.kind = "close" => Inside(ms, l + 1) = Inside(ns, l) \ {n.at}
      /\ n.kind \notin {"open", "close"} =>
           Inside(ms, l + 1) = Inside(ns, l)
  BY <1>2, <1>3, <1>4 DEF Inside
<1> QED  BY <1>5 DEF ms, l

\* ds is decls with more declarations behind it.
Extends(ds) ==
  /\ Len(decls) <= Len(ds) /\ Len(ds) \in Nat
  /\ \A d \in 1..Len(decls) : ds[d] = decls[d]

LEMMA NodeInsideStays ==
  ASSUME Shape, NEW ds, Extends(ds), NEW n, NEW before, NEW now,
         NodeInside(n, decls, before, now), GoodNode(decls, n)
  PROVE  NodeInside(n, ds, before, now)
<1>1. Len(decls) \in Nat
  BY DEF Shape, Typed
<1>2. ASSUME NEW j \in 1..Len(n.uses) PROVE UseInside(ds, now, n.uses[j])
  <2> DEFINE u == n.uses[j]
  <2>1. UseInside(decls, now, u) /\ u.lex \in 1..Len(decls)
    BY DEF NodeInside, GoodNode, GoodUse
  <2> HIDE DEF u
  <2>2. \A d \in 1..u.lex : d \in 1..Len(decls)
    BY <1>1, <2>1
  <2>3. \A d \in 1..Len(decls) : d \in 1..Len(ds) /\ ds[d] = decls[d]
    BY <1>1 DEF Extends
  <2>4. UseInside(ds, now, u)
    BY <2>1, <2>2, <2>3 DEF UseInside
  <2> QED  BY <2>4 DEF u
<1>3. n.at \in 1..Len(decls) => n.at \in 1..Len(ds) /\ ds[n.at] = decls[n.at]
  BY <1>1 DEF Extends
<1> QED  BY <1>2, <1>3 DEF NodeInside

\* Steps of the first pass that record no node.
LEMMA Trail_Same ==
  ASSUME Shape, Bindings, Trail, ast' = ast, NEW ds, Extends(ds), decls' = ds,
         Len(tab') \in Nat, Len(tab') >= Len(tab),
         pass' = "scope" => pass = "scope" /\ scopes' = scopes
  PROVE  Trail'
<1>1. ASSUME NEW i \in 1..Len(ast)
      PROVE  /\ NodeInside(ast[i], ds, Inside(ast, i - 1), Inside(ast, i))
             /\ ast[i].kind \in {"open", "close"} => ast[i].at \in 1..Len(tab')
  <2>1. /\ NodeInside(ast[i], decls, Inside(ast, i - 1), Inside(ast, i))
        /\ ast[i].kind \in {"open", "close"} => ast[i].at \in 1..Len(tab)
        /\ GoodNode(decls, ast[i])
    BY DEF Trail, Bindings, GoodNodes
  <2>2. Len(tab) \in Nat
    BY DEF Shape, Typed
  <2>3. NodeInside(ast[i], ds, Inside(ast, i - 1), Inside(ast, i))
    BY <2>1, NodeInsideStays
  <2> QED  BY <2>1, <2>2, <2>3
<1>2. pass' = "scope" => Open' = Inside(ast, Len(ast))
  BY DEF Trail, Open
<1> QED  BY <1>1, <1>2 DEF Trail

\* Steps of the first pass that record a node.
LEMMA Trail_Node ==
  ASSUME Shape, Bindings, Trail, pass = "scope", NEW n \in NodeType,
         ast' = Append(ast, n), NEW ds, Extends(ds), decls' = ds,
         Len(tab') \in Nat, Len(tab') >= Len(tab),
         NodeInside(n, ds, Inside(ast, Len(ast)), Inside(ast', Len(ast) + 1)),
         n.kind \in {"open", "close"} => n.at \in 1..Len(tab'),
         pass' = "scope" => Open' = Inside(ast', Len(ast) + 1)
  PROVE  Trail'
<1> DEFINE l == Len(ast)
<1>1. /\ ast \in Seq(NodeType) /\ l \in Nat /\ Len(ast') = l + 1
      /\ ast'[l + 1] = n /\ \A i \in 1..l : ast'[i] = ast[i]
  <2>1. ast \in Seq(NodeType)
    BY DEF Shape, Typed
  <2> QED  BY <2>1, Push
<1>2. \A i \in 0..l : Inside(ast', i) = Inside(ast, i)
  BY <1>1, InsideGrows
<1> HIDE DEF l
<1>3. ASSUME NEW i \in 1..l + 1
      PROVE  /\ NodeInside(ast'[i], ds, Inside(ast', i - 1), Inside(ast', i))
             /\ ast'[i].kind \in {"open", "close"} =>
                  ast'[i].at \in 1..Len(tab')
  <2>1. CASE i = l + 1
    <3>1. i - 1 = l /\ l \in 0..l
      BY <1>1, <2>1
    <3>2. ast'[i] = n /\ Inside(ast', i - 1) = Inside(ast, l)
      BY <1>1, <1>2, <2>1, <3>1
    <3> QED  BY <2>1, <3>2 DEF l
  <2>2. CASE i \in 1..l
    <3>1. /\ NodeInside(ast[i], decls, Inside(ast, i - 1), Inside(ast, i))
          /\ ast[i].kind \in {"open", "close"} => ast[i].at \in 1..Len(tab)
          /\ GoodNode(decls, ast[i])
      BY <2>2 DEF Trail, Bindings, GoodNodes, l
    <3>2. Len(tab) \in Nat
      BY DEF Shape, Typed
    <3>3. NodeInside(ast[i], ds, Inside(ast, i - 1), Inside(ast, i))
      BY <3>1, NodeInsideStays
    <3>4. i \in 0..l /\ i - 1 \in 0..l
      BY <1>1, <2>2
    <3>5. /\ ast'[i] = ast[i] /\ Inside(ast', i) = Inside(ast, i)
          /\ Inside(ast', i - 1) = Inside(ast, i - 1)
      BY <1>1, <1>2, <2>2, <3>4
    <3> QED  BY <3>1, <3>2, <3>3, <3>5
  <2> QED  BY <1>1, <2>1, <2>2
<1> QED  BY <1>1, <1>3 DEF Trail, l

\* A use the first pass accepts.
LEMMA UseIsInside ==
  ASSUME NEW t \in Seq(Table), NEW ds \in Seq(DeclType), NEW x,
         scopes \in Seq(Nat), \A i \in 1..Len(scopes) : scopes[i] \in 1..Len(t),
         Ascending, Declared(t, ds), has_sym(t, x)
  PROVE  UseInside(ds, Open, Use(t, ds, x))
<1> DEFINE l == Lexical(ds, x)
<1>1. /\ l \in 1..Len(ds) /\ ds[l].const = Innermost(t, x).const
      /\ ~Innermost(t, x).const => get_sym_var(t, x) = l
  BY InnermostIsLexical
<1>2. ds[l].name = x /\ ds[l].block \in Open
  <2>1. l \in Visible(ds, x) \cup {NoDecl}
    BY LexicalMax
  <2> HIDE DEF l
  <2> QED  BY <1>1, <2>1 DEF Visible, NoDecl
<1>3. Max(Holders(t, x)) \in Holders(t, x)
  BY InnermostHolder
<1>4. Innermost(t, x).const => sym_is_const(t, x)
  BY <1>3 DEF Innermost, sym_is_const
<1>5. /\ Use(t, ds, x).lex = l /\ Use(t, ds, x).name = x
      /\ Use(t, ds, x).var = IF sym_is_const(t, x) THEN NoDecl
                             ELSE get_sym_var(t, x)
  BY DEF Use
<1> HIDE DEF l
<1>6. \A d \in 1..l : ds[d].block \in Open => ds[d].block <= ds[l].block
  <2> SUFFICES ASSUME NEW d \in 1..l, ds[d].block \in Open
               PROVE  ds[d].block <= ds[l].block
    OBVIOUS
  <2>1. d \in 1..Len(ds) /\ (d = l \/ d < l)
    BY <1>1
  <2>2. ds[l] \in DeclType
    BY <1>1
  <2>3. ds[l].block \in Nat
    BY <2>2 DEF DeclType
  <2> QED  BY <1>1, <1>2, <2>1, <2>3 DEF Declared
<1>7. Use(t, ds, x).var = NoDecl => \E d \in 1..Len(ds) :
        ds[d].const /\ ds[d].name = x /\ ds[d].block \in Open
  <2> HAVE Use(t, ds, x).var = NoDecl
  <2>1. sym_is_const(t, x)
    BY <1>1, <1>4, <1>5 DEF NoDecl
  <2>2. PICK i \in Holders(t, x) : t[scopes[i]][x].const
    BY <2>1 DEF sym_is_const
  <2>3. i \in 1..Len(scopes) /\ x \in DOMAIN t[scopes[i]] /\ scopes[i] \in Open
    BY DEF Holders, Open
  <2>4. scopes[i] \in 1..Len(t)
    BY <2>3
  <2>5. PICK d \in 1..Len(ds) : EntryOf(t, ds, scopes[i], x, d)
    BY <2>3, <2>4 DEF Declared
  <2> QED  BY <2>2, <2>3, <2>5 DEF EntryOf
<1> QED  BY <1>2, <1>5, <1>6, <1>7 DEF UseInside

LEMMA Trail_Exp ==
  ASSUME Shape, Bindings, Trail, pass = "scope",
         NEW t \in Seq(Table), Len(t) = Len(tab), tab' = t,
         NEW ds \in Seq(DeclType), Extends(ds), decls' = ds,
         Declared(t, ds), scopes' = scopes, NEW xs \in Exps,
         NEW node \in NodeType, VisitExp(t, ds, node, xs),
         node.kind \notin {"open", "close"},
         node.kind = "const" =>
           /\ node.at \in 1..Len(ds) /\ ds[node.at].const
           /\ ds[node.at].block \in Open
           /\ \A c \in Open : c <= ds[node.at].block
  PROVE  Trail'
<1>1. /\ scopes \in Seq(Nat) /\ ast \in Seq(NodeType) /\ Len(tab) \in Nat
      /\ \A i \in 1..Len(scopes) : scopes[i] \in 1..Len(t)
  BY DEF Shape, Typed, InTables
<1>2. Ascending /\ Open = Inside(ast, Len(ast))
  BY DEF Bindings, Trail
<1>3. CASE VisitExpThrows(t, xs)
  <2>1. ast' = ast /\ pass' = "throw"
    BY <1>3 DEF VisitExpThrows
  <2>2. Len(tab') \in Nat /\ Len(tab') >= Len(tab)
    BY <1>1
  <2> QED  BY <2>1, <2>2, Trail_Same
<1>4. CASE VisitExpRecords(t, ds, node, xs)
  <2> DEFINE us == [i \in DOMAIN xs |-> Use(t, ds, xs[i])]
             n == [node EXCEPT !.uses = us]
  <2>1. ast' = Append(ast, n) /\ pass' = pass
    BY <1>4 DEF VisitExpRecords
  <2>2. n \in NodeType
    <3>1. \A i \in DOMAIN xs : Use(t, ds, xs[i]) \in UseType
      BY <1>1, <1>4, UseTyped, ExpsAreSeqs DEF VisitExpRecords
    <3>2. us \in [1..Len(xs) -> UseType] /\ Len(xs) \in Nat
      BY <3>1, ExpsAreSeqs
    <3>3. us \in Seq(UseType)
      BY <3>2
    <3> HIDE DEF us
    <3> QED  BY <3>3 DEF NodeType
  <2>3. \A j \in 1..Len(us) : UseInside(ds, Open, us[j])
    <3>1. \A i \in DOMAIN xs : UseInside(ds, Open, Use(t, ds, xs[i]))
      BY <1>1, <1>2, <1>4, UseIsInside DEF VisitExpRecords
    <3>2. DOMAIN xs = 1..Len(xs) /\ Len(xs) \in Nat
      BY ExpsAreSeqs
    <3>3. Len(us) = Len(xs)
      BY <3>2
    <3> QED  BY <3>1, <3>2, <3>3
  <2> HIDE DEF us
  <2>4. n.uses = us /\ n.kind = node.kind /\ n.at = node.at
    BY DEF NodeType
  <2> HIDE DEF n
  <2>5. Inside(ast', Len(ast) + 1) = Open
    <3>1. n.kind \notin {"open", "close"}
      BY <2>4
    <3>2. Inside(Append(ast, n), Len(ast) + 1) = Inside(ast, Len(ast))
      BY <1>1, <2>2, <3>1, InsideGrows
    <3> QED  BY <1>2, <2>1, <3>2
  <2>6. NodeInside(n, ds, Open, Open)
    BY <2>3, <2>4 DEF NodeInside
  <2>7. NodeInside(n, ds, Inside(ast, Len(ast)), Inside(ast', Len(ast) + 1))
    BY <1>2, <2>5, <2>6
  <2>8. Open' = Open
    BY DEF Open
  <2>9. Len(tab') \in Nat /\ Len(tab') >= Len(tab)
    BY <1>1
  <2> QED  BY <2>1, <2>2, <2>4, <2>5, <2>7, <2>8, <2>9, Trail_Node
<1> QED  BY <1>3, <1>4, VisitExpCases

\* The open blocks, the greatest of which is the current one.
LEMMA OpenBlocks ==
  ASSUME Shape, Bindings, pass = "scope"
  PROVE  /\ Cur \in Open /\ Cur \in 1..Len(tab) /\ \A c \in Open : c <= Cur
         /\ Open \subseteq 1..Len(tab)
         /\ Open = {scopes[i] : i \in 1..Len(scopes)}
<1>1. /\ scopes \in Seq(Nat) /\ Len(scopes) \in Nat /\ Len(scopes) > 0
      /\ Cur \in 1..Len(tab) /\ Cur = scopes[Len(scopes)] /\ Ascending
      /\ \A i \in 1..Len(scopes) : scopes[i] \in 1..Len(tab)
  BY CurrentScope DEF Shape, Typed, InTables, Bindings
<1>2. Open = {scopes[i] : i \in 1..Len(scopes)}
  BY <1>1 DEF Open
<1>3. ASSUME NEW c \in Open PROVE c <= Cur
  <2>1. PICK i \in 1..Len(scopes) : c = scopes[i]
    BY <1>2
  <2>2. i = Len(scopes) \/ i < Len(scopes)
    BY <1>1
  <2>3. Len(scopes) \in 1..Len(scopes) /\ Cur \in Nat
    BY <1>1
  <2> QED  BY <1>1, <2>1, <2>2, <2>3 DEF Ascending
<1>4. Len(scopes) \in 1..Len(scopes)
  BY <1>1
<1>5. Cur \in Open /\ Open \subseteq 1..Len(tab)
  BY <1>1, <1>2, <1>4
<1> QED  BY <1>1, <1>2, <1>3, <1>5

LEMMA ExtendsSelf ==
  ASSUME Shape PROVE Extends(decls)
  BY DEF Extends, Shape, Typed

LEMMA Trail_OpenBlock ==
  ASSUME Shape, Bindings, Trail, OpenBlock
  PROVE  Trail'
<1> DEFINE b == Len(tab) + 1
           n == Node("open", b)
           l == Len(ast)
<1>1. /\ pass = "scope" /\ tab' = Append(tab, <<>>)
      /\ scopes' = Append(scopes, b) /\ decls' = decls
      /\ ast' = Append(ast, n)
  BY DEF OpenBlock, AtStmt, push_scope
<1>2. /\ tab \in Seq(Table) /\ scopes \in Seq(Nat) /\ ast \in Seq(NodeType)
      /\ Len(tab) \in Nat /\ Len(scopes) \in Nat /\ b \in Nat
  BY DEF Shape, Typed
<1>3. Len(tab') = b
  BY <1>1, <1>2
<1>4. n \in NodeType
  BY <1>2, NodeTyped
<1>5. n.kind = "open" /\ n.at = b /\ n.uses = <<>>
  BY DEF Node
<1> HIDE DEF n, b
<1>6. /\ \A c \in Opened(ast, l) : c < b
      /\ b \notin Closed(ast, l)
  <2>1. \A i \in 1..l : ast[i].kind \in {"open", "close"} =>
                          ast[i].at \in 1..Len(tab)
    BY DEF Trail
  <2>2. /\ Opened(ast, l) \subseteq 1..Len(tab)
        /\ Closed(ast, l) \subseteq 1..Len(tab)
    BY <2>1 DEF Opened, Closed
  <2> QED  BY <1>2, <2>2 DEF b
<1>7. Inside(ast', l + 1) = Inside(ast, l) \cup {b}
  <2>1. Inside(Append(ast, n), l + 1)
          = (Opened(ast, l) \cup {n.at}) \ Closed(ast, l)
    BY <1>2, <1>4, <1>5, InsideGrows
  <2> QED  BY <1>1, <1>5, <1>6, <2>1 DEF Inside
<1>8. Open' = Open \cup {b}
  <2>1. /\ Len(scopes') = Len(scopes) + 1 /\ scopes'[Len(scopes) + 1] = b
        /\ \A i \in 1..Len(scopes) : scopes'[i] = scopes[i]
        /\ DOMAIN scopes' = 1..Len(scopes') /\ DOMAIN scopes = 1..Len(scopes)
    BY <1>1, <1>2
  <2>2. 1..(Len(scopes) + 1) = 1..Len(scopes) \cup {Len(scopes) + 1}
    BY <1>2
  <2> QED  BY <2>1, <2>2 DEF Open
<1>9. NodeInside(n, decls, Inside(ast, l), Inside(ast', l + 1))
  <2>1. n = Node("open", n.at)
    BY <1>5 DEF n
  <2> QED  BY <1>5, <1>6, <1>7, <2>1 DEF NodeInside, Inside
<1>10. Open = Inside(ast, l)
  BY <1>1 DEF Trail
<1>11. n.at \in 1..Len(tab') /\ Len(tab') \in Nat /\ Len(tab') >= Len(tab)
  BY <1>2, <1>3, <1>5 DEF b
<1> QED
  BY <1>1, <1>4, <1>7, <1>8, <1>9, <1>10, <1>11, ExtendsSelf, Trail_Node

LEMMA Trail_CloseBlock ==
  ASSUME Shape, Bindings, Trail, CloseBlock
  PROVE  Trail'
<1> DEFINE n == Node("close", Cur)
           l == Len(ast)
<1>1. /\ pass = "scope" /\ UNCHANGED <<tab, decls>>
      /\ scopes' = SubSeq(scopes, 1, Len(scopes) - 1)
      /\ ast' = Append(ast, n)
  BY DEF CloseBlock, AtItem, pop_scope
<1>2. /\ scopes \in Seq(Nat) /\ ast \in Seq(NodeType) /\ Len(tab) \in Nat
      /\ Len(scopes) \in Nat /\ Len(scopes) > 0 /\ Cur \in Nat
      /\ Cur = scopes[Len(scopes)]
  BY <1>1, CurrentScope DEF Shape, Typed
<1>3. /\ Cur \in Open /\ Cur \in 1..Len(tab) /\ \A c \in Open : c <= Cur
      /\ Open = {scopes[i] : i \in 1..Len(scopes)}
  BY <1>1, OpenBlocks
<1>4. n \in NodeType
  BY <1>2, NodeTyped
<1>5. n.kind = "close" /\ n.at = Cur /\ n.uses = <<>> /\ n = Node("close", n.at)
  BY DEF Node
<1> HIDE DEF n
<1>6. Open = Inside(ast, l)
  BY <1>1 DEF Trail
<1>7. Inside(ast', l + 1) = Inside(ast, l) \ {Cur}
  BY <1>1, <1>2, <1>4, <1>5, InsideGrows
<1>8. Open' = Open \ {Cur}
  <2> DEFINE k == Len(scopes) - 1
  <2>1. /\ Len(scopes') = k /\ scopes' \in Seq(Nat)
        /\ \A i \in 1..k : scopes'[i] = scopes[i]
    BY <1>1, <1>2, Pop
  <2>2. 1..Len(scopes) = 1..k \cup {Len(scopes)}
    BY <1>2
  <2>3. \A i \in 1..k : scopes[i] # Cur
    <3> TAKE i \in 1..k
    <3>1. /\ i \in 1..Len(scopes) /\ i < Len(scopes)
          /\ Len(scopes) \in 1..Len(scopes)
      BY <1>2
    <3>2. scopes[i] < scopes[Len(scopes)]
      BY <1>1, <3>1 DEF Bindings, Ascending
    <3> QED  BY <1>2, <3>1, <3>2
  <2>4. Open' = {scopes[i] : i \in 1..k}
    <3>1. DOMAIN scopes' = 1..k
      BY <2>1
    <3>2. Open' = {scopes'[i] : i \in 1..k}
      BY <3>1 DEF Open
    <3> QED  BY <2>1, <3>2
  <2> HIDE DEF k
  <2> QED  BY <1>2, <1>3, <2>2, <2>3, <2>4
<1>9. NodeInside(n, decls, Inside(ast, l), Inside(ast', l + 1))
  BY <1>3, <1>5, <1>6, <1>7 DEF NodeInside
<1>10. n.at \in 1..Len(tab') /\ Len(tab') \in Nat /\ Len(tab') >= Len(tab)
  BY <1>1, <1>2, <1>3, <1>5
<1> QED
  BY <1>1, <1>4, <1>6, <1>7, <1>8, <1>9, <1>10, ExtendsSelf, Trail_Node

LEMMA Trail_Decl ==
  ASSUME Shape, Bindings, Trail, NEW x \in Names, NEW const \in BOOLEAN,
         NEW xs \in Exps, Decl(x, const, xs)
  PROVE  Trail'
<1> DEFINE t == DeclTab(x, const)
           r == DeclRecord(x, const)
           ds == Append(decls, r)
           node == Node(IF const THEN "const" ELSE "var", Len(decls) + 1)
<1>1. /\ pass = "scope" /\ x \notin DOMAIN tab[Cur] /\ tab' = t /\ decls' = ds
      /\ scopes' = scopes /\ VisitExp(t, ds, node, xs)
  BY DeclCases
<1>2. Declared(t, ds)
  BY <1>1, DeclaredStays DEF Bindings
<1>3. t \in Seq(Table) /\ Len(t) = Len(tab)
  BY <1>1, DeclTables
<1>4. decls \in Seq(DeclType) /\ Len(decls) \in Nat
  BY DEF Shape, Typed
<1>5. r \in DeclType /\ r.block = Cur /\ r.const = const
  BY <1>1, CurrentScope DEF DeclRecord, DeclType
<1> HIDE DEF r, t
<1>6. /\ ds \in Seq(DeclType) /\ Len(ds) = Len(decls) + 1
      /\ ds[Len(decls) + 1] = r
      /\ \A d \in 1..Len(decls) : ds[d] = decls[d]
  BY <1>4, <1>5, Push
<1>7. Extends(ds)
  BY <1>4, <1>6 DEF Extends
<1>8. node \in NodeType
  BY <1>4, NodeTyped
<1>9. /\ node.kind = (IF const THEN "const" ELSE "var")
      /\ node.at = Len(decls) + 1
  BY DEF Node
<1> HIDE DEF ds, node
<1>10. node.kind \notin {"open", "close"}
  BY <1>9
<1>11. node.kind = "const" =>
         /\ node.at \in 1..Len(ds) /\ ds[node.at].const
         /\ ds[node.at].block \in Open
         /\ \A c \in Open : c <= ds[node.at].block
  <2>1. Len(decls) + 1 \in 1..Len(ds)
    BY <1>4, <1>6
  <2> QED  BY <1>1, <1>5, <1>6, <1>9, <2>1, OpenBlocks
<1> QED
  BY <1>1, <1>2, <1>3, <1>6, <1>7, <1>8, <1>10, <1>11, Trail_Exp

\* The expression of a statement.
LEMMA Trail_Stmt ==
  ASSUME Shape, Bindings, Trail, pass = "scope",
         UNCHANGED <<scopes, tab, decls>>, NEW xs \in Exps,
         NEW node \in NodeType, VisitExp(tab, decls, node, xs),
         node.kind \notin {"open", "close", "const"}
  PROVE  Trail'
<1>1. tab \in Seq(Table) /\ decls \in Seq(DeclType) /\ Declared(tab, decls)
  BY DEF Shape, Typed, Bindings
<1> QED  BY <1>1, ExtendsSelf, Trail_Exp

LEMMA Trail_Assign ==
  ASSUME Shape, Bindings, Trail, NEW x \in Names, NEW xs \in Exps, Assign(x, xs)
  PROVE  Trail'
<1>1. pass = "scope" /\ UNCHANGED <<scopes, tab, decls>> /\ Len(tab) \in Nat
  <2>1. Len(tab) \in Nat
    BY DEF Shape, Typed
  <2> QED  BY <2>1 DEF Assign, AtStmt
<1>2. CASE UNCHANGED ast
  <2>1. Len(tab') \in Nat /\ Len(tab') >= Len(tab)
    BY <1>1
  <2> QED  BY <1>1, <1>2, <2>1, ExtendsSelf, Trail_Same
<1> DEFINE node == [Node("assign", get_sym_var(tab, x))
                      EXCEPT !.lex = Lexical(decls, x)]
<1>3. CASE /\ has_sym(tab, x) /\ ~sym_is_const(tab, x)
           /\ VisitExp(tab, decls, node, xs)
  <2>1. /\ tab \in Seq(Table) /\ decls \in Seq(DeclType)
        /\ scopes \in Seq(Nat) /\ Ascending /\ Declared(tab, decls)
        /\ \A i \in 1..Len(scopes) : scopes[i] \in 1..Len(tab)
    BY <1>1 DEF Bindings, Shape, Typed, InTables
  <2>2. Max(Holders(tab, x)) \in Holders(tab, x)
    BY <1>3, <2>1, InnermostHolder
  <2>3. ~Innermost(tab, x).const
    BY <1>3, <2>2 DEF sym_is_const, Innermost
  <2>4. /\ Lexical(decls, x) \in 1..Len(decls)
        /\ get_sym_var(tab, x) = Lexical(decls, x)
    BY <1>3, <2>1, <2>3, InnermostIsLexical
  <2>5. node.kind = "assign"
    BY DEF Node
  <2>6. node \in NodeType
    <3>1. Node("assign", get_sym_var(tab, x)) \in NodeType
      BY <2>1, <2>4, NodeTyped
    <3>2. Lexical(decls, x) \in Nat
      BY <2>1, <2>4
    <3> QED  BY <3>1, <3>2 DEF NodeType
  <2> HIDE DEF node
  <2> QED  BY <1>1, <1>3, <2>5, <2>6, Trail_Stmt
<1> QED  BY <1>2, <1>3 DEF Assign

LEMMA Trail_Jump ==
  ASSUME Shape, Bindings, Trail, BreakOrContinue
  PROVE  Trail'
<1> DEFINE n == Node("jump", NoDecl)
           l == Len(ast)
<1>1. /\ pass = "scope" /\ UNCHANGED <<scopes, tab, decls>> /\ Len(tab) \in Nat
      /\ ast' = ast \/ ast' = Append(ast, n)
      /\ ast \in Seq(NodeType) /\ Open = Inside(ast, l)
  <2>1. /\ pass = "scope" /\ UNCHANGED <<scopes, tab, decls>>
        /\ ast' = ast \/ ast' = Append(ast, n)
    BY DEF BreakOrContinue, AtStmt
  <2>2. Len(tab) \in Nat /\ ast \in Seq(NodeType)
    BY DEF Shape, Typed
  <2> QED  BY <2>1, <2>2 DEF Trail
<1>2. Len(tab') \in Nat /\ Len(tab') >= Len(tab)
  BY <1>1
<1>3. CASE ast' = ast
  BY <1>1, <1>2, <1>3, ExtendsSelf, Trail_Same
<1>4. CASE ast' = Append(ast, n)
  <2>1. n \in NodeType /\ n.kind = "jump" /\ n.uses = <<>>
    <3>1. n \in NodeType
      BY NodeTyped DEF NoDecl
    <3> QED  BY <3>1 DEF Node
  <2> HIDE DEF n
  <2>2. Inside(ast', l + 1) = Inside(ast, l)
    <3>1. n.kind \notin {"open", "close"}
      BY <2>1
    <3> QED  BY <1>1, <1>4, <2>1, <3>1, InsideGrows
  <2>3. NodeInside(n, decls, Inside(ast, l), Inside(ast', l + 1))
    BY <2>1, <2>2 DEF NodeInside
  <2>4. Open' = Open
    BY <1>1 DEF Open
  <2>5. n.kind \notin {"open", "close"}
    BY <2>1
  <2> QED
    BY <1>1, <1>2, <1>4, <2>1, <2>2, <2>3, <2>4, <2>5, ExtendsSelf, Trail_Node
<1> QED  BY <1>1, <1>3, <1>4

LEMMA Trail_Init ==
  ASSUME Init PROVE Trail
<1> DEFINE n == Node("open", 1)
<1>1. /\ ast = <<n>> /\ scopes = <<1>> /\ tab = << <<>> >>
  BY DEF Init
<1>2. /\ Len(ast) = 1 /\ ast[1] = n /\ Len(tab) = 1 /\ Len(scopes) = 1
      /\ scopes[1] = 1 /\ DOMAIN scopes = 1..1
  BY <1>1
<1>3. n.kind = "open" /\ n.at = 1 /\ n.uses = <<>> /\ n = Node("open", n.at)
  BY DEF Node
<1> HIDE DEF n
<1>4. Inside(ast, 0) = {} /\ Inside(ast, 1) = {1}
  BY <1>2, <1>3 DEF Inside, Opened, Closed
<1>5. Open = {1}
  BY <1>2 DEF Open
<1>6. \A ds : NodeInside(n, ds, {}, {1})
  BY <1>3 DEF NodeInside
<1>7. \A i \in 1..1 : i = 1 /\ i - 1 = 0
  OBVIOUS
<1> QED  BY <1>2, <1>3, <1>4, <1>5, <1>6, <1>7 DEF Trail

LEMMA Trail_Step ==
  ASSUME Shape, Recorded, Bindings, Trail, [Next]_scopeVars
  PROVE  Trail'
<1>0. Len(tab) \in Nat
  BY DEF Shape, Typed
<1> USE ExtendsSelf
<1>1. CASE OpenBlock
  BY <1>1, Trail_OpenBlock
<1>2. CASE CloseBlock
  BY <1>2, Trail_CloseBlock
<1>3. CASE EndStmt
  BY <1>0, <1>3, Trail_Same DEF EndStmt
<1>4. CASE BreakOrContinue
  BY <1>4, Trail_Jump
<1>5. ASSUME NEW x \in Names, Redefine(x) PROVE Trail'
  BY <1>0, <1>5, Trail_Same DEF Redefine, AtItem, Throw
<1>6. ASSUME NEW x \in Names, NEW xs \in Exps,
             ConstDecl(x, xs) \/ VarDecl(x, xs)
      PROVE  Trail'
  BY <1>6, Trail_Decl DEF ConstDecl, VarDecl
<1>7. ASSUME NEW x \in Names, NEW xs \in Exps, Assign(x, xs) PROVE Trail'
  BY <1>7, Trail_Assign
<1>8. ASSUME NEW xs \in Exps, If(xs) \/ While(xs) PROVE Trail'
  <2> DEFINE n == Node("cond", NoDecl)
  <2>1. n \in NodeType /\ n.kind = "cond"
    <3>1. n \in NodeType
      BY NodeTyped DEF NoDecl
    <3> QED  BY <3>1 DEF Node
  <2>2. /\ pass = "scope" /\ UNCHANGED <<scopes, tab, decls>>
        /\ VisitExp(tab, decls, n, xs)
    BY <1>8 DEF If, While, AtStmt
  <2> HIDE DEF n
  <2>3. n.kind \notin {"open", "close", "const"}
    BY <2>1
  <2> QED  BY <2>1, <2>2, <2>3, Trail_Stmt
<1>9. ASSUME NEW kind \in {"ret", "exp"}, NEW xs \in Exps,
             ReturnOrExp(kind, xs)
      PROVE  Trail'
  <2> DEFINE n == Node(kind, NoDecl)
  <2>1. n \in NodeType /\ n.kind = kind
    <3>1. n \in NodeType
      BY NodeTyped DEF NoDecl
    <3> QED  BY <3>1 DEF Node
  <2>2. /\ pass = "scope" /\ UNCHANGED <<scopes, tab, decls>>
        /\ VisitExp(tab, decls, n, xs)
    BY <1>9 DEF ReturnOrExp, AtStmt
  <2> HIDE DEF n
  <2>3. n.kind \notin {"open", "close", "const"}
    BY <2>1
  <2> QED  BY <2>1, <2>2, <2>3, Trail_Stmt
<1>10. ASSUME NEW x \in Names, RenameSym(x) PROVE Trail'
  <2>1. /\ pass' = "rename" /\ ast' = ast /\ decls' = decls
        /\ Len(tab') = Len(tab)
    BY <1>10, RenameTables DEF RenameSym
  <2> QED  BY <1>0, <2>1, Trail_Same
<1>11. CASE FinishRename
  BY <1>0, <1>11, Trail_Same DEF FinishRename
<1>12. CASE UNCHANGED scopeVars
  BY <1>0, <1>12, Trail_Same DEF scopeVars
<1> QED
  BY <1>1, <1>2, <1>3, <1>4, <1>5, <1>6, <1>7, <1>8, <1>9, <1>10, <1>11, <1>12
     DEF Next, ScopeNext, ScopeOver

-----------------------------------------------------------------------------
(* Whose the names in a table are: each is the name that a declaration of the *)
(* block has now. A constant keeps its name, and a variable that does not is  *)
(* called after its turn.                                                     *)

Owners ==
  \A b \in 1..Len(tab) : \A n \in DOMAIN tab[b] :
    \E d \in 1..Len(decls) : decls[d].block = b /\ ident[d] = n

NamesFrom ==
  \A d \in 1..Len(decls) :
    \/ ident[d] = decls[d].name
    \/ /\ ~decls[d].const
       /\ \E m \in 1..Len(decls) : ident[d] = Renamed(decls[d].name, m)

Owned ==
  /\ pass \in {"rename", "replay"} => Distinct(decls) /\ (CleanNames => Owners)
  /\ pass = "replay" /\ CleanNames => NamesFrom

LEMMA Owned_CloseBlock ==
  ASSUME Shape, Bindings, Renames, CloseBlock
  PROVE  Owned'
<1>1. /\ pass = "scope" /\ UNCHANGED <<record, tab, decls, ident>>
      /\ pass' \in {"scope", "rename"}
  BY DEF CloseBlock, AtItem
<1>2. Declared(tab, decls) /\ \A d \in 1..Len(decls) : ident[d] = decls[d].name
  BY <1>1 DEF Bindings, Renames
<1>3. Distinct(decls)
  BY <1>2 DEF Declared, Distinct
<1>4. Owners
  BY <1>2 DEF Declared, EntryOf, Owners
<1>5. Distinct(decls)' /\ Owners'
  BY <1>1, <1>3, <1>4 DEF Distinct, Owners
<1> QED  BY <1>1, <1>5 DEF Owned

LEMMA Owned_RenameSym ==
  ASSUME Shape, Recorded, Renames, Owned, NEW x \in Names, RenameSym(x)
  PROVE  Owned'
<1>1. /\ pass = "rename" /\ x \in pending
      /\ ident' = [d \in DOMAIN ident |-> set_ident(x, d)]
      /\ UNCHANGED <<pass, record, decls>>
      /\ DOMAIN ident = 1..Len(decls) /\ DOMAIN tab = 1..Len(tab)
  BY DEF RenameSym, Shape, Typed
<1>2. Distinct(decls) /\ RecordOf(record, decls)
  BY <1>1 DEF Renames
<1>3. Distinct(decls)' /\ (CleanNames' => CleanNames)
  BY <1>1, <1>2 DEF Distinct, CleanNames
<1>4. Len(tab') = Len(tab)
  BY RenameTables
<1>5. ASSUME CleanNames, NEW b \in 1..Len(tab), NEW n \in DOMAIN tab'[b]
      PROVE  \E d \in 1..Len(decls) : decls[d].block = b /\ ident'[d] = n
  <2>1. \A d \in 1..Len(decls) :
          ident'[d] = IF decls[d].name = x /\ ~decls[d].const
                      THEN Renamed(x, Turn(x, decls[d].block)) ELSE ident[d]
    BY <1>1, <1>5, SetIdent
  <2>2. \A d \in 1..Len(decls) :
          decls[d].name = x /\ ~decls[d].const => ident[d] = x
    <3> SUFFICES ASSUME NEW d \in 1..Len(decls),
                        decls[d].name = x /\ ~decls[d].const
                 PROVE  ident[d] = x
      OBVIOUS
    <3>1. KeptAs(d, NameNow(d))
      BY <1>1, <1>5 DEF Renames
    <3> QED  BY <1>1, <3>1 DEF KeptAs, NameNow
  <2>3. CASE n \in DOMAIN tab[b] /\ n # x
    <3>1. PICK d \in 1..Len(decls) : decls[d].block = b /\ ident[d] = n
      BY <1>1, <1>5, <2>3 DEF Owned, Owners
    <3> QED  BY <2>1, <2>2, <2>3, <3>1
  <2>4. CASE b \in Renaming(x)
    <3>1. DOMAIN tab'[b] = (DOMAIN tab[b] \cup {Renamed(x, Turn(x, b))}) \ {x}
      BY <2>4, RenamedTable
    <3>2. PICK e \in 1..Len(decls) :
            decls[e].name = x /\ ~decls[e].const /\ decls[e].block = b
      BY <1>1, <1>5, <2>4, RenamingDeclared
    <3>3. (n \in DOMAIN tab[b] /\ n # x) \/ n = Renamed(x, Turn(x, b))
      BY <1>5, <3>1
    <3>4. ident'[e] = Renamed(x, Turn(x, b))
      BY <2>1, <3>2
    <3> QED  BY <2>3, <3>2, <3>3, <3>4
  <2>5. CASE b \notin Renaming(x)
    <3>1. tab'[b] = tab[b]
      BY <1>1, <2>5 DEF RenameSym
    <3>2. PICK d \in 1..Len(decls) : decls[d].block = b /\ ident[d] = n
      BY <1>1, <1>5, <3>1 DEF Owned, Owners
    <3>3. ~ (decls[d].name = x /\ ~decls[d].const)
      BY <1>2, <2>5, <3>2, DeclaredRenaming
    <3> QED  BY <2>1, <3>2, <3>3
  <2> QED  BY <2>4, <2>5
<1>6. CleanNames' => Owners'
  BY <1>1, <1>3, <1>4, <1>5 DEF Owners
<1> QED  BY <1>1, <1>3, <1>6 DEF Owned

LEMMA Owned_FinishRename ==
  ASSUME Shape, Renames, Owned, FinishRename
  PROVE  Owned'
<1>1. /\ pass = "rename" /\ pending = {} /\ pass' = "replay"
      /\ UNCHANGED <<tab, decls, ident>>
  BY DEF FinishRename
<1>2. Distinct(decls) /\ (CleanNames => Owners)
  BY <1>1 DEF Owned
<1>3. Distinct(decls)' /\ (CleanNames' => CleanNames) /\ (Owners => Owners')
  BY <1>1, <1>2 DEF Distinct, CleanNames, Owners
<1>4. ASSUME CleanNames, NEW d \in 1..Len(decls)
      PROVE  \/ ident[d] = decls[d].name
             \/ /\ ~decls[d].const
                /\ \E m \in 1..Len(decls) : ident[d] = Renamed(decls[d].name, m)
  <2>1. KeptAs(d, NameNow(d)) /\ RecordOf(record, decls)
    BY <1>1, <1>4 DEF Renames
  <2>2. ident[d] = NameNow(d)
    BY <2>1 DEF KeptAs
  <2>3. CASE decls[d].const \/ Len(record[decls[d].name]) <= 1
    BY <2>2, <2>3 DEF NameNow
  <2>4. CASE ~decls[d].const /\ ~ (Len(record[decls[d].name]) <= 1)
    <3>1. ident[d] = Renamed(decls[d].name, Turn(decls[d].name, decls[d].block))
      BY <1>1, <2>2, <2>4 DEF NameNow
    <3>2. Turn(decls[d].name, decls[d].block) \in 1..Len(decls)
      BY <2>1, <2>4, DeclaredRenaming
    <3> QED  BY <2>4, <3>1, <3>2
  <2> QED  BY <2>3, <2>4
<1>5. CleanNames' => NamesFrom'
  BY <1>1, <1>3, <1>4 DEF NamesFrom
<1> QED  BY <1>1, <1>2, <1>3, <1>5 DEF Owned

LEMMA Owned_Step ==
  ASSUME Shape, Recorded, Bindings, Renames, Owned, [Next]_scopeVars
  PROVE  Owned'
<1>1. CASE OpenBlock \/ EndStmt \/ BreakOrContinue
  BY <1>1 DEF OpenBlock, EndStmt, BreakOrContinue, AtStmt, Throw, Owned
<1>2. CASE CloseBlock
  BY <1>2, Owned_CloseBlock
<1>3. ASSUME NEW x \in Names, Redefine(x) PROVE Owned'
  BY <1>3 DEF Redefine, Throw, Owned
<1>4. ASSUME NEW x \in Names, NEW xs \in Exps,
             ConstDecl(x, xs) \/ VarDecl(x, xs)
      PROVE  Owned'
  <2>1. pass = "scope" /\ pass' \in {"scope", "throw"}
    BY <1>4 DEF ConstDecl, VarDecl, Decl, AtItem, VisitExp, Throw
  <2> QED  BY <2>1 DEF Owned
<1>5. ASSUME NEW x \in Names, NEW xs \in Exps, Assign(x, xs) PROVE Owned'
  <2>1. pass = "scope" /\ pass' \in {"scope", "throw"}
    BY <1>5 DEF Assign, AtStmt, VisitExp, Throw
  <2> QED  BY <2>1 DEF Owned
<1>6. ASSUME NEW xs \in Exps, If(xs) \/ While(xs) PROVE Owned'
  <2>1. pass = "scope" /\ pass' \in {"scope", "throw"}
    BY <1>6 DEF If, While, AtStmt, VisitExp, Throw
  <2> QED  BY <2>1 DEF Owned
<1>7. ASSUME NEW kind \in {"ret", "exp"}, NEW xs \in Exps,
             ReturnOrExp(kind, xs)
      PROVE  Owned'
  <2>1. pass = "scope" /\ pass' \in {"scope", "throw"}
    BY <1>7 DEF ReturnOrExp, AtStmt, VisitExp, Throw
  <2> QED  BY <2>1 DEF Owned
<1>8. ASSUME NEW x \in Names, RenameSym(x) PROVE Owned'
  BY <1>8, Owned_RenameSym
<1>9. CASE FinishRename
  BY <1>9, Owned_FinishRename
<1>10. CASE UNCHANGED scopeVars
  BY <1>10 DEF scopeVars, Owned, Distinct, CleanNames, Owners, NamesFrom
<1> QED
  BY <1>1, <1>2, <1>3, <1>4, <1>5, <1>6, <1>7, <1>8, <1>9, <1>10
     DEF Next, ScopeNext, ScopeOver

-----------------------------------------------------------------------------
(* The second walk. The scopes it has pushed are the blocks that the first    *)
(* pass had open at the same node.                                            *)

Result == [num : BOOLEAN, val : SUBSET Nat, var : Nat]

Rising(s) == \A i, j \in 1..Len(s) : i < j => s[i] < s[j]
Members(s) == {s[i] : i \in 1..Len(s)}

Walk ==
  /\ pass # "replay" => stage = "visit" /\ cscopes = <<>> /\ out = <<>>
  /\ stage \in {"visit", "done", "throw", "abort"}
  /\ cscopes \in Seq(Nat) /\ out \in Seq(Seq(Result))
  /\ Len(out) <= Len(ast)
  /\ Rising(cscopes) /\ Members(cscopes) = Inside(ast, Len(out))

\* The top of a stack that rises is its greatest member.
LEMMA RisingTop ==
  ASSUME NEW s \in Seq(Nat), Rising(s), NEW b \in Members(s)
  PROVE  /\ Len(s) > 0 /\ s[Len(s)] \in Members(s)
         /\ \A c \in Members(s) : c <= s[Len(s)]
         /\ (\A c \in Members(s) : c <= b) => s[Len(s)] = b
<1>1. PICK k \in 1..Len(s) : b = s[k]
  BY DEF Members
<1>2. Len(s) > 0 /\ Len(s) \in 1..Len(s) /\ s[Len(s)] \in Nat
  BY <1>1
<1>3. \A i \in 1..Len(s) : s[i] <= s[Len(s)]
  <2> TAKE i \in 1..Len(s)
  <2>1. i = Len(s) \/ i < Len(s)
    BY <1>2
  <2>2. s[i] \in Nat
    OBVIOUS
  <2> QED  BY <1>2, <2>1, <2>2 DEF Rising
<1>4. s[Len(s)] \in Members(s)
  BY <1>2 DEF Members
<1>5. \A c \in Members(s) : c <= s[Len(s)]
  BY <1>3 DEF Members
<1>6. (\A c \in Members(s) : c <= b) => s[Len(s)] = b
  <2> HAVE \A c \in Members(s) : c <= b
  <2>1. b \in Nat /\ b <= s[Len(s)] /\ s[Len(s)] <= b
    BY <1>1, <1>3, <1>4
  <2> QED  BY <1>2, <2>1
<1> QED  BY <1>2, <1>4, <1>5, <1>6

LEMMA RisingPop ==
  ASSUME NEW s \in Seq(Nat), Rising(s), Len(s) > 0
  PROVE  LET r == SubSeq(s, 1, Len(s) - 1)
         IN r \in Seq(Nat) /\ Rising(r) /\ Members(r) = Members(s) \ {s[Len(s)]}
<1> DEFINE k == Len(s) - 1
           r == SubSeq(s, 1, k)
<1>1. /\ r \in Seq(Nat) /\ Len(r) = k /\ k \in Nat
      /\ \A i \in 1..k : r[i] = s[i]
  BY Pop
<1>2. 1..Len(s) = 1..k \cup {Len(s)} /\ Len(s) \in 1..Len(s)
  OBVIOUS
<1>3. \A i \in 1..k : i \in 1..Len(s) /\ s[i] < s[Len(s)]
  <2> TAKE i \in 1..k
  <2>1. i \in 1..Len(s) /\ i < Len(s)
    BY <1>2
  <2> QED  BY <1>2, <2>1 DEF Rising
<1>4. \A i \in 1..k : s[i] # s[Len(s)]
  <2> TAKE i \in 1..k
  <2>1. s[i] \in Nat /\ s[Len(s)] \in Nat
    BY <1>2, <1>3
  <2> QED  BY <1>3, <2>1
<1> HIDE DEF r, k
<1>5. Rising(r)
  BY <1>1, <1>3 DEF Rising
<1>6. Members(r) = Members(s) \ {s[Len(s)]}
  <2>1. Members(r) = {s[i] : i \in 1..k}
    BY <1>1 DEF Members
  <2>2. Members(s) = {s[i] : i \in 1..k} \cup {s[Len(s)]}
    BY <1>2 DEF Members
  <2> QED  BY <1>4, <2>1, <2>2
<1> QED  BY <1>1, <1>5, <1>6 DEF r, k

LEMMA RisingPush ==
  ASSUME NEW s \in Seq(Nat), Rising(s), NEW b \in Nat,
         \A c \in Members(s) : c < b
  PROVE  /\ Append(s, b) \in Seq(Nat) /\ Rising(Append(s, b))
         /\ Members(Append(s, b)) = Members(s) \cup {b}
<1> DEFINE r == Append(s, b)
           k == Len(s)
<1>1. /\ r \in Seq(Nat) /\ Len(r) = k + 1 /\ r[k + 1] = b /\ k \in Nat
      /\ \A i \in 1..k : r[i] = s[i] /\ s[i] < b
  BY Push DEF Members
<1>2. 1..(k + 1) = 1..k \cup {k + 1}
  BY <1>1
<1> HIDE DEF r, k
<1>3. Rising(r)
  <2> SUFFICES ASSUME NEW i \in 1..k + 1, NEW j \in 1..k + 1, i < j
               PROVE  r[i] < r[j]
    BY <1>1 DEF Rising
  <2>1. i \in 1..k
    BY <1>1
  <2>2. j \in 1..k \/ j = k + 1
    BY <1>1
  <2> QED  BY <1>1, <2>1, <2>2 DEF Rising, k
<1>4. Members(r) = Members(s) \cup {b}
  <2>1. Members(r) = {r[i] : i \in 1..k} \cup {r[k + 1]}
    BY <1>1, <1>2 DEF Members
  <2>2. Members(s) = {r[i] : i \in 1..k}
    BY <1>1 DEF Members, k
  <2> QED  BY <1>1, <2>1, <2>2
<1> QED  BY <1>1, <1>3, <1>4 DEF r

\* The blocks that are open at a node have tables.
LEMMA InsideTables ==
  ASSUME Trail, NEW i \in 0..Len(ast), Len(ast) \in Nat
  PROVE  Inside(ast, i) \subseteq 1..Len(tab)
<1>1. \A k \in 1..i : k \in 1..Len(ast)
  OBVIOUS
<1> QED  BY <1>1 DEF Trail, Inside, Opened

\* The node that is visited next, and the blocks open at it.
LEMMA NextNode ==
  ASSUME Shape, Bindings, Trail, Walk, pass = "replay", Pc \in DOMAIN ast
  PROVE  /\ Pc \in 1..Len(ast) /\ Here \in NodeType /\ Len(out) \in Nat
         /\ Pc = Len(out) + 1 /\ GoodNode(decls, Here)
         /\ NodeInside(Here, decls, Members(cscopes), Inside(ast, Pc))
         /\ Here.kind \in {"open", "close"} => Here.at \in 1..Len(tab)
         /\ Inside(ast, Pc) \subseteq 1..Len(tab)
         /\ Members(cscopes) \subseteq 1..Len(tab)
<1>1. /\ ast \in Seq(NodeType) /\ Len(ast) \in Nat /\ DOMAIN ast = 1..Len(ast)
      /\ Len(out) \in Nat /\ Len(out) <= Len(ast)
      /\ Members(cscopes) = Inside(ast, Len(out))
  BY DEF Shape, Typed, Walk
<1>2. /\ Pc \in 1..Len(ast) /\ Pc - 1 = Len(out) /\ Pc = Len(out) + 1
      /\ Pc \in 0..Len(ast) /\ Len(out) \in 0..Len(ast)
  BY <1>1 DEF Pc
<1>3. Here \in NodeType
  BY <1>1, <1>2 DEF Here
<1>4. GoodNode(decls, Here)
  BY <1>2 DEF Bindings, GoodNodes, Here
<1>5. /\ NodeInside(Here, decls, Members(cscopes), Inside(ast, Pc))
      /\ Here.kind \in {"open", "close"} => Here.at \in 1..Len(tab)
  BY <1>1, <1>2 DEF Trail, Here
<1>6. /\ Inside(ast, Pc) \subseteq 1..Len(tab)
      /\ Inside(ast, Len(out)) \subseteq 1..Len(tab)
  BY <1>1, <1>2, InsideTables
<1> QED  BY <1>1, <1>2, <1>3, <1>4, <1>5, <1>6

LEMMA CPHoldersMax ==
  ASSUME cscopes \in Seq(Nat), NEW x, CPHolders(x) # {}
  PROVE  /\ Max(CPHolders(x)) \in CPHolders(x)
         /\ \A i \in CPHolders(x) : i <= Max(CPHolders(x))
<1>1. CPHolders(x) \subseteq 0..Len(cscopes) /\ Len(cscopes) \in Nat
  BY DEF CPHolders
<1> QED  BY <1>1, MaxOfBounded

\* What a use is replaced by.
LEMMA VisitedTyped ==
  ASSUME Shape, cscopes \in Seq(Nat), Members(cscopes) \subseteq 1..Len(tab),
         NEW u \in UseType, CPHolders(Repr(u)) # {}
  PROVE  Visited(u) \in Result
<1> DEFINE x == Repr(u)
           m == Max(CPHolders(x))
<1>1. m \in CPHolders(x)
  BY CPHoldersMax
<1> HIDE DEF x, m
<1>2. m \in 1..Len(cscopes) /\ x \in DOMAIN tab[cscopes[m]]
  BY <1>1 DEF CPHolders
<1>3. cscopes[m] \in 1..Len(tab) /\ tab \in Seq(Table)
  BY <1>2 DEF Members, Shape, Typed
<1>4. tab[cscopes[m]][x] \in Entry
  <2>1. tab[cscopes[m]] \in Table
    BY <1>3
  <2> QED  BY <1>2, <2>1, TableEntry
<1>5. Found(x) \in Entry
  BY <1>4 DEF Found, m
<1>6. u.var \in Nat
  BY DEF UseType
<1>7. Raw(u) \in Result
  BY <1>6 DEF Raw, Result
<1>8. [num |-> TRUE, val |-> Found(x).val, var |-> NoDecl] \in Result
  BY <1>5 DEF Entry, Result, NoDecl
<1> QED  BY <1>7, <1>8 DEF Visited, x

LEMMA ResultsTyped ==
  ASSUME Shape, Bindings, Trail, Walk, pass = "replay", Pc \in DOMAIN ast
  PROVE  /\ Unvisited(Here.uses) \in Seq(Result)
         /\ Len(Unvisited(Here.uses)) = Len(Here.uses)
         /\ ~Lost(Here.uses) =>
              /\ Results(Here.uses) \in Seq(Result)
              /\ Len(Results(Here.uses)) = Len(Here.uses)
<1> DEFINE us == Here.uses
<1>1. /\ us \in Seq(UseType) /\ Len(us) \in Nat /\ DOMAIN us = 1..Len(us)
      /\ cscopes \in Seq(Nat) /\ Members(cscopes) \subseteq 1..Len(tab)
  <2>1. Here \in NodeType /\ Members(cscopes) \subseteq 1..Len(tab)
    BY NextNode
  <2> QED  BY <2>1 DEF NodeType, Walk
<1> HIDE DEF us
<1>2. \A j \in 1..Len(us) : Raw(us[j]) \in Result
  <2> TAKE j \in 1..Len(us)
  <2>1. us[j] \in UseType
    BY <1>1
  <2>2. us[j].var \in Nat
    BY <2>1 DEF UseType
  <2> QED  BY <2>2 DEF Raw, Result
<1>3. Unvisited(us) \in [1..Len(us) -> Result]
  BY <1>1, <1>2 DEF Unvisited
<1>4. Unvisited(us) \in Seq(Result) /\ Len(Unvisited(us)) = Len(us)
  BY <1>1, <1>3
<1>5. ASSUME ~Lost(us)
      PROVE  Results(us) \in Seq(Result) /\ Len(Results(us)) = Len(us)
  <2>1. \A j \in 1..Len(us) : Visited(us[j]) \in Result
    BY <1>1, <1>5, VisitedTyped DEF Lost
  <2>2. Results(us) \in [1..Len(us) -> Result]
    BY <1>1, <2>1 DEF Results
  <2> QED  BY <1>1, <2>2
<1> QED  BY <1>4, <1>5 DEF us

\* A visited node that opens and closes no block.
LEMMA Walk_Node ==
  ASSUME Shape, Bindings, Trail, Walk, pass = "replay", Pc \in DOMAIN ast,
         Here.kind \notin {"open", "close"}, NEW r \in Seq(Result),
         out' = Append(out, r), UNCHANGED <<pass, stage, cscopes, ast>>
  PROVE  Walk'
<1>1. /\ Pc \in 1..Len(ast) /\ Len(out) \in Nat /\ Pc = Len(out) + 1
      /\ NodeInside(Here, decls, Members(cscopes), Inside(ast, Pc))
  BY NextNode
<1>2. /\ out' \in Seq(Seq(Result)) /\ Len(out') = Len(out) + 1
  BY Push DEF Walk
<1>3. Inside(ast, Pc) = Members(cscopes)
  BY <1>1 DEF NodeInside
<1>4. Len(ast) \in Nat
  BY DEF Shape, Typed
<1>5. Len(out') <= Len(ast') /\ Members(cscopes)' = Inside(ast, Len(out))'
  BY <1>1, <1>2, <1>3, <1>4 DEF Members
<1> QED  BY <1>2, <1>5 DEF Walk, Rising

\* A step that visits no node.
LEMMA Walk_Same ==
  ASSUME Walk, UNCHANGED <<ast, cscopes, out, pass>>,
         stage' \in {"visit", "done", "throw", "abort"},
         pass # "replay" => stage' = stage
  PROVE  Walk'
<1>1. /\ Rising(cscopes') /\ Members(cscopes') = Inside(ast', Len(out'))
      /\ Len(out') <= Len(ast')
  BY DEF Walk
<1> QED  BY <1>1 DEF Walk, Rising, Members

LEMMA Walk_Open ==
  ASSUME Shape, Bindings, Trail, Walk, VisitOpen
  PROVE  Walk'
<1>1. /\ pass = "replay" /\ stage = "visit" /\ Pc \in DOMAIN ast
      /\ Here.kind = "open"
      /\ cscopes' = Append(cscopes, Here.at) /\ out' = Append(out, <<>>)
      /\ UNCHANGED <<pass, stage, ast>>
  BY DEF VisitOpen, At, push, scopeVars, Here
<1>2. /\ Pc \in 1..Len(ast) /\ Len(out) \in Nat /\ Pc = Len(out) + 1
      /\ NodeInside(Here, decls, Members(cscopes), Inside(ast, Pc))
      /\ Here.at \in 1..Len(tab)
  BY <1>1, NextNode
<1>3. /\ out' \in Seq(Seq(Result)) /\ Len(out') = Len(out) + 1
  <2>1. <<>> \in Seq(Result)
    OBVIOUS
  <2> QED  BY <1>1, <2>1, Push DEF Walk
<1>4. /\ Inside(ast, Pc) = Members(cscopes) \cup {Here.at}
      /\ \A c \in Members(cscopes) : c < Here.at
  BY <1>1, <1>2 DEF NodeInside
<1>5. /\ cscopes' \in Seq(Nat) /\ Rising(cscopes')
      /\ Members(cscopes') = Members(cscopes) \cup {Here.at}
  <2>1. Here.at \in Nat /\ cscopes \in Seq(Nat) /\ Rising(cscopes)
    BY <1>2 DEF Walk
  <2> QED  BY <1>1, <1>4, <2>1, RisingPush
<1>6. Len(ast) \in Nat
  BY DEF Shape, Typed
<1>7. Len(out') <= Len(ast')
  BY <1>1, <1>2, <1>3, <1>6
<1>8. Members(cscopes') = Inside(ast', Len(out'))
  BY <1>1, <1>2, <1>3, <1>4, <1>5
<1> QED  BY <1>1, <1>3, <1>5, <1>7, <1>8 DEF Walk, Rising, Members

LEMMA Walk_Close ==
  ASSUME Shape, Bindings, Trail, Walk, VisitClose
  PROVE  Walk'
<1>1. /\ pass = "replay" /\ stage = "visit" /\ Pc \in DOMAIN ast
      /\ Here.kind = "close"
      /\ cscopes' = SubSeq(cscopes, 1, Len(cscopes) - 1)
      /\ out' = Append(out, <<>>)
      /\ UNCHANGED <<pass, stage, ast>>
  BY DEF VisitClose, At, scopeVars, Here
<1>2. /\ Pc \in 1..Len(ast) /\ Len(out) \in Nat /\ Pc = Len(out) + 1
      /\ NodeInside(Here, decls, Members(cscopes), Inside(ast, Pc))
  BY <1>1, NextNode
<1>3. /\ out' \in Seq(Seq(Result)) /\ Len(out') = Len(out) + 1
  <2>1. <<>> \in Seq(Result)
    OBVIOUS
  <2> QED  BY <1>1, <2>1, Push DEF Walk
<1>4. /\ Inside(ast, Pc) = Members(cscopes) \ {Here.at}
      /\ Here.at \in Members(cscopes)
      /\ \A c \in Members(cscopes) : c <= Here.at
  BY <1>1, <1>2 DEF NodeInside
<1>5. /\ cscopes' \in Seq(Nat) /\ Rising(cscopes')
      /\ Members(cscopes') = Members(cscopes) \ {Here.at}
  <2>1. cscopes \in Seq(Nat) /\ Rising(cscopes)
    BY DEF Walk
  <2>2. Len(cscopes) > 0 /\ cscopes[Len(cscopes)] = Here.at
    BY <1>4, <2>1, RisingTop
  <2> QED  BY <1>1, <2>1, <2>2, RisingPop
<1>6. Len(ast) \in Nat
  BY DEF Shape, Typed
<1>7. Len(out') <= Len(ast')
  BY <1>1, <1>2, <1>3, <1>6
<1>8. Members(cscopes') = Inside(ast', Len(out'))
  BY <1>1, <1>2, <1>3, <1>4, <1>5
<1> QED  BY <1>1, <1>3, <1>5, <1>7, <1>8 DEF Walk, Rising, Members

-----------------------------------------------------------------------------
(* What the second walk finds where the first one bound a use.                *)

\* The declaration whose entry is found for a use: no other of that name is in
\* a block further inside.
FoundFor(d, u) ==
  /\ decls[d].block \in Members(cscopes) /\ ident[d] = Repr(u)
  /\ Found(Repr(u)) = tab[decls[d].block][ident[d]]
  /\ \A e \in 1..Len(decls) :
       decls[e].block \in Members(cscopes) /\ ident[e] = Repr(u) =>
         decls[e].block <= decls[d].block

\* After the renaming each table has its declarations, by their names of now.
LEMMA TablesNow ==
  ASSUME Shape, Renames, Owned, CleanNames, pass = "replay"
  PROVE  /\ DOMAIN decls = 1..Len(decls) /\ Distinct(decls)
         /\ \A d \in 1..Len(decls) :
              LET t == tab[decls[d].block]
              IN /\ ident[d] \in DOMAIN t /\ t[ident[d]].const = decls[d].const
                 /\ ~decls[d].const => t[ident[d]].var = d
         /\ \A d \in 1..Len(decls) : decls[d].const => ident[d] = decls[d].name
         /\ \A d, e \in 1..Len(decls) :
              ~decls[d].const /\ ~decls[e].const /\ ident[d] = ident[e] => d = e
         /\ \A d, e \in 1..Len(decls) :
              ident[d] = decls[e].name => decls[d].name = decls[e].name
<1>1. DOMAIN decls = 1..Len(decls)
  BY DEF Shape, Typed
<1>2. RenamedUnique /\ TablesKeepDecls
  BY DEF Renames
<1>3. NamesFrom /\ Distinct(decls)
  BY DEF Owned
<1>4. \A d \in 1..Len(decls) : decls[d].const => ident[d] = decls[d].name
  BY <1>3 DEF NamesFrom
<1>5. \A d, e \in 1..Len(decls) :
        ident[d] = decls[e].name => decls[d].name = decls[e].name
  BY <1>1, <1>3 DEF NamesFrom, CleanNames
<1>6. \A d \in 1..Len(decls) :
        LET t == tab[decls[d].block]
        IN /\ ident[d] \in DOMAIN t /\ t[ident[d]].const = decls[d].const
           /\ ~decls[d].const => t[ident[d]].var = d
  BY <1>1, <1>2 DEF TablesKeepDecls
<1>7. \A d, e \in 1..Len(decls) :
        ~decls[d].const /\ ~decls[e].const /\ ident[d] = ident[e] => d = e
  BY <1>1, <1>2 DEF RenamedUnique
<1> QED  BY <1>1, <1>3, <1>4, <1>5, <1>6, <1>7

\* A name that some declaration in an open block has now is found, and so is
\* the innermost such declaration.
LEMMA FoundInnermost ==
  ASSUME Shape, Bindings, Renames, Trail, Owned, Walk, CleanNames,
         pass = "replay", Pc \in DOMAIN ast, NEW u,
         NEW a \in 1..Len(decls), decls[a].block \in Members(cscopes),
         ident[a] = Repr(u)
  PROVE  /\ CPHolders(Repr(u)) # {}
         /\ \E d \in 1..Len(decls) : FoundFor(d, u)
<1> DEFINE x == Repr(u)
           m == Max(CPHolders(x))
<1>1. /\ cscopes \in Seq(Nat) /\ Rising(cscopes)
      /\ DOMAIN cscopes = 1..Len(cscopes)
  BY DEF Walk
<1>2. \A e \in 1..Len(decls) : ident[e] \in DOMAIN tab[decls[e].block]
  BY TablesNow
<1>3. ASSUME NEW e \in 1..Len(decls), decls[e].block \in Members(cscopes),
             ident[e] = x
      PROVE  \E i \in CPHolders(x) : cscopes[i] = decls[e].block
  <2>1. PICK i \in 1..Len(cscopes) : cscopes[i] = decls[e].block
    BY <1>3 DEF Members
  <2>2. x \in DOMAIN tab[cscopes[i]]
    BY <1>2, <1>3, <2>1
  <2>3. i \in CPHolders(x)
    BY <1>1, <2>2 DEF CPHolders
  <2> QED  BY <2>1, <2>3
<1>4. CPHolders(x) # {}
  BY <1>3
<1>5. m \in CPHolders(x) /\ \A i \in CPHolders(x) : i <= m
  BY <1>1, <1>4, CPHoldersMax
<1> HIDE DEF m, x
<1>6. m \in 1..Len(cscopes) /\ x \in DOMAIN tab[cscopes[m]]
  BY <1>1, <1>5 DEF CPHolders
<1>7. cscopes[m] \in Members(cscopes) /\ cscopes[m] \in 1..Len(tab)
  <2>1. Members(cscopes) \subseteq 1..Len(tab)
    BY NextNode
  <2>2. cscopes[m] \in Members(cscopes)
    BY <1>6 DEF Members
  <2> QED  BY <2>1, <2>2
<1>8. PICK d \in 1..Len(decls) : decls[d].block = cscopes[m] /\ ident[d] = x
  BY <1>6, <1>7 DEF Owned, Owners
<1>9. Found(x) = tab[decls[d].block][ident[d]]
  BY <1>8 DEF Found, m
<1>10. ASSUME NEW e \in 1..Len(decls), decls[e].block \in Members(cscopes),
              ident[e] = x
       PROVE  decls[e].block <= decls[d].block
  <2>1. PICK i \in CPHolders(x) : cscopes[i] = decls[e].block
    BY <1>3, <1>10
  <2>2. i <= m /\ i \in 1..Len(cscopes) /\ i \in Nat /\ m \in Nat
    BY <1>1, <1>5, <1>6 DEF CPHolders
  <2>3. i = m \/ i < m
    BY <2>2
  <2>4. cscopes[i] \in Nat /\ cscopes[m] \in Nat
    BY <1>1, <1>6, <2>2
  <2> QED  BY <1>1, <1>6, <1>8, <2>1, <2>2, <2>3, <2>4 DEF Rising
<1>11. FoundFor(d, u)
  BY <1>7, <1>8, <1>9, <1>10 DEF FoundFor, x
<1> QED  BY <1>4, <1>11 DEF x

\* Every use of the program is found.
LEMMA UseIsFound ==
  ASSUME Shape, Bindings, Renames, Trail, Owned, Walk, CleanNames,
         pass = "replay", Pc \in DOMAIN ast, Here.kind \notin {"open", "close"},
         NEW j \in 1..Len(Here.uses)
  PROVE  LET u == Here.uses[j]
         IN CPHolders(Repr(u)) # {} /\ \E d \in 1..Len(decls) : FoundFor(d, u)
<1> DEFINE u == Here.uses[j]
<1>1. /\ GoodNode(decls, Here)
      /\ NodeInside(Here, decls, Members(cscopes), Members(cscopes))
  <2>1. /\ GoodNode(decls, Here)
        /\ NodeInside(Here, decls, Members(cscopes), Inside(ast, Pc))
    BY NextNode
  <2>2. Inside(ast, Pc) = Members(cscopes)
    BY <2>1 DEF NodeInside
  <2> QED  BY <2>1, <2>2
<1>2. GoodUse(decls, u) /\ UseInside(decls, Members(cscopes), u)
  BY <1>1 DEF GoodNode, NodeInside
<1> HIDE DEF u
<1>3. \E a \in 1..Len(decls) :
        decls[a].block \in Members(cscopes) /\ ident[a] = Repr(u)
  <2>1. CASE u.var # NoDecl
    BY <1>2, <2>1 DEF GoodUse, UseInside, Repr
  <2>2. CASE u.var = NoDecl
    <3>1. PICK d \in 1..Len(decls) : /\ decls[d].const /\ decls[d].name = u.name
                                     /\ decls[d].block \in Members(cscopes)
      BY <1>2, <2>2 DEF UseInside
    <3>2. ident[d] = decls[d].name
      BY <3>1, TablesNow
    <3> QED  BY <2>2, <3>1, <3>2 DEF Repr
  <2> QED  BY <2>1, <2>2
<1>4. CPHolders(Repr(u)) # {} /\ \E d \in 1..Len(decls) : FoundFor(d, u)
  BY <1>3, FoundInnermost
<1> QED  BY <1>4 DEF u

\* The blocks around a node, as the properties name them.
LEMMA EnclosingIsInside ==
  ASSUME Shape, Trail, NEW i \in 0..Len(ast)
  PROVE  Enclosing(i) = Inside(ast, i)
<1>1. /\ DOMAIN tab = 1..Len(tab) /\ Len(ast) \in Nat
  BY DEF Shape, Typed
<1>2. \A k \in 1..i : k \in 1..Len(ast)
  BY <1>1
<1>3. \A k \in 1..i : \A b : ast[k] = Node("open", b) <=>
                           ast[k].kind = "open" /\ ast[k].at = b
  <2>1. \A b : Node("open", b).kind = "open" /\ Node("open", b).at = b
    BY DEF Node
  <2> QED  BY <1>2, <2>1 DEF Trail, NodeInside
<1>4. \A k \in 1..i : \A b : ast[k] = Node("close", b) <=>
                           ast[k].kind = "close" /\ ast[k].at = b
  <2>1. \A b : Node("close", b).kind = "close" /\ Node("close", b).at = b
    BY DEF Node
  <2> QED  BY <1>2, <2>1 DEF Trail, NodeInside
<1>5. Inside(ast, i) \subseteq 1..Len(tab)
  BY <1>1, InsideTables
<1>6. ASSUME NEW b
      PROVE  /\ b \in Opened(ast, i) <=>
                  \E k \in 1..i : ast[k] = Node("open", b)
             /\ b \in Closed(ast, i) <=>
                  \E k \in 1..i : ast[k] = Node("close", b)
  BY <1>3, <1>4 DEF Opened, Closed
<1> QED  BY <1>1, <1>5, <1>6 DEF Enclosing, Inside

\* What is found for a use that does not hide a constant is the declaration C
\* means, or a late one.
LEMMA FoundIsLexical ==
  ASSUME Shape, Bindings, Renames, Trail, Owned, Walk, CleanNames,
         pass = "replay", Pc \in DOMAIN ast, Here.kind \notin {"open", "close"},
         NEW j \in 1..Len(Here.uses), ~HiddenVar(Here.uses[j]),
         NEW d \in 1..Len(decls), FoundFor(d, Here.uses[j])
  PROVE  d = Here.uses[j].lex \/ LateDecl(Pc, Here.uses[j])
<1> DEFINE u == Here.uses[j]
           l == u.lex
<1>1. /\ GoodNode(decls, Here) /\ Pc \in 1..Len(ast) /\ Len(ast) \in Nat
      /\ NodeInside(Here, decls, Members(cscopes), Inside(ast, Pc))
  BY NextNode DEF Shape, Typed
<1>2. Inside(ast, Pc) = Members(cscopes)
  BY <1>1 DEF NodeInside
<1>3. GoodUse(decls, u) /\ UseInside(decls, Members(cscopes), u)
  BY <1>1, <1>2 DEF GoodNode, NodeInside
<1>4. Enclosing(Pc) = Members(cscopes)
  <2>1. Pc \in 0..Len(ast)
    BY <1>1
  <2> QED  BY <1>2, <2>1, EnclosingIsInside
<1> HIDE DEF u
<1>5. /\ l \in 1..Len(decls) /\ decls[l].name = u.name
      /\ decls[l].block \in Members(cscopes)
      /\ u.var # NoDecl => u.var = l /\ ~decls[l].const
      /\ u.var = NoDecl => decls[l].const
      /\ \A e \in 1..l : decls[e].block \in Members(cscopes) =>
                           decls[e].block <= decls[l].block
  BY <1>3 DEF GoodUse, UseInside, HiddenVar, u
<1>6. ident[l] = Repr(u)
  <2>1. CASE u.var # NoDecl
    BY <1>5, <2>1 DEF Repr
  <2>2. CASE u.var = NoDecl
    BY <1>5, <2>2, TablesNow DEF Repr
  <2> QED  BY <2>1, <2>2
<1>7. /\ decls[d].block \in Members(cscopes) /\ ident[d] = ident[l]
      /\ decls[l].block <= decls[d].block
  BY <1>5, <1>6 DEF FoundFor, u
<1> SUFFICES ASSUME d # l PROVE LateDecl(Pc, u)
  BY DEF u
<1>8. decls[d].name = decls[l].name /\ (decls[d].const \/ u.var = NoDecl)
  <2>1. CASE u.var = NoDecl
    <3>1. ident[l] = decls[l].name
      BY <1>5, <2>1, TablesNow
    <3> QED  BY <1>5, <1>7, <2>1, <3>1, TablesNow
  <2>2. CASE u.var # NoDecl
    <3>1. decls[d].const
      BY <1>5, <1>7, <2>2, TablesNow
    <3>2. ident[d] = decls[d].name
      BY <3>1, TablesNow
    <3>3. ident[l] = decls[d].name
      BY <1>7, <3>2
    <3>4. decls[l].name = decls[d].name
      BY <1>5, <3>3, TablesNow
    <3> QED  BY <3>1, <3>4
  <2> QED  BY <2>1, <2>2
<1>9. d > l
  <2> SUFFICES ASSUME ~ (d > l) PROVE FALSE
    OBVIOUS
  <2>1. d \in 1..l
    BY <1>5
  <2>2. decls[d].block <= decls[l].block
    BY <1>5, <1>7, <2>1
  <2>3. decls[d].block \in Nat /\ decls[l].block \in Nat
    <3>1. \A e \in 1..Len(decls) : decls[e].block \in 1..Len(tab)
      BY DEF Shape, InTables
    <3> QED  BY <1>5, <3>1
  <2>4. decls[d].block = decls[l].block
    BY <1>7, <2>2, <2>3
  <2> QED  BY <1>5, <1>8, <2>4, TablesNow DEF Distinct
<1>10. DOMAIN decls = 1..Len(decls)
  BY DEF Shape, Typed
<1> QED  BY <1>4, <1>5, <1>7, <1>8, <1>9, <1>10 DEF LateDecl

-----------------------------------------------------------------------------
(* The steps of the second walk.                                              *)

CPInv ==
  Shape /\ Recorded /\ Bindings /\ Renames /\ Trail /\ Owned /\ Walk

\* The scope check goes on as it would alone; the walk has not started.
LEMMA CPInv_Scope ==
  ASSUME CPInv, ScopeNext, UNCHANGED cpVars
  PROVE  CPInv'
<1>1. [Next]_scopeVars
  BY DEF Next
<1>2. Shape' /\ Recorded' /\ Bindings' /\ Renames' /\ Trail' /\ Owned'
  BY <1>1, Step, Bindings_Step, Renames_Step, Trail_Step, Owned_Step DEF CPInv
<1>3. pass # "replay"
  BY DEF ScopeNext, OpenBlock, CloseBlock, EndStmt, BreakOrContinue, AtStmt,
         AtItem, Redefine, ConstDecl, VarDecl, Decl, Assign, If, While,
         ReturnOrExp, RenameSym, FinishRename
<1>4. /\ stage' = "visit" /\ cscopes' = <<>> /\ out' = <<>>
  BY <1>3 DEF CPInv, Walk, cpVars
<1>5. Len(ast') \in Nat
  BY <1>2 DEF Shape, Typed
<1>6. Len(out') = 0 /\ Len(cscopes') = 0 /\ cscopes' \in Seq(Nat)
      /\ out' \in Seq(Seq(Result))
  BY <1>4
<1>7. Inside(ast', 0) = {}
  BY DEF Inside, Opened, Closed
<1>8. Members(cscopes') = {} /\ Rising(cscopes')
  BY <1>6 DEF Members, Rising
<1>9. Walk'
  <2>1. Len(out') <= Len(ast')
    BY <1>5, <1>6
  <2>2. Rising(cscopes)' /\ Members(cscopes)' = Inside(ast, Len(out))'
    BY <1>6, <1>7, <1>8 DEF Rising, Members
  <2> QED  BY <1>4, <1>6, <2>1, <2>2 DEF Walk
<1> QED  BY <1>2, <1>9 DEF CPInv

LEMMA CPInv_Unchanged ==
  ASSUME CPInv, UNCHANGED scopeVars
  PROVE  (Shape /\ Recorded /\ Bindings /\ Renames /\ Trail /\ Owned)'
BY Step, Bindings_Step, Renames_Step, Trail_Step, Owned_Step DEF CPInv

\* The constant that is visited next is declared in the current block.
LEMMA ConstHere ==
  ASSUME CPInv, pass = "replay", Pc \in DOMAIN ast, Here.kind = "const"
  PROVE  /\ Here.at \in 1..Len(decls) /\ decls[Here.at].const
         /\ cscopes[Len(cscopes)] = decls[Here.at].block
         /\ decls[Here.at].block \in 1..Len(tab)
<1>1. NodeInside(Here, decls, Members(cscopes), Inside(ast, Pc))
  BY NextNode DEF CPInv
<1>2. Inside(ast, Pc) = Members(cscopes)
  BY <1>1 DEF NodeInside
<1>3. /\ Here.at \in 1..Len(decls) /\ decls[Here.at].const
      /\ decls[Here.at].block \in Members(cscopes)
      /\ \A c \in Members(cscopes) : c <= decls[Here.at].block
  BY <1>1, <1>2 DEF NodeInside
<1>4. cscopes[Len(cscopes)] = decls[Here.at].block
  <2>1. cscopes \in Seq(Nat) /\ Rising(cscopes)
    BY DEF CPInv, Walk
  <2> QED  BY <1>3, <2>1, RisingTop
<1>5. decls[Here.at].block \in 1..Len(tab)
  BY <1>3 DEF CPInv, Shape, InTables
<1> QED  BY <1>3, <1>4, <1>5

\* The value of a constant is a set of declarations.
LEMMA FoldedTyped ==
  ASSUME NEW r \in Seq(Result), NEW d \in Nat
  PROVE  ConstEntry({d} \cup FoldedVal(r)) \in Entry
<1>1. \A j \in DOMAIN r : r[j].val \in SUBSET Nat
  <2> TAKE j \in DOMAIN r
  <2>1. r[j] \in Result
    OBVIOUS
  <2> QED  BY <2>1 DEF Result
<1>2. FoldedVal(r) \subseteq Nat
  BY <1>1 DEF FoldedVal
<1> QED  BY <1>2 DEF ConstEntry, Entry, NoDecl

\* What visiting a constant does to the tables.
LEMMA ConstTables ==
  ASSUME CPInv, VisitConst
  PROVE  LET d == Here.at
             b == decls[d].block
             n == ident[d]
             e == ConstEntry({d} \cup FoldedVal(Results(Here.uses)))
         IN /\ d \in 1..Len(decls) /\ decls[d].const = TRUE /\ b \in 1..Len(tab)
            /\ e \in Entry /\ e.const = TRUE
            /\ tab' \in Seq(Table) /\ Len(tab') = Len(tab)
            /\ tab'[b] = add_sym(tab[b], n, e)
            /\ DOMAIN tab'[b] = DOMAIN tab[b] \cup {n} /\ tab'[b][n] = e
            /\ \A y \in DOMAIN tab[b] : y # n => tab'[b][y] = tab[b][y]
            /\ \A c \in 1..Len(tab) : c # b => tab'[c] = tab[c]
<1> DEFINE d == Here.at
           b == decls[d].block
           n == ident[d]
           res == Results(Here.uses)
           e == ConstEntry({d} \cup FoldedVal(res))
<1>1. /\ pass = "replay" /\ Pc \in DOMAIN ast /\ Here.kind = "const"
      /\ ~Lost(Here.uses)
      /\ tab' = [tab EXCEPT ![cscopes[Len(cscopes)]] = add_sym(@, n, e)]
  BY DEF VisitConst, Evaluates, At, Here
<1>2. /\ d \in 1..Len(decls) /\ decls[d].const
      /\ cscopes[Len(cscopes)] = b /\ b \in 1..Len(tab)
  BY <1>1, ConstHere
<1>3. decls[d].const = TRUE
  <2>1. decls[d] \in DeclType
    BY <1>2 DEF CPInv, Shape, Typed
  <2> QED  BY <1>2, <2>1 DEF DeclType
<1>4. e \in Entry
  <2>1. res \in Seq(Result)
    BY <1>1, ResultsTyped DEF CPInv
  <2>2. d \in Nat
    BY <1>2 DEF CPInv, Shape, Typed
  <2> QED  BY <2>1, <2>2, FoldedTyped
<1>5. e.const = TRUE
  BY DEF ConstEntry
<1> HIDE DEF e, res
<1>6. tab \in Seq(Table) /\ tab[b] \in Table /\ n \in Ident
  BY <1>2 DEF CPInv, Shape, Typed
<1> HIDE DEF n, b, d
<1>7. tab' = [tab EXCEPT ![b] = add_sym(tab[b], n, e)]
  BY <1>1, <1>2
<1>8. /\ add_sym(tab[b], n, e) \in Table
      /\ DOMAIN add_sym(tab[b], n, e) = DOMAIN tab[b] \cup {n}
      /\ add_sym(tab[b], n, e)[n] = e
      /\ \A y \in DOMAIN tab[b] : y # n => add_sym(tab[b], n, e)[y] = tab[b][y]
  BY <1>4, <1>6, AddSym
<1>9. /\ tab' \in Seq(Table) /\ Len(tab') = Len(tab)
      /\ tab'[b] = add_sym(tab[b], n, e)
      /\ \A c \in 1..Len(tab) : c # b => tab'[c] = tab[c]
  BY <1>2, <1>6, <1>7, <1>8
<1>10. /\ d \in 1..Len(decls) /\ decls[d].const = TRUE /\ b \in 1..Len(tab)
       /\ e \in Entry /\ e.const = TRUE
  BY <1>2, <1>3, <1>4, <1>5
<1>11. /\ DOMAIN tab'[b] = DOMAIN tab[b] \cup {n} /\ tab'[b][n] = e
       /\ \A y \in DOMAIN tab[b] : y # n => tab'[b][y] = tab[b][y]
  BY <1>8, <1>9
<1> QED  BY <1>9, <1>10, <1>11 DEF d, b, n, e, res

\* Visiting a constant keeps what is known of the first pass.
LEMMA VisitConst_Tables ==
  ASSUME CPInv, VisitConst
  PROVE  Shape' /\ Recorded' /\ Bindings' /\ Trail'
<1>1. /\ pass = "replay"
      /\ UNCHANGED <<pass, err, scopes, underWhile, record, pending, decls,
                     ident, frames, ast>>
  BY DEF VisitConst, Evaluates, At
<1>2. tab' \in Seq(Table) /\ Len(tab') = Len(tab)
  BY ConstTables
<1>3. Shape'
  <2>1. Typed'
    BY <1>1, <1>2 DEF CPInv, Shape, Typed
  <2>2. InTables'
    BY <1>1, <1>2 DEF CPInv, Shape, InTables
  <2>3. Depths'
    BY <1>1 DEF Depths
  <2> QED  BY <2>1, <2>2, <2>3 DEF Shape
<1>4. Recorded'
  BY <1>1 DEF Recorded
<1>5. Bindings'
  BY <1>1 DEF CPInv, Bindings, GoodNodes, GoodNode, GoodUse
<1>6. Trail'
  <2>1. Len(tab) \in Nat
    BY DEF CPInv, Shape, Typed
  <2>2. Shape /\ Bindings /\ Trail
    BY DEF CPInv
  <2>3. Len(tab') \in Nat /\ Len(tab') >= Len(tab) /\ Extends(decls)
    BY <1>2, <2>1, <2>2, ExtendsSelf
  <2> QED  BY <1>1, <2>2, <2>3, Trail_Same
<1> QED  BY <1>3, <1>4, <1>5, <1>6

LEMMA VisitConst_Renames ==
  ASSUME CPInv, VisitConst
  PROVE  Renames' /\ Owned'
<1> DEFINE d == Here.at
           b == decls[d].block
           n == ident[d]
           e == ConstEntry({d} \cup FoldedVal(Results(Here.uses)))
<1>1. /\ pass = "replay" /\ UNCHANGED <<pass, record, pending, decls, ident>>
  BY DEF VisitConst, Evaluates, At
<1>2. /\ d \in 1..Len(decls) /\ decls[d].const = TRUE /\ b \in 1..Len(tab)
      /\ e.const = TRUE /\ Len(tab') = Len(tab)
      /\ DOMAIN tab'[b] = DOMAIN tab[b] \cup {n} /\ tab'[b][n] = e
      /\ \A y \in DOMAIN tab[b] : y # n => tab'[b][y] = tab[b][y]
      /\ \A c \in 1..Len(tab) : c # b => tab'[c] = tab[c]
  BY ConstTables
<1> HIDE DEF d, b, n, e
<1>3. /\ DOMAIN decls = 1..Len(decls)
      /\ \A f \in 1..Len(decls) : decls[f].block \in 1..Len(tab)
  BY DEF CPInv, Shape, Typed, InTables
<1>4. RenamedUnique'
  BY <1>1 DEF CPInv, Renames, RenamedUnique, CleanNames
<1>5. TablesKeepDecls'
  <2> SUFFICES ASSUME CleanNames, NEW f \in 1..Len(decls)
               PROVE  LET t == tab'[decls[f].block]
                      IN /\ ident[f] \in DOMAIN t
                         /\ t[ident[f]].const = decls[f].const
                         /\ ~decls[f].const => t[ident[f]].var = f
    BY <1>1, <1>3 DEF TablesKeepDecls, CleanNames
  <2>1. LET t == tab[decls[f].block]
        IN /\ ident[f] \in DOMAIN t
           /\ t[ident[f]].const = decls[f].const
           /\ ~decls[f].const => t[ident[f]].var = f
    BY <1>1, TablesNow DEF CPInv
  <2>2. CASE decls[f].block # b
    <3>1. tab'[decls[f].block] = tab[decls[f].block]
      BY <1>2, <1>3, <2>2
    <3> QED  BY <2>1, <3>1
  <2>3. CASE decls[f].block = b /\ ident[f] # n
    <3>1. ident[f] \in DOMAIN tab'[b] /\ tab'[b][ident[f]] = tab[b][ident[f]]
      BY <1>2, <2>1, <2>3
    <3> QED  BY <2>1, <2>3, <3>1
  <2>4. CASE decls[f].block = b /\ ident[f] = n
    <3>1. n = decls[d].name
      BY <1>1, <1>2, TablesNow DEF CPInv, n
    <3>2. decls[f].name = decls[d].name
      <4>1. ident[f] = decls[d].name
        BY <2>4, <3>1
      <4> QED  BY <1>1, <1>2, <4>1, TablesNow DEF CPInv
    <3>3. f = d
      <4>1. Distinct(decls)
        BY <1>1 DEF CPInv, Owned
      <4> QED  BY <1>2, <2>4, <3>2, <4>1 DEF Distinct, b
    <3> QED  BY <1>2, <2>4, <3>3
  <2> QED  BY <2>2, <2>3, <2>4
<1>6. Renames'
  BY <1>1, <1>4, <1>5 DEF Renames
<1>7. CleanNames => Owners'
  <2> SUFFICES ASSUME CleanNames, NEW c \in 1..Len(tab'),
                      NEW y \in DOMAIN tab'[c]
               PROVE  \E f \in 1..Len(decls) :
                        decls[f].block = c /\ ident[f] = y
    BY <1>1 DEF Owners
  <2>1. Owners
    BY <1>1 DEF CPInv, Owned
  <2>2. CASE c = b /\ y = n
    BY <1>2, <2>2 DEF b, n
  <2>3. CASE ~(c = b /\ y = n)
    <3>1. c \in 1..Len(tab) /\ y \in DOMAIN tab[c]
      BY <1>2, <2>3
    <3> QED  BY <2>1, <3>1 DEF Owners
  <2> QED  BY <2>2, <2>3
<1>8. Owned'
  <2>1. Distinct(decls) /\ (CleanNames => NamesFrom)
    BY <1>1 DEF CPInv, Owned
  <2>2. Distinct(decls)' /\ (CleanNames' => CleanNames)
    BY <1>1, <2>1 DEF Distinct, CleanNames
  <2>3. CleanNames' => NamesFrom'
    BY <1>1, <2>1, <2>2 DEF NamesFrom
  <2> QED  BY <1>1, <1>7, <2>2, <2>3 DEF Owned
<1> QED  BY <1>6, <1>8

\* The invariant of the two walks.
LEMMA CPInv_Step ==
  ASSUME CPInv, [CPNext]_allVars
  PROVE  CPInv'
<1> DEFINE Others == Shape /\ Recorded /\ Bindings /\ Renames /\ Trail /\ Owned
<1>1. CASE ScopeNext /\ UNCHANGED cpVars
  BY <1>1, CPInv_Scope
<1>2. CASE Abort \/ NotConst \/ CPDone
  <2>1. /\ pass = "replay" /\ stage' \in {"abort", "throw", "done"}
        /\ UNCHANGED <<scopeVars, cscopes, out>>
    BY <1>2 DEF Abort, NotConst, CPDone, Evaluates, At
  <2>2. Others'
    BY <2>1, CPInv_Unchanged
  <2>3. Walk'
    BY <2>1, Walk_Same DEF CPInv, scopeVars
  <2> QED  BY <2>2, <2>3 DEF CPInv
<1>3. CASE VisitOpen
  <2>1. Others'
    BY <1>3, CPInv_Unchanged DEF VisitOpen
  <2> QED  BY <1>3, <2>1, Walk_Open DEF CPInv
<1>4. CASE VisitClose
  <2>1. Others'
    BY <1>4, CPInv_Unchanged DEF VisitClose
  <2> QED  BY <1>4, <2>1, Walk_Close DEF CPInv
<1>5. CASE VisitConst
  <2>1. Others'
    BY <1>5, VisitConst_Tables, VisitConst_Renames
  <2>2. /\ pass = "replay" /\ Pc \in DOMAIN ast /\ Here.kind = "const"
        /\ ~Lost(Here.uses) /\ out' = Append(out, Results(Here.uses))
        /\ UNCHANGED <<pass, stage, cscopes, ast>>
    BY <1>5 DEF VisitConst, Evaluates, At, Here
  <2>3. Results(Here.uses) \in Seq(Result)
    BY <2>2, ResultsTyped DEF CPInv
  <2>4. Walk'
    BY <2>2, <2>3, Walk_Node DEF CPInv
  <2> QED  BY <2>1, <2>4 DEF CPInv
<1>6. CASE VisitStored \/ VisitCond \/ Skip
  <2>1. Others'
    BY <1>6, CPInv_Unchanged DEF VisitStored, VisitCond, Skip
  <2>2. PICK r \in {Unvisited(Here.uses), Results(Here.uses)} :
          /\ pass = "replay" /\ Pc \in DOMAIN ast
          /\ Here.kind \notin {"open", "close"}
          /\ r = Unvisited(Here.uses) \/ ~Lost(Here.uses)
          /\ out' = Append(out, r) /\ UNCHANGED <<scopeVars, stage, cscopes>>
    BY <1>6 DEF VisitStored, VisitCond, Skip, Evaluates, At, Here
  <2>3. r \in Seq(Result)
    BY <2>2, ResultsTyped DEF CPInv
  <2>4. Walk'
    BY <2>2, <2>3, Walk_Node DEF CPInv, scopeVars
  <2> QED  BY <2>1, <2>4 DEF CPInv
<1>7. CASE UNCHANGED allVars
  <2>1. Others'
    BY <1>7, CPInv_Unchanged DEF allVars
  <2>2. /\ UNCHANGED <<pass, stage, ast, cscopes, out>>
        /\ stage \in {"visit", "done", "throw", "abort"}
    BY <1>7 DEF allVars, scopeVars, cpVars, CPInv, Walk
  <2>3. Walk'
    BY <2>2, Walk_Same DEF CPInv
  <2> QED  BY <2>1, <2>3 DEF CPInv
<1> QED
  BY <1>1, <1>2, <1>3, <1>4, <1>5, <1>6, <1>7 DEF CPNext, CPVisit, CPOver

LEMMA CPInv_Init ==
  ASSUME CPInit PROVE CPInv
<1>1. Init /\ pass = "scope" /\ stage = "visit" /\ cscopes = <<>> /\ out = <<>>
  BY DEF CPInit, Init
<1>2. Shape /\ Recorded /\ Bindings /\ Renames /\ Trail
  BY <1>1, Start, Bindings_Init, Renames_Init, Trail_Init
<1>3. Owned
  BY <1>1 DEF Owned
<1>4. Len(ast) \in Nat
  BY <1>2 DEF Shape, Typed
<1>5. /\ cscopes \in Seq(Nat) /\ out \in Seq(Seq(Result))
      /\ Len(out) = 0 /\ Len(cscopes) = 0
  BY <1>1
<1>6. Rising(cscopes) /\ Members(cscopes) = {} /\ Inside(ast, 0) = {}
  BY <1>5 DEF Rising, Members, Inside, Opened, Closed
<1>7. Len(out) <= Len(ast) /\ Members(cscopes) = Inside(ast, Len(out))
  BY <1>4, <1>5, <1>6
<1>8. Walk
  BY <1>1, <1>5, <1>6, <1>7 DEF Walk
<1> QED  BY <1>2, <1>3, <1>8 DEF CPInv

-----------------------------------------------------------------------------
(* Theorems.                                                                  *)

LEMMA CPInvAlways == CPSpec => []CPInv
<1>1. CPInit => CPInv
  BY CPInv_Init
<1>2. CPInv /\ [CPNext]_allVars => CPInv'
  BY CPInv_Step
<1> QED  BY <1>1, <1>2, PTL DEF CPSpec

\* The stack of the second walk holds blocks that have tables, and what a node
\* is replaced by is a number with its value or the declaration of a variable
\* (ConstPropCtx::scopes_, visit(ExpAST)).
THEOREM SecondWalkTyped == CPSpec => []CPTypeOK
<1>1. ASSUME CPInv PROVE CPTypeOK
  <2>1. /\ Trail /\ Len(ast) \in Nat /\ DOMAIN tab = 1..Len(tab)
        /\ cscopes \in Seq(Nat) /\ out \in Seq(Seq(Result))
        /\ Len(out) \in 0..Len(ast)
        /\ Members(cscopes) = Inside(ast, Len(out))
    BY <1>1 DEF CPInv, Walk, Shape, Typed
  <2>2. \A i \in 1..Len(cscopes) : cscopes[i] \in DOMAIN tab
    BY <2>1, InsideTables DEF Members
  <2>3. cscopes \in Seq(DOMAIN tab)
    <3>1. Len(cscopes) \in Nat /\ cscopes \in [1..Len(cscopes) -> DOMAIN tab]
      BY <2>1, <2>2
    <3> QED  BY <3>1
  <2> QED  BY <1>1, <2>1, <2>3 DEF CPTypeOK, CPInv, Walk, Result
<1> QED  BY <1>1, CPInvAlways, PTL

\* When no name looks renamed, every name the second walk looks up is in one of
\* its scopes: the assertion of sym_is_const is never run into.
THEOREM LookupsAreClean == CPSpec => []CleanLookups
<1>1. CPInit => CleanLookups
  BY DEF CPInit, CleanLookups
<1>2. CPInv /\ CleanLookups /\ [CPNext]_allVars => CleanLookups'
  <2> SUFFICES ASSUME CPInv, CleanLookups, [CPNext]_allVars, CleanNames'
               PROVE  stage' # "abort"
    BY DEF CleanLookups
  <2>1. CASE ScopeNext /\ UNCHANGED cpVars
    <3>1. CPInv' /\ pass # "replay"
      BY <2>1, CPInv_Step DEF ScopeNext, OpenBlock, CloseBlock, EndStmt,
         BreakOrContinue, AtStmt, AtItem, Redefine, ConstDecl, VarDecl, Decl,
         Assign, If, While, ReturnOrExp, RenameSym, FinishRename
    <3> QED  BY <2>1, <3>1 DEF CPInv, Walk, cpVars
  <2>2. CASE Abort
    <3>1. /\ pass = "replay" /\ Pc \in DOMAIN ast /\ Lost(Here.uses)
          /\ Here.kind \notin {"open", "close"} /\ decls' = decls
      BY <2>2 DEF Abort, At, Here, scopeVars
    <3>2. CleanNames
      BY <3>1 DEF CleanNames
    <3>3. PICK j \in DOMAIN Here.uses : CPHolders(Repr(Here.uses[j])) = {}
      BY <3>1 DEF Lost
    <3>4. j \in 1..Len(Here.uses)
      <4>1. Here \in NodeType
        BY <3>1, NextNode DEF CPInv
      <4> QED  BY <4>1 DEF NodeType
    <3> QED  BY <3>1, <3>2, <3>3, <3>4, UseIsFound DEF CPInv
  <2>3. CASE VisitOpen \/ VisitClose \/ VisitConst \/ NotConst \/ VisitStored
             \/ VisitCond \/ Skip \/ CPDone
    BY <2>3 DEF VisitOpen, VisitClose, VisitConst, NotConst, VisitStored,
                VisitCond, Skip, CPDone, Evaluates, At
  <2>4. CASE UNCHANGED allVars
    BY <2>4 DEF allVars, scopeVars, cpVars, CleanLookups, CleanNames
  <2> QED  BY <2>1, <2>2, <2>3, <2>4 DEF CPNext, CPVisit, CPOver
<1> QED  BY <1>1, <1>2, CPInvAlways, PTL DEF CPSpec

-----------------------------------------------------------------------------
(* The uses the second walk leaves without a declaration.                     *)

\* A break and a continue read nothing.
Jumps == \A i \in 1..Len(ast) : ast[i].kind = "jump" => ast[i].uses = <<>>

LEMMA Jumps_Append ==
  ASSUME Shape, Jumps, NEW n, ast' = Append(ast, n),
         n.kind = "jump" => n.uses = <<>>
  PROVE  Jumps'
<1>1. ast \in Seq(NodeType) /\ Len(ast) \in Nat
  BY DEF Shape, Typed
<1>2. /\ Len(ast') = Len(ast) + 1 /\ ast'[Len(ast) + 1] = n
      /\ \A i \in 1..Len(ast) : ast'[i] = ast[i]
  BY <1>1, AppendProperties
<1>3. \A i \in 1..Len(ast') : i \in 1..Len(ast) \/ i = Len(ast) + 1
  BY <1>1, <1>2
<1> QED  BY <1>2, <1>3 DEF Jumps

LEMMA Jumps_Exp ==
  ASSUME Shape, Jumps, NEW t, NEW ds, NEW n \in NodeType, NEW xs,
         n.kind # "jump", VisitExp(t, ds, n, xs)
  PROVE  Jumps'
<1>1. CASE UNCHANGED ast
  BY <1>1 DEF Jumps
<1>2. CASE ~UNCHANGED ast
  <2> DEFINE us == [i \in DOMAIN xs |-> Use(t, ds, xs[i])]
             m == [n EXCEPT !.uses = us]
  <2>1. ast' = Append(ast, m)
    BY <1>2 DEF VisitExp
  <2>2. m.kind = n.kind
    BY DEF NodeType
  <2> HIDE DEF m
  <2> QED  BY <2>1, <2>2, Jumps_Append
<1> QED  BY <1>1, <1>2

LEMMA Jumps_Step ==
  ASSUME Shape, Bindings, Jumps, [Next]_scopeVars
  PROVE  Jumps'
<1>1. CASE OpenBlock \/ CloseBlock
  <2>1. \A b : Node("open", b).kind # "jump" /\ Node("close", b).kind # "jump"
    BY DEF Node
  <2>2. PICK n : ast' = Append(ast, n) /\ n.kind # "jump"
    BY <1>1, <2>1 DEF OpenBlock, CloseBlock
  <2> QED  BY <2>2, Jumps_Append
<1>2. CASE BreakOrContinue
  <2>1. Node("jump", NoDecl).uses = <<>>
    BY DEF Node
  <2>2. CASE ast' = ast
    BY <2>2 DEF Jumps
  <2>3. CASE ast' = Append(ast, Node("jump", NoDecl))
    BY <2>1, <2>3, Jumps_Append
  <2> QED  BY <1>2, <2>2, <2>3 DEF BreakOrContinue
<1>3. ASSUME NEW x \in Names, NEW xs \in Exps,
             ConstDecl(x, xs) \/ VarDecl(x, xs)
      PROVE  Jumps'
  <2> DEFINE d == Len(decls) + 1
  <2>1. PICK t, ds, const : VisitExp(t, ds,
                              Node(IF const THEN "const" ELSE "var", d), xs)
    BY <1>3 DEF ConstDecl, VarDecl, Decl
  <2> DEFINE n == Node(IF const THEN "const" ELSE "var", d)
  <2>2. n.kind # "jump"
    BY DEF Node
  <2>3. n \in NodeType
    <3>1. d \in Nat
      BY DEF Shape, Typed
    <3> QED  BY <3>1, NodeTyped
  <2> HIDE DEF n
  <2> QED  BY <2>1, <2>2, <2>3, Jumps_Exp DEF n
<1>4. ASSUME NEW x \in Names, NEW xs \in Exps, Assign(x, xs) PROVE Jumps'
  <2> DEFINE n == [Node("assign", get_sym_var(tab, x))
                     EXCEPT !.lex = Lexical(decls, x)]
  <2>1. CASE ast' = ast
    BY <2>1 DEF Jumps
  <2>2. CASE ast' # ast
    <3>1. VisitExp(tab, decls, n, xs)
      BY <1>4, <2>2 DEF Assign
    <3> DEFINE us == [i \in DOMAIN xs |-> Use(tab, decls, xs[i])]
               m == [n EXCEPT !.uses = us]
    <3>2. ast' = Append(ast, m)
      BY <2>2, <3>1 DEF VisitExp
    <3>3. m.kind # "jump"
      BY DEF Node
    <3> HIDE DEF m
    <3> QED  BY <3>2, <3>3, Jumps_Append
  <2> QED  BY <2>1, <2>2
<1>5. ASSUME NEW kind \in {"ret", "exp", "cond"}, NEW xs,
             VisitExp(tab, decls, Node(kind, NoDecl), xs)
      PROVE  Jumps'
  <2>1. Node(kind, NoDecl) \in NodeType
    BY NodeTyped DEF NoDecl
  <2>2. Node(kind, NoDecl).kind # "jump"
    BY DEF Node
  <2> QED  BY <1>5, <2>1, <2>2, Jumps_Exp
<1>6. ASSUME NEW xs \in Exps, If(xs) \/ While(xs) PROVE Jumps'
  BY <1>5, <1>6 DEF If, While
<1>7. ASSUME NEW kind \in {"ret", "exp"}, NEW xs \in Exps,
             ReturnOrExp(kind, xs)
      PROVE  Jumps'
  BY <1>5, <1>7 DEF ReturnOrExp
<1>8. ASSUME UNCHANGED ast PROVE Jumps'
  BY <1>8 DEF Jumps
<1>9. ASSUME NEW x \in Names, Redefine(x) \/ RenameSym(x) PROVE Jumps'
  BY <1>8, <1>9 DEF Redefine, RenameSym
<1>10. CASE EndStmt \/ FinishRename \/ UNCHANGED scopeVars
  BY <1>8, <1>10 DEF EndStmt, FinishRename, scopeVars
<1> QED
  BY <1>1, <1>2, <1>3, <1>4, <1>6, <1>7, <1>9, <1>10
     DEF Next, ScopeNext, ScopeOver

\* Only a use that hides a constant, is hidden by a later declaration or means
\* a variable is not replaced by a number.
LEMMA NotFolded ==
  ASSUME CPInv, CleanNames, pass = "replay", Pc \in DOMAIN ast,
         Here.kind \notin {"open", "close"}, NEW j \in 1..Len(Here.uses),
         ~Visited(Here.uses[j]).num
  PROVE  LET u == Here.uses[j]
         IN HiddenVar(u) \/ LateDecl(Pc, u) \/ ~decls[u.lex].const
<1> DEFINE u == Here.uses[j]
<1>1. PICK d \in 1..Len(decls) : FoundFor(d, u)
  BY UseIsFound DEF CPInv
<1>2. HiddenVar(u) \/ LateDecl(Pc, u) \/ d = u.lex
  BY <1>1, FoundIsLexical DEF CPInv
<1> HIDE DEF u
<1>3. ~Found(Repr(u)).const
  <2>1. [num |-> TRUE, val |-> Found(Repr(u)).val, var |-> NoDecl].num = TRUE
    OBVIOUS
  <2>2. ~Visited(u).num
    BY DEF u
  <2> QED  BY <2>1, <2>2 DEF Visited
<1>4. tab[decls[d].block][ident[d]].const = decls[d].const
  BY TablesNow DEF CPInv
<1>5. ~decls[d].const
  BY <1>1, <1>3, <1>4 DEF FoundFor
<1> QED  BY <1>2, <1>5 DEF u

\* Why the use u of node i may reach GenIR without a declaration.
Excused(i, u) ==
  ast[i].kind \in {"cond", "exp"} \/ HiddenVar(u) \/ LateDecl(i, u)

LEMMA StoredExcused ==
  ASSUME CPInv, CleanNames, pass = "replay", Pc \in DOMAIN ast,
         Here.kind \notin {"open", "close"}, NEW j \in 1..Len(Here.uses),
         ~Visited(Here.uses[j]).num, Visited(Here.uses[j]).var = NoDecl
  PROVE  Excused(Pc, Here.uses[j])
<1> DEFINE u == Here.uses[j]
<1>1. HiddenVar(u) \/ LateDecl(Pc, u) \/ ~decls[u.lex].const
  BY NotFolded
<1>2. u.var = NoDecl
  <2>1. [num |-> TRUE, val |-> Found(Repr(u)).val, var |-> NoDecl].num = TRUE
    OBVIOUS
  <2>2. Visited(u) = Raw(u)
    BY <2>1 DEF Visited
  <2> QED  BY <2>2 DEF Raw
<1> QED  BY <1>1, <1>2 DEF Excused, HiddenVar

\* The visit of one more node, which excuses what it leaves unbound.
LEMMA Unbound_Node ==
  ASSUME CPInv, UnboundUses, pass = "replay", Pc \in DOMAIN ast,
         UNCHANGED <<ast, decls>>, DOMAIN tab' = DOMAIN tab,
         NEW r \in Seq(Result), out' = Append(out, r),
         CleanNames => \A j \in 1..Len(r) :
           ~r[j].num /\ r[j].var = NoDecl => Excused(Pc, Here.uses[j])
  PROVE  UnboundUses'
<1>1. /\ out \in Seq(Seq(Result)) /\ Len(out) \in Nat /\ Pc = Len(out) + 1
  BY DEF CPInv, Walk, Pc
<1>2. /\ DOMAIN out = 1..Len(out) /\ DOMAIN out' = 1..Pc /\ out'[Pc] = r
      /\ \A i \in 1..Len(out) : out'[i] = out[i]
  BY <1>1
<1>3. \A i \in 1..Pc : i \in 1..Len(out) \/ i = Pc
  BY <1>1
<1>4. \A i, u : HiddenVar(u)' = HiddenVar(u) /\ LateDecl(i, u)' = LateDecl(i, u)
  BY DEF HiddenVar, LateDecl, Enclosing
<1>5. CleanNames' => CleanNames
  BY DEF CleanNames
<1> SUFFICES ASSUME CleanNames, NEW i \in 1..Pc, NEW j \in DOMAIN out'[i],
                    ~out'[i][j].num, out'[i][j].var = NoDecl
             PROVE  LET u == ast[i].uses[j]
                    IN \/ ast[i].kind \in {"cond", "exp"}
                       \/ HiddenVar(u)' \/ LateDecl(i, u)'
  BY <1>2, <1>5 DEF UnboundUses
<1>6. CASE i \in 1..Len(out)
  BY <1>2, <1>4, <1>6 DEF UnboundUses
<1>7. CASE i = Pc
  <2>1. j \in 1..Len(r) /\ ~r[j].num /\ r[j].var = NoDecl
    BY <1>2, <1>7
  <2>2. Excused(Pc, Here.uses[j])
    BY <2>1
  <2> QED  BY <1>4, <1>7, <2>2 DEF Excused, Here
<1> QED  BY <1>3, <1>6, <1>7

LEMMA Unbound_Step ==
  ASSUME CPInv, Jumps, UnboundUses, [CPNext]_allVars
  PROVE  UnboundUses'
<1>1. CASE ScopeNext /\ UNCHANGED cpVars
  <2>1. pass # "replay"
    BY <1>1 DEF ScopeNext, OpenBlock, CloseBlock, EndStmt,
       BreakOrContinue, AtStmt, AtItem, Redefine, ConstDecl, VarDecl, Decl,
       Assign, If, While, ReturnOrExp, RenameSym, FinishRename
  <2>2. out' = <<>>
    BY <1>1, <2>1 DEF CPInv, Walk, cpVars
  <2> QED  BY <2>2 DEF UnboundUses
<1>2. CASE Abort \/ NotConst \/ CPDone \/ UNCHANGED allVars
  <2>1. UNCHANGED <<ast, decls, tab, out>>
    BY <1>2 DEF Abort, NotConst, CPDone, allVars, cpVars, scopeVars
  <2> QED
    BY <2>1 DEF UnboundUses, CleanNames, HiddenVar, LateDecl, Enclosing
<1>3. CASE VisitOpen \/ VisitClose
  <2> DEFINE r == <<>>
  <2>1. /\ pass = "replay" /\ Pc \in DOMAIN ast /\ out' = Append(out, r)
        /\ UNCHANGED <<ast, decls, tab>>
    BY <1>3 DEF VisitOpen, VisitClose, At, scopeVars
  <2>2. r \in Seq(Result) /\ 1..Len(r) = {}
    <3>1. 1..Len(r) = {}
      OBVIOUS
    <3> QED  BY <3>1
  <2> HIDE DEF r
  <2>3. \A j \in 1..Len(r) : FALSE
    BY <2>2
  <2> QED  BY <2>1, <2>2, <2>3, Unbound_Node
<1>4. CASE VisitConst
  <2> DEFINE r == Results(Here.uses)
  <2>1. /\ pass = "replay" /\ Pc \in DOMAIN ast /\ out' = Append(out, r)
        /\ UNCHANGED <<ast, decls>> /\ ~Lost(Here.uses) /\ Folds(r)
    BY <1>4 DEF VisitConst, Evaluates, At
  <2>2. r \in Seq(Result)
    BY <2>1, ResultsTyped DEF CPInv
  <2>3. DOMAIN tab' = DOMAIN tab
    BY <1>4 DEF VisitConst
  <2> HIDE DEF r
  <2>4. \A j \in 1..Len(r) : r[j].num
    BY <2>1, <2>2 DEF Folds
  <2> QED  BY <2>1, <2>2, <2>3, <2>4, Unbound_Node
<1>5. CASE VisitStored
  <2> DEFINE r == Results(Here.uses)
  <2>1. /\ pass = "replay" /\ Pc \in DOMAIN ast /\ out' = Append(out, r)
        /\ UNCHANGED <<ast, decls, tab>> /\ ~Lost(Here.uses)
        /\ Here.kind \notin {"open", "close"}
    BY <1>5 DEF VisitStored, Evaluates, At, scopeVars, Here
  <2>2. r \in Seq(Result) /\ Len(r) = Len(Here.uses)
    BY <2>1, ResultsTyped DEF CPInv
  <2>3. \A j \in 1..Len(r) : r[j] = Visited(Here.uses[j])
    BY <2>2 DEF Results
  <2>4. ASSUME CleanNames, NEW j \in 1..Len(r), ~r[j].num, r[j].var = NoDecl
        PROVE  Excused(Pc, Here.uses[j])
    BY <2>1, <2>2, <2>3, <2>4, StoredExcused
  <2> HIDE DEF r
  <2> QED  BY <2>1, <2>2, <2>4, Unbound_Node
<1>6. CASE VisitCond
  <2>1. PICK r \in {Unvisited(Here.uses), Results(Here.uses)} :
          /\ pass = "replay" /\ Pc \in DOMAIN ast /\ Here.kind = "cond"
          /\ ~Lost(Here.uses)
          /\ out' = Append(out, r) /\ UNCHANGED <<ast, decls, tab>>
    BY <1>6 DEF VisitCond, Evaluates, At, Here, scopeVars
  <2>2. r \in Seq(Result)
    BY <2>1, ResultsTyped DEF CPInv
  <2>3. \A j : Excused(Pc, Here.uses[j])
    BY <2>1 DEF Excused, Here
  <2> QED  BY <2>1, <2>2, <2>3, Unbound_Node
<1>7. CASE Skip
  <2> DEFINE r == Unvisited(Here.uses)
  <2>1. /\ pass = "replay" /\ Pc \in DOMAIN ast /\ out' = Append(out, r)
        /\ Here.kind \in {"exp", "jump"} /\ UNCHANGED <<ast, decls, tab>>
    BY <1>7 DEF Skip, At, scopeVars, Here
  <2>2. r \in Seq(Result) /\ Len(r) = Len(Here.uses)
    BY <2>1, ResultsTyped DEF CPInv
  <2>3. Pc \in 1..Len(ast)
    BY <2>1, NextNode DEF CPInv
  <2>4. Here.kind = "jump" => Len(r) = 0
    BY <2>2, <2>3 DEF Jumps, Here
  <2>5. Here.kind = "exp" => \A j : Excused(Pc, Here.uses[j])
    BY DEF Excused, Here
  <2> HIDE DEF r
  <2> QED  BY <2>1, <2>2, <2>4, <2>5, Unbound_Node
<1> QED
  BY <1>1, <1>2, <1>3, <1>4, <1>5, <1>6, <1>7 DEF CPNext, CPVisit, CPOver

\* The only uses that reach GenIR without a declaration are the constants of
\* conditions and expression statements, variables that hide a constant and
\* constants that a later declaration hides (visit(ExpAST), GenIR.cc:345).
THEOREM UnboundUsesExcused == CPSpec => []UnboundUses
<1>1. CPInit => CPInv /\ Jumps /\ UnboundUses
  <2> SUFFICES ASSUME CPInit PROVE CPInv /\ Jumps /\ UnboundUses
    OBVIOUS
  <2>1. ast = <<Node("open", 1)>> /\ out = <<>>
    BY DEF CPInit, Init
  <2>2. Jumps
    BY <2>1 DEF Jumps, Node
  <2> QED  BY <2>1, <2>2, CPInv_Init DEF UnboundUses
<1>2. CPInv /\ Jumps /\ UnboundUses /\ [CPNext]_allVars
        => (CPInv /\ Jumps /\ UnboundUses)'
  <2> SUFFICES ASSUME CPInv, Jumps, UnboundUses, [CPNext]_allVars
               PROVE  Jumps'
    BY CPInv_Step, Unbound_Step
  <2>1. CASE ScopeNext
    BY <2>1, Jumps_Step DEF CPInv, Next
  <2>2. CASE ~ScopeNext
    <3>1. UNCHANGED ast
      BY <2>2 DEF CPNext, CPVisit, CPOver, Abort, VisitOpen, VisitClose,
         VisitConst, NotConst, VisitStored, VisitCond, Skip, CPDone, allVars,
         scopeVars
    <3> QED  BY <3>1 DEF Jumps
  <2> QED  BY <2>1, <2>2
<1> QED  BY <1>1, <1>2, PTL DEF CPSpec

\* A plain program is rejected by the second pass only for a constant that is
\* initialized from a variable ("Not a const expression", ConstProp.cc:123).
THEOREM NotConstIsJustified == CPSpec => []NotConstJustified
<1>1. CPInit => NotConstJustified
  BY DEF CPInit, NotConstJustified
<1>2. CPInv /\ NotConstJustified /\ [CPNext]_allVars => NotConstJustified'
  <2> SUFFICES ASSUME CPInv, NotConstJustified, [CPNext]_allVars,
                      stage' = "throw", PlainProgram'
               PROVE  \E j \in DOMAIN Here'.uses :
                        ~decls'[Here'.uses[j].lex].const
    BY DEF NotConstJustified
  <2>1. CASE ScopeNext /\ UNCHANGED cpVars
    <3>1. pass # "replay"
      BY <2>1 DEF ScopeNext, OpenBlock, CloseBlock, EndStmt,
         BreakOrContinue, AtStmt, AtItem, Redefine, ConstDecl, VarDecl, Decl,
         Assign, If, While, ReturnOrExp, RenameSym, FinishRename
    <3> QED  BY <2>1, <3>1 DEF CPInv, Walk, cpVars
  <2>2. CASE NotConst
    <3>1. /\ pass = "replay" /\ Pc \in DOMAIN ast /\ Here.kind = "const"
          /\ ~Lost(Here.uses) /\ ~Folds(Results(Here.uses))
          /\ UNCHANGED <<ast, decls, tab, out>>
      BY <2>2 DEF NotConst, Evaluates, At, Here, scopeVars
    <3>2. PlainProgram /\ Here' = Here
      <4>1. Here' = Here
        BY <3>1 DEF Here, Pc
      <4>2. PlainProgram
        BY <3>1 DEF PlainProgram, CleanNames, LateDecl, HiddenVar, Enclosing
      <4> QED  BY <4>1, <4>2
    <3>3. Here \in NodeType /\ Pc \in 1..Len(ast)
      BY <3>1, NextNode DEF CPInv
    <3>4. DOMAIN Here.uses = 1..Len(Here.uses)
      BY <3>3 DEF NodeType
    <3>5. PICK j \in 1..Len(Here.uses) : ~Visited(Here.uses[j]).num
      BY <3>1, <3>4 DEF Folds, Results
    <3>6. ~HiddenVar(Here.uses[j]) /\ ~LateDecl(Pc, Here.uses[j])
      BY <3>1, <3>2, <3>4 DEF PlainProgram, Here
    <3>7. CleanNames
      BY <3>2 DEF PlainProgram
    <3>8. ~decls[Here.uses[j].lex].const
      BY <3>1, <3>5, <3>6, <3>7, NotFolded
    <3> QED  BY <3>1, <3>2, <3>4, <3>8
  <2>3. CASE Abort \/ VisitOpen \/ VisitClose \/ VisitConst \/ VisitStored
             \/ VisitCond \/ Skip \/ CPDone
    BY <2>3 DEF VisitOpen, VisitClose, VisitConst, Abort, VisitStored,
                VisitCond, Skip, CPDone, Evaluates, At
  <2>4. CASE UNCHANGED allVars
    <3>1. UNCHANGED <<stage, ast, decls, tab, out>>
      BY <2>4 DEF allVars, scopeVars, cpVars
    <3>2. Here' = Here
      BY <3>1 DEF Here, Pc
    <3>3. PlainProgram
      BY <3>1 DEF PlainProgram, CleanNames, LateDecl, HiddenVar, Enclosing
    <3> QED  BY <3>1, <3>2, <3>3 DEF NotConstJustified
  <2> QED  BY <2>1, <2>2, <2>3, <2>4 DEF CPNext, CPVisit, CPOver
<1> QED  BY <1>1, <1>2, CPInvAlways, PTL DEF CPSpec

-----------------------------------------------------------------------------
(* The values of the constants. RefVal is a recursive function of the state;  *)
(* it satisfies its equation because an initializer names no later constant.  *)

\* Induction over a set of numbers.
LEMMA AllNumbers ==
  ASSUME NEW S, 0 \in S, \A n \in Nat : n \in S => n + 1 \in S
  PROVE  \A n \in Nat : n \in S
<1> DEFINE T == Nat \ S
<1> SUFFICES ASSUME T # {} PROVE FALSE
  OBVIOUS
<1>1. PICK m \in T : \A y \in T : ~ (<<y, m>> \in OpToRel(<, Nat))
  <2>1. T \subseteq Nat
    OBVIOUS
  <2> HIDE DEF T
  <2> QED  BY <2>1, WFMin, NatLessThanWellFounded
<1>2. m \in Nat /\ m # 0 /\ m \notin S
  OBVIOUS
<1>3. m - 1 \in Nat /\ (m - 1) + 1 = m
  BY <1>2
<1>4. m - 1 \in T
  BY <1>2, <1>3
<1>5. <<m - 1, m>> \in {ss \in Nat \X Nat : ss[1] < ss[2]}
  BY <1>2, <1>3
<1> QED  BY <1>1, <1>4, <1>5 DEF OpToRel

\* The equation of RefVal at d. Only what d's initializer names matters.
RefEq(f, d) ==
  IF ~decls[d].const THEN {}
  ELSE {d} \cup UNION {IF u.lex = d THEN INT32_MIN ELSE f[u.lex] :
                         u \in Range(ast[ConstNode(d)].uses)}

LEMMA RefEqLocal ==
  ASSUME NEW d, NEW f, NEW g,
         decls[d].const => \A u \in Range(ast[ConstNode(d)].uses) :
                             u.lex # d => f[u.lex] = g[u.lex]
  PROVE  RefEq(f, d) = RefEq(g, d)
BY DEF RefEq

\* The initializer of a constant names declarations up to its own.
Backward ==
  \A d \in 1..Len(decls) : decls[d].const =>
    \A u \in Range(ast[ConstNode(d)].uses) : u.lex \in 1..d

Solves(f, n) ==
  /\ DOMAIN f = 1..n /\ f = [d \in 1..n |-> f[d]]
  /\ \A d \in 1..n : f[d] = RefEq(f, d)

LEMMA PrefixSolved ==
  ASSUME Backward, Len(decls) \in Nat
  PROVE  \E f : Solves(f, Len(decls))
<1> DEFINE S == {n \in Nat : n <= Len(decls) => \E f : Solves(f, n)}
<1>1. 0 \in S
  <2> DEFINE f == [d \in 1..0 |-> {}]
  <2>1. Solves(f, 0)
    BY DEF Solves
  <2> QED  BY <2>1
<1>2. ASSUME NEW n \in Nat, n \in S
      PROVE  n + 1 \in S
  <2> SUFFICES ASSUME n + 1 <= Len(decls) PROVE \E g : Solves(g, n + 1)
    OBVIOUS
  <2>1. PICK f : Solves(f, n)
    BY <1>2
  <2> DEFINE g == [d \in 1..n + 1 |-> IF d = n + 1 THEN RefEq(f, d) ELSE f[d]]
  <2>2. ASSUME NEW d \in 1..n + 1
        PROVE  RefEq(f, d) = RefEq(g, d)
    <3>1. ASSUME decls[d].const, NEW u \in Range(ast[ConstNode(d)].uses),
                 u.lex # d
          PROVE  f[u.lex] = g[u.lex]
      <4>1. u.lex \in 1..d
        BY <3>1 DEF Backward
      <4>2. u.lex \in 1..n + 1 /\ u.lex # n + 1
        BY <3>1, <4>1
      <4> QED  BY <4>2
    <3> HIDE DEF g
    <3> QED  BY <3>1, RefEqLocal
  <2>3. ASSUME NEW d \in 1..n + 1
        PROVE  g[d] = RefEq(f, d)
    <3>1. CASE d = n + 1
      BY <3>1
    <3>2. CASE d # n + 1
      BY <2>1, <3>2 DEF Solves
    <3> QED  BY <3>1, <3>2
  <2>4. Solves(g, n + 1)
    <3>1. DOMAIN g = 1..n + 1 /\ g = [d \in 1..n + 1 |-> g[d]]
      OBVIOUS
    <3> HIDE DEF g
    <3> QED  BY <2>2, <2>3, <3>1 DEF Solves
  <2> QED  BY <2>4
<1>3. \A n \in Nat : n \in S
  <2> HIDE DEF S
  <2> QED  BY <1>1, <1>2, AllNumbers
<1> QED  BY <1>3

LEMMA RefValSolves ==
  ASSUME Backward, decls \in Seq(DeclType)
  PROVE  \A d \in 1..Len(decls) : RefVal[d] = RefEq(RefVal, d)
<1>1. PICK f : Solves(f, Len(decls))
  BY PrefixSolved
<1>2. f = [d \in DOMAIN decls |-> RefEq(f, d)]
  BY <1>1 DEF Solves
<1>3. RefVal = [d \in DOMAIN decls |-> RefEq(RefVal, d)]
  BY <1>2 DEF RefVal, RefEq
<1>4. DOMAIN decls = 1..Len(decls)
  OBVIOUS
<1> QED  BY <1>3, <1>4

LEMMA RefValSame == ASSUME ast' = ast, decls' = decls PROVE RefVal' = RefVal
BY DEF RefVal, ConstNode

-----------------------------------------------------------------------------
(* Where the constants are recorded: every constant a use may mean has its    *)
(* node before the use, and no declaration has two.                           *)

ConstAt(ns, i, d) == ns[i].kind = "const" /\ ns[i].at = d

Consts ==
  /\ pass # "throw" =>
       \A d \in 1..Len(decls) : decls[d].const =>
         \E k \in 1..Len(ast) : ConstAt(ast, k, d)
  /\ \A i \in 1..Len(ast) : \A j \in 1..Len(ast[i].uses) :
       LET l == ast[i].uses[j].lex
       IN /\ decls[l].const => \E k \in 1..i : ConstAt(ast, k, l)
          /\ ast[i].kind = "const" => l <= ast[i].at
  /\ \A i, k \in 1..Len(ast) : \A d :
       ConstAt(ast, i, d) /\ ConstAt(ast, k, d) => i = k

\* Each step of the first pass records no node, one that declares no constant,
\* or a declaration.
LEMMA StepRecords ==
  ASSUME [Next]_scopeVars
  PROVE  \/ UNCHANGED <<ast, decls>> /\ (pass = "throw" => pass' = "throw")
         \/ /\ pass = "scope" /\ decls' = decls
            /\ \E n : ast' = Append(ast, n) /\ n.kind # "const"
         \/ \E x \in Names, const \in BOOLEAN, xs \in Exps : Decl(x, const, xs)
<1> DEFINE Same == /\ UNCHANGED <<ast, decls>>
                   /\ pass = "throw" => pass' = "throw"
           More == /\ pass = "scope" /\ decls' = decls
                   /\ \E n : ast' = Append(ast, n) /\ n.kind # "const"
<1>1. CASE OpenBlock \/ CloseBlock
  <2>1. \A b : Node("open", b).kind # "const" /\ Node("close", b).kind # "const"
    BY DEF Node
  <2> QED  BY <1>1, <2>1 DEF OpenBlock, CloseBlock, AtStmt, AtItem
<1>2. CASE BreakOrContinue
  <2>1. Node("jump", NoDecl).kind # "const"
    BY DEF Node
  <2> QED  BY <1>2, <2>1 DEF BreakOrContinue, AtStmt
<1>3. ASSUME pass = "scope", decls' = decls, NEW n, n.kind # "const",
             \A us : [n EXCEPT !.uses = us].kind = n.kind,
             NEW xs, VisitExp(tab, decls, n, xs)
      PROVE  Same \/ More
  <2>1. CASE ast' = ast
    BY <1>3, <2>1
  <2>2. CASE ast' # ast
    <3> DEFINE us == [i \in DOMAIN xs |-> Use(tab, decls, xs[i])]
    <3>1. ast' = Append(ast, [n EXCEPT !.uses = us])
      BY <1>3, <2>2 DEF VisitExp
    <3> HIDE DEF us
    <3> QED  BY <1>3, <3>1
  <2> QED  BY <2>1, <2>2
<1>4. ASSUME NEW x \in Names, NEW xs \in Exps, Assign(x, xs) PROVE Same \/ More
  <2> DEFINE n == [Node("assign", get_sym_var(tab, x))
                     EXCEPT !.lex = Lexical(decls, x)]
  <2>1. n.kind # "const" /\ \A us : [n EXCEPT !.uses = us].kind = n.kind
    BY DEF Node
  <2>2. pass = "scope" /\ decls' = decls
    BY <1>4 DEF Assign, AtStmt
  <2>3. ast' = ast \/ VisitExp(tab, decls, n, xs)
    BY <1>4 DEF Assign
  <2> HIDE DEF n
  <2> QED  BY <1>3, <2>1, <2>2, <2>3
<1>5. ASSUME NEW kind \in {"ret", "exp", "cond"}, NEW xs, pass = "scope",
             decls' = decls, VisitExp(tab, decls, Node(kind, NoDecl), xs)
      PROVE  Same \/ More
  <2> DEFINE n == Node(kind, NoDecl)
  <2>1. n.kind # "const" /\ \A us : [n EXCEPT !.uses = us].kind = n.kind
    BY DEF Node
  <2> HIDE DEF n
  <2>2. VisitExp(tab, decls, n, xs)
    BY <1>5 DEF n
  <2> QED  BY <1>3, <1>5, <2>1, <2>2
<1>6. ASSUME NEW xs \in Exps, If(xs) \/ While(xs) PROVE Same \/ More
  BY <1>5, <1>6 DEF If, While, AtStmt
<1>7. ASSUME NEW kind \in {"ret", "exp"}, NEW xs \in Exps,
             ReturnOrExp(kind, xs)
      PROVE  Same \/ More
  BY <1>5, <1>7 DEF ReturnOrExp, AtStmt
<1>8. ASSUME NEW x \in Names, Redefine(x) \/ RenameSym(x) PROVE Same
  BY <1>8 DEF Redefine, RenameSym, AtItem
<1>9. CASE EndStmt \/ FinishRename \/ UNCHANGED scopeVars
  BY <1>9 DEF EndStmt, FinishRename, scopeVars
<1>10. ASSUME NEW x \in Names, NEW xs \in Exps,
              ConstDecl(x, xs) \/ VarDecl(x, xs)
       PROVE  \E const \in BOOLEAN : Decl(x, const, xs)
  BY <1>10 DEF ConstDecl, VarDecl
<1> QED
  BY <1>1, <1>2, <1>4, <1>6, <1>7, <1>8, <1>9, <1>10
     DEF Next, ScopeNext, ScopeOver

\* A constant node is of a declaration.
LEMMA ConstDeclared ==
  ASSUME Trail, NEW i \in 1..Len(ast), ast[i].kind = "const"
  PROVE  ast[i].at \in 1..Len(decls)
BY DEF Trail, NodeInside

LEMMA Consts_Same ==
  ASSUME Shape, Bindings, Trail, Consts, ast' = ast, Extends(decls'),
         pass' # "throw" => pass # "throw" /\ Len(decls') = Len(decls)
  PROVE  Consts'
<1>1. \A d \in 1..Len(decls) : decls'[d] = decls[d]
  BY DEF Extends
<1>2. \A i \in 1..Len(ast) : \A j \in 1..Len(ast[i].uses) :
        ast[i].uses[j].lex \in 1..Len(decls)
  BY DEF Bindings, GoodNodes, GoodNode, GoodUse
<1>3. \A i \in 1..Len(ast) : \A j \in 1..Len(ast[i].uses) :
        LET l == ast[i].uses[j].lex
        IN /\ decls'[l].const => \E k \in 1..i : ConstAt(ast, k, l)
           /\ ast[i].kind = "const" => l <= ast[i].at
  <2> TAKE i \in 1..Len(ast)
  <2> TAKE j \in 1..Len(ast[i].uses)
  <2> DEFINE l == ast[i].uses[j].lex
  <2>1. /\ decls[l].const => \E k \in 1..i : ConstAt(ast, k, l)
        /\ ast[i].kind = "const" => l <= ast[i].at
    BY DEF Consts
  <2>2. decls'[l] = decls[l]
    BY <1>1, <1>2
  <2> HIDE DEF l
  <2> QED  BY <2>1, <2>2 DEF l
<1>4. ASSUME pass' # "throw", NEW d \in 1..Len(decls'), decls'[d].const
      PROVE  \E k \in 1..Len(ast) : ConstAt(ast, k, d)
  <2>1. d \in 1..Len(decls) /\ decls[d].const
    BY <1>1, <1>4
  <2> QED  BY <1>4, <2>1 DEF Consts
<1>5. \A i, k \in 1..Len(ast) : \A d :
        ConstAt(ast, i, d) /\ ConstAt(ast, k, d) => i = k
  BY DEF Consts
<1>6. \A i, d : ConstAt(ast', i, d) = ConstAt(ast, i, d)
  OBVIOUS
<1> QED  BY <1>3, <1>4, <1>5, <1>6 DEF Consts

LEMMA Consts_Node ==
  ASSUME Shape, Bindings, Bindings', Trail, Consts, pass = "scope",
         Extends(decls'), NEW n, ast' = Append(ast, n),
         \/ Len(decls') = Len(decls) /\ n.kind # "const"
         \/ /\ Len(decls') = Len(decls) + 1 /\ n.at = Len(decls')
            /\ decls'[Len(decls')].const => n.kind = "const"
  PROVE  Consts'
<1> DEFINE m == Len(ast) + 1
<1>1. ast \in Seq(NodeType) /\ Len(ast) \in Nat /\ Len(decls) \in Nat
  BY DEF Shape, Typed
<1>2. /\ Len(ast') = m /\ ast'[m] = n
      /\ \A i \in 1..Len(ast) : ast'[i] = ast[i]
  BY <1>1, AppendProperties
<1>3. \A i \in 1..m : i \in 1..Len(ast) \/ i = m
  BY <1>1
<1>4. \A d \in 1..Len(decls) : decls'[d] = decls[d]
  BY DEF Extends
<1>5. \A i \in 1..m : \A j \in 1..Len(ast'[i].uses) :
        ast'[i].uses[j].lex \in 1..Len(decls')
  BY <1>2 DEF Bindings, GoodNodes, GoodNode, GoodUse
<1>6. \A i \in 1..Len(ast) : \A j \in 1..Len(ast[i].uses) :
        ast[i].uses[j].lex \in 1..Len(decls)
  BY DEF Bindings, GoodNodes, GoodNode, GoodUse
<1>7. ASSUME NEW d \in 1..Len(decls'), decls'[d].const
      PROVE  \E k \in 1..m : ConstAt(ast', k, d)
  <2>1. CASE d \in 1..Len(decls)
    <3>1. PICK k \in 1..Len(ast) : ConstAt(ast, k, d)
      BY <1>4, <1>7, <2>1 DEF Consts
    <3> QED  BY <1>1, <1>2, <3>1 DEF ConstAt
  <2>2. CASE d \notin 1..Len(decls)
    <3>1. ConstAt(ast', m, d)
      BY <1>1, <1>2, <1>7, <2>2 DEF ConstAt
    <3> QED  BY <1>1, <3>1
  <2> QED  BY <2>1, <2>2
<1>8. ASSUME NEW i \in 1..m, NEW j \in 1..Len(ast'[i].uses)
      PROVE  LET l == ast'[i].uses[j].lex
             IN /\ decls'[l].const => \E k \in 1..i : ConstAt(ast', k, l)
                /\ ast'[i].kind = "const" => l <= ast'[i].at
  <2> DEFINE l == ast'[i].uses[j].lex
  <2>1. CASE i \in 1..Len(ast)
    <3>1. /\ l \in 1..Len(decls) /\ l = ast[i].uses[j].lex
          /\ j \in 1..Len(ast[i].uses)
      BY <1>2, <1>6, <2>1
    <3>2. /\ decls[l].const => \E k \in 1..i : ConstAt(ast, k, l)
          /\ ast[i].kind = "const" => l <= ast[i].at
      BY <2>1, <3>1 DEF Consts
    <3>3. \A k \in 1..i : k \in 1..Len(ast)
      BY <1>1, <2>1
    <3> QED  BY <1>2, <1>4, <2>1, <3>1, <3>2, <3>3 DEF ConstAt
  <2>2. CASE i = m
    <3>1. l \in 1..Len(decls')
      BY <1>5
    <3>2. decls'[l].const => \E k \in 1..m : ConstAt(ast', k, l)
      BY <1>7, <3>1
    <3>3. n.kind = "const" => l <= n.at
      BY <1>1, <3>1
    <3> QED  BY <1>2, <2>2, <3>2, <3>3
  <2> QED  BY <1>3, <2>1, <2>2
<1>9. ASSUME NEW i \in 1..m, NEW k \in 1..m, NEW d,
             ConstAt(ast', i, d), ConstAt(ast', k, d)
      PROVE  i = k
  <2>1. ASSUME NEW a \in 1..Len(ast), ConstAt(ast', a, d)
        PROVE  d \in 1..Len(decls) /\ ConstAt(ast, a, d)
    BY <1>2, <2>1, ConstDeclared DEF ConstAt
  <2>2. ConstAt(ast', m, d) => d \notin 1..Len(decls)
    BY <1>1, <1>2 DEF ConstAt
  <2>3. CASE i \in 1..Len(ast) /\ k \in 1..Len(ast)
    BY <1>9, <2>1, <2>3 DEF Consts
  <2> QED  BY <1>3, <1>9, <2>1, <2>2, <2>3
<1> QED  BY <1>2, <1>7, <1>8, <1>9 DEF Consts

LEMMA Consts_Step ==
  ASSUME Shape, Recorded, Bindings, Trail, Consts, [Next]_scopeVars
  PROVE  Consts'
<1>1. Bindings' /\ Extends(decls)
  BY Bindings_Step, ExtendsSelf
<1>2. CASE UNCHANGED <<ast, decls>> /\ (pass = "throw" => pass' = "throw")
  BY <1>1, <1>2, Consts_Same
<1>3. CASE /\ pass = "scope" /\ decls' = decls
           /\ \E n : ast' = Append(ast, n) /\ n.kind # "const"
  BY <1>1, <1>3, Consts_Node
<1>4. ASSUME NEW x \in Names, NEW const \in BOOLEAN, NEW xs \in Exps,
             Decl(x, const, xs)
      PROVE  Consts'
  <2> DEFINE r == DeclRecord(x, const)
             n == Node(IF const THEN "const" ELSE "var", Len(decls) + 1)
             us == [i \in DOMAIN xs |-> Use(DeclTab(x, const), decls', xs[i])]
  <2>1. /\ pass = "scope" /\ decls' = Append(decls, r)
        /\ VisitExp(DeclTab(x, const), decls', n, xs)
    BY <1>4, DeclCases
  <2>2. r \in DeclType /\ r.const = const
    BY <2>1, CurrentScope DEF DeclRecord, DeclType
  <2>3. decls \in Seq(DeclType) /\ Len(decls) \in Nat
    BY DEF Shape, Typed
  <2> HIDE DEF r
  <2>4. /\ Len(decls') = Len(decls) + 1 /\ decls'[Len(decls) + 1] = r
        /\ Extends(decls')
    BY <2>1, <2>2, <2>3, Push DEF Extends
  <2>5. CASE pass' = "throw" /\ ast' = ast
    BY <2>4, <2>5, Consts_Same
  <2>6. CASE ast' = Append(ast, [n EXCEPT !.uses = us])
    <3> DEFINE p == [n EXCEPT !.uses = us]
    <3>1. p.at = Len(decls) + 1 /\ (const => p.kind = "const")
      BY DEF Node
    <3> HIDE DEF p
    <3> QED  BY <1>1, <2>1, <2>2, <2>4, <2>6, <3>1, Consts_Node DEF p
  <2> QED  BY <2>1, <2>5, <2>6 DEF VisitExp, Throw
<1> QED  BY <1>2, <1>3, <1>4, StepRecords

-----------------------------------------------------------------------------
(* The values in the tables. The first pass leaves the placeholder in every   *)
(* constant's entry; the second replaces it, once, when it visits the node.   *)

Placeheld(t) ==
  \A b \in 1..Len(t) : \A x \in DOMAIN t[b] :
    t[b][x].const => t[b][x].val = INT32_MIN

Placeholders == pass # "replay" => Placeheld(tab)

ValOf(d) == tab[decls[d].block][ident[d]].val
Done(d) == \E k \in 1..Len(out) : ConstAt(ast, k, d)

Values ==
  pass = "replay" /\ CleanNames =>
    \A d \in 1..Len(decls) : decls[d].const =>
      /\ ~Done(d) => ValOf(d) = INT32_MIN
      /\ Done(d) /\ PlainProgram => ValOf(d) = RefVal[d]

LEMMA Placeheld_Open ==
  ASSUME Shape, Placeheld(tab), OpenBlock
  PROVE  Placeheld(tab')
<1>1. tab \in Seq(Table) /\ tab' = Append(tab, <<>>) /\ Len(tab) \in Nat
  BY DEF Shape, Typed, OpenBlock
<1>2. /\ Len(tab') = Len(tab) + 1 /\ tab'[Len(tab) + 1] = <<>>
      /\ \A b \in 1..Len(tab) : tab'[b] = tab[b]
  BY <1>1, AppendProperties
<1>3. \A b \in 1..Len(tab') : b \in 1..Len(tab) \/ b = Len(tab) + 1
  BY <1>1, <1>2
<1>4. \A x : x \notin DOMAIN <<>>
  OBVIOUS
<1> QED  BY <1>2, <1>3, <1>4 DEF Placeheld

LEMMA Placeheld_Decl ==
  ASSUME Shape, Placeheld(tab), NEW x \in Names, NEW const \in BOOLEAN,
         NEW xs \in Exps, Decl(x, const, xs)
  PROVE  Placeheld(tab')
<1> DEFINE t == DeclTab(x, const)
<1>1. pass = "scope" /\ tab' = t
  BY DeclCases
<1>2. /\ Len(t) = Len(tab) /\ DOMAIN t[Cur] = DOMAIN tab[Cur] \cup {x}
      /\ t[Cur][x] = DeclEntry(const)
      /\ \A y \in DOMAIN tab[Cur] : y # x => t[Cur][y] = tab[Cur][y]
      /\ \A b \in 1..Len(tab) : b # Cur => t[b] = tab[b]
  BY <1>1, DeclTables
<1>3. DeclEntry(const).const => DeclEntry(const).val = INT32_MIN
  BY DEF DeclEntry, ConstEntry, VarEntry
<1> HIDE DEF t
<1>4. ASSUME NEW b \in 1..Len(tab), NEW y \in DOMAIN t[b], t[b][y].const
      PROVE  t[b][y].val = INT32_MIN
  <2>1. CASE b = Cur /\ y = x
    BY <1>2, <1>3, <1>4, <2>1
  <2>2. CASE ~(b = Cur /\ y = x)
    <3>1. y \in DOMAIN tab[b] /\ t[b][y] = tab[b][y]
      BY <1>2, <2>2
    <3> QED  BY <1>4, <3>1 DEF Placeheld
  <2> QED  BY <2>1, <2>2
<1> QED  BY <1>1, <1>2, <1>4 DEF Placeheld

LEMMA Placeheld_RenameSym ==
  ASSUME Shape, Recorded, Placeheld(tab), NEW x \in Names, RenameSym(x)
  PROVE  Placeheld(tab')
<1>1. Len(tab') = Len(tab) /\ DOMAIN tab = 1..Len(tab)
  BY RenameTables DEF Shape, Typed
<1>2. ASSUME NEW b \in 1..Len(tab), NEW y \in DOMAIN tab'[b], tab'[b][y].const
      PROVE  tab'[b][y].val = INT32_MIN
  <2>1. CASE b \notin Renaming(x)
    <3>1. tab'[b] = tab[b]
      BY <1>1, <2>1 DEF RenameSym
    <3> QED  BY <1>2, <3>1 DEF Placeheld
  <2>2. CASE b \in Renaming(x)
    <3> DEFINE m == Renamed(x, Turn(x, b))
               e == VarEntry(tab[b][x].var)
    <3>1. tab'[b] = remove_sym(add_sym(tab[b], m, e), x)
      BY <1>1, <2>2 DEF RenameSym
    <3>2. e.const = FALSE
      BY DEF VarEntry
    <3> HIDE DEF m, e
    <3>3. y \in DOMAIN tab[b] \cup {m} /\
          tab'[b][y] = IF y = m THEN e ELSE tab[b][y]
      BY <3>1 DEF remove_sym, add_sym
    <3>4. y \in DOMAIN tab[b] /\ tab'[b][y] = tab[b][y]
      BY <1>2, <3>2, <3>3
    <3> QED  BY <1>2, <3>4 DEF Placeheld
  <2> QED  BY <2>1, <2>2
<1> QED  BY <1>1, <1>2 DEF Placeheld

LEMMA Placeholders_Step ==
  ASSUME Shape, Recorded, Placeholders, [Next]_scopeVars
  PROVE  Placeholders'
<1>1. CASE tab' = tab /\ (pass = "replay" => pass' = "replay")
  BY <1>1 DEF Placeholders, Placeheld
<1>2. CASE OpenBlock
  BY <1>2, Placeheld_Open DEF Placeholders, OpenBlock, AtStmt
<1>3. ASSUME NEW x \in Names, NEW xs \in Exps,
             ConstDecl(x, xs) \/ VarDecl(x, xs)
      PROVE  Placeholders'
  <2>1. PICK const \in BOOLEAN : Decl(x, const, xs)
    BY <1>3 DEF ConstDecl, VarDecl
  <2>2. pass = "scope"
    BY <2>1 DEF Decl, AtItem
  <2> QED  BY <2>1, <2>2, Placeheld_Decl DEF Placeholders
<1>4. ASSUME NEW x \in Names, RenameSym(x) PROVE Placeholders'
  BY <1>4, Placeheld_RenameSym DEF Placeholders, RenameSym
<1>5. CASE CloseBlock \/ EndStmt \/ BreakOrContinue \/ FinishRename
  BY <1>1, <1>5 DEF CloseBlock, EndStmt, BreakOrContinue, FinishRename, AtItem,
                    AtStmt
<1>6. ASSUME NEW x \in Names, Redefine(x) PROVE Placeholders'
  BY <1>1, <1>6 DEF Redefine, AtItem
<1>7. ASSUME NEW x \in Names, NEW xs \in Exps, Assign(x, xs) PROVE Placeholders'
  BY <1>1, <1>7 DEF Assign, AtStmt
<1>8. ASSUME NEW xs \in Exps, If(xs) \/ While(xs) PROVE Placeholders'
  BY <1>1, <1>8 DEF If, While, AtStmt
<1>9. ASSUME NEW kind \in {"ret", "exp"}, NEW xs \in Exps,
             ReturnOrExp(kind, xs)
      PROVE  Placeholders'
  BY <1>1, <1>9 DEF ReturnOrExp, AtStmt
<1>10. CASE UNCHANGED scopeVars
  BY <1>1, <1>10 DEF scopeVars
<1> QED
  BY <1>2, <1>3, <1>4, <1>5, <1>6, <1>7, <1>8, <1>9, <1>10
     DEF Next, ScopeNext, ScopeOver

\* In a plain program a use is replaced by the value of the constant it means,
\* the placeholder in the constant's own initializer, and a variable is left to
\* its declaration.
LEMMA FoundValue ==
  ASSUME CPInv, Consts, Values, PlainProgram, pass = "replay",
         Pc \in DOMAIN ast, Here.kind \notin {"open", "close"},
         NEW j \in 1..Len(Here.uses)
  PROVE  LET u == Here.uses[j]
         IN /\ u.lex \in 1..Len(decls)
            /\ decls[u.lex].const =>
                 /\ Visited(u).num
                 /\ Visited(u).val = IF ConstAt(ast, Pc, u.lex) THEN INT32_MIN
                                     ELSE RefVal[u.lex]
            /\ ~decls[u.lex].const =>
                 ~Visited(u).num /\ Visited(u).var = u.lex
<1> DEFINE u == Here.uses[j]
           l == u.lex
<1>1. CleanNames
  BY DEF PlainProgram
<1>2. /\ Pc \in 1..Len(ast) /\ Len(out) \in Nat /\ Pc = Len(out) + 1
      /\ GoodNode(decls, Here) /\ Here \in NodeType
  BY NextNode DEF CPInv
<1>3. GoodUse(decls, u)
  BY <1>2 DEF GoodNode
<1>4. ~HiddenVar(u) /\ ~LateDecl(Pc, u)
  <2>1. j \in DOMAIN Here.uses
    BY <1>2 DEF NodeType
  <2> QED  BY <2>1 DEF PlainProgram, Here
<1>5. PICK d \in 1..Len(decls) : FoundFor(d, u)
  BY <1>1, UseIsFound DEF CPInv
<1>6. d = l
  BY <1>1, <1>4, <1>5, FoundIsLexical DEF CPInv
<1>7. /\ decls[l].const => \E k \in 1..Pc : ConstAt(ast, k, l)
      /\ \A i, k \in 1..Len(ast) :
           ConstAt(ast, i, l) /\ ConstAt(ast, k, l) => i = k
  <2>1. decls[l].const => \E k \in 1..Pc : ConstAt(ast, k, l)
    <3> HIDE DEF Pc
    <3> QED  BY <1>2 DEF Consts, Here
  <2>2. \A i, k \in 1..Len(ast) :
          ConstAt(ast, i, l) /\ ConstAt(ast, k, l) => i = k
    <3> HIDE DEF l
    <3> QED  BY DEF Consts
  <2> QED  BY <2>1, <2>2
<1> HIDE DEF u, l
<1>8. /\ Found(Repr(u)) = tab[decls[l].block][ident[l]]
      /\ tab[decls[l].block][ident[l]].const = decls[l].const
  <2>1. tab[decls[l].block][ident[l]].const = decls[l].const
    BY <1>1, <1>6, TablesNow DEF CPInv
  <2> QED  BY <1>5, <1>6, <2>1 DEF FoundFor
<1>9. ASSUME decls[l].const
      PROVE  /\ Visited(u).num
             /\ Visited(u).val = IF ConstAt(ast, Pc, l) THEN INT32_MIN
                                 ELSE RefVal[l]
  <2>1. Visited(u) = [num |-> TRUE, val |-> ValOf(l), var |-> NoDecl]
    BY <1>8, <1>9 DEF Visited, ValOf
  <2>2. Visited(u).num = TRUE /\ Visited(u).val = ValOf(l)
    BY <2>1
  <2>3. CASE ConstAt(ast, Pc, l)
    <3>1. ~Done(l)
      <4> SUFFICES ASSUME NEW k \in 1..Len(out), ConstAt(ast, k, l) PROVE FALSE
        BY DEF Done
      <4>1. k \in 1..Len(ast) /\ k # Pc
        BY <1>2
      <4> QED  BY <1>2, <1>7, <2>3, <4>1
    <3>2. ValOf(l) = INT32_MIN
      BY <1>1, <1>5, <1>6, <1>9, <3>1 DEF Values
    <3> QED  BY <2>2, <2>3, <3>2
  <2>4. CASE ~ConstAt(ast, Pc, l)
    <3>1. PICK k \in 1..Pc : ConstAt(ast, k, l)
      BY <1>7, <1>9
    <3>2. k \in 1..Len(out)
      BY <1>2, <2>4, <3>1
    <3>3. Done(l)
      BY <3>1, <3>2 DEF Done
    <3>4. ValOf(l) = RefVal[l]
      BY <1>1, <1>5, <1>6, <1>9, <3>3 DEF Values
    <3> QED  BY <2>2, <2>4, <3>4
  <2> QED  BY <2>3, <2>4
<1>10. ASSUME ~decls[l].const
       PROVE  ~Visited(u).num /\ Visited(u).var = l
  <2>1. Visited(u) = Raw(u)
    BY <1>8, <1>10 DEF Visited
  <2>2. Visited(u).num = FALSE /\ Visited(u).var = u.var
    BY <2>1 DEF Raw
  <2>3. u.var = l
    BY <1>3, <1>4, <1>10 DEF GoodUse, HiddenVar, l
  <2> QED  BY <2>2, <2>3
<1> QED  BY <1>5, <1>6, <1>9, <1>10 DEF u, l

\* The node that declares a constant.
LEMMA ConstNodeIs ==
  ASSUME CPInv, Consts, pass = "replay",
         NEW d \in 1..Len(decls), decls[d].const
  PROVE  ConstNode(d) \in 1..Len(ast) /\ ConstAt(ast, ConstNode(d), d)
<1>1. DOMAIN ast = 1..Len(ast)
  BY DEF CPInv, Shape, Typed
<1>2. \E k \in DOMAIN ast : ast[k].kind = "const" /\ ast[k].at = d
  BY <1>1 DEF Consts, ConstAt
<1> QED  BY <1>1, <1>2 DEF ConstNode, ConstAt

LEMMA RefValIs ==
  ASSUME CPInv, Consts, pass = "replay"
  PROVE  \A d \in 1..Len(decls) : RefVal[d] = RefEq(RefVal, d)
<1>1. decls \in Seq(DeclType) /\ ast \in Seq(NodeType) /\ Len(decls) \in Nat
  BY DEF CPInv, Shape, Typed
<1>2. ASSUME NEW d \in 1..Len(decls), decls[d].const,
             NEW u \in Range(ast[ConstNode(d)].uses)
      PROVE  u.lex \in 1..d
  <2> DEFINE n == ConstNode(d)
  <2>1. n \in 1..Len(ast) /\ ConstAt(ast, n, d)
    BY <1>2, ConstNodeIs
  <2> HIDE DEF n
  <2>2. ast[n] \in NodeType
    BY <1>1, <2>1
  <2>3. PICK j \in 1..Len(ast[n].uses) : u = ast[n].uses[j]
    BY <1>2, <2>2 DEF Range, NodeType, n
  <2>4. u.lex <= d
    BY <2>1, <2>3 DEF Consts, ConstAt
  <2>5. u.lex \in 1..Len(decls)
    BY <2>1, <2>3 DEF CPInv, Bindings, GoodNodes, GoodNode, GoodUse
  <2> QED  BY <1>1, <2>4, <2>5
<1>3. Backward
  BY <1>2 DEF Backward
<1> QED  BY <1>1, <1>3, RefValSolves

\* A node that declares no constant leaves the values as they are.
LEMMA Values_Same ==
  ASSUME CPInv, Values, pass = "replay",
         UNCHANGED <<tab, ast, decls, ident>>,
         \/ out' = out
         \/ /\ Pc \in DOMAIN ast /\ Here.kind # "const"
            /\ \E r : out' = Append(out, r)
  PROVE  Values'
<1>1. \A d \in 1..Len(decls) : Done(d)' = Done(d)
  <2>1. CASE out' = out
    BY <2>1 DEF Done, ConstAt
  <2>2. CASE out' # out
    <3>1. PICK r : out' = Append(out, r)
      BY <2>2
    <3>2. Len(out') = Len(out) + 1 /\ Len(out) \in Nat /\ Pc = Len(out) + 1
      BY <3>1, AppendProperties DEF CPInv, Walk, Pc
    <3>3. \A k \in 1..Len(out') : k \in 1..Len(out) \/ k = Pc
      BY <3>2
    <3>4. 1..Len(out) \subseteq 1..Len(out')
      BY <3>2
    <3>5. ast[Pc].kind # "const"
      BY <2>2 DEF Here
    <3> QED  BY <3>3, <3>4, <3>5 DEF Done, ConstAt
  <2> QED  BY <2>1, <2>2
<1>2. RefVal' = RefVal
  BY RefValSame
<1>3. (PlainProgram' => PlainProgram) /\ (CleanNames' => CleanNames)
  BY DEF PlainProgram, CleanNames, LateDecl, HiddenVar, Enclosing
<1>4. \A d : ValOf(d)' = ValOf(d)
  BY DEF ValOf
<1> QED  BY <1>1, <1>2, <1>3, <1>4 DEF Values

LEMMA Values_Start ==
  ASSUME CPInv, CPInv', Placeholders, FinishRename, UNCHANGED cpVars
  PROVE  Values'
<1>1. /\ pass = "rename" /\ pass' = "replay" /\ out' = <<>>
      /\ UNCHANGED <<tab, ast, decls, ident>>
  BY DEF FinishRename, cpVars, CPInv, Walk
<1>2. \A d : ~Done(d)'
  <2>1. Len(out') = 0
    BY <1>1
  <2> QED  BY <2>1 DEF Done
<1>3. ASSUME CleanNames', NEW d \in 1..Len(decls), decls[d].const
      PROVE  ValOf(d)' = INT32_MIN
  <2> DEFINE t == tab[decls[d].block]
  <2>1. DOMAIN decls' = 1..Len(decls)
    BY <1>1 DEF CPInv, Shape, Typed
  <2>2. TablesKeepDecls'
    BY DEF CPInv, Renames
  <2>3. ident[d] \in DOMAIN t /\ t[ident[d]].const = decls[d].const
    BY <1>1, <1>3, <2>1, <2>2 DEF TablesKeepDecls
  <2>4. decls[d].block \in 1..Len(tab)
    BY DEF CPInv, Shape, InTables
  <2>5. Placeheld(tab)
    BY <1>1 DEF Placeholders
  <2> QED  BY <1>1, <1>3, <2>3, <2>4, <2>5 DEF Placeheld, ValOf
<1> QED  BY <1>1, <1>2, <1>3 DEF Values

\* A constant gets the value C gives it.
LEMMA ConstValue ==
  ASSUME CPInv, Consts, Values, PlainProgram, VisitConst
  PROVE  LET d == Here.at
         IN {d} \cup FoldedVal(Results(Here.uses)) = RefVal[d]
<1> DEFINE d == Here.at
           us == Here.uses
           R(u) == IF u.lex = d THEN INT32_MIN ELSE RefVal[u.lex]
<1>1. /\ pass = "replay" /\ Pc \in DOMAIN ast /\ Here.kind = "const"
      /\ ~Lost(us) /\ Folds(Results(us))
  BY DEF VisitConst, Evaluates, At, Here
<1>2. d \in 1..Len(decls) /\ decls[d].const
  BY <1>1, ConstHere
<1>3. Here \in NodeType /\ Pc \in 1..Len(ast)
  BY <1>1, NextNode DEF CPInv
<1>4. DOMAIN us = 1..Len(us)
  BY <1>3 DEF NodeType
<1>5. ConstNode(d) = Pc
  <2>1. ConstNode(d) \in 1..Len(ast) /\ ConstAt(ast, ConstNode(d), d)
    BY <1>1, <1>2, ConstNodeIs
  <2>2. ConstAt(ast, Pc, d)
    BY <1>1 DEF ConstAt, Here
  <2> HIDE DEF d
  <2> QED  BY <1>3, <2>1, <2>2 DEF Consts
<1>6. RefVal[d] = {d} \cup UNION {R(u) : u \in Range(us)}
  <2>1. RefVal[d] = RefEq(RefVal, d)
    BY <1>1, <1>2, RefValIs
  <2> QED  BY <1>2, <1>5, <2>1 DEF RefEq, Here
<1>7. ASSUME NEW j \in 1..Len(us)
      PROVE  Visited(us[j]).val = R(us[j])
  <2> DEFINE u == us[j]
  <2>1. /\ decls[u.lex].const =>
             Visited(u).val = IF ConstAt(ast, Pc, u.lex) THEN INT32_MIN
                              ELSE RefVal[u.lex]
        /\ ~decls[u.lex].const => ~Visited(u).num
    BY <1>1, FoundValue
  <2>2. Visited(u).num
    BY <1>1, <1>4 DEF Folds, Results
  <2>3. ConstAt(ast, Pc, u.lex) <=> u.lex = d
    BY <1>1 DEF ConstAt, Here
  <2> HIDE DEF u, d, us
  <2> QED  BY <2>1, <2>2, <2>3 DEF u
<1>8. FoldedVal(Results(us)) = UNION {Visited(us[j]).val : j \in 1..Len(us)}
  BY <1>4 DEF FoldedVal, Results
<1>9. Range(us) = {us[j] : j \in 1..Len(us)}
  BY <1>4 DEF Range
<1> HIDE DEF us, R
<1>10. UNION {Visited(us[j]).val : j \in 1..Len(us)}
         = UNION {R(u) : u \in Range(us)}
  BY <1>7, <1>9
<1> QED  BY <1>6, <1>8, <1>10 DEF us

LEMMA Values_Const ==
  ASSUME CPInv, Consts, Values, VisitConst
  PROVE  Values'
<1>0. PICK d : d = Here.at
  OBVIOUS
<1> DEFINE b == decls[d].block
           n == ident[d]
           v == {d} \cup FoldedVal(Results(Here.uses))
           e == ConstEntry(v)
<1>1. /\ pass = "replay" /\ Pc \in DOMAIN ast /\ Here.kind = "const"
      /\ out' = Append(out, Results(Here.uses))
      /\ UNCHANGED <<pass, decls, ident, ast>>
  BY DEF VisitConst, Evaluates, At, Here
<1>2. /\ d \in 1..Len(decls) /\ decls[d].const = TRUE /\ b \in 1..Len(tab)
      /\ Len(tab') = Len(tab) /\ tab'[b][n] = e
      /\ \A y \in DOMAIN tab[b] : y # n => tab'[b][y] = tab[b][y]
      /\ \A c \in 1..Len(tab) : c # b => tab'[c] = tab[c]
  BY <1>0, ConstTables
<1>3. e.val = v
  BY DEF ConstEntry
<1>4. PlainProgram => v = RefVal[d]
  BY <1>0, ConstValue
<1>5. RefVal' = RefVal
  BY <1>1, RefValSame
<1>6. (PlainProgram' => PlainProgram) /\ (CleanNames' => CleanNames)
  <2>1. DOMAIN tab' = DOMAIN tab
    BY DEF VisitConst
  <2> QED
    BY <1>1, <2>1 DEF PlainProgram, CleanNames, LateDecl, HiddenVar, Enclosing
<1>7. ConstAt(ast, Pc, d)
  BY <1>0, <1>1 DEF ConstAt, Here
<1>8. /\ Len(out') = Len(out) + 1 /\ Len(out) \in Nat /\ Pc = Len(out) + 1
  BY <1>1, AppendProperties DEF CPInv, Walk, Pc
<1> HIDE DEF v, e
<1>9. ASSUME CleanNames, NEW f \in 1..Len(decls), decls[f].const, f # d
      PROVE  ValOf(f)' = ValOf(f) /\ Done(f)' = Done(f)
  <2>1. /\ ident[f] \in DOMAIN tab[decls[f].block]
        /\ decls[f].block \in 1..Len(tab)
    <3>1. ident[f] \in DOMAIN tab[decls[f].block]
      BY <1>1, <1>9, TablesNow DEF CPInv
    <3> QED  BY <3>1 DEF CPInv, Shape, InTables
  <2>2. ~(decls[f].block = b /\ ident[f] = n)
    <3>1. ident[f] = decls[f].name /\ n = decls[d].name
      BY <1>1, <1>2, <1>9, TablesNow DEF CPInv
    <3>2. Distinct(decls)
      BY <1>1 DEF CPInv, Owned
    <3> QED  BY <1>2, <1>9, <3>1, <3>2 DEF Distinct
  <2>3. tab'[decls[f].block][ident[f]] = tab[decls[f].block][ident[f]]
    BY <1>2, <2>1, <2>2
  <2>4. ValOf(f)' = ValOf(f)
    BY <1>1, <2>3 DEF ValOf
  <2>5. ~ConstAt(ast, Pc, f)
    BY <1>0, <1>9 DEF ConstAt, Here
  <2>6. \A k \in 1..Len(out') : k \in 1..Len(out) \/ k = Pc
    BY <1>8
  <2>7. 1..Len(out) \subseteq 1..Len(out')
    BY <1>8
  <2>8. Done(f)' = Done(f)
    BY <1>1, <2>5, <2>6, <2>7 DEF Done, ConstAt
  <2> QED  BY <2>4, <2>8
<1>10. Done(d)'
  <2>1. Pc \in 1..Len(out')
    BY <1>8
  <2>2. ConstAt(ast', Pc, d)
    BY <1>1, <1>7
  <2> QED  BY <2>1, <2>2 DEF Done
<1>11. PlainProgram => ValOf(d)' = RefVal[d]
  BY <1>1, <1>2, <1>3, <1>4 DEF ValOf
<1> SUFFICES ASSUME CleanNames, NEW f \in 1..Len(decls), decls[f].const
             PROVE  /\ ~Done(f)' => ValOf(f)' = INT32_MIN
                    /\ Done(f)' /\ PlainProgram => ValOf(f)' = RefVal[f]
  BY <1>1, <1>5, <1>6 DEF Values
<1>12. CASE f = d
  BY <1>10, <1>11, <1>12
<1>13. CASE f # d
  <2>1. /\ ~Done(f) => ValOf(f) = INT32_MIN
        /\ Done(f) /\ PlainProgram => ValOf(f) = RefVal[f]
    BY <1>1 DEF Values
  <2> QED  BY <1>9, <1>13, <2>1
<1> QED  BY <1>12, <1>13

-----------------------------------------------------------------------------
(* The steps of both walks.                                                   *)

Folding == Consts /\ Placeholders /\ Values

LEMMA NoReplay ==
  ASSUME ScopeNext PROVE pass # "replay"
BY DEF ScopeNext, OpenBlock, CloseBlock, EndStmt, BreakOrContinue, AtStmt,
       AtItem, Redefine, ConstDecl, VarDecl, Decl, Assign, If, While,
       ReturnOrExp, RenameSym, FinishRename

LEMMA ReplayStarts ==
  ASSUME ScopeNext, pass' = "replay"
  PROVE  FinishRename
<1>1. ASSUME NEW t, NEW ds, NEW n, NEW xs, pass = "scope",
             VisitExp(t, ds, n, xs)
      PROVE  FALSE
  BY <1>1 DEF VisitExp, Throw
<1>2. ASSUME OpenBlock \/ CloseBlock \/ EndStmt \/ BreakOrContinue PROVE FALSE
  BY <1>2 DEF OpenBlock, CloseBlock, EndStmt, BreakOrContinue, AtStmt, AtItem,
              Throw
<1>3. ASSUME NEW x \in Names, NEW xs \in Exps,
             ConstDecl(x, xs) \/ VarDecl(x, xs)
      PROVE  FALSE
  BY <1>1, <1>3 DEF ConstDecl, VarDecl, Decl, AtItem
<1>4. ASSUME NEW x \in Names, NEW xs \in Exps, Assign(x, xs) PROVE FALSE
  BY <1>1, <1>4 DEF Assign, AtStmt, Throw
<1>5. ASSUME NEW xs \in Exps, If(xs) \/ While(xs) PROVE FALSE
  BY <1>1, <1>5 DEF If, While, AtStmt
<1>6. ASSUME NEW kind \in {"ret", "exp"}, NEW xs \in Exps,
             ReturnOrExp(kind, xs)
      PROVE  FALSE
  BY <1>1, <1>6 DEF ReturnOrExp, AtStmt
<1>7. ASSUME NEW x \in Names, Redefine(x) \/ RenameSym(x) PROVE FALSE
  BY <1>7 DEF Redefine, RenameSym, Throw
<1> QED
  BY <1>2, <1>3, <1>4, <1>5, <1>6, <1>7 DEF ScopeNext

LEMMA Folding_Init ==
  ASSUME CPInit PROVE Folding
<1>1. /\ pass = "scope" /\ tab = << <<>> >> /\ decls = <<>>
      /\ ast = <<Node("open", 1)>>
  BY DEF CPInit, Init
<1>2. /\ Len(decls) = 0 /\ Len(ast) = 1 /\ ast[1] = Node("open", 1)
      /\ Len(tab) = 1 /\ tab[1] = <<>>
  BY <1>1
<1>3. /\ ast[1].kind = "open" /\ Len(ast[1].uses) = 0
  BY <1>2 DEF Node
<1>4. \A i \in 1..Len(ast) : i = 1
  BY <1>2
<1>5. Consts
  BY <1>2, <1>3, <1>4 DEF Consts, ConstAt
<1>6. Placeholders
  <2>1. \A x : x \notin DOMAIN <<>>
    OBVIOUS
  <2>2. \A i \in 1..Len(tab) : i = 1
    BY <1>2
  <2> QED  BY <1>2, <2>1, <2>2 DEF Placeholders, Placeheld
<1>7. Values
  BY <1>1 DEF Values
<1> QED  BY <1>5, <1>6, <1>7 DEF Folding

\* The first pass records its constants; the second walk fills them in.
LEMMA Folding_Step ==
  ASSUME CPInv, Folding, [CPNext]_allVars
  PROVE  Folding'
<1>1. CASE ScopeNext /\ UNCHANGED cpVars
  <2>1. [Next]_scopeVars /\ pass # "replay" /\ CPInv'
    BY <1>1, NoReplay, CPInv_Step DEF Next
  <2>2. Consts' /\ Placeholders'
    BY <2>1, Consts_Step, Placeholders_Step DEF CPInv, Folding
  <2>3. CASE pass' = "replay"
    <3>1. FinishRename
      BY <1>1, <2>3, ReplayStarts
    <3> QED  BY <1>1, <2>1, <2>2, <3>1, Values_Start DEF Folding
  <2>4. CASE pass' # "replay"
    <3>1. Values'
      BY <2>4 DEF Values
    <3> QED  BY <2>2, <3>1 DEF Folding
  <2> QED  BY <2>3, <2>4
<1>2. ASSUME pass = "replay", UNCHANGED <<ast, decls, pass>>
      PROVE  Consts' /\ Placeholders'
  BY <1>2 DEF Folding, Consts, ConstAt, Placeholders
<1>3. CASE Abort \/ NotConst \/ CPDone
  <2>1. pass = "replay" /\ UNCHANGED <<pass, tab, ast, decls, ident, out>>
    BY <1>3 DEF Abort, NotConst, CPDone, Evaluates, At, scopeVars
  <2> QED  BY <1>2, <2>1, Values_Same DEF Folding
<1>4. CASE VisitOpen \/ VisitClose \/ VisitStored \/ VisitCond \/ Skip
  <2>1. /\ pass = "replay" /\ UNCHANGED <<pass, tab, ast, decls, ident>>
        /\ Pc \in DOMAIN ast /\ Here.kind # "const"
        /\ \E r : out' = Append(out, r)
    BY <1>4 DEF VisitOpen, VisitClose, VisitStored, VisitCond, Skip, Evaluates,
                At, scopeVars, Here
  <2> QED  BY <1>2, <2>1, Values_Same DEF Folding
<1>5. CASE VisitConst
  <2>1. pass = "replay" /\ UNCHANGED <<pass, ast, decls>>
    BY <1>5 DEF VisitConst, Evaluates, At
  <2> QED  BY <1>2, <1>5, <2>1, Values_Const DEF Folding
<1>6. CASE UNCHANGED allVars
  <2>1. UNCHANGED scopeVars /\ UNCHANGED <<pass, tab, ast, decls, ident, out>>
    BY <1>6 DEF allVars, scopeVars, cpVars
  <2>2. Consts' /\ Placeholders'
    BY <2>1, Consts_Step, Placeholders_Step DEF CPInv, Folding
  <2>3. Values'
    BY <2>1, Values_Same DEF Folding, Values
  <2> QED  BY <2>2, <2>3 DEF Folding
<1> QED
  BY <1>1, <1>3, <1>4, <1>5, <1>6 DEF CPNext, CPVisit, CPOver

\* What the use u of node i is to be replaced by.
RightFor(i, u, r) ==
  IF decls[u.lex].const
  THEN /\ r.num
       /\ r.val = IF ConstAt(ast, i, u.lex) THEN INT32_MIN ELSE RefVal[u.lex]
  ELSE ~r.num /\ r.var = u.lex

Folded == {"const", "var", "assign", "ret"}

LEMMA FoldedRight_Node ==
  ASSUME CPInv, FoldedRight, pass = "replay", Pc \in DOMAIN ast,
         UNCHANGED <<ast, decls>>, DOMAIN tab' = DOMAIN tab,
         NEW r \in Seq(Result), out' = Append(out, r),
         PlainProgram /\ Here.kind \in Folded =>
           \A j \in 1..Len(r) : RightFor(Pc, Here.uses[j], r[j])
  PROVE  FoldedRight'
<1>1. /\ out \in Seq(Seq(Result)) /\ Len(out) \in Nat /\ Pc = Len(out) + 1
  BY DEF CPInv, Walk, Pc
<1>2. /\ DOMAIN out = 1..Len(out) /\ DOMAIN out' = 1..Pc /\ out'[Pc] = r
      /\ \A i \in 1..Len(out) : out'[i] = out[i]
  BY <1>1
<1>3. \A i \in 1..Pc : i \in 1..Len(out) \/ i = Pc
  BY <1>1
<1>4. PlainProgram' => PlainProgram
  BY DEF PlainProgram, CleanNames, LateDecl, HiddenVar, Enclosing
<1>5. RefVal' = RefVal
  BY RefValSame
<1>6. ASSUME PlainProgram, NEW i \in 1..Pc, ast[i].kind \in Folded,
             NEW j \in DOMAIN out'[i]
      PROVE  RightFor(i, ast[i].uses[j], out'[i][j])
  <2>1. CASE i \in 1..Len(out)
    BY <1>2, <1>6, <2>1 DEF FoldedRight, RightFor, ConstAt, Folded
  <2>2. CASE i = Pc
    <3>1. j \in 1..Len(r)
      BY <1>2, <1>6, <2>2
    <3> QED  BY <1>2, <1>6, <2>2, <3>1 DEF Here
  <2> QED  BY <1>3, <2>1, <2>2
<1>7. ASSUME PlainProgram', NEW i \in DOMAIN out', ast'[i].kind \in Folded,
             NEW j \in DOMAIN out'[i]
      PROVE  LET u == ast'[i].uses[j]
                 res == out'[i][j]
                 self == ast'[i].kind = "const" /\ ast'[i].at = u.lex
             IN IF decls'[u.lex].const
                THEN res.num /\ res.val = IF self THEN INT32_MIN
                                          ELSE RefVal'[u.lex]
                ELSE ~res.num /\ res.var = u.lex
  <2>1. RightFor(i, ast[i].uses[j], out'[i][j])
    BY <1>2, <1>4, <1>6, <1>7
  <2> QED  BY <1>5, <2>1 DEF RightFor, ConstAt
<1> QED  BY <1>7 DEF FoldedRight, Folded

LEMMA FoldedRight_Step ==
  ASSUME CPInv, Folding, FoldedRight, [CPNext]_allVars
  PROVE  FoldedRight'
<1>1. CASE ScopeNext /\ UNCHANGED cpVars
  <2>1. out' = <<>>
    BY <1>1, NoReplay DEF CPInv, Walk, cpVars
  <2> QED  BY <2>1 DEF FoldedRight
<1>2. CASE Abort \/ NotConst \/ CPDone \/ UNCHANGED allVars
  <2>1. UNCHANGED <<ast, decls, tab, out>>
    BY <1>2 DEF Abort, NotConst, CPDone, allVars, cpVars, scopeVars
  <2>2. RefVal' = RefVal
    BY <2>1, RefValSame
  <2>3. PlainProgram' => PlainProgram
    BY <2>1 DEF PlainProgram, CleanNames, LateDecl, HiddenVar, Enclosing
  <2> QED  BY <2>1, <2>2, <2>3 DEF FoldedRight
<1>3. CASE VisitOpen \/ VisitClose \/ VisitCond \/ Skip
  <2>1. PICK r \in {<<>>, Unvisited(Here.uses), Results(Here.uses)} :
          /\ pass = "replay" /\ Pc \in DOMAIN ast /\ Here.kind \notin Folded
          /\ r \in {<<>>, Unvisited(Here.uses)} \/ ~Lost(Here.uses)
          /\ out' = Append(out, r) /\ UNCHANGED <<ast, decls, tab>>
    BY <1>3 DEF VisitOpen, VisitClose, VisitCond, Skip, Evaluates, At, Here,
                scopeVars, Folded
  <2>2. r \in Seq(Result)
    <3>1. <<>> \in Seq(Result)
      OBVIOUS
    <3> QED  BY <2>1, <3>1, ResultsTyped DEF CPInv
  <2> QED  BY <2>1, <2>2, FoldedRight_Node
<1>4. CASE VisitConst \/ VisitStored
  <2> DEFINE r == Results(Here.uses)
  <2>1. /\ pass = "replay" /\ Pc \in DOMAIN ast /\ out' = Append(out, r)
        /\ UNCHANGED <<ast, decls>> /\ ~Lost(Here.uses)
        /\ Here.kind \notin {"open", "close"}
    BY <1>4 DEF VisitConst, VisitStored, Evaluates, At, scopeVars, Here
  <2>2. DOMAIN tab' = DOMAIN tab
    BY <1>4 DEF VisitConst, VisitStored, scopeVars
  <2>3. r \in Seq(Result) /\ Len(r) = Len(Here.uses)
    BY <2>1, ResultsTyped DEF CPInv
  <2>4. \A j \in 1..Len(r) : r[j] = Visited(Here.uses[j])
    BY <2>3 DEF Results
  <2>5. ASSUME PlainProgram, NEW j \in 1..Len(r)
        PROVE  RightFor(Pc, Here.uses[j], r[j])
    <3>1. r[j] = Visited(Here.uses[j]) /\ j \in 1..Len(Here.uses)
      BY <2>3, <2>4
    <3> HIDE DEF r
    <3> QED  BY <2>1, <2>5, <3>1, FoundValue DEF RightFor, Folding
  <2> HIDE DEF r
  <2> QED  BY <2>1, <2>2, <2>3, <2>5, FoldedRight_Node
<1> QED
  BY <1>1, <1>2, <1>3, <1>4 DEF CPNext, CPVisit, CPOver

\* In a plain program every constant in an initializer, an assignment or a
\* return is replaced by the value of the declaration visible there, and every
\* variable is left to its declaration (visit(ExpAST), visit(StmtAST)).
THEOREM FoldingIsRight == CPSpec => []FoldedRight
<1>1. CPInit => CPInv /\ Folding /\ FoldedRight
  BY CPInv_Init, Folding_Init DEF CPInit, FoldedRight
<1>2. CPInv /\ Folding /\ FoldedRight /\ [CPNext]_allVars
        => (CPInv /\ Folding /\ FoldedRight)'
  BY CPInv_Step, Folding_Step, FoldedRight_Step
<1> QED  BY <1>1, <1>2, PTL DEF CPSpec
=============================================================================
