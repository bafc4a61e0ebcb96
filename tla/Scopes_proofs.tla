---------------------------- MODULE Scopes_proofs ---------------------------
(***************************************************************************)
(* Proofs about the symbol tables, for every program. The walks: the       *)
(* current table, which two callbacks move up and down, is always that of  *)
(* the scope around the node being visited. The names: what a lookup finds *)
(* in the tables is what the name means in the tree. The verdict: the      *)
(* analysis accepts the programs with well-formed scopes, and no others.   *)
(***************************************************************************)
EXTENDS LexicalScoping, Positions, TLAPS
-----------------------------------------------------------------------------
(* Trees *)

\* What a program's nodes are to each other.
LEMMA TreeFacts ==
  ASSUME prog \in Programs
  PROVE  /\ Len(prog.nodes) \in Nat /\ DOMAIN prog.nodes = Nodes /\ Nodes = 1..Len(prog.nodes)
         /\ \A n \in Nodes :
              /\ n \in Nat \ {0} /\ Parent(n) \in Nat /\ Parent(n) < n /\ Parent(n) \in 0..n - 1
              /\ Parent(n) # None => Parent(n) \in Nodes
              /\ \A k \in Nodes : Parent(n) < k /\ k < n => Parent(n) <= Parent(k)
              /\ Parent(n) = None <=> Kind(n) = "file"
              /\ Kind(n) = "module" => Kind(Parent(n)) = "file"
              /\ Kind(n) \in Borrowers => /\ n + 1 \in Nodes /\ Parent(n + 1) = n
                                          /\ Kind(n + 1) = FirstChild[Kind(n)]
              /\ Parent(n) # None /\ Kind(Parent(n)) \in Borrowers
                   => (Kind(n) = FirstChild[Kind(Parent(n))] <=> n = Parent(n) + 1)
         /\ prog.modules \in Seq(Nodes)
         /\ \A i \in DOMAIN prog.modules : prog.modules[i] \in Nodes
                                           /\ Kind(prog.modules[i]) \in {"file", "module"}
<1>1. IsForest(prog.nodes) /\ IsProgram(prog)
  BY ProgramsAssumption DEF IsProgram
<1>2. prog.nodes \in Seq([kind : Kinds, name : STRING, ref : STRING, parent : Nat])
  BY <1>1 DEF IsForest
<1>3. /\ Len(prog.nodes) \in Nat /\ DOMAIN prog.nodes = 1..Len(prog.nodes)
      /\ \A n \in DOMAIN prog.nodes : prog.nodes[n].parent \in Nat
  <2>. DEFINE nodes == prog.nodes
              Entries == [kind : Kinds, name : STRING, ref : STRING, parent : Nat]
  <2>1. nodes \in Seq(Entries)
    BY <1>2
  <2>2. \A r \in Entries : r.parent \in Nat
    OBVIOUS
  <2>. HIDE DEF nodes, Entries
  <2>3. Len(nodes) \in Nat /\ DOMAIN nodes = 1..Len(nodes) /\ \A n \in DOMAIN nodes : nodes[n] \in Entries
    BY <2>1
  <2>4. \A n \in DOMAIN nodes : nodes[n].parent \in Nat
    BY <2>2, <2>3
  <2>. QED
    BY <2>3, <2>4 DEF nodes
<1>4. DOMAIN prog.nodes = Nodes
  BY <1>3 DEF Nodes
<1>5. ASSUME NEW n \in Nodes
      PROVE  /\ n \in Nat \ {0} /\ Parent(n) \in Nat /\ Parent(n) < n /\ Parent(n) \in 0..n - 1
             /\ Parent(n) # None => Parent(n) \in Nodes
             /\ \A k \in Nodes : Parent(n) < k /\ k < n => Parent(n) <= Parent(k)
  <2>1. Parent(n) \in Nat /\ n \in Nat \ {0}
    BY <1>3, <1>4 DEF Parent, Node, Nodes
  <2>2. Parent(n) < n /\ \A k \in Parent(n) + 1..n - 1 : Parent(n) <= Parent(k)
    BY <1>1, <1>4 DEF IsForest, Parent, Node
  <2>3. \A k \in Nodes : Parent(n) < k /\ k < n => k \in Parent(n) + 1..n - 1
    BY <1>3, <2>1 DEF Nodes
  <2>4. Parent(n) # None => Parent(n) \in Nodes
    BY <1>3, <2>1, <2>2 DEF Nodes, None
  <2>. QED
    BY <2>1, <2>2, <2>3, <2>4
<1>6. ASSUME NEW n \in Nodes
      PROVE  /\ Parent(n) = None <=> Kind(n) = "file"
             /\ Kind(n) = "module" => Kind(Parent(n)) = "file"
             /\ Kind(n) \in Borrowers => /\ n + 1 \in Nodes /\ Parent(n + 1) = n
                                         /\ Kind(n + 1) = FirstChild[Kind(n)]
             /\ Parent(n) # None /\ Kind(Parent(n)) \in Borrowers
                  => (Kind(n) = FirstChild[Kind(Parent(n))] <=> n = Parent(n) + 1)
  <2>1. Borrowers \subseteq DOMAIN FirstChild
    BY DEF Borrowers, FirstChild
  <2>2. /\ Parent(n) = None <=> Kind(n) = "file"
        /\ Kind(n) = "module" => Kind(Parent(n)) = "file"
    BY <1>1, <1>4 DEF IsForest, Parent, Kind, Node
  <2>3. Kind(n) \in DOMAIN FirstChild => /\ n + 1 \in Nodes /\ Parent(n + 1) = n
                                         /\ Kind(n + 1) = FirstChild[Kind(n)]
    BY <1>1, <1>4 DEF IsForest, Parent, Kind, Node
  <2>4. Parent(n) # None /\ Kind(Parent(n)) \in DOMAIN FirstChild
          => (Kind(n) = FirstChild[Kind(Parent(n))] <=> n = Parent(n) + 1)
    BY <1>1, <1>4 DEF IsForest, Parent, Kind, Node
  <2>. QED
    BY <2>1, <2>2, <2>3, <2>4
<1>7. /\ prog.modules \in Seq(Nodes)
      /\ \A i \in DOMAIN prog.modules : Kind(prog.modules[i]) \in {"file", "module"}
  BY <1>1, <1>4 DEF IsProgram, Kind, Node
<1>8. \A i \in DOMAIN prog.modules : prog.modules[i] \in Nodes
  BY <1>7
<1>. QED
  BY <1>3, <1>4, <1>5, <1>6, <1>7, <1>8 DEF Nodes

\* The table of a node that borrows is that of a declaration or a pattern.
LEMMA FirstChildren ==
  ASSUME prog \in Programs
  PROVE  /\ \A n \in Nodes : Kind(n) \in Borrowers => Kind(n + 1) \in {"fndecl", "typedesc"}
         /\ \A n \in Nodes : Kind(n) \in Owners \cup Borrowers \/ Parent(n) # None
         /\ Owners \cap Borrowers = {}
BY TreeFacts DEF FirstChild, Borrowers, Owners
-----------------------------------------------------------------------------
(* Functions that go up the tree *)

\* One turn of ScopeAround.
Around(f, n) ==
  CASE Parent(n) = None -> None
    [] Parent(n) # None /\ Kind(Parent(n)) \in Owners -> Parent(n)
    [] Parent(n) # None /\ Kind(Parent(n)) \in Borrowers /\ n # Parent(n) + 1 -> Parent(n) + 1
    [] OTHER -> f[Parent(n)]

\* There is such a function: if not, there is a first node up to which there is
\* none.
LEMMA ScopeAroundDef ==
  ASSUME prog \in Programs
  PROVE  ScopeAround = [n \in Nodes |-> Around(ScopeAround, n)]
<1>. DEFINE L == Len(prog.nodes)
            Upto(n) == \E f : f = [k \in 1..n |-> Around(f, k)]
            Bad == {n \in 0..L : ~Upto(n)}
<1>0. L \in Nat /\ \A n \in Nodes : Parent(n) \in 0..n - 1
  BY TreeFacts
<1>1. Upto(0)
  <2>. DEFINE f == [k \in 1..0 |-> None]
  <2>1. 1..0 = {}
    OBVIOUS
  <2>2. f = [k \in 1..0 |-> Around(f, k)]
    BY <2>1
  <2>. QED
    BY <2>2
<1>2. ASSUME NEW n \in 1..L, Upto(n - 1)
      PROVE  Upto(n)
  <2>1. PICK g : g = [k \in 1..n - 1 |-> Around(g, k)]
    BY <1>2
  <2>. DEFINE f == [k \in 1..n |-> IF k = n THEN Around(g, n) ELSE g[k]]
  <2>2. ASSUME NEW k \in 1..n
        PROVE  f[k] = Around(f, k)
    <3>1. k \in Nodes /\ Parent(k) \in 0..k - 1 /\ L \in Nat /\ n \in Nat /\ k \in Nat
      BY <1>0 DEF Nodes
    <3>2. Parent(k) # None => Parent(k) \in 1..n - 1 /\ Parent(k) \in 1..n /\ Parent(k) # n
      BY <3>1 DEF None
    <3>3. Parent(k) # None => f[Parent(k)] = g[Parent(k)]
      BY <3>2
    <3>4. Around(f, k) = Around(g, k)
      BY <3>3 DEF Around
    <3>5. CASE k = n
      BY <3>4, <3>5
    <3>6. CASE k # n
      <4>1. k \in 1..n - 1
        BY <3>1, <3>6
      <4>2. g[k] = Around(g, k)
        BY <2>1, <4>1
      <4>. QED
        BY <3>4, <3>6, <4>2
    <3>. QED
      BY <3>5, <3>6
  <2>3. f = [k \in 1..n |-> Around(f, k)]
    <3>1. f = [k \in 1..n |-> f[k]]
      OBVIOUS
    <3>. HIDE DEF f
    <3>. QED
      BY <2>2, <3>1
  <2>. QED
    BY <2>3
<1>3. Bad = {}
  <2>. SUFFICES ASSUME Bad # {} PROVE FALSE
    OBVIOUS
  <2>1. PICK m \in Bad : \A i \in Bad : m <= i
    <3>. HIDE DEF Upto
    <3>. QED
      BY <1>0, FirstPosition
  <2>. HIDE DEF Upto
  <2>2. m \in 0..L /\ ~Upto(m) /\ m # 0
    BY <1>1
  <2>3. m - 1 \in 0..L /\ m \in 1..L /\ ~(m <= m - 1)
    BY <1>0, <2>2
  <2>4. Upto(m - 1)
    BY <2>1, <2>3
  <2>. QED
    BY <1>2, <2>2, <2>3, <2>4
<1>4. Upto(L)
  <2>. HIDE DEF Upto
  <2>. QED
    BY <1>0, <1>3
<1>5. \E f : f = [n \in Nodes |-> Around(f, n)]
  BY <1>4 DEF Nodes
<1>. QED
  BY <1>5 DEF ScopeAround, Around

\* The scope around a node stands before it.
LEMMA ScopeIsBefore ==
  ASSUME prog \in Programs
  PROVE  \A n \in Nodes : ScopeAround[n] \in 0..n - 1
<1>. DEFINE L == Len(prog.nodes)
            Bad == {n \in Nodes : ScopeAround[n] \notin 0..n - 1}
<1>0. L \in Nat /\ \A n \in Nodes : n \in Nat \ {0} /\ Parent(n) \in 0..n - 1
  BY TreeFacts
<1>1. Bad = {}
  <2>. SUFFICES ASSUME Bad # {} PROVE FALSE
    OBVIOUS
  <2>0. Bad \in SUBSET (0..L)
    BY <1>0 DEF Nodes
  <2>1. PICK n \in Bad : \A i \in Bad : n <= i
    BY <1>0, <2>0, FirstPosition
  <2>2. n \in Nodes /\ n \in Nat \ {0} /\ Parent(n) \in 0..n - 1
    BY <1>0
  <2>3. ScopeAround[n] = Around(ScopeAround, n)
    BY <2>2, ScopeAroundDef
  <2>4. Parent(n) # None => ScopeAround[Parent(n)] \in 0..n - 1
    <3>1. SUFFICES ASSUME Parent(n) # None PROVE ScopeAround[Parent(n)] \in 0..n - 1
      OBVIOUS
    <3>2. Parent(n) \in Nodes /\ ~(n <= Parent(n))
      BY <1>0, <2>2, <3>1, TreeFacts
    <3>3. ScopeAround[Parent(n)] \in 0..Parent(n) - 1
      BY <2>1, <3>2
    <3>. QED
      BY <2>2, <3>3
  <2>5. n # Parent(n) + 1 => Parent(n) + 1 \in 0..n - 1
    BY <2>2
  <2>6. Around(ScopeAround, n) \in 0..n - 1
    <3>1. 0 \in 0..n - 1
      BY <2>2
    <3>2. CASE Parent(n) = None
      BY <3>1, <3>2 DEF Around, None
    <3>3. CASE Parent(n) # None
      BY <2>2, <2>4, <2>5, <3>3 DEF Around
    <3>. QED
      BY <3>2, <3>3
  <2>. QED
    BY <2>1, <2>3, <2>6
<1>. QED
  BY <1>1

LEMMA ScopeFacts ==
  ASSUME prog \in Programs, NEW n \in Nodes
  PROVE  /\ ScopeAround[n] \in 0..n - 1
         /\ ScopeAround[n] # None => ScopeAround[n] \in Nodes
         /\ Kind(n) = "file" => ScopeAround[n] = None
         /\ Parent(n) # None /\ Kind(Parent(n)) \in Owners => ScopeAround[n] = Parent(n)
         /\ Parent(n) # None /\ Kind(Parent(n)) \in Borrowers /\ n # Parent(n) + 1
              => ScopeAround[n] = Parent(n) + 1
         /\ Parent(n) # None /\ Kind(Parent(n)) \notin Owners
              /\ (Kind(Parent(n)) \in Borrowers => n = Parent(n) + 1)
              => ScopeAround[n] = ScopeAround[Parent(n)]
<1>1. ScopeAround[n] = Around(ScopeAround, n)
  BY ScopeAroundDef
<1>2. ScopeAround[n] \in 0..n - 1
  BY ScopeIsBefore
<1>3. ScopeAround[n] # None => ScopeAround[n] \in Nodes
  BY <1>2, TreeFacts DEF None
<1>4. Kind(n) = "file" => Parent(n) = None
  BY TreeFacts
<1>5. Owners \cap Borrowers = {}
  BY FirstChildren
<1>. QED
  BY <1>1, <1>2, <1>3, <1>4, <1>5 DEF Around

\* One turn of FunctionAround, of which there is one, too.
Surrounding(f, o) ==
  CASE Kind(o) = "fndecl" -> o
    [] Kind(o) # "fndecl" /\ ScopeAround[o] = None -> None
    [] OTHER -> f[ScopeAround[o]]

LEMMA FunctionAroundDef ==
  ASSUME prog \in Programs
  PROVE  FunctionAround = [o \in Nodes |-> Surrounding(FunctionAround, o)]
<1>. DEFINE L == Len(prog.nodes)
            Upto(n) == \E f : f = [k \in 1..n |-> Surrounding(f, k)]
            Bad == {n \in 0..L : ~Upto(n)}
<1>0. L \in Nat /\ \A n \in Nodes : ScopeAround[n] \in 0..n - 1
  BY TreeFacts, ScopeIsBefore
<1>1. Upto(0)
  <2>. DEFINE f == [k \in 1..0 |-> None]
  <2>1. 1..0 = {}
    OBVIOUS
  <2>2. f = [k \in 1..0 |-> Surrounding(f, k)]
    BY <2>1
  <2>. QED
    BY <2>2
<1>2. ASSUME NEW n \in 1..L, Upto(n - 1)
      PROVE  Upto(n)
  <2>1. PICK g : g = [k \in 1..n - 1 |-> Surrounding(g, k)]
    BY <1>2
  <2>. DEFINE f == [k \in 1..n |-> IF k = n THEN Surrounding(g, n) ELSE g[k]]
  <2>2. ASSUME NEW k \in 1..n
        PROVE  f[k] = Surrounding(f, k)
    <3>1. ScopeAround[k] \in 0..k - 1 /\ L \in Nat /\ n \in Nat /\ k \in Nat
      BY <1>0 DEF Nodes
    <3>2. ScopeAround[k] # None
            => ScopeAround[k] \in 1..n - 1 /\ ScopeAround[k] \in 1..n /\ ScopeAround[k] # n
      BY <3>1 DEF None
    <3>3. ScopeAround[k] # None => f[ScopeAround[k]] = g[ScopeAround[k]]
      BY <3>2
    <3>4. Surrounding(f, k) = Surrounding(g, k)
      BY <3>3 DEF Surrounding
    <3>5. CASE k = n
      BY <3>4, <3>5
    <3>6. CASE k # n
      <4>1. k \in 1..n - 1
        BY <3>1, <3>6
      <4>2. g[k] = Surrounding(g, k)
        BY <2>1, <4>1
      <4>. QED
        BY <3>4, <3>6, <4>2
    <3>. QED
      BY <3>5, <3>6
  <2>3. f = [k \in 1..n |-> Surrounding(f, k)]
    <3>1. f = [k \in 1..n |-> f[k]]
      OBVIOUS
    <3>. HIDE DEF f
    <3>. QED
      BY <2>2, <3>1
  <2>. QED
    BY <2>3
<1>3. Bad = {}
  <2>. SUFFICES ASSUME Bad # {} PROVE FALSE
    OBVIOUS
  <2>1. PICK m \in Bad : \A i \in Bad : m <= i
    <3>. HIDE DEF Upto
    <3>. QED
      BY <1>0, FirstPosition
  <2>. HIDE DEF Upto
  <2>2. m \in 0..L /\ ~Upto(m) /\ m # 0
    BY <1>1
  <2>3. m - 1 \in 0..L /\ m \in 1..L /\ ~(m <= m - 1)
    BY <1>0, <2>2
  <2>4. Upto(m - 1)
    BY <2>1, <2>3
  <2>. QED
    BY <1>2, <2>2, <2>3, <2>4
<1>4. Upto(L)
  <2>. HIDE DEF Upto
  <2>. QED
    BY <1>0, <1>3
<1>5. \E f : f = [o \in Nodes |-> Surrounding(f, o)]
  BY <1>4 DEF Nodes
<1>. QED
  BY <1>5 DEF FunctionAround, Surrounding

LEMMA FunctionFacts ==
  ASSUME prog \in Programs, NEW o \in Nodes
  PROVE  /\ Kind(o) = "fndecl" => FunctionAround[o] = o
         /\ Kind(o) # "fndecl" /\ ScopeAround[o] = None => FunctionAround[o] = None
         /\ Kind(o) # "fndecl" /\ ScopeAround[o] # None
              => FunctionAround[o] = FunctionAround[ScopeAround[o]]
<1>1. FunctionAround[o] = Surrounding(FunctionAround, o)
  BY FunctionAroundDef
<1>. QED
  BY <1>1 DEF Surrounding

\* The tree does not change.
LEMMA TreeStays ==
  ASSUME prog' = prog
  PROVE  /\ Nodes' = Nodes /\ ScopeAround' = ScopeAround /\ FunctionAround' = FunctionAround
         /\ ModuleAround' = ModuleAround
         /\ \A n : Kind(n)' = Kind(n) /\ Parent(n)' = Parent(n)
         /\ \A o : Linked(tables, o)' <=> Linked(tables', o)
<1>1. Nodes' = Nodes /\ \A n : Kind(n)' = Kind(n) /\ Parent(n)' = Parent(n)
  BY DEF Nodes, Kind, Parent, Node
<1>2. ScopeAround' = ScopeAround
  BY <1>1 DEF ScopeAround
<1>3. FunctionAround' = FunctionAround
  BY <1>1, <1>2 DEF FunctionAround
<1>4. \A o : Linked(tables, o)' <=> Linked(tables', o)
  BY <1>2, <1>3 DEF Linked
<1>5. ModuleAround' = ModuleAround
  BY <1>1 DEF ModuleAround
<1>. QED
  BY <1>1, <1>2, <1>3, <1>4, <1>5
-----------------------------------------------------------------------------
(* Tables *)

\* A function whose values are symbol tables.
AreTables(tabs) ==
  tabs = [o \in DOMAIN tabs |->
           [records |-> tabs[o].records, outer |-> tabs[o].outer,
            fndecl |-> tabs[o].fndecl, mod |-> tabs[o].mod]]

\* Symbols may differ, links do not.
SameLinks(tabs, old) ==
  /\ DOMAIN tabs = DOMAIN old
  /\ \A o \in DOMAIN old : /\ tabs[o].outer = old[o].outer /\ tabs[o].fndecl = old[o].fndecl
                          /\ tabs[o].mod = old[o].mod

LEMMA AddKeepsLinks ==
  ASSUME NEW tabs, AreTables(tabs), NEW t, NEW id, NEW n, NEW type
  PROVE  AreTables(Add(tabs, t, id, n, type)) /\ SameLinks(Add(tabs, t, id, n, type), tabs)
<1>. DEFINE R(old) == [x \in DOMAIN old \cup {id} |->
                         IF x = id THEN [node |-> n, type |-> type] ELSE old[x]]
            new == Add(tabs, t, id, n, type)
<1>1. \A o \in DOMAIN tabs :
        tabs[o] = [records |-> tabs[o].records, outer |-> tabs[o].outer,
                   fndecl |-> tabs[o].fndecl, mod |-> tabs[o].mod]
  BY Zenon DEF AreTables
<1>2. new = [tabs EXCEPT ![t].records = R(@)]
  BY DEF Add
<1>3. \A o \in DOMAIN tabs :
        new[o] = [records |-> IF o = t THEN R(tabs[o].records) ELSE tabs[o].records,
                  outer |-> tabs[o].outer, fndecl |-> tabs[o].fndecl, mod |-> tabs[o].mod]
  <2>1. TAKE o \in DOMAIN tabs
  <2>. HIDE DEF new, R
  <2>2. CASE o = t
    <3>1. new[o] = [tabs[o] EXCEPT !.records = R(@)]
      BY <1>2, <2>2
    <3>. QED
      BY <1>1, <2>2, <3>1
  <2>3. CASE o # t
    <3>1. new[o] = tabs[o]
      BY <1>2, <2>3
    <3>. QED
      BY <1>1, <2>3, <3>1
  <2>. QED
    BY <2>2, <2>3
<1>4. DOMAIN new = DOMAIN tabs /\ new = [o \in DOMAIN tabs |-> new[o]]
  BY <1>2
<1>. HIDE DEF new, R
<1>5. ASSUME NEW o \in DOMAIN tabs
      PROVE  /\ new[o] = [records |-> new[o].records, outer |-> new[o].outer,
                          fndecl |-> new[o].fndecl, mod |-> new[o].mod]
             /\ new[o].outer = tabs[o].outer /\ new[o].fndecl = tabs[o].fndecl
             /\ new[o].mod = tabs[o].mod
  <2>1. PICK r : new[o] = [records |-> r, outer |-> tabs[o].outer,
                           fndecl |-> tabs[o].fndecl, mod |-> tabs[o].mod]
    BY <1>3
  <2>. QED
    BY <2>1
<1>6. AreTables(new)
  BY <1>4, <1>5 DEF AreTables
<1>7. SameLinks(new, tabs)
  BY <1>4, <1>5 DEF SameLinks
<1>. QED
  BY <1>6, <1>7 DEF new

LEMMA AddLeafKeepsLinks ==
  ASSUME NEW tabs, AreTables(tabs), NEW t, NEW st, NEW n
  PROVE  AreTables(AddLeaf(tabs, t, st, n)) /\ SameLinks(AddLeaf(tabs, t, st, n), tabs)
BY AddKeepsLinks DEF AddLeaf

\* However many leaves are added. The tables behind each node exist: if not, there
\* is a first node with which they end.
LEMMA AfterLeavesDef ==
  ASSUME prog \in Programs, NEW tabs, NEW t, NEW st, NEW leaves
  PROVE  LET after == AfterLeaves(tabs, t, st, leaves) IN
         after = [n \in 0..Len(prog.nodes) |->
                    IF n = 0 THEN tabs
                    ELSE IF n \in leaves THEN AddLeaf(after[n - 1], t, st, n) ELSE after[n - 1]]
<1>. DEFINE L == Len(prog.nodes)
            Turn(f, n) == IF n = 0 THEN tabs
                          ELSE IF n \in leaves THEN AddLeaf(f[n - 1], t, st, n) ELSE f[n - 1]
            Upto(n) == \E f : f = [k \in 0..n |-> Turn(f, k)]
            Bad == {n \in 0..L : ~Upto(n)}
<1>0. L \in Nat
  BY TreeFacts
<1>1. Upto(0)
  <2>. DEFINE f == [k \in 0..0 |-> tabs]
  <2>1. \A k \in 0..0 : k = 0
    OBVIOUS
  <2>2. f = [k \in 0..0 |-> Turn(f, k)]
    BY <2>1
  <2>. QED
    BY <2>2
<1>2. ASSUME NEW n \in 1..L, Upto(n - 1)
      PROVE  Upto(n)
  <2>1. PICK g : g = [k \in 0..n - 1 |-> Turn(g, k)]
    BY <1>2
  <2>. DEFINE f == [k \in 0..n |-> IF k = n THEN Turn(g, n) ELSE g[k]]
  <2>2. ASSUME NEW k \in 0..n
        PROVE  f[k] = Turn(f, k)
    <3>1. L \in Nat /\ n \in Nat \ {0} /\ k \in Nat
      BY <1>0
    <3>2. k # 0 => k - 1 \in 0..n - 1 /\ k - 1 \in 0..n /\ k - 1 # n
      BY <3>1
    <3>3. k # 0 => f[k - 1] = g[k - 1]
      BY <3>2
    <3>4. Turn(f, k) = Turn(g, k)
      BY <3>3
    <3>. HIDE DEF Turn
    <3>5. CASE k = n
      BY <3>4, <3>5
    <3>6. CASE k # n
      <4>1. k \in 0..n - 1
        BY <3>1, <3>6
      <4>2. g[k] = Turn(g, k)
        BY <2>1, <4>1
      <4>. QED
        BY <3>4, <3>6, <4>2
    <3>. QED
      BY <3>5, <3>6
  <2>3. f = [k \in 0..n |-> Turn(f, k)]
    <3>1. f = [k \in 0..n |-> f[k]]
      OBVIOUS
    <3>. HIDE DEF f
    <3>. QED
      BY <2>2, <3>1
  <2>. QED
    BY <2>3
<1>3. Bad = {}
  <2>. SUFFICES ASSUME Bad # {} PROVE FALSE
    OBVIOUS
  <2>1. PICK m \in Bad : \A i \in Bad : m <= i
    <3>. HIDE DEF Upto
    <3>. QED
      BY <1>0, FirstPosition
  <2>. HIDE DEF Upto
  <2>2. m \in 0..L /\ ~Upto(m) /\ m # 0
    BY <1>1
  <2>3. m - 1 \in 0..L /\ m \in 1..L /\ ~(m <= m - 1)
    BY <1>0, <2>2
  <2>4. Upto(m - 1)
    BY <2>1, <2>3
  <2>. QED
    BY <1>2, <2>2, <2>3, <2>4
<1>4. Upto(L)
  <2>. HIDE DEF Upto
  <2>. QED
    BY <1>0, <1>3
<1>. QED
  BY <1>4 DEF AfterLeaves

LEMMA LeavesKeepLinks ==
  ASSUME prog \in Programs, NEW tabs, AreTables(tabs), NEW t, NEW st, NEW leaves
  PROVE  LET new == LeavesAdded(tabs, t, st, leaves).tables
         IN AreTables(new) /\ SameLinks(new, tabs)
<1>. DEFINE L == Len(prog.nodes)
            after == AfterLeaves(tabs, t, st, leaves)
            Keeps(new) == AreTables(new) /\ SameLinks(new, tabs)
            Bad == {n \in 0..L : ~Keeps(after[n])}
<1>0. L \in Nat /\ Keeps(tabs)
  BY TreeFacts DEF SameLinks
<1>1. \A n \in 0..L :
        after[n] = IF n = 0 THEN tabs
                   ELSE IF n \in leaves THEN AddLeaf(after[n - 1], t, st, n) ELSE after[n - 1]
  <2>1. after = [n \in 0..L |->
                   IF n = 0 THEN tabs
                   ELSE IF n \in leaves THEN AddLeaf(after[n - 1], t, st, n) ELSE after[n - 1]]
    BY AfterLeavesDef
  <2>. HIDE DEF after, L
  <2>. QED
    BY <2>1
<1>2. ASSUME NEW n \in 1..L, Keeps(after[n - 1])
      PROVE  Keeps(after[n])
  <2>0. n \in 0..L /\ n # 0
    BY <1>0
  <2>1. CASE n \in leaves
    <3>1. after[n] = AddLeaf(after[n - 1], t, st, n)
      BY <1>1, <2>0, <2>1
    <3>. HIDE DEF after
    <3>2. AreTables(after[n]) /\ SameLinks(after[n], after[n - 1])
      BY <1>2, <3>1, AddLeafKeepsLinks
    <3>. QED
      BY <1>2, <3>2 DEF SameLinks
  <2>2. CASE n \notin leaves
    <3>1. after[n] = after[n - 1]
      BY <1>1, <2>0, <2>2
    <3>. HIDE DEF after
    <3>. QED
      BY <1>2, <3>1
  <2>. QED
    BY <2>1, <2>2
<1>. HIDE DEF after
<1>3. Bad = {}
  <2>. SUFFICES ASSUME Bad # {} PROVE FALSE
    OBVIOUS
  <2>1. PICK m \in Bad : \A i \in Bad : m <= i
    <3>. HIDE DEF Keeps
    <3>. QED
      BY <1>0, FirstPosition
  <2>2. m \in 0..L /\ ~Keeps(after[m]) /\ m # 0
    <3>1. Keeps(after[0])
      BY <1>0, <1>1
    <3>. HIDE DEF Keeps
    <3>. QED
      BY <3>1
  <2>. HIDE DEF Keeps
  <2>3. m - 1 \in 0..L /\ m \in 1..L /\ ~(m <= m - 1)
    BY <1>0, <2>2
  <2>4. Keeps(after[m - 1])
    BY <2>1, <2>3
  <2>. QED
    BY <1>2, <2>2, <2>3, <2>4
<1>4. Keeps(after[L])
  <2>. HIDE DEF Keeps
  <2>. QED
    BY <1>0, <1>3
<1>5. LeavesAdded(tabs, t, st, leaves).tables \in {after[L], tabs}
  BY DEF LeavesAdded, after
<1>. QED
  BY <1>0, <1>4, <1>5
-----------------------------------------------------------------------------
(* The path of parents *)

\* Module and the path are nodes of the tree.
LEMMA PathFacts ==
  ASSUME WalkInv
  PROVE  /\ Module \in Nodes /\ Module \in Nat \ {0} /\ Kind(Module) \in {"file", "module"}
         /\ FileOf(Module) \in Nodes /\ Kind(FileOf(Module)) = "file"
         /\ Len(parents) \in Nat /\ DOMAIN parents = 1..Len(parents)
         /\ next \in Nat \ {0} /\ Module <= next /\ next <= Len(prog.nodes) + 1
         /\ parents # <<>> => /\ Len(parents) \in 1..Len(parents) /\ Top = parents[Len(parents)]
                              /\ Top \in Nodes /\ Top \in Nat \ {0}
                              /\ Module <= Top /\ Top < next
<1>1. prog \in Programs /\ at \in DOMAIN prog.modules /\ PathIsInTree
  BY DEF WalkInv
<1>2. Module \in Nodes /\ Kind(Module) \in {"file", "module"}
  BY <1>1, TreeFacts DEF Module
<1>3. Module \in Nat \ {0} /\ Len(prog.nodes) \in Nat
  BY <1>1, <1>2, TreeFacts
<1>4. FileOf(Module) \in Nodes /\ Kind(FileOf(Module)) = "file"
  <2>1. CASE Kind(Module) = "file"
    BY <1>2, <2>1 DEF FileOf
  <2>2. CASE Kind(Module) = "module"
    <3>1. FileOf(Module) = Parent(Module)
      BY <2>2 DEF FileOf, Parent
    <3>2. Kind(Parent(Module)) = "file" /\ Parent(Module) # None
      BY <1>1, <1>2, <2>2, TreeFacts
    <3>. QED
      BY <1>1, <1>2, <3>1, <3>2, TreeFacts
  <2>. QED
    BY <1>2, <2>1, <2>2
<1>5. Len(parents) \in Nat /\ DOMAIN parents = 1..Len(parents)
  BY <1>1 DEF PathIsInTree
<1>6. next \in Nat \ {0} /\ Module <= next /\ next <= Len(prog.nodes) + 1
  BY <1>1, <1>3 DEF PathIsInTree
<1>7. ASSUME parents # <<>>
      PROVE  /\ Len(parents) \in 1..Len(parents) /\ Top = parents[Len(parents)]
             /\ Top \in Nodes /\ Top \in Nat \ {0}
             /\ Module <= Top /\ Top < next
  <2>1. parents \in Seq(Nodes)
    BY <1>1 DEF PathIsInTree
  <2>2. Len(parents) \in 1..Len(parents)
    BY <1>7, <2>1
  <2>3. Top = parents[Len(parents)]
    BY DEF Top, Last
  <2>4. Top \in Nodes
    BY <2>1, <2>2, <2>3
  <2>5. Module <= Top /\ Top < next
    BY <1>1, <1>5, <2>2, <2>3 DEF PathIsInTree
  <2>6. Top \in Nat \ {0}
    BY <1>1, <2>4, TreeFacts
  <2>. QED
    BY <2>2, <2>3, <2>4, <2>5, <2>6
<1>. QED
  BY <1>2, <1>3, <1>4, <1>5, <1>6, <1>7

\* The node that is entered next is a child of the node being visited.
LEMMA NextFacts ==
  ASSUME WalkInv, Descends
  PROVE  /\ next \in Nodes
         /\ parents # <<>> => Parent(next) = Top /\ Parent(next) # None /\ Parent(next) \in Nodes
         /\ parents = <<>> => next = Module
<1>1. CASE parents = <<>>
  BY <1>1, PathFacts DEF Descends
<1>2. CASE parents # <<>>
  <2>1. next <= Len(prog.nodes) /\ Parent(next) = Top
    BY <1>2 DEF Descends, Parent
  <2>2. next \in Nodes
    BY <2>1, PathFacts, TreeFacts DEF Nodes, WalkInv
  <2>3. Top \in Nodes /\ Top # None
    BY <1>2, PathFacts DEF None
  <2>. QED
    BY <1>2, <2>1, <2>2, <2>3
<1>. QED
  BY <1>1, <1>2

LEMMA DescendPath ==
  ASSUME WalkInv, Descends, prog' = prog, at' = at,
         parents' = Append(parents, next), next' = next + 1
  PROVE  PathIsInTree' /\ parents' # <<>> /\ Top' = next /\ Module' = Module
<1>. DEFINE L == Len(prog.nodes)
<1>0. /\ prog \in Programs /\ PathIsInTree
      /\ \A n : Parent(n)' = Parent(n)
      /\ Nodes' = Nodes
  BY TreeStays DEF WalkInv
<1>1. Module' = Module
  BY DEF Module
<1>2. /\ Module \in Nat \ {0} /\ L \in Nat /\ next \in Nodes /\ next \in Nat \ {0}
      /\ Module <= next /\ next <= L
  BY <1>0, PathFacts, NextFacts, TreeFacts DEF Nodes
<1>. DEFINE l == Len(parents)
<1>3. /\ parents \in Seq(Nodes) /\ l \in Nat /\ DOMAIN parents = 1..l
      /\ \A i \in 1..l : parents[i] \in Nat /\ Module <= parents[i] /\ parents[i] < next
      /\ \A i, j \in 1..l : i < j => parents[i] < parents[j]
      /\ \A i \in 1..l - 1 : parents[i] = Parent(parents[i + 1])
      /\ \A p \in Module..next - 1 :
           \/ \E i \in 1..l : parents[i] = p
           \/ \A k \in next..L : Parent(k) # p
      /\ parents # <<>> => parents[1] = Module
  <2>1. parents \in Seq(Nodes) /\ l \in Nat /\ DOMAIN parents = 1..l
    BY <1>0 DEF PathIsInTree
  <2>2. \A i \in 1..l : parents[i] \in Nat
    BY <1>0, <2>1, TreeFacts
  <2>. QED
    BY <1>0, <2>1, <2>2 DEF PathIsInTree
<1>4. /\ parents' \in Seq(Nodes) /\ Len(parents') = l + 1 /\ DOMAIN parents' = 1..l + 1
      /\ \A i \in 1..l : parents'[i] = parents[i]
      /\ parents'[l + 1] = next
  BY <1>2, <1>3
<1>5. Top' = next /\ parents' # <<>>
  BY <1>3, <1>4 DEF Top, Last
<1>6. next' \in Module..L + 1
  BY <1>2
<1>7. parents'[1] = Module
  <2>1. CASE parents = <<>>
    <3>1. l = 0
      BY <2>1
    <3>. QED
      BY <1>4, <2>1, <3>1, NextFacts
  <2>2. CASE parents # <<>>
    <3>1. 1 \in 1..l
      BY <1>3, <2>2
    <3>. QED
      BY <1>3, <1>4, <2>2, <3>1
  <2>. QED
    BY <2>1, <2>2
<1>. HIDE DEF l, L
<1>8. \A i \in 1..l + 1 : Module <= parents'[i] /\ parents'[i] < next'
  <2>1. TAKE i \in 1..l + 1
  <2>2. CASE i = l + 1
    BY <1>2, <1>4, <2>2
  <2>3. CASE i # l + 1
    <3>1. i \in 1..l
      BY <1>3, <2>3
    <3>. QED
      BY <1>2, <1>3, <1>4, <3>1
  <2>. QED
    BY <2>2, <2>3
<1>9. \A i, j \in 1..l + 1 : i < j => parents'[i] < parents'[j]
  <2>1. TAKE i, j \in 1..l + 1
  <2>2. HAVE i < j
  <2>3. i \in 1..l /\ (j \in 1..l \/ j = l + 1)
    BY <1>3, <2>2
  <2>. QED
    BY <1>3, <1>4, <2>2, <2>3
<1>10. \A i \in 1..l : parents'[i] = Parent(parents'[i + 1])
  <2>1. TAKE i \in 1..l
  <2>2. CASE i = l
    <3>1. parents # <<>> /\ Top = parents[l]
      BY <1>3, <2>2 DEF Top, Last, l
    <3>2. Parent(next) = parents[l]
      BY <3>1, NextFacts
    <3>. QED
      BY <1>4, <2>2, <3>2
  <2>3. CASE i # l
    <3>1. i \in 1..l - 1 /\ i + 1 \in 1..l
      BY <1>3, <2>3
    <3>. QED
      BY <1>3, <1>4, <3>1
  <2>. QED
    BY <2>2, <2>3
<1>11. \A p \in Module..next :
         \/ \E i \in 1..l + 1 : parents'[i] = p
         \/ \A k \in next + 1..L : Parent(k) # p
  <2>1. TAKE p \in Module..next
  <2>2. CASE p = next
    <3>1. l + 1 \in 1..l + 1
      BY <1>3
    <3>. QED
      BY <1>4, <2>2, <3>1
  <2>3. CASE p # next
    <3>1. p \in Module..next - 1
      BY <1>2, <2>3
    <3>2. CASE \E i \in 1..l : parents[i] = p
      <4>1. PICK i \in 1..l : parents[i] = p
        BY <3>2
      <4>2. i \in 1..l + 1 /\ parents'[i] = p
        BY <1>3, <1>4, <4>1
      <4>. QED
        BY <4>2
    <3>3. CASE \A k \in next..L : Parent(k) # p
      <4>1. \A k \in next + 1..L : k \in next..L
        BY <1>2
      <4>. QED
        BY <3>3, <4>1
    <3>. QED
      BY <1>3, <3>1, <3>2, <3>3
  <2>. QED
    BY <2>2, <2>3
<1>12. next' - 1 = next /\ Len(parents') - 1 = l
  BY <1>2, <1>3, <1>4
<1>13. PathIsInTree'
  BY <1>0, <1>1, <1>4, <1>6, <1>7, <1>8, <1>9, <1>10, <1>11, <1>12 DEF PathIsInTree, L
<1>. QED
  BY <1>1, <1>5, <1>13

\* No node behind the next one is below the node that is left: it would come
\* behind a node that is below another one, and be below that one, too.
LEMMA GoUpPath ==
  ASSUME WalkInv, parents # <<>>, ~Descends, prog' = prog, at' = at, next' = next,
         parents' = Front(parents)
  PROVE  /\ PathIsInTree' /\ Module' = Module
         /\ parents' # <<>> => /\ Top' = Parent(Top) /\ Top' \in Nodes /\ Top' < Top
                               /\ Parent(Top) # None
<1>. DEFINE L == Len(prog.nodes)
            l == Len(parents)
<1>0. /\ prog \in Programs /\ PathIsInTree
      /\ \A n : Parent(n)' = Parent(n)
      /\ Nodes' = Nodes /\ Module' = Module
  BY TreeStays DEF WalkInv, Module
<1>2. /\ Module \in Nat \ {0} /\ L \in Nat /\ next \in Nat \ {0} /\ Module <= next
      /\ l \in Nat \ {0} /\ Top = parents[l] /\ Top \in Nodes /\ Top \in Nat \ {0}
      /\ Module <= Top /\ Top < next /\ next <= L + 1
  BY <1>0, PathFacts, TreeFacts
<1>3. /\ parents \in Seq(Nodes) /\ DOMAIN parents = 1..l
      /\ \A i \in 1..l : parents[i] \in Nat /\ Module <= parents[i] /\ parents[i] < next
      /\ \A i, j \in 1..l : i < j => parents[i] < parents[j]
      /\ \A i \in 1..l - 1 : parents[i] = Parent(parents[i + 1])
      /\ \A p \in Module..next - 1 :
           \/ \E i \in 1..l : parents[i] = p
           \/ \A k \in next..L : Parent(k) # p
      /\ parents[1] = Module
  <2>1. parents \in Seq(Nodes) /\ DOMAIN parents = 1..l
    BY <1>0 DEF PathIsInTree
  <2>2. \A i \in 1..l : parents[i] \in Nat
    BY <1>0, <2>1, TreeFacts
  <2>. QED
    BY <1>0, <2>1, <2>2 DEF PathIsInTree
<1>4. /\ parents' \in Seq(Nodes) /\ Len(parents') = l - 1 /\ DOMAIN parents' = 1..l - 1
      /\ \A i \in 1..l - 1 : parents'[i] = parents[i]
  BY <1>2, <1>3 DEF Front
<1>. HIDE DEF l, L
<1>5. ASSUME parents' # <<>>
      PROVE  /\ Top' = Parent(Top) /\ Top' \in Nodes /\ Top' < Top /\ Parent(Top) # None
             /\ parents'[1] = Module
  <2>1. l - 1 \in 1..l - 1 /\ l - 1 \in 1..l /\ l \in 1..l /\ 1 \in 1..l - 1 /\ l - 1 < l
        /\ (l - 1) + 1 = l
    BY <1>2, <1>4, <1>5
  <2>2. Top' = parents[l - 1]
    BY <1>4, <2>1 DEF Top, Last
  <2>3. parents[l - 1] \in Nodes /\ parents[l - 1] \in Nat \ {0}
    BY <1>0, <1>3, <2>1, TreeFacts
  <2>. QED
    BY <1>2, <1>3, <1>4, <2>1, <2>2, <2>3 DEF None
<1>6. ASSUME NEW k \in next..L, Parent(k) = Top
      PROVE  FALSE
  <2>1. k \in Nodes /\ next \in Nodes /\ next <= L
    BY <1>2 DEF Nodes, L
  <2>2. Parent(next) # Top
    BY <2>1 DEF Descends, Parent, L
  <2>3. next < k /\ k \in Nat
    BY <1>2, <1>6, <2>2
  <2>4. Top <= Parent(next) /\ Parent(next) \in Nat /\ Parent(next) < next
    BY <1>0, <1>2, <1>6, <2>1, <2>3, TreeFacts
  <2>5. Top < Parent(next) /\ Parent(next) \in Module..next - 1 /\ next \in next..L
    BY <1>2, <2>1, <2>2, <2>4
  <2>6. PICK i \in 1..l : parents[i] = Parent(next)
    BY <1>3, <2>5
  <2>7. i = l \/ i < l
    BY <1>2
  <2>8. l \in 1..l
    BY <1>2
  <2>. QED
    BY <1>2, <1>3, <2>4, <2>5, <2>6, <2>7, <2>8
<1>7. \A i \in 1..l - 1 : i \in 1..l
  BY <1>2
<1>8. \A i \in 1..l - 1 : Module <= parents'[i] /\ parents'[i] < next
  BY <1>3, <1>4, <1>7
<1>9. \A i, j \in 1..l - 1 : i < j => parents'[i] < parents'[j]
  BY <1>3, <1>4, <1>7
<1>10. \A i \in 1..(l - 1) - 1 : parents'[i] = Parent(parents'[i + 1])
  <2>1. TAKE i \in 1..(l - 1) - 1
  <2>2. i \in 1..l - 1 /\ i + 1 \in 1..l - 1
    BY <1>2
  <2>. QED
    BY <1>3, <1>4, <2>2
<1>11. \A p \in Module..next - 1 :
         \/ \E i \in 1..l - 1 : parents'[i] = p
         \/ \A k \in next..L : Parent(k) # p
  <2>1. TAKE p \in Module..next - 1
  <2>2. CASE \E i \in 1..l : parents[i] = p
    <3>1. PICK i \in 1..l : parents[i] = p
      BY <2>2
    <3>2. CASE i = l
      BY <1>2, <1>6, <3>1, <3>2
    <3>3. CASE i # l
      <4>1. i \in 1..l - 1
        BY <1>2, <3>3
      <4>. QED
        BY <1>4, <3>1, <4>1
    <3>. QED
      BY <3>2, <3>3
  <2>. QED
    BY <1>3, <2>2
<1>12. next' \in Module..L + 1
  BY <1>2
<1>13. PathIsInTree'
  BY <1>0, <1>4, <1>5, <1>8, <1>9, <1>10, <1>11, <1>12 DEF PathIsInTree, L
<1>. QED
  BY <1>0, <1>5, <1>13
-----------------------------------------------------------------------------
(* Links *)

\* No link changes with the symbols.
LEMMA LinksStay ==
  ASSUME prog \in Programs, TablesAreLinked, prog' = prog,
         AreTables(tables'), SameLinks(tables', tables)
  PROVE  TablesAreLinked' /\ \A o : Linked(tables, o) => Linked(tables', o)
<1>1. /\ Nodes' = Nodes /\ ScopeAround' = ScopeAround /\ FunctionAround' = FunctionAround
      /\ \A n : Kind(n)' = Kind(n)
      /\ \A o : Linked(tables, o)' <=> Linked(tables', o)
  BY TreeStays
<1>2. DOMAIN tables' = DOMAIN tables
  BY DEF SameLinks
<1>3. \A o \in DOMAIN tables : /\ tables'[o].outer = tables[o].outer
                               /\ tables'[o].fndecl = tables[o].fndecl
  BY DEF SameLinks
<1>4. ASSUME NEW o, Linked(tables, o)
      PROVE  Linked(tables', o)
  BY <1>1, <1>2, <1>3, <1>4 DEF Linked
<1>5. DOMAIN tables \subseteq Nodes /\ \A n \in Nodes : Kind(n) \in {"file", "module"} => n \in DOMAIN tables
  BY DEF TablesAreLinked
<1>6. ASSUME NEW o \in DOMAIN tables
      PROVE  /\ Kind(o) \in Owners
             /\ Linked(tables', o) \/ (Kind(o) = "module" /\ tables'[o].outer = None)
             /\ tables'[o].outer = None => Kind(o) \in {"file", "module"}
             /\ tables'[o].outer # None => Linked(tables', tables'[o].outer)
  BY <1>3, <1>4 DEF TablesAreLinked
<1>. QED
  BY <1>1, <1>2, <1>3, <1>4, <1>5, <1>6 DEF TablesAreLinked, AreTables

\* The new table of node n is that of a scope in the current one.
Opens(tabs, n) ==
  /\ AreTables(tabs)
  /\ DOMAIN tabs = DOMAIN tables \cup {n}
  /\ \A o \in DOMAIN tables \ {n} : /\ tabs[o].outer = tables[o].outer
                                   /\ tabs[o].fndecl = tables[o].fndecl
                                   /\ tabs[o].mod = tables[o].mod
  /\ tabs[n].outer = current /\ tabs[n].mod = Module
  /\ tabs[n].fndecl = IF Kind(n) = "fndecl" THEN n ELSE tables[current].fndecl

LEMMA OpenTable ==
  ASSUME TablesAreLinked, NEW n,
         NEW row, row = [records |-> <<>>, outer |-> current, mod |-> Module,
                         fndecl |-> IF Kind(n) = "fndecl" THEN n ELSE tables[current].fndecl]
  PROVE  Opens(WithTable(tables, n, row), n)
<1>. DEFINE new == WithTable(tables, n, row)
<1>1. /\ DOMAIN new = DOMAIN tables \cup {n} /\ new[n] = row
      /\ \A o \in DOMAIN tables \ {n} : new[o] = tables[o]
      /\ new = [o \in DOMAIN new |-> new[o]]
  BY DEF WithTable
<1>2. AreTables(tables)
  BY DEF TablesAreLinked, AreTables
<1>3. \A o \in DOMAIN tables :
        tables[o] = [records |-> tables[o].records, outer |-> tables[o].outer,
                     fndecl |-> tables[o].fndecl, mod |-> tables[o].mod]
  BY <1>2, Zenon DEF AreTables
<1>4. row = [records |-> row.records, outer |-> row.outer, fndecl |-> row.fndecl, mod |-> row.mod]
  OBVIOUS
<1>. HIDE DEF new
<1>5. ASSUME NEW o \in DOMAIN new
      PROVE  new[o] = [records |-> new[o].records, outer |-> new[o].outer,
                       fndecl |-> new[o].fndecl, mod |-> new[o].mod]
  <2>1. CASE o = n
    BY <1>1, <1>4, <2>1, Zenon
  <2>2. CASE o # n
    <3>1. o \in DOMAIN tables /\ new[o] = tables[o]
      BY <1>1, <2>2
    <3>. QED
      BY <1>3, <3>1, Zenon
  <2>. QED
    BY <2>1, <2>2
<1>6. AreTables(new)
  BY <1>1, <1>5, Zenon DEF AreTables
<1>7. /\ \A o \in DOMAIN tables \ {n} : /\ new[o].outer = tables[o].outer
                                       /\ new[o].fndecl = tables[o].fndecl
                                       /\ new[o].mod = tables[o].mod
      /\ new[n].outer = current /\ new[n].mod = Module
      /\ new[n].fndecl = IF Kind(n) = "fndecl" THEN n ELSE tables[current].fndecl
  BY <1>1
<1>. QED
  BY <1>1, <1>6, <1>7 DEF Opens, new

LEMMA OpensTransfers ==
  ASSUME NEW tabs, NEW new, NEW n, Opens(tabs, n), AreTables(new), SameLinks(new, tabs)
  PROVE  Opens(new, n)
<1>1. n \in DOMAIN tabs /\ \A o \in DOMAIN tables \ {n} : o \in DOMAIN tabs
  BY DEF Opens
<1>. QED
  BY <1>1 DEF Opens, SameLinks

\* The table of the node that is entered is linked to the scope around it.
LEMMA LinksOfNewTable ==
  ASSUME prog \in Programs, TablesAreLinked, prog' = prog,
         next \in Nodes, Kind(next) \in Owners \ {"file"},
         Linked(tables, current), current = ScopeAround[next], Opens(tables', next)
  PROVE  TablesAreLinked' /\ Linked(tables', next) /\ \A o : Linked(tables, o) => Linked(tables', o)
<1>1. /\ Nodes' = Nodes /\ ScopeAround' = ScopeAround /\ FunctionAround' = FunctionAround
      /\ \A n : Kind(n)' = Kind(n)
      /\ \A o : Linked(tables, o)' <=> Linked(tables', o)
  BY TreeStays
<1>2. /\ AreTables(tables')
      /\ DOMAIN tables' = DOMAIN tables \cup {next}
      /\ \A o \in DOMAIN tables \ {next} : tables'[o].outer = tables[o].outer
                                           /\ tables'[o].fndecl = tables[o].fndecl
      /\ tables'[next].outer = current
      /\ tables'[next].fndecl = IF Kind(next) = "fndecl" THEN next ELSE tables[current].fndecl
  BY DEF Opens
<1>3. current \in Nodes /\ current # None
  BY TreeFacts DEF Linked, TablesAreLinked, None
<1>4. tables[current].fndecl = FunctionAround[current]
  BY DEF Linked
<1>5. Linked(tables', next)
  <2>1. tables'[next].fndecl = FunctionAround[next]
    BY <1>2, <1>3, <1>4, FunctionFacts
  <2>. QED
    BY <1>1, <1>2, <2>1 DEF Linked
<1>6. ASSUME NEW o, Linked(tables, o)
      PROVE  Linked(tables', o)
  <2>1. CASE o = next
    BY <1>5, <2>1
  <2>2. CASE o # next
    BY <1>1, <1>2, <1>6, <2>2 DEF Linked
  <2>. QED
    BY <2>1, <2>2
<1>7. DOMAIN tables \subseteq Nodes /\ \A n \in Nodes : Kind(n) \in {"file", "module"} => n \in DOMAIN tables
  BY DEF TablesAreLinked
<1>8. ASSUME NEW o \in DOMAIN tables'
      PROVE  /\ Kind(o) \in Owners
             /\ Linked(tables', o) \/ (Kind(o) = "module" /\ tables'[o].outer = None)
             /\ tables'[o].outer = None => Kind(o) \in {"file", "module"}
             /\ tables'[o].outer # None => Linked(tables', tables'[o].outer)
  <2>1. CASE o = next
    <3>1. Linked(tables', current)
      BY <1>6
    <3>2. tables'[o].outer = current
      BY <1>2, <2>1
    <3>3. Linked(tables', tables'[o].outer)
      BY <3>1, <3>2 DEF Linked
    <3>. QED
      BY <1>3, <1>5, <2>1, <3>2, <3>3
  <2>2. CASE o # next
    <3>1. o \in DOMAIN tables /\ tables'[o].outer = tables[o].outer
      BY <1>2, <2>2
    <3>2. /\ Kind(o) \in Owners
          /\ Linked(tables, o) \/ (Kind(o) = "module" /\ tables[o].outer = None)
          /\ tables[o].outer = None => Kind(o) \in {"file", "module"}
          /\ tables[o].outer # None => Linked(tables, tables[o].outer)
      BY <3>1 DEF TablesAreLinked
    <3>3. tables[o].outer # None => Linked(tables', tables'[o].outer)
      BY <1>6, <3>1, <3>2
    <3>4. tables'[o].outer # None => Linked(tables', tables'[o].outer)
      BY <3>1, <3>3 DEF Linked
    <3>. QED
      BY <1>6, <3>1, <3>2, <3>4
  <2>. QED
    BY <2>1, <2>2
<1>9. TablesAreLinked'
  <2>1. DOMAIN tables' \subseteq Nodes /\ \A n \in Nodes : Kind(n) \in {"file", "module"} => n \in DOMAIN tables'
    BY <1>2, <1>7
  <2>. QED
    BY <1>1, <1>2, <1>8, <2>1 DEF TablesAreLinked, AreTables
<1>. QED
  BY <1>5, <1>6, <1>9
-----------------------------------------------------------------------------
(* The current table *)

\* When a node is entered, the table of the scope around it is the current one.
\* The second walk has none before the first scope of its module.
LEMMA CurrentBelow ==
  ASSUME WalkInv, Descends
  PROVE  /\ phase = "first" => /\ Linked(tables, current)
                               /\ Kind(next) # "file" => current = ScopeAround[next]
                               /\ Kind(next) = "file" => current = next
         /\ phase = "check" /\ Kind(next) \notin Owners => current = ScopeAround[next]
<1>0. prog \in Programs /\ CurrentIsAround /\ next \in Nodes
  BY NextFacts DEF WalkInv
<1>1. CASE parents = <<>>
  <2>1. next = Module /\ Kind(next) \in {"file", "module"}
    BY <1>1, NextFacts, PathFacts
  <2>2. Kind(next) \in Owners
    BY <2>1 DEF Owners
  <2>3. ASSUME phase = "first"
        PROVE  /\ Linked(tables, current)
               /\ Kind(next) # "file" => current = ScopeAround[next]
               /\ Kind(next) = "file" => current = next
    <3>1. Linked(tables, current) /\ current = FileOf(next)
      BY <1>0, <1>1, <2>1, <2>3 DEF CurrentIsAround
    <3>2. Kind(next) = "module" => ScopeAround[next] = Parent(next)
      <4>1. SUFFICES ASSUME Kind(next) = "module" PROVE ScopeAround[next] = Parent(next)
        OBVIOUS
      <4>2. Parent(next) # None /\ Kind(Parent(next)) \in Owners
        BY <1>0, <4>1, TreeFacts DEF Owners
      <4>. QED
        BY <1>0, <4>2, ScopeFacts
    <3>. QED
      BY <2>1, <3>1, <3>2 DEF FileOf, Parent
  <2>. QED
    BY <2>2, <2>3
<1>2. CASE parents # <<>>
  <2>1. /\ Parent(next) = Top /\ Parent(next) # None /\ Top \in Nodes
        /\ Kind(next) # "file" /\ next \in Nat /\ Top \in Nat
    BY <1>0, <1>2, NextFacts, TreeFacts
  <2>2. phase = "first" => Linked(tables, current)
    BY <1>0, <1>2 DEF CurrentIsAround
  <2>3. CASE Kind(Top) \in Owners
    BY <1>0, <1>2, <2>1, <2>2, <2>3, ScopeFacts DEF CurrentIsAround
  <2>4. CASE Kind(Top) \in Borrowers
    <3>1. Kind(Top + 1) \in Owners /\ Kind(Top) \notin Owners
      BY <1>0, <2>1, <2>4, FirstChildren DEF Owners
    <3>2. CASE next = Top + 1
      <4>1. ScopeAround[next] = ScopeAround[Top]
        BY <1>0, <2>1, <3>1, <3>2, ScopeFacts
      <4>. QED
        BY <1>0, <1>2, <2>1, <2>2, <2>4, <3>1, <3>2, <4>1 DEF CurrentIsAround
    <3>3. CASE next # Top + 1
      <4>1. ScopeAround[next] = Top + 1
        BY <1>0, <2>1, <2>4, <3>3, ScopeFacts
      <4>. QED
        BY <1>0, <1>2, <2>1, <2>2, <2>4, <3>3, <4>1 DEF CurrentIsAround
    <3>. QED
      BY <3>2, <3>3
  <2>5. CASE Kind(Top) \notin Owners \cup Borrowers
    BY <1>0, <1>2, <2>1, <2>2, <2>5, ScopeFacts DEF CurrentIsAround
  <2>. QED
    BY <2>3, <2>4, <2>5
<1>. QED
  BY <1>1, <1>2
-----------------------------------------------------------------------------
(* The steps *)

LEMMA TablesStay ==
  ASSUME prog \in Programs, TablesAreLinked, prog' = prog, tables' = tables
  PROVE  TablesAreLinked' /\ \A o : Linked(tables, o) => Linked(tables', o)
<1>1. AreTables(tables') /\ SameLinks(tables', tables)
  BY DEF TablesAreLinked, AreTables, SameLinks
<1>. QED
  BY <1>1, LinksStay

\* A node that the first pass enters makes its own table the current one, if
\* it has one.
LEMMA Entered ==
  ASSUME WalkInv, phase = "first", Descends, Visit, TablesAreLinked',
         \A o : Linked(tables, o) => Linked(tables', o),
         Kind(next) \in Owners => current' = next /\ Linked(tables', next),
         Kind(next) \notin Owners => current' = current
  PROVE  WalkInv'
<1>0. /\ prog' = prog /\ at' = at /\ phase' = phase /\ next' = next + 1
      /\ prog \in Programs /\ at \in DOMAIN prog.modules
      /\ next \in Nodes /\ next \in Nat \ {0} /\ Module \in Nat \ {0}
  BY NextFacts, PathFacts DEF Visit, WalkInv
<1>1. PathIsInTree' /\ parents' # <<>> /\ Top' = next /\ Module' = Module
  BY DescendPath DEF Visit
<1>2. /\ Nodes' = Nodes /\ ScopeAround' = ScopeAround /\ FunctionAround' = FunctionAround
      /\ \A n : Kind(n)' = Kind(n)
      /\ \A o : Linked(tables, o)' <=> Linked(tables', o)
  BY <1>0, TreeStays
<1>3. /\ Linked(tables, current)
      /\ Kind(next) # "file" => current = ScopeAround[next]
  BY CurrentBelow
<1>4. TablesAreThere'
  <2>1. ASSUME NEW n \in Module..next, Kind(n) \in Owners
        PROVE  Linked(tables', n)
    <3>1. CASE n = next
      BY <2>1, <3>1
    <3>2. CASE n # next
      <4>1. n \in Module..next - 1
        BY <1>0, <3>2
      <4>. QED
        BY <2>1, <4>1 DEF WalkInv, TablesAreThere, LinkedUpTo
    <3>. QED
      BY <3>1, <3>2
  <2>2. next' - 1 = next
    BY <1>0
  <2>3. LinkedUpTo(next)'
    BY <1>1, <1>2, <2>1, <2>2 DEF LinkedUpTo
  <2>4. phase' # "check"
    BY <1>0
  <2>. QED
    BY <2>3, <2>4 DEF TablesAreThere
<1>5. CurrentIsAround'
  <2>1. Linked(tables', current')
    BY <1>3
  <2>2. Linked(tables, current)'
    BY <1>2, <2>1 DEF Linked
  <2>3. Kind(next) \in Borrowers => Kind(next) \notin Owners /\ Kind(next) # "file"
    BY DEF Borrowers, Owners
  <2>4. Kind(next) \notin Owners => Kind(next) # "file"
    BY DEF Owners
  <2>5. phase' = "first"
    BY <1>0
  <2>6. Kind(Top)' = Kind(next)
    BY <1>1, <1>2 DEF Kind, Node
  <2>7. Kind(Top)' \in Owners => current' = Top'
    BY <1>1, <2>6
  <2>8. Kind(Top)' \in Borrowers => next' = Top' + 1 /\ current' = ScopeAround[Top']
    BY <1>0, <1>1, <1>3, <2>3, <2>6
  <2>9. Kind(Top)' \notin Owners \cup Borrowers => current' = ScopeAround[Top']
    BY <1>1, <1>3, <2>4, <2>6
  <2>. QED
    BY <1>1, <1>2, <2>2, <2>5, <2>7, <2>8, <2>9 DEF CurrentIsAround
<1>. QED
  BY <1>0, <1>1, <1>4, <1>5 DEF WalkInv

\* With a table of its own, that lies in the current one.
LEMMA EnteredScope ==
  ASSUME WalkInv, phase = "first", Descends, Visit, Kind(next) \in Owners \ {"file"},
         Opens(tables', next), current' = next
  PROVE  WalkInv'
<1>1. Linked(tables, current) /\ current = ScopeAround[next]
  BY CurrentBelow
<1>2. prog \in Programs /\ TablesAreLinked /\ next \in Nodes /\ prog' = prog
  BY NextFacts DEF WalkInv, Visit
<1>3. TablesAreLinked' /\ Linked(tables', next) /\ \A o : Linked(tables, o) => Linked(tables', o)
  BY <1>1, <1>2, LinksOfNewTable
<1>. QED
  BY <1>3, Entered

\* Without a table of its own, but perhaps with a symbol.
LEMMA EnteredOther ==
  ASSUME WalkInv, phase = "first", Descends, Visit, Kind(next) \notin Owners,
         AreTables(tables'), SameLinks(tables', tables), current' = current
  PROVE  WalkInv'
<1>1. prog \in Programs /\ TablesAreLinked /\ prog' = prog
  BY DEF WalkInv, Visit
<1>2. TablesAreLinked' /\ \A o : Linked(tables, o) => Linked(tables', o)
  BY <1>1, LinksStay
<1>. QED
  BY <1>2, Entered

LEMMA NewTable ==
  ASSUME WalkInv
  PROVE  /\ AreTables(tables) /\ SameLinks(tables, tables)
         /\ \A n : Kind(n) # "fndecl" => Opens(WithTable(tables, n, Below(current)), n)
         /\ \A n : Kind(n) = "fndecl"
              => Opens(WithTable(tables, n, [Below(current) EXCEPT !.fndecl = n]), n)
<1>1. TablesAreLinked
  BY DEF WalkInv
<1>2. AreTables(tables) /\ SameLinks(tables, tables)
  BY <1>1 DEF TablesAreLinked, AreTables, SameLinks
<1>3. ASSUME NEW n, Kind(n) # "fndecl"
      PROVE  Opens(WithTable(tables, n, Below(current)), n)
  <2>1. Below(current) = [records |-> <<>>, outer |-> current, mod |-> Module,
                          fndecl |-> IF Kind(n) = "fndecl" THEN n ELSE tables[current].fndecl]
    BY <1>3 DEF Below
  <2>. QED
    BY <1>1, <2>1, OpenTable
<1>4. ASSUME NEW n, Kind(n) = "fndecl"
      PROVE  Opens(WithTable(tables, n, [Below(current) EXCEPT !.fndecl = n]), n)
  <2>1. [Below(current) EXCEPT !.fndecl = n]
          = [records |-> <<>>, outer |-> current, mod |-> Module,
             fndecl |-> IF Kind(n) = "fndecl" THEN n ELSE tables[current].fndecl]
    BY <1>4 DEF Below
  <2>. QED
    BY <1>1, <2>1, OpenTable
<1>. QED
  BY <1>2, <1>3, <1>4

\* What the first pass does to the tables: at a node that has one, but for a file,
\* it opens a table, at another it leaves all tables linked as they are.
LEMMA EnteringOpens ==
  ASSUME WalkInv, EnterBlock \/ EnterModule \/ EnterFndecl \/ EnterTypedesc
  PROVE  /\ phase = "first" /\ Descends /\ Visit /\ current' = next
         /\ Kind(next) \in Owners \ {"file"} /\ Opens(tables', next)
<1>0. prog \in Programs
  BY DEF WalkInv
<1>1. CASE EnterBlock
  <2>1. phase = "first" /\ Descends /\ Kind(next) = "block" /\ Visit /\ current' = next
    BY <1>1 DEF EnterBlock, Entering
  <2>2. Opens(tables', next)
    BY <1>1, <2>1, NewTable DEF EnterBlock
  <2>. QED
    BY <2>1, <2>2 DEF Owners
<1>2. CASE EnterModule
  <2>1. phase = "first" /\ Descends /\ Kind(next) = "module" /\ Visit /\ current' = next
    BY <1>2 DEF EnterModule, Entering
  <2>2. Opens(WithTable(tables, next, Below(current)), next)
    BY <2>1, NewTable
  <2>3. AreTables(WithTable(tables, next, Below(current)))
    BY <2>2 DEF Opens
  <2>4. /\ AreTables(tables')
        /\ SameLinks(tables', WithTable(tables, next, Below(current)))
    BY <1>2, <2>3, AddKeepsLinks DEF EnterModule
  <2>5. Opens(tables', next)
    BY <2>2, <2>4, OpensTransfers
  <2>. QED
    BY <2>1, <2>5 DEF Owners
<1>3. CASE EnterFndecl
  <2>. DEFINE own == WithTable(tables, next, [Below(current) EXCEPT !.fndecl = next])
              with == WithArguments(next).tables
  <2>1. phase = "first" /\ Descends /\ Kind(next) = "fndecl" /\ Visit /\ current' = next
    BY <1>3 DEF EnterFndecl, Entering
  <2>2. Opens(own, next)
    BY <2>1, NewTable
  <2>3. AreTables(with) /\ SameLinks(with, own)
    <3>1. AreTables(own)
      BY <2>2 DEF Opens
    <3>. QED
      BY <1>0, <3>1, LeavesKeepLinks DEF WithArguments
  <2>4. AreTables(tables') /\ SameLinks(tables', with)
    BY <1>3, <2>3, AddKeepsLinks DEF EnterFndecl
  <2>. HIDE DEF own, with
  <2>5. Opens(tables', next)
    BY <2>2, <2>3, <2>4, OpensTransfers
  <2>. QED
    BY <2>1, <2>5 DEF Owners
<1>4. CASE EnterTypedesc
  <2>. DEFINE own == WithTable(tables, next, Below(current))
  <2>1. phase = "first" /\ Descends /\ Kind(next) = "typedesc" /\ Visit /\ current' = next
    BY <1>4 DEF EnterTypedesc, Entering
  <2>2. Opens(own, next)
    BY <2>1, NewTable
  <2>3. AreTables(tables') /\ SameLinks(tables', own)
    <3>1. AreTables(own)
      BY <2>2 DEF Opens
    <3>. QED
      BY <1>0, <1>4, <3>1, LeavesKeepLinks DEF WithLeaves, EnterTypedesc
  <2>. HIDE DEF own
  <2>4. Opens(tables', next)
    BY <2>2, <2>3, OpensTransfers
  <2>. QED
    BY <2>1, <2>4 DEF Owners
<1>. QED
  BY <1>1, <1>2, <1>3, <1>4

LEMMA EnteringKeeps ==
  ASSUME WalkInv, EnterTypedecl \/ EnterVardecl \/ EnterOther
  PROVE  /\ phase = "first" /\ Descends /\ Visit /\ current' = current
         /\ Kind(next) \notin Owners \/ (Kind(next) = "file" /\ tables' = tables)
         /\ AreTables(tables') /\ SameLinks(tables', tables)
<1>1. CASE EnterTypedecl
  <2>1. phase = "first" /\ Descends /\ Kind(next) = "typedecl" /\ Visit /\ current' = current
    BY <1>1 DEF EnterTypedecl, Entering
  <2>2. AreTables(tables') /\ SameLinks(tables', tables)
    BY <1>1, NewTable, AddKeepsLinks DEF EnterTypedecl
  <2>. QED
    BY <2>1, <2>2 DEF Owners
<1>2. CASE EnterVardecl
  <2>1. phase = "first" /\ Descends /\ Kind(next) = "vardecl" /\ Visit /\ current' = current
    BY <1>2 DEF EnterVardecl, Entering
  <2>2. AreTables(tables') /\ SameLinks(tables', tables)
    BY <1>2, NewTable, AddLeafKeepsLinks DEF EnterVardecl
  <2>. QED
    BY <2>1, <2>2 DEF Owners
<1>3. CASE EnterOther
  <2>1. /\ phase = "first" /\ Descends /\ Visit /\ current' = current /\ tables' = tables
        /\ Kind(next) \in {"file", "fnimpl", "case", "leaf", "use", "call", "return", "match"}
    BY <1>3 DEF EnterOther, Entering
  <2>2. AreTables(tables') /\ SameLinks(tables', tables)
    BY <2>1, NewTable
  <2>. QED
    BY <2>1, <2>2 DEF Owners
<1>. QED
  BY <1>1, <1>2, <1>3

LEMMA EnterOpeningStep ==
  WalkInv /\ (EnterBlock \/ EnterModule \/ EnterFndecl \/ EnterTypedesc) => WalkInv'
BY EnteringOpens, EnteredScope

\* A file has its table from the start.
LEMMA EnterKeepingStep == WalkInv /\ (EnterTypedecl \/ EnterVardecl \/ EnterOther) => WalkInv'
<1>. SUFFICES ASSUME WalkInv, EnterTypedecl \/ EnterVardecl \/ EnterOther PROVE WalkInv'
  OBVIOUS
<1>1. /\ phase = "first" /\ Descends /\ Visit /\ current' = current
      /\ Kind(next) \notin Owners \/ (Kind(next) = "file" /\ tables' = tables)
      /\ AreTables(tables') /\ SameLinks(tables', tables)
  BY EnteringKeeps
<1>2. CASE Kind(next) = "file" /\ tables' = tables
  <2>1. prog \in Programs /\ TablesAreLinked /\ next \in Nodes /\ prog' = prog
    BY <1>1, NextFacts DEF WalkInv, Visit
  <2>2. TablesAreLinked' /\ \A o : Linked(tables, o) => Linked(tables', o)
    BY <1>2, <2>1, TablesStay
  <2>3. current = next /\ Linked(tables, current)
    BY <1>1, <1>2, CurrentBelow
  <2>. QED
    BY <1>1, <1>2, <2>2, <2>3, Entered
<1>3. CASE Kind(next) \notin Owners
  BY <1>1, <1>3, EnteredOther
<1>. QED
  BY <1>1, <1>2, <1>3

\* The type check goes down where the first pass has been.
LEMMA DescendStep == WalkInv /\ Descend => WalkInv'
<1>. SUFFICES ASSUME WalkInv, Descend PROVE WalkInv'
  OBVIOUS
<1>0. /\ phase = "check" /\ Descends /\ tables' = tables
      /\ prog' = prog /\ at' = at /\ phase' = phase /\ next' = next + 1
      /\ prog \in Programs /\ at \in DOMAIN prog.modules /\ TablesAreLinked
      /\ next \in Nodes /\ next \in Nat \ {0} /\ Module \in Nat \ {0} /\ Module <= next
      /\ Len(prog.nodes) \in Nat
  BY NextFacts, PathFacts, TreeFacts DEF Descend, Visit, WalkInv
<1>1. PathIsInTree' /\ parents' # <<>> /\ Top' = next /\ Module' = Module
  BY <1>0, DescendPath DEF Descend, Visit
<1>2. /\ Nodes' = Nodes /\ ScopeAround' = ScopeAround
      /\ \A n : Kind(n)' = Kind(n) /\ Parent(n)' = Parent(n)
      /\ \A o : Linked(tables, o)' <=> Linked(tables', o)
  BY <1>0, TreeStays
<1>3. TablesAreLinked' /\ \A o : Linked(tables, o) => Linked(tables', o)
  BY <1>0, TablesStay
<1>4. TablesAreThere'
  <2>1. PICK e \in Nodes \cup {Len(prog.nodes) + 1} : WalkedBefore(e)
    BY <1>0 DEF WalkInv, TablesAreThere
  <2>2. e \in Nat \ {0} /\ (e \in Nodes \/ e = Len(prog.nodes) + 1)
    BY <1>0, <2>1 DEF Nodes
  <2>3. next < e
    <3>1. CASE parents = <<>>
      BY <2>1, <3>1, <1>0, NextFacts DEF WalkedBefore
    <3>2. CASE parents # <<>>
      <4>1. SUFFICES ASSUME next = e PROVE FALSE
        BY <1>0, <2>1, <2>2 DEF WalkedBefore
      <4>2. e \in e..Len(prog.nodes)
        BY <1>0, <4>1 DEF Nodes
      <4>3. Parent(e) \in Module..e - 1
        BY <1>0, <2>2, <3>2, <4>1, NextFacts, PathFacts
      <4>. QED
        BY <2>1, <4>2, <4>3 DEF WalkedBefore
    <3>. QED
      BY <3>1, <3>2
  <2>4. next' <= e
    BY <1>0, <2>2, <2>3
  <2>5. WalkedBefore(e)'
    BY <1>0, <1>1, <1>2, <1>3, <2>1, <2>4 DEF WalkedBefore, LinkedUpTo
  <2>6. e \in (Nodes \cup {Len(prog.nodes) + 1})'
    BY <1>0, <1>2, <2>1
  <2>7. phase' # "first"
    BY <1>0
  <2>. QED
    BY <2>5, <2>6, <2>7 DEF TablesAreThere
<1>5. CurrentIsAround'
  <2>1. Kind(Top)' = Kind(next)
    BY <1>1, <1>2 DEF Kind, Node
  <2>2. current' = IF Kind(next) \in Owners \cup Borrowers THEN TableOf(next) ELSE current
    BY DEF Descend
  <2>3. Owners \cap Borrowers = {}
    BY <1>0, FirstChildren
  <2>4. Kind(Top)' \in Owners => current' = Top'
    BY <1>1, <2>1, <2>2, <2>3 DEF TableOf
  <2>5. Kind(Top)' \in Borrowers => current' = Top' + 1
    BY <1>1, <2>1, <2>2, <2>3 DEF TableOf
  <2>6. Kind(Top)' \notin Owners \cup Borrowers => current' = ScopeAround[Top']
    BY <1>0, <1>1, <2>1, <2>2, CurrentBelow
  <2>7. phase' # "first"
    BY <1>0
  <2>. QED
    BY <1>1, <1>2, <2>4, <2>5, <2>6, <2>7 DEF CurrentIsAround
<1>. QED
  BY <1>0, <1>1, <1>3, <1>4, <1>5 DEF WalkInv

\* The table with which a node is left is that of the scope around it, or of
\* the node itself, where its parent borrows it.
LEMMA LeftTable ==
  ASSUME WalkInv, phase \in {"first", "check"}, GoUp
  PROVE  /\ Kind(Top) # "file" /\ ~(Parent(Top) # None /\ Kind(Parent(Top)) \in Borrowers
                                    /\ Top = Parent(Top) + 1)
              => current' = ScopeAround[Top]
         /\ Parent(Top) # None /\ Kind(Parent(Top)) \in Borrowers /\ Top = Parent(Top) + 1
              => current' = Top
         /\ phase = "first" /\ Parent(Top) # None => Linked(tables, current')
<1>0. /\ prog \in Programs /\ parents # <<>> /\ ~Descends
      /\ Top \in Nodes /\ Top \in Nat \ {0} /\ Module <= Top /\ Top < next
      /\ Module \in Nat \ {0} /\ next \in Nat \ {0} /\ next <= Len(prog.nodes) + 1
      /\ current' = IF Stays(Top) THEN current ELSE tables[TableOf(Top)].outer
      /\ Len(prog.nodes) \in Nat
  BY PathFacts, TreeFacts DEF GoUp, WalkInv
<1>1. Owners \cap Borrowers = {} /\ "fndecl" \in Owners /\ "typedesc" \in Owners
  BY <1>0, FirstChildren DEF Owners
<1>. DEFINE First == /\ Parent(Top) # None /\ Kind(Parent(Top)) \in Borrowers
                     /\ Top = Parent(Top) + 1
<1>2. First => Kind(Top) = FirstChild[Kind(Parent(Top))]
  BY <1>0, TreeFacts
<1>3. Kind(Top) \in Owners /\ Kind(Top) # "file" => (Stays(Top) <=> First)
  <2>1. SUFFICES ASSUME Kind(Top) \in Owners, Kind(Top) # "file" PROVE Stays(Top) <=> First
    OBVIOUS
  <2>2. Parent(Top) # None
    BY <1>0, <2>1, TreeFacts
  <2>3. Kind(Parent(Top)) \in Borrowers => (Kind(Top) = FirstChild[Kind(Parent(Top))] <=> First)
    BY <1>0, <2>2, TreeFacts
  <2>. HIDE DEF First
  <2>4. Stays(Top) <=> \/ Kind(Top) = "fndecl" /\ Kind(Parent(Top)) = "fnimpl"
                       \/ Kind(Top) = "typedesc" /\ Kind(Parent(Top)) = "case"
    BY <2>1 DEF Stays, Parent
  <2>5. First => Kind(Parent(Top)) \in {"fnimpl", "case"} /\ Kind(Top) = FirstChild[Kind(Parent(Top))]
    BY <1>2 DEF First, Borrowers
  <2>. QED
    BY <2>3, <2>4, <2>5 DEF FirstChild, Borrowers
<1>4. \A n \in Module..next - 1 : Kind(n) \in Owners => Linked(tables, n)
  <2>1. CASE phase = "first"
    BY <2>1 DEF WalkInv, TablesAreThere, LinkedUpTo
  <2>2. CASE phase = "check"
    <3>1. PICK e \in Nodes \cup {Len(prog.nodes) + 1} : WalkedBefore(e)
      BY <2>2 DEF WalkInv, TablesAreThere
    <3>2. e \in Nat /\ next <= e /\ LinkedUpTo(e)
      BY <1>0, <3>1 DEF WalkedBefore, Nodes
    <3>3. \A n \in Module..next - 1 : n \in Module..e - 1
      BY <1>0, <3>2
    <3>. QED
      BY <3>2, <3>3 DEF LinkedUpTo
  <2>. QED
    BY <2>1, <2>2
<1>5. ASSUME phase = "first"
      PROVE  Linked(tables, current)
  BY <1>0, <1>5 DEF WalkInv, CurrentIsAround
<1>6. \A o \in Nodes : /\ Linked(tables, o) => tables[o].outer = ScopeAround[o]
                       /\ Linked(tables, o) /\ ScopeAround[o] # None => Linked(tables, ScopeAround[o])
  <2>1. TAKE o \in Nodes
  <2>2. TablesAreLinked
    BY DEF WalkInv
  <2>. QED
    BY <2>2 DEF Linked, TablesAreLinked
<1>7. CASE Kind(Top) \notin Owners \cup Borrowers
  <2>1. Stays(Top) /\ current' = current
    BY <1>0, <1>7 DEF Stays
  <2>2. current = ScopeAround[Top]
    BY <1>0, <1>7 DEF WalkInv, CurrentIsAround
  <2>3. ~First
    <3>1. FirstChild.fnimpl \in Owners /\ FirstChild.case \in Owners
      BY DEF FirstChild, Owners
    <3>. QED
      BY <1>2, <1>7, <3>1 DEF Borrowers
  <2>. QED
    BY <1>5, <2>1, <2>2, <2>3
<1>8. CASE Kind(Top) \in Owners
  <2>1. Linked(tables, Top)
    BY <1>0, <1>4, <1>8
  <2>2. current = Top
    BY <1>0, <1>8 DEF WalkInv, CurrentIsAround
  <2>3. Kind(Top) = "file" => Parent(Top) = None
    BY <1>0, TreeFacts
  <2>4. CASE Kind(Top) = "file"
    BY <2>3, <2>4
  <2>5. CASE Kind(Top) # "file" /\ First
    BY <1>0, <1>3, <1>8, <2>1, <2>2, <2>5
  <2>6. CASE Kind(Top) # "file" /\ ~First
    <3>1. current' = tables[Top].outer
      BY <1>0, <1>1, <1>3, <1>8, <2>6 DEF TableOf
    <3>2. current' = ScopeAround[Top]
      BY <1>0, <1>6, <2>1, <3>1
    <3>3. ScopeAround[Top] # None
      <4>1. Parent(Top) # None /\ Parent(Top) \in Nodes
        BY <1>0, <2>6, TreeFacts
      <4>2. CASE Kind(Top) = "module"
        <5>1. Kind(Parent(Top)) \in Owners
          BY <1>0, <4>2, TreeFacts DEF Owners
        <5>. QED
          BY <1>0, <4>1, <5>1, ScopeFacts
      <4>3. CASE Kind(Top) # "module"
        <5>1. tables[Top].outer # None
          BY <2>1, <2>6, <4>3 DEF WalkInv, TablesAreLinked, Linked
        <5>. QED
          BY <3>1, <3>2, <5>1
      <4>. QED
        BY <4>2, <4>3
    <3>. QED
      BY <1>0, <1>6, <2>1, <2>6, <3>2, <3>3
  <2>. QED
    BY <2>4, <2>5, <2>6
<1>9. CASE Kind(Top) \in Borrowers
  <2>1. /\ Top + 1 \in Nodes /\ Parent(Top + 1) = Top /\ Kind(Top + 1) \in {"fndecl", "typedesc"}
        /\ Kind(Top) # "file" /\ Kind(Top) \notin {"fndecl", "typedesc"}
    BY <1>0, <1>9, TreeFacts, FirstChildren DEF Borrowers
  <2>2. Top + 1 < next
    <3>1. SUFFICES ASSUME next = Top + 1 PROVE FALSE
      BY <1>0
    <3>2. next <= Len(prog.nodes)
      BY <2>1, <3>1 DEF Nodes
    <3>. QED
      BY <1>0, <2>1, <3>1, <3>2 DEF Descends, Parent
  <2>3. Linked(tables, Top + 1)
    <3>1. Top + 1 \in Module..next - 1
      BY <1>0, <2>2
    <3>. QED
      BY <1>1, <1>4, <2>1, <3>1
  <2>4. ScopeAround[Top + 1] = ScopeAround[Top]
    <3>1. Kind(Parent(Top + 1)) \notin Owners /\ Parent(Top + 1) # None
      BY <1>0, <1>1, <1>9, <2>1 DEF None
    <3>. QED
      BY <1>0, <2>1, <3>1, ScopeFacts
  <2>5. ~First
    <3>1. FirstChild.fnimpl = "fndecl" /\ FirstChild.case = "typedesc"
      BY DEF FirstChild
    <3>. QED
      BY <1>2, <2>1, <3>1 DEF Borrowers
  <2>6. ~Stays(Top)
    BY <1>9, <2>1 DEF Stays
  <2>7. current' = tables[Top + 1].outer
    BY <1>0, <1>9, <2>6 DEF TableOf
  <2>8. current' = ScopeAround[Top]
    BY <1>6, <2>1, <2>3, <2>4, <2>7
  <2>9. tables[Top + 1].outer # None
    BY <2>1, <2>3 DEF WalkInv, TablesAreLinked, Linked
  <2>10. Linked(tables, current')
    BY <1>6, <2>1, <2>3, <2>4, <2>7, <2>8, <2>9
  <2>. QED
    BY <2>5, <2>8, <2>10
<1>. QED
  BY <1>7, <1>8, <1>9

LEMMA GoUpStep ==
  ASSUME WalkInv, phase \in {"first", "check"}, GoUp
  PROVE  WalkInv'
<1>0. /\ parents # <<>> /\ ~Descends /\ prog' = prog /\ at' = at /\ phase' = phase
      /\ next' = next /\ tables' = tables /\ parents' = Front(parents)
      /\ prog \in Programs /\ at \in DOMAIN prog.modules /\ TablesAreLinked
      /\ Top \in Nodes /\ Top \in Nat \ {0} /\ Top < next /\ next \in Nat \ {0}
      /\ Module <= Top /\ Module \in Nat
  BY PathFacts DEF GoUp, WalkInv
<1>1. /\ PathIsInTree' /\ Module' = Module
      /\ parents' # <<>> => /\ Top' = Parent(Top) /\ Top' \in Nodes /\ Top' < Top
                            /\ Parent(Top) # None
  BY <1>0, GoUpPath
<1>2. /\ Nodes' = Nodes /\ ScopeAround' = ScopeAround
      /\ \A n : Kind(n)' = Kind(n) /\ Parent(n)' = Parent(n)
      /\ \A o : Linked(tables, o)' <=> Linked(tables', o)
  BY <1>0, TreeStays
<1>3. TablesAreLinked' /\ \A o : Linked(tables, o) => Linked(tables', o)
  BY <1>0, TablesStay
<1>4. TablesAreThere'
  <2>1. LinkedUpTo(next) => LinkedUpTo(next)'
    BY <1>0, <1>1, <1>2, <1>3 DEF LinkedUpTo
  <2>2. \A e : WalkedBefore(e) => WalkedBefore(e)'
    BY <1>0, <1>1, <1>2, <1>3 DEF WalkedBefore, LinkedUpTo
  <2>3. (Nodes \cup {Len(prog.nodes) + 1})' = Nodes \cup {Len(prog.nodes) + 1}
    BY <1>0, <1>2
  <2>. QED
    BY <1>0, <2>1, <2>2, <2>3 DEF WalkInv, TablesAreThere
<1>5. CurrentIsAround'
  <2>1. CASE parents' = <<>>
    <3>1. next' # Module'
      BY <1>0, <1>1
    <3>. QED
      BY <2>1, <3>1 DEF CurrentIsAround
  <2>2. CASE parents' # <<>>
    <3>. DEFINE p == Parent(Top)
    <3>1. /\ Top' = p /\ p \in Nodes /\ p \in Nat /\ p # None /\ p < Top
          /\ Kind(Top) # "file" /\ Kind(Top)' = Kind(p)
      <4>1. Top' = p /\ p \in Nodes /\ p # None /\ p < Top
        BY <1>1, <2>2
      <4>2. Kind(Top)' = Kind(p)
        BY <1>2, <4>1 DEF Kind, Node
      <4>. QED
        BY <1>0, <4>1, <4>2, TreeFacts
    <3>2. Owners \cap Borrowers = {}
      BY <1>0, FirstChildren
    <3>3. next # p + 1
      BY <1>0, <3>1
    <3>. HIDE DEF p
    <3>4. CASE Kind(p) \in Borrowers /\ Top = p + 1
      <4>1. current' = p + 1
        BY <3>1, <3>4, LeftTable DEF p
      <4>. QED
        BY <1>0, <1>1, <1>2, <2>2, <3>1, <3>2, <3>3, <3>4, <4>1, LeftTable
        DEF CurrentIsAround, Linked, p
    <3>5. CASE ~(Kind(p) \in Borrowers /\ Top = p + 1)
      <4>1. current' = ScopeAround[Top]
        BY <3>1, <3>5, LeftTable DEF p
      <4>2. /\ Kind(p) \in Owners => current' = p
            /\ Kind(p) \in Borrowers => current' = p + 1
            /\ Kind(p) \notin Owners \cup Borrowers => current' = ScopeAround[p]
        BY <1>0, <3>1, <3>5, <4>1, ScopeFacts DEF p
      <4>3. phase = "first" => Linked(tables, current')
        BY <3>1, LeftTable DEF p
      <4>. QED
        BY <1>0, <1>1, <1>2, <2>2, <3>1, <3>2, <3>3, <4>2, <4>3 DEF CurrentIsAround, Linked
    <3>. QED
      BY <3>4, <3>5
  <2>. QED
    BY <2>1, <2>2
<1>. QED
  BY <1>0, <1>1, <1>3, <1>4, <1>5 DEF WalkInv

\* Nothing that the walks are about changes where the analysis stops.
LEMMA StopStep ==
  ASSUME WalkInv, UNCHANGED <<prog, at, parents, next, current, tables>>,
         phase' = phase \/ phase' \notin {"first", "check"}
  PROVE  WalkInv'
<1>0. prog \in Programs /\ TablesAreLinked /\ PathIsInTree /\ TablesAreThere /\ CurrentIsAround
  BY DEF WalkInv
<1>1. /\ Nodes' = Nodes /\ ScopeAround' = ScopeAround /\ FunctionAround' = FunctionAround
      /\ \A n : Kind(n)' = Kind(n) /\ Parent(n)' = Parent(n)
      /\ \A o : Linked(tables, o)' <=> Linked(tables', o)
      /\ Module' = Module /\ Top' = Top /\ FileOf(Module)' = FileOf(Module)
      /\ Kind(Top)' = Kind(Top) /\ (Nodes \cup {Len(prog.nodes) + 1})' = Nodes \cup {Len(prog.nodes) + 1}
  BY TreeStays DEF Module, Top, FileOf, Kind, Node, Nodes
<1>2. PathIsInTree'
  BY <1>0, <1>1 DEF PathIsInTree
<1>3. TablesAreLinked' /\ \A o : Linked(tables, o) => Linked(tables', o)
  BY <1>0, TablesStay
<1>4. \A e : LinkedUpTo(e) => LinkedUpTo(e)'
  BY <1>1, <1>3 DEF LinkedUpTo
<1>5. \A e : WalkedBefore(e) => WalkedBefore(e)'
  BY <1>1, <1>4 DEF WalkedBefore
<1>6. LinkedUpTo(next) => LinkedUpTo(next)'
  BY <1>1, <1>3 DEF LinkedUpTo
<1>7. TablesAreThere'
  BY <1>0, <1>1, <1>5, <1>6 DEF TablesAreThere
<1>8. Linked(tables, current) => Linked(tables, current)'
  BY <1>1 DEF Linked
<1>9. CurrentIsAround'
  BY <1>0, <1>1, <1>8 DEF CurrentIsAround
<1>. QED
  BY <1>0, <1>2, <1>3, <1>7, <1>9 DEF WalkInv

\* The second walk starts over, and will end where the first one did.
LEMMA EndFirstPassStep == WalkInv /\ EndFirstPass => WalkInv'
<1>. SUFFICES ASSUME WalkInv, EndFirstPass PROVE WalkInv'
  OBVIOUS
<1>0. /\ phase = "first" /\ parents = <<>> /\ next # Module
      /\ phase' = "check" /\ next' = Module
      /\ prog' = prog /\ at' = at /\ parents' = parents /\ tables' = tables
      /\ prog \in Programs /\ at \in DOMAIN prog.modules
      /\ TablesAreLinked /\ PathIsInTree /\ LinkedUpTo(next)
      /\ Module \in Nodes /\ Module \in Nat \ {0} /\ next \in Nat \ {0}
      /\ Module <= next /\ next <= Len(prog.nodes) + 1 /\ Len(prog.nodes) \in Nat
  BY PathFacts, TreeFacts DEF EndFirstPass, Walked, Descends, WalkInv, TablesAreThere
<1>1. /\ Nodes' = Nodes /\ \A n : Kind(n)' = Kind(n) /\ Parent(n)' = Parent(n)
      /\ \A o : Linked(tables, o)' <=> Linked(tables', o)
      /\ Module' = Module
  BY <1>0, TreeStays DEF Module
<1>2. PathIsInTree'
  <2>1. parents' \in Seq(Nodes) /\ DOMAIN parents' = {} /\ Len(parents') = 0
    BY <1>0
  <2>2. next' \in Module..Len(prog.nodes) + 1
    BY <1>0
  <2>3. Module..next' - 1 = {} /\ 1..Len(parents') - 1 = {}
    BY <1>0, <2>1
  <2>. QED
    BY <1>0, <1>1, <2>1, <2>2, <2>3 DEF PathIsInTree
<1>3. TablesAreLinked' /\ \A o : Linked(tables, o) => Linked(tables', o)
  BY <1>0, TablesStay
<1>4. TablesAreThere'
  <2>1. PICK e \in Nodes \cup {Len(prog.nodes) + 1} : e = next
    BY <1>0 DEF Nodes
  <2>2. \A k \in e..Len(prog.nodes) : Parent(k) \notin Module..e - 1
    <3>1. DOMAIN parents = {}
      BY <1>0
    <3>2. \A p \in Module..next - 1 : \A k \in next..Len(prog.nodes) : Parent(k) # p
      BY <1>0, <3>1 DEF PathIsInTree
    <3>. QED
      BY <2>1, <3>2
  <2>3. Module <= e /\ Module < e
    BY <1>0, <2>1
  <2>4. \A n \in Module..e - 1 : Kind(n) \in Owners => Linked(tables', n)
    BY <1>0, <1>3, <2>1 DEF LinkedUpTo
  <2>5. WalkedBefore(e)'
    BY <1>0, <1>1, <2>2, <2>3, <2>4 DEF WalkedBefore, LinkedUpTo
  <2>6. e \in (Nodes \cup {Len(prog.nodes) + 1})'
    BY <1>0, <1>1, <2>1
  <2>. QED
    BY <1>0, <2>5, <2>6 DEF TablesAreThere
<1>5. CurrentIsAround'
  BY <1>0 DEF CurrentIsAround
<1>. QED
  BY <1>0, <1>2, <1>3, <1>4, <1>5 DEF WalkInv

\* Before the first node of a module, nothing is entered and the table of its
\* file is the current one.
AtStart ==
  /\ prog \in Programs /\ at \in DOMAIN prog.modules /\ TablesAreLinked
  /\ parents = <<>> /\ next = Module /\ current = FileOf(Module) /\ phase = "first"

LEMMA WalkStarts == AtStart => WalkInv
<1>. SUFFICES ASSUME AtStart PROVE WalkInv
  OBVIOUS
<1>0. /\ prog \in Programs /\ at \in DOMAIN prog.modules /\ TablesAreLinked
      /\ parents = <<>> /\ next = Module /\ current = FileOf(Module) /\ phase = "first"
  BY DEF AtStart
<1>1. /\ Module \in Nodes /\ Kind(Module) \in {"file", "module"} /\ Module \in Nat \ {0}
      /\ Len(prog.nodes) \in Nat /\ Module <= Len(prog.nodes)
  BY <1>0, TreeFacts DEF Module, Nodes
<1>2. PathIsInTree
  <2>1. parents \in Seq(Nodes) /\ DOMAIN parents = {} /\ Len(parents) = 0
    BY <1>0
  <2>2. next \in Module..Len(prog.nodes) + 1
    BY <1>0, <1>1
  <2>3. Module..next - 1 = {} /\ 1..Len(parents) - 1 = {}
    BY <1>0, <1>1, <2>1
  <2>. QED
    BY <1>0, <2>1, <2>2, <2>3 DEF PathIsInTree
<1>3. TablesAreThere
  <2>1. Module..next - 1 = {}
    BY <1>0, <1>1
  <2>. QED
    BY <1>0, <2>1 DEF TablesAreThere, LinkedUpTo
<1>4. Linked(tables, current)
  <2>1. current \in Nodes /\ Kind(current) = "file"
    <3>1. CASE Kind(Module) = "file"
      BY <1>0, <1>1, <3>1 DEF FileOf
    <3>2. CASE Kind(Module) # "file"
      <4>1. current = Parent(Module)
        BY <1>0, <3>2 DEF FileOf, Parent
      <4>2. Kind(Parent(Module)) = "file" /\ Parent(Module) # None
        BY <1>0, <1>1, <3>2, TreeFacts
      <4>. QED
        BY <1>0, <1>1, <4>1, <4>2, TreeFacts
    <3>. QED
      BY <3>1, <3>2
  <2>. QED
    BY <1>0, <2>1 DEF TablesAreLinked
<1>5. CurrentIsAround
  BY <1>0, <1>4 DEF CurrentIsAround
<1>. QED
  BY <1>0, <1>2, <1>3, <1>5 DEF WalkInv

LEMMA EndCheckStep == WalkInv /\ EndCheck => WalkInv'
<1>. SUFFICES ASSUME WalkInv, EndCheck PROVE WalkInv'
  OBVIOUS
<1>0. /\ phase = "check" /\ parents = <<>> /\ parents' = parents
      /\ prog' = prog /\ tables' = tables /\ prog \in Programs /\ at \in DOMAIN prog.modules
      /\ TablesAreLinked
  BY DEF EndCheck, Walked, WalkInv
<1>1. CASE ~errors /\ at < Len(prog.modules)
  <2>1. /\ at' = at + 1 /\ phase' = "first" /\ next' = prog.modules[at + 1]
        /\ current' = FileOf(prog.modules[at + 1])
    BY <1>1 DEF EndCheck
  <2>2. at' \in DOMAIN prog.modules
    <3>1. prog.modules \in Seq(Nodes)
      BY <1>0, TreeFacts
    <3>. QED
      BY <1>0, <1>1, <2>1, <3>1
  <2>3. Module' = prog.modules[at + 1]
    BY <1>0, <2>1 DEF Module
  <2>4. FileOf(Module)' = FileOf(prog.modules[at + 1])
    BY <1>0, <2>3 DEF FileOf, Kind, Node
  <2>5. TablesAreLinked'
    BY <1>0, TablesStay
  <2>6. AtStart'
    BY <1>0, <2>1, <2>2, <2>3, <2>4, <2>5 DEF AtStart
  <2>. QED
    BY <2>6, WalkStarts, PTL
<1>2. CASE ~(~errors /\ at < Len(prog.modules))
  <2>1. /\ UNCHANGED <<prog, at, parents, next, current, tables>>
        /\ phase' \in {"failed", "done"}
    BY <1>2 DEF EndCheck
  <2>. QED
    BY <2>1, StopStep
<1>. QED
  BY <1>1, <1>2
-----------------------------------------------------------------------------
LEMMA InitStep == Init => WalkInv
<1>. SUFFICES ASSUME Init PROVE WalkInv
  OBVIOUS
<1>1. /\ prog \in Programs /\ at = 1 /\ phase = "first" /\ parents = <<>>
      /\ next = Module /\ current = FileOf(Module)
      /\ tables = [n \in {k \in Nodes : Kind(k) \in {"file", "module"}} |->
                     EmptyTable(IF Kind(n) = "file" THEN None ELSE n)]
  BY DEF Init, Nodes
<1>2. at \in DOMAIN prog.modules
  <2>1. prog.modules \in Seq(DOMAIN prog.nodes) /\ prog.modules # <<>>
    BY <1>1, ProgramsAssumption DEF IsProgram
  <2>. QED
    BY <1>1, <2>1
<1>3. /\ DOMAIN tables = {k \in Nodes : Kind(k) \in {"file", "module"}}
      /\ tables = [o \in DOMAIN tables |-> tables[o]]
  BY <1>1
<1>4. ASSUME NEW o \in DOMAIN tables
      PROVE  /\ tables[o].outer = None /\ tables[o].fndecl = None
             /\ tables[o] = [records |-> tables[o].records, outer |-> tables[o].outer,
                             fndecl |-> tables[o].fndecl, mod |-> tables[o].mod]
  <2>1. tables[o] = EmptyTable(IF Kind(o) = "file" THEN None ELSE o)
    BY <1>1
  <2>2. \A m : EmptyTable(m) = [records |-> <<>>, outer |-> None, fndecl |-> None, mod |-> m]
    BY DEF EmptyTable
  <2>3. PICK m : tables[o] = [records |-> <<>>, outer |-> None, fndecl |-> None, mod |-> m]
    BY <2>1, <2>2
  <2>. QED
    BY <2>3
<1>5. AreTables(tables)
  BY <1>3, <1>4, Zenon DEF AreTables
<1>6. ASSUME NEW o \in DOMAIN tables
      PROVE  /\ Kind(o) \in Owners
             /\ Linked(tables, o) \/ (Kind(o) = "module" /\ tables[o].outer = None)
             /\ tables[o].outer = None /\ Kind(o) \in {"file", "module"}
  <2>1. o \in Nodes /\ Kind(o) \in {"file", "module"}
    BY <1>3
  <2>2. tables[o].outer = None /\ tables[o].fndecl = None
    BY <1>4
  <2>3. Kind(o) = "file" => Linked(tables, o)
    <3>1. Kind(o) = "file" => ScopeAround[o] = None /\ FunctionAround[o] = None
      BY <1>1, <2>1, ScopeFacts, FunctionFacts
    <3>. QED
      BY <2>2, <3>1 DEF Linked
  <2>. QED
    BY <2>1, <2>2, <2>3 DEF Owners
<1>7. TablesAreLinked
  BY <1>3, <1>5, <1>6 DEF TablesAreLinked, AreTables
<1>. QED
  BY <1>1, <1>2, <1>7, WalkStarts DEF AtStart

LEMMA NextStep == WalkInv /\ [Next]_vars => WalkInv'
<1>. SUFFICES ASSUME WalkInv, [Next]_vars PROVE WalkInv'
  OBVIOUS
<1>1. CASE RefuseNode
  BY <1>1, StopStep DEF RefuseNode
<1>2. CASE DescendToUndeclaredMatch
  BY <1>2, StopStep DEF DescendToUndeclaredMatch
<1>3. CASE Ended \/ UNCHANGED vars
  BY <1>3, StopStep DEF Ended, vars
<1>4. CASE Ascend
  BY <1>4, GoUpStep DEF Ascend
<1>5. CASE CheckNode
  BY <1>5, GoUpStep DEF CheckNode
<1>. QED
  BY <1>1, <1>2, <1>3, <1>4, <1>5, EnterOpeningStep, EnterKeepingStep, DescendStep,
     EndFirstPassStep, EndCheckStep
  DEF Next

\* Both walks over every module keep their parents, the current table and the
\* links of all tables in step with the tree (analyzer_first_pass_do() and
\* analyzer_handle_traversal_descending() on the way down,
\* analyzer_handle_symbol_table_ascending() on the way up).
THEOREM WalksFollowTheTree == Spec => []WalkInv
BY InitStep, NextStep, PTL DEF Spec

\* Whatever the program, the current table is that of the scope around the node
\* being visited, in the first pass as in the type check, although the callback
\* that moves it up leaves it where it is behind some declarations and patterns.
THEOREM CurrentTableIsLexical == Spec => []ScopesAreLexical
<1>1. WalkInv => ScopesAreLexical
  <2>. SUFFICES ASSUME WalkInv PROVE ScopesAreLexical
    OBVIOUS
  <2>1. ASSUME NEW o \in DOMAIN tables, tables[o].outer # None
        PROVE  tables[o].outer = ScopeAround[o] /\ tables[o].fndecl = FunctionAround[o]
    BY <2>1 DEF WalkInv, TablesAreLinked, Linked
  <2>2. parents # <<>> /\ Kind(Top) \notin Owners \cup Borrowers => current = ScopeAround[Top]
    BY DEF WalkInv, CurrentIsAround
  <2>3. \A i \in 1..Len(parents) - 1 : parents[i] = Parent(parents[i + 1])
    BY DEF WalkInv, PathIsInTree
  <2>. QED
    BY <2>1, <2>2, <2>3 DEF ScopesAreLexical, ReturnsLeaveTheirFunction
<1>. QED
  BY <1>1, WalksFollowTheTree, PTL
-----------------------------------------------------------------------------
(* Functions that climb, and functions that ask one import after the other *)

\* What a function over D is that goes from where it does not stop to a position
\* before.
Climb(D, stops, value, up, f) == [o \in D |-> IF o \in stops THEN value[o] ELSE f[up[o]]]

\* There is such a function: up to each position there is one.
LEMMA ClimbExists ==
  ASSUME NEW n \in Nat, NEW D \in SUBSET (0..n), NEW stops, NEW value, NEW up,
         \A o \in D : o \notin stops => up[o] \in D /\ up[o] < o
  PROVE  \E f : f = Climb(D, stops, value, up, f)
<1>. DEFINE Turn(f, o) == IF o \in stops THEN value[o] ELSE f[up[o]]
            Upto(k) == \E f : \A o \in D : o <= k => f[o] = Turn(f, o)
            S == {k \in 0..n : Upto(k)}
<1>1. ASSUME NEW k \in 0..n, \A j \in 0..n : j < k => j \in S
      PROVE  k \in S
  <2>1. PICK g : \A o \in D : o < k => g[o] = Turn(g, o)
    <3>1. CASE k = 0
      <4>1. \A o \in D : ~(o < k)
        BY <3>1
      <4>. QED
        BY <4>1
    <3>2. CASE k # 0
      <4>1. k - 1 \in 0..n /\ k - 1 < k
        BY <3>2
      <4>2. k - 1 \in S
        BY <1>1, <4>1
      <4>3. PICK g : \A o \in D : o <= k - 1 => g[o] = Turn(g, o)
        BY <4>2
      <4>4. \A o \in D : o < k => o <= k - 1
        OBVIOUS
      <4>. HIDE DEF Turn
      <4>. QED
        BY <4>3, <4>4
    <3>. QED
      BY <3>1, <3>2
  <2>. DEFINE f == [o \in D |-> IF o = k THEN Turn(g, o) ELSE g[o]]
  <2>2. ASSUME NEW o \in D, o <= k
        PROVE  f[o] = Turn(f, o)
    <3>1. o \notin stops => up[o] \in D /\ up[o] < k /\ up[o] # k
      <4>1. o \notin stops => up[o] \in D /\ up[o] < o
        OBVIOUS
      <4>2. \A p \in D : p < o => p < k /\ p # k
        BY <2>2
      <4>. QED
        BY <4>1, <4>2
    <3>2. o \notin stops => f[up[o]] = g[up[o]]
      BY <3>1
    <3>3. Turn(f, o) = Turn(g, o)
      BY <3>2
    <3>4. o # k => o < k
      BY <2>2
    <3>. HIDE DEF Turn
    <3>5. f[o] = Turn(g, o)
      BY <2>1, <3>4
    <3>. QED
      BY <3>3, <3>5
  <2>3. Upto(k)
    <3>. HIDE DEF f, Turn
    <3>. QED
      BY <2>2
  <2>. QED
    BY <2>3
<1>2. n \in S
  <2>. HIDE DEF S
  <2>1. \A i \in 0..n : i \in S
    BY <1>1, PositionInduction
  <2>. QED
    BY <2>1
<1>3. PICK g : \A o \in D : o <= n => g[o] = Turn(g, o)
  BY <1>2
<1>. DEFINE f == [o \in D |-> g[o]]
<1>4. \A o \in D : f[o] = Turn(f, o)
  <2>1. \A o \in D : o <= n /\ (o \notin stops => f[up[o]] = g[up[o]])
    OBVIOUS
  <2>. QED
    BY <1>3, <2>1
<1>5. f = [o \in D |-> Turn(f, o)]
  <2>1. f = [o \in D |-> f[o]]
    OBVIOUS
  <2>. HIDE DEF f, Turn
  <2>. QED
    BY <1>4, <2>1
<1>6. f = Climb(D, stops, value, up, f)
  BY <1>5 DEF Climb
<1>. QED
  BY <1>6

LEMMA LeastIsIn ==
  ASSUME NEW n \in Nat, NEW S \in SUBSET (0..n), S # {}
  PROVE  Min(S) \in S
BY FirstPosition DEF Min

\* What a function is that has a value of its own or asks others in turn.
Offering(deps, others, f) == {i \in DOMAIN deps : f[deps[i]] # None /\ deps[i] \in others}
Asking(deps, others, f) ==
  IF Offering(deps, others, f) = {} THEN None ELSE f[deps[Min(Offering(deps, others, f))]]
OwnOrAsked(base, deps, others, f, o) ==
  IF base[o] # None THEN base[o] ELSE Asking(deps[o], others, f)
Asks(D, base, deps, others, f) == f = [o \in D |-> OwnOrAsked(base, deps, others, f, o)]

\* It depends on those it asks only.
LEMMA AskingTheSame ==
  ASSUME NEW D, NEW deps \in Seq(D), NEW others, NEW f, NEW g,
         \A i \in DOMAIN deps : f[deps[i]] = g[deps[i]]
  PROVE  Asking(deps, others, f) = Asking(deps, others, g)
<1>1. Offering(deps, others, f) = Offering(deps, others, g)
  BY DEF Offering
<1>2. Offering(deps, others, g) # {}
        => Min(Offering(deps, others, g)) \in DOMAIN deps
  <2>1. Len(deps) \in Nat /\ DOMAIN deps = 1..Len(deps)
    OBVIOUS
  <2>2. Offering(deps, others, g) \subseteq 0..Len(deps)
    BY <2>1 DEF Offering
  <2>3. Offering(deps, others, g) # {}
          => Min(Offering(deps, others, g)) \in Offering(deps, others, g)
    BY <2>1, <2>2, LeastIsIn
  <2>. QED
    BY <2>3 DEF Offering
<1>. QED
  BY <1>1, <1>2 DEF Asking

\* If all imports have a lower rank there is such a function.
LEMMA AskingExists ==
  ASSUME NEW n \in Nat, NEW D, NEW base, NEW deps, NEW others, NEW rank,
         \A o \in D : /\ rank[o] \in 0..n /\ deps[o] \in Seq(D)
                      /\ \A i \in DOMAIN deps[o] : rank[deps[o][i]] < rank[o]
  PROVE  \E f : Asks(D, base, deps, others, f)
<1>. DEFINE Turn(f, o) == OwnOrAsked(base, deps, others, f, o)
            Upto(k) == \E f : \A o \in D : rank[o] <= k => f[o] = Turn(f, o)
            S == {k \in 0..n : Upto(k)}
<1>0. ASSUME NEW f, NEW g, NEW o \in D, \A i \in DOMAIN deps[o] : f[deps[o][i]] = g[deps[o][i]]
      PROVE  Turn(f, o) = Turn(g, o)
  <2>1. Asking(deps[o], others, f) = Asking(deps[o], others, g)
    BY <1>0, AskingTheSame
  <2>. QED
    BY <2>1 DEF OwnOrAsked
<1>00. \A o \in D : \A i \in DOMAIN deps[o] : deps[o][i] \in D
  <2>. SUFFICES ASSUME NEW o \in D PROVE \A i \in DOMAIN deps[o] : deps[o][i] \in D
    OBVIOUS
  <2>1. deps[o] \in Seq(D)
    OBVIOUS
  <2>. QED
    BY <2>1
<1>. HIDE DEF Turn
<1>1. ASSUME NEW k \in 0..n, \A j \in 0..n : j < k => j \in S
      PROVE  k \in S
  <2>1. PICK g : \A o \in D : rank[o] < k => g[o] = Turn(g, o)
    <3>1. CASE k = 0
      <4>1. \A o \in D : ~(rank[o] < k)
        BY <3>1
      <4>. QED
        BY <4>1
    <3>2. CASE k # 0
      <4>1. k - 1 \in 0..n /\ k - 1 < k
        BY <3>2
      <4>2. k - 1 \in S
        BY <1>1, <4>1
      <4>3. PICK g : \A o \in D : rank[o] <= k - 1 => g[o] = Turn(g, o)
        BY <4>2
      <4>4. \A o \in D : rank[o] < k => rank[o] <= k - 1
        OBVIOUS
      <4>. QED
        BY <4>3, <4>4
    <3>. QED
      BY <3>1, <3>2
  <2>. DEFINE f == [o \in D |-> IF rank[o] = k THEN Turn(g, o) ELSE g[o]]
  <2>2. ASSUME NEW o \in D, rank[o] <= k
        PROVE  f[o] = Turn(f, o)
    <3>1. \A i \in DOMAIN deps[o] : deps[o][i] \in D /\ rank[deps[o][i]] # k
      <4>1. \A i \in DOMAIN deps[o] : deps[o][i] \in D /\ rank[deps[o][i]] < rank[o]
        BY <1>00
      <4>2. \A p \in D : rank[p] < rank[o] => rank[p] # k
        BY <2>2
      <4>. QED
        BY <4>1, <4>2
    <3>2. \A i \in DOMAIN deps[o] : f[deps[o][i]] = g[deps[o][i]]
      BY <3>1
    <3>. HIDE DEF f
    <3>3. Turn(f, o) = Turn(g, o)
      BY <3>2, <1>0
    <3>4. rank[o] # k => rank[o] < k
      BY <2>2
    <3>5. f[o] = Turn(g, o)
      BY <2>1, <3>4 DEF f
    <3>. QED
      BY <3>3, <3>5
  <2>3. Upto(k)
    <3>. HIDE DEF f
    <3>. QED
      BY <2>2
  <2>. QED
    BY <2>3
<1>2. n \in S
  <2>. HIDE DEF S
  <2>1. \A i \in 0..n : i \in S
    BY <1>1, PositionInduction
  <2>. QED
    BY <2>1
<1>3. PICK g : \A o \in D : rank[o] <= n => g[o] = Turn(g, o)
  BY <1>2
<1>. DEFINE f == [o \in D |-> g[o]]
<1>4. ASSUME NEW o \in D
      PROVE  f[o] = Turn(f, o)
  <2>1. \A i \in DOMAIN deps[o] : f[deps[o][i]] = g[deps[o][i]]
    BY <1>00
  <2>2. rank[o] <= n
    OBVIOUS
  <2>3. f[o] = Turn(g, o)
    BY <1>3, <2>2
  <2>. HIDE DEF f
  <2>. QED
    BY <1>0, <2>1, <2>3
<1>5. f = [o \in D |-> Turn(f, o)]
  <2>1. f = [o \in D |-> f[o]]
    OBVIOUS
  <2>. HIDE DEF f
  <2>. QED
    BY <1>4, <2>1
<1>. QED
  BY <1>5 DEF Turn, Asks

\* Two such functions agree where what they start from agrees.
StartAlike(n, D, E, R, base, deps, base2, deps2, rank) ==
  /\ n \in Nat /\ R \subseteq D /\ R \subseteq E
  /\ \A o \in R : /\ base[o] = base2[o] /\ deps[o] = deps2[o] /\ deps[o] \in Seq(R)
                  /\ rank[o] \in 0..n
                  /\ \A i \in DOMAIN deps[o] : rank[deps[o][i]] < rank[o]
LEMMA AskingAgrees ==
  ASSUME NEW n, NEW D, NEW E, NEW R, NEW base, NEW deps, NEW base2, NEW deps2, NEW rank,
         NEW others, NEW f, NEW g,
         StartAlike(n, D, E, R, base, deps, base2, deps2, rank),
         Asks(D, base, deps, others, f), Asks(E, base2, deps2, others, g)
  PROVE  \A o \in R : f[o] = g[o]
<1>0. /\ n \in Nat /\ R \subseteq D /\ R \subseteq E
      /\ \A o \in R : /\ base[o] = base2[o] /\ deps[o] = deps2[o] /\ deps[o] \in Seq(R)
                      /\ rank[o] \in 0..n
                      /\ \A i \in DOMAIN deps[o] : rank[deps[o][i]] < rank[o]
  BY DEF StartAlike
<1>. DEFINE S == {k \in 0..n : \A o \in R : rank[o] = k => f[o] = g[o]}
<1>1. ASSUME NEW k \in 0..n, \A j \in 0..n : j < k => j \in S
      PROVE  k \in S
  <2>. SUFFICES ASSUME NEW o \in R, rank[o] = k PROVE f[o] = g[o]
    OBVIOUS
  <2>1. ASSUME NEW i \in DOMAIN deps[o]
        PROVE  f[deps[o][i]] = g[deps[o][i]]
    <3>1. deps[o] \in Seq(R)
      BY <1>0
    <3>2. deps[o][i] \in R
      BY <3>1
    <3>3. rank[deps[o][i]] \in 0..n /\ rank[deps[o][i]] < k
      BY <1>0, <3>2
    <3>4. rank[deps[o][i]] \in S
      BY <1>1, <3>3
    <3>. QED
      BY <3>2, <3>4
  <2>2. Asking(deps[o], others, f) = Asking(deps[o], others, g)
    <3>1. PICK d : d = deps[o]
      OBVIOUS
    <3>2. d \in Seq(R)
      BY <1>0, <3>1
    <3>3. \A i \in DOMAIN d : f[d[i]] = g[d[i]]
      BY <2>1, <3>1
    <3>4. Asking(d, others, f) = Asking(d, others, g)
      BY ONLY <3>2, <3>3, AskingTheSame
    <3>. QED
      BY <3>1, <3>4
  <2>3. f[o] = OwnOrAsked(base, deps, others, f, o) /\ g[o] = OwnOrAsked(base2, deps2, others, g, o)
    BY <1>0 DEF Asks
  <2>4. base[o] = base2[o] /\ deps[o] = deps2[o]
    BY <1>0
  <2>. QED
    BY <2>2, <2>3, <2>4 DEF OwnOrAsked
<1>2. \A k \in 0..n : k \in S
  <2>. HIDE DEF S
  <2>. QED
    BY <1>0, <1>1, PositionInduction
<1>. QED
  BY <1>0, <1>2
-----------------------------------------------------------------------------
(* Modules and what is in them *)

LEMMA ProgramFacts ==
  ASSUME prog \in Programs
  PROVE  /\ Len(prog.modules) \in Nat /\ DOMAIN prog.modules = 1..Len(prog.modules)
         /\ \A i \in DOMAIN prog.modules :
              /\ prog.modules[i] \in Nodes /\ Kind(prog.modules[i]) \in {"file", "module"}
              /\ prog.deps[prog.modules[i]] \in Seq({prog.modules[j] : j \in 1..i - 1})
              /\ \A n \in Nodes : Kind(n) = "module" => Parent(n) # prog.modules[i]
         /\ \A i, j \in DOMAIN prog.modules : prog.modules[i] = prog.modules[j] => i = j
         /\ \A n \in Nodes : Parent(n) # None /\ Kind(Parent(n)) = "file"
              => \E i \in DOMAIN prog.modules : prog.modules[i] \in {n, Parent(n)}
<1>1. IsProgram(prog) /\ DOMAIN prog.nodes = Nodes
  BY ProgramsAssumption, TreeFacts
<1>2. prog.modules \in Seq(Nodes)
  BY TreeFacts
<1>3. Len(prog.modules) \in Nat /\ DOMAIN prog.modules = 1..Len(prog.modules)
  BY <1>2
<1>4. \A i \in DOMAIN prog.modules :
        prog.modules[i] \in Nodes /\ Kind(prog.modules[i]) \in {"file", "module"}
  BY TreeFacts
<1>5. ASSUME NEW i \in DOMAIN prog.modules
      PROVE  /\ \A j \in 1..i - 1 : prog.modules[j] # prog.modules[i]
             /\ prog.deps[prog.modules[i]] \in Seq({prog.modules[j] : j \in 1..i - 1})
             /\ \A n \in Nodes : Kind(n) = "module" => Parent(n) # prog.modules[i]
  <2>1. \A j \in 1..i - 1 : prog.modules[j] # prog.modules[i]
    BY <1>1 DEF IsProgram
  <2>2. prog.deps[prog.modules[i]] \in Seq({prog.modules[j] : j \in 1..i - 1})
    BY <1>1 DEF IsProgram
  <2>3. \A n \in Nodes : prog.nodes[n].kind = "module" => prog.nodes[n].parent # prog.modules[i]
    BY <1>1 DEF IsProgram
  <2>. QED
    BY <2>1, <2>2, <2>3 DEF Kind, Parent, Node
<1>6. ASSUME NEW i \in DOMAIN prog.modules, NEW j \in DOMAIN prog.modules,
             prog.modules[i] = prog.modules[j]
      PROVE  i = j
  <2>1. i \in Nat /\ j \in Nat
    BY <1>3
  <2>2. i < j => i \in 1..j - 1
    BY <1>3, <2>1
  <2>3. j < i => j \in 1..i - 1
    BY <1>3, <2>1
  <2>4. \A k \in DOMAIN prog.modules : \A l \in 1..k - 1 : prog.modules[l] # prog.modules[k]
    BY <1>5
  <2>5. ~(i < j) /\ ~(j < i)
    BY <1>6, <2>2, <2>3, <2>4
  <2>. QED
    BY <2>1, <2>5
<1>7. \A n \in Nodes : Parent(n) # None /\ Kind(Parent(n)) = "file"
        => \E i \in DOMAIN prog.modules : prog.modules[i] \in {n, Parent(n)}
  BY <1>1 DEF IsProgram, Kind, Parent, Node
<1>. QED
  BY <1>3, <1>4, <1>5, <1>6, <1>7

LEMMA ModuleAroundDef ==
  ASSUME prog \in Programs
  PROVE  ModuleAround = [n \in Nodes |-> IF Kind(n) = "module" \/ Parent(n) = None THEN n
                                         ELSE ModuleAround[Parent(n)]]
<1>. DEFINE stops == {n \in Nodes : Kind(n) = "module" \/ Parent(n) = None}
            value == [n \in Nodes |-> n]
            up == [n \in Nodes |-> Parent(n)]
            Turn(f, n) == IF Kind(n) = "module" \/ Parent(n) = None THEN n ELSE f[Parent(n)]
<1>1. Len(prog.nodes) \in Nat /\ Nodes \in SUBSET (0..Len(prog.nodes))
  BY TreeFacts
<1>2. \A n \in Nodes : n \notin stops => up[n] \in Nodes /\ up[n] < n
  BY TreeFacts
<1>3. PICK f : f = Climb(Nodes, stops, value, up, f)
  <2>. HIDE DEF stops, value, up
  <2>. QED
    BY <1>1, <1>2, ClimbExists
<1>4. \A n \in Nodes : (IF n \in stops THEN value[n] ELSE f[up[n]]) = Turn(f, n)
  OBVIOUS
<1>5. f = [n \in Nodes |-> IF n \in stops THEN value[n] ELSE f[up[n]]]
  BY <1>3 DEF Climb
<1>6. f = [n \in Nodes |-> Turn(f, n)]
  <2>. HIDE DEF stops, value, up, Turn
  <2>. QED
    BY <1>4, <1>5
<1>7. \E g : g = [n \in Nodes |-> IF Kind(n) = "module" \/ Parent(n) = None THEN n ELSE g[Parent(n)]]
  BY <1>6
<1>. QED
  BY <1>7 DEF ModuleAround

LEMMA ModuleTurn ==
  ASSUME prog \in Programs, NEW n \in Nodes
  PROVE  /\ Kind(n) = "module" \/ Parent(n) = None => ModuleAround[n] = n
         /\ Kind(n) # "module" /\ Parent(n) # None => ModuleAround[n] = ModuleAround[Parent(n)]
<1>1. ModuleAround[n] = IF Kind(n) = "module" \/ Parent(n) = None THEN n ELSE ModuleAround[Parent(n)]
  BY ModuleAroundDef
<1>. QED
  BY <1>1

LEMMA ModuleIsAround ==
  ASSUME prog \in Programs
  PROVE  \A n \in Nodes : /\ ModuleAround[n] \in Nodes /\ ModuleAround[n] <= n
                          /\ Kind(ModuleAround[n]) = "module" \/ Parent(ModuleAround[n]) = None
<1>. DEFINE Good(n) == /\ ModuleAround[n] \in Nodes /\ ModuleAround[n] <= n
                       /\ Kind(ModuleAround[n]) = "module" \/ Parent(ModuleAround[n]) = None
            L == Len(prog.nodes)
            S == {n \in 0..L : n \in Nodes => Good(n)}
<1>0. L \in Nat /\ Nodes = 1..L
  BY TreeFacts
<1>1. ASSUME NEW n \in 0..L, \A j \in 0..L : j < n => j \in S
      PROVE  n \in S
  <2>. SUFFICES ASSUME n \in Nodes PROVE Good(n)
    OBVIOUS
  <2>1. CASE Kind(n) = "module" \/ Parent(n) = None
    <3>1. ModuleAround[n] = n /\ n <= n
      BY <2>1, ModuleTurn, TreeFacts
    <3>. QED
      BY <2>1, <3>1
  <2>2. CASE Kind(n) # "module" /\ Parent(n) # None
    <3>1. ModuleAround[n] = ModuleAround[Parent(n)] /\ Parent(n) \in Nodes /\ Parent(n) < n
      BY <2>2, ModuleTurn, TreeFacts
    <3>2. Good(Parent(n))
      BY <1>0, <1>1, <3>1
    <3>3. \A m \in Nodes : m <= Parent(n) => m <= n
      BY <1>0, <3>1
    <3>. QED
      BY <3>1, <3>2, <3>3
  <2>. QED
    BY <2>1, <2>2
<1>2. \A n \in 0..L : n \in S
  <2>. HIDE DEF S, L
  <2>. QED
    BY <1>0, <1>1, PositionInduction
<1>. QED
  BY <1>0, <1>2

LEMMA ModuleFacts ==
  ASSUME prog \in Programs, NEW n \in Nodes
  PROVE  /\ ModuleAround[n] \in Nodes /\ ModuleAround[n] <= n
         /\ ModuleAround[ModuleAround[n]] = ModuleAround[n]
         /\ Kind(n) \in {"file", "module"} => ModuleAround[n] = n
<1>1. /\ ModuleAround[n] \in Nodes /\ ModuleAround[n] <= n
      /\ Kind(ModuleAround[n]) = "module" \/ Parent(ModuleAround[n]) = None
  BY ModuleIsAround
<1>2. ModuleAround[ModuleAround[n]] = ModuleAround[n]
  BY <1>1, ModuleTurn
<1>3. Kind(n) = "file" => Parent(n) = None
  BY TreeFacts
<1>. QED
  BY <1>1, <1>2, <1>3, ModuleTurn

\* All that is in a file is in one of the modules that are analyzed.
LEMMA ModulesAreListed ==
  ASSUME prog \in Programs
  PROVE  \A n \in Nodes : Kind(n) # "file"
           => \E i \in DOMAIN prog.modules : prog.modules[i] = ModuleAround[n]
<1>. DEFINE Listed(m) == \E i \in DOMAIN prog.modules : prog.modules[i] = m
            L == Len(prog.nodes)
            S == {n \in 0..L : n \in Nodes /\ Kind(n) # "file" => Listed(ModuleAround[n])}
<1>0. L \in Nat /\ Nodes = 1..L
  BY TreeFacts
<1>1. ASSUME NEW n \in 0..L, \A j \in 0..L : j < n => j \in S
      PROVE  n \in S
  <2>. SUFFICES ASSUME n \in Nodes, Kind(n) # "file" PROVE Listed(ModuleAround[n])
    OBVIOUS
  <2>1. Parent(n) # None /\ Parent(n) \in Nodes /\ Parent(n) < n
    BY TreeFacts
  <2>2. CASE Kind(Parent(n)) = "file"
    <3>1. PICK i \in DOMAIN prog.modules : prog.modules[i] \in {n, Parent(n)}
      BY <2>1, <2>2, ProgramFacts
    <3>2. CASE Kind(n) = "module"
      <4>1. prog.modules[i] = n
        BY <3>1, <3>2, ProgramFacts
      <4>. QED
        BY <3>2, <4>1, ModuleTurn
    <3>3. CASE Kind(n) # "module"
      <4>1. prog.modules[i] = Parent(n)
        BY <3>1, <3>3, ProgramFacts
      <4>2. ModuleAround[n] = ModuleAround[Parent(n)]
        BY <2>1, <3>3, ModuleTurn
      <4>3. ModuleAround[Parent(n)] = Parent(n)
        BY <2>1, <2>2, ModuleFacts
      <4>. QED
        BY <4>1, <4>2, <4>3
    <3>. QED
      BY <3>2, <3>3
  <2>3. CASE Kind(Parent(n)) # "file"
    <3>1. Kind(n) # "module"
      BY <2>3, TreeFacts
    <3>2. ModuleAround[n] = ModuleAround[Parent(n)]
      BY <2>1, <3>1, ModuleTurn
    <3>3. Parent(n) \in S
      BY <1>0, <1>1, <2>1
    <3>. QED
      BY <2>1, <2>3, <3>2, <3>3
  <2>. QED
    BY <2>2, <2>3
<1>2. \A n \in 0..L : n \in S
  <2>. HIDE DEF S, L
  <2>. QED
    BY <1>0, <1>1, PositionInduction
<1>. QED
  BY <1>0, <1>2

\* The scope around a node is in the same module, or it is that of the file.
LEMMA ScopeIsInModule ==
  ASSUME prog \in Programs
  PROVE  \A n \in Nodes : Kind(n) # "module" /\ ScopeAround[n] # None
           => ModuleAround[ScopeAround[n]] = ModuleAround[n]
<1>. DEFINE L == Len(prog.nodes)
            S == {n \in 0..L : n \in Nodes /\ Kind(n) # "module" /\ ScopeAround[n] # None
                               => ModuleAround[ScopeAround[n]] = ModuleAround[n]}
<1>0. L \in Nat /\ Nodes = 1..L
  BY TreeFacts
<1>1. ASSUME NEW n \in 0..L, \A j \in 0..L : j < n => j \in S
      PROVE  n \in S
  <2>. SUFFICES ASSUME n \in Nodes, Kind(n) # "module", ScopeAround[n] # None
                PROVE  ModuleAround[ScopeAround[n]] = ModuleAround[n]
    OBVIOUS
  <2>1. Parent(n) # None
    BY ScopeFacts, TreeFacts
  <2>2. Parent(n) \in Nodes /\ Parent(n) < n /\ ModuleAround[n] = ModuleAround[Parent(n)]
    BY <2>1, ModuleTurn, TreeFacts
  <2>3. CASE Kind(Parent(n)) \in Owners
    BY <2>1, <2>2, <2>3, ScopeFacts
  <2>4. CASE Kind(Parent(n)) \in Borrowers /\ n # Parent(n) + 1
    <3>1. ScopeAround[n] = Parent(n) + 1
      BY <2>1, <2>4, ScopeFacts
    <3>2. /\ Parent(n) + 1 \in Nodes /\ Parent(Parent(n) + 1) = Parent(n)
          /\ Kind(Parent(n) + 1) \in {"fndecl", "typedesc"}
      BY <2>2, <2>4, TreeFacts, FirstChildren
    <3>3. ModuleAround[Parent(n) + 1] = ModuleAround[Parent(n)]
      BY <2>1, <3>2, ModuleTurn
    <3>. QED
      BY <2>2, <3>1, <3>3
  <2>5. CASE Kind(Parent(n)) \notin Owners /\ (Kind(Parent(n)) \in Borrowers => n = Parent(n) + 1)
    <3>1. ScopeAround[n] = ScopeAround[Parent(n)]
      BY <2>1, <2>5, ScopeFacts
    <3>2. Kind(Parent(n)) # "module"
      BY <2>5 DEF Owners
    <3>3. Parent(n) \in S
      BY <1>0, <1>1, <2>2
    <3>. QED
      BY <2>2, <3>1, <3>2, <3>3
  <2>. QED
    BY <2>3, <2>4, <2>5
<1>2. \A n \in 0..L : n \in S
  <2>. HIDE DEF S, L
  <2>. QED
    BY <1>0, <1>1, PositionInduction
<1>. QED
  BY <1>0, <1>2

\* A declaration stands behind the beginning of the scope it is in, in the same
\* module; only modules are declared outside of themselves, in their file.
LEMMA DeclarationFacts ==
  ASSUME prog \in Programs, NEW n \in Nodes, NEW o \in Nodes, DeclaredIn(n, o)
  PROVE  /\ o < n
         /\ Kind(n) # "module" => ModuleAround[o] = ModuleAround[n]
         /\ Kind(n) = "module" => o = Parent(n) /\ Kind(o) = "file"
         /\ Kind(n) \in {"module", "fndecl", "typedecl", "leaf"}
<1>0. o # None /\ o \in Nat /\ n \in Nat
  BY TreeFacts DEF None
<1>1. CASE ScopeAround[n] = o
  <2>1. o < n
    <3>1. ScopeAround[n] \in 0..n - 1
      BY ScopeFacts
    <3>. QED
      BY <1>0, <1>1, <3>1
  <2>2. Kind(n) # "module" => ModuleAround[o] = ModuleAround[n]
    BY <1>0, <1>1, ScopeIsInModule
  <2>3. Kind(n) = "module" => o = Parent(n) /\ Kind(o) = "file"
    <3>1. Kind(n) = "module" => Parent(n) # None /\ Kind(Parent(n)) = "file"
      BY TreeFacts
    <3>. QED
      BY <1>1, <3>1, ScopeFacts DEF Owners
  <2>. QED
    BY <2>1, <2>2, <2>3 DEF DeclaredIn
<1>2. CASE ScopeAround[n] # o
  <2>1. IsArgument(n) /\ Parent(Parent(n)) = o
    BY <1>2 DEF DeclaredIn
  <2>2. /\ Kind(n) = "leaf" /\ Kind(Parent(n)) = "typedesc" /\ Kind(o) = "fndecl"
    BY <2>1 DEF IsArgument
  <2>3. /\ Parent(n) # None /\ Parent(n) \in Nodes /\ Parent(n) < n
        /\ Parent(Parent(n)) # None /\ Parent(Parent(n)) < Parent(n)
    BY <2>2, TreeFacts
  <2>4. ModuleAround[n] = ModuleAround[Parent(n)] /\ ModuleAround[Parent(n)] = ModuleAround[o]
    BY <2>1, <2>2, <2>3, ModuleTurn
  <2>5. o < n
    <3>1. Parent(n) \in Nat
      BY <2>3, TreeFacts
    <3>. QED
      BY <1>0, <2>1, <2>3, <3>1
  <2>. QED
    BY <2>2, <2>4, <2>5
<1>. QED
  BY <1>1, <1>2
-----------------------------------------------------------------------------
(* What a lookup finds *)

\* The imports of a module stand before it.
RankOf(n) == IF Kind(n) = "file" THEN 0
             ELSE CHOOSE i \in DOMAIN prog.modules : prog.modules[i] = ModuleAround[n]
ImportsOf(n) == IF Kind(n) = "file" THEN <<>> ELSE prog.deps[ModuleAround[n]]
LEMMA ImportFacts ==
  ASSUME prog \in Programs, NEW n \in Nodes
  PROVE  /\ RankOf(n) \in 0..Len(prog.modules)
         /\ ImportsOf(n) \in Seq(Nodes)
         /\ \A i \in DOMAIN ImportsOf(n) :
              /\ ImportsOf(n)[i] \in Nodes /\ Kind(ImportsOf(n)[i]) \in {"file", "module"}
              /\ RankOf(ImportsOf(n)[i]) < RankOf(n)
              /\ \E j, k \in DOMAIN prog.modules :
                   j < k /\ prog.modules[j] = ImportsOf(n)[i] /\ prog.modules[k] = ModuleAround[n]
<1>0. Len(prog.modules) \in Nat /\ DOMAIN prog.modules = 1..Len(prog.modules)
  BY ProgramFacts
<1>1. CASE Kind(n) = "file"
  <2>1. RankOf(n) = 0 /\ ImportsOf(n) = <<>>
    BY <1>1 DEF RankOf, ImportsOf
  <2>2. ImportsOf(n) \in Seq(Nodes) /\ \A i \in DOMAIN ImportsOf(n) : FALSE
    BY <2>1
  <2>3. 0 \in 0..Len(prog.modules)
    BY <1>0
  <2>. QED
    BY <2>1, <2>2, <2>3
<1>2. CASE Kind(n) # "file"
  <2>. DEFINE r == RankOf(n)
  <2>1. r \in DOMAIN prog.modules /\ prog.modules[r] = ModuleAround[n]
    <3>1. \E i \in DOMAIN prog.modules : prog.modules[i] = ModuleAround[n]
      BY <1>2, ModulesAreListed
    <3>2. r = CHOOSE i \in DOMAIN prog.modules : prog.modules[i] = ModuleAround[n]
      BY <1>2 DEF RankOf
    <3>. HIDE DEF r
    <3>. QED
      BY <3>1, <3>2
  <2>. DEFINE Ahead == {prog.modules[j] : j \in 1..r - 1}
  <2>2. PICK deps : deps = ImportsOf(n)
    OBVIOUS
  <2>3. deps \in Seq(Ahead)
    <3>1. deps = prog.deps[prog.modules[r]]
      BY <1>2, <2>1, <2>2 DEF ImportsOf
    <3>2. \A i \in DOMAIN prog.modules :
            prog.deps[prog.modules[i]] \in Seq({prog.modules[j] : j \in 1..i - 1})
      BY ProgramFacts
    <3>. HIDE DEF r
    <3>. QED
      BY <2>1, <3>1, <3>2
  <2>. HIDE DEF r
  <2>4. \A j \in 1..r - 1 : j \in DOMAIN prog.modules /\ j < r /\ j \in Nat
    BY <1>0, <2>1
  <2>5. Ahead \subseteq Nodes
    <3>1. \A j \in DOMAIN prog.modules : prog.modules[j] \in Nodes
      BY ProgramFacts
    <3>. QED
      BY <2>4, <3>1
  <2>6. deps \in Seq(Nodes)
    <3>. HIDE DEF Ahead
    <3>. QED
      BY <2>3, <2>5
  <2>7. ASSUME NEW i \in DOMAIN deps
        PROVE  /\ deps[i] \in Nodes /\ Kind(deps[i]) \in {"file", "module"}
               /\ RankOf(deps[i]) < r
               /\ \E j, k \in DOMAIN prog.modules :
                    j < k /\ prog.modules[j] = deps[i] /\ prog.modules[k] = ModuleAround[n]
    <3>1. deps[i] \in Ahead
      <4>. HIDE DEF Ahead
      <4>. QED
        BY <2>3
    <3>2. PICK j \in 1..r - 1 : deps[i] = prog.modules[j]
      BY <3>1
    <3>3. deps[i] \in Nodes /\ Kind(deps[i]) \in {"file", "module"}
      BY <2>4, <3>2, ProgramFacts
    <3>4. RankOf(deps[i]) < r
      <4>1. CASE Kind(deps[i]) = "file"
        <5>1. RankOf(deps[i]) = 0 /\ r \in 1..Len(prog.modules)
          BY <1>0, <2>1, <4>1 DEF RankOf
        <5>. QED
          BY <1>0, <5>1
      <4>2. CASE Kind(deps[i]) # "file"
        <5>1. ModuleAround[deps[i]] = prog.modules[j]
          BY <3>2, <3>3, <4>2, ModuleFacts
        <5>2. RankOf(deps[i]) = CHOOSE k \in DOMAIN prog.modules : prog.modules[k] = prog.modules[j]
          BY <4>2, <5>1 DEF RankOf
        <5>3. PICK k : k = CHOOSE l \in DOMAIN prog.modules : prog.modules[l] = prog.modules[j]
          OBVIOUS
        <5>4. k \in DOMAIN prog.modules /\ prog.modules[k] = prog.modules[j]
          BY <2>4, <5>3
        <5>5. k = j
          BY <2>4, <5>4, ProgramFacts
        <5>. QED
          BY <2>4, <5>2, <5>3, <5>5
      <4>. QED
        BY <4>1, <4>2
    <3>. QED
      BY <2>1, <2>4, <3>2, <3>3, <3>4
  <2>8. RankOf(n) \in 0..Len(prog.modules)
    BY <1>0, <2>1 DEF r
  <2>. QED
    BY <2>2, <2>6, <2>7, <2>8 DEF r
<1>. QED
  BY <1>1, <1>2

\* Tables that form trees, as all tables do at all times.
AreTrees(tabs) ==
  /\ DOMAIN tabs \subseteq Nodes
  /\ \A n \in Nodes : Kind(n) \in {"file", "module"} => n \in DOMAIN tabs
  /\ \A o \in DOMAIN tabs :
       /\ tabs[o].outer # None => tabs[o].outer \in DOMAIN tabs /\ tabs[o].outer < o
       /\ tabs[o].mod = IF Kind(o) = "file" THEN None ELSE ModuleAround[o]

\* The steps of a lookup of a name: the first table that has it on the way out,
\* or else the first import that offers it.
Others(id) == {d \in Nodes : id # Node(d).name}
HasIt(tabs, id) == {o \in DOMAIN tabs : id \in DOMAIN tabs[o].records}
IsChain(tabs, id, c) ==
  c = [o \in DOMAIN tabs |-> IF o \in HasIt(tabs, id) THEN o
                             ELSE IF tabs[o].outer = None THEN None ELSE c[tabs[o].outer]]
ImportLists(D) == [o \in D |-> ImportsOf(o)]
IsLookup(D, id, base, f) ==
  Asks(D, base, ImportLists(D), Others(id), f)

LEMMA LookupDef ==
  ASSUME prog \in Programs, NEW tabs, AreTrees(tabs), NEW t, NEW id
  PROVE  \E c, f : IsChain(tabs, id, c) /\ IsLookup(DOMAIN tabs, id, c, f) /\ Lookup(tabs, t, id) = f[t]
<1>. DEFINE D == DOMAIN tabs
            ChainTurn(c, o) == IF id \in DOMAIN tabs[o].records \/ tabs[o].outer = None
                               THEN IF id \in DOMAIN tabs[o].records THEN o ELSE None
                               ELSE c[tabs[o].outer]
            FromTurn(c, f, o) ==
              IF c[o] # None \/ tabs[o].mod = None THEN c[o]
              ELSE LET deps == prog.deps[tabs[o].mod]
                       with == {i \in DOMAIN deps : f[deps[i]] # None /\ id # Node(deps[i]).name}
                   IN IF with = {} THEN None ELSE f[deps[Min(with)]]
            C == CHOOSE c : c = [o \in DOMAIN tabs |-> ChainTurn(c, o)]
            F == CHOOSE f : f = [o \in DOMAIN tabs |-> FromTurn(C, f, o)]
<1>1. Lookup(tabs, t, id) = F[t]
  BY DEF Lookup
<1>2. Len(prog.nodes) \in Nat /\ D \in SUBSET (0..Len(prog.nodes)) /\ D \subseteq Nodes
  BY TreeFacts DEF AreTrees
<1>3. \E c : c = [o \in D |-> ChainTurn(c, o)]
  <2>. DEFINE stops == {o \in D : id \in DOMAIN tabs[o].records \/ tabs[o].outer = None}
              value == [o \in D |-> IF id \in DOMAIN tabs[o].records THEN o ELSE None]
              up == [o \in D |-> tabs[o].outer]
  <2>1. \A o \in D : o \notin stops => up[o] \in D /\ up[o] < o
    BY DEF AreTrees
  <2>2. PICK c : c = Climb(D, stops, value, up, c)
    <3>. HIDE DEF stops, value, up, D
    <3>. QED
      BY <1>2, <2>1, ClimbExists
  <2>3. \A o \in D : (IF o \in stops THEN value[o] ELSE c[up[o]]) = ChainTurn(c, o)
    OBVIOUS
  <2>4. c = [o \in D |-> IF o \in stops THEN value[o] ELSE c[up[o]]]
    BY <2>2 DEF Climb
  <2>5. c = [o \in D |-> ChainTurn(c, o)]
    <3>. HIDE DEF stops, value, up, ChainTurn, D
    <3>. QED
      BY <2>3, <2>4
  <2>. QED
    BY <2>5
<1>4. C = [o \in D |-> ChainTurn(C, o)]
  <2>. HIDE DEF ChainTurn
  <2>. QED
    BY <1>3
<1>5. IsChain(tabs, id, C)
  <2>. HIDE DEF C
  <2>1. \A o \in D : ChainTurn(C, o) = IF o \in HasIt(tabs, id) THEN o
                                       ELSE IF tabs[o].outer = None THEN None ELSE C[tabs[o].outer]
    BY DEF HasIt
  <2>. HIDE DEF ChainTurn
  <2>. QED
    BY <1>4, <2>1 DEF IsChain
<1>. HIDE DEF C
<1>6. PICK f : IsLookup(D, id, C, f)
  <2>. DEFINE rank == [o \in D |-> RankOf(o)]
              deps == ImportLists(D)
  <2>1. ASSUME NEW o \in D
        PROVE  /\ rank[o] \in 0..Len(prog.modules) /\ deps[o] \in Seq(D)
               /\ \A i \in DOMAIN deps[o] : rank[deps[o][i]] < rank[o]
    <3>1. o \in Nodes
      BY <1>2
    <3>2. PICK d : d = ImportsOf(o)
      OBVIOUS
    <3>3. d \in Seq(Nodes) /\ \A i \in DOMAIN d : d[i] \in Nodes /\ Kind(d[i]) \in {"file", "module"}
                                                  /\ RankOf(d[i]) < RankOf(o)
      BY <3>1, <3>2, ImportFacts
    <3>4. \A i \in DOMAIN d : d[i] \in D
      BY <3>3 DEF AreTrees
    <3>5. d \in Seq(D)
      BY <3>3, <3>4
    <3>6. deps[o] = d
      BY <3>2 DEF ImportLists
    <3>7. \A i \in DOMAIN d : rank[d[i]] < rank[o]
      BY <3>3, <3>4
    <3>8. rank[o] \in 0..Len(prog.modules)
      BY <3>1, ImportFacts
    <3>. HIDE DEF rank, deps
    <3>. QED
      BY <3>5, <3>6, <3>7, <3>8
  <2>2. Len(prog.modules) \in Nat
    BY ProgramFacts
  <2>3. \E f : Asks(D, C, deps, Others(id), f)
    <3>. HIDE DEF rank, deps, D
    <3>. QED
      BY <2>1, <2>2, AskingExists
  <2>. QED
    BY <2>3 DEF IsLookup
<1>7. ASSUME NEW g, NEW o \in D
      PROVE  FromTurn(C, g, o) = OwnOrAsked(C, ImportLists(D), Others(id), g, o)
  <2>1. o \in Nodes /\ ImportLists(D)[o] = ImportsOf(o)
    BY <1>2 DEF ImportLists
  <2>2. tabs[o].mod = IF Kind(o) = "file" THEN None ELSE ModuleAround[o]
    BY DEF AreTrees
  <2>3. CASE Kind(o) = "file"
    <3>1. ImportsOf(o) = <<>> /\ tabs[o].mod = None
      BY <2>2, <2>3 DEF ImportsOf
    <3>2. Asking(<<>>, Others(id), g) = None
      BY DEF Asking, Offering
    <3>. QED
      BY <2>1, <3>1, <3>2 DEF OwnOrAsked
  <2>4. CASE Kind(o) # "file"
    <3>1. tabs[o].mod = ModuleAround[o] /\ tabs[o].mod # None
      BY <2>1, <2>2, <2>4, ModuleFacts, TreeFacts DEF None
    <3>2. PICK d : d = prog.deps[tabs[o].mod]
      OBVIOUS
    <3>3. d = ImportsOf(o)
      BY <2>4, <3>1, <3>2 DEF ImportsOf
    <3>4. \A i \in DOMAIN d : d[i] \in Nodes
      BY <2>1, <3>3, ImportFacts
    <3>5. {i \in DOMAIN d : g[d[i]] # None /\ id # Node(d[i]).name} = Offering(d, Others(id), g)
      BY <3>4 DEF Offering, Others
    <3>6. FromTurn(C, g, o) = IF C[o] # None THEN C[o] ELSE Asking(d, Others(id), g)
      BY <3>1, <3>2, <3>5 DEF Asking
    <3>. QED
      BY <2>1, <3>3, <3>6 DEF OwnOrAsked
  <2>. QED
    BY <2>3, <2>4
<1>8. f = [o \in D |-> FromTurn(C, f, o)]
  <2>. HIDE DEF FromTurn
  <2>. QED
    BY <1>6, <1>7 DEF IsLookup, Asks
<1>9. F = [o \in D |-> FromTurn(C, F, o)]
  <2>. HIDE DEF FromTurn
  <2>. QED
    BY <1>8
<1>10. IsLookup(D, id, C, F)
  <2>. HIDE DEF F
  <2>. DEFINE turn(o) == FromTurn(C, F, o)
  <2>1. \A o \in D : FromTurn(C, F, o) = OwnOrAsked(C, ImportLists(D), Others(id), F, o)
    BY <1>7
  <2>. HIDE DEF FromTurn
  <2>. QED
    BY <1>9, <2>1 DEF IsLookup, Asks
<1>. QED
  <2>. HIDE DEF F
  <2>. QED
    BY <1>1, <1>5, <1>10

\* The same steps in the tree.
IsWayOut(id, when, c) ==
  c = [s \in Nodes |-> IF Declarations(s, id, when) # {} THEN s
                       ELSE IF ScopeAround[s] = None THEN None ELSE c[ScopeAround[s]]]
LEMMA ScopeOfDef ==
  ASSUME prog \in Programs, NEW id, NEW when
  PROVE  \E c, f : /\ IsWayOut(id, when, c) /\ IsLookup(Nodes, id, c, f)
                  /\ \A t : ScopeOf(t, id, when) = f[t]
<1>. DEFINE OutTurn(c, s) == IF Declarations(s, id, when) # {} THEN s
                             ELSE IF ScopeAround[s] = None THEN None ELSE c[ScopeAround[s]]
            FromTurn(c, f, s) ==
              IF c[s] # None THEN c[s]
              ELSE LET deps == Imports(s)
                       with == {i \in DOMAIN deps : f[deps[i]] # None /\ id # Node(deps[i]).name}
                   IN IF with = {} THEN None ELSE f[deps[Min(with)]]
            C == CHOOSE c : c = [s \in Nodes |-> OutTurn(c, s)]
            F == CHOOSE f : f = [s \in Nodes |-> FromTurn(C, f, s)]
<1>1. \A t : ScopeOf(t, id, when) = F[t]
  BY DEF ScopeOf, WayOut, ScopeOrImport
<1>2. Len(prog.nodes) \in Nat /\ Nodes \in SUBSET (0..Len(prog.nodes))
  BY TreeFacts
<1>3. \E c : c = [s \in Nodes |-> OutTurn(c, s)]
  <2>. DEFINE stops == {s \in Nodes : Declarations(s, id, when) # {} \/ ScopeAround[s] = None}
              value == [s \in Nodes |-> IF Declarations(s, id, when) # {} THEN s ELSE None]
              up == [s \in Nodes |-> ScopeAround[s]]
  <2>1. ASSUME NEW s \in Nodes, s \notin stops
        PROVE  up[s] \in Nodes /\ up[s] < s
    <3>1. ScopeAround[s] # None
      BY <2>1
    <3>2. ScopeAround[s] \in Nodes /\ ScopeAround[s] \in 0..s - 1 /\ s \in Nat
      BY <3>1, ScopeFacts, TreeFacts
    <3>. QED
      BY <3>2
  <2>2. PICK c : c = Climb(Nodes, stops, value, up, c)
    <3>. HIDE DEF stops, value, up
    <3>. QED
      BY <1>2, <2>1, ClimbExists
  <2>3. \A s \in Nodes : (IF s \in stops THEN value[s] ELSE c[up[s]]) = OutTurn(c, s)
    OBVIOUS
  <2>4. c = [s \in Nodes |-> IF s \in stops THEN value[s] ELSE c[up[s]]]
    BY <2>2 DEF Climb
  <2>5. c = [s \in Nodes |-> OutTurn(c, s)]
    <3>. HIDE DEF stops, value, up, OutTurn
    <3>. QED
      BY <2>3, <2>4
  <2>. QED
    BY <2>5
<1>4. C = [s \in Nodes |-> OutTurn(C, s)]
  <2>. HIDE DEF OutTurn
  <2>. QED
    BY <1>3
<1>5. IsWayOut(id, when, C)
  <2>. HIDE DEF C
  <2>. QED
    BY <1>4 DEF IsWayOut
<1>. HIDE DEF C
<1>6. PICK f : IsLookup(Nodes, id, C, f)
  <2>. DEFINE rank == [o \in Nodes |-> RankOf(o)]
              deps == ImportLists(Nodes)
  <2>1. ASSUME NEW o \in Nodes
        PROVE  /\ rank[o] \in 0..Len(prog.modules) /\ deps[o] \in Seq(Nodes)
               /\ \A i \in DOMAIN deps[o] : rank[deps[o][i]] < rank[o]
    <3>1. deps[o] = ImportsOf(o)
      BY DEF ImportLists
    <3>2. PICK d : d = ImportsOf(o)
      OBVIOUS
    <3>3. d \in Seq(Nodes) /\ \A i \in DOMAIN d : d[i] \in Nodes /\ RankOf(d[i]) < RankOf(o)
      BY <3>2, ImportFacts
    <3>4. rank[o] \in 0..Len(prog.modules)
      BY ImportFacts
    <3>5. \A i \in DOMAIN d : rank[d[i]] < rank[o]
      BY <3>3
    <3>. HIDE DEF rank, deps
    <3>. QED
      BY <3>1, <3>2, <3>3, <3>4, <3>5
  <2>2. Len(prog.modules) \in Nat
    BY ProgramFacts
  <2>3. \E f : Asks(Nodes, C, deps, Others(id), f)
    <3>. HIDE DEF rank, deps
    <3>. QED
      BY <2>1, <2>2, AskingExists
  <2>. QED
    BY <2>3 DEF IsLookup
<1>7. ASSUME NEW g, NEW o \in Nodes
      PROVE  FromTurn(C, g, o) = OwnOrAsked(C, ImportLists(Nodes), Others(id), g, o)
  <2>1. ImportLists(Nodes)[o] = ImportsOf(o)
    BY DEF ImportLists
  <2>2. PICK d : d = ImportsOf(o)
    OBVIOUS
  <2>3. d = Imports(o)
    BY <2>2 DEF Imports, ImportsOf
  <2>4. \A i \in DOMAIN d : d[i] \in Nodes
    BY <2>2, ImportFacts
  <2>5. {i \in DOMAIN d : g[d[i]] # None /\ id # Node(d[i]).name} = Offering(d, Others(id), g)
    BY <2>4 DEF Offering, Others
  <2>6. FromTurn(C, g, o) = IF C[o] # None THEN C[o] ELSE Asking(d, Others(id), g)
    BY <2>3, <2>5 DEF Asking
  <2>. QED
    BY <2>1, <2>2, <2>6 DEF OwnOrAsked
<1>8. f = [o \in Nodes |-> FromTurn(C, f, o)]
  <2>. HIDE DEF FromTurn
  <2>. QED
    BY <1>6, <1>7 DEF IsLookup, Asks
<1>9. F = [o \in Nodes |-> FromTurn(C, F, o)]
  <2>. HIDE DEF FromTurn
  <2>. QED
    BY <1>8
<1>10. IsLookup(Nodes, id, C, F)
  <2>. HIDE DEF F
  <2>1. \A o \in Nodes : FromTurn(C, F, o) = OwnOrAsked(C, ImportLists(Nodes), Others(id), F, o)
    BY <1>7
  <2>. HIDE DEF FromTurn
  <2>. QED
    BY <1>9, <2>1 DEF IsLookup, Asks
<1>. QED
  <2>. HIDE DEF F
  <2>. QED
    BY <1>1, <1>5, <1>10

\* Scopes in which the tables have what is declared there at a time, and which
\* lead to each other only.
HasDeclared(tabs, s, id, when) == id \in DOMAIN tabs[s].records <=> Declarations(s, id, when) # {}
Serves(tabs, R, id, when) ==
  /\ R \subseteq DOMAIN tabs
  /\ \A s \in R : /\ tabs[s].outer = ScopeAround[s]
                  /\ ScopeAround[s] # None => ScopeAround[s] \in R
                  /\ HasDeclared(tabs, s, id, when)
                  /\ ImportsOf(s) \in Seq(R)

\* There a lookup finds the innermost scope that declares the name.
LEMMA LookupFindsScope ==
  ASSUME prog \in Programs, NEW tabs, AreTrees(tabs), NEW R, NEW id, NEW when,
         Serves(tabs, R, id, when), NEW t \in R
  PROVE  Lookup(tabs, t, id) = ScopeOf(t, id, when)
<1>1. PICK c, f : IsChain(tabs, id, c) /\ IsLookup(DOMAIN tabs, id, c, f) /\ Lookup(tabs, t, id) = f[t]
  BY LookupDef
<1>2. PICK c2, g : IsWayOut(id, when, c2) /\ IsLookup(Nodes, id, c2, g) /\ ScopeOf(t, id, when) = g[t]
  BY ScopeOfDef
<1>3. R \subseteq DOMAIN tabs /\ R \subseteq Nodes
  BY DEF Serves, AreTrees
<1>. DEFINE L == Len(prog.nodes)
            S == {s \in 0..L : s \in R => c[s] = c2[s]}
<1>4. L \in Nat /\ Nodes = 1..L
  BY TreeFacts
<1>5. ASSUME NEW s \in 0..L, \A j \in 0..L : j < s => j \in S
      PROVE  s \in S
  <2>. SUFFICES ASSUME s \in R PROVE c[s] = c2[s]
    OBVIOUS
  <2>1. /\ s \in DOMAIN tabs /\ s \in Nodes
        /\ tabs[s].outer = ScopeAround[s] /\ (ScopeAround[s] # None => ScopeAround[s] \in R)
        /\ s \in HasIt(tabs, id) <=> Declarations(s, id, when) # {}
    BY <1>3 DEF Serves, HasDeclared, HasIt
  <2>2. c[s] = IF s \in HasIt(tabs, id) THEN s
               ELSE IF tabs[s].outer = None THEN None ELSE c[tabs[s].outer]
    BY <1>1, <2>1 DEF IsChain
  <2>3. c2[s] = IF Declarations(s, id, when) # {} THEN s
                ELSE IF ScopeAround[s] = None THEN None ELSE c2[ScopeAround[s]]
    BY <1>2, <2>1 DEF IsWayOut
  <2>4. ScopeAround[s] # None => c[ScopeAround[s]] = c2[ScopeAround[s]]
    <3>. SUFFICES ASSUME ScopeAround[s] # None PROVE c[ScopeAround[s]] = c2[ScopeAround[s]]
      OBVIOUS
    <3>1. ScopeAround[s] \in R /\ ScopeAround[s] \in Nodes /\ ScopeAround[s] \in 0..s - 1
      BY <1>3, <2>1, ScopeFacts
    <3>2. ScopeAround[s] \in 0..L /\ ScopeAround[s] < s
      BY <1>4, <3>1
    <3>. QED
      BY <1>5, <3>1, <3>2
  <2>. QED
    BY <2>1, <2>2, <2>3, <2>4
<1>6. \A s \in R : c[s] = c2[s]
  <2>1. \A s \in 0..L : s \in S
    <3>. HIDE DEF S, L
    <3>. QED
      BY <1>4, <1>5, PositionInduction
  <2>. QED
    BY <1>3, <1>4, <2>1
<1>. DEFINE rank == [o \in Nodes |-> RankOf(o)]
            deps == ImportLists(DOMAIN tabs)
            deps2 == ImportLists(Nodes)
<1>7. ASSUME NEW o \in R
      PROVE  /\ c[o] = c2[o] /\ deps[o] = deps2[o] /\ deps[o] \in Seq(R)
             /\ rank[o] \in 0..Len(prog.modules)
             /\ \A i \in DOMAIN deps[o] : rank[deps[o][i]] < rank[o]
  <2>1. o \in Nodes /\ o \in DOMAIN tabs
    BY <1>3
  <2>2. PICK d : d = ImportsOf(o)
    OBVIOUS
  <2>3. deps[o] = d /\ deps2[o] = d
    BY <2>1, <2>2 DEF ImportLists
  <2>4. d \in Seq(R)
    BY <2>2 DEF Serves
  <2>5. rank[o] = RankOf(o) /\ RankOf(o) \in 0..Len(prog.modules)
    BY <2>1, ImportFacts
  <2>6. \A i \in DOMAIN d : d[i] \in Nodes /\ RankOf(d[i]) < RankOf(o)
    BY <2>1, <2>2, ImportFacts
  <2>7. \A i \in DOMAIN d : rank[d[i]] < rank[o]
    BY <2>5, <2>6
  <2>. HIDE DEF rank, deps, deps2
  <2>. QED
    BY <1>6, <2>3, <2>4, <2>5, <2>7
<1>8. Len(prog.modules) \in Nat
  BY ProgramFacts
<1>9. Asks(DOMAIN tabs, c, deps, Others(id), f) /\ Asks(Nodes, c2, deps2, Others(id), g)
  BY <1>1, <1>2 DEF IsLookup
<1>10. \A o \in R : f[o] = g[o]
  <2>1. PICK D, E, dd, dd2, r, others, n :
          /\ D = DOMAIN tabs /\ E = Nodes /\ dd = deps /\ dd2 = deps2 /\ r = rank
          /\ others = Others(id) /\ n = Len(prog.modules)
    OBVIOUS
  <2>. HIDE DEF rank, deps, deps2
  <2>2. StartAlike(n, D, E, R, c, dd, c2, dd2, r)
    BY <1>3, <1>7, <1>8, <2>1 DEF StartAlike
  <2>3. Asks(D, c, dd, others, f) /\ Asks(E, c2, dd2, others, g)
    BY <1>9, <2>1
  <2>. QED
    BY ONLY <2>2, <2>3, AskingAgrees
<1>. QED
  BY <1>1, <1>2, <1>10
-----------------------------------------------------------------------------
(* Where the first pass enters a declaration *)

LEMMA LeafFacts ==
  ASSUME prog \in Programs, NEW n \in Nodes
  PROVE  /\ Kind(n) = "vardecl" => n + 1 \in Nodes /\ Parent(n + 1) = n /\ Kind(n + 1) = "leaf"
         /\ Parent(n) # None /\ Kind(Parent(n)) = "vardecl" => (Kind(n) = "leaf" <=> n = Parent(n) + 1)
         /\ Kind(n) = "typedesc" => Kind(Parent(n)) \in {"fndecl", "typedecl", "case"} /\ n = Parent(n) + 1
         /\ Kind(n) = "leaf" => Kind(Parent(n)) \in {"vardecl", "typedesc"}
         /\ Parent(n) # None /\ Kind(Parent(n)) = "typedesc" => Kind(n) \in {"leaf", "use"}
         /\ Parent(n) # None => Kind(Parent(n)) \notin {"leaf", "use"}
<1>1. IsForest(prog.nodes) /\ DOMAIN prog.nodes = Nodes
  BY ProgramsAssumption, TreeFacts DEF IsProgram
<1>2. "vardecl" \in DOMAIN FirstChild /\ FirstChild["vardecl"] = "leaf"
  BY DEF FirstChild
<1>3. Kind(n) = "vardecl" => n + 1 \in Nodes /\ Parent(n + 1) = n /\ Kind(n + 1) = "leaf"
  BY <1>1, <1>2 DEF IsForest, Parent, Kind, Node
<1>4. Parent(n) # None /\ Kind(Parent(n)) = "vardecl" => (Kind(n) = "leaf" <=> n = Parent(n) + 1)
  BY <1>1, <1>2 DEF IsForest, Parent, Kind, Node
<1>5. /\ Kind(n) = "typedesc" => Kind(Parent(n)) \in {"fndecl", "typedecl", "case"} /\ n = Parent(n) + 1
      /\ Kind(n) = "leaf" => Kind(Parent(n)) \in {"vardecl", "typedesc"}
      /\ Parent(n) # None /\ Kind(Parent(n)) = "typedesc" => Kind(n) \in {"leaf", "use"}
      /\ Parent(n) # None => Kind(Parent(n)) \notin {"leaf", "use"}
  BY <1>1 DEF IsForest, Parent, Kind, Node
<1>. QED
  BY <1>3, <1>4, <1>5

\* A type description is all that is below a declaration.
LEMMA BelowDeclarations ==
  ASSUME prog \in Programs, NEW n \in Nodes, Parent(n) # None, Kind(Parent(n)) \in {"fndecl", "typedecl"}
  PROVE  Kind(n) = "typedesc"
<1>1. IsForest(prog.nodes) /\ DOMAIN prog.nodes = Nodes
  BY ProgramsAssumption, TreeFacts DEF IsProgram
<1>. QED
  BY <1>1 DEF IsForest, Parent, Kind, Node

\* A variable's symbol is entered with the variable, an argument with the function,
\* any other leaf with its type description, everything else at itself.
LEMMA EnteredAtFacts ==
  ASSUME prog \in Programs, NEW n \in Nodes, NEW o \in Nodes, DeclaredIn(n, o)
  PROVE  /\ EnteredAt(n, o) \in Nodes /\ o <= EnteredAt(n, o) /\ EnteredAt(n, o) <= n
         /\ ModuleAround[EnteredAt(n, o)] = ModuleAround[n]
         /\ Kind(n) # "leaf" => /\ EnteredAt(n, o) = n /\ ScopeAround[n] = o
                                /\ Kind(n) \in {"module", "fndecl", "typedecl"}
         /\ Kind(n) = "leaf" /\ Kind(Parent(n)) = "vardecl"
              => /\ EnteredAt(n, o) = Parent(n) /\ n = Parent(n) + 1 /\ ScopeAround[Parent(n)] = o
                 /\ Parent(n) \in Nodes
         /\ Kind(n) = "leaf" /\ Kind(Parent(n)) # "vardecl"
              => /\ EnteredAt(n, o) = o /\ Kind(Parent(n)) = "typedesc" /\ Parent(n) \in Nodes
                 /\ \/ o = Parent(n)
                    \/ o = Parent(Parent(n)) /\ Kind(o) = "fndecl" /\ Parent(n) = o + 1
<1>0. /\ o \in Nat /\ n \in Nat /\ o < n /\ Parent(n) \in Nat /\ Parent(n) < n
      /\ Kind(n) \in {"module", "fndecl", "typedecl", "leaf"}
      /\ Kind(n) # "module" => ModuleAround[o] = ModuleAround[n]
      /\ Parent(n) # None => Parent(n) \in Nodes
  BY TreeFacts, DeclarationFacts
<1>1. CASE Kind(n) # "leaf"
  <2>1. EnteredAt(n, o) = n /\ ScopeAround[n] = o
    BY <1>0, <1>1 DEF EnteredAt, DeclaredIn
  <2>2. o <= n /\ n <= n
    BY <1>0
  <2>. QED
    BY <1>0, <1>1, <2>1, <2>2
<1>2. CASE Kind(n) = "leaf"
  <2>1. Kind(Parent(n)) \in {"vardecl", "typedesc"} /\ Parent(n) # None /\ Parent(n) \in Nodes
    BY <1>0, <1>2, LeafFacts, TreeFacts
  <2>2. CASE Kind(Parent(n)) = "vardecl"
    <3>1. EnteredAt(n, o) = Parent(n)
      BY <1>2, <2>2 DEF EnteredAt
    <3>2. ScopeAround[n] = o
      BY <1>2, <2>2 DEF DeclaredIn, IsArgument
    <3>3. ScopeAround[n] = ScopeAround[Parent(n)]
      BY <2>1, <2>2, ScopeFacts DEF Owners, Borrowers
    <3>4. n = Parent(n) + 1 /\ ModuleAround[n] = ModuleAround[Parent(n)]
      BY <1>2, <2>1, <2>2, LeafFacts, ModuleTurn
    <3>5. ScopeAround[Parent(n)] \in 0..Parent(n) - 1
      BY <2>1, ScopeFacts
    <3>6. o <= Parent(n) /\ Parent(n) <= n
      BY <1>0, <3>2, <3>3, <3>5
    <3>. QED
      BY <1>2, <2>1, <2>2, <3>1, <3>2, <3>3, <3>4, <3>6
  <2>3. CASE Kind(Parent(n)) = "typedesc"
    <3>1. EnteredAt(n, o) = o /\ o <= o /\ o <= n
      BY <1>0, <1>2, <2>3 DEF EnteredAt
    <3>2. ScopeAround[n] = Parent(n)
      BY <2>1, <2>3, ScopeFacts DEF Owners
    <3>3. o = Parent(n) \/ (IsArgument(n) /\ Parent(Parent(n)) = o)
      BY <1>2, <3>2 DEF DeclaredIn
    <3>4. Parent(n) = Parent(Parent(n)) + 1
      BY <2>1, <2>3, LeafFacts
    <3>. QED
      BY <1>0, <1>2, <2>1, <2>3, <3>1, <3>3, <3>4 DEF IsArgument
  <2>. QED
    BY <2>1, <2>2, <2>3
<1>. QED
  BY <1>1, <1>2

\* What is entered at a node.
EnteredHere(k, o) == {n \in Nodes : DeclaredIn(n, o) /\ EnteredAt(n, o) = k}
LEMMA EnteredHereFacts ==
  ASSUME prog \in Programs, NEW k \in Nodes, NEW o \in Nodes
  PROVE  /\ Kind(k) \in {"module", "typedecl"}
              => EnteredHere(k, o) = IF o = ScopeAround[k] THEN {k} ELSE {}
         /\ Kind(k) = "vardecl" => EnteredHere(k, o) = IF o = ScopeAround[k] THEN {k + 1} ELSE {}
         /\ Kind(k) = "fndecl" /\ o # k => EnteredHere(k, o) = IF o = ScopeAround[k] THEN {k} ELSE {}
         /\ Kind(k) = "fndecl" /\ o = k => EnteredHere(k, o) = Described(k)
         /\ Kind(k) = "typedesc" => EnteredHere(k, o) = IF o = k THEN Leaves(k) ELSE {}
         /\ Kind(k) \notin {"module", "typedecl", "vardecl", "fndecl", "typedesc"}
              => EnteredHere(k, o) = {}
<1>0. /\ k \in Nat /\ k # None /\ o # None /\ ScopeAround[k] \in 0..k - 1
      /\ Len(prog.nodes) \in Nat /\ Nodes = 1..Len(prog.nodes)
  BY TreeFacts, ScopeFacts DEF None
<1>1. ASSUME NEW n \in EnteredHere(k, o)
      PROVE  /\ n \in Nodes
             /\ \/ n = k /\ o = ScopeAround[k] /\ Kind(k) \in {"module", "fndecl", "typedecl"}
                \/ n = k + 1 /\ o = ScopeAround[k] /\ Kind(k) = "vardecl"
                \/ o = k /\ Kind(k) = "typedesc" /\ n \in Leaves(k)
                \/ o = k /\ Kind(k) = "fndecl" /\ n \in Described(k)
  <2>1. n \in Nodes /\ DeclaredIn(n, o) /\ EnteredAt(n, o) = k
    BY DEF EnteredHere
  <2>2. CASE Kind(n) # "leaf"
    BY <2>1, <2>2, EnteredAtFacts
  <2>3. CASE Kind(n) = "leaf" /\ Kind(Parent(n)) = "vardecl"
    BY <2>1, <2>3, EnteredAtFacts
  <2>4. CASE Kind(n) = "leaf" /\ Kind(Parent(n)) # "vardecl"
    <3>1. /\ o = k /\ Kind(Parent(n)) = "typedesc" /\ Parent(n) \in Nodes
          /\ \/ k = Parent(n)
             \/ k = Parent(Parent(n)) /\ Kind(k) = "fndecl" /\ Parent(n) = k + 1
      BY <2>1, <2>4, EnteredAtFacts
    <3>2. CASE k = Parent(n)
      <4>1. n \in Leaves(k)
        BY <1>0, <2>1, <2>4, <3>2 DEF Leaves, Parent
      <4>. QED
        BY <2>1, <3>1, <3>2, <4>1
    <3>3. CASE k = Parent(Parent(n)) /\ Kind(k) = "fndecl" /\ Parent(n) = k + 1
      <4>1. k < Len(prog.nodes)
        BY <1>0, <3>1, <3>3
      <4>2. Node(k + 1).parent = k
        BY <3>3 DEF Parent
      <4>3. Described(k) = Leaves(k + 1)
        BY <3>1, <3>3, <4>1, <4>2 DEF Described
      <4>4. n \in Leaves(k + 1)
        BY <1>0, <2>1, <2>4, <3>3 DEF Leaves, Parent
      <4>. QED
        BY <2>1, <3>1, <3>3, <4>3, <4>4
    <3>. QED
      BY <3>1, <3>2, <3>3
  <2>. QED
    BY <2>2, <2>3, <2>4
<1>2. Kind(k) \in {"module", "fndecl", "typedecl"} /\ o = ScopeAround[k] => k \in EnteredHere(k, o)
  BY DEF EnteredHere, DeclaredIn, EnteredAt
<1>3. Kind(k) = "vardecl" /\ o = ScopeAround[k] => k + 1 \in EnteredHere(k, o)
  <2>. SUFFICES ASSUME Kind(k) = "vardecl", o = ScopeAround[k] PROVE k + 1 \in EnteredHere(k, o)
    OBVIOUS
  <2>1. k + 1 \in Nodes /\ Parent(k + 1) = k /\ Kind(k + 1) = "leaf"
    BY LeafFacts
  <2>2. ScopeAround[k + 1] = ScopeAround[k]
    BY <1>0, <2>1, ScopeFacts DEF Owners, Borrowers
  <2>. QED
    BY <2>1, <2>2 DEF EnteredHere, DeclaredIn, EnteredAt
<1>4. ASSUME Kind(k) = "typedesc", o = k, NEW n \in Leaves(k)
      PROVE  n \in EnteredHere(k, o)
  <2>1. n \in Nodes /\ Parent(n) = k /\ Kind(n) = "leaf"
    BY <1>0, <1>4 DEF Leaves, Parent
  <2>2. ScopeAround[n] = k
    BY <1>0, <1>4, <2>1, ScopeFacts DEF Owners
  <2>. QED
    BY <1>4, <2>1, <2>2 DEF EnteredHere, DeclaredIn, EnteredAt
<1>5. ASSUME Kind(k) = "fndecl", o = k, NEW n \in Described(k)
      PROVE  n \in EnteredHere(k, o)
  <2>1. Kind(k + 1) = "typedesc" /\ Parent(k + 1) = k /\ n \in Leaves(k + 1)
    BY <1>5 DEF Described, Parent
  <2>2. n \in Nodes /\ Parent(n) = k + 1 /\ Kind(n) = "leaf"
    BY <1>0, <2>1 DEF Leaves, Parent
  <2>3. IsArgument(n) /\ Parent(Parent(n)) = o
    BY <1>5, <2>1, <2>2 DEF IsArgument
  <2>. QED
    BY <1>5, <2>1, <2>2, <2>3 DEF EnteredHere, DeclaredIn, EnteredAt
<1>6. o = ScopeAround[k] => o # k
  BY <1>0
<1>7. Kind(k) \in {"module", "typedecl"} => EnteredHere(k, o) = IF o = ScopeAround[k] THEN {k} ELSE {}
  BY <1>1, <1>2
<1>8. Kind(k) = "vardecl" => EnteredHere(k, o) = IF o = ScopeAround[k] THEN {k + 1} ELSE {}
  BY <1>1, <1>3
<1>9. Kind(k) = "fndecl" /\ o # k => EnteredHere(k, o) = IF o = ScopeAround[k] THEN {k} ELSE {}
  BY <1>1, <1>2
<1>10. Kind(k) = "fndecl" /\ o = k => EnteredHere(k, o) = Described(k)
  BY <1>1, <1>5, <1>6
<1>11. Kind(k) = "typedesc" => EnteredHere(k, o) = IF o = k THEN Leaves(k) ELSE {}
  BY <1>1, <1>4
<1>12. Kind(k) \notin {"module", "typedecl", "vardecl", "fndecl", "typedesc"} => EnteredHere(k, o) = {}
  BY <1>1
<1>. QED
  BY <1>7, <1>8, <1>9, <1>10, <1>11, <1>12
-----------------------------------------------------------------------------
(* What tables gain *)

NamesOf(S) == {Node(n).name : n \in S}

\* One table gains names, those that were known keep their records.
Gains(tabs, old, t, names) ==
  /\ DOMAIN tabs = DOMAIN old
  /\ \A o \in DOMAIN old : o # t => tabs[o].records = old[o].records
  /\ DOMAIN tabs[t].records = DOMAIN old[t].records \cup names
  /\ \A x \in DOMAIN old[t].records : tabs[t].records[x] = old[t].records[x]

Entry(tabs, t, id, n, type) == tabs[t].records[id] = [node |-> n, type |-> type]

LEMMA AddGains ==
  ASSUME NEW tabs, AreTables(tabs), NEW t \in DOMAIN tabs, NEW id, NEW n, NEW type,
         id \notin DOMAIN tabs[t].records
  PROVE  /\ Gains(Add(tabs, t, id, n, type), tabs, t, {id})
         /\ Entry(Add(tabs, t, id, n, type), t, id, n, type)
<1>. DEFINE R(old) == [x \in DOMAIN old \cup {id} |->
                         IF x = id THEN [node |-> n, type |-> type] ELSE old[x]]
            new == Add(tabs, t, id, n, type)
<1>1. \A o \in DOMAIN tabs :
        tabs[o] = [records |-> tabs[o].records, outer |-> tabs[o].outer,
                   fndecl |-> tabs[o].fndecl, mod |-> tabs[o].mod]
  BY Zenon DEF AreTables
<1>2. new = [tabs EXCEPT ![t].records = R(@)]
  BY DEF Add
<1>3. DOMAIN new = DOMAIN tabs /\ \A o \in DOMAIN tabs : o # t => new[o] = tabs[o]
  <2>. HIDE DEF R
  <2>. QED
    BY <1>2
<1>4. new[t].records = R(tabs[t].records)
  <2>. HIDE DEF R, new
  <2>1. new[t] = [tabs[t] EXCEPT !.records = R(@)]
    BY <1>2
  <2>. QED
    BY <1>1, <2>1
<1>5. PICK old : old = tabs[t].records
  OBVIOUS
<1>6. /\ DOMAIN R(old) = DOMAIN old \cup {id} /\ R(old)[id] = [node |-> n, type |-> type]
      /\ \A x \in DOMAIN old : x # id => R(old)[x] = old[x]
  OBVIOUS
<1>. HIDE DEF new, R
<1>7. Gains(new, tabs, t, {id})
  BY <1>3, <1>4, <1>5, <1>6 DEF Gains
<1>8. new[t].records[id] = [node |-> n, type |-> type]
  BY <1>4, <1>5, <1>6
<1>. QED
  BY <1>7, <1>8 DEF new, Entry

\* The leaves can be added if each can where it is.
CanAddUpto(t, st, leaves, after, e) ==
  \A n \in 1..e : n \in leaves => CanAddLeaf(after[n - 1], t, st, n)
LEMMA LeavesOk ==
  ASSUME prog \in Programs, NEW tabs, NEW t, NEW st, NEW leaves
  PROVE  LET after == AfterLeaves(tabs, t, st, leaves)
             added == LeavesAdded(tabs, t, st, leaves)
         IN /\ added.ok <=> CanAddUpto(t, st, leaves, after, Len(prog.nodes))
            /\ added.ok => added.tables = after[Len(prog.nodes)]
<1>. DEFINE L == Len(prog.nodes)
            after == AfterLeaves(tabs, t, st, leaves)
            Can(n) == n \in leaves => CanAddLeaf(after[n - 1], t, st, n)
            F == CHOOSE f : f = [n \in 0..L |-> n > 0 => f[n - 1] /\ Can(n)]
<1>0. L \in Nat
  BY TreeFacts
<1>1. \E f : f = [n \in 0..L |-> n > 0 => f[n - 1] /\ Can(n)]
  <2>. DEFINE f == [n \in 0..L |-> \A k \in 1..n : Can(k)]
  <2>. HIDE DEF Can
  <2>1. ASSUME NEW n \in 0..L
        PROVE  f[n] = (n > 0 => f[n - 1] /\ Can(n))
    <3>1. CASE n = 0
      <4>1. 1..n = {}
        BY <3>1
      <4>2. f[n] = \A k \in 1..n : Can(k)
        BY Zenon
      <4>. HIDE DEF f
      <4>3. ~(n > 0)
        BY <3>1
      <4>. QED
        BY <4>1, <4>2, <4>3
    <3>2. CASE n # 0
      <4>1. n > 0 /\ n - 1 \in 0..L /\ 1..n = (1..n - 1) \cup {n}
        BY <3>2, <1>0
      <4>2. f[n] = \A k \in 1..n : Can(k)
        BY Zenon
      <4>3. f[n - 1] = \A k \in 1..n - 1 : Can(k)
        BY <4>1
      <4>. HIDE DEF f
      <4>. QED
        BY <4>1, <4>2, <4>3
    <3>. QED
      BY <3>1, <3>2
  <2>2. f = [n \in 0..L |-> f[n]]
    OBVIOUS
  <2>. HIDE DEF f
  <2>3. f = [n \in 0..L |-> n > 0 => f[n - 1] /\ Can(n)]
    BY <2>1, <2>2
  <2>. QED
    BY <2>3
<1>2. F = [n \in 0..L |-> n > 0 => F[n - 1] /\ Can(n)]
  <2>. HIDE DEF Can
  <2>. QED
    BY <1>1
<1>3. /\ LeavesAdded(tabs, t, st, leaves).ok = F[L]
      /\ LeavesAdded(tabs, t, st, leaves).tables = IF F[L] THEN after[L] ELSE tabs
  BY DEF LeavesAdded
<1>. HIDE DEF F, Can
<1>4. ASSUME NEW n \in 1..L, F[n]
      PROVE  F[n - 1] /\ Can(n)
  <2>1. n \in 0..L /\ n > 0
    OBVIOUS
  <2>2. F[n] = (n > 0 => F[n - 1] /\ Can(n))
    BY <1>2, <2>1
  <2>. QED
    BY <1>4, <2>1, <2>2
<1>. DEFINE S == {i \in 0..L : F[i] <=> \A n \in 1..i : Can(n)}
<1>4a. ASSUME NEW n \in 1..L, F[n - 1], Can(n)
       PROVE  F[n]
  <2>1. n \in 0..L /\ n > 0
    OBVIOUS
  <2>2. F[n] = (n > 0 => F[n - 1] /\ Can(n))
    BY <1>2, <2>1
  <2>. QED
    BY <1>4a, <2>1, <2>2
<1>4b. F[0]
  <2>1. 0 \in 0..L /\ ~(0 > 0)
    BY <1>0
  <2>2. F[0] = (0 > 0 => F[0 - 1] /\ Can(0))
    BY <1>2, <2>1
  <2>. QED
    BY <2>1, <2>2
<1>5. ASSUME NEW i \in 0..L, \A j \in 0..L : j < i => j \in S
      PROVE  i \in S
  <2>1. CASE i = 0
    BY <1>4b, <2>1
  <2>2. CASE i # 0
    <3>1. i - 1 \in 0..L /\ i - 1 < i /\ i \in 1..L /\ 1..i = (1..i - 1) \cup {i}
      BY <1>0, <2>2
    <3>2. F[i - 1] <=> \A n \in 1..i - 1 : Can(n)
      BY <1>5, <3>1
    <3>3. F[i] <=> F[i - 1] /\ Can(i)
      BY <1>4, <1>4a, <3>1
    <3>. QED
      BY <3>1, <3>2, <3>3
  <2>. QED
    BY <2>1, <2>2
<1>6. \A i \in 0..L : i \in S
  <2>. HIDE DEF S, L
  <2>. QED
    BY <1>0, <1>5, PositionInduction
<1>7. F[L] <=> \A n \in 1..L : Can(n)
  BY <1>0, <1>6
<1>. QED
  BY <1>3, <1>7 DEF Can, CanAddUpto

\* Then the table gains their names, one after the other.
LeavesUpto(leaves, m) == {n \in leaves : n <= m}
GainedUpto(tabs, t, leaves, after, m) ==
  /\ AreTables(after[m]) /\ SameLinks(after[m], tabs)
  /\ Gains(after[m], tabs, t, NamesOf(LeavesUpto(leaves, m)))
  /\ \A n \in leaves : n <= m => after[m][t].records[Node(n).name] = after[n][t].records[Node(n).name]
LEMMA LeavesGainUpto ==
  ASSUME prog \in Programs, NEW tabs, AreTables(tabs), NEW t \in DOMAIN tabs, NEW st,
         NEW leaves \in SUBSET Nodes, NEW after, after = AfterLeaves(tabs, t, st, leaves),
         NEW e \in 0..Len(prog.nodes), CanAddUpto(t, st, leaves, after, e)
  PROVE  /\ after[0] = tabs
         /\ \A m \in 0..e : GainedUpto(tabs, t, leaves, after, m)
         /\ \A n \in leaves : after[n] = AddLeaf(after[n - 1], t, st, n)
<1>. DEFINE L == Len(prog.nodes)
<1>0. L \in Nat /\ Nodes = 1..L
  BY TreeFacts
<1>1. \A n \in 0..L :
        after[n] = IF n = 0 THEN tabs
                   ELSE IF n \in leaves THEN AddLeaf(after[n - 1], t, st, n) ELSE after[n - 1]
  <2>1. after = [n \in 0..L |->
                   IF n = 0 THEN tabs
                   ELSE IF n \in leaves THEN AddLeaf(after[n - 1], t, st, n) ELSE after[n - 1]]
    BY AfterLeavesDef
  <2>. HIDE DEF L
  <2>. QED
    BY <2>1
<1>2. \A n \in 1..e : n \in leaves => CanAddLeaf(after[n - 1], t, st, n)
  BY DEF CanAddUpto
<1>3. after[0] = tabs
  BY <1>0, <1>1
<1>4. \A n \in leaves : after[n] = AddLeaf(after[n - 1], t, st, n)
  <2>1. \A n \in leaves : n \in 0..L /\ n # 0
    BY <1>0
  <2>. QED
    BY <1>1, <2>1
<1>. DEFINE S == {m \in 0..e : GainedUpto(tabs, t, leaves, after, m)}
<1>5. ASSUME NEW m \in 0..e, \A j \in 0..e : j < m => j \in S
      PROVE  m \in S
  <2>0. m \in 0..L /\ e \in Nat
    BY <1>0
  <2>1. CASE m = 0
    <3>0. \A n \in 1..L : ~(n <= m)
      BY <2>1
    <3>1. LeavesUpto(leaves, m) = {} /\ \A n \in leaves : ~(n <= m)
      BY <1>0, <3>0 DEF LeavesUpto
    <3>2. NamesOf(LeavesUpto(leaves, m)) = {}
      BY <3>1 DEF NamesOf
    <3>3. Gains(tabs, tabs, t, {}) /\ SameLinks(tabs, tabs)
      BY DEF Gains, SameLinks
    <3>4. after[m] = tabs
      BY <1>3, <2>1
    <3>5. GainedUpto(tabs, t, leaves, after, m)
      BY <3>1, <3>2, <3>3, <3>4 DEF GainedUpto
    <3>. QED
      BY <3>5
  <2>2. CASE m # 0 /\ m \notin leaves
    <3>1. m - 1 \in 0..e /\ m - 1 < m
      BY <2>0, <2>2
    <3>2. GainedUpto(tabs, t, leaves, after, m - 1)
      BY <1>5, <3>1
    <3>3. after[m] = after[m - 1]
      BY <1>1, <2>0, <2>2
    <3>4. \A n \in leaves : n <= m <=> n <= m - 1
      BY <1>0, <2>0, <2>2
    <3>5. LeavesUpto(leaves, m) = LeavesUpto(leaves, m - 1)
      BY <3>4 DEF LeavesUpto
    <3>6. GainedUpto(tabs, t, leaves, after, m)
      BY <3>2, <3>3, <3>4, <3>5 DEF GainedUpto
    <3>. QED
      BY <3>6
  <2>3. CASE m # 0 /\ m \in leaves
    <3>1. m - 1 \in 0..e /\ m - 1 < m
      BY <2>0, <2>3
    <3>2. GainedUpto(tabs, t, leaves, after, m - 1)
      BY <1>5, <3>1
    <3>3. PICK old, type, node, id :
            /\ old = after[m - 1] /\ id = Node(m).name
            /\ after[m] = Add(old, t, id, node, type)
      <4>1. after[m] = AddLeaf(after[m - 1], t, st, m)
        BY <1>4, <2>3
      <4>. QED
        BY <4>1 DEF AddLeaf
    <3>4. AreTables(old) /\ t \in DOMAIN old /\ id \notin DOMAIN old[t].records
      <4>1. AreTables(old) /\ t \in DOMAIN old
        BY <3>2, <3>3 DEF GainedUpto, SameLinks
      <4>2. m \in 1..e
        BY <2>0, <2>3
      <4>. QED
        BY <1>2, <2>3, <3>3, <4>1, <4>2 DEF CanAddLeaf
    <3>5. /\ Gains(after[m], old, t, {id}) /\ AreTables(after[m]) /\ SameLinks(after[m], old)
      <4>1. Gains(Add(old, t, id, node, type), old, t, {id})
        BY ONLY <3>4, AddGains
      <4>2. /\ AreTables(Add(old, t, id, node, type))
            /\ SameLinks(Add(old, t, id, node, type), old)
        BY ONLY <3>4, AddKeepsLinks
      <4>. QED
        BY <3>3, <4>1, <4>2
    <3>6. \A n \in leaves : n <= m <=> (n <= m - 1 \/ n = m)
      BY <1>0, <2>0, <2>3
    <3>7. NamesOf(LeavesUpto(leaves, m)) = NamesOf(LeavesUpto(leaves, m - 1)) \cup {id}
      <4>1. LeavesUpto(leaves, m) = LeavesUpto(leaves, m - 1) \cup {m}
        BY <2>3, <3>6 DEF LeavesUpto
      <4>. QED
        BY <3>3, <4>1 DEF NamesOf
    <3>8. PICK before : before = NamesOf(LeavesUpto(leaves, m - 1))
      OBVIOUS
    <3>9. Gains(old, tabs, t, before) /\ SameLinks(old, tabs)
      BY <3>2, <3>3, <3>8 DEF GainedUpto
    <3>10. Gains(after[m], tabs, t, before \cup {id}) /\ SameLinks(after[m], tabs)
      BY <3>5, <3>9 DEF Gains, SameLinks
    <3>11. ASSUME NEW n \in leaves, n <= m
           PROVE  after[m][t].records[Node(n).name] = after[n][t].records[Node(n).name]
      <4>1. CASE n = m
        BY <4>1
      <4>2. CASE n # m
        <5>1. n <= m - 1
          BY <3>6, <3>11, <4>2
        <5>2. old[t].records[Node(n).name] = after[n][t].records[Node(n).name]
          BY <3>2, <3>3, <5>1 DEF GainedUpto
        <5>3. Node(n).name \in before
          BY <3>8, <5>1 DEF NamesOf, LeavesUpto
        <5>4. Node(n).name \in DOMAIN old[t].records
          BY <3>9, <5>3 DEF Gains
        <5>. QED
          BY <3>5, <5>2, <5>4 DEF Gains
      <4>. QED
        BY <4>1, <4>2
    <3>12. GainedUpto(tabs, t, leaves, after, m)
      BY <3>5, <3>7, <3>8, <3>10, <3>11 DEF GainedUpto
    <3>. QED
      BY <3>12
  <2>. QED
    BY <2>1, <2>2, <2>3
<1>6. \A m \in 0..e : m \in S
  <2>1. e \in Nat
    BY <1>0
  <2>. HIDE DEF S, L
  <2>. QED
    BY <1>5, <2>1, PositionInduction
<1>. QED
  BY <1>3, <1>4, <1>6
LEMMA LeavesGain ==
  ASSUME prog \in Programs, NEW tabs, AreTables(tabs), NEW t \in DOMAIN tabs, NEW st,
         NEW leaves \in SUBSET Nodes, LeavesAdded(tabs, t, st, leaves).ok,
         NEW after, after = AfterLeaves(tabs, t, st, leaves)
  PROVE  /\ after[0] = tabs
         /\ \A m \in 0..Len(prog.nodes) : GainedUpto(tabs, t, leaves, after, m)
         /\ \A n \in leaves : after[n] = AddLeaf(after[n - 1], t, st, n)
<1>1. PICK e : e = Len(prog.nodes)
  OBVIOUS
<1>2. e \in Nat /\ e \in 0..Len(prog.nodes)
  BY <1>1, TreeFacts
<1>3. CanAddUpto(t, st, leaves, after, e)
  BY <1>1, LeavesOk
<1>. QED
  BY <1>1, <1>2, <1>3, LeavesGainUpto
-----------------------------------------------------------------------------
(* What is entered, as the first pass goes on *)

\* The declarations of a program do not change.
LEMMA DeclarationsStay ==
  ASSUME prog' = prog
  PROVE  /\ \A n : Node(n)' = Node(n)
         /\ \A n, o : (DeclaredIn(n, o)' <=> DeclaredIn(n, o)) /\ EnteredAt(n, o)' = EnteredAt(n, o)
         /\ \A m, k : AnalyzedBefore(m, k)' <=> AnalyzedBefore(m, k)
<1>1. /\ \A n : Node(n)' = Node(n) /\ Kind(n)' = Kind(n) /\ Parent(n)' = Parent(n)
      /\ ScopeAround' = ScopeAround
  BY TreeStays DEF Node
<1>2. \A n : IsArgument(n)' <=> IsArgument(n)
  BY <1>1 DEF IsArgument, Parent, Kind, Node
<1>3. \A n, o : DeclaredIn(n, o)' <=> DeclaredIn(n, o)
  BY <1>1, <1>2 DEF DeclaredIn, Parent, Kind, Node
<1>4. \A n, o : EnteredAt(n, o)' = EnteredAt(n, o)
  BY <1>1 DEF EnteredAt, Parent, Kind, Node
<1>5. \A m, k : AnalyzedBefore(m, k)' <=> AnalyzedBefore(m, k)
  BY DEF AnalyzedBefore
<1>. QED
  BY <1>1, <1>3, <1>4, <1>5

\* Modules before the one under analysis.
LEMMA AnalyzedFacts ==
  ASSUME prog \in Programs, NEW i \in DOMAIN prog.modules
  PROVE  /\ \A m : AnalyzedBefore(m, prog.modules[i]) <=> \E j \in 1..i - 1 : prog.modules[j] = m
         /\ ~AnalyzedBefore(prog.modules[i], prog.modules[i])
         /\ \A j \in 1..i - 1 : j \in DOMAIN prog.modules /\ j # i
<1>1. /\ Len(prog.modules) \in Nat /\ DOMAIN prog.modules = 1..Len(prog.modules)
      /\ \A j, k \in DOMAIN prog.modules : prog.modules[j] = prog.modules[k] => j = k
  BY ProgramFacts
<1>2. \A j \in 1..i - 1 : j \in DOMAIN prog.modules /\ j < i /\ j # i
  BY <1>1
<1>3. ASSUME NEW m, AnalyzedBefore(m, prog.modules[i])
      PROVE  \E j \in 1..i - 1 : prog.modules[j] = m
  <2>1. PICK j, k \in DOMAIN prog.modules : j < k /\ prog.modules[j] = m /\ prog.modules[k] = prog.modules[i]
    BY <1>3 DEF AnalyzedBefore
  <2>2. k = i
    BY <1>1, <2>1
  <2>3. j \in 1..i - 1
    BY <1>1, <2>1, <2>2
  <2>. QED
    BY <2>1, <2>3
<1>4. ASSUME NEW m, NEW j \in 1..i - 1, prog.modules[j] = m
      PROVE  AnalyzedBefore(m, prog.modules[i])
  BY <1>2, <1>4 DEF AnalyzedBefore
<1>5. ~AnalyzedBefore(prog.modules[i], prog.modules[i])
  BY <1>1, <1>2, <1>3
<1>. QED
  BY <1>2, <1>3, <1>4, <1>5

\* What is entered next is part of the module under analysis.
LEMMA NextIsInModule ==
  ASSUME WalkInv, ModulesAreKnown, Descends
  PROVE  next \in Nodes /\ ModuleAround[next] = Module
<1>0. /\ prog \in Programs /\ at \in DOMAIN prog.modules /\ next \in Nodes
      /\ Module \in Nodes /\ Kind(Module) \in {"file", "module"}
  BY NextFacts, PathFacts DEF WalkInv
<1>1. CASE parents = <<>>
  BY <1>0, <1>1, NextFacts, ModuleFacts
<1>2. CASE parents # <<>>
  <2>1. Parent(next) = Top /\ Parent(next) # None /\ Top \in Nodes
    BY <1>2, NextFacts
  <2>2. ModuleAround[Top] = Module
    <3>1. Len(parents) \in DOMAIN parents /\ Top = parents[Len(parents)]
      BY <1>2, PathFacts
    <3>. QED
      BY <3>1 DEF ModulesAreKnown
  <2>3. Kind(next) # "module"
    <3>. SUFFICES ASSUME Kind(next) = "module" PROVE FALSE
      OBVIOUS
    <3>1. Kind(Top) = "file"
      BY <1>0, <2>1, TreeFacts
    <3>2. Parent(next) = Module
      BY <1>0, <2>1, <2>2, <3>1, ModuleFacts
    <3>. QED
      BY <1>0, <3>2, ProgramFacts DEF Module
  <2>. QED
    BY <1>0, <2>1, <2>2, <2>3, ModuleTurn
<1>. QED
  BY <1>1, <1>2

\* A walk that ends has been at all nodes of its module.
LEMMA NodesOfModule ==
  ASSUME prog \in Programs, NEW m \in Nodes, NEW e \in Nat, m < e,
         \A k \in e..Len(prog.nodes) : Parent(k) \notin m..e - 1
  PROVE  \A n \in Nodes : ModuleAround[n] = m => n \in m..e - 1
<1>. DEFINE L == Len(prog.nodes)
            S == {n \in 0..L : n \in Nodes /\ ModuleAround[n] = m => n \in m..e - 1}
<1>0. L \in Nat /\ Nodes = 1..L /\ m \in Nat
  BY TreeFacts
<1>1. ASSUME NEW n \in 0..L, \A j \in 0..L : j < n => j \in S
      PROVE  n \in S
  <2>. SUFFICES ASSUME n \in Nodes, ModuleAround[n] = m PROVE n \in m..e - 1
    OBVIOUS
  <2>1. m <= n
    BY ModuleFacts
  <2>2. CASE n = m
    BY <1>0, <2>2
  <2>3. CASE n # m
    <3>1. Parent(n) # None /\ ModuleAround[Parent(n)] = m
      BY <2>3, ModuleTurn
    <3>2. Parent(n) \in Nodes /\ Parent(n) < n
      BY <3>1, TreeFacts
    <3>3. Parent(n) \in m..e - 1
      BY <1>0, <1>1, <3>1, <3>2
    <3>4. n \notin e..L
      BY <3>3
    <3>. QED
      BY <1>0, <2>1, <3>4
  <2>. QED
    BY <2>2, <2>3
<1>2. \A n \in 0..L : n \in S
  <2>. HIDE DEF S, L
  <2>. QED
    BY <1>0, <1>1, PositionInduction
<1>. QED
  BY <1>0, <1>2

\* Nothing is in the scope of a node before the node is entered.
LEMMA NothingBefore ==
  ASSUME prog \in Programs, at \in DOMAIN prog.modules, phase = "first",
         NEW o \in Nodes, ModuleAround[o] = Module, next <= o, next \in Nat
  PROVE  NamesEntered(o) = {}
<1>1. ASSUME NEW n \in Nodes, IsEntered(n, o)
      PROVE  FALSE
  <2>1. DeclaredIn(n, o)
    BY <1>1 DEF IsEntered
  <2>2. o <= EnteredAt(n, o) /\ EnteredAt(n, o) \in Nat /\ o \in Nat
    BY <2>1, EnteredAtFacts, TreeFacts
  <2>3. ModuleAround[n] = Module
    <3>1. Kind(n) # "module" => ModuleAround[n] = ModuleAround[o]
      BY <2>1, DeclarationFacts
    <3>2. Kind(n) # "module"
      <4>. SUFFICES ASSUME Kind(n) = "module" PROVE FALSE
        OBVIOUS
      <4>1. o = Parent(n) /\ Kind(o) = "file"
        BY <2>1, DeclarationFacts
      <4>2. Parent(n) = Module
        BY <4>1, ModuleFacts
      <4>. QED
        BY <4>2, ProgramFacts DEF Module
    <3>. QED
      BY <3>1, <3>2
  <2>4. ~AnalyzedBefore(Module, Module)
    BY AnalyzedFacts DEF Module
  <2>5. EnteredAt(n, o) < next
    BY <1>1, <2>3, <2>4 DEF IsEntered
  <2>. QED
    BY <2>2, <2>5
<1>. QED
  BY <1>1 DEF NamesEntered

\* With the next node, what is entered there is added.
LEMMA EnteredNow ==
  ASSUME prog \in Programs, phase = "first", prog' = prog, at' = at, phase' = phase,
         next' = next + 1, next \in Nodes, ModuleAround[next] = Module,
         NEW n \in Nodes, NEW o \in Nodes
  PROVE  IsEntered(n, o)' <=> IsEntered(n, o) \/ n \in EnteredHere(next, o)
<1>1. /\ ModuleAround' = ModuleAround /\ Module' = Module
      /\ (DeclaredIn(n, o)' <=> DeclaredIn(n, o)) /\ EnteredAt(n, o)' = EnteredAt(n, o)
      /\ \A m, k : AnalyzedBefore(m, k)' <=> AnalyzedBefore(m, k)
  BY TreeStays, DeclarationsStay DEF Module
<1>2. AnalyzedBefore(ModuleAround[n], Module)' <=> AnalyzedBefore(ModuleAround[n], Module)
  BY <1>1 DEF AnalyzedBefore
<1>3. CASE ~DeclaredIn(n, o)
  BY <1>1, <1>3 DEF IsEntered, EnteredHere
<1>4. CASE DeclaredIn(n, o)
  <2>1. /\ EnteredAt(n, o) \in Nat /\ next \in Nat
        /\ ModuleAround[EnteredAt(n, o)] = ModuleAround[n]
    BY <1>4, EnteredAtFacts, TreeFacts
  <2>2. EnteredAt(n, o) < next + 1 <=> EnteredAt(n, o) < next \/ EnteredAt(n, o) = next
    BY <2>1
  <2>3. IsEntered(n, o)' <=> \/ AnalyzedBefore(ModuleAround[n], Module)
                             \/ ModuleAround[n] = Module /\ EnteredAt(n, o) < next + 1
    BY <1>1, <1>2, <1>4 DEF IsEntered
  <2>4. IsEntered(n, o) <=> \/ AnalyzedBefore(ModuleAround[n], Module)
                            \/ ModuleAround[n] = Module /\ EnteredAt(n, o) < next
    BY <1>4 DEF IsEntered
  <2>5. n \in EnteredHere(next, o) <=> EnteredAt(n, o) = next
    BY <1>4 DEF EnteredHere
  <2>. QED
    BY <2>1, <2>2, <2>3, <2>4, <2>5
<1>. QED
  BY <1>3, <1>4

\* Each table gains the names of what is entered at the next node, and keeps its
\* records; the table of the next node is new.
Enters(tabs) ==
  /\ DOMAIN tabs \subseteq DOMAIN tables \cup {next}
  /\ \A o \in DOMAIN tabs :
       /\ DOMAIN tabs[o].records = (IF o = next THEN {} ELSE DOMAIN tables[o].records)
                                     \cup NamesOf(EnteredHere(next, o))
       /\ o # next => \A x \in DOMAIN tables[o].records : tabs[o].records[x] = tables[o].records[x]
LEMMA NamesGained ==
  ASSUME WalkInv, ModulesAreKnown, NamesAreEntered, phase = "first", Descends, Visit,
         Enters(tables')
  PROVE  NamesAreEntered'
<1>0. /\ prog \in Programs /\ at \in DOMAIN prog.modules /\ next \in Nodes /\ next \in Nat
      /\ ModuleAround[next] = Module /\ DOMAIN tables \subseteq Nodes
      /\ prog' = prog /\ at' = at /\ phase' = phase /\ next' = next + 1 /\ next <= next
      /\ DOMAIN tables' \subseteq DOMAIN tables \cup {next}
  BY NextIsInModule, TreeFacts DEF WalkInv, TablesAreLinked, Visit, Enters
<1>1. Nodes' = Nodes /\ \A n : Node(n)' = Node(n)
  BY <1>0, TreeStays, DeclarationsStay
<1>2. ASSUME NEW o \in DOMAIN tables'
      PROVE  DOMAIN tables'[o].records = NamesEntered(o)'
  <2>1. o \in Nodes
    BY <1>0
  <2>2. NamesEntered(o)' = NamesEntered(o) \cup NamesOf(EnteredHere(next, o))
    <3>1. \A n \in Nodes : IsEntered(n, o)' <=> IsEntered(n, o) \/ n \in EnteredHere(next, o)
      BY <1>0, <2>1, EnteredNow
    <3>2. EnteredHere(next, o) \subseteq Nodes
      BY DEF EnteredHere
    <3>3. NamesEntered(o)' = {Node(n).name : n \in {k \in Nodes : IsEntered(k, o)'}}
      BY <1>1 DEF NamesEntered
    <3>4. NamesEntered(o) = {Node(n).name : n \in {k \in Nodes : IsEntered(k, o)}}
      BY DEF NamesEntered
    <3>5. NamesOf(EnteredHere(next, o)) = {Node(n).name : n \in EnteredHere(next, o)}
      BY DEF NamesOf
    <3>. QED
      BY <3>1, <3>2, <3>3, <3>4, <3>5
  <2>3. o = next => NamesEntered(o) = {}
    BY <1>0, NothingBefore
  <2>4. o # next => DOMAIN tables[o].records = NamesEntered(o)
    BY <1>0 DEF NamesAreEntered
  <2>5. DOMAIN tables'[o].records = (IF o = next THEN {} ELSE DOMAIN tables[o].records)
                                      \cup NamesOf(EnteredHere(next, o))
    BY DEF Enters
  <2>. QED
    BY <2>2, <2>3, <2>4, <2>5
<1>. QED
  BY <1>2 DEF NamesAreEntered
-----------------------------------------------------------------------------
(* What each action of the first pass enters *)

LEMMA CurrentFacts ==
  ASSUME WalkInv, phase = "first", Descends, Kind(next) # "file"
  PROVE  /\ current = ScopeAround[next] /\ current \in DOMAIN tables /\ current \in Nodes
         /\ current # next /\ current # None
<1>1. /\ prog \in Programs /\ next \in Nodes /\ Linked(tables, current)
      /\ current = ScopeAround[next] /\ DOMAIN tables \subseteq Nodes
  BY NextFacts, CurrentBelow DEF WalkInv, TablesAreLinked
<1>2. current \in DOMAIN tables
  BY <1>1 DEF Linked
<1>3. ScopeAround[next] \in 0..next - 1 /\ next \in Nat
  BY <1>1, ScopeFacts, TreeFacts
<1>4. current # next
  BY <1>1, <1>3
<1>. QED
  BY <1>1, <1>2, <1>4, TreeFacts DEF None

\* A new and empty table at the next node, leaves in it, a symbol in the current one.
Opened(tabs) == /\ AreTables(tabs) /\ DOMAIN tabs = DOMAIN tables \cup {next}
                /\ DOMAIN tabs[next].records = {}
                /\ \A o \in DOMAIN tables : o # next => tabs[o] = tables[o]
LEMMA NewTableIsOpened ==
  ASSUME WalkInv
  PROVE  /\ Kind(next) # "fndecl" => Opened(WithTable(tables, next, Below(current)))
         /\ Kind(next) = "fndecl"
              => Opened(WithTable(tables, next, [Below(current) EXCEPT !.fndecl = next]))
<1>1. ASSUME Kind(next) # "fndecl"
      PROVE  Opened(WithTable(tables, next, Below(current)))
  <2>1. PICK row : row = Below(current)
    OBVIOUS
  <2>2. row.records = <<>>
    BY <2>1 DEF Below
  <2>3. DOMAIN row.records = {}
    BY <2>2
  <2>4. AreTables(WithTable(tables, next, row))
    BY <1>1, <2>1, NewTable DEF Opens
  <2>5. PICK new : new = WithTable(tables, next, row)
    OBVIOUS
  <2>6. /\ DOMAIN new = DOMAIN tables \cup {next} /\ new[next] = row
        /\ \A o \in DOMAIN tables : o # next => new[o] = tables[o]
    BY <2>5 DEF WithTable
  <2>7. DOMAIN new[next].records = {}
    BY <2>3, <2>6
  <2>. QED
    BY <2>1, <2>4, <2>5, <2>6, <2>7 DEF Opened
<1>2. ASSUME Kind(next) = "fndecl"
      PROVE  Opened(WithTable(tables, next, [Below(current) EXCEPT !.fndecl = next]))
  <2>1. PICK row : row = [Below(current) EXCEPT !.fndecl = next]
    OBVIOUS
  <2>2. row.records = <<>>
    BY <2>1 DEF Below
  <2>3. DOMAIN row.records = {}
    BY <2>2
  <2>4. AreTables(WithTable(tables, next, row))
    BY <1>2, <2>1, NewTable DEF Opens
  <2>5. PICK new : new = WithTable(tables, next, row)
    OBVIOUS
  <2>6. /\ DOMAIN new = DOMAIN tables \cup {next} /\ new[next] = row
        /\ \A o \in DOMAIN tables : o # next => new[o] = tables[o]
    BY <2>5 DEF WithTable
  <2>7. DOMAIN new[next].records = {}
    BY <2>3, <2>6
  <2>. QED
    BY <2>1, <2>4, <2>5, <2>6, <2>7 DEF Opened
<1>. QED
  BY <1>1, <1>2

LEMMA OneName ==
  ASSUME NEW n
  PROVE  NamesOf({n}) = {Node(n).name} /\ NamesOf({}) = {}
BY DEF NamesOf

\* A symbol of the node alone, in the current table.
LEMMA SymbolEnters ==
  ASSUME WalkInv, phase = "first", Descends, Kind(next) \in {"typedecl", "vardecl"},
         NEW n, n = IF Kind(next) = "vardecl" THEN next + 1 ELSE next,
         Node(n).name \notin DOMAIN tables[current].records,
         NEW node, NEW type, tables' = Add(tables, current, Node(n).name, node, type)
  PROVE  Enters(tables')
<1>1. /\ current = ScopeAround[next] /\ current \in DOMAIN tables /\ current # next
      /\ AreTables(tables) /\ prog \in Programs /\ next \in Nodes /\ DOMAIN tables \subseteq Nodes
  BY CurrentFacts, NewTable, NextFacts DEF WalkInv, TablesAreLinked
<1>2. PICK id : id = Node(n).name
  OBVIOUS
<1>3. Gains(tables', tables, current, {id})
  BY <1>1, <1>2, AddGains
<1>4. next \notin DOMAIN tables
  BY DEF WalkInv, TablesAreLinked, Owners
<1>5. ASSUME NEW o \in DOMAIN tables'
      PROVE  /\ DOMAIN tables'[o].records = (IF o = next THEN {} ELSE DOMAIN tables[o].records)
                                             \cup NamesOf(EnteredHere(next, o))
             /\ o # next => \A x \in DOMAIN tables[o].records : tables'[o].records[x] = tables[o].records[x]
  <2>1. o \in DOMAIN tables /\ o # next /\ o \in Nodes
    BY <1>1, <1>3, <1>4 DEF Gains
  <2>2. EnteredHere(next, o) = IF o = current THEN {n} ELSE {}
    BY <1>1, <2>1, EnteredHereFacts
  <2>3. NamesOf(EnteredHere(next, o)) = IF o = current THEN {id} ELSE {}
    BY <1>2, <2>2, OneName
  <2>. QED
    BY <1>3, <2>1, <2>3 DEF Gains
<1>6. DOMAIN tables' = DOMAIN tables
  BY <1>3 DEF Gains
<1>. QED
  BY <1>5, <1>6 DEF Enters

LEMMA BlockEnters ==
  ASSUME WalkInv, EnterBlock
  PROVE  Enters(tables')
<1>1. /\ Kind(next) = "block" /\ prog \in Programs /\ next \in Nodes /\ DOMAIN tables \subseteq Nodes
      /\ tables' = WithTable(tables, next, Below(current))
  BY NextFacts DEF WalkInv, EnterBlock, Entering, TablesAreLinked
<1>2. Opened(tables')
  BY <1>1, NewTableIsOpened
<1>3. \A o \in Nodes : NamesOf(EnteredHere(next, o)) = {}
  BY <1>1, EnteredHereFacts, OneName
<1>. QED
  BY <1>1, <1>2, <1>3 DEF Opened, Enters

LEMMA ModuleEnters ==
  ASSUME WalkInv, EnterModule
  PROVE  Enters(tables')
<1>. DEFINE own == WithTable(tables, next, Below(current))
<1>1. /\ Kind(next) = "module" /\ prog \in Programs /\ next \in Nodes /\ DOMAIN tables \subseteq Nodes
      /\ phase = "first" /\ Descends
      /\ Node(next).name \notin DOMAIN tables[current].records
  BY NextFacts DEF WalkInv, EnterModule, Entering, TablesAreLinked
<1>2. Opened(own)
  BY <1>1, NewTableIsOpened
<1>3. PICK id, type : /\ id = Node(next).name
                      /\ tables' = Add(own, current, id, next, type)
  BY DEF EnterModule
<1>4. /\ current = ScopeAround[next] /\ current \in DOMAIN tables /\ current # next
  BY <1>1, CurrentFacts
<1>. HIDE DEF own
<1>5. Gains(tables', own, current, {id})
  <2>1. AreTables(own) /\ current \in DOMAIN own /\ id \notin DOMAIN own[current].records
    BY <1>1, <1>2, <1>3, <1>4 DEF Opened
  <2>. QED
    BY <1>3, <2>1, AddGains
<1>6. ASSUME NEW o \in DOMAIN tables'
      PROVE  /\ DOMAIN tables'[o].records = (IF o = next THEN {} ELSE DOMAIN tables[o].records)
                                             \cup NamesOf(EnteredHere(next, o))
             /\ o # next => \A x \in DOMAIN tables[o].records : tables'[o].records[x] = tables[o].records[x]
  <2>1. o \in Nodes /\ (o = next \/ o \in DOMAIN tables)
    BY <1>1, <1>2, <1>5 DEF Gains, Opened
  <2>2. NamesOf(EnteredHere(next, o)) = IF o = current THEN {id} ELSE {}
    BY <1>1, <1>3, <1>4, <2>1, EnteredHereFacts, OneName
  <2>. QED
    BY <1>2, <1>4, <1>5, <2>1, <2>2 DEF Gains, Opened
<1>7. DOMAIN tables' = DOMAIN tables \cup {next}
  BY <1>2, <1>5 DEF Gains, Opened
<1>. QED
  BY <1>6, <1>7 DEF Enters

LEMMA DescribedFacts ==
  ASSUME prog \in Programs, NEW n
  PROVE  Described(n) \in SUBSET Nodes /\ Leaves(n) \in SUBSET Nodes
BY TreeFacts DEF Described, Leaves

LEMMA AllUpto ==
  ASSUME prog \in Programs, NEW leaves \in SUBSET Nodes
  PROVE  LeavesUpto(leaves, Len(prog.nodes)) = leaves
<1>1. \A n \in leaves : n <= Len(prog.nodes)
  BY TreeFacts
<1>. QED
  BY <1>1 DEF LeavesUpto

\* The arguments are symbols of the function's table.
LEMMA ArgumentsGained ==
  ASSUME WalkInv, EnterFndecl,
         NEW own, own = WithTable(tables, next, [Below(current) EXCEPT !.fndecl = next])
  PROVE  LET with == WithArguments(next).tables
         IN /\ Opened(own) /\ AreTables(with) /\ SameLinks(with, own)
            /\ LeavesAdded(own, next, current, Described(next)).ok
            /\ with = AfterLeaves(own, next, current, Described(next))[Len(prog.nodes)]
            /\ Gains(with, own, next, NamesOf(Described(next)))
<1>1. /\ Kind(next) = "fndecl" /\ prog \in Programs /\ next \in Nodes /\ WithArguments(next).ok
      /\ Len(prog.nodes) \in Nat /\ Nodes = 1..Len(prog.nodes)
  BY NextFacts, TreeFacts DEF WalkInv, EnterFndecl, Entering
<1>2. Opened(own)
  BY <1>1, NewTableIsOpened
<1>3. PICK leaves, after : /\ leaves = Described(next)
                           /\ after = AfterLeaves(own, next, current, leaves)
  OBVIOUS
<1>4. WithArguments(next) = LeavesAdded(own, next, current, leaves)
  BY <1>3 DEF WithArguments
<1>5. LeavesAdded(own, next, current, leaves).ok
  BY <1>1, <1>4
<1>6. LeavesAdded(own, next, current, leaves).tables = after[Len(prog.nodes)]
  BY <1>1, <1>3, <1>5, LeavesOk
<1>7. leaves \in SUBSET Nodes
  BY <1>1, <1>3, DescribedFacts
<1>8. AreTables(own) /\ next \in DOMAIN own
  BY <1>2 DEF Opened
<1>9. \A m \in 0..Len(prog.nodes) : GainedUpto(own, next, leaves, after, m)
  BY ONLY <1>1, <1>3, <1>5, <1>7, <1>8, LeavesGain
<1>10. GainedUpto(own, next, leaves, after, Len(prog.nodes))
  BY <1>1, <1>9
<1>11. LeavesUpto(leaves, Len(prog.nodes)) = leaves
  BY <1>1, <1>7, AllUpto
<1>. QED
  BY <1>2, <1>3, <1>4, <1>5, <1>6, <1>10, <1>11 DEF GainedUpto

LEMMA FndeclEnters ==
  ASSUME WalkInv, EnterFndecl
  PROVE  Enters(tables')
<1>1. /\ Kind(next) = "fndecl" /\ prog \in Programs /\ next \in Nodes /\ DOMAIN tables \subseteq Nodes
      /\ phase = "first" /\ Descends
      /\ Node(next).name \notin DOMAIN tables[current].records
  BY NextFacts DEF WalkInv, EnterFndecl, Entering, TablesAreLinked
<1>2. PICK own, with, args : /\ own = WithTable(tables, next, [Below(current) EXCEPT !.fndecl = next])
                             /\ with = WithArguments(next).tables
                             /\ args = NamesOf(Described(next))
  OBVIOUS
<1>3. Opened(own) /\ AreTables(with) /\ Gains(with, own, next, args)
  BY <1>2, ArgumentsGained
<1>4. PICK id, type : /\ id = Node(next).name
                      /\ tables' = Add(with, current, id, next, type)
  BY <1>2 DEF EnterFndecl
<1>5. /\ current = ScopeAround[next] /\ current \in DOMAIN tables /\ current # next
  BY <1>1, CurrentFacts
<1>6. Gains(tables', with, current, {id})
  <2>1. current \in DOMAIN with /\ id \notin DOMAIN with[current].records
    BY <1>1, <1>3, <1>4, <1>5 DEF Opened, Gains
  <2>. QED
    BY <1>3, <1>4, <2>1, AddGains
<1>7. ASSUME NEW o \in DOMAIN tables'
      PROVE  /\ DOMAIN tables'[o].records = (IF o = next THEN {} ELSE DOMAIN tables[o].records)
                                             \cup NamesOf(EnteredHere(next, o))
             /\ o # next => \A x \in DOMAIN tables[o].records : tables'[o].records[x] = tables[o].records[x]
  <2>1. o \in Nodes /\ (o = next \/ o \in DOMAIN tables)
    BY <1>1, <1>3, <1>6 DEF Gains, Opened
  <2>2. NamesOf(EnteredHere(next, o)) = IF o = current THEN {id} ELSE IF o = next THEN args ELSE {}
    BY <1>1, <1>2, <1>4, <1>5, <2>1, EnteredHereFacts, OneName
  <2>. QED
    BY <1>3, <1>5, <1>6, <2>1, <2>2 DEF Gains, Opened
<1>8. DOMAIN tables' = DOMAIN tables \cup {next}
  BY <1>3, <1>6 DEF Gains, Opened
<1>. QED
  BY <1>7, <1>8 DEF Enters

\* The leaves of a type description are symbols of its own table.
LEMMA DescriptionGained ==
  ASSUME WalkInv, EnterTypedesc,
         NEW own, own = WithTable(tables, next, Below(current))
  PROVE  /\ Opened(own) /\ AreTables(tables') /\ SameLinks(tables', own)
         /\ LeavesAdded(own, next, next, Leaves(next)).ok
         /\ tables' = AfterLeaves(own, next, next, Leaves(next))[Len(prog.nodes)]
         /\ Gains(tables', own, next, NamesOf(Leaves(next)))
<1>1. /\ Kind(next) = "typedesc" /\ prog \in Programs /\ next \in Nodes /\ WithLeaves(next).ok
      /\ Len(prog.nodes) \in Nat /\ Nodes = 1..Len(prog.nodes) /\ tables' = WithLeaves(next).tables
  BY NextFacts, TreeFacts DEF WalkInv, EnterTypedesc, Entering
<1>2. Opened(own)
  BY <1>1, NewTableIsOpened
<1>3. PICK leaves, after : /\ leaves = Leaves(next)
                           /\ after = AfterLeaves(own, next, next, leaves)
  OBVIOUS
<1>4. WithLeaves(next) = LeavesAdded(own, next, next, leaves)
  BY <1>3 DEF WithLeaves
<1>5. LeavesAdded(own, next, next, leaves).ok
  BY <1>1, <1>4
<1>6. LeavesAdded(own, next, next, leaves).tables = after[Len(prog.nodes)]
  BY <1>1, <1>3, <1>5, LeavesOk
<1>7. leaves \in SUBSET Nodes
  BY <1>1, <1>3, DescribedFacts
<1>8. AreTables(own) /\ next \in DOMAIN own
  BY <1>2 DEF Opened
<1>9. \A m \in 0..Len(prog.nodes) : GainedUpto(own, next, leaves, after, m)
  BY ONLY <1>1, <1>3, <1>5, <1>7, <1>8, LeavesGain
<1>10. GainedUpto(own, next, leaves, after, Len(prog.nodes))
  BY <1>1, <1>9
<1>11. LeavesUpto(leaves, Len(prog.nodes)) = leaves
  BY <1>1, <1>7, AllUpto
<1>. QED
  BY <1>1, <1>2, <1>3, <1>4, <1>5, <1>6, <1>10, <1>11 DEF GainedUpto

LEMMA TypedescEnters ==
  ASSUME WalkInv, EnterTypedesc
  PROVE  Enters(tables')
<1>1. /\ Kind(next) = "typedesc" /\ prog \in Programs /\ next \in Nodes /\ DOMAIN tables \subseteq Nodes
  BY NextFacts DEF WalkInv, EnterTypedesc, Entering, TablesAreLinked
<1>2. PICK own, names : /\ own = WithTable(tables, next, Below(current))
                        /\ names = NamesOf(Leaves(next))
  OBVIOUS
<1>3. Opened(own) /\ Gains(tables', own, next, names)
  BY <1>2, DescriptionGained
<1>4. ASSUME NEW o \in DOMAIN tables'
      PROVE  /\ DOMAIN tables'[o].records = (IF o = next THEN {} ELSE DOMAIN tables[o].records)
                                             \cup NamesOf(EnteredHere(next, o))
             /\ o # next => \A x \in DOMAIN tables[o].records : tables'[o].records[x] = tables[o].records[x]
  <2>1. o \in Nodes /\ (o = next \/ o \in DOMAIN tables)
    BY <1>1, <1>3 DEF Gains, Opened
  <2>2. NamesOf(EnteredHere(next, o)) = IF o = next THEN names ELSE {}
    BY <1>1, <1>2, <2>1, EnteredHereFacts, OneName
  <2>. QED
    BY <1>3, <2>1, <2>2 DEF Gains, Opened
<1>5. DOMAIN tables' = DOMAIN tables \cup {next}
  BY <1>3 DEF Gains, Opened
<1>. QED
  BY <1>4, <1>5 DEF Enters

LEMMA SymbolsEnter ==
  ASSUME WalkInv, EnterTypedecl \/ EnterVardecl
  PROVE  Enters(tables')
<1>1. CASE EnterTypedecl
  <2>1. /\ phase = "first" /\ Descends /\ Kind(next) = "typedecl"
        /\ Node(next).name \notin DOMAIN tables[current].records
    BY <1>1 DEF EnterTypedecl, Entering
  <2>2. PICK n, type : /\ n = IF Kind(next) = "vardecl" THEN next + 1 ELSE next
                       /\ tables' = Add(tables, current, Node(n).name, next, type)
    BY <1>1, <2>1 DEF EnterTypedecl
  <2>3. Node(n).name \notin DOMAIN tables[current].records
    BY <2>1, <2>2
  <2>. QED
    BY <2>1, <2>2, <2>3, SymbolEnters
<1>2. CASE EnterVardecl
  <2>1. /\ phase = "first" /\ Descends /\ Kind(next) = "vardecl"
        /\ CanAddLeaf(tables, current, current, next + 1)
    BY <1>2 DEF EnterVardecl, Entering
  <2>2. PICK n, node, type : /\ n = IF Kind(next) = "vardecl" THEN next + 1 ELSE next
                             /\ tables' = Add(tables, current, Node(n).name, node, type)
    BY <1>2, <2>1 DEF EnterVardecl, AddLeaf
  <2>3. Node(n).name \notin DOMAIN tables[current].records
    BY <2>1, <2>2 DEF CanAddLeaf
  <2>. QED
    BY <2>1, <2>2, <2>3, SymbolEnters
<1>. QED
  BY <1>1, <1>2

LEMMA OtherEnters ==
  ASSUME WalkInv, ModulesAreKnown, NamesAreEntered, EnterOther
  PROVE  Enters(tables')
<1>1. /\ prog \in Programs /\ at \in DOMAIN prog.modules /\ phase = "first"
      /\ next \in Nodes /\ next \in Nat /\ next <= next
      /\ ModuleAround[next] = Module /\ DOMAIN tables \subseteq Nodes /\ tables' = tables
      /\ Kind(next) \in {"file", "fnimpl", "case", "leaf", "use", "call", "return", "match"}
  BY NextIsInModule, TreeFacts DEF WalkInv, TablesAreLinked, EnterOther, Entering
<1>2. \A o \in Nodes : NamesOf(EnteredHere(next, o)) = {}
  BY <1>1, EnteredHereFacts, OneName
<1>3. next \in DOMAIN tables => DOMAIN tables[next].records = {}
  BY <1>1, NothingBefore DEF NamesAreEntered
<1>. QED
  BY <1>1, <1>2, <1>3 DEF Enters
-----------------------------------------------------------------------------
(* Scopes that are complete *)

LEMMA ScopeIsOwner ==
  ASSUME prog \in Programs
  PROVE  \A n \in Nodes : ScopeAround[n] # None => Kind(ScopeAround[n]) \in Owners
<1>. DEFINE L == Len(prog.nodes)
            S == {n \in 0..L : n \in Nodes /\ ScopeAround[n] # None => Kind(ScopeAround[n]) \in Owners}
<1>0. L \in Nat /\ Nodes = 1..L
  BY TreeFacts
<1>1. ASSUME NEW n \in 0..L, \A j \in 0..L : j < n => j \in S
      PROVE  n \in S
  <2>. SUFFICES ASSUME n \in Nodes, ScopeAround[n] # None PROVE Kind(ScopeAround[n]) \in Owners
    OBVIOUS
  <2>1. Parent(n) # None /\ Parent(n) \in Nodes /\ Parent(n) < n
    BY ScopeFacts, TreeFacts
  <2>2. CASE Kind(Parent(n)) \in Owners
    BY <2>1, <2>2, ScopeFacts
  <2>3. CASE Kind(Parent(n)) \in Borrowers /\ n # Parent(n) + 1
    BY <2>1, <2>3, ScopeFacts, FirstChildren DEF Owners
  <2>4. CASE Kind(Parent(n)) \notin Owners /\ (Kind(Parent(n)) \in Borrowers => n = Parent(n) + 1)
    <3>1. ScopeAround[n] = ScopeAround[Parent(n)]
      BY <2>1, <2>4, ScopeFacts
    <3>2. Parent(n) \in S
      BY <1>0, <1>1, <2>1
    <3>. QED
      BY <2>1, <3>1, <3>2
  <2>. QED
    BY <2>2, <2>3, <2>4
<1>2. \A n \in 0..L : n \in S
  <2>. HIDE DEF S, L
  <2>. QED
    BY <1>0, <1>1, PositionInduction
<1>. QED
  BY <1>0, <1>2

\* Everything but a file is in a scope.
LEMMA ScopeOfSome ==
  ASSUME prog \in Programs
  PROVE  \A n \in Nodes : Kind(n) # "file" => ScopeAround[n] # None
<1>. DEFINE L == Len(prog.nodes)
            S == {n \in 0..L : n \in Nodes /\ Kind(n) # "file" => ScopeAround[n] # None}
<1>0. L \in Nat /\ Nodes = 1..L
  BY TreeFacts
<1>1. ASSUME NEW n \in 0..L, \A j \in 0..L : j < n => j \in S
      PROVE  n \in S
  <2>. SUFFICES ASSUME n \in Nodes, Kind(n) # "file" PROVE ScopeAround[n] # None
    OBVIOUS
  <2>1. Parent(n) # None /\ Parent(n) \in Nodes /\ Parent(n) < n /\ Parent(n) \in Nat
    BY TreeFacts
  <2>2. CASE Kind(Parent(n)) \in Owners
    BY <2>1, <2>2, ScopeFacts
  <2>3. CASE Kind(Parent(n)) \in Borrowers /\ n # Parent(n) + 1
    <3>1. ScopeAround[n] = Parent(n) + 1
      BY <2>1, <2>3, ScopeFacts
    <3>. QED
      BY <2>1, <3>1 DEF None
  <2>4. CASE Kind(Parent(n)) \notin Owners /\ (Kind(Parent(n)) \in Borrowers => n = Parent(n) + 1)
    <3>1. ScopeAround[n] = ScopeAround[Parent(n)] /\ Kind(Parent(n)) # "file"
      BY <2>1, <2>4, ScopeFacts DEF Owners
    <3>2. Parent(n) \in S
      BY <1>0, <1>1, <2>1
    <3>. QED
      BY <2>1, <3>1, <3>2
  <2>. QED
    BY <2>2, <2>3, <2>4
<1>2. \A n \in 0..L : n \in S
  <2>. HIDE DEF S, L
  <2>. QED
    BY <1>0, <1>1, PositionInduction
<1>. QED
  BY <1>0, <1>2

\* The outermost scopes, those of the modules before, and those of the module under
\* analysis that begin before a node.
ScopesUpto(e) ==
  {o \in Nodes : /\ Kind(o) \in Owners
                 /\ \/ Kind(o) = "file"
                    \/ AnalyzedBefore(ModuleAround[o], Module)
                    \/ ModuleAround[o] = Module /\ o < e}

\* They lead to each other only.
LEMMA ScopesLeadOut ==
  ASSUME prog \in Programs, NEW e \in Nat, NEW s \in ScopesUpto(e), ScopeAround[s] # None
  PROVE  ScopeAround[s] \in ScopesUpto(e)
<1>1. s \in Nodes /\ Kind(s) \in Owners
  BY DEF ScopesUpto
<1>2. /\ ScopeAround[s] \in Nodes /\ Kind(ScopeAround[s]) \in Owners
      /\ ScopeAround[s] \in 0..s - 1 /\ s \in Nat
  BY <1>1, ScopeFacts, ScopeIsOwner, TreeFacts
<1>3. CASE Kind(s) = "module"
  <2>1. Parent(s) # None /\ Kind(Parent(s)) = "file"
    BY <1>1, <1>3, TreeFacts
  <2>2. ScopeAround[s] = Parent(s)
    BY <1>1, <2>1, ScopeFacts DEF Owners
  <2>. QED
    BY <1>2, <2>1, <2>2 DEF ScopesUpto
<1>4. CASE Kind(s) # "module"
  <2>1. ModuleAround[ScopeAround[s]] = ModuleAround[s]
    BY <1>1, <1>4, ScopeIsInModule
  <2>2. Kind(s) # "file"
    BY <1>1, ScopeFacts
  <2>3. s < e => ScopeAround[s] < e
    BY <1>2
  <2>. QED
    BY <1>2, <2>1, <2>2, <2>3 DEF ScopesUpto
<1>. QED
  BY <1>3, <1>4

LEMMA ScopesLeadToImports ==
  ASSUME prog \in Programs, at \in DOMAIN prog.modules, NEW e \in Nat, NEW s \in ScopesUpto(e)
  PROVE  ImportsOf(s) \in Seq(ScopesUpto(e))
<1>1. s \in Nodes
  BY DEF ScopesUpto
<1>2. PICK d : d = ImportsOf(s)
  OBVIOUS
<1>3. d \in Seq(Nodes)
  BY <1>1, <1>2, ImportFacts
<1>4. ASSUME NEW i \in DOMAIN d
      PROVE  d[i] \in ScopesUpto(e)
  <2>1. /\ d[i] \in Nodes /\ Kind(d[i]) \in {"file", "module"}
        /\ \E j, k \in DOMAIN prog.modules :
             j < k /\ prog.modules[j] = d[i] /\ prog.modules[k] = ModuleAround[s]
    BY <1>1, <1>2, ImportFacts
  <2>2. PICK j, k \in DOMAIN prog.modules :
          j < k /\ prog.modules[j] = d[i] /\ prog.modules[k] = ModuleAround[s]
    BY <2>1
  <2>3. Kind(s) # "file"
    <3>. SUFFICES ASSUME Kind(s) = "file" PROVE FALSE
      OBVIOUS
    <3>1. d = <<>>
      BY <1>2 DEF ImportsOf
    <3>. QED
      BY <3>1
  <2>4. /\ Len(prog.modules) \in Nat /\ DOMAIN prog.modules = 1..Len(prog.modules)
        /\ \A l, m \in DOMAIN prog.modules : prog.modules[l] = prog.modules[m] => l = m
    BY ProgramFacts
  <2>5. k <= at
    <3>1. CASE ModuleAround[s] = Module
      <4>1. k = at
        BY <2>2, <2>4, <3>1 DEF Module
      <4>. QED
        BY <2>4, <4>1
    <3>2. CASE AnalyzedBefore(ModuleAround[s], Module)
      <4>1. PICK l, m \in DOMAIN prog.modules :
              l < m /\ prog.modules[l] = ModuleAround[s] /\ prog.modules[m] = prog.modules[at]
        BY <3>2 DEF AnalyzedBefore, Module
      <4>2. l = k /\ m = at
        BY <2>2, <2>4, <4>1
      <4>. QED
        BY <2>4, <4>1, <4>2
    <3>. QED
      BY <2>3, <3>1, <3>2 DEF ScopesUpto
  <2>6. j < at
    BY <2>2, <2>4, <2>5
  <2>7. AnalyzedBefore(d[i], Module)
    BY <2>2, <2>6 DEF AnalyzedBefore, Module
  <2>8. ModuleAround[d[i]] = d[i]
    BY <2>1, ModuleFacts
  <2>. QED
    BY <2>1, <2>7, <2>8 DEF ScopesUpto, Owners
<1>5. d \in Seq(ScopesUpto(e))
  <2>1. \A i \in DOMAIN d : d[i] \in ScopesUpto(e)
    BY <1>4
  <2>. QED
    BY <1>3, <2>1
<1>. QED
  BY <1>2, <1>5

\* All their tables are there, and linked.
LEMMA ScopesAreLinked ==
  ASSUME WalkInv, ModulesAreKnown, NEW e \in Nat,
         \/ phase = "first" /\ e = next
         \/ phase = "check"
  PROVE  \A s \in ScopesUpto(e) : Linked(tables, s)
<1>0. /\ prog \in Programs /\ Module \in Nodes /\ Module \in Nat /\ next \in Nat
      /\ Len(prog.nodes) \in Nat
  BY PathFacts, TreeFacts DEF WalkInv
<1>. SUFFICES ASSUME NEW s \in ScopesUpto(e) PROVE Linked(tables, s)
  OBVIOUS
<1>1. s \in Nodes /\ s \in Nat /\ Kind(s) \in Owners
  BY <1>0, TreeFacts DEF ScopesUpto
<1>2. CASE Kind(s) = "file"
  BY <1>1, <1>2 DEF WalkInv, TablesAreLinked
<1>3. CASE AnalyzedBefore(ModuleAround[s], Module)
  BY <1>1, <1>3 DEF ModulesAreKnown
<1>4. CASE ModuleAround[s] = Module /\ s < e
  <2>1. Module <= s
    BY <1>0, <1>1, <1>4, ModuleFacts
  <2>2. CASE phase = "first"
    <3>1. s \in Module..next - 1
      BY <1>0, <1>1, <1>4, <2>1, <2>2
    <3>. QED
      BY <1>1, <2>2, <3>1 DEF WalkInv, TablesAreThere, LinkedUpTo
  <2>3. CASE phase = "check"
    <3>1. PICK f \in Nodes \cup {Len(prog.nodes) + 1} : WalkedBefore(f)
      BY <2>3 DEF WalkInv, TablesAreThere
    <3>2. f \in Nat
      BY <1>0, <3>1, TreeFacts
    <3>3. /\ Module < f /\ LinkedUpTo(f)
          /\ \A k \in f..Len(prog.nodes) : Parent(k) \notin Module..f - 1
      BY <3>1 DEF WalkedBefore
    <3>4. s \in Module..f - 1
      BY <1>0, <1>1, <1>4, <3>2, <3>3, NodesOfModule
    <3>. QED
      BY <1>1, <3>3, <3>4 DEF LinkedUpTo
  <2>. QED
    BY <2>2, <2>3
<1>. QED
  BY <1>2, <1>3, <1>4 DEF ScopesUpto

LEMMA TablesAreTrees ==
  ASSUME WalkInv, ModulesAreKnown
  PROVE  AreTrees(tables)
<1>1. prog \in Programs /\ TablesAreLinked
  BY DEF WalkInv
<1>2. ASSUME NEW o \in DOMAIN tables, tables[o].outer # None
      PROVE  tables[o].outer \in DOMAIN tables /\ tables[o].outer < o
  <2>1. o \in Nodes /\ Linked(tables, o) /\ Linked(tables, tables[o].outer)
    BY <1>1, <1>2 DEF TablesAreLinked
  <2>2. tables[o].outer = ScopeAround[o]
    BY <2>1 DEF Linked
  <2>3. ScopeAround[o] \in 0..o - 1 /\ o \in Nat
    BY <1>1, <2>1, ScopeFacts, TreeFacts
  <2>4. ScopeAround[o] < o
    BY <2>3
  <2>. QED
    BY <2>1, <2>2, <2>4 DEF Linked
<1>. QED
  BY <1>1, <1>2 DEF AreTrees, TablesAreLinked, ModulesAreKnown
-----------------------------------------------------------------------------
(* Lookups of the type check *)

\* In the second walk everything is known.
LEMMA AllIsKnown ==
  ASSUME WalkInv, ModulesAreKnown, phase = "check", parents # <<>>, NEW n \in Nodes, NEW o \in Nodes
  PROVE  IsEntered(n, o) <=> DeclaredIn(n, o) /\ IsKnown(n, o, AtEndOf(Top))
<1>0. /\ prog \in Programs /\ ModuleAround[Top] = Module /\ Len(prog.nodes) \in Nat
      /\ Nodes = 1..Len(prog.nodes)
  <2>1. Len(parents) \in DOMAIN parents /\ Top = parents[Len(parents)]
    BY PathFacts
  <2>. QED
    BY <2>1, TreeFacts DEF ModulesAreKnown, WalkInv
<1>1. PICK when : when = AtEndOf(Top)
  OBVIOUS
<1>2. when.module = Module /\ when.node = Len(prog.nodes) + 1
  BY <1>0, <1>1 DEF AtEndOf
<1>3. KnownFrom(n, o) \in Nodes
  BY DEF KnownFrom
<1>4. KnownFrom(n, o) < when.node
  BY <1>0, <1>2, <1>3
<1>. QED
  BY <1>1, <1>2, <1>4 DEF IsEntered, IsKnown

LEMMA ChecksAreServed ==
  ASSUME WalkInv, ModulesAreKnown, NamesAreEntered, phase = "check", parents # <<>>, NEW id
  PROVE  Serves(tables, ScopesUpto(Len(prog.nodes) + 1), id, AtEndOf(Top))
<1>. DEFINE e == Len(prog.nodes) + 1
<1>0. prog \in Programs /\ at \in DOMAIN prog.modules /\ e \in Nat
  BY TreeFacts DEF WalkInv
<1>. HIDE DEF e
<1>1. \A s \in ScopesUpto(e) : Linked(tables, s)
  BY <1>0, ScopesAreLinked
<1>2. PICK when : when = AtEndOf(Top)
  OBVIOUS
<1>3. ASSUME NEW s \in ScopesUpto(e)
      PROVE  /\ tables[s].outer = ScopeAround[s] /\ s \in DOMAIN tables
             /\ ScopeAround[s] # None => ScopeAround[s] \in ScopesUpto(e)
             /\ HasDeclared(tables, s, id, when)
             /\ ImportsOf(s) \in Seq(ScopesUpto(e))
  <2>1. s \in Nodes /\ s \in DOMAIN tables /\ tables[s].outer = ScopeAround[s]
    BY <1>1 DEF Linked, ScopesUpto
  <2>2. \A n \in Nodes : IsEntered(n, s) <=> DeclaredIn(n, s) /\ IsKnown(n, s, when)
    BY <1>2, <2>1, AllIsKnown
  <2>3. DOMAIN tables[s].records = {Node(n).name : n \in {k \in Nodes : IsEntered(k, s)}}
    BY <2>1 DEF NamesAreEntered, NamesEntered
  <2>4. HasDeclared(tables, s, id, when)
    BY <2>2, <2>3 DEF HasDeclared, Declarations
  <2>. QED
    BY <1>0, <2>1, <2>4, ScopesLeadOut, ScopesLeadToImports
<1>4. ScopesUpto(e) \subseteq DOMAIN tables
  BY <1>3
<1>5. Serves(tables, ScopesUpto(e), id, when)
  BY <1>3, <1>4 DEF Serves
<1>. QED
  BY <1>2, <1>5 DEF e

\* A name is looked up from the table of the scope around the node, or of its own.
LEMMA CheckLooksFrom ==
  ASSUME WalkInv, ModulesAreKnown, phase = "check", parents # <<>>, Kind(Top) \notin Borrowers
  PROVE  /\ current = IF Kind(Top) \in Owners THEN Top ELSE ScopeAround[Top]
         /\ current \in ScopesUpto(Len(prog.nodes) + 1)
<1>0. /\ prog \in Programs /\ Top \in Nodes /\ ModuleAround[Top] = Module
      /\ Len(prog.nodes) \in Nat /\ Nodes = 1..Len(prog.nodes)
  <2>1. Len(parents) \in DOMAIN parents /\ Top = parents[Len(parents)] /\ Top \in Nodes
    BY PathFacts
  <2>. QED
    BY <2>1, TreeFacts DEF ModulesAreKnown, WalkInv
<1>1. CASE Kind(Top) \in Owners
  <2>1. current = Top
    BY <1>1 DEF WalkInv, CurrentIsAround
  <2>2. Top < Len(prog.nodes) + 1
    BY <1>0
  <2>. QED
    BY <1>0, <1>1, <2>1, <2>2 DEF ScopesUpto
<1>2. CASE Kind(Top) \notin Owners
  <2>1. current = ScopeAround[Top]
    BY <1>2 DEF WalkInv, CurrentIsAround
  <2>2. Kind(Top) # "module" /\ Kind(Top) # "file"
    BY <1>2 DEF Owners
  <2>3. ScopeAround[Top] # None
    BY <1>0, <2>2, ScopeOfSome
  <2>4. /\ ScopeAround[Top] \in Nodes /\ Kind(ScopeAround[Top]) \in Owners
        /\ ModuleAround[ScopeAround[Top]] = Module
    BY <1>0, <2>2, <2>3, ScopeFacts, ScopeIsOwner, ScopeIsInModule
  <2>5. ScopeAround[Top] < Len(prog.nodes) + 1
    BY <1>0, <2>4
  <2>. QED
    BY <1>2, <2>1, <2>4, <2>5 DEF ScopesUpto
<1>. QED
  BY <1>1, <1>2
-----------------------------------------------------------------------------
(* The modules that are known *)

\* Every step keeps the links there are.
LEMMA LinksRemain ==
  ASSUME WalkInv, [Next]_vars
  PROVE  prog' = prog /\ \A o : Linked(tables, o) => Linked(tables', o)
<1>0. prog \in Programs /\ TablesAreLinked
  BY DEF WalkInv
<1>1. CASE EnterBlock \/ EnterModule \/ EnterFndecl \/ EnterTypedesc
  <2>1. /\ phase = "first" /\ Descends /\ prog' = prog
        /\ Kind(next) \in Owners \ {"file"} /\ Opens(tables', next)
    BY <1>1, EnteringOpens DEF Visit
  <2>2. next \in Nodes /\ Linked(tables, current) /\ current = ScopeAround[next]
    BY <2>1, NextFacts, CurrentBelow
  <2>. QED
    BY <1>0, <2>1, <2>2, LinksOfNewTable
<1>2. CASE EnterTypedecl \/ EnterVardecl \/ EnterOther
  <2>1. prog' = prog /\ AreTables(tables') /\ SameLinks(tables', tables)
    BY <1>2, EnteringKeeps DEF Visit
  <2>. QED
    BY <1>0, <2>1, LinksStay
<1>3. CASE ~(EnterBlock \/ EnterModule \/ EnterFndecl \/ EnterTypedesc
             \/ EnterTypedecl \/ EnterVardecl \/ EnterOther)
  <2>1. prog' = prog /\ tables' = tables
    BY <1>3 DEF Next, RefuseNode, Descend, Visit, DescendToUndeclaredMatch, Ascend, CheckNode, GoUp,
                EndFirstPass, EndCheck, Ended, vars
  <2>. QED
    BY <1>0, <2>1, TablesStay
<1>. QED
  BY <1>1, <1>2, <1>3

OfModule(tabs) ==
  \A o \in DOMAIN tabs : tabs[o].mod = IF Kind(o) = "file" THEN None ELSE ModuleAround[o]

LEMMA ModulesStay ==
  ASSUME WalkInv, ModulesAreKnown, [Next]_vars, at' = at, OfModule(tables'),
         \A i \in DOMAIN parents' : ModuleAround[parents'[i]] = Module
  PROVE  ModulesAreKnown'
<1>1. prog' = prog /\ \A o : Linked(tables, o) => Linked(tables', o)
  BY LinksRemain
<1>2. /\ Nodes' = Nodes /\ ModuleAround' = ModuleAround /\ \A n : Kind(n)' = Kind(n)
      /\ \A o : Linked(tables, o)' <=> Linked(tables', o)
      /\ Module' = Module
  BY <1>1, TreeStays DEF Module
<1>4. \A o \in Nodes : Kind(o) \in Owners /\ AnalyzedBefore(ModuleAround[o], Module)
                         => Linked(tables', o)
  BY <1>1 DEF ModulesAreKnown
<1>5. ASSUME NEW o \in Nodes', Kind(o)' \in Owners, AnalyzedBefore(ModuleAround[o], Module)'
      PROVE  Linked(tables, o)'
  <2>1. AnalyzedBefore(ModuleAround[o], Module)
    BY <1>1, <1>2, <1>5 DEF AnalyzedBefore
  <2>. QED
    BY <1>2, <1>4, <1>5, <2>1
<1>6. DOMAIN parents' = (DOMAIN parents)' /\ DOMAIN tables' = (DOMAIN tables)'
  OBVIOUS
<1>7. ASSUME NEW i \in DOMAIN parents'
      PROVE  ModuleAround'[parents'[i]] = Module'
  BY <1>2
<1>8. ASSUME NEW o \in DOMAIN tables'
      PROVE  tables'[o].mod = IF Kind(o)' = "file" THEN None ELSE ModuleAround'[o]
  BY <1>2 DEF OfModule
<1>. QED
  BY <1>5, <1>7, <1>8 DEF ModulesAreKnown

LEMMA ParentsDescend ==
  ASSUME WalkInv, ModulesAreKnown, Descends, parents' = Append(parents, next)
  PROVE  \A i \in DOMAIN parents' : ModuleAround[parents'[i]] = Module
<1>1. next \in Nodes /\ ModuleAround[next] = Module
  BY NextIsInModule
<1>2. parents \in Seq(Nodes) /\ \A i \in DOMAIN parents : ModuleAround[parents[i]] = Module
  BY DEF WalkInv, PathIsInTree, ModulesAreKnown
<1>. QED
  BY <1>1, <1>2

LEMMA ParentsAscend ==
  ASSUME WalkInv, ModulesAreKnown, parents # <<>>, parents' = Front(parents)
  PROVE  \A i \in DOMAIN parents' : ModuleAround[parents'[i]] = Module
<1>1. parents \in Seq(Nodes) /\ \A i \in DOMAIN parents : ModuleAround[parents[i]] = Module
  BY DEF WalkInv, PathIsInTree, ModulesAreKnown
<1>2. Front(parents) = [i \in 1..Len(parents) - 1 |-> parents[i]]
  BY DEF Front
<1>. QED
  BY <1>1, <1>2

\* The module after this one: only those before it, and it, are analyzed before that.
LEMMA ModuleAfter ==
  ASSUME prog \in Programs, at \in DOMAIN prog.modules, at < Len(prog.modules),
         NEW k, k = prog.modules[at + 1]
  PROVE  /\ \A m : AnalyzedBefore(m, k) <=> AnalyzedBefore(m, Module) \/ m = Module
         /\ k # Module /\ ~AnalyzedBefore(k, Module) /\ k \in Nodes
         /\ Kind(k) \in {"file", "module"}
<1>0. Len(prog.modules) \in Nat /\ DOMAIN prog.modules = 1..Len(prog.modules)
  BY ProgramFacts
<1>1. PICK i \in DOMAIN prog.modules : i = at + 1
  BY <1>0
<1>2. k = prog.modules[i]
  BY <1>1
<1>3. \A m : AnalyzedBefore(m, k) <=> AnalyzedBefore(m, Module) \/ m = Module
  <2>1. TAKE m
  <2>2. AnalyzedBefore(m, k) <=> \E j \in 1..i - 1 : prog.modules[j] = m
    <3>1. AnalyzedBefore(m, prog.modules[i]) <=> \E j \in 1..i - 1 : prog.modules[j] = m
      BY AnalyzedFacts
    <3>. QED
      BY <1>2, <3>1
  <2>3. AnalyzedBefore(m, Module) <=> \E j \in 1..at - 1 : prog.modules[j] = m
    BY AnalyzedFacts DEF Module
  <2>4. \A j : j \in 1..i - 1 <=> j \in 1..at - 1 \/ j = at
    BY <1>0, <1>1
  <2>. QED
    BY <2>2, <2>3, <2>4 DEF Module
<1>4. ~AnalyzedBefore(k, k)
  BY <1>2, AnalyzedFacts
<1>. QED
  BY <1>2, <1>3, <1>4, ProgramFacts

LEMMA NextModuleKnown ==
  ASSUME WalkInv, ModulesAreKnown, phase = "check", Walked, parents' = parents, tables' = tables,
         prog' = prog, at' = at + 1, at < Len(prog.modules)
  PROVE  ModulesAreKnown'
<1>0. /\ prog \in Programs /\ at \in DOMAIN prog.modules /\ Module \in Nodes /\ Module \in Nat
      /\ parents = <<>> /\ TablesAreLinked /\ Len(prog.nodes) \in Nat
  BY PathFacts, TreeFacts DEF WalkInv, Walked
<1>1. PICK k : k = prog.modules[at + 1]
  OBVIOUS
<1>2. /\ Nodes' = Nodes /\ ModuleAround' = ModuleAround /\ \A n : Kind(n)' = Kind(n)
      /\ \A o : Linked(tables, o)' <=> Linked(tables', o)
      /\ \A o : Linked(tables, o) => Linked(tables', o)
      /\ Module' = k
  BY <1>0, <1>1, TreeStays, TablesStay DEF Module
<1>3. \A m : AnalyzedBefore(m, k) <=> AnalyzedBefore(m, Module) \/ m = Module
  BY <1>0, <1>1, ModuleAfter
<1>4. ASSUME NEW o \in Nodes, Kind(o) \in Owners, AnalyzedBefore(ModuleAround[o], k)
      PROVE  Linked(tables', o)
  <2>1. CASE ModuleAround[o] = Module
    <3>1. PICK f \in Nodes \cup {Len(prog.nodes) + 1} : WalkedBefore(f)
      BY DEF WalkInv, TablesAreThere
    <3>2. f \in Nat
      BY <1>0, <3>1, TreeFacts
    <3>3. /\ Module < f /\ LinkedUpTo(f)
          /\ \A i \in f..Len(prog.nodes) : Parent(i) \notin Module..f - 1
      BY <3>1 DEF WalkedBefore
    <3>4. o \in Module..f - 1
      BY <1>0, <2>1, <3>2, <3>3, NodesOfModule
    <3>. QED
      BY <1>2, <1>4, <3>3, <3>4 DEF LinkedUpTo
  <2>2. CASE AnalyzedBefore(ModuleAround[o], Module)
    BY <1>2, <1>4, <2>2 DEF ModulesAreKnown
  <2>. QED
    BY <1>3, <1>4, <2>1, <2>2
<1>5. ASSUME NEW o \in Nodes', Kind(o)' \in Owners, AnalyzedBefore(ModuleAround[o], Module)'
      PROVE  Linked(tables, o)'
  <2>1. AnalyzedBefore(ModuleAround[o], k)
    BY <1>2, <1>5 DEF AnalyzedBefore
  <2>. QED
    BY <1>2, <1>4, <1>5, <2>1
<1>6. DOMAIN parents' = {}
  BY <1>0
<1>7. ASSUME NEW o \in DOMAIN tables'
      PROVE  tables'[o].mod = IF Kind(o)' = "file" THEN None ELSE ModuleAround'[o]
  BY <1>2 DEF ModulesAreKnown
<1>. QED
  BY <1>5, <1>6, <1>7 DEF ModulesAreKnown

LEMMA ModulesStep ==
  ASSUME WalkInv, ModulesAreKnown, [Next]_vars
  PROVE  ModulesAreKnown'
<1>1. OfModule(tables) /\ \A i \in DOMAIN parents : ModuleAround[parents[i]] = Module
  BY DEF OfModule, ModulesAreKnown
<1>2. CASE EnterBlock \/ EnterModule \/ EnterFndecl \/ EnterTypedesc
  <2>1. /\ Descends /\ parents' = Append(parents, next) /\ at' = at
        /\ Kind(next) # "file" /\ Opens(tables', next)
    BY <1>2, EnteringOpens DEF Visit
  <2>2. ModuleAround[next] = Module
    BY <2>1, NextIsInModule
  <2>3. OfModule(tables')
    BY <1>1, <2>1, <2>2 DEF OfModule, Opens
  <2>. QED
    BY <2>1, <2>3, ParentsDescend, ModulesStay
<1>3. CASE EnterTypedecl \/ EnterVardecl \/ EnterOther
  <2>1. Descends /\ parents' = Append(parents, next) /\ at' = at /\ SameLinks(tables', tables)
    BY <1>3, EnteringKeeps DEF Visit
  <2>2. OfModule(tables')
    BY <1>1, <2>1 DEF OfModule, SameLinks
  <2>. QED
    BY <2>1, <2>2, ParentsDescend, ModulesStay
<1>4. CASE Descend
  <2>1. Descends /\ parents' = Append(parents, next) /\ at' = at /\ tables' = tables
    BY <1>4 DEF Descend, Visit
  <2>. QED
    BY <1>1, <2>1, ParentsDescend, ModulesStay
<1>5. CASE Ascend \/ CheckNode
  <2>1. parents # <<>> /\ parents' = Front(parents) /\ at' = at /\ tables' = tables
    BY <1>5 DEF Ascend, CheckNode, GoUp
  <2>. QED
    BY <1>1, <2>1, ParentsAscend, ModulesStay
<1>6. CASE RefuseNode \/ DescendToUndeclaredMatch \/ EndFirstPass \/ Ended \/ UNCHANGED vars
  <2>1. parents' = parents /\ at' = at /\ tables' = tables
    BY <1>6 DEF RefuseNode, DescendToUndeclaredMatch, EndFirstPass, Ended, vars
  <2>. QED
    BY <1>1, <2>1, ModulesStay
<1>7. CASE EndCheck
  <2>1. CASE ~errors /\ at < Len(prog.modules)
    <3>1. /\ phase = "check" /\ Walked /\ parents' = parents /\ tables' = tables
          /\ prog' = prog /\ at' = at + 1
      BY <1>7, <2>1 DEF EndCheck
    <3>. QED
      BY <2>1, <3>1, NextModuleKnown
  <2>2. CASE ~(~errors /\ at < Len(prog.modules))
    <3>1. parents' = parents /\ at' = at /\ tables' = tables
      BY <1>7, <2>2 DEF EndCheck
    <3>. QED
      BY <1>1, <3>1, ModulesStay
  <2>. QED
    BY <2>1, <2>2
<1>. QED
  BY <1>2, <1>3, <1>4, <1>5, <1>6, <1>7 DEF Next
-----------------------------------------------------------------------------
(* What the tables have, from one step to the next *)

LEMMA EnteringNames ==
  ASSUME WalkInv, ModulesAreKnown, NamesAreEntered,
         \/ EnterBlock \/ EnterModule \/ EnterFndecl \/ EnterTypedesc
         \/ EnterTypedecl \/ EnterVardecl \/ EnterOther
  PROVE  NamesAreEntered'
<1>1. phase = "first" /\ Descends /\ Visit
  BY EnteringOpens, EnteringKeeps
<1>2. Enters(tables')
  BY BlockEnters, ModuleEnters, FndeclEnters, TypedescEnters, SymbolsEnter, OtherEnters
<1>. QED
  BY <1>1, <1>2, NamesGained

\* Nothing is entered while the tables stay and the same is behind the walk.
LEMMA NamesStay ==
  ASSUME NamesAreEntered, TypesAreEntered, phase \in {"first", "check"}, prog' = prog, tables' = tables,
         \A n \in Nodes : \A o \in DOMAIN tables : IsEntered(n, o)' <=> IsEntered(n, o)
  PROVE  NamesAreEntered' /\ TypesAreEntered'
<1>1. Nodes' = Nodes /\ \A n : Node(n)' = Node(n) /\ Kind(n)' = Kind(n)
  BY TreeStays DEF Node
<1>2. \A o \in DOMAIN tables : DOMAIN tables[o].records = NamesEntered(o)
  BY DEF NamesAreEntered
<1>3. ASSUME NEW o \in DOMAIN tables
      PROVE  NamesEntered(o)' = NamesEntered(o)
  BY <1>1 DEF NamesEntered
<1>4. \A o \in DOMAIN tables : \A n \in Nodes :
        Kind(n) = "typedecl" /\ IsEntered(n, o)' => OfDeclaredType(tables, o, Node(n).name, n)
  BY DEF TypesAreEntered
<1>5. \A o, id, n : OfDeclaredType(tables, o, id, n)' <=> OfDeclaredType(tables, o, id, n)
  BY DEF OfDeclaredType
<1>6. ASSUME NEW o \in DOMAIN tables', NEW n \in Nodes', (Kind(n) = "typedecl")', IsEntered(n, o)'
      PROVE  OfDeclaredType(tables, o, Node(n).name, n)'
  BY <1>1, <1>4, <1>5, <1>6 DEF OfDeclaredType
<1>7. TypesAreEntered'
  BY <1>6 DEF TypesAreEntered
<1>. QED
  BY <1>2, <1>3, <1>7 DEF NamesAreEntered

\* What is entered at the next step.
LEMMA EnteredThen ==
  ASSUME prog' = prog, NEW n, NEW o, NEW k, k = Module'
  PROVE  IsEntered(n, o)' <=> /\ DeclaredIn(n, o)
                              /\ \/ AnalyzedBefore(ModuleAround[n], k)
                                 \/ ModuleAround[n] = k /\ (phase' = "first" => EnteredAt(n, o) < next')
<1>1. /\ ModuleAround' = ModuleAround
      /\ (DeclaredIn(n, o)' <=> DeclaredIn(n, o)) /\ EnteredAt(n, o)' = EnteredAt(n, o)
  BY TreeStays, DeclarationsStay
<1>2. AnalyzedBefore(ModuleAround[n], Module)' <=> AnalyzedBefore(ModuleAround[n], k)
  BY <1>1 DEF AnalyzedBefore
<1>. QED
  BY <1>1, <1>2 DEF IsEntered

\* A walk that is over has been at all nodes of the module, and is at none of them.
LEMMA WalkedAll ==
  ASSUME WalkInv, Walked
  PROVE  \A n \in Nodes : ModuleAround[n] = Module
           => n < next /\ \A i \in DOMAIN parents : parents[i] # n
<1>0. /\ prog \in Programs /\ parents = <<>> /\ ~Descends /\ DOMAIN parents = {}
      /\ Module \in Nodes /\ Module \in Nat /\ next \in Nat /\ Module <= next
  BY PathFacts DEF WalkInv, Walked
<1>1. Module < next
  BY <1>0 DEF Descends
<1>2. \A k \in next..Len(prog.nodes) : Parent(k) \notin Module..next - 1
  <2>1. \A p \in Module..next - 1 : \A k \in next..Len(prog.nodes) : Parent(k) # p
    BY <1>0 DEF WalkInv, PathIsInTree
  <2>. QED
    BY <2>1
<1>3. \A n \in Nodes : ModuleAround[n] = Module => n \in Module..next - 1
  BY <1>0, <1>1, <1>2, NodesOfModule
<1>4. \A n \in Module..next - 1 : n < next
  BY <1>0
<1>. QED
  BY <1>0, <1>3, <1>4

\* The steps of both walks but those that enter a node into the tables.
Walks == Descend \/ Ascend \/ CheckNode \/ EndFirstPass \/ EndCheck \/ UNCHANGED vars

\* What is entered and what was reached at the next step.
LEMMA ReachedThen ==
  ASSUME prog' = prog, NEW k, k = Module', NEW n
  PROVE  Reached(n)' <=> \/ AnalyzedBefore(ModuleAround[n], k)
                         \/ ModuleAround[n] = k /\ (phase' = "first" => n < next')
<1>1. ModuleAround' = ModuleAround
  BY TreeStays
<1>2. AnalyzedBefore(ModuleAround[n], Module)' <=> AnalyzedBefore(ModuleAround[n], k)
  BY <1>1 DEF AnalyzedBefore
<1>. QED
  BY <1>1, <1>2 DEF Reached

\* They go from module to module, within one, or from one pass to the other.
LEMMA WalksGo ==
  ASSUME WalkInv, Walks, phase' \in {"first", "check"}
  PROVE  /\ prog' = prog /\ tables' = tables
         /\ \/ at' = at /\ phase' = phase /\ (phase = "first" => next' = next)
            \/ at' = at /\ phase = "first" /\ phase' = "check" /\ Walked
            \/ /\ phase = "check" /\ Walked /\ at' = at + 1 /\ at < Len(prog.modules)
               /\ phase' = "first" /\ next' = prog.modules[at + 1] /\ ~errors
<1>1. CASE Descend \/ Ascend \/ CheckNode \/ UNCHANGED vars
  BY <1>1 DEF Descend, Ascend, CheckNode, GoUp, Visit, vars
<1>2. CASE EndFirstPass
  BY <1>2 DEF EndFirstPass
<1>3. CASE EndCheck
  BY <1>3 DEF EndCheck
<1>. QED
  BY <1>1, <1>2, <1>3 DEF Walks

\* Nothing is entered then, and nothing reached for the first time: what a pass ends
\* with is all of its module, and before the first node of the next module nothing
\* of that module is.
LEMMA EnteredStays ==
  ASSUME WalkInv, Walks, phase' \in {"first", "check"}
  PROVE  /\ \A n, o \in Nodes : IsEntered(n, o)' <=> IsEntered(n, o)
         /\ \A n \in Nodes : Reached(n)' <=> Reached(n)
<1>0. prog \in Programs /\ at \in DOMAIN prog.modules /\ prog' = prog
  BY WalksGo DEF WalkInv
<1>. DEFINE Was(m, e) == \/ AnalyzedBefore(m, Module)
                         \/ m = Module /\ (phase = "first" => e < next)
            Is(m, e) == \/ AnalyzedBefore(m, Module')
                        \/ m = Module' /\ (phase' = "first" => e < next')
<1>1. ASSUME NEW e \in Nodes PROVE Is(ModuleAround[e], e) <=> Was(ModuleAround[e], e)
  <2>1. PICK m, k : m = ModuleAround[e] /\ k = Module'
    OBVIOUS
  <2>2. CASE at' = at /\ phase' = phase /\ (phase = "first" => next' = next)
    <3>1. k = Module
      BY <1>0, <2>1, <2>2 DEF Module
    <3>. QED
      BY <2>1, <2>2, <3>1
  <2>3. CASE at' = at /\ phase = "first" /\ phase' = "check" /\ Walked
    <3>1. k = Module
      BY <1>0, <2>1, <2>3 DEF Module
    <3>2. m = Module => e < next
      BY <2>1, <2>3, WalkedAll
    <3>. QED
      BY <2>1, <2>3, <3>1, <3>2
  <2>4. CASE /\ phase = "check" /\ Walked /\ at' = at + 1 /\ at < Len(prog.modules)
             /\ phase' = "first" /\ next' = prog.modules[at + 1] /\ ~errors
    <3>1. k = prog.modules[at + 1] /\ next' = k
      BY <1>0, <2>1, <2>4 DEF Module
    <3>2. /\ AnalyzedBefore(m, k) <=> AnalyzedBefore(m, Module) \/ m = Module
          /\ k # Module /\ ~AnalyzedBefore(k, Module) /\ k \in Nodes
      BY <1>0, <2>4, <3>1, ModuleAfter
    <3>3. m = k => ~(e < next')
      <4>1. m <= e /\ m \in Nat /\ e \in Nat
        BY <1>0, <2>1, ModuleFacts, TreeFacts
      <4>2. k <= e => ~(e < k)
        BY <1>0, <3>2, <4>1, TreeFacts
      <4>. QED
        BY <3>1, <4>1, <4>2
    <3>. QED
      BY <2>1, <2>4, <3>2, <3>3
  <2>. QED
    BY <2>2, <2>3, <2>4, WalksGo
<1>2. ASSUME NEW n \in Nodes, NEW o \in Nodes
      PROVE  IsEntered(n, o)' <=> IsEntered(n, o)
  <2>1. IsEntered(n, o)' <=> DeclaredIn(n, o) /\ Is(ModuleAround[n], EnteredAt(n, o))
    BY <1>0, EnteredThen
  <2>2. IsEntered(n, o) <=> DeclaredIn(n, o) /\ Was(ModuleAround[n], EnteredAt(n, o))
    BY DEF IsEntered
  <2>3. DeclaredIn(n, o)
          => EnteredAt(n, o) \in Nodes /\ ModuleAround[EnteredAt(n, o)] = ModuleAround[n]
    BY <1>0, EnteredAtFacts
  <2>4. DeclaredIn(n, o) => (Is(ModuleAround[n], EnteredAt(n, o)) <=> Was(ModuleAround[n], EnteredAt(n, o)))
    <3>. SUFFICES ASSUME DeclaredIn(n, o)
                  PROVE  Is(ModuleAround[n], EnteredAt(n, o)) <=> Was(ModuleAround[n], EnteredAt(n, o))
      OBVIOUS
    <3>1. PICK e : e = EnteredAt(n, o)
      OBVIOUS
    <3>2. e \in Nodes /\ ModuleAround[e] = ModuleAround[n]
      BY <2>3, <3>1
    <3>3. Is(ModuleAround[e], e) <=> Was(ModuleAround[e], e)
      BY <1>1, <3>2
    <3>. HIDE DEF Is, Was
    <3>. QED
      BY <3>1, <3>2, <3>3
  <2>. HIDE DEF Is, Was
  <2>. QED
    BY <2>1, <2>2, <2>4
<1>3. ASSUME NEW n \in Nodes
      PROVE  Reached(n)' <=> Reached(n)
  <2>1. Reached(n)' <=> Is(ModuleAround[n], n)
    BY <1>0, ReachedThen
  <2>2. Reached(n) <=> Was(ModuleAround[n], n)
    BY DEF Reached
  <2>3. Is(ModuleAround[n], n) <=> Was(ModuleAround[n], n)
    BY <1>1
  <2>. HIDE DEF Is, Was
  <2>. QED
    BY <2>1, <2>2, <2>3
<1>. QED
  BY <1>2, <1>3

\* Types that are entered stay as they are. A new one is that of the next node.
LEMMA EnteringTypes ==
  ASSUME WalkInv, ModulesAreKnown, NamesAreEntered, TypesAreEntered,
         \/ EnterBlock \/ EnterModule \/ EnterFndecl \/ EnterTypedesc
         \/ EnterTypedecl \/ EnterVardecl \/ EnterOther
  PROVE  TypesAreEntered'
<1>0. phase = "first" /\ Descends /\ Visit
  BY EnteringOpens, EnteringKeeps
<1>1. /\ prog \in Programs /\ at \in DOMAIN prog.modules /\ next \in Nodes /\ next \in Nat
      /\ ModuleAround[next] = Module /\ DOMAIN tables \subseteq Nodes
      /\ prog' = prog /\ at' = at /\ phase' = phase /\ next' = next + 1 /\ next <= next
  BY <1>0, NextIsInModule, TreeFacts DEF WalkInv, TablesAreLinked, Visit
<1>2. Enters(tables')
  BY BlockEnters, ModuleEnters, FndeclEnters, TypedescEnters, SymbolsEnter, OtherEnters
<1>3. Nodes' = Nodes /\ \A n : Node(n)' = Node(n) /\ Kind(n)' = Kind(n)
  BY <1>1, TreeStays DEF Node
<1>4. Kind(next) = "typedecl" => OfDeclaredType(tables', ScopeAround[next], Node(next).name, next)
  <2>. SUFFICES ASSUME Kind(next) = "typedecl"
                PROVE  OfDeclaredType(tables', ScopeAround[next], Node(next).name, next)
    OBVIOUS
  <2>1. EnterTypedecl
    BY DEF EnterBlock, EnterModule, EnterFndecl, EnterTypedesc, EnterVardecl, EnterOther, Entering
  <2>2. current = ScopeAround[next] /\ current \in DOMAIN tables /\ AreTables(tables)
    BY <1>0, CurrentFacts, NewTable
  <2>3. PICK id, type : id = Node(next).name /\ type = [category |-> "defined", node |-> next]
    OBVIOUS
  <2>4. id \notin DOMAIN tables[current].records /\ tables' = Add(tables, current, id, next, type)
    BY <2>1, <2>3 DEF EnterTypedecl
  <2>5. Entry(tables', current, id, next, type)
    BY <2>2, <2>4, AddGains
  <2>. QED
    BY <2>2, <2>3, <2>5 DEF Entry, OfDeclaredType
<1>5. ASSUME NEW o \in DOMAIN tables', NEW n \in Nodes, Kind(n) = "typedecl", IsEntered(n, o)'
      PROVE  OfDeclaredType(tables', o, Node(n).name, n)
  <2>1. o \in Nodes
    BY <1>1, <1>2 DEF Enters
  <2>2. IsEntered(n, o) \/ n \in EnteredHere(next, o)
    BY <1>0, <1>1, <1>5, <2>1, EnteredNow
  <2>3. CASE n \in EnteredHere(next, o)
    <3>1. n \notin Leaves(next) /\ n \notin Described(next)
      BY <1>5 DEF Leaves, Described
    <3>2. Kind(next) = "vardecl" => Kind(next + 1) = "leaf"
      BY <1>1, LeafFacts
    <3>3. PICK here : here = EnteredHere(next, o)
      OBVIOUS
    <3>4. n \in here /\ here # {}
      BY <2>3, <3>3
    <3>5. \/ here = {next} /\ o = ScopeAround[next]
          \/ here = {next + 1} /\ Kind(next) = "vardecl"
          \/ here \in {Leaves(next), Described(next)}
      BY <1>1, <2>1, <3>3, <3>4, EnteredHereFacts
    <3>6. n = next /\ o = ScopeAround[next]
      BY <1>5, <3>1, <3>2, <3>4, <3>5
    <3>. QED
      BY <1>4, <1>5, <3>6
  <2>4. CASE IsEntered(n, o)
    <3>1. Node(n).name \in NamesEntered(o)
      BY <2>4 DEF NamesEntered
    <3>2. o # next
      BY <1>0, <1>1, <3>1, NothingBefore
    <3>3. o \in DOMAIN tables
      BY <1>2, <3>2 DEF Enters
    <3>4. Node(n).name \in DOMAIN tables[o].records
      BY <1>0, <3>1, <3>3 DEF NamesAreEntered
    <3>5. tables'[o].records[Node(n).name] = tables[o].records[Node(n).name]
      BY <1>2, <3>2, <3>4 DEF Enters
    <3>6. OfDeclaredType(tables, o, Node(n).name, n)
      BY <1>0, <1>5, <2>4, <3>3 DEF TypesAreEntered
    <3>. QED
      BY <3>5, <3>6 DEF OfDeclaredType
  <2>. QED
    BY <2>2, <2>3, <2>4
<1>6. ASSUME NEW o \in DOMAIN tables', NEW n \in Nodes', (Kind(n) = "typedecl")', IsEntered(n, o)'
      PROVE  OfDeclaredType(tables, o, Node(n).name, n)'
  <2>1. Kind(n) = "typedecl" /\ n \in Nodes /\ Node(n)' = Node(n)
    BY <1>3, <1>6
  <2>2. OfDeclaredType(tables', o, Node(n).name, n)
    BY <1>5, <1>6, <2>1
  <2>. QED
    BY <2>1, <2>2 DEF OfDeclaredType
<1>. QED
  BY <1>6 DEF TypesAreEntered

LEMMA NamesStep ==
  ASSUME WalkInv, ModulesAreKnown, NamesAreEntered, TypesAreEntered, [Next]_vars
  PROVE  NamesAreEntered' /\ TypesAreEntered'
<1>1. CASE \/ EnterBlock \/ EnterModule \/ EnterFndecl \/ EnterTypedesc
           \/ EnterTypedecl \/ EnterVardecl \/ EnterOther
  BY <1>1, EnteringNames, EnteringTypes
<1>2. CASE phase' \notin {"first", "check"}
  BY <1>2 DEF NamesAreEntered, TypesAreEntered
<1>3. CASE Walks /\ phase' \in {"first", "check"}
  <2>1. prog' = prog /\ tables' = tables /\ phase \in {"first", "check"} /\ DOMAIN tables \subseteq Nodes
    BY <1>3, WalksGo DEF WalkInv, TablesAreLinked
  <2>2. \A n, o \in Nodes : IsEntered(n, o)' <=> IsEntered(n, o)
    BY <1>3, EnteredStays
  <2>3. \A n \in Nodes : \A o \in DOMAIN tables : IsEntered(n, o)' <=> IsEntered(n, o)
    BY <2>1, <2>2
  <2>. QED
    BY <2>1, <2>3, NamesStay
<1>4. CASE RefuseNode \/ DescendToUndeclaredMatch \/ Ended
  BY <1>2, <1>4 DEF RefuseNode, DescendToUndeclaredMatch, Ended, vars
<1>. QED
  BY <1>1, <1>2, <1>3, <1>4 DEF Next, Walks
-----------------------------------------------------------------------------
(* Lookups *)

LEMMA MeaningStays ==
  ASSUME prog' = prog
  PROVE  /\ \A o, id, when : Declarations(o, id, when)' = Declarations(o, id, when)
         /\ \A o, id, when : ScopeOf(o, id, when)' = ScopeOf(o, id, when)
<1>1. /\ Nodes' = Nodes /\ ScopeAround' = ScopeAround /\ ModuleAround' = ModuleAround
      /\ \A n : Node(n)' = Node(n) /\ Kind(n)' = Kind(n) /\ Parent(n)' = Parent(n)
      /\ \A n, o : DeclaredIn(n, o)' <=> DeclaredIn(n, o)
  BY TreeStays, DeclarationsStay DEF Node
<1>2. ASSUME NEW n, NEW o, NEW when
      PROVE  IsKnown(n, o, when)' <=> IsKnown(n, o, when)
  BY <1>1 DEF IsKnown, KnownFrom, IsArgument, AnalyzedBefore
<1>3. ASSUME NEW o, NEW id, NEW when
      PROVE  Declarations(o, id, when)' = Declarations(o, id, when)
  BY <1>1, <1>2 DEF Declarations
<1>4. ASSUME NEW o
      PROVE  Imports(o)' = Imports(o)
  BY <1>1 DEF Imports
<1>5. ASSUME NEW o, NEW id, NEW when
      PROVE  ScopeOf(o, id, when)' = ScopeOf(o, id, when)
  <2>1. WayOut(id, when)' = WayOut(id, when)
    BY <1>1, <1>3 DEF WayOut
  <2>2. PICK out : out = WayOut(id, when)
    OBVIOUS
  <2>3. ASSUME NEW from, NEW s
        PROVE  ScopeOrImport(out, from, s, id)' = ScopeOrImport(out, from, s, id)
    BY <1>1, <1>4 DEF ScopeOrImport
  <2>. DEFINE From == CHOOSE f : f = [s \in Nodes |-> ScopeOrImport(out, f, s, id)]
  <2>4. ScopeOf(o, id, when) = From[o]
    BY <2>2 DEF ScopeOf
  <2>5. ScopeOf(o, id, when)' = From'[o]
    BY <2>1, <2>2 DEF ScopeOf
  <2>6. From' = From
    BY <1>1, <2>3
  <2>. QED
    BY <2>4, <2>5, <2>6
<1>. QED
  BY <1>3, <1>5

LEMMA LookStays ==
  ASSUME prog' = prog, NEW look
  PROVE  InnermostDeclaration(look)' <=> InnermostDeclaration(look)
<1>1. /\ Nodes' = Nodes /\ ScopeAround' = ScopeAround /\ ModuleAround' = ModuleAround
      /\ \A n : Kind(n)' = Kind(n)
  BY TreeStays
<1>2. PICK o : o = IF Kind(look.node) \in Owners THEN look.node ELSE ScopeAround[look.node]
  OBVIOUS
<1>3. PICK when : when = AtEndOf(look.node)
  OBVIOUS
<1>4. InnermostDeclaration(look) <=> look.table = ScopeOf(o, look.id, when)
  BY <1>2, <1>3 DEF InnermostDeclaration
<1>5. o = (IF Kind(look.node) \in Owners THEN look.node ELSE ScopeAround[look.node])'
  BY <1>1, <1>2
<1>6. when = AtEndOf(look.node)'
  BY <1>1, <1>3 DEF AtEndOf
<1>7. InnermostDeclaration(look)' <=> look.table = ScopeOf(o, look.id, when)'
  BY <1>5, <1>6 DEF InnermostDeclaration
<1>. QED
  BY <1>4, <1>7, MeaningStays

LEMMA FoundByCheck ==
  ASSUME WalkInv, ModulesAreKnown, NamesAreEntered, CheckNode
  PROVE  LookupsAreLexical'
<1>0. /\ prog \in Programs /\ phase = "check" /\ parents # <<>> /\ prog' = prog
      /\ found' = {[node |-> Top, id |-> id, table |-> Lookup(tables, current, id)] :
                     id \in NamesAt(Top)}
  BY DEF WalkInv, CheckNode, GoUp
<1>1. AreTrees(tables)
  BY TablesAreTrees
<1>2. ASSUME NEW look \in found'
      PROVE  InnermostDeclaration(look)
  <2>1. PICK id \in NamesAt(Top) :
          look = [node |-> Top, id |-> id, table |-> Lookup(tables, current, id)]
    BY <1>0
  <2>2. look.node = Top /\ look.id = id /\ look.table = Lookup(tables, current, id)
    BY <2>1
  <2>3. Kind(Top) \notin Borrowers
    BY DEF NamesAt, Borrowers
  <2>4. /\ current = IF Kind(Top) \in Owners THEN Top ELSE ScopeAround[Top]
        /\ current \in ScopesUpto(Len(prog.nodes) + 1)
    BY <1>0, <2>3, CheckLooksFrom
  <2>5. PICK R : R = ScopesUpto(Len(prog.nodes) + 1)
    OBVIOUS
  <2>6. PICK when : when = AtEndOf(Top)
    OBVIOUS
  <2>7. Serves(tables, R, id, when)
    BY <1>0, <2>5, <2>6, ChecksAreServed
  <2>8. current \in R
    BY <2>4, <2>5
  <2>9. Lookup(tables, current, id) = ScopeOf(current, id, when)
    BY <1>0, <1>1, <2>7, <2>8, LookupFindsScope
  <2>. QED
    BY <2>2, <2>4, <2>6, <2>9 DEF InnermostDeclaration
<1>. QED
  BY <1>0, <1>2, LookStays DEF LookupsAreLexical

LEMMA LookupsStep ==
  ASSUME WalkInv, ModulesAreKnown, NamesAreEntered, LookupsAreLexical, [Next]_vars
  PROVE  LookupsAreLexical'
<1>1. CASE CheckNode
  BY <1>1, FoundByCheck
<1>2. CASE ~CheckNode
  <2>1. prog' = prog /\ (found' = {} \/ found' = found)
    BY <1>2 DEF Next, EnterBlock, EnterModule, EnterFndecl, EnterTypedesc, EnterTypedecl, EnterVardecl,
                EnterOther, RefuseNode, Descend, Visit, DescendToUndeclaredMatch, Ascend, GoUp,
                EndFirstPass, EndCheck, Ended, vars
  <2>. QED
    BY <2>1, LookStays DEF LookupsAreLexical
<1>. QED
  BY <1>1, <1>2
-----------------------------------------------------------------------------
(* What a lookup finds is declared *)

LEMMA AskingFinds ==
  ASSUME NEW n, NEW D, NEW R, NEW base, NEW deps, NEW rank, NEW others, NEW f, NEW W,
         StartAlike(n, D, D, R, base, deps, base, deps, rank), Asks(D, base, deps, others, f),
         \A o \in R : base[o] # None => base[o] \in W
  PROVE  \A o \in R : f[o] # None => f[o] \in W
<1>0. /\ n \in Nat /\ R \subseteq D
      /\ \A o \in R : /\ deps[o] \in Seq(R) /\ rank[o] \in 0..n
                      /\ \A i \in DOMAIN deps[o] : rank[deps[o][i]] < rank[o]
  BY DEF StartAlike
<1>. DEFINE S == {k \in 0..n : \A o \in R : rank[o] = k => f[o] = None \/ f[o] \in W}
<1>1. ASSUME NEW k \in 0..n, \A j \in 0..n : j < k => j \in S
      PROVE  k \in S
  <2>. SUFFICES ASSUME NEW o \in R, rank[o] = k PROVE f[o] = None \/ f[o] \in W
    OBVIOUS
  <2>1. f[o] = OwnOrAsked(base, deps, others, f, o)
    BY <1>0 DEF Asks
  <2>2. PICK d : d = deps[o]
    OBVIOUS
  <2>3. PICK with : with = Offering(d, others, f)
    OBVIOUS
  <2>4. d \in Seq(R) /\ Len(d) \in Nat /\ DOMAIN d = 1..Len(d)
    BY <1>0, <2>2
  <2>5. with \in SUBSET (0..Len(d)) /\ with \subseteq DOMAIN d
    BY <2>3, <2>4 DEF Offering
  <2>6. with # {} => Min(with) \in DOMAIN d
    BY <2>4, <2>5, LeastIsIn
  <2>7. ASSUME NEW i \in DOMAIN d
        PROVE  f[d[i]] = None \/ f[d[i]] \in W
    <3>1. d[i] \in R /\ rank[d[i]] \in 0..n /\ rank[d[i]] < k
      BY <1>0, <2>2, <2>4
    <3>2. rank[d[i]] \in S
      BY <1>1, <3>1
    <3>. QED
      BY <3>1, <3>2
  <2>8. Asking(d, others, f) = IF with = {} THEN None ELSE f[d[Min(with)]]
    BY <2>3 DEF Asking
  <2>9. Asking(d, others, f) = None \/ Asking(d, others, f) \in W
    BY <2>6, <2>7, <2>8
  <2>. QED
    BY <2>1, <2>2, <2>9 DEF OwnOrAsked
<1>2. \A k \in 0..n : k \in S
  <2>. HIDE DEF S
  <2>. QED
    BY <1>0, <1>1, PositionInduction
<1>. QED
  BY <1>0, <1>2

\* The scope in which a name is declared, if there is one, is one of those that lead
\* to each other only.
LeadsOut(R) == /\ R \subseteq Nodes
               /\ \A s \in R : /\ ScopeAround[s] # None => ScopeAround[s] \in R
                              /\ ImportsOf(s) \in Seq(R)
LEMMA ScopeIsAmong ==
  ASSUME prog \in Programs, NEW R, LeadsOut(R), NEW id, NEW when,
         NEW t \in R, ScopeOf(t, id, when) # None
  PROVE  ScopeOf(t, id, when) \in R /\ Declarations(ScopeOf(t, id, when), id, when) # {}
<1>2. PICK c, g : IsWayOut(id, when, c) /\ IsLookup(Nodes, id, c, g) /\ ScopeOf(t, id, when) = g[t]
  BY ScopeOfDef
<1>3. R \subseteq Nodes
  BY DEF LeadsOut
<1>. DEFINE L == Len(prog.nodes)
            W == {s \in R : Declarations(s, id, when) # {}}
            S == {s \in 0..L : s \in R => c[s] = None \/ c[s] \in W}
<1>4. L \in Nat /\ Nodes = 1..L
  BY TreeFacts
<1>5. ASSUME NEW s \in 0..L, \A j \in 0..L : j < s => j \in S
      PROVE  s \in S
  <2>. SUFFICES ASSUME s \in R PROVE c[s] = None \/ c[s] \in W
    OBVIOUS
  <2>1. s \in Nodes /\ (ScopeAround[s] # None => ScopeAround[s] \in R)
    BY <1>3 DEF LeadsOut
  <2>3. c[s] = IF Declarations(s, id, when) # {} THEN s
               ELSE IF ScopeAround[s] = None THEN None ELSE c[ScopeAround[s]]
    BY <1>2, <2>1 DEF IsWayOut
  <2>4. ScopeAround[s] # None => c[ScopeAround[s]] = None \/ c[ScopeAround[s]] \in W
    <3>. SUFFICES ASSUME ScopeAround[s] # None
                  PROVE c[ScopeAround[s]] = None \/ c[ScopeAround[s]] \in W
      OBVIOUS
    <3>1. ScopeAround[s] \in R /\ ScopeAround[s] \in Nodes /\ ScopeAround[s] \in 0..s - 1
      BY <1>3, <2>1, ScopeFacts
    <3>2. ScopeAround[s] \in 0..L /\ ScopeAround[s] < s
      BY <1>4, <3>1
    <3>. QED
      BY <1>5, <3>1, <3>2
  <2>. QED
    BY <2>3, <2>4
<1>6. \A s \in R : c[s] # None => c[s] \in W
  <2>1. \A s \in 0..L : s \in S
    <3>. HIDE DEF S, L
    <3>. QED
      BY <1>4, <1>5, PositionInduction
  <2>. QED
    BY <1>3, <1>4, <2>1
<1>. DEFINE rank == [o \in Nodes |-> RankOf(o)]
            deps == ImportLists(Nodes)
<1>7. ASSUME NEW o \in R
      PROVE  /\ deps[o] \in Seq(R) /\ rank[o] \in 0..Len(prog.modules)
             /\ \A i \in DOMAIN deps[o] : rank[deps[o][i]] < rank[o]
  <2>1. o \in Nodes
    BY <1>3
  <2>2. PICK d : d = ImportsOf(o)
    OBVIOUS
  <2>3. deps[o] = d
    BY <2>1, <2>2 DEF ImportLists
  <2>4. d \in Seq(R)
    BY <2>2 DEF LeadsOut
  <2>5. rank[o] = RankOf(o) /\ RankOf(o) \in 0..Len(prog.modules)
    BY <2>1, ImportFacts
  <2>6. \A i \in DOMAIN d : d[i] \in Nodes /\ RankOf(d[i]) < RankOf(o)
    BY <2>1, <2>2, ImportFacts
  <2>7. \A i \in DOMAIN d : rank[d[i]] < rank[o]
    BY <2>5, <2>6
  <2>. HIDE DEF rank, deps
  <2>. QED
    BY <2>3, <2>4, <2>5, <2>7
<1>8. Len(prog.modules) \in Nat
  BY ProgramFacts
<1>9. \A o \in R : g[o] # None => g[o] \in W
  <2>1. PICK D, dd, r, others, n, w :
          /\ D = Nodes /\ dd = deps /\ r = rank
          /\ others = Others(id) /\ n = Len(prog.modules) /\ w = W
    OBVIOUS
  <2>. HIDE DEF rank, deps, W
  <2>2. StartAlike(n, D, D, R, c, dd, c, dd, r)
    BY <1>3, <1>7, <1>8, <2>1 DEF StartAlike
  <2>3. Asks(D, c, dd, others, g)
    BY <1>2, <2>1 DEF IsLookup, deps
  <2>4. \A o \in R : c[o] # None => c[o] \in w
    BY <1>6, <2>1
  <2>5. \A o \in R : g[o] # None => g[o] \in w
    BY ONLY <2>2, <2>3, <2>4, AskingFinds
  <2>. QED
    BY <2>1, <2>5
<1>. QED
  BY <1>2, <1>9

LEMMA ScopeIsFound ==
  ASSUME prog \in Programs, NEW tabs, AreTrees(tabs), NEW R, NEW id, NEW when,
         Serves(tabs, R, id, when), NEW t \in R, ScopeOf(t, id, when) # None
  PROVE  ScopeOf(t, id, when) \in R /\ Declarations(ScopeOf(t, id, when), id, when) # {}
<1>1. R \subseteq Nodes
  BY DEF Serves, AreTrees
<1>2. \A s \in R : (ScopeAround[s] # None => ScopeAround[s] \in R) /\ ImportsOf(s) \in Seq(R)
  BY DEF Serves
<1>3. LeadsOut(R)
  BY <1>1, <1>2 DEF LeadsOut
<1>. QED
  BY <1>3, ScopeIsAmong

\* The tables have the declared types as such.
TypesAreServed(tabs, R, id, when) ==
  \A s \in R : \A d \in Declarations(s, id, when) :
    Kind(d) = "typedecl" => OfDeclaredType(tabs, s, id, d)

\* A symbol whose type is a declared one is entered with it.
LEMMA LeafPoints ==
  ASSUME prog \in Programs, NEW tabs, AreTables(tabs), AreTrees(tabs), NEW R, NEW t \in DOMAIN tabs,
         NEW n, NEW st \in R, NEW when, NEW id, id = Node(n).ref, id \notin Elementary,
         Serves(tabs, R, id, when), TypesAreServed(tabs, R, id, when),
         CanAddLeaf(tabs, t, st, n),
         NEW d, d = DeclarationOf(st, id, when), Kind(d) = "typedecl"
  PROVE  OfDeclaredType(AddLeaf(tabs, t, st, n), t, Node(n).name, d)
<1>1. PICK s : s = Lookup(tabs, st, id)
  OBVIOUS
<1>2. s # None /\ s = ScopeOf(st, id, when)
  BY <1>1, LookupFindsScope DEF CanAddLeaf, Known
<1>3. s \in R /\ Declarations(s, id, when) # {}
  BY <1>2, ScopeIsFound
<1>4. d \in Declarations(s, id, when)
  BY <1>2, <1>3 DEF DeclarationOf
<1>5. OfDeclaredType(tabs, s, id, d) /\ Node(d).name = id
  BY <1>3, <1>4 DEF TypesAreServed, Declarations
<1>6. PICK type : type = [category |-> "defined", node |-> d]
  OBVIOUS
<1>7. type.category = "defined" /\ type.node = d
  BY <1>6
<1>8. PICK r : r = tabs[s].records[id]
  OBVIOUS
<1>9. r.node = d /\ r.type = type
  BY <1>5, <1>6, <1>8 DEF OfDeclaredType
<1>10. Record(tabs, st, id) = r
  BY <1>1, <1>8 DEF Record
<1>11. TypeOf(tabs, st, id) = type
  BY <1>9, <1>10 DEF TypeOf
<1>12. (IF t = st THEN Node(type.node).name ELSE Node(n).ref) = id
  BY <1>5, <1>7
<1>13. AddLeaf(tabs, t, st, n) = Add(tabs, t, Node(n).name, d, type)
  <2>1. Record(tabs, st, id).node = d
    BY <1>9, <1>10
  <2>. QED
    BY <1>7, <1>11, <1>12, <2>1 DEF AddLeaf
<1>14. PICK name : name = Node(n).name
  OBVIOUS
<1>15. name \notin DOMAIN tabs[t].records
  BY <1>14 DEF CanAddLeaf
<1>16. Entry(Add(tabs, t, name, d, type), t, name, d, type)
  BY <1>15, AddGains
<1>. QED
  BY <1>6, <1>13, <1>14, <1>16 DEF Entry, OfDeclaredType
-----------------------------------------------------------------------------
(* Type descriptions have no nested nodes *)

LEMMA DescriptionIsFlat ==
  ASSUME prog \in Programs, NEW s \in Nodes, Kind(s) = "typedesc",
         NEW k \in Nodes, Parent(k) = s, NEW j \in Nodes, s < j, j < k
  PROVE  Parent(j) = s /\ Kind(j) \in {"leaf", "use"}
<1>. DEFINE L == Len(prog.nodes)
            S == {i \in 0..L : s < i /\ i < k => Parent(i) = s}
<1>0. L \in Nat /\ Nodes = 1..L /\ s \in Nat \ {0} /\ k \in Nat /\ s # None
  BY TreeFacts DEF None
<1>1. ASSUME NEW i \in 0..L, \A l \in 0..L : l < i => l \in S
      PROVE  i \in S
  <2>. SUFFICES ASSUME s < i, i < k PROVE Parent(i) = s
    OBVIOUS
  <2>1. i \in Nodes /\ Parent(i) \in Nat /\ Parent(i) < i
    BY <1>0, TreeFacts
  <2>2. s <= Parent(i)
    BY <1>0, <2>1, TreeFacts
  <2>3. CASE s < Parent(i)
    <3>1. Parent(i) \in 0..L /\ Parent(i) \in Nodes /\ Parent(i) < k /\ Parent(i) # None
      BY <1>0, <2>1, <2>3 DEF None
    <3>2. Parent(Parent(i)) = s
      BY <1>1, <2>1, <2>3, <3>1
    <3>3. Kind(Parent(i)) \in {"leaf", "use"}
      BY <1>0, <3>1, <3>2, LeafFacts
    <3>. QED
      BY <2>1, <3>1, <3>3, LeafFacts
  <2>. QED
    BY <1>0, <2>1, <2>2, <2>3
<1>2. \A i \in 0..L : i \in S
  <2>. HIDE DEF S, L
  <2>. QED
    BY <1>0, <1>1, PositionInduction
<1>3. Parent(j) = s
  BY <1>0, <1>2
<1>. QED
  BY <1>0, <1>3, LeafFacts
-----------------------------------------------------------------------------
(* Symbols and their types *)

LEMMA PointsStay ==
  ASSUME prog' = prog, NEW n
  PROVE  PointsToItsType(tables, n)' <=> PointsToItsType(tables', n)
<1>2. /\ Nodes' = Nodes /\ ScopeAround' = ScopeAround /\ ModuleAround' = ModuleAround
      /\ \A k : Node(k)' = Node(k) /\ Kind(k)' = Kind(k) /\ Parent(k)' = Parent(k)
      /\ \A k, o : DeclaredIn(k, o)' <=> DeclaredIn(k, o)
  BY TreeStays, DeclarationsStay DEF Node
<1>3. PICK o, look, id, name, when, end :
        /\ look = LookedUpAt(n) /\ o = ScopeAround[look] /\ id = Node(n).ref /\ when = Before(look)
        /\ name = Node(n).name /\ end = AtEndOf(n)
  OBVIOUS
<1>4. IsArgument(n)' <=> IsArgument(n)
  BY <1>2 DEF IsArgument
<1>5. Parent(Parent(n))' = Parent(Parent(n))
  BY DEF Parent, Node
<1>6. look = LookedUpAt(n)'
  BY <1>3, <1>4, <1>5 DEF LookedUpAt
<1>7. when = Before(look)' /\ o = ScopeAround'[look] /\ id = Node(n)'.ref
  BY <1>2, <1>3 DEF Before
<1>8. DeclarationOf(o, id, when)' = DeclarationOf(o, id, when)
  <2>1. PICK s : s = ScopeOf(o, id, when)
    OBVIOUS
  <2>2. s = ScopeOf(o, id, when)'
    BY <2>1, MeaningStays
  <2>3. Declarations(s, id, when)' = Declarations(s, id, when)
    BY MeaningStays
  <2>. QED
    BY <2>1, <2>2, <2>3 DEF DeclarationOf
<1>9. TypeNamedBy(n)' = TypeNamedBy(n)
  <2>1. TypeNamedBy(n) = DeclarationOf(o, id, when)
    BY <1>3 DEF TypeNamedBy
  <2>2. TypeNamedBy(n)' = DeclarationOf(o, id, when)'
    BY <1>6, <1>7 DEF TypeNamedBy
  <2>. QED
    BY <1>8, <2>1, <2>2
<1>10. NameIsNew(n)' <=> NameIsNew(n)
  <2>1. NameIsNew(n) <=> \A s \in Nodes : DeclaredIn(n, s) => Declarations(s, name, end) \subseteq {n}
    BY <1>3 DEF NameIsNew
  <2>2. end = AtEndOf(n)' /\ name = Node(n)'.name
    BY <1>2, <1>3 DEF AtEndOf
  <2>3. NameIsNew(n)' <=> \A s \in Nodes : DeclaredIn(n, s) => Declarations(s, name, end)' \subseteq {n}
    BY <1>2, <2>2 DEF NameIsNew
  <2>. QED
    BY <2>1, <2>3, MeaningStays
<1>11. PICK d : d = TypeNamedBy(n)
  OBVIOUS
<1>12. Kind(TypeNamedBy(n))' = Kind(d)
  BY <1>9, <1>11 DEF Kind, Node
<1>. QED
  BY <1>2, <1>4, <1>5, <1>9, <1>10, <1>11, <1>12
  DEF PointsToItsType, HomeOf, IsTyped, OfDeclaredType

LEMMA HomeFacts ==
  ASSUME prog \in Programs, NEW n \in Nodes, Kind(n) = "leaf"
  PROVE  /\ HomeOf(n) \in Nodes /\ DeclaredIn(n, HomeOf(n))
         /\ ModuleAround[HomeOf(n)] = ModuleAround[n]
<1>1. /\ Parent(n) # None /\ Parent(n) \in Nodes
      /\ Kind(Parent(n)) # "file" => Parent(Parent(n)) # None /\ Parent(Parent(n)) \in Nodes
  BY TreeFacts
<1>2. ScopeAround[n] # None /\ ScopeAround[n] \in Nodes
  BY ScopeOfSome, ScopeFacts
<1>3. HomeOf(n) \in Nodes /\ DeclaredIn(n, HomeOf(n))
  BY <1>1, <1>2 DEF HomeOf, IsArgument, DeclaredIn
<1>. QED
  BY <1>3, DeclarationFacts

\* A new name is that of one declaration only.
LEMMA NewNameIsIts ==
  ASSUME prog \in Programs, NEW n \in Nodes, Kind(n) = "leaf", NameIsNew(n),
         NEW k \in Nodes, DeclaredIn(k, HomeOf(n)), Node(k).name = Node(n).name
  PROVE  k = n
<1>1. PICK o \in Nodes : o = HomeOf(n)
  BY HomeFacts
<1>2. DeclaredIn(n, o) /\ ModuleAround[o] = ModuleAround[n] /\ DeclaredIn(k, o)
  BY <1>1, HomeFacts
<1>3. ModuleAround[k] = ModuleAround[n]
  <2>1. CASE Kind(k) = "module"
    <3>1. o = Parent(k) /\ Kind(o) = "file"
      BY <1>2, <2>1, DeclarationFacts
    <3>2. ModuleAround[n] = o
      BY <1>2, <3>1, ModuleFacts
    <3>3. \E i \in DOMAIN prog.modules : prog.modules[i] = o
      BY <3>2, ModulesAreListed
    <3>. QED
      BY <2>1, <3>1, <3>3, ProgramFacts
  <2>2. CASE Kind(k) # "module"
    BY <1>2, <2>2, DeclarationFacts
  <2>. QED
    BY <2>1, <2>2
<1>4. PICK end, id : end = AtEndOf(n) /\ id = Node(n).name
  OBVIOUS
<1>5. IsKnown(k, o, end)
  <2>1. end.module = ModuleAround[n] /\ end.node = Len(prog.nodes) + 1
    BY <1>4 DEF AtEndOf
  <2>2. KnownFrom(k, o) \in Nodes
    BY DEF KnownFrom
  <2>3. KnownFrom(k, o) < end.node
    BY <2>1, <2>2, TreeFacts
  <2>. QED
    BY <1>3, <2>1, <2>3 DEF IsKnown
<1>6. k \in Declarations(o, id, end)
  BY <1>2, <1>4, <1>5 DEF Declarations
<1>7. Declarations(o, id, end) \subseteq {n}
  BY <1>2, <1>4 DEF NameIsNew
<1>. QED
  BY <1>6, <1>7

\* If what is entered points to its type, everything does.
HasItsType(tabs, n) == OfDeclaredType(tabs, HomeOf(n), Node(n).name, TypeNamedBy(n))
NewSymbolsPoint(tabs) ==
  \A n \in Nodes : Kind(n) = "leaf" /\ n \in EnteredHere(next, HomeOf(n)) /\ IsTyped(n)
                     => HasItsType(tabs, n)
LEMMA EnteringPoints ==
  ASSUME prog \in Programs, prog' = prog, Enters(tables'), NewSymbolsPoint(tables'),
         SymbolsPointToTypes
  PROVE  SymbolsPointToTypes'
<1>0. Nodes' = Nodes /\ \A n : Kind(n)' = Kind(n)
  BY TreeStays
<1>1. ASSUME NEW n \in Nodes, Kind(n) = "leaf",
             HomeOf(n) \in DOMAIN tables', Node(n).name \in DOMAIN tables'[HomeOf(n)].records,
             NameIsNew(n), IsTyped(n)
      PROVE  HasItsType(tables', n)
  <2>1. PICK o, name : o = HomeOf(n) /\ name = Node(n).name
    OBVIOUS
  <2>2. CASE name \in NamesOf(EnteredHere(next, o))
    <3>1. PICK k \in EnteredHere(next, o) : Node(k).name = name
      BY <2>2 DEF NamesOf
    <3>2. k \in Nodes /\ DeclaredIn(k, o)
      BY <3>1 DEF EnteredHere
    <3>3. k = n
      BY <1>1, <2>1, <3>1, <3>2, NewNameIsIts
    <3>. QED
      BY <1>1, <2>1, <3>1, <3>3 DEF NewSymbolsPoint
  <2>3. CASE name \notin NamesOf(EnteredHere(next, o))
    <3>1. o # next /\ name \in DOMAIN tables[o].records /\ o \in DOMAIN tables
      BY <1>1, <2>1, <2>3 DEF Enters
    <3>2. tables'[o].records[name] = tables[o].records[name]
      BY <1>1, <2>1, <3>1 DEF Enters
    <3>3. HasItsType(tables, n)
      BY <1>1, <2>1, <3>1 DEF SymbolsPointToTypes, PointsToItsType, HasItsType
    <3>. QED
      BY <2>1, <3>2, <3>3 DEF HasItsType, OfDeclaredType
  <2>. QED
    BY <2>2, <2>3
<1>2. \A n \in Nodes : Kind(n) = "leaf" => PointsToItsType(tables', n)
  BY <1>1 DEF PointsToItsType, HasItsType
<1>. QED
  BY <1>0, <1>2, PointsStay DEF SymbolsPointToTypes

LEMMA ServesFrom ==
  ASSUME prog \in Programs, at \in DOMAIN prog.modules, NEW T, NEW e \in Nat, NEW id, NEW when,
         \A s \in ScopesUpto(e) : /\ s \in DOMAIN T /\ T[s].outer = ScopeAround[s]
                                  /\ HasDeclared(T, s, id, when)
  PROVE  Serves(T, ScopesUpto(e), id, when)
<1>1. ASSUME NEW s \in ScopesUpto(e)
      PROVE  /\ T[s].outer = ScopeAround[s]
             /\ ScopeAround[s] # None => ScopeAround[s] \in ScopesUpto(e)
             /\ HasDeclared(T, s, id, when)
             /\ ImportsOf(s) \in Seq(ScopesUpto(e))
  BY ScopesLeadOut, ScopesLeadToImports
<1>2. ScopesUpto(e) \subseteq DOMAIN T
  OBVIOUS
<1>. QED
  BY <1>1, <1>2 DEF Serves
-----------------------------------------------------------------------------
(* Where leaves are entered, the tables have what is declared before them *)

\* The types that are looked up when node k is entered are those known at node n.
EntersLeaf(k, n) ==
  \/ Kind(k) \in {"fndecl", "typedecl"} /\ n = k
  \/ Kind(k) = "vardecl" /\ n = k + 1
  \/ Kind(k) = "typedesc" /\ n \in Leaves(k)

LEMMA EntersLeafFacts ==
  ASSUME prog \in Programs, NEW k \in Nodes, NEW n, EntersLeaf(k, n)
  PROVE  /\ n \in Nodes /\ k <= n /\ ModuleAround[n] = ModuleAround[k]
         /\ Kind(k) = "typedesc" => Parent(n) = k /\ k < n
<1>1. Len(prog.nodes) \in Nat /\ Nodes = 1..Len(prog.nodes) /\ k \in Nat \ {0} /\ k # None
  BY TreeFacts DEF None
<1>2. CASE Kind(k) \in {"fndecl", "typedecl"} /\ n = k
  BY <1>1, <1>2
<1>3. CASE Kind(k) = "vardecl" /\ n = k + 1
  <2>1. n \in Nodes /\ Parent(n) = k /\ Kind(n) = "leaf"
    BY <1>3, LeafFacts
  <2>2. ModuleAround[n] = ModuleAround[Parent(n)]
    BY <1>1, <2>1, ModuleTurn
  <2>. QED
    BY <1>1, <1>3, <2>1, <2>2
<1>4. CASE Kind(k) = "typedesc" /\ n \in Leaves(k)
  <2>1. n \in Nodes /\ Parent(n) = k /\ Kind(n) = "leaf"
    BY <1>1, <1>4 DEF Leaves, Parent
  <2>2. ModuleAround[n] = ModuleAround[Parent(n)] /\ Parent(n) < n
    BY <1>1, <2>1, ModuleTurn, TreeFacts
  <2>. QED
    BY <1>1, <1>4, <2>1, <2>2, TreeFacts
<1>. QED
  BY <1>2, <1>3, <1>4 DEF EntersLeaf

\* What is declared around a node of the module under analysis is before it.
LEMMA ScopeIsBehind ==
  ASSUME prog \in Programs, at \in DOMAIN prog.modules, next \in Nodes, ModuleAround[next] = Module,
         NEW s \in ScopesUpto(next)
  PROVE  /\ s \in Nodes /\ Kind(s) \in Owners
         /\ Kind(next) # "file" => s # next
         /\ Kind(next) # "file" /\ ModuleAround[s] = Module => s < next
<1>1. ~AnalyzedBefore(Module, Module)
  BY AnalyzedFacts DEF Module
<1>2. s \in Nodes /\ s \in Nat /\ next \in Nat
  BY TreeFacts DEF ScopesUpto
<1>3. ASSUME Kind(s) = "file", Kind(next) # "file", ModuleAround[s] = Module
      PROVE  s < next
  <2>1. ModuleAround[s] = s
    BY <1>2, <1>3, ModuleFacts
  <2>2. s <= next /\ s # next
    BY <1>3, <2>1, ModuleFacts
  <2>. QED
    BY <1>2, <2>2
<1>4. ASSUME Kind(next) # "file", ModuleAround[s] = Module
      PROVE  s < next
  BY <1>1, <1>3, <1>4 DEF ScopesUpto
<1>5. Kind(next) # "file" => s # next
  BY <1>1, <1>2 DEF ScopesUpto
<1>. QED
  BY <1>2, <1>4, <1>5 DEF ScopesUpto

LEMMA KnownWhenEntered ==
  ASSUME prog \in Programs, at \in DOMAIN prog.modules, phase = "first", next \in Nodes,
         ModuleAround[next] = Module, NEW n, EntersLeaf(next, n),
         NEW s \in ScopesUpto(next), NEW k \in Nodes, NEW when, when = Before(n)
  PROVE  IsEntered(k, s) <=> DeclaredIn(k, s) /\ IsKnown(k, s, when)
<1>1. /\ n \in Nodes /\ next <= n /\ ModuleAround[n] = Module
      /\ Kind(next) = "typedesc" => Parent(n) = next /\ next < n
      /\ next \in Nat /\ n \in Nat /\ k \in Nat
      /\ when.module = Module /\ when.node = n
      /\ Kind(next) \in {"fndecl", "typedecl", "vardecl", "typedesc"}
  BY EntersLeafFacts, TreeFacts DEF Before, EntersLeaf
<1>2. SUFFICES ASSUME DeclaredIn(k, s), ModuleAround[k] = Module
               PROVE  EnteredAt(k, s) < next <=> KnownFrom(k, s) < n
  BY <1>1 DEF IsEntered, IsKnown
<1>3. /\ s \in Nodes /\ s \in Nat /\ s # next
      /\ ModuleAround[s] = Module => s < next
  BY <1>1, ScopeIsBehind, TreeFacts
<1>4. ASSUME k # next, next < k, k < n
      PROVE  Parent(k) = next /\ Kind(k) \in {"leaf", "use"}
  <2>1. Kind(next) = "typedesc"
    <3>1. CASE n = next
      BY <1>1, <1>4, <3>1
    <3>2. CASE n = next + 1
      BY <1>1, <1>4, <3>2
    <3>. QED
      BY <3>1, <3>2 DEF EntersLeaf
  <2>. QED
    BY <1>1, <1>4, <2>1, DescriptionIsFlat
<1>5. CASE Kind(k) # "leaf"
  <2>1. EnteredAt(k, s) = k /\ Kind(k) \in {"module", "fndecl", "typedecl"}
    BY <1>2, <1>3, <1>5, EnteredAtFacts
  <2>2. KnownFrom(k, s) = k
    BY <1>5 DEF KnownFrom, IsArgument
  <2>3. CASE n = next
    BY <2>1, <2>2, <2>3
  <2>4. CASE n # next
    <3>1. k # next
      BY <1>1, <2>1, <2>4 DEF EntersLeaf
    <3>2. ~(next < k /\ k < n)
      BY <1>4, <2>1, <3>1
    <3>. QED
      BY <1>1, <2>1, <2>2, <3>1, <3>2
  <2>. QED
    BY <2>3, <2>4
<1>6. CASE Kind(k) = "leaf" /\ Kind(Parent(k)) = "vardecl"
  <2>1. EnteredAt(k, s) = Parent(k) /\ k = Parent(k) + 1 /\ Parent(k) \in Nodes
    BY <1>2, <1>3, <1>6, EnteredAtFacts
  <2>2. KnownFrom(k, s) = k
    BY <1>6 DEF KnownFrom, IsArgument
  <2>3. Parent(k) \in Nat /\ k # next
    BY <1>1, <1>6, <2>1, TreeFacts
  <2>4. CASE n = next
    BY <1>1, <2>1, <2>2, <2>3, <2>4
  <2>5. CASE n = next + 1
    BY <1>1, <2>1, <2>2, <2>3, <2>5
  <2>6. CASE Kind(next) = "typedesc"
    <3>1. ~(next < k /\ k < n)
      <4>. SUFFICES ASSUME next < k, k < n PROVE FALSE
        OBVIOUS
      <4>1. Parent(k) = next
        BY <1>4, <2>3
      <4>. QED
        BY <1>6, <2>6, <4>1
    <3>. QED
      BY <1>1, <2>1, <2>2, <2>3, <2>6, <3>1
  <2>. QED
    BY <2>4, <2>5, <2>6 DEF EntersLeaf
<1>7. CASE Kind(k) = "leaf" /\ Kind(Parent(k)) # "vardecl"
  <2>1. /\ EnteredAt(k, s) = s /\ Kind(Parent(k)) = "typedesc" /\ Parent(k) \in Nodes
        /\ \/ s = Parent(k)
           \/ s = Parent(Parent(k)) /\ Kind(s) = "fndecl" /\ Parent(k) = s + 1
    BY <1>2, <1>3, <1>7, EnteredAtFacts
  <2>2. s < next
    <3>1. ModuleAround[s] = ModuleAround[k]
      BY <1>2, <1>3, <1>7, DeclarationFacts
    <3>. QED
      BY <1>2, <1>3, <3>1
  <2>3. CASE s = Parent(Parent(k)) /\ Kind(s) = "fndecl"
    <3>1. KnownFrom(k, s) = s
      BY <1>7, <2>1, <2>3 DEF KnownFrom, IsArgument
    <3>. QED
      BY <1>1, <1>3, <2>1, <2>2, <3>1
  <2>4. CASE s = Parent(k)
    <3>1. KnownFrom(k, s) = k
      BY <2>1, <2>4 DEF KnownFrom, IsArgument
    <3>2. k # next
      BY <1>1, <1>7
    <3>3. ~(next < k)
      <4>. SUFFICES ASSUME next < k PROVE FALSE
        OBVIOUS
      <4>1. Kind(next) \in {"leaf", "use"}
        BY <1>3, <2>1, <2>2, <2>4, DescriptionIsFlat
      <4>. QED
        BY <1>1, <4>1
    <3>. QED
      BY <1>1, <2>1, <2>2, <3>1, <3>2, <3>3
  <2>. QED
    BY <2>1, <2>3, <2>4
<1>. QED
  BY <1>5, <1>6, <1>7

\* In its own description a leaf sees the leaves before it.
LEMMA KnownInDescription ==
  ASSUME prog \in Programs, at \in DOMAIN prog.modules, NEW p \in Nodes, Kind(p) = "typedesc",
         ModuleAround[p] = Module, NEW n \in Leaves(p), NEW k \in Nodes,
         NEW when, when = Before(n)
  PROVE  DeclaredIn(k, p) /\ IsKnown(k, p, when) <=> k \in Leaves(p) /\ k <= n - 1
<1>0. EntersLeaf(p, n)
  BY DEF EntersLeaf
<1>1. /\ n \in Nodes /\ Parent(n) = p /\ p < n /\ ModuleAround[n] = Module
      /\ p \in Nat \ {0} /\ p # None /\ n \in Nat /\ k \in Nat
      /\ when.module = Module /\ when.node = n
  BY <1>0, EntersLeafFacts, TreeFacts DEF Before, None
<1>2. ASSUME DeclaredIn(k, p), IsKnown(k, p, when)
      PROVE  k \in Leaves(p) /\ k <= n - 1
  <2>1. p < k /\ Kind(k) \in {"module", "fndecl", "typedecl", "leaf"}
    BY <1>2, DeclarationFacts
  <2>2. Kind(k) # "module"
    <3>1. Kind(k) = "module" => Kind(p) = "file"
      BY <1>2, DeclarationFacts
    <3>. QED
      BY <3>1
  <2>3. ModuleAround[k] = Module
    BY <1>2, <2>2, DeclarationFacts
  <2>4. ~AnalyzedBefore(Module, Module)
    BY AnalyzedFacts DEF Module
  <2>5. KnownFrom(k, p) < n
    BY <1>1, <1>2, <2>3, <2>4 DEF IsKnown
  <2>6. KnownFrom(k, p) = k
    BY DEF KnownFrom, IsArgument
  <2>7. Parent(k) = p /\ Kind(k) \in {"leaf", "use"}
    BY <1>1, <2>1, <2>5, <2>6, DescriptionIsFlat
  <2>8. k \in Leaves(p)
    BY <2>1, <2>7, TreeFacts DEF Leaves, Parent
  <2>. QED
    BY <1>1, <2>5, <2>6, <2>8
<1>3. ASSUME k \in Leaves(p), k <= n - 1
      PROVE  DeclaredIn(k, p) /\ IsKnown(k, p, when)
  <2>1. Kind(k) = "leaf" /\ Parent(k) = p
    BY <1>3 DEF Leaves, Parent
  <2>2. ScopeAround[k] = p
    BY <1>1, <2>1, ScopeFacts DEF Owners
  <2>3. DeclaredIn(k, p)
    BY <2>1, <2>2 DEF DeclaredIn
  <2>4. ModuleAround[k] = Module
    BY <2>1, <2>3, DeclarationFacts
  <2>5. KnownFrom(k, p) = k
    BY DEF KnownFrom, IsArgument
  <2>6. k < n
    BY <1>1, <1>3
  <2>. QED
    BY <1>1, <2>3, <2>4, <2>5, <2>6 DEF IsKnown
<1>. QED
  BY <1>2, <1>3
-----------------------------------------------------------------------------
(* What is entered points to its type *)

LEMMA AroundServes ==
  ASSUME WalkInv, ModulesAreKnown, NamesAreEntered, TypesAreEntered, phase = "first", Descends,
         NEW n, EntersLeaf(next, n), NEW when, when = Before(n), NEW id,
         NEW T, NEW s \in ScopesUpto(next), T[s].records = tables[s].records
  PROVE  /\ s \in DOMAIN tables /\ tables[s].outer = ScopeAround[s] /\ s # next
         /\ HasDeclared(T, s, id, when)
         /\ \A d \in Declarations(s, id, when) : Kind(d) = "typedecl" => OfDeclaredType(T, s, id, d)
<1>1. /\ prog \in Programs /\ at \in DOMAIN prog.modules /\ next \in Nodes /\ next \in Nat
      /\ ModuleAround[next] = Module /\ Kind(next) # "file"
  BY NextIsInModule, TreeFacts DEF WalkInv, EntersLeaf
<1>2. Linked(tables, s)
  BY <1>1, ScopesAreLinked
<1>3. s \in DOMAIN tables /\ tables[s].outer = ScopeAround[s] /\ s # next
  BY <1>1, <1>2, ScopeIsBehind DEF Linked
<1>4. \A k \in Nodes : IsEntered(k, s) <=> DeclaredIn(k, s) /\ IsKnown(k, s, when)
  BY <1>1, KnownWhenEntered
<1>5. DOMAIN tables[s].records = {Node(k).name : k \in {j \in Nodes : IsEntered(j, s)}}
  BY <1>3 DEF NamesAreEntered, NamesEntered
<1>6. HasDeclared(T, s, id, when)
  BY <1>4, <1>5 DEF HasDeclared, Declarations
<1>7. ASSUME NEW d \in Declarations(s, id, when), Kind(d) = "typedecl"
      PROVE  OfDeclaredType(T, s, id, d)
  <2>1. d \in Nodes /\ Node(d).name = id /\ IsEntered(d, s)
    BY <1>4 DEF Declarations
  <2>2. OfDeclaredType(tables, s, id, d)
    BY <1>3, <1>7, <2>1 DEF TypesAreEntered
  <2>. QED
    BY <2>2 DEF OfDeclaredType
<1>. QED
  BY <1>3, <1>6, <1>7

\* The tables around the next node, which are as they were.
AsAround(T) == \A s \in ScopesUpto(next) : /\ s \in DOMAIN T /\ T[s].outer = tables[s].outer
                                           /\ T[s].records = tables[s].records
LEMMA AroundIsServed ==
  ASSUME WalkInv, ModulesAreKnown, NamesAreEntered, TypesAreEntered, phase = "first", Descends,
         NEW n, EntersLeaf(next, n), NEW when, when = Before(n), NEW id, NEW T, AsAround(T)
  PROVE  Serves(T, ScopesUpto(next), id, when) /\ TypesAreServed(T, ScopesUpto(next), id, when)
<1>1. prog \in Programs /\ at \in DOMAIN prog.modules /\ next \in Nat
  BY NextIsInModule, TreeFacts DEF WalkInv
<1>2. ASSUME NEW s \in ScopesUpto(next)
      PROVE  /\ s \in DOMAIN T /\ T[s].outer = ScopeAround[s] /\ HasDeclared(T, s, id, when)
             /\ \A d \in Declarations(s, id, when) : Kind(d) = "typedecl" => OfDeclaredType(T, s, id, d)
  <2>1. /\ s \in DOMAIN T /\ T[s].outer = tables[s].outer /\ T[s].records = tables[s].records
    BY DEF AsAround
  <2>2. /\ tables[s].outer = ScopeAround[s] /\ HasDeclared(T, s, id, when)
        /\ \A d \in Declarations(s, id, when) : Kind(d) = "typedecl" => OfDeclaredType(T, s, id, d)
    BY <2>1, AroundServes
  <2>. QED
    BY <2>1, <2>2
<1>3. Serves(T, ScopesUpto(next), id, when)
  BY <1>1, <1>2, ServesFrom
<1>. QED
  BY <1>2, <1>3 DEF TypesAreServed

LEMMA CurrentIsAsked ==
  ASSUME WalkInv, ModulesAreKnown, phase = "first", Descends,
         Kind(next) \in {"fndecl", "typedecl", "vardecl", "typedesc"}
  PROVE  current \in ScopesUpto(next) /\ current = ScopeAround[next]
<1>1. /\ prog \in Programs /\ next \in Nodes /\ next \in Nat /\ ModuleAround[next] = Module
  BY NextIsInModule, TreeFacts DEF WalkInv
<1>2. current = ScopeAround[next] /\ current \in Nodes /\ current # None
  BY CurrentFacts
<1>3. Kind(current) \in Owners /\ ModuleAround[current] = Module
  BY <1>1, <1>2, ScopeIsOwner, ScopeIsInModule
<1>4. ScopeAround[next] \in 0..next - 1
  BY <1>1, ScopeFacts
<1>5. current < next
  BY <1>1, <1>2, <1>4
<1>. QED
  BY <1>2, <1>3, <1>5 DEF ScopesUpto

\* A new table, and the leaves in it, keep the tables a tree.
LEMMA OpenedTrees ==
  ASSUME WalkInv, ModulesAreKnown, phase = "first", Descends, Kind(next) \in {"fndecl", "typedesc"},
         NEW own, Opens(own, next), NEW T, SameLinks(T, own)
  PROVE  AreTrees(T)
<1>1. /\ next \in Nodes /\ next \in Nat /\ ModuleAround[next] = Module /\ Kind(next) # "file"
      /\ prog \in Programs
  BY NextIsInModule, TreeFacts DEF WalkInv
<1>2. AreTrees(tables)
  BY TablesAreTrees
<1>3. current = ScopeAround[next] /\ current \in DOMAIN tables /\ current # None
  BY <1>1, CurrentFacts
<1>4. ScopeAround[next] \in 0..next - 1
  BY <1>1, ScopeFacts
<1>5. current < next
  BY <1>1, <1>3, <1>4
<1>6. DOMAIN T = DOMAIN tables \cup {next}
  BY DEF Opens, SameLinks
<1>7. ASSUME NEW o \in DOMAIN T
      PROVE  /\ T[o].outer # None => T[o].outer \in DOMAIN T /\ T[o].outer < o
             /\ T[o].mod = IF Kind(o) = "file" THEN None ELSE ModuleAround[o]
  <2>1. CASE o = next
    <3>1. T[o].outer = current /\ T[o].mod = Module
      BY <2>1 DEF Opens, SameLinks
    <3>. QED
      BY <1>1, <1>3, <1>5, <1>6, <2>1, <3>1
  <2>2. CASE o # next
    <3>1. o \in DOMAIN tables /\ T[o].outer = tables[o].outer /\ T[o].mod = tables[o].mod
      BY <1>6, <2>2 DEF Opens, SameLinks
    <3>. QED
      BY <1>2, <1>6, <3>1 DEF AreTrees
  <2>. QED
    BY <2>1, <2>2
<1>. QED
  BY <1>1, <1>2, <1>6, <1>7 DEF AreTrees

\* The leaves of a description are entered one after the other. The tables in which
\* the type of one is looked up:
LEMMA TablesBeforeLeaf ==
  ASSUME WalkInv, ModulesAreKnown, phase = "first", Descends, Kind(next) \in {"fndecl", "typedesc"},
         NEW own, Opened(own), Opens(own, next), NEW st, NEW leaves \in SUBSET Nodes,
         NEW after, after = AfterLeaves(own, next, st, leaves),
         NEW n \in leaves, NEW T, T = after[n - 1], CanAddUpto(next, st, leaves, after, n - 1)
  PROVE  /\ AreTables(T) /\ AreTrees(T) /\ AsAround(T) /\ SameLinks(T, own) /\ next \in DOMAIN T
         /\ DOMAIN T[next].records = NamesOf(LeavesUpto(leaves, n - 1))
<1>1. /\ prog \in Programs /\ at \in DOMAIN prog.modules /\ next \in Nodes /\ next \in Nat
      /\ ModuleAround[next] = Module
      /\ Len(prog.nodes) \in Nat /\ Nodes = 1..Len(prog.nodes) /\ Kind(next) # "file"
  BY NextIsInModule, TreeFacts DEF WalkInv
<1>2. AreTables(own) /\ next \in DOMAIN own
  BY DEF Opened
<1>3. n - 1 \in 0..Len(prog.nodes)
  BY <1>1
<1>4. PICK m \in 0..Len(prog.nodes) : m = n - 1
  BY <1>3
<1>5. GainedUpto(own, next, leaves, after, m) /\ T = after[m]
  <2>1. m \in Nat /\ m \in 0..m /\ CanAddUpto(next, st, leaves, after, m)
    BY <1>1, <1>4
  <2>2. \A i \in 0..m : GainedUpto(own, next, leaves, after, i)
    BY ONLY <1>1, <1>2, <1>4, <2>1, after = AfterLeaves(own, next, st, leaves), leaves \in SUBSET Nodes,
            LeavesGainUpto
  <2>. QED
    BY <1>4, <2>1, <2>2
<1>6. PICK names : names = NamesOf(LeavesUpto(leaves, m))
  OBVIOUS
<1>7. AreTables(T) /\ SameLinks(T, own) /\ Gains(T, own, next, names)
  BY <1>5, <1>6 DEF GainedUpto
<1>8. AreTrees(T)
  BY <1>7, OpenedTrees
<1>9. AsAround(T)
  <2>. SUFFICES ASSUME NEW s \in ScopesUpto(next)
                PROVE  /\ s \in DOMAIN T /\ T[s].outer = tables[s].outer
                       /\ T[s].records = tables[s].records
    BY DEF AsAround
  <2>1. Linked(tables, s)
    BY <1>1, ScopesAreLinked
  <2>2. s \in DOMAIN tables /\ s # next
    BY <1>1, <2>1, ScopeIsBehind DEF Linked
  <2>3. s \in DOMAIN own /\ own[s] = tables[s]
    BY <2>2 DEF Opened
  <2>. QED
    BY <1>7, <2>2, <2>3 DEF SameLinks, Gains
<1>10. DOMAIN T[next].records = names
  <2>1. DOMAIN T[next].records = DOMAIN own[next].records \cup names
    BY <1>7 DEF Gains
  <2>2. DOMAIN own[next].records = {}
    BY DEF Opened
  <2>. QED
    BY <2>1, <2>2
<1>11. next \in DOMAIN T
  BY <1>2, <1>7 DEF SameLinks
<1>. QED
  BY <1>4, <1>6, <1>7, <1>8, <1>9, <1>10, <1>11

LEMMA TablesAtLeaf ==
  ASSUME WalkInv, ModulesAreKnown, phase = "first", Descends, Kind(next) \in {"fndecl", "typedesc"},
         NEW own, Opened(own), Opens(own, next), NEW st, NEW leaves \in SUBSET Nodes,
         LeavesAdded(own, next, st, leaves).ok,
         NEW after, after = AfterLeaves(own, next, st, leaves),
         NEW n \in leaves, NEW T, T = after[n - 1]
  PROVE  /\ AreTables(T) /\ AreTrees(T) /\ AsAround(T) /\ SameLinks(T, own) /\ next \in DOMAIN T
         /\ DOMAIN T[next].records = NamesOf(LeavesUpto(leaves, n - 1))
         /\ CanAddLeaf(T, next, st, n)
<1>1. prog \in Programs /\ n \in 1..Len(prog.nodes) /\ Len(prog.nodes) \in Nat
  BY TreeFacts DEF WalkInv
<1>2. CanAddUpto(next, st, leaves, after, Len(prog.nodes))
  BY <1>1, LeavesOk
<1>3. \A k \in 1..n - 1 : k \in 1..Len(prog.nodes)
  BY <1>1
<1>4. CanAddUpto(next, st, leaves, after, n - 1) /\ CanAddLeaf(T, next, st, n)
  BY <1>1, <1>2, <1>3 DEF CanAddUpto
<1>. QED
  BY <1>4, TablesBeforeLeaf

\* In the end each leaf has the record it was entered with.
LEMMA LeafOfDescription ==
  ASSUME WalkInv, ModulesAreKnown, phase = "first", Descends, Kind(next) \in {"fndecl", "typedesc"},
         NEW own, Opened(own), Opens(own, next), NEW st, NEW leaves \in SUBSET Nodes,
         LeavesAdded(own, next, st, leaves).ok,
         NEW after, after = AfterLeaves(own, next, st, leaves),
         NEW n \in leaves, NEW R, st \in R, NEW when, NEW id, id = Node(n).ref, id \notin Elementary,
         Serves(after[n - 1], R, id, when), TypesAreServed(after[n - 1], R, id, when),
         NEW d, d = DeclarationOf(st, id, when), Kind(d) = "typedecl"
  PROVE  OfDeclaredType(after[Len(prog.nodes)], next, Node(n).name, d)
<1>1. /\ prog \in Programs /\ Len(prog.nodes) \in Nat /\ Nodes = 1..Len(prog.nodes)
  BY TreeFacts DEF WalkInv
<1>2. PICK T : T = after[n - 1]
  OBVIOUS
<1>3. /\ AreTables(T) /\ AreTrees(T) /\ next \in DOMAIN T /\ CanAddLeaf(T, next, st, n)
  BY <1>2, TablesAtLeaf
<1>4. Serves(T, R, id, when) /\ TypesAreServed(T, R, id, when)
  BY <1>2
<1>5. OfDeclaredType(AddLeaf(T, next, st, n), next, Node(n).name, d)
  BY <1>1, <1>3, <1>4, LeafPoints
<1>6. AreTables(own) /\ next \in DOMAIN own
  BY DEF Opened
<1>7. /\ \A m \in 0..Len(prog.nodes) : GainedUpto(own, next, leaves, after, m)
      /\ \A k \in leaves : after[k] = AddLeaf(after[k - 1], next, st, k)
  BY ONLY <1>1, <1>6, after = AfterLeaves(own, next, st, leaves), leaves \in SUBSET Nodes,
          LeavesAdded(own, next, st, leaves).ok, LeavesGain
<1>8. OfDeclaredType(after[n], next, Node(n).name, d)
  BY <1>2, <1>5, <1>7
<1>9. n <= Len(prog.nodes) /\ GainedUpto(own, next, leaves, after, Len(prog.nodes))
  BY <1>1, <1>7
<1>10. PICK L : L = Len(prog.nodes)
  OBVIOUS
<1>11. after[L][next].records[Node(n).name] = after[n][next].records[Node(n).name]
  BY <1>9, <1>10 DEF GainedUpto
<1>. QED
  BY <1>8, <1>10, <1>11 DEF OfDeclaredType

LEMMA VardeclPoints ==
  ASSUME WalkInv, ModulesAreKnown, NamesAreEntered, TypesAreEntered, EnterVardecl
  PROVE  NewSymbolsPoint(tables')
<1>1. /\ prog \in Programs /\ phase = "first" /\ Descends /\ Kind(next) = "vardecl" /\ next \in Nodes
      /\ CanAddLeaf(tables, current, current, next + 1)
      /\ tables' = AddLeaf(tables, current, current, next + 1)
  BY NextFacts DEF WalkInv, EnterVardecl, Entering
<1>2. AreTrees(tables) /\ AreTables(tables)
  BY TablesAreTrees, NewTable
<1>3. /\ current \in ScopesUpto(next) /\ current = ScopeAround[next] /\ current \in DOMAIN tables
  BY <1>1, CurrentIsAsked, CurrentFacts
<1>. SUFFICES ASSUME NEW n \in Nodes, Kind(n) = "leaf", n \in EnteredHere(next, HomeOf(n)), IsTyped(n)
              PROVE  HasItsType(tables', n)
  BY DEF NewSymbolsPoint
<1>4. PICK o : o = HomeOf(n)
  OBVIOUS
<1>5. o \in Nodes
  BY <1>1, <1>4, HomeFacts
<1>6. n = next + 1 /\ o = current
  BY <1>1, <1>3, <1>4, <1>5, EnteredHereFacts
<1>7. Parent(n) = next
  BY <1>1, <1>6, LeafFacts
<1>8. ~IsArgument(n)
  BY <1>1, <1>7 DEF IsArgument
<1>9. LookedUpAt(n) = n /\ ScopeAround[n] = current
  BY <1>4, <1>6, <1>8 DEF LookedUpAt, HomeOf
<1>10. PICK id, when, d : id = Node(n).ref /\ when = Before(n) /\ d = TypeNamedBy(n)
  OBVIOUS
<1>11. d = DeclarationOf(current, id, when) /\ Kind(d) = "typedecl" /\ id \notin Elementary
  BY <1>9, <1>10 DEF TypeNamedBy, IsTyped
<1>12. EntersLeaf(next, n)
  BY <1>1, <1>6 DEF EntersLeaf
<1>13. AsAround(tables)
  <2>1. \A s \in ScopesUpto(next) : s \in DOMAIN tables
    BY <1>1, <1>12, AroundServes
  <2>. QED
    BY <2>1 DEF AsAround
<1>14. Serves(tables, ScopesUpto(next), id, when) /\ TypesAreServed(tables, ScopesUpto(next), id, when)
  BY <1>1, <1>10, <1>12, <1>13, AroundIsServed
<1>15. CanAddLeaf(tables, current, current, n) /\ tables' = AddLeaf(tables, current, current, n)
  BY <1>1, <1>6
<1>16. PICK R : R = ScopesUpto(next)
  OBVIOUS
<1>17. OfDeclaredType(AddLeaf(tables, current, current, n), current, Node(n).name, d)
  BY <1>1, <1>2, <1>3, <1>10, <1>11, <1>14, <1>15, <1>16, LeafPoints
<1>. QED
  BY <1>4, <1>6, <1>10, <1>15, <1>17 DEF HasItsType

LEMMA FndeclPoints ==
  ASSUME WalkInv, ModulesAreKnown, NamesAreEntered, TypesAreEntered, EnterFndecl
  PROVE  NewSymbolsPoint(tables')
<1>1. /\ prog \in Programs /\ phase = "first" /\ Descends /\ Kind(next) = "fndecl" /\ next \in Nodes
      /\ next \in Nat /\ next # None /\ Node(next).name \notin DOMAIN tables[current].records
  BY NextFacts, TreeFacts DEF WalkInv, EnterFndecl, Entering, None
<1>2. /\ current \in ScopesUpto(next) /\ current = ScopeAround[next] /\ current \in DOMAIN tables
      /\ current # next
  BY <1>1, CurrentIsAsked, CurrentFacts
<1>3. PICK own, with, args, leaves, after :
        /\ own = WithTable(tables, next, [Below(current) EXCEPT !.fndecl = next])
        /\ with = WithArguments(next).tables /\ args = NamesOf(Described(next))
        /\ leaves = Described(next) /\ after = AfterLeaves(own, next, current, leaves)
  OBVIOUS
<1>4. /\ Opened(own) /\ AreTables(with) /\ Gains(with, own, next, args)
      /\ LeavesAdded(own, next, current, leaves).ok /\ with = after[Len(prog.nodes)]
  BY <1>3, ArgumentsGained
<1>5. Opens(own, next)
  BY <1>1, <1>3, NewTable
<1>6. leaves \in SUBSET Nodes
  BY <1>1, <1>3, DescribedFacts
<1>7. tables'[next].records = with[next].records
  <2>1. PICK id, type : id = Node(next).name /\ tables' = Add(with, current, id, next, type)
    BY <1>3 DEF EnterFndecl
  <2>2. current \in DOMAIN with /\ id \notin DOMAIN with[current].records /\ next \in DOMAIN with
    BY <1>1, <1>2, <1>4, <2>1 DEF Opened, Gains
  <2>3. Gains(tables', with, current, {id})
    BY <1>4, <2>1, <2>2, AddGains
  <2>. QED
    BY <1>2, <2>2, <2>3 DEF Gains
<1>. SUFFICES ASSUME NEW n \in Nodes, Kind(n) = "leaf", n \in EnteredHere(next, HomeOf(n)), IsTyped(n)
              PROVE  HasItsType(tables', n)
  BY DEF NewSymbolsPoint
<1>8. PICK o : o = HomeOf(n)
  OBVIOUS
<1>9. o \in Nodes
  BY <1>1, <1>8, HomeFacts
<1>10. o = next /\ n \in leaves
  BY <1>1, <1>3, <1>8, <1>9, EnteredHereFacts
<1>11. Kind(next + 1) = "typedesc" /\ Parent(next + 1) = next /\ Parent(n) = next + 1
  BY <1>3, <1>10 DEF Described, Leaves, Parent
<1>12. IsArgument(n) /\ LookedUpAt(n) = next
  BY <1>1, <1>11 DEF IsArgument, LookedUpAt
<1>13. PICK id, when, d : id = Node(n).ref /\ when = Before(next) /\ d = TypeNamedBy(n)
  OBVIOUS
<1>14. d = DeclarationOf(current, id, when) /\ Kind(d) = "typedecl" /\ id \notin Elementary
  BY <1>2, <1>12, <1>13 DEF TypeNamedBy, IsTyped
<1>15. EntersLeaf(next, next)
  BY <1>1 DEF EntersLeaf
<1>16. PICK T : T = after[n - 1]
  OBVIOUS
<1>17. AsAround(T)
  BY <1>1, <1>3, <1>4, <1>5, <1>6, <1>10, <1>16, TablesAtLeaf
<1>18. Serves(T, ScopesUpto(next), id, when) /\ TypesAreServed(T, ScopesUpto(next), id, when)
  BY <1>1, <1>13, <1>15, <1>17, AroundIsServed
<1>19. PICK R : R = ScopesUpto(next)
  OBVIOUS
<1>20. /\ current \in R /\ Serves(after[n - 1], R, id, when) /\ TypesAreServed(after[n - 1], R, id, when)
       /\ Kind(next) \in {"fndecl", "typedesc"}
  BY <1>1, <1>2, <1>16, <1>18, <1>19
<1>21. OfDeclaredType(after[Len(prog.nodes)], next, Node(n).name, d)
  BY ONLY WalkInv, ModulesAreKnown, <1>1, <1>3, <1>4, <1>5, <1>6, <1>10, <1>13, <1>14, <1>20,
          LeafOfDescription
<1>. QED
  BY <1>4, <1>7, <1>8, <1>10, <1>13, <1>21 DEF HasItsType, OfDeclaredType

\* A leaf of a type description sees those before it, and what is around.
LEMMA DescriptionIsServed ==
  ASSUME WalkInv, ModulesAreKnown, NamesAreEntered, TypesAreEntered, phase = "first", Descends,
         Kind(next) = "typedesc", NEW n \in Leaves(next), NEW when, when = Before(n), NEW id,
         NEW own, Opens(own, next), NEW T, SameLinks(T, own), AsAround(T),
         DOMAIN T[next].records = NamesOf(LeavesUpto(Leaves(next), n - 1))
  PROVE  Serves(T, ScopesUpto(next + 1), id, when) /\ TypesAreServed(T, ScopesUpto(next + 1), id, when)
<1>1. /\ prog \in Programs /\ at \in DOMAIN prog.modules /\ next \in Nodes /\ next \in Nat
      /\ ModuleAround[next] = Module /\ next + 1 \in Nat
  BY NextIsInModule, TreeFacts DEF WalkInv
<1>2. current = ScopeAround[next]
  BY <1>1, CurrentIsAsked
<1>3. EntersLeaf(next, n)
  BY DEF EntersLeaf
<1>4. \A k \in Nodes : DeclaredIn(k, next) /\ IsKnown(k, next, when) <=> k \in Leaves(next) /\ k <= n - 1
  BY <1>1, KnownInDescription
<1>5. Leaves(next) \subseteq Nodes
  BY <1>1, DescribedFacts
<1>6. ASSUME NEW s \in ScopesUpto(next + 1)
      PROVE  /\ s \in DOMAIN T /\ T[s].outer = ScopeAround[s] /\ HasDeclared(T, s, id, when)
             /\ \A d \in Declarations(s, id, when) : Kind(d) = "typedecl" => OfDeclaredType(T, s, id, d)
  <2>1. CASE s = next
    <3>1. next \in DOMAIN T /\ T[next].outer = current
      BY DEF Opens, SameLinks
    <3>2. id \in DOMAIN T[next].records
            <=> \E k \in Leaves(next) : k <= n - 1 /\ Node(k).name = id
      BY DEF NamesOf, LeavesUpto
    <3>3. Declarations(next, id, when)
            = {k \in Nodes : Node(k).name = id /\ k \in Leaves(next) /\ k <= n - 1}
      BY <1>4 DEF Declarations
    <3>4. HasDeclared(T, next, id, when)
      BY <1>5, <3>2, <3>3 DEF HasDeclared
    <3>5. \A d \in Declarations(next, id, when) : Kind(d) = "leaf"
      BY <3>3 DEF Leaves
    <3>. QED
      BY <1>2, <2>1, <3>1, <3>4, <3>5
  <2>2. CASE s # next
    <3>1. s \in Nodes /\ s \in Nat
      BY <1>1, TreeFacts DEF ScopesUpto
    <3>2. s < next + 1 => s < next
      BY <1>1, <2>2, <3>1
    <3>3. s \in ScopesUpto(next)
      BY <3>2 DEF ScopesUpto
    <3>4. s \in DOMAIN T /\ T[s].outer = tables[s].outer /\ T[s].records = tables[s].records
      BY <3>3 DEF AsAround
    <3>5. /\ tables[s].outer = ScopeAround[s] /\ HasDeclared(T, s, id, when)
          /\ \A d \in Declarations(s, id, when) : Kind(d) = "typedecl" => OfDeclaredType(T, s, id, d)
      BY <1>3, <3>3, <3>4, AroundServes
    <3>. QED
      BY <3>4, <3>5
  <2>. QED
    BY <2>1, <2>2
<1>7. PICK e \in Nat : e = next + 1
  BY <1>1
<1>8. Serves(T, ScopesUpto(e), id, when)
  BY <1>1, <1>6, <1>7, ServesFrom
<1>. QED
  BY <1>6, <1>7, <1>8 DEF TypesAreServed

LEMMA TypedescPoints ==
  ASSUME WalkInv, ModulesAreKnown, NamesAreEntered, TypesAreEntered, EnterTypedesc
  PROVE  NewSymbolsPoint(tables')
<1>1. /\ prog \in Programs /\ phase = "first" /\ Descends /\ Kind(next) = "typedesc" /\ next \in Nodes
      /\ next \in Nat /\ ModuleAround[next] = Module
      /\ Kind(next) \in {"fndecl", "typedesc"} /\ next # None
  BY NextIsInModule, TreeFacts DEF WalkInv, EnterTypedesc, Entering, None
<1>2. PICK own, leaves, after :
        /\ own = WithTable(tables, next, Below(current)) /\ leaves = Leaves(next)
        /\ after = AfterLeaves(own, next, next, leaves)
  OBVIOUS
<1>3. /\ Opened(own) /\ LeavesAdded(own, next, next, leaves).ok
      /\ tables' = after[Len(prog.nodes)]
  BY <1>2, DescriptionGained
<1>4. Opens(own, next)
  BY <1>1, <1>2, NewTable
<1>5. leaves \in SUBSET Nodes
  BY <1>1, <1>2, DescribedFacts
<1>. SUFFICES ASSUME NEW n \in Nodes, Kind(n) = "leaf", n \in EnteredHere(next, HomeOf(n)), IsTyped(n)
              PROVE  HasItsType(tables', n)
  BY DEF NewSymbolsPoint
<1>6. PICK o : o = HomeOf(n)
  OBVIOUS
<1>7. o \in Nodes
  BY <1>1, <1>6, HomeFacts
<1>8. o = next /\ n \in leaves
  BY <1>1, <1>2, <1>6, <1>7, EnteredHereFacts
<1>9. Parent(n) = next
  BY <1>2, <1>8 DEF Leaves, Parent
<1>10. Parent(next) # next
  <2>1. Parent(next) < next
    BY <1>1, TreeFacts
  <2>. QED
    BY <1>1, <2>1
<1>11. ~IsArgument(n)
  BY <1>6, <1>8, <1>9, <1>10 DEF HomeOf
<1>12. LookedUpAt(n) = n /\ ScopeAround[n] = next
  BY <1>6, <1>8, <1>11 DEF LookedUpAt, HomeOf
<1>13. PICK id, when, d : id = Node(n).ref /\ when = Before(n) /\ d = TypeNamedBy(n)
  OBVIOUS
<1>14. d = DeclarationOf(next, id, when) /\ Kind(d) = "typedecl" /\ id \notin Elementary
  BY <1>12, <1>13 DEF TypeNamedBy, IsTyped
<1>15. PICK T : T = after[n - 1]
  OBVIOUS
<1>16. /\ AsAround(T) /\ SameLinks(T, own)
       /\ DOMAIN T[next].records = NamesOf(LeavesUpto(leaves, n - 1))
  <2>1. PICK st : st = next
    OBVIOUS
  <2>2. LeavesAdded(own, next, st, leaves).ok /\ after = AfterLeaves(own, next, st, leaves)
    BY <1>2, <1>3, <2>1
  <2>3. /\ phase = "first" /\ Descends /\ Kind(next) \in {"fndecl", "typedesc"}
        /\ Opened(own) /\ leaves \in SUBSET Nodes /\ n \in leaves
    BY <1>1, <1>3, <1>5, <1>8
  <2>. QED
    BY ONLY WalkInv, ModulesAreKnown, <1>4, <1>15, <2>2, <2>3, TablesAtLeaf
<1>17. PICK R : R = ScopesUpto(next + 1)
  OBVIOUS
<1>18. Serves(T, R, id, when) /\ TypesAreServed(T, R, id, when)
  <2>1. n \in Leaves(next) /\ DOMAIN T[next].records = NamesOf(LeavesUpto(Leaves(next), n - 1))
    BY <1>2, <1>8, <1>16
  <2>. QED
    BY ONLY WalkInv, ModulesAreKnown, NamesAreEntered, TypesAreEntered, <1>1, <1>4, <1>13, <1>16, <1>17,
            <2>1, DescriptionIsServed
<1>19. next \in R
  <2>1. next < next + 1
    BY <1>1
  <2>. QED
    BY <1>1, <1>17, <2>1 DEF ScopesUpto, Owners
<1>20. Serves(after[n - 1], R, id, when) /\ TypesAreServed(after[n - 1], R, id, when)
  BY <1>15, <1>18
<1>21. OfDeclaredType(after[Len(prog.nodes)], next, Node(n).name, d)
  BY ONLY WalkInv, ModulesAreKnown, <1>1, <1>2, <1>3, <1>4, <1>5, <1>8, <1>13, <1>14, <1>19, <1>20,
          LeafOfDescription
<1>. QED
  BY <1>3, <1>6, <1>8, <1>13, <1>21 DEF HasItsType, OfDeclaredType

\* Nothing else that is entered is a leaf.
LEMMA OthersPoint ==
  ASSUME WalkInv, EnterBlock \/ EnterModule \/ EnterTypedecl \/ EnterOther
  PROVE  NewSymbolsPoint(tables')
<1>1. prog \in Programs /\ next \in Nodes
  BY NextFacts DEF WalkInv, EnterBlock, EnterModule, EnterTypedecl, EnterOther, Entering
<1>2. Kind(next) \notin {"vardecl", "fndecl", "typedesc"}
  BY DEF EnterBlock, EnterModule, EnterTypedecl, EnterOther, Entering
<1>3. ASSUME NEW n \in Nodes, Kind(n) = "leaf", n \in EnteredHere(next, HomeOf(n))
      PROVE  FALSE
  <2>1. PICK o : o = HomeOf(n)
    OBVIOUS
  <2>2. o \in Nodes /\ n \in EnteredHere(next, o)
    BY <1>1, <1>3, <2>1, HomeFacts
  <2>3. Kind(next) \in {"module", "typedecl"} /\ n = next
    BY <1>1, <1>2, <2>2, EnteredHereFacts
  <2>. QED
    BY <1>3, <2>3
<1>. QED
  BY <1>3 DEF NewSymbolsPoint

LEMMA PointsStep ==
  ASSUME WalkInv, ModulesAreKnown, NamesAreEntered, TypesAreEntered, SymbolsPointToTypes, [Next]_vars
  PROVE  SymbolsPointToTypes'
<1>0. prog \in Programs
  BY DEF WalkInv
<1>1. CASE \/ EnterBlock \/ EnterModule \/ EnterFndecl \/ EnterTypedesc
           \/ EnterTypedecl \/ EnterVardecl \/ EnterOther
  <2>1. prog' = prog
    BY <1>1, EnteringOpens, EnteringKeeps DEF Visit
  <2>2. Enters(tables')
    BY <1>1, BlockEnters, ModuleEnters, FndeclEnters, TypedescEnters, SymbolsEnter, OtherEnters
  <2>3. NewSymbolsPoint(tables')
    BY <1>1, VardeclPoints, FndeclPoints, TypedescPoints, OthersPoint
  <2>. QED
    BY <1>0, <2>1, <2>2, <2>3, EnteringPoints
<1>2. CASE ~(\/ EnterBlock \/ EnterModule \/ EnterFndecl \/ EnterTypedesc
             \/ EnterTypedecl \/ EnterVardecl \/ EnterOther)
  <2>1. prog' = prog /\ tables' = tables
    BY <1>2 DEF Next, RefuseNode, Descend, Visit, DescendToUndeclaredMatch, Ascend, CheckNode, GoUp,
                EndFirstPass, EndCheck, Ended, vars
  <2>2. Nodes' = Nodes /\ \A n : Kind(n)' = Kind(n)
    BY <2>1, TreeStays
  <2>3. \A n : PointsToItsType(tables, n)' <=> PointsToItsType(tables', n)
    BY <2>1, PointsStay
  <2>. QED
    BY <2>1, <2>2, <2>3 DEF SymbolsPointToTypes
<1>. QED
  BY <1>1, <1>2
-----------------------------------------------------------------------------
(* Names have one meaning *)

LEMMA InitNames == Init => NamesInv
<1>. SUFFICES ASSUME Init PROVE NamesInv
  OBVIOUS
<1>1. WalkInv
  BY InitStep
<1>2. /\ prog \in Programs /\ at \in DOMAIN prog.modules /\ at = 1 /\ phase = "first"
      /\ parents = <<>> /\ next = Module /\ next \in Nodes /\ next \in Nat /\ found = {}
      /\ Kind(Module) \in {"file", "module"}
  BY <1>1, PathFacts, TreeFacts DEF Init, WalkInv
<1>3. /\ DOMAIN tables = {n \in Nodes : Kind(n) \in {"file", "module"}}
      /\ \A o \in DOMAIN tables : tables[o] = EmptyTable(IF Kind(o) = "file" THEN None ELSE o)
  BY DEF Init, Nodes
<1>4. \A m : ~AnalyzedBefore(m, Module)
  <2>1. \A m : AnalyzedBefore(m, Module) <=> \E j \in 1..at - 1 : prog.modules[j] = m
    BY <1>2, AnalyzedFacts DEF Module
  <2>2. 1..at - 1 = {}
    BY <1>2
  <2>. QED
    BY <2>1, <2>2
<1>5. ASSUME NEW o \in DOMAIN tables
      PROVE  /\ tables[o].records = <<>> /\ DOMAIN tables[o].records = {}
             /\ tables[o].mod = IF Kind(o) = "file" THEN None ELSE ModuleAround[o]
  <2>1. tables[o].records = <<>> /\ tables[o].mod = IF Kind(o) = "file" THEN None ELSE o
    <3>1. PICK m : m = IF Kind(o) = "file" THEN None ELSE o
      OBVIOUS
    <3>2. tables[o] = EmptyTable(m)
      BY <1>3, <3>1
    <3>. QED
      BY <3>1, <3>2 DEF EmptyTable
  <2>2. DOMAIN <<>> = {}
    OBVIOUS
  <2>3. ModuleAround[o] = o
    BY <1>2, <1>3, ModuleFacts
  <2>. QED
    BY <2>1, <2>2, <2>3
<1>6. ASSUME NEW n \in Nodes, NEW o \in Nodes, IsEntered(n, o)
      PROVE  FALSE
  <2>1. DeclaredIn(n, o) /\ ModuleAround[n] = Module /\ EnteredAt(n, o) < Module
    BY <1>2, <1>4, <1>6 DEF IsEntered
  <2>2. /\ EnteredAt(n, o) \in Nodes /\ ModuleAround[EnteredAt(n, o)] = Module
    BY <1>2, <2>1, EnteredAtFacts
  <2>3. Module <= EnteredAt(n, o) /\ EnteredAt(n, o) \in Nat
    BY <1>2, <2>2, ModuleFacts, TreeFacts
  <2>. QED
    BY <1>2, <2>1, <2>3
<1>7. ModulesAreKnown
  <2>1. DOMAIN parents = {}
    BY <1>2
  <2>. QED
    BY <1>4, <1>5, <2>1 DEF ModulesAreKnown
<1>8. NamesAreEntered /\ TypesAreEntered
  <2>1. \A o \in DOMAIN tables : o \in Nodes
    BY <1>3
  <2>2. \A o \in DOMAIN tables : NamesEntered(o) = {}
    BY <1>6, <2>1 DEF NamesEntered
  <2>. QED
    BY <1>5, <1>6, <2>1, <2>2 DEF NamesAreEntered, TypesAreEntered
<1>9. SymbolsPointToTypes
  <2>1. \A n \in Nodes : HomeOf(n) \in DOMAIN tables => Node(n).name \notin DOMAIN tables[HomeOf(n)].records
    BY <1>5
  <2>. QED
    BY <2>1 DEF SymbolsPointToTypes, PointsToItsType
<1>10. LookupsAreLexical
  BY <1>2 DEF LookupsAreLexical
<1>. QED
  BY <1>1, <1>7, <1>8, <1>9, <1>10 DEF NamesInv, NamesMeanTheirDeclaration

LEMMA NamesInvStep == NamesInv /\ [Next]_vars => NamesInv'
<1>. SUFFICES ASSUME NamesInv, [Next]_vars PROVE NamesInv'
  OBVIOUS
<1>1. WalkInv /\ ModulesAreKnown /\ NamesAreEntered /\ TypesAreEntered
      /\ LookupsAreLexical /\ SymbolsPointToTypes
  BY DEF NamesInv, NamesMeanTheirDeclaration
<1>2. WalkInv'
  BY <1>1, NextStep
<1>3. ModulesAreKnown'
  BY <1>1, ModulesStep
<1>4. NamesAreEntered' /\ TypesAreEntered'
  BY <1>1, NamesStep
<1>5. LookupsAreLexical'
  BY <1>1, LookupsStep
<1>6. SymbolsPointToTypes'
  BY <1>1, PointsStep
<1>. QED
  BY <1>2, <1>3, <1>4, <1>5, <1>6 DEF NamesInv, NamesMeanTheirDeclaration

\* At every moment of the analysis the tables have exactly the declarations that
\* were met so far, each declared type with its own declaration, and all tables of
\* the modules before are there (analyzer_first_pass_do() and what it calls; the
\* type check adds nothing).
THEOREM TablesHaveWhatIsDeclared == Spec => []NamesInv
BY InitNames, NamesInvStep, PTL DEF Spec

\* Whatever the program, a name that the type check looks up is found in the
\* innermost scope that declares it, before or behind the use, or else in the first
\* import that offers it (symbol_table_lookup_record()), and a symbol whose type is
\* written with the name of a declared type points to the declaration that name
\* means where it stands (symbol_table_record_init()).
THEOREM EveryNameMeansItsDeclaration == Spec => []NamesMeanTheirDeclaration
<1>1. NamesInv => NamesMeanTheirDeclaration
  BY DEF NamesInv
<1>. QED
  BY <1>1, TablesHaveWhatIsDeclared, PTL
-----------------------------------------------------------------------------
(* What is known stays known *)

\* Who has more to start from finds something wherever the other one does.
LEMMA AskingMore ==
  ASSUME NEW n, NEW D, NEW base, NEW deps, NEW base2, NEW rank, NEW others, NEW f, NEW g,
         StartAlike(n, D, D, D, base, deps, base, deps, rank),
         Asks(D, base, deps, others, f), Asks(D, base2, deps, others, g),
         \A o \in D : base[o] # None => base2[o] # None
  PROVE  \A o \in D : f[o] # None => g[o] # None
<1>0. /\ n \in Nat
      /\ \A o \in D : /\ deps[o] \in Seq(D) /\ rank[o] \in 0..n
                      /\ \A i \in DOMAIN deps[o] : rank[deps[o][i]] < rank[o]
  BY DEF StartAlike
<1>. DEFINE S == {k \in 0..n : \A o \in D : rank[o] = k => (f[o] # None => g[o] # None)}
<1>1. ASSUME NEW k \in 0..n, \A j \in 0..n : j < k => j \in S
      PROVE  k \in S
  <2>. SUFFICES ASSUME NEW o \in D, rank[o] = k, f[o] # None, base[o] = None, base2[o] = None
                PROVE g[o] # None
    BY DEF Asks, OwnOrAsked
  <2>1. PICK d : d = deps[o]
    OBVIOUS
  <2>2. f[o] = Asking(d, others, f) /\ g[o] = Asking(d, others, g)
    BY <2>1 DEF Asks, OwnOrAsked
  <2>3. d \in Seq(D) /\ Len(d) \in Nat /\ DOMAIN d = 1..Len(d)
    BY <1>0, <2>1
  <2>4. ASSUME NEW i \in DOMAIN d, f[d[i]] # None
        PROVE  g[d[i]] # None
    <3>1. d[i] \in D /\ rank[d[i]] \in 0..n /\ rank[d[i]] < k
      BY <1>0, <2>1, <2>3
    <3>2. rank[d[i]] \in S
      BY <1>1, <3>1
    <3>. QED
      BY <2>4, <3>1, <3>2
  <2>5. PICK with : with = Offering(d, others, g)
    OBVIOUS
  <2>6. with # {}
    <3>1. Offering(d, others, f) # {}
      BY <2>2 DEF Asking
    <3>. QED
      BY <2>4, <2>5, <3>1 DEF Offering
  <2>7. with \in SUBSET (0..Len(d))
    BY <2>3, <2>5 DEF Offering
  <2>8. Min(with) \in with
    BY <2>3, <2>6, <2>7, LeastIsIn
  <2>9. g[d[Min(with)]] # None
    BY <2>5, <2>8 DEF Offering
  <2>. QED
    BY <2>2, <2>5, <2>6, <2>9 DEF Asking
<1>2. \A k \in 0..n : k \in S
  <2>. HIDE DEF S
  <2>. QED
    BY <1>0, <1>1, PositionInduction
<1>. QED
  BY <1>0, <1>2

\* The scopes of a program ask their imports, which come before them.
LEMMA ScopesAsk ==
  ASSUME prog \in Programs, NEW D, D = Nodes
  PROVE  /\ LeadsOut(D)
         /\ \E n, deps, rank : /\ deps = ImportLists(D)
                               /\ \A base : StartAlike(n, D, D, D, base, deps, base, deps, rank)
<1>. DEFINE rk == [o \in D |-> RankOf(o)]
            dd == ImportLists(D)
<1>1. ASSUME NEW o \in D
      PROVE  /\ dd[o] = ImportsOf(o) /\ dd[o] \in Seq(D) /\ rk[o] \in 0..Len(prog.modules)
             /\ \A i \in DOMAIN dd[o] : rk[dd[o][i]] < rk[o]
  <2>2. PICK d : d = ImportsOf(o)
    OBVIOUS
  <2>3. dd[o] = d
    BY <2>2 DEF ImportLists
  <2>4. d \in Seq(D)
    BY <2>2, ImportFacts
  <2>5. rk[o] = RankOf(o) /\ RankOf(o) \in 0..Len(prog.modules)
    BY ImportFacts
  <2>6. \A i \in DOMAIN d : d[i] \in D /\ RankOf(d[i]) < RankOf(o)
    BY <2>2, ImportFacts
  <2>7. \A i \in DOMAIN d : rk[d[i]] < rk[o]
    BY <2>5, <2>6
  <2>. HIDE DEF rk, dd
  <2>. QED
    BY <2>2, <2>3, <2>4, <2>5, <2>7
<1>2. Len(prog.modules) \in Nat
  BY ProgramFacts
<1>3. PICK n, deps, rank : n = Len(prog.modules) /\ deps = dd /\ rank = rk
  OBVIOUS
<1>4. \A base : StartAlike(n, D, D, D, base, deps, base, deps, rank)
  <2>. HIDE DEF rk, dd
  <2>. QED
    BY <1>1, <1>2, <1>3 DEF StartAlike
<1>5. LeadsOut(D)
  <2>1. \A s \in D : ScopeAround[s] # None => ScopeAround[s] \in D
    BY ScopeFacts
  <2>2. \A s \in D : ImportsOf(s) \in Seq(D)
    BY ImportFacts
  <2>. QED
    BY <2>1, <2>2 DEF LeadsOut
<1>6. deps = ImportLists(D)
  BY <1>3
<1>. QED
  BY <1>4, <1>5, <1>6

\* A name that means something does so when more is known.
LEMMA ResolvesLater ==
  ASSUME prog \in Programs, NEW id, NEW when, NEW then,
         \A s \in Nodes : Declarations(s, id, when) # {} => Declarations(s, id, then) # {},
         NEW t \in Nodes, Resolves(t, id, when)
  PROVE  Resolves(t, id, then)
<1>. SUFFICES ASSUME id \notin Elementary, ScopeOf(t, id, when) # None
              PROVE  ScopeOf(t, id, then) # None
  BY DEF Resolves
<1>1. PICK c, f : IsWayOut(id, when, c) /\ IsLookup(Nodes, id, c, f) /\ ScopeOf(t, id, when) = f[t]
  BY ScopeOfDef
<1>2. PICK c2, g : IsWayOut(id, then, c2) /\ IsLookup(Nodes, id, c2, g) /\ ScopeOf(t, id, then) = g[t]
  BY ScopeOfDef
<1>. DEFINE L == Len(prog.nodes)
            S == {s \in 0..L : s \in Nodes => (c[s] # None => c2[s] # None)}
<1>3. L \in Nat /\ Nodes = 1..L
  BY TreeFacts
<1>4. ASSUME NEW s \in 0..L, \A j \in 0..L : j < s => j \in S
      PROVE  s \in S
  <2>. SUFFICES ASSUME s \in Nodes, c[s] # None PROVE c2[s] # None
    OBVIOUS
  <2>1. s # None
    BY <1>3 DEF None
  <2>2. c[s] = IF Declarations(s, id, when) # {} THEN s
               ELSE IF ScopeAround[s] = None THEN None ELSE c[ScopeAround[s]]
    BY <1>1 DEF IsWayOut
  <2>3. c2[s] = IF Declarations(s, id, then) # {} THEN s
                ELSE IF ScopeAround[s] = None THEN None ELSE c2[ScopeAround[s]]
    BY <1>2 DEF IsWayOut
  <2>4. ScopeAround[s] # None /\ c[ScopeAround[s]] # None => c2[ScopeAround[s]] # None
    <3>. SUFFICES ASSUME ScopeAround[s] # None
                  PROVE c[ScopeAround[s]] # None => c2[ScopeAround[s]] # None
      OBVIOUS
    <3>1. ScopeAround[s] \in Nodes /\ ScopeAround[s] \in 0..s - 1
      BY ScopeFacts
    <3>2. ScopeAround[s] \in 0..L /\ ScopeAround[s] < s
      BY <1>3, <3>1
    <3>. QED
      BY <1>4, <3>1, <3>2
  <2>. QED
    BY <2>1, <2>2, <2>3, <2>4
<1>5. \A s \in Nodes : c[s] # None => c2[s] # None
  <2>1. \A s \in 0..L : s \in S
    <3>. HIDE DEF S, L
    <3>. QED
      BY <1>3, <1>4, PositionInduction
  <2>. QED
    BY <1>3, <2>1
<1>6. PICK D, others : D = Nodes /\ others = Others(id)
  OBVIOUS
<1>7. PICK n, deps, rank : /\ deps = ImportLists(D)
                           /\ \A base : StartAlike(n, D, D, D, base, deps, base, deps, rank)
  BY <1>6, ScopesAsk
<1>8. Asks(D, c, deps, others, f) /\ Asks(D, c2, deps, others, g)
  BY <1>1, <1>2, <1>6, <1>7 DEF IsLookup
<1>9. \A o \in D : f[o] # None => g[o] # None
  <2>1. StartAlike(n, D, D, D, c, deps, c, deps, rank)
    BY <1>7
  <2>2. \A o \in D : c[o] # None => c2[o] # None
    BY <1>5, <1>6
  <2>. QED
    BY ONLY <1>8, <2>1, <2>2, AskingMore
<1>. QED
  BY <1>1, <1>2, <1>6, <1>9

\* It does so in the scope that declares it, and in every scope within.
LEMMA ResolvesWithin ==
  ASSUME prog \in Programs, NEW id, NEW when, NEW t \in Nodes,
         \/ Declarations(t, id, when) # {}
         \/ ScopeAround[t] # None /\ Resolves(ScopeAround[t], id, when)
  PROVE  Resolves(t, id, when)
<1>. SUFFICES ASSUME id \notin Elementary PROVE ScopeOf(t, id, when) # None
  BY DEF Resolves
<1>1. PICK c, f : /\ IsWayOut(id, when, c) /\ IsLookup(Nodes, id, c, f)
                  /\ \A u : ScopeOf(u, id, when) = f[u]
  BY ScopeOfDef
<1>2. t # None
  BY TreeFacts DEF None
<1>3. c[t] = IF Declarations(t, id, when) # {} THEN t
             ELSE IF ScopeAround[t] = None THEN None ELSE c[ScopeAround[t]]
  BY <1>1 DEF IsWayOut
<1>4. ASSUME NEW o \in Nodes
      PROVE  f[o] = IF c[o] # None THEN c[o] ELSE Asking(ImportsOf(o), Others(id), f)
  BY <1>1 DEF IsLookup, Asks, OwnOrAsked, ImportLists
<1>5. CASE Declarations(t, id, when) # {}
  BY <1>1, <1>2, <1>3, <1>4, <1>5
<1>6. CASE Declarations(t, id, when) = {} /\ ScopeAround[t] # None
  <2>1. PICK s : s = ScopeAround[t]
    OBVIOUS
  <2>2. s \in Nodes /\ s # None
    BY <1>6, <2>1, ScopeFacts
  <2>3. f[s] # None
    <3>1. Resolves(s, id, when)
      BY <1>6, <2>1
    <3>2. ScopeOf(s, id, when) # None
      BY <3>1 DEF Resolves
    <3>. QED
      BY <1>1, <3>2
  <2>4. CASE c[s] # None
    BY <1>1, <1>3, <1>4, <1>6, <2>1, <2>4
  <2>5. CASE c[s] = None
    <3>1. Asking(ImportsOf(s), Others(id), f) # None
      BY <1>4, <2>2, <2>3, <2>5
    <3>2. ImportsOf(s) # <<>>
      BY <3>1 DEF Asking, Offering
    <3>3. Kind(s) # "file"
      BY <3>2 DEF ImportsOf
    <3>4. Kind(t) # "module"
      <4>1. Kind(t) = "module" => Parent(t) \in Nodes /\ Kind(Parent(t)) = "file"
        BY TreeFacts, ModuleFacts
      <4>2. Kind(t) = "module" => s = Parent(t)
        BY <2>1, <4>1, ScopeFacts DEF Owners, None
      <4>. QED
        BY <3>3, <4>1, <4>2
    <3>5. ModuleAround[s] = ModuleAround[t]
      BY <1>6, <2>1, <3>4, ScopeIsInModule
    <3>6. Kind(t) # "file"
      BY <1>6, ScopeFacts
    <3>7. ImportsOf(t) = ImportsOf(s)
      BY <3>3, <3>5, <3>6 DEF ImportsOf
    <3>8. c[t] = None
      BY <1>3, <1>6, <2>1, <2>5
    <3>. QED
      BY <1>1, <1>4, <3>1, <3>7, <3>8
  <2>. QED
    BY <2>4, <2>5
<1>. QED
  BY <1>5, <1>6

\* What is known before a node is known in the second walk, anywhere in its module.
LEMMA ResolvesAtEnd ==
  ASSUME prog \in Programs, NEW n \in Nodes, NEW k \in Nodes, ModuleAround[k] = ModuleAround[n],
         NEW t \in Nodes, NEW id, Resolves(t, id, Before(n))
  PROVE  Resolves(t, id, AtEndOf(k))
<1>1. PICK when, then : when = Before(n) /\ then = AtEndOf(k)
  OBVIOUS
<1>2. /\ when.module = ModuleAround[n] /\ when.node = n
      /\ then.module = ModuleAround[n] /\ then.node = Len(prog.nodes) + 1
  BY <1>1 DEF Before, AtEndOf
<1>3. ASSUME NEW s \in Nodes, NEW d \in Declarations(s, id, when)
      PROVE  d \in Declarations(s, id, then)
  <2>1. d \in Nodes /\ DeclaredIn(d, s) /\ IsKnown(d, s, when)
    BY DEF Declarations
  <2>2. KnownFrom(d, s) < n => KnownFrom(d, s) < Len(prog.nodes) + 1
    <3>1. n \in Nat /\ Len(prog.nodes) \in Nat /\ n <= Len(prog.nodes)
      BY TreeFacts
    <3>2. KnownFrom(d, s) \in Nat
      BY <2>1, TreeFacts DEF KnownFrom
    <3>. QED
      BY <3>1, <3>2
  <2>3. IsKnown(d, s, then)
    BY <1>2, <2>1, <2>2 DEF IsKnown
  <2>. QED
    BY <2>1, <2>3 DEF Declarations
<1>4. \A s \in Nodes : Declarations(s, id, when) # {} => Declarations(s, id, then) # {}
  BY <1>3
<1>5. Resolves(t, id, when)
  BY <1>1
<1>6. Resolves(t, id, then)
  BY <1>4, <1>5, ResolvesLater
<1>. QED
  BY <1>1, <1>6
-----------------------------------------------------------------------------
(* What names mean *)

LEMMA LookedUpFacts ==
  ASSUME prog \in Programs, NEW n \in Nodes, Kind(n) = "leaf", NEW k, k = LookedUpAt(n)
  PROVE  /\ k \in Nodes /\ k <= n /\ ModuleAround[k] = ModuleAround[n]
         /\ Kind(k) \in {"leaf", "fndecl"} /\ ~IsArgument(k)
         /\ ScopeAround[k] \in Nodes
<1>1. CASE IsArgument(n)
  <2>1. k = HomeOf(n) /\ k = Parent(Parent(n)) /\ Kind(k) = "fndecl"
    BY <1>1 DEF LookedUpAt, HomeOf, IsArgument
  <2>2. k \in Nodes /\ ModuleAround[k] = ModuleAround[n] /\ k < n
    BY <2>1, HomeFacts, DeclarationFacts
  <2>3. k <= n
    BY <2>2, TreeFacts
  <2>4. ScopeAround[k] \in Nodes
    BY <2>1, <2>2, ScopeOfSome, ScopeFacts
  <2>. QED
    BY <2>1, <2>2, <2>3, <2>4 DEF IsArgument
<1>2. CASE ~IsArgument(n)
  <2>1. k = n
    BY <1>2 DEF LookedUpAt
  <2>2. n <= n
    BY TreeFacts
  <2>3. ScopeAround[n] \in Nodes
    BY ScopeOfSome, ScopeFacts
  <2>. QED
    BY <1>2, <2>1, <2>2, <2>3
<1>. QED
  BY <1>1, <1>2

\* What is known before a node that is not an argument stands before it, though the
\* arguments of a function are known from where that begins.
LEMMA KnownIsBefore ==
  ASSUME prog \in Programs, NEW k \in Nodes, Kind(k) \in {"leaf", "fndecl"}, ~IsArgument(k),
         NEW s \in Nodes, NEW d \in Nodes, DeclaredIn(d, s), KnownFrom(d, s) < k
  PROVE  d < k
<1>0. d \in Nat /\ k \in Nat
  BY TreeFacts
<1>1. CASE ~(IsArgument(d) /\ s = Parent(Parent(d)))
  BY <1>1 DEF KnownFrom
<1>2. CASE IsArgument(d) /\ s = Parent(Parent(d))
  <2>1. PICK p : p = Parent(d)
    OBVIOUS
  <2>2. /\ s < k /\ s = Parent(p) /\ Kind(p) = "typedesc" /\ Kind(s) = "fndecl"
        /\ Parent(d) # None
    BY <1>2, <2>1, LeafFacts, TreeFacts DEF KnownFrom, IsArgument
  <2>3. p \in Nodes /\ p \in Nat /\ p = s + 1 /\ s \in Nat
    BY <2>1, <2>2, TreeFacts, LeafFacts
  <2>4. SUFFICES ASSUME ~(d < k) PROVE FALSE
    OBVIOUS
  <2>5. k # d
    BY <1>2
  <2>6. k # p
    BY <2>2
  <2>7. p < k /\ k < d
    BY <1>0, <2>2, <2>3, <2>4, <2>5, <2>6
  <2>8. Parent(k) = p /\ Kind(k) \in {"leaf", "use"}
    BY <2>1, <2>2, <2>3, <2>7, DescriptionIsFlat
  <2>. QED
    BY <2>2, <2>8 DEF IsArgument
<1>. QED
  BY <1>1, <1>2

\* The analysis comes to the declaration of a type before it comes to its use.
ComesBefore(d, n) == RankOf(d) < RankOf(n) \/ (RankOf(d) = RankOf(n) /\ d < n)
LEMMA NamedTypeComesBefore ==
  ASSUME prog \in Programs, NEW n \in Nodes, Kind(n) = "leaf", Node(n).ref \notin Elementary,
         Resolves(ScopeAround[LookedUpAt(n)], Node(n).ref, Before(LookedUpAt(n)))
  PROVE  TypeNamedBy(n) \in Nodes /\ ComesBefore(TypeNamedBy(n), n)
<1>1. PICK k, id, when, o, d : /\ k = LookedUpAt(n) /\ id = Node(n).ref /\ when = Before(k)
                               /\ o = ScopeAround[k] /\ d = TypeNamedBy(n)
  OBVIOUS
<1>2. /\ k \in Nodes /\ k <= n /\ ModuleAround[k] = ModuleAround[n]
      /\ Kind(k) \in {"leaf", "fndecl"} /\ ~IsArgument(k) /\ o \in Nodes
  BY <1>1, LookedUpFacts
<1>3. ScopeOf(o, id, when) # None
  BY <1>1 DEF Resolves
<1>4. PICK D : D = Nodes
  OBVIOUS
<1>5. LeadsOut(D) /\ o \in D
  BY <1>2, <1>4, ScopesAsk
<1>6. PICK s : s = ScopeOf(o, id, when)
  OBVIOUS
<1>7. s \in Nodes /\ Declarations(s, id, when) # {}
  BY <1>3, <1>4, <1>5, <1>6, ScopeIsAmong
<1>8. d \in Declarations(s, id, when)
  BY <1>1, <1>6, <1>7 DEF TypeNamedBy, DeclarationOf
<1>9. d \in Nodes /\ DeclaredIn(d, s) /\ IsKnown(d, s, when)
  BY <1>8 DEF Declarations
<1>10. when.module = ModuleAround[n] /\ when.node = k
  BY <1>1, <1>2 DEF Before
<1>11. Kind(d) # "file" /\ Kind(n) # "file"
  BY <1>7, <1>9, DeclarationFacts
<1>12. CASE AnalyzedBefore(ModuleAround[d], ModuleAround[n])
  <2>1. PICK i, j \in DOMAIN prog.modules :
          i < j /\ prog.modules[i] = ModuleAround[d] /\ prog.modules[j] = ModuleAround[n]
    BY <1>12 DEF AnalyzedBefore
  <2>2. RankOf(d) = i /\ RankOf(n) = j
    BY <1>11, <2>1, ProgramFacts DEF RankOf
  <2>. QED
    BY <1>1, <1>9, <2>1, <2>2 DEF ComesBefore
<1>13. CASE ModuleAround[d] = ModuleAround[n] /\ KnownFrom(d, s) < k
  <2>1. d < k
    BY <1>2, <1>7, <1>9, <1>13, KnownIsBefore
  <2>2. d < n
    BY <1>2, <1>9, <2>1, TreeFacts
  <2>3. RankOf(d) = RankOf(n)
    BY <1>11, <1>13 DEF RankOf
  <2>. QED
    BY <1>1, <1>9, <2>2, <2>3 DEF ComesBefore
<1>. QED
  BY <1>9, <1>10, <1>12, <1>13 DEF IsKnown

\* One turn of Means.
AsksItsType(n) ==
  /\ Kind(n) = "leaf" /\ Node(n).ref \notin Elementary
  /\ Resolves(ScopeAround[LookedUpAt(n)], Node(n).ref, Before(LookedUpAt(n)))
Meaning(f, n) ==
  CASE Kind(n) \in {"module", "fndecl", "typedecl"} -> Kind(n)
    [] Kind(n) = "leaf" /\ Node(n).ref \in Elementary -> "elementary"
    [] AsksItsType(n) -> f[TypeNamedBy(n)]
    [] OTHER -> "unknown"

\* There is such a function: up to each module there is one, which is continued in
\* the next module node by node.
LEMMA MeansDef ==
  ASSUME prog \in Programs
  PROVE  Means = [n \in Nodes |-> Meaning(Means, n)]
<1>. DEFINE M == Len(prog.modules)
            Upto(r) == \E f : \A n \in Nodes : RankOf(n) <= r => f[n] = Meaning(f, n)
            S == {r \in 0..M : Upto(r)}
<1>0. /\ M \in Nat /\ Len(prog.nodes) \in Nat /\ Nodes = 1..Len(prog.nodes)
      /\ \A n \in Nodes : RankOf(n) \in 0..M
  BY TreeFacts, ProgramFacts, ImportFacts
<1>1. ASSUME NEW n \in Nodes, NEW f, NEW g, AsksItsType(n) => f[TypeNamedBy(n)] = g[TypeNamedBy(n)]
      PROVE  Meaning(f, n) = Meaning(g, n)
  BY <1>1 DEF Meaning
<1>2. ASSUME NEW n \in Nodes, AsksItsType(n)
      PROVE  TypeNamedBy(n) \in Nodes /\ ComesBefore(TypeNamedBy(n), n)
  BY <1>2, NamedTypeComesBefore DEF AsksItsType
<1>3. ASSUME NEW r \in 0..M, \A j \in 0..M : j < r => j \in S
      PROVE  r \in S
  <2>1. PICK g : \A n \in Nodes : RankOf(n) < r => g[n] = Meaning(g, n)
    <3>1. CASE r = 0
      <4>1. \A n \in Nodes : ~(RankOf(n) < r)
        BY <1>0, <3>1
      <4>. QED
        BY <4>1
    <3>2. CASE r # 0
      <4>1. r - 1 \in 0..M /\ r - 1 < r
        BY <1>0, <3>2
      <4>2. r - 1 \in S
        BY <1>3, <4>1
      <4>3. PICK g : \A n \in Nodes : RankOf(n) <= r - 1 => g[n] = Meaning(g, n)
        BY <4>2
      <4>4. \A n \in Nodes : RankOf(n) < r => RankOf(n) <= r - 1
        BY <1>0
      <4>. QED
        BY <4>3, <4>4
    <3>. QED
      BY <3>1, <3>2
  <2>. DEFINE D == {n \in Nodes : RankOf(n) <= r}
              stops == {n \in Nodes : RankOf(n) < r \/ ~AsksItsType(n) \/ RankOf(TypeNamedBy(n)) < r}
              value == [n \in Nodes |-> Meaning(g, n)]
              up == [n \in Nodes |-> TypeNamedBy(n)]
  <2>2. ASSUME NEW n \in D, n \notin stops
        PROVE  up[n] \in D /\ up[n] < n
    <3>1. /\ n \in Nodes /\ AsksItsType(n) /\ RankOf(n) <= r /\ ~(RankOf(n) < r)
          /\ ~(RankOf(TypeNamedBy(n)) < r)
      BY <2>2
    <3>2. PICK d : d = TypeNamedBy(n)
      OBVIOUS
    <3>3. d \in Nodes /\ ComesBefore(d, n)
      BY <1>2, <3>1, <3>2
    <3>4. RankOf(n) \in Nat /\ RankOf(d) \in Nat /\ r \in Nat
      BY <1>0, <3>1, <3>3
    <3>5. RankOf(d) <= r /\ d < n
      BY <3>1, <3>2, <3>3, <3>4 DEF ComesBefore
    <3>. QED
      BY <3>1, <3>2, <3>3, <3>5
  <2>3. PICK f : f = Climb(D, stops, value, up, f)
    <3>1. D \in SUBSET (0..Len(prog.nodes))
      BY <1>0
    <3>. HIDE DEF D, stops, value, up
    <3>. QED
      BY <1>0, <2>2, <3>1, ClimbExists
  <2>4. ASSUME NEW n \in D
        PROVE  /\ n \in stops => f[n] = Meaning(g, n)
               /\ n \notin stops => AsksItsType(n) /\ f[n] = f[TypeNamedBy(n)]
    <3>1. f[n] = IF n \in stops THEN value[n] ELSE f[up[n]]
      <4>. HIDE DEF D, stops, value, up
      <4>. QED
        BY <2>3 DEF Climb
    <3>2. value[n] = Meaning(g, n) /\ up[n] = TypeNamedBy(n)
      OBVIOUS
    <3>3. n \notin stops => AsksItsType(n)
      OBVIOUS
    <3>. HIDE DEF D, stops, value, up
    <3>. QED
      BY <3>1, <3>2, <3>3
  <2>5. ASSUME NEW n \in Nodes, RankOf(n) < r
        PROVE  f[n] = g[n]
    <3>1. n \in D /\ n \in stops
      BY <1>0, <2>5
    <3>. QED
      BY <2>1, <2>4, <2>5, <3>1
  <2>6. ASSUME NEW n \in Nodes, RankOf(n) <= r
        PROVE  f[n] = Meaning(f, n)
    <3>1. n \in D
      BY <2>6
    <3>2. CASE n \in stops
      <4>1. ASSUME AsksItsType(n)
            PROVE  f[TypeNamedBy(n)] = g[TypeNamedBy(n)]
        <5>1. PICK d : d = TypeNamedBy(n)
          OBVIOUS
        <5>2. d \in Nodes /\ ComesBefore(d, n)
          BY <1>2, <4>1, <5>1
        <5>3. RankOf(n) < r \/ RankOf(d) < r
          BY <3>2, <4>1, <5>1
        <5>4. RankOf(n) \in Nat /\ RankOf(d) \in Nat /\ r \in Nat
          BY <1>0, <5>2
        <5>5. RankOf(d) < r
          BY <5>2, <5>3, <5>4 DEF ComesBefore
        <5>. QED
          BY <2>5, <5>1, <5>2, <5>5
      <4>2. Meaning(f, n) = Meaning(g, n)
        BY <1>1, <4>1
      <4>. QED
        BY <2>4, <3>1, <3>2, <4>2
    <3>3. CASE n \notin stops
      <4>1. AsksItsType(n) /\ f[n] = f[TypeNamedBy(n)]
        BY <2>4, <3>1, <3>3
      <4>2. Meaning(f, n) = f[TypeNamedBy(n)]
        BY <4>1 DEF Meaning, AsksItsType
      <4>. QED
        BY <4>1, <4>2
    <3>. QED
      BY <3>2, <3>3
  <2>7. Upto(r)
    BY <2>6
  <2>. QED
    BY <2>7
<1>4. M \in S
  <2>. HIDE DEF S, M
  <2>1. \A r \in 0..M : r \in S
    BY <1>0, <1>3, PositionInduction
  <2>. QED
    BY <1>0, <2>1
<1>5. PICK g : \A n \in Nodes : RankOf(n) <= M => g[n] = Meaning(g, n)
  BY <1>4
<1>. DEFINE f == [n \in Nodes |-> g[n]]
<1>6. ASSUME NEW n \in Nodes
      PROVE  f[n] = Meaning(f, n)
  <2>1. RankOf(n) <= M /\ f[n] = g[n]
    BY <1>0
  <2>2. AsksItsType(n) => f[TypeNamedBy(n)] = g[TypeNamedBy(n)]
    BY <1>2
  <2>3. Meaning(f, n) = Meaning(g, n)
    <3>. HIDE DEF f
    <3>. QED
      BY <1>1, <2>2
  <2>. QED
    BY <1>5, <2>1, <2>3
<1>7. f = [n \in Nodes |-> Meaning(f, n)]
  <2>1. f = [n \in Nodes |-> f[n]]
    OBVIOUS
  <2>. HIDE DEF f
  <2>. QED
    BY <1>6, <2>1
<1>8. \E h : h = [n \in Nodes |-> Meaning(h, n)]
  <2>. HIDE DEF f
  <2>. QED
    BY <1>7
<1>. QED
  BY <1>8 DEF Means, Meaning, AsksItsType

-----------------------------------------------------------------------------
(* What a record says of a name *)

\* Nothing but names is in the description of a function.
LEMMA NoScopeInFunctionDescription ==
  ASSUME prog \in Programs
  PROVE  \A n \in Nodes : ScopeAround[n] # None /\ IsOfFunction(ScopeAround[n])
           => Kind(n) \in {"leaf", "use"}
<1>. DEFINE L == Len(prog.nodes)
            S == {n \in 0..L : n \in Nodes /\ ScopeAround[n] # None /\ IsOfFunction(ScopeAround[n])
                                 => Kind(n) \in {"leaf", "use"}}
<1>0. L \in Nat /\ Nodes = 1..L
  BY TreeFacts
<1>1. ASSUME NEW n \in 0..L, \A j \in 0..L : j < n => j \in S
      PROVE  n \in S
  <2>. SUFFICES ASSUME n \in Nodes, ScopeAround[n] # None, IsOfFunction(ScopeAround[n])
                PROVE Kind(n) \in {"leaf", "use"}
    OBVIOUS
  <2>1. PICK p : p = Parent(n)
    OBVIOUS
  <2>2. p # None /\ p \in Nodes /\ p < n
    BY <2>1, ScopeFacts, TreeFacts
  <2>3. CASE Kind(p) \in Owners
    <3>1. ScopeAround[n] = p
      BY <2>1, <2>2, <2>3, ScopeFacts
    <3>2. Kind(p) = "typedesc"
      BY <3>1 DEF IsOfFunction
    <3>. QED
      BY <2>1, <2>2, <3>2, LeafFacts
  <2>4. CASE Kind(p) \in Borrowers /\ n # p + 1
    <3>1. ScopeAround[n] = p + 1 /\ Parent(p + 1) = p
      BY <2>1, <2>2, <2>4, ScopeFacts, TreeFacts
    <3>2. Kind(p) = "fndecl"
      BY <3>1 DEF IsOfFunction
    <3>. QED
      BY <2>4, <3>2 DEF Borrowers
  <2>5. CASE Kind(p) \notin Owners /\ (Kind(p) \in Borrowers => n = p + 1)
    <3>1. ScopeAround[n] = ScopeAround[p]
      BY <2>1, <2>2, <2>5, ScopeFacts
    <3>2. p \in S
      BY <1>0, <1>1, <2>2
    <3>3. Kind(p) \in {"leaf", "use"}
      BY <2>2, <3>1, <3>2
    <3>. QED
      BY <2>1, <2>2, <3>3, LeafFacts
  <2>. QED
    BY <2>3, <2>4, <2>5
<1>2. \A n \in 0..L : n \in S
  <2>. HIDE DEF S, L
  <2>. QED
    BY <1>0, <1>1, PositionInduction
<1>. QED
  BY <1>0, <1>2

\* So all other scopes lead to each other only.
PlainScopes(e) == {s \in ScopesUpto(e) : ~IsOfFunction(s)}
LEMMA PlainServes ==
  ASSUME prog \in Programs, NEW T, NEW e, NEW id, NEW when, Serves(T, ScopesUpto(e), id, when)
  PROVE  Serves(T, PlainScopes(e), id, when)
<1>1. PICK P, R : P = PlainScopes(e) /\ R = ScopesUpto(e)
  OBVIOUS
<1>2. P \subseteq R /\ R \subseteq DOMAIN T
  BY <1>1 DEF PlainScopes, Serves
<1>3. ASSUME NEW s \in P
      PROVE  /\ T[s].outer = ScopeAround[s] /\ (ScopeAround[s] # None => ScopeAround[s] \in P)
             /\ HasDeclared(T, s, id, when) /\ ImportsOf(s) \in Seq(P)
  <2>1. /\ T[s].outer = ScopeAround[s] /\ (ScopeAround[s] # None => ScopeAround[s] \in R)
        /\ HasDeclared(T, s, id, when) /\ ImportsOf(s) \in Seq(R)
    BY <1>1, <1>2 DEF Serves
  <2>2. s \in Nodes /\ Kind(s) \in Owners
    BY <1>1, <1>2 DEF ScopesUpto
  <2>3. ScopeAround[s] # None => ScopeAround[s] \in P
    <3>1. Kind(s) \notin {"leaf", "use"}
      BY <2>2 DEF Owners
    <3>. QED
      BY <1>1, <2>1, <2>2, <3>1, NoScopeInFunctionDescription DEF PlainScopes
  <2>4. PICK d : d = ImportsOf(s)
    OBVIOUS
  <2>5. \A i \in DOMAIN d : d[i] \in P
    <3>1. \A i \in DOMAIN d : Kind(d[i]) \in {"file", "module"}
      BY <2>2, <2>4, ImportFacts
    <3>2. \A i \in DOMAIN d : d[i] \in R
      BY <2>1, <2>4
    <3>. QED
      BY <1>1, <3>1, <3>2 DEF PlainScopes, IsOfFunction
  <2>6. d \in Seq(P)
    BY <2>1, <2>4, <2>5
  <2>. QED
    BY <2>1, <2>3, <2>4, <2>6
<1>4. Serves(T, P, id, when)
  BY <1>2, <1>3 DEF Serves
<1>. QED
  BY <1>1, <1>4

\* The tables have each declaration with the type of what its name stands for.
KindsServed(tabs, R, id, when) ==
  \A s \in R : \A d \in Declarations(s, id, when) : StandsFor(tabs, s, d)

\* A name has a type if it means something, and that of what it means.
LEMMA KnownResolves ==
  ASSUME prog \in Programs, NEW tabs, AreTrees(tabs), NEW R, NEW id, NEW when,
         Serves(tabs, R, id, when), NEW t \in R
  PROVE  Known(tabs, t, id) <=> Resolves(t, id, when)
BY LookupFindsScope DEF Known, Resolves

LEMMA FoundStandsFor ==
  ASSUME prog \in Programs, NEW tabs, AreTrees(tabs), NEW R, NEW id, NEW when,
         Serves(tabs, R, id, when), KindsServed(tabs, R, id, when), NEW t \in R,
         Lookup(tabs, t, id) # None, NEW d, d = DeclarationOf(t, id, when)
  PROVE  /\ d \in Nodes /\ Means[d] \in DOMAIN Category
         /\ Record(tabs, t, id).type.category = Category[Means[d]]
<1>1. PICK s : s = Lookup(tabs, t, id)
  OBVIOUS
<1>2. s # None /\ s = ScopeOf(t, id, when)
  BY <1>1, LookupFindsScope
<1>3. s \in R /\ Declarations(s, id, when) # {}
  BY <1>2, ScopeIsFound
<1>4. d \in Declarations(s, id, when)
  BY <1>2, <1>3 DEF DeclarationOf
<1>5. d \in Nodes /\ Node(d).name = id /\ StandsFor(tabs, s, d)
  BY <1>3, <1>4 DEF KindsServed, Declarations
<1>6. Record(tabs, t, id) = tabs[s].records[Node(d).name]
  BY <1>1, <1>5 DEF Record
<1>. QED
  BY <1>5, <1>6 DEF StandsFor

\* A leaf is entered with the type of what its own type's name means.
LEMMA LeafStandsFor ==
  ASSUME prog \in Programs, NEW tabs, AreTables(tabs), AreTrees(tabs), NEW R, NEW t \in DOMAIN tabs,
         NEW n \in Nodes, Kind(n) = "leaf", NEW st \in R, st = ScopeAround[LookedUpAt(n)],
         NEW when, when = Before(LookedUpAt(n)), NEW id, id = Node(n).ref,
         Serves(tabs, R, id, when), KindsServed(tabs, R, id, when),
         CanAddLeaf(tabs, t, st, n)
  PROVE  StandsFor(AddLeaf(tabs, t, st, n), t, n)
<1>1. PICK type, name, node : /\ type = TypeOf(tabs, st, id) /\ name = Node(n).name
                              /\ AddLeaf(tabs, t, st, n) = Add(tabs, t, name, node, type)
  BY DEF AddLeaf
<1>2. name \notin DOMAIN tabs[t].records /\ Known(tabs, st, id)
  BY <1>1 DEF CanAddLeaf
<1>3. Entry(Add(tabs, t, name, node, type), t, name, node, type)
  BY <1>2, AddGains
<1>4. AddLeaf(tabs, t, st, n)[t].records[name].type = type
  BY <1>1, <1>3 DEF Entry
<1>5. Means[n] \in DOMAIN Category /\ type.category = Category[Means[n]]
  <2>1. Means[n] = Meaning(Means, n)
    <3>1. PICK f : f = Means
      OBVIOUS
    <3>2. f = [k \in Nodes |-> Meaning(f, k)]
      BY <3>1, MeansDef
    <3>. QED
      BY <3>1, <3>2
  <2>2. CASE id \in Elementary
    <3>1. Means[n] = "elementary"
      BY <2>1, <2>2 DEF Meaning, AsksItsType
    <3>2. type = [category |-> "elementary", node |-> None]
      BY <1>1, <2>2 DEF TypeOf
    <3>. QED
      BY <3>1, <3>2 DEF Category
  <2>3. CASE id \notin Elementary
    <3>1. Resolves(st, id, when)
      BY <1>2, KnownResolves
    <3>2. AsksItsType(n)
      BY <2>3, <3>1 DEF AsksItsType
    <3>3. PICK d : d = TypeNamedBy(n)
      OBVIOUS
    <3>4. d = DeclarationOf(st, id, when)
      BY <3>3 DEF TypeNamedBy
    <3>5. Means[n] = Means[d]
      BY <2>1, <3>2, <3>3 DEF Meaning, AsksItsType
    <3>6. Lookup(tabs, st, id) # None
      BY <1>2, <2>3 DEF Known
    <3>7. type = Record(tabs, st, id).type
      BY <1>1, <2>3 DEF TypeOf
    <3>. QED
      BY <3>4, <3>5, <3>6, <3>7, FoundStandsFor
  <2>. QED
    BY <2>2, <2>3
<1>. QED
  BY <1>1, <1>4, <1>5 DEF StandsFor

\* None of this changes.
LEMMA ResolvesStay ==
  ASSUME prog' = prog
  PROVE  /\ \A o, id, when : Resolves(o, id, when)' <=> Resolves(o, id, when)
         /\ \A o, id, when : DeclarationOf(o, id, when)' = DeclarationOf(o, id, when)
         /\ \A n : Before(n)' = Before(n) /\ AtEndOf(n)' = AtEndOf(n)
         /\ \A n : LookedUpAt(n)' = LookedUpAt(n) /\ TypeNamedBy(n)' = TypeNamedBy(n)
<1>1. /\ Nodes' = Nodes /\ ScopeAround' = ScopeAround /\ ModuleAround' = ModuleAround
      /\ \A n : Node(n)' = Node(n) /\ Kind(n)' = Kind(n) /\ Parent(n)' = Parent(n)
  BY TreeStays, DeclarationsStay
<1>2. ASSUME NEW o, NEW id, NEW when
      PROVE  /\ Declarations(o, id, when)' = Declarations(o, id, when)
             /\ ScopeOf(o, id, when)' = ScopeOf(o, id, when)
  BY MeaningStays
<1>3. ASSUME NEW o, NEW id, NEW when
      PROVE  /\ Resolves(o, id, when)' <=> Resolves(o, id, when)
             /\ DeclarationOf(o, id, when)' = DeclarationOf(o, id, when)
  <2>1. PICK s : s = ScopeOf(o, id, when)
    OBVIOUS
  <2>2. ScopeOf(o, id, when)' = s
    BY <1>2, <2>1
  <2>3. PICK S : S = Declarations(s, id, when)
    OBVIOUS
  <2>4. Declarations(s, id, when)' = S
    BY <1>2, <2>3
  <2>5. DeclarationOf(o, id, when) = CHOOSE n \in S : TRUE
    BY <2>1, <2>3 DEF DeclarationOf
  <2>6. DeclarationOf(o, id, when)' = CHOOSE n \in S : TRUE
    BY <2>2, <2>4 DEF DeclarationOf
  <2>7. Resolves(o, id, when)' <=> Resolves(o, id, when)
    BY <2>1, <2>2 DEF Resolves
  <2>. QED
    BY <2>5, <2>6, <2>7
<1>4. ASSUME NEW n
      PROVE  Before(n)' = Before(n) /\ AtEndOf(n)' = AtEndOf(n) /\ LookedUpAt(n)' = LookedUpAt(n)
  BY <1>1 DEF Before, AtEndOf, LookedUpAt, IsArgument
<1>5. ASSUME NEW n
      PROVE  TypeNamedBy(n)' = TypeNamedBy(n)
  <2>1. PICK o, id, when : /\ o = ScopeAround[LookedUpAt(n)] /\ id = Node(n).ref
                           /\ when = Before(LookedUpAt(n))
    OBVIOUS
  <2>2. PICK k : k = LookedUpAt(n)
    OBVIOUS
  <2>3. k = LookedUpAt(n)'
    BY <1>4, <2>2
  <2>4. /\ (ScopeAround[LookedUpAt(n)])' = o /\ (Node(n).ref)' = id /\ Before(LookedUpAt(n))' = when
    <3>1. Before(k)' = Before(k)
      BY <1>4
    <3>. QED
      BY <1>1, <2>1, <2>2, <2>3, <3>1
  <2>5. TypeNamedBy(n) = DeclarationOf(o, id, when)
    BY <2>1 DEF TypeNamedBy
  <2>6. TypeNamedBy(n)' = DeclarationOf(o, id, when)'
    BY <2>4 DEF TypeNamedBy
  <2>. QED
    BY <1>3, <2>5, <2>6
<1>. QED
  BY <1>3, <1>4, <1>5

LEMMA JudgementsStay ==
  ASSUME prog' = prog
  PROVE  /\ Means' = Means
         /\ \A n : NameIsNew(n)' <=> NameIsNew(n)
         /\ \A n : HidesNoFunction(n)' <=> HidesNoFunction(n)
         /\ \A k, n : TypeIsKnownAt(k, n)' <=> TypeIsKnownAt(k, n)
         /\ \A n : UseIsDeclared(n)' <=> UseIsDeclared(n)
<1>1. /\ Nodes' = Nodes /\ ScopeAround' = ScopeAround /\ ModuleAround' = ModuleAround
      /\ FunctionAround' = FunctionAround
      /\ \A n : Node(n)' = Node(n) /\ Kind(n)' = Kind(n) /\ Parent(n)' = Parent(n)
      /\ \A n, o : DeclaredIn(n, o)' <=> DeclaredIn(n, o)
  BY TreeStays, DeclarationsStay
<1>2. ASSUME NEW k, NEW n
      PROVE  TypeIsKnownAt(k, n)' <=> TypeIsKnownAt(k, n)
  <2>1. PICK o, id, when : o = ScopeAround[k] /\ id = Node(n).ref /\ when = Before(k)
    OBVIOUS
  <2>2. ScopeAround'[k] = o /\ (Node(n).ref)' = id /\ Before(k)' = when
    BY <1>1, <2>1, ResolvesStay
  <2>3. TypeIsKnownAt(k, n) <=> Resolves(o, id, when)
    BY <2>1 DEF TypeIsKnownAt
  <2>4. TypeIsKnownAt(k, n)' <=> Resolves(o, id, when)'
    BY <2>2 DEF TypeIsKnownAt
  <2>. QED
    BY <2>3, <2>4, ResolvesStay
<1>3. ASSUME NEW n
      PROVE  AsksItsType(n)' <=> AsksItsType(n)
  <2>1. PICK o, id, when, k : /\ k = LookedUpAt(n) /\ o = ScopeAround[k] /\ id = Node(n).ref
                              /\ when = Before(k)
    OBVIOUS
  <2>2. /\ LookedUpAt(n)' = k /\ ScopeAround'[k] = o /\ (Node(n).ref)' = id /\ Before(k)' = when
    BY <1>1, <2>1, ResolvesStay
  <2>3. Resolves(o, id, when)' <=> Resolves(o, id, when)
    BY ResolvesStay
  <2>4. AsksItsType(n) <=> Kind(n) = "leaf" /\ id \notin Elementary /\ Resolves(o, id, when)
    BY <2>1 DEF AsksItsType
  <2>5. AsksItsType(n)' <=> Kind(n)' = "leaf" /\ id \notin Elementary /\ Resolves(o, id, when)'
    BY <2>2 DEF AsksItsType
  <2>. QED
    BY <1>1, <2>3, <2>4, <2>5
<1>4. Means' = Means
  <2>1. \A n : AsksItsType(n)' <=> AsksItsType(n)
    BY <1>3
  <2>2. \A n : TypeNamedBy(n)' = TypeNamedBy(n)
    BY ResolvesStay
  <2>. QED
    BY <1>1, <2>1, <2>2 DEF Means, AsksItsType
<1>5. ASSUME NEW n
      PROVE  NameIsNew(n)' <=> NameIsNew(n)
  <2>1. PICK id, when : id = Node(n).name /\ when = AtEndOf(n)
    OBVIOUS
  <2>2. (Node(n).name)' = id /\ AtEndOf(n)' = when
    BY <1>1, <2>1, ResolvesStay
  <2>3. NameIsNew(n) <=> \A o \in Nodes : DeclaredIn(n, o) => Declarations(o, id, when) \subseteq {n}
    BY <2>1 DEF NameIsNew
  <2>4. NameIsNew(n)' <=> \A o \in Nodes' : DeclaredIn(n, o)' => Declarations(o, id, when)' \subseteq {n}
    BY <2>2 DEF NameIsNew
  <2>. QED
    BY <1>1, <2>3, <2>4, MeaningStays
<1>6. ASSUME NEW n
      PROVE  HidesNoFunction(n)' <=> HidesNoFunction(n)
  <2>1. PICK o, id, when : o = ScopeAround[n] /\ id = Node(n).name /\ when = Before(n)
    OBVIOUS
  <2>2. ScopeAround'[n] = o /\ (Node(n).name)' = id /\ Before(n)' = when
    BY <1>1, <2>1, ResolvesStay
  <2>3. HidesNoFunction(n) <=> (Kind(n) = "fndecl" /\ ScopeOf(o, id, when) # None
                                  => Means[DeclarationOf(o, id, when)] # "fndecl")
    BY <2>1 DEF HidesNoFunction
  <2>4. HidesNoFunction(n)' <=> (Kind(n)' = "fndecl" /\ ScopeOf(o, id, when)' # None
                                  => Means'[DeclarationOf(o, id, when)'] # "fndecl")
    BY <2>2 DEF HidesNoFunction
  <2>5. ScopeOf(o, id, when)' = ScopeOf(o, id, when) /\ DeclarationOf(o, id, when)' = DeclarationOf(o, id, when)
    BY MeaningStays, ResolvesStay
  <2>. QED
    BY <1>1, <1>4, <2>3, <2>4, <2>5
<1>7. ASSUME NEW n
      PROVE  UseIsDeclared(n)' <=> UseIsDeclared(n)
  <2>1. PICK o, id, ref, when : /\ o = ScopeAround[n] /\ id = Node(n).name /\ ref = Node(n).ref
                                /\ when = AtEndOf(n)
    OBVIOUS
  <2>2. ScopeAround'[n] = o /\ (Node(n).name)' = id /\ (Node(n).ref)' = ref /\ AtEndOf(n)' = when
    BY <1>1, <2>1, ResolvesStay
  <2>3. UseIsDeclared(n)
          <=> /\ Kind(n) \in {"use", "call"} => Resolves(o, id, when)
              /\ Kind(n) = "match" => Resolves(o, ref, when)
              /\ Kind(n) = "call" /\ id \notin Elementary => Means[DeclarationOf(o, id, when)] # "module"
              /\ Kind(n) = "return" => FunctionAround[o] # None
    BY <2>1 DEF UseIsDeclared
  <2>4. UseIsDeclared(n)'
          <=> /\ Kind(n)' \in {"use", "call"} => Resolves(o, id, when)'
              /\ Kind(n)' = "match" => Resolves(o, ref, when)'
              /\ Kind(n)' = "call" /\ id \notin Elementary
                   => Means'[DeclarationOf(o, id, when)'] # "module"
              /\ Kind(n)' = "return" => FunctionAround'[o] # None
    BY <2>2 DEF UseIsDeclared
  <2>5. /\ Resolves(o, id, when)' <=> Resolves(o, id, when)
        /\ Resolves(o, ref, when)' <=> Resolves(o, ref, when)
        /\ DeclarationOf(o, id, when)' = DeclarationOf(o, id, when)
    BY ResolvesStay
  <2>. QED
    BY <1>1, <1>4, <2>3, <2>4, <2>5
<1>. QED
  BY <1>2, <1>4, <1>5, <1>6, <1>7

LEMMA VerdictsStay ==
  ASSUME prog' = prog
  PROVE  /\ \A n : IsAccepted(n)' <=> IsAccepted(n)
         /\ WellScoped' <=> WellScoped
         /\ \A o : IsOfFunction(o)' <=> IsOfFunction(o)
         /\ \A o, n : StandsFor(tables, o, n)' <=> StandsFor(tables', o, n)
<1>1. /\ Nodes' = Nodes /\ Len(prog.nodes)' = Len(prog.nodes)
      /\ \A n : Node(n)' = Node(n) /\ Kind(n)' = Kind(n) /\ Parent(n)' = Parent(n)
  BY TreeStays, DeclarationsStay
<1>2. ASSUME NEW n
      PROVE  Leaves(n)' = Leaves(n) /\ Described(n)' = Described(n)
  BY <1>1 DEF Leaves, Described
<1>3. ASSUME NEW n
      PROVE  IsAccepted(n)' <=> IsAccepted(n)
  BY <1>1, <1>2, JudgementsStay DEF IsAccepted
<1>4. ASSUME NEW n
      PROVE  TypesAreKnown(n)' <=> TypesAreKnown(n)
  <2>1. PICK p : p = Parent(Parent(n))
    OBVIOUS
  <2>2. Parent(Parent(n))' = p
    BY <1>1, <2>1 DEF Parent
  <2>3. TypeIsKnownAt(p, n)' <=> TypeIsKnownAt(p, n)
    BY JudgementsStay
  <2>4. TypeIsKnownAt(n, n)' <=> TypeIsKnownAt(n, n)
    BY JudgementsStay
  <2>5. TypesAreKnown(n)
          <=> /\ Kind(n) \in {"leaf", "fndecl"} => TypeIsKnownAt(n, n)
              /\ Kind(n) = "leaf" /\ Kind(p) \in {"typedecl", "fndecl"} => TypeIsKnownAt(p, n)
    BY <2>1 DEF TypesAreKnown
  <2>6. TypesAreKnown(n)'
          <=> /\ Kind(n)' \in {"leaf", "fndecl"} => TypeIsKnownAt(n, n)'
              /\ Kind(n)' = "leaf" /\ Kind(p)' \in {"typedecl", "fndecl"} => TypeIsKnownAt(p, n)'
    BY <2>2 DEF TypesAreKnown
  <2>. QED
    BY <1>1, <2>3, <2>4, <2>5, <2>6
<1>5. WellScoped' <=> WellScoped
  BY <1>1, <1>4, JudgementsStay DEF WellScoped
<1>6. \A o : IsOfFunction(o)' <=> IsOfFunction(o)
  BY <1>1 DEF IsOfFunction
<1>7. ASSUME NEW o, NEW n
      PROVE  StandsFor(tables, o, n)' <=> StandsFor(tables', o, n)
  BY <1>1, JudgementsStay DEF StandsFor, Category
<1>. QED
  BY <1>3, <1>5, <1>6, <1>7

LEMMA MeansTurn ==
  ASSUME prog \in Programs, NEW n \in Nodes
  PROVE  /\ Means[n] = Meaning(Means, n)
         /\ Kind(n) \in {"module", "fndecl", "typedecl"} => Means[n] = Kind(n)
<1>1. PICK f : f = Means
  OBVIOUS
<1>2. f = [k \in Nodes |-> Meaning(f, k)]
  BY <1>1, MeansDef
<1>3. Means[n] = Meaning(Means, n)
  BY <1>1, <1>2
<1>4. Kind(n) \in {"module", "fndecl", "typedecl"} => Meaning(Means, n) = Kind(n)
  BY DEF Meaning, AsksItsType
<1>. QED
  BY <1>3, <1>4
-----------------------------------------------------------------------------
(* The types of the records *)

\* What is around the next node has its records as the node finds them.
LEMMA AroundIsTyped ==
  ASSUME WalkInv, ModulesAreKnown, RecordsAreTyped, phase = "first", Descends,
         NEW n, EntersLeaf(next, n), NEW when, when = Before(n), NEW id, NEW T, AsAround(T)
  PROVE  KindsServed(T, PlainScopes(next), id, when)
<1>1. /\ prog \in Programs /\ at \in DOMAIN prog.modules /\ next \in Nodes /\ next \in Nat
      /\ ModuleAround[next] = Module
  BY NextIsInModule, TreeFacts DEF WalkInv
<1>2. ASSUME NEW s \in PlainScopes(next), NEW d \in Declarations(s, id, when)
      PROVE  StandsFor(T, s, d)
  <2>1. s \in ScopesUpto(next) /\ ~IsOfFunction(s)
    BY DEF PlainScopes
  <2>2. s \in DOMAIN tables /\ T[s].records = tables[s].records
    BY <1>1, <2>1, ScopesAreLinked DEF AsAround, Linked
  <2>3. d \in Nodes /\ DeclaredIn(d, s) /\ IsKnown(d, s, when)
    BY DEF Declarations
  <2>4. IsEntered(d, s)
    BY <1>1, <2>1, <2>3, KnownWhenEntered
  <2>5. StandsFor(tables, s, d)
    BY <2>1, <2>2, <2>3, <2>4 DEF RecordsAreTyped
  <2>. QED
    BY <2>2, <2>5 DEF StandsFor
<1>. QED
  BY <1>2 DEF KindsServed

\* The scope around what is entered is not that of a function's description.
LEMMA CurrentIsPlain ==
  ASSUME WalkInv, ModulesAreKnown, phase = "first", Descends,
         Kind(next) \in {"fndecl", "typedecl", "vardecl", "typedesc"}
  PROVE  current \in PlainScopes(next) /\ current = ScopeAround[next] /\ current # None
<1>1. prog \in Programs /\ next \in Nodes
  BY NextFacts DEF WalkInv
<1>2. current \in ScopesUpto(next) /\ current = ScopeAround[next]
  BY CurrentIsAsked
<1>3. current # None
  BY CurrentFacts
<1>4. ~IsOfFunction(current)
  BY <1>1, <1>2, <1>3, NoScopeInFunctionDescription
<1>. QED
  BY <1>2, <1>3, <1>4 DEF PlainScopes

\* The tables as they are, or with a new one and leaves in it, are those around.
LEMMA TablesAreAround ==
  ASSUME WalkInv, ModulesAreKnown, phase = "first", Descends
  PROVE  AsAround(tables)
<1>1. next \in Nat
  BY PathFacts
<1>2. \A s \in ScopesUpto(next) : s \in DOMAIN tables
  BY <1>1, ScopesAreLinked DEF Linked
<1>. QED
  BY <1>2 DEF AsAround

\* A leaf of a description that is not a function's finds what is around and the
\* leaves before it.
LEMMA DescriptionIsTyped ==
  ASSUME WalkInv, ModulesAreKnown, RecordsAreTyped, phase = "first", Descends,
         Kind(next) = "typedesc", NEW n \in Leaves(next), NEW when, when = Before(n), NEW id,
         NEW T, AsAround(T),
         \A k \in Leaves(next) : k <= n - 1 => StandsFor(T, next, k)
  PROVE  KindsServed(T, PlainScopes(next + 1), id, when)
<1>1. /\ prog \in Programs /\ at \in DOMAIN prog.modules /\ next \in Nodes /\ next \in Nat
      /\ ModuleAround[next] = Module
  BY NextIsInModule, TreeFacts DEF WalkInv
<1>2. EntersLeaf(next, n)
  BY DEF EntersLeaf
<1>3. KindsServed(T, PlainScopes(next), id, when)
  BY <1>2, AroundIsTyped
<1>4. ASSUME NEW s \in PlainScopes(next + 1), NEW d \in Declarations(s, id, when)
      PROVE  StandsFor(T, s, d)
  <2>1. CASE s = next
    <3>1. d \in Nodes /\ DeclaredIn(d, next) /\ IsKnown(d, next, when)
      BY <2>1 DEF Declarations
    <3>2. d \in Leaves(next) /\ d <= n - 1
      BY <1>1, <3>1, KnownInDescription
    <3>. QED
      BY <2>1, <3>2
  <2>2. CASE s # next
    <3>1. s \in Nodes /\ s \in Nat
      BY <1>1, TreeFacts DEF PlainScopes, ScopesUpto
    <3>2. s < next + 1 => s < next
      BY <1>1, <2>2, <3>1
    <3>3. s \in PlainScopes(next)
      BY <3>2 DEF PlainScopes, ScopesUpto
    <3>. QED
      BY <1>3, <3>3 DEF KindsServed
  <2>. QED
    BY <2>1, <2>2
<1>. QED
  BY <1>4 DEF KindsServed

\* So each of its leaves is entered with the type of what it stands for.
LEMMA DescriptionStands ==
  ASSUME WalkInv, ModulesAreKnown, NamesAreEntered, TypesAreEntered, RecordsAreTyped, EnterTypedesc,
         ~IsOfFunction(next)
  PROVE  \A n \in Leaves(next) : StandsFor(tables', next, n)
<1>1. /\ prog \in Programs /\ phase = "first" /\ Descends /\ Kind(next) = "typedesc" /\ next \in Nodes
      /\ next \in Nat /\ ModuleAround[next] = Module
      /\ Kind(next) \in {"fndecl", "typedesc"} /\ next # None
  BY NextIsInModule, TreeFacts DEF WalkInv, EnterTypedesc, Entering, None
<1>2. PICK own, leaves, after, st :
        /\ own = WithTable(tables, next, Below(current)) /\ leaves = Leaves(next)
        /\ after = AfterLeaves(own, next, st, leaves) /\ st = next
  OBVIOUS
<1>3. /\ Opened(own) /\ LeavesAdded(own, next, st, leaves).ok
      /\ tables' = after[Len(prog.nodes)] /\ AreTables(own) /\ next \in DOMAIN own
  BY <1>2, DescriptionGained DEF Opened
<1>4. Opens(own, next)
  BY <1>1, <1>2, NewTable
<1>5. leaves \in SUBSET Nodes
  BY <1>1, <1>2, DescribedFacts
<1>6. /\ \A m \in 0..Len(prog.nodes) : GainedUpto(own, next, leaves, after, m)
      /\ \A n \in leaves : after[n] = AddLeaf(after[n - 1], next, st, n)
  BY <1>1, <1>2, <1>3, <1>5, LeavesGain
<1>. DEFINE L == Len(prog.nodes)
            S == {n \in 0..L : n \in leaves => StandsFor(after[n], next, n)}
<1>7. L \in Nat /\ Nodes = 1..L
  BY <1>1, TreeFacts
<1>8. next \in PlainScopes(next + 1)
  <2>1. next < next + 1
    BY <1>1
  <2>. QED
    BY <1>1, <2>1 DEF PlainScopes, ScopesUpto, Owners
<1>9. ASSUME NEW n \in 0..L, \A j \in 0..L : j < n => j \in S
      PROVE  n \in S
  <2>. SUFFICES ASSUME n \in leaves PROVE StandsFor(after[n], next, n)
    OBVIOUS
  <2>1. n \in Nodes /\ Kind(n) = "leaf" /\ Parent(n) = next /\ n \in Nat
    BY <1>2, <1>5, <1>7 DEF Leaves, Parent
  <2>2. LookedUpAt(n) = n /\ ScopeAround[n] = next
    <3>1. ~IsArgument(n)
      BY <1>1, <2>1 DEF IsArgument, IsOfFunction
    <3>2. ScopeAround[n] = next
      BY <1>1, <2>1, ScopeFacts DEF Owners
    <3>. QED
      BY <3>1, <3>2 DEF LookedUpAt
  <2>3. PICK T : T = after[n - 1]
    OBVIOUS
  <2>4. /\ AreTables(T) /\ AreTrees(T) /\ AsAround(T) /\ SameLinks(T, own) /\ next \in DOMAIN T
        /\ DOMAIN T[next].records = NamesOf(LeavesUpto(leaves, n - 1))
        /\ CanAddLeaf(T, next, st, n)
    <3>1. n \in leaves /\ LeavesAdded(own, next, st, leaves).ok /\ after = AfterLeaves(own, next, st, leaves)
      BY <1>2, <1>3
    <3>. QED
      BY ONLY WalkInv, ModulesAreKnown, <1>1, <1>3, <1>4, <1>5, <2>3, <3>1, TablesAtLeaf
  <2>5. PICK id, when, R : id = Node(n).ref /\ when = Before(n) /\ R = PlainScopes(next + 1)
    OBVIOUS
  <2>6. Serves(T, R, id, when)
    <3>1. n \in Leaves(next) /\ DOMAIN T[next].records = NamesOf(LeavesUpto(Leaves(next), n - 1))
      BY <1>2, <2>4
    <3>2. Serves(T, ScopesUpto(next + 1), id, when)
      BY ONLY WalkInv, ModulesAreKnown, NamesAreEntered, TypesAreEntered, <1>1, <1>4, <2>4, <2>5,
              <3>1, DescriptionIsServed
    <3>. QED
      BY <1>1, <2>5, <3>2, PlainServes
  <2>7. ASSUME NEW k \in Leaves(next), k <= n - 1
        PROVE  StandsFor(T, next, k)
    <3>1. k \in leaves /\ k \in 0..L /\ k < n /\ n - 1 \in 0..L
      BY <1>2, <1>5, <1>7, <2>1, <2>7
    <3>2. StandsFor(after[k], next, k)
      BY <1>9, <3>1
    <3>3. GainedUpto(own, next, leaves, after, n - 1)
      BY <1>6, <3>1
    <3>4. T[next].records[Node(k).name] = after[k][next].records[Node(k).name]
      BY <2>3, <2>7, <3>1, <3>3 DEF GainedUpto
    <3>. QED
      BY <3>2, <3>4 DEF StandsFor
  <2>8. KindsServed(T, R, id, when)
    <3>1. n \in Leaves(next)
      BY <1>2
    <3>2. AsAround(T)
      BY <2>4
    <3>. QED
      BY ONLY WalkInv, ModulesAreKnown, RecordsAreTyped, <1>1, <2>5, <2>7, <3>1, <3>2, DescriptionIsTyped
  <2>9. StandsFor(AddLeaf(T, next, st, n), next, n)
    <3>1. st \in R /\ st = ScopeAround[LookedUpAt(n)] /\ when = Before(LookedUpAt(n))
      BY <1>2, <1>8, <2>2, <2>5
    <3>. QED
      BY ONLY <1>1, <2>1, <2>4, <2>5, <2>6, <2>8, <3>1, LeafStandsFor
  <2>. QED
    BY <1>6, <2>3, <2>9
<1>10. \A n \in 0..L : n \in S
  <2>. HIDE DEF S, L
  <2>. QED
    BY <1>7, <1>9, PositionInduction
<1>11. ASSUME NEW n \in leaves
       PROVE  StandsFor(tables', next, n)
  <2>1. n \in 0..L /\ n <= L /\ L \in 0..L
    BY <1>5, <1>7
  <2>2. StandsFor(after[n], next, n)
    BY <1>10, <2>1
  <2>3. tables'[next].records[Node(n).name] = after[n][next].records[Node(n).name]
    BY <1>3, <1>6, <2>1 DEF GainedUpto
  <2>. QED
    BY <2>2, <2>3 DEF StandsFor
<1>. QED
  BY <1>2, <1>11

\* A module, a function or a type is entered as such.
LEMMA SymbolStands ==
  ASSUME prog \in Programs, NEW n \in Nodes, Kind(n) \in {"module", "fndecl", "typedecl"},
         NEW tabs, AreTables(tabs), NEW t \in DOMAIN tabs, Node(n).name \notin DOMAIN tabs[t].records,
         NEW node, NEW type, type.category = Category[Kind(n)]
  PROVE  StandsFor(Add(tabs, t, Node(n).name, node, type), t, n)
<1>1. PICK name : name = Node(n).name
  OBVIOUS
<1>2. Entry(Add(tabs, t, name, node, type), t, name, node, type)
  BY <1>1, AddGains
<1>3. Add(tabs, t, name, node, type)[t].records[name].type = type
  BY <1>2 DEF Entry
<1>4. Means[n] = Kind(n) /\ Kind(n) \in DOMAIN Category
  BY MeansTurn DEF Category
<1>. QED
  BY <1>1, <1>3, <1>4 DEF StandsFor

\* All that is entered at the next node.
NewRecordsStand(tabs) ==
  \A o \in DOMAIN tabs : \A n \in EnteredHere(next, o) : ~IsOfFunction(o) => StandsFor(tabs, o, n)

LEMMA ModuleStands ==
  ASSUME WalkInv, EnterModule
  PROVE  NewRecordsStand(tables')
<1>. DEFINE own == WithTable(tables, next, Below(current))
<1>1. /\ Kind(next) = "module" /\ prog \in Programs /\ next \in Nodes /\ DOMAIN tables \subseteq Nodes
      /\ phase = "first" /\ Descends
      /\ Node(next).name \notin DOMAIN tables[current].records
  BY NextFacts DEF WalkInv, EnterModule, Entering, TablesAreLinked
<1>2. Opened(own)
  BY <1>1, NewTableIsOpened
<1>3. current = ScopeAround[next] /\ current \in DOMAIN tables /\ current # next
  BY <1>1, CurrentFacts
<1>4. PICK type : /\ tables' = Add(own, current, Node(next).name, next, type)
                  /\ type = [category |-> "module", node |-> next]
  BY DEF EnterModule
<1>. HIDE DEF own
<1>5. AreTables(own) /\ current \in DOMAIN own /\ Node(next).name \notin DOMAIN own[current].records
  BY <1>1, <1>2, <1>3 DEF Opened
<1>6. type.category = Category[Kind(next)]
  BY <1>1, <1>4 DEF Category
<1>7. StandsFor(tables', current, next)
  BY <1>1, <1>4, <1>5, <1>6, SymbolStands
<1>8. DOMAIN tables' \subseteq Nodes
  <2>1. SameLinks(tables', own)
    BY <1>4, <1>5, AddKeepsLinks
  <2>. QED
    BY <1>1, <1>2, <2>1 DEF SameLinks, Opened
<1>. QED
  BY <1>1, <1>3, <1>7, <1>8, EnteredHereFacts DEF NewRecordsStand

LEMMA TypedeclStands ==
  ASSUME WalkInv, EnterTypedecl
  PROVE  NewRecordsStand(tables')
<1>1. /\ Kind(next) = "typedecl" /\ prog \in Programs /\ next \in Nodes /\ DOMAIN tables \subseteq Nodes
      /\ phase = "first" /\ Descends
      /\ Node(next).name \notin DOMAIN tables[current].records
  BY NextFacts DEF WalkInv, EnterTypedecl, Entering, TablesAreLinked
<1>2. current = ScopeAround[next] /\ current \in DOMAIN tables /\ AreTables(tables)
  BY <1>1, CurrentFacts, NewTable
<1>3. PICK type : /\ tables' = Add(tables, current, Node(next).name, next, type)
                  /\ type = [category |-> "defined", node |-> next]
  BY DEF EnterTypedecl
<1>4. type.category = Category[Kind(next)]
  BY <1>1, <1>3 DEF Category
<1>5. StandsFor(tables', current, next)
  BY <1>1, <1>2, <1>3, <1>4, SymbolStands
<1>6. DOMAIN tables' \subseteq Nodes
  <2>1. SameLinks(tables', tables)
    BY <1>2, <1>3, AddKeepsLinks
  <2>. QED
    BY <1>1, <2>1 DEF SameLinks
<1>. QED
  BY <1>1, <1>2, <1>5, <1>6, EnteredHereFacts DEF NewRecordsStand

LEMMA VardeclStands ==
  ASSUME WalkInv, ModulesAreKnown, NamesAreEntered, TypesAreEntered, RecordsAreTyped, EnterVardecl
  PROVE  NewRecordsStand(tables')
<1>1. /\ prog \in Programs /\ phase = "first" /\ Descends /\ Kind(next) = "vardecl" /\ next \in Nodes
      /\ CanAddLeaf(tables, current, current, next + 1)
      /\ tables' = AddLeaf(tables, current, current, next + 1) /\ DOMAIN tables \subseteq Nodes
  BY NextFacts DEF WalkInv, EnterVardecl, Entering, TablesAreLinked
<1>2. AreTrees(tables) /\ AreTables(tables)
  BY TablesAreTrees, NewTable
<1>3. /\ current \in PlainScopes(next) /\ current = ScopeAround[next] /\ current \in DOMAIN tables
      /\ Kind(next) \notin Owners \cup Borrowers
  BY <1>1, CurrentIsPlain, CurrentFacts DEF Owners, Borrowers
<1>4. PICK n : n = next + 1
  OBVIOUS
<1>5. n \in Nodes /\ Kind(n) = "leaf" /\ Parent(n) = next /\ next # None
  BY <1>1, <1>4, LeafFacts, TreeFacts DEF None
<1>6. LookedUpAt(n) = n /\ ScopeAround[n] = current
  <2>1. ~IsArgument(n)
    BY <1>1, <1>5 DEF IsArgument
  <2>2. ScopeAround[n] = current
    BY <1>1, <1>3, <1>5, ScopeFacts
  <2>. QED
    BY <2>1, <2>2 DEF LookedUpAt
<1>7. EntersLeaf(next, n) /\ AsAround(tables)
  BY <1>1, <1>4, TablesAreAround DEF EntersLeaf
<1>8. PICK id, when, R : id = Node(n).ref /\ when = Before(n) /\ R = PlainScopes(next)
  OBVIOUS
<1>9. Serves(tables, R, id, when) /\ KindsServed(tables, R, id, when)
  BY <1>1, <1>7, <1>8, AroundIsServed, PlainServes, AroundIsTyped
<1>10. StandsFor(AddLeaf(tables, current, current, n), current, n)
  <2>1. current \in R /\ current = ScopeAround[LookedUpAt(n)] /\ when = Before(LookedUpAt(n))
        /\ CanAddLeaf(tables, current, current, n)
    BY <1>1, <1>3, <1>4, <1>6, <1>8
  <2>. QED
    BY ONLY <1>1, <1>2, <1>3, <1>5, <1>8, <1>9, <2>1, LeafStandsFor
<1>11. DOMAIN tables' \subseteq Nodes
  <2>1. SameLinks(tables', tables)
    BY <1>1, <1>2, AddLeafKeepsLinks
  <2>. QED
    BY <1>1, <2>1 DEF SameLinks
<1>. QED
  BY <1>1, <1>3, <1>4, <1>10, <1>11, EnteredHereFacts DEF NewRecordsStand

LEMMA FndeclStands ==
  ASSUME WalkInv, ModulesAreKnown, NamesAreEntered, TypesAreEntered, RecordsAreTyped, EnterFndecl
  PROVE  NewRecordsStand(tables')
<1>1. /\ prog \in Programs /\ phase = "first" /\ Descends /\ Kind(next) = "fndecl" /\ next \in Nodes
      /\ next \in Nat /\ next # None /\ Node(next).name \notin DOMAIN tables[current].records
      /\ DOMAIN tables \subseteq Nodes
  BY NextFacts, TreeFacts DEF WalkInv, EnterFndecl, Entering, None, TablesAreLinked
<1>2. /\ current \in PlainScopes(next) /\ current = ScopeAround[next] /\ current \in DOMAIN tables
      /\ current # next
  BY <1>1, CurrentIsPlain, CurrentFacts
<1>3. PICK own, with, args, leaves, after, id, type :
        /\ own = WithTable(tables, next, [Below(current) EXCEPT !.fndecl = next])
        /\ with = WithArguments(next).tables /\ args = NamesOf(Described(next))
        /\ leaves = Described(next) /\ after = AfterLeaves(own, next, current, leaves)
        /\ id = Node(next).name /\ tables' = Add(with, current, id, next, type)
        /\ type = [category |-> "function", node |-> next]
  BY DEF EnterFndecl
<1>4. /\ Opened(own) /\ AreTables(with) /\ Gains(with, own, next, args) /\ SameLinks(with, own)
      /\ LeavesAdded(own, next, current, leaves).ok /\ with = after[Len(prog.nodes)]
  BY <1>3, ArgumentsGained
<1>5. Opens(own, next)
  BY <1>1, <1>3, NewTable
<1>6. leaves \in SUBSET Nodes
  BY <1>1, <1>3, DescribedFacts
<1>7. current \in DOMAIN with /\ id \notin DOMAIN with[current].records /\ next \in DOMAIN with
  BY <1>1, <1>2, <1>3, <1>4 DEF Opened, Gains
<1>8. tables'[next].records = with[next].records
  <2>1. Gains(tables', with, current, {id})
    BY <1>3, <1>4, <1>7, AddGains
  <2>. QED
    BY <1>2, <1>7, <2>1 DEF Gains
<1>9. StandsFor(tables', current, next)
  <2>1. type.category = Category[Kind(next)]
    BY <1>1, <1>3 DEF Category
  <2>. QED
    BY <1>1, <1>3, <1>4, <1>7, <2>1, SymbolStands
<1>10. ASSUME NEW n \in leaves
       PROVE  StandsFor(tables', next, n)
  <2>1. /\ Kind(next + 1) = "typedesc" /\ Parent(next + 1) = next /\ Parent(n) = next + 1
        /\ n \in Nodes /\ Kind(n) = "leaf" /\ n \in Nat /\ Len(prog.nodes) \in Nat /\ n <= Len(prog.nodes)
    BY <1>3, <1>6, TreeFacts, <1>1 DEF Described, Leaves, Parent
  <2>2. IsArgument(n) /\ LookedUpAt(n) = next
    BY <1>1, <2>1 DEF IsArgument, LookedUpAt
  <2>3. PICK ref, when, T, R : /\ ref = Node(n).ref /\ when = Before(next) /\ T = after[n - 1]
                               /\ R = PlainScopes(next)
    OBVIOUS
  <2>4. EntersLeaf(next, next)
    BY <1>1 DEF EntersLeaf
  <2>5. /\ AreTables(T) /\ AreTrees(T) /\ AsAround(T) /\ next \in DOMAIN T
        /\ CanAddLeaf(T, next, current, n)
    <3>1. n \in leaves /\ Kind(next) \in {"fndecl", "typedesc"}
      BY <1>1
    <3>. QED
      BY ONLY WalkInv, ModulesAreKnown, <1>1, <1>3, <1>4, <1>5, <1>6, <2>3, <3>1, TablesAtLeaf
  <2>6. Serves(T, R, ref, when) /\ KindsServed(T, R, ref, when)
    BY <1>1, <2>3, <2>4, <2>5, AroundIsServed, PlainServes, AroundIsTyped
  <2>7. StandsFor(AddLeaf(T, next, current, n), next, n)
    <3>1. current \in R /\ current = ScopeAround[LookedUpAt(n)] /\ when = Before(LookedUpAt(n))
      BY <1>2, <2>2, <2>3
    <3>. QED
      BY ONLY <1>1, <2>1, <2>3, <2>5, <2>6, <3>1, LeafStandsFor
  <2>8. after[n] = AddLeaf(T, next, current, n) /\ GainedUpto(own, next, leaves, after, Len(prog.nodes))
    <3>1. AreTables(own) /\ next \in DOMAIN own /\ Len(prog.nodes) \in 0..Len(prog.nodes)
      BY <1>4, <2>1 DEF Opened
    <3>. QED
      BY <1>1, <1>3, <1>4, <1>6, <2>3, <3>1, LeavesGain
  <2>9. with[next].records[Node(n).name] = after[n][next].records[Node(n).name]
    BY <1>4, <2>1, <2>8 DEF GainedUpto
  <2>. QED
    BY <1>8, <2>7, <2>8, <2>9 DEF StandsFor
<1>11. DOMAIN tables' \subseteq Nodes
  <2>1. SameLinks(tables', with)
    BY <1>3, <1>4, AddKeepsLinks
  <2>. QED
    BY <1>1, <1>4, <2>1 DEF SameLinks, Opened
<1>12. \A o \in Nodes : EnteredHere(next, o) = IF o = next THEN leaves ELSE IF o = current THEN {next} ELSE {}
  BY <1>1, <1>2, <1>3, EnteredHereFacts
<1>. QED
  BY <1>9, <1>10, <1>11, <1>12 DEF NewRecordsStand

LEMMA TypedescStands ==
  ASSUME WalkInv, ModulesAreKnown, NamesAreEntered, TypesAreEntered, RecordsAreTyped, EnterTypedesc
  PROVE  NewRecordsStand(tables')
<1>1. /\ prog \in Programs /\ next \in Nodes /\ Kind(next) = "typedesc" /\ DOMAIN tables \subseteq Nodes
  BY NextFacts DEF WalkInv, EnterTypedesc, Entering, TablesAreLinked
<1>2. DOMAIN tables' \subseteq Nodes
  BY <1>1, DescriptionGained DEF SameLinks, Opened
<1>3. \A o \in Nodes : EnteredHere(next, o) = IF o = next THEN Leaves(next) ELSE {}
  BY <1>1, EnteredHereFacts
<1>. QED
  BY <1>2, <1>3, DescriptionStands DEF NewRecordsStand

LEMMA OthersStand ==
  ASSUME WalkInv, ModulesAreKnown, EnterBlock \/ EnterOther
  PROVE  NewRecordsStand(tables')
<1>1. prog \in Programs /\ next \in Nodes /\ DOMAIN tables \subseteq Nodes
  BY NextFacts DEF WalkInv, EnterBlock, EnterOther, Entering, TablesAreLinked
<1>2. Kind(next) \notin {"module", "typedecl", "vardecl", "fndecl", "typedesc"}
  BY DEF EnterBlock, EnterOther, Entering
<1>3. DOMAIN tables' \subseteq Nodes
  BY <1>1 DEF EnterBlock, EnterOther, WithTable
<1>4. \A o \in Nodes : EnteredHere(next, o) = {}
  BY <1>1, <1>2, EnteredHereFacts
<1>. QED
  BY <1>3, <1>4 DEF NewRecordsStand

\* What is entered is in a scope that was met, with a table.
LEMMA EnteredInScope ==
  ASSUME WalkInv, phase = "first", next \in Nat, NEW n \in Nodes, NEW o \in Nodes, IsEntered(n, o)
  PROVE  o \in ScopesUpto(next)
<1>1. prog \in Programs /\ DeclaredIn(n, o)
  BY DEF WalkInv, IsEntered
<1>2. Kind(o) \in Owners
  <2>0. o # None
    BY <1>1, TreeFacts DEF None
  <2>1. CASE Kind(n) # "leaf"
    <3>1. ScopeAround[n] = o
      BY <1>1, <2>1, EnteredAtFacts
    <3>. QED
      BY <1>1, <2>0, <3>1, ScopeIsOwner
  <2>2. CASE Kind(n) = "leaf" /\ Kind(Parent(n)) = "vardecl"
    <3>1. Parent(n) \in Nodes /\ ScopeAround[Parent(n)] = o
      BY <1>1, <2>2, EnteredAtFacts
    <3>. QED
      BY <1>1, <2>0, <3>1, ScopeIsOwner
  <2>3. CASE Kind(n) = "leaf" /\ Kind(Parent(n)) # "vardecl"
    BY <1>1, <2>3, EnteredAtFacts DEF Owners
  <2>. QED
    BY <2>1, <2>2, <2>3
<1>3. CASE Kind(n) = "module"
  BY <1>1, <1>2, <1>3, DeclarationFacts DEF ScopesUpto
<1>4. CASE Kind(n) # "module"
  <2>1. ModuleAround[o] = ModuleAround[n]
    BY <1>1, <1>4, DeclarationFacts
  <2>2. PICK e : e = EnteredAt(n, o)
    OBVIOUS
  <2>3. o <= e /\ e \in Nodes /\ e \in Nat /\ o \in Nat
    BY <1>1, <2>2, EnteredAtFacts, TreeFacts
  <2>4. AnalyzedBefore(ModuleAround[n], Module) \/ (ModuleAround[n] = Module /\ e < next)
    BY <2>2 DEF IsEntered
  <2>5. e < next => o < next
    BY <2>3
  <2>. QED
    BY <1>2, <2>1, <2>4, <2>5 DEF ScopesUpto
<1>. QED
  BY <1>3, <1>4

\* Each record stays as it is, new ones stand for what is entered.
LEMMA EnteringRecords ==
  ASSUME WalkInv, ModulesAreKnown, NamesAreEntered, RecordsAreTyped, phase = "first", Descends, Visit,
         Enters(tables'), NewRecordsStand(tables')
  PROVE  RecordsAreTyped'
<1>0. /\ prog \in Programs /\ at \in DOMAIN prog.modules /\ next \in Nodes /\ next \in Nat
      /\ ModuleAround[next] = Module /\ DOMAIN tables \subseteq Nodes
      /\ prog' = prog /\ at' = at /\ phase' = phase /\ next' = next + 1 /\ next <= next
      /\ DOMAIN tables' \subseteq DOMAIN tables \cup {next}
  BY NextIsInModule, TreeFacts DEF WalkInv, TablesAreLinked, Visit, Enters
<1>1. Nodes' = Nodes
  BY <1>0, TreeStays
<1>2. ASSUME NEW o \in DOMAIN tables', NEW n \in Nodes, IsEntered(n, o)', ~IsOfFunction(o)
      PROVE  StandsFor(tables', o, n)
  <2>1. o \in Nodes
    BY <1>0
  <2>2. IsEntered(n, o) \/ n \in EnteredHere(next, o)
    BY <1>0, <1>2, <2>1, EnteredNow
  <2>3. CASE n \in EnteredHere(next, o)
    BY <1>2, <2>3 DEF NewRecordsStand
  <2>4. CASE IsEntered(n, o)
    <3>1. Node(n).name \in NamesEntered(o)
      BY <2>4 DEF NamesEntered
    <3>2. o # next
      BY <1>0, <3>1, NothingBefore
    <3>3. o \in DOMAIN tables /\ Node(n).name \in DOMAIN tables[o].records
      BY <1>0, <3>1, <3>2 DEF NamesAreEntered
    <3>4. StandsFor(tables, o, n)
      BY <1>2, <2>4, <3>3 DEF RecordsAreTyped
    <3>5. tables'[o].records[Node(n).name] = tables[o].records[Node(n).name]
      BY <3>2, <3>3 DEF Enters
    <3>. QED
      BY <3>4, <3>5 DEF StandsFor
  <2>. QED
    BY <2>2, <2>3, <2>4
<1>3. \A o \in DOMAIN tables' : \A n \in Nodes' :
        IsEntered(n, o)' /\ ~IsOfFunction(o)' => StandsFor(tables, o, n)'
  BY <1>0, <1>1, <1>2, VerdictsStay
<1>. QED
  BY <1>3 DEF RecordsAreTyped
-----------------------------------------------------------------------------
(* No name is entered twice *)

\* The leaves of a description have different names if they could be added.
LEMMA LeavesDiffer ==
  ASSUME WalkInv, ModulesAreKnown, phase = "first", Descends, Kind(next) \in {"fndecl", "typedesc"},
         NEW own, Opened(own), Opens(own, next), NEW st, NEW leaves \in SUBSET Nodes,
         LeavesAdded(own, next, st, leaves).ok,
         NEW n \in leaves, NEW k \in leaves, Node(n).name = Node(k).name
  PROVE  n = k
<1>1. PICK after : after = AfterLeaves(own, next, st, leaves)
  OBVIOUS
<1>2. n \in Nat /\ k \in Nat /\ prog \in Programs
  BY TreeFacts DEF WalkInv
<1>3. ASSUME NEW a \in leaves, NEW b \in leaves, b <= a - 1, Node(a).name = Node(b).name
      PROVE  FALSE
  <2>1. PICK T : T = after[a - 1]
    OBVIOUS
  <2>2. DOMAIN T[next].records = NamesOf(LeavesUpto(leaves, a - 1)) /\ CanAddLeaf(T, next, st, a)
    BY ONLY WalkInv, ModulesAreKnown, phase = "first", Descends, Kind(next) \in {"fndecl", "typedesc"},
            Opened(own), Opens(own, next), leaves \in SUBSET Nodes, a \in leaves,
            LeavesAdded(own, next, st, leaves).ok, <1>1, <2>1, TablesAtLeaf
  <2>3. Node(b).name \in NamesOf(LeavesUpto(leaves, a - 1))
    BY <1>3 DEF NamesOf, LeavesUpto
  <2>. QED
    BY <1>3, <2>2, <2>3 DEF CanAddLeaf
<1>4. n <= k - 1 \/ k <= n - 1 \/ n = k
  BY <1>2
<1>. QED
  BY <1>3, <1>4

\* The names entered at the next node are new.
NewNamesDiffer ==
  \A o \in Nodes : \A n \in EnteredHere(next, o) :
    /\ o # next => Node(n).name \notin DOMAIN tables[o].records
    /\ \A k \in EnteredHere(next, o) : Node(n).name = Node(k).name => n = k

LEMMA EnteringDiffers ==
  ASSUME WalkInv, ModulesAreKnown,
         \/ EnterBlock \/ EnterModule \/ EnterFndecl \/ EnterTypedesc
         \/ EnterTypedecl \/ EnterVardecl \/ EnterOther
  PROVE  NewNamesDiffer
<1>1. prog \in Programs /\ phase = "first" /\ Descends /\ next \in Nodes
  BY NextFacts DEF WalkInv, EnterBlock, EnterModule, EnterFndecl, EnterTypedesc, EnterTypedecl,
                   EnterVardecl, EnterOther, Entering
<1>2. CASE EnterBlock \/ EnterOther
  <2>1. Kind(next) \notin {"module", "typedecl", "vardecl", "fndecl", "typedesc"}
    BY <1>2 DEF EnterBlock, EnterOther, Entering
  <2>. QED
    BY <1>1, <2>1, EnteredHereFacts DEF NewNamesDiffer
<1>3. CASE EnterModule \/ EnterTypedecl
  <2>1. /\ Kind(next) \in {"module", "typedecl"}
        /\ Node(next).name \notin DOMAIN tables[current].records
    BY <1>3 DEF EnterModule, EnterTypedecl, Entering
  <2>2. current = ScopeAround[next]
    BY <1>1, <2>1, CurrentFacts
  <2>3. \A o \in Nodes : EnteredHere(next, o) = IF o = current THEN {next} ELSE {}
    BY <1>1, <2>1, <2>2, EnteredHereFacts
  <2>. QED
    BY <2>1, <2>3 DEF NewNamesDiffer
<1>4. CASE EnterVardecl
  <2>1. Kind(next) = "vardecl" /\ Node(next + 1).name \notin DOMAIN tables[current].records
    BY <1>4 DEF EnterVardecl, Entering, CanAddLeaf
  <2>2. current = ScopeAround[next]
    BY <1>1, <2>1, CurrentFacts
  <2>3. \A o \in Nodes : EnteredHere(next, o) = IF o = current THEN {next + 1} ELSE {}
    BY <1>1, <2>1, <2>2, EnteredHereFacts
  <2>. QED
    BY <2>1, <2>3 DEF NewNamesDiffer
<1>5. CASE EnterFndecl
  <2>1. Kind(next) = "fndecl" /\ Node(next).name \notin DOMAIN tables[current].records
    BY <1>5 DEF EnterFndecl, Entering
  <2>2. current = ScopeAround[next] /\ current # next
    BY <1>1, <2>1, CurrentFacts
  <2>3. PICK own, leaves :
          /\ own = WithTable(tables, next, [Below(current) EXCEPT !.fndecl = next])
          /\ leaves = Described(next)
    OBVIOUS
  <2>4. Opened(own) /\ LeavesAdded(own, next, current, leaves).ok
    BY <1>5, <2>3, ArgumentsGained
  <2>5. Opens(own, next) /\ leaves \in SUBSET Nodes
    BY <1>1, <2>1, <2>3, NewTable, DescribedFacts
  <2>6. \A n, k \in leaves : Node(n).name = Node(k).name => n = k
    BY <1>1, <2>1, <2>4, <2>5, LeavesDiffer
  <2>7. \A o \in Nodes : EnteredHere(next, o) = IF o = next THEN leaves ELSE IF o = current THEN {next} ELSE {}
    BY <1>1, <2>1, <2>2, <2>3, EnteredHereFacts
  <2>. QED
    BY <2>1, <2>6, <2>7 DEF NewNamesDiffer
<1>6. CASE EnterTypedesc
  <2>1. Kind(next) = "typedesc"
    BY <1>6 DEF EnterTypedesc, Entering
  <2>2. PICK own, leaves, st :
          own = WithTable(tables, next, Below(current)) /\ leaves = Leaves(next) /\ st = next
    OBVIOUS
  <2>3. Opened(own) /\ LeavesAdded(own, next, st, leaves).ok
    BY <1>6, <2>2, DescriptionGained
  <2>4. Opens(own, next) /\ leaves \in SUBSET Nodes
    BY <1>1, <2>1, <2>2, NewTable, DescribedFacts
  <2>5. \A n, k \in leaves : Node(n).name = Node(k).name => n = k
    BY <1>1, <2>1, <2>3, <2>4, LeavesDiffer
  <2>6. \A o \in Nodes : EnteredHere(next, o) = IF o = next THEN leaves ELSE {}
    BY <1>1, <2>1, <2>2, EnteredHereFacts
  <2>. QED
    BY <2>5, <2>6 DEF NewNamesDiffer
<1>. QED
  BY <1>2, <1>3, <1>4, <1>5, <1>6

LEMMA EnteringUnique ==
  ASSUME WalkInv, ModulesAreKnown, NamesAreEntered, NamesAreUnique, phase = "first", Descends, Visit,
         NewNamesDiffer
  PROVE  NamesAreUnique'
<1>0. /\ prog \in Programs /\ at \in DOMAIN prog.modules /\ next \in Nodes /\ next \in Nat
      /\ ModuleAround[next] = Module /\ next <= next
      /\ prog' = prog /\ at' = at /\ phase' = phase /\ next' = next + 1
  BY NextIsInModule, TreeFacts DEF WalkInv, Visit
<1>1. Nodes' = Nodes /\ \A n : Node(n)' = Node(n)
  BY <1>0, TreeStays, DeclarationsStay
<1>2. ASSUME NEW o \in Nodes, NEW n \in Nodes, NEW k \in Nodes, Node(n).name = Node(k).name,
             IsEntered(n, o), k \in EnteredHere(next, o)
      PROVE  FALSE
  <2>1. o \in ScopesUpto(next)
    BY <1>0, <1>2, EnteredInScope
  <2>2. o \in DOMAIN tables
    BY <1>0, <2>1, ScopesAreLinked DEF Linked
  <2>3. Node(n).name \in NamesEntered(o)
    BY <1>2 DEF NamesEntered
  <2>4. o # next
    BY <1>0, <2>3, NothingBefore
  <2>5. Node(k).name \in DOMAIN tables[o].records
    BY <1>0, <1>2, <2>2, <2>3 DEF NamesAreEntered
  <2>. QED
    BY <1>2, <2>4, <2>5 DEF NewNamesDiffer
<1>3. ASSUME NEW o \in Nodes, NEW n \in Nodes, NEW k \in Nodes, Node(n).name = Node(k).name,
             IsEntered(n, o)', IsEntered(k, o)'
      PROVE  n = k
  <2>1. /\ IsEntered(n, o) \/ n \in EnteredHere(next, o)
        /\ IsEntered(k, o) \/ k \in EnteredHere(next, o)
    BY <1>0, <1>3, EnteredNow
  <2>2. IsEntered(n, o) /\ IsEntered(k, o) => n = k
    BY <1>0, <1>3 DEF NamesAreUnique
  <2>3. n \in EnteredHere(next, o) /\ k \in EnteredHere(next, o) => n = k
    BY <1>3 DEF NewNamesDiffer
  <2>. QED
    BY <1>2, <1>3, <2>1, <2>2, <2>3
<1>. QED
  BY <1>1, <1>3 DEF NamesAreUnique

-----------------------------------------------------------------------------
(* What the first pass accepts *)

LEMMA KnownAround ==
  ASSUME WalkInv, ModulesAreKnown, NamesAreEntered, TypesAreEntered, phase = "first", Descends,
         Kind(next) \in {"fndecl", "typedecl", "vardecl", "typedesc"},
         NEW n, EntersLeaf(next, n), NEW T, AreTrees(T), AsAround(T), NEW id
  PROVE  Known(T, current, id) <=> Resolves(ScopeAround[next], id, Before(n))
<1>1. PICK R, when : R = ScopesUpto(next) /\ when = Before(n)
  OBVIOUS
<1>2. current \in R /\ current = ScopeAround[next]
  BY <1>1, CurrentIsAsked
<1>3. Serves(T, R, id, when)
  BY <1>1, AroundIsServed
<1>4. prog \in Programs
  BY DEF WalkInv
<1>5. Known(T, current, id) <=> Resolves(current, id, when)
  BY <1>2, <1>3, <1>4, KnownResolves
<1>. QED
  BY <1>1, <1>2, <1>5

\* In the tables as they are.
LEMMA KnownNow ==
  ASSUME WalkInv, ModulesAreKnown, NamesAreEntered, TypesAreEntered, phase = "first", Descends,
         Kind(next) \in {"fndecl", "typedecl", "vardecl"},
         NEW n, n = IF Kind(next) = "vardecl" THEN next + 1 ELSE next, NEW id
  PROVE  Known(tables, current, id) <=> Resolves(ScopeAround[n], id, Before(n))
<1>1. prog \in Programs /\ next \in Nodes
  BY NextFacts DEF WalkInv
<1>2. EntersLeaf(next, n)
  BY DEF EntersLeaf
<1>3. AreTrees(tables) /\ AsAround(tables)
  BY TablesAreTrees, TablesAreAround
<1>4. Known(tables, current, id) <=> Resolves(ScopeAround[next], id, Before(n))
  BY <1>2, <1>3, KnownAround
<1>5. ScopeAround[n] = ScopeAround[next]
  <2>1. CASE Kind(next) = "vardecl"
    <3>1. n \in Nodes /\ Parent(n) = next /\ next # None
      BY <1>1, <2>1, LeafFacts, TreeFacts DEF None
    <3>2. Kind(next) \notin Owners \cup Borrowers
      BY <2>1 DEF Owners, Borrowers
    <3>. QED
      BY <1>1, <3>1, <3>2, ScopeFacts
  <2>2. CASE Kind(next) # "vardecl"
    BY <2>2
  <2>. QED
    BY <2>1, <2>2
<1>. QED
  BY <1>4, <1>5

LEMMA DescriptionKnown ==
  ASSUME WalkInv, ModulesAreKnown, NamesAreEntered, TypesAreEntered, phase = "first", Descends,
         Kind(next) = "typedesc", NEW n \in Leaves(next),
         NEW own, Opens(own, next), NEW T, AreTrees(T), SameLinks(T, own), AsAround(T),
         DOMAIN T[next].records = NamesOf(LeavesUpto(Leaves(next), n - 1))
  PROVE  Known(T, next, Node(n).ref) <=> TypeIsKnownAt(n, n)
<1>1. /\ prog \in Programs /\ next \in Nodes /\ next \in Nat /\ ModuleAround[next] = Module
      /\ next # None
  BY NextIsInModule, TreeFacts DEF WalkInv, None
<1>2. PICK R, when, id : R = ScopesUpto(next + 1) /\ when = Before(n) /\ id = Node(n).ref
  OBVIOUS
<1>3. Serves(T, R, id, when)
  BY <1>2, DescriptionIsServed
<1>4. next \in R
  <2>1. next < next + 1
    BY <1>1
  <2>. QED
    BY <1>1, <1>2, <2>1 DEF ScopesUpto, Owners
<1>5. Known(T, next, id) <=> Resolves(next, id, when)
  BY <1>1, <1>3, <1>4, KnownResolves
<1>6. ScopeAround[n] = next
  <2>1. n \in Nodes /\ Parent(n) = next
    BY <1>1, DescribedFacts DEF Leaves, Parent
  <2>. QED
    BY <1>1, <2>1, ScopeFacts DEF Owners
<1>. QED
  BY <1>2, <1>5, <1>6 DEF TypeIsKnownAt

\* A function is refused if its name is that of a function it would hide.
LEMMA FunctionIsHidden ==
  ASSUME WalkInv, ModulesAreKnown, NamesAreEntered, TypesAreEntered, RecordsAreTyped,
         phase = "first", Descends, Kind(next) = "fndecl"
  PROVE  AlreadyAFunction(next) <=> ~HidesNoFunction(next)
<1>1. prog \in Programs /\ next \in Nodes
  BY NextFacts DEF WalkInv
<1>2. PICK R, when, id, d : /\ R = PlainScopes(next) /\ when = Before(next) /\ id = Node(next).name
                            /\ d = DeclarationOf(current, id, when)
  OBVIOUS
<1>3. current \in R /\ current = ScopeAround[next]
  BY <1>2, CurrentIsPlain
<1>4. EntersLeaf(next, next) /\ AsAround(tables) /\ AreTrees(tables)
  BY TablesAreAround, TablesAreTrees DEF EntersLeaf
<1>5. Serves(tables, R, id, when) /\ KindsServed(tables, R, id, when)
  BY <1>1, <1>2, <1>4, AroundIsServed, PlainServes, AroundIsTyped
<1>6. Lookup(tables, current, id) = ScopeOf(current, id, when)
  BY <1>1, <1>3, <1>4, <1>5, LookupFindsScope
<1>7. Lookup(tables, current, id) # None
        => /\ Means[d] \in DOMAIN Category
           /\ Record(tables, current, id).type.category = Category[Means[d]]
  BY <1>1, <1>2, <1>3, <1>4, <1>5, FoundStandsFor
<1>8. Means[d] \in DOMAIN Category => (Category[Means[d]] = "function" <=> Means[d] = "fndecl")
  BY DEF Category
<1>9. AlreadyAFunction(next) <=> /\ Lookup(tables, current, id) # None
                                 /\ Record(tables, current, id).type.category = "function"
  BY <1>2 DEF AlreadyAFunction
<1>10. HidesNoFunction(next) <=> (ScopeOf(current, id, when) # None => Means[d] # "fndecl")
  BY <1>2, <1>3 DEF HidesNoFunction
<1>. QED
  BY <1>6, <1>7, <1>8, <1>9, <1>10

\* Where a leaf cannot be added, those before it could.
LEMMA FirstRefusedLeaf ==
  ASSUME prog \in Programs, NEW tabs, NEW t, NEW st, NEW leaves \in SUBSET Nodes,
         ~LeavesAdded(tabs, t, st, leaves).ok, NEW after, after = AfterLeaves(tabs, t, st, leaves)
  PROVE  \E n \in leaves : /\ ~CanAddLeaf(after[n - 1], t, st, n)
                           /\ CanAddUpto(t, st, leaves, after, n - 1)
<1>0. Len(prog.nodes) \in Nat /\ Nodes = 1..Len(prog.nodes)
  BY TreeFacts
<1>1. ~CanAddUpto(t, st, leaves, after, Len(prog.nodes))
  BY LeavesOk
<1>. DEFINE S == {n \in leaves : ~CanAddLeaf(after[n - 1], t, st, n)}
<1>2. S # {} /\ S \in SUBSET (0..Len(prog.nodes))
  <2>1. PICK i \in 1..Len(prog.nodes) : i \in leaves /\ ~CanAddLeaf(after[i - 1], t, st, i)
    BY <1>1 DEF CanAddUpto
  <2>2. i \in S
    BY <2>1
  <2>3. leaves \subseteq 0..Len(prog.nodes)
    BY <1>0
  <2>. QED
    BY <2>2, <2>3
<1>3. PICK m \in S : \A i \in S : m <= i
  <2>. HIDE DEF S
  <2>. QED
    BY <1>0, <1>2, FirstPosition
<1>4. CanAddUpto(t, st, leaves, after, m - 1)
  <2>. SUFFICES ASSUME NEW i \in 1..m - 1, i \in leaves, ~CanAddLeaf(after[i - 1], t, st, i)
                PROVE  FALSE
    BY DEF CanAddUpto
  <2>1. i \in S
    OBVIOUS
  <2>2. m <= i /\ m \in Nat
    BY <1>0, <1>2, <1>3, <2>1
  <2>. QED
    BY <2>2
<1>. QED
  BY <1>3, <1>4

\* What is entered is accepted.
LEMMA EnteringAccepts ==
  ASSUME WalkInv, ModulesAreKnown, NamesAreEntered, TypesAreEntered, RecordsAreTyped,
         \/ EnterBlock \/ EnterModule \/ EnterFndecl \/ EnterTypedesc
         \/ EnterTypedecl \/ EnterVardecl \/ EnterOther
  PROVE  IsAccepted(next)
<1>1. prog \in Programs /\ phase = "first" /\ Descends /\ next \in Nodes
  BY NextFacts DEF WalkInv, EnterBlock, EnterModule, EnterFndecl, EnterTypedesc, EnterTypedecl,
                   EnterVardecl, EnterOther, Entering
<1>2. CASE EnterBlock \/ EnterOther \/ EnterModule
  BY <1>2 DEF EnterBlock, EnterOther, EnterModule, Entering, IsAccepted
<1>3. CASE EnterFndecl \/ EnterTypedecl
  <2>1. Kind(next) \in {"fndecl", "typedecl"} /\ LeavesKnown(next)
    BY <1>3 DEF EnterFndecl, EnterTypedecl, Entering
  <2>2. \A id : Known(tables, current, id) <=> Resolves(ScopeAround[next], id, Before(next))
    BY <1>1, <2>1, KnownNow
  <2>3. \A n \in Described(next) : TypeIsKnownAt(next, n)
    BY <2>1, <2>2 DEF LeavesKnown, TypeIsKnownAt
  <2>4. Kind(next) = "fndecl" => TypeIsKnownAt(next, next) /\ HidesNoFunction(next)
    <3>. SUFFICES ASSUME Kind(next) = "fndecl" PROVE TypeIsKnownAt(next, next) /\ HidesNoFunction(next)
      OBVIOUS
    <3>1. ~AlreadyAFunction(next) /\ Known(tables, current, Node(next).ref)
      BY <1>3 DEF EnterFndecl, EnterTypedecl, Entering
    <3>. QED
      BY <1>1, <2>2, <3>1, FunctionIsHidden DEF TypeIsKnownAt
  <2>. QED
    BY <2>1, <2>3, <2>4 DEF IsAccepted
<1>4. CASE EnterVardecl
  <2>1. Kind(next) = "vardecl" /\ Known(tables, current, Node(next + 1).ref)
    BY <1>4 DEF EnterVardecl, Entering, CanAddLeaf
  <2>2. TypeIsKnownAt(next + 1, next + 1)
    BY <1>1, <2>1, KnownNow DEF TypeIsKnownAt
  <2>. QED
    BY <2>1, <2>2 DEF IsAccepted
<1>5. CASE EnterTypedesc
  <2>1. Kind(next) = "typedesc" /\ Kind(next) \in {"fndecl", "typedesc"}
    BY <1>5 DEF EnterTypedesc, Entering
  <2>2. PICK own, leaves, st, after :
          /\ own = WithTable(tables, next, Below(current)) /\ leaves = Leaves(next) /\ st = next
          /\ after = AfterLeaves(own, next, st, leaves)
    OBVIOUS
  <2>3. Opened(own) /\ LeavesAdded(own, next, st, leaves).ok
    BY <1>5, <2>2, DescriptionGained
  <2>4. Opens(own, next) /\ leaves \in SUBSET Nodes
    BY <1>1, <2>1, <2>2, NewTable, DescribedFacts
  <2>5. ASSUME NEW n \in leaves
        PROVE  TypeIsKnownAt(n, n)
    <3>1. PICK T : T = after[n - 1]
      OBVIOUS
    <3>2. /\ AreTrees(T) /\ AsAround(T) /\ SameLinks(T, own)
          /\ DOMAIN T[next].records = NamesOf(LeavesUpto(leaves, n - 1))
          /\ CanAddLeaf(T, next, st, n)
      BY <1>1, <2>1, <2>2, <2>3, <2>4, <3>1, TablesAtLeaf
    <3>3. Known(T, next, Node(n).ref)
      BY <2>2, <3>2 DEF CanAddLeaf
    <3>4. n \in Leaves(next) /\ DOMAIN T[next].records = NamesOf(LeavesUpto(Leaves(next), n - 1))
      BY <2>2, <3>2
    <3>. QED
      BY <1>1, <2>1, <2>4, <3>2, <3>3, <3>4, DescriptionKnown
  <2>. QED
    BY <2>1, <2>2, <2>5 DEF IsAccepted
<1>. QED
  BY <1>2, <1>3, <1>4, <1>5

-----------------------------------------------------------------------------
(* What the first pass refuses *)

\* Two declarations in one scope have one name.
LEMMA SameNameTwice ==
  ASSUME prog \in Programs, NEW n \in Nodes, NEW k \in Nodes, NEW o \in Nodes, n # k,
         DeclaredIn(n, o), DeclaredIn(k, o), Node(n).name = Node(k).name,
         ModuleAround[k] = ModuleAround[n] \/ AnalyzedBefore(ModuleAround[k], ModuleAround[n])
  PROVE  ~WellScoped
<1>1. PICK when, id : when = AtEndOf(n) /\ id = Node(n).name
  OBVIOUS
<1>2. when.module = ModuleAround[n] /\ when.node = Len(prog.nodes) + 1
  BY <1>1 DEF AtEndOf
<1>3. Len(prog.nodes) \in Nat /\ Nodes = 1..Len(prog.nodes)
  BY TreeFacts
<1>4. KnownFrom(k, o) \in Nodes
  BY DEF KnownFrom
<1>5. KnownFrom(k, o) < when.node
  BY <1>2, <1>3, <1>4
<1>6. IsKnown(k, o, when)
  BY <1>2, <1>5 DEF IsKnown
<1>7. k \in Declarations(o, id, when)
  BY <1>1, <1>6 DEF Declarations
<1>8. ~NameIsNew(n)
  BY <1>1, <1>7 DEF NameIsNew
<1>. QED
  BY <1>8 DEF WellScoped

\* A symbol has a name that is in the current table already.
LEMMA TakenIsWrong ==
  ASSUME WalkInv, ModulesAreKnown, NamesAreEntered, phase = "first", Descends,
         Kind(next) \in {"module", "fndecl", "typedecl", "vardecl"},
         NEW n, n = IF Kind(next) = "vardecl" THEN next + 1 ELSE next,
         Node(n).name \in DOMAIN tables[current].records
  PROVE  ~WellScoped
<1>1. prog \in Programs /\ at \in DOMAIN prog.modules /\ next \in Nodes /\ ModuleAround[next] = Module
  BY NextIsInModule DEF WalkInv
<1>2. PICK o : o = current
  OBVIOUS
<1>3. o = ScopeAround[next] /\ o \in Nodes /\ o # next /\ o \in DOMAIN tables
  BY <1>2, CurrentFacts
<1>4. n \in EnteredHere(next, o)
  BY <1>1, <1>3, EnteredHereFacts
<1>5. n \in Nodes /\ DeclaredIn(n, o) /\ EnteredAt(n, o) = next
  BY <1>4 DEF EnteredHere
<1>6. ModuleAround[n] = Module
  BY <1>1, <1>3, <1>5, EnteredAtFacts
<1>7. DOMAIN tables[o].records = NamesEntered(o)
  BY <1>3 DEF NamesAreEntered
<1>8. PICK k \in Nodes : IsEntered(k, o) /\ Node(k).name = Node(n).name
  BY <1>2, <1>7 DEF NamesEntered
<1>9. ~AnalyzedBefore(Module, Module)
  BY <1>1, AnalyzedFacts DEF Module
<1>10. ~(next < next)
  BY <1>1, TreeFacts
<1>11. k # n
  BY <1>5, <1>6, <1>8, <1>9, <1>10 DEF IsEntered
<1>12. DeclaredIn(k, o) /\ (ModuleAround[k] = Module \/ AnalyzedBefore(ModuleAround[k], Module))
  BY <1>8 DEF IsEntered
<1>. QED
  BY <1>1, <1>3, <1>5, <1>6, <1>8, <1>11, <1>12, SameNameTwice

\* Two leaves that are entered with one node have one name.
LEMMA TwoLeavesOneName ==
  ASSUME prog \in Programs, NEW k \in Nodes, NEW n \in EnteredHere(k, k),
         NEW i \in EnteredHere(k, k), i # n, Node(i).name = Node(n).name
  PROVE  ~WellScoped
<1>1. /\ n \in Nodes /\ DeclaredIn(n, k) /\ EnteredAt(n, k) = k
      /\ i \in Nodes /\ DeclaredIn(i, k) /\ EnteredAt(i, k) = k
  BY DEF EnteredHere
<1>2. ModuleAround[i] = ModuleAround[n]
  BY <1>1, EnteredAtFacts
<1>. QED
  BY <1>1, <1>2, SameNameTwice

\* The type of a leaf that a declaration describes is not known around it.
LEMMA DescribedIsUnknown ==
  ASSUME prog \in Programs, NEW k \in Nodes, Kind(k) \in {"fndecl", "typedecl"},
         NEW n \in Described(k), ~TypeIsKnownAt(k, n)
  PROVE  ~WellScoped
<1>1. n \in Nodes /\ Kind(n) = "leaf" /\ Parent(Parent(n)) = k
  <2>1. Node(k + 1).parent = k /\ n \in Leaves(k + 1)
    BY DEF Described
  <2>. QED
    BY <2>1 DEF Leaves, Parent, Nodes
<1>2. ~TypesAreKnown(n)
  BY <1>1 DEF TypesAreKnown
<1>. QED
  BY <1>1, <1>2 DEF WellScoped

\* The first leaf that cannot be entered has a name that one before it has, or a
\* type that is not known.
LEMMA RefusedLeafIsWrong ==
  ASSUME WalkInv, ModulesAreKnown, phase = "first", Descends, Kind(next) \in {"fndecl", "typedesc"},
         NEW own, Opened(own), Opens(own, next), NEW st, NEW leaves \in SUBSET Nodes,
         leaves = EnteredHere(next, next), ~LeavesAdded(own, next, st, leaves).ok,
         NEW after, after = AfterLeaves(own, next, st, leaves)
  PROVE  \/ ~WellScoped
         \/ \E n \in leaves : \E T : /\ ~Known(T, st, Node(n).ref)
                                     /\ AreTrees(T) /\ AsAround(T) /\ SameLinks(T, own)
                                     /\ DOMAIN T[next].records = NamesOf(LeavesUpto(leaves, n - 1))
<1>1. prog \in Programs /\ next \in Nodes
  BY NextFacts DEF WalkInv
<1>2. PICK n \in leaves : /\ ~CanAddLeaf(after[n - 1], next, st, n)
                          /\ CanAddUpto(next, st, leaves, after, n - 1)
  BY <1>1, FirstRefusedLeaf
<1>3. PICK T : T = after[n - 1]
  OBVIOUS
<1>4. /\ AreTrees(T) /\ AsAround(T) /\ SameLinks(T, own)
      /\ DOMAIN T[next].records = NamesOf(LeavesUpto(leaves, n - 1))
  BY <1>2, <1>3, TablesBeforeLeaf
<1>5. CASE Node(n).name \in DOMAIN T[next].records
  <2>1. PICK i \in leaves : i <= n - 1 /\ Node(i).name = Node(n).name
    BY <1>4, <1>5 DEF NamesOf, LeavesUpto
  <2>2. i # n
    BY <1>1, <2>1, TreeFacts
  <2>. QED
    BY <1>1, <2>1, <2>2, TwoLeavesOneName
<1>6. CASE ~Known(T, st, Node(n).ref)
  BY <1>4, <1>6
<1>. QED
  BY <1>2, <1>3, <1>5, <1>6 DEF CanAddLeaf

LEMMA FndeclIsRefused ==
  ASSUME WalkInv, ModulesAreKnown, NamesAreEntered, TypesAreEntered, RecordsAreTyped,
         phase = "first", Descends, Kind(next) = "fndecl", Refused(next)
  PROVE  ~WellScoped
<1>1. prog \in Programs /\ next \in Nodes
  BY NextFacts DEF WalkInv
<1>2. \A id : Known(tables, current, id) <=> Resolves(ScopeAround[next], id, Before(next))
  BY <1>1, KnownNow
<1>3. CASE AlreadyAFunction(next)
  BY <1>1, <1>3, FunctionIsHidden DEF WellScoped
<1>4. CASE NameTaken(next)
  BY <1>4, TakenIsWrong DEF NameTaken
<1>5. CASE ~LeavesKnown(next)
  <2>1. PICK n \in Described(next) : ~TypeIsKnownAt(next, n)
    BY <1>2, <1>5 DEF LeavesKnown, TypeIsKnownAt
  <2>. QED
    BY <1>1, <2>1, DescribedIsUnknown
<1>6. CASE ~WithArguments(next).ok
  <2>1. PICK own, leaves, st, after :
          /\ own = WithTable(tables, next, [Below(current) EXCEPT !.fndecl = next])
          /\ leaves = Described(next) /\ st = current
          /\ after = AfterLeaves(own, next, st, leaves)
    OBVIOUS
  <2>2. Opened(own) /\ Opens(own, next) /\ leaves \in SUBSET Nodes
    BY <1>1, <2>1, NewTable, NewTableIsOpened, DescribedFacts
  <2>3. leaves = EnteredHere(next, next) /\ ~LeavesAdded(own, next, st, leaves).ok
    BY <1>1, <1>6, <2>1, EnteredHereFacts DEF WithArguments
  <2>4. ASSUME NEW n \in leaves, NEW T, ~Known(T, st, Node(n).ref), AreTrees(T), AsAround(T)
        PROVE  ~WellScoped
    <3>1. Known(T, current, Node(n).ref) <=> Resolves(ScopeAround[next], Node(n).ref, Before(next))
      BY <2>4, KnownAround DEF EntersLeaf
    <3>2. ~TypeIsKnownAt(next, n)
      BY <2>1, <2>4, <3>1 DEF TypeIsKnownAt
    <3>. QED
      BY <1>1, <2>1, <3>2, DescribedIsUnknown
  <2>. QED
    BY <2>1, <2>2, <2>3, <2>4, RefusedLeafIsWrong
<1>7. CASE ~Known(tables, current, Node(next).ref)
  <2>1. ~TypesAreKnown(next)
    BY <1>2, <1>7 DEF TypesAreKnown, TypeIsKnownAt
  <2>. QED
    BY <1>1, <2>1 DEF WellScoped
<1>. QED
  BY <1>3, <1>4, <1>5, <1>6, <1>7 DEF Refused

LEMMA TypedescIsRefused ==
  ASSUME WalkInv, ModulesAreKnown, NamesAreEntered, TypesAreEntered,
         phase = "first", Descends, Kind(next) = "typedesc", Refused(next)
  PROVE  ~WellScoped
<1>1. prog \in Programs /\ next \in Nodes
  BY NextFacts DEF WalkInv
<1>2. PICK own, leaves, st, after :
        /\ own = WithTable(tables, next, Below(current)) /\ leaves = Leaves(next) /\ st = next
        /\ after = AfterLeaves(own, next, st, leaves)
  OBVIOUS
<1>3. Opened(own) /\ Opens(own, next) /\ leaves \in SUBSET Nodes
  BY <1>1, <1>2, NewTable, NewTableIsOpened, DescribedFacts
<1>4. leaves = EnteredHere(next, next) /\ ~LeavesAdded(own, next, st, leaves).ok
  BY <1>1, <1>2, EnteredHereFacts DEF Refused, WithLeaves
<1>5. ASSUME NEW n \in leaves, NEW T, ~Known(T, st, Node(n).ref), AreTrees(T), AsAround(T),
             SameLinks(T, own), DOMAIN T[next].records = NamesOf(LeavesUpto(leaves, n - 1))
      PROVE  ~WellScoped
  <2>1. ~TypeIsKnownAt(n, n)
    BY <1>2, <1>3, <1>5, DescriptionKnown
  <2>2. Kind(n) = "leaf" /\ n \in Nodes
    BY <1>2, <1>3, <1>5 DEF Leaves
  <2>3. ~TypesAreKnown(n)
    BY <2>1, <2>2 DEF TypesAreKnown
  <2>. QED
    BY <2>2, <2>3 DEF WellScoped
<1>. QED
  BY <1>2, <1>3, <1>4, <1>5, RefusedLeafIsWrong

LEMMA RefusedIsWrong ==
  ASSUME WalkInv, ModulesAreKnown, NamesAreEntered, TypesAreEntered, RecordsAreTyped, RefuseNode
  PROVE  ~WellScoped
<1>1. prog \in Programs /\ phase = "first" /\ Descends /\ next \in Nodes /\ Refused(next)
  BY NextFacts DEF WalkInv, RefuseNode
<1>2. CASE Kind(next) = "module"
  BY <1>1, <1>2, TakenIsWrong DEF Refused, NameTaken
<1>3. CASE Kind(next) = "typedecl"
  <2>1. CASE NameTaken(next)
    BY <1>1, <1>3, <2>1, TakenIsWrong DEF NameTaken
  <2>2. CASE ~LeavesKnown(next)
    <3>1. \A id : Known(tables, current, id) <=> Resolves(ScopeAround[next], id, Before(next))
      BY <1>1, <1>3, KnownNow
    <3>2. PICK n \in Described(next) : ~TypeIsKnownAt(next, n)
      BY <2>2, <3>1 DEF LeavesKnown, TypeIsKnownAt
    <3>. QED
      BY <1>1, <1>3, <3>2, DescribedIsUnknown
  <2>. QED
    BY <1>1, <1>3, <2>1, <2>2 DEF Refused
<1>4. CASE Kind(next) = "vardecl"
  <2>1. PICK n : n = next + 1
    OBVIOUS
  <2>2. CASE Node(n).name \in DOMAIN tables[current].records
    BY <1>1, <1>4, <2>1, <2>2, TakenIsWrong
  <2>3. CASE ~Known(tables, current, Node(n).ref)
    <3>1. ~TypeIsKnownAt(n, n)
      BY <1>1, <1>4, <2>1, <2>3, KnownNow DEF TypeIsKnownAt
    <3>2. n \in Nodes /\ Kind(n) = "leaf"
      BY <1>1, <1>4, <2>1, LeafFacts
    <3>3. ~TypesAreKnown(n)
      BY <3>1, <3>2 DEF TypesAreKnown
    <3>. QED
      BY <3>2, <3>3 DEF WellScoped
  <2>. QED
    BY <1>1, <1>4, <2>1, <2>2, <2>3 DEF Refused, CanAddLeaf
<1>5. CASE Kind(next) = "fndecl"
  BY <1>1, <1>5, FndeclIsRefused
<1>6. CASE Kind(next) = "typedesc"
  BY <1>1, <1>6, TypedescIsRefused
<1>. QED
  BY <1>1, <1>2, <1>3, <1>4, <1>5, <1>6 DEF Refused

-----------------------------------------------------------------------------
(* What the type check objects to *)

\* It knows a name that means something.
LEMMA CheckKnows ==
  ASSUME WalkInv, ModulesAreKnown, NamesAreEntered, phase = "check", parents # <<>>,
         NEW t \in ScopesUpto(Len(prog.nodes) + 1), NEW id, NEW when, when = AtEndOf(Top)
  PROVE  Known(tables, t, id) <=> Resolves(t, id, when)
<1>1. PICK R : R = ScopesUpto(Len(prog.nodes) + 1)
  OBVIOUS
<1>2. Serves(tables, R, id, when)
  BY <1>1, ChecksAreServed
<1>3. prog \in Programs /\ AreTrees(tables)
  BY TablesAreTrees DEF WalkInv
<1>. QED
  BY <1>1, <1>2, <1>3, KnownResolves

LEMMA CheckKnowsKinds ==
  ASSUME WalkInv, ModulesAreKnown, RecordsAreTyped, phase = "check", parents # <<>>,
         NEW id, NEW when, when = AtEndOf(Top)
  PROVE  KindsServed(tables, PlainScopes(Len(prog.nodes) + 1), id, when)
<1>1. PICK e : e = Len(prog.nodes) + 1
  OBVIOUS
<1>2. e \in Nat
  BY <1>1, TreeFacts DEF WalkInv
<1>3. ASSUME NEW s \in PlainScopes(e), NEW d \in Declarations(s, id, when)
      PROVE  StandsFor(tables, s, d)
  <2>1. s \in ScopesUpto(e) /\ ~IsOfFunction(s)
    BY DEF PlainScopes
  <2>2. s \in DOMAIN tables /\ s \in Nodes
    BY <1>2, <2>1, ScopesAreLinked DEF Linked, ScopesUpto
  <2>3. d \in Nodes /\ DeclaredIn(d, s) /\ IsKnown(d, s, when)
    BY DEF Declarations
  <2>4. IsEntered(d, s)
    BY <2>2, <2>3, AllIsKnown
  <2>. QED
    BY <2>1, <2>2, <2>3, <2>4 DEF RecordsAreTyped
<1>. QED
  BY <1>1, <1>3 DEF KindsServed

\* What a declaration declares means something where it stands.
LEMMA OwnNameResolves ==
  ASSUME prog \in Programs, NEW n \in Nodes, Kind(n) \in {"module", "fndecl", "typedecl", "leaf"}
  PROVE  /\ ScopeAround[n] \in Nodes
         /\ Resolves(ScopeAround[n], Node(n).name, AtEndOf(n))
<1>1. ScopeAround[n] \in Nodes /\ ScopeAround[n] \in Nat /\ ScopeAround[n] < n
  BY ScopeOfSome, ScopeFacts, TreeFacts
<1>2. PICK o, when, id : o = ScopeAround[n] /\ when = AtEndOf(n) /\ id = Node(n).name
  OBVIOUS
<1>3. when.module = ModuleAround[n] /\ when.node = Len(prog.nodes) + 1
  BY <1>2 DEF AtEndOf
<1>4. DeclaredIn(n, o)
  BY <1>2 DEF DeclaredIn
<1>5. KnownFrom(n, o) \in Nodes
  BY <1>1, <1>2 DEF KnownFrom
<1>6. KnownFrom(n, o) < when.node
  <2>1. Len(prog.nodes) \in Nat /\ Nodes = 1..Len(prog.nodes)
    BY TreeFacts
  <2>. QED
    BY <1>3, <1>5, <2>1
<1>7. n \in Declarations(o, id, when)
  BY <1>2, <1>3, <1>4, <1>6 DEF Declarations, IsKnown
<1>8. Resolves(o, id, when)
  BY <1>1, <1>2, <1>7, ResolvesWithin
<1>. QED
  BY <1>1, <1>2, <1>8

\* The first pass has looked up the type of a symbol, and that of what a function
\* returns.
LEMMA TypeResolves ==
  ASSUME prog \in Programs, ReachedAreAccepted, phase = "check",
         NEW n \in Nodes, ModuleAround[n] = Module, Kind(n) \in {"leaf", "fndecl"}
  PROVE  Resolves(ScopeAround[n], Node(n).ref, AtEndOf(n))
<1>1. ASSUME NEW k \in Nodes, ModuleAround[k] = Module PROVE IsAccepted(k)
  BY <1>1 DEF ReachedAreAccepted, Reached
<1>2. TypeIsKnownAt(n, n)
  <2>1. CASE Kind(n) = "fndecl"
    BY <1>1, <2>1 DEF IsAccepted
  <2>2. CASE Kind(n) = "leaf"
    <3>1. PICK k : k = Parent(n)
      OBVIOUS
    <3>2. k \in Nodes /\ Kind(k) \in {"vardecl", "typedesc"}
      BY <2>2, <3>1, LeafFacts, TreeFacts
    <3>3. ModuleAround[k] = Module
      BY <2>2, <3>1, <3>2, TreeFacts, ModuleTurn
    <3>4. CASE Kind(k) = "vardecl"
      <4>1. n = k + 1
        BY <2>2, <3>1, <3>2, <3>4, LeafFacts, TreeFacts
      <4>. QED
        BY <1>1, <3>2, <3>3, <3>4, <4>1 DEF IsAccepted
    <3>5. CASE Kind(k) = "typedesc"
      <4>1. n \in Leaves(k)
        BY <2>2, <3>1 DEF Leaves, Parent, Nodes
      <4>. QED
        BY <1>1, <3>2, <3>3, <3>5, <4>1 DEF IsAccepted
    <3>. QED
      BY <3>2, <3>4, <3>5
  <2>. QED
    BY <2>1, <2>2
<1>3. ScopeAround[n] \in Nodes
  BY OwnNameResolves
<1>4. PICK t, id : t = ScopeAround[n] /\ id = Node(n).ref
  OBVIOUS
<1>5. Resolves(t, id, Before(n))
  BY <1>2, <1>4 DEF TypeIsKnownAt
<1>. QED
  BY <1>3, <1>4, <1>5, ResolvesAtEnd

\* The node it visits, which is part of the module.
LEMMA TopFacts ==
  ASSUME WalkInv, ModulesAreKnown, parents # <<>>
  PROVE  prog \in Programs /\ Top \in Nodes /\ ModuleAround[Top] = Module
<1>1. Len(parents) \in DOMAIN parents /\ Top = parents[Len(parents)] /\ Top \in Nodes
  BY PathFacts
<1>. QED
  BY <1>1 DEF ModulesAreKnown, WalkInv

\* What declares something is never objected to.
LEMMA DeclarationsPass ==
  ASSUME WalkInv, ModulesAreKnown, NamesAreEntered, ReachedAreAccepted,
         phase = "check", parents # <<>>, Kind(Top) \in {"module", "fndecl", "typedecl", "leaf"}
  PROVE  ~Objectionable(Top)
<1>1. prog \in Programs /\ Top \in Nodes /\ ModuleAround[Top] = Module
  BY TopFacts
<1>2. PICK n, when, o : n = Top /\ when = AtEndOf(Top) /\ o = ScopeAround[n]
  OBVIOUS
<1>3. Kind(n) \notin Borrowers
  BY <1>2 DEF Borrowers
<1>4. /\ current = IF Kind(n) \in Owners THEN n ELSE o
      /\ current \in ScopesUpto(Len(prog.nodes) + 1)
  BY <1>2, <1>3, CheckLooksFrom
<1>5. o \in Nodes /\ Resolves(o, Node(n).name, when)
  BY <1>1, <1>2, OwnNameResolves
<1>6. Kind(n) \in {"leaf", "fndecl"} => Resolves(o, Node(n).ref, when)
  BY <1>1, <1>2, TypeResolves
<1>7. o # None
  BY <1>1, <1>5, TreeFacts DEF None
<1>8. ASSUME NEW id, Resolves(o, id, when) PROVE Known(tables, current, id)
  <2>1. Resolves(current, id, when)
    BY <1>1, <1>2, <1>4, <1>7, <1>8, ResolvesWithin
  <2>. QED
    BY <1>2, <1>4, <2>1, CheckKnows
<1>9. \A id \in NamesAt(n) : Known(tables, current, id)
  BY <1>2, <1>5, <1>6, <1>8 DEF NamesAt
<1>. QED
  BY <1>2, <1>9 DEF Objectionable

\* A name is called that stands for a module.
LEMMA CallableMeans ==
  ASSUME WalkInv, ModulesAreKnown, NamesAreEntered, RecordsAreTyped,
         phase = "check", parents # <<>>, Kind(Top) = "call",
         NEW id, id \notin Elementary, Known(tables, current, id)
  PROVE  Callable(id) <=> Means[DeclarationOf(ScopeAround[Top], id, AtEndOf(Top))] # "module"
<1>1. prog \in Programs /\ Top \in Nodes /\ ModuleAround[Top] = Module /\ AreTrees(tables)
  BY TopFacts, TablesAreTrees
<1>2. PICK when, o, e, d : /\ when = AtEndOf(Top) /\ o = ScopeAround[Top] /\ e = Len(prog.nodes) + 1
                           /\ d = DeclarationOf(o, id, when)
  OBVIOUS
<1>3. current = o /\ o \in ScopesUpto(e)
  BY <1>2, CheckLooksFrom DEF Borrowers, Owners
<1>4. o # None
  BY <1>1, <1>2, ScopeOfSome
<1>5. ~IsOfFunction(o)
  BY <1>1, <1>2, <1>4, NoScopeInFunctionDescription
<1>6. PICK P : P = PlainScopes(e)
  OBVIOUS
<1>7. o \in P
  BY <1>3, <1>5, <1>6 DEF PlainScopes
<1>8. Serves(tables, ScopesUpto(e), id, when)
  BY <1>2, ChecksAreServed
<1>9. Serves(tables, P, id, when)
  BY <1>1, <1>6, <1>8, PlainServes
<1>10. KindsServed(tables, P, id, when)
  BY <1>2, <1>6, CheckKnowsKinds
<1>11. Lookup(tables, o, id) # None
  BY <1>3 DEF Known
<1>12. /\ Means[d] \in DOMAIN Category
       /\ Record(tables, o, id).type.category = Category[Means[d]]
  BY <1>1, <1>2, <1>7, <1>9, <1>10, <1>11, FoundStandsFor
<1>13. TypeOf(tables, current, id) = Record(tables, o, id).type
  BY <1>3 DEF TypeOf
<1>14. \A x \in DOMAIN Category : Category[x] \in {"function", "defined", "elementary"} <=> x # "module"
  BY DEF Category
<1>. QED
  BY <1>2, <1>12, <1>13, <1>14 DEF Callable

\* It objects to what is not declared, to nothing else.
LEMMA ObjectionsAreRight ==
  ASSUME WalkInv, ModulesAreKnown, NamesAreEntered, RecordsAreTyped, ReachedAreAccepted,
         phase = "check", parents # <<>>
  PROVE  Objectionable(Top) <=> ~UseIsDeclared(Top)
<1>1. prog \in Programs /\ Top \in Nodes /\ ModuleAround[Top] = Module
  BY TopFacts
<1>2. PICK n, when, o : n = Top /\ when = AtEndOf(n) /\ o = ScopeAround[n]
  OBVIOUS
<1>3. CASE Kind(n) \in {"use", "call", "match", "return"}
  <2>1. current = o /\ o \in ScopesUpto(Len(prog.nodes) + 1)
    BY <1>2, <1>3, CheckLooksFrom DEF Borrowers, Owners
  <2>2. \A id : Known(tables, current, id) <=> Resolves(o, id, when)
    BY <1>2, <2>1, CheckKnows
  <2>3. \A id \in Elementary : Resolves(o, id, when) /\ Known(tables, current, id) /\ Callable(id)
    BY DEF Resolves, Known, Callable, TypeOf
  <2>4. CASE Kind(n) = "use"
    BY <1>2, <2>2, <2>3, <2>4 DEF Objectionable, NamesAt, UseIsDeclared
  <2>5. CASE Kind(n) = "match"
    BY <1>2, <2>2, <2>3, <2>5 DEF Objectionable, NamesAt, UseIsDeclared
  <2>6. CASE Kind(n) = "call"
    <3>1. PICK id : id = Node(n).name
      OBVIOUS
    <3>2. Objectionable(n) <=> ~Known(tables, current, id) \/ ~Callable(id)
      BY <2>3, <2>6, <3>1 DEF Objectionable, NamesAt
    <3>3. UseIsDeclared(n) <=> /\ Resolves(o, id, when)
                               /\ id \notin Elementary => Means[DeclarationOf(o, id, when)] # "module"
      BY <1>2, <2>6, <3>1 DEF UseIsDeclared
    <3>4. id \notin Elementary /\ Known(tables, current, id)
            => (Callable(id) <=> Means[DeclarationOf(o, id, when)] # "module")
      BY <1>2, <2>6, CallableMeans
    <3>. QED
      BY <1>2, <2>2, <2>3, <3>2, <3>3, <3>4
  <2>7. CASE Kind(n) = "return"
    <3>1. Len(prog.nodes) + 1 \in Nat
      BY <1>1, TreeFacts
    <3>2. Linked(tables, o)
      BY <2>1, <3>1, ScopesAreLinked
    <3>3. tables[current].fndecl = FunctionAround[o]
      BY <2>1, <3>2 DEF Linked
    <3>4. UseIsDeclared(n) <=> FunctionAround[o] # None
      BY <1>2, <2>7 DEF UseIsDeclared
    <3>5. Objectionable(n) <=> tables[current].fndecl = None
      BY <2>7 DEF Objectionable, NamesAt
    <3>. QED
      BY <1>2, <3>3, <3>4, <3>5
  <2>. QED
    BY <1>3, <2>4, <2>5, <2>6, <2>7
<1>4. CASE Kind(n) \notin {"use", "call", "match", "return"}
  <2>1. UseIsDeclared(n)
    BY <1>4 DEF UseIsDeclared
  <2>2. CASE Kind(n) \in {"module", "fndecl", "typedecl", "leaf"}
    BY <1>2, <2>1, <2>2, DeclarationsPass
  <2>3. CASE Kind(n) \notin {"module", "fndecl", "typedecl", "leaf"}
    BY <1>2, <1>4, <2>1, <2>3 DEF Objectionable, NamesAt
  <2>. QED
    BY <2>2, <2>3
<1>. QED
  BY <1>3, <1>4

\* It crashes at a match only where the value is not declared.
LEMMA CrashIsRight ==
  ASSUME WalkInv, ModulesAreKnown, NamesAreEntered, DescendToUndeclaredMatch
  PROVE  ~WellScoped
<1>1. /\ phase = "check" /\ Descends /\ Kind(next) = "match"
      /\ ~Known(tables, current, Node(next).ref)
  BY DEF DescendToUndeclaredMatch, Entering
<1>2. /\ prog \in Programs /\ at \in DOMAIN prog.modules /\ next \in Nodes
      /\ ModuleAround[next] = Module /\ Kind(Module) \in {"file", "module"}
  BY <1>1, NextIsInModule, PathFacts DEF WalkInv
<1>3. parents # <<>>
  BY <1>1, <1>2 DEF Descends
<1>4. PICK o, when : o = ScopeAround[next] /\ when = AtEndOf(next)
  OBVIOUS
<1>5. when = AtEndOf(Top)
  BY <1>2, <1>3, <1>4, TopFacts DEF AtEndOf
<1>6. current = o
  BY <1>1, <1>4, CurrentBelow DEF Owners
<1>7. o \in Nodes /\ Kind(o) \in Owners /\ ModuleAround[o] = Module
  BY <1>1, <1>2, <1>4, ScopeOfSome, ScopeFacts, ScopeIsOwner, ScopeIsInModule
<1>8. o < Len(prog.nodes) + 1
  <2>1. Len(prog.nodes) \in Nat /\ Nodes = 1..Len(prog.nodes)
    BY <1>2, TreeFacts
  <2>. QED
    BY <1>7, <2>1
<1>9. o \in ScopesUpto(Len(prog.nodes) + 1)
  BY <1>7, <1>8 DEF ScopesUpto
<1>10. ~Resolves(o, Node(next).ref, when)
  BY <1>1, <1>3, <1>5, <1>6, <1>9, CheckKnows
<1>11. ~UseIsDeclared(next)
  BY <1>1, <1>4, <1>10 DEF UseIsDeclared
<1>. QED
  BY <1>2, <1>11 DEF WellScoped
-----------------------------------------------------------------------------
(* The verdict *)

\* What is known of the tables and of what was accepted stays with them.
LEMMA RecordsStay ==
  ASSUME WalkInv, NamesAreUnique, RecordsAreTyped, ReachedAreAccepted, Walks
  PROVE  NamesAreUnique' /\ RecordsAreTyped' /\ ReachedAreAccepted'
<1>1. CASE phase' \notin {"first", "check"}
  BY <1>1 DEF NamesAreUnique, RecordsAreTyped, ReachedAreAccepted
<1>2. CASE phase' \in {"first", "check"}
  <2>1. prog' = prog /\ tables' = tables /\ phase \in {"first", "check"} /\ DOMAIN tables \subseteq Nodes
    BY <1>2, WalksGo DEF WalkInv, TablesAreLinked
  <2>2. /\ \A n, o \in Nodes : IsEntered(n, o)' <=> IsEntered(n, o)
        /\ \A n \in Nodes : Reached(n)' <=> Reached(n)
    BY <1>2, EnteredStays
  <2>3. Nodes' = Nodes /\ \A n : Node(n)' = Node(n)
    BY <2>1, TreeStays, DeclarationsStay
  <2>4. NamesAreUnique'
    <3>1. \A o, n, k \in Nodes : IsEntered(n, o) /\ IsEntered(k, o) /\ Node(n).name = Node(k).name => n = k
      BY <2>1 DEF NamesAreUnique
    <3>2. \A o, n, k \in Nodes : IsEntered(n, o)' /\ IsEntered(k, o)' /\ Node(n).name = Node(k).name => n = k
      BY <2>2, <3>1
    <3>. QED
      BY <2>3, <3>2 DEF NamesAreUnique
  <2>5. RecordsAreTyped'
    <3>1. \A o \in DOMAIN tables : \A n \in Nodes : IsEntered(n, o) /\ ~IsOfFunction(o) => StandsFor(tables, o, n)
      BY <2>1 DEF RecordsAreTyped
    <3>2. \A o \in DOMAIN tables : \A n \in Nodes : IsEntered(n, o)' /\ ~IsOfFunction(o) => StandsFor(tables', o, n)
      BY <2>1, <2>2, <3>1
    <3>3. \A o \in DOMAIN tables' : \A n \in Nodes' :
            IsEntered(n, o)' /\ ~IsOfFunction(o)' => StandsFor(tables, o, n)'
      BY <2>1, <2>3, <3>2, VerdictsStay
    <3>. QED
      BY <3>3 DEF RecordsAreTyped
  <2>6. ReachedAreAccepted'
    <3>1. \A k \in Nodes : Reached(k)' => IsAccepted(k)
      BY <2>1, <2>2 DEF ReachedAreAccepted
    <3>2. \A k \in Nodes' : Reached(k)' => IsAccepted(k)'
      BY <2>1, <2>3, <3>1, VerdictsStay
    <3>. QED
      BY <3>2 DEF ReachedAreAccepted
  <2>. QED
    BY <2>4, <2>5, <2>6
<1>. QED
  BY <1>1, <1>2

\* The next node is reached when it is entered.
LEMMA ReachedNow ==
  ASSUME WalkInv, ModulesAreKnown, phase = "first", Descends, Visit, NEW n \in Nodes
  PROVE  Reached(n)' <=> Reached(n) \/ n = next
<1>0. /\ prog \in Programs /\ at \in DOMAIN prog.modules /\ next \in Nodes /\ ModuleAround[next] = Module
      /\ prog' = prog /\ at' = at /\ phase' = phase /\ next' = next + 1 /\ Module' = Module
  BY NextIsInModule DEF WalkInv, Visit, Module
<1>1. n < next + 1 <=> n < next \/ n = next
  BY <1>0, TreeFacts
<1>2. Reached(n)' <=> \/ AnalyzedBefore(ModuleAround[n], Module)
                      \/ ModuleAround[n] = Module /\ n < next + 1
  BY <1>0, ReachedThen
<1>. QED
  BY <1>0, <1>1, <1>2 DEF Reached

LEMMA EnteringStep ==
  ASSUME WalkInv, ModulesAreKnown, NamesAreEntered, TypesAreEntered,
         NamesAreUnique, RecordsAreTyped, ReachedAreAccepted,
         \/ EnterBlock \/ EnterModule \/ EnterFndecl \/ EnterTypedesc
         \/ EnterTypedecl \/ EnterVardecl \/ EnterOther
  PROVE  NamesAreUnique' /\ RecordsAreTyped' /\ ReachedAreAccepted'
<1>1. phase = "first" /\ Descends /\ Visit /\ prog' = prog /\ phase' = phase
  BY DEF EnterBlock, EnterModule, EnterFndecl, EnterTypedesc, EnterTypedecl, EnterVardecl,
         EnterOther, Entering, Visit
<1>2. NamesAreUnique'
  BY <1>1, EnteringDiffers, EnteringUnique
<1>3. RecordsAreTyped'
  <2>1. Enters(tables')
    BY BlockEnters, ModuleEnters, FndeclEnters, TypedescEnters, SymbolsEnter, OtherEnters
  <2>2. NewRecordsStand(tables')
    BY ModuleStands, FndeclStands, TypedescStands, TypedeclStands, VardeclStands, OthersStand
  <2>. QED
    BY <1>1, <2>1, <2>2, EnteringRecords
<1>4. ReachedAreAccepted'
  <2>1. IsAccepted(next)
    BY EnteringAccepts
  <2>2. \A k \in Nodes : Reached(k)' => IsAccepted(k)
    BY <1>1, <2>1, ReachedNow DEF ReachedAreAccepted
  <2>3. \A k \in Nodes' : Reached(k)' => IsAccepted(k)'
    BY <1>1, <2>2, TreeStays, VerdictsStay
  <2>. QED
    BY <2>3 DEF ReachedAreAccepted
<1>. QED
  BY <1>2, <1>3, <1>4

\* What was left at the next step.
LEMMA LeftThen ==
  ASSUME prog' = prog, NEW k, k = Module', NEW n
  PROVE  Left(n)' <=> \/ AnalyzedBefore(ModuleAround[n], k)
                      \/ /\ ModuleAround[n] = k /\ phase' = "check" /\ n < next'
                         /\ \A i \in DOMAIN parents' : parents'[i] # n
<1>1. ModuleAround' = ModuleAround
  BY TreeStays
<1>2. AnalyzedBefore(ModuleAround[n], Module)' <=> AnalyzedBefore(ModuleAround[n], k)
  BY <1>1 DEF AnalyzedBefore
<1>. QED
  BY <1>1, <1>2 DEF Left

\* While errors are as they were, and no other node is left, the errors are those
\* of what was left.
LEMMA UsesStay ==
  ASSUME UsesAreChecked, phase \in {"first", "check"}, prog' = prog, errors' = errors,
         phase' = "first" => ~errors,
         \A n \in Nodes : Left(n)' => Left(n) \/ UseIsDeclared(n)
  PROVE  UsesAreChecked'
<1>1. Nodes' = Nodes /\ \A n : UseIsDeclared(n)' <=> UseIsDeclared(n)
  BY TreeStays, JudgementsStay
<1>2. CASE errors
  BY <1>1, <1>2 DEF UsesAreChecked
<1>3. CASE ~errors
  <2>1. \A n \in Nodes : Left(n) => UseIsDeclared(n)
    BY <1>3 DEF UsesAreChecked
  <2>2. \A n \in Nodes' : Left(n)' => UseIsDeclared(n)'
    BY <1>1, <2>1
  <2>. QED
    BY <1>3, <2>2 DEF UsesAreChecked
<1>. QED
  BY <1>2, <1>3

\* The first pass leaves nothing.
LEMMA FirstLeavesNone ==
  ASSUME WalkInv, UsesAreChecked, phase = "first", prog' = prog, at' = at, errors' = errors,
         \/ phase' = "first"
         \/ phase' = "check" /\ next' = Module
  PROVE  UsesAreChecked'
<1>0. prog \in Programs /\ Module' = Module
  BY DEF WalkInv, Module
<1>1. ~errors
  BY DEF UsesAreChecked
<1>2. ASSUME NEW n \in Nodes, Left(n)' PROVE Left(n)
  <2>1. ModuleAround[n] = Module /\ phase' = "check" /\ n < next' => FALSE
    <3>. SUFFICES ASSUME ModuleAround[n] = Module, next' = Module, n < Module PROVE FALSE
      OBVIOUS
    <3>1. Module <= n /\ n \in Nat /\ Module \in Nat
      BY <1>0, ModuleFacts, TreeFacts, PathFacts
    <3>. QED
      BY <3>1
  <2>2. AnalyzedBefore(ModuleAround[n], Module)
    BY <1>0, <1>2, <2>1, LeftThen
  <2>. QED
    BY <2>2 DEF Left
<1>. QED
  BY <1>1, <1>2, UsesStay

\* On the way down nothing is left.
LEMMA DescendUses ==
  ASSUME WalkInv, UsesAreChecked, Descend
  PROVE  UsesAreChecked'
<1>0. /\ phase = "check" /\ prog' = prog /\ at' = at /\ errors' = errors /\ phase' = phase /\ Descends
      /\ parents' = Append(parents, next) /\ next' = next + 1 /\ Module' = Module
      /\ prog \in Programs /\ next \in Nodes /\ parents \in Seq(Nodes)
  BY NextFacts DEF Descend, Visit, Module, WalkInv, PathIsInTree
<1>1. ASSUME NEW n \in Nodes, Left(n)' PROVE Left(n)
  <2>1. CASE AnalyzedBefore(ModuleAround[n], Module)
    BY <2>1 DEF Left
  <2>2. CASE /\ ModuleAround[n] = Module /\ n < next + 1
             /\ \A i \in DOMAIN parents' : parents'[i] # n
    <3>1. /\ Len(parents) + 1 \in DOMAIN parents' /\ parents'[Len(parents) + 1] = next
          /\ \A i \in DOMAIN parents : i \in DOMAIN parents' /\ parents'[i] = parents[i]
      BY <1>0
    <3>2. n # next /\ \A i \in DOMAIN parents : parents[i] # n
      BY <2>2, <3>1
    <3>3. n < next
      BY <1>0, <2>2, <3>2, TreeFacts
    <3>. QED
      BY <1>0, <2>2, <3>2, <3>3 DEF Left
  <2>. QED
    BY <1>0, <1>1, <2>1, <2>2, LeftThen
<1>2. phase' = "first" => ~errors
  BY <1>0
<1>. QED
  BY <1>0, <1>1, <1>2, UsesStay

\* On the way up one node is, of which the error is that of what is not declared.
LEMMA CheckUses ==
  ASSUME WalkInv, ModulesAreKnown, NamesAreEntered, RecordsAreTyped, ReachedAreAccepted,
         UsesAreChecked, CheckNode
  PROVE  UsesAreChecked'
<1>0. /\ phase = "check" /\ prog' = prog /\ at' = at /\ errors' = (errors \/ Objectionable(Top))
      /\ phase' = phase /\ parents # <<>> /\ parents' = Front(parents) /\ next' = next /\ Module' = Module
      /\ prog \in Programs /\ parents \in Seq(Nodes) /\ Top \in Nodes
  BY PathFacts DEF CheckNode, GoUp, Module, WalkInv, PathIsInTree
<1>1. Objectionable(Top) <=> ~UseIsDeclared(Top)
  BY <1>0, ObjectionsAreRight
<1>2. Nodes' = Nodes /\ \A n : UseIsDeclared(n)' <=> UseIsDeclared(n)
  BY <1>0, TreeStays, JudgementsStay
<1>3. ASSUME NEW n \in Nodes, Left(n)' PROVE Left(n) \/ n = Top
  <2>1. CASE AnalyzedBefore(ModuleAround[n], Module)
    BY <2>1 DEF Left
  <2>2. CASE /\ ModuleAround[n] = Module /\ n < next
             /\ \A i \in DOMAIN parents' : parents'[i] # n
    <3>1. /\ Len(parents) \in Nat /\ DOMAIN parents = 1..Len(parents) /\ Top = parents[Len(parents)]
          /\ DOMAIN parents' = 1..Len(parents) - 1
          /\ \A i \in 1..Len(parents) - 1 : parents'[i] = parents[i]
      BY <1>0, PathFacts DEF Front
    <3>2. \A i \in DOMAIN parents : i = Len(parents) \/ i \in DOMAIN parents'
      BY <3>1
    <3>3. \A i \in DOMAIN parents : parents[i] = Top \/ parents[i] # n
      BY <2>2, <3>1, <3>2
    <3>. QED
      BY <1>0, <2>2, <3>3 DEF Left
  <2>. QED
    BY <1>0, <1>3, <2>1, <2>2, LeftThen
<1>4. CASE errors'
  <2>1. \E n \in Nodes : ~UseIsDeclared(n)
    BY <1>0, <1>1, <1>4 DEF UsesAreChecked
  <2>. QED
    BY <1>0, <1>2, <1>4, <2>1 DEF UsesAreChecked
<1>5. CASE ~errors'
  <2>1. \A n \in Nodes : Left(n)' => UseIsDeclared(n)
    BY <1>0, <1>1, <1>3, <1>5 DEF UsesAreChecked
  <2>2. \A n \in Nodes' : Left(n)' => UseIsDeclared(n)'
    BY <1>2, <2>1
  <2>. QED
    BY <1>0, <1>5, <2>2 DEF UsesAreChecked
<1>. QED
  BY <1>4, <1>5

\* All of a module is left when its check ends.
LEMMA AllIsLeft ==
  ASSUME WalkInv, phase = "check", Walked, NEW n \in Nodes,
         ModuleAround[n] = Module \/ AnalyzedBefore(ModuleAround[n], Module)
  PROVE  Left(n)
<1>1. ModuleAround[n] = Module => n < next /\ \A i \in DOMAIN parents : parents[i] # n
  BY WalkedAll
<1>. QED
  BY <1>1 DEF Left

LEMMA NextModuleUses ==
  ASSUME WalkInv, UsesAreChecked, phase = "check", Walked, prog' = prog, errors' = errors,
         at' = at + 1, at < Len(prog.modules), phase' = "first", ~errors
  PROVE  UsesAreChecked'
<1>0. prog \in Programs /\ at \in DOMAIN prog.modules
  BY DEF WalkInv
<1>1. PICK k : k = prog.modules[at + 1]
  OBVIOUS
<1>2. k = Module'
  BY <1>1 DEF Module
<1>3. \A m : AnalyzedBefore(m, k) <=> AnalyzedBefore(m, Module) \/ m = Module
  BY <1>0, <1>1, ModuleAfter
<1>4. ASSUME NEW n \in Nodes, Left(n)' PROVE Left(n)
  <2>1. AnalyzedBefore(ModuleAround[n], k)
    BY <1>2, <1>4, LeftThen
  <2>. QED
    BY <1>3, <2>1, AllIsLeft
<1>. QED
  BY <1>4, UsesStay

LEMMA UsesStep ==
  ASSUME WalkInv, ModulesAreKnown, NamesAreEntered, RecordsAreTyped, ReachedAreAccepted,
         UsesAreChecked, [Next]_vars
  PROVE  UsesAreChecked'
<1>1. CASE \/ EnterBlock \/ EnterModule \/ EnterFndecl \/ EnterTypedesc
           \/ EnterTypedecl \/ EnterVardecl \/ EnterOther \/ Ascend
  <2>1. phase = "first" /\ prog' = prog /\ at' = at /\ errors' = errors /\ phase' = "first"
    BY <1>1 DEF EnterBlock, EnterModule, EnterFndecl, EnterTypedesc, EnterTypedecl, EnterVardecl,
                EnterOther, Entering, Visit, Ascend, GoUp
  <2>. QED
    BY <2>1, FirstLeavesNone
<1>2. CASE EndFirstPass
  BY <1>2, FirstLeavesNone DEF EndFirstPass
<1>3. CASE Descend
  BY <1>3, DescendUses
<1>4. CASE CheckNode
  BY <1>4, CheckUses
<1>5. CASE EndCheck /\ ~errors /\ at < Len(prog.modules)
  BY <1>5, NextModuleUses DEF EndCheck
<1>6. CASE \/ RefuseNode \/ DescendToUndeclaredMatch
           \/ EndCheck /\ ~(~errors /\ at < Len(prog.modules))
  <2>1. phase' \notin {"first", "check"}
    BY <1>6 DEF RefuseNode, DescendToUndeclaredMatch, EndCheck
  <2>. QED
    BY <2>1 DEF UsesAreChecked
<1>7. CASE Ended \/ UNCHANGED vars
  <2>1. /\ prog' = prog /\ at' = at /\ errors' = errors /\ phase' = phase /\ parents' = parents
        /\ next' = next
    BY <1>7 DEF Ended, vars
  <2>2. CASE phase \in {"first", "check"}
    <3>1. Module' = Module
      BY <2>1 DEF Module
    <3>2. \A n \in Nodes : Left(n)' => Left(n)
      BY <2>1, <3>1, LeftThen DEF Left
    <3>3. phase' = "first" => ~errors
      BY <2>1 DEF UsesAreChecked
    <3>. QED
      BY <2>1, <2>2, <3>2, <3>3, UsesStay
  <2>3. CASE phase \notin {"first", "check"}
    BY <2>1, <2>3 DEF UsesAreChecked
  <2>. QED
    BY <2>2, <2>3
<1>. QED
  BY <1>1, <1>2, <1>3, <1>4, <1>5, <1>6, <1>7 DEF Next

\* What was accepted with its declaration and with its description is well-formed.
LEMMA AcceptedTypes ==
  ASSUME prog \in Programs, NEW n \in Nodes, Kind(n) # "file",
         \A k \in Nodes : ModuleAround[k] = ModuleAround[n] => IsAccepted(k)
  PROVE  TypesAreKnown(n) /\ HidesNoFunction(n)
<1>1. IsAccepted(n)
  OBVIOUS
<1>2. CASE Kind(n) # "leaf"
  BY <1>1, <1>2 DEF IsAccepted, TypesAreKnown, HidesNoFunction
<1>3. CASE Kind(n) = "leaf"
  <2>1. PICK k, p : k = Parent(n) /\ p = Parent(Parent(n))
    OBVIOUS
  <2>2. k \in Nodes /\ Kind(k) \in {"vardecl", "typedesc"} /\ k # None /\ n \in Nat /\ k \in Nat
    BY <1>3, <2>1, LeafFacts, TreeFacts
  <2>3. p \in Nodes /\ p # None /\ p \in Nat /\ p = Parent(k)
    BY <2>1, <2>2, TreeFacts
  <2>4. ModuleAround[k] = ModuleAround[n] /\ ModuleAround[p] = ModuleAround[n]
    BY <1>3, <2>1, <2>2, <2>3, ModuleTurn
  <2>5. IsAccepted(k) /\ IsAccepted(p)
    BY <2>2, <2>3, <2>4
  <2>6. TypeIsKnownAt(n, n)
    <3>1. CASE Kind(k) = "vardecl"
      <4>1. n = k + 1
        BY <1>3, <2>1, <2>2, <3>1, LeafFacts
      <4>. QED
        BY <2>5, <3>1, <4>1 DEF IsAccepted
    <3>2. CASE Kind(k) = "typedesc"
      <4>1. n \in Leaves(k)
        BY <1>3, <2>1 DEF Leaves, Parent, Nodes
      <4>. QED
        BY <2>5, <3>2, <4>1 DEF IsAccepted
    <3>. QED
      BY <2>2, <3>1, <3>2
  <2>7. Kind(p) \in {"typedecl", "fndecl"} => TypeIsKnownAt(p, n)
    <3>. SUFFICES ASSUME Kind(p) \in {"typedecl", "fndecl"} PROVE TypeIsKnownAt(p, n)
      OBVIOUS
    <3>1. Kind(k) = "typedesc"
      BY <2>2, <2>3, BelowDeclarations
    <3>2. k = p + 1
      BY <2>2, <2>3, <3>1, LeafFacts
    <3>3. n \in Leaves(p + 1)
      BY <1>3, <2>1, <3>2 DEF Leaves, Parent, Nodes
    <3>4. p < Len(prog.nodes)
      <4>1. Len(prog.nodes) \in Nat /\ k <= Len(prog.nodes)
        BY <2>2, TreeFacts
      <4>. QED
        BY <2>3, <3>2, <4>1
    <3>5. Node(p + 1).parent = p
      BY <2>3, <3>2 DEF Parent
    <3>6. n \in Described(p)
      BY <3>1, <3>2, <3>3, <3>4, <3>5 DEF Described
    <3>. QED
      BY <2>5, <3>6 DEF IsAccepted
  <2>8. HidesNoFunction(n)
    BY <1>3 DEF HidesNoFunction
  <2>. QED
    BY <1>3, <2>1, <2>6, <2>7, <2>8 DEF TypesAreKnown
<1>. QED
  BY <1>2, <1>3

\* When the last module is checked, all of the program was.
LEMMA AllIsReached ==
  ASSUME prog \in Programs, at = Len(prog.modules), NEW n \in Nodes, Kind(n) # "file"
  PROVE  ModuleAround[n] = Module \/ AnalyzedBefore(ModuleAround[n], Module)
<1>1. PICK i \in DOMAIN prog.modules : prog.modules[i] = ModuleAround[n]
  BY ModulesAreListed
<1>2. Len(prog.modules) \in Nat /\ DOMAIN prog.modules = 1..Len(prog.modules)
  BY ProgramFacts
<1>3. CASE i = at
  BY <1>1, <1>3 DEF Module
<1>4. CASE i # at
  <2>1. i < at /\ at \in DOMAIN prog.modules
    BY <1>2, <1>4
  <2>. QED
    BY <1>1, <2>1 DEF AnalyzedBefore, Module
<1>. QED
  BY <1>3, <1>4

LEMMA SuccessIsRight ==
  ASSUME WalkInv, NamesAreUnique, ReachedAreAccepted, UsesAreChecked,
         phase = "check", Walked, ~errors, ~(at < Len(prog.modules))
  PROVE  WellScoped
<1>0. prog \in Programs /\ at = Len(prog.modules)
  <2>1. prog \in Programs /\ at \in DOMAIN prog.modules
    BY DEF WalkInv
  <2>2. Len(prog.modules) \in Nat /\ DOMAIN prog.modules = 1..Len(prog.modules)
    BY <2>1, ProgramFacts
  <2>. QED
    BY <2>1, <2>2
<1>1. ASSUME NEW n \in Nodes, Kind(n) # "file"
      PROVE  IsAccepted(n) /\ UseIsDeclared(n) /\ \A o \in Nodes : DeclaredIn(n, o) => IsEntered(n, o)
  <2>1. ModuleAround[n] = Module \/ AnalyzedBefore(ModuleAround[n], Module)
    BY <1>0, <1>1, AllIsReached
  <2>2. Reached(n) /\ \A o \in Nodes : DeclaredIn(n, o) => IsEntered(n, o)
    BY <2>1 DEF Reached, IsEntered
  <2>3. Left(n)
    BY <2>1, AllIsLeft
  <2>. QED
    BY <2>2, <2>3 DEF ReachedAreAccepted, UsesAreChecked
<1>2. ASSUME NEW n \in Nodes PROVE NameIsNew(n)
  <2>. SUFFICES ASSUME NEW o \in Nodes, DeclaredIn(n, o),
                       NEW k \in Declarations(o, Node(n).name, AtEndOf(n))
                PROVE  k = n
    BY DEF NameIsNew
  <2>1. k \in Nodes /\ DeclaredIn(k, o) /\ Node(k).name = Node(n).name
    BY DEF Declarations
  <2>2. Kind(n) # "file" /\ Kind(k) # "file"
    BY <2>1 DEF DeclaredIn
  <2>3. IsEntered(n, o) /\ IsEntered(k, o)
    BY <1>1, <2>1, <2>2
  <2>. QED
    BY <2>1, <2>3 DEF NamesAreUnique
<1>3. ASSUME NEW n \in Nodes PROVE TypesAreKnown(n) /\ HidesNoFunction(n) /\ UseIsDeclared(n)
  <2>1. CASE Kind(n) = "file"
    BY <2>1 DEF TypesAreKnown, HidesNoFunction, UseIsDeclared
  <2>2. CASE Kind(n) # "file"
    <3>1. ASSUME NEW k \in Nodes, ModuleAround[k] = ModuleAround[n] PROVE IsAccepted(k)
      <4>1. CASE Kind(k) # "file"
        BY <1>1, <4>1
      <4>2. CASE Kind(k) = "file"
        BY <4>2 DEF IsAccepted
      <4>. QED
        BY <4>1, <4>2
    <3>2. TypesAreKnown(n) /\ HidesNoFunction(n)
      BY <1>0, <2>2, <3>1, AcceptedTypes
    <3>. QED
      BY <1>1, <2>2, <3>2
  <2>. QED
    BY <2>1, <2>2
<1>. QED
  BY <1>2, <1>3 DEF WellScoped

LEMMA VerdictStep ==
  ASSUME VerdictInv, [Next]_vars
  PROVE  VerdictIsRight'
<1>0. /\ WalkInv /\ ModulesAreKnown /\ NamesAreEntered /\ TypesAreEntered
      /\ NamesAreUnique /\ RecordsAreTyped /\ ReachedAreAccepted /\ UsesAreChecked /\ VerdictIsRight
  BY DEF VerdictInv, NamesInv
<1>1. prog' = prog
  BY <1>0, LinksRemain
<1>2. WellScoped' <=> WellScoped
  BY <1>1, VerdictsStay
<1>3. CASE phase' \in {"first", "check"}
  BY <1>3 DEF VerdictIsRight
<1>4. CASE RefuseNode
  BY <1>0, <1>2, <1>4, RefusedIsWrong DEF VerdictIsRight, RefuseNode
<1>5. CASE DescendToUndeclaredMatch
  BY <1>0, <1>2, <1>5, CrashIsRight DEF VerdictIsRight, DescendToUndeclaredMatch
<1>6. CASE EndCheck /\ errors
  <2>1. phase' = "failed" /\ phase = "check"
    BY <1>6 DEF EndCheck
  <2>2. ~WellScoped
    BY <1>0, <1>6, <2>1 DEF UsesAreChecked, WellScoped
  <2>. QED
    BY <1>2, <2>1, <2>2 DEF VerdictIsRight
<1>7. CASE EndCheck /\ ~errors /\ ~(at < Len(prog.modules))
  <2>1. phase' = "done" /\ phase = "check" /\ Walked
    BY <1>7 DEF EndCheck
  <2>2. WellScoped
    BY <1>0, <1>7, <2>1, SuccessIsRight
  <2>. QED
    BY <1>2, <2>1, <2>2 DEF VerdictIsRight
<1>8. CASE Ended \/ UNCHANGED vars
  BY <1>0, <1>2, <1>8 DEF Ended, vars, VerdictIsRight
<1>9. CASE \/ EnterBlock \/ EnterModule \/ EnterFndecl \/ EnterTypedesc
           \/ EnterTypedecl \/ EnterVardecl \/ EnterOther
           \/ Descend \/ Ascend \/ CheckNode \/ EndFirstPass
           \/ EndCheck /\ ~errors /\ at < Len(prog.modules)
  <2>1. phase' \in {"first", "check"}
    BY <1>9 DEF EnterBlock, EnterModule, EnterFndecl, EnterTypedesc, EnterTypedecl, EnterVardecl,
                EnterOther, Entering, Visit, Descend, Ascend, CheckNode, GoUp, EndFirstPass, EndCheck
  <2>. QED
    BY <1>3, <2>1
<1>. QED
  BY <1>4, <1>5, <1>6, <1>7, <1>8, <1>9 DEF Next

LEMMA InitVerdict == Init => VerdictInv
<1>. SUFFICES ASSUME Init PROVE VerdictInv
  OBVIOUS
<1>1. NamesInv
  BY InitNames
<1>2. WalkInv /\ NamesAreEntered /\ phase = "first" /\ next = Module /\ at = 1 /\ ~errors
  BY <1>1 DEF NamesInv, Init
<1>3. prog \in Programs /\ at \in DOMAIN prog.modules /\ Module \in Nodes
  BY <1>2, PathFacts DEF WalkInv
<1>4. \A m : ~AnalyzedBefore(m, Module)
  <2>1. \A m : AnalyzedBefore(m, Module) <=> \E j \in 1..at - 1 : prog.modules[j] = m
    BY <1>3, AnalyzedFacts DEF Module
  <2>2. 1..at - 1 = {}
    BY <1>2
  <2>. QED
    BY <2>1, <2>2
<1>5. ASSUME NEW e \in Nodes PROVE ~(ModuleAround[e] = Module /\ e < next)
  <2>1. ModuleAround[e] <= e /\ e \in Nat /\ ModuleAround[e] \in Nat
    BY <1>3, ModuleFacts, TreeFacts
  <2>. QED
    BY <1>2, <2>1
<1>6. \A n, o \in Nodes : ~IsEntered(n, o)
  <2>. SUFFICES ASSUME NEW n \in Nodes, NEW o \in Nodes, DeclaredIn(n, o)
                PROVE  ~(ModuleAround[n] = Module /\ EnteredAt(n, o) < next)
    BY <1>2, <1>4 DEF IsEntered
  <2>1. EnteredAt(n, o) \in Nodes /\ ModuleAround[EnteredAt(n, o)] = ModuleAround[n]
    BY <1>3, EnteredAtFacts
  <2>. QED
    BY <1>5, <2>1
<1>7. \A n \in Nodes : ~Reached(n) /\ ~Left(n)
  BY <1>2, <1>4, <1>5 DEF Reached, Left
<1>8. DOMAIN tables \subseteq Nodes
  BY <1>2 DEF WalkInv, TablesAreLinked
<1>9. NamesAreUnique /\ RecordsAreTyped
  BY <1>6, <1>8 DEF NamesAreUnique, RecordsAreTyped
<1>10. ReachedAreAccepted /\ UsesAreChecked
  BY <1>2, <1>7 DEF ReachedAreAccepted, UsesAreChecked
<1>11. VerdictIsRight
  BY <1>2 DEF VerdictIsRight
<1>. QED
  BY <1>1, <1>9, <1>10, <1>11 DEF VerdictInv

LEMMA VerdictInvStep == VerdictInv /\ [Next]_vars => VerdictInv'
<1>. SUFFICES ASSUME VerdictInv, [Next]_vars PROVE VerdictInv'
  OBVIOUS
<1>1. /\ NamesInv /\ WalkInv /\ ModulesAreKnown /\ NamesAreEntered /\ TypesAreEntered
      /\ NamesAreUnique /\ RecordsAreTyped /\ ReachedAreAccepted /\ UsesAreChecked
  BY DEF VerdictInv, NamesInv
<1>2. NamesInv'
  BY <1>1, NamesInvStep
<1>3. NamesAreUnique' /\ RecordsAreTyped' /\ ReachedAreAccepted'
  <2>1. CASE \/ EnterBlock \/ EnterModule \/ EnterFndecl \/ EnterTypedesc
             \/ EnterTypedecl \/ EnterVardecl \/ EnterOther
    BY <1>1, <2>1, EnteringStep
  <2>2. CASE Walks
    BY <1>1, <2>2, RecordsStay
  <2>3. CASE RefuseNode \/ DescendToUndeclaredMatch
    <3>1. phase' \notin {"first", "check"}
      BY <2>3 DEF RefuseNode, DescendToUndeclaredMatch
    <3>. QED
      BY <3>1 DEF NamesAreUnique, RecordsAreTyped, ReachedAreAccepted
  <2>4. CASE Ended
    BY <1>1, <2>4, RecordsStay DEF Ended, Walks
  <2>. QED
    BY <2>1, <2>2, <2>3, <2>4 DEF Next, Walks
<1>4. UsesAreChecked'
  BY <1>1, UsesStep
<1>5. VerdictIsRight'
  BY VerdictStep
<1>. QED
  BY <1>2, <1>3, <1>4, <1>5 DEF VerdictInv

\* At every moment of the analysis no name is in a table twice, each record but those
\* of a function's description has the type of what its name stands for, every node
\* the first pass has been at is well-formed as far as the pass can tell, and an error
\* has been posted just when something undeclared was left by the type check
\* (analyzer_first_pass_do(), typecheck_do()).
THEOREM AnalysisKnowsItsTree == Spec => []VerdictInv
BY InitVerdict, VerdictInvStep, PTL DEF Spec

\* Whatever the program, the analysis succeeds only if every name is new in its scope
\* and no function has the name of another one that is visible, every type is declared
\* before it is used, and everything else is declared somewhere; and it refuses a
\* program, or crashes, only if that is not so (module_analyze(), compiler_analyze()).
THEOREM VerdictsAreRight == Spec => []VerdictIsRight
<1>1. VerdictInv => VerdictIsRight
  BY DEF VerdictInv
<1>. QED
  BY <1>1, AnalysisKnowsItsTree, PTL
=============================================================================
