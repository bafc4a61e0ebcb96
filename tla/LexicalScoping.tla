--------------------------- MODULE LexicalScoping ---------------------------
(***************************************************************************)
(* What the analysis of Scopes promises, told from the tree alone: which   *)
(* scope surrounds a node, what a scope declares, which declaration a name *)
(* means, and which programs have well-formed scopes.                      *)
(***************************************************************************)
EXTENDS Scopes

Nodes == 1..Len(prog.nodes)
Parent(n) == Node(n).parent

\* The scope around a node. The body of a function is in the scope of its
\* declaration, the expression of a match case in the scope of its pattern.
ScopeAround[n \in Nodes] ==
  CASE Parent(n) = None -> None
    [] Parent(n) # None /\ Kind(Parent(n)) \in Owners -> Parent(n)
    [] Parent(n) # None /\ Kind(Parent(n)) \in Borrowers /\ n # Parent(n) + 1 -> Parent(n) + 1
    [] OTHER -> ScopeAround[Parent(n)]

FunctionAround[o \in Nodes] ==
  CASE Kind(o) = "fndecl" -> o
    [] Kind(o) # "fndecl" /\ ScopeAround[o] = None -> None
    [] OTHER -> FunctionAround[ScopeAround[o]]

ModuleAround[n \in Nodes] ==
  IF Kind(n) = "module" \/ Parent(n) = None THEN n ELSE ModuleAround[Parent(n)]

\* Whether node n declares its name in scope o. An argument is declared for
\* the body of the function and, like every leaf, in its type description.
IsArgument(n) == /\ Kind(n) = "leaf" /\ Kind(Parent(n)) = "typedesc"
                 /\ Kind(Parent(Parent(n))) = "fndecl"
DeclaredIn(n, o) ==
  CASE Kind(n) \in {"module", "fndecl", "typedecl"} -> ScopeAround[n] = o
    [] Kind(n) = "leaf" -> \/ ScopeAround[n] = o
                           \/ IsArgument(n) /\ Parent(Parent(n)) = o
    [] OTHER -> FALSE

\* Times of the analysis: when node n of its module is reached, or when all of
\* the module is known, as it is in the second walk. A function's arguments are
\* known from where it begins.
Before(n) == [module |-> ModuleAround[n], node |-> n]
AtEndOf(n) == [module |-> ModuleAround[n], node |-> Len(prog.nodes) + 1]
AnalyzedBefore(m, k) ==
  \E i, j \in DOMAIN prog.modules : i < j /\ prog.modules[i] = m /\ prog.modules[j] = k
KnownFrom(n, o) == IF IsArgument(n) /\ o = Parent(Parent(n)) THEN o ELSE n
IsKnown(n, o, when) ==
  \/ AnalyzedBefore(ModuleAround[n], when.module)
  \/ ModuleAround[n] = when.module /\ KnownFrom(n, o) < when.node
Declarations(o, id, when) ==
  {n \in Nodes : Node(n).name = id /\ DeclaredIn(n, o) /\ IsKnown(n, o, when)}

\* The scope whose declaration of id is meant in scope o, at a time: the innermost
\* one that declares it, or else that of the first imported module that offers it.
\* What stands in the outermost scope of a file sees no imports.
WayOut(id, when) ==
  LET Out[s \in Nodes] == IF Declarations(s, id, when) # {} THEN s
                          ELSE IF ScopeAround[s] = None THEN None ELSE Out[ScopeAround[s]]
  IN Out
Imports(o) == IF Kind(o) = "file" THEN <<>> ELSE prog.deps[ModuleAround[o]]
ScopeOrImport(out, from, s, id) ==
  IF out[s] # None THEN out[s]
  ELSE LET deps == Imports(s)
           with == {i \in DOMAIN deps : from[deps[i]] # None /\ id # Node(deps[i]).name}
       IN IF with = {} THEN None ELSE from[deps[Min(with)]]
ScopeOf(o, id, when) ==
  LET out == WayOut(id, when)
      From[s \in Nodes] == ScopeOrImport(out, From, s, id)
  IN From[o]
Resolves(o, id, when) == id \in Elementary \/ ScopeOf(o, id, when) # None

\* What a name stands for: a function, a module, or a type or value of some type,
\* if that is declared.
\* The type of an argument is one that is known outside of the function.
DeclarationOf(o, id, when) == CHOOSE n \in Declarations(ScopeOf(o, id, when), id, when) : TRUE
LookedUpAt(n) == IF IsArgument(n) THEN Parent(Parent(n)) ELSE n
TypeNamedBy(n) == DeclarationOf(ScopeAround[LookedUpAt(n)], Node(n).ref, Before(LookedUpAt(n)))
Means[n \in Nodes] ==
  CASE Kind(n) \in {"module", "fndecl", "typedecl"} -> Kind(n)
    [] Kind(n) = "leaf" /\ Node(n).ref \in Elementary -> "elementary"
    [] /\ Kind(n) = "leaf" /\ Node(n).ref \notin Elementary
       /\ Resolves(ScopeAround[LookedUpAt(n)], Node(n).ref, Before(LookedUpAt(n)))
         -> Means[TypeNamedBy(n)]
    [] OTHER -> "unknown"
-----------------------------------------------------------------------------
(* Well-formed scopes *)

NameIsNew(n) ==
  \A o \in Nodes : DeclaredIn(n, o) => Declarations(o, Node(n).name, AtEndOf(n)) \subseteq {n}

\* No function has the name of a function that is visible where it stands.
HidesNoFunction(n) ==
  LET o == ScopeAround[n]
  IN Kind(n) = "fndecl" /\ ScopeOf(o, Node(n).name, Before(n)) # None
       => Means[DeclarationOf(o, Node(n).name, Before(n))] # "fndecl"

\* Types are declared before they are used, those of the arguments of a function
\* and of the fields of a type outside of it, too.
TypeIsKnownAt(k, n) == Resolves(ScopeAround[k], Node(n).ref, Before(k))
TypesAreKnown(n) ==
  /\ Kind(n) \in {"leaf", "fndecl"} => TypeIsKnownAt(n, n)
  /\ Kind(n) = "leaf" /\ Kind(Parent(Parent(n))) \in {"typedecl", "fndecl"}
       => TypeIsKnownAt(Parent(Parent(n)), n)

\* Everything else may be declared behind its use, in the same module.
UseIsDeclared(n) ==
  LET o == ScopeAround[n]
  IN /\ Kind(n) \in {"use", "call"} => Resolves(o, Node(n).name, AtEndOf(n))
     /\ Kind(n) = "match" => Resolves(o, Node(n).ref, AtEndOf(n))
     /\ Kind(n) = "call" /\ Node(n).name \notin Elementary
          => Means[DeclarationOf(o, Node(n).name, AtEndOf(n))] # "module"
     /\ Kind(n) = "return" => FunctionAround[o] # None

WellScoped == \A n \in Nodes : /\ NameIsNew(n) /\ HidesNoFunction(n)
                               /\ TypesAreKnown(n) /\ UseIsDeclared(n)
-----------------------------------------------------------------------------
(* Properties *)

\* A table knows the function around it, against whose type a return is checked.
ReturnsLeaveTheirFunction(opened) ==
  \A o \in opened : tables[o].fndecl = FunctionAround[o]

\* The current table is moved up and down by two callbacks that skip some nodes.
\* Whenever one of them is at a node, in either pass, it is the table of the
\* scope around it; every table is linked to that of the scope around its owner
\* and to the function around it; and the path of parents is the path in the tree.
ScopesAreLexical ==
  LET opened == {o \in DOMAIN tables : tables[o].outer # None}
  IN /\ \A o \in opened : tables[o].outer = ScopeAround[o]
     /\ ReturnsLeaveTheirFunction(opened)
     /\ parents # <<>> /\ Kind(Top) \notin Owners \cup Borrowers => current = ScopeAround[Top]
     /\ \A i \in 1..Len(parents) - 1 : parents[i] = Parent(parents[i + 1])

\* Where a name is looked up, the innermost scope that declares it is found.
InnermostDeclaration(look) ==
  LET n == look.node
      o == IF Kind(n) \in Owners THEN n ELSE ScopeAround[n]
  IN look.table = ScopeOf(o, look.id, AtEndOf(n))

LookupsAreLexical == \A look \in found : InnermostDeclaration(look)

\* A symbol whose type is written with the name of a declared type has that type
\* and points to its declaration. (The name of a variable can stand for its type,
\* too. Then the symbol points to what the type's own name means where it is.)
HomeOf(n) == IF IsArgument(n) THEN Parent(Parent(n)) ELSE ScopeAround[n]
IsTyped(n) == Node(n).ref \notin Elementary /\ Kind(TypeNamedBy(n)) = "typedecl"
OfDeclaredType(tabs, o, id, d) ==
  LET symbol == tabs[o].records[id]
  IN symbol.node = d /\ symbol.type = [category |-> "defined", node |-> d]
PointsToItsType(tabs, n) ==
  HomeOf(n) \in DOMAIN tabs /\ Node(n).name \in DOMAIN tabs[HomeOf(n)].records
  /\ NameIsNew(n) /\ IsTyped(n)
    => OfDeclaredType(tabs, HomeOf(n), Node(n).name, TypeNamedBy(n))
SymbolsPointToTypes == \A n \in Nodes : Kind(n) = "leaf" => PointsToItsType(tables, n)

\* A name looked up by the type check is found in the innermost scope that
\* declares it, wherever in the module, or in the first import that offers it,
\* and every symbol points to the declaration of its type.
NamesMeanTheirDeclaration == LookupsAreLexical /\ SymbolsPointToTypes

\* The analysis succeeds on the programs with well-formed scopes, on no others.
VerdictIsRight ==
  /\ phase = "done" => WellScoped
  /\ phase \in {"failed", "crashed"} => ~WellScoped
-----------------------------------------------------------------------------
(* What the two walks maintain between two of their steps. *)

\* The parents are the way from the module down to the node being visited. What
\* is behind them is left for good: no later node is below it.
PathIsInTree ==
  /\ parents \in Seq(Nodes)
  /\ next \in Module..Len(prog.nodes) + 1
  /\ parents # <<>> => parents[1] = Module
  /\ \A i \in DOMAIN parents : Module <= parents[i] /\ parents[i] < next
  /\ \A i, j \in DOMAIN parents : i < j => parents[i] < parents[j]
  /\ \A i \in 1..Len(parents) - 1 : parents[i] = Parent(parents[i + 1])
  /\ \A p \in Module..next - 1 :
       \/ \E i \in DOMAIN parents : parents[i] = p
       \/ \A k \in next..Len(prog.nodes) : Parent(k) # p

\* A table is linked to the scope around its owner, and knows its function.
Linked(tabs, o) == /\ o \in DOMAIN tabs
                   /\ tabs[o].outer = ScopeAround[o]
                   /\ tabs[o].fndecl = FunctionAround[o]

\* The table of a module is linked when the module is entered. The links of all
\* others are there from the start.
TablesAreLinked ==
  /\ DOMAIN tables \subseteq Nodes
  /\ tables = [o \in DOMAIN tables |->
                 [records |-> tables[o].records, outer |-> tables[o].outer,
                  fndecl |-> tables[o].fndecl, mod |-> tables[o].mod]]
  /\ \A n \in Nodes : Kind(n) \in {"file", "module"} => n \in DOMAIN tables
  /\ \A o \in DOMAIN tables :
       /\ Kind(o) \in Owners
       /\ Linked(tables, o) \/ (Kind(o) = "module" /\ tables[o].outer = None)
       /\ tables[o].outer = None => Kind(o) \in {"file", "module"}
       /\ tables[o].outer # None => Linked(tables, tables[o].outer)

\* All tables between the module and node e are there.
LinkedUpTo(e) == \A n \in Module..e - 1 : Kind(n) \in Owners => Linked(tables, n)

\* The second walk goes no further than the first one went.
WalkedBefore(e) == /\ next <= e /\ Module < e /\ LinkedUpTo(e)
                   /\ \A k \in e..Len(prog.nodes) : Parent(k) \notin Module..e - 1
TablesAreThere ==
  /\ phase = "first" => LinkedUpTo(next)
  /\ phase = "check" => \E e \in Nodes \cup {Len(prog.nodes) + 1} : WalkedBefore(e)

\* The current table while Top is visited, and what is below it.
CurrentIsAround ==
  /\ phase = "first" /\ (parents # <<>> \/ next = Module) => Linked(tables, current)
  /\ phase = "first" /\ parents = <<>> /\ next = Module => current = FileOf(Module)
  /\ parents # <<>> =>
       /\ Kind(Top) \in Owners /\ phase \in {"first", "check"} => current = Top
       /\ Kind(Top) \in Borrowers /\ phase = "first"
            => current = IF next = Top + 1 THEN ScopeAround[Top] ELSE Top + 1
       /\ Kind(Top) \in Borrowers /\ phase = "check" => current = Top + 1
       /\ Kind(Top) \notin Owners \cup Borrowers => current = ScopeAround[Top]

\* The inductive invariant.
WalkInv ==
  /\ prog \in Programs
  /\ at \in DOMAIN prog.modules
  /\ PathIsInTree
  /\ TablesAreLinked
  /\ TablesAreThere
  /\ CurrentIsAround
-----------------------------------------------------------------------------
(* What the tables have of the module under analysis, and of those before. *)

\* The first pass enters a declaration when it reaches it. The symbol of a variable
\* is entered with the variable, other leaves with the type description or the
\* function that has them.
EnteredAt(n, o) == IF Kind(n) # "leaf" THEN n
                   ELSE IF Kind(Parent(n)) = "vardecl" THEN Parent(n) ELSE o
IsEntered(n, o) ==
  /\ DeclaredIn(n, o)
  /\ \/ AnalyzedBefore(ModuleAround[n], Module)
     \/ ModuleAround[n] = Module /\ (phase = "first" => EnteredAt(n, o) < next)
NamesEntered(o) == {Node(n).name : n \in {k \in Nodes : IsEntered(k, o)}}
NamesAreEntered ==
  phase \in {"first", "check"} => \A o \in DOMAIN tables : DOMAIN tables[o].records = NamesEntered(o)

\* A declared type is known by its own name.
TypesAreEntered ==
  phase \in {"first", "check"} =>
    \A o \in DOMAIN tables : \A n \in Nodes :
      Kind(n) = "typedecl" /\ IsEntered(n, o) => OfDeclaredType(tables, o, Node(n).name, n)

\* All tables of the modules before are there; a table knows its module.
ModulesAreKnown ==
  /\ \A i \in DOMAIN parents : ModuleAround[parents[i]] = Module
  /\ \A o \in Nodes : Kind(o) \in Owners /\ AnalyzedBefore(ModuleAround[o], Module)
                        => Linked(tables, o)
  /\ \A o \in DOMAIN tables : tables[o].mod = IF Kind(o) = "file" THEN None ELSE ModuleAround[o]

\* The inductive invariant with the names.
NamesInv ==
  /\ WalkInv
  /\ ModulesAreKnown
  /\ NamesAreEntered
  /\ TypesAreEntered
  /\ NamesMeanTheirDeclaration
-----------------------------------------------------------------------------
(* What the analysis has found out when it has come this far. *)

\* The first pass has been at a node; the type check has left it.
Reached(n) == \/ AnalyzedBefore(ModuleAround[n], Module)
              \/ ModuleAround[n] = Module /\ (phase = "first" => n < next)
Left(n) == \/ AnalyzedBefore(ModuleAround[n], Module)
           \/ /\ ModuleAround[n] = Module /\ phase = "check" /\ n < next
              /\ \A i \in DOMAIN parents : parents[i] # n

\* No name was entered into a table twice.
NamesAreUnique ==
  phase \in {"first", "check"} =>
    \A o, n, k \in Nodes :
      IsEntered(n, o) /\ IsEntered(k, o) /\ Node(n).name = Node(k).name => n = k

\* A record has the type of what its name stands for. The description of a function
\* has its arguments once more, for which this is not so: there one may hide the
\* type of the next. Nothing but their names is looked up there.
IsOfFunction(o) == Kind(o) = "typedesc" /\ Kind(Parent(o)) = "fndecl"
Category == [module |-> "module", fndecl |-> "function",
             typedecl |-> "defined", elementary |-> "elementary"]
StandsFor(tabs, o, n) ==
  /\ Means[n] \in DOMAIN Category
  /\ tabs[o].records[Node(n).name].type.category = Category[Means[n]]
RecordsAreTyped ==
  phase \in {"first", "check"} =>
    \A o \in DOMAIN tables : \A n \in Nodes :
      IsEntered(n, o) /\ ~IsOfFunction(o) => StandsFor(tables, o, n)

\* What the first pass makes sure of at a node, but for new names.
IsAccepted(k) ==
  /\ Kind(k) \in {"fndecl", "typedecl"} => \A n \in Described(k) : TypeIsKnownAt(k, n)
  /\ Kind(k) = "fndecl" => TypeIsKnownAt(k, k) /\ HidesNoFunction(k)
  /\ Kind(k) = "vardecl" => TypeIsKnownAt(k + 1, k + 1)
  /\ Kind(k) = "typedesc" => \A n \in Leaves(k) : TypeIsKnownAt(n, n)
ReachedAreAccepted ==
  phase \in {"first", "check"} => \A k \in Nodes : Reached(k) => IsAccepted(k)

\* An error is there if something that is not declared was left.
UsesAreChecked ==
  /\ phase = "first" => ~errors
  /\ phase \in {"first", "check"} =>
       IF errors THEN \E n \in Nodes : ~UseIsDeclared(n)
       ELSE \A n \in Nodes : Left(n) => UseIsDeclared(n)

\* The inductive invariant with the verdict.
VerdictInv ==
  /\ NamesInv
  /\ NamesAreUnique
  /\ RecordsAreTyped
  /\ ReachedAreAccepted
  /\ UsesAreChecked
  /\ VerdictIsRight
=============================================================================
