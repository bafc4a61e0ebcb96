------------------------------- MODULE Scopes -------------------------------
(***************************************************************************)
(* The symbol tables of a program: how analyzer_first_pass() builds them,  *)
(* how the type check walks through them, and what a lookup finds          *)
(* (src/analyzer/symbol_table.c, analyzer_pass1.c, typecheck.c and the two *)
(* traversals of src/ast/ast_utils.c). Every module is walked twice in the *)
(* order the dependency sort left.                                         *)
(*                                                                         *)
(* A program is a forest in preorder: a node is its index, its record has  *)
(* its kind, parent, the name it declares or uses, and ref, the name of    *)
(* the type it refers to: of a leaf, of the value a function returns, or   *)
(* of the value a match inspects. The identifiers below a node are part of *)
(* it. Of the type check only what the tables decide is here: names that   *)
(* are not declared, calls of what cannot be called, misplaced returns.    *)
(***************************************************************************)
EXTENDS Naturals, Sequences, SequencesExt

CONSTANTS
  Programs,    \* [nodes, modules in analysis order, deps of each module]
  Elementary   \* the names of the elementary types

None == 0

\* The nodes with a table of their own, and those that point to the table of
\* their first child: an implementation to its declaration's, a match case to
\* its pattern's.
Owners == {"file", "module", "block", "fndecl", "typedesc"}
Borrowers == {"fnimpl", "case"}
Kinds == Owners \cup Borrowers \cup
         {"typedecl", "vardecl", "leaf", "use", "call", "return", "match"}

\* Nodes in preorder: a node comes behind its parent, and in between there are
\* only descendants of the parent. A file is a tree of its own, its modules are
\* below it; declaration, pattern and the symbol of a variable are first children,
\* and not further ones. Below a type description there are leaves and names, below
\* what it describes nothing else.
FirstChild == [fnimpl |-> "fndecl", case |-> "typedesc", vardecl |-> "leaf"]
IsForest(nodes) ==
  /\ nodes \in Seq([kind : Kinds, name : STRING, ref : STRING, parent : Nat])
  /\ \A n \in DOMAIN nodes :
       LET p == nodes[n].parent
       IN /\ p < n
          /\ \A k \in p + 1 .. n - 1 : p <= nodes[k].parent
          /\ p = None <=> nodes[n].kind = "file"
          /\ nodes[n].kind = "module" => nodes[p].kind = "file"
          /\ nodes[n].kind \in DOMAIN FirstChild =>
               /\ n + 1 \in DOMAIN nodes /\ nodes[n + 1].parent = n
               /\ nodes[n + 1].kind = FirstChild[nodes[n].kind]
          /\ p # None /\ nodes[p].kind \in DOMAIN FirstChild
               => (nodes[n].kind = FirstChild[nodes[p].kind] <=> n = p + 1)
          /\ nodes[n].kind = "typedesc"
               => nodes[p].kind \in {"fndecl", "typedecl", "case"} /\ n = p + 1
          /\ nodes[n].kind = "leaf" => nodes[p].kind \in {"vardecl", "typedesc"}
          /\ p # None /\ nodes[p].kind = "typedesc" => nodes[n].kind \in {"leaf", "use"}
          /\ p # None => nodes[p].kind \notin {"leaf", "use"}
          /\ p # None /\ nodes[p].kind \in {"fndecl", "typedecl"} => nodes[n].kind = "typedesc"

\* The dependency sort has each module once, behind those it imports. A file with
\* a main function is a module itself; if it has modules as well it is refused,
\* which is left out. So are what stands beside the modules of other files, which
\* is not analyzed, and a declared type with the name of a module, which an
\* importer does not see.
IsProgram(p) ==
  /\ IsForest(p.nodes)
  /\ p.modules \in Seq(DOMAIN p.nodes) /\ p.modules # <<>>
  /\ \A n \in DOMAIN p.nodes :
       p.nodes[n].parent # None /\ p.nodes[p.nodes[n].parent].kind = "file"
         => \E i \in DOMAIN p.modules : p.modules[i] \in {n, p.nodes[n].parent}
  /\ \A i \in DOMAIN p.modules :
       LET m == p.modules[i]
       IN /\ p.nodes[m].kind \in {"file", "module"}
          /\ \A j \in 1..i - 1 : p.modules[j] # m
          /\ p.deps[m] \in Seq({p.modules[j] : j \in 1..i - 1})
          /\ \A n \in DOMAIN p.nodes :
               /\ p.nodes[n].kind = "module" => p.nodes[n].parent # m
               /\ p.nodes[n].kind = "typedecl" => p.nodes[n].name # p.nodes[m].name

ASSUME ProgramsAssumption == \A p \in Programs : IsProgram(p)

VARIABLES
  prog,     \* the program
  at,       \* the module under analysis, an index into prog.modules
  phase,    \* "first" pass, type "check", or how the analysis ended
  parents,  \* ctx->parent_nodes, the node being visited is the last
  next,     \* the next node in preorder
  current,  \* ctx->current_st, by the node that owns the table
  tables,   \* every symbol table, by the node that owns it
  errors,   \* whether a semantic error was posted
  found     \* history: the names the last step looked up, and where they were

vars == <<prog, at, phase, parents, next, current, tables, errors, found>>

Node(n) == prog.nodes[n]
Kind(n) == Node(n).kind
Module == prog.modules[at]
Top == Last(parents)
FileOf(m) == IF Kind(m) = "file" THEN m ELSE Node(m).parent

\* The table that a node has or borrows.
TableOf(n) == IF Kind(n) \in Borrowers THEN n + 1 ELSE n
-----------------------------------------------------------------------------
(* Tables and lookups *)

\* Mutant: the imports are asked before the tables around.
Lookup_ImportsFirst(tabs, t, id) ==
  LET From[o \in DOMAIN tabs] ==
        LET with == IF tabs[o].mod = None THEN <<>>
                    ELSE SelectSeq(prog.deps[tabs[o].mod],
                                   LAMBDA d : id \in DOMAIN tabs[d].records /\ id # Node(d).name)
            Chain[q \in DOMAIN tabs] ==
              IF id \in DOMAIN tabs[q].records THEN q
              ELSE IF tabs[q].outer = None THEN None ELSE Chain[tabs[q].outer]
        IN IF with = <<>> THEN Chain[o] ELSE Head(with)
  IN From[t]

\* symbol_table_lookup_record(): the table where id is found, or None. A table,
\* then its parents up to the root, then the modules that the first table's
\* module depends on, except for their own names.
Lookup(tabs, t, id) ==
  LET Chain[o \in DOMAIN tabs] ==
        IF id \in DOMAIN tabs[o].records \/ tabs[o].outer = None
        THEN IF id \in DOMAIN tabs[o].records THEN o ELSE None
        ELSE Chain[tabs[o].outer]
      From[o \in DOMAIN tabs] ==
        IF Chain[o] # None \/ tabs[o].mod = None THEN Chain[o]
        ELSE LET deps == prog.deps[tabs[o].mod]
                 with == {i \in DOMAIN deps : From[deps[i]] # None /\ id # Node(deps[i]).name}
             IN IF with = {} THEN None ELSE From[deps[Min(with)]]
  IN From[t]

Record(tabs, t, id) == tabs[Lookup(tabs, t, id)].records[id]

\* type_lookup_identifier_string(): any symbol has a type, not only type names.
Known(tabs, t, id) == id \in Elementary \/ Lookup(tabs, t, id) # None
TypeOf(tabs, t, id) == IF id \in Elementary THEN [category |-> "elementary", node |-> None]
                       ELSE Record(tabs, t, id).type

\* symbol_table_swap_current(): a new table below the current one.
Below(outer) == [records |-> <<>>, outer |-> outer,
                 fndecl |-> tables[outer].fndecl, mod |-> Module]

WithTable(tabs, n, table) == [o \in DOMAIN tabs \cup {n} |-> IF o = n THEN table ELSE tabs[o]]

\* symbol_table_add_record()
Add(tabs, t, id, n, type) ==
  [tabs EXCEPT ![t].records = [x \in DOMAIN @ \cup {id} |->
                                 IF x = id THEN [node |-> n, type |-> type] ELSE @[x]]]

\* symbol_table_record_init() of a leaf: a symbol of a declared type points to
\* the declaration of that type, looked up by its name. The argument of a function
\* (type_function_add_args_to_st()) points to what its own type's name points to.
AddLeaf(tabs, t, st, n) ==
  LET type == TypeOf(tabs, st, Node(n).ref)
      name == IF t = st THEN Node(type.node).name ELSE Node(n).ref
  IN Add(tabs, t, Node(n).name,
         IF type.category = "defined" THEN Record(tabs, st, name).node ELSE n, type)

CanAddLeaf(tabs, t, st, n) == /\ Node(n).name \notin DOMAIN tabs[t].records
                              /\ Known(tabs, st, Node(n).ref)

\* The leaves below a type description, one after the other, into table t with
\* their types looked up from st: the tables behind each node.
Leaves(p) == {n \in 1..Len(prog.nodes) : Node(n).parent = p /\ Kind(n) = "leaf"}
AfterLeaves(tabs, t, st, leaves) ==
  LET After[n \in 0..Len(prog.nodes)] ==
        IF n = 0 THEN tabs
        ELSE IF n \in leaves THEN AddLeaf(After[n - 1], t, st, n) ELSE After[n - 1]
  IN After
LeavesAdded(tabs, t, st, leaves) ==
  LET after == AfterLeaves(tabs, t, st, leaves)
      CanAdd[n \in 0..Len(prog.nodes)] ==
        n > 0 => CanAdd[n - 1] /\ (n \in leaves => CanAddLeaf(after[n - 1], t, st, n))
      ok == CanAdd[Len(prog.nodes)]
  IN [ok |-> ok, tables |-> IF ok THEN after[Len(prog.nodes)] ELSE tabs]

\* The arguments of a function and the body of a declared type: leaves of the
\* type description below it, if it has one.
Described(n) == IF n < Len(prog.nodes) /\ Kind(n + 1) = "typedesc" /\ Node(n + 1).parent = n
                THEN Leaves(n + 1) ELSE {}
LeavesKnown(n) == \A l \in Described(n) : Known(tables, current, Node(l).ref)

EmptyTable(m) == [records |-> <<>>, outer |-> None, fndecl |-> None, mod |-> m]

Init ==
  /\ prog \in Programs
  \* root_symbol_table_init() and module_symbol_table_init()
  /\ tables = [n \in {k \in 1..Len(prog.nodes) : Kind(k) \in {"file", "module"}} |->
                 EmptyTable(IF Kind(n) = "file" THEN None ELSE n)]
  /\ at = 1
  /\ phase = "first"
  /\ parents = <<>>
  /\ next = Module
  /\ current = FileOf(Module)
  /\ errors = FALSE
  /\ found = {}
-----------------------------------------------------------------------------
(* The two traversals *)

\* Whether the traversal goes down next.
Descends == IF parents = <<>> THEN next = Module
            ELSE next <= Len(prog.nodes) /\ Node(next).parent = Top
Entering(p, kind) == phase = p /\ Descends /\ Kind(next) = kind
Visit == /\ parents' = Append(parents, next)
         /\ next' = next + 1
         /\ found' = {}
         /\ UNCHANGED <<prog, at, phase, errors>>

\* analyzer_first_pass_do()
EnterBlock ==
  /\ Entering("first", "block")
  /\ tables' = WithTable(tables, next, Below(current))
  /\ current' = next
  /\ Visit

EnterModule ==
  /\ Entering("first", "module")
  /\ Node(next).name \notin DOMAIN tables[current].records
  /\ tables' = Add(WithTable(tables, next, Below(current)), current, Node(next).name,
                   next, [category |-> "module", node |-> next])
  /\ current' = next
  /\ Visit

\* analyzer_create_symbol_table_fndecl(), type_init_from_fndecl(): the function
\* is known by a name that no visible function has, its arguments are symbols
\* of its own table.
AlreadyAFunction_InItsScope(n) ==   \* Mutant: only its own table is asked.
  /\ Node(n).name \in DOMAIN tables[current].records
  /\ tables[current].records[Node(n).name].type.category = "function"
AlreadyAFunction(n) ==
  /\ Lookup(tables, current, Node(n).name) # None
  /\ Record(tables, current, Node(n).name).type.category = "function"
WithArguments(n) == LeavesAdded(WithTable(tables, n, [Below(current) EXCEPT !.fndecl = n]),
                                n, current, Described(n))
EnterFndecl ==
  /\ Entering("first", "fndecl")
  /\ ~AlreadyAFunction(next)
  /\ Node(next).name \notin DOMAIN tables[current].records
  /\ LeavesKnown(next)
  /\ WithArguments(next).ok
  /\ Known(tables, current, Node(next).ref)
  /\ tables' = Add(WithArguments(next).tables, current, Node(next).name, next,
                   [category |-> "function", node |-> next])
  /\ current' = next
  /\ Visit

\* A type description has the names of its leaves in a table of its own.
WithLeaves(n) == LeavesAdded(WithTable(tables, n, Below(current)), n, n, Leaves(n))
EnterTypedesc ==
  /\ Entering("first", "typedesc")
  /\ WithLeaves(next).ok
  /\ tables' = WithLeaves(next).tables
  /\ current' = next
  /\ Visit

\* analyzer_populate_symbol_table_typedecl()
EnterTypedecl ==
  /\ Entering("first", "typedecl")
  /\ Node(next).name \notin DOMAIN tables[current].records
  /\ LeavesKnown(next)
  /\ tables' = Add(tables, current, Node(next).name, next,
                   [category |-> "defined", node |-> next])
  /\ UNCHANGED current
  /\ Visit

\* analyzer_populate_symbol_table_vardecl(): the leaf below it is its symbol.
EnterVardecl ==
  /\ Entering("first", "vardecl")
  /\ CanAddLeaf(tables, current, current, next + 1)
  /\ tables' = AddLeaf(tables, current, current, next + 1)
  /\ UNCHANGED current
  /\ Visit

EnterOther ==
  /\ \E kind \in {"file", "fnimpl", "case", "leaf", "use", "call", "return", "match"} :
       Entering("first", kind)
  /\ UNCHANGED <<tables, current>>
  /\ Visit

\* The pass stops at the first node it refuses. Each refusal posts a message but
\* one: a function with the name of another symbol of its own scope is only met
\* by an assertion in symbol_table_add_node().
NameTaken(n) == Node(n).name \in DOMAIN tables[current].records
Refused(n) ==
  CASE Kind(n) = "module" -> NameTaken(n)
    [] Kind(n) = "fndecl" -> \/ AlreadyAFunction(n) \/ NameTaken(n)
                             \/ ~LeavesKnown(n) \/ ~WithArguments(n).ok
                             \/ ~Known(tables, current, Node(n).ref)
    [] Kind(n) = "typedesc" -> ~WithLeaves(n).ok
    [] Kind(n) = "typedecl" -> NameTaken(n) \/ ~LeavesKnown(n)
    [] Kind(n) = "vardecl" -> ~CanAddLeaf(tables, current, current, n + 1)
    [] OTHER -> FALSE
RefuseNode ==
  /\ phase = "first" /\ Descends /\ Refused(next)
  /\ phase' = "failed"
  /\ errors' = (Kind(next) # "fndecl" \/ AlreadyAFunction(next) \/ ~NameTaken(next))
  /\ UNCHANGED <<prog, at, parents, next, current, tables, found>>

\* analyzer_handle_traversal_descending()
Descend ==
  /\ phase = "check" /\ Descends
  /\ Kind(next) = "match" => Known(tables, current, Node(next).ref)
  /\ current' = IF Kind(next) \in Owners \cup Borrowers THEN TableOf(next) ELSE current
  /\ UNCHANGED tables
  /\ Visit

\* pattern_matching_ctx_init() goes into the type of the value without asking
\* whether it has one.
DescendToUndeclaredMatch ==
  /\ Entering("check", "match")
  /\ ~Known(tables, current, Node(next).ref)
  /\ phase' = "crashed"
  /\ UNCHANGED <<prog, at, parents, next, current, tables, errors, found>>

\* analyzer_handle_symbol_table_ascending(): back to the parent's table, but
\* for a declaration whose body comes next, and for the pattern of a match case.
Stays_ButNotForPatterns(n) ==   \* Mutant: the exception of match cases is missing.
  \/ Kind(n) \notin (Owners \cup Borrowers) \ {"file"}
  \/ Kind(n) = "fndecl" /\ Kind(Node(n).parent) = "fnimpl"
Stays(n) == \/ Kind(n) \notin (Owners \cup Borrowers) \ {"file"}
            \/ Kind(n) = "fndecl" /\ Kind(Node(n).parent) = "fnimpl"
            \/ Kind(n) = "typedesc" /\ Kind(Node(n).parent) = "case"
GoUp == /\ parents # <<>> /\ ~Descends
        /\ current' = IF Stays(Top) THEN current ELSE tables[TableOf(Top)].outer
        /\ parents' = Front(parents)
        /\ UNCHANGED <<prog, at, phase, next, tables>>

Ascend == phase = "first" /\ GoUp /\ UNCHANGED <<errors, found>>

\* typecheck_do(), before it ascends: the names below node n that are looked up.
NamesAt(n) ==
  (CASE Kind(n) \in {"use", "call", "typedecl", "module"} -> {Node(n).name}
     [] Kind(n) \in {"leaf", "fndecl"} -> {Node(n).name, Node(n).ref}
     [] Kind(n) = "match" -> {Node(n).ref}
     [] OTHER -> {}) \ Elementary
\* typecheck_function_call(): functions, constructors and conversions.
Callable(id) == TypeOf(tables, current, id).category \in {"function", "defined", "elementary"}
Objectionable(n) ==
  \/ \E id \in NamesAt(n) : ~Known(tables, current, id)
  \/ Kind(n) = "call" /\ Known(tables, current, Node(n).name) /\ ~Callable(Node(n).name)
  \/ Kind(n) = "return" /\ tables[current].fndecl = None
CheckNode ==
  /\ phase = "check" /\ GoUp
  /\ errors' = (errors \/ Objectionable(Top))
  /\ found' = {[node |-> Top, id |-> id, table |-> Lookup(tables, current, id)] :
               id \in NamesAt(Top)}

\* module_analyze(), compiler_analyze(): the second walk starts without a table;
\* it goes on behind an error, but the next module is only analyzed without one.
Walked == parents = <<>> /\ ~Descends
EndFirstPass ==
  /\ phase = "first" /\ Walked
  /\ phase' = "check"
  /\ next' = Module
  /\ current' = None
  /\ UNCHANGED <<prog, at, parents, tables, errors, found>>

EndCheck ==
  /\ phase = "check" /\ Walked
  /\ found' = {}
  /\ IF ~errors /\ at < Len(prog.modules)
     THEN /\ at' = at + 1
          /\ phase' = "first"
          /\ next' = prog.modules[at + 1]
          /\ current' = FileOf(prog.modules[at + 1])
     ELSE /\ phase' = IF errors THEN "failed" ELSE "done"
          /\ UNCHANGED <<at, next, current>>
  /\ UNCHANGED <<prog, parents, tables, errors>>

Ended == phase \in {"done", "failed", "crashed"} /\ UNCHANGED vars

Next == \/ EnterBlock \/ EnterModule \/ EnterFndecl \/ EnterTypedesc
        \/ EnterTypedecl \/ EnterVardecl \/ EnterOther \/ RefuseNode
        \/ Descend \/ DescendToUndeclaredMatch
        \/ Ascend \/ CheckNode \/ EndFirstPass \/ EndCheck \/ Ended

Spec == Init /\ [][Next]_vars
=============================================================================
