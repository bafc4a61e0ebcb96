--------------------------- MODULE DependencySort ---------------------------
(***************************************************************************)
(* compiler_resolve_dependencies() and compiler_visit_unmarked_module():   *)
(* the depth first search that orders the modules of a compilation so that *)
(* every module comes after the modules it imports (src/compiler.c).       *)
(*                                                                         *)
(* The recursion of compiler_visit_unmarked_module() is unfolded into the  *)
(* call stack: stack[i] is the argument m of the i-th pending call and     *)
(* cursor[m] the position its loop over m->dependencies has reached. A     *)
(* module has at most one pending call, which StackIsTempMarks states.     *)
(***************************************************************************)
EXTENDS ModuleGraph

CONSTANTS
  Graphs,   \* the module graphs a run starts from: [modules, deps]
  NoModule  \* no culprit

ASSUME GraphsAssumption == \A g \in Graphs : IsModuleGraph(g)
ASSUME NoModuleAssumption == NoModule \notin Module

VARIABLES
  modules,        \* compiler.modules, in order of creation
  deps,           \* m->dependencies of every module
  marks,          \* the marks array
  scan,           \* i, the position of the outer darray_foreach
  unmarkedFound,  \* unmarked_found
  stack,          \* pending calls of compiler_visit_unmarked_module()
  cursor,         \* where the loop over m->dependencies stands, per module
  sorted,         \* compiler.sorted_modules
  outcome,        \* "running", or what compiler_resolve_dependencies() returned
  culprit         \* the module named by the cyclic dependency message

graph == <<modules, deps>>
vars == <<modules, deps, marks, scan, unmarkedFound, stack, cursor, sorted,
          outcome, culprit>>

Top == stack[Len(stack)]
-----------------------------------------------------------------------------
\* The state in which the marks are allocated and the first scan begins.
Fresh ==
  /\ marks = [m \in Module |-> "unmarked"]
  /\ scan = 1
  /\ unmarkedFound = FALSE
  /\ stack = << >>
  /\ cursor = [m \in Module |-> 1]
  /\ sorted = << >>
  /\ outcome = "running"
  /\ culprit = NoModule

Init ==
  /\ \E g \in Graphs : modules = g.modules /\ deps = g.deps
  /\ Fresh

\* A call for an unmarked module: mark it temporarily and start its loop.
EnterModule(m) ==
  /\ marks[m] = "unmarked"
  /\ marks' = [marks EXCEPT ![m] = "temp"]
  /\ stack' = Append(stack, m)
  /\ cursor' = [cursor EXCEPT ![m] = 1]

Scanning == outcome = "running" /\ stack = << >>

SkipScanned ==
  /\ Scanning
  /\ scan <= Len(modules)
  /\ marks[modules[scan]] = "marked"
  /\ scan' = scan + 1
  /\ UNCHANGED <<graph, marks, unmarkedFound, stack, cursor, sorted, outcome,
                 culprit>>

\* With no call pending no module is marked temporarily, so the guard of
\* EnterModule holds of every module the code's test lets through; were it not
\* so, the state would have no successor.
ScanModule ==
  /\ Scanning
  /\ scan <= Len(modules)
  /\ marks[modules[scan]] # "marked"
  /\ EnterModule(modules[scan])
  /\ scan' = scan + 1
  /\ unmarkedFound' = TRUE
  /\ UNCHANGED <<graph, sorted, outcome, culprit>>

\* Faulty: the flag of the outer loop is not reset.
RestartScan_KeepsFlag ==
  /\ Scanning
  /\ scan > Len(modules)
  /\ unmarkedFound
  /\ scan' = 1
  /\ UNCHANGED <<graph, marks, unmarkedFound, stack, cursor, sorted, outcome,
                 culprit>>

\* The end of a scan: another one if this one met an unmarked module.
RestartScan ==
  /\ Scanning
  /\ scan > Len(modules)
  /\ unmarkedFound
  /\ scan' = 1
  /\ unmarkedFound' = FALSE
  /\ UNCHANGED <<graph, marks, stack, cursor, sorted, outcome, culprit>>

FinishScan ==
  /\ Scanning
  /\ scan > Len(modules)
  /\ ~unmarkedFound
  /\ outcome' = "sorted"
  /\ UNCHANGED <<graph, marks, scan, unmarkedFound, stack, cursor, sorted,
                 culprit>>

Visiting == outcome = "running" /\ stack # << >>

\* Faulty: the last dependency is not visited.
HasNextDependency_OffByOne == cursor[Top] < Len(deps[Top])

HasNextDependency == cursor[Top] <= Len(deps[Top])
NextDependency == deps[Top][cursor[Top]]

\* Faulty: the dependency after a marked one is passed over.
SkipDependency_Twice ==
  /\ Visiting
  /\ HasNextDependency
  /\ marks[NextDependency] = "marked"
  /\ cursor' = [cursor EXCEPT ![Top] = @ + 2]
  /\ UNCHANGED <<graph, marks, scan, unmarkedFound, stack, sorted, outcome,
                 culprit>>

SkipDependency ==
  /\ Visiting
  /\ HasNextDependency
  /\ marks[NextDependency] = "marked"
  /\ cursor' = [cursor EXCEPT ![Top] = @ + 1]
  /\ UNCHANGED <<graph, marks, scan, unmarkedFound, stack, sorted, outcome,
                 culprit>>

VisitDependency ==
  /\ Visiting
  /\ HasNextDependency
  /\ LET d == NextDependency IN
     /\ marks[d] = "unmarked"
     /\ marks' = [marks EXCEPT ![d] = "temp"]
     /\ stack' = Append(stack, d)
     /\ cursor' = [cursor EXCEPT ![Top] = @ + 1, ![d] = 1]
  /\ UNCHANGED <<graph, scan, unmarkedFound, sorted, outcome, culprit>>

\* Faulty: a module that was already sorted is taken for a cycle.
DetectCycle_Marked ==
  /\ Visiting
  /\ HasNextDependency
  /\ marks[NextDependency] # "unmarked"
  /\ outcome' = "cycle"
  /\ culprit' = NextDependency
  /\ UNCHANGED <<graph, marks, scan, unmarkedFound, stack, cursor, sorted>>

\* Every pending call returns false at once: the stack is left as it was.
DetectCycle ==
  /\ Visiting
  /\ HasNextDependency
  /\ marks[NextDependency] = "temp"
  /\ outcome' = "cycle"
  /\ culprit' = NextDependency
  /\ UNCHANGED <<graph, marks, scan, unmarkedFound, stack, cursor, sorted>>

\* Faulty: the module is added at the head of the list, as for edges that
\* point the other way.
FinishModule_AtHead ==
  /\ Visiting
  /\ ~HasNextDependency
  /\ marks' = [marks EXCEPT ![Top] = "marked"]
  /\ sorted' = <<Top>> \o sorted
  /\ stack' = SubSeq(stack, 1, Len(stack) - 1)
  /\ UNCHANGED <<graph, scan, unmarkedFound, cursor, outcome, culprit>>

\* Faulty: the returning call takes its temporary mark away.
FinishModule_Unmarks ==
  /\ Visiting
  /\ ~HasNextDependency
  /\ marks' = [marks EXCEPT ![Top] = "unmarked"]
  /\ sorted' = Append(sorted, Top)
  /\ stack' = SubSeq(stack, 1, Len(stack) - 1)
  /\ UNCHANGED <<graph, scan, unmarkedFound, cursor, outcome, culprit>>

FinishModule ==
  /\ Visiting
  /\ ~HasNextDependency
  /\ marks' = [marks EXCEPT ![Top] = "marked"]
  /\ sorted' = Append(sorted, Top)
  /\ stack' = SubSeq(stack, 1, Len(stack) - 1)
  /\ UNCHANGED <<graph, scan, unmarkedFound, cursor, outcome, culprit>>

ResolveStep ==
  \/ SkipScanned
  \/ ScanModule
  \/ RestartScan
  \/ FinishScan
  \/ SkipDependency
  \/ VisitDependency
  \/ DetectCycle
  \/ FinishModule

Returned == outcome # "running" /\ UNCHANGED vars

Next == ResolveStep \/ Returned

Spec == Init /\ [][Next]_vars

\* The search is a sequential function: it keeps running until it returns.
FairSpec == Spec /\ WF_vars(ResolveStep)
-----------------------------------------------------------------------------
GraphOK ==
  /\ modules \in Seq(Module)
  /\ \A i, j \in DOMAIN modules : modules[i] = modules[j] => i = j
  /\ deps \in [Module -> Seq(Elements(modules))]

\* Stack, cursors and list are of modules that there are, and every cursor stays
\* within the imports of its module.
TypeOK ==
  /\ GraphOK
  /\ marks \in [Module -> {"unmarked", "temp", "marked"}]
  /\ scan \in 1 .. Len(modules) + 1
  /\ unmarkedFound \in BOOLEAN
  /\ stack \in Seq(Elements(modules))
  /\ cursor \in [Module -> Nat \ {0}]
  /\ \A m \in Module : cursor[m] <= Len(deps[m]) + 1
  /\ sorted \in Seq(Elements(modules))
  /\ outcome \in {"running", "sorted", "cycle"}
  /\ culprit \in Elements(modules) \cup {NoModule}

Abstract == INSTANCE BuildOrder WITH order <- sorted, verdict <- outcome

\* The pending calls are exactly the temporarily marked modules, each pending
\* once: a mark left behind, or reset, by a return would break it.
StackIsTempMarks ==
  /\ \A i, j \in DOMAIN stack : stack[i] = stack[j] => i = j
  /\ \A m \in Module : marks[m] = "temp" <=> m \in Elements(stack)

\* Every module in sorted_modules comes after all the modules it depends on.
\* compiler_analyze() and compiler_create_rir() walk the list in this order and
\* read their dependencies' symbol tables and RIR.
DependenciesFirst ==
  \A i \in DOMAIN sorted : \A d \in Elements(deps[sorted[i]]) :
    \E k \in 1 .. i - 1 : sorted[k] = d

\* When resolution succeeds every module of the compilation is in the sorted
\* list exactly once: none is analyzed twice, none is forgotten.
SortedIsComplete ==
  /\ \A i, j \in DOMAIN sorted : sorted[i] = sorted[j] => i = j
  /\ outcome = "sorted" => Elements(sorted) = Elements(modules)

\* The verdict is right both ways: a cycle is reported only around a module
\* that transitively imports itself, and an order is accepted only if there is
\* no such module.
VerdictIsRight ==
  /\ outcome = "cycle" => OnCycle(deps, culprit)
  /\ outcome = "sorted" => \A m \in Elements(modules) : ~OnCycle(deps, m)

\* The search implements the abstract build order.
ImplementsBuildOrder == Abstract!Spec

\* Whatever the graph, cyclic or not, resolution returns.
Resolves == <>(outcome # "running")
-----------------------------------------------------------------------------
\* What the search maintains between two of its steps.

\* Each pending call but the last waits for the next one, which it made for
\* one of its dependencies; those it has passed are in the sorted list.
PendingCalls ==
  \A i \in DOMAIN stack : \A j \in 1 .. cursor[stack[i]] - 1 :
    \/ marks[deps[stack[i]][j]] = "marked"
    \/ i < Len(stack) /\ deps[stack[i]][j] = stack[i + 1]

StackIsPath ==
  \A i, j \in DOMAIN stack : i < j => Reaches(deps, stack[i], stack[j])

MarkedIsSorted ==
  \A m \in Module : marks[m] = "marked" <=> m \in Elements(sorted)

ScannedIsMarked ==
  ~unmarkedFound => /\ stack = << >>
                    /\ \A i \in 1 .. scan - 1 : marks[modules[i]] = "marked"

\* The inductive invariant.
SearchInv ==
  /\ TypeOK
  /\ StackIsTempMarks
  /\ PendingCalls
  /\ StackIsPath
  /\ MarkedIsSorted
  /\ ScannedIsMarked
  /\ DependenciesFirst
  /\ SortedIsComplete
  /\ outcome = "cycle" => OnCycle(deps, culprit)
=============================================================================
