----------------------------- MODULE BuildOrder -----------------------------
(***************************************************************************)
(* What the driver needs of dependency resolution, and nothing of how it   *)
(* is computed: the modules are put in an order, one after the other, each *)
(* only once everything it imports is already in the order; the order is   *)
(* accepted when it holds every module, and resolution is refused only     *)
(* because of a module that transitively imports itself.                   *)
(***************************************************************************)
EXTENDS ModuleGraph

CONSTANT Graphs  \* the module graphs a run starts from: [modules, deps]

\* modules: compiler.modules, in order of creation; deps[m]: m's dependencies
\* in the order they were added. Neither changes during resolution.
VARIABLES modules, deps, order, verdict

bvars == <<modules, deps, order, verdict>>

-----------------------------------------------------------------------------
Init ==
  /\ \E g \in Graphs : modules = g.modules /\ deps = g.deps
  /\ order = << >>
  /\ verdict = "running"

Place(m) ==
  /\ verdict = "running"
  /\ m \notin Elements(order)
  /\ Elements(deps[m]) \subseteq Elements(order)
  /\ order' = Append(order, m)
  /\ UNCHANGED <<modules, deps, verdict>>

Accept ==
  /\ verdict = "running"
  /\ Elements(modules) = Elements(order)
  /\ verdict' = "sorted"
  /\ UNCHANGED <<modules, deps, order>>

Refuse(m) ==
  /\ verdict = "running"
  /\ OnCycle(deps, m)
  /\ verdict' = "cycle"
  /\ UNCHANGED <<modules, deps, order>>

Next ==
  \/ \E m \in Elements(modules) : Place(m) \/ Refuse(m)
  \/ Accept

Spec == Init /\ [][Next]_bvars
=============================================================================
