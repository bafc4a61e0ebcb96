----------------------------- MODULE ModuleGraph ----------------------------
(***************************************************************************)
(* The import graph of a compilation: every module (struct module) with    *)
(* the list of the modules it depends on, in the order they were added.    *)
(***************************************************************************)
EXTENDS Naturals, Sequences

CONSTANT Module  \* the modules of a compilation

Elements(s) == {s[i] : i \in DOMAIN s}

IsModuleGraph(g) ==
  /\ g.modules \in Seq(Module)
  /\ \A i, j \in DOMAIN g.modules : g.modules[i] = g.modules[j] => i = j
  /\ g.deps \in [Module -> Seq(Elements(g.modules))]

Closed(deps, S) == \A m \in S : Elements(deps[m]) \subseteq S

\* b is imported by a, directly or through other modules: it belongs to every
\* set of modules that holds a's imports and the imports of its members.
Reaches(deps, a, b) ==
  \A S \in SUBSET Module :
    Elements(deps[a]) \subseteq S /\ Closed(deps, S) => b \in S

OnCycle(deps, m) == Reaches(deps, m, m)
=============================================================================
