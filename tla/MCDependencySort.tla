-------------------------- MODULE MCDependencySort --------------------------
(***************************************************************************)
(* Three modules, each with every list of up to two dependencies, so that  *)
(* there are imports of oneself, repeated ones and cycles; and four, of    *)
(* which one depends on two others, with what they share below them, the   *)
(* way back to it, and the same import twice. The graphs of test_modules.c *)
(* are in MCCompiler.                                                      *)
(***************************************************************************)
EXTENDS DependencySort, FiniteSets, TLC

CONSTANTS m1, m2, m3, m4

Lists == {<< >>} \cup {<<x>> : x \in {m1, m2, m3}}
         \cup {<<x, y>> : x, y \in {m1, m2, m3}}

MCGraphs ==
  {[modules |-> <<m1, m2, m3>>,
    deps |-> [m \in {m1, m2, m3, m4} |-> IF m = m4 THEN << >> ELSE f[m]]] :
      f \in [{m1, m2, m3} -> Lists]}
  \cup
  {[modules |-> <<m4, m3, m2, m1>>,
    deps |-> (m1 :> <<m2, m3>> @@ m2 :> x @@ m3 :> y @@ m4 :> z)] :
      x, y, z \in {<< >>, <<m4>>, <<m1, m4>>, <<m4, m4>>}}
=============================================================================
