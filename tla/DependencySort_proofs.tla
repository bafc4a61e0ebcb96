------------------------ MODULE DependencySort_proofs -----------------------
(***************************************************************************)
(* Proofs that the search of compiler_resolve_dependencies() is correct    *)
(* for every set of modules and every module graph.                        *)
(***************************************************************************)
EXTENDS DependencySort, TLAPS

\* Appending keeps the positions of a sequence and adds one at its end.
LEMMA AppendFacts ==
  ASSUME NEW S, NEW s \in Seq(S), NEW e \in S
  PROVE  /\ Append(s, e) \in Seq(S)
         /\ Len(Append(s, e)) = Len(s) + 1
         /\ DOMAIN Append(s, e) = 1 .. Len(s) + 1
         /\ \A i \in DOMAIN s : Append(s, e)[i] = s[i]
         /\ Append(s, e)[Len(s) + 1] = e
         /\ Elements(Append(s, e)) = Elements(s) \cup {e}
<1>1. /\ Append(s, e) \in Seq(S)
      /\ Len(Append(s, e)) = Len(s) + 1
      /\ DOMAIN Append(s, e) = 1 .. Len(s) + 1
      /\ \A i \in DOMAIN s : Append(s, e)[i] = s[i]
      /\ Append(s, e)[Len(s) + 1] = e
  OBVIOUS
<1>2. DOMAIN s = 1 .. Len(s) /\ Len(s) \in Nat
  OBVIOUS
<1>3. DOMAIN Append(s, e) = DOMAIN s \cup {Len(s) + 1}
  BY <1>1, <1>2
<1>4. ASSUME NEW x \in Elements(Append(s, e))
      PROVE  x \in Elements(s) \cup {e}
  <2>1. PICK i \in DOMAIN Append(s, e) : x = Append(s, e)[i]
    BY <1>4 DEF Elements
  <2>2. CASE i \in DOMAIN s
    BY <2>1, <2>2, <1>1 DEF Elements
  <2>3. CASE i = Len(s) + 1
    BY <2>1, <2>3, <1>1
  <2>4. QED
    BY <2>1, <2>2, <2>3, <1>3
<1>5. ASSUME NEW x \in Elements(s) \cup {e}
      PROVE  x \in Elements(Append(s, e))
  <2>1. CASE x \in Elements(s)
    <3>1. PICK i \in DOMAIN s : x = s[i]
      BY <2>1 DEF Elements
    <3>2. i \in DOMAIN Append(s, e) /\ Append(s, e)[i] = x
      BY <3>1, <1>1, <1>3
    <3>3. QED
      BY <3>2 DEF Elements
  <2>2. CASE x = e
    <3>1. Len(s) + 1 \in DOMAIN Append(s, e) /\ Append(s, e)[Len(s) + 1] = x
      BY <2>2, <1>1, <1>3
    <3>2. QED
      BY <3>1 DEF Elements
  <2>3. QED
    BY <1>5, <2>1, <2>2
<1>6. Elements(Append(s, e)) = Elements(s) \cup {e}
  BY <1>4, <1>5
<1>7. QED
  BY <1>1, <1>6

\* Dropping the last element keeps the positions before it.
LEMMA FrontFacts ==
  ASSUME NEW S, NEW s \in Seq(S), s # << >>
  PROVE  LET f == SubSeq(s, 1, Len(s) - 1) IN
         /\ f \in Seq(S)
         /\ Len(f) = Len(s) - 1
         /\ DOMAIN f = 1 .. Len(s) - 1
         /\ \A i \in DOMAIN f : f[i] = s[i]
         /\ Len(s) \in DOMAIN s
<1>1. Len(s) \in Nat /\ DOMAIN s = 1 .. Len(s) /\ Len(s) > 0
  OBVIOUS
<1>2. QED
  BY <1>1

\* What a position of the stack, of a dependency list or of the module list
\* holds is a module of the compilation.
LEMMA TypeFacts ==
  ASSUME TypeOK
  PROVE  /\ Elements(modules) \subseteq Module
         /\ \A m \in Module : /\ deps[m] \in Seq(Elements(modules))
                              /\ Elements(deps[m]) \subseteq Elements(modules)
         /\ Elements(stack) \subseteq Elements(modules)
         /\ Elements(sorted) \subseteq Elements(modules)
         /\ stack # << >> => Top \in Elements(modules)
         /\ stack # << >> /\ HasNextDependency
              => /\ cursor[Top] \in DOMAIN deps[Top]
                 /\ NextDependency \in Elements(deps[Top])
                 /\ NextDependency \in Elements(modules)
<1>1. modules \in Seq(Module) /\ stack \in Seq(Elements(modules))
      /\ sorted \in Seq(Elements(modules))
      /\ deps \in [Module -> Seq(Elements(modules))]
  BY DEF TypeOK, GraphOK
<1>2. Elements(modules) \subseteq Module
  BY <1>1 DEF Elements
<1>3. \A m \in Module : /\ deps[m] \in Seq(Elements(modules))
                        /\ Elements(deps[m]) \subseteq Elements(modules)
  <2> TAKE m \in Module
  <2>1. deps[m] \in Seq(Elements(modules))
    BY <1>1
  <2>2. \A i \in DOMAIN deps[m] : deps[m][i] \in Elements(modules)
    BY <2>1
  <2>3. QED
    BY <2>1, <2>2 DEF Elements
<1>4. \A i \in DOMAIN stack : stack[i] \in Elements(modules)
  BY <1>1
<1>5. \A i \in DOMAIN sorted : sorted[i] \in Elements(modules)
  BY <1>1
<1>6. Elements(stack) \subseteq Elements(modules)
      /\ Elements(sorted) \subseteq Elements(modules)
  BY <1>4, <1>5 DEF Elements
<1>7. ASSUME stack # << >>
      PROVE  Top \in Elements(modules)
  BY <1>7, <1>4, <1>1, FrontFacts DEF Top
<1>8. ASSUME stack # << >>, HasNextDependency
      PROVE  /\ cursor[Top] \in DOMAIN deps[Top]
             /\ NextDependency \in Elements(deps[Top])
             /\ NextDependency \in Elements(modules)
  <2>1. Top \in Module /\ deps[Top] \in Seq(Elements(modules))
    BY <1>8, <1>7, <1>2, <1>3
  <2>2. cursor[Top] \in Nat \ {0} /\ cursor[Top] <= Len(deps[Top])
    BY <1>8, <2>1 DEF TypeOK, HasNextDependency
  <2>3. cursor[Top] \in DOMAIN deps[Top]
    BY <2>1, <2>2
  <2>4. QED
    BY <2>1, <2>3, <1>3 DEF NextDependency, Elements
<1>9. QED
  BY <1>2, <1>3, <1>6, <1>7, <1>8

LEMMA FreshType == GraphOK /\ Fresh => TypeOK
<1> SUFFICES ASSUME GraphOK, Fresh PROVE TypeOK
  OBVIOUS
<1>1. \A m \in Module : 1 <= Len(deps[m]) + 1
  BY DEF GraphOK
<1>2. Len(modules) \in Nat
  BY DEF GraphOK
<1>3. 1 \in 1 .. Len(modules) + 1
  BY <1>2
<1>4. << >> \in Seq(Elements(modules))
  OBVIOUS
<1>5. /\ scan \in 1 .. Len(modules) + 1
      /\ stack \in Seq(Elements(modules))
      /\ sorted \in Seq(Elements(modules))
  BY <1>3, <1>4 DEF Fresh
<1>6. /\ cursor \in [Module -> Nat \ {0}]
      /\ \A m \in Module : cursor[m] <= Len(deps[m]) + 1
  BY <1>1 DEF Fresh
<1>7. QED
  BY <1>5, <1>6 DEF Fresh, TypeOK

LEMMA InitGraph == Init => GraphOK /\ Fresh
<1> SUFFICES ASSUME Init PROVE GraphOK
  BY DEF Init
<1>1. PICK g \in Graphs : modules = g.modules /\ deps = g.deps
  BY DEF Init
<1>2. IsModuleGraph(g)
  BY GraphsAssumption
<1>3. QED
  BY <1>1, <1>2 DEF IsModuleGraph, GraphOK, Elements

LEMMA InitType == Init => TypeOK
BY InitGraph, FreshType

\* No step touches the module graph.
LEMMA GraphIsConstant ==
  ASSUME [Next]_vars
  PROVE  /\ modules' = modules
         /\ deps' = deps
         /\ Elements(modules)' = Elements(modules)
         /\ GraphOK => GraphOK'
<1>1. modules' = modules /\ deps' = deps
  BY DEF Next, ResolveStep, SkipScanned, ScanModule, RestartScan, FinishScan,
         SkipDependency, VisitDependency, DetectCycle, FinishModule, Returned,
         vars, graph
<1>2. Elements(modules)' = Elements(modules)
  BY <1>1 DEF Elements
<1>3. GraphOK => GraphOK'
  BY <1>1, <1>2 DEF GraphOK
<1>4. QED
  BY <1>1, <1>2, <1>3

\* The type invariant is inductive.
LEMMA StepType == TypeOK /\ [Next]_vars => TypeOK'
<1> SUFFICES ASSUME TypeOK, [Next]_vars PROVE TypeOK'
  OBVIOUS
<1>0. /\ Elements(modules) \subseteq Module
      /\ \A m \in Module : /\ deps[m] \in Seq(Elements(modules))
                           /\ Len(deps[m]) \in Nat
      /\ Len(modules) \in Nat
      /\ stack \in Seq(Elements(modules))
      /\ sorted \in Seq(Elements(modules))
  <2>1. \A m \in Module : deps[m] \in Seq(Elements(modules))
    BY TypeFacts
  <2>2. \A m \in Module : Len(deps[m]) \in Nat
    BY <2>1
  <2>3. modules \in Seq(Module)
    BY DEF TypeOK, GraphOK
  <2>4. Len(modules) \in Nat
    BY <2>3
  <2>5. QED
    BY <2>1, <2>2, <2>4, TypeFacts DEF TypeOK
<1>u. /\ modules' = modules
      /\ deps' = deps
      /\ Elements(modules)' = Elements(modules)
      /\ GraphOK'
  BY GraphIsConstant DEF TypeOK
<1>1. CASE SkipScanned
  <2>1. scan' \in 1 .. Len(modules) + 1
    BY <1>1, <1>0 DEF SkipScanned, TypeOK
  <2>2. QED
    BY <1>1, <1>u, <2>1 DEF SkipScanned, TypeOK
<1>2. CASE ScanModule
  <2>1. modules[scan] \in Elements(modules) /\ modules[scan] \in Module
    <3>1. scan \in DOMAIN modules
      BY <1>2, <1>0 DEF ScanModule, TypeOK, GraphOK
    <3>2. QED
      BY <3>1, <1>0 DEF Elements
  <2>2. stack' \in Seq(Elements(modules))
    BY <1>2, <1>0, <2>1, AppendFacts DEF ScanModule, EnterModule
  <2>3. marks' \in [Module -> {"unmarked", "temp", "marked"}]
    BY <1>2 DEF ScanModule, EnterModule, TypeOK
  <2>4. cursor' \in [Module -> Nat \ {0}]
        /\ \A m \in Module : cursor'[m] <= Len(deps[m]) + 1
    <3>1. cursor' = [cursor EXCEPT ![modules[scan]] = 1]
      BY <1>2 DEF ScanModule, EnterModule
    <3>2. cursor \in [Module -> Nat \ {0}]
          /\ \A m \in Module : cursor[m] <= Len(deps[m]) + 1
      BY DEF TypeOK
    <3>3. QED
      BY <1>0, <2>1, <3>1, <3>2
  <2>5. scan' \in 1 .. Len(modules) + 1
    BY <1>2, <1>0 DEF ScanModule, TypeOK
  <2>6. QED
    BY <1>2, <1>u, <2>2, <2>3, <2>4, <2>5 DEF ScanModule, TypeOK
<1>3. CASE RestartScan
  <2>1. 1 \in 1 .. Len(modules) + 1
    BY <1>0
  <2>2. QED
    BY <1>3, <1>u, <2>1 DEF RestartScan, TypeOK
<1>4. CASE FinishScan
  BY <1>4, <1>u DEF FinishScan, TypeOK
<1>5. CASE SkipDependency
  <2>1. stack # << >> /\ HasNextDependency
    BY <1>5 DEF SkipDependency, Visiting
  <2>2. Top \in Module
    BY <2>1, <1>0, TypeFacts
  <2>3. cursor' \in [Module -> Nat \ {0}]
        /\ \A m \in Module : cursor'[m] <= Len(deps[m]) + 1
    BY <1>5, <1>0, <2>1, <2>2 DEF SkipDependency, TypeOK, HasNextDependency
  <2>4. QED
    BY <1>5, <1>u, <2>3 DEF SkipDependency, TypeOK
<1>6. CASE VisitDependency
  <2>1. stack # << >> /\ HasNextDependency
    BY <1>6 DEF VisitDependency, Visiting
  <2>2. Top \in Module /\ NextDependency \in Elements(modules)
        /\ NextDependency \in Module
    BY <2>1, <1>0, TypeFacts
  <2>3. cursor' \in [Module -> Nat \ {0}]
        /\ \A m \in Module : cursor'[m] <= Len(deps[m]) + 1
    <3>1. cursor' = [cursor EXCEPT ![Top] = @ + 1, ![NextDependency] = 1]
      BY <1>6 DEF VisitDependency
    <3>2. cursor \in [Module -> Nat \ {0}]
          /\ \A m \in Module : cursor[m] <= Len(deps[m]) + 1
      BY DEF TypeOK
    <3>3. cursor[Top] <= Len(deps[Top])
      BY <2>1 DEF HasNextDependency
    <3>4. DEFINE once == [cursor EXCEPT ![Top] = @ + 1]
    <3>5. once \in [Module -> Nat \ {0}]
          /\ \A m \in Module : once[m] <= Len(deps[m]) + 1
      BY <1>0, <2>2, <3>2, <3>3
    <3>6. cursor' = [once EXCEPT ![NextDependency] = 1]
      BY <3>1
    <3>7. HIDE DEF once
    <3>8. QED
      BY <1>0, <2>2, <3>5, <3>6
  <2>4. stack' \in Seq(Elements(modules))
    BY <1>6, <1>0, <2>2, AppendFacts DEF VisitDependency
  <2>5. marks' \in [Module -> {"unmarked", "temp", "marked"}]
    BY <1>6, <2>2 DEF VisitDependency, TypeOK
  <2>6. QED
    BY <1>6, <1>u, <2>3, <2>4, <2>5 DEF VisitDependency, TypeOK
<1>7. CASE DetectCycle
  <2>1. NextDependency \in Elements(modules)
    BY <1>7, TypeFacts DEF DetectCycle, Visiting
  <2>2. QED
    BY <1>7, <1>u, <2>1 DEF DetectCycle, TypeOK
<1>8. CASE FinishModule
  <2>1. stack # << >>
    BY <1>8 DEF FinishModule, Visiting
  <2>2. Top \in Elements(modules) /\ Top \in Module
    BY <2>1, <1>0, TypeFacts
  <2>3. stack' \in Seq(Elements(modules))
    BY <1>8, <1>0, <2>1, FrontFacts DEF FinishModule
  <2>4. sorted' \in Seq(Elements(modules))
    BY <1>8, <1>0, <2>2, AppendFacts DEF FinishModule
  <2>5. marks' \in [Module -> {"unmarked", "temp", "marked"}]
    BY <1>8, <2>2 DEF FinishModule, TypeOK
  <2>6. QED
    BY <1>8, <1>u, <2>3, <2>4, <2>5 DEF FinishModule, TypeOK
<1>9. CASE Returned \/ UNCHANGED vars
  BY <1>9, <1>u DEF Returned, vars, TypeOK
<1>10. QED
  BY <1>1, <1>2, <1>3, <1>4, <1>5, <1>6, <1>7, <1>8, <1>9
     DEF Next, ResolveStep

\* Every reachable state of the search is well typed.
THEOREM TypeCorrect == Spec => []TypeOK
<1>1. QED
  BY InitType, StepType, PTL DEF Spec
-----------------------------------------------------------------------------
\* A module reaches what it imports, and whatever is imported by what it
\* reaches.
LEMMA ReachesImport ==
  ASSUME NEW g, NEW a, NEW b \in Elements(g[a])
  PROVE  Reaches(g, a, b)
BY DEF Reaches

LEMMA ReachesExtends ==
  ASSUME NEW g, NEW a, NEW b, NEW c \in Elements(g[b]), Reaches(g, a, b)
  PROVE  Reaches(g, a, c)
<1> SUFFICES ASSUME NEW S \in SUBSET Module,
                    Elements(g[a]) \subseteq S, Closed(g, S)
             PROVE  c \in S
  BY DEF Reaches
<1>1. b \in S
  BY DEF Reaches
<1>2. QED
  BY <1>1 DEF Closed

\* However the graph came about: the search may begin.
LEMMA FreshSearch == GraphOK /\ Fresh => SearchInv
<1> SUFFICES ASSUME GraphOK, Fresh PROVE SearchInv
  OBVIOUS
<1>1. TypeOK
  BY FreshType
<1>2. /\ stack = << >> /\ sorted = << >> /\ outcome = "running" /\ scan = 1
      /\ marks = [m \in Module |-> "unmarked"]
  BY DEF Fresh
<1>3. Elements(stack) = {} /\ Elements(sorted) = {}
  BY <1>2 DEF Elements
<1>4. StackIsTempMarks /\ MarkedIsSorted
  BY <1>2, <1>3 DEF StackIsTempMarks, MarkedIsSorted
<1>5. PendingCalls /\ StackIsPath /\ ScannedIsMarked
  BY <1>2 DEF PendingCalls, StackIsPath, ScannedIsMarked
<1>6. DependenciesFirst /\ SortedIsComplete
  BY <1>2 DEF DependenciesFirst, SortedIsComplete
<1>7. QED
  BY <1>1, <1>2, <1>4, <1>5, <1>6 DEF SearchInv

LEMMA InitSearch == Init => SearchInv
BY InitGraph, FreshSearch

\* The steps that leave the stack, the marks and the sorted list alone.
LEMMA SkipScannedSearch ==
  ASSUME SearchInv, SkipScanned, TypeOK'
  PROVE  SearchInv'
<1> USE DEF SkipScanned, graph
<1>1. StackIsTempMarks' /\ MarkedIsSorted' /\ PendingCalls' /\ StackIsPath'
  BY DEF SearchInv, StackIsTempMarks, MarkedIsSorted, PendingCalls, StackIsPath
<1>2. ScannedIsMarked'
  BY DEF SearchInv, ScannedIsMarked, Scanning, TypeOK
<1>3. DependenciesFirst' /\ SortedIsComplete'
  BY DEF SearchInv, DependenciesFirst, SortedIsComplete
<1>4. (outcome = "cycle" => OnCycle(deps, culprit))'
  BY DEF SearchInv
<1>5. QED
  BY <1>1, <1>2, <1>3, <1>4 DEF SearchInv

LEMMA RestartScanSearch ==
  ASSUME SearchInv, RestartScan, TypeOK'
  PROVE  SearchInv'
<1> USE DEF RestartScan, graph
<1>1. StackIsTempMarks' /\ MarkedIsSorted' /\ PendingCalls' /\ StackIsPath'
  BY DEF SearchInv, StackIsTempMarks, MarkedIsSorted, PendingCalls, StackIsPath
<1>2. ScannedIsMarked'
  BY DEF ScannedIsMarked, Scanning
<1>3. DependenciesFirst' /\ SortedIsComplete'
  BY DEF SearchInv, DependenciesFirst, SortedIsComplete
<1>4. (outcome = "cycle" => OnCycle(deps, culprit))'
  BY DEF SearchInv
<1>5. QED
  BY <1>1, <1>2, <1>3, <1>4 DEF SearchInv

\* A scan that met no unmarked module has seen every module marked, and so
\* sorted.
LEMMA FinishScanSearch ==
  ASSUME SearchInv, FinishScan, TypeOK'
  PROVE  SearchInv'
<1> USE DEF FinishScan, graph
<1>1. StackIsTempMarks' /\ MarkedIsSorted' /\ PendingCalls' /\ StackIsPath'
  BY DEF SearchInv, StackIsTempMarks, MarkedIsSorted, PendingCalls, StackIsPath
<1>2. ScannedIsMarked' /\ DependenciesFirst'
  BY DEF SearchInv, ScannedIsMarked, DependenciesFirst
<1>3. SortedIsComplete'
  <2>1. Elements(modules) \subseteq Elements(sorted)
    <3> SUFFICES ASSUME NEW i \in DOMAIN modules
                 PROVE  modules[i] \in Elements(sorted)
      BY DEF Elements
    <3>1. i \in 1 .. scan - 1 /\ modules[i] \in Module
      BY DEF SearchInv, TypeOK, GraphOK
    <3>2. marks[modules[i]] = "marked"
      BY <3>1 DEF SearchInv, ScannedIsMarked
    <3>3. QED
      BY <3>1, <3>2 DEF SearchInv, MarkedIsSorted
  <2>2. Elements(sorted) = Elements(modules)
    BY <2>1, TypeFacts DEF SearchInv
  <2>3. Elements(sorted)' = Elements(modules)'
    BY <2>2 DEF Elements
  <2>4. QED
    BY <2>3 DEF SearchInv, SortedIsComplete
<1>4. (outcome = "cycle" => OnCycle(deps, culprit))'
  OBVIOUS
<1>5. QED
  BY <1>1, <1>2, <1>3, <1>4 DEF SearchInv

LEMMA SkipDependencySearch ==
  ASSUME SearchInv, SkipDependency, TypeOK'
  PROVE  SearchInv'
<1> USE DEF SkipDependency, graph
<1>1. StackIsTempMarks' /\ MarkedIsSorted' /\ StackIsPath'
  BY DEF SearchInv, StackIsTempMarks, MarkedIsSorted, StackIsPath
<1>2. PendingCalls'
  <2> SUFFICES ASSUME NEW i \in DOMAIN stack,
                      NEW j \in 1 .. cursor'[stack[i]] - 1
               PROVE  \/ marks[deps[stack[i]][j]] = "marked"
                      \/ i < Len(stack) /\ deps[stack[i]][j] = stack[i + 1]
    BY DEF PendingCalls
  <2>1. Top \in Module /\ stack[i] \in Module /\ cursor \in [Module -> Nat \ {0}]
    BY TypeFacts DEF SearchInv, TypeOK, Visiting, Elements
  <2>2. CASE j \in 1 .. cursor[stack[i]] - 1
    BY <2>2 DEF SearchInv, PendingCalls
  <2>3. CASE j \notin 1 .. cursor[stack[i]] - 1
    <3>1. stack[i] = Top /\ j = cursor[Top]
      BY <2>1, <2>3
    <3>2. QED
      BY <3>1 DEF NextDependency
  <2>4. QED
    BY <2>2, <2>3
<1>3. ScannedIsMarked' /\ DependenciesFirst' /\ SortedIsComplete'
  BY DEF SearchInv, ScannedIsMarked, DependenciesFirst, SortedIsComplete
<1>4. (outcome = "cycle" => OnCycle(deps, culprit))'
  BY DEF SearchInv
<1>5. QED
  BY <1>1, <1>2, <1>3, <1>4 DEF SearchInv

\* The dependency that closes a cycle has a pending call: it reaches the
\* module on top of the stack, or is that module.
LEMMA DetectCycleSearch ==
  ASSUME SearchInv, DetectCycle, TypeOK'
  PROVE  SearchInv'
<1> USE DEF DetectCycle, graph
<1>1. StackIsTempMarks' /\ MarkedIsSorted' /\ PendingCalls' /\ StackIsPath'
  BY DEF SearchInv, StackIsTempMarks, MarkedIsSorted, PendingCalls, StackIsPath
<1>2. ScannedIsMarked' /\ DependenciesFirst' /\ SortedIsComplete'
  BY DEF SearchInv, ScannedIsMarked, DependenciesFirst, SortedIsComplete
<1>3. OnCycle(deps, NextDependency)
  <2>1. stack # << >> /\ NextDependency \in Elements(deps[Top])
        /\ NextDependency \in Module /\ stack \in Seq(Elements(modules))
    BY TypeFacts DEF SearchInv, TypeOK, Visiting
  <2>2. PICK i \in DOMAIN stack : stack[i] = NextDependency
    BY <2>1 DEF SearchInv, StackIsTempMarks, Elements
  <2>3. CASE i = Len(stack)
    BY <2>1, <2>2, <2>3, ReachesImport DEF Top, OnCycle
  <2>4. CASE i < Len(stack)
    <3>1. Len(stack) \in DOMAIN stack
      BY <2>1
    <3>2. Reaches(deps, NextDependency, Top)
      BY <2>2, <2>4, <3>1 DEF SearchInv, StackIsPath, Top
    <3>3. QED
      BY <2>1, <3>2, ReachesExtends DEF OnCycle
  <2>5. QED
    BY <2>1, <2>3, <2>4
<1>4. (outcome = "cycle" => OnCycle(deps, culprit))'
  BY <1>3
<1>5. QED
  BY <1>1, <1>2, <1>3, <1>4 DEF SearchInv

\* Entering a module from the scan: the stack holds that module alone.
LEMMA ScanModuleSearch ==
  ASSUME SearchInv, ScanModule, TypeOK'
  PROVE  SearchInv'
<1> DEFINE m == modules[scan]
<1>1. /\ stack = << >> /\ m \in Elements(modules) /\ m \in Module
      /\ marks[m] = "unmarked"
  <2>1. modules \in Seq(Module) /\ scan \in DOMAIN modules
    BY DEF SearchInv, TypeOK, GraphOK, ScanModule
  <2>2. QED
    BY <2>1 DEF ScanModule, EnterModule, Scanning, Elements
<1>2. /\ stack' = <<m>>
      /\ marks' = [marks EXCEPT ![m] = "temp"]
      /\ cursor' = [cursor EXCEPT ![m] = 1]
      /\ modules' = modules /\ deps' = deps /\ sorted' = sorted
      /\ outcome' = outcome /\ culprit' = culprit /\ unmarkedFound' = TRUE
  BY <1>1 DEF ScanModule, EnterModule, graph
<1>3. /\ marks \in [Module -> {"unmarked", "temp", "marked"}]
      /\ cursor \in [Module -> Nat \ {0}]
  BY DEF SearchInv, TypeOK
<1> HIDE DEF m
<1>4. Elements(stack) = {} /\ Elements(stack)' = {m}
  BY <1>1, <1>2 DEF Elements
<1>5. StackIsTempMarks'
  BY <1>1, <1>2, <1>3, <1>4 DEF SearchInv, StackIsTempMarks
<1>6. PendingCalls'
  <2>1. cursor'[stack'[1]] = 1 /\ DOMAIN stack' = {1}
    BY <1>1, <1>2, <1>3
  <2>2. QED
    BY <2>1 DEF PendingCalls
<1>7. StackIsPath'
  BY <1>2 DEF StackIsPath
<1>8. MarkedIsSorted'
  <2>1. Elements(sorted)' = Elements(sorted)
    BY <1>2 DEF Elements
  <2>2. QED
    BY <2>1, <1>1, <1>2, <1>3 DEF SearchInv, MarkedIsSorted
<1>9. ScannedIsMarked' /\ DependenciesFirst' /\ SortedIsComplete'
  BY <1>2 DEF SearchInv, ScannedIsMarked, DependenciesFirst, SortedIsComplete
<1>10. (outcome = "cycle" => OnCycle(deps, culprit))'
  BY <1>2 DEF SearchInv
<1>11. QED
  BY <1>5, <1>6, <1>7, <1>8, <1>9, <1>10 DEF SearchInv

\* Entering a dependency: the stack grows by a module its top imports.
LEMMA VisitDependencySearch ==
  ASSUME SearchInv, VisitDependency, TypeOK'
  PROVE  SearchInv'
<1> DEFINE d == NextDependency
           n == Len(stack)
<1>1. /\ stack \in Seq(Elements(modules)) /\ stack # << >>
      /\ Top \in Module /\ d \in Elements(modules) /\ d \in Module
      /\ d \in Elements(deps[Top])
      /\ marks[d] = "unmarked" /\ outcome = "running"
  BY TypeFacts DEF SearchInv, TypeOK, VisitDependency, Visiting
<1>2. /\ stack' = Append(stack, d)
      /\ marks' = [marks EXCEPT ![d] = "temp"]
      /\ cursor' = [cursor EXCEPT ![Top] = @ + 1, ![d] = 1]
      /\ modules' = modules /\ deps' = deps /\ sorted' = sorted
      /\ outcome' = outcome /\ culprit' = culprit
      /\ unmarkedFound' = unmarkedFound /\ scan' = scan
  BY DEF VisitDependency, graph
<1>3. /\ marks \in [Module -> {"unmarked", "temp", "marked"}]
      /\ cursor \in [Module -> Nat \ {0}]
      /\ n \in Nat \ {0} /\ DOMAIN stack = 1 .. n
      /\ \A i \in DOMAIN stack : stack[i] \in Module
  BY <1>1, TypeFacts DEF SearchInv, TypeOK, Elements
<1>4. d = deps[Top][cursor[Top]] /\ Top = stack[n]
  BY DEF NextDependency, Top
<1> HIDE DEF d, n
<1>5. /\ Len(stack') = n + 1 /\ DOMAIN stack' = 1 .. n + 1
      /\ \A i \in 1 .. n : stack'[i] = stack[i]
      /\ stack'[n + 1] = d
      /\ Elements(stack') = Elements(stack) \cup {d}
  BY <1>1, <1>2, <1>3, AppendFacts DEF n
<1>6. d \notin Elements(stack) /\ \A i \in 1 .. n : stack[i] # d
  <2>1. d \notin Elements(stack)
    BY <1>1 DEF SearchInv, StackIsTempMarks
  <2>2. QED
    BY <2>1, <1>3 DEF Elements
<1>7. StackIsTempMarks'
  <2>1. \A i, j \in DOMAIN stack' : stack'[i] = stack'[j] => i = j
    <3>1. \A i, j \in 1 .. n : stack[i] = stack[j] => i = j
      BY <1>3 DEF SearchInv, StackIsTempMarks
    <3>2. QED
      BY <3>1, <1>3, <1>5, <1>6
  <2>2. Elements(stack)' = Elements(stack) \cup {d}
    BY <1>5 DEF Elements
  <2>3. \A x \in Module : marks'[x] = "temp" <=> x \in Elements(stack)'
    BY <2>2, <1>1, <1>2, <1>3 DEF SearchInv, StackIsTempMarks
  <2>4. QED
    BY <2>1, <2>3 DEF StackIsTempMarks
<1>8. PendingCalls'
  <2> SUFFICES ASSUME NEW i \in DOMAIN stack',
                      NEW j \in 1 .. cursor'[stack'[i]] - 1
               PROVE  \/ marks'[deps[stack'[i]][j]] = "marked"
                      \/ i < Len(stack') /\ deps[stack'[i]][j] = stack'[i + 1]
    BY <1>2 DEF PendingCalls
  <2>1. CASE i = n + 1
    <3>1. cursor'[d] = 1
      BY <1>1, <1>2, <1>3
    <3>2. QED
      BY <2>1, <3>1, <1>5
  <2>2. CASE i = n /\ j = cursor[Top]
    BY <2>2, <1>3, <1>4, <1>5
  <2>3. CASE i \in 1 .. n /\ ~(i = n /\ j = cursor[Top])
    <3>1. stack'[i] = stack[i] /\ stack[i] # d /\ stack[i] \in Module
      BY <2>3, <1>3, <1>5, <1>6
    <3>2. \/ cursor'[stack[i]] = cursor[stack[i]]
          \/ stack[i] = Top /\ cursor'[stack[i]] = cursor[stack[i]] + 1
      BY <3>1, <1>1, <1>2, <1>3
    <3>3. stack[i] = Top => i = n
      BY <2>3, <1>3, <1>4 DEF SearchInv, StackIsTempMarks
    <3>4. j \in 1 .. cursor[stack[i]] - 1
      BY <3>1, <3>2, <3>3, <2>3, <1>1, <1>3
    <3>5. \/ marks[deps[stack[i]][j]] = "marked"
          \/ i < n /\ deps[stack[i]][j] = stack[i + 1]
      BY <3>4, <2>3, <1>3 DEF SearchInv, PendingCalls, n
    <3>6. marks[deps[stack[i]][j]] = "marked"
            => marks'[deps[stack[i]][j]] = "marked"
      <4>1. /\ deps[stack[i]] \in Seq(Elements(modules))
            /\ cursor[stack[i]] <= Len(deps[stack[i]]) + 1
            /\ cursor[stack[i]] \in Nat
        BY <3>1, <1>3, TypeFacts DEF SearchInv, TypeOK
      <4>2. j \in 1 .. Len(deps[stack[i]])
        BY <4>1, <3>4
      <4>3. deps[stack[i]][j] \in Module
        BY <4>1, <4>2, TypeFacts DEF SearchInv
      <4>4. QED
        BY <4>3, <1>1, <1>2, <1>3
    <3>7. QED
      BY <3>1, <3>5, <3>6, <2>3, <1>3, <1>5
  <2>4. QED
    BY <2>1, <2>2, <2>3, <1>3, <1>5
<1>9. StackIsPath'
  <2> SUFFICES ASSUME NEW i \in 1 .. n + 1, NEW j \in 1 .. n + 1, i < j
               PROVE  Reaches(deps, stack'[i], stack'[j])
    BY <1>2, <1>5 DEF StackIsPath
  <2>1. CASE j \in 1 .. n
    BY <2>1, <1>3, <1>5 DEF SearchInv, StackIsPath
  <2>2. CASE j = n + 1
    <3>1. CASE i = n
      BY <3>1, <2>2, <1>1, <1>3, <1>4, <1>5, ReachesImport
    <3>2. CASE i < n
      <4>1. Reaches(deps, stack[i], Top)
        BY <3>2, <1>3, <1>4 DEF SearchInv, StackIsPath
      <4>2. QED
        BY <4>1, <3>2, <2>2, <1>1, <1>3, <1>5, ReachesExtends
    <3>3. QED
      BY <3>1, <3>2, <2>2, <1>3
  <2>3. QED
    BY <2>1, <2>2, <1>3
<1>10. MarkedIsSorted'
  <2>1. Elements(sorted)' = Elements(sorted)
    BY <1>2 DEF Elements
  <2>2. QED
    BY <2>1, <1>1, <1>2, <1>3 DEF SearchInv, MarkedIsSorted
<1>11. ScannedIsMarked' /\ DependenciesFirst' /\ SortedIsComplete'
  <2>1. ScannedIsMarked'
    BY <1>1, <1>2 DEF SearchInv, ScannedIsMarked
  <2>2. DependenciesFirst'
    BY <1>2 DEF SearchInv, DependenciesFirst
  <2>3. SortedIsComplete'
    BY <1>1, <1>2 DEF SearchInv, SortedIsComplete
  <2>4. QED
    BY <2>1, <2>2, <2>3
<1>12. (outcome = "cycle" => OnCycle(deps, culprit))'
  BY <1>2 DEF SearchInv
<1>13. QED
  BY <1>7, <1>8, <1>9, <1>10, <1>11, <1>12 DEF SearchInv

\* A call that returns: its module goes to the tail of the sorted list, behind
\* all its dependencies, and its caller is on top of the stack again.
LEMMA FinishModuleSearch ==
  ASSUME SearchInv, FinishModule, TypeOK'
  PROVE  SearchInv'
<1> DEFINE m == Top
           n == Len(stack)
           k == Len(sorted)
<1>1. /\ stack \in Seq(Elements(modules)) /\ stack # << >>
      /\ sorted \in Seq(Elements(modules))
      /\ m \in Elements(modules) /\ m \in Module /\ outcome = "running"
  BY TypeFacts DEF SearchInv, TypeOK, FinishModule, Visiting
<1>2. /\ stack' = SubSeq(stack, 1, n - 1)
      /\ marks' = [marks EXCEPT ![m] = "marked"]
      /\ sorted' = Append(sorted, m)
      /\ modules' = modules /\ deps' = deps /\ cursor' = cursor
      /\ outcome' = outcome /\ culprit' = culprit
      /\ unmarkedFound' = unmarkedFound /\ scan' = scan
  BY DEF FinishModule, graph
<1>3. /\ marks \in [Module -> {"unmarked", "temp", "marked"}]
      /\ n \in Nat \ {0} /\ DOMAIN stack = 1 .. n
      /\ k \in Nat /\ DOMAIN sorted = 1 .. k
      /\ \A i \in DOMAIN stack : stack[i] \in Module
      /\ m = stack[n]
  BY <1>1, TypeFacts DEF SearchInv, TypeOK, Elements, Top
<1>4. /\ \A j \in DOMAIN deps[m] : j \in 1 .. cursor[m] - 1
      /\ deps[m] \in Seq(Elements(modules))
  <2>1. deps[m] \in Seq(Elements(modules)) /\ cursor[m] \in Nat
    BY <1>1, TypeFacts DEF SearchInv, TypeOK
  <2>2. cursor[m] > Len(deps[m])
    BY <2>1 DEF FinishModule, HasNextDependency
  <2>3. QED
    BY <2>1, <2>2
<1>4a. \A i, j \in 1 .. n : stack[i] = stack[j] => i = j
  BY <1>3 DEF SearchInv, StackIsTempMarks
<1> HIDE DEF m, n, k
<1>5. /\ DOMAIN stack' = 1 .. n - 1 /\ Len(stack') = n - 1
      /\ \A i \in 1 .. n - 1 : stack'[i] = stack[i]
  BY <1>1, <1>2, FrontFacts DEF n
<1>6. /\ DOMAIN sorted' = 1 .. k + 1 /\ Len(sorted') = k + 1
      /\ \A i \in 1 .. k : sorted'[i] = sorted[i]
      /\ sorted'[k + 1] = m
      /\ Elements(sorted') = Elements(sorted) \cup {m}
  BY <1>1, <1>2, <1>3, AppendFacts DEF k
<1>7. Elements(stack') = Elements(stack) \ {m}
  <2>1. ASSUME NEW x \in Elements(stack') PROVE x \in Elements(stack) \ {m}
    <3>1. PICK i \in 1 .. n - 1 : x = stack'[i]
      BY <1>5, <2>1 DEF Elements
    <3>2. x = stack[i] /\ i \in 1 .. n /\ i # n
      BY <3>1, <1>3, <1>5
    <3>3. x # m
      BY <3>2, <1>3, <1>4a
    <3>4. QED
      BY <3>2, <3>3, <1>3 DEF Elements
  <2>2. ASSUME NEW x \in Elements(stack) \ {m} PROVE x \in Elements(stack')
    <3>1. PICK i \in 1 .. n : x = stack[i]
      BY <1>3, <2>2 DEF Elements
    <3>2. i # n
      BY <3>1, <2>2, <1>3
    <3>3. i \in DOMAIN stack' /\ x = stack'[i]
      BY <3>1, <3>2, <1>3, <1>5
    <3>4. QED
      BY <3>3 DEF Elements
  <2>3. QED
    BY <2>1, <2>2
<1>8. StackIsTempMarks'
  <2>1. \A i, j \in DOMAIN stack' : stack'[i] = stack'[j] => i = j
    BY <1>3, <1>4a, <1>5
  <2>2. \A x \in Module : marks'[x] = "temp" <=> x \in Elements(stack')
    BY <1>1, <1>2, <1>3, <1>7 DEF SearchInv, StackIsTempMarks
  <2>3. QED
    BY <2>1, <2>2 DEF StackIsTempMarks
<1>9. MarkedIsSorted'
  BY <1>1, <1>2, <1>3, <1>6 DEF SearchInv, MarkedIsSorted
<1>10. \A d \in Elements(deps[m]) : marks[d] = "marked"
  <2> SUFFICES ASSUME NEW j \in DOMAIN deps[m]
               PROVE  marks[deps[m][j]] = "marked"
    BY DEF Elements
  <2>1. j \in 1 .. cursor[stack[n]] - 1 /\ n \in DOMAIN stack
    BY <1>3, <1>4
  <2>2. QED
    BY <2>1, <1>3 DEF SearchInv, PendingCalls, n
<1>11. PendingCalls'
  <2> SUFFICES ASSUME NEW i \in 1 .. n - 1,
                      NEW j \in 1 .. cursor[stack[i]] - 1
               PROVE  \/ marks'[deps[stack[i]][j]] = "marked"
                      \/ i < n - 1 /\ deps[stack[i]][j] = stack'[i + 1]
    <3>1. PendingCalls'
            <=> \A i \in DOMAIN stack' : \A j \in 1 .. cursor[stack'[i]] - 1 :
                  \/ marks'[deps[stack'[i]][j]] = "marked"
                  \/ i < Len(stack') /\ deps[stack'[i]][j] = stack'[i + 1]
      BY <1>2 DEF PendingCalls
    <3>2. QED
      BY <3>1, <1>5
  <2>1. /\ deps[stack[i]] \in Seq(Elements(modules))
        /\ cursor[stack[i]] <= Len(deps[stack[i]]) + 1
        /\ cursor[stack[i]] \in Nat
    <3>1. stack[i] \in Module
      BY <1>3
    <3>2. QED
      BY <3>1, TypeFacts DEF SearchInv, TypeOK
  <2>2. j \in 1 .. Len(deps[stack[i]])
    BY <2>1
  <2>3. deps[stack[i]][j] \in Module
    BY <2>1, <2>2, TypeFacts DEF SearchInv
  <2>4. \/ marks[deps[stack[i]][j]] = "marked"
        \/ i < n /\ deps[stack[i]][j] = stack[i + 1]
    BY <1>3 DEF SearchInv, PendingCalls, n
  <2>5. CASE marks[deps[stack[i]][j]] = "marked"
    BY <2>5, <2>3, <1>1, <1>2, <1>3
  <2>6. CASE deps[stack[i]][j] = stack[i + 1]
    <3>1. CASE i = n - 1
      BY <3>1, <2>6, <1>1, <1>2, <1>3
    <3>2. CASE i < n - 1
      BY <3>2, <2>6, <1>3, <1>5
    <3>3. QED
      BY <3>1, <3>2, <1>3
  <2>7. QED
    BY <2>4, <2>5, <2>6
<1>12. StackIsPath'
  <2> SUFFICES ASSUME NEW i \in 1 .. n - 1, NEW j \in 1 .. n - 1, i < j
               PROVE  Reaches(deps, stack[i], stack[j])
    BY <1>2, <1>5 DEF StackIsPath
  <2>1. QED
    BY <1>3 DEF SearchInv, StackIsPath
<1>13. ScannedIsMarked'
  BY <1>1, <1>2 DEF SearchInv, ScannedIsMarked
<1>14. DependenciesFirst'
  <2> SUFFICES ASSUME NEW i \in 1 .. k + 1, NEW d \in Elements(deps[sorted'[i]])
               PROVE  \E j \in 1 .. i - 1 : sorted'[j] = d
    BY <1>2, <1>6 DEF DependenciesFirst
  <2>1. CASE i \in 1 .. k
    <3>1. PICK j \in 1 .. i - 1 : sorted[j] = d
      BY <2>1, <1>3, <1>6 DEF SearchInv, DependenciesFirst
    <3>2. QED
      BY <3>1, <2>1, <1>3, <1>6
  <2>2. CASE i = k + 1
    <3>1. d \in Elements(deps[m])
      BY <2>2, <1>6
    <3>2. d \in Module
      BY <3>1, <1>1, TypeFacts DEF SearchInv
    <3>3. d \in Elements(sorted)
      BY <3>1, <3>2, <1>10 DEF SearchInv, MarkedIsSorted
    <3>4. PICK j \in 1 .. k : sorted[j] = d
      BY <3>3, <1>3 DEF Elements
    <3>5. QED
      BY <3>4, <2>2, <1>3, <1>6
  <2>3. QED
    BY <2>1, <2>2, <1>3
<1>15. SortedIsComplete'
  <2>1. m \notin Elements(sorted)
    <3>1. marks[m] = "temp"
      BY <1>1, <1>3 DEF SearchInv, StackIsTempMarks, Elements
    <3>2. QED
      BY <3>1, <1>1 DEF SearchInv, MarkedIsSorted
  <2>2. \A i \in 1 .. k : sorted[i] # m
    BY <2>1, <1>3 DEF Elements
  <2>3. \A i, j \in 1 .. k : sorted[i] = sorted[j] => i = j
    BY <1>3 DEF SearchInv, SortedIsComplete
  <2>4. \A i, j \in DOMAIN sorted' : sorted'[i] = sorted'[j] => i = j
    BY <2>2, <2>3, <1>3, <1>6
  <2>5. QED
    BY <2>4, <1>1, <1>2 DEF SortedIsComplete
<1>16. (outcome = "cycle" => OnCycle(deps, culprit))'
  BY <1>2 DEF SearchInv
<1>17. QED
  BY <1>8, <1>9, <1>11, <1>12, <1>13, <1>14, <1>15, <1>16 DEF SearchInv

\* The search invariant is inductive.
LEMMA StepSearch == SearchInv /\ [Next]_vars => SearchInv'
<1> SUFFICES ASSUME SearchInv, [Next]_vars PROVE SearchInv'
  OBVIOUS
<1>1. TypeOK'
  BY StepType DEF SearchInv
<1>2. CASE ResolveStep
  BY <1>1, <1>2, SkipScannedSearch, ScanModuleSearch, RestartScanSearch,
     FinishScanSearch, SkipDependencySearch, VisitDependencySearch,
     DetectCycleSearch, FinishModuleSearch DEF ResolveStep
<1>3. CASE Returned \/ UNCHANGED vars
  <2>1. UNCHANGED vars
    BY <1>3 DEF Returned
  <2>2. StackIsTempMarks' /\ MarkedIsSorted' /\ PendingCalls' /\ StackIsPath'
    BY <2>1 DEF vars, SearchInv, StackIsTempMarks, MarkedIsSorted,
                PendingCalls, StackIsPath
  <2>3. ScannedIsMarked' /\ DependenciesFirst' /\ SortedIsComplete'
    BY <2>1 DEF vars, SearchInv, ScannedIsMarked, DependenciesFirst,
                SortedIsComplete
  <2>4. (outcome = "cycle" => OnCycle(deps, culprit))'
    BY <2>1 DEF vars, SearchInv
  <2>5. QED
    BY <1>1, <2>2, <2>3, <2>4 DEF SearchInv
<1>4. QED
  BY <1>2, <1>3 DEF Next

\* The invariant the search maintains, for every module graph.
THEOREM SearchCorrect == Spec => []SearchInv
<1>1. QED
  BY InitSearch, StepSearch, PTL DEF Spec

\* The list handed to compiler_analyze() and compiler_create_rir() has every
\* module behind all the modules it depends on.
THEOREM OrderCorrect == Spec => []DependenciesFirst
<1>1. SearchInv => DependenciesFirst
  BY DEF SearchInv
<1>2. QED
  BY <1>1, SearchCorrect, PTL

\* No module is sorted twice and, on success, none is left out.
THEOREM OrderComplete == Spec => []SortedIsComplete
<1>1. SearchInv => SortedIsComplete
  BY DEF SearchInv
<1>2. QED
  BY <1>1, SearchCorrect, PTL

\* A complete list in which dependencies come first leaves no room for a
\* cycle: the modules before m are closed under imports, hold all m imports,
\* and do not hold m.
LEMMA OrderedIsAcyclic ==
  ASSUME SearchInv, outcome = "sorted", NEW m \in Elements(modules)
  PROVE  ~OnCycle(deps, m)
<1>1. PICK i \in DOMAIN sorted : sorted[i] = m
  BY DEF SearchInv, SortedIsComplete, Elements
<1>2. DOMAIN sorted = 1 .. Len(sorted) /\ Len(sorted) \in Nat
  BY DEF SearchInv, TypeOK
<1> DEFINE before == {sorted[k] : k \in 1 .. i - 1}
<1>3. before \in SUBSET Module
  BY <1>1, <1>2, TypeFacts DEF SearchInv, Elements
<1>4. Closed(deps, before)
  <2> SUFFICES ASSUME NEW k \in 1 .. i - 1, NEW d \in Elements(deps[sorted[k]])
               PROVE  d \in before
    BY DEF Closed
  <2>0. k \in DOMAIN sorted
    BY <1>2
  <2>1. PICK j \in 1 .. k - 1 : sorted[j] = d
    BY <2>0 DEF SearchInv, DependenciesFirst
  <2>2. j \in 1 .. i - 1
    BY <1>2
  <2>3. QED
    BY <2>1, <2>2
<1>5. Elements(deps[m]) \subseteq before
  BY <1>1 DEF SearchInv, DependenciesFirst
<1>6. m \notin before
  BY <1>1, <1>2 DEF SearchInv, SortedIsComplete
<1>7. QED
  BY <1>3, <1>4, <1>5, <1>6 DEF OnCycle, Reaches

\* A cycle is reported exactly when there is one.
THEOREM VerdictCorrect == Spec => []VerdictIsRight
<1>1. SearchInv => VerdictIsRight
  BY OrderedIsAcyclic DEF VerdictIsRight, SearchInv
<1>2. QED
  BY <1>1, SearchCorrect, PTL
-----------------------------------------------------------------------------
\* Every step of the search is a step of the abstract build order or leaves it
\* alone: only a returning call places a module.
LEMMA StepImplements ==
  ASSUME SearchInv, [Next]_vars
  PROVE  [Abstract!Next]_(Abstract!bvars)
<1> USE DEF graph
<1>1. CASE SkipScanned \/ ScanModule \/ RestartScan \/ SkipDependency
           \/ VisitDependency \/ Returned \/ UNCHANGED vars
  <2>1. UNCHANGED <<modules, deps, sorted, outcome>>
    BY <1>1 DEF SkipScanned, ScanModule, RestartScan, SkipDependency,
                VisitDependency, Returned, vars
  <2>2. QED
    BY <2>1 DEF Abstract!bvars
<1>2. CASE FinishScan
  <2>1. outcome = "running" /\ outcome' = "sorted"
        /\ UNCHANGED <<modules, deps, sorted>>
    BY <1>2 DEF FinishScan, Scanning
  <2>2. SearchInv'
    BY StepSearch
  <2>3. Elements(sorted) = Elements(modules)
    <3>1. (Elements(sorted) = Elements(modules))'
      BY <2>1, <2>2 DEF SearchInv, SortedIsComplete
    <3>2. QED
      BY <2>1, <3>1 DEF Elements
  <2>4. Abstract!Accept
    BY <2>1, <2>3 DEF Abstract!Accept, Abstract!Elements, Elements
  <2>5. QED
    BY <2>4 DEF Abstract!Next
<1>3. CASE DetectCycle
  <2>1. outcome = "running" /\ outcome' = "cycle" /\ culprit' = NextDependency
        /\ UNCHANGED <<modules, deps, sorted>>
    BY <1>3 DEF DetectCycle, Visiting
  <2>2. OnCycle(deps, NextDependency) /\ NextDependency \in Elements(modules)
    <3>1. SearchInv'
      BY StepSearch
    <3>2. QED
      BY <2>1, <3>1, <1>3, TypeFacts DEF SearchInv, DetectCycle, Visiting
  <2>3. Abstract!Refuse(NextDependency)
    BY <2>1, <2>2 DEF Abstract!Refuse, Abstract!OnCycle, Abstract!Reaches,
       Abstract!Closed, Abstract!Elements, OnCycle, Reaches, Closed, Elements
  <2>4. NextDependency \in Abstract!Elements(modules)
    BY <2>2 DEF Abstract!Elements, Elements
  <2>5. QED
    BY <2>3, <2>4 DEF Abstract!Next
<1>4. CASE FinishModule
  <2>1. outcome = "running" /\ sorted' = Append(sorted, Top)
        /\ UNCHANGED <<modules, deps, outcome>>
    BY <1>4 DEF FinishModule, Visiting
  <2>2. Top \in Elements(modules) /\ sorted \in Seq(Elements(modules))
    BY <1>4, TypeFacts DEF SearchInv, TypeOK, FinishModule, Visiting
  <2>3. SearchInv'
    BY StepSearch
  <2>4. /\ Len(sorted) \in Nat
        /\ DOMAIN sorted = 1 .. Len(sorted)
        /\ DOMAIN sorted' = 1 .. Len(sorted) + 1
        /\ \A i \in 1 .. Len(sorted) : sorted'[i] = sorted[i]
        /\ sorted'[Len(sorted) + 1] = Top
    BY <2>1, <2>2, AppendFacts
  <2>5. Top \notin Elements(sorted)
    BY <2>3, <2>4 DEF SearchInv, SortedIsComplete, Elements
  <2>6. Elements(deps[Top]) \subseteq Elements(sorted)
    <3> SUFFICES ASSUME NEW d \in Elements(deps[Top])
                 PROVE  d \in Elements(sorted)
      OBVIOUS
    <3>1. DependenciesFirst'
      BY <2>3 DEF SearchInv
    <3> DEFINE last == Len(sorted) + 1
    <3>a. last \in DOMAIN sorted' /\ d \in Elements(deps'[sorted'[last]])
      BY <2>1, <2>4
    <3>b. \A i \in DOMAIN sorted' : \A e \in Elements(deps'[sorted'[i]]) :
            \E j \in 1 .. i - 1 : sorted'[j] = e
      BY <3>1 DEF DependenciesFirst, Elements
    <3>2. \E j \in 1 .. last - 1 : sorted'[j] = d
      BY <3>a, <3>b
    <3>3. PICK j \in 1 .. Len(sorted) : sorted'[j] = d
      BY <2>4, <3>2
    <3>4. QED
      BY <3>3, <2>4 DEF Elements
  <2>7. Abstract!Place(Top)
    BY <2>1, <2>5, <2>6 DEF Abstract!Place, Abstract!Elements, Elements
  <2>8. QED
    BY <2>2, <2>7 DEF Abstract!Next, Abstract!Elements, Elements
<1>5. QED
  BY <1>1, <1>2, <1>3, <1>4 DEF Next, ResolveStep

\* compiler_resolve_dependencies() implements the abstract build order.
THEOREM Implementation == Spec => ImplementsBuildOrder
<1>1. Init => Abstract!Init
  BY DEF Init, Fresh, Abstract!Init
<1>2. SearchInv /\ [Next]_vars => [Abstract!Next]_(Abstract!bvars)
  BY StepImplements
<1>3. QED
  BY <1>1, <1>2, SearchCorrect, PTL DEF Spec, ImplementsBuildOrder, Abstract!Spec
=============================================================================
