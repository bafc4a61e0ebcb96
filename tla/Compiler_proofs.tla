--------------------------- MODULE Compiler_proofs --------------------------
(***************************************************************************)
(* Proofs about the driver, for every command line, every content of the   *)
(* files and every verdict of the phases: what a phase needs of the ones   *)
(* before it is there. The sort of the modules is used by its theorems     *)
(* (DependencySort_proofs).                                                *)
(***************************************************************************)
EXTENDS Compiler, Positions, TLAPS

SP == INSTANCE DependencySort_proofs WITH Graphs <- {}
-----------------------------------------------------------------------------
(* The sort *)

\* The search may begin on any graph of modules, and keeps what it maintains.
LEMMA SortBegins == Sort!Fresh /\ Sort!GraphOK => Sort!SearchInv
<1>1. Sort!Fresh /\ Sort!GraphOK => SP!Fresh /\ SP!GraphOK
  BY DEF Sort!Fresh, SP!Fresh, Sort!GraphOK, SP!GraphOK, Sort!Elements, SP!Elements
<1>2. SP!SearchInv => Sort!SearchInv
  BY DEF Sort!SearchInv, SP!SearchInv, Sort!TypeOK, SP!TypeOK, Sort!GraphOK,
         SP!GraphOK, Sort!StackIsTempMarks, SP!StackIsTempMarks,
         Sort!PendingCalls, SP!PendingCalls, Sort!StackIsPath, SP!StackIsPath,
         Sort!MarkedIsSorted, SP!MarkedIsSorted, Sort!ScannedIsMarked,
         SP!ScannedIsMarked, Sort!DependenciesFirst, SP!DependenciesFirst,
         Sort!SortedIsComplete, SP!SortedIsComplete, Sort!OnCycle, SP!OnCycle,
         Sort!Reaches, SP!Reaches, Sort!Closed, SP!Closed, Sort!Elements,
         SP!Elements
<1>. QED
  BY <1>1, <1>2, SP!FreshSearch, SentinelsAssumption

LEMMA SortGoesOn ==
  ASSUME Sort!SearchInv, Sort!ResolveStep \/ UNCHANGED <<modules, deps, sortVars>>
  PROVE  Sort!SearchInv'
<1>1. Sort!ResolveStep => SP!ResolveStep
  BY DEF Sort!ResolveStep, SP!ResolveStep,
         Sort!SkipScanned, SP!SkipScanned, Sort!ScanModule, SP!ScanModule,
         Sort!EnterModule, SP!EnterModule, Sort!RestartScan, SP!RestartScan,
         Sort!FinishScan, SP!FinishScan, Sort!SkipDependency, SP!SkipDependency,
         Sort!VisitDependency, SP!VisitDependency, Sort!DetectCycle,
         SP!DetectCycle, Sort!FinishModule, SP!FinishModule, Sort!Scanning,
         SP!Scanning, Sort!Visiting, SP!Visiting, Sort!HasNextDependency,
         SP!HasNextDependency, Sort!NextDependency, SP!NextDependency, Sort!Top,
         SP!Top, Sort!graph, SP!graph
<1>2. Sort!SearchInv => SP!SearchInv
  BY DEF Sort!SearchInv, SP!SearchInv, Sort!TypeOK, SP!TypeOK, Sort!GraphOK,
         SP!GraphOK, Sort!StackIsTempMarks, SP!StackIsTempMarks,
         Sort!PendingCalls, SP!PendingCalls, Sort!StackIsPath, SP!StackIsPath,
         Sort!MarkedIsSorted, SP!MarkedIsSorted, Sort!ScannedIsMarked,
         SP!ScannedIsMarked, Sort!DependenciesFirst, SP!DependenciesFirst,
         Sort!SortedIsComplete, SP!SortedIsComplete, Sort!OnCycle, SP!OnCycle,
         Sort!Reaches, SP!Reaches, Sort!Closed, SP!Closed, Sort!Elements,
         SP!Elements
<1>3. SP!SearchInv' => Sort!SearchInv'
  BY DEF Sort!SearchInv, SP!SearchInv, Sort!TypeOK, SP!TypeOK, Sort!GraphOK,
         SP!GraphOK, Sort!StackIsTempMarks, SP!StackIsTempMarks,
         Sort!PendingCalls, SP!PendingCalls, Sort!StackIsPath, SP!StackIsPath,
         Sort!MarkedIsSorted, SP!MarkedIsSorted, Sort!ScannedIsMarked,
         SP!ScannedIsMarked, Sort!DependenciesFirst, SP!DependenciesFirst,
         Sort!SortedIsComplete, SP!SortedIsComplete, Sort!OnCycle, SP!OnCycle,
         Sort!Reaches, SP!Reaches, Sort!Closed, SP!Closed, Sort!Elements,
         SP!Elements
<1>4. UNCHANGED <<modules, deps, sortVars>> => UNCHANGED SP!vars
  BY DEF sortVars, SP!vars
<1>. QED
  BY <1>1, <1>2, <1>3, <1>4, SP!StepSearch, SentinelsAssumption DEF SP!Next

LEMMA GraphStays ==
  UNCHANGED <<modules, deps>> => (Sort!GraphOK => Sort!GraphOK')
BY DEF Sort!GraphOK, Sort!Elements

\* What the sorted list gives to the phases that follow.
LEMMA SortedFacts ==
  ASSUME Sort!SearchInv, outcome = "sorted"
  PROVE  /\ sorted \in Seq(Elements(modules))
         /\ Elements(sorted) = Elements(modules)
         /\ \A i, j \in DOMAIN sorted : sorted[i] = sorted[j] => i = j
         /\ \A i \in DOMAIN sorted : \A d \in Elements(deps[sorted[i]]) :
              \E k \in 1 .. i - 1 : sorted[k] = d
BY DEF Sort!SearchInv, Sort!TypeOK, Sort!SortedIsComplete, Sort!DependenciesFirst,
       Sort!Elements, Elements
-----------------------------------------------------------------------------
(* Programs, modules and names *)

LEMMA ProgramFacts ==
  ASSUME prog \in Programs
  PROVE  /\ prog.args \in Seq(File) /\ Len(prog.args) \in Nat
         /\ \A i, j \in DOMAIN prog.args : prog.args[i] = prog.args[j] => i = j
         /\ \A f \in AllFiles : /\ prog.decls[f] \in Seq(Module)
                                /\ prog.root[f] \in Module \cup {NoModule}
                                /\ prog.root[f] \notin Elements(prog.decls[f])
                                /\ \A i, j \in DOMAIN prog.decls[f] :
                                     prog.decls[f][i] = prog.decls[f][j] => i = j
         /\ \A f, g \in AllFiles :
              f # g => OwnModules(prog, f) \cap OwnModules(prog, g) = {}
         /\ \A m \in Module : prog.imports[m] \in Seq(Name)
         /\ Stdlib \notin prog.broken /\ prog.root[Stdlib] = NoModule
         /\ Len(prog.decls[Stdlib]) = 1
         /\ prog.name[prog.decls[Stdlib][1]] = StdlibName
<1>1. IsProgram(prog)
  BY ProgramsAssumption
<1>. QED
  BY <1>1, SentinelsAssumption DEF IsProgram, AllFiles

\* The first module of a name is one of that name.
LEMMA ModuleGetFacts ==
  ASSUME modules \in Seq(Module), NEW name, Named(name) # {}
  PROVE  /\ ModuleGet(name) \in Elements(modules)
         /\ prog.name[ModuleGet(name)] = name
<1>1. Len(modules) \in Nat /\ DOMAIN modules = 1 .. Len(modules)
  OBVIOUS
<1>2. Named(name) \in SUBSET (0 .. Len(modules))
  BY <1>1 DEF Named
<1>3. \E i \in Named(name) : \A j \in Named(name) : i <= j
  BY <1>1, <1>2, FirstPosition
<1>4. PICK i \in Named(name) : ModuleGet(name) = modules[i]
  BY <1>3 DEF ModuleGet
<1>. QED
  BY <1>4 DEF Named, Elements

\* Stages are in the order of the phases.
LEMMA StageFacts ==
  ASSUME NEW m
  PROVE  /\ stage[m] \in {"none", "created"} => ~Reached(m, "analyzed") /\ ~Reached(m, "lowered")
         /\ stage[m] = "analyzed" => Reached(m, "analyzed") /\ ~Reached(m, "lowered")
         /\ stage[m] \in {"lowered", "generated"} => Reached(m, "analyzed") /\ Reached(m, "lowered")
<1>1. /\ DOMAIN Stages = 1 .. 5
      /\ Stages[1] = "none" /\ Stages[2] = "created" /\ Stages[3] = "analyzed"
      /\ Stages[4] = "lowered" /\ Stages[5] = "generated"
  BY DEF Stages
<1>. HIDE DEF Stages
<1>. QED
  BY <1>1 DEF Reached

\* The same of the next state, for the steps that change a stage.
LEMMA NextStageFacts ==
  ASSUME NEW m
  PROVE  /\ stage'[m] \in {"none", "created"} => ~Reached(m, "analyzed")' /\ ~Reached(m, "lowered")'
         /\ stage'[m] = "analyzed" => Reached(m, "analyzed")' /\ ~Reached(m, "lowered")'
         /\ stage'[m] \in {"lowered", "generated"} => Reached(m, "analyzed")' /\ Reached(m, "lowered")'
<1>1. /\ DOMAIN Stages = 1 .. 5
      /\ Stages[1] = "none" /\ Stages[2] = "created" /\ Stages[3] = "analyzed"
      /\ Stages[4] = "lowered" /\ Stages[5] = "generated"
  BY DEF Stages
<1>. HIDE DEF Stages
<1>. QED
  BY <1>1 DEF Reached

LEMMA DriverFacts ==
  ASSUME DriverInv
  PROVE  /\ prog \in Programs
         /\ modules \in Seq(Module) /\ Len(modules) \in Nat /\ DOMAIN modules = 1 .. Len(modules)
         /\ \A i, j \in DOMAIN modules : modules[i] = modules[j] => i = j
         /\ Elements(modules) \subseteq Module
         /\ deps \in [Module -> Seq(Elements(modules))]
         /\ fronts \in Seq(AllFiles) /\ Len(fronts) \in Nat /\ DOMAIN fronts = 1 .. Len(fronts)
         /\ at \in Nat \ {0} /\ declAt \in Nat \ {0}
         /\ stage \in [Module -> Elements(Stages)]
<1>1. /\ modules \in Seq(Module) /\ deps \in [Module -> Seq(Elements(modules))]
      /\ \A i, j \in DOMAIN modules : modules[i] = modules[j] => i = j
  BY DEF DriverInv, DriverTypeOK, Sort!GraphOK, Sort!Elements, Elements
<1>2. Elements(modules) \subseteq Module
  BY <1>1 DEF Elements
<1>3. fronts \in Seq(AllFiles)
  BY DEF DriverInv, DriverTypeOK
<1>. QED
  BY <1>1, <1>2, <1>3 DEF DriverInv, DriverTypeOK

\* The fronts are different files: the library, and the command line backwards.
LEMMA FrontsFacts ==
  ASSUME DriverInv, phase \notin {"fronts", "failed"}
  PROVE  /\ Len(fronts) >= 1 /\ fronts[1] = Stdlib
         /\ \A i, j \in DOMAIN fronts : fronts[i] = fronts[j] => i = j
         /\ prog.args # << >> => fronts[Len(fronts)] = prog.args[1]
         /\ prog.args = << >> => Len(fronts) = 1
<1>1. /\ prog.args \in Seq(File) /\ Len(prog.args) \in Nat /\ DOMAIN prog.args = 1 .. Len(prog.args)
      /\ \A i, j \in DOMAIN prog.args : prog.args[i] = prog.args[j] => i = j
  BY DriverFacts, ProgramFacts
<1>2. DOMAIN fronts = 1 .. Len(fronts)
  BY DriverFacts
<1>3. /\ Len(fronts) = Len(prog.args) + 1 /\ fronts[1] = Stdlib
      /\ \A k \in 2 .. Len(fronts) : fronts[k] = prog.args[Len(prog.args) + 2 - k]
  BY DEF DriverInv, FrontsAreTheArguments
<1>4. \A k \in 2 .. Len(fronts) : /\ Len(prog.args) + 2 - k \in DOMAIN prog.args
                                  /\ fronts[k] \in File /\ fronts[k] # Stdlib
  <2>1. TAKE k \in 2 .. Len(fronts)
  <2>2. Len(prog.args) + 2 - k \in DOMAIN prog.args
    BY <1>1, <1>3
  <2>3. fronts[k] \in File
    BY <1>1, <1>3, <2>2
  <2>. QED
    BY <2>2, <2>3, SentinelsAssumption
<1>5. ASSUME NEW i \in DOMAIN fronts, NEW j \in DOMAIN fronts, fronts[i] = fronts[j]
      PROVE  i = j
  <2>1. CASE i = 1 \/ j = 1
    BY <1>1, <1>2, <1>3, <1>4, <1>5, <2>1
  <2>2. CASE i # 1 /\ j # 1
    <3>1. i \in 2 .. Len(fronts) /\ j \in 2 .. Len(fronts)
      BY <1>2, <2>2
    <3>2. Len(prog.args) + 2 - i = Len(prog.args) + 2 - j
      BY <1>1, <1>3, <1>4, <1>5, <3>1
    <3>. QED
      BY <1>1, <1>3, <3>1, <3>2
  <2>. QED
    BY <2>1, <2>2
<1>6. ASSUME prog.args # << >>
      PROVE  fronts[Len(fronts)] = prog.args[1]
  <2>1. Len(prog.args) >= 1
    BY <1>1, <1>6
  <2>2. Len(fronts) \in 2 .. Len(fronts) /\ Len(prog.args) + 2 - Len(fronts) = 1
    BY <1>1, <1>3, <2>1
  <2>. QED
    BY <1>3, <2>2
<1>. QED
  BY <1>1, <1>3, <1>5, <1>6
-----------------------------------------------------------------------------
(* Steps that leave most as it is *)

LEMMA ReadyStays ==
  ASSUME ImportsAreReady, UNCHANGED <<modules, deps, stage>>
  PROVE  ImportsAreReady'
BY DEF ImportsAreReady, Elements, Reached

\* As long as nothing is analyzed, everything is ready, whatever it depends on.
LEMMA NothingIsAnalyzed ==
  ASSUME \A m \in Elements(modules)' : stage'[m] \in {"none", "created"}
  PROVE  ImportsAreReady'
BY NextStageFacts DEF ImportsAreReady

\* A failure stops everything where it is.
LEMMA FailKeeps ==
  ASSUME DriverInv, phase' = "failed", UNCHANGED <<prog, fronts, modules, stage>>,
         at' = at, declAt' \in Nat \ {0}, Sort!GraphOK',
         deps' = deps \/ \A m \in Module : stage[m] \in {"none", "created"}
  PROVE  DriverInv'
<1>1. DriverTypeOK'
  BY DEF DriverInv, DriverTypeOK, Phases
<1>2. FrontsAreTheArguments' /\ DependenciesAreRequested' /\ SortIsDone' /\ StagesKeepUp'
  BY DEF FrontsAreTheArguments, DependenciesAreRequested, SortIsDone, StagesKeepUp,
         PastDepending
<1>3. ModulesAreOfTheirFiles'
  BY DEF DriverInv, ModulesAreOfTheirFiles, PastDepending
<1>4. ImportsAreReady'
  <2>1. CASE deps' = deps
    BY <2>1, ReadyStays DEF DriverInv
  <2>2. CASE \A m \in Module : stage[m] \in {"none", "created"}
    <3>1. \A m \in Elements(modules)' : stage'[m] \in {"none", "created"}
      BY <2>2, DriverFacts DEF Elements
    <3>. QED
      BY <3>1, NothingIsAnalyzed
  <2>. QED
    BY <2>1, <2>2
<1>. QED
  BY <1>1, <1>2, <1>3, <1>4 DEF DriverInv

\* Once the dependencies are known, the fronts and the modules do not change.
LEMMA LaterKeeps ==
  ASSUME DriverInv, phase \in PastDepending, phase' \in PastDepending,
         UNCHANGED <<prog, fronts, declAt, modules, deps>>, at' \in Nat \ {0},
         stage' \in [Module -> Elements(Stages)], Sort!SearchInv',
         phase' \in {"analyze", "lower", "generate"} => outcome' = "sorted",
         StagesKeepUp', ImportsAreReady'
  PROVE  DriverInv'
<1>1. DriverTypeOK'
  BY GraphStays DEF DriverInv, DriverTypeOK, Phases
<1>2. phase \notin {"fronts", "parse", "depend", "failed"} /\ phase' \notin {"fronts", "parse", "depend", "failed"}
  BY DEF PastDepending
<1>3. FrontsAreTheArguments'
  BY <1>2 DEF DriverInv, FrontsAreTheArguments
<1>4. ModulesAreOfTheirFiles'
  BY <1>2 DEF DriverInv, ModulesAreOfTheirFiles, IsRootOf
<1>5. DependenciesAreRequested'
  BY <1>2 DEF DriverInv, DependenciesAreRequested, NamesDiffer, DependsOnRequested, Requests
<1>6. SortIsDone'
  BY <1>2 DEF SortIsDone
<1>. QED
  BY <1>1, <1>3, <1>4, <1>5, <1>6 DEF DriverInv
-----------------------------------------------------------------------------
(* From the command line to the modules *)

LEMMA NewFrontKeeps ==
  ASSUME DriverInv, NewFront
  PROVE  DriverInv'
<1>1. /\ phase = "fronts" /\ phase' = "fronts" /\ at <= Len(prog.args) /\ at' = at + 1
      /\ fronts' = <<prog.args[at]>> \o fronts
      /\ UNCHANGED <<prog, declAt, stage, modules, deps, sortVars>>
  BY DEF NewFront, AddFront
<1>2. /\ prog.args \in Seq(File) /\ Len(prog.args) \in Nat /\ prog.args[at] \in File
      /\ fronts \in Seq(AllFiles) /\ at \in Nat \ {0}
  <2>1. /\ prog.args \in Seq(File) /\ Len(prog.args) \in Nat
        /\ fronts \in Seq(AllFiles) /\ at \in Nat \ {0}
    BY DriverFacts, ProgramFacts
  <2>. QED
    BY <1>1, <2>1
<1>3. /\ Len(fronts) = at - 1
      /\ \A k \in DOMAIN fronts : fronts[k] = prog.args[at - k]
  BY <1>1 DEF DriverInv, FrontsAreTheArguments
<1>4. /\ fronts' \in Seq(AllFiles) /\ Len(fronts') = Len(fronts) + 1
      /\ fronts'[1] = prog.args[at]
      /\ \A k \in 2 .. Len(fronts') : fronts'[k] = fronts[k - 1]
  <2>1. <<prog.args[at]>> \in Seq(AllFiles)
    BY <1>2 DEF AllFiles
  <2>. QED
    BY <1>1, <1>2, <2>1
<1>5. DriverTypeOK'
  BY <1>1, <1>2, <1>4, GraphStays DEF DriverInv, DriverTypeOK
<1>6. FrontsAreTheArguments'
  <2>1. ASSUME NEW k \in DOMAIN fronts'
        PROVE  fronts'[k] = prog'.args[at' - k]
    <3>1. DOMAIN fronts' = 1 .. Len(fronts') /\ Len(fronts') = at
      BY <1>2, <1>3, <1>4
    <3>2. prog' = prog /\ at' = at + 1 /\ at \in Nat /\ k \in Nat
      BY <1>1, <1>2, <3>1
    <3>3. CASE k = 1
      <4>1. at' - k = at
        BY <3>2, <3>3
      <4>. QED
        BY <1>4, <3>2, <3>3, <4>1
    <3>4. CASE k # 1
      <4>1. k \in 2 .. Len(fronts') /\ k - 1 \in DOMAIN fronts /\ at - (k - 1) = at' - k
        BY <1>2, <1>3, <3>1, <3>2, <3>4
      <4>. QED
        BY <1>3, <1>4, <3>2, <4>1
    <3>. QED
      BY <3>3, <3>4
  <2>2. Len(fronts') = at' - 1 /\ at' <= Len(prog'.args) + 1
    BY <1>1, <1>2, <1>3, <1>4
  <2>. QED
    BY <1>1, <2>1, <2>2 DEF FrontsAreTheArguments
<1>7. ModulesAreOfTheirFiles' /\ DependenciesAreRequested' /\ SortIsDone' /\ StagesKeepUp'
  BY <1>1 DEF DriverInv, ModulesAreOfTheirFiles, DependenciesAreRequested, SortIsDone,
              StagesKeepUp, PastDepending, Sort!Fresh, sortVars
<1>8. ImportsAreReady'
  BY <1>1, ReadyStays DEF DriverInv
<1>. QED
  BY <1>5, <1>6, <1>7, <1>8 DEF DriverInv

LEMMA NewStdlibFrontKeeps ==
  ASSUME DriverInv, NewStdlibFront
  PROVE  DriverInv'
<1>1. /\ phase = "fronts" /\ phase' = "parse" /\ at > Len(prog.args) /\ at' = 1
      /\ fronts' = <<Stdlib>> \o fronts
      /\ UNCHANGED <<prog, declAt, stage, modules, deps, sortVars>>
  BY DEF NewStdlibFront, AddFront, Enter
<1>2. /\ prog.args \in Seq(File) /\ Len(prog.args) \in Nat
      /\ fronts \in Seq(AllFiles) /\ at \in Nat \ {0}
  BY DriverFacts, ProgramFacts
<1>3. /\ Len(fronts) = at - 1 /\ at = Len(prog.args) + 1
      /\ \A k \in DOMAIN fronts : fronts[k] = prog.args[at - k]
  <2>1. /\ Len(fronts) = at - 1 /\ at <= Len(prog.args) + 1
        /\ \A k \in DOMAIN fronts : fronts[k] = prog.args[at - k]
    BY <1>1 DEF DriverInv, FrontsAreTheArguments
  <2>. QED
    BY <1>1, <1>2, <2>1
<1>4. /\ fronts' \in Seq(AllFiles) /\ Len(fronts') = Len(fronts) + 1
      /\ fronts'[1] = Stdlib
      /\ \A k \in 2 .. Len(fronts') : fronts'[k] = fronts[k - 1]
  <2>1. <<Stdlib>> \in Seq(AllFiles)
    BY DEF AllFiles
  <2>. QED
    BY <1>1, <1>2, <2>1
<1>5. DriverTypeOK'
  BY <1>1, <1>4, GraphStays DEF DriverInv, DriverTypeOK, Phases
<1>6. FrontsAreTheArguments'
  <2>1. ASSUME NEW k \in 2 .. Len(fronts')
        PROVE  fronts'[k] = prog.args[Len(prog.args) + 2 - k]
    <3>1. k - 1 \in DOMAIN fronts /\ at - (k - 1) = Len(prog.args) + 2 - k
      BY <1>2, <1>3, <1>4
    <3>. QED
      BY <1>3, <1>4, <3>1
  <2>2. Len(fronts') = Len(prog.args) + 1
    BY <1>2, <1>3, <1>4
  <2>. QED
    BY <1>1, <1>4, <2>1, <2>2 DEF FrontsAreTheArguments
<1>7. ModulesAreOfTheirFiles'
  <2>1. modules = << >> /\ declAt = 1
    BY <1>1 DEF DriverInv, ModulesAreOfTheirFiles
  <2>2. prog.decls[Stdlib] \in Seq(Module) /\ Len(prog.decls[Stdlib]) = 1
    BY ProgramFacts, DriverFacts DEF AllFiles
  <2>3. Front' = Stdlib
    BY <1>1, <1>4 DEF Front
  <2>4. Elements(modules)' = {}
    BY <1>1, <2>1 DEF Elements
  <2>5. 1 <= Len(fronts') + 1 /\ Len(fronts') # 0
    BY <1>2, <1>4
  <2>. QED
    BY <1>1, <2>1, <2>2, <2>3, <2>4, <2>5 DEF ModulesAreOfTheirFiles, PastDepending
<1>8. DependenciesAreRequested' /\ SortIsDone' /\ StagesKeepUp'
  BY <1>1 DEF DriverInv, DependenciesAreRequested, SortIsDone,
              StagesKeepUp, PastDepending, Sort!Fresh, sortVars
<1>9. ImportsAreReady'
  BY <1>1, ReadyStays DEF DriverInv
<1>. QED
  BY <1>5, <1>6, <1>7, <1>8, <1>9 DEF DriverInv

\* A module that there was not yet keeps the list without repetitions.
LEMMA NewModuleKeeps ==
  ASSUME DriverInv, phase = "parse", phase' = "parse", NEW m \in Module,
         m \notin Elements(modules), NewModule(m),
         UNCHANGED <<prog, fronts, deps, sortVars>>,
         at' \in Nat \ {0}, declAt' \in Nat \ {0}, ModulesAreOfTheirFiles'
  PROVE  DriverInv'
<1>1. /\ modules \in Seq(Module) /\ stage \in [Module -> Elements(Stages)]
      /\ \A i, j \in DOMAIN modules : modules[i] = modules[j] => i = j
      /\ DOMAIN modules = 1 .. Len(modules) /\ Len(modules) \in Nat
      /\ deps = [n \in Module |-> << >>]
      /\ \A n \in Module : stage[n] \in {"none", "created"}
      /\ Sort!Fresh
  BY DriverFacts DEF DriverInv, DependenciesAreRequested, StagesKeepUp, SortIsDone
<1>2. /\ modules' \in Seq(Module) /\ DOMAIN modules' = 1 .. Len(modules) + 1
      /\ \A i \in DOMAIN modules : modules'[i] = modules[i] /\ modules[i] # m
      /\ modules'[Len(modules) + 1] = m
  BY <1>1 DEF NewModule, Elements
<1>3. Sort!GraphOK'
  <2>1. \A i, j \in DOMAIN modules' : modules'[i] = modules'[j] => i = j
    BY <1>1, <1>2
  <2>2. deps' \in [Module -> Seq(Elements(modules)')]
    BY <1>1
  <2>. QED
    BY <1>2, <2>1, <2>2 DEF Sort!GraphOK, Sort!Elements, Elements
<1>4. \A n \in Module : stage'[n] \in {"none", "created"}
  BY <1>1 DEF NewModule
<1>5. DriverTypeOK'
  <2>1. "created" \in Elements(Stages)
    BY DEF Elements, Stages
  <2>2. stage' \in [Module -> Elements(Stages)]
    BY <1>1, <2>1 DEF NewModule
  <2>. QED
    BY <1>3, <2>2 DEF DriverInv, DriverTypeOK, Phases
<1>6. FrontsAreTheArguments'
  BY DEF DriverInv, FrontsAreTheArguments
<1>7. DependenciesAreRequested' /\ SortIsDone' /\ StagesKeepUp'
  BY <1>1, <1>4 DEF DependenciesAreRequested, SortIsDone, StagesKeepUp, PastDepending,
                    Sort!Fresh, sortVars
<1>8. ImportsAreReady'
  <2>1. \A n \in Elements(modules)' : stage'[n] \in {"none", "created"}
    BY <1>2, <1>4 DEF Elements
  <2>. QED
    BY <2>1, NothingIsAnalyzed
<1>. QED
  BY <1>5, <1>6, <1>7, <1>8 DEF DriverInv

\* Where parsing stands.
LEMMA ParsingFacts ==
  ASSUME DriverInv, Parsing
  PROVE  /\ phase = "parse" /\ at \in DOMAIN fronts /\ Front \in AllFiles
         /\ at = 1 <=> Front = Stdlib
         /\ prog.decls[Front] \in Seq(Module) /\ Len(prog.decls[Front]) \in Nat
         /\ declAt \in 1 .. Len(prog.decls[Front]) + 1
         /\ modules = << >> <=> at = 1 /\ declAt = 1
         /\ \A m \in Elements(modules) :
              \/ \E k \in 1 .. at - 1 : m \in OwnModules(prog, fronts[k])
              \/ \E j \in 1 .. declAt - 1 : m = prog.decls[Front][j]
<1>1. /\ phase = "parse" /\ at \in DOMAIN fronts /\ at <= Len(fronts)
      /\ fronts \in Seq(AllFiles) /\ DOMAIN fronts = 1 .. Len(fronts) /\ Len(fronts) \in Nat
      /\ declAt \in Nat \ {0}
  BY DriverFacts DEF Parsing
<1>2. Front \in AllFiles
  BY <1>1 DEF Front
<1>3. prog.decls[Front] \in Seq(Module)
  BY <1>2, ProgramFacts, DriverFacts
<1>4. Len(prog.decls[Front]) \in Nat
  BY <1>3
<1>5. at = 1 <=> Front = Stdlib
  BY <1>1, FrontsFacts DEF Front
<1>6. declAt \in 1 .. Len(prog.decls[Front]) + 1
  BY <1>1, <1>4 DEF DriverInv, ModulesAreOfTheirFiles
<1>. QED
  BY <1>1, <1>2, <1>3, <1>4, <1>5, <1>6 DEF DriverInv, ModulesAreOfTheirFiles

\* What is not in a file's part of the list is in none of the earlier ones.
LEMMA OfThisFront ==
  ASSUME DriverInv, Parsing, NEW m \in OwnModules(prog, Front),
         \A j \in 1 .. declAt - 1 : m # prog.decls[Front][j]
  PROVE  m \notin Elements(modules)
<1>1. \A k \in 1 .. at - 1 : m \notin OwnModules(prog, fronts[k])
  <2>1. TAKE k \in 1 .. at - 1
  <2>2. k \in DOMAIN fronts /\ k # at /\ at \in DOMAIN fronts
    BY ParsingFacts, DriverFacts
  <2>3. fronts[k] # Front /\ fronts[k] \in AllFiles /\ Front \in AllFiles
    BY <2>2, FrontsFacts, ParsingFacts, DriverFacts DEF Front
  <2>. QED
    BY <2>3, ProgramFacts, DriverFacts
<1>. QED
  BY <1>1, ParsingFacts

LEMMA CreateModuleKeeps ==
  ASSUME DriverInv, CreateModule
  PROVE  DriverInv'
<1>. DEFINE m == prog.decls[Front][declAt]
<1>1. /\ Parsing /\ declAt <= Len(prog.decls[Front]) /\ NewModule(m) /\ declAt' = declAt + 1
      /\ UNCHANGED <<prog, phase, at, fronts, deps, sortVars>>
  BY DEF CreateModule
<1>2. /\ phase = "parse" /\ Front \in AllFiles /\ prog.decls[Front] \in Seq(Module)
      /\ declAt \in DOMAIN prog.decls[Front] /\ declAt \in Nat \ {0}
      /\ at \in DOMAIN fronts /\ at \in Nat \ {0} /\ Len(fronts) \in Nat
      /\ DOMAIN fronts = 1 .. Len(fronts)
  BY <1>1, ParsingFacts, DriverFacts
<1>3. m \in Module /\ m \in OwnModules(prog, Front)
  BY <1>2 DEF OwnModules, Elements
<1>4. \A j \in 1 .. declAt - 1 : m # prog.decls[Front][j]
  <2>1. \A i, j \in DOMAIN prog.decls[Front] :
          prog.decls[Front][i] = prog.decls[Front][j] => i = j
    BY <1>2, ProgramFacts, DriverFacts
  <2>2. \A j \in 1 .. declAt - 1 : j \in DOMAIN prog.decls[Front] /\ j # declAt
    BY <1>2
  <2>. QED
    BY <1>2, <2>1, <2>2
<1>5. m \notin Elements(modules)
  BY <1>1, <1>3, <1>4, OfThisFront
<1>6. /\ modules \in Seq(Module) /\ Len(modules) \in Nat
      /\ modules' = Append(modules, m)
  BY <1>1, DriverFacts DEF NewModule
<1>7. ModulesAreOfTheirFiles'
  <2>1. Front' = Front
    BY <1>1 DEF Front
  <2>2. Elements(modules)' \subseteq Elements(modules) \cup {m}
    BY <1>3, <1>6 DEF Elements
  <2>3. \A n \in Elements(modules)' :
          \/ \E k \in 1 .. at - 1 : n \in OwnModules(prog, fronts[k])
          \/ \E j \in 1 .. declAt : n = prog.decls[Front][j]
    <3>1. TAKE n \in Elements(modules)'
    <3>2. CASE n = m
      BY <1>2, <3>2
    <3>3. CASE n \in Elements(modules)
      BY <1>1, <1>2, <3>3, ParsingFacts
    <3>. QED
      BY <2>2, <3>2, <3>3
  <2>4. modules' # << >> /\ modules'[1] = prog.decls[Stdlib][1]
    <3>1. CASE modules = << >>
      BY <1>1, <1>6, <3>1, ParsingFacts
    <3>2. CASE modules # << >>
      <4>1. 1 \in DOMAIN modules
        BY <1>6, <3>2
      <4>2. modules[1] = prog.decls[Stdlib][1]
        BY <3>2 DEF DriverInv, ModulesAreOfTheirFiles
      <4>. QED
        BY <1>3, <1>6, <4>1, <4>2
    <3>. QED
      BY <3>1, <3>2
  <2>5. declAt + 1 <= Len(prog.decls[Front]) + 1 /\ declAt + 1 # 1 /\ declAt + 1 - 1 = declAt
        /\ at <= Len(fronts) + 1 /\ at # Len(fronts) + 1
    BY <1>1, <1>2
  <2>. QED
    BY <1>1, <1>2, <2>1, <2>3, <2>4, <2>5 DEF ModulesAreOfTheirFiles, PastDepending
<1>. HIDE DEF m
<1>. QED
  BY <1>1, <1>2, <1>3, <1>5, <1>7, NewModuleKeeps

LEMMA SyntaxErrorKeeps ==
  ASSUME DriverInv, SyntaxError
  PROVE  DriverInv'
<1>1. /\ phase' = "failed" /\ at' = at /\ declAt' = declAt
      /\ UNCHANGED <<prog, fronts, modules, stage, deps>>
  BY DEF SyntaxError, Fail
<1>2. Sort!GraphOK'
  BY <1>1, GraphStays DEF DriverInv, DriverTypeOK
<1>. QED
  BY <1>1, <1>2, FailKeeps, DriverFacts

\* A front that is done: what it created is of its own, and the next one begins.
LEMMA FrontIsDone ==
  ASSUME DriverInv, Parsing, declAt > Len(prog.decls[Front]), NEW n,
         n \in Elements(modules) \/ n \in OwnModules(prog, Front)
  PROVE  \E k \in 1 .. at : n \in OwnModules(prog, fronts[k])
<1>1. /\ at \in DOMAIN fronts /\ at \in Nat \ {0} /\ Front = fronts[at]
      /\ prog.decls[Front] \in Seq(Module) /\ Len(prog.decls[Front]) \in Nat
      /\ declAt \in 1 .. Len(prog.decls[Front]) + 1
  BY ParsingFacts, DriverFacts DEF Front
<1>2. CASE n \in OwnModules(prog, Front)
  BY <1>1, <1>2
<1>3. CASE n \in Elements(modules)
  <2>1. CASE \E k \in 1 .. at - 1 : n \in OwnModules(prog, fronts[k])
    BY <1>1, <2>1
  <2>2. CASE \E j \in 1 .. declAt - 1 : n = prog.decls[Front][j]
    <3>1. PICK j \in 1 .. declAt - 1 : n = prog.decls[Front][j]
      BY <2>2
    <3>2. j \in DOMAIN prog.decls[Front]
      BY <1>1
    <3>3. n \in OwnModules(prog, Front)
      BY <3>1, <3>2 DEF OwnModules, Elements
    <3>. QED
      BY <1>2, <3>3
  <2>. QED
    BY <1>3, <2>1, <2>2, ParsingFacts
<1>. QED
  BY <1>2, <1>3

LEMMA FinalizeParsingKeeps ==
  ASSUME DriverInv, FinalizeParsing
  PROVE  DriverInv'
<1>. DEFINE root == prog.root[Front]
<1>1. /\ Parsing /\ declAt > Len(prog.decls[Front]) /\ declAt' = 1
      /\ UNCHANGED <<prog, fronts, deps, sortVars>>
  BY DEF FinalizeParsing
<1>2. /\ phase = "parse" /\ Front \in AllFiles /\ prog.decls[Front] \in Seq(Module)
      /\ Len(prog.decls[Front]) \in Nat /\ declAt = Len(prog.decls[Front]) + 1
      /\ at \in DOMAIN fronts /\ at \in Nat \ {0} /\ Len(fronts) \in Nat
      /\ DOMAIN fronts = 1 .. Len(fronts) /\ Front = fronts[at]
      /\ modules \in Seq(Module) /\ Len(modules) \in Nat
      /\ DOMAIN modules = 1 .. Len(modules)
  <2>1. /\ declAt \in 1 .. Len(prog.decls[Front]) + 1 /\ Len(prog.decls[Front]) \in Nat
    BY <1>1, ParsingFacts
  <2>2. declAt = Len(prog.decls[Front]) + 1
    BY <1>1, <2>1
  <2>. QED
    BY <1>1, <2>1, <2>2, ParsingFacts, DriverFacts DEF Front
<1>3. modules # << >>
  <2>1. CASE at = 1
    <3>1. Len(prog.decls[Front]) = 1
      BY <1>1, <2>1, ParsingFacts, ProgramFacts, DriverFacts
    <3>. QED
      BY <1>1, <1>2, <3>1, ParsingFacts
  <2>2. CASE at # 1
    BY <1>1, <2>2, ParsingFacts
  <2>. QED
    BY <2>1, <2>2
<1>4. modules[1] = prog.decls[Stdlib][1] /\ 1 \in DOMAIN modules
  BY <1>2, <1>3 DEF DriverInv, ModulesAreOfTheirFiles
<1>5. /\ at + 1 <= Len(fronts) + 1 /\ at + 1 \in Nat \ {0} /\ at + 1 # 1 /\ at + 1 - 1 = at
      /\ 1 .. 1 - 1 = {}
  BY <1>2
<1>6. ASSUME phase' = "parse", at' = at + 1, modules' # << >>,
             modules'[1] = prog.decls[Stdlib][1],
             Elements(modules)' \subseteq Elements(modules) \cup OwnModules(prog, Front),
             IsRootOf(modules'[Len(modules')], Front)
      PROVE  ModulesAreOfTheirFiles'
  <2>1. \A n \in Elements(modules)' : \E k \in 1 .. at : n \in OwnModules(prog, fronts[k])
    BY <1>1, <1>6, FrontIsDone
  <2>2. at' <= Len(fronts)' => 1 <= Len(prog'.decls[Front']) + 1
    <3>1. SUFFICES ASSUME at' <= Len(fronts)' PROVE 1 <= Len(prog'.decls[Front']) + 1
      OBVIOUS
    <3>2. at' \in DOMAIN fronts /\ fronts \in Seq(AllFiles)
      BY <1>1, <1>2, <1>5, <1>6, <3>1, DriverFacts
    <3>3. Front' \in AllFiles
      BY <1>1, <3>2 DEF Front
    <3>4. prog'.decls[Front'] \in Seq(Module)
      BY <1>1, <3>3, ProgramFacts, DriverFacts
    <3>. QED
      BY <3>4
  <2>3. /\ at' <= Len(fronts)' + 1 /\ at' > 1 /\ at' # 1 /\ at' - 1 = at
        /\ fronts'[at' - 1] = Front
    BY <1>1, <1>2, <1>5, <1>6
  <2>4. IsRootOf(modules[Len(modules)], fronts[at - 1])'
    BY <1>1, <1>6, <2>3 DEF IsRootOf
  <2>5. \A n \in Elements(modules)' : \E k \in 1 .. at' - 1 : n \in OwnModules(prog', fronts'[k])
    BY <1>1, <2>1, <2>3
  <2>. QED
    BY <1>1, <1>6, <2>2, <2>3, <2>4, <2>5 DEF ModulesAreOfTheirFiles, PastDepending
<1>7. CASE root = NoModule /\ UNCHANGED <<phase, reported, mainFront, modules, stage>> /\ at' = at + 1
  <2>1. ModulesAreOfTheirFiles'
    <3>1. Elements(modules)' = Elements(modules)
      BY <1>7 DEF Elements
    <3>2. IsRootOf(modules'[Len(modules')], Front)
      BY <1>7 DEF IsRootOf
    <3>. QED
      BY <1>2, <1>3, <1>4, <1>6, <1>7, <3>1, <3>2
  <2>2. DriverTypeOK'
    BY <1>1, <1>5, <1>7, GraphStays DEF DriverInv, DriverTypeOK
  <2>3. FrontsAreTheArguments'
    BY <1>1, <1>2, <1>7 DEF DriverInv, FrontsAreTheArguments
  <2>4. DependenciesAreRequested' /\ SortIsDone' /\ StagesKeepUp'
    BY <1>1, <1>2, <1>7 DEF DriverInv, DependenciesAreRequested, SortIsDone, StagesKeepUp,
                            PastDepending, Sort!Fresh, sortVars
  <2>5. ImportsAreReady'
    BY <1>1, <1>7, ReadyStays DEF DriverInv
  <2>. QED
    BY <2>1, <2>2, <2>3, <2>4, <2>5 DEF DriverInv
<1>8. CASE root # NoModule /\ NewModule(root) /\ at' = at + 1 /\ UNCHANGED <<phase, reported>>
  <2>1. root \in Module /\ root \notin Elements(prog.decls[Front])
    BY <1>2, <1>8, ProgramFacts, DriverFacts
  <2>2. root \in OwnModules(prog, Front)
    BY <1>8 DEF OwnModules
  <2>3. \A j \in 1 .. declAt - 1 : root # prog.decls[Front][j]
    BY <1>2, <2>1 DEF Elements
  <2>4. root \notin Elements(modules)
    BY <1>1, <2>2, <2>3, OfThisFront
  <2>5. /\ modules' = Append(modules, root) /\ modules' # << >>
        /\ modules'[1] = modules[1] /\ modules'[Len(modules')] = root
    BY <1>2, <1>4, <1>8, <2>1 DEF NewModule
  <2>6. Elements(modules)' \subseteq Elements(modules) \cup {root}
    BY <1>2, <2>1, <2>5 DEF Elements
  <2>7. ModulesAreOfTheirFiles'
    BY <1>2, <1>4, <1>6, <1>8, <2>2, <2>5, <2>6 DEF IsRootOf
  <2>. HIDE DEF root
  <2>. QED
    BY <1>1, <1>2, <1>5, <1>8, <2>1, <2>4, <2>7, NewModuleKeeps
<1>9. CASE Fail(TRUE) /\ UNCHANGED <<mainFront, modules, stage, at>>
  <2>1. Sort!GraphOK'
    BY <1>1, <1>9, GraphStays DEF DriverInv, DriverTypeOK
  <2>. QED
    BY <1>1, <1>9, <2>1, FailKeeps DEF Fail
<1>. QED
  BY <1>7, <1>8, <1>9 DEF FinalizeParsing

LEMMA EndParsingKeeps ==
  ASSUME DriverInv, EndParsing
  PROVE  DriverInv'
<1>1. /\ phase = "parse" /\ at > Len(fronts) /\ phase' = "depend" /\ at' = 1
      /\ UNCHANGED <<prog, fronts, declAt, stage, modules, deps, sortVars>>
  BY DEF EndParsing, Enter
<1>2. /\ at \in Nat \ {0} /\ Len(fronts) \in Nat /\ modules \in Seq(Module)
      /\ Len(modules) \in Nat
  BY DriverFacts
<1>3. at = Len(fronts) + 1 /\ declAt = 1 /\ at - 1 = Len(fronts) /\ at > 1
  <2>1. at <= Len(fronts) + 1 /\ (at = Len(fronts) + 1 => declAt = 1)
    BY <1>1 DEF DriverInv, ModulesAreOfTheirFiles
  <2>. QED
    BY <1>1, <1>2, <2>1, FrontsFacts
<1>4. /\ modules # << >> /\ modules[1] = prog.decls[Stdlib][1]
      /\ IsRootOf(modules[Len(modules)], fronts[at - 1])
  BY <1>1, <1>3 DEF DriverInv, ModulesAreOfTheirFiles
<1>5. prog.args # << >> => IsRootOf(modules[Len(modules)], prog.args[1])
  BY <1>1, <1>3, <1>4, FrontsFacts
<1>6. DriverTypeOK' /\ FrontsAreTheArguments'
  BY <1>1, GraphStays DEF DriverInv, DriverTypeOK, FrontsAreTheArguments, Phases
<1>7. ModulesAreOfTheirFiles'
  BY <1>1, <1>4, <1>5 DEF ModulesAreOfTheirFiles, IsRootOf
<1>8. DependenciesAreRequested'
  <2>1. 1 <= Len(modules)' + 1 /\ 1 .. 1 - 1 = {}
    BY <1>1, <1>2
  <2>. QED
    BY <1>1, <2>1 DEF DependenciesAreRequested, NamesDiffer, PastDepending
<1>9. SortIsDone' /\ StagesKeepUp'
  BY <1>1 DEF DriverInv, SortIsDone, StagesKeepUp, PastDepending, Sort!Fresh, sortVars
<1>10. ImportsAreReady'
  BY <1>1, ReadyStays DEF DriverInv
<1>. QED
  BY <1>6, <1>7, <1>8, <1>9, <1>10 DEF DriverInv
-----------------------------------------------------------------------------
(* Dependencies *)

LEMMA DependingFacts ==
  ASSUME DriverInv, Depending
  PROVE  /\ phase = "depend" /\ at \in DOMAIN modules /\ modules[at] \in Module
         /\ \A m \in Module : stage[m] \in {"none", "created"}
         /\ Requests(modules[at]) \in Seq(Name \cup {StdlibName})
         /\ Len(Requests(modules[at])) \in Nat
<1>1. phase = "depend" /\ at \in DOMAIN modules /\ modules[at] \in Module
  BY DriverFacts DEF Depending
<1>2. \A m \in Module : stage[m] \in {"none", "created"}
  BY <1>1 DEF DriverInv, StagesKeepUp
<1>3. prog.imports[modules[at]] \in Seq(Name)
  BY <1>1, ProgramFacts, DriverFacts
<1>4. Requests(modules[at]) \in Seq(Name \cup {StdlibName})
  BY <1>3 DEF Requests
<1>. QED
  BY <1>1, <1>2, <1>4

LEMMA DuplicateNameKeeps ==
  ASSUME DriverInv, DuplicateName
  PROVE  DriverInv'
<1>1. /\ phase' = "failed" /\ at' = at /\ declAt' = declAt
      /\ UNCHANGED <<prog, fronts, modules, stage, deps>>
  BY DEF DuplicateName, Fail
<1>2. Sort!GraphOK'
  BY <1>1, GraphStays DEF DriverInv, DriverTypeOK
<1>. QED
  BY <1>1, <1>2, FailKeeps, DriverFacts

\* A list of what the names resolve to is a list of modules of the compilation.
LEMMA NewGraph ==
  ASSUME DriverInv, NEW m \in Module, NEW wanted, NEW n \in Nat,
         \A i \in 1 .. n : Named(wanted[i]) # {},
         deps' = [deps EXCEPT ![m] = [i \in 1 .. n |-> ModuleGet(wanted[i])]],
         modules' = modules
  PROVE  /\ Sort!GraphOK'
         /\ deps'[m] = [i \in 1 .. n |-> ModuleGet(wanted[i])]
         /\ \A k \in Module : k # m => deps'[k] = deps[k]
<1>. DEFINE new == [i \in 1 .. n |-> ModuleGet(wanted[i])]
<1>1. /\ modules \in Seq(Module) /\ deps \in [Module -> Seq(Elements(modules))]
      /\ \A i, j \in DOMAIN modules : modules[i] = modules[j] => i = j
  BY DriverFacts
<1>2. \A i \in 1 .. n : ModuleGet(wanted[i]) \in Elements(modules)
  BY <1>1, ModuleGetFacts
<1>3. new \in Seq(Elements(modules))
  BY <1>2
<1>4. deps' \in [Module -> Seq(Elements(modules))]
  <2>1. deps' = [deps EXCEPT ![m] = new]
    OBVIOUS
  <2>. HIDE DEF new
  <2>. QED
    BY <1>1, <1>3, <2>1
<1>5. Sort!GraphOK'
  BY <1>1, <1>4 DEF Sort!GraphOK, Sort!Elements, Elements
<1>. QED
  BY <1>1, <1>5

LEMMA DetermineDependenciesKeeps ==
  ASSUME DriverInv, DetermineDependencies
  PROVE  DriverInv'
<1>. DEFINE m == modules[at]
            wanted == Requests(m)
<1>1. /\ Depending /\ NewName /\ at' = at + 1
      /\ \A i \in DOMAIN wanted : Named(wanted[i]) # {}
      /\ deps' = [deps EXCEPT ![m] = [i \in DOMAIN wanted |-> ModuleGet(wanted[i])]]
      /\ UNCHANGED <<prog, phase, fronts, declAt, stage, modules, sortVars>>
  BY DEF DetermineDependencies
<1>2. /\ phase = "depend" /\ at \in DOMAIN modules /\ m \in Module
      /\ \A n \in Module : stage[n] \in {"none", "created"}
      /\ Len(wanted) \in Nat /\ DOMAIN wanted = 1 .. Len(wanted)
      /\ modules \in Seq(Module) /\ Len(modules) \in Nat /\ DOMAIN modules = 1 .. Len(modules)
      /\ at \in Nat \ {0}
      /\ \A i, j \in DOMAIN modules : modules[i] = modules[j] => i = j
  BY <1>1, DependingFacts, DriverFacts
<1>3. /\ Sort!GraphOK'
      /\ deps'[m] = [i \in 1 .. Len(wanted) |-> ModuleGet(wanted[i])]
      /\ \A k \in Module : k # m => deps'[k] = deps[k]
  <2>. HIDE DEF m, wanted
  <2>1. /\ \A i \in 1 .. Len(wanted) : Named(wanted[i]) # {}
        /\ deps' = [deps EXCEPT ![m] = [i \in 1 .. Len(wanted) |-> ModuleGet(wanted[i])]]
        /\ modules' = modules
    BY <1>1, <1>2
  <2>. QED
    BY <1>2, <2>1, NewGraph
<1>4. DriverTypeOK' /\ FrontsAreTheArguments' /\ SortIsDone' /\ StagesKeepUp'
  BY <1>1, <1>2, <1>3 DEF DriverInv, DriverTypeOK, FrontsAreTheArguments, SortIsDone,
       StagesKeepUp, PastDepending, Sort!Fresh, sortVars
<1>5. ModulesAreOfTheirFiles'
  BY <1>1, <1>2 DEF DriverInv, ModulesAreOfTheirFiles, PastDepending, IsRootOf
<1>6. DependenciesAreRequested'
  <2>1. /\ NamesDiffer(at - 1) /\ \A i \in 1 .. at - 1 : DependsOnRequested(modules[i])
    BY <1>2 DEF DriverInv, DependenciesAreRequested
  <2>2. at' - 1 = at /\ at' <= Len(modules)' + 1
    BY <1>1, <1>2
  <2>3. \A i, j \in 1 .. at : prog.name[modules[i]] = prog.name[modules[j]] => i = j
    <3>1. \A i \in 1 .. at : i \in 1 .. at - 1 \/ i = at
      BY <1>2
    <3>2. \A i \in 1 .. at - 1 : prog.name[modules[i]] # prog.name[modules[at]]
      BY <1>1 DEF NewName
    <3>. QED
      BY <2>1, <3>1, <3>2 DEF NamesDiffer
  <2>4. NamesDiffer(at - 1)'
    BY <1>1, <2>2, <2>3 DEF NamesDiffer
  <2>5. \A n : Requests(n)' = Requests(n)
    BY <1>1 DEF Requests
  <2>6. ASSUME NEW i \in 1 .. at
        PROVE  DependsOnRequested(modules[i])'
    <3>1. CASE i = at
      <4>1. \A k \in 1 .. Len(wanted) : prog.name[ModuleGet(wanted[k])] = wanted[k]
        BY <1>1, <1>2, ModuleGetFacts
      <4>2. modules'[i] = m /\ Len(deps'[m]) = Len(wanted) /\ DOMAIN deps'[m] = 1 .. Len(wanted)
        BY <1>1, <1>2, <1>3, <3>1
      <4>3. \A k \in DOMAIN deps'[m] : prog.name[deps'[m][k]] = wanted[k]
        BY <1>3, <4>1, <4>2
      <4>. QED
        BY <1>1, <2>5, <4>2, <4>3 DEF DependsOnRequested
    <3>2. CASE i # at
      <4>1. i \in 1 .. at - 1 /\ i \in DOMAIN modules /\ modules[i] # m /\ modules[i] \in Module
        BY <1>2, <3>2
      <4>2. DependsOnRequested(modules[i]) /\ deps'[modules[i]] = deps[modules[i]]
        BY <1>3, <2>1, <4>1
      <4>. QED
        BY <1>1, <2>5, <4>2 DEF DependsOnRequested
    <3>. QED
      BY <3>1, <3>2
  <2>7. \A i \in 1 .. at' - 1 : DependsOnRequested(modules[i])'
    BY <2>2, <2>6
  <2>8. phase' = "depend" /\ phase' \notin {"fronts", "parse"} \cup PastDepending
    BY <1>1, <1>2 DEF PastDepending
  <2>. QED
    BY <2>2, <2>4, <2>7, <2>8 DEF DependenciesAreRequested
<1>7. ImportsAreReady'
  <2>1. \A n \in Elements(modules)' : stage'[n] \in {"none", "created"}
    BY <1>1, <1>2, DriverFacts DEF Elements
  <2>. QED
    BY <2>1, NothingIsAnalyzed
<1>. QED
  BY <1>4, <1>5, <1>6, <1>7 DEF DriverInv

LEMMA MissingDependencyKeeps ==
  ASSUME DriverInv, MissingDependency
  PROVE  DriverInv'
<1>. DEFINE m == modules[at]
            wanted == Requests(m)
<1>1. /\ Depending /\ at' = at /\ declAt' = declAt /\ phase' = "failed"
      /\ UNCHANGED <<prog, fronts, modules, stage>>
  BY DEF MissingDependency, Fail
<1>2. PICK k \in DOMAIN wanted :
        /\ \A i \in 1 .. k - 1 : Named(wanted[i]) # {}
        /\ deps' = [deps EXCEPT ![m] = [i \in 1 .. k - 1 |-> ModuleGet(wanted[i])]]
  BY DEF MissingDependency
<1>3. /\ m \in Module /\ \A n \in Module : stage[n] \in {"none", "created"}
      /\ Len(wanted) \in Nat /\ DOMAIN wanted = 1 .. Len(wanted)
  BY <1>1, DependingFacts
<1>4. k - 1 \in Nat
  BY <1>3
<1>5. Sort!GraphOK'
  <2>. HIDE DEF m, wanted
  <2>. QED
    BY <1>1, <1>2, <1>3, <1>4, NewGraph
<1>. QED
  BY <1>1, <1>3, <1>5, FailKeeps, DriverFacts

LEMMA EndDependingKeeps ==
  ASSUME DriverInv, EndDepending
  PROVE  DriverInv'
<1>1. /\ phase = "depend" /\ at > Len(modules) /\ phase' = "resolve" /\ at' = 1
      /\ UNCHANGED <<prog, fronts, declAt, stage, modules, deps, sortVars>>
  BY DEF EndDepending, Enter
<1>2. at \in Nat \ {0} /\ Len(modules) \in Nat /\ DOMAIN modules = 1 .. Len(modules)
  BY DriverFacts
<1>3. at - 1 = Len(modules)
  <2>1. at <= Len(modules) + 1
    BY <1>1 DEF DriverInv, DependenciesAreRequested
  <2>. QED
    BY <1>1, <1>2, <2>1
<1>4. Sort!SearchInv'
  <2>1. Sort!SearchInv
    BY <1>1, SortBegins DEF DriverInv, DriverTypeOK, SortIsDone
  <2>. QED
    BY <1>1, <2>1, SortGoesOn
<1>5. DriverTypeOK'
  BY <1>1, GraphStays DEF DriverInv, DriverTypeOK, Phases, PastDepending
<1>6. FrontsAreTheArguments' /\ ModulesAreOfTheirFiles' /\ SortIsDone' /\ StagesKeepUp'
  BY <1>1, <1>4 DEF DriverInv, FrontsAreTheArguments, ModulesAreOfTheirFiles, SortIsDone,
                    StagesKeepUp, PastDepending, IsRootOf
<1>7. DependenciesAreRequested'
  <2>1. NamesDiffer(Len(modules)) /\ \A i \in DOMAIN modules : DependsOnRequested(modules[i])
    BY <1>1, <1>2, <1>3 DEF DriverInv, DependenciesAreRequested
  <2>. QED
    BY <1>1, <2>1 DEF DependenciesAreRequested, NamesDiffer, DependsOnRequested, Requests,
                      PastDepending
<1>8. ImportsAreReady'
  BY <1>1, ReadyStays DEF DriverInv
<1>. QED
  BY <1>5, <1>6, <1>7, <1>8 DEF DriverInv
-----------------------------------------------------------------------------
(* Analysis, lowering and code generation *)

\* The loops over the modules go on by one module at a time.
LEMMA OneMoreAlong ==
  ASSUME NEW list \in Seq(Module), NEW done, NEW before, StagesAlong(list, done, before),
         \A i, j \in DOMAIN list : list[i] = list[j] => i = j,
         at \in Nat \ {0}, at <= Len(list), DOMAIN stage = Module,
         stage' = [stage EXCEPT ![list[at]] = done]
  PROVE  /\ at + 1 <= Len(list) + 1
         /\ \A k \in DOMAIN list : IF k < at + 1 THEN stage'[list[k]] = done
                                   ELSE stage'[list[k]] \in before
<1>1. /\ Len(list) \in Nat /\ DOMAIN list = 1 .. Len(list) /\ at \in DOMAIN list
      /\ \A k \in DOMAIN list : list[k] \in Module
  OBVIOUS
<1>2. ASSUME NEW k \in DOMAIN list
      PROVE  IF k < at + 1 THEN stage'[list[k]] = done ELSE stage'[list[k]] \in before
  <2>1. k \in Nat /\ (k < at + 1 <=> k < at \/ k = at)
    BY <1>1
  <2>2. IF k < at THEN stage[list[k]] = done ELSE stage[list[k]] \in before
    BY DEF StagesAlong
  <2>3. CASE k = at
    BY <1>1, <2>1, <2>3
  <2>4. CASE k # at
    <3>1. list[k] # list[at]
      BY <1>1, <2>4
    <3>2. stage'[list[k]] = stage[list[k]]
      BY <1>1, <3>1
    <3>. QED
      BY <2>1, <2>2, <2>4, <3>2
  <2>. QED
    BY <2>3, <2>4
<1>. QED
  BY <1>1, <1>2

\* Where the list is sorted, a phase that goes along it finds what the module
\* at hand imports behind it.
LEMMA ReadyAlong ==
  ASSUME DriverInv, phase \in PastDepending, outcome = "sorted",
         UNCHANGED <<modules, deps>>, NEW n \in Nat, NEW done, NEW before,
         \/ done = "analyzed" /\ before = {"none", "created"}
         \/ done = "lowered" /\ before = {"analyzed"},
         \A k \in DOMAIN sorted : IF k < n THEN stage'[sorted[k]] = done
                                  ELSE stage'[sorted[k]] \in before
  PROVE  ImportsAreReady'
<1>1. /\ sorted \in Seq(Elements(modules)) /\ Elements(sorted) = Elements(modules)
      /\ \A i \in DOMAIN sorted : \A d \in Elements(deps[sorted[i]]) :
           \E k \in 1 .. i - 1 : sorted[k] = d
  BY SortedFacts DEF DriverInv, SortIsDone
<1>2. ASSUME NEW m \in Elements(modules)', NEW d \in Elements(deps'[m])
      PROVE  /\ Reached(m, "analyzed")' => Reached(d, "analyzed")'
             /\ Reached(m, "lowered")' => Reached(d, "lowered")'
  <2>1. m \in Elements(sorted) /\ d \in Elements(deps[m])
    BY <1>1 DEF Elements
  <2>2. PICK i \in DOMAIN sorted : sorted[i] = m
    BY <2>1 DEF Elements
  <2>3. PICK k \in 1 .. i - 1 : sorted[k] = d
    BY <1>1, <2>1, <2>2
  <2>4. DOMAIN sorted = 1 .. Len(sorted) /\ Len(sorted) \in Nat
    BY <1>1
  <2>5. k \in DOMAIN sorted /\ k \in Nat /\ i \in Nat /\ k < i
    BY <2>4
  <2>6. CASE i < n
    <3>1. stage'[m] = done /\ stage'[d] = done
      BY <2>2, <2>3, <2>5, <2>6
    <3>. QED
      BY <3>1, NextStageFacts
  <2>7. CASE ~(i < n)
    <3>1. stage'[m] \in before /\ stage'[d] \in before \cup {done}
      BY <2>2, <2>3, <2>5, <2>7
    <3>2. CASE before = {"none", "created"}
      BY <3>1, <3>2, NextStageFacts
    <3>3. CASE before = {"analyzed"} /\ done = "lowered"
      <4>1. stage'[m] = "analyzed" /\ stage'[d] \in {"analyzed", "lowered"}
        BY <3>1, <3>3
      <4>2. ~Reached(m, "lowered")' /\ Reached(d, "analyzed")'
        BY <4>1, NextStageFacts
      <4>. QED
        BY <4>2
    <3>. QED
      BY <3>2, <3>3
  <2>. QED
    BY <2>6, <2>7
<1>. QED
  BY <1>2 DEF ImportsAreReady

\* Once everything is lowered, everything is ready.
LEMMA EverythingIsLowered ==
  ASSUME DriverInv, UNCHANGED <<modules, deps>>,
         \A m \in Elements(modules) : stage'[m] \in {"lowered", "generated"}
  PROVE  ImportsAreReady'
<1>1. \A m \in Elements(modules) : Elements(deps[m]) \subseteq Elements(modules)
  <2>1. TAKE m \in Elements(modules)
  <2>2. deps[m] \in Seq(Elements(modules))
    BY DriverFacts
  <2>. QED
    BY <2>2 DEF Elements
<1>2. ASSUME NEW m \in Elements(modules)', NEW d \in Elements(deps'[m])
      PROVE  Reached(d, "analyzed")' /\ Reached(d, "lowered")'
  <2>1. d \in Elements(modules)
    BY <1>1 DEF Elements
  <2>. QED
    BY <2>1, NextStageFacts
<1>. QED
  BY <1>2 DEF ImportsAreReady

LEMMA ResolveDependenciesKeeps ==
  ASSUME DriverInv, ResolveDependencies
  PROVE  DriverInv'
<1>1. /\ phase = "resolve" /\ phase' = "resolve" /\ Sort!ResolveStep
      /\ UNCHANGED <<prog, at, fronts, declAt, stage>>
  BY DEF ResolveDependencies
<1>2. modules' = modules /\ deps' = deps
  BY <1>1 DEF Sort!ResolveStep, Sort!SkipScanned, Sort!ScanModule, Sort!RestartScan,
              Sort!FinishScan, Sort!SkipDependency, Sort!VisitDependency,
              Sort!DetectCycle, Sort!FinishModule, Sort!graph
<1>3. Sort!SearchInv'
  BY <1>1, SortGoesOn DEF DriverInv, SortIsDone, PastDepending
<1>4. StagesKeepUp'
  BY <1>1 DEF DriverInv, StagesKeepUp
<1>5. ImportsAreReady'
  BY <1>1, <1>2, ReadyStays DEF DriverInv
<1>. QED
  BY <1>1, <1>2, <1>3, <1>4, <1>5, LaterKeeps, DriverFacts DEF PastDepending

\* What the phases behind the sort start from.
LEMMA LaterFacts ==
  ASSUME DriverInv, phase \in PastDepending
  PROVE  /\ Sort!SearchInv
         /\ UNCHANGED <<modules, deps, sortVars>> => Sort!SearchInv' /\ Sort!GraphOK'
         /\ sorted \in Seq(Module) /\ Len(sorted) \in Nat /\ DOMAIN sorted = 1 .. Len(sorted)
         /\ at \in Nat \ {0} /\ at + 1 \in Nat \ {0}
         /\ DOMAIN stage = Module
         /\ modules # << >>
         /\ {"none", "created", "analyzed", "lowered", "generated"} \subseteq Elements(Stages)
         /\ outcome = "sorted" =>
              /\ Elements(sorted) = Elements(modules)
              /\ \A i, j \in DOMAIN sorted : sorted[i] = sorted[j] => i = j
<1>1. Sort!SearchInv
  BY DEF DriverInv, SortIsDone
<1>2. UNCHANGED <<modules, deps, sortVars>> => Sort!SearchInv' /\ Sort!GraphOK'
  BY <1>1, SortGoesOn, GraphStays DEF DriverInv, DriverTypeOK
<1>3. sorted \in Seq(Module)
  <2>1. sorted \in Seq(Elements(modules)) /\ Elements(modules) \subseteq Module
    BY <1>1, DriverFacts DEF Sort!SearchInv, Sort!TypeOK, Sort!Elements, Elements
  <2>. QED
    BY <2>1
<1>4. {"none", "created", "analyzed", "lowered", "generated"} \subseteq Elements(Stages)
  <2>1. /\ DOMAIN Stages = 1 .. 5
        /\ Stages[1] = "none" /\ Stages[2] = "created" /\ Stages[3] = "analyzed"
        /\ Stages[4] = "lowered" /\ Stages[5] = "generated"
    BY DEF Stages
  <2>. HIDE DEF Stages
  <2>. QED
    BY <2>1 DEF Elements
<1>5. modules # << >>
  BY DEF DriverInv, ModulesAreOfTheirFiles
<1>6. outcome = "sorted" =>
        /\ Elements(sorted) = Elements(modules)
        /\ \A i, j \in DOMAIN sorted : sorted[i] = sorted[j] => i = j
  BY <1>1, SortedFacts
<1>. QED
  BY <1>1, <1>2, <1>3, <1>4, <1>5, <1>6, DriverFacts

LEMMA EndResolvingKeeps ==
  ASSUME DriverInv, EndResolving
  PROVE  DriverInv'
<1>1. /\ phase = "resolve" /\ phase \in PastDepending
      /\ UNCHANGED <<prog, fronts, declAt, stage, modules, deps, sortVars>>
  BY DEF EndResolving, PastDepending
<1>2. Sort!SearchInv' /\ Sort!GraphOK'
  BY <1>1, LaterFacts
<1>3. CASE outcome = "cycle" /\ Fail(TRUE) /\ UNCHANGED at
  BY <1>1, <1>2, <1>3, FailKeeps, DriverFacts DEF Fail
<1>4. CASE outcome = "sorted" /\ Enter("analyze") /\ UNCHANGED reported
  <2>1. phase' = "analyze" /\ at' = 1 /\ phase' \in PastDepending
    BY <1>4 DEF Enter, PastDepending
  <2>2. StagesAlong(sorted, "analyzed", {"none", "created"})'
    <3>1. \A m \in Module : stage[m] \in {"none", "created"}
      BY <1>1 DEF DriverInv, StagesKeepUp
    <3>2. 1 <= Len(sorted) + 1 /\ \A k \in DOMAIN sorted : ~(k < 1) /\ sorted[k] \in Module
      BY <1>1, LaterFacts
    <3>3. sorted' = sorted
      BY <1>1 DEF sortVars
    <3>. QED
      BY <1>1, <2>1, <3>1, <3>2, <3>3 DEF StagesAlong
  <2>3. StagesKeepUp'
    BY <2>1, <2>2 DEF StagesKeepUp
  <2>4. ImportsAreReady'
    BY <1>1, ReadyStays DEF DriverInv
  <2>5. outcome' = "sorted"
    BY <1>1, <1>4 DEF sortVars
  <2>. QED
    BY <1>1, <1>2, <2>1, <2>3, <2>4, <2>5, LaterKeeps, DriverFacts
<1>. QED
  BY <1>3, <1>4 DEF EndResolving

LEMMA AnalyzeModuleKeeps ==
  ASSUME DriverInv, AnalyzeModule
  PROVE  DriverInv'
<1>1. /\ phase = "analyze" /\ phase \in PastDepending /\ at <= Len(sorted)
      /\ UNCHANGED <<prog, fronts, declAt, modules, deps, sortVars>>
      /\ outcome = "sorted" /\ outcome' = "sorted" /\ sorted' = sorted
      /\ StagesAlong(sorted, "analyzed", {"none", "created"})
  BY DEF AnalyzeModule, PastDepending, DriverInv, SortIsDone, StagesKeepUp, sortVars
<1>2. Sort!SearchInv' /\ Sort!GraphOK'
  BY <1>1, LaterFacts
<1>3. CASE /\ stage' = [stage EXCEPT ![sorted[at]] = "analyzed"]
           /\ at' = at + 1
           /\ UNCHANGED <<phase, reported>>
  <2>1. /\ at + 1 <= Len(sorted) + 1
        /\ \A k \in DOMAIN sorted : IF k < at + 1 THEN stage'[sorted[k]] = "analyzed"
                                    ELSE stage'[sorted[k]] \in {"none", "created"}
    BY <1>1, <1>3, OneMoreAlong, LaterFacts
  <2>2. StagesAlong(sorted, "analyzed", {"none", "created"})'
    BY <1>1, <1>3, <2>1 DEF StagesAlong
  <2>3. StagesKeepUp'
    BY <1>1, <1>3, <2>2 DEF StagesKeepUp
  <2>4. ImportsAreReady'
    BY <1>1, <2>1, ReadyAlong, LaterFacts
  <2>5. stage' \in [Module -> Elements(Stages)]
    BY <1>1, <1>3, LaterFacts, DriverFacts
  <2>. QED
    BY <1>1, <1>2, <1>3, <2>3, <2>4, <2>5, LaterKeeps, LaterFacts
<1>4. CASE (\E message \in BOOLEAN : Fail(message)) /\ UNCHANGED <<stage, at>>
  BY <1>1, <1>2, <1>4, FailKeeps, DriverFacts DEF Fail
<1>. QED
  BY <1>3, <1>4 DEF AnalyzeModule

LEMMA EndAnalysisKeeps ==
  ASSUME DriverInv, EndAnalysis
  PROVE  DriverInv'
<1>1. /\ phase = "analyze" /\ phase \in PastDepending /\ at > Len(sorted)
      /\ phase' = "lower" /\ phase' \in PastDepending /\ at' = 1
      /\ UNCHANGED <<prog, fronts, declAt, stage, modules, deps, sortVars>>
      /\ outcome = "sorted" /\ outcome' = "sorted" /\ sorted' = sorted
      /\ StagesAlong(sorted, "analyzed", {"none", "created"})
  BY DEF EndAnalysis, Enter, PastDepending, DriverInv, SortIsDone, StagesKeepUp, sortVars
<1>2. StagesAlong(sorted, "lowered", {"analyzed"})'
  <2>1. 1 <= Len(sorted) + 1 /\ \A k \in DOMAIN sorted : k < at /\ ~(k < 1)
    BY <1>1, LaterFacts
  <2>. QED
    BY <1>1, <2>1 DEF StagesAlong
<1>3. StagesKeepUp'
  BY <1>1, <1>2 DEF StagesKeepUp
<1>4. ImportsAreReady'
  BY <1>1, ReadyStays DEF DriverInv
<1>. QED
  BY <1>1, <1>3, <1>4, LaterKeeps, LaterFacts, DriverFacts

LEMMA LowerModuleKeeps ==
  ASSUME DriverInv, LowerModule
  PROVE  DriverInv'
<1>1. /\ phase = "lower" /\ phase \in PastDepending /\ at <= Len(sorted)
      /\ UNCHANGED <<prog, fronts, declAt, modules, deps, sortVars>>
      /\ outcome = "sorted" /\ outcome' = "sorted" /\ sorted' = sorted
      /\ StagesAlong(sorted, "lowered", {"analyzed"})
  BY DEF LowerModule, PastDepending, DriverInv, SortIsDone, StagesKeepUp, sortVars
<1>2. Sort!SearchInv' /\ Sort!GraphOK'
  BY <1>1, LaterFacts
<1>3. CASE /\ stage' = [stage EXCEPT ![sorted[at]] = "lowered"]
           /\ at' = at + 1
           /\ UNCHANGED phase
  <2>1. /\ at + 1 <= Len(sorted) + 1
        /\ \A k \in DOMAIN sorted : IF k < at + 1 THEN stage'[sorted[k]] = "lowered"
                                    ELSE stage'[sorted[k]] \in {"analyzed"}
    BY <1>1, <1>3, OneMoreAlong, LaterFacts
  <2>2. StagesAlong(sorted, "lowered", {"analyzed"})'
    BY <1>1, <1>3, <2>1 DEF StagesAlong
  <2>3. StagesKeepUp'
    BY <1>1, <1>3, <2>2 DEF StagesKeepUp
  <2>4. ImportsAreReady'
    BY <1>1, <2>1, ReadyAlong, LaterFacts
  <2>5. stage' \in [Module -> Elements(Stages)]
    BY <1>1, <1>3, LaterFacts, DriverFacts
  <2>. QED
    BY <1>1, <1>2, <1>3, <2>3, <2>4, <2>5, LaterKeeps, LaterFacts
<1>4. CASE phase' = "aborted" /\ UNCHANGED <<stage, at>>
  <2>1. StagesKeepUp'
    BY <1>4 DEF StagesKeepUp
  <2>2. ImportsAreReady'
    BY <1>1, <1>4, ReadyStays DEF DriverInv
  <2>3. phase' \in PastDepending
    BY <1>4 DEF PastDepending
  <2>. QED
    BY <1>1, <1>2, <1>4, <2>1, <2>2, <2>3, LaterKeeps, DriverFacts
<1>5. CASE phase' = "failed" /\ UNCHANGED <<stage, at>>
  BY <1>1, <1>2, <1>5, FailKeeps, DriverFacts
<1>. QED
  BY <1>3, <1>4, <1>5 DEF LowerModule

LEMMA EndLoweringKeeps ==
  ASSUME DriverInv, EndLowering
  PROVE  DriverInv'
<1>1. /\ phase = "lower" /\ phase \in PastDepending /\ at > Len(sorted) /\ at' = 1
      /\ phase' = (IF prog.printRir THEN "done" ELSE "generate") /\ phase' \in PastDepending
      /\ UNCHANGED <<prog, fronts, declAt, stage, modules, deps, sortVars>>
      /\ outcome = "sorted" /\ outcome' = "sorted"
      /\ StagesAlong(sorted, "lowered", {"analyzed"})
  BY DEF EndLowering, Enter, PastDepending, DriverInv, SortIsDone, StagesKeepUp, sortVars
<1>2. StagesAlong(modules, "generated", {"lowered"})'
  <2>1. \A k \in DOMAIN sorted : stage[sorted[k]] = "lowered"
    <3>1. \A k \in DOMAIN sorted : k < at
      BY <1>1, LaterFacts
    <3>. QED
      BY <1>1, <3>1 DEF StagesAlong
  <2>2. \A m \in Elements(sorted) : stage[m] = "lowered"
    BY <2>1 DEF Elements
  <2>3. \A k \in DOMAIN modules : modules[k] \in Elements(sorted) /\ ~(k < 1)
    <3>1. \A k \in DOMAIN modules : modules[k] \in Elements(modules)
      BY DEF Elements
    <3>. QED
      BY <1>1, <3>1, LaterFacts, DriverFacts
  <2>4. 1 <= Len(modules) + 1
    BY DriverFacts
  <2>. QED
    BY <1>1, <2>2, <2>3, <2>4 DEF StagesAlong
<1>3. StagesKeepUp'
  <2>1. ~(at' > 1)
    BY <1>1
  <2>. QED
    BY <1>1, <1>2, <2>1 DEF StagesKeepUp
<1>4. ImportsAreReady'
  BY <1>1, ReadyStays DEF DriverInv
<1>. QED
  BY <1>1, <1>3, <1>4, LaterKeeps, LaterFacts, DriverFacts

LEMMA GenerateModuleKeeps ==
  ASSUME DriverInv, GenerateModule
  PROVE  DriverInv'
<1>1. /\ phase = "generate" /\ phase \in PastDepending /\ at <= Len(modules)
      /\ UNCHANGED <<prog, fronts, declAt, modules, deps, sortVars>>
      /\ outcome = "sorted" /\ outcome' = "sorted"
      /\ StagesAlong(modules, "generated", {"lowered"})
  BY DEF GenerateModule, PastDepending, DriverInv, SortIsDone, StagesKeepUp, sortVars
<1>2. Sort!SearchInv' /\ Sort!GraphOK'
  BY <1>1, LaterFacts
<1>3. CASE /\ stage' = [stage EXCEPT ![modules[at]] = "generated"]
           /\ output' = modules[at]
           /\ at' = at + 1
           /\ UNCHANGED phase
  <2>1. /\ at + 1 <= Len(modules) + 1
        /\ \A k \in DOMAIN modules : IF k < at + 1 THEN stage'[modules[k]] = "generated"
                                     ELSE stage'[modules[k]] \in {"lowered"}
    BY <1>1, <1>3, OneMoreAlong, LaterFacts, DriverFacts
  <2>2. StagesAlong(modules, "generated", {"lowered"})'
    BY <1>1, <1>3, <2>1 DEF StagesAlong
  <2>3. StagesKeepUp'
    <3>1. at' - 1 = at
      BY <1>1, <1>3, LaterFacts
    <3>. QED
      BY <1>1, <1>3, <2>2, <3>1 DEF StagesKeepUp
  <2>4. ImportsAreReady'
    <3>1. \A m \in Elements(modules) : stage'[m] \in {"lowered", "generated"}
      BY <2>1 DEF Elements
    <3>. QED
      BY <1>1, <3>1, EverythingIsLowered
  <2>5. stage' \in [Module -> Elements(Stages)]
    BY <1>1, <1>3, LaterFacts, DriverFacts
  <2>. QED
    BY <1>1, <1>2, <1>3, <2>3, <2>4, <2>5, LaterKeeps, LaterFacts
<1>4. CASE phase' = "failed" /\ UNCHANGED <<stage, output, at>>
  BY <1>1, <1>2, <1>4, FailKeeps, DriverFacts
<1>. QED
  BY <1>3, <1>4 DEF GenerateModule

LEMMA WriteOutputKeeps ==
  ASSUME DriverInv, WriteOutput
  PROVE  DriverInv'
<1>1. /\ phase = "generate" /\ phase \in PastDepending /\ at > Len(modules) /\ at' = at
      /\ UNCHANGED <<prog, fronts, declAt, stage, output, modules, deps, sortVars>>
      /\ StagesAlong(modules, "generated", {"lowered"})
      /\ at > 1 => output = modules[at - 1]
  BY DEF WriteOutput, PastDepending, DriverInv, StagesKeepUp
<1>2. Sort!SearchInv' /\ Sort!GraphOK'
  BY <1>1, LaterFacts
<1>3. CASE phase' = "done"
  <2>1. at > 1 /\ at - 1 = Len(modules)
    <3>1. at <= Len(modules) + 1 /\ at \in Nat \ {0} /\ Len(modules) \in Nat
      BY <1>1, DriverFacts DEF StagesAlong
    <3>2. Len(modules) # 0
      BY <1>1, LaterFacts, DriverFacts
    <3>. QED
      BY <1>1, <3>1, <3>2
  <2>2. StagesKeepUp'
    BY <1>1, <1>3, <2>1 DEF StagesKeepUp
  <2>3. ImportsAreReady'
    BY <1>1, ReadyStays DEF DriverInv
  <2>4. phase' \in PastDepending
    BY <1>3 DEF PastDepending
  <2>. QED
    BY <1>1, <1>2, <1>3, <2>2, <2>3, <2>4, LaterKeeps, DriverFacts
<1>4. CASE phase' = "failed"
  BY <1>1, <1>2, <1>4, FailKeeps, DriverFacts
<1>. QED
  BY <1>3, <1>4 DEF WriteOutput
-----------------------------------------------------------------------------
(* The whole driver *)

LEMMA StutterKeeps ==
  ASSUME DriverInv, UNCHANGED vars
  PROVE  DriverInv'
<1>1. UNCHANGED <<prog, phase, at, fronts, declAt, stage, output, modules, deps, sortVars>>
  BY DEF vars
<1>2. DriverTypeOK' /\ FrontsAreTheArguments' /\ ModulesAreOfTheirFiles'
  BY <1>1, GraphStays DEF DriverInv, DriverTypeOK, FrontsAreTheArguments,
                          ModulesAreOfTheirFiles, IsRootOf, Front
<1>3. DependenciesAreRequested'
  <2>1. \A n : NamesDiffer(n) => NamesDiffer(n)'
    BY <1>1 DEF NamesDiffer
  <2>2. \A m : DependsOnRequested(m) => DependsOnRequested(m)'
    BY <1>1 DEF DependsOnRequested, Requests
  <2>. QED
    BY <1>1, <2>1, <2>2 DEF DriverInv, DependenciesAreRequested
<1>4. SortIsDone'
  BY <1>1, SortGoesOn DEF DriverInv, SortIsDone, Sort!Fresh, sortVars
<1>5. StagesKeepUp'
  BY <1>1 DEF DriverInv, StagesKeepUp, StagesAlong, sortVars
<1>6. ImportsAreReady'
  BY <1>1, ReadyStays DEF DriverInv
<1>. QED
  BY <1>2, <1>3, <1>4, <1>5, <1>6 DEF DriverInv

LEMMA InitDriver == Init => DriverInv
<1>. SUFFICES ASSUME Init PROVE DriverInv
  OBVIOUS
<1>1. /\ prog \in Programs /\ phase = "fronts" /\ at = 1 /\ fronts = << >> /\ declAt = 1
      /\ stage = [m \in Module |-> "none"] /\ modules = << >>
      /\ deps = [m \in Module |-> << >>] /\ Sort!Fresh
  BY DEF Init
<1>2. DriverTypeOK
  <2>1. "none" \in Elements(Stages)
    <3>1. 1 \in DOMAIN Stages /\ Stages[1] = "none"
      BY DEF Stages
    <3>. QED
      BY <3>1 DEF Elements
  <2>2. Sort!GraphOK
    BY <1>1 DEF Sort!GraphOK
  <2>. QED
    BY <1>1, <2>1, <2>2 DEF DriverTypeOK, Phases
<1>3. FrontsAreTheArguments
  <2>1. Len(prog.args) \in Nat
    BY <1>1, ProgramFacts
  <2>2. DOMAIN fronts = {} /\ Len(fronts) = 0 /\ 0 = 1 - 1 /\ 1 <= Len(prog.args) + 1
    BY <1>1, <2>1
  <2>. QED
    BY <1>1, <2>2 DEF FrontsAreTheArguments
<1>4. ModulesAreOfTheirFiles /\ DependenciesAreRequested /\ SortIsDone /\ StagesKeepUp
  BY <1>1 DEF ModulesAreOfTheirFiles, DependenciesAreRequested, SortIsDone, StagesKeepUp,
              PastDepending
<1>5. ImportsAreReady
  <2>1. Elements(modules) = {}
    BY <1>1 DEF Elements
  <2>. QED
    BY <2>1 DEF ImportsAreReady
<1>. QED
  BY <1>2, <1>3, <1>4, <1>5 DEF DriverInv

LEMMA StepDriver == DriverInv /\ [Next]_vars => DriverInv'
<1>. SUFFICES ASSUME DriverInv, [Next]_vars PROVE DriverInv'
  OBVIOUS
<1>1. CASE NewFront \/ NewStdlibFront \/ CreateModule \/ SyntaxError \/ FinalizeParsing \/ EndParsing
  BY <1>1, NewFrontKeeps, NewStdlibFrontKeeps, CreateModuleKeeps, SyntaxErrorKeeps,
     FinalizeParsingKeeps, EndParsingKeeps
<1>2. CASE DuplicateName \/ DetermineDependencies \/ MissingDependency \/ EndDepending
  BY <1>2, DuplicateNameKeeps, DetermineDependenciesKeeps, MissingDependencyKeeps,
     EndDependingKeeps
<1>3. CASE ResolveDependencies \/ EndResolving \/ AnalyzeModule \/ EndAnalysis
  BY <1>3, ResolveDependenciesKeeps, EndResolvingKeeps, AnalyzeModuleKeeps, EndAnalysisKeeps
<1>4. CASE LowerModule \/ EndLowering \/ GenerateModule \/ WriteOutput
  BY <1>4, LowerModuleKeeps, EndLoweringKeeps, GenerateModuleKeeps, WriteOutputKeeps
<1>5. CASE UNCHANGED vars
  BY <1>5, StutterKeeps
<1>. QED
  BY <1>1, <1>2, <1>3, <1>4, <1>5 DEF Next, Step

\* What compiler_pass_args() and compiler_process() maintain: the fronts are the
\* command line, the modules those of the fronts, the dependencies those asked
\* for, the sorted list that of the sort, and every phase finds what the phases
\* before it have done.
THEOREM DriverIsSound == Spec => []DriverInv
<1>. QED
  BY InitDriver, StepDriver, PTL DEF Spec

\* Whatever the order of the files, the first module is the standard library's,
\* with which bllvm_ir_generate() links the others; and the last one, whose LLVM
\* module is written, the root of the first file's, if it has a function main.
THEOREM FrontsKeepPlaces == Spec => []FrontsKeepTheirPlaces
<1>1. DriverInv => FrontsKeepTheirPlaces
  <2>. SUFFICES ASSUME DriverInv PROVE FrontsKeepTheirPlaces
    OBVIOUS
  <2>1. StdlibIsFirst
    BY ProgramFacts, DriverFacts DEF DriverInv, ModulesAreOfTheirFiles, StdlibIsFirst
  <2>2. MainFirstIsEmitted
    BY DEF DriverInv, ModulesAreOfTheirFiles, StagesKeepUp, IsRootOf, MainFirstIsEmitted,
           PastDepending
  <2>. QED
    BY <2>1, <2>2 DEF FrontsKeepTheirPlaces
<1>. QED
  BY <1>1, DriverIsSound, PTL

\* What module_determine_dependencies() found for an import is the only module
\* of that name, also among those that other files create.
THEOREM ImportsAreOfOneModule == Spec => []ImportsAreUnambiguous
<1>1. DriverInv => ImportsAreUnambiguous
  <2>. SUFFICES ASSUME DriverInv, phase \in PastDepending, NEW m \in Elements(modules)
                PROVE  /\ Len(deps[m]) = Len(Requests(m))
                       /\ \A i \in DOMAIN deps[m] :
                            {k \in DOMAIN modules : prog.name[modules[k]] = Requests(m)[i]}
                              = {k \in DOMAIN modules : modules[k] = deps[m][i]}
    BY DEF ImportsAreUnambiguous
  <2>1. NamesDiffer(Len(modules)) /\ \A i \in DOMAIN modules : DependsOnRequested(modules[i])
    BY DEF DriverInv, DependenciesAreRequested
  <2>2. DependsOnRequested(m)
    BY <2>1 DEF Elements
  <2>3. deps[m] \in Seq(Elements(modules)) /\ DOMAIN modules = 1 .. Len(modules)
    BY DriverFacts
  <2>4. ASSUME NEW i \in DOMAIN deps[m], NEW k \in DOMAIN modules
        PROVE  prog.name[modules[k]] = Requests(m)[i] <=> modules[k] = deps[m][i]
    <3>1. deps[m][i] \in Elements(modules)
      BY <2>3
    <3>2. PICK j \in DOMAIN modules : deps[m][i] = modules[j]
      BY <3>1 DEF Elements
    <3>3. prog.name[modules[j]] = Requests(m)[i]
      BY <2>2, <3>2 DEF DependsOnRequested
    <3>. QED
      BY <2>1, <2>3, <3>2, <3>3 DEF NamesDiffer
  <2>. QED
    BY <2>2, <2>4 DEF DependsOnRequested
<1>. QED
  BY <1>1, DriverIsSound, PTL

\* No module is analyzed, or lowered, before all it imports: it finds their
\* symbol tables, and the type sets of their RIR modules.
THEOREM ImportsComeFirst == Spec => []ImportsAreReady
<1>1. DriverInv => ImportsAreReady
  BY DEF DriverInv
<1>. QED
  BY <1>1, DriverIsSound, PTL

\* The code generator meets no module without RIR, although it walks another
\* list than rir_process() did.
THEOREM GenerationFindsTheRir == Spec => []GeneratedWasLowered
<1>1. DriverInv => GeneratedWasLowered
  <2>. SUFFICES ASSUME DriverInv, phase = "generate", NEW m \in Elements(modules)
                PROVE  Reached(m, "lowered")
    BY DEF GeneratedWasLowered
  <2>1. \A k \in DOMAIN modules : stage[modules[k]] \in {"lowered", "generated"}
    BY DEF DriverInv, StagesKeepUp, StagesAlong
  <2>. QED
    BY <2>1, StageFacts DEF Elements
<1>. QED
  BY <1>1, DriverIsSound, PTL

\* The standard library is there when a main module asks for it: of the names
\* asked for, only an import can be missing, which is reported.
LEMMA FailureIsReported ==
  ASSUME DriverInv, [Next]_vars, phase \in {"parse", "depend", "resolve"}, phase' = "failed"
  PROVE  reported' = TRUE
<1>1. CASE SyntaxError \/ FinalizeParsing \/ DuplicateName \/ EndResolving
  BY <1>1 DEF SyntaxError, FinalizeParsing, DuplicateName, EndResolving, Fail, Enter, Parsing
<1>2. CASE MissingDependency
  <2>. DEFINE m == modules[at]
              wanted == Requests(m)
  <2>1. PICK k \in DOMAIN wanted : Named(wanted[k]) = {} /\ Fail(k <= Len(prog.imports[m]))
    BY <1>2 DEF MissingDependency
  <2>2. m \in Module /\ Len(wanted) \in Nat /\ DOMAIN wanted = 1 .. Len(wanted)
    BY <1>2, DependingFacts DEF MissingDependency
  <2>3. prog.imports[m] \in Seq(Name) /\ Len(prog.imports[m]) \in Nat
    <3>1. prog.imports[m] \in Seq(Name)
      BY <2>2, ProgramFacts, DriverFacts
    <3>. QED
      BY <3>1
  <2>4. Named(StdlibName) # {}
    <3>1. phase = "depend" /\ phase # "fronts"
      BY <1>2 DEF MissingDependency, Depending
    <3>2. modules # << >> /\ modules[1] = prog.decls[Stdlib][1] /\ 1 \in DOMAIN modules
      BY <3>1, DriverFacts DEF DriverInv, ModulesAreOfTheirFiles
    <3>3. prog.name[modules[1]] = StdlibName
      BY <3>2, ProgramFacts, DriverFacts
    <3>. QED
      BY <3>2, <3>3 DEF Named
  <2>5. k <= Len(prog.imports[m])
    <3>1. SUFFICES ASSUME ~(k <= Len(prog.imports[m])) PROVE FALSE
      OBVIOUS
    <3>2. CASE prog.useStdlib /\ prog.name[m] = MainName
      <4>1. wanted = prog.imports[m] \o <<StdlibName>>
        BY <3>2 DEF Requests
      <4>2. Len(wanted) = Len(prog.imports[m]) + 1
            /\ wanted[Len(prog.imports[m]) + 1] = StdlibName
        BY <2>3, <4>1
      <4>3. k = Len(prog.imports[m]) + 1
        BY <2>2, <2>3, <3>1, <4>2
      <4>. QED
        BY <2>1, <2>4, <4>2, <4>3
    <3>3. CASE ~(prog.useStdlib /\ prog.name[m] = MainName)
      <4>1. wanted = prog.imports[m] \o << >>
        BY <3>3 DEF Requests
      <4>2. Len(wanted) = Len(prog.imports[m])
        BY <2>3, <4>1
      <4>. QED
        BY <2>2, <2>3, <3>1, <4>2
    <3>. QED
      BY <3>2, <3>3
  <2>. QED
    BY <2>1, <2>5 DEF Fail
<1>3. CASE \/ NewFront \/ NewStdlibFront \/ CreateModule \/ EndParsing \/ DetermineDependencies
           \/ EndDepending \/ ResolveDependencies \/ AnalyzeModule \/ EndAnalysis
           \/ LowerModule \/ EndLowering \/ GenerateModule \/ WriteOutput \/ UNCHANGED vars
  BY <1>3 DEF NewFront, NewStdlibFront, CreateModule, EndParsing, DetermineDependencies,
       EndDepending, ResolveDependencies, AnalyzeModule, EndAnalysis, LowerModule, EndLowering,
       GenerateModule, WriteOutput, vars, Enter, Parsing, Depending
<1>. QED
  BY <1>1, <1>2, <1>3 DEF Next, Step

\* Up to the sort of the modules no failure is without a message.
THEOREM FailuresAreReported == Spec => FrontEndFailureIsReported
<1>1. DriverInv /\ [Next]_vars =>
        [(phase \in {"parse", "depend", "resolve"} /\ phase' = "failed")
           => (reported' = TRUE)]_vars
  BY FailureIsReported
<1>. QED
  BY <1>1, DriverIsSound, PTL DEF Spec, FrontEndFailureIsReported
=============================================================================
