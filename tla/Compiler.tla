------------------------------ MODULE Compiler ------------------------------
(***************************************************************************)
(* The driver of one compilation: compiler_pass_args() and                 *)
(* compiler_process() (src/compiler.c) with the steps they make in         *)
(* front_ctx.c, module.c, the top of the parser, rir.c and llvm.c.         *)
(*                                                                         *)
(* A front is an input file. Parsing a front creates a module for each     *)
(* module statement and, when the file has a function main, one for the    *)
(* file's root node. What a file contains is given by prog; the verdicts   *)
(* of the lexer and grammar (prog.broken), of the analysis and of the code *)
(* generators on one module are left open.                                 *)
(***************************************************************************)
EXTENDS ModuleGraph

CONSTANTS
  File,        \* input files
  Stdlib,      \* the file stdlib/io.rf, which is no argument of the program
  Name,        \* module names
  StdlibName,  \* "stdlib"
  MainName,    \* "main", the name of every root node's module
  Programs,    \* the compilations a run starts from
  NoModule, NoFile

\* args:    the files on the command line, in order
\* decls:   the module statements of each file, in order
\* root:    the root node of a file that has a function main
\* broken:  files with a syntax error behind their last module statement
\* name, imports: what a module is called and, in order, what the import
\*          statements in its subtree ask for
\* useStdlib: compiler.use_stdlib; printRir: the --print-rir argument
\*
\* A file given twice on the command line is two elements of File, with modules
\* of their own that bear the same names. The standard library's file is part
\* of the sources: one module, which imports nothing but C functions.
AllFiles == File \cup {Stdlib}
OwnModules(p, f) == Elements(p.decls[f]) \cup ({p.root[f]} \ {NoModule})

IsProgram(p) ==
  /\ p.args \in Seq(File)
  /\ \A i, j \in DOMAIN p.args : p.args[i] = p.args[j] => i = j
  /\ p.decls \in [AllFiles -> Seq(Module)]
  /\ p.root \in [AllFiles -> Module \cup {NoModule}]
  /\ \A f \in AllFiles : /\ p.root[f] \notin Elements(p.decls[f])
                         /\ \A i, j \in DOMAIN p.decls[f] :
                              p.decls[f][i] = p.decls[f][j] => i = j
  /\ \A f, g \in AllFiles :
       f # g => OwnModules(p, f) \cap OwnModules(p, g) = {}
  /\ p.broken \subseteq File
  /\ p.name \in [Module -> Name]
  /\ p.imports \in [Module -> Seq(Name)]
  /\ p.useStdlib \in BOOLEAN /\ p.printRir \in BOOLEAN
  /\ \A f \in File : p.root[f] # NoModule => p.name[p.root[f]] = MainName
  /\ p.root[Stdlib] = NoModule
  /\ Len(p.decls[Stdlib]) = 1
  /\ LET s == p.decls[Stdlib][1]
     IN p.name[s] = StdlibName /\ p.imports[s] = << >>

ASSUME ProgramsAssumption == \A p \in Programs : IsProgram(p)
ASSUME SentinelsAssumption ==
  NoModule \notin Module /\ NoFile \notin File /\ Stdlib \notin File

VARIABLES
  prog,       \* the compilation at hand; never changes
  phase,      \* where compiler_process() stands
  at,         \* the position of the loop of that phase
  fronts,     \* compiler.front_ctxs
  declAt,     \* module statements parsed in the front at hand, plus one
  mainFront,  \* compiler.main_front
  stage,      \* what has been done to each module
  reported,   \* an error message is in the info context of some front
  output,     \* the module whose LLVM IR is written to the output file
  modules, deps,                                          \* compiler.modules
  marks, scan, unmarkedFound, stack, cursor, sorted, outcome, culprit

sortVars == <<marks, scan, unmarkedFound, stack, cursor, sorted, outcome,
              culprit>>
vars == <<prog, phase, at, fronts, declAt, mainFront, stage, reported, output,
          modules, deps, sortVars>>

\* compiler_resolve_dependencies()
Sort == INSTANCE DependencySort WITH Graphs <- {}

Fail(message) ==
  /\ phase' = "failed"
  /\ reported' = (reported \/ message)

Enter(p) == phase' = p /\ at' = 1
-----------------------------------------------------------------------------
Init ==
  /\ prog \in Programs
  /\ phase = "fronts" /\ at = 1
  /\ fronts = << >> /\ declAt = 1 /\ mainFront = NoFile
  /\ stage = [m \in Module |-> "none"]
  /\ reported = FALSE /\ output = NoModule
  /\ modules = << >> /\ deps = [m \in Module |-> << >>]
  /\ Sort!Fresh

\* Faulty: fronts are kept in the order of the command line.
AddFront_AtTail(f) == fronts' = Append(fronts, f)

\* compiler_new_front(): at the head of the list.
AddFront(f) == fronts' = <<f>> \o fronts

NewFront ==
  /\ phase = "fronts"
  /\ at <= Len(prog.args)
  /\ AddFront(prog.args[at])
  /\ at' = at + 1
  /\ UNCHANGED <<prog, phase, declAt, mainFront, stage, reported, output,
                 modules, deps, sortVars>>

\* compiler_process() adds the standard library before anything is parsed.
NewStdlibFront ==
  /\ phase = "fronts"
  /\ at > Len(prog.args)
  /\ AddFront(Stdlib)
  /\ Enter("parse")
  /\ UNCHANGED <<prog, declAt, mainFront, stage, reported, output, modules,
                 deps, sortVars>>

Parsing == phase = "parse" /\ at <= Len(fronts)
Front == fronts[at]

\* module_create()
NewModule(m) ==
  /\ modules' = Append(modules, m)
  /\ stage' = [stage EXCEPT ![m] = "created"]

\* compiler_set_main(): there is one main front at most.
SetMain(f) == mainFront = NoFile /\ mainFront' = f

\* parser_acc_stmt() on a module statement: the module is created at once.
CreateModule ==
  /\ Parsing
  /\ declAt <= Len(prog.decls[Front])
  /\ NewModule(prog.decls[Front][declAt])
  /\ declAt' = declAt + 1
  /\ UNCHANGED <<prog, phase, at, fronts, mainFront, reported, output, deps,
                 sortVars>>

SyntaxError ==
  /\ Parsing
  /\ declAt > Len(prog.decls[Front])
  /\ Front \in prog.broken
  /\ Fail(TRUE)
  /\ UNCHANGED <<prog, at, fronts, declAt, mainFront, stage, output, modules,
                 deps, sortVars>>

\* parser_finalize_parsing(): a file with a function main becomes the main
\* front, unless there is one already, and its root node a module.
FinalizeParsing ==
  /\ Parsing
  /\ declAt > Len(prog.decls[Front])
  /\ Front \notin prog.broken
  /\ LET root == prog.root[Front] IN
     \/ /\ root = NoModule
        /\ UNCHANGED <<phase, reported, mainFront, modules, stage>>
        /\ at' = at + 1
     \/ /\ root # NoModule
        /\ SetMain(Front)
        /\ NewModule(root)
        /\ at' = at + 1
        /\ UNCHANGED <<phase, reported>>
     \/ /\ root # NoModule /\ mainFront # NoFile
        /\ Fail(TRUE)
        /\ UNCHANGED <<mainFront, modules, stage, at>>
  /\ declAt' = 1
  /\ UNCHANGED <<prog, fronts, output, deps, sortVars>>

EndParsing ==
  /\ phase = "parse"
  /\ at > Len(fronts)
  /\ Enter("depend")
  /\ UNCHANGED <<prog, fronts, declAt, mainFront, stage, reported, output,
                 modules, deps, sortVars>>
-----------------------------------------------------------------------------
\* compiler_module_get(): the first module of that name, in creation order.
Named(name) == {i \in DOMAIN modules : prog.name[modules[i]] = name}
ModuleGet(name) ==
  modules[CHOOSE i \in Named(name) : \A j \in Named(name) : i <= j]

\* What module_determine_dependencies() asks for, in order: the imports, then
\* the standard library if m is the main module.
Requests(m) ==
  prog.imports[m] \o (IF prog.useStdlib /\ prog.name[m] = MainName
                      THEN <<StdlibName>> ELSE << >>)

Depending == phase = "depend" /\ at <= Len(modules)

\* The names of the modules before this one are in mod_names_set.
DuplicateName ==
  /\ Depending
  /\ \E i \in 1 .. at - 1 : prog.name[modules[i]] = prog.name[modules[at]]
  /\ Fail(TRUE)
  /\ UNCHANGED <<prog, at, fronts, declAt, mainFront, stage, output, modules,
                 deps, sortVars>>

\* Faulty: only the name of the preceding module is compared.
NewName_Adjacent ==
  at > 1 => prog.name[modules[at - 1]] # prog.name[modules[at]]

NewName ==
  \A i \in 1 .. at - 1 : prog.name[modules[i]] # prog.name[modules[at]]

DetermineDependencies ==
  /\ Depending
  /\ NewName
  /\ LET wanted == Requests(modules[at]) IN
     /\ \A i \in DOMAIN wanted : Named(wanted[i]) # {}
     /\ deps' = [deps EXCEPT ![modules[at]] =
                   [i \in DOMAIN wanted |-> ModuleGet(wanted[i])]]
  /\ at' = at + 1
  /\ UNCHANGED <<prog, phase, fronts, declAt, mainFront, stage, reported,
                 output, modules, sortVars>>

\* An import that is not found is reported; a standard library that is not
\* found is only logged. What was found before it stays in the list.
MissingDependency ==
  /\ Depending
  /\ NewName
  /\ LET wanted == Requests(modules[at]) IN
     \E k \in DOMAIN wanted :
       /\ Named(wanted[k]) = {}
       /\ \A i \in 1 .. k - 1 : Named(wanted[i]) # {}
       /\ deps' = [deps EXCEPT ![modules[at]] =
                     [i \in 1 .. k - 1 |-> ModuleGet(wanted[i])]]
       /\ Fail(k <= Len(prog.imports[modules[at]]))
  /\ UNCHANGED <<prog, at, fronts, declAt, mainFront, stage, output, modules,
                 sortVars>>

EndDepending ==
  /\ phase = "depend"
  /\ at > Len(modules)
  /\ Enter("resolve")
  /\ UNCHANGED <<prog, fronts, declAt, mainFront, stage, reported, output,
                 modules, deps, sortVars>>

ResolveDependencies ==
  /\ phase = "resolve"
  /\ Sort!ResolveStep
  /\ UNCHANGED <<prog, phase, at, fronts, declAt, mainFront, stage, reported,
                 output>>

\* Faulty: the cycle is found and not reported.
EndResolving_Silent ==
  /\ phase = "resolve"
  /\ outcome # "running"
  /\ \/ outcome = "cycle" /\ Fail(FALSE) /\ UNCHANGED at
     \/ outcome = "sorted" /\ Enter("analyze") /\ UNCHANGED reported
  /\ UNCHANGED <<prog, fronts, declAt, mainFront, stage, output, modules, deps,
                 sortVars>>

EndResolving ==
  /\ phase = "resolve"
  /\ outcome # "running"
  /\ \/ outcome = "cycle" /\ Fail(TRUE) /\ UNCHANGED at
     \/ outcome = "sorted" /\ Enter("analyze") /\ UNCHANGED reported
  /\ UNCHANGED <<prog, fronts, declAt, mainFront, stage, output, modules, deps,
                 sortVars>>
-----------------------------------------------------------------------------
\* Faulty: modules are analyzed in the order of their creation.
AnalyzeModule_InCreationOrder ==
  /\ phase = "analyze"
  /\ at <= Len(sorted)
  /\ \/ /\ stage' = [stage EXCEPT ![modules[at]] = "analyzed"]
        /\ at' = at + 1
        /\ UNCHANGED <<phase, reported>>
     \/ /\ \E message \in BOOLEAN : Fail(message)
        /\ UNCHANGED <<stage, at>>
  /\ UNCHANGED <<prog, fronts, declAt, mainFront, output, modules, deps,
                 sortVars>>

\* module_analyze() on the next module of the sorted list. The symbol tables
\* and types of the modules it imports are looked into on the way. A failure
\* of the finalization leaves no message.
AnalyzeModule ==
  /\ phase = "analyze"
  /\ at <= Len(sorted)
  /\ \/ /\ stage' = [stage EXCEPT ![sorted[at]] = "analyzed"]
        /\ at' = at + 1
        /\ UNCHANGED <<phase, reported>>
     \/ /\ \E message \in BOOLEAN : Fail(message)
        /\ UNCHANGED <<stage, at>>
  /\ UNCHANGED <<prog, fronts, declAt, mainFront, output, modules, deps,
                 sortVars>>

EndAnalysis ==
  /\ phase = "analyze"
  /\ at > Len(sorted)
  /\ Enter("lower")
  /\ UNCHANGED <<prog, fronts, declAt, mainFront, stage, reported, output,
                 modules, deps, sortVars>>

\* rir_fndecl_byname() for a function that is not in the caller's own RIR
\* looks into the first dependency and asserts that it is the standard
\* library.
FirstDependencyIsStdlib(m) == prog.name[deps[m][1]] = StdlibName

\* rir_process_do() on the next module of the sorted list: it takes over the
\* module's types, makes typedefs of them and of those of the RIR modules it
\* depends on, and lowers the functions. A call of a function of another
\* module needs a dependency to have passed the type check.
LowerModule ==
  /\ phase = "lower"
  /\ at <= Len(sorted)
  /\ LET m == sorted[at] IN
     \/ \* no call leaves the module, or all of them find the standard library
        /\ stage' = [stage EXCEPT ![m] = "lowered"]
        /\ at' = at + 1
        /\ UNCHANGED phase
     \/ \* a call leaves the module
        /\ deps[m] # << >>
        /\ ~FirstDependencyIsStdlib(m)
        /\ phase' = "aborted"
        /\ UNCHANGED <<stage, at>>
     \/ \* some conversion to RIR fails: logged only
        /\ phase' = "failed"
        /\ UNCHANGED <<stage, at>>
  /\ UNCHANGED <<prog, fronts, declAt, mainFront, reported, output, modules,
                 deps, sortVars>>

\* Faulty: the last module is not lowered.
EndLowering_OffByOne ==
  /\ phase = "lower"
  /\ at >= Len(sorted)
  /\ Enter(IF prog.printRir THEN "done" ELSE "generate")
  /\ UNCHANGED <<prog, fronts, declAt, mainFront, stage, reported, output,
                 modules, deps, sortVars>>

EndLowering ==
  /\ phase = "lower"
  /\ at > Len(sorted)
  /\ Enter(IF prog.printRir THEN "done" ELSE "generate")
  /\ UNCHANGED <<prog, fronts, declAt, mainFront, stage, reported, output,
                 modules, deps, sortVars>>

\* bllvm_ir_generate() walks the modules in creation order, not in the sorted
\* one; each module but the first is linked with the LLVM module of the first.
\* The variable the loop leaves behind holds the last one.
GenerateModule ==
  /\ phase = "generate"
  /\ at <= Len(modules)
  /\ \/ /\ stage' = [stage EXCEPT ![modules[at]] = "generated"]
        /\ output' = modules[at]
        /\ at' = at + 1
        /\ UNCHANGED phase
     \/ phase' = "failed" /\ UNCHANGED <<stage, output, at>>
  /\ UNCHANGED <<prog, fronts, declAt, mainFront, reported, modules, deps,
                 sortVars>>

\* The output is written, assembled and linked by external programs.
WriteOutput ==
  /\ phase = "generate"
  /\ at > Len(modules)
  /\ phase' \in {"done", "failed"}
  /\ UNCHANGED <<prog, at, fronts, declAt, mainFront, stage, reported, output,
                 modules, deps, sortVars>>

Step ==
  \/ NewFront \/ NewStdlibFront
  \/ CreateModule \/ SyntaxError \/ FinalizeParsing \/ EndParsing
  \/ DuplicateName \/ DetermineDependencies \/ MissingDependency \/ EndDepending
  \/ ResolveDependencies \/ EndResolving
  \/ AnalyzeModule \/ EndAnalysis
  \/ LowerModule \/ EndLowering
  \/ GenerateModule \/ WriteOutput

Ended == phase \in {"done", "failed", "aborted"}

Next == Step \/ (Ended /\ UNCHANGED vars)

\* One thread runs the driver from main() to its end.
Spec == Init /\ [][Next]_vars /\ WF_vars(Step)
-----------------------------------------------------------------------------
Stages == <<"none", "created", "analyzed", "lowered", "generated">>
Reached(m, s) ==
  \E i, j \in DOMAIN Stages : Stages[i] = s /\ Stages[j] = stage[m] /\ i <= j

PastDepending == {"resolve", "analyze", "lower", "generate", "done", "aborted"}

LoopEnd ==
  CASE phase = "fronts" -> Len(prog.args)
    [] phase = "parse" -> Len(fronts)
    [] phase \in {"depend", "generate"} -> Len(modules)
    [] phase \in {"analyze", "lower"} -> Len(sorted)
    [] OTHER -> Len(modules) + Len(sorted) + Len(fronts)

\* The first module ever created is the standard library: bllvm_ir_generate()
\* links every other LLVM module with that of modules[0] and names that one
\* "stdlib", whatever order the files were given in.
StdlibIsFirst ==
  modules # << >> => prog.name[modules[1]] = StdlibName

\* What an import resolved to is the one module of that name in the whole
\* compilation, also among those created after the importing module: a list of
\* dependencies that passes preprocessing does not depend on the order of files.
ImportsAreUnambiguous ==
  phase \in PastDepending =>
    \A m \in Elements(modules) :
      /\ Len(deps[m]) = Len(Requests(m))
      /\ \A i \in DOMAIN deps[m] :
           {k \in DOMAIN modules : prog.name[modules[k]] = Requests(m)[i]}
             = {k \in DOMAIN modules : modules[k] = deps[m][i]}

\* A module is analyzed only after all it imports is (its symbol lookups fall
\* through to the symbol tables of its dependencies), and lowered only after
\* all it imports is lowered (rir_create_typedefs() reads the type sets that
\* rir_move_from_module() hands to each dependency's RIR).
ImportsAreReady ==
  \A m \in Elements(modules) : \A d \in Elements(deps[m]) :
    /\ Reached(m, "analyzed") => Reached(d, "analyzed")
    /\ Reached(m, "lowered") => Reached(d, "lowered")

\* The code generator walks compiler.modules and dereferences the RIR of every
\* member, while analysis and lowering walk compiler.sorted_modules: by then no
\* module of the one list may be missing from the other.
GeneratedWasLowered ==
  phase = "generate" =>
    \A m \in Elements(modules) : Reached(m, "lowered")

\* If the file with the function main is the first on the command line, the
\* LLVM module that is written out is the one of its root node. (The output is
\* simply the last module created; for a main file in any other place it is
\* a module of another file.)
MainFirstIsEmitted ==
  phase = "done" /\ ~prog.printRir /\ prog.args # << >> =>
    LET root == prog.root[prog.args[1]]
    IN root # NoModule => output = root

\* The list of fronts is built from its head and read from its head.
FrontsKeepTheirPlaces == StdlibIsFirst /\ MainFirstIsEmitted

\* Whatever is wrong with the files, their names, imports or main functions,
\* the failure leaves a message for compiler_print_errors(): up to dependency
\* resolution "Unknown compiler error detected." is never the answer.
FrontEndFailureIsReported ==
  [][(phase \in {"parse", "depend", "resolve"} /\ phase' = "failed")
       => (reported' = TRUE)]_vars

\* The assertion of rir_fndecl_byname(): the first dependency of a module that
\* calls a function of another module is the standard library.
AssertionHolds == phase # "aborted"
-----------------------------------------------------------------------------
\* What the driver maintains between two of its steps.

Phases == {"fronts", "parse", "depend", "failed"} \cup PastDepending

DriverTypeOK ==
  /\ prog \in Programs
  /\ phase \in Phases
  /\ at \in Nat \ {0} /\ declAt \in Nat \ {0}
  /\ fronts \in Seq(AllFiles)
  /\ stage \in [Module -> Elements(Stages)]
  /\ Sort!GraphOK

\* The list of fronts is the command line from its end, behind the library.
FrontsAreTheArguments ==
  IF phase = "fronts"
  THEN /\ Len(fronts) = at - 1 /\ at <= Len(prog.args) + 1
       /\ \A k \in DOMAIN fronts : fronts[k] = prog.args[at - k]
  ELSE phase # "failed" =>
         /\ Len(fronts) = Len(prog.args) + 1 /\ fronts[1] = Stdlib
         /\ \A k \in 2 .. Len(fronts) : fronts[k] = prog.args[Len(prog.args) + 2 - k]

IsRootOf(m, f) == prog.root[f] # NoModule => m = prog.root[f]

\* Modules belong to the fronts that were parsed, the library's comes first and
\* that of a file's root node last.
ModulesAreOfTheirFiles ==
  /\ phase = "fronts" => modules = << >> /\ declAt = 1
  /\ phase = "parse" =>
       /\ at <= Len(fronts) + 1 /\ (at = Len(fronts) + 1 => declAt = 1)
       /\ at <= Len(fronts) => declAt <= Len(prog.decls[Front]) + 1
       /\ \A m \in Elements(modules) :
            \/ \E k \in 1 .. at - 1 : m \in OwnModules(prog, fronts[k])
            \/ \E j \in 1 .. declAt - 1 : m = prog.decls[Front][j]
       /\ modules = << >> <=> at = 1 /\ declAt = 1
       /\ at > 1 /\ declAt = 1 => IsRootOf(modules[Len(modules)], fronts[at - 1])
  /\ phase \in {"depend"} \cup PastDepending =>
       /\ modules # << >>
       /\ prog.args # << >> => IsRootOf(modules[Len(modules)], prog.args[1])
  /\ modules # << >> => modules[1] = prog.decls[Stdlib][1]

NamesDiffer(n) ==
  \A i, j \in 1 .. n : prog.name[modules[i]] = prog.name[modules[j]] => i = j
DependsOnRequested(m) ==
  /\ Len(deps[m]) = Len(Requests(m))
  /\ \A i \in DOMAIN deps[m] : prog.name[deps[m][i]] = Requests(m)[i]

DependenciesAreRequested ==
  /\ phase \in {"fronts", "parse"} => deps = [m \in Module |-> << >>]
  /\ phase = "depend" =>
       /\ at <= Len(modules) + 1
       /\ NamesDiffer(at - 1)
       /\ \A i \in 1 .. at - 1 : DependsOnRequested(modules[i])
  /\ phase \in PastDepending =>
       /\ NamesDiffer(Len(modules))
       /\ \A i \in DOMAIN modules : DependsOnRequested(modules[i])

SortIsDone ==
  /\ phase \in {"fronts", "parse", "depend"} => Sort!Fresh
  /\ phase \in PastDepending => Sort!SearchInv
  /\ phase \in {"analyze", "lower", "generate"} => outcome = "sorted"

StagesAlong(list, done, before) ==
  /\ at <= Len(list) + 1
  /\ \A k \in DOMAIN list : IF k < at THEN stage[list[k]] = done
                            ELSE stage[list[k]] \in before

StagesKeepUp ==
  /\ phase \in {"fronts", "parse", "depend", "resolve"} =>
       \A m \in Module : stage[m] \in {"none", "created"}
  /\ phase = "analyze" => StagesAlong(sorted, "analyzed", {"none", "created"})
  /\ phase = "lower" => StagesAlong(sorted, "lowered", {"analyzed"})
  /\ phase = "generate" => StagesAlong(modules, "generated", {"lowered"})
  /\ phase = "generate" /\ at > 1 => output = modules[at - 1]
  /\ phase = "done" /\ ~prog.printRir => output = modules[Len(modules)]

\* The inductive invariant.
DriverInv ==
  /\ DriverTypeOK
  /\ FrontsAreTheArguments
  /\ ModulesAreOfTheirFiles
  /\ DependenciesAreRequested
  /\ SortIsDone
  /\ StagesKeepUp
  /\ ImportsAreReady
=============================================================================
