----------------------------- MODULE MCCompiler -----------------------------
(***************************************************************************)
(* Compilations of up to two files besides the standard library: which     *)
(* file holds main, what the two further modules are called, where they    *)
(* are declared and what everybody imports is varied independently. To     *)
(* them come the module graphs of test/analyzer/test_modules.c, with the   *)
(* orders and the offending modules its tests expect. Every file there     *)
(* holds one module and bears its name here; those tests run the           *)
(* preprocessing alone, without a standard library, which here comes first *)
(* and imports nothing.                                                    *)
(***************************************************************************)
EXTENDS Compiler, FiniteSets, TLC

Letters == {"a", "b", "c", "d", "e", "f", "g"}
Packages == {"base", "package1", "package2", "child"}
TestFiles == Letters \cup Packages

Test(args, imports) ==
  [args |-> args,
   decls |-> [f \in AllFiles |->
                IF f = Stdlib THEN <<"stdlib">>
                ELSE IF f \in TestFiles THEN <<f>> ELSE << >>],
   root |-> [f \in AllFiles |-> NoModule],
   broken |-> {},
   name |-> [m \in Module |-> IF m \in Name THEN m ELSE MainName],
   imports |-> [m \in Module |->
                  IF m \in DOMAIN imports THEN imports[m] ELSE << >>],
   useStdlib |-> FALSE, printRir |-> FALSE]

Alphabet == <<"a", "b", "c", "d", "e", "f", "g">>
BigGraph ==
  "b" :> <<"f", "a", "e", "c">> @@ "f" :> <<"a">> @@ "c" :> <<"g">>
  @@ "d" :> <<"f", "b", "e", "g">>

\* The tests of the case modules_dependency_order.
SingleDependency == Test(<<"a", "b">>, "a" :> <<"b">>)
MultipleDependencies ==
  Test(<<"child", "package1", "base", "package2">>,
       "package1" :> <<"base">> @@ "package2" :> <<"base">>
       @@ "child" :> <<"package1", "package2">>)
ComplicatedDependencies == Test(Alphabet, BigGraph)

Orders ==
  SingleDependency :> <<"b", "a">>
  @@ MultipleDependencies :> <<"base", "package2", "package1", "child">>
  @@ ComplicatedDependencies :> <<"g", "a", "f", "e", "c", "b", "d">>

\* The tests of the case modules_dependency_cycles.
SimpleCycle == Test(<<"a", "b">>, "a" :> <<"b">> @@ "b" :> <<"a">>)
CycleInBigGraph == Test(Alphabet, "a" :> <<"d">> @@ BigGraph)

Culprits == SimpleCycle :> "b" @@ CycleInBigGraph :> "f"

NonexistentImport == Test(<<"a", "b">>, "b" :> <<"a", "g">>)

TestPrograms ==
  DOMAIN Orders \cup DOMAIN Culprits \cup {NonexistentImport}

\* The sorted modules are those that the tests expect, in their order, and a
\* cycle is reported around the module they expect, where they expect one.
AsTheTestsExpect ==
  prog \in TestPrograms =>
    /\ phase \in {"analyze", "lower", "generate"} =>
         prog \in DOMAIN Orders /\ sorted = <<"stdlib">> \o Orders[prog]
    /\ culprit # NoModule =>
         prog \in DOMAIN Culprits /\ culprit = Culprits[prog]
-----------------------------------------------------------------------------
MCFiles == TestFiles \cup {"f1", "f2"}
MCModules == TestFiles \cup {"stdlib", "r1", "r2"}
MCNames == TestFiles \cup {"stdlib", "main"}

\* The modules "r1" and "r2" are the root nodes of the files with main.
Files(args, decls1, decls2, root1, root2) ==
  [args |-> args,
   decls |-> [f \in AllFiles |->
                CASE f = "f1" -> decls1 [] f = "f2" -> decls2
                  [] f = Stdlib -> <<"stdlib">> [] OTHER -> << >>],
   root |-> [f \in AllFiles |->
               CASE f = "f1" -> root1 [] f = "f2" -> root2
                 [] OTHER -> NoModule]]

\* The second file is absent, or has main too, or only modules.
Layouts ==
  {Files(args, decls[1], decls[2], "r1", NoModule) :
     args \in {<<"f1", "f2">>, <<"f2", "f1">>},
     decls \in {<< <<"a">>, <<"b">> >>, << <<"a", "b">>, << >> >>,
                << << >>, <<"a", "b">> >>}}
  \cup {Files(<<"f2", "f1">>, <<"a">>, <<"b">>, "r1", "r2"),
        Files(<<"f1">>, <<"a", "b">>, << >>, "r1", "r2"),
        Files(<< >>, <<"a">>, <<"b">>, "r1", NoModule)}

Program(l, broken, nameB, importsR, importsA, importsB, std, rir) ==
  [args |-> l.args, decls |-> l.decls, root |-> l.root, broken |-> broken,
   name |-> [m \in Module |->
               CASE m = "b" -> nameB [] m \in {"r1", "r2"} -> MainName
                 [] OTHER -> m],
   imports |-> [m \in Module |->
                  CASE m = "r1" -> importsR [] m = "a" -> importsA
                    [] m = "b" -> importsB [] OTHER -> << >>],
   useStdlib |-> std, printRir |-> rir]

MCPrograms ==
  {Program(l, {}, nameB, importsR, importsA, importsB, TRUE, FALSE) :
     l \in Layouts, nameB \in {"b", "a", StdlibName, MainName},
     importsR \in {<< >>, <<"a", "b">>, <<"b", "stdlib">>},
     importsA \in {<< >>, <<"b">>, <<"b", "b">>, <<"main">>},
     importsB \in {<< >>, <<"a">>, <<"b">>, <<"stdlib", "a">>}}
  \cup
  {Program(l, broken, "b", importsR, <<StdlibName>>, <<StdlibName, "a">>, std, rir) :
     l \in Layouts, broken \in {{}, {"f1"}, {"f2"}},
     importsR \in {<<"b", "a">>, <<"a", "a">>, <<MainName>>},
     std \in BOOLEAN, rir \in BOOLEAN}
  \cup TestPrograms
=============================================================================
