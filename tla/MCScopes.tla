------------------------------ MODULE MCScopes ------------------------------
(***************************************************************************)
(* Small programs that declare, shadow, repeat, misplace and forget names: *)
(* one function with any two statements, any two declarations around it,   *)
(* and a main module or two modules of one file that import others.        *)
(***************************************************************************)
EXTENDS LexicalScoping

\* Trees, and the forest they make in preorder.
T(kind, name, ref, below) == [kind |-> kind, name |-> name, ref |-> ref, below |-> below]
RECURSIVE Flat(_, _, _)
Flat(tree, parent, n) ==
  FoldLeft(LAMBDA nodes, t : nodes \o Flat(t, n, n + Len(nodes)),
           <<[kind |-> tree.kind, name |-> tree.name, ref |-> tree.ref, parent |-> parent]>>,
           tree.below)
Forest(trees) == FoldLeft(LAMBDA nodes, t : nodes \o Flat(t, 0, Len(nodes) + 1), <<>>, trees)

I == "i32"
Leaf(name, type) == T("leaf", name, type, <<>>)
Var(name, type) == T("vardecl", "", "", <<Leaf(name, type)>>)
Desc(leaves) == T("typedesc", "", "", leaves)
Type(name, leaves) == T("typedecl", name, "", <<Desc(leaves)>>)
Block(nodes) == T("block", "", "", nodes)
Fn(name, args, ret, nodes) ==
  T("fnimpl", "", "", <<T("fndecl", name, ret, IF args = <<>> THEN <<>> ELSE <<Desc(args)>>),
                        Block(nodes)>>)
Use(name) == T("use", name, "", <<>>)
Call(name) == T("call", name, "", <<>>)
Return(node) == T("return", "", "", <<node>>)
Match(name, cases) == T("match", "", name, <<Use(name)>> \o cases)
Case(pattern, node) == T("case", "", "", <<Desc(pattern), node>>)
File(nodes) == T("file", "", "", nodes)
Mod(name, nodes) == T("module", name, "", nodes)

Main(nodes) == [nodes |-> Forest(<<File(nodes)>>), modules |-> <<1>>, deps |-> <<<<>>>>]

Fields == <<Leaf("x", I)>>
Statements ==
  {Use("v"), Use("x"), Use("y"), Var("x", "T"), Var("v", I), Var("y", I), Type("T", Fields),
   Call("g"), Call("v"), Return(Use("x")), Fn("g", <<>>, I, <<Return(Use("v"))>>),
   Var("w", "v"), Block(<<Type("T", <<Leaf("y", "T")>>), Var("y", "v")>>), Block(<<Var("x", I), Use("x")>>), Block(<<Var("y", "T"), Return(Use("v"))>>),
   Match("v", <<Case(<<Leaf("y", I)>>, Use("y"))>>),
   Match("x", <<Case(<<Leaf("x", "T")>>, Block(<<Use("x")>>)), Case(<<Use(I)>>, Return(Use("y")))>>)}
Arguments == {<<>>, Fields, <<Leaf("x", "T")>>, <<Leaf("x", I), Leaf("v", "T")>>,
              <<Leaf("x", I), Leaf("x", "T")>>}
Around == <<Type("T", Fields), Var("v", I), Fn("g", <<>>, I, <<>>)>>
Bodies == {Main(Around \o <<Fn("f", a, I, <<s, t>>)>>) :
             a \in Arguments, s \in Statements, t \in Statements}

Declared == {Type("T", Fields), Type("T", <<Leaf("x", "T")>>), Type("S", <<Leaf("x", "T"), Leaf("y", I)>>),
             Type("S", <<Leaf("x", I), Leaf("x", I)>>), Var("v", "T"), Var("v", "S"), Var("T", I),
             Fn("f", <<Leaf("x", "T")>>, "T", <<Use("x"), Call("f")>>), Fn("v", <<>>, I, <<Call("v")>>),
             Fn("f", <<>>, I, <<Use("v"), Fn("g", <<>>, I, <<>>)>>), Return(Use("v")), Call("f")}
Tops == {Main(<<a, b, c>>) : a \in Declared, b \in Declared, c \in {Fn("f", Fields, "T", <<Use("v")>>), Use("v")}}

\* A module with something of each kind, and those that import it.
Library == File(<<Mod("m", <<Type("U", Fields), Fn("h", <<Leaf("u", "U")>>, I, <<>>), Var("w", "U")>>)>>)
Importing == {Use("w"), Use("n"), Call("h"), Call("m"), Use("m"), Var("v", "U"), Var("h", I), Type("U", Fields),
              Type("S", <<Leaf("x", "U")>>), Fn("h", <<>>, I, <<>>),
              Fn("f", <<Leaf("x", "U")>>, I, <<>>), Fn("f", <<>>, I, <<Var("v", "U"), Call("h")>>)}
\* The library, then the main module; then two modules of one file, of which one
\* imports the library and the other one that module or nothing. It may stand
\* before or behind what it imports.
WithMain(s, t) ==
  [nodes |-> Forest(<<Library, File(<<s, t>>)>>), modules |-> <<2, Len(Forest(<<Library>>)) + 1>>,
   deps |-> [n \in {2, Len(Forest(<<Library>>)) + 1} |-> IF n = 2 THEN <<>> ELSE <<2>>]]
WithModules(s, t, d, ahead) ==
  LET n == Mod("n", <<s>>)
      o == Mod("o", <<t>>)
      first == Len(Forest(<<Library>>)) + 2
      second == first + Len(Forest(<<IF ahead THEN o ELSE n>>))
      here == IF ahead THEN second ELSE first
      there == IF ahead THEN first ELSE second
  IN [nodes |-> Forest(<<Library, File(IF ahead THEN <<o, n>> ELSE <<n, o>>)>>),
      modules |-> <<2, here, there>>,
      deps |-> (2 :> <<>>) @@ (here :> <<2>>) @@ (there :> IF d = 0 THEN <<>> ELSE <<here>>)]
Several == {WithMain(s, t) : s \in Importing, t \in Importing} \cup
           {WithModules(s, t, d, ahead) : s \in Importing, t \in Importing, d \in {0, 1}, ahead \in BOOLEAN}

MCPrograms == Bodies \cup Tops \cup Several
=============================================================================
