--------------------------- MODULE MCRirFunctions ---------------------------
(***************************************************************************)
(* The functions the lowering is made for: no if, match or conversion in a *)
(* branch of an if, a return only at the end of a block, a match with two  *)
(* cases or more, with an if or a return somewhere behind it, and calls    *)
(* that are not assigned. The end to end tests have no others. What        *)
(* happens beyond them: NestedIfs, an if in the else block of another one. *)
(***************************************************************************)
EXTENDS RirFunctions, Functions

\* The i-th statement of a body: its ids are <<i, place>>.
Branches(i, x) ==
  {<<Call(<<i, x>>)>>, <<Assign("v", Value(<<i, x>>)), Return(Arith(<<i, x, "r">>))>>}
\* A return may have something behind it that nobody can observe.
AnyBranch(i, x) ==
  {<< >>, <<Return(Value(<<i, x, "r">>))>>,
   <<Return(Arith(<<i, x, "r">>)), Arith(<<i, x, "dead">>), Value(<<i, x, "dead">>)>>}
  \cup Branches(i, x)

AllIfs(i, branch(_, _)) ==
  LET Elses(x) == {NoElse} \cup {Block(b) : b \in branch(i, x)}
      Elifs == {If(Value(<<i, "c2">>), b, e) :
                  b \in branch(i, "elif"), e \in Elses("else2")}
  IN {If(Arith(<<i, "c1">>), b, e) :
        b \in branch(i, "then"), e \in Elses("else") \cup Elifs}

\* One of each shape, to be combined with other statements.
SomeIfs(i) ==
  LET then == <<Call(<<i, "then">>)>>
      leave == <<Return(Arith(<<i, "r">>))>>
      elif == If(Value(<<i, "c2">>), leave, Block(<<Call(<<i, "else2">>)>>))
  IN {If(Arith(<<i, "c1">>), then, NoElse),
      If(Arith(<<i, "c1">>), leave, Block(<<Call(<<i, "else">>)>>)),
      If(Value(<<i, "c1">>), then, elif)}

\* A match that is assigned: the cases must not reset last_assign_obj.
AssignedMatches(i) ==
  {Assign("v", Match(<<i, "m">>, cases)) :
     cases \in {<<Value(<<i, "m", 1>>), Value(<<i, "m", 2>>)>>,
                <<Value(<<i, "m", 1>>), Call(<<i, "m", 2>>), Value(<<i, "m", 3>>)>>}}
\* One that is not: no variable may be left in last_assign_obj.
PlainMatches(i) ==
  {Match(<<i, "m">>, cases) :
     cases \in {<<Call(<<i, "m", 1>>), Call(<<i, "m", 2>>)>>,
                <<Call(<<i, "m", 1>>), Arith(<<i, "m", 2>>), Value(<<i, "m", 3>>), Call(<<i, "m", 4>>)>>}}

Assigning(i) ==
  {Assign("v", Value(<<i, "v">>)), Assign("t", Ctor(<<i, "t">>))}
  \cup SomeIfs(i) \cup AssignedMatches(i)
Matching(i) ==
  {Assign("w", Arith(<<i, "w">>)), Assign("s", ConvertBool(<<i, "b">>)),
   ConvertBool(<<i, "b">>)}
  \cup SomeIfs(i) \cup PlainMatches(i)

Result == Return(Value(<<3, "result">>))

OneStatement == {Block(<<s>>) : s \in AllIfs(1, AnyBranch)}
TwoStatements ==
  {Block(<<s, t, Result>>) :
     s \in Assigning(1) \cup AllIfs(1, Branches), t \in Assigning(2)}
  \cup {Block(<<s, t, Result>>) : s \in Matching(1), t \in Matching(2)}
Headless == PlainMatches(1)

\* Two functions: what the first leaves in the context meets the second.
TwoFunctions ==
  {<<Block(<<s, Result>>), Block(<<t>>)>> :
     s \in Assigning(1), t \in SomeIfs(2) \cup {Assign("v", Value(<<2, "v">>))}}
  \cup {<<Block(<<s, Result>>), m>> : s \in Matching(1), m \in PlainMatches(2)}

MCModules ==
  {<<f>> : f \in OneStatement \cup TwoStatements \cup Headless}
  \cup TwoFunctions

\* Their statements and expressions, and those whose lowering makes no block.
RECURSIVE NodesIn(_), MakesBlocks(_)
NodesIn(n) ==
  {n} \cup
  CASE n.kind \in {"assign", "return"} -> NodesIn(n.from)
    [] n.kind = "match" -> UNION {NodesIn(c) : c \in Range(n.cases)}
    [] n.kind = "if" -> NodesIn(n.cond) \cup NodesIn(n.else)
                         \cup UNION {NodesIn(t) : t \in Range(n.then)}
    [] n.kind = "block" -> UNION {NodesIn(t) : t \in Range(n.nodes)}
    [] OTHER -> {}
MakesBlocks(n) ==
  \/ n.kind \in {"match", "convert"}
  \/ n.kind \in {"assign", "return"} /\ MakesBlocks(n.from)

Nodes == UNION {NodesIn(f) : f \in UNION {Range(m) : m \in MCModules}}
PlainNodes == {n \in Nodes : n.kind \notin {"if", "block", "none"}}

\* The theorems about the lowering are about these functions.
Exits == INSTANCE RirExits_proofs
           WITH Modules <- MCModules, Plain <- PlainNodes,
                Ifs <- {n \in Nodes : n.kind = "if"}, Simple <- {n \in PlainNodes : ~MakesBlocks(n)}
ASSUME FunctionsAreTidy == Exits!IsTidy

\* The language allows an if in the else block of another one; the parser and
\* the analyzer accept it, and the tests have none.
NestedIfs ==
  {<<Block(<<If(Value("c1"), <<Call("A")>>,
                Block(<<If(Value("c2"), <<Call("B")>>, NoElse)>> \o rest)),
             Result>>)>> : rest \in {<< >>, <<Call("C")>>}}
=============================================================================
