-------------------------------- MODULE MCRir --------------------------------
(***************************************************************************)
(* Both halves of the RIR in one run: the blocks of functions with ifs and *)
(* matches (MCRirFunctions), and, where the module has none of these, the  *)
(* instructions and the values of functions without ifs: every operator on *)
(* numbers of different types, and the programs of                         *)
(* test/end_to_end/test_end_to_end_basic.c, with smaller numbers and with  *)
(* parameters in place of constants, so that they run with every kind of   *)
(* value. Integers are narrow: 3 bits for i8 and u8, 4 for i32 and u32, 5  *)
(* for i64 and u64.                                                        *)
(***************************************************************************)
EXTENDS MCRirFunctions, RirValues

MCBits == [i1 |-> 1, i8 |-> 3, i32 |-> 4, i64 |-> 5]

Type(args) == [union |-> FALSE, args |-> args]
SumType(args) == [union |-> TRUE, args |-> args]
MCTypedefs ==
  [person |-> Type(<<"string", "u32">>), foo |-> Type(<<"i32", "f32">>),
   mixed |-> Type(<<"u8", "i32", "i64">>),
   either |-> SumType(<<"i32", "string">>), printed |-> SumType(<<"i64", "u64", "string">>),
   shape |-> SumType(<<"i8", "person">>)]

Function(args, returns) == [sum |-> "", args |-> args, returns |-> returns]
MCFunctions ==
  [print |-> [sum |-> "printed", args |-> << >>, returns |-> "nil"],
   draw |-> [sum |-> "shape", args |-> << >>, returns |-> "i8"],
   two |-> Function(<<"i8", "u32">>, "u32"),
   show |-> Function(<<"string">>, "nil"),
   name |-> Function(<<"bool">>, "string")]
MCGiven == [print |-> 0, draw |-> -3, two |-> 6, show |-> 0, name |-> "given"]

\* The limits of a type and what is next to zero.
RECURSIVE Samples(_)
Samples(base) ==
  CASE base \in IntBases ->
         LET n == Modulus(LlvmBase(base))
         IN {-(n \div 2), -1, 0, 1, 3, n \div 2 - 1, n - 1} \cap Numbers(base)
    [] base \in FloatBases -> {0, 2}
    [] base = "bool" -> BOOLEAN
    [] base = "string" -> {"hello"}
    [] base = "either" -> {[case |-> 0, v |-> n] : n \in Samples("i32")}
                          \cup {[case |-> 1, v |-> "friends"]}
    [] base = "shape" -> {[case |-> 0, v |-> n] : n \in Samples("i8")}
                         \cup {[case |-> 1, v |-> <<"Celina", n>>] : n \in Samples("u32")}
    [] base = "person" -> {<<"Celina", 3>>}

\* Every combination of samples.
Inputs(params) ==
  FoldLeft(LAMBDA fs, s : {(s[1] :> v) @@ f : f \in fs, v \in Samples(s[2])}, {Empty}, params)

Program(params, locals, returns, body) ==
  [params |-> params, locals |-> locals, returns |-> returns, body |-> body,
   inputs |-> Inputs(params)]
-----------------------------------------------------------------------------
TwoNumbers(a, b) == <<<<"a", a>>, <<"b", b>>>>
Operation(op) == <<Give(Binary(op, Name("a"), Name("b")))>>

Mixed == {<<"i32", "i32">>, <<"u8", "u8">>, <<"i32", "i8">>, <<"i8", "u8">>,
          <<"u8", "i32">>, <<"i64", "u32">>}
Calculations ==
  {Program(TwoNumbers(m[1], m[2]), << >>, returns, Operation(op)) :
     m \in Mixed, op \in {"add", "sub", "mul", "div"}, returns \in {"i8", "i64"}}
CompareNumbers ==
  {Program(TwoNumbers(m[1], m[2]), << >>, "bool", Operation(op)) :
     m \in Mixed, op \in Comparisons}

\* (a + 2) * (b - a) / 2, with variables of other types on the way.
Nested ==
  {Program(TwoNumbers("i32", "u8"), <<<<"x", x>>, <<"y", y>>>>, "u32",
     <<Set("x", Binary("add", Name("a"), Whole(2))),
       Set("y", Binary("sub", Name("b"), Name("a"))),
       Give(Binary("div", Binary("mul", Name("x"), Name("y")), Whole(2)))>>) :
     x \in {"i64", "u8"}, y \in {"i32", "i8"}}

OnOne ==
  {Program(<<<<"a", base>>>>, <<<<"x", base>>>>, base,
     <<Set("x", Name("a")), Give(Unary(op, Name("x")))>>) :
     base \in {"i8", "u8", "u32", "i64"}, op \in DOMAIN UnaryOps}

Asked ==
  {Program(<<<<"a", from>>>>, <<<<"x", from>>>>, to,
     <<Set("x", Name("a")), Give(ConvertTo(to, Name("x")))>>) :
     from \in {"i32", "u64"}, to \in {"u8", "i32", "i64"}}
Texts ==
  {Program(<<<<"a", "i32">>>>, <<<<"s", "string">>>>, "nil",
     <<Set("s", ConvertTo("string", e)), Invoke("print", <<"string">>, <<Name("s")>>)>>) :
     e \in {Whole(5), Truth(TRUE), Binary("eq", Name("a"), Whole(3))}}
  \cup {Program(<<<<"a", "bool">>>>, <<<<"s", "string">>, <<"c", "bool">>>>, "string",
          <<Set("c", Name("a")), Set("s", ConvertTo("string", Name("c"))), Give(Name("s"))>>)}

\* person("Moriarty", 5), and reading its members
Objects ==
  LET moriarty == Set("p", Construct(<<"string", "u32">>, <<Text("Moriarty"), Whole(5)>>))
      copied == Set("p", Construct(<<"string", "u32">>, <<Text("Moriarty"), Name("x")>>))
      mixed == Set("m", Construct(<<"u8", "i32", "i64">>, <<Name("x"), Name("x"), Name("x")>>))
      foo == Set("t", Construct(<<"i32", "f32">>, <<Whole(4), Real(2)>>))
      printName == Invoke("print", <<"string">>, <<Member("p", 0)>>)
  IN {Program(<< >>, <<<<"p", "person">>>>, "u32", <<moriarty, printName, Give(Member("p", 1))>>),
      Program(<< >>, <<<<"t", "foo">>>>, "u32", <<foo, Give(Member("t", 0))>>),
      Program(<<<<"a", "i8">>>>, <<<<"x", "i8">>, <<"p", "person">>, <<"q", "person">>>>, "u32",
        <<Set("x", Name("a")), copied, Set("q", Name("p")),
          Set("p", Construct(<<"string", "u32">>, <<Text("Holmes"), Whole(7)>>)),
          Invoke("draw", <<"string", "u32">>, <<Member("q", 0), Member("q", 1)>>),
          Give(Binary("add", Member("q", 1), Name("a")))>>)}
     \cup {Program(<<<<"a", "i32">>>>, <<<<"x", "i32">>, <<"m", "mixed">>>>, "i64",
             <<Set("x", Name("a")), mixed,
               Give(Binary(op, Member("m", k), Member("m", 2)))>>) :
             op \in {"add", "mul"}, k \in {0, 1}}
-----------------------------------------------------------------------------
\* Matches on a local that was made with one case or the other.
OfEither == <<OnCase("i32", <<<<"c", "i32">>>>, Name("c")), OnCase("string", << >>, Whole(0))>>
OfText == <<OnCase("string", <<<<"c", "string">>>>, Name("c")), OnCase("i32", << >>, Text("none"))>>
Sums ==
  LET made == Set("t", Construct(<<"i32">>, <<Name("x")>>))
      text == Set("t", Construct(<<"string">>, <<Text("hello")>>))
      locals(r) == <<<<"x", "i32">>, <<"t", "either">>, <<"r", r>>>>
  IN {Program(<<<<"a", "i32">>>>, locals(r), r,
        <<Set("x", Name("a")), make, Set("r", MatchOn("t", OfEither)), Give(Name("r"))>>) :
        r \in {"i32", "u32", "i8"}, make \in {made, text}}
     \cup {Program(<<<<"a", "i32">>>>, locals("string"), "string",
             <<Set("x", Name("a")), make, Set("r", MatchOn("t", OfText)), Give(Name("r"))>>) :
             make \in {made, text}}

\* fn action(a:i32 | b:string) and its like: the body is the match.
HeadlessMatches ==
  LET print(as, e) == Invoke("print", <<as>>, <<e>>)
      action == <<OnCase("i32", <<<<"a", "i32">>>>, print("string", Text("change"))),
                  OnCase("string", <<<<"b", "string">>>>, print("string", Name("b")))>>
      other == <<OnCase("string", <<<<"b", "string">>>>, print("string", Name("b"))),
                 OnCase("i32", <<<<"a", "i32">>>>, Invoke("two", << >>, <<Name("a"), Whole(2)>>))>>
      drawn == <<OnCase("i8", <<<<"n", "i8">>>>, print("i64", Name("n"))),
                 OnCase("person", <<<<"s", "string">>, <<"age", "u32">>>>,
                        Invoke("draw", <<"string", "u32">>, <<Name("s"), Name("age")>>))>>
      whole == <<OnCase("person", <<<<"p", "person">>>>, print("u64", Member("p", 1))),
                 OnCase("i8", <<<<"n", "i8">>>>, Invoke("draw", <<"i8">>, <<Name("n")>>))>>
  IN {Program(<<<<"arg", "either">>>>, << >>, "nil", <<MatchOn("arg", cases)>>) :
        cases \in {action, other}}
     \cup {Program(<<<<"arg", "shape">>>>, << >>, "nil", <<MatchOn("arg", cases)>>) :
             cases \in {drawn, whole}}

Invocations ==
  LET two(x, y) == Invoke("two", << >>, <<x, y>>)
  IN {Program(<<<<"a", "i32">>>>, <<<<"x", "i32">>>>, "i64",
        <<Set("x", Name("a")), Give(Binary("add", two(Name("x"), e), Name("a")))>>) :
        e \in {Whole(3), two(Whole(1), Name("x")), Binary("mul", Name("x"), Name("a"))}}
     \cup {Program(<<<<"s", "string">>>>, <<<<"t", "string">>>>, "string",
             <<Set("t", Name("s")), Invoke("show", << >>, <<Name("t")>>), Give(Text("end"))>>),
           Program(<<<<"a", "i64">>>>, <<<<"x", "i64">>>>, "u32",
             <<Set("x", Name("a")), Invoke("print", <<"i64">>, <<Name("x")>>),
               Invoke("print", <<"i64">>, <<Whole(6)>>),
               Give(Invoke("draw", <<"i8">>, <<Unary("minus", Whole(3))>>))>>)}

\* One for each gap of the backend, and for what is next to it.
Gaps ==
  LET ofNumbers(a, b, body) ==
        Program(<<<<"a", a>>>>, <<<<"x", b>>, <<"p", "person">>, <<"y", "bool">>>>, "nil", body)
      ofTexts(body) ==
        Program(<<<<"s", "string">>, <<"q", "person">>>>, <<<<"t", "string">>, <<"u", "string">>,
                  <<"p", "person">>, <<"y", "bool">>>>, "nil", body)
      person(n) == Construct(<<"string", "u32">>, <<Text("Holmes"), n>>)
  IN {ofNumbers(a, b, <<Set("x", Name("a"))>>) : a, b \in {"i32", "i64", "f32", "f64", "u8"}}
     \cup {ofNumbers(a, b, <<Set("x", Real(1)), Set("y", Binary(op, Name("a"), Name("x")))>>) :
             a, b \in {"f32", "f64"}, op \in {"eq", "lt"}}
     \cup {ofNumbers("f32", b, <<Set("x", Binary("add", Name("a"), Real(1)))>>) : b \in {"f32"}}
     \cup {ofNumbers("i32", "i32", <<s>>) : s \in
             {Invoke("two", << >>, <<Name("a"), Whole(1)>>), Set("p", person(Name("a"))),
              Set("p", person(Binary("add", Name("a"), Whole(1)))),
              Set("x", ConvertTo("i32", Name("a"))), Set("x", Unary("inc", Name("a"))),
              Set("x", ConvertTo("i32", Binary("add", Name("a"), Whole(1)))),
              Set("y", Binary("eq", Invoke("name", << >>, <<Truth(TRUE)>>), Text("given"))),
              Invoke("show", << >>, <<ConvertTo("string", Whole(2))>>),
              Invoke("show", << >>, <<Invoke("name", << >>, <<Truth(TRUE)>>)>>)}}
     \cup {ofNumbers("i32", "u32", <<Set("p", person(Whole(5))), s>>) : s \in
             {Set("x", Member("p", 1)), Set("x", ConvertTo("u32", Member("p", 1))),
              Set("x", Unary("dec", Member("p", 1))),
              Invoke("two", << >>, <<Whole(1), Member("p", 1)>>),
              Invoke("show", << >>, <<Member("p", 0)>>)}}
     \cup {ofTexts(<<Set("t", Text("b")), s>>) : s \in
             {Set("y", Binary("eq", Text("a"), Text("b"))), Set("y", Binary("eq", Name("t"), Text("b"))),
              Set("y", Binary("ne", Name("t"), Name("s"))), Set("u", Name("t")), Set("u", Name("s")),
              Set("u", ConvertTo("string", Binary("eq", Text("a"), Text("a")))),
              Set("u", Member("q", 0)), Set("p", Name("q")), Invoke("show", << >>, <<Name("s")>>)}}
     \cup {Program(<< >>, <<<<"p", "person">>>>, "person", <<Set("p", person(Whole(2))), Give(Name("p"))>>),
           Program(<< >>, << >>, "string", <<Give(Invoke("name", << >>, <<Truth(FALSE)>>))>>)}

MCPrograms ==
  Calculations \cup CompareNumbers \cup Nested \cup OnOne \cup Asked \cup Texts
  \cup Objects \cup Sums \cup HeadlessMatches \cup Invocations \cup Gaps
-----------------------------------------------------------------------------
MCBodies == MCModules \cup {<< >>}

Blockwise == Next /\ UNCHANGED valueVars
Valuewise == bodies = << >> /\ ValueNext /\ UNCHANGED vars

InitBoth == InitRun /\ InitValues
NextBoth == Blockwise \/ Valuewise
SpecBoth == InitBoth /\ [][NextBoth]_<<vars, valueVars>> /\ WF_vars(Step)
=============================================================================
