------------------------------ MODULE MCParser ------------------------------
(***************************************************************************)
(* Inputs for every rule of the parser: all short sequences of the tokens  *)
(* of types and of expressions, sentences with every edit of them (each    *)
(* beginning, and each token left out, replaced, or put in), and the       *)
(* inputs of the parser's tests.                                           *)
(***************************************************************************)
EXTENDS ParserCorrectness

CONSTANT MaxTokens  \* bound on the sequences that are not edits of a sentence

-----------------------------------------------------------------------------
(* The inputs of the tests of the parser, src/test/parser, as sequences of *)
(* tokens, with the rule each is parsed as. Identifiers are all the same   *)
(* here, so that a few tests coincide.                                     *)

id == "identifier"

\* What the tests expect to be parsed.
Accepted ==
  {<<"block", <<"{", "}">>>>,
   <<"block", <<"{", id, ":", id, id, "=", "integer", "+", "float", "}">>>>,
   <<"block", <<"{", id, "(", id, ",", "string", ",", id, "[", "integer", "]", ")", "}">>>>,
   <<"block", <<"{", id, ":", id, id, "=", "integer", "+", "float", "return", id, "*", "integer", "}">>>>,
   <<"block", <<"{", id, "=", "string", "}">>>>,
   <<"block", <<"{", id, "=", "true", id, "=", "false", "}">>>>,
   <<"bare", <<id, ":", id, id, "=", "integer", "+", "float">>>>,
   <<"bare", <<id, "=", id, "[", id, "]", "*", "float">>>>,
   <<"fndecl", <<"fn", id, "(", id, ":", id, ")", "->", id>>>>,
   <<"fndecl", <<"fn", id, "(", id, ":", id, ",", id, ":", id, ")", "->", id, "|", id>>>>,
   <<"fndecl", <<"fn", id, "(", ")">>>>,
   <<"fndecl", <<"fn", id, "<", id, id, ",", id, id, ">", "(", id, ":", id, ",", id, ":", id, ")", "->", "(", id, ":", id, ",", id, ":", id, ")">>>>,
   <<"fncall", <<id, "(", id, ",", id, ")">>>>,
   <<"fncall", <<id, "(", id, ",", id, ",", "integer", ",", "string", ")">>>>,
   <<"fncall", <<id, "<", id, ",", id, ">", "(", id, ",", id, ",", "integer", ",", "string", ")">>>>,
   <<"fnimpl", <<"fn", id, "(", id, ":", id, ",", id, ":", id, "|", id, ":", id, ")", "{", id, "=", "float", "*", id, "}">>>>,
   <<"fnimpl", <<"fn", id, "<", id, id, ">", "(", id, ":", id, ",", id, ":", id, "|", id, ":", id, ")", "{", id, "=", "float", "*", id, id, "[", "integer", "]", "=", "integer", "}">>>>,
   <<"fnimpl", <<"fn", id, "(", id, ":", id, "|", id, ":", id, ")", id, ":", id, "=>", id, "(", id, ")", id, ":", id, "=>", id, "(", id, ")">>>>,
   <<"genrdecl", <<"<", id, id, ">">>>>,
   <<"genrdecl", <<"<", id, id, ",", id, id, ">">>>>,
   <<"ifexpr", <<"if", id, "==", "integer", "{", id, "(", ")", "}">>>>,
   <<"ifexpr", <<"if", id, "==", "integer", "{", id, "(", ")", "}", "else", "{", "integer", "+", "float", "}">>>>,
   <<"ifexpr", <<"if", id, "==", "integer", "{", id, "(", ")", "}", "elif", "(", id, "==", "integer", "&&", id, "(", ")", ")", "{", "string", "}", "else", "{", "integer", "+", "float", "}">>>>,
   <<"ifexpr", <<"if", id, "==", "integer", "{", id, "(", ")", "}", "elif", "(", id, "==", "integer", "&&", id, "(", ")", ")", "{", "string", "}", "elif", "(", "integer", "<", id, ")", "{", "float", "}", "else", "{", "integer", "+", "float", "}">>>>,
   <<"ifexpr", <<"if", id, "<", "integer", "{", "}">>>>,
   <<"matchexpr", <<"match", id, "{", id, "=>", "string", "}">>>>,
   <<"matchexpr", <<"match", id, "{", id, ":", id, "=>", id, id, "=>", "string", "}">>>>,
   <<"matchexpr", <<"match", id, "{", id, ":", id, "=>", id, id, "=>", "string", id, "=>", "string", "}">>>>,
   <<"matchexpr", <<"match", id, "{", id, ",", id, "=>", "string", id, "=>", "string", "}">>>>,
   <<"matchexpr", <<"match", id, "{", id, "|", id, "=>", "string", id, "=>", "string", "}">>>>,
   <<"matchexpr", <<"match", id, "{", id, ":", "(", id, "|", id, ")", "=>", id, id, "=>", "string", "}">>>>,
   <<"matchexpr", <<"match", id, "{", id, "=>", "integer", id, ",", id, "=>", "integer", "+", "match", "(", id, ")", "}">>>>,
   <<"file", <<"import", id, ",", id, "import", id, "foreign_import", id, "(", id, ")">>>>,
   <<"module", <<"module", id, "{", "fn", id, "(", ")", "->", id, "{", "return", "-", "integer", "}", "}">>>>,
   <<"module", <<"module", id, "(", id, ":", id, ",", id, ":", id, ")", "{", "import", id, "fn", id, "(", ")", "->", id, "{", "return", "-", "integer", "}", "}">>>>,
   <<"expression", <<id, "+", id>>>>,
   <<"expression", <<"integer", "*", id>>>>,
   <<"expression", <<"integer", "-", "integer">>>>,
   <<"expression", <<"float", "/", "float">>>>,
   <<"expression", <<id, "=", "integer", "+", "float">>>>,
   <<"expression", <<id, "=", "-", id>>>>,
   <<"expression", <<id, "=", "+", id>>>>,
   <<"expression", <<id, "+", "float", "*", "integer", "-", id>>>>,
   <<"expression", <<"string", "+", "float", "-", "(", id, "+", id, "(", "integer", ",", id, ")", ")">>>>,
   <<"expression", <<"(", id, "<", id, ",", id, ">", "(", "(", "integer", "/", "integer", ")", "*", "integer", "+", "integer", ")", "+", "integer", ")", "*", "float">>>>,
   <<"expression", <<"(", id, "[", "integer", "]", "+", id, "(", "integer", ",", id, ")", ")", "+", "integer", "*", "integer">>>>,
   <<"expression", <<"(", id, "*", "integer", ")", "&", id, "+", "integer", "^", "integer", "|", "integer">>>>,
   <<"expression", <<id, ".", id, "[", "integer", "]">>>>,
   <<"expression", <<id, "(", id, ".", id, "[", "integer", "]", "-", "integer", ")", ".", id>>>>,
   <<"expression", <<"integer", "-", "-", "integer">>>>,
   <<"expression", <<id, "=", "-", "integer">>>>,
   <<"typeclass", <<"class", id, "{", "fn", id, "(", id, ":", id, ")", "->", id, "}">>>>,
   <<"typeclass", <<"class", id, "<", id, id, ">", "{", "fn", id, "(", id, ":", id, ")", "->", id, "}">>>>,
   <<"typeclass", <<"class", id, "<", id, id, ">", "{", "fn", id, "(", id, ":", id, ")", "->", id, "fn", id, "(", ")", "->", id, "fn", id, "(", id, ":", id, ")", "->", id, "}">>>>,
   <<"typeinstance", <<"instance", id, id, "{", "fn", id, "(", id, ":", id, ")", "->", id, "{", "integer", "+", id, "}", "}">>>>,
   <<"typeinstance", <<"instance", id, id, "<", id, id, ">", "{", "fn", id, "<", id, id, ">", "(", id, ":", id, ")", "->", id, "{", "integer", "+", id, "}", "fn", id, "(", id, ":", id, ")", "{", id, "(", id, ")", "}", "}">>>>,
   <<"typedesc", <<id, ":", id>>>>,
   <<"typedesc", <<id, ":", id, "->", id>>>>,
   <<"typedesc", <<id, ":", id, ",", id, ":", id, ",", id, ":", id>>>>,
   <<"typedesc", <<id, ":", id, ",", id, ":", id, "|", id, ":", id, ",", id, ":", id>>>>,
   <<"typedesc", <<id, ":", id, ",", id, ":", id, "->", id, ":", id, "|", id, ":", id>>>>,
   <<"typedesc", <<id, ":", "(", id, "|", id, ")">>>>}

\* What the tests expect to be rejected, and the number of messages.
Rejected ==
  {<<"fndecl", <<"fn", "(", ")">>, 1>>,
   <<"fndecl", <<"fn", id, ")">>, 1>>,
   <<"fndecl", <<"fn", id, "(", id, ":", id>>, 1>>,
   <<"fndecl", <<"fn", id, "(", id, ":", id, ",", ")">>, 2>>,
   <<"fndecl", <<"fn", id, "(", id, ":", id, ")", "->">>, 1>>,
   <<"fndecl", <<"fn", id, "(", id, ":", id, ")", "->", "(", id, ":", id, ",">>, 3>>,
   <<"fncall", <<id, "(">>, 1>>,
   <<"fncall", <<id, "(", id, ",">>, 2>>,
   <<"genrdecl", <<"<", id>>, 2>>,
   <<"genrdecl", <<"<", id, id, id>>, 1>>,
   <<"ifexpr", <<"if">>, 1>>,
   <<"ifexpr", <<"if", id, ">", "integer", id, "(", ")", "}">>, 1>>,
   <<"ifexpr", <<"if", id, ">", "integer", "{", id, "(", ")", "}", "else", "{">>, 2>>,
   <<"ifexpr", <<"if", id, ">", "integer", "{", id, "(", ")", "}", "elif">>, 1>>,
   <<"ifexpr", <<"if", id, ">", "integer", "{", id, "(", ")", "}", "elif", "integer", "==", id, "integer", "+", "integer", "}", "else", "{", id, "(", ")", "}">>, 1>>,
   <<"file", <<"import">>, 2>>,
   <<"file", <<"foreign_import", id, ",">>, 2>>,
   <<"module", <<"module", "(", ")", "{", "}">>, 1>>,
   <<"module", <<"module", id>>, 1>>,
   <<"module", <<"module", id, "{", id, ":", id, "=", "integer", "}">>, 1>>,
   <<"module", <<"module", id, "{", "fn", id, "(", ")", "->", id, "{", "return", "integer", "}">>, 1>>,
   <<"module", <<"module", id, "(", id, ":", ")", "{", "}">>, 2>>,
   <<"module", <<"module", id, "(", id, ":", id, "{", "}">>, 1>>,
   <<"module", <<"module", id, "(", "{", "}">>, 1>>,
   <<"typeclass", <<"class", "{", "}">>, 1>>,
   <<"typeclass", <<"class", id, "{", "}">>, 1>>,
   <<"typeclass", <<"class", id, "<", id, id, "{", "}">>, 2>>,
   <<"typeclass", <<"class", id, "fn", id, "(", ")", "}">>, 1>>,
   <<"typeclass", <<"class", id, "{", "fn", id, "(", ")">>, 1>>,
   <<"typeclass", <<"class", id, "{", "fn", id, "(", "}">>, 2>>,
   <<"typedesc", <<":", ",">>, 0>>,
   <<"typedesc", <<id, ":", id, ",">>, 1>>}

Tests == Accepted \cup {<<r[1], r[2]>> : r \in Rejected}

\* The parser does what its tests expect of it: what is to be parsed is parsed
\* as a whole and without a message, what is not to be is rejected with as many
\* messages as the test lists, and neither reads a token that is not there.
AsTheTestsExpect ==
  Done /\ <<goal, s.tokens>> \in Tests =>
    \/ /\ <<goal, s.tokens>> \in Accepted
       /\ outcome = "parsed" /\ Quiet /\ s.pos = Len(s.tokens)
    \/ /\ outcome = "rejected"
       /\ <<goal, s.tokens, Len(s.msgs)>> \in Rejected
-----------------------------------------------------------------------------
Edits(t, alphabet) ==
  Prefixes(t)
    \cup {RemoveAt(t, k) : k \in DOMAIN t}
    \cup {ReplaceAt(t, k, x) : k \in DOMAIN t, x \in alphabet}
    \cup {InsertAt(t, k, x) : k \in 1 .. Len(t) + 1, x \in alphabet}
-----------------------------------------------------------------------------
TypeTokens == {id, "const", ":", "(", ")", "<", ">", ",", "|", "->"}

TypeDescriptions ==
  {<<id, ":", id, ",", id, ":", id, "|", id, ":", id, "->", id>>,
   <<id, ":", "(", id, "|", id, ",", id, ")", "->", "const", id, "->", id>>,
   <<id, "<", "(", id, "|", id, ")", ",", id, ">", ",", id, "|", id>>}

GenericDeclarations == {<<"<", id, id, ",", id, id, ",", id, id, ">">>}

TypeInputs ==
  ({"typedesc"} \X (BoundedSeq(TypeTokens, MaxTokens)
                      \cup UNION {Edits(t, TypeTokens) : t \in TypeDescriptions}))
    \cup ({"genrdecl"} \X UNION {Edits(t, TypeTokens) : t \in GenericDeclarations})
-----------------------------------------------------------------------------
ExpressionTokens ==
  {id, "integer", "+", "*", "=", "++", "(", ")", "[", "]", ",", "<", ">"}

Expressions ==
  {<<id, "=", id, "+", id, "*", id, ".", id>>,
   <<id, "(", id, "<", id, ">", "(", id, ")", ",", "integer", ")", "+", id>>,
   <<id, "[", id, "]", ".", id, "==", "-", id>>,
   <<"(", id, ",", id, ")", "*", "(", id, "||", id, "&&", id, ")">>,
   <<"++", id, "<=", "string", "=", id, "<", "const", id, ">", "(", ")">>,
   <<"const", id, "=", id, ":", id, "=", id>>,
   <<id, ":", "(", id, "|", id, ")", "=", id>>,
   <<id, "*", "(", id, "-", "(", id, "/", "float", ")", ")">>}

ExpressionEdits == ExpressionTokens \cup {".", ":", "const", "&", "||"}

ExpressionInputs ==
  {"expression"} \X (BoundedSeq(ExpressionTokens, MaxTokens)
                       \cup UNION {Edits(t, ExpressionEdits) : t \in Expressions})
-----------------------------------------------------------------------------
Body(text) == <<"{">> \o text \o <<"}">>

Statements ==
  {<<"block", Body(<<id, "=", id, id, "return", id>>)>>,
   <<"block", Body(<<id, ":", id, "{", id, "}", "type", id, "{", id, "|", id, "}">>)>>,
   <<"ifexpr", <<"if", id, "{", id, "}", "elif", id, "{", "}", "else", "{", id, "}">>>>,
   <<"matchexpr", <<"match", id>> \o Body(<<id, ":", id, "=>", id, id, "=>", id>>)>>,
   <<"matchexpr", <<"match", "(", id, ")">> \o Body(<<"(", id, ",", id, ")", "=>", id, "+", id>>)>>,
   <<"matchexpr",
     <<"match", id>> \o Body(<<id, "=>", "match", id, id, "=>", id, "+", "match", "(", id, ")">>)>>,
   <<"block", Body(<<id, "=", "match", id, id, "<", id, ">", "(", "match", id, ")">>)>>,
   <<"fncall", <<id, "(", id, "=", id, ")">>>>,
   <<"maybe_fncall", <<id, "<", id, ",", id, ">", "(", id, "(", ")", ")">>>>,
   <<"typedecl", <<"type", id, "{", id, ":", id, "|", id, "}">>>>,
   <<"fndecl", <<"fn", id, "<", id, id, ">", "(", id, ":", id, ")", "->", id>>>>,
   <<"fnimpl", <<"fn", id, "(", ")", "{", id, "(", id, ")", "}">>>>,
   <<"fnimpl", <<"fn", id, "(", id, ")", id, "=>", id, id, "=>", id>>>>,
   <<"typeclass",
     <<"class", id, "<", id, id, ">">>
       \o Body(<<"fn", id, "(", ")", "fn", id, "(", ")", "->", id>>)>>,
   <<"typeinstance",
     <<"instance", id, id>> \o Body(<<"fn", id, "(", id, ")", "{", "}">>)>>,
   <<"module",
     <<"module", id, "(", id, ":", id, ")">>
       \o Body(<<"import", id, "fn", id, "(", ")", "{", id, "}", "type", id, "{", id, "}">>)>>,
   <<"file",
     <<"module", id, "{", "import", id, "}", "{", id, "}", "fn", id, "(", ")", "{", id, "}">>>>,
   <<"file",
     <<"type", id, "{", id, "}", id, ":", id, "import", id, ",", id, "(", id, ":", id, ")", "->", id, ",", id>>>>}

StatementEdits ==
  {id, "integer", "{", "}", "(", ")", ",", ":", "<", ">", "=>", "->", "+",
   "if", "elif", "else", "match", "return", "fn", "type", "import", "module"}

StatementInputs ==
  UNION {{st[1]} \X Edits(st[2], StatementEdits) : st \in Statements}
-----------------------------------------------------------------------------
AllInputs == TypeInputs \cup ExpressionInputs \cup StatementInputs \cup Tests
=============================================================================
