------------------------- MODULE ParserCorrectness -------------------------
(***************************************************************************)
(* What the parser promises: it accepts the language of the grammar, it    *)
(* builds the tree that the precedence of the operators asks for, and it   *)
(* leaves position, values and marks in order when an attempt fails.       *)
(***************************************************************************)
EXTENDS Parser, ParseModules, Grammar, SequencesExt

SymbolOf ==
  [file |-> "file", typedesc |-> "type_description",
   genrdecl |-> "generic_declaration", typedecl |-> "type_declaration",
   expression |-> "expression", block |-> "block", bare |-> "block_elements",
   ifexpr |-> "if_expression", matchexpr |-> "match_expression",
   fncall |-> "function_call", maybe_fncall |-> "function_call",
   fndecl |-> "function_declaration",
   fnimpl |-> "function_implementation", typeclass |-> "typeclass",
   typeinstance |-> "typeinstance", import |-> "import_statement",
   module |-> "a_module"]

Done == outcome # "parsing"
Quiet == s.msgs = << >>
-----------------------------------------------------------------------------
(* Texts of which a promise does not hold, each for a reason of the code.  *)

At(k) == IF k \in DOMAIN s.tokens THEN s.tokens[k] ELSE Eof

\* A match without a body returns with its mark still pushed
\* (matchexpr.c:102).
BodylessMatches ==
  {k \in DOMAIN s.tokens :
     At(k) = "match" /\ \/ At(k + 1) = "identifier" /\ At(k + 2) # "{"
                        \/ /\ At(k + 1) = "(" /\ At(k + 2) = "identifier"
                           /\ At(k + 3) = ")" /\ At(k + 4) # "{"}

\* A comparison is tried as generic attributes first, and what follows may make
\* that an error. Behind the name of a function, class or instance a generic
\* declaration stands there instead.
HasDisputedComparison ==
  \E k \in DOMAIN s.tokens :
    /\ At(k) = "identifier"
    /\ At(k - 1) \notin {"fn", "class"} /\ At(k - 2) # "instance"
    /\ At(k + 1) = "<"
    /\ EndsOf(s.tokens, "generic_attributes", k) = {}
    /\ \E l \in k .. Len(s.tokens) : At(l) \in {",", "("}

\* A call with generic attributes that fails goes back to the last match without
\* a body in its arguments, and what stands in front of that is lost.
LosesAttempt ==
  \E k \in DOMAIN s.tokens, l \in BodylessMatches :
    /\ At(k) = "identifier" /\ At(k + 1) = "<"
    /\ EndsOf(s.tokens, "function_call", k - 1) = {}
    /\ \E e \in EndsOf(s.tokens, "generic_attributes", k) : At(e + 1) = "(" /\ e < l

\* Where a declaration with such a body ends that begins at the token k.
ImplementationEnds(k, body) ==
  IF At(k) # "fn" THEN {}
  ELSE EndsOfAll(s.tokens, <<"function_declaration">> \o body, k - 1)

\* parser_acc_fnimpl() fails in silence, and keeps what it took, if the text
\* ends behind the declaration (function.c:160). Not all declarations are
\* taken for the beginning of an implementation.
EndsBehindDeclaration ==
  /\ goal \notin {"fndecl", "typeclass"}
  /\ \E k \in DOMAIN s.tokens : Len(s.tokens) \in ImplementationEnds(k, << >>)

\* A function with a single case for its body gets a location whose end was
\* never set (matchexpr.c:143).
HasSingleCase ==
  \E k \in DOMAIN s.tokens :
    /\ ImplementationEnds(k, <<"match_case">>) # {}
    /\ ImplementationEnds(k, <<"match_case", "match_case">>) = {}
-----------------------------------------------------------------------------
\* Every statement of a file takes tokens with it, so that a file comes to its
\* end.
StatementsAdvance == [][ParseStatement => s'.pos > s.pos]_vars

\* What is accepted without a message is derived by the grammar, also where a
\* match without a body has left its mark to the rules around.
AcceptedIsDerivable ==
  outcome = "parsed" /\ Quiet /\ ~EndsBehindDeclaration /\ ~LosesAttempt
    => DerivesUpTo(SymbolOf[goal], s.tokens, s.pos)

\* What the grammar derives is accepted, to its end and without a message.
DerivableIsAccepted ==
  Done /\ Derives(SymbolOf[goal], s.tokens) /\ ~HasDisputedComparison
    => outcome = "parsed" /\ Quiet /\ s.pos = Len(s.tokens)

\* A rule that fails without a message has left everything as it was, so that
\* another rule can be tried.
SilenceIsFree ==
  outcome = "rejected" /\ Quiet /\ BodylessMatches = {} /\ ~EndsBehindDeclaration
    => s.pos = 0 /\ s.owned = ValueTokens(s.tokens)

\* Every mark that was pushed is popped or gone back to, whatever the outcome,
\* but for one for each match without a body that was parsed.
MarksAreBalanced ==
  /\ outcome \in {"parsed", "rejected"} =>
       s.msgMarks = << >> /\ Len(s.marks) <= Cardinality(BodylessMatches)
  /\ outcome = "parsed" /\ ~LosesAttempt =>
       Len(s.marks) = Cardinality({k \in BodylessMatches : k <= s.pos})
-----------------------------------------------------------------------------
RECURSIVE NodesOf(_)
NodesOf(n) ==
  {n} \cup UNION {NodesOf(n.kids[i]) : i \in DOMAIN n.kids}
Nodes == UNION {NodesOf(root[i]) : i \in DOMAIN root}

RECURSIVE CountLeaves(_, _)
CountLeaves(nodes, i) ==
  IF nodes = << >> THEN 0
  ELSE LET n == Head(nodes)
       IN  (IF n.kids = << >> /\ n.first = i THEN 1
            ELSE CountLeaves(n.kids, i))
             + CountLeaves(Tail(nodes), i)

\* The value of a token belongs to the tree or to the lexer, never to both, and
\* to one node of the tree only. When nothing went wrong, what was consumed is
\* in the tree and what was not is the lexer's.
ValuesHaveOneOwner ==
  \A i \in ValueTokens(s.tokens) :
    /\ CountLeaves(root, i) <= IF i \in s.owned THEN 0 ELSE 1
    /\ outcome = "parsed" /\ Quiet /\ ~EndsBehindDeclaration /\ ~LosesAttempt =>
         CountLeaves(root, i) = IF i <= s.pos THEN 1 ELSE 0

\* However it ends, a rule leaves the token stream in order for the next one.
RulesCleanUp == SilenceIsFree /\ MarksAreBalanced /\ ValuesHaveOneOwner

\* The location of a node contains those of its children, and the children do
\* not overlap.
LocationsNest ==
  outcome = "parsed" /\ Quiet /\ ~HasSingleCase =>
    \A n \in Nodes :
      /\ 1 <= n.first /\ n.first <= n.last /\ n.last <= s.pos
      /\ \A i \in DOMAIN n.kids :
           /\ n.first <= n.kids[i].first /\ n.kids[i].last <= n.last
           /\ \A j \in DOMAIN n.kids \ {i} :
                \/ n.kids[i].last < n.kids[j].first
                \/ n.kids[j].last < n.kids[i].first
-----------------------------------------------------------------------------
\* How tight an operator binds: among those of expressions, or of types.
Tightness(kind) ==
  IF kind \in BinaryOperators THEN CHOOSE k \in DOMAIN Levels : kind \in Levels[k]
  ELSE CHOOSE k \in DOMAIN TypeKinds : kind = TypeKinds[k]

IsOperation(n) ==
  /\ Len(n.kids) = 2
  /\ n.kind \in BinaryOperators \cup ToSet(TypeKinds)

\* The location of what stands in parentheses leaves them out.
InParentheses(n) ==
  /\ n.first > 1 /\ s.tokens[n.first - 1] = "("
  /\ n.last < Len(s.tokens) /\ s.tokens[n.last + 1] = ")"

\* An operand that is an operation itself binds tighter than the operator, or,
\* on the left, as tight: the tree is the one that the levels ask for.
PrecedenceIsKept ==
  outcome = "parsed" /\ Quiet =>
    \A n \in {m \in Nodes : IsOperation(m)} : \A side \in {1, 2} :
      LET operand == n.kids[side]
      IN  IsOperation(operand) /\ ~InParentheses(operand) =>
            IF side = 1 THEN Tightness(n.kind) <= Tightness(operand.kind)
            ELSE Tightness(n.kind) < Tightness(operand.kind)
=============================================================================
