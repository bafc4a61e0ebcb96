------------------------------ MODULE Grammar ------------------------------
(***************************************************************************)
(* The language the parser is to accept, as the comments of the headers in *)
(* src/parser/recursive_descent state it, rule by rule. It is a reference  *)
(* definition that knows nothing of lookahead, marks or messages: a        *)
(* sequence of tokens belongs to a rule if the rule derives it.            *)
(*                                                                         *)
(* Where the comments fall short of what the tests of the parser parse,    *)
(* the rules go beyond them: the arguments of a function and of a call may *)
(* be missing, a block is a list of elements, 'else' has no condition, a   *)
(* declared type has a name. The comments on expressions name only some of *)
(* the operators and elements; the levels here are those of                *)
(* check_operator_type(), the elements those of parser_acc_expr_element(). *)
(* A match may lack its body, as in test_parser_matchexpr.c, wherever an    *)
(* expression may stand; the comment that it "can only appear inside       *)
(* another match expression" (matchexpr.c:101) is not a rule of the parser.*)
(* A function declaration among the statements of a module, which module.h *)
(* names, is left out: the parser takes it for an implementation and fails.*)
(***************************************************************************)
EXTENDS Integers, Sequences, TLC

\* The right-hand sides of a symbol are a set of sequences of symbols. A string
\* without a rule is a token, but for "no_body", which derives nothing and
\* only where no '{' follows.
Epsilon == << >>
OneOf(symbols) == {<<x>> : x \in symbols}
Opt(symbol) == {Epsilon, <<symbol>>}
a ** b == {x \o y : x \in a, y \in b}

\* More items behind the first one, each behind one of the separators.
More(separators, item, tail) ==
  {Epsilon} \cup (OneOf(separators) ** {<<item, tail>>})

TypeRules ==
  [annotated_identifier |->
     Opt("const") ** {<<"identifier">>} ** Opt("generic_attributes"),
   generic_attributes |-> {<<"<", "generic_attribute", "attribute_more", ">">>},
   attribute_more |-> More({","}, "generic_attribute", "attribute_more"),
   generic_attribute |->
     {<<"(", "type_description", ")">>, <<"annotated_identifier">>},
   generic_declaration |-> {<<"<", "generic_decl", "decl_more", ">">>},
   decl_more |-> More({","}, "generic_decl", "decl_more"),
   generic_decl |-> {<<"identifier", "identifier">>},
   type_description |-> {<<"type_term", "term_more">>},
   term_more |-> More({"->"}, "type_term", "term_more"),
   type_term |-> {<<"type_factor", "factor_more">>},
   factor_more |-> More({"|"}, "type_factor", "factor_more"),
   type_factor |-> {<<"type_element", "element_more">>},
   element_more |-> More({","}, "type_element", "element_more"),
   type_element |-> {<<"(", "type_description", ")">>, <<"type_leaf">>},
   type_leaf |-> {<<"variable">>, <<"annotated_identifier">>},
   variable |-> {<<"identifier", ":", "type_of_variable">>},
   type_of_variable |->
     {<<"annotated_identifier">>, <<"(", "type_description", ")">>},
   type_declaration |->
     {<<"type", "identifier", "{", "type_description", "}">>}]

\* The levels of the binary operators, from the ones that bind least, make no
\* difference to what is derived: they tell how an expression is to be read.
Levels ==
  << {","}, {"="}, {"||"}, {"&&"}, {"|"}, {"^"}, {"&"}, {"==", "!="},
     {">", ">=", "<", "<="}, {"+", "-"}, {"*", "/"}, {".", "["} >>
BinaryOperators == UNION {Levels[k] : k \in DOMAIN Levels}

ExpressionRules ==
  [expression |-> {<<"factor", "operands">>},
   operands |->
     More(BinaryOperators \ {"["}, "factor", "operands")
       \cup {<<"[", "factor", "]", "operands">>},
   factor |-> (OneOf({"&", "++", "--", "-", "+"}) ** {<<"element">>})
                \cup ({<<"element">>} ** Opt("postfix")),
   postfix |-> OneOf({"++", "--"}),
   element |-> OneOf({"identifier", "integer", "float", "string", "true",
                      "false", "variable", "function_call", "block",
                      "if_expression", "match_expression"})
                 \cup {<<"(", "expression", ")">>},
   function_call |->
     {<<"identifier">>} ** Opt("generic_attributes") ** {<<"(">>}
       ** Opt("expression") ** {<<")">>},
   block |-> {<<"{", "block_elements", "}">>},
   block_elements |-> {Epsilon, <<"block_element", "block_elements">>},
   block_element |->
     {<<"expression">>, <<"type_declaration">>, <<"return", "expression">>},
   conditional_branch |-> {<<"expression", "block">>},
   if_expression |-> {<<"if", "conditional_branch", "if_more">>},
   if_more |-> {Epsilon, <<"elif", "conditional_branch", "if_more">>,
                <<"else", "block">>},
   match_expression |-> {<<"match", "matched", "{", "match_cases", "}">>,
                         <<"match", "matched", "no_body">>},
   matched |-> {<<"identifier">>, <<"(", "identifier", ")">>},
   match_cases |-> {Epsilon, <<"match_case", "match_cases">>},
   match_case |-> {<<"type_description", "=>", "expression">>}]

FunctionRules ==
  [signature |->
     {<<"identifier">>} ** Opt("generic_declaration") ** {<<"(">>}
       ** Opt("type_description") ** {<<")">>} ** Opt("function_return"),
   function_return |-> {<<"->", "type_description">>},
   function_declaration |-> {<<"fn", "signature">>},
   function_implementation |->
     {<<"function_declaration">>}
       ** {<<"block">>, <<"match_case", "match_cases">>},
   typeclass |->
     {<<"class", "identifier">>} ** Opt("generic_declaration")
       ** {<<"{", "function_declaration", "more_declarations", "}">>},
   more_declarations |->
     {Epsilon, <<"function_declaration", "more_declarations">>},
   typeinstance |->
     {<<"instance", "identifier", "identifier">>} ** Opt("generic_declaration")
       ** {<<"{", "function_implementation", "more_implementations", "}">>},
   more_implementations |->
     {Epsilon, <<"function_implementation", "more_implementations">>}]

ModuleRules ==
  [import_statement |->
     OneOf({"import", "foreign_import"}) ** {<<"imported", "imported_more">>},
   imported_more |-> More({","}, "imported", "imported_more"),
   imported |-> {<<"identifier">>, <<"signature">>},
   a_module |-> {<<"module", "identifier">>} ** Opt("module_args")
                ** {<<"{", "module_statements", "}">>},
   module_args |-> {<<"(", ")">>, <<"(", "type_description", ")">>},
   module_statements |-> {Epsilon, <<"module_statement", "module_statements">>},
   module_statement |-> {<<"import_statement">>, <<"function_implementation">>,
                         <<"type_declaration">>},
   file |-> {Epsilon, <<"statement", "file">>},
   statement |-> {<<"a_module">>, <<"block">>, <<"variable">>,
                  <<"module_statement">>}]

Rules == TypeRules @@ ExpressionRules @@ FunctionRules @@ ModuleRules

\* The positions in front of which a derivation of a symbol, or of a sequence
\* of symbols, can end that begins behind position i.
RECURSIVE EndsOf(_, _, _), EndsOfAll(_, _, _)
EndsOf(tokens, symbol, i) ==
  IF symbol \in DOMAIN Rules
  THEN UNION {EndsOfAll(tokens, rhs, i) : rhs \in Rules[symbol]}
  ELSE IF symbol = "no_body"
  THEN IF i < Len(tokens) /\ tokens[i + 1] = "{" THEN {} ELSE {i}
  ELSE IF i < Len(tokens) /\ tokens[i + 1] = symbol THEN {i + 1} ELSE {}
EndsOfAll(tokens, symbols, i) ==
  IF symbols = Epsilon THEN {i}
  ELSE UNION {EndsOfAll(tokens, Tail(symbols), j) :
                j \in EndsOf(tokens, Head(symbols), i)}

Derives(symbol, tokens) == Len(tokens) \in EndsOf(tokens, symbol, 0)

\* Some derivation of the symbol begins with these tokens.
DerivesUpTo(symbol, tokens, i) == i \in EndsOf(tokens, symbol, 0)
=============================================================================
