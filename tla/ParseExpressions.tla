-------------------------- MODULE ParseExpressions --------------------------
(***************************************************************************)
(* The parser's rules for expressions and blocks: expression.c, block.c,   *)
(* ifexpr.c, matchexpr.c and the calls of function.c in                    *)
(* src/parser/recursive_descent.                                           *)
(***************************************************************************)
EXTENDS ParseTypes

\* check_operator_type(): the binary operators, from the ones that bind least.
OperatorsAt ==
  << {","}, {"="}, {"||"}, {"&&"}, {"|"}, {"^"}, {"&"}, {"==", "!="},
     {">", ">=", "<", "<="}, {"+", "-"}, {"*", "/"}, {".", "["} >>

PrefixOperators == {"&", "++", "--", "-", "+"}
PostfixOperators == {"++", "--"}

RECURSIVE AccExprlevel(_, _), AccExpressionPrime(_, _, _)
RECURSIVE AccBlock(_, _), AccIfexpr(_, _), AccMatchexpr(_, _, _)

AccExpression(s) == AccExprlevel(s, 1)

\* An identifier, a literal or a constant: the token the rule has looked at at
\* its beginning is the node, whatever lies ahead by now; one token is consumed.
AccToken(s, i) ==
  Give(NextToken(IF HasValue(s.tokens, i) THEN TakeValue(s, i) ELSE s),
       Leaf(s.tokens[i], i))
-----------------------------------------------------------------------------
\* With expectIt the rule complains about a missing parenthesis; without, the
\* tokens may be a comparison as well.
AccFncall(s, expectIt) ==
  LET name  == AccIdentifier(PushMark(s))
      genr  == AccGenrattr(name, FALSE)
      open  == NextToken(genr)
      args  == AccExpression(open)
      close == NextToken(args)
  IN  IF Failed(name) THEN GiveUp(name)
      ELSE IF Failed(genr) /\ genr.err THEN GiveUp(genr)
      ELSE IF Lookahead(genr, 1) # "(" THEN GiveUp(Complain(genr, expectIt))
      ELSE IF Failed(args) /\ args.err THEN GiveUp(SyntaxError(args))
      ELSE IF Lookahead(args, 1) # ")" THEN GiveUp(Complain(args, expectIt))
      ELSE PopMark(Give(close, Node("fncall", name.node.first, close.pos,
                                    <<name.node>> \o Optional(args)
                                      \o Optional(genr))))

AccParenthesized(s) ==
  LET expr  == AccExpression(NextToken(s))
      close == NextToken(expr)
  IN  IF Failed(expr) THEN SyntaxError(expr)
      ELSE IF Lookahead(expr, 1) # ")" THEN Null(SyntaxError(close))
      ELSE close

\* What is found by a rule that has been chosen by its first tokens must be
\* there.
MustBe(s) == IF Failed(s) THEN SyntaxError(s) ELSE s

AccExprElement(s) ==
  LET tok  == Lookahead(s, 1)
      tok2 == Lookahead(s, 2)
      call == AccFncall(s, FALSE)
  IN  CASE tok = Eof -> Null(s)
        [] tok = "(" -> AccParenthesized(s)
        [] tok = "identifier" /\ tok2 = ":" -> MustBe(AccVardecl(s))
        [] tok = "identifier" /\ tok2 = "<" ->
             IF Failed(call) THEN AccToken(call, s.pos + 1) ELSE call
        [] tok = "identifier" /\ tok2 = "(" -> AccFncall(s, TRUE)
        [] tok = "{" -> MustBe(AccBlock(s, TRUE))
        [] tok = "if" -> MustBe(AccIfexpr(s, "if"))
        [] tok = "match" -> MustBe(AccMatchexpr(s, TRUE, TRUE))
        [] tok \in {"true", "false", "integer", "float", "string"}
           \/ (tok = "identifier" /\ tok2 \notin {":", "<", "("}) ->
             AccToken(s, s.pos + 1)
        [] OTHER -> Null(s)

AccExprfactor(s) ==
  LET hasPrefix == Lookahead(s, 1) \in PrefixOperators
      element   == AccExprElement(IF hasPrefix THEN NextToken(s) ELSE s)
      postfix   == Lookahead(element, 1)
  IN  IF Failed(element) THEN Complain(element, hasPrefix)
      ELSE IF hasPrefix
           THEN Give(element, Node(Lookahead(s, 1), s.pos + 1,
                                   element.node.last, <<element.node>>))
      ELSE IF postfix \in PostfixOperators
           THEN Give(NextToken(element),
                     Node(postfix, element.node.first, element.pos + 1,
                          <<element.node>>))
      ELSE element

AccExprlevel(s, level) ==
  LET term == IF level > Len(OperatorsAt) THEN AccExprfactor(s)
              ELSE AccExprlevel(s, level + 1)
      rest == AccExpressionPrime(term, level, term.node)
  IN  IF Failed(term) THEN term
      ELSE IF rest.err THEN Null(rest)
      ELSE IF Failed(rest) THEN Give(rest, term.node) ELSE rest

\* The operand behind '[' is a factor; a name is needed to complain about it.
CloseIndex(s) ==
  IF Lookahead(s, 1) = "]" THEN NextToken(s)
  ELSE IF Lookahead(s, 1) = Eof
          \/ s.node.kind \notin {"identifier", "xidentifier"}
       THEN Crash(s)
  ELSE Null(SyntaxError(s))

\* Faulty: the right operand is read at the operator's own level.
AccExpressionPrime_Right(s, level, left) ==
  LET right == AccExprlevel(NextToken(s), level)
      op    == Node(Lookahead(s, 1), left.first, right.pos, <<left, right.node>>)
  IN  IF level > Len(OperatorsAt) THEN Null(s)
      ELSE IF Lookahead(s, 1) \notin OperatorsAt[level] THEN Null(s)
      ELSE IF Failed(right) THEN SyntaxError(right)
      ELSE Give(IF Lookahead(s, 1) = "[" THEN CloseIndex(right) ELSE right, op)

AccExpressionPrime(s, level, left) ==
  LET isIndex == Lookahead(s, 1) = "["
      right   == AccExprlevel(NextToken(s), level + 1)
      closed  == IF isIndex THEN CloseIndex(right) ELSE right
      op      == Node(Lookahead(s, 1), left.first,
                      IF isIndex THEN closed.pos ELSE right.node.last,
                      <<left, right.node>>)
      rest    == AccExpressionPrime(closed, level, op)
  IN  IF level > Len(OperatorsAt) THEN Null(s)
      ELSE IF Lookahead(s, 1) \notin OperatorsAt[level] THEN Null(s)
      ELSE IF Failed(right) THEN SyntaxError(right)
      ELSE IF Failed(closed) THEN closed
      ELSE IF rest.err THEN Null(rest)
      ELSE IF Failed(rest) THEN Give(rest, op) ELSE rest
-----------------------------------------------------------------------------
\* Blocks

AccReturnStatement(s) ==
  LET expr == AccExpression(NextToken(s))
  IN  IF Failed(expr) THEN SyntaxError(expr)
      ELSE Give(expr, Node("return", s.pos + 1, expr.node.last, <<expr.node>>))

AccExprStatement(s) ==
  CASE Lookahead(s, 1) = "{" -> AccBlock(s, TRUE)
    [] Lookahead(s, 1) = "type" -> AccTypedecl(s)
    [] Lookahead(s, 1) = "return" -> AccReturnStatement(s)
    [] OTHER -> Null(s)

\* A statement is looked for where the expression has left off.
AccBlockElement(s) ==
  LET expr == AccExpression(s)
  IN  IF Failed(expr) THEN AccExprStatement(expr) ELSE expr

RECURSIVE AccBlockElements(_, _)
AccBlockElements(s, n) ==
  LET element == AccBlockElement(s)
  IN  IF Failed(element) THEN Give(element, n)
      ELSE AccBlockElements(element, AddChild(n, element.node))

\* Faulty: a block that is not closed will do.
AccBlock_Unclosed(s, expectBraces) ==
  LET elements == AccBlockElements(NextToken(s), Node("block", s.pos + 1, 0, << >>))
      close    == NextToken(elements)
  IN  IF Lookahead(s, 1) # "{" THEN Null(s)
      ELSE Give(close, [elements.node EXCEPT !.last = close.pos])

\* An element that fails ends the loop over the elements like the end of the
\* block does; only the token that comes next is looked at.
AccBlock(s, expectBraces) ==
  LET elements == AccBlockElements(IF expectBraces THEN NextToken(s) ELSE s,
                                   Node("block", s.pos + 1, 0, << >>))
      kids     == elements.node.kids
      close    == NextToken(elements)
  IN  IF Lookahead(s, 1) = Eof THEN Null(s)
      ELSE IF expectBraces
           THEN IF Lookahead(s, 1) # "{" THEN Null(s)
                ELSE IF Lookahead(elements, 1) # "}"
                     THEN Null(SyntaxError(elements))
                ELSE Give(close, [elements.node EXCEPT !.last = close.pos])
      ELSE IF kids = << >> THEN Null(elements)
      ELSE Give(elements, Node("block", kids[1].first, kids[Len(kids)].last,
                               kids))
-----------------------------------------------------------------------------
\* Conditionals

AccCondbranch(s) ==
  LET cond  == AccExpression(s)
      block == AccBlock(cond, TRUE)
  IN  IF Failed(cond) THEN SyntaxError(cond)
      ELSE IF Failed(block) THEN SyntaxError(block)
      ELSE Give(block, Node("condbranch", cond.node.first, block.node.last,
                            <<cond.node, block.node>>))

RECURSIVE AccFallthrough(_, _)
\* Faulty: the end of the conditional is not moved to that of its last branch.
AccFallthrough_KeepsEnd(s, n) ==
  LET branch == IF Lookahead(s, 1) = "elif" THEN AccIfexpr(s, "elif")
                ELSE AccBlock(NextToken(s), TRUE)
  IN  IF Lookahead(s, 1) \notin {"elif", "else"} THEN Give(s, n)
      ELSE IF Failed(branch) THEN SyntaxError(branch)
      ELSE AccFallthrough(branch, AddChild(n, branch.node))

AccFallthrough(s, n) ==
  LET elif  == AccIfexpr(s, "elif")
      block == AccBlock(NextToken(s), TRUE)
      Added(branch) == AccFallthrough(branch,
                         [AddChild(n, branch.node) EXCEPT
                            !.last = branch.node.last])
  IN  CASE Lookahead(s, 1) = "elif" -> IF Failed(elif) THEN elif ELSE Added(elif)
        [] Lookahead(s, 1) = "else" ->
             IF Failed(block) THEN SyntaxError(block) ELSE Added(block)
        [] OTHER -> Give(s, n)

\* The mark lies behind 'if': a failure does not give the keyword back.
AccIfexpr(s, ifType) ==
  LET branch == AccCondbranch(PushMark(NextToken(s)))
      all    == AccFallthrough(branch, Node("ifexpr", s.pos + 1,
                                            branch.node.last, <<branch.node>>))
  IN  IF Lookahead(s, 1) # ifType THEN Null(s)
      ELSE IF Failed(branch) THEN GiveUp(branch)
      ELSE IF Failed(all) THEN GiveUp(all)
      ELSE PopMark(all)
-----------------------------------------------------------------------------
\* Matches

AccMatchcase(s) ==
  LET pattern == AccTypedescTop(s)
      expr    == AccExpression(NextToken(pattern))
  IN  IF Failed(pattern) THEN pattern
      ELSE IF Lookahead(pattern, 1) # "=>" THEN Null(SyntaxError(pattern))
      ELSE IF Failed(expr) THEN SyntaxError(expr)
      ELSE Give(expr, Node("matchcase", pattern.node.first, expr.node.last,
                           <<pattern.node, expr.node>>))

RECURSIVE AccMatchcases(_, _)
AccMatchcases(s, n) ==
  LET case == AccMatchcase(s)
  IN  IF Failed(case) THEN Give(case, n)
      ELSE AccMatchcases(case, AddChild(n, case.node))

\* 'match' with its identifier, which may stand in parentheses.
AccMatchHeader(s) ==
  LET m        == NextToken(s)
      gotParen == Lookahead(m, 1) = "("
      id       == AccIdentifier(IF gotParen THEN NextToken(m) ELSE m)
      close    == IF gotParen THEN NextToken(id) ELSE id
  IN  IF Failed(id) THEN SyntaxError(id)
      ELSE IF gotParen /\ Lookahead(id, 1) # ")" THEN Null(SyntaxError(id))
      ELSE Give(close, Node("matchexpr", s.pos + 1, close.pos, <<id.node>>))

\* The end that a match gets: that of its closing brace, or of its last case.
\* A match without a header that has one case only gets the value of a pointer
\* that was never set; Unset stands for whatever that may be.
Unset == 0
HeadlessEnd(kids) == IF Len(kids) < 2 THEN Unset ELSE kids[Len(kids)].last

\* A match without a body returns with its mark still pushed.
AccMatchexpr(s, haveHeader, expectIt) ==
  LET m      == PushMark(s)
      header == AccMatchHeader(m)
      first  == AccMatchcase(m)
      cases  == IF haveHeader THEN AccMatchcases(NextToken(header), header.node)
                ELSE AccMatchcases(first, Node("matchexpr", first.node.first, 0,
                                               <<first.node>>))
      close  == NextToken(cases)
  IN  IF haveHeader /\ Lookahead(m, 1) # "match"
      THEN GiveUp(Complain(m, expectIt))
      ELSE IF haveHeader /\ Failed(header) THEN GiveUp(header)
      ELSE IF haveHeader /\ Lookahead(header, 1) # "{" THEN header
      ELSE IF ~haveHeader /\ Failed(first) THEN GiveUp(Complain(first, expectIt))
      ELSE IF cases.err THEN GiveUp(cases)
      ELSE IF haveHeader
           THEN IF Lookahead(cases, 1) # "}" THEN GiveUp(SyntaxError(cases))
                ELSE PopMark(Give(close, [cases.node EXCEPT !.last = close.pos]))
      ELSE PopMark(Give(cases, [cases.node EXCEPT
                                  !.last = HeadlessEnd(cases.node.kids)]))
=============================================================================
