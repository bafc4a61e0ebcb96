----------------------------- MODULE ParseTypes -----------------------------
(***************************************************************************)
(* The parser's rules for identifiers, generics and types:                 *)
(* identifier.c, generics.c, type.c and vardecl.c of                       *)
(* src/parser/recursive_descent.                                           *)
(*                                                                         *)
(* A rule maps the state of the parser to the state in which it returns:   *)
(* the stream together with the node it returns. A node records the first  *)
(* and the last token of its location, which the code keeps as marks.      *)
(***************************************************************************)
EXTENDS TokenStream, TLC

NoNode == [kind |-> "none", first |-> 0, last |-> 0, kids |-> << >>]

Node(kind, first, last, kids) ==
  [kind |-> kind, first |-> first, last |-> last, kids |-> kids]

Leaf(kind, i) == Node(kind, i, i, << >>)

AddChild(n, kid) == [n EXCEPT !.kids = Append(@, kid)]

NewParser(tokens) ==
  NewStream(tokens) @@ [node |-> NoNode, crashed |-> FALSE]

Give(s, n) == [s EXCEPT !.node = n]
Null(s) == Give(s, NoNode)
Failed(s) == s.node = NoNode
GiveUp(s) == Rollback(Null(s))
Complain(s, expectIt) == IF expectIt THEN SyntaxError(s) ELSE s

\* A token that is not there is read through its null pointer. What happens
\* behind that is not modelled: crashed stays set.
Crash(s) == [Null(s) EXCEPT !.crashed = TRUE]

\* The child that an optional rule has found, if any.
Optional(s) == IF Failed(s) THEN << >> ELSE <<s.node>>
-----------------------------------------------------------------------------
AccIdentifier(s) ==
  IF Lookahead(s, 1) = "identifier"
  THEN Give(TakeValue(NextToken(s), s.pos + 1), Leaf("identifier", s.pos + 1))
  ELSE Null(s)

RECURSIVE AccTypedesc(_), AccTypeLevel(_, _), AccTypePrime(_, _, _)
RECURSIVE AccGenrattr(_, _), AccGenericAttributePrime(_, _, _)

AccXIdentifier(s, expectIt) ==
  LET isConst == Lookahead(s, 1) = "const"
      t       == IF isConst THEN NextToken(s) ELSE s
      id      == AccIdentifier(t)
      genr    == AccGenrattr(id, FALSE)
  IN  IF Lookahead(s, 1) = Eof THEN Null(s)
      ELSE IF Lookahead(t, 1) = Eof THEN Null(SyntaxError(t))
      ELSE IF Failed(id) THEN Null(Complain(t, expectIt))
      ELSE IF Failed(genr) /\ genr.err THEN Null(genr)
      ELSE Give(genr, Node("xidentifier", s.pos + 1,
                           IF Failed(genr) THEN id.pos ELSE genr.node.last,
                           <<id.node>> \o Optional(genr)))
-----------------------------------------------------------------------------
\* Generic attributes: <a, (b|c)>

AccGenrattrSingle(s, expectIt) ==
  LET m     == PushMark(s)
      desc  == AccTypedesc(NextToken(m))
      close == NextToken(desc)
      xid   == AccXIdentifier(m, FALSE)
  IN  IF Lookahead(m, 1) = Eof THEN GiveUp(m)
      ELSE IF Lookahead(m, 1) = "("
           THEN IF Failed(desc) THEN GiveUp(Complain(desc, expectIt))
                ELSE IF Lookahead(desc, 1) # ")"
                     THEN GiveUp(Complain(close, expectIt))
                ELSE PopMark(close)
      ELSE IF Failed(xid) THEN GiveUp(Complain(xid, expectIt))
      ELSE PopMark(xid)

\* A bad attribute behind a comma is a syntax error whether or not attributes
\* are expected here.
AccGenericAttributePrime(s, n, expectIt) ==
  LET single == AccGenrattrSingle(NextToken(s), expectIt)
  IN  IF Lookahead(s, 1) # "," THEN Give(s, n)
      ELSE IF Failed(single) THEN Null(SyntaxError(single))
      ELSE AccGenericAttributePrime(single, AddChild(n, single.node), expectIt)

AccGenericAttribute(s, n, expectIt) ==
  LET single == AccGenrattrSingle(s, expectIt)
  IN  IF Failed(single) THEN single
      ELSE AccGenericAttributePrime(single, AddChild(n, single.node), expectIt)

AccGenrattr(s, expectIt) ==
  LET m     == PushMark(s)
      attrs == AccGenericAttribute(NextToken(m),
                                   Node("genrattr", m.pos + 1, 0, << >>),
                                   expectIt)
      close == NextToken(attrs)
  IN  IF Lookahead(m, 1) # "<" THEN GiveUp(m)
      ELSE IF Failed(attrs) THEN GiveUp(Complain(attrs, expectIt))
      ELSE IF Lookahead(attrs, 1) # ">" THEN GiveUp(Complain(close, expectIt))
      ELSE PopMark(Give(close, [attrs.node EXCEPT !.last = close.pos]))
-----------------------------------------------------------------------------
\* Generic declarations: <Type a, Type b>

AccGenrtype(s) ==
  LET m     == PushMark(s)
      type  == AccIdentifier(m)
      named == AccIdentifier(type)
  IN  IF Failed(type) THEN GiveUp(SyntaxError(NextToken(m)))
      ELSE IF Failed(named) THEN GiveUp(SyntaxError(NextToken(type)))
      ELSE PopMark(Give(named, Node("genrtype", type.pos, named.pos,
                                    <<type.node, named.node>>)))

RECURSIVE AccGenericDeclsPrime(_, _)
AccGenericDeclsPrime(s, n) ==
  LET single == AccGenrtype(NextToken(s))
  IN  IF Lookahead(s, 1) # "," THEN Give(s, n)
      ELSE IF Failed(single) THEN SyntaxError(single)
      ELSE AccGenericDeclsPrime(single, AddChild(n, single.node))

AccGenrdecl(s) ==
  LET m     == PushMark(s)
      first == AccGenrtype(NextToken(m))
      decls == IF Failed(first) THEN first
               ELSE AccGenericDeclsPrime(first, Node("genrdecl", m.pos + 1, 0,
                                                     <<first.node>>))
      close == NextToken(decls)
  IN  IF Lookahead(s, 1) # "<" THEN Null(s)
      ELSE IF Failed(decls) THEN GiveUp(SyntaxError(decls))
      ELSE IF Lookahead(decls, 1) = Eof THEN Crash(decls)
      ELSE IF Lookahead(decls, 1) # ">" THEN GiveUp(SyntaxError(close))
      ELSE PopMark(Give(close, [decls.node EXCEPT !.last = close.pos]))
-----------------------------------------------------------------------------
\* Types

AccTypedescTop(s) ==
  LET desc == AccTypedesc(s)
  IN  IF Failed(desc) THEN desc
      ELSE Give(desc, Node("typedesc", desc.node.first, desc.node.last,
                           <<desc.node>>))

AccParenthesizedTypedesc(s) ==
  LET desc == AccTypedescTop(NextToken(PushMark(s)))
  IN  IF Failed(desc) \/ Lookahead(desc, 1) # ")" THEN GiveUp(SyntaxError(desc))
      ELSE PopMark(NextToken(desc))

\* Only the failures behind the colon are rolled back; an identifier that
\* fails leaves what it has consumed.
AccTypeleaf(s) ==
  LET m     == PushMark(s)
      left  == AccIdentifier(m)
      colon == NextToken(left)
      right == IF Lookahead(colon, 1) = "(" THEN AccParenthesizedTypedesc(colon)
               ELSE IF Lookahead(colon, 1) \in {"const", "identifier"}
                    THEN AccXIdentifier(colon, TRUE)
               ELSE Null(colon)
  IN  IF Lookahead(s, 1) \notin {"const", "identifier"} THEN Null(s)
      ELSE IF Lookahead(m, 1) = "identifier" /\ Lookahead(m, 2) = ":"
           THEN IF Lookahead(colon, 1) = Eof THEN Crash(colon)
                ELSE IF Failed(right) THEN GiveUp(SyntaxError(right))
                ELSE PopMark(Give(right, Node("typeleaf", left.node.first,
                                              right.node.last,
                                              <<left.node, right.node>>)))
      ELSE PopMark(AccXIdentifier(m, TRUE))

AccTypeelement(s) ==
  LET m == PushMark(s)
      n == IF Lookahead(m, 1) = "(" THEN AccParenthesizedTypedesc(m)
           ELSE AccTypeleaf(m)
  IN  IF Lookahead(s, 1) = Eof THEN Null(s)
      ELSE IF Failed(n) THEN GiveUp(n)
      ELSE PopMark(n)

\* parser_acc_typedesc(), parser_acc_typeterm() and parser_acc_typefactor()
\* differ in their operator and in the rule of their operands only; the levels
\* are numbered 1, 2 and 3, and the elements are level 4.
TypeOps == <<"->", "|", ",">>
TypeKinds == <<"implication", "sum", "product">>

AccTypePrime(s, level, left) ==
  LET right == AccTypeLevel(NextToken(PushMark(s)), level + 1)
      op    == Node(TypeKinds[level], left.first, right.node.last,
                    <<left, right.node>>)
      rest  == AccTypePrime(right, level, op)
  IN  IF Lookahead(s, 1) # TypeOps[level] THEN Null(s)
      ELSE IF Failed(right) THEN GiveUp(SyntaxError(right))
      ELSE IF rest.err THEN GiveUp(rest)
      ELSE PopMark(IF Failed(rest) THEN Give(rest, op) ELSE rest)

AccTypeLevel(s, level) ==
  LET left == AccTypeLevel(s, level + 1)
      rest == AccTypePrime(left, level, left.node)
  IN  IF level > Len(TypeOps) THEN AccTypeelement(s)
      ELSE IF Failed(left) THEN left
      ELSE IF rest.err THEN Null(rest)
      ELSE IF Failed(rest) THEN Give(rest, left.node) ELSE rest

AccTypedesc(s) ==
  LET desc == AccTypeLevel(PushMark(s), 1)
  IN  IF Failed(desc) THEN GiveUp(desc) ELSE PopMark(desc)

AccTypedecl(s) ==
  LET m     == NextToken(PushMark(s))
      name  == AccIdentifier(m)
      open  == NextToken(name)
      desc  == AccTypedescTop(open)
      close == NextToken(desc)
  IN  IF Lookahead(s, 1) # "type" THEN GiveUp(m)
      ELSE IF Failed(name) THEN GiveUp(name)
      ELSE IF Lookahead(name, 1) # "{" THEN GiveUp(open)
      ELSE IF Failed(desc) THEN GiveUp(SyntaxError(desc))
      ELSE IF Lookahead(desc, 1) # "}" THEN GiveUp(SyntaxError(close))
      ELSE PopMark(Give(close, Node("typedecl", m.pos, close.pos,
                                    <<name.node, desc.node>>)))

AccVardecl(s) ==
  LET desc == AccTypeleaf(s)
  IN  IF Failed(desc) THEN desc
      ELSE Give(desc, Node("vardecl", desc.node.first, desc.node.last,
                           <<desc.node>>))
=============================================================================
