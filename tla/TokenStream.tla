---------------------------- MODULE TokenStream ----------------------------
(***************************************************************************)
(* What the parser reads and writes while it looks for a rule: the tokens  *)
(* of the lexer with their positions and marks (src/lexer/lexer.c), the    *)
(* ownership of the tokens' values, and the messages with their marks      *)
(* (src/info/info.c).                                                      *)
(*                                                                         *)
(* A stream is a record; every operation maps a stream to a stream. pos is *)
(* tok_index, the number of tokens consumed: the token at 0-based index i  *)
(* of the code is tokens[i + 1]. A message is known by its number; the     *)
(* pointer to a message that info_ctx_push() keeps is that number.         *)
(***************************************************************************)
EXTENDS Integers, Sequences, FiniteSets

Eof == "eof"   \* lookahead beyond the last token: NULL
NoMessage == 0 \* the tail of an empty list of messages: NULL

\* The kinds of the tokens that carry a node of the tree as their value.
ValueKinds == {"identifier", "integer", "float", "string"}

HasValue(tokens, i) == i \in DOMAIN tokens /\ tokens[i] \in ValueKinds

ValueTokens(tokens) == {i \in DOMAIN tokens : tokens[i] \in ValueKinds}

NewStream(tokens) ==
  [tokens   |-> tokens,
   pos      |-> 0,                    \* lexer.tok_index
   marks    |-> << >>,                \* lexer.indices
   owned    |-> ValueTokens(tokens),  \* whose value.owned_by_lexer is set
   msgs     |-> << >>,                \* info.msg_list
   msgNum   |-> 0,                    \* info.msg_num
   msgMarks |-> << >>,                \* info.last_msgs_arr
   err      |-> FALSE]                \* parser.have_syntax_err
-----------------------------------------------------------------------------
\* The lexer.

Lookahead(s, n) ==
  IF s.pos + n <= Len(s.tokens) THEN s.tokens[s.pos + n] ELSE Eof

\* Faulty: the position runs beyond the last token.
NextToken_PastTheEnd(s) == [s EXCEPT !.pos = @ + 1]

NextToken(s) ==
  IF s.pos < Len(s.tokens) THEN [s EXCEPT !.pos = @ + 1] ELSE s

\* token_get_value(): the caller owns the value from here on.
TakeValue(s, i) == [s EXCEPT !.owned = @ \ {i}]

PushMark(s) == [s EXCEPT !.marks = Append(@, s.pos)]

LastMark(s) == s.marks[Len(s.marks)]

DropLast(seq) == SubSeq(seq, 1, Len(seq) - 1)

PopMark(s) == [s EXCEPT !.marks = DropLast(@)]

\* The values that a rollback gives back to the lexer: those of all tokens
\* from the mark to the current one, which is not consumed yet, inclusive.
GivenBack(s) ==
  {i \in ValueTokens(s.tokens) : LastMark(s) < i /\ i <= s.pos + 1}

\* Faulty: the values stay with whoever took them.
Rollback_KeepsValues(s) ==
  [s EXCEPT !.pos = LastMark(s), !.marks = DropLast(@)]

\* Faulty: the position is not restored.
Rollback_KeepsPosition(s) ==
  [s EXCEPT !.marks = DropLast(@), !.owned = @ \cup GivenBack(s)]

Rollback(s) ==
  [s EXCEPT !.pos   = LastMark(s),
            !.marks = DropLast(@),
            !.owned = @ \cup GivenBack(s)]
-----------------------------------------------------------------------------
\* The messages.

LastMessage(s) == IF s.msgs = << >> THEN NoMessage ELSE s.msgs[Len(s.msgs)]

AddMessage(s) ==
  [s EXCEPT !.msgs = Append(@, s.msgNum + 1), !.msgNum = @ + 1]

PushMessages(s) == [s EXCEPT !.msgMarks = Append(@, LastMessage(s))]

PopMessages(s) == [s EXCEPT !.msgMarks = DropLast(@)]

\* The messages up to the marked one: the loop takes the last message off
\* until the last one is the marked one or none is left.
UpTo(msgs, until) ==
  LET places == {i \in DOMAIN msgs : msgs[i] = until}
  IN  IF places = {} THEN << >>
      ELSE SubSeq(msgs, 1, CHOOSE i \in places : \A j \in places : j <= i)

RollbackMessages(s) ==
  [s EXCEPT !.msgs     = UpTo(@, s.msgMarks[Len(s.msgMarks)]),
            !.msgMarks = DropLast(@)]

\* Faulty: the messages go, the flag that one was posted stays.
RollbackInfo_KeepsFlag(s) == RollbackMessages(s)

\* parser_info_rollback()
RollbackInfo(s) == [RollbackMessages(s) EXCEPT !.err = FALSE]

\* parser_synerr()
SyntaxError(s) == [AddMessage(s) EXCEPT !.err = TRUE]

\* parser_has_syntax_error_reset(), of which the caller reads s.err
ResetError(s) == [s EXCEPT !.err = FALSE]
=============================================================================
