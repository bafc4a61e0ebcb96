---------------------------- MODULE Speculation ----------------------------
(***************************************************************************)
(* The parser as a client of the token stream: it accepts tokens, takes    *)
(* the values of tokens it has just accepted, posts messages, and nests    *)
(* attempts, each of which ends in a pop or in a rollback. An attempt that *)
(* is rolled back must have been as if it had never been made.             *)
(*                                                                         *)
(* before and heard are history variables: the position and the ownership, *)
(* and the messages, at each push that is still open.                      *)
(***************************************************************************)
EXTENDS TokenStream

CONSTANTS
  Texts,        \* the sequences of tokens that are read
  MaxMarks,     \* bound on the attempts that are open at once
  MaxMessages   \* bound on the messages posted

ASSUME TextsAssumption == \A t \in Texts : t \in Seq(STRING)
ASSUME BoundsAssumption == MaxMarks \in Nat /\ MaxMessages \in Nat

VARIABLES s, before, heard

vars == <<s, before, heard>>

Init ==
  /\ \E t \in Texts : s = NewStream(t)
  /\ before = << >>
  /\ heard = << >>

\* parser_acc_identifier() and the like: consume a token and take its value.
AcceptValue ==
  /\ HasValue(s.tokens, s.pos + 1)
  /\ s' = TakeValue(NextToken(s), s.pos + 1)
  /\ UNCHANGED <<before, heard>>

\* Consume a token without its value.
AcceptToken ==
  /\ s' = NextToken(s)
  /\ UNCHANGED <<before, heard>>

\* Look at a token after consuming it, then take its value: what
\* parser_acc_genrtype() does, with tokens it consumed under its own mark.
TakeAccepted ==
  /\ HasValue(s.tokens, s.pos)
  /\ s.marks # << >> => LastMark(s) < s.pos
  /\ s' = TakeValue(s, s.pos)
  /\ UNCHANGED <<before, heard>>

BeginAttempt ==
  /\ Len(s.marks) < MaxMarks
  /\ s' = PushMark(s)
  /\ before' = Append(before, [pos |-> s.pos, owned |-> s.owned])
  /\ UNCHANGED heard

KeepAttempt ==
  /\ s.marks # << >>
  /\ s' = PopMark(s)
  /\ before' = DropLast(before)
  /\ UNCHANGED heard

GiveUpAttempt ==
  /\ s.marks # << >>
  /\ s' = Rollback(s)
  /\ before' = DropLast(before)
  /\ UNCHANGED heard

PostMessage ==
  /\ s.msgNum < MaxMessages
  /\ s' = SyntaxError(s)
  /\ UNCHANGED <<before, heard>>

BeginQuietly ==
  /\ Len(s.msgMarks) < MaxMarks
  /\ s' = PushMessages(s)
  /\ heard' = Append(heard, s.msgs)
  /\ UNCHANGED before

KeepMessages ==
  /\ s.msgMarks # << >>
  /\ s' = PopMessages(s)
  /\ heard' = DropLast(heard)
  /\ UNCHANGED before

ForgetMessages ==
  /\ s.msgMarks # << >>
  /\ s' = RollbackInfo(s)
  /\ heard' = DropLast(heard)
  /\ UNCHANGED before

Next ==
  \/ AcceptValue \/ AcceptToken \/ TakeAccepted
  \/ BeginAttempt \/ KeepAttempt \/ GiveUpAttempt
  \/ PostMessage \/ BeginQuietly \/ KeepMessages \/ ForgetMessages

Spec == Init /\ [][Next]_vars
-----------------------------------------------------------------------------
Stream ==
  [tokens : Seq(STRING), pos : Nat, marks : Seq(Nat), owned : SUBSET Nat,
   msgs : Seq(Nat), msgNum : Nat, msgMarks : Seq(Nat), err : BOOLEAN]

\* The stream is one, its position stays within the tokens, and only values that
\* there are are owned.
TypeOK ==
  /\ s \in Stream
  /\ s.pos <= Len(s.tokens)
  /\ s.owned \subseteq ValueTokens(s.tokens)
  /\ before \in Seq([pos : Nat, owned : SUBSET Nat])
  /\ heard \in Seq(Seq(Nat))

\* The marks are where the open attempts began, in order, and none is ahead of
\* the position: the assertion of lexer_rollback() holds.
MarksAreInOrder ==
  /\ Len(before) = Len(s.marks)
  /\ \A i \in DOMAIN s.marks :
       /\ s.marks[i] = before[i].pos
       /\ s.marks[i] <= s.pos
  /\ \A i, j \in DOMAIN s.marks : i < j => s.marks[i] <= s.marks[j]

\* Nothing that lies ahead has been taken.
UnreadIsOwned ==
  \A i \in ValueTokens(s.tokens) : s.pos < i => i \in s.owned

\* What an open attempt has taken lies behind its mark.
TakenInAttempt ==
  \A k \in DOMAIN s.marks :
    s.owned \cup {i \in ValueTokens(s.tokens) : s.marks[k] < i}
      = before[k].owned

\* What an attempt relies on if its rollback, by position alone, is to be right.
AttemptsAreSound == MarksAreInOrder /\ UnreadIsOwned /\ TakenInAttempt

\* An attempt that is given up leaves position and ownership as they were when
\* it began, whatever attempts were made inside of it.
AttemptLeavesNoTrace ==
  [][GiveUpAttempt => /\ s'.pos = before[Len(before)].pos
                      /\ s'.owned = before[Len(before)].owned]_vars

\* The messages are numbered in order, and the marks stand for the messages
\* there were.
MessagesAreInOrder ==
  /\ Len(heard) = Len(s.msgMarks)
  /\ \A i \in DOMAIN s.msgs : 0 < s.msgs[i] /\ s.msgs[i] <= s.msgNum
  /\ \A i, j \in DOMAIN s.msgs : i < j => s.msgs[i] < s.msgs[j]
  /\ \A k \in DOMAIN heard :
       /\ Len(heard[k]) <= Len(s.msgs)
       /\ heard[k] = SubSeq(s.msgs, 1, Len(heard[k]))
       /\ s.msgMarks[k] = IF heard[k] = << >> THEN NoMessage
                          ELSE heard[k][Len(heard[k])]
  /\ \A i, j \in DOMAIN heard : i < j => Len(heard[i]) <= Len(heard[j])

\* A rollback of the messages removes those posted since its push, all of them
\* and no others, and the flag does not stay behind without them.
QuietAttemptIsQuiet ==
  [][ForgetMessages => s'.msgs = heard[Len(heard)] /\ ~s'.err]_vars
=============================================================================
