------------------------ MODULE Speculation_proofs ------------------------
(***************************************************************************)
(* Proofs that an attempt of the parser that is given up leaves no trace,  *)
(* neither in the position, nor in the ownership of the tokens' values,    *)
(* nor in the messages: for every text, however deep the attempts are      *)
(* nested and however many messages are posted.                            *)
(*                                                                         *)
(* First the sequences, then what each operation of the stream does to the *)
(* stream's fields, then one lemma for each action of the parser.          *)
(***************************************************************************)
EXTENDS Speculation, TLAPS
-----------------------------------------------------------------------------
\* Sequences.

\* Appending keeps the positions of a sequence and adds one at its end.
LEMMA AppendFacts ==
  ASSUME NEW S, NEW q \in Seq(S), NEW e \in S
  PROVE  /\ Append(q, e) \in Seq(S)
         /\ Len(Append(q, e)) = Len(q) + 1
         /\ DOMAIN Append(q, e) = 1 .. Len(q) + 1
         /\ \A i \in DOMAIN q : Append(q, e)[i] = q[i]
         /\ Append(q, e)[Len(q) + 1] = e
OBVIOUS

\* The beginning of a sequence, and the beginning of that.
LEMMA PrefixFacts ==
  ASSUME NEW S, NEW q \in Seq(S), NEW n \in 0 .. Len(q)
  PROVE  /\ SubSeq(q, 1, n) \in Seq(S)
         /\ Len(SubSeq(q, 1, n)) = n
         /\ DOMAIN SubSeq(q, 1, n) = 1 .. n
         /\ \A i \in 1 .. n : SubSeq(q, 1, n)[i] = q[i]
         /\ \A m \in 0 .. n : SubSeq(SubSeq(q, 1, n), 1, m) = SubSeq(q, 1, m)
         /\ \A e \in S : SubSeq(Append(q, e), 1, n) = SubSeq(q, 1, n)
<1>1. /\ SubSeq(q, 1, n) \in Seq(S)
      /\ Len(SubSeq(q, 1, n)) = n
      /\ DOMAIN SubSeq(q, 1, n) = 1 .. n
      /\ \A i \in 1 .. n : SubSeq(q, 1, n)[i] = q[i]
  OBVIOUS
<1>2. ASSUME NEW m \in 0 .. n
      PROVE  SubSeq(SubSeq(q, 1, n), 1, m) = SubSeq(q, 1, m)
  BY <1>1
<1>3. ASSUME NEW e \in S
      PROVE  SubSeq(Append(q, e), 1, n) = SubSeq(q, 1, n)
  OBVIOUS
<1>4. QED
  BY <1>1, <1>2, <1>3

\* The whole of a sequence is its own beginning.
LEMMA WholePrefix ==
  ASSUME NEW S, NEW q \in Seq(S)
  PROVE  SubSeq(q, 1, Len(q)) = q
OBVIOUS

\* Dropping the last element keeps the positions before it.
LEMMA DropLastFacts ==
  ASSUME NEW S, NEW q \in Seq(S), q # << >>
  PROVE  /\ DropLast(q) \in Seq(S)
         /\ Len(q) \in Nat \ {0}
         /\ Len(DropLast(q)) = Len(q) - 1
         /\ DOMAIN DropLast(q) = 1 .. Len(q) - 1
         /\ \A i \in 1 .. Len(q) - 1 : DropLast(q)[i] = q[i]
<1>1. Len(q) \in Nat \ {0}
  OBVIOUS
<1>2. Len(q) - 1 \in 0 .. Len(q)
  BY <1>1
<1>3. /\ SubSeq(q, 1, Len(q) - 1) \in Seq(S)
      /\ Len(SubSeq(q, 1, Len(q) - 1)) = Len(q) - 1
      /\ DOMAIN SubSeq(q, 1, Len(q) - 1) = 1 .. Len(q) - 1
      /\ \A i \in 1 .. Len(q) - 1 : SubSeq(q, 1, Len(q) - 1)[i] = q[i]
  BY <1>2, PrefixFacts
<1>4. QED
  BY <1>1, <1>3 DEF DropLast
-----------------------------------------------------------------------------
\* The stream and its fields.

\* u is t with other tokens consumed, marked and owned.
SameMessages(t, u) ==
  /\ u.msgs = t.msgs
  /\ u.msgNum = t.msgNum
  /\ u.msgMarks = t.msgMarks

\* u is t with other messages.
SameTokens(t, u) ==
  /\ u.tokens = t.tokens
  /\ u.pos = t.pos
  /\ u.marks = t.marks
  /\ u.owned = t.owned

\* The fields of a stream.
LEMMA StreamTypes ==
  ASSUME NEW t \in Stream
  PROVE  /\ t.tokens \in Seq(STRING)
         /\ Len(t.tokens) \in Nat
         /\ DOMAIN t.tokens = 1 .. Len(t.tokens)
         /\ ValueTokens(t.tokens) \subseteq 1 .. Len(t.tokens)
         /\ t.pos \in Nat
         /\ t.marks \in Seq(Nat)
         /\ t.owned \in SUBSET Nat
         /\ t.msgs \in Seq(Nat)
         /\ t.msgNum \in Nat
         /\ t.msgMarks \in Seq(Nat)
         /\ t.err \in BOOLEAN
<1>1. /\ t.tokens \in Seq(STRING)
      /\ t.pos \in Nat
      /\ t.marks \in Seq(Nat)
      /\ t.owned \in SUBSET Nat
      /\ t.msgs \in Seq(Nat)
      /\ t.msgNum \in Nat
      /\ t.msgMarks \in Seq(Nat)
      /\ t.err \in BOOLEAN
  BY DEF Stream
<1>2. Len(t.tokens) \in Nat /\ DOMAIN t.tokens = 1 .. Len(t.tokens)
  BY <1>1
<1>3. ValueTokens(t.tokens) \subseteq 1 .. Len(t.tokens)
  BY <1>2 DEF ValueTokens
<1>4. QED
  BY <1>1, <1>2, <1>3

LEMMA NextTokenFields ==
  ASSUME NEW t \in Stream
  PROVE  LET u == NextToken(t)
         IN  /\ u \in Stream
             /\ u.tokens = t.tokens
             /\ u.pos = IF t.pos < Len(t.tokens) THEN t.pos + 1 ELSE t.pos
             /\ u.marks = t.marks
             /\ u.owned = t.owned
             /\ SameMessages(t, u)
<1>1. t.pos \in Nat /\ t.pos + 1 \in Nat
  BY StreamTypes
<1>2. ASSUME NEW p \in Nat
      PROVE  LET u == [t EXCEPT !.pos = p]
             IN  /\ u \in Stream
                 /\ u.tokens = t.tokens
                 /\ u.pos = p
                 /\ u.marks = t.marks
                 /\ u.owned = t.owned
                 /\ SameMessages(t, u)
  BY DEF Stream, SameMessages
<1>3. CASE t.pos < Len(t.tokens)
  <2>1. NextToken(t) = [t EXCEPT !.pos = t.pos + 1]
    BY <1>3 DEF NextToken
  <2>2. QED
    BY <1>1, <1>2, <1>3, <2>1
<1>4. CASE ~(t.pos < Len(t.tokens))
  BY <1>4 DEF NextToken, SameMessages
<1>5. QED
  BY <1>3, <1>4

LEMMA TakeValueFields ==
  ASSUME NEW t \in Stream, NEW i
  PROVE  LET u == TakeValue(t, i)
         IN  /\ u \in Stream
             /\ u.tokens = t.tokens
             /\ u.pos = t.pos
             /\ u.marks = t.marks
             /\ u.owned = t.owned \ {i}
             /\ SameMessages(t, u)
<1>1. t.owned \ {i} \in SUBSET Nat
  BY StreamTypes
<1>2. ASSUME NEW o \in SUBSET Nat
      PROVE  LET u == [t EXCEPT !.owned = o]
             IN  /\ u \in Stream
                 /\ u.tokens = t.tokens
                 /\ u.pos = t.pos
                 /\ u.marks = t.marks
                 /\ u.owned = o
                 /\ SameMessages(t, u)
  BY DEF Stream, SameMessages
<1>3. TakeValue(t, i) = [t EXCEPT !.owned = t.owned \ {i}]
  BY DEF TakeValue
<1>4. QED
  BY <1>1, <1>2, <1>3

LEMMA MarkFields ==
  ASSUME NEW t \in Stream, NEW m \in Seq(Nat)
  PROVE  LET u == [t EXCEPT !.marks = m]
         IN  /\ u \in Stream
             /\ u.tokens = t.tokens
             /\ u.pos = t.pos
             /\ u.marks = m
             /\ u.owned = t.owned
             /\ SameMessages(t, u)
BY DEF Stream, SameMessages

LEMMA MessageMarkFields ==
  ASSUME NEW t \in Stream, NEW k \in Seq(Nat)
  PROVE  LET u == [t EXCEPT !.msgMarks = k]
         IN  /\ u \in Stream
             /\ u.msgs = t.msgs
             /\ u.msgNum = t.msgNum
             /\ u.msgMarks = k
             /\ SameTokens(t, u)
BY DEF Stream, SameTokens
-----------------------------------------------------------------------------
\* The operations on the marks.

LEMMA PushMarkFields ==
  ASSUME NEW t \in Stream
  PROVE  LET u == PushMark(t)
         IN  /\ u \in Stream
             /\ u.tokens = t.tokens
             /\ u.pos = t.pos
             /\ u.marks = Append(t.marks, t.pos)
             /\ u.owned = t.owned
             /\ SameMessages(t, u)
<1> DEFINE m == Append(t.marks, t.pos)
<1>1. t.marks \in Seq(Nat) /\ t.pos \in Nat
  BY StreamTypes
<1>2. m \in Seq(Nat)
  BY <1>1, AppendFacts
<1>3. PushMark(t) = [t EXCEPT !.marks = m]
  BY DEF PushMark
<1> HIDE DEF m
<1>4. LET u == PushMark(t)
      IN  /\ u \in Stream
          /\ u.tokens = t.tokens
          /\ u.pos = t.pos
          /\ u.marks = m
          /\ u.owned = t.owned
          /\ SameMessages(t, u)
  BY <1>2, <1>3, MarkFields
<1>5. QED
  BY <1>4 DEF m

LEMMA PopMarkFields ==
  ASSUME NEW t \in Stream, t.marks # << >>
  PROVE  LET u == PopMark(t)
         IN  /\ u \in Stream
             /\ u.tokens = t.tokens
             /\ u.pos = t.pos
             /\ u.marks = DropLast(t.marks)
             /\ u.owned = t.owned
             /\ SameMessages(t, u)
<1>1. t.marks \in Seq(Nat)
  BY StreamTypes
<1>2. DropLast(t.marks) \in Seq(Nat)
  BY <1>1, DropLastFacts
<1>3. PopMark(t) = [t EXCEPT !.marks = DropLast(t.marks)]
  BY DEF PopMark
<1>4. QED
  BY <1>2, <1>3, MarkFields

LEMMA RollbackFields ==
  ASSUME NEW t \in Stream, t.marks # << >>
  PROVE  LET u == Rollback(t)
         IN  /\ u \in Stream
             /\ u.tokens = t.tokens
             /\ u.pos = t.marks[Len(t.marks)]
             /\ u.marks = DropLast(t.marks)
             /\ u.owned = t.owned \cup GivenBack(t)
             /\ SameMessages(t, u)
<1> DEFINE p == t.marks[Len(t.marks)]
           m == DropLast(t.marks)
           o == t.owned \cup GivenBack(t)
<1>1. t.marks \in Seq(Nat) /\ t.owned \in SUBSET Nat
  BY StreamTypes
<1>2. m \in Seq(Nat)
  BY <1>1, DropLastFacts
<1>3. p \in Nat
  BY <1>1
<1>4. o \in SUBSET Nat
  <2>1. /\ Len(t.tokens) \in Nat
        /\ ValueTokens(t.tokens) \subseteq 1 .. Len(t.tokens)
    BY StreamTypes
  <2>2. ValueTokens(t.tokens) \subseteq Nat
    BY <2>1
  <2>3. GivenBack(t) \subseteq Nat
    BY <2>2 DEF GivenBack
  <2>4. QED
    BY <1>1, <2>3
<1>5. Rollback(t) = [t EXCEPT !.pos = p, !.marks = m, !.owned = o]
  BY DEF Rollback, LastMark
<1> HIDE DEF p, m, o
<1>6. LET u == Rollback(t)
      IN  /\ u \in Stream
          /\ u.tokens = t.tokens
          /\ u.pos = p
          /\ u.marks = m
          /\ u.owned = o
          /\ SameMessages(t, u)
  BY <1>2, <1>3, <1>4, <1>5 DEF Stream, SameMessages
<1>7. QED
  BY <1>6 DEF p, m, o

-----------------------------------------------------------------------------
\* The operations on the messages.

LEMMA SyntaxErrorFields ==
  ASSUME NEW t \in Stream
  PROVE  LET u == SyntaxError(t)
         IN  /\ u \in Stream
             /\ u.msgs = Append(t.msgs, t.msgNum + 1)
             /\ u.msgNum = t.msgNum + 1
             /\ u.msgMarks = t.msgMarks
             /\ SameTokens(t, u)
<1> DEFINE m == Append(t.msgs, t.msgNum + 1)
           n == t.msgNum + 1
<1>1. t.msgs \in Seq(Nat) /\ t.msgNum \in Nat
  BY StreamTypes
<1>2. m \in Seq(Nat) /\ n \in Nat
  BY <1>1, AppendFacts
<1>3. SyntaxError(t)
        = [[t EXCEPT !.msgs = m, !.msgNum = n] EXCEPT !.err = TRUE]
  BY DEF SyntaxError, AddMessage
<1> HIDE DEF m, n
<1>4. LET u == SyntaxError(t)
      IN  /\ u \in Stream
          /\ u.msgs = m
          /\ u.msgNum = n
          /\ u.msgMarks = t.msgMarks
          /\ SameTokens(t, u)
  BY <1>2, <1>3 DEF Stream, SameTokens
<1>5. QED
  BY <1>4 DEF m, n

LEMMA PushMessagesFields ==
  ASSUME NEW t \in Stream
  PROVE  LET u == PushMessages(t)
         IN  /\ u \in Stream
             /\ u.msgs = t.msgs
             /\ u.msgNum = t.msgNum
             /\ u.msgMarks = Append(t.msgMarks, LastMessage(t))
             /\ SameTokens(t, u)
<1> DEFINE k == Append(t.msgMarks, LastMessage(t))
<1>1. t.msgs \in Seq(Nat) /\ t.msgMarks \in Seq(Nat)
  BY StreamTypes
<1>2. LastMessage(t) \in Nat
  BY <1>1 DEF LastMessage, NoMessage
<1>3. k \in Seq(Nat)
  BY <1>1, <1>2, AppendFacts
<1>4. PushMessages(t) = [t EXCEPT !.msgMarks = k]
  BY DEF PushMessages
<1> HIDE DEF k
<1>5. LET u == PushMessages(t)
      IN  /\ u \in Stream
          /\ u.msgs = t.msgs
          /\ u.msgNum = t.msgNum
          /\ u.msgMarks = k
          /\ SameTokens(t, u)
  BY <1>3, <1>4, MessageMarkFields
<1>6. QED
  BY <1>5 DEF k

LEMMA PopMessagesFields ==
  ASSUME NEW t \in Stream, t.msgMarks # << >>
  PROVE  LET u == PopMessages(t)
         IN  /\ u \in Stream
             /\ u.msgs = t.msgs
             /\ u.msgNum = t.msgNum
             /\ u.msgMarks = DropLast(t.msgMarks)
             /\ SameTokens(t, u)
<1>1. t.msgMarks \in Seq(Nat)
  BY StreamTypes
<1>2. DropLast(t.msgMarks) \in Seq(Nat)
  BY <1>1, DropLastFacts
<1>3. PopMessages(t) = [t EXCEPT !.msgMarks = DropLast(t.msgMarks)]
  BY DEF PopMessages
<1>4. QED
  BY <1>2, <1>3, MessageMarkFields

\* The messages up to the last of the first n, or up to none, are the first n.
LEMMA UpToFacts ==
  ASSUME NEW q \in Seq(Nat), NEW n \in 0 .. Len(q), NEW until,
         \A i \in DOMAIN q : 0 < q[i],
         \A i, j \in DOMAIN q : i < j => q[i] < q[j],
         until = IF n = 0 THEN NoMessage ELSE q[n]
  PROVE  UpTo(q, until) = SubSeq(q, 1, n)
<1> DEFINE places == {i \in DOMAIN q : q[i] = until}
           last == CHOOSE i \in places : \A j \in places : j <= i
<1>1. DOMAIN q = 1 .. Len(q) /\ Len(q) \in Nat /\ \A i \in DOMAIN q : q[i] \in Nat
  OBVIOUS
<1>2. CASE n = 0
  <2>1. places = {}
    BY <1>1, <1>2 DEF NoMessage
  <2>2. SubSeq(q, 1, n) = << >>
    BY <1>2
  <2>3. QED
    BY <2>1, <2>2 DEF UpTo
<1>3. CASE n # 0
  <2>1. n \in DOMAIN q /\ until = q[n]
    BY <1>1, <1>3
  <2>2. places = {n}
    BY <1>1, <2>1
  <2>3. last = n
    BY <2>2, <1>1
  <2>4. QED
    BY <2>2, <2>3 DEF UpTo
<1>4. QED
  BY <1>2, <1>3

LEMMA RollbackInfoFields ==
  ASSUME NEW t \in Stream, t.msgMarks # << >>,
         NEW n \in 0 .. Len(t.msgs),
         \A i \in DOMAIN t.msgs : 0 < t.msgs[i],
         \A i, j \in DOMAIN t.msgs : i < j => t.msgs[i] < t.msgs[j],
         t.msgMarks[Len(t.msgMarks)] = IF n = 0 THEN NoMessage ELSE t.msgs[n]
  PROVE  LET u == RollbackInfo(t)
         IN  /\ u \in Stream
             /\ u.msgs = SubSeq(t.msgs, 1, n)
             /\ u.msgNum = t.msgNum
             /\ u.msgMarks = DropLast(t.msgMarks)
             /\ ~u.err
             /\ SameTokens(t, u)
<1> DEFINE m == SubSeq(t.msgs, 1, n)
           k == DropLast(t.msgMarks)
<1>1. t.msgs \in Seq(Nat) /\ t.msgMarks \in Seq(Nat)
  BY StreamTypes
<1>2. k \in Seq(Nat)
  BY <1>1, DropLastFacts
<1>3. m \in Seq(Nat)
  BY <1>1, PrefixFacts
<1>4. UpTo(t.msgs, t.msgMarks[Len(t.msgMarks)]) = m
  BY <1>1, UpToFacts
<1>5. RollbackInfo(t)
        = [[t EXCEPT !.msgs = m, !.msgMarks = k] EXCEPT !.err = FALSE]
  BY <1>4 DEF RollbackInfo, RollbackMessages
<1> HIDE DEF m, k
<1>6. LET u == RollbackInfo(t)
      IN  /\ u \in Stream
          /\ u.msgs = m
          /\ u.msgNum = t.msgNum
          /\ u.msgMarks = k
          /\ ~u.err
          /\ SameTokens(t, u)
  BY <1>2, <1>3, <1>5 DEF Stream, SameTokens
<1>7. QED
  BY <1>6 DEF m, k

-----------------------------------------------------------------------------
\* The invariant. What is said of the tokens and what is said of the messages
\* are inductive each with the types.

IInv == TypeOK /\ AttemptsAreSound /\ MessagesAreInOrder

\* The types a step relies on.
LEMMA StateTypes ==
  ASSUME TypeOK
  PROVE  /\ s \in Stream
         /\ Len(s.tokens) \in Nat
         /\ ValueTokens(s.tokens) \subseteq 1 .. Len(s.tokens)
         /\ s.pos \in 0 .. Len(s.tokens)
         /\ s.marks \in Seq(Nat)
         /\ DOMAIN s.marks = 1 .. Len(s.marks)
         /\ Len(s.marks) \in Nat
         /\ s.owned \subseteq ValueTokens(s.tokens)
         /\ before \in Seq([pos : Nat, owned : SUBSET Nat])
         /\ s.msgs \in Seq(Nat)
         /\ s.msgNum \in Nat
         /\ s.msgMarks \in Seq(Nat)
         /\ heard \in Seq(Seq(Nat))
<1>1. /\ s \in Stream
      /\ s.pos <= Len(s.tokens)
      /\ s.owned \subseteq ValueTokens(s.tokens)
      /\ before \in Seq([pos : Nat, owned : SUBSET Nat])
      /\ heard \in Seq(Seq(Nat))
  BY DEF TypeOK
<1>2. /\ Len(s.tokens) \in Nat
      /\ ValueTokens(s.tokens) \subseteq 1 .. Len(s.tokens)
      /\ s.pos \in Nat
      /\ s.marks \in Seq(Nat)
      /\ s.msgs \in Seq(Nat)
      /\ s.msgNum \in Nat
      /\ s.msgMarks \in Seq(Nat)
  BY <1>1, StreamTypes
<1>3. DOMAIN s.marks = 1 .. Len(s.marks) /\ Len(s.marks) \in Nat
  BY <1>2
<1>4. s.pos \in 0 .. Len(s.tokens)
  BY <1>1, <1>2
<1>5. QED
  BY <1>1, <1>2, <1>3, <1>4

\* A step that leaves the messages alone keeps what is said of them.
LEMMA MessagesKept ==
  ASSUME MessagesAreInOrder, SameMessages(s, s'), heard' = heard
  PROVE  MessagesAreInOrder'
<1>1. /\ s'.msgs = s.msgs
      /\ s'.msgNum = s.msgNum
      /\ s'.msgMarks = s.msgMarks
  BY DEF SameMessages
<1>2. QED
  BY <1>1 DEF MessagesAreInOrder

\* A step that leaves the tokens alone keeps what is said of them.
LEMMA TokensKept ==
  ASSUME TypeOK, AttemptsAreSound, s' \in Stream, SameTokens(s, s'), before' = before,
         heard' \in Seq(Seq(Nat))
  PROVE  TypeOK' /\ AttemptsAreSound'
<1>1. /\ s'.tokens = s.tokens
      /\ s'.pos = s.pos
      /\ s'.marks = s.marks
      /\ s'.owned = s.owned
  BY DEF SameTokens
<1>2. TypeOK'
  BY <1>1 DEF TypeOK
<1>3. MarksAreInOrder'
  BY <1>1 DEF AttemptsAreSound, MarksAreInOrder
<1>4. UnreadIsOwned'
  BY <1>1 DEF AttemptsAreSound, UnreadIsOwned
<1>5. TakenInAttempt'
  BY <1>1 DEF AttemptsAreSound, TakenInAttempt
<1>6. QED
  BY <1>2, <1>3, <1>4, <1>5 DEF AttemptsAreSound

\* Taking the value of a token that is behind the position and ahead of every
\* mark: what all the accepting steps do.
LEMMA TakeStep ==
  ASSUME TypeOK, AttemptsAreSound, NEW taken \in SUBSET ValueTokens(s.tokens),
         s' \in Stream,
         s'.tokens = s.tokens,
         s'.pos \in s.pos .. Len(s.tokens),
         s'.marks = s.marks,
         s'.owned = s.owned \ taken,
         before' = before,
         heard' = heard,
         \A i \in taken : i <= s'.pos,
         \A i \in taken, k \in DOMAIN s.marks : s.marks[k] < i
  PROVE  TypeOK' /\ AttemptsAreSound'
<1>1. /\ s \in Stream
      /\ Len(s.tokens) \in Nat
      /\ ValueTokens(s.tokens) \subseteq 1 .. Len(s.tokens)
      /\ s.pos \in 0 .. Len(s.tokens)
      /\ s.marks \in Seq(Nat)
      /\ s.owned \subseteq ValueTokens(s.tokens)
  BY StateTypes
<1>2. TypeOK'
  <2>1. s'.pos <= Len(s'.tokens)
    BY <1>1
  <2>2. s'.owned \subseteq ValueTokens(s'.tokens)
    BY <1>1
  <2>3. QED
    BY <2>1, <2>2 DEF TypeOK
<1>3. MarksAreInOrder'
  <2>1. \A k \in DOMAIN s.marks : s.marks[k] \in Nat /\ s.marks[k] <= s.pos
    BY <1>1 DEF AttemptsAreSound, MarksAreInOrder
  <2>2. \A k \in DOMAIN s.marks : s.marks[k] <= s'.pos
    BY <1>1, <2>1
  <2>3. QED
    BY <2>2 DEF AttemptsAreSound, MarksAreInOrder
<1>4. UnreadIsOwned'
  <2>1. ASSUME NEW i \in ValueTokens(s.tokens), s'.pos < i
        PROVE  i \in s.owned \ taken
    <3>1. i \in Nat /\ s.pos < i /\ i \notin taken
      BY <1>1, <2>1
    <3>2. QED
      BY <3>1 DEF AttemptsAreSound, UnreadIsOwned
  <2>2. QED
    BY <2>1 DEF UnreadIsOwned
<1>5. TakenInAttempt'
  <2>1. ASSUME NEW k \in DOMAIN s.marks
        PROVE  (s.owned \ taken)
                 \cup {i \in ValueTokens(s.tokens) : s.marks[k] < i}
                 = before[k].owned
    <3>1. taken \subseteq {i \in ValueTokens(s.tokens) : s.marks[k] < i}
      BY <2>1
    <3>2. s.owned \cup {i \in ValueTokens(s.tokens) : s.marks[k] < i}
            = before[k].owned
      BY <2>1 DEF AttemptsAreSound, TakenInAttempt
    <3>3. QED
      BY <3>1, <3>2
  <2>2. QED
    BY <2>1 DEF TakenInAttempt
<1>6. QED
  BY <1>2, <1>3, <1>4, <1>5 DEF AttemptsAreSound

LEMMA AcceptValueStep ==
  ASSUME IInv, AcceptValue
  PROVE  IInv'
<1> DEFINE u == NextToken(s)
<1>1. /\ s \in Stream
      /\ Len(s.tokens) \in Nat
      /\ ValueTokens(s.tokens) \subseteq 1 .. Len(s.tokens)
      /\ s.pos \in 0 .. Len(s.tokens)
      /\ s.marks \in Seq(Nat)
  BY StateTypes DEF IInv
<1>2. /\ s.pos + 1 \in ValueTokens(s.tokens)
      /\ s' = TakeValue(u, s.pos + 1)
      /\ before' = before
      /\ heard' = heard
  BY DEF AcceptValue, HasValue, ValueTokens
<1>3. s.pos < Len(s.tokens)
  BY <1>1, <1>2
<1>4. /\ u \in Stream
      /\ u.tokens = s.tokens
      /\ u.pos = s.pos + 1
      /\ u.marks = s.marks
      /\ u.owned = s.owned
      /\ SameMessages(s, u)
  BY <1>1, <1>3, NextTokenFields
<1> HIDE DEF u
<1>5. /\ s' \in Stream
      /\ s'.tokens = u.tokens
      /\ s'.pos = u.pos
      /\ s'.marks = u.marks
      /\ s'.owned = u.owned \ {s.pos + 1}
      /\ SameMessages(u, s')
  BY <1>2, <1>4, TakeValueFields
<1>6. SameMessages(s, s')
  BY <1>4, <1>5 DEF SameMessages
<1>7. \A k \in DOMAIN s.marks : s.marks[k] < s.pos + 1
  <2>1. \A k \in DOMAIN s.marks : s.marks[k] \in Nat /\ s.marks[k] <= s.pos
    BY <1>1 DEF IInv, AttemptsAreSound, MarksAreInOrder
  <2>2. QED
    BY <1>1, <2>1
<1>8. s'.pos \in s.pos .. Len(s.tokens)
  BY <1>1, <1>3, <1>4, <1>5
<1>9. TypeOK' /\ AttemptsAreSound'
  <2> DEFINE taken == {s.pos + 1}
  <2>1. taken \in SUBSET ValueTokens(s.tokens)
    BY <1>2
  <2>2. \A i \in taken : i <= s'.pos
    BY <1>1, <1>4, <1>5
  <2>3. \A i \in taken, k \in DOMAIN s.marks : s.marks[k] < i
    BY <1>7
  <2>4. s'.tokens = s.tokens /\ s'.marks = s.marks /\ s'.owned = s.owned \ taken
    BY <1>4, <1>5
  <2> HIDE DEF taken
  <2>5. QED
    BY <1>2, <1>5, <1>8, <2>1, <2>2, <2>3, <2>4, TakeStep DEF IInv
<1>10. MessagesAreInOrder'
  BY <1>2, <1>6, MessagesKept DEF IInv
<1>11. QED
  BY <1>9, <1>10 DEF IInv

LEMMA AcceptTokenStep ==
  ASSUME IInv, AcceptToken
  PROVE  IInv'
<1>1. /\ s \in Stream
      /\ Len(s.tokens) \in Nat
      /\ s.pos \in 0 .. Len(s.tokens)
  BY StateTypes DEF IInv
<1>2. s' = NextToken(s) /\ before' = before /\ heard' = heard
  BY DEF AcceptToken
<1>3. /\ s' \in Stream
      /\ s'.tokens = s.tokens
      /\ s'.pos = IF s.pos < Len(s.tokens) THEN s.pos + 1 ELSE s.pos
      /\ s'.marks = s.marks
      /\ s'.owned = s.owned
      /\ SameMessages(s, s')
  BY <1>1, <1>2, NextTokenFields
<1>4. s'.pos \in s.pos .. Len(s.tokens)
  BY <1>1, <1>3
<1> DEFINE taken == {}
<1>5. /\ taken \in SUBSET ValueTokens(s.tokens)
      /\ \A i \in taken : i <= s'.pos
      /\ \A i \in taken, k \in DOMAIN s.marks : s.marks[k] < i
      /\ s'.owned = s.owned \ taken
  BY <1>3
<1> HIDE DEF taken
<1>6. TypeOK' /\ AttemptsAreSound'
  BY <1>2, <1>3, <1>4, <1>5, TakeStep DEF IInv
<1>7. MessagesAreInOrder'
  BY <1>2, <1>3, MessagesKept DEF IInv
<1>8. QED
  BY <1>6, <1>7 DEF IInv

LEMMA TakeAcceptedStep ==
  ASSUME IInv, TakeAccepted
  PROVE  IInv'
<1>1. /\ s \in Stream
      /\ Len(s.tokens) \in Nat
      /\ s.pos \in 0 .. Len(s.tokens)
      /\ s.marks \in Seq(Nat)
      /\ Len(s.marks) \in Nat
      /\ DOMAIN s.marks = 1 .. Len(s.marks)
  BY StateTypes DEF IInv
<1>2. /\ s.pos \in ValueTokens(s.tokens)
      /\ s.marks # << >> => s.marks[Len(s.marks)] < s.pos
      /\ s' = TakeValue(s, s.pos)
      /\ before' = before
      /\ heard' = heard
  BY DEF TakeAccepted, HasValue, ValueTokens, LastMark
<1>3. /\ s' \in Stream
      /\ s'.tokens = s.tokens
      /\ s'.pos = s.pos
      /\ s'.marks = s.marks
      /\ s'.owned = s.owned \ {s.pos}
      /\ SameMessages(s, s')
  BY <1>1, <1>2, TakeValueFields
<1>4. ASSUME NEW k \in DOMAIN s.marks
      PROVE  s.marks[k] < s.pos
  <2> DEFINE n == Len(s.marks)
  <2>1. n \in DOMAIN s.marks /\ k <= n /\ s.marks # << >>
    BY <1>1, <1>4
  <2>2. k < n => s.marks[k] <= s.marks[n]
    BY <1>4, <2>1 DEF IInv, AttemptsAreSound, MarksAreInOrder
  <2>3. s.marks[k] \in Nat /\ s.marks[n] \in Nat
    BY <1>1, <1>4, <2>1
  <2>4. s.marks[k] <= s.marks[n]
    BY <1>1, <1>4, <2>1, <2>2, <2>3
  <2>5. QED
    BY <1>1, <1>2, <2>1, <2>3, <2>4
<1>5. s'.pos \in s.pos .. Len(s.tokens)
  BY <1>1, <1>3
<1>6. TypeOK' /\ AttemptsAreSound'
  <2> DEFINE taken == {s.pos}
  <2>1. /\ taken \in SUBSET ValueTokens(s.tokens)
        /\ \A i \in taken : i <= s'.pos
        /\ \A i \in taken, k \in DOMAIN s.marks : s.marks[k] < i
        /\ s'.owned = s.owned \ taken
    BY <1>1, <1>2, <1>3, <1>4
  <2> HIDE DEF taken
  <2>2. QED
    BY <1>2, <1>3, <1>5, <2>1, TakeStep DEF IInv
<1>7. MessagesAreInOrder'
  BY <1>2, <1>3, MessagesKept DEF IInv
<1>8. QED
  BY <1>6, <1>7 DEF IInv

LEMMA BeginAttemptStep ==
  ASSUME IInv, BeginAttempt
  PROVE  IInv'
<1> DEFINE n == Len(s.marks)
           b == [pos |-> s.pos, owned |-> s.owned]
<1>1. /\ s \in Stream
      /\ Len(s.tokens) \in Nat
      /\ ValueTokens(s.tokens) \subseteq 1 .. Len(s.tokens)
      /\ s.pos \in 0 .. Len(s.tokens)
      /\ s.marks \in Seq(Nat)
      /\ DOMAIN s.marks = 1 .. n
      /\ n \in Nat
      /\ s.owned \subseteq ValueTokens(s.tokens)
      /\ before \in Seq([pos : Nat, owned : SUBSET Nat])
  BY StateTypes DEF IInv
<1>2. s' = PushMark(s) /\ before' = Append(before, b) /\ heard' = heard
  BY DEF BeginAttempt
<1>3. /\ s' \in Stream
      /\ s'.tokens = s.tokens
      /\ s'.pos = s.pos
      /\ s'.marks = Append(s.marks, s.pos)
      /\ s'.owned = s.owned
      /\ SameMessages(s, s')
  BY <1>1, <1>2, PushMarkFields
<1>4. b \in [pos : Nat, owned : SUBSET Nat]
  <2>1. s.pos \in Nat /\ s.owned \in SUBSET Nat
    BY <1>1
  <2>2. QED
    BY <2>1
<1>5. Len(before) = n /\ DOMAIN before = 1 .. n
  BY <1>1 DEF IInv, AttemptsAreSound, MarksAreInOrder
<1>6. /\ before' \in Seq([pos : Nat, owned : SUBSET Nat])
      /\ Len(before') = n + 1
      /\ DOMAIN before' = 1 .. n + 1
      /\ \A k \in 1 .. n : before'[k] = before[k]
      /\ before'[n + 1] = b
  <2> HIDE DEF b
  <2>1. QED
    BY <1>1, <1>2, <1>4, <1>5, AppendFacts
<1>7. /\ DOMAIN s'.marks = 1 .. n + 1
      /\ Len(s'.marks) = n + 1
      /\ \A k \in 1 .. n : s'.marks[k] = s.marks[k]
      /\ s'.marks[n + 1] = s.pos
  BY <1>1, <1>3, AppendFacts
<1>8. \A k \in 1 .. n : s.marks[k] = before[k].pos /\ s.marks[k] <= s.pos
  BY <1>1 DEF IInv, AttemptsAreSound, MarksAreInOrder
<1>9. TypeOK'
  BY <1>2, <1>3, <1>6 DEF IInv, TypeOK
<1>10. MarksAreInOrder'
  <2>1. \A k \in DOMAIN s'.marks : s'.marks[k] = before'[k].pos
                                     /\ s'.marks[k] <= s'.pos
    <3>1. ASSUME NEW k \in 1 .. n
          PROVE  s'.marks[k] = before'[k].pos /\ s'.marks[k] <= s'.pos
      BY <1>3, <1>6, <1>7, <1>8
    <3>2. s'.marks[n + 1] = before'[n + 1].pos /\ s'.marks[n + 1] <= s'.pos
      BY <1>1, <1>3, <1>6, <1>7
    <3>3. \A k \in DOMAIN s'.marks : k \in 1 .. n \/ k = n + 1
      BY <1>1, <1>7
    <3>4. QED
      BY <3>1, <3>2, <3>3
  <2>2. ASSUME NEW i \in DOMAIN s'.marks, NEW j \in DOMAIN s'.marks, i < j
        PROVE  s'.marks[i] <= s'.marks[j]
    <3>1. i \in 1 .. n /\ (j \in 1 .. n \/ j = n + 1)
      BY <1>1, <1>7, <2>2
    <3>2. CASE j \in 1 .. n
      <4>1. s.marks[i] <= s.marks[j]
        BY <1>1, <2>2, <3>1, <3>2 DEF IInv, AttemptsAreSound, MarksAreInOrder
      <4>2. QED
        BY <1>7, <3>1, <3>2, <4>1
    <3>3. CASE j = n + 1
      BY <1>7, <1>8, <3>1, <3>3
    <3>4. QED
      BY <3>1, <3>2, <3>3
  <2>3. QED
    BY <1>6, <1>7, <2>1, <2>2 DEF MarksAreInOrder
<1>11. UnreadIsOwned'
  BY <1>3 DEF IInv, AttemptsAreSound, UnreadIsOwned
<1>12. TakenInAttempt'
  <2>1. ASSUME NEW k \in 1 .. n
        PROVE  s.owned \cup {i \in ValueTokens(s.tokens) : s'.marks[k] < i}
                 = before'[k].owned
    BY <1>1, <1>6, <1>7, <2>1 DEF IInv, AttemptsAreSound, TakenInAttempt
  <2>2. s.owned \cup {i \in ValueTokens(s.tokens) : s.pos < i} = s.owned
    BY DEF IInv, AttemptsAreSound, UnreadIsOwned
  <2>3. s.owned \cup {i \in ValueTokens(s.tokens) : s'.marks[n + 1] < i}
          = before'[n + 1].owned
    BY <1>6, <1>7, <2>2
  <2>4. \A k \in DOMAIN s'.marks : k \in 1 .. n \/ k = n + 1
    BY <1>1, <1>7
  <2>5. QED
    BY <1>3, <2>1, <2>3, <2>4 DEF TakenInAttempt
<1>13. MessagesAreInOrder'
  BY <1>2, <1>3, MessagesKept DEF IInv
<1>14. QED
  BY <1>9, <1>10, <1>11, <1>12, <1>13 DEF IInv, AttemptsAreSound

\* Whether an attempt is kept or given up: its mark and its history go.
LEMMA EndAttempt ==
  ASSUME TypeOK, AttemptsAreSound, s.marks # << >>,
         s'.marks = DropLast(s.marks), before' = DropLast(before)
  PROVE  /\ Len(s.marks) \in Nat \ {0}
         /\ Len(before) = Len(s.marks)
         /\ DOMAIN s.marks = 1 .. Len(s.marks)
         /\ before' \in Seq([pos : Nat, owned : SUBSET Nat])
         /\ Len(before') = Len(s'.marks)
         /\ DOMAIN s'.marks = 1 .. Len(s.marks) - 1
         /\ \A k \in 1 .. Len(s.marks) - 1 :
              /\ s'.marks[k] = s.marks[k]
              /\ before'[k] = before[k]
         /\ \A k \in 1 .. Len(s.marks) :
              /\ s.marks[k] \in Nat
              /\ s.marks[k] = before[k].pos
              /\ s.marks[k] <= s.pos
         /\ \A i, j \in 1 .. Len(s.marks) : i < j => s.marks[i] <= s.marks[j]
<1> DEFINE n == Len(s.marks)
<1>1. /\ s.marks \in Seq(Nat)
      /\ DOMAIN s.marks = 1 .. n
      /\ before \in Seq([pos : Nat, owned : SUBSET Nat])
  BY StateTypes
<1>2. /\ n \in Nat \ {0}
      /\ Len(s'.marks) = n - 1
      /\ DOMAIN s'.marks = 1 .. n - 1
      /\ \A k \in 1 .. n - 1 : s'.marks[k] = s.marks[k]
  BY <1>1, DropLastFacts
<1>3. Len(before) = n
  BY DEF AttemptsAreSound, MarksAreInOrder
<1>4. before # << >>
  BY <1>1, <1>2, <1>3
<1>5. /\ before' \in Seq([pos : Nat, owned : SUBSET Nat])
      /\ Len(before') = n - 1
      /\ \A k \in 1 .. n - 1 : before'[k] = before[k]
  BY <1>1, <1>3, <1>4, DropLastFacts
<1>6. /\ \A k \in 1 .. n : /\ s.marks[k] = before[k].pos
                           /\ s.marks[k] <= s.pos
      /\ \A i, j \in 1 .. n : i < j => s.marks[i] <= s.marks[j]
  BY <1>1 DEF AttemptsAreSound, MarksAreInOrder
<1>7. \A k \in 1 .. n : s.marks[k] \in Nat
  BY <1>1
<1>8. QED
  BY <1>1, <1>2, <1>3, <1>5, <1>6, <1>7

LEMMA KeepAttemptStep ==
  ASSUME IInv, KeepAttempt
  PROVE  IInv'
<1> DEFINE n == Len(s.marks)
<1>1. s \in Stream /\ s.marks # << >>
  BY StateTypes DEF IInv, KeepAttempt
<1>2. s' = PopMark(s) /\ before' = DropLast(before) /\ heard' = heard
  BY DEF KeepAttempt
<1>3. /\ s' \in Stream
      /\ s'.tokens = s.tokens
      /\ s'.pos = s.pos
      /\ s'.marks = DropLast(s.marks)
      /\ s'.owned = s.owned
      /\ SameMessages(s, s')
  BY <1>1, <1>2, PopMarkFields
<1>4. /\ n \in Nat \ {0}
      /\ DOMAIN s.marks = 1 .. n
      /\ before' \in Seq([pos : Nat, owned : SUBSET Nat])
      /\ Len(before') = Len(s'.marks)
      /\ DOMAIN s'.marks = 1 .. n - 1
      /\ \A k \in 1 .. n - 1 : s'.marks[k] = s.marks[k] /\ before'[k] = before[k]
      /\ \A k \in 1 .. n : s.marks[k] = before[k].pos /\ s.marks[k] <= s.pos
      /\ \A i, j \in 1 .. n : i < j => s.marks[i] <= s.marks[j]
  BY <1>1, <1>2, <1>3, EndAttempt DEF IInv
<1>5. \A k \in 1 .. n - 1 : k \in 1 .. n
  BY <1>4
<1>6. TypeOK'
  BY <1>2, <1>3, <1>4 DEF IInv, TypeOK
<1>7. MarksAreInOrder'
  BY <1>3, <1>4, <1>5 DEF MarksAreInOrder
<1>8. UnreadIsOwned'
  BY <1>3 DEF IInv, AttemptsAreSound, UnreadIsOwned
<1>9. TakenInAttempt'
  BY <1>3, <1>4, <1>5 DEF IInv, AttemptsAreSound, TakenInAttempt
<1>10. MessagesAreInOrder'
  BY <1>2, <1>3, MessagesKept DEF IInv
<1>11. QED
  BY <1>6, <1>7, <1>8, <1>9, <1>10 DEF IInv, AttemptsAreSound

LEMMA GiveUpAttemptStep ==
  ASSUME IInv, GiveUpAttempt
  PROVE  /\ IInv'
         /\ s'.pos = before[Len(before)].pos
         /\ s'.owned = before[Len(before)].owned
<1> DEFINE n == Len(s.marks)
           ahead(k) == {i \in ValueTokens(s.tokens) : s.marks[k] < i}
<1>1. /\ s \in Stream
      /\ s.marks # << >>
      /\ Len(s.tokens) \in Nat
      /\ ValueTokens(s.tokens) \subseteq 1 .. Len(s.tokens)
      /\ s.pos \in 0 .. Len(s.tokens)
      /\ s.owned \subseteq ValueTokens(s.tokens)
  BY StateTypes DEF IInv, GiveUpAttempt
<1>2. s' = Rollback(s) /\ before' = DropLast(before) /\ heard' = heard
  BY DEF GiveUpAttempt
<1>3. /\ s' \in Stream
      /\ s'.tokens = s.tokens
      /\ s'.pos = s.marks[n]
      /\ s'.marks = DropLast(s.marks)
      /\ s'.owned = s.owned \cup GivenBack(s)
      /\ SameMessages(s, s')
  BY <1>1, <1>2, RollbackFields
<1>4. /\ n \in Nat \ {0}
      /\ Len(before) = n
      /\ DOMAIN s.marks = 1 .. n
      /\ before' \in Seq([pos : Nat, owned : SUBSET Nat])
      /\ Len(before') = Len(s'.marks)
      /\ DOMAIN s'.marks = 1 .. n - 1
      /\ \A k \in 1 .. n - 1 : s'.marks[k] = s.marks[k] /\ before'[k] = before[k]
      /\ \A k \in 1 .. n : /\ s.marks[k] \in Nat
                           /\ s.marks[k] = before[k].pos
                           /\ s.marks[k] <= s.pos
      /\ \A i, j \in 1 .. n : i < j => s.marks[i] <= s.marks[j]
  BY <1>1, <1>2, <1>3, EndAttempt DEF IInv
<1>5. n \in 1 .. n /\ \A k \in 1 .. n - 1 : k \in 1 .. n /\ k < n
  BY <1>4
<1>6. \A k \in 1 .. n : s.owned \cup ahead(k) = before[k].owned
  BY <1>4 DEF IInv, AttemptsAreSound, TakenInAttempt
\* What is ahead of the mark has been read, and is given back, or has not.
<1>7. s.owned \cup GivenBack(s) = s.owned \cup ahead(n)
  <2>1. GivenBack(s) \subseteq ahead(n)
    BY DEF GivenBack, LastMark
  <2>2. ASSUME NEW i \in ahead(n)
        PROVE  i \in s.owned \cup GivenBack(s)
    <3>1. i \in Nat /\ i \in ValueTokens(s.tokens) /\ s.marks[n] < i
      BY <1>1, <2>2
    <3>2. CASE i <= s.pos + 1
      BY <3>1, <3>2 DEF GivenBack, LastMark
    <3>3. CASE ~(i <= s.pos + 1)
      <4>1. s.pos < i
        BY <1>1, <3>1, <3>3
      <4>2. QED
        BY <3>1, <4>1 DEF IInv, AttemptsAreSound, UnreadIsOwned
    <3>4. QED
      BY <3>2, <3>3
  <2>3. QED
    BY <2>1, <2>2
<1>8. s'.owned = s.owned \cup ahead(n)
  BY <1>3, <1>7
<1>9. s'.pos = before[Len(before)].pos /\ s'.owned = before[Len(before)].owned
  BY <1>3, <1>4, <1>5, <1>6, <1>8
<1>10. TypeOK'
  <2>1. s'.pos <= Len(s'.tokens)
    <3>1. s.marks[n] \in Nat /\ s.marks[n] <= s.pos
      BY <1>4, <1>5
    <3>2. s.marks[n] <= Len(s.tokens)
      BY <1>1, <3>1
    <3>3. QED
      BY <1>3, <3>2
  <2>2. s'.owned \subseteq ValueTokens(s'.tokens)
    BY <1>1, <1>3, <1>8
  <2>3. QED
    BY <1>2, <1>3, <1>4, <2>1, <2>2 DEF IInv, TypeOK
<1>11. MarksAreInOrder'
  BY <1>3, <1>4, <1>5 DEF MarksAreInOrder
<1>12. UnreadIsOwned'
  <2>1. ASSUME NEW i \in ValueTokens(s.tokens), s'.pos < i
        PROVE  i \in s'.owned
    BY <1>3, <1>8, <2>1
  <2>2. QED
    BY <1>3, <2>1 DEF UnreadIsOwned
<1>13. TakenInAttempt'
  <2>1. ASSUME NEW k \in 1 .. n - 1
        PROVE  s'.owned \cup ahead(k) = before'[k].owned
    <3>1. ahead(n) \subseteq ahead(k)
      <4>1. s.marks[k] <= s.marks[n] /\ s.marks[k] \in Nat /\ s.marks[n] \in Nat
        BY <1>4, <1>5, <2>1
      <4>2. ValueTokens(s.tokens) \subseteq Nat
        BY <1>1
      <4>3. QED
        BY <4>1, <4>2
    <3>2. s'.owned \cup ahead(k) = s.owned \cup ahead(k)
      BY <1>8, <3>1
    <3>3. QED
      BY <1>4, <1>5, <1>6, <2>1, <3>2
  <2>2. QED
    BY <1>3, <1>4, <2>1 DEF TakenInAttempt
<1>14. MessagesAreInOrder'
  BY <1>2, <1>3, MessagesKept DEF IInv
<1>15. QED
  BY <1>9, <1>10, <1>11, <1>12, <1>13, <1>14 DEF IInv, AttemptsAreSound
-----------------------------------------------------------------------------
\* The steps on the messages.

\* What the messages' part of the invariant says, with the ranges spelled out.
LEMMA HeardFacts ==
  ASSUME IInv
  PROVE  LET n == Len(s.msgMarks) IN
         /\ s \in Stream
         /\ n \in Nat
         /\ Len(heard) = n
         /\ DOMAIN heard = 1 .. n
         /\ heard \in Seq(Seq(Nat))
         /\ s.msgs \in Seq(Nat)
         /\ Len(s.msgs) \in Nat
         /\ DOMAIN s.msgs = 1 .. Len(s.msgs)
         /\ s.msgNum \in Nat
         /\ s.msgMarks \in Seq(Nat)
         /\ \A i \in DOMAIN s.msgs : /\ s.msgs[i] \in Nat
                                     /\ 0 < s.msgs[i]
                                     /\ s.msgs[i] <= s.msgNum
         /\ \A i, j \in DOMAIN s.msgs : i < j => s.msgs[i] < s.msgs[j]
         /\ \A k \in 1 .. n :
              /\ heard[k] \in Seq(Nat)
              /\ Len(heard[k]) \in 0 .. Len(s.msgs)
              /\ heard[k] = SubSeq(s.msgs, 1, Len(heard[k]))
              /\ s.msgMarks[k] = IF heard[k] = << >> THEN NoMessage
                                 ELSE heard[k][Len(heard[k])]
         /\ \A i, j \in 1 .. n : i < j => Len(heard[i]) <= Len(heard[j])
<1> DEFINE n == Len(s.msgMarks)
<1>1. /\ s \in Stream
      /\ heard \in Seq(Seq(Nat))
      /\ s.msgs \in Seq(Nat)
      /\ s.msgNum \in Nat
      /\ s.msgMarks \in Seq(Nat)
  BY StateTypes DEF IInv
<1>2. /\ Len(heard) = n
      /\ \A i \in DOMAIN s.msgs : 0 < s.msgs[i] /\ s.msgs[i] <= s.msgNum
      /\ \A i, j \in DOMAIN s.msgs : i < j => s.msgs[i] < s.msgs[j]
      /\ \A k \in DOMAIN heard :
           /\ Len(heard[k]) <= Len(s.msgs)
           /\ heard[k] = SubSeq(s.msgs, 1, Len(heard[k]))
           /\ s.msgMarks[k] = IF heard[k] = << >> THEN NoMessage
                              ELSE heard[k][Len(heard[k])]
      /\ \A i, j \in DOMAIN heard : i < j => Len(heard[i]) <= Len(heard[j])
  BY DEF IInv, MessagesAreInOrder
<1>3. n \in Nat /\ DOMAIN heard = 1 .. n
  BY <1>1, <1>2
<1>4. /\ Len(s.msgs) \in Nat
      /\ DOMAIN s.msgs = 1 .. Len(s.msgs)
      /\ \A i \in DOMAIN s.msgs : s.msgs[i] \in Nat
  BY <1>1
<1>5. \A k \in 1 .. n : heard[k] \in Seq(Nat)
  BY <1>1, <1>3
<1>6. \A k \in 1 .. n : Len(heard[k]) \in Nat
  BY <1>5
<1>7. \A k \in 1 .. n : Len(heard[k]) \in 0 .. Len(s.msgs)
  BY <1>2, <1>3, <1>4, <1>6
<1>8. QED
  BY <1>1, <1>2, <1>3, <1>4, <1>5, <1>7

LEMMA PostMessageStep ==
  ASSUME IInv, PostMessage
  PROVE  IInv'
<1> DEFINE n == Len(s.msgMarks)
           l == Len(s.msgs)
<1>1. s' = SyntaxError(s) /\ before' = before /\ heard' = heard
  BY DEF PostMessage
<1>2. s \in Stream /\ heard \in Seq(Seq(Nat))
  BY HeardFacts
<1>3. /\ s' \in Stream
      /\ s'.msgs = Append(s.msgs, s.msgNum + 1)
      /\ s'.msgNum = s.msgNum + 1
      /\ s'.msgMarks = s.msgMarks
      /\ SameTokens(s, s')
  BY <1>1, <1>2, SyntaxErrorFields
<1>4. TypeOK' /\ AttemptsAreSound'
  BY <1>1, <1>2, <1>3, TokensKept DEF IInv
<1>5. /\ s.msgs \in Seq(Nat)
      /\ l \in Nat
      /\ DOMAIN s.msgs = 1 .. l
      /\ s.msgNum \in Nat
      /\ \A i \in 1 .. l : /\ s.msgs[i] \in Nat
                           /\ 0 < s.msgs[i]
                           /\ s.msgs[i] <= s.msgNum
      /\ \A i, j \in 1 .. l : i < j => s.msgs[i] < s.msgs[j]
  BY HeardFacts
<1>6. /\ Len(s'.msgs) = l + 1
      /\ DOMAIN s'.msgs = 1 .. l + 1
      /\ \A i \in 1 .. l : s'.msgs[i] = s.msgs[i]
      /\ s'.msgs[l + 1] = s.msgNum + 1
  BY <1>3, <1>5, AppendFacts
<1>7. \A i \in 1 .. l + 1 : i \in 1 .. l \/ i = l + 1
  BY <1>5
<1>8. \A i \in DOMAIN s'.msgs : 0 < s'.msgs[i] /\ s'.msgs[i] <= s'.msgNum
  BY <1>3, <1>5, <1>6, <1>7
<1>9. \A i, j \in DOMAIN s'.msgs : i < j => s'.msgs[i] < s'.msgs[j]
  <2>1. ASSUME NEW i \in 1 .. l + 1, NEW j \in 1 .. l + 1, i < j
        PROVE  s'.msgs[i] < s'.msgs[j]
    <3>1. i \in 1 .. l
      BY <1>5, <2>1
    <3>2. CASE j \in 1 .. l
      BY <1>5, <1>6, <2>1, <3>1, <3>2
    <3>3. CASE j = l + 1
      BY <1>5, <1>6, <3>1, <3>3
    <3>4. QED
      BY <1>7, <3>2, <3>3
  <2>2. QED
    BY <1>6, <2>1
<1>10. ASSUME NEW k \in 1 .. n
       PROVE  /\ Len(heard[k]) <= Len(s'.msgs)
              /\ heard[k] = SubSeq(s'.msgs, 1, Len(heard[k]))
  <2>1. Len(heard[k]) \in 0 .. l /\ heard[k] = SubSeq(s.msgs, 1, Len(heard[k]))
    BY <1>10, HeardFacts
  <2>2. SubSeq(Append(s.msgs, s.msgNum + 1), 1, Len(heard[k]))
          = SubSeq(s.msgs, 1, Len(heard[k]))
    <3> DEFINE m == Len(heard[k])
    <3>1. m \in 0 .. Len(s.msgs) /\ s.msgNum + 1 \in Nat
      BY <1>5, <2>1
    <3> HIDE DEF m
    <3>2. SubSeq(Append(s.msgs, s.msgNum + 1), 1, m) = SubSeq(s.msgs, 1, m)
      BY <1>5, <3>1, PrefixFacts
    <3>3. QED
      BY <3>2 DEF m
  <2>3. Len(heard[k]) <= Len(s'.msgs)
    BY <1>5, <1>6, <2>1
  <2>4. QED
    BY <1>3, <2>1, <2>2, <2>3
<1>11. MessagesAreInOrder'
  BY <1>1, <1>3, <1>8, <1>9, <1>10, HeardFacts DEF MessagesAreInOrder
<1>12. QED
  BY <1>4, <1>11 DEF IInv

LEMMA BeginQuietlyStep ==
  ASSUME IInv, BeginQuietly
  PROVE  IInv'
<1> DEFINE n == Len(s.msgMarks)
           l == Len(s.msgs)
<1>1. s' = PushMessages(s) /\ heard' = Append(heard, s.msgs) /\ before' = before
  BY DEF BeginQuietly
<1>2. /\ s \in Stream
      /\ n \in Nat
      /\ Len(heard) = n
      /\ DOMAIN heard = 1 .. n
      /\ heard \in Seq(Seq(Nat))
      /\ s.msgs \in Seq(Nat)
      /\ l \in Nat
      /\ s.msgMarks \in Seq(Nat)
      /\ \A k \in 1 .. n :
           /\ Len(heard[k]) \in 0 .. l
           /\ heard[k] = SubSeq(s.msgs, 1, Len(heard[k]))
           /\ s.msgMarks[k] = IF heard[k] = << >> THEN NoMessage
                              ELSE heard[k][Len(heard[k])]
      /\ \A i, j \in 1 .. n : i < j => Len(heard[i]) <= Len(heard[j])
  BY HeardFacts
<1>3. /\ s' \in Stream
      /\ s'.msgs = s.msgs
      /\ s'.msgNum = s.msgNum
      /\ s'.msgMarks = Append(s.msgMarks, LastMessage(s))
      /\ SameTokens(s, s')
  BY <1>1, <1>2, PushMessagesFields
<1>4. LastMessage(s) \in Nat
  BY <1>2 DEF LastMessage, NoMessage
<1>5. /\ Len(s'.msgMarks) = n + 1
      /\ \A k \in 1 .. n : s'.msgMarks[k] = s.msgMarks[k]
      /\ s'.msgMarks[n + 1] = LastMessage(s)
  <2> DEFINE e == LastMessage(s)
  <2>1. e \in Nat /\ s'.msgMarks = Append(s.msgMarks, e)
    BY <1>3, <1>4
  <2>2. DOMAIN s.msgMarks = 1 .. n
    BY <1>2
  <2> HIDE DEF e
  <2>3. /\ Len(s'.msgMarks) = n + 1
        /\ \A k \in 1 .. n : s'.msgMarks[k] = s.msgMarks[k]
        /\ s'.msgMarks[n + 1] = e
    BY <1>2, <2>1, <2>2, AppendFacts
  <2>4. QED
    BY <2>3 DEF e
<1>6. /\ heard' \in Seq(Seq(Nat))
      /\ Len(heard') = n + 1
      /\ DOMAIN heard' = 1 .. n + 1
      /\ \A k \in 1 .. n : heard'[k] = heard[k]
      /\ heard'[n + 1] = s.msgs
  BY <1>1, <1>2, AppendFacts
<1>7. TypeOK' /\ AttemptsAreSound'
  BY <1>1, <1>3, <1>6, TokensKept DEF IInv
<1>8. \A k \in 1 .. n + 1 : k \in 1 .. n \/ k = n + 1
  BY <1>2
<1>9. ASSUME NEW k \in 1 .. n + 1
      PROVE  /\ Len(heard'[k]) <= l
             /\ heard'[k] = SubSeq(s.msgs, 1, Len(heard'[k]))
             /\ s'.msgMarks[k] = IF heard'[k] = << >> THEN NoMessage
                                 ELSE heard'[k][Len(heard'[k])]
  <2>1. CASE k \in 1 .. n
    <3>1. heard'[k] = heard[k] /\ s'.msgMarks[k] = s.msgMarks[k]
      BY <1>5, <1>6, <2>1
    <3>2. Len(heard[k]) <= l
      BY <1>2, <2>1
    <3>3. QED
      BY <1>2, <2>1, <3>1, <3>2
  <2>2. CASE k = n + 1
    <3>1. heard'[k] = s.msgs /\ s'.msgMarks[k] = LastMessage(s)
      BY <1>5, <1>6, <2>2
    <3>2. SubSeq(s.msgs, 1, Len(s.msgs)) = s.msgs
      BY <1>2, WholePrefix
    <3>3. QED
      BY <1>2, <3>1, <3>2 DEF LastMessage
  <2>3. QED
    BY <1>8, <2>1, <2>2
<1>10. ASSUME NEW i \in 1 .. n + 1, NEW j \in 1 .. n + 1, i < j
       PROVE  Len(heard'[i]) <= Len(heard'[j])
  <2>1. i \in 1 .. n /\ heard'[i] = heard[i]
    BY <1>2, <1>6, <1>10
  <2>2. CASE j \in 1 .. n
    BY <1>2, <1>6, <1>10, <2>1, <2>2
  <2>3. CASE j = n + 1
    <3>1. heard'[j] = s.msgs /\ Len(heard[i]) \in 0 .. l
      BY <1>2, <1>6, <2>1, <2>3
    <3>2. QED
      BY <1>2, <2>1, <3>1
  <2>4. QED
    BY <1>8, <2>2, <2>3
<1>11. MessagesAreInOrder'
  <2>1. /\ \A i \in DOMAIN s'.msgs : 0 < s'.msgs[i] /\ s'.msgs[i] <= s'.msgNum
        /\ \A i, j \in DOMAIN s'.msgs : i < j => s'.msgs[i] < s'.msgs[j]
    BY <1>3, HeardFacts
  <2>2. Len(heard') = Len(s'.msgMarks) /\ Len(s'.msgs) = l
    BY <1>3, <1>5, <1>6
  <2>3. QED
    BY <1>3, <1>6, <1>9, <1>10, <2>1, <2>2 DEF MessagesAreInOrder
<1>12. QED
  BY <1>7, <1>11 DEF IInv

\* Whether the messages are kept or forgotten: their mark and their history go.
LEMMA EndQuiet ==
  ASSUME IInv, s.msgMarks # << >>,
         s'.msgMarks = DropLast(s.msgMarks), heard' = DropLast(heard)
  PROVE  LET n == Len(s.msgMarks) IN
         /\ n \in Nat \ {0}
         /\ heard' \in Seq(Seq(Nat))
         /\ Len(heard') = Len(s'.msgMarks)
         /\ DOMAIN heard' = 1 .. n - 1
         /\ \A k \in 1 .. n - 1 : /\ k \in 1 .. n
                                  /\ k < n
                                  /\ heard'[k] = heard[k]
                                  /\ s'.msgMarks[k] = s.msgMarks[k]
<1> DEFINE n == Len(s.msgMarks)
<1>1. /\ s.msgMarks \in Seq(Nat)
      /\ heard \in Seq(Seq(Nat))
      /\ Len(heard) = n
  BY HeardFacts
<1>2. /\ n \in Nat \ {0}
      /\ Len(s'.msgMarks) = n - 1
      /\ \A k \in 1 .. n - 1 : s'.msgMarks[k] = s.msgMarks[k]
  BY <1>1, DropLastFacts
<1>3. heard # << >>
  BY <1>1, <1>2
<1>4. /\ heard' \in Seq(Seq(Nat))
      /\ Len(heard') = n - 1
      /\ DOMAIN heard' = 1 .. n - 1
      /\ \A k \in 1 .. n - 1 : heard'[k] = heard[k]
  BY <1>1, <1>3, DropLastFacts
<1>5. \A k \in 1 .. n - 1 : k \in 1 .. n /\ k < n
  BY <1>2
<1>6. QED
  BY <1>2, <1>4, <1>5

LEMMA KeepMessagesStep ==
  ASSUME IInv, KeepMessages
  PROVE  IInv'
<1> DEFINE n == Len(s.msgMarks)
<1>1. /\ s.msgMarks # << >>
      /\ s' = PopMessages(s)
      /\ heard' = DropLast(heard)
      /\ before' = before
  BY DEF KeepMessages
<1>2. s \in Stream
  BY HeardFacts
<1>3. /\ s' \in Stream
      /\ s'.msgs = s.msgs
      /\ s'.msgNum = s.msgNum
      /\ s'.msgMarks = DropLast(s.msgMarks)
      /\ SameTokens(s, s')
  BY <1>1, <1>2, PopMessagesFields
<1>4. /\ n \in Nat \ {0}
      /\ heard' \in Seq(Seq(Nat))
      /\ Len(heard') = Len(s'.msgMarks)
      /\ DOMAIN heard' = 1 .. n - 1
      /\ \A k \in 1 .. n - 1 : /\ k \in 1 .. n
                               /\ heard'[k] = heard[k]
                               /\ s'.msgMarks[k] = s.msgMarks[k]
  BY <1>1, <1>3, EndQuiet
<1>5. TypeOK' /\ AttemptsAreSound'
  BY <1>1, <1>3, <1>4, TokensKept DEF IInv
<1>6. MessagesAreInOrder'
  <2>1. DOMAIN heard = 1 .. n
    BY HeardFacts
  <2>2. QED
    BY <1>3, <1>4, <2>1 DEF IInv, MessagesAreInOrder
<1>7. QED
  BY <1>5, <1>6 DEF IInv

LEMMA ForgetMessagesStep ==
  ASSUME IInv, ForgetMessages
  PROVE  /\ IInv'
         /\ s'.msgs = heard[Len(heard)]
         /\ ~s'.err
<1> DEFINE n == Len(s.msgMarks)
           m == Len(heard[n])
           l == Len(s.msgs)
<1>1. /\ s.msgMarks # << >>
      /\ s' = RollbackInfo(s)
      /\ heard' = DropLast(heard)
      /\ before' = before
  BY DEF ForgetMessages
<1>2. /\ s \in Stream
      /\ Len(heard) = n
      /\ DOMAIN heard = 1 .. n
      /\ s.msgs \in Seq(Nat)
      /\ l \in Nat
      /\ DOMAIN s.msgs = 1 .. l
      /\ \A i \in DOMAIN s.msgs : 0 < s.msgs[i] /\ s.msgs[i] <= s.msgNum
      /\ \A i, j \in DOMAIN s.msgs : i < j => s.msgs[i] < s.msgs[j]
      /\ \A k \in 1 .. n :
           /\ heard[k] \in Seq(Nat)
           /\ Len(heard[k]) \in 0 .. l
           /\ heard[k] = SubSeq(s.msgs, 1, Len(heard[k]))
           /\ s.msgMarks[k] = IF heard[k] = << >> THEN NoMessage
                              ELSE heard[k][Len(heard[k])]
      /\ \A i, j \in 1 .. n : i < j => Len(heard[i]) <= Len(heard[j])
  BY HeardFacts
<1>3. n \in 1 .. n
  <2>1. n \in Nat \ {0}
    BY <1>1, EndQuiet, HeardFacts, DropLastFacts
  <2>2. QED
    BY <2>1
<1>4. m \in 0 .. l /\ heard[n] = SubSeq(s.msgs, 1, m)
  BY <1>2, <1>3
<1>5. s.msgMarks[n] = IF m = 0 THEN NoMessage ELSE s.msgs[m]
  <2>1. heard[n] = << >> <=> m = 0
    BY <1>2, <1>3
  <2>2. m # 0 => heard[n][m] = s.msgs[m]
    <3>1. \A i \in 1 .. m : SubSeq(s.msgs, 1, m)[i] = s.msgs[i]
      <4> HIDE DEF m
      <4>1. QED
        BY <1>2, <1>4, PrefixFacts
    <3>2. m # 0 => m \in 1 .. m
      BY <1>2, <1>4
    <3>3. QED
      BY <1>4, <3>1, <3>2
  <2>3. QED
    BY <1>2, <1>3, <2>1, <2>2
<1> HIDE DEF m
<1>6. /\ s' \in Stream
      /\ s'.msgs = SubSeq(s.msgs, 1, m)
      /\ s'.msgNum = s.msgNum
      /\ s'.msgMarks = DropLast(s.msgMarks)
      /\ ~s'.err
      /\ SameTokens(s, s')
  BY <1>1, <1>2, <1>4, <1>5, RollbackInfoFields
<1>7. /\ n \in Nat \ {0}
      /\ heard' \in Seq(Seq(Nat))
      /\ Len(heard') = Len(s'.msgMarks)
      /\ DOMAIN heard' = 1 .. n - 1
      /\ \A k \in 1 .. n - 1 : /\ k \in 1 .. n
                               /\ k < n
                               /\ heard'[k] = heard[k]
                               /\ s'.msgMarks[k] = s.msgMarks[k]
  BY <1>1, <1>6, EndQuiet
<1>8. TypeOK' /\ AttemptsAreSound'
  BY <1>1, <1>6, <1>7, TokensKept DEF IInv
<1>9. /\ Len(s'.msgs) = m
      /\ DOMAIN s'.msgs = 1 .. m
      /\ \A i \in 1 .. m : i \in 1 .. l /\ s'.msgs[i] = s.msgs[i]
  BY <1>2, <1>4, <1>6, PrefixFacts
<1>10. ASSUME NEW k \in 1 .. n - 1
       PROVE  /\ Len(heard[k]) <= m
              /\ heard[k] = SubSeq(s'.msgs, 1, Len(heard[k]))
  <2> DEFINE h == Len(heard[k])
  <2>1. h <= m
    BY <1>2, <1>3, <1>7, <1>10 DEF m
  <2>2. h \in 0 .. m /\ heard[k] = SubSeq(s.msgs, 1, h)
    BY <1>2, <1>4, <1>7, <1>10, <2>1
  <2> HIDE DEF h
  <2>3. SubSeq(SubSeq(s.msgs, 1, m), 1, h) = SubSeq(s.msgs, 1, h)
    BY <1>2, <1>4, <2>2, PrefixFacts
  <2>4. heard[k] = SubSeq(s'.msgs, 1, h) /\ h <= m
    BY <1>6, <2>1, <2>2, <2>3
  <2>5. QED
    BY <2>4 DEF h
<1>11. MessagesAreInOrder'
  <2>1. /\ \A i \in DOMAIN s'.msgs : 0 < s'.msgs[i] /\ s'.msgs[i] <= s'.msgNum
        /\ \A i, j \in DOMAIN s'.msgs : i < j => s'.msgs[i] < s'.msgs[j]
    BY <1>2, <1>6, <1>9
  <2>2. \A k \in 1 .. n - 1 :
          s'.msgMarks[k] = IF heard'[k] = << >> THEN NoMessage
                           ELSE heard'[k][Len(heard'[k])]
    BY <1>2, <1>7
  <2>3. \A i, j \in 1 .. n - 1 : i < j => Len(heard'[i]) <= Len(heard'[j])
    BY <1>2, <1>7
  <2>4. QED
    BY <1>7, <1>9, <1>10, <2>1, <2>2, <2>3 DEF MessagesAreInOrder
<1>12. s'.msgs = heard[Len(heard)]
  BY <1>2, <1>4, <1>6
<1>13. QED
  BY <1>6, <1>8, <1>11, <1>12 DEF IInv
-----------------------------------------------------------------------------
\* The theorems.

LEMMA InitIInv ==
  ASSUME Init
  PROVE  IInv
<1>1. PICK t \in Texts : s = NewStream(t)
  BY DEF Init
<1>2. before = << >> /\ heard = << >>
  BY DEF Init
<1>3. t \in Seq(STRING)
  BY TextsAssumption
<1>4. Len(t) \in Nat /\ ValueTokens(t) \in SUBSET Nat
  BY <1>3 DEF ValueTokens
<1>5. /\ s.tokens = t
      /\ s.pos = 0
      /\ s.marks = << >>
      /\ s.owned = ValueTokens(t)
      /\ s.msgs = << >>
      /\ s.msgNum = 0
      /\ s.msgMarks = << >>
  BY <1>1 DEF NewStream
<1>6. s \in Stream
  BY <1>1, <1>3, <1>4 DEF NewStream, Stream
<1>7. TypeOK
  BY <1>2, <1>4, <1>5, <1>6 DEF TypeOK
<1>8. AttemptsAreSound
  BY <1>2, <1>5 DEF AttemptsAreSound, MarksAreInOrder, UnreadIsOwned, TakenInAttempt
<1>9. MessagesAreInOrder
  BY <1>2, <1>5 DEF MessagesAreInOrder
<1>10. QED
  BY <1>7, <1>8, <1>9 DEF IInv

LEMMA NextIInv ==
  ASSUME IInv, [Next]_vars
  PROVE  IInv'
<1>1. CASE AcceptValue
  BY <1>1, AcceptValueStep
<1>2. CASE AcceptToken
  BY <1>2, AcceptTokenStep
<1>3. CASE TakeAccepted
  BY <1>3, TakeAcceptedStep
<1>4. CASE BeginAttempt
  BY <1>4, BeginAttemptStep
<1>5. CASE KeepAttempt
  BY <1>5, KeepAttemptStep
<1>6. CASE GiveUpAttempt
  BY <1>6, GiveUpAttemptStep
<1>7. CASE PostMessage
  BY <1>7, PostMessageStep
<1>8. CASE BeginQuietly
  BY <1>8, BeginQuietlyStep
<1>9. CASE KeepMessages
  BY <1>9, KeepMessagesStep
<1>10. CASE ForgetMessages
  BY <1>10, ForgetMessagesStep
<1>11. CASE UNCHANGED vars
  BY <1>11 DEF vars, IInv, TypeOK, AttemptsAreSound, MarksAreInOrder, UnreadIsOwned,
               TakenInAttempt, MessagesAreInOrder
<1>12. QED
  BY <1>1, <1>2, <1>3, <1>4, <1>5, <1>6, <1>7, <1>8, <1>9, <1>10, <1>11
  DEF Next

\* The marks of the open attempts stay in order and behind the position, what
\* is ahead stays with the lexer, what an attempt took is behind its mark, and
\* the marks of the messages stand for the messages there were.
THEOREM SpeculationInvariant == Spec => []IInv
<1>1. QED
  BY InitIInv, NextIInv, PTL DEF Spec

\* The position stays within the text, and only values that there are are owned.
THEOREM SpeculationTypes == Spec => []TypeOK
<1>1. IInv => TypeOK
  BY DEF IInv
<1>2. QED
  BY <1>1, SpeculationInvariant, PTL

\* Positions, marks and ownership are in step, however attempts are nested.
THEOREM AttemptsStaySound == Spec => []AttemptsAreSound
<1>1. IInv => AttemptsAreSound
  BY DEF IInv
<1>2. QED
  BY <1>1, SpeculationInvariant, PTL

\* What an attempt took lies behind its mark, so that going back to the mark
\* gives back all of it and nothing else.
THEOREM TakenStaysBehindTheMark == Spec => []TakenInAttempt
<1>1. IInv => TakenInAttempt
  BY DEF IInv, AttemptsAreSound
<1>2. QED
  BY <1>1, SpeculationInvariant, PTL

\* The marks of the messages stand for the messages there were, in order.
THEOREM MessagesStayInOrder == Spec => []MessagesAreInOrder
<1>1. IInv => MessagesAreInOrder
  BY DEF IInv
<1>2. QED
  BY <1>1, SpeculationInvariant, PTL

\* The assertion of lexer_rollback(): a mark is never ahead of the position.
THEOREM MarksStayInOrder == Spec => []MarksAreInOrder
<1>1. IInv => MarksAreInOrder
  BY DEF IInv, AttemptsAreSound
<1>2. QED
  BY <1>1, SpeculationInvariant, PTL

\* A value is handed out once: whatever lies ahead of the position is owned by
\* the lexer, after every nesting of attempts and rollbacks.
THEOREM UnreadStaysOwned == Spec => []UnreadIsOwned
<1>1. IInv => UnreadIsOwned
  BY DEF IInv, AttemptsAreSound
<1>2. QED
  BY <1>1, SpeculationInvariant, PTL

\* lexer_rollback() restores the position and the ownership that there were at
\* the push it answers.
THEOREM NoTraceIsLeft == Spec => AttemptLeavesNoTrace
<1>1. IInv /\ [Next]_vars
        => [GiveUpAttempt => /\ s'.pos = before[Len(before)].pos
                             /\ s'.owned = before[Len(before)].owned]_vars
  BY GiveUpAttemptStep
<1>2. QED
  BY <1>1, SpeculationInvariant, PTL DEF Spec, AttemptLeavesNoTrace

\* parser_info_rollback() removes the messages that were posted since the push
\* it answers, and no others.
THEOREM QuietnessHolds == Spec => QuietAttemptIsQuiet
<1>1. IInv /\ [Next]_vars
        => [ForgetMessages => /\ s'.msgs = heard[Len(heard)]
                              /\ ~s'.err]_vars
  BY ForgetMessagesStep
<1>2. QED
  BY <1>1, SpeculationInvariant, PTL DEF Spec, QuietAttemptIsQuiet
=============================================================================
