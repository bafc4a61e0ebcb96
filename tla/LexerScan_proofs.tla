-------------------------- MODULE LexerScan_proofs --------------------------
(***************************************************************************)
(* Proofs about the scanner, for every text: its tokens are in the order   *)
(* of the text, the file never moves over its end, and the lines that are  *)
(* counted in pieces, by blanks, tokens and comments, add up.              *)
(*                                                                         *)
(* First minima and counts of newlines, then where each kind of lexeme     *)
(* ends, then what a turn of the loop does to the file and the tokens.     *)
(***************************************************************************)
EXTENDS LexerScan, Positions, FiniteSetTheorems, TLAPS
-----------------------------------------------------------------------------
\* The first of some positions is among them.
LEMMA MinIsFirst ==
  ASSUME NEW n \in Nat, NEW S \in SUBSET (0 .. n), S # {}
  PROVE  Min(S) \in S /\ \A i \in S : Min(S) <= i
BY FirstPosition DEF Min

\* The end of a run of characters lies in the text, and behind it is another one.
LEMMA RunEndFacts ==
  ASSUME NEW t \in Seq(STRING), NEW i \in 1 .. Len(t) + 1, NEW class
  PROVE  /\ RunEnd(t, i, class) \in (i - 1) .. Len(t)
         /\ RunEnd(t, i, class) < Len(t) => t[RunEnd(t, i, class) + 1] \notin class
         /\ i <= Len(t) /\ t[i] \in class => i <= RunEnd(t, i, class)
<1>. DEFINE outside == {k \in i .. Len(t) : t[k] \notin class}
<1>1. CASE outside = {}
  BY <1>1 DEF RunEnd
<1>2. CASE outside # {}
  <2>1. Min(outside) \in outside /\ \A k \in outside : Min(outside) <= k
    <3>1. outside \in SUBSET (0 .. Len(t)) /\ Len(t) \in Nat
      OBVIOUS
    <3>. QED
      BY <1>2, <3>1, MinIsFirst
  <2>2. RunEnd(t, i, class) = Min(outside) - 1
    BY <1>2 DEF RunEnd
  <2>. QED
    BY <2>1, <2>2
<1>. QED
  BY <1>1, <1>2
-----------------------------------------------------------------------------
\* Newlines.

\* What is counted in front of a position and from it on is what there is.
LEMMA NewlinesAdd ==
  ASSUME NEW t, NEW i \in Nat \ {0}, NEW k \in Nat, i - 1 <= k
  PROVE  /\ Newlines(t, 1, k) \in Nat
         /\ Newlines(t, 1, i - 1) + Newlines(t, i, k) = Newlines(t, 1, k)
<1>. DEFINE In(a, b) == {n \in a .. b : t[n] = Newline}
<1>1. \A a, b \in Nat : IsFiniteSet(In(a, b)) /\ Cardinality(In(a, b)) \in Nat
  <2>. TAKE a, b \in Nat
  <2>1. IsFiniteSet(a .. b)
    BY FS_Interval
  <2>2. In(a, b) \in SUBSET (a .. b)
    OBVIOUS
  <2>3. IsFiniteSet(In(a, b))
    BY <2>1, <2>2, FS_Subset
  <2>. QED
    BY <2>3, FS_CardinalityType
<1>2. In(1, k) = In(1, i - 1) \cup In(i, k) /\ In(1, i - 1) \cap In(i, k) = {}
  OBVIOUS
<1>3. i - 1 \in Nat
  OBVIOUS
<1>. HIDE DEF In
<1>4. Cardinality(In(1, i - 1) \cup In(i, k))
        = Cardinality(In(1, i - 1)) + Cardinality(In(i, k)) - Cardinality(In(1, i - 1) \cap In(i, k))
  BY <1>1, <1>3, FS_Union
<1>5. Cardinality(In(1, i - 1) \cap In(i, k)) = 0
  BY <1>2, FS_EmptySet
<1>6. /\ Cardinality(In(1, i - 1)) \in Nat /\ Cardinality(In(i, k)) \in Nat
      /\ Cardinality(In(1, k)) \in Nat
  BY <1>1, <1>3
<1>7. Cardinality(In(1, k)) = Cardinality(In(1, i - 1)) + Cardinality(In(i, k))
  <2>1. Cardinality(In(1, k)) = Cardinality(In(1, i - 1) \cup In(i, k))
    BY <1>2
  <2>2. \A a, b, c, d \in Nat : c = 0 /\ d = a + b - c => d = a + b
    OBVIOUS
  <2>. QED
    BY <2>1, <2>2, <1>4, <1>5, <1>6
<1>. QED
  BY <1>6, <1>7 DEF Newlines, In
-----------------------------------------------------------------------------
(* The invariant *)

Places == {Location(t, i, j) : t \in Seq(STRING), i \in Nat, j \in Nat}
Kinds == {"keyword", "identifier", "integer", "float", "string", "symbol"}
Tokens == [kind : Kinds, from : Nat, to : Nat, location : Places]
Files == [at : Nat \ {0}, lines : Nat]

ScanTypeOK ==
  /\ text \in Seq(STRING)
  /\ file \in Files
  /\ atEof \in BOOLEAN
  /\ tokens \in Seq(Tokens)

\* A position within the text, with the lines in front of it.
Counts(f) == f.at <= Limit + 1 /\ f.lines = Newlines(text, 1, f.at - 1)

TokensLieBehind ==
  \A k \in DOMAIN tokens :
    /\ 1 <= tokens[k].from /\ tokens[k].from <= tokens[k].to /\ tokens[k].to <= Limit
    /\ tokens[k].to < file.at \/ (atEof /\ tokens[k].to = Limit)

TokensInOrder ==
  \A k, l \in DOMAIN tokens : k < l => tokens[k].to < tokens[l].from

ScanInv == ScanTypeOK /\ Counts(file) /\ TokensLieBehind /\ TokensInOrder
-----------------------------------------------------------------------------
(* The file *)

\* Behind the blanks the file is at a character that is none, or at the end.
LEMMA AheadFacts ==
  ASSUME ScanInv
  PROVE  /\ Ahead \in Files
         /\ file.at <= Ahead.at
         /\ Counts(Ahead)
         /\ Ahead.at <= Limit => text[Ahead.at] \notin Blanks
<1>. DEFINE end == RunEnd(text, file.at, Blanks)
<1>1. /\ text \in Seq(STRING) /\ Limit \in Nat /\ Limit = Len(text)
      /\ file \in Files /\ file.at \in 1 .. Len(text) + 1 /\ file.lines \in Nat
      /\ file.lines = Newlines(text, 1, file.at - 1)
  BY DEF ScanInv, ScanTypeOK, Counts, Limit, Files
<1>2. /\ end \in (file.at - 1) .. Len(text)
      /\ end < Len(text) => text[end + 1] \notin Blanks
  BY <1>1, RunEndFacts
<1>. HIDE DEF end
<1>3. /\ Newlines(text, 1, file.at - 1) + Newlines(text, file.at, end) = Newlines(text, 1, end)
      /\ Newlines(text, 1, end) \in Nat
  <2>1. file.at \in Nat \ {0} /\ end \in Nat /\ file.at - 1 <= end
    BY <1>1, <1>2
  <2>. QED
    BY <2>1, NewlinesAdd
<1>5. Ahead = [at |-> end + 1, lines |-> file.lines + Newlines(text, file.at, end)]
  BY DEF Ahead, PastBlanks, end
<1>6. Ahead.lines = Newlines(text, 1, end) /\ Ahead.at = end + 1 /\ Ahead.at - 1 = end
  BY <1>1, <1>2, <1>3, <1>5
<1>7. Ahead \in Files
  BY <1>2, <1>3, <1>5, <1>6, <1>1 DEF Files
<1>8. Counts(Ahead)
  BY <1>1, <1>2, <1>6 DEF Counts
<1>. QED
  BY <1>1, <1>2, <1>6, <1>7, <1>8

\* The lines in front of a file add up when it moves.
LEMMA MovedFacts ==
  ASSUME text \in Seq(STRING), NEW f \in Files, Counts(f), f.at <= Limit,
         NEW next \in f.at .. Limit + 1,
         next = f.at => f.at = Limit /\ text[f.at] # Newline
  PROVE  /\ Moved(text, f, next - f.at) \in Files
         /\ Moved(text, f, next - f.at).at = next
         /\ Counts(Moved(text, f, next - f.at))
<1>. DEFINE last == IF next - f.at = 0 THEN Len(text) ELSE f.at + (next - f.at) - 1
<1>1. /\ Limit = Len(text) /\ Len(text) \in Nat
      /\ f.at \in 1 .. Len(text) /\ f.lines = Newlines(text, 1, f.at - 1)
      /\ next \in Nat /\ f.at + (next - f.at) = next
  BY DEF Counts, Limit, Files
<1>2. Moved(text, f, next - f.at)
        = [at |-> next, lines |-> f.lines + Newlines(text, f.at, last)]
  BY <1>1 DEF Moved
<1>3. \A j \in f.at - 1 .. Len(text) :
        /\ Newlines(text, 1, f.at - 1) + Newlines(text, f.at, j) = Newlines(text, 1, j)
        /\ Newlines(text, 1, j) \in Nat
  <2>1. TAKE j \in f.at - 1 .. Len(text)
  <2>2. f.at \in Nat \ {0} /\ j \in Nat /\ f.at - 1 <= j
    BY <1>1
  <2>. QED
    BY <2>2, NewlinesAdd
<1>4. f.lines + Newlines(text, f.at, last) = Newlines(text, 1, next - 1)
  <2>1. CASE next = f.at
    <3>1. last = f.at
      BY <1>1, <2>1
    <3>2. Newlines(text, f.at, f.at) = 0
      <4>1. {n \in f.at .. f.at : text[n] = Newline} = {}
        BY <1>1, <2>1
      <4>. QED
        BY <4>1, FS_EmptySet DEF Newlines
    <3>3. Newlines(text, 1, f.at - 1) \in Nat
      BY <1>1, <1>3
    <3>. QED
      BY <1>1, <2>1, <3>1, <3>2, <3>3
  <2>2. CASE next # f.at
    <3>1. last = next - 1 /\ last \in f.at - 1 .. Len(text)
      BY <1>1, <2>2
    <3>. QED
      BY <1>1, <1>3, <3>1
  <2>. QED
    BY <2>1, <2>2
<1>5. Newlines(text, 1, next - 1) \in Nat
  <2>1. next - 1 \in f.at - 1 .. Len(text)
    BY <1>1
  <2>. QED
    BY <1>3, <2>1
<1>. HIDE DEF last
<1>. QED
  BY <1>1, <1>2, <1>4, <1>5 DEF Files, Counts
-----------------------------------------------------------------------------
(* Where lexemes end *)

\* A character that is there is not the end.
LEMMA CharFacts ==
  ASSUME text \in Seq(STRING), NEW i \in Nat \ {0}, NEW class, "end" \notin class, Char(i) \in class
  PROVE  i \in 1 .. Limit /\ text[i] \in class
BY DEF Char, Limit

\* A number has its first digit in it, whatever its base, and ends in the text.
LEMMA NumberEnds ==
  ASSUME text \in Seq(STRING), NEW from \in 1 .. Limit, text[from] \in Digits
  PROVE  Numeric(from).kind \in Kinds /\ Numeric(from).to \in from .. Limit
<1>1. Limit = Len(text) /\ Len(text) \in Nat
  BY DEF Limit
<1>2. \A i \in 1 .. Limit + 1 : \A class : RunEnd(text, i, class) \in (i - 1) .. Limit
  BY <1>1, RunEndFacts
<1>3. \A class : text[from] \in class => RunEnd(text, from, class) \in from .. Limit
  <2>1. TAKE class
  <2>2. HAVE text[from] \in class
  <2>3. from \in 1 .. Len(text) + 1 /\ from <= Len(text)
    BY <1>1
  <2>4. from <= RunEnd(text, from, class) /\ RunEnd(text, from, class) \in (from - 1) .. Len(text)
    BY <2>2, <2>3, RunEndFacts
  <2>. QED
    BY <1>1, <2>4
<1>4. CASE Based(from)
  <2>1. from + 2 \in 1 .. Limit + 1 /\ text[from] = "0"
    BY <1>1, <1>4 DEF Based, Char
  <2>2. \A class : IntegerEnd(from + 2, class) \in from .. Limit
    <3>1. TAKE class
    <3>2. RunEnd(text, from + 2, class) \in (from + 2 - 1) .. Limit
      BY <1>2, <2>1
    <3>. QED
      BY <1>1, <3>2 DEF IntegerEnd
  <2>3. IntegerEnd(from, Octals) \in from .. Limit
    <3>1. text[from] \in Octals
      BY <2>1 DEF Octals, Digits
    <3>. QED
      BY <1>3, <3>1 DEF IntegerEnd
  <2>4. BaseEnd(from) \in from .. Limit
    BY <2>2, <2>3 DEF BaseEnd
  <2>. QED
    BY <1>4, <2>4 DEF Numeric, Kinds
<1>5. CASE ~Based(from) /\ RunsOn(from)
  <2>. DEFINE whole == RunEnd(text, from, Digits)
  <2>1. whole \in from .. Limit
    BY <1>3
  <2>. HIDE DEF whole
  <2>2. CASE Char(whole + 1) = "."
    <3>1. whole + 1 \in 1 .. Limit
      BY <1>1, <2>1, <2>2 DEF Char
    <3>2. whole + 2 \in 1 .. Limit + 1 /\ whole + 2 - 1 = whole + 1
      BY <1>1, <3>1, <2>1
    <3>3. RunEnd(text, whole + 2, Digits) \in (whole + 2 - 1) .. Limit
      BY <1>1, <1>2, <2>1, <3>2
    <3>4. FloatEnd(from) = RunEnd(text, whole + 2, Digits)
      BY <2>2 DEF FloatEnd, whole
    <3>. QED
      BY <1>1, <1>5, <2>1, <3>2, <3>3, <3>4 DEF Numeric, Kinds
  <2>3. CASE Char(whole + 1) # "."
    <3>1. FloatEnd(from) = whole
      BY <2>3 DEF FloatEnd, whole
    <3>. QED
      BY <1>5, <2>1, <3>1 DEF Numeric, Kinds
  <2>. QED
    BY <2>2, <2>3
<1>6. CASE ~Based(from) /\ ~RunsOn(from)
  BY <1>3, <1>6 DEF Numeric, IntegerEnd, Kinds
<1>. QED
  BY <1>4, <1>5, <1>6

\* A comment ends behind its slashes, at most one behind the text.
LEMMA CommentEnds ==
  ASSUME text \in Seq(STRING), NEW from \in 1 .. Limit + 1
  PROVE  CommentEnd(from) \in from .. Limit + 1
<1>. DEFINE ends == {i \in from .. (Limit - 1) : text[i] = Newline}
<1>1. Limit \in Nat
  BY DEF Limit
<1>2. CASE ends # {}
  <2>1. Min(ends) \in ends
    <3>1. ends \in SUBSET (0 .. Limit)
      BY <1>1
    <3>. QED
      BY <1>1, <1>2, <3>1, MinIsFirst
  <2>2. CommentEnd(from) = Min(ends) + 1
    BY <1>2 DEF CommentEnd
  <2>. QED
    BY <1>1, <2>1, <2>2
<1>3. CASE ends = {}
  <2>1. CommentEnd(from) = Max({from, Limit})
    BY <1>3 DEF CommentEnd
  <2>2. \E x \in {from, Limit} : \A y \in {from, Limit} : x >= y
    <3>1. CASE from >= Limit
      BY <1>1, <3>1
    <3>2. CASE Limit >= from
      BY <1>1, <3>2
    <3>. QED
      BY <1>1, <3>1, <3>2
  <2>3. Max({from, Limit}) \in {from, Limit} /\ Max({from, Limit}) >= from
    BY <2>2 DEF Max
  <2>. QED
    BY <1>1, <2>1, <2>3
<1>. QED
  BY <1>2, <1>3

\* A string ends in the text, behind the quote it begins with.
LEMMA StringEndIn ==
  ASSUME text \in Seq(STRING), NEW from \in 1 .. Limit, StringEnds(from) # {}
  PROVE  Min(StringEnds(from)) \in from .. Limit
<1>1. Limit \in Nat
  BY DEF Limit
<1>2. StringEnds(from) \in SUBSET (0 .. Limit) /\ \A i \in StringEnds(from) : i \in from .. Limit
  BY <1>1 DEF StringEnds
<1>. QED
  BY <1>1, <1>2, MinIsFirst

\* A symbol of two characters has both of them in the text.
LEMMA SymbolEnds ==
  ASSUME text \in Seq(STRING), NEW from \in 1 .. Limit, SymbolLength(from) > 0
  PROVE  from + SymbolLength(from) - 1 \in from .. Limit
<1>1. Limit \in Nat
  BY DEF Limit
<1>2. SymbolLength(from) = 1 \/ SymbolLength(from) = 2
  BY DEF SymbolLength
<1>3. <<Char(from), "end">> \notin SymbolTable
  BY DEF SymbolTable, Quote
<1>4. SymbolLength(from) = 2 => <<Char(from), Char(from + 1)>> \in SymbolTable
  BY DEF SymbolLength
<1>5. SymbolLength(from) = 2 => from + 1 <= Limit
  <2>1. from + 1 > Limit => Char(from + 1) = "end"
    BY <1>1 DEF Char
  <2>. QED
    BY <1>1, <1>3, <1>4, <2>1
<1>. QED
  BY <1>1, <1>2, <1>5
-----------------------------------------------------------------------------
(* One turn of the loop *)

\* A token that is added at the blanks' end keeps the order of the tokens.
LEMMA AcceptKeeps ==
  ASSUME ScanInv, ~atEof, Ahead.at <= Limit,
         NEW kind \in Kinds, NEW to \in Ahead.at .. Limit, NEW next \in Ahead.at .. Limit + 1,
         NEW eof \in BOOLEAN,
         next = Ahead.at => Ahead.at = Limit,
         to < next \/ (eof /\ to = Limit),
         Accept(kind, Ahead.at, to, next, eof)
  PROVE  ScanInv'
<1>. DEFINE token == Token(kind, Ahead.at, to)
<1>1. /\ Limit = Len(text) /\ Len(text) \in Nat /\ text \in Seq(STRING)
      /\ file \in Files /\ file.at \in Nat \ {0}
      /\ tokens \in Seq(Tokens) /\ Len(tokens) \in Nat
      /\ Ahead \in Files /\ Ahead.at \in 1 .. Limit
      /\ file.at <= Ahead.at /\ Counts(Ahead) /\ text[Ahead.at] # Newline
  <2>1. /\ text \in Seq(STRING) /\ file \in Files /\ tokens \in Seq(Tokens)
        /\ Limit = Len(text)
    BY DEF ScanInv, ScanTypeOK, Limit
  <2>2. /\ Ahead \in Files /\ file.at <= Ahead.at /\ Counts(Ahead)
        /\ text[Ahead.at] \notin Blanks
    BY AheadFacts
  <2>3. Len(text) \in Nat /\ Len(tokens) \in Nat
    BY <2>1
  <2>4. file.at \in Nat \ {0} /\ Ahead.at \in Nat \ {0}
    BY <2>1, <2>2 DEF Files
  <2>5. text[Ahead.at] # Newline
    BY <2>2 DEF Blanks
  <2>. QED
    BY <2>1, <2>2, <2>3, <2>4, <2>5
<1>2. text' = text /\ Limit' = Limit /\ atEof' = eof
  BY DEF Accept, Limit
<1>3. /\ file' = Moved(text, Ahead, next - Ahead.at)
      /\ tokens' = Append(tokens, token)
  BY DEF Accept
<1>4. file' \in Files /\ file'.at = next /\ Counts(file)'
  <2>1. /\ Moved(text, Ahead, next - Ahead.at) \in Files
        /\ Moved(text, Ahead, next - Ahead.at).at = next
        /\ Counts(Moved(text, Ahead, next - Ahead.at))
    BY <1>1, MovedFacts
  <2>2. file'.lines = Newlines(text, 1, file'.at - 1) /\ file'.at <= Limit + 1
    BY <1>3, <2>1 DEF Counts
  <2>. QED
    BY <1>2, <1>3, <2>1, <2>2 DEF Counts
<1>5. token \in Tokens /\ token.from = Ahead.at /\ token.to = to
  <2>1. Ahead.at \in Nat /\ to \in Nat
    BY <1>1
  <2>2. Location(text, Ahead.at, to) \in Places
    BY <1>1, <2>1 DEF Places
  <2>. QED
    BY <2>1, <2>2 DEF Token, Tokens
<1>. HIDE DEF token
<1>6. /\ tokens' \in Seq(Tokens)
      /\ Len(tokens') = Len(tokens) + 1
      /\ DOMAIN tokens' = 1 .. Len(tokens) + 1
      /\ \A k \in 1 .. Len(tokens) : tokens'[k] = tokens[k]
      /\ tokens'[Len(tokens) + 1] = token
  BY <1>1, <1>3, <1>5
<1>7. \A k \in 1 .. Len(tokens) :
        /\ tokens[k].from \in Nat /\ tokens[k].to \in Nat
        /\ 1 <= tokens[k].from /\ tokens[k].from <= tokens[k].to /\ tokens[k].to <= Limit
        /\ tokens[k].to < file.at
  <2>1. TAKE k \in 1 .. Len(tokens)
  <2>2. tokens[k] \in Tokens /\ k \in DOMAIN tokens
    BY <1>1
  <2>3. tokens[k].from \in Nat /\ tokens[k].to \in Nat
    BY <2>2 DEF Tokens
  <2>. QED
    BY <2>2, <2>3 DEF ScanInv, TokensLieBehind
<1>8. ScanTypeOK'
  BY <1>1, <1>2, <1>4, <1>6 DEF ScanTypeOK
<1>9. TokensLieBehind'
  <2>1. SUFFICES ASSUME NEW k \in 1 .. Len(tokens) + 1
                 PROVE  /\ 1 <= tokens'[k].from /\ tokens'[k].from <= tokens'[k].to
                        /\ tokens'[k].to <= Limit
                        /\ tokens'[k].to < file'.at \/ (eof /\ tokens'[k].to = Limit)
    BY <1>2, <1>6 DEF TokensLieBehind
  <2>2. CASE k \in 1 .. Len(tokens)
    BY <1>1, <1>4, <1>6, <1>7, <2>2
  <2>3. CASE k = Len(tokens) + 1
    BY <1>1, <1>4, <1>5, <1>6, <2>3
  <2>. QED
    BY <1>1, <2>2, <2>3
<1>10. TokensInOrder'
  <2>1. SUFFICES ASSUME NEW k \in 1 .. Len(tokens) + 1, NEW l \in 1 .. Len(tokens) + 1, k < l
                 PROVE  tokens'[k].to < tokens'[l].from
    BY <1>6 DEF TokensInOrder
  <2>2. k \in 1 .. Len(tokens)
    BY <1>1, <2>1
  <2>3. CASE l \in 1 .. Len(tokens)
    <3>1. DOMAIN tokens = 1 .. Len(tokens)
      BY <1>1
    <3>2. tokens[k].to < tokens[l].from
      BY <2>1, <2>2, <2>3, <3>1 DEF ScanInv, TokensInOrder
    <3>. QED
      BY <1>6, <2>2, <2>3, <3>2
  <2>4. CASE l = Len(tokens) + 1
    BY <1>1, <1>5, <1>6, <1>7, <2>2, <2>4
  <2>. QED
    BY <1>1, <2>3, <2>4
<1>. QED
  BY <1>4, <1>8, <1>9, <1>10 DEF ScanInv

\* Words, numbers and strings that end in the text.
LEMMA AcceptLexemeKeeps ==
  ASSUME ScanInv, ~atEof, Ahead.at <= Limit,
         NEW kind \in Kinds, NEW to \in Ahead.at .. Limit, AcceptLexeme(kind, to)
  PROVE  ScanInv'
<1>1. Ahead.at \in 1 .. Limit /\ Limit \in Nat
  BY AheadFacts DEF Files, ScanInv, ScanTypeOK, Limit
<1>2. /\ Consumed(to) \in Ahead.at .. Limit + 1
      /\ Consumed(to) = Ahead.at => Ahead.at = Limit
      /\ to < Consumed(to) \/ ((to = Limit) /\ to = Limit)
  BY <1>1 DEF Consumed
<1>3. Accept(kind, Ahead.at, to, Consumed(to), to = Limit)
  BY DEF AcceptLexeme
<1>. QED
  BY <1>2, <1>3, AcceptKeeps

\* Where the file only moves ahead, the tokens stay behind it.
LEMMA MoveKeeps ==
  ASSUME ScanInv, file' \in Files, Counts(file)', file.at <= file'.at,
         UNCHANGED <<text, atEof, tokens>>
  PROVE  ScanInv'
<1>1. Limit' = Limit /\ Limit \in Nat
  BY DEF Limit, ScanInv, ScanTypeOK
<1>2. ScanTypeOK'
  BY DEF ScanInv, ScanTypeOK
<1>3. TokensInOrder'
  BY DEF ScanInv, TokensInOrder
<1>4. TokensLieBehind'
  <2>1. SUFFICES ASSUME NEW k \in DOMAIN tokens
                 PROVE  tokens[k].to < file.at => tokens[k].to < file'.at
    BY <1>1 DEF ScanInv, TokensLieBehind
  <2>2. tokens[k].to \in Nat
    <3>1. tokens[k] \in Tokens
      BY DEF ScanInv, ScanTypeOK
    <3>. QED
      BY <3>1 DEF Tokens
  <2>3. file.at \in Nat /\ file'.at \in Nat
    BY DEF ScanInv, ScanTypeOK, Files
  <2>. QED
    BY <2>2, <2>3
<1>. QED
  BY <1>2, <1>3, <1>4 DEF ScanInv
-----------------------------------------------------------------------------
(* The scan *)

\* What a class of characters selects is in the text.
LEMMA ScansFacts ==
  ASSUME ScanInv, NEW class, Scans(class)
  PROVE  /\ ~atEof /\ Ahead.at \in 1 .. Limit /\ Limit \in Nat
         /\ text \in Seq(STRING) /\ First = text[Ahead.at] /\ First \in class
<1>1. Ahead.at \in Nat \ {0} /\ text \in Seq(STRING) /\ Limit = Len(text)
  BY AheadFacts DEF ScanInv, ScanTypeOK, Files, Limit
<1>2. ~atEof /\ Ahead.at <= Limit /\ First \in class
  BY <1>1 DEF Scans, Running, AtEnd
<1>. QED
  BY <1>1, <1>2 DEF First, Char

LEMMA ScanStep ==
  ASSUME ScanInv, [ScanNext]_scanVars
  PROVE  ScanInv'
<1>1. CASE ScanWord
  <2>. DEFINE to == RunEnd(text, Ahead.at, WordCharacters)
  <2>1. /\ ~atEof /\ Ahead.at \in 1 .. Limit /\ Limit = Len(text)
        /\ text \in Seq(STRING) /\ text[Ahead.at] \in Letters
    BY <1>1, ScansFacts DEF ScanWord, Limit
  <2>2. to \in Ahead.at .. Limit
    <3>1. text[Ahead.at] \in WordCharacters /\ Ahead.at \in 1 .. Len(text) + 1
      BY <2>1 DEF WordCharacters
    <3>2. /\ to \in (Ahead.at - 1) .. Len(text)
          /\ Ahead.at <= Len(text) => Ahead.at <= to
      BY <2>1, <3>1, RunEndFacts
    <3>. HIDE DEF to
    <3>. QED
      BY <2>1, <3>2
  <2>3. PICK kind \in Kinds : AcceptLexeme(kind, to)
    BY <1>1 DEF ScanWord, Kinds
  <2>. QED
    BY <2>1, <2>2, <2>3, AcceptLexemeKeeps
<1>2. CASE ScanNumber
  <2>1. /\ ~atEof /\ Ahead.at \in 1 .. Limit /\ text \in Seq(STRING) /\ text[Ahead.at] \in Digits
    BY <1>2, ScansFacts DEF ScanNumber
  <2>2. Numeric(Ahead.at).kind \in Kinds /\ Numeric(Ahead.at).to \in Ahead.at .. Limit
    BY <2>1, NumberEnds
  <2>3. AcceptLexeme(Numeric(Ahead.at).kind, Numeric(Ahead.at).to)
    BY <1>2 DEF ScanNumber
  <2>. QED
    BY <2>1, <2>2, <2>3, AcceptLexemeKeeps
<1>3. CASE ScanNegative
  <2>1. ~atEof /\ Ahead.at \in 1 .. Limit /\ Limit \in Nat /\ text \in Seq(STRING)
    BY <1>3, ScansFacts DEF ScanNegative
  <2>2. Ahead.at + 1 \in 1 .. Limit /\ text[Ahead.at + 1] \in Digits
    <3>1. "end" \notin Digits
      BY DEF Digits
    <3>2. Char(Ahead.at + 1) \in Digits /\ Ahead.at + 1 \in Nat \ {0}
      BY <1>3, <2>1 DEF ScanNegative, StartsNegative
    <3>. QED
      BY <2>1, <3>1, <3>2, CharFacts
  <2>3. /\ Numeric(Ahead.at + 1).kind \in Kinds
        /\ Numeric(Ahead.at + 1).to \in Ahead.at + 1 .. Limit
    BY <2>1, <2>2, NumberEnds
  <2>4. AcceptLexeme(Numeric(Ahead.at + 1).kind, Numeric(Ahead.at + 1).to)
    BY <1>3 DEF ScanNegative
  <2>5. Numeric(Ahead.at + 1).to \in Ahead.at .. Limit
    BY <2>1, <2>3
  <2>. QED
    BY <2>1, <2>3, <2>4, <2>5, AcceptLexemeKeeps
<1>4. CASE ScanComment
  <2>1. ~atEof /\ Ahead.at \in 1 .. Limit /\ Limit \in Nat /\ text \in Seq(STRING)
    BY <1>4, ScansFacts DEF ScanComment
  <2>2. Ahead.at + 2 \in 1 .. Limit + 1
    <3>1. Ahead.at + 1 \in 1 .. Limit
      BY <1>4, <2>1 DEF ScanComment, StartsComment, Char
    <3>. QED
      BY <2>1, <3>1
  <2>. DEFINE next == CommentEnd(Ahead.at + 2)
  <2>3. next \in Ahead.at + 2 .. Limit + 1
    BY <2>1, <2>2, CommentEnds
  <2>4. file' = Moved(text, Ahead, next - Ahead.at) /\ UNCHANGED <<text, atEof, tokens>>
    BY <1>4 DEF ScanComment
  <2>. HIDE DEF next
  <2>5. Ahead \in Files /\ Counts(Ahead) /\ file.at <= Ahead.at /\ file \in Files
    BY AheadFacts DEF ScanInv, ScanTypeOK
  <2>6. next \in Ahead.at .. Limit + 1 /\ next # Ahead.at
    BY <2>1, <2>3
  <2>7. /\ Moved(text, Ahead, next - Ahead.at) \in Files
        /\ Moved(text, Ahead, next - Ahead.at).at = next
        /\ Counts(Moved(text, Ahead, next - Ahead.at))
    BY <2>1, <2>5, <2>6, MovedFacts
  <2>8. file' \in Files /\ Counts(file)' /\ file.at <= file'.at
    <3>1. file' \in Files /\ file'.at = next
      BY <2>4, <2>7
    <3>2. Counts(file)'
      BY <2>4, <2>7 DEF Counts, Limit
    <3>3. file.at \in Nat
      BY <2>5 DEF Files
    <3>. QED
      BY <2>1, <2>5, <2>6, <3>1, <3>2, <3>3
  <2>. QED
    BY <2>4, <2>8, MoveKeeps
<1>5. CASE ScanString
  <2>1. ~atEof /\ Ahead.at \in 1 .. Limit /\ Limit \in Nat /\ text \in Seq(STRING)
    BY <1>5, ScansFacts DEF ScanString
  <2>2. Min(StringEnds(Ahead.at)) \in Ahead.at .. Limit
    BY <1>5, <2>1, StringEndIn DEF ScanString
  <2>3. AcceptLexeme("string", Min(StringEnds(Ahead.at))) /\ "string" \in Kinds
    BY <1>5 DEF ScanString, Kinds
  <2>. QED
    BY <2>1, <2>2, <2>3, AcceptLexemeKeeps
<1>6. CASE ScanSymbol
  <2>. DEFINE to == Ahead.at + SymbolLength(Ahead.at) - 1
  <2>1. /\ ~atEof /\ Ahead.at \in 1 .. Limit /\ Limit \in Nat /\ text \in Seq(STRING)
    <3>1. Ahead.at \in Nat \ {0} /\ text \in Seq(STRING) /\ Limit = Len(text)
      BY AheadFacts DEF ScanInv, ScanTypeOK, Files, Limit
    <3>2. ~atEof /\ Ahead.at <= Limit
      BY <1>6, <3>1 DEF ScanSymbol, OtherStart, Running, AtEnd
    <3>. QED
      BY <3>1, <3>2
  <2>2. to \in Ahead.at .. Limit
    BY <1>6, <2>1, SymbolEnds DEF ScanSymbol
  <2>3. Accept("symbol", Ahead.at, to, to + 1, FALSE) /\ "symbol" \in Kinds
    BY <1>6 DEF ScanSymbol, Kinds
  <2>. HIDE DEF to
  <2>4. /\ to + 1 \in Ahead.at .. Limit + 1 /\ to + 1 # Ahead.at
        /\ to < to + 1 /\ Ahead.at <= Limit
    BY <2>1, <2>2
  <2>. QED
    BY <2>1, <2>2, <2>3, <2>4, AcceptKeeps
<1>7. CASE UnterminatedString \/ UnknownToken \/ OnlyBlanks
  <2>1. file' = Ahead /\ UNCHANGED <<text, atEof, tokens>>
    BY <1>7 DEF UnterminatedString, UnknownToken, OnlyBlanks, Fail
  <2>2. Ahead \in Files /\ Counts(Ahead) /\ file.at <= Ahead.at
    BY AheadFacts
  <2>3. Counts(file)'
    BY <2>1, <2>2 DEF Counts, Limit
  <2>. QED
    BY <2>1, <2>2, <2>3, MoveKeeps
<1>8. CASE Leave \/ Ended \/ UNCHANGED scanVars
  <2>1. UNCHANGED <<text, file, atEof, tokens>>
    BY <1>8 DEF Leave, Ended, scanVars
  <2>. QED
    BY <2>1 DEF ScanInv, ScanTypeOK, Counts, TokensLieBehind, TokensInOrder, Limit
<1>. QED
  BY <1>1, <1>2, <1>3, <1>4, <1>5, <1>6, <1>7, <1>8 DEF ScanNext

\* Nothing is scanned yet, and no line counted.
LEMMA ScanBegins == InitScan => ScanInv
<1>. SUFFICES ASSUME InitScan  PROVE ScanInv
  OBVIOUS
<1>1. text \in Seq(STRING) /\ Len(text) \in Nat /\ tokens = <<>> /\ ~atEof
  BY InputsAssumption DEF InitScan
<1>2. file = [at |-> 1, lines |-> 0] /\ atEof \in BOOLEAN
  BY DEF InitScan, FileAtStart
<1>3. Newlines(text, 1, 0) = 0
  <2>1. {n \in 1 .. 0 : text[n] = Newline} = {}
    OBVIOUS
  <2>. QED
    BY <2>1, FS_EmptySet DEF Newlines
<1>4. Counts(file)
  BY <1>1, <1>2, <1>3 DEF Counts, Limit
<1>5. ScanTypeOK
  BY <1>1, <1>2 DEF ScanTypeOK, Files
<1>6. TokensLieBehind /\ TokensInOrder
  BY <1>1 DEF TokensLieBehind, TokensInOrder
<1>. QED
  BY <1>4, <1>5, <1>6 DEF ScanInv

\* The inductive invariant: tokens and the file's position, with the lines counted
\* in front of it, have their types, and every token lies in the text.
THEOREM ScanningIsSound == ScanSpec => []ScanInv
<1>1. InitScan => ScanInv
  BY ScanBegins
<1>2. ScanInv /\ [ScanNext]_scanVars => ScanInv'
  BY ScanStep
<1>. QED
  BY <1>1, <1>2, PTL DEF ScanSpec

\* For every text and every table of keywords, lexer_scan() keeps its position: the
\* file never moves over its end, its line is that of its position, and the tokens
\* are in the order of the text, behind the position unless one ends the text.
THEOREM ScanKeepsPosition == ScanSpec => []PositionIsKept
<1>1. ScanInv => PositionIsKept
  BY DEF ScanInv, Counts, TokensLieBehind, TokensInOrder, PositionIsKept
<1>. QED
  BY <1>1, ScanningIsSound, PTL
=============================================================================
