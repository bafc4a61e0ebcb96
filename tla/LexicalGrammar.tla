--------------------------- MODULE LexicalGrammar ---------------------------
(***************************************************************************)
(* What the tokens of a text are, said without a scanner: a text is read   *)
(* from left to right, each time the longest lexeme there is.              *)
(***************************************************************************)
EXTENDS LexerScan

All(s, class) == \A i \in DOMAIN s : s[i] \in class

IsWord(s) == s[1] \in Letters /\ All(s, WordCharacters)
IsDecimal(s) == s # <<>> /\ All(s, Digits) /\ (Len(s) > 1 => s[1] # "0")
IsOctal(s) == Len(s) > 1 /\ s[1] = "0" /\ All(s, Octals)
IsFloat(s) ==
  \E i \in DOMAIN s : /\ s[i] = "."
                      /\ IsDecimal(SubSeq(s, 1, i - 1))
                      /\ All(SubSeq(s, i + 1, Len(s)), Digits)
Unsigned(s) == IF s[1] = "-" THEN Tail(s) ELSE s
IsString(s) ==
  /\ Len(s) > 1
  /\ s[1] = Quote
  /\ \A i \in 2..Len(s) : (s[i] = Quote /\ s[i - 1] # "\\") <=> i = Len(s)

\* A comment ends with its line, or with the text.
IsComment(s, last) ==
  /\ Len(s) > 1
  /\ s[1] = "/" /\ s[2] = "/"
  /\ \A i \in 3..(Len(s) - 1) : s[i] # Newline
  /\ last \/ Last(s) = Newline

\* What a sequence of characters is, none if it is not a lexeme.
Sort(s, last) ==
  IF All(s, Blanks) THEN {"blank"}
  ELSE IF IsComment(s, last) THEN {"comment"}
  ELSE IF s \in Keywords THEN {"keyword"}
  ELSE IF IsWord(s) THEN {"identifier"}
  ELSE IF IsDecimal(Unsigned(s)) \/ IsOctal(Unsigned(s)) THEN {"integer"}
  ELSE IF IsFloat(Unsigned(s)) THEN {"float"}
  ELSE IF IsString(s) THEN {"string"}
  ELSE IF s \in SymbolTable \ {<<Quote>>} THEN {"symbol"}
  ELSE {}

Lexemes(i) == {j \in i..Limit : Sort(SubSeq(text, i, j), j = Limit) # {}}

RECURSIVE Reading(_)

\* The tokens from a position on, and whether the whole text is read.
Reading(i) ==
  IF i > Limit THEN [tokens |-> <<>>, whole |-> TRUE]
  ELSE IF Lexemes(i) = {} THEN [tokens |-> <<>>, whole |-> FALSE]
  ELSE LET j == Max(Lexemes(i))
           kind == CHOOSE k \in Sort(SubSeq(text, i, j), j = Limit) : TRUE
           rest == Reading(j + 1)
       IN IF kind \in {"blank", "comment"} THEN rest
          ELSE [rest EXCEPT !.tokens = <<[kind |-> kind, from |-> i, to |-> j]>> \o @]
-----------------------------------------------------------------------------
Lexeme(t) == [kind |-> t.kind, from |-> t.from, to |-> t.to]
Scanned == [k \in DOMAIN tokens |-> Lexeme(tokens[k])]

\* The last line has no comment, or one without a text.
EndsItsComments ==
  \A i \in 1..(Limit - 2) :
    text[i] = "/" /\ text[i + 1] = "/" => \E j \in (i + 2)..Limit : text[j] = Newline

\* Two numbers, the second one a float, without a blank between them.
NumbersRunOn ==
  \E i, j \in 1..Limit :
    /\ i < j
    /\ text[i] \in Digits /\ text[j] = "." /\ text[j - 1] \in Digits
    /\ \A k \in i..j : text[k] \notin Blanks
    /\ \E k \in i..j : text[k] \notin Digits \cup {"."} \/ (text[k] = "." /\ k < j)

AnyNumber(lexemes) ==
  [k \in DOMAIN lexemes |->
     [lexemes[k] EXCEPT !.kind = IF @ \in {"integer", "float"} THEN "number" ELSE @]]

\* Each token has the line and the column that an editor shows.
LocationsAreRight ==
  \A k \in DOMAIN tokens :
    LET Shown(p) == [line |-> Newlines(text, 1, p - 1),
                     column |-> p - 1 - Max({0} \cup {i \in 1..(p - 1) : text[i] = Newline})]
    IN tokens[k].location = [start |-> Shown(tokens[k].from), end |-> Shown(tokens[k].to)]

\* A scan that succeeds gives the tokens of the text, one that fails those in
\* front of what cannot be read, each at its line and column. (A comment at the end
\* of a file without a newline, and an integer in front of a float, are read
\* otherwise.)
TokensAreTheText ==
  /\ LocationsAreRight
  /\ outcome # "scanning" /\ EndsItsComments =>
       LET reading == Reading(1)
       IN /\ outcome = "scanned" <=> reading.whole
          /\ AnyNumber(Scanned) = AnyNumber(reading.tokens)
          /\ ~NumbersRunOn => Scanned = reading.tokens
=============================================================================
