------------------------------ MODULE LexerScan -----------------------------
(***************************************************************************)
(* lexer_scan() (src/lexer/lexer.c): from the text of a file to the tokens *)
(* the parser takes. One action is one turn of its loop: blanks are        *)
(* skipped, the first character behind them selects what is scanned, and   *)
(* the file moves by what that took.                                       *)
(*                                                                         *)
(* Letters stand for the ranges of the code's macros. A word is a keyword  *)
(* if the generated table (tokens_htable.gperf) holds it. Values of        *)
(* literals, and exponents, are left out.                                  *)
(***************************************************************************)
EXTENDS InputText

CONSTANTS
  Inputs,     \* the texts to scan
  Keywords   \* words of the table that look like an identifier

ASSUME InputsAssumption == \A t \in Inputs : t \in Seq(STRING)

VARIABLES
  text,      \* the file's text
  file,      \* the file's position
  atEof,     \* l->at_eof
  tokens,    \* l->tokens
  outcome    \* "scanning", "scanned" or "failed", with a message

scanVars == <<text, file, atEof, tokens, outcome>>

Digits == {"0", "1", "2", "3", "4", "5", "6", "7", "8", "9"}
Octals == Digits \ {"8", "9"}
Letters == {"_", "a", "b", "c", "d", "e", "f", "i", "k", "x", "y", "z"}
WordCharacters == Letters \cup Digits
Quote == "\""

SymbolTable ==
  {<<":">>, <<"{">>, <<"}">>, <<"[">>, <<"]">>, <<"(">>, <<")">>, <<Quote>>,
   <<"+">>, <<"-">>, <<"*">>, <<"/">>, <<"=">>, <<">">>, <<"<">>, <<"&">>,
   <<"|">>, <<",">>, <<".">>, <<"^">>,
   <<"=", ">">>, <<"=", "=">>, <<"!", "=">>, <<">", "=">>, <<"<", "=">>,
   <<"+", "+">>, <<"-", "-">>, <<"-", ">">>, <<"&", "&">>, <<"|", "|">>}
Ambiguous == {"+", "-", ">", "<", "|", "=", "&"}
-----------------------------------------------------------------------------
Limit == Len(text)
Char(i) == IF i <= Limit THEN text[i] ELSE "end"

\* Where the file is once the blanks are skipped.
Ahead == PastBlanks(text, file)
First == Char(Ahead.at)

Running == outcome = "scanning" /\ ~atEof /\ file.at <= Limit
Scans(class) == Running /\ ~AtEnd(text, Ahead) /\ First \in class

Token(kind, from, to) ==
  [kind |-> kind, from |-> from, to |-> to, location |-> Location(text, from, to)]

\* A word, a number or a string up to the end of the text ends the scan and
\* leaves its last character ahead.
Consumed(to) == IF to = Limit THEN to ELSE to + 1

Accept(kind, from, to, next, eof) ==
  /\ tokens' = Append(tokens, Token(kind, from, to))
  /\ file' = Moved(text, Ahead, next - Ahead.at)
  /\ atEof' = eof
  /\ UNCHANGED <<text, outcome>>

AcceptLexeme(kind, to) == Accept(kind, Ahead.at, to, Consumed(to), to = Limit)

Fail ==
  /\ outcome' = "failed"
  /\ file' = Ahead
  /\ UNCHANGED <<text, atEof, tokens>>
-----------------------------------------------------------------------------
\* lexer_get_identifier()
ScanWord ==
  /\ Scans(Letters)
  /\ LET to == RunEnd(text, Ahead.at, WordCharacters)
     IN AcceptLexeme(IF SubSeq(text, Ahead.at, to) \in Keywords THEN "keyword" ELSE "identifier",
                     to)

\* The conversions of the C library take the longest prefix that is a number
\* and answer the offset of its last character.
IntegerEnd(from, class) == RunEnd(text, from, class)
FloatEnd(from) ==
  LET whole == RunEnd(text, from, Digits)
  IN IF Char(whole + 1) = "." THEN RunEnd(text, whole + 2, Digits) ELSE whole

\* lexer_get_numeric() from a first digit on: a base by its prefix, else an
\* integer, or a float if in what there is up to the next blank any digit has
\* a point behind it.
Based(from) ==
  from < Limit /\ Char(from) = "0" /\ Char(from + 1) \notin Blanks \cup {"."}
RunsOn(from) ==
  \E i \in from..(RunEnd(text, from, {text[k] : k \in DOMAIN text} \ Blanks) - 1) :
    text[i] \in Digits /\ text[i + 1] = "."
BaseEnd(from) ==
  CASE Char(from + 1) = "x" -> IntegerEnd(from + 2, Digits \cup {"a", "b", "c", "d", "e", "f"})
    [] Char(from + 1) = "b" -> IntegerEnd(from + 2, {"0", "1"})
    [] OTHER -> IntegerEnd(from, Octals)

Numeric(from) ==
  IF Based(from) THEN [kind |-> "integer", to |-> BaseEnd(from)]
  ELSE IF RunsOn(from) THEN [kind |-> "float", to |-> FloatEnd(from)]
  ELSE [kind |-> "integer", to |-> IntegerEnd(from, Digits)]

ScanNumber ==
  /\ Scans(Digits)
  /\ LET number == Numeric(Ahead.at) IN AcceptLexeme(number.kind, number.to)

StartsNegative == First = "-" /\ Char(Ahead.at + 1) \in Digits

ScanNegative ==
  /\ Scans({"-"})
  /\ StartsNegative
  /\ LET number == Numeric(Ahead.at + 1) IN AcceptLexeme(number.kind, number.to)
-----------------------------------------------------------------------------
StartsComment == First = "/" /\ Char(Ahead.at + 1) = "/"

\* lexer_get_dblslash_comment(): up to behind the newline, or to the limit.
CommentEnd(from) ==
  LET ends == {i \in from..(Limit - 1) : text[i] = Newline}
  IN IF ends # {} THEN Min(ends) + 1 ELSE Max({from, Limit})

ScanComment ==
  /\ Scans({"/"})
  /\ StartsComment
  /\ file' = Moved(text, Ahead, CommentEnd(Ahead.at + 2) - Ahead.at)
  /\ UNCHANGED <<text, atEof, tokens, outcome>>
-----------------------------------------------------------------------------
\* Mutant: any quote ends a string.
StringEnds_Escaped(from) == {i \in (from + 1)..Limit : text[i] = Quote}

\* lexer_get_string_literal(): the first quote without a backslash before it.
StringEnds(from) ==
  {i \in (from + 1)..Limit : text[i] = Quote /\ text[i - 1] # "\\"}

ScanString ==
  /\ Scans({Quote})
  /\ StringEnds(Ahead.at) # {}
  /\ AcceptLexeme("string", Min(StringEnds(Ahead.at)))

UnterminatedString ==
  /\ Scans({Quote})
  /\ StringEnds(Ahead.at) = {}
  /\ Fail
-----------------------------------------------------------------------------

\* One character of the table, or two where it says so; 0 if there are none.
SymbolLength(from) ==
  LET two == <<Char(from), Char(from + 1)>> \in SymbolTable
  IN IF <<Char(from)>> \in SymbolTable
     THEN IF Char(from) \in Ambiguous /\ two THEN 2 ELSE 1
     ELSE IF two THEN 2 ELSE 0

OtherStart ==
  /\ Running
  /\ ~AtEnd(text, Ahead)
  /\ First \notin WordCharacters \cup {Quote}
  /\ ~StartsNegative /\ ~StartsComment

ScanSymbol ==
  /\ OtherStart
  /\ SymbolLength(Ahead.at) > 0
  /\ LET to == Ahead.at + SymbolLength(Ahead.at) - 1
     IN Accept("symbol", Ahead.at, to, to + 1, FALSE)

UnknownToken ==
  /\ OtherStart
  /\ SymbolLength(Ahead.at) = 0
  /\ Fail
-----------------------------------------------------------------------------
\* Behind the last token: nothing but blanks, or the end itself.
OnlyBlanks ==
  /\ Running
  /\ AtEnd(text, Ahead)
  /\ file' = Ahead
  /\ outcome' = "scanned"
  /\ UNCHANGED <<text, atEof, tokens>>

Leave ==
  /\ outcome = "scanning"
  /\ atEof \/ file.at > Limit
  /\ outcome' = "scanned"
  /\ UNCHANGED <<text, file, atEof, tokens>>

Ended == outcome # "scanning" /\ UNCHANGED scanVars

InitScan ==
  /\ text \in Inputs
  /\ file = FileAtStart
  /\ atEof = FALSE
  /\ tokens = <<>>
  /\ outcome = "scanning"

ScanNext ==
  \/ ScanWord \/ ScanNumber \/ ScanNegative \/ ScanComment
  \/ ScanString \/ UnterminatedString
  \/ ScanSymbol \/ UnknownToken
  \/ OnlyBlanks \/ Leave
  \/ Ended

ScanSpec == InitScan /\ [][ScanNext]_scanVars
-----------------------------------------------------------------------------
\* inpfile_move() never moves over the end of the file, as it asserts; the
\* lines counted are those in front of the file's position; the tokens are in the
\* order of the text without an overlap, and none lies ahead of the position but one
\* that ends the text.
PositionIsKept ==
  /\ file.at <= Limit + 1
  /\ file.lines = Newlines(text, 1, file.at - 1)
  /\ \A k \in DOMAIN tokens : tokens[k].to < file.at \/ (atEof /\ tokens[k].to = Limit)
  /\ \A k, l \in DOMAIN tokens : k < l => tokens[k].to < tokens[l].from
=============================================================================
