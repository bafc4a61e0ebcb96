------------------------------ MODULE MCLexer -------------------------------
(***************************************************************************)
(* Texts for the scanner: all short ones over a few alphabets, one for     *)
(* each part of it. What it makes of the texts in ReadOn is read by the    *)
(* parser's attempts (Speculation), which see the kinds of the tokens.     *)
(***************************************************************************)
EXTENDS LexicalGrammar, Speculation

CONSTANT ReadOn

Over(alphabet, n) == UNION {[1..k -> alphabet] : k \in 0..n}

\* A call, a generic type declaration, and tokens without a value.
MCReadOn ==
  {<<"a", "(", "1", ")">>, <<"c", " ", "d">>, <<"(", Newline, ")">>}

MCInputs ==
  Over({"a", "0", "1", ".", "-", " "}, 5) \cup
  Over({"=", ">", "-", "1", "&", "("}, 4) \cup
  Over({"i", "f", "_", "1", "\n"}, 4) \cup
  Over({Quote, "\\", "/", "a", Newline}, 5) \cup MCReadOn

MCKeywords == {<<"i", "f">>}

MCTexts ==
  {<<"identifier", "symbol", "integer", "symbol">>, <<"identifier", "identifier">>,
   <<"symbol", "symbol">>}

Kinds == [k \in DOMAIN tokens |-> tokens[k].kind]
Unread == s.tokens = << >>

BeginReading ==
  /\ outcome = "scanned" /\ text \in ReadOn /\ Unread
  /\ Kinds \in Texts
  /\ s' = NewStream(Kinds)
  /\ UNCHANGED <<before, heard>>

Scan == ScanNext /\ UNCHANGED vars
Read == (BeginReading \/ (~Unread /\ Next)) /\ UNCHANGED scanVars

InitText == InitScan /\ s = NewStream(<< >>) /\ before = << >> /\ heard = << >>
SpecText == InitText /\ [][Scan \/ Read]_<<scanVars, vars>>
=============================================================================
