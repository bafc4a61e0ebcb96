------------------------------ MODULE InputText -----------------------------
(***************************************************************************)
(* The text of an input file and positions in it (src/inpstr.c,            *)
(* src/inpfile.c, src/inplocation.c). A text is a sequence of characters,  *)
(* each of one byte; a position is the number of a character, from 1 to    *)
(* one behind the last. Lines and columns count from zero.                 *)
(***************************************************************************)
EXTENDS Naturals, Sequences, FiniteSetsExt, SequencesExt

Newline == "\n"
Blanks == {" ", "\t", Newline, "\r"}

Newlines(text, from, to) == Cardinality({i \in from..to : text[i] = Newline})

\* The last position of the characters of a class from a position on; the one
\* before it if there are none.
RunEnd(text, from, class) ==
  LET outside == {i \in from..Len(text) : text[i] \notin class}
  IN IF outside = {} THEN Len(text) ELSE Min(outside) - 1

\* inpstr_init_from_source(): the positions where the lines begin.
LineStarts(text) ==
  <<1>> \o SetToSortSeq({i + 1 : i \in {j \in DOMAIN text : text[j] = Newline}}, <)

\* inpstr_ptr_to_linecol(): a line is searched among all but the last one.
LineColumn(text, p) ==
  LET starts == LineStarts(text)
      around == {k \in 1..(Len(starts) - 1) : starts[k] <= p /\ p < starts[k + 1]}
      k == IF around = {} THEN Len(starts) ELSE Min(around)
  IN [line |-> k - 1, column |-> p - starts[k]]

Location(text, from, to) ==
  [start |-> LineColumn(text, from), end |-> LineColumn(text, to)]
-----------------------------------------------------------------------------
(* The file's own position, and how many lines lie before it *)

FileAtStart == [at |-> 1, lines |-> 0]

\* Mutant: newlines are blanks like all others.
PastBlanks_ForgetsLines(text, f) == [f EXCEPT !.at = RunEnd(text, f.at, Blanks) + 1]

\* inpfile_acc_ws()
PastBlanks(text, f) ==
  LET end == RunEnd(text, f.at, Blanks)
  IN [at |-> end + 1, lines |-> f.lines + Newlines(text, f.at, end)]

AtEnd(text, f) == f.at > Len(text)

\* inpfile_move(): a count over no bytes is one over all that is left.
Moved(text, f, n) ==
  [at |-> f.at + n,
   lines |-> f.lines + Newlines(text, f.at, IF n = 0 THEN Len(text) ELSE f.at + n - 1)]
=============================================================================
