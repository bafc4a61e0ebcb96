------------------------------- MODULE Parser -------------------------------
(***************************************************************************)
(* The parser at work on a file: parser_parse_file() of                    *)
(* src/parser/recursive_descent/core.c takes the file apart one outermost  *)
(* statement after the other. A goal other than a file is a single rule,   *)
(* which is how the tests of the parser use it.                            *)
(***************************************************************************)
EXTENDS ParseTypes

CONSTANTS
  Inputs,     \* pairs <<goal, sequence of tokens>>
  Acc(_, _)   \* the rules: what parser_acc_*() makes of a state

VARIABLES
  goal,     \* what is looked for
  s,        \* the state of the parser
  root,     \* the statements of the file so far
  outcome   \* "parsing", "parsed", "rejected" or "crashed"

vars == <<goal, s, root, outcome>>

Init ==
  /\ \E input \in Inputs : goal = input[1] /\ s = NewParser(input[2])
  /\ root = << >>
  /\ outcome = "parsing"

ParseStatement ==
  /\ goal = "file"
  /\ outcome = "parsing"
  /\ LET stmt == Acc("statement", s)
     IN  /\ ~Failed(stmt)
         /\ s' = stmt
         /\ root' = Append(root, stmt.node)
  /\ UNCHANGED <<goal, outcome>>

\* No statement is found: the file is fine if there is nothing left of it, else
\* the token that is left is an error. Not even then is the flag of the errors
\* that the statements had looked at.
EndFile ==
  /\ goal = "file"
  /\ outcome = "parsing"
  /\ LET rest == Acc("statement", s)
         atEnd == Lookahead(rest, 1) = Eof
     IN  /\ Failed(rest)
         /\ s' = IF atEnd \/ rest.crashed THEN rest
                 ELSE SyntaxError(NextToken(rest))
         /\ outcome' = IF rest.crashed THEN "crashed"
                       ELSE IF atEnd THEN "parsed" ELSE "rejected"
  /\ UNCHANGED <<goal, root>>

ParseRule ==
  /\ goal # "file"
  /\ outcome = "parsing"
  /\ s' = Acc(goal, s)
  /\ outcome' = IF s'.crashed THEN "crashed"
                ELSE IF Failed(s') THEN "rejected" ELSE "parsed"
  /\ root' = Optional(s')
  /\ UNCHANGED goal

Next == ParseStatement \/ EndFile \/ ParseRule

Spec == Init /\ [][Next]_vars
=============================================================================
