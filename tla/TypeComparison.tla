--------------------------- MODULE TypeComparison ---------------------------
(***************************************************************************)
(* How the type checker compares two types                                 *)
(* (src/types/type_comparisons.c). A comparison asks whether a value of    *)
(* one type may be used where another is expected, for a reason, and keeps *)
(* its side results in one record of the thread, g_typecmp_ctx: what was   *)
(* matched, whether that took a conversion, which warnings are due. Every  *)
(* operator here takes that record and hands the next one on, so that a    *)
(* module above sees what a comparison leaves behind for the next.         *)
(*                                                                         *)
(* A type is its identity, as the compiler compares pointers. Type gives   *)
(* what it is:                                                             *)
(*   [kind: "elementary", etype, constant], [kind: "defined", type],       *)
(*   [kind: "operator", op, operands] and [kind: "wildcard"].              *)
(* Names of defined types are unique. Texts are left out: a warning is the *)
(* conversion it warns of.                                                 *)
(***************************************************************************)
EXTENDS Integers, Sequences, SequencesExt

CONSTANT
  Type    \* every type of the program, by its identity

NoType == "none"
Kind(t) == Type[t].kind
IsOperator(t, op) == Kind(t) = "operator" /\ Type[t].op = op
IsSum(t) == IsOperator(t, "sum")
-----------------------------------------------------------------------------
(* Elementary types: the order of their enum decides what they are *)

Etypes == <<"i8", "u8", "i16", "u16", "i32", "u32", "i64", "u64", "int", "uint",
            "f32", "f64", "string", "bool", "nil">>
Rank(e) == CHOOSE k \in 1..Len(Etypes) : Etypes[k] = e
IsInt(e) == Rank(e) <= Rank("uint")
IsFloat(e) == e \in {"f32", "f64"}
IsUnsigned(e) == Rank(e) % 2 = 0
ByteSize(e) == CASE e \in {"i8", "u8"} -> 1
                 [] e \in {"i16", "u16"} -> 2
                 [] e \in {"i32", "u32"} -> 4
                 [] e \in {"i64", "u64", "int", "uint"} -> 8
Narrows(from, to) == ByteSize(from) > ByteSize(to)
LosesSign(from, to) == ~IsUnsigned(from) /\ IsUnsigned(to)
-----------------------------------------------------------------------------
(* The record of the comparisons *)

NewContext ==
  [needsReset |-> FALSE, flag |-> "none", converted |-> FALSE,
   matched |-> NoType, error |-> FALSE, warned |-> FALSE, pending |-> <<>>,
   count |-> 0]

\* count never comes back to zero once a comparison has raised it.
Reset(g) ==
  LET fresh == IF g.needsReset /\ g.count <= 0 THEN NewContext ELSE g
  IN [fresh EXCEPT !.count = @ + 1]

SetFlags(g, flag) == [Reset(g) EXCEPT !.flag = flag]

Counted(g, d) == [g EXCEPT !.count = @ + d]
Answer(ok, g) == [ok |-> ok, g |-> g]
Refuse(g) == Answer(FALSE, [g EXCEPT !.needsReset = TRUE])
Explain(g) == Refuse([g EXCEPT !.error = TRUE])
Matches(t, g) == Answer(TRUE, [g EXCEPT !.matched = t, !.needsReset = TRUE, !.converted = FALSE])
Converts(t, g) == Answer(TRUE, [g EXCEPT !.matched = t, !.converted = TRUE])
Warn(w, g) == [g EXCEPT !.pending = Append(@, w), !.warned = TRUE]

\* The warnings that are due, the newest first.
Drained(g) == [g EXCEPT !.pending = <<>>]
-----------------------------------------------------------------------------
(* Elementary against elementary *)

CompareInts(f, t, reason, g) ==
  LET from == Type[f].etype
      to == Type[t].etype
      warns == reason # "explicit"
      narrowed == IF Narrows(from, to) /\ warns
                  THEN Warn([of |-> "size", from |-> from, to |-> to], g) ELSE g
      unsigned == IF LosesSign(from, to) /\ warns
                  THEN Warn([of |-> "sign", from |-> from, to |-> to], narrowed) ELSE narrowed
  IN IF Type[f].constant /\ Narrows(from, to) THEN Explain(g)
     ELSE IF LosesSign(from, to) /\ (Type[f].constant \/ reason = "pattern")
     THEN Explain(narrowed)
     ELSE Converts(t, unsigned)

\* What is convertible besides one integer to another.
Convertible(f, t, reason) ==
  LET from == Type[f].etype
      to == Type[t].etype
      toString == to = "string" /\ reason = "explicit"
  IN \/ /\ IsInt(from)
        /\ reason # "pattern"
        /\ IsFloat(to) \/ to = "bool" \/ (toString /\ Type[f].constant)
     \/ /\ IsFloat(from)
        /\ \/ IsFloat(to)
           \/ (IsInt(to) /\ reason = "explicit")
           \/ (toString /\ Type[f].constant)
     \/ /\ from = "bool"
        /\ reason \notin {"pattern", "afterImplicit"}
        /\ IsInt(to) \/ toString

CompareElementary(f, t, reason, g) ==
  LET from == Type[f].etype
      to == Type[t].etype
  IN IF from = to THEN Matches(f, g)
     ELSE IF reason = "identical" THEN Refuse(g)
     ELSE IF IsInt(from) /\ IsInt(to) THEN CompareInts(f, t, reason, g)
     ELSE IF Convertible(f, t, reason) THEN Converts(t, g)
     ELSE Explain(g)
-----------------------------------------------------------------------------
RECURSIVE Compare(_, _, _, _)

\* The reason for comparing to the operands of a sum: outside of patterns one
\* conversion, taking a side of the sum, has already happened.
Inside(reason) == IF reason = "pattern" THEN "pattern" ELSE "afterImplicit"

\* Mutant: the first conversion is kept.
Took_FirstConversion(so, o, a) ==
  [exact |-> a.ok /\ ~a.g.converted,
   operand |-> IF a.ok /\ (so.operand = NoType \/ ~a.g.converted) THEN o ELSE so.operand,
   g |-> a.g]

Took(so, o, a) ==
  [exact |-> a.ok /\ ~a.g.converted, operand |-> IF a.ok THEN o ELSE so.operand, g |-> a.g]
TookOperand(so) ==
  IF so.operand = NoType THEN Answer(FALSE, so.g) ELSE Matches(so.operand, so.g)

\* The operand of a sum that takes the type: the first one that takes it
\* without a conversion, else the last one that takes it at all.
CompareToSum(f, t, reason, g) ==
  LET Try(so, o) == IF so.exact THEN so ELSE Took(so, o, Compare(f, o, Inside(reason), so.g))
  IN TookOperand(FoldLeft(Try, [exact |-> FALSE, operand |-> NoType, g |-> g],
                          Type[t].operands))

CompareOperators(f, t, reason, g) ==
  LET from == Type[f].operands
      to == Type[t].operands
      Both(so, k) == IF so.ok THEN Compare(from[k], to[k], reason, so.g) ELSE so
  IN IF Type[f].op # Type[t].op \/ Len(from) # Len(to) THEN Refuse(g)
     ELSE FoldLeft(Both, Answer(TRUE, g), [k \in DOMAIN to |-> k])

CompareSameKind(f, t, reason, g) ==
  CASE Kind(f) = "operator" -> CompareOperators(f, t, reason, g)
    [] Kind(f) = "elementary" -> CompareElementary(f, t, reason, g)
    [] OTHER -> Answer(FALSE, g)

\* What type_category_check() says of an answer it got: yes if the types
\* compare, else no.
Says(a, yes, no) == [says |-> IF a.ok THEN yes ELSE no, g |-> a.g]
SaysOfSum(a, no) == Says(a, IF a.g.converted THEN "equal" ELSE "convertable", no)

\* type_category_check(): what can be said before the kinds are compared. A
\* definition stands for what it defines, a sum for its operands if the type
\* is the argument of a call or the reason is a pattern.
CategoryCheck(f, t, reason, g) ==
  LET undecided == IF Kind(f) = Kind(t) THEN "continue" ELSE "different"
      wild == reason = "pattern" /\ Kind(f) = "wildcard" /\ Kind(t) # "operator"
      unfold == reason # "identical" /\ ~wild
      unfoldTo == unfold /\ Kind(t) = "defined" /\ (reason = "pattern" \/ Kind(f) # "defined")
      unfoldFrom == unfold /\ ~unfoldTo /\ Kind(f) = "defined"
      open == /\ unfold /\ ~unfoldTo /\ ~unfoldFrom
              /\ IsSum(t)
              /\ g.flag = "call" \/ reason = "pattern"
  IN CASE wild -> [says |-> "equal", g |-> g]
       [] unfoldTo -> Says(Compare(f, Type[t].type, reason, g), "equal", "different")
       [] unfoldFrom -> Says(Compare(Type[f].type, t, reason, g), "equal", undecided)
       [] open -> SaysOfSum(CompareToSum(f, t, reason, g), undecided)
       [] OTHER -> [says |-> undecided, g |-> g]

Decided(c, f, t, reason) ==
  CASE c.says = "equal" -> Answer(TRUE, [Counted(c.g, -1) EXCEPT !.needsReset = TRUE])
    [] c.says = "convertable" -> Answer(TRUE, Counted(c.g, 1))
    [] c.says = "different" -> Refuse(Counted(c.g, 1))
    [] c.says = "continue" -> [CompareSameKind(f, t, reason, c.g) EXCEPT !.g = Counted(@, 1)]

\* type_compare()
Compare(f, t, reason, g) ==
  IF f = t THEN Matches(t, Reset(g))
  ELSE Decided(CategoryCheck(f, t, reason, Reset(g)), f, t, reason)
=============================================================================
