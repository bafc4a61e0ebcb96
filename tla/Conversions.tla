---------------------------- MODULE Conversions ----------------------------
(***************************************************************************)
(* What the type checks promise, said without the comparison: which types  *)
(* fit which, what a value converted to, which warnings an assignment is   *)
(* due, and which matches are right.                                       *)
(***************************************************************************)
EXTENDS TypeChecks

RECURSIVE Body(_)

\* A type without the names of definitions around it.
Body(t) == IF Kind(t) = "defined" THEN Body(Type[t].type) ELSE t

\* Conversions of one elementary type to another, by what they are.
Sort(e) == IF IsInt(e) THEN "int" ELSE IF IsFloat(e) THEN "float" ELSE e

ConversionsFor(reason, literal) ==
  CASE reason = "pattern" -> {<<"int", "int">>, <<"float", "float">>}
    [] reason = "afterImplicit" ->
         {<<"int", "int">>, <<"int", "float">>, <<"int", "bool">>, <<"float", "float">>}
    [] reason = "implicit" ->
         {<<"int", "int">>, <<"int", "float">>, <<"int", "bool">>, <<"float", "float">>,
          <<"bool", "int">>}
    [] reason = "explicit" ->
         {<<"int", "int">>, <<"int", "float">>, <<"int", "bool">>, <<"float", "float">>,
          <<"float", "int">>, <<"bool", "int">>, <<"bool", "string">>}
         \cup (IF literal THEN {<<"int", "string">>, <<"float", "string">>} ELSE {})

\* A literal must not lose anything, a pattern no sign.
LeafFits(f, t, reason) ==
  LET from == Type[f].etype
      to == Type[t].etype
      integers == IsInt(from) /\ IsInt(to)
  IN \/ from = to
     \/ /\ <<Sort(from), Sort(to)>> \in ConversionsFor(reason, Type[f].constant)
        /\ integers /\ Type[f].constant => ~Narrows(from, to) /\ ~LosesSign(from, to)
        /\ integers /\ reason = "pattern" => ~LosesSign(from, to)

RECURSIVE Alternatives(_, _), Fits(_, _, _, _)

\* What a value may be to be of the type: the type, what it is defined as
\* and, where sums are open, what one of its operands may be.
Alternatives(t, inCall) ==
  LET inner == UNION {{[a EXCEPT !.deep = TRUE] : a \in Alternatives(o, inCall)} :
                        o \in ToSet(Type[t].operands)}
  IN {[type |-> t, deep |-> FALSE]} \cup
     CASE Kind(t) = "defined" -> Alternatives(Type[t].type, inCall)
       [] inCall /\ IsSum(t) -> inner
       [] OTHER -> {}

\* A type fits another if it fits one of its alternatives: it is that one, or
\* converts to it, or has operands that fit its operands one by one.
Fits(f, t, reason, inCall) ==
  \E a \in Alternatives(t, inCall) :
    LET from == Body(f)
        how == IF a.deep /\ reason # "pattern" THEN "afterImplicit" ELSE reason
    IN \/ from = a.type
       \/ /\ Kind(from) = "wildcard"
          /\ reason = "pattern" /\ Kind(a.type) # "operator"
       \/ /\ Kind(from) = "elementary" /\ Kind(a.type) = "elementary"
          /\ LeafFits(from, a.type, how)
       \/ /\ Kind(from) = "operator" /\ IsOperator(a.type, Type[from].op)
          /\ Len(Type[from].operands) = Len(Type[a.type].operands)
          /\ \A k \in DOMAIN Type[from].operands :
               Fits(Type[from].operands[k], Type[a.type].operands[k], how, inCall)

Elementary(t) == Kind(t) = "elementary"

\* Every check of an assignment, a call, a conversion or a return accepts
\* exactly the types that fit. A binary operation of elementary types is
\* accepted if the smaller one fits the bigger one, on whichever side it is,
\* and has the type of a variable of the bigger one; of other types it takes
\* the one the other fits as it is, which may be the type of a literal. A sign
\* is for numbers.
VerdictIsRight ==
  LET inCall == last.reason = "pattern" \/ last.flag = "call"
      fits == Fits(last.from, last.to, last.reason, inCall)
      back == Fits(last.to, last.from, last.reason, inCall)
      rightBigger == Rank(Type[last.from].etype) <= Rank(Type[last.to].etype)
  IN /\ last.kind \in {"assign", "call", "convert", "return"} => last.ok = fits
     /\ last.kind = "operation" =>
          IF Elementary(last.from) /\ Elementary(last.to)
          THEN IF rightBigger THEN last.ok = fits /\ (fits => last.type = Type[last.to].etype)
               ELSE last.ok = back /\ (back => last.type = Type[last.from].etype)
          ELSE /\ last.ok = (fits \/ back)
               /\ last.ok => last.type = IF fits THEN last.to ELSE last.from
     /\ last.kind = "unary" =>
          last.ok = (Elementary(last.from) /\ Sort(Type[last.from].etype) \in {"int", "float"})

\* The argument of a call of a sum becomes the operand it is, and is only
\* converted, to the last operand it fits, if there is none. (Operands that
\* are sums or products are left out: a comparison of those may forget that
\* it converted.)
ExactOperandWins ==
  last.kind = "call" /\ last.reason = "pattern" /\ last.ok =>
    LET operands == Type[last.to].operands
        exact == {k \in DOMAIN operands :
                    Type[Body(operands[k])].etype = Type[Body(last.from)].etype}
        fitting == {k \in DOMAIN operands : Fits(last.from, operands[k], "pattern", TRUE)}
    IN (\A k \in DOMAIN operands : Elementary(Body(operands[k]))) /\ Elementary(Body(last.from)) =>
         last.type = operands[IF exact # {} THEN CHOOSE k \in exact : \A l \in exact : k <= l
                              ELSE CHOOSE k \in fitting : \A l \in fitting : k >= l]

RECURSIVE Due(_, _)

\* The warnings the conversions of a value are due, from left to right.
Due(f, t) ==
  LET from == Body(f)
      to == Body(t)
      If(b, w) == IF b THEN <<[of |-> w, from |-> Type[from].etype, to |-> Type[to].etype]>>
                  ELSE <<>>
      silent == Type[from].constant \/ ~IsInt(Type[from].etype) \/ ~IsInt(Type[to].etype)
  IN IF Kind(from) = "operator"
     THEN FlattenSeq([k \in DOMAIN Type[from].operands |->
                        Due(Type[from].operands[k], Type[to].operands[k])])
     ELSE IF Kind(from) # "elementary" \/ silent THEN <<>>
     ELSE If(Narrows(Type[from].etype, Type[to].etype), "size")
          \o If(LosesSign(Type[from].etype, Type[to].etype), "sign")

\* An accepted assignment gives a warning for everything its own conversions
\* lose, the last one first, before any that earlier checks left behind.
AssignmentsWarn ==
  last.kind = "assign" /\ last.ok =>
    IsPrefix(Reverse(Due(last.from, last.to)), last.posted)

\* typecmp_ctx_set_flags() "sets bit flags for the next type comparison": what
\* a call opened is closed again when a value is returned.
ReturnsAreNotCalls ==
  last.kind = "return" => last.ok = Fits(last.from, last.to, "implicit", FALSE)
-----------------------------------------------------------------------------
(* Matches *)

\* A sum whose operands have no sums inside.
Flat(t) == IsSum(Body(t)) /\ Parts(t) = ToSet(Type[Body(t)].operands)
           /\ \A o \in Parts(t) : Parts(o) = {}

RECURSIVE Covers(_, _)

\* A pattern covers the values of a type. A wildcard stands for one value,
\* not for a product of several.
Covers(p, t) ==
  LET b == Body(t)
  IN IF Kind(b) = "elementary"
     THEN Kind(p) = "wildcard" \/ (Elementary(p) /\ Type[p].etype = Type[b].etype)
     ELSE /\ IsOperator(p, Type[b].op)
          /\ Len(Type[p].operands) = Len(Type[b].operands)
          /\ \A k \in DOMAIN Type[b].operands : Covers(Type[p].operands[k], Type[b].operands[k])

CoveredBy(case, t) == {o \in Parts(t) : Covers(case.pattern, o)}
CoveredBefore(i, cases, t) == UNION {CoveredBy(cases[j], t) : j \in 1..(i - 1)}

Accepted == last.covered /\ \A i \in DOMAIN last.cases : last.cases[i].says = "ok"

\* A match of a flat sum without matches inside is accepted if and only if its
\* cases cover all operands and each is of use: it covers something, and not
\* everything was covered before it. What is behind the first case at fault
\* is not looked at.
MatchesAreDecided ==
  last.kind = "match" /\ ~last.inner /\ Flat(last.target) =>
    LET t == last.target
        n == Len(last.cases)
        Wrong(i) == CoveredBy(last.cases[i], t) = {} \/ CoveredBefore(i, last.cases, t) = Parts(t)
    IN /\ Accepted <=> /\ \A i \in 1..n : ~Wrong(i)
                       /\ CoveredBefore(n + 1, last.cases, t) = Parts(t)
       /\ \A i, j \in 1..n : i < j /\ Wrong(i) => last.cases[j].says = "over"

\* In an accepted match of a flat sum whose cases, but for the last, each
\* cover one operand, every value runs a case whose pattern covers it.
ValuesReachTheirCase ==
  last.kind = "match" /\ ~last.inner /\ Flat(last.target) /\ Accepted =>
    LET operands == Type[Sum(last.target)].operands
        indices == CaseIndices(last.cases, last.target)
        single == \A i \in 1..(Len(last.cases) - 1) :
                    Cardinality(CoveredBy(last.cases[i], last.target)) = 1
    IN IndicesAreSet(indices) /\ single =>
         \A k \in DOMAIN operands :
           Covers(last.cases[CaseTaken(indices, k)].pattern, operands[k])

\* A case is reported useless only if "all parts have already been matched".
UselessMeansUseless ==
  last.kind = "match" /\ Flat(last.target) =>
    \A i \in DOMAIN last.cases :
      last.cases[i].says = "useless" =>
        CoveredBefore(i, last.cases, last.target) = Parts(last.target)
=============================================================================
