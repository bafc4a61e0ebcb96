----------------------------- MODULE TypeChecks -----------------------------
(***************************************************************************)
(* The checks of types in the second walk over a tree                      *)
(* (src/analyzer/typecheck.c, typecheck_matchexpr.c): assignments, calls,  *)
(* explicit conversions, returns and operations, most of which compare     *)
(* types, and match expressions, which collect the parts of a type their   *)
(* cases have matched. All of them share one record of comparisons and one *)
(* record of the match (ctx->matching_ctx).                                *)
(*                                                                         *)
(* A body is checked in the order of its callbacks; which constructs it    *)
(* has is left open. The cases of a match have expressions of one type:    *)
(* the sum type made of several is not modelled, and neither is the        *)
(* product a comma makes. The sets of types hold identities: comparing     *)
(* their members as identical leaves no trace a later check reads. A       *)
(* pattern is never itself a sum.                                          *)
(***************************************************************************)
EXTENDS TypeComparison, FiniteSets

CONSTANTS
  Variables,     \* types of what can be assigned to
  Values,        \* types of expressions
  Parameters,    \* declared argument types of functions and constructors
  Returned,      \* declared types of return values
  Targets,       \* types a match inspects
  Patterns,      \* types of the patterns of its cases
  MaxChecks,     \* bound: checks in a body of statements
  MaxCases,      \* bound: cases and inner matches in a body of matches
  MaxDepth       \* bound: match expressions in one another

VARIABLES
  body,      \* "statements", or a body of "matches": a bound of the model
  cmp,       \* g_typecmp_ctx
  matching,  \* ctx->matching_ctx
  open,      \* the match expressions around, the last is the innermost
  done,      \* the number of checks so far, of statements or of cases
  last       \* history: the last check, what it asked and what it decided

vars == <<body, cmp, matching, open, done, last>>
-----------------------------------------------------------------------------
(* Statements *)

\* What a check was asked and how it ended. type is what it gives the node,
\* posted the warnings it gave.
Outcome(kind, from, to, reason, flag, a, type, posted) ==
  [kind |-> kind, from |-> from, to |-> to, reason |-> reason, flag |-> flag,
   ok |-> a.ok, type |-> IF a.ok THEN type ELSE NoType, posted |-> posted]

Checked(kind, from, to, reason, flag, a, type, posted) ==
  /\ cmp' = IF posted = <<>> THEN a.g ELSE Drained(a.g)
  /\ last' = Outcome(kind, from, to, reason, flag, a, type, posted)

\* Mutant: only one warning is taken.
PendingWarnings_One(g) == IF g.warned /\ g.pending # <<>> THEN <<Last(g.pending)>> ELSE <<>>

\* typecheck_assignment() asks typecmp_ctx_have_warning() first.
PendingWarnings(g) == IF g.warned THEN Reverse(g.pending) ELSE <<>>

Assigned(a, left, right) ==
  Checked("assign", right, left, "implicit", "assignment", a, left,
          IF a.ok THEN PendingWarnings(a.g) ELSE <<>>)

Assign(left, right) ==
  Assigned(Compare(right, left, "implicit", SetFlags(cmp, "assignment")), left, right)

\* fncall.params_type: what the comparison matched to.
ParamsType(g, args) == IF g.matched = NoType THEN args ELSE g.matched

Called(a, args, declared, reason) ==
  Checked("call", args, declared, reason, "call", a, ParamsType(a.g, args), <<>>)

Call(args, declared) ==
  LET reason == IF IsSum(declared) THEN "pattern" ELSE "implicit"
  IN Called(Compare(args, declared, reason, SetFlags(cmp, "call")), args, declared, reason)

\* The call of an elementary type: a conversion the program asks for, of one
\* argument that is not an operation on types; else nothing is compared.
HasConversion(to) == Kind(to) = "elementary" /\ Rank(Type[to].etype) <= Rank("bool")
ExplicitConversion(arg, to) ==
  Checked("convert", arg, to, "explicit", cmp.flag,
          IF Kind(arg) = "operator" THEN Answer(FALSE, cmp)
          ELSE Compare(arg, to, "explicit", cmp),
          to, <<>>)

\* The declared type is compared to what was found, not the other way round.
Return(declared, found) ==
  Checked("return", declared, found, "implicit", cmp.flag,
          Compare(declared, found, "implicit", cmp), found, <<>>)

\* A type that is not that of a literal.
Plain(t) == IF Kind(t) = "elementary" /\ Type[t].constant THEN Type[t].etype ELSE t

\* Mutant: no matter which of the two is the bigger one.
RightIsTried_Always(left, right) == TRUE

BothElementary(left, right) == Kind(left) = "elementary" /\ Kind(right) = "elementary"

\* typecheck_do_type_conversion(): the smaller of two elementary types is
\* converted to the bigger one.
RightIsTried(left, right) ==
  BothElementary(left, right) => Rank(Type[right].etype) >= Rank(Type[left].etype)

\* Of two elementary types the result is no literal's any more. With another
\* type the elementary one stays what it is.
Common(a, type, left, right) ==
  [type |-> IF ~a.ok THEN NoType ELSE IF BothElementary(left, right) THEN Plain(type) ELSE type,
   g |-> a.g]
OrElseLeft(common, left, right) ==
  IF common.type # NoType THEN common
  ELSE Common(Compare(right, left, "implicit", common.g), left, left, right)
CommonType(left, right, g) ==
  OrElseLeft(IF RightIsTried(left, right)
             THEN Common(Compare(left, right, "implicit", g), right, left, right)
             ELSE [type |-> NoType, g |-> g],
             left, right)

Operated(common, left, right) ==
  Checked("operation", left, right, "implicit", cmp.flag,
          Answer(common.type # NoType, common.g), common.type, <<>>)

Operation(left, right) == Operated(CommonType(left, right, cmp), left, right)

\* typecheck_unaryop(): signs and steps, of numbers only; nothing is compared.
IsNumeric(t) == Kind(t) = "elementary" /\ (IsInt(Type[t].etype) \/ IsFloat(Type[t].etype))
UnaryOperation(t) ==
  Checked("unary", t, t, "implicit", cmp.flag, Answer(IsNumeric(t), cmp), t, <<>>)

\* What a check may be about: an expression, or what was checked last.
Expressions ==
  Values \cup IF last.kind \in {"operation", "unary", "convert"} /\ last.ok
              THEN {last.type} ELSE {}

Statement ==
  /\ body = "statements"
  /\ done < MaxChecks
  /\ done' = done + 1
  /\ \/ \E left \in Variables, right \in Expressions : Assign(left, right)
     \/ \E args \in Expressions, declared \in Parameters : Call(args, declared)
     \/ \E arg \in Expressions, to \in Variables :
          HasConversion(to) /\ ExplicitConversion(arg, to)
     \/ \E declared \in Returned, found \in Expressions : Return(declared, found)
     \/ \E left, right \in Expressions : Operation(left, right)
     \/ \E t \in Expressions : UnaryOperation(t)
  /\ UNCHANGED <<body, matching, open>>
-----------------------------------------------------------------------------
(* Match expressions *)

RECURSIVE Parts(_)

\* The parts of a type a match must cover: the operands of its sums, however
\* deep, a sum inside of a sum by its own operands.
Parts(t) ==
  LET Part(o) == IF IsSum(t) /\ ~IsSum(o) THEN {o} ELSE Parts(o)
  IN CASE Kind(t) = "defined" -> Parts(Type[t].type)
       [] Kind(t) = "operator" -> UNION {Part(o) : o \in ToSet(Type[t].operands)}
       [] Kind(t) = "elementary" -> {}

NewMatching(t) == [parts |-> Parts(t), matched |-> {}, lastMatched |-> NoType, over |-> FALSE]

SetMatched(m, o, p) ==
  IF IsSum(o) \/ o \in m.matched THEN m
  ELSE [m EXCEPT !.matched = @ \cup {o},
                 !.lastMatched = IF Kind(p) \in {"wildcard", "operator"} THEN o ELSE p]

RECURSIVE PatternMatches(_, _, _)

\* pattern_match_types(): whether the pattern matches the type, and the parts
\* it matched on the way, also if it does not match in the end.
PatternMatches(p, t, m) ==
  LET Both(so, k) ==
        IF so.ok THEN PatternMatches(Type[p].operands[k], Type[t].operands[k], so.m) ELSE so
      Each(so, o) ==
        LET a == PatternMatches(p, o, so.m)
        IN IF a.ok THEN [ok |-> TRUE, m |-> SetMatched(a.m, o, p)] ELSE [so EXCEPT !.m = a.m]
  IN CASE Kind(t) = "defined" -> PatternMatches(p, Type[t].type, m)
       [] IsSum(t) -> FoldLeft(Each, [ok |-> FALSE, m |-> m], Type[t].operands)
       [] Kind(t) = "operator" /\ ~IsSum(t) ->
            IF IsOperator(p, Type[t].op) /\ Len(Type[p].operands) = Len(Type[t].operands)
            THEN FoldLeft(Both, [ok |-> TRUE, m |-> m], [k \in 1..Len(Type[t].operands) |-> k])
            ELSE [ok |-> FALSE, m |-> m]
       [] Kind(t) = "elementary" ->
            [ok |-> \/ Kind(p) = "wildcard"
                    \/ Kind(p) = "elementary" /\ Type[p].etype = Type[t].etype,
             m |-> m]

\* On the way down, pattern_matching_ctx_init(): whatever the record held is
\* gone, also if another match is still open.
EnterMatch(t) ==
  /\ body = "matches"
  /\ Len(open) < MaxDepth
  /\ done < MaxCases /\ (done > 0 => open # <<>>)
  /\ matching' = NewMatching(t)
  /\ open' = Append(open, [target |-> t, cases |-> <<>>, inner |-> FALSE, due |-> FALSE])
  /\ done' = IF open = <<>> THEN done ELSE done + 1
  /\ last' = [kind |-> "enter"]
  /\ UNCHANGED <<body, cmp>>

\* Mutant: parts this case matches count as matched before it.
CaseVerdict_ComparedTooLate(p, t, m) ==
  LET a == PatternMatches(p, t, m)
      useless == a.m.matched = a.m.parts /\ m.matched # {}
  IN IF m.over THEN [says |-> "over", m |-> m]
     ELSE [says |-> IF ~a.ok THEN "mismatch" ELSE IF useless THEN "useless" ELSE "ok",
           m |-> [a.m EXCEPT !.over = ~a.ok \/ useless]]

\* What a case is told: nothing once its match is over, and it is useless
\* when all parts were matched before it.
CaseVerdict(p, t, m) ==
  LET a == PatternMatches(p, t, m)
      useless == m.matched = m.parts
  IN IF m.over THEN [says |-> "over", m |-> m]
     ELSE [says |-> IF ~a.ok THEN "mismatch" ELSE IF useless THEN "useless" ELSE "ok",
           m |-> [a.m EXCEPT !.over = ~a.ok \/ useless]]

\* typecheck_matchcase(), after the pattern and the expression of the case.
CheckCase(p) ==
  LET match == Last(open)
      v == CaseVerdict(p, match.target, matching)
      case == [pattern |-> p, says |-> v.says,
               matched |-> IF v.says = "ok" THEN v.m.lastMatched ELSE NoType]
  IN /\ open # <<>>
     /\ done < MaxCases
     /\ done' = done + 1
     /\ matching' = v.m
     /\ open' = Append(Front(open), [match EXCEPT !.cases = Append(@, case), !.due = FALSE])
     /\ last' = [kind |-> "case", says |-> v.says, inner |-> match.inner]
     /\ UNCHANGED <<body, cmp>>

Covered(m) == m.parts \subseteq m.matched

\* typecheck_matchexpr(), behind its last case. inner remembers that a match
\* was inside of this one, due that it was in a case yet to be checked.
LeaveMatch ==
  LET match == Last(open)
      around == Front(open)
  IN /\ open # <<>>
     /\ match.cases # <<>> /\ ~match.due
     /\ open' = IF around = <<>> THEN <<>>
                ELSE Append(Front(around), [Last(around) EXCEPT !.inner = TRUE, !.due = TRUE])
     /\ last' = [kind |-> "match", target |-> match.target, cases |-> match.cases,
                 covered |-> Covered(matching), inner |-> match.inner]
     /\ matching' = [matching EXCEPT !.parts = {}, !.matched = {}]
     /\ UNCHANGED <<body, cmp, done>>
-----------------------------------------------------------------------------
(* What becomes of the cases of a match (src/ast/matchexpr.c and           *)
(* src/ir/rir_process_match.c). A value of a sum carries the index of its  *)
(* operand.                                                                *)

RECURSIVE Sum(_)
Sum(t) == IF Kind(t) = "defined" THEN Sum(Type[t].type) ELSE t

\* type_is_childof()
OperandIndex(c, t) ==
  LET operands == Type[Sum(t)].operands
      same == {k \in DOMAIN operands : Compare(operands[k], c, "identical", NewContext).ok}
  IN IF same = {} THEN 0 ELSE CHOOSE k \in same : \A l \in same : k <= l

\* ast_matchexpr_cases_indices_set() fails unless every case has an index of
\* its own.
CaseIndices(cases, t) == [i \in DOMAIN cases |-> OperandIndex(cases[i].matched, t)]
IndicesAreSet(indices) ==
  /\ \A i \in DOMAIN indices : indices[i] # 0
  /\ \A i, j \in DOMAIN indices : indices[i] = indices[j] => i = j

\* Mutant: the first case is the one without a comparison.
CaseTaken_FirstUncompared(indices, k) ==
  LET hit == {i \in DOMAIN indices : indices[i] = k /\ i > 1}
  IN IF hit = {} THEN 1 ELSE CHOOSE i \in hit : \A j \in hit : i <= j

\* The case that runs for a value with the operand k: every case but the last
\* is behind a comparison of its index.
CaseTaken(indices, k) ==
  LET n == Len(indices)
      hit == {i \in 1..(n - 1) : indices[i] = k}
  IN IF hit = {} THEN n ELSE CHOOSE i \in hit : \A j \in hit : i <= j

-----------------------------------------------------------------------------
Init ==
  /\ body \in {"statements", "matches"}
  /\ cmp = NewContext
  /\ matching = [parts |-> {}, matched |-> {}, lastMatched |-> NoType, over |-> FALSE]
  /\ open = <<>>
  /\ done = 0
  /\ last = [kind |-> "none"]

Next ==
  \/ Statement
  \/ \E t \in Targets : EnterMatch(t)
  \/ \E p \in Patterns : CheckCase(p)
  \/ LeaveMatch

Spec == Init /\ [][Next]_vars
=============================================================================
