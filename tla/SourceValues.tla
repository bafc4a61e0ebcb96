---------------------------- MODULE SourceValues ----------------------------
(***************************************************************************)
(* What a function means, read from its source: numbers are numbers, an    *)
(* object is the sequence of its parts, a sum is a part and its index. An  *)
(* evaluation also keeps whether all of it stayed within what the types    *)
(* can hold (exact). The types of operands are those of the source, with   *)
(* the one rule that two integers are computed with in the smaller type.   *)
(***************************************************************************)
EXTENDS LlvmCode

CONSTANT
  Given   \* what a call of a function gives, an integer or a text

Numbers(base) ==
  LET n == Modulus(LlvmBase(base))
  IN IF base \in {"u8", "u32", "u64"} THEN 0 .. n - 1 ELSE -(n \div 2) .. n \div 2 - 1

\* May a value of one type become one of the other without being asked, and stay
\* the same number? A negative one does not survive being made wider.
Widens(from, to) == ByteSizes[from] < ByteSizes[to]
Stays(from, to, v) ==
  \/ from = to
  \/ {from, to} \subseteq FloatBases
  \/ /\ {from, to} \subseteq IntBases
     /\ v \in Numbers(to)
     /\ v < 0 => ~Widens(from, to)

\* The number of the target type with the same last bits.
Wrapped(to, v) ==
  CHOOSE n \in Numbers(to) : (n - v) % Modulus(LlvmBase(to)) = 0

SmallerType(a, b) == IF ByteSizes[a] >= ByteSizes[b] THEN b ELSE a
-----------------------------------------------------------------------------
\* The state of an evaluation: variables and their types, the value and its
\* type, the calls that were made.
Evaluation(types, env) ==
  [types |-> types, env |-> env, v |-> 0, type |-> "nil", calls |-> << >>, exact |-> TRUE]

Yields(s, v, type) == [s EXCEPT !.v = v, !.type = type]
Requires(s, condition) == [s EXCEPT !.exact = @ /\ condition]
Becomes(s, to) == Yields(Requires(s, Stays(s.type, to, s.v)), s.v, to)

Arithmetic(op, x, y) ==
  CASE op = "add" -> x + y [] op = "sub" -> x - y [] op = "mul" -> x * y
    [] op = "div" -> IF y = 0 THEN 0 ELSE x \div y
Compared(op, x, y) ==
  CASE op = "eq" -> x = y [] op = "ne" -> x # y
    [] op = "ge" -> x >= y [] op = "gt" -> x > y
    [] op = "le" -> x <= y [] op = "lt" -> x < y

\* Order and quotients are those of unsigned numbers.
Fit(op, x, y) ==
  /\ op \notin {"add", "sub", "mul", "eq", "ne"} => x >= 0 /\ y >= 0
  /\ op = "div" => y # 0

\* Strings are compared by their addresses.
OfTwo(s, op, x, xt, y, yt) ==
  LET small == IF xt = yt THEN xt ELSE SmallerType(xt, yt)
      stays == Stays(xt, small, x) /\ Stays(yt, small, y)
  IN IF xt \in {"bool", "string"}
     THEN Yields(Requires(s, xt # "string"), Compared(op, x, y), "bool")
     ELSE IF op \in Comparisons
     THEN Yields(Requires(s, stays /\ Fit(op, x, y)), Compared(op, x, y), "bool")
     ELSE LET n == Arithmetic(op, x, y) IN
          Yields(Requires(s, stays /\ Fit(op, x, y) /\ n \in Numbers(small)), n, small)

Explicit(s, to) ==
  CASE to # "string" -> Yields(Requires(s, s.v < 0 => ~Widens(s.type, to)), Wrapped(to, s.v), to)
    [] to = "string" /\ s.type = "bool" -> Yields(s, IF s.v THEN "true" ELSE "false", to)
    [] OTHER -> Yields(s, ToString(s.v), to)

InSum(sum, as, values) ==
  LET k == Matched(sum, as)
  IN [case |-> k, v |-> IF Object(Typedefs[sum].args[k + 1]) THEN values ELSE values[1]]
PartTypes(sum, as) ==
  LET base == Typedefs[sum].args[Matched(sum, as) + 1]
  IN IF Object(base) THEN Typedefs[base].args ELSE <<base>>
-----------------------------------------------------------------------------
RECURSIVE Evaluates(_, _)

\* The arguments, from left to right, as values of the types they are passed as.
RECURSIVE Evaluated(_, _, _, _)
Evaluated(s, args, types, values) ==
  LET k == Len(values) + 1
      a == Becomes(Evaluates(args[k], s), types[k])
  IN IF k > Len(args) THEN <<s, values>> ELSE Evaluated(a, args, types, Append(values, a.v))

PassedTypes(n) ==
  IF Functions[n.f].sum = "" THEN Functions[n.f].args ELSE PartTypes(Functions[n.f].sum, n.as)
Invoked(s, n) ==
  LET a == Evaluated(s, n.args, PassedTypes(n), << >>)
      passed == IF Functions[n.f].sum = "" THEN a[2]
                ELSE <<InSum(Functions[n.f].sum, n.as, a[2])>>
  IN Yields([a[1] EXCEPT !.calls = Append(@, <<n.f, passed>>)], Given[n.f], Functions[n.f].returns)

Constructed(s, n, base) ==
  LET types == IF Sum(base) THEN PartTypes(base, n.as) ELSE Typedefs[base].args
      a == Evaluated(s, n.args, types, << >>)
  IN Yields(a[1], IF Sum(base) THEN InSum(base, n.as, a[2]) ELSE a[2], base)

\* The case for the part that is there, or else the last one.
CaseFor(n, s) ==
  LET fits(k) == n.cases[k].base = Typedefs[s.types[n.x]].args[s.env[n.x].case + 1]
  IN CHOOSE k \in DOMAIN n.cases :
       IF \E j \in DOMAIN n.cases : fits(j) THEN fits(k) ELSE k = Len(n.cases)

\* The symbols of a case stand for the parts in their order, or one for all.
Bound(s, part, c) ==
  LET names == [k \in DOMAIN c.symbols |-> c.symbols[k][1]]
      at(x) == CHOOSE k \in DOMAIN names : names[k] = x
      base(x) == c.symbols[at(x)][2]
      value(x) == IF Object(c.base) /\ base(x) # c.base THEN part[at(x)] ELSE part
  IN [s EXCEPT !.env = [x \in ToSet(names) |-> value(x)] @@ @,
               !.types = [x \in ToSet(names) |-> base(x)] @@ @]

OnMatch(s, n) ==
  LET c == n.cases[CaseFor(n, s)]
      r == Evaluates(c.e, Bound(s, s.env[n.x].v, c))
  IN [r EXCEPT !.env = s.env, !.types = s.types]

\* A call that is assigned is not: the result of the call is dropped.
Assigned(s, n) ==
  LET base == s.types[n.x]
      r == IF n.e.kind = "construct" THEN Constructed(s, n.e, base)
           ELSE Becomes(Requires(Evaluates(n.e, s), n.e.kind # "invoke"), base)
  IN [r EXCEPT !.env = (n.x :> r.v) @@ @]

Evaluates(n, s) ==
  CASE n.kind = "whole" -> Yields(s, n.n, "i64")
    [] n.kind = "real" -> Yields(s, n.n, "f64")
    [] n.kind = "truth" -> Yields(s, n.b, "bool")
    [] n.kind = "text" -> Yields(s, n.s, "string")
    [] n.kind = "name" -> Yields(s, s.env[n.x], s.types[n.x])
    [] n.kind = "binary" ->
         LET l == Evaluates(n.l, s)
             r == Evaluates(n.r, l)
         IN OfTwo(r, n.op, l.v, l.type, r.v, r.type)
    [] n.kind = "unary" ->
         LET o == Evaluates(n.e, s)
         IN OfTwo(o, UnaryOps[n.op][1], o.v, o.type, UnaryOps[n.op][2], "i32")
    [] n.kind = "invoke" -> Invoked(s, n)
    [] n.kind = "convertTo" -> Explicit(Evaluates(n.e, s), n.base)
    [] n.kind = "member" ->
         Yields(s, s.env[n.x][n.k + 1], Typedefs[s.types[n.x]].args[n.k + 1])
    [] n.kind = "matchOn" -> OnMatch(s, n)
    [] n.kind = "set" -> Assigned(s, n)
    [] n.kind = "give" -> Becomes(Evaluates(n.e, s), s.types["result"])

\* types also holds the type of the result.
Meaning(statements, types, env) ==
  FoldLeft(LAMBDA s, n : Evaluates(n, s), Evaluation(types, env), statements)
=============================================================================
