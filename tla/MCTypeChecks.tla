---------------------------- MODULE MCTypeChecks ----------------------------
(* Types for TLC: elementary types of every kind and both signs, literals, *)
(* definitions, sums and products, and the patterns of matches.            *)
EXTENDS Conversions

Elem(e) == [kind |-> "elementary", etype |-> e, constant |-> FALSE]
Literal(e) == [kind |-> "elementary", etype |-> e, constant |-> TRUE]
Def(t) == [kind |-> "defined", type |-> t]
Operator(op, ts) == [kind |-> "operator", op |-> op, operands |-> ts]

MCPlain == {"i8", "u8", "i64", "u64", "f32", "f64", "string", "bool", "nil"}

MCType ==
  [e \in MCPlain |-> Elem(e)] @@
  [u8c |-> Literal("u8"), u64c |-> Literal("u64"), f32c |-> Literal("f32"),
   boolc |-> Literal("bool")] @@
  [Count |-> Def("i64"),
   Pair |-> Def("i64,u8"),
   Text |-> Def("Count|string"),
   Three |-> Def("i64|string|bool")] @@
  ("_" :> [kind |-> "wildcard"]) @@
  ("i64,u8" :> Operator("product", <<"i64", "u8">>)) @@
  ("u8,i8" :> Operator("product", <<"u8", "i8">>)) @@
  ("i64,string" :> Operator("product", <<"i64", "string">>)) @@
  ("i8|u64" :> Operator("sum", <<"i8", "u64">>)) @@
  ("u8|i64|f64" :> Operator("sum", <<"u8", "i64", "f64">>)) @@
  ("Count|string" :> Operator("sum", <<"Count", "string">>)) @@
  ("Pair|bool" :> Operator("sum", <<"Pair", "bool">>)) @@
  ("i64|string|bool" :> Operator("sum", <<"i64", "string", "bool">>)) @@
  ("(i64,u8)|(i64,string)|bool" :>
     Operator("sum", <<"i64,u8", "i64,string", "bool">>)) @@
  ("(i8|u64),(Count|string)" :> Operator("product", <<"i8|u64", "Count|string">>)) @@
  ("string|(i8|u64)" :> Operator("sum", <<"string", "i8|u64">>)) @@
  ("i64|u64|f64|string" :> Operator("sum", <<"i64", "u64", "f64", "string">>)) @@
  ("i64|f64|string" :> Operator("sum", <<"i64", "f64", "string">>)) @@
  ("i64,_" :> Operator("product", <<"i64", "_">>))

MCVariables == {"u8", "u64", "f32", "string", "bool", "Pair", "u8|i64|f64"}
MCValues == {"i8", "i64", "u64", "bool", "u8c", "u64c", "f32c", "Count", "Pair",
             "u8,i8", "u8|i64|f64", "Text"}
MCParameters == {"i8", "i64,u8", "i8|u64", "u8|i64|f64", "Count|string", "Pair|bool",
                 "string|(i8|u64)"}
MCReturned == {"i8", "u64", "bool", "Pair", "u8|i64|f64"}

MCTargets == {"Three", "(i64,u8)|(i64,string)|bool", "Text", "string|(i8|u64)",
              "(i8|u64),(Count|string)"}
MCPatterns == {"_", "i64", "string", "bool", "i64,u8", "i64,_"}

\* The comparisons of test/types/test_types.c, in the order of its tests.
MatchedInCall(f, t) ==
  LET a == Compare(f, t, "pattern", SetFlags(NewContext, "call"))
  IN IF a.ok THEN a.g.matched ELSE NoType

ASSUME TypeTestsPass ==
  /\ \A t \in {"i8", "string"}, reason \in {"implicit", "identical"} :
       Compare(t, t, reason, NewContext).ok
  /\ ~Compare("i8", "i64", "identical", NewContext).ok
  /\ \A t \in {"u64", "i64", "f64", "string"} : MatchedInCall(t, "i64|u64|f64|string") = t
  /\ MatchedInCall("i8", "i64|f64|string") = "i64"
=============================================================================
