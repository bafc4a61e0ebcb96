----------------------------- MODULE MCTypeStore -----------------------------
(* Modules of three statements over descriptions that are nested in and    *)
(* equal to one another, and operations that give the same types.          *)
EXTENDS TypeMeanings

A == Leaf("i8")
B == Leaf("u8")
C == Leaf("f32")
S == Leaf("string")
T == Leaf("T")
Prod(l, r) == Of(",", l, r)
Or(l, r) == Of("|", l, r)

Nested ==
  {Prod(A, B), Or(S, C), Prod(Prod(S, B), C), Or(Prod(A, B), C), Prod(C, Or(S, A)),
   Or(Or(S, Prod(A, B)), T), Prod(Prod(B, Or(S, C)), A), Prod(Anonymous(Prod(A, B)), C),
   Or(C, Anonymous(Or(A, S))), Anonymous(Or(S, Anonymous(Prod(B, C)))),
   Or(A, B), Or(C, Anonymous(Or(A, B))), Or(Prod(A, S), C)}

Statements ==
  {Variable(d) : d \in Nested} \cup {Define("T", Prod(A, B)), Define("U", Or(S, Prod(A, B)))}
  \cup {Function(Prod(A, B), C), Function(Or(S, C), Anonymous(Prod(C, S))), Function(C, B), Function(Prod(A, B), Or(A, B))}
Uses ==
  {Pattern(d) : d \in {Prod(A, B), Or(C, S), Or(S, Prod(A, B)), Prod(Prod(C, B), A),
                       Or(Anonymous(Prod(S, C)), A)}}
  \cup {Operate(",", <<A, B>>), Operate("|", <<S, C>>), Operate(",", <<C, S>>),
        Operate(",", <<B, C, A, S>>), Operate(",", <<S, C, B>>), Operate("|", <<TypeOf(1), S>>),
        Operate(",", <<A, TypeOf(1)>>), Operate(",", <<A, B, C>>)}

MCModuleTexts ==
  {<<a, b, c>> : a \in Statements, b \in Statements \cup Uses,
                 c \in Uses \cup {Operate("|", <<TypeOf(2), C, T>>)}}
=============================================================================
