---------------------------- MODULE TypeMeanings ----------------------------
(***************************************************************************)
(* What the types of a module should be, read from its text: a description *)
(* means an operator on the meanings of its parts, in which parts with the *)
(* same operator are dissolved.                                            *)
(***************************************************************************)
EXTENDS TypeStore, FiniteSetsExt

Atom(name) == [op |-> "none", name |-> name, parts |-> << >>]
Meant(op, parts) == [op |-> op, name |-> "", parts |-> parts]
Dissolved(op, m) == IF m.op = op THEN m.parts ELSE <<m>>

RECURSIVE Meaning(_)
Meaning(n) ==
  CASE n.kind = "leaf" -> Atom(n.base)
    [] n.kind = "anonymous" -> Meaning(n.of)
    [] n.kind = "op" -> Meant(n.op, Dissolved(n.op, Meaning(n.l)) \o Dissolved(n.op, Meaning(n.r)))

\* Of a statement, the types of earlier statements included.
RECURSIVE MeaningOf(_, _)
MeaningOf(text, k) ==
  LET t == text[k]
      operand(x) == IF x.kind = "leaf" THEN Atom(x.base) ELSE MeaningOf(text, x.statement)
  IN CASE t.do = "define" -> Atom(t.name)
       [] t.do \in {"variable", "pattern"} -> Meaning(t.of)
       [] t.do = "function" -> Meant("->", <<Meaning(t.args), Meaning(t.of)>>)
       [] t.do = "operate" ->
            Meant(t.op, FoldLeft(LAMBDA ps, x : ps \o Dissolved(t.op, operand(x)), << >>, t.operands))

\* What a type is now.
RECURSIVE Denotes(_, _)
Denotes(s, t) ==
  IF IsMade(t)
  THEN Meant(OpOf(s, t), [k \in DOMAIN OperandsOf(s, t) |-> Denotes(s, OperandsOf(s, t)[k])])
  ELSE Atom(t.base)
-----------------------------------------------------------------------------
(* Which modules have types that are mistaken for others *)

RECURSIVE Within(_)
Within(m) == {m} \cup UNION {Within(m.parts[k]) : k \in DOMAIN m.parts}
Operators(m) == {o \in Within(m) : o.op # "none"}

\* The types a description asks for, those of parenthesised parts first.
RECURSIVE Parenthesised(_)
Parenthesised(n) ==
  CASE n.kind = "leaf" -> {}
    [] n.kind = "anonymous" -> Operators(Meaning(n.of)) \cup Parenthesised(n.of)
    [] n.kind = "op" -> Parenthesised(n.l) \cup Parenthesised(n.r)

Descriptions(t) ==
  CASE t.do = "function" -> {t.args, t.of}
    [] t.do = "operate" -> {}
    [] OTHER -> {t.of}
Described(t) == UNION {Operators(Meaning(d)) : d \in Descriptions(t)}
Asked(t) == Described(t) \cup UNION {Parenthesised(d) : d \in Descriptions(t)}

\* An operation makes the type of its first two operands longer and longer.
Lengthened(m) == {Meant(m.op, SubSeq(m.parts, 1, n)) : n \in 2..(Len(m.parts) - 1)}
TypesOf(text, k) ==
  LET m == MeaningOf(text, k)
  IN Operators(m) \cup Asked(text[k]) \cup (IF text[k].do = "operate" THEN Lengthened(m) ELSE {})

\* All operators look the same to a description, and it does not look to the end.
RECURSIVE Begins(_, _)
Begins(m, n) ==
  IF m.op = "none" THEN m = n
  ELSE /\ Len(m.parts) <= Len(n.parts)
       /\ \A k \in DOMAIN m.parts : Begins(m.parts[k], n.parts[k])

RECURSIVE Words(_)
Words(m) ==
  IF m.op = "none" THEN <<m.name>>
  ELSE FoldLeft(LAMBDA ws, p : IF ws = << >> THEN Words(p) ELSE Append(ws, m.op) \o Words(p),
                << >>, m.parts)

\* No type is mistaken for another one: a description begins no other type, no two
\* types have the same name, and no operation makes a type longer that is another
\* statement's, too.
Distinct(text) ==
  LET all == UNION {TypesOf(text, k) : k \in DOMAIN text}
      others(k) == UNION {TypesOf(text, j) : j \in DOMAIN text \ {k}}
      begins(ms, ts) == \E m \in ms, t \in ts : m # t /\ Begins(m, t)
      extends(x, op) == x.kind = "typeOf" /\ MeaningOf(text, x.statement).op = op
  IN /\ \A t \in all, u \in all : Words(t) = Words(u) => t = u
     /\ \A k \in DOMAIN text :
          /\ ~begins(Described(text[k]), all)
          /\ ~begins(Asked(text[k]), others(k))
          /\ text[k].do = "operate" =>
               /\ Lengthened(MeaningOf(text, k)) \cap others(k) = {}
               /\ \A n \in DOMAIN text[k].operands : ~extends(text[k].operands[n], text[k].op)
-----------------------------------------------------------------------------
LookedUp(t) == t.do \in {"variable", "pattern"} \/ (t.do = "operate" /\ Len(t.operands) = 2)

\* In a module without mistakable types, whatever the order in which types come up:
\* each declaration, pattern and operation has the type its text says, then and
\* later; the nodes of a description get the type of the description; and what
\* means the same has the same type, not an equal one.
TypesSayWhatTheyMean ==
  Distinct(declared) =>
    \A k \in DOMAIN given :
      /\ given[k] # NoneYet => Denotes(store, given[k]) = MeaningOf(declared, k)
      /\ checked[k] # NoneYet => Denotes(store, checked[k]) = Meaning(declared[k].of)
      /\ \A j \in DOMAIN given :
           /\ given[j] # NoneYet /\ given[k] # NoneYet
           /\ LookedUp(declared[j]) /\ LookedUp(declared[k])
           /\ MeaningOf(declared, j) = MeaningOf(declared, k)
           => given[j] = given[k]

\* What type_equals_ast_node() says of itself, as it answers the lookup of a variable's
\* description: the type and the node describe the same type.
DescribedIsMeant ==
  \A k \in DOMAIN given :
    declared[k].do = "variable" /\ given[k] # NoneYet =>
      Denotes(store, given[k]) = Meaning(declared[k].of)
=============================================================================
