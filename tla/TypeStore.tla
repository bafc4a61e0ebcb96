------------------------------ MODULE TypeStore ------------------------------
(***************************************************************************)
(* The types of a module: the set they are kept in (module.c, type_set.c), *)
(* how a description is looked up in it or becomes a new type (type.c,     *)
(* ast_type_traversal.c), and the types of commas and of matches with      *)
(* several results.                                                        *)
(*                                                                         *)
(* A type is Base(name), elementary or declared, or Made(k), an operator   *)
(* with its operands in types[k], which may change. The set finds a type   *)
(* under the name it had when it was added, a sequence of words.           *)
(*                                                                         *)
(* The analyzer goes through a module twice. The first pass gives every    *)
(* declaration its type, the type check visits the descriptions again and  *)
(* gives operations theirs.                                                *)
(***************************************************************************)
EXTENDS Integers, Sequences, SequencesExt

CONSTANT
  ModuleTexts    \* sequences of statements

VARIABLES
  declared,   \* the statements of the module
  pass,       \* "first" or "check"
  visited,    \* how many of them this pass has visited
  given,      \* the types they got, NoneYet before
  checked,    \* the types the nodes of their descriptions got in the type check
  store       \* the types, the set and the context of creation

storeVars == <<declared, pass, visited, given, checked, store>>
-----------------------------------------------------------------------------
(* Descriptions: Leaf("i32"), Of(",", l, r) and Anonymous(Of(...)), which is *)
(* a name with a description in parentheses.                               *)

Leaf(base) == [kind |-> "leaf", base |-> base]
Of(op, l, r) == [kind |-> "op", op |-> op, l |-> l, r |-> r]
Anonymous(d) == [kind |-> "anonymous", of |-> d]

(* Statements. An operation has the op "," or "|"; its operands are leafs or *)
(* have the type of an earlier statement.                                   *)
TypeOf(k) == [kind |-> "typeOf", statement |-> k]
Define(name, d) == [do |-> "define", name |-> name, of |-> d]
Variable(d) == [do |-> "variable", of |-> d]
Pattern(d) == [do |-> "pattern", of |-> d]
Function(args, ret) == [do |-> "function", args |-> args, of |-> ret]
Operate(op, operands) == [do |-> "operate", op |-> op, operands |-> operands]

Base(name) == [base |-> name]
Made(k) == [made |-> k]
NoneYet == [none |-> TRUE]
IsMade(t) == "made" \in DOMAIN t

\* result is what the last operation on the store returns.
NewStore(newestFirst) ==
  [types |-> << >>, set |-> << >>, creating |-> << >>, newestFirst |-> newestFirst,
   result |-> NoneYet]
Returning(s, t) == [s EXCEPT !.result = t]
OpOf(s, t) == IF IsMade(t) THEN s.types[t.made].op ELSE "none"
OperandsOf(s, t) == s.types[t.made].operands
-----------------------------------------------------------------------------
(* The set *)

\* type_str(): no parentheses.
RECURSIVE NameOf(_, _)
NameOf(s, t) ==
  IF ~IsMade(t) THEN <<t.base>>
  ELSE FoldLeft(LAMBDA name, u : IF name = << >> THEN NameOf(s, u)
                                 ELSE Append(name, OpOf(s, t)) \o NameOf(s, u),
                << >>, OperandsOf(s, t))

\* type_compare() with TYPECMP_IDENTICAL.
RECURSIVE Identical(_, _, _)
Identical(s, t, u) ==
  \/ t = u
  \/ /\ IsMade(t) /\ IsMade(u)
     /\ OpOf(s, t) = OpOf(s, u)
     /\ Len(OperandsOf(s, t)) = Len(OperandsOf(s, u))
     /\ \A k \in DOMAIN OperandsOf(s, t) : Identical(s, OperandsOf(s, t)[k], OperandsOf(s, u)[k])

\* A set does not take what it has under the same name.
Added(s, name, t) ==
  IF \E k \in DOMAIN s.set : s.set[k].name = name /\ Identical(s, s.set[k].type, t) THEN s
  ELSE [s EXCEPT !.set = Append(@, [name |-> name, type |-> t])]

\* The order in which the set is gone through, by hashes in the code.
InOrder(s) == IF s.newestFirst THEN Reverse(s.set) ELSE s.set
-----------------------------------------------------------------------------
(* Does a description describe a type? They are gone through together: path  *)
(* holds the types around with the index of the operand that is next.       *)

At(s, c) ==
  LET top == Last(c.path)
  IN CASE top.index = -1 -> top.type
       [] top.index >= 0 /\ IsMade(top.type) /\ top.index < Len(OperandsOf(s, top.type)) ->
            OperandsOf(s, top.type)[top.index + 1]
       [] OTHER -> NoneYet
OneOn(c) == [c EXCEPT !.path[Len(c.path)].index = @ + 1]
Fails(c) == [c EXCEPT !.ok = FALSE]

\* Only of the first operator it is asked whether the type has one at all.
Enter(s, c, op) ==
  LET t == At(s, c)
  IN CASE ~c.ok \/ t = NoneYet -> Fails(c)
       [] c.ok /\ t # NoneYet /\ c.op = "none" ->
            IF IsMade(t) THEN OneOn([c EXCEPT !.op = op]) ELSE Fails(c)
       [] c.ok /\ t # NoneYet /\ c.op \notin {"none", op} ->
            [c EXCEPT !.op = op, !.path = Append(@, [type |-> t, index |-> 0])]
       [] OTHER -> c

\* Mutant: the operand that was gone into is still the next one.
GoUp_Stays(c, op) ==
  IF c.ok /\ c.op # op THEN [c EXCEPT !.op = op, !.path = Front(@)] ELSE c

GoUp(c, op) ==
  IF c.ok /\ c.op # op THEN OneOn([c EXCEPT !.op = op, !.path = Front(@)]) ELSE c

RECURSIVE Along(_, _, _)
Along(s, c, n) ==
  CASE n.kind = "leaf" ->
         LET t == At(s, c)
         IN IF c.ok /\ t # NoneYet /\ Identical(s, t, Base(n.base)) THEN OneOn(c) ELSE Fails(c)
    [] n.kind = "anonymous" -> Along(s, c, n.of)
    [] n.kind = "op" ->
         LET l == GoUp(Along(s, Enter(s, c, n.op), n.l), n.op)
         IN GoUp(Along(s, Enter(s, l, n.op), n.r), n.op)

\* type_equals_ast_node()
Describes(s, n, t) ==
  Along(s, [path |-> <<[type |-> t, index |-> -1]>>, op |-> "none", ok |-> TRUE], n).ok
-----------------------------------------------------------------------------
(* From a description to a type *)

\* Operands go to the operator that is being created.
Taken(s) ==
  LET t == s.result
      into == Last(s.creating)
      more == IF OpOf(s, t) = s.types[into].op THEN OperandsOf(s, t) ELSE <<t>>
  IN IF s.creating = << >> \/ t = Made(into) THEN s
     ELSE [s EXCEPT !.types[into].operands = @ \o more]

\* type_alloc(), for an operator.
Allocated(s, op, operands) ==
  Returning([s EXCEPT !.types = Append(@, [op |-> op, operands |-> operands])],
            Made(Len(s.types) + 1))
Kept(s) == Added(s, NameOf(s, s.result), s.result)

RECURSIVE LookupOrCreate(_, _)

CreateOperator(s, n) ==
  LET id == Len(s.types) + 1
      begun == [Allocated(s, n.op, << >>) EXCEPT !.creating = Append(@, id)]
      filled == LookupOrCreate(LookupOrCreate(begun, n.l), n.r)
  IN Returning([filled EXCEPT !.creating = Front(@)], Made(id))

\* module_get_or_create_type(), which looks among all types for one described.
GetOrCreate(s, n) ==
  LET fits == SelectSeq(InOrder(s), LAMBDA e : Describes(s, n, e.type))
  IN IF fits # << >> THEN Returning(s, Head(fits).type) ELSE Kept(CreateOperator(s, n))

\* Inside of an operator of the same kind the operands are just added to it.
OperatorType(s, n) ==
  IF s.creating # << >> /\ s.types[Last(s.creating)].op = n.op
  THEN Returning(LookupOrCreate(LookupOrCreate(s, n.l), n.r), Made(Last(s.creating)))
  ELSE GetOrCreate(s, n)

LookupOrCreate(s, n) ==
  Taken(CASE n.kind = "leaf" -> Returning(s, Base(n.base))
          [] n.kind = "anonymous" -> GetOrCreate(s, n.of)
          [] n.kind = "op" -> OperatorType(s, n))

DefinedType(s, name, d) ==
  LET t == LookupOrCreate(s, d)
  IN Returning(Added(t, <<name, "{">> \o NameOf(t, t.result) \o <<"}">>, Base(name)), Base(name))

FunctionType(s, args, ret) ==
  LET a == LookupOrCreate(s, args)
      r == LookupOrCreate(a, ret)
  IN Kept(Allocated(r, "->", <<a.result, r.result>>))
-----------------------------------------------------------------------------
(* From an operation to a type *)

NewOperation(s, op, l, r) == Kept(Allocated(s, op, <<l, r>>))

\* An operand of the same operator is made longer, whoever else has its type.
\* What is in the set under a name counts only if that is still its name.
OperationType(s, op, l, r) ==
  LET name == Append(NameOf(s, l), op) \o NameOf(s, r)
      found == SelectSeq(InOrder(s), LAMBDA e : e.name = name /\ NameOf(s, e.type) = name)
  IN IF OpOf(s, l) = op
     THEN Returning([s EXCEPT !.types[l.made].operands = Append(@, r)], l)
     ELSE IF OpOf(s, r) = op
     THEN Returning([s EXCEPT !.types[r.made].operands = <<l>> \o @], r)
     ELSE IF found # << >> THEN Returning(s, Head(found).type)
     ELSE NewOperation(s, op, l, r)

OperandType(x) == IF x.kind = "leaf" THEN Base(x.base) ELSE given[x.statement]
Operations(s, op, ts) ==
  FoldLeft(LAMBDA so, t : OperationType(so, op, so.result, t), Returning(s, Head(ts)), Tail(ts))
-----------------------------------------------------------------------------
InitStore ==
  /\ declared = << >> /\ pass = "none" /\ visited = 0
  /\ given = << >> /\ checked = << >>
  /\ \E newestFirst \in BOOLEAN : store = NewStore(newestFirst)

BeginModule ==
  /\ pass = "none"
  /\ declared' \in ModuleTexts
  /\ pass' = "first"
  /\ given' = [k \in DOMAIN declared' |-> NoneYet]
  /\ checked' = given'
  /\ UNCHANGED <<visited, store>>

\* The symbols of a description are its leafs, and those with a description of their
\* own look its type up; then comes what that description holds.
RECURSIVE SymbolsOf(_, _)
SymbolsOf(s, n) ==
  CASE n.kind = "leaf" -> s
    [] n.kind = "anonymous" -> GetOrCreate(s, n.of)
    [] n.kind = "op" -> SymbolsOf(SymbolsOf(s, n.l), n.r)

RECURSIVE DescriptionsIn(_)
DescriptionsIn(n) ==
  CASE n.kind = "leaf" -> << >>
    [] n.kind = "anonymous" -> <<n.of>>
    [] n.kind = "op" -> DescriptionsIn(n.l) \o DescriptionsIn(n.r)

RECURSIVE Populated(_, _)
Populated(s, n) == FoldLeft(Populated, SymbolsOf(s, n), DescriptionsIn(n))

This == declared[visited + 1]
Visits(in, dos) ==
  /\ pass = in /\ visited < Len(declared)
  /\ This.do \in dos
  /\ visited' = visited + 1
  /\ UNCHANGED <<declared, pass>>
GivesAndLeaves(s, after) ==
  /\ store' = after
  /\ given' = [given EXCEPT ![visited + 1] = s.result]
Gives(s) == GivesAndLeaves(s, s)

\* What symbol_table_record_init() asks for, and then the symbols.
DeclareType ==
  /\ Visits("first", {"define"})
  /\ LET s == DefinedType(store, This.name, This.of)
     IN GivesAndLeaves(s, Populated(s, This.of))
  /\ UNCHANGED checked
DeclareVariable ==
  /\ Visits("first", {"variable"})
  /\ LET s == LookupOrCreate(store, This.of)
     IN GivesAndLeaves(s, Populated(s, This.of))
  /\ UNCHANGED checked
DeclareFunction ==
  /\ Visits("first", {"function"})
  /\ LET s == FunctionType(store, This.args, This.of)
     IN GivesAndLeaves(s, Populated(Populated(s, This.args), This.of))
  /\ UNCHANGED checked
PassPattern ==
  /\ Visits("first", {"pattern"})
  /\ store' = Populated(store, This.of)
  /\ UNCHANGED <<given, checked>>
PassOperation ==
  /\ Visits("first", {"operate"})
  /\ UNCHANGED <<given, checked, store>>

EndFirstPass ==
  /\ pass = "first" /\ visited = Len(declared)
  /\ pass' = "check" /\ visited' = 0
  /\ UNCHANGED <<declared, given, checked, store>>

\* The nodes of a description, those below first.
RECURSIVE NodesChecked(_, _)
NodesChecked(s, n) ==
  CASE n.kind = "leaf" -> Returning(s, Base(n.base))
    [] n.kind = "anonymous" -> GetOrCreate(NodesChecked(s, n.of), n.of)
    [] n.kind = "op" -> LookupOrCreate(NodesChecked(NodesChecked(s, n.l), n.r), n)

CheckDescription ==
  /\ Visits("check", {"define", "variable", "function"})
  /\ LET args == IF This.do = "function" THEN NodesChecked(store, This.args) ELSE store
         s == NodesChecked(args, This.of)
     IN /\ store' = s
        /\ checked' = [checked EXCEPT ![visited + 1] = s.result]
  /\ UNCHANGED given
CheckPattern ==
  /\ Visits("check", {"pattern"})
  /\ Gives(NodesChecked(store, This.of))
  /\ UNCHANGED checked

\* typecheck_comma(), once for every comma, and typecheck_matchexpr(), which takes
\* the types of those cases that do not convert to one of an earlier case.
CheckOperation ==
  /\ Visits("check", {"operate"})
  /\ Gives(Operations(store, This.op, [k \in DOMAIN This.operands |-> OperandType(This.operands[k])]))
  /\ UNCHANGED checked

StoreNext ==
  \/ BeginModule \/ EndFirstPass
  \/ DeclareType \/ DeclareVariable \/ DeclareFunction
  \/ PassPattern \/ PassOperation
  \/ CheckDescription \/ CheckPattern \/ CheckOperation

StoreSpec == InitStore /\ [][StoreNext]_storeVars
=============================================================================
