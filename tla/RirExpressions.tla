--------------------------- MODULE RirExpressions ---------------------------
(***************************************************************************)
(* Which RIR instructions the expressions of a function become             *)
(* (src/ir/rir_process.c and the rir_*.c of every kind of expression):     *)
(* where a value is read from memory, where it is converted and to what,   *)
(* and how objects and sums are filled in. Blocks are in RirLowering: here *)
(* code is a sequence of instructions, and the branches of a match and of  *)
(* the conversion of a boolean are nested in one.                          *)
(*                                                                         *)
(* A type has a base, elementary or the name of a typedef, and may be a    *)
(* pointer to it. A value is what made it (by), its type, and an id, a     *)
(* number or a text. An instruction is [op, args, info, value]. Indices    *)
(* count from 0, as in the code.                                           *)
(***************************************************************************)
EXTENDS Integers, Sequences, SequencesExt, TLC

CONSTANTS
  Typedefs,   \* name -> [union: is it a sum, args: the bases of its parts]
  Functions   \* name -> [sum: typedef of its only argument or "", args, returns]

Object(base) == base \in DOMAIN Typedefs
Sum(base) == Object(base) /\ Typedefs[base].union
IntBases == {"i8", "u8", "i32", "u32", "i64", "u64"}
FloatBases == {"f32", "f64"}

\* elementary_type_to_bytesize(): -1 for a string, as a size_t.
ByteSizes == [i8 |-> 1, u8 |-> 1, i32 |-> 4, u32 |-> 4, i64 |-> 8, u64 |-> 8,
              f32 |-> 4, f64 |-> 8, bool |-> 1, nil |-> 0, string |-> 1000]

Plain(base) == [base |-> base, pointer |-> FALSE]
PointerTo(base) == [base |-> base, pointer |-> TRUE]
-----------------------------------------------------------------------------
\* The expressions of a function. as: the bases the type check matched the
\* arguments to; the parts of a case: its matched base, the symbols it declares
\* with their bases, and its expression.
Whole(n) == [kind |-> "whole", n |-> n]
Real(n) == [kind |-> "real", n |-> n]
Truth(b) == [kind |-> "truth", b |-> b]
Text(s) == [kind |-> "text", s |-> s]
Name(x) == [kind |-> "name", x |-> x]
Binary(op, l, r) == [kind |-> "binary", op |-> op, l |-> l, r |-> r]
Unary(op, e) == [kind |-> "unary", op |-> op, e |-> e]
Invoke(f, as, args) == [kind |-> "invoke", f |-> f, as |-> as, args |-> args]
Construct(as, args) == [kind |-> "construct", as |-> as, args |-> args]
ConvertTo(base, e) == [kind |-> "convertTo", base |-> base, e |-> e]
Member(x, k) == [kind |-> "member", x |-> x, k |-> k]
MatchOn(x, cases) == [kind |-> "matchOn", x |-> x, cases |-> cases]
OnCase(base, symbols, e) == [base |-> base, symbols |-> symbols, e |-> e]

\* Statements are expressions too.
Set(x, e) == [kind |-> "set", x |-> x, e |-> e]
Give(e) == [kind |-> "give", e |-> e]
-----------------------------------------------------------------------------
(* Values, and the parts of struct rir_ctx they are kept in *)

NilValue == [by |-> "nil", type |-> Plain("nil"), id |-> 0]
IntConstant(n, base) == [by |-> "constant", type |-> Plain(base), n |-> n]
Literal(s) == [by |-> "literal", type |-> Plain("string"), s |-> s]
Variable(by, type, id) == [by |-> by, type |-> type, id |-> id]

\* code: of the current block; ids: expression_idx; target: the value of
\* last_assign_obj; result: the one of returned_obj; objects: what the symbol
\* table gives; ok: FALSE after an error or a failed assertion.
Context(objects, ids, slot) ==
  [code |-> << >>, ids |-> ids, target |-> NilValue, result |-> NilValue,
   objects |-> objects, slot |-> slot, ok |-> TRUE]

Failed(c) == [c EXCEPT !.ok = FALSE, !.result = NilValue]
Returns(c, v) == [c EXCEPT !.result = v]
Instruction(op, args, info, value) ==
  [op |-> op, args |-> args, info |-> info, value |-> value]

\* rirctx_block_add() of an expression with a value, and of one without.
Adds(c, op, args, info, type) ==
  LET v == Variable(op, type, c.ids)
  IN [c EXCEPT !.code = Append(@, Instruction(op, args, info, v)),
               !.ids = @ + 1, !.result = v]
AddsNil(c, op, args, info) ==
  [c EXCEPT !.code = Append(@, Instruction(op, args, info, NilValue)),
            !.result = NilValue]

AddsAlloca(c, base) == Adds(c, "alloca", << >>, base, PointerTo(base))
AddsRead(c, memory) ==
  IF memory.type.pointer THEN Adds(c, "read", <<memory>>, 0, Plain(memory.type.base))
  ELSE Failed(c)

\* rir_getread_val(): only an alloca is read, and a string is not.
GetRead(c) ==
  IF c.result.by = "alloca" /\ c.result.type.base # "string" THEN AddsRead(c, c.result) ELSE c
-----------------------------------------------------------------------------
(* Conversions *)

Choice(cond, then, else) ==
  Instruction("choice", <<cond>>, [then |-> then, else |-> else], NilValue)

\* A boolean becomes a string in memory that one of two branches writes.
TruthToText(c, v) ==
  LET a == AddsAlloca(c, "string")
      writes(s) == <<Instruction("write", <<a.result, Literal(s)>>, 0, NilValue)>>
  IN [a EXCEPT !.code = Append(@, Choice(v, writes("true"), writes("false")))]

ConstantText(v) == IF v.type.base = "bool" THEN IF v.n = 1 THEN "true" ELSE "false"
                   ELSE ToString(v.n)

\* rir_convert_create_obj_maybeadd()
Converts(c, v, base) ==
  CASE base # "string" -> Adds(c, "convert", <<v>>, 0, Plain(base))
    [] v.by = "constant" -> Returns(c, Literal(ConstantText(v)))
    [] v.by # "constant" /\ v.type.base = "bool" -> TruthToText(c, v)
    [] OTHER -> Failed(c)

\* Mutant: a value of the same size stays as it is.
MaybeConverts_BySize(c, v, base) ==
  IF v.by = "nil" THEN Failed(c)
  ELSE IF v.type.base = base \/ (~Object(base) /\ ~Object(v.type.base)
                                 /\ ByteSizes[v.type.base] >= ByteSizes[base])
  THEN Returns(c, v) ELSE Converts(c, v, base)

\* rir_maybe_convert(): rir_type_equal() does not tell a pointer apart.
MaybeConverts(c, v, base) ==
  IF v.by = "nil" THEN Failed(c)
  ELSE IF v.type.base = base THEN Returns(c, v) ELSE Converts(c, v, base)

ReadsPointer(c, v) == IF v.type.pointer THEN AddsRead(c, v) ELSE Returns(c, v)

\* rir_write_create(): a pointer is read first, unless it is a string.
Writes(c, memory, v) ==
  LET r == IF v.type.base = "string" THEN Returns(c, v) ELSE ReadsPointer(c, v)
      w == MaybeConverts(r, r.result, memory.type.base)
  IN AddsNil(w, "write", <<memory, w.result>>, 0)
-----------------------------------------------------------------------------
(* Operators *)

Comparisons == {"eq", "ne", "ge", "gt", "le", "lt"}

\* The larger operand becomes one of the smaller type.
Unified(c, a, b) ==
  CASE a.type.base = b.type.base -> <<c, a, b>>
    [] a.type.base # b.type.base /\ ByteSizes[a.type.base] >= ByteSizes[b.type.base] ->
         LET k == Converts(c, a, b.type.base) IN <<k, k.result, b>>
    [] OTHER -> LET k == Converts(c, b, a.type.base) IN <<k, a, k.result>>

\* rir_binaryop_create_nonast()
Operates(c, op, a, b) ==
  LET x == ReadsPointer(c, a)
      y == ReadsPointer(x, b)
      u == Unified(y, x.result, y.result)
      type == Plain(IF op \in Comparisons THEN "bool" ELSE u[2].type.base)
  IN IF "nil" \in {a.by, b.by} \/ Object(a.type.base) \/ Object(b.type.base)
     THEN Failed(c) ELSE Adds(u[1], op, <<u[2], u[3]>>, 0, type)

\* rir_process_unaryop(): with a constant of 32 bits.
UnaryOps == [inc |-> <<"add", 1>>, dec |-> <<"add", -1>>, minus |-> <<"mul", -1>>]
OperatesOnOne(c, op) ==
  Operates(c, UnaryOps[op][1], c.result, IntConstant(UnaryOps[op][2], "i32"))
-----------------------------------------------------------------------------
(* Parts of objects and sums *)

AddsPart(c, op, memory, k) ==
  IF Object(memory.type.base) /\ k + 1 \in DOMAIN Typedefs[memory.type.base].args
  THEN Adds(c, op, <<memory>>, k, PointerTo(Typedefs[memory.type.base].args[k + 1]))
  ELSE Failed(c)

\* rir_type_union_matched_type_from_fncall()
MatchedBy(base, as) ==
  IF Object(base) THEN Typedefs[base].args = as ELSE as = <<base>>
Matched(sum, as) ==
  SelectInSeq(Typedefs[sum].args, LAMBDA base : MatchedBy(base, as)) - 1

\* The memory that takes the arguments: of the whole object, or of the part of a
\* sum whose index is set.
AddsUnionPart(c, memory, as) ==
  LET k == Matched(memory.type.base, as)
      s == AddsNil(c, "setunionidx", <<memory, IntConstant(k, "i32")>>, 0)
  IN IF k = -1 THEN Failed(c) ELSE AddsPart(s, "unionmemberat", memory, k)
AddsTarget(c, memory, as) ==
  IF Sum(memory.type.base) THEN AddsUnionPart(c, memory, as) ELSE Returns(c, memory)

\* rir_sum_subtype(): the first part with the type of the symbol, or the part of
\* the sum itself.
AddsSubtype(c, part, base, symbol) ==
  IF Object(part.type.base) /\ base # part.type.base
  THEN AddsPart(c, "objmemberat", part, SelectInSeq(Typedefs[part.type.base].args,
                                                   LAMBDA b : b = base) - 1)
  ELSE Returns(c, part)

\* rir_strec_create_allocas() and what rir_symbol_table_populate_allocas_do()
\* writes to it
AddsSymbol(c, part, x, base) ==
  LET a == AddsAlloca(c, base)
      s == AddsSubtype(a, part, base, x)
      w == Writes(s, a.result, s.result)
  IN [w EXCEPT !.objects = (x :> a.result) @@ @]
-----------------------------------------------------------------------------
RECURSIVE Lowers(_, _)

\* rir_process_ast_node_getreadval(): a variable of the RIR, an argument of the
\* function, is not accepted.
LowersToRead(e, c) ==
  LET r == Lowers(e, c) IN IF r.result.by \in {"param", "nil"} THEN Failed(r) ELSE GetRead(r)

\* ctor_args_to_value_cb(): an argument is evaluated before its place is.
PopulatesPart(c, e, memory, k) ==
  LET v == LowersToRead(e, c)
      at == IF Object(memory.type.base) THEN AddsPart(v, "objmemberat", memory, k)
            ELSE IF k = 0 THEN Returns(v, memory) ELSE Failed(v)
  IN Writes(at, at.result, v.result)

\* rir_populate_from_astcall()
Populates(c, memory, n) ==
  LET t == AddsTarget(c, memory, n.as)
  IN IF ~t.ok THEN t
     ELSE FoldLeft(LAMBDA a, k : PopulatesPart(a, n.args[k], t.result, k - 1),
                   t, [k \in DOMAIN n.args |-> k])

\* rir_process_ctorcall()
Constructs(c, n) ==
  IF c.target.by = "nil" THEN Failed(c) ELSE Populates(c, c.target, n)

\* ast_fncall_args_toarr_cb() for every argument
RECURSIVE Arguments(_, _, _)
Arguments(c, n, values) ==
  LET k == Len(values) + 1
      v == LowersToRead(n.args[k], c)
      a == MaybeConverts(v, v.result, Functions[n.f].args[k])
  IN IF k > Len(n.args) THEN <<c, values>> ELSE Arguments(a, n, Append(values, a.result))

\* rir_call_create_obj_from_ast(): an argument of a sum type is passed by its
\* address, and a call goes on if it could not be filled in.
PassesSum(c, n) ==
  LET a == AddsAlloca(c, Functions[n.f].sum)
      p == Populates(a, a.result, n)
  IN IF Matched(Functions[n.f].sum, n.as) = -1 THEN <<a, <<a.result>>>> ELSE <<p, <<a.result>>>>
Calls(c, n) ==
  LET passed == IF Functions[n.f].sum = "" THEN Arguments(c, n, << >>) ELSE PassesSum(c, n)
  IN Adds(passed[1], "call", passed[2], n.f, Plain(Functions[n.f].returns))

\* rir_process_memberaccess(): the address of the member.
AccessesMember(c, n) == AddsPart(c, "objmemberat", c.objects[n.x], n.k)

\* rir_process_matchcase() in the block it fills: the symbols of the case, its
\* expression and, if the match is assigned, the write.
FillsCase(c, n, k, index) ==
  LET part == AddsPart([c EXCEPT !.code = << >>], "unionmemberat", c.objects[n.x], index)
      cs == n.cases[k]
      declared == FoldLeft(LAMBDA a, s : AddsSymbol(a, part.result, s[1], s[2]), part, cs.symbols)
      value == Lowers(cs.e, declared)
  IN IF value.target.by = "nil" THEN value ELSE Writes(value, value.target, value.result)

CaseIndex(c, n, k) ==
  SelectInSeq(Typedefs[c.objects[n.x].type.base].args, LAMBDA b : b = n.cases[k].base) - 1

\* rir_process_matchexpr() from the k-th of its cases on; the last one is not
\* compared. c.code is the code of the current block.
RECURSIVE MatchesFrom(_, _, _, _)
MatchesFrom(c, n, k, which) ==
  LET index == CaseIndex(c, n, k)
      compared == Operates(c, "eq", which, IntConstant(index, "i32"))
      c1 == IF k < Len(n.cases) THEN compared ELSE c
      taken == FillsCase(c1, n, k, index)
      back == [taken EXCEPT !.code = << >>, !.objects = c.objects]
      other == MatchesFrom(back, n, k + 1, which)
  IN IF k = Len(n.cases) THEN [taken EXCEPT !.code = c.code \o @]
     ELSE [other EXCEPT
             !.code = Append(compared.code, Choice(compared.result, taken.code, other.code))]

MatchesSum(c, n) ==
  LET g == Adds(c, "getunionidx", <<c.objects[n.x]>>, 0, Plain("i64"))
  IN IF ~Sum(c.objects[n.x].type.base) THEN Failed(c)
     ELSE Returns([MatchesFrom(g, n, 1, g.result) EXCEPT !.objects = c.objects],
                  c.objects[n.x])

\* rir_process_binaryop() on an assignment
Assigns(c, n) ==
  LET memory == c.objects[n.x]
      r == Lowers(n.e, [c EXCEPT !.target = memory])
      w == Writes(r, memory, r.result)
  IN IF n.e.kind \in {"matchOn", "construct", "invoke"} THEN Returns(r, NilValue)
     ELSE [w EXCEPT !.target = NilValue]

\* rir_process_binaryop() otherwise: any of them resets last_assign_obj.
OperatesOnTwo(c, n) ==
  LET l == Lowers(n.l, c)
      r == Lowers(n.r, l)
  IN [Operates(r, n.op, l.result, r.result) EXCEPT !.target = NilValue]

ConvertsCall(c, n) == LET v == LowersToRead(n.e, c) IN
  IF v.ok THEN Converts(v, v.result, n.base) ELSE v

\* rir_process_return(), with the end of the function behind it:
\* rir_block_functionend_create() reads the return slot, unless it is an object.
Gives(c, n) ==
  LET v == Lowers(n.e, c)
      w == Writes(v, c.slot, v.result)
      r == IF Object(c.slot.type.base) THEN Returns(w, c.slot) ELSE AddsRead(w, c.slot)
  IN AddsNil(r, "ret", <<r.result>>, 0)

\* rir_process_ast_node()
Lowers(n, c) ==
  CASE n.kind = "whole" -> Returns(c, IntConstant(n.n, "i64"))
    [] n.kind = "real" -> Returns(c, IntConstant(n.n, "f64"))
    [] n.kind = "truth" -> Returns(c, IntConstant(IF n.b THEN 1 ELSE 0, "bool"))
    [] n.kind = "text" -> Returns(c, Literal(n.s))
    [] n.kind = "name" -> Returns(c, c.objects[n.x])
    [] n.kind = "binary" -> OperatesOnTwo(c, n)
    [] n.kind = "unary" -> OperatesOnOne(LowersToRead(n.e, c), n.op)
    [] n.kind = "invoke" -> Calls(c, n)
    [] n.kind = "construct" -> Constructs(c, n)
    [] n.kind = "convertTo" -> ConvertsCall(c, n)
    [] n.kind = "member" -> AccessesMember(c, n)
    [] n.kind = "matchOn" -> MatchesSum(c, n)
    [] n.kind = "set" -> Assigns(c, n)
    [] n.kind = "give" -> Gives(c, n)
=============================================================================
