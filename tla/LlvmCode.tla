------------------------------ MODULE LlvmCode ------------------------------
(***************************************************************************)
(* The LLVM instruction the backend makes of an RIR instruction            *)
(* (src/backend/llvm_ast.c, llvm_operators.c, llvm_conversion.c,           *)
(* llvm_types.c, llvm_values.c): which type its value has, whether LLVM    *)
(* accepts it, and which value it computes.                                *)
(*                                                                         *)
(* An integer is its bits, a number below 2^Bits. A value is a function    *)
(* from places in it to what is there: << >> is the only place of an       *)
(* integer, an object has its fields. The type string is one field here.   *)
(* An address is <<"cell", id, field, ...>>, or <<"literal", text>>.       *)
(***************************************************************************)
EXTENDS RirExpressions

CONSTANT
  Bits    \* the width of the integers of an LLVM type

\* bllvm_elementary_to_type(): LLVM knows no signs.
LlvmBase(base) ==
  CASE base \in {"i8", "u8"} -> "i8"
    [] base \in {"i32", "u32"} -> "i32"
    [] base \in {"i64", "u64"} -> "i64"
    [] base = "bool" -> "i1"
    [] OTHER -> base
LlvmType(t) == [t EXCEPT !.base = LlvmBase(@)]
LlvmInts == {"i1", "i8", "i32", "i64"}
NoType == Plain("no type")

\* bllvm_compile_typedef(): a sum has the index of its part in front of them all.
Fields(base) ==
  LET parts == [k \in DOMAIN Typedefs[base].args |-> LlvmBase(Typedefs[base].args[k])]
  IN IF Typedefs[base].union THEN <<"i32">> \o parts ELSE parts

\* Mutant: the index of the part is forgotten.
FieldOf_NoIndex(op, k) == k

\* The first field of a sum is the index.
FieldOf(op, k) == IF op = "unionmemberat" THEN k + 1 ELSE k
-----------------------------------------------------------------------------
(* What LLVM accepts: the type of the value, or NoType *)

\* bllvm_value_from_rir_value()
TypeIn(types, v) ==
  CASE v.by = "constant" -> LlvmType(v.type)
    [] v.by = "literal" -> PointerTo("string")
    [] OTHER -> IF v.by # "nil" /\ v.id \in DOMAIN types THEN types[v.id] ELSE NoType

Accepted(condition, type) == IF condition THEN type ELSE NoType

\* bllvm_compile_conversion(): a value of the RIR that is neither a float nor an
\* integer is a critical failure. An extension is to a wider integer, what is
\* called a truncation may also keep the size and then also be a cast to a float.
Cast(from, to, type) ==
  LET target == LlvmType(to)
      wider == ByteSizes[from.base] < ByteSizes[to.base]
  IN IF from.base \in FloatBases
     THEN Accepted(type.base = LlvmBase(from.base) /\ ~type.pointer /\ to.base \in FloatBases, target)
     ELSE Accepted(
            /\ from.base \in IntBases /\ ~type.pointer /\ type.base \in LlvmInts
            /\ \/ target.base \in LlvmInts /\ (wider => Bits[target.base] > Bits[type.base])
               \/ ~wider /\ target.base \in FloatBases
                         /\ ByteSizes[from.base] = ByteSizes[to.base],
            target)

\* bllvm_compile_comparison(), bllvm_compile_rirbop()
Computed(op, args, a, b) ==
  LET same == args[1].type.base = args[2].type.base /\ a = b /\ a # NoType
      ordered == a.pointer \/ a.base \in LlvmInts \/ a.base \in FloatBases
  IN IF op \in Comparisons THEN Accepted(same /\ ordered, Plain("i1"))
     ELSE Accepted(same /\ ~a.pointer /\ a.base \in LlvmInts, a)

\* A part of what is asserted to be a pointer to an object.
Part(op, memory, a, k) ==
  IF memory.type.pointer /\ a.pointer /\ Object(a.base)
  THEN PointerTo(Fields(a.base)[FieldOf(op, k) + 1]) ELSE NoType

\* The types a function is declared with: rir_fndecl_init_args().
Declared(f) ==
  IF Functions[f].sum # "" THEN <<PointerTo(Functions[f].sum)>>
  ELSE [k \in DOMAIN Functions[f].args |->
          LET base == Functions[f].args[k]
          IN IF base = "string" THEN PointerTo(base) ELSE LlvmType(Plain(base))]

Stored(memory, at, value) ==
  IF memory.base = "string" THEN at = PointerTo("string") /\ value = PointerTo("string")
  ELSE at.pointer /\ value = Plain(at.base)

\* bllvm_compile_rirexpr(), and the return of llvm_create_blockexit().
TypeOfCode(i, types, returned) ==
  LET T(k) == TypeIn(types, i.args[k])
      one == Plain("void")
  IN CASE i.op = "alloca" -> PointerTo(LlvmBase(i.info))
       [] i.op = "read" -> Accepted(T(1).pointer, Plain(T(1).base))
       [] i.op = "write" -> Accepted(Stored(i.args[1].type, T(1), T(2)), one)
       [] i.op = "convert" -> Cast(i.args[1].type, i.value.type, T(1))
       [] i.op \in {"objmemberat", "unionmemberat"} -> Part(i.op, i.args[1], T(1), i.info)
       [] i.op = "setunionidx" ->
            Accepted(Part("setunionidx", i.args[1], T(1), 0) = PointerTo(T(2).base), one)
       [] i.op = "getunionidx" -> Plain(Part("getunionidx", i.args[1], T(1), 0).base)
       [] i.op = "call" ->
            Accepted([k \in DOMAIN i.args |-> T(k)] = Declared(i.info), LlvmType(i.value.type))
       [] i.op = "choice" -> Accepted(T(1) = Plain("i1"), one)
       [] i.op = "ret" ->
            Accepted(IF returned = "nil" THEN i.args = << >>
                     ELSE T(1) = LlvmType(Plain(returned)), one)
       [] OTHER -> Computed(i.op, i.args, T(1), T(2))
-----------------------------------------------------------------------------
(* What it computes *)

Modulus(base) == 2 ^ Bits[base]
Scalar(x) == << >> :> x
Only(v) == v[<< >>]

\* bllvm_compile_constant()
ConstantBits(v) ==
  IF v.type.base \in FloatBases THEN v.n ELSE v.n % Modulus(LlvmBase(v.type.base))
ValueIn(registers, v) ==
  CASE v.by = "constant" -> Scalar(ConstantBits(v))
    [] v.by = "literal" -> Scalar(<<"literal", v.s>>)
    [] OTHER -> registers[v.id]

Within(p, q) == SubSeq(q, Len(p) + 1, Len(q))
Load(memory, p) ==
  LET there == {q \in DOMAIN memory : IsPrefix(p, q)}
  IN [s \in {Within(p, q) : q \in there} |-> memory[p \o s]]
Put(memory, p, v) ==
  [q \in {p \o s : s \in DOMAIN v} |-> v[Within(p, q)]] @@ memory

\* bllvm_copy_string(): a string is where its address points to.
TextAt(memory, p) == IF p[1] = "literal" THEN p[2] ELSE memory[p]

\* Floats convert to floats; the bits of an integer that become a float mean
\* another number. An integer that becomes wider is filled up with zeros.
Converted(x, from, to) ==
  CASE from \in FloatBases -> x
    [] from \notin FloatBases /\ to \in FloatBases -> -x
    [] OTHER -> IF ByteSizes[from] < ByteSizes[to] THEN x ELSE x % Modulus(LlvmBase(to))

Bit(b) == IF b THEN 1 ELSE 0

\* Integers are compared and divided as unsigned ones.
Calculated(op, x, y, base) ==
  CASE op = "eq" -> Bit(x = y)
    [] op = "ne" -> Bit(x # y)
    [] op = "ge" -> Bit(x >= y)
    [] op = "gt" -> Bit(x > y)
    [] op = "le" -> Bit(x <= y)
    [] op = "lt" -> Bit(x < y)
    [] op = "add" -> (x + y) % Modulus(base)
    [] op = "sub" -> (x - y) % Modulus(base)
    [] op = "mul" -> (x * y) % Modulus(base)
    [] op = "div" -> x \div y

\* What an instruction without an effect on memory gives.
Computes(i, registers, memory) ==
  LET x == ValueIn(registers, i.args[1])
      y == ValueIn(registers, i.args[2])
  IN CASE i.op = "alloca" -> Scalar(<<"cell", i.value.id>>)
       [] i.op = "read" -> Load(memory, Only(x))
       [] i.op = "convert" -> Scalar(Converted(Only(x), i.args[1].type.base, i.value.type.base))
       [] i.op \in {"objmemberat", "unionmemberat"} ->
            Scalar(Append(Only(x), FieldOf(i.op, i.info)))
       [] i.op = "getunionidx" -> Load(memory, Append(Only(x), 0))
       [] OTHER -> Scalar(Calculated(i.op, Only(x), Only(y), LlvmBase(i.args[1].type.base)))
=============================================================================
