------------------------------ MODULE RirValues ------------------------------
(***************************************************************************)
(* A function without ifs, from its statements to a run of it: its         *)
(* statements become RIR one after the other (rir_process_ast_node()), the *)
(* RIR becomes LLVM one instruction after the other                        *)
(* (bllvm_compile_rirblock()) unless one is refused, and what was compiled *)
(* is called with every input.                                             *)
(*                                                                         *)
(* A program is [params, locals, returns, body, inputs]: params and locals *)
(* are sequences of <<name, base>>, an input gives every parameter.        *)
(***************************************************************************)
EXTENDS SourceValues

CONSTANTS
  Programs,
  NoProgram

VARIABLES
  program,
  phase,      \* "idle", "lowering", "emitting", "compiled", "running", "returned",
              \* "refused" or "trapped"
  rest,       \* statements or instructions that are still to come
  context,    \* struct rir_ctx, and later only the code
  known,      \* the LLVM types of values, by their id
  registers,  \* the values of the run, by their id
  memory,     \* from addresses to what is there
  calls,      \* what the run called, and with which values
  input,
  outcome     \* what it returned

valueVars ==
  <<program, phase, rest, context, known, registers, memory, calls, input, outcome>>

Empty == [x \in {} |-> x]
-----------------------------------------------------------------------------
(* Parameters and results *)

Indices(sequence) == [k \in DOMAIN sequence |-> k]
Under(k, part) == [q \in {<<k>> \o p : p \in DOMAIN part} |-> part[Tail(q)]]
Inside(k, x) ==
  [s \in {Tail(p) : p \in {q \in DOMAIN x : q # << >> /\ q[1] = k}} |-> x[<<k>> \o s]]

\* What a value of the source is in memory.
RECURSIVE InMemory(_, _)
InMemory(base, v) ==
  LET part(k, x) == InMemory(Typedefs[base].args[k + 1], x)
  IN CASE base \in IntBases -> Scalar(v % Modulus(LlvmBase(base)))
       [] base = "bool" -> Scalar(Bit(v))
       [] Sum(base) ->
            (<<0>> :> v.case) @@ Under(FieldOf("unionmemberat", v.case), part(v.case, v.v))
       [] Object(base) /\ ~Sum(base) ->
            FoldLeft(LAMBDA x, k : Under(k - 1, part(k - 1, v[k])) @@ x, Empty, Indices(v))
       [] OTHER -> Scalar(v)

\* And back.
Unsigned == {"u8", "u32", "u64"}
RECURSIVE FromMemory(_, _)
FromMemory(base, x) ==
  LET args == Typedefs[base].args
      n == Modulus(LlvmBase(base))
      at == x[<<0>>]
  IN CASE base \in IntBases \ Unsigned -> IF Only(x) >= n \div 2 THEN Only(x) - n ELSE Only(x)
       [] base = "bool" -> Only(x) = 1
       [] Sum(base) ->
            [case |-> at, v |-> FromMemory(args[at + 1], Inside(FieldOf("unionmemberat", at), x))]
       [] Object(base) /\ ~Sum(base) ->
            [k \in DOMAIN args |-> FromMemory(args[k], Inside(k - 1, x))]
       [] OTHER -> Only(x)

\* The ids only need to differ: here the return slot has 0, the parameters count
\* from 1 and the instructions follow.
SlotOf(p) == Variable("alloca", PointerTo(p.returns), 0)
Parameter(p, k) ==
  LET base == p.params[k][2]
  IN Variable("param", IF Sum(base) THEN PointerTo(base) ELSE Plain(base), k)
LlvmParameter(p, k) ==
  LET base == p.params[k][2]
  IN IF Sum(base) \/ base = "string" THEN PointerTo(base) ELSE LlvmType(Plain(base))

\* What the caller passes: the address of a sum or of a string.
Passed(p, k, given) ==
  LET base == p.params[k][2]
      v == given[p.params[k][1]]
  IN CASE Sum(base) -> Scalar(<<"cell", k>>)
       [] base = "string" -> Scalar(<<"literal", v>>)
       [] OTHER -> InMemory(base, v)
PassedMemory(p, given) ==
  FoldLeft(LAMBDA m, k :
             IF Sum(p.params[k][2])
             THEN Put(m, <<"cell", k>>, InMemory(p.params[k][2], given[p.params[k][1]]))
             ELSE m,
           Empty, Indices(p.params))

\* rir_fndef_init_from_ast() up to the first statement: the variables of the
\* symbol table get their allocas at the beginning.
Entered(p) ==
  LET objects == [x \in {s[1] : s \in ToSet(p.params)} |->
                    Parameter(p, SelectInSeq(p.params, LAMBDA s : s[1] = x))]
      local(c, s) == LET a == AddsAlloca(c, s[2])
                     IN [a EXCEPT !.objects = (s[1] :> a.result) @@ @]
  IN FoldLeft(local, Context(objects, Len(p.params) + 1, SlotOf(p)), p.locals)

\* What a call sees of its arguments.
Seen(f, args) ==
  LET value(k) == ValueIn(registers, args[k])
      base(k) == Functions[f].args[k]
  IN IF Functions[f].sum # ""
     THEN <<FromMemory(Functions[f].sum, Load(memory, Only(value(1))))>>
     ELSE [k \in DOMAIN args |->
             IF base(k) = "string" THEN TextAt(memory, Only(value(k)))
             ELSE FromMemory(base(k), value(k))]
-----------------------------------------------------------------------------
InitValues ==
  /\ program = NoProgram /\ phase = "idle"
  /\ rest = << >> /\ context = << >> /\ known = Empty
  /\ registers = Empty /\ memory = Empty /\ calls = << >>
  /\ input = Empty /\ outcome = << >>

unstarted == <<registers, memory, calls, input, outcome>>

Begin(p) ==
  /\ phase = "idle"
  /\ phase' = "lowering"
  /\ program' = p
  /\ rest' = p.body
  /\ context' = Entered(p)
  /\ known' = (0 :> LlvmType(PointerTo(p.returns)))
              @@ [k \in DOMAIN p.params |-> LlvmParameter(p, k)]
  /\ UNCHANGED unstarted

\* A statement that cannot be lowered ends the compilation.
LowerStatement ==
  /\ phase = "lowering" /\ rest # << >>
  /\ LET c == Lowers(Head(rest), context)
     IN /\ context' = c
        /\ phase' = IF c.ok THEN phase ELSE "refused"
  /\ rest' = Tail(rest)
  /\ UNCHANGED <<program, known, unstarted>>

\* A function that returns nothing ends without a value.
FinishLowering ==
  /\ phase = "lowering" /\ rest = << >>
  /\ phase' = "emitting"
  /\ LET c == IF program.returns = "nil" THEN AddsNil(context, "ret", << >>, 0) ELSE context
     IN context' = c /\ rest' = c.code
  /\ UNCHANGED <<program, known, unstarted>>

\* bllvm_compile_rirexpr(), or LLVMVerifyModule(), that refuses what does not fit.
EmitInstruction ==
  /\ phase = "emitting" /\ rest # << >>
  /\ LET i == Head(rest)
         type == TypeOfCode(i, known, program.returns)
     IN /\ phase' = IF type = NoType THEN "refused" ELSE phase
        /\ known' = IF i.value.by = "nil" THEN known ELSE (i.value.id :> type) @@ known
        /\ rest' = (IF i.op = "choice" THEN i.info.then \o i.info.else ELSE << >>) \o Tail(rest)
  /\ UNCHANGED <<program, context, unstarted>>

FinishEmission ==
  /\ phase = "emitting" /\ rest = << >>
  /\ phase' = "compiled"
  /\ UNCHANGED <<program, rest, context, known, unstarted>>

RunWith(given) ==
  /\ phase = "compiled"
  /\ phase' = "running"
  /\ input' = given
  /\ rest' = context.code
  /\ registers' = (0 :> Scalar(<<"cell", 0>>))
                  @@ [k \in DOMAIN program.params |-> Passed(program, k, given)]
  /\ memory' = PassedMemory(program, given)
  /\ UNCHANGED <<program, context, known, calls, outcome>>

\* The instruction the run is at.
AtOp(ops) == phase = "running" /\ rest[1].op \in ops
OperandValue(k) == ValueIn(registers, rest[1].args[k])
Sets(value) == registers' = (rest[1].value.id :> value) @@ registers
unread == <<program, context, known, input>>

Compute ==
  /\ phase = "running"
  /\ ~AtOp({"write", "setunionidx", "call", "choice", "ret"})
  /\ IF AtOp({"div"}) /\ Only(OperandValue(2)) = 0
     THEN phase' = "trapped" /\ UNCHANGED <<rest, registers>>
     ELSE /\ Sets(Computes(rest[1], registers, memory))
          /\ rest' = Tail(rest)
          /\ UNCHANGED phase
  /\ UNCHANGED <<unread, memory, calls, outcome>>

\* A string is copied, with bllvm_copy_string().
StoreValue ==
  /\ AtOp({"write", "setunionidx"})
  /\ LET at == Only(OperandValue(1))
     IN memory' =
          IF AtOp({"setunionidx"}) THEN Put(memory, Append(at, 0), OperandValue(2))
          ELSE IF rest[1].args[1].type.base = "string"
          THEN Put(memory, at, Scalar(TextAt(memory, Only(OperandValue(2)))))
          ELSE Put(memory, at, OperandValue(2))
  /\ rest' = Tail(rest)
  /\ UNCHANGED <<unread, phase, registers, calls, outcome>>

CallFunction ==
  /\ AtOp({"call"})
  /\ LET f == rest[1].info
     IN /\ calls' = Append(calls, <<f, Seen(f, rest[1].args)>>)
        /\ Sets(InMemory(Functions[f].returns, Given[f]))
  /\ rest' = Tail(rest)
  /\ UNCHANGED <<unread, phase, memory, outcome>>

TakeBranch ==
  /\ AtOp({"choice"})
  /\ rest' = (IF Only(OperandValue(1)) = 1 THEN rest[1].info.then ELSE rest[1].info.else) \o Tail(rest)
  /\ UNCHANGED <<unread, phase, registers, memory, calls, outcome>>

ReturnValue ==
  /\ AtOp({"ret"})
  /\ phase' = "returned"
  /\ rest' = << >>
  /\ outcome' = IF program.returns = "nil" THEN << >>
                ELSE <<FromMemory(program.returns, OperandValue(1))>>
  /\ UNCHANGED <<unread, registers, memory, calls>>

Forget ==
  /\ phase \in {"returned", "trapped", "refused"}
  /\ program' = NoProgram /\ phase' = "idle"
  /\ rest' = << >> /\ context' = << >> /\ known' = Empty
  /\ registers' = Empty /\ memory' = Empty /\ calls' = << >>
  /\ input' = Empty /\ outcome' = << >>

\* What goes on once a program has begun.
ValueStep ==
  \/ LowerStatement \/ FinishLowering
  \/ EmitInstruction \/ FinishEmission
  \/ Compute \/ StoreValue \/ CallFunction \/ TakeBranch \/ ReturnValue
  \/ Forget

ValueNext ==
  \/ ValueStep
  \/ \E p \in Programs : Begin(p)
  \/ phase = "compiled" /\ \E given \in program.inputs : RunWith(given)
-----------------------------------------------------------------------------
\* The types of the parameters, of the locals and of the result.
SourceTypes(p) ==
  LET all == ToSet(p.params \o p.locals)
  IN ("result" :> p.returns) @@ [x \in {s[1] : s \in all} |->
                                   (CHOOSE s \in all : s[1] = x)[2]]

(* What the backend cannot compile, read from the source *)

\* The type of an expression: two integers are computed with in the smaller one.
RECURSIVE TypeOf(_, _)
TypeOf(n, types) ==
  CASE n.kind = "whole" -> "i64"
    [] n.kind = "real" -> "f64"
    [] n.kind = "truth" -> "bool"
    [] n.kind = "text" -> "string"
    [] n.kind = "name" -> types[n.x]
    [] n.kind = "binary" -> IF n.op \in Comparisons THEN "bool"
                            ELSE SmallerType(TypeOf(n.l, types), TypeOf(n.r, types))
    [] n.kind = "unary" -> SmallerType(TypeOf(n.e, types), "i32")
    [] n.kind = "invoke" -> Functions[n.f].returns
    [] n.kind = "convertTo" -> n.base
    [] n.kind = "member" -> Typedefs[types[n.x]].args[n.k + 1]
    [] OTHER -> "nil"

\* Conversions nobody asks for: a float never becomes an integer, an integer only
\* a float of its size.
Fits(from, to) ==
  \/ from = to
  \/ {from, to} \subseteq IntBases \/ {from, to} \subseteq FloatBases
  \/ from \in IntBases /\ to \in FloatBases /\ ByteSizes[from] = ByteSizes[to]

\* Those that are asked for: only constants and booleans become strings.
Expressible(e, from, to) ==
  IF to = "string" THEN from = "bool" \/ e.kind = "whole"
  ELSE {from, to} \subseteq IntBases \cup FloatBases /\ Fits(from, to)

\* Two strings only if both have an address, no arithmetic with floats.
Operable(op, l, r, from, to) ==
  LET small == SmallerType(from, to)
  IN IF from = "string" THEN {l.kind, r.kind} = {"text"}
     ELSE Fits(from, small) /\ Fits(to, small) /\ (op \notin Comparisons => small \in IntBases)

SymbolTypes(c) ==
  [x \in {s[1] : s \in ToSet(c.symbols)} |-> (CHOOSE s \in ToSet(c.symbols) : s[1] = x)[2]]

\* params: those names that are parameters. A parameter is no operand of a unary
\* operator, a conversion, a call or a constructor, and an object that is one has
\* no members; a member that is a number is not passed to a function or converted;
\* the string that a call returns has no address; constructors and matches are
\* only assigned.
RECURSIVE Hindered(_, _, _)
Hindered(n, types, params) ==
  LET hindered(e) == Hindered(e, types, params)
      type(e) == TypeOf(e, types)
      readable(e) == ~(e.kind = "name" /\ e.x \in params)
      fits(e, to) == /\ e.kind \notin {"construct", "matchOn"}
                     /\ Fits(type(e), to)
                     /\ ~(e.kind = "invoke" /\ to = "string")
      passes(e, to) == readable(e) /\ fits(e, to) /\ (e.kind = "member" => to = "string")
      writes(e, to) == readable(e) /\ fits(e, to)
      takes(args, bases, ok(_, _)) == \A k \in DOMAIN args : ok(args[k], bases[k])
  IN CASE n.kind = "binary" ->
            \/ hindered(n.l) \/ hindered(n.r)
            \/ ~Operable(n.op, n.l, n.r, type(n.l), type(n.r))
       [] n.kind = "unary" ->
            \/ hindered(n.e) \/ ~readable(n.e)
            \/ ~Operable(UnaryOps[n.op][1], n.e, Whole(1), type(n.e), "i32")
       [] n.kind = "convertTo" ->
            \/ hindered(n.e) \/ ~readable(n.e) \/ n.e.kind = "member"
            \/ ~Expressible(n.e, type(n.e), n.base)
       [] n.kind = "invoke" ->
            \/ \E k \in DOMAIN n.args : hindered(n.args[k])
            \/ IF Functions[n.f].sum = "" THEN ~takes(n.args, Functions[n.f].args, passes)
               ELSE ~takes(n.args, PartTypes(Functions[n.f].sum, n.as), writes)
       [] n.kind = "construct" -> TRUE
       [] n.kind = "member" -> n.x \in params
       [] n.kind = "matchOn" ->
            \E k \in DOMAIN n.cases :
              LET s == SymbolTypes(n.cases[k])
              IN Hindered(n.cases[k].e, s @@ types, params \ DOMAIN s)
       [] n.kind = "give" -> hindered(n.e) \/ Object(types["result"]) \/ ~fits(n.e, types["result"])
       [] n.kind = "set" /\ n.e.kind = "construct" ->
            LET base == types[n.x]
                bases == IF Sum(base) THEN PartTypes(base, n.e.as) ELSE Typedefs[base].args
            IN \/ \E k \in DOMAIN n.e.args : hindered(n.e.args[k])
               \/ ~takes(n.e.args, bases, writes)
       [] n.kind = "set" /\ n.e.kind = "matchOn" ->
            \/ hindered(n.e)
            \/ \E k \in DOMAIN n.e.cases :
                 ~Fits(TypeOf(n.e.cases[k].e, SymbolTypes(n.e.cases[k]) @@ types), types[n.x])
       [] n.kind = "set" /\ n.e.kind = "invoke" -> hindered(n.e)
       [] n.kind = "set" /\ n.e.kind \notin {"construct", "matchOn", "invoke"} ->
            hindered(n.e) \/ ~fits(n.e, types[n.x])
       [] OTHER -> FALSE

Unsupported(p) ==
  LET params == {s[1] : s \in ToSet(p.params)}
  IN \E k \in DOMAIN p.body : Hindered(p.body[k], SourceTypes(p), params)

\* A program that the type check accepts is refused, at any stage, exactly if its
\* source has one of the known gaps of the backend.
RefusedForAReason ==
  /\ phase = "refused" => Unsupported(program)
  /\ phase = "compiled" => ~Unsupported(program)

\* Whatever values a compiled function is called with, as long as every number
\* it computes fits its type it makes the calls that its source says, with the
\* values that its source says, and returns the value that its source says; and
\* it stops before only if a number does not fit.
ComputesAsSource ==
  phase \in {"returned", "trapped"} =>
    LET m == Meaning(program.body, SourceTypes(program), input)
    IN m.exact =>
         /\ phase = "returned"
         /\ calls = m.calls
         /\ program.returns # "nil" => outcome = <<m.v>>
=============================================================================
