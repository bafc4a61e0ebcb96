---------------------------- MODULE RirLowering -----------------------------
(***************************************************************************)
(* How the functions of one module become graphs of RIR blocks, one after  *)
(* the other with the same struct rir_ctx: rir_process_do(),               *)
(* rir_fndef_init_from_ast(), rir_block_init(), rir_process_ifexpr(),      *)
(* rir_process_matchexpr() and what they call (src/ir).                    *)
(*                                                                         *)
(* A block is a number, given in the order of creation. Of the expressions *)
(* in a block, calls and the writes to variables and to the return slot    *)
(* are kept; those that only compute a value are left out, and so are      *)
(* allocation failures. The recursion over the syntax tree is unfolded     *)
(* into work, a stack with its top at the head: nodes that are still to be *)
(* processed, and for each call under way a frame for its rest.            *)
(***************************************************************************)
EXTENDS Naturals, Sequences

CONSTANTS
  Modules,    \* sequences of function bodies
  NoVariable  \* NULL in last_assign_obj

VARIABLES
  bodies,     \* the functions of the module
  functions,  \* the lowered ones: their first block and all their blocks
  work,       \* the stack of nodes and frames
  exit,       \* the exit of every block
  code,       \* what every block does that can be observed
  blocks,     \* current_fn->blocks
  endBlock,   \* current_fn->end_label
  current,    \* ctx->current_block
  next,       \* ctx->next_block
  assign,     \* the variable of ctx->last_assign_obj
  joins       \* history: where a branch of an if that had no exit of its own
              \* was sent, with the block that follows that if

blockVars == <<exit, code, blocks>>
loweringVars == <<bodies, functions, work, blockVars, endBlock, current, next,
                  assign, joins>>

NoBlock == 0
-----------------------------------------------------------------------------
\* The nodes of a function's body. An id is one place in the source.
Value(id) == [kind |-> "value", id |-> id]    \* a constant or an identifier
Arith(id) == [kind |-> "arith", id |-> id]    \* a binary operator
Call(id) == [kind |-> "call", id |-> id]      \* a call of a function
Ctor(id) == [kind |-> "ctor", id |-> id]      \* a constructor, when assigned
ConvertBool(id) == [kind |-> "convert", id |-> id]  \* string(b), b: bool
Assign(to, from) == [kind |-> "assign", to |-> to, from |-> from]
Return(from) == [kind |-> "return", from |-> from]
Block(nodes) == [kind |-> "block", nodes |-> nodes]
NoElse == [kind |-> "none"]
\* else: NoElse, a Block or, for an elif, one more If
If(cond, then, else) ==
  [kind |-> "if", cond |-> cond, then |-> then, else |-> else]
Match(id, cases) == [kind |-> "match", id |-> id, cases |-> cases]

\* The exits of a block: struct rir_block_exit.
Invalid == [type |-> "invalid"]
Branch(dst) == [type |-> "branch", dst |-> dst]
CondBranch(cond, taken, fallthrough) ==
  [type |-> "condbranch", cond |-> cond, taken |-> taken,
   fallthrough |-> fallthrough]
ReturnExit == [type |-> "return"]

\* What a block does.
Calling(id) == <<"call", id>>
Writing(to, id) == <<"write", to, id>>
Returning(id) == <<"result", id>>

\* The frames: what is left of a call of rir_process_conditional() after its
\* condition, after the taken block and at its end; of rir_process_ifexpr(); of
\* rir_process_matchcase() before a case, after it and after the later cases; of
\* rir_process_matchexpr(); of a return or an assignment after its expression;
\* of rir_fndef_init_from_ast().
ThenFrame(n, old, after) ==
  [kind |-> "then", if |-> n, old |-> old, after |-> after]
ElseFrame(n, old, after, taken) ==
  [kind |-> "else", if |-> n, old |-> old, after |-> after, taken |-> taken]
ConnectFrame(n, old, after, taken, other) ==
  [kind |-> "connect", if |-> n, old |-> old, after |-> after,
   taken |-> taken, other |-> other]
EndIfFrame == [kind |-> "endif"]
CaseFrame(n, k, before, after) ==
  [kind |-> "case", match |-> n, k |-> k, before |-> before, after |-> after]
EndCaseFrame(c, this, taken) ==
  [kind |-> "endcase", case |-> c, this |-> this, taken |-> taken]
LinkFrame(cond, this, taken, other) ==
  [kind |-> "link", cond |-> cond, this |-> this, taken |-> taken,
   other |-> other]
EndMatchFrame(after) == [kind |-> "endmatch", after |-> after]
ResultFrame(id) == [kind |-> "result", id |-> id]
StoreFrame(to, id) == [kind |-> "store", to |-> to, id |-> id]
EndFunctionFrame(first) == [kind |-> "endfunction", first |-> first]
-----------------------------------------------------------------------------
Fresh(i) == Len(exit) + i  \* the i-th block created from here

\* rir_block_create(NULL), n times
NewBlocks(n) ==
  /\ exit' = exit \o [i \in 1 .. n |-> Invalid]
  /\ code' = code \o [i \in 1 .. n |-> << >>]

At(kind) == work # << >> /\ Head(work).kind = kind
Top == Head(work)
Pop == work' = Tail(work)
Replace(items) == work' = items \o Tail(work)

AddBlock(b) == blocks' = Append(blocks, b)
Emit(event) == code' = [code EXCEPT ![current] = Append(@, event)]

Init ==
  /\ bodies \in Modules
  /\ functions = << >> /\ work = << >>
  /\ exit = << >> /\ code = << >> /\ blocks = << >>
  /\ endBlock = NoBlock /\ current = NoBlock /\ next = NoBlock
  /\ assign = NoVariable /\ joins = {}

\* rir_fndef_init_from_ast() up to the body: the end block, then the first one.
\* The body is a block or, without braces, the match itself, whose cases lead to
\* the end. rir_ctx_reset() leaves next and assign as the function before left
\* them.
BeginFunction ==
  /\ work = << >>
  /\ Len(functions) < Len(bodies)
  /\ LET body == bodies[Len(functions) + 1]
         end == Fresh(1)
         first == Fresh(2)
     IN /\ exit' = exit \o <<ReturnExit, Invalid>>
        /\ code' = code \o << << >>, << >> >>
        /\ endBlock' = end
        /\ blocks' = <<first>> /\ current' = first
        /\ work' = (IF body.kind = "block" THEN body.nodes
                    ELSE <<CaseFrame(body, 1, first, end)>>)
                   \o <<EndFunctionFrame(first)>>
  /\ UNCHANGED <<bodies, functions, next, assign, joins>>

\* Mutant: a next block is closed with itself.
EndFunction_NextToItself ==
  /\ At("endfunction")
  /\ exit' = [b \in DOMAIN exit |->
                IF b \in {next, Top.first} /\ exit[b] = Invalid
                THEN Branch(IF b = next THEN next ELSE endBlock) ELSE exit[b]]
  /\ AddBlock(endBlock)
  /\ functions' = Append(functions, [first |-> Top.first, blocks |-> blocks'])
  /\ Pop
  /\ UNCHANGED <<bodies, code, endBlock, current, next, assign, joins>>

\* A next block or a first block without an exit is connected to the end.
EndFunction ==
  /\ At("endfunction")
  /\ exit' = [b \in DOMAIN exit |->
                IF b \in {next, Top.first} /\ exit[b] = Invalid
                THEN Branch(endBlock) ELSE exit[b]]
  /\ AddBlock(endBlock)
  /\ functions' = Append(functions, [first |-> Top.first, blocks |-> blocks'])
  /\ Pop
  /\ UNCHANGED <<bodies, code, endBlock, current, next, assign, joins>>
-----------------------------------------------------------------------------
\* rir_process_ast_node() for an operand. A binary operator that is no
\* assignment resets last_assign_obj as well.
Operand ==
  /\ \/ At("value") /\ UNCHANGED assign
     \/ At("arith") /\ assign' = NoVariable
  /\ Pop
  /\ UNCHANGED <<bodies, functions, blockVars, endBlock, current, next, joins>>

ProcessCall ==
  /\ At("call")
  /\ Emit(Calling(Top.id))
  /\ Pop
  /\ UNCHANGED <<bodies, functions, exit, blocks, endBlock, current, next,
                 assign, joins>>

\* rir_process_ctorcall() writes to last_assign_obj.
ProcessCtor ==
  /\ At("ctor")
  /\ Emit(Writing(assign, Top.id))
  /\ Pop
  /\ UNCHANGED <<bodies, functions, exit, blocks, endBlock, current, next,
                 assign, joins>>

\* rir_process_binaryop() on an assignment returns right after a match, a
\* constructor and a call, without a write and with last_assign_obj still set.
ProcessAssign ==
  /\ At("assign")
  /\ assign' = Top.to
  /\ Replace(<<Top.from>> \o
             (IF Top.from.kind \in {"match", "ctor", "call"} THEN << >>
              ELSE <<StoreFrame(Top.to, Top.from.id)>>))
  /\ UNCHANGED <<bodies, functions, blockVars, endBlock, current, next, joins>>

\* Mutant: the variable stays in last_assign_obj.
Store_KeepsVariable ==
  /\ At("store")
  /\ Emit(Writing(Top.to, Top.id))
  /\ Pop
  /\ UNCHANGED <<bodies, functions, exit, blocks, endBlock, current, next,
                 assign, joins>>

Store ==
  /\ At("store")
  /\ Emit(Writing(Top.to, Top.id))
  /\ assign' = NoVariable
  /\ Pop
  /\ UNCHANGED <<bodies, functions, exit, blocks, endBlock, current, next,
                 joins>>

ProcessReturn ==
  /\ At("return")
  /\ Replace(<<Top.from, ResultFrame(Top.from.id)>>)
  /\ UNCHANGED <<bodies, functions, blockVars, endBlock, current, next, assign,
                 joins>>

StoreResult ==
  /\ At("result")
  /\ Emit(Returning(Top.id))
  /\ exit' = [exit EXCEPT ![current] = Branch(endBlock)]
  /\ Pop
  /\ UNCHANGED <<bodies, functions, blocks, endBlock, current, next, assign,
                 joins>>

\* rir_convert_init() from a boolean to a string: three new blocks.
ProcessConvert ==
  /\ At("convert")
  /\ exit' = [exit EXCEPT ![current] =
                 CondBranch(Top.id, Fresh(1), Fresh(2))]
             \o <<Branch(Fresh(3)), Branch(Fresh(3)), Invalid>>
  /\ code' = code \o << << >>, << >>, << >> >>
  /\ blocks' = blocks \o <<Fresh(1), Fresh(2), Fresh(3)>>
  /\ current' = Fresh(3)
  /\ Pop
  /\ UNCHANGED <<bodies, functions, endBlock, next, assign, joins>>
-----------------------------------------------------------------------------
\* Mutant: a next block that is there already is used again.
BeginIf_KeepsNext ==
  /\ At("if")
  /\ NewBlocks(1)
  /\ next' = IF next = NoBlock THEN Fresh(1) ELSE next
  /\ Replace(<<Top.cond, ThenFrame(Top, current, Fresh(1)), EndIfFrame>>)
  /\ UNCHANGED <<bodies, functions, blocks, endBlock, current, assign, joins>>

\* rir_process_ifexpr(): the block behind the if becomes ctx->next_block.
BeginIf ==
  /\ At("if")
  /\ NewBlocks(1)
  /\ next' = Fresh(1)
  /\ Replace(<<Top.cond, ThenFrame(Top, current, Fresh(1)), EndIfFrame>>)
  /\ UNCHANGED <<bodies, functions, blocks, endBlock, current, assign, joins>>

\* rir_process_conditional(), the taken block
ThenBlock ==
  /\ At("then")
  /\ NewBlocks(1)
  /\ AddBlock(Fresh(1))
  /\ current' = Fresh(1)
  /\ Replace(Top.if.then \o
             <<ElseFrame(Top.if, Top.old, Top.after, Fresh(1))>>)
  /\ UNCHANGED <<bodies, functions, endBlock, next, assign, joins>>

NoElseBlock ==
  /\ At("else")
  /\ Top.if.else.kind = "none"
  /\ Replace(<<ConnectFrame(Top.if, Top.old, Top.after, Top.taken, NoBlock)>>)
  /\ UNCHANGED <<bodies, functions, blockVars, endBlock, current, next, assign,
                 joins>>

\* The else block, or rir_process_elif() with a block for its condition.
ElseBlock ==
  /\ At("else")
  /\ Top.if.else.kind # "none"
  /\ NewBlocks(1)
  /\ AddBlock(Fresh(1))
  /\ current' = Fresh(1)
  /\ LET else == Top.if.else IN
     Replace((IF else.kind = "block" THEN else.nodes
              ELSE <<else.cond, ThenFrame(else, Fresh(1), Top.after)>>)
             \o <<ConnectFrame(Top.if, Top.old, Top.after, Top.taken, Fresh(1))>>)
  /\ UNCHANGED <<bodies, functions, endBlock, next, assign, joins>>

\* The end of rir_process_conditional(): all that has no other place to go to
\* goes to ctx->next_block.
Connect ==
  /\ At("connect")
  /\ LET fallthrough == IF Top.other = NoBlock THEN next ELSE Top.other
         branches == {Top.taken} \cup
                     (IF Top.if.else.kind = "block" THEN {Top.other} ELSE {})
         connected == [exit EXCEPT ![Top.old] =
                         CondBranch(Top.if.cond.id, Top.taken, fallthrough)]
         open == {b \in branches : connected[b] = Invalid}
     IN /\ exit' = [b \in DOMAIN exit |->
                      IF b \in open THEN Branch(next) ELSE connected[b]]
        /\ joins' = joins \cup {<<next, Top.after>> : b \in open}
  /\ Pop
  /\ UNCHANGED <<bodies, functions, code, blocks, endBlock, current, next,
                 assign>>

\* Mutant: the block behind the if is not added to the function.
EndIf_NotAdded ==
  /\ At("endif")
  /\ current' = next
  /\ Pop
  /\ UNCHANGED <<bodies, functions, blockVars, endBlock, next, assign, joins>>

EndIf ==
  /\ At("endif")
  /\ current' = next
  /\ AddBlock(next)
  /\ Pop
  /\ UNCHANGED <<bodies, functions, exit, code, endBlock, next, assign, joins>>
-----------------------------------------------------------------------------
\* rir_process_matchexpr() with a header: the cases lead to a new block.
BeginMatch ==
  /\ At("match")
  /\ NewBlocks(1)
  /\ Replace(<<CaseFrame(Top, 1, current, Fresh(1)), EndMatchFrame(Fresh(1))>>)
  /\ UNCHANGED <<bodies, functions, blocks, endBlock, current, next, assign,
                 joins>>

\* rir_block_matchcase_create(), behind the block of the comparison if there is
\* one: blocks of the function, the last of which becomes the current one.
NewCaseBlocks(n) ==
  /\ NewBlocks(n)
  /\ blocks' = blocks \o [i \in 1 .. n |-> Fresh(i)]
  /\ current' = Fresh(n)

\* rir_process_matchcase(): the last case is not compared, unless it is the
\* first one too. The comparison of a later case is in a block of its own.
BeginCase ==
  /\ At("case")
  /\ LET atStart == current = Top.before
         compared == Top.k < Len(Top.match.cases) /\ ~atStart
         new == IF compared THEN 2 ELSE 1
         this == IF compared THEN Fresh(1) ELSE current
     IN /\ NewCaseBlocks(new)
        /\ Replace(<<Top.match.cases[Top.k],
                     EndCaseFrame(Top, this, Fresh(new))>>)
  /\ UNCHANGED <<bodies, functions, endBlock, next, assign, joins>>

\* The write of an assigned match, the exit of the case, and the next case. The
\* first block that the next case creates is the one its call returns.
EndCase ==
  /\ At("endcase")
  /\ LET c == Top.case
         body == c.match.cases[c.k]
     IN /\ IF assign = NoVariable THEN UNCHANGED code
           ELSE Emit(Writing(assign, body.id))
        /\ exit' = [exit EXCEPT ![Top.taken] = Branch(c.after)]
        /\ Replace(IF c.k = Len(c.match.cases) THEN << >>
                   ELSE <<CaseFrame(c.match, c.k + 1, c.before, c.after),
                          LinkFrame(<<c.match.id, c.k>>, Top.this, Top.taken,
                                    Fresh(1))>>)
  /\ UNCHANGED <<bodies, functions, blocks, endBlock, current, next, assign,
                 joins>>

LinkCase ==
  /\ At("link")
  /\ exit' = [exit EXCEPT ![Top.this] =
                CondBranch(Top.cond, Top.taken, Top.other)]
  /\ Pop
  /\ UNCHANGED <<bodies, functions, code, blocks, endBlock, current, next,
                 assign, joins>>

EndMatch ==
  /\ At("endmatch")
  /\ current' = Top.after
  /\ AddBlock(Top.after)
  /\ Pop
  /\ UNCHANGED <<bodies, functions, exit, code, endBlock, next, assign, joins>>

Lower ==
  \/ BeginFunction \/ EndFunction
  \/ Operand \/ ProcessCall \/ ProcessCtor \/ ProcessAssign \/ Store
  \/ ProcessReturn \/ StoreResult \/ ProcessConvert
  \/ BeginIf \/ ThenBlock \/ NoElseBlock \/ ElseBlock \/ Connect \/ EndIf
  \/ BeginMatch \/ BeginCase \/ EndCase \/ LinkCase \/ EndMatch

Lowered == work = << >> /\ Len(functions) = Len(bodies)

LowerSpec == Init /\ [][Lower]_loweringVars
-----------------------------------------------------------------------------
Blocks == DOMAIN exit

TargetsOf(out) ==
  CASE out.type = "branch" -> {out.dst}
    [] out.type = "condbranch" -> {out.taken, out.fallthrough}
    [] OTHER -> {}

\* A list has every block once, begins with the first and ends with the end
\* block, and holds the targets of the exits of all its blocks.
IsClosed(list, first) ==
  LET own == {list[i] : i \in DOMAIN list}
  IN /\ \A i, j \in DOMAIN list : list[i] = list[j] => i = j
     /\ list[1] = first
     /\ exit[list[Len(list)]] = ReturnExit
     /\ \A b \in own : TargetsOf(exit[b]) \subseteq own

\* Every function that was lowered has a list of blocks like this.
ListsAreClosed ==
  \A k \in DOMAIN functions : IsClosed(functions[k].blocks, functions[k].first)

\* A function holds each of its blocks once, begins with its first block, ends
\* with its end block, and holds the targets of the exits of all its blocks: the
\* backend appends one LLVM block per entry and finds targets by their label. It
\* gives up on a block without an exit, and rir_block_deinit() asserts one of
\* every block ever made, those that were never added to a function too.
FunctionsAreClosed ==
  /\ work = << >> => \A b \in Blocks : exit[b] # Invalid
  /\ ListsAreClosed

\* A branch of an if without an exit of its own goes on behind that very if,
\* not behind one inside of it.
BranchesJoinBehindTheirIf == \A j \in joins : j[1] = j[2]
=============================================================================
