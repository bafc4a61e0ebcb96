---------------------------- MODULE RirFunctions ----------------------------
(***************************************************************************)
(* The lowered functions of a module, run side by side with their source:  *)
(* both runs see the same outcome of every condition. Blocks are entered   *)
(* as the backend connects them (llvm_create_blockexit(),                  *)
(* src/backend/llvm_functions.c).                                          *)
(***************************************************************************)
EXTENDS RirLowering

VARIABLES
  agenda,  \* the run of the source: what is still to be executed
  block,   \* the run of the RIR: the block it is in, or NoBlock
  pc       \* and how far it got in there

runVars == <<agenda, block, pc>>
vars == <<loweringVars, runVars>>

Idle == block = NoBlock
-----------------------------------------------------------------------------
\* The source, read as the language means it. Nodes are unfolded until
\* something observable is due: a call, a write, the result or a decision.
Event(e) == [kind |-> "event", event |-> e]
Decide(cond, then, else) ==
  [kind |-> "decide", cond |-> cond, then |-> then, else |-> else]
Finish == [kind |-> "finish"]

\* Each case is tried in turn; the last one needs no comparison.
RECURSIVE Cases(_, _, _)
Cases(n, k, target) ==
  LET do == <<n.cases[k]>> \o
            (IF target = NoVariable THEN << >>
             ELSE <<Event(Writing(target, n.cases[k].id))>>)
  IN IF k = Len(n.cases) THEN do
     ELSE <<Decide(<<n.id, k>>, do, Cases(n, k + 1, target))>>

ElseNodes(n) ==
  CASE n.else.kind = "none" -> << >>
    [] n.else.kind = "block" -> n.else.nodes
    [] n.else.kind = "if" -> <<n.else>>

Unfold(n) ==
  CASE n.kind = "value" \/ n.kind = "arith" -> << >>
    [] n.kind = "block" -> n.nodes
    [] n.kind = "call" -> <<Event(Calling(n.id))>>
    [] n.kind = "convert" -> <<Decide(n.id, << >>, << >>)>>
    [] n.kind = "assign" ->
         CASE n.from.kind = "match" -> Cases(n.from, 1, n.to)
           [] n.from.kind = "ctor" -> <<Event(Writing(n.to, n.from.id))>>
           [] OTHER -> <<n.from, Event(Writing(n.to, n.from.id))>>
    [] n.kind = "return" -> <<n.from, Event(Returning(n.from.id)), Finish>>
    [] n.kind = "if" -> <<n.cond, Decide(n.cond.id, n.then, ElseNodes(n))>>
    [] n.kind = "match" -> Cases(n, 1, NoVariable)

RECURSIVE Due(_)
Due(todo) ==
  IF todo = << >> THEN << >>
  ELSE CASE Head(todo).kind \in {"event", "decide"} -> todo
         [] Head(todo).kind = "finish" -> << >>
         [] OTHER -> Due(Unfold(Head(todo)) \o Tail(todo))

\* What the source does next.
SourceNext ==
  IF agenda = << >> THEN <<"end">>
  ELSE IF Head(agenda).kind = "event" THEN Head(agenda).event
       ELSE <<"decide", Head(agenda).cond>>

\* What the RIR does next.
RirNext ==
  IF pc <= Len(code[block]) THEN code[block][pc]
  ELSE CASE exit[block].type = "condbranch" -> <<"decide", exit[block].cond>>
         [] exit[block].type = "branch" -> <<"goto">>
         [] exit[block].type = "return" -> <<"end">>
         [] exit[block].type = "invalid" -> <<"no exit">>
-----------------------------------------------------------------------------
InitRun == Init /\ agenda = << >> /\ block = NoBlock /\ pc = 1

LowerStep == Lower /\ UNCHANGED runVars

Run(k) ==
  /\ Lowered /\ Idle
  /\ block' = functions[k].first
  /\ pc' = 1
  /\ agenda' = Due(<<bodies[k]>>)
  /\ UNCHANGED loweringVars

Goto ==
  /\ ~Idle
  /\ RirNext = <<"goto">>
  /\ block' = exit[block].dst
  /\ pc' = 1
  /\ UNCHANGED <<loweringVars, agenda>>

\* Both runs do the same.
Do ==
  /\ ~Idle
  /\ SourceNext = RirNext
  /\ SourceNext[1] \in {"call", "write", "result"}
  /\ pc' = pc + 1
  /\ agenda' = Due(Tail(agenda))
  /\ UNCHANGED <<loweringVars, block>>

Choose(outcome) ==
  /\ ~Idle
  /\ SourceNext = RirNext
  /\ SourceNext[1] = "decide"
  /\ block' = IF outcome THEN exit[block].taken ELSE exit[block].fallthrough
  /\ pc' = 1
  /\ agenda' = Due((IF outcome THEN Head(agenda).then ELSE Head(agenda).else)
                   \o Tail(agenda))
  /\ UNCHANGED loweringVars

Leave ==
  /\ ~Idle
  /\ RirNext = <<"end">>
  /\ block' = NoBlock /\ pc' = 1 /\ agenda' = << >>
  /\ UNCHANGED loweringVars

Step ==
  \/ LowerStep
  \/ Goto \/ Do \/ Leave
  \/ \E outcome \in BOOLEAN : Choose(outcome)

Next ==
  \/ Step
  \/ \E k \in DOMAIN bodies : Run(k)

\* Lowering, and a run once it has begun, go on.
Spec == InitRun /\ [][Next]_vars /\ WF_vars(Step)
-----------------------------------------------------------------------------
\* The RIR makes the calls, the writes and the decisions of the source, in its
\* order, and no others, whatever the conditions turn out to be.
RunsAsSource == ~Idle => RirNext \in {SourceNext, <<"goto">>}

\* Lowering comes to an end, and so does every run of a function.
RunsEnd == []<>(Lowered /\ Idle)
=============================================================================
