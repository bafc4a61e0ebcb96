--------------------------- MODULE RirExits_proofs --------------------------
(***************************************************************************)
(* Proofs about the lowering, for every module whose functions are those   *)
(* it is made for: every block that was made has an exit when its function *)
(* is finished.                                                            *)
(*                                                                         *)
(* A block without an exit is promised to the function, or the first one,  *)
(* or remembered by a frame of an if or of a match, or it is the current   *)
(* one and something behind it gives it an exit.                           *)
(***************************************************************************)
EXTENDS RirLowering_proofs

CONSTANT Simple  \* the statements and expressions that are lowered without a new block

Closers == {"if", "return", "result"}
Closes(w) == w.kind \in Closers

\* Statements and frames that leave the current block behind for another one.
Leaves(w) == \/ w.kind \in {"if", "endif", "endmatch"}
             \/ w.kind \in PlainKinds /\ w \notin Simple
\* What leaves a block behind it that the end of the function knows nothing of.
NeedsCloser(w) == \/ w.kind = "endmatch"
                  \/ w.kind \in PlainKinds \ {"return"} /\ w \notin Simple

\* Branches, conditions and cases of matches are simple, a match has two cases or
\* more, and behind a statement that needs it there is an if or a return.
IsTidy ==
  /\ IsStraight
  /\ Simple \subseteq Plain
  /\ \A n \in Simple : /\ n.kind \notin {"match", "convert"}
                       /\ n.kind \in {"assign", "return"} => n.from \in Simple
  /\ \A n \in Plain : n.kind = "match" => n.cases \in Seq(Simple) /\ Len(n.cases) > 1
  /\ \A n \in Ifs : /\ n.cond \in Simple /\ n.then \in Seq(Simple)
                    /\ n.else.kind = "block" => n.else.nodes \in Seq(Simple)
  /\ \A m \in Modules : \A k \in 1..Len(m) : m[k].kind = "block" =>
       \A i \in 1..Len(m[k].nodes) : NeedsCloser(m[k].nodes[i]) =>
         \E j \in 1..Len(m[k].nodes) : i < j /\ Closes(m[k].nodes[j])

\* The blocks that a frame will give an exit.
Remembered(w) ==
  CASE w.kind = "then" -> {w.old}
    [] w.kind = "else" -> {w.old, w.taken}
    [] w.kind = "connect" -> {w.old, w.taken} \cup (IF w.if.else.kind = "block" THEN {w.other} ELSE {})
    [] w.kind = "case" -> IF w.k = 1 THEN {w.before} ELSE {}
    [] w.kind = "endcase" ->
         {w.taken} \cup (IF w.case.k < Len(w.case.match.cases) THEN {w.this} ELSE {})
    [] w.kind = "link" -> {w.this}
    [] OTHER -> {}

\* Frames in which the current block is one that is remembered.
DeepFrames == IfFrames \cup {"endif", "case", "endcase", "link", "endmatch"}
Shallow(w) == w.kind \notin DeepFrames

\* Whatever leaves the current block behind is not inside of an if or a match,
\* and what needs it is followed by something that gives the new one an exit.
WorkIsTidy ==
  /\ \A i, j \in 1..Len(work) : i < j /\ Leaves(work[i]) => Shallow(work[j])
  /\ \A i \in 1..Len(work) : NeedsCloser(work[i]) => \E j \in 1..Len(work) : i < j /\ Closes(work[j])
  /\ \A i \in 1..Len(work) : work[i].kind = "case" => i = 1 /\ (work[i].k = 1 => work[i].before = current)

\* The current block outside of ifs and matches gets one from what follows, or
\* from the end of the function.
CurrentWillClose ==
  /\ \A i \in 1..Len(work) : Shallow(work[i])
  /\ current = next \/ \E i \in 1..Len(work) : Closes(work[i])

WillClose(b) ==
  \/ b \in Promised
  \/ b = blocks[1]
  \/ b = current /\ CurrentWillClose
  \/ \E i \in 1..Len(work) : b \in Remembered(work[i])

OpenInv ==
  /\ work = << >> => \A b \in Blocks : exit[b] # Invalid
  /\ work # << >> => WorkIsTidy /\ \A b \in 1..Len(exit) : exit[b] = Invalid => WillClose(b)
-----------------------------------------------------------------------------
(* A step that puts items in the place of the top of the stack *)

KeepsTidy(items) ==
  \A i \in 1..Len(items) :
    /\ Leaves(items[i]) => /\ Leaves(work[1])
                           /\ \A j \in 1..Len(items) : i < j => Shallow(items[j])
    /\ NeedsCloser(items[i]) => \/ NeedsCloser(work[1])
                                \/ \E j \in 1..Len(items) : i < j /\ Closes(items[j])
    /\ items[i].kind = "case" => i = 1 /\ (items[i].k = 1 => items[i].before = current')

\* Where the items and what was below the top are after the step.
LEMMA AfterReplacing ==
  ASSUME IsSeq(work), work # << >>, NEW items, IsSeq(items), work' = items \o Tail(work)
  PROVE  /\ Len(items) \in Nat /\ Len(work) \in Nat \ {0} /\ Len(work') \in Nat
         /\ Len(work') = Len(items) + (Len(work) - 1)
         /\ \A i \in 1..Len(items) : i \in 1..Len(work') /\ work'[i] = items[i]
         /\ \A o \in 2..Len(work) : /\ (o - 1) + Len(items) \in 1..Len(work')
                                    /\ work'[(o - 1) + Len(items)] = work[o]
         /\ \A i \in 1..Len(work') :
              \/ i \in 1..Len(items)
              \/ /\ Len(items) < i /\ (i - Len(items)) + 1 \in 2..Len(work)
                 /\ work'[i] = work[(i - Len(items)) + 1]
<1>1. /\ Len(items) \in Nat /\ Len(work) \in Nat \ {0}
      /\ Len(work') = Len(items) + (Len(work) - 1)
      /\ \A i \in 1..Len(items) : work'[i] = items[i]
      /\ \A o \in 2..Len(work) : (o - 1) + Len(items) \in 1..Len(work') /\ work'[(o - 1) + Len(items)] = work[o]
      /\ \A i \in 1..Len(work') :
           \/ i \in 1..Len(items)
           \/ /\ Len(items) < i /\ (i - Len(items)) + 1 \in 2..Len(work)
              /\ work'[i] = work[(i - Len(items)) + 1]
  BY Replacing
<1>2. Len(work') \in Nat /\ Len(items) <= Len(work')
  BY <1>1
<1>3. \A i \in 1..Len(items) : i \in 1..Len(work')
  BY <1>1, <1>2
<1>. QED
  BY <1>1, <1>2, <1>3

LEMMA TidyStays ==
  ASSUME IsSeq(work), work # << >>, WorkIsTidy,
         NEW items, IsSeq(items), work' = items \o Tail(work), KeepsTidy(items)
  PROVE  WorkIsTidy'
<1>. DEFINE m == Len(items)
            Old(i) == (i - m) + 1
<1>1. /\ m \in Nat /\ Len(work) \in Nat \ {0} /\ Len(work') \in Nat /\ 1 \in 1..Len(work)
      /\ \A i \in 1..m : i \in 1..Len(work') /\ work'[i] = items[i]
      /\ \A o \in 2..Len(work) : (o - 1) + m \in 1..Len(work') /\ work'[(o - 1) + m] = work[o]
      /\ \A i \in 1..Len(work') : \/ i \in 1..m
                                  \/ m < i /\ Old(i) \in 2..Len(work) /\ work'[i] = work[Old(i)]
  BY AfterReplacing
<1>2. \A o \in 2..Len(work) : o \in 1..Len(work) /\ 1 < o
  BY <1>1
<1>3. \A i, j \in 1..Len(work') : m < i /\ i < j => Old(i) < Old(j) /\ j \notin 1..m
  BY <1>1
<1>30. \A i, j \in 1..Len(work') : i \in 1..m /\ j \notin 1..m => i < j
  BY <1>1
<1>31. \A i \in 1..Len(work') : \A o \in 2..Len(work) : m < i /\ Old(i) < o => i < (o - 1) + m
  BY <1>1
<1>32. \A i \in 1..m : \A o \in 2..Len(work) : i < (o - 1) + m
  BY <1>1
<1>. HIDE DEF m, Old
<1>4. ASSUME NEW i \in 1..Len(work'), NEW j \in 1..Len(work'), i < j, Leaves(work'[i])
      PROVE  Shallow(work'[j])
  <2>1. CASE i \in 1..m /\ j \in 1..m
    BY <1>1, <1>4, <2>1 DEF KeepsTidy, m
  <2>2. CASE i \in 1..m /\ j \notin 1..m
    <3>1. Leaves(work[1])
      BY <1>1, <1>4, <2>2 DEF KeepsTidy, m
    <3>. QED
      BY <1>1, <1>2, <2>2, <3>1 DEF WorkIsTidy
  <2>3. CASE i \notin 1..m
    <3>1. m < i /\ Old(i) \in 2..Len(work) /\ work'[i] = work[Old(i)]
      BY <1>1, <2>3
    <3>2. j \notin 1..m /\ Old(i) < Old(j)
      BY <1>3, <1>4, <3>1
    <3>3. Old(j) \in 2..Len(work) /\ work'[j] = work[Old(j)]
      BY <1>1, <3>2
    <3>. QED
      BY <1>2, <1>4, <3>1, <3>2, <3>3 DEF WorkIsTidy
  <2>. QED
    BY <2>1, <2>2, <2>3
<1>5. ASSUME NEW i \in 1..Len(work'), NeedsCloser(work'[i])
      PROVE  \E j \in 1..Len(work') : i < j /\ Closes(work'[j])
  <2>1. CASE i \in 1..m
    <3>1. CASE \E j \in 1..m : i < j /\ Closes(items[j])
      BY <1>1, <3>1
    <3>2. CASE NeedsCloser(work[1])
      <4>1. PICK o \in 1..Len(work) : 1 < o /\ Closes(work[o])
        BY <1>1, <3>2 DEF WorkIsTidy
      <4>2. o \in 2..Len(work)
        BY <1>1, <4>1
      <4>. QED
        BY <1>1, <1>32, <2>1, <4>1, <4>2
    <3>. QED
      BY <1>1, <1>5, <2>1, <3>1, <3>2 DEF KeepsTidy, m
  <2>2. CASE i \notin 1..m
    <3>1. m < i /\ Old(i) \in 2..Len(work) /\ work'[i] = work[Old(i)]
      BY <1>1, <2>2
    <3>2. PICK o \in 1..Len(work) : Old(i) < o /\ Closes(work[o])
      BY <1>2, <1>5, <3>1 DEF WorkIsTidy
    <3>3. o \in 2..Len(work)
      BY <1>1, <3>1, <3>2
    <3>. QED
      BY <1>1, <1>31, <3>1, <3>2, <3>3
  <2>. QED
    BY <2>1, <2>2
<1>6. ASSUME NEW i \in 1..Len(work'), work'[i].kind = "case"
      PROVE  i = 1 /\ (work'[i].k = 1 => work'[i].before = current')
  <2>1. CASE i \in 1..m
    BY <1>1, <1>6, <2>1 DEF KeepsTidy, m
  <2>2. CASE i \notin 1..m
    <3>1. Old(i) \in 2..Len(work) /\ work'[i] = work[Old(i)]
      BY <1>1, <2>2
    <3>2. Old(i) # 1
      BY <1>2, <3>1
    <3>. QED
      BY <1>2, <1>6, <3>1, <3>2 DEF WorkIsTidy
  <2>. QED
    BY <2>1, <2>2
<1>. QED
  BY <1>4, <1>5, <1>6 DEF WorkIsTidy

\* What covers block b, but for the top of the stack and the current block.
Elsewhere(b) ==
  /\ b \in 1..Len(exit) /\ exit[b] = Invalid
  /\ work[1].kind \in {"endif", "endmatch"} => b # PromisedBy(work[1], next)
  /\ b = current => ~CurrentWillClose
  /\ b \notin Remembered(work[1])

LEMMA OpenStays ==
  ASSUME IsSeq(work), work # << >>, OpenInv,
         NEW items, IsSeq(items), work' = items \o Tail(work), work' # << >>, KeepsTidy(items),
         blocks'[1] = blocks[1],
         next' = next \/ \A o \in 1..Len(work) : work[o].kind # "endif",
         \A b \in 1..Len(exit') : exit'[b] = Invalid => Elsewhere(b) \/ WillClose(b)'
  PROVE  OpenInv'
<1>1. WorkIsTidy /\ \A b \in 1..Len(exit) : exit[b] = Invalid => WillClose(b)
  BY DEF OpenInv
<1>2. WorkIsTidy'
  BY <1>1, TidyStays
<1>3. /\ IsSeq(work') /\ Len(work) \in Nat \ {0} /\ DOMAIN work = 1..Len(work) /\ DOMAIN work' = 1..Len(work')
      /\ \A o \in 2..Len(work) : /\ (o - 1) + Len(items) \in 1..Len(work')
                                 /\ work'[(o - 1) + Len(items)] = work[o]
  <2>1. IsSeq(work')
    BY Replacing
  <2>. QED
    BY <2>1, AfterReplacing, SeqFacts
<1>4. \A o \in 1..Len(work) : o # 1 => o \in 2..Len(work)
  BY <1>3
<1>5. ASSUME NEW b \in 1..Len(exit'), Elsewhere(b)
      PROVE  WillClose(b)'
  <2>1. WillClose(b)
    BY <1>1, <1>5 DEF Elsewhere
  <2>2. CASE b \in Promised
    <3>1. PICK o \in 1..Len(work) : work[o].kind \in {"endif", "endmatch"} /\ b = PromisedBy(work[o], next)
      BY <1>3, <2>2 DEF Promised, Promising
    <3>2. o # 1
      BY <1>5, <3>1 DEF Elsewhere
    <3>3. PICK i \in 1..Len(work') : work'[i] = work[o]
      BY <1>3, <1>4, <3>2
    <3>4. i \in Promising' /\ b = PromisedBy(work'[i], next')
      BY <1>3, <3>1, <3>3 DEF Promising, PromisedBy
    <3>5. b \in Promised'
      BY <3>4 DEF Promised
    <3>. QED
      BY <3>5 DEF WillClose
  <2>3. CASE b = blocks[1]
    BY <2>3 DEF WillClose
  <2>4. CASE b = current /\ CurrentWillClose
    BY <1>5, <2>4 DEF Elsewhere
  <2>5. CASE \E o \in 1..Len(work) : b \in Remembered(work[o])
    <3>1. PICK o \in 1..Len(work) : b \in Remembered(work[o])
      BY <2>5
    <3>2. o # 1
      BY <1>5, <3>1 DEF Elsewhere
    <3>3. PICK i \in 1..Len(work') : work'[i] = work[o]
      BY <1>3, <1>4, <3>2
    <3>4. b \in Remembered(work'[i])
      BY <3>1, <3>3
    <3>. QED
      BY <3>4 DEF WillClose
  <2>. QED
    BY <2>1, <2>2, <2>3, <2>4, <2>5 DEF WillClose
<1>6. \A b \in 1..Len(exit') : exit'[b] = Invalid => WillClose(b)'
  BY <1>5
<1>. QED
  BY <1>2, <1>6 DEF OpenInv
-----------------------------------------------------------------------------
(* Steps that stay in the current block *)

LEMMA SomethingIsLeft ==
  ASSUME LoweringInv, work # << >>, work[1].kind # "endfunction",
         NEW items, IsSeq(items), work' = items \o Tail(work)
  PROVE  work' # << >> /\ IsSeq(work)
<1>1. WorkIsNested /\ Len(work) \in Nat \ {0} /\ 1 \in 1..Len(work) /\ IsSeq(work)
  BY TopFits
<1>2. Len(work) # 1
  BY <1>1 DEF WorkIsNested
<1>3. Len(items) \in Nat /\ Len(work') = Len(items) + (Len(work) - 1)
  BY <1>1, AfterReplacing
<1>4. Len(work') # 0
  <2>1. PICK l \in Nat \ {0}, m \in Nat : l = Len(work) /\ m = Len(items)
    BY <1>1, <1>3
  <2>2. Len(work') = m + (l - 1) /\ l # 1
    BY <1>2, <1>3, <2>1
  <2>. QED
    BY <2>2
<1>5. IsSeq(work')
  BY <1>1, Replacing
<1>. QED
  BY <1>1, <1>4, <1>5, SeqFacts

LEMMA CurrentStays ==
  ASSUME IsSeq(work), work # << >>, CurrentWillClose,
         NEW items, IsSeq(items), work' = items \o Tail(work),
         UNCHANGED <<current, next>>, \A i \in 1..Len(items) : Shallow(items[i]),
         Closes(work[1]) => \E i \in 1..Len(items) : Closes(items[i])
  PROVE  CurrentWillClose'
<1>. DEFINE m == Len(items)
<1>1. /\ m \in Nat /\ Len(work) \in Nat \ {0}
      /\ \A i \in 1..m : i \in 1..Len(work') /\ work'[i] = items[i]
      /\ \A o \in 2..Len(work) : (o - 1) + m \in 1..Len(work') /\ work'[(o - 1) + m] = work[o]
      /\ \A i \in 1..Len(work') : \/ i \in 1..m
                                  \/ (i - m) + 1 \in 2..Len(work) /\ work'[i] = work[(i - m) + 1]
  BY AfterReplacing
<1>2. /\ \A o \in 2..Len(work) : o \in 1..Len(work)
      /\ \A o \in 1..Len(work) : o # 1 => o \in 2..Len(work)
  BY <1>1
<1>. HIDE DEF m
<1>3. \A i \in 1..Len(work') : Shallow(work'[i])
  BY <1>1, <1>2 DEF CurrentWillClose, m
<1>4. CASE current = next
  BY <1>3, <1>4 DEF CurrentWillClose
<1>5. CASE \E o \in 1..Len(work) : Closes(work[o])
  <2>1. PICK o \in 1..Len(work) : Closes(work[o])
    BY <1>5
  <2>2. \E i \in 1..Len(work') : Closes(work'[i])
    BY <1>1, <1>2, <2>1 DEF m
  <2>. QED
    BY <1>3, <2>2 DEF CurrentWillClose
<1>. QED
  BY <1>4, <1>5 DEF CurrentWillClose

\* No block is made, and at most the current one gets an exit.
LEMMA StayingStays ==
  ASSUME LoweringInv, OpenInv, work # << >>,
         work[1].kind \in PlainKinds \cup {"store", "result"},
         NEW items, IsSeq(items), work' = items \o Tail(work), KeepsTidy(items),
         UNCHANGED <<blocks, current, next>>, Len(exit') = Len(exit),
         \A b \in 1..Len(exit) : exit'[b] = exit[b] \/ exit'[b] # Invalid,
         \/ exit'[current] # Invalid
         \/ /\ \A i \in 1..Len(items) : Shallow(items[i])
            /\ Closes(work[1]) => \E i \in 1..Len(items) : Closes(items[i])
  PROVE  OpenInv'
<1>1. work' # << >> /\ IsSeq(work)
  BY SomethingIsLeft DEF PlainKinds
<1>2. Remembered(work[1]) = {} /\ work[1].kind \notin {"endif", "endmatch"}
  BY DEF Remembered, PlainKinds
<1>3. ASSUME NEW b \in 1..Len(exit'), exit'[b] = Invalid
      PROVE  Elsewhere(b) \/ WillClose(b)'
  <2>1. b \in 1..Len(exit) /\ exit[b] = Invalid
    BY <1>3
  <2>2. CASE b = current /\ CurrentWillClose
    <3>1. CurrentWillClose'
      BY <1>1, <1>3, <2>2, CurrentStays
    <3>. QED
      BY <2>2, <3>1 DEF WillClose
  <2>3. CASE ~(b = current /\ CurrentWillClose)
    BY <1>2, <2>1, <2>3 DEF Elsewhere
  <2>. QED
    BY <2>2, <2>3
<1>. QED
  BY <1>1, <1>3, OpenStays

LEMMA PoppingStays ==
  ASSUME LoweringInv, OpenInv, work # << >>, Pop,
         work[1].kind \in PlainKinds \cup {"store", "result"},
         UNCHANGED <<blocks, current, next>>, Len(exit') = Len(exit),
         \A b \in 1..Len(exit) : exit'[b] = exit[b] \/ exit'[b] # Invalid,
         exit'[current] # Invalid \/ ~Closes(work[1])
  PROVE  OpenInv'
<1>1. PICK items : items = << >>
  OBVIOUS
<1>2. IsSeq(items) /\ work' = items \o Tail(work) /\ \A i \in 1..Len(items) : FALSE
  BY <1>1, Popping, ShortSequences DEF LoweringInv, Pop
<1>3. KeepsTidy(items)
  BY <1>2 DEF KeepsTidy
<1>. QED
  BY <1>2, <1>3, StayingStays

LEMMA SimpleStays ==
  ASSUME LoweringInv, OpenInv, Operand \/ ProcessCall \/ ProcessCtor \/ Store
  PROVE  OpenInv'
<1>1. work # << >> /\ work[1].kind \in {"value", "arith", "call", "ctor", "store"}
  BY TopFits DEF Operand, ProcessCall, ProcessCtor, Store, At
<1>2. Pop /\ UNCHANGED <<exit, blocks, current, next>>
  BY DEF Operand, ProcessCall, ProcessCtor, Store, blockVars
<1>3. ~Closes(work[1]) /\ work[1].kind \in PlainKinds \cup {"store", "result"}
  BY <1>1 DEF Closes, Closers, PlainKinds
<1>. QED
  BY <1>1, <1>2, <1>3, PoppingStays

LEMMA StoreResultStays ==
  ASSUME LoweringInv, OpenInv, StoreResult
  PROVE  OpenInv'
<1>1. /\ work # << >> /\ work[1].kind = "result" /\ Pop
      /\ exit' = [exit EXCEPT ![current] = Branch(endBlock)]
      /\ UNCHANGED <<blocks, current, next>>
  BY TopFits DEF StoreResult, At
<1>2. current \in 1..Len(exit) /\ DOMAIN exit = 1..Len(exit) /\ IsSeq(exit)
  BY <1>1, TopFits DEF BlocksAreListed
<1>3. PICK out : out = Branch(endBlock)
  OBVIOUS
<1>4. out # Invalid
  BY <1>3, ExitFacts
<1>5. exit' = [exit EXCEPT ![current] = out]
  BY <1>1, <1>3
<1>6. /\ DOMAIN exit' = DOMAIN exit /\ exit'[current] = out
      /\ \A b \in 1..Len(exit) : exit'[b] = exit[b] \/ exit'[b] = out
  BY <1>2, <1>5
<1>7. Len(exit') = Len(exit)
  <2>1. IsFunction(exit')
    BY <1>5 DEF IsFunction
  <2>. QED
    BY <1>2, <1>6, <2>1, SomeExitsChanged
<1>. QED
  BY <1>1, <1>4, <1>6, <1>7, PoppingStays

\* What is processed instead of an assignment or a return, and then its frame.
LEMMA OperandStays ==
  ASSUME IsTidy, LoweringInv, OpenInv, work # << >>, work[1].kind \in {"assign", "return"},
         NEW n, n = work[1].from, NEW items, IsSeq(items), work' = items \o Tail(work),
         \/ Len(items) = 1 /\ items[1] = n /\ work[1].kind = "assign"
         \/ /\ Len(items) = 2 /\ items[1] = n
            /\ items[2].kind = IF work[1].kind = "assign" THEN "store" ELSE "result",
         UNCHANGED <<exit, blocks, current, next>>
  PROVE  OpenInv'
<1>1. work[1] \in Plain /\ n \in Plain /\ n.kind \in PlainKinds /\ (work[1] \in Simple => n \in Simple)
  BY TopFits DEF Fits, IsTidy, IsStraight, PlainKinds
<1>2. ~Leaves(items[1]) \/ Leaves(work[1])
  BY <1>1 DEF Leaves, PlainKinds
<1>3. work[1].kind \in PlainKinds \cup {"store", "result"}
  BY DEF PlainKinds
<1>4. \A i \in 1..Len(items) : i = 1 \/ (i = 2 /\ items[i].kind \in {"store", "result"})
  OBVIOUS
<1>5. \A i \in 1..Len(items) : /\ Shallow(items[i]) /\ items[i].kind # "case"
                               /\ Leaves(items[i]) => i = 1
                               /\ NeedsCloser(items[i]) => i = 1
  BY <1>1, <1>4 DEF Shallow, DeepFrames, IfFrames, Leaves, NeedsCloser, PlainKinds
<1>6. CASE work[1].kind = "assign"
  <2>1. NeedsCloser(items[1]) => NeedsCloser(work[1])
    BY <1>1, <1>6 DEF NeedsCloser, PlainKinds
  <2>2. KeepsTidy(items)
    BY <1>2, <1>5, <2>1 DEF KeepsTidy
  <2>3. ~Closes(work[1])
    BY <1>6 DEF Closes, Closers
  <2>. QED
    BY <1>3, <1>5, <2>2, <2>3, StayingStays
<1>7. CASE work[1].kind = "return"
  <2>0. Len(items) = 2 /\ items[2].kind = "result"
    BY <1>7
  <2>1. 2 \in 1..Len(items) /\ Closes(items[2])
    BY <2>0 DEF Closes, Closers
  <2>2. KeepsTidy(items)
    BY <1>2, <1>5, <2>1 DEF KeepsTidy
  <2>. QED
    BY <1>3, <1>5, <2>1, <2>2, StayingStays
<1>. QED
  BY <1>6, <1>7

LEMMA ProcessAssignStays ==
  ASSUME IsTidy, LoweringInv, OpenInv, ProcessAssign
  PROVE  OpenInv'
<1>1. /\ work # << >> /\ work[1].kind = "assign" /\ Top = work[1]
      /\ UNCHANGED <<exit, blocks, current, next>>
  BY TopFits DEF ProcessAssign, At, Top, blockVars
<1>2. PICK n : n = work[1].from
  OBVIOUS
<1>3. PICK frame : frame = StoreFrame(Top.to, Top.from.id)
  OBVIOUS
<1>4. frame.kind = "store"
  BY <1>3 DEF StoreFrame
<1>5. \/ work' = <<n>> \o Tail(work)
      \/ work' = <<n, frame>> \o Tail(work)
  BY <1>1, <1>2, <1>3 DEF ProcessAssign, Replace
<1>6. PICK items : items \in {<<n>>, <<n, frame>>} /\ work' = items \o Tail(work)
  BY <1>5
<1>7. IsSeq(items) /\ items[1] = n /\ (Len(items) = 1 \/ (Len(items) = 2 /\ items[2] = frame))
  BY <1>6, ShortSequences
<1>. QED
  BY <1>1, <1>2, <1>4, <1>6, <1>7, OperandStays

LEMMA ProcessReturnStays ==
  ASSUME IsTidy, LoweringInv, OpenInv, ProcessReturn
  PROVE  OpenInv'
<1>1. /\ work # << >> /\ work[1].kind = "return" /\ Top = work[1]
      /\ UNCHANGED <<exit, blocks, current, next>>
  BY TopFits DEF ProcessReturn, At, Top, blockVars
<1>2. PICK n : n = work[1].from
  OBVIOUS
<1>3. PICK frame : frame = ResultFrame(Top.from.id)
  OBVIOUS
<1>4. frame.kind = "result"
  BY <1>3 DEF ResultFrame
<1>5. PICK items : items = <<n, frame>>
  OBVIOUS
<1>6. work' = items \o Tail(work)
  BY <1>1, <1>2, <1>3, <1>5 DEF ProcessReturn, Replace
<1>7. IsSeq(items) /\ Len(items) = 2 /\ items[1] = n /\ items[2] = frame
  BY <1>5, ShortSequences
<1>. QED
  BY <1>1, <1>2, <1>4, <1>6, <1>7, OperandStays
-----------------------------------------------------------------------------
(* Steps that make blocks, and the frames of an if *)

LEMMA RememberedByItem ==
  ASSUME IsSeq(work), work # << >>, NEW items, IsSeq(items), work' = items \o Tail(work),
         NEW i \in 1..Len(items), NEW b, b \in Remembered(items[i])
  PROVE  WillClose(b)'
<1>1. i \in 1..Len(work') /\ work'[i] = items[i]
  BY AfterReplacing
<1>2. b \in Remembered(work'[i])
  BY <1>1
<1>. QED
  BY <1>1, <1>2 DEF WillClose

LEMMA PromisedByItem ==
  ASSUME IsSeq(work), work # << >>, NEW items, IsSeq(items), work' = items \o Tail(work),
         NEW i \in 1..Len(items), items[i].kind \in {"endif", "endmatch"},
         NEW b, b = PromisedBy(items[i], next')
  PROVE  WillClose(b)'
<1>1. i \in 1..Len(work') /\ work'[i] = items[i]
  BY AfterReplacing
<1>2. IsSeq(work')
  BY Replacing
<1>3. i \in Promising' /\ b = PromisedBy(work'[i], next')
  BY <1>1, <1>2, SeqFacts DEF Promising
<1>4. b \in Promised'
  BY <1>3 DEF Promised
<1>. QED
  BY <1>4 DEF WillClose

\* Below a frame of an if or of a match, the current block is remembered.
LEMMA DeepIsRemembered ==
  ASSUME IsSeq(work), work # << >>, work[1].kind \in DeepFrames
  PROVE  ~CurrentWillClose
<1>1. 1 \in 1..Len(work)
  BY SeqFacts
<1>. QED
  BY <1>1 DEF CurrentWillClose, Shallow

\* What follows something that leaves the current block behind, and needs it.
LEMMA NextWillClose ==
  ASSUME IsSeq(work), work # << >>, WorkIsTidy, Leaves(work[1]), work' = Tail(work),
         NeedsCloser(work[1]) \/ current' = next'
  PROVE  CurrentWillClose'
<1>1. PICK items : items = << >>
  OBVIOUS
<1>2. IsSeq(items) /\ work' = items \o Tail(work) /\ \A i \in 1..Len(items) : FALSE
  BY <1>1, Popping, ShortSequences
<1>3. /\ Len(work) \in Nat \ {0}
      /\ \A o \in 2..Len(work) : (o - 1) + Len(items) \in 1..Len(work') /\ work'[(o - 1) + Len(items)] = work[o]
      /\ \A i \in 1..Len(work') : \/ i \in 1..Len(items)
                                  \/ (i - Len(items)) + 1 \in 2..Len(work) /\ work'[i] = work[(i - Len(items)) + 1]
  BY <1>2, AfterReplacing
<1>4. \A i \in 1..Len(work') : \E o \in 2..Len(work) : work'[i] = work[o]
  BY <1>2, <1>3
<1>5. 1 \in 1..Len(work) /\ \A o \in 2..Len(work) : o \in 1..Len(work) /\ 1 < o
  BY <1>3
<1>6. \A i \in 1..Len(work') : Shallow(work'[i])
  BY <1>4, <1>5 DEF WorkIsTidy
<1>7. CASE NeedsCloser(work[1])
  <2>1. PICK o \in 1..Len(work) : 1 < o /\ Closes(work[o])
    BY <1>5, <1>7 DEF WorkIsTidy
  <2>2. o \in 2..Len(work)
    BY <1>3, <2>1
  <2>3. \E i \in 1..Len(work') : Closes(work'[i])
    BY <1>3, <2>1, <2>2
  <2>. QED
    BY <1>6, <2>3 DEF CurrentWillClose
<1>8. CASE current' = next'
  BY <1>6, <1>8 DEF CurrentWillClose
<1>. QED
  BY <1>7, <1>8

\* The first block is still the first one.
LEMMA FirstStays ==
  ASSUME BlocksAreListed, NEW added \in Seq(Nat), blocks' = blocks \o added
  PROVE  blocks'[1] = blocks[1]
<1>1. PICK old \in Seq(Nat) : old = blocks /\ old # << >>
  BY DEF BlocksAreListed
<1>2. 1 \in 1..Len(old)
  BY <1>1
<1>3. (old \o added)[1] = old[1]
  BY <1>2, ConcatProperties
<1>. QED
  BY <1>1, <1>3

\* The first statement that leaves a block behind, convert or match.
LEMMA ComplexNodes ==
  ASSUME IsTidy, LoweringInv, work # << >>, work[1].kind \in {"convert", "match"}
  PROVE  Leaves(work[1]) /\ NeedsCloser(work[1]) /\ Remembered(work[1]) = {}
<1>1. work[1] \in Plain /\ work[1] \notin Simple
  BY TopFits DEF Fits, PlainKinds, IsTidy
<1>. QED
  BY <1>1 DEF Leaves, NeedsCloser, Remembered, PlainKinds

LEMMA ProcessConvertStays ==
  ASSUME IsTidy, LoweringInv, OpenInv, ProcessConvert
  PROVE  OpenInv'
<1>1. /\ work # << >> /\ work[1].kind = "convert" /\ Top = work[1] /\ Pop /\ UNCHANGED next
  BY TopFits DEF ProcessConvert, At, Top
<1>2. /\ BlocksAreListed /\ IsSeq(exit) /\ IsSeq(work) /\ Len(exit) \in Nat
      /\ DOMAIN exit = 1..Len(exit) /\ current \in 1..Len(exit)
  BY <1>1, TopFits DEF BlocksAreListed
<1>3. PICK n \in Nat : n = Len(exit)
  BY <1>2
<1>4. PICK out : out = CondBranch(Top.id, n + 1, n + 2)
  OBVIOUS
<1>5. PICK old : old = [exit EXCEPT ![current] = out]
  OBVIOUS
<1>6. PICK new : new = <<Branch(n + 3), Branch(n + 3), Invalid>>
  OBVIOUS
<1>7. PICK added : added = <<n + 1, n + 2, n + 3>>
  OBVIOUS
<1>8. exit' = old \o new /\ blocks' = blocks \o added /\ current' = n + 3
  BY <1>3, <1>4, <1>5, <1>6, <1>7 DEF ProcessConvert, Fresh
<1>9. /\ IsSeq(old) /\ Len(old) = n
      /\ \A b \in 1..n : old[b] = IF b = current THEN out ELSE exit[b]
  <2>1. DOMAIN old = DOMAIN exit
    BY <1>5
  <2>2. IsFunction(old)
    BY <1>5 DEF IsFunction
  <2>3. IsSeq(old) /\ Len(old) = n
    BY <1>2, <1>3, <2>1, <2>2, SomeExitsChanged
  <2>. QED
    BY <1>2, <1>3, <1>5, <2>3
<1>10. IsSeq(new) /\ Len(new) = 3 /\ new[1] = Branch(n + 3) /\ new[2] = Branch(n + 3)
  BY <1>6, ShortSequences
<1>11. /\ Len(exit') = n + 3 /\ \A b \in 1..n : exit'[b] = old[b]
       /\ exit'[n + 1] = Branch(n + 3) /\ exit'[n + 2] = Branch(n + 3)
  <2>1. /\ Len(old \o new) = Len(old) + Len(new)
        /\ \A b \in 1..Len(old) : (old \o new)[b] = old[b]
        /\ \A i \in 1..Len(new) : (old \o new)[Len(old) + i] = new[i]
    <3>1. IsSeq(old) /\ IsSeq(new)
      BY <1>9, <1>10
    <3>. QED
      BY <3>1, Concatenation
  <2>2. 1 \in 1..3 /\ 2 \in 1..3
    OBVIOUS
  <2>. QED
    BY <1>8, <1>9, <1>10, <2>1, <2>2
<1>12. blocks'[1] = blocks[1]
  <2>1. added \in Seq(Nat)
    BY <1>7
  <2>. QED
    BY <1>2, <1>8, <2>1, FirstStays
<1>13. Leaves(work[1]) /\ NeedsCloser(work[1]) /\ Remembered(work[1]) = {}
  BY <1>1, ComplexNodes
<1>14. CurrentWillClose'
  BY <1>1, <1>2, <1>13, NextWillClose DEF OpenInv, Pop
<1>15. PICK items : items = << >>
  OBVIOUS
<1>16. IsSeq(items) /\ work' = items \o Tail(work) /\ \A i \in 1..Len(items) : FALSE
  BY <1>1, <1>15, Popping, ShortSequences DEF LoweringInv, Pop
<1>17. KeepsTidy(items)
  BY <1>16 DEF KeepsTidy
<1>18. work' # << >>
  BY <1>1, <1>16, SomethingIsLeft
<1>19. ASSUME NEW b \in 1..Len(exit'), exit'[b] = Invalid
       PROVE  Elsewhere(b) \/ WillClose(b)'
  <2>1. b # n + 1 /\ b # n + 2
    BY <1>11, <1>19, ExitFacts
  <2>2. b \in 1..n \/ b = n + 3
    BY <1>11, <2>1
  <2>3. CASE b = n + 3
    BY <1>8, <1>14, <2>3 DEF WillClose
  <2>4. CASE b \in 1..n
    <3>1. b # current /\ exit[b] = Invalid
      BY <1>4, <1>9, <1>11, <1>19, <2>4, ExitFacts
    <3>. QED
      BY <1>1, <1>3, <1>13, <2>4, <3>1 DEF Elsewhere
  <2>. QED
    BY <2>2, <2>3, <2>4
<1>. QED
  BY <1>1, <1>2, <1>12, <1>16, <1>17, <1>18, <1>19, OpenStays

LEMMA BeginIfStays ==
  ASSUME IsTidy, LoweringInv, OpenInv, BeginIf
  PROVE  OpenInv'
<1>1. /\ work # << >> /\ work[1].kind = "if" /\ Top = work[1] /\ NewBlocks(1) /\ next' = Fresh(1)
      /\ UNCHANGED <<blocks, current>>
  BY TopFits DEF BeginIf, At, Top
<1>2. PICK top : top = work[1]
  OBVIOUS
<1>3. PICK b : b = Fresh(1)
  OBVIOUS
<1>4. PICK n \in Simple : n = top.cond
  BY <1>1, <1>2, TopFits DEF Fits, IsTidy
<1>5. PICK then : then = ThenFrame(top, current, b)
  OBVIOUS
<1>6. then.kind = "then" /\ then.old = current
  BY <1>5 DEF ThenFrame
<1>7. PICK end : end = EndIfFrame
  OBVIOUS
<1>8. end.kind = "endif"
  BY <1>7 DEF EndIfFrame
<1>9. PICK items : items = <<n, then, end>>
  OBVIOUS
<1>10. work' = items \o Tail(work)
  BY <1>1, <1>2, <1>3, <1>4, <1>5, <1>7, <1>9 DEF BeginIf, Replace
<1>11. IsSeq(items) /\ Len(items) = 3 /\ items[1] = n /\ items[2] = then /\ items[3] = end
  BY <1>9, ShortSequences
<1>12. /\ Len(exit') = Len(exit) + 1 /\ Len(exit) \in Nat
       /\ \A x \in 1..Len(exit) : exit'[x] = exit[x]
  BY <1>1, NewExits, TopFits DEF NewBlocks
<1>13. next' = b /\ b = Len(exit) + 1
  BY <1>1, <1>3 DEF Fresh
<1>14. IsSeq(work) /\ work' # << >>
  BY <1>1, <1>10, <1>11, SomethingIsLeft
<1>15. n.kind \in PlainKinds
  BY DEF IsTidy, IsStraight
<1>16. KeepsTidy(items)
  <2>1. \A i \in 1..Len(items) : i = 1 \/ i = 2 \/ i = 3
    BY <1>11
  <2>2. ~Leaves(n) /\ ~NeedsCloser(n) /\ n.kind # "case"
    BY <1>15 DEF Leaves, NeedsCloser, PlainKinds
  <2>3. ~Leaves(then) /\ ~NeedsCloser(then) /\ then.kind # "case" /\ ~NeedsCloser(end) /\ end.kind # "case"
    BY <1>6, <1>8 DEF Leaves, NeedsCloser, PlainKinds
  <2>4. Leaves(work[1])
    BY <1>1 DEF Leaves
  <2>5. \A j \in 1..Len(items) : ~(3 < j)
    BY <2>1
  <2>. QED
    BY <1>11, <2>1, <2>2, <2>3, <2>4, <2>5 DEF KeepsTidy
<1>17. \A o \in 1..Len(work) : work[o].kind # "endif"
  BY <1>1, NoIfIsUnderWay
<1>18. 2 \in 1..Len(items) /\ 3 \in 1..Len(items)
  BY <1>11
<1>19. ASSUME NEW x \in 1..Len(exit'), exit'[x] = Invalid
       PROVE  Elsewhere(x) \/ WillClose(x)'
  <2>1. x = b \/ x \in 1..Len(exit)
    BY <1>12, <1>13
  <2>2. CASE x = b
    <3>1. x = PromisedBy(items[3], next') /\ items[3].kind \in {"endif", "endmatch"}
      BY <1>8, <1>11, <1>13, <2>2 DEF PromisedBy
    <3>. QED
      BY <1>1, <1>10, <1>11, <1>14, <1>18, <3>1, PromisedByItem
  <2>3. CASE x = current
    <3>1. x \in Remembered(items[2])
      BY <1>6, <1>11, <2>3 DEF Remembered
    <3>. QED
      BY <1>1, <1>10, <1>11, <1>14, <1>18, <3>1, RememberedByItem
  <2>4. CASE x \in 1..Len(exit) /\ x # current
    <3>1. exit[x] = Invalid
      BY <1>12, <1>19, <2>4
    <3>2. Remembered(work[1]) = {}
      BY <1>1 DEF Remembered
    <3>. QED
      BY <1>1, <2>4, <3>1, <3>2 DEF Elsewhere
  <2>. QED
    BY <2>1, <2>2, <2>3, <2>4
<1>. QED
  BY <1>1, <1>10, <1>11, <1>14, <1>16, <1>17, <1>19, OpenStays

\* A step inside of an if or of a match: what was remembered is closed or still
\* remembered, and so are the new blocks.
LEMMA InsideStays ==
  ASSUME LoweringInv, OpenInv, work # << >>, work[1].kind \in DeepFrames \ {"endif", "endmatch"},
         NEW items, IsSeq(items), work' = items \o Tail(work),
         blocks'[1] = blocks[1], next' = next,
         \A i \in 1..Len(items) : /\ ~Leaves(items[i]) /\ ~NeedsCloser(items[i])
                                  /\ items[i].kind = "case" => i = 1 /\ items[i].k # 1,
         \A b \in 1..Len(exit') : exit'[b] = Invalid =>
           \/ b \in 1..Len(exit) /\ exit[b] = Invalid /\ b \notin Remembered(work[1])
           \/ \E i \in 1..Len(items) : b \in Remembered(items[i])
  PROVE  OpenInv'
<1>1. IsSeq(work) /\ work' # << >>
  BY SomethingIsLeft DEF DeepFrames, IfFrames
<1>2. KeepsTidy(items)
  BY DEF KeepsTidy
<1>3. ~CurrentWillClose
  BY <1>1, DeepIsRemembered
<1>4. ASSUME NEW b \in 1..Len(exit'), exit'[b] = Invalid
      PROVE  Elsewhere(b) \/ WillClose(b)'
  <2>1. CASE b \in 1..Len(exit) /\ exit[b] = Invalid /\ b \notin Remembered(work[1])
    BY <1>3, <2>1 DEF Elsewhere
  <2>2. CASE \E i \in 1..Len(items) : b \in Remembered(items[i])
    <3>1. PICK i \in 1..Len(items) : b \in Remembered(items[i])
      BY <2>2
    <3>. QED
      BY <1>1, <3>1, RememberedByItem
  <2>. QED
    BY <1>4, <2>1, <2>2
<1>. QED
  BY <1>1, <1>2, <1>4, OpenStays

LEMMA SimpleItems ==
  ASSUME NEW nodes \in Seq(Simple), NEW frame
  PROVE  \E items : /\ items = nodes \o <<frame>> /\ IsSeq(items)
                    /\ \A i \in 1..Len(items) : items[i] \in Simple \/ items[i] = frame
                    /\ \E i \in 1..Len(items) : items[i] = frame
<1>. DEFINE S == Simple \cup {frame}
<1>1. nodes \in Seq(S) /\ frame \in S /\ \A i \in 1..Len(nodes) : nodes[i] \in Simple
  OBVIOUS
<1>2. PICK items : items = Append(nodes, frame)
  OBVIOUS
<1>. HIDE DEF S
<1>3. /\ items \in Seq(S) /\ Len(items) = Len(nodes) + 1 /\ Len(nodes) \in Nat
      /\ \A i \in 1..Len(nodes) : items[i] = nodes[i]
      /\ items[Len(nodes) + 1] = frame
  BY <1>1, <1>2
<1>4. items = nodes \o <<frame>>
  BY <1>1, <1>2, AppendIsConcat
<1>5. ASSUME NEW i \in 1..Len(items) PROVE items[i] \in Simple \/ items[i] = frame
  <2>1. i \in 1..Len(nodes) \/ i = Len(nodes) + 1
    BY <1>3
  <2>. QED
    BY <1>1, <1>3, <2>1
<1>6. Len(nodes) + 1 \in 1..Len(items)
  BY <1>3
<1>. QED
  BY <1>3, <1>4, <1>5, <1>6 DEF IsSeq

\* A simple node, and a frame of an if or of a match under way.
LEMMA StaysInside ==
  ASSUME IsTidy, NEW w, w \in Simple \/ w.kind \in {"then", "else", "connect", "endcase", "link"}
  PROVE  ~Leaves(w) /\ ~NeedsCloser(w) /\ w.kind # "case"
<1>1. w \in Simple => w.kind \in PlainKinds
  BY DEF IsTidy, IsStraight
<1>. QED
  BY <1>1 DEF Leaves, NeedsCloser, PlainKinds

LEMMA NewBlock ==
  ASSUME LoweringInv, work # << >>, NewBlocks(1), NEW b, b = Fresh(1), AddBlock(b)
  PROVE  /\ blocks'[1] = blocks[1]
         /\ \A x \in 1..Len(exit') : x = b \/ (x \in 1..Len(exit) /\ exit'[x] = exit[x])
<1>1. /\ Len(exit') = Len(exit) + 1 /\ Len(exit) \in Nat
      /\ \A x \in 1..Len(exit) : exit'[x] = exit[x]
  BY NewExits, TopFits DEF NewBlocks
<1>2. b = Len(exit) + 1 /\ b \in Nat
  BY <1>1 DEF Fresh
<1>3. PICK added : added = <<b>>
  OBVIOUS
<1>4. added \in Seq(Nat) /\ blocks' = blocks \o added
  BY <1>2, <1>3, Appending, TopFits
<1>5. blocks'[1] = blocks[1]
  BY <1>4, FirstStays, TopFits
<1>. QED
  BY <1>1, <1>2, <1>5

LEMMA ThenBlockStays ==
  ASSUME IsTidy, LoweringInv, OpenInv, ThenBlock
  PROVE  OpenInv'
<1>1. /\ work # << >> /\ work[1].kind = "then" /\ Top = work[1] /\ NewBlocks(1)
      /\ AddBlock(Fresh(1)) /\ next' = next
  BY TopFits DEF ThenBlock, At, Top
<1>2. PICK top : top = work[1]
  OBVIOUS
<1>3. PICK b : b = Fresh(1)
  OBVIOUS
<1>4. PICK nodes \in Seq(Simple) : nodes = top.if.then
  BY <1>1, <1>2, TopFits DEF Fits, IfFrames, IsTidy
<1>5. PICK frame : frame = ElseFrame(top.if, top.old, top.after, b)
  OBVIOUS
<1>6. frame.kind = "else" /\ frame.old = top.old /\ frame.taken = b
  BY <1>5 DEF ElseFrame
<1>7. PICK items : /\ items = nodes \o <<frame>> /\ IsSeq(items)
                   /\ \A i \in 1..Len(items) : items[i] \in Simple \/ items[i] = frame
                   /\ \E i \in 1..Len(items) : items[i] = frame
  BY SimpleItems
<1>8. work' = items \o Tail(work)
  BY <1>1, <1>2, <1>3, <1>4, <1>5, <1>7 DEF ThenBlock, Replace
<1>9. /\ blocks'[1] = blocks[1]
      /\ \A x \in 1..Len(exit') : x = b \/ (x \in 1..Len(exit) /\ exit'[x] = exit[x])
  BY <1>1, <1>3, NewBlock
<1>10. \A i \in 1..Len(items) : ~Leaves(items[i]) /\ ~NeedsCloser(items[i]) /\ items[i].kind # "case"
  BY <1>6, <1>7, StaysInside
<1>11. Remembered(frame) = Remembered(work[1]) \cup {b}
  BY <1>1, <1>2, <1>6 DEF Remembered
<1>12. \A x \in 1..Len(exit') : exit'[x] = Invalid =>
         \/ x \in 1..Len(exit) /\ exit[x] = Invalid /\ x \notin Remembered(work[1])
         \/ \E i \in 1..Len(items) : x \in Remembered(items[i])
  BY <1>7, <1>9, <1>11
<1>13. work[1].kind \in DeepFrames \ {"endif", "endmatch"}
  BY <1>1 DEF DeepFrames, IfFrames
<1>. QED
  BY <1>1, <1>7, <1>8, <1>9, <1>10, <1>12, <1>13, InsideStays

LEMMA NoElseBlockStays ==
  ASSUME IsTidy, LoweringInv, OpenInv, NoElseBlock
  PROVE  OpenInv'
<1>1. /\ work # << >> /\ work[1].kind = "else" /\ Top = work[1] /\ Top.if.else.kind = "none"
      /\ UNCHANGED <<exit, blocks, next>>
  BY TopFits DEF NoElseBlock, At, Top, blockVars
<1>2. PICK top : top = work[1]
  OBVIOUS
<1>3. PICK frame : frame = ConnectFrame(top.if, top.old, top.after, top.taken, NoBlock)
  OBVIOUS
<1>4. frame.kind = "connect" /\ frame.if = top.if /\ frame.old = top.old /\ frame.taken = top.taken
  BY <1>3 DEF ConnectFrame
<1>5. PICK items : items = <<frame>>
  OBVIOUS
<1>6. work' = items \o Tail(work)
  BY <1>1, <1>2, <1>3, <1>5 DEF NoElseBlock, Replace
<1>7. IsSeq(items) /\ Len(items) = 1 /\ items[1] = frame
  BY <1>5, ShortSequences
<1>8. 1 \in 1..Len(items) /\ \A i \in 1..Len(items) : items[i] = frame
  BY <1>7
<1>9. \A i \in 1..Len(items) : ~Leaves(items[i]) /\ ~NeedsCloser(items[i]) /\ items[i].kind # "case"
  BY <1>4, <1>8, StaysInside
<1>10. Remembered(work[1]) \subseteq Remembered(frame)
  BY <1>1, <1>2, <1>4 DEF Remembered
<1>11. \A x \in 1..Len(exit') : exit'[x] = Invalid =>
         \/ x \in 1..Len(exit) /\ exit[x] = Invalid /\ x \notin Remembered(work[1])
         \/ \E i \in 1..Len(items) : x \in Remembered(items[i])
  BY <1>1, <1>8, <1>10
<1>12. work[1].kind \in DeepFrames \ {"endif", "endmatch"}
  BY <1>1 DEF DeepFrames, IfFrames
<1>. QED
  BY <1>1, <1>6, <1>7, <1>9, <1>11, <1>12, InsideStays

LEMMA ElseBlockStays ==
  ASSUME IsTidy, LoweringInv, OpenInv, ElseBlock
  PROVE  OpenInv'
<1>1. /\ work # << >> /\ work[1].kind = "else" /\ Top = work[1] /\ Top.if.else.kind # "none"
      /\ NewBlocks(1) /\ AddBlock(Fresh(1)) /\ next' = next
  BY TopFits DEF ElseBlock, At, Top
<1>2. PICK top : top = work[1]
  OBVIOUS
<1>3. PICK b : b = Fresh(1)
  OBVIOUS
<1>4. PICK else : else = top.if.else
  OBVIOUS
<1>5. \/ else.kind = "block" /\ else.nodes \in Seq(Simple)
      \/ else.kind # "block" /\ else.cond \in Simple
  BY <1>1, <1>2, <1>4, TopFits DEF Fits, IfFrames, IsTidy, IsStraight
<1>6. PICK frame : frame = ConnectFrame(top.if, top.old, top.after, top.taken, b)
  OBVIOUS
<1>7. /\ frame.kind = "connect" /\ frame.if = top.if /\ frame.old = top.old
      /\ frame.taken = top.taken /\ frame.other = b
  BY <1>6 DEF ConnectFrame
<1>8. PICK then : then = ThenFrame(else, b, top.after)
  OBVIOUS
<1>9. then.kind = "then" /\ then.old = b
  BY <1>8 DEF ThenFrame
<1>10. work' = ((IF else.kind = "block" THEN else.nodes ELSE <<else.cond, then>>) \o <<frame>>)
               \o Tail(work)
  BY <1>1, <1>2, <1>3, <1>4, <1>6, <1>8 DEF ElseBlock, Replace
<1>11. /\ blocks'[1] = blocks[1]
       /\ \A x \in 1..Len(exit') : x = b \/ (x \in 1..Len(exit) /\ exit'[x] = exit[x])
  BY <1>1, <1>3, NewBlock
<1>12. work[1].kind \in DeepFrames \ {"endif", "endmatch"}
  BY <1>1 DEF DeepFrames, IfFrames
<1>13. Remembered(work[1]) \subseteq Remembered(frame) /\ (else.kind = "block" => b \in Remembered(frame))
  BY <1>1, <1>2, <1>4, <1>7 DEF Remembered
<1>14. CASE else.kind = "block"
  <2>1. PICK nodes \in Seq(Simple) : nodes = else.nodes
    BY <1>5, <1>14
  <2>2. PICK items : /\ items = nodes \o <<frame>> /\ IsSeq(items)
                     /\ \A i \in 1..Len(items) : items[i] \in Simple \/ items[i] = frame
                     /\ \E i \in 1..Len(items) : items[i] = frame
    BY SimpleItems
  <2>3. work' = items \o Tail(work)
    BY <1>10, <1>14, <2>1, <2>2
  <2>4. \A i \in 1..Len(items) : ~Leaves(items[i]) /\ ~NeedsCloser(items[i]) /\ items[i].kind # "case"
    BY <1>7, <2>2, StaysInside
  <2>5. \A x \in 1..Len(exit') : exit'[x] = Invalid =>
          \/ x \in 1..Len(exit) /\ exit[x] = Invalid /\ x \notin Remembered(work[1])
          \/ \E i \in 1..Len(items) : x \in Remembered(items[i])
    BY <1>11, <1>13, <1>14, <2>2
  <2>. QED
    BY <1>1, <1>11, <1>12, <2>2, <2>3, <2>4, <2>5, InsideStays
<1>15. CASE else.kind # "block"
  <2>1. PICK n \in Simple : n = else.cond
    BY <1>5, <1>15
  <2>2. PICK items : items = <<n, then, frame>>
    OBVIOUS
  <2>3. work' = items \o Tail(work)
    BY <1>10, <1>15, <2>1, <2>2
  <2>4. IsSeq(items) /\ Len(items) = 3 /\ items[1] = n /\ items[2] = then /\ items[3] = frame
    BY <2>2, ShortSequences
  <2>5. /\ 2 \in 1..Len(items) /\ 3 \in 1..Len(items)
        /\ \A i \in 1..Len(items) : i = 1 \/ i = 2 \/ i = 3
    BY <2>4
  <2>6. \A i \in 1..Len(items) : ~Leaves(items[i]) /\ ~NeedsCloser(items[i]) /\ items[i].kind # "case"
    BY <1>7, <1>9, <2>4, <2>5, StaysInside
  <2>7. b \in Remembered(items[2]) /\ Remembered(work[1]) \subseteq Remembered(items[3])
    BY <1>9, <1>13, <2>4 DEF Remembered
  <2>8. \A x \in 1..Len(exit') : exit'[x] = Invalid =>
          \/ x \in 1..Len(exit) /\ exit[x] = Invalid /\ x \notin Remembered(work[1])
          \/ \E i \in 1..Len(items) : x \in Remembered(items[i])
    BY <1>11, <2>5, <2>7
  <2>. QED
    BY <1>1, <1>11, <1>12, <2>3, <2>4, <2>6, <2>8, InsideStays
<1>. QED
  BY <1>14, <1>15

\* A frame that is done, with an exit for every block that it remembered.
LEMMA DoneStays ==
  ASSUME LoweringInv, OpenInv, work # << >>, Pop, work[1].kind \in DeepFrames \ {"endif", "endmatch"},
         UNCHANGED <<blocks, next>>, Len(exit') = Len(exit),
         \A b \in 1..Len(exit) : exit'[b] = exit[b] \/ exit'[b] # Invalid,
         \A b \in Remembered(work[1]) : exit'[b] # Invalid
  PROVE  OpenInv'
<1>1. PICK items : items = << >>
  OBVIOUS
<1>2. IsSeq(items) /\ work' = items \o Tail(work) /\ \A i \in 1..Len(items) : FALSE
  BY <1>1, Popping, ShortSequences DEF LoweringInv, Pop
<1>3. \A b \in 1..Len(exit') : exit'[b] = Invalid =>
        b \in 1..Len(exit) /\ exit[b] = Invalid /\ b \notin Remembered(work[1])
  OBVIOUS
<1>. QED
  BY <1>2, <1>3, InsideStays

LEMMA ConnectStays ==
  ASSUME LoweringInv, OpenInv, Connect
  PROVE  OpenInv'
<1>1. /\ work # << >> /\ work[1].kind = "connect" /\ Top = work[1] /\ Pop
      /\ UNCHANGED <<blocks, next>>
  BY TopFits DEF Connect, At, Top
<1>2. PICK top : top = work[1]
  OBVIOUS
<1>3. /\ top.old \in Listed /\ top.taken \in Listed
      /\ top.other \in Listed \/ (top.other = NoBlock /\ top.if.else.kind = "none")
  BY <1>1, <1>2, TopFits DEF Fits, IfFrames
<1>4. PICK branches : branches = {top.taken} \cup
                                 (IF top.if.else.kind = "block" THEN {top.other} ELSE {})
  OBVIOUS
<1>5. PICK out : out = CondBranch(top.if.cond.id, top.taken,
                                  IF top.other = NoBlock THEN next ELSE top.other)
  OBVIOUS
<1>6. PICK connected : connected = [exit EXCEPT ![top.old] = out]
  OBVIOUS
<1>7. PICK open : open = {b \in branches : connected[b] = Invalid}
  OBVIOUS
<1>8. exit' = [b \in DOMAIN exit |-> IF b \in open THEN Branch(next) ELSE connected[b]]
  <2>1. connected = [exit EXCEPT ![Top.old] =
                       CondBranch(Top.if.cond.id, Top.taken,
                                  IF Top.other = NoBlock THEN next ELSE Top.other)]
    BY <1>1, <1>2, <1>5, <1>6
  <2>2. open = {b \in {Top.taken} \cup
                      (IF Top.if.else.kind = "block" THEN {Top.other} ELSE {}) :
                  connected[b] = Invalid}
    BY <1>1, <1>2, <1>4, <1>7
  <2>. QED
    BY <2>1, <2>2 DEF Connect
<1>9. /\ DOMAIN exit = 1..Len(exit) /\ IsSeq(exit) /\ top.old \in 1..Len(exit)
      /\ branches \subseteq 1..Len(exit)
  BY <1>1, <1>3, <1>4, TopFits
<1>10. out # Invalid /\ Branch(next) # Invalid
  BY <1>5, ExitFacts
<1>11. /\ \A b \in 1..Len(exit) : exit'[b] = exit[b] \/ exit'[b] # Invalid
       /\ \A b \in branches \cup {top.old} : exit'[b] # Invalid
  BY <1>6, <1>7, <1>8, <1>9, <1>10
<1>12. Len(exit') = Len(exit)
  <2>1. DOMAIN exit' = DOMAIN exit
    BY <1>8
  <2>2. IsFunction(exit')
    BY <1>8 DEF IsFunction
  <2>. QED
    BY <1>9, <2>1, <2>2, SomeExitsChanged
<1>13. Remembered(work[1]) = branches \cup {top.old}
  BY <1>1, <1>2, <1>4 DEF Remembered
<1>14. work[1].kind \in DeepFrames \ {"endif", "endmatch"}
  BY <1>1 DEF DeepFrames, IfFrames
<1>. QED
  BY <1>1, <1>11, <1>12, <1>13, <1>14, DoneStays

\* The block behind an if or a match becomes the current one.
LEMMA BehindStays ==
  ASSUME LoweringInv, OpenInv, work # << >>, Pop, work[1].kind \in {"endif", "endmatch"},
         NEW b, b = PromisedBy(work[1], next), AddBlock(b), current' = b, UNCHANGED <<exit, next>>
  PROVE  OpenInv'
<1>1. /\ IsSeq(work) /\ 1 \in Promising /\ b \in Nat
  <2>1. 1 \in Promising
    BY TopFits, SeqFacts DEF Promising
  <2>. QED
    BY <2>1, TopFits DEF PromisesAreOpen
<1>2. blocks'[1] = blocks[1]
  <2>1. PICK added \in Seq(Nat) : added = <<b>> /\ blocks' = blocks \o added
    BY <1>1, Appending, TopFits
  <2>. QED
    BY <2>1, FirstStays, TopFits
<1>3. Leaves(work[1]) /\ Remembered(work[1]) = {} /\ work[1].kind \in DeepFrames
  BY DEF Leaves, Remembered, DeepFrames
<1>4. NeedsCloser(work[1]) \/ current' = next'
  BY DEF NeedsCloser, PromisedBy
<1>5. CurrentWillClose'
  BY <1>1, <1>3, <1>4, NextWillClose DEF OpenInv, Pop
<1>6. ~CurrentWillClose
  BY <1>1, <1>3, DeepIsRemembered
<1>7. PICK items : items = << >>
  OBVIOUS
<1>8. IsSeq(items) /\ work' = items \o Tail(work) /\ \A i \in 1..Len(items) : FALSE
  BY <1>7, Popping, ShortSequences DEF LoweringInv, Pop
<1>9. KeepsTidy(items)
  BY <1>8 DEF KeepsTidy
<1>10. work' # << >>
  BY <1>8, SomethingIsLeft
<1>11. ASSUME NEW x \in 1..Len(exit'), exit'[x] = Invalid
       PROVE  Elsewhere(x) \/ WillClose(x)'
  <2>1. CASE x = b
    BY <1>5, <2>1 DEF WillClose
  <2>2. CASE x # b
    BY <1>3, <1>6, <1>11, <2>2 DEF Elsewhere
  <2>. QED
    BY <2>1, <2>2
<1>. QED
  BY <1>1, <1>2, <1>8, <1>9, <1>10, <1>11, OpenStays

LEMMA EndIfStays ==
  ASSUME LoweringInv, OpenInv, EndIf
  PROVE  OpenInv'
<1>1. work # << >> /\ work[1].kind = "endif" /\ Pop /\ UNCHANGED <<exit, next>>
  BY TopFits DEF EndIf, At
<1>2. PICK b : b = next
  OBVIOUS
<1>3. b = PromisedBy(work[1], next) /\ AddBlock(b) /\ current' = b
  BY <1>1, <1>2 DEF EndIf, PromisedBy
<1>. QED
  BY <1>1, <1>3, BehindStays

LEMMA EndMatchStays ==
  ASSUME LoweringInv, OpenInv, EndMatch
  PROVE  OpenInv'
<1>1. work # << >> /\ work[1].kind = "endmatch" /\ Top = work[1] /\ Pop /\ UNCHANGED <<exit, next>>
  BY TopFits DEF EndMatch, At, Top
<1>2. PICK b : b = Top.after
  OBVIOUS
<1>3. b = PromisedBy(work[1], next) /\ AddBlock(b) /\ current' = b
  BY <1>1, <1>2 DEF EndMatch, PromisedBy
<1>. QED
  BY <1>1, <1>3, BehindStays
-----------------------------------------------------------------------------
(* Matches *)

LEMMA BeginMatchStays ==
  ASSUME IsTidy, LoweringInv, OpenInv, BeginMatch
  PROVE  OpenInv'
<1>1. /\ work # << >> /\ work[1].kind = "match" /\ Top = work[1] /\ NewBlocks(1)
      /\ UNCHANGED <<blocks, current, next>>
  BY TopFits DEF BeginMatch, At, Top
<1>2. PICK top : top = work[1]
  OBVIOUS
<1>3. PICK b : b = Fresh(1)
  OBVIOUS
<1>4. PICK case : case = CaseFrame(top, 1, current, b)
  OBVIOUS
<1>5. PICK end : end = EndMatchFrame(b)
  OBVIOUS
<1>6. /\ case.kind = "case" /\ case.k = 1 /\ case.before = current
      /\ end.kind = "endmatch" /\ end.after = b
  BY <1>4, <1>5 DEF CaseFrame, EndMatchFrame
<1>7. PICK items : items = <<case, end>>
  OBVIOUS
<1>8. work' = items \o Tail(work)
  BY <1>1, <1>2, <1>3, <1>4, <1>5, <1>7 DEF BeginMatch, Replace
<1>9. IsSeq(items) /\ Len(items) = 2 /\ items[1] = case /\ items[2] = end
  BY <1>7, ShortSequences
<1>10. /\ Len(exit') = Len(exit) + 1 /\ Len(exit) \in Nat
       /\ \A x \in 1..Len(exit) : exit'[x] = exit[x]
  BY <1>1, NewExits, TopFits DEF NewBlocks
<1>11. b = Len(exit) + 1
  BY <1>3 DEF Fresh
<1>12. IsSeq(work) /\ work' # << >>
  BY <1>1, <1>8, <1>9, SomethingIsLeft
<1>13. Leaves(work[1]) /\ NeedsCloser(work[1]) /\ Remembered(work[1]) = {}
  BY <1>1, ComplexNodes
<1>14. 1 \in 1..Len(items) /\ 2 \in 1..Len(items)
       /\ \A i \in 1..Len(items) : i = 1 \/ i = 2
  BY <1>9
<1>15. KeepsTidy(items)
  <2>1. ~Leaves(case) /\ ~NeedsCloser(case) /\ end.kind # "case"
    BY <1>6 DEF Leaves, NeedsCloser, PlainKinds
  <2>2. \A j \in 1..Len(items) : ~(2 < j)
    BY <1>14
  <2>. QED
    BY <1>1, <1>6, <1>9, <1>13, <1>14, <2>1, <2>2 DEF KeepsTidy
<1>16. ASSUME NEW x \in 1..Len(exit'), exit'[x] = Invalid
       PROVE  Elsewhere(x) \/ WillClose(x)'
  <2>1. x = b \/ x \in 1..Len(exit)
    BY <1>10, <1>11
  <2>2. CASE x = b
    <3>1. x = PromisedBy(items[2], next') /\ items[2].kind \in {"endif", "endmatch"}
      BY <1>6, <1>9, <2>2 DEF PromisedBy
    <3>. QED
      BY <1>1, <1>8, <1>9, <1>12, <1>14, <3>1, PromisedByItem
  <2>3. CASE x = current
    <3>1. x \in Remembered(items[1])
      BY <1>6, <1>9, <2>3 DEF Remembered
    <3>. QED
      BY <1>1, <1>8, <1>9, <1>12, <1>14, <3>1, RememberedByItem
  <2>4. CASE x \in 1..Len(exit) /\ x # current
    <3>1. exit[x] = Invalid
      BY <1>10, <1>16, <2>4
    <3>. QED
      BY <1>1, <1>13, <2>4, <3>1 DEF Elsewhere
  <2>. QED
    BY <2>1, <2>2, <2>3, <2>4
<1>. QED
  BY <1>1, <1>8, <1>9, <1>12, <1>15, <1>16, OpenStays

LEMMA BeginCaseStays ==
  ASSUME IsTidy, LoweringInv, OpenInv, BeginCase
  PROVE  OpenInv'
<1>1. PICK top : top = work[1]
  OBVIOUS
<1>2. PICK compared \in BOOLEAN :
        compared = (top.k < Len(top.match.cases) /\ ~(current = top.before))
  OBVIOUS
<1>3. PICK new : new = IF compared THEN 2 ELSE 1
  OBVIOUS
<1>4. PICK this : this = IF compared THEN Fresh(1) ELSE current
  OBVIOUS
<1>5. /\ work # << >> /\ top.kind = "case" /\ NewCaseBlocks(new) /\ next' = next
      /\ Replace(<<top.match.cases[top.k], EndCaseFrame(top, this, Fresh(new))>>)
  <2>1. work # << >> /\ Top = top /\ top.kind = "case"
    BY <1>1, TopFits DEF BeginCase, At, Top
  <2>. QED
    BY <1>2, <1>3, <1>4, <2>1 DEF BeginCase
<1>6. /\ BlocksAreListed /\ IsSeq(exit) /\ IsSeq(work) /\ IsCase(top, Safe) /\ 1 \in 1..Len(work)
      /\ WorkIsTidy
  BY <1>1, <1>5, TopFits DEF Fits, OpenInv
<1>7. new \in Nat /\ new \in 1..2
  BY <1>3
<1>8. /\ Len(exit') = Len(exit) + new /\ Len(exit) \in Nat
      /\ \A x \in 1..Len(exit) : exit'[x] = exit[x]
  BY <1>5, <1>6, <1>7, NewExits DEF NewCaseBlocks, NewBlocks
<1>9. blocks'[1] = blocks[1]
  <2>1. PICK added : added = [i \in 1..new |-> Fresh(i)]
    OBVIOUS
  <2>2. \A i \in 1..new : Fresh(i) \in Nat
    BY <1>7, <1>8 DEF Fresh
  <2>3. added \in Seq(Nat) /\ blocks' = blocks \o added
    BY <1>5, <1>7, <2>1, <2>2 DEF NewCaseBlocks
  <2>. QED
    BY <1>6, <2>3, FirstStays
<1>10. /\ top.match \in Plain /\ top.match.kind = "match" /\ top.match.cases \in Seq(Simple)
       /\ Len(top.match.cases) > 1 /\ top.k \in 1..Len(top.match.cases)
  BY <1>6 DEF IsCase, IsTidy
<1>11. PICK n \in Simple : n = top.match.cases[top.k]
  BY <1>10
<1>12. PICK frame : frame = EndCaseFrame(top, this, Fresh(new))
  OBVIOUS
<1>13. /\ frame.kind = "endcase" /\ frame.case = top /\ frame.this = this
       /\ frame.taken = Len(exit) + new
  BY <1>12 DEF EndCaseFrame, Fresh
<1>14. PICK items : items = <<n, frame>>
  OBVIOUS
<1>15. work' = items \o Tail(work)
  BY <1>5, <1>11, <1>12, <1>14 DEF Replace
<1>16. IsSeq(items) /\ Len(items) = 2 /\ items[1] = n /\ items[2] = frame
  BY <1>14, ShortSequences
<1>17. 2 \in 1..Len(items) /\ \A i \in 1..Len(items) : i = 1 \/ i = 2
  BY <1>16
<1>18. \A i \in 1..Len(items) : ~Leaves(items[i]) /\ ~NeedsCloser(items[i]) /\ items[i].kind # "case"
  BY <1>13, <1>16, <1>17, StaysInside
<1>19. /\ Len(exit) + new \in Remembered(frame)
       /\ top.k < Len(top.match.cases) => this \in Remembered(frame)
  BY <1>13 DEF Remembered
<1>20. Remembered(work[1]) \subseteq Remembered(frame)
  <2>1. Remembered(work[1]) = IF top.k = 1 THEN {top.before} ELSE {}
    BY <1>1, <1>5 DEF Remembered
  <2>2. CASE top.k = 1
    <3>1. top.before = current
      BY <1>1, <1>5, <1>6, <2>2 DEF WorkIsTidy
    <3>2. this = top.before
      BY <1>2, <1>4, <3>1
    <3>. QED
      BY <1>10, <1>19, <2>1, <2>2, <3>2
  <2>3. CASE top.k # 1
    BY <2>1, <2>3
  <2>. QED
    BY <2>2, <2>3
<1>21. ASSUME NEW x \in 1..Len(exit'), ~(x \in 1..Len(exit))
       PROVE  x \in Remembered(frame)
  <2>1. x = Len(exit) + new \/ (compared /\ x = Len(exit) + 1)
    BY <1>3, <1>8, <1>21
  <2>. QED
    BY <1>2, <1>4, <1>19, <2>1 DEF Fresh
<1>22. \A x \in 1..Len(exit') : exit'[x] = Invalid =>
         \/ x \in 1..Len(exit) /\ exit[x] = Invalid /\ x \notin Remembered(work[1])
         \/ \E i \in 1..Len(items) : x \in Remembered(items[i])
  BY <1>8, <1>16, <1>17, <1>20, <1>21
<1>23. work[1].kind \in DeepFrames \ {"endif", "endmatch"}
  BY <1>1, <1>5 DEF DeepFrames
<1>. QED
  BY <1>5, <1>9, <1>15, <1>16, <1>18, <1>22, <1>23, InsideStays

\* One block gets an exit.
LEMMA OneExit ==
  ASSUME IsSeq(exit), NEW b \in 1..Len(exit), NEW out, out # Invalid, exit' = [exit EXCEPT ![b] = out]
  PROVE  /\ Len(exit') = Len(exit) /\ exit'[b] # Invalid
         /\ \A x \in 1..Len(exit) : exit'[x] = exit[x] \/ exit'[x] # Invalid
<1>1. DOMAIN exit = 1..Len(exit)
  BY SeqFacts
<1>2. DOMAIN exit' = DOMAIN exit
  OBVIOUS
<1>3. IsFunction(exit')
  BY DEF IsFunction
<1>4. Len(exit') = Len(exit)
  BY <1>2, <1>3, SomeExitsChanged
<1>. QED
  BY <1>1, <1>4

LEMMA EndCaseStays ==
  ASSUME IsTidy, LoweringInv, OpenInv, EndCase
  PROVE  OpenInv'
<1>1. /\ work # << >> /\ work[1].kind = "endcase" /\ Top = work[1]
      /\ UNCHANGED <<blocks, current, next>>
  BY TopFits DEF EndCase, At, Top
<1>2. PICK top : top = work[1]
  OBVIOUS
<1>3. PICK c : c = top.case
  OBVIOUS
<1>4. /\ exit' = [exit EXCEPT ![top.taken] = Branch(c.after)]
      /\ work' = (IF c.k = Len(c.match.cases) THEN << >>
                  ELSE <<CaseFrame(c.match, c.k + 1, c.before, c.after),
                         LinkFrame(<<c.match.id, c.k>>, top.this, top.taken, Fresh(1))>>)
                 \o Tail(work)
  BY <1>1, <1>2, <1>3 DEF EndCase, Replace
<1>5. c.k \in 1..Len(c.match.cases) /\ top.taken \in 1..Len(exit) /\ IsSeq(exit)
  BY <1>1, <1>2, <1>3, TopFits DEF Fits, IsCase
<1>6. PICK out : out = Branch(c.after)
  OBVIOUS
<1>7. out # Invalid /\ exit' = [exit EXCEPT ![top.taken] = out]
  BY <1>4, <1>6, ExitFacts
<1>8. /\ Len(exit') = Len(exit) /\ exit'[top.taken] # Invalid
      /\ \A x \in 1..Len(exit) : exit'[x] = exit[x] \/ exit'[x] # Invalid
  BY <1>5, <1>7, OneExit
<1>9. Remembered(work[1]) = {top.taken} \cup (IF c.k < Len(c.match.cases) THEN {top.this} ELSE {})
  BY <1>1, <1>2, <1>3 DEF Remembered
<1>10. work[1].kind \in DeepFrames \ {"endif", "endmatch"}
  BY <1>1 DEF DeepFrames
<1>11. c.k \in Nat \ {0}
  BY <1>5
<1>12. CASE c.k = Len(c.match.cases)
  <2>1. work' = << >> \o Tail(work)
    BY <1>4, <1>12
  <2>2. Pop
    BY <1>1, <2>1, Popping DEF Pop, LoweringInv
  <2>3. ~(c.k < Len(c.match.cases))
    BY <1>11, <1>12
  <2>4. \A b \in Remembered(work[1]) : exit'[b] # Invalid
    BY <1>8, <1>9, <2>3
  <2>. QED
    BY <1>1, <1>8, <1>10, <2>2, <2>4, DoneStays
<1>13. CASE c.k # Len(c.match.cases)
  <2>1. PICK case : case = CaseFrame(c.match, c.k + 1, c.before, c.after)
    OBVIOUS
  <2>2. PICK link : link = LinkFrame(<<c.match.id, c.k>>, top.this, top.taken, Fresh(1))
    OBVIOUS
  <2>3. PICK items : items = <<case, link>>
    OBVIOUS
  <2>4. work' = items \o Tail(work)
    BY <1>4, <1>13, <2>1, <2>2, <2>3
  <2>5. IsSeq(items) /\ Len(items) = 2 /\ items[1] = case /\ items[2] = link
    BY <2>3, ShortSequences
  <2>6. case.kind = "case" /\ case.k = c.k + 1 /\ link.kind = "link" /\ link.this = top.this
    BY <2>1, <2>2 DEF CaseFrame, LinkFrame
  <2>7. 2 \in 1..Len(items) /\ \A i \in 1..Len(items) : i = 1 \/ i = 2
    BY <2>5
  <2>8. ~Leaves(case) /\ ~NeedsCloser(case) /\ case.k # 1
    BY <1>11, <2>6 DEF Leaves, NeedsCloser, PlainKinds
  <2>9. ~Leaves(link) /\ ~NeedsCloser(link) /\ link.kind # "case"
    BY <2>6, StaysInside
  <2>10. \A i \in 1..Len(items) : /\ ~Leaves(items[i]) /\ ~NeedsCloser(items[i])
                                  /\ items[i].kind = "case" => i = 1 /\ items[i].k # 1
    BY <2>5, <2>7, <2>8, <2>9
  <2>11. top.this \in Remembered(items[2])
    BY <2>5, <2>6 DEF Remembered
  <2>12. \A x \in 1..Len(exit') : exit'[x] = Invalid =>
           \/ x \in 1..Len(exit) /\ exit[x] = Invalid /\ x \notin Remembered(work[1])
           \/ \E i \in 1..Len(items) : x \in Remembered(items[i])
    BY <1>8, <1>9, <2>7, <2>11
  <2>. QED
    BY <1>1, <1>10, <2>4, <2>5, <2>10, <2>12, InsideStays
<1>. QED
  BY <1>12, <1>13

LEMMA LinkCaseStays ==
  ASSUME LoweringInv, OpenInv, LinkCase
  PROVE  OpenInv'
<1>1. /\ work # << >> /\ work[1].kind = "link" /\ Top = work[1] /\ Pop /\ UNCHANGED <<blocks, next>>
  BY TopFits DEF LinkCase, At, Top
<1>2. PICK top : top = work[1]
  OBVIOUS
<1>3. PICK out : out = CondBranch(top.cond, top.taken, top.other)
  OBVIOUS
<1>4. out # Invalid /\ exit' = [exit EXCEPT ![top.this] = out]
  BY <1>1, <1>2, <1>3, ExitFacts DEF LinkCase
<1>5. top.this \in 1..Len(exit) /\ IsSeq(exit)
  BY <1>1, <1>2, TopFits DEF Fits
<1>6. /\ Len(exit') = Len(exit) /\ exit'[top.this] # Invalid
      /\ \A x \in 1..Len(exit) : exit'[x] = exit[x] \/ exit'[x] # Invalid
  BY <1>4, <1>5, OneExit
<1>7. Remembered(work[1]) = {top.this}
  BY <1>1, <1>2 DEF Remembered
<1>8. work[1].kind \in DeepFrames \ {"endif", "endmatch"}
  BY <1>1 DEF DeepFrames
<1>. QED
  BY <1>1, <1>6, <1>7, <1>8, DoneStays
-----------------------------------------------------------------------------
(* The beginning and the end of a function *)

\* The body of a function is as tidy as its module.
LEMMA BodyIsTidy ==
  ASSUME IsTidy, LoweringInv, Len(functions) < Len(bodies),
         NEW body, body = bodies[Len(functions) + 1]
  PROVE  \/ /\ body.kind = "block" /\ body.nodes \in Seq(Plain \cup Ifs)
            /\ \A i \in 1..Len(body.nodes) : NeedsCloser(body.nodes[i]) =>
                 \E j \in 1..Len(body.nodes) : i < j /\ Closes(body.nodes[j])
         \/ body.kind = "match"
<1>1. bodies \in Modules /\ IsSeq(functions) /\ IsStraight
  BY DEF LoweringInv, FinishedAreClosed, IsTidy
<1>2. PICK k : k = Len(functions) + 1
  OBVIOUS
<1>3. k \in 1..Len(bodies)
  <2>1. Len(functions) \in Nat /\ Len(bodies) \in Nat
    BY <1>1, SeqFacts DEF IsStraight
  <2>. QED
    BY <1>2, <2>1
<1>4. body = bodies[k]
  BY <1>2
<1>. QED
  BY <1>1, <1>3, <1>4 DEF IsStraight, IsTidy

LEMMA BeginFunctionStays ==
  ASSUME IsTidy, LoweringInv, OpenInv, BeginFunction
  PROVE  OpenInv'
<1>1. work = << >> /\ Len(functions) < Len(bodies) /\ IsSeq(exit)
  BY DEF BeginFunction, LoweringInv
<1>2. PICK body : body = bodies[Len(functions) + 1]
  OBVIOUS
<1>3. PICK first : first = Fresh(2)
  OBVIOUS
<1>4. PICK frame : frame = EndFunctionFrame(first)
  OBVIOUS
<1>5. PICK case : case = CaseFrame(body, 1, first, Fresh(1))
  OBVIOUS
<1>6. /\ exit' = exit \o <<ReturnExit, Invalid>> /\ blocks' = <<first>> /\ current' = first
      /\ work' = (IF body.kind = "block" THEN body.nodes ELSE <<case>>) \o <<frame>>
  BY <1>2, <1>3, <1>4, <1>5 DEF BeginFunction
<1>7. frame.kind = "endfunction" /\ case.kind = "case" /\ case.k = 1 /\ case.before = first
  BY <1>4, <1>5 DEF EndFunctionFrame, CaseFrame
<1>8. \/ /\ body.kind = "block" /\ body.nodes \in Seq(Plain \cup Ifs)
         /\ \A i \in 1..Len(body.nodes) : NeedsCloser(body.nodes[i]) =>
              \E j \in 1..Len(body.nodes) : i < j /\ Closes(body.nodes[j])
      \/ body.kind = "match"
  BY <1>1, <1>2, BodyIsTidy
<1>9. \A b \in 1..Len(exit') : exit'[b] = Invalid => b = first
  <2>1. PICK new : new = <<ReturnExit, Invalid>>
    OBVIOUS
  <2>2. IsSeq(new) /\ Len(new) = 2 /\ new[1] = ReturnExit
    BY <2>1, ShortSequences
  <2>3. exit' = exit \o new
    BY <1>6, <2>1
  <2>4. /\ Len(exit') = Len(exit) + Len(new)
        /\ \A b \in 1..Len(exit) : exit'[b] = exit[b]
        /\ \A i \in 1..Len(new) : exit'[Len(exit) + i] = new[i]
    <3>1. /\ Len(exit \o new) = Len(exit) + Len(new)
          /\ \A b \in 1..Len(exit) : (exit \o new)[b] = exit[b]
          /\ \A i \in 1..Len(new) : (exit \o new)[Len(exit) + i] = new[i]
      <4>1. IsSeq(exit) /\ IsSeq(new)
        BY <1>1, <2>2
      <4>. QED
        BY <4>1, Concatenation
    <3>. QED
      BY <2>3, <3>1
  <2>5. Len(exit) \in Nat /\ DOMAIN exit = 1..Len(exit)
    BY <1>1, SeqFacts
  <2>6. \A b \in 1..Len(exit) : exit[b] # Invalid
    BY <1>1, <2>5 DEF OpenInv, Blocks
  <2>7. 1 \in 1..2
    OBVIOUS
  <2>8. exit'[Len(exit) + 1] # Invalid
    BY <2>2, <2>4, <2>7, ExitFacts
  <2>9. \A b \in 1..Len(exit') : b \in 1..Len(exit) \/ b = Len(exit) + 1 \/ b = Len(exit) + 2
    BY <2>2, <2>4, <2>5
  <2>. QED
    BY <1>3, <2>4, <2>6, <2>8, <2>9 DEF Fresh
<1>10. blocks'[1] = first
  BY <1>6
<1>11. ~Leaves(frame) /\ ~NeedsCloser(frame) /\ Shallow(frame) /\ frame.kind # "case"
  BY <1>7 DEF Leaves, NeedsCloser, Shallow, DeepFrames, IfFrames, PlainKinds
<1>12. WorkIsTidy'
  <2>1. CASE body.kind = "block"
    <3>1. PICK nodes \in Seq(Plain \cup Ifs) : nodes = body.nodes
      BY <1>8, <2>1
    <3>2. work' = nodes \o <<frame>>
      BY <1>6, <2>1, <3>1
    <3>3. /\ Len(work') = Len(nodes) + 1 /\ Len(nodes) \in Nat
          /\ \A i \in 1..Len(nodes) : work'[i] = nodes[i]
          /\ work'[Len(nodes) + 1] = frame
      <4>1. PICK S : S = Plain \cup Ifs \cup {frame}
        OBVIOUS
      <4>2. nodes \in Seq(S) /\ frame \in S
        BY <3>1, <4>1
      <4>3. work' = Append(nodes, frame)
        BY <3>2, <4>2, AppendIsConcat
      <4>. QED
        BY <4>2, <4>3
    <3>4. \A i \in 1..Len(work') : i \in 1..Len(nodes) \/ i = Len(nodes) + 1
      BY <3>3
    <3>5. \A i \in 1..Len(nodes) : i \in 1..Len(work')
      BY <3>3
    <3>6. ASSUME NEW i \in 1..Len(nodes)
          PROVE  Shallow(nodes[i]) /\ nodes[i].kind # "case"
      <4>1. nodes[i] \in Plain \cup Ifs
        BY <3>1
      <4>2. nodes[i].kind \in PlainKinds \cup {"if"}
        BY <4>1 DEF IsTidy, IsStraight
      <4>. QED
        BY <4>2 DEF Shallow, DeepFrames, IfFrames, PlainKinds
    <3>7. \A i \in 1..Len(work') : Shallow(work'[i]) /\ work'[i].kind # "case"
      BY <1>11, <3>3, <3>4, <3>6
    <3>8. ASSUME NEW i \in 1..Len(work'), NeedsCloser(work'[i])
          PROVE  \E j \in 1..Len(work') : i < j /\ Closes(work'[j])
      <4>1. i \in 1..Len(nodes)
        BY <1>11, <3>3, <3>4, <3>8
      <4>2. NeedsCloser(nodes[i])
        BY <3>3, <3>8, <4>1
      <4>3. PICK j \in 1..Len(nodes) : i < j /\ Closes(nodes[j])
        BY <1>8, <2>1, <3>1, <4>1, <4>2
      <4>4. j \in 1..Len(work') /\ Closes(work'[j])
        BY <3>3, <3>5, <4>3
      <4>. QED
        BY <4>3, <4>4
    <3>. QED
      BY <3>7, <3>8 DEF WorkIsTidy
  <2>2. CASE body.kind # "block"
    <3>1. PICK front, back : front = <<case>> /\ back = <<frame>>
      OBVIOUS
    <3>2. /\ IsSeq(front) /\ Len(front) = 1 /\ front[1] = case
          /\ IsSeq(back) /\ Len(back) = 1 /\ back[1] = frame
      BY <3>1, ShortSequences
    <3>3. Len(work') = 2 /\ work'[1] = case /\ work'[2] = frame
      <4>1. /\ Len(front \o back) = Len(front) + Len(back)
            /\ \A b \in 1..Len(front) : (front \o back)[b] = front[b]
            /\ \A i \in 1..Len(back) : (front \o back)[Len(front) + i] = back[i]
        <5>1. IsSeq(front) /\ IsSeq(back)
          BY <3>2
        <5>. QED
          BY <5>1, Concatenation
      <4>2. work' = front \o back
        BY <1>6, <2>2, <3>1
      <4>3. 1 \in 1..1
        OBVIOUS
      <4>. QED
        BY <3>2, <4>1, <4>2, <4>3
    <3>4. \A i \in 1..Len(work') : i = 1 \/ i = 2
      BY <3>3
    <3>5. ~Leaves(case) /\ ~NeedsCloser(case)
      BY <1>7 DEF Leaves, NeedsCloser, PlainKinds
    <3>6. \A i \in 1..Len(work') : /\ ~Leaves(work'[i]) /\ ~NeedsCloser(work'[i])
                                   /\ work'[i].kind = "case" => i = 1 /\ work'[i].before = current'
      BY <1>6, <1>7, <1>11, <3>3, <3>4, <3>5
    <3>. QED
      BY <3>6 DEF WorkIsTidy
  <2>. QED
    BY <2>1, <2>2
<1>13. \A b \in 1..Len(exit') : exit'[b] = Invalid => WillClose(b)'
  BY <1>9, <1>10 DEF WillClose
<1>14. work' # << >>
  <2>1. CASE body.kind = "block"
    <3>1. PICK nodes \in Seq(Plain \cup Ifs) : nodes = body.nodes
      BY <1>8, <2>1
    <3>2. PICK S : S = Plain \cup Ifs \cup {frame}
      OBVIOUS
    <3>3. nodes \in Seq(S) /\ frame \in S
      BY <3>1, <3>2
    <3>4. work' = Append(nodes, frame)
      BY <1>6, <2>1, <3>1, <3>3, AppendIsConcat
    <3>. QED
      BY <3>3, <3>4
  <2>2. CASE body.kind # "block"
    BY <1>6, <2>2
  <2>. QED
    BY <2>1, <2>2
<1>. QED
  BY <1>12, <1>13, <1>14 DEF OpenInv

LEMMA EndFunctionStays ==
  ASSUME IsTidy, LoweringInv, OpenInv, EndFunction
  PROVE  OpenInv'
<1>1. /\ work # << >> /\ work[1].kind = "endfunction" /\ Top = work[1] /\ Pop
  BY TopFits DEF EndFunction, At, Top
<1>2. /\ IsSeq(work) /\ WorkIsNested /\ WorkFits /\ DOMAIN exit = 1..Len(exit)
      /\ 1 \in 1..Len(work) /\ Len(work) \in Nat
  BY <1>1, TopFits
<1>3. PICK first : first = work[1].first
  OBVIOUS
<1>4. first = blocks[1]
  BY <1>1, <1>2, <1>3 DEF WorkFits
<1>5. Len(work) = 1 /\ DOMAIN work = 1..1
  BY <1>1, <1>2, SeqFacts DEF WorkIsNested
<1>6. exit' = [b \in DOMAIN exit |-> IF b \in {next, first} /\ exit[b] = Invalid
                                     THEN Branch(endBlock) ELSE exit[b]]
  BY <1>1, <1>3 DEF EndFunction
<1>7. Blocks' = 1..Len(exit)
  BY <1>2, <1>6 DEF Blocks
<1>8. ASSUME NEW b \in 1..Len(exit), exit[b] = Invalid PROVE b \in {next, first}
  <2>1. WillClose(b)
    BY <1>1, <1>8 DEF OpenInv
  <2>2. \A i \in 1..Len(work) : i = 1
    BY <1>5
  <2>3. b \notin Promised
    BY <1>1, <1>5 DEF Promised, Promising
  <2>4. ~Closes(work[1]) /\ Remembered(work[1]) = {}
    BY <1>1 DEF Closes, Closers, Remembered
  <2>5. CurrentWillClose => current = next
    BY <2>2, <2>4 DEF CurrentWillClose
  <2>. QED
    BY <1>4, <2>1, <2>2, <2>3, <2>4, <2>5 DEF WillClose
<1>9. \A b \in Blocks' : exit'[b] # Invalid
  BY <1>2, <1>6, <1>7, <1>8, ExitFacts
<1>10. work' = << >>
  <2>1. PICK S : work \in Seq(S)
    BY <1>2 DEF IsSeq
  <2>2. Tail(work) \in Seq(S) /\ Len(Tail(work)) = 0
    BY <1>1, <1>5, <2>1
  <2>3. PICK t : t = Tail(work)
    OBVIOUS
  <2>4. t = << >>
    BY <2>2, <2>3
  <2>. QED
    BY <1>1, <2>3, <2>4 DEF Pop
<1>. QED
  BY <1>9, <1>10 DEF OpenInv
-----------------------------------------------------------------------------
(* The theorems *)

LEMMA OpenGoesOn ==
  ASSUME IsTidy, LoweringInv, OpenInv, [Lower]_loweringVars
  PROVE  OpenInv'
<1>1. CASE UNCHANGED loweringVars
  <2>1. UNCHANGED <<work, exit, blocks, current, next>>
    BY <1>1 DEF loweringVars, blockVars
  <2>2. Promising' = Promising
    BY <2>1 DEF Promising
  <2>3. Promised' = Promised /\ Blocks' = Blocks
    BY <2>1, <2>2 DEF Promised, Blocks
  <2>4. CurrentWillClose' = CurrentWillClose /\ WorkIsTidy' = WorkIsTidy
    BY <2>1 DEF CurrentWillClose, WorkIsTidy
  <2>5. \A b \in 1..Len(exit) : WillClose(b) => WillClose(b)'
    BY <2>1, <2>3, <2>4 DEF WillClose
  <2>. QED
    BY <2>1, <2>3, <2>4, <2>5 DEF OpenInv
<1>2. CASE Lower
  <2>1. CASE BeginFunction \/ EndFunction
    BY <2>1, BeginFunctionStays, EndFunctionStays
  <2>2. CASE Operand \/ ProcessCall \/ ProcessCtor \/ Store
    BY <2>2, SimpleStays
  <2>3. CASE ProcessAssign \/ ProcessReturn \/ StoreResult \/ ProcessConvert
    BY <2>3, ProcessAssignStays, ProcessReturnStays, StoreResultStays, ProcessConvertStays
  <2>4. CASE BeginIf \/ ThenBlock \/ NoElseBlock \/ ElseBlock \/ Connect \/ EndIf
    BY <2>4, BeginIfStays, ThenBlockStays, NoElseBlockStays, ElseBlockStays, ConnectStays, EndIfStays
  <2>5. CASE BeginMatch \/ BeginCase \/ EndCase \/ LinkCase \/ EndMatch
    BY <2>5, BeginMatchStays, BeginCaseStays, EndCaseStays, LinkCaseStays, EndMatchStays
  <2>. QED
    BY <1>2, <2>1, <2>2, <2>3, <2>4, <2>5 DEF Lower
<1>. QED
  BY <1>1, <1>2

\* While the functions of a tidy module are lowered, a block without an exit is
\* one that the rest of the work, or the end of the function, gives one.
THEOREM OpenBlocksWillClose ==
  ASSUME IsTidy
  PROVE  LowerSpec => []OpenInv
<1>1. Init => OpenInv
  BY DEF Init, OpenInv, Blocks
<1>2. LoweringInv /\ OpenInv /\ [Lower]_loweringVars => OpenInv'
  BY OpenGoesOn
<1>3. LowerSpec => []LoweringInv
  BY LoweringIsInvariant DEF IsTidy
<1>. QED
  BY <1>1, <1>2, <1>3, PTL DEF LowerSpec

\* When a function of such a module is finished every block ever made has an exit,
\* and its list of blocks is closed: neither the backend gives up on a block nor
\* does the assertion of rir_block_deinit() fail.
THEOREM FunctionsClose ==
  ASSUME IsTidy
  PROVE  LowerSpec => []FunctionsAreClosed
<1>1. OpenInv /\ ListsAreClosed => FunctionsAreClosed
  BY DEF OpenInv, FunctionsAreClosed
<1>2. LowerSpec => []ListsAreClosed
  BY ListsClose DEF IsTidy
<1>. QED
  BY <1>1, <1>2, OpenBlocksWillClose, PTL
=============================================================================
