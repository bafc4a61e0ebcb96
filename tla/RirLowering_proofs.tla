------------------------- MODULE RirLowering_proofs -------------------------
(***************************************************************************)
(* Proofs about the lowering, for every module whose functions have no if  *)
(* inside of a branch of another one: the blocks of every function are     *)
(* closed, and the branches of an if go on behind it.                      *)
(***************************************************************************)
EXTENDS RirLowering, SequenceTheorems, TLAPS

CONSTANTS
  Plain,  \* the statements and expressions of a program that have no if in them
  Ifs     \* its ifs, those behind an elif included

PlainKinds == {"value", "arith", "call", "ctor", "convert", "assign", "return", "match"}

\* The parts of what has no if have none, and neither have branches.
IsStraight ==
  /\ \A n \in Plain :
       /\ n.kind \in PlainKinds
       /\ n.kind \in {"assign", "return"} => n.from \in Plain
       /\ n.kind = "match" => n.cases \in Seq(Plain) /\ n.cases # << >>
  /\ \A n \in Ifs :
       /\ n.kind = "if" /\ n.cond \in Plain /\ n.then \in Seq(Plain)
       /\ \/ n.else.kind = "none"
          \/ n.else.kind = "block" /\ n.else.nodes \in Seq(Plain)
          \/ n.else \in Ifs
  /\ \A m \in Modules : Len(m) \in Nat
  /\ \A m \in Modules : \A k \in 1..Len(m) :
       \/ m[k].kind = "block" /\ m[k].nodes \in Seq(Plain \cup Ifs)
       \/ m[k].kind = "match" /\ m[k] \in Plain
-----------------------------------------------------------------------------
(* Sequences *)

IsSeq(s) == \E S : s \in Seq(S)

LEMMA SeqFacts ==
  ASSUME NEW s, IsSeq(s)
  PROVE  Len(s) \in Nat /\ DOMAIN s = 1..Len(s) /\ (s = << >> <=> Len(s) = 0)
<1>1. PICK S : s \in Seq(S)
  BY DEF IsSeq
<1>. QED
  BY <1>1

LEMMA Concatenation ==
  ASSUME NEW s, NEW t, IsSeq(s), IsSeq(t)
  PROVE  /\ IsSeq(s \o t) /\ Len(s \o t) = Len(s) + Len(t)
         /\ \A i \in 1..Len(s) : (s \o t)[i] = s[i]
         /\ \A i \in 1..Len(t) : (s \o t)[Len(s) + i] = t[i]
         /\ \A i \in 1..Len(s) + Len(t) : i > Len(s) =>
              i - Len(s) \in 1..Len(t) /\ (s \o t)[i] = t[i - Len(s)]
<1>1. PICK S : s \in Seq(S)
  BY DEF IsSeq
<1>2. PICK T : t \in Seq(T)
  BY DEF IsSeq
<1>. DEFINE U == S \cup T
<1>3. s \in Seq(U) /\ t \in Seq(U)
  BY <1>1, <1>2
<1>. HIDE DEF U
<1>4. s \o t \in Seq(U)
  BY <1>3
<1>5. IsSeq(s \o t)
  BY <1>4 DEF IsSeq
<1>6. Len(s) \in Nat /\ Len(t) \in Nat
  BY <1>3
<1>7. /\ Len(s \o t) = Len(s) + Len(t)
      /\ \A i \in 1..Len(s) + Len(t) : (s \o t)[i] = IF i <= Len(s) THEN s[i] ELSE t[i - Len(s)]
  BY <1>3
<1>8. \A i \in 1..Len(s) : i \in 1..Len(s) + Len(t) /\ i <= Len(s)
  BY <1>6
<1>9. \A i \in 1..Len(t) : /\ Len(s) + i \in 1..Len(s) + Len(t) /\ ~(Len(s) + i <= Len(s))
                           /\ (Len(s) + i) - Len(s) = i
  BY <1>6
<1>10. \A i \in 1..Len(s) + Len(t) : i > Len(s) => i - Len(s) \in 1..Len(t) /\ ~(i <= Len(s))
  BY <1>6
<1>. QED
  BY <1>5, <1>7, <1>8, <1>9, <1>10

\* The top of the stack makes way for some items.
LEMMA Replacing ==
  ASSUME NEW s, IsSeq(s), s # << >>, NEW items, IsSeq(items)
  PROVE  LET new == items \o Tail(s)
             m == Len(items)
         IN /\ IsSeq(new) /\ m \in Nat /\ Len(s) \in Nat \ {0}
            /\ Len(new) = m + (Len(s) - 1)
            /\ \A i \in 1..m : new[i] = items[i]
            /\ \A i \in 2..Len(s) : (i - 1) + m \in 1..Len(new) /\ new[(i - 1) + m] = s[i]
            /\ \A i \in 1..Len(new) :
                 \/ i \in 1..m
                 \/ /\ m < i /\ (i - m) + 1 \in 2..Len(s)
                    /\ new[i] = s[(i - m) + 1]
<1>. DEFINE t == Tail(s)
            m == Len(items)
            l == Len(s)
<1>1. PICK S : s \in Seq(S)
  BY DEF IsSeq
<1>2. /\ t \in Seq(S) /\ l \in Nat \ {0} /\ Len(t) = l - 1
      /\ \A i \in 1..l - 1 : t[i] = s[i + 1]
  BY <1>1
<1>3. IsSeq(t) /\ m \in Nat
  BY <1>2, SeqFacts DEF IsSeq
<1>. HIDE DEF t
<1>40. /\ IsSeq(items \o t) /\ Len(items \o t) = m + Len(t)
       /\ \A i \in 1..m : (items \o t)[i] = items[i]
       /\ \A i \in 1..Len(t) : (items \o t)[m + i] = t[i]
       /\ \A i \in 1..m + Len(t) : i > m => i - m \in 1..Len(t) /\ (items \o t)[i] = t[i - m]
  BY <1>3, Concatenation
<1>4. /\ IsSeq(items \o t) /\ Len(items \o t) = m + (l - 1)
      /\ \A i \in 1..m : (items \o t)[i] = items[i]
      /\ \A i \in 1..l - 1 : (items \o t)[m + i] = t[i]
      /\ \A i \in 1..m + (l - 1) : i > m => i - m \in 1..l - 1 /\ (items \o t)[i] = t[i - m]
  BY <1>2, <1>40
<1>5. ASSUME NEW i \in 2..l
      PROVE  (i - 1) + m \in 1..m + (l - 1) /\ (items \o t)[(i - 1) + m] = s[i]
  <2>1. i - 1 \in 1..l - 1 /\ (i - 1) + 1 = i /\ m + (i - 1) = (i - 1) + m
    BY <1>2, <1>3
  <2>2. (items \o t)[m + (i - 1)] = t[i - 1] /\ t[i - 1] = s[(i - 1) + 1]
    BY <1>2, <1>4, <2>1
  <2>3. (i - 1) + m \in 1..m + (l - 1)
    BY <1>2, <1>3
  <2>. QED
    BY <2>1, <2>2, <2>3
<1>6. ASSUME NEW i \in 1..m + (l - 1), i \notin 1..m
      PROVE  m < i /\ (i - m) + 1 \in 2..l /\ (items \o t)[i] = s[(i - m) + 1]
  <2>1. i > m
    BY <1>2, <1>3, <1>6
  <2>2. i - m \in 1..l - 1 /\ (items \o t)[i] = t[i - m] /\ t[i - m] = s[(i - m) + 1]
    BY <1>2, <1>4, <2>1
  <2>. QED
    BY <1>2, <1>3, <2>1, <2>2
<1>. QED
  BY <1>2, <1>3, <1>4, <1>5, <1>6 DEF t

LEMMA ShortSequences ==
  /\ IsSeq(<< >>) /\ Len(<< >>) = 0
  /\ \A a : IsSeq(<<a>>) /\ Len(<<a>>) = 1 /\ <<a>>[1] = a
  /\ \A a, b : IsSeq(<<a, b>>) /\ Len(<<a, b>>) = 2 /\ <<a, b>>[1] = a /\ <<a, b>>[2] = b
  /\ \A a, b, c : /\ IsSeq(<<a, b, c>>) /\ Len(<<a, b, c>>) = 3
                  /\ <<a, b, c>>[1] = a /\ <<a, b, c>>[2] = b /\ <<a, b, c>>[3] = c
<1>1. << >> \in Seq({})
  OBVIOUS
<1>2. \A a : <<a>> \in Seq({a})
  OBVIOUS
<1>3. \A a, b : <<a, b>> \in Seq({a, b})
  OBVIOUS
<1>4. \A a, b, c : <<a, b, c>> \in Seq({a, b, c})
  OBVIOUS
<1>5. IsSeq(<< >>) /\ (\A a : IsSeq(<<a>>)) /\ (\A a, b : IsSeq(<<a, b>>))
      /\ \A a, b, c : IsSeq(<<a, b, c>>)
  BY <1>1, <1>2, <1>3, <1>4 DEF IsSeq
<1>. QED
  BY <1>5
-----------------------------------------------------------------------------
(* Exits *)

LEMMA ExitFacts ==
  /\ TargetsOf(Invalid) = {} /\ TargetsOf(ReturnExit) = {} /\ ReturnExit # Invalid
  /\ \A b : TargetsOf(Branch(b)) = {b} /\ Branch(b) # Invalid
  /\ \A c, t, f : TargetsOf(CondBranch(c, t, f)) = {t, f} /\ CondBranch(c, t, f) # Invalid
<1>1. /\ Invalid.type = "invalid" /\ ReturnExit.type = "return"
      /\ \A b : Branch(b).type = "branch" /\ Branch(b).dst = b
      /\ \A c, t, f : /\ CondBranch(c, t, f).type = "condbranch"
                      /\ CondBranch(c, t, f).taken = t /\ CondBranch(c, t, f).fallthrough = f
  BY DEF Invalid, ReturnExit, Branch, CondBranch
<1>. QED
  BY <1>1 DEF TargetsOf
-----------------------------------------------------------------------------
(* The inductive invariant *)

Listed == {blocks[i] : i \in DOMAIN blocks}

\* Blocks that will be added to the function when the frames for the rest of an
\* if or of a match are reached.
PromisedBy(w, nextBlock) == IF w.kind = "endif" THEN nextBlock ELSE w.after
Promising == {i \in DOMAIN work : work[i].kind \in {"endif", "endmatch"}}
Promised == {PromisedBy(work[i], next) : i \in Promising}

\* Where an exit may lead.
Safe == Listed \cup Promised \cup {endBlock}

IfFrames == {"then", "else", "connect"}

\* Only one if is under way: its frames are above its end, and no further if is
\* among them.
WorkIsNested ==
  /\ \A i \in 1..Len(work) : work[i].kind = "endfunction" <=> i = Len(work)
  /\ \A j \in 1..Len(work) : work[j].kind \in IfFrames
       => \E e \in 1..Len(work) : j < e /\ work[e].kind = "endif"
  /\ \A e \in 1..Len(work) : work[e].kind = "endif"
       => \A i \in 1..Len(work) : i < e => work[i].kind \notin {"if", "endif"}

IsCase(c, safe) ==
  /\ c.match \in Plain /\ c.match.kind = "match" /\ c.k \in 1..Len(c.match.cases)
  /\ c.after \in safe

\* What a frame remembers are blocks of the function, and the block behind its if
\* is still the next one.
Fits(w, listed, safe, nextBlock) ==
  /\ w.kind \in PlainKinds => w \in Plain
  /\ w.kind = "if" => w \in Ifs
  /\ w.kind \in IfFrames => w.if \in Ifs /\ w.old \in listed /\ w.after = nextBlock
  /\ w.kind \in {"else", "connect"} => w.taken \in listed
  /\ w.kind = "connect" => w.other \in listed \/ (w.other = NoBlock /\ w.if.else.kind = "none")
  /\ w.kind = "case" => IsCase(w, safe)
  /\ w.kind = "endcase" => IsCase(w.case, safe) /\ w.this \in listed /\ w.taken \in listed
  /\ w.kind = "link" => w.this \in listed /\ w.taken \in listed

\* The block that a comparison falls through to is there, or the next one made.
LinkFits(i) ==
  work[i].kind = "link" =>
    \/ work[i].other \in Listed
    \/ i = 2 /\ work[1].kind = "case" /\ work[i].other = Len(exit) + 1

WorkFits ==
  \A i \in 1..Len(work) :
    /\ Fits(work[i], Listed, Safe, next)
    /\ LinkFits(i)
    /\ work[i].kind = "endfunction" => work[i].first = blocks[1]

\* A promised block is not in the function yet and has no exit.
PromisesAreOpen ==
  /\ \A i \in Promising :
       LET p == PromisedBy(work[i], next)
       IN p \in Nat /\ endBlock < p /\ p <= Len(exit) /\ p \notin Listed /\ exit[p] = Invalid
  /\ \A i, j \in Promising : PromisedBy(work[i], next) = PromisedBy(work[j], next) => i = j

BlocksAreListed ==
  /\ endBlock \in Nat \ {0} /\ endBlock <= Len(exit) /\ exit[endBlock] = ReturnExit
  /\ blocks \in Seq(Nat) /\ blocks # << >> /\ current \in Listed
  /\ \A i, j \in DOMAIN blocks : blocks[i] = blocks[j] => i = j
  /\ \A b \in Listed : endBlock < b /\ b <= Len(exit) /\ TargetsOf(exit[b]) \subseteq Safe

\* The next block may be left over from the function before, with its exit.
NextIsKnown ==
  next = NoBlock \/ /\ next \in 1..Len(exit)
                    /\ exit[next] # Invalid \/ (work # << >> /\ next \in Listed \cup Promised)

FinishedAreClosed ==
  /\ IsSeq(functions)
  /\ \A k \in 1..Len(functions) :
       LET list == functions[k].blocks
       IN /\ list \in Seq(1..Len(exit)) /\ list # << >>
          /\ IsClosed(list, functions[k].first)
          /\ work # << >> => \A i \in 1..Len(list) : list[i] < endBlock

LoweringInv ==
  /\ bodies \in Modules
  /\ IsSeq(work) /\ IsSeq(exit)
  /\ work # << >> => WorkIsNested /\ WorkFits /\ PromisesAreOpen /\ BlocksAreListed
  /\ NextIsKnown /\ FinishedAreClosed /\ BranchesJoinBehindTheirIf
-----------------------------------------------------------------------------
(* A step that replaces the top of the stack *)

LEMMA StaysNested ==
  ASSUME IsSeq(work), work # << >>, WorkIsNested, NEW items, IsSeq(items),
         work' = items \o Tail(work), work[1].kind \notin {"if", "endfunction"},
         \A i \in 1..Len(items) :
           /\ items[i].kind \notin {"if", "endif", "endfunction"}
           /\ items[i].kind \in IfFrames => work[1].kind \in IfFrames
  PROVE  WorkIsNested' /\ IsSeq(work') /\ work' # << >>
<1>. DEFINE l == Len(work)
            m == Len(items)
            k == Len(work')
<1>1. /\ IsSeq(work') /\ m \in Nat /\ l \in Nat \ {0} /\ k = m + (l - 1)
      /\ \A i \in 1..m : work'[i] = items[i]
      /\ \A i \in 2..l : (i - 1) + m \in 1..k /\ work'[(i - 1) + m] = work[i]
      /\ \A i \in 1..k : i \in 1..m \/ /\ m < i /\ (i - m) + 1 \in 2..l
                                       /\ work'[i] = work[(i - m) + 1]
  BY Replacing
<1>2. l >= 2 /\ work[l].kind = "endfunction"
  <2>1. 1 \in 1..l /\ l \in 1..l
    BY <1>1
  <2>2. l # 1
    BY <2>1 DEF WorkIsNested
  <2>. QED
    BY <1>1, <2>1, <2>2 DEF WorkIsNested
<1>3. work' # << >>
  <2>1. k # 0
    BY <1>1, <1>2
  <2>. QED
    BY <1>1, <2>1, SeqFacts
<1>. HIDE DEF l, m, k
<1>4. \A i \in 1..k : work'[i].kind = "endfunction" <=> i = k
  <2>1. TAKE i \in 1..k
  <2>2. CASE i \in 1..m
    BY <1>1, <1>2, <2>2 DEF m
  <2>3. CASE i \notin 1..m
    <3>1. (i - m) + 1 \in 2..l /\ work'[i] = work[(i - m) + 1]
      BY <1>1, <2>3
    <3>2. (i - m) + 1 \in 1..l /\ ((i - m) + 1 = l <=> i = k)
      BY <1>1, <3>1
    <3>. QED
      BY <3>1, <3>2 DEF WorkIsNested, l
  <2>. QED
    BY <2>2, <2>3
<1>5. ASSUME NEW j \in 1..k, work'[j].kind \in IfFrames
      PROVE  \E e \in 1..k : j < e /\ work'[e].kind = "endif"
  <2>. DEFINE j0 == IF j \in 1..m THEN 1 ELSE (j - m) + 1
  <2>1. j0 \in 1..l /\ work[j0].kind \in IfFrames
    <3>1. CASE j \in 1..m
      BY <1>1, <1>2, <1>5, <3>1 DEF m
    <3>2. CASE j \notin 1..m
      <4>1. (j - m) + 1 \in 2..l /\ work'[j] = work[(j - m) + 1]
        BY <1>1, <3>2
      <4>2. (j - m) + 1 \in 1..l
        BY <1>1, <4>1
      <4>3. j0 = (j - m) + 1
        BY <3>2
      <4>. QED
        BY <1>5, <4>1, <4>2, <4>3
    <3>. QED
      BY <3>1, <3>2
  <2>2. PICK e \in 1..l : j0 < e /\ work[e].kind = "endif"
    <3>. HIDE DEF j0
    <3>. QED
      BY <2>1 DEF WorkIsNested, l
  <2>3. e \in 2..l
    BY <1>1, <2>1, <2>2
  <2>4. (e - 1) + m \in 1..k /\ work'[(e - 1) + m].kind = "endif"
    BY <1>1, <2>2, <2>3
  <2>5. j < (e - 1) + m
    <3>1. CASE j \in 1..m
      BY <1>1, <2>3, <3>1
    <3>2. CASE j \notin 1..m
      BY <1>1, <2>2, <2>3, <3>2
    <3>. QED
      BY <3>1, <3>2
  <2>. QED
    BY <2>4, <2>5
<1>6. ASSUME NEW e \in 1..k, work'[e].kind = "endif", NEW i \in 1..k, i < e
      PROVE  work'[i].kind \notin {"if", "endif"}
  <2>1. e \notin 1..m
    BY <1>1, <1>6 DEF m
  <2>2. (e - m) + 1 \in 2..l /\ work[(e - m) + 1].kind = "endif"
    BY <1>1, <1>6, <2>1
  <2>3. CASE i \in 1..m
    BY <1>1, <2>3 DEF m
  <2>4. CASE i \notin 1..m
    <3>1. (i - m) + 1 \in 2..l /\ work'[i] = work[(i - m) + 1]
      BY <1>1, <2>4
    <3>2. (i - m) + 1 < (e - m) + 1 /\ (i - m) + 1 \in 1..l /\ (e - m) + 1 \in 1..l
      BY <1>1, <1>6, <2>2, <3>1
    <3>. QED
      BY <2>2, <3>1, <3>2 DEF WorkIsNested, l
  <2>. QED
    BY <2>3, <2>4
<1>7. WorkIsNested'
  BY <1>4, <1>5, <1>6 DEF WorkIsNested, k
<1>. QED
  BY <1>1, <1>3, <1>7
-----------------------------------------------------------------------------
\* What a frame remembers stays in lists and promises that grow.
LEMMA FitsGrows ==
  ASSUME NEW w, NEW l1, NEW l2, NEW s1, NEW s2, NEW n,
         Fits(w, l1, s1, n), l1 \subseteq l2, s1 \subseteq s2
  PROVE  Fits(w, l2, s2, n)
BY DEF Fits, IsCase

LEMMA SafeGrows ==
  ASSUME IsSeq(work), work # << >>, NEW items, IsSeq(items), work' = items \o Tail(work),
         UNCHANGED <<endBlock, next>>, Listed \subseteq Listed',
         work[1].kind \in {"endif", "endmatch"} => PromisedBy(work[1], next) \in Listed'
  PROVE  /\ Listed \cup Promised \subseteq (Listed \cup Promised)'
         /\ Safe \subseteq Safe'
<1>. DEFINE m == Len(items)
<1>1. /\ IsSeq(work') /\ Len(work) \in Nat \ {0} /\ m \in Nat
      /\ \A i \in 2..Len(work) : (i - 1) + m \in 1..Len(work') /\ work'[(i - 1) + m] = work[i]
  BY Replacing
<1>2. DOMAIN work = 1..Len(work) /\ DOMAIN work' = 1..Len(work')
  BY <1>1, SeqFacts
<1>. HIDE DEF m
<1>3. ASSUME NEW p \in Promised
      PROVE  p \in Listed' \cup Promised'
  <2>1. PICK i \in 1..Len(work) : /\ work[i].kind \in {"endif", "endmatch"}
                                  /\ p = PromisedBy(work[i], next)
    BY <1>2, <1>3 DEF Promised, Promising
  <2>2. CASE i = 1
    BY <2>1, <2>2
  <2>3. CASE i # 1
    <3>1. i \in 2..Len(work)
      BY <1>1, <2>3
    <3>. DEFINE j == (i - 1) + m
    <3>2. j \in 1..Len(work') /\ work'[j] = work[i]
      BY <1>1, <3>1
    <3>. HIDE DEF j
    <3>3. j \in Promising' /\ p = PromisedBy(work'[j], next')
      BY <1>2, <2>1, <3>2 DEF Promising
    <3>. QED
      BY <3>3 DEF Promised
  <2>. QED
    BY <2>2, <2>3
<1>. QED
  BY <1>3 DEF Safe
-----------------------------------------------------------------------------
\* A step that puts items in the place of the top of the stack and added behind
\* the blocks of the function. It may make blocks, and change the exits of blocks
\* that are in the function.

KindsAreKept(items) ==
  /\ work[1].kind \notin {"if", "endfunction"}
  /\ \A i \in 1..Len(items) :
       /\ items[i].kind \notin {"if", "endif", "endfunction"}
       /\ items[i].kind \in IfFrames => work[1].kind \in IfFrames

ExitsAreKept ==
  /\ IsSeq(exit') /\ Len(exit) <= Len(exit')
  /\ \A b \in 1..Len(exit) :
       \/ exit'[b] = exit[b]
       \/ b \in Listed /\ exit'[b] # Invalid /\ TargetsOf(exit'[b]) \subseteq Safe'

Elements(s) == {s[i] : i \in 1..Len(s)}

\* New blocks, or the one promised by the frame on top.
MayBeAdded(b) ==
  /\ b \in Nat /\ b <= Len(exit')
  /\ \/ Len(exit) < b
     \/ work[1].kind \in {"endif", "endmatch"} /\ b = PromisedBy(work[1], next)
  /\ TargetsOf(exit'[b]) \subseteq Safe'

AddsBlocks(added) ==
  /\ added \in Seq(Nat) /\ blocks' = blocks \o added
  /\ \A i \in 1..Len(added) : MayBeAdded(added[i])
  /\ \A i, j \in 1..Len(added) : added[i] = added[j] => i = j
  /\ work[1].kind \in {"endif", "endmatch"} => \E i \in 1..Len(added) : added[i] = PromisedBy(work[1], next)
  /\ current' \in Listed'

AddsItems(items) ==
  /\ IsSeq(items) /\ work' = items \o Tail(work)
  /\ \A i \in 1..Len(items) : Fits(items[i], Listed', Safe', next)
  /\ \A i \in 1..Len(items) : items[i].kind = "link" =>
       i = 2 /\ items[1].kind = "case" /\ items[i].other = Len(exit') + 1
  /\ work[1].kind = "case" => Len(exit) + 1 \in Listed'
  /\ \A i \in 1..Len(items) : items[i].kind = "endmatch" =>
       LET p == items[i].after
       IN p \in Nat /\ Len(exit) < p /\ p <= Len(exit') /\ p \notin Listed' /\ exit'[p] = Invalid
  /\ \A i, j \in 1..Len(items) : items[i].kind = "endmatch" /\ items[j].kind = "endmatch" => i = j

IsStep(items, added) ==
  /\ work # << >> /\ KindsAreKept(items) /\ ExitsAreKept /\ AddsBlocks(added) /\ AddsItems(items)
  /\ UNCHANGED <<bodies, functions, endBlock, next>> /\ BranchesJoinBehindTheirIf'

LEMMA BlocksGrow ==
  ASSUME BlocksAreListed, NEW added \in Seq(Nat), blocks' = blocks \o added
  PROVE  /\ blocks' \in Seq(Nat) /\ blocks' # << >> /\ blocks'[1] = blocks[1]
         /\ Listed' = Listed \cup Elements(added)
         /\ DOMAIN blocks = 1..Len(blocks) /\ Len(blocks) \in Nat \ {0} /\ Len(added) \in Nat
         /\ DOMAIN blocks' = 1..Len(blocks) + Len(added)
         /\ \A i \in 1..Len(blocks) : blocks'[i] = blocks[i]
         /\ \A i \in 1..Len(blocks) + Len(added) :
              i > Len(blocks) => i - Len(blocks) \in 1..Len(added) /\ blocks'[i] = added[i - Len(blocks)]
<1>1. blocks \in Seq(Nat) /\ blocks # << >> /\ added \in Seq(Nat) /\ blocks' = blocks \o added
  BY DEF BlocksAreListed
<1>2. IsSeq(blocks) /\ IsSeq(added)
  BY <1>1 DEF IsSeq
<1>3. /\ blocks' \in Seq(Nat) /\ Len(blocks) \in Nat \ {0} /\ Len(added) \in Nat
      /\ DOMAIN blocks = 1..Len(blocks) /\ DOMAIN blocks' = 1..Len(blocks')
  BY <1>1
<1>4. /\ Len(blocks') = Len(blocks) + Len(added)
      /\ \A i \in 1..Len(blocks) : blocks'[i] = blocks[i]
      /\ \A i \in 1..Len(added) : blocks'[Len(blocks) + i] = added[i]
      /\ \A i \in 1..Len(blocks) + Len(added) :
           i > Len(blocks) => i - Len(blocks) \in 1..Len(added) /\ blocks'[i] = added[i - Len(blocks)]
  BY <1>1, <1>2, Concatenation
<1>5. blocks' # << >> /\ 1 \in 1..Len(blocks)
  <2>1. Len(blocks') # 0
    BY <1>3, <1>4
  <2>. QED
    BY <1>3, <2>1
<1>6. ASSUME NEW b \in Listed' PROVE b \in Listed \cup Elements(added)
  <2>1. PICK i \in 1..Len(blocks) + Len(added) : b = blocks'[i]
    BY <1>3, <1>4, <1>6 DEF Listed
  <2>2. CASE i > Len(blocks)
    BY <1>4, <2>1, <2>2 DEF Elements
  <2>3. CASE ~(i > Len(blocks))
    <3>1. i \in 1..Len(blocks)
      BY <1>3, <2>3
    <3>. QED
      BY <1>3, <1>4, <2>1, <3>1 DEF Listed
  <2>. QED
    BY <2>2, <2>3
<1>7. ASSUME NEW b \in Listed PROVE b \in Listed'
  <2>1. PICK i \in 1..Len(blocks) : b = blocks[i]
    BY <1>3, <1>7 DEF Listed
  <2>2. i \in DOMAIN blocks' /\ b = blocks'[i]
    BY <1>3, <1>4, <2>1
  <2>. QED
    BY <2>2 DEF Listed
<1>8. ASSUME NEW i \in 1..Len(added) PROVE added[i] \in Listed'
  <2>. DEFINE j == Len(blocks) + i
  <2>1. j \in DOMAIN blocks' /\ added[i] = blocks'[j]
    BY <1>3, <1>4
  <2>. HIDE DEF j
  <2>. QED
    BY <2>1 DEF Listed
<1>9. Elements(added) \subseteq Listed'
  BY <1>8 DEF Elements
<1>. QED
  BY <1>3, <1>4, <1>5, <1>6, <1>7, <1>9
\* Nothing of the function or promised to it is lost.
LEMMA PlacesGrow ==
  ASSUME LoweringInv, NEW items, NEW added, IsStep(items, added)
  PROVE  /\ IsSeq(work) /\ Listed \subseteq Listed' /\ Safe \subseteq Safe'
         /\ Listed \cup Promised \subseteq (Listed \cup Promised)'
<1>1. IsSeq(work) /\ work # << >> /\ BlocksAreListed /\ AddsBlocks(added)
  BY DEF LoweringInv, IsStep
<1>2. IsSeq(items) /\ work' = items \o Tail(work) /\ UNCHANGED <<endBlock, next>>
  BY DEF IsStep, AddsItems
<1>3. Listed' = Listed \cup Elements(added)
  BY <1>1, BlocksGrow DEF AddsBlocks
<1>4. work[1].kind \in {"endif", "endmatch"} => PromisedBy(work[1], next) \in Listed'
  BY <1>1, <1>3 DEF AddsBlocks, Elements
<1>. QED
  BY <1>1, <1>2, <1>3, <1>4, SafeGrows

\* Exits outside of the function stay.
LEMMA OtherExitsStay ==
  ASSUME LoweringInv, NEW items, NEW added, IsStep(items, added),
         NEW b \in 1..Len(exit), b \notin Listed
  PROVE  exit'[b] = exit[b]
BY DEF IsStep, ExitsAreKept

\* A list is closed as long as the exits of its blocks stay.
LEMMA ListsStayClosed ==
  ASSUME IsSeq(exit), IsSeq(exit'), Len(exit) <= Len(exit'), NEW list \in Seq(1..Len(exit)),
         list # << >>, NEW first, IsClosed(list, first),
         \A i \in 1..Len(list) : exit'[list[i]] = exit[list[i]]
  PROVE  list \in Seq(1..Len(exit')) /\ IsClosed(list, first)'
<1>1. Len(exit) \in Nat /\ Len(exit') \in Nat
  BY SeqFacts
<1>2. Len(list) \in Nat \ {0} /\ DOMAIN list = 1..Len(list) /\ Len(list) \in DOMAIN list
  OBVIOUS
<1>3. list \in Seq(1..Len(exit'))
  <2>. DEFINE S == 1..Len(exit)
              T == 1..Len(exit')
  <2>1. list \in Seq(S) /\ S \subseteq T
    BY <1>1
  <2>. HIDE DEF S, T
  <2>2. list \in Seq(T)
    BY <2>1
  <2>. QED
    BY <2>2 DEF T
<1>. DEFINE own == {list[i] : i \in DOMAIN list}
<1>4. /\ \A i, j \in DOMAIN list : list[i] = list[j] => i = j
      /\ list[1] = first /\ exit[list[Len(list)]] = ReturnExit
      /\ \A b \in own : TargetsOf(exit[b]) \subseteq own
  BY DEF IsClosed
<1>5. \A b \in own : exit'[b] = exit[b]
  BY <1>2
<1>6. exit'[list[Len(list)]] = ReturnExit
  BY <1>2, <1>4
<1>. HIDE DEF own
<1>7. \A b \in own : TargetsOf(exit'[b]) \subseteq own
  BY <1>4, <1>5
<1>. QED
  BY <1>3, <1>4, <1>6, <1>7 DEF IsClosed, own

\* Finished functions keep theirs when no block up to the end block changes.
LEMMA FinishedStay ==
  ASSUME FinishedAreClosed, IsSeq(exit), IsSeq(exit'), Len(exit) <= Len(exit'),
         UNCHANGED functions, endBlock' \in Nat,
         \A k \in 1..Len(functions) : \A i \in 1..Len(functions[k].blocks) :
           LET b == functions[k].blocks[i] IN exit'[b] = exit[b] /\ b < endBlock'
  PROVE  FinishedAreClosed'
<1>1. ASSUME NEW k \in 1..Len(functions)
      PROVE  LET list == functions[k].blocks
             IN /\ list \in Seq(1..Len(exit')) /\ list # << >>
                /\ \A i \in 1..Len(list) : list[i] < endBlock'
                /\ IsClosed(list, functions[k].first)'
  <2>1. PICK list : list = functions[k].blocks
    OBVIOUS
  <2>2. PICK first : first = functions[k].first
    OBVIOUS
  <2>3. list \in Seq(1..Len(exit)) /\ list # << >> /\ IsClosed(list, first)
    BY <2>1, <2>2 DEF FinishedAreClosed
  <2>4. \A i \in 1..Len(list) : exit'[list[i]] = exit[list[i]] /\ list[i] < endBlock'
    BY <2>1
  <2>5. list \in Seq(1..Len(exit')) /\ IsClosed(list, first)'
    BY <2>3, <2>4, ListsStayClosed
  <2>6. functions'[k].first = first
    BY <2>2
  <2>7. IsClosed(list, functions[k].first)'
    BY <2>2, <2>5, <2>6 DEF IsClosed
  <2>. QED
    BY <2>1, <2>3, <2>4, <2>5, <2>7
<1>. QED
  BY <1>1 DEF FinishedAreClosed

\* The blocks of finished functions are before those of the one under way.
LEMMA FinishedAreBefore ==
  ASSUME LoweringInv, work # << >>, NEW k \in 1..Len(functions),
         NEW i \in 1..Len(functions[k].blocks), NEW b, b = functions[k].blocks[i]
  PROVE  b \in 1..Len(exit) /\ b < endBlock /\ b \notin Listed
<1>1. PICK list : list = functions[k].blocks
  OBVIOUS
<1>2. list \in Seq(1..Len(exit)) /\ list[i] < endBlock /\ i \in 1..Len(list)
  BY <1>1 DEF LoweringInv, FinishedAreClosed
<1>3. b \in 1..Len(exit) /\ b < endBlock
  BY <1>1, <1>2
<1>. QED
  BY <1>3, SeqFacts DEF LoweringInv, BlocksAreListed

LEMMA StepKeepsFinished ==
  ASSUME LoweringInv, NEW items, NEW added, IsStep(items, added)
  PROVE  FinishedAreClosed'
<1>1. /\ work # << >> /\ UNCHANGED functions /\ endBlock' = endBlock /\ endBlock \in Nat
      /\ FinishedAreClosed /\ IsSeq(exit) /\ IsSeq(exit') /\ Len(exit) <= Len(exit')
  BY DEF LoweringInv, IsStep, ExitsAreKept, BlocksAreListed
<1>2. ASSUME NEW k \in 1..Len(functions), NEW i \in 1..Len(functions[k].blocks)
      PROVE  LET b == functions[k].blocks[i] IN exit'[b] = exit[b] /\ b < endBlock'
  <2>1. PICK b : b = functions[k].blocks[i]
    OBVIOUS
  <2>2. b \in 1..Len(exit) /\ b < endBlock /\ b \notin Listed
    BY <1>1, <2>1, FinishedAreBefore
  <2>3. exit'[b] = exit[b]
    BY <2>2, OtherExitsStay
  <2>. QED
    BY <1>1, <2>1, <2>2, <2>3
<1>. QED
  BY <1>1, <1>2, FinishedStay

LEMMA NextStaysKnown ==
  ASSUME LoweringInv, NEW items, NEW added, IsStep(items, added)
  PROVE  NextIsKnown'
<1>1. /\ next' = next /\ NextIsKnown /\ ExitsAreKept /\ IsSeq(exit)
      /\ IsSeq(exit') /\ Len(exit) <= Len(exit') /\ work # << >>
  BY DEF LoweringInv, IsStep, ExitsAreKept
<1>2. Len(exit) \in Nat /\ Len(exit') \in Nat
  BY <1>1, SeqFacts
<1>3. CASE next = NoBlock
  BY <1>1, <1>3 DEF NextIsKnown
<1>4. CASE next # NoBlock
  <2>1. next \in 1..Len(exit) /\ next \in 1..Len(exit')
    BY <1>1, <1>2, <1>4 DEF NextIsKnown
  <2>2. CASE exit[next] # Invalid
    <3>1. exit'[next] # Invalid
      BY <1>1, <2>1, <2>2 DEF ExitsAreKept
    <3>. QED
      BY <1>1, <2>1, <3>1 DEF NextIsKnown
  <2>3. CASE exit[next] = Invalid
    <3>1. next \in Listed \cup Promised
      BY <1>1, <1>4, <2>3 DEF NextIsKnown
    <3>2. next \in (Listed \cup Promised)'
      BY <3>1, PlacesGrow
    <3>3. work' # << >>
      BY StaysNested DEF LoweringInv, IsStep, AddsItems, KindsAreKept
    <3>. QED
      BY <1>1, <2>1, <3>2, <3>3 DEF NextIsKnown
  <2>. QED
    BY <2>2, <2>3
<1>. QED
  BY <1>3, <1>4

LEMMA BlocksStayListed ==
  ASSUME LoweringInv, NEW items, NEW added, IsStep(items, added)
  PROVE  BlocksAreListed'
<1>1. /\ work # << >> /\ endBlock' = endBlock /\ next' = next /\ BlocksAreListed /\ PromisesAreOpen
      /\ ExitsAreKept /\ AddsBlocks(added) /\ IsSeq(exit) /\ IsSeq(exit') /\ Len(exit) <= Len(exit')
      /\ IsSeq(work)
  BY DEF LoweringInv, IsStep, ExitsAreKept
<1>2. Len(exit) \in Nat /\ Len(exit') \in Nat /\ endBlock \in Nat \ {0} /\ endBlock <= Len(exit)
  BY <1>1, SeqFacts DEF BlocksAreListed
<1>3. /\ blocks' \in Seq(Nat) /\ blocks' # << >>
      /\ Listed' = Listed \cup Elements(added)
      /\ DOMAIN blocks = 1..Len(blocks) /\ Len(blocks) \in Nat \ {0} /\ Len(added) \in Nat
      /\ DOMAIN blocks' = 1..Len(blocks) + Len(added)
      /\ \A i \in 1..Len(blocks) : blocks'[i] = blocks[i]
      /\ \A i \in 1..Len(blocks) + Len(added) :
           i > Len(blocks) => i - Len(blocks) \in 1..Len(added) /\ blocks'[i] = added[i - Len(blocks)]
  BY <1>1, BlocksGrow DEF AddsBlocks
<1>4. \A b \in Listed : b \in Nat /\ endBlock < b /\ b <= Len(exit) /\ TargetsOf(exit[b]) \subseteq Safe
  <2>1. \A i \in DOMAIN blocks : blocks[i] \in Nat
    BY <1>1 DEF BlocksAreListed
  <2>2. \A b \in Listed : b \in Nat
    BY <2>1 DEF Listed
  <2>. QED
    BY <1>1, <2>2 DEF BlocksAreListed
<1>5. endBlock <= Len(exit') /\ exit'[endBlock] = ReturnExit
  <2>1. endBlock \in 1..Len(exit) /\ endBlock \notin Listed
    BY <1>2, <1>4
  <2>2. exit'[endBlock] = exit[endBlock]
    BY <2>1, OtherExitsStay
  <2>. QED
    BY <1>1, <1>2, <2>2 DEF BlocksAreListed
<1>6. ASSUME NEW i \in 1..Len(added)
      PROVE  /\ added[i] \in Nat /\ endBlock < added[i] /\ added[i] <= Len(exit') /\ added[i] \notin Listed
             /\ TargetsOf(exit'[added[i]]) \subseteq Safe'
  <2>1. MayBeAdded(added[i])
    BY <1>1 DEF AddsBlocks
  <2>2. CASE Len(exit) < added[i]
    BY <1>2, <1>4, <2>1, <2>2 DEF MayBeAdded
  <2>3. CASE work[1].kind \in {"endif", "endmatch"} /\ added[i] = PromisedBy(work[1], next)
    <3>1. 1 \in Promising
      BY <1>1, <2>3, SeqFacts DEF Promising
    <3>. QED
      BY <1>1, <2>1, <2>3, <3>1 DEF PromisesAreOpen, MayBeAdded
  <2>. QED
    BY <2>1, <2>2, <2>3 DEF MayBeAdded
<1>7. ASSUME NEW i \in DOMAIN blocks', NEW j \in DOMAIN blocks', blocks'[i] = blocks'[j]
      PROVE  i = j
  <2>1. i \in 1..Len(blocks) + Len(added) /\ j \in 1..Len(blocks) + Len(added)
    BY <1>3
  <2>2. CASE i > Len(blocks) /\ j > Len(blocks)
    <3>1. i - Len(blocks) = j - Len(blocks)
      BY <1>1, <1>3, <1>7, <2>1, <2>2 DEF AddsBlocks
    <3>. QED
      BY <1>3, <2>1, <3>1
  <2>3. CASE ~(i > Len(blocks)) /\ j > Len(blocks)
    <3>1. i \in 1..Len(blocks) /\ blocks'[i] \in Listed
      BY <1>3, <2>1, <2>3 DEF Listed
    <3>. QED
      BY <1>3, <1>6, <1>7, <2>1, <2>3, <3>1
  <2>4. CASE i > Len(blocks) /\ ~(j > Len(blocks))
    <3>1. j \in 1..Len(blocks) /\ blocks'[j] \in Listed
      BY <1>3, <2>1, <2>4 DEF Listed
    <3>. QED
      BY <1>3, <1>6, <1>7, <2>1, <2>4, <3>1
  <2>5. CASE ~(i > Len(blocks)) /\ ~(j > Len(blocks))
    <3>1. i \in 1..Len(blocks) /\ j \in 1..Len(blocks)
      BY <1>3, <2>1, <2>5
    <3>. QED
      BY <1>1, <1>3, <1>7, <3>1 DEF BlocksAreListed
  <2>. QED
    BY <2>2, <2>3, <2>4, <2>5
<1>8. ASSUME NEW b \in Listed'
      PROVE  endBlock < b /\ b <= Len(exit') /\ TargetsOf(exit'[b]) \subseteq Safe'
  <2>1. CASE b \in Listed
    <3>1. b \in 1..Len(exit) /\ b <= Len(exit') /\ endBlock < b
      BY <1>1, <1>2, <1>4, <2>1
    <3>2. CASE exit'[b] = exit[b]
      BY <1>4, <2>1, <3>1, <3>2, PlacesGrow
    <3>3. CASE exit'[b] # exit[b]
      BY <1>1, <3>1, <3>3 DEF ExitsAreKept
    <3>. QED
      BY <3>2, <3>3
  <2>2. CASE b \notin Listed
    BY <1>3, <1>6, <1>8, <2>2 DEF Elements
  <2>. QED
    BY <2>1, <2>2
<1>9. current' \in Listed'
  BY <1>1 DEF AddsBlocks
<1>. QED
  BY <1>1, <1>2, <1>3, <1>5, <1>7, <1>8, <1>9 DEF BlocksAreListed

\* The stack after the step: the items, and what was below the top.
LEMMA StackAfter ==
  ASSUME LoweringInv, NEW items, NEW added, IsStep(items, added)
  PROVE  /\ IsSeq(work') /\ work' # << >> /\ WorkIsNested'
         /\ Len(work) \in Nat \ {0} /\ Len(items) \in Nat /\ Len(work') \in Nat
         /\ DOMAIN work = 1..Len(work) /\ DOMAIN work' = 1..Len(work')
         /\ 1 \in 1..Len(work)
         /\ \A i \in 1..Len(items) : work'[i] = items[i]
         /\ \A i \in 1..Len(work') :
              \/ i \in 1..Len(items)
              \/ /\ Len(items) < i /\ (i - Len(items)) + 1 \in 2..Len(work)
                 /\ work'[i] = work[(i - Len(items)) + 1]
<1>1. /\ IsSeq(work) /\ work # << >> /\ WorkIsNested
      /\ IsSeq(items) /\ work' = items \o Tail(work) /\ KindsAreKept(items)
  BY DEF LoweringInv, IsStep, AddsItems
<1>2. IsSeq(work') /\ work' # << >> /\ WorkIsNested'
  BY <1>1, StaysNested DEF KindsAreKept
<1>3. /\ Len(work) \in Nat \ {0} /\ Len(items) \in Nat
      /\ \A i \in 1..Len(items) : work'[i] = items[i]
      /\ \A i \in 1..Len(work') :
           \/ i \in 1..Len(items)
           \/ /\ Len(items) < i /\ (i - Len(items)) + 1 \in 2..Len(work)
              /\ work'[i] = work[(i - Len(items)) + 1]
  BY <1>1, Replacing
<1>4. /\ Len(work') \in Nat /\ DOMAIN work = 1..Len(work) /\ DOMAIN work' = 1..Len(work')
      /\ 1 \in 1..Len(work)
  BY <1>1, <1>2, <1>3, SeqFacts
<1>. QED
  BY <1>2, <1>3, <1>4

LEMMA PromisesStayOpen ==
  ASSUME LoweringInv, NEW items, NEW added, IsStep(items, added)
  PROVE  PromisesAreOpen'
<1>1. /\ IsSeq(exit) /\ IsSeq(exit') /\ Len(exit) <= Len(exit') /\ BlocksAreListed /\ PromisesAreOpen
      /\ next' = next /\ endBlock' = endBlock /\ AddsBlocks(added) /\ AddsItems(items)
      /\ KindsAreKept(items)
  BY DEF LoweringInv, IsStep, ExitsAreKept
<1>2. Len(exit) \in Nat /\ Len(exit') \in Nat /\ endBlock \in Nat \ {0} /\ endBlock <= Len(exit)
  BY <1>1, SeqFacts DEF BlocksAreListed
<1>3. Listed' = Listed \cup Elements(added)
  BY <1>1, BlocksGrow DEF AddsBlocks
<1>. DEFINE Of(i) == PromisedBy(work'[i], next')
            Old(i) == (i - Len(items)) + 1
            FromItems(i) == /\ i \in 1..Len(items) /\ items[i].kind = "endmatch"
                            /\ Of(i) = items[i].after
            FromBelow(i) == /\ i \in 1..Len(work') /\ Old(i) \in 2..Len(work) /\ Old(i) \in Promising
                            /\ Of(i) = PromisedBy(work[Old(i)], next)
<1>4. ASSUME NEW i \in Promising' PROVE FromItems(i) \/ FromBelow(i)
  <2>1. i \in 1..Len(work') /\ work'[i].kind \in {"endif", "endmatch"}
    BY <1>4, StackAfter DEF Promising
  <2>2. CASE i \in 1..Len(items)
    <3>1. work'[i] = items[i] /\ items[i].kind # "endif"
      BY <1>1, <2>2, StackAfter DEF KindsAreKept
    <3>. QED
      BY <2>1, <2>2, <3>1 DEF PromisedBy
  <2>3. CASE i \notin 1..Len(items)
    <3>1. Old(i) \in 2..Len(work) /\ work'[i] = work[Old(i)]
      BY <2>1, <2>3, StackAfter
    <3>2. Old(i) \in DOMAIN work
      BY <3>1, StackAfter
    <3>. HIDE DEF Old
    <3>3. Old(i) \in Promising
      BY <2>1, <3>1, <3>2 DEF Promising
    <3>. QED
      BY <1>1, <2>1, <3>1, <3>3
  <2>. QED
    BY <2>2, <2>3
<1>5. ASSUME NEW i, FromItems(i)
      PROVE  /\ Of(i) \in Nat /\ Len(exit) < Of(i) /\ Of(i) <= Len(exit') /\ Of(i) \notin Listed'
             /\ exit'[Of(i)] = Invalid
  BY <1>1, <1>5 DEF AddsItems
<1>6. ASSUME NEW i, FromBelow(i)
      PROVE  /\ Of(i) \in Nat /\ endBlock < Of(i) /\ Of(i) <= Len(exit) /\ Of(i) \notin Listed'
             /\ exit'[Of(i)] = Invalid
  <2>. DEFINE o == Old(i)
  <2>0. o \in 2..Len(work) /\ o \in Promising /\ Of(i) = PromisedBy(work[o], next)
    BY <1>6
  <2>. HIDE DEF o, Of, Old
  <2>1. /\ Of(i) \in Nat /\ endBlock < Of(i) /\ Of(i) <= Len(exit) /\ Of(i) \notin Listed
        /\ exit[Of(i)] = Invalid
    BY <1>1, <2>0 DEF PromisesAreOpen
  <2>2. ASSUME NEW j \in 1..Len(added), added[j] = Of(i) PROVE FALSE
    <3>1. MayBeAdded(added[j]) /\ ~(Len(exit) < added[j])
      BY <1>1, <1>2, <2>1, <2>2 DEF AddsBlocks
    <3>2. work[1].kind \in {"endif", "endmatch"} /\ Of(i) = PromisedBy(work[1], next)
      BY <2>2, <3>1 DEF MayBeAdded
    <3>3. 1 \in Promising
      BY <3>2, StackAfter DEF Promising
    <3>4. o = 1
      BY <1>1, <2>0, <3>2, <3>3 DEF PromisesAreOpen
    <3>. QED
      BY <2>0, <3>4
  <2>3. Of(i) \notin Listed'
    BY <1>3, <2>1, <2>2 DEF Elements
  <2>4. Of(i) \in 1..Len(exit)
    BY <1>2, <2>1
  <2>5. exit'[Of(i)] = exit[Of(i)]
    BY <2>1, <2>4, OtherExitsStay
  <2>. QED
    BY <2>1, <2>3, <2>5
<1>7. ASSUME NEW i \in Promising', NEW j \in Promising', Of(i) = Of(j)
      PROVE  i = j
  <2>1. CASE FromItems(i) /\ FromItems(j)
    <3>. HIDE DEF Of
    <3>. QED
      BY <1>1, <2>1 DEF AddsItems
  <2>2. CASE FromItems(i) /\ FromBelow(j)
    <3>1. Len(exit) < Of(i) /\ Of(j) <= Len(exit) /\ Of(j) \in Nat
      BY <1>5, <1>6, <2>2
    <3>. HIDE DEF Of
    <3>. QED
      BY <1>2, <1>7, <3>1
  <2>3. CASE FromBelow(i) /\ FromItems(j)
    <3>1. Len(exit) < Of(j) /\ Of(i) <= Len(exit) /\ Of(i) \in Nat
      BY <1>5, <1>6, <2>3
    <3>. HIDE DEF Of
    <3>. QED
      BY <1>2, <1>7, <3>1
  <2>4. CASE FromBelow(i) /\ FromBelow(j)
    <3>1. PromisedBy(work[Old(i)], next) = PromisedBy(work[Old(j)], next)
      BY <1>7, <2>4
    <3>2. i \in 1..Len(work') /\ j \in 1..Len(work') /\ Old(i) \in Promising /\ Old(j) \in Promising
      BY <2>4
    <3>3. Old(i) = Old(j)
      <4>. HIDE DEF Old, Of
      <4>. QED
        BY <1>1, <3>1, <3>2 DEF PromisesAreOpen
    <3>. QED
      BY <3>2, <3>3, StackAfter
  <2>. QED
    BY <1>4, <2>1, <2>2, <2>3, <2>4
<1>8. ASSUME NEW i \in Promising'
      PROVE  /\ Of(i) \in Nat /\ endBlock' < Of(i) /\ Of(i) <= Len(exit') /\ Of(i) \notin Listed'
             /\ exit'[Of(i)] = Invalid
  <2>1. CASE FromItems(i)
    <3>1. /\ Of(i) \in Nat /\ Len(exit) < Of(i) /\ Of(i) <= Len(exit') /\ Of(i) \notin Listed'
          /\ exit'[Of(i)] = Invalid
      BY <1>5, <2>1
    <3>. HIDE DEF Of
    <3>. QED
      BY <1>1, <1>2, <3>1
  <2>2. CASE FromBelow(i)
    <3>1. /\ Of(i) \in Nat /\ endBlock < Of(i) /\ Of(i) <= Len(exit) /\ Of(i) \notin Listed'
          /\ exit'[Of(i)] = Invalid
      BY <1>6, <2>2
    <3>. HIDE DEF Of
    <3>. QED
      BY <1>1, <1>2, <3>1
  <2>. QED
    BY <1>4, <2>1, <2>2
<1>. QED
  BY <1>7, <1>8 DEF PromisesAreOpen

LEMMA WorkStaysFit ==
  ASSUME LoweringInv, NEW items, NEW added, IsStep(items, added)
  PROVE  WorkFits'
<1>1. /\ WorkFits /\ WorkIsNested /\ next' = next /\ AddsBlocks(added) /\ AddsItems(items)
      /\ KindsAreKept(items) /\ BlocksAreListed
  BY DEF LoweringInv, IsStep
<1>2. blocks'[1] = blocks[1] /\ Listed \subseteq Listed' /\ Safe \subseteq Safe'
  BY <1>1, BlocksGrow, PlacesGrow DEF AddsBlocks
<1>3. ASSUME NEW i \in 1..Len(work'), i \in 1..Len(items)
      PROVE  /\ Fits(work'[i], Listed', Safe', next')
             /\ work'[i].kind = "link" =>
                  i = 2 /\ work'[1].kind = "case" /\ work'[i].other = Len(exit') + 1
             /\ work'[i].kind # "endfunction"
  <2>1. work'[i] = items[i]
    BY <1>3, StackAfter
  <2>2. i = 2 => work'[1] = items[1]
    BY <1>3, StackAfter
  <2>. QED
    BY <1>1, <1>3, <2>1, <2>2 DEF AddsItems, KindsAreKept
<1>4. ASSUME NEW i \in 1..Len(work'), i \notin 1..Len(items)
      PROVE  /\ Fits(work'[i], Listed', Safe', next')
             /\ work'[i].kind = "link" => work'[i].other \in Listed'
             /\ work'[i].kind = "endfunction" => work'[i].first = blocks'[1]
  <2>1. PICK o : o = (i - Len(items)) + 1
    OBVIOUS
  <2>2. o \in 2..Len(work) /\ work'[i] = work[o]
    BY <1>4, <2>1, StackAfter
  <2>3. o \in 1..Len(work) /\ o # 1
    BY <2>2, StackAfter
  <2>4. /\ Fits(work[o], Listed, Safe, next)
        /\ LinkFits(o)
        /\ work[o].kind = "endfunction" => work[o].first = blocks[1]
    BY <1>1, <2>3 DEF WorkFits
  <2>5. Fits(work[o], Listed', Safe', next')
    BY <1>1, <1>2, <2>4, FitsGrows
  <2>6. work[o].kind = "link" => work[o].other \in Listed'
    <3>1. work[1].kind = "case" => Len(exit) + 1 \in Listed'
      BY <1>1 DEF AddsItems
    <3>. QED
      BY <1>2, <2>4, <3>1 DEF LinkFits
  <2>. QED
    BY <1>2, <2>2, <2>4, <2>5, <2>6
<1>5. \A i \in 1..Len(work') :
        /\ Fits(work'[i], Listed', Safe', next')
        /\ work'[i].kind = "link" =>
             \/ work'[i].other \in Listed'
             \/ i = 2 /\ work'[1].kind = "case" /\ work'[i].other = Len(exit') + 1
        /\ work'[i].kind = "endfunction" => work'[i].first = blocks'[1]
  BY <1>3, <1>4
<1>. QED
  BY <1>5 DEF WorkFits, LinkFits

LEMMA StepKeeps ==
  ASSUME LoweringInv, NEW items, NEW added, IsStep(items, added)
  PROVE  LoweringInv'
<1>1. bodies' \in Modules /\ IsSeq(exit') /\ BranchesJoinBehindTheirIf'
  BY DEF LoweringInv, IsStep, ExitsAreKept
<1>2. IsSeq(work') /\ WorkIsNested' /\ WorkFits' /\ PromisesAreOpen' /\ BlocksAreListed'
  BY StackAfter, WorkStaysFit, PromisesStayOpen, BlocksStayListed
<1>3. NextIsKnown' /\ FinishedAreClosed'
  BY NextStaysKnown, StepKeepsFinished
<1>. QED
  BY <1>1, <1>2, <1>3 DEF LoweringInv
-----------------------------------------------------------------------------
(* What the handlers rely on *)

IsFunction(t) == t = [i \in DOMAIN t |-> t[i]]

LEMMA SomeExitsChanged ==
  ASSUME NEW s, IsSeq(s), NEW t, IsFunction(t), DOMAIN t = DOMAIN s
  PROVE  IsSeq(t) /\ Len(t) = Len(s)
<1>1. Len(s) \in Nat /\ DOMAIN s = 1..Len(s)
  BY SeqFacts
<1>. DEFINE n == Len(s)
            R == {t[i] : i \in 1..n}
<1>2. t = [i \in 1..n |-> t[i]] /\ n \in Nat
  BY <1>1 DEF IsFunction
<1>3. \A i \in 1..n : t[i] \in R
  OBVIOUS
<1>. HIDE DEF n, R
<1>4. t \in [1..n -> R]
  BY <1>2, <1>3
<1>5. t \in Seq(R) /\ Len(t) = n
  BY <1>2, <1>4
<1>. QED
  BY <1>5 DEF IsSeq, n

LEMMA Popping ==
  ASSUME IsSeq(work), work # << >>
  PROVE  Tail(work) = << >> \o Tail(work)
<1>1. PICK S : work \in Seq(S)
  BY DEF IsSeq
<1>2. PICK t : t = Tail(work)
  OBVIOUS
<1>4. t \in Seq(S)
  BY <1>1, <1>2
<1>3. t = << >> \o t
  BY <1>4, ConcatEmptySeq
<1>. QED
  BY <1>2, <1>3

LEMMA TopFits ==
  ASSUME LoweringInv, work # << >>
  PROVE  /\ IsSeq(work) /\ Head(work) = work[1] /\ Len(work) \in Nat \ {0} /\ 1 \in 1..Len(work)
         /\ Fits(work[1], Listed, Safe, next) /\ LinkFits(1) /\ WorkIsNested /\ WorkFits
         /\ BlocksAreListed /\ PromisesAreOpen /\ IsSeq(exit) /\ Len(exit) \in Nat
         /\ \A b \in Listed : b \in 1..Len(exit)
         /\ DOMAIN exit = 1..Len(exit)
<1>1. /\ IsSeq(work) /\ IsSeq(exit) /\ WorkIsNested /\ WorkFits /\ BlocksAreListed /\ PromisesAreOpen
  BY DEF LoweringInv
<1>2. Len(work) \in Nat \ {0} /\ 1 \in 1..Len(work) /\ Len(exit) \in Nat /\ DOMAIN exit = 1..Len(exit)
  BY <1>1, SeqFacts
<1>3. Head(work) = work[1]
  <2>1. PICK S : work \in Seq(S)
    BY <1>1 DEF IsSeq
  <2>. QED
    BY <2>1
<1>4. \A b \in Listed : b \in 1..Len(exit)
  <2>1. \A i \in DOMAIN blocks : blocks[i] \in Nat
    BY <1>1 DEF BlocksAreListed
  <2>2. \A b \in Listed : b \in Nat /\ endBlock < b /\ b <= Len(exit) /\ endBlock \in Nat
    BY <1>1, <2>1 DEF Listed, BlocksAreListed
  <2>. QED
    BY <1>2, <2>2
<1>. QED
  BY <1>1, <1>2, <1>3, <1>4 DEF WorkFits

\* The end of the if whose frame is on top is below it.
LEMMA IfIsUnderWay ==
  ASSUME LoweringInv, work # << >>, work[1].kind \in IfFrames
  PROVE  next \in Promised
<1>1. PICK e \in 1..Len(work) : work[e].kind = "endif"
  BY TopFits DEF WorkIsNested
<1>2. e \in Promising /\ PromisedBy(work[e], next) = next
  BY <1>1, TopFits, SeqFacts DEF Promising, PromisedBy
<1>. QED
  BY <1>2 DEF Promised

NodeKinds == PlainKinds \cup {"if"}

LEMMA PlainFits ==
  ASSUME IsStraight, NEW n \in Plain, NEW l, NEW s, NEW x
  PROVE  /\ n.kind \in PlainKinds /\ Fits(n, l, s, x)
         /\ n.kind \notin {"if", "endif", "endfunction", "link", "endmatch", "case"} \cup IfFrames
BY DEF IsStraight, PlainKinds, Fits, IfFrames

\* A step that adds no blocks.
LEMMA PlacesStay ==
  ASSUME LoweringInv, work # << >>, NEW items, IsSeq(items), work' = items \o Tail(work),
         UNCHANGED <<blocks, endBlock, next>>, work[1].kind \notin {"endif", "endmatch"}
  PROVE  Listed' = Listed /\ Safe \subseteq Safe'
<1>1. Listed' = Listed
  BY DEF Listed
<1>. QED
  BY <1>1, SafeGrows DEF LoweringInv

LEMMA AddsNothing ==
  ASSUME LoweringInv, work # << >>, UNCHANGED <<blocks, current>>,
         work[1].kind \notin {"endif", "endmatch"}
  PROVE  AddsBlocks(<< >>)
<1>1. << >> \in Seq(Nat) /\ Len(<< >>) = 0
  OBVIOUS
<1>2. blocks = blocks \o << >>
  BY TopFits DEF BlocksAreListed
<1>3. current \in Listed /\ Listed' = Listed
  BY TopFits DEF BlocksAreListed, Listed
<1>. QED
  BY <1>1, <1>2, <1>3 DEF AddsBlocks

LEMMA RewiringKeeps ==
  ASSUME LoweringInv, work # << >>, NEW items, IsSeq(items), work' = items \o Tail(work),
         UNCHANGED <<bodies, functions, blocks, endBlock, current, next>>,
         work[1].kind \notin {"case", "endif", "endmatch"}, KindsAreKept(items),
         ExitsAreKept, Len(exit') = Len(exit), BranchesJoinBehindTheirIf',
         \A i \in 1..Len(items) : Fits(items[i], Listed, Safe, next) /\ items[i].kind # "endmatch",
         \A i \in 1..Len(items) : items[i].kind = "link" =>
           i = 2 /\ items[1].kind = "case" /\ items[i].other = Len(exit) + 1
  PROVE  LoweringInv'
<1>1. Listed' = Listed /\ Safe \subseteq Safe'
  BY PlacesStay
<1>2. \A i \in 1..Len(items) : Fits(items[i], Listed', Safe', next)
  BY <1>1, FitsGrows
<1>3. AddsItems(items)
  BY <1>2 DEF AddsItems
<1>4. IsStep(items, << >>)
  BY <1>3, AddsNothing DEF IsStep
<1>. QED
  BY <1>4, StepKeeps

LEMMA QuietKeeps ==
  ASSUME LoweringInv, work # << >>, NEW items, IsSeq(items), work' = items \o Tail(work),
         UNCHANGED <<bodies, functions, exit, blocks, endBlock, current, next, joins>>,
         work[1].kind \notin {"case", "endif", "endmatch"}, KindsAreKept(items),
         \A i \in 1..Len(items) : /\ Fits(items[i], Listed, Safe, next)
                                  /\ items[i].kind \notin {"link", "endmatch"}
  PROVE  LoweringInv'
<1>1. ExitsAreKept
  <2>1. exit' = exit /\ IsSeq(exit) /\ Len(exit) <= Len(exit)
    BY TopFits
  <2>. QED
    BY <2>1 DEF ExitsAreKept
<1>2. BranchesJoinBehindTheirIf'
  BY DEF LoweringInv, BranchesJoinBehindTheirIf
<1>. QED
  BY <1>1, <1>2, RewiringKeeps
-----------------------------------------------------------------------------
(* Expressions and statements *)

\* Steps that take the top off the stack, and change nothing else of the shape.
LEMMA PopKeeps ==
  ASSUME LoweringInv, work # << >>, Pop,
         work[1].kind \notin {"if", "endfunction", "case", "endif", "endmatch"},
         UNCHANGED <<bodies, functions, exit, blocks, endBlock, current, next, joins>>
  PROVE  LoweringInv'
<1>1. IsSeq(<< >>) /\ Len(<< >>) = 0 /\ work' = << >> \o Tail(work)
  BY Popping, ShortSequences DEF LoweringInv, Pop
<1>2. KindsAreKept(<< >>)
  BY <1>1 DEF KindsAreKept
<1>. QED
  BY <1>1, <1>2, QuietKeeps

LEMMA OperandKeeps ==
  ASSUME LoweringInv, Operand
  PROVE  LoweringInv'
<1>1. work # << >> /\ work[1].kind \in {"value", "arith"}
  BY TopFits DEF Operand, At
<1>. QED
  BY <1>1, PopKeeps DEF Operand, blockVars

LEMMA EmittingKeeps ==
  ASSUME LoweringInv, ProcessCall \/ ProcessCtor \/ Store
  PROVE  LoweringInv'
<1>1. work # << >> /\ work[1].kind \in {"call", "ctor", "store"}
  BY TopFits DEF ProcessCall, ProcessCtor, Store, At
<1>2. Pop /\ UNCHANGED <<bodies, functions, exit, blocks, endBlock, current, next, joins>>
  BY DEF ProcessCall, ProcessCtor, Store
<1>. QED
  BY <1>1, <1>2, PopKeeps

LEMMA ProcessAssignKeeps ==
  ASSUME IsStraight, LoweringInv, ProcessAssign
  PROVE  LoweringInv'
<1>1. /\ work # << >> /\ work[1].kind = "assign" /\ Top = work[1]
      /\ UNCHANGED <<bodies, functions, exit, blocks, endBlock, current, next, joins>>
  BY TopFits DEF ProcessAssign, At, Top, blockVars
<1>2. work[1].from \in Plain
  BY <1>1, TopFits DEF Fits, IsStraight, PlainKinds
<1>3. PICK frame : frame = StoreFrame(Top.to, Top.from.id)
  OBVIOUS
<1>4. frame.kind = "store"
  BY <1>3 DEF StoreFrame
<1>5. Fits(frame, Listed, Safe, next)
  BY <1>4 DEF Fits, PlainKinds, IfFrames
<1>6. \/ work' = <<work[1].from>> \o Tail(work)
      \/ work' = <<work[1].from, frame>> \o Tail(work)
  BY <1>1, <1>3 DEF ProcessAssign, Replace
<1>7. PICK n \in Plain : n = work[1].from
  BY <1>2
<1>8. CASE work' = <<n>> \o Tail(work)
  <2>1. PICK items : items = <<n>>
    OBVIOUS
  <2>2. IsSeq(items) /\ Len(items) = 1 /\ items[1] = n
    BY <2>1, ShortSequences
  <2>3. \A i \in 1..Len(items) : items[i] = n
    BY <2>2
  <2>4. /\ KindsAreKept(items)
        /\ \A i \in 1..Len(items) : /\ Fits(items[i], Listed, Safe, next)
                                    /\ items[i].kind \notin {"link", "endmatch"}
    BY <1>1, <2>3, PlainFits DEF KindsAreKept
  <2>. QED
    BY <1>1, <1>8, <2>1, <2>2, <2>4, QuietKeeps
<1>9. CASE work' = <<n, frame>> \o Tail(work)
  <2>1. PICK items : items = <<n, frame>>
    OBVIOUS
  <2>2. IsSeq(items) /\ Len(items) = 2 /\ items[1] = n /\ items[2] = frame
    BY <2>1, ShortSequences
  <2>3. \A i \in 1..Len(items) : items[i] = n \/ items[i] = frame
    BY <2>2
  <2>4. /\ KindsAreKept(items)
        /\ \A i \in 1..Len(items) : /\ Fits(items[i], Listed, Safe, next)
                                    /\ items[i].kind \notin {"link", "endmatch"}
    BY <1>1, <1>4, <1>5, <2>3, PlainFits DEF KindsAreKept, IfFrames
  <2>. QED
    BY <1>1, <1>9, <2>1, <2>2, <2>4, QuietKeeps
<1>. QED
  BY <1>6, <1>7, <1>8, <1>9

LEMMA ProcessReturnKeeps ==
  ASSUME IsStraight, LoweringInv, ProcessReturn
  PROVE  LoweringInv'
<1>1. /\ work # << >> /\ work[1].kind = "return" /\ Top = work[1]
      /\ UNCHANGED <<bodies, functions, exit, blocks, endBlock, current, next, joins>>
  BY TopFits DEF ProcessReturn, At, Top, blockVars
<1>2. PICK n \in Plain : n = work[1].from
  BY <1>1, TopFits DEF Fits, IsStraight, PlainKinds
<1>3. PICK frame : frame = ResultFrame(Top.from.id)
  OBVIOUS
<1>4. frame.kind = "result"
  BY <1>3 DEF ResultFrame
<1>5. Fits(frame, Listed, Safe, next)
  BY <1>4 DEF Fits, PlainKinds, IfFrames
<1>6. PICK items : items = <<n, frame>>
  OBVIOUS
<1>7. work' = items \o Tail(work)
  BY <1>1, <1>2, <1>3, <1>6 DEF ProcessReturn, Replace
<1>8. IsSeq(items) /\ Len(items) = 2 /\ items[1] = n /\ items[2] = frame
  BY <1>6, ShortSequences
<1>9. \A i \in 1..Len(items) : items[i] = n \/ items[i] = frame
  BY <1>8
<1>10. /\ KindsAreKept(items)
       /\ \A i \in 1..Len(items) : /\ Fits(items[i], Listed, Safe, next)
                                   /\ items[i].kind \notin {"link", "endmatch"}
  BY <1>1, <1>4, <1>5, <1>9, PlainFits DEF KindsAreKept, IfFrames
<1>. QED
  BY <1>1, <1>7, <1>8, <1>10, QuietKeeps

\* Nothing but the exit of one block of the function changes, to places that are
\* known.
LEMMA OneExitKeeps ==
  ASSUME LoweringInv, work # << >>, NEW items, IsSeq(items), work' = items \o Tail(work),
         UNCHANGED <<bodies, functions, blocks, endBlock, current, next, joins>>,
         work[1].kind \notin {"case", "endif", "endmatch"}, KindsAreKept(items),
         NEW b \in Listed, NEW out, exit' = [exit EXCEPT ![b] = out],
         out # Invalid, TargetsOf(out) \subseteq Safe,
         \A i \in 1..Len(items) : Fits(items[i], Listed, Safe, next) /\ items[i].kind # "endmatch",
         \A i \in 1..Len(items) : items[i].kind = "link" =>
           i = 2 /\ items[1].kind = "case" /\ items[i].other = Len(exit) + 1
  PROVE  LoweringInv'
<1>1. Safe \subseteq Safe'
  BY PlacesStay
<1>2. b \in 1..Len(exit) /\ IsSeq(exit) /\ Len(exit) \in Nat
  BY TopFits
<1>3. /\ IsSeq(exit') /\ Len(exit') = Len(exit) /\ exit'[b] = out
      /\ \A i \in 1..Len(exit) : i # b => exit'[i] = exit[i]
  <2>1. DOMAIN exit = 1..Len(exit)
    BY <1>2, SeqFacts
  <2>2. /\ DOMAIN exit' = DOMAIN exit /\ exit'[b] = out
        /\ \A i \in 1..Len(exit) : i # b => exit'[i] = exit[i]
    BY <1>2, <2>1
  <2>3. IsFunction(exit')
    BY <2>2 DEF IsFunction
  <2>. QED
    BY <1>2, <2>2, <2>3, SomeExitsChanged
<1>4. ExitsAreKept
  BY <1>1, <1>2, <1>3 DEF ExitsAreKept
<1>5. BranchesJoinBehindTheirIf'
  BY DEF LoweringInv, BranchesJoinBehindTheirIf
<1>. QED
  BY <1>3, <1>4, <1>5, RewiringKeeps

LEMMA OneExitPops ==
  ASSUME LoweringInv, work # << >>, Pop,
         UNCHANGED <<bodies, functions, blocks, endBlock, current, next, joins>>,
         work[1].kind \notin {"if", "endfunction", "case", "endif", "endmatch"},
         NEW b \in Listed, NEW out, exit' = [exit EXCEPT ![b] = out],
         out # Invalid, TargetsOf(out) \subseteq Safe
  PROVE  LoweringInv'
<1>1. IsSeq(<< >>) /\ Len(<< >>) = 0 /\ work' = << >> \o Tail(work)
  BY Popping, ShortSequences DEF LoweringInv, Pop
<1>2. PICK items : items = << >>
  OBVIOUS
<1>3. IsSeq(items) /\ work' = items \o Tail(work) /\ Len(items) = 0
  BY <1>1, <1>2
<1>4. \A i \in 1..Len(items) : FALSE
  BY <1>3
<1>5. KindsAreKept(items)
  BY <1>4 DEF KindsAreKept
<1>6. work[1].kind \notin {"case", "endif", "endmatch"}
  OBVIOUS
<1>. QED
  BY <1>3, <1>4, <1>5, <1>6, OneExitKeeps

LEMMA StoreResultKeeps ==
  ASSUME LoweringInv, StoreResult
  PROVE  LoweringInv'
<1>1. /\ work # << >> /\ work[1].kind = "result" /\ Pop
      /\ exit' = [exit EXCEPT ![current] = Branch(endBlock)]
      /\ UNCHANGED <<bodies, functions, blocks, endBlock, current, next, joins>>
  BY TopFits DEF StoreResult, At
<1>2. PICK b \in Listed : b = current
  BY <1>1, TopFits DEF BlocksAreListed
<1>3. PICK out : out = Branch(endBlock)
  OBVIOUS
<1>4. out # Invalid /\ TargetsOf(out) \subseteq Safe
  BY <1>3, ExitFacts DEF Safe
<1>5. exit' = [exit EXCEPT ![b] = out]
  BY <1>1, <1>2, <1>3
<1>6. work[1].kind \notin {"if", "endfunction", "case", "endif", "endmatch"}
  BY <1>1
<1>. QED
  BY <1>1, <1>4, <1>5, <1>6, OneExitPops
-----------------------------------------------------------------------------
(* The block that a frame promised is added *)

LEMMA Appending ==
  ASSUME BlocksAreListed, NEW b \in Nat, AddBlock(b)
  PROVE  /\ <<b>> \in Seq(Nat) /\ Len(<<b>>) = 1 /\ <<b>>[1] = b
         /\ blocks' = blocks \o <<b>> /\ Listed' = Listed \cup {b}
<1>1. <<b>> \in Seq(Nat) /\ Len(<<b>>) = 1 /\ <<b>>[1] = b
  OBVIOUS
<1>2. blocks' = blocks \o <<b>>
  <2>1. blocks \in Seq(Nat)
    BY DEF BlocksAreListed
  <2>. QED
    BY <2>1, AppendIsConcat DEF AddBlock
<1>3. PICK added : added = <<b>>
  OBVIOUS
<1>4. Listed' = Listed \cup Elements(added)
  BY <1>1, <1>2, <1>3, BlocksGrow
<1>5. Elements(added) = {b}
  BY <1>1, <1>3 DEF Elements
<1>. QED
  BY <1>1, <1>2, <1>4, <1>5

LEMMA PromiseKeeps ==
  ASSUME LoweringInv, work # << >>, Pop, work[1].kind \in {"endif", "endmatch"},
         NEW b, b = PromisedBy(work[1], next), AddBlock(b), current' = b,
         UNCHANGED <<bodies, functions, exit, endBlock, next, joins>>
  PROVE  LoweringInv'
<1>1. IsSeq(<< >>) /\ Len(<< >>) = 0 /\ work' = << >> \o Tail(work)
  BY Popping, ShortSequences DEF LoweringInv, Pop
<1>2. PICK items : items = << >>
  OBVIOUS
<1>3. IsSeq(items) /\ work' = items \o Tail(work) /\ \A i \in 1..Len(items) : FALSE
  BY <1>1, <1>2
<1>4. b \in Nat /\ b <= Len(exit) /\ exit[b] = Invalid
  <2>1. 1 \in Promising
    BY TopFits, SeqFacts DEF Promising
  <2>. QED
    BY <2>1, TopFits DEF PromisesAreOpen
<1>5. PICK added : added = <<b>>
  OBVIOUS
<1>6. /\ added \in Seq(Nat) /\ Len(added) = 1 /\ added[1] = b
      /\ blocks' = blocks \o added /\ Listed' = Listed \cup {b}
  BY <1>4, <1>5, Appending, TopFits
<1>7. MayBeAdded(b)
  BY <1>4, ExitFacts DEF MayBeAdded
<1>8. 1 \in 1..Len(added) /\ \A i \in 1..Len(added) : i = 1
  BY <1>6
<1>9. AddsBlocks(added)
  BY <1>6, <1>7, <1>8 DEF AddsBlocks
<1>10. AddsItems(items)
  BY <1>3 DEF AddsItems
<1>11. KindsAreKept(items)
  BY <1>3 DEF KindsAreKept
<1>12. ExitsAreKept
  <2>1. exit' = exit /\ IsSeq(exit) /\ Len(exit) <= Len(exit)
    BY TopFits
  <2>. QED
    BY <2>1 DEF ExitsAreKept
<1>13. BranchesJoinBehindTheirIf'
  BY DEF LoweringInv, BranchesJoinBehindTheirIf
<1>14. IsStep(items, added)
  BY <1>9, <1>10, <1>11, <1>12, <1>13 DEF IsStep
<1>. QED
  BY <1>14, StepKeeps

LEMMA EndIfKeeps ==
  ASSUME LoweringInv, EndIf
  PROVE  LoweringInv'
<1>1. /\ work # << >> /\ work[1].kind = "endif" /\ Pop /\ AddBlock(next) /\ current' = next
      /\ UNCHANGED <<bodies, functions, exit, endBlock, next, joins>>
  BY TopFits DEF EndIf, At
<1>2. PICK b : b = next
  OBVIOUS
<1>3. b = PromisedBy(work[1], next) /\ AddBlock(b) /\ current' = b
  BY <1>1, <1>2 DEF PromisedBy
<1>. QED
  BY <1>1, <1>3, PromiseKeeps

LEMMA EndMatchKeeps ==
  ASSUME LoweringInv, EndMatch
  PROVE  LoweringInv'
<1>1. /\ work # << >> /\ work[1].kind = "endmatch" /\ Pop /\ AddBlock(work[1].after)
      /\ current' = work[1].after /\ UNCHANGED <<bodies, functions, exit, endBlock, next, joins>>
  BY TopFits DEF EndMatch, At, Top
<1>2. PICK b : b = work[1].after
  OBVIOUS
<1>3. b = PromisedBy(work[1], next) /\ AddBlock(b) /\ current' = b
  BY <1>1, <1>2 DEF PromisedBy
<1>. QED
  BY <1>1, <1>3, PromiseKeeps
-----------------------------------------------------------------------------
(* Exits of blocks that are there *)

LEMMA LinkCaseKeeps ==
  ASSUME LoweringInv, LinkCase
  PROVE  LoweringInv'
<1>1. /\ work # << >> /\ work[1].kind = "link" /\ Pop /\ Top = work[1]
      /\ exit' = [exit EXCEPT ![Top.this] = CondBranch(Top.cond, Top.taken, Top.other)]
      /\ UNCHANGED <<bodies, functions, blocks, endBlock, current, next, joins>>
  BY TopFits DEF LinkCase, At, Top
<1>2. Fits(work[1], Listed, Safe, next) /\ LinkFits(1)
  BY <1>1, TopFits
<1>3. Top.this \in Listed /\ Top.taken \in Listed /\ Top.other \in Listed
  BY <1>1, <1>2 DEF Fits, LinkFits
<1>4. PICK b \in Listed : b = Top.this
  BY <1>3
<1>5. PICK out : out = CondBranch(Top.cond, Top.taken, Top.other)
  OBVIOUS
<1>6. out # Invalid /\ TargetsOf(out) \subseteq Safe
  BY <1>3, <1>5, ExitFacts DEF Safe
<1>7. exit' = [exit EXCEPT ![b] = out]
  BY <1>1, <1>4, <1>5
<1>8. work[1].kind \notin {"if", "endfunction", "case", "endif", "endmatch"}
  BY <1>1
<1>. QED
  BY <1>1, <1>6, <1>7, <1>8, OneExitPops

LEMMA EndCaseKeeps ==
  ASSUME IsStraight, LoweringInv, EndCase
  PROVE  LoweringInv'
<1>1. /\ work # << >> /\ work[1].kind = "endcase" /\ Top = work[1]
      /\ UNCHANGED <<bodies, functions, blocks, endBlock, current, next, joins>>
  BY TopFits DEF EndCase, At, Top
<1>2. PICK top : top = work[1]
  OBVIOUS
<1>3. PICK c : c = top.case
  OBVIOUS
<1>4. /\ exit' = [exit EXCEPT ![top.taken] = Branch(c.after)]
      /\ work' = (IF c.k = Len(c.match.cases) THEN << >>
                  ELSE <<CaseFrame(c.match, c.k + 1, c.before, c.after),
                         LinkFrame(<<c.match.id, c.k>>, top.this, top.taken, Fresh(1))>>)
                 \o Tail(work)
  BY <1>1, <1>2, <1>3 DEF EndCase, Replace
<1>5. IsCase(c, Safe) /\ top.this \in Listed /\ top.taken \in Listed
  BY <1>1, <1>2, <1>3, TopFits DEF Fits
<1>6. PICK b \in Listed : b = top.taken
  BY <1>5
<1>7. PICK out : out = Branch(c.after)
  OBVIOUS
<1>8. out # Invalid /\ TargetsOf(out) \subseteq Safe
  BY <1>5, <1>7, ExitFacts DEF IsCase
<1>9. exit' = [exit EXCEPT ![b] = out]
  BY <1>4, <1>6, <1>7
<1>10. CASE c.k = Len(c.match.cases)
  <2>1. work' = << >> \o Tail(work)
    BY <1>4, <1>10
  <2>2. Pop
    BY <1>1, <2>1, Popping DEF Pop, LoweringInv
  <2>3. work[1].kind \notin {"if", "endfunction", "case", "endif", "endmatch"}
    BY <1>1
  <2>. QED
    BY <1>1, <1>8, <1>9, <2>2, <2>3, OneExitPops
<1>11. CASE c.k # Len(c.match.cases)
  <2>1. PICK case : case = CaseFrame(c.match, c.k + 1, c.before, c.after)
    OBVIOUS
  <2>2. PICK link : link = LinkFrame(<<c.match.id, c.k>>, top.this, top.taken, Fresh(1))
    OBVIOUS
  <2>3. PICK items : items = <<case, link>>
    OBVIOUS
  <2>4. work' = items \o Tail(work)
    BY <1>4, <1>11, <2>1, <2>2, <2>3
  <2>5. IsSeq(items) /\ Len(items) = 2 /\ items[1] = case /\ items[2] = link
    BY <2>3, ShortSequences
  <2>6. /\ case.kind = "case" /\ case.match = c.match /\ case.k = c.k + 1 /\ case.after = c.after
        /\ link.kind = "link" /\ link.this = top.this /\ link.taken = top.taken
        /\ link.other = Len(exit) + 1
    BY <2>1, <2>2 DEF CaseFrame, LinkFrame, Fresh
  <2>7. IsCase(case, Safe)
    <3>1. /\ c.match \in Plain /\ c.match.kind = "match" /\ c.k \in 1..Len(c.match.cases)
          /\ c.after \in Safe
      BY <1>5 DEF IsCase
    <3>2. c.k + 1 \in 1..Len(c.match.cases)
      <4>1. PICK n : n = Len(c.match.cases)
        OBVIOUS
      <4>2. n \in Nat
        <5>1. c.match.cases \in Seq(Plain)
          BY <3>1 DEF IsStraight
        <5>. QED
          BY <4>1, <5>1
      <4>. QED
        BY <1>11, <3>1, <4>1, <4>2
    <3>. QED
      BY <2>6, <3>1, <3>2 DEF IsCase
  <2>8. Fits(case, Listed, Safe, next) /\ Fits(link, Listed, Safe, next)
    BY <1>5, <2>6, <2>7 DEF Fits, PlainKinds, IfFrames
  <2>9. \A i \in 1..Len(items) : i = 1 \/ i = 2
    BY <2>5
  <2>10. /\ KindsAreKept(items)
         /\ \A i \in 1..Len(items) : Fits(items[i], Listed, Safe, next) /\ items[i].kind # "endmatch"
         /\ \A i \in 1..Len(items) : items[i].kind = "link" =>
              i = 2 /\ items[1].kind = "case" /\ items[i].other = Len(exit) + 1
    BY <1>1, <2>5, <2>6, <2>8, <2>9 DEF KindsAreKept, IfFrames
  <2>11. work[1].kind \notin {"case", "endif", "endmatch"}
    BY <1>1
  <2>. QED
    BY <1>1, <1>8, <1>9, <2>4, <2>5, <2>10, <2>11, OneExitKeeps
<1>. QED
  BY <1>10, <1>11
-----------------------------------------------------------------------------
(* New blocks *)

LEMMA NewExits ==
  ASSUME IsSeq(exit), NEW n \in Nat, exit' = exit \o [i \in 1..n |-> Invalid]
  PROVE  /\ IsSeq(exit') /\ Len(exit') = Len(exit) + n /\ Len(exit) \in Nat
         /\ \A b \in 1..Len(exit) : exit'[b] = exit[b]
         /\ \A i \in 1..n : exit'[Len(exit) + i] = Invalid
<1>1. PICK new : new = [i \in 1..n |-> Invalid]
  OBVIOUS
<1>2. new \in Seq({Invalid}) /\ Len(new) = n /\ \A i \in 1..n : new[i] = Invalid
  BY <1>1
<1>3. IsSeq(new) /\ exit' = exit \o new
  BY <1>1, <1>2 DEF IsSeq
<1>. QED
  BY <1>2, <1>3, Concatenation, SeqFacts

\* The nodes of a branch, and the frame behind it.
LEMMA PlainItems ==
  ASSUME NEW nodes \in Seq(Plain), NEW frame
  PROVE  LET items == Append(nodes, frame)
         IN IsSeq(items) /\ \A i \in 1..Len(items) : items[i] \in Plain \/ items[i] = frame
<1>. DEFINE S == Plain \cup {frame}
<1>1. nodes \in Seq(S) /\ frame \in S /\ \A i \in 1..Len(nodes) : nodes[i] \in Plain
  OBVIOUS
<1>2. PICK items : items = Append(nodes, frame)
  OBVIOUS
<1>3. /\ items \in Seq(S) /\ Len(items) = Len(nodes) + 1 /\ Len(nodes) \in Nat
      /\ \A i \in 1..Len(nodes) : items[i] = nodes[i]
      /\ items[Len(nodes) + 1] = frame
  <2>. HIDE DEF S
  <2>. QED
    BY <1>1, <1>2
<1>4. ASSUME NEW i \in 1..Len(items) PROVE items[i] \in Plain \/ items[i] = frame
  <2>1. i \in 1..Len(nodes) \/ i = Len(nodes) + 1
    BY <1>3
  <2>. QED
    BY <1>1, <1>3, <2>1
<1>. QED
  BY <1>2, <1>3, <1>4 DEF IsSeq

LEMMA BehindNodes ==
  ASSUME NEW nodes \in Seq(Plain), NEW frame
  PROVE  nodes \o <<frame>> = Append(nodes, frame)
<1>. DEFINE S == Plain \cup {frame}
<1>1. nodes \in Seq(S) /\ frame \in S
  OBVIOUS
<1>. HIDE DEF S
<1>. QED
  BY <1>1, AppendIsConcat

\* A new block becomes the current one, under an if.
LEMMA BranchKeeps ==
  ASSUME LoweringInv, work # << >>, work[1].kind \in IfFrames, NewBlocks(1), NEW b, b = Fresh(1),
         AddBlock(b), current' = b, UNCHANGED <<bodies, functions, endBlock, next, joins>>,
         NEW items, IsSeq(items), work' = items \o Tail(work), KindsAreKept(items),
         \A i \in 1..Len(items) : /\ Fits(items[i], Listed \cup {b}, Safe, next)
                                  /\ items[i].kind \notin {"link", "endmatch"}
  PROVE  LoweringInv'
<1>1. /\ IsSeq(exit') /\ Len(exit') = Len(exit) + 1 /\ Len(exit) \in Nat
      /\ \A x \in 1..Len(exit) : exit'[x] = exit[x]
      /\ \A i \in 1..1 : exit'[Len(exit) + i] = Invalid
  BY NewExits, TopFits DEF NewBlocks
<1>2. b \in Nat /\ b = Len(exit) + 1 /\ exit'[b] = Invalid
  BY <1>1 DEF Fresh
<1>3. PICK added : added = <<b>>
  OBVIOUS
<1>4. /\ added \in Seq(Nat) /\ Len(added) = 1 /\ added[1] = b
      /\ blocks' = blocks \o added /\ Listed' = Listed \cup {b}
  BY <1>2, <1>3, Appending, TopFits
<1>5. MayBeAdded(b)
  BY <1>1, <1>2, ExitFacts DEF MayBeAdded
<1>6. work[1].kind \notin {"case", "endif", "endmatch"}
  BY DEF IfFrames
<1>7. AddsBlocks(added)
  <2>1. \A i \in 1..Len(added) : i = 1
    BY <1>4
  <2>. QED
    BY <1>4, <1>5, <1>6, <2>1 DEF AddsBlocks
<1>8. Safe \subseteq Safe'
  BY <1>4, <1>6, SafeGrows DEF LoweringInv
<1>9. AddsItems(items)
  <2>1. \A i \in 1..Len(items) : Fits(items[i], Listed', Safe', next)
    BY <1>4, <1>8, FitsGrows
  <2>. QED
    BY <1>6, <2>1 DEF AddsItems
<1>10. ExitsAreKept
  BY <1>1 DEF ExitsAreKept
<1>11. BranchesJoinBehindTheirIf'
  BY DEF LoweringInv, BranchesJoinBehindTheirIf
<1>12. IsStep(items, added)
  BY <1>7, <1>9, <1>10, <1>11 DEF IsStep
<1>. QED
  BY <1>12, StepKeeps

LEMMA ThenBlockKeeps ==
  ASSUME IsStraight, LoweringInv, ThenBlock
  PROVE  LoweringInv'
<1>1. /\ work # << >> /\ work[1].kind = "then" /\ Top = work[1] /\ NewBlocks(1)
      /\ AddBlock(Fresh(1)) /\ current' = Fresh(1)
      /\ UNCHANGED <<bodies, functions, endBlock, next, joins>>
  BY TopFits DEF ThenBlock, At, Top
<1>2. PICK top : top = work[1]
  OBVIOUS
<1>3. PICK b : b = Fresh(1)
  OBVIOUS
<1>4. top.if \in Ifs /\ top.old \in Listed /\ top.after = next /\ top.if.then \in Seq(Plain)
  BY <1>1, <1>2, TopFits DEF Fits, IfFrames, IsStraight
<1>5. PICK frame : frame = ElseFrame(top.if, top.old, top.after, b)
  OBVIOUS
<1>6. /\ frame.kind = "else" /\ frame.if = top.if /\ frame.old = top.old
      /\ frame.after = top.after /\ frame.taken = b
  BY <1>5 DEF ElseFrame
<1>7. Fits(frame, Listed \cup {b}, Safe, next)
  BY <1>4, <1>6 DEF Fits, PlainKinds, IfFrames
<1>8. PICK items : items = top.if.then \o <<frame>>
  OBVIOUS
<1>9. work' = items \o Tail(work)
  BY <1>1, <1>2, <1>3, <1>5, <1>8 DEF ThenBlock, Replace
<1>10. IsSeq(items) /\ \A i \in 1..Len(items) : items[i] \in Plain \/ items[i] = frame
  <2>1. PICK nodes \in Seq(Plain) : nodes = top.if.then
    BY <1>4
  <2>2. items = Append(nodes, frame)
    BY <1>8, <2>1, BehindNodes
  <2>3. /\ IsSeq(Append(nodes, frame))
        /\ \A i \in 1..Len(Append(nodes, frame)) :
             Append(nodes, frame)[i] \in Plain \/ Append(nodes, frame)[i] = frame
    BY PlainItems
  <2>. QED
    BY <2>2, <2>3
<1>11. work[1].kind \in IfFrames
  BY <1>1 DEF IfFrames
<1>12. \A i \in 1..Len(items) : /\ Fits(items[i], Listed \cup {b}, Safe, next)
                                /\ items[i].kind \notin {"link", "endmatch", "if", "endif", "endfunction"}
  BY <1>6, <1>7, <1>10, PlainFits
<1>13. KindsAreKept(items)
  BY <1>1, <1>11, <1>12 DEF KindsAreKept
<1>. QED
  BY <1>1, <1>3, <1>9, <1>10, <1>11, <1>12, <1>13, BranchKeeps

LEMMA NoElseBlockKeeps ==
  ASSUME LoweringInv, NoElseBlock
  PROVE  LoweringInv'
<1>1. /\ work # << >> /\ work[1].kind = "else" /\ Top = work[1] /\ Top.if.else.kind = "none"
      /\ UNCHANGED <<bodies, functions, exit, blocks, endBlock, current, next, joins>>
  BY TopFits DEF NoElseBlock, At, Top, blockVars
<1>2. PICK top : top = work[1]
  OBVIOUS
<1>3. /\ top.if \in Ifs /\ top.old \in Listed /\ top.after = next /\ top.taken \in Listed
      /\ top.if.else.kind = "none"
  BY <1>1, <1>2, TopFits DEF Fits, IfFrames
<1>4. PICK frame : frame = ConnectFrame(top.if, top.old, top.after, top.taken, NoBlock)
  OBVIOUS
<1>5. /\ frame.kind = "connect" /\ frame.if = top.if /\ frame.old = top.old
      /\ frame.after = top.after /\ frame.taken = top.taken /\ frame.other = NoBlock
  BY <1>4 DEF ConnectFrame
<1>6. Fits(frame, Listed, Safe, next)
  BY <1>3, <1>5 DEF Fits, PlainKinds, IfFrames
<1>7. PICK items : items = <<frame>>
  OBVIOUS
<1>8. work' = items \o Tail(work)
  BY <1>1, <1>2, <1>4, <1>7 DEF NoElseBlock, Replace
<1>9. IsSeq(items) /\ Len(items) = 1 /\ items[1] = frame
  BY <1>7, ShortSequences
<1>10. \A i \in 1..Len(items) : items[i] = frame
  BY <1>9
<1>11. KindsAreKept(items)
  BY <1>1, <1>5, <1>10 DEF KindsAreKept, IfFrames
<1>12. \A i \in 1..Len(items) : /\ Fits(items[i], Listed, Safe, next)
                                /\ items[i].kind \notin {"link", "endmatch"}
  BY <1>5, <1>6, <1>10
<1>13. work[1].kind \notin {"case", "endif", "endmatch"}
  BY <1>1
<1>. QED
  BY <1>1, <1>8, <1>9, <1>11, <1>12, <1>13, QuietKeeps

LEMMA ElseBlockKeeps ==
  ASSUME IsStraight, LoweringInv, ElseBlock
  PROVE  LoweringInv'
<1>1. /\ work # << >> /\ work[1].kind = "else" /\ Top = work[1] /\ Top.if.else.kind # "none"
      /\ NewBlocks(1) /\ AddBlock(Fresh(1)) /\ current' = Fresh(1)
      /\ UNCHANGED <<bodies, functions, endBlock, next, joins>>
  BY TopFits DEF ElseBlock, At, Top
<1>2. PICK top : top = work[1]
  OBVIOUS
<1>3. PICK b : b = Fresh(1)
  OBVIOUS
<1>4. PICK else : else = top.if.else
  OBVIOUS
<1>5. /\ top.if \in Ifs /\ top.old \in Listed /\ top.after = next /\ top.taken \in Listed
      /\ else.kind # "none"
  BY <1>1, <1>2, <1>4, TopFits DEF Fits, IfFrames
<1>6. \/ else.kind = "block" /\ else.nodes \in Seq(Plain)
      \/ else \in Ifs /\ else.kind # "block" /\ else.cond \in Plain
  BY <1>4, <1>5 DEF IsStraight
<1>7. PICK frame : frame = ConnectFrame(top.if, top.old, top.after, top.taken, b)
  OBVIOUS
<1>8. /\ frame.kind = "connect" /\ frame.if = top.if /\ frame.old = top.old
      /\ frame.after = top.after /\ frame.taken = top.taken /\ frame.other = b
  BY <1>7 DEF ConnectFrame
<1>9. Fits(frame, Listed \cup {b}, Safe, next)
  BY <1>5, <1>8 DEF Fits, PlainKinds, IfFrames
<1>10. PICK then : then = ThenFrame(else, b, top.after)
  OBVIOUS
<1>11. then.kind = "then" /\ then.if = else /\ then.old = b /\ then.after = top.after
  BY <1>10 DEF ThenFrame
<1>12. work' = ((IF else.kind = "block" THEN else.nodes ELSE <<else.cond, then>>) \o <<frame>>)
               \o Tail(work)
  BY <1>1, <1>2, <1>3, <1>4, <1>7, <1>10 DEF ElseBlock, Replace
<1>13. work[1].kind \in IfFrames
  BY <1>1 DEF IfFrames
<1>14. CASE else.kind = "block"
  <2>1. PICK items : items = else.nodes \o <<frame>>
    OBVIOUS
  <2>2. work' = items \o Tail(work)
    BY <1>12, <1>14, <2>1
  <2>3. IsSeq(items) /\ \A i \in 1..Len(items) : items[i] \in Plain \/ items[i] = frame
    <3>1. PICK nodes \in Seq(Plain) : nodes = else.nodes
      BY <1>6, <1>14
    <3>2. items = Append(nodes, frame)
      BY <2>1, <3>1, BehindNodes
    <3>3. /\ IsSeq(Append(nodes, frame))
          /\ \A i \in 1..Len(Append(nodes, frame)) :
               Append(nodes, frame)[i] \in Plain \/ Append(nodes, frame)[i] = frame
      BY PlainItems
    <3>. QED
      BY <3>2, <3>3
  <2>4. \A i \in 1..Len(items) : /\ Fits(items[i], Listed \cup {b}, Safe, next)
                                 /\ items[i].kind \notin {"link", "endmatch", "if", "endif", "endfunction"}
    BY <1>8, <1>9, <2>3, PlainFits
  <2>5. KindsAreKept(items)
    BY <1>1, <1>13, <2>4 DEF KindsAreKept
  <2>. QED
    BY <1>1, <1>3, <1>13, <2>2, <2>3, <2>4, <2>5, BranchKeeps
<1>15. CASE else.kind # "block"
  <2>1. PICK items : items = <<else.cond, then, frame>>
    OBVIOUS
  <2>2. work' = items \o Tail(work)
    BY <1>12, <1>15, <2>1
  <2>3. IsSeq(items) /\ Len(items) = 3 /\ items[1] = else.cond /\ items[2] = then /\ items[3] = frame
    BY <2>1, ShortSequences
  <2>4. \A i \in 1..Len(items) : items[i] = else.cond \/ items[i] = then \/ items[i] = frame
    <3>1. \A i \in 1..3 : i = 1 \/ i = 2 \/ i = 3
      OBVIOUS
    <3>. QED
      BY <2>3, <3>1
  <2>5. Fits(then, Listed \cup {b}, Safe, next)
    BY <1>5, <1>6, <1>11, <1>15 DEF Fits, PlainKinds, IfFrames
  <2>6. PICK n \in Plain : n = else.cond
    BY <1>6, <1>15
  <2>7. \A i \in 1..Len(items) : /\ Fits(items[i], Listed \cup {b}, Safe, next)
                                 /\ items[i].kind \notin {"link", "endmatch", "if", "endif", "endfunction"}
    BY <1>8, <1>9, <1>11, <2>4, <2>5, <2>6, PlainFits
  <2>8. KindsAreKept(items)
    BY <1>1, <1>13, <2>7 DEF KindsAreKept
  <2>. QED
    BY <1>1, <1>3, <1>13, <2>2, <2>3, <2>7, <2>8, BranchKeeps
<1>. QED
  BY <1>14, <1>15

\* rir_convert_init() from a boolean to a string: three blocks behind the current
\* one, the last of which becomes the current one.
LEMMA ProcessConvertKeeps ==
  ASSUME LoweringInv, ProcessConvert
  PROVE  LoweringInv'
<1>1. /\ work # << >> /\ work[1].kind = "convert" /\ Top = work[1] /\ Pop
      /\ UNCHANGED <<bodies, functions, endBlock, next, joins>>
  BY TopFits DEF ProcessConvert, At, Top
<1>2. /\ BlocksAreListed /\ IsSeq(exit) /\ IsSeq(work) /\ Len(exit) \in Nat
      /\ DOMAIN exit = 1..Len(exit) /\ current \in Listed
      /\ \A b \in Listed : b \in 1..Len(exit)
  BY <1>1, TopFits DEF BlocksAreListed
<1>3. PICK n \in Nat : n = Len(exit)
  BY <1>2
<1>4. Fresh(1) = n + 1 /\ Fresh(2) = n + 2 /\ Fresh(3) = n + 3
  BY <1>3 DEF Fresh
<1>5. PICK out : out = CondBranch(Top.id, n + 1, n + 2)
  OBVIOUS
<1>6. PICK old : old = [exit EXCEPT ![current] = out]
  OBVIOUS
<1>7. PICK new : new = <<Branch(n + 3), Branch(n + 3), Invalid>>
  OBVIOUS
<1>8. PICK added : added = <<n + 1, n + 2, n + 3>>
  OBVIOUS
<1>9. exit' = old \o new /\ blocks' = blocks \o added /\ current' = n + 3
  BY <1>4, <1>5, <1>6, <1>7, <1>8 DEF ProcessConvert
<1>10. /\ IsSeq(old) /\ Len(old) = n
       /\ \A b \in 1..n : old[b] = exit[b] \/ (b = current /\ old[b] = out)
  <2>1. DOMAIN old = DOMAIN exit
    BY <1>6
  <2>2. IsFunction(old)
    BY <1>6 DEF IsFunction
  <2>3. IsSeq(old) /\ Len(old) = n
    BY <1>2, <1>3, <2>1, <2>2, SomeExitsChanged
  <2>. QED
    BY <1>2, <1>3, <1>6, <2>3
<1>11. IsSeq(new) /\ Len(new) = 3 /\ new[1] = Branch(n + 3) /\ new[2] = Branch(n + 3) /\ new[3] = Invalid
  BY <1>7, ShortSequences
<1>12. /\ IsSeq(exit') /\ Len(exit') = n + 3
       /\ \A b \in 1..n : exit'[b] = old[b]
       /\ exit'[n + 1] = Branch(n + 3) /\ exit'[n + 2] = Branch(n + 3) /\ exit'[n + 3] = Invalid
  <2>1. /\ IsSeq(old \o new) /\ Len(old \o new) = Len(old) + Len(new)
        /\ \A b \in 1..Len(old) : (old \o new)[b] = old[b]
        /\ \A i \in 1..Len(new) : (old \o new)[Len(old) + i] = new[i]
    <3>1. IsSeq(old) /\ IsSeq(new)
      BY <1>10, <1>11
    <3>. QED
      BY <3>1, Concatenation
  <2>2. 1 \in 1..3 /\ 2 \in 1..3 /\ 3 \in 1..3
    OBVIOUS
  <2>. QED
    BY <1>9, <1>10, <1>11, <2>1, <2>2
<1>13. /\ added \in Seq(Nat) /\ Len(added) = 3
       /\ added[1] = n + 1 /\ added[2] = n + 2 /\ added[3] = n + 3
  BY <1>8
<1>14. Listed' = Listed \cup {n + 1, n + 2, n + 3}
  <2>1. Listed' = Listed \cup Elements(added)
    BY <1>2, <1>9, <1>13, BlocksGrow
  <2>2. 1..3 = {1, 2, 3}
    OBVIOUS
  <2>3. Elements(added) = {n + 1, n + 2, n + 3}
    BY <1>13, <2>2 DEF Elements
  <2>. QED
    BY <2>1, <2>3
<1>15. IsSeq(<< >>) /\ Len(<< >>) = 0 /\ work' = << >> \o Tail(work)
  BY <1>1, Popping, ShortSequences DEF LoweringInv, Pop
<1>16. PICK items : items = << >>
  OBVIOUS
<1>17. IsSeq(items) /\ work' = items \o Tail(work) /\ \A i \in 1..Len(items) : FALSE
  BY <1>15, <1>16
<1>18. work[1].kind \notin {"case", "endif", "endmatch"}
  BY <1>1
<1>19. Listed' \subseteq Safe'
  BY DEF Safe
<1>20. AddsBlocks(added)
  <2>1. ASSUME NEW b \in {n + 1, n + 2, n + 3} PROVE MayBeAdded(b)
    <3>1. b \in Nat /\ Len(exit) < b /\ b <= Len(exit')
      BY <1>3, <1>12
    <3>2. exit'[b] = Branch(n + 3) \/ exit'[b] = Invalid
      BY <1>12
    <3>3. TargetsOf(exit'[b]) \subseteq Safe'
      BY <1>14, <1>19, <3>2, ExitFacts
    <3>. QED
      BY <3>1, <3>3 DEF MayBeAdded
  <2>2. 1..3 = {1, 2, 3}
    OBVIOUS
  <2>3. \A i \in 1..Len(added) : added[i] \in {n + 1, n + 2, n + 3}
    BY <1>13, <2>2
  <2>4. \A i, j \in 1..Len(added) : added[i] = added[j] => i = j
    BY <1>13, <2>2
  <2>. QED
    BY <1>9, <1>13, <1>14, <1>18, <2>1, <2>3, <2>4 DEF AddsBlocks
<1>21. AddsItems(items)
  BY <1>17, <1>18 DEF AddsItems
<1>22. KindsAreKept(items)
  BY <1>1, <1>17 DEF KindsAreKept
<1>23. ExitsAreKept
  <2>1. out # Invalid /\ TargetsOf(out) \subseteq Safe'
    BY <1>5, <1>14, <1>19, ExitFacts
  <2>2. \A b \in 1..Len(exit) : exit'[b] = exit[b] \/ (b = current /\ exit'[b] = out)
    BY <1>3, <1>10, <1>12
  <2>3. Len(exit) <= Len(exit')
    BY <1>3, <1>12
  <2>. QED
    BY <1>2, <1>12, <2>1, <2>2, <2>3 DEF ExitsAreKept
<1>24. BranchesJoinBehindTheirIf'
  BY <1>1 DEF LoweringInv, BranchesJoinBehindTheirIf
<1>25. IsStep(items, added)
  BY <1>1, <1>20, <1>21, <1>22, <1>23, <1>24 DEF IsStep
<1>. QED
  BY <1>25, StepKeeps
-----------------------------------------------------------------------------
(* The end of an if, and matches *)

LEMMA ConnectKeeps ==
  ASSUME LoweringInv, Connect
  PROVE  LoweringInv'
<1>1. /\ work # << >> /\ work[1].kind = "connect" /\ Top = work[1] /\ Pop
      /\ UNCHANGED <<bodies, functions, blocks, endBlock, current, next>>
  BY TopFits DEF Connect, At, Top
<1>2. PICK top : top = work[1]
  OBVIOUS
<1>3. work[1].kind \in IfFrames
  BY <1>1 DEF IfFrames
<1>4. /\ top.old \in Listed /\ top.after = next /\ top.taken \in Listed
      /\ top.other \in Listed \/ (top.other = NoBlock /\ top.if.else.kind = "none")
  BY <1>1, <1>2, TopFits DEF Fits, IfFrames
<1>5. next \in Safe
  BY <1>1, <1>3, IfIsUnderWay DEF Safe
<1>6. PICK fallthrough : fallthrough = IF top.other = NoBlock THEN next ELSE top.other
  OBVIOUS
<1>7. fallthrough \in Safe
  BY <1>4, <1>5, <1>6 DEF Safe
<1>8. PICK branches : branches = {top.taken} \cup
                                 (IF top.if.else.kind = "block" THEN {top.other} ELSE {})
  OBVIOUS
<1>9. branches \subseteq Listed
  BY <1>4, <1>8
<1>10. PICK out : out = CondBranch(top.if.cond.id, top.taken, fallthrough)
  OBVIOUS
<1>11. out # Invalid /\ TargetsOf(out) \subseteq Safe
  BY <1>4, <1>7, <1>10, ExitFacts DEF Safe
<1>12. PICK connected : connected = [exit EXCEPT ![top.old] = out]
  OBVIOUS
<1>13. PICK open : open = {b \in branches : connected[b] = Invalid}
  OBVIOUS
<1>14. /\ exit' = [b \in DOMAIN exit |-> IF b \in open THEN Branch(next) ELSE connected[b]]
       /\ joins' = joins \cup {<<next, top.after>> : b \in open}
  <2>1. connected = [exit EXCEPT ![Top.old] =
                       CondBranch(Top.if.cond.id, Top.taken,
                                  IF Top.other = NoBlock THEN next ELSE Top.other)]
    BY <1>1, <1>2, <1>6, <1>10, <1>12
  <2>2. open = {b \in {Top.taken} \cup
                      (IF Top.if.else.kind = "block" THEN {Top.other} ELSE {}) :
                  connected[b] = Invalid}
    BY <1>1, <1>2, <1>8, <1>13
  <2>3. PICK after : after = top.after
    OBVIOUS
  <2>4. after = Top.after
    BY <1>1, <1>2, <2>3
  <2>. QED
    BY <2>1, <2>2, <2>3, <2>4 DEF Connect
<1>15. DOMAIN exit = 1..Len(exit) /\ IsSeq(exit) /\ Len(exit) \in Nat /\ top.old \in 1..Len(exit)
  BY <1>1, <1>4, TopFits
<1>16. \A b \in 1..Len(exit) : \/ exit'[b] = exit[b]
                               \/ b \in open /\ exit'[b] = Branch(next)
                               \/ b = top.old /\ exit'[b] = out
  BY <1>12, <1>14, <1>15
<1>17. IsSeq(exit') /\ Len(exit') = Len(exit)
  <2>1. DOMAIN exit' = DOMAIN exit
    BY <1>14
  <2>2. IsFunction(exit')
    BY <1>14 DEF IsFunction
  <2>. QED
    BY <1>15, <2>1, <2>2, SomeExitsChanged
<1>18. IsSeq(<< >>) /\ Len(<< >>) = 0 /\ work' = << >> \o Tail(work)
  BY <1>1, Popping, ShortSequences DEF LoweringInv, Pop
<1>19. PICK items : items = << >>
  OBVIOUS
<1>20. IsSeq(items) /\ work' = items \o Tail(work) /\ \A i \in 1..Len(items) : FALSE
  BY <1>18, <1>19
<1>21. KindsAreKept(items)
  BY <1>1, <1>20 DEF KindsAreKept
<1>22. work[1].kind \notin {"case", "endif", "endmatch"}
  BY <1>1
<1>23. Safe \subseteq Safe'
  BY <1>1, <1>20, <1>22, PlacesStay
<1>24. ExitsAreKept
  <2>1. \A b \in open : b \in Listed
    BY <1>9, <1>13
  <2>2. Branch(next) # Invalid /\ TargetsOf(Branch(next)) \subseteq Safe
    BY <1>5, ExitFacts
  <2>3. \A b \in 1..Len(exit) :
          exit'[b] = exit[b] \/ (b \in Listed /\ exit'[b] # Invalid /\ TargetsOf(exit'[b]) \subseteq Safe)
    BY <1>4, <1>11, <1>16, <2>1, <2>2
  <2>4. Len(exit) <= Len(exit')
    BY <1>15, <1>17
  <2>. QED
    BY <1>17, <1>23, <2>3, <2>4 DEF ExitsAreKept
<1>25. BranchesJoinBehindTheirIf'
  <2>1. \A j \in joins' : j \in joins \/ j = <<next, next>>
    BY <1>4, <1>14
  <2>. QED
    BY <2>1 DEF LoweringInv, BranchesJoinBehindTheirIf
<1>. QED
  BY <1>1, <1>17, <1>20, <1>21, <1>22, <1>24, <1>25, RewiringKeeps

LEMMA BeginMatchKeeps ==
  ASSUME IsStraight, LoweringInv, BeginMatch
  PROVE  LoweringInv'
<1>1. /\ work # << >> /\ work[1].kind = "match" /\ Top = work[1] /\ NewBlocks(1)
      /\ UNCHANGED <<bodies, functions, blocks, endBlock, current, next, joins>>
  BY TopFits DEF BeginMatch, At, Top
<1>2. PICK top : top = work[1]
  OBVIOUS
<1>3. PICK b : b = Fresh(1)
  OBVIOUS
<1>4. top \in Plain /\ top.cases \in Seq(Plain) /\ top.cases # << >>
  BY <1>1, <1>2, TopFits DEF Fits, PlainKinds, IsStraight
<1>5. 1 \in 1..Len(top.cases)
  BY <1>4
<1>6. PICK case : case = CaseFrame(top, 1, current, b)
  OBVIOUS
<1>7. PICK end : end = EndMatchFrame(b)
  OBVIOUS
<1>8. /\ case.kind = "case" /\ case.match = top /\ case.k = 1 /\ case.after = b
      /\ end.kind = "endmatch" /\ end.after = b
  BY <1>6, <1>7 DEF CaseFrame, EndMatchFrame
<1>9. PICK items : items = <<case, end>>
  OBVIOUS
<1>10. work' = items \o Tail(work)
  BY <1>1, <1>2, <1>3, <1>6, <1>7, <1>9 DEF BeginMatch, Replace
<1>11. IsSeq(items) /\ Len(items) = 2 /\ items[1] = case /\ items[2] = end
  BY <1>9, ShortSequences
<1>12. /\ IsSeq(exit') /\ Len(exit') = Len(exit) + 1 /\ Len(exit) \in Nat
       /\ \A x \in 1..Len(exit) : exit'[x] = exit[x]
       /\ \A i \in 1..1 : exit'[Len(exit) + i] = Invalid
  BY <1>1, NewExits, TopFits DEF NewBlocks
<1>13. b \in Nat /\ b = Len(exit) + 1 /\ exit'[b] = Invalid
  BY <1>3, <1>12 DEF Fresh
<1>14. b \in Safe'
  <2>1. IsSeq(work') /\ 2 \in 1..Len(work') /\ work'[2] = end
    <3>0. IsSeq(work) /\ work # << >> /\ IsSeq(items) /\ work' = items \o Tail(work)
      BY <1>1, <1>10, <1>11, TopFits
    <3>1. /\ IsSeq(work') /\ Len(work') = 2 + (Len(work) - 1) /\ Len(work) \in Nat \ {0}
          /\ \A i \in 1..2 : work'[i] = items[i]
      <4>1. /\ IsSeq(work') /\ Len(work) \in Nat \ {0}
            /\ Len(work') = Len(items) + (Len(work) - 1)
            /\ \A i \in 1..Len(items) : work'[i] = items[i]
        BY <3>0, Replacing
      <4>. QED
        BY <1>11, <4>1
    <3>2. 2 \in 1..2 /\ 2 \in 1..Len(work')
      BY <3>1
    <3>. QED
      BY <1>11, <3>1, <3>2
  <2>2. 2 \in Promising' /\ PromisedBy(work'[2], next') = b
    BY <1>8, <2>1, SeqFacts DEF Promising, PromisedBy
  <2>. QED
    BY <2>2 DEF Safe, Promised
<1>15. Listed' = Listed
  BY <1>1 DEF Listed
<1>16. b \notin Listed'
  BY <1>1, <1>12, <1>13, <1>15, TopFits
<1>17. Fits(case, Listed', Safe', next) /\ Fits(end, Listed', Safe', next)
  BY <1>1, <1>2, <1>4, <1>5, <1>8, <1>14 DEF Fits, IsCase, PlainKinds, IfFrames
<1>18. \A i \in 1..Len(items) : i = 1 \/ i = 2
  BY <1>11
<1>19. work[1].kind \notin {"case", "endif", "endmatch"}
  BY <1>1
<1>20. AddsItems(items)
  <2>1. \A i \in 1..Len(items) : items[i].kind = "endmatch" => i = 2 /\ items[i].after = b
    BY <1>8, <1>11, <1>18
  <2>2. \A i \in 1..Len(items) : items[i].kind # "link" /\ Fits(items[i], Listed', Safe', next)
    BY <1>8, <1>11, <1>17, <1>18
  <2>3. b \in Nat /\ Len(exit) < b /\ b <= Len(exit') /\ b \notin Listed' /\ exit'[b] = Invalid
    BY <1>12, <1>13, <1>16
  <2>. QED
    BY <1>10, <1>11, <1>19, <2>1, <2>2, <2>3 DEF AddsItems
<1>21. KindsAreKept(items)
  BY <1>1, <1>8, <1>11, <1>18 DEF KindsAreKept, IfFrames
<1>22. AddsBlocks(<< >>)
  BY <1>1, <1>19, AddsNothing
<1>23. ExitsAreKept
  BY <1>12 DEF ExitsAreKept
<1>24. BranchesJoinBehindTheirIf'
  BY <1>1 DEF LoweringInv, BranchesJoinBehindTheirIf
<1>25. IsStep(items, << >>)
  BY <1>1, <1>20, <1>21, <1>22, <1>23, <1>24 DEF IsStep
<1>. QED
  BY <1>25, StepKeeps

LEMMA BeginCaseKeeps ==
  ASSUME IsStraight, LoweringInv, BeginCase
  PROVE  LoweringInv'
<1>1. PICK top : top = work[1]
  OBVIOUS
<1>2. PICK compared \in BOOLEAN :
        compared = (top.k < Len(top.match.cases) /\ ~(current = top.before))
  OBVIOUS
<1>3. PICK new : new = IF compared THEN 2 ELSE 1
  OBVIOUS
<1>4. PICK this : this = IF compared THEN Fresh(1) ELSE current
  OBVIOUS
<1>5. /\ work # << >> /\ top.kind = "case" /\ NewCaseBlocks(new)
      /\ Replace(<<top.match.cases[top.k], EndCaseFrame(top, this, Fresh(new))>>)
      /\ UNCHANGED <<bodies, functions, endBlock, next, joins>>
  <2>1. work # << >> /\ Top = top /\ top.kind = "case"
    BY <1>1, TopFits DEF BeginCase, At, Top
  <2>. QED
    BY <1>2, <1>3, <1>4, <2>1 DEF BeginCase
<1>6. /\ Fits(top, Listed, Safe, next) /\ BlocksAreListed /\ IsSeq(exit) /\ IsSeq(work)
      /\ IsCase(top, Safe)
  BY <1>1, <1>5, TopFits DEF Fits
<1>7. new \in Nat /\ new \in 1..2 /\ (compared => new = 2)
  BY <1>3
<1>8. /\ IsSeq(exit') /\ Len(exit') = Len(exit) + new /\ Len(exit) \in Nat
      /\ \A x \in 1..Len(exit) : exit'[x] = exit[x]
      /\ \A i \in 1..new : exit'[Len(exit) + i] = Invalid
  BY <1>5, <1>6, <1>7, NewExits DEF NewCaseBlocks, NewBlocks
<1>9. PICK added : added = [i \in 1..new |-> Fresh(i)]
  OBVIOUS
<1>10. /\ added \in Seq(Nat) /\ Len(added) = new /\ blocks' = blocks \o added
       /\ \A i \in 1..new : added[i] = Len(exit) + i
  <2>1. \A i \in 1..new : Fresh(i) \in Nat /\ Fresh(i) = Len(exit) + i
    BY <1>7, <1>8 DEF Fresh
  <2>2. added \in [1..new -> Nat] /\ \A i \in 1..new : added[i] = Len(exit) + i
    BY <1>9, <2>1
  <2>. QED
    BY <1>5, <1>7, <1>9, <2>2 DEF NewCaseBlocks
<1>11. Listed' = Listed \cup Elements(added)
  BY <1>6, <1>10, BlocksGrow
<1>12. \A i \in 1..new : Len(exit) + i \in Listed'
  BY <1>10, <1>11 DEF Elements
<1>13. Len(exit) + 1 \in Listed' /\ Len(exit) + new \in Listed' /\ current' = Len(exit) + new
  BY <1>5, <1>7, <1>12 DEF NewCaseBlocks, Fresh
<1>14. AddsBlocks(added)
  <2>1. ASSUME NEW i \in 1..Len(added) PROVE MayBeAdded(added[i])
    <3>1. i \in 1..new /\ added[i] = Len(exit) + i /\ exit'[added[i]] = Invalid
      BY <1>8, <1>10
    <3>. QED
      BY <1>7, <1>8, <3>1, ExitFacts DEF MayBeAdded
  <2>2. \A i, j \in 1..Len(added) : added[i] = added[j] => i = j
    BY <1>7, <1>8, <1>10
  <2>. QED
    BY <1>1, <1>5, <1>10, <1>13, <2>1, <2>2 DEF AddsBlocks
<1>15. PICK n \in Plain : n = top.match.cases[top.k]
  <2>1. top.match \in Plain /\ top.match.kind = "match" /\ top.k \in 1..Len(top.match.cases)
    BY <1>6 DEF IsCase
  <2>2. top.match.cases \in Seq(Plain)
    BY <2>1 DEF IsStraight
  <2>. QED
    BY <2>1, <2>2
<1>16. PICK frame : frame = EndCaseFrame(top, this, Fresh(new))
  OBVIOUS
<1>17. /\ frame.kind = "endcase" /\ frame.case = top /\ frame.this = this
       /\ frame.taken = Len(exit) + new
  BY <1>16 DEF EndCaseFrame, Fresh
<1>18. PICK items : items = <<n, frame>>
  OBVIOUS
<1>19. work' = items \o Tail(work)
  BY <1>5, <1>15, <1>16, <1>18 DEF Replace
<1>20. IsSeq(items) /\ Len(items) = 2 /\ items[1] = n /\ items[2] = frame
  BY <1>18, ShortSequences
<1>21. Listed \subseteq Listed' /\ Safe \subseteq Safe'
  <2>1. work[1].kind \notin {"endif", "endmatch"}
    BY <1>1, <1>5
  <2>. QED
    BY <1>5, <1>6, <1>11, <1>19, <1>20, <2>1, SafeGrows
<1>22. Fits(frame, Listed', Safe', next)
  <2>1. this \in Listed'
    <3>1. current \in Listed
      BY <1>6 DEF BlocksAreListed
    <3>. QED
      BY <1>4, <1>13, <1>21, <3>1 DEF Fresh
  <2>2. IsCase(top, Safe')
    BY <1>6, <1>21 DEF IsCase
  <2>. QED
    BY <1>13, <1>17, <2>1, <2>2 DEF Fits, PlainKinds, IfFrames
<1>23. \A i \in 1..Len(items) : i = 1 \/ i = 2
  BY <1>20
<1>24. \A i \in 1..Len(items) :
         /\ Fits(items[i], Listed', Safe', next)
         /\ items[i].kind \notin {"link", "endmatch", "if", "endif", "endfunction"} \cup IfFrames
  <2>1. /\ Fits(n, Listed', Safe', next)
        /\ n.kind \notin {"link", "endmatch", "if", "endif", "endfunction"} \cup IfFrames
    BY PlainFits
  <2>. QED
    BY <1>17, <1>20, <1>22, <1>23, <2>1 DEF IfFrames
<1>25. AddsItems(items)
  BY <1>13, <1>19, <1>20, <1>24 DEF AddsItems
<1>26. KindsAreKept(items)
  BY <1>1, <1>5, <1>24 DEF KindsAreKept
<1>27. ExitsAreKept
  BY <1>7, <1>8 DEF ExitsAreKept
<1>28. BranchesJoinBehindTheirIf'
  BY <1>5 DEF LoweringInv, BranchesJoinBehindTheirIf
<1>29. IsStep(items, added)
  BY <1>5, <1>14, <1>25, <1>26, <1>27, <1>28 DEF IsStep
<1>. QED
  BY <1>29, StepKeeps
-----------------------------------------------------------------------------
(* The beginning of an if *)

\* Without an if under way there is no frame of one.
LEMMA NoIfIsUnderWay ==
  ASSUME LoweringInv, work # << >>, work[1].kind = "if"
  PROVE  \A i \in 1..Len(work) : work[i].kind \notin IfFrames \cup {"endif"}
<1>1. WorkIsNested /\ 1 \in 1..Len(work) /\ Len(work) \in Nat
  BY TopFits
<1>2. ASSUME NEW e \in 1..Len(work), work[e].kind = "endif" PROVE FALSE
  <2>1. e # 1
    BY <1>2
  <2>2. 1 < e
    BY <1>1, <2>1
  <2>. QED
    BY <1>1, <1>2, <2>2 DEF WorkIsNested
<1>. QED
  BY <1>1, <1>2 DEF WorkIsNested

LEMMA BeginIfKeeps ==
  ASSUME IsStraight, LoweringInv, BeginIf
  PROVE  LoweringInv'
<1>1. /\ work # << >> /\ work[1].kind = "if" /\ Top = work[1] /\ NewBlocks(1) /\ next' = Fresh(1)
      /\ UNCHANGED <<bodies, functions, blocks, endBlock, current, joins>>
  BY TopFits DEF BeginIf, At, Top
<1>2. PICK top : top = work[1]
  OBVIOUS
<1>3. PICK b : b = Fresh(1)
  OBVIOUS
<1>4. top \in Ifs /\ top.cond \in Plain
  BY <1>1, <1>2, TopFits DEF Fits, IsStraight
<1>5. PICK n \in Plain : n = top.cond
  BY <1>4
<1>6. PICK then : then = ThenFrame(top, current, b)
  OBVIOUS
<1>7. then.kind = "then" /\ then.if = top /\ then.old = current /\ then.after = b
  BY <1>6 DEF ThenFrame
<1>8. PICK end : end = EndIfFrame
  OBVIOUS
<1>9. end.kind = "endif"
  BY <1>8 DEF EndIfFrame
<1>10. PICK items : items = <<n, then, end>>
  OBVIOUS
<1>11. work' = items \o Tail(work)
  BY <1>1, <1>2, <1>3, <1>5, <1>6, <1>8, <1>10 DEF BeginIf, Replace
<1>12. IsSeq(items) /\ Len(items) = 3 /\ items[1] = n /\ items[2] = then /\ items[3] = end
  BY <1>10, ShortSequences
<1>13. /\ IsSeq(exit') /\ Len(exit') = Len(exit) + 1 /\ Len(exit) \in Nat
       /\ \A x \in 1..Len(exit) : exit'[x] = exit[x]
       /\ \A i \in 1..1 : exit'[Len(exit) + i] = Invalid
  BY <1>1, NewExits, TopFits DEF NewBlocks
<1>14. b \in Nat /\ b = Len(exit) + 1 /\ exit'[b] = Invalid /\ next' = b
  BY <1>1, <1>3, <1>13 DEF Fresh
<1>. DEFINE l == Len(work)
            k == Len(work')
<1>15. /\ IsSeq(work') /\ l \in Nat \ {0} /\ k = 3 + (l - 1)
       /\ work'[1] = n /\ work'[2] = then /\ work'[3] = end
       /\ \A i \in 2..l : (i - 1) + 3 \in 1..k /\ work'[(i - 1) + 3] = work[i]
       /\ \A i \in 1..k : i \in 1..3 \/ (3 < i /\ (i - 3) + 1 \in 2..l /\ work'[i] = work[(i - 3) + 1])
  <2>1. IsSeq(work) /\ work # << >>
    BY <1>1, TopFits
  <2>2. /\ IsSeq(work') /\ Len(work) \in Nat \ {0} /\ Len(work') = Len(items) + (Len(work) - 1)
        /\ \A i \in 1..Len(items) : work'[i] = items[i]
        /\ \A i \in 2..Len(work) : /\ (i - 1) + Len(items) \in 1..Len(work')
                                   /\ work'[(i - 1) + Len(items)] = work[i]
        /\ \A i \in 1..Len(work') :
             \/ i \in 1..Len(items)
             \/ /\ Len(items) < i /\ (i - Len(items)) + 1 \in 2..Len(work)
                /\ work'[i] = work[(i - Len(items)) + 1]
    <3>1. IsSeq(items) /\ work' = items \o Tail(work)
      BY <1>11, <1>12
    <3>2. /\ IsSeq(work') /\ Len(work) \in Nat \ {0} /\ Len(work') = Len(items) + (Len(work) - 1)
          /\ \A i \in 1..Len(items) : work'[i] = items[i]
      BY <2>1, <3>1, Replacing
    <3>3. \A i \in 2..Len(work) : /\ (i - 1) + Len(items) \in 1..Len(work')
                                  /\ work'[(i - 1) + Len(items)] = work[i]
      BY <2>1, <3>1, Replacing
    <3>4. \A i \in 1..Len(work') :
            \/ i \in 1..Len(items)
            \/ /\ Len(items) < i /\ (i - Len(items)) + 1 \in 2..Len(work)
               /\ work'[i] = work[(i - Len(items)) + 1]
      BY <2>1, <3>1, Replacing
    <3>. QED
      BY <3>2, <3>3, <3>4
  <2>3. 1 \in 1..3 /\ 2 \in 1..3 /\ 3 \in 1..3
    OBVIOUS
  <2>. QED
    BY <1>12, <2>2, <2>3
<1>16. /\ WorkIsNested /\ WorkFits /\ PromisesAreOpen /\ BlocksAreListed /\ FinishedAreClosed
       /\ IsSeq(exit) /\ IsSeq(work)
       /\ \A i \in 1..l : work[i].kind \notin IfFrames \cup {"endif"}
       /\ \A x \in Listed : x \in 1..Len(exit)
  BY <1>1, TopFits, NoIfIsUnderWay DEF LoweringInv
<1>17. Listed' = Listed
  BY <1>1 DEF Listed
<1>18. n.kind \in PlainKinds /\ \A x, y, z : Fits(n, x, y, z)
  BY PlainFits
<1>. HIDE DEF l, k
<1>19. ASSUME NEW i \in 1..k, ~(3 < i) PROVE work'[i] \in {n, then, end} /\ i \in 1..3
  BY <1>15, <1>19
<1>20. ASSUME NEW i \in 1..k, 3 < i
       PROVE  LET o == (i - 3) + 1
              IN o \in 2..l /\ o \in 1..l /\ work'[i] = work[o] /\ (o = l <=> i = k)
  <2>1. (i - 3) + 1 \in 2..l /\ work'[i] = work[(i - 3) + 1]
    BY <1>15, <1>20
  <2>. QED
    BY <1>15, <2>1
<1>21. l >= 2 /\ 4 <= k /\ k \in Nat
  <2>1. 1 \in 1..l /\ l \in 1..l
    BY <1>15
  <2>2. l # 1
    BY <1>1, <1>16, <2>1 DEF WorkIsNested, l
  <2>. QED
    BY <1>15, <2>2
<1>22. WorkIsNested'
  <2>1. ASSUME NEW i \in 1..k PROVE work'[i].kind = "endfunction" <=> i = k
    <3>1. CASE 3 < i
      BY <1>16, <1>20, <3>1 DEF WorkIsNested, l
    <3>2. CASE ~(3 < i)
      BY <1>7, <1>9, <1>18, <1>19, <1>21, <3>2 DEF PlainKinds
    <3>. QED
      BY <3>1, <3>2
  <2>2. \A i \in 1..k : work'[i].kind \in IfFrames => i = 2
    <3>1. TAKE i \in 1..k
    <3>2. CASE 3 < i
      BY <1>16, <1>20, <3>2
    <3>3. CASE ~(3 < i)
      BY <1>7, <1>9, <1>15, <1>18, <1>19, <3>3 DEF PlainKinds, IfFrames
    <3>. QED
      BY <3>2, <3>3
  <2>3. \A i \in 1..k : work'[i].kind = "endif" => i = 3
    <3>1. TAKE i \in 1..k
    <3>2. CASE 3 < i
      BY <1>16, <1>20, <3>2
    <3>3. CASE ~(3 < i)
      BY <1>7, <1>9, <1>15, <1>18, <1>19, <3>3 DEF PlainKinds
    <3>. QED
      BY <3>2, <3>3
  <2>4. 3 \in 1..k /\ work'[3].kind = "endif" /\ 2 < 3
    BY <1>9, <1>15, <1>21
  <2>5. \A i \in 1..k : i < 3 => work'[i].kind \notin {"if", "endif"}
    BY <1>7, <1>15, <1>18, <1>21 DEF PlainKinds
  <2>. QED
    BY <2>1, <2>2, <2>3, <2>4, <2>5 DEF WorkIsNested, k
<1>23. DOMAIN work = 1..l /\ DOMAIN work' = 1..k
  BY <1>15, <1>16, SeqFacts DEF l, k
\* The promises: the next block, and those of matches from before.
<1>24. ASSUME NEW i \in Promising'
       PROVE  \/ i = 3 /\ PromisedBy(work'[i], next') = b
              \/ LET o == (i - 3) + 1
                 IN /\ i \in 1..k /\ 3 < i /\ o \in Promising
                    /\ PromisedBy(work'[i], next') = PromisedBy(work[o], next)
  <2>1. i \in 1..k /\ work'[i].kind \in {"endif", "endmatch"}
    BY <1>23, <1>24 DEF Promising
  <2>2. CASE 3 < i
    <3>1. PICK o \in 1..l : o = (i - 3) + 1 /\ work'[i] = work[o]
      BY <1>20, <2>1, <2>2
    <3>2. o \in Promising /\ work[o].kind = "endmatch"
      BY <1>16, <1>23, <2>1, <3>1 DEF Promising
    <3>. QED
      BY <2>1, <2>2, <3>1, <3>2 DEF PromisedBy
  <2>3. CASE ~(3 < i)
    <3>1. i = 3
      BY <1>7, <1>9, <1>15, <1>18, <1>19, <2>1, <2>3 DEF PlainKinds
    <3>. QED
      BY <1>9, <1>14, <1>15, <3>1 DEF PromisedBy
  <2>. QED
    BY <2>2, <2>3
<1>25. ASSUME NEW p \in Promised PROVE p \in Promised'
  <2>1. PICK o \in Promising : p = PromisedBy(work[o], next)
    BY <1>25 DEF Promised
  <2>2. o \in 1..l /\ o # 1 /\ work[o].kind = "endmatch"
    BY <1>1, <1>16, <1>23, <2>1 DEF Promising
  <2>3. o \in 2..l
    BY <1>15, <2>2
  <2>4. PICK i : i = (o - 1) + 3
    OBVIOUS
  <2>5. i \in 1..k /\ work'[i] = work[o]
    BY <1>15, <2>3, <2>4
  <2>6. i \in Promising' /\ PromisedBy(work'[i], next') = p
    BY <1>23, <2>1, <2>2, <2>5 DEF Promising, PromisedBy
  <2>. QED
    BY <2>6 DEF Promised
<1>26. Safe \subseteq Safe'
  BY <1>1, <1>17, <1>25 DEF Safe
<1>27. b \in Promised'
  <2>1. 3 \in Promising' /\ PromisedBy(work'[3], next') = b
    BY <1>9, <1>14, <1>15, <1>21, <1>23 DEF Promising, PromisedBy
  <2>. QED
    BY <2>1 DEF Promised
<1>28. WorkFits'
  <2>1. ASSUME NEW i \in 1..k
        PROVE  /\ Fits(work'[i], Listed', Safe', next')
               /\ work'[i].kind = "link" => work'[i].other \in Listed'
               /\ work'[i].kind = "endfunction" => work'[i].first = blocks'[1]
    <3>1. CASE 3 < i
      <4>1. PICK o \in 1..l : o \in 2..l /\ work'[i] = work[o]
        BY <1>20, <3>1
      <4>2. /\ Fits(work[o], Listed, Safe, next) /\ LinkFits(o)
            /\ work[o].kind = "endfunction" => work[o].first = blocks[1]
            /\ work[o].kind \notin IfFrames
        BY <1>16 DEF WorkFits, l
      <4>3. Fits(work[o], Listed', Safe', next')
        BY <1>17, <1>26, <4>2 DEF Fits, IsCase, IfFrames
      <4>. QED
        BY <1>1, <1>17, <4>1, <4>2, <4>3 DEF LinkFits
    <3>2. CASE ~(3 < i)
      <4>1. current \in Listed
        BY <1>16 DEF BlocksAreListed
      <4>2. Fits(then, Listed', Safe', next')
        BY <1>1, <1>2, <1>4, <1>7, <1>14, <1>17, <4>1 DEF Fits, PlainKinds, IfFrames
      <4>3. Fits(end, Listed', Safe', next')
        BY <1>9 DEF Fits, PlainKinds, IfFrames
      <4>. QED
        BY <1>7, <1>9, <1>18, <1>19, <3>2, <4>2, <4>3 DEF PlainKinds
    <3>. QED
      BY <3>1, <3>2
  <2>. QED
    BY <2>1 DEF WorkFits, LinkFits, k
<1>29. /\ endBlock' = endBlock /\ endBlock \in Nat \ {0} /\ endBlock <= Len(exit)
  BY <1>1, <1>16 DEF BlocksAreListed
<1>30. PromisesAreOpen'
  <2>. DEFINE P(i) == PromisedBy(work'[i], next')
  <2>1. ASSUME NEW i \in Promising'
        PROVE  P(i) \in Nat /\ endBlock' < P(i) /\ P(i) <= Len(exit') /\ P(i) \notin Listed' /\ exit'[P(i)] = Invalid
    <3>1. CASE i = 3 /\ P(i) = b
      <4>1. b \notin Listed'
        BY <1>13, <1>14, <1>16, <1>17
      <4>. HIDE DEF P
      <4>. QED
        BY <1>13, <1>14, <1>29, <3>1, <4>1
    <3>2. CASE (i - 3) + 1 \in Promising /\ P(i) = PromisedBy(work[(i - 3) + 1], next)
      <4>1. PICK o \in Promising : o = (i - 3) + 1 /\ P(i) = PromisedBy(work[o], next)
        BY <3>2
      <4>. HIDE DEF P
      <4>2. /\ P(i) \in Nat /\ endBlock < P(i) /\ P(i) <= Len(exit) /\ P(i) \notin Listed
            /\ exit[P(i)] = Invalid
        BY <1>16, <4>1 DEF PromisesAreOpen
      <4>3. P(i) \in 1..Len(exit) /\ P(i) <= Len(exit')
        BY <1>13, <1>29, <4>2
      <4>. QED
        BY <1>13, <1>17, <1>29, <4>2, <4>3
    <3>. QED
      BY <1>24, <3>1, <3>2
  <2>2. ASSUME NEW i \in Promising', 3 < i, (i - 3) + 1 \in Promising,
               P(i) = PromisedBy(work[(i - 3) + 1], next)
        PROVE  P(i) # b
    <3>. HIDE DEF P
    <3>1. P(i) \in Nat /\ P(i) <= Len(exit)
      BY <1>16, <2>2 DEF PromisesAreOpen
    <3>. QED
      BY <1>13, <1>14, <3>1
  <2>3. ASSUME NEW i \in Promising', NEW j \in Promising', P(i) = P(j) PROVE i = j
    <3>1. CASE i = 3 /\ P(i) = b
      BY <1>24, <2>2, <2>3, <3>1
    <3>2. CASE j = 3 /\ P(j) = b
      BY <1>24, <2>2, <2>3, <3>2
    <3>3. CASE ~(i = 3 /\ P(i) = b) /\ ~(j = 3 /\ P(j) = b)
      <4>1. /\ i \in 1..k /\ (i - 3) + 1 \in Promising /\ P(i) = PromisedBy(work[(i - 3) + 1], next)
            /\ j \in 1..k /\ (j - 3) + 1 \in Promising /\ P(j) = PromisedBy(work[(j - 3) + 1], next)
        BY <1>24, <3>3
      <4>2. (i - 3) + 1 = (j - 3) + 1
        <5>. HIDE DEF P
        <5>. QED
          BY <1>16, <2>3, <4>1 DEF PromisesAreOpen
      <4>. QED
        BY <1>21, <4>1, <4>2
    <3>. QED
      BY <3>1, <3>2, <3>3
  <2>. QED
    BY <2>1, <2>3 DEF PromisesAreOpen
<1>31. BlocksAreListed'
  <2>1. endBlock' <= Len(exit') /\ exit'[endBlock'] = ReturnExit
    <3>1. endBlock \in 1..Len(exit)
      BY <1>29
    <3>. QED
      BY <1>13, <1>16, <1>29, <3>1 DEF BlocksAreListed
  <2>2. ASSUME NEW x \in Listed'
        PROVE  endBlock' < x /\ x <= Len(exit') /\ TargetsOf(exit'[x]) \subseteq Safe'
    <3>1. x \in Listed /\ x \in 1..Len(exit)
      BY <1>16, <1>17, <2>2
    <3>. QED
      BY <1>13, <1>16, <1>26, <1>29, <3>1 DEF BlocksAreListed
  <2>. QED
    BY <1>1, <1>16, <1>17, <1>29, <2>1, <2>2 DEF BlocksAreListed
<1>32. NextIsKnown'
  <2>1. work' # << >>
    <3>1. k # 0
      BY <1>21
    <3>. QED
      BY <1>15, <3>1, SeqFacts DEF k
  <2>. QED
    BY <1>13, <1>14, <1>27, <2>1 DEF NextIsKnown
<1>33. FinishedAreClosed'
  <2>1. ASSUME NEW m \in 1..Len(functions), NEW i \in 1..Len(functions[m].blocks)
        PROVE  LET x == functions[m].blocks[i] IN exit'[x] = exit[x] /\ x < endBlock'
    <3>1. PICK x : x = functions[m].blocks[i]
      OBVIOUS
    <3>2. x \in 1..Len(exit) /\ x < endBlock
      BY <1>1, <3>1, FinishedAreBefore
    <3>. QED
      BY <1>13, <1>29, <3>1, <3>2
  <2>2. Len(exit) <= Len(exit') /\ functions' = functions /\ endBlock' \in Nat
    BY <1>1, <1>13, <1>29
  <2>. QED
    BY <1>13, <1>16, <2>1, <2>2, FinishedStay
<1>34. BranchesJoinBehindTheirIf' /\ bodies' \in Modules
  BY <1>1 DEF LoweringInv, BranchesJoinBehindTheirIf
<1>. QED
  BY <1>13, <1>15, <1>22, <1>28, <1>30, <1>31, <1>32, <1>33, <1>34 DEF LoweringInv
-----------------------------------------------------------------------------
(* The beginning and the end of a function *)

LEMMA BeginFunctionKeeps ==
  ASSUME IsStraight, LoweringInv, BeginFunction
  PROVE  LoweringInv'
<1>1. /\ work = << >> /\ Len(functions) < Len(bodies) /\ IsSeq(exit) /\ IsSeq(functions)
      /\ bodies \in Modules /\ FinishedAreClosed /\ NextIsKnown
      /\ UNCHANGED <<bodies, functions, next, assign, joins>>
  BY DEF BeginFunction, LoweringInv, FinishedAreClosed
<1>2. PICK body : body = bodies[Len(functions) + 1]
  OBVIOUS
<1>3. PICK end : end = Fresh(1)
  OBVIOUS
<1>4. PICK first : first = Fresh(2)
  OBVIOUS
<1>5. PICK frame : frame = EndFunctionFrame(first)
  OBVIOUS
<1>6. PICK case : case = CaseFrame(body, 1, first, end)
  OBVIOUS
<1>7. /\ exit' = exit \o <<ReturnExit, Invalid>> /\ endBlock' = end /\ blocks' = <<first>>
      /\ current' = first
      /\ work' = (IF body.kind = "block" THEN body.nodes ELSE <<case>>) \o <<frame>>
  BY <1>2, <1>3, <1>4, <1>5, <1>6 DEF BeginFunction
<1>8. /\ frame.kind = "endfunction" /\ frame.first = first
      /\ case.kind = "case" /\ case.match = body /\ case.k = 1 /\ case.after = end
  BY <1>5, <1>6 DEF EndFunctionFrame, CaseFrame
<1>9. \/ body.kind = "block" /\ body.nodes \in Seq(Plain \cup Ifs)
      \/ body.kind = "match" /\ body \in Plain
  <2>1. Len(functions) + 1 \in 1..Len(bodies)
    <3>1. Len(functions) \in Nat /\ Len(bodies) \in Nat
      BY <1>1, SeqFacts DEF IsStraight
    <3>. QED
      BY <1>1, <3>1
  <2>. QED
    BY <1>1, <1>2, <2>1 DEF IsStraight
<1>10. /\ IsSeq(exit') /\ Len(exit') = Len(exit) + 2 /\ Len(exit) \in Nat
       /\ \A b \in 1..Len(exit) : exit'[b] = exit[b]
       /\ exit'[Len(exit) + 1] = ReturnExit /\ exit'[Len(exit) + 2] = Invalid
  <2>1. PICK new : new = <<ReturnExit, Invalid>>
    OBVIOUS
  <2>2. IsSeq(new) /\ Len(new) = 2 /\ new[1] = ReturnExit /\ new[2] = Invalid
    BY <2>1, ShortSequences
  <2>3. exit' = exit \o new
    BY <1>7, <2>1
  <2>4. /\ IsSeq(exit') /\ Len(exit') = Len(exit) + Len(new)
        /\ \A b \in 1..Len(exit) : exit'[b] = exit[b]
        /\ \A i \in 1..Len(new) : exit'[Len(exit) + i] = new[i]
    <3>1. IsSeq(exit) /\ IsSeq(new)
      BY <1>1, <2>2
    <3>2. /\ IsSeq(exit \o new) /\ Len(exit \o new) = Len(exit) + Len(new)
          /\ \A b \in 1..Len(exit) : (exit \o new)[b] = exit[b]
          /\ \A i \in 1..Len(new) : (exit \o new)[Len(exit) + i] = new[i]
      BY <3>1, Concatenation
    <3>. QED
      BY <2>3, <3>2
  <2>5. 1 \in 1..2 /\ 2 \in 1..2 /\ Len(exit) \in Nat
    BY <1>1, SeqFacts
  <2>. QED
    BY <2>2, <2>4, <2>5
<1>11. end = Len(exit) + 1 /\ first = Len(exit) + 2 /\ first \in Nat
  BY <1>3, <1>4, <1>10 DEF Fresh
<1>12. Listed' = {first} /\ blocks' \in Seq(Nat) /\ blocks' # << >> /\ blocks'[1] = first
       /\ DOMAIN blocks' = 1..1
  <2>1. blocks' \in Seq(Nat) /\ Len(blocks') = 1 /\ blocks'[1] = first
    BY <1>7, <1>11
  <2>2. IsSeq(blocks')
    BY <2>1 DEF IsSeq
  <2>3. DOMAIN blocks' = 1..1 /\ blocks' # << >>
    BY <2>1, <2>2, SeqFacts
  <2>. QED
    BY <2>1, <2>3 DEF Listed
\* The stack: nodes of the body or its first case, and the end.
<1>13. PICK nodes : /\ IsSeq(nodes) /\ work' = nodes \o <<frame>>
                    /\ \A i \in 1..Len(nodes) : \/ nodes[i] \in Plain \cup Ifs
                                                \/ body.kind # "block" /\ nodes[i] = case
  <2>1. CASE body.kind = "block"
    <3>1. PICK nodes : nodes = body.nodes
      OBVIOUS
    <3>2. nodes \in Seq(Plain \cup Ifs)
      BY <1>9, <2>1, <3>1
    <3>3. IsSeq(nodes) /\ \A i \in 1..Len(nodes) : nodes[i] \in Plain \cup Ifs
      BY <3>2 DEF IsSeq
    <3>4. work' = nodes \o <<frame>>
      BY <1>7, <2>1, <3>1
    <3>. QED
      BY <3>3, <3>4
  <2>2. CASE body.kind # "block"
    <3>1. PICK nodes : nodes = <<case>>
      OBVIOUS
    <3>2. IsSeq(nodes) /\ Len(nodes) = 1 /\ nodes[1] = case
      BY <3>1, ShortSequences
    <3>3. \A i \in 1..Len(nodes) : nodes[i] = case
      BY <3>2
    <3>4. work' = nodes \o <<frame>>
      BY <1>7, <2>2, <3>1
    <3>. QED
      BY <2>2, <3>2, <3>3, <3>4
  <2>. QED
    BY <2>1, <2>2
<1>. DEFINE m == Len(nodes)
<1>14. /\ IsSeq(work') /\ Len(work') = m + 1 /\ m \in Nat /\ work'[m + 1] = frame
       /\ \A i \in 1..m : work'[i] = nodes[i]
  <2>1. PICK f : f = <<frame>>
    OBVIOUS
  <2>2. IsSeq(f) /\ Len(f) = 1 /\ f[1] = frame
    BY <2>1, ShortSequences
  <2>3. work' = nodes \o f
    BY <1>13, <2>1
  <2>4. /\ IsSeq(work') /\ Len(work') = Len(nodes) + Len(f)
        /\ \A i \in 1..Len(nodes) : work'[i] = nodes[i]
        /\ \A i \in 1..Len(f) : work'[Len(nodes) + i] = f[i]
    <3>1. IsSeq(nodes) /\ IsSeq(f)
      BY <1>13, <2>2
    <3>2. /\ IsSeq(nodes \o f) /\ Len(nodes \o f) = Len(nodes) + Len(f)
          /\ \A i \in 1..Len(nodes) : (nodes \o f)[i] = nodes[i]
          /\ \A i \in 1..Len(f) : (nodes \o f)[Len(nodes) + i] = f[i]
      BY <3>1, Concatenation
    <3>. QED
      BY <2>3, <3>2
  <2>5. Len(nodes) \in Nat /\ 1 \in 1..1
    BY <1>13, SeqFacts
  <2>. QED
    BY <2>2, <2>4, <2>5
<1>. HIDE DEF m
<1>15. ASSUME NEW i \in 1..Len(work')
       PROVE  \/ i = Len(work') /\ work'[i] = frame
              \/ i # Len(work') /\ work'[i] \in Plain
              \/ i # Len(work') /\ work'[i] \in Ifs
              \/ i # Len(work') /\ body.kind # "block" /\ work'[i] = case
  <2>1. i = m + 1 \/ i \in 1..m
    BY <1>14
  <2>. QED
    BY <1>13, <1>14, <2>1 DEF m
<1>16. ASSUME NEW i \in 1..Len(work')
       PROVE  /\ work'[i].kind = "endfunction" <=> i = Len(work')
              /\ work'[i].kind \notin IfFrames \cup {"endif", "endmatch", "link"}
              /\ Fits(work'[i], Listed', Safe', next')
  <2>1. CASE work'[i] = frame /\ i = Len(work')
    BY <1>8, <2>1 DEF Fits, PlainKinds, IfFrames
  <2>2. CASE work'[i] \in Plain /\ i # Len(work')
    <3>1. PICK n \in Plain : n = work'[i]
      BY <2>2
    <3>2. /\ n.kind \in PlainKinds /\ Fits(n, Listed', Safe', next')
      BY PlainFits
    <3>. QED
      BY <2>2, <3>1, <3>2 DEF PlainKinds, IfFrames
  <2>3. CASE work'[i] \in Ifs /\ i # Len(work')
    <3>1. work'[i].kind = "if"
      BY <2>3 DEF IsStraight
    <3>. QED
      BY <2>3, <3>1 DEF Fits, PlainKinds, IfFrames
  <2>4. CASE body.kind # "block" /\ work'[i] = case /\ i # Len(work')
    <3>1. body \in Plain /\ body.kind = "match" /\ body.cases \in Seq(Plain) /\ body.cases # << >>
      BY <1>9, <2>4 DEF IsStraight
    <3>2. 1 \in 1..Len(body.cases)
      BY <3>1
    <3>3. end \in Safe'
      BY <1>7 DEF Safe
    <3>. QED
      BY <1>8, <2>4, <3>1, <3>2, <3>3 DEF Fits, IsCase, PlainKinds, IfFrames
  <2>. QED
    BY <1>15, <2>1, <2>2, <2>3, <2>4
<1>17. WorkIsNested'
  BY <1>16 DEF WorkIsNested
<1>18. WorkFits'
  <2>1. \A i \in 1..Len(work') : work'[i].kind = "endfunction" => work'[i].first = blocks'[1]
    BY <1>8, <1>12, <1>14, <1>16
  <2>. QED
    BY <1>16, <2>1 DEF WorkFits, LinkFits
<1>19. Promising' = {}
  <2>1. DOMAIN work' = 1..Len(work')
    BY <1>14, SeqFacts
  <2>. QED
    BY <1>16, <2>1 DEF Promising
<1>20. PromisesAreOpen'
  BY <1>19 DEF PromisesAreOpen
<1>21. BlocksAreListed'
  <2>1. /\ endBlock' = Len(exit) + 1 /\ current' \in Listed'
        /\ \A i, j \in DOMAIN blocks' : blocks'[i] = blocks'[j] => i = j
    BY <1>7, <1>11, <1>12
  <2>2. endBlock' \in Nat \ {0} /\ endBlock' <= Len(exit') /\ exit'[endBlock'] = ReturnExit
    BY <1>10, <2>1
  <2>3. endBlock' < first /\ first <= Len(exit') /\ TargetsOf(exit'[first]) \subseteq Safe'
    BY <1>10, <1>11, <2>1, ExitFacts
  <2>. QED
    BY <1>12, <2>1, <2>2, <2>3 DEF BlocksAreListed
<1>22. NextIsKnown'
  <2>1. next = NoBlock \/ (next \in 1..Len(exit) /\ exit[next] # Invalid)
    BY <1>1 DEF NextIsKnown
  <2>2. next = NoBlock \/ (next \in 1..Len(exit') /\ exit'[next] # Invalid)
    BY <1>10, <2>1
  <2>. QED
    BY <1>1, <2>2 DEF NextIsKnown
<1>23. FinishedAreClosed'
  <2>1. ASSUME NEW k \in 1..Len(functions), NEW i \in 1..Len(functions[k].blocks)
        PROVE  LET x == functions[k].blocks[i] IN exit'[x] = exit[x] /\ x < endBlock'
    <3>1. PICK list : list = functions[k].blocks
      OBVIOUS
    <3>2. list \in Seq(1..Len(exit)) /\ i \in 1..Len(list)
      BY <1>1, <3>1 DEF FinishedAreClosed
    <3>3. list[i] \in 1..Len(exit)
      BY <3>2
    <3>4. list[i] < Len(exit) + 1
      BY <1>10, <3>3
    <3>. QED
      BY <1>7, <1>10, <1>11, <3>1, <3>3, <3>4
  <2>2. Len(exit) <= Len(exit') /\ functions' = functions /\ endBlock' \in Nat
    BY <1>1, <1>7, <1>10, <1>11
  <2>. QED
    BY <1>1, <1>10, <2>1, <2>2, FinishedStay
<1>24. BranchesJoinBehindTheirIf' /\ bodies' \in Modules
  BY <1>1 DEF LoweringInv, BranchesJoinBehindTheirIf
<1>. QED
  BY <1>10, <1>14, <1>17, <1>18, <1>20, <1>21, <1>22, <1>23, <1>24 DEF LoweringInv

LEMMA EndFunctionKeeps ==
  ASSUME LoweringInv, EndFunction
  PROVE  LoweringInv'
<1>1. /\ work # << >> /\ work[1].kind = "endfunction" /\ Top = work[1] /\ Pop
      /\ AddBlock(endBlock) /\ UNCHANGED <<bodies, endBlock, current, next, joins>>
  BY TopFits DEF EndFunction, At, Top
<1>2. /\ IsSeq(work) /\ WorkIsNested /\ WorkFits /\ BlocksAreListed /\ NextIsKnown
      /\ FinishedAreClosed /\ IsSeq(exit) /\ IsSeq(functions) /\ Len(exit) \in Nat
      /\ DOMAIN exit = 1..Len(exit) /\ 1 \in 1..Len(work) /\ Len(work) \in Nat
      /\ \A b \in Listed : b \in 1..Len(exit)
  BY <1>1, TopFits DEF LoweringInv, FinishedAreClosed
<1>3. PICK first : first = work[1].first
  OBVIOUS
<1>4. first = blocks[1]
  BY <1>1, <1>2, <1>3 DEF WorkFits
<1>5. Len(work) = 1
  BY <1>1, <1>2 DEF WorkIsNested
<1>6. work' = << >>
  <2>1. PICK S : work \in Seq(S)
    BY <1>2 DEF IsSeq
  <2>2. Tail(work) \in Seq(S) /\ Len(Tail(work)) = 0
    BY <1>1, <1>5, <2>1
  <2>3. PICK t : t = Tail(work)
    OBVIOUS
  <2>4. t = << >>
    BY <2>2, <2>3
  <2>. QED
    BY <1>1, <2>3, <2>4 DEF Pop
<1>7. Promised = {}
  <2>1. DOMAIN work = 1..1
    BY <1>2, <1>5, SeqFacts
  <2>2. Promising = {}
    BY <1>1, <2>1 DEF Promising
  <2>. QED
    BY <2>2 DEF Promised
<1>8. Safe = Listed \cup {endBlock}
  BY <1>7 DEF Safe
<1>9. endBlock \in Nat \ {0} /\ endBlock \in 1..Len(exit) /\ exit[endBlock] = ReturnExit
      /\ endBlock \notin Listed
  BY <1>2 DEF BlocksAreListed
<1>10. exit' = [b \in DOMAIN exit |-> IF b \in {next, first} /\ exit[b] = Invalid
                                     THEN Branch(endBlock) ELSE exit[b]]
  BY <1>1, <1>3 DEF EndFunction
<1>11. IsSeq(exit') /\ Len(exit') = Len(exit)
  <2>1. DOMAIN exit' = DOMAIN exit
    BY <1>10
  <2>2. IsFunction(exit')
    BY <1>10 DEF IsFunction
  <2>. QED
    BY <1>2, <2>1, <2>2, SomeExitsChanged
<1>12. first \in Listed
  <2>1. 1 \in DOMAIN blocks
    BY <1>2 DEF BlocksAreListed
  <2>. QED
    BY <1>4, <2>1 DEF Listed
<1>13. ASSUME NEW b \in 1..Len(exit)
       PROVE  exit'[b] = exit[b] \/ (b \in Listed /\ exit[b] = Invalid /\ exit'[b] = Branch(endBlock))
  <2>1. CASE b \in {next, first} /\ exit[b] = Invalid
    <3>1. b \in Listed
      <4>1. CASE b = first
        BY <1>12, <4>1
      <4>2. CASE b = next
        <5>1. next # NoBlock
          BY <1>13, <4>2 DEF NoBlock
        <5>. QED
          BY <1>2, <1>7, <2>1, <4>2, <5>1 DEF NextIsKnown
      <4>. QED
        BY <2>1, <4>1, <4>2
    <3>. QED
      BY <1>2, <1>10, <2>1, <3>1
  <2>2. CASE ~(b \in {next, first} /\ exit[b] = Invalid)
    BY <1>2, <1>10, <2>2
  <2>. QED
    BY <2>1, <2>2
<1>14. NextIsKnown'
  <2>1. CASE next = NoBlock
    BY <1>1, <2>1 DEF NextIsKnown
  <2>2. CASE next # NoBlock
    <3>1. next \in 1..Len(exit)
      BY <1>2, <2>2 DEF NextIsKnown
    <3>2. exit'[next] # Invalid
      BY <1>2, <1>10, <3>1, ExitFacts
    <3>. QED
      BY <1>1, <1>11, <3>1, <3>2 DEF NextIsKnown
  <2>. QED
    BY <2>1, <2>2
\* The list of this function
<1>15. PICK e \in Nat : e = endBlock
  BY <1>9
<1>16. blocks' = blocks \o <<e>> /\ Listed' = Listed \cup {e}
  BY <1>1, <1>2, <1>15, Appending
<1>17. PICK list : list = blocks'
  OBVIOUS
<1>18. PICK old : old = blocks
  OBVIOUS
<1>19. /\ old \in Seq(Nat) /\ Len(old) \in Nat \ {0}
       /\ \A i, j \in 1..Len(old) : old[i] = old[j] => i = j
       /\ \A i \in 1..Len(old) : old[i] \in Listed
  BY <1>2, <1>18 DEF BlocksAreListed, Listed
<1>20. /\ list \in Seq(Nat) /\ Len(list) = Len(old) + 1 /\ list[Len(old) + 1] = e
       /\ \A i \in 1..Len(old) : list[i] = old[i]
  <2>1. list = Append(old, e)
    BY <1>1, <1>15, <1>17, <1>18 DEF AddBlock
  <2>. QED
    BY <1>19, <2>1
<1>21. DOMAIN list = 1..Len(old) + 1 /\ list # << >>
  BY <1>19, <1>20
<1>22. {list[i] : i \in DOMAIN list} = Listed \cup {e}
  BY <1>16, <1>17 DEF Listed
<1>23. list \in Seq(1..Len(exit'))
  <2>1. \A i \in 1..Len(list) : list[i] \in 1..Len(exit)
    BY <1>2, <1>9, <1>15, <1>20, <1>21, <1>22
  <2>2. PICK S : S = 1..Len(exit)
    OBVIOUS
  <2>3. list \in Seq(S)
    BY <1>20, <2>1, <2>2
  <2>. QED
    BY <1>11, <2>2, <2>3
<1>24. IsClosed(list, first)'
  <2>. DEFINE own == {list[i] : i \in DOMAIN list}
  <2>1. ASSUME NEW i \in DOMAIN list, NEW j \in DOMAIN list, list[i] = list[j] PROVE i = j
    <3>1. (i \in 1..Len(old) \/ i = Len(old) + 1) /\ (j \in 1..Len(old) \/ j = Len(old) + 1)
      BY <1>19, <1>21
    <3>2. \A x \in 1..Len(old) : list[x] # e
      BY <1>9, <1>15, <1>19, <1>20
    <3>. QED
      BY <1>19, <1>20, <2>1, <3>1, <3>2
  <2>2. list[1] = first
    <3>1. 1 \in 1..Len(old)
      BY <1>19
    <3>. QED
      BY <1>4, <1>18, <1>20, <3>1
  <2>3. exit'[e] = ReturnExit
    BY <1>9, <1>13, <1>15
  <2>4. exit'[list[Len(list)]] = ReturnExit
    BY <1>20, <2>3
  <2>5. own = Listed \cup {e}
    BY <1>22
  <2>. HIDE DEF own
  <2>6. ASSUME NEW b \in own PROVE TargetsOf(exit'[b]) \subseteq own
    <3>1. CASE b = e
      BY <2>3, <3>1, ExitFacts
    <3>2. CASE b \in Listed
      <4>1. b \in 1..Len(exit) /\ TargetsOf(exit[b]) \subseteq own
        BY <1>2, <1>8, <1>15, <2>5, <3>2 DEF BlocksAreListed
      <4>. QED
        BY <1>13, <1>15, <2>5, <4>1, ExitFacts
    <3>. QED
      BY <2>5, <3>1, <3>2
  <2>. QED
    BY <2>1, <2>2, <2>4, <2>6 DEF IsClosed, own
<1>25. PICK new : new = [first |-> first, blocks |-> list]
  OBVIOUS
<1>26. functions' = Append(functions, new) /\ new.first = first /\ new.blocks = list
  BY <1>1, <1>3, <1>17, <1>25 DEF EndFunction
<1>. DEFINE n == Len(functions)
<1>27. /\ IsSeq(functions') /\ Len(functions') = n + 1 /\ n \in Nat /\ functions'[n + 1] = new
       /\ \A k \in 1..n : functions'[k] = functions[k]
  <2>1. PICK S : functions \in Seq(S)
    BY <1>2 DEF IsSeq
  <2>2. PICK T : T = S \cup {new}
    OBVIOUS
  <2>3. functions \in Seq(T) /\ new \in T
    BY <2>1, <2>2
  <2>. QED
    BY <1>26, <2>3 DEF IsSeq
<1>28. ASSUME NEW k \in 1..n, NEW fl, fl = functions[k].blocks, NEW ff, ff = functions[k].first
       PROVE  fl \in Seq(1..Len(exit')) /\ fl # << >> /\ IsClosed(fl, ff)'
  <2>3. fl \in Seq(1..Len(exit)) /\ fl # << >> /\ IsClosed(fl, ff)
    BY <1>2, <1>28 DEF FinishedAreClosed
  <2>4. ASSUME NEW i \in 1..Len(fl) PROVE exit'[fl[i]] = exit[fl[i]]
    <3>1. PICK b : b = fl[i]
      OBVIOUS
    <3>2. b \in 1..Len(exit) /\ b \notin Listed
      BY <1>1, <1>28, <3>1, FinishedAreBefore
    <3>. QED
      BY <1>13, <3>1, <3>2
  <2>5. Len(exit) <= Len(exit')
    BY <1>2, <1>11
  <2>. QED
    BY <1>2, <1>11, <2>3, <2>4, <2>5, ListsStayClosed
<1>. HIDE DEF n
<1>29. FinishedAreClosed'
  <2>1. ASSUME NEW k \in 1..Len(functions')
        PROVE  /\ functions'[k].blocks \in Seq(1..Len(exit')) /\ functions'[k].blocks # << >>
               /\ IsClosed(functions[k].blocks, functions[k].first)'
    <3>1. k \in 1..n \/ k = n + 1
      BY <1>27
    <3>2. PICK fl : fl = functions'[k].blocks
      OBVIOUS
    <3>3. PICK ff : ff = functions'[k].first
      OBVIOUS
    <3>4. fl \in Seq(1..Len(exit')) /\ fl # << >> /\ IsClosed(fl, ff)'
      <4>1. CASE k \in 1..n
        <5>1. fl = functions[k].blocks /\ ff = functions[k].first
          BY <1>27, <3>2, <3>3, <4>1
        <5>. QED
          BY <1>28, <4>1, <5>1
      <4>2. CASE k = n + 1
        <5>1. fl = list /\ ff = first
          BY <1>26, <1>27, <3>2, <3>3, <4>2
        <5>. QED
          BY <1>21, <1>23, <1>24, <5>1
      <4>. QED
        BY <3>1, <4>1, <4>2
    <3>5. IsClosed(functions[k].blocks, functions[k].first)'
      <4>1. {functions'[k].blocks[i] : i \in DOMAIN functions'[k].blocks} = {fl[i] : i \in DOMAIN fl}
        BY <3>2
      <4>. QED
        BY <3>2, <3>3, <3>4, <4>1 DEF IsClosed
    <3>. QED
      BY <3>2, <3>4, <3>5
  <2>. QED
    BY <1>6, <1>27, <2>1 DEF FinishedAreClosed
<1>30. IsSeq(work')
  BY <1>6, ShortSequences
<1>31. BranchesJoinBehindTheirIf' /\ bodies' \in Modules
  BY <1>1 DEF LoweringInv, BranchesJoinBehindTheirIf
<1>. QED
  BY <1>6, <1>11, <1>14, <1>29, <1>30, <1>31 DEF LoweringInv
-----------------------------------------------------------------------------
(* The theorems *)

LEMMA LoweringStarts ==
  ASSUME Init
  PROVE  LoweringInv
<1>1. IsSeq(work) /\ IsSeq(exit) /\ IsSeq(functions) /\ Len(functions) = 0
  BY ShortSequences DEF Init
<1>. QED
  BY <1>1 DEF Init, LoweringInv, NextIsKnown, FinishedAreClosed, BranchesJoinBehindTheirIf

LEMMA LoweringGoesOn ==
  ASSUME IsStraight, LoweringInv, [Lower]_loweringVars
  PROVE  LoweringInv'
<1>1. CASE UNCHANGED loweringVars
  <2>1. /\ UNCHANGED <<bodies, functions, work, exit, blocks, endBlock, current, next, joins>>
    BY <1>1 DEF loweringVars, blockVars
  <2>2. Listed' = Listed /\ Promising' = Promising
    BY <2>1 DEF Listed, Promising
  <2>3. Promised' = Promised
    BY <2>1, <2>2 DEF Promised
  <2>4. Safe' = Safe
    BY <2>1, <2>2, <2>3 DEF Safe
  <2>5. WorkIsNested' = WorkIsNested
    BY <2>1 DEF WorkIsNested
  <2>6. WorkFits' = WorkFits
    BY <2>1, <2>2, <2>4 DEF WorkFits, LinkFits
  <2>7. PromisesAreOpen' = PromisesAreOpen
    BY <2>1, <2>2 DEF PromisesAreOpen
  <2>8. BlocksAreListed' = BlocksAreListed
    BY <2>1, <2>2, <2>4 DEF BlocksAreListed
  <2>9. NextIsKnown' = NextIsKnown
    BY <2>1, <2>2, <2>3 DEF NextIsKnown
  <2>10. FinishedAreClosed' = FinishedAreClosed
    BY <2>1 DEF FinishedAreClosed, IsClosed
  <2>11. BranchesJoinBehindTheirIf' = BranchesJoinBehindTheirIf
    BY <2>1 DEF BranchesJoinBehindTheirIf
  <2>. QED
    BY <2>1, <2>5, <2>6, <2>7, <2>8, <2>9, <2>10, <2>11 DEF LoweringInv
<1>2. CASE Lower
  <2>1. CASE BeginFunction \/ EndFunction
    BY <2>1, BeginFunctionKeeps, EndFunctionKeeps
  <2>2. CASE Operand \/ ProcessCall \/ ProcessCtor \/ ProcessAssign \/ Store
    BY <2>2, OperandKeeps, EmittingKeeps, ProcessAssignKeeps
  <2>3. CASE ProcessReturn \/ StoreResult \/ ProcessConvert
    BY <2>3, ProcessReturnKeeps, StoreResultKeeps, ProcessConvertKeeps
  <2>4. CASE BeginIf \/ ThenBlock \/ NoElseBlock \/ ElseBlock \/ Connect \/ EndIf
    BY <2>4, BeginIfKeeps, ThenBlockKeeps, NoElseBlockKeeps, ElseBlockKeeps, ConnectKeeps, EndIfKeeps
  <2>5. CASE BeginMatch \/ BeginCase \/ EndCase \/ LinkCase \/ EndMatch
    BY <2>5, BeginMatchKeeps, BeginCaseKeeps, EndCaseKeeps, LinkCaseKeeps, EndMatchKeeps
  <2>. QED
    BY <1>2, <2>1, <2>2, <2>3, <2>4, <2>5 DEF Lower
<1>. QED
  BY <1>1, <1>2

\* The invariant holds while a module without an if inside of a branch is lowered.
THEOREM LoweringIsInvariant ==
  ASSUME IsStraight
  PROVE  LowerSpec => []LoweringInv
<1>1. Init => LoweringInv
  BY LoweringStarts
<1>2. LoweringInv /\ [Lower]_loweringVars => LoweringInv'
  BY LoweringGoesOn
<1>. QED
  BY <1>1, <1>2, PTL DEF LowerSpec

\* A branch of an if without an exit of its own goes on behind that if.
THEOREM BranchesJoin ==
  ASSUME IsStraight
  PROVE  LowerSpec => []BranchesJoinBehindTheirIf
<1>1. LoweringInv => BranchesJoinBehindTheirIf
  BY DEF LoweringInv
<1>. QED
  BY <1>1, LoweringIsInvariant, PTL

\* Every function that was lowered holds each of its blocks once, begins with its
\* first block, ends with its end block, and holds the targets of all its exits.
THEOREM ListsClose ==
  ASSUME IsStraight
  PROVE  LowerSpec => []ListsAreClosed
<1>1. LoweringInv => ListsAreClosed
  <2>1. SUFFICES ASSUME LoweringInv, NEW k \in DOMAIN functions
                 PROVE  IsClosed(functions[k].blocks, functions[k].first)
    BY DEF ListsAreClosed
  <2>2. FinishedAreClosed /\ IsSeq(functions)
    BY <2>1 DEF LoweringInv, FinishedAreClosed
  <2>3. k \in 1..Len(functions)
    BY <2>1, <2>2, SeqFacts
  <2>. QED
    BY <2>2, <2>3 DEF FinishedAreClosed
<1>. QED
  BY <1>1, LoweringIsInvariant, PTL
=============================================================================
