--------------------------- MODULE AnalysesProofs ---------------------------
(***************************************************************************)
(* What the analyses promise of every grammar: a first-graph is accepted   *)
(* exactly when it has no cycle, and every cycle is reported that should   *)
(* be; witnesses lead out; what is nullable, what is left-recursive and    *)
(* what a walk cannot pass are found exactly.                              *)
(*                                                                         *)
(* The shortest matches are right: nodes become final in the order of what *)
(* they cost, no derivation is shorter than what its node costs, and no    *)
(* better choice turns up later.  And so are the warnings of lint, which   *)
(* rest on them.                                                           *)
(***************************************************************************)
EXTENDS Lint, ProofSupport

-----------------------------------------------------------------------------
(* The search for left recursion accepts a first-graph exactly when it has *)
(* no cycle, whatever the graph.                                           *)

Colors == {"white", "gray", "black"}
Black == {r \in RuleIndices : color[r] = "black"}
Frames == [rule : RuleIndices, left : SUBSET RuleIndices]

SearchTypes ==
  /\ GraphShape
  /\ color \in [RuleIndices -> Colors]
  /\ stack \in Seq(Frames)
  /\ errors \in Seq(Seq(RuleIndices))

(* The stack is a path of the gray rules, each once.                       *)
IsPath ==
  /\ \A i \in 1 .. Len(stack) : color[stack[i].rule] = "gray"
  /\ \A i, j \in 1 .. Len(stack) : stack[i].rule = stack[j].rule => i = j
  /\ \A r \in RuleIndices : color[r] = "gray" => \E i \in 1 .. Len(stack) : stack[i].rule = r
  /\ \A i \in 1 .. Len(stack) : stack[i].left \subseteq edges[stack[i].rule]
  /\ \A i \in 1 .. Len(stack) - 1 : stack[i + 1].rule \in edges[stack[i].rule]

(* As long as nothing is reported, an edge that was taken led to a rule the*)
(* search is through with, or to the next rule of the path.                *)
Accounted ==
  \A i \in 1 .. Len(stack) : \A r \in edges[stack[i].rule] \ stack[i].left :
    r \in Black \/ (i < Len(stack) /\ r = stack[i + 1].rule)

Clear ==
  /\ Accounted
  /\ \A r \in Black : edges[r] \subseteq Black
  /\ Acyclic(Black)

SearchInv ==
  /\ SearchTypes /\ IsPath
  /\ errors = << >> => Clear
  /\ errors # << >> => ~Acyclic(RuleIndices)

-----------------------------------------------------------------------------
(* The rules are numbered, so every set of them has an earliest.           *)
LEMMA EarliestExists ==
  ASSUME NEW S \in SUBSET Nat, S # {}
  PROVE  Earliest(S) \in S /\ \A s \in S : Earliest(S) <= s
  BY LeastExists DEF Earliest

(* What the top of the stack is.                                           *)
LEMMA TopFacts ==
  ASSUME SearchTypes, stack # << >>
  PROVE  /\ Len(stack) \in Nat /\ Len(stack) > 0
         /\ Node \in RuleIndices /\ Left \in SUBSET RuleIndices
         /\ Node = stack[Len(stack)].rule /\ Left = stack[Len(stack)].left
<1>1. stack \in Seq(Frames) /\ Len(stack) \in Nat /\ Len(stack) > 0 /\ stack[Len(stack)] \in Frames
  BY PopStack DEF SearchTypes
<1>2. QED
  BY <1>1 DEF Node, Left, Last, Frames

(* Taking an edge changes what is left at the top of the stack, and nothing*)
(* else.                                                                   *)
LEMMA TakenFacts ==
  ASSUME SearchTypes, stack # << >>, NEW next \in RuleIndices
  PROVE  /\ Taken(next) \in Seq(Frames) /\ Len(Taken(next)) = Len(stack)
         /\ \A i \in 1 .. Len(stack) : Taken(next)[i].rule = stack[i].rule
         /\ \A i \in 1 .. Len(stack) - 1 : Taken(next)[i] = stack[i]
         /\ Taken(next)[Len(stack)].left = Left \ {next}
<1> DEFINE f == [stack[Len(stack)] EXCEPT !.left = @ \ {next}]
<1>1. stack \in Seq(Frames) /\ Len(stack) \in Nat /\ Len(stack) > 0 /\ stack[Len(stack)] \in Frames
  BY PopStack DEF SearchTypes
<1>2. f \in Frames /\ f.rule = stack[Len(stack)].rule /\ f.left = Left \ {next}
  BY <1>1, TopFacts DEF Frames
<1>3. Taken(next) = [stack EXCEPT ![Len(stack)] = f]
  BY <1>1 DEF Taken
<1> HIDE DEF f
<1>4. /\ Taken(next) \in Seq(Frames) /\ Len(Taken(next)) = Len(stack)
      /\ Taken(next)[Len(stack)] = f
      /\ \A i \in 1 .. Len(stack) - 1 : Taken(next)[i] = stack[i]
  BY <1>1, <1>2, <1>3, ReplaceStack
<1>5. \A i \in 1 .. Len(stack) : i = Len(stack) \/ i \in 1 .. Len(stack) - 1
  BY <1>1
<1>6. QED
  BY <1>2, <1>4, <1>5

-----------------------------------------------------------------------------
(* Entering a rule: it is gray now, and nothing becomes black or white.    *)
LEMMA FollowFacts ==
  ASSUME SearchTypes, NEW r \in White, Follow(r)
  PROVE  /\ r \in RuleIndices /\ edges' = edges /\ errors' = errors
         /\ color' \in [RuleIndices -> Colors]
         /\ color'[r] = "gray"
         /\ \A s \in RuleIndices : s # r => color'[s] = color[s]
         /\ Black' = Black /\ Frames' = Frames
         /\ [rule |-> r, left |-> edges[r]] \in Frames
  BY DEF Follow, White, SearchTypes, Colors, Black, RuleIndices, Frames, GraphShape

LEMMA RootKeepsInv ==
  ASSUME SearchInv, Root
  PROVE  SearchInv'
<1> DEFINE r == Earliest(White)
           f == [rule |-> r, left |-> edges[r]]
<1>1. r \in White
  BY EarliestExists DEF SearchInv, SearchTypes, GraphShape, Root, White
<1>2. /\ r \in RuleIndices /\ edges' = edges /\ errors' = errors
      /\ color' \in [RuleIndices -> Colors]
      /\ color'[r] = "gray"
      /\ \A s \in RuleIndices : s # r => color'[s] = color[s]
      /\ Black' = Black /\ Frames' = Frames
      /\ f \in Frames
  BY <1>1, FollowFacts DEF Root, SearchInv
<1>3. stack' = <<f>> /\ stack' \in Seq(Frames) /\ Len(stack') = 1 /\ stack'[1] = f
  BY <1>2 DEF Root
<1> HIDE DEF f
<1>4. f.rule = r /\ f.left = edges[r]
  BY DEF f
<1>5. SearchTypes'
  BY <1>2, <1>3 DEF SearchInv, SearchTypes, GraphShape, RuleIndices
<1>6. \A s \in RuleIndices : color[s] # "gray"
  BY DEF SearchInv, IsPath, Root
<1>7. IsPath'
  BY <1>2, <1>3, <1>4, <1>6 DEF IsPath, RuleIndices
<1>8. Accounted'
  BY <1>2, <1>3, <1>4 DEF Accounted
<1>9. QED
  BY <1>2, <1>5, <1>7, <1>8 DEF SearchInv, Clear, Acyclic, RuleIndices

(* The next edge of the innermost rule.                                    *)
LEMMA EdgeFacts ==
  ASSUME SearchTypes, IsPath, NEW c, Edge(c)
  PROVE  /\ stack # << >>
         /\ Earliest(Left) \in Left /\ Earliest(Left) \in RuleIndices
         /\ Earliest(Left) \in edges[Node]
         /\ color[Earliest(Left)] = c
<1>1. Left \in SUBSET Nat /\ Left # {} /\ Left \in SUBSET RuleIndices
  BY TopFacts DEF Edge, SearchTypes, GraphShape
<1>2. Left \subseteq edges[Node]
  BY TopFacts DEF IsPath, Edge
<1>3. QED
  BY <1>1, <1>2, EarliestExists DEF Edge

(* An edge taken keeps the path.                                           *)
LEMMA TakenKeepsPath ==
  ASSUME SearchTypes, IsPath, NEW next \in RuleIndices, stack # << >>
  PROVE  LET s == Taken(next) IN
         /\ \A i \in 1 .. Len(s) : color[s[i].rule] = "gray"
         /\ \A i, j \in 1 .. Len(s) : s[i].rule = s[j].rule => i = j
         /\ \A r \in RuleIndices : color[r] = "gray" => \E i \in 1 .. Len(s) : s[i].rule = r
         /\ \A i \in 1 .. Len(s) : s[i].left \subseteq edges[s[i].rule]
         /\ \A i \in 1 .. Len(s) - 1 : s[i + 1].rule \in edges[s[i].rule]
<1> DEFINE s == Taken(next)
<1>1. /\ Len(s) = Len(stack) /\ Len(stack) \in Nat
      /\ \A i \in 1 .. Len(stack) : s[i].rule = stack[i].rule
      /\ \A i \in 1 .. Len(stack) : s[i].left \subseteq stack[i].left
  <2>1. \A i \in 1 .. Len(stack) : i = Len(stack) \/ i \in 1 .. Len(stack) - 1
    BY TopFacts
  <2>2. QED
    BY <2>1, TakenFacts, TopFacts
<1> HIDE DEF s
<1>2. \A i \in 1 .. Len(s) - 1 : i \in 1 .. Len(s) /\ i + 1 \in 1 .. Len(s)
  BY <1>1
<1>3. QED
  BY <1>1, <1>2 DEF IsPath, s

(* An edge taken is accounted for if it leads to a black rule, or to the   *)
(* rule `after` that comes next on the path.                               *)
LEMMA TakenKeepsAccounts ==
  ASSUME SearchTypes, Accounted, NEW next \in RuleIndices, stack # << >>
  PROVE  /\ \A i \in 1 .. Len(stack) - 1 :
              \A r \in edges[Taken(next)[i].rule] \ Taken(next)[i].left :
                r \in Black \/ r = Taken(next)[i + 1].rule
         /\ \A r \in edges[Node] \ Taken(next)[Len(stack)].left : r \in Black \/ r = next
<1>1. Len(stack) \in Nat /\ Len(stack) > 0 /\ Node = stack[Len(stack)].rule
        /\ Left = stack[Len(stack)].left
  BY TopFacts
<1>2. \A i \in 1 .. Len(stack) - 1 :
        /\ i \in 1 .. Len(stack) /\ i + 1 \in 1 .. Len(stack)
        /\ Taken(next)[i] = stack[i] /\ Taken(next)[i + 1].rule = stack[i + 1].rule
  BY <1>1, TakenFacts
<1>3. Taken(next)[Len(stack)].left = Left \ {next}
  BY TakenFacts
<1>4. Len(stack) \in 1 .. Len(stack) /\ ~ (Len(stack) < Len(stack))
  BY <1>1
<1>5. QED
  BY <1>1, <1>2, <1>3, <1>4 DEF Accounted

LEMMA DescendKeepsInv ==
  ASSUME SearchInv, Descend
  PROVE  SearchInv'
<1> DEFINE next == Earliest(Left)
           s == Taken(next)
           f == [rule |-> next, left |-> edges[next]]
<1>1. /\ stack # << >> /\ next \in Left /\ next \in RuleIndices
      /\ next \in edges[Node] /\ color[next] = "white"
  BY EdgeFacts DEF SearchInv, Descend
<1>2. /\ edges' = edges /\ errors' = errors
      /\ color' \in [RuleIndices -> Colors]
      /\ color'[next] = "gray"
      /\ \A r \in RuleIndices : r # next => color'[r] = color[r]
      /\ Black' = Black /\ Frames' = Frames
      /\ f \in Frames
  BY <1>1, FollowFacts DEF Descend, SearchInv, White
<1>3. /\ s \in Seq(Frames) /\ Len(s) = Len(stack) /\ Len(s) \in Nat /\ Len(s) > 0
      /\ s[Len(s)].rule = Node
  <2>1. Len(stack) \in 1 .. Len(stack)
    BY <1>1, TopFacts DEF SearchInv
  <2>2. QED
    BY <1>1, <2>1, TakenFacts, TopFacts DEF SearchInv
<1>4. /\ stack' \in Seq(Frames) /\ Len(stack') = Len(s) + 1 /\ stack'[Len(s) + 1] = f
      /\ \A i \in 1 .. Len(s) : stack'[i] = s[i]
  BY <1>2, <1>3, PushStack DEF Descend
<1>5. SearchTypes'
  BY <1>2, <1>4 DEF SearchInv, SearchTypes, GraphShape, RuleIndices
<1>6. /\ \A i \in 1 .. Len(s) : color[s[i].rule] = "gray"
      /\ \A i, j \in 1 .. Len(s) : s[i].rule = s[j].rule => i = j
      /\ \A r \in RuleIndices : color[r] = "gray" => \E i \in 1 .. Len(s) : s[i].rule = r
      /\ \A i \in 1 .. Len(s) : s[i].left \subseteq edges[s[i].rule]
      /\ \A i \in 1 .. Len(s) - 1 : s[i + 1].rule \in edges[s[i].rule]
  BY <1>1, TakenKeepsPath DEF SearchInv
<1>7. /\ \A i \in 1 .. Len(s) - 1 : \A r \in edges[s[i].rule] \ s[i].left :
            errors = << >> => r \in Black \/ r = s[i + 1].rule
      /\ \A r \in edges[Node] \ s[Len(s)].left : errors = << >> => r \in Black \/ r = next
  BY <1>1, <1>3, TakenKeepsAccounts DEF SearchInv, Clear
<1>8. \A i \in 1 .. Len(s) : s[i] \in Frames
  BY <1>3
<1> HIDE DEF s, f
<1>9. f.rule = next /\ f.left = edges[next]
  BY DEF f
<1> HIDE DEF next
<1>10. \A i \in 1 .. Len(stack') : i \in 1 .. Len(s) \/ i = Len(s) + 1
  BY <1>3, <1>4
<1>11. \A i \in 1 .. Len(s) : i \in 1 .. Len(s) - 1 \/ i = Len(s)
  BY <1>3
<1>12. \A i \in 1 .. Len(s) : s[i].rule \in RuleIndices /\ s[i].rule # next
  BY <1>1, <1>6, <1>8 DEF Frames
<1>13. IsPath'
  <2>1. \A i \in 1 .. Len(stack') : color'[stack'[i].rule] = "gray"
    BY <1>2, <1>4, <1>6, <1>9, <1>10, <1>12
  <2>2. \A i, j \in 1 .. Len(stack') : stack'[i].rule = stack'[j].rule => i = j
    BY <1>4, <1>6, <1>9, <1>10, <1>12
  <2>3. \A r \in RuleIndices : color'[r] = "gray" => \E i \in 1 .. Len(stack') : stack'[i].rule = r
    <3>1. \A i \in 1 .. Len(s) : i \in 1 .. Len(stack')
      BY <1>3, <1>4
    <3>2. Len(s) + 1 \in 1 .. Len(stack')
      BY <1>3, <1>4
    <3>3. QED
      BY <1>2, <1>4, <1>6, <1>9, <3>1, <3>2
  <2>4. \A i \in 1 .. Len(stack') : stack'[i].left \subseteq edges[stack'[i].rule]
    BY <1>4, <1>6, <1>9, <1>10
  <2>5. \A i \in 1 .. Len(stack') - 1 : stack'[i + 1].rule \in edges[stack'[i].rule]
    <3> TAKE i \in 1 .. Len(stack') - 1
    <3>1. CASE i = Len(s)
      BY <1>1, <1>3, <1>4, <1>9, <3>1
    <3>2. CASE i # Len(s)
      <4>1. i \in 1 .. Len(s) - 1 /\ i \in 1 .. Len(s) /\ i + 1 \in 1 .. Len(s)
        BY <1>3, <1>4, <3>2
      <4>2. QED
        BY <1>4, <1>6, <4>1
    <3>3. QED
      BY <3>1, <3>2
  <2>6. QED
    BY <1>2, <2>1, <2>2, <2>3, <2>4, <2>5 DEF IsPath, RuleIndices
<1>14. errors = << >> => Accounted'
  <2> SUFFICES ASSUME errors = << >>,
                      NEW i \in 1 .. Len(stack'),
                      NEW r \in edges[stack'[i].rule] \ stack'[i].left
               PROVE  r \in Black \/ (i < Len(stack') /\ r = stack'[i + 1].rule)
    BY <1>2 DEF Accounted
  <2>1. CASE i = Len(s) + 1
    BY <1>4, <1>9, <2>1
  <2>2. CASE i = Len(s)
    BY <1>3, <1>4, <1>7, <1>9, <2>2
  <2>3. CASE i \in 1 .. Len(s) - 1
    <3>1. i \in 1 .. Len(s) /\ i + 1 \in 1 .. Len(s) /\ i < Len(stack')
      BY <1>3, <1>4, <2>3
    <3>2. QED
      BY <1>4, <1>7, <2>3, <3>1
  <2>4. QED
    BY <1>10, <1>11, <2>1, <2>2, <2>3
<1>15. QED
  BY <1>2, <1>5, <1>13, <1>14 DEF SearchInv, Clear, Acyclic, RuleIndices

(* An edge that is taken to a rule on the path or done with: all that      *)
(* changes is what is left, and maybe the errors.                          *)
LEMMA TakenKeepsShape ==
  ASSUME SearchInv, stack # << >>, NEW next \in RuleIndices, stack' = Taken(next),
         UNCHANGED <<edges, color>>, errors' \in Seq(Seq(RuleIndices))
  PROVE  SearchTypes' /\ IsPath' /\ Black' = Black
<1>1. SearchTypes'
  BY TakenFacts DEF SearchInv, SearchTypes, GraphShape, RuleIndices, Frames
<1>2. IsPath'
  <2>1. /\ \A i \in 1 .. Len(stack') : color[stack'[i].rule] = "gray"
        /\ \A i, j \in 1 .. Len(stack') : stack'[i].rule = stack'[j].rule => i = j
        /\ \A r \in RuleIndices : color[r] = "gray" =>
              \E i \in 1 .. Len(stack') : stack'[i].rule = r
        /\ \A i \in 1 .. Len(stack') : stack'[i].left \subseteq edges[stack'[i].rule]
        /\ \A i \in 1 .. Len(stack') - 1 : stack'[i + 1].rule \in edges[stack'[i].rule]
    <3> DEFINE s == Taken(next)
    <3>1. /\ \A i \in 1 .. Len(s) : color[s[i].rule] = "gray"
          /\ \A i, j \in 1 .. Len(s) : s[i].rule = s[j].rule => i = j
          /\ \A r \in RuleIndices : color[r] = "gray" => \E i \in 1 .. Len(s) : s[i].rule = r
          /\ \A i \in 1 .. Len(s) : s[i].left \subseteq edges[s[i].rule]
          /\ \A i \in 1 .. Len(s) - 1 : s[i + 1].rule \in edges[s[i].rule]
      BY TakenKeepsPath DEF SearchInv
    <3>2. stack' = s
      OBVIOUS
    <3> HIDE DEF s
    <3>3. QED
      BY <3>1, <3>2
  <2>2. QED
    BY <2>1 DEF IsPath, RuleIndices
<1>3. QED
  BY <1>1, <1>2 DEF Black, RuleIndices

LEMMA SkipKeepsInv ==
  ASSUME SearchInv, Skip
  PROVE  SearchInv'
<1> DEFINE next == Earliest(Left)
<1>1. /\ stack # << >> /\ next \in RuleIndices /\ color[next] = "black"
      /\ stack' = Taken(next) /\ UNCHANGED <<edges, color, errors>>
  BY EdgeFacts DEF SearchInv, Skip
<1>2. SearchTypes' /\ IsPath' /\ Black' = Black
  BY <1>1, TakenKeepsShape DEF SearchInv, SearchTypes
<1>3. next \in Black
  BY <1>1 DEF Black
<1>4. errors = << >> => Accounted'
  <2> SUFFICES ASSUME errors = << >>,
                      NEW i \in 1 .. Len(stack'),
                      NEW r \in edges[stack'[i].rule] \ stack'[i].left
               PROVE  r \in Black \/ (i < Len(stack') /\ r = stack'[i + 1].rule)
    BY <1>1, <1>2 DEF Accounted
  <2>1. /\ Len(stack') = Len(stack) /\ Len(stack) \in Nat /\ Len(stack) > 0
        /\ \A j \in 1 .. Len(stack) : stack'[j].rule = stack[j].rule
        /\ Node = stack[Len(stack)].rule
    BY <1>1, TakenFacts, TopFacts DEF SearchInv
  <2>2. /\ \A j \in 1 .. Len(stack) - 1 :
              \A q \in edges[stack'[j].rule] \ stack'[j].left :
                q \in Black \/ q = stack'[j + 1].rule
        /\ \A q \in edges[Node] \ stack'[Len(stack)].left : q \in Black \/ q = next
    BY <1>1, TakenKeepsAccounts DEF SearchInv, Clear
  <2>3. CASE i = Len(stack)
    <3>1. stack'[i].rule = Node
      BY <2>1, <2>3
    <3>2. QED
      BY <1>3, <2>2, <2>3, <3>1
  <2>4. CASE i # Len(stack)
    <3>1. i \in 1 .. Len(stack) - 1 /\ i < Len(stack')
      BY <2>1, <2>4
    <3>2. QED
      BY <2>2, <3>1
  <2>5. QED
    BY <2>3, <2>4
<1>5. QED
  BY <1>1, <1>2, <1>4 DEF SearchInv, Clear, Acyclic, RuleIndices

-----------------------------------------------------------------------------
(* A cycle that is closed: the rules from where it starts to the end of the*)
(* path each lead to another of them.                                      *)
LEMMA ClosedIsCycle ==
  ASSUME SearchInv, Edge("gray")
  PROVE  ~Acyclic(RuleIndices)
<1> DEFINE next == Earliest(Left)
<1>1. /\ stack # << >> /\ next \in edges[Node] /\ next \in RuleIndices /\ color[next] = "gray"
      /\ Len(stack) \in Nat /\ Len(stack) > 0 /\ Node = stack[Len(stack)].rule
  BY EdgeFacts, TopFacts DEF SearchInv
<1>2. PICK k \in 1 .. Len(stack) : stack[k].rule = next
  BY <1>1 DEF SearchInv, IsPath
<1> HIDE DEF next
<1> DEFINE T == {stack[i].rule : i \in k .. Len(stack)}
<1>3. \A i \in 1 .. Len(stack) : stack[i].rule \in RuleIndices
  <2>1. \A i \in 1 .. Len(stack) : stack[i] \in Frames
    BY DEF SearchInv, SearchTypes
  <2>2. QED
    BY <2>1 DEF Frames
<1>4. T \in SUBSET RuleIndices /\ next \in T /\ T # {}
  BY <1>1, <1>2, <1>3
<1>5. \A r \in T : edges[r] \cap T # {}
  <2> SUFFICES ASSUME NEW i \in k .. Len(stack) PROVE edges[stack[i].rule] \cap T # {}
    OBVIOUS
  <2>1. CASE i = Len(stack)
    BY <1>1, <1>4, <2>1
  <2>2. CASE i # Len(stack)
    <3>1. i \in 1 .. Len(stack) - 1 /\ i + 1 \in k .. Len(stack)
      BY <1>1, <2>2
    <3>2. stack[i + 1].rule \in edges[stack[i].rule] /\ stack[i + 1].rule \in T
      BY <3>1 DEF SearchInv, IsPath
    <3>3. QED
      BY <3>2
  <2>3. QED
    BY <2>1, <2>2
<1> HIDE DEF T
<1>6. QED
  BY <1>4, <1>5 DEF Acyclic

(* The report of a cycle is a sequence of rules.                           *)
LEMMA CycleType ==
  ASSUME SearchInv, Edge("gray")
  PROVE  Cycle(Earliest(Left)) \in Seq(RuleIndices)
<1> DEFINE next == Earliest(Left)
           start == CHOOSE i \in DOMAIN Path : Path[i] = next
           cycle == SubSeq(Path, start, Len(Path))
<1>1. /\ next \in RuleIndices /\ color[next] = "gray"
      /\ Len(stack) \in Nat /\ DOMAIN stack = 1 .. Len(stack)
  BY EdgeFacts, TopFacts DEF SearchInv, SearchTypes
<1>2. Path \in Seq(RuleIndices) /\ Len(Path) = Len(stack) /\ DOMAIN Path = 1 .. Len(stack)
        /\ \A i \in 1 .. Len(stack) : Path[i] = stack[i].rule
  <2>1. \A i \in 1 .. Len(stack) : stack[i] \in Frames
    BY DEF SearchInv, SearchTypes
  <2>2. Path = [i \in 1 .. Len(stack) |-> stack[i].rule]
          /\ \A i \in 1 .. Len(stack) : stack[i].rule \in RuleIndices
    BY <1>1, <2>1 DEF Path, Frames
  <2>3. QED
    BY <1>1, <2>2
<1>3. \E i \in DOMAIN Path : Path[i] = next
  BY <1>1, <1>2 DEF SearchInv, IsPath
<1>4. start \in 1 .. Len(stack)
  BY <1>2, <1>3
<1> HIDE DEF start, next
<1>5. cycle \in Seq(RuleIndices) /\ cycle # << >>
  <2>1. \A i \in start .. Len(Path) : Path[i] \in RuleIndices
    BY <1>2, <1>4
  <2>2. cycle \in Seq(RuleIndices) /\ Len(cycle) = Len(Path) - start + 1
    BY <1>2, <1>4, <2>1, SubSeqProperties
  <2>3. QED
    BY <1>2, <1>4, <2>2
<1> HIDE DEF cycle
<1>6. NormalizeCycle(cycle) \in Seq(RuleIndices)
  <2> DEFINE first == CHOOSE i \in DOMAIN cycle : \A j \in DOMAIN cycle : cycle[i] <= cycle[j]
             S == {cycle[i] : i \in DOMAIN cycle}
  <2>1. DOMAIN cycle = 1 .. Len(cycle) /\ Len(cycle) \in Nat /\ Len(cycle) > 0
          /\ \A i \in DOMAIN cycle : cycle[i] \in RuleIndices
    BY <1>5
  <2>2. S \in SUBSET Nat /\ S # {}
    <3>1. RuleIndices \subseteq Nat
      BY DEF SearchInv, SearchTypes, GraphShape
    <3>2. 1 \in DOMAIN cycle
      BY <2>1
    <3>3. QED
      BY <2>1, <3>1, <3>2
  <2>3. \E i \in DOMAIN cycle : \A j \in DOMAIN cycle : cycle[i] <= cycle[j]
    <3>1. Earliest(S) \in S /\ \A s \in S : Earliest(S) <= s
      BY <2>2, EarliestExists
    <3>2. QED
      BY <3>1
  <2>4. first \in 1 .. Len(cycle)
    BY <2>1, <2>3
  <2> HIDE DEF first
  <2>5. SubSeq(cycle, first, Len(cycle)) \in Seq(RuleIndices)
          /\ SubSeq(cycle, 1, first - 1) \in Seq(RuleIndices)
    <3>1. \A i \in first .. Len(cycle) : cycle[i] \in RuleIndices
      BY <2>1, <2>4
    <3>2. \A i \in 1 .. first - 1 : cycle[i] \in RuleIndices
      BY <2>1, <2>4
    <3>3. first - 1 \in Int /\ 1 \in Int /\ first \in Int /\ Len(cycle) \in Int
      BY <2>1, <2>4
    <3>4. QED
      BY <3>1, <3>2, <3>3, SubSeqProperties
  <2>6. QED
    BY <2>5 DEF NormalizeCycle, first
<1>7. QED
  BY <1>6 DEF Cycle, cycle, start, next

LEMMA CloseCycleKeepsInv ==
  ASSUME SearchInv, CloseCycle
  PROVE  SearchInv'
<1> DEFINE next == Earliest(Left)
<1>1. /\ stack # << >> /\ next \in RuleIndices
      /\ stack' = Taken(next) /\ UNCHANGED <<edges, color>>
  BY EdgeFacts DEF SearchInv, CloseCycle
<1>2. ~Acyclic(RuleIndices)
  BY ClosedIsCycle DEF CloseCycle
<1>3. Cycle(next) \in Seq(RuleIndices)
  BY CycleType DEF CloseCycle
<1>4. errors \in Seq(Seq(RuleIndices)) /\ errors' = IF Contains(errors, Cycle(next)) THEN errors
                                                    ELSE Append(errors, Cycle(next))
  BY DEF SearchInv, SearchTypes, CloseCycle
<1> HIDE DEF next
<1>5. errors' \in Seq(Seq(RuleIndices)) /\ errors' # << >>
  <2>1. CASE Contains(errors, Cycle(next))
    <3>1. errors # << >>
      BY <1>4, <2>1 DEF Contains
    <3>2. QED
      BY <1>4, <2>1, <3>1
  <2>2. CASE ~Contains(errors, Cycle(next))
    <3>1. errors' = Append(errors, Cycle(next))
      BY <1>4, <2>2
    <3>2. QED
      BY <1>3, <1>4, <3>1
  <2>3. QED
    BY <2>1, <2>2
<1>6. SearchTypes' /\ IsPath'
  BY <1>1, <1>5, TakenKeepsShape
<1>7. QED
  BY <1>1, <1>2, <1>5, <1>6 DEF SearchInv, Acyclic, RuleIndices

-----------------------------------------------------------------------------
(* A rule that leads only into a closed set without a cycle can join it.   *)
LEMMA AcyclicGrows ==
  ASSUME NEW B, NEW n, n \notin B, edges[n] \subseteq B,
         \A r \in B : edges[r] \subseteq B, Acyclic(B)
  PROVE  Acyclic(B \cup {n})
<1> SUFFICES ASSUME NEW T \in SUBSET (B \cup {n}), T # {}
             PROVE  \E r \in T : edges[r] \cap T = {}
  BY DEF Acyclic
<1>1. CASE T \cap B = {}
  BY <1>1
<1>2. CASE T \cap B # {}
  <2>1. PICK r \in T \cap B : edges[r] \cap (T \cap B) = {}
    BY <1>2 DEF Acyclic
  <2>2. QED
    BY <2>1
<1>3. QED
  BY <1>1, <1>2

LEMMA FinishKeepsInv ==
  ASSUME SearchInv, Finish
  PROVE  SearchInv'
<1>1. /\ stack # << >> /\ Left = {} /\ UNCHANGED <<edges, errors>>
      /\ Len(stack) \in Nat /\ Len(stack) > 0
      /\ Node \in RuleIndices /\ Node = stack[Len(stack)].rule /\ Left = stack[Len(stack)].left
  BY TopFacts DEF SearchInv, Finish
<1>2. /\ stack' \in Seq(Frames) /\ Len(stack') = Len(stack) - 1
      /\ \A i \in 1 .. Len(stack) - 1 : stack'[i] = stack[i]
  BY <1>1, PopStack DEF SearchInv, SearchTypes, Finish, Front
<1>3. /\ color' \in [RuleIndices -> Colors] /\ color'[Node] = "black"
      /\ \A r \in RuleIndices : r # Node => color'[r] = color[r]
  BY <1>1 DEF SearchInv, SearchTypes, Finish, Colors
<1>4. SearchTypes'
  BY <1>1, <1>2, <1>3 DEF SearchInv, SearchTypes, GraphShape, RuleIndices, Frames
<1>5. \A i \in 1 .. Len(stack) :
        stack[i].rule \in RuleIndices /\ (i # Len(stack) => stack[i].rule # Node)
  <2>1. \A i \in 1 .. Len(stack) : stack[i] \in Frames
    BY DEF SearchInv, SearchTypes
  <2>2. Len(stack) \in 1 .. Len(stack)
    BY <1>1
  <2>3. QED
    BY <1>1, <2>1, <2>2 DEF SearchInv, IsPath, Frames
<1>6. \A i \in 1 .. Len(stack') : /\ i \in 1 .. Len(stack) - 1 /\ i \in 1 .. Len(stack)
                                 /\ i # Len(stack) /\ stack'[i] = stack[i]
  BY <1>1, <1>2
<1>7. IsPath'
  <2>1. \A i \in 1 .. Len(stack') : color'[stack'[i].rule] = "gray"
    BY <1>3, <1>5, <1>6 DEF SearchInv, IsPath
  <2>2. \A i, j \in 1 .. Len(stack') : stack'[i].rule = stack'[j].rule => i = j
    BY <1>6 DEF SearchInv, IsPath
  <2>3. \A r \in RuleIndices : color'[r] = "gray" => \E i \in 1 .. Len(stack') : stack'[i].rule = r
    <3> SUFFICES ASSUME NEW r \in RuleIndices, color'[r] = "gray"
                 PROVE  \E i \in 1 .. Len(stack') : stack'[i].rule = r
      OBVIOUS
    <3>1. r # Node /\ color[r] = "gray"
      BY <1>3
    <3>2. PICK i \in 1 .. Len(stack) : stack[i].rule = r
      BY <3>1 DEF SearchInv, IsPath
    <3>3. i \in 1 .. Len(stack')
      BY <1>1, <1>2, <3>1, <3>2
    <3>4. QED
      BY <1>6, <3>2, <3>3
  <2>4. \A i \in 1 .. Len(stack') : stack'[i].left \subseteq edges[stack'[i].rule]
    BY <1>6 DEF SearchInv, IsPath
  <2>5. \A i \in 1 .. Len(stack') - 1 : stack'[i + 1].rule \in edges[stack'[i].rule]
    <3> TAKE i \in 1 .. Len(stack') - 1
    <3>1. i \in 1 .. Len(stack') /\ i + 1 \in 1 .. Len(stack') /\ i \in 1 .. Len(stack) - 1
      BY <1>1, <1>2
    <3>2. QED
      BY <1>6, <3>1 DEF SearchInv, IsPath
  <2>6. QED
    BY <1>1, <2>1, <2>2, <2>3, <2>4, <2>5 DEF IsPath, RuleIndices
<1>8. ASSUME errors = << >>
      PROVE  Clear'
  <2>1. Accounted /\ Acyclic(Black) /\ \A r \in Black : edges[r] \subseteq Black
    BY <1>8 DEF SearchInv, Clear
  <2>2. edges[Node] \subseteq Black
    <3>1. Len(stack) \in 1 .. Len(stack) /\ ~ (Len(stack) < Len(stack))
      BY <1>1
    <3>2. edges[Node] \ Left \subseteq Black
      BY <1>1, <2>1, <3>1 DEF Accounted
    <3>3. QED
      BY <1>1, <3>2
  <2>3. Node \notin Black
    <3>1. Len(stack) \in 1 .. Len(stack)
      BY <1>1
    <3>2. color[Node] = "gray"
      BY <1>1, <3>1 DEF SearchInv, IsPath
    <3>3. QED
      BY <3>2 DEF Black
  <2>4. Black' = Black \cup {Node}
    BY <1>1, <1>3 DEF Black, RuleIndices
  <2>5. Acyclic(Black \cup {Node})
    BY <2>1, <2>2, <2>3, AcyclicGrows
  <2>6. Acyclic(Black)'
    BY <1>1, <2>4, <2>5 DEF Acyclic
  <2>7. Accounted'
    <3> SUFFICES ASSUME NEW i \in 1 .. Len(stack'),
                        NEW r \in edges[stack'[i].rule] \ stack'[i].left
                 PROVE  r \in Black \cup {Node} \/ (i < Len(stack') /\ r = stack'[i + 1].rule)
      BY <1>1, <2>4 DEF Accounted
    <3>1. r \in Black \/ r = stack[i + 1].rule
      BY <1>6, <2>1 DEF Accounted
    <3>2. CASE i + 1 = Len(stack)
      BY <1>1, <3>1, <3>2
    <3>3. CASE i + 1 # Len(stack)
      <4>1. i < Len(stack') /\ i + 1 \in 1 .. Len(stack')
        BY <1>1, <1>2, <3>3
      <4>2. QED
        BY <1>6, <3>1, <4>1
    <3>4. QED
      BY <3>2, <3>3
  <2>8. QED
    BY <1>1, <2>1, <2>2, <2>4, <2>6, <2>7 DEF Clear
<1>9. QED
  BY <1>1, <1>4, <1>7, <1>8 DEF SearchInv, Acyclic, RuleIndices

-----------------------------------------------------------------------------
(* The invariant holds of every step, and with no rule left to search it   *)
(* is what has to be shown.                                                *)
LEMMA SearchStep ==
  SearchInv /\ [SearchNext]_<<edges, search>> => SearchInv'
<1> SUFFICES ASSUME SearchInv, [SearchNext]_<<edges, search>> PROVE SearchInv'
  OBVIOUS
<1>1. CASE UNCHANGED <<edges, search>>
  BY <1>1 DEF search, SearchInv, SearchTypes, GraphShape, RuleIndices, Frames, IsPath, Clear, Accounted,
              Acyclic, Black
<1>2. CASE SearchNext
  BY <1>2, RootKeepsInv, DescendKeepsInv, CloseCycleKeepsInv, SkipKeepsInv, FinishKeepsInv
     DEF SearchNext
<1>3. QED
  BY <1>1, <1>2

LEMMA SearchStart ==
  ASSUME GraphShape, SearchInit
  PROVE  SearchInv
<1>1. SearchTypes
  BY DEF SearchTypes, GraphShape, SearchInit, Colors, RuleIndices
<1>2. Black = {} /\ stack = << >> /\ Len(stack) = 0 /\ errors = << >>
        /\ \A r \in RuleIndices : color[r] # "gray"
  BY DEF SearchInit, Black, RuleIndices
<1>3. QED
  BY <1>1, <1>2 DEF SearchInv, IsPath, Clear, Accounted, Acyclic

LEMMA SearchEnd ==
  ASSUME SearchInv
  PROVE  AcceptsExact
<1> SUFFICES ASSUME Searched PROVE errors = << >> <=> Acyclic(RuleIndices)
  BY DEF AcceptsExact
<1>1. \A r \in RuleIndices : color[r] # "gray" /\ color[r] # "white"
  BY DEF Searched, White, SearchInv, IsPath
<1>2. Black = RuleIndices
  BY <1>1 DEF SearchInv, SearchTypes, Colors, Black
<1>3. QED
  BY <1>2 DEF SearchInv, Clear

(* Of any first-graph, the search accepts exactly one without a cycle: it  *)
(* finds left recursion wherever there is any and nowhere else             *)
(* (check.rs, left_recursion).                                             *)
THEOREM SearchExact == SearchSpec => []AcceptsExact
  BY SearchStart, SearchStep, SearchEnd, PTL DEF SearchSpec

-----------------------------------------------------------------------------
(* Witnesses lead out, whatever the grammar: the proof obligation that the *)
(* checker asserts in debug builds only (witnesses_are_well_founded).      *)

(* What makes `c` a cost of `n`: final parts that are fewer steps from     *)
(* their end, one of an alternation, all of the others.                    *)
Justified(c, n, price, final) ==
  LET d == arena.nodes[n] IN
  /\ d.kind = "alt" =>
       \E i \in DOMAIN d.parts :
         /\ d.parts[i] \in final
         /\ price[d.parts[i]].length = c.length /\ price[d.parts[i]].steps < c.steps
  /\ (d.kind = "concat" \/ d.kind = "ref" \/ (d.kind = "repeat" /\ d.min # 0)) =>
       \A m \in Successors(n) : m \in final /\ price[m].steps < c.steps

KnuthTypes ==
  /\ ArenaShape
  /\ DOMAIN cost = AllNodes /\ \A n \in AllNodes : cost[n].steps \in Nat
  /\ finalized \subseteq AllNodes
  /\ DOMAIN witness = AllNodes
  /\ \A c \in heap : c.steps \in Nat /\ c.node \in AllNodes

HeapJustified == \A c \in heap : Justified(c, c.node, cost, finalized)

KnuthInv == KnuthTypes /\ HeapJustified /\ WitnessLeadsOut

(* A vector of things is finite, and each is named by its place.           *)
LEMMA NumberedFacts ==
  ASSUME NEW S, Numbered(S)
  PROVE  /\ IsFiniteSet(S) /\ Cardinality(S) \in Nat /\ S \subseteq Nat
         /\ \A k \in Nat : k \in S <=> k < Cardinality(S)
<1>1. IsFiniteSet(S) /\ Cardinality(S) \in Nat /\ S = 0 .. Cardinality(S) - 1
  BY FS_CardinalityType DEF Numbered
<1>2. QED
  BY <1>1

-----------------------------------------------------------------------------
(* What the shape of the arena says of one node.                           *)
LEMMA ShapeFacts ==
  ASSUME ArenaShape, NEW n \in AllNodes
  PROVE  LET d == arena.nodes[n] IN
         /\ d.kind \in Kinds /\ Kind(n) = d.kind /\ Parts(n) = d.parts
         /\ d.parts \in Seq(AllNodes)
         /\ d.kind \in {"repeat", "optional"} => Len(d.parts) = 1
         /\ d.kind \in {"char", "num", "prose"} => d.parts = << >>
         /\ d.kind = "repeat" => d.min \in Nat
         /\ d.kind = "ref" => Successors(n) = {arena.body[d.target]}
         /\ d.kind # "ref" => Successors(n) = Children(n)
  BY DEF ArenaShape, WellFormed, NodeShape, AllNodes, Kind, Parts, Successors, Children

(* The arena keeps its shape for as long as it is the same arena.          *)
LEMMA ArenaStays ==
  ASSUME ArenaShape, arena' = arena
  PROVE  ArenaShape' /\ AllRules' = AllRules /\ AllNodes' = AllNodes
<1>1. AllRules' = AllRules /\ AllNodes' = AllNodes
  BY DEF AllRules, AllNodes
<1>2. WellFormed'
  BY DEF ArenaShape, WellFormed, NodeShape
<1>3. Numbered(AllNodes)' /\ Numbered(DOMAIN arena.body)'
  BY <1>1 DEF ArenaShape, Numbered, AllRules
<1>4. (\A n \in AllNodes : \A m \in Children(n) : n < m)'
  BY <1>1 DEF ArenaShape, Children, Parts
<1>5. (MaxU32 \in Nat /\ Cardinality(AllNodes) <= MaxU32)'
  BY <1>1 DEF ArenaShape
<1>6. (MaxU64 \in Nat /\ \A n \in Seeds : Axiom(n) <= MaxU64)'
  BY <1>1 DEF ArenaShape, Seeds, Axiom
<1>7. QED
  BY <1>1, <1>2, <1>3, <1>4, <1>5, <1>6 DEF ArenaShape

(* The parts of a node are finitely many, so one of them takes the most    *)
(* steps.                                                                  *)
LEMMA HighestPart ==
  ASSUME ArenaShape, NEW p \in AllNodes, NEW price,
         \A m \in AllNodes : price[m].steps \in Nat,
         Children(p) # {}
  PROVE  LET S == {price[m].steps : m \in Children(p)}
         IN  Highest(S) \in Nat /\ \A m \in Children(p) : price[m].steps <= Highest(S)
<1> DEFINE S == {price[m].steps : m \in Children(p)}
           parts == Parts(p)
           f == [i \in 1 .. Len(parts) |-> price[parts[i]].steps]
<1>1. /\ parts \in Seq(AllNodes) /\ Len(parts) \in Nat
      /\ Children(p) = {parts[i] : i \in 1 .. Len(parts)}
      /\ \A i \in 1 .. Len(parts) : parts[i] \in AllNodes
  BY ShapeFacts DEF Children
<1>2. \A i \in 1 .. Len(parts) : f[i] = price[parts[i]].steps /\ f[i] \in Nat
  BY <1>1
<1>3. S \in SUBSET Nat /\ S # {} /\ \A s \in S : \E i \in 1 .. Len(parts) : s = f[i]
  BY <1>1, <1>2
<1> HIDE DEF parts, f
<1>4. PICK u \in Nat : \A i \in 1 .. Len(parts) : f[i] <= u
  BY <1>1, <1>2, BoundExists
<1>5. \A s \in S : s <= u
  BY <1>3, <1>4
<1>6. \A m \in Children(p) : price[m].steps \in S
  OBVIOUS
<1> HIDE DEF S
<1>7. \E g \in S : \A s \in S : s <= g
  BY <1>3, <1>5, GreatestExists
<1>8. Highest(S) \in S /\ \A s \in S : s <= Highest(S)
  BY <1>7 DEF Highest
<1>9. QED
  BY <1>3, <1>6, <1>8 DEF S

-----------------------------------------------------------------------------
(* Whatever a node can cost, given what is final, its parts justify.       *)
LEMMA RelaxJustified ==
  ASSUME ArenaShape, NEW p \in AllNodes, Successors(p) # {},
         NEW final \in SUBSET AllNodes, NEW price,
         \A m \in AllNodes : price[m].steps \in Nat,
         NEW r \in Relax(p, price, final)
  PROVE  r.steps \in Nat /\ Justified(r, p, price, final)
<1> DEFINE d == arena.nodes[p]
<1>1. CASE d.kind = "alt"
  <2>1. PICK b \in Children(p) \cap final : r = Cost(price[b].length, price[b].steps + 1)
    BY <1>1 DEF Relax, OneOn
  <2>2. PICK i \in DOMAIN d.parts : d.parts[i] = b
    BY <2>1, ShapeFacts DEF Children
  <2>3. b \in final /\ price[b].steps \in Nat
    BY <2>1
  <2>4. r.length = price[b].length /\ r.steps = price[b].steps + 1
    BY <2>1 DEF Cost
  <2>5. QED
    BY <1>1, <2>2, <2>3, <2>4 DEF Justified
<1>2. CASE d.kind = "concat"
  <2> DEFINE S == {price[m].steps : m \in Children(p)}
  <2>1. Children(p) \subseteq final /\ r = Cost(TotalLength(d.parts, price), Highest(S) + 1)
    BY <1>2 DEF Relax
  <2>2. r.steps = Highest(S) + 1
    BY <2>1 DEF Cost
  <2>3. Successors(p) = Children(p)
    BY <1>2, ShapeFacts
  <2>4. Highest(S) \in Nat /\ \A m \in Children(p) : price[m].steps <= Highest(S)
    BY <2>3, HighestPart
  <2>5. \A m \in Children(p) : price[m].steps \in Nat
    BY <2>1
  <2> HIDE DEF S
  <2>6. QED
    BY <1>2, <2>1, <2>2, <2>3, <2>4, <2>5 DEF Justified
<1>3. CASE d.kind = "repeat" /\ d.min > 0
  <2>1. PICK b \in Children(p) \cap final :
          r = Cost(Saturated(d.min * price[b].length), price[b].steps + 1)
    BY <1>3 DEF Relax
  <2>2. r.steps = price[b].steps + 1 /\ price[b].steps \in Nat
    BY <2>1 DEF Cost
  <2>3. Successors(p) = {b}
    BY <1>3, <2>1, ShapeFacts DEF Children
  <2>4. QED
    BY <1>3, <2>1, <2>2, <2>3 DEF Justified
<1>4. CASE d.kind = "optional" \/ (d.kind = "repeat" /\ d.min = 0)
  <2>1. r = Cost(0, 0)
    BY <1>4 DEF Relax
  <2>2. QED
    BY <1>4, <2>1 DEF Cost, Justified
<1>5. CASE d.kind = "ref"
  <2>1. PICK b \in Successors(p) \cap final : r = Cost(price[b].length, price[b].steps + 1)
    BY <1>5 DEF Relax, OneOn
  <2>2. r.steps = price[b].steps + 1 /\ price[b].steps \in Nat
    BY <2>1 DEF Cost
  <2>3. Successors(p) = {b}
    BY <1>5, <2>1, ShapeFacts
  <2>4. QED
    BY <1>5, <2>1, <2>2, <2>3 DEF Justified
<1>6. d.kind \notin {"char", "num", "prose"}
  BY ShapeFacts DEF Children
<1>7. d.kind = "repeat" => d.min \in Nat
  BY ShapeFacts
<1>8. QED
  BY <1>1, <1>2, <1>3, <1>4, <1>5, <1>6, <1>7, ShapeFacts DEF Kinds

(* The branch a justified alternation chooses is final, and fewer steps    *)
(* from its end.                                                           *)
LEMMA BranchLeadsOut ==
  ASSUME ArenaShape, NEW n \in AllNodes, arena.nodes[n].kind = "alt",
         NEW final \in SUBSET AllNodes, NEW price,
         \A m \in AllNodes : price[m].steps \in Nat,
         price[n].steps \in Nat, Justified(price[n], n, price, final)
  PROVE  LET b == arena.nodes[n].parts[Branch(n, price, final)]
         IN  b \in final /\ price[b].steps < price[n].steps
<1> DEFINE parts == Parts(n)
           able == {i \in DOMAIN parts :
                      parts[i] \in final /\ price[parts[i]].length = price[n].length}
           steps(i) == price[parts[i]].steps
           best == {i \in able : \A j \in able : steps(i) <= steps(j)}
           S == {steps(i) : i \in able}
<1>1. parts = arena.nodes[n].parts /\ DOMAIN parts \in SUBSET Nat
      /\ \A i \in able : steps(i) \in Nat
  BY ShapeFacts
<1>2. PICK k \in able : steps(k) < price[n].steps
  BY <1>1 DEF Justified
<1>3. S \in SUBSET Nat /\ S # {}
  BY <1>1, <1>2
<1>4. PICK low \in S : \A s \in S : low <= s
  <2> HIDE DEF S
  <2> QED BY <1>3, LeastExists
<1>5. best \in SUBSET Nat /\ best # {}
  <2>1. PICK j \in able : steps(j) = low
    BY <1>4
  <2>2. \A i \in able : low <= steps(i)
    BY <1>4
  <2>3. j \in best
    BY <2>1, <2>2
  <2>4. able \in SUBSET Nat
    BY <1>1
  <2>5. QED
    BY <2>3, <2>4
<1>6. Branch(n, price, final) = Lowest(best)
  BY DEF Branch
<1>7. Lowest(best) \in best
  <2> HIDE DEF best
  <2>1. \E i \in best : \A j \in best : i <= j
    BY <1>5, LeastExists
  <2>2. QED
    BY <2>1 DEF Lowest
<1>8. PICK b \in best : b = Branch(n, price, final)
  BY <1>6, <1>7
<1>9. b \in able /\ steps(b) <= steps(k) /\ steps(b) \in Nat /\ steps(k) \in Nat
  BY <1>1, <1>2, <1>8
<1>10. steps(b) < price[n].steps
  BY <1>2, <1>9
<1>11. QED
  BY <1>1, <1>8, <1>9, <1>10

-----------------------------------------------------------------------------
(* What justifies a cost keeps doing so: final costs do not change.        *)
LEMMA StaysJustified ==
  ASSUME NEW c, NEW n, NEW price, NEW final, NEW price2, NEW final2,
         Justified(c, n, price, final), final \subseteq final2,
         \A m \in final : price2[m] = price[m]
  PROVE  Justified(c, n, price2, final2)
  BY DEF Justified

LEMMA FinalizeKeepsInv ==
  ASSUME KnuthInv, Finalize
  PROVE  KnuthInv'
<1>1. PICK c \in heap :
        /\ c.node \notin finalized
        /\ LET n     == c.node
               final == finalized \cup {n}
               price == [cost EXCEPT ![n] = Cost(c.length, c.steps)]
               better(p) == {r \in Relax(p, price, final) : Before(r, price[p])}
               cheaper   == {p \in AllNodes \ final : n \in Successors(p) /\ better(p) # {}}
               now == [p \in cheaper |-> CHOOSE r \in better(p) : TRUE]
           IN  /\ finalized' = final
               /\ witness' = [witness EXCEPT ![n] = Choice(n, price, final)]
               /\ cost' = [p \in AllNodes |-> IF p \in cheaper THEN now[p] ELSE price[p]]
               /\ heap' = (heap \ {c}) \cup {Candidate(now[p], p) : p \in cheaper}
  BY DEF Finalize
<1> DEFINE n     == c.node
           final == finalized \cup {n}
           price == [cost EXCEPT ![n] = Cost(c.length, c.steps)]
           better(p) == {r \in Relax(p, price, final) : Before(r, price[p])}
           cheaper   == {p \in AllNodes \ final : n \in Successors(p) /\ better(p) # {}}
           now == [p \in cheaper |-> CHOOSE r \in better(p) : TRUE]
<1>2. /\ finalized' = final
      /\ witness' = [witness EXCEPT ![n] = Choice(n, price, final)]
      /\ cost' = [p \in AllNodes |-> IF p \in cheaper THEN now[p] ELSE price[p]]
      /\ heap' = (heap \ {c}) \cup {Candidate(now[p], p) : p \in cheaper}
  BY <1>1
<1>3. arena' = arena /\ ArenaShape /\ n \in AllNodes /\ n \notin finalized /\ c.steps \in Nat
      /\ Justified(c, n, cost, finalized)
  BY <1>1 DEF Finalize, KnuthInv, KnuthTypes, HeapJustified
<1>4. /\ DOMAIN price = AllNodes
      /\ price[n].length = c.length /\ price[n].steps = c.steps
      /\ \A m \in AllNodes : m # n => price[m] = cost[m]
      /\ \A m \in AllNodes : price[m].steps \in Nat
  BY <1>3 DEF KnuthInv, KnuthTypes, Cost
<1>5. final \in SUBSET AllNodes /\ n \in final /\ finalized \subseteq final
      /\ cheaper \in SUBSET AllNodes /\ cheaper \cap final = {}
  BY <1>3 DEF KnuthInv, KnuthTypes
<1>6. \A p \in cheaper : now[p] \in Relax(p, price, final) /\ Successors(p) # {}
  OBVIOUS
<1> HIDE DEF price, cheaper, now, better
<1>7. \A m \in finalized : price[m] = cost[m]
  BY <1>3, <1>4 DEF KnuthInv, KnuthTypes
<1>8. \A p \in cheaper : now[p].steps \in Nat /\ Justified(now[p], p, price, final)
  <2> TAKE p \in cheaper
  <2> HIDE DEF final, n
  <2>1. p \in AllNodes /\ now[p] \in Relax(p, price, final) /\ Successors(p) # {}
    BY <1>5, <1>6
  <2>2. QED
    BY <1>3, <1>4, <1>5, <2>1, RelaxJustified
<1>9. /\ DOMAIN cost' = AllNodes
      /\ \A m \in final : cost'[m] = price[m]
      /\ \A m \in AllNodes : cost'[m].steps \in Nat
  BY <1>2, <1>4, <1>5, <1>8
<1>10. \A m \in finalized : cost'[m] = cost[m]
  BY <1>5, <1>7, <1>9
<1>11. \A x \in heap' : /\ x.steps \in Nat /\ x.node \in AllNodes
                        /\ Justified(x, x.node, cost', finalized')
  <2> SUFFICES ASSUME NEW x \in heap'
               PROVE  /\ x.steps \in Nat /\ x.node \in AllNodes
                      /\ Justified(x, x.node, cost', finalized')
    OBVIOUS
  <2>1. CASE x \in heap
    <3>1. x.steps \in Nat /\ x.node \in AllNodes /\ Justified(x, x.node, cost, finalized)
      BY <2>1 DEF KnuthInv, KnuthTypes, HeapJustified
    <3>2. finalized \subseteq finalized'
      BY <1>2, <1>5
    <3>3. QED
      BY <1>10, <3>1, <3>2, StaysJustified
  <2>2. CASE x \notin heap
    <3>1. PICK p \in cheaper : x = Candidate(now[p], p)
      BY <1>2, <2>2
    <3>2. x.node = p /\ x.steps = now[p].steps /\ x.length = now[p].length
      BY <3>1 DEF Candidate
    <3>3. Justified(now[p], p, cost', finalized')
      BY <1>2, <1>8, <1>9, StaysJustified
    <3>4. Justified(x, p, cost', finalized')
      BY <3>2, <3>3 DEF Justified
    <3>5. QED
      BY <1>5, <1>8, <3>2, <3>4
  <2>3. QED
    BY <2>1, <2>2
<1>12. DOMAIN witness' = AllNodes /\ witness'[n] = Choice(n, price, final)
       /\ \A m \in finalized : witness'[m] = witness[m]
  BY <1>2, <1>3 DEF KnuthInv, KnuthTypes
<1>13. KnuthTypes'
  BY <1>2, <1>3, <1>5, <1>9, <1>11, <1>12, ArenaStays DEF KnuthTypes
<1>14. WitnessLeadsOut'
  <2> SUFFICES ASSUME NEW q \in finalized', NEW m \in OnTheWayOut(q)'
               PROVE  m \in finalized' /\ cost'[m].steps < cost'[q].steps
    BY DEF WitnessLeadsOut
  <2>1. CASE q \in finalized
    <3>1. OnTheWayOut(q)' = OnTheWayOut(q)
      BY <1>3, <1>12, <2>1 DEF OnTheWayOut, Successors, Kind, Parts
    <3>2. m \in finalized /\ cost[m].steps < cost[q].steps
      BY <2>1, <3>1 DEF KnuthInv, WitnessLeadsOut
    <3>3. QED
      BY <1>2, <1>10, <2>1, <3>2
  <2>2. CASE q = n
    <3>1. Justified(price[n], n, price, final)
      <4>1. Justified(c, n, price, final)
        BY <1>3, <1>5, <1>7, StaysJustified
      <4>2. QED
        BY <1>4, <4>1 DEF Justified
    <3>2. ASSUME m \in final, price[m].steps < price[n].steps
          PROVE  m \in finalized' /\ cost'[m].steps < cost'[q].steps
      BY <1>2, <1>5, <1>9, <2>2, <3>2
    <3>3. CASE Kind(n) = "alt"
      <4>1. Kind(n) = arena.nodes[n].kind /\ n \in AllNodes
        BY <1>3, ShapeFacts
      <4>2. m = arena.nodes[n].parts[Branch(n, price, final)]
        BY <1>3, <1>12, <2>2, <3>3, <4>1 DEF OnTheWayOut, Choice
      <4>3. m \in final /\ price[m].steps < price[n].steps
        BY <1>3, <1>4, <1>5, <3>1, <3>3, <4>1, <4>2, BranchLeadsOut
      <4>4. QED
        BY <3>2, <4>3
    <3>4. CASE Kind(n) # "alt"
      <4>1. m \in Successors(n)
            /\ Kind(n) # "optional" /\ ~ (Kind(n) = "repeat" /\ arena.nodes[n].min = 0)
        BY <1>3, <2>2, <3>4, ShapeFacts DEF OnTheWayOut, Successors, Kind, Parts
      <4>2. Kind(n) \notin {"char", "num", "prose"}
        BY <1>3, <4>1, ShapeFacts DEF Children
      <4>3. m \in final /\ price[m].steps < price[n].steps
        BY <1>3, <3>1, <3>4, <4>1, <4>2, ShapeFacts DEF Justified, Kinds
      <4>4. QED
        BY <3>2, <4>3
    <3>5. QED
      BY <3>3, <3>4
  <2>3. QED
    BY <1>2, <2>1, <2>2
<1>15. HeapJustified'
  <2>1. \A x \in heap' : Justified(x, x.node, cost', finalized')
    BY <1>11
  <2>2. QED
    BY <1>3, <2>1 DEF HeapJustified, Justified, Successors, Kind, Parts
<1>16. QED
  BY <1>13, <1>14, <1>15 DEF KnuthInv

(* Taking a candidate away, or nothing at all, changes none of this.       *)
LEMMA FewerKeepsInv ==
  ASSUME KnuthInv, heap' \subseteq heap, UNCHANGED <<arena, cost, finalized, witness>>
  PROVE  KnuthInv'
<1>1. KnuthTypes'
  BY ArenaStays DEF KnuthInv, KnuthTypes
<1>2. HeapJustified'
  BY DEF KnuthInv, HeapJustified, Justified, Successors, Kind, Parts
<1>3. WitnessLeadsOut'
  <2>1. \A n : OnTheWayOut(n)' = OnTheWayOut(n)
    BY DEF OnTheWayOut, Successors, Kind, Parts
  <2>2. QED
    BY <2>1 DEF KnuthInv, WitnessLeadsOut
<1>4. QED
  BY <1>1, <1>2, <1>3 DEF KnuthInv

-----------------------------------------------------------------------------
(* Whatever costs something from the start matches without its parts.      *)
LEMMA SeedsJustified ==
  ASSUME ArenaShape, NEW n \in Seeds
  PROVE  Justified(Candidate(Cost(Axiom(n), 0), n), n, cost, {})
<1>1. n \in AllNodes /\ Axiom(n) # None
  BY DEF Seeds
<1>2. arena.nodes[n].kind \notin {"alt", "ref"}
  BY <1>1 DEF Axiom
<1>3. arena.nodes[n].kind = "repeat" => arena.nodes[n].min = 0
  BY <1>1 DEF Axiom
<1>4. arena.nodes[n].kind = "concat" => arena.nodes[n].parts = << >>
  BY <1>1 DEF Axiom
<1>5. arena.nodes[n].kind = "concat" => Successors(n) = {}
  BY <1>1, <1>4, ShapeFacts DEF Children
<1>6. QED
  BY <1>2, <1>3, <1>5 DEF Justified

LEMMA KnuthStart ==
  ASSUME ArenaShape, KnuthInit
  PROVE  KnuthInv
<1>1. finalized = {}
  BY DEF KnuthInit
<1>2. \A c \in heap : /\ c.steps \in Nat /\ c.node \in AllNodes
                      /\ Justified(c, c.node, cost, {})
  <2> SUFFICES ASSUME NEW n \in Seeds, NEW c, c = Candidate(Cost(Axiom(n), 0), n)
               PROVE  /\ c.steps \in Nat /\ c.node \in AllNodes
                      /\ Justified(c, c.node, cost, {})
    BY DEF KnuthInit
  <2>1. c.steps = 0 /\ c.node = n
    BY DEF Candidate, Cost
  <2>2. QED
    BY <2>1, SeedsJustified DEF Seeds
<1>3. DOMAIN cost = AllNodes /\ DOMAIN witness = AllNodes
      /\ \A n \in AllNodes : cost[n].steps \in Nat
  BY DEF KnuthInit, Cost, ArenaShape
<1>4. QED
  BY <1>1, <1>2, <1>3 DEF KnuthInv, KnuthTypes, HeapJustified, WitnessLeadsOut

LEMMA KnuthStep ==
  KnuthInv /\ [KnuthNext]_<<arena, knuth>> => KnuthInv'
<1> SUFFICES ASSUME KnuthInv, [KnuthNext]_<<arena, knuth>> PROVE KnuthInv'
  OBVIOUS
<1>1. CASE UNCHANGED <<arena, knuth>>
  BY <1>1, FewerKeepsInv DEF knuth
<1>2. CASE KnuthNext
  BY <1>2, FinalizeKeepsInv, FewerKeepsInv DEF KnuthNext, Discard
<1>3. QED
  BY <1>1, <1>2

-----------------------------------------------------------------------------
(* The analyses, which take the two in turn.                               *)

(* The search has not begun before there is a first-graph to search.       *)
Inv ==
  /\ ArenaShape
  /\ DOMAIN edges = AllRules
  /\ phase = "nullable" => SearchInit
  /\ SearchInv /\ KnuthInv

(* A first-graph leads from rules to rules.                                *)
LEMMA FirstGraphShape ==
  ASSUME ArenaShape
  PROVE  DOMAIN FirstGraph = AllRules
         /\ AllRules \subseteq Nat /\ FirstGraph \in [AllRules -> SUBSET AllRules]
<1>1. \A nodes : Targets(nodes) \in SUBSET AllRules
  BY DEF Targets
<1>2. QED
  BY <1>1, NumberedFacts DEF FirstGraph, ArenaShape, AllRules

(* What SearchStart says, of the next state.                               *)
LEMMA SearchBegins == GraphShape' /\ SearchInit' => SearchInv'
<1>1. GraphShape /\ SearchInit => SearchInv
  BY SearchStart
<1>2. QED
  BY <1>1, PTL

LEMMA NullableKeepsInv ==
  ASSUME Inv, Nullable
  PROVE  Inv'
<1>1. UNCHANGED <<arena, color, stack, errors, knuth>> /\ SearchInit /\ phase = "nullable"
  BY DEF Nullable, Inv, search
<1>2. ArenaShape' /\ AllRules' = AllRules
  BY <1>1, ArenaStays DEF Inv
<1>3. KnuthInv'
  BY <1>1, KnuthStep DEF Inv, knuth
<1>4. CASE edges' = edges
  <2>1. SearchInit'
    BY <1>1, <1>4 DEF SearchInit
  <2>2. SearchInv'
    BY <1>1, <1>4, SearchStep DEF Inv, search
  <2>3. QED
    BY <1>2, <1>3, <1>4, <2>1, <2>2 DEF Inv
<1>5. CASE phase' = "cycles" /\ edges' = FirstGraph
  <2>1. DOMAIN edges' = AllRules /\ GraphShape'
    BY <1>5, FirstGraphShape, NumberedFacts DEF Inv, ArenaShape, AllRules, GraphShape, RuleIndices
  <2>2. SearchInit'
    BY <1>1, <2>1 DEF SearchInit, Inv
  <2>3. SearchInv'
    BY <2>1, <2>2, SearchBegins
  <2>4. QED
    BY <1>2, <1>3, <1>5, <2>1, <2>3 DEF Inv
<1>6. QED
  BY <1>4, <1>5 DEF Nullable

LEMMA LeftRecursionKeepsInv ==
  ASSUME Inv, LeftRecursion
  PROVE  Inv'
<1>1. UNCHANGED <<arena, knuth>> /\ phase' # "nullable" /\ [SearchNext]_<<edges, search>>
  BY DEF LeftRecursion
<1>2. edges' = edges
  BY <1>1 DEF SearchNext, Root, Descend, CloseCycle, Skip, Finish, Follow
<1>3. ArenaShape' /\ AllRules' = AllRules
  BY <1>1, ArenaStays DEF Inv
<1>4. SearchInv' /\ KnuthInv'
  BY <1>1, SearchStep, KnuthStep DEF Inv
<1>5. QED
  BY <1>1, <1>2, <1>3, <1>4 DEF Inv

LEMMA ShortestMatchesKeepsInv ==
  ASSUME Inv, ShortestMatches
  PROVE  Inv'
<1>1. UNCHANGED <<edges, search>> /\ phase' # "nullable" /\ [KnuthNext]_<<arena, knuth>>
  BY DEF ShortestMatches
<1>2. arena' = arena
  BY <1>1 DEF KnuthNext, Discard, Finalize
<1>3. ArenaShape' /\ AllRules' = AllRules
  BY <1>2, ArenaStays DEF Inv
<1>4. SearchInv' /\ KnuthInv'
  BY <1>1, SearchStep, KnuthStep DEF Inv
<1>5. QED
  BY <1>1, <1>3, <1>4 DEF Inv

LEMMA IdleKeepsInv ==
  ASSUME Inv, UNCHANGED <<arena, edges, search, knuth>>,
         phase' = "nullable" => phase = "nullable"
  PROVE  Inv'
<1>1. ArenaShape' /\ AllRules' = AllRules
  BY ArenaStays DEF Inv
<1>2. SearchInit => SearchInit'
  BY DEF SearchInit, search
<1>3. SearchInv' /\ KnuthInv'
  BY SearchStep, KnuthStep DEF Inv
<1>4. QED
  BY <1>1, <1>2, <1>3 DEF Inv

-----------------------------------------------------------------------------
(* Every step of the analyses keeps it.                                      *)
LEMMA InvStep == Inv /\ [Next]_vars => Inv'
<1> SUFFICES ASSUME Inv, [Next]_vars PROVE Inv'
  OBVIOUS
<1>1. CASE Compatibility
  BY <1>1, IdleKeepsInv DEF Compatibility
<1>2. CASE UNCHANGED vars
  BY <1>2, IdleKeepsInv DEF vars
<1>3. QED
  BY <1>1, <1>2, NullableKeepsInv, LeftRecursionKeepsInv, ShortestMatchesKeepsInv DEF Next

(* The analyses begin with it,                                             *)
LEMMA InvStart == Init => Inv
<1> SUFFICES ASSUME Init PROVE Inv
  OBVIOUS
<1>1. ArenaShape /\ KnuthInit /\ SearchInit /\ edges = [r \in AllRules |-> {}]
  BY DEF Init
<1>2. DOMAIN edges = AllRules /\ GraphShape
  BY <1>1, NumberedFacts DEF GraphShape, RuleIndices, ArenaShape, AllRules
<1>3. QED
  BY <1>1, <1>2, SearchStart, KnuthStart DEF Inv

(* and so have it always.                                                  *)
LEMMA InvAlways == Spec => []Inv
  BY InvStart, InvStep, PTL DEF Spec

(* Whatever the grammar, the checker rejects it for left recursion exactly *)
(* when its first-graph has a cycle (check.rs, left_recursion).            *)
THEOREM CyclesRejected == Spec => []AcceptsExact
  BY InvAlways, SearchEnd, PTL DEF Inv

(* Every step the generator takes when its depth budget is spent leads to a*)
(* node that matches something and is fewer steps from its end, whatever   *)
(* the grammar: what witnesses_are_well_founded asserts, in debug builds   *)
(* only (check.rs, min_len and witnesses_are_well_founded).                *)
THEOREM WitnessesLeadOut == Spec => []WitnessLeadsOut
  BY InvAlways, PTL DEF Inv, KnuthInv

-----------------------------------------------------------------------------
(* What is reported is a cycle, told from its lowest rule on.              *)

(* A cycle turned: what stood at `f` comes first, what stood before it last.*)
LEMMA Turned ==
  ASSUME NEW X, NEW c \in Seq(X), NEW f \in 1 .. Len(c),
         NEW t, t = SubSeq(c, f, Len(c)) \o SubSeq(c, 1, f - 1)
  PROVE  /\ t \in Seq(X) /\ Len(t) = Len(c)
         /\ \A k \in 1 .. Len(c) - f + 1 : t[k] = c[f + k - 1]
         /\ \A k \in Len(c) - f + 2 .. Len(c) : t[k] = c[k - (Len(c) - f + 1)]
<1> DEFINE m == Len(c)
           a == SubSeq(c, f, m)
           b == SubSeq(c, 1, f - 1)
<1>1. m \in Nat /\ m > 0 /\ f \in Nat /\ f >= 1 /\ f <= m /\ f - 1 \in Nat
        /\ \A i \in 1 .. m : c[i] \in X
  OBVIOUS
<1>2. a \in Seq(X) /\ Len(a) = m - f + 1 /\ \A i \in 1 .. m - f + 1 : a[i] = c[f + i - 1]
  <2>1. \A i \in f .. m : c[i] \in X
    BY <1>1
  <2> HIDE DEF m
  <2>2. QED
    BY <1>1, <2>1, SubSeqProperties
<1>3. b \in Seq(X) /\ Len(b) = f - 1 /\ \A i \in 1 .. f - 1 : b[i] = c[i]
  <2>1. \A i \in 1 .. f - 1 : c[i] \in X
    BY <1>1
  <2> DEFINE e == f - 1
  <2>2. e \in Nat /\ \A i \in 1 .. e : c[i] \in X
    BY <1>1, <2>1
  <2> HIDE DEF e
  <2>3. SubSeq(c, 1, e) \in Seq(X) /\ Len(SubSeq(c, 1, e)) = e
          /\ \A i \in 1 .. e : SubSeq(c, 1, e)[i] = c[i]
    <3>1. /\ SubSeq(c, 1, e) \in Seq(X)
          /\ Len(SubSeq(c, 1, e)) = IF 1 <= e THEN e - 1 + 1 ELSE 0
          /\ \A i \in 1 .. e - 1 + 1 : SubSeq(c, 1, e)[i] = c[1 + i - 1]
      BY <2>2, SubSeqProperties
    <3>2. QED
      BY <2>2, <3>1
  <2>4. QED
    BY <2>3 DEF e
<1> HIDE DEF a, b, m
<1>4. /\ t = a \o b /\ t \in Seq(X) /\ Len(t) = Len(a) + Len(b)
      /\ \A i \in 1 .. Len(a) + Len(b) : t[i] = IF i <= Len(a) THEN a[i] ELSE b[i - Len(a)]
  <2>1. t = a \o b
    BY DEF a, b, m
  <2>2. /\ a \o b \in Seq(X) /\ Len(a \o b) = Len(a) + Len(b)
        /\ \A i \in 1 .. Len(a) + Len(b) :
              (a \o b)[i] = IF i <= Len(a) THEN a[i] ELSE b[i - Len(a)]
    BY <1>2, <1>3, ConcatProperties
  <2>3. QED
    BY <2>1, <2>2
<1>5. Len(t) = m
  BY <1>1, <1>2, <1>3, <1>4
<1>6. ASSUME NEW k \in 1 .. m - f + 1 PROVE t[k] = c[f + k - 1]
  <2>1. k \in 1 .. Len(a) + Len(b) /\ k <= Len(a)
    BY <1>1, <1>2, <1>3
  <2>2. t[k] = a[k]
    BY <1>4, <2>1
  <2>3. QED
    BY <1>2, <2>2
<1>7. ASSUME NEW k \in m - f + 2 .. m PROVE t[k] = c[k - (m - f + 1)]
  <2>1. k \in 1 .. Len(a) + Len(b) /\ ~ (k <= Len(a)) /\ k - Len(a) \in 1 .. f - 1
    BY <1>1, <1>2, <1>3
  <2>2. t[k] = b[k - Len(a)]
    BY <1>4, <2>1
  <2>3. QED
    BY <1>2, <1>3, <2>1, <2>2
<1>8. QED
  BY <1>4, <1>5, <1>6, <1>7 DEF m

(* In a list of numbers one is the lowest.                                 *)
LEMMA LowestPlace ==
  ASSUME NEW m \in Nat, m > 0, NEW c, \A i \in 1 .. m : c[i] \in Nat
  PROVE  \E i \in 1 .. m : \A j \in 1 .. m : c[i] <= c[j]
<1> DEFINE S == {c[i] : i \in 1 .. m}
<1>1. S \in SUBSET Nat
  OBVIOUS
<1>2. 1 \in 1 .. m /\ c[1] \in S
  OBVIOUS
<1>3. PICK s \in S : \A u \in S : s <= u
  <2> HIDE DEF S
  <2> QED BY <1>1, <1>2, LeastExists
<1>4. PICK i \in 1 .. m : s = c[i]
  OBVIOUS
<1>5. \A j \in 1 .. m : c[j] \in S
  OBVIOUS
<1>6. QED
  <2> HIDE DEF S
  <2> QED BY <1>3, <1>4, <1>5

(* A closed path of different rules is a cycle wherever it is told from,   *)
(* and the normal form is told from its lowest rule.                       *)
LEMMA NormalizeFacts ==
  ASSUME GraphShape, NEW cycle \in Seq(RuleIndices), cycle # << >>,
         \A i, j \in 1 .. Len(cycle) : cycle[i] = cycle[j] => i = j,
         \A i \in 1 .. Len(cycle) - 1 : cycle[i + 1] \in edges[cycle[i]],
         cycle[1] \in edges[cycle[Len(cycle)]]
  PROVE  /\ NormalizeCycle(cycle) \in Seq(RuleIndices)
         /\ IsCycle(NormalizeCycle(cycle))
         /\ \A j \in DOMAIN NormalizeCycle(cycle) :
              /\ NormalizeCycle(cycle)[1] <= NormalizeCycle(cycle)[j]
              /\ \E i \in 1 .. Len(cycle) : NormalizeCycle(cycle)[j] = cycle[i]
<1> DEFINE m == Len(cycle)
           first == CHOOSE i \in DOMAIN cycle : \A j \in DOMAIN cycle : cycle[i] <= cycle[j]
           t == NormalizeCycle(cycle)
<1>1. DOMAIN cycle = 1 .. m /\ m \in Nat /\ m > 0
        /\ \A i \in 1 .. m : cycle[i] \in RuleIndices
  OBVIOUS
<1>2. \E i \in DOMAIN cycle : \A j \in DOMAIN cycle : cycle[i] <= cycle[j]
  <2>1. \A i \in 1 .. m : cycle[i] \in Nat
    BY <1>1 DEF GraphShape
  <2> HIDE DEF m
  <2>2. QED
    BY <1>1, <2>1, LowestPlace
<1>3. first \in 1 .. m /\ \A j \in 1 .. m : cycle[first] <= cycle[j]
  BY <1>1, <1>2
<1>4. t = SubSeq(cycle, first, Len(cycle)) \o SubSeq(cycle, 1, first - 1)
  BY DEF NormalizeCycle
<1> HIDE DEF first, t
<1>5. /\ t \in Seq(RuleIndices) /\ Len(t) = m
      /\ \A k \in 1 .. m - first + 1 : t[k] = cycle[first + k - 1]
      /\ \A k \in m - first + 2 .. m : t[k] = cycle[k - (m - first + 1)]
  BY <1>3, <1>4, Turned
<1> HIDE DEF m
<1> DEFINE at(k) == IF k <= m - first + 1 THEN first + k - 1 ELSE k - (m - first + 1)
<1>6. \A k \in 1 .. m : at(k) \in 1 .. m /\ t[k] = cycle[at(k)]
  <2> TAKE k \in 1 .. m
  <2>1. CASE k <= m - first + 1
    <3>1. k \in 1 .. m - first + 1 /\ at(k) = first + k - 1 /\ at(k) \in 1 .. m
      BY <1>1, <1>3, <2>1
    <3>2. QED
      BY <1>5, <3>1
  <2>2. CASE ~ (k <= m - first + 1)
    <3>1. k \in m - first + 2 .. m /\ at(k) = k - (m - first + 1) /\ at(k) \in 1 .. m
      BY <1>1, <1>3, <2>2
    <3>2. QED
      BY <1>5, <3>1
  <2>3. QED
    BY <2>1, <2>2
<1>7. \A k, l \in 1 .. m : at(k) = at(l) => k = l
  BY <1>1, <1>3
<1>8. \A k \in 1 .. m : at(IF k = m THEN 1 ELSE k + 1) = IF at(k) = m THEN 1 ELSE at(k) + 1
  BY <1>1, <1>3
<1>9. at(1) = first
  BY <1>1, <1>3
<1> HIDE DEF at
<1>10. DOMAIN t = 1 .. m /\ t # << >>
  BY <1>1, <1>5
<1>11. IsInjective(t)
  <2> SUFFICES ASSUME NEW k \in 1 .. m, NEW l \in 1 .. m, t[k] = t[l] PROVE k = l
    BY <1>10 DEF IsInjective
  <2>1. at(k) = at(l)
    BY <1>6 DEF m
  <2>2. QED
    BY <1>7, <2>1
<1>12. ASSUME NEW k \in 1 .. m PROVE t[(k % Len(t)) + 1] \in edges[t[k]]
  <2>1. (k % Len(t)) + 1 = IF k = m THEN 1 ELSE k + 1
    BY <1>1, <1>5, RoundTheCycle
  <2>2. (IF k = m THEN 1 ELSE k + 1) \in 1 .. m
    BY <1>1
  <2>3. t[(k % Len(t)) + 1] = cycle[IF at(k) = m THEN 1 ELSE at(k) + 1]
    BY <1>6, <1>8, <2>1, <2>2
  <2>4. at(k) \in 1 .. m /\ t[k] = cycle[at(k)]
    BY <1>6
  <2>5. CASE at(k) = m
    BY <2>3, <2>4, <2>5 DEF m
  <2>6. CASE at(k) # m
    <3>1. at(k) \in 1 .. m - 1
      BY <1>1, <2>4, <2>6
    <3>2. cycle[at(k) + 1] \in edges[cycle[at(k)]]
      BY <3>1 DEF m
    <3>3. QED
      BY <2>3, <2>4, <2>6, <3>2
  <2>7. QED
    BY <2>5, <2>6
<1>13. IsCycle(t)
  BY <1>10, <1>11, <1>12 DEF IsCycle
<1>14. \A j \in 1 .. m : t[1] <= t[j] /\ \E i \in 1 .. m : t[j] = cycle[i]
  <2>1. 1 \in 1 .. m /\ t[1] = cycle[first]
    BY <1>1, <1>6, <1>9
  <2>2. QED
    BY <1>3, <1>6, <2>1
<1>15. QED
  BY <1>5, <1>10, <1>13, <1>14 DEF t, m

(* The cycle reported when the search meets a rule of its path: the rules   *)
(* from there to the end of the path, and a cycle told from its lowest.     *)
LEMMA CycleFacts ==
  ASSUME SearchInv, Edge("gray"),
         NEW k \in 1 .. Len(stack), stack[k].rule = Earliest(Left)
  PROVE  LET c == Cycle(Earliest(Left)) IN
         /\ c \in Seq(RuleIndices) /\ IsCycle(c)
         /\ \A j \in DOMAIN c : /\ c[1] <= c[j]
                               /\ \E i \in k .. Len(stack) : c[j] = stack[i].rule
<1> DEFINE next == Earliest(Left)
           start == CHOOSE i \in DOMAIN Path : Path[i] = next
           cycle == SubSeq(Path, start, Len(Path))
           n == Len(stack)
<1>1. /\ next \in RuleIndices /\ next \in edges[Node] /\ Node = stack[n].rule
      /\ n \in Nat /\ n > 0 /\ DOMAIN stack = 1 .. n
  BY EdgeFacts, TopFacts DEF SearchInv, SearchTypes
<1>2. /\ Path \in Seq(RuleIndices) /\ Len(Path) = n /\ DOMAIN Path = 1 .. n
      /\ \A i \in 1 .. n : Path[i] = stack[i].rule
  <2>1. \A i \in 1 .. n : stack[i] \in Frames
    BY DEF SearchInv, SearchTypes
  <2>2. Path = [i \in 1 .. n |-> stack[i].rule]
          /\ \A i \in 1 .. n : stack[i].rule \in RuleIndices
    BY <1>1, <2>1 DEF Path, Frames
  <2>3. QED
    BY <1>1, <2>2
<1>3. start = k
  <2>1. \A i, j \in 1 .. n : stack[i].rule = stack[j].rule => i = j
    BY DEF SearchInv, IsPath
  <2>2. k \in DOMAIN Path /\ Path[k] = next /\ \A i \in DOMAIN Path : Path[i] = next => i = k
    BY <1>2, <2>1
  <2>3. QED
    BY <2>2
<1>4. /\ GraphShape
      /\ \A i \in 1 .. n - 1 : stack[i + 1].rule \in edges[stack[i].rule]
      /\ \A i, j \in 1 .. n : stack[i].rule = stack[j].rule => i = j
      /\ stack[k].rule = next /\ k \in 1 .. n
  BY DEF SearchInv, SearchTypes, IsPath
<1> DEFINE m == n - k + 1
<1>5. /\ cycle \in Seq(RuleIndices) /\ Len(cycle) = m
      /\ \A i \in 1 .. m : cycle[i] = Path[k + i - 1]
  <2>1. \A i \in k .. n : Path[i] \in RuleIndices
    BY <1>2
  <2> HIDE DEF start, n
  <2>2. QED
    BY <1>1, <1>2, <1>3, <1>4, <2>1, SubSeqProperties
<1>6. Cycle(next) = NormalizeCycle(cycle)
  BY DEF Cycle
<1> HIDE DEF next, start, cycle, n
<1>7. \A i \in 1 .. m : k + i - 1 \in 1 .. n /\ cycle[i] = stack[k + i - 1].rule
  BY <1>1, <1>2, <1>4, <1>5
<1>8. m \in Nat /\ m > 0 /\ k + m - 1 = n /\ 1 \in 1 .. m /\ m \in 1 .. m
  BY <1>1, <1>4
<1> HIDE DEF m
<1>9. \A i, j \in 1 .. Len(cycle) : cycle[i] = cycle[j] => i = j
  <2> SUFFICES ASSUME NEW i \in 1 .. m, NEW j \in 1 .. m, cycle[i] = cycle[j] PROVE i = j
    BY <1>5
  <2>1. k + i - 1 \in 1 .. n /\ k + j - 1 \in 1 .. n
          /\ stack[k + i - 1].rule = stack[k + j - 1].rule
    BY <1>7
  <2>2. \A x, y \in 1 .. n : stack[x].rule = stack[y].rule => x = y
    BY <1>4
  <2>3. k + i - 1 = k + j - 1
    BY <2>1, <2>2
  <2>4. QED
    BY <1>4, <2>3
<1>10. \A i \in 1 .. Len(cycle) - 1 : cycle[i + 1] \in edges[cycle[i]]
  <2> SUFFICES ASSUME NEW i \in 1 .. m - 1 PROVE cycle[i + 1] \in edges[cycle[i]]
    BY <1>5
  <2>1. i \in 1 .. m /\ i + 1 \in 1 .. m /\ k + (i + 1) - 1 = (k + i - 1) + 1
          /\ k + i - 1 \in 1 .. n - 1
    BY <1>1, <1>4, <1>8
  <2>2. cycle[i] = stack[k + i - 1].rule /\ cycle[i + 1] = stack[(k + i - 1) + 1].rule
    BY <1>7, <2>1
  <2>3. QED
    BY <1>4, <2>1, <2>2
<1>11. cycle # << >> /\ cycle[1] \in edges[cycle[Len(cycle)]]
  <2>1. cycle[1] = next /\ cycle[m] = Node
    BY <1>1, <1>4, <1>7, <1>8
  <2>2. QED
    BY <1>1, <1>5, <1>8, <2>1
<1>12. /\ NormalizeCycle(cycle) \in Seq(RuleIndices)
       /\ IsCycle(NormalizeCycle(cycle))
       /\ \A j \in DOMAIN NormalizeCycle(cycle) :
            /\ NormalizeCycle(cycle)[1] <= NormalizeCycle(cycle)[j]
            /\ \E i \in 1 .. Len(cycle) : NormalizeCycle(cycle)[j] = cycle[i]
  BY <1>4, <1>5, <1>9, <1>10, <1>11, NormalizeFacts
<1>13. \A i \in 1 .. m : \E l \in k .. n : cycle[i] = stack[l].rule
  <2> TAKE i \in 1 .. m
  <2>1. k + i - 1 \in k .. n
    BY <1>1, <1>4, <1>7
  <2>2. QED
    BY <1>7, <2>1
<1>14. QED
  BY <1>5, <1>6, <1>12, <1>13 DEF next, n

(* What is reported stays, and no cycle is reported twice.                 *)
LEMMA ReportsStep ==
  ASSUME SearchInv, ReportsAreCycles, SearchNext
  PROVE  ReportsAreCycles'
<1>1. edges' = edges /\ errors \in Seq(Seq(RuleIndices))
  BY DEF SearchNext, Root, Descend, CloseCycle, Skip, Finish, Follow, SearchInv, SearchTypes
<1>2. CASE errors' = errors
  BY <1>1, <1>2 DEF ReportsAreCycles, IsCycle
<1>3. CASE errors' # errors
  <2> DEFINE c == Cycle(Earliest(Left))
  <2>1. /\ Edge("gray") /\ ~Contains(errors, c) /\ errors' = Append(errors, c)
    BY <1>3 DEF SearchNext, Root, Descend, CloseCycle, Skip, Finish, Follow
  <2>2. PICK k \in 1 .. Len(stack) : stack[k].rule = Earliest(Left)
    BY <2>1, EdgeFacts DEF SearchInv, IsPath
  <2>3. c \in Seq(RuleIndices) /\ IsCycle(c) /\ \A j \in DOMAIN c : c[1] <= c[j]
    BY <2>1, <2>2, CycleFacts
  <2> HIDE DEF c
  <2>4. /\ Len(errors') = Len(errors) + 1 /\ errors'[Len(errors) + 1] = c
        /\ \A i \in 1 .. Len(errors) : errors'[i] = errors[i]
        /\ DOMAIN errors' = 1 .. Len(errors) + 1
        /\ Len(errors) \in Nat /\ DOMAIN errors = 1 .. Len(errors)
    BY <1>1, <2>1, <2>3
  <2>5. \A i \in 1 .. Len(errors) : errors[i] # c
    BY <2>1 DEF Contains
  <2>6. \A i \in DOMAIN errors' : i \in 1 .. Len(errors) \/ i = Len(errors) + 1
    BY <2>4
  <2>7. \A i \in DOMAIN errors' :
          IsCycle(errors'[i]) /\ \A j \in DOMAIN errors'[i] : errors'[i][1] <= errors'[i][j]
    BY <2>3, <2>4, <2>6 DEF ReportsAreCycles
  <2>8. IsInjective(errors')
    BY <2>4, <2>5, <2>6 DEF ReportsAreCycles, IsInjective
  <2>9. QED
    BY <1>1, <2>7, <2>8 DEF ReportsAreCycles, IsCycle
<1>4. QED
  BY <1>2, <1>3

-----------------------------------------------------------------------------
(* No knot is missed.                                                      *)

(* The rules a rule leads to are what its edges grow to.                   *)
LEMMA OnwardIsHull ==
  ASSUME GraphShape, NEW r \in RuleIndices
  PROVE  Onward(r) = Hull(edges[r], edges, RuleIndices)
<1> DEFINE P(g) == g = [S \in SUBSET RuleIndices |->
                          LET T == S \cup UNION {edges[s] : s \in S} IN IF T = S THEN S ELSE g[T]]
           G == CHOOSE g : P(g)
           h == [S \in SUBSET RuleIndices |-> Hull(S, edges, RuleIndices)]
<1>1. IsFiniteSet(RuleIndices) /\ edges \in [RuleIndices -> SUBSET RuleIndices]
  BY DEF GraphShape
<1>2. Onward(r) = G[edges[r]]
  BY DEF Onward
<1>3. P(h)
  <2>1. Grows(h, edges, RuleIndices)
    BY <1>1, HullIsGrown
  <2>2. QED
    BY <2>1 DEF Grows
<1>4. P(G)
  <2> HIDE DEF P, h
  <2> QED BY <1>3
<1>5. Grows(G, edges, RuleIndices)
  <2> HIDE DEF G
  <2> QED BY <1>4 DEF Grows
<1>6. edges[r] \in SUBSET RuleIndices
  BY <1>1
<1> HIDE DEF G
<1>7. QED
  BY <1>1, <1>2, <1>5, <1>6, GrownIsHull

(* What leads where: the edges of a rule, theirs, and so on.               *)
LEMMA OnwardFacts ==
  ASSUME GraphShape, NEW r \in RuleIndices
  PROVE  /\ Onward(r) \in SUBSET RuleIndices /\ edges[r] \subseteq Onward(r)
         /\ \A s \in Onward(r) : edges[s] \subseteq Onward(r) /\ Onward(s) \subseteq Onward(r)
<1>1. /\ edges \in [RuleIndices -> SUBSET RuleIndices]
      /\ \A s \in RuleIndices : Onward(s) = Hull(edges[s], edges, RuleIndices)
  BY OnwardIsHull DEF GraphShape
<1>2. /\ Onward(r) \in SUBSET RuleIndices /\ edges[r] \subseteq Onward(r)
      /\ \A s \in Onward(r) :
           edges[s] \subseteq Onward(r) /\ Hull(edges[s], edges, RuleIndices) \subseteq Onward(r)
  BY <1>1, AheadFacts
<1>3. QED
  BY <1>1, <1>2

(* Of a rule that leads back to itself, some edge leads to one that does.  *)
LEMMA OnwardRound ==
  ASSUME GraphShape, NEW r \in RuleIndices, NEW t \in Onward(r), r \in Onward(t)
  PROVE  \E s \in edges[t] : s \in Onward(r) /\ r \in Onward(s)
<1>1. /\ edges \in [RuleIndices -> SUBSET RuleIndices]
      /\ \A s \in RuleIndices : Onward(s) = Hull(edges[s], edges, RuleIndices)
  BY OnwardIsHull DEF GraphShape
<1>2. t \in RuleIndices /\ Onward(r) \in SUBSET RuleIndices
  BY OnwardFacts
<1>3. \E s \in edges[t] : s \in Hull(edges[r], edges, RuleIndices)
                       /\ r \in Hull(edges[s], edges, RuleIndices)
  BY <1>1, <1>2, RoundAndRound
<1>4. QED
  BY <1>1, <1>2, <1>3

(* A rule is told if it is tangled with the first rule of a report.        *)
Told(r) == \E i \in DOMAIN errors : errors[i][1] \in Onward(r) /\ r \in Onward(errors[i][1])

(* A rule that is not told is one the search has found no way back to: an  *)
(* edge taken from it led to a rule it is through with, or on along the    *)
(* path; and what it is through with has no cycle of untold rules.         *)
KnotInv ==
  /\ \A i \in 1 .. Len(stack) : \A r \in edges[stack[i].rule] \ stack[i].left :
       r \in Black \/ Told(stack[i].rule) \/ (i < Len(stack) /\ r = stack[i + 1].rule)
  /\ \A r \in Black : Told(r) \/ edges[r] \subseteq Black
  /\ \A T \in SUBSET Black : T # {} => \E r \in T : Told(r) \/ edges[r] \cap T = {}

(* What leads back and forth to a told rule is told.                       *)
LEMMA ToldSpreads ==
  ASSUME SearchTypes, NEW r \in RuleIndices, NEW s \in Onward(r), r \in Onward(s), Told(s)
  PROVE  Told(r)
<1>1. PICK i \in DOMAIN errors : errors[i][1] \in Onward(s) /\ s \in Onward(errors[i][1])
  BY DEF Told
<1>2. GraphShape /\ s \in RuleIndices /\ Onward(s) \subseteq Onward(r)
  BY OnwardFacts DEF SearchTypes
<1>3. errors[i][1] \in RuleIndices
  BY <1>1, <1>2, OnwardFacts
<1>4. Onward(s) \subseteq Onward(errors[i][1])
  BY <1>1, <1>2, <1>3, OnwardFacts
<1>5. QED
  BY <1>1, <1>2, <1>4 DEF Told

(* At the end every knot is told: of one that were not, no rule would be   *)
(* without an edge to another.                                             *)
LEMMA KnotsEnd ==
  ASSUME SearchInv, KnotInv
  PROVE  EveryKnotReported
<1> SUFFICES ASSUME Searched, NEW r \in RuleIndices, r \in Onward(r) PROVE Told(r)
  BY DEF EveryKnotReported, Told
<1> DEFINE T == {s \in Onward(r) : r \in Onward(s)}
<1>1. Black = RuleIndices
  BY DEF SearchInv, SearchTypes, IsPath, Searched, White, Black, Colors
<1>2. T \in SUBSET RuleIndices /\ T # {}
  BY OnwardFacts DEF SearchInv, SearchTypes
<1>3. \A s \in T : edges[s] \cap T # {}
  BY OnwardRound DEF SearchInv, SearchTypes
<1>4. PICK s \in T : Told(s)
  <2> HIDE DEF T
  <2> QED BY <1>1, <1>2, <1>3 DEF KnotInv
<1>5. QED
  BY <1>2, <1>4, ToldSpreads DEF SearchInv

(* Reports are never withdrawn, so what is told stays told.                *)
LEMMA ToldStays ==
  ASSUME SearchTypes, SearchNext
  PROVE  edges' = edges /\ \A r : Told(r) => Told(r)'
<1>1. edges' = edges /\ errors \in Seq(Seq(RuleIndices))
  BY DEF SearchNext, Root, Descend, CloseCycle, Skip, Finish, Follow, SearchTypes
<1>2. \A r : Onward(r)' = Onward(r)
  BY <1>1 DEF Onward, RuleIndices
<1>3. \A i \in DOMAIN errors : i \in DOMAIN errors' /\ errors'[i] = errors[i]
  <2>1. errors' = errors \/ \E c : errors' = Append(errors, c)
    BY DEF SearchNext, Root, Descend, CloseCycle, Skip, Finish, Follow
  <2>2. ASSUME NEW c, errors' = Append(errors, c)
        PROVE  \A i \in DOMAIN errors : i \in DOMAIN errors' /\ errors'[i] = errors[i]
    BY <1>1, <2>2
  <2>3. QED
    BY <2>1, <2>2
<1>4. QED
  BY <1>1, <1>2, <1>3 DEF Told

(* The rules of the path lead on to the later ones.                        *)
LEMMA PathLeads ==
  ASSUME SearchTypes, IsPath, NEW i \in 1 .. Len(stack), NEW j \in i + 1 .. Len(stack)
  PROVE  stack[j].rule \in Onward(stack[i].rule)
<1> DEFINE C == Onward(stack[i].rule)
           Bad == {l \in i + 1 .. Len(stack) : stack[l].rule \notin C}
<1>1. GraphShape /\ stack[i].rule \in RuleIndices /\ Len(stack) \in Nat
  <2>1. stack[i] \in Frames
    BY DEF SearchTypes
  <2>2. QED
    BY <2>1 DEF SearchTypes, Frames
<1>2. edges[stack[i].rule] \subseteq C /\ \A s \in C : edges[s] \subseteq C
  BY <1>1, OnwardFacts
<1>3. \A l \in 1 .. Len(stack) - 1 : stack[l + 1].rule \in edges[stack[l].rule]
  BY DEF IsPath
<1> HIDE DEF C
<1>4. ASSUME Bad # {} PROVE FALSE
  <2>1. Bad \in SUBSET Nat
    BY <1>1
  <2>2. PICK l \in Bad : \A m \in Bad : l <= m
    <3> HIDE DEF Bad
    <3> QED BY <1>4, <2>1, LeastExists
  <2>3. l \in i + 1 .. Len(stack) /\ stack[l].rule \notin C
    OBVIOUS
  <2>4. l - 1 \in 1 .. Len(stack) - 1 /\ (l - 1) + 1 = l
    BY <1>1, <2>3
  <2>5. stack[l].rule \in edges[stack[l - 1].rule]
    BY <1>3, <2>4
  <2>6. l - 1 # i
    BY <1>2, <2>3, <2>5
  <2>7. l - 1 \in i + 1 .. Len(stack) /\ ~ (l <= l - 1)
    BY <1>1, <2>3, <2>6
  <2>8. l - 1 \notin Bad
    <3> HIDE DEF Bad
    <3> QED BY <2>2, <2>7
  <2>9. stack[l - 1].rule \in C
    BY <2>7, <2>8
  <2>10. QED
    BY <1>2, <2>3, <2>5, <2>9
<1>5. QED
  BY <1>4 DEF C

(* The rule a cycle is closed from is told.                                *)
LEMMA ClosingTells ==
  ASSUME SearchInv, CloseCycle
  PROVE  \A r : r = Node => Told(r)'
<1> DEFINE next == Earliest(Left)
           n == Len(stack)
           c == Cycle(next)
<1>1. /\ stack # << >> /\ next \in edges[Node] /\ next \in RuleIndices /\ color[next] = "gray"
      /\ n \in Nat /\ n > 0 /\ Node = stack[n].rule /\ Edge("gray") /\ Node \in RuleIndices
      /\ SearchTypes /\ IsPath /\ GraphShape
  BY EdgeFacts, TopFacts DEF SearchInv, CloseCycle, SearchTypes
<1>2. PICK k \in 1 .. n : stack[k].rule = next
  BY <1>1 DEF IsPath
<1>3. /\ c \in Seq(RuleIndices) /\ IsCycle(c)
      /\ \A j \in DOMAIN c : \E i \in k .. n : c[j] = stack[i].rule
  BY <1>1, <1>2, CycleFacts
<1>4. c # << >> /\ 1 \in DOMAIN c
  BY <1>3 DEF IsCycle
<1>5. PICK l \in k .. n : c[1] = stack[l].rule
  BY <1>3, <1>4
<1>6. \E i \in DOMAIN errors' : errors'[i] = c
  <2>1. errors \in Seq(Seq(RuleIndices))
        /\ errors' = IF Contains(errors, c) THEN errors ELSE Append(errors, c)
    BY DEF CloseCycle, SearchInv, SearchTypes
  <2> HIDE DEF c
  <2>2. CASE Contains(errors, c)
    BY <2>1, <2>2 DEF Contains
  <2>3. CASE ~Contains(errors, c)
    <3>1. errors' = Append(errors, c)
      BY <2>1, <2>3
    <3>2. DOMAIN errors' = 1 .. Len(errors) + 1 /\ errors'[Len(errors) + 1] = c
          /\ Len(errors) \in Nat
      BY <1>3, <2>1, <3>1
    <3>3. QED
      BY <3>2
  <2>4. QED
    BY <2>2, <2>3
<1>7. next \in Onward(Node) /\ Onward(next) \subseteq Onward(Node)
  BY <1>1, OnwardFacts
<1> HIDE DEF next, c
<1>8. \A i \in k + 1 .. n : stack[i].rule \in Onward(next)
  BY <1>1, <1>2, PathLeads
<1>9. stack[l].rule \in Onward(Node)
  <2>1. l = k \/ l \in k + 1 .. n
    BY <1>1
  <2>2. QED
    BY <1>2, <1>7, <1>8, <2>1
<1>10. Node \in Onward(stack[l].rule)
  <2>1. CASE l = n
    BY <1>1, <1>9, <2>1
  <2>2. CASE l # n
    <3>1. l \in 1 .. n /\ n \in l + 1 .. n
      BY <1>1, <2>2
    <3>2. QED
      BY <1>1, <3>1, PathLeads
  <2>3. QED
    BY <2>1, <2>2
<1>11. edges' = edges
  BY DEF CloseCycle
<1>12. \A r : Onward(r)' = Onward(r)
  BY <1>11 DEF Onward, RuleIndices
<1>13. \E i \in DOMAIN errors' : errors'[i][1] \in Onward(Node) /\ Node \in Onward(errors'[i][1])
  BY <1>5, <1>6, <1>9, <1>10
<1>14. QED
  BY <1>12, <1>13 DEF Told

(* An edge taken at the top of the stack, with the rest as it was.         *)
LEMMA TakenKeepsKnots ==
  ASSUME SearchInv, KnotInv, SearchNext, stack # << >>, NEW next \in RuleIndices,
         stack' = Taken(next), Black' = Black,
         next \in Black \/ \A r : r = Node => Told(r)'
  PROVE  KnotInv'
<1> DEFINE n == Len(stack)
<1>1. edges' = edges /\ \A r : Told(r) => Told(r)'
  BY ToldStays DEF SearchInv
<1>2. /\ Len(stack') = n /\ n \in Nat /\ n > 0 /\ Node = stack[n].rule /\ Left = stack[n].left
      /\ \A i \in 1 .. n : stack'[i].rule = stack[i].rule
      /\ \A i \in 1 .. n - 1 : stack'[i] = stack[i]
      /\ stack'[n].left = Left \ {next}
  BY TakenFacts, TopFacts DEF SearchInv
<1>3. \A i \in 1 .. n : \A r \in edges[stack[i].rule] \ stack[i].left :
        r \in Black \/ Told(stack[i].rule) \/ (i < n /\ r = stack[i + 1].rule)
  BY DEF KnotInv
<1> HIDE DEF n
<1>4. ASSUME NEW i \in 1 .. n, NEW r \in edges[stack'[i].rule] \ stack'[i].left
      PROVE  \/ r \in Black \/ (i < n /\ r = stack'[i + 1].rule)
             \/ \A q : q = stack'[i].rule => Told(q)'
  <2>1. CASE i = n
    <3>1. stack'[i].rule = Node /\ (r = next \/ r \in edges[stack[n].rule] \ stack[n].left)
      BY <1>2, <1>4, <2>1
    <3>2. CASE r = next
      BY <3>1, <3>2
    <3>3. CASE r \in edges[stack[n].rule] \ stack[n].left
      <4>1. n \in 1 .. n /\ ~ (n < n)
        BY <1>2
      <4>2. r \in Black \/ Told(stack[n].rule)
        BY <1>3, <3>3, <4>1
      <4>3. \A q : q = stack[n].rule /\ Told(q) => Told(q)'
        BY <1>1
      <4>4. Told(stack[n].rule) => \A q : q = stack[n].rule => Told(q)
        OBVIOUS
      <4>5. QED
        BY <1>2, <2>1, <4>2, <4>3, <4>4
    <3>4. QED
      BY <3>1, <3>2, <3>3
  <2>2. CASE i # n
    <3>1. i \in 1 .. n - 1 /\ i + 1 \in 1 .. n /\ i < n
      BY <1>2, <2>2
    <3>2. stack'[i] = stack[i] /\ stack'[i + 1].rule = stack[i + 1].rule
      BY <1>2, <3>1
    <3>3. r \in Black \/ Told(stack[i].rule) \/ r = stack[i + 1].rule
      BY <1>3, <3>2
    <3>4. Told(stack[i].rule) => \A q : q = stack[i].rule => Told(q)
      OBVIOUS
    <3>5. QED
      BY <1>1, <3>1, <3>2, <3>3, <3>4
  <2>3. QED
    BY <2>1, <2>2
<1>5. \A i \in 1 .. Len(stack') : \A r \in edges'[stack'[i].rule] \ stack'[i].left :
        r \in Black' \/ Told(stack[i].rule)' \/ (i < Len(stack') /\ r = stack'[i + 1].rule)
  <2> SUFFICES ASSUME NEW i \in 1 .. n, NEW r \in edges[stack'[i].rule] \ stack'[i].left
               PROVE  r \in Black \/ Told(stack[i].rule)' \/ (i < n /\ r = stack'[i + 1].rule)
    BY <1>1, <1>2
  <2>1. (\A q : q = stack'[i].rule => Told(q)') => Told(stack[i].rule)'
    BY DEF Told
  <2>2. QED
    BY <1>4, <2>1
<1>6. \A r \in Black : Told(r)' \/ edges[r] \subseteq Black
  BY <1>1 DEF KnotInv
<1>7. \A T \in SUBSET Black : T # {} => \E r \in T : Told(r)' \/ edges[r] \cap T = {}
  <2> TAKE T \in SUBSET Black
  <2> HAVE T # {}
  <2>1. PICK r \in T : Told(r) \/ edges[r] \cap T = {}
    BY DEF KnotInv
  <2>2. QED
    BY <1>1, <2>1
<1>8. QED
  BY <1>1, <1>5, <1>6, <1>7 DEF KnotInv

(* A rule entered by an edge, or as a root, has all its edges still to take.*)
LEMMA EnteringKeepsKnots ==
  ASSUME SearchInv, KnotInv, Root \/ Descend
  PROVE  KnotInv'
<1>1. edges' = edges /\ \A r : Told(r) => Told(r)'
  BY ToldStays DEF SearchInv, SearchNext
<1>2. Black' = Black
  <2>1. \E r \in White : Follow(r)
    <3>1. CASE Root
      <4>1. White \in SUBSET Nat /\ White # {}
        BY <3>1 DEF SearchInv, SearchTypes, GraphShape, Root, White
      <4>2. QED
        BY <3>1, <4>1, EarliestExists DEF Root
    <3>2. CASE Descend
      BY <3>2, EdgeFacts DEF Descend, SearchInv, White
    <3>3. QED
      BY <3>1, <3>2
  <2>2. QED
    BY <2>1, FollowFacts DEF SearchInv
<1>3. \A r \in Black : Told(r)' \/ edges[r] \subseteq Black
  BY <1>1 DEF KnotInv
<1>4. \A T \in SUBSET Black : T # {} => \E r \in T : Told(r)' \/ edges[r] \cap T = {}
  <2> TAKE T \in SUBSET Black
  <2> HAVE T # {}
  <2>1. PICK r \in T : Told(r) \/ edges[r] \cap T = {}
    BY DEF KnotInv
  <2>2. QED
    BY <1>1, <2>1
<1>5. ASSUME NEW i \in 1 .. Len(stack'), NEW r \in edges[stack'[i].rule] \ stack'[i].left
      PROVE  \/ r \in Black \/ (i < Len(stack') /\ r = stack'[i + 1].rule)
             \/ \A q : q = stack'[i].rule => Told(q)'
  <2>1. CASE Root
    <3>1. PICK q : stack' = <<[rule |-> q, left |-> edges[q]]>>
      BY <2>1 DEF Root
    <3>2. i = 1 /\ stack'[i].rule = q /\ stack'[i].left = edges[q]
      BY <3>1
    <3>3. QED
      BY <1>5, <3>2
  <2>2. CASE Descend
    <3> DEFINE next == Earliest(Left)
               s == Taken(next)
               n == Len(stack)
               f == [rule |-> next, left |-> edges[next]]
    <3>1. /\ stack # << >> /\ next \in RuleIndices
      BY <2>2, EdgeFacts DEF SearchInv, Descend
    <3>2. /\ s \in Seq(Frames) /\ Len(s) = n /\ n \in Nat /\ n > 0
          /\ Node = stack[n].rule /\ Left = stack[n].left
          /\ \A j \in 1 .. n : s[j].rule = stack[j].rule
          /\ \A j \in 1 .. n - 1 : s[j] = stack[j]
          /\ s[n].left = Left \ {next}
      BY <3>1, TakenFacts, TopFacts DEF SearchInv
    <3>3. f \in Frames /\ f.rule = next /\ f.left = edges[next]
      BY <3>1 DEF SearchInv, SearchTypes, GraphShape, Frames
    <3>4. stack' = Append(s, f)
      BY <2>2 DEF Descend
    <3> HIDE DEF s, f, next
    <3>5. /\ Len(stack') = n + 1 /\ stack'[n + 1] = f
          /\ \A j \in 1 .. n : stack'[j] = s[j]
      BY <3>2, <3>3, <3>4, PushStack
    <3>6. \A j \in 1 .. n : \A q \in edges[stack[j].rule] \ stack[j].left :
            q \in Black \/ Told(stack[j].rule) \/ (j < n /\ q = stack[j + 1].rule)
      BY DEF KnotInv
    <3> HIDE DEF n
    <3>7. CASE i = n + 1
      BY <1>5, <3>3, <3>5, <3>7
    <3>8. CASE i = n
      <4>1. n \in 1 .. n /\ n + 1 = i + 1 /\ i < Len(stack') /\ stack'[n] = s[n] /\ ~ (n < n)
        BY <3>2, <3>5, <3>8
      <4>2. CASE r = next
        BY <3>3, <3>5, <4>1, <4>2
      <4>3. CASE r # next
        <5>1. r \in edges[stack[n].rule] \ stack[n].left
          BY <1>5, <3>2, <3>8, <4>1, <4>3
        <5>2. r \in Black \/ Told(stack[n].rule)
          BY <3>6, <4>1, <5>1
        <5>3. stack'[i].rule = stack[n].rule
          BY <3>2, <3>8, <4>1
        <5>4. Told(stack[n].rule) => \A q : q = stack[n].rule => Told(q)
          OBVIOUS
        <5>5. QED
          BY <1>1, <5>2, <5>3, <5>4
      <4>4. QED
        BY <4>2, <4>3
    <3>9. CASE i \in 1 .. n - 1
      <4>1. /\ i \in 1 .. n /\ i + 1 \in 1 .. n /\ i < Len(stack')
            /\ stack'[i] = stack[i] /\ stack'[i + 1].rule = stack[i + 1].rule
        BY <3>2, <3>5, <3>9
      <4>2. r \in Black \/ Told(stack[i].rule) \/ r = stack[i + 1].rule
        BY <1>5, <3>6, <4>1
      <4>3. Told(stack[i].rule) => \A q : q = stack[i].rule => Told(q)
        OBVIOUS
      <4>4. QED
        BY <1>1, <4>1, <4>2, <4>3
    <3>10. QED
      BY <3>2, <3>5, <3>7, <3>8, <3>9
  <2>3. QED
    BY <2>1, <2>2
<1>6. \A i \in 1 .. Len(stack') : \A r \in edges'[stack'[i].rule] \ stack'[i].left :
        r \in Black' \/ Told(stack[i].rule)' \/ (i < Len(stack') /\ r = stack'[i + 1].rule)
  <2> SUFFICES ASSUME NEW i \in 1 .. Len(stack'), NEW r \in edges[stack'[i].rule] \ stack'[i].left
               PROVE  \/ r \in Black \/ Told(stack[i].rule)'
                      \/ (i < Len(stack') /\ r = stack'[i + 1].rule)
    BY <1>1, <1>2
  <2>1. (\A q : q = stack'[i].rule => Told(q)') => Told(stack[i].rule)'
    BY DEF Told
  <2>2. QED
    BY <1>5, <2>1
<1>7. QED
  BY <1>1, <1>2, <1>3, <1>4, <1>6 DEF KnotInv

(* The rule left is black now.  Unless it is told, its edges lead to rules *)
(* that were black before it.                                              *)
LEMMA FinishKeepsKnots ==
  ASSUME SearchInv, KnotInv, Finish
  PROVE  KnotInv'
<1> DEFINE n == Len(stack)
<1>1. edges' = edges /\ \A r : Told(r) => Told(r)'
  BY ToldStays DEF SearchInv, SearchNext
<1>2. /\ stack # << >> /\ Left = {} /\ n \in Nat /\ n > 0
      /\ Node \in RuleIndices /\ Node = stack[n].rule /\ Left = stack[n].left
      /\ n \in 1 .. n /\ ~ (n < n)
  BY TopFacts DEF SearchInv, Finish
<1>3. /\ Len(stack') = n - 1 /\ \A i \in 1 .. n - 1 : stack'[i] = stack[i]
  BY <1>2, PopStack DEF SearchInv, SearchTypes, Finish, Front
<1>4. Black' = Black \cup {Node} /\ Node \notin Black
  <2>1. /\ color' \in [RuleIndices -> Colors] /\ color'[Node] = "black"
        /\ \A r \in RuleIndices : r # Node => color'[r] = color[r]
    BY <1>2 DEF SearchInv, SearchTypes, Finish, Colors
  <2>2. color[Node] = "gray"
    BY <1>2 DEF SearchInv, IsPath
  <2>3. QED
    BY <1>1, <1>2, <2>1, <2>2 DEF Black, RuleIndices
<1>5. \A i \in 1 .. n : \A r \in edges[stack[i].rule] \ stack[i].left :
        r \in Black \/ Told(stack[i].rule) \/ (i < n /\ r = stack[i + 1].rule)
  BY DEF KnotInv
<1> HIDE DEF n
<1> DEFINE v == Node
<1>6. Told(v) \/ edges[v] \subseteq Black
  BY <1>2, <1>5
<1>7. PICK u : u = v
  OBVIOUS
<1>8. Told(u) \/ edges[u] \subseteq Black
  BY <1>6, <1>7
<1>9. Black' = Black \cup {u} /\ u \notin Black
  BY <1>4, <1>7
<1> HIDE DEF v
<1>10. \A r \in Black \cup {u} : Told(r)' \/ edges[r] \subseteq Black \cup {u}
  BY <1>1, <1>8 DEF KnotInv
<1>11. ASSUME NEW T \in SUBSET (Black \cup {u}), T # {}
       PROVE  \E r \in T : Told(r) \/ edges[r] \cap T = {}
  <2>1. CASE T \cap Black = {}
    <3>1. T = {u}
      BY <1>11, <2>1
    <3>2. QED
      BY <1>8, <1>9, <3>1
  <2>2. CASE T \cap Black # {}
    <3>1. PICK r \in T \cap Black : Told(r) \/ edges[r] \cap (T \cap Black) = {}
      BY <2>2 DEF KnotInv
    <3>2. Told(r) \/ edges[r] \subseteq Black
      BY DEF KnotInv
    <3>3. QED
      BY <3>1, <3>2
  <2>3. QED
    BY <2>1, <2>2
<1>12. \A i \in 1 .. Len(stack') : \A r \in edges'[stack'[i].rule] \ stack'[i].left :
         r \in Black' \/ Told(stack[i].rule)' \/ (i < Len(stack') /\ r = stack'[i + 1].rule)
  <2> SUFFICES ASSUME NEW i \in 1 .. n - 1, NEW r \in edges[stack'[i].rule] \ stack'[i].left
               PROVE  \/ r \in Black \cup {u} \/ Told(stack[i].rule)'
                      \/ (i < n - 1 /\ r = stack'[i + 1].rule)
    BY <1>1, <1>3, <1>9
  <2>1. (\A q : q = stack'[i].rule => Told(q)') => Told(stack[i].rule)'
    BY DEF Told
  <2>2. i \in 1 .. n /\ i < n /\ stack'[i] = stack[i]
    BY <1>2, <1>3
  <2>3. r \in Black \/ Told(stack[i].rule) \/ r = stack[i + 1].rule
    BY <1>5, <2>2
  <2>4. Told(stack[i].rule) => \A q : q = stack[i].rule => Told(q)
    OBVIOUS
  <2>5. CASE r = stack[i + 1].rule /\ i + 1 = n
    BY <1>2, <1>7, <2>5 DEF v
  <2>6. CASE r = stack[i + 1].rule /\ i + 1 # n
    <3>1. i < n - 1 /\ i + 1 \in 1 .. n - 1
      BY <1>2, <2>6
    <3>2. QED
      BY <1>3, <2>6, <3>1
  <2>7. QED
    BY <1>1, <2>1, <2>2, <2>3, <2>4, <2>5, <2>6
<1>13. \A T \in SUBSET Black' : T # {} => \E r \in T : Told(r)' \/ edges'[r] \cap T = {}
  <2> SUFFICES ASSUME NEW T \in SUBSET (Black \cup {u}), T # {}
               PROVE  \E r \in T : Told(r)' \/ edges[r] \cap T = {}
    BY <1>1, <1>9
  <2>1. PICK r \in T : Told(r) \/ edges[r] \cap T = {}
    BY <1>11
  <2>2. QED
    BY <1>1, <2>1
<1>14. QED
  BY <1>1, <1>9, <1>10, <1>12, <1>13 DEF KnotInv

(* Every step of the search keeps this.                                    *)
LEMMA KnotStep ==
  ASSUME SearchInv, KnotInv, SearchNext
  PROVE  KnotInv'
<1>1. CASE CloseCycle
  <2>1. /\ stack # << >> /\ Earliest(Left) \in RuleIndices
        /\ stack' = Taken(Earliest(Left)) /\ Black' = Black
    BY <1>1, EdgeFacts DEF SearchInv, CloseCycle, Black, RuleIndices
  <2>2. \A r : r = Node => Told(r)'
    BY <1>1, ClosingTells
  <2>3. QED
    BY <2>1, <2>2, TakenKeepsKnots
<1>2. CASE Skip
  <2>1. /\ stack # << >> /\ Earliest(Left) \in RuleIndices /\ Earliest(Left) \in Black
        /\ stack' = Taken(Earliest(Left)) /\ Black' = Black
    BY <1>2, EdgeFacts DEF SearchInv, Skip, Black, RuleIndices
  <2>2. QED
    BY <2>1, TakenKeepsKnots
<1>3. QED
  BY <1>1, <1>2, EnteringKeepsKnots, FinishKeepsKnots DEF SearchNext

(* What the search has told so far.                                        *)
TellInv == ReportsAreCycles /\ KnotInv

(* So it is before the search,                                             *)
LEMMA TellStart ==
  ASSUME SearchInit
  PROVE  TellInv
<1>1. errors = << >> /\ stack = << >> /\ Black = {}
  BY DEF SearchInit, Black, RuleIndices
<1>2. DOMAIN errors = {} /\ 1 .. Len(stack) = {}
  BY <1>1
<1>3. ReportsAreCycles
  BY <1>2 DEF ReportsAreCycles, IsInjective
<1>4. KnotInv
  BY <1>1, <1>2 DEF KnotInv
<1>5. QED
  BY <1>3, <1>4 DEF TellInv

(* while it rests,                                                         *)
LEMMA TellIdle ==
  ASSUME TellInv, UNCHANGED <<edges, search>>
  PROVE  TellInv'
<1>1. /\ edges' = edges /\ color' = color /\ stack' = stack /\ errors' = errors
  BY DEF search
<1>2. ReportsAreCycles'
  BY <1>1 DEF TellInv, ReportsAreCycles, IsCycle
<1>3. \A r : Told(r)' <=> Told(r)
  BY <1>1 DEF Told, Onward, RuleIndices
<1>4. KnotInv'
  <2>1. Black' = Black
    BY <1>1 DEF Black, RuleIndices
  <2>2. \A i : Told(stack[i].rule)' <=> Told(stack[i].rule)
    BY <1>1 DEF Told, Onward, RuleIndices
  <2>3. /\ \A i \in 1 .. Len(stack) : \A r \in edges[stack[i].rule] \ stack[i].left :
             r \in Black \/ Told(stack[i].rule)' \/ (i < Len(stack) /\ r = stack[i + 1].rule)
        /\ \A r \in Black : Told(r)' \/ edges[r] \subseteq Black
        /\ \A T \in SUBSET Black : T # {} => \E r \in T : Told(r)' \/ edges[r] \cap T = {}
    <3>1. /\ \A i \in 1 .. Len(stack) : \A r \in edges[stack[i].rule] \ stack[i].left :
             r \in Black \/ Told(stack[i].rule) \/ (i < Len(stack) /\ r = stack[i + 1].rule)
          /\ \A r \in Black : Told(r) \/ edges[r] \subseteq Black
          /\ \A T \in SUBSET Black : T # {} => \E r \in T : Told(r) \/ edges[r] \cap T = {}
      BY DEF TellInv, KnotInv
    <3>2. QED
      BY <1>3, <2>2, <3>1
  <2>4. QED
    BY <1>1, <2>1, <2>3 DEF KnotInv
<1>5. QED
  BY <1>2, <1>4 DEF TellInv

(* and at every step;                                                      *)
LEMMA TellStep ==
  SearchInv /\ TellInv /\ [SearchNext]_<<edges, search>> => TellInv'
<1> SUFFICES ASSUME SearchInv, TellInv, [SearchNext]_<<edges, search>> PROVE TellInv'
  OBVIOUS
<1>1. CASE UNCHANGED <<edges, search>>
  BY <1>1, TellIdle
<1>2. CASE SearchNext
  BY <1>2, ReportsStep, KnotStep DEF TellInv
<1>3. QED
  BY <1>1, <1>2

(* and at the end it says what the search tells.                           *)
LEMMA TellEnd == SearchInv /\ TellInv => ReportsAreCycles /\ EveryKnotReported
  BY KnotsEnd DEF TellInv

(* Of any first-graph: what the search for left recursion reports are      *)
(* cycles, each told once and from its lowest rule (check.rs,              *)
(* left_recursion and normalize_cycle), and when it is through every rule  *)
(* that leads back to itself is tangled with one that a report names.      *)
THEOREM SearchTells == SearchSpec => [](ReportsAreCycles /\ EveryKnotReported)
<1>1. GraphShape /\ SearchInit => SearchInv /\ TellInv
  BY SearchStart, TellStart
<1>2. SearchInv /\ TellInv /\ [SearchNext]_<<edges, search>> => SearchInv' /\ TellInv'
  BY SearchStep, TellStep
<1>3. QED
  BY <1>1, <1>2, TellEnd, PTL DEF SearchSpec

-----------------------------------------------------------------------------
(* What SearchStart and TellStart say, of the next state.                  *)
LEMMA TellBegins == SearchInit' => TellInv'
<1>1. SearchInit => TellInv
  BY TellStart
<1>2. QED
  BY <1>1, PTL

(* The search is a part of the analyses, and says so there, too.           *)
LEMMA TellAlways == Spec => []TellInv
<1>1. Init => TellInv
  BY TellStart DEF Init
<1>2. Inv /\ TellInv /\ [Next]_vars => TellInv'
  <2> SUFFICES ASSUME Inv, TellInv, [Next]_vars PROVE TellInv'
    OBVIOUS
  <2>1. CASE UNCHANGED <<edges, search>>
    BY <2>1, TellIdle
  <2>2. CASE Nullable /\ edges' # edges
    <3>1. SearchInit /\ UNCHANGED <<arena, color, stack, errors>> /\ edges' = FirstGraph
      BY <2>2 DEF Nullable, Inv, search
    <3>2. DOMAIN edges' = DOMAIN edges
      BY <3>1, FirstGraphShape DEF Inv
    <3>3. SearchInit'
      BY <3>1, <3>2 DEF SearchInit
    <3>4. QED
      BY <3>3, TellBegins
  <2>3. CASE LeftRecursion
    <3>1. [SearchNext]_<<edges, search>>
      BY <2>3 DEF LeftRecursion
    <3>2. QED
      BY <3>1, TellStep DEF Inv
  <2>4. UNCHANGED <<edges, search>> \/ (Nullable /\ edges' # edges) \/ LeftRecursion
    BY DEF Next, vars, Nullable, ShortestMatches, Compatibility
  <2>5. QED
    BY <2>1, <2>2, <2>3, <2>4
<1>3. QED
  BY <1>1, <1>2, InvAlways, PTL DEF Spec

(* Whatever the grammar, each report of left recursion is a cycle of its   *)
(* first-graph, told from the lowest rule, and no cycle is told twice.     *)
THEOREM ReportsSound == Spec => []ReportsAreCycles
  BY InvAlways, TellAlways, TellEnd, PTL DEF Inv

(* Whatever the grammar, left recursion never goes without a word: a rule  *)
(* that leads back to itself is named, or tangled with the first rule of a *)
(* report.  (That each such rule is named, as the comment of               *)
(* left_recursion has it, is not so.)                                      *)
THEOREM KnotsReported == Spec => []EveryKnotReported
  BY InvAlways, TellAlways, TellEnd, PTL DEF Inv

-----------------------------------------------------------------------------
(* What a walk reaches.                                                    *)

(* The steps of the closures the analyses take.                            *)
InsideStep == [n \in AllNodes |-> IF IsNever(n) THEN {} ELSE Children(n)]
WalkStep == [n \in AllNodes |-> Reachable(n)]

(* Steps lead from nodes to nodes.                                         *)
LEMMA StepTypes ==
  ASSUME ArenaShape
  PROVE  /\ InsideStep \in [AllNodes -> SUBSET AllNodes]
         /\ WalkStep \in [AllNodes -> SUBSET AllNodes]
         /\ \A n \in AllNodes : Children(n) \in SUBSET AllNodes /\ Successors(n) \in SUBSET AllNodes
         /\ \A r \in AllRules : arena.body[r] \in AllNodes
         /\ \A n \in AllNodes : Kind(n) = "ref" => /\ arena.nodes[n].target \in AllRules
                                                 /\ Children(n) = {}
<1>1. \A n \in AllNodes : Children(n) \in SUBSET AllNodes
  <2> TAKE n \in AllNodes
  <2>1. Parts(n) \in Seq(AllNodes)
    BY ShapeFacts
  <2>2. QED
    BY <2>1 DEF Children
<1>2. \A r \in AllRules : arena.body[r] \in AllNodes
  BY DEF ArenaShape, WellFormed, AllRules, AllNodes
<1>3. \A n \in AllNodes : Kind(n) = "ref" => /\ arena.nodes[n].target \in AllRules
                                            /\ Children(n) = {}
  BY DEF ArenaShape, WellFormed, NodeShape, AllRules, AllNodes, Kind, Children, Parts
<1>4. \A n \in AllNodes : Successors(n) \in SUBSET AllNodes
  BY <1>1, <1>2, <1>3 DEF Successors, Children
<1>5. InsideStep \in [AllNodes -> SUBSET AllNodes]
  BY <1>1 DEF InsideStep
<1>6. WalkStep \in [AllNodes -> SUBSET AllNodes]
  BY <1>4 DEF WalkStep, Reachable
<1>7. QED
  BY <1>1, <1>2, <1>3, <1>4, <1>5, <1>6

(* What Inside computes, growing a set until it stops, is the least set    *)
(* closed under its steps.                                                 *)
LEMMA InsideIsHull ==
  ASSUME ArenaShape, NEW r \in AllRules
  PROVE  Inside(r) = Hull({arena.body[r]}, InsideStep, AllNodes)
<1> DEFINE P(g) == g = [S \in SUBSET AllNodes |->
                          LET T == S \cup UNION {IF IsNever(n) THEN {} ELSE Children(n) : n \in S}
                          IN  IF T = S THEN S ELSE g[T]]
           G == CHOOSE g : P(g)
           h == [S \in SUBSET AllNodes |-> Hull(S, InsideStep, AllNodes)]
<1>1. IsFiniteSet(AllNodes) /\ InsideStep \in [AllNodes -> SUBSET AllNodes]
        /\ {arena.body[r]} \in SUBSET AllNodes
  BY StepTypes, NumberedFacts DEF ArenaShape
<1>2. Inside(r) = G[{arena.body[r]}]
  BY DEF Inside, Closure
<1>3. \A S \in SUBSET AllNodes :
        UNION {InsideStep[s] : s \in S} = UNION {IF IsNever(n) THEN {} ELSE Children(n) : n \in S}
  BY DEF InsideStep
<1>4. P(h)
  <2>1. Grows(h, InsideStep, AllNodes)
    BY <1>1, HullIsGrown
  <2>2. QED
    BY <1>3, <2>1 DEF Grows
<1>5. P(G)
  <2> HIDE DEF P, h
  <2> QED BY <1>4
<1>6. Grows(G, InsideStep, AllNodes)
  <2> HIDE DEF G
  <2> QED BY <1>3, <1>5 DEF Grows
<1> HIDE DEF G
<1>7. QED
  BY <1>1, <1>2, <1>6, GrownIsHull

(* The nodes met on walks from the start of a rule.                        *)
Met(r) == Closure({arena.body[r]}, Reachable)

(* So it is with what a walk meets.                                        *)
LEMMA MetIsHull ==
  ASSUME ArenaShape, NEW from \in SUBSET AllNodes
  PROVE  Closure(from, Reachable) = Hull(from, WalkStep, AllNodes)
<1> DEFINE P(g) == g = [S \in SUBSET AllNodes |->
                          LET T == S \cup UNION {Reachable(n) : n \in S}
                          IN  IF T = S THEN S ELSE g[T]]
           G == CHOOSE g : P(g)
           h == [S \in SUBSET AllNodes |-> Hull(S, WalkStep, AllNodes)]
<1>1. IsFiniteSet(AllNodes) /\ WalkStep \in [AllNodes -> SUBSET AllNodes]
  BY StepTypes, NumberedFacts DEF ArenaShape
<1>2. Closure(from, Reachable) = G[from]
  BY DEF Closure
<1>3. \A S \in SUBSET AllNodes : UNION {WalkStep[s] : s \in S} = UNION {Reachable(n) : n \in S}
  BY DEF WalkStep
<1>4. P(h)
  <2>1. Grows(h, WalkStep, AllNodes)
    BY <1>1, HullIsGrown
  <2>2. QED
    BY <1>3, <2>1 DEF Grows
<1>5. P(G)
  <2> HIDE DEF P, h
  <2> QED BY <1>4
<1>6. Grows(G, WalkStep, AllNodes)
  <2> HIDE DEF G
  <2> QED BY <1>3, <1>5 DEF Grows
<1> HIDE DEF G
<1>7. QED
  BY <1>1, <1>2, <1>6, GrownIsHull

(* A walk within a rule goes where a walk goes, and on from a reference to *)
(* the rule it names.                                                      *)
LEMMA InsideFacts ==
  ASSUME ArenaShape, NEW r \in AllRules
  PROVE  /\ Inside(r) \in SUBSET AllNodes /\ arena.body[r] \in Inside(r)
         /\ \A n \in Inside(r) : ~IsNever(n) => Children(n) \subseteq Inside(r)
         /\ References(r) \in SUBSET AllRules
         /\ \A n \in Inside(r) : Kind(n) = "ref" => arena.nodes[n].target \in References(r)
<1>1. /\ Inside(r) = Hull({arena.body[r]}, InsideStep, AllNodes)
      /\ InsideStep \in [AllNodes -> SUBSET AllNodes] /\ {arena.body[r]} \in SUBSET AllNodes
  BY InsideIsHull, StepTypes
<1>2. /\ Inside(r) \in SUBSET AllNodes /\ arena.body[r] \in Inside(r)
      /\ Closed(Inside(r), InsideStep)
  BY <1>1, HullFacts
<1>3. \A n \in Inside(r) : ~IsNever(n) => Children(n) \subseteq Inside(r)
  <2> TAKE n \in Inside(r)
  <2>1. InsideStep[n] = IF IsNever(n) THEN {} ELSE Children(n)
    BY <1>2 DEF InsideStep
  <2>2. InsideStep[n] \subseteq Inside(r)
    BY <1>2 DEF Closed
  <2>3. QED
    BY <2>1, <2>2
<1>4. References(r) \in SUBSET AllRules
  BY DEF References, Targets
<1>5. \A n \in Inside(r) : Kind(n) = "ref" => arena.nodes[n].target \in References(r)
  BY <1>2, StepTypes DEF References, Targets
<1>6. QED
  BY <1>2, <1>3, <1>4, <1>5

(* A walk meets the body of the rule and where that leads, and nothing     *)
(* else.                                                                   *)
LEMMA MetFacts ==
  ASSUME ArenaShape, NEW r \in AllRules
  PROVE  /\ Met(r) \in SUBSET AllNodes /\ arena.body[r] \in Met(r)
         /\ \A n \in Met(r) : Reachable(n) \subseteq Met(r)
         /\ \A C \in SUBSET AllNodes :
              arena.body[r] \in C /\ (\A n \in C : Reachable(n) \subseteq C) => Met(r) \subseteq C
<1>1. /\ Met(r) = Hull({arena.body[r]}, WalkStep, AllNodes)
      /\ WalkStep \in [AllNodes -> SUBSET AllNodes] /\ {arena.body[r]} \in SUBSET AllNodes
  BY MetIsHull, StepTypes DEF Met
<1>2. /\ Met(r) \in SUBSET AllNodes /\ arena.body[r] \in Met(r)
      /\ Closed(Met(r), WalkStep)
      /\ \A C \in SUBSET AllNodes : arena.body[r] \in C /\ Closed(C, WalkStep) => Met(r) \subseteq C
  BY <1>1, HullFacts
<1>3. \A C \in SUBSET AllNodes : Closed(C, WalkStep) <=> \A n \in C : Reachable(n) \subseteq C
  BY DEF Closed, WalkStep
<1>4. QED
  BY <1>2, <1>3

(* A reference is no repetition.                                           *)
LEMMA RefIsMet ==
  ASSUME ArenaShape, NEW n \in AllNodes, Kind(n) = "ref"
  PROVE  Reachable(n) = {arena.body[arena.nodes[n].target]} /\ ~IsNever(n)
  BY DEF Reachable, Successors, IsNever

(* A walk meets what is inside, and whatever is met from a rule referred to*)
(* there.                                                                  *)
LEMMA InsideIsMet ==
  ASSUME ArenaShape, NEW r \in AllRules
  PROVE  /\ Inside(r) \subseteq Met(r)
         /\ \A s \in References(r) : Met(s) \subseteq Met(r)
<1>1. /\ InsideStep \in [AllNodes -> SUBSET AllNodes] /\ {arena.body[r]} \in SUBSET AllNodes
      /\ Inside(r) = Hull({arena.body[r]}, InsideStep, AllNodes)
      /\ \A n \in AllNodes : Kind(n) = "ref" => Children(n) = {}
  BY InsideIsHull, StepTypes
<1>2. \A n \in Met(r) : InsideStep[n] \subseteq Met(r)
  <2> TAKE n \in Met(r)
  <2>1. n \in AllNodes /\ Reachable(n) \subseteq Met(r)
    BY MetFacts
  <2>2. InsideStep[n] \subseteq Reachable(n)
    BY <1>1, <2>1, ShapeFacts DEF InsideStep, Reachable, Successors, Children
  <2>3. QED
    BY <2>1, <2>2
<1>3. Inside(r) \subseteq Met(r)
  BY <1>1, <1>2, HullFacts, MetFacts DEF Closed
<1>4. ASSUME NEW s \in References(r) PROVE Met(s) \subseteq Met(r)
  <2>1. PICK n \in Inside(r) : s \in AllRules /\ Kind(n) = "ref" /\ arena.nodes[n].target = s
    BY DEF References, Targets
  <2>2. n \in Met(r) /\ n \in AllNodes
    BY <1>3, <2>1, MetFacts
  <2>3. arena.body[s] \in Met(r)
    BY <2>1, <2>2, RefIsMet, MetFacts
  <2>4. QED
    BY <2>1, <2>3, MetFacts
<1>5. QED
  BY <1>3, <1>4

-----------------------------------------------------------------------------
(* What the sweeps over the rules come to.                                 *)

Answers == [AllRules -> AllNodes \cup {None}]
Heard(r, f) == {s \in References(r) : f[s] # None}

(* One rule of a sweep.                                                    *)
Pass(f, r) ==
  IF f[r] = None /\ Heard(r, f) # {} THEN [f EXCEPT ![r] = f[Lowest(Heard(r, f))]] ELSE f

(* An answer is a node of `Bad` the rule can meet; a rule without one holds*)
(* none itself.                                                            *)
Named(f, Bad) ==
  /\ f \in Answers
  /\ \A r \in AllRules : f[r] # None => f[r] \in Met(r) \cap Bad
  /\ \A r \in AllRules : f[r] = None => Inside(r) \cap Bad = {}

(* The rules without an answer hear of none.                               *)
Unheard(f) == \A r \in AllRules : f[r] = None => Heard(r, f) = {}

(* A sweep only fills in answers, each with one a rule can meet.           *)
LEMMA PassFacts ==
  ASSUME ArenaShape, NEW Bad, NEW f, Named(f, Bad), NEW r \in AllRules
  PROVE  /\ Named(Pass(f, r), Bad)
         /\ \A s \in AllRules : f[s] # None => Pass(f, r)[s] = f[s]
         /\ Pass(f, r) = f /\ f[r] = None => Heard(r, f) = {}
<1>1. CASE f[r] = None /\ Heard(r, f) # {}
  <2> DEFINE t == Lowest(Heard(r, f))
  <2>1. Heard(r, f) \in SUBSET Nat
    BY InsideFacts, NumberedFacts DEF Heard, AllRules, ArenaShape
  <2>2. t \in Heard(r, f)
    BY <1>1, <2>1, LeastExists DEF Lowest
  <2>3. t \in References(r) /\ t \in AllRules /\ f[t] # None
    BY <2>2, InsideFacts DEF Heard
  <2>4. f[t] \in Met(r) \cap Bad /\ f[t] \in AllNodes
    BY <2>3, InsideIsMet, MetFacts DEF Named, Answers
  <2>5. Pass(f, r) = [f EXCEPT ![r] = f[t]]
    BY <1>1 DEF Pass
  <2> HIDE DEF t
  <2>6. /\ Pass(f, r) \in Answers /\ Pass(f, r)[r] = f[t]
        /\ \A s \in AllRules : s # r => Pass(f, r)[s] = f[s]
    BY <2>4, <2>5 DEF Named, Answers
  <2>7. Named(Pass(f, r), Bad)
    BY <2>3, <2>4, <2>6 DEF Named
  <2>8. QED
    BY <1>1, <2>3, <2>6, <2>7
<1>2. CASE ~(f[r] = None /\ Heard(r, f) # {})
  BY <1>2 DEF Pass
<1>3. QED
  BY <1>1, <1>2

(* A sweep keeps answers right, and when it changes nothing no answer is   *)
(* left to be heard.                                                       *)
LEMMA SpreadFacts ==
  ASSUME ArenaShape, NEW Bad, NEW found, Named(found, Bad)
  PROVE  Named(Spread(found), Bad) /\ (Spread(found) = found => Unheard(found))
<1> DEFINE count == Cardinality(AllRules)
           P(g) == g = [k \in 0 .. count |->
                          IF k = 0 THEN found
                          ELSE LET f == g[k - 1]  r == k - 1
                               IN  IF f[r] = None /\ {s \in References(r) : f[s] # None} # {}
                                   THEN [f EXCEPT ![r] = f[Lowest({s \in References(r) : f[s] # None})]]
                                   ELSE f]
           G == CHOOSE g : P(g)
           V == {f \in Answers : Named(f, Bad)}
           h == [x \in (1 .. count) \X V |-> Pass(x[2], x[1] - 1)]
<1>1. /\ count \in Nat /\ AllRules = 0 .. count - 1
      /\ \A k \in 1 .. count : k - 1 \in AllRules
  BY NumberedFacts DEF ArenaShape, AllRules, Numbered
<1>2. Spread(found) = G[count]
  BY DEF Spread
<1>3. \A k \in 1 .. count, f \in V : Pass(f, k - 1) \in V
  <2> TAKE k \in 1 .. count, f \in V
  <2>1. Named(f, Bad) /\ k - 1 \in AllRules
    BY <1>1
  <2>2. Named(Pass(f, k - 1), Bad)
    BY <2>1, PassFacts
  <2>3. Pass(f, k - 1) \in Answers
    BY <2>2 DEF Named
  <2>4. QED
    BY <2>2, <2>3
<1>4. found \in V
  BY DEF Named
<1> HIDE DEF V, count
<1>5. h \in [(1 .. count) \X V -> V]
  BY <1>3
<1>6. PICK g \in [0 .. count -> V] : Iterates(g, count, found, h)
  <2> HIDE DEF h
  <2> QED BY <1>1, <1>4, <1>5, IterationExists
<1>7. \A k \in 1 .. count : g[k] = Pass(g[k - 1], k - 1)
  <2> TAKE k \in 1 .. count
  <2>1. g[k - 1] \in V
    BY <1>1
  <2>2. h[<<k, g[k - 1]>>] = Pass(g[k - 1], k - 1)
    BY <2>1
  <2> HIDE DEF h
  <2>3. QED
    BY <1>6, <2>2 DEF Iterates
<1>8. P(g)
  <2>1. g[0] = found
    BY <1>6 DEF Iterates
  <2>2. \A k \in 0 .. count : k # 0 => k \in 1 .. count
    BY <1>1
  <2>3. QED
    BY <1>7, <2>1, <2>2 DEF Pass, Heard
<1>9. P(G)
  <2> HIDE DEF P
  <2> QED BY <1>8
<1>10. G[0] = found
  <2> HIDE DEF G
  <2>1. 0 \in 0 .. count
    BY <1>1
  <2>2. QED
    BY <1>9, <2>1
<1>11. \A k \in 1 .. count : G[k] = Pass(G[k - 1], k - 1)
  <2> HIDE DEF G
  <2> TAKE k \in 1 .. count
  <2>1. k \in 0 .. count /\ k # 0
    BY <1>1
  <2>2. QED
    BY <1>9, <2>1 DEF Pass, Heard
<1> HIDE DEF G, P
<1> DEFINE Kept(j, k) == \A s \in AllRules : G[j][s] # None => G[k][s] = G[j][s]
           S == {k \in 0 .. count : Named(G[k], Bad) /\ \A j \in 0 .. k : Kept(j, k)}
<1>12. 0 \in S
  BY <1>1, <1>10
<1>13. ASSUME NEW k \in 1 .. count, k - 1 \in S PROVE k \in S
  <2>1. Named(G[k - 1], Bad) /\ k - 1 \in AllRules /\ G[k] = Pass(G[k - 1], k - 1)
    BY <1>1, <1>11, <1>13
  <2>2. Named(G[k], Bad) /\ Kept(k - 1, k)
    BY <2>1, PassFacts
  <2>3. ASSUME NEW j \in 0 .. k PROVE Kept(j, k)
    <3>1. CASE j = k
      BY <3>1
    <3>2. CASE j # k
      <4>1. j \in 0 .. k - 1
        BY <1>1, <3>2
      <4>2. Kept(j, k - 1)
        BY <1>13, <4>1
      <4>3. QED
        BY <2>2, <4>2
    <3>3. QED
      BY <3>1, <3>2
  <2>4. k \in 0 .. count
    OBVIOUS
  <2>5. QED
    BY <2>2, <2>3, <2>4
<1>14. \A k \in 0 .. count : k \in S
  <2> HIDE DEF S
  <2> QED BY <1>1, <1>12, <1>13, CountUp
<1>15. Named(Spread(found), Bad)
  <2>1. count \in 0 .. count
    BY <1>1
  <2>2. QED
    BY <1>2, <1>14, <2>1
<1>16. ASSUME Spread(found) = found, NEW r \in AllRules, found[r] = None
       PROVE  Heard(r, found) = {}
  <2>1. \A k \in 0 .. count : G[k] = found
    <3> TAKE k \in 0 .. count
    <3>1. 0 \in 0 .. k /\ k \in 0 .. count /\ count \in 0 .. count
      BY <1>1
    <3>2. Named(G[k], Bad) /\ Kept(0, k) /\ Kept(k, count)
      BY <1>14, <3>1
    <3>3. G[0] = found /\ G[count] = found
      BY <1>2, <1>10, <1>16
    <3>4. \A s \in AllRules : G[k][s] = found[s]
      BY <3>2, <3>3
    <3>5. QED
      BY <3>2, <3>4 DEF Named, Answers
  <2>2. r + 1 \in 1 .. count /\ r + 1 \in 0 .. count /\ r \in 0 .. count /\ (r + 1) - 1 = r
    BY <1>1
  <2>3. found = Pass(found, r)
    BY <1>11, <2>1, <2>2
  <2>4. QED
    BY <1>16, <2>3, PassFacts
<1>17. QED
  BY <1>15, <1>16 DEF Unheard

(* Where no silent rule hears of an answer, a walk from one meets nothing  *)
(* bad: the rules it comes through are silent too.                         *)
LEMMA SilentMeetsNone ==
  ASSUME ArenaShape, NEW Bad, NEW f, Named(f, Bad), Unheard(f), NEW r \in AllRules, f[r] = None
  PROVE  Met(r) \cap Bad = {}
<1> DEFINE Silent == {s \in AllRules : f[s] = None}
           C == UNION {Inside(s) : s \in Silent}
<1>1. C \in SUBSET AllNodes /\ arena.body[r] \in C
  BY InsideFacts
<1>2. ASSUME NEW n \in C PROVE Reachable(n) \subseteq C
  <2>1. PICK s \in Silent : n \in Inside(s)
    OBVIOUS
  <2>2. n \in AllNodes /\ s \in AllRules
    BY <2>1, InsideFacts
  <2>3. CASE Kind(n) = "ref"
    <3>1. arena.nodes[n].target \in References(s)
      BY <2>1, <2>2, <2>3, InsideFacts
    <3>2. arena.nodes[n].target \in Silent
      BY <2>1, <2>2, <3>1, InsideFacts DEF Unheard, Heard
    <3>3. arena.body[arena.nodes[n].target] \in C
      BY <3>2, InsideFacts
    <3>4. QED
      BY <2>2, <2>3, <3>3, RefIsMet
  <2>4. CASE Kind(n) # "ref"
    <3>1. Reachable(n) \subseteq Inside(s)
      BY <2>1, <2>2, <2>4, InsideFacts DEF Reachable, Successors, Children
    <3>2. QED
      BY <2>1, <3>1
  <2>5. QED
    BY <2>3, <2>4
<1>3. Met(r) \subseteq C
  <2> HIDE DEF C
  <2> QED BY <1>1, <1>2, MetFacts
<1>4. C \cap Bad = {}
  BY DEF Named
<1>5. QED
  BY <1>3, <1>4

(* The first answers are the rules' own.                                   *)
LEMMA FirstAnswers ==
  ASSUME ArenaShape, NEW Bad
  PROVE  Named([r \in AllRules |-> FirstOf({n \in Inside(r) : n \in Bad})], Bad)
<1> DEFINE own(r) == {n \in Inside(r) : n \in Bad}
<1>1. None \notin AllNodes /\ AllNodes \subseteq Nat
  BY NumberedFacts DEF ArenaShape, WellFormed, AllNodes
<1>2. ASSUME NEW r \in AllRules
      PROVE  /\ FirstOf(own(r)) = None => own(r) = {}
             /\ FirstOf(own(r)) # None => FirstOf(own(r)) \in own(r)
             /\ own(r) \subseteq Met(r) \cap Bad /\ own(r) \subseteq AllNodes
  <2>1. own(r) \in SUBSET Nat /\ own(r) \subseteq AllNodes
    BY <1>1, InsideFacts
  <2>2. own(r) # {} => FirstOf(own(r)) \in own(r)
    BY <2>1, LeastExists DEF FirstOf, Lowest
  <2>3. own(r) = {} => FirstOf(own(r)) = None
    BY DEF FirstOf
  <2>4. own(r) \subseteq Met(r) \cap Bad
    BY InsideIsMet
  <2> HIDE DEF own
  <2>5. QED
    BY <1>1, <2>1, <2>2, <2>3, <2>4
<1> DEFINE f == [r \in AllRules |-> FirstOf(own(r))]
<1>3. /\ f \in Answers
      /\ \A r \in AllRules : f[r] # None => f[r] \in Met(r) \cap Bad
      /\ \A r \in AllRules : f[r] = None => own(r) = {}
  <2> HIDE DEF own
  <2> QED BY <1>2 DEF Answers
<1>4. QED
  BY <1>3 DEF Named

-----------------------------------------------------------------------------
(* As long as the arena stays, so does all that is read off it.            *)
LEMMA WalksStay ==
  ASSUME arena' = arena
  PROVE  /\ AllRules' = AllRules /\ AllNodes' = AllNodes
         /\ \A r : Inside(r)' = Inside(r) /\ Met(r)' = Met(r) /\ References(r)' = References(r)
         /\ \A n : IsProse(n)' = IsProse(n) /\ IsForeign(n)' = IsForeign(n)
<1>1. AllRules' = AllRules /\ AllNodes' = AllNodes
  BY DEF AllRules, AllNodes
<1>2. ASSUME NEW r
      PROVE  Inside(r)' = Inside(r) /\ Met(r)' = Met(r)
  <2>1. Inside(r)' = Inside(r)
    BY DEF Inside, Closure, Children, AllNodes, IsNever, Kind, Parts
  <2>2. Met(r)' = Met(r)
    BY DEF Met, Closure, AllNodes, Reachable, Successors, IsNever, Kind, Parts
  <2>3. QED
    BY <2>1, <2>2
<1>3. ASSUME NEW r PROVE References(r)' = References(r)
  BY <1>1, <1>2 DEF References, Targets, Kind
<1>4. ASSUME NEW n PROVE IsProse(n)' = IsProse(n) /\ IsForeign(n)' = IsForeign(n)
  BY DEF IsProse, IsForeign, IsRepresentable, Kind
<1>5. QED
  BY <1>1, <1>2, <1>3, <1>4

ProseNodes == {n \in AllNodes : IsProse(n)}
ForeignNodes == {n \in AllNodes : IsForeign(n)}

(* While answers are spread, each is one a rule can meet; at the end a rule*)
(* without one hears of none.                                              *)
ReachInv ==
  /\ phase \in {"reach", "checked"} => /\ Named(prose, ProseNodes)
                                       /\ Named(unrepresentable, ForeignNodes)
  /\ phase = "checked" => Unheard(prose) /\ Unheard(unrepresentable)

(* None of this depends on anything but the arena and the answers.         *)
LEMMA ReachStays ==
  ASSUME arena' = arena
  PROVE  /\ ProseNodes' = ProseNodes /\ ForeignNodes' = ForeignNodes
         /\ Named(prose', ProseNodes) => Named(prose, ProseNodes)'
         /\ Named(unrepresentable', ForeignNodes) => Named(unrepresentable, ForeignNodes)'
         /\ Unheard(prose') => Unheard(prose)'
         /\ Unheard(unrepresentable') => Unheard(unrepresentable)'
<1>1. ProseNodes' = ProseNodes /\ ForeignNodes' = ForeignNodes
  BY WalksStay DEF ProseNodes, ForeignNodes
<1>2. Answers' = Answers
  BY WalksStay DEF Answers
<1>3. Named(prose', ProseNodes) => Named(prose, ProseNodes)'
  BY <1>1, <1>2, WalksStay DEF Named
<1>4. Named(unrepresentable', ForeignNodes) => Named(unrepresentable, ForeignNodes)'
  BY <1>1, <1>2, WalksStay DEF Named
<1>5. Unheard(prose') => Unheard(prose)'
  BY WalksStay DEF Unheard, Heard
<1>6. Unheard(unrepresentable') => Unheard(unrepresentable)'
  BY WalksStay DEF Unheard, Heard
<1>7. QED
  BY <1>1, <1>3, <1>4, <1>5, <1>6

(* Every step of the analyses keeps it.                                    *)
LEMMA ReachStep ==
  ASSUME Inv, ReachInv, [Next]_vars
  PROVE  ReachInv'
<1>1. CASE UNCHANGED <<arena, prose, unrepresentable>> /\ (phase' = phase \/ phase' \notin {"reach", "checked"})
  BY <1>1, ReachStays DEF ReachInv
<1>2. CASE ShortestMatches /\ Settled
  <2>1. /\ arena' = arena /\ phase' = "reach" /\ ArenaShape
        /\ prose' = [r \in AllRules |-> FirstOf({n \in Inside(r) : IsProse(n)})]
        /\ unrepresentable' = [r \in AllRules |-> FirstOf({n \in Inside(r) : IsForeign(n)})]
    BY <1>2 DEF ShortestMatches, Inv
  <2>2. ASSUME NEW r \in AllRules
        PROVE  /\ {n \in Inside(r) : IsProse(n)} = {n \in Inside(r) : n \in ProseNodes}
               /\ {n \in Inside(r) : IsForeign(n)} = {n \in Inside(r) : n \in ForeignNodes}
    BY <2>1, InsideFacts DEF ProseNodes, ForeignNodes
  <2>3. /\ prose' = [r \in AllRules |-> FirstOf({n \in Inside(r) : n \in ProseNodes})]
        /\ unrepresentable' = [r \in AllRules |-> FirstOf({n \in Inside(r) : n \in ForeignNodes})]
    BY <2>1, <2>2
  <2>4. Named(prose', ProseNodes) /\ Named(unrepresentable', ForeignNodes)
    BY <2>1, <2>3, FirstAnswers
  <2>5. QED
    BY <2>1, <2>4, ReachStays DEF ReachInv
<1>3. CASE Compatibility
  <2>1. /\ arena' = arena /\ ArenaShape
        /\ prose' = Spread(prose) /\ unrepresentable' = Spread(unrepresentable)
        /\ phase' = IF reached' = reached THEN "checked" ELSE "reach"
        /\ Named(prose, ProseNodes) /\ Named(unrepresentable, ForeignNodes)
    BY <1>3 DEF Compatibility, Inv, ReachInv
  <2>2. /\ Named(prose', ProseNodes) /\ (prose' = prose => Unheard(prose))
        /\ Named(unrepresentable', ForeignNodes)
        /\ (unrepresentable' = unrepresentable => Unheard(unrepresentable))
    BY <2>1, SpreadFacts
  <2>3. phase' = "checked" => prose' = prose /\ unrepresentable' = unrepresentable
    BY <2>1 DEF reached
  <2>4. QED
    BY <2>1, <2>2, <2>3, ReachStays DEF ReachInv
<1>4. Nullable \/ LeftRecursion \/ (ShortestMatches /\ ~Settled) \/ UNCHANGED vars
        => UNCHANGED <<arena, prose, unrepresentable>>
           /\ (phase' = phase \/ phase' \notin {"reach", "checked"})
  <2>1. LeftRecursion => arena' = arena /\ (phase' = phase \/ phase' \notin {"reach", "checked"})
    BY DEF LeftRecursion
  <2>2. ShortestMatches /\ ~Settled => arena' = arena /\ phase' = phase
    BY DEF ShortestMatches, KnuthNext, Discard, Finalize
  <2>3. QED
    BY <2>1, <2>2 DEF Nullable, LeftRecursion, ShortestMatches, vars, reached
<1>5. QED
  BY <1>1, <1>2, <1>3, <1>4 DEF Next

(* At the end a rule has an answer exactly when a walk meets one.          *)
LEMMA ReachEnd ==
  ASSUME Inv, ReachInv
  PROVE  ReachExact
<1> SUFFICES ASSUME phase = "checked", NEW r \in AllRules
             PROVE  /\ IF \E n \in Met(r) : IsProse(n)
                       THEN prose[r] \in Met(r) /\ IsProse(prose[r]) ELSE prose[r] = None
                    /\ IF \E n \in Met(r) : IsForeign(n)
                       THEN unrepresentable[r] \in Met(r) /\ IsForeign(unrepresentable[r])
                       ELSE unrepresentable[r] = None
  BY DEF ReachExact, Met
<1>1. ASSUME NEW f, NEW Bad, Named(f, Bad), Unheard(f)
      PROVE  IF Met(r) \cap Bad # {} THEN f[r] \in Met(r) \cap Bad ELSE f[r] = None
  <2>1. f[r] = None => Met(r) \cap Bad = {}
    BY <1>1, SilentMeetsNone DEF Inv
  <2>2. f[r] # None => f[r] \in Met(r) \cap Bad
    BY <1>1 DEF Named
  <2>3. QED
    BY <2>1, <2>2
<1>2. /\ IF Met(r) \cap ProseNodes # {} THEN prose[r] \in Met(r) \cap ProseNodes ELSE prose[r] = None
      /\ IF Met(r) \cap ForeignNodes # {} THEN unrepresentable[r] \in Met(r) \cap ForeignNodes
                                          ELSE unrepresentable[r] = None
  BY <1>1 DEF ReachInv
<1>3. Met(r) \in SUBSET AllNodes
  BY MetFacts DEF Inv
<1>4. QED
  BY <1>2, <1>3 DEF ProseNodes, ForeignNodes

(* A rule is refused as a start exactly when a walk from it can meet a     *)
(* prose value, or a terminal no input holds, and the example named is one *)
(* it can meet, whatever the grammar and however its rules refer to each   *)
(* other (check.rs, compatibility).                                        *)
THEOREM RefusedExactly == Spec => []ReachExact
<1>1. Init => ReachInv
  BY DEF Init, ReachInv
<1>2. QED
  BY <1>1, InvAlways, ReachStep, ReachEnd, PTL DEF Spec

-----------------------------------------------------------------------------
(* The lengths of derivations.                                             *)

Lengths == [AllNodes -> Nat]

(* The sum of an item's length and of the ones before it.                  *)
LEMMA SumFacts ==
  ASSUME NEW known \in Lengths, NEW parts \in Seq(AllNodes),
         \A i \in DOMAIN parts : known[parts[i]] # 0
  PROVE  \E s \in [0 .. Len(parts) -> Nat] :
           /\ s[0] = 0
           /\ \A i \in 1 .. Len(parts) : s[i] = s[i - 1] + known[parts[i]] - 1
           /\ SumOf(parts, known) = s[Len(parts)]
<1> DEFINE n == Len(parts)
           P(g) == g = [i \in 0 .. n |-> IF i = 0 THEN 0 ELSE g[i - 1] + known[parts[i]] - 1]
           G == CHOOSE g : P(g)
           h == [x \in (1 .. n) \X Nat |-> x[2] + known[parts[x[1]]] - 1]
<1>1. n \in Nat /\ DOMAIN parts = 1 .. n
  OBVIOUS
<1>2. \A i \in 1 .. n : known[parts[i]] \in Nat /\ known[parts[i]] >= 1
  BY DEF Lengths
<1>3. h \in [(1 .. n) \X Nat -> Nat]
  <2>1. \A x \in (1 .. n) \X Nat : x[2] + known[parts[x[1]]] - 1 \in Nat
    BY <1>2
  <2>2. QED
    BY <2>1
<1>4. PICK g \in [0 .. n -> Nat] : Iterates(g, n, 0, h)
  <2> HIDE DEF h, n
  <2> QED BY <1>1, <1>3, IterationExists
<1>5. \A i \in 1 .. n : g[i] = g[i - 1] + known[parts[i]] - 1
  <2> TAKE i \in 1 .. n
  <2>1. g[i - 1] \in Nat
    OBVIOUS
  <2>2. h[<<i, g[i - 1]>>] = g[i - 1] + known[parts[i]] - 1
    BY <2>1
  <2> HIDE DEF h
  <2>3. QED
    BY <1>4, <2>2 DEF Iterates
<1>6. g[0] = 0
  BY <1>4 DEF Iterates
<1>7. P(g)
  <2>1. \A i \in 0 .. n : i # 0 => i \in 1 .. n
    OBVIOUS
  <2>2. QED
    BY <1>5, <1>6, <2>1
<1>8. P(G)
  <2> HIDE DEF P
  <2> QED BY <1>7
<1>9. SumOf(parts, known) = G[n]
  BY DEF SumOf
<1>10. G = g
  <2> HIDE DEF G
  <2>1. /\ G[0] = 0
        /\ \A i \in 1 .. n : G[i] = G[i - 1] + known[parts[i]] - 1
    <3>1. 0 \in 0 .. n /\ \A i \in 1 .. n : i \in 0 .. n /\ i # 0
      OBVIOUS
    <3>2. QED
      BY <1>8, <3>1
  <2> DEFINE S == {i \in 0 .. n : G[i] = g[i]}
  <2>2. 0 \in S
    BY <1>6, <2>1
  <2>3. ASSUME NEW i \in 1 .. n, i - 1 \in S PROVE i \in S
    BY <1>5, <2>1, <2>3
  <2>4. \A i \in 0 .. n : i \in S
    <3> HIDE DEF S
    <3> QED BY <1>1, <2>2, <2>3, CountUp
  <2>5. \A i \in 0 .. n : G[i] = g[i]
    BY <2>4
  <2>6. QED
    BY <1>8, <2>5
<1>11. QED
  BY <1>5, <1>6, <1>9, <1>10

(* The items of a concatenation add up to nothing when each is nothing.    *)
LEMMA SumIsZero ==
  ASSUME NEW known \in Lengths, NEW parts \in Seq(AllNodes),
         \A i \in DOMAIN parts : known[parts[i]] # 0
  PROVE  /\ SumOf(parts, known) \in Nat
         /\ SumOf(parts, known) = 0 <=> \A i \in DOMAIN parts : known[parts[i]] = 1
<1>1. PICK s \in [0 .. Len(parts) -> Nat] :
        /\ s[0] = 0
        /\ \A i \in 1 .. Len(parts) : s[i] = s[i - 1] + known[parts[i]] - 1
        /\ SumOf(parts, known) = s[Len(parts)]
  BY SumFacts
<1> DEFINE n == Len(parts)
           S == {i \in 0 .. n : s[i] = 0 <=> \A j \in 1 .. i : known[parts[j]] = 1}
<1>2. n \in Nat /\ DOMAIN parts = 1 .. n
  OBVIOUS
<1>3. 0 \in S
  BY <1>1
<1>4. ASSUME NEW i \in 1 .. n, i - 1 \in S PROVE i \in S
  <2>1. s[i - 1] \in Nat /\ known[parts[i]] \in Nat /\ known[parts[i]] >= 1
    <3>1. i - 1 \in 0 .. n /\ i \in DOMAIN parts /\ parts[i] \in AllNodes
      BY <1>2
    <3>2. known[parts[i]] \in Nat /\ known[parts[i]] # 0
      BY <3>1 DEF Lengths
    <3>3. QED
      BY <3>1, <3>2
  <2>2. s[i] = 0 <=> s[i - 1] = 0 /\ known[parts[i]] = 1
    BY <1>1, <2>1
  <2>3. s[i - 1] = 0 <=> \A j \in 1 .. i - 1 : known[parts[j]] = 1
    BY <1>4
  <2>4. \A j \in 1 .. i : j = i \/ j \in 1 .. i - 1
    OBVIOUS
  <2>5. i \in 0 .. n /\ 1 .. i - 1 \subseteq 1 .. i /\ i \in 1 .. i
    OBVIOUS
  <2>6. QED
    BY <2>2, <2>3, <2>4, <2>5
<1>5. \A i \in 0 .. n : i \in S
  <2> HIDE DEF S
  <2> QED BY <1>2, <1>3, <1>4, CountUp
<1>6. n \in S
  <2>1. n \in 0 .. n
    BY <1>2
  <2>2. QED
    BY <1>5, <2>1
<1>7. QED
  BY <1>1, <1>2, <1>6

(* Among lengths other than none there is a least one.                     *)
LEMMA LeastLength ==
  ASSUME NEW S \in SUBSET Nat, S # {}
  PROVE  Lowest(S) \in S /\ Lowest(S) \in Nat /\ \A x \in S : Lowest(S) <= x
<1>1. Lowest(S) \in S /\ \A x \in S : Lowest(S) <= x
  BY LeastExists DEF Lowest
<1>2. QED
  BY <1>1

(* A derivation one higher has a length, and it is zero just when the node *)
(* matches the empty string given what does.                               *)
LEMMA DeriveFacts ==
  ASSUME ArenaShape, NEW known \in Lengths, NEW n \in AllNodes
  PROVE  /\ Derive(n, known) \in Nat
         /\ Derive(n, known) = 1 <=> MatchesEmpty(n, {m \in AllNodes : known[m] = 1})
<1> DEFINE d == arena.nodes[n]
           Null == {m \in AllNodes : known[m] = 1}
           possible == {known[m] : m \in Successors(n)} \ {0}
<1>1. NodeShape(d) /\ d.kind \in Kinds /\ d.parts \in Seq(AllNodes) /\ Kind(n) = d.kind /\ Parts(n) = d.parts
  BY DEF ArenaShape, WellFormed, NodeShape, AllNodes, Kind, Parts
<1>2. Successors(n) \in SUBSET AllNodes /\ Children(n) \in SUBSET AllNodes
  BY StepTypes
<1>3. d.kind # "ref" => Successors(n) = Children(n)
  BY <1>1 DEF Successors, Children
<1>4. possible \in SUBSET Nat /\ \A x \in possible : x \in Nat /\ x >= 1
  <2>1. \A m \in Successors(n) : known[m] \in Nat
    BY <1>2 DEF Lengths
  <2>2. QED
    BY <2>1
<1>5. 1 \in possible <=> Successors(n) \cap Null # {}
  BY <1>2
<1>6. possible # {} => /\ Lowest(possible) \in Nat /\ Lowest(possible) >= 1
                       /\ Lowest(possible) = 1 <=> Successors(n) \cap Null # {}
  <2> HIDE DEF possible, Null
  <2>1. SUFFICES ASSUME possible # {}
                 PROVE  /\ Lowest(possible) \in Nat /\ Lowest(possible) >= 1
                        /\ Lowest(possible) = 1 <=> 1 \in possible
    BY <1>5
  <2>2. Lowest(possible) \in possible /\ \A x \in possible : Lowest(possible) <= x
    BY <1>4, <2>1, LeastLength
  <2>3. Lowest(possible) \in Nat /\ Lowest(possible) >= 1
    BY <1>4, <2>2
  <2>4. QED
    BY <2>2, <2>3
<1>7. possible = {} => Successors(n) \cap Null = {}
  BY <1>5
<1>8. CASE d.kind = "char"
  BY <1>1, <1>8 DEF Derive, MatchesEmpty, NodeShape
<1>9. CASE d.kind = "num"
  BY <1>1, <1>9 DEF Derive, MatchesEmpty, NodeShape
<1>10. CASE d.kind \in {"prose", "optional"}
  BY <1>10 DEF Derive, MatchesEmpty
<1>11. CASE d.kind = "concat"
  <2>1. Derive(n, known) = IF \E i \in DOMAIN d.parts : known[d.parts[i]] = 0 THEN 0
                           ELSE SumOf(d.parts, known) + 1
    BY <1>11 DEF Derive
  <2>2. MatchesEmpty(n, Null) <=> \A i \in DOMAIN d.parts : known[d.parts[i]] = 1
    BY <1>1, <1>2, <1>11 DEF MatchesEmpty, Children
  <2>3. CASE \E i \in DOMAIN d.parts : known[d.parts[i]] = 0
    BY <2>1, <2>2, <2>3
  <2>4. CASE \A i \in DOMAIN d.parts : known[d.parts[i]] # 0
    BY <1>1, <2>1, <2>2, <2>4, SumIsZero
  <2>5. QED
    BY <2>3, <2>4
<1>12. CASE d.kind = "alt"
  <2>1. Derive(n, known) = IF possible = {} THEN 0 ELSE Lowest(possible)
    BY <1>12 DEF Derive
  <2>2. MatchesEmpty(n, Null) <=> Successors(n) \cap Null # {}
    BY <1>3, <1>12 DEF MatchesEmpty
  <2> HIDE DEF possible, Null
  <2>3. QED
    BY <1>6, <1>7, <2>1, <2>2 DEF Null
<1>13. CASE d.kind = "ref"
  <2>1. Derive(n, known) = IF possible = {} THEN 0 ELSE Lowest(possible)
    BY <1>13 DEF Derive
  <2>2. Successors(n) = {arena.body[d.target]}
    BY <1>1, <1>13 DEF Successors
  <2>3. MatchesEmpty(n, Null) <=> Successors(n) \cap Null # {}
    BY <1>13, <2>2 DEF MatchesEmpty
  <2> HIDE DEF possible, Null
  <2>4. QED
    BY <1>6, <1>7, <2>1, <2>3 DEF Null
<1>14. CASE d.kind = "repeat"
  <2>1. d.min \in Nat /\ Len(d.parts) = 1
    BY <1>1, <1>14 DEF NodeShape
  <2>2. Children(n) = {d.parts[1]}
    <3>1. DOMAIN d.parts = {1}
      BY <1>1, <2>1
    <3>2. QED
      BY <1>1, <3>1 DEF Children
  <2>3. MatchesEmpty(n, Null) <=> d.min = 0 \/ Successors(n) \cap Null # {}
    BY <1>3, <1>14, <2>2 DEF MatchesEmpty
  <2>4. CASE d.min = 0
    BY <1>14, <2>3, <2>4 DEF Derive
  <2>5. CASE d.min # 0
    <3>1. Derive(n, known) = IF possible = {} THEN 0 ELSE d.min * (Lowest(possible) - 1) + 1
      BY <1>14, <2>5 DEF Derive
    <3> HIDE DEF possible, Null, d
    <3>2. CASE possible = {}
      BY <1>7, <2>3, <2>5, <3>1, <3>2 DEF Null
    <3>3. CASE possible # {}
      <4> DEFINE l == Lowest(possible)
      <4>1. l \in Nat /\ l >= 1 /\ (l = 1 <=> Successors(n) \cap Null # {})
        BY <1>6, <3>3
      <4>2. Derive(n, known) = d.min * (l - 1) + 1
        BY <3>1, <3>3
      <4> HIDE DEF l
      <4>3. l - 1 \in Nat
        BY <4>1
      <4>4. d.min * (l - 1) \in Nat /\ (d.min * (l - 1) = 0 <=> l - 1 = 0)
        <5>1. \A a \in Nat, b \in Nat : a # 0 => a * b \in Nat /\ (a * b = 0 <=> b = 0)
          OBVIOUS
        <5>2. QED
          BY <2>1, <2>5, <4>3, <5>1
      <4>5. QED
        BY <2>3, <2>5, <4>1, <4>2, <4>4 DEF Null
    <3>4. QED
      BY <3>2, <3>3
  <2>6. QED
    BY <2>4, <2>5
<1>15. QED
  BY <1>1, <1>8, <1>9, <1>10, <1>11, <1>12, <1>13, <1>14 DEF Kinds

(* The lengths of the shortest derivations that are no higher than k.      *)
Heights(height) ==
  /\ height \in [Nat -> Lengths]
  /\ height[0] = [n \in AllNodes |-> 0]
  /\ \A k \in Nat \ {0} : height[k] = [n \in AllNodes |-> Derive(n, height[k - 1])]

(* What Derivable computes is the last of a sequence of heights.           *)
LEMMA DerivableIsHeight ==
  ASSUME ArenaShape
  PROVE  \E height : Heights(height) /\ Derivable = height[Cardinality(AllNodes)]
<1> DEFINE none == [n \in AllNodes |-> 0]
           P(g) == g = [k \in Nat |->
                          IF k = 0 THEN [n \in AllNodes |-> 0]
                          ELSE LET known == g[k - 1] IN [n \in AllNodes |-> Derive(n, known)]]
           G == CHOOSE g : P(g)
           h == [x \in (Nat \ {0}) \X Lengths |-> [n \in AllNodes |-> Derive(n, x[2])]]
<1>1. none \in Lengths
  BY DEF Lengths
<1>2. h \in [(Nat \ {0}) \X Lengths -> Lengths]
  <2>1. ASSUME NEW known \in Lengths PROVE [n \in AllNodes |-> Derive(n, known)] \in Lengths
    <3>1. \A n \in AllNodes : Derive(n, known) \in Nat
      BY DeriveFacts
    <3>2. QED
      BY <3>1 DEF Lengths
  <2>2. QED
    BY <2>1
<1> HIDE DEF none
<1>3. PICK g \in [Nat -> Lengths] : IteratesOn(g, none, h)
  <2> HIDE DEF h
  <2> QED BY <1>1, <1>2, IterationOnExists
<1>4. \A k \in Nat \ {0} : g[k] = [n \in AllNodes |-> Derive(n, g[k - 1])]
  <2> TAKE k \in Nat \ {0}
  <2>1. g[k - 1] \in Lengths
    OBVIOUS
  <2>2. h[<<k, g[k - 1]>>] = [n \in AllNodes |-> Derive(n, g[k - 1])]
    BY <2>1
  <2> HIDE DEF h
  <2>3. QED
    BY <1>3, <2>2 DEF IteratesOn
<1>5. g[0] = none
  BY <1>3 DEF IteratesOn
<1>6. P(g)
  <2>1. \A k \in Nat : k # 0 => k \in Nat \ {0}
    OBVIOUS
  <2>2. g = [k \in Nat |-> g[k]]
    OBVIOUS
  <2>3. \A k \in Nat : g[k] = IF k = 0 THEN none ELSE [n \in AllNodes |-> Derive(n, g[k - 1])]
    BY <1>4, <1>5, <2>1
  <2>4. QED
    BY <2>2, <2>3 DEF none
<1>7. P(G)
  <2> HIDE DEF P
  <2> QED BY <1>6
<1>8. Derivable = G[Cardinality(AllNodes)]
  BY DEF Derivable
<1> HIDE DEF G
<1>9. /\ G[0] = none
      /\ \A k \in Nat \ {0} : G[k] = [n \in AllNodes |-> Derive(n, G[k - 1])]
      /\ DOMAIN G = Nat
  <2>1. \A k \in Nat : G[k] = IF k = 0 THEN none ELSE [n \in AllNodes |-> Derive(n, G[k - 1])]
    BY <1>7 DEF none
  <2>2. QED
    BY <1>7, <2>1
<1> HIDE DEF P
<1>10. \A k \in Nat : G[k] \in Lengths
  <2> DEFINE S == {k \in Nat : G[k] \in Lengths}
  <2>1. 0 \in S
    BY <1>1, <1>9
  <2>2. ASSUME NEW k \in Nat, k \in S PROVE k + 1 \in S
    <3>1. k + 1 \in Nat \ {0} /\ (k + 1) - 1 = k /\ G[k] \in Lengths
      BY <2>2
    <3>2. G[k + 1] = [n \in AllNodes |-> Derive(n, G[k])]
      BY <1>9, <3>1
    <3>3. \A n \in AllNodes : Derive(n, G[k]) \in Nat
      BY <3>1, DeriveFacts
    <3>4. QED
      BY <3>1, <3>2, <3>3 DEF Lengths
  <2>3. \A k \in Nat : k \in S
    <3> HIDE DEF S
    <3> QED BY <2>1, <2>2, CountOn
  <2>4. QED
    BY <2>3
<1>11. Heights(G)
  <2>1. G \in [Nat -> Lengths]
    <3>1. G = [k \in Nat |-> G[k]]
      BY <1>7 DEF P
    <3>2. QED
      BY <1>10, <3>1
  <2>2. QED
    BY <1>9, <2>1 DEF Heights, none
<1>12. QED
  BY <1>8, <1>11

-----------------------------------------------------------------------------
(* The nodes that match the empty string.                                  *)
Empties == {n \in AllNodes : Derivable[n] = 1}

(* What matches the empty string still does when more is known to.         *)
LEMMA MatchesEmptyGrows ==
  ASSUME NEW S, NEW T, S \subseteq T, NEW n, arena.nodes[n].kind \in Kinds, MatchesEmpty(n, S)
  PROVE  MatchesEmpty(n, T)
  BY DEF MatchesEmpty, Kinds

(* They are the least set that holds what matches the empty string, given  *)
(* what it holds.                                                          *)
LEMMA EmptiesLeast ==
  ASSUME ArenaShape
  PROVE  /\ \A n \in AllNodes : n \in Empties <=> MatchesEmpty(n, Empties)
         /\ \A C \in SUBSET AllNodes :
              (\A n \in AllNodes : MatchesEmpty(n, C) => n \in C) => Empties \subseteq C
<1>1. PICK height : Heights(height) /\ Derivable = height[Cardinality(AllNodes)]
  BY DerivableIsHeight
<1> DEFINE E == [k \in Nat |-> {n \in AllNodes : height[k][n] = 1}]
           X == AllNodes
<1>2. E \in [Nat -> SUBSET X] /\ IsFiniteSet(X) /\ Cardinality(X) \in Nat
  BY NumberedFacts, FS_CardinalityType DEF ArenaShape
<1>3. E[0] = {}
  BY <1>1 DEF Heights
<1>4. \A k \in Nat, n \in AllNodes : n \in E[k + 1] <=> MatchesEmpty(n, E[k])
  <2> TAKE k \in Nat, n \in AllNodes
  <2>1. k + 1 \in Nat \ {0} /\ (k + 1) - 1 = k /\ height[k] \in Lengths
    BY <1>1 DEF Heights
  <2>2. height[k + 1] = [m \in AllNodes |-> Derive(m, height[k])]
    BY <1>1, <2>1 DEF Heights
  <2>3. height[k + 1][n] = Derive(n, height[k])
    BY <2>2
  <2>4. Derive(n, height[k]) = 1 <=> MatchesEmpty(n, {m \in AllNodes : height[k][m] = 1})
    BY <2>1, DeriveFacts
  <2>5. QED
    BY <2>1, <2>3, <2>4
<1>5. Empties = E[Cardinality(X)]
  BY <1>1, <1>2 DEF Empties
<1> HIDE DEF E
<1>6. \A n \in AllNodes : arena.nodes[n].kind \in Kinds
  BY DEF ArenaShape, WellFormed, NodeShape, AllNodes
<1>7. \A k \in Nat : E[k] \subseteq E[k + 1]
  <2> DEFINE S == {k \in Nat : E[k] \subseteq E[k + 1]}
  <2>1. 0 \in S
    BY <1>3
  <2>2. ASSUME NEW k \in Nat, k \in S PROVE k + 1 \in S
    <3>1. k + 1 \in Nat /\ E[k] \subseteq E[k + 1]
      BY <2>2
    <3>2. \A n \in AllNodes : n \in E[k + 1] => n \in E[(k + 1) + 1]
      BY <1>4, <1>6, <3>1, MatchesEmptyGrows
    <3>3. E[k + 1] \in SUBSET AllNodes
      BY <1>2, <3>1
    <3>4. QED
      BY <3>1, <3>2, <3>3
  <2>3. \A k \in Nat : k \in S
    <3> HIDE DEF S
    <3> QED BY <2>1, <2>2, CountOn
  <2>4. QED
    BY <2>3
<1>8. \A k \in Nat : E[k + 1] = E[k] => E[k + 2] = E[k + 1]
  <2> SUFFICES ASSUME NEW k \in Nat, E[k + 1] = E[k] PROVE E[k + 2] = E[k + 1]
    OBVIOUS
  <2>1. k + 1 \in Nat /\ k + 2 = (k + 1) + 1 /\ k + 2 \in Nat
    OBVIOUS
  <2>2. E[k + 2] \in SUBSET AllNodes /\ E[k + 1] \in SUBSET AllNodes
    BY <1>2, <2>1
  <2>3. \A n \in AllNodes : n \in E[k + 2] <=> n \in E[k + 1]
    BY <1>4, <2>1
  <2>4. QED
    BY <2>2, <2>3
<1>9. E[Cardinality(X) + 1] = E[Cardinality(X)]
  <2> HIDE DEF X
  <2> QED BY <1>2, <1>7, <1>8, ChainRests
<1>10. \A n \in AllNodes : n \in Empties <=> MatchesEmpty(n, Empties)
  BY <1>2, <1>4, <1>5, <1>9
<1>11. ASSUME NEW C \in SUBSET AllNodes, \A n \in AllNodes : MatchesEmpty(n, C) => n \in C
       PROVE  Empties \subseteq C
  <2> DEFINE S == {k \in Nat : E[k] \subseteq C}
  <2>1. 0 \in S
    BY <1>3
  <2>2. ASSUME NEW k \in Nat, k \in S PROVE k + 1 \in S
    <3>1. E[k + 1] \in SUBSET AllNodes /\ k + 1 \in Nat /\ E[k] \subseteq C
      BY <1>2, <2>2
    <3>2. \A n \in E[k + 1] : n \in C
      BY <1>4, <1>6, <1>11, <3>1, MatchesEmptyGrows
    <3>3. QED
      BY <3>1, <3>2
  <2>3. \A k \in Nat : k \in S
    <3> HIDE DEF S
    <3> QED BY <2>1, <2>2, CountOn
  <2>4. QED
    BY <1>2, <1>5, <2>3
<1>12. QED
  BY <1>10, <1>11

(* One node of a sweep.                                                    *)
Known(n, known) == known \cup IF MatchesEmpty(n, known) THEN {n} ELSE {}

(* A sweep adds only what it has to, and if it adds nothing there was      *)
(* nothing to add.                                                         *)
LEMMA SweepFacts ==
  ASSUME ArenaShape, NEW known \in SUBSET AllNodes
  PROVE  /\ Sweep(known) \in SUBSET AllNodes
         /\ known \subseteq Empties => Sweep(known) \subseteq Empties
         /\ Sweep(known) = known => \A n \in AllNodes : MatchesEmpty(n, known) => n \in known
<1> DEFINE count == Cardinality(AllNodes)
           V == SUBSET AllNodes
           P(g) == g = [k \in 0 .. count |->
                          IF k = 0 THEN known
                          ELSE g[k - 1] \cup
                                 IF MatchesEmpty(count - k, g[k - 1]) THEN {count - k} ELSE {}]
           G == CHOOSE g : P(g)
           h == [x \in (1 .. count) \X V |-> Known(count - x[1], x[2])]
<1>1. /\ count \in Nat /\ AllNodes = 0 .. count - 1
      /\ \A k \in 1 .. count : count - k \in AllNodes
  BY NumberedFacts DEF ArenaShape, Numbered
<1>2. Sweep(known) = G[count]
  BY DEF Sweep
<1> HIDE DEF count
<1>3. \A k \in 1 .. count, S \in V : Known(count - k, S) \in V
  BY <1>1 DEF Known
<1>4. h \in [(1 .. count) \X V -> V]
  BY <1>3
<1>5. PICK g \in [0 .. count -> V] : Iterates(g, count, known, h)
  <2> HIDE DEF h
  <2> QED BY <1>1, <1>4, IterationExists
<1>6. \A k \in 1 .. count : g[k] = Known(count - k, g[k - 1])
  <2> TAKE k \in 1 .. count
  <2>1. g[k - 1] \in V
    BY <1>1
  <2>2. h[<<k, g[k - 1]>>] = Known(count - k, g[k - 1])
    BY <2>1
  <2> HIDE DEF h
  <2>3. QED
    BY <1>5, <2>2 DEF Iterates
<1>7. P(g)
  <2>1. g[0] = known
    BY <1>5 DEF Iterates
  <2>2. \A k \in 0 .. count : k # 0 => k \in 1 .. count
    BY <1>1
  <2>3. QED
    BY <1>6, <2>1, <2>2 DEF Known
<1>8. P(G)
  <2> HIDE DEF P
  <2> QED BY <1>7
<1>9. G[0] = known
  <2> HIDE DEF G
  <2>1. 0 \in 0 .. count
    BY <1>1
  <2>2. QED
    BY <1>8, <2>1
<1>10. \A k \in 1 .. count : G[k] = Known(count - k, G[k - 1])
  <2> HIDE DEF G
  <2> TAKE k \in 1 .. count
  <2>1. k \in 0 .. count /\ k # 0
    BY <1>1
  <2>2. QED
    BY <1>8, <2>1 DEF Known
<1> HIDE DEF G, P
<1> DEFINE S == {k \in 0 .. count : /\ G[k] \in V
                                    /\ known \subseteq Empties => G[k] \subseteq Empties
                                    /\ \A j \in 0 .. k : G[j] \subseteq G[k]}
<1>11. 0 \in S
  <2>1. 0 \in 0 .. count /\ \A j \in 0 .. 0 : j = 0
    BY <1>1
  <2>2. \A j \in 0 .. 0 : G[j] \subseteq G[0]
    BY <2>1
  <2>3. QED
    BY <1>9, <2>1, <2>2
<1>12. ASSUME NEW k \in 1 .. count, k - 1 \in S PROVE k \in S
  <2>1. /\ G[k] = Known(count - k, G[k - 1]) /\ G[k - 1] \in V
        /\ known \subseteq Empties => G[k - 1] \subseteq Empties
        /\ \A j \in 0 .. k - 1 : G[j] \subseteq G[k - 1]
        /\ count - k \in AllNodes
    BY <1>1, <1>10, <1>12
  <2>2. G[k] \in V /\ G[k - 1] \subseteq G[k]
    BY <1>3, <2>1 DEF Known
  <2>3. \A j \in 0 .. k : G[j] \subseteq G[k]
    <3>1. \A j \in 0 .. k : j = k \/ j \in 0 .. k - 1
      BY <1>1
    <3>2. QED
      BY <2>1, <2>2, <3>1
  <2>4. known \subseteq Empties => G[k] \subseteq Empties
    <3>1. arena.nodes[count - k].kind \in Kinds
      BY <2>1 DEF ArenaShape, WellFormed, NodeShape, AllNodes
    <3>2. G[k - 1] \subseteq Empties /\ MatchesEmpty(count - k, G[k - 1]) => count - k \in Empties
      BY <2>1, <3>1, EmptiesLeast, MatchesEmptyGrows
    <3>3. QED
      BY <2>1, <3>2 DEF Known
  <2>5. QED
    BY <2>2, <2>3, <2>4
<1>13. \A k \in 0 .. count : k \in S
  <2> HIDE DEF S
  <2> QED BY <1>1, <1>11, <1>12, CountUp
<1>14. count \in S
  <2>1. count \in 0 .. count
    BY <1>1
  <2>2. QED
    BY <1>13, <2>1
<1>15. ASSUME Sweep(known) = known, NEW n \in AllNodes, MatchesEmpty(n, known)
       PROVE  n \in known
  <2>1. \A k \in 0 .. count : G[k] = known
    <3> TAKE k \in 0 .. count
    <3>1. 0 \in 0 .. k /\ k \in 0 .. count
      BY <1>1
    <3>2. G[0] \subseteq G[k] /\ G[k] \subseteq G[count]
      BY <1>13, <1>14, <3>1
    <3>3. QED
      BY <1>2, <1>9, <1>15, <3>2
  <2>2. count - n \in 1 .. count /\ count - (count - n) = n
    BY <1>1
  <2>3. count - n \in 0 .. count /\ (count - n) - 1 \in 0 .. count
    BY <1>1
  <2>4. known = Known(n, known)
    BY <1>10, <2>1, <2>2, <2>3
  <2>5. QED
    BY <1>15, <2>4 DEF Known
<1>16. QED
  BY <1>2, <1>14, <1>15

(* What has a derivation of length zero depends on the arena alone.        *)
LEMMA EmptiesStay ==
  ASSUME arena' = arena
  PROVE  Empties' = Empties
<1>1. Derivable' = Derivable
  BY DEF Derivable, Derive, SumOf, AllNodes, Successors, Kind, Parts
<1>2. QED
  BY <1>1 DEF Empties, AllNodes

(* What is known to match the empty string does, and from the end of the   *)
(* sweeps on it is all that does.                                          *)
NullInv ==
  /\ nullable \subseteq Empties
  /\ phase # "nullable" => nullable = Empties

(* Every step of the analyses keeps this.                                  *)
LEMMA NullStep ==
  ASSUME Inv, NullInv, [Next]_vars
  PROVE  NullInv'
<1>1. CASE Nullable
  <2>1. arena' = arena /\ nullable' = Sweep(nullable) /\ ArenaShape /\ phase = "nullable"
        /\ (nullable' # nullable => phase' = phase)
    BY <1>1 DEF Nullable, Inv
  <2>2. nullable \in SUBSET AllNodes /\ Empties \in SUBSET AllNodes
    BY DEF NullInv, Empties
  <2>3. nullable' \subseteq Empties
    BY <2>1, <2>2, SweepFacts DEF NullInv
  <2>4. nullable' = nullable => nullable = Empties
    BY <2>1, <2>2, SweepFacts, EmptiesLeast DEF NullInv
  <2>5. QED
    BY <2>1, <2>3, <2>4, EmptiesStay DEF NullInv
<1>2. CASE LeftRecursion \/ ShortestMatches \/ Compatibility \/ UNCHANGED vars
  <2>1. nullable' = nullable
    BY <1>2 DEF LeftRecursion, ShortestMatches, Compatibility, vars
  <2>3. phase = "nullable" => phase' = "nullable"
    BY <1>2 DEF LeftRecursion, ShortestMatches, Compatibility, vars
  <2>4. arena' = arena
    BY <1>2 DEF LeftRecursion, ShortestMatches, Compatibility, vars, KnuthNext, Discard, Finalize
  <2>5. QED
    BY <2>1, <2>3, <2>4, EmptiesStay DEF NullInv
<1>3. QED
  BY <1>1, <1>2 DEF Next

(* It is an invariant of the analyses.                                     *)
LEMMA NullAlways == Spec => []NullInv
<1>1. Init => NullInv
  BY DEF Init, NullInv
<1>2. QED
  BY <1>1, InvAlways, NullStep, PTL DEF Spec

(* Whatever the grammar, the nodes the sweeps end with are exactly those   *)
(* with a derivation of length zero: no sweep goes beyond them, and the one*)
(* that changes nothing has nothing left to find (check.rs, nullability).  *)
THEOREM NullabilityExact == Spec => []NullableExact
<1>1. NullInv => NullableExact
  BY DEF NullInv, NullableExact, Empties
<1>2. QED
  BY <1>1, NullAlways, PTL

-----------------------------------------------------------------------------
(* What comes first, and what can be stood on without reading.             *)

FirstStep == [n \in AllNodes |-> Foremost(n)]
StandStep == [n \in AllNodes |-> Standing(n, Derivable)]

(* Both kinds of steps lead from nodes to nodes, the first-graph's forward *)
(* in the arena; they differ at references alone.                          *)
LEMMA FirstFacts ==
  ASSUME ArenaShape, nullable = Empties
  PROVE  /\ FirstStep \in [AllNodes -> SUBSET AllNodes]
         /\ StandStep \in [AllNodes -> SUBSET AllNodes]
         /\ \A n \in AllNodes : \A m \in FirstStep[n] : n < m
         /\ \A n \in AllNodes : FirstStep[n] \subseteq StandStep[n]
         /\ \A n \in AllNodes : Kind(n) # "ref" => StandStep[n] = FirstStep[n]
         /\ \A n \in AllNodes : Kind(n) = "ref" =>
              FirstStep[n] = {} /\ StandStep[n] = {arena.body[arena.nodes[n].target]}
<1>1. ASSUME NEW n \in AllNodes
      PROVE  /\ Foremost(n) \in SUBSET Children(n)
             /\ Kind(n) # "ref" => Standing(n, Derivable) = Foremost(n)
             /\ Kind(n) = "ref" => /\ Foremost(n) = {}
                                   /\ Standing(n, Derivable) = {arena.body[arena.nodes[n].target]}
  <2>1. Parts(n) \in Seq(AllNodes)
    BY ShapeFacts
  <2>2. Foremost(n) \in SUBSET Children(n)
    BY DEF Foremost, Children
  <2>3. CASE Kind(n) = "concat"
    <3>1. \A i \in DOMAIN Parts(n) : \A j \in 1 .. i - 1 : Parts(n)[j] \in AllNodes
      BY <2>1
    <3>2. \A i \in DOMAIN Parts(n) : \A j \in 1 .. i - 1 :
            Parts(n)[j] \in nullable <=> Derivable[Parts(n)[j]] = 1
      BY <3>1 DEF Empties
    <3>3. QED
      BY <2>2, <2>3, <3>2 DEF Foremost, Standing
  <2>4. CASE Kind(n) = "ref"
    BY <2>2, <2>4, StepTypes, RefIsMet DEF Foremost, Standing
  <2>5. CASE Kind(n) \notin {"concat", "ref"}
    BY <2>2, <2>5 DEF Foremost, Standing, Reachable, Successors, Children
  <2>6. QED
    BY <2>3, <2>4, <2>5
<1>2. \A n \in AllNodes : Children(n) \in SUBSET AllNodes /\ \A m \in Children(n) : n < m
  BY StepTypes DEF ArenaShape
<1>3. \A n \in AllNodes : Kind(n) = "ref" => arena.body[arena.nodes[n].target] \in AllNodes
  BY StepTypes
<1>4. \A n \in AllNodes : FirstStep[n] = Foremost(n) /\ StandStep[n] = Standing(n, Derivable)
  BY DEF FirstStep, StandStep
<1>5. FirstStep \in [AllNodes -> SUBSET AllNodes]
  BY <1>1, <1>2 DEF FirstStep
<1>6. StandStep \in [AllNodes -> SUBSET AllNodes]
  <2>1. \A n \in AllNodes : Standing(n, Derivable) \in SUBSET AllNodes
    BY <1>1, <1>2, <1>3
  <2>2. QED
    BY <2>1 DEF StandStep
<1>7. QED
  BY <1>1, <1>2, <1>4, <1>5, <1>6

(* Both closures are hulls.                                                *)
LEMMA FirstGraphIs ==
  ASSUME ArenaShape, nullable = Empties, NEW r \in AllRules
  PROVE  FirstGraph[r] = Targets(Hull({arena.body[r]}, FirstStep, AllNodes))
<1> DEFINE P(g) == g = [S \in SUBSET AllNodes |->
                          LET T == S \cup UNION {Foremost(n) : n \in S}
                          IN  IF T = S THEN S ELSE g[T]]
           G == CHOOSE g : P(g)
           h == [S \in SUBSET AllNodes |-> Hull(S, FirstStep, AllNodes)]
<1>1. IsFiniteSet(AllNodes) /\ FirstStep \in [AllNodes -> SUBSET AllNodes]
        /\ {arena.body[r]} \in SUBSET AllNodes
  BY FirstFacts, StepTypes, NumberedFacts DEF ArenaShape
<1>2. FirstGraph[r] = Targets(G[{arena.body[r]}])
  BY DEF FirstGraph, Closure
<1>3. \A S \in SUBSET AllNodes : UNION {FirstStep[s] : s \in S} = UNION {Foremost(n) : n \in S}
  BY DEF FirstStep
<1>4. P(h)
  <2>1. Grows(h, FirstStep, AllNodes)
    BY <1>1, HullIsGrown
  <2>2. QED
    BY <1>3, <2>1 DEF Grows
<1>5. P(G)
  <2> HIDE DEF P, h
  <2> QED BY <1>4
<1>6. Grows(G, FirstStep, AllNodes)
  <2> HIDE DEF G
  <2> QED BY <1>3, <1>5 DEF Grows
<1> HIDE DEF G
<1>7. QED
  BY <1>1, <1>2, <1>6, GrownIsHull

(* What RejectedExact looks at, growing a set until it stops, is the least *)
(* set closed under its steps.                                             *)
LEMMA StandingIsHull ==
  ASSUME ArenaShape, nullable = Empties, NEW x \in AllNodes
  PROVE  LET known   == Derivable
             next(n) == Standing(n, known)
         IN  Closure(next(x), next) = Hull(StandStep[x], StandStep, AllNodes)
<1> DEFINE P(g) == g = [S \in SUBSET AllNodes |->
                          LET T == S \cup UNION {Standing(n, Derivable) : n \in S}
                          IN  IF T = S THEN S ELSE g[T]]
           G == CHOOSE g : P(g)
           h == [S \in SUBSET AllNodes |-> Hull(S, StandStep, AllNodes)]
<1>1. IsFiniteSet(AllNodes) /\ StandStep \in [AllNodes -> SUBSET AllNodes]
        /\ StandStep[x] \in SUBSET AllNodes
  BY FirstFacts, NumberedFacts DEF ArenaShape
<1>2. StandStep[x] = Standing(x, Derivable)
  BY DEF StandStep
<1>3. \A S \in SUBSET AllNodes :
        UNION {StandStep[s] : s \in S} = UNION {Standing(n, Derivable) : n \in S}
  BY DEF StandStep
<1>4. P(h)
  <2>1. Grows(h, StandStep, AllNodes)
    BY <1>1, HullIsGrown
  <2>2. QED
    BY <1>3, <2>1 DEF Grows
<1>5. P(G)
  <2> HIDE DEF P, h
  <2> QED BY <1>4
<1>6. Grows(G, StandStep, AllNodes)
  <2> HIDE DEF G
  <2> QED BY <1>3, <1>5 DEF Grows
<1>7. G[StandStep[x]] = Hull(StandStep[x], StandStep, AllNodes)
  <2> HIDE DEF G
  <2> QED BY <1>1, <1>6, GrownIsHull
<1>8. G[Standing(x, Derivable)] = Hull(StandStep[x], StandStep, AllNodes)
  <2> HIDE DEF G
  <2> QED BY <1>2, <1>7
<1>9. QED
  BY <1>8 DEF Closure

(* A nonempty set of numbers within the arena has a last one.              *)
LEMMA LastNode ==
  ASSUME ArenaShape, NEW S \in SUBSET AllNodes, S # {}
  PROVE  \E n \in S : \A m \in S : m <= n
<1> DEFINE top == Cardinality(AllNodes)
           Less == {top - n : n \in S}
<1>1. top \in Nat /\ AllNodes = 0 .. top - 1
  BY NumberedFacts DEF ArenaShape, Numbered
<1> HIDE DEF top
<1>2. \A n \in S : n \in Nat /\ top - n \in Nat
  BY <1>1
<1>3. Less \in SUBSET Nat /\ Less # {}
  BY <1>2
<1>4. PICK k \in Less : \A j \in Less : k <= j
  <2> HIDE DEF Less
  <2> QED BY <1>3, LeastExists
<1>5. PICK n \in S : k = top - n
  BY <1>4
<1>6. \A m \in S : top - n <= top - m
  BY <1>4, <1>5
<1>7. QED
  BY <1>1, <1>2, <1>5, <1>6

(* A set of nodes in which each can be followed by one of it without       *)
(* reading anything holds references to rules of which the same is true.   *)
LEMMA NodesToRules ==
  ASSUME ArenaShape, nullable = Empties, NEW N \in SUBSET AllNodes, N # {},
         \A n \in N : StandStep[n] \cap N # {}
  PROVE  \E T \in SUBSET AllRules : T # {} /\ \A r \in T : FirstGraph[r] \cap T # {}
<1> DEFINE refs == {n \in N : Kind(n) = "ref"}
           T == {arena.nodes[n].target : n \in refs}
<1>1. T \in SUBSET AllRules
  BY StepTypes
<1>2. ASSUME NEW S \in SUBSET N, S # {}, \A n \in S : FirstStep[n] \cap N \subseteq S
      PROVE  S \cap refs # {}
  <2>1. PICK n \in S : \A m \in S : m <= n
    BY <1>2, LastNode
  <2>2. n \in AllNodes
    BY <1>2
  <2>3. CASE Kind(n) = "ref"
    BY <2>3
  <2>4. CASE Kind(n) # "ref"
    <3>1. PICK m \in FirstStep[n] : m \in N
      BY <2>2, <2>4, FirstFacts
    <3>2. m \in S /\ n < m /\ m <= n
      BY <1>2, <2>1, <2>2, <3>1, FirstFacts
    <3>3. n \in Nat /\ m \in Nat
      BY <2>2, <3>1, NumberedFacts DEF ArenaShape
    <3>4. QED
      BY <3>2, <3>3
  <2>5. QED
    BY <2>3, <2>4
<1>3. T # {}
  <2>1. N \cap refs # {}
    BY <1>2
  <2>2. QED
    BY <2>1
<1>4. ASSUME NEW r \in T PROVE FirstGraph[r] \cap T # {}
  <2> DEFINE H == Hull({arena.body[r]}, FirstStep, AllNodes)
  <2>1. PICK n \in refs : arena.nodes[n].target = r
    OBVIOUS
  <2>2. r \in AllRules /\ arena.body[r] \in N
    <3>1. StandStep[n] = {arena.body[r]} /\ StandStep[n] \cap N # {}
      BY <2>1, FirstFacts
    <3>2. QED
      BY <1>1, <3>1
  <2>3. H \in SUBSET AllNodes /\ arena.body[r] \in H /\ Closed(H, FirstStep)
    <3>1. FirstStep \in [AllNodes -> SUBSET AllNodes] /\ {arena.body[r]} \in SUBSET AllNodes
      BY <2>2, FirstFacts
    <3>2. QED
      BY <3>1, HullFacts
  <2> HIDE DEF H
  <2>4. H \cap N \cap refs # {}
    <3>1. H \cap N # {} /\ H \cap N \in SUBSET N
      BY <2>2, <2>3
    <3>2. \A m \in H \cap N : FirstStep[m] \cap N \subseteq H \cap N
      BY <2>3 DEF Closed
    <3>3. QED
      BY <1>2, <3>1, <3>2
  <2>5. PICK m \in H : m \in refs
    BY <2>4
  <2>6. arena.nodes[m].target \in T /\ arena.nodes[m].target \in Targets(H)
    BY <1>1, <2>5 DEF Targets
  <2>7. FirstGraph[r] = Targets(H)
    BY <2>2, FirstGraphIs DEF H
  <2>8. QED
    BY <2>6, <2>7
<1>5. QED
  BY <1>1, <1>3, <1>4

(* And the other way round: the nodes on the way to such rules.            *)
LEMMA RulesToNodes ==
  ASSUME ArenaShape, nullable = Empties, NEW T \in SUBSET AllRules, T # {},
         \A r \in T : FirstGraph[r] \cap T # {}
  PROVE  \E N \in SUBSET AllNodes : N # {} /\ \A n \in N : StandStep[n] \cap N # {}
<1> DEFINE H(n) == Hull({n}, FirstStep, AllNodes)
           N == {n \in AllNodes : \E m \in H(n) : Kind(m) = "ref" /\ arena.nodes[m].target \in T}
<1>1. FirstStep \in [AllNodes -> SUBSET AllNodes]
  BY FirstFacts
<1>2. \A r \in T : arena.body[r] \in N
  <2> TAKE r \in T
  <2>1. r \in AllRules /\ arena.body[r] \in AllNodes
    BY StepTypes
  <2>2. FirstGraph[r] = Targets(H(arena.body[r]))
    BY <2>1, FirstGraphIs
  <2>3. PICK t \in T : t \in Targets(H(arena.body[r]))
    BY <2>2
  <2>4. QED
    BY <2>1, <2>3 DEF Targets
<1>3. N # {}
  BY <1>2
<1>4. ASSUME NEW n \in N PROVE StandStep[n] \cap N # {}
  <2>1. PICK m \in H(n) : Kind(m) = "ref" /\ arena.nodes[m].target \in T
    OBVIOUS
  <2>2. n \in AllNodes
    OBVIOUS
  <2>3. CASE m = n
    <3>1. StandStep[n] = {arena.body[arena.nodes[n].target]}
      BY <2>1, <2>2, <2>3, FirstFacts
    <3>2. QED
      BY <1>2, <2>1, <2>3, <3>1
  <2>4. CASE m # n
    <3>1. PICK s \in FirstStep[n] : m \in H(s)
      BY <1>1, <2>1, <2>2, <2>4, HullOfOne
    <3>2. s \in AllNodes /\ s \in StandStep[n]
      BY <1>1, <2>2, FirstFacts
    <3>3. s \in N
      BY <2>1, <3>1, <3>2
    <3>4. QED
      BY <3>2, <3>3
  <2>5. QED
    BY <2>3, <2>4
<1>5. QED
  BY <1>3, <1>4

(* The first-graph has a cycle just when a node can be come back to        *)
(* without reading.                                                        *)
LEMMA CyclesAreStanding ==
  ASSUME ArenaShape, nullable = Empties, edges = FirstGraph
  PROVE  ~Acyclic(RuleIndices) <=>
           LET known   == Derivable
               next(n) == Standing(n, known)
           IN  \E n \in AllNodes : n \in Closure(next(n), next)
<1>1. RuleIndices = AllRules
  BY FirstGraphShape DEF RuleIndices
<1>2. ~Acyclic(RuleIndices) <=>
        \E T \in SUBSET AllRules : T # {} /\ \A r \in T : FirstGraph[r] \cap T # {}
  BY <1>1 DEF Acyclic
<1>3. (\E n \in AllNodes : n \in Hull(StandStep[n], StandStep, AllNodes)) <=>
        \E N \in SUBSET AllNodes : N # {} /\ \A n \in N : StandStep[n] \cap N # {}
  <2>1. IsFiniteSet(AllNodes) /\ StandStep \in [AllNodes -> SUBSET AllNodes]
    BY FirstFacts, NumberedFacts DEF ArenaShape
  <2>2. QED
    BY <2>1, Knots
<1>4. ~Acyclic(RuleIndices) <=> \E n \in AllNodes : n \in Hull(StandStep[n], StandStep, AllNodes)
  BY <1>2, <1>3, NodesToRules, RulesToNodes
<1>5. QED
  BY <1>4, StandingIsHull

-----------------------------------------------------------------------------
(* The first-graph depends on the arena and on what is nullable alone.     *)
LEMMA FirstGraphStays ==
  ASSUME arena' = arena, nullable' = nullable
  PROVE  FirstGraph' = FirstGraph
  BY DEF FirstGraph, Targets, Closure, Foremost, AllRules, AllNodes, Children, IsNever, Kind, Parts

(* What was searched is the first-graph of the nodes that match the empty  *)
(* string, all of it, and the grammar is rejected if that turned up a cycle*)
LeftInv ==
  /\ phase \in {"nullable", "cycles", "rejected", "shortest", "reach", "checked"}
  /\ phase # "nullable" => edges = FirstGraph
  /\ phase \in {"rejected", "shortest", "reach", "checked"} =>
       Searched /\ (phase = "rejected" <=> errors # << >>)

(* Every step of the analyses keeps this.                                  *)
LEMMA LeftStep ==
  ASSUME LeftInv, [Next]_vars
  PROVE  LeftInv'
<1>1. CASE Nullable
  <2>1. arena' = arena /\ phase = "nullable"
    BY <1>1 DEF Nullable
  <2>2. CASE nullable' # nullable
    BY <1>1, <2>1, <2>2 DEF Nullable, LeftInv
  <2>3. CASE nullable' = nullable
    <3>1. phase' = "cycles" /\ edges' = FirstGraph
      BY <1>1, <2>3 DEF Nullable
    <3>2. QED
      BY <2>1, <2>3, <3>1, FirstGraphStays DEF LeftInv
  <2>4. QED
    BY <2>2, <2>3
<1>2. CASE LeftRecursion /\ Searched
  <2>1. UNCHANGED <<arena, nullable, edges, color, stack, errors>> /\ phase = "cycles"
        /\ phase' = IF errors = << >> THEN "shortest" ELSE "rejected"
    BY <1>2 DEF LeftRecursion, search
  <2>2. Searched'
    BY <1>2, <2>1 DEF Searched, White, RuleIndices
  <2>3. QED
    BY <2>1, <2>2, FirstGraphStays DEF LeftInv
<1>3. CASE LeftRecursion /\ ~Searched
  <2>1. UNCHANGED <<arena, nullable, phase>> /\ SearchNext /\ phase = "cycles"
    BY <1>3 DEF LeftRecursion
  <2>2. edges' = edges
    BY <2>1 DEF SearchNext, Root, Descend, CloseCycle, Skip, Finish, Follow
  <2>3. QED
    BY <2>1, <2>2, FirstGraphStays DEF LeftInv
<1>4. CASE ShortestMatches \/ Compatibility \/ UNCHANGED vars
  <2>1. UNCHANGED <<arena, nullable, edges, color, stack, errors>>
    BY <1>4 DEF ShortestMatches, Compatibility, vars, search, KnuthNext, Discard, Finalize
  <2>2. phase' = phase \/ (phase \in {"shortest", "reach"} /\ phase' \in {"reach", "checked"})
    <3>1. ShortestMatches => phase' = phase \/ (phase = "shortest" /\ phase' = "reach")
      BY DEF ShortestMatches
    <3>2. Compatibility => phase = "reach" /\ phase' \in {"reach", "checked"}
      BY DEF Compatibility
    <3>3. UNCHANGED vars => phase' = phase
      BY DEF vars
    <3>4. QED
      BY <1>4, <3>1, <3>2, <3>3
  <2>3. Searched => Searched'
    BY <2>1 DEF Searched, White, RuleIndices
  <2>4. QED
    BY <2>1, <2>2, <2>3, FirstGraphStays DEF LeftInv
<1>5. QED
  BY <1>1, <1>2, <1>3, <1>4 DEF Next

(* Whoever comes back to a node without reading does so by way of a rule,  *)
(* and the search looked at all of those.                                  *)
LEMMA LeftEnd ==
  ASSUME Inv, NullInv, LeftInv
  PROVE  RejectedExact
<1>1. SUFFICES ASSUME Answered
               PROVE  LET known   == Derivable
                          next(n) == Standing(n, known)
                      IN  phase = "rejected" <=> \E n \in AllNodes : n \in Closure(next(n), next)
  BY DEF RejectedExact
<1>2. /\ ArenaShape /\ nullable = Empties /\ edges = FirstGraph
      /\ Searched /\ (phase = "rejected" <=> errors # << >>)
  BY <1>1 DEF Answered, Inv, NullInv, LeftInv
<1>3. AcceptsExact
  BY SearchEnd DEF Inv
<1>4. phase = "rejected" <=> ~Acyclic(RuleIndices)
  BY <1>2, <1>3 DEF AcceptsExact
<1>5. QED
  BY <1>2, <1>4, CyclesAreStanding

(* A grammar is rejected exactly when a recognizer could come back to a    *)
(* node without having read anything, whatever the grammar: the first-graph*)
(* over the rules neither misses such a way round nor makes one up         *)
(* (check.rs, first_graph and left_recursion).                              *)
THEOREM RejectedExactly == Spec => []RejectedExact
<1>1. Init => LeftInv
  BY DEF Init, LeftInv
<1>2. QED
  BY <1>1, LeftStep, InvAlways, NullAlways, LeftEnd, PTL DEF Spec
-----------------------------------------------------------------------------
(* What costs are, and the order on them.                                  *)

Costs == [length : 0 .. MaxU64, steps : Nat]

(* Costs are ordered by pairs of numbers.                                  *)
LEMMA OrderFacts ==
  ASSUME MaxU64 \in Nat,
         NEW a, a.length \in 0 .. MaxU64, a.steps \in Nat,
         NEW b, b.length \in 0 .. MaxU64, b.steps \in Nat,
         NEW c, c.length \in 0 .. MaxU64, c.steps \in Nat
  PROVE  /\ ~Before(b, a) /\ ~Before(c, b) => ~Before(c, a)
         /\ Before(a, b) /\ ~Before(c, b) => Before(a, c)
         /\ ~Before(b, a) /\ Before(b, c) => Before(a, c)
         /\ Before(a, b) => ~Before(b, a)
         /\ ~Before(b, a) => a.length <= b.length
         /\ ~Before(a, b) /\ ~Before(b, a) => a.length = b.length /\ a.steps = b.steps
         /\ ~Before(a, a)
  BY DEF Before

(* Cutting lengths off keeps their order, and may be done early or late.   *)
LEMMA SaturatedFacts ==
  ASSUME MaxU64 \in Nat
  PROVE  /\ \A x \in Nat : Saturated(x) \in 0 .. MaxU64 /\ Saturated(x) <= x
         /\ \A x \in 0 .. MaxU64 : Saturated(x) = x
         /\ \A x, y \in Nat : x <= y => Saturated(x) <= Saturated(y)
         /\ \A x, y \in Nat : Saturated(Saturated(x) + Saturated(y)) = Saturated(x + y)
  BY DEF Saturated

(* The lengths of the first items added up.                                *)
LEMMA TotalFacts ==
  ASSUME MaxU64 \in Nat, NEW parts \in Seq(AllNodes), NEW price,
         \A i \in DOMAIN parts : price[parts[i]].length \in 0 .. MaxU64
  PROVE  \E t \in [0 .. Len(parts) -> 0 .. MaxU64] :
           /\ t[0] = 0
           /\ \A i \in 1 .. Len(parts) : t[i] = Saturated(t[i - 1] + price[parts[i]].length)
           /\ TotalLength(parts, price) = t[Len(parts)]
<1> DEFINE n == Len(parts)
           V == 0 .. MaxU64
           P(g) == g = [i \in 0 .. n |->
                          IF i = 0 THEN 0 ELSE Saturated(g[i - 1] + price[parts[i]].length)]
           G == CHOOSE g : P(g)
           h == [x \in (1 .. n) \X V |-> Saturated(x[2] + price[parts[x[1]]].length)]
<1>1. n \in Nat /\ DOMAIN parts = 1 .. n /\ 0 \in V
  OBVIOUS
<1>2. \A i \in 1 .. n : price[parts[i]].length \in Nat
  OBVIOUS
<1>3. \A i \in 1 .. n, x \in V : Saturated(x + price[parts[i]].length) \in V
  <2> TAKE i \in 1 .. n, x \in V
  <2>1. x + price[parts[i]].length \in Nat
    BY <1>2
  <2>2. QED
    BY <2>1, SaturatedFacts
<1>4. h \in [(1 .. n) \X V -> V]
  <2> HIDE DEF V
  <2> QED BY <1>3
<1>5. PICK g \in [0 .. n -> V] : Iterates(g, n, 0, h)
  <2> HIDE DEF h, n, V
  <2> QED BY <1>1, <1>4, IterationExists
<1>6. \A i \in 1 .. n : g[i] = Saturated(g[i - 1] + price[parts[i]].length)
  <2> TAKE i \in 1 .. n
  <2>1. g[i - 1] \in V
    OBVIOUS
  <2>2. h[<<i, g[i - 1]>>] = Saturated(g[i - 1] + price[parts[i]].length)
    BY <2>1
  <2> HIDE DEF h
  <2>3. QED
    BY <1>5, <2>2 DEF Iterates
<1>7. g[0] = 0
  BY <1>5 DEF Iterates
<1>8. P(g)
  <2>1. \A i \in 0 .. n : i # 0 => i \in 1 .. n
    OBVIOUS
  <2>2. QED
    BY <1>6, <1>7, <2>1
<1>9. P(G)
  <2> HIDE DEF P
  <2> QED BY <1>8
<1>10. TotalLength(parts, price) = G[n]
  BY DEF TotalLength
<1>11. G = g
  <2> HIDE DEF G
  <2>1. /\ G[0] = 0
        /\ \A i \in 1 .. n : G[i] = Saturated(G[i - 1] + price[parts[i]].length)
    <3>1. 0 \in 0 .. n /\ \A i \in 1 .. n : i \in 0 .. n /\ i # 0
      OBVIOUS
    <3>2. QED
      BY <1>9, <3>1
  <2> DEFINE S == {i \in 0 .. n : G[i] = g[i]}
  <2>2. 0 \in S
    BY <1>7, <2>1
  <2>3. ASSUME NEW i \in 1 .. n, i - 1 \in S PROVE i \in S
    BY <1>6, <2>1, <2>3
  <2>4. \A i \in 0 .. n : i \in S
    <3> HIDE DEF S
    <3> QED BY <1>1, <2>2, <2>3, CountUp
  <2>5. \A i \in 0 .. n : G[i] = g[i]
    BY <2>4
  <2>6. QED
    BY <1>9, <2>5
<1>12. QED
  BY <1>6, <1>7, <1>10, <1>11

(* A total is a length, and no item is longer.                             *)
LEMMA TotalAtLeast ==
  ASSUME MaxU64 \in Nat, NEW parts \in Seq(AllNodes), NEW price,
         \A i \in DOMAIN parts : price[parts[i]].length \in 0 .. MaxU64
  PROVE  /\ TotalLength(parts, price) \in 0 .. MaxU64
         /\ \A i \in DOMAIN parts : price[parts[i]].length <= TotalLength(parts, price)
<1> DEFINE n == Len(parts)
<1>1. PICK t \in [0 .. n -> 0 .. MaxU64] :
        /\ t[0] = 0
        /\ \A i \in 1 .. n : t[i] = Saturated(t[i - 1] + price[parts[i]].length)
        /\ TotalLength(parts, price) = t[n]
  BY TotalFacts
<1>2. n \in Nat /\ DOMAIN parts = 1 .. n
  OBVIOUS
<1> HIDE DEF n
<1> DEFINE S == {i \in 0 .. n : \A j \in 1 .. i : price[parts[j]].length <= t[i]}
<1>3. 0 \in S
  BY <1>2
<1>4. ASSUME NEW i \in 1 .. n, i - 1 \in S PROVE i \in S
  <2>1. i - 1 \in 0 .. n /\ i \in 0 .. n /\ i \in DOMAIN parts
    BY <1>2
  <2>2. t[i - 1] \in 0 .. MaxU64 /\ price[parts[i]].length \in 0 .. MaxU64
    BY <2>1
  <2>3. t[i] = Saturated(t[i - 1] + price[parts[i]].length)
    BY <1>1
  <2>4. t[i - 1] <= t[i] /\ price[parts[i]].length <= t[i]
    BY <2>2, <2>3 DEF Saturated
  <2>5. ASSUME NEW j \in 1 .. i PROVE price[parts[j]].length <= t[i]
    <3>1. CASE j = i
      BY <2>4, <3>1
    <3>2. CASE j # i
      <4>1. j \in 1 .. i - 1 /\ j \in DOMAIN parts
        BY <1>2, <2>1, <3>2
      <4>2. price[parts[j]].length <= t[i - 1] /\ price[parts[j]].length \in 0 .. MaxU64
        BY <1>4, <4>1
      <4>3. t[i] \in 0 .. MaxU64
        BY <2>1
      <4>4. QED
        BY <2>2, <2>4, <4>2, <4>3
    <3>3. QED
      BY <3>1, <3>2
  <2>6. QED
    BY <2>1, <2>5
<1>5. \A i \in 0 .. n : i \in S
  <2> HIDE DEF S
  <2> QED BY <1>2, <1>3, <1>4, CountUp
<1>6. n \in 0 .. n
  BY <1>2
<1>7. QED
  BY <1>1, <1>2, <1>5, <1>6

(* A total depends on the lengths of the items alone.                      *)
LEMMA TotalLocal ==
  ASSUME NEW parts \in Seq(AllNodes), NEW price, NEW price2,
         \A i \in DOMAIN parts : price2[parts[i]] = price[parts[i]],
         MaxU64 \in Nat, \A i \in DOMAIN parts : price[parts[i]].length \in 0 .. MaxU64
  PROVE  TotalLength(parts, price2) = TotalLength(parts, price)
<1> DEFINE n == Len(parts)
<1>1. PICK t \in [0 .. n -> 0 .. MaxU64] :
        /\ t[0] = 0
        /\ \A i \in 1 .. n : t[i] = Saturated(t[i - 1] + price[parts[i]].length)
        /\ TotalLength(parts, price) = t[n]
  BY TotalFacts
<1>2. PICK u \in [0 .. n -> 0 .. MaxU64] :
        /\ u[0] = 0
        /\ \A i \in 1 .. n : u[i] = Saturated(u[i - 1] + price2[parts[i]].length)
        /\ TotalLength(parts, price2) = u[n]
  <2>1. \A i \in DOMAIN parts : price2[parts[i]].length \in 0 .. MaxU64
    OBVIOUS
  <2>2. QED
    BY <2>1, TotalFacts
<1>3. n \in Nat /\ DOMAIN parts = 1 .. n
  OBVIOUS
<1> HIDE DEF n
<1> DEFINE S == {i \in 0 .. n : t[i] = u[i]}
<1>4. 0 \in S
  BY <1>1, <1>2, <1>3
<1>5. ASSUME NEW i \in 1 .. n, i - 1 \in S PROVE i \in S
  <2>1. i \in 0 .. n /\ i \in DOMAIN parts /\ t[i - 1] = u[i - 1]
    BY <1>3, <1>5
  <2>2. price2[parts[i]] = price[parts[i]]
    BY <2>1
  <2>3. t[i] = u[i]
    BY <1>1, <1>2, <2>1, <2>2
  <2>4. QED
    BY <2>1, <2>3
<1>6. \A i \in 0 .. n : i \in S
  <2> HIDE DEF S
  <2> QED BY <1>3, <1>4, <1>5, CountUp
<1>7. n \in 0 .. n
  BY <1>3
<1>8. QED
  BY <1>1, <1>2, <1>6, <1>7

(* A total of cut-off lengths is the sum, cut off.                         *)
LEMMA TotalAgainstSum ==
  ASSUME NEW parts \in Seq(AllNodes), NEW price, MaxU64 \in Nat,
         \A i \in DOMAIN parts : price[parts[i]].length \in 0 .. MaxU64,
         NEW known \in Lengths, \A i \in DOMAIN parts : known[parts[i]] # 0
  PROVE  /\ SumOf(parts, known) \in Nat
         /\ (\A i \in DOMAIN parts : price[parts[i]].length <= Saturated(known[parts[i]] - 1))
              => TotalLength(parts, price) <= Saturated(SumOf(parts, known))
         /\ (\A i \in DOMAIN parts : Saturated(known[parts[i]] - 1) <= price[parts[i]].length)
              => Saturated(SumOf(parts, known)) <= TotalLength(parts, price)
         /\ \A i \in DOMAIN parts : known[parts[i]] - 1 <= SumOf(parts, known)
<1> DEFINE n == Len(parts)
<1>1. PICK t \in [0 .. n -> 0 .. MaxU64] :
        /\ t[0] = 0
        /\ \A i \in 1 .. n : t[i] = Saturated(t[i - 1] + price[parts[i]].length)
        /\ TotalLength(parts, price) = t[n]
  BY TotalFacts
<1>2. PICK s \in [0 .. n -> Nat] :
        /\ s[0] = 0
        /\ \A i \in 1 .. n : s[i] = s[i - 1] + known[parts[i]] - 1
        /\ SumOf(parts, known) = s[n]
  BY SumFacts
<1>3. n \in Nat /\ DOMAIN parts = 1 .. n
  OBVIOUS
<1> HIDE DEF n
<1>4. ASSUME NEW i \in 1 .. n
      PROVE  /\ t[i - 1] \in 0 .. MaxU64 /\ s[i - 1] \in Nat
             /\ price[parts[i]].length \in 0 .. MaxU64
             /\ known[parts[i]] - 1 \in Nat /\ known[parts[i]] \in Nat
             /\ t[i] = Saturated(t[i - 1] + price[parts[i]].length)
             /\ s[i] = s[i - 1] + (known[parts[i]] - 1)
  <2>1. i - 1 \in 0 .. n /\ i \in DOMAIN parts /\ parts[i] \in AllNodes
    BY <1>3
  <2>2. known[parts[i]] \in Nat /\ known[parts[i]] # 0
    BY <2>1 DEF Lengths
  <2>3. s[i - 1] \in Nat /\ s[i] = s[i - 1] + known[parts[i]] - 1
    BY <1>2, <2>1
  <2>4. QED
    BY <1>1, <2>1, <2>2, <2>3
<1>5. ASSUME \A i \in DOMAIN parts : price[parts[i]].length <= Saturated(known[parts[i]] - 1)
      PROVE  t[n] <= Saturated(s[n])
  <2> DEFINE S == {i \in 0 .. n : t[i] <= Saturated(s[i])}
  <2>1. 0 \in S
    BY <1>1, <1>2, <1>3 DEF Saturated
  <2>2. ASSUME NEW i \in 1 .. n, i - 1 \in S PROVE i \in S
    <3>1. t[i - 1] <= Saturated(s[i - 1]) /\ price[parts[i]].length <= Saturated(known[parts[i]] - 1)
      BY <1>3, <1>5, <2>2
    <3> DEFINE a == t[i - 1]  b == s[i - 1]  x == price[parts[i]].length  y == known[parts[i]] - 1
    <3>2. a \in Nat /\ b \in Nat /\ x \in Nat /\ y \in Nat /\ a <= Saturated(b) /\ x <= Saturated(y)
          /\ t[i] = Saturated(a + x) /\ s[i] = b + y
      BY <1>4, <3>1
    <3> HIDE DEF a, b, x, y
    <3>3. Saturated(a + x) <= Saturated(b + y)
      BY <3>2 DEF Saturated
    <3>4. QED
      BY <3>2, <3>3
  <2>3. \A i \in 0 .. n : i \in S
    <3> HIDE DEF S
    <3> QED BY <1>3, <2>1, <2>2, CountUp
  <2>4. n \in 0 .. n
    BY <1>3
  <2>5. QED
    BY <2>3, <2>4
<1>6. ASSUME \A i \in DOMAIN parts : Saturated(known[parts[i]] - 1) <= price[parts[i]].length
      PROVE  Saturated(s[n]) <= t[n]
  <2> DEFINE S == {i \in 0 .. n : Saturated(s[i]) <= t[i]}
  <2>1. 0 \in S
    BY <1>1, <1>2, <1>3 DEF Saturated
  <2>2. ASSUME NEW i \in 1 .. n, i - 1 \in S PROVE i \in S
    <3>1. Saturated(s[i - 1]) <= t[i - 1] /\ Saturated(known[parts[i]] - 1) <= price[parts[i]].length
      BY <1>3, <1>6, <2>2
    <3> DEFINE a == t[i - 1]  b == s[i - 1]  x == price[parts[i]].length  y == known[parts[i]] - 1
    <3>2. a \in Nat /\ b \in Nat /\ x \in Nat /\ y \in Nat /\ Saturated(b) <= a /\ Saturated(y) <= x
          /\ t[i] = Saturated(a + x) /\ s[i] = b + y
      BY <1>4, <3>1
    <3> HIDE DEF a, b, x, y
    <3>3. Saturated(b + y) <= Saturated(a + x)
      BY <3>2 DEF Saturated
    <3>4. QED
      BY <3>2, <3>3
  <2>3. \A i \in 0 .. n : i \in S
    <3> HIDE DEF S
    <3> QED BY <1>3, <2>1, <2>2, CountUp
  <2>4. n \in 0 .. n
    BY <1>3
  <2>5. QED
    BY <2>3, <2>4
<1>7. \A i \in DOMAIN parts : known[parts[i]] - 1 <= s[n]
  <2> DEFINE S == {i \in 0 .. n : \A j \in 1 .. i : known[parts[j]] - 1 <= s[i]}
  <2>1. 0 \in S
    BY <1>3
  <2>2. ASSUME NEW i \in 1 .. n, i - 1 \in S PROVE i \in S
    <3>1. i \in 0 .. n /\ 1 .. i - 1 \subseteq 1 .. n /\ \A j \in 1 .. i : j = i \/ j \in 1 .. i - 1
      BY <1>3
    <3>2. s[i] = s[i - 1] + (known[parts[i]] - 1) /\ s[i - 1] \in Nat /\ known[parts[i]] - 1 \in Nat
      BY <1>4
    <3>3. known[parts[i]] - 1 <= s[i]
      BY <3>2
    <3>4. ASSUME NEW j \in 1 .. i - 1 PROVE known[parts[j]] - 1 <= s[i]
      <4>1. known[parts[j]] - 1 <= s[i - 1] /\ known[parts[j]] - 1 \in Nat
        BY <1>4, <2>2, <3>1
      <4>2. s[i - 1] <= s[i] /\ s[i] \in Nat
        BY <3>2
      <4>3. QED
        BY <3>2, <4>1, <4>2
    <3>5. QED
      BY <3>1, <3>3, <3>4
  <2>3. \A i \in 0 .. n : i \in S
    <3> HIDE DEF S
    <3> QED BY <1>3, <2>1, <2>2, CountUp
  <2>4. n \in 0 .. n
    BY <1>3
  <2>5. QED
    BY <1>3, <2>3, <2>4
<1>8. s[n] \in Nat
  BY <1>3
<1>9. QED
  BY <1>1, <1>2, <1>5, <1>6, <1>7, <1>8

-----------------------------------------------------------------------------
(* What a node can cost, given what is final.                              *)

Priced(price) == price \in [AllNodes -> Costs]

(* Of the final nodes there are, some is cheapest.                         *)
LEMMA CheapestExists ==
  ASSUME ArenaShape, NEW price, Priced(price), NEW S \in SUBSET AllNodes, S # {}
  PROVE  \E b \in S : \A o \in S : ~Before(price[o], price[b])
<1> DEFINE L == {price[n].length : n \in S}
<1>1. \A n \in S : price[n].length \in 0 .. MaxU64 /\ price[n].steps \in Nat
  BY DEF Priced, Costs
<1>2. L \in SUBSET Nat /\ L # {} /\ MaxU64 \in Nat
  BY <1>1 DEF ArenaShape
<1>3. PICK low \in L : \A l \in L : low <= l
  <2> HIDE DEF L
  <2> QED BY <1>2, LeastExists
<1> DEFINE T == {n \in S : price[n].length = low}
           M == {price[n].steps : n \in T}
<1>4. M \in SUBSET Nat /\ M # {}
  BY <1>1, <1>3
<1>5. PICK few \in M : \A m \in M : few <= m
  <2> HIDE DEF M
  <2> QED BY <1>4, LeastExists
<1>6. PICK b \in T : price[b].steps = few
  BY <1>5
<1>7. ASSUME NEW o \in S PROVE ~Before(price[o], price[b])
  <2>1. low <= price[o].length /\ low \in Nat /\ price[o].length \in Nat
    BY <1>1, <1>2, <1>3
  <2>2. price[o].length = low => few <= price[o].steps
    BY <1>5
  <2>3. price[b].length = low /\ price[b].steps = few /\ few \in Nat /\ price[o].steps \in Nat
    BY <1>1, <1>6
  <2>4. QED
    BY <2>1, <2>2, <2>3 DEF Before
<1>8. QED
  BY <1>6, <1>7

(* The cases in which a node's cost depends on its parts, and what it is.  *)
OneOf(p) == Kind(p) \in {"alt", "ref"}
AllOf(p) == Kind(p) = "concat" /\ Parts(p) # << >>
Again(p) == Kind(p) = "repeat" /\ arena.nodes[p].min # 0
NoneOf(p) == Kind(p) = "optional" \/ (Kind(p) = "repeat" /\ arena.nodes[p].min = 0)

(* Every node with parts is of one of these four kinds, and the rest match *)
(* without parts.                                                          *)
LEMMA RelaxCases ==
  ASSUME ArenaShape, NEW p \in AllNodes
  PROVE  /\ Successors(p) \in SUBSET AllNodes
         /\ Successors(p) # {} => OneOf(p) \/ AllOf(p) \/ Again(p) \/ NoneOf(p)
         /\ p \notin Seeds => OneOf(p) \/ AllOf(p) \/ Again(p)
         /\ p \in Seeds => ~(OneOf(p) \/ AllOf(p) \/ Again(p)) /\ Axiom(p) \in Nat
         /\ p \in Seeds /\ Successors(p) # {} => NoneOf(p) /\ Axiom(p) = 0
         /\ NoneOf(p) => p \in Seeds /\ Axiom(p) = 0
         /\ Again(p) => arena.nodes[p].min \in Nat \ {0} /\ Successors(p) = {Parts(p)[1]}
         /\ AllOf(p) => /\ Parts(p) \in Seq(AllNodes) /\ Successors(p) # {}
                        /\ Successors(p) = {Parts(p)[i] : i \in DOMAIN Parts(p)}
<1> DEFINE d == arena.nodes[p]
<1>1. /\ d.kind \in Kinds /\ Kind(p) = d.kind /\ Parts(p) = d.parts
      /\ d.parts \in Seq(AllNodes)
      /\ d.kind \in {"repeat", "optional"} => Len(d.parts) = 1
      /\ d.kind \in {"char", "num", "prose"} => d.parts = << >>
      /\ d.kind = "repeat" => d.min \in Nat
      /\ d.kind = "ref" => Successors(p) = {arena.body[d.target]}
      /\ d.kind # "ref" => Successors(p) = Children(p)
  BY ShapeFacts
<1>2. Successors(p) \in SUBSET AllNodes
  BY StepTypes
<1>3. d.kind \in {"char", "num"} => Len(d.value) \in Nat
  BY DEF ArenaShape, WellFormed, NodeShape, AllNodes
<1>4. None \notin Nat
  BY DEF ArenaShape, WellFormed
<1>5. d.kind = "concat" => (d.parts # << >> => Children(p) # {}) /\ (d.parts = << >> => Children(p) = {})
  <2>1. d.parts # << >> => 1 \in DOMAIN d.parts
    <3> DEFINE s == d.parts
    <3>1. s \in Seq(AllNodes)
      BY <1>1
    <3> HIDE DEF s
    <3>2. s # << >> => 1 \in DOMAIN s
      BY <3>1, EmptySeq, LenProperties
    <3>3. QED
      BY <3>2 DEF s
  <2>2. d.kind = "concat" => Children(p) = {d.parts[i] : i \in DOMAIN d.parts}
    BY <1>1 DEF Children
  <2>3. d.parts = << >> => DOMAIN d.parts = {}
    OBVIOUS
  <2>4. QED
    BY <2>1, <2>2, <2>3
<1>6. Again(p) => Children(p) = {Parts(p)[1]}
  <2>1. Again(p) => DOMAIN d.parts = {1}
    BY <1>1 DEF Again
  <2>2. QED
    BY <1>1, <2>1 DEF Children
<1>7. p \in Seeds <=> Axiom(p) # None
  BY DEF Seeds
<1>8. /\ d.kind \in {"char", "num"} => Axiom(p) = Len(d.value)
      /\ d.kind = "prose" => Axiom(p) = 1
      /\ NoneOf(p) => Axiom(p) = 0
      /\ d.kind = "concat" /\ d.parts = << >> => Axiom(p) = 0
      /\ OneOf(p) \/ AllOf(p) \/ Again(p) => Axiom(p) = None
  BY <1>1 DEF Axiom, NoneOf, OneOf, AllOf, Again
<1>9. /\ OneOf(p) \/ AllOf(p) \/ Again(p) \/ NoneOf(p) \/ d.kind \in {"char", "num", "prose"}
         \/ (d.kind = "concat" /\ d.parts = << >>)
      /\ d.kind \in {"char", "num", "prose"} => Successors(p) = {}
  <2>1. d.kind \in {"char", "num", "prose"} => Successors(p) = {}
    BY <1>1 DEF Children
  <2>2. QED
    BY <1>1, <2>1 DEF NoneOf, OneOf, AllOf, Again, Kinds
<1>10. Successors(p) # {} => OneOf(p) \/ AllOf(p) \/ Again(p) \/ NoneOf(p)
  BY <1>1, <1>5, <1>9
<1>11. p \notin Seeds => OneOf(p) \/ AllOf(p) \/ Again(p)
  BY <1>3, <1>4, <1>7, <1>8, <1>9
<1>12. p \in Seeds => ~(OneOf(p) \/ AllOf(p) \/ Again(p)) /\ Axiom(p) \in Nat
  BY <1>3, <1>7, <1>8, <1>9
<1>13. NoneOf(p) => p \in Seeds /\ Axiom(p) = 0
  BY <1>4, <1>7, <1>8
<1>14. p \in Seeds /\ Successors(p) # {} => NoneOf(p) /\ Axiom(p) = 0
  BY <1>10, <1>12, <1>13
<1>15. Again(p) => d.min \in Nat \ {0} /\ Successors(p) = {Parts(p)[1]}
  BY <1>1, <1>6 DEF Again
<1>16. AllOf(p) => /\ Parts(p) \in Seq(AllNodes) /\ Successors(p) # {}
                   /\ Successors(p) = {Parts(p)[i] : i \in DOMAIN Parts(p)}
  BY <1>1, <1>5 DEF AllOf, Children
<1>17. QED
  BY <1>2, <1>10, <1>11, <1>12, <1>13, <1>14, <1>15, <1>16

(* An alternation or a reference can cost a step more than its cheapest    *)
(* final part,                                                             *)
LEMMA RelaxOneOf ==
  ASSUME ArenaShape, NEW p \in AllNodes, NEW price, NEW final, OneOf(p)
  PROVE  Relax(p, price, final) = OneOn(Successors(p) \cap final, price)
  BY ShapeFacts DEF OneOf, Relax

(* a concatenation what its items cost together, once all are final,       *)
LEMMA RelaxAllOf ==
  ASSUME ArenaShape, NEW p \in AllNodes, NEW price, NEW final, AllOf(p)
  PROVE  Relax(p, price, final) =
           IF Successors(p) \subseteq final
           THEN {Cost(TotalLength(Parts(p), price),
                      Highest({price[m].steps : m \in Successors(p)}) + 1)}
           ELSE {}
  BY ShapeFacts DEF AllOf, Relax

(* a repetition what its body costs, times over, once that is final,       *)
LEMMA RelaxAgain ==
  ASSUME ArenaShape, NEW p \in AllNodes, NEW price, NEW final, Again(p)
  PROVE  Relax(p, price, final) =
           {Cost(Saturated(arena.nodes[p].min * price[b].length), price[b].steps + 1) :
              b \in Successors(p) \cap final}
<1>1. /\ Kind(p) = arena.nodes[p].kind /\ Kind(p) = "repeat" /\ arena.nodes[p].min > 0
      /\ Successors(p) = Children(p)
  <2>1. arena.nodes[p].min \in Nat
    BY ShapeFacts DEF Again
  <2>2. QED
    BY <2>1, ShapeFacts DEF Again
<1>2. QED
  BY <1>1 DEF Relax

(* and what need not match anything costs nothing.                         *)
LEMMA RelaxNoneOf ==
  ASSUME ArenaShape, NEW p \in AllNodes, NEW price, NEW final, NoneOf(p)
  PROVE  Relax(p, price, final) = {Cost(0, 0)}
<1>1. CASE Kind(p) = "optional"
  BY <1>1, ShapeFacts DEF Relax
<1>2. CASE Kind(p) = "repeat" /\ arena.nodes[p].min = 0
  BY <1>2, ShapeFacts DEF Relax
<1>3. QED
  BY <1>1, <1>2 DEF NoneOf

(* The highest of the parts of a concatenation.                            *)
LEMMA HighestFacts ==
  ASSUME ArenaShape, NEW p \in AllNodes, AllOf(p), NEW price, Priced(price)
  PROVE  LET top == Highest({price[m].steps : m \in Successors(p)})
         IN  /\ top \in Nat /\ \A m \in Successors(p) : price[m].steps <= top
             /\ \E m \in Successors(p) : price[m].steps = top
<1> DEFINE S == {price[m].steps : m \in Successors(p)}
           parts == Parts(p)
           f == [i \in 1 .. Len(parts) |-> price[parts[i]].steps]
<1>1. /\ parts \in Seq(AllNodes) /\ Len(parts) \in Nat /\ Successors(p) # {}
      /\ Successors(p) = {parts[i] : i \in 1 .. Len(parts)}
      /\ \A i \in 1 .. Len(parts) : parts[i] \in AllNodes
  BY RelaxCases
<1>2. \A i \in 1 .. Len(parts) : f[i] = price[parts[i]].steps /\ f[i] \in Nat
  BY <1>1 DEF Priced, Costs
<1>3. S \in SUBSET Nat /\ S # {} /\ \A s \in S : \E i \in 1 .. Len(parts) : s = f[i]
  BY <1>1, <1>2
<1> HIDE DEF parts, f
<1>4. PICK u \in Nat : \A i \in 1 .. Len(parts) : f[i] <= u
  BY <1>1, <1>2, BoundExists
<1>5. \A s \in S : s <= u
  BY <1>3, <1>4
<1>6. \A m \in Successors(p) : price[m].steps \in S
  OBVIOUS
<1>7. \A s \in S : \E m \in Successors(p) : price[m].steps = s
  OBVIOUS
<1> HIDE DEF S
<1>8. \E g \in S : \A s \in S : s <= g
  BY <1>3, <1>5, GreatestExists
<1>9. Highest(S) \in S /\ \A s \in S : s <= Highest(S)
  BY <1>8 DEF Highest
<1>10. Highest(S) \in Nat /\ (\A m \in Successors(p) : price[m].steps <= Highest(S))
        /\ \E m \in Successors(p) : price[m].steps = Highest(S)
  BY <1>3, <1>6, <1>7, <1>9
<1>11. QED
  BY <1>10 DEF S

(* It is a cost, and no more than a step from that of a part.              *)
LEMMA RelaxTypes ==
  ASSUME ArenaShape, NEW p \in AllNodes, Successors(p) # {}, NEW price, Priced(price),
         NEW final, NEW r \in Relax(p, price, final)
  PROVE  /\ r \in Costs
         /\ r.steps = 0 \/ \E m \in Successors(p) \cap final : r.steps = price[m].steps + 1
         /\ p \notin Seeds => Successors(p) \cap final # {}
         /\ p \in Seeds => r = Cost(0, 0)
<1>1. MaxU64 \in Nat /\ \A m \in AllNodes : /\ price[m] \in Costs /\ price[m].length \in 0 .. MaxU64
                                            /\ price[m].steps \in Nat
  BY DEF ArenaShape, Priced, Costs
<1>2. Successors(p) \in SUBSET AllNodes
  BY RelaxCases
<1>3. CASE OneOf(p)
  <2>1. PICK b \in Successors(p) \cap final : r = Cost(price[b].length, price[b].steps + 1)
    BY <1>3, RelaxOneOf DEF OneOn
  <2>2. price[b].length \in 0 .. MaxU64 /\ price[b].steps + 1 \in Nat
    BY <1>1, <1>2
  <2>3. QED
    BY <1>3, <2>1, <2>2, RelaxCases DEF Cost, Costs
<1>4. CASE AllOf(p)
  <2> DEFINE top == Highest({price[m].steps : m \in Successors(p)})
  <2>1. Successors(p) \subseteq final /\ r = Cost(TotalLength(Parts(p), price), top + 1)
    BY <1>4, RelaxAllOf
  <2>2. top \in Nat /\ \E m \in Successors(p) : price[m].steps = top
    BY <1>4, HighestFacts
  <2> HIDE DEF top
  <2>3. TotalLength(Parts(p), price) \in 0 .. MaxU64
    <3>1. Parts(p) \in Seq(AllNodes)
      BY <1>4, RelaxCases
    <3>2. \A i \in DOMAIN Parts(p) : price[Parts(p)[i]].length \in 0 .. MaxU64
      BY <1>1, <3>1
    <3>3. QED
      BY <1>1, <3>1, <3>2, TotalAtLeast
  <2>4. QED
    BY <1>2, <1>4, <2>1, <2>2, <2>3, RelaxCases DEF Cost, Costs
<1>5. CASE Again(p)
  <2>1. PICK b \in Successors(p) \cap final :
          r = Cost(Saturated(arena.nodes[p].min * price[b].length), price[b].steps + 1)
    BY <1>5, RelaxAgain
  <2>2. price[b].length \in Nat /\ price[b].steps + 1 \in Nat /\ arena.nodes[p].min \in Nat
    BY <1>1, <1>2, <1>5, RelaxCases
  <2>3. arena.nodes[p].min * price[b].length \in Nat
    BY <2>2
  <2>4. Saturated(arena.nodes[p].min * price[b].length) \in 0 .. MaxU64
    BY <1>1, <2>3, SaturatedFacts
  <2>5. QED
    BY <1>5, <2>1, <2>2, <2>4, RelaxCases DEF Cost, Costs
<1>6. CASE NoneOf(p)
  <2>1. r = Cost(0, 0)
    BY <1>6, RelaxNoneOf
  <2>2. QED
    BY <1>1, <1>6, <2>1, RelaxCases DEF Cost, Costs
<1>7. QED
  BY <1>3, <1>4, <1>5, <1>6, RelaxCases

(* There is one answer, and it depends on the final parts alone.           *)
LEMMA RelaxOne ==
  ASSUME ArenaShape, NEW p \in AllNodes, Successors(p) # {}, NEW price, Priced(price),
         NEW final, NEW r \in Relax(p, price, final), NEW s \in Relax(p, price, final)
  PROVE  r = s
<1>1. MaxU64 \in Nat /\ \A m \in AllNodes : /\ price[m].length \in 0 .. MaxU64 /\ price[m].steps \in Nat
  BY DEF ArenaShape, Priced, Costs
<1>2. Successors(p) \in SUBSET AllNodes
  BY RelaxCases
<1>3. CASE OneOf(p)
  <2> DEFINE S == Successors(p) \cap final
  <2>1. /\ r \in OneOn(S, price) /\ s \in OneOn(S, price)
    BY <1>3, RelaxOneOf
  <2>2. PICK b \in S : /\ r = Cost(price[b].length, price[b].steps + 1)
                       /\ \A o \in S : ~Before(price[o], price[b])
    BY <2>1 DEF OneOn
  <2>3. PICK a \in S : /\ s = Cost(price[a].length, price[a].steps + 1)
                       /\ \A o \in S : ~Before(price[o], price[a])
    BY <2>1 DEF OneOn
  <2>4. ~Before(price[a], price[b]) /\ ~Before(price[b], price[a]) /\ a \in AllNodes /\ b \in AllNodes
    BY <1>2, <2>2, <2>3
  <2>5. price[a].length = price[b].length /\ price[a].steps = price[b].steps
    BY <1>1, <2>4, OrderFacts
  <2>6. QED
    BY <2>2, <2>3, <2>5
<1>4. CASE AllOf(p)
  <2> DEFINE x == Cost(TotalLength(Parts(p), price),
                       Highest({price[m].steps : m \in Successors(p)}) + 1)
  <2>1. Relax(p, price, final) = IF Successors(p) \subseteq final THEN {x} ELSE {}
    BY <1>4, RelaxAllOf
  <2> HIDE DEF x
  <2>2. QED
    BY <2>1
<1>5. CASE Again(p)
  <2>1. \E b : Successors(p) = {b}
    BY <1>5, RelaxCases
  <2>2. QED
    BY <1>5, <2>1, RelaxAgain
<1>6. CASE NoneOf(p)
  BY <1>6, RelaxNoneOf
<1>7. QED
  BY <1>3, <1>4, <1>5, <1>6, RelaxCases

(* A cost depends on the final parts alone.                                *)
LEMMA RelaxLocal ==
  ASSUME ArenaShape, NEW p \in AllNodes, Successors(p) # {},
         NEW price, Priced(price), NEW price2, Priced(price2), NEW final, NEW final2,
         Successors(p) \cap final2 = Successors(p) \cap final,
         \A m \in Successors(p) \cap final : price2[m] = price[m]
  PROVE  Relax(p, price2, final2) = Relax(p, price, final)
<1>1. Successors(p) \in SUBSET AllNodes
  BY RelaxCases
<1>2. CASE OneOf(p)
  <2>1. OneOn(Successors(p) \cap final, price2) = OneOn(Successors(p) \cap final, price)
    BY DEF OneOn
  <2>2. QED
    BY <1>2, <2>1, RelaxOneOf
<1>3. CASE AllOf(p)
  <2>1. Successors(p) \subseteq final2 <=> Successors(p) \subseteq final
    OBVIOUS
  <2>2. CASE Successors(p) \subseteq final
    <3>1. \A m \in Successors(p) : price2[m] = price[m]
      BY <2>2
    <3>2. {price2[m].steps : m \in Successors(p)} = {price[m].steps : m \in Successors(p)}
      BY <3>1
    <3>3. TotalLength(Parts(p), price2) = TotalLength(Parts(p), price)
      <4>1. Parts(p) \in Seq(AllNodes) /\ \A i \in DOMAIN Parts(p) : Parts(p)[i] \in Successors(p)
        BY <1>3, RelaxCases
      <4>2. \A i \in DOMAIN Parts(p) : price2[Parts(p)[i]] = price[Parts(p)[i]]
        BY <3>1, <4>1
      <4>3. MaxU64 \in Nat /\ \A i \in DOMAIN Parts(p) : price[Parts(p)[i]].length \in 0 .. MaxU64
        <5>1. \A m \in AllNodes : price[m].length \in 0 .. MaxU64
          BY DEF Priced, Costs
        <5>2. QED
          BY <1>1, <4>1, <5>1 DEF ArenaShape
      <4>4. QED
        BY <4>1, <4>2, <4>3, TotalLocal
    <3>4. QED
      BY <1>3, <2>1, <2>2, <3>2, <3>3, RelaxAllOf
  <2>3. CASE ~(Successors(p) \subseteq final)
    BY <1>3, <2>1, <2>3, RelaxAllOf
  <2>4. QED
    BY <2>2, <2>3
<1>4. CASE Again(p)
  <2> DEFINE x(f, b) == Cost(Saturated(arena.nodes[p].min * f[b].length), f[b].steps + 1)
  <2>1. /\ Relax(p, price, final) = {x(price, b) : b \in Successors(p) \cap final}
        /\ Relax(p, price2, final2) = {x(price2, b) : b \in Successors(p) \cap final2}
    BY <1>4, RelaxAgain
  <2>2. \A b \in Successors(p) \cap final : x(price2, b) = x(price, b)
    OBVIOUS
  <2> HIDE DEF x
  <2>3. QED
    BY <2>1, <2>2
<1>5. CASE NoneOf(p)
  BY <1>5, RelaxNoneOf
<1>6. QED
  BY <1>2, <1>3, <1>4, <1>5, RelaxCases

(* A node costs more than what it costs so much for: what `n`, final now,  *)
(* makes possible comes after `n`, or was possible before.                 *)
LEMMA RelaxDear ==
  ASSUME ArenaShape, NEW p \in AllNodes, p \notin Seeds, NEW price, Priced(price), NEW final,
         NEW n \in Successors(p), NEW r \in Relax(p, price, final \cup {n})
  PROVE  \/ Before(price[n], r)
         \/ Successors(p) \cap final # {} /\ r \in Relax(p, price, final)
<1>1. MaxU64 \in Nat /\ \A m \in AllNodes : /\ price[m].length \in 0 .. MaxU64 /\ price[m].steps \in Nat
  BY DEF ArenaShape, Priced, Costs
<1>2. Successors(p) \in SUBSET AllNodes /\ n \in AllNodes
  BY RelaxCases
<1> DEFINE with == final \cup {n}
<1>3. CASE OneOf(p)
  <2>1. r \in OneOn(Successors(p) \cap with, price)
    BY <1>3, RelaxOneOf
  <2>2. PICK b \in Successors(p) \cap with :
          /\ r = Cost(price[b].length, price[b].steps + 1)
          /\ \A o \in Successors(p) \cap with : ~Before(price[o], price[b])
    BY <2>1 DEF OneOn
  <2>3. b \in AllNodes /\ r.length = price[b].length /\ r.steps = price[b].steps + 1
    BY <1>2, <2>2 DEF Cost
  <2>4. CASE Before(price[b], price[n])
    <3>1. b # n
      BY <1>1, <1>2, <2>4, OrderFacts
    <3>2. b \in Successors(p) \cap final
      BY <3>1
    <3>3. r \in OneOn(Successors(p) \cap final, price)
      BY <2>2, <3>2 DEF OneOn
    <3>4. QED
      BY <1>3, <3>2, <3>3, RelaxOneOf
  <2>5. CASE ~Before(price[b], price[n])
    BY <1>1, <1>2, <2>3, <2>5 DEF Before
  <2>6. QED
    BY <2>4, <2>5
<1>4. CASE AllOf(p)
  <2> DEFINE top == Highest({price[m].steps : m \in Successors(p)})
  <2>1. r = Cost(TotalLength(Parts(p), price), top + 1)
    BY <1>4, RelaxAllOf
  <2>2. top \in Nat /\ price[n].steps <= top
    BY <1>4, HighestFacts
  <2> HIDE DEF top
  <2>3. TotalLength(Parts(p), price) \in 0 .. MaxU64 /\ price[n].length <= TotalLength(Parts(p), price)
    <3>1. Parts(p) \in Seq(AllNodes) /\ \E i \in DOMAIN Parts(p) : n = Parts(p)[i]
      BY <1>4, RelaxCases
    <3>2. \A i \in DOMAIN Parts(p) : price[Parts(p)[i]].length \in 0 .. MaxU64
      BY <1>1, <3>1
    <3>3. QED
      BY <1>1, <3>1, <3>2, TotalAtLeast
  <2>4. r.length = TotalLength(Parts(p), price) /\ r.steps = top + 1
    BY <2>1 DEF Cost
  <2>5. QED
    BY <1>1, <1>2, <2>2, <2>3, <2>4 DEF Before
<1>5. CASE Again(p)
  <2> DEFINE k == arena.nodes[p].min  l == price[n].length
  <2>1. k \in Nat \ {0} /\ Successors(p) = {n}
    BY <1>5, RelaxCases
  <2>2. r = Cost(Saturated(k * l), price[n].steps + 1)
    BY <1>5, <2>1, RelaxAgain
  <2>3. l \in 0 .. MaxU64
    BY <1>1, <1>2
  <2> HIDE DEF k, l
  <2>4. l <= k * l /\ k * l \in Nat
    BY <1>1, <2>1, <2>3
  <2>5. l <= Saturated(k * l) /\ Saturated(k * l) \in 0 .. MaxU64
    BY <1>1, <2>3, <2>4, SaturatedFacts DEF Saturated
  <2>6. r.length = Saturated(k * l) /\ r.steps = price[n].steps + 1
    BY <2>2 DEF Cost
  <2>7. QED
    BY <1>1, <1>2, <2>3, <2>5, <2>6 DEF Before, l
<1>6. QED
  BY <1>3, <1>4, <1>5, RelaxCases

-----------------------------------------------------------------------------
(* What a node costs against the length of its shortest derivation.        *)

(* The lengths a node's parts have, those that have one.                   *)
Possible(p, known) == {known[m] : m \in Successors(p)} \ {0}

(* The least of them is the length of a part, and no part has less.        *)
LEMMA PossibleFacts ==
  ASSUME ArenaShape, NEW p \in AllNodes, NEW known \in Lengths
  PROVE  /\ \A m \in Successors(p) : m \in AllNodes /\ known[m] \in Nat
         /\ Possible(p, known) = {} <=> \A m \in Successors(p) : known[m] = 0
         /\ Possible(p, known) # {} =>
              /\ Lowest(Possible(p, known)) \in Nat \ {0}
              /\ \E m \in Successors(p) : known[m] = Lowest(Possible(p, known))
              /\ \A m \in Successors(p) : known[m] # 0 => Lowest(Possible(p, known)) <= known[m]
<1>1. \A m \in Successors(p) : m \in AllNodes /\ known[m] \in Nat
  BY StepTypes DEF Lengths
<1>2. Possible(p, known) \in SUBSET Nat
  BY <1>1 DEF Possible
<1>3. Possible(p, known) # {} =>
        /\ Lowest(Possible(p, known)) \in Possible(p, known)
        /\ \A x \in Possible(p, known) : Lowest(Possible(p, known)) <= x
  BY <1>2, LeastLength
<1>4. /\ \A m \in Successors(p) : known[m] # 0 => known[m] \in Possible(p, known)
      /\ \A x \in Possible(p, known) : x \in Nat /\ x # 0 /\ \E m \in Successors(p) : known[m] = x
  BY <1>1 DEF Possible
<1>5. QED
  BY <1>1, <1>3, <1>4

(* What each kind of node derives: a seed its own length,                  *)
LEMMA DeriveSeed ==
  ASSUME ArenaShape, NEW p \in Seeds, NEW known \in Lengths
  PROVE  p \in AllNodes /\ Axiom(p) \in Nat /\ Derive(p, known) = Axiom(p) + 1
<1> DEFINE d == arena.nodes[p]
<1>1. p \in AllNodes /\ Axiom(p) \in Nat /\ Axiom(p) # None
  BY RelaxCases DEF Seeds
<1>2. CASE d.kind \in {"char", "num", "prose"}
  BY <1>1, <1>2 DEF Derive, Axiom
<1>3. CASE d.kind = "optional" \/ (d.kind = "repeat" /\ d.min = 0)
  BY <1>1, <1>3 DEF Derive, Axiom
<1>4. CASE d.kind = "concat" /\ d.parts = << >>
  <2>1. d.parts \in Seq(AllNodes) /\ DOMAIN d.parts = {}
    BY <1>1, <1>4, ShapeFacts
  <2>2. SumOf(d.parts, known) = 0
    BY <2>1, SumIsZero
  <2>3. Derive(p, known) = 1
    BY <1>4, <2>1, <2>2 DEF Derive
  <2>4. Axiom(p) = 0
    BY <1>4 DEF Axiom
  <2>5. QED
    BY <1>1, <2>3, <2>4
<1>5. d.kind \in {"char", "num", "prose"} \/ (d.kind = "optional" \/ (d.kind = "repeat" /\ d.min = 0))
        \/ (d.kind = "concat" /\ d.parts = << >>)
  BY <1>1 DEF Axiom
<1>6. QED
  BY <1>1, <1>2, <1>3, <1>4, <1>5

(* an alternation or a reference the least of its parts',                  *)
LEMMA DeriveOneOf ==
  ASSUME ArenaShape, NEW p \in AllNodes, NEW known, OneOf(p)
  PROVE  Derive(p, known) = IF Possible(p, known) = {} THEN 0 ELSE Lowest(Possible(p, known))
  BY ShapeFacts DEF OneOf, Derive, Possible

(* a repetition the least times over,                                      *)
LEMMA DeriveAgain ==
  ASSUME ArenaShape, NEW p \in AllNodes, NEW known, Again(p)
  PROVE  Derive(p, known) = IF Possible(p, known) = {} THEN 0
                            ELSE arena.nodes[p].min * (Lowest(Possible(p, known)) - 1) + 1
<1>1. Kind(p) = arena.nodes[p].kind /\ Kind(p) = "repeat" /\ arena.nodes[p].min # 0
  BY ShapeFacts DEF Again
<1>2. QED
  BY <1>1 DEF Derive, Possible

(* and a concatenation all of them together.                               *)
LEMMA DeriveAllOf ==
  ASSUME ArenaShape, NEW p \in AllNodes, NEW known, AllOf(p)
  PROVE  Derive(p, known) = IF \E i \in DOMAIN Parts(p) : known[Parts(p)[i]] = 0 THEN 0
                            ELSE SumOf(Parts(p), known) + 1
  BY ShapeFacts DEF AllOf, Derive

(* A repetition of cut-off lengths is the repetition, cut off.             *)
LEMMA CutTimes ==
  ASSUME MaxU64 \in Nat, NEW k \in Nat \ {0}, NEW l \in Nat, NEW x \in 0 .. MaxU64
  PROVE  /\ k * l \in Nat /\ k * x \in Nat /\ l <= k * l
         /\ x <= Saturated(l) => Saturated(k * x) <= Saturated(k * l)
         /\ Saturated(l) <= x => Saturated(k * l) <= Saturated(k * x)
<1>1. \A a \in Nat, b \in Nat : a <= b => k * a <= k * b
  OBVIOUS
<1>2. \A a \in Nat : k * a \in Nat /\ a <= k * a
  OBVIOUS
<1>3. x \in Nat
  OBVIOUS
<1>4. ASSUME x <= Saturated(l) PROVE Saturated(k * x) <= Saturated(k * l)
  <2>1. x <= l
    BY <1>4 DEF Saturated
  <2>2. k * x <= k * l
    BY <1>1, <1>3, <2>1
  <2>3. QED
    BY <1>2, <1>3, <2>2, SaturatedFacts
<1>5. ASSUME Saturated(l) <= x PROVE Saturated(k * l) <= Saturated(k * x)
  <2>1. CASE l <= MaxU64
    <3>1. l <= x
      BY <1>5, <2>1 DEF Saturated
    <3>2. k * l <= k * x
      BY <1>1, <1>3, <3>1
    <3>3. QED
      BY <1>2, <1>3, <3>2, SaturatedFacts
  <2>2. CASE ~(l <= MaxU64)
    <3>1. x = MaxU64
      BY <1>5, <2>2 DEF Saturated
    <3>2. MaxU64 <= k * x
      BY <1>2, <1>3, <3>1
    <3>3. Saturated(k * x) = MaxU64
      BY <1>2, <1>3, <3>2 DEF Saturated
    <3>4. k * l \in Nat
      BY <1>2
    <3>5. QED
      BY <3>3, <3>4, SaturatedFacts
  <2>3. QED
    BY <2>1, <2>2
<1>6. QED
  BY <1>2, <1>3, <1>4, <1>5

(* A node with a derivation costs no more than that, unless a part the     *)
(* derivation needs is not final yet; and that part's is no longer.        *)
LEMMA RelaxShort ==
  ASSUME ArenaShape, NEW p \in AllNodes, p \notin Seeds, NEW price, Priced(price),
         NEW final, NEW known \in Lengths, Derive(p, known) # 0,
         \A m \in Successors(p) \cap final :
           known[m] # 0 => price[m].length <= Saturated(known[m] - 1)
  PROVE  \/ \E m \in Successors(p) \ final : known[m] # 0 /\ known[m] <= Derive(p, known)
         \/ \E r \in Relax(p, price, final) : r.length <= Saturated(Derive(p, known) - 1)
<1>1. MaxU64 \in Nat /\ \A m \in AllNodes : /\ price[m].length \in 0 .. MaxU64 /\ price[m].steps \in Nat
  BY DEF ArenaShape, Priced, Costs
<1>2. /\ Successors(p) \in SUBSET AllNodes
      /\ \A m \in Successors(p) : m \in AllNodes /\ known[m] \in Nat
  BY RelaxCases, PossibleFacts
<1>3. CASE OneOf(p)
  <2>1. Possible(p, known) # {} /\ Derive(p, known) = Lowest(Possible(p, known))
    BY <1>3, DeriveOneOf
  <2>2. PICK m \in Successors(p) : known[m] = Derive(p, known) /\ known[m] \in Nat \ {0}
    BY <2>1, PossibleFacts
  <2>3. CASE m \in final
    <3>1. Successors(p) \cap final \in SUBSET AllNodes /\ Successors(p) \cap final # {}
      BY <1>2, <2>2, <2>3
    <3>2. PICK b \in Successors(p) \cap final :
            \A o \in Successors(p) \cap final : ~Before(price[o], price[b])
      BY <3>1, CheapestExists
    <3>3. ~Before(price[m], price[b]) /\ m \in AllNodes /\ b \in AllNodes
      BY <2>2, <2>3, <3>1, <3>2
    <3>4. price[b].length <= price[m].length
      BY <1>1, <3>3, OrderFacts
    <3>5. price[m].length <= Saturated(known[m] - 1) /\ known[m] - 1 \in Nat
      BY <2>2, <2>3
    <3> DEFINE r == Cost(price[b].length, price[b].steps + 1)
    <3>6. r \in Relax(p, price, final)
      BY <1>3, <3>2, RelaxOneOf DEF OneOn
    <3>7. r.length = price[b].length
      BY DEF Cost
    <3> HIDE DEF r
    <3>8. Saturated(known[m] - 1) \in 0 .. MaxU64 /\ price[b].length \in 0 .. MaxU64
            /\ price[m].length \in 0 .. MaxU64
      BY <1>1, <3>3, <3>5, SaturatedFacts
    <3>9. r.length <= Saturated(Derive(p, known) - 1)
      BY <2>2, <3>4, <3>5, <3>7, <3>8
    <3>10. QED
      BY <3>6, <3>9
  <2>4. CASE m \notin final
    BY <2>2, <2>4
  <2>5. QED
    BY <2>3, <2>4
<1>4. CASE AllOf(p)
  <2> DEFINE parts == Parts(p)
  <2>1. parts \in Seq(AllNodes) /\ Successors(p) = {parts[i] : i \in DOMAIN parts}
    BY <1>4, RelaxCases
  <2>2. (\A i \in DOMAIN parts : known[parts[i]] # 0) /\ Derive(p, known) = SumOf(parts, known) + 1
    BY <1>4, DeriveAllOf
  <2> HIDE DEF parts
  <2>3. \A i \in DOMAIN parts : /\ parts[i] \in Successors(p) /\ price[parts[i]].length \in 0 .. MaxU64
                                /\ known[parts[i]] \in Nat
    BY <1>1, <1>2, <2>1
  <2>4. /\ SumOf(parts, known) \in Nat
        /\ (\A i \in DOMAIN parts : price[parts[i]].length <= Saturated(known[parts[i]] - 1))
             => TotalLength(parts, price) <= Saturated(SumOf(parts, known))
        /\ \A i \in DOMAIN parts : known[parts[i]] - 1 <= SumOf(parts, known)
    BY <1>1, <2>1, <2>2, <2>3, TotalAgainstSum
  <2>5. CASE Successors(p) \subseteq final
    <3> DEFINE r == Cost(TotalLength(parts, price), Highest({price[m].steps : m \in Successors(p)}) + 1)
    <3>1. r \in Relax(p, price, final)
      BY <1>4, <2>5, RelaxAllOf DEF parts
    <3>2. r.length = TotalLength(parts, price)
      BY DEF Cost
    <3>3. \A i \in DOMAIN parts : price[parts[i]].length <= Saturated(known[parts[i]] - 1)
      BY <2>2, <2>3, <2>5
    <3> HIDE DEF r
    <3>4. r.length <= Saturated(Derive(p, known) - 1)
      BY <2>2, <2>4, <3>2, <3>3
    <3>5. QED
      BY <3>1, <3>4
  <2>6. CASE ~(Successors(p) \subseteq final)
    <3>1. PICK i \in DOMAIN parts : parts[i] \in Successors(p) \ final
      BY <2>1, <2>6
    <3>2. known[parts[i]] # 0 /\ known[parts[i]] <= Derive(p, known)
      BY <2>2, <2>3, <2>4
    <3>3. QED
      BY <3>1, <3>2
  <2>7. QED
    BY <2>5, <2>6
<1>5. CASE Again(p)
  <2> DEFINE k == arena.nodes[p].min  m == Parts(p)[1]
  <2>1. k \in Nat \ {0} /\ Successors(p) = {m}
    BY <1>5, RelaxCases
  <2>2. Possible(p, known) # {} /\ Derive(p, known) = k * (Lowest(Possible(p, known)) - 1) + 1
    BY <1>5, DeriveAgain
  <2> HIDE DEF k, m
  <2>3. known[m] \in Nat \ {0} /\ Derive(p, known) = k * (known[m] - 1) + 1 /\ m \in AllNodes
    BY <1>2, <2>1, <2>2, PossibleFacts
  <2> DEFINE l == known[m] - 1  x == price[m].length
  <2>4. l \in Nat /\ x \in 0 .. MaxU64
    BY <1>1, <2>3
  <2>5. /\ k * l \in Nat /\ l <= k * l
        /\ x <= Saturated(l) => Saturated(k * x) <= Saturated(k * l)
    BY <1>1, <2>1, <2>4, CutTimes
  <2>6. CASE m \in final
    <3> DEFINE r == Cost(Saturated(k * x), price[m].steps + 1)
    <3>1. r \in Relax(p, price, final)
      BY <1>5, <2>1, <2>6, RelaxAgain DEF k
    <3>2. r.length = Saturated(k * x)
      BY DEF Cost
    <3>3. x <= Saturated(l)
      BY <2>1, <2>3, <2>6
    <3> HIDE DEF r, x, l
    <3>4. r.length <= Saturated(Derive(p, known) - 1)
      <4>1. Derive(p, known) - 1 = k * l
        BY <2>3, <2>5 DEF l
      <4>2. QED
        BY <2>5, <3>2, <3>3, <4>1
    <3>5. QED
      BY <3>1, <3>4
  <2>7. CASE m \notin final
    <3>1. known[m] <= Derive(p, known)
      BY <2>3, <2>5
    <3>2. QED
      BY <2>1, <2>3, <2>7, <3>1
  <2>8. QED
    BY <2>6, <2>7
<1>6. QED
  BY <1>3, <1>4, <1>5, RelaxCases

(* A node costs no less than its shortest derivation one higher is long.   *)
LEMMA RelaxSound ==
  ASSUME ArenaShape, NEW p \in AllNodes, Successors(p) # {}, NEW price, Priced(price),
         NEW final, NEW known \in Lengths, NEW r \in Relax(p, price, final),
         \A m \in Successors(p) \cap final :
           known[m] # 0 /\ Saturated(known[m] - 1) <= price[m].length
  PROVE  Derive(p, known) # 0 /\ Saturated(Derive(p, known) - 1) <= r.length
<1>1. MaxU64 \in Nat /\ \A m \in AllNodes : /\ price[m].length \in 0 .. MaxU64 /\ price[m].steps \in Nat
  BY DEF ArenaShape, Priced, Costs
<1>2. /\ Successors(p) \in SUBSET AllNodes
      /\ \A m \in Successors(p) : m \in AllNodes /\ known[m] \in Nat
  BY RelaxCases, PossibleFacts
<1>3. CASE OneOf(p)
  <2>1. PICK b \in Successors(p) \cap final : r = Cost(price[b].length, price[b].steps + 1)
    BY <1>3, RelaxOneOf DEF OneOn
  <2>2. r.length = price[b].length /\ known[b] \in Nat \ {0} /\ b \in AllNodes
        /\ Saturated(known[b] - 1) <= price[b].length
    BY <1>2, <2>1 DEF Cost
  <2>3. /\ Possible(p, known) # {} /\ Derive(p, known) = Lowest(Possible(p, known))
        /\ Derive(p, known) \in Nat \ {0} /\ Derive(p, known) <= known[b]
    BY <1>3, <2>1, <2>2, PossibleFacts, DeriveOneOf
  <2> DEFINE v == Derive(p, known)  w == known[b]  l == price[b].length
  <2>4. v \in Nat \ {0} /\ w \in Nat \ {0} /\ v <= w /\ Saturated(w - 1) <= l /\ l \in 0 .. MaxU64
        /\ r.length = l
    BY <1>1, <2>2, <2>3
  <2> HIDE DEF v, w, l
  <2>5. Saturated(v - 1) <= l
    BY <1>1, <2>4 DEF Saturated
  <2>6. QED
    BY <2>4, <2>5 DEF v
<1>4. CASE AllOf(p)
  <2> DEFINE parts == Parts(p)
             top == Highest({price[m].steps : m \in Successors(p)})
  <2>1. parts \in Seq(AllNodes) /\ Successors(p) = {parts[i] : i \in DOMAIN parts}
    BY <1>4, RelaxCases
  <2>2. Successors(p) \subseteq final /\ r = Cost(TotalLength(parts, price), top + 1)
    BY <1>4, RelaxAllOf
  <2>3. Derive(p, known) = IF \E i \in DOMAIN parts : known[parts[i]] = 0 THEN 0
                           ELSE SumOf(parts, known) + 1
    BY <1>4, DeriveAllOf
  <2> HIDE DEF parts, top
  <2>4. \A i \in DOMAIN parts : /\ parts[i] \in Successors(p) \cap final
                                /\ price[parts[i]].length \in 0 .. MaxU64
    BY <1>1, <1>2, <2>1, <2>2
  <2>5. \A i \in DOMAIN parts : /\ known[parts[i]] # 0
                                /\ Saturated(known[parts[i]] - 1) <= price[parts[i]].length
    BY <2>4
  <2>6. /\ SumOf(parts, known) \in Nat
        /\ Saturated(SumOf(parts, known)) <= TotalLength(parts, price)
    BY <1>1, <2>1, <2>4, <2>5, TotalAgainstSum
  <2>7. r.length = TotalLength(parts, price) /\ Derive(p, known) = SumOf(parts, known) + 1
    BY <2>2, <2>3, <2>5 DEF Cost
  <2>8. QED
    BY <2>6, <2>7
<1>5. CASE Again(p)
  <2> DEFINE k == arena.nodes[p].min
  <2>1. PICK b \in Successors(p) \cap final :
          r = Cost(Saturated(k * price[b].length), price[b].steps + 1)
    BY <1>5, RelaxAgain
  <2>2. k \in Nat \ {0} /\ Successors(p) = {b}
    BY <1>5, <2>1, RelaxCases
  <2>3. /\ known[b] \in Nat \ {0} /\ b \in AllNodes
        /\ Saturated(known[b] - 1) <= price[b].length
        /\ r.length = Saturated(k * price[b].length)
    BY <1>2, <2>1 DEF Cost
  <2>4. Possible(p, known) # {} /\ Lowest(Possible(p, known)) = known[b]
    BY <2>2, <2>3, PossibleFacts
  <2>5. Derive(p, known) = k * (known[b] - 1) + 1
    BY <1>5, <2>4, DeriveAgain
  <2> HIDE DEF k
  <2> DEFINE l == known[b] - 1  x == price[b].length
  <2>6. l \in Nat /\ x \in 0 .. MaxU64 /\ Saturated(l) <= x
    BY <1>1, <2>3
  <2>7. /\ k * l \in Nat
        /\ Saturated(l) <= x => Saturated(k * l) <= Saturated(k * x)
    BY <1>1, <2>2, <2>6, CutTimes
  <2>8. Derive(p, known) - 1 = k * l /\ Derive(p, known) # 0
    BY <2>5, <2>7
  <2>9. QED
    BY <2>3, <2>6, <2>7, <2>8
<1>6. CASE NoneOf(p)
  <2>1. r = Cost(0, 0) /\ p \in Seeds /\ Axiom(p) = 0
    BY <1>6, RelaxNoneOf, RelaxCases
  <2>2. Derive(p, known) = 1 /\ r.length = 0
    BY <2>1, DeriveSeed DEF Cost
  <2>3. QED
    BY <1>1, <2>2 DEF Saturated
<1>7. QED
  BY <1>3, <1>4, <1>5, <1>6, RelaxCases

-----------------------------------------------------------------------------
(* The lengths of higher derivations: as many nodes or more have one, and  *)
(* none is longer.                                                         *)
Shrinks(known, known2) ==
  \A m \in AllNodes : known[m] # 0 => known2[m] # 0 /\ known2[m] <= known[m]

(* A sum of shorter lengths is no longer.                                  *)
LEMMA SumShrinks ==
  ASSUME NEW known \in Lengths, NEW known2 \in Lengths, Shrinks(known, known2),
         NEW parts \in Seq(AllNodes), \A i \in DOMAIN parts : known[parts[i]] # 0
  PROVE  SumOf(parts, known2) <= SumOf(parts, known)
<1> DEFINE n == Len(parts)
<1>1. n \in Nat /\ DOMAIN parts = 1 .. n /\ \A i \in 1 .. n : parts[i] \in AllNodes
  OBVIOUS
<1>2. \A i \in 1 .. n : /\ known[parts[i]] \in Nat /\ known[parts[i]] >= 1
                        /\ known2[parts[i]] \in Nat /\ known2[parts[i]] >= 1
                        /\ known2[parts[i]] <= known[parts[i]]
  <2> TAKE i \in 1 .. n
  <2>1. parts[i] \in AllNodes /\ known[parts[i]] # 0
    BY <1>1
  <2>2. known[parts[i]] \in Nat /\ known2[parts[i]] \in Nat
    BY <2>1 DEF Lengths
  <2>3. known2[parts[i]] # 0 /\ known2[parts[i]] <= known[parts[i]]
    BY <2>1 DEF Shrinks
  <2>4. QED
    BY <2>1, <2>2, <2>3
<1>3. PICK s \in [0 .. n -> Nat] :
        /\ s[0] = 0
        /\ \A i \in 1 .. n : s[i] = s[i - 1] + known[parts[i]] - 1
        /\ SumOf(parts, known) = s[n]
  BY SumFacts
<1>4. PICK t \in [0 .. n -> Nat] :
        /\ t[0] = 0
        /\ \A i \in 1 .. n : t[i] = t[i - 1] + known2[parts[i]] - 1
        /\ SumOf(parts, known2) = t[n]
  <2>1. \A i \in DOMAIN parts : known2[parts[i]] # 0
    BY <1>1, <1>2
  <2>2. QED
    BY <2>1, SumFacts
<1> HIDE DEF n
<1> DEFINE S == {i \in 0 .. n : t[i] <= s[i]}
<1>5. 0 \in S
  BY <1>1, <1>3, <1>4
<1>6. ASSUME NEW i \in 1 .. n, i - 1 \in S PROVE i \in S
  <2>1. i \in 0 .. n /\ i - 1 \in 0 .. n /\ t[i - 1] <= s[i - 1]
    BY <1>1, <1>6
  <2>2. t[i - 1] \in Nat /\ s[i - 1] \in Nat
    BY <2>1
  <2>3. t[i] <= s[i]
    BY <1>2, <1>3, <1>4, <2>1, <2>2
  <2>4. QED
    BY <2>1, <2>3
<1>7. \A i \in 0 .. n : i \in S
  <2> HIDE DEF S
  <2> QED BY <1>1, <1>5, <1>6, CountUp
<1>8. n \in 0 .. n
  BY <1>1
<1>9. QED
  BY <1>3, <1>4, <1>7, <1>8

(* From shorter lengths a node derives a shorter one.                      *)
LEMMA DeriveShrinks ==
  ASSUME ArenaShape, NEW known \in Lengths, NEW known2 \in Lengths, Shrinks(known, known2),
         NEW p \in AllNodes, Derive(p, known) # 0
  PROVE  Derive(p, known2) # 0 /\ Derive(p, known2) <= Derive(p, known)
<1>1. CASE p \in Seeds
  <2>1. Derive(p, known2) = Derive(p, known) /\ Derive(p, known) \in Nat
    BY <1>1, DeriveSeed
  <2>2. QED
    BY <2>1
<1>2. ASSUME Possible(p, known) # {}
      PROVE  /\ Possible(p, known2) # {}
             /\ Lowest(Possible(p, known2)) \in Nat \ {0} /\ Lowest(Possible(p, known)) \in Nat \ {0}
             /\ Lowest(Possible(p, known2)) <= Lowest(Possible(p, known))
  <2>1. PICK m \in Successors(p) : known[m] = Lowest(Possible(p, known))
    BY <1>2, PossibleFacts
  <2>2. m \in AllNodes /\ known[m] \in Nat \ {0} /\ known2[m] \in Nat
    BY <1>2, <2>1, PossibleFacts
  <2>3. known2[m] # 0 /\ known2[m] <= known[m]
    BY <2>2 DEF Shrinks
  <2>4. Possible(p, known2) # {}
    BY <2>1, <2>3, PossibleFacts
  <2>5. Lowest(Possible(p, known2)) \in Nat \ {0} /\ Lowest(Possible(p, known2)) <= known2[m]
    BY <2>1, <2>3, <2>4, PossibleFacts
  <2>6. QED
    BY <2>1, <2>2, <2>3, <2>4, <2>5
<1>3. CASE OneOf(p)
  BY <1>2, <1>3, DeriveOneOf
<1>4. CASE AllOf(p)
  <2>1. /\ Parts(p) \in Seq(AllNodes)
        /\ \A i \in DOMAIN Parts(p) : known[Parts(p)[i]] # 0
        /\ Derive(p, known) = SumOf(Parts(p), known) + 1
    BY <1>4, DeriveAllOf, RelaxCases
  <2>2. \A i \in DOMAIN Parts(p) : known2[Parts(p)[i]] # 0
    BY <2>1 DEF Shrinks
  <2>3. Derive(p, known2) = SumOf(Parts(p), known2) + 1
    BY <1>4, <2>2, DeriveAllOf
  <2>4. SumOf(Parts(p), known2) \in Nat /\ SumOf(Parts(p), known) \in Nat
    BY <2>1, <2>2, SumIsZero
  <2>5. SumOf(Parts(p), known2) <= SumOf(Parts(p), known)
    BY <2>1, SumShrinks
  <2>6. QED
    BY <2>1, <2>3, <2>4, <2>5
<1>5. CASE Again(p)
  <2> DEFINE k == arena.nodes[p].min
             a == Lowest(Possible(p, known))
             b == Lowest(Possible(p, known2))
  <2>1. k \in Nat \ {0}
    BY <1>5, RelaxCases
  <2>2. Possible(p, known) # {} /\ Derive(p, known) = k * (a - 1) + 1
    BY <1>5, DeriveAgain
  <2>3. /\ Derive(p, known2) = k * (b - 1) + 1
        /\ a \in Nat \ {0} /\ b \in Nat \ {0} /\ b <= a
    BY <1>2, <1>5, <2>2, DeriveAgain
  <2> HIDE DEF k, a, b
  <2>4. a - 1 \in Nat /\ b - 1 \in Nat /\ b - 1 <= a - 1
    BY <2>3
  <2>5. \A x \in Nat, y \in Nat : x <= y => k * x <= k * y /\ k * x \in Nat /\ k * y \in Nat
    BY <2>1
  <2>6. k * (b - 1) <= k * (a - 1) /\ k * (b - 1) \in Nat /\ k * (a - 1) \in Nat
    BY <2>4, <2>5
  <2> DEFINE x == k * (b - 1)  y == k * (a - 1)
  <2>7. x <= y /\ x \in Nat /\ y \in Nat /\ Derive(p, known2) = x + 1 /\ Derive(p, known) = y + 1
    BY <2>2, <2>3, <2>6
  <2> HIDE DEF x, y
  <2>8. QED
    BY <2>7
<1>6. QED
  BY <1>1, <1>3, <1>4, <1>5, RelaxCases

(* The lengths of each height, those Derivable is the last of.             *)
Derivations == CHOOSE height : Heights(height) /\ Derivable = height[Cardinality(AllNodes)]

(* Each height derives from the one before it.                             *)
LEMMA DerivationFacts ==
  ASSUME ArenaShape
  PROVE  /\ Derivable = Derivations[Cardinality(AllNodes)]
         /\ \A k \in Nat : Derivations[k] \in Lengths
         /\ \A n \in AllNodes : Derivations[0][n] = 0
         /\ \A k \in Nat : \A n \in AllNodes : Derivations[k + 1][n] = Derive(n, Derivations[k])
<1>1. Heights(Derivations) /\ Derivable = Derivations[Cardinality(AllNodes)]
  BY DerivableIsHeight DEF Derivations
<1>2. ASSUME NEW k \in Nat
      PROVE  \A n \in AllNodes : Derivations[k + 1][n] = Derive(n, Derivations[k])
  <2>1. k + 1 \in Nat \ {0} /\ (k + 1) - 1 = k
    OBVIOUS
  <2>2. Derivations[k + 1] = [n \in AllNodes |-> Derive(n, Derivations[k])]
    BY <1>1, <2>1 DEF Heights
  <2>3. QED
    BY <2>2
<1>3. QED
  BY <1>1, <1>2 DEF Heights

(* The higher, the more nodes have a derivation, and the shorter it is.    *)
LEMMA HigherIsShorter ==
  ASSUME ArenaShape
  PROVE  \A j \in Nat, k \in Nat : j <= k => Shrinks(Derivations[j], Derivations[k])
<1> DEFINE D == Derivations
<1>1. /\ \A k \in Nat : D[k] \in Lengths
      /\ \A n \in AllNodes : D[0][n] = 0
      /\ \A k \in Nat : \A n \in AllNodes : D[k + 1][n] = Derive(n, D[k])
  BY DerivationFacts
<1> HIDE DEF D
<1> DEFINE S == {k \in Nat : Shrinks(D[k], D[k + 1])}
<1>2. 0 \in S
  BY <1>1 DEF Shrinks
<1>3. ASSUME NEW k \in Nat, k \in S PROVE k + 1 \in S
  <2>1. k + 1 \in Nat /\ D[k] \in Lengths /\ D[k + 1] \in Lengths /\ Shrinks(D[k], D[k + 1])
    BY <1>1, <1>3
  <2>2. ASSUME NEW m \in AllNodes, D[k + 1][m] # 0
        PROVE  D[k + 1 + 1][m] # 0 /\ D[k + 1 + 1][m] <= D[k + 1][m]
    <3>1. D[k + 1][m] = Derive(m, D[k]) /\ D[k + 1 + 1][m] = Derive(m, D[k + 1])
      BY <1>1, <2>1
    <3>2. QED
      BY <2>1, <2>2, <3>1, DeriveShrinks
  <2>3. QED
    BY <2>1, <2>2 DEF Shrinks
<1>4. \A k \in Nat : Shrinks(D[k], D[k + 1])
  <2>1. \A k \in Nat : k \in S
    <3> HIDE DEF S
    <3> QED BY <1>2, <1>3, CountOn
  <2>2. QED
    BY <2>1
<1>5. ASSUME NEW j \in Nat PROVE \A i \in Nat : Shrinks(D[j], D[j + i])
  <2> DEFINE T == {i \in Nat : Shrinks(D[j], D[j + i])}
  <2>1. 0 \in T
    <3>1. j + 0 = j /\ \A m \in AllNodes : D[j][m] \in Nat
      BY <1>1 DEF Lengths
    <3>2. QED
      BY <3>1 DEF Shrinks
  <2>2. ASSUME NEW i \in Nat, i \in T PROVE i + 1 \in T
    <3>1. j + i \in Nat /\ j + (i + 1) = (j + i) + 1
      OBVIOUS
    <3>2. Shrinks(D[j], D[j + i]) /\ Shrinks(D[j + i], D[j + (i + 1)])
      BY <1>4, <2>2, <3>1
    <3>3. \A m \in AllNodes : D[j][m] \in Nat /\ D[j + i][m] \in Nat /\ D[j + (i + 1)][m] \in Nat
      <4>1. D[j] \in Lengths /\ D[j + i] \in Lengths /\ D[j + (i + 1)] \in Lengths
        BY <1>1, <3>1
      <4>2. QED
        BY <4>1 DEF Lengths
    <3>4. Shrinks(D[j], D[j + (i + 1)])
      BY <3>2, <3>3 DEF Shrinks
    <3>5. QED
      BY <3>4
  <2>3. \A i \in Nat : i \in T
    <3> HIDE DEF T
    <3> QED BY <2>1, <2>2, CountOn
  <2>4. QED
    BY <2>3
<1>6. ASSUME NEW j \in Nat, NEW k \in Nat, j <= k PROVE Shrinks(D[j], D[k])
  <2>1. k - j \in Nat /\ j + (k - j) = k
    BY <1>6
  <2>2. QED
    BY <1>5, <2>1
<1>7. QED
  BY <1>6 DEF D

(* They are those of the arena.                                            *)
LEMMA DerivationsStay ==
  ASSUME arena' = arena
  PROVE  Derivations' = Derivations
<1>1. Derivable' = Derivable
  BY DEF Derivable, Derive, SumOf, AllNodes, Successors, Kind, Parts
<1>2. \A height : Heights(height)' <=> Heights(height)
  BY DEF Heights, Lengths, Derive, SumOf, AllNodes, Successors, Kind, Parts
<1>3. AllNodes' = AllNodes
  BY DEF AllNodes
<1>4. QED
  BY <1>1, <1>2, <1>3 DEF Derivations

-----------------------------------------------------------------------------
(* What holds between the candidates, what is final and what is not.       *)

(* A length no less than that of a derivation, and no more than it.        *)
NoShorter(length, derived) == derived # 0 /\ Saturated(derived - 1) <= length
NoLonger(length, derived) == derived # 0 => length <= Saturated(derived - 1)

Round == Cardinality(finalized)

OrderTypes ==
  /\ Priced(cost)
  /\ finalized \in SUBSET AllNodes
  /\ \A c \in heap : c.length \in 0 .. MaxU64 /\ c.steps \in Nat /\ c.node \in AllNodes

(* No candidate comes before what is final.                                *)
InLine == \A m \in finalized : \A c \in heap : ~Before(c, cost[m])

(* What is not final is a candidate at what it costs, or costs nothing yet.*)
Pending ==
  \A p \in AllNodes \ finalized :
    IF p \in Seeds THEN Candidate(Cost(Axiom(p), 0), p) \in heap
    ELSE cost[p] = Cost(MaxU64, MaxU32) \/ Candidate(cost[p], p) \in heap

(* It costs no more than what is final allows.                             *)
Relaxed ==
  \A p \in AllNodes \ finalized : Successors(p) \cap finalized # {} =>
    \A r \in Relax(p, cost, finalized) : ~Before(r, cost[p])

(* Each node that is made final adds one step at most, so no node ever     *)
(* takes as many as one that has no derivation.                            *)
Few ==
  /\ \A m \in finalized : cost[m].steps < Round
  /\ \A c \in heap : c.steps <= Round

(* There is a derivation behind each cost.                                 *)
Backed ==
  /\ \A m \in finalized : NoShorter(cost[m].length, Derivations[Round][m])
  /\ \A c \in heap : NoShorter(c.length, Derivations[Round + 1][c.node])

(* And none that is shorter behind what is final.                          *)
Best == \A m \in finalized : \A k \in Nat : NoLonger(cost[m].length, Derivations[k][m])

OrderInv == OrderTypes /\ InLine /\ Pending /\ Relaxed /\ Few /\ Backed /\ Best

(* There are no more rounds than nodes, and fewer than the steps of a node *)
(* that costs nothing yet.                                                 *)
LEMMA RoundFacts ==
  ASSUME ArenaShape, finalized \in SUBSET AllNodes
  PROVE  /\ Round \in Nat /\ Round <= Cardinality(AllNodes)
         /\ Cardinality(AllNodes) \in Nat
         /\ \A n \in AllNodes \ finalized : Round < MaxU32 /\ Cardinality(finalized \cup {n}) = Round + 1
<1>1. IsFiniteSet(AllNodes) /\ Cardinality(AllNodes) \in Nat
  BY NumberedFacts DEF ArenaShape
<1>2. IsFiniteSet(finalized) /\ Round \in Nat /\ Round <= Cardinality(AllNodes)
  BY <1>1, FS_Subset, FS_CardinalityType DEF Round
<1>3. ASSUME NEW n \in AllNodes \ finalized
      PROVE  Round < MaxU32 /\ Cardinality(finalized \cup {n}) = Round + 1
  <2>1. Cardinality(finalized \cup {n}) = Round + 1
    BY <1>2, FS_AddElement DEF Round
  <2>2. Cardinality(finalized \cup {n}) <= Cardinality(AllNodes)
    BY <1>1, FS_Subset
  <2>3. QED
    BY <1>1, <1>2, <2>1, <2>2 DEF ArenaShape
<1>4. QED
  BY <1>1, <1>2, <1>3

(* What a node can cost it can because of its parts.                       *)
LEMMA RelaxHasParts ==
  ASSUME ArenaShape, NEW p \in AllNodes, p \notin Seeds, NEW price, NEW final,
         NEW r \in Relax(p, price, final)
  PROVE  Successors(p) # {}
<1>1. CASE OneOf(p)
  BY <1>1, RelaxOneOf DEF OneOn
<1>2. CASE AllOf(p)
  BY <1>2, RelaxCases
<1>3. CASE Again(p)
  BY <1>3, RelaxCases
<1>4. QED
  BY <1>1, <1>2, <1>3, RelaxCases

(* Whatever has a derivation and is not final, some candidate that is not  *)
(* final either is as short.                                               *)
LEMMA Frontier ==
  ASSUME ArenaShape, OrderInv
  PROVE  \A k \in Nat : \A n \in AllNodes \ finalized :
           Derivations[k][n] # 0 =>
             \E c \in heap : c.node \notin finalized /\ NoLonger(c.length, Derivations[k][n])
<1> DEFINE D == Derivations
           Covered(k) == \A n \in AllNodes \ finalized :
                           D[k][n] # 0 =>
                             \E c \in heap : c.node \notin finalized /\ NoLonger(c.length, D[k][n])
           S == {k \in Nat : Covered(k)}
<1>1. /\ \A k \in Nat : D[k] \in Lengths
      /\ \A n \in AllNodes : D[0][n] = 0
      /\ \A k \in Nat : \A n \in AllNodes : D[k + 1][n] = Derive(n, D[k])
  BY DerivationFacts
<1>2. /\ Priced(cost) /\ finalized \in SUBSET AllNodes
      /\ \A c \in heap : c.length \in 0 .. MaxU64 /\ c.steps \in Nat /\ c.node \in AllNodes
      /\ MaxU64 \in Nat /\ MaxU32 \in Nat
      /\ \A m \in AllNodes : cost[m].length \in 0 .. MaxU64 /\ cost[m].steps \in Nat
  BY DEF OrderInv, OrderTypes, ArenaShape, Priced, Costs
<1>3. \A m \in finalized : \A k \in Nat : NoLonger(cost[m].length, D[k][m])
  BY DEF OrderInv, Best
<1> HIDE DEF D
<1>4. 0 \in S
  BY <1>1
<1>5. ASSUME NEW k \in Nat, k \in S PROVE k + 1 \in S
  <2> SUFFICES ASSUME NEW n \in AllNodes \ finalized, D[k + 1][n] # 0
               PROVE  \E c \in heap : c.node \notin finalized /\ NoLonger(c.length, D[k + 1][n])
    BY <1>5
  <2> DEFINE v == Derive(n, D[k])
  <2>1. D[k + 1][n] = v /\ D[k] \in Lengths /\ v # 0 /\ v \in Nat
    BY <1>1, DeriveFacts
  <2>2. CASE n \in Seeds
    <3>1. v = Axiom(n) + 1 /\ Axiom(n) \in Nat /\ Axiom(n) <= MaxU64
      BY <2>1, <2>2, DeriveSeed DEF ArenaShape
    <3> DEFINE c == Candidate(Cost(Axiom(n), 0), n)
    <3>2. c \in heap
      BY <2>2 DEF OrderInv, Pending
    <3>3. c.node = n /\ c.length = Axiom(n)
      BY DEF Candidate, Cost
    <3> HIDE DEF c, v
    <3>4. NoLonger(c.length, v)
      BY <1>2, <3>1, <3>3 DEF NoLonger, Saturated
    <3>5. QED
      BY <2>1, <3>2, <3>3, <3>4
  <2>3. CASE n \notin Seeds
    <3>1. \A m \in Successors(n) \cap finalized :
            D[k][m] # 0 => cost[m].length <= Saturated(D[k][m] - 1)
      BY <1>3 DEF NoLonger
    <3>2. \/ \E m \in Successors(n) \ finalized : D[k][m] # 0 /\ D[k][m] <= v
          \/ \E r \in Relax(n, cost, finalized) : r.length <= Saturated(v - 1)
      BY <1>2, <2>1, <2>3, <3>1, RelaxShort
    <3> HIDE DEF v
    <3>3. ASSUME NEW m \in Successors(n) \ finalized, D[k][m] # 0, D[k][m] <= v
          PROVE  \E c \in heap : c.node \notin finalized /\ NoLonger(c.length, D[k + 1][n])
      <4>1. m \in AllNodes /\ D[k][m] \in Nat
        BY <2>1, PossibleFacts
      <4>2. PICK c \in heap : c.node \notin finalized /\ NoLonger(c.length, D[k][m])
        BY <1>5, <3>3, <4>1
      <4>3. NoLonger(c.length, v)
        BY <1>2, <2>1, <3>3, <4>1, <4>2 DEF NoLonger, Saturated
      <4>4. QED
        BY <2>1, <4>2, <4>3
    <3>4. ASSUME NEW r \in Relax(n, cost, finalized), r.length <= Saturated(v - 1)
          PROVE  \E c \in heap : c.node \notin finalized /\ NoLonger(c.length, D[k + 1][n])
      <4>1. Successors(n) # {}
        BY <2>3, RelaxHasParts
      <4>2. /\ r.length \in 0 .. MaxU64 /\ r.steps \in Nat /\ Successors(n) \cap finalized # {}
            /\ r.steps = 0 \/ \E m \in Successors(n) \cap finalized : r.steps = cost[m].steps + 1
        BY <1>2, <2>3, <4>1, RelaxTypes DEF Costs
      <4>3. ~Before(r, cost[n])
        BY <4>2 DEF OrderInv, Relaxed
      <4>4. Round < MaxU32 /\ Round \in Nat
        BY <1>2, RoundFacts
      <4>5. r.steps < MaxU32
        BY <1>2, <4>2, <4>4 DEF OrderInv, Few
      <4>6. cost[n] # Cost(MaxU64, MaxU32)
        BY <1>2, <4>2, <4>3, <4>5 DEF Before, Cost
      <4> DEFINE c == Candidate(cost[n], n)
      <4>7. c \in heap
        BY <2>3, <4>6 DEF OrderInv, Pending
      <4>8. c.node = n /\ c.length = cost[n].length
        BY DEF Candidate
      <4>9. cost[n].length <= r.length
        BY <1>2, <4>2, <4>3, OrderFacts
      <4> HIDE DEF c
      <4>10. NoLonger(c.length, v)
        <5>1. v - 1 \in Nat
          BY <2>1
        <5>2. Saturated(v - 1) \in Nat
          BY <1>2, <5>1, SaturatedFacts
        <5>3. QED
          BY <1>2, <3>4, <4>2, <4>8, <4>9, <5>2 DEF NoLonger
      <4>11. QED
        BY <2>1, <4>7, <4>8, <4>10
    <3>5. QED
      BY <3>2, <3>3, <3>4
  <2>4. QED
    BY <2>2, <2>3
<1>6. \A k \in Nat : k \in S
  <2> HIDE DEF S
  <2> QED BY <1>4, <1>5, CountOn
<1>7. QED
  BY <1>6 DEF D

-----------------------------------------------------------------------------
(* What one step of the algorithm does, in terms of what it leaves behind. *)

(* `p` costs less than before because `n` is final.                        *)
Cheapened(p, n) ==
  /\ p \in AllNodes \ finalized' /\ n \in Successors(p)
  /\ cost'[p] \in Relax(p, cost', finalized') /\ Before(cost'[p], cost[p])

MadeFinal(c) ==
  LET n == c.node IN
  /\ n \in AllNodes \ finalized /\ \A d \in heap : ~Before(d, c)
  /\ finalized' = finalized \cup {n}
  /\ Priced(cost') /\ cost'[n] = Cost(c.length, c.steps)
  /\ \A m \in finalized : cost'[m] = cost[m]
  /\ \A p \in AllNodes \ finalized' :
       \/ Cheapened(p, n) /\ Candidate(cost'[p], p) \in heap'
       \/ /\ cost'[p] = cost[p]
          /\ n \in Successors(p) => \A r \in Relax(p, cost', finalized') : ~Before(r, cost[p])
  /\ heap \ {c} \subseteq heap'
  /\ \A x \in heap' : \/ x \in heap \ {c}
                      \/ \E p : Cheapened(p, n) /\ x = Candidate(cost'[p], p)
  /\ witness'[n] = Choice(n, cost', finalized')
  /\ \A m \in finalized : witness'[m] = witness[m]

(* That is what making the top of the heap final does.                     *)
LEMMA FinalizeFacts ==
  ASSUME KnuthInv, OrderTypes, Finalize
  PROVE  arena' = arena /\ \E c \in heap : MadeFinal(c)
<1>1. PICK c \in heap :
        /\ IsTop(c) /\ c.node \notin finalized
        /\ LET n     == c.node
               final == finalized \cup {n}
               price == [cost EXCEPT ![n] = Cost(c.length, c.steps)]
               better(p) == {r \in Relax(p, price, final) : Before(r, price[p])}
               cheaper   == {p \in AllNodes \ final : n \in Successors(p) /\ better(p) # {}}
               now == [p \in cheaper |-> CHOOSE r \in better(p) : TRUE]
           IN  /\ finalized' = final
               /\ witness' = [witness EXCEPT ![n] = Choice(n, price, final)]
               /\ cost' = [p \in AllNodes |-> IF p \in cheaper THEN now[p] ELSE price[p]]
               /\ heap' = (heap \ {c}) \cup {Candidate(now[p], p) : p \in cheaper}
  BY DEF Finalize
<1> DEFINE n     == c.node
           final == finalized \cup {n}
           price == [cost EXCEPT ![n] = Cost(c.length, c.steps)]
           better(p) == {r \in Relax(p, price, final) : Before(r, price[p])}
           cheaper   == {p \in AllNodes \ final : n \in Successors(p) /\ better(p) # {}}
           now == [p \in cheaper |-> CHOOSE r \in better(p) : TRUE]
<1>2. /\ finalized' = final
      /\ witness' = [witness EXCEPT ![n] = Choice(n, price, final)]
      /\ cost' = [p \in AllNodes |-> IF p \in cheaper THEN now[p] ELSE price[p]]
      /\ heap' = (heap \ {c}) \cup {Candidate(now[p], p) : p \in cheaper}
  BY <1>1
<1>3. /\ arena' = arena /\ ArenaShape /\ n \in AllNodes \ finalized /\ finalized \in SUBSET AllNodes
      /\ c.length \in 0 .. MaxU64 /\ c.steps \in Nat /\ Priced(cost) /\ DOMAIN witness = AllNodes
  BY <1>1 DEF Finalize, KnuthInv, KnuthTypes, OrderTypes
<1>4. \A d \in heap : ~Before(d, c)
  BY <1>1 DEF IsTop, Ahead
<1>5. Cost(c.length, c.steps) \in Costs
  BY <1>3 DEF Cost, Costs
<1>6. /\ Priced(price) /\ price[n] = Cost(c.length, c.steps)
      /\ \A m \in AllNodes : m # n => price[m] = cost[m]
  BY <1>3, <1>5 DEF Priced
<1>7. /\ \A p \in cheaper : /\ p \in AllNodes \ final /\ n \in Successors(p)
                            /\ now[p] \in Relax(p, price, final) /\ Before(now[p], price[p])
      /\ \A p \in AllNodes \ final : p \notin cheaper /\ n \in Successors(p) =>
           \A r \in Relax(p, price, final) : ~Before(r, price[p])
  OBVIOUS
<1>8. n \in final /\ finalized \subseteq final /\ final \in SUBSET AllNodes
  BY <1>3
<1> HIDE DEF price, cheaper, now, better
<1>9. \A p \in cheaper : now[p] \in Costs
  BY <1>3, <1>6, <1>7, RelaxTypes
<1>10. /\ Priced(cost')
       /\ \A m \in final : cost'[m] = price[m]
       /\ \A m \in finalized : cost'[m] = cost[m]
  <2>1. \A m \in final : m \notin cheaper
    BY <1>7
  <2>2. \A m \in AllNodes : cost'[m] \in Costs /\ DOMAIN cost' = AllNodes
    BY <1>2, <1>6, <1>9 DEF Priced
  <2>3. cost' = [m \in AllNodes |-> cost'[m]]
    BY <1>2
  <2>4. Priced(cost')
    BY <2>2, <2>3 DEF Priced
  <2>5. QED
    BY <1>2, <1>3, <1>6, <1>8, <2>1, <2>4
<1>11. \A p \in AllNodes : n \in Successors(p) => Relax(p, cost', finalized') = Relax(p, price, final)
  <2> TAKE p \in AllNodes
  <2> HAVE n \in Successors(p)
  <2>1. QED
    BY <1>2, <1>3, <1>6, <1>10, RelaxLocal
<1>12. \A p \in cheaper : Cheapened(p, n) /\ cost'[p] = now[p] /\ Candidate(cost'[p], p) \in heap'
  <2> TAKE p \in cheaper
  <2>1. p \in AllNodes \ final /\ n \in Successors(p) /\ now[p] \in Relax(p, price, final)
        /\ Before(now[p], price[p])
    BY <1>7
  <2>2. cost'[p] = now[p] /\ price[p] = cost[p]
    BY <1>2, <1>6, <1>8, <2>1
  <2>3. Candidate(now[p], p) \in heap'
    BY <1>2
  <2>4. QED
    BY <1>2, <1>11, <2>1, <2>2, <2>3 DEF Cheapened
<1>13. ASSUME NEW p \in AllNodes \ finalized', p \notin cheaper
       PROVE  /\ cost'[p] = cost[p]
              /\ n \in Successors(p) => \A r \in Relax(p, cost', finalized') : ~Before(r, cost[p])
  <2>1. p \in AllNodes \ final /\ p # n
    BY <1>2, <1>8, <1>13
  <2>2. cost'[p] = price[p] /\ price[p] = cost[p]
    BY <1>2, <1>6, <1>13, <2>1
  <2>3. QED
    BY <1>7, <1>11, <1>13, <2>1, <2>2
<1>14. \A x \in heap' : x \in heap \ {c} \/ \E p : Cheapened(p, n) /\ x = Candidate(cost'[p], p)
  BY <1>2, <1>12
<1>15. witness'[n] = Choice(n, cost', finalized')
  <2>1. witness'[n] = Choice(n, price, final)
    BY <1>2, <1>3
  <2>2. cost'[n] = price[n] /\ finalized' = final
    BY <1>2, <1>8, <1>10
  <2> DEFINE able(f) == {i \in DOMAIN Parts(n) : Parts(n)[i] \in final /\ f[Parts(n)[i]].length = f[n].length}
  <2>3. able(cost') = able(price)
    BY <1>10, <2>2
  <2> DEFINE best(f) == {i \in able(f) : \A j \in able(f) : f[Parts(n)[i]].steps <= f[Parts(n)[j]].steps}
  <2>4. best(cost') = best(price)
    BY <1>10, <2>3
  <2>5. Branch(n, cost', final) = Lowest(best(cost')) /\ Branch(n, price, final) = Lowest(best(price))
    BY DEF Branch
  <2> HIDE DEF best
  <2>6. QED
    BY <2>1, <2>2, <2>4, <2>5 DEF Choice
<1>16. \A m \in finalized : witness'[m] = witness[m]
  BY <1>2, <1>3
<1>17. MadeFinal(c)
  <2>1. /\ n \in AllNodes \ finalized /\ \A d \in heap : ~Before(d, c)
        /\ finalized' = finalized \cup {n}
        /\ Priced(cost') /\ cost'[n] = Cost(c.length, c.steps)
        /\ \A m \in finalized : cost'[m] = cost[m]
    BY <1>2, <1>3, <1>4, <1>6, <1>8, <1>10
  <2>2. \A p \in AllNodes \ finalized' :
          \/ Cheapened(p, n) /\ Candidate(cost'[p], p) \in heap'
          \/ /\ cost'[p] = cost[p]
             /\ n \in Successors(p) => \A r \in Relax(p, cost', finalized') : ~Before(r, cost[p])
    BY <1>12, <1>13
  <2>3. heap \ {c} \subseteq heap'
    BY <1>2
  <2>4. QED
    BY <1>14, <1>15, <1>16, <2>1, <2>2, <2>3 DEF MadeFinal
<1>18. QED
  BY <1>3, <1>17

-----------------------------------------------------------------------------
(* What is cheaper now that `n` is final does not come before `n`, nor     *)
(* before anything that was final already.                                 *)
LEMMA CheapenedIsDear ==
  ASSUME ArenaShape, OrderInv, NEW c \in heap, MadeFinal(c), NEW p, Cheapened(p, c.node)
  PROVE  /\ cost'[p].length \in 0 .. MaxU64 /\ cost'[p].steps \in Nat
         /\ ~Before(cost'[p], c)
         /\ \A m \in finalized : ~Before(cost'[p], cost[m])
<1> DEFINE n == c.node  r == cost'[p]
<1>1. /\ p \in AllNodes \ finalized' /\ n \in Successors(p) /\ n \in AllNodes \ finalized
      /\ r \in Relax(p, cost', finalized') /\ Before(r, cost[p])
      /\ finalized' = finalized \cup {n} /\ Priced(cost') /\ cost'[n] = Cost(c.length, c.steps)
      /\ \A m \in finalized : cost'[m] = cost[m]
      /\ \A d \in heap : ~Before(d, c)
  BY DEF MadeFinal, Cheapened
<1>2. /\ Priced(cost) /\ MaxU64 \in Nat
      /\ \A m \in AllNodes : cost[m].length \in 0 .. MaxU64 /\ cost[m].steps \in Nat
      /\ \A d \in heap : d.length \in 0 .. MaxU64 /\ d.steps \in Nat
      /\ finalized \in SUBSET AllNodes
  BY DEF OrderInv, OrderTypes, ArenaShape, Priced, Costs
<1>3. p \in AllNodes \ finalized /\ Successors(p) # {}
  BY <1>1
<1> HIDE DEF r, n
<1>4. r \in Costs /\ r.length \in 0 .. MaxU64 /\ r.steps \in Nat /\ (p \in Seeds => r = Cost(0, 0))
  BY <1>1, <1>3, RelaxTypes DEF Costs
<1>5. ~Before(r, c)
  <2>1. CASE p \in Seeds
    <3> DEFINE d == Candidate(Cost(Axiom(p), 0), p)
    <3>1. r = Cost(0, 0) /\ Axiom(p) = 0
      BY <1>3, <1>4, <2>1, RelaxCases
    <3>2. d \in heap
      BY <1>3, <2>1 DEF OrderInv, Pending
    <3>3. d.length = 0 /\ d.steps = 0 /\ r.length = 0 /\ r.steps = 0
      BY <3>1 DEF Candidate, Cost
    <3>4. ~Before(d, c)
      BY <1>1, <3>2
    <3> HIDE DEF d
    <3>5. QED
      BY <3>3, <3>4 DEF Before
  <2>2. CASE p \notin Seeds
    <3>1. \/ Before(cost'[n], r)
          \/ Successors(p) \cap finalized # {} /\ r \in Relax(p, cost', finalized)
      BY <1>1, <1>3, <2>2, RelaxDear
    <3>2. CASE Before(cost'[n], r)
      <4>1. cost'[n].length = c.length /\ cost'[n].steps = c.steps
        BY <1>1 DEF Cost
      <4>2. QED
        BY <1>2, <1>4, <3>2, <4>1 DEF Before
    <3>3. CASE Successors(p) \cap finalized # {} /\ r \in Relax(p, cost', finalized)
      <4>1. Relax(p, cost', finalized) = Relax(p, cost, finalized)
        BY <1>1, <1>2, <1>3, RelaxLocal
      <4>2. ~Before(r, cost[p])
        BY <1>3, <3>3, <4>1 DEF OrderInv, Relaxed
      <4>3. QED
        BY <1>1, <4>2
    <3>4. QED
      BY <3>1, <3>2, <3>3
  <2>3. QED
    BY <2>1, <2>2
<1>6. ASSUME NEW m \in finalized PROVE ~Before(r, cost[m])
  <2>1. ~Before(c, cost[m])
    BY DEF OrderInv, InLine
  <2>2. QED
    BY <1>2, <1>4, <1>5, <2>1, OrderFacts
<1>7. QED
  BY <1>4, <1>5, <1>6 DEF r

(* Making the top of the heap final keeps all of this: Knuth's argument.   *)
LEMMA FinalizeKeepsOrder ==
  ASSUME KnuthInv, OrderInv, Finalize
  PROVE  OrderInv'
<1>1. PICK c \in heap : MadeFinal(c)
  BY FinalizeFacts DEF OrderInv
<1> DEFINE n == c.node
<1>2. /\ n \in AllNodes \ finalized /\ \A d \in heap : ~Before(d, c)
      /\ finalized' = finalized \cup {n}
      /\ Priced(cost') /\ cost'[n] = Cost(c.length, c.steps)
      /\ \A m \in finalized : cost'[m] = cost[m]
      /\ \A p \in AllNodes \ finalized' :
           \/ Cheapened(p, n) /\ Candidate(cost'[p], p) \in heap'
           \/ /\ cost'[p] = cost[p]
              /\ n \in Successors(p) => \A r \in Relax(p, cost', finalized') : ~Before(r, cost[p])
      /\ heap \ {c} \subseteq heap'
      /\ \A x \in heap' : \/ x \in heap \ {c}
                          \/ \E p : Cheapened(p, n) /\ x = Candidate(cost'[p], p)
  BY <1>1 DEF MadeFinal
<1>3. /\ arena' = arena /\ ArenaShape /\ MaxU64 \in Nat
      /\ Priced(cost) /\ finalized \in SUBSET AllNodes
      /\ \A m \in AllNodes : cost[m].length \in 0 .. MaxU64 /\ cost[m].steps \in Nat
      /\ \A d \in heap : d.length \in 0 .. MaxU64 /\ d.steps \in Nat /\ d.node \in AllNodes
  BY FinalizeFacts DEF OrderInv, OrderTypes, KnuthInv, KnuthTypes, ArenaShape, Priced, Costs
<1>4. /\ AllNodes' = AllNodes /\ Derivations' = Derivations /\ Seeds' = Seeds
      /\ \A p : Axiom(p)' = Axiom(p)
      /\ \A p : Successors(p)' = Successors(p)
      /\ ArenaShape'
  <2>1. \A p : Axiom(p)' = Axiom(p) /\ Successors(p)' = Successors(p)
    BY <1>3 DEF Axiom, Successors, Kind, Parts
  <2>2. AllNodes' = AllNodes
    BY <1>3 DEF AllNodes
  <2>3. QED
    BY <1>3, <2>1, <2>2, ArenaStays, DerivationsStay DEF Seeds
<1>5. /\ Round \in Nat /\ Round' = Round + 1
  BY <1>2, <1>3, RoundFacts DEF Round
<1>6. \A p : Cheapened(p, n) =>
        /\ p \in AllNodes \ finalized' /\ n \in Successors(p)
        /\ cost'[p] \in Relax(p, cost', finalized')
        /\ cost'[p].length \in 0 .. MaxU64 /\ cost'[p].steps \in Nat
        /\ ~Before(cost'[p], c)
        /\ \A m \in finalized : ~Before(cost'[p], cost[m])
  BY <1>1, <1>3, CheapenedIsDear DEF Cheapened
<1>7. \A p : /\ Candidate(cost'[p], p).length = cost'[p].length
             /\ Candidate(cost'[p], p).steps = cost'[p].steps
             /\ Candidate(cost'[p], p).node = p
  BY DEF Candidate
<1>8. cost'[n].length = c.length /\ cost'[n].steps = c.steps
  BY <1>2 DEF Cost
<1> HIDE DEF n
<1>9. OrderTypes'
  <2>1. \A x \in heap' : x.length \in 0 .. MaxU64 /\ x.steps \in Nat /\ x.node \in AllNodes
    BY <1>2, <1>3, <1>6, <1>7
  <2>2. Priced(cost)'
    BY <1>2, <1>4 DEF Priced, Costs
  <2>3. QED
    BY <1>2, <1>3, <1>4, <2>1, <2>2 DEF OrderTypes
<1>10. InLine'
  <2> SUFFICES ASSUME NEW m \in finalized', NEW x \in heap' PROVE ~Before(x, cost'[m])
    BY DEF InLine, Before
  <2>1. /\ ~Before(x, c)
        /\ \A o \in finalized : ~Before(x, cost[o])
    <3>1. CASE x \in heap
      BY <1>2, <3>1 DEF OrderInv, InLine
    <3>2. CASE x \notin heap
      <4>1. PICK p : Cheapened(p, n) /\ x = Candidate(cost'[p], p)
        BY <1>2, <3>2
      <4>2. x.length = cost'[p].length /\ x.steps = cost'[p].steps
        BY <1>7, <4>1
      <4>3. QED
        BY <1>6, <4>1, <4>2 DEF Before
    <3>3. QED
      BY <3>1, <3>2
  <2>2. CASE m \in finalized
    BY <1>2, <2>1, <2>2
  <2>3. CASE m = n
    BY <1>8, <2>1, <2>3 DEF Before
  <2>4. QED
    BY <1>2, <2>2, <2>3
<1>11. Pending'
  <2> SUFFICES ASSUME NEW p \in AllNodes \ finalized'
               PROVE  IF p \in Seeds THEN Candidate(Cost(Axiom(p), 0), p) \in heap'
                      ELSE cost'[p] = Cost(MaxU64, MaxU32) \/ Candidate(cost'[p], p) \in heap'
    BY <1>4 DEF Pending, Candidate, Cost
  <2>1. p \in AllNodes \ finalized /\ p # n
    BY <1>2
  <2>2. \A x : Candidate(x, p) # c
    BY <2>1 DEF Candidate, n
  <2>3. CASE p \in Seeds
    <3>1. Candidate(Cost(Axiom(p), 0), p) \in heap
      BY <2>1, <2>3 DEF OrderInv, Pending
    <3>2. QED
      BY <1>2, <2>2, <2>3, <3>1
  <2>4. CASE p \notin Seeds
    <3>1. CASE Candidate(cost'[p], p) \in heap'
      BY <2>4, <3>1
    <3>2. CASE Candidate(cost'[p], p) \notin heap'
      <4>1. cost'[p] = cost[p]
        BY <1>2, <3>2
      <4>2. cost[p] = Cost(MaxU64, MaxU32) \/ Candidate(cost[p], p) \in heap
        BY <2>1, <2>4 DEF OrderInv, Pending
      <4>3. QED
        BY <1>2, <2>2, <2>4, <4>1, <4>2
    <3>3. QED
      BY <3>1, <3>2
  <2>5. QED
    BY <2>3, <2>4
<1>12. Relaxed'
  <2> SUFFICES ASSUME NEW p \in AllNodes \ finalized', Successors(p) \cap finalized' # {},
                      NEW r \in Relax(p, cost', finalized')
               PROVE  ~Before(r, cost'[p])
    <3>1. \A o : Relax(o, cost, finalized)' = Relax(o, cost', finalized')
      <4>1. arena' = arena
        BY <1>3
      <4>2. QED
        BY <4>1 DEF Relax, Children, Successors, Kind, Parts
    <3>2. QED
      BY <1>4, <3>1 DEF Relaxed, Before
  <2>1. p \in AllNodes \ finalized /\ Successors(p) # {}
    BY <1>2
  <2>2. r.length \in 0 .. MaxU64 /\ r.steps \in Nat
    BY <1>2, <1>3, <2>1, RelaxTypes DEF Costs
  <2>3. CASE Cheapened(p, n)
    <3>1. cost'[p] \in Relax(p, cost', finalized')
      BY <2>3 DEF Cheapened
    <3>2. r = cost'[p]
      BY <1>2, <1>3, <2>1, <3>1, RelaxOne
    <3>3. QED
      BY <1>3, <2>2, <3>2, OrderFacts
  <2>4. CASE ~Cheapened(p, n)
    <3>1. cost'[p] = cost[p] /\ (n \in Successors(p) => ~Before(r, cost[p]))
      BY <1>2, <2>4
    <3>2. CASE n \in Successors(p)
      BY <3>1, <3>2
    <3>3. CASE n \notin Successors(p)
      <4>1. Successors(p) \cap finalized' = Successors(p) \cap finalized
        BY <1>2, <3>3
      <4>2. Relax(p, cost', finalized') = Relax(p, cost, finalized)
        BY <1>2, <1>3, <2>1, <4>1, RelaxLocal
      <4>3. ~Before(r, cost[p])
        BY <2>1, <4>1, <4>2 DEF OrderInv, Relaxed
      <4>4. QED
        BY <3>1, <4>3
    <3>4. QED
      BY <3>2, <3>3
  <2>5. QED
    BY <2>3, <2>4
<1>13. Few'
  <2>1. c.steps <= Round
    BY DEF OrderInv, Few
  <2>2. \A m \in finalized' : cost'[m].steps \in Nat /\ cost'[m].steps < Round + 1
    <3>1. ASSUME NEW m \in finalized PROVE cost'[m].steps \in Nat /\ cost'[m].steps < Round + 1
      <4>1. cost'[m] = cost[m] /\ cost[m].steps < Round /\ cost[m].steps \in Nat
        BY <1>2, <1>3 DEF OrderInv, Few
      <4>2. QED
        BY <1>5, <4>1
    <3>2. cost'[n].steps \in Nat /\ cost'[n].steps < Round + 1
      BY <1>3, <1>5, <1>8, <2>1
    <3>3. QED
      BY <1>2, <3>1, <3>2
  <2>3. ASSUME NEW x \in heap' PROVE x.steps <= Round + 1
    <3>1. CASE x \in heap
      <4>1. x.steps <= Round /\ x.steps \in Nat
        BY <1>3, <3>1 DEF OrderInv, Few
      <4>2. QED
        BY <1>5, <4>1
    <3>2. CASE x \notin heap
      <4>1. PICK p : Cheapened(p, n) /\ x = Candidate(cost'[p], p)
        BY <1>2, <3>2
      <4>2. x.steps = cost'[p].steps /\ p \in AllNodes /\ Successors(p) # {}
            /\ cost'[p] \in Relax(p, cost', finalized')
        BY <1>6, <1>7, <4>1
      <4>3. cost'[p].steps = 0 \/ \E m \in Successors(p) \cap finalized' : cost'[p].steps = cost'[m].steps + 1
        BY <1>2, <1>3, <4>2, RelaxTypes
      <4>4. QED
        BY <1>5, <2>2, <4>2, <4>3
    <3>3. QED
      BY <3>1, <3>2
  <2>4. QED
    BY <1>5, <2>2, <2>3 DEF Few
<1>14. Backed'
  <2> DEFINE D == Derivations
  <2>1. /\ \A k \in Nat : D[k] \in Lengths
        /\ \A k \in Nat : \A m \in AllNodes : D[k + 1][m] = Derive(m, D[k])
        /\ \A j \in Nat, k \in Nat : j <= k => Shrinks(D[j], D[k])
    BY <1>3, DerivationFacts, HigherIsShorter
  <2>2. /\ \A m \in finalized : NoShorter(cost[m].length, D[Round][m])
        /\ \A x \in heap : NoShorter(x.length, D[Round + 1][x.node])
    BY DEF OrderInv, Backed
  <2> HIDE DEF D
  <2>3. ASSUME NEW k \in Nat, NEW m \in AllNodes, NEW l \in 0 .. MaxU64, NoShorter(l, D[k][m])
        PROVE  NoShorter(l, D[k + 1][m])
    <3>1. Shrinks(D[k], D[k + 1]) /\ D[k] \in Lengths /\ D[k + 1] \in Lengths
      BY <2>1
    <3>2. D[k][m] \in Nat /\ D[k + 1][m] \in Nat
      BY <3>1 DEF Lengths
    <3>3. D[k][m] # 0 /\ D[k + 1][m] # 0 /\ D[k + 1][m] <= D[k][m]
      BY <2>3, <3>1 DEF Shrinks, NoShorter
    <3> DEFINE v == D[k][m]  w == D[k + 1][m]
    <3> HIDE DEF v, w
    <3>4. QED
      BY <1>3, <2>3, <3>2, <3>3 DEF NoShorter, Saturated
  <2>4. \A m \in finalized' : NoShorter(cost'[m].length, D[Round + 1][m])
    <3>1. ASSUME NEW m \in finalized PROVE NoShorter(cost'[m].length, D[Round + 1][m])
      BY <1>2, <1>3, <1>5, <2>2, <2>3
    <3>2. NoShorter(cost'[n].length, D[Round + 1][n])
      BY <1>8, <2>2 DEF n
    <3>3. QED
      BY <1>2, <3>1, <3>2
  <2>5. ASSUME NEW x \in heap' PROVE NoShorter(x.length, D[Round + 1 + 1][x.node])
    <3>1. CASE x \in heap
      <4>1. Round + 1 \in Nat
        BY <1>5
      <4>2. QED
        BY <1>3, <2>2, <2>3, <3>1, <4>1
    <3>2. CASE x \notin heap
      <4>1. PICK p : Cheapened(p, n) /\ x = Candidate(cost'[p], p)
        BY <1>2, <3>2
      <4>2. x.length = cost'[p].length /\ x.node = p /\ p \in AllNodes /\ Successors(p) # {}
            /\ cost'[p] \in Relax(p, cost', finalized')
        BY <1>6, <1>7, <4>1
      <4>3. Round + 1 \in Nat /\ D[Round + 1] \in Lengths
        BY <1>5, <2>1
      <4>4. \A m \in Successors(p) \cap finalized' :
              D[Round + 1][m] # 0 /\ Saturated(D[Round + 1][m] - 1) <= cost'[m].length
        BY <2>4 DEF NoShorter
      <4>5. /\ Derive(p, D[Round + 1]) # 0
            /\ Saturated(Derive(p, D[Round + 1]) - 1) <= cost'[p].length
        BY <1>2, <1>3, <4>2, <4>3, <4>4, RelaxSound
      <4>6. D[Round + 1 + 1][p] = Derive(p, D[Round + 1])
        BY <2>1, <4>2, <4>3
      <4>7. QED
        BY <4>2, <4>5, <4>6 DEF NoShorter
    <3>3. QED
      BY <3>1, <3>2
  <2>6. QED
    BY <1>4, <1>5, <2>4, <2>5 DEF Backed, NoShorter, Saturated, D
<1>15. Best'
  <2>1. ASSUME NEW m \in finalized', NEW k \in Nat
        PROVE  NoLonger(cost'[m].length, Derivations[k][m])
    <3>1. CASE m \in finalized
      BY <1>2, <3>1 DEF OrderInv, Best
    <3>2. CASE m = n
      <4> SUFFICES ASSUME Derivations[k][n] # 0 PROVE NoLonger(c.length, Derivations[k][n])
        BY <1>8, <3>2 DEF NoLonger
      <4>1. PICK x \in heap : NoLonger(x.length, Derivations[k][n])
        BY <1>2, <1>3, Frontier
      <4>2. c.length <= x.length
        BY <1>2, <1>3, OrderFacts
      <4>3. Derivations[k][n] \in Nat \ {0}
        BY <1>2, <1>3, DerivationFacts DEF Lengths
      <4> DEFINE v == Derivations[k][n]
      <4>4. Saturated(v - 1) \in Nat
        BY <1>3, <4>3 DEF Saturated
      <4>5. QED
        BY <1>3, <4>1, <4>2, <4>4 DEF NoLonger
    <3>3. QED
      BY <1>2, <3>1, <3>2
  <2>2. QED
    BY <1>4, <2>1 DEF Best, NoLonger, Saturated
<1>16. QED
  BY <1>9, <1>10, <1>11, <1>12, <1>13, <1>14, <1>15 DEF OrderInv

-----------------------------------------------------------------------------
(* Candidates that are stale, or none at all, may go.                      *)
LEMMA FewerKeepsOrder ==
  ASSUME OrderInv, UNCHANGED <<arena, cost, finalized>>, heap' \subseteq heap,
         \A x \in heap : x.node \notin finalized => x \in heap'
  PROVE  OrderInv'
<1>1. /\ AllNodes' = AllNodes /\ Derivations' = Derivations /\ Seeds' = Seeds
      /\ \A p : Axiom(p)' = Axiom(p)
      /\ Round' = Round
  <2>1. \A p : Axiom(p)' = Axiom(p)
    BY DEF Axiom
  <2>2. AllNodes' = AllNodes
    BY DEF AllNodes
  <2>3. QED
    BY <2>1, <2>2, DerivationsStay DEF Seeds, Round
<1>2. OrderTypes'
  BY <1>1 DEF OrderInv, OrderTypes, Priced, Costs
<1>3. InLine'
  BY DEF OrderInv, InLine, Before
<1>4. Pending'
  <2>1. \A x, p : p \notin finalized /\ Candidate(x, p) \in heap => Candidate(x, p) \in heap'
    BY DEF Candidate
  <2>2. \A p : Candidate(Cost(Axiom(p), 0), p)' = Candidate(Cost(Axiom(p), 0), p)
               /\ Candidate(cost[p], p)' = Candidate(cost[p], p)
               /\ Cost(MaxU64, MaxU32)' = Cost(MaxU64, MaxU32)
    BY <1>1 DEF Candidate, Cost
  <2>3. QED
    BY <1>1, <2>1, <2>2 DEF OrderInv, Pending
<1>5. Relaxed'
  <2>1. \A o : Successors(o)' = Successors(o) /\ Relax(o, cost, finalized)' = Relax(o, cost, finalized)
    BY DEF Relax, Children, Successors, Kind, Parts
  <2>2. QED
    BY <1>1, <2>1 DEF OrderInv, Relaxed, Before
<1>6. Few'
  BY <1>1 DEF OrderInv, Few
<1>7. Backed'
  BY <1>1 DEF OrderInv, Backed, NoShorter, Saturated
<1>8. Best'
  BY <1>1 DEF OrderInv, Best, NoLonger, Saturated
<1>9. QED
  BY <1>2, <1>3, <1>4, <1>5, <1>6, <1>7, <1>8 DEF OrderInv

(* It holds of the seeds,                                                  *)
LEMMA OrderStart ==
  ASSUME ArenaShape, KnuthInit
  PROVE  OrderInv
<1>1. /\ finalized = {} /\ Round = 0
      /\ heap = {Candidate(Cost(Axiom(n), 0), n) : n \in Seeds}
      /\ cost = [n \in AllNodes |-> Cost(IF n \in Seeds THEN Axiom(n) ELSE MaxU64, MaxU32)]
      /\ MaxU64 \in Nat /\ MaxU32 \in Nat
  BY FS_EmptySet DEF KnuthInit, Round, ArenaShape
<1>2. \A n \in Seeds : n \in AllNodes /\ Axiom(n) \in 0 .. MaxU64
  <2> TAKE n \in Seeds
  <2>1. n \in AllNodes
    BY DEF Seeds
  <2>2. Axiom(n) \in Nat /\ Axiom(n) <= MaxU64
    BY <2>1, RelaxCases DEF ArenaShape
  <2>3. QED
    BY <1>1, <2>1, <2>2
<1>3. \A n : /\ Candidate(Cost(Axiom(n), 0), n).length = Axiom(n)
             /\ Candidate(Cost(Axiom(n), 0), n).steps = 0
             /\ Candidate(Cost(Axiom(n), 0), n).node = n
  BY DEF Candidate, Cost
<1>4. OrderTypes
  <2>1. \A n \in AllNodes : Cost(IF n \in Seeds THEN Axiom(n) ELSE MaxU64, MaxU32) \in Costs
    BY <1>1, <1>2 DEF Cost, Costs
  <2>2. Priced(cost)
    BY <1>1, <2>1 DEF Priced
  <2>3. QED
    BY <1>1, <1>2, <1>3, <2>2 DEF OrderTypes
<1>5. Pending
  BY <1>1 DEF Pending
<1>6. Backed
  <2> SUFFICES ASSUME NEW n \in Seeds PROVE NoShorter(Axiom(n), Derivations[0 + 1][n])
    BY <1>1, <1>3 DEF Backed
  <2>1. Derivations[0] \in Lengths /\ \A m \in AllNodes : Derivations[0 + 1][m] = Derive(m, Derivations[0])
    BY DerivationFacts
  <2>2. Derivations[0 + 1][n] = Axiom(n) + 1
    BY <1>2, <2>1, DeriveSeed
  <2>3. QED
    BY <1>1, <1>2, <2>2 DEF NoShorter, Saturated
<1>7. InLine /\ Relaxed /\ Few /\ Best
  BY <1>1, <1>3 DEF InLine, Relaxed, Few, Best
<1>8. QED
  BY <1>4, <1>5, <1>6, <1>7 DEF OrderInv

(* at every step of the algorithm,                                         *)
LEMMA OrderStep ==
  ASSUME KnuthInv, OrderInv, [KnuthNext]_<<arena, knuth>>
  PROVE  OrderInv'
<1>1. CASE UNCHANGED <<arena, knuth>>
  BY <1>1, FewerKeepsOrder DEF knuth
<1>2. CASE Discard
  <2>1. PICK c \in heap : /\ c.node \in finalized /\ heap' = heap \ {c}
                          /\ UNCHANGED <<arena, cost, finalized, witness>>
    BY <1>2 DEF Discard
  <2>2. \A x \in heap : x.node \notin finalized => x \in heap'
    BY <2>1
  <2>3. QED
    BY <2>1, <2>2, FewerKeepsOrder
<1>3. CASE Finalize
  BY <1>3, FinalizeKeepsOrder
<1>4. QED
  BY <1>1, <1>2, <1>3 DEF KnuthNext

(* What the analyses do to the arena and to the shortest matches.          *)
LEMMA KnuthSteps == [Next]_vars => [KnuthNext]_<<arena, knuth>>
  BY DEF Next, Nullable, LeftRecursion, ShortestMatches, Compatibility, vars, SearchNext,
         Root, Descend, CloseCycle, Skip, Finish, Follow

(* and of the analyses the algorithm is a part of.                         *)
LEMMA OrderAlways == Spec => []OrderInv
<1>1. Init => OrderInv
  BY OrderStart DEF Init
<1>2. Inv /\ OrderInv /\ [Next]_vars => OrderInv'
  BY OrderStep, KnuthSteps DEF Inv
<1>3. QED
  BY <1>1, <1>2, InvAlways, PTL DEF Spec

(* Of a length and the most that is counted, the lower.                    *)
LEMMA LowestIsSaturated ==
  ASSUME MaxU64 \in Nat, NEW x \in Nat
  PROVE  Lowest({x, MaxU64}) = Saturated(x)
<1> DEFINE S == {x, MaxU64}
<1>1. S \in SUBSET Nat /\ S # {}
  OBVIOUS
<1>2. Lowest(S) \in S /\ \A y \in S : Lowest(S) <= y
  <2> HIDE DEF S
  <2> QED BY <1>1, LeastLength
<1>3. QED
  BY <1>2 DEF Saturated

(* At the end what is final has its shortest length, and the rest has none.*)
LEMMA ShortestEnd ==
  ASSUME ArenaShape, OrderInv
  PROVE  ShortestExact
<1> SUFFICES ASSUME heap = {}, NEW n \in AllNodes
             PROVE  MinLen(n) = IF Derivable[n] = 0 THEN None ELSE Lowest({Derivable[n] - 1, MaxU64})
  BY DEF ShortestExact, Settled
<1> DEFINE D == Derivations  last == Cardinality(AllNodes)  v == D[last][n]
<1>1. /\ Derivable = D[last] /\ \A k \in Nat : D[k] \in Lengths
      /\ \A j \in Nat, k \in Nat : j <= k => Shrinks(D[j], D[k])
  BY DerivationFacts, HigherIsShorter
<1>2. /\ Round \in Nat /\ last \in Nat /\ Round <= last
      /\ finalized \in SUBSET AllNodes /\ MaxU64 \in Nat
      /\ \A m \in AllNodes : cost[m].length \in 0 .. MaxU64
  BY RoundFacts DEF OrderInv, OrderTypes, ArenaShape, Priced, Costs
<1>3. v \in Nat
  BY <1>1, <1>2 DEF Lengths
<1>4. CASE n \in finalized
  <2> DEFINE w == D[Round][n]  l == cost[n].length
  <2>1. w \in Nat /\ NoShorter(l, w) /\ NoLonger(l, v)
    BY <1>1, <1>2, <1>4 DEF OrderInv, Backed, Best, Lengths
  <2>2. w # 0 => v # 0 /\ v <= w
    BY <1>1, <1>2 DEF Shrinks
  <2>3. l \in 0 .. MaxU64 /\ MinLen(n) = l
    BY <1>2, <1>4 DEF MinLen
  <2> HIDE DEF v, w, l
  <2>4. v # 0 /\ l = Saturated(v - 1) /\ v - 1 \in Nat
    BY <1>2, <1>3, <2>1, <2>2, <2>3 DEF NoShorter, NoLonger, Saturated
  <2>5. MinLen(n) = Lowest({v - 1, MaxU64})
    BY <1>2, <2>3, <2>4, LowestIsSaturated
  <2>6. QED
    BY <1>1, <2>4, <2>5 DEF v
<1>5. CASE n \notin finalized
  <2>1. v = 0
    BY <1>2, <1>5, Frontier
  <2>2. QED
    BY <1>1, <1>5, <2>1 DEF MinLen
<1>6. QED
  BY <1>4, <1>5

(* Whatever the grammar, the length found for a node is that of its        *)
(* shortest match, cut off at u64::MAX, and no length is found for a node  *)
(* that matches nothing, cycles of references and lengths beyond what is   *)
(* counted included (check.rs, min_len).                                   *)
THEOREM LengthsExact == Spec => []ShortestExact
<1>1. Inv /\ OrderInv => ShortestExact
  BY ShortestEnd DEF Inv
<1>2. QED
  BY <1>1, InvAlways, OrderAlways, PTL

(* What becomes final comes after what is, and what is final stays as it   *)
(* is.                                                                     *)
LEMMA OrderedStep ==
  ASSUME KnuthInv, OrderInv, [KnuthNext]_<<arena, knuth>>
  PROVE  /\ \A n \in finalized' \ finalized, m \in finalized : ~Before(cost'[n], cost[m])
         /\ \A m \in finalized : cost'[m] = cost[m] /\ witness'[m] = witness[m]
<1>1. CASE UNCHANGED <<cost, finalized, witness>>
  BY <1>1
<1>2. CASE Finalize
  <2>1. PICK c \in heap : MadeFinal(c)
    BY <1>2, FinalizeFacts DEF OrderInv
  <2>2. /\ \A n \in finalized' \ finalized : cost'[n] = Cost(c.length, c.steps)
        /\ \A m \in finalized : cost'[m] = cost[m] /\ witness'[m] = witness[m]
    BY <2>1 DEF MadeFinal
  <2>3. ASSUME NEW n \in finalized' \ finalized, NEW m \in finalized PROVE ~Before(cost'[n], cost[m])
    <3>1. cost'[n].length = c.length /\ cost'[n].steps = c.steps
      BY <2>2 DEF Cost
    <3>2. ~Before(c, cost[m])
      BY DEF OrderInv, InLine
    <3>3. QED
      BY <3>1, <3>2 DEF Before
  <2>4. QED
    BY <2>2, <2>3
<1>3. QED
  BY <1>1, <1>2 DEF KnuthNext, Discard, knuth

(* Whatever the grammar, nodes become final in the order of their cost, and*)
(* neither the cost nor the witness of a final node changes again: what    *)
(* makes Knuth's algorithm right (check.rs, min_len).                      *)
THEOREM FinalInOrder == Spec => InOrder
<1>1. Inv /\ OrderInv /\ [Next]_vars =>
        [/\ \A n \in finalized' \ finalized, m \in finalized : ~Before(cost'[n], cost[m])
         /\ \A m \in finalized : cost'[m] = cost[m] /\ witness'[m] = witness[m]]_knuth
  BY OrderedStep, KnuthSteps DEF Inv
<1>2. QED
  BY <1>1, InvAlways, OrderAlways, PTL DEF Spec, InOrder

-----------------------------------------------------------------------------
(* The choice made when a node became final is the best with hindsight.    *)

(* The branches of `n` that are final, none of them before them.           *)
BestBranches(n, price, final) ==
  LET able == {i \in DOMAIN Parts(n) : Parts(n)[i] \in final}
  IN  {i \in able : \A j \in able : ~Before(price[Parts(n)[j]], price[Parts(n)[i]])}

(* A final branch that is as short as the node, and shallower.             *)
Leads(n, i) ==
  /\ i \in DOMAIN Parts(n) /\ Parts(n)[i] \in finalized
  /\ cost[Parts(n)[i]].length = cost[n].length /\ cost[Parts(n)[i]].steps < cost[n].steps

WitnessInv ==
  \A n \in finalized : Kind(n) = "alt" =>
    /\ witness[n] = Lowest(BestBranches(n, cost, finalized))
    /\ \E i \in DOMAIN Parts(n) : Leads(n, i)

(* No final branch of the alternation next in line is shorter than it.     *)
LEMMA NoneShorter ==
  ASSUME ArenaShape, OrderInv, NEW c \in heap, c.node \notin finalized,
         \A d \in heap : ~Before(d, c), Kind(c.node) = "alt"
  PROVE  \A b \in Successors(c.node) \cap finalized : c.length <= cost[b].length
<1> DEFINE n == c.node  S == Successors(n) \cap finalized
<1> SUFFICES ASSUME NEW b \in S PROVE c.length <= cost[b].length
  OBVIOUS
<1>1. /\ Priced(cost) /\ MaxU64 \in Nat /\ MaxU32 \in Nat
      /\ \A m \in AllNodes : cost[m].length \in 0 .. MaxU64 /\ cost[m].steps \in Nat
      /\ \A d \in heap : d.length \in 0 .. MaxU64 /\ d.steps \in Nat /\ d.node \in AllNodes
  BY DEF OrderInv, OrderTypes, ArenaShape, Priced, Costs
<1>2. n \in AllNodes \ finalized /\ OneOf(n) /\ n \notin Seeds
  BY <1>1, RelaxCases DEF OneOf
<1>3. S \in SUBSET AllNodes /\ S # {}
  BY <1>2, RelaxCases
<1>4. PICK a \in S : \A o \in S : ~Before(cost[o], cost[a])
  <2> HIDE DEF S
  <2> QED BY <1>1, <1>3, CheapestExists
<1> DEFINE r == Cost(cost[a].length, cost[a].steps + 1)
<1>5. r \in Relax(n, cost, finalized)
  BY <1>2, <1>4, RelaxOneOf DEF OneOn
<1>6. ~Before(r, cost[n])
  BY <1>2, <1>3, <1>5 DEF OrderInv, Relaxed
<1>7. r.length = cost[a].length /\ r.steps = cost[a].steps + 1 /\ a \in AllNodes /\ b \in AllNodes
  BY <1>3 DEF Cost
<1>8. cost[n].length <= cost[a].length /\ cost[a].length <= cost[b].length
  <2> HIDE DEF S, r
  <2>1. cost[n].length <= r.length
    BY <1>1, <1>2, <1>6, <1>7, OrderFacts
  <2>2. cost[a].length <= cost[b].length
    BY <1>1, <1>4, <1>7, OrderFacts
  <2>3. QED
    BY <1>7, <2>1, <2>2
<1>9. c.length <= cost[n].length
  <2>1. CASE cost[n] = Cost(MaxU64, MaxU32)
    BY <1>1, <2>1 DEF Cost
  <2>2. CASE Candidate(cost[n], n) \in heap
    <3> DEFINE d == Candidate(cost[n], n)
    <3>1. d \in heap /\ d.length = cost[n].length /\ ~Before(d, c)
      BY <2>2 DEF Candidate
    <3> HIDE DEF d
    <3>2. QED
      BY <1>1, <3>1, OrderFacts
  <2>3. QED
    BY <1>2, <2>1, <2>2 DEF OrderInv, Pending
<1>10. c.length \in Nat /\ cost[n].length \in Nat /\ cost[a].length \in Nat /\ cost[b].length \in Nat
  BY <1>1, <1>2, <1>7
<1>11. QED
  BY <1>8, <1>9, <1>10

(* Making a node final keeps the choices that were made, and makes one     *)
(* more.                                                                   *)
LEMMA FinalizeKeepsWitness ==
  ASSUME KnuthInv, OrderInv, WitnessInv, Finalize
  PROVE  WitnessInv'
<1>1. PICK c \in heap : MadeFinal(c)
  BY FinalizeFacts DEF OrderInv
<1> DEFINE n == c.node
<1>2. /\ n \in AllNodes \ finalized /\ \A d \in heap : ~Before(d, c)
      /\ finalized' = finalized \cup {n}
      /\ Priced(cost') /\ cost'[n].length = c.length /\ cost'[n].steps = c.steps
      /\ \A m \in finalized : cost'[m] = cost[m] /\ witness'[m] = witness[m]
      /\ witness'[n] = Choice(n, cost', finalized')
  BY <1>1 DEF MadeFinal, Cost
<1>3. /\ arena' = arena /\ ArenaShape /\ MaxU64 \in Nat
      /\ finalized \in SUBSET AllNodes
      /\ \A m \in AllNodes : cost[m].length \in 0 .. MaxU64 /\ cost[m].steps \in Nat
      /\ \A m \in AllNodes : cost'[m].length \in 0 .. MaxU64 /\ cost'[m].steps \in Nat
      /\ \A d \in heap : d.length \in 0 .. MaxU64 /\ d.steps \in Nat
  BY <1>2, FinalizeFacts DEF OrderInv, OrderTypes, KnuthInv, KnuthTypes, ArenaShape, Priced, Costs
<1>4. \A m \in finalized : ~Before(c, cost[m])
  BY DEF OrderInv, InLine
<1>5. Kind(n) = "alt" =>
        \E i \in DOMAIN Parts(n) :
          /\ Parts(n)[i] \in finalized
          /\ cost[Parts(n)[i]].length = c.length /\ cost[Parts(n)[i]].steps < c.steps
  <2>1. Justified(c, n, cost, finalized)
    BY DEF KnuthInv, HeapJustified
  <2>2. Kind(n) = arena.nodes[n].kind /\ Parts(n) = arena.nodes[n].parts
    BY <1>2, <1>3, ShapeFacts
  <2>3. QED
    BY <2>1, <2>2 DEF Justified
<1>6. Kind(n) = "alt" =>
        \A i \in DOMAIN Parts(n) : Parts(n)[i] \in finalized => c.length <= cost[Parts(n)[i]].length
  <2>1. Kind(n) = "alt" => \A i \in DOMAIN Parts(n) : Parts(n)[i] \in Successors(n)
    BY <1>2, <1>3, ShapeFacts DEF Children
  <2>2. QED
    BY <1>2, <1>3, <2>1, NoneShorter DEF n
<1>7. \A m \in AllNodes : Kind(m) = "alt" =>
        /\ DOMAIN Parts(m) \in SUBSET Nat
        /\ \A i \in DOMAIN Parts(m) : Parts(m)[i] \in AllNodes /\ Parts(m)[i] # m
  <2> TAKE m \in AllNodes
  <2>1. Parts(m) \in Seq(AllNodes) /\ AllNodes \in SUBSET Nat
    BY <1>3, ShapeFacts, NumberedFacts DEF ArenaShape
  <2>2. \A i \in DOMAIN Parts(m) : Parts(m)[i] \in Children(m)
    BY DEF Children
  <2>3. \A i \in DOMAIN Parts(m) : Parts(m)[i] \in AllNodes /\ m < Parts(m)[i]
    BY <1>3, <2>1, <2>2 DEF ArenaShape
  <2>4. QED
    BY <2>1, <2>3
<1> HIDE DEF n
<1>8. ASSUME Kind(n) = "alt"
      PROVE  /\ witness'[n] = Lowest(BestBranches(n, cost', finalized'))
             /\ \E i \in DOMAIN Parts(n) :
                  /\ Parts(n)[i] \in finalized'
                  /\ cost'[Parts(n)[i]].length = cost'[n].length
                  /\ cost'[Parts(n)[i]].steps < cost'[n].steps
  <2> DEFINE part(i) == Parts(n)[i]
             able == {i \in DOMAIN Parts(n) : part(i) \in finalized'}
             short == {i \in DOMAIN Parts(n) :
                         part(i) \in finalized' /\ cost'[part(i)].length = cost'[n].length}
             shallow == {i \in short : \A j \in short : cost'[part(i)].steps <= cost'[part(j)].steps}
             best == {i \in able : \A j \in able : ~Before(cost'[part(j)], cost'[part(i)])}
  <2>1. \A i \in able : /\ part(i) \in finalized /\ cost'[part(i)] = cost[part(i)]
                        /\ cost'[part(i)].length \in Nat /\ cost'[part(i)].steps \in Nat
                        /\ c.length <= cost'[part(i)].length
    <3> TAKE i \in able
    <3>1. part(i) \in AllNodes /\ part(i) # n
      BY <1>2, <1>7, <1>8
    <3>2. part(i) \in finalized
      BY <1>2, <3>1
    <3>3. cost'[part(i)] = cost[part(i)]
      BY <1>2, <3>2
    <3>4. QED
      BY <1>3, <1>6, <1>8, <3>1, <3>2, <3>3
  <2>2. \E k \in able : cost'[part(k)].length = c.length /\ cost'[part(k)].steps < c.steps
    BY <1>2, <1>5, <1>8
  <2>3. short = {i \in able : cost'[part(i)].length = c.length}
    BY <1>2
  <2> HIDE DEF part, able, short
  <2>4. PICK k \in able : cost'[part(k)].length = c.length /\ cost'[part(k)].steps < c.steps
    BY <2>2
  <2>5. best = shallow
    <3>1. ASSUME NEW i \in best PROVE i \in shallow
      <4>1. i \in able /\ ~Before(cost'[part(k)], cost'[part(i)])
        BY <3>1
      <4>2. cost'[part(i)].length = c.length
        BY <1>3, <2>1, <2>4, <4>1 DEF Before
      <4>3. ASSUME NEW j \in short PROVE cost'[part(i)].steps <= cost'[part(j)].steps
        <5>1. j \in able /\ cost'[part(j)].length = c.length /\ ~Before(cost'[part(j)], cost'[part(i)])
          BY <2>3, <3>1
        <5>2. QED
          BY <2>1, <4>1, <4>2, <5>1 DEF Before
      <4>4. QED
        BY <2>3, <4>1, <4>2, <4>3
    <3>2. ASSUME NEW i \in shallow PROVE i \in best
      <4>1. i \in able /\ cost'[part(i)].length = c.length
        BY <2>3
      <4>2. ASSUME NEW j \in able PROVE ~Before(cost'[part(j)], cost'[part(i)])
        <5>1. CASE cost'[part(j)].length = c.length
          <6>1. j \in short
            BY <2>3, <5>1
          <6>2. cost'[part(i)].steps <= cost'[part(j)].steps
            BY <3>2, <6>1
          <6>3. QED
            BY <2>1, <4>1, <5>1, <6>2 DEF Before
        <5>2. CASE cost'[part(j)].length # c.length
          BY <1>3, <2>1, <4>1, <5>2 DEF Before
        <5>3. QED
          BY <5>1, <5>2
      <4>3. QED
        BY <4>1, <4>2
    <3>3. QED
      BY <3>1, <3>2
  <2>6. witness'[n] = Branch(n, cost', finalized')
    BY <1>2, <1>8 DEF Choice
  <2>7. Branch(n, cost', finalized') = Lowest(shallow)
    BY DEF Branch, part, short
  <2>8. BestBranches(n, cost', finalized') = best
    BY DEF BestBranches, part, able
  <2>9. \E i \in DOMAIN Parts(n) :
          /\ Parts(n)[i] \in finalized'
          /\ cost'[Parts(n)[i]].length = cost'[n].length
          /\ cost'[Parts(n)[i]].steps < cost'[n].steps
    BY <1>2, <2>4 DEF part, able
  <2> HIDE DEF best, shallow
  <2>10. QED
    BY <2>5, <2>6, <2>7, <2>8, <2>9
<1>9. ASSUME NEW m \in finalized, Kind(m) = "alt"
      PROVE  /\ witness'[m] = Lowest(BestBranches(m, cost', finalized'))
             /\ \E i \in DOMAIN Parts(m) :
                  /\ Parts(m)[i] \in finalized'
                  /\ cost'[Parts(m)[i]].length = cost'[m].length
                  /\ cost'[Parts(m)[i]].steps < cost'[m].steps
  <2> DEFINE part(i) == Parts(m)[i]
             able(f) == {i \in DOMAIN Parts(m) : part(i) \in f}
             best(p, f) == {i \in able(f) : \A j \in able(f) : ~Before(p[part(j)], p[part(i)])}
  <2>1. PICK k \in DOMAIN Parts(m) : Leads(m, k)
    BY <1>9 DEF WitnessInv
  <2>2. /\ k \in able(finalized) /\ part(k) \in finalized
        /\ cost[part(k)].length = cost[m].length /\ cost[part(k)].steps < cost[m].steps
    BY <2>1 DEF Leads
  <2>3. /\ \A i \in able(finalized) : /\ i \in able(finalized') /\ cost'[part(i)] = cost[part(i)]
                                      /\ part(i) \in AllNodes
        /\ \A i \in able(finalized') : i \in able(finalized) \/ part(i) = n
    BY <1>2, <1>3
  <2>4. /\ cost[part(k)].length \in Nat /\ cost[part(k)].steps \in Nat
        /\ cost[m].length \in Nat /\ cost[m].steps \in Nat
        /\ c.length \in Nat /\ c.steps \in Nat
    BY <1>3, <2>2
  <2>5. Before(cost[part(k)], cost'[n])
    BY <1>2, <1>4, <2>2, <2>4 DEF Before
  <2> HIDE DEF part, able
  <2>6. best(cost', finalized') = best(cost, finalized)
    <3>1. ASSUME NEW i \in best(cost', finalized') PROVE i \in best(cost, finalized)
      <4>1. i \in able(finalized') /\ ~Before(cost'[part(k)], cost'[part(i)])
        BY <2>2, <2>3, <3>1
      <4>2. i \in able(finalized)
        <5>1. part(i) # n
          BY <2>2, <2>3, <2>5, <4>1
        <5>2. QED
          BY <2>3, <4>1, <5>1
      <4>3. \A j \in able(finalized) : ~Before(cost[part(j)], cost[part(i)])
        <5> TAKE j \in able(finalized)
        <5>1. ~Before(cost'[part(j)], cost'[part(i)])
          BY <2>3, <3>1
        <5>2. QED
          BY <2>3, <4>2, <5>1
      <4>4. QED
        BY <4>2, <4>3
    <3>2. ASSUME NEW i \in best(cost, finalized) PROVE i \in best(cost', finalized')
      <4>1. i \in able(finalized) /\ i \in able(finalized') /\ cost'[part(i)] = cost[part(i)]
            /\ ~Before(cost[part(k)], cost[part(i)])
        BY <2>2, <2>3, <3>2
      <4>2. ASSUME NEW j \in able(finalized') PROVE ~Before(cost'[part(j)], cost'[part(i)])
        <5>1. CASE j \in able(finalized)
          <6>1. ~Before(cost[part(j)], cost[part(i)])
            BY <3>2, <5>1
          <6>2. QED
            BY <2>3, <4>1, <5>1, <6>1
        <5>2. CASE part(j) = n
          <6>1. cost[part(i)].length \in Nat /\ cost[part(i)].steps \in Nat
                /\ cost'[n].length \in Nat /\ cost'[n].steps \in Nat
            BY <1>2, <1>3, <2>3, <2>4, <4>1
          <6>2. ~Before(cost'[n], cost[part(i)])
            BY <2>4, <2>5, <4>1, <6>1 DEF Before
          <6>3. QED
            BY <4>1, <5>2, <6>2
        <5>3. QED
          BY <2>3, <5>1, <5>2
      <4>3. QED
        BY <4>1, <4>2
    <3>3. QED
      BY <3>1, <3>2
  <2>7. witness'[m] = witness[m] /\ witness[m] = Lowest(BestBranches(m, cost, finalized))
    BY <1>2, <1>9 DEF WitnessInv
  <2>8. /\ BestBranches(m, cost, finalized) = best(cost, finalized)
        /\ BestBranches(m, cost', finalized') = best(cost', finalized')
    BY DEF BestBranches, part, able
  <2>9. \E i \in DOMAIN Parts(m) :
          /\ Parts(m)[i] \in finalized'
          /\ cost'[Parts(m)[i]].length = cost'[m].length
          /\ cost'[Parts(m)[i]].steps < cost'[m].steps
    BY <1>2, <2>2 DEF part
  <2> HIDE DEF best
  <2>10. QED
    BY <2>6, <2>7, <2>8, <2>9
<1>10. \A m : /\ Kind(m)' = Kind(m) /\ Parts(m)' = Parts(m)
              /\ BestBranches(m, cost, finalized)' = BestBranches(m, cost', finalized')
  <2>1. arena' = arena
    BY <1>3
  <2>2. QED
    BY <2>1 DEF Kind, Parts, BestBranches, Before
<1>11. QED
  <2> DEFINE Chosen(m) == /\ witness'[m] = Lowest(BestBranches(m, cost', finalized'))
                          /\ \E i \in DOMAIN Parts(m) :
                               /\ Parts(m)[i] \in finalized'
                               /\ cost'[Parts(m)[i]].length = cost'[m].length
                               /\ cost'[Parts(m)[i]].steps < cost'[m].steps
  <2>1. \A m \in finalized' : Kind(m) = "alt" => Chosen(m)
    BY <1>2, <1>8, <1>9
  <2>2. \A m : Lowest(BestBranches(m, cost, finalized))' = Lowest(BestBranches(m, cost', finalized'))
    BY <1>10
  <2>3. \A m : (\E i \in DOMAIN Parts(m) : Leads(m, i))' <=>
               \E i \in DOMAIN Parts(m) :
                 /\ Parts(m)[i] \in finalized'
                 /\ cost'[Parts(m)[i]].length = cost'[m].length
                 /\ cost'[Parts(m)[i]].steps < cost'[m].steps
    BY <1>10 DEF Leads
  <2>4. QED
    BY <1>10, <2>1, <2>2, <2>3 DEF WitnessInv

(* The choices depend on what is final alone.                              *)
LEMMA FewerKeepsWitness ==
  ASSUME WitnessInv, UNCHANGED <<arena, cost, finalized, witness>>
  PROVE  WitnessInv'
<1>1. \A m : /\ Kind(m)' = Kind(m) /\ Parts(m)' = Parts(m)
             /\ BestBranches(m, cost, finalized)' = BestBranches(m, cost, finalized)
  BY DEF Kind, Parts, BestBranches, Before
<1>2. QED
  BY <1>1 DEF WitnessInv, Leads

(* They are the best at every step of the analyses.                        *)
LEMMA WitnessAlways == Spec => []WitnessInv
<1>1. Init => WitnessInv
  BY DEF Init, KnuthInit, WitnessInv
<1>2. ASSUME KnuthInv, OrderInv, WitnessInv, [KnuthNext]_<<arena, knuth>> PROVE WitnessInv'
  <2>1. CASE UNCHANGED <<arena, cost, finalized, witness>>
    BY <1>2, <2>1, FewerKeepsWitness
  <2>2. CASE Finalize
    BY <1>2, <2>2, FinalizeKeepsWitness
  <2>3. QED
    BY <1>2, <2>1, <2>2 DEF KnuthNext, Discard, knuth
<1>3. Inv /\ OrderInv /\ WitnessInv /\ [Next]_vars => WitnessInv'
  BY <1>2, KnuthSteps DEF Inv
<1>4. QED
  BY <1>1, <1>3, InvAlways, OrderAlways, PTL DEF Spec

(* Whatever the grammar, the branch recorded for an alternation when it    *)
(* became final is the one its final costs would choose: nothing that      *)
(* became final later is shorter, or as short and shallower (D41;          *)
(* check.rs, min_len).                                                     *)
THEOREM WitnessesBest == Spec => []WitnessBest
<1>1. WitnessInv => WitnessBest
  BY DEF WitnessInv, WitnessBest, BestBranches
<1>2. QED
  BY <1>1, WitnessAlways, PTL

-----------------------------------------------------------------------------
(* The warnings of lint.                                                   *)

(* These warnings, in their order.                                         *)
Given(s, S) ==
  /\ s \in Seq(S) /\ Len(s) \in Nat
  /\ \A x \in S : \E i \in 1 .. Len(s) : s[i] = x
  /\ \A i, j \in 1 .. Len(s) : i < j => Precedes(s[i], s[j])

(* No warning, or one.                                                     *)
LEMMA GivenWhen ==
  ASSUME NEW c, NEW x
  PROVE  Given(When(c, <<x>>), IF c THEN {x} ELSE {})
<1>1. CASE c
  <2>1. PICK s : s = <<x>>
    OBVIOUS
  <2>2. s \in Seq({x}) /\ Len(s) = 1 /\ s[1] = x
    BY <2>1
  <2>3. Given(s, {x})
    BY <2>2 DEF Given
  <2>4. QED
    BY <1>1, <2>1, <2>3 DEF When
<1>2. CASE ~c
  <2>1. PICK s : s = << >>
    OBVIOUS
  <2>2. s \in Seq({}) /\ Len(s) = 0
    BY <2>1
  <2>3. Given(s, {})
    BY <2>2 DEF Given
  <2>4. QED
    BY <1>2, <2>1, <2>3 DEF When
<1>3. QED
  BY <1>1, <1>2

(* Warnings after all of which others come.                                *)
LEMMA GivenJoin ==
  ASSUME NEW s, NEW S, NEW t, NEW T, Given(s, S), Given(t, T),
         \A v \in S, w \in T : Precedes(v, w)
  PROVE  Given(s \o t, S \cup T)
<1>1. s \in Seq(S \cup T) /\ t \in Seq(S \cup T) /\ Len(s) \in Nat /\ Len(t) \in Nat
  BY SeqMonotonic DEF Given
<1>2. PICK r : r = s \o t
  OBVIOUS
<1>3. r \in Seq(S \cup T) /\ Len(r) = Len(s) + Len(t)
  BY <1>1, <1>2
<1>4. \A i \in 1 .. Len(s) : r[i] = s[i]
  BY <1>1, <1>2
<1>5. \A i \in 1 .. Len(t) : r[Len(s) + i] = t[i]
  BY <1>1, <1>2
<1>6. \A i \in 1 .. Len(r) : i \in 1 .. Len(s) \/ \E k \in 1 .. Len(t) : i = Len(s) + k
  <2> TAKE i \in 1 .. Len(r)
  <2>1. ~(i \in 1 .. Len(s)) => i - Len(s) \in 1 .. Len(t) /\ i = Len(s) + (i - Len(s))
    BY <1>1, <1>3
  <2>2. QED
    BY <2>1
<1>7. \A x \in S \cup T : \E i \in 1 .. Len(r) : r[i] = x
  <2> SUFFICES ASSUME NEW x \in S \cup T PROVE \E i \in 1 .. Len(r) : r[i] = x
    OBVIOUS
  <2>1. CASE x \in S
    <3>1. PICK i \in 1 .. Len(s) : s[i] = x
      BY <2>1 DEF Given
    <3>2. i \in 1 .. Len(r)
      BY <1>1, <1>3
    <3>3. QED
      BY <1>4, <3>1, <3>2
  <2>2. CASE x \in T
    <3>1. PICK i \in 1 .. Len(t) : t[i] = x
      BY <2>2 DEF Given
    <3>2. Len(s) + i \in 1 .. Len(r)
      BY <1>1, <1>3
    <3>3. QED
      BY <1>5, <3>1, <3>2
  <2>3. QED
    BY <2>1, <2>2
<1>8. (\A i \in 1 .. Len(s) : s[i] \in S) /\ (\A i \in 1 .. Len(t) : t[i] \in T)
  BY DEF Given
<1>9. ASSUME NEW i \in 1 .. Len(r), NEW j \in 1 .. Len(r), i < j PROVE Precedes(r[i], r[j])
  <2>1. CASE j \in 1 .. Len(s)
    <3>1. i \in 1 .. Len(s)
      BY <1>1, <1>3, <1>9, <2>1
    <3>2. QED
      BY <1>4, <1>9, <2>1, <3>1 DEF Given
  <2>2. CASE j \notin 1 .. Len(s)
    <3>1. PICK l \in 1 .. Len(t) : j = Len(s) + l
      BY <1>6, <2>2
    <3>2. r[j] = t[l] /\ t[l] \in T
      BY <1>5, <1>8, <3>1
    <3>3. CASE i \in 1 .. Len(s)
      <4>1. r[i] = s[i] /\ s[i] \in S
        BY <1>4, <1>8, <3>3
      <4>2. QED
        BY <3>2, <4>1
    <3>4. CASE i \notin 1 .. Len(s)
      <4>1. PICK k \in 1 .. Len(t) : i = Len(s) + k
        BY <1>6, <3>4
      <4>2. k < l
        BY <1>1, <1>9, <3>1, <4>1
      <4>3. r[i] = t[k]
        BY <1>5, <4>1
      <4>4. QED
        BY <3>2, <4>2, <4>3 DEF Given
    <3>5. QED
      BY <3>3, <3>4
  <2>3. QED
    BY <2>1, <2>2
<1>10. Given(r, S \cup T)
  BY <1>1, <1>3, <1>7, <1>9 DEF Given
<1>11. QED
  BY <1>2, <1>10

(* The warnings of one rule after those of another.                        *)
LEMMA GivenFlatten ==
  ASSUME NEW k \in Nat, k > 0, NEW V, NEW s \in Seq(Seq(V)), Len(s) = k, NEW W,
         \A i \in 1 .. k : Given(s[i], W[i]),
         \A i, j \in 1 .. k : i < j => \A v \in W[i], w \in W[j] : Precedes(v, w)
  PROVE  Given(FlattenSeq(s), UNION {W[i] : i \in 1 .. k})
<1> DEFINE All(n) == UNION {W[i] : i \in 1 .. n}
<1>1. PICK t \in [1 .. k -> Seq(V)] : Joins(t, s, k) /\ FlattenSeq(s) = t[k]
  <2>1. s # << >>
    OBVIOUS
  <2>2. QED
    BY <2>1, FlattenFacts
<1> DEFINE Good == {n \in 0 .. k : n > 0 => Given(t[n], All(n))}
<1>2. 0 \in Good
  OBVIOUS
<1>3. ASSUME NEW n \in 1 .. k, n - 1 \in Good PROVE n \in Good
  <2>1. CASE n = 1
    <3>1. t[n] = s[1] /\ 1 \in 1 .. k
      BY <1>1, <2>1 DEF Joins
    <3>2. All(n) = W[1]
      BY <2>1
    <3>3. Given(t[n], All(n))
      BY <3>1, <3>2
    <3>4. QED
      BY <3>3
  <2>2. CASE n # 1
    <3>1. PICK m \in 1 .. k : m = n - 1 /\ m < n
      BY <2>2
    <3>2. Given(t[m], All(m))
      BY <1>3, <3>1
    <3>3. t[n] = t[m] \o s[n]
      BY <1>1, <2>2, <3>1 DEF Joins
    <3>4. \A i \in 1 .. m : i \in 1 .. k /\ i < n
      BY <3>1
    <3>5. \A v \in All(m), w \in W[n] : Precedes(v, w)
      BY <3>4
    <3>6. Given(t[m] \o s[n], All(m) \cup W[n])
      <4> HIDE DEF All
      <4> QED BY <3>2, <3>5, GivenJoin
    <3>7. All(n) = All(m) \cup W[n]
      <4>1. 1 .. n = (1 .. m) \cup {n}
        BY <3>1
      <4>2. QED
        BY <4>1
    <3>8. Given(t[n], All(n))
      BY <3>3, <3>6, <3>7
    <3>9. QED
      BY <3>8
  <2>3. QED
    BY <2>1, <2>2
<1>4. k \in Good
  <2> HIDE DEF Good
  <2>1. \A n \in 0 .. k : n \in Good
    BY <1>2, <1>3, CountUp
  <2>2. QED
    BY <2>1
<1>5. QED
  BY <1>1, <1>4

(* The steps within a body, as written.                                    *)
ChildStep == [n \in AllNodes |-> Children(n)]

(* What is written in a body is the least set closed under these.          *)
LEMMA WrittenIsHull ==
  ASSUME ArenaShape, NEW r \in AllRules
  PROVE  Written(r) = Hull({arena.body[r]}, ChildStep, AllNodes)
<1> DEFINE P(g) == g = [S \in SUBSET AllNodes |->
                          LET T == S \cup UNION {Children(n) : n \in S}
                          IN  IF T = S THEN S ELSE g[T]]
           G == CHOOSE g : P(g)
           h == [S \in SUBSET AllNodes |-> Hull(S, ChildStep, AllNodes)]
<1>1. IsFiniteSet(AllNodes) /\ ChildStep \in [AllNodes -> SUBSET AllNodes]
        /\ {arena.body[r]} \in SUBSET AllNodes
  BY StepTypes, NumberedFacts DEF ArenaShape, ChildStep
<1>2. Written(r) = G[{arena.body[r]}]
  BY DEF Written, Closure
<1>3. \A S \in SUBSET AllNodes : UNION {ChildStep[s] : s \in S} = UNION {Children(n) : n \in S}
  BY DEF ChildStep
<1>4. P(h)
  <2>1. Grows(h, ChildStep, AllNodes)
    BY <1>1, HullIsGrown
  <2>2. QED
    BY <1>3, <2>1 DEF Grows
<1>5. P(G)
  <2> HIDE DEF P, h
  <2> QED BY <1>4
<1>6. Grows(G, ChildStep, AllNodes)
  <2> HIDE DEF G
  <2> QED BY <1>3, <1>5 DEF Grows
<1> HIDE DEF G
<1>7. QED
  BY <1>1, <1>2, <1>6, GrownIsHull

(* Where a rule runs is where a walk within it gets, which is written      *)
(* there.                                                                  *)
LEMMA RunsAreMentioned ==
  ASSUME ArenaShape, NEW r \in AllRules
  PROVE  /\ Written(r) \in SUBSET AllNodes /\ Inside(r) \subseteq Written(r)
         /\ RunsInto(r) = References(r) /\ RunsInto(r) \in SUBSET AllRules
         /\ RunsInto(r) \subseteq Mentioned(r)
<1> DEFINE from == {arena.body[r]}
<1>1. /\ ChildStep \in [AllNodes -> SUBSET AllNodes] /\ from \in SUBSET AllNodes
      /\ InsideStep \in [AllNodes -> SUBSET AllNodes]
      /\ Written(r) = Hull(from, ChildStep, AllNodes)
      /\ Inside(r) = Hull(from, InsideStep, AllNodes)
  BY StepTypes, WrittenIsHull, InsideIsHull DEF ChildStep
<1> HIDE DEF from
<1>2. Written(r) \in SUBSET AllNodes /\ from \subseteq Written(r) /\ Closed(Written(r), ChildStep)
  BY <1>1, HullFacts
<1>3. Closed(Written(r), InsideStep)
  BY <1>2 DEF Closed, ChildStep, InsideStep
<1>4. Inside(r) \subseteq Written(r)
  BY <1>1, <1>2, <1>3, HullFacts
<1>5. RunsInto(r) = References(r) /\ RunsInto(r) \in SUBSET AllRules
  BY DEF RunsInto, References, Targets
<1>6. RunsInto(r) \subseteq Mentioned(r)
  BY <1>4 DEF RunsInto, Mentioned, Targets
<1>7. QED
  BY <1>2, <1>4, <1>5, <1>6

(* The steps of the search for reachable rules.                            *)
RunStep(users) == [r \in users |-> RunsInto(r) \cap users]

(* What a search for reachable rules finds is the least set closed under   *)
(* running from a user's rule into another.                                *)
LEMMA ReachableIsHull ==
  ASSUME ArenaShape, NEW users \in SUBSET AllRules, NEW starts \in SUBSET users
  PROVE  ReachableFrom(starts, users) = Hull(starts, RunStep(users), users)
<1> DEFINE e == RunStep(users)
           P(g) == g = [found \in SUBSET users |->
                          LET more == found \cup ((UNION {RunsInto(r) : r \in found}) \cap users)
                          IN  IF more = found THEN found ELSE g[more]]
           G == CHOOSE g : P(g)
           h == [S \in SUBSET users |-> Hull(S, e, users)]
<1>1. IsFiniteSet(users) /\ e \in [users -> SUBSET users]
  <2>1. IsFiniteSet(AllRules)
    BY DEF ArenaShape, Numbered, AllRules
  <2>2. QED
    BY <2>1, FS_Subset DEF RunStep
<1>2. ReachableFrom(starts, users) = G[starts]
  BY DEF ReachableFrom
<1>3. \A S \in SUBSET users : UNION {e[s] : s \in S} = (UNION {RunsInto(r) : r \in S}) \cap users
  <2> TAKE S \in SUBSET users
  <2>1. \A s \in S : e[s] = RunsInto(s) \cap users
    BY DEF RunStep
  <2>2. UNION {e[s] : s \in S} = UNION {RunsInto(s) \cap users : s \in S}
    BY <2>1
  <2>3. QED
    BY <2>2
<1> HIDE DEF e
<1>4. P(h)
  <2>1. Grows(h, e, users)
    BY <1>1, HullIsGrown
  <2>2. QED
    BY <1>3, <2>1 DEF Grows
<1>5. P(G)
  <2> HIDE DEF P, h
  <2> QED BY <1>4
<1>6. Grows(G, e, users)
  <2> HIDE DEF G
  <2> QED BY <1>3, <1>5 DEF Grows
<1> HIDE DEF G
<1>7. QED
  BY <1>1, <1>2, <1>6, GrownIsHull DEF e

(* The rules that are the user's, and the others: these mention none of    *)
(* them.                                                                   *)
LEMMA UsersFacts ==
  ASSUME ArenaShape, NEW k \in UserCounts
  PROVE  /\ k \in Nat /\ k > 0 /\ 0 .. k - 1 \in SUBSET AllRules /\ AllRules \subseteq Nat
         /\ \A r \in AllRules \ (0 .. k - 1) : RunsInto(r) \cap (0 .. k - 1) = {}
<1>1. /\ k \in 1 .. Cardinality(AllRules)
      /\ \A r \in AllRules : r >= k => Mentioned(r) \cap (0 .. k - 1) = {}
  BY DEF UserCounts
<1>2. AllRules = 0 .. Cardinality(AllRules) - 1 /\ Cardinality(AllRules) \in Nat
  BY FS_CardinalityType DEF ArenaShape, Numbered, AllRules
<1>3. k \in Nat /\ k > 0 /\ 0 .. k - 1 \in SUBSET AllRules /\ AllRules \subseteq Nat
  BY <1>1, <1>2
<1>4. \A r \in AllRules \ (0 .. k - 1) : r >= k
  BY <1>2, <1>3
<1>5. QED
  BY <1>1, <1>3, <1>4, RunsAreMentioned

(* The node is a reference to the rule.                                    *)
Names(n, r) == Kind(n) = "ref" /\ arena.nodes[n].target = r

(* The nodes met on walks from some rules.                                 *)
MetFrom(starts) == Closure({arena.body[s] : s \in starts}, Reachable)

(* They are the bodies of these and where that leads, and nothing else.    *)
LEMMA MetFromFacts ==
  ASSUME ArenaShape, NEW starts \in SUBSET AllRules
  PROVE  /\ MetFrom(starts) \in SUBSET AllNodes
         /\ \A s \in starts : arena.body[s] \in MetFrom(starts)
         /\ \A n \in MetFrom(starts) : Reachable(n) \subseteq MetFrom(starts)
         /\ \A C \in SUBSET AllNodes :
              (\A s \in starts : arena.body[s] \in C) /\ (\A n \in C : Reachable(n) \subseteq C)
                => MetFrom(starts) \subseteq C
<1> DEFINE from == {arena.body[s] : s \in starts}
<1>1. from \in SUBSET AllNodes /\ WalkStep \in [AllNodes -> SUBSET AllNodes]
  BY StepTypes
<1>2. MetFrom(starts) = Hull(from, WalkStep, AllNodes)
  BY <1>1, MetIsHull DEF MetFrom
<1>3. /\ MetFrom(starts) \in SUBSET AllNodes /\ from \subseteq MetFrom(starts)
      /\ Closed(MetFrom(starts), WalkStep)
      /\ \A C \in SUBSET AllNodes : from \subseteq C /\ Closed(C, WalkStep) => MetFrom(starts) \subseteq C
  <2> HIDE DEF from
  <2> QED BY <1>1, <1>2, HullFacts
<1>4. \A C \in SUBSET AllNodes : Closed(C, WalkStep) <=> \A n \in C : Reachable(n) \subseteq C
  BY DEF Closed, WalkStep
<1>5. QED
  BY <1>3, <1>4

(* Where a walk from a start meets a rule's body, it meets all inside.     *)
LEMMA InsideIsMetFrom ==
  ASSUME ArenaShape, NEW starts \in SUBSET AllRules, NEW h \in AllRules,
         arena.body[h] \in MetFrom(starts)
  PROVE  Inside(h) \subseteq MetFrom(starts)
<1> DEFINE M == MetFrom(starts)
<1>1. M \in SUBSET AllNodes /\ \A n \in M : Reachable(n) \subseteq M
  BY MetFromFacts
<1>2. \A n \in M : InsideStep[n] \subseteq M
  <2> TAKE n \in M
  <2>1. n \in AllNodes /\ Reachable(n) \subseteq M
    BY <1>1
  <2>2. Kind(n) = "ref" => Children(n) = {}
    BY <2>1, StepTypes
  <2>3. Kind(n) # "ref" => Successors(n) = Children(n)
    BY DEF Successors, Children
  <2>4. IF IsNever(n) THEN InsideStep[n] = {} ELSE InsideStep[n] = Children(n) /\ Reachable(n) = Successors(n)
    BY <2>1 DEF InsideStep, Reachable
  <2>5. QED
    BY <2>1, <2>2, <2>3, <2>4
<1>3. Closed(M, InsideStep)
  BY <1>2 DEF Closed
<1>4. /\ Inside(h) = Hull({arena.body[h]}, InsideStep, AllNodes)
      /\ InsideStep \in [AllNodes -> SUBSET AllNodes] /\ {arena.body[h]} \in SUBSET AllNodes
  BY InsideIsHull, StepTypes
<1> HIDE DEF M
<1>5. Inside(h) \subseteq M
  BY <1>1, <1>3, <1>4, HullFacts DEF M
<1>6. QED
  BY <1>5 DEF M

(* A rule is found reachable exactly if it is a start or a walk from one   *)
(* meets a reference to it.                                                *)
LEMMA ReachedIsMet ==
  ASSUME ArenaShape, NEW k \in UserCounts, NEW starts \in SUBSET (0 .. k - 1), NEW r \in 0 .. k - 1
  PROVE  r \in ReachableFrom(starts, 0 .. k - 1)
           <=> r \in starts \/ \E n \in MetFrom(starts) : Names(n, r)
<1>1. PICK users \in SUBSET AllRules : users = 0 .. k - 1
  BY UsersFacts
<1>2. \A s \in AllRules \ users : RunsInto(s) \cap users = {}
  BY <1>1, UsersFacts
<1> DEFINE H == ReachableFrom(starts, users)  M == MetFrom(starts)  e == RunStep(users)
<1>3. e \in [users -> SUBSET users] /\ starts \in SUBSET users /\ starts \in SUBSET AllRules /\ r \in users
  BY <1>1 DEF RunStep
<1>4. /\ H \in SUBSET users /\ starts \subseteq H /\ Closed(H, e)
      /\ \A C \in SUBSET users : starts \subseteq C /\ Closed(C, e) => H \subseteq C
  <2>1. H = Hull(starts, e, users)
    BY <1>3, ReachableIsHull
  <2> HIDE DEF H, e
  <2>2. QED
    BY <1>3, <2>1, HullFacts
<1>5. /\ M \in SUBSET AllNodes /\ \A n \in M : Reachable(n) \subseteq M
      /\ \A s \in starts : arena.body[s] \in M
      /\ \A C \in SUBSET AllNodes :
           (\A s \in starts : arena.body[s] \in C) /\ (\A n \in C : Reachable(n) \subseteq C) => M \subseteq C
  BY <1>3, MetFromFacts
<1>6. ASSUME r \in H PROVE r \in starts \/ \E n \in M : Names(n, r)
  <2> DEFINE C == {h \in users : arena.body[h] \in M /\ (h \in starts \/ \E n \in M : Names(n, h))}
  <2>1. starts \subseteq C
    BY <1>3, <1>5
  <2>2. ASSUME NEW h \in C, NEW t \in e[h] PROVE t \in C
    <3>1. h \in AllRules /\ t \in RunsInto(h) /\ t \in users /\ t \in AllRules
      BY <1>1, <2>2 DEF RunStep
    <3>2. PICK n \in Inside(h) : Names(n, t)
      BY <3>1 DEF RunsInto, Targets, Names
    <3>3. n \in M
      BY <1>3, <2>2, <3>1, InsideIsMetFrom
    <3>4. n \in AllNodes /\ Reachable(n) = {arena.body[t]}
      BY <1>5, <3>2, <3>3, RefIsMet DEF Names
    <3>5. arena.body[t] \in M
      BY <1>5, <3>3, <3>4
    <3>6. QED
      BY <3>1, <3>2, <3>3, <3>5
  <2>3. Closed(C, e)
    BY <2>2 DEF Closed
  <2>4. r \in C
    <3> HIDE DEF C, H, e
    <3>1. C \in SUBSET users
      BY DEF C
    <3>2. QED
      BY <1>4, <1>6, <2>1, <2>3, <3>1
  <2>5. QED
    BY <2>4
<1>7. ASSUME NEW n \in M, Names(n, r) PROVE r \in H
  <2> DEFINE Home(h) == h \in H \/ h \in AllRules \ users
             C == {m \in AllNodes : \E h \in AllRules : Home(h) /\ m \in Inside(h)}
  <2>1. \A s \in starts : arena.body[s] \in C
    <3> TAKE s \in starts
    <3>1. s \in AllRules /\ Home(s) /\ arena.body[s] \in AllNodes /\ arena.body[s] \in Inside(s)
      BY <1>3, <1>4, InsideFacts, StepTypes
    <3>2. QED
      BY <3>1
  <2>2. ASSUME NEW h \in AllRules, Home(h), NEW m \in Inside(h), NEW t, Names(m, t)
        PROVE  t \in AllRules /\ Home(t) /\ (t \in users => h \in H)
    <3>1. t \in References(h) /\ t \in AllRules /\ t \in RunsInto(h)
      BY <2>2, InsideFacts, RunsAreMentioned DEF Names
    <3>2. t \in users => h \in H
      BY <1>2, <2>2, <3>1
    <3>3. t \in users => t \in H
      <4>1. t \in users => h \in users /\ t \in e[h]
        BY <1>4, <3>1, <3>2 DEF RunStep
      <4> HIDE DEF e, H
      <4>2. QED
        BY <1>4, <3>2, <4>1 DEF Closed
    <3>4. QED
      BY <3>1, <3>2, <3>3
  <2>3. ASSUME NEW m \in C, NEW x \in Reachable(m) PROVE x \in C
    <3>1. PICK h \in AllRules : Home(h) /\ m \in Inside(h)
      BY <2>3
    <3>2. m \in AllNodes /\ ~IsNever(m) /\ x \in Successors(m)
      BY <2>3 DEF Reachable
    <3>3. CASE Kind(m) = "ref"
      <4>1. PICK t : Names(m, t)
        BY <3>3 DEF Names
      <4>2. t \in AllRules /\ Home(t)
        BY <2>2, <3>1, <4>1
      <4>3. x = arena.body[t]
        BY <3>2, <3>3, <4>1, RefIsMet DEF Names, Reachable
      <4>4. x \in AllNodes /\ x \in Inside(t)
        BY <4>2, <4>3, InsideFacts, StepTypes
      <4> HIDE DEF Home
      <4>5. QED
        BY <4>2, <4>4
    <3>4. CASE Kind(m) # "ref"
      <4>1. x \in Children(m)
        BY <3>2, <3>4 DEF Successors, Children
      <4>2. x \in Inside(h) /\ x \in AllNodes
        BY <3>1, <3>2, <4>1, InsideFacts
      <4> HIDE DEF Home
      <4>3. QED
        BY <3>1, <4>2
    <3>5. QED
      BY <3>3, <3>4
  <2>4. n \in C
    <3> HIDE DEF C
    <3>1. C \in SUBSET AllNodes
      BY DEF C
    <3>2. \A m \in C : Reachable(m) \subseteq C
      BY <2>3
    <3>3. QED
      BY <1>5, <2>1, <3>1, <3>2
  <2>5. PICK h \in AllRules : Home(h) /\ n \in Inside(h)
    BY <2>4
  <2>6. h \in H
    BY <1>3, <1>7, <2>2, <2>5
  <2>7. r \in RunsInto(h) /\ h \in users
    BY <1>4, <1>7, <2>5, <2>6, InsideFacts, RunsAreMentioned DEF Names
  <2>8. r \in e[h]
    BY <1>3, <2>7 DEF RunStep
  <2> HIDE DEF e, H
  <2>9. QED
    BY <1>4, <2>6, <2>8 DEF Closed
<1>8. r \in starts => r \in H
  BY <1>4
<1>9. QED
  BY <1>1, <1>6, <1>7, <1>8

(* What no other rule mentions and is no start is not found reachable.     *)
LEMMA UnmentionedIsUnreached ==
  ASSUME ArenaShape, NEW k \in UserCounts, NEW starts \in SUBSET (0 .. k - 1), NEW r \in 0 .. k - 1,
         r \notin starts, r \notin ReferencedByOthers(0 .. k - 1)
  PROVE  r \notin ReachableFrom(starts, 0 .. k - 1)
<1>1. PICK users \in SUBSET AllRules : users = 0 .. k - 1
  BY UsersFacts
<1> DEFINE H == ReachableFrom(starts, users)  e == RunStep(users)  C == H \ {r}
<1>2. e \in [users -> SUBSET users] /\ starts \in SUBSET users
  BY <1>1 DEF RunStep
<1>3. H = Hull(starts, e, users)
  BY <1>2, ReachableIsHull
<1> HIDE DEF H, e
<1>4. /\ H \in SUBSET users /\ starts \subseteq H /\ Closed(H, e)
      /\ \A D \in SUBSET users : starts \subseteq D /\ Closed(D, e) => H \subseteq D
  BY <1>2, <1>3, HullFacts
<1>5. ASSUME NEW h \in C, NEW t \in e[h] PROVE t \in C
  <2>1. h \in H /\ h # r /\ h \in users /\ h \in AllRules
    BY <1>4, <1>5
  <2>2. t \in H
    BY <1>4, <2>1 DEF Closed
  <2>3. t \in Mentioned(h)
    BY <2>1, RunsAreMentioned DEF e, RunStep
  <2>4. t # r
    BY <1>1, <2>1, <2>3 DEF ReferencedByOthers
  <2>5. QED
    BY <2>2, <2>4
<1>6. C \in SUBSET users /\ starts \subseteq C /\ Closed(C, e)
  <2>1. Closed(C, e)
    BY <1>5 DEF Closed
  <2>2. QED
    BY <1>4, <2>1
<1>7. H \subseteq C
  <2> HIDE DEF C
  <2> QED BY <1>4, <1>6
<1>8. QED
  BY <1>1, <1>7 DEF H

(* The dead branches of a body can be listed.                              *)
LEMMA BranchesListed ==
  ASSUME ArenaShape, NEW r \in AllRules
  PROVE  IsList(Ascending(UnproductiveBranches(r)), UnproductiveBranches(r))
<1>1. AllNodes = 0 .. Cardinality(AllNodes) - 1 /\ Cardinality(AllNodes) \in Nat
  BY FS_CardinalityType DEF ArenaShape, Numbered
<1>2. PICK N \in Nat : N = Cardinality(AllNodes)
  BY <1>1
<1>3. \A n \in AllNodes : DOMAIN Parts(n) = 1 .. Len(Parts(n)) /\ Len(Parts(n)) \in Nat
  <2> TAKE n \in AllNodes
  <2>1. Parts(n) \in Seq(AllNodes)
    BY ShapeFacts
  <2>2. QED
    BY <2>1
<1>4. PICK u \in Nat : \A n \in AllNodes : Len(Parts(n)) <= u
  <2> DEFINE f == [i \in 1 .. N |-> Len(Parts(i - 1))]
  <2>1. \A i \in 1 .. N : f[i] \in Nat
    <3> TAKE i \in 1 .. N
    <3>1. i - 1 \in AllNodes
      BY <1>1, <1>2
    <3>2. QED
      BY <1>3, <3>1
  <2>2. PICK u \in Nat : \A i \in 1 .. N : f[i] <= u
    <3> HIDE DEF f
    <3> QED BY <2>1, BoundExists
  <2>3. ASSUME NEW n \in AllNodes PROVE Len(Parts(n)) <= u
    <3>1. n + 1 \in 1 .. N /\ (n + 1) - 1 = n
      BY <1>1, <1>2
    <3>2. f[n + 1] = Len(Parts(n))
      BY <3>1
    <3>3. QED
      BY <2>2, <3>1, <3>2
  <2>4. QED
    BY <2>3
<1> DEFINE B == UnproductiveBranches(r)
<1>5. \A b \in B : b \in Nat /\ b < u
  <2> TAKE b \in B
  <2>1. PICK n \in Written(r) : \E i \in DOMAIN Parts(n) : b = i - 1
    BY DEF UnproductiveBranches
  <2>2. PICK i \in DOMAIN Parts(n) : b = i - 1
    BY <2>1
  <2>3. n \in AllNodes
    BY RunsAreMentioned
  <2>4. i \in 1 .. Len(Parts(n)) /\ Len(Parts(n)) \in Nat /\ Len(Parts(n)) <= u
    BY <1>3, <1>4, <2>3
  <2>5. QED
    BY <2>2, <2>4
<1> HIDE DEF B
<1>6. PICK s : IsList(s, B)
  BY <1>5, ListExists
<1>7. B \in SUBSET Nat
  BY <1>5
<1>8. Ascending(B) = s
  BY <1>6, <1>7, ListIsAscending
<1>9. QED
  BY <1>6, <1>8 DEF B

(* A warning's kind, rule and branch can be told, and say how it precedes. *)
LEMMA WarningFacts ==
  ASSUME NEW r
  PROVE  /\ \A kind : Warning(kind, r).kind = kind /\ Warning(kind, r).rule = r
         /\ \A i : /\ DeadBranch(r, i).kind = "UnproductiveAlternative" /\ DeadBranch(r, i).rule = r
                   /\ DeadBranch(r, i).branch = i /\ Rank(DeadBranch(r, i)) = 2
         /\ Rank(Warning("ShadowsCoreRule", r)) = 0 /\ Rank(Warning("UnproductiveRule", r)) = 1
         /\ Rank(Warning("UnreferencedRule", r)) = 3 /\ Rank(Warning("UnreachableRule", r)) = 4
  BY DEF Warning, DeadBranch, Rank

(* What is due on what the rule can match.                                 *)
OnProductivity(r) ==
  IF MinLen(arena.body[r]) = None THEN {Warning("UnproductiveRule", r)}
  ELSE {DeadBranch(r, b) : b \in UnproductiveBranches(r)}

(* The warnings a rule is due.                                             *)
Due(r, users, shadows, starts) ==
  (((IF r \in shadows THEN {Warning("ShadowsCoreRule", r)} ELSE {})
     \cup OnProductivity(r))
     \cup (IF r \notin ReferencedByOthers(users) THEN {Warning("UnreferencedRule", r)} ELSE {}))
     \cup (IF starts # None /\ r \notin ReachableFrom(starts, users)
           THEN {Warning("UnreachableRule", r)} ELSE {})

(* On productivity what is due is given.                                   *)
LEMMA GivenProductivity ==
  ASSUME ArenaShape, NEW r \in AllRules
  PROVE  Given(Productivity(r), OnProductivity(r))
<1>1. CASE MinLen(arena.body[r]) = None
  <2>1. Given(When(TRUE, <<Warning("UnproductiveRule", r)>>),
              IF TRUE THEN {Warning("UnproductiveRule", r)} ELSE {})
    BY GivenWhen
  <2>2. QED
    BY <1>1, <2>1 DEF When, Productivity, OnProductivity
<1>2. CASE MinLen(arena.body[r]) # None
  <2>1. PICK B : B = UnproductiveBranches(r)
    OBVIOUS
  <2>2. PICK d : d = Ascending(B)
    OBVIOUS
  <2>3. d \in Seq(B) /\ Lists(d, B) /\ DOMAIN d = 1 .. Len(d) /\ Len(d) \in Nat
    BY <2>1, <2>2, BranchesListed DEF IsList
  <2>4. PICK w : w = [k \in DOMAIN d |-> DeadBranch(r, d[k])]
    OBVIOUS
  <2>5. PICK S : S = {DeadBranch(r, b) : b \in B}
    OBVIOUS
  <2>6. \A k \in 1 .. Len(d) : w[k] = DeadBranch(r, d[k]) /\ d[k] \in B
    BY <2>3, <2>4
  <2>7. w \in Seq(S) /\ Len(w) = Len(d)
    <3>1. \A k \in 1 .. Len(d) : w[k] \in S
      BY <2>5, <2>6
    <3>2. w \in [1 .. Len(d) -> S]
      BY <2>3, <2>4, <3>1
    <3>3. QED
      BY <2>3, <3>2
  <2>8. \A x \in S : \E k \in 1 .. Len(w) : w[k] = x
    <3> SUFFICES ASSUME NEW b \in B PROVE \E k \in 1 .. Len(d) : w[k] = DeadBranch(r, b)
      BY <2>5, <2>7
    <3>1. PICK k \in 1 .. Len(d) : d[k] = b
      BY <2>3 DEF Lists
    <3>2. QED
      BY <2>6, <3>1
  <2>9. ASSUME NEW i \in 1 .. Len(w), NEW j \in 1 .. Len(w), i < j PROVE Precedes(w[i], w[j])
    <3>1. d[i] < d[j]
      BY <2>3, <2>7, <2>9 DEF Lists
    <3>2. w[i] = DeadBranch(r, d[i]) /\ w[j] = DeadBranch(r, d[j])
      BY <2>6, <2>7
    <3>3. /\ w[i].rule = r /\ Rank(w[i]) = 2 /\ w[i].branch = d[i]
          /\ w[j].rule = r /\ Rank(w[j]) = 2 /\ w[j].branch = d[j]
      <4>1. \A x : DeadBranch(r, x).rule = r /\ Rank(DeadBranch(r, x)) = 2 /\ DeadBranch(r, x).branch = x
        BY DEF DeadBranch, Rank
      <4>2. QED
        BY <3>2, <4>1
    <3>4. QED
      BY <3>1, <3>3 DEF Precedes
  <2>10. Given(w, S)
    BY <2>3, <2>7, <2>8, <2>9 DEF Given
  <2>11. QED
    BY <1>2, <2>1, <2>2, <2>4, <2>5, <2>10 DEF Productivity, OnProductivity
<1>3. QED
  BY <1>1, <1>2

(* Of one rule what is due is given, in its order.                         *)
LEMMA GivenRule ==
  ASSUME ArenaShape, NEW r \in AllRules, NEW users, NEW shadows, NEW starts
  PROVE  Given(WarningsOf(r, users, shadows, starts), Due(r, users, shadows, starts))
<1> DEFINE unreferenced == r \notin ReferencedByOthers(users)
           unreached == starts # None /\ r \notin ReachableFrom(starts, users)
<1>1. PICK a, A : /\ a = When(r \in shadows, <<Warning("ShadowsCoreRule", r)>>)
                  /\ A = IF r \in shadows THEN {Warning("ShadowsCoreRule", r)} ELSE {}
  OBVIOUS
<1>2. PICK b, B : b = Productivity(r) /\ B = OnProductivity(r)
  OBVIOUS
<1>3. PICK c, C : /\ c = When(unreferenced, <<Warning("UnreferencedRule", r)>>)
                  /\ C = IF unreferenced THEN {Warning("UnreferencedRule", r)} ELSE {}
  OBVIOUS
<1>4. PICK d, D : /\ d = When(unreached, <<Warning("UnreachableRule", r)>>)
                  /\ D = IF unreached THEN {Warning("UnreachableRule", r)} ELSE {}
  OBVIOUS
<1>5. Given(a, A) /\ Given(b, B) /\ Given(c, C) /\ Given(d, D)
  <2> HIDE DEF unreferenced, unreached
  <2> QED BY <1>1, <1>2, <1>3, <1>4, GivenWhen, GivenProductivity
<1>6. /\ \A v \in A : v.rule = r /\ Rank(v) = 0
      /\ \A v \in B : v.rule = r /\ Rank(v) \in {1, 2}
      /\ \A v \in C : v.rule = r /\ Rank(v) = 3
      /\ \A v \in D : v.rule = r /\ Rank(v) = 4
  BY <1>1, <1>2, <1>3, <1>4, WarningFacts DEF OnProductivity
<1> HIDE DEF unreferenced, unreached
<1>7. Given(a \o b, A \cup B)
  <2>1. \A v \in A, w \in B : Precedes(v, w)
    BY <1>6 DEF Precedes
  <2>2. QED
    BY <1>5, <2>1, GivenJoin
<1>8. Given((a \o b) \o c, (A \cup B) \cup C)
  <2>1. \A v \in A \cup B, w \in C : Precedes(v, w)
    BY <1>6 DEF Precedes
  <2>2. QED
    BY <1>5, <1>7, <2>1, GivenJoin
<1>9. Given(((a \o b) \o c) \o d, ((A \cup B) \cup C) \cup D)
  <2>1. \A v \in (A \cup B) \cup C, w \in D : Precedes(v, w)
    BY <1>6 DEF Precedes
  <2>2. QED
    BY <1>5, <1>8, <2>1, GivenJoin
<1>10. /\ WarningsOf(r, users, shadows, starts) = ((a \o b) \o c) \o d
       /\ Due(r, users, shadows, starts) = ((A \cup B) \cup C) \cup D
  BY <1>1, <1>2, <1>3, <1>4 DEF WarningsOf, Due, unreferenced, unreached
<1>11. QED
  BY <1>9, <1>10

(* What is due is about its rule.                                          *)
LEMMA DueFacts ==
  ASSUME NEW r, NEW users, NEW shadows, NEW starts, NEW w \in Due(r, users, shadows, starts)
  PROVE  w.rule = r
<1>1. \/ w \in {Warning("ShadowsCoreRule", r), Warning("UnreferencedRule", r), Warning("UnreachableRule", r)}
      \/ w \in OnProductivity(r)
  BY DEF Due
<1>2. QED
  BY <1>1, WarningFacts DEF OnProductivity

(* So it is of all the rules of the user.                                  *)
LEMMA GivenAll ==
  ASSUME ArenaShape, NEW k \in UserCounts, NEW shadows, NEW starts
  PROVE  Given(FlattenSeq([i \in 1 .. k |-> WarningsOf(i - 1, 0 .. k - 1, shadows, starts)]),
               UNION {Due(r, 0 .. k - 1, shadows, starts) : r \in 0 .. k - 1})
<1> DEFINE of(i) == WarningsOf(i - 1, 0 .. k - 1, shadows, starts)
           due(i) == Due(i - 1, 0 .. k - 1, shadows, starts)
           s == [i \in 1 .. k |-> of(i)]
           W == [i \in 1 .. k |-> due(i)]
           V == UNION {due(i) : i \in 1 .. k}
<1>1. k \in Nat /\ k > 0 /\ \A i \in 1 .. k : i - 1 \in AllRules /\ i - 1 \in 0 .. k - 1
  BY UsersFacts
<1>2. ASSUME NEW i \in 1 .. k PROVE Given(s[i], W[i]) /\ s[i] \in Seq(V)
  <2>1. i - 1 \in AllRules
    BY <1>1
  <2>2. Given(of(i), due(i))
    BY <2>1, GivenRule
  <2>3. due(i) \subseteq V
    OBVIOUS
  <2>4. of(i) \in Seq(V)
    <3> HIDE DEF of, due, V
    <3> QED BY <2>2, <2>3, SeqMonotonic DEF Given
  <2>5. s[i] = of(i) /\ W[i] = due(i)
    OBVIOUS
  <2>6. QED
    BY <2>2, <2>4, <2>5
<1>3. s \in Seq(Seq(V)) /\ Len(s) = k
  <2>1. s \in [1 .. k -> Seq(V)]
    <3>1. \A i \in 1 .. k : s[i] \in Seq(V)
      BY <1>2
    <3>2. s = [i \in 1 .. k |-> s[i]]
      OBVIOUS
    <3> HIDE DEF s, V
    <3>3. QED
      BY <3>1, <3>2
  <2>2. QED
    BY <1>1, <2>1
<1>4. ASSUME NEW i \in 1 .. k, NEW j \in 1 .. k, i < j, NEW v \in W[i], NEW w \in W[j]
      PROVE  Precedes(v, w)
  <2>1. v \in due(i) /\ w \in due(j)
    OBVIOUS
  <2>2. v.rule = i - 1 /\ w.rule = j - 1
    BY <2>1, DueFacts
  <2>3. QED
    BY <1>1, <1>4, <2>2 DEF Precedes
<1>5. Given(FlattenSeq(s), UNION {W[i] : i \in 1 .. k})
  <2>1. \A i \in 1 .. k : Given(s[i], W[i])
    BY <1>2
  <2>2. \A i, j \in 1 .. k : i < j => \A v \in W[i], w \in W[j] : Precedes(v, w)
    BY <1>4
  <2> HIDE DEF s, W, V
  <2>3. QED
    BY <1>1, <1>3, <2>1, <2>2, GivenFlatten
<1>6. UNION {W[i] : i \in 1 .. k} = UNION {Due(r, 0 .. k - 1, shadows, starts) : r \in 0 .. k - 1}
  <2>1. \A r \in 0 .. k - 1 : r + 1 \in 1 .. k /\ (r + 1) - 1 = r
    BY <1>1
  <2>2. \A r \in 0 .. k - 1 : Due(r, 0 .. k - 1, shadows, starts) = W[r + 1]
    BY <2>1
  <2>3. \A i \in 1 .. k : W[i] = Due(i - 1, 0 .. k - 1, shadows, starts) /\ i - 1 \in 0 .. k - 1
    BY <1>1
  <2> HIDE DEF W
  <2>4. QED
    BY <2>1, <2>2, <2>3
<1>7. QED
  BY <1>5, <1>6

(* Of the kinds of warnings, what is due.                                  *)
LEMMA DueCases ==
  ASSUME NEW r, NEW users, NEW shadows, NEW starts, NEW due, due = Due(r, users, shadows, starts)
  PROVE  /\ Warning("ShadowsCoreRule", r) \in due <=> r \in shadows
         /\ Warning("UnproductiveRule", r) \in due <=> MinLen(arena.body[r]) = None
         /\ {w.branch : w \in {w \in due : w.kind = "UnproductiveAlternative"}}
              = IF MinLen(arena.body[r]) = None THEN {} ELSE UnproductiveBranches(r)
         /\ Warning("UnreferencedRule", r) \in due <=> r \notin ReferencedByOthers(users)
         /\ Warning("UnreachableRule", r) \in due
              <=> starts # None /\ r \notin ReachableFrom(starts, users)
<1>1. PICK dead : dead = (MinLen(arena.body[r]) = None)
  OBVIOUS
<1>2. PICK B : B = UnproductiveBranches(r)
  OBVIOUS
<1>3. PICK A, C, D :
        /\ A = IF r \in shadows THEN {Warning("ShadowsCoreRule", r)} ELSE {}
        /\ C = IF r \notin ReferencedByOthers(users) THEN {Warning("UnreferencedRule", r)} ELSE {}
        /\ D = IF starts # None /\ r \notin ReachableFrom(starts, users)
               THEN {Warning("UnreachableRule", r)} ELSE {}
  OBVIOUS
<1>4. OnProductivity(r) = IF dead THEN {Warning("UnproductiveRule", r)} ELSE {DeadBranch(r, b) : b \in B}
  BY <1>1, <1>2 DEF OnProductivity
<1>5. due = ((A \cup OnProductivity(r)) \cup C) \cup D
  BY <1>3 DEF Due
<1>6. /\ \A w \in A : w.kind = "ShadowsCoreRule"
      /\ \A w \in OnProductivity(r) : w.kind \in {"UnproductiveRule", "UnproductiveAlternative"}
      /\ \A w \in C : w.kind = "UnreferencedRule"
      /\ \A w \in D : w.kind = "UnreachableRule"
  BY <1>3, <1>4 DEF Warning, DeadBranch
<1>7. \A kind : Warning(kind, r).kind = kind
  BY DEF Warning
<1>8. Warning("ShadowsCoreRule", r) \in due <=> r \in shadows
  BY <1>3, <1>5, <1>6, <1>7
<1>9. Warning("UnproductiveRule", r) \in due <=> dead
  <2>1. Warning("UnproductiveRule", r) \in due <=> Warning("UnproductiveRule", r) \in OnProductivity(r)
    BY <1>5, <1>6, <1>7
  <2>2. \A b : DeadBranch(r, b).kind # "UnproductiveRule"
    BY DEF DeadBranch
  <2>3. QED
    BY <1>4, <1>7, <2>1, <2>2
<1>10. Warning("UnreferencedRule", r) \in due <=> r \notin ReferencedByOthers(users)
  BY <1>3, <1>5, <1>6, <1>7
<1>11. Warning("UnreachableRule", r) \in due <=> starts # None /\ r \notin ReachableFrom(starts, users)
  BY <1>3, <1>5, <1>6, <1>7
<1>12. {w.branch : w \in {w \in due : w.kind = "UnproductiveAlternative"}} = IF dead THEN {} ELSE B
  <2>1. PICK T : T = {w \in due : w.kind = "UnproductiveAlternative"}
    OBVIOUS
  <2>2. T = {w \in OnProductivity(r) : w.kind = "UnproductiveAlternative"}
    BY <1>5, <1>6, <2>1
  <2>3. CASE dead
    <3>1. T = {}
      BY <1>4, <1>7, <2>2, <2>3
    <3>2. QED
      BY <2>1, <2>3, <3>1
  <2>4. CASE ~dead
    <3>1. \A b : DeadBranch(r, b).kind = "UnproductiveAlternative" /\ DeadBranch(r, b).branch = b
      BY DEF DeadBranch
    <3>2. T = {DeadBranch(r, b) : b \in B}
      BY <1>4, <2>2, <2>4, <3>1
    <3>3. {w.branch : w \in T} = B
      BY <3>1, <3>2
    <3>4. QED
      BY <2>1, <2>4, <3>3
  <2>5. QED
    BY <2>3, <2>4
<1>13. QED
  BY <1>1, <1>2, <1>8, <1>9, <1>10, <1>11, <1>12

(* What has no length is what has no derivation.                           *)
LEMMA DeadFacts ==
  ASSUME ArenaShape, OrderInv, Settled, NEW n \in AllNodes
  PROVE  MinLen(n) = None <=> Derivable[n] = 0
<1>1. MinLen(n) = IF Derivable[n] = 0 THEN None ELSE Lowest({Derivable[n] - 1, MaxU64})
  BY ShortestEnd DEF ShortestExact
<1>2. Derivable[n] \in Nat
  <2>1. Derivable = Derivations[Cardinality(AllNodes)] /\ Derivations[Cardinality(AllNodes)] \in Lengths
    BY DerivationFacts, FS_CardinalityType DEF ArenaShape, Numbered
  <2>2. QED
    BY <2>1 DEF Lengths
<1>3. ASSUME Derivable[n] # 0 PROVE MinLen(n) # None
  <2>1. PICK x \in Nat : x = Derivable[n] - 1
    BY <1>2, <1>3
  <2>2. MinLen(n) = Saturated(x) /\ MaxU64 \in Nat
    BY <1>1, <1>3, <2>1, LowestIsSaturated DEF ArenaShape
  <2>3. MinLen(n) \in Nat
    BY <2>2 DEF Saturated
  <2>4. QED
    BY <2>3 DEF ArenaShape, WellFormed
<1>4. QED
  BY <1>1, <1>3

(* What was asked and answered.                                            *)
Answer(k, shadows, asked) ==
  [users    |-> 0 .. k - 1,
   shadows  |-> shadows,
   starts   |-> asked,
   warnings |-> FlattenSeq([i \in 1 .. k |-> WarningsOf(i - 1, 0 .. k - 1, shadows, asked)])]

LintInv ==
  /\ phase \in {"reach", "checked"} => Settled
  /\ linted # None =>
       /\ phase = "checked"
       /\ \E k \in UserCounts : \E shadows, asked :
            (asked = None \/ asked \in SUBSET (0 .. k - 1)) /\ linted = Answer(k, shadows, asked)

(* An answer does not change, since nothing does.                          *)
LEMMA AnswersStay ==
  ASSUME UNCHANGED vars
  PROVE  /\ UserCounts' = UserCounts /\ Settled' = Settled
         /\ \A k, shadows, asked : Answer(k, shadows, asked)' = Answer(k, shadows, asked)
<1>1. arena' = arena /\ cost' = cost /\ finalized' = finalized /\ heap' = heap
  BY DEF vars, knuth
<1>2. AllRules' = AllRules /\ AllNodes' = AllNodes
  BY <1>1, WalksStay
<1>3. \A r : Written(r)' = Written(r)
  BY <1>1 DEF Written, Closure, Children, AllNodes, Parts
<1>4. \A r : Mentioned(r)' = Mentioned(r) /\ RunsInto(r)' = RunsInto(r)
  BY <1>1, <1>2, <1>3, WalksStay DEF Mentioned, RunsInto, Targets, Kind
<1>5. UserCounts' = UserCounts
  BY <1>2, <1>4 DEF UserCounts
<1>6. \A users, starts : /\ ReferencedByOthers(users)' = ReferencedByOthers(users)
                         /\ ReachableFrom(starts, users)' = ReachableFrom(starts, users)
  <2> TAKE users, starts
  <2>1. ReferencedByOthers(users)' = ReferencedByOthers(users)
    BY <1>4 DEF ReferencedByOthers
  <2>2. ReachableFrom(starts, users)' = ReachableFrom(starts, users)
    BY <1>1 DEF ReachableFrom, RunsInto, Targets, Inside, Closure, Children, IsNever, Kind, Parts,
                AllRules, AllNodes
  <2>3. QED
    BY <2>1, <2>2
<1>7. \A n : MinLen(n)' = MinLen(n)
  BY <1>1 DEF MinLen
<1>8. ASSUME NEW r PROVE UnproductiveBranches(r)' = UnproductiveBranches(r)
  <2>1. \A n : Kind(n)' = Kind(n) /\ Parts(n)' = Parts(n)
    BY <1>1 DEF Kind, Parts
  <2>2. \A n : {i \in DOMAIN Parts(n) : MinLen(Parts(n)[i]) = None}'
                = {i \in DOMAIN Parts(n) : MinLen(Parts(n)[i]) = None}
    BY <1>7, <2>1
  <2>3. {n \in Written(r) : Kind(n) = "alt"}' = {n \in Written(r) : Kind(n) = "alt"}
    BY <1>3, <2>1
  <2>4. QED
    BY <2>2, <2>3 DEF UnproductiveBranches
<1>9. \A r : Productivity(r)' = Productivity(r)
  BY <1>1, <1>7, <1>8 DEF Productivity
<1>10. \A r, users, shadows, starts :
         WarningsOf(r, users, shadows, starts)' = WarningsOf(r, users, shadows, starts)
  <2> TAKE r, users, shadows, starts
  <2>1. /\ Productivity(r)' = Productivity(r)
        /\ ReferencedByOthers(users)' = ReferencedByOthers(users)
        /\ ReachableFrom(starts, users)' = ReachableFrom(starts, users)
    BY <1>6, <1>9
  <2>2. QED
    BY <2>1 DEF WarningsOf, When
<1>11. \A k, shadows, asked : Answer(k, shadows, asked)' = Answer(k, shadows, asked)
  <2> TAKE k, shadows, asked
  <2>1. [i \in 1 .. k |-> WarningsOf(i - 1, 0 .. k - 1, shadows, asked)]'
          = [i \in 1 .. k |-> WarningsOf(i - 1, 0 .. k - 1, shadows, asked)]
    BY <1>10
  <2>2. QED
    BY <2>1 DEF Answer
<1>12. QED
  BY <1>1, <1>5, <1>11 DEF Settled

(* A question is answered so.                                              *)
LEMMA LintAnswers ==
  ASSUME LintInv, NEW starts, starts = None \/ starts \in SUBSET AllRules, LintInner(starts)
  PROVE  LintInv'
<1>1. UNCHANGED vars /\ phase = "checked" /\ phase' = phase
  BY DEF LintInner, vars
<1>2. PICK k \in UserCounts, shadows \in {{}, {0}} :
        linted' = Answer(k, shadows, IF starts = None THEN None ELSE starts \cap (0 .. k - 1))
  BY DEF LintInner, Answer
<1>3. PICK asked : asked = IF starts = None THEN None ELSE starts \cap (0 .. k - 1)
  OBVIOUS
<1>4. asked = None \/ asked \in SUBSET (0 .. k - 1)
  BY <1>3
<1>5. k \in UserCounts' /\ linted' = Answer(k, shadows, asked)'
  BY <1>1, <1>2, <1>3, AnswersStay
<1>6. Settled'
  BY <1>1, AnswersStay DEF LintInv
<1>7. QED
  BY <1>1, <1>4, <1>5, <1>6 DEF LintInv

(* Every step keeps what was answered.                                     *)
LEMMA LintStep ==
  ASSUME LintInv, [LintNext]_<<vars, linted>>
  PROVE  LintInv' /\ [Next]_vars
<1>1. CASE Next /\ UNCHANGED linted
  <2>1. phase # "checked"
    BY <1>1 DEF Next, Nullable, LeftRecursion, ShortestMatches, Compatibility
  <2>2. linted' = None
    BY <1>1, <2>1 DEF LintInv
  <2>3. phase' \in {"reach", "checked"} => Settled'
    <3>1. CASE Nullable \/ LeftRecursion
      BY <3>1 DEF Nullable, LeftRecursion, LintInv, Settled, knuth
    <3>2. CASE ShortestMatches
      BY <3>2 DEF ShortestMatches, Settled, knuth
    <3>3. CASE Compatibility
      BY <3>3 DEF Compatibility, LintInv, Settled, knuth
    <3>4. QED
      BY <1>1, <3>1, <3>2, <3>3 DEF Next
  <2>4. QED
    BY <1>1, <2>2, <2>3 DEF LintInv
<1>2. CASE LintPlain
  BY <1>2, LintAnswers DEF LintPlain, LintInner
<1>3. CASE LintFrom
  BY <1>3, LintAnswers DEF LintFrom, LintInner
<1>4. CASE UNCHANGED <<vars, linted>>
  <2>1. UNCHANGED vars /\ linted' = linted /\ phase' = phase
    BY <1>4 DEF vars
  <2>2. QED
    BY <2>1, AnswersStay DEF LintInv
<1>5. QED
  BY <1>1, <1>2, <1>3, <1>4 DEF LintNext

(* What is answered is exactly so.                                         *)
LEMMA LintEnd ==
  ASSUME ArenaShape, OrderInv, LintInv
  PROVE  WarningsExact
<1> SUFFICES ASSUME linted # None PROVE WarningsExact
  BY DEF WarningsExact
<1>1. PICK k \in UserCounts : \E shadows, asked :
        (asked = None \/ asked \in SUBSET (0 .. k - 1)) /\ linted = Answer(k, shadows, asked)
  BY DEF LintInv
<1>2. PICK shadows, asked :
         (asked = None \/ asked \in SUBSET (0 .. k - 1)) /\ linted = Answer(k, shadows, asked)
  BY <1>1
<1>3. PICK users : users = 0 .. k - 1
  OBVIOUS
<1>4. users \in SUBSET AllRules /\ AllRules \subseteq Nat
  BY <1>3, UsersFacts
<1>5. linted.users = users /\ linted.shadows = shadows /\ linted.starts = asked
  BY <1>3, <1>2 DEF Answer
<1> DEFINE due(r) == Due(r, users, shadows, asked)
<1>6. PICK ws : ws = linted.warnings
  OBVIOUS
<1>7. PICK D : D = UNION {due(r) : r \in users}
  OBVIOUS
<1>8. Given(ws, D)
  BY <1>3, <1>6, <1>7, <1>2, GivenAll DEF Answer
<1>9. PICK given : given = ToSet(ws)
  OBVIOUS
<1>10. given = D /\ DOMAIN ws = 1 .. Len(ws)
  <2>1. ws \in Seq(D) /\ Len(ws) \in Nat /\ \A x \in D : \E i \in 1 .. Len(ws) : ws[i] = x
    BY <1>8 DEF Given
  <2>2. DOMAIN ws = 1 .. Len(ws) /\ \A i \in 1 .. Len(ws) : ws[i] \in D
    BY <2>1
  <2>3. QED
    BY <1>9, <2>1, <2>2 DEF ToSet
<1>11. \A i, j \in DOMAIN ws : i < j => Precedes(ws[i], ws[j])
  BY <1>8, <1>10 DEF Given
<1>12. \A r \in users : \A w \in due(r) : w.rule = r
  BY DueFacts
<1>13. \A w \in given : w.rule \in users
  <2> HIDE DEF due
  <2> QED BY <1>7, <1>10, <1>12
<1>14. \A r \in users : due(r) = {w \in given : w.rule = r}
  <2> HIDE DEF due
  <2> QED BY <1>7, <1>10, <1>12
<1>15. ASSUME NEW r \in users
       PROVE  LET warned(kind) == Warning(kind, r) \in given  dead(n) == Derivable[n] = 0
                  owns(s, n) == n \in Closure({arena.body[s]}, Children)
                  met == Closure({arena.body[s] : s \in asked}, Reachable)
                  names(n, s) == Kind(n) = "ref" /\ arena.nodes[n].target = s IN
              /\ warned("ShadowsCoreRule") <=> r \in shadows
              /\ warned("UnproductiveRule") <=> dead(arena.body[r])
              /\ {w.branch : w \in {w \in given : w.rule = r /\ w.kind = "UnproductiveAlternative"}}
                   = IF dead(arena.body[r]) THEN {}
                     ELSE UNION {{i - 1 : i \in {i \in DOMAIN Parts(n) : dead(Parts(n)[i])}} :
                                   n \in {n \in AllNodes : owns(r, n) /\ Kind(n) = "alt"}}
              /\ warned("UnreferencedRule") <=>
                   ~ \E s \in users \ {r}, n \in AllNodes : owns(s, n) /\ names(n, r)
              /\ warned("UnreachableRule") <=>
                   asked # None /\ r \notin asked /\ ~ \E n \in met : names(n, r)
              /\ warned("UnreferencedRule") /\ asked # None /\ r \notin asked
                   => warned("UnreachableRule")
  <2> DEFINE warned(kind) == Warning(kind, r) \in given
  <2>1. PICK dr : dr = due(r)
    OBVIOUS
  <2>2. dr = {w \in given : w.rule = r}
    BY <1>14, <2>1
  <2>3. \A kind : warned(kind) <=> Warning(kind, r) \in dr
    <3>1. \A kind : Warning(kind, r).rule = r
      BY DEF Warning
    <3>2. QED
      BY <2>2, <3>1
  <2>4. r \in AllRules /\ arena.body[r] \in AllNodes
    BY <1>4, StepTypes
  <2>5. \A n \in AllNodes : MinLen(n) = None <=> Derivable[n] = 0
    <3>1. Settled
      BY DEF LintInv
    <3>2. QED
      BY <3>1, DeadFacts
  <2>6. /\ Warning("ShadowsCoreRule", r) \in dr <=> r \in shadows
        /\ Warning("UnproductiveRule", r) \in dr <=> MinLen(arena.body[r]) = None
        /\ {w.branch : w \in {w \in dr : w.kind = "UnproductiveAlternative"}}
             = IF MinLen(arena.body[r]) = None THEN {} ELSE UnproductiveBranches(r)
        /\ Warning("UnreferencedRule", r) \in dr <=> r \notin ReferencedByOthers(users)
        /\ Warning("UnreachableRule", r) \in dr
             <=> asked # None /\ r \notin ReachableFrom(asked, users)
    BY <2>1, DueCases
  <2>7. UnproductiveBranches(r)
          = UNION {{i - 1 : i \in {i \in DOMAIN Parts(n) : Derivable[Parts(n)[i]] = 0}} :
                     n \in {n \in AllNodes : n \in Written(r) /\ Kind(n) = "alt"}}
    <3>1. Written(r) \in SUBSET AllNodes
      BY <2>4, RunsAreMentioned
    <3>2. {n \in Written(r) : Kind(n) = "alt"} = {n \in AllNodes : n \in Written(r) /\ Kind(n) = "alt"}
      BY <3>1
    <3>3. ASSUME NEW n \in AllNodes, NEW i \in DOMAIN Parts(n)
          PROVE  MinLen(Parts(n)[i]) = None <=> Derivable[Parts(n)[i]] = 0
      <4>1. Parts(n) \in Seq(AllNodes)
        BY ShapeFacts
      <4>2. Parts(n)[i] \in AllNodes
        BY <4>1
      <4>3. QED
        BY <2>5, <4>2
    <3>4. \A n \in AllNodes : {i \in DOMAIN Parts(n) : MinLen(Parts(n)[i]) = None}
                                = {i \in DOMAIN Parts(n) : Derivable[Parts(n)[i]] = 0}
      BY <3>3
    <3>5. QED
      BY <3>1, <3>2, <3>4 DEF UnproductiveBranches
  <2>8. {w \in dr : w.kind = "UnproductiveAlternative"}
          = {w \in given : w.rule = r /\ w.kind = "UnproductiveAlternative"}
    BY <2>2
  <2>9. r \notin ReferencedByOthers(users)
          <=> ~ \E s \in users \ {r}, n \in AllNodes : n \in Written(s) /\ Names(n, r)
    <3>1. \A s \in users : Written(s) \in SUBSET AllNodes
      BY <1>4, RunsAreMentioned
    <3>2. r \in ReferencedByOthers(users) <=> \E s \in users \ {r} : r \in Mentioned(s)
      BY DEF ReferencedByOthers
    <3>3. \A s \in users : r \in Mentioned(s) <=> \E n \in AllNodes : n \in Written(s) /\ Names(n, r)
      BY <2>4, <3>1 DEF Mentioned, Targets, Names
    <3>4. QED
      BY <3>2, <3>3
  <2>10. asked # None =>
           (r \in ReachableFrom(asked, users) <=> r \in asked \/ \E n \in MetFrom(asked) : Names(n, r))
    BY <1>3, <1>2, ReachedIsMet
  <2>11. asked # None /\ r \notin asked /\ r \notin ReferencedByOthers(users)
           => r \notin ReachableFrom(asked, users)
    BY <1>3, <1>2, UnmentionedIsUnreached
  <2>12. warned("ShadowsCoreRule") <=> r \in shadows
    BY <2>3, <2>6
  <2>13. warned("UnproductiveRule") <=> Derivable[arena.body[r]] = 0
    BY <2>3, <2>4, <2>5, <2>6
  <2>14. {w.branch : w \in {w \in given : w.rule = r /\ w.kind = "UnproductiveAlternative"}}
           = IF Derivable[arena.body[r]] = 0 THEN {}
             ELSE UNION {{i - 1 : i \in {i \in DOMAIN Parts(n) : Derivable[Parts(n)[i]] = 0}} :
                           n \in {n \in AllNodes : n \in Written(r) /\ Kind(n) = "alt"}}
    BY <2>4, <2>5, <2>6, <2>7, <2>8
  <2>15. warned("UnreferencedRule") <=>
           ~ \E s \in users \ {r}, n \in AllNodes : n \in Written(s) /\ Names(n, r)
    BY <2>3, <2>6, <2>9
  <2>16. warned("UnreachableRule") <=>
           asked # None /\ r \notin asked /\ ~ \E n \in MetFrom(asked) : Names(n, r)
    BY <2>3, <2>6, <2>10
  <2>17. warned("UnreferencedRule") /\ asked # None /\ r \notin asked => warned("UnreachableRule")
    BY <2>3, <2>6, <2>11
  <2>18. QED
    BY <2>12, <2>13, <2>14, <2>15, <2>16, <2>17 DEF Names, MetFrom, Written
<1>16. QED
  BY <1>5, <1>6, <1>9, <1>11, <1>13, <1>15 DEF WarningsExact

(* Of every checked grammar, of any number of rules, and every choice of   *)
(* start rules: a warning is given exactly when what it says is so, each   *)
(* once and in order (lint.rs, lint_inner).                                *)
THEOREM WarnsExactly == LintSpec => []WarningsExact
<1>1. LintInit => Inv /\ OrderInv /\ LintInv
  <2> SUFFICES ASSUME LintInit PROVE Inv /\ OrderInv /\ LintInv
    OBVIOUS
  <2>1. Init /\ linted = None
    BY DEF LintInit
  <2>2. Inv /\ OrderInv
    BY <2>1, InvStart, OrderStart DEF Init
  <2>3. LintInv
    BY <2>1 DEF Init, LintInv
  <2>4. QED
    BY <2>2, <2>3
<1>2. Inv /\ OrderInv /\ LintInv /\ [LintNext]_<<vars, linted>> => (Inv /\ OrderInv /\ LintInv)'
  <2> SUFFICES ASSUME Inv, OrderInv, LintInv, [LintNext]_<<vars, linted>>
               PROVE  Inv' /\ OrderInv' /\ LintInv'
    OBVIOUS
  <2>1. LintInv' /\ [Next]_vars
    BY LintStep
  <2>2. QED
    BY <2>1, InvStep, OrderStep, KnuthSteps DEF Inv
<1>3. Inv /\ OrderInv /\ LintInv => WarningsExact
  BY LintEnd DEF Inv
<1>4. QED
  BY <1>1, <1>2, <1>3, PTL DEF LintSpec
=============================================================================
