-------------------------- MODULE RecognizerProofs --------------------------
(***************************************************************************)
(* What holds of the recognizer for every grammar, every input and every   *)
(* sequence of questions and limits; and that its answers are exactly what *)
(* the grammar means.  By how far a frame got, the second invariant says   *)
(* what it has found: what so many items, or so many rounds of a           *)
(* repetition, can reach.                                                  *)
(*                                                                         *)
(* From outside a recognizer is an oracle, for every grammar without left  *)
(* recursion.  Such a grammar's matches never go backwards, so the calls   *)
(* that are out lead forward, or are foremost where they stand still, and  *)
(* no marker is met: what fails is a limit, and only that.                 *)
(***************************************************************************)
EXTENDS Recognizer, ProofSupport

-----------------------------------------------------------------------------
(* The inductive invariant.                                                *)

(* The frames there can be: their nodes reach no prose, a round of a       *)
(* concatenation is about one of its items, and a repetition that never    *)
(* runs its body has no round, which is why what is in that body may be    *)
(* left out of the gate's graph.                                           *)
GoodFrames ==
  {f \in FrameSet :
     /\ f.node \in Clean
     /\ Kind(f.node) \in {"alt", "concat", "repeat", "optional", "ref"}
     /\ Kind(f.node) = "concat" /\ f.open => f.at \in 1 .. Len(Parts(f.node))
     /\ f.open => ~IsNever(f.node)}

StackShape ==
  /\ frames \in Seq(GoodFrames)
  /\ depth = Len(frames)
  /\ pc = "idle" => frames = << >>
  /\ pc = "run" => frames # << >>
  /\ pc = "enter" => arg \in [node : Nodes, pos : Pos] /\ arg.node \in Clean

Inv == TypeOK /\ StackShape

-----------------------------------------------------------------------------
(* What the assumptions say of a node and of its parts.                    *)
LEMMA NodeFacts ==
  ASSUME NEW n \in Nodes
  PROVE  /\ Kind(n) \in Kinds
         /\ Parts(n) \in Seq(Nodes)
         /\ Kind(n) \in {"repeat", "optional"} => Len(Parts(n)) = 1
         /\ Kind(n) = "ref" => NodeOf[n].target \in Rules /\ Body[NodeOf[n].target] \in Nodes
  BY GrammarAssumption DEF WellFormed, NodeShape, Kind, Parts

(* The callee of a frame that is about to call is a node without prose.    *)
LEMMA CalleeFacts ==
  ASSUME NEW f \in FrameSet, f.node \in Clean,
         Kind(f.node) \in {"alt", "concat"} => f.at \in 1 .. Len(Parts(f.node)),
         ~IsNever(f.node),
         Kind(f.node) \in {"alt", "concat", "repeat", "optional", "ref"}
  PROVE  Callee(f) \in Clean /\ Callee(f) \in Nodes
<1>1. f.node \in Nodes /\ Successors(f.node) \subseteq Clean /\ Clean \subseteq Nodes
  BY RecognizerAssumption DEF Reachable
<1>2. CASE Kind(f.node) \in {"alt", "concat"}
  <2>1. f.at \in DOMAIN Parts(f.node)
    BY <1>1, <1>2, NodeFacts
  <2>2. QED
    BY <1>1, <1>2, <2>1 DEF Callee, Successors
<1>3. CASE Kind(f.node) \in {"repeat", "optional"}
  <2>1. 1 \in DOMAIN Parts(f.node)
    BY <1>1, <1>3, NodeFacts
  <2>2. QED
    BY <1>1, <1>3, <2>1 DEF Callee, Successors
<1>4. CASE Kind(f.node) = "ref"
  BY <1>1, <1>4 DEF Callee, Successors
<1>5. QED
  BY <1>2, <1>3, <1>4

(* A terminal ends inside the input.                                       *)
LEMMA TerminalType ==
  ASSUME NEW n \in Nodes, NEW text \in Inputs, NEW p \in Pos
  PROVE  TerminalEnds(n, text, p) \in SUBSET Pos
<1>1. Len(text) \in Nat /\ Len(text) <= MaxPos /\ MaxPos \in Nat /\ p \in Nat
  BY RecognizerAssumption DEF Pos
<1>2. CASE Kind(n) \in {"char", "num"}
  <2>1. Len(NodeOf[n].value) \in Nat
    BY <1>2, GrammarAssumption DEF WellFormed, NodeShape, Kind
  <2>2. QED
    BY <1>1, <1>2, <2>1 DEF TerminalEnds, MatchCharVal, MatchNumVal, Pos
<1>3. CASE Kind(n) \notin {"char", "num"}
  BY <1>3 DEF TerminalEnds
<1>4. QED
  BY <1>2, <1>3

-----------------------------------------------------------------------------
(* What the pieces of an action do to the stack.                           *)

(* Good frames are frames.                                                 *)
LEMMA GoodStack ==
  ASSUME NEW s \in Seq(GoodFrames)
  PROVE  s \in Seq(FrameSet)
<1>1. \A f \in GoodFrames : f \in FrameSet
  BY DEF GoodFrames
<1>2. QED
  BY <1>1

(* The innermost frame of a stack that is not empty.                       *)
LEMMA TopFacts ==
  ASSUME Inv, frames # << >>
  PROVE  /\ Top \in GoodFrames
         /\ Top \in FrameSet
         /\ Len(frames) \in Nat \ {0}
         /\ Below \in Seq(GoodFrames)
         /\ Len(Below) = Len(frames) - 1
         /\ \A i \in 1 .. Len(Below) : Below[i] = frames[i]
  BY PopStack DEF Inv, StackShape, Top, Below, GoodFrames

(* Replacing the innermost frame by a good one.                            *)
LEMMA SetTopFacts ==
  ASSUME Inv, frames # << >>, NEW f \in GoodFrames
  PROVE  /\ SetTop(f) \in Seq(GoodFrames)
         /\ Len(SetTop(f)) = Len(frames)
         /\ SetTop(f)[Len(frames)] = f
         /\ \A i \in 1 .. Len(frames) - 1 : SetTop(f)[i] = frames[i]
  BY ReplaceStack DEF Inv, StackShape, SetTop

(* A frame that answers leaves a result, an entry and one level less.      *)
LEMMA LeaveFacts ==
  ASSUME Inv, frames # << >>, NEW E \in SUBSET Pos, Leave(E)
  PROVE  /\ frames' \in Seq(GoodFrames)
         /\ depth' = Len(frames') /\ depth' \in Nat
         /\ pc' = "return" /\ ret' \in Results
         /\ memo' \in [Key -> Entries]
<1>1. frames' = Below /\ depth' = depth - 1
  BY DEF Leave
<1>2. frames' \in Seq(GoodFrames) /\ depth' = Len(frames') /\ depth' \in Nat
  BY <1>1, TopFacts DEF Inv, StackShape
<1>3. pc' = "return" /\ ret' \in Results
  BY DEF Leave, Return, Ok, Results
<1>4. memo' \in [Key -> Entries]
  BY DEF Leave, Inv, TypeOK, Done, Entries
<1>5. QED
  BY <1>2, <1>3, <1>4

(* A frame that calls on.                                                  *)
LEMMA DescendFacts ==
  ASSUME Inv, frames # << >>, NEW f \in GoodFrames, Descend(f), ~IsNever(f.node),
         Kind(f.node) \in {"alt", "concat"} => f.at \in 1 .. Len(Parts(f.node))
  PROVE  /\ frames' \in Seq(GoodFrames) /\ Len(frames') = Len(frames)
         /\ pc' = "enter"
         /\ arg' \in [node : Nodes, pos : Pos] /\ arg'.node \in Clean
<1>1. frames' \in Seq(GoodFrames) /\ Len(frames') = Len(frames)
  BY SetTopFacts DEF Descend
<1>2. Callee(f) \in Clean /\ Callee(f) \in Nodes
  BY CalleeFacts DEF GoodFrames
<1>3. pc' = "enter" /\ arg' = [node |-> Callee(f), pos |-> f.start] /\ f.start \in Pos
  BY DEF Descend, Call, GoodFrames, FrameSet
<1>4. QED
  BY <1>1, <1>2, <1>3

(* A new frame is a good one.                                              *)
LEMMA PushFacts ==
  ASSUME Inv, pc = "enter", PushFrame,
         Kind(arg.node) \in {"alt", "concat", "repeat", "optional", "ref"}
  PROVE  /\ frames' \in Seq(GoodFrames) /\ Len(frames') = Len(frames) + 1
         /\ frames'[Len(frames) + 1] = Frame(arg.node, arg.pos)
         /\ \A i \in 1 .. Len(frames) : frames'[i] = frames[i]
         /\ depth' = Len(frames') /\ depth' \in Nat
         /\ frames' # << >> /\ pc' = "run"
<1>1. arg.node \in Nodes /\ arg.pos \in Pos /\ arg.node \in Clean
  BY DEF Inv, StackShape
<1>2. Frame(arg.node, arg.pos) \in GoodFrames
  BY <1>1 DEF Frame, GoodFrames, FrameSet
<1>3. QED
  BY <1>2, PushStack DEF PushFrame, Inv, TypeOK, StackShape

-----------------------------------------------------------------------------
(* Every step keeps the invariant.                                         *)

(* The steps between two questions.                                        *)
LEMMA ClientKeepsInv ==
  ASSUME Inv, Client
  PROVE  Inv'
<1>1. CASE WithOptions
  BY <1>1 DEF WithOptions, Inv, TypeOK, StackShape
<1>2. CASE WithoutMemoization
  BY <1>2 DEF WithoutMemoization, Inv, TypeOK, StackShape
<1>3. ASSUME NEW r \in Rules, NEW s \in Starts, EndPositions(r, s)
      PROVE  Inv'
  <2>1. Body[r] \in Nodes /\ s \in Pos /\ (Gate(r) => Body[r] \in Clean)
    BY GrammarAssumption, RecognizerAssumption DEF WellFormed, Gate
  <2>2. ret' \in Results
    BY <1>3 DEF EndPositions, Err, Results, Errors, Inv, TypeOK
  <2>3. QED
    BY <1>3, <2>1, <2>2 DEF EndPositions, Call, bound, Inv, TypeOK, StackShape
<1>4. QED
  BY <1>1, <1>2, <1>3 DEF Client

(* The steps that enter match_node.                                        *)
LEMMA EnterKeepsInv ==
  ASSUME Inv, RefuseDepth \/ MatchTerminal \/ MatchComposite \/ RefKnown \/ RefUnknown
  PROVE  Inv'
<1>1. CASE RefuseDepth
  BY <1>1 DEF RefuseDepth, Return, Err, Results, Errors, Limits, bound, Inv, TypeOK, StackShape
<1>2. CASE MatchTerminal
  <2>1. TerminalEnds(arg.node, input, arg.pos) \in SUBSET Pos
    BY <1>2, TerminalType DEF MatchTerminal, Enter, Inv, TypeOK, StackShape
  <2>2. QED
    BY <1>2, <2>1 DEF MatchTerminal, Return, Ok, Results, bound, Inv, TypeOK, StackShape
<1>3. CASE MatchComposite
  BY <1>3, PushFacts, GoodStack DEF MatchComposite, Enter, bound, Inv, TypeOK, StackShape
<1>4. CASE RefKnown
  <2>1. RefKey \in Key
    BY <1>4, NodeFacts DEF RefKnown, Enter, RefKey, Key, Inv, StackShape
  <2>2. memo[RefKey].ends \in SUBSET Pos
    BY <2>1 DEF Inv, TypeOK, Entries
  <2>3. ret' \in Results
    BY <1>4, <2>2 DEF RefKnown, Return, Ok, Err, Results, Errors
  <2>4. QED
    BY <1>4, <2>3 DEF RefKnown, Return, bound, Inv, TypeOK, StackShape
<1>5. CASE RefUnknown
  <2>1. memo' \in [Key -> Entries]
    BY <1>5 DEF RefUnknown, InProgress, Entries, Inv, TypeOK
  <2>2. QED
    BY <1>5, <2>1, PushFacts, GoodStack DEF RefUnknown, Enter, bound, Inv, TypeOK, StackShape
<1>6. QED
  BY <1>1, <1>2, <1>3, <1>4, <1>5

(* A step of the walk counted, or the limit reached.                       *)
LEMMA StepFacts ==
  ASSUME Inv, pc = "run", frames # << >>, NEW f \in GoodFrames, Step(f)
  PROVE  /\ frames' \in Seq(GoodFrames) /\ Len(frames') = Len(frames) /\ frames' # << >>
         /\ pc' \in {"run", "return"} /\ ret' \in Results
         /\ steps' \in Nat /\ arg' = arg
<1>1. CASE options.max_steps # None /\ steps + 1 > options.max_steps
  BY <1>1 DEF Step, Return, Err, Results, Errors, Limits, Inv, TypeOK, StackShape
<1>2. CASE ~(options.max_steps # None /\ steps + 1 > options.max_steps)
  <2>1. frames' = SetTop(f) /\ UNCHANGED <<pc, arg, ret>> /\ steps' = steps + 1
    BY <1>2 DEF Step
  <2>2. QED
    BY <2>1, SetTopFacts, TopFacts DEF Inv, TypeOK
<1>3. QED
  BY <1>1, <1>2

(* The steps of the innermost frame that are not about repetition.         *)
LEMMA RunKeepsInv ==
  ASSUME Inv, Advance \/ RunAlt \/ RunConcat \/ RunOptional \/ RunRef
  PROVE  Inv'
<1>1. frames # << >> /\ pc = "run" /\ Top \in GoodFrames /\ Top \in FrameSet
  BY TopFacts DEF Advance, RunAlt, RunConcat, RunOptional, RunRef, Running, Inv, StackShape
<1>2. Parts(Top.node) \in Seq(Nodes)
  BY <1>1, NodeFacts DEF FrameSet
<1>3. CASE Advance
  <2>1. PICK s \in Top.todo : Descend([Top EXCEPT !.start = s, !.todo = @ \ {s}])
    BY <1>3 DEF Advance
  <2> DEFINE f == [Top EXCEPT !.start = s, !.todo = @ \ {s}]
  <2>2. f \in GoodFrames /\ f.node = Top.node /\ f.at = Top.at
    BY <1>1 DEF GoodFrames, FrameSet
  <2>3. Kind(f.node) \in {"alt", "concat"} => f.at \in 1 .. Len(Parts(f.node))
    BY <1>1, <1>3, <2>2 DEF Advance, Running, GoodFrames
  <2>4. frames' \in Seq(GoodFrames) /\ Len(frames') = Len(frames) /\ pc' = "enter"
          /\ arg' \in [node : Nodes, pos : Pos] /\ arg'.node \in Clean
    BY <1>1, <2>1, <2>2, <2>3, <1>3, DescendFacts DEF Advance, GoodFrames
  <2>5. QED
    BY <1>3, <2>4, GoodStack DEF Advance, bound, Inv, TypeOK, StackShape
<1>4. CASE RunAlt
  <2>1. CASE Top.at < Len(Parts(Top.node))
    <3> DEFINE f == [Top EXCEPT !.at = @ + 1]
    <3>1. f \in GoodFrames /\ f.node = Top.node /\ f.at = Top.at + 1
      BY <1>1, <1>4 DEF GoodFrames, FrameSet, RunAlt, Running
    <3>2. f.at \in 1 .. Len(Parts(f.node))
      BY <1>1, <1>2, <2>1, <3>1 DEF FrameSet
    <3>3. Descend(f)
      BY <1>4, <2>1 DEF RunAlt
    <3>4. frames' \in Seq(GoodFrames) /\ Len(frames') = Len(frames) /\ pc' = "enter"
            /\ arg' \in [node : Nodes, pos : Pos] /\ arg'.node \in Clean
      BY <1>1, <3>1, <3>2, <3>3, <1>4, DescendFacts DEF RunAlt, Running, IsNever
    <3>5. QED
      BY <1>4, <2>1, <3>4, GoodStack DEF RunAlt, bound, Inv, TypeOK, StackShape
  <2>2. CASE ~(Top.at < Len(Parts(Top.node)))
    BY <1>1, <1>4, <2>2, LeaveFacts, GoodStack
       DEF RunAlt, bound, FrameSet, Inv, TypeOK, StackShape
  <2>3. QED
    BY <2>1, <2>2
<1>5. CASE RunConcat
  <2>1. CASE Top.at < Len(Parts(Top.node)) /\ Top.reached # {}
    <3> DEFINE f == [Top EXCEPT !.at = @ + 1, !.open = TRUE, !.current = Top.reached,
                                !.todo = Top.reached, !.reached = {}]
    <3>1. f \in GoodFrames
      <4>1. Top.at + 1 \in Nat /\ Top.reached \in SUBSET Pos /\ TRUE \in BOOLEAN
              /\ {} \in SUBSET Pos
        BY <1>1 DEF FrameSet
      <4>2. f \in FrameSet
        BY <1>1, <4>1, Zenon DEF FrameSet
      <4>3. f.node = Top.node /\ f.at = Top.at + 1
        BY <1>1 DEF FrameSet
      <4>4. f.at \in 1 .. Len(Parts(f.node))
        BY <1>1, <1>2, <2>1, <4>3 DEF FrameSet
      <4>5. QED
        BY <1>1, <4>2, <4>3, <4>4, <1>5 DEF RunConcat, Running, IsNever, GoodFrames
    <3>2. frames' = SetTop(f) /\ UNCHANGED <<memo, depth, pc, arg, ret>>
      BY <1>5, <2>1 DEF RunConcat
    <3>3. frames' \in Seq(GoodFrames) /\ Len(frames') = Len(frames) /\ frames' # << >>
      BY <1>1, <3>1, <3>2, SetTopFacts, TopFacts
    <3>4. QED
      BY <1>5, <3>2, <3>3, GoodStack DEF RunConcat, bound, Inv, TypeOK, StackShape
  <2>2. CASE ~(Top.at < Len(Parts(Top.node)) /\ Top.reached # {})
    BY <1>1, <1>5, <2>2, LeaveFacts, GoodStack
       DEF RunConcat, bound, FrameSet, Inv, TypeOK, StackShape
  <2>3. QED
    BY <2>1, <2>2
<1>6. CASE RunOptional
  <2>1. CASE Top.at = 0
    <3> DEFINE f == [Top EXCEPT !.at = 1]
    <3>1. f \in GoodFrames /\ f.node = Top.node /\ Kind(f.node) = "optional"
      BY <1>1, <1>6 DEF GoodFrames, FrameSet, RunOptional, Running
    <3>2. Descend(f)
      BY <1>6, <2>1 DEF RunOptional
    <3>3. frames' \in Seq(GoodFrames) /\ Len(frames') = Len(frames) /\ pc' = "enter"
            /\ arg' \in [node : Nodes, pos : Pos] /\ arg'.node \in Clean
      BY <1>1, <3>1, <3>2, DescendFacts DEF IsNever
    <3>4. QED
      BY <1>6, <2>1, <3>3, GoodStack DEF RunOptional, bound, Inv, TypeOK, StackShape
  <2>2. CASE Top.at # 0
    <3>1. Top.reached \cup {Top.pos} \in SUBSET Pos
      BY <1>1 DEF FrameSet
    <3>2. QED
      BY <1>1, <1>6, <2>2, <3>1, LeaveFacts, GoodStack
         DEF RunOptional, bound, Inv, TypeOK, StackShape
  <2>3. QED
    BY <2>1, <2>2
<1>7. CASE RunRef
  <2>1. CASE Top.open
    <3> DEFINE f == [Top EXCEPT !.at = 1, !.open = FALSE]
    <3>1. f \in GoodFrames /\ f.node = Top.node /\ Kind(f.node) = "ref"
      BY <1>1, <1>7 DEF GoodFrames, FrameSet, RunRef, Running
    <3>2. Descend(f)
      BY <1>7, <2>1 DEF RunRef
    <3>3. frames' \in Seq(GoodFrames) /\ Len(frames') = Len(frames) /\ pc' = "enter"
            /\ arg' \in [node : Nodes, pos : Pos] /\ arg'.node \in Clean
      BY <1>1, <3>1, <3>2, DescendFacts DEF IsNever
    <3>4. QED
      BY <1>7, <2>1, <3>3, GoodStack DEF RunRef, bound, Inv, TypeOK, StackShape
  <2>2. CASE ~Top.open /\ Top.at = 0
    <3> DEFINE f == [Top EXCEPT !.open = TRUE]
    <3>1. f \in GoodFrames
      BY <1>1, <1>7 DEF GoodFrames, FrameSet, RunRef, Running, IsNever
    <3>2. Step(f)
      BY <1>7, <2>2 DEF RunRef
    <3>3. QED
      BY <1>1, <1>7, <2>2, <3>1, <3>2, StepFacts, GoodStack
         DEF RunRef, bound, Inv, TypeOK, StackShape
  <2>3. CASE ~Top.open /\ Top.at # 0
    BY <1>1, <1>7, <2>3, LeaveFacts, GoodStack
       DEF RunRef, bound, FrameSet, Inv, TypeOK, StackShape
  <2>4. QED
    BY <2>1, <2>2, <2>3
<1>8. QED
  BY <1>3, <1>4, <1>5, <1>6, <1>7

(* The rounds of a repetition.                                             *)
LEMMA RepeatKeepsInv ==
  ASSUME Inv, BeginRound \/ EndStage \/ EndExactRound \/ EndMoreRound
  PROVE  Inv'
<1>1. frames # << >> /\ pc = "run" /\ Top \in GoodFrames /\ Top \in FrameSet
        /\ Kind(Top.node) = "repeat"
  BY TopFacts DEF BeginRound, EndStage, EndExactRound, EndMoreRound, Running, Inv, StackShape
<1>2. ASSUME NEW f \in GoodFrames, frames' = SetTop(f)
      PROVE  frames' \in Seq(GoodFrames) /\ Len(frames') = Len(frames) /\ frames' # << >>
  BY <1>1, <1>2, SetTopFacts, TopFacts
<1>3. Beyond(Top) \in GoodFrames
  BY <1>1 DEF Beyond, GoodFrames, FrameSet
<1>4. CASE BeginRound
  <2> DEFINE f == [Top EXCEPT !.open = TRUE, !.todo = Top.current, !.reached = {}]
  <2>1. f \in GoodFrames
    <3>1. f \in FrameSet /\ f.node = Top.node
      BY <1>1 DEF FrameSet
    <3>2. ~IsNever(Top.node)
      <4> DEFINE d == NodeOf[Top.node]
      <4>a. Top.node \in Nodes /\ Top.at \in Nat
        BY <1>1 DEF FrameSet
      <4>b. NodeShape(d) /\ d.kind = "repeat" /\ None \notin Nat
        BY <1>1, <4>a, GrammarAssumption DEF WellFormed, Kind
      <4>c. d.min \in Nat /\ (d.max # None => d.min <= d.max)
        BY <4>b DEF NodeShape
      <4>1. d.min \in Nat /\ Top.at \in Nat /\ (d.max = 0 => d.min = 0)
        BY <4>a, <4>b, <4>c
      <4>2. QED
        BY <1>4, <4>1, GrammarAssumption DEF WellFormed, BeginRound, MoreRounds, Rep, IsNever
    <3>3. QED
      BY <1>1, <3>1, <3>2 DEF GoodFrames
  <2>2. QED
    BY <1>1, <1>4, <2>1, StepFacts, GoodStack DEF BeginRound, bound, Inv, TypeOK, StackShape
<1>5. CASE EndStage
  <2>1. CASE Top.stage = "exact"
    BY <1>1, <1>2, <1>3, <1>5, <2>1, GoodStack
       DEF EndStage, bound, Inv, TypeOK, StackShape
  <2>2. CASE Top.stage # "exact"
    BY <1>1, <1>5, <2>2, LeaveFacts, GoodStack
       DEF EndStage, bound, FrameSet, Inv, TypeOK, StackShape
  <2>3. QED
    BY <2>1, <2>2
<1>6. CASE EndExactRound
  <2>1. CASE Top.reached = {}
    BY <1>1, <1>6, <2>1, LeaveFacts, GoodStack
       DEF EndExactRound, bound, FrameSet, Inv, TypeOK, StackShape
  <2>2. CASE Top.reached # {}
    <3> DEFINE f == [Top EXCEPT !.at = @ + 1, !.open = FALSE, !.current = Top.reached]
    <3>1. f \in GoodFrames
      <4>1. Top.at + 1 \in Nat /\ Top.reached \in SUBSET Pos /\ FALSE \in BOOLEAN
        BY <1>1 DEF FrameSet
      <4>2. f \in FrameSet
        BY <1>1, <4>1, Zenon DEF FrameSet
      <4>3. QED
        BY <1>1, <4>2 DEF GoodFrames, FrameSet
    <3>2. frames' = SetTop(IF Settled(Top) THEN Beyond(Top) ELSE f)
            /\ UNCHANGED <<memo, depth, pc, ret>>
      BY <1>6, <2>2 DEF EndExactRound
    <3>3. frames' \in Seq(GoodFrames) /\ Len(frames') = Len(frames) /\ frames' # << >>
      <4>1. PICK g \in GoodFrames : frames' = SetTop(g)
        BY <1>3, <3>1, <3>2
      <4>2. QED
        BY <1>2, <4>1
    <3>4. QED
      BY <1>6, <3>2, <3>3, GoodStack DEF EndExactRound, bound, Inv, TypeOK, StackShape
  <2>3. QED
    BY <2>1, <2>2
<1>7. CASE EndMoreRound
  <2> DEFINE f == [Top EXCEPT !.at = @ + 1, !.open = FALSE,
                              !.current = Top.reached \ Top.result,
                              !.result = @ \cup Top.reached]
  <2>1. f \in GoodFrames
    <3>1. Top.at + 1 \in Nat /\ Top.reached \ Top.result \in SUBSET Pos
            /\ Top.result \cup Top.reached \in SUBSET Pos /\ FALSE \in BOOLEAN
      BY <1>1 DEF FrameSet
    <3>2. f \in FrameSet
      BY <1>1, <3>1, Zenon DEF FrameSet
    <3>3. f.node = Top.node
      BY <1>1 DEF FrameSet
    <3>4. QED
      BY <1>1, <3>2, <3>3, <1>7 DEF EndMoreRound, GoodFrames
  <2>2. frames' = SetTop(f)
    BY <1>7 DEF EndMoreRound
  <2>3. frames' \in Seq(GoodFrames) /\ Len(frames') = Len(frames) /\ frames' # << >>
    BY <1>2, <2>1, <2>2
  <2>4. QED
    BY <1>7, <2>3, GoodStack DEF EndMoreRound, bound, Inv, TypeOK, StackShape
<1>8. QED
  BY <1>4, <1>5, <1>6, <1>7

(* The steps that hand a result back.                                      *)
LEMMA ReturnKeepsInv ==
  ASSUME Inv, Resume \/ Unwind \/ Answer
  PROVE  Inv'
<1>1. CASE Resume
  <2> DEFINE f == [Top EXCEPT !.reached = @ \cup ret.ends]
  <2>1. frames # << >> /\ Top \in GoodFrames /\ Top \in FrameSet /\ ret.ends \in SUBSET Pos
    BY <1>1, TopFacts DEF Resume, Results, Inv, TypeOK
  <2>2. f \in GoodFrames
    BY <2>1 DEF GoodFrames, FrameSet
  <2>3. frames' \in Seq(GoodFrames) /\ Len(frames') = Len(frames) /\ frames' # << >>
    BY <1>1, <2>1, <2>2, SetTopFacts, TopFacts DEF Resume
  <2>4. QED
    BY <1>1, <2>3, GoodStack DEF Resume, bound, Inv, TypeOK, StackShape
<1>2. CASE Unwind
  <2>1. frames # << >>
    BY <1>2 DEF Unwind
  <2>2. frames' \in Seq(GoodFrames) /\ depth' = Len(frames') /\ depth' \in Nat
    BY <1>2, <2>1, TopFacts DEF Unwind, Inv, StackShape
  <2>3. memo' \in [Key -> Entries]
    BY <1>2 DEF Unwind, Forget, Absent, Entries, Inv, TypeOK
  <2>4. QED
    BY <1>2, <2>2, <2>3, GoodStack DEF Unwind, bound, Inv, TypeOK, StackShape
<1>3. CASE Answer
  BY <1>3 DEF Answer, bound, Inv, TypeOK, StackShape
<1>4. QED
  BY <1>1, <1>2, <1>3

-----------------------------------------------------------------------------
(* The invariant holds from the start and is kept.                         *)
LEMMA InvInit == Init => Inv
<1>1. ASSUME Init PROVE Inv
  <2>1. << >> \in Seq(GoodFrames) /\ << >> \in Seq(FrameSet) /\ Len(<< >>) = 0
    OBVIOUS
  <2>2. ret \in Results /\ memo \in [Key -> Entries]
    BY <1>1 DEF Init, Ok, Results, Absent, Entries
  <2>3. QED
    BY <1>1, <2>1, <2>2 DEF Init, Inv, TypeOK, StackShape
<1>2. QED
  BY <1>1

LEMMA InvStep == Inv /\ [Next]_vars => Inv'
<1> SUFFICES ASSUME Inv, [Next]_vars PROVE Inv'
  OBVIOUS
<1>1. CASE UNCHANGED vars
  BY <1>1 DEF vars, Inv, TypeOK, StackShape
<1>2. CASE Next
  BY <1>2, ClientKeepsInv, EnterKeepsInv, RunKeepsInv, RepeatKeepsInv, ReturnKeepsInv
     DEF Next, Walk
<1>3. QED
  BY <1>1, <1>2

LEMMA InvAlways == Spec => []Inv
  BY InvInit, InvStep, PTL DEF Spec

(* Type correctness: every end reported, remembered or worked on is a      *)
(* position of the input or of a start, through every early return.        *)
THEOREM TypeCorrect == Spec => []TypeOK
  BY InvAlways, PTL DEF Inv

(* No prose value is ever matched: the gate refuses every rule that can    *)
(* reach one, and the walk goes nowhere the gate's graph does not.         *)
THEOREM NoProseMatched == Spec => []ProseNeverMatched
<1>1. Inv => ProseNeverMatched
  BY RecognizerAssumption DEF Inv, StackShape, ProseNeverMatched
<1>2. QED
  BY <1>1, InvAlways, PTL

-----------------------------------------------------------------------------
(* The depth counter.                                                      *)

DepthBound == options.max_depth # None => depth <= options.max_depth

LEMMA DepthBoundStep == Inv /\ DepthBound /\ [Next]_vars => DepthBound'
<1> SUFFICES ASSUME Inv, DepthBound, [Next]_vars PROVE DepthBound'
  OBVIOUS
<1> USE DEF Inv, TypeOK, StackShape, DepthBound
<1>1. CASE UNCHANGED vars
  BY <1>1 DEF vars
<1>2. CASE WithOptions
  <2>1. depth' = 0 /\ options' \in OptionSets
    BY <1>2 DEF WithOptions
  <2>2. options'.max_depth # None => options'.max_depth \in Nat
    BY <2>1, RecognizerAssumption
  <2>3. QED
    BY <2>1, <2>2
<1>3. CASE MatchComposite \/ RefUnknown
  <2>1. options.max_depth # None => options.max_depth \in Nat
    BY RecognizerAssumption
  <2>2. QED
    BY <1>3, <2>1 DEF MatchComposite, RefUnknown, PushFrame, Enter, TooDeep, bound
<1>4. ASSUME options' = options, depth' = depth \/ depth' = depth - 1
      PROVE  DepthBound'
  <2>1. options.max_depth # None => options.max_depth \in Nat
    BY RecognizerAssumption
  <2>2. QED
    BY <1>4, <2>1
<1>5. CASE WithoutMemoization \/ (\E r \in Rules, s \in Starts : EndPositions(r, s))
  BY <1>4, <1>5 DEF WithoutMemoization, EndPositions, bound
<1>6. CASE RefuseDepth \/ MatchTerminal \/ RefKnown \/ Advance \/ Resume \/ Unwind \/ Answer
  BY <1>4, <1>6 DEF RefuseDepth, MatchTerminal, RefKnown, Advance, Resume, Unwind, Answer, bound
<1>7. CASE RunAlt \/ RunConcat \/ RunOptional \/ RunRef
  BY <1>4, <1>7 DEF RunAlt, RunConcat, RunOptional, RunRef, Leave, bound
<1>8. CASE BeginRound \/ EndStage \/ EndExactRound \/ EndMoreRound
  BY <1>4, <1>8 DEF BeginRound, EndStage, EndExactRound, EndMoreRound, Leave, bound
<1>9. QED
  BY <1>1, <1>2, <1>3, <1>5, <1>6, <1>7, <1>8 DEF Next, Client, Walk

(* What max_depth is compared with is the number of activations, and that  *)
(* never passes it, whichever way the activations end.                     *)
THEOREM DepthCounted == Spec => []DepthIsNesting
<1>1. Init => DepthBound
  <2>1. ASSUME Init PROVE DepthBound
    <3>1. options.max_depth # None => options.max_depth \in Nat
      BY <2>1, RecognizerAssumption DEF Init
    <3>2. QED
      BY <2>1, <3>1 DEF Init, DepthBound
  <2>2. QED
    BY <2>1
<1>2. Inv /\ DepthBound => DepthIsNesting
  BY DEF Inv, StackShape, DepthBound, DepthIsNesting
<1>3. QED
  BY <1>1, <1>2, DepthBoundStep, InvAlways, PTL DEF Spec

-----------------------------------------------------------------------------
(* The in-progress markers.                                                *)

(* The `i`-th activation is of a reference that put a marker in the table. *)
Marking(i) == i \in 1 .. Len(frames) /\ memoize /\ Kind(frames[i].node) = "ref"

(* No key is open twice: finding its marker is what stops a second one.    *)
(* This is why taking out the marker of the frame that leaves takes out no *)
(* other frame's.                                                          *)
KeysOpenOnce ==
  \A i, j \in 1 .. Len(frames) :
    Marking(i) /\ Marking(j) /\ KeyOf(frames[i]) = KeyOf(frames[j]) => i = j

MarkersInv ==
  /\ \A k \in Key : memo[k] = InProgress <=>
                      \E i \in 1 .. Len(frames) : Marking(i) /\ KeyOf(frames[i]) = k
  /\ KeysOpenOnce

(* The key of a reference frame is a key.                                  *)
LEMMA MarkingKey ==
  ASSUME Inv, NEW i \in 1 .. Len(frames), Marking(i)
  PROVE  KeyOf(frames[i]) \in Key
<1>1. frames[i].node \in Nodes /\ frames[i].pos \in Pos
  BY DEF Inv, StackShape, GoodFrames, FrameSet
<1>2. QED
  BY <1>1, NodeFacts DEF Marking, KeyOf, Key

LEMMA MarkersMeaning == Inv /\ MarkersInv => MarkersAreOpenCalls
<1> SUFFICES ASSUME Inv, MarkersInv PROVE MarkersAreOpenCalls
  OBVIOUS
<1> DEFINE Open == {KeyOf(frames[i]) : i \in {j \in 1 .. Len(frames) :
                                  memoize /\ Kind(frames[j].node) = "ref"}}
<1>1. \A k \in Key : memo[k] = InProgress <=> k \in Open
  BY DEF MarkersInv, Marking
<1>2. Open \subseteq Key
  BY MarkingKey DEF Marking
<1>3. QED
  BY <1>1, <1>2 DEF MarkersAreOpenCalls

(* The stack may change in what its frames have found, not in where they   *)
(* are, without anything changing about markers.                           *)
LEMMA SameMarkers ==
  ASSUME Inv, MarkersInv, memoize' = memoize, memo' = memo,
         Len(frames') = Len(frames),
         \A i \in 1 .. Len(frames) : /\ frames'[i].node = frames[i].node
                                     /\ frames'[i].pos = frames[i].pos
  PROVE  MarkersInv'
<1>1. Len(frames) \in Nat
  BY DEF Inv, TypeOK
<1>2. \A i \in 1 .. Len(frames) : Marking(i)' <=> Marking(i)
  BY DEF Marking
<1>3. \A i \in 1 .. Len(frames) : KeyOf(frames[i])' = KeyOf(frames[i])
  BY DEF KeyOf
<1>4. KeysOpenOnce'
  BY <1>1, <1>2, <1>3 DEF MarkersInv, KeysOpenOnce
<1>5. \A k \in Key : memo'[k] = InProgress <=>
                       \E i \in 1 .. Len(frames) : Marking(i) /\ KeyOf(frames[i]) = k
  BY DEF MarkersInv
<1>6. QED
  BY <1>1, <1>2, <1>3, <1>4, <1>5 DEF MarkersInv, InProgress

(* A new frame that puts no marker in the table, or one that was not there.*)
LEMMA PushMarkers ==
  ASSUME Inv, MarkersInv, MatchComposite \/ RefUnknown
  PROVE  MarkersInv'
<1>1. pc = "enter" /\ PushFrame /\ memoize' = memoize
        /\ Kind(arg.node) \in {"alt", "concat", "repeat", "optional", "ref"}
        /\ arg.node \in Nodes /\ arg.pos \in Pos
  BY DEF MatchComposite, RefUnknown, Enter, bound, Inv, StackShape
<1>2. PICK n \in Nat : n = Len(frames)
  BY DEF Inv, TypeOK
<1>3. /\ Len(frames') = n + 1
      /\ frames'[n + 1] = Frame(arg.node, arg.pos)
      /\ \A i \in 1 .. n : frames'[i] = frames[i]
  BY <1>1, <1>2, PushFacts DEF Inv, TypeOK
<1>4. \A i \in 1 .. n : /\ Marking(i)' <=> Marking(i)
                        /\ KeyOf(frames[i])' = KeyOf(frames[i])
  BY <1>1, <1>2, <1>3 DEF Marking, KeyOf
<1>5. CASE MatchComposite \/ ~memoize
  <2>1. memo' = memo /\ ~Marking(n + 1)'
    BY <1>1, <1>2, <1>3, <1>5 DEF MatchComposite, RefUnknown, Enter, Marking, Frame
  <2>2. KeysOpenOnce'
    BY <1>2, <1>3, <1>4, <2>1 DEF MarkersInv, KeysOpenOnce
  <2>3. \A k \in Key : memo'[k] = InProgress <=>
                         \E i \in 1 .. Len(frames') : Marking(i)' /\ KeyOf(frames[i])' = k
    BY <1>2, <1>3, <1>4, <2>1 DEF MarkersInv
  <2>4. QED
    BY <2>2, <2>3 DEF MarkersInv, InProgress
<1>6. CASE RefUnknown /\ memoize
  <2>1. RefKey \in Key
    BY <1>1, <1>6, NodeFacts DEF RefUnknown, Enter, RefKey, Key
  <2>2. memo[RefKey] # InProgress /\ memo' = [memo EXCEPT ![RefKey] = InProgress]
    BY <1>6 DEF RefUnknown, Absent, InProgress
  <2>3. frames'[n + 1].node = arg.node /\ frames'[n + 1].pos = arg.pos
    BY <1>3 DEF Frame
  <2>4. KeyOf(frames'[n + 1]) = RefKey /\ Marking(n + 1)'
    BY <1>1, <1>2, <1>3, <1>6, <2>3 DEF RefUnknown, Enter, Marking, KeyOf, RefKey
  <2>5. \A i \in 1 .. n : Marking(i) => KeyOf(frames[i]) # RefKey
    BY <1>2, <2>1, <2>2 DEF MarkersInv
  <2>6. KeysOpenOnce'
    BY <1>2, <1>3, <1>4, <2>4, <2>5 DEF MarkersInv, KeysOpenOnce
  <2>7. \A k \in Key : memo'[k] = InProgress <=> k = RefKey \/ memo[k] = InProgress
    BY <2>1, <2>2 DEF Inv, TypeOK
  <2>8. \A k \in Key : memo'[k] = InProgress <=>
                         \E i \in 1 .. Len(frames') : Marking(i)' /\ KeyOf(frames[i])' = k
    BY <1>2, <1>3, <1>4, <2>4, <2>7 DEF MarkersInv
  <2>9. QED
    BY <2>6, <2>8 DEF MarkersInv, InProgress
<1>7. QED
  BY <1>1, <1>5, <1>6 DEF MatchComposite, RefUnknown

(* A frame that goes takes its own marker with it and no other.            *)
LEMMA PopMarkers ==
  ASSUME Inv, MarkersInv, frames # << >>, frames' = Below, memoize' = memoize,
         NEW entry \in Entries, entry # InProgress,
         memo' = IF Kind(Top.node) = "ref" /\ memoize
                 THEN [memo EXCEPT ![KeyOf(Top)] = entry]
                 ELSE memo
  PROVE  MarkersInv'
<1> DEFINE n == Len(frames)
<1>1. /\ n \in Nat \ {0} /\ Len(frames') = n - 1
      /\ \A i \in 1 .. n - 1 : frames'[i] = frames[i]
      /\ Top = frames[n]
  BY TopFacts DEF Top
<1>2. \A i \in 1 .. n - 1 : /\ Marking(i)' <=> Marking(i)
                            /\ KeyOf(frames[i])' = KeyOf(frames[i])
  BY <1>1 DEF Marking, KeyOf
<1>3. KeysOpenOnce'
  BY <1>1, <1>2 DEF MarkersInv, KeysOpenOnce
<1>4. CASE ~Marking(n)
  <2>1. memo' = memo
    BY <1>1, <1>4 DEF Marking
  <2>2. \A k \in Key : memo'[k] = InProgress <=>
                         \E i \in 1 .. Len(frames') : Marking(i)' /\ KeyOf(frames[i])' = k
    BY <1>1, <1>2, <1>4, <2>1 DEF MarkersInv
  <2>3. QED
    BY <1>3, <2>2 DEF MarkersInv, InProgress
<1>5. CASE Marking(n)
  <2>1. memo' = [memo EXCEPT ![KeyOf(Top)] = entry] /\ KeyOf(Top) \in Key
    BY <1>1, <1>5, MarkingKey DEF Marking
  <2>2. \A k \in Key : memo'[k] = InProgress <=> k # KeyOf(Top) /\ memo[k] = InProgress
    BY <2>1 DEF Inv, TypeOK
  <2>3. \A i \in 1 .. n - 1 : Marking(i) => KeyOf(frames[i]) # KeyOf(Top)
    BY <1>1, <1>5 DEF MarkersInv, KeysOpenOnce
  <2>4. \A k \in Key : memo'[k] = InProgress <=>
                         \E i \in 1 .. Len(frames') : Marking(i)' /\ KeyOf(frames[i])' = k
    BY <1>1, <1>2, <2>2, <2>3 DEF MarkersInv
  <2>5. QED
    BY <1>3, <2>4 DEF MarkersInv, InProgress
<1>6. QED
  BY <1>4, <1>5

(* Where the frames are changes only by a push or a pop.                   *)
LEMMA SetTopStays ==
  ASSUME Inv, frames # << >>, NEW f, f.node = Top.node, f.pos = Top.pos, frames' = SetTop(f)
  PROVE  /\ Len(frames') = Len(frames)
         /\ \A i \in 1 .. Len(frames) : frames'[i].node = frames[i].node
                                          /\ frames'[i].pos = frames[i].pos
<1>1. frames \in Seq(GoodFrames \cup {f})
  BY DEF Inv, StackShape
<1>2. f \in GoodFrames \cup {f}
  OBVIOUS
<1>3. /\ Len(frames') = Len(frames) /\ frames'[Len(frames)] = f
      /\ \A i \in 1 .. Len(frames) - 1 : frames'[i] = frames[i]
  BY <1>1, <1>2, ReplaceStack DEF SetTop
<1>4. Len(frames) \in Nat
  BY DEF Inv, TypeOK
<1>5. QED
  BY <1>3, <1>4 DEF Top

(* What a running frame does: it stays, it changes in place, or it leaves. *)
LEMMA RunMoves ==
  ASSUME Inv, \/ Advance \/ RunAlt \/ RunConcat \/ RunOptional \/ RunRef
              \/ BeginRound \/ EndStage \/ EndExactRound \/ EndMoreRound
  PROVE  /\ frames # << >> /\ memoize' = memoize
         /\ \/ memo' = memo /\ frames' = frames
            \/ memo' = memo /\ \E f : /\ f.node = Top.node /\ f.pos = Top.pos
                                      /\ frames' = SetTop(f)
            \/ \E E \in SUBSET Pos : Leave(E)
<1> DEFINE Moves == \E f : f.node = Top.node /\ f.pos = Top.pos /\ frames' = SetTop(f)
           Leaves == \E E \in SUBSET Pos : Leave(E)
<1>1. frames # << >> /\ Top \in FrameSet
  BY TopFacts DEF Advance, RunAlt, RunConcat, RunOptional, RunRef, BeginRound, EndStage,
                  EndExactRound, EndMoreRound, Running, Inv, StackShape
<1>2. memoize' = memoize
  BY DEF Advance, RunAlt, RunConcat, RunOptional, RunRef, BeginRound, EndStage,
         EndExactRound, EndMoreRound, bound
<1>3. /\ Top.reached \in SUBSET Pos /\ Top.result \in SUBSET Pos
      /\ Top.reached \cup {Top.pos} \in SUBSET Pos /\ {} \in SUBSET Pos
  BY <1>1 DEF FrameSet
<1>4. CASE Advance
  <2>1. memo' = memo /\ Moves
    BY <1>1, <1>4 DEF Advance, Descend, FrameSet
  <2>2. QED
    BY <1>1, <1>2, <2>1
<1>5. CASE RunAlt
  <2>1. (memo' = memo /\ Moves) \/ Leaves
    BY <1>1, <1>3, <1>5 DEF RunAlt, Descend, FrameSet
  <2>2. QED
    BY <1>1, <1>2, <2>1
<1>6. CASE RunConcat
  <2>1. (memo' = memo /\ Moves) \/ Leaves
    BY <1>1, <1>3, <1>6 DEF RunConcat, FrameSet
  <2>2. QED
    BY <1>1, <1>2, <2>1
<1>7. CASE RunOptional
  <2>1. (memo' = memo /\ Moves) \/ Leaves
    BY <1>1, <1>3, <1>7 DEF RunOptional, Descend, FrameSet
  <2>2. QED
    BY <1>1, <1>2, <2>1
<1>8. CASE RunRef
  <2>1. (memo' = memo /\ Moves) \/ (memo' = memo /\ frames' = frames) \/ Leaves
    BY <1>1, <1>3, <1>8 DEF RunRef, Descend, Step, FrameSet
  <2>2. QED
    BY <1>1, <1>2, <2>1
<1>9. CASE BeginRound
  <2>1. (memo' = memo /\ Moves) \/ (memo' = memo /\ frames' = frames)
    BY <1>1, <1>3, <1>9 DEF BeginRound, Step, FrameSet
  <2>2. QED
    BY <1>1, <1>2, <2>1
<1>10. CASE EndStage
  <2>1. (memo' = memo /\ Moves) \/ Leaves
    BY <1>1, <1>3, <1>10 DEF EndStage, Beyond, FrameSet
  <2>2. QED
    BY <1>1, <1>2, <2>1
<1>11. CASE EndExactRound
  <2>1. (memo' = memo /\ Moves) \/ Leaves
    BY <1>1, <1>3, <1>11 DEF EndExactRound, Beyond, FrameSet
  <2>2. QED
    BY <1>1, <1>2, <2>1
<1>12. CASE EndMoreRound
  <2>1. memo' = memo /\ Moves
    BY <1>1, <1>12 DEF EndMoreRound, FrameSet
  <2>2. QED
    BY <1>1, <1>2, <2>1
<1>13. QED
  BY <1>4, <1>5, <1>6, <1>7, <1>8, <1>9, <1>10, <1>11, <1>12

LEMMA MarkersStep == Inv /\ MarkersInv /\ [Next]_vars => MarkersInv'
<1> SUFFICES ASSUME Inv, MarkersInv, [Next]_vars PROVE MarkersInv'
  OBVIOUS
<1>1. ASSUME memoize' = memoize, memo' = memo, frames' = frames PROVE MarkersInv'
  BY <1>1, SameMarkers
<1>2. ASSUME memoize' = memoize, memo' = memo, frames # << >>,
             NEW f, f.node = Top.node, f.pos = Top.pos, frames' = SetTop(f)
      PROVE  MarkersInv'
  BY <1>2, SetTopStays, SameMarkers
<1>3. ASSUME memoize' = memoize, frames # << >>, NEW E \in SUBSET Pos, Leave(E)
      PROVE  MarkersInv'
  <2>1. Done(E) \in Entries /\ Done(E) # InProgress
    BY DEF Done, InProgress, Entries
  <2>2. QED
    BY <1>3, <2>1, PopMarkers DEF Leave
<1>4. CASE UNCHANGED vars
  BY <1>1, <1>4 DEF vars
<1>5. CASE Client
  <2>1. CASE WithoutMemoization
    <3>1. Len(frames) = 0 /\ Len(frames') = 0 /\ memo' = memo
      BY <1>5, <2>1 DEF WithoutMemoization, Inv, StackShape
    <3>2. QED
      BY <3>1 DEF MarkersInv, KeysOpenOnce, Marking, InProgress
  <2>2. QED
    BY <1>1, <1>5, <2>1 DEF Client, WithOptions, EndPositions, bound
<1>6. CASE RefuseDepth \/ MatchTerminal \/ RefKnown \/ Answer
  BY <1>1, <1>6 DEF RefuseDepth, MatchTerminal, RefKnown, Answer, bound
<1>7. CASE MatchComposite \/ RefUnknown
  BY <1>7, PushMarkers
<1>8. CASE Unwind
  <2>1. Absent \in Entries /\ Absent # InProgress
    BY DEF Absent, InProgress, Entries
  <2>2. QED
    BY <1>8, <2>1, PopMarkers DEF Unwind, Forget, bound
<1>9. CASE Resume
  <2> DEFINE f == [Top EXCEPT !.reached = @ \cup ret.ends]
  <2>1. frames # << >> /\ frames' = SetTop(f) /\ memo' = memo /\ memoize' = memoize
    BY <1>9 DEF Resume, bound
  <2>2. f.node = Top.node /\ f.pos = Top.pos
    BY <2>1, TopFacts DEF FrameSet
  <2>3. QED
    BY <1>2, <2>1, <2>2
<1>10. CASE \/ Advance \/ RunAlt \/ RunConcat \/ RunOptional \/ RunRef
            \/ BeginRound \/ EndStage \/ EndExactRound \/ EndMoreRound
  BY <1>1, <1>2, <1>3, <1>10, RunMoves
<1>11. QED
  BY <1>4, <1>5, <1>6, <1>7, <1>8, <1>9, <1>10 DEF Next, Walk

(* The in-progress markers in the table are those of the activations on    *)
(* the stack, through limits, left recursion and a table turned off: none  *)
(* is left over to be read as left recursion by a later question.          *)
THEOREM MarkersExact == Spec => []MarkersAreOpenCalls
<1>1. Init => MarkersInv
  BY DEF Init, MarkersInv, KeysOpenOnce, Marking, Absent, InProgress
<1>2. QED
  BY <1>1, MarkersStep, MarkersMeaning, InvAlways, PTL DEF Spec

(* A frame that goes writes over its marker and nothing else.              *)
LEMMA PopKeeps ==
  ASSUME Inv, MarkersInv, frames # << >>, NEW entry,
         memo' = IF Kind(Top.node) = "ref" /\ memoize
                 THEN [memo EXCEPT ![KeyOf(Top)] = entry]
                 ELSE memo,
         NEW k \in Key, memo[k].tag = "done"
  PROVE  memo'[k] = memo[k]
<1> DEFINE n == Len(frames)
<1>1. n \in 1 .. Len(frames) /\ Top = frames[n]
  BY TopFacts DEF Top
<1>2. CASE ~Marking(n)
  BY <1>1, <1>2 DEF Marking
<1>3. CASE Marking(n)
  <2>1. KeyOf(Top) \in Key /\ memo[KeyOf(Top)] = InProgress
    BY <1>1, <1>3, MarkingKey DEF MarkersInv
  <2>2. k # KeyOf(Top)
    BY <2>1 DEF InProgress
  <2>3. memo' = [memo EXCEPT ![KeyOf(Top)] = entry]
    BY <1>1, <1>3 DEF Marking
  <2>4. QED
    BY <2>2, <2>3 DEF Inv, TypeOK
<1>4. QED
  BY <1>2, <1>3

LEMMA KeepsDone ==
  ASSUME Inv, MarkersInv, [Next]_vars, NEW k \in Key, memo[k].tag = "done"
  PROVE  memo'[k] = memo[k]
<1>1. CASE memo' = memo
  BY <1>1
<1>2. CASE UNCHANGED vars \/ Client
  BY <1>1, <1>2 DEF vars, Client, WithOptions, WithoutMemoization, EndPositions
<1>3. CASE RefuseDepth \/ MatchTerminal \/ MatchComposite \/ RefKnown \/ Resume \/ Answer
  BY <1>1, <1>3 DEF RefuseDepth, MatchTerminal, MatchComposite, RefKnown, Resume, Answer
<1>4. CASE RefUnknown
  <2>1. CASE memoize
    <3>1. memo[RefKey] = Absent /\ memo' = [memo EXCEPT ![RefKey] = InProgress]
      BY <1>4, <2>1 DEF RefUnknown
    <3>2. k # RefKey
      BY <3>1 DEF Absent
    <3>3. QED
      BY <3>1, <3>2 DEF Inv, TypeOK
  <2>2. CASE ~memoize
    BY <1>1, <1>4, <2>2 DEF RefUnknown
  <2>3. QED
    BY <2>1, <2>2
<1>5. CASE \/ Advance \/ RunAlt \/ RunConcat \/ RunOptional \/ RunRef
           \/ BeginRound \/ EndStage \/ EndExactRound \/ EndMoreRound
  <2>1. frames # << >> /\ (memo' = memo \/ \E E \in SUBSET Pos : Leave(E))
    BY <1>5, RunMoves
  <2>2. CASE \E E \in SUBSET Pos : Leave(E)
    <3>1. PICK E \in SUBSET Pos : Leave(E)
      BY <2>2
    <3>2. memo' = IF Kind(Top.node) = "ref" /\ memoize
                  THEN [memo EXCEPT ![KeyOf(Top)] = Done(E)]
                  ELSE memo
      BY <3>1 DEF Leave
    <3>3. QED
      BY <2>1, <3>2, PopKeeps
  <2>3. QED
    BY <1>1, <2>1, <2>2
<1>6. CASE Unwind
  <2>1. frames # << >>
        /\ memo' = IF Kind(Top.node) = "ref" /\ memoize
                   THEN [memo EXCEPT ![KeyOf(Top)] = Absent]
                   ELSE memo
    BY <1>6 DEF Unwind, Forget
  <2>2. QED
    BY <2>1, PopKeeps
<1>7. QED
  BY <1>2, <1>3, <1>4, <1>5, <1>6 DEF Next, Walk

(* What the table has finished is never taken back and never redone: an    *)
(* answer and a failure both write only where there is a marker, and that  *)
(* is the marker of the frame that goes (match_rule_ref).                  *)
THEOREM FinishedIsKept == Spec => MemoKept
<1>1. Init => MarkersInv
  BY DEF Init, MarkersInv, KeysOpenOnce, Marking, Absent, InProgress
<1>2. Inv /\ MarkersInv /\ [Next]_vars
        => [\A k \in Key : memo[k].tag = "done" => memo'[k] = memo[k]]_vars
  BY KeepsDone
<1>3. QED
  BY <1>1, <1>2, MarkersStep, InvAlways, PTL DEF Spec, MemoKept

-----------------------------------------------------------------------------
(* What a number of steps reaches.                                         *)

(* No step leads nowhere.                                                  *)
LEMMA ChainZero ==
  ASSUME NEW F, NEW p \in Pos, NEW q \in Pos
  PROVE  Chain(F, 0, p, q) <=> p = q
<1>1. ASSUME p = q PROVE Chain(F, 0, p, q)
  <2> DEFINE path == [i \in 0 .. 0 |-> p]
  <2>1. path \in [0 .. 0 -> Pos] /\ path[0] = p /\ path[0] = q
    BY <1>1
  <2> HIDE DEF path
  <2>2. QED
    BY <2>1 DEF Chain
<1>2. QED
  BY <1>1 DEF Chain

(* One step more.                                                          *)
LEMMA ChainStep ==
  ASSUME NEW F, NEW k \in Nat, NEW p \in Pos, NEW q \in Pos
  PROVE  Chain(F, k + 1, p, q) <=> \E r \in Pos : Chain(F, k, p, r) /\ q \in F[k + 1][r]
<1>1. ASSUME Chain(F, k + 1, p, q)
      PROVE  \E r \in Pos : Chain(F, k, p, r) /\ q \in F[k + 1][r]
  <2>1. PICK path \in [0 .. k + 1 -> Pos] :
          /\ path[0] = p /\ path[k + 1] = q
          /\ \A i \in 1 .. k + 1 : path[i] \in F[i][path[i - 1]]
    BY <1>1 DEF Chain
  <2> DEFINE short == [i \in 0 .. k |-> path[i]]
  <2>2. /\ short \in [0 .. k -> Pos] /\ short[0] = p /\ short[k] = path[k] /\ path[k] \in Pos
        /\ \A i \in 1 .. k : short[i] \in F[i][short[i - 1]]
    BY <2>1
  <2> HIDE DEF short
  <2>3. Chain(F, k, p, path[k])
    BY <2>2 DEF Chain
  <2>4. q \in F[k + 1][path[k]]
    <3>1. k + 1 \in 1 .. k + 1 /\ (k + 1) - 1 = k
      OBVIOUS
    <3>2. QED
      BY <2>1, <3>1
  <2>5. QED
    BY <2>2, <2>3, <2>4
<1>2. ASSUME NEW r \in Pos, Chain(F, k, p, r), q \in F[k + 1][r]
      PROVE  Chain(F, k + 1, p, q)
  <2>1. PICK path \in [0 .. k -> Pos] :
          /\ path[0] = p /\ path[k] = r
          /\ \A i \in 1 .. k : path[i] \in F[i][path[i - 1]]
    BY <1>2 DEF Chain
  <2> DEFINE long == [i \in 0 .. k + 1 |-> IF i = k + 1 THEN q ELSE path[i]]
  <2>2. long \in [0 .. k + 1 -> Pos] /\ long[0] = p /\ long[k + 1] = q
    BY <2>1
  <2>3. ASSUME NEW i \in 1 .. k + 1 PROVE long[i] \in F[i][long[i - 1]]
    <3>1. CASE i = k + 1
      <4>1. long[i] = q /\ long[i - 1] = r
        BY <2>1, <3>1
      <4>2. QED
        BY <1>2, <3>1, <4>1
    <3>2. CASE i # k + 1
      <4>1. i \in 1 .. k /\ long[i] = path[i] /\ long[i - 1] = path[i - 1]
        BY <3>2
      <4>2. QED
        BY <2>1, <4>1
    <3>3. QED
      BY <3>1, <3>2
  <2> HIDE DEF long
  <2>4. QED
    BY <2>2, <2>3 DEF Chain
<1>3. QED
  BY <1>1, <1>2

LEMMA ReachZero ==
  ASSUME NEW F, NEW p \in Pos
  PROVE  Reach(F, 0, p) = {p}
BY ChainZero DEF Reach

(* What `f` makes of the positions of a set.                               *)
Ends(f, C) == UNION {f[s] : s \in C}

LEMMA ReachStep ==
  ASSUME NEW F, NEW k \in Nat, NEW p \in Pos, F[k + 1] \in [Pos -> SUBSET Pos]
  PROVE  Reach(F, k + 1, p) = Ends(F[k + 1], Reach(F, k, p))
<1>1. \A q \in Pos : q \in Reach(F, k + 1, p) <=>
                       \E r \in Pos : Chain(F, k, p, r) /\ q \in F[k + 1][r]
  BY ChainStep DEF Reach
<1>2. \A q : q \in Ends(F[k + 1], Reach(F, k, p)) <=>
               \E r \in Pos : Chain(F, k, p, r) /\ q \in F[k + 1][r]
  BY DEF Ends, Reach
<1>3. \A q : q \in Reach(F, k + 1, p) => q \in Pos
  BY DEF Reach
<1>4. \A q : q \in Ends(F[k + 1], Reach(F, k, p)) => q \in Pos
  BY <1>2
<1>5. QED
  BY <1>1, <1>2, <1>3, <1>4

(* Where nothing is reached, nothing is reached beyond.                    *)
LEMMA ReachNothing ==
  ASSUME NEW F, NEW k \in Nat, NEW n \in Nat, k <= n, NEW p \in Pos, Reach(F, k, p) = {}
  PROVE  Reach(F, n, p) = {}
<1> SUFFICES ASSUME NEW q \in Reach(F, n, p) PROVE FALSE
  OBVIOUS
<1>1. PICK path \in [0 .. n -> Pos] :
        /\ path[0] = p /\ path[n] = q
        /\ \A i \in 1 .. n : path[i] \in F[i][path[i - 1]]
  BY DEF Reach, Chain
<1> DEFINE short == [i \in 0 .. k |-> path[i]]
<1>2. /\ short \in [0 .. k -> Pos] /\ short[0] = p /\ short[k] = path[k] /\ path[k] \in Pos
      /\ \A i \in 1 .. k : short[i] \in F[i][short[i - 1]]
  BY <1>1
<1> HIDE DEF short
<1>3. QED
  BY <1>2 DEF Reach, Chain

(* The repetitions of one step.                                            *)
LEMMA AgainStep ==
  ASSUME NEW f \in [Pos -> SUBSET Pos], NEW k \in Nat, NEW p \in Pos
  PROVE  Reach(Again(f), k + 1, p) = Ends(f, Reach(Again(f), k, p))
<1>1. Again(f)[k + 1] = f
  BY DEF Again
<1>2. QED
  BY <1>1, ReachStep

(* A round that reaches just what it started from settles all later ones.  *)
LEMMA AgainSettled ==
  ASSUME NEW f \in [Pos -> SUBSET Pos], NEW k \in Nat, NEW n \in Nat, k <= n, NEW p \in Pos,
         Reach(Again(f), k + 1, p) = Reach(Again(f), k, p)
  PROVE  Reach(Again(f), n, p) = Reach(Again(f), k, p)
<1> DEFINE R(m) == Reach(Again(f), m, p)
           Bad == {m \in Nat : k <= m /\ R(m) # R(k)}
<1> SUFFICES ASSUME Bad # {} PROVE FALSE
  OBVIOUS
<1>1. PICK m \in Bad : \A j \in Bad : m <= j
  <2>1. Bad \in SUBSET Nat
    OBVIOUS
  <2> HIDE DEF Bad
  <2>2. QED
    BY <2>1, LeastExists
<1>2. m \in Nat /\ k < m
  OBVIOUS
<1>3. PICK j \in Nat : m = j + 1 /\ k <= j
  <2>1. m - 1 \in Nat /\ m = (m - 1) + 1 /\ k <= m - 1
    BY <1>2
  <2>2. QED
    BY <2>1
<1>4. R(j) = R(k)
  BY <1>1, <1>3
<1>5. R(m) = Ends(f, R(j)) /\ R(k + 1) = Ends(f, R(k))
  BY <1>3, AgainStep
<1>6. QED
  BY <1>4, <1>5

(* What is closed under the step and holds what `k` of them reach holds    *)
(* what more of them reach.                                                *)
LEMMA AgainClosed ==
  ASSUME NEW f \in [Pos -> SUBSET Pos], NEW k \in Nat, NEW n \in Nat, k <= n, NEW p \in Pos,
         NEW E, Reach(Again(f), k, p) \subseteq E, \A s \in E : f[s] \subseteq E
  PROVE  Reach(Again(f), n, p) \subseteq E
<1> DEFINE R(m) == Reach(Again(f), m, p)
           Bad == {m \in Nat : k <= m /\ ~(R(m) \subseteq E)}
<1> SUFFICES ASSUME Bad # {} PROVE FALSE
  OBVIOUS
<1>1. PICK m \in Bad : \A j \in Bad : m <= j
  <2>1. Bad \in SUBSET Nat
    OBVIOUS
  <2> HIDE DEF Bad
  <2>2. QED
    BY <2>1, LeastExists
<1>2. m \in Nat /\ k < m
  OBVIOUS
<1>3. PICK j \in Nat : m = j + 1 /\ k <= j
  <2>1. m - 1 \in Nat /\ m = (m - 1) + 1 /\ k <= m - 1
    BY <1>2
  <2>2. QED
    BY <2>1
<1>4. R(j) \subseteq E
  BY <1>1, <1>3
<1>5. R(m) = Ends(f, R(j))
  BY <1>3, AgainStep
<1>6. QED
  BY <1>4, <1>5 DEF Ends

(* What at least `low` and at most `low + more` steps reach.               *)
Between(f, low, more, p) == UNION {Reach(Again(f), low + k, p) : k \in 0 .. more}

LEMMA BetweenNone ==
  ASSUME NEW f, NEW low \in Nat, NEW p \in Pos
  PROVE  Between(f, low, 0, p) = Reach(Again(f), low, p)
<1>1. 0 .. 0 = {0} /\ low + 0 = low
  OBVIOUS
<1>2. QED
  BY <1>1 DEF Between

LEMMA BetweenStep ==
  ASSUME NEW f \in [Pos -> SUBSET Pos], NEW low \in Nat, NEW more \in Nat, NEW p \in Pos
  PROVE  Between(f, low, more + 1, p) =
           Between(f, low, more, p) \cup Ends(f, Between(f, low, more, p))
<1> DEFINE R(k) == Reach(Again(f), low + k, p)
           B(m) == Between(f, low, m, p)
<1>1. \A k \in Nat : R(k + 1) = Ends(f, R(k))
  <2> TAKE k \in Nat
  <2>1. low + (k + 1) = (low + k) + 1 /\ low + k \in Nat
    OBVIOUS
  <2>2. QED
    BY <2>1, AgainStep
<1>2. \A m \in Nat : \A q : q \in B(m) <=> \E k \in 0 .. m : q \in R(k)
  BY DEF Between
<1>3. more + 1 \in Nat /\ \A k \in 0 .. more + 1 : k \in 0 .. more \/ k = more + 1
  OBVIOUS
<1> HIDE DEF R, B
<1>4. \A q : q \in Ends(f, B(more)) <=> \E k \in 0 .. more : q \in Ends(f, R(k))
  BY <1>2 DEF Ends
<1>5. \A q : q \in B(more + 1) => q \in B(more) \cup Ends(f, B(more))
  <2> SUFFICES ASSUME NEW q \in B(more + 1), q \notin B(more) PROVE q \in Ends(f, B(more))
    OBVIOUS
  <2>1. q \in R(more + 1) /\ more \in 0 .. more
    BY <1>2, <1>3
  <2>2. QED
    BY <1>1, <1>4, <2>1
<1>6. \A q \in B(more) : q \in B(more + 1)
  BY <1>2, <1>3
<1>7. \A q \in Ends(f, B(more)) : q \in B(more + 1)
  <2> TAKE q \in Ends(f, B(more))
  <2>1. PICK k \in 0 .. more : q \in Ends(f, R(k))
    BY <1>4
  <2>2. k + 1 \in 0 .. more + 1 /\ k \in Nat
    OBVIOUS
  <2>3. QED
    BY <1>1, <1>2, <1>3, <2>1, <2>2
<1>8. B(more + 1) = B(more) \cup Ends(f, B(more))
  BY <1>5, <1>6, <1>7
<1>9. QED
  BY <1>8 DEF B

-----------------------------------------------------------------------------
(* The inductive invariant: what each frame has found, by how far it got.  *)
(* `sem` is the meaning on the input, and R what was reached, the ends of  *)
(* the call that is out included.                                          *)

Items(sem, n) == [i \in 1 .. Len(Parts(n)) |-> sem[Parts(n)[i]]]

AltSound(sem, f, R) ==
  /\ f.at \in 0 .. Len(Parts(f.node)) /\ f.start = f.pos
  /\ R = UNION {sem[Parts(f.node)[i]][f.pos] : i \in 1 .. f.at}

ConcatSound(sem, f, R) ==
  /\ f.at \in 0 .. Len(Parts(f.node))
  /\ f.at = 0 => ~f.open /\ R = {f.pos}
  /\ f.at # 0 => /\ f.todo \subseteq f.current
                 /\ f.current = Reach(Items(sem, f.node), f.at - 1, f.pos)
                 /\ R = Ends(Items(sem, f.node)[f.at], f.current \ f.todo)

(* Beyond the minimum the frontier need not be all that the last round     *)
(* reached: from the rest nothing new is to be had.                        *)
ExactSound(b, d, f) ==
  /\ f.at <= d.min /\ (f.open => f.at < d.min)
  /\ f.current = Reach(Again(b), f.at, f.pos)

MoreSound(b, d, f) ==
  /\ d.max # None => f.at <= d.max - d.min /\ (f.open => f.at < d.max - d.min)
  /\ f.result = Between(b, d.min, f.at, f.pos)
  /\ f.current \subseteq f.result
  /\ \A s \in f.result \ f.current : b[s] \subseteq f.result

RepeatSound(sem, f, R) ==
  LET b == sem[Parts(f.node)[1]]  d == NodeOf[f.node] IN
  /\ f.stage = "exact" => ExactSound(b, d, f)
  /\ f.stage = "more" => MoreSound(b, d, f)
  /\ f.open => f.todo \subseteq f.current /\ R = Ends(b, f.current \ f.todo)

OptionalSound(sem, f, R) ==
  /\ f.at \in {0, 1} /\ f.start = f.pos
  /\ R = IF f.at = 0 THEN {} ELSE sem[Parts(f.node)[1]][f.pos]

RefSound(sem, f, R) ==
  /\ f.at \in {0, 1} /\ f.start = f.pos /\ (f.open => f.at = 0)
  /\ R = IF f.at = 0 THEN {} ELSE sem[Body[NodeOf[f.node].target]][f.pos]

Sound(sem, f, R) ==
  /\ Kind(f.node) = "alt" => AltSound(sem, f, R)
  /\ Kind(f.node) = "concat" => ConcatSound(sem, f, R)
  /\ Kind(f.node) = "repeat" => RepeatSound(sem, f, R)
  /\ Kind(f.node) = "optional" => OptionalSound(sem, f, R)
  /\ Kind(f.node) = "ref" => RefSound(sem, f, R)

(* The call that is out.                                                   *)
Due(sem, f) == sem[Callee(f)][f.start]

Got(i) ==
  IF i < Len(frames) \/ pc # "run"
  THEN frames[i].reached \cup Due(Sem[input], frames[i])
  ELSE frames[i].reached

(* What the frame above the i-th was asked.                                *)
Asked(i) ==
  IF i = 0 THEN [node |-> Body[query.rule], pos |-> query.start]
  ELSE [node |-> Callee(frames[i]), pos |-> frames[i].start]

Meant(c) == Sem[input][c.node][c.pos]

Failing == pc = "return" /\ ret.tag = "err"

FramesSound ==
  \A i \in 1 .. Len(frames) :
    /\ Sound(Sem[input], frames[i], Got(i))
    /\ frames[i].node = Asked(i - 1).node /\ frames[i].pos = Asked(i - 1).pos

ExactInv ==
  /\ MemoExact
  /\ ~Failing => FramesSound
  /\ pc = "enter" => arg = Asked(Len(frames))
  /\ (pc = "return" \/ (pc = "idle" /\ query # None)) /\ ret.tag = "ok" =>
       ret.ends = Meant(Asked(Len(frames)))

(* The meaning on each input is one.                                       *)
Meanings == \A text \in Inputs : IsMeaning(Sem[text], text)

-----------------------------------------------------------------------------
(* What the frames of each kind do.                                        *)

(* The meaning is made of sets of positions.                               *)
LEMMA SemType ==
  ASSUME NEW text \in Inputs, NEW n \in Nodes
  PROVE  Sem[text][n] \in [Pos -> SUBSET Pos]
BY RecognizerAssumption

LEMMA SemHere ==
  ASSUME Inv
  PROVE  input \in Inputs /\ \A n \in Nodes : Sem[input][n] \in [Pos -> SUBSET Pos]
BY SemType DEF Inv, TypeOK

(* The innermost frame, when it is its turn.                               *)
LEMMA RunContext ==
  ASSUME Inv, ExactInv, pc = "run"
  PROVE  /\ frames # << >> /\ Top \in FrameSet /\ Top \in GoodFrames
         /\ Len(frames) \in Nat \ {0}
         /\ Sound(Sem[input], Top, Top.reached)
<1>1. frames # << >>
  BY DEF Inv, StackShape
<1>2. Len(frames) \in 1 .. Len(frames) /\ ~(Len(frames) < Len(frames))
  BY <1>1, TopFacts
<1>3. FramesSound /\ Got(Len(frames)) = Top.reached
  BY <1>2 DEF ExactInv, Failing, Got, Top
<1>4. QED
  BY <1>1, <1>2, <1>3, TopFacts DEF FramesSound, Top

(* The innermost frame goes on, or calls.                                  *)
LEMMA InPlace ==
  ASSUME Inv, ExactInv, ~Failing, frames # << >>,
         NEW f, f.node = Top.node, f.pos = Top.pos, frames' = SetTop(f),
         UNCHANGED <<memo, input, query>>,
         \/ pc' = "run" /\ Sound(Sem[input], f, f.reached)
         \/ /\ pc' = "enter" /\ arg' = [node |-> Callee(f), pos |-> f.start]
            /\ Sound(Sem[input], f, f.reached \cup Due(Sem[input], f))
  PROVE  ExactInv'
<1> DEFINE n == Len(frames)
<1>1. n \in Nat \ {0}
  BY TopFacts
<1>2. /\ Len(frames') = n /\ frames'[n] = f
      /\ \A i \in 1 .. n - 1 : frames'[i] = frames[i]
  <2>1. frames \in Seq(GoodFrames \cup {f}) /\ f \in GoodFrames \cup {f}
    BY DEF Inv, StackShape
  <2>2. QED
    BY <2>1, ReplaceStack DEF SetTop
<1>3. FramesSound /\ MemoExact
  BY DEF ExactInv
<1>4. \A i \in 0 .. n - 1 : Asked(i)' = Asked(i)
  BY <1>1, <1>2 DEF Asked
<1>5. ASSUME NEW i \in 1 .. n
      PROVE  /\ Sound(Sem[input], frames[i], Got(i))'
             /\ frames'[i].node = Asked(i - 1)'.node /\ frames'[i].pos = Asked(i - 1)'.pos
  <2>1. i - 1 \in 0 .. n - 1 /\ Asked(i - 1)' = Asked(i - 1)
    BY <1>1, <1>4
  <2>2. CASE i < n
    <3>1. frames'[i] = frames[i] /\ Got(i)' = Got(i)
      BY <1>1, <1>2, <2>2 DEF Got
    <3>2. QED
      BY <1>3, <2>1, <3>1 DEF FramesSound
  <2>3. CASE i = n
    <3>1. frames'[i] = f /\ f.node = Asked(i - 1).node /\ f.pos = Asked(i - 1).pos
      BY <1>1, <1>2, <1>3, <2>3 DEF FramesSound, Top
    <3>2. Got(i)' = IF pc' = "run" THEN f.reached ELSE f.reached \cup Due(Sem[input], f)
      <4>1. frames'[i] = f /\ ~(i < Len(frames')) /\ input' = input
        BY <1>1, <1>2, <2>3
      <4>2. QED
        BY <4>1 DEF Got
    <3>3. QED
      BY <2>1, <3>1, <3>2
  <2>4. QED
    BY <1>1, <2>2, <2>3
<1>6. FramesSound'
  BY <1>2, <1>5 DEF FramesSound
<1>7. MemoExact'
  BY <1>3 DEF MemoExact
<1>8. pc' = "enter" => arg' = Asked(Len(frames))'
  BY <1>1, <1>2 DEF Asked
<1>9. QED
  BY <1>6, <1>7, <1>8 DEF ExactInv

(* It answers with what its node means.                                    *)
LEMMA Answering ==
  ASSUME Inv, ExactInv, Meanings, ~Failing, frames # << >>, Top \in FrameSet,
         NEW E, Leave(E), E = Sem[input][Top.node][Top.pos],
         UNCHANGED <<input, memoize, query>>
  PROVE  ExactInv'
<1> DEFINE n == Len(frames)
<1>1. /\ n \in Nat \ {0} /\ Len(frames') = n - 1
      /\ \A i \in 1 .. n - 1 : frames'[i] = frames[i]
  BY TopFacts DEF Leave
<1>2. pc' = "return" /\ ret' = Ok(E)
  BY DEF Leave, Return
<1>3. FramesSound /\ MemoExact
  BY DEF ExactInv
<1>4. \A i \in 0 .. n - 1 : Asked(i)' = Asked(i)
  BY <1>1 DEF Asked
<1>5. ASSUME NEW i \in 1 .. n - 1
      PROVE  /\ Sound(Sem[input], frames[i], Got(i))'
             /\ frames'[i].node = Asked(i - 1)'.node /\ frames'[i].pos = Asked(i - 1)'.pos
  <2>1. i - 1 \in 0 .. n - 1 /\ Asked(i - 1)' = Asked(i - 1) /\ i \in 1 .. n
    BY <1>1, <1>4
  <2>2. frames'[i] = frames[i] /\ Got(i)' = Got(i)
    BY <1>1, <1>2 DEF Got
  <2>3. QED
    BY <1>3, <2>1, <2>2 DEF FramesSound
<1>6. FramesSound'
  BY <1>1, <1>5 DEF FramesSound
<1>7. MemoExact'
  <2>1. CASE Kind(Top.node) = "ref" /\ memoize
    <3>1. KeyOf(Top) \in Key /\ Top.node \in Nodes /\ Top.pos \in Pos
      BY <2>1, NodeFacts DEF KeyOf, Key, FrameSet
    <3>2. E = Sem[input][Body[KeyOf(Top)[1]]][KeyOf(Top)[2]]
      BY <2>1, <3>1 DEF KeyOf, Meanings, IsMeaning, Inv, TypeOK
    <3>3. memo' = [memo EXCEPT ![KeyOf(Top)] = Done(E)] /\ memo \in [Key -> Entries]
      BY <2>1 DEF Leave, Inv, TypeOK
    <3>4. ASSUME NEW k \in Key, memo'[k].tag = "done"
          PROVE  memo'[k].ends = Sem[input'][Body[k[1]]][k[2]]
      <4>1. CASE k = KeyOf(Top)
        BY <3>1, <3>2, <3>3, <4>1 DEF Done
      <4>2. CASE k # KeyOf(Top)
        BY <1>3, <3>1, <3>3, <3>4, <4>2 DEF MemoExact
      <4>3. QED
        BY <4>1, <4>2
    <3>5. QED
      BY <3>4 DEF MemoExact
  <2>2. CASE ~(Kind(Top.node) = "ref" /\ memoize)
    BY <1>3, <2>2 DEF Leave, MemoExact
  <2>3. QED
    BY <2>1, <2>2
<1>8. E = Meant(Asked(n - 1))
  <2>1. n \in 1 .. n
    BY <1>1
  <2>2. QED
    BY <1>3, <2>1 DEF FramesSound, Meant, Top
<1>9. Meant(Asked(n - 1)) = Meant(Asked(Len(frames)))'
  BY <1>1, <1>4 DEF Meant
<1>10. QED
  BY <1>2, <1>6, <1>7, <1>8, <1>9 DEF ExactInv, Ok

(* A step counted, or the limit met.                                       *)
LEMMA Counting ==
  ASSUME Inv, ExactInv, pc = "run", frames # << >>,
         NEW f, f.node = Top.node, f.pos = Top.pos, Step(f),
         UNCHANGED <<memo, input, query>>, Sound(Sem[input], f, f.reached)
  PROVE  ExactInv'
<1>1. CASE options.max_steps # None /\ steps + 1 > options.max_steps
  <2>1. pc' = "return" /\ ret'.tag = "err"
    BY <1>1 DEF Step, Return, Err
  <2>2. QED
    BY <2>1 DEF ExactInv, Failing, MemoExact
<1>2. CASE ~(options.max_steps # None /\ steps + 1 > options.max_steps)
  BY <1>2, InPlace DEF Step, Failing
<1>3. QED
  BY <1>1, <1>2

-----------------------------------------------------------------------------
(* Each step keeps it.                                                     *)

(* What a meaning says of each kind of node.                               *)
LEMMA MeaningFacts ==
  ASSUME Inv, Meanings, NEW n \in Nodes, NEW p \in Pos
  PROVE  LET sem == Sem[input] IN
         /\ Kind(n) = "alt" => sem[n][p] = AltEnds(sem, n, p)
         /\ Kind(n) = "concat" => sem[n][p] = ConcatEnds(sem, n, p)
         /\ Kind(n) = "repeat" => sem[n][p] = RepeatEnds(sem, n, p)
         /\ Kind(n) = "optional" => sem[n][p] = sem[Parts(n)[1]][p] \cup {p}
         /\ Kind(n) = "ref" => sem[n][p] = sem[Body[NodeOf[n].target]][p]
         /\ Kind(n) \in {"char", "num", "prose"} => sem[n][p] = TerminalEnds(n, input, p)
<1>1. IsMeaning(Sem[input], input)
  BY DEF Meanings, Inv, TypeOK
<1>2. Kind(n) \in Kinds
  BY NodeFacts
<1>3. QED
  BY <1>1, <1>2 DEF IsMeaning, Kinds

LEMMA AltExact ==
  ASSUME Inv, ExactInv, Meanings, RunAlt
  PROVE  ExactInv'
<1>1. /\ pc = "run" /\ frames # << >> /\ Top \in FrameSet /\ Top \in GoodFrames
      /\ Kind(Top.node) = "alt" /\ AltSound(Sem[input], Top, Top.reached)
      /\ UNCHANGED <<input, memoize, query>>
  BY RunContext DEF RunAlt, Running, Sound, bound
<1>2. /\ Top.node \in Nodes /\ Top.pos \in Pos /\ Top.at \in Nat
      /\ Len(Parts(Top.node)) \in Nat
  BY <1>1, NodeFacts DEF FrameSet
<1>3. CASE Top.at < Len(Parts(Top.node))
  <2> DEFINE f == [Top EXCEPT !.at = @ + 1]
  <2>1. /\ f.node = Top.node /\ f.pos = Top.pos /\ f.at = Top.at + 1 /\ f.start = Top.start
        /\ f.reached = Top.reached
    BY <1>1 DEF FrameSet
  <2>2. /\ frames' = SetTop(f) /\ pc' = "enter" /\ memo' = memo
        /\ arg' = [node |-> Callee(f), pos |-> f.start]
    BY <1>3 DEF RunAlt, Descend, Call
  <2> HIDE DEF f
  <2>3. Due(Sem[input], f) = Sem[input][Parts(f.node)[f.at]][f.pos]
    BY <1>1, <2>1 DEF Due, Callee, AltSound
  <2>4. 1 .. f.at = (1 .. Top.at) \cup {f.at}
    BY <1>2, <2>1
  <2>5. AltSound(Sem[input], f, f.reached \cup Due(Sem[input], f))
    BY <1>1, <1>2, <1>3, <2>1, <2>3, <2>4 DEF AltSound
  <2>6. Sound(Sem[input], f, f.reached \cup Due(Sem[input], f))
    BY <1>1, <2>1, <2>5 DEF Sound
  <2>7. QED
    BY <1>1, <2>1, <2>2, <2>6, InPlace DEF Failing
<1>4. CASE ~(Top.at < Len(Parts(Top.node)))
  <2>1. Top.at = Len(Parts(Top.node))
    BY <1>1, <1>2, <1>4 DEF AltSound
  <2>2. Top.reached = Sem[input][Top.node][Top.pos]
    BY <1>1, <1>2, <2>1, MeaningFacts DEF AltSound, AltEnds
  <2>3. QED
    BY <1>1, <1>4, <2>2, Answering DEF RunAlt, Failing
<1>5. QED
  BY <1>3, <1>4

LEMMA OptionalExact ==
  ASSUME Inv, ExactInv, Meanings, RunOptional
  PROVE  ExactInv'
<1>1. /\ pc = "run" /\ frames # << >> /\ Top \in FrameSet /\ Top \in GoodFrames
      /\ Kind(Top.node) = "optional" /\ OptionalSound(Sem[input], Top, Top.reached)
      /\ UNCHANGED <<input, memoize, query>>
  BY RunContext DEF RunOptional, Running, Sound, bound
<1>2. Top.node \in Nodes /\ Top.pos \in Pos
  BY <1>1 DEF FrameSet
<1>3. CASE Top.at = 0
  <2> DEFINE f == [Top EXCEPT !.at = 1]
  <2>1. /\ f.node = Top.node /\ f.pos = Top.pos /\ f.at = 1 /\ f.start = Top.start
        /\ f.reached = Top.reached
    BY <1>1 DEF FrameSet
  <2>2. /\ frames' = SetTop(f) /\ pc' = "enter" /\ memo' = memo
        /\ arg' = [node |-> Callee(f), pos |-> f.start]
    BY <1>3 DEF RunOptional, Descend, Call
  <2> HIDE DEF f
  <2>3. Due(Sem[input], f) = Sem[input][Parts(f.node)[1]][f.pos]
    BY <1>1, <2>1 DEF Due, Callee, OptionalSound
  <2>4. OptionalSound(Sem[input], f, f.reached \cup Due(Sem[input], f))
    BY <1>1, <1>3, <2>1, <2>3 DEF OptionalSound
  <2>5. Sound(Sem[input], f, f.reached \cup Due(Sem[input], f))
    BY <1>1, <2>1, <2>4 DEF Sound
  <2>6. QED
    BY <1>1, <2>1, <2>2, <2>5, InPlace DEF Failing
<1>4. CASE Top.at # 0
  <2>1. Top.reached \cup {Top.pos} = Sem[input][Top.node][Top.pos]
    BY <1>1, <1>2, <1>4, MeaningFacts DEF OptionalSound
  <2>2. QED
    BY <1>1, <1>4, <2>1, Answering DEF RunOptional, Failing
<1>5. QED
  BY <1>3, <1>4

LEMMA RefExact ==
  ASSUME Inv, ExactInv, Meanings, RunRef
  PROVE  ExactInv'
<1>1. /\ pc = "run" /\ frames # << >> /\ Top \in FrameSet /\ Top \in GoodFrames
      /\ Kind(Top.node) = "ref" /\ RefSound(Sem[input], Top, Top.reached)
      /\ UNCHANGED <<input, memoize, query>>
  BY RunContext DEF RunRef, Running, Sound, bound
<1>2. Top.node \in Nodes /\ Top.pos \in Pos /\ Top.open \in BOOLEAN
  BY <1>1 DEF FrameSet
<1>3. CASE Top.open
  <2> DEFINE f == [Top EXCEPT !.at = 1, !.open = FALSE]
  <2>1. /\ f.node = Top.node /\ f.pos = Top.pos /\ f.at = 1 /\ f.start = Top.start
        /\ f.reached = Top.reached /\ ~f.open
    BY <1>1 DEF FrameSet
  <2>2. /\ frames' = SetTop(f) /\ pc' = "enter" /\ memo' = memo
        /\ arg' = [node |-> Callee(f), pos |-> f.start]
    BY <1>3 DEF RunRef, Descend, Call
  <2> HIDE DEF f
  <2>3. Due(Sem[input], f) = Sem[input][Body[NodeOf[f.node].target]][f.pos]
    BY <1>1, <2>1 DEF Due, Callee, RefSound
  <2>4. RefSound(Sem[input], f, f.reached \cup Due(Sem[input], f))
    <3>1. Top.at = 0 /\ Top.start = Top.pos /\ Top.reached = {}
      BY <1>1, <1>2, <1>3 DEF RefSound
    <3>2. f.at = 1 /\ f.start = f.pos /\ f.reached = {} /\ ~f.open
      BY <2>1, <3>1
    <3>3. f.reached \cup Due(Sem[input], f) = Sem[input][Body[NodeOf[f.node].target]][f.pos]
      BY <2>3, <3>2
    <3>4. QED
      BY <3>2, <3>3 DEF RefSound
  <2>5. Sound(Sem[input], f, f.reached \cup Due(Sem[input], f))
    BY <1>1, <2>1, <2>4 DEF Sound
  <2>6. QED
    BY <1>1, <2>1, <2>2, <2>5, InPlace DEF Failing
<1>4. CASE ~Top.open /\ Top.at = 0
  <2> DEFINE f == [Top EXCEPT !.open = TRUE]
  <2>1. /\ f.node = Top.node /\ f.pos = Top.pos /\ f.at = 0 /\ f.start = Top.start
        /\ f.reached = Top.reached
    BY <1>1, <1>4 DEF FrameSet
  <2>2. Step(f) /\ memo' = memo
    BY <1>4 DEF RunRef
  <2> HIDE DEF f
  <2>3. Sound(Sem[input], f, f.reached)
    BY <1>1, <1>4, <2>1 DEF RefSound, Sound
  <2>4. QED
    BY <1>1, <2>1, <2>2, <2>3, Counting
<1>5. CASE ~Top.open /\ Top.at # 0
  <2>1. Top.reached = Sem[input][Top.node][Top.pos]
    BY <1>1, <1>2, <1>5, MeaningFacts DEF RefSound
  <2>2. QED
    BY <1>1, <1>5, <2>1, Answering DEF RunRef, Failing
<1>6. QED
  BY <1>2, <1>3, <1>4, <1>5

(* The items of a concatenation are steps.                                 *)
LEMMA ItemsFacts ==
  ASSUME Inv, NEW n \in Nodes, NEW i \in 1 .. Len(Parts(n))
  PROVE  Items(Sem[input], n)[i] = Sem[input][Parts(n)[i]]
         /\ Items(Sem[input], n)[i] \in [Pos -> SUBSET Pos]
<1>1. Parts(n)[i] \in Nodes
  BY NodeFacts
<1>2. QED
  BY <1>1, SemHere DEF Items

(* Once a round is over its item has been taken from everywhere.           *)
LEMMA ItemTaken ==
  ASSUME Inv, NEW f \in FrameSet, NEW R, ConcatSound(Sem[input], f, R), f.todo = {}
  PROVE  R = Reach(Items(Sem[input], f.node), f.at, f.pos)
<1>1. f.node \in Nodes /\ f.pos \in Pos /\ Len(Parts(f.node)) \in Nat
  BY NodeFacts DEF FrameSet
<1>2. CASE f.at = 0
  BY <1>1, <1>2, ReachZero DEF ConcatSound
<1>3. CASE f.at # 0
  <2>1. f.at \in 1 .. Len(Parts(f.node)) /\ f.at - 1 \in Nat /\ (f.at - 1) + 1 = f.at
    BY <1>1, <1>3 DEF ConcatSound
  <2>2. Items(Sem[input], f.node)[f.at] \in [Pos -> SUBSET Pos]
    BY <1>1, <2>1, ItemsFacts
  <2>3. Reach(Items(Sem[input], f.node), f.at, f.pos) =
          Ends(Items(Sem[input], f.node)[f.at], Reach(Items(Sem[input], f.node), f.at - 1, f.pos))
    BY <1>1, <2>1, <2>2, ReachStep
  <2>4. f.current \ f.todo = f.current
    OBVIOUS
  <2>5. QED
    BY <1>3, <2>3, <2>4 DEF ConcatSound
<1>4. QED
  BY <1>2, <1>3

LEMMA ConcatExact ==
  ASSUME Inv, ExactInv, Meanings, RunConcat
  PROVE  ExactInv'
<1>1. /\ pc = "run" /\ frames # << >> /\ Top \in FrameSet /\ Top \in GoodFrames
      /\ Kind(Top.node) = "concat" /\ ConcatSound(Sem[input], Top, Top.reached)
      /\ UNCHANGED <<input, memoize, query>> /\ Top.todo = {}
  BY RunContext DEF RunConcat, Running, Sound, bound
<1>2. /\ Top.node \in Nodes /\ Top.pos \in Pos /\ Top.at \in Nat
      /\ Len(Parts(Top.node)) \in Nat /\ Top.at <= Len(Parts(Top.node))
  BY <1>1, NodeFacts DEF FrameSet, ConcatSound
<1>3. Top.reached = Reach(Items(Sem[input], Top.node), Top.at, Top.pos)
  BY <1>1, ItemTaken
<1>4. CASE Top.at < Len(Parts(Top.node)) /\ Top.reached # {}
  <2> DEFINE f == [Top EXCEPT !.at = @ + 1, !.open = TRUE, !.current = Top.reached,
                              !.todo = Top.reached, !.reached = {}]
  <2>1. /\ f.node = Top.node /\ f.pos = Top.pos /\ f.at = Top.at + 1
        /\ f.current = Top.reached /\ f.todo = Top.reached /\ f.reached = {}
    BY <1>1 DEF FrameSet
  <2>2. frames' = SetTop(f) /\ UNCHANGED <<memo, pc>>
    BY <1>4 DEF RunConcat
  <2> HIDE DEF f
  <2>3. f.at - 1 = Top.at /\ f.at \in 0 .. Len(Parts(f.node)) /\ f.at # 0
    BY <1>2, <1>4, <2>1
  <2>4. Ends(Items(Sem[input], f.node)[f.at], f.current \ f.todo) = {}
    BY <2>1 DEF Ends
  <2>5. ConcatSound(Sem[input], f, f.reached)
    BY <1>3, <2>1, <2>3, <2>4 DEF ConcatSound
  <2>6. Sound(Sem[input], f, f.reached)
    BY <1>1, <2>1, <2>5 DEF Sound
  <2>7. QED
    BY <1>1, <2>1, <2>2, <2>6, InPlace DEF Failing
<1>5. CASE ~(Top.at < Len(Parts(Top.node)) /\ Top.reached # {})
  <2>1. Reach(Items(Sem[input], Top.node), Len(Parts(Top.node)), Top.pos) = Top.reached
    <3>1. CASE Top.at = Len(Parts(Top.node))
      BY <1>3, <3>1
    <3>2. CASE Top.reached = {}
      <4>1. Reach(Items(Sem[input], Top.node), Top.at, Top.pos) = {}
        BY <1>3, <3>2
      <4>2. Reach(Items(Sem[input], Top.node), Len(Parts(Top.node)), Top.pos) = {}
        BY <1>2, <4>1, ReachNothing
      <4>3. QED
        BY <3>2, <4>2
    <3>3. QED
      BY <1>2, <1>5, <3>1, <3>2
  <2>2. Top.reached = Sem[input][Top.node][Top.pos]
    BY <1>1, <1>2, <2>1, MeaningFacts DEF ConcatEnds, Items
  <2>3. QED
    BY <1>1, <1>5, <2>2, Answering DEF RunConcat, Failing
<1>6. QED
  BY <1>4, <1>5

(* At the start and at the end of a round.                                 *)
LEMMA EndsAll ==
  ASSUME NEW f, NEW C
  PROVE  Ends(f, C \ C) = {} /\ Ends(f, C \ {}) = Ends(f, C)
BY DEF Ends

(* The body of a repetition is a step.                                     *)
LEMMA RepeatFacts ==
  ASSUME Inv, NEW n \in Nodes, Kind(n) = "repeat"
  PROVE  /\ Parts(n)[1] \in Nodes
         /\ Sem[input][Parts(n)[1]] \in [Pos -> SUBSET Pos]
         /\ NodeOf[n].min \in Nat
         /\ NodeOf[n].max # None => NodeOf[n].max \in Nat /\ NodeOf[n].min <= NodeOf[n].max
<1>1. Parts(n)[1] \in Nodes
  BY NodeFacts
<1>2. QED
  BY <1>1, SemHere, GrammarAssumption DEF WellFormed, NodeShape, Kind

LEMMA AdvanceExact ==
  ASSUME Inv, ExactInv, Advance
  PROVE  ExactInv'
<1>1. /\ pc = "run" /\ frames # << >> /\ Top \in FrameSet /\ Top \in GoodFrames
      /\ Kind(Top.node) \in {"concat", "repeat"} /\ Sound(Sem[input], Top, Top.reached)
      /\ UNCHANGED <<input, memoize, query>> /\ Top.open /\ memo' = memo
  BY RunContext DEF Advance, Running, bound
<1>2. PICK s \in Top.todo : Descend([Top EXCEPT !.start = s, !.todo = @ \ {s}])
  BY DEF Advance
<1> DEFINE f == [Top EXCEPT !.start = s, !.todo = @ \ {s}]
<1>3. /\ f.node = Top.node /\ f.pos = Top.pos /\ f.at = Top.at /\ f.stage = Top.stage
      /\ f.open = Top.open /\ f.current = Top.current /\ f.todo = Top.todo \ {s}
      /\ f.start = s /\ f.reached = Top.reached /\ f.result = Top.result
  BY <1>1 DEF FrameSet
<1>4. /\ frames' = SetTop(f) /\ pc' = "enter"
      /\ arg' = [node |-> Callee(f), pos |-> f.start]
  BY <1>2 DEF Descend, Call
<1> HIDE DEF f
<1>5. CASE Kind(Top.node) = "concat"
  <2>1. ConcatSound(Sem[input], Top, Top.reached)
    BY <1>1, <1>5 DEF Sound
  <2>2. Top.at \in 0 .. Len(Parts(Top.node)) /\ Top.at # 0
    BY <1>1, <2>1 DEF ConcatSound
  <2>3. Len(Parts(Top.node)) \in Nat /\ Top.at \in 1 .. Len(Parts(Top.node))
    BY <1>1, <2>2, NodeFacts DEF FrameSet
  <2> DEFINE step == Items(Sem[input], Top.node)[Top.at]
  <2>4. step[s] = Due(Sem[input], f)
    BY <1>3, <1>5, <2>3 DEF Due, Callee, Items
  <2>5. Top.todo \subseteq Top.current /\ Top.reached = Ends(step, Top.current \ Top.todo)
        /\ Top.current = Reach(Items(Sem[input], Top.node), Top.at - 1, Top.pos)
    BY <2>1, <2>2 DEF ConcatSound
  <2> HIDE DEF step
  <2>6. Ends(step, f.current \ f.todo) = f.reached \cup Due(Sem[input], f)
    <3>1. Top.current \ (Top.todo \ {s}) = (Top.current \ Top.todo) \cup {s}
      BY <2>5
    <3>2. Ends(step, f.current \ f.todo) = Ends(step, Top.current \ Top.todo) \cup step[s]
      BY <1>3, <3>1 DEF Ends
    <3>3. QED
      BY <1>3, <2>4, <2>5, <3>2
  <2>7. ConcatSound(Sem[input], f, f.reached \cup Due(Sem[input], f))
    BY <1>3, <2>2, <2>5, <2>6 DEF ConcatSound, step
  <2>8. Sound(Sem[input], f, f.reached \cup Due(Sem[input], f))
    BY <1>3, <1>5, <2>7 DEF Sound
  <2>9. QED
    BY <1>1, <1>3, <1>4, <2>8, InPlace DEF Failing
<1>6. CASE Kind(Top.node) = "repeat"
  <2> DEFINE step == Sem[input][Parts(Top.node)[1]]
             d == NodeOf[Top.node]
  <2>1. /\ Top.stage = "exact" => ExactSound(step, d, Top)
        /\ Top.stage = "more" => MoreSound(step, d, Top)
        /\ Top.todo \subseteq Top.current /\ Top.reached = Ends(step, Top.current \ Top.todo)
    BY <1>1, <1>6 DEF Sound, RepeatSound
  <2>2. step[s] = Due(Sem[input], f)
    BY <1>3, <1>6 DEF Due, Callee
  <2> HIDE DEF step
  <2>3. f.todo \subseteq f.current
        /\ Ends(step, f.current \ f.todo) = f.reached \cup Due(Sem[input], f)
    <3>1. Top.current \ (Top.todo \ {s}) = (Top.current \ Top.todo) \cup {s}
      BY <2>1
    <3>2. Ends(step, f.current \ f.todo) = Ends(step, Top.current \ Top.todo) \cup step[s]
      BY <1>3, <3>1 DEF Ends
    <3>3. QED
      BY <1>3, <2>1, <2>2, <3>2
  <2>4. /\ f.stage = "exact" => ExactSound(step, d, f)
        /\ f.stage = "more" => MoreSound(step, d, f)
    BY <1>3, <2>1 DEF ExactSound, MoreSound
  <2>5. RepeatSound(Sem[input], f, f.reached \cup Due(Sem[input], f))
    BY <1>3, <2>3, <2>4 DEF RepeatSound, step
  <2>6. Sound(Sem[input], f, f.reached \cup Due(Sem[input], f))
    BY <1>3, <1>6, <2>5 DEF Sound
  <2>7. QED
    BY <1>1, <1>3, <1>4, <2>6, InPlace DEF Failing
<1>7. QED
  BY <1>1, <1>5, <1>6

-----------------------------------------------------------------------------
(* Repetitions: what the two phases come to.                               *)

LEMMA RepeatReach ==
  ASSUME NEW sem, NEW n, NEW p \in Pos, NEW q
  PROVE  q \in RepeatEnds(sem, n, p) <=>
           \E k \in Nat : Permitted(NodeOf[n], k) /\ q \in Reach(Again(sem[Parts(n)[1]]), k, p)
BY DEF RepeatEnds, Reach

(* All permitted numbers of rounds are covered, or more of them would find *)
(* nothing new.                                                            *)
LEMMA MoreIsAll ==
  ASSUME Inv, NEW n \in Nodes, Kind(n) = "repeat", NEW p \in Pos, NEW more \in Nat, NEW E,
         NodeOf[n].max # None => more <= NodeOf[n].max - NodeOf[n].min,
         E = Between(Sem[input][Parts(n)[1]], NodeOf[n].min, more, p),
         \/ NodeOf[n].max # None /\ more = NodeOf[n].max - NodeOf[n].min
         \/ \A s \in E : Sem[input][Parts(n)[1]][s] \subseteq E
  PROVE  RepeatEnds(Sem[input], n, p) = E
<1> DEFINE b == Sem[input][Parts(n)[1]]
           d == NodeOf[n]
<1>1. /\ b \in [Pos -> SUBSET Pos] /\ d.min \in Nat
      /\ d.max # None => d.max \in Nat /\ d.min <= d.max
  BY RepeatFacts
<1>2. \A q : q \in RepeatEnds(Sem[input], n, p) <=>
               \E k \in Nat : Permitted(d, k) /\ q \in Reach(Again(b), k, p)
  BY RepeatReach
<1>3. /\ d.max # None => more <= d.max - d.min
      /\ E = Between(b, d.min, more, p)
      /\ \/ d.max # None /\ more = d.max - d.min
         \/ \A s \in E : b[s] \subseteq E
  OBVIOUS
<1> HIDE DEF b, d
<1>4. \A q : q \in E <=> \E j \in 0 .. more : q \in Reach(Again(b), d.min + j, p)
  BY <1>3 DEF Between
<1>5. ASSUME NEW q, NEW k \in Nat, Permitted(d, k), q \in Reach(Again(b), k, p)
      PROVE  q \in E
  <2>1. d.min <= k /\ (d.max # None => k <= d.max)
    BY <1>5 DEF Permitted
  <2>2. CASE k - d.min <= more
    <3>1. k - d.min \in 0 .. more /\ d.min + (k - d.min) = k
      BY <1>1, <2>1, <2>2
    <3>2. QED
      BY <1>4, <1>5, <3>1
  <2>3. CASE ~(k - d.min <= more)
    <3>1. ~(d.max # None /\ more = d.max - d.min)
      BY <1>1, <2>1, <2>3
    <3>2. \A s \in E : b[s] \subseteq E
      BY <1>3, <3>1
    <3>3. 0 \in 0 .. more /\ d.min + 0 = d.min
      BY <1>1
    <3>4. Reach(Again(b), d.min, p) \subseteq E
      BY <1>4, <3>3
    <3>5. Reach(Again(b), k, p) \subseteq E
      BY <1>1, <2>1, <3>2, <3>4, AgainClosed
    <3>6. QED
      BY <1>5, <3>5
  <2>4. QED
    BY <2>2, <2>3
<1>6. ASSUME NEW q \in E
      PROVE  \E k \in Nat : Permitted(d, k) /\ q \in Reach(Again(b), k, p)
  <2>1. PICK j \in 0 .. more : q \in Reach(Again(b), d.min + j, p)
    BY <1>4
  <2>2. d.min + j \in Nat /\ Permitted(d, d.min + j)
    BY <1>1, <1>3 DEF Permitted
  <2>3. QED
    BY <2>1, <2>2
<1>7. QED
  BY <1>2, <1>5, <1>6

(* Nothing reached within the minimum is no match.                         *)
LEMMA RepeatNothing ==
  ASSUME Inv, NEW n \in Nodes, Kind(n) = "repeat", NEW p \in Pos, NEW k \in Nat,
         k <= NodeOf[n].min, Reach(Again(Sem[input][Parts(n)[1]]), k, p) = {}
  PROVE  RepeatEnds(Sem[input], n, p) = {}
<1> SUFFICES ASSUME NEW q \in RepeatEnds(Sem[input], n, p) PROVE FALSE
  OBVIOUS
<1>1. PICK j \in Nat : Permitted(NodeOf[n], j)
                       /\ q \in Reach(Again(Sem[input][Parts(n)[1]]), j, p)
  BY RepeatReach
<1>2. k <= j
  BY <1>1, RepeatFacts DEF Permitted
<1>3. Reach(Again(Sem[input][Parts(n)[1]]), j, p) = {}
  BY <1>2, ReachNothing
<1>4. QED
  BY <1>1, <1>3

(* The innermost frame, when it is a repetition's turn.                    *)
LEMMA RepeatContext ==
  ASSUME Inv, ExactInv, BeginRound \/ EndStage \/ EndExactRound \/ EndMoreRound
  PROVE  /\ pc = "run" /\ frames # << >> /\ Top \in FrameSet /\ Kind(Top.node) = "repeat"
         /\ UNCHANGED <<input, memoize, query>>
         /\ Top.node \in Nodes /\ Top.pos \in Pos /\ Top.at \in Nat
         /\ Top.stage \in {"exact", "more"} /\ Top.open \in BOOLEAN
         /\ Rep(Top) = NodeOf[Top.node]
         /\ Top.stage = "exact" =>
              ExactSound(Sem[input][Parts(Top.node)[1]], NodeOf[Top.node], Top)
         /\ Top.stage = "more" =>
              MoreSound(Sem[input][Parts(Top.node)[1]], NodeOf[Top.node], Top)
         /\ Top.open =>
              /\ Top.todo \subseteq Top.current
              /\ Top.reached = Ends(Sem[input][Parts(Top.node)[1]], Top.current \ Top.todo)
<1>1. pc = "run" /\ Kind(Top.node) = "repeat" /\ UNCHANGED <<input, memoize, query>>
  BY DEF BeginRound, EndStage, EndExactRound, EndMoreRound, Running, bound
<1>2. frames # << >> /\ Top \in FrameSet /\ Sound(Sem[input], Top, Top.reached)
  BY <1>1, RunContext
<1>3. RepeatSound(Sem[input], Top, Top.reached)
  BY <1>1, <1>2 DEF Sound
<1>4. QED
  BY <1>1, <1>2, <1>3 DEF RepeatSound, FrameSet, Rep

LEMMA BeginExact ==
  ASSUME Inv, ExactInv, BeginRound
  PROVE  ExactInv'
<1> DEFINE b == Sem[input][Parts(Top.node)[1]]
           d == NodeOf[Top.node]
           f == [Top EXCEPT !.open = TRUE, !.todo = Top.current, !.reached = {}]
<1>1. /\ pc = "run" /\ frames # << >> /\ Top \in FrameSet /\ Kind(Top.node) = "repeat"
      /\ Top.node \in Nodes /\ Top.at \in Nat /\ Top.stage \in {"exact", "more"}
      /\ Rep(Top) = d
      /\ Top.stage = "exact" => ExactSound(b, d, Top)
      /\ Top.stage = "more" => MoreSound(b, d, Top)
      /\ UNCHANGED <<memo, input, query>>
  BY RepeatContext DEF BeginRound
<1>2. /\ f.node = Top.node /\ f.pos = Top.pos /\ f.at = Top.at /\ f.stage = Top.stage
      /\ f.open /\ f.current = Top.current /\ f.todo = Top.current
      /\ f.reached = {} /\ f.result = Top.result
  BY <1>1 DEF FrameSet
<1>3. Step(f) /\ MoreRounds(Top)
  BY DEF BeginRound
<1> HIDE DEF f, b, d
<1>4. f.stage = "exact" => ExactSound(b, d, f)
  BY <1>1, <1>2, <1>3 DEF ExactSound, MoreRounds
<1>5. f.stage = "more" => MoreSound(b, d, f)
  BY <1>1, <1>2, <1>3 DEF MoreSound, MoreRounds
<1>6. f.todo \subseteq f.current /\ f.reached = Ends(b, f.current \ f.todo)
  BY <1>2, EndsAll
<1>7. RepeatSound(Sem[input], f, f.reached)
  BY <1>2, <1>4, <1>5, <1>6 DEF RepeatSound, b, d
<1>8. Sound(Sem[input], f, f.reached)
  BY <1>1, <1>2, <1>7 DEF Sound
<1>9. QED
  BY <1>1, <1>2, <1>3, <1>8, Counting

(* The second phase begins with what the minimum reached.                  *)
LEMMA BeyondSound ==
  ASSUME Inv, Top \in FrameSet, Kind(Top.node) = "repeat",
         Top.current = Reach(Again(Sem[input][Parts(Top.node)[1]]), NodeOf[Top.node].min, Top.pos)
  PROVE  /\ Beyond(Top).node = Top.node /\ Beyond(Top).pos = Top.pos
         /\ Sound(Sem[input], Beyond(Top), Beyond(Top).reached)
<1> DEFINE f == Beyond(Top)
           b == Sem[input][Parts(Top.node)[1]]
           d == NodeOf[Top.node]
<1>1. /\ f.node = Top.node /\ f.pos = Top.pos /\ f.at = 0 /\ f.stage = "more"
      /\ ~f.open /\ f.current = Top.current /\ f.result = Top.current
  BY DEF FrameSet, Beyond
<1>2. Top.node \in Nodes /\ Top.pos \in Pos
  BY DEF FrameSet
<1>3. d.min \in Nat /\ (d.max # None => d.max \in Nat /\ d.min <= d.max)
  BY <1>2, RepeatFacts
<1>4. Top.current = Between(b, d.min, 0, Top.pos)
  BY <1>2, <1>3, BetweenNone
<1> HIDE DEF f, b, d
<1>5. d.max # None => 0 <= d.max - d.min
  BY <1>3
<1>6. MoreSound(b, d, f)
  BY <1>1, <1>4, <1>5 DEF MoreSound
<1>7. RepeatSound(Sem[input], f, f.reached)
  BY <1>1, <1>6 DEF RepeatSound, b, d
<1>8. QED
  BY <1>1, <1>7 DEF Sound, f

LEMMA EndStageExact ==
  ASSUME Inv, ExactInv, Meanings, EndStage
  PROVE  ExactInv'
<1> DEFINE b == Sem[input][Parts(Top.node)[1]]
           d == NodeOf[Top.node]
<1>1. /\ pc = "run" /\ frames # << >> /\ Top \in FrameSet /\ Kind(Top.node) = "repeat"
      /\ Top.node \in Nodes /\ Top.pos \in Pos /\ Top.at \in Nat
      /\ Top.stage \in {"exact", "more"} /\ Rep(Top) = d
      /\ Top.stage = "exact" => ExactSound(b, d, Top)
      /\ Top.stage = "more" => MoreSound(b, d, Top)
      /\ UNCHANGED <<memoize, input, query>>
  BY RepeatContext DEF EndStage
<1>2. d.min \in Nat /\ (d.max # None => d.max \in Nat /\ d.min <= d.max)
  BY <1>1, RepeatFacts
<1>3. ~MoreRounds(Top)
  BY DEF EndStage
<1>4. CASE Top.stage = "exact"
  <2>1. frames' = SetTop(Beyond(Top)) /\ UNCHANGED <<memo, pc>>
    BY <1>4 DEF EndStage
  <2>2. Top.at = d.min /\ Top.current = Reach(Again(b), Top.at, Top.pos)
    BY <1>1, <1>2, <1>3, <1>4 DEF ExactSound, MoreRounds
  <2>3. Top.current = Reach(Again(b), d.min, Top.pos)
    BY <2>2
  <2>4. QED
    BY <1>1, <2>1, <2>3, BeyondSound, InPlace DEF Failing
<1>5. CASE Top.stage = "more"
  <2>1. Leave(Top.result)
    BY <1>5 DEF EndStage
  <2>2. MoreSound(b, d, Top)
    BY <1>1, <1>5
  <2>3. /\ Top.result = Between(b, d.min, Top.at, Top.pos)
        /\ d.max # None => Top.at <= d.max - d.min
    BY <2>2 DEF MoreSound
  <2>4. \/ d.max # None /\ Top.at = d.max - d.min
        \/ \A s \in Top.result : b[s] \subseteq Top.result
    <3>1. (d.max # None /\ ~(Top.at < d.max - d.min)) \/ Top.current = {}
      BY <1>1, <1>3, <1>5 DEF MoreRounds
    <3>2. CASE d.max # None /\ ~(Top.at < d.max - d.min)
      BY <1>1, <1>2, <2>3, <3>2
    <3>3. CASE Top.current = {}
      BY <2>2, <3>3 DEF MoreSound
    <3>4. QED
      BY <3>1, <3>2, <3>3
  <2>5. RepeatEnds(Sem[input], Top.node, Top.pos) = Top.result
    BY <1>1, <2>3, <2>4, MoreIsAll
  <2>6. Top.result = Sem[input][Top.node][Top.pos]
    BY <1>1, <2>5, MeaningFacts
  <2>7. QED
    BY <1>1, <2>1, <2>6, Answering DEF Failing
<1>6. QED
  BY <1>1, <1>4, <1>5

LEMMA EndExactRoundExact ==
  ASSUME Inv, ExactInv, Meanings, EndExactRound
  PROVE  ExactInv'
<1> DEFINE b == Sem[input][Parts(Top.node)[1]]
           d == NodeOf[Top.node]
<1>1. /\ pc = "run" /\ frames # << >> /\ Top \in FrameSet /\ Kind(Top.node) = "repeat"
      /\ Top.node \in Nodes /\ Top.pos \in Pos /\ Top.at \in Nat
      /\ Top.stage = "exact" /\ Top.open /\ Top.todo = {} /\ ExactSound(b, d, Top)
      /\ Top.reached = Ends(b, Top.current \ {})
      /\ UNCHANGED <<memoize, input, query>>
  BY RepeatContext DEF EndExactRound
<1>2. d.min \in Nat /\ b \in [Pos -> SUBSET Pos]
  BY <1>1, RepeatFacts
<1>3. Top.at < d.min /\ Top.current = Reach(Again(b), Top.at, Top.pos)
  BY <1>1 DEF ExactSound
<1>4. Top.reached = Reach(Again(b), Top.at + 1, Top.pos)
  BY <1>1, <1>2, <1>3, EndsAll, AgainStep
<1>5. CASE Top.reached = {}
  <2>1. Leave({})
    BY <1>5 DEF EndExactRound
  <2>2. Top.at + 1 \in Nat /\ Top.at + 1 <= d.min
    BY <1>1, <1>2, <1>3
  <2>3. RepeatEnds(Sem[input], Top.node, Top.pos) = {}
    BY <1>1, <1>4, <1>5, <2>2, RepeatNothing
  <2>4. {} = Sem[input][Top.node][Top.pos]
    BY <1>1, <2>3, MeaningFacts
  <2>5. QED
    BY <1>1, <2>1, <2>4, Answering DEF Failing
<1>6. CASE Top.reached # {} /\ Settled(Top)
  <2>1. frames' = SetTop(Beyond(Top)) /\ UNCHANGED <<memo, pc>>
    BY <1>6 DEF EndExactRound
  <2>2. Reach(Again(b), Top.at + 1, Top.pos) = Reach(Again(b), Top.at, Top.pos)
    BY <1>3, <1>4, <1>6 DEF Settled
  <2>3. Top.at <= d.min
    BY <1>1, <1>2, <1>3
  <2>4. Reach(Again(b), d.min, Top.pos) = Reach(Again(b), Top.at, Top.pos)
    BY <1>1, <1>2, <2>2, <2>3, AgainSettled
  <2>5. Top.current = Reach(Again(b), d.min, Top.pos)
    BY <1>3, <2>4
  <2>6. QED
    BY <1>1, <2>1, <2>5, BeyondSound, InPlace DEF Failing
<1>7. CASE Top.reached # {} /\ ~Settled(Top)
  <2> DEFINE f == [Top EXCEPT !.at = @ + 1, !.open = FALSE, !.current = Top.reached]
  <2>1. /\ f.node = Top.node /\ f.pos = Top.pos /\ f.at = Top.at + 1 /\ f.stage = "exact"
        /\ ~f.open /\ f.current = Top.reached
    BY <1>1 DEF FrameSet
  <2>2. frames' = SetTop(f) /\ UNCHANGED <<memo, pc>>
    BY <1>7 DEF EndExactRound
  <2> HIDE DEF f, b, d
  <2>3. f.at <= d.min
    BY <1>1, <1>2, <1>3, <2>1
  <2>4. ExactSound(b, d, f)
    BY <1>4, <2>1, <2>3 DEF ExactSound
  <2>5. RepeatSound(Sem[input], f, f.reached)
    BY <2>1, <2>4 DEF RepeatSound, b, d
  <2>6. Sound(Sem[input], f, f.reached)
    BY <1>1, <2>1, <2>5 DEF Sound
  <2>7. QED
    BY <1>1, <2>1, <2>2, <2>6, InPlace DEF Failing
<1>8. QED
  BY <1>5, <1>6, <1>7

LEMMA EndMoreRoundExact ==
  ASSUME Inv, ExactInv, EndMoreRound
  PROVE  ExactInv'
<1> DEFINE b == Sem[input][Parts(Top.node)[1]]
           d == NodeOf[Top.node]
           f == [Top EXCEPT !.at = @ + 1, !.open = FALSE,
                            !.current = Top.reached \ Top.result,
                            !.result = @ \cup Top.reached]
<1>1. /\ pc = "run" /\ frames # << >> /\ Top \in FrameSet /\ Kind(Top.node) = "repeat"
      /\ Top.node \in Nodes /\ Top.pos \in Pos /\ Top.at \in Nat
      /\ Top.stage = "more" /\ Top.open /\ Top.todo = {} /\ MoreSound(b, d, Top)
      /\ Top.reached = Ends(b, Top.current \ {})
      /\ UNCHANGED <<memoize, memo, pc, input, query>>
  BY RepeatContext DEF EndMoreRound
<1>2. /\ d.min \in Nat /\ b \in [Pos -> SUBSET Pos]
      /\ d.max # None => d.max \in Nat /\ d.min <= d.max
  BY <1>1, RepeatFacts
<1>3. /\ f.node = Top.node /\ f.pos = Top.pos /\ f.at = Top.at + 1 /\ f.stage = "more"
      /\ ~f.open /\ f.current = Top.reached \ Top.result
      /\ f.result = Top.result \cup Top.reached
  BY <1>1 DEF FrameSet
<1>4. frames' = SetTop(f)
  BY DEF EndMoreRound
<1>5. /\ Top.result = Between(b, d.min, Top.at, Top.pos)
      /\ Top.current \subseteq Top.result
      /\ \A s \in Top.result \ Top.current : b[s] \subseteq Top.result
      /\ d.max # None => Top.at < d.max - d.min
  BY <1>1 DEF MoreSound
<1>6. Between(b, d.min, Top.at + 1, Top.pos) = Top.result \cup Ends(b, Top.result)
  BY <1>1, <1>2, <1>5, BetweenStep
<1> HIDE DEF f, b, d
<1>7. Top.reached = Ends(b, Top.current)
  BY <1>1, EndsAll
<1>8. Top.result \cup Ends(b, Top.result) = Top.result \cup Top.reached
  BY <1>5, <1>7 DEF Ends
<1>9. d.max # None => f.at <= d.max - d.min
  BY <1>1, <1>2, <1>3, <1>5
<1>10. f.result = Between(b, d.min, f.at, f.pos)
  BY <1>3, <1>6, <1>8
<1>11. ASSUME NEW s \in f.result \ f.current PROVE b[s] \subseteq f.result
  <2>1. s \in Top.result
    BY <1>3, <1>11
  <2>2. CASE s \in Top.current
    BY <1>3, <1>7, <2>2 DEF Ends
  <2>3. CASE s \notin Top.current
    BY <1>3, <1>5, <2>1, <2>3
  <2>4. QED
    BY <2>2, <2>3
<1>12. MoreSound(b, d, f)
  BY <1>3, <1>9, <1>10, <1>11 DEF MoreSound
<1>13. RepeatSound(Sem[input], f, f.reached)
  BY <1>3, <1>12 DEF RepeatSound, b, d
<1>14. Sound(Sem[input], f, f.reached)
  BY <1>1, <1>3, <1>13 DEF Sound
<1>15. QED
  BY <1>1, <1>3, <1>4, <1>14, InPlace DEF Failing

-----------------------------------------------------------------------------
(* Calls, returns and questions.                                           *)

(* A call that is answered on the spot.                                    *)
LEMMA OnTheSpot ==
  ASSUME Inv, ExactInv, pc = "enter", UNCHANGED <<input, memo, frames, query>>,
         pc' = "return", ret'.tag = "ok" => ret'.ends = Sem[input][arg.node][arg.pos]
  PROVE  ExactInv'
<1>1. FramesSound /\ MemoExact /\ arg = Asked(Len(frames))
  BY DEF ExactInv, Failing
<1>2. \A i \in 1 .. Len(frames) : Got(i)' = Got(i)
  BY DEF Got
<1>3. \A i \in 0 .. Len(frames) : Asked(i)' = Asked(i)
  BY DEF Asked
<1>4. Len(frames) \in Nat
  BY DEF Inv, StackShape
<1>5. FramesSound'
  <2> SUFFICES ASSUME NEW i \in 1 .. Len(frames)
               PROVE  /\ Sound(Sem[input], frames[i], Got(i))'
                      /\ frames'[i].node = Asked(i - 1)'.node
                      /\ frames'[i].pos = Asked(i - 1)'.pos
    BY DEF FramesSound
  <2>1. Asked(i - 1)' = Asked(i - 1) /\ Got(i)' = Got(i) /\ input' = input
    BY <1>2, <1>3, <1>4
  <2>2. QED
    BY <1>1, <2>1 DEF FramesSound
<1>6. MemoExact'
  BY <1>1 DEF MemoExact
<1>7. Meant(Asked(Len(frames)))' = Sem[input][arg.node][arg.pos]
  BY <1>1, <1>3, <1>4 DEF Meant
<1>8. QED
  BY <1>5, <1>6, <1>7 DEF ExactInv

(* A call that is not: its frame has found nothing yet.                    *)
LEMMA FrameSound ==
  ASSUME Inv, NEW n \in Nodes, NEW p \in Pos
  PROVE  Sound(Sem[input], Frame(n, p), Frame(n, p).reached)
<1> DEFINE f == Frame(n, p)
<1>1. /\ f.node = n /\ f.pos = p /\ f.at = 0 /\ f.stage = "exact" /\ ~f.open
      /\ f.current = {p} /\ f.start = p
      /\ f.reached = IF Kind(n) = "concat" THEN {p} ELSE {}
  BY DEF Frame
<1>2. Len(Parts(n)) \in Nat
  BY NodeFacts
<1> HIDE DEF f
<1>3. Kind(n) = "alt" => AltSound(Sem[input], f, f.reached)
  BY <1>1, <1>2 DEF AltSound
<1>4. Kind(n) = "concat" => ConcatSound(Sem[input], f, f.reached)
  BY <1>1, <1>2 DEF ConcatSound
<1>5. Kind(n) = "repeat" => RepeatSound(Sem[input], f, f.reached)
  <2> SUFFICES ASSUME Kind(n) = "repeat" PROVE RepeatSound(Sem[input], f, f.reached)
    OBVIOUS
  <2>1. NodeOf[n].min \in Nat
    BY RepeatFacts
  <2>2. f.current = Reach(Again(Sem[input][Parts(n)[1]]), 0, p)
    BY <1>1, ReachZero
  <2>3. ExactSound(Sem[input][Parts(n)[1]], NodeOf[n], f)
    BY <1>1, <2>1, <2>2 DEF ExactSound
  <2>4. QED
    BY <1>1, <2>3 DEF RepeatSound
<1>6. Kind(n) = "optional" => OptionalSound(Sem[input], f, f.reached)
  BY <1>1 DEF OptionalSound
<1>7. Kind(n) = "ref" => RefSound(Sem[input], f, f.reached)
  BY <1>1 DEF RefSound
<1>8. QED
  BY <1>1, <1>3, <1>4, <1>5, <1>6, <1>7 DEF Sound, f

LEMMA PushExact ==
  ASSUME Inv, ExactInv, MatchComposite \/ RefUnknown
  PROVE  ExactInv'
<1> DEFINE n == Len(frames)
           f == Frame(arg.node, arg.pos)
<1>1. pc = "enter" /\ PushFrame /\ UNCHANGED <<input, memoize, query, ret>>
      /\ Kind(arg.node) \in {"alt", "concat", "repeat", "optional", "ref"}
  BY DEF MatchComposite, RefUnknown, Enter, bound
<1>2. /\ Len(frames') = n + 1 /\ frames'[n + 1] = f
      /\ \A i \in 1 .. n : frames'[i] = frames[i]
  BY <1>1, PushFacts
<1>3. n \in Nat /\ arg.node \in Nodes /\ arg.pos \in Pos /\ pc' = "run"
  BY <1>1 DEF Inv, StackShape, TypeOK, PushFrame
<1>4. FramesSound /\ MemoExact /\ arg = Asked(n)
  BY <1>1 DEF ExactInv, Failing
<1>5. \A i \in 0 .. n : Asked(i)' = Asked(i)
  BY <1>1, <1>2, <1>3 DEF Asked
<1>6. f.node = arg.node /\ f.pos = arg.pos /\ Sound(Sem[input], f, f.reached)
  BY <1>3, FrameSound DEF Frame
<1> HIDE DEF f
<1>7. ASSUME NEW i \in 1 .. n + 1
      PROVE  /\ Sound(Sem[input], frames[i], Got(i))'
             /\ frames'[i].node = Asked(i - 1)'.node /\ frames'[i].pos = Asked(i - 1)'.pos
  <2>1. i - 1 \in 0 .. n /\ Asked(i - 1)' = Asked(i - 1) /\ input' = input
    BY <1>1, <1>3, <1>5
  <2>2. CASE i <= n
    <3>1. i \in 1 .. n /\ i < n + 1
      BY <1>3, <2>2
    <3>2. frames'[i] = frames[i] /\ Got(i)' = Got(i)
      BY <1>1, <1>2, <2>1, <3>1 DEF Got
    <3>3. QED
      BY <1>4, <2>1, <3>1, <3>2 DEF FramesSound
  <2>3. CASE i = n + 1
    <3>1. frames'[i] = f /\ i - 1 = n /\ ~(i < n + 1)
      BY <1>2, <1>3, <2>3
    <3>2. Got(i)' = f.reached
      BY <1>2, <1>3, <3>1 DEF Got
    <3>3. QED
      BY <1>4, <1>6, <2>1, <3>1, <3>2
  <2>4. QED
    BY <1>3, <2>2, <2>3
<1>8. FramesSound'
  BY <1>2, <1>7 DEF FramesSound
<1>9. MemoExact'
  <2>1. CASE memo' = memo
    BY <1>1, <1>4, <2>1 DEF MemoExact
  <2>2. CASE memo' = [memo EXCEPT ![RefKey] = InProgress]
    <3>1. memo \in [Key -> Entries] /\ InProgress.tag # "done"
      BY DEF Inv, TypeOK, InProgress
    <3>2. \A k \in Key : memo'[k] = memo[k] \/ memo'[k] = InProgress
      BY <2>2, <3>1
    <3>3. QED
      BY <1>1, <1>4, <3>1, <3>2 DEF MemoExact
  <2>3. QED
    BY <2>1, <2>2 DEF MatchComposite, RefUnknown
<1>10. QED
  BY <1>3, <1>8, <1>9 DEF ExactInv

(* The limit on depth, terminals and what the memo table knows.            *)
LEMMA EnterExact ==
  ASSUME Inv, ExactInv, Meanings,
         RefuseDepth \/ MatchTerminal \/ MatchComposite \/ RefKnown \/ RefUnknown
  PROVE  ExactInv'
<1>1. CASE RefuseDepth
  <2>1. pc = "enter" /\ UNCHANGED <<input, memo, frames, query>> /\ pc' = "return"
        /\ ret'.tag # "ok"
    BY <1>1 DEF RefuseDepth, Return, Err, bound
  <2>2. QED
    BY <2>1, OnTheSpot
<1>2. CASE MatchTerminal
  <2>1. pc = "enter" /\ UNCHANGED <<input, memo, frames, query>> /\ pc' = "return"
        /\ Kind(arg.node) \in {"char", "num", "prose"}
        /\ ret'.ends = TerminalEnds(arg.node, input, arg.pos)
    BY <1>2 DEF MatchTerminal, Enter, Return, Ok, bound
  <2>2. arg.node \in Nodes /\ arg.pos \in Pos
    BY <2>1 DEF Inv, StackShape, TypeOK
  <2>3. Sem[input][arg.node][arg.pos] = TerminalEnds(arg.node, input, arg.pos)
    BY <2>1, <2>2, MeaningFacts
  <2>4. QED
    BY <2>1, <2>3, OnTheSpot
<1>3. CASE RefKnown
  <2>1. pc = "enter" /\ UNCHANGED <<input, memo, frames, query>> /\ pc' = "return"
        /\ Kind(arg.node) = "ref" /\ memo[RefKey] # Absent
        /\ ret' = IF memo[RefKey] = InProgress THEN Err("LeftRecursionDetected")
                  ELSE Ok(memo[RefKey].ends)
    BY <1>3 DEF RefKnown, Enter, Return, bound
  <2>2. arg.node \in Nodes /\ arg.pos \in Pos
    BY <2>1 DEF Inv, StackShape, TypeOK
  <2>3. RefKey \in Key /\ RefKey[1] = NodeOf[arg.node].target /\ RefKey[2] = arg.pos
    BY <2>1, <2>2, NodeFacts DEF RefKey, Key
  <2>4. CASE memo[RefKey] = InProgress
    <3>1. ret'.tag # "ok"
      BY <2>1, <2>4 DEF Err
    <3>2. QED
      BY <2>1, <3>1, OnTheSpot
  <2>5. CASE memo[RefKey] # InProgress
    <3>1. memo[RefKey] \in Entries
      BY <2>3 DEF Inv, TypeOK
    <3>2. memo[RefKey].tag = "done"
      BY <2>1, <2>5, <3>1 DEF Entries, Absent, InProgress
    <3>3. memo[RefKey].ends = Sem[input][Body[NodeOf[arg.node].target]][arg.pos]
      BY <2>3, <3>2 DEF ExactInv, MemoExact
    <3>4. Sem[input][arg.node][arg.pos] = Sem[input][Body[NodeOf[arg.node].target]][arg.pos]
      BY <2>1, <2>2, MeaningFacts
    <3>5. ret'.ends = memo[RefKey].ends
      BY <2>1, <2>5 DEF Ok
    <3>6. QED
      BY <2>1, <3>3, <3>4, <3>5, OnTheSpot
  <2>6. QED
    BY <2>4, <2>5
<1>4. CASE MatchComposite \/ RefUnknown
  BY <1>4, PushExact
<1>5. QED
  BY <1>1, <1>2, <1>3, <1>4

LEMMA ReturnExact ==
  ASSUME Inv, ExactInv, Resume \/ Unwind \/ Answer
  PROVE  ExactInv'
<1>1. CASE Resume
  <2> DEFINE f == [Top EXCEPT !.reached = @ \cup ret.ends]
  <2>1. pc = "return" /\ frames # << >> /\ ret.tag = "ok" /\ frames' = SetTop(f)
        /\ pc' = "run" /\ UNCHANGED <<memo, input, query>>
    BY <1>1 DEF Resume, bound
  <2>2. Top \in FrameSet /\ Len(frames) \in 1 .. Len(frames) /\ Len(frames) # 0
    BY <2>1, TopFacts
  <2>3. /\ f.node = Top.node /\ f.pos = Top.pos /\ f.at = Top.at /\ f.stage = Top.stage
        /\ f.open = Top.open /\ f.current = Top.current /\ f.todo = Top.todo
        /\ f.start = Top.start /\ f.reached = Top.reached \cup ret.ends
        /\ f.result = Top.result
    BY <2>2 DEF FrameSet
  <2>4. ret.ends = Due(Sem[input], Top)
    BY <2>1, <2>2 DEF ExactInv, Meant, Asked, Due, Top
  <2>5. Got(Len(frames)) = Top.reached \cup Due(Sem[input], Top)
    BY <2>1 DEF Got, Top
  <2>6. Sound(Sem[input], Top, Got(Len(frames)))
    BY <2>1, <2>2 DEF ExactInv, Failing, FramesSound, Top
  <2> HIDE DEF f
  <2>7. f.reached = Got(Len(frames))
    BY <2>3, <2>4, <2>5
  <2>8. Sound(Sem[input], f, Got(Len(frames)))
    BY <2>3, <2>6 DEF Sound, AltSound, ConcatSound, RepeatSound, ExactSound, MoreSound,
                      OptionalSound, RefSound
  <2>9. QED
    BY <2>1, <2>3, <2>7, <2>8, InPlace DEF Failing
<1>2. CASE Unwind
  <2>1. pc' = "return" /\ ret'.tag = "err" /\ UNCHANGED input
    BY <1>2 DEF Unwind, bound
  <2>2. MemoExact'
    <3>1. memo \in [Key -> Entries] /\ MemoExact
      BY DEF Inv, TypeOK, ExactInv
    <3>2. memo' = memo \/ memo' = [memo EXCEPT ![KeyOf(Top)] = Absent]
      BY <1>2 DEF Unwind, Forget
    <3>3. \A k \in Key : memo'[k] = memo[k] \/ memo'[k] = Absent
      BY <3>1, <3>2
    <3>4. QED
      BY <2>1, <3>1, <3>3 DEF MemoExact, Absent
  <2>3. QED
    BY <2>1, <2>2 DEF ExactInv, Failing
<1>3. CASE Answer
  <2>1. pc = "return" /\ frames = << >> /\ pc' = "idle"
        /\ UNCHANGED <<input, memo, frames, ret, query>>
    BY <1>3 DEF Answer, bound
  <2>2. Len(frames') = 0 /\ Len(frames) = 0
    BY <2>1
  <2>3. FramesSound'
    BY <2>2 DEF FramesSound
  <2>4. MemoExact'
    BY <2>1 DEF ExactInv, MemoExact
  <2>5. ret'.tag = "ok" => ret'.ends = Meant(Asked(Len(frames)))'
    BY <2>1, <2>2 DEF ExactInv, Meant, Asked
  <2>6. QED
    BY <2>1, <2>3, <2>4, <2>5 DEF ExactInv
<1>4. QED
  BY <1>1, <1>2, <1>3

LEMMA ClientExact ==
  ASSUME Inv, ExactInv, Client
  PROVE  ExactInv'
<1>1. pc = "idle" /\ frames = << >> /\ UNCHANGED <<input, memo, frames>>
  BY DEF Client, WithOptions, WithoutMemoization, EndPositions, bound, Inv, StackShape
<1>2. Len(frames) = 0 /\ Len(frames') = 0
  BY <1>1
<1>3. FramesSound' /\ MemoExact'
  BY <1>1, <1>2 DEF ExactInv, FramesSound, MemoExact
<1>4. CASE WithOptions \/ WithoutMemoization
  <2>1. UNCHANGED <<pc, arg, ret, query>>
    BY <1>4 DEF WithOptions, WithoutMemoization
  <2>2. QED
    BY <1>1, <1>2, <1>3, <2>1 DEF ExactInv, Meant, Asked
<1>5. ASSUME NEW r \in Rules, NEW s \in Starts, EndPositions(r, s) PROVE ExactInv'
  <2>1. CASE Gate(r)
    <3>1. pc' = "enter" /\ arg' = [node |-> Body[r], pos |-> s]
          /\ query' = [rule |-> r, start |-> s]
      BY <1>5, <2>1 DEF EndPositions, Call
    <3>2. arg' = Asked(Len(frames))'
      BY <1>2, <3>1 DEF Asked
    <3>3. QED
      BY <1>3, <3>1, <3>2 DEF ExactInv
  <2>2. CASE ~Gate(r)
    <3>1. pc' = "idle" /\ ret'.tag = "err"
      BY <1>1, <1>5, <2>2 DEF EndPositions, Err
    <3>2. QED
      BY <1>3, <3>1 DEF ExactInv
  <2>3. QED
    BY <2>1, <2>2
<1>6. QED
  BY <1>4, <1>5 DEF Client

LEMMA ExactInit == Init => ExactInv
<1> SUFFICES ASSUME Init PROVE ExactInv
  OBVIOUS
<1>1. Len(frames) = 0 /\ pc = "idle" /\ query = None
  BY DEF Init
<1>2. MemoExact
  BY DEF Init, MemoExact, Absent
<1>3. QED
  BY <1>1, <1>2 DEF ExactInv, FramesSound

LEMMA ExactStep == Meanings /\ Inv /\ ExactInv /\ [Next]_vars => ExactInv'
<1> SUFFICES ASSUME Meanings, Inv, ExactInv, [Next]_vars PROVE ExactInv'
  OBVIOUS
<1>1. CASE UNCHANGED vars
  <2>1. UNCHANGED <<input, memo, frames, pc, arg, ret, query>>
    BY <1>1 DEF vars
  <2>2. QED
    BY <2>1 DEF ExactInv, MemoExact, Failing, FramesSound, Got, Asked, Meant, Due
<1>2. CASE Client
  BY <1>2, ClientExact
<1>3. CASE Walk
  BY <1>3, EnterExact, AdvanceExact, AltExact, ConcatExact, OptionalExact, RefExact,
     BeginExact, EndStageExact, EndExactRoundExact, EndMoreRoundExact, ReturnExact DEF Walk
<1>4. QED
  BY <1>1, <1>2, <1>3 DEF Next

-----------------------------------------------------------------------------
LEMMA ExactAlways == Meanings /\ Spec => []ExactInv
<1> DEFINE J == Meanings /\ Inv /\ ExactInv
<1>1. Meanings /\ Init => J
  BY ExactInit, InvInit
<1>2. J /\ [Next]_vars => J'
  <2>1. Meanings => Meanings'
    OBVIOUS
  <2>2. QED
    BY <2>1, ExactStep, InvStep
<1>3. J => ExactInv
  OBVIOUS
<1>4. QED
  BY <1>1, <1>2, <1>3, PTL DEF Spec

(* Whatever was asked before, under whatever limits, with the memo table   *)
(* or without, a question that is answered is answered with exactly the    *)
(* ends the grammar means (end_positions, match_repeat, match_node).       *)
THEOREM AnswersAreExact == Meanings /\ Spec => []AnswersExact
<1>1. Inv /\ ExactInv => AnswersExact
  <2> SUFFICES ASSUME Inv, ExactInv, pc = "idle", query # None, ret.tag = "ok"
               PROVE  ret.ends = Sem[input][Body[query.rule]][query.start]
    BY DEF AnswersExact
  <2>1. Len(frames) = 0
    BY DEF Inv, StackShape
  <2>2. QED
    BY <2>1 DEF ExactInv, Meant, Asked
<1>2. QED
  BY <1>1, ExactAlways, InvAlways, PTL

(* No limit and no error leaves a part of an answer in the memo table: an  *)
(* entry that is done holds all the ends of its rule there                 *)
(* (match_rule_ref).                                                       *)
THEOREM MemoIsExact == Meanings /\ Spec => []MemoExact
<1>1. ExactInv => MemoExact
  BY DEF ExactInv
<1>2. QED
  BY <1>1, ExactAlways, PTL
-----------------------------------------------------------------------------
(* Without left recursion the walk meets no marker.                        *)

(* In every nonempty set of nodes one leads to none of the set.            *)
NoLeftRecursion == \A S \in SUBSET Nodes : S # {} => \E n \in S : Foremost(n) \cap S = {}

(* Nothing ends before it begins.                                          *)
Forward == \A text \in Inputs, n \in Nodes, p \in Pos : \A q \in Sem[text][n][p] : p <= q

LEMMA ForemostFacts ==
  ASSUME NEW n \in Nodes
  PROVE  /\ Kind(n) = "alt" => \A i \in 1 .. Len(Parts(n)) : Parts(n)[i] \in Foremost(n)
         /\ Kind(n) = "repeat" /\ NodeOf[n].max # 0 => Parts(n)[1] \in Foremost(n)
         /\ Kind(n) = "optional" => Parts(n)[1] \in Foremost(n)
         /\ Kind(n) = "ref" => Foremost(n) = {Body[NodeOf[n].target]}
<1>1. Parts(n) \in Seq(Nodes) /\ (Kind(n) \in {"repeat", "optional"} => Len(Parts(n)) = 1)
  BY NodeFacts
<1>2. QED
  BY <1>1 DEF Foremost, Reachable, IsNever, Successors

(* What never falls stays between its ends.                                *)
LEMMA Rising ==
  ASSUME NEW m \in Nat, NEW path, \A i \in 0 .. m : path[i] \in Nat,
         \A i \in 1 .. m : path[i - 1] <= path[i]
  PROVE  \A i \in 0 .. m : path[0] <= path[i] /\ path[i] <= path[m]
<1>1. \A i \in 0 .. m : path[0] <= path[i]
  <2> DEFINE Bad == {i \in 0 .. m : ~(path[0] <= path[i])}
  <2> SUFFICES ASSUME Bad # {} PROVE FALSE
    OBVIOUS
  <2>1. Bad \in SUBSET Nat
    OBVIOUS
  <2>2. PICK i \in Bad : \A j \in Bad : i <= j
    <3> HIDE DEF Bad
    <3> QED BY <2>1, LeastExists
  <2>3. i \in 0 .. m /\ ~(path[0] <= path[i]) /\ i # 0
    BY <2>2
  <2>4. i - 1 \in 0 .. m /\ i - 1 \notin Bad /\ i \in 1 .. m
    BY <2>2, <2>3
  <2>5. path[0] <= path[i - 1] /\ path[i - 1] <= path[i]
    BY <2>4
  <2>6. path[0] \in Nat /\ path[i - 1] \in Nat /\ path[i] \in Nat
    BY <2>3, <2>4
  <2>7. QED
    BY <2>3, <2>5, <2>6
<1>2. \A i \in 0 .. m : path[i] <= path[m]
  <2> DEFINE Bad == {i \in 0 .. m : ~(path[i] <= path[m])}
  <2> SUFFICES ASSUME Bad # {} PROVE FALSE
    OBVIOUS
  <2>1. Bad \in SUBSET Nat /\ \A i \in Bad : i <= m
    OBVIOUS
  <2>2. PICK i \in Bad : \A j \in Bad : j <= i
    <3> HIDE DEF Bad
    <3> QED BY <2>1, GreatestExists
  <2>3. i \in 0 .. m /\ ~(path[i] <= path[m]) /\ i # m
    BY <2>2
  <2>4. i + 1 \in 0 .. m /\ i + 1 \notin Bad /\ i + 1 \in 1 .. m /\ (i + 1) - 1 = i
    BY <2>2, <2>3
  <2>5. path[i + 1] <= path[m] /\ path[i] <= path[i + 1]
    BY <2>4
  <2>6. path[m] \in Nat /\ path[i + 1] \in Nat /\ path[i] \in Nat
    BY <2>3, <2>4
  <2>7. QED
    BY <2>3, <2>5, <2>6
<1>3. QED
  BY <1>1, <1>2

(* What ends lower than it began falls a first time, from no lower than it *)
(* began.                                                                  *)
LEMMA FirstFall ==
  ASSUME NEW m \in Nat, NEW path, \A i \in 0 .. m : path[i] \in Nat, path[m] < path[0]
  PROVE  \E j \in 1 .. m : /\ path[j] < path[j - 1]
                           /\ \A i \in 0 .. j - 1 : path[0] <= path[i] /\ path[i] <= path[j - 1]
<1> DEFINE Falls == {j \in 1 .. m : path[j] < path[j - 1]}
<1>1. Falls # {}
  <2> SUFFICES ASSUME Falls = {} PROVE FALSE
    OBVIOUS
  <2>1. ASSUME NEW i \in 1 .. m PROVE path[i - 1] <= path[i]
    <3>1. i - 1 \in 0 .. m /\ i \in 0 .. m /\ i \notin Falls
      OBVIOUS
    <3>2. path[i - 1] \in Nat /\ path[i] \in Nat /\ ~(path[i] < path[i - 1])
      BY <3>1
    <3>3. QED
      BY <3>2
  <2>2. 0 \in 0 .. m /\ m \in 0 .. m
    OBVIOUS
  <2>3. path[0] <= path[m]
    BY <2>1, <2>2, Rising
  <2>4. QED
    BY <2>2, <2>3
<1>2. PICK j \in Falls : \A i \in Falls : j <= i
  <2>1. Falls \in SUBSET Nat
    OBVIOUS
  <2> HIDE DEF Falls
  <2>2. QED
    BY <1>1, <2>1, LeastExists
<1>3. j \in 1 .. m /\ path[j] < path[j - 1] /\ j - 1 \in Nat
  BY <1>2
<1>4. ASSUME NEW i \in 1 .. j - 1 PROVE path[i - 1] <= path[i]
  <2>1. i \in 1 .. m /\ i - 1 \in 0 .. m /\ i \in 0 .. m /\ i \notin Falls
    BY <1>2, <1>3
  <2>2. path[i - 1] \in Nat /\ path[i] \in Nat /\ ~(path[i] < path[i - 1])
    BY <2>1
  <2>3. QED
    BY <2>2
<1>5. \A i \in 0 .. j - 1 : path[i] \in Nat
  BY <1>3
<1>6. \A i \in 0 .. j - 1 : path[0] <= path[i] /\ path[i] <= path[j - 1]
  BY <1>3, <1>4, <1>5, Rising
<1>7. QED
  BY <1>3, <1>6

(* Where steps lead forward, so do chains of them; and a chain that gets   *)
(* nowhere stands still at every step.                                     *)
LEMMA ChainForward ==
  ASSUME NEW F, NEW k \in Nat, NEW p \in Pos, NEW q \in Pos, Chain(F, k, p, q),
         \A i \in 1 .. k : \A s \in Pos : \A t \in F[i][s] : s <= t
  PROVE  p <= q /\ (p = q => \A i \in 1 .. k : p \in F[i][p])
<1>1. PICK path \in [0 .. k -> Pos] :
        /\ path[0] = p /\ path[k] = q
        /\ \A i \in 1 .. k : path[i] \in F[i][path[i - 1]]
  BY DEF Chain
<1>2. \A i \in 0 .. k : path[i] \in Pos /\ path[i] \in Nat
  BY DEF Pos
<1>3. \A i \in 1 .. k : path[i - 1] <= path[i]
  <2> TAKE i \in 1 .. k
  <2>1. i - 1 \in 0 .. k
    OBVIOUS
  <2>2. path[i - 1] \in Pos /\ path[i] \in F[i][path[i - 1]]
    BY <1>1, <1>2, <2>1
  <2>3. QED
    BY <2>2
<1>4. \A i \in 0 .. k : path[0] <= path[i] /\ path[i] <= path[k]
  BY <1>2, <1>3, Rising
<1>5. k \in 0 .. k
  OBVIOUS
<1>6. p <= q
  BY <1>1, <1>4, <1>5
<1>7. ASSUME p = q, NEW i \in 1 .. k PROVE p \in F[i][p]
  <2>1. i - 1 \in 0 .. k /\ i \in 0 .. k
    OBVIOUS
  <2>2. path[i - 1] = p /\ path[i] = p
    <3>1. p <= path[i - 1] /\ path[i - 1] <= p /\ p <= path[i] /\ path[i] <= p
      BY <1>1, <1>4, <1>7, <2>1
    <3>2. p \in Nat /\ path[i - 1] \in Nat /\ path[i] \in Nat
      BY <1>2, <2>1 DEF Pos
    <3>3. QED
      BY <3>1, <3>2
  <2>3. QED
    BY <1>1, <2>2
<1>8. QED
  BY <1>6, <1>7

(* A chain that falls has a step that falls, from where it began or later; *)
(* if from where it began, every step before stood still.                  *)
LEMMA ChainFalls ==
  ASSUME NEW F, NEW k \in Nat, NEW p \in Pos, NEW q \in Pos, Chain(F, k, p, q), q < p
  PROVE  \E j \in 1 .. k, s \in Pos, t \in Pos :
           /\ p <= s /\ t < s /\ t \in F[j][s]
           /\ s = p => \A i \in 1 .. j - 1 : p \in F[i][p]
<1>1. PICK path \in [0 .. k -> Pos] :
        /\ path[0] = p /\ path[k] = q
        /\ \A i \in 1 .. k : path[i] \in F[i][path[i - 1]]
  BY DEF Chain
<1>2. \A i \in 0 .. k : path[i] \in Pos /\ path[i] \in Nat
  BY DEF Pos
<1>3. PICK j \in 1 .. k : /\ path[j] < path[j - 1]
                          /\ \A i \in 0 .. j - 1 : path[0] <= path[i] /\ path[i] <= path[j - 1]
  <2>1. path[k] < path[0] /\ \A i \in 0 .. k : path[i] \in Nat
    BY <1>1, <1>2
  <2>2. QED
    BY <2>1, FirstFall
<1>4. j \in 0 .. k /\ j - 1 \in 0 .. k /\ j - 1 \in 0 .. j - 1
  OBVIOUS
<1>5. /\ path[j - 1] \in Pos /\ path[j] \in Pos /\ p <= path[j - 1]
      /\ path[j] < path[j - 1] /\ path[j] \in F[j][path[j - 1]]
  BY <1>1, <1>2, <1>3, <1>4
<1>6. ASSUME path[j - 1] = p, NEW i \in 1 .. j - 1 PROVE p \in F[i][p]
  <2>1. i - 1 \in 0 .. j - 1 /\ i \in 0 .. j - 1 /\ i \in 1 .. k /\ i - 1 \in 0 .. k /\ i \in 0 .. k
    OBVIOUS
  <2>2. path[i - 1] = p /\ path[i] = p
    <3>1. p <= path[i - 1] /\ path[i - 1] <= p /\ p <= path[i] /\ path[i] <= p
      BY <1>1, <1>3, <1>6, <2>1
    <3>2. p \in Nat /\ path[i - 1] \in Nat /\ path[i] \in Nat
      BY <1>2, <2>1 DEF Pos
    <3>3. QED
      BY <3>1, <3>2
  <2>3. QED
    BY <1>1, <2>1, <2>2
<1>7. QED
  BY <1>5, <1>6

LEMMA ForwardHolds == Meanings /\ NoLeftRecursion => Forward
<1> SUFFICES ASSUME Meanings, NoLeftRecursion, NEW text \in Inputs
             PROVE  \A n \in Nodes, p \in Pos : \A q \in Sem[text][n][p] : p <= q
  BY DEF Forward
<1> DEFINE sem == Sem[text]
           Back(n, p) == \E q \in sem[n][p] : q < p
           Bad == {p \in Pos : \E n \in Nodes : Back(n, p)}
<1>1. /\ \A n \in Nodes : sem[n] \in [Pos -> SUBSET Pos]
      /\ \A p \in Pos : p \in Nat
      /\ MaxPos \in Nat /\ \A p \in Pos : p <= MaxPos
  BY SemType, RecognizerAssumption DEF Pos
<1>2. IsMeaning(sem, text)
  BY DEF Meanings
<1>3. SUFFICES ASSUME Bad # {} PROVE FALSE
  BY <1>1
<1>4. PICK P \in Bad : \A p \in Bad : p <= P
  <2>1. Bad \in SUBSET Nat /\ \A p \in Bad : p <= MaxPos
    BY <1>1
  <2> HIDE DEF Bad
  <2>2. QED
    BY <1>1, <1>3, <2>1, GreatestExists
<1> DEFINE S == {n \in Nodes : Back(n, P)}
<1>5. PICK n \in S : Foremost(n) \cap S = {}
  <2>1. S \in SUBSET Nodes /\ S # {}
    BY <1>4
  <2> HIDE DEF S
  <2>2. QED
    BY <2>1 DEF NoLeftRecursion
<1>6. P \in Pos /\ n \in Nodes
  BY <1>4, <1>5
<1>7. PICK q \in sem[n][P] : q < P
  BY <1>5
<1>8. q \in Pos
  BY <1>1, <1>6, <1>7
<1>9. \A m \in Foremost(n) : m \in Nodes => ~Back(m, P)
  BY <1>5
<1>10. \A s \in Pos, m \in Nodes : Back(m, s) => s <= P
  BY <1>4
<1>11. Parts(n) \in Seq(Nodes)
  BY <1>6, NodeFacts
<1> HIDE DEF sem, S, Bad
<1>12. CASE Kind(n) = "alt"
  <2>1. sem[n][P] = AltEnds(sem, n, P)
    BY <1>2, <1>6, <1>12 DEF IsMeaning
  <2>2. PICK i \in 1 .. Len(Parts(n)) : q \in sem[Parts(n)[i]][P]
    BY <1>7, <2>1 DEF AltEnds
  <2>3. Parts(n)[i] \in Foremost(n) /\ Parts(n)[i] \in Nodes
    BY <1>6, <1>11, <1>12, ForemostFacts
  <2>4. QED
    BY <1>7, <1>9, <2>2, <2>3
<1>13. CASE Kind(n) = "concat"
  <2> DEFINE F == Items(sem, n)
  <2>1. q \in ConcatEnds(sem, n, P)
    BY <1>2, <1>6, <1>7, <1>13 DEF IsMeaning
  <2>2. Chain(F, Len(Parts(n)), P, q) /\ Len(Parts(n)) \in Nat
    BY <1>11, <2>1 DEF ConcatEnds, Reach, Items
  <2>3. \A i \in 1 .. Len(Parts(n)) : F[i] = sem[Parts(n)[i]] /\ Parts(n)[i] \in Nodes
    BY <1>11 DEF Items
  <2> HIDE DEF F
  <2>4. PICK j \in 1 .. Len(Parts(n)), s \in Pos, t \in Pos :
               /\ P <= s /\ t < s /\ t \in F[j][s]
               /\ s = P => \A i \in 1 .. j - 1 : P \in F[i][P]
    BY <1>6, <1>7, <1>8, <2>2, ChainFalls
  <2>5. Back(Parts(n)[j], s) /\ Parts(n)[j] \in Nodes
    BY <2>3, <2>4
  <2>6. s = P
    <3>1. s <= P
      BY <1>10, <2>5
    <3>2. QED
      BY <1>1, <1>6, <2>4, <3>1
  <2>7. \A i \in 1 .. j - 1 : Skips(Parts(n)[i])
    <3> TAKE i \in 1 .. j - 1
    <3>1. i \in 1 .. Len(Parts(n))
      BY <2>2
    <3>2. P \in sem[Parts(n)[i]][P]
      BY <2>3, <2>4, <2>6, <3>1
    <3>3. QED
      BY <1>6, <3>2 DEF Skips, sem
  <2>8. Parts(n)[j] \in Foremost(n)
    BY <1>13, <2>7 DEF Foremost
  <2>9. QED
    BY <1>9, <2>5, <2>6, <2>8
<1>14. CASE Kind(n) = "repeat"
  <2> DEFINE F == Again(sem[Parts(n)[1]])
  <2>1. q \in RepeatEnds(sem, n, P)
    BY <1>2, <1>6, <1>7, <1>14 DEF IsMeaning
  <2>2. PICK k \in Nat : Permitted(NodeOf[n], k) /\ Chain(F, k, P, q)
    BY <2>1 DEF RepeatEnds
  <2> HIDE DEF F
  <2>3. PICK j \in 1 .. k, s \in Pos, t \in Pos : P <= s /\ t < s /\ t \in F[j][s]
    BY <1>6, <1>7, <1>8, <2>2, ChainFalls
  <2>4. F[j] = sem[Parts(n)[1]]
    BY DEF F, Again
  <2>5. Parts(n)[1] \in Nodes /\ Back(Parts(n)[1], s)
    BY <1>6, <1>14, <2>3, <2>4, NodeFacts
  <2>6. s = P
    <3>1. s <= P
      BY <1>10, <2>5
    <3>2. QED
      BY <1>1, <1>6, <2>3, <3>1
  <2>7. NodeOf[n].max # 0
    <3>1. k >= 1 /\ (NodeOf[n].max # None => k <= NodeOf[n].max)
      BY <2>2, <2>3 DEF Permitted
    <3>2. None # 0
      BY GrammarAssumption DEF WellFormed
    <3>3. QED
      BY <3>1, <3>2
  <2>8. Parts(n)[1] \in Foremost(n)
    BY <1>6, <1>14, <2>7, ForemostFacts
  <2>9. QED
    BY <1>9, <2>5, <2>6, <2>8
<1>15. CASE Kind(n) = "optional"
  <2>1. sem[n][P] = sem[Parts(n)[1]][P] \cup {P}
    BY <1>2, <1>6, <1>15 DEF IsMeaning
  <2>2. q \in sem[Parts(n)[1]][P]
    BY <1>1, <1>6, <1>7, <1>8, <2>1
  <2>3. Parts(n)[1] \in Foremost(n) /\ Parts(n)[1] \in Nodes
    BY <1>6, <1>15, ForemostFacts, NodeFacts
  <2>4. QED
    BY <1>7, <1>9, <2>2, <2>3
<1>16. CASE Kind(n) = "ref"
  <2>1. sem[n][P] = sem[Body[NodeOf[n].target]][P]
    BY <1>2, <1>6, <1>16 DEF IsMeaning
  <2>2. Body[NodeOf[n].target] \in Foremost(n) /\ Body[NodeOf[n].target] \in Nodes
    BY <1>6, <1>16, ForemostFacts, NodeFacts
  <2>3. QED
    BY <1>7, <1>9, <2>1, <2>2
<1>17. CASE Kind(n) \in {"char", "num", "prose"}
  <2>1. q \in TerminalEnds(n, text, P)
    BY <1>2, <1>6, <1>7, <1>17 DEF IsMeaning
  <2>2. Kind(n) \in {"char", "num"} => Len(NodeOf[n].value) \in Nat
    BY <1>6, GrammarAssumption DEF WellFormed, NodeShape, Kind
  <2>3. Kind(n) \in {"char", "num"} /\ q = P + Len(NodeOf[n].value)
    BY <1>17, <2>1 DEF TerminalEnds, MatchCharVal, MatchNumVal
  <2>4. QED
    BY <1>1, <1>6, <1>7, <2>2, <2>3
<1>18. Kind(n) \in Kinds
  BY <1>6, NodeFacts
<1>19. QED
  BY <1>12, <1>13, <1>14, <1>15, <1>16, <1>17, <1>18 DEF Kinds

-----------------------------------------------------------------------------
(* The calls that are out lead forward, and where they do not, foremost.   *)

Leads(f) ==
  /\ f.pos <= f.start
  /\ f.start = f.pos => Callee(f) \in Foremost(f.node)

CallsLead ==
  \A i \in 1 .. Len(frames) : i < Len(frames) \/ pc = "enter" => Leads(frames[i])

(* The innermost frame calls.                                              *)
LEMMA DescendLeads ==
  ASSUME Inv, CallsLead, frames # << >>, NEW f, frames' = SetTop(f), Leads(f)
  PROVE  CallsLead'
<1> DEFINE n == Len(frames)
<1>1. n \in Nat \ {0}
  BY TopFacts
<1>2. /\ Len(frames') = n /\ frames'[n] = f
      /\ \A i \in 1 .. n - 1 : frames'[i] = frames[i]
  <2>1. frames \in Seq(GoodFrames \cup {f}) /\ f \in GoodFrames \cup {f}
    BY DEF Inv, StackShape
  <2>2. QED
    BY <2>1, ReplaceStack DEF SetTop
<1>3. ASSUME NEW i \in 1 .. n PROVE Leads(frames'[i])
  <2>1. CASE i < n
    <3>1. frames'[i] = frames[i] /\ Leads(frames[i])
      BY <1>1, <1>2, <2>1 DEF CallsLead
    <3>2. QED
      BY <3>1
  <2>2. CASE i = n
    BY <1>2, <2>2
  <2>3. QED
    BY <1>1, <2>1, <2>2
<1>4. QED
  BY <1>2, <1>3 DEF CallsLead

(* It goes on, or leaves, or nothing happens to the stack; and no call is  *)
(* about to be made.                                                       *)
LEMMA OthersLead ==
  ASSUME Inv, CallsLead, pc' # "enter",
         \/ frames' = frames
         \/ frames # << >> /\ frames' = Below
         \/ frames # << >> /\ \E f : frames' = SetTop(f)
  PROVE  CallsLead'
<1>1. Len(frames) \in Nat
  BY DEF Inv, StackShape
<1>2. CASE frames' = frames
  BY <1>2 DEF CallsLead
<1>3. CASE frames # << >> /\ frames' = Below
  <2>1. Len(frames') = Len(frames) - 1 /\ \A i \in 1 .. Len(frames) - 1 : frames'[i] = frames[i]
    BY <1>3, TopFacts
  <2>2. QED
    BY <1>1, <2>1 DEF CallsLead
<1>4. CASE frames # << >> /\ \E f : frames' = SetTop(f)
  <2>1. PICK f : frames' = SetTop(f)
    BY <1>4
  <2>2. frames \in Seq(GoodFrames \cup {f}) /\ f \in GoodFrames \cup {f}
    BY DEF Inv, StackShape
  <2>3. Len(frames') = Len(frames) /\ \A i \in 1 .. Len(frames) - 1 : frames'[i] = frames[i]
    BY <1>4, <2>1, <2>2, ReplaceStack DEF SetTop
  <2>4. QED
    BY <1>1, <2>3 DEF CallsLead
<1>5. QED
  BY <1>2, <1>3, <1>4

(* What is reached lies ahead.                                             *)
LEMMA AgainForward ==
  ASSUME Forward, NEW text \in Inputs, NEW m \in Nodes, NEW k \in Nat, NEW p \in Pos,
         NEW q \in Reach(Again(Sem[text][m]), k, p)
  PROVE  p <= q
<1> DEFINE F == Again(Sem[text][m])
<1>1. q \in Pos /\ Chain(F, k, p, q)
  BY DEF Reach
<1>2. \A i \in 1 .. k : \A s \in Pos : \A t \in F[i][s] : s <= t
  BY DEF Forward, Again
<1> HIDE DEF F
<1>3. QED
  BY <1>1, <1>2, ChainForward

LEMMA AdvanceLeads ==
  ASSUME Inv, ExactInv, Forward, CallsLead, Advance
  PROVE  CallsLead'
<1>1. /\ pc = "run" /\ frames # << >> /\ Top \in FrameSet /\ Top \in GoodFrames
      /\ Kind(Top.node) \in {"concat", "repeat"} /\ Sound(Sem[input], Top, Top.reached)
      /\ Top.open /\ Top.node \in Nodes /\ Top.pos \in Pos /\ input \in Inputs
  BY RunContext DEF Advance, Running, FrameSet, Inv, TypeOK
<1>2. PICK s \in Top.todo : Descend([Top EXCEPT !.start = s, !.todo = @ \ {s}])
  BY DEF Advance
<1> DEFINE f == [Top EXCEPT !.start = s, !.todo = @ \ {s}]
<1>3. /\ f.node = Top.node /\ f.pos = Top.pos /\ f.at = Top.at /\ f.start = s
  BY <1>1 DEF FrameSet
<1>4. frames' = SetTop(f)
  BY <1>2 DEF Descend
<1>5. s \in Pos /\ s \in Top.todo
  BY <1>1 DEF FrameSet
<1> HIDE DEF f
<1>6. CASE Kind(Top.node) = "concat"
  <2> DEFINE F == Items(Sem[input], Top.node)
  <2>1. Top.at # 0 /\ Top.todo \subseteq Top.current
        /\ Top.current = Reach(F, Top.at - 1, Top.pos)
    BY <1>1, <1>6 DEF Sound, ConcatSound
  <2>2. Top.at \in 1 .. Len(Parts(Top.node)) /\ Parts(Top.node) \in Seq(Nodes)
    BY <1>1, <1>6, NodeFacts DEF GoodFrames
  <2>3. \A i \in 1 .. Top.at - 1 : F[i] = Sem[input][Parts(Top.node)[i]] /\ Parts(Top.node)[i] \in Nodes
    BY <2>2 DEF Items
  <2> HIDE DEF F
  <2>4. Chain(F, Top.at - 1, Top.pos, s) /\ Top.at - 1 \in Nat
    BY <1>5, <2>1, <2>2 DEF Reach
  <2>5. \A i \in 1 .. Top.at - 1 : \A r \in Pos : \A t \in F[i][r] : r <= t
    BY <1>1, <2>3 DEF Forward
  <2>6. Top.pos <= s /\ (Top.pos = s => \A i \in 1 .. Top.at - 1 : Top.pos \in F[i][Top.pos])
    BY <1>1, <1>5, <2>4, <2>5, ChainForward
  <2>7. ASSUME s = Top.pos PROVE Parts(Top.node)[Top.at] \in Foremost(Top.node)
    <3>1. \A i \in 1 .. Top.at - 1 : Skips(Parts(Top.node)[i])
      BY <1>1, <2>3, <2>6, <2>7 DEF Skips
    <3>2. QED
      BY <1>6, <2>2, <3>1 DEF Foremost
  <2>8. Leads(f)
    BY <1>3, <1>6, <2>6, <2>7 DEF Leads, Callee
  <2>9. QED
    BY <1>1, <1>4, <2>8, DescendLeads
<1>7. CASE Kind(Top.node) = "repeat"
  <2> DEFINE b == Parts(Top.node)[1]
             d == NodeOf[Top.node]
  <2>1. /\ Top.stage \in {"exact", "more"} /\ Top.at \in Nat /\ Top.todo \subseteq Top.current
        /\ Top.stage = "exact" => ExactSound(Sem[input][b], d, Top)
        /\ Top.stage = "more" => MoreSound(Sem[input][b], d, Top)
    BY <1>1, <1>7 DEF Sound, RepeatSound, FrameSet
  <2>2. b \in Nodes /\ d.min \in Nat /\ d.max # 0
    BY <1>1, <1>7, RepeatFacts DEF GoodFrames, IsNever
  <2> HIDE DEF d, b
  <2>3. Top.pos <= s
    <3>1. CASE Top.stage = "exact"
      <4>1. s \in Reach(Again(Sem[input][b]), Top.at, Top.pos)
        BY <1>5, <2>1, <3>1 DEF ExactSound
      <4>2. QED
        BY <1>1, <2>1, <2>2, <4>1, AgainForward
    <3>2. CASE Top.stage = "more"
      <4>1. s \in Between(Sem[input][b], d.min, Top.at, Top.pos)
        BY <1>5, <2>1, <3>2 DEF MoreSound
      <4>2. PICK k \in 0 .. Top.at : s \in Reach(Again(Sem[input][b]), d.min + k, Top.pos)
        BY <4>1 DEF Between
      <4>3. d.min + k \in Nat
        BY <2>2
      <4>4. QED
        BY <1>1, <2>2, <4>2, <4>3, AgainForward
    <3>3. QED
      BY <2>1, <3>1, <3>2
  <2>4. Callee(f) \in Foremost(f.node)
    BY <1>1, <1>3, <1>7, <2>2, ForemostFacts DEF Callee, d, b
  <2>5. QED
    BY <1>1, <1>3, <1>4, <2>3, <2>4, DescendLeads DEF Leads
<1>8. QED
  BY <1>1, <1>6, <1>7

(* A branch, an option and a rule body are matched where their node is.    *)
LEMMA SingleLeads ==
  ASSUME Inv, ExactInv, CallsLead, RunAlt \/ RunOptional \/ RunRef
  PROVE  CallsLead'
<1>1. /\ pc = "run" /\ frames # << >> /\ Top \in FrameSet
      /\ Kind(Top.node) \in {"alt", "optional", "ref"} /\ Sound(Sem[input], Top, Top.reached)
      /\ Top.node \in Nodes /\ Top.pos \in Pos
  BY RunContext DEF RunAlt, RunOptional, RunRef, Running, FrameSet
<1>2. Top.start = Top.pos
  BY <1>1 DEF Sound, AltSound, OptionalSound, RefSound
<1>3. ASSUME NEW f, Descend(f), f.node = Top.node, f.pos = Top.pos, f.start = Top.start,
             Callee(f) \in Foremost(Top.node)
      PROVE  CallsLead'
  <2>1. Leads(f) /\ frames' = SetTop(f)
    BY <1>1, <1>2, <1>3 DEF Leads, Descend, Pos
  <2>2. QED
    BY <1>1, <2>1, DescendLeads
<1>4. ASSUME NEW E, Leave(E) PROVE CallsLead'
  BY <1>1, <1>4, OthersLead DEF Leave, Return
<1>5. CASE RunAlt
  <2>1. CASE Top.at < Len(Parts(Top.node))
    <3> DEFINE f == [Top EXCEPT !.at = @ + 1]
    <3>1. f.node = Top.node /\ f.pos = Top.pos /\ f.start = Top.start /\ f.at = Top.at + 1
      BY <1>1 DEF FrameSet
    <3>2. Descend(f) /\ Kind(Top.node) = "alt"
      BY <1>5, <2>1 DEF RunAlt, Running
    <3> HIDE DEF f
    <3>3. Callee(f) = Parts(Top.node)[f.at]
      BY <3>1, <3>2 DEF Callee
    <3>4. f.at \in 1 .. Len(Parts(Top.node))
      BY <1>1, <2>1, <3>1, NodeFacts DEF FrameSet
    <3>5. Callee(f) \in Foremost(Top.node)
      BY <1>1, <3>2, <3>3, <3>4, ForemostFacts
    <3>6. QED
      BY <1>3, <3>1, <3>2, <3>5
  <2>2. CASE ~(Top.at < Len(Parts(Top.node)))
    BY <1>4, <1>5, <2>2 DEF RunAlt
  <2>3. QED
    BY <2>1, <2>2
<1>6. CASE RunOptional
  <2>1. CASE Top.at = 0
    <3> DEFINE f == [Top EXCEPT !.at = 1]
    <3>1. f.node = Top.node /\ f.pos = Top.pos /\ f.start = Top.start
      BY <1>1 DEF FrameSet
    <3>2. Descend(f) /\ Kind(Top.node) = "optional"
      BY <1>6, <2>1 DEF RunOptional, Running
    <3> HIDE DEF f
    <3>3. Callee(f) \in Foremost(Top.node)
      BY <1>1, <3>1, <3>2, ForemostFacts DEF Callee
    <3>4. QED
      BY <1>3, <3>1, <3>2, <3>3
  <2>2. CASE Top.at # 0
    BY <1>4, <1>6, <2>2 DEF RunOptional
  <2>3. QED
    BY <2>1, <2>2
<1>7. CASE RunRef
  <2>1. CASE Top.open
    <3> DEFINE f == [Top EXCEPT !.at = 1, !.open = FALSE]
    <3>1. f.node = Top.node /\ f.pos = Top.pos /\ f.start = Top.start
      BY <1>1 DEF FrameSet
    <3>2. Descend(f) /\ Kind(Top.node) = "ref"
      BY <1>7, <2>1 DEF RunRef, Running
    <3> HIDE DEF f
    <3>3. Callee(f) \in Foremost(Top.node)
      BY <1>1, <3>1, <3>2, ForemostFacts DEF Callee
    <3>4. QED
      BY <1>3, <3>1, <3>2, <3>3
  <2>2. CASE ~Top.open /\ Top.at = 0
    <3>1. Step([Top EXCEPT !.open = TRUE])
      BY <1>7, <2>2 DEF RunRef
    <3>2. QED
      BY <1>1, <3>1, OthersLead DEF Step, Return
  <2>3. CASE ~Top.open /\ Top.at # 0
    BY <1>4, <1>7, <2>3 DEF RunRef
  <2>4. QED
    BY <2>1, <2>2, <2>3
<1>8. QED
  BY <1>5, <1>6, <1>7

LEMMA PushLeads ==
  ASSUME Inv, CallsLead, MatchComposite \/ RefUnknown
  PROVE  CallsLead'
<1>1. pc = "enter" /\ PushFrame
      /\ Kind(arg.node) \in {"alt", "concat", "repeat", "optional", "ref"}
  BY DEF MatchComposite, RefUnknown, Enter
<1>2. /\ Len(frames') = Len(frames) + 1
      /\ \A i \in 1 .. Len(frames) : frames'[i] = frames[i]
  BY <1>1, PushFacts
<1>3. Len(frames) \in Nat /\ pc' = "run"
  BY <1>1 DEF Inv, StackShape, PushFrame
<1>4. ASSUME NEW i \in 1 .. Len(frames'), i < Len(frames') PROVE Leads(frames'[i])
  <2>1. i \in 1 .. Len(frames)
    BY <1>2, <1>3, <1>4
  <2>2. QED
    BY <1>1, <1>2, <2>1 DEF CallsLead
<1>5. QED
  BY <1>3, <1>4 DEF CallsLead

LEMMA CallsLeadStep == Inv /\ ExactInv /\ Forward /\ CallsLead /\ [Next]_vars => CallsLead'
<1> SUFFICES ASSUME Inv, ExactInv, Forward, CallsLead, [Next]_vars PROVE CallsLead'
  OBVIOUS
<1>1. CASE UNCHANGED vars
  BY <1>1 DEF vars, CallsLead
<1>2. CASE WithOptions \/ WithoutMemoization \/ RefuseDepth \/ MatchTerminal \/ RefKnown \/ Answer
  <2>1. frames' = frames /\ pc' # "enter"
    BY <1>2 DEF WithOptions, WithoutMemoization, RefuseDepth, MatchTerminal, RefKnown, Answer,
                Return
  <2>2. QED
    BY <2>1, OthersLead
<1>3. ASSUME NEW r \in Rules, NEW s \in Starts, EndPositions(r, s) PROVE CallsLead'
  <2>1. frames' = << >>
    BY <1>3 DEF EndPositions, Inv, StackShape
  <2>2. QED
    BY <2>1 DEF CallsLead
<1>4. CASE MatchComposite \/ RefUnknown
  BY <1>4, PushLeads
<1>5. CASE Advance
  BY <1>5, AdvanceLeads
<1>6. CASE RunAlt \/ RunOptional \/ RunRef
  BY <1>6, SingleLeads
<1>7. CASE RunConcat \/ EndStage \/ EndExactRound \/ EndMoreRound \/ BeginRound
  <2>1. pc = "run" /\ frames # << >>
    BY <1>7 DEF RunConcat, EndStage, EndExactRound, EndMoreRound, BeginRound, Running, Inv,
                StackShape
  <2>2. \/ pc' # "enter" /\ frames' = Below
        \/ pc' # "enter" /\ frames' = frames
        \/ pc' # "enter" /\ \E f : frames' = SetTop(f)
    BY <1>7, <2>1 DEF RunConcat, EndStage, EndExactRound, EndMoreRound, BeginRound, Leave, Step,
                Return
  <2>3. QED
    BY <2>1, <2>2, OthersLead
<1>8. CASE Resume \/ Unwind
  <2>1. frames # << >> /\ pc' # "enter" /\ (frames' = Below \/ \E f : frames' = SetTop(f))
    BY <1>8 DEF Resume, Unwind
  <2>2. QED
    BY <2>1, OthersLead
<1>9. QED
  BY <1>1, <1>2, <1>3, <1>4, <1>5, <1>6, <1>7, <1>8 DEF Next, Client, Walk

(* A reference that is being worked out was entered at this position, and  *)
(* no call since led forward: there would be a cycle of foremost nodes.    *)
LEMMA NoMarkerMet ==
  ASSUME Inv, MarkersInv, ExactInv, CallsLead, NoLeftRecursion,
         pc = "enter", Kind(arg.node) = "ref", memoize
  PROVE  memo[RefKey] # InProgress
<1> SUFFICES ASSUME memo[RefKey] = InProgress PROVE FALSE
  OBVIOUS
<1> DEFINE n == Len(frames)
<1>1. n \in Nat /\ arg.node \in Nodes /\ arg.pos \in Pos /\ arg = Asked(n)
      /\ \A k \in 1 .. n : frames[k].node \in Nodes /\ frames[k].pos \in Nat /\ frames[k].start \in Nat
  BY DEF Inv, StackShape, ExactInv, GoodFrames, FrameSet, Pos
<1>2. RefKey \in Key
  BY <1>1, NodeFacts DEF RefKey, Key
<1>3. PICK i \in 1 .. n : Marking(i) /\ KeyOf(frames[i]) = RefKey
  BY <1>2 DEF MarkersInv
<1>4. Kind(frames[i].node) = "ref" /\ frames[i].pos = arg.pos
      /\ NodeOf[frames[i].node].target = NodeOf[arg.node].target
  BY <1>3 DEF Marking, KeyOf, RefKey
<1>5. \A k \in 1 .. n : /\ frames[k].pos <= frames[k].start
                        /\ frames[k].start = frames[k].pos =>
                             Callee(frames[k]) \in Foremost(frames[k].node)
  BY DEF CallsLead, Leads
<1>6. \A k \in 1 .. n - 1 : Callee(frames[k]) = frames[k + 1].node
                            /\ frames[k].start = frames[k + 1].pos
  <2> TAKE k \in 1 .. n - 1
  <2>1. k + 1 \in 1 .. n /\ (k + 1) - 1 = k /\ k # 0
    BY <1>1
  <2>2. frames[k + 1].node = Asked(k).node /\ frames[k + 1].pos = Asked(k).pos
    BY <2>1 DEF ExactInv, Failing, FramesSound
  <2>3. QED
    BY <2>1, <2>2 DEF Asked
<1>7. Callee(frames[n]) = arg.node /\ frames[n].start = arg.pos
  BY <1>1, <1>3 DEF Asked
<1> DEFINE m == (n + 1) - i
           path == [j \in 0 .. m |-> IF j = 0 THEN frames[i].pos ELSE frames[(i + j) - 1].start]
<1>8. m \in Nat \ {0} /\ path[0] = arg.pos /\ path[m] = arg.pos
  <2>1. m \in Nat /\ m # 0 /\ (i + m) - 1 = n
    BY <1>1, <1>3
  <2>2. QED
    BY <1>4, <1>7, <2>1
<1>9. ASSUME NEW j \in 1 .. m
      PROVE  /\ (i + j) - 1 \in 1 .. n
             /\ path[j] = frames[(i + j) - 1].start /\ path[j - 1] = frames[(i + j) - 1].pos
  <2>1. (i + j) - 1 \in 1 .. n /\ j \in 0 .. m /\ j - 1 \in 0 .. m /\ j # 0
    BY <1>1, <1>3
  <2>2. CASE j = 1
    <3>1. (i + j) - 1 = i /\ j - 1 = 0
      BY <2>2
    <3>2. QED
      BY <2>1, <3>1
  <2>3. CASE j # 1
    <3>1. j - 1 # 0 /\ (i + (j - 1)) - 1 \in 1 .. n - 1
          /\ ((i + (j - 1)) - 1) + 1 = (i + j) - 1
      BY <1>1, <1>3, <2>1, <2>3
    <3>2. path[j - 1] = frames[(i + (j - 1)) - 1].start
      BY <2>1, <3>1
    <3>3. frames[(i + (j - 1)) - 1].start = frames[(i + j) - 1].pos
      BY <1>6, <3>1
    <3>4. QED
      BY <2>1, <3>2, <3>3
  <2>4. QED
    BY <2>2, <2>3
<1> HIDE DEF path
<1>10. \A j \in 0 .. m : path[j] \in Nat
  <2> TAKE j \in 0 .. m
  <2>1. CASE j = 0
    BY <1>1, <1>8, <2>1 DEF Pos
  <2>2. CASE j # 0
    <3>1. j \in 1 .. m
      BY <1>8, <2>2
    <3>2. QED
      BY <1>1, <1>9, <3>1
  <2>3. QED
    BY <2>1, <2>2
<1>11. \A j \in 1 .. m : path[j - 1] <= path[j]
  <2> TAKE j \in 1 .. m
  <2>1. QED
    BY <1>5, <1>9
<1>12. \A j \in 0 .. m : path[j] = arg.pos
  <2>1. \A j \in 0 .. m : path[0] <= path[j] /\ path[j] <= path[m]
    BY <1>8, <1>10, <1>11, Rising
  <2>2. arg.pos \in Nat
    BY <1>1 DEF Pos
  <2>3. QED
    BY <1>8, <1>10, <2>1, <2>2
<1>13. ASSUME NEW k \in i .. n PROVE Callee(frames[k]) \in Foremost(frames[k].node)
  <2> DEFINE j == (k + 1) - i
  <2>1. j \in 1 .. m /\ (i + j) - 1 = k /\ k \in 1 .. n
    BY <1>1, <1>3
  <2>2. j \in 0 .. m /\ j - 1 \in 0 .. m
    BY <1>8, <2>1
  <2>3. path[j] = frames[k].start /\ path[j - 1] = frames[k].pos
    BY <1>9, <2>1
  <2> HIDE DEF j
  <2>4. frames[k].start = frames[k].pos
    BY <1>12, <2>2, <2>3
  <2>5. QED
    BY <1>5, <2>1, <2>4
<1> DEFINE S == {Callee(frames[k]) : k \in i .. n}
<1>14. \A k \in i .. n : Callee(frames[k]) \in Nodes
  <2> TAKE k \in i .. n
  <2>1. CASE k = n
    BY <1>1, <1>7, <2>1
  <2>2. CASE k # n
    <3>1. k \in 1 .. n - 1 /\ k + 1 \in 1 .. n
      BY <1>1, <1>3, <2>2
    <3>2. QED
      BY <1>1, <1>6, <3>1
  <2>3. QED
    BY <2>1, <2>2
<1>15. S \in SUBSET Nodes /\ S # {}
  BY <1>1, <1>3, <1>14
<1>16. PICK x \in S : Foremost(x) \cap S = {}
  <2> HIDE DEF S
  <2> QED BY <1>15 DEF NoLeftRecursion
<1>17. PICK k \in i .. n : x = Callee(frames[k])
  BY <1>16
<1>18. CASE k = n
  <2>1. x = arg.node /\ Foremost(x) = {Body[NodeOf[arg.node].target]}
    BY <1>1, <1>7, <1>17, <1>18, ForemostFacts
  <2>2. Callee(frames[i]) = Body[NodeOf[arg.node].target] /\ i \in i .. n
    BY <1>3, <1>4 DEF Callee
  <2>3. QED
    BY <1>16, <2>1, <2>2
<1>19. CASE k # n
  <2>1. k \in 1 .. n - 1 /\ k + 1 \in i .. n
    BY <1>1, <1>3, <1>19
  <2>2. x = frames[k + 1].node
    BY <1>6, <1>17, <2>1
  <2>3. Callee(frames[k + 1]) \in Foremost(x) /\ Callee(frames[k + 1]) \in S
    BY <1>13, <2>1, <2>2
  <2>4. QED
    BY <1>16, <2>3
<1>20. QED
  BY <1>18, <1>19

-----------------------------------------------------------------------------
(* What an error says.                                                     *)
LEMMA LimitsStep ==
  ASSUME Inv, MarkersInv, ExactInv, CallsLead, NoLeftRecursion, RefusalsAreLimits, [Next]_vars
  PROVE  RefusalsAreLimits'
<1>1. ASSUME pc' # "return" \/ ret'.tag = "ok" PROVE RefusalsAreLimits'
  BY <1>1 DEF RefusalsAreLimits, Ok
<1>2. ASSUME UNCHANGED <<options, steps, pc, ret>> PROVE RefusalsAreLimits'
  BY <1>2 DEF RefusalsAreLimits
<1>3. ASSUME NEW f, Step(f), options' = options, pc = "run" PROVE RefusalsAreLimits'
  <2>1. CASE options.max_steps # None /\ steps + 1 > options.max_steps
    BY <1>3, <2>1 DEF Step, Return, Err, RefusalsAreLimits
  <2>2. CASE ~(options.max_steps # None /\ steps + 1 > options.max_steps)
    <3>1. pc' = "run"
      BY <1>3, <2>2 DEF Step
    <3>2. QED
      BY <1>1, <3>1
  <2>3. QED
    BY <2>1, <2>2
<1>4. ASSUME NEW E, Leave(E) PROVE RefusalsAreLimits'
  BY <1>1, <1>4 DEF Leave, Return, Ok
<1>5. ASSUME NEW f, Descend(f) PROVE RefusalsAreLimits'
  BY <1>1, <1>5 DEF Descend, Call
<1>6. CASE UNCHANGED vars
  BY <1>2, <1>6 DEF vars
<1>7. CASE WithOptions \/ WithoutMemoization \/ Answer
  <2>1. pc' # "return"
    BY <1>7 DEF WithOptions, WithoutMemoization, Answer
  <2>2. QED
    BY <1>1, <2>1
<1>8. ASSUME NEW r \in Rules, NEW s \in Starts, EndPositions(r, s) PROVE RefusalsAreLimits'
  <2>1. pc' # "return"
    BY <1>8 DEF EndPositions, Call
  <2>2. QED
    BY <1>1, <2>1
<1>9. CASE RefuseDepth
  BY <1>9 DEF RefuseDepth, Return, Err, TooDeep, bound, RefusalsAreLimits
<1>10. CASE MatchTerminal
  BY <1>1, <1>10 DEF MatchTerminal, Return, Ok
<1>11. CASE RefKnown
  <2>1. memo[RefKey] # InProgress
    BY <1>11, NoMarkerMet DEF RefKnown, Enter
  <2>2. ret' = Ok(memo[RefKey].ends)
    BY <1>11, <2>1 DEF RefKnown, Return
  <2>3. QED
    BY <1>1, <2>2 DEF Ok
<1>12. CASE MatchComposite \/ RefUnknown \/ EndMoreRound \/ Resume
  <2>1. pc' = "run"
    BY <1>12 DEF MatchComposite, RefUnknown, PushFrame, EndMoreRound, Running, Resume
  <2>2. QED
    BY <1>1, <2>1
<1>13. CASE Advance
  BY <1>5, <1>13 DEF Advance
<1>14. CASE RunAlt \/ RunConcat \/ RunOptional
  <2>1. pc' = "run" \/ (\E f : Descend(f)) \/ (\E E : Leave(E))
    BY <1>14 DEF RunAlt, RunConcat, RunOptional, Running
  <2>2. QED
    BY <1>1, <1>4, <1>5, <2>1
<1>15. CASE RunRef
  <2>1. (\E f : Step(f)) \/ (\E f : Descend(f)) \/ (\E E : Leave(E))
    BY <1>15 DEF RunRef
  <2>2. options' = options /\ pc = "run"
    BY <1>15 DEF RunRef, Running, bound
  <2>3. QED
    BY <1>3, <1>4, <1>5, <2>1, <2>2
<1>16. CASE BeginRound
  <2>1. \E f : Step(f)
    BY <1>16 DEF BeginRound
  <2>2. options' = options /\ pc = "run"
    BY <1>16 DEF BeginRound, Running, bound
  <2>3. QED
    BY <1>3, <2>1, <2>2
<1>17. CASE EndStage \/ EndExactRound
  <2>1. pc' = "run" \/ \E E : Leave(E)
    BY <1>17 DEF EndStage, EndExactRound, Running
  <2>2. QED
    BY <1>1, <1>4, <2>1
<1>18. CASE Unwind
  BY <1>2, <1>18 DEF Unwind, bound
<1>19. QED
  BY <1>6, <1>7, <1>8, <1>9, <1>10, <1>11, <1>12, <1>13, <1>14, <1>15, <1>16, <1>17, <1>18
     DEF Next, Client, Walk

(* What is assumed of the grammar and of its meaning.                      *)
Steady == Meanings /\ NoLeftRecursion

(* All that is kept up together.                                           *)
Kept == Inv /\ MarkersInv /\ ExactInv /\ CallsLead /\ RefusalsAreLimits

LEMMA KeptInit == Init => Kept
<1> SUFFICES ASSUME Init PROVE Kept
  OBVIOUS
<1>1. Inv /\ ExactInv
  BY InvInit, ExactInit
<1>2. MarkersInv
  BY DEF Init, MarkersInv, KeysOpenOnce, Marking, Absent, InProgress
<1>3. CallsLead /\ RefusalsAreLimits
  BY DEF Init, CallsLead, RefusalsAreLimits
<1>4. QED
  BY <1>1, <1>2, <1>3 DEF Kept

LEMMA KeptStep == Steady /\ Kept /\ [Next]_vars => Kept'
<1> SUFFICES ASSUME Meanings, NoLeftRecursion, Kept, [Next]_vars PROVE Kept'
  BY DEF Steady
<1> USE DEF Kept
<1>1. Forward
  BY ForwardHolds
<1>2. Inv' /\ MarkersInv'
  BY InvStep, MarkersStep
<1>3. ExactInv' /\ CallsLead'
  BY <1>1, ExactStep, CallsLeadStep
<1>4. RefusalsAreLimits'
  BY LimitsStep
<1>5. QED
  BY <1>2, <1>3, <1>4

LEMMA KeptAlways == Steady /\ Spec => []Kept
<1> DEFINE J == Steady /\ Kept
<1>1. Steady /\ Init => J
  BY KeptInit
<1>2. J /\ [Next]_vars => J'
  <2>1. Steady => Steady'
    BY DEF Steady, Meanings, NoLeftRecursion
  <2>2. QED
    BY <2>1, KeptStep
<1>3. J => Kept
  OBVIOUS
<1>4. QED
  BY <1>1, <1>2, <1>3, PTL DEF Spec

(* Where the rules have no left recursion, none is ever reported: what     *)
(* goes wrong in a walk is a limit the caller set (match_node, step, and   *)
(* the marker met in match_rule_ref).                                      *)
THEOREM OnlyLimitsFail == Meanings /\ NoLeftRecursion /\ Spec => []RefusalsAreLimits
<1>1. Kept => RefusalsAreLimits
  BY DEF Kept
<1>2. QED
  BY <1>1, KeptAlways, PTL DEF Steady

-----------------------------------------------------------------------------
(* Seen from outside it is an oracle.                                      *)

(* A walk under way has a question to answer.                              *)
QuestionOpen == pc # "idle" => query # None

LEMMA WalkStays ==
  ASSUME Walk, ~Answer
  PROVE  /\ pc # "idle" /\ pc' # "idle"
         /\ UNCHANGED <<input, options, query, calls>>
<1>1. CASE RefuseDepth \/ MatchTerminal \/ MatchComposite \/ RefKnown \/ RefUnknown
  BY <1>1 DEF RefuseDepth, MatchTerminal, MatchComposite, RefKnown, RefUnknown, Enter, PushFrame,
              Return, bound
<1>2. CASE Advance
  BY <1>2 DEF Advance, Running, Descend, Call, bound
<1>3. CASE RunAlt
  BY <1>3 DEF RunAlt, Running, Descend, Call, Leave, Return, bound
<1>4. CASE RunConcat
  BY <1>4 DEF RunConcat, Running, Leave, Return, bound
<1>5. CASE RunOptional
  BY <1>5 DEF RunOptional, Running, Descend, Call, Leave, Return, bound
<1>6. CASE RunRef
  BY <1>6 DEF RunRef, Running, Descend, Call, Leave, Step, Return, bound
<1>7. CASE BeginRound
  BY <1>7 DEF BeginRound, Running, Step, Return, bound
<1>8. CASE EndStage
  BY <1>8 DEF EndStage, Running, Leave, Return, bound
<1>9. CASE EndExactRound
  BY <1>9 DEF EndExactRound, Running, Leave, Return, bound
<1>10. CASE EndMoreRound
  BY <1>10 DEF EndMoreRound, Running, bound
<1>11. CASE Resume \/ Unwind
  BY <1>11 DEF Resume, Unwind, bound
<1>12. QED
  BY <1>1, <1>2, <1>3, <1>4, <1>5, <1>6, <1>7, <1>8, <1>9, <1>10, <1>11 DEF Walk

(* A question is not nothing.                                              *)
LEMMA QuestionIsOne ==
  ASSUME NEW r \in Rules, NEW s \in Starts
  PROVE  [rule |-> r, start |-> s] # None
  BY RecognizerAssumption

LEMMA QuestionStep == QuestionOpen /\ [Next]_vars => QuestionOpen'
<1> SUFFICES ASSUME QuestionOpen, [Next]_vars PROVE QuestionOpen'
  OBVIOUS
<1>1. CASE UNCHANGED vars
  BY <1>1 DEF vars, QuestionOpen
<1>2. CASE WithOptions \/ WithoutMemoization \/ Answer
  BY <1>2 DEF WithOptions, WithoutMemoization, Answer, QuestionOpen
<1>3. ASSUME NEW r \in Rules, NEW s \in Starts, EndPositions(r, s) PROVE QuestionOpen'
  BY <1>3, QuestionIsOne DEF EndPositions, QuestionOpen
<1>4. CASE Walk /\ ~Answer
  BY <1>4, WalkStays DEF QuestionOpen
<1>5. QED
  BY <1>1, <1>2, <1>3, <1>4 DEF Next, Client, Walk

(* What a walk concludes with.                                             *)
LEMMA Conclusion ==
  ASSUME Kept, QuestionOpen, Answer
  PROVE  Seen!AnswerExactly \/ Seen!GiveUp
<1>1. /\ pc = "return" /\ pc' = "idle" /\ frames = << >> /\ query # None
      /\ UNCHANGED <<input, options, query, calls, ret>>
  BY DEF Answer, QuestionOpen, bound
<1>2. ret \in Results
  BY DEF Kept, Inv, TypeOK
<1>3. ASSUME NEW r, ret = r PROVE Seen!Conclude(r)
  BY <1>1, <1>3 DEF Seen!Conclude
<1>4. CASE ret.tag = "ok"
  <2>1. ret = Ok(ret.ends)
    BY <1>2, <1>4 DEF Results, Ok
  <2>2. Len(frames) = 0
    BY <1>1
  <2>3. ret.ends = Sem[input][Body[query.rule]][query.start]
    BY <1>1, <1>4, <2>2 DEF Kept, ExactInv, Meant, Asked
  <2>4. ret = Seen!Ok(Sem[input][Body[query.rule]][query.start])
    BY <2>1, <2>3 DEF Ok, Seen!Ok
  <2>5. QED
    BY <1>3, <2>4 DEF Seen!AnswerExactly
<1>5. CASE ret.tag = "err"
  <2>1. ret = Err(ret.error)
    BY <1>2, <1>5 DEF Results, Err
  <2>2. \/ ret.error = "StepLimit" /\ options.max_steps # None
        \/ ret.error = "DepthLimit" /\ options.max_depth # None
    BY <1>1, <1>5 DEF Kept, RefusalsAreLimits
  <2>3. \/ ret = Seen!Err("StepLimit") /\ options.max_steps # None
        \/ ret = Seen!Err("DepthLimit") /\ options.max_depth # None
    BY <2>1, <2>2 DEF Err, Seen!Err
  <2>4. QED
    BY <1>3, <2>3 DEF Seen!GiveUp
<1>6. QED
  BY <1>2, <1>4, <1>5 DEF Results

LEMMA SeenStep ==
  ASSUME Kept, QuestionOpen, [Next]_vars
  PROVE  [Seen!Next]_(Seen!vars)
<1>1. CASE UNCHANGED vars
  BY <1>1 DEF vars, Seen!vars
<1>2. CASE WithOptions
  <2>1. Seen!SetLimits
    <3>1. options' \in OptionSets
      BY <1>2 DEF WithOptions
    <3>2. pc = "idle" /\ UNCHANGED <<input, pc, ret, query, calls>>
      BY <1>2 DEF WithOptions
    <3>3. QED
      BY <3>1, <3>2 DEF Seen!SetLimits
  <2>2. QED
    BY <2>1 DEF Seen!Next
<1>3. CASE WithoutMemoization
  BY <1>3 DEF WithoutMemoization, Seen!vars
<1>4. ASSUME NEW r \in Rules, NEW s \in Starts, EndPositions(r, s)
      PROVE  [Seen!Next]_(Seen!vars)
  <2>1. /\ pc = "idle" /\ calls < MaxCalls /\ calls' = calls + 1
        /\ query' = [rule |-> r, start |-> s] /\ UNCHANGED <<input, options>>
    BY <1>4 DEF EndPositions, bound
  <2>2. query' # None
    BY <2>1, QuestionIsOne
  <2>3. CASE r \in Recognizable
    <3>1. pc' = "enter"
      BY <1>4, <2>3 DEF EndPositions, Gate, Call
    <3>2. Seen!Ask(r, s)
      BY <2>1, <2>3, <3>1 DEF Seen!Ask
    <3>3. QED
      BY <3>2 DEF Seen!Next
  <2>4. CASE r \notin Recognizable
    <3>1. pc' = "idle" /\ ret' = Seen!Err("Refused")
      BY <1>4, <2>1, <2>4 DEF EndPositions, Gate, Err, Seen!Err
    <3>2. Seen!Ask(r, s)
      BY <2>1, <2>2, <2>4, <3>1 DEF Seen!Ask
    <3>3. QED
      BY <3>2 DEF Seen!Next
  <2>5. QED
    BY <2>3, <2>4
<1>5. CASE Answer
  BY <1>5, Conclusion DEF Seen!Next
<1>6. CASE Walk /\ ~Answer
  BY <1>6, WalkStays DEF Seen!vars
<1>7. QED
  BY <1>1, <1>2, <1>3, <1>4, <1>5, <1>6 DEF Next, Client

(* Whatever a recognizer does between a question and its answer, its       *)
(* caller sees an oracle: the exact ends, or a limit the caller set, and a *)
(* rule that can reach prose refused at once (end_positions).  That every  *)
(* question is answered is checked on instances only.                      *)
THEOREM IsAnOracle ==
  Meanings /\ NoLeftRecursion /\ Spec => Seen!Init /\ [][Seen!Next]_(Seen!vars)
<1>1. Init => Seen!Init
  BY DEF Init, Seen!Init
<1>2. Init => QuestionOpen
  BY DEF Init, QuestionOpen
<1>3. Kept /\ QuestionOpen /\ [Next]_vars => [Seen!Next]_(Seen!vars)
  BY SeenStep
<1>4. QED
  BY <1>1, <1>2, <1>3, KeptAlways, QuestionStep, PTL DEF Spec, Steady

-----------------------------------------------------------------------------
(* How many rounds a repetition takes.                                     *)

(* Steps that lead forward settle from the left: what one more of them     *)
(* changes lies at least as far ahead as there were steps.                 *)
LEMMA SettlesFromTheLeft ==
  ASSUME NEW f \in [Pos -> SUBSET Pos], \A s \in Pos : \A t \in f[s] : s <= t,
         NEW p \in Pos, NEW k \in Nat, NEW q \in Pos,
         ~(q \in Reach(Again(f), k, p) <=> q \in Reach(Again(f), k + 1, p))
  PROVE  p + k <= q
<1> DEFINE R(j) == Reach(Again(f), j, p)
           Bad == {j \in Nat : \E t \in Pos : ~(t \in R(j) <=> t \in R(j + 1)) /\ ~(p + j <= t)}
<1>1. ASSUME Bad # {} PROVE FALSE
  <2>1. PICK m \in Bad : \A j \in Bad : m <= j
    <3>1. Bad \in SUBSET Nat
      OBVIOUS
    <3> HIDE DEF Bad
    <3>2. QED
      BY <1>1, <3>1, LeastExists
  <2>2. m \in Nat
    BY <2>1
  <2>3. PICK t \in Pos : ~(t \in R(m) <=> t \in R(m + 1)) /\ ~(p + m <= t)
    BY <2>1
  <2>4. p \in Nat /\ t \in Nat
    BY DEF Pos
  <2>5. CASE m = 0
    <3>1. R(0) = {p} /\ R(0 + 1) = Ends(f, R(0))
      BY ReachZero, AgainStep
    <3>2. t = p \/ t \in f[p]
      BY <2>3, <2>5, <3>1 DEF Ends
    <3>3. p <= t
      BY <2>4, <3>2
    <3>4. QED
      BY <2>3, <2>4, <2>5, <3>3
  <2>6. CASE m # 0
    <3>1. PICK j \in Nat : m = j + 1
      <4>1. m - 1 \in Nat /\ m = (m - 1) + 1
        BY <2>2, <2>6
      <4>2. QED
        BY <4>1
    <3>2. j \notin Bad
      BY <2>1, <3>1
    <3>3. R(j + 1) = Ends(f, R(j)) /\ R((j + 1) + 1) = Ends(f, R(j + 1))
      BY <3>1, AgainStep
    <3>4. \A s \in R(j) \cup R(j + 1) : s \in Pos /\ s \in Nat
      BY DEF Reach, Pos
    <3>5. PICK s \in R(j) \cup R(j + 1) : /\ t \in f[s]
                                         /\ ~(s \in R(j) <=> s \in R(j + 1))
                                         /\ s # t
      <4> HIDE DEF R
      <4>1. ~(t \in Ends(f, R(j)) <=> t \in Ends(f, R(j + 1)))
        BY <2>3, <3>1, <3>3
      <4>2. PICK s \in R(j) \cup R(j + 1) : t \in f[s] /\ ~(s \in R(j) <=> s \in R(j + 1))
        BY <4>1 DEF Ends
      <4>3. s # t
        <5>1. SUFFICES ASSUME s = t PROVE FALSE
          OBVIOUS
        <5>2. CASE t \in R(j)
          BY <3>3, <4>2, <5>1, <5>2 DEF Ends
        <5>3. CASE t \in R(j + 1)
          <6>1. t \in Ends(f, R(j)) /\ t \in Ends(f, R(j + 1))
            BY <3>3, <4>2, <5>1, <5>3 DEF Ends
          <6>2. QED
            BY <4>1, <6>1
        <5>4. QED
          BY <4>2, <5>1, <5>2, <5>3
      <4>4. QED
        BY <4>2, <4>3
    <3>6. s \in Pos /\ s \in Nat /\ p + j <= s
      BY <3>2, <3>4, <3>5
    <3>7. s <= t
      BY <3>5, <3>6
    <3>8. QED
      BY <2>3, <2>4, <3>1, <3>5, <3>6, <3>7
  <2>7. QED
    BY <2>5, <2>6
<1>2. k \notin Bad
  BY <1>1
<1>3. QED
  BY <1>2

(* A frontier moves on by a position or more with every round.             *)
Ahead(f) ==
  Kind(f.node) = "repeat" =>
    /\ f.at <= MaxPos + 1
    /\ f.stage = "more" => \A q \in f.current : f.pos + f.at <= q
    /\ f.stage = "more" /\ f.open => f.current # {}

RoundsInv == \A i \in 1 .. Len(frames) : Ahead(frames[i])

LEMMA StackAhead ==
  ASSUME Inv, RoundsInv,
         \/ frames' = frames
         \/ frames # << >> /\ frames' = Below
         \/ frames # << >> /\ \E f : frames' = SetTop(f) /\ Ahead(f)
  PROVE  RoundsInv'
<1>1. Len(frames) \in Nat
  BY DEF Inv, StackShape
<1>2. CASE frames' = frames
  BY <1>2 DEF RoundsInv
<1>3. CASE frames # << >> /\ frames' = Below
  <2>1. Len(frames') = Len(frames) - 1 /\ \A i \in 1 .. Len(frames') : frames'[i] = frames[i]
    BY <1>3, TopFacts
  <2>2. \A i \in 1 .. Len(frames') : Ahead(frames'[i])
    BY <1>1, <2>1 DEF RoundsInv
  <2>3. QED
    BY <2>2 DEF RoundsInv
<1>4. ASSUME frames # << >>, NEW f, frames' = SetTop(f), Ahead(f) PROVE RoundsInv'
  <2>1. frames \in Seq(GoodFrames \cup {f}) /\ f \in GoodFrames \cup {f}
    BY DEF Inv, StackShape
  <2>2. /\ Len(frames') = Len(frames) /\ frames'[Len(frames)] = f
        /\ \A i \in 1 .. Len(frames) - 1 : frames'[i] = frames[i]
    BY <1>4, <2>1, ReplaceStack DEF SetTop
  <2>3. ASSUME NEW i \in 1 .. Len(frames) PROVE Ahead(frames'[i])
    <3>1. CASE i = Len(frames)
      BY <1>4, <2>2, <3>1
    <3>2. CASE i # Len(frames)
      <4>1. frames'[i] = frames[i] /\ Ahead(frames[i])
        BY <1>1, <2>2, <3>2 DEF RoundsInv
      <4>2. QED
        BY <4>1
    <3>3. QED
      BY <3>1, <3>2
  <2>4. QED
    BY <2>2, <2>3 DEF RoundsInv
<1>5. QED
  BY <1>2, <1>3, <1>4

LEMMA TopAhead ==
  ASSUME Inv, RoundsInv, frames # << >>
  PROVE  /\ Ahead(Top)
         /\ \A f : /\ f.node = Top.node /\ f.pos = Top.pos
                   /\ f.at = Top.at /\ f.stage = Top.stage /\ f.current = Top.current
                   /\ f.stage = "more" /\ f.open => Top.open \/ f.current # {}
                   => Ahead(f)
<1>1. Ahead(Top)
  BY TopFacts DEF RoundsInv, Top
<1>2. QED
  BY <1>1 DEF Ahead

(* The second phase begins no earlier than the repetition.                 *)
LEMMA BeyondAhead ==
  ASSUME Inv, ExactInv, Forward, pc = "run", Kind(Top.node) = "repeat", Top.stage = "exact"
  PROVE  Ahead(Beyond(Top))
<1> DEFINE n == Top.node
           b == Parts(n)[1]
<1>1. /\ frames # << >> /\ Top \in FrameSet /\ Top.node \in Nodes /\ Top.pos \in Pos
      /\ Top.at \in Nat /\ Sound(Sem[input], Top, Top.reached) /\ input \in Inputs
  BY RunContext DEF FrameSet, Inv, TypeOK
<1>2. Top.current = Reach(Again(Sem[input][b]), Top.at, Top.pos)
  BY <1>1 DEF Sound, RepeatSound, ExactSound
<1>3. b \in Nodes
  BY <1>1, RepeatFacts
<1>4. \A q \in Top.current : Top.pos <= q
  <2> HIDE DEF b
  <2> QED BY <1>1, <1>2, <1>3, AgainForward
<1>5. /\ Beyond(Top).node = Top.node /\ Beyond(Top).pos = Top.pos /\ Beyond(Top).at = 0
      /\ Beyond(Top).current = Top.current /\ ~Beyond(Top).open
  BY <1>1 DEF FrameSet, Beyond
<1>6. Top.pos + 0 = Top.pos /\ 0 <= MaxPos + 1
  BY <1>1, RecognizerAssumption DEF Pos
<1> HIDE DEF n, b
<1>7. QED
  BY <1>4, <1>5, <1>6 DEF Ahead

LEMMA ExactRoundAhead ==
  ASSUME Inv, ExactInv, Forward, RoundsInv, EndExactRound
  PROVE  RoundsInv'
<1> DEFINE b == Sem[input][Parts(Top.node)[1]]
<1>1. /\ pc = "run" /\ frames # << >> /\ Top \in FrameSet /\ Kind(Top.node) = "repeat"
      /\ Top.node \in Nodes /\ Top.pos \in Pos /\ Top.at \in Nat
      /\ Top.stage = "exact" /\ Top.open /\ Top.todo = {}
      /\ Top.current = Reach(Again(b), Top.at, Top.pos)
      /\ Top.reached = Ends(b, Top.current \ {})
      /\ Top.reached \in SUBSET Pos /\ Top.current \in SUBSET Pos
  BY RepeatContext DEF EndExactRound, ExactSound, FrameSet
<1>2. /\ b \in [Pos -> SUBSET Pos]
      /\ \A s \in Pos : \A t \in b[s] : s <= t
  <2>1. Parts(Top.node)[1] \in Nodes /\ input \in Inputs
    BY <1>1, RepeatFacts DEF Inv, TypeOK
  <2>2. QED
    BY <1>1, <2>1, RepeatFacts DEF Forward
<1> HIDE DEF b
<1>3. Top.reached = Reach(Again(b), Top.at + 1, Top.pos)
  BY <1>1, <1>2, EndsAll, AgainStep
<1>4. CASE Top.reached = {}
  BY <1>1, <1>4, StackAhead DEF EndExactRound, Leave
<1>5. CASE Top.reached # {} /\ Settled(Top)
  <2>1. frames' = SetTop(Beyond(Top)) /\ Ahead(Beyond(Top))
    BY <1>1, <1>5, BeyondAhead DEF EndExactRound
  <2>2. QED
    BY <1>1, <2>1, StackAhead
<1>6. CASE Top.reached # {} /\ ~Settled(Top)
  <2> DEFINE f == [Top EXCEPT !.at = @ + 1, !.open = FALSE, !.current = Top.reached]
  <2>1. f.node = Top.node /\ f.at = Top.at + 1 /\ f.stage = "exact"
    BY <1>1 DEF FrameSet
  <2>2. frames' = SetTop(f)
    BY <1>6 DEF EndExactRound
  <2> HIDE DEF f
  <2>3. PICK q \in Pos : ~(q \in Top.current <=> q \in Top.reached)
    BY <1>1, <1>6 DEF Settled
  <2>4. Top.pos + Top.at <= q
    BY <1>1, <1>2, <1>3, <2>3, SettlesFromTheLeft
  <2>5. Top.at + 1 <= MaxPos + 1
    BY <1>1, <2>4, RecognizerAssumption DEF Pos
  <2>6. Ahead(f)
    BY <2>1, <2>5 DEF Ahead
  <2>7. QED
    BY <1>1, <2>2, <2>6, StackAhead
<1>7. QED
  BY <1>4, <1>5, <1>6

LEMMA MoreRoundAhead ==
  ASSUME Inv, ExactInv, Forward, RoundsInv, EndMoreRound
  PROVE  RoundsInv'
<1> DEFINE b == Sem[input][Parts(Top.node)[1]]
           f == [Top EXCEPT !.at = @ + 1, !.open = FALSE,
                            !.current = Top.reached \ Top.result,
                            !.result = @ \cup Top.reached]
<1>1. /\ pc = "run" /\ frames # << >> /\ Top \in FrameSet /\ Kind(Top.node) = "repeat"
      /\ Top.node \in Nodes /\ Top.pos \in Pos /\ Top.at \in Nat
      /\ Top.stage = "more" /\ Top.open /\ Top.todo = {}
      /\ Top.current \subseteq Top.result
      /\ Top.reached = Ends(b, Top.current \ {})
      /\ Top.reached \in SUBSET Pos /\ Top.current \in SUBSET Pos
  BY RepeatContext DEF EndMoreRound, MoreSound, FrameSet
<1>2. \A s \in Pos : \A t \in b[s] : s <= t
  <2>1. Parts(Top.node)[1] \in Nodes /\ input \in Inputs
    BY <1>1, RepeatFacts DEF Inv, TypeOK
  <2>2. QED
    BY <2>1 DEF Forward
<1>3. /\ f.node = Top.node /\ f.pos = Top.pos /\ f.at = Top.at + 1
      /\ f.current = Top.reached \ Top.result /\ ~f.open
  BY <1>1 DEF FrameSet
<1>4. frames' = SetTop(f)
  BY DEF EndMoreRound
<1> HIDE DEF f, b
<1>5. Ahead(Top)
  BY <1>1, TopAhead
<1>6. \A q \in Top.current : Top.pos + Top.at <= q
  BY <1>1, <1>5 DEF Ahead
<1>7. \A q \in f.current : Top.pos + (Top.at + 1) <= q
  <2> TAKE q \in f.current
  <2>1. PICK s \in Top.current : q \in b[s]
    BY <1>1, <1>3 DEF Ends
  <2>2. s # q /\ s \in Pos /\ q \in Pos
    BY <1>1, <1>3, <2>1
  <2>3. s <= q /\ Top.pos + Top.at <= s
    BY <1>2, <1>6, <2>1, <2>2
  <2>4. QED
    BY <1>1, <2>2, <2>3 DEF Pos
<1>8. Top.at + 1 <= MaxPos + 1
  <2>1. PICK s \in Top.current : Top.pos + Top.at <= s
    BY <1>1, <1>5, <1>6 DEF Ahead
  <2>2. s \in Pos
    BY <1>1, <2>1
  <2>3. QED
    BY <1>1, <2>1, <2>2, RecognizerAssumption DEF Pos
<1>9. Ahead(f)
  BY <1>3, <1>7, <1>8 DEF Ahead
<1>10. QED
  BY <1>1, <1>4, <1>9, StackAhead

LEMMA RoundsStep ==
  ASSUME Inv, ExactInv, Forward, RoundsInv, [Next]_vars
  PROVE  RoundsInv'
<1>1. ASSUME frames' = frames PROVE RoundsInv'
  BY <1>1, StackAhead
<1>2. ASSUME frames # << >>, NEW f, frames' = SetTop(f), Ahead(f) PROVE RoundsInv'
  BY <1>2, StackAhead
<1>3. ASSUME frames # << >>, NEW E, Leave(E) PROVE RoundsInv'
  BY <1>3, StackAhead DEF Leave
<1>4. CASE UNCHANGED vars
  BY <1>1, <1>4 DEF vars
<1>5. CASE WithOptions \/ WithoutMemoization \/ RefuseDepth \/ MatchTerminal \/ RefKnown \/ Answer
  BY <1>1, <1>5 DEF WithOptions, WithoutMemoization, RefuseDepth, MatchTerminal, RefKnown, Answer
<1>6. ASSUME NEW r \in Rules, NEW s \in Starts, EndPositions(r, s) PROVE RoundsInv'
  BY <1>1, <1>6 DEF EndPositions
<1>7. CASE MatchComposite \/ RefUnknown
  <2>1. pc = "enter" /\ PushFrame
        /\ Kind(arg.node) \in {"alt", "concat", "repeat", "optional", "ref"}
    BY <1>7 DEF MatchComposite, RefUnknown, Enter
  <2>2. /\ Len(frames') = Len(frames) + 1
        /\ frames'[Len(frames) + 1] = Frame(arg.node, arg.pos)
        /\ \A i \in 1 .. Len(frames) : frames'[i] = frames[i]
    BY <2>1, PushFacts
  <2>3. Ahead(Frame(arg.node, arg.pos)) /\ Len(frames) \in Nat
    BY RecognizerAssumption DEF Ahead, Frame, Inv, StackShape
  <2>4. \A i \in 1 .. Len(frames') : Ahead(frames'[i])
    BY <2>2, <2>3 DEF RoundsInv
  <2>5. QED
    BY <2>4 DEF RoundsInv
<1>8. CASE Advance
  <2>1. frames # << >> /\ Top \in FrameSet
    BY <1>8, TopFacts DEF Advance, Running, Inv, StackShape
  <2>2. PICK s \in Top.todo : Descend([Top EXCEPT !.start = s, !.todo = @ \ {s}])
    BY <1>8 DEF Advance
  <2> DEFINE f == [Top EXCEPT !.start = s, !.todo = @ \ {s}]
  <2>3. /\ f.node = Top.node /\ f.pos = Top.pos /\ f.at = Top.at /\ f.stage = Top.stage
        /\ f.current = Top.current /\ f.open = Top.open /\ frames' = SetTop(f)
    BY <2>1, <2>2 DEF FrameSet, Descend
  <2> HIDE DEF f
  <2>4. Ahead(f)
    BY <2>1, <2>3, TopAhead
  <2>5. QED
    BY <1>2, <2>1, <2>3, <2>4
<1>9. CASE RunAlt \/ RunConcat \/ RunOptional \/ RunRef
  <2>1. /\ frames # << >> /\ Top \in FrameSet
        /\ Kind(Top.node) \in {"alt", "concat", "optional", "ref"}
    BY <1>9, TopFacts DEF RunAlt, RunConcat, RunOptional, RunRef, Running, Inv, StackShape
  <2>2. ASSUME NEW f, f.node = Top.node, frames' = SetTop(f) PROVE RoundsInv'
    BY <1>2, <2>1, <2>2 DEF Ahead
  <2>3. CASE RunAlt
    <3>1. (\E E : Leave(E)) \/ \E f : f.node = Top.node /\ frames' = SetTop(f)
      BY <2>1, <2>3 DEF RunAlt, Descend, FrameSet
    <3>2. QED
      BY <1>3, <2>1, <2>2, <3>1
  <2>4. CASE RunConcat
    <3>1. (\E E : Leave(E)) \/ \E f : f.node = Top.node /\ frames' = SetTop(f)
      BY <2>1, <2>4 DEF RunConcat, FrameSet
    <3>2. QED
      BY <1>3, <2>1, <2>2, <3>1
  <2>5. CASE RunOptional
    <3>1. (\E E : Leave(E)) \/ \E f : f.node = Top.node /\ frames' = SetTop(f)
      BY <2>1, <2>5 DEF RunOptional, Descend, FrameSet
    <3>2. QED
      BY <1>3, <2>1, <2>2, <3>1
  <2>6. CASE RunRef
    <3>1. \/ frames' = frames
          \/ \E E : Leave(E)
          \/ \E f : f.node = Top.node /\ frames' = SetTop(f)
      BY <2>1, <2>6 DEF RunRef, Descend, Step, FrameSet
    <3>2. QED
      BY <1>1, <1>3, <2>1, <2>2, <3>1
  <2>7. QED
    BY <1>9, <2>3, <2>4, <2>5, <2>6
<1>10. CASE BeginRound
  <2> DEFINE f == [Top EXCEPT !.open = TRUE, !.todo = Top.current, !.reached = {}]
  <2>1. frames # << >> /\ Top \in FrameSet /\ Step(f) /\ MoreRounds(Top)
    BY <1>10, RepeatContext DEF BeginRound
  <2>2. /\ f.node = Top.node /\ f.pos = Top.pos /\ f.at = Top.at /\ f.stage = Top.stage
        /\ f.current = Top.current
    BY <2>1 DEF FrameSet
  <2> HIDE DEF f
  <2>3. Top.stage = "more" => Top.current # {}
    BY <2>1 DEF MoreRounds
  <2>4. Ahead(f)
    BY <2>1, <2>2, <2>3, TopAhead
  <2>5. frames' = frames \/ frames' = SetTop(f)
    BY <2>1 DEF Step
  <2>6. QED
    BY <1>1, <1>2, <2>1, <2>4, <2>5
<1>11. CASE EndStage
  <2>1. frames # << >> /\ pc = "run" /\ Kind(Top.node) = "repeat"
    BY <1>11, RepeatContext
  <2>2. CASE Top.stage = "exact"
    <3>1. frames' = SetTop(Beyond(Top)) /\ Ahead(Beyond(Top))
      BY <1>11, <2>1, <2>2, BeyondAhead DEF EndStage
    <3>2. QED
      BY <1>2, <2>1, <3>1
  <2>3. CASE Top.stage # "exact"
    BY <1>3, <1>11, <2>1, <2>3 DEF EndStage
  <2>4. QED
    BY <2>2, <2>3
<1>12. CASE EndExactRound \/ EndMoreRound
  BY <1>12, ExactRoundAhead, MoreRoundAhead
<1>13. CASE Resume
  <2> DEFINE f == [Top EXCEPT !.reached = @ \cup ret.ends]
  <2>1. frames # << >> /\ Top \in FrameSet /\ frames' = SetTop(f)
    BY <1>13, TopFacts DEF Resume
  <2>2. /\ f.node = Top.node /\ f.pos = Top.pos /\ f.at = Top.at /\ f.stage = Top.stage
        /\ f.current = Top.current /\ f.open = Top.open
    BY <2>1 DEF FrameSet
  <2> HIDE DEF f
  <2>3. Ahead(f)
    BY <2>1, <2>2, TopAhead
  <2>4. QED
    BY <1>2, <2>1, <2>3
<1>14. CASE Unwind
  BY <1>14, StackAhead DEF Unwind
<1>15. QED
  BY <1>4, <1>5, <1>6, <1>7, <1>8, <1>9, <1>10, <1>11, <1>12, <1>13, <1>14
     DEF Next, Client, Walk

(* However large its bounds, a repetition takes about as many rounds as    *)
(* there are positions (match_repeat): nothing changes any more within the *)
(* minimum, and beyond it no frontier is left.                             *)
THEOREM RoundsAreBounded == Meanings /\ NoLeftRecursion /\ Spec => []RoundsBounded
<1> DEFINE J == Steady /\ RoundsInv
<1>1. Steady /\ Init => J
  BY DEF Init, RoundsInv
<1>2. Kept /\ J /\ [Next]_vars => J'
  <2> SUFFICES ASSUME Kept, Steady, RoundsInv, [Next]_vars PROVE Steady' /\ RoundsInv'
    OBVIOUS
  <2>1. Steady'
    BY DEF Steady, Meanings, NoLeftRecursion
  <2>2. Forward
    BY ForwardHolds DEF Steady
  <2>3. QED
    BY <2>1, <2>2, RoundsStep DEF Kept
<1>3. J => RoundsBounded
  BY DEF RoundsInv, RoundsBounded, Ahead
<1>4. QED
  BY <1>1, <1>2, <1>3, KeptAlways, PTL DEF Spec, Steady
=============================================================================
