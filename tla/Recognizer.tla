----------------------------- MODULE Recognizer -----------------------------
(***************************************************************************)
(* The recognizer of src/recognize.rs: one value bound to one grammar and  *)
(* one input, asked any number of questions, each of which walks the       *)
(* grammar with an explicit call stack here and Rust's there.  The memo    *)
(* table and the step counter outlive a question, a limit may cut one      *)
(* short at any depth, and the caller may change the limits and ask again. *)
(*                                                                         *)
(* One frame is one activation of match_node.  `pc` says what happens      *)
(* next: "enter" a call to match_node(arg), "run" the innermost frame,     *)
(* "return" `ret` to it, or "idle" between questions.                      *)
(***************************************************************************)
EXTENDS Language

CONSTANTS
  Inputs,        \* The inputs a recognizer may be bound to.
  OptionSets,    \* The MatchOptions the caller may set.
  Recognizable,  \* The rules that pass can_recognize.
  Clean,         \* The nodes from which no prose value can be reached.
  Starts,        \* The start positions the caller asks about.
  Sem,           \* What the grammar means on each input.
  MaxCalls       \* Bound: the number of questions.

ASSUME RecognizerAssumption ==
  /\ \A i \in Inputs : i \in Seq(Scalars) /\ Len(i) <= MaxPos
  /\ MaxPos \in Nat /\ MaxCalls \in Nat
  /\ Starts \subseteq Pos
  /\ OptionSets \subseteq [max_steps : Nat \cup {None}, max_depth : Nat \cup {None}]
  /\ Sem \in [Inputs -> [Nodes -> [Pos -> SUBSET Pos]]]
  /\ Clean \subseteq Nodes
  /\ \A n \in Clean : Kind(n) # "prose" /\ Reachable(n) \subseteq Clean
  /\ Recognizable \subseteq Rules /\ \A r \in Recognizable : Body[r] \in Clean
  /\ None \notin [rule : Rules, start : Pos]

VARIABLES
  input,     \* What the recognizer is bound to.
  options,   \* Its limits.
  memoize,   \* Whether it uses its memo table.
  memo,      \* What is known of each (rule, position).
  steps,     \* How many steps it has ever taken.
  depth,     \* How deep the walk is, as the code counts it.
  frames,    \* The activations of match_node, outermost first.
  pc,        \* What happens next.
  arg,       \* The call about to be made.
  ret,       \* The result last returned.
  query,     \* The question being answered, or last answered.
  calls      \* How many questions were asked.

bound == <<input, options, memoize>>
vars == <<input, options, memoize, memo, steps, depth, frames, pc, arg, ret, query, calls>>

-----------------------------------------------------------------------------
Key == Rules \X Pos

Absent     == [tag |-> "absent", ends |-> {}]
InProgress == [tag |-> "in_progress", ends |-> {}]
Done(E)    == [tag |-> "done", ends |-> E]

(* An activation of match_node(node, pos).                                 *)
(*   at       branches or items entered; repetitions of this stage made    *)
(*   stage    of a repetition: "exact" up to the minimum, "more" beyond    *)
(*   open     whether a round of `advance` is under way                    *)
(*   current  the positions the round starts from; between two rounds of   *)
(*            a repetition, the ones it got to (the frontier)              *)
(*   todo     those of them not begun yet                                  *)
(*   start    the one being matched now                                    *)
(*   reached  the ends collected so far                                    *)
(*   result   what a repetition past its minimum answers with              *)
Frame(n, p) ==
  [node |-> n, pos |-> p, at |-> 0, stage |-> "exact", open |-> FALSE,
   current |-> {p}, todo |-> {}, start |-> p,
   reached |-> IF Kind(n) = "concat" THEN {p} ELSE {},
   result |-> {}]

Top == frames[Len(frames)]
Below == SubSeq(frames, 1, Len(frames) - 1)
SetTop(f) == [frames EXCEPT ![Len(frames)] = f]

KeyOf(f) == <<NodeOf[f.node].target, f.pos>>

(* Where a frame's next call goes: match_node(Callee(f), f.start).         *)
Callee(f) ==
  CASE Kind(f.node) \in {"alt", "concat"}      -> Parts(f.node)[f.at]
    [] Kind(f.node) \in {"repeat", "optional"} -> Parts(f.node)[1]
    [] Kind(f.node) = "ref"                    -> Body[NodeOf[f.node].target]

-----------------------------------------------------------------------------
Init ==
  /\ input \in Inputs
  /\ options \in OptionSets
  /\ memoize \in BOOLEAN
  /\ memo = [k \in Key |-> Absent]
  /\ steps = 0
  /\ depth = 0
  /\ frames = << >>
  /\ pc = "idle"
  /\ arg = None
  /\ ret = Ok({})
  /\ query = None
  /\ calls = 0

(* Between questions the caller may replace the limits, or turn the memo   *)
(* table off; what the table already knows stays in it.                    *)
WithOptions ==
  /\ pc = "idle"
  /\ \E o \in OptionSets \ {options} : options' = o
  /\ UNCHANGED <<input, memoize, memo, steps, depth, frames, pc, arg, ret, query, calls>>

WithoutMemoization ==
  /\ pc = "idle" /\ memoize
  /\ memoize' = FALSE
  /\ UNCHANGED <<input, options, memo, steps, depth, frames, pc, arg, ret, query, calls>>

Call(n, p) == pc' = "enter" /\ arg' = [node |-> n, pos |-> p]

Return(r) == pc' = "return" /\ ret' = r

(* CheckedGrammar::can_recognize.                                          *)
GateByName(r) == r \in Rules   \* variant: any rule there is
Gate(r) == r \in Recognizable

(* A question.  A rule that can reach prose is refused unread; the body of *)
(* the rule asked about is walked directly, past the memo table.           *)
EndPositions(r, s) ==
  /\ pc = "idle" /\ calls < MaxCalls
  /\ calls' = calls + 1
  /\ query' = [rule |-> r, start |-> s]
  /\ IF Gate(r)
     THEN Call(Body[r], s) /\ UNCHANGED ret
     ELSE ret' = Err("Refused") /\ UNCHANGED <<pc, arg>>
  /\ UNCHANGED <<bound, memo, steps, depth, frames>>

-----------------------------------------------------------------------------
(* match_node: the depth limit, then what kind of node it is.              *)

TooDeep == options.max_depth # None /\ depth + 1 > options.max_depth

Enter(kinds) == pc = "enter" /\ ~TooDeep /\ Kind(arg.node) \in kinds

\* Variant: the early return takes back a level it never counted.
RefuseDepthUncounted ==
  /\ pc = "enter" /\ TooDeep
  /\ Return(Err("DepthLimit"))
  /\ depth' = depth - 1
  /\ UNCHANGED <<bound, memo, steps, frames, arg, query, calls>>

RefuseDepth ==
  /\ pc = "enter" /\ TooDeep
  /\ Return(Err("DepthLimit"))
  /\ UNCHANGED <<bound, memo, steps, depth, frames, arg, query, calls>>

MatchTerminal ==
  /\ Enter({"char", "num", "prose"})
  /\ Return(Ok(TerminalEnds(arg.node, input, arg.pos)))
  /\ UNCHANGED <<bound, memo, steps, depth, frames, arg, query, calls>>

PushFrame ==
  /\ frames' = Append(frames, Frame(arg.node, arg.pos))
  /\ depth' = depth + 1
  /\ pc' = "run"

MatchComposite ==
  /\ Enter({"alt", "concat", "repeat", "optional"})
  /\ PushFrame
  /\ UNCHANGED <<bound, memo, steps, arg, ret, query, calls>>

RefKey == <<NodeOf[arg.node].target, arg.pos>>

(* A reference whose answer is known, or is being worked out right now.    *)
RefKnown ==
  /\ Enter({"ref"}) /\ memoize /\ memo[RefKey] # Absent
  /\ Return(IF memo[RefKey] = InProgress
            THEN Err("LeftRecursionDetected")
            ELSE Ok(memo[RefKey].ends))
  /\ UNCHANGED <<bound, memo, steps, depth, frames, arg, query, calls>>

RefUnknown ==
  /\ Enter({"ref"}) /\ (memoize => memo[RefKey] = Absent)
  /\ memo' = IF memoize THEN [memo EXCEPT ![RefKey] = InProgress] ELSE memo
  /\ PushFrame
  /\ UNCHANGED <<bound, steps, arg, ret, query, calls>>

-----------------------------------------------------------------------------
(* What the innermost frame does next.                                     *)

Running(kinds) == pc = "run" /\ Kind(Top.node) \in kinds

(* The frame answers and is gone.  A reference remembers its answer.       *)
Leave(E) ==
  /\ frames' = Below
  /\ depth' = depth - 1
  /\ Return(Ok(E))
  /\ memo' = IF Kind(Top.node) = "ref" /\ memoize
             THEN [memo EXCEPT ![KeyOf(Top)] = Done(E)]
             ELSE memo

(* Continue with `f` in place of the top frame, calling into its callee.   *)
Descend(f) == frames' = SetTop(f) /\ Call(Callee(f), f.start)

(* Counts one step; over the limit, the error goes out through the frames. *)
Step(f) ==
  /\ steps' = steps + 1
  /\ IF options.max_steps # None /\ steps + 1 > options.max_steps
     THEN Return(Err("StepLimit")) /\ UNCHANGED <<frames, arg>>
     ELSE frames' = SetTop(f) /\ UNCHANGED <<pc, arg, ret>>

(* The next start position of a round, lowest first.                       *)
Advance ==
  /\ Running({"concat", "repeat"}) /\ Top.open
  /\ \E s \in Top.todo :
       /\ \A t \in Top.todo : s <= t
       /\ Descend([Top EXCEPT !.start = s, !.todo = @ \ {s}])
  /\ UNCHANGED <<bound, memo, steps, depth, ret, query, calls>>

RunAlt ==
  /\ Running({"alt"})
  /\ IF Top.at < Len(Parts(Top.node))
     THEN Descend([Top EXCEPT !.at = @ + 1]) /\ UNCHANGED <<memo, depth, ret>>
     ELSE Leave(Top.reached) /\ UNCHANGED arg
  /\ UNCHANGED <<bound, steps, query, calls>>

(* The positions after one item are where the next one starts.  None left  *)
(* ends the concatenation early.                                           *)
RunConcat ==
  /\ Running({"concat"}) /\ Top.todo = {}
  /\ IF Top.at < Len(Parts(Top.node)) /\ Top.reached # {}
     THEN /\ frames' = SetTop([Top EXCEPT !.at = @ + 1, !.open = TRUE,
                                 !.current = Top.reached,
                                 !.todo = Top.reached, !.reached = {}])
          /\ UNCHANGED <<memo, depth, pc, arg, ret>>
     ELSE Leave(Top.reached) /\ UNCHANGED arg
  /\ UNCHANGED <<bound, steps, query, calls>>

RunOptional ==
  /\ Running({"optional"})
  /\ IF Top.at = 0
     THEN Descend([Top EXCEPT !.at = 1]) /\ UNCHANGED <<memo, depth, ret>>
     ELSE Leave(Top.reached \cup {Top.pos}) /\ UNCHANGED arg
  /\ UNCHANGED <<bound, steps, query, calls>>

(* A rule body costs one step, taken once the marker is in the memo table. *)
RunRef ==
  /\ Running({"ref"})
  /\ IF Top.open THEN Descend([Top EXCEPT !.at = 1, !.open = FALSE])
                      /\ UNCHANGED <<memo, steps, depth, ret>>
     ELSE IF Top.at = 0 THEN Step([Top EXCEPT !.open = TRUE]) /\ UNCHANGED <<memo, depth>>
     ELSE Leave(Top.reached) /\ UNCHANGED <<steps, arg>>
  /\ UNCHANGED <<bound, query, calls>>

-----------------------------------------------------------------------------
(* match_repeat: rounds of `advance`, one step each.                       *)

Rep(f) == NodeOf[f.node]

(* `for _ in 0..min`, then as long as the maximum allows and the frontier  *)
(* holds anything.  The code counts the allowance down from max - min.     *)
MoreRoundsShort(f) ==   \* variant: the round at the minimum counts as an extra
  IF f.stage = "exact"
  THEN f.at < Rep(f).min
  ELSE /\ Rep(f).max # None => f.at + 1 < Rep(f).max - Rep(f).min
       /\ f.current # {}

MoreRounds(f) ==
  IF f.stage = "exact"
  THEN f.at < Rep(f).min
  ELSE /\ Rep(f).max # None => f.at < Rep(f).max - Rep(f).min
       /\ f.current # {}

(* The end of phase 1: `result` and the frontier are what it got to.       *)
Beyond(f) ==
  [f EXCEPT !.stage = "more", !.at = 0, !.open = FALSE, !.result = f.current]

(* The exact fixpoint that ends phase 1 early.                             *)
SettledBySubset(f) == f.reached \subseteq f.current   \* variant: nothing new
SettledNever(f) == FALSE                              \* variant: count it out
Settled(f) == f.reached = f.current

BeginRound ==
  /\ Running({"repeat"}) /\ ~Top.open /\ MoreRounds(Top)
  /\ Step([Top EXCEPT !.open = TRUE, !.todo = Top.current, !.reached = {}])
  /\ UNCHANGED <<bound, memo, depth, query, calls>>

EndStage ==
  /\ Running({"repeat"}) /\ ~Top.open /\ ~MoreRounds(Top)
  /\ IF Top.stage = "exact"
     THEN frames' = SetTop(Beyond(Top)) /\ UNCHANGED <<memo, depth, pc, ret>>
     ELSE Leave(Top.result)
  /\ UNCHANGED <<bound, steps, arg, query, calls>>

\* Variant: a round that reached nothing is tried again.
EndExactRoundAgain ==
  /\ Running({"repeat"}) /\ Top.open /\ Top.todo = {} /\ Top.stage = "exact"
  /\ frames' = SetTop(IF Top.reached = {} THEN [Top EXCEPT !.todo = Top.current]
                      ELSE IF Settled(Top) THEN Beyond(Top)
                      ELSE [Top EXCEPT !.at = @ + 1, !.open = FALSE,
                                       !.current = Top.reached])
  /\ UNCHANGED <<bound, memo, steps, depth, pc, arg, ret, query, calls>>

(* A round of phase 1 is over.  Nothing reached is no match; reaching just *)
(* what it started from means that every later round would, too.           *)
EndExactRound ==
  /\ Running({"repeat"}) /\ Top.open /\ Top.todo = {} /\ Top.stage = "exact"
  /\ IF Top.reached = {}
     THEN Leave({})
     ELSE /\ frames' = SetTop(IF Settled(Top)
                              THEN Beyond(Top)
                              ELSE [Top EXCEPT !.at = @ + 1, !.open = FALSE,
                                               !.current = Top.reached])
          /\ UNCHANGED <<memo, depth, pc, ret>>
  /\ UNCHANGED <<bound, steps, arg, query, calls>>

(* A round of phase 2 is over.  Only what is new is the next frontier.     *)
EndMoreRound ==
  /\ Running({"repeat"}) /\ Top.open /\ Top.todo = {} /\ Top.stage = "more"
  /\ frames' = SetTop([Top EXCEPT !.at = @ + 1, !.open = FALSE,
                         !.current = Top.reached \ Top.result,
                         !.result = @ \cup Top.reached])
  /\ UNCHANGED <<bound, memo, steps, depth, pc, arg, ret, query, calls>>

-----------------------------------------------------------------------------
(* What a returned result does to the frame it is returned to.             *)

Resume ==
  /\ pc = "return" /\ frames # << >> /\ ret.tag = "ok"
  /\ frames' = SetTop([Top EXCEPT !.reached = @ \cup ret.ends])
  /\ pc' = "run"
  /\ UNCHANGED <<bound, memo, steps, depth, arg, ret, query, calls>>

(* What a reference does to the memo table when an error goes through it.  *)
ForgetNothing == memo                                      \* variant: the marker stays
ForgetAll == [k \in Key |-> Absent]                        \* variant: the table is cleared
ForgetHalf == [memo EXCEPT ![KeyOf(Top)] = Done(Top.reached)]  \* variant: ends so far
Forget == [memo EXCEPT ![KeyOf(Top)] = Absent]

\* Variant: `?` leaves before the depth is taken back.
UnwindDeep ==
  /\ pc = "return" /\ frames # << >> /\ ret.tag = "err"
  /\ memo' = IF Kind(Top.node) = "ref" /\ memoize THEN Forget ELSE memo
  /\ frames' = Below
  /\ UNCHANGED <<bound, steps, depth, pc, arg, ret, query, calls>>

(* An error leaves through every frame, and the ones that put a marker in  *)
(* the memo table take it out again.                                       *)
Unwind ==
  /\ pc = "return" /\ frames # << >> /\ ret.tag = "err"
  /\ memo' = IF Kind(Top.node) = "ref" /\ memoize THEN Forget ELSE memo
  /\ frames' = Below
  /\ depth' = depth - 1
  /\ UNCHANGED <<bound, steps, pc, arg, ret, query, calls>>

Answer ==
  /\ pc = "return" /\ frames = << >>
  /\ pc' = "idle"
  /\ UNCHANGED <<bound, memo, steps, depth, frames, arg, ret, query, calls>>

-----------------------------------------------------------------------------
Client == WithOptions \/ WithoutMemoization \/ \E r \in Rules, s \in Starts : EndPositions(r, s)

Walk ==
  \/ RefuseDepth \/ MatchTerminal \/ MatchComposite \/ RefKnown \/ RefUnknown
  \/ Advance \/ RunAlt \/ RunConcat \/ RunOptional \/ RunRef
  \/ BeginRound \/ EndStage \/ EndExactRound \/ EndMoreRound
  \/ Resume \/ Unwind \/ Answer

Next == Client \/ Walk

(* The caller asks when it likes; a call once begun runs.                  *)
Spec == Init /\ [][Next]_vars /\ WF_vars(Walk)

-----------------------------------------------------------------------------
(* What is checked.                                                        *)

FrameSet ==
  [node : Nodes, pos : Pos, at : Nat, stage : {"exact", "more"}, open : BOOLEAN,
   current : SUBSET Pos, todo : SUBSET Pos, start : Pos,
   reached : SUBSET Pos, result : SUBSET Pos]

Entries ==
  [tag : {"absent", "in_progress"}, ends : {{}}] \cup [tag : {"done"}, ends : SUBSET Pos]

(* Left recursion, as what is matched first: where a walk can go from `n`  *)
(* with nothing matched on the way.  The graph that `check` searches for   *)
(* cycles has these edges, from rule to rule.                              *)
Skips(n) == \E text \in Inputs, p \in Pos : p \in Sem[text][n][p]

Foremost(n) ==
  IF Kind(n) = "concat"
  THEN {Parts(n)[i] : i \in {i \in 1 .. Len(Parts(n)) :
                               \A j \in 1 .. i - 1 : Skips(Parts(n)[j])}}
  ELSE Reachable(n)

(* Every variable stays in its range: an end is never past the input.      *)
TypeOK ==
  /\ input \in Inputs /\ options \in OptionSets /\ memoize \in BOOLEAN
  /\ memo \in [Key -> Entries]
  /\ steps \in Nat /\ depth \in Nat /\ calls \in Nat
  /\ frames \in Seq(FrameSet)
  /\ pc \in {"idle", "enter", "run", "return"}
  /\ arg \in [node : Nodes, pos : Pos] \cup {None}
  /\ ret \in Results
  /\ query \in [rule : Rules, start : Pos] \cup {None}

(* An answer is exactly what the grammar means, however the loops of       *)
(* match_repeat and match_node came by it, with the memo table or without, *)
(* and whatever questions, limits and failures went before.                *)
AnswersExact ==
  pc = "idle" /\ query # None /\ ret.tag = "ok" =>
    ret.ends = Sem[input][Body[query.rule]][query.start]

(* A finished memo entry holds all the ends of its rule at its position,   *)
(* never the ends found before a limit cut the evaluation short.           *)
MemoExact ==
  \A k \in Key : memo[k].tag = "done" => memo[k].ends = Sem[input][Body[k[1]]][k[2]]

(* The in-progress markers are those of the reference frames on the stack. *)
(* One left behind by an error would be read as left recursion later.      *)
MarkersAreOpenCalls ==
  {k \in Key : memo[k] = InProgress} =
    {KeyOf(frames[i]) : i \in {j \in 1 .. Len(frames) :
                                 memoize /\ Kind(frames[j].node) = "ref"}}

(* The depth the limit is compared with is how many activations of         *)
(* match_node there are, through every early return.                       *)
DepthIsNesting ==
  /\ depth = Len(frames)
  /\ options.max_depth # None => depth <= options.max_depth \/ pc = "idle"

(* What goes wrong in a walk is a limit the caller set, and only that: a   *)
(* grammar that passed `check` is never reported left-recursive, so asking *)
(* again without the limit gets the answer.                                *)
RefusalsAreLimits ==
  pc = "return" /\ ret.tag = "err" =>
    \/ /\ ret.error = "StepLimit"
       /\ options.max_steps # None /\ steps > options.max_steps
    \/ ret.error = "DepthLimit" /\ options.max_depth # None

(* The start-rule gate and the walk agree: no prose value is ever matched. *)
ProseNeverMatched == pc = "enter" => Kind(arg.node) # "prose"

(* However large its bounds, a repetition stops after about as many rounds *)
(* as there are positions: an exact fixpoint ends phase 1 and an empty     *)
(* frontier phase 2.                                                       *)
RoundsBounded ==
  \A i \in 1 .. Len(frames) :
    Kind(frames[i].node) = "repeat" => frames[i].at <= MaxPos + 1

(* What the memo table has finished is never taken back or redone.         *)
MemoKept == [][\A k \in Key : memo[k].tag = "done" => memo'[k] = memo[k]]_vars

(* Every question is answered, with ends or with an error: no recursion of *)
(* the rules and no nullable body of a repetition keeps the walk going.    *)
EveryQuestionAnswered == (pc # "idle") ~> (pc = "idle")

(* Seen from outside a recognizer is an Oracle: its memo table, its stack  *)
(* and its counters change nothing about what it may answer.               *)
Seen == INSTANCE Oracle WITH
          asking <- pc # "idle",
          reply  <- IF pc = "idle" /\ query # None THEN ret ELSE None

ImplementsOracle == Seen!Spec
=============================================================================
