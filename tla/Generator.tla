------------------------------ MODULE Generator ------------------------------
(***************************************************************************)
(* The generator of src/generate.rs: a walk over the arena that emits a    *)
(* string, steered at random or, in coverage mode, towards the branches no *)
(* successful call has taken yet.  The tables the checker left behind say  *)
(* which nodes can produce a string and what their shortest derivation     *)
(* does.                                                                   *)
(*                                                                         *)
(* Rust recurses; here `todo` is what is left to walk, the next node first.*)
(* Every draw of the random generator is a free choice.                    *)
(***************************************************************************)
EXTENDS Language, NumVal, FiniteSets

CONSTANTS
  Sessions,     \* Bound: [options, asked, calls]: what one caller may set and ask.
  MaxU64,       \* Bound: u64::MAX, the largest repetition count.
  Generatable,  \* The rules that pass can_generate.
  MinLen,       \* The length of each node's shortest match; None if it has none.
  Witness,      \* The branch each choice's shortest derivation takes.
  Accepts(_, _) \* Whether a rule matches the whole of a text.

Unreachable == None

(* The GenOptions callers set.                                             *)
OptionSets == UNION {s.options : s \in Sessions}

Productive == {n \in Nodes : MinLen[n] # None}

(* Branches are numbered from 1.  `[x]` is `x / empty`: 1 takes the body,  *)
(* 2 skips it.                                                             *)
ChoiceNodes == {n \in Nodes : Kind(n) \in {"alt", "optional"}}

(* A slip to catch: a branch that matches nothing is taken like any other. *)
UsableAny(n) == DOMAIN Parts(n) \cup (IF Kind(n) = "optional" THEN {2} ELSE {})

(* Never a branch that matches nothing, in any mode.                       *)
Usable(n) ==
  {i \in DOMAIN Parts(n) : Parts(n)[i] \in Productive}
    \cup (IF Kind(n) = "optional" THEN {2} ELSE {})

Units == UNION {{<<n, i>> : i \in Usable(n)} : n \in ChoiceNodes}

(* The generatable graph: where a walk can go.                             *)
Edges ==
  [n \in Nodes |->
     CASE Kind(n) \in {"alt", "optional"} ->
            {Parts(n)[i] : i \in Usable(n) \cap DOMAIN Parts(n)}
       [] OTHER -> Reachable(n)]

ASSUME GeneratorAssumption ==
  /\ OptionSets \subseteq [coverage : BOOLEAN, preserve_case : BOOLEAN,
                           max_depth : Nat, spread : 0 .. MaxU64,
                           max_output_len : Nat \cup {None}, max_steps : Nat \cup {None}]
  /\ IsFiniteSet(Nodes) /\ MaxU64 \in Nat /\ MaxPos \in Nat
  /\ MinLen \in [Nodes -> Nat \cup {None}]
  /\ \A n \in Productive :
       CASE Kind(n) = "alt"    -> Usable(n) # {}
         [] Kind(n) = "repeat" -> NodeOf[n].min > 0 => Successors(n) \subseteq Productive
         [] Kind(n) = "optional" -> TRUE
         [] OTHER -> Successors(n) \subseteq Productive
  /\ Generatable \subseteq Rules
  /\ \A s \in Sessions : s.asked \subseteq Rules /\ s.calls \in Nat

-----------------------------------------------------------------------------
VARIABLES
  options,    \* The options in force.
  covered,    \* The units some successful call took.
  pending,    \* The units the present call took.
  distance,   \* The table of distances to an uncovered unit.
  stale,      \* Whether it must be computed again before it is read.
  reachable,  \* The units reachable from each rule body asked about.
  steps,      \* The nodes visited in the present call.
  out,        \* The scalars emitted in the present call.
  todo,       \* What is left to walk, with the depth of each.
  start,      \* The rule of the present or last call.
  outcome,    \* "walking", or how the last call ended.
  calls       \* How many strings were asked for.

vars == <<options, covered, pending, distance, stale, reachable, steps, out, todo, start, outcome, calls>>

cover == <<covered, distance, stale, reachable>>

Idle == outcome # "walking"

Session == CHOOSE s \in Sessions : options \in s.options

Init ==
  /\ options \in OptionSets
  /\ covered = {} /\ pending = {}
  /\ distance = [n \in Nodes |-> Unreachable]
  /\ stale = TRUE
  /\ reachable = [n \in Nodes |-> None]
  /\ steps = 0 /\ out = << >> /\ todo = << >>
  /\ start = None
  /\ outcome = "none"
  /\ calls = 0

-----------------------------------------------------------------------------
(* Coverage.                                                               *)

(* Multi-source reverse breadth-first search from the uncovered units.     *)
Distances(C) ==
  LET Sources == {u[1] : u \in Units \ C}
      search[s \in Nat \X [Nodes -> Nat \cup {Unreachable}]] ==
        LET k == s[1]  D == s[2]
            Found == {n \in Nodes : /\ D[n] = Unreachable
                                    /\ \E m \in Edges[n] : D[m] = k}
        IN  IF Found = {} THEN D
            ELSE search[<<k + 1, [n \in Nodes |-> IF n \in Found THEN k + 1 ELSE D[n]]>>]
  IN  search[<<0, [n \in Nodes |-> IF n \in Sources THEN 0 ELSE Unreachable]>>]

Refreshed == IF stale THEN Distances(covered) ELSE distance

(* The units of the nodes reachable from a rule body.                      *)
ReachableUnits ==
  [body \in Nodes |->
     LET closure[S \in SUBSET Nodes] ==
           LET T == S \cup UNION {Edges[n] : n \in S}
           IN  IF T = S THEN S ELSE closure[T]
         Reached == closure[{body}]
     IN  {u \in Units : u[1] \in Reached}]

UncoveredFrom(r) == ReachableUnits[Body[r]] \ covered

-----------------------------------------------------------------------------
(* The selection rule.                                                     *)

Taken(n, i) == <<n, i>> \in covered \cup pending

Untaken(n) == {i \in Usable(n) : ~Taken(n, i)}

Lowest(S) == {i \in S : \A j \in S : i <= j}

(* The branches that lead somewhere; the empty arm does not.               *)
Leading(n) == Usable(n) \cap DOMAIN Parts(n)

Chasing(n, D) == {i \in Leading(n) : D[Parts(n)[i]] # Unreachable}

Nearest(n, D) ==
  LET at(i) == D[Parts(n)[i]]
  IN  Lowest({i \in Chasing(n, D) : \A j \in Chasing(n, D) : at(i) <= at(j)})

(* A slip to catch: one reference too many before the budget takes hold.   *)
OrdinaryLate(n, depth) ==
  IF depth > options.max_depth /\ Witness[n] \in Usable(n) THEN {Witness[n]} ELSE Usable(n)

(* Past the depth budget the shortest derivation, else any usable branch.  *)
Ordinary(n, depth) ==
  IF depth >= options.max_depth /\ Witness[n] \in Usable(n)
  THEN {Witness[n]}
  ELSE Usable(n)

(* A slip to catch: nothing is left once everything is covered.            *)
SelectOrNothing(n, depth) ==
  IF ~options.coverage THEN Ordinary(n, depth)
  ELSE IF Untaken(n) # {} THEN Lowest(Untaken(n)) ELSE Nearest(n, Refreshed)

(* 1. a branch not taken yet; 2. the one closest to something uncovered;   *)
(* 3. the ordinary rules.                                                  *)
Select(n, depth) ==
  IF ~options.coverage THEN Ordinary(n, depth)
  ELSE IF Untaken(n) # {} THEN Lowest(Untaken(n))
  ELSE IF Chasing(n, Refreshed) # {} THEN Nearest(n, Refreshed)
  ELSE Ordinary(n, depth)

SelectReads(n) == options.coverage /\ Untaken(n) = {} /\ Leading(n) # {}

(* How many times to repeat.  The arithmetic is that of u64: the addition  *)
(* saturates, and the `+ 1` wraps in a release build.                      *)
Below(k) == IF k <= 1 THEN {0} ELSE 0 .. k - 1

Least(x, y) == IF x <= y THEN x ELSE y

Ceiling(n) ==
  Least(IF NodeOf[n].max = None THEN MaxU64 ELSE NodeOf[n].max,
        Least(NodeOf[n].min + options.spread, MaxU64))

(* A slip to catch: the largest count is never drawn.                      *)
RandomCountShort(n) ==
  {NodeOf[n].min + k : k \in Below(Ceiling(n) - NodeOf[n].min)}

RandomCount(n) ==
  IF Ceiling(n) <= NodeOf[n].min THEN {NodeOf[n].min}
  ELSE {NodeOf[n].min + k : k \in Below((Ceiling(n) - NodeOf[n].min + 1) % (MaxU64 + 1))}

(* A slip to catch: the zero count skips what is uncovered.                *)
CountReadsNever(n) == FALSE

CountReads(n) == options.coverage /\ ~IsNever(n)

Counts(n, depth) ==
  IF CountReads(n) /\ Refreshed[Parts(n)[1]] # Unreachable
  THEN {IF NodeOf[n].min = 0 THEN 1 ELSE NodeOf[n].min}
  ELSE IF depth >= options.max_depth THEN {NodeOf[n].min}
  ELSE RandomCount(n)

(* What a terminal can be emitted as.                                      *)
Upper(c) == IF c \in 97 .. 122 THEN c - 32 ELSE c

(* A slip to catch: case varied where the grammar fixed it.                *)
CaseVariesAlways(d) == TRUE
CaseVaries(d) == ~d.case_sensitive /\ ~options.preserve_case

(* The scalars the i-th place of a terminal may be emitted as.             *)
EmittedAt(d, i) ==
  CASE d.kind = "char" -> IF CaseVaries(d) THEN {Upper(d.value[i]), Lower(d.value[i])}
                          ELSE {d.value[i]}
    [] d.kind = "num" ->
         LET lo == d.value[i].lo  hi == d.value[i].hi
         IN  IF d.range THEN {NthScalar(lo, hi, k) : k \in Below(ScalarsIn(lo, hi))} ELSE {lo}

Emissions(n) ==
  LET d == NodeOf[n]
  IN  {w \in [1 .. Len(d.value) -> UNION {EmittedAt(d, i) : i \in 1 .. Len(d.value)}] :
         \A i \in 1 .. Len(d.value) : w[i] \in EmittedAt(d, i)}

-----------------------------------------------------------------------------
(* The caller's operations.                                                *)

WithOptions ==
  /\ Idle
  /\ \E o \in Session.options \ {options} : options' = o
  /\ UNCHANGED <<cover, pending, steps, out, todo, start, outcome, calls>>

Refuse(r) == ~(r \in Generatable /\ Body[r] \in Productive)

(* A slip to catch: what a failed call took is still there.                *)
AfreshButPending == steps' = 0 /\ out' = << >> /\ UNCHANGED pending

Afresh == pending' = {} /\ steps' = 0 /\ out' = << >>

(* A call starts afresh, whatever the last one left behind.                *)
Generate(r) ==
  /\ Idle /\ calls < Session.calls
  /\ calls' = calls + 1
  /\ start' = r
  /\ IF Refuse(r)
     THEN outcome' = "refused" /\ UNCHANGED <<pending, steps, out, todo>>
     ELSE /\ outcome' = "walking"
          /\ Afresh
          /\ todo' = <<[node |-> Body[r], depth |-> 0]>>
  /\ UNCHANGED <<options, cover>>

(* A slip to catch: rules that share one entry of the cache.               *)
CacheKeyShared(r) == CHOOSE n \in Nodes : TRUE

CacheKey(r) == Body[r]

(* `uncovered` counts; all it changes is its cache.                        *)
Uncovered(r) ==
  /\ Idle /\ ~Refuse(r)
  /\ reachable[CacheKey(r)] = None
  /\ reachable' = [reachable EXCEPT ![CacheKey(r)] = ReachableUnits[Body[r]]]
  /\ UNCHANGED <<options, covered, distance, stale, pending, steps, out, todo, start, outcome, calls>>

-----------------------------------------------------------------------------
(* The walk.  A visit costs a step; an error drops the call's output.      *)

Spent == options.max_steps # None /\ steps + 1 > options.max_steps

Visit(kinds) ==
  /\ ~Idle /\ todo # << >> /\ ~Spent
  /\ Kind(Head(todo).node) \in kinds
  /\ steps' = steps + 1

Fail(error) == outcome' = error /\ todo' = << >> /\ out' = << >>

VisitOverLimit ==
  /\ ~Idle /\ todo # << >> /\ Spent
  /\ steps' = steps + 1
  /\ Fail("StepLimit")
  /\ UNCHANGED <<options, cover, pending, start, calls>>

(* Put `nodes` in the place of the head, at `depth`.                       *)
Replace(nodes, depth) ==
  todo' = [i \in 1 .. Len(nodes) |-> [node |-> nodes[i], depth |-> depth]] \o Tail(todo)

ReadDistance(reads) ==
  /\ distance' = IF reads THEN Refreshed ELSE distance
  /\ stale' = (stale /\ ~reads)

UnitOf(n, i) == <<n, i>>

VisitChoice ==
  /\ Visit({"alt", "optional"})
  /\ LET n == Head(todo).node  d == Head(todo).depth IN
     /\ \E i \in Select(n, d) :
          /\ pending' = pending \cup {UnitOf(n, i)}
          /\ Replace(IF i \in DOMAIN Parts(n) THEN <<Parts(n)[i]>> ELSE << >>, d)
     /\ ReadDistance(SelectReads(n))
  /\ UNCHANGED <<options, covered, reachable, out, start, outcome, calls>>

VisitConcat ==
  /\ Visit({"concat"})
  /\ Replace(Parts(Head(todo).node), Head(todo).depth)
  /\ UNCHANGED <<options, cover, pending, out, start, outcome, calls>>

VisitRepeat ==
  /\ Visit({"repeat"})
  /\ LET n == Head(todo).node  d == Head(todo).depth IN
     /\ \E c \in Counts(n, d) : Replace([i \in 1 .. c |-> Parts(n)[1]], d)
     /\ ReadDistance(CountReads(n))
  /\ UNCHANGED <<options, covered, reachable, pending, out, start, outcome, calls>>

VisitRef ==
  /\ Visit({"ref"})
  /\ Replace(<<Body[NodeOf[Head(todo).node].target]>>, Head(todo).depth + 1)
  /\ UNCHANGED <<options, cover, pending, out, start, outcome, calls>>

TooLong(w) == options.max_output_len # None /\ Len(out) + Len(w) > options.max_output_len

VisitTerminal ==
  /\ Visit({"char", "num"})
  /\ \E w \in Emissions(Head(todo).node) :
       IF TooLong(w) THEN Fail("OutputLimit")
       ELSE out' = out \o w /\ todo' = Tail(todo) /\ UNCHANGED outcome
  /\ UNCHANGED <<options, cover, pending, start, calls>>

(* A slip to catch: the distances are kept.                                *)
StalesNever == stale

Stales == stale \/ pending \ covered # {}

(* Only a call that succeeded counts as coverage.                          *)
Commit ==
  /\ ~Idle /\ todo = << >>
  /\ covered' = covered \cup pending
  /\ stale' = Stales
  /\ pending' = {}
  /\ outcome' = "ok"
  /\ UNCHANGED <<options, distance, reachable, steps, out, todo, start, calls>>

Ask == \E r \in Session.asked : Generate(r) \/ Uncovered(r)

Walk ==
  \/ VisitOverLimit \/ VisitChoice \/ VisitConcat \/ VisitRepeat
  \/ VisitRef \/ VisitTerminal \/ Commit

Next == WithOptions \/ Ask \/ Walk

Spec == Init /\ [][Next]_vars /\ WF_vars(Walk)

-----------------------------------------------------------------------------
(* What is checked.                                                        *)

(* The two halves of the oracle agree: what a call emits, the grammar      *)
(* accepts, whatever was drawn, steered or cut off before.                 *)
OutputAccepted == outcome = "ok" => Accepts(out, start)

(* A node that matches nothing is never entered, not even where it is one  *)
(* branch of several that do: once inside there is no way out.  That is so *)
(* of the grammars whose repetitions all have a body that can match.       *)
NeverUnproductive ==
  (\A n \in Productive : Kind(n) = "repeat" => Reachable(n) \subseteq Productive) =>
    \A i \in 1 .. Len(todo) : todo[i].node \in Productive

(* What the tables are good for, short of a length that saturates: the     *)
(* witness of a choice is as short as the choice, and whatever else matches*)
(* as short as its parts together.                                         *)
LengthOfAll(parts) ==
  LET sum[i \in 0 .. Len(parts)] == IF i = 0 THEN 0 ELSE sum[i - 1] + MinLen[parts[i]]
  IN  sum[Len(parts)]

LengthsAddUp ==
  \A n \in Productive :
    LET d == NodeOf[n]  w == Witness[n] IN
    CASE d.kind \in {"alt", "optional"} ->
           w \in Usable(n) /\ MinLen[n] = IF w \in DOMAIN d.parts THEN MinLen[d.parts[w]] ELSE 0
      [] d.kind = "concat" -> MinLen[n] = LengthOfAll(d.parts)
      [] d.kind = "repeat" -> MinLen[n] = IF d.min = 0 THEN 0 ELSE d.min * MinLen[d.parts[1]]
      [] d.kind = "ref"    -> MinLen[n] = MinLen[Body[d.target]]
      [] d.kind = "prose"  -> TRUE
      [] OTHER             -> MinLen[n] = Len(d.value)

(* Within the depth budget of zero every choice is the witness's, and what *)
(* comes out is as short as the grammar allows.                            *)
WitnessShortest ==
  [][~Idle /\ outcome' = "ok" /\ options.max_depth = 0 /\ ~options.coverage
       => Len(out) = MinLen[Body[start]]]_vars

(* The distances the chase reads are those to what is uncovered now.       *)
DistanceFresh == ~stale => distance = Distances(covered)

(* Each rule's cached units are its own.                                   *)
CacheOwn ==
  \A r \in Rules : reachable[CacheKey(r)] # None =>
                     reachable[CacheKey(r)] = ReachableUnits[Body[r]]

(* A call that failed covered nothing, then or later: what it touched      *)
(* nobody ever saw.  What is covered was taken by the call that succeeded, *)
(* so it is in that rule's reach and no more than its visits.              *)
OnlySuccessCovers ==
  [][covered' # covered =>
       /\ outcome' = "ok"
       /\ covered' \ covered \subseteq ReachableUnits[Body[start]]
       /\ Cardinality(covered' \ covered) <= steps]_vars

(* In coverage mode each successful call covers something new, while there *)
(* is anything uncovered in the reach of its rule.                         *)
SuccessCovers ==
  [][~Idle /\ outcome' = "ok" /\ options.coverage /\ UncoveredFrom(start) # {}
       => UncoveredFrom(start) \cap pending # {}]_vars

(* Every call ends, whatever the random generator draws and without any    *)
(* resource limit: past the depth budget the witnesses lead out.           *)
EveryCallEnds == ~Idle ~> Idle

(* The chase: along it the distance to something uncovered decreases.      *)
ChaseDescends ==
  ~Idle /\ todo # << >> /\ Kind(Head(todo).node) \in {"alt", "optional"} /\ options.coverage =>
    LET n == Head(todo).node  D == Refreshed IN
    Untaken(n) = {} =>
      \A i \in Chasing(n, D) \cap Select(n, Head(todo).depth) : D[Parts(n)[i]] < D[n]

(* The assertion of choose_branch: an alternation that is walked has a     *)
(* branch to take.                                                         *)
ChoiceHasBranch ==
  \A i \in 1 .. Len(todo) : Kind(todo[i].node) = "alt" => Usable(todo[i].node) # {}

(* Every count the options promise can be drawn.                           *)
CountsOffered ==
  ~Idle /\ todo # << >> /\ Kind(Head(todo).node) = "repeat" /\ ~options.coverage =>
    LET n == Head(todo).node IN
    Head(todo).depth < options.max_depth =>
      Counts(n, Head(todo).depth) = NodeOf[n].min .. Ceiling(n)
=============================================================================
