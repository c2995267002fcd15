-------------------------- MODULE GeneratorProofs --------------------------
(***************************************************************************)
(* What holds of the generator for every grammar, every way of asking it   *)
(* and every draw: its tables are never stale when read, it goes nowhere   *)
(* without a way out, it draws every count it promises, what it emits the  *)
(* grammar accepts, each success covers something new while there is any,  *)
(* and led by the witnesses alone it is as short as can be.  And what      *)
(* indexing a range (NumVal::nth_scalar, src/ast.rs) is good for: it counts*)
(* out the scalars of every range that begins no later than right after the*)
(* surrogates, and leaves every range that begins later.                   *)
(***************************************************************************)
EXTENDS Generator, ProofSupport

-----------------------------------------------------------------------------
(* The coverage tables.                                                    *)

(* Reading refreshes, and nothing is covered that does not make stale.     *)
LEMMA FreshStep == DistanceFresh /\ [Next]_vars => DistanceFresh'
<1> SUFFICES ASSUME DistanceFresh, [Next]_vars PROVE DistanceFresh'
  OBVIOUS
<1>1. ASSUME UNCHANGED <<covered, distance, stale>> PROVE DistanceFresh'
  BY <1>1 DEF DistanceFresh
<1>2. ASSUME NEW reads \in BOOLEAN, ReadDistance(reads), covered' = covered
      PROVE  DistanceFresh'
  <2>1. CASE reads
    <3>1. distance' = Distances(covered)
      BY <1>2, <2>1 DEF ReadDistance, Refreshed, DistanceFresh
    <3>2. QED
      BY <1>2, <3>1 DEF DistanceFresh
  <2>2. CASE ~reads
    BY <1>2, <2>2 DEF ReadDistance, DistanceFresh
  <2>3. QED
    BY <2>1, <2>2
<1>3. CASE UNCHANGED vars
  BY <1>1, <1>3 DEF vars
<1>4. CASE WithOptions \/ Ask
  BY <1>1, <1>4 DEF WithOptions, Ask, Generate, Uncovered, cover
<1>5. CASE VisitOverLimit \/ VisitConcat \/ VisitRef \/ VisitTerminal
  BY <1>1, <1>5 DEF VisitOverLimit, VisitConcat, VisitRef, VisitTerminal, cover
<1>6. CASE VisitChoice
  <2>1. ReadDistance(SelectReads(Head(todo).node)) /\ covered' = covered
    BY <1>6 DEF VisitChoice
  <2>2. PICK reads \in BOOLEAN : ReadDistance(reads)
    <3>1. CASE SelectReads(Head(todo).node)
      BY <2>1, <3>1 DEF ReadDistance
    <3>2. CASE ~SelectReads(Head(todo).node)
      BY <2>1, <3>2 DEF ReadDistance
    <3>3. QED
      BY <3>1, <3>2
  <2>3. QED
    BY <1>2, <2>1, <2>2
<1>7. CASE VisitRepeat
  <2>1. ReadDistance(CountReads(Head(todo).node)) /\ covered' = covered
    BY <1>7 DEF VisitRepeat
  <2>2. PICK reads \in BOOLEAN : ReadDistance(reads)
    <3>1. CASE CountReads(Head(todo).node)
      BY <2>1, <3>1 DEF ReadDistance
    <3>2. CASE ~CountReads(Head(todo).node)
      BY <2>1, <3>2 DEF ReadDistance
    <3>3. QED
      BY <3>1, <3>2
  <2>3. QED
    BY <1>2, <2>1, <2>2
<1>8. CASE Commit
  <2>1. ASSUME ~stale' PROVE covered' = covered /\ ~stale
    BY <1>8, <2>1 DEF Commit, Stales
  <2>2. distance' = distance
    BY <1>8 DEF Commit
  <2>3. QED
    BY <2>1, <2>2 DEF DistanceFresh
<1>9. QED
  BY <1>3, <1>4, <1>5, <1>6, <1>7, <1>8 DEF Next, Walk

(* The distances the chase reads are those to what is uncovered at that    *)
(* moment, however calls that succeed, calls that fail and reads that make *)
(* the table again follow one another (Coverage::distances, commit).       *)
THEOREM DistancesAreFresh == Spec => []DistanceFresh
<1>1. Init => DistanceFresh
  BY DEF Init, DistanceFresh
<1>2. QED
  BY <1>1, FreshStep, PTL DEF Spec

(* The cache is keyed by rule bodies.                                      *)
CacheInv ==
  /\ DOMAIN reachable = Nodes
  /\ \A n \in Nodes : reachable[n] # None => reachable[n] = ReachableUnits[n]

(* Only `uncovered` writes the cache, and each body its own entry.         *)
LEMMA CacheStep == CacheInv /\ [Next]_vars => CacheInv'
<1> SUFFICES ASSUME CacheInv, [Next]_vars PROVE CacheInv'
  OBVIOUS
<1>1. ASSUME reachable' = reachable PROVE CacheInv'
  BY <1>1 DEF CacheInv
<1>2. ASSUME NEW r, Uncovered(r) PROVE CacheInv'
  <2>1. reachable' = [reachable EXCEPT ![Body[r]] = ReachableUnits[Body[r]]]
    BY <1>2 DEF Uncovered, CacheKey
  <2> DEFINE units == ReachableUnits
  <2>2. reachable' = [reachable EXCEPT ![Body[r]] = units[Body[r]]]
    BY <2>1
  <2>3. DOMAIN reachable = Nodes /\ \A n \in Nodes : reachable[n] # None => reachable[n] = units[n]
    BY DEF CacheInv
  <2> HIDE DEF units
  <2>4. DOMAIN reachable' = Nodes /\ \A n \in Nodes : reachable'[n] # None => reachable'[n] = units[n]
    BY <2>2, <2>3
  <2>5. QED
    BY <2>4 DEF CacheInv, units
<1>3. CASE WithOptions \/ UNCHANGED vars
  BY <1>1, <1>3 DEF WithOptions, vars, cover
<1>4. CASE Ask
  BY <1>1, <1>2, <1>4 DEF Ask, Generate, cover
<1>5. CASE Walk
  BY <1>1, <1>5 DEF Walk, VisitOverLimit, VisitChoice, VisitConcat, VisitRepeat, VisitRef,
                    VisitTerminal, Commit, cover
<1>6. QED
  BY <1>3, <1>4, <1>5 DEF Next

(* What `uncovered` remembers of a rule is what that rule reaches, and     *)
(* never what another does.                                                *)
THEOREM CachesAreOwn == Spec => []CacheOwn
<1>1. Init => CacheInv
  BY DEF Init, CacheInv
<1>2. CacheInv => CacheOwn
  BY GrammarAssumption DEF CacheInv, CacheOwn, CacheKey, WellFormed
<1>3. QED
  BY <1>1, <1>2, CacheStep, PTL DEF Spec

-----------------------------------------------------------------------------
(* Where a walk can be.                                                    *)

(* A set of nodes a walk does not leave.                                   *)
Confines(S) ==
  /\ S \subseteq Nodes
  /\ \A n \in S :
       /\ Kind(n) \in {"alt", "optional"} =>
            \A i \in Usable(n) \cap DOMAIN Parts(n) : Parts(n)[i] \in S
       /\ Kind(n) = "concat" => Parts(n) \in Seq(S)
       /\ Kind(n) = "repeat" /\ ~IsNever(n) => Parts(n)[1] \in S
       /\ Kind(n) = "ref" => Body[NodeOf[n].target] \in S

(* Every walk begins in the set.                                           *)
Entered(S) == \A r \in Rules : ~Refuse(r) => Body[r] \in S

Within(S) == options \in OptionSets /\ todo \in Seq([node : S, depth : Nat])

(* Whatever the mode, what is selected is usable.                          *)
LEMMA SelectUsable ==
  ASSUME NEW n, NEW d
  PROVE  Select(n, d) \subseteq Usable(n)
<1>1. Ordinary(n, d) \subseteq Usable(n)
  BY DEF Ordinary
<1>2. Lowest(Untaken(n)) \subseteq Usable(n)
  BY DEF Lowest, Untaken
<1>3. Nearest(n, Refreshed) \subseteq Usable(n)
  BY DEF Nearest, Lowest, Chasing, Leading
<1>4. QED
  BY <1>1, <1>2, <1>3 DEF Select

(* A count is one, and none of what is never run.                          *)
LEMMA CountFacts ==
  ASSUME NEW n \in Nodes, Kind(n) = "repeat", options \in OptionSets, NEW d,
         NEW c \in Counts(n, d)
  PROVE  c \in Nat /\ (IsNever(n) => c = 0)
<1>1. /\ NodeOf[n].min \in Nat
      /\ IsNever(n) => NodeOf[n].min = 0 /\ NodeOf[n].max = 0 /\ None # 0
  BY GrammarAssumption DEF WellFormed, NodeShape, Kind, IsNever
<1>2. options.spread \in Nat /\ MaxU64 \in Nat
  BY GeneratorAssumption
<1>3. ASSUME NEW k \in RandomCount(n) PROVE k \in Nat /\ (IsNever(n) => k = 0)
  <2>1. CASE IsNever(n)
    <3>1. Ceiling(n) = 0
      BY <1>1, <1>2, <2>1 DEF Ceiling, Least
    <3>2. QED
      BY <1>1, <1>3, <2>1, <3>1 DEF RandomCount
  <2>2. CASE ~IsNever(n)
    <3> DEFINE x == (Ceiling(n) - NodeOf[n].min + 1) % (MaxU64 + 1)
    <3>1. k = NodeOf[n].min \/ \E j \in Below(x) : k = NodeOf[n].min + j
      BY <1>3 DEF RandomCount
    <3> HIDE DEF x
    <3>2. \A j \in Below(x) : j \in Nat
      BY DEF Below
    <3>3. QED
      BY <1>1, <2>2, <3>1, <3>2
  <2>3. QED
    BY <2>1, <2>2
<1>4. CASE c = NodeOf[n].min
  BY <1>1, <1>4
<1>5. CASE c \in RandomCount(n)
  BY <1>3, <1>5
<1>6. CASE CountReads(n) /\ c = 1
  BY <1>6 DEF CountReads
<1>7. QED
  BY <1>4, <1>5, <1>6 DEF Counts

(* What replaces the head are nodes of the set.                            *)
LEMMA ReplaceWithin ==
  ASSUME NEW S, todo \in Seq([node : S, depth : Nat]), todo # << >>,
         NEW nodes \in Seq(S), NEW d \in Nat, Replace(nodes, d)
  PROVE  todo' \in Seq([node : S, depth : Nat])
<1> DEFINE T == [node : S, depth : Nat]
           front == [i \in 1 .. Len(nodes) |-> [node |-> nodes[i], depth |-> d]]
<1>1. \A i \in 1 .. Len(nodes) : nodes[i] \in S
  OBVIOUS
<1>2. front \in Seq(T)
  <2>1. Len(nodes) \in Nat
    OBVIOUS
  <2>2. \A i \in 1 .. Len(nodes) : [node |-> nodes[i], depth |-> d] \in T
    BY <1>1
  <2>3. front \in [1 .. Len(nodes) -> T]
    BY <2>2
  <2>4. QED
    BY <2>1, <2>3
<1>3. Tail(todo) \in Seq(T)
  OBVIOUS
<1>4. todo' = front \o Tail(todo)
  BY DEF Replace
<1> HIDE DEF front, T
<1>5. front \o Tail(todo) \in Seq(T)
  BY <1>2, <1>3, ConcatProperties
<1>6. QED
  BY <1>4, <1>5 DEF T

(* No step leaves such a set, but to begin another walk.                   *)
LEMMA WithinStep ==
  ASSUME NEW S, Confines(S), Within(S), [Next]_vars, Entered(S) \/ ~Ask
  PROVE  Within(S)'
<1> DEFINE T == [node : S, depth : Nat]
           n == Head(todo).node
           d == Head(todo).depth
<1>1. todo \in Seq(T) /\ options \in OptionSets /\ S \subseteq Nodes
  BY DEF Within, Confines
<1>2. ASSUME todo # << >> PROVE n \in S /\ n \in Nodes /\ d \in Nat /\ Tail(todo) \in Seq(T)
  <2>1. Head(todo) \in T /\ Tail(todo) \in Seq(T)
    <3> HIDE DEF T
    <3>1. Len(todo) \in Nat /\ Len(todo) # 0 /\ Head(todo) = todo[1]
      BY <1>1, <1>2
    <3>2. QED
      BY <1>1, <1>2, <3>1
  <2>2. QED
    BY <1>1, <2>1
<1>3. << >> \in Seq(T)
  OBVIOUS
<1>4. ASSUME options' = options, todo' \in Seq(T) PROVE Within(S)'
  BY <1>1, <1>4 DEF Within
<1>5. ASSUME options' = options, todo # << >>, NEW nodes \in Seq(S), NEW e \in Nat,
             Replace(nodes, e)
      PROVE  Within(S)'
  BY <1>1, <1>4, <1>5, ReplaceWithin
<1> HIDE DEF T, n, d
<1>6. CASE UNCHANGED vars
  BY <1>1, <1>4, <1>6 DEF vars
<1>7. CASE WithOptions
  <2>1. options' \in Session.options /\ todo' = todo
    BY <1>7 DEF WithOptions
  <2>2. Session.options \subseteq OptionSets
    <3>1. \E s \in Sessions : options \in s.options
      BY <1>1 DEF OptionSets
    <3>2. Session \in Sessions
      BY <3>1 DEF Session
    <3>3. QED
      BY <3>2 DEF OptionSets
  <2>3. QED
    BY <1>1, <2>1, <2>2 DEF Within, T
<1>8. CASE Ask
  <2>1. PICK r \in Session.asked : Generate(r) \/ Uncovered(r)
    BY <1>8 DEF Ask
  <2>2. options' = options
    BY <2>1 DEF Generate, Uncovered
  <2>3. CASE todo' = todo
    BY <1>1, <1>4, <2>2, <2>3
  <2>4. CASE todo' # todo
    <3>1. todo' = <<[node |-> Body[r], depth |-> 0]>> /\ ~Refuse(r)
      BY <2>1, <2>4 DEF Generate, Uncovered
    <3>2. r \in Rules
      BY <3>1, GeneratorAssumption DEF Refuse
    <3>3. [node |-> Body[r], depth |-> 0] \in T
      BY <1>8, <3>1, <3>2 DEF Entered, T
    <3>4. QED
      BY <1>4, <2>2, <3>1, <3>3
  <2>5. QED
    BY <2>3, <2>4
<1>9. CASE VisitOverLimit \/ Commit
  <2>1. options' = options /\ (todo' = << >> \/ todo' = todo)
    BY <1>9 DEF VisitOverLimit, Fail, Commit
  <2>2. QED
    BY <1>1, <1>3, <1>4, <2>1
<1>10. CASE VisitChoice
  <2>1. /\ todo # << >> /\ options' = options /\ Kind(n) \in {"alt", "optional"}
        /\ \E i \in Select(n, d) :
             Replace(IF i \in DOMAIN Parts(n) THEN <<Parts(n)[i]>> ELSE << >>, d)
    BY <1>10 DEF VisitChoice, Visit, n, d
  <2>2. PICK i \in Select(n, d) :
          Replace(IF i \in DOMAIN Parts(n) THEN <<Parts(n)[i]>> ELSE << >>, d)
    BY <2>1
  <2>3. (IF i \in DOMAIN Parts(n) THEN <<Parts(n)[i]>> ELSE << >>) \in Seq(S)
    <3>1. CASE i \in DOMAIN Parts(n)
      <4>1. i \in Usable(n)
        BY <2>2, SelectUsable
      <4>2. Parts(n)[i] \in S
        BY <1>2, <2>1, <3>1, <4>1 DEF Confines
      <4>3. QED
        BY <3>1, <4>2
    <3>2. CASE i \notin DOMAIN Parts(n)
      BY <3>2
    <3>3. QED
      BY <3>1, <3>2
  <2>4. QED
    BY <1>2, <1>5, <2>1, <2>2, <2>3
<1>11. CASE VisitConcat
  <2>1. todo # << >> /\ options' = options /\ Kind(n) = "concat" /\ Replace(Parts(n), d)
    BY <1>11 DEF VisitConcat, Visit, n, d
  <2>2. Parts(n) \in Seq(S)
    BY <1>2, <2>1 DEF Confines
  <2>3. QED
    BY <1>2, <1>5, <2>1, <2>2
<1>12. CASE VisitRepeat
  <2>1. todo # << >> /\ options' = options /\ Kind(n) = "repeat"
        /\ \E c \in Counts(n, d) : Replace([i \in 1 .. c |-> Parts(n)[1]], d)
    BY <1>12 DEF VisitRepeat, Visit, n, d
  <2>2. PICK c \in Counts(n, d) : Replace([i \in 1 .. c |-> Parts(n)[1]], d)
    BY <2>1
  <2>3. c \in Nat /\ (IsNever(n) => c = 0)
    BY <1>1, <1>2, <2>1, CountFacts
  <2>4. [i \in 1 .. c |-> Parts(n)[1]] \in Seq(S)
    <3>1. CASE IsNever(n)
      <4>1. c = 0
        BY <2>3, <3>1
      <4>2. [i \in 1 .. 0 |-> Parts(n)[1]] \in Seq(S)
        OBVIOUS
      <4>3. QED
        BY <4>1, <4>2
    <3>2. CASE ~IsNever(n)
      <4>1. Parts(n)[1] \in S
        BY <1>2, <2>1, <3>2 DEF Confines
      <4>2. [i \in 1 .. c |-> Parts(n)[1]] \in [1 .. c -> S]
        BY <4>1
      <4>3. QED
        BY <2>3, <4>2
    <3>3. QED
      BY <3>1, <3>2
  <2>5. QED
    BY <1>2, <1>5, <2>1, <2>2, <2>4
<1>13. CASE VisitRef
  <2>1. todo # << >> /\ options' = options /\ Kind(n) = "ref"
        /\ Replace(<<Body[NodeOf[n].target]>>, d + 1)
    BY <1>13 DEF VisitRef, Visit, n, d
  <2>2. <<Body[NodeOf[n].target]>> \in Seq(S) /\ d + 1 \in Nat
    BY <1>2, <2>1 DEF Confines
  <2>3. QED
    BY <1>5, <2>1, <2>2
<1>14. CASE VisitTerminal
  <2>1. todo # << >> /\ options' = options /\ (todo' = << >> \/ todo' = Tail(todo))
    BY <1>14 DEF VisitTerminal, Visit, Fail
  <2>2. QED
    BY <1>2, <1>3, <1>4, <2>1
<1>15. QED
  BY <1>6, <1>7, <1>8, <1>9, <1>10, <1>11, <1>12, <1>13, <1>14 DEF Next, Walk

(* Nothing is left to walk before the first call.                          *)
LEMMA WithinInit ==
  ASSUME NEW S, Init
  PROVE  Within(S)
BY DEF Init, Within

(* The whole arena is closed.                                              *)
LEMMA NodesClosed == Confines(Nodes) /\ Entered(Nodes)
<1>1. ASSUME NEW n \in Nodes
      PROVE  /\ Parts(n) \in Seq(Nodes)
             /\ Kind(n) = "repeat" => Parts(n)[1] \in Nodes
             /\ Kind(n) = "ref" => Body[NodeOf[n].target] \in Nodes
  <2>1. /\ Parts(n) \in Seq(Nodes)
        /\ Kind(n) = "repeat" => Len(Parts(n)) = 1
        /\ Kind(n) = "ref" => NodeOf[n].target \in Rules /\ Body \in [Rules -> Nodes]
    BY GrammarAssumption DEF WellFormed, NodeShape, Kind, Parts
  <2>2. QED
    BY <2>1
<1>2. \A r \in Rules : Body[r] \in Nodes
  BY GrammarAssumption DEF WellFormed
<1>3. QED
  BY <1>1, <1>2 DEF Confines, Entered

(* The productive nodes are such a set where every productive repetition   *)
(* that runs has a body that can match.                                    *)
WaysOut == \A n \in Productive : Kind(n) = "repeat" => Reachable(n) \subseteq Productive

(* There, no way leads out of the productive nodes.                        *)
LEMMA ProductiveClosed == WaysOut => Confines(Productive) /\ Entered(Productive)
<1> SUFFICES ASSUME WaysOut PROVE Confines(Productive) /\ Entered(Productive)
  OBVIOUS
<1>1. Productive \subseteq Nodes
  BY DEF Productive
<1>2. \A r \in Rules : ~Refuse(r) => Body[r] \in Productive
  BY DEF Refuse
<1>3. ASSUME NEW n \in Productive
      PROVE  /\ Kind(n) \in {"alt", "optional"} =>
                  \A i \in Usable(n) \cap DOMAIN Parts(n) : Parts(n)[i] \in Productive
             /\ Kind(n) = "concat" => Parts(n) \in Seq(Productive)
             /\ Kind(n) = "repeat" /\ ~IsNever(n) => Parts(n)[1] \in Productive
             /\ Kind(n) = "ref" => Body[NodeOf[n].target] \in Productive
  <2>1. n \in Nodes /\ Parts(n) \in Seq(Nodes)
        /\ (Kind(n) \in {"repeat", "optional"} => Len(Parts(n)) = 1)
    BY <1>1, GrammarAssumption DEF WellFormed, NodeShape, Kind, Parts
  <2>2. Kind(n) \in {"concat", "ref"} => Successors(n) \subseteq Productive
    BY GeneratorAssumption
  <2>3. CASE Kind(n) \in {"alt", "optional"}
    <3>1. ASSUME NEW i \in Usable(n), i \in DOMAIN Parts(n) PROVE Parts(n)[i] \in Productive
      <4>1. CASE i \in {j \in DOMAIN Parts(n) : Parts(n)[j] \in Productive}
        BY <4>1
      <4>2. CASE Kind(n) = "optional" /\ i = 2
        BY <2>1, <3>1, <4>2
      <4>3. QED
        BY <3>1, <4>1, <4>2 DEF Usable
    <3>2. QED
      BY <2>3, <3>1
  <2>4. CASE Kind(n) = "concat"
    <3>1. \A i \in DOMAIN Parts(n) : Parts(n)[i] \in Productive
      BY <2>2, <2>4 DEF Successors
    <3>2. QED
      BY <2>1, <2>4, <3>1
  <2>5. CASE Kind(n) = "repeat"
    <3>1. ~IsNever(n) => Successors(n) \subseteq Productive
      BY <2>5 DEF WaysOut, Reachable
    <3>2. 1 \in DOMAIN Parts(n)
      BY <2>1, <2>5
    <3>3. QED
      BY <2>5, <3>1, <3>2 DEF Successors
  <2>6. CASE Kind(n) = "ref"
    BY <2>2, <2>6 DEF Successors
  <2>7. QED
    BY <2>3, <2>4, <2>5, <2>6
<1>4. QED
  BY <1>1, <1>2, <1>3 DEF Confines, Entered

(* A walk stays where there is a way out.                                  *)
LEMMA ProductiveAlways == WaysOut /\ Spec => []Within(Productive)
<1> DEFINE J == WaysOut /\ Within(Productive)
<1>1. WaysOut /\ Init => J
  BY WithinInit
<1>2. J /\ [Next]_vars => J'
  <2> SUFFICES ASSUME WaysOut, Within(Productive), [Next]_vars PROVE WaysOut' /\ Within(Productive)'
    OBVIOUS
  <2>1. WaysOut'
    BY DEF WaysOut
  <2>2. Within(Productive)'
    BY ProductiveClosed, WithinStep
  <2>3. QED
    BY <2>1, <2>2
<1>3. J => Within(Productive)
  OBVIOUS
<1>4. QED
  BY <1>1, <1>2, <1>3, PTL DEF Spec

(* No walk, steered, drawn or led by witnesses, enters a node that matches *)
(* nothing (usable, repeat_count), where the repetitions can all match.    *)
THEOREM UnproductiveNeverEntered == Spec => []NeverUnproductive
<1>1. Within(Productive) => NeverUnproductive
  <2> DEFINE T == [node : Productive, depth : Nat]
  <2> SUFFICES ASSUME todo \in Seq(T), NEW i \in 1 .. Len(todo) PROVE todo[i].node \in Productive
    BY DEF Within, NeverUnproductive
  <2>1. todo[i] \in T
    <3> HIDE DEF T
    <3>1. QED
      OBVIOUS
  <2>2. QED
    BY <2>1
<1>2. ~WaysOut => NeverUnproductive
  BY DEF WaysOut, NeverUnproductive
<1>3. ~WaysOut /\ Spec => []~WaysOut
  <2>1. ~WaysOut /\ [Next]_vars => (~WaysOut)'
    BY DEF WaysOut
  <2>2. QED
    BY <2>1, PTL DEF Spec
<1>4. QED
  BY <1>1, <1>2, <1>3, ProductiveAlways, PTL

(* There too an alternation that is walked has a branch to take, as        *)
(* choose_branch asserts.                                                  *)
THEOREM ChoicesHaveBranch == WaysOut /\ Spec => []ChoiceHasBranch
<1>1. Within(Productive) => ChoiceHasBranch
  <2> DEFINE T == [node : Productive, depth : Nat]
  <2> SUFFICES ASSUME todo \in Seq(T), NEW i \in 1 .. Len(todo), Kind(todo[i].node) = "alt"
               PROVE  Usable(todo[i].node) # {}
    BY DEF Within, ChoiceHasBranch
  <2>1. todo[i] \in T
    <3> HIDE DEF T
    <3>1. QED
      OBVIOUS
  <2>2. \A n \in Productive : Kind(n) = "alt" => Usable(n) # {}
    BY GeneratorAssumption
  <2>3. QED
    BY <2>1, <2>2
<1>2. QED
  BY <1>1, ProductiveAlways, PTL

-----------------------------------------------------------------------------
(* The counts of a repetition.                                             *)

(* Counts are u64s, and the spread is not the largest of them.             *)
Narrow ==
  /\ \A o \in OptionSets : o.spread < MaxU64
  /\ \A n \in Nodes : Kind(n) = "repeat" =>
       NodeOf[n].min <= MaxU64 /\ (NodeOf[n].max # None => NodeOf[n].max <= MaxU64)

(* What is below the modulus is left as it is.                             *)
LEMMA SmallModulus ==
  ASSUME NEW x \in Nat, NEW y \in Nat, x < y
  PROVE  x % y = x
OBVIOUS

(* Without the wrap, the draw is from the minimum to the ceiling.          *)
LEMMA DrawnCounts ==
  ASSUME Narrow, NEW n \in Nodes, Kind(n) = "repeat", options \in OptionSets
  PROVE  RandomCount(n) = NodeOf[n].min .. Ceiling(n)
<1> DEFINE min == NodeOf[n].min
           top == Ceiling(n)
           wide == top - min + 1
<1>1. /\ min \in Nat /\ min <= MaxU64 /\ MaxU64 \in Nat
      /\ options.spread \in Nat /\ options.spread < MaxU64
      /\ NodeOf[n].max # None =>
           NodeOf[n].max \in Nat /\ min <= NodeOf[n].max /\ NodeOf[n].max <= MaxU64
  BY GrammarAssumption, GeneratorAssumption DEF Narrow, WellFormed, NodeShape, Kind
<1>2. top \in Nat /\ min <= top /\ top <= min + options.spread
  BY <1>1 DEF Ceiling, Least
<1>3. RandomCount(n) = IF top <= min THEN {min}
                       ELSE {min + k : k \in Below(wide % (MaxU64 + 1))}
  BY DEF RandomCount
<1> HIDE DEF min, top
<1>4. ASSUME top = min PROVE RandomCount(n) = min .. top
  BY <1>1, <1>3, <1>4
<1>5. ASSUME top > min PROVE RandomCount(n) = min .. top
  <2>1. wide \in 2 .. MaxU64
    BY <1>1, <1>2, <1>5
  <2>2. wide % (MaxU64 + 1) = wide
    <3> HIDE DEF wide
    <3>1. wide \in Nat /\ MaxU64 + 1 \in Nat /\ 0 < MaxU64 + 1 /\ wide < MaxU64 + 1
      BY <1>1, <2>1
    <3>2. QED
      BY <3>1, SmallModulus
  <2>3. Below(wide) = 0 .. top - min
    BY <1>1, <1>2, <2>1 DEF Below
  <2>4. {min + k : k \in 0 .. top - min} = min .. top
    <3>1. \A c \in min .. top : c - min \in 0 .. top - min /\ c = min + (c - min)
      BY <1>1, <1>2
    <3>2. \A k \in 0 .. top - min : min + k \in min .. top
      BY <1>1, <1>2
    <3>3. QED
      BY <3>1, <3>2
  <2>5. ~(top <= min)
    BY <1>1, <1>2, <1>5
  <2>6. Below(wide % (MaxU64 + 1)) = 0 .. top - min
    BY <2>2, <2>3
  <2> HIDE DEF wide
  <2>7. QED
    BY <1>3, <2>4, <2>5, <2>6
<1>6. RandomCount(n) = min .. top
  BY <1>1, <1>2, <1>4, <1>5
<1>7. QED
  BY <1>6 DEF min, top

(* What is left to walk are nodes of the arena.                            *)
LEMMA NodesAlways == Spec => []Within(Nodes)
<1>1. Init => Within(Nodes)
  BY WithinInit
<1>2. Within(Nodes) /\ [Next]_vars => Within(Nodes)'
  BY NodesClosed, WithinStep
<1>3. QED
  BY <1>1, <1>2, PTL DEF Spec

(* Where the spread leaves room for the `+ 1` every count it promises can  *)
(* be drawn (random_count); with the largest of spreads it is not so.      *)
THEOREM CountsAreOffered == Narrow /\ Spec => []CountsOffered
<1>1. Narrow /\ Within(Nodes) => CountsOffered
  <2> DEFINE T == [node : Nodes, depth : Nat]
             n == Head(todo).node
             d == Head(todo).depth
  <2> SUFFICES ASSUME Narrow, options \in OptionSets, todo \in Seq(T), todo # << >>,
                      Kind(n) = "repeat", ~options.coverage, d < options.max_depth
               PROVE  Counts(n, d) = NodeOf[n].min .. Ceiling(n)
    BY DEF Within, CountsOffered
  <2>1. Head(todo) \in T
    <3> HIDE DEF T
    <3>1. Len(todo) \in Nat /\ Len(todo) # 0 /\ Head(todo) = todo[1]
      OBVIOUS
    <3>2. QED
      BY <3>1
  <2>2. n \in Nodes /\ d \in Nat /\ options.max_depth \in Nat
    BY <2>1, GeneratorAssumption
  <2> HIDE DEF n, d
  <2>3. Counts(n, d) = RandomCount(n)
    BY <2>2 DEF Counts, CountReads
  <2>4. QED
    BY <2>2, <2>3, DrawnCounts
<1>2. Narrow /\ Spec => []Narrow
  <2>1. Narrow /\ [Next]_vars => Narrow'
    BY DEF Narrow
  <2>2. QED
    BY <2>1, PTL DEF Spec
<1>3. QED
  BY <1>1, <1>2, NodesAlways, PTL

-----------------------------------------------------------------------------
(* The scalars of a range.                                                *)

(* A drawn index gives a scalar of the range, whatever the surrogates take *)
(* out of it, as long as the range begins by U+E000.                       *)
THEOREM NthScalarInRange ==
  ASSUME NEW lo \in Nat, NEW hi \in Nat, NEW index \in Nat,
         lo <= LastSurrogate + 1, index < ScalarsIn(lo, hi)
  PROVE  NthScalar(lo, hi, index) \in lo .. hi /\ IsScalar(NthScalar(lo, hi, index))
<1>1. CASE lo < FirstSurrogate
  BY <1>1 DEF NthScalar, ScalarsIn, Overlap, Larger, Smaller, IsScalar, MaxScalar,
              FirstSurrogate, LastSurrogate
<1>2. CASE lo >= FirstSurrogate
  BY <1>2 DEF NthScalar, ScalarsIn, Overlap, Larger, Smaller, IsScalar, MaxScalar,
              FirstSurrogate, LastSurrogate
<1> QED BY <1>1, <1>2 DEF FirstSurrogate

(* A range counts as representable exactly when it holds a scalar.         *)
THEOREM ScalarsInExact ==
  ASSUME NEW lo \in Nat, NEW hi \in Nat
  PROVE  ScalarsIn(lo, hi) > 0 <=> \E c \in lo .. hi : IsScalar(c)
<1>1. ASSUME ScalarsIn(lo, hi) > 0
      PROVE  \E c \in lo .. hi : IsScalar(c)
  <2>1. CASE lo <= LastSurrogate + 1
    <3>1. NthScalar(lo, hi, 0) \in lo .. hi /\ IsScalar(NthScalar(lo, hi, 0))
      BY <1>1, <2>1, NthScalarInRange
    <3> QED BY <3>1
  <2>2. CASE lo > LastSurrogate + 1
    <3>1. lo \in lo .. hi /\ IsScalar(lo)
      BY <1>1, <2>2 DEF ScalarsIn, Overlap, Larger, Smaller, IsScalar, MaxScalar,
                        FirstSurrogate, LastSurrogate
    <3> QED BY <3>1
  <2> QED BY <2>1, <2>2 DEF LastSurrogate
<1>2. ASSUME NEW c \in lo .. hi, IsScalar(c)
      PROVE  ScalarsIn(lo, hi) > 0
  BY <1>2 DEF ScalarsIn, Overlap, Larger, Smaller, IsScalar, MaxScalar,
              FirstSurrogate, LastSurrogate
<1> QED BY <1>1, <1>2

(* No scalar is drawn by two indices: uniform indices are uniform scalars. *)
THEOREM NthScalarOnce ==
  ASSUME NEW lo \in Nat, NEW hi \in Nat, NEW i \in Nat, NEW j \in Nat,
         i < j, j < ScalarsIn(lo, hi)
  PROVE  NthScalar(lo, hi, i) < NthScalar(lo, hi, j)
<1> DEFINE below == Overlap(lo, hi, 0, FirstSurrogate - 1)
<1>1. below \in Nat
  BY DEF Overlap, Larger, Smaller, FirstSurrogate
<1>2. below > 0 => lo + below <= FirstSurrogate
  BY DEF Overlap, Larger, Smaller, FirstSurrogate
<1> QED BY <1>1, <1>2 DEF NthScalar, FirstSurrogate, LastSurrogate

(* A range that begins later is left at once: the first index already      *)
(* gives U+E000, which lies below it.                                      *)
THEOREM HighRangeIsLeft ==
  ASSUME NEW lo \in Nat, NEW hi \in Nat, lo > LastSurrogate + 1, lo <= hi
  PROVE  NthScalar(lo, hi, 0) = LastSurrogate + 1 /\ NthScalar(lo, hi, 0) < lo
BY DEF NthScalar, Overlap, Larger, Smaller, FirstSurrogate, LastSurrogate

-----------------------------------------------------------------------------
(* What is emitted is accepted.                                            *)

(* Nothing but the functions of the steps matters to a chain.              *)
LEMMA ChainSame ==
  ASSUME NEW F, NEW G, NEW k \in Nat, NEW p, NEW q, Chain(F, k, p, q),
         \A i \in 1 .. k : G[i] = F[i]
  PROVE  Chain(G, k, p, q)
BY DEF Chain

(* No step leads where one is.                                             *)
LEMMA ChainNone ==
  ASSUME NEW F, NEW p \in Pos
  PROVE  Chain(F, 0, p, p)
<1> DEFINE path == [i \in 0 .. 0 |-> p]
<1>1. path \in [0 .. 0 -> Pos] /\ path[0] = p
  OBVIOUS
<1>2. \A i \in 1 .. 0 : FALSE
  OBVIOUS
<1> HIDE DEF path
<1>3. QED
  BY <1>1, <1>2 DEF Chain

(* One step is a step of the first function.                               *)
LEMMA ChainOne ==
  ASSUME NEW F, NEW p, NEW q, Chain(F, 1, p, q)
  PROVE  q \in F[1][p]
<1>1. PICK path \in [0 .. 1 -> Pos] :
        path[0] = p /\ path[1] = q /\ \A i \in 1 .. 1 : path[i] \in F[i][path[i - 1]]
  BY DEF Chain
<1>2. 1 \in 1 .. 1 /\ 1 - 1 = 0
  OBVIOUS
<1>3. QED
  BY <1>1, <1>2

(* A chain begins and ends at positions.                                   *)
LEMMA ChainEnds ==
  ASSUME NEW F, NEW k \in Nat, NEW p, NEW q, Chain(F, k, p, q)
  PROVE  p \in Pos /\ q \in Pos /\ (k = 0 => p = q)
<1>1. PICK path \in [0 .. k -> Pos] : path[0] = p /\ path[k] = q
  BY DEF Chain
<1>2. 0 \in 0 .. k /\ k \in 0 .. k
  OBVIOUS
<1>3. QED
  BY <1>1, <1>2

(* A chain in two.                                                         *)
LEMMA ChainSplit ==
  ASSUME NEW G, NEW H, NEW c \in Nat, NEW m \in Nat, NEW p, NEW q,
         \A i \in 1 .. m : H[i] = G[c + i],
         Chain(G, c + m, p, q)
  PROVE  \E r \in Pos : Chain(G, c, p, r) /\ Chain(H, m, r, q)
<1>1. PICK path \in [0 .. c + m -> Pos] :
        /\ path[0] = p /\ path[c + m] = q
        /\ \A i \in 1 .. c + m : path[i] \in G[i][path[i - 1]]
  BY DEF Chain
<1> DEFINE first == [i \in 0 .. c |-> path[i]]
           second == [i \in 0 .. m |-> path[c + i]]
<1>2. \A i \in 0 .. c : i \in 0 .. c + m
  OBVIOUS
<1>3. \A i \in 0 .. m : c + i \in 0 .. c + m
  OBVIOUS
<1>4. /\ first \in [0 .. c -> Pos] /\ first[0] = p /\ first[c] = path[c]
      /\ \A i \in 1 .. c : first[i] \in G[i][first[i - 1]]
  BY <1>1, <1>2
<1>5. /\ second \in [0 .. m -> Pos] /\ second[0] = path[c] /\ second[m] = q
  BY <1>1, <1>3
<1>6. ASSUME NEW i \in 1 .. m PROVE second[i] \in H[i][second[i - 1]]
  <2>1. c + i \in 1 .. c + m /\ (c + i) - 1 = c + (i - 1) /\ i - 1 \in 0 .. m /\ i \in 0 .. m
    OBVIOUS
  <2>2. path[c + i] \in G[c + i][path[c + (i - 1)]]
    BY <1>1, <2>1
  <2>3. second[i] = path[c + i] /\ second[i - 1] = path[c + (i - 1)]
    BY <2>1
  <2> HIDE DEF second
  <2>4. QED
    BY <2>2, <2>3
<1>7. path[c] \in Pos
  BY <1>1, <1>2
<1> HIDE DEF first, second
<1>8. QED
  BY <1>4, <1>5, <1>6, <1>7 DEF Chain

(* A step and a chain.                                                     *)
LEMMA ChainCons ==
  ASSUME NEW F, NEW H, NEW m \in Nat, NEW p \in Pos, NEW r \in F[1][p], NEW q,
         \A i \in 1 .. m : H[i] = F[i + 1],
         Chain(H, m, r, q)
  PROVE  Chain(F, m + 1, p, q)
<1>1. PICK path \in [0 .. m -> Pos] :
        /\ path[0] = r /\ path[m] = q
        /\ \A i \in 1 .. m : path[i] \in H[i][path[i - 1]]
  BY DEF Chain
<1> DEFINE long == [i \in 0 .. m + 1 |-> IF i = 0 THEN p ELSE path[i - 1]]
<1>2. \A i \in 0 .. m + 1 : i # 0 => i - 1 \in 0 .. m
  OBVIOUS
<1>3. long \in [0 .. m + 1 -> Pos] /\ long[0] = p
  BY <1>1, <1>2
<1>4. long[m + 1] = q
  BY <1>1
<1>5. ASSUME NEW i \in 1 .. m + 1 PROVE long[i] \in F[i][long[i - 1]]
  <2>1. CASE i = 1
    BY <1>1, <2>1
  <2>2. CASE i # 1
    <3>1. i - 1 \in 1 .. m /\ (i - 1) + 1 = i /\ long[i] = path[i - 1] /\ long[i - 1] = path[(i - 1) - 1]
      BY <2>2
    <3> HIDE DEF long
    <3>2. path[i - 1] \in H[i - 1][path[(i - 1) - 1]] /\ H[i - 1] = F[i]
      BY <1>1, <3>1
    <3>3. QED
      BY <3>1, <3>2
  <2>3. QED
    BY <2>1, <2>2
<1> HIDE DEF long
<1>6. QED
  BY <1>3, <1>4, <1>5 DEF Chain

-----------------------------------------------------------------------------
(* Texts as long as there are positions.                                   *)
Texts == {text \in Seq(Scalars) : Len(text) <= MaxPos}

Begins(text, w) == Len(w) <= Len(text) /\ \A i \in 1 .. Len(w) : text[i] = w[i]

(* What each thing left to walk can be.                                    *)
Steps(sem, list) == [i \in 1 .. Len(list) |-> sem[list[i].node]]

(* Whatever begins as what was emitted, and goes on as what is left to walk*)
(* can, is a match of the rule that was asked for.                         *)
Completes(text) ==
  \A sem : IsMeaning(sem, text) =>
    (Chain(Steps(sem, todo), Len(todo), Len(out), Len(text)) => Len(text) \in sem[Body[start]][0])

Leads ==
  /\ outcome \in {"walking", "ok"} => start \in Rules /\ out \in Seq(Scalars)
  /\ outcome = "walking" => \A text \in Texts : Begins(text, out) => Completes(text)
  /\ outcome = "ok" =>
       \A sem : out \in Texts /\ IsMeaning(sem, out) => Len(out) \in sem[Body[start]][0]

(* The ranges that are walked hold a scalar and begin no later than right  *)
(* after the surrogates.                                                   *)
LowRanges ==
  \A n \in Productive : Kind(n) = "num" /\ NodeOf[n].range =>
    LET v == NodeOf[n].value[1] IN
    v.lo <= LastSurrogate + 1 /\ ScalarsIn(v.lo, v.hi) > 0

(* A chain along what replaces the head is a step of the head.             *)
Expands(n, nodes) ==
  \A text \in Texts : \A sem : IsMeaning(sem, text) =>
    \A p, r \in Pos :
      Chain([i \in 1 .. Len(nodes) |-> sem[nodes[i]]], Len(nodes), p, r) => r \in sem[n][p]

(* Replacing the head by what is a step of it keeps the promise.           *)
LEMMA LeadsReplace ==
  ASSUME NEW S, todo \in Seq([node : S, depth : Nat]), todo # << >>, Leads, outcome = "walking",
         NEW nodes \in Seq(S), NEW d \in Nat, Expands(Head(todo).node, nodes),
         Replace(nodes, d), UNCHANGED <<out, start, outcome>>
  PROVE  Leads'
<1> DEFINE c == Len(nodes)
           m == Len(Tail(todo))
           front == [i \in 1 .. Len(nodes) |-> [node |-> nodes[i], depth |-> d]]
<1>1. c \in Nat /\ m \in Nat /\ Len(todo) = m + 1 /\ \A i \in 1 .. m : Tail(todo)[i] = todo[i + 1]
  OBVIOUS
<1>2. todo' = front \o Tail(todo)
  BY DEF Replace
<1>3. Len(todo') = c + m
      /\ (\A i \in 1 .. c : todo'[i].node = nodes[i])
      /\ (\A i \in 1 .. m : todo'[c + i] = todo[i + 1])
  <2>1. front \in Seq([node : S, depth : Nat]) /\ Len(front) = c
        /\ \A i \in 1 .. c : front[i] = [node |-> nodes[i], depth |-> d]
    <3>1. \A i \in 1 .. c : [node |-> nodes[i], depth |-> d] \in [node : S, depth : Nat]
      OBVIOUS
    <3>2. front \in [1 .. c -> [node : S, depth : Nat]]
      BY <3>1
    <3>3. QED
      BY <1>1, <3>2
  <2>2. Tail(todo) \in Seq([node : S, depth : Nat])
    OBVIOUS
  <2>3. \A i \in 1 .. c : [node |-> nodes[i], depth |-> d].node = nodes[i]
    OBVIOUS
  <2> HIDE DEF front, c, m
  <2>4. /\ Len(front \o Tail(todo)) = c + Len(Tail(todo))
        /\ \A i \in 1 .. c + Len(Tail(todo)) : (front \o Tail(todo))[i] =
             IF i <= c THEN front[i] ELSE Tail(todo)[i - c]
    BY <2>1, <2>2, ConcatProperties
  <2>5. Len(todo') = c + m
    BY <1>2, <2>4 DEF m
  <2>6. ASSUME NEW i \in 1 .. c PROVE todo'[i].node = nodes[i]
    <3>1. i \in 1 .. c + Len(Tail(todo)) /\ i <= c
      BY <1>1 DEF m
    <3>2. QED
      BY <1>2, <2>1, <2>3, <2>4, <3>1
  <2>7. ASSUME NEW i \in 1 .. m PROVE todo'[c + i] = todo[i + 1]
    <3>1. c + i \in 1 .. c + Len(Tail(todo)) /\ ~(c + i <= c) /\ (c + i) - c = i
      BY <1>1 DEF m
    <3>2. QED
      BY <1>1, <1>2, <2>4, <3>1
  <2>8. QED
    BY <2>5, <2>6, <2>7
<1> HIDE DEF c, m, front
<1>4. ASSUME NEW text \in Texts, Begins(text, out), NEW sem, IsMeaning(sem, text),
             Chain(Steps(sem, todo'), Len(todo'), Len(out), Len(text))
      PROVE  Len(text) \in sem[Body[start]][0]
  <2> DEFINE F == Steps(sem, todo)
             G == Steps(sem, todo')
             H == [i \in 1 .. m |-> F[i + 1]]
             N == [i \in 1 .. Len(nodes) |-> sem[nodes[i]]]
  <2>1. /\ \A i \in 1 .. m : G[c + i] = F[i + 1]
        /\ \A i \in 1 .. c : G[i] = N[i]
        /\ F[1] = sem[Head(todo).node]
    <3>1. \A i \in 1 .. m : c + i \in 1 .. c + m /\ i + 1 \in 1 .. m + 1
      BY <1>1
    <3>2. \A i \in 1 .. c : i \in 1 .. c + m
      BY <1>1
    <3>3. 1 \in 1 .. m + 1 /\ Head(todo) = todo[1]
      BY <1>1
    <3>4. QED
      BY <1>1, <1>3, <3>1, <3>2, <3>3 DEF Steps, c
  <2>2. \A i \in 1 .. m : H[i] = F[i + 1]
    OBVIOUS
  <2>3. Chain(G, c + m, Len(out), Len(text))
    BY <1>3, <1>4
  <2> HIDE DEF F, G, H, N
  <2>4. PICK r \in Pos : Chain(G, c, Len(out), r) /\ Chain(H, m, r, Len(text))
    <3>1. \A i \in 1 .. m : H[i] = G[c + i]
      BY <2>1, <2>2
    <3>2. QED
      BY <1>1, <2>3, <3>1, ChainSplit
  <2>5. Chain(N, c, Len(out), r)
    <3>1. \A i \in 1 .. c : N[i] = G[i]
      BY <2>1
    <3>2. QED
      BY <1>1, <2>4, <3>1, ChainSame
  <2>6. Len(out) \in Pos
    BY <1>1, <2>5, ChainEnds
  <2>7. r \in sem[Head(todo).node][Len(out)]
    BY <1>4, <2>5, <2>6 DEF Expands, N, c
  <2>8. r \in F[1][Len(out)]
    BY <2>1, <2>7
  <2>9. Chain(F, m + 1, Len(out), Len(text))
    BY <1>1, <2>2, <2>4, <2>6, <2>8, ChainCons
  <2>10. QED
    BY <1>1, <1>4, <2>9 DEF Leads, Completes, F
<1>5. QED
  BY <1>4 DEF Leads, Completes

-----------------------------------------------------------------------------
(* What each node expands to.                                              *)

(* A meaning is made of sets of positions.                                 *)
LEMMA MeaningType ==
  ASSUME NEW sem, NEW text, IsMeaning(sem, text), NEW n \in Nodes
  PROVE  sem[n] \in [Pos -> SUBSET Pos]
BY DEF IsMeaning

(* An option may be skipped.                                               *)
LEMMA ExpandsNone ==
  ASSUME NEW n \in Nodes, Kind(n) = "optional"
  PROVE  Expands(n, << >>)
<1> SUFFICES ASSUME NEW text \in Texts, NEW sem, IsMeaning(sem, text), NEW p \in Pos, NEW r \in Pos,
                    Chain([i \in 1 .. Len(<< >>) |-> sem[<< >>[i]]], Len(<< >>), p, r)
             PROVE  r \in sem[n][p]
  BY DEF Expands
<1>1. Chain([i \in 1 .. Len(<< >>) |-> sem[<< >>[i]]], 0, p, r)
  OBVIOUS
<1>2. p = r
  BY <1>1, ChainEnds
<1>3. sem[n][p] = sem[Parts(n)[1]][p] \cup {p}
  BY DEF IsMeaning
<1>4. QED
  BY <1>2, <1>3

(* One node in the place of another that means no less.                    *)
LEMMA ExpandsOne ==
  ASSUME NEW n, NEW m,
         \A text \in Texts : \A sem : IsMeaning(sem, text) =>
           \A p \in Pos : sem[m][p] \subseteq sem[n][p]
  PROVE  Expands(n, <<m>>)
<1> SUFFICES ASSUME NEW text \in Texts, NEW sem, IsMeaning(sem, text), NEW p \in Pos, NEW r \in Pos,
                    Chain([i \in 1 .. Len(<<m>>) |-> sem[<<m>>[i]]], Len(<<m>>), p, r)
             PROVE  r \in sem[n][p]
  BY DEF Expands
<1> DEFINE N == [i \in 1 .. Len(<<m>>) |-> sem[<<m>>[i]]]
<1>1. N[1] = sem[m] /\ Chain(N, 1, p, r)
  OBVIOUS
<1> HIDE DEF N
<1>2. r \in N[1][p]
  BY <1>1, ChainOne
<1>3. QED
  BY <1>1, <1>2

(* A branch is a match of its choice.                                      *)
LEMMA ExpandsBranch ==
  ASSUME NEW n \in Nodes, Kind(n) \in {"alt", "optional"}, NEW i \in DOMAIN Parts(n)
  PROVE  Expands(n, <<Parts(n)[i]>>)
<1>1. Parts(n) \in Seq(Nodes) /\ (Kind(n) = "optional" => Len(Parts(n)) = 1)
  BY GrammarAssumption DEF WellFormed, NodeShape, Kind, Parts
<1>2. i \in 1 .. Len(Parts(n))
  BY <1>1
<1>3. ASSUME NEW text \in Texts, NEW sem, IsMeaning(sem, text), NEW p \in Pos
      PROVE  sem[Parts(n)[i]][p] \subseteq sem[n][p]
  <2>1. CASE Kind(n) = "alt"
    <3>1. sem[n][p] = AltEnds(sem, n, p)
      BY <1>3, <2>1 DEF IsMeaning
    <3>2. QED
      BY <1>2, <3>1 DEF AltEnds
  <2>2. CASE Kind(n) = "optional"
    <3>1. sem[n][p] = sem[Parts(n)[1]][p] \cup {p}
      BY <1>3, <2>2 DEF IsMeaning
    <3>2. i = 1
      BY <1>1, <1>2, <2>2
    <3>3. QED
      BY <3>1, <3>2
  <2>3. QED
    BY <2>1, <2>2
<1>4. QED
  BY <1>3, ExpandsOne

(* A body is a match of its reference.                                     *)
LEMMA ExpandsRef ==
  ASSUME NEW n \in Nodes, Kind(n) = "ref"
  PROVE  Expands(n, <<Body[NodeOf[n].target]>>)
<1>1. ASSUME NEW text \in Texts, NEW sem, IsMeaning(sem, text), NEW p \in Pos
      PROVE  sem[n][p] = sem[Body[NodeOf[n].target]][p]
  BY <1>1 DEF IsMeaning
<1>2. QED
  BY <1>1, ExpandsOne

(* The items, one after the other, are a match of the concatenation.       *)
LEMMA ExpandsConcat ==
  ASSUME NEW n \in Nodes, Kind(n) = "concat"
  PROVE  Expands(n, Parts(n))
<1> SUFFICES ASSUME NEW text \in Texts, NEW sem, IsMeaning(sem, text), NEW p \in Pos, NEW r \in Pos,
                    Chain([i \in 1 .. Len(Parts(n)) |-> sem[Parts(n)[i]]], Len(Parts(n)), p, r)
             PROVE  r \in sem[n][p]
  BY DEF Expands
<1>1. sem[n][p] = ConcatEnds(sem, n, p)
  BY DEF IsMeaning
<1>2. QED
  BY <1>1 DEF ConcatEnds, Reach

(* A modulus never makes greater.                                          *)
LEMMA ModulusBelow ==
  ASSUME NEW x \in Nat, NEW y \in Nat, y > 0
  PROVE  x % y \in Nat /\ x % y <= x
OBVIOUS

(* A count that is drawn, or steered to, is a count that is allowed.       *)
LEMMA CountPermitted ==
  ASSUME NEW n \in Nodes, Kind(n) = "repeat", options \in OptionSets, NEW d,
         NEW c \in Counts(n, d)
  PROVE  Permitted(NodeOf[n], c)
<1>1. /\ NodeOf[n].min \in Nat
      /\ NodeOf[n].max # None => NodeOf[n].max \in Nat /\ NodeOf[n].min <= NodeOf[n].max
  BY GrammarAssumption DEF WellFormed, NodeShape, Kind
<1>2. options.spread \in Nat /\ MaxU64 \in Nat
  BY GeneratorAssumption
<1>3. CASE c = NodeOf[n].min
  BY <1>1, <1>3 DEF Permitted
<1>4. CASE CountReads(n) /\ NodeOf[n].min = 0 /\ c = 1
  BY <1>1, <1>4 DEF CountReads, IsNever, Permitted
<1>5. CASE c \in RandomCount(n) /\ c # NodeOf[n].min
  <2> DEFINE min == NodeOf[n].min
             top == Ceiling(n)
             x == (top - min + 1) % (MaxU64 + 1)
  <2>1. top \in Nat /\ (NodeOf[n].max # None => top <= NodeOf[n].max)
    BY <1>1, <1>2 DEF Ceiling, Least
  <2>2. top > min /\ \E j \in Below(x) : c = min + j
    BY <1>1, <1>5, <2>1 DEF RandomCount
  <2>3. min \in Nat
    BY <1>1
  <2> HIDE DEF min, top
  <2>4. x \in Nat /\ x <= top - min + 1
    <3>1. top - min + 1 \in Nat /\ MaxU64 + 1 \in Nat /\ MaxU64 + 1 > 0
      BY <1>2, <2>1, <2>2, <2>3
    <3>2. QED
      BY <3>1, ModulusBelow
  <2> HIDE DEF x
  <2>5. PICK j \in Below(x) : c = min + j
    BY <2>2
  <2>6. j \in Nat /\ j <= top - min
    BY <2>1, <2>2, <2>3, <2>4, <2>5 DEF Below
  <2>7. min <= c /\ c <= top /\ c \in Nat
    BY <2>1, <2>2, <2>3, <2>5, <2>6
  <2>8. NodeOf[n].min <= c
    BY <2>7 DEF min
  <2>9. NodeOf[n].max # None => c <= NodeOf[n].max
    BY <1>1, <2>1, <2>7
  <2>10. QED
    BY <2>8, <2>9 DEF Permitted
<1>6. QED
  BY <1>3, <1>4, <1>5 DEF Counts

(* A permitted number of bodies is a match of the repetition.              *)
LEMMA ExpandsRepeat ==
  ASSUME NEW n \in Nodes, Kind(n) = "repeat", NEW c \in Nat, Permitted(NodeOf[n], c)
  PROVE  Expands(n, [i \in 1 .. c |-> Parts(n)[1]])
<1> DEFINE nodes == [i \in 1 .. c |-> Parts(n)[1]]
<1>1. Len(nodes) = c /\ \A i \in 1 .. c : nodes[i] = Parts(n)[1]
  OBVIOUS
<1> HIDE DEF nodes
<1> SUFFICES ASSUME NEW text \in Texts, NEW sem, IsMeaning(sem, text), NEW p \in Pos, NEW r \in Pos,
                    Chain([i \in 1 .. Len(nodes) |-> sem[nodes[i]]], Len(nodes), p, r)
             PROVE  r \in sem[n][p]
  BY DEF Expands, nodes
<1> DEFINE N == [i \in 1 .. Len(nodes) |-> sem[nodes[i]]]
           f == sem[Parts(n)[1]]
<1>2. Chain(N, c, p, r) /\ \A i \in 1 .. c : Again(f)[i] = N[i]
  BY <1>1 DEF Again
<1> HIDE DEF N
<1>3. Chain(Again(f), c, p, r)
  BY <1>2, ChainSame
<1>4. sem[n][p] = RepeatEnds(sem, n, p)
  BY DEF IsMeaning
<1>5. QED
  BY <1>3, <1>4 DEF RepeatEnds

-----------------------------------------------------------------------------
(* What a terminal is emitted as, it matches.                              *)

(* The elements of a sequence.                                             *)
LEMMA ElementProperties ==
  ASSUME NEW S, NEW list \in Seq(S), NEW i \in 1 .. Len(list)
  PROVE  list[i] \in S
OBVIOUS

(* A sequence over a set is one over every wider set.                      *)
LEMMA SeqWider ==
  ASSUME NEW S, NEW T, S \subseteq T, NEW list \in Seq(S)
  PROVE  list \in Seq(T)
<1>1. Len(list) \in Nat /\ list \in [1 .. Len(list) -> S]
  OBVIOUS
<1>2. list \in [1 .. Len(list) -> T]
  BY <1>1
<1>3. QED
  BY <1>1, <1>2

(* Varying the case is undone by folding it.                               *)
LEMMA CaseFolds ==
  ASSUME NEW c \in Nat
  PROVE  /\ Upper(c) \in Nat /\ Lower(Upper(c)) = Lower(c)
         /\ Lower(c) \in Nat /\ Lower(Lower(c)) = Lower(c)
<1>1. CASE c \in 97 .. 122
  BY <1>1 DEF Upper, Lower
<1>2. CASE c \notin 97 .. 122
  BY <1>2 DEF Upper, Lower
<1>3. QED
  BY <1>1, <1>2

(* A character is emitted as one that compares equal, folded or not.       *)
LEMMA EmittedChar ==
  ASSUME NEW d, d.kind = "char", d.value \in Seq(Scalars), NEW i \in 1 .. Len(d.value),
         NEW c \in EmittedAt(d, i)
  PROVE  c \in Scalars /\ SameChar(c, d.value[i], d.case_sensitive)
<1>1. d.value[i] \in Nat
  BY DEF Scalars
<1>2. CASE CaseVaries(d)
  <2>1. c = Upper(d.value[i]) \/ c = Lower(d.value[i])
    BY <1>2 DEF EmittedAt
  <2>2. ~d.case_sensitive
    BY <1>2 DEF CaseVaries
  <2>3. c \in Nat /\ Lower(c) = Lower(d.value[i])
    BY <1>1, <2>1, CaseFolds
  <2>4. QED
    BY <2>2, <2>3 DEF SameChar, Scalars
<1>3. CASE ~CaseVaries(d)
  <2>1. c = d.value[i]
    BY <1>3 DEF EmittedAt
  <2>2. QED
    BY <1>1, <2>1 DEF SameChar, Scalars
<1>4. QED
  BY <1>2, <1>3

(* A number is emitted as one of its interval.                             *)
LEMMA EmittedNum ==
  ASSUME NEW d, d.kind = "num", d.value \in Seq([lo : Scalars, hi : Scalars]),
         NEW i \in 1 .. Len(d.value), d.value[i].lo <= d.value[i].hi,
         d.range => d.value[i].lo <= LastSurrogate + 1 /\ ScalarsIn(d.value[i].lo, d.value[i].hi) > 0,
         NEW c \in EmittedAt(d, i)
  PROVE  c \in Scalars /\ d.value[i].lo <= c /\ c <= d.value[i].hi
<1> DEFINE lo == d.value[i].lo
           hi == d.value[i].hi
<1>1. lo \in Nat /\ hi \in Nat
  <2>1. d.value[i] \in [lo : Scalars, hi : Scalars]
    BY ElementProperties
  <2>2. QED
    BY <2>1 DEF Scalars
<1>2. c \in IF d.range THEN {NthScalar(lo, hi, k) : k \in Below(ScalarsIn(lo, hi))} ELSE {lo}
  BY DEF EmittedAt
<1>3. CASE ~d.range
  BY <1>1, <1>2, <1>3 DEF Scalars
<1>4. CASE d.range
  <2>1. lo <= LastSurrogate + 1 /\ ScalarsIn(lo, hi) > 0
    BY <1>4
  <2> HIDE DEF lo, hi
  <2>2. PICK k \in Below(ScalarsIn(lo, hi)) : c = NthScalar(lo, hi, k)
    BY <1>2, <1>4
  <2>3. ScalarsIn(lo, hi) \in Nat
    BY <1>1 DEF ScalarsIn, Overlap, Larger, Smaller, MaxScalar, FirstSurrogate, LastSurrogate
  <2>4. k \in Nat /\ k < ScalarsIn(lo, hi)
    BY <2>1, <2>2, <2>3 DEF Below
  <2>5. c \in lo .. hi
    BY <1>1, <2>1, <2>2, <2>4, NthScalarInRange
  <2>6. c \in Nat /\ lo <= c /\ c <= hi
    BY <1>1, <2>5
  <2>7. QED
    BY <2>6 DEF lo, hi, Scalars
<1>5. QED
  BY <1>3, <1>4

(* What a terminal is emitted as, it matches in any text that goes on so.  *)
LEMMA EmissionFits ==
  ASSUME LowRanges, NEW n \in Productive, Kind(n) \in {"char", "num"}, NEW w \in Emissions(n)
  PROVE  /\ w \in Seq(Scalars)
         /\ \A text \in Texts : \A sem : \A p \in Pos :
              /\ IsMeaning(sem, text)
              /\ p + Len(w) <= Len(text)
              /\ \A i \in 1 .. Len(w) : text[p + i] = w[i]
              => p + Len(w) \in sem[n][p]
<1> DEFINE d == NodeOf[n]
           len == Len(d.value)
<1>1. n \in Nodes
  BY DEF Productive
<1>2. /\ d.kind = "char" => d.value \in Seq(Scalars)
      /\ d.kind = "num" => /\ d.value \in Seq([lo : Scalars, hi : Scalars])
                           /\ d.range => len = 1
                           /\ \A i \in 1 .. len : d.value[i].lo <= d.value[i].hi
  <2>1. NodeShape(d)
    BY <1>1, GrammarAssumption DEF WellFormed
  <2> HIDE DEF d
  <2>2. d.kind = "num" => DOMAIN d.value = 1 .. Len(d.value)
    BY <2>1 DEF NodeShape
  <2>3. QED
    BY <2>1, <2>2 DEF NodeShape
<1>3. len \in Nat
  BY <1>2 DEF Kind
<1>4. w \in [1 .. len -> UNION {EmittedAt(d, i) : i \in 1 .. len}]
      /\ \A i \in 1 .. len : w[i] \in EmittedAt(d, i)
  BY DEF Emissions
<1>5. d.kind = "num" /\ d.range =>
        d.value[1].lo <= LastSurrogate + 1 /\ ScalarsIn(d.value[1].lo, d.value[1].hi) > 0
  BY DEF LowRanges, Kind
<1>6. d.kind \in {"char", "num"}
  BY DEF Kind
<1> HIDE DEF d
<1>7. ASSUME NEW i \in 1 .. len
      PROVE  /\ w[i] \in Scalars
             /\ d.kind = "char" => SameChar(w[i], d.value[i], d.case_sensitive)
             /\ d.kind = "num" => d.value[i].lo <= w[i] /\ w[i] <= d.value[i].hi
  <2>1. CASE d.kind = "char"
    BY <1>2, <1>4, <2>1, EmittedChar
  <2>2. CASE d.kind = "num"
    <3>1. d.range => d.value[i].lo <= LastSurrogate + 1 /\ ScalarsIn(d.value[i].lo, d.value[i].hi) > 0
      <4>1. CASE d.range
        <5>1. i = 1
          BY <1>2, <2>2, <4>1
        <5>2. QED
          BY <1>5, <2>2, <4>1, <5>1
      <4>2. QED
        BY <4>1
    <3>2. QED
      BY <1>2, <1>4, <2>2, <3>1, EmittedNum
  <2>3. QED
    BY <1>6, <2>1, <2>2
<1>8. Len(w) = len /\ w \in Seq(Scalars)
  <2> HIDE DEF len
  <2>1. DOMAIN w = 1 .. len /\ w \in [1 .. len -> Scalars]
    BY <1>4, <1>7
  <2>2. QED
    BY <1>3, <2>1
<1>9. ASSUME NEW text \in Texts, NEW sem, NEW p \in Pos, IsMeaning(sem, text),
             p + len <= Len(text), \A i \in 1 .. len : text[p + i] = w[i]
      PROVE  p + len \in sem[n][p]
  <2>1. sem[n][p] = CASE Kind(n) = "alt"      -> AltEnds(sem, n, p)
                     [] Kind(n) = "concat"   -> ConcatEnds(sem, n, p)
                     [] Kind(n) = "repeat"   -> RepeatEnds(sem, n, p)
                     [] Kind(n) = "optional" -> sem[Parts(n)[1]][p] \cup {p}
                     [] Kind(n) = "ref"      -> sem[Body[NodeOf[n].target]][p]
                     [] OTHER                -> TerminalEnds(n, text, p)
    BY <1>1, <1>9 DEF IsMeaning
  <2>2. sem[n][p] = TerminalEnds(n, text, p)
    BY <2>1
  <2>3. CASE d.kind = "char"
    <3>1. TerminalEnds(n, text, p) = MatchCharVal(d, text, p)
      BY <2>3 DEF TerminalEnds, Kind, d
    <3>2. p + len \in MatchCharVal(d, text, p)
      BY <1>7, <1>9, <2>3 DEF MatchCharVal
    <3>3. QED
      BY <2>2, <3>1, <3>2
  <2>4. CASE d.kind = "num"
    <3>1. TerminalEnds(n, text, p) = MatchNumVal(d, text, p)
      BY <2>4 DEF TerminalEnds, Kind, d
    <3>2. p + len \in MatchNumVal(d, text, p)
      BY <1>7, <1>9, <2>4 DEF MatchNumVal
    <3>3. QED
      BY <2>2, <3>1, <3>2
  <2>5. QED
    BY <1>6, <2>3, <2>4
<1>10. QED
  BY <1>8, <1>9

-----------------------------------------------------------------------------
(* The steps of a walk.                                                    *)

(* What is emitted takes the place of the terminal.                        *)
LEMMA LeadsTerminal ==
  ASSUME LowRanges, todo \in Seq([node : Productive, depth : Nat]), Leads, VisitTerminal
  PROVE  Leads'
<1> DEFINE n == Head(todo).node
<1>1. /\ outcome = "walking" /\ todo # << >> /\ Kind(n) \in {"char", "num"} /\ start' = start
      /\ \E w \in Emissions(n) :
           IF TooLong(w) THEN Fail("OutputLimit")
           ELSE out' = out \o w /\ todo' = Tail(todo) /\ UNCHANGED outcome
  BY DEF VisitTerminal, Visit, Idle
<1>2. PICK w \in Emissions(n) :
        IF TooLong(w) THEN Fail("OutputLimit")
        ELSE out' = out \o w /\ todo' = Tail(todo) /\ UNCHANGED outcome
  BY <1>1
<1>3. CASE TooLong(w)
  BY <1>2, <1>3 DEF Fail, Leads
<1>4. CASE ~TooLong(w)
  <2>1. Head(todo) \in [node : Productive, depth : Nat] /\ Len(todo) \in Nat \ {0}
    <3>1. Len(todo) \in Nat \ {0} /\ Head(todo) = todo[1]
      BY <1>1
    <3>2. 1 \in 1 .. Len(todo)
      BY <3>1
    <3>3. todo[1] \in [node : Productive, depth : Nat]
      BY <3>2, ElementProperties
    <3>4. QED
      BY <3>1, <3>3
  <2>2. n \in Productive /\ n \in Nodes
    BY <2>1 DEF Productive
  <2> HIDE DEF n
  <2>3. /\ w \in Seq(Scalars)
        /\ \A text \in Texts : \A sem : \A p \in Pos :
             /\ IsMeaning(sem, text)
             /\ p + Len(w) <= Len(text)
             /\ \A i \in 1 .. Len(w) : text[p + i] = w[i]
             => p + Len(w) \in sem[n][p]
    BY <1>1, <2>2, EmissionFits
  <2>4. out' = out \o w /\ todo' = Tail(todo) /\ outcome' = "walking"
    BY <1>1, <1>2, <1>4
  <2>5. out \in Seq(Scalars) /\ start \in Rules
    BY <1>1 DEF Leads
  <2>6. /\ out' \in Seq(Scalars) /\ Len(out') = Len(out) + Len(w)
        /\ \A i \in 1 .. Len(out) : out'[i] = out[i]
        /\ \A i \in 1 .. Len(w) : out'[Len(out) + i] = w[i]
    <3>1. /\ out \o w \in Seq(Scalars) /\ Len(out \o w) = Len(out) + Len(w)
          /\ \A i \in 1 .. Len(out) + Len(w) : (out \o w)[i] =
               IF i <= Len(out) THEN out[i] ELSE w[i - Len(out)]
      BY <2>3, <2>5, ConcatProperties
    <3>2. Len(out) \in Nat /\ Len(w) \in Nat
      BY <2>3, <2>5
    <3>3. \A i \in 1 .. Len(w) : Len(out) + i \in 1 .. Len(out) + Len(w) /\ ~(Len(out) + i <= Len(out))
                                 /\ (Len(out) + i) - Len(out) = i
      BY <3>2
    <3>4. \A i \in 1 .. Len(out) : i \in 1 .. Len(out) + Len(w) /\ i <= Len(out)
      BY <3>2
    <3>5. QED
      BY <2>4, <3>1, <3>3, <3>4
  <2>7. ASSUME NEW text \in Texts, Begins(text, out'), NEW sem, IsMeaning(sem, text),
               Chain(Steps(sem, todo'), Len(todo'), Len(out'), Len(text))
        PROVE  Len(text) \in sem[Body[start]][0]
    <3> DEFINE F == Steps(sem, todo)
               H == Steps(sem, todo')
               m == Len(Tail(todo))
    <3>1. Len(out) \in Nat /\ Len(w) \in Nat /\ Len(text) \in Nat /\ Len(text) <= MaxPos
      BY <2>3, <2>5, <2>7 DEF Texts
    <3>2. Len(out) + Len(w) <= Len(text) /\ Len(out) \in Pos
      <4>1. Len(out) + Len(w) <= Len(text)
        BY <2>6, <2>7 DEF Begins
      <4>2. Len(out') \in Pos
        <5>1. Len(todo') \in Nat
          BY <2>4, <1>1
        <5>2. QED
          BY <2>7, <5>1, ChainEnds
      <4>3. Len(out) \in Pos
        BY <2>6, <3>1, <4>2, GeneratorAssumption DEF Pos
      <4>4. QED
        BY <4>1, <4>3
    <3>3. \A i \in 1 .. Len(w) : text[Len(out) + i] = w[i]
      <4>1. \A i \in 1 .. Len(w) : Len(out) + i \in 1 .. Len(out')
        BY <2>6, <3>1
      <4>2. QED
        BY <2>6, <2>7, <4>1 DEF Begins
    <3>4. Len(out') \in sem[n][Len(out)]
      BY <2>3, <2>6, <2>7, <3>2, <3>3
    <3>5. Begins(text, out)
      <4>1. \A i \in 1 .. Len(out) : i \in 1 .. Len(out')
        BY <2>6, <3>1
      <4>2. Len(out) <= Len(text)
        BY <3>1, <3>2
      <4>3. QED
        BY <2>6, <2>7, <4>1, <4>2 DEF Begins
    <3>6. m \in Nat /\ Len(todo) = m + 1 /\ (\A i \in 1 .. m : Tail(todo)[i] = todo[i + 1])
          /\ Head(todo) = todo[1]
      BY <1>1
    <3>7. F[1] = sem[n] /\ \A i \in 1 .. m : H[i] = F[i + 1]
      <4>1. 1 \in 1 .. m + 1 /\ \A i \in 1 .. m : i + 1 \in 1 .. m + 1
        BY <3>6
      <4>2. Len(todo') = m
        BY <2>4
      <4>3. QED
        BY <2>4, <3>6, <4>1, <4>2 DEF Steps, n
    <3>8. Chain(H, m, Len(out'), Len(text))
      BY <2>4, <2>7
    <3> HIDE DEF F, H, m
    <3>9. Len(out') \in F[1][Len(out)]
      BY <3>4, <3>7
    <3>10. Chain(F, m + 1, Len(out), Len(text))
      BY <3>2, <3>6, <3>7, <3>8, <3>9, ChainCons
    <3>11. QED
      BY <1>1, <2>7, <3>5, <3>6, <3>10 DEF Leads, Completes, F
  <2>8. QED
    BY <1>1, <2>4, <2>5, <2>6, <2>7 DEF Leads, Completes
<1>5. QED
  BY <1>3, <1>4

(* Every step keeps the promise: what was emitted and what is left to walk *)
(* together make up a match.                                               *)
LEMMA LeadsStep ==
  ASSUME WaysOut, LowRanges, Within(Productive), Leads, [Next]_vars
  PROVE  Leads'
<1> DEFINE T == [node : Productive, depth : Nat]
           n == Head(todo).node
           d == Head(todo).depth
<1>1. todo \in Seq(T) /\ options \in OptionSets /\ Confines(Productive)
  BY ProductiveClosed DEF Within
<1>2. ASSUME todo # << >> PROVE n \in Productive /\ n \in Nodes /\ d \in Nat
  <2>1. Head(todo) \in T
    <3> HIDE DEF T
    <3>1. Len(todo) \in Nat /\ Len(todo) # 0 /\ Head(todo) = todo[1]
      BY <1>1, <1>2
    <3>2. QED
      BY <1>1, <3>1
  <2>2. QED
    BY <2>1 DEF Productive
<1>3. ASSUME todo # << >>, outcome = "walking", UNCHANGED <<out, start, outcome>>,
             NEW nodes \in Seq(Nodes), NEW e \in Nat, Expands(n, nodes), Replace(nodes, e)
      PROVE  Leads'
  <2>1. todo \in Seq([node : Nodes, depth : Nat])
    <3>1. [node : Productive, depth : Nat] \subseteq [node : Nodes, depth : Nat]
      BY DEF Productive
    <3>2. QED
      BY <1>1, <3>1, SeqWider DEF T
  <2>2. QED
    BY <1>3, <2>1, LeadsReplace
<1>4. ASSUME UNCHANGED <<out, start, outcome>>, outcome # "walking" PROVE Leads'
  BY <1>4 DEF Leads
<1>5. ASSUME outcome' \notin {"walking", "ok"} PROVE Leads'
  BY <1>5 DEF Leads
<1>6. Parts(n) \in Seq(Nodes) \/ todo = << >>
  BY <1>2, GrammarAssumption DEF WellFormed, NodeShape, Parts
<1> HIDE DEF T, n, d
<1>7. CASE UNCHANGED vars
  BY <1>7 DEF vars, Leads, Completes
<1>8. CASE WithOptions
  BY <1>4, <1>8 DEF WithOptions, Idle
<1>9. CASE Ask
  <2>1. PICK r \in Session.asked : Generate(r) \/ Uncovered(r)
    BY <1>9 DEF Ask
  <2>2. CASE Uncovered(r)
    BY <1>4, <2>2 DEF Uncovered, Idle
  <2>3. CASE Generate(r) /\ Refuse(r)
    <3>1. outcome' = "refused"
      BY <2>3 DEF Generate
    <3>2. QED
      BY <1>5, <3>1
  <2>4. CASE Generate(r) /\ ~Refuse(r)
    <3>1. /\ outcome' = "walking" /\ out' = << >> /\ start' = r
          /\ todo' = <<[node |-> Body[r], depth |-> 0]>>
      BY <2>4 DEF Generate, Afresh
    <3>2. r \in Rules
      BY <2>4, GeneratorAssumption DEF Refuse
    <3>3. ASSUME NEW text, NEW sem, Chain(Steps(sem, todo'), Len(todo'), Len(out'), Len(text))
          PROVE  Len(text) \in sem[Body[r]][0]
      <4>1. Len(todo') = 1 /\ Len(out') = 0 /\ todo'[1].node = Body[r]
        BY <3>1
      <4>2. Steps(sem, todo')[1] = sem[Body[r]]
        BY <4>1 DEF Steps
      <4>3. Chain(Steps(sem, todo'), 1, 0, Len(text))
        BY <3>3, <4>1
      <4>4. QED
        BY <4>2, <4>3, ChainOne
    <3>4. << >> \in Seq(Scalars)
      OBVIOUS
    <3>5. QED
      BY <3>1, <3>2, <3>3, <3>4 DEF Leads, Completes
  <2>5. QED
    BY <2>1, <2>2, <2>3, <2>4
<1>10. CASE VisitOverLimit
  <2>1. outcome' = "StepLimit"
    BY <1>10 DEF VisitOverLimit, Fail
  <2>2. QED
    BY <1>5, <2>1
<1>11. CASE VisitChoice
  <2>1. /\ todo # << >> /\ outcome = "walking" /\ UNCHANGED <<out, start, outcome>>
        /\ Kind(n) \in {"alt", "optional"}
        /\ \E i \in Select(n, d) :
             Replace(IF i \in DOMAIN Parts(n) THEN <<Parts(n)[i]>> ELSE << >>, d)
    BY <1>11 DEF VisitChoice, Visit, Idle, n, d
  <2>2. PICK i \in Select(n, d) :
          Replace(IF i \in DOMAIN Parts(n) THEN <<Parts(n)[i]>> ELSE << >>, d)
    BY <2>1
  <2>3. CASE i \in DOMAIN Parts(n)
    <3>1. Expands(n, <<Parts(n)[i]>>) /\ <<Parts(n)[i]>> \in Seq(Nodes)
      <4>1. Expands(n, <<Parts(n)[i]>>)
        BY <1>2, <2>1, <2>3, ExpandsBranch
      <4>2. <<Parts(n)[i]>> \in Seq(Nodes)
        BY <1>6, <2>1, <2>3
      <4>3. QED
        BY <4>1, <4>2
    <3>2. QED
      BY <1>2, <1>3, <2>1, <2>2, <2>3, <3>1
  <2>4. CASE i \notin DOMAIN Parts(n)
    <3>1. Kind(n) = "optional"
      BY <2>2, <2>4, SelectUsable DEF Usable
    <3>2. Expands(n, << >>) /\ << >> \in Seq(Nodes)
      BY <1>2, <2>1, <3>1, ExpandsNone
    <3>3. QED
      BY <1>2, <1>3, <2>1, <2>2, <2>4, <3>2
  <2>5. QED
    BY <2>3, <2>4
<1>12. CASE VisitConcat
  <2>1. /\ todo # << >> /\ outcome = "walking" /\ UNCHANGED <<out, start, outcome>>
        /\ Kind(n) = "concat" /\ Replace(Parts(n), d)
    BY <1>12 DEF VisitConcat, Visit, Idle, n, d
  <2>2. QED
    BY <1>2, <1>3, <1>6, <2>1, ExpandsConcat
<1>13. CASE VisitRepeat
  <2>1. /\ todo # << >> /\ outcome = "walking" /\ UNCHANGED <<out, start, outcome>>
        /\ Kind(n) = "repeat"
        /\ \E c \in Counts(n, d) : Replace([i \in 1 .. c |-> Parts(n)[1]], d)
    BY <1>13 DEF VisitRepeat, Visit, Idle, n, d
  <2>2. PICK c \in Counts(n, d) : Replace([i \in 1 .. c |-> Parts(n)[1]], d)
    BY <2>1
  <2>3. c \in Nat /\ Permitted(NodeOf[n], c)
    BY <1>1, <1>2, <2>1, CountFacts, CountPermitted
  <2>4. Parts(n)[1] \in Nodes
    <3>1. Parts(n) \in Seq(Nodes) /\ Len(Parts(n)) = 1
      BY <1>2, <2>1, GrammarAssumption DEF WellFormed, NodeShape, Parts, Kind
    <3>2. QED
      BY <3>1
  <2>5. [i \in 1 .. c |-> Parts(n)[1]] \in Seq(Nodes)
    <3>1. [i \in 1 .. c |-> Parts(n)[1]] \in [1 .. c -> Nodes]
      BY <2>4
    <3>2. QED
      BY <2>3, <3>1
  <2>6. Expands(n, [i \in 1 .. c |-> Parts(n)[1]])
    BY <1>2, <2>1, <2>3, ExpandsRepeat
  <2>7. QED
    BY <1>2, <1>3, <2>1, <2>2, <2>5, <2>6
<1>14. CASE VisitRef
  <2>1. /\ todo # << >> /\ outcome = "walking" /\ UNCHANGED <<out, start, outcome>>
        /\ Kind(n) = "ref" /\ Replace(<<Body[NodeOf[n].target]>>, d + 1)
    BY <1>14 DEF VisitRef, Visit, Idle, n, d
  <2>2. <<Body[NodeOf[n].target]>> \in Seq(Nodes) /\ d + 1 \in Nat
    <3>1. NodeOf[n].target \in Rules /\ Body \in [Rules -> Nodes]
      BY <1>2, <2>1, GrammarAssumption DEF WellFormed, NodeShape, Kind
    <3>2. QED
      BY <1>2, <2>1, <3>1
  <2>3. QED
    BY <1>2, <1>3, <2>1, <2>2, ExpandsRef
<1>15. CASE VisitTerminal
  BY <1>1, <1>15, LeadsTerminal DEF T
<1>16. CASE Commit
  <2>1. outcome = "walking" /\ todo = << >> /\ outcome' = "ok" /\ UNCHANGED <<out, start>>
    BY <1>16 DEF Commit, Idle
  <2>2. start \in Rules /\ out \in Seq(Scalars)
    BY <2>1 DEF Leads
  <2>3. ASSUME NEW sem, out \in Texts, IsMeaning(sem, out)
        PROVE  Len(out) \in sem[Body[start]][0]
    <3>1. Begins(out, out) /\ Len(out) \in Pos
      BY <2>3 DEF Begins, Texts, Pos
    <3>2. Chain(Steps(sem, todo), Len(todo), Len(out), Len(out))
      <4>1. Len(todo) = 0
        BY <2>1
      <4>2. QED
        BY <3>1, <4>1, ChainNone
    <3>3. QED
      BY <2>1, <2>3, <3>1, <3>2 DEF Leads, Completes
  <2>4. QED
    BY <2>1, <2>2, <2>3 DEF Leads
<1>17. QED
  BY <1>7, <1>8, <1>9, <1>10, <1>11, <1>12, <1>13, <1>14, <1>15, <1>16 DEF Next, Walk

(* What `Accepts` says of a text is what the grammar means on it.          *)
AcceptsMeaning ==
  \A text \in Texts : \E sem :
    /\ IsMeaning(sem, text)
    /\ \A r \in Rules : Len(text) \in sem[Body[r]][0] => Accepts(text, r)

(* The two halves of the oracle agree: each string a call returns is one   *)
(* the grammar accepts, whatever was drawn, steered, saturated or cut off  *)
(* before (generate).  The ranges above the surrogates, and the bodies that*)
(* match nothing, are the only exceptions.                                 *)
THEOREM OutputIsAccepted ==
  WaysOut /\ LowRanges /\ AcceptsMeaning /\ Spec => [](Len(out) <= MaxPos => OutputAccepted)
<1> DEFINE Fit == WaysOut /\ LowRanges /\ AcceptsMeaning
           J == Fit /\ Within(Productive) /\ Leads
<1>1. Fit /\ Init => J
  BY WithinInit DEF Init, Leads
<1>2. J /\ [Next]_vars => J'
  <2> SUFFICES ASSUME J, [Next]_vars PROVE J'
    OBVIOUS
  <2>1. Fit'
    BY DEF WaysOut, LowRanges, AcceptsMeaning
  <2>2. Within(Productive)'
    BY ProductiveClosed, WithinStep
  <2>3. Leads'
    BY LeadsStep
  <2>4. QED
    BY <2>1, <2>2, <2>3
<1>3. J => (Len(out) <= MaxPos => OutputAccepted)
  <2> SUFFICES ASSUME J, Len(out) <= MaxPos, outcome = "ok" PROVE Accepts(out, start)
    BY DEF OutputAccepted
  <2>1. out \in Texts /\ start \in Rules
    BY DEF Leads, Texts
  <2>2. PICK sem : IsMeaning(sem, out)
                   /\ \A r \in Rules : Len(out) \in sem[Body[r]][0] => Accepts(out, r)
    BY <2>1 DEF AcceptsMeaning
  <2>3. Len(out) \in sem[Body[start]][0]
    BY <2>1, <2>2 DEF Leads
  <2>4. QED
    BY <2>1, <2>2, <2>3
<1>4. QED
  BY <1>1, <1>2, <1>3, PTL DEF Spec

-----------------------------------------------------------------------------
(* The generatable graph leads from nodes to nodes.                        *)
LEMMA EdgesFacts ==
  ASSUME NEW n \in Nodes
  PROVE  /\ Edges \in [Nodes -> SUBSET Nodes]
         /\ Kind(n) \in {"alt", "optional"} =>
              Edges[n] = {Parts(n)[i] : i \in Usable(n) \cap DOMAIN Parts(n)}
         /\ Kind(n) \notin {"alt", "optional"} => Edges[n] = Reachable(n)
<1>1. ASSUME NEW m \in Nodes PROVE Successors(m) \subseteq Nodes
  <2>1. Parts(m) \in Seq(Nodes) /\ (Kind(m) = "ref" => NodeOf[m].target \in Rules)
        /\ Body \in [Rules -> Nodes]
    BY GrammarAssumption DEF WellFormed, NodeShape, Parts, Kind
  <2>2. QED
    BY <2>1 DEF Successors
<1>2. ASSUME NEW m \in Nodes
      PROVE  (CASE Kind(m) \in {"alt", "optional"} ->
                     {Parts(m)[i] : i \in Usable(m) \cap DOMAIN Parts(m)}
                [] OTHER -> Reachable(m)) \in SUBSET Nodes
  <2>1. Reachable(m) \in SUBSET Nodes
    BY <1>1 DEF Reachable
  <2>2. Parts(m) \in Seq(Nodes)
    BY GrammarAssumption DEF WellFormed, NodeShape, Parts
  <2>3. {Parts(m)[i] : i \in Usable(m) \cap DOMAIN Parts(m)} \in SUBSET Nodes
    BY <2>2
  <2>4. QED
    BY <2>1, <2>3
<1>3. Edges \in [Nodes -> SUBSET Nodes]
  BY <1>2 DEF Edges
<1>4. QED
  BY <1>3 DEF Edges

(* The units of a body are those of the nodes a walk from it can visit.    *)
LEMMA UnitsFacts ==
  ASSUME NEW b \in Nodes
  PROVE  ReachableUnits[b] = {u \in Units : u[1] \in Hull({b}, Edges, Nodes)}
<1> DEFINE P(g) == g = [S \in SUBSET Nodes |->
                          IF S \cup UNION {Edges[n] : n \in S} = S THEN S
                          ELSE g[S \cup UNION {Edges[n] : n \in S}]]
           G == CHOOSE g : P(g)
           h == [S \in SUBSET Nodes |-> Hull(S, Edges, Nodes)]
<1>1. Edges \in [Nodes -> SUBSET Nodes]
  BY EdgesFacts
<1>2. ReachableUnits[b] = {u \in Units : u[1] \in G[{b}]}
  BY DEF ReachableUnits
<1>3. Grows(h, Edges, Nodes)
  BY <1>1, HullIsGrown
<1>4. P(h)
  <2>1. h = [S \in SUBSET Nodes |-> h[S]]
    OBVIOUS
  <2>2. \A S \in SUBSET Nodes : h[S] = IF S \cup UNION {Edges[n] : n \in S} = S THEN S
                                       ELSE h[S \cup UNION {Edges[n] : n \in S}]
    BY <1>3 DEF Grows
  <2> HIDE DEF h
  <2>3. QED
    BY <2>1, <2>2
<1> HIDE DEF h
<1>5. P(G)
  <2> HIDE DEF P
  <2>1. QED
    BY <1>4
<1>6. Grows(G, Edges, Nodes)
  <2> HIDE DEF G
  <2>1. \A S \in SUBSET Nodes : G[S] = IF S \cup UNION {Edges[n] : n \in S} = S THEN S
                                       ELSE G[S \cup UNION {Edges[n] : n \in S}]
    BY <1>5
  <2>2. QED
    BY <2>1 DEF Grows
<1> HIDE DEF G, P
<1>7. G[{b}] = Hull({b}, Edges, Nodes)
  <2>1. IsFiniteSet(Nodes) /\ {b} \in SUBSET Nodes
    BY GeneratorAssumption
  <2>2. QED
    BY <1>1, <1>6, <2>1, GrownIsHull
<1>8. QED
  BY <1>2, <1>7

(* What the search knows after `s[1]` rounds: the nodes no further from    *)
(* what is uncovered.                                                      *)
Tables == [Nodes -> Nat \cup {None}]
Searches == Nat \X Tables
NewFound(s) == {n \in Nodes : s[2][n] = None /\ \E m \in Edges[n] : s[2][m] = s[1]}
NextRound(s) == <<s[1] + 1, [n \in Nodes |-> IF n \in NewFound(s) THEN s[1] + 1 ELSE s[2][n]]>>

(* What is uncovered is found, and so is all that leads there, but for what*)
(* leads to what was found last; and nothing else is.                      *)
Halfway(s, From) ==
  /\ \A n \in Nodes : s[2][n] # None => s[2][n] <= s[1]
  /\ \A n \in From : s[2][n] # None
  /\ \A n \in Nodes : \A m \in Edges[n] :
       s[2][m] # None /\ s[2][m] # s[1] => s[2][n] # None
  /\ \A n \in Nodes :
       s[2][n] # None => n \in From \/ \E m \in Edges[n] : s[2][m] # None

(* Found is what leads there, all of it.                                   *)
LeadsThere(D, From) ==
  /\ D \in Tables
  /\ \A n \in From : D[n] # None
  /\ \A n \in Nodes : \A m \in Edges[n] : D[m] # None => D[n] # None
  /\ \A n \in Nodes : D[n] # None => n \in From \/ \E m \in Edges[n] : D[m] # None

(* A round makes another table.                                            *)
LEMMA RoundFacts ==
  ASSUME NEW s \in Searches
  PROVE  /\ s[1] \in Nat /\ s[2] \in Tables
         /\ NextRound(s)[1] = s[1] + 1 /\ NextRound(s)[2] \in Tables
         /\ \A n \in Nodes :
              NextRound(s)[2][n] = IF n \in NewFound(s) THEN s[1] + 1 ELSE s[2][n]
         /\ NextRound(s) \in Searches
<1>1. s[1] \in Nat /\ s[2] \in Tables
  BY DEF Searches
<1> DEFINE E == [n \in Nodes |-> IF n \in NewFound(s) THEN s[1] + 1 ELSE s[2][n]]
<1>2. E \in Tables
  <2>1. \A n \in Nodes : s[2][n] \in Nat \cup {None}
    BY <1>1 DEF Tables
  <2>2. \A n \in Nodes : (IF n \in NewFound(s) THEN s[1] + 1 ELSE s[2][n]) \in Nat \cup {None}
    <3>1. s[1] + 1 \in Nat
      BY <1>1
    <3> DEFINE k == s[1] + 1
    <3> HIDE DEF k
    <3>2. k \in Nat => \A n \in Nodes : (IF n \in NewFound(s) THEN k ELSE s[2][n]) \in Nat \cup {None}
      BY <2>1
    <3>3. QED
      BY <3>1, <3>2 DEF k
  <2>3. QED
    BY <2>2 DEF Tables
<1>3. \A n \in Nodes : E[n] = IF n \in NewFound(s) THEN s[1] + 1 ELSE s[2][n]
  OBVIOUS
<1>4. NextRound(s) = <<s[1] + 1, E>>
  BY DEF NextRound
<1> HIDE DEF E
<1>5. QED
  BY <1>1, <1>2, <1>3, <1>4 DEF Searches

(* A round gets on, or the search is over.                                 *)
LEMMA SearchRound ==
  ASSUME NEW From \in SUBSET Nodes, NEW s \in Searches, Halfway(s, From)
  PROVE  /\ NextRound(s) \in Searches
         /\ NewFound(s) = {} => LeadsThere(s[2], From)
         /\ NewFound(s) # {} =>
              /\ Halfway(NextRound(s), From)
              /\ Cardinality({n \in Nodes : NextRound(s)[2][n] = None})
                   < Cardinality({n \in Nodes : s[2][n] = None})
<1> DEFINE k == s[1]  D == s[2]  E == NextRound(s)[2]
<1>1. k \in Nat /\ D \in Tables /\ None \notin Nat
  BY GrammarAssumption DEF WellFormed, Searches
<1>2. /\ NextRound(s)[1] = k + 1
      /\ \A n \in Nodes : E[n] = IF n \in NewFound(s) THEN k + 1 ELSE D[n]
      /\ E \in Tables /\ NextRound(s) \in Searches
  BY RoundFacts
<1>3. \A n \in Nodes : n \in NewFound(s) <=> D[n] = None /\ \E m \in Edges[n] : D[m] = k
  BY DEF NewFound
<1>4. /\ \A n \in Nodes : D[n] # None => D[n] <= k
      /\ \A n \in From : D[n] # None
      /\ \A n \in Nodes : \A m \in Edges[n] : D[m] # None /\ D[m] # k => D[n] # None
      /\ \A n \in Nodes : D[n] # None => n \in From \/ \E m \in Edges[n] : D[m] # None
  BY DEF Halfway
<1>5. \A n \in Nodes : Edges[n] \subseteq Nodes
  BY EdgesFacts
<1>6. NewFound(s) \subseteq Nodes
  BY DEF NewFound
<1> HIDE DEF k, D, E
<1>7. ASSUME NewFound(s) = {} PROVE LeadsThere(D, From)
  <2>1. \A n \in Nodes : \A m \in Edges[n] : D[m] # None => D[n] # None
    BY <1>1, <1>3, <1>4, <1>7
  <2>2. QED
    BY <1>1, <1>4, <2>1 DEF LeadsThere
<1>8. ASSUME NewFound(s) # {}
      PROVE  /\ Halfway(NextRound(s), From)
             /\ Cardinality({n \in Nodes : E[n] = None}) < Cardinality({n \in Nodes : D[n] = None})
  <2>1. \A n \in Nodes : E[n] # None => E[n] <= k + 1
    BY <1>1, <1>2, <1>4 DEF Tables
  <2>2. \A n \in Nodes : D[n] # None => E[n] # None /\ E[n] = D[n]
    BY <1>2, <1>3
  <2>3. \A n \in From : E[n] # None
    BY <1>4, <2>2
  <2>4. ASSUME NEW n \in Nodes, NEW m \in Edges[n], E[m] # None, E[m] # k + 1
        PROVE  E[n] # None
    <3>1. m \in Nodes /\ D[m] # None /\ E[m] = D[m]
      BY <1>2, <1>5, <2>4
    <3>2. CASE D[m] = k /\ D[n] = None
      <4>1. n \in NewFound(s)
        BY <1>3, <3>2
      <4>2. QED
        BY <1>1, <1>2, <4>1
    <3>3. CASE D[m] # k \/ D[n] # None
      <4>1. D[n] # None
        BY <1>4, <3>1, <3>3
      <4>2. QED
        BY <2>2, <4>1
    <3>4. QED
      BY <3>2, <3>3
  <2>5. ASSUME NEW n \in Nodes, E[n] # None
        PROVE  n \in From \/ \E m \in Edges[n] : E[m] # None
    <3>1. n \in From \/ \E m \in Edges[n] : D[m] # None
      <4>1. CASE D[n] # None
        BY <1>4, <4>1
      <4>2. CASE D[n] = None
        <5>1. n \in NewFound(s)
          BY <1>2, <2>5, <4>2
        <5>2. QED
          BY <1>1, <1>3, <5>1
      <4>3. QED
        BY <4>1, <4>2
    <3>2. QED
      BY <1>5, <2>2, <3>1
  <2>6. Halfway(NextRound(s), From)
    BY <1>2, <2>1, <2>3, <2>4, <2>5 DEF Halfway, E
  <2>7. Cardinality({n \in Nodes : E[n] = None}) < Cardinality({n \in Nodes : D[n] = None})
    <3> DEFINE A == {n \in Nodes : E[n] = None}  B == {n \in Nodes : D[n] = None}
    <3>1. A \subseteq B
      BY <2>2
    <3>2. PICK n \in Nodes : n \in NewFound(s)
      BY <1>6, <1>8
    <3>3. n \in B /\ n \notin A
      BY <1>1, <1>2, <1>3, <3>2
    <3>4. IsFiniteSet(B) /\ A # B
      BY <3>3, FS_Subset, GeneratorAssumption
    <3>5. IsFiniteSet(A) /\ Cardinality(A) < Cardinality(B)
      <4> HIDE DEF A, B
      <4>1. IsFiniteSet(A) /\ Cardinality(A) <= Cardinality(B) /\ (Cardinality(A) = Cardinality(B) => A = B)
        BY <3>1, <3>4, FS_Subset
      <4>2. Cardinality(A) \in Nat /\ Cardinality(B) \in Nat
        BY <3>4, <4>1, FS_CardinalityType
      <4>3. QED
        BY <3>4, <4>1, <4>2
    <3>6. QED
      BY <3>5
  <2>8. QED
    BY <2>6, <2>7
<1>9. QED
  BY <1>2, <1>7, <1>8 DEF D, E

(* The table of distances tells from where something uncovered can be got  *)
(* to.                                                                     *)
LEMMA DistanceFacts ==
  ASSUME NEW C
  PROVE  LeadsThere(Distances(C), {u[1] : u \in Units \ C})
<1> DEFINE From == {u[1] : u \in Units \ C}
           Stop == {s \in Searches : NewFound(s) = {}}
           P(g) == g = [s \in Searches |-> IF NewFound(s) = {} THEN s[2] ELSE g[NextRound(s)]]
           G == CHOOSE g : P(g)
           zero == <<0, [n \in Nodes |-> IF n \in From THEN 0 ELSE None]>>
<1>1. Distances(C) = G[zero]
  BY DEF Distances, NewFound, NextRound, Searches, Tables, Unreachable
<1>2. ASSUME NEW s \in Searches PROVE NextRound(s) \in Searches
  BY <1>2, RoundFacts
<1>3. P(G)
  <2>1. \E g : P(g)
    <3> DEFINE next == [s \in Searches |-> NextRound(s)]
               last == [s \in Searches |-> s[2]]
    <3>1. next \in [Searches -> Searches] /\ Stop \in SUBSET Searches
      BY <1>2
    <3>2. \A s \in Searches : next[s] = NextRound(s) /\ last[s] = s[2]
      OBVIOUS
    <3>3. \A s \in Searches : s \in Stop <=> NewFound(s) = {}
      OBVIOUS
    <3> HIDE DEF next, last, Stop
    <3>4. PICK g : Loops(g, next, Stop, last, Searches)
      BY <3>1, LoopExists
    <3>5. \A s \in Searches : (IF s \in Stop THEN last[s] ELSE g[next[s]])
                                = (IF NewFound(s) = {} THEN s[2] ELSE g[NextRound(s)])
      BY <3>2, <3>3
    <3>6. P(g)
      BY <3>4, <3>5 DEF Loops
    <3>7. QED
      BY <3>6
  <2> HIDE DEF P
  <2>2. QED
    BY <2>1
<1> HIDE DEF G
<1>4. \A s \in Searches : G[s] = IF NewFound(s) = {} THEN s[2] ELSE G[NextRound(s)]
  BY <1>3
<1> HIDE DEF P
<1>5. From \in SUBSET Nodes
  BY DEF Units, ChoiceNodes
<1>6. zero \in Searches /\ Halfway(zero, From)
  <2>1. None \notin Nat
    BY GrammarAssumption DEF WellFormed
  <2> HIDE DEF From
  <2>2. zero[1] = 0 /\ zero[2] \in Tables /\ \A n \in Nodes : zero[2][n] = IF n \in From THEN 0 ELSE None
    BY DEF Tables
  <2>3. zero \in Searches
    BY <2>2 DEF Searches
  <2> HIDE DEF zero
  <2>4. \A n \in Nodes : Edges[n] \subseteq Nodes
    BY EdgesFacts
  <2>5. /\ \A n \in Nodes : zero[2][n] # None => zero[2][n] <= zero[1]
        /\ \A n \in From : zero[2][n] # None
        /\ \A n \in Nodes : zero[2][n] # None => n \in From
    BY <1>5, <2>1, <2>2
  <2>6. \A n \in Nodes : \A m \in Edges[n] : zero[2][m] # None => zero[2][m] = zero[1]
    BY <2>1, <2>2, <2>4
  <2>7. QED
    BY <2>3, <2>5, <2>6 DEF Halfway
<1> HIDE DEF zero, From
<1>7. ASSUME NEW s \in Searches, Halfway(s, From) PROVE LeadsThere(G[s], From)
  <2> DEFINE Left(t) == Cardinality({n \in Nodes : t[2][n] = None})
             Bad == {k \in Nat : \E t \in Searches : Halfway(t, From) /\ Left(t) = k /\ ~LeadsThere(G[t], From)}
  <2>1. ASSUME NEW t \in Searches PROVE Left(t) \in Nat
    <3>1. IsFiniteSet({n \in Nodes : t[2][n] = None})
      BY GeneratorAssumption, FS_Subset
    <3>2. QED
      BY <3>1, FS_CardinalityType
  <2>2. ASSUME NEW t \in Searches, Halfway(t, From), NewFound(t) # {}
        PROVE  NextRound(t) \in Searches /\ Halfway(NextRound(t), From) /\ Left(NextRound(t)) < Left(t)
    BY <1>5, <2>2, SearchRound
  <2>3. ASSUME NEW t \in Searches, Halfway(t, From), NewFound(t) = {} PROVE LeadsThere(t[2], From)
    BY <1>5, <2>3, SearchRound
  <2> HIDE DEF Left
  <2>4. Bad = {}
    <3> SUFFICES ASSUME Bad # {} PROVE FALSE
      OBVIOUS
    <3>1. PICK k \in Bad : \A j \in Bad : k <= j
      BY LeastExists
    <3>2. PICK t \in Searches : Halfway(t, From) /\ Left(t) = k /\ ~LeadsThere(G[t], From)
      BY <3>1
    <3>3. NewFound(t) # {}
      BY <1>4, <2>3, <3>2
    <3>4. G[t] = G[NextRound(t)]
      BY <1>4, <3>2, <3>3
    <3>5. Left(NextRound(t)) \in Bad /\ Left(NextRound(t)) < k
      BY <2>1, <2>2, <3>2, <3>3, <3>4
    <3>6. QED
      BY <3>1, <3>5
  <2>5. QED
    BY <1>7, <2>1, <2>4
<1>8. QED
  BY <1>1, <1>6, <1>7 DEF From

-----------------------------------------------------------------------------
(* Where the walk of a call can get.                                       *)
Ahead(r) == Hull({Body[r]}, Edges, Nodes)

(* It is what it is called: nothing in it leads out of it.                 *)
LEMMA AheadOf ==
  ASSUME NEW r \in Rules
  PROVE  /\ Ahead(r) \subseteq Nodes /\ Body[r] \in Ahead(r)
         /\ \A n \in Ahead(r) : Edges[n] \subseteq Ahead(r)
         /\ Confines(Ahead(r))
         /\ ReachableUnits[Body[r]] = {u \in Units : u[1] \in Ahead(r)}
<1>1. Body[r] \in Nodes
  BY GrammarAssumption DEF WellFormed
<1>2. Edges \in [Nodes -> SUBSET Nodes]
  BY <1>1, EdgesFacts
<1>3. Ahead(r) \in SUBSET Nodes /\ Body[r] \in Ahead(r) /\ Closed(Ahead(r), Edges)
  <2>1. {Body[r]} \in SUBSET Nodes
    BY <1>1
  <2>2. QED
    BY <1>2, <2>1, HullFacts DEF Ahead
<1>4. \A n \in Ahead(r) : Edges[n] \subseteq Ahead(r)
  BY <1>3 DEF Closed
<1>5. Confines(Ahead(r))
  <2>1. ASSUME NEW n \in Ahead(r), Kind(n) \in {"alt", "optional"},
               NEW i \in Usable(n) \cap DOMAIN Parts(n)
        PROVE  Parts(n)[i] \in Ahead(r)
    BY <1>3, <1>4, <2>1, EdgesFacts
  <2>2. ASSUME NEW n \in Ahead(r), Kind(n) = "concat" PROVE Parts(n) \in Seq(Ahead(r))
    <3>1. Edges[n] = {Parts(n)[i] : i \in DOMAIN Parts(n)}
      <4>1. Edges[n] = Reachable(n)
        BY <1>3, <2>2, EdgesFacts
      <4>2. QED
        BY <2>2, <4>1 DEF Reachable, IsNever, Successors
    <3>2. Parts(n) \in Seq(Nodes)
      BY <1>3, GrammarAssumption DEF WellFormed, NodeShape, Parts
    <3>3. \A i \in DOMAIN Parts(n) : Parts(n)[i] \in Ahead(r)
      BY <1>4, <3>1
    <3>4. QED
      BY <3>2, <3>3
  <2>3. ASSUME NEW n \in Ahead(r), Kind(n) = "repeat", ~IsNever(n) PROVE Parts(n)[1] \in Ahead(r)
    <3>1. Edges[n] = {Parts(n)[i] : i \in DOMAIN Parts(n)}
      <4>1. Edges[n] = Reachable(n)
        BY <1>3, <2>3, EdgesFacts
      <4>2. QED
        BY <2>3, <4>1 DEF Reachable, Successors
    <3>2. 1 \in DOMAIN Parts(n)
      <4>1. Parts(n) \in Seq(Nodes) /\ Len(Parts(n)) = 1
        BY <1>3, <2>3, GrammarAssumption DEF WellFormed, NodeShape, Parts, Kind
      <4>2. QED
        BY <4>1
    <3>3. QED
      BY <1>4, <3>1, <3>2
  <2>4. ASSUME NEW n \in Ahead(r), Kind(n) = "ref" PROVE Body[NodeOf[n].target] \in Ahead(r)
    <3>1. Edges[n] = Reachable(n)
      BY <1>3, <2>4, EdgesFacts
    <3>2. Edges[n] = {Body[NodeOf[n].target]}
      BY <2>4, <3>1 DEF Reachable, IsNever, Successors
    <3>3. QED
      BY <1>4, <3>2
  <2>5. QED
    BY <1>3, <2>1, <2>2, <2>3, <2>4 DEF Confines
<1>6. QED
  BY <1>1, <1>3, <1>4, <1>5, UnitsFacts DEF Ahead

(* What a call took so far lies ahead of its rule, and each choice cost it *)
(* a step.                                                                 *)
TraceInv ==
  outcome = "walking" =>
    /\ start \in Rules
    /\ Within(Ahead(start))
    /\ pending \subseteq ReachableUnits[Body[start]]
    /\ IsFiniteSet(pending) /\ steps \in Nat /\ Cardinality(pending) <= steps

(* What the steps of a walk have in common.                                *)
LEMMA WalkFacts ==
  ASSUME Walk
  PROVE  /\ outcome = "walking" /\ start' = start /\ options' = options /\ ~Ask
         /\ ~VisitChoice /\ outcome' = "walking" => pending' = pending /\ steps' = steps + 1
         /\ ~Commit => covered' = covered
         /\ outcome' = "ok" => Commit
<1>1. CASE VisitOverLimit
  BY <1>1 DEF VisitOverLimit, Fail, cover, Idle, Ask, Generate, Uncovered
<1>2. CASE VisitChoice
  BY <1>2 DEF VisitChoice, Visit, cover, Idle, Ask, Generate, Uncovered
<1>3. CASE VisitConcat \/ VisitRepeat \/ VisitRef
  BY <1>3 DEF VisitConcat, VisitRepeat, VisitRef, Visit, cover, Idle, Ask, Generate, Uncovered
<1>4. CASE VisitTerminal
  BY <1>4 DEF VisitTerminal, Visit, Fail, cover, Idle, Ask, Generate, Uncovered
<1>5. CASE Commit
  BY <1>5 DEF Commit, Idle, Ask, Generate, Uncovered
<1>6. QED
  BY <1>1, <1>2, <1>3, <1>4, <1>5 DEF Walk

(* A choice takes a unit of its node.                                      *)
LEMMA ChoiceFacts ==
  ASSUME VisitChoice
  PROVE  /\ todo # << >> /\ Kind(Head(todo).node) \in {"alt", "optional"}
         /\ \E i \in Select(Head(todo).node, Head(todo).depth) :
              /\ pending' = pending \cup {<<Head(todo).node, i>>}
              /\ Replace(IF i \in DOMAIN Parts(Head(todo).node)
                         THEN <<Parts(Head(todo).node)[i]>> ELSE << >>, Head(todo).depth)
         /\ steps' = steps + 1 /\ outcome' = outcome
BY DEF VisitChoice, Visit, UnitOf

(* Every step keeps it.                                                    *)
LEMMA TraceStep == TraceInv /\ Within(Nodes) /\ [Next]_vars => TraceInv'
<1> SUFFICES ASSUME TraceInv, Within(Nodes), [Next]_vars PROVE TraceInv'
  OBVIOUS
<1>1. CASE UNCHANGED vars
  BY <1>1 DEF vars, TraceInv, Within
<1>2. CASE WithOptions
  BY <1>2 DEF WithOptions, Idle, TraceInv
<1>3. CASE Ask
  <2>1. PICK r \in Session.asked : Generate(r) \/ Uncovered(r)
    BY <1>3 DEF Ask
  <2>2. CASE Uncovered(r)
    BY <2>2 DEF Uncovered, Idle, TraceInv
  <2>3. CASE Generate(r) /\ Refuse(r)
    BY <2>3 DEF Generate, TraceInv
  <2>4. CASE Generate(r) /\ ~Refuse(r)
    <3>1. /\ start' = r /\ pending' = {} /\ steps' = 0 /\ options' = options
          /\ todo' = <<[node |-> Body[r], depth |-> 0]>>
      BY <2>4 DEF Generate, Afresh
    <3>2. r \in Rules
      BY <2>4, GeneratorAssumption DEF Refuse
    <3>3. Body[r] \in Ahead(r)
      BY <3>2, AheadOf
    <3>4. todo' \in Seq([node : Ahead(r), depth : Nat])
      BY <3>1, <3>3
    <3>5. IsFiniteSet({}) /\ Cardinality({}) = 0
      BY FS_EmptySet
    <3>6. options \in OptionSets
      BY DEF Within
    <3>7. Within(Ahead(start))'
      BY <3>1, <3>4, <3>6 DEF Within
    <3>8. QED
      BY <3>1, <3>2, <3>5, <3>7 DEF TraceInv
  <2>5. QED
    BY <2>1, <2>2, <2>3, <2>4
<1>4. CASE Walk
  <2>1. /\ outcome = "walking" /\ start' = start /\ ~Ask
        /\ ~VisitChoice /\ outcome' = "walking" => pending' = pending /\ steps' = steps + 1
    BY <1>4, WalkFacts
  <2>2. /\ start \in Rules /\ Within(Ahead(start))
        /\ pending \subseteq ReachableUnits[Body[start]]
        /\ IsFiniteSet(pending) /\ steps \in Nat /\ Cardinality(pending) <= steps
    BY <2>1 DEF TraceInv
  <2>3. Within(Ahead(start))'
    <3> DEFINE S == Ahead(start)
    <3>1. S' = S
      BY <2>1 DEF Ahead
    <3>2. Confines(S) /\ Within(S)
      BY <2>2, AheadOf
    <3>3. ASSUME NEW T, T = S, Confines(T), Within(T) PROVE Within(T)'
      BY <2>1, <3>3, WithinStep
    <3> HIDE DEF S
    <3>4. QED
      BY <3>1, <3>2, <3>3 DEF Within, S
  <2>4. CASE VisitChoice
    <3> DEFINE n == Head(todo).node
    <3>1. /\ todo # << >> /\ Kind(n) \in {"alt", "optional"} /\ steps' = steps + 1
          /\ \E i \in Select(n, Head(todo).depth) : pending' = pending \cup {<<n, i>>}
      BY <2>4, ChoiceFacts
    <3>2. PICK i \in Usable(n) : pending' = pending \cup {<<n, i>>}
      BY <3>1, SelectUsable
    <3>3. n \in Ahead(start)
      <4> DEFINE T == [node : Ahead(start), depth : Nat]
      <4>1. todo \in Seq(T)
        BY <2>2 DEF Within
      <4>2. Head(todo) \in T
        <5> HIDE DEF T
        <5>1. QED
          BY <3>1, <4>1
      <4>3. QED
        BY <4>2
    <3> HIDE DEF n
    <3>4. <<n, i>> \in ReachableUnits[Body[start]]
      <4>1. n \in Nodes /\ ReachableUnits[Body[start]] = {u \in Units : u[1] \in Ahead(start)}
        BY <2>2, <3>3, AheadOf
      <4>2. <<n, i>> \in Units
        BY <3>1, <3>2, <4>1 DEF Units, ChoiceNodes
      <4>3. QED
        BY <3>3, <4>1, <4>2
    <3>5. IsFiniteSet(pending \cup {<<n, i>>}) /\ Cardinality(pending \cup {<<n, i>>}) <= steps + 1
      <4>1. /\ IsFiniteSet(pending \cup {<<n, i>>})
            /\ Cardinality(pending \cup {<<n, i>>}) =
                 IF <<n, i>> \in pending THEN Cardinality(pending) ELSE Cardinality(pending) + 1
        BY <2>2, FS_AddElement
      <4>2. Cardinality(pending) \in Nat
        BY <2>2, FS_CardinalityType
      <4>3. QED
        BY <2>2, <4>1, <4>2
    <3>6. pending' \subseteq ReachableUnits[Body[start']]
      BY <2>1, <2>2, <3>2, <3>4
    <3>7. IsFiniteSet(pending') /\ steps' \in Nat /\ Cardinality(pending') <= steps'
      <4>1. IsFiniteSet(pending') /\ Cardinality(pending') <= steps + 1
        BY <3>2, <3>5
      <4>2. steps' = steps + 1 /\ steps \in Nat
        BY <2>2, <3>1
      <4>3. steps + 1 \in Nat
        BY <4>2
      <4>4. QED
        BY <4>1, <4>2, <4>3
    <3>8. start' \in Rules
      BY <2>1, <2>2
    <3>9. QED
      BY <2>3, <3>6, <3>7, <3>8 DEF TraceInv
  <2>5. CASE ~VisitChoice
    <3>1. outcome' = "walking" => pending' = pending /\ steps' = steps + 1
      BY <2>1, <2>5
    <3>2. Cardinality(pending) \in Nat
      BY <2>2, FS_CardinalityType
    <3>3. QED
      BY <2>1, <2>2, <2>3, <3>1, <3>2 DEF TraceInv
  <2>6. QED
    BY <2>4, <2>5
<1>5. QED
  BY <1>1, <1>2, <1>3, <1>4 DEF Next

(* So it is in every walk.                                                 *)
LEMMA TraceAlways == Spec => []TraceInv
<1>1. Init => TraceInv
  BY DEF Init, TraceInv
<1>2. QED
  BY <1>1, NodesAlways, TraceStep, PTL DEF Spec

(* A call that failed covers nothing, then or later, and a call that       *)
(* succeeded covers what it took, in the reach of its rule and no more than*)
(* its visits (generate, Coverage::commit).                                *)
THEOREM SuccessAloneCovers == Spec => OnlySuccessCovers
<1>1. TraceInv /\ [Next]_vars =>
        [covered' # covered =>
           /\ outcome' = "ok"
           /\ covered' \ covered \subseteq ReachableUnits[Body[start]]
           /\ Cardinality(covered' \ covered) <= steps]_vars
  <2> SUFFICES ASSUME TraceInv, [Next]_vars, covered' # covered
               PROVE  /\ outcome' = "ok"
                      /\ covered' \ covered \subseteq ReachableUnits[Body[start]]
                      /\ Cardinality(covered' \ covered) <= steps
    OBVIOUS
  <2>1. Commit
    <3>1. ~UNCHANGED vars /\ ~WithOptions /\ ~Ask
      BY DEF vars, WithOptions, Ask, Generate, Uncovered, cover
    <3>2. QED
      BY <3>1, WalkFacts DEF Next
  <2>2. outcome = "walking" /\ outcome' = "ok" /\ covered' = covered \cup pending
    BY <2>1 DEF Commit, Idle
  <2>3. /\ pending \subseteq ReachableUnits[Body[start]] /\ IsFiniteSet(pending)
        /\ steps \in Nat /\ Cardinality(pending) <= steps
    BY <2>2 DEF TraceInv
  <2>4. covered' \ covered \subseteq pending
    BY <2>2
  <2>5. IsFiniteSet(covered' \ covered) /\ Cardinality(covered' \ covered) <= Cardinality(pending)
    BY <2>3, <2>4, FS_Subset
  <2>6. Cardinality(covered' \ covered) \in Nat /\ Cardinality(pending) \in Nat
    BY <2>3, <2>5, FS_CardinalityType
  <2>7. QED
    BY <2>2, <2>3, <2>4, <2>5, <2>6
<1>2. QED
  BY <1>1, TraceAlways, PTL DEF Spec, OnlySuccessCovers

(* A call that may still cover has covered, or has a node before it from   *)
(* which something uncovered can be got to.                                *)
Promising ==
  outcome = "walking" /\ options.coverage /\ UncoveredFrom(start) # {} =>
    \/ UncoveredFrom(start) \cap pending # {}
    \/ \E i \in 1 .. Len(todo) : Distances(covered)[todo[i].node] # None

(* Something uncovered lies ahead of a node: then the table says so.       *)
LEMMA AheadIsNear ==
  ASSUME NEW r \in Rules, UncoveredFrom(r) # {}
  PROVE  Distances(covered)[Body[r]] # None
<1> DEFINE D == Distances(covered)  C == {n \in Nodes : D[n] = None}
<1>1. LeadsThere(D, {u[1] : u \in Units \ covered})
  BY DistanceFacts
<1>2. Edges \in [Nodes -> SUBSET Nodes] /\ Body[r] \in Nodes
  BY GrammarAssumption, EdgesFacts DEF WellFormed
<1> HIDE DEF D
<1>3. Closed(C, Edges) /\ C \in SUBSET Nodes
  BY <1>1, <1>2 DEF Closed, LeadsThere
<1>4. PICK u \in Units \ covered : u[1] \in Ahead(r)
  BY AheadOf DEF UncoveredFrom
<1>5. D[u[1]] # None
  BY <1>1, <1>4 DEF LeadsThere
<1>6. ASSUME D[Body[r]] = None PROVE FALSE
  <2>1. {Body[r]} \subseteq C
    BY <1>2, <1>6
  <2>2. {Body[r]} \in SUBSET Nodes
    BY <1>2
  <2> HIDE DEF C
  <2>3. Ahead(r) \subseteq C
    BY <1>2, <1>3, <2>1, <2>2, HullFacts DEF Ahead
  <2>4. QED
    BY <1>4, <1>5, <2>3 DEF C
<1>7. QED
  BY <1>6 DEF D

(* From such a node a walk goes on to another, or takes what is uncovered. *)
LEMMA NearGoesOn ==
  ASSUME NEW n \in Nodes, Distances(covered)[n] # None
  PROVE  \/ Kind(n) \in {"alt", "optional"} /\ \E i \in Usable(n) : <<n, i>> \in Units \ covered
         \/ \E m \in Edges[n] : Distances(covered)[m] # None
<1> DEFINE D == Distances(covered)
<1>1. LeadsThere(D, {u[1] : u \in Units \ covered})
  BY DistanceFacts
<1> HIDE DEF D
<1>2. n \in {u[1] : u \in Units \ covered} \/ \E m \in Edges[n] : D[m] # None
  BY <1>1 DEF LeadsThere, D
<1>3. ASSUME n \in {u[1] : u \in Units \ covered}
      PROVE  Kind(n) \in {"alt", "optional"} /\ \E i \in Usable(n) : <<n, i>> \in Units \ covered
  <2>1. PICK u \in Units \ covered : u[1] = n
    BY <1>3
  <2>2. PICK c \in ChoiceNodes : u \in {<<c, i>> : i \in Usable(c)}
    BY <2>1 DEF Units
  <2>3. PICK i \in Usable(c) : u = <<c, i>>
    BY <2>2
  <2>4. c = n
    BY <2>1, <2>3
  <2>5. QED
    BY <2>1, <2>2, <2>3, <2>4 DEF ChoiceNodes
<1>4. QED
  BY <1>2, <1>3 DEF D

(* What replaces the head comes first, and what was behind it stays.       *)
LEMMA ReplaceFacts ==
  ASSUME NEW S, todo \in Seq([node : S, depth : Nat]), todo # << >>,
         NEW nodes, nodes \in Seq(S), NEW e, Replace(nodes, e)
  PROVE  /\ Len(todo') = Len(nodes) + Len(todo) - 1
         /\ \A i \in 1 .. Len(nodes) : todo'[i].node = nodes[i]
         /\ \A i \in 2 .. Len(todo) : todo'[Len(nodes) + i - 1] = todo[i]
<1> DEFINE T == [node : S, depth : Nat]
           front == [i \in 1 .. Len(nodes) |-> [node |-> nodes[i], depth |-> e]]
           F == [node : S, depth : {e}]
<1>1. front \in Seq(F) /\ Len(front) = Len(nodes)
      /\ \A i \in 1 .. Len(nodes) : front[i].node = nodes[i]
  <2>1. Len(nodes) \in Nat /\ \A i \in 1 .. Len(nodes) : nodes[i] \in S
    OBVIOUS
  <2>2. front \in [1 .. Len(nodes) -> F]
    BY <2>1
  <2>3. QED
    BY <2>1, <2>2
<1>2. Tail(todo) \in Seq(T) /\ Len(Tail(todo)) = Len(todo) - 1
      /\ \A i \in 1 .. Len(todo) - 1 : Tail(todo)[i] = todo[i + 1]
  <2> HIDE DEF T
  <2>1. todo \in Seq(T) /\ Len(todo) \in Nat /\ Len(todo) # 0
    BY DEF T
  <2>2. QED
    BY <2>1
<1>3. todo' = front \o Tail(todo)
  BY DEF Replace
<1> HIDE DEF front, T, F
<1> DEFINE a == front  b == Tail(todo)
<1>4. a \in Seq(F \cup T) /\ b \in Seq(F \cup T)
  <2>1. F \subseteq F \cup T /\ T \subseteq F \cup T
    OBVIOUS
  <2>2. QED
    BY <1>1, <1>2, <2>1, SeqMonotonic
<1> HIDE DEF a, b
<1>5. /\ Len(a \o b) = Len(a) + Len(b)
      /\ \A i \in 1 .. Len(a) + Len(b) :
           (a \o b)[i] = IF i <= Len(a) THEN a[i] ELSE b[i - Len(a)]
  BY <1>4, ConcatProperties
<1>6. todo' = a \o b /\ Len(a) = Len(nodes) /\ Len(b) = Len(todo) - 1
  BY <1>1, <1>2, <1>3 DEF a, b
<1>7. Len(nodes) \in Nat /\ Len(todo) \in Nat /\ Len(todo) > 0
  BY <1>2
<1>8. ASSUME NEW i \in 1 .. Len(nodes) PROVE todo'[i].node = nodes[i]
  BY <1>1, <1>5, <1>6, <1>7 DEF a
<1>9. ASSUME NEW i \in 2 .. Len(todo) PROVE todo'[Len(nodes) + i - 1] = todo[i]
  <2>1. Len(nodes) + i - 1 \in 1 .. Len(a) + Len(b) /\ ~(Len(nodes) + i - 1 <= Len(a))
        /\ Len(nodes) + i - 1 - Len(a) = i - 1 /\ i - 1 \in 1 .. Len(todo) - 1
    BY <1>6, <1>7
  <2>2. todo'[Len(nodes) + i - 1] = b[i - 1]
    BY <1>5, <1>6, <2>1
  <2>3. b[i - 1] = todo[i - 1 + 1] /\ i - 1 + 1 = i
    BY <1>2, <2>1 DEF b
  <2>4. QED
    BY <2>2, <2>3
<1>10. QED
  BY <1>5, <1>6, <1>7, <1>8, <1>9

(* Such a node may be among those that come first, or stay behind them.    *)
LEMMA NearRemains ==
  ASSUME todo \in Seq([node : Nodes, depth : Nat]), todo # << >>,
         NEW nodes \in Seq(Nodes), NEW e, Replace(nodes, e), NEW D,
         \/ \E j \in 1 .. Len(nodes) : D[nodes[j]] # None
         \/ \E i \in 2 .. Len(todo) : D[todo[i].node] # None
  PROVE  \E i \in 1 .. Len(todo') : D[todo'[i].node] # None
<1>1. /\ Len(todo') = Len(nodes) + Len(todo) - 1
      /\ \A i \in 1 .. Len(nodes) : todo'[i].node = nodes[i]
      /\ \A i \in 2 .. Len(todo) : todo'[Len(nodes) + i - 1] = todo[i]
  BY ReplaceFacts
<1>2. Len(nodes) \in Nat /\ Len(todo) \in Nat /\ Len(todo) > 0
  OBVIOUS
<1>3. CASE \E j \in 1 .. Len(nodes) : D[nodes[j]] # None
  <2>1. PICK j \in 1 .. Len(nodes) : D[nodes[j]] # None
    BY <1>3
  <2>2. j \in 1 .. Len(todo') /\ todo'[j].node = nodes[j]
    BY <1>1, <1>2
  <2>3. QED
    BY <2>1, <2>2
<1>4. CASE \E i \in 2 .. Len(todo) : D[todo[i].node] # None
  <2>1. PICK i \in 2 .. Len(todo) : D[todo[i].node] # None
    BY <1>4
  <2>2. Len(nodes) + i - 1 \in 1 .. Len(todo') /\ todo'[Len(nodes) + i - 1] = todo[i]
    BY <1>1, <1>2
  <2>3. QED
    BY <2>1, <2>2
<1>5. QED
  BY <1>3, <1>4

(* What is selected takes what is uncovered, or leads on towards it.       *)
LEMMA SelectLeadsOn ==
  ASSUME NEW n \in Nodes, Kind(n) \in {"alt", "optional"}, NEW d, NEW i \in Select(n, d),
         options.coverage, DistanceFresh, Distances(covered)[n] # None
  PROVE  \/ \E j : <<n, j>> \in (Units \ covered) \cap (pending \cup {<<n, i>>})
         \/ i \in DOMAIN Parts(n) /\ Distances(covered)[Parts(n)[i]] # None
<1> DEFINE D == Distances(covered)
<1>1. Refreshed = D
  BY DEF DistanceFresh, Refreshed
<1>2. \/ \E j \in Usable(n) : <<n, j>> \in Units \ covered
      \/ \E m \in Edges[n] : D[m] # None
  BY NearGoesOn
<1>3. \A j \in Usable(n) : <<n, j>> \in Units
  BY DEF Units, ChoiceNodes
<1> HIDE DEF D
<1>4. CASE Untaken(n) # {}
  <2>1. i \in Untaken(n)
    BY <1>4 DEF Select, Lowest
  <2>2. <<n, i>> \in Units \ covered
    BY <1>3, <2>1 DEF Untaken, Taken
  <2>3. QED
    BY <2>2
<1>5. CASE Untaken(n) = {} /\ Chasing(n, D) # {}
  <2>1. i \in Nearest(n, D)
    BY <1>1, <1>5 DEF Select
  <2>2. i \in Chasing(n, D)
    BY <2>1 DEF Nearest, Lowest
  <2>3. i \in DOMAIN Parts(n) /\ D[Parts(n)[i]] # None
    BY <2>2 DEF Chasing, Leading, Unreachable
  <2>4. QED
    BY <2>3 DEF D
<1>6. CASE Untaken(n) = {} /\ Chasing(n, D) = {}
  <2>1. \A m \in Edges[n] : D[m] = None
    <3>1. Edges[n] = {Parts(n)[j] : j \in Leading(n)}
      BY EdgesFacts DEF Leading
    <3>2. \A j \in Leading(n) : D[Parts(n)[j]] = None
      BY <1>6 DEF Chasing, Unreachable
    <3>3. QED
      BY <3>1, <3>2
  <2>2. PICK j \in Usable(n) : <<n, j>> \in Units \ covered
    BY <1>2, <2>1
  <2>3. <<n, j>> \in pending
    BY <1>6, <2>2 DEF Untaken, Taken
  <2>4. QED
    BY <2>2, <2>3
<1>7. QED
  BY <1>4, <1>5, <1>6

(* Every step keeps the promise.                                           *)
LEMMA PromiseStep ==
  ASSUME Promising, TraceInv, Within(Nodes), DistanceFresh, [Next]_vars
  PROVE  Promising'
<1> DEFINE T == [node : Nodes, depth : Nat]
           n == Head(todo).node
           d == Head(todo).depth
           D == Distances(covered)
           Goal == \/ UncoveredFrom(start) \cap pending' # {}
                   \/ \E i \in 1 .. Len(todo') : D[todo'[i].node] # None
<1>1. CASE UNCHANGED vars
  BY <1>1 DEF vars, Promising, UncoveredFrom
<1>2. CASE WithOptions
  BY <1>2 DEF WithOptions, Idle, Promising
<1>3. CASE Ask
  <2>1. PICK r \in Session.asked : Generate(r) \/ Uncovered(r)
    BY <1>3 DEF Ask
  <2>2. CASE Uncovered(r)
    BY <2>2 DEF Uncovered, Idle, Promising
  <2>3. CASE Generate(r) /\ Refuse(r)
    BY <2>3 DEF Generate, Promising
  <2>4. CASE Generate(r) /\ ~Refuse(r)
    <3>1. /\ start' = r /\ covered' = covered
          /\ todo' = <<[node |-> Body[r], depth |-> 0]>>
      BY <2>4 DEF Generate, Afresh, cover
    <3>2. r \in Rules
      BY <2>4, GeneratorAssumption DEF Refuse
    <3>3. Len(todo') = 1 /\ todo'[1].node = Body[r]
      BY <3>1
    <3>4. UncoveredFrom(r) # {} => D[todo'[1].node] # None
      BY <3>2, <3>3, AheadIsNear
    <3>5. UncoveredFrom(start)' = UncoveredFrom(r) /\ Distances(covered)' = D
      BY <3>1 DEF UncoveredFrom
    <3> HIDE DEF D
    <3>6. QED
      BY <3>3, <3>4, <3>5 DEF Promising
  <2>5. QED
    BY <2>1, <2>2, <2>3, <2>4
<1>4. CASE Commit
  BY <1>4 DEF Commit, Promising
<1>5. CASE Walk /\ ~Commit
  <2>1. /\ outcome = "walking" /\ start' = start /\ options' = options /\ covered' = covered
        /\ ~VisitChoice /\ outcome' = "walking" => pending' = pending
    BY <1>5, WalkFacts
  <2>2. start \in Rules /\ todo \in Seq(T)
    BY <2>1 DEF TraceInv, Within
  <2>3. UncoveredFrom(start)' = UncoveredFrom(start) /\ Distances(covered)' = D
    BY <2>1 DEF UncoveredFrom
  <2>4. SUFFICES ASSUME outcome' = "walking", options.coverage, UncoveredFrom(start) # {} PROVE Goal
    BY <2>1, <2>3 DEF Promising
  <2>5. pending \subseteq pending'
    BY <2>1, <2>4, ChoiceFacts
  <2>6. CASE UncoveredFrom(start) \cap pending # {}
    BY <2>5, <2>6
  <2>7. CASE UncoveredFrom(start) \cap pending = {}
    <3>1. PICK i \in 1 .. Len(todo) : D[todo[i].node] # None
      BY <2>1, <2>4, <2>7 DEF Promising
    <3>2. todo # << >> /\ n \in Nodes /\ Parts(n) \in Seq(Nodes) /\ todo[1].node = n
          /\ n \in Ahead(start)
      <4>1. todo # << >>
        BY <3>1
      <4>2. todo \in Seq([node : Ahead(start), depth : Nat]) /\ Ahead(start) \subseteq Nodes
        BY <2>1, <2>2, AheadOf DEF TraceInv, Within
      <4> DEFINE R == [node : Ahead(start), depth : Nat]
      <4>3. Head(todo) \in R /\ Head(todo) = todo[1]
        <5>1. todo \in Seq(R)
          BY <4>2
        <5> HIDE DEF R
        <5>2. QED
          BY <4>1, <5>1
      <4>4. n \in Nodes /\ n \in Ahead(start) /\ todo[1].node = n
        BY <4>2, <4>3
      <4>5. QED
        BY <4>1, <4>4, GrammarAssumption DEF WellFormed, NodeShape, Parts
    <3>3. D[n] # None \/ \E j \in 2 .. Len(todo) : D[todo[j].node] # None
      <4>1. i = 1 \/ i \in 2 .. Len(todo)
        BY <2>2
      <4>2. QED
        BY <3>1, <3>2, <4>1
    <3>4. ASSUME NEW nodes \in Seq(Nodes), NEW e, Replace(nodes, e),
                 D[n] # None => \E j \in 1 .. Len(nodes) : D[nodes[j]] # None
          PROVE  Goal
      <4> HIDE DEF D, n
      <4>1. QED
        BY <2>2, <3>2, <3>3, <3>4, NearRemains
    <3>5. ASSUME D[n] # None, Kind(n) \notin {"alt", "optional"}
          PROVE  \E m \in Reachable(n) : D[m] # None
      BY <3>2, <3>5, NearGoesOn, EdgesFacts
    <3>6. CASE VisitChoice
      <4>1. Kind(n) \in {"alt", "optional"}
        BY <3>6, ChoiceFacts
      <4>2. PICK k \in Select(n, d) :
              /\ pending' = pending \cup {<<n, k>>}
              /\ Replace(IF k \in DOMAIN Parts(n) THEN <<Parts(n)[k]>> ELSE << >>, d)
        BY <3>6, ChoiceFacts
      <4> DEFINE nodes == IF k \in DOMAIN Parts(n) THEN <<Parts(n)[k]>> ELSE << >>
      <4>3. nodes \in Seq(Nodes) /\ Replace(nodes, d)
        BY <3>2, <4>2
      <4>4. CASE \E j : <<n, j>> \in (Units \ covered) \cap (pending \cup {<<n, k>>})
        <5>1. PICK j : <<n, j>> \in (Units \ covered) \cap (pending \cup {<<n, k>>})
          BY <4>4
        <5>2. <<n, j>> \in UncoveredFrom(start)
          BY <2>2, <3>2, <5>1, AheadOf DEF UncoveredFrom
        <5>3. QED
          BY <4>2, <5>1, <5>2
      <4>5. CASE ~ \E j : <<n, j>> \in (Units \ covered) \cap (pending \cup {<<n, k>>})
        <5>1. ASSUME D[n] # None PROVE k \in DOMAIN Parts(n) /\ D[Parts(n)[k]] # None
          BY <2>4, <3>2, <4>1, <4>2, <4>5, <5>1, SelectLeadsOn
        <5>2. ASSUME D[n] # None PROVE \E j \in 1 .. Len(nodes) : D[nodes[j]] # None
          <6>1. nodes = <<Parts(n)[k]>>
            BY <5>1, <5>2
          <6>2. Len(nodes) = 1 /\ nodes[1] = Parts(n)[k]
            BY <6>1
          <6>3. QED
            BY <5>1, <5>2, <6>2
        <5> HIDE DEF nodes
        <5>3. QED
          BY <3>4, <4>3, <5>2
      <4>6. QED
        BY <4>4, <4>5
    <3>7. CASE VisitConcat
      <4>1. Kind(n) = "concat" /\ Replace(Parts(n), d)
        BY <3>7 DEF VisitConcat, Visit
      <4>2. ASSUME D[n] # None PROVE \E j \in 1 .. Len(Parts(n)) : D[Parts(n)[j]] # None
        <5>1. PICK m \in Reachable(n) : D[m] # None
          BY <3>5, <4>1, <4>2
        <5>2. m \in {Parts(n)[j] : j \in DOMAIN Parts(n)}
          BY <4>1, <5>1 DEF Reachable, IsNever, Successors
        <5>3. QED
          BY <3>2, <5>1, <5>2
      <4>3. QED
        BY <3>2, <3>4, <4>1, <4>2
    <3>8. CASE VisitRepeat
      <4>1. Kind(n) = "repeat" /\ \E c \in Counts(n, d) : Replace([j \in 1 .. c |-> Parts(n)[1]], d)
        BY <3>8 DEF VisitRepeat, Visit
      <4>2. PICK c \in Counts(n, d) : Replace([j \in 1 .. c |-> Parts(n)[1]], d)
        BY <4>1
      <4>3. c \in Nat /\ Len(Parts(n)) = 1 /\ NodeOf[n].min \in Nat
        <5>1. c \in Nat
          BY <3>2, <4>1, CountFacts DEF Within
        <5>2. QED
          BY <3>2, <4>1, <5>1, GrammarAssumption DEF WellFormed, NodeShape, Parts, Kind
      <4> DEFINE nodes == [j \in 1 .. c |-> Parts(n)[1]]
      <4>4. nodes \in Seq(Nodes) /\ Len(nodes) = c
        <5>1. Parts(n)[1] \in Nodes
          BY <3>2, <4>3
        <5>2. nodes \in [1 .. c -> Nodes]
          BY <5>1
        <5>3. QED
          BY <4>3, <5>2
      <4>5. ASSUME D[n] # None PROVE \E j \in 1 .. Len(nodes) : D[nodes[j]] # None
        <5>1. PICK m \in Reachable(n) : D[m] # None
          BY <3>5, <4>1, <4>5
        <5>2. ~IsNever(n) /\ m \in {Parts(n)[j] : j \in DOMAIN Parts(n)}
          BY <4>1, <5>1 DEF Reachable, Successors
        <5>3. m = Parts(n)[1]
          BY <3>2, <4>3, <5>2
        <5>4. CountReads(n) /\ Refreshed[Parts(n)[1]] # None
          BY <2>4, <5>1, <5>2, <5>3 DEF CountReads, Refreshed, DistanceFresh
        <5>5. c = IF NodeOf[n].min = 0 THEN 1 ELSE NodeOf[n].min
          BY <4>2, <5>4 DEF Counts, Unreachable
        <5>6. 1 \in 1 .. Len(nodes)
          BY <4>3, <4>4, <5>5
        <5>7. nodes[1] = m
          BY <4>4, <5>3, <5>6
        <5>8. QED
          BY <5>1, <5>6, <5>7
      <4>6. Replace(nodes, d)
        BY <4>2
      <4> HIDE DEF nodes
      <4>7. QED
        BY <3>4, <4>4, <4>5, <4>6
    <3>9. CASE VisitRef
      <4>1. Kind(n) = "ref" /\ Replace(<<Body[NodeOf[n].target]>>, d + 1)
        BY <3>9 DEF VisitRef, Visit
      <4> DEFINE b == Body[NodeOf[n].target]
      <4>2. b \in Nodes
        BY <3>2, <4>1, GrammarAssumption DEF WellFormed, NodeShape, Kind
      <4>3. ASSUME D[n] # None PROVE D[b] # None
        <5>1. PICK m \in Reachable(n) : D[m] # None
          BY <3>5, <4>1, <4>3
        <5>2. m = b
          BY <4>1, <5>1 DEF Reachable, IsNever, Successors
        <5>3. QED
          BY <5>1, <5>2
      <4>4. Replace(<<b>>, d + 1)
        BY <4>1
      <4> HIDE DEF b
      <4>5. <<b>> \in Seq(Nodes) /\ Len(<<b>>) = 1 /\ <<b>>[1] = b
        BY <4>2
      <4>6. D[n] # None => \E j \in 1 .. Len(<<b>>) : D[<<b>>[j]] # None
        <5>1. 1 \in 1 .. Len(<<b>>)
          BY <4>5
        <5>2. QED
          BY <4>3, <4>5, <5>1
      <4>7. QED
        BY <3>4, <4>4, <4>5, <4>6
    <3>10. CASE VisitTerminal
      <4>1. Kind(n) \in {"char", "num"} /\ todo' = Tail(todo)
        BY <2>1, <2>4, <3>10 DEF VisitTerminal, Visit, Fail
      <4>2. Reachable(n) = {}
        <5>1. Parts(n) = << >>
          BY <3>2, <4>1, GrammarAssumption DEF WellFormed, NodeShape, Parts, Kind
        <5>2. QED
          BY <4>1, <5>1 DEF Reachable, Successors
      <4>3. PICK j \in 2 .. Len(todo) : D[todo[j].node] # None
        BY <3>3, <3>5, <4>1, <4>2
      <4>4. Len(todo') = Len(todo) - 1 /\ todo'[j - 1] = todo[j] /\ j - 1 \in 1 .. Len(todo) - 1
        <5> HIDE DEF T
        <5>1. Len(todo) \in Nat /\ j \in Nat /\ 2 <= j /\ j <= Len(todo)
          BY <2>2
        <5>2. Len(Tail(todo)) = Len(todo) - 1 /\ Tail(todo)[j - 1] = todo[j]
          BY <2>2, <3>2, <5>1
        <5>3. QED
          BY <4>1, <5>1, <5>2
      <4>5. QED
        BY <4>3, <4>4
    <3>11. CASE VisitOverLimit
      BY <2>4, <3>11 DEF VisitOverLimit, Fail
    <3>12. QED
      BY <1>5, <3>6, <3>7, <3>8, <3>9, <3>10, <3>11 DEF Walk
  <2>8. QED
    BY <2>6, <2>7
<1>6. QED
  BY <1>1, <1>2, <1>3, <1>4, <1>5 DEF Next

(* So there is a promise in every walk.                                    *)
LEMMA PromiseAlways == Spec => []Promising
<1>1. Init => Promising
  BY DEF Init, Promising
<1>2. Promising /\ TraceInv /\ Within(Nodes) /\ DistanceFresh /\ [Next]_vars => Promising'
  BY PromiseStep
<1>3. QED
  BY <1>1, <1>2, TraceAlways, NodesAlways, DistancesAreFresh, PTL DEF Spec

(* In coverage mode every call that succeeds covers something new, as long *)
(* as anything its rule can reach is uncovered, whatever the calls before  *)
(* it covered, dropped or left stale (choose_branch, repeat_count).        *)
THEOREM SuccessesCover == Spec => SuccessCovers
<1>1. Promising /\ [Next]_vars =>
        [~Idle /\ outcome' = "ok" /\ options.coverage /\ UncoveredFrom(start) # {}
           => UncoveredFrom(start) \cap pending # {}]_vars
  <2> SUFFICES ASSUME Promising, [Next]_vars, ~Idle, outcome' = "ok", options.coverage,
                      UncoveredFrom(start) # {}
               PROVE  UncoveredFrom(start) \cap pending # {}
    OBVIOUS
  <2>1. outcome = "walking"
    BY DEF Idle
  <2>2. Commit
    <3>1. ~UNCHANGED vars /\ ~WithOptions /\ ~Ask
      BY <2>1 DEF vars, WithOptions, Ask, Generate, Uncovered, Idle
    <3>2. QED
      BY <3>1, WalkFacts DEF Next
  <2>3. todo = << >>
    BY <2>2 DEF Commit
  <2>4. ~ \E i \in 1 .. Len(todo) : Distances(covered)[todo[i].node] # None
    BY <2>3
  <2>5. QED
    BY <2>1, <2>4 DEF Promising
<1>2. QED
  BY <1>1, PromiseAlways, PTL DEF Spec, SuccessCovers

-----------------------------------------------------------------------------
(* `t` adds up the shortest matches of `nodes`, from `a` to `b`.           *)
AddsUp(nodes, t, a, b) ==
  /\ t \in [0 .. Len(nodes) -> Nat] /\ t[0] = a /\ t[Len(nodes)] = b
  /\ \A i \in 1 .. Len(nodes) : t[i] = t[i - 1] + MinLen[nodes[i]]

Adds(nodes, a, b) == \E t : AddsUp(nodes, t, a, b)

(* What the recursion over the items of a concatenation computes.          *)
LEMMA LengthOfAllFacts ==
  ASSUME NEW parts \in Seq(Productive)
  PROVE  Adds(parts, 0, LengthOfAll(parts))
<1> DEFINE n == Len(parts)
           P(g) == g = [i \in 0 .. n |-> IF i = 0 THEN 0 ELSE g[i - 1] + MinLen[parts[i]]]
           G == CHOOSE g : P(g)
           h == [x \in (1 .. n) \X Nat |-> x[2] + MinLen[parts[x[1]]]]
<1>1. n \in Nat /\ 0 \in Nat
  OBVIOUS
<1>2. \A i \in 1 .. n : MinLen[parts[i]] \in Nat
  BY GeneratorAssumption DEF Productive
<1>3. h \in [(1 .. n) \X Nat -> Nat]
  BY <1>2
<1>4. PICK g \in [0 .. n -> Nat] : Iterates(g, n, 0, h)
  <2> HIDE DEF h, n
  <2> QED BY <1>1, <1>3, IterationExists
<1>5. \A i \in 1 .. n : g[i] = g[i - 1] + MinLen[parts[i]]
  <2> TAKE i \in 1 .. n
  <2>1. g[i - 1] \in Nat
    OBVIOUS
  <2>2. h[<<i, g[i - 1]>>] = g[i - 1] + MinLen[parts[i]]
    BY <2>1
  <2> HIDE DEF h
  <2>3. QED
    BY <1>4, <2>2 DEF Iterates
<1>6. g[0] = 0
  <2> HIDE DEF h
  <2>1. QED
    BY <1>4 DEF Iterates
<1> HIDE DEF h, n
<1>7. P(g)
  <2>1. g = [i \in 0 .. n |-> g[i]]
    OBVIOUS
  <2>2. \A i \in 0 .. n : g[i] = IF i = 0 THEN 0 ELSE g[i - 1] + MinLen[parts[i]]
    BY <1>1, <1>5, <1>6
  <2>3. QED
    BY <2>1, <2>2
<1>8. P(G)
  <2> HIDE DEF P
  <2> QED BY <1>7
<1>9. LengthOfAll(parts) = G[n]
  BY DEF LengthOfAll, n
<1> HIDE DEF G
<1>10. DOMAIN G = 0 .. n /\ G[0] = 0 /\ \A i \in 1 .. n : G[i] = G[i - 1] + MinLen[parts[i]]
  <2>1. 0 \in 0 .. n /\ \A i \in 1 .. n : i \in 0 .. n /\ i # 0
    BY <1>1
  <2>2. QED
    BY <1>8, <2>1
<1> DEFINE S == {i \in 0 .. n : G[i] = g[i]}
<1>11. 0 \in S /\ \A i \in 1 .. n : i - 1 \in S => i \in S
  BY <1>1, <1>5, <1>6, <1>10
<1>12. \A i \in 0 .. n : i \in S
  <2> HIDE DEF S
  <2> QED BY <1>1, <1>11, CountUp
<1>13. LengthOfAll(parts) = g[n]
  BY <1>1, <1>9, <1>12
<1>14. AddsUp(parts, g, 0, LengthOfAll(parts))
  BY <1>5, <1>6, <1>13 DEF AddsUp, n
<1>15. QED
  BY <1>14 DEF Adds

(* The sums for nodes that add up to what the head adds, and for the rest, *)
(* are the sums for what replaces it.                                      *)
LEMMA ReplaceAdds ==
  ASSUME todo \in Seq([node : Productive, depth : Nat]), todo # << >>,
         NEW nodes \in Seq(Productive), NEW e, Replace(nodes, e),
         NEW len \in Nat, NEW b,
         Adds(nodes, 0, MinLen[Head(todo).node]),
         Adds([i \in 1 .. Len(todo) |-> todo[i].node], len, b)
  PROVE  Adds([i \in 1 .. Len(todo') |-> todo'[i].node], len, b)
<1> DEFINE T == [node : Productive, depth : Nat]
           n == Len(todo)
           k == Len(nodes)
           old == [i \in 1 .. n |-> todo[i].node]
           new == [i \in 1 .. Len(todo') |-> todo'[i].node]
<1>1. /\ Len(todo') = k + n - 1
      /\ \A i \in 1 .. k : todo'[i].node = nodes[i]
      /\ \A i \in 2 .. n : todo'[k + i - 1] = todo[i]
  BY ReplaceFacts
<1>2. k \in Nat /\ n \in Nat /\ n > 0 /\ Head(todo).node = todo[1].node
  OBVIOUS
<1>3. Len(old) = n /\ \A i \in 1 .. n : old[i] = todo[i].node
  OBVIOUS
<1>4. PICK s : AddsUp(nodes, s, 0, MinLen[Head(todo).node])
  BY DEF Adds
<1>5. PICK t : AddsUp(old, t, len, b)
  BY DEF Adds
<1>6. /\ s \in [0 .. k -> Nat] /\ s[0] = 0 /\ s[k] = MinLen[todo[1].node]
      /\ \A i \in 1 .. k : s[i] = s[i - 1] + MinLen[nodes[i]]
  BY <1>2, <1>4 DEF AddsUp
<1> HIDE DEF old
<1>7. /\ t \in [0 .. n -> Nat] /\ t[0] = len /\ t[n] = b
      /\ \A i \in 1 .. n : t[i] = t[i - 1] + MinLen[todo[i].node]
  BY <1>3, <1>5 DEF AddsUp
<1> DEFINE m == k + n - 1
           u == [j \in 0 .. m |-> IF j <= k THEN len + s[j] ELSE t[j - k + 1]]
<1> HIDE DEF n, k, T
<1>8. u \in [0 .. m -> Nat]
  <2>1. ASSUME NEW j \in 0 .. m PROVE (IF j <= k THEN len + s[j] ELSE t[j - k + 1]) \in Nat
    <3>1. CASE j <= k
      <4>1. j \in 0 .. k
        BY <1>2, <3>1
      <4>2. s[j] \in Nat
        BY <1>6, <4>1
      <4>3. QED
        BY <3>1, <4>2
    <3>2. CASE ~(j <= k)
      <4>1. j - k + 1 \in 0 .. n
        BY <1>2, <3>2
      <4>2. QED
        BY <1>7, <3>2, <4>1
    <3>3. QED
      BY <3>1, <3>2
  <2>2. QED
    BY <2>1
<1>9. t[1] = len + s[k]
  <2>1. 1 \in 1 .. n /\ 1 - 1 = 0
    BY <1>2
  <2>2. QED
    BY <1>6, <1>7, <2>1
<1>10. u[0] = len /\ u[m] = b
  <2>1. 0 \in 0 .. m /\ m \in 0 .. m /\ 0 <= k
    BY <1>2
  <2>2. u[0] = len
    BY <1>6, <2>1
  <2>3. CASE n = 1
    <3>1. m = k
      BY <1>2, <2>3
    <3>2. u[m] = len + s[k]
      BY <1>2, <2>1, <3>1
    <3>3. QED
      BY <1>7, <1>9, <2>2, <2>3, <3>2
  <2>4. CASE n # 1
    <3>1. ~(m <= k) /\ m - k + 1 = n
      BY <1>2, <2>4
    <3>2. QED
      BY <1>7, <2>1, <2>2, <3>1
  <2>5. QED
    BY <2>3, <2>4
<1>11. ASSUME NEW j \in 1 .. m PROVE u[j] = u[j - 1] + MinLen[todo'[j].node]
  <2>1. j \in 0 .. m /\ j - 1 \in 0 .. m
    BY <1>2
  <2>2. CASE j <= k
    <3>1. j \in 1 .. k /\ j - 1 <= k /\ j - 1 \in 0 .. k
      BY <1>2, <2>2
    <3>2. u[j] = len + s[j] /\ u[j - 1] = len + s[j - 1]
      BY <2>1, <2>2, <3>1
    <3>3. s[j] = s[j - 1] + MinLen[todo'[j].node] /\ s[j - 1] \in Nat
      BY <1>1, <1>6, <3>1
    <3>4. MinLen[todo'[j].node] \in Nat
      <4>1. nodes[j] \in Productive
        BY <3>1 DEF k
      <4>2. MinLen[nodes[j]] \in Nat
        BY <4>1, GeneratorAssumption DEF Productive
      <4>3. QED
        BY <1>1, <3>1, <4>2
    <3>5. QED
      BY <3>2, <3>3, <3>4
  <2>3. CASE ~(j <= k)
    <3> DEFINE i == j - k + 1
    <3>1. i \in 2 .. n /\ i \in 1 .. n /\ k + i - 1 = j /\ i - 1 = j - k
      BY <1>2, <2>3
    <3>2. u[j] = t[i]
      BY <2>1, <2>3
    <3>3. u[j - 1] = t[i - 1]
      <4>1. CASE j - 1 <= k
        <5>1. j - 1 = k /\ i - 1 = 1
          BY <1>2, <2>3, <4>1
        <5>2. QED
          BY <1>9, <2>1, <4>1, <5>1
      <4>2. CASE ~(j - 1 <= k)
        <5>1. j - 1 - k + 1 = i - 1
          BY <1>2
        <5>2. QED
          BY <2>1, <4>2, <5>1
      <4>3. QED
        BY <4>1, <4>2
    <3>4. t[i] = t[i - 1] + MinLen[todo[i].node] /\ todo'[j] = todo[i]
      BY <1>1, <1>7, <3>1
    <3>5. QED
      BY <3>2, <3>3, <3>4
  <2>4. QED
    BY <2>2, <2>3
<1> HIDE DEF u
<1>12. Len(new) = m /\ \A j \in 1 .. m : new[j] = todo'[j].node
  <2>1. m \in Nat
    BY <1>2
  <2>2. QED
    BY <1>1, <2>1
<1> HIDE DEF new, m
<1>13. AddsUp(new, u, len, b)
  BY <1>8, <1>10, <1>11, <1>12 DEF AddsUp
<1>14. QED
  BY <1>13 DEF Adds, new

(* Steered by nothing but the witnesses.                                   *)
Frugal == options.max_depth = 0 /\ ~options.coverage

(* What is emitted and the shortest matches of what is left to walk add up *)
(* to the shortest match of the rule.                                      *)
BudgetInv ==
  outcome = "walking" /\ Frugal =>
    /\ todo \in Seq([node : Productive, depth : Nat])
    /\ \E S : out \in Seq(S)
    /\ Adds([i \in 1 .. Len(todo) |-> todo[i].node], Len(out), MinLen[Body[start]])

(* A witness stands for its choice.                                        *)
LEMMA FrugalChoice ==
  ASSUME LengthsAddUp, Frugal, NEW n \in Productive, Kind(n) \in {"alt", "optional"},
         NEW d \in Nat, NEW i \in Select(n, d)
  PROVE  LET nodes == IF i \in DOMAIN Parts(n) THEN <<Parts(n)[i]>> ELSE << >>
         IN  nodes \in Seq(Productive) /\ Adds(nodes, 0, MinLen[n])
<1>1. /\ Witness[n] \in Usable(n)
      /\ MinLen[n] = IF Witness[n] \in DOMAIN Parts(n) THEN MinLen[Parts(n)[Witness[n]]] ELSE 0
  BY DEF LengthsAddUp, Kind, Parts
<1>2. i = Witness[n]
  <2>1. Select(n, d) = Ordinary(n, d) /\ d >= options.max_depth
    BY DEF Select, Frugal
  <2>2. QED
    BY <1>1, <2>1 DEF Ordinary
<1>3. CASE i \in DOMAIN Parts(n)
  <2> DEFINE m == Parts(n)[i]
             t == [j \in 0 .. 1 |-> IF j = 0 THEN 0 ELSE MinLen[m]]
  <2>1. m \in Productive
    <3>1. (n \in Nodes /\ Len(Parts(n)) = 1) \/ Kind(n) = "alt"
      BY GrammarAssumption DEF WellFormed, NodeShape, Kind, Parts, Productive
    <3>2. Parts(n) \in Seq(Nodes)
      BY GrammarAssumption DEF WellFormed, NodeShape, Parts, Productive
    <3>3. Kind(n) = "optional" => i # 2
      BY <1>3, <3>1, <3>2
    <3>4. QED
      BY <1>1, <1>2, <1>3, <3>3 DEF Usable
  <2>2. MinLen[m] \in Nat /\ MinLen[n] = MinLen[m]
    BY <1>1, <1>2, <1>3, <2>1, GeneratorAssumption DEF Productive
  <2> HIDE DEF m
  <2>3. Len(<<m>>) = 1 /\ <<m>>[1] = m /\ <<m>> \in Seq(Productive)
    BY <2>1
  <2>4. AddsUp(<<m>>, t, 0, MinLen[n])
    <3>1. t \in [0 .. 1 -> Nat] /\ t[0] = 0 /\ t[1] = MinLen[m]
      BY <2>2
    <3> HIDE DEF t
    <3>2. QED
      BY <2>2, <2>3, <3>1 DEF AddsUp
  <2>5. QED
    BY <1>3, <2>3, <2>4 DEF Adds, m
<1>4. CASE i \notin DOMAIN Parts(n)
  <2> DEFINE t == [j \in 0 .. 0 |-> 0]
  <2>1. MinLen[n] = 0
    BY <1>1, <1>2, <1>4
  <2>2. t \in [0 .. 0 -> Nat] /\ t[0] = 0 /\ Len(<< >>) = 0
    OBVIOUS
  <2> HIDE DEF t
  <2>3. AddsUp(<< >>, t, 0, MinLen[n])
    BY <2>1, <2>2 DEF AddsUp
  <2>4. QED
    BY <1>4, <2>3 DEF Adds
<1>5. QED
  BY <1>3, <1>4

(* The fewest rounds of a repetition are as short as it is.                *)
LEMMA FrugalCount ==
  ASSUME LengthsAddUp, Frugal, NEW n \in Productive, Kind(n) = "repeat",
         NEW d \in Nat, NEW c \in Counts(n, d)
  PROVE  LET nodes == [j \in 1 .. c |-> Parts(n)[1]]
         IN  nodes \in Seq(Productive) /\ Adds(nodes, 0, MinLen[n])
<1> DEFINE b == Parts(n)[1]  nodes == [j \in 1 .. c |-> b]
           t == [j \in 0 .. c |-> j * MinLen[b]]
<1>1. c = NodeOf[n].min
  BY DEF Counts, CountReads, Frugal
<1>2. NodeOf[n].min \in Nat /\ 1 \in DOMAIN Parts(n)
  <2>1. NodeShape(NodeOf[n])
    BY GrammarAssumption DEF WellFormed, Productive
  <2>2. Parts(n) \in Seq(Nodes) /\ Len(Parts(n)) = 1
    BY <2>1 DEF NodeShape, Kind, Parts
  <2>3. QED
    BY <2>1, <2>2 DEF NodeShape, Kind
<1>3. MinLen[n] = IF NodeOf[n].min = 0 THEN 0 ELSE NodeOf[n].min * MinLen[b]
  BY DEF LengthsAddUp, Kind, Parts
<1>4. c > 0 => b \in Productive
  <2>1. NodeOf[n].min > 0 => Successors(n) \subseteq Productive
    BY GeneratorAssumption
  <2>2. b \in Successors(n)
    BY <1>2 DEF Successors
  <2>3. QED
    BY <1>1, <2>1, <2>2
<1>5. c > 0 => MinLen[b] \in Nat
  BY <1>4, GeneratorAssumption DEF Productive
<1> HIDE DEF b
<1>6. nodes \in Seq(Productive) /\ Len(nodes) = c /\ \A j \in 1 .. c : nodes[j] = b
  <2>1. c \in Nat
    BY <1>1, <1>2
  <2>2. nodes \in [1 .. c -> Productive]
    BY <1>4, <2>1
  <2>3. QED
    BY <2>1, <2>2
<1>7. CASE c = 0
  <2> DEFINE z == [j \in 0 .. 0 |-> 0]
  <2>1. z \in [0 .. 0 -> Nat] /\ z[0] = 0 /\ MinLen[n] = 0
    BY <1>1, <1>3, <1>7
  <2> HIDE DEF z, nodes
  <2>2. AddsUp(nodes, z, 0, MinLen[n])
    BY <1>6, <1>7, <2>1 DEF AddsUp
  <2>3. QED
    BY <1>6, <2>2 DEF Adds, nodes, b
<1>8. CASE c > 0
  <2>1. PICK x \in Nat : x = MinLen[b]
    BY <1>5, <1>8
  <2>2. c \in Nat
    BY <1>1, <1>2
  <2>3. \A j \in 0 .. c : t[j] = j * x
    BY <2>1
  <2>4. t \in [0 .. c -> Nat]
    <3>1. \A j \in 0 .. c : j * x \in Nat
      OBVIOUS
    <3>2. QED
      BY <2>1, <3>1
  <2> HIDE DEF t
  <2>5. ASSUME NEW j \in 1 .. c PROVE t[j] = t[j - 1] + x
    <3>1. j * x = (j - 1) * x + x
      OBVIOUS
    <3>2. QED
      BY <2>2, <2>3, <3>1
  <2>6. t[0] = 0 /\ t[c] = MinLen[n]
    <3>1. 0 * x = 0
      OBVIOUS
    <3>2. 0 \in 0 .. c /\ c \in 0 .. c
      BY <2>2
    <3>3. MinLen[n] = c * x
      BY <1>1, <1>3, <1>8, <2>1
    <3>4. QED
      BY <2>3, <3>1, <3>2, <3>3
  <2> HIDE DEF nodes
  <2>7. AddsUp(nodes, t, 0, MinLen[n])
    BY <1>6, <2>1, <2>4, <2>5, <2>6 DEF AddsUp
  <2>8. QED
    BY <1>6, <2>7 DEF Adds, nodes, b
<1>9. QED
  BY <1>1, <1>2, <1>7, <1>8

(* So are the items of a concatenation, and the body of what is named.     *)
LEMMA FrugalRest ==
  ASSUME LengthsAddUp, NEW n \in Productive
  PROVE  /\ Kind(n) = "concat" => Parts(n) \in Seq(Productive) /\ Adds(Parts(n), 0, MinLen[n])
         /\ Kind(n) = "ref" => LET b == Body[NodeOf[n].target]
                               IN  <<b>> \in Seq(Productive) /\ Adds(<<b>>, 0, MinLen[n])
         /\ Kind(n) \in {"char", "num"} => MinLen[n] = Len(NodeOf[n].value)
<1>1. ASSUME Kind(n) = "concat" PROVE Parts(n) \in Seq(Productive) /\ Adds(Parts(n), 0, MinLen[n])
  <2>1. MinLen[n] = LengthOfAll(Parts(n))
    BY <1>1 DEF LengthsAddUp, Kind, Parts
  <2>2. Successors(n) \subseteq Productive
    BY <1>1, GeneratorAssumption
  <2>3. \A i \in DOMAIN Parts(n) : Parts(n)[i] \in Productive
    BY <1>1, <2>2 DEF Successors
  <2>4. Parts(n) \in Seq(Nodes)
    BY GrammarAssumption DEF WellFormed, NodeShape, Parts, Productive
  <2>5. Parts(n) \in Seq(Productive)
    BY <2>3, <2>4
  <2>6. QED
    BY <2>1, <2>5, LengthOfAllFacts
<1>2. ASSUME Kind(n) = "ref"
      PROVE  /\ <<Body[NodeOf[n].target]>> \in Seq(Productive)
             /\ Adds(<<Body[NodeOf[n].target]>>, 0, MinLen[n])
  <2> DEFINE b == Body[NodeOf[n].target]
             t == [j \in 0 .. 1 |-> IF j = 0 THEN 0 ELSE MinLen[b]]
  <2>1. MinLen[n] = MinLen[b]
    BY <1>2 DEF LengthsAddUp, Kind
  <2>2. b \in Productive
    BY <1>2, GeneratorAssumption DEF Successors
  <2>3. MinLen[b] \in Nat
    BY <2>2, GeneratorAssumption DEF Productive
  <2> HIDE DEF b
  <2>4. Len(<<b>>) = 1 /\ <<b>>[1] = b /\ <<b>> \in Seq(Productive)
    BY <2>2
  <2>5. t \in [0 .. 1 -> Nat] /\ t[0] = 0 /\ t[1] = MinLen[b]
    BY <2>3
  <2> HIDE DEF t
  <2>6. AddsUp(<<b>>, t, 0, MinLen[n])
    BY <2>1, <2>3, <2>4, <2>5 DEF AddsUp
  <2>7. QED
    BY <2>4, <2>6 DEF Adds, b
<1>3. ASSUME Kind(n) \in {"char", "num"} PROVE MinLen[n] = Len(NodeOf[n].value)
  BY <1>3 DEF LengthsAddUp, Kind
<1>4. QED
  BY <1>1, <1>2, <1>3

(* What a terminal emits is as long as it says.                            *)
LEMMA TailAdds ==
  ASSUME todo \in Seq([node : Productive, depth : Nat]), todo # << >>, todo' = Tail(todo),
         NEW len \in Nat, NEW b,
         Adds([i \in 1 .. Len(todo) |-> todo[i].node], len, b)
  PROVE  Adds([i \in 1 .. Len(todo') |-> todo'[i].node], len + MinLen[Head(todo).node], b)
<1> DEFINE T == [node : Productive, depth : Nat]
           n == Len(todo)
           old == [i \in 1 .. n |-> todo[i].node]
           new == [i \in 1 .. Len(todo') |-> todo'[i].node]
<1>1. n \in Nat /\ n > 0 /\ Head(todo).node = todo[1].node
  OBVIOUS
<1>2. Len(todo') = n - 1 /\ \A i \in 1 .. n - 1 : todo'[i] = todo[i + 1]
  <2> HIDE DEF T
  <2>1. todo \in Seq(T)
    BY DEF T
  <2>2. QED
    BY <1>1, <2>1
<1>3. Len(old) = n /\ \A i \in 1 .. n : old[i] = todo[i].node
  OBVIOUS
<1>4. PICK t : AddsUp(old, t, len, b)
  BY DEF Adds
<1> HIDE DEF old
<1>5. /\ t \in [0 .. n -> Nat] /\ t[0] = len /\ t[n] = b
      /\ \A i \in 1 .. n : t[i] = t[i - 1] + MinLen[todo[i].node]
  BY <1>3, <1>4 DEF AddsUp
<1> DEFINE m == n - 1
           u == [j \in 0 .. m |-> t[j + 1]]
<1> HIDE DEF n, T
<1>6. m \in Nat /\ m + 1 = n
  BY <1>1
<1>7. u \in [0 .. m -> Nat]
  BY <1>5, <1>6
<1>8. u[0] = len + MinLen[Head(todo).node] /\ u[m] = b
  <2>1. 0 \in 0 .. m /\ m \in 0 .. m /\ 1 \in 1 .. n /\ 1 - 1 = 0 /\ 0 + 1 = 1
    BY <1>1, <1>6
  <2>2. u[0] = t[1] /\ u[m] = t[n]
    BY <1>6, <2>1
  <2>3. QED
    BY <1>1, <1>5, <2>1, <2>2
<1>9. ASSUME NEW j \in 1 .. m PROVE u[j] = u[j - 1] + MinLen[todo'[j].node]
  <2>1. j \in 0 .. m /\ j - 1 \in 0 .. m /\ j + 1 \in 1 .. n /\ j - 1 + 1 = j /\ j + 1 - 1 = j
    BY <1>1, <1>6
  <2>2. u[j] = t[j + 1] /\ u[j - 1] = t[j]
    BY <2>1
  <2>3. t[j + 1] = t[j] + MinLen[todo[j + 1].node] /\ todo'[j] = todo[j + 1]
    BY <1>2, <1>5, <2>1
  <2>4. QED
    BY <2>2, <2>3
<1> HIDE DEF u
<1>10. Len(new) = m /\ \A j \in 1 .. m : new[j] = todo'[j].node
  BY <1>2, <1>6
<1> HIDE DEF new, m
<1>11. AddsUp(new, u, len + MinLen[Head(todo).node], b)
  BY <1>7, <1>8, <1>9, <1>10 DEF AddsUp
<1>12. QED
  BY <1>11 DEF Adds, new

(* Every step keeps the budget.                                            *)
LEMMA BudgetStep ==
  ASSUME LengthsAddUp, BudgetInv, [Next]_vars
  PROVE  BudgetInv'
<1> DEFINE T == [node : Productive, depth : Nat]
           n == Head(todo).node
           d == Head(todo).depth
<1>1. CASE UNCHANGED vars
  BY <1>1 DEF vars, BudgetInv, Frugal
<1>2. CASE WithOptions
  BY <1>2 DEF WithOptions, Idle, BudgetInv
<1>3. CASE Ask
  <2>1. PICK r \in Session.asked : Generate(r) \/ Uncovered(r)
    BY <1>3 DEF Ask
  <2>2. CASE Uncovered(r)
    BY <2>2 DEF Uncovered, Idle, BudgetInv
  <2>3. CASE Generate(r) /\ Refuse(r)
    BY <2>3 DEF Generate, BudgetInv
  <2>4. CASE Generate(r) /\ ~Refuse(r)
    <3>1. /\ start' = r /\ out' = << >>
          /\ todo' = <<[node |-> Body[r], depth |-> 0]>> /\ Body[r] \in Productive
      BY <2>4 DEF Generate, Afresh, Refuse
    <3> DEFINE b == Body[r]
               t == [j \in 0 .. 1 |-> IF j = 0 THEN 0 ELSE MinLen[b]]
               nodes == [i \in 1 .. Len(todo') |-> todo'[i].node]
    <3>2. todo' \in Seq(T) /\ Len(todo') = 1 /\ todo'[1].node = b
      BY <3>1
    <3>3. Len(nodes) = 1 /\ nodes[1] = b
      BY <3>2
    <3>4. MinLen[b] \in Nat
      BY <3>1, GeneratorAssumption DEF Productive
    <3>5. t \in [0 .. 1 -> Nat] /\ t[0] = 0 /\ t[1] = MinLen[b]
      BY <3>4
    <3>6. AddsUp(nodes, t, 0, MinLen[b])
      <4> HIDE DEF nodes, t, b
      <4>1. QED
        BY <3>3, <3>5, <3>4 DEF AddsUp
    <3>7. Len(out') = 0 /\ out' \in Seq({})
      BY <3>1
    <3>8. Adds(nodes, Len(out'), MinLen[Body[start']])
      BY <3>1, <3>6, <3>7 DEF Adds
    <3> HIDE DEF t, b
    <3>9. QED
      BY <3>2, <3>7, <3>8 DEF BudgetInv
  <2>5. QED
    BY <2>1, <2>2, <2>3, <2>4
<1>4. CASE Commit
  BY <1>4 DEF Commit, BudgetInv
<1>5. CASE VisitOverLimit
  BY <1>5 DEF VisitOverLimit, Fail, BudgetInv
<1>6. CASE Walk /\ ~Commit /\ ~VisitOverLimit
  <2>1. outcome = "walking" /\ start' = start /\ options' = options
    BY <1>6, WalkFacts
  <2>2. SUFFICES ASSUME outcome' = "walking", Frugal PROVE BudgetInv'
    BY <2>1 DEF BudgetInv, Frugal
  <2>3. /\ todo \in Seq(T) /\ \E S : out \in Seq(S)
        /\ Adds([i \in 1 .. Len(todo) |-> todo[i].node], Len(out), MinLen[Body[start]])
    BY <2>1, <2>2 DEF BudgetInv
  <2>4. todo # << >>
    BY <1>6 DEF Walk, VisitChoice, VisitConcat, VisitRepeat, VisitRef, VisitTerminal, Visit
  <2>5. n \in Productive /\ d \in Nat
    <3>1. Head(todo) \in T
      <4> HIDE DEF T
      <4>1. QED
        BY <2>3, <2>4
    <3>2. QED
      BY <3>1
  <2>6. Len(out) \in Nat
    BY <2>3
  <2>7. ASSUME NEW nodes \in Seq(Productive), NEW e \in Nat, Replace(nodes, e), out' = out,
               Adds(nodes, 0, MinLen[n])
        PROVE  BudgetInv'
    <3>1. todo' \in Seq(T)
      BY <2>3, <2>4, <2>7, ReplaceWithin
    <3>2. Adds([i \in 1 .. Len(todo') |-> todo'[i].node], Len(out), MinLen[Body[start]])
      BY <2>3, <2>4, <2>6, <2>7, ReplaceAdds
    <3>3. Adds([i \in 1 .. Len(todo') |-> todo'[i].node], Len(out'), MinLen[Body[start']])
      BY <2>1, <2>7, <3>2
    <3>4. \E S : out' \in Seq(S)
      BY <2>3, <2>7
    <3>5. QED
      BY <3>1, <3>3, <3>4 DEF BudgetInv
  <2>8. CASE VisitChoice
    <3>1. Kind(n) \in {"alt", "optional"} /\ out' = out
      BY <2>8 DEF VisitChoice, Visit
    <3>2. PICK i \in Select(n, d) :
            Replace(IF i \in DOMAIN Parts(n) THEN <<Parts(n)[i]>> ELSE << >>, d)
      BY <2>8, ChoiceFacts
    <3> DEFINE nodes == IF i \in DOMAIN Parts(n) THEN <<Parts(n)[i]>> ELSE << >>
    <3>3. nodes \in Seq(Productive) /\ Adds(nodes, 0, MinLen[n])
      BY <2>2, <2>5, <3>1, FrugalChoice
    <3>4. Replace(nodes, d)
      BY <3>2
    <3> HIDE DEF nodes, n, d
    <3>5. QED
      BY <2>5, <2>7, <3>1, <3>3, <3>4
  <2>9. CASE VisitConcat
    <3>1. Kind(n) = "concat" /\ out' = out /\ Replace(Parts(n), d)
      BY <2>9 DEF VisitConcat, Visit
    <3> HIDE DEF n, d
    <3>2. QED
      BY <2>5, <2>7, <3>1, FrugalRest
  <2>10. CASE VisitRepeat
    <3>1. Kind(n) = "repeat" /\ out' = out
      BY <2>10 DEF VisitRepeat, Visit
    <3>2. PICK c \in Counts(n, d) : Replace([j \in 1 .. c |-> Parts(n)[1]], d)
      BY <2>10 DEF VisitRepeat
    <3> DEFINE nodes == [j \in 1 .. c |-> Parts(n)[1]]
    <3>3. nodes \in Seq(Productive) /\ Adds(nodes, 0, MinLen[n])
      BY <2>2, <2>5, <3>1, FrugalCount
    <3>4. Replace(nodes, d)
      BY <3>2
    <3> HIDE DEF nodes, n, d
    <3>5. QED
      BY <2>5, <2>7, <3>1, <3>3, <3>4
  <2>11. CASE VisitRef
    <3>1. Kind(n) = "ref" /\ out' = out /\ Replace(<<Body[NodeOf[n].target]>>, d + 1)
      BY <2>11 DEF VisitRef, Visit
    <3>2. d + 1 \in Nat
      BY <2>5
    <3> DEFINE nodes == <<Body[NodeOf[n].target]>>  e == d + 1
    <3>3. nodes \in Seq(Productive) /\ Adds(nodes, 0, MinLen[n])
      BY <2>5, <3>1, FrugalRest
    <3>4. Replace(nodes, e) /\ e \in Nat
      BY <3>1, <3>2
    <3> HIDE DEF nodes, n, e
    <3>5. QED
      BY <2>7, <3>1, <3>3, <3>4
  <2>12. CASE VisitTerminal
    <3>1. /\ Kind(n) \in {"char", "num"}
          /\ \E w \in Emissions(n) : out' = out \o w /\ todo' = Tail(todo)
      BY <2>1, <2>2, <2>12 DEF VisitTerminal, Visit, Fail
    <3>2. PICK w \in Emissions(n) : out' = out \o w /\ todo' = Tail(todo)
      BY <3>1
    <3> DEFINE l == Len(NodeOf[n].value)
    <3>3. MinLen[n] = l /\ l \in Nat
      <4>1. MinLen[n] = l
        BY <2>5, <3>1, FrugalRest
      <4>2. MinLen[n] \in Nat
        BY <2>5, GeneratorAssumption DEF Productive
      <4>3. QED
        BY <4>1, <4>2
    <3>4. \E S : w \in [1 .. l -> S]
      BY <3>2 DEF Emissions
    <3> HIDE DEF l
    <3>5. PICK R : w \in [1 .. l -> R]
      BY <3>4
    <3>6. w \in Seq(R) /\ Len(w) = l
      BY <3>3, <3>5
    <3>7. PICK S : out \in Seq(S)
      BY <2>3
    <3>8. out \o w \in Seq(S \cup R) /\ Len(out \o w) = Len(out) + Len(w)
      <4>1. out \in Seq(S \cup R) /\ w \in Seq(S \cup R)
        <5>1. S \subseteq S \cup R /\ R \subseteq S \cup R
          OBVIOUS
        <5>2. QED
          BY <3>6, <3>7, <5>1, SeqMonotonic
      <4> DEFINE Q == S \cup R
      <4>2. out \in Seq(Q) /\ w \in Seq(Q)
        BY <4>1
      <4> HIDE DEF Q
      <4>3. out \o w \in Seq(Q) /\ Len(out \o w) = Len(out) + Len(w)
        BY <4>2
      <4>4. QED
        BY <4>3 DEF Q
    <3>9. Len(out') = Len(out) + MinLen[n] /\ \E Q : out' \in Seq(Q)
      BY <3>2, <3>3, <3>6, <3>8
    <3>10. todo' \in Seq(T)
      <4> HIDE DEF T
      <4>1. QED
        BY <2>3, <2>4, <3>2
    <3>11. Adds([i \in 1 .. Len(todo') |-> todo'[i].node], Len(out) + MinLen[n], MinLen[Body[start]])
      BY <2>3, <2>4, <2>6, <3>2, TailAdds
    <3>12. Adds([i \in 1 .. Len(todo') |-> todo'[i].node], Len(out'), MinLen[Body[start']])
      BY <2>1, <3>9, <3>11
    <3> HIDE DEF n
    <3>13. QED
      BY <3>9, <3>10, <3>12 DEF BudgetInv
  <2>13. QED
    BY <1>6, <2>8, <2>9, <2>10, <2>11, <2>12 DEF Walk
<1>7. QED
  BY <1>1, <1>2, <1>3, <1>4, <1>5, <1>6 DEF Next

(* With no depth to spend, what a call returns is as short as its rule     *)
(* allows, whatever the terminals are emitted as (choose_branch,           *)
(* repeat_count): the witnesses the checker recorded are worth following.  *)
THEOREM WitnessesAreShortest == LengthsAddUp /\ Spec => WitnessShortest
<1> DEFINE J == LengthsAddUp /\ BudgetInv
<1>1. LengthsAddUp /\ Init => J
  BY DEF Init, BudgetInv
<1>2. J /\ [Next]_vars => J'
  <2> SUFFICES ASSUME LengthsAddUp, BudgetInv, [Next]_vars PROVE LengthsAddUp' /\ BudgetInv'
    OBVIOUS
  <2>1. LengthsAddUp'
    BY DEF LengthsAddUp
  <2>2. QED
    BY <2>1, BudgetStep
<1>3. J /\ [Next]_vars =>
        [~Idle /\ outcome' = "ok" /\ options.max_depth = 0 /\ ~options.coverage
           => Len(out) = MinLen[Body[start]]]_vars
  <2> SUFFICES ASSUME BudgetInv, [Next]_vars, ~Idle, outcome' = "ok", Frugal
               PROVE  Len(out) = MinLen[Body[start]]
    BY DEF Frugal
  <2>1. outcome = "walking"
    BY DEF Idle
  <2>2. Commit
    <3>1. ~UNCHANGED vars /\ ~WithOptions /\ ~Ask
      BY <2>1 DEF vars, WithOptions, Ask, Generate, Uncovered, Idle
    <3>2. QED
      BY <3>1, WalkFacts DEF Next
  <2>3. Len(todo) = 0
    BY <2>2 DEF Commit
  <2> DEFINE nodes == [i \in 1 .. Len(todo) |-> todo[i].node]
  <2>4. PICK t : AddsUp(nodes, t, Len(out), MinLen[Body[start]])
    BY <2>1 DEF BudgetInv, Adds
  <2>5. Len(nodes) = 0
    BY <2>3
  <2> HIDE DEF nodes
  <2>6. QED
    BY <2>4, <2>5 DEF AddsUp
<1>4. QED
  BY <1>1, <1>2, <1>3, PTL DEF Spec, WitnessShortest
=============================================================================
