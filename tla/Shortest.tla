------------------------------ MODULE Shortest ------------------------------
(***************************************************************************)
(* The shortest match of every node, and the choice that achieves it       *)
(* (src/check.rs, min_len): Knuth's generalization of Dijkstra's algorithm.*)
(* A node costs a length, ties broken by the steps its derivation takes;   *)
(* the node that costs least among the candidates is made final, and the   *)
(* nodes that depend on it get the chance to cost less than they did.      *)
(*                                                                         *)
(* A branch is numbered from 1; of an optional 1 is the body, 2 nothing.   *)
(***************************************************************************)
EXTENDS Naturals, Sequences, FiniteSets

CONSTANTS
  None,     \* Rust's Option::None; of a length, MinLen::Infinite.
  MaxU64,   \* u64::MAX, where lengths saturate.
  MaxU32    \* u32::MAX, the steps of a node that has no derivation yet.

VARIABLES
  arena,       \* The grammar: [nodes |-> what each node is, body |-> of each rule].
  cost,        \* Of each node its best candidate so far, [length, steps].
  finalized,
  witness,     \* The choice of each final node's shortest derivation.
  heap         \* The candidates [length, steps, node].

knuth == <<cost, finalized, witness, heap>>

INSTANCE Grammar WITH
  Nodes <- DOMAIN arena.nodes, NodeOf <- arena.nodes,
  Rules <- DOMAIN arena.body,  Body <- arena.body

AllNodes == DOMAIN arena.nodes
Children(n) == {Parts(n)[i] : i \in DOMAIN Parts(n)}

Cost(length, steps) == [length |-> length, steps |-> steps]
Candidate(c, n) == [length |-> c.length, steps |-> c.steps, node |-> n]

(* The length of a node that matches something whatever its parts match.   *)
Axiom(n) ==
  LET d == arena.nodes[n] IN
  CASE d.kind \in {"char", "num"}            -> Len(d.value)
    [] d.kind = "prose"                      -> 1
    [] d.kind = "optional"                   -> 0
    [] d.kind = "repeat" /\ d.min = 0        -> 0
    [] d.kind = "concat" /\ d.parts = << >>  -> 0
    [] OTHER                                 -> None

Seeds == {n \in AllNodes : Axiom(n) # None}

KnuthInit ==
  /\ cost = [n \in AllNodes |-> Cost(IF n \in Seeds THEN Axiom(n) ELSE MaxU64, MaxU32)]
  /\ finalized = {}
  /\ witness = [n \in AllNodes |-> None]
  /\ heap = {Candidate(Cost(Axiom(n), 0), n) : n \in Seeds}

-----------------------------------------------------------------------------
Before(c, d) == c.length < d.length \/ (c.length = d.length /\ c.steps < d.steps)

(* The order of the heap: ties go to the lowest node.                      *)
Ahead(c, d) == Before(c, d) \/ (~Before(d, c) /\ c.node < d.node)

(* A slip to catch: a heap that gives its greatest first.                  *)
IsTopGreatest(c) == ~ \E d \in heap : Ahead(c, d)

IsTop(c) == ~ \E d \in heap : Ahead(d, c)

(* A slip to catch: arithmetic that wraps.                                 *)
Wrapped(x) == x % (MaxU64 + 1)

Saturated(x) == IF x > MaxU64 THEN MaxU64 ELSE x

TotalLength(parts, price) ==
  LET sum[i \in 0 .. Len(parts)] ==
        IF i = 0 THEN 0 ELSE Saturated(sum[i - 1] + price[parts[i]].length)
  IN  sum[Len(parts)]

Lowest(S) == CHOOSE x \in S : \A y \in S : x <= y
Highest(S) == CHOOSE x \in S : \A y \in S : y <= x

(* One step on from the first of `nodes`, if there is any.                 *)
OneOn(nodes, price) ==
  {Cost(price[b].length, price[b].steps + 1) :
     b \in {b \in nodes : \A o \in nodes : ~Before(price[o], price[b])}}

(* What `n` can cost, given that `final` are final at `price`.  One branch *)
(* will do for an alternation, a concatenation needs all its items.        *)
Relax(n, price, final) ==
  LET d == arena.nodes[n] IN
  CASE d.kind = "alt"      -> OneOn(Children(n) \cap final, price)
    [] d.kind = "concat"   ->
         IF Children(n) \subseteq final
         THEN {Cost(TotalLength(d.parts, price), Highest({price[m].steps : m \in Children(n)}) + 1)}
         ELSE {}
    [] d.kind = "repeat" /\ d.min > 0 ->
         {Cost(Saturated(d.min * price[b].length), price[b].steps + 1) :
            b \in Children(n) \cap final}
    [] d.kind = "optional" \/ (d.kind = "repeat" /\ d.min = 0) -> {Cost(0, 0)}
    [] d.kind = "ref"      -> OneOn(Successors(n) \cap final, price)

(* Two slips to catch: ties go to the last branch; or to the first that is *)
(* as short, be it final or not.                                           *)
LastBranch(n, price, final) ==
  LET able == {i \in DOMAIN Parts(n) :
                 Parts(n)[i] \in final /\ price[Parts(n)[i]].length = price[n].length}
      steps(i) == price[Parts(n)[i]].steps
  IN  Highest({i \in able : \A j \in able : steps(i) <= steps(j)})

FirstBranch(n, price, final) ==
  Lowest({i \in DOMAIN Parts(n) : price[Parts(n)[i]].length = price[n].length})

(* The shallowest of the final branches that are as short as the node.     *)
Branch(n, price, final) ==
  LET able == {i \in DOMAIN Parts(n) :
                 Parts(n)[i] \in final /\ price[Parts(n)[i]].length = price[n].length}
      steps(i) == price[Parts(n)[i]].steps
  IN  Lowest({i \in able : \A j \in able : steps(i) <= steps(j)})

Choice(n, price, final) ==
  CASE Kind(n) = "alt"      -> Branch(n, price, final)
    [] Kind(n) = "optional" -> 2
    [] Kind(n) = "repeat"   -> arena.nodes[n].min
    [] OTHER                -> None

-----------------------------------------------------------------------------
(* What is taken from the heap is stale if its node is final by now.  (The *)
(* heap is a set: a candidate pushed twice, as that of an optional can be, *)
(* would be stale the second time.)                                        *)
Discard ==
  \E c \in heap :
    /\ IsTop(c) /\ c.node \in finalized
    /\ heap' = heap \ {c}
    /\ UNCHANGED <<arena, cost, finalized, witness>>

Finalize ==
  \E c \in heap :
    /\ IsTop(c) /\ c.node \notin finalized
    /\ LET n     == c.node
           final == finalized \cup {n}
           price == [cost EXCEPT ![n] = Cost(c.length, c.steps)]
           better(p) == {r \in Relax(p, price, final) : Before(r, price[p])}
           cheaper   == {p \in AllNodes \ final : n \in Successors(p) /\ better(p) # {}}
           now == [p \in cheaper |-> CHOOSE r \in better(p) : TRUE]
       IN  /\ finalized' = final
           /\ witness' = [witness EXCEPT ![n] = Choice(n, price, final)]
           /\ cost' = [p \in AllNodes |-> IF p \in cheaper THEN now[p] ELSE price[p]]
           /\ heap' = (heap \ {c}) \cup {Candidate(now[p], p) : p \in cheaper}
    /\ UNCHANGED arena

KnuthNext == Discard \/ Finalize

(* What lowering makes: vectors of nodes and of rules, each named by its   *)
(* place, and a node comes before its parts (see SoundArena).  A text whose*)
(* positions fit the u32 of a span has fewer nodes than that, and what is  *)
(* counted in memory fits a u64.                                           *)
Numbered(S) == IsFiniteSet(S) /\ S = 0 .. Cardinality(S) - 1

ArenaShape ==
  /\ WellFormed
  /\ Numbered(AllNodes) /\ Numbered(DOMAIN arena.body)
  /\ \A n \in AllNodes : \A m \in Children(n) : n < m
  /\ MaxU32 \in Nat /\ Cardinality(AllNodes) <= MaxU32
  /\ MaxU64 \in Nat /\ \A n \in Seeds : Axiom(n) <= MaxU64

Settled == heap = {}

(* What was never made final matches nothing.                              *)
MinLen(n) == IF n \in finalized THEN cost[n].length ELSE None

-----------------------------------------------------------------------------
(* Nothing final was hasty: nodes become final in the order of their cost, *)
(* and what is final no longer changes.                                    *)
InOrder ==
  [][/\ \A n \in finalized' \ finalized, m \in finalized : ~Before(cost'[n], cost[m])
     /\ \A m \in finalized : cost'[m] = cost[m] /\ witness'[m] = witness[m]]_knuth

(* Where the generator goes from `n` once its depth budget is spent.       *)
OnTheWayOut(n) ==
  LET d == arena.nodes[n] IN
  CASE d.kind = "alt"                    -> {d.parts[witness[n]]}
    [] d.kind = "optional"               -> {}
    [] d.kind = "repeat" /\ d.min = 0    -> {}
    [] OTHER                             -> Successors(n)

(* The generator ends: every step out of a node that matches something     *)
(* leads to one that does, with fewer steps left to go.                    *)
WitnessLeadsOut ==
  \A n \in finalized : \A m \in OnTheWayOut(n) :
    m \in finalized /\ cost[m].steps < cost[n].steps

(* The choice made when a node became final is the choice one would make   *)
(* with hindsight, D41: the shortest branch, of these the shallowest, of   *)
(* these the first.                                                        *)
WitnessBest ==
  Settled =>
    \A n \in finalized : Kind(n) = "alt" =>
      LET able == {i \in DOMAIN Parts(n) : Parts(n)[i] \in finalized}
          price(i) == cost[Parts(n)[i]]
      IN  witness[n] = Lowest({i \in able : \A j \in able : ~Before(price(j), price(i))})

(* The lengths of `n`'s shortest derivations of height k at most, and of   *)
(* any height: a shortest one need be no higher than there are nodes.      *)
(* Lengths are not cut off; 0 stands for none, l + 1 for length l.         *)
SumOf(parts, known) ==
  LET sum[i \in 0 .. Len(parts)] == IF i = 0 THEN 0 ELSE sum[i - 1] + known[parts[i]] - 1
  IN  sum[Len(parts)]

Derive(n, known) ==
  LET d == arena.nodes[n]
      possible == {known[m] : m \in Successors(n)} \ {0}
  IN  CASE d.kind \in {"char", "num"} -> Len(d.value) + 1
        [] d.kind = "prose"            -> 2
        [] d.kind = "optional" \/ (d.kind = "repeat" /\ d.min = 0) -> 1
        [] d.kind = "concat"           ->
             IF \E i \in DOMAIN d.parts : known[d.parts[i]] = 0 THEN 0
             ELSE SumOf(d.parts, known) + 1
        [] OTHER                       ->
             IF possible = {} THEN 0
             ELSE IF d.kind = "repeat" THEN d.min * (Lowest(possible) - 1) + 1
             ELSE Lowest(possible)

Derivable ==
  LET height[k \in Nat] ==
        IF k = 0 THEN [n \in AllNodes |-> 0]
        ELSE LET known == height[k - 1] IN [n \in AllNodes |-> Derive(n, known)]
  IN  height[Cardinality(AllNodes)]

(* Each length is that of a shortest match, cut off at u64::MAX; a node    *)
(* that matches nothing has none, and one whose length is cut off does.    *)
ShortestExact ==
  Settled =>
    LET known == Derivable IN
    \A n \in AllNodes :
      MinLen(n) = IF known[n] = 0 THEN None ELSE Lowest({known[n] - 1, MaxU64})
=============================================================================
