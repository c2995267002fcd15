---------------------------- MODULE FirstCycles ----------------------------
(***************************************************************************)
(* The search for left recursion (src/check.rs, left_recursion): one       *)
(* depth-first search of the first-graph, whose edges lead from a rule to  *)
(* the rules that can be the first thing it matches.  A rule is white when *)
(* the search has not seen it, gray on the path it is following, black     *)
(* when it is through with it.                                             *)
(***************************************************************************)
EXTENDS Naturals, FiniteSets, SequencesExt

VARIABLES
  edges,    \* The first-graph: of each rule, by its index, the rules it leads to.
  color,
  stack,    \* The path of gray rules, each with the edges it still has to take.
  errors    \* The cycles reported, in order.

search == <<color, stack, errors>>

RuleIndices == DOMAIN edges

SearchInit ==
  /\ color = [r \in DOMAIN edges |-> "white"]
  /\ stack = << >>
  /\ errors = << >>

Earliest(S) == CHOOSE r \in S : \A s \in S : r <= s

White == {r \in RuleIndices : color[r] = "white"}

(* A slip to catch: the first root that turns up a cycle is the last.      *)
SearchedEarly == stack = << >> /\ (White = {} \/ errors # << >>)

Searched == stack = << >> /\ White = {}

Path == [i \in DOMAIN stack |-> stack[i].rule]

(* A slip to catch: a rule done with as soon as it is entered.             *)
FollowBlack(r) ==
  /\ color' = [color EXCEPT ![r] = "black"]
  /\ UNCHANGED <<edges, errors>>

Follow(r) ==
  /\ color' = [color EXCEPT ![r] = "gray"]
  /\ UNCHANGED <<edges, errors>>

(* The rules are roots in the order of their indices.                      *)
Root ==
  /\ stack = << >> /\ White # {}
  /\ LET r == Earliest(White) IN
     /\ stack' = <<[rule |-> r, left |-> edges[r]]>>
     /\ Follow(r)

Node == Last(stack).rule
Left == Last(stack).left

(* The top of the stack with the edge to `next` taken.                     *)
Taken(next) == [stack EXCEPT ![Len(stack)].left = @ \ {next}]

(* The next edge of the innermost rule leads to a rule of color `c`.       *)
Edge(c) == stack # << >> /\ Left # {} /\ color[Earliest(Left)] = c

Descend ==
  /\ Edge("white")
  /\ LET next == Earliest(Left) IN
     /\ stack' = Append(Taken(next), [rule |-> next, left |-> edges[next]])
     /\ Follow(next)

(* A slip to catch: a cycle from where the search happened to enter it.    *)
NormalizeAsFound(cycle) == cycle

NormalizeCycle(cycle) ==
  LET first == CHOOSE i \in DOMAIN cycle : \A j \in DOMAIN cycle : cycle[i] <= cycle[j]
  IN  SubSeq(cycle, first, Len(cycle)) \o SubSeq(cycle, 1, first - 1)

Cycle(next) ==
  LET first == CHOOSE i \in DOMAIN Path : Path[i] = next
  IN  NormalizeCycle(SubSeq(Path, first, Len(Path)))

CloseCycle ==
  /\ Edge("gray")
  /\ LET next == Earliest(Left) IN
     /\ stack' = Taken(next)
     /\ errors' = IF Contains(errors, Cycle(next)) THEN errors
                  ELSE Append(errors, Cycle(next))
  /\ UNCHANGED <<edges, color>>

Skip ==
  /\ Edge("black")
  /\ stack' = Taken(Earliest(Left))
  /\ UNCHANGED <<edges, color, errors>>

Finish ==
  /\ stack # << >> /\ Left = {}
  /\ color' = [color EXCEPT ![Node] = "black"]
  /\ stack' = Front(stack)
  /\ UNCHANGED <<edges, errors>>

SearchNext == Root \/ Descend \/ CloseCycle \/ Skip \/ Finish

(* The search on its own, of any first-graph.                              *)
GraphShape ==
  /\ IsFiniteSet(RuleIndices) /\ RuleIndices \subseteq Nat
  /\ edges \in [RuleIndices -> SUBSET RuleIndices]

SearchSpec ==
  GraphShape /\ SearchInit /\ [][SearchNext]_<<edges, search>>

-----------------------------------------------------------------------------
(* A cycle is a nonempty path of different rules that closes.              *)
IsCycle(path) ==
  /\ path # << >>
  /\ IsInjective(path)
  /\ \A i \in DOMAIN path : path[(i % Len(path)) + 1] \in edges[path[i]]

(* In every nonempty set of rules some rule leads to none of the set: what *)
(* it means that the graph has no cycle.                                   *)
Acyclic(S) == \A T \in SUBSET S : T # {} => \E r \in T : edges[r] \cap T = {}

(* The search accepts exactly the graphs without a cycle.                  *)
AcceptsExact == Searched => (errors = << >> <=> Acyclic(RuleIndices))

(* What is reported are cycles, each of them once whatever rule it was     *)
(* entered by.                                                             *)
ReportsAreCycles ==
  /\ \A i \in DOMAIN errors :
       IsCycle(errors[i]) /\ \A j \in DOMAIN errors[i] : errors[i][1] <= errors[i][j]
  /\ IsInjective(errors)

(* The rules a rule leads to in one or more edges.                         *)
Onward(r) ==
  LET grow[S \in SUBSET RuleIndices] ==
        LET T == S \cup UNION {edges[s] : s \in S} IN IF T = S THEN S ELSE grow[T]
  IN  grow[edges[r]]

(* No left recursion goes without a word: a rule that leads back to itself *)
(* is named in a report, or tangled with the rules of one.                 *)
EveryKnotReported ==
  Searched =>
    \A r \in RuleIndices :
      r \in Onward(r) => \E i \in DOMAIN errors : errors[i][1] \in Onward(r)
                                                   /\ r \in Onward(errors[i][1])

(* What the comment of left_recursion promises, weakened to the rules: that*)
(* each rule on a cycle is in a report.                                    *)
EveryCycleReported ==
  Searched =>
    \A r \in RuleIndices :
      r \in Onward(r) => \E i \in DOMAIN errors : Contains(errors[i], r)
=============================================================================
