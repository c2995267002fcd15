------------------------------ MODULE MCTables ------------------------------
(***************************************************************************)
(* The tables the checker makes for a grammar, computed from what they     *)
(* mean: the length of each node's shortest match, and the branch its      *)
(* shortest derivation takes.                                              *)
(***************************************************************************)
EXTENDS MCLanguage, FiniteSets

(* The shortest derivation of every node: its length, then its steps, in   *)
(* one number, settled from the terminals upwards: a shortest derivation   *)
(* is no higher than there are nodes.                                      *)
Far == 1000000
Big == 1000

Worst(S) == CHOOSE x \in S : \A y \in S : y <= x
Best(S) == CHOOSE x \in S : \A y \in S : x <= y
Steps(c) == c % Big
Length(c) == c \div Big

SumOf(parts, cost) ==
  LET sum[k \in 0 .. Len(parts)] ==
        IF k = 0 THEN 0 ELSE sum[k - 1] + Length(cost[parts[k]])
  IN  sum[Len(parts)]

Cost(cost, n) ==
  LET d == NodeOf[n] IN
  CASE d.kind \in {"char", "num"} -> Big * Len(d.value)
    [] d.kind = "prose"    -> Big
    [] d.kind = "optional" -> 0
    [] d.kind = "repeat"   ->
         IF d.min = 0 THEN 0
         ELSE IF cost[d.parts[1]] = Far THEN Far
         ELSE Big * d.min * Length(cost[d.parts[1]]) + Steps(cost[d.parts[1]]) + 1
    [] d.kind = "alt"      ->
         LET b == Best({cost[m] : m \in Range(d.parts)}) IN IF b = Far THEN Far ELSE b + 1
    [] d.kind = "ref"      ->
         LET b == cost[Body[d.target]] IN IF b = Far THEN Far ELSE b + 1
    [] d.kind = "concat"   ->
         IF \E m \in Range(d.parts) : cost[m] = Far THEN Far
         ELSE Big * SumOf(d.parts, cost)
                + Worst({Steps(cost[m]) : m \in Range(d.parts)}) + 1

Costs ==
  LET settle[k \in Nat] ==
        IF k = 0 THEN [n \in Nodes |-> Far]
        ELSE LET before == settle[k - 1] IN [n \in Nodes |-> Cost(before, n)]
  IN  settle[Cardinality(Nodes)]

MCMinLen == [n \in Nodes |-> IF Costs[n] = Far THEN None ELSE Length(Costs[n])]

MCWitness ==
  [n \in Nodes |->
     CASE Kind(n) = "alt" /\ MCMinLen[n] # None ->
            (LET cost(i) == Costs[Parts(n)[i]]
             IN  Best({i \in DOMAIN Parts(n) :
                         \A j \in DOMAIN Parts(n) : cost(i) <= cost(j)}))
       [] Kind(n) = "optional" -> 2
       [] OTHER -> None]
=============================================================================
