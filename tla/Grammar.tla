------------------------------ MODULE Grammar ------------------------------
(***************************************************************************)
(* The arena of a checked grammar (src/check.rs, src/ast.rs): nodes named  *)
(* by the NodeId the checker gave them, rules with a body node each, and   *)
(* references already resolved.  The recognizer, the generator and the     *)
(* analyses all read this one structure and none of them changes it, so it *)
(* is a constant here.                                                     *)
(*                                                                         *)
(* Text is abstracted: a rule is a model value or a string, a terminal is  *)
(* the sequence of scalar values it stands for.                            *)
(***************************************************************************)
EXTENDS Naturals, Sequences

CONSTANTS
  Nodes,    \* The NodeIds of the arena: naturals, so that ties go to the lowest.
  NodeOf,   \* What each node is.
  Rules,    \* The rules of the grammar.
  Body,     \* The node that is the body of each rule.
  None      \* Rust's Option::None: an absent limit, an unbounded maximum.

Kinds == {"alt", "concat", "repeat", "optional", "ref", "char", "num", "prose"}

Kind(n) == NodeOf[n].kind

(* The nodes written directly under `n`: the branches of an alternation,   *)
(* the items of a concatenation, the one body of a repetition or option.   *)
Parts(n) == NodeOf[n].parts

(* The nodes a walk from `n` goes to next.  A reference has no parts; the  *)
(* walk goes on in the body of the rule it names.                          *)
Successors(n) ==
  IF Kind(n) = "ref"
  THEN {Body[NodeOf[n].target]}
  ELSE {Parts(n)[i] : i \in DOMAIN Parts(n)}

(* A repetition whose maximum is zero never runs its body, and what is     *)
(* inside is out of the reach of every walk.                               *)
IsNever(n) == Kind(n) = "repeat" /\ NodeOf[n].max = 0

Reachable(n) == IF IsNever(n) THEN {} ELSE Successors(n)

Scalars == Nat

(* What `check` guarantees of the arena: children and targets exist, ranges*)
(* are not inverted, None is no number.  A num-val is a sequence of closed *)
(* intervals: `%x61` is one of one value, `%x61.62` two of them, and the   *)
(* `range` `%x61-7A` one that may be wider.                                *)
NodeShape(d) ==
  /\ d.kind \in Kinds
  /\ d.parts \in Seq(Nodes)
  /\ d.kind \in {"repeat", "optional"} => Len(d.parts) = 1
  /\ d.kind \in {"ref", "char", "num", "prose"} => d.parts = << >>
  /\ d.kind = "ref" => d.target \in Rules
  /\ d.kind = "repeat" => /\ d.min \in Nat
                          /\ d.max \in Nat \cup {None}
                          /\ d.max # None => d.min <= d.max
  /\ d.kind = "char" => d.value \in Seq(Scalars) /\ d.case_sensitive \in BOOLEAN
  /\ d.kind = "num" => /\ d.value \in Seq([lo : Scalars, hi : Scalars]) /\ d.value # << >>
                       /\ d.range \in BOOLEAN
                       /\ d.range => Len(d.value) = 1
                       /\ \A i \in DOMAIN d.value : d.value[i].lo <= d.value[i].hi

WellFormed ==
  /\ None \notin Nat
  /\ Nodes \subseteq Nat
  /\ DOMAIN NodeOf = Nodes
  /\ \A n \in Nodes : NodeShape(NodeOf[n])
  /\ Body \in [Rules -> Nodes]

ASSUME GrammarAssumption == WellFormed
=============================================================================
