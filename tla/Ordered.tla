------------------------------ MODULE Ordered ------------------------------
(***************************************************************************)
(* Sets of numbers, listed in their order, as a `BTreeSet` is walked.      *)
(***************************************************************************)
EXTENDS Naturals, SequencesExt

(* The numbers of a set, least first.                                      *)
Lists(s, S) ==
  /\ {s[i] : i \in DOMAIN s} = S
  /\ \A i, j \in DOMAIN s : i < j => s[i] < s[j]

Ascending(S) == CHOOSE s \in [1 .. Cardinality(S) -> S] : Lists(s, S)
=============================================================================
