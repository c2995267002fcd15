------------------------------ MODULE Language ------------------------------
(***************************************************************************)
(* What a grammar means: which end positions a node has from a start       *)
(* position of an input.  The terminals are the ones src/recognize.rs      *)
(* compares with the input; the rest is the declarative meaning the        *)
(* recognizer's loops are measured against, with no stack, no memo table   *)
(* and no order of evaluation in it.                                       *)
(***************************************************************************)
EXTENDS Grammar

CONSTANT MaxPos   \* The largest position: no shorter than any input or start.

Pos == 0 .. MaxPos

(* What a question is answered with: end positions, or why there are none. *)
Ok(E)  == [tag |-> "ok", ends |-> E, error |-> "none"]
Err(e) == [tag |-> "err", ends |-> {}, error |-> e]

Limits == {"StepLimit", "DepthLimit"}
Errors == Limits \cup {"LeftRecursionDetected", "Refused"}

Results ==
  [tag : {"ok"}, ends : SUBSET Pos, error : {"none"}]
    \cup [tag : {"err"}, ends : {{}}, error : Errors]

-----------------------------------------------------------------------------
(* Terminals.  Case folding is ASCII only.                                 *)

Lower(c) == IF c \in 65 .. 90 THEN c + 32 ELSE c

SameChar(got, want, case_sensitive) ==
  IF case_sensitive THEN got = want ELSE Lower(got) = Lower(want)

(* A terminal of `k` scalars fits at `p` and each of them is matched.      *)
MatchCharVal(d, text, p) ==
  {e \in {p + Len(d.value)} :
     /\ e <= Len(text)
     /\ \A i \in 1 .. Len(d.value) :
          SameChar(text[p + i], d.value[i], d.case_sensitive)}

MatchNumVal(d, text, p) ==
  {e \in {p + Len(d.value)} :
     /\ e <= Len(text)
     /\ \A i \in 1 .. Len(d.value) :
          d.value[i].lo <= text[p + i] /\ text[p + i] <= d.value[i].hi}

(* The ends of a terminal: one or none.  A prose-val has no semantics, and *)
(* the walk that would meet one is refused before it starts.               *)
TerminalEnds(n, text, p) ==
  CASE Kind(n) = "char" -> MatchCharVal(NodeOf[n], text, p)
    [] Kind(n) = "num"  -> MatchNumVal(NodeOf[n], text, p)
    [] OTHER            -> {}

-----------------------------------------------------------------------------
(* Composite nodes, given the ends of every node: `sem[n][p]` is the set   *)
(* of positions where `n` can end from `p`.                                *)

(* A walk of `k` steps from `p` to `q`, the i-th of which is one of F[i].  *)
Chain(F, k, p, q) ==
  \E path \in [0 .. k -> Pos] :
    /\ path[0] = p
    /\ path[k] = q
    /\ \A i \in 1 .. k : path[i] \in F[i][path[i - 1]]

(* The positions reached by exactly `k` steps.                             *)
Reach(F, k, p) == {q \in Pos : Chain(F, k, p, q)}

AltEnds(sem, n, p) == UNION {sem[Parts(n)[i]][p] : i \in 1 .. Len(Parts(n))}

ConcatEnds(sem, n, p) ==
  Reach([i \in 1 .. Len(Parts(n)) |-> sem[Parts(n)[i]]], Len(Parts(n)), p)

(* A repetition can end where some permitted number of its body can.       *)
Permitted(d, k) == d.min <= k /\ (d.max # None => k <= d.max)

Again(f) == [i \in Nat |-> f]

RepeatEnds(sem, n, p) ==
  {q \in Pos : \E k \in Nat :
     Permitted(NodeOf[n], k) /\ Chain(Again(sem[Parts(n)[1]]), k, p, q)}

(* `sem` is a meaning of the grammar on `text`: each node means what its  *)
(* parts make of it.  A grammar without left recursion has exactly one.    *)
IsMeaning(sem, text) ==
  /\ sem \in [Nodes -> [Pos -> SUBSET Pos]]
  /\ \A n \in Nodes, p \in Pos :
       sem[n][p] = CASE Kind(n) = "alt"      -> AltEnds(sem, n, p)
                     [] Kind(n) = "concat"   -> ConcatEnds(sem, n, p)
                     [] Kind(n) = "repeat"   -> RepeatEnds(sem, n, p)
                     [] Kind(n) = "optional" -> sem[Parts(n)[1]][p] \cup {p}
                     [] Kind(n) = "ref"      -> sem[Body[NodeOf[n].target]][p]
                     [] OTHER                -> TerminalEnds(n, text, p)
=============================================================================
