----------------------------- MODULE MCLanguage -----------------------------
(***************************************************************************)
(* The meaning of a grammar, computed from the empty one upwards.          *)
(***************************************************************************)
EXTENDS Language, Ast, Functions

(* What can reach one of `targets`: the least set closed under going back. *)
CanReach(targets) ==
  LET grow[S \in SUBSET Nodes] ==
        LET T == S \cup {n \in Nodes : Reachable(n) \cap S # {}}
        IN  IF T = S THEN S ELSE grow[T]
  IN  grow[targets]

NoProse == Nodes \ CanReach({n \in Nodes : Kind(n) = "prose"})

-----------------------------------------------------------------------------
(* No position is ever lowered, so the positions reached by exactly k      *)
(* steps are the same for every k above MaxPos: counts are cut off there.  *)

Image(f, S) == UNION {f[q] : q \in S}

Cut(k) == IF k > MaxPos + 1 THEN MaxPos + 1 ELSE k

(* The positions after exactly 0, 1, ... steps.                            *)
Levels(f, p) ==
  LET level[k \in 0 .. MaxPos + 1] == IF k = 0 THEN {p} ELSE Image(f, level[k - 1])
  IN  level

Allowed(d) == Cut(d.min) .. IF d.max = None THEN MaxPos + 1 ELSE Cut(d.max)

(* The positions after the parts one after the other.                      *)
InTurn(sem, parts, p) ==
  LET after[k \in 0 .. Len(parts)] ==
        IF k = 0 THEN {p} ELSE Image(sem[parts[k]], after[k - 1])
  IN  after[Len(parts)]

OneStep(sem, text, n, p) ==
  LET d == NodeOf[n] IN
  CASE d.kind = "alt"      -> UNION {sem[m][p] : m \in Range(d.parts)}
    [] d.kind = "concat"   -> InTurn(sem, d.parts, p)
    [] d.kind = "repeat"   -> LET level == Levels(sem[d.parts[1]], p)
                              IN  UNION {level[k] : k \in Allowed(d)}
    [] d.kind = "optional" -> {p} \cup sem[d.parts[1]][p]
    [] d.kind = "ref"      -> sem[Body[d.target]][p]
    [] OTHER               -> TerminalEnds(n, text, p)

Meaning(text) ==
  LET kleene[sem \in [Nodes -> [Pos -> SUBSET Pos]]] ==
        LET next == [n \in Nodes |-> [p \in Pos |-> OneStep(sem, text, n, p)]]
        IN  IF next = sem THEN sem ELSE kleene[next]
  IN  kleene[[n \in Nodes |-> [p \in Pos |-> {}]]]
=============================================================================
