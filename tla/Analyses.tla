------------------------------ MODULE Analyses ------------------------------
(***************************************************************************)
(* The last stage of `check` (src/check.rs, Builder::finish): from the     *)
(* arena of a structurally sound grammar, nullability, then the search for *)
(* left recursion, which may reject the grammar, then the shortest matches,*)
(* then what each rule reaches that the crate cannot match.  The search    *)
(* and the shortest matches are modules of their own; here they take turns.*)
(***************************************************************************)
EXTENDS FirstCycles, Shortest

CONSTANT Arenas   \* The arenas considered.

VARIABLES
  phase,            \* "nullable", "cycles", "shortest", "reach"; "rejected", "checked".
  nullable,         \* The nodes known to match the empty string.
  prose,            \* Of each rule a prose value it reaches, or None.
  unrepresentable   \* Of each rule a terminal it reaches that no input holds, or None.

reached == <<prose, unrepresentable>>
vars == <<arena, phase, nullable, edges, search, knuth, reached>>

LOCAL INSTANCE NumVal

AllRules == DOMAIN arena.body

Init ==
  /\ arena \in Arenas /\ ArenaShape
  /\ phase = "nullable"
  /\ nullable = {}
  /\ edges = [r \in AllRules |-> {}]
  /\ SearchInit
  /\ KnuthInit
  /\ prose = [r \in AllRules |-> None]
  /\ unrepresentable = [r \in AllRules |-> None]

-----------------------------------------------------------------------------
(* Nullability: sweeps from the last node to the first, until one changes  *)
(* nothing.                                                                *)
(* A slip to catch: zero repetitions match nothing if one does not.        *)
MatchesEmptyBody(n, known) ==
  LET d == arena.nodes[n] IN
  CASE d.kind \in {"concat", "repeat", "ref"} -> Successors(n) \subseteq known
    [] d.kind = "alt"      -> Children(n) \cap known # {}
    [] d.kind = "optional" -> TRUE
    [] d.kind = "char"     -> d.value = << >>
    [] OTHER               -> FALSE

MatchesEmpty(n, known) ==
  LET d == arena.nodes[n] IN
  CASE d.kind = "alt"      -> Children(n) \cap known # {}
    [] d.kind = "concat"   -> Children(n) \subseteq known
    [] d.kind = "repeat"   -> d.min = 0 \/ Children(n) \subseteq known
    [] d.kind = "optional" -> TRUE
    [] d.kind = "ref"      -> Successors(n) \subseteq known
    [] d.kind = "char"     -> d.value = << >>
    [] OTHER               -> FALSE

Sweep(known) ==
  LET count == Cardinality(AllNodes)
      after[k \in 0 .. count] ==
        IF k = 0 THEN known
        ELSE after[k - 1] \cup
               IF MatchesEmpty(count - k, after[k - 1]) THEN {count - k} ELSE {}
  IN  after[count]

(* A slip to catch: only the first item of a concatenation comes first.    *)
ForemostFirst(n) ==
  IF Kind(n) = "concat" THEN {Parts(n)[1]}
  ELSE IF IsNever(n) THEN {} ELSE Children(n)

(* The items of `n` that can come first: all that precede them are nullable.*)
Foremost(n) ==
  IF Kind(n) = "concat"
  THEN {Parts(n)[i] : i \in {i \in DOMAIN Parts(n) :
                               \A j \in 1 .. i - 1 : Parts(n)[j] \in nullable}}
  ELSE IF IsNever(n) THEN {} ELSE Children(n)

(* What `from` leads to by `step`, itself included.                        *)
Closure(from, step(_)) ==
  LET grow[S \in SUBSET AllNodes] ==
        LET T == S \cup UNION {step(n) : n \in S} IN IF T = S THEN S ELSE grow[T]
  IN  grow[from]

Targets(nodes) ==
  {r \in AllRules : \E n \in nodes : Kind(n) = "ref" /\ arena.nodes[n].target = r}

FirstGraph == [r \in AllRules |-> Targets(Closure({arena.body[r]}, Foremost))]

Nullable ==
  /\ phase = "nullable"
  /\ nullable' = Sweep(nullable)
  /\ IF nullable' # nullable
     THEN UNCHANGED <<phase, edges>>
     ELSE phase' = "cycles" /\ edges' = FirstGraph
  /\ UNCHANGED <<arena, search, knuth, reached>>

LeftRecursion ==
  /\ phase = "cycles"
  /\ IF Searched
     THEN /\ phase' = IF errors = << >> THEN "shortest" ELSE "rejected"
          /\ UNCHANGED <<edges, search>>
     ELSE SearchNext /\ UNCHANGED phase
  /\ UNCHANGED <<arena, nullable, knuth, reached>>

-----------------------------------------------------------------------------
(* A slip to catch: what a repetition that never runs holds is reached.    *)
InsideAll(r) == Closure({arena.body[r]}, Children)

(* What a rule reaches.  Nothing inside a repetition that never runs is    *)
(* reached.  The example kept is the first of the rule's own, or else that *)
(* of the first rule it refers to that has one by then.                    *)
Inside(r) ==
  Closure({arena.body[r]}, LAMBDA n : IF IsNever(n) THEN {} ELSE Children(n))

References(r) == Targets(Inside(r))

IsRepresentable(n) ==
  LET d == arena.nodes[n] IN
  IF d.range THEN ScalarsIn(d.value[1].lo, d.value[1].hi) > 0
  ELSE \A i \in DOMAIN d.value : IsScalar(d.value[i].lo)

IsProse(n) == Kind(n) = "prose"
IsForeign(n) == Kind(n) = "num" /\ ~IsRepresentable(n)

FirstOf(nodes) == IF nodes = {} THEN None ELSE Lowest(nodes)

(* One sweep over the rules, in place.                                     *)
Spread(found) ==
  LET count == Cardinality(AllRules)
      heard(r, so_far) == {s \in References(r) : so_far[s] # None}
      after[k \in 0 .. count] ==
        IF k = 0 THEN found
        ELSE LET f == after[k - 1]  r == k - 1
             IN  IF f[r] = None /\ heard(r, f) # {}
                 THEN [f EXCEPT ![r] = f[Lowest(heard(r, f))]]
                 ELSE f
  IN  after[count]

ShortestMatches ==
  /\ phase = "shortest"
  /\ IF Settled
     THEN /\ phase' = "reach"
          /\ prose' = [r \in AllRules |-> FirstOf({n \in Inside(r) : IsProse(n)})]
          /\ unrepresentable' = [r \in AllRules |-> FirstOf({n \in Inside(r) : IsForeign(n)})]
          /\ UNCHANGED <<arena, knuth>>
     ELSE KnuthNext /\ UNCHANGED <<phase, reached>>
  /\ UNCHANGED <<nullable, edges, search>>

Compatibility ==
  /\ phase = "reach"
  /\ prose' = Spread(prose)
  /\ unrepresentable' = Spread(unrepresentable)
  /\ phase' = IF reached' = reached THEN "checked" ELSE "reach"
  /\ UNCHANGED <<arena, nullable, edges, search, knuth>>

Next == Nullable \/ LeftRecursion \/ ShortestMatches \/ Compatibility

Spec == Init /\ [][Next]_vars /\ WF_vars(Next)

-----------------------------------------------------------------------------
Answered == phase \in {"rejected", "checked"}

(* Nullable is what has a derivation of length zero, prose excluded.       *)
NullableExact ==
  phase = "cycles" => nullable = {n \in AllNodes : Derivable[n] = 1}

(* The nodes the recognizer may visit next at the position it is at.       *)
Standing(n, known) ==
  CASE Kind(n) = "concat" -> {Parts(n)[i] : i \in {i \in DOMAIN Parts(n) :
                                \A j \in 1 .. i - 1 : known[Parts(n)[j]] = 1}}
    [] OTHER              -> Reachable(n)

(* A grammar is rejected exactly when the recognizer could come back to a  *)
(* node without having read anything in between.                           *)
RejectedExact ==
  Answered =>
    LET known   == Derivable
        next(n) == Standing(n, known)
    IN  phase = "rejected" <=> \E n \in AllNodes : n \in Closure(next(n), next)

(* A rule is refused as a start exactly when a walk from it can meet what  *)
(* the crate cannot match, and the example named is one it can meet.       *)
ReachExact ==
  phase = "checked" =>
    \A r \in AllRules :
      LET met == Closure({arena.body[r]}, Reachable) IN
      /\ IF \E n \in met : IsProse(n)   THEN prose[r] \in met /\ IsProse(prose[r])
                                        ELSE prose[r] = None
      /\ IF \E n \in met : IsForeign(n) THEN unrepresentable[r] \in met
                                             /\ IsForeign(unrepresentable[r])
                                        ELSE unrepresentable[r] = None
=============================================================================
