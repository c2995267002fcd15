-------------------------------- MODULE Lint --------------------------------
(***************************************************************************)
(* Advisory warnings about a checked grammar (src/lint.rs).  Of the rules  *)
(* some are the user's, numbered before the others; the others are core    *)
(* rules, which refer to core rules only.                                  *)
(***************************************************************************)
EXTENDS Analyses, Ordered

CONSTANT MaxStarts \* Bound: the start rules given at a time.

VARIABLE linted    \* None, or what was asked and the warnings that were the answer.

Warning(kind, r)  == [kind |-> kind, rule |-> r]
DeadBranch(r, i)  == [kind |-> "UnproductiveAlternative", rule |-> r, branch |-> i]

(* A body's nodes, as written.                                             *)
Written(r) == Closure({arena.body[r]}, Children)

(* What a body mentions; and what it mentions where a walk can get.        *)
Mentioned(r) == Targets(Written(r))

(* A slip to catch: a repetition that never runs is followed all the same. *)
RunsIntoWritten(r) == Targets(Written(r))

RunsInto(r) == Targets(Inside(r))

ReferencedByOthers(users) == UNION {Mentioned(r) \ {r} : r \in users}

ReachableFrom(starts, users) ==
  LET chase[found \in SUBSET users] ==
        LET more == found \cup ((UNION {RunsInto(r) : r \in found}) \cap users)
        IN  IF more = found THEN found ELSE chase[more]
  IN  chase[starts]

(* The branch indices of the alternations of a body that match nothing.    *)
UnproductiveBranches(r) ==
  UNION {{i - 1 : i \in {i \in DOMAIN Parts(n) : MinLen(Parts(n)[i]) = None}} :
           n \in {n \in Written(r) : Kind(n) = "alt"}}

When(condition, warnings) == IF condition THEN warnings ELSE << >>

(* Branch by branch only where the rule as a whole is not dead.            *)
Productivity(r) ==
  IF MinLen(arena.body[r]) = None THEN <<Warning("UnproductiveRule", r)>>
  ELSE LET dead == Ascending(UnproductiveBranches(r))
       IN  [k \in DOMAIN dead |-> DeadBranch(r, dead[k])]

WarningsOf(r, users, shadows, starts) ==
  When(r \in shadows, <<Warning("ShadowsCoreRule", r)>>)
    \o Productivity(r)
    \o When(r \notin ReferencedByOthers(users), <<Warning("UnreferencedRule", r)>>)
    \o When(starts # None /\ r \notin ReachableFrom(starts, users), <<Warning("UnreachableRule", r)>>)

(* How many of the rules can be the user's.                                *)
UserCounts ==
  {k \in 1 .. Cardinality(AllRules) :
     \A r \in AllRules : r >= k => Mentioned(r) \cap (0 .. k - 1) = {}}

(* `lint`, and `lint_from` with start rules; a name no rule has is ignored. *)
LintInner(starts) ==
  /\ phase = "checked" /\ linted = None
  /\ \E k \in UserCounts, shadows \in {{}, {0}} :
       LET users == 0 .. k - 1
           asked == IF starts = None THEN None ELSE starts \cap users
       IN  linted' = [users    |-> users,
                      shadows  |-> shadows,
                      starts   |-> asked,
                      warnings |-> FlattenSeq([i \in 1 .. k |->
                                     WarningsOf(i - 1, users, shadows, asked)])]
  /\ UNCHANGED vars

LintPlain == LintInner(None)
LintFrom == \E starts \in SUBSET AllRules : Cardinality(starts) <= MaxStarts /\ LintInner(starts)

LintInit == Init /\ linted = None
LintNext == (Next /\ UNCHANGED linted) \/ LintPlain \/ LintFrom

LintSpec == LintInit /\ [][LintNext]_<<vars, linted>>
-----------------------------------------------------------------------------
(* Warnings come rule by rule, those of a rule by their kind and branch by *)
(* branch.                                                                 *)
Rank(w) ==
  CASE w.kind = "ShadowsCoreRule"         -> 0
    [] w.kind = "UnproductiveRule"        -> 1
    [] w.kind = "UnproductiveAlternative" -> 2
    [] w.kind = "UnreferencedRule"        -> 3
    [] w.kind = "UnreachableRule"         -> 4

Precedes(v, w) ==
  \/ v.rule < w.rule
  \/ v.rule = w.rule /\ Rank(v) < Rank(w)
  \/ v.rule = w.rule /\ Rank(v) = 2 /\ Rank(w) = 2 /\ v.branch < w.branch

(* A warning is given exactly when what it says is so (D36, D47): dead is  *)
(* what has no derivation, a dead rule's branches apart; unreferenced, what*)
(* no other rule mentions even where nothing runs; unreachable, what is no *)
(* start and no walk from one meets a reference to.  So what is no start   *)
(* and unreferenced is unreachable, too.  Warnings come in their order,    *)
(* each once.                                                              *)
WarningsExact ==
  linted # None =>
    LET given == ToSet(linted.warnings)
        known == Derivable
        dead(n) == known[n] = 0
        owns(r, n) == n \in Closure({arena.body[r]}, Children)
        met == Closure({arena.body[r] : r \in linted.starts}, Reachable)
        names(n, r) == Kind(n) = "ref" /\ arena.nodes[n].target = r
    IN  /\ \A i, j \in DOMAIN linted.warnings :
             i < j => Precedes(linted.warnings[i], linted.warnings[j])
        /\ \A w \in given : w.rule \in linted.users
        /\ \A r \in linted.users :
             LET warned(kind) == Warning(kind, r) \in given IN
             /\ warned("ShadowsCoreRule") <=> r \in linted.shadows
             /\ warned("UnproductiveRule") <=> dead(arena.body[r])
             /\ {w.branch : w \in {w \in given : w.rule = r /\ w.kind = "UnproductiveAlternative"}}
                  = IF dead(arena.body[r]) THEN {}
                    ELSE UNION {{i - 1 : i \in {i \in DOMAIN Parts(n) : dead(Parts(n)[i])}} :
                                  n \in {n \in AllNodes : owns(r, n) /\ Kind(n) = "alt"}}
             /\ warned("UnreferencedRule") <=>
                  ~ \E s \in linted.users \ {r}, n \in AllNodes : owns(s, n) /\ names(n, r)
             /\ warned("UnreachableRule") <=>
                  linted.starts # None /\ r \notin linted.starts /\ ~ \E n \in met : names(n, r)
             /\ warned("UnreferencedRule") /\ linted.starts # None /\ r \notin linted.starts
                  => warned("UnreachableRule")
=============================================================================
