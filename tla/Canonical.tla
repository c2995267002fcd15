----------------------------- MODULE Canonical -----------------------------
(***************************************************************************)
(* The rewrites of one rule body that need no knowledge of another rule    *)
(* (src/parse.rs, canonicalize), in one pass from the leaves up.           *)
(***************************************************************************)
EXTENDS Ast, SequencesExt

(* The elements in `e`, however deep, and `e` itself.                      *)
Below(e) ==
  LET level[k \in Nat] == IF k = 0 THEN {e} ELSE UNION {ToSet(x.parts) : x \in level[k - 1]}
      from[k \in Nat] == IF level[k] = {} THEN {} ELSE level[k] \cup from[k + 1]
  IN  from[0]

(* The parts of a node whose parts of the same kind are dissolved in it.   *)
Flattened(parts, kind) ==
  FlattenSeq([i \in DOMAIN parts |->
                IF parts[i].kind = kind THEN parts[i].parts ELSE <<parts[i]>>])

(* A slip to catch: bounds of bounds multiplied, gaps or not.              *)
RespelledOnce(e, body) ==
  IF e.max = 1 /\ e.min \in {0, 1} THEN IF e.min = 0 THEN Opt(body) ELSE body
  ELSE IF body.kind = "repeat" /\ body.max # e.max /\ e.max # 0
  THEN [e EXCEPT !.min = @ * body.min, !.parts = body.parts]
  ELSE [e EXCEPT !.parts = <<body>>]

(* A repetition whose body is `body`: `*1a` is `[a]` and `1*1a` is `a`.    *)
Respelled(e, body) ==
  IF IsExactly(e, 0, 1) THEN Opt(body)
  ELSE IF IsExactly(e, 1, 1) THEN body
  ELSE [e EXCEPT !.parts = <<body>>]

Canonicalize(e) ==
  LET canonical[x \in Below(e)] ==
        LET parts == [i \in DOMAIN x.parts |-> canonical[x.parts[i]]]
        IN  CASE x.kind \in {"alt", "concat"} -> UnwrapSingle(Flattened(parts, x.kind), x.kind)
              [] x.kind = "repeat"            -> Respelled(x, parts[1])
              [] OTHER                        -> [x EXCEPT !.parts = parts]
  IN  canonical[e]
=============================================================================
