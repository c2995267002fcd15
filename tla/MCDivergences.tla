--------------------------- MODULE MCDivergences ---------------------------
(***************************************************************************)
(* Four small grammars, each the smallest on which the generator does      *)
(* otherwise than its own comments and assertions say:                     *)
(*                                                                         *)
(*   s   = "x" / "(" s ")"        the first branch is the way out          *)
(*   l   = *"a"                   no upper bound                           *)
(*   r   = *bad                   productive, by matching nothing at all   *)
(*   h   = %x1F600-1F601          a range above the surrogates             *)
(*   bad = "x" (bad / "y" bad)    matches nothing                          *)
(***************************************************************************)
EXTENDS Generator, MCLanguage

Arena == <<
  (* 0 *) Alt(<<1, 2>>), Str(<<120>>, FALSE),
  (* 2 *) Concat(<<3, 4, 5>>), Str(<<40>>, FALSE), Ref("s"), Str(<<41>>, FALSE),
  (* 6 *) Repeat(0, None, 7), Str(<<97>>, FALSE),
  (* 8 *) Repeat(0, None, 9), Ref("bad"),
  (* 10 *) Concat(<<11, 12>>), Str(<<120>>, FALSE),
  (* 12 *) Alt(<<13, 14>>), Ref("bad"),
  (* 14 *) Concat(<<15, 16>>), Str(<<121>>, FALSE), Ref("bad"),
  (* 17 *) Span(128512, 128513) >>

MCNodes  == 0 .. Len(Arena) - 1
MCNodeOf == [n \in MCNodes |-> Arena[n + 1]]
MCBody   == [s |-> 0, l |-> 6, r |-> 8, bad |-> 10, h |-> 17]
MCRules  == DOMAIN MCBody

Lengths == <<1, 1, 3, 1, 1, 1, 0, 1, 0, None, None, 1, None, None, None, 1, None, 1>>

TableMinLen  == [n \in MCNodes |-> Lengths[n + 1]]
TableWitness == [n \in MCNodes |-> IF n = 0 THEN 1 ELSE None]

MCAccepts(text, r) == Len(text) \in Meaning(text)[Body[r]][0]

Options(coverage, spread) ==
  [coverage |-> coverage, preserve_case |-> TRUE, max_depth |-> 2, spread |-> spread,
   max_output_len |-> 4, max_steps |-> None]

Asking(rule, allowed) == {[options |-> allowed, asked |-> {rule}, calls |-> 3]}

(* Steered, drawn as usual, and drawn with the largest spread there is.    *)
Steered == Asking("s", {Options(TRUE, 1)})
Widest  == Asking("l", {Options(FALSE, spread) : spread \in {1, MaxU64}})
Drawn   == Asking("r", {Options(FALSE, 1)})
High    == Asking("h", {Options(FALSE, 1)})
=============================================================================
