---------------------------- MODULE MCRecognizer ----------------------------
(***************************************************************************)
(* One small grammar with the shapes that are hard to match, and its       *)
(* meaning computed from the empty one upwards.                            *)
(*                                                                         *)
(*   nest = ["a" nest]           recursive and nullable                    *)
(*   pair = nest nest            ambiguous, the same key asked for twice   *)
(*   upto = 3*("a" / "aa")       a minimum the input may not reach         *)
(*   many = 1000000*[%x61-62]    a huge minimum over a nullable body       *)
(*   few  = 0*2pair %s"B"        a bounded maximum over a nullable body    *)
(*   odd  = "a" / <prose>        refused                                   *)
(*   via  = [odd]                refused through a reference               *)
(*   span = 1*2"a"                                                         *)
(*   off  = *0<prose> "a"        not refused: nothing in there is reached  *)
(***************************************************************************)
EXTENDS Recognizer, MCLanguage

A == <<97>>

Arena == <<
  (* 0 *) Opt(1), Concat(<<2, 3>>), Str(A, FALSE), Ref("nest"),
  (* 4 *) Concat(<<5, 6>>), Ref("nest"), Ref("nest"),
  (* 7 *) Repeat(3, None, 8), Alt(<<9, 10>>), Str(A, FALSE), Str(A \o A, FALSE),
  (* 11 *) Repeat(1000000, None, 12), Opt(13), Span(97, 98),
  (* 14 *) Concat(<<15, 17>>), Repeat(0, 2, 16), Ref("pair"), Str(<<66>>, TRUE),
  (* 18 *) Alt(<<19, 20>>), Str(A, FALSE), Prose,
  (* 21 *) Opt(22), Ref("odd"),
  (* 23 *) Repeat(1, 2, 24), Str(A, FALSE),
  (* 25 *) Concat(<<26, 28>>), Repeat(0, 0, 27), Prose, Str(A, FALSE) >>

MCNodes  == 0 .. Len(Arena) - 1
MCNodeOf == [n \in MCNodes |-> Arena[n + 1]]
MCBody   == [nest |-> 0, pair |-> 4, upto |-> 7, many |-> 11, few |-> 14,
             odd |-> 18, via |-> 21, span |-> 23, off |-> 25]
MCRules  == DOMAIN MCBody

MCClean        == NoProse
MCRecognizable == {r \in MCRules : MCBody[r] \in MCClean}

OneInput    == {A \o A}
ThreeInputs == {A \o A \o A, <<97, 66, 97>>, <<98>>}

MeaningOf == [i \in Inputs |-> Meaning(i)]
MCSem     == MeaningOf

(* The grammar has no left recursion: taking away the nodes that lead to   *)
(* none of those left takes all away.                                      *)
Peeled ==
  LET peel[S \in SUBSET MCNodes] ==
        LET T == {n \in S : Foremost(n) \cap S # {}} IN IF T = S THEN S ELSE peel[T]
  IN  peel[MCNodes]

ASSUME Peeled = {}

Limit(s, d) == [max_steps |-> s, max_depth |-> d]
NoLimits    == {Limit(None, None)}
SomeLimits  == NoLimits \cup {Limit(2, None), Limit(6, None), Limit(None, 3), Limit(None, 6)}
=============================================================================
