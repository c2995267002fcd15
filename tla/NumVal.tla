------------------------------- MODULE NumVal -------------------------------
(***************************************************************************)
(* The arithmetic of numeric terminals (src/ast.rs).  A grammar may write  *)
(* any u64; what can be matched or emitted is a Unicode scalar value, so a *)
(* range is measured, and indexed, with the surrogates taken out.          *)
(***************************************************************************)
EXTENDS Naturals

MaxScalar == 1114111   \* U+10FFFF
FirstSurrogate == 55296   \* U+D800
LastSurrogate  == 57343   \* U+DFFF

IsScalar(c) == c <= MaxScalar /\ (c < FirstSurrogate \/ c > LastSurrogate)

Larger(x, y) == IF x > y THEN x ELSE y
Smaller(x, y) == IF x < y THEN x ELSE y

(* How many values lo..hi and a..b have in common.                         *)
Overlap(lo, hi, a, b) ==
  IF Larger(lo, a) > Smaller(hi, b) THEN 0 ELSE Smaller(hi, b) - Larger(lo, a) + 1

ScalarsIn(lo, hi) ==
  IF lo > hi THEN 0
  ELSE Overlap(lo, hi, 0, MaxScalar) - Overlap(lo, hi, FirstSurrogate, LastSurrogate)

(* The scalar a draw of `index` picks, for index < ScalarsIn(lo, hi).      *)
NthScalar(lo, hi, index) ==
  LET below == Overlap(lo, hi, 0, FirstSurrogate - 1)
  IN  IF index < below THEN lo + index ELSE LastSurrogate + 1 + (index - below)
=============================================================================
