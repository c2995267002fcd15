----------------------------- MODULE Characters -----------------------------
(***************************************************************************)
(* The characters a grammar is written in (src/parse.rs, the classes at its*)
(* top).  A character is a string; those that cannot be written as one are *)
(* called by their names in RFC 5234.  Of the letters only those are there *)
(* that play a part in the notation, and `y`; `_` is any other visible     *)
(* character, NONASCII one that is not ASCII.                              *)
(***************************************************************************)
EXTENDS Naturals, SequencesExt

CONSTANTS
  MaxU64,      \* Bound: u64::MAX, the largest number that can be written.
  None         \* An unbounded maximum; a number, bounds or an error there is not.

ASSUME CharactersAssumption ==
  /\ MaxU64 \in Nat
  /\ None \notin Nat
  /\ None \notin [min : Nat, max : Nat \cup {None}]

Lowers == <<"a", "b", "c", "d", "e", "f", "i", "s", "x", "y">>
Uppers == <<"A", "B", "C", "D", "E", "F", "I", "S", "X", "Y">>

ALPHA == ToSet(Lowers) \cup ToSet(Uppers)
DIGIT == {"0", "1", "2", "3", "4", "5", "6", "7", "8", "9"}
WSP   == {" ", "HTAB"}
VCHAR == ALPHA \cup DIGIT \cup
           {"=", "/", "*", "(", ")", "[", "]", ";", "DQUOTE", "%", "<", ">", "-", ".", "_"}
CHAR  == VCHAR \cup WSP \cup {"CR", "LF", "NONASCII"}

(* What may stand between the quotes of a char-val, and between the angle  *)
(* brackets of a prose-val: no tab in either.                              *)
QUOTABLE == (VCHAR \cup {" "}) \ {"DQUOTE"}
PROSE    == (VCHAR \cup {" "}) \ {">"}

Small == [i \in ToSet(Uppers) |-> Lowers[CHOOSE k \in DOMAIN Uppers : Uppers[k] = i]]

ToLower(c) == IF c \in DOMAIN Small THEN Small[c] ELSE c

(* The digits of the largest radix, and what each is worth in any of them. *)
HexDigits == <<"0", "1", "2", "3", "4", "5", "6", "7", "8", "9", "A", "B", "C", "D", "E", "F">>

Worth ==
  [c \in ToSet(HexDigits) \cup {Small[d] : d \in ToSet(Uppers) \cap ToSet(HexDigits)} |->
     (CHOOSE k \in DOMAIN HexDigits : ToLower(HexDigits[k]) = ToLower(c)) - 1]

DigitsOf(radix) == {c \in DOMAIN Worth : Worth[c] < radix}
=============================================================================
