------------------------------- MODULE Syntax -------------------------------
(***************************************************************************)
(* A text is parsed (Parser), what was parsed is printed (Printer), and    *)
(* that is parsed in turn.  What a text should be read as is SelfGrammar's.*)
(***************************************************************************)
EXTENDS Parser, Printer, SelfGrammar

CONSTANT WordBound \* Bound: the length of the words two bodies are compared by.
ASSUME SyntaxAssumption == WordBound \in Nat \ {0}

VARIABLE printed   \* None; or the definitions that src is the printed form of.

(* Grammar's Display, and its answer read under either option.             *)
Display ==
  /\ status = "parsed" /\ printed = None
  /\ Begin(WriteGrammar(defs))
  /\ strict' \in BOOLEAN
  /\ printed' = defs

SyntaxInit == Init /\ printed = None

Next == (Parse /\ UNCHANGED printed) \/ Display

Spec == SyntaxInit /\ [][Next]_<<vars, printed>>
-----------------------------------------------------------------------------
(* The words of the leaves of `e`, up to the bound.                        *)
Followed(V, W) == {w \in {v \o u : v \in V, u \in W} : Len(w) <= WordBound}

(* Past the bound, more copies add nothing: each is empty or too much.     *)
Copies(count) == IF count = None \/ count > WordBound THEN WordBound + 1 ELSE count

(* The words of one word of each set.                                      *)
Product(sets) ==
  LET first[k \in Nat] ==
        IF k \notin DOMAIN sets THEN {<< >>} ELSE Followed(first[k - 1], sets[k])
  IN  first[Len(sets)]

Words(e) ==
  LET words[x \in Below(e)] ==
        LET of == [i \in DOMAIN x.parts |-> words[x.parts[i]]]
        IN  CASE x.kind = "alt"      -> UNION ToSet(of)
              [] x.kind = "concat"   -> Product(of)
              [] x.kind = "optional" -> {<< >>} \cup of[1]
              [] x.kind = "repeat"   ->
                   IF x.max # None /\ x.max < x.min THEN {}
                   ELSE UNION {Product([i \in 1 .. k |-> of[1]]) : k \in Copies(x.min) .. Copies(x.max)}
              [] OTHER               -> {<<x>>}
  IN  words[e]

Normal(e) ==
  \A x \in Below(e) :
    /\ x.kind \in {"alt", "concat"} =>
         Len(x.parts) > 1 /\ \A i \in DOMAIN x.parts : x.parts[i].kind # x.kind
    /\ x.kind = "repeat" => ~(x.max = 1 /\ x.min \in {0, 1})

(* How many parentheses are opened in a text.                              *)
Opens(text) == Cardinality({i \in DOMAIN text : text[i] = "("})

(* What the notation makes of the text under consideration.                *)
Readings == IF Contains(src, "NONASCII") THEN {} ELSE Rulelists([text |-> src, strict |-> strict])

Canonicalized(read) == [k \in DOMAIN read |-> [read[k] EXCEPT !.body = Canonicalize(@)]]
-----------------------------------------------------------------------------
(* The parser accepts exactly the language of ABNF's own grammar (SCOPE.md *)
(* 4.2, D35) and, accepting, finds the only meaning there is: all readings *)
(* of the text come to the same definitions, and those are its answer.     *)
(* Lookahead, longest match and giving whitespace back are how it does so. *)
ReadsExact ==
  Answered =>
    {Canonicalized(read) : read \in Readings} = IF status = "parsed" THEN {defs} ELSE {}

(* Canonicalization changes no body's language, whatever gaps there are    *)
(* between the counts that a repetition of a repetition allows, and leaves *)
(* nothing for a second pass to do.                                        *)
CanonicalExact ==
  status = "parsed" =>
    \A read \in Readings, k \in DOMAIN defs :
      Normal(defs[k].body) /\ Words(defs[k].body) = Words(read[k].body)

(* The printed form of a grammar is parsed, CRLF required or not, and as   *)
(* that grammar; and no text that is parsed as it opens fewer parentheses: *)
(* what is printed has those alone that the grammar needs (SCOPE.md 6.7).  *)
PrintsBack ==
  /\ Answered /\ printed # None => status = "parsed" /\ defs = printed
  /\ status = "parsed" => Opens(WriteGrammar(defs)) <= Opens(src)
=============================================================================
