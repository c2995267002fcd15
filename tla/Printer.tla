------------------------------ MODULE Printer ------------------------------
(***************************************************************************)
(* The canonical text of a parsed grammar (src/display.rs).                *)
(***************************************************************************)
EXTENDS Characters, Canonical

(* Where an element stands: "free", or as an item or body of another kind. *)
(* A slip to catch: a repetition of a repetition written bare.             *)
NeedsParensBare(e, context) ==
  \/ context = "concat" /\ e.kind = "alt"
  \/ context = "repeat" /\ e.kind \in {"alt", "concat"}

NeedsParens(e, context) ==
  \/ context = "concat" /\ e.kind = "alt"
  \/ context = "repeat" /\ e.kind \in {"alt", "concat", "repeat"}

(* The digits of `n`, the first not zero, and those of zero none.          *)
Digits(n, radix) ==
  LET written[k \in Nat] ==
        IF k = 0 THEN << >> ELSE Append(written[k \div radix], HexDigits[(k % radix) + 1])
  IN  written[n]

Decimal(n) == IF n = 0 THEN <<"0">> ELSE Digits(n, 10)

(* An even number of digits.                                               *)
WriteHex(n) ==
  LET digits == IF n = 0 THEN <<"0">> ELSE Digits(n, 16)
  IN  IF Len(digits) % 2 = 1 THEN <<"0">> \o digits ELSE digits

Joined(texts, separator) ==
  FlattenSeq([i \in DOMAIN texts |-> IF i = 1 THEN texts[i] ELSE separator \o texts[i]])

WriteRepeat(e) ==
  IF e.max # None /\ e.max = e.min /\ e.min # 0 THEN Decimal(e.min)
  ELSE (IF e.min = 0 THEN << >> ELSE Decimal(e.min)) \o <<"*">>
         \o (IF e.max = None THEN << >> ELSE Decimal(e.max))

WriteCharVal(e) ==
  (IF e.case_sensitive THEN <<"%", "s">> ELSE << >>) \o <<"DQUOTE">> \o e.value \o <<"DQUOTE">>

WriteNumVal(e) ==
  <<"%", "x">> \o
    IF e.range THEN WriteHex(e.value[1].lo) \o <<"-">> \o WriteHex(e.value[1].hi)
    ELSE Joined([i \in DOMAIN e.value |-> WriteHex(e.value[i].lo)], <<".">>)

(* `x` without parentheses about it: in `written` are its parts, as they   *)
(* are written in each place.                                              *)
Bare(x, written) ==
  LET parts(where) == [i \in DOMAIN x.parts |-> written[x.parts[i]][where]]
  IN  CASE x.kind = "alt"      -> Joined(parts("free"), <<" ", "/", " ">>)
        [] x.kind = "concat"   -> Joined(parts("concat"), <<" ">>)
        [] x.kind = "repeat"   -> WriteRepeat(x) \o parts("repeat")[1]
        [] x.kind = "optional" -> <<"[">> \o parts("free")[1] \o <<"]">>
        [] x.kind = "ref"      -> x.target
        [] x.kind = "char"     -> WriteCharVal(x)
        [] x.kind = "num"      -> WriteNumVal(x)
        [] x.kind = "prose"    -> <<"<">> \o x.text \o <<">">>

WriteElement(e, context) ==
  LET written[x \in Below(e)] ==
        [where \in {"free", "concat", "repeat"} |->
           IF NeedsParens(x, where) THEN <<"(">> \o Bare(x, written) \o <<")">>
           ELSE Bare(x, written)]
  IN  written[e][context]

WriteDefinition(d) ==
  d.name \o (IF d.defined_as = "=" THEN <<" ", "=", " ">> ELSE <<" ", "=", "/", " ">>)
    \o WriteElement(d.body, "free")

(* A grammar of no rules is a blank line, since no text at all is not one. *)
WriteGrammar(defs) ==
  IF defs = << >> THEN <<"CR", "LF">>
  ELSE FlattenSeq([i \in DOMAIN defs |-> WriteDefinition(defs[i]) \o <<"CR", "LF">>])
=============================================================================
