-------------------------------- MODULE Ast --------------------------------
(***************************************************************************)
(* The elements of a grammar (src/ast.rs, Element and what it is made of). *)
(* A part is whatever the parts are at the time: another such record in    *)
(* what the parser makes, the number of a node in an arena.  Where each    *)
(* element was written is left out: nothing compares it.                   *)
(***************************************************************************)
EXTENDS Naturals, Sequences

Alt(parts)           == [kind |-> "alt", parts |-> parts]
Concat(parts)        == [kind |-> "concat", parts |-> parts]
Opt(part)            == [kind |-> "optional", parts |-> <<part>>]
Repeat(lo, hi, part) == [kind |-> "repeat", parts |-> <<part>>, min |-> lo, max |-> hi]
Ref(rule)            == [kind |-> "ref", parts |-> << >>, target |-> rule]
Str(value, cs)       == [kind |-> "char", parts |-> << >>, value |-> value,
                         case_sensitive |-> cs]
ProseVal(text)       == [kind |-> "prose", parts |-> << >>, text |-> text]
Prose                == [kind |-> "prose", parts |-> << >>]

(* A numeric terminal is a sequence of closed intervals: one value or      *)
(* several of them, or one range, which may be wider or inverted.          *)
Num(value)           == [kind |-> "num", parts |-> << >>, range |-> FALSE,
                         value |-> [i \in DOMAIN value |-> [lo |-> value[i], hi |-> value[i]]]]
Span(lo, hi)         == [kind |-> "num", parts |-> << >>, range |-> TRUE,
                         value |-> <<[lo |-> lo, hi |-> hi]>>]

(* The sole element, or several of them in a node of their kind.           *)
UnwrapSingle(parts, kind) ==
  IF Len(parts) = 1 THEN parts[1] ELSE [kind |-> kind, parts |-> parts]

IsExactly(e, lo, hi) == e.kind = "repeat" /\ e.min = lo /\ e.max = hi
=============================================================================
