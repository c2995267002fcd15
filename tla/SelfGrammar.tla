---------------------------- MODULE SelfGrammar ----------------------------
(***************************************************************************)
(* What ABNF says of its own notation (the productions at the top of       *)
(* src/parse.rs: RFC 5234, section 4, with both errata, and RFC 7405), as  *)
(* every way there is to read a text: nothing is preferred, nothing is     *)
(* looked ahead at, and what can be read in two ways is.                   *)
(*                                                                         *)
(* `t` is a text and whether its line endings are read strictly.  A reading*)
(* from position p of it, counted from 0, is <<q, v>>: v is what stands    *)
(* from p to before q.                                                     *)
(***************************************************************************)
EXTENDS Characters, Ast

Here(t, p, chars) == p < Len(t.text) /\ t.text[p + 1] \in chars

(* The ends of the runs of `chars` from `p`, the empty one among them.     *)
Runs(t, p, chars) == {q \in p .. Len(t.text) : \A i \in p .. q - 1 : Here(t, i, chars)}

After(t, ends, char) == {q + 1 : q \in {q \in ends : Here(t, q, {char})}}

(* A line ends with CRLF; or with a bare CR or LF, unless read strictly.   *)
LineEnds(t, p) ==
  IF Here(t, p, {"CR"}) /\ Here(t, p + 1, {"LF"}) THEN {p + 2}
  ELSE IF Here(t, p, {"CR", "LF"}) /\ ~t.strict THEN {p + 1}
  ELSE {}

CNlEnds(t, p) ==
  LineEnds(t, p)
    \cup UNION {UNION {LineEnds(t, q) : q \in Runs(t, s, WSP \cup VCHAR)} : s \in After(t, {p}, ";")}

CWspEnds(t, p) == UNION {After(t, {p} \cup CNlEnds(t, p), c) : c \in WSP}

StarCWspEnds(t, p) ==
  LET ends[q \in 0 .. Len(t.text)] == {q} \cup UNION {ends[s] : s \in CWspEnds(t, q)}
  IN  ends[p]

(* Any number of c-wsp, then `char`, then any number of c-wsp.             *)
Separated(t, p, char) ==
  UNION {StarCWspEnds(t, q) : q \in After(t, StarCWspEnds(t, p), char)}

(* What stands from `p` to before `q`.                                     *)
Piece(t, p, q) == SubSeq(t.text, p + 1, q)

Rulenames(t, p) ==
  {<<q, Piece(t, p, q)>> :
     q \in IF Here(t, p, ALPHA) THEN Runs(t, p + 1, ALPHA \cup DIGIT \cup {"-"}) ELSE {}}

(* The numbers that fit are all there are.                                 *)
Numbers(t, p, radix) ==
  LET value[q \in p .. Len(t.text)] ==
        IF q = p THEN 0 ELSE value[q - 1] * radix + Worth[t.text[q]]
  IN  {<<q, value[q]>> : q \in {q \in Runs(t, p, DigitsOf(radix)) \ {p} : value[q] <= MaxU64}}

Repeats(t, p) ==
  LET digits(q) == {<<q, None>>} \cup Numbers(t, q, 10)
  IN  {<<n[1], [min |-> n[2], max |-> n[2]]>> : n \in Numbers(t, p, 10)}
        \cup UNION {{<<hi[1], [min |-> IF lo[2] = None THEN 0 ELSE lo[2], max |-> hi[2]]>> :
                       hi \in UNION {digits(q) : q \in After(t, {lo[1]}, "*")}} :
                     lo \in digits(p)}

(* What stands between `open` and `close`, all of it `chars`.              *)
Delimited(t, p, open, chars, close) ==
  {<<q, Piece(t, p + 1, q - 1)>> :
     q \in UNION {After(t, Runs(t, s, chars), close) : s \in After(t, {p}, open)}}

Quoted(t, p, case_sensitive) ==
  {<<d[1], Str(d[2], case_sensitive)>> : d \in Delimited(t, p, "DQUOTE", QUOTABLE, "DQUOTE")}

Proses(t, p) == {<<d[1], ProseVal(d[2])>> : d \in Delimited(t, p, "<", PROSE, ">")}

(* Numbers with a dot between them.                                        *)
Dotted(t, p, radix) ==
  LET values[q \in 0 .. Len(t.text)] ==
        UNION {{<<n[1], <<n[2]>>>>}
                 \cup {<<m[1], <<n[2]>> \o m[2]>> : m \in UNION {values[s] : s \in After(t, {n[1]}, ".")}} :
               n \in Numbers(t, q, radix)}
  IN  values[p]

NumVals(t, p, radix) ==
  {<<d[1], Num(d[2])>> : d \in Dotted(t, p, radix)}
    \cup UNION {{<<hi[1], Span(lo[2], hi[2])>> :
                   hi \in UNION {Numbers(t, q, radix) : q \in After(t, {lo[1]}, "-")}} :
                 lo \in Numbers(t, p, radix)}

(* What `%` and a marker, of either case, introduce.                       *)
Percents(t, p) ==
  IF ~Here(t, p, {"%"}) THEN {}
  ELSE CASE Here(t, p + 1, {"b", "B"}) -> NumVals(t, p + 2, 2)
         [] Here(t, p + 1, {"d", "D"}) -> NumVals(t, p + 2, 10)
         [] Here(t, p + 1, {"x", "X"}) -> NumVals(t, p + 2, 16)
         [] Here(t, p + 1, {"s", "S"}) -> Quoted(t, p + 2, TRUE)
         [] Here(t, p + 1, {"i", "I"}) -> Quoted(t, p + 2, FALSE)
         [] OTHER -> {}

(* The body of a rule: what its parts can be is in `inner`, which gives for*)
(* each position the sequences of items read from it and those of branches.*)
Alternations(t, p, inner) == {<<b[1], UnwrapSingle(b[2], "alt")>> : b \in inner[p].branches}

Enclosures(t, p, open, close, inner) ==
  UNION {{<<q, a[2]>> : q \in After(t, StarCWspEnds(t, a[1]), close)} :
           a \in UNION {Alternations(t, s, inner) :
                          s \in UNION {StarCWspEnds(t, q) : q \in After(t, {p}, open)}}}

Elements(t, p, inner) ==
  {<<n[1], Ref(n[2])>> : n \in Rulenames(t, p)}
    \cup Enclosures(t, p, "(", ")", inner)
    \cup {<<o[1], Opt(o[2])>> : o \in Enclosures(t, p, "[", "]", inner)}
    \cup Quoted(t, p, FALSE)
    \cup Percents(t, p)
    \cup Proses(t, p)

Repetitions(t, p, inner) ==
  Elements(t, p, inner)
    \cup UNION {{<<e[1], Repeat(r[2].min, r[2].max, e[2])>> : e \in Elements(t, r[1], inner)} :
                  r \in Repeats(t, p)}

ItemLists(t, p, inner) ==
  UNION {{<<r[1], <<r[2]>>>>}
           \cup {<<m[1], <<r[2]>> \o m[2]>> :
                   m \in UNION {inner[s].items :
                                  s \in UNION {StarCWspEnds(t, q) : q \in CWspEnds(t, r[1])}}} :
         r \in Repetitions(t, p, inner)}

BranchLists(t, items, inner) ==
  UNION {LET branch == <<UnwrapSingle(c[2], "concat")>>
         IN  {<<c[1], branch>>}
               \cup {<<m[1], branch \o m[2]>> :
                       m \in UNION {inner[s].branches : s \in Separated(t, c[1], "/")}} :
         c \in items}

Expansions(t) ==
  LET inner[p \in 0 .. Len(t.text)] ==
        LET items == ItemLists(t, p, inner)
        IN  [items |-> items, branches |-> BranchLists(t, items, inner)]
  IN  inner

DefinedAss(t, p) ==
  {<<q, "=">> : q \in Separated(t, p, "=")}
    \cup {<<s, "=/">> : s \in UNION {StarCWspEnds(t, q) :
                                      q \in After(t, After(t, StarCWspEnds(t, p), "="), "/")}}

RulesAt(t, p) ==
  UNION {UNION {UNION {{<<q, [name |-> n[2], defined_as |-> how[2], body |-> a[2]]>> :
                          q \in UNION {CNlEnds(t, s) : s \in Runs(t, a[1], WSP)}} :
                       a \in Alternations(t, how[1], Expansions(t))} :
                how \in DefinedAss(t, n[1])} :
         n \in Rulenames(t, p)}

(* The definitions of the items from `p` to the end.                       *)
ItemsTo(t, p) ==
  LET lists[s \in 0 .. Len(t.text)] ==
        IF s = Len(t.text) THEN {<< >>}
        ELSE (UNION {{<<r[2]>> \o rest : rest \in lists[r[1]]} : r \in RulesAt(t, s)})
               \cup UNION {lists[q] : q \in UNION {CNlEnds(t, w) : w \in Runs(t, s, WSP)}}
  IN  lists[p]

Rulelists(t) == IF t.text = << >> THEN {} ELSE ItemsTo(t, 0)
=============================================================================
