------------------------------- MODULE Parser -------------------------------
(***************************************************************************)
(* Grammar text to definitions (src/parse.rs): recursive descent over a    *)
(* cursor, one operator per production.  An operator is given a position   *)
(* of the text, counted from 0, and answers with the position after what   *)
(* it read and the value of that, or with why it could not.                *)
(***************************************************************************)
EXTENDS Characters, Canonical

CONSTANT Texts \* Bound: the texts considered.

(* What can be wrong with a text of ASCII.                                 *)
Errors == {"UnexpectedEof", "Expected", "ExpectedCrlf", "NumberTooLarge"}

ASSUME ParserAssumption == Texts \subseteq Seq(CHAR) /\ None \notin Errors

VARIABLES
  src,         \* The text.
  strict,      \* ParseOptions::strict_crlf: whether only CRLF ends a line.
  pos,         \* The cursor, between two items of the rule list.
  iterations,  \* The items of the rule list read.
  defs,        \* The definitions among them: [name, defined_as, body].
  status       \* "new", "reading", "parsed"; or which ParseError it is.

reading == <<pos, iterations, defs, status>>
vars == <<src, strict, reading>>

Peek(p) == IF p < Len(src) THEN src[p + 1] ELSE "END"

TextFrom(p, q) == SubSeq(src, p + 1, q)

Read(p, v) == [at |-> p, value |-> v, error |-> None]
Failure(p, why) == [at |-> p, value |-> None, error |-> why]
Expected(p) == Failure(p, IF Peek(p) = "END" THEN "UnexpectedEof" ELSE "Expected")

Failed(r) == r.error # None

(* What is done with a result, an error apart, which is handed on.         *)
AndThen(r, then(_)) == IF Failed(r) THEN r ELSE then(r)

(* The first position from `p` on that holds none of `chars`.              *)
Skip(p, chars) ==
  CHOOSE q \in p .. Len(src) : Peek(q) \notin chars /\ \A i \in p .. q - 1 : Peek(i) \in chars

-----------------------------------------------------------------------------
(* Whitespace, comments and line endings.                                  *)

(* The position after the line ending at `p`, which is `p` if there is none.*)
TryLineEnding(p) ==
  IF Peek(p) = "CR" /\ Peek(p + 1) = "LF" THEN p + 2
  ELSE IF Peek(p) \in {"CR", "LF"} /\ ~strict THEN p + 1
  ELSE p

LineEnding(p) ==
  IF TryLineEnding(p) # p THEN Read(TryLineEnding(p), "CRLF")
  ELSE IF strict /\ Peek(p) \in {"CR", "LF"} THEN Failure(p, "ExpectedCrlf")
  ELSE Expected(p)

Comment(p) == LineEnding(Skip(p + 1, WSP \cup VCHAR))

CNl(p) == IF Peek(p) = ";" THEN Comment(p) ELSE LineEnding(p)

(* A slip to catch: a line that begins with a comment continues the last.  *)
CWspComment(p) ==
  IF Peek(p) \in WSP THEN p + 1
  ELSE IF /\ Peek(p) \in {";", "CR", "LF"} /\ ~Failed(CNl(p))
          /\ Peek(CNl(p).at) \in WSP \cup {";"}
  THEN IF Peek(CNl(p).at) = ";" THEN CNl(p).at ELSE CNl(p).at + 1
  ELSE p

(* The position after the whitespace at `p`, which is `p` if there is none.*)
(* A line break is whitespace if the next line begins with whitespace.     *)
CWsp(p) ==
  IF Peek(p) \in WSP THEN p + 1
  ELSE IF Peek(p) \in {";", "CR", "LF"} /\ ~Failed(CNl(p)) /\ Peek(CNl(p).at) \in WSP
  THEN CNl(p).at + 1
  ELSE p

StarCWsp(p) ==
  LET after[q \in 0 .. Len(src)] == IF CWsp(q) = q THEN q ELSE after[CWsp(q)]
  IN  after[p]

StarWsp(p) == Skip(p, WSP)

-----------------------------------------------------------------------------
(* Names, numbers, terminals.                                              *)

Rulename(p) ==
  IF Peek(p) \notin ALPHA THEN Expected(p)
  ELSE LET q == Skip(p + 1, ALPHA \cup DIGIT \cup {"-"}) IN Read(q, TextFrom(p, q))

(* `=/` rather than `=`: no alternation begins with a slash.               *)
DefinedAs(p) ==
  LET q == StarCWsp(p) IN
  IF Peek(q) # "=" THEN Expected(q)
  ELSE IF Peek(q + 1) = "/" THEN Read(StarCWsp(q + 2), "=/")
  ELSE Read(StarCWsp(q + 1), "=")

(* One more digit.  After an overflow the literal is read to its end, and  *)
(* what is read of it from there on does not matter.                       *)
MoreDigits(so_far, digit, radix) ==
  LET next == so_far.value * radix + digit
  IN  IF next > MaxU64 THEN [value |-> 0, overflowed |-> TRUE]
      ELSE [so_far EXCEPT !.value = next]

Number(p, radix) ==
  LET q == Skip(p, DigitsOf(radix))
      literal[i \in p .. q] == IF i = p THEN [value |-> 0, overflowed |-> FALSE]
                              ELSE MoreDigits(literal[i - 1], Worth[src[i]], radix)
  IN  IF q = p THEN Expected(p)
      ELSE IF literal[q].overflowed THEN Failure(p, "NumberTooLarge")
      ELSE Read(q, literal[q].value)

TryNumber(p) == IF Peek(p) \in DIGIT THEN Number(p, 10) ELSE Read(p, None)

(* The bounds written at `p`, or None.                                     *)
Bounds(p) ==
  AndThen(TryNumber(p), LAMBDA min :
    IF Peek(min.at) = "*"
    THEN AndThen(TryNumber(min.at + 1), LAMBDA max :
           Read(max.at, [min |-> IF min.value = None THEN 0 ELSE min.value,
                         max |-> max.value]))
    ELSE IF min.value = None THEN Read(p, None)
    ELSE Read(min.at, [min |-> min.value, max |-> min.value]))

QuotedString(p, case_sensitive) ==
  IF Peek(p) # "DQUOTE" THEN Expected(p)
  ELSE LET q == Skip(p + 1, QUOTABLE) IN
       IF Peek(q) # "DQUOTE" THEN Expected(q)
       ELSE Read(q + 1, Str(TextFrom(p + 1, q), case_sensitive))

ProseValue(p) ==
  LET q == Skip(p + 1, PROSE) IN
  IF Peek(q) # ">" THEN Expected(q) ELSE Read(q + 1, ProseVal(TextFrom(p + 1, q)))

(* The numbers at `p`, a dot between them.                                 *)
DottedNumbers(p, radix) ==
  LET values[q \in 0 .. Len(src)] ==
        AndThen(Number(q, radix), LAMBDA first :
          IF Peek(first.at) # "." THEN Read(first.at, <<first.value>>)
          ELSE AndThen(values[first.at + 1], LAMBDA more :
                 Read(more.at, <<first.value>> \o more.value)))
  IN  values[p]

NumValue(p, radix) ==
  AndThen(Number(p, radix), LAMBDA first :
    IF Peek(first.at) = "-"
    THEN AndThen(Number(first.at + 1, radix), LAMBDA hi : Read(hi.at, Span(first.value, hi.value)))
    ELSE AndThen(DottedNumbers(p, radix), LAMBDA all : Read(all.at, Num(all.value))))

Percent(p) ==
  LET marker == ToLower(Peek(p + 1)) IN
  CASE marker \in {"s", "i"} -> QuotedString(p + 2, marker = "s")
    [] marker = "b" -> NumValue(p + 2, 2)
    [] marker = "d" -> NumValue(p + 2, 10)
    [] marker = "x" -> NumValue(p + 2, 16)
    [] marker \notin {"s", "i", "b", "d", "x"} -> Expected(p + 1)

-----------------------------------------------------------------------------
(* The body of a rule.                                                     *)

StartsRepetition(c) == c \in ALPHA \cup DIGIT \cup {"(", "[", "DQUOTE", "%", "<", "*"}

(* The body of a rule: what its parts are is in `inner`, which gives for   *)
(* each position the items read from it, and the branches.                 *)
Alternation(p, inner) ==
  AndThen(inner[p].branches, LAMBDA all : Read(all.at, UnwrapSingle(all.value, "alt")))

(* `(`, or `[`, an alternation and what closes it.                         *)
Enclosed(p, close, inner) ==
  AndThen(Alternation(StarCWsp(p + 1), inner), LAMBDA body :
    LET q == StarCWsp(body.at) IN
    IF Peek(q) # close THEN Expected(q) ELSE Read(q + 1, body.value))

Group(p, inner) == Enclosed(p, ")", inner)
Option(p, inner) ==
  AndThen(Enclosed(p, "]", inner), LAMBDA body : Read(body.at, Opt(body.value)))

Element(p, inner) ==
  LET c == Peek(p) IN
  CASE c \in ALPHA    -> AndThen(Rulename(p), LAMBDA name : Read(name.at, Ref(name.value)))
    [] c = "("        -> Group(p, inner)
    [] c = "["        -> Option(p, inner)
    [] c = "DQUOTE"   -> QuotedString(p, FALSE)
    [] c = "%"        -> Percent(p)
    [] c = "<"        -> ProseValue(p)
    [] c \notin ALPHA \cup {"(", "[", "DQUOTE", "%", "<"} -> Expected(p)

Repetition(p, inner) ==
  AndThen(Bounds(p), LAMBDA bounds :
    AndThen(Element(bounds.at, inner), LAMBDA e :
      IF bounds.value = None THEN e
      ELSE Read(e.at, Repeat(bounds.value.min, bounds.value.max, e.value))))

(* Whitespace separates two items if what follows it can begin one.        *)
Concatenation(p, inner) ==
  AndThen(Repetition(p, inner), LAMBDA first :
    LET q == StarCWsp(first.at) IN
    IF q = first.at \/ ~StartsRepetition(Peek(q)) THEN Read(first.at, <<first.value>>)
    ELSE AndThen(inner[q].items, LAMBDA more : Read(more.at, <<first.value>> \o more.value)))

(* The whitespace is given back when no slash follows.                     *)
Branches(items, inner) ==
  AndThen(items, LAMBDA first :
    LET q == StarCWsp(first.at)
        branch == <<UnwrapSingle(first.value, "concat")>>
    IN  IF Peek(q) # "/" THEN Read(first.at, branch)
        ELSE AndThen(inner[StarCWsp(q + 1)].branches, LAMBDA more :
               Read(more.at, branch \o more.value)))

Descent ==
  LET inner[p \in 0 .. Len(src)] ==
        LET items == Concatenation(p, inner)
        IN  [items |-> items, branches |-> Branches(items, inner)]
  IN  inner

RuleElements(p) ==
  AndThen(Alternation(p, Descent), LAMBDA body : Read(StarWsp(body.at), body.value))

Rule(p) ==
  AndThen(Rulename(p), LAMBDA name :
    AndThen(DefinedAs(name.at), LAMBDA how :
      AndThen(RuleElements(how.at), LAMBDA body :
        AndThen(CNl(body.at), LAMBDA end :
          Read(end.at, [name |-> name.value, defined_as |-> how.value,
                        body |-> Canonicalize(body.value)])))))
-----------------------------------------------------------------------------
(* The rule list.                                                          *)

Begin(text) ==
  /\ src' = text
  /\ pos' = 0 /\ iterations' = 0 /\ defs' = << >> /\ status' = "new"

Init ==
  /\ src \in Texts /\ strict \in BOOLEAN
  /\ pos = 0 /\ iterations = 0 /\ defs = << >> /\ status = "new"

(* Text that is not ASCII is refused before any of it is read.             *)
Gate ==
  /\ status = "new"
  /\ status' = IF Contains(src, "NONASCII") THEN "NonAscii" ELSE "reading"
  /\ UNCHANGED <<src, strict, pos, iterations, defs>>

AtItem(chars) == status = "reading" /\ pos < Len(src) /\ Peek(pos) \in chars

(* The item read as `r`, which is the definitions it adds.                 *)
Take(r, more) ==
  /\ IF Failed(r)
     THEN status' = r.error /\ UNCHANGED <<pos, iterations, defs>>
     ELSE /\ pos' = r.at
          /\ iterations' = iterations + 1
          /\ defs' = defs \o more
          /\ UNCHANGED status
  /\ UNCHANGED <<src, strict>>

ReadRule == AtItem(ALPHA) /\ LET r == Rule(pos) IN Take(r, <<r.value>>)

ReadBlank == AtItem(WSP \cup {";", "CR", "LF"}) /\ Take(CNl(StarWsp(pos)), << >>)

NoRule ==
  /\ AtItem(VCHAR \ (ALPHA \cup {";"}))
  /\ Take(Expected(pos), << >>)

Finish ==
  /\ status = "reading" /\ pos = Len(src)
  /\ status' = IF iterations = 0 THEN Expected(pos).error ELSE "parsed"
  /\ UNCHANGED <<src, strict, pos, iterations, defs>>

Parse == Gate \/ ReadRule \/ ReadBlank \/ NoRule \/ Finish

Answered == status \notin {"new", "reading"}
=============================================================================
