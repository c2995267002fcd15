------------------------------ MODULE MCSyntax ------------------------------
(***************************************************************************)
(* Texts for TLC: every short one over the characters that matter to one   *)
(* part of the notation, and a few longer ones.                            *)
(***************************************************************************)
EXTENDS Syntax

Start == <<"a", "=">>
End   == <<"CR", "LF">>

(* Every sequence of up to `n` of `chars`, between `before` and `after`.   *)
Between(before, chars, n, after) ==
  {before \o t \o after : t \in UNION {[1 .. k -> chars] : k \in 0 .. n}}

(* Where a line, a rule, a comment and a grammar end.                      *)
Lines ==
  Between(<< >>, {"a", "=", " ", "CR", "LF", ";"}, 3, << >>)
    \cup Between(Start \o <<"a">>, {"a", "/", " ", "CR", "LF", ";"}, 4, << >>)
    \cup {Start \o <<"a", ";">> \o t \o <<"CR", "LF", " ", "a", "LF">> :
            t \in UNION {[1 .. k -> {" ", "HTAB", "_", ";", "LF"}] : k \in 0 .. 2}}

(* Incremental definitions, and the whitespace around `=` and `=/`.        *)
Rules ==
  Between(<<"a">>, {"=", "/", " ", "LF"}, 4, <<"a", "LF">>)
    \cup {Start \o <<"a", "LF">> \o t \o <<"a", "CR", "LF">> :
            t \in UNION {[1 .. k -> {"B", "=", "/", "LF"}] : k \in 1 .. 3}}

(* Groups, options, repetitions, alternations and concatenations.          *)
Shapes == Between(Start, {"a", "*", "1", "2", "(", ")", "[", "]", "/", " "}, 4, End)

(* Numbers of every radix up to the largest and past it.                   *)
Values ==
  Between(Start \o <<"%">>, {"x", "d", "b", "1", "5", "A", ".", "-"}, 4, End)
    \cup Between(Start \o <<"%", "D">>, {"2", "1", "0"}, 3, End)
    \cup Between(Start, {"2", "1", "*"}, 4, <<"a">> \o End)

(* Strings and prose.                                                      *)
Quotes ==
  Between(Start, {"DQUOTE", "<", ">", "%", "S", "i", " ", "HTAB"}, 4, End)
    \cup Between(Start \o <<"DQUOTE">>, {"a", "(", ")", ";", "LF"}, 2, <<"DQUOTE">> \o End)

Foreign == {<<"NONASCII">>, Start \o <<"DQUOTE", "NONASCII", "DQUOTE">> \o End, << >>}

(* Repetitions of `body`, and of those, under every pair of bounds.        *)
Written == {<<"*">>, <<"2">>, <<"*", "1">>, <<"1", "*", "1">>, <<"2", "*">>, <<"*", "0">>,
            <<"2", "*", "1">>, << >>}
Bodies == {<<"a">>, <<"a", " ", "b">>, <<"a", "/", "b">>, <<"[", "a", "]">>}

Grouped(t) == <<"(">> \o t \o <<")">>

Nested ==
  {Start \o t \o End :
     t \in UNION {{p \o Grouped(q \o Grouped(r \o Grouped(b))) : p, q, r \in Written}: b \in Bodies}
           \cup {u \o v \o w : u \in {<<"a", " ">>, <<"a", "/">>, << >>},
                               v \in {p \o Grouped(b) : p \in Written, b \in Bodies},
                               w \in {<<" ", "a">>, <<"/", "a">>}}}

MCTexts == Lines \cup Rules \cup Shapes \cup Values \cup Quotes \cup Foreign \cup Nested
=============================================================================
