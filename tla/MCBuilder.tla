------------------------------ MODULE MCBuilder ------------------------------
(***************************************************************************)
(* Grammars to build: all of two definitions with bodies of many shapes and*)
(* all of three with bodies of few.  The rules are called a, A, b and, like*)
(* a core rule, digit; the core table is an excerpt whose second rule      *)
(* refers to its first.                                                    *)
(***************************************************************************)
EXTENDS Builder, Ast, TLC

MCKeyOf == [a |-> "a", A |-> "a", b |-> "b", c |-> "c", digit |-> "digit", DIGIT |-> "digit",
            HEXDIG |-> "hexdig"]

(* The tree with a place in the source for every element in it.            *)
RECURSIVE Placed(_, _)
Placed(tree, span) ==
  [tree EXCEPT !.parts = [i \in DOMAIN tree.parts |-> Placed(tree.parts[i], Append(span, i))]]
    @@ [span |-> span]

RECURSIVE AllWithin(_)
AllWithin(tree) == {tree} \cup UNION {AllWithin(tree.parts[i]) : i \in DOMAIN tree.parts}

SpansWithin(tree) == UNION {OwnSpan(e) : e \in AllWithin(tree)}

X == Str(<<120>>, FALSE)

MCCoreTable == <<[name |-> "DIGIT",  body |-> Placed(Span(48, 57), <<10>>)],
                 [name |-> "HEXDIG", body |-> Placed(Alt(<<Ref("DIGIT"), Str(<<65>>, FALSE)>>), <<11>>)]>>

Bodies == {
  X, Ref("A"), Alt(<<X, Ref("digit")>>), Ref("HEXDIG"),
  Concat(<<Ref("c"), Opt(Ref("b"))>>),
  Repeat(3, 2, Alt(<<Span(7, 5), Ref("a")>>)),
  Alt(<<Alt(<<X, Prose>>), Repeat(0, None, Num(<<1, 2>>))>>) }

FewBodies == {X, Alt(<<X, Ref("digit")>>), Repeat(3, 2, X)}

Written(names, bodies, i) ==
  {[name |-> n, defined_as |-> how, body |-> Placed(b, <<i>>), span |-> <<i, 0>>] :
     n \in names, how \in {"=", "=/"}, b \in bodies}

Pairs == {<<d, e>> : d \in Written({"a", "A", "b", "digit"}, Bodies, 1),
                     e \in Written({"a", "b", "DIGIT"}, Bodies, 2)}

Triples == {<<d, e, f>> : d \in Written({"a"}, FewBodies, 1),
                          e \in Written({"A", "digit"}, FewBodies, 2),
                          f \in Written({"a", "A", "digit"}, FewBodies, 3)}

MCSources == Pairs \cup Triples
MCDefinitions == UNION {{s[i] : i \in DOMAIN s} : s \in MCSources}
CoreElements == UNION {AllWithin(MCCoreTable[i].body) : i \in DOMAIN MCCoreTable}

MCElements == UNION {AllWithin(d.body) : d \in MCDefinitions}
                \cup CoreElements

(* What the theorem about reported defects assumes of spans and core rules.*)
ASSUME CoreSound(CoreElements) /\ SpansApart([e \in MCElements |-> SpansWithin(e)])
=============================================================================
