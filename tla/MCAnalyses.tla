----------------------------- MODULE MCAnalyses -----------------------------
(***************************************************************************)
(* Grammars to analyse: every first-graph on three rules; every pair of    *)
(* rules whose bodies are at most one operator over a terminal, an empty   *)
(* string, prose, a surrogate and the two rules; and a few grammars where  *)
(* lengths saturate, ties abound, or what is reached is several rules away.*)
(* A rule is its index, counted from 0.                                    *)
(***************************************************************************)
EXTENDS Lint, Ast

(* The nodes of a tree in pre-order, the first of them numbered `at`.      *)
RECURSIVE Lower(_, _)
Lower(tree, at) ==
  LET place(done, part) ==
        [nodes |-> done.nodes \o Lower(part, at + 1 + Len(done.nodes)),
         ids   |-> Append(done.ids, at + 1 + Len(done.nodes))]
      parts == FoldLeft(place, [nodes |-> << >>, ids |-> << >>], tree.parts)
  IN  <<[tree EXCEPT !.parts = parts.ids]>> \o parts.nodes

ArenaOf(bodies) ==
  LET place(done, body) ==
        [nodes |-> done.nodes \o Lower(body, Len(done.nodes)),
         ids   |-> Append(done.ids, Len(done.nodes))]
      all == FoldLeft(place, [nodes |-> << >>, ids |-> << >>], bodies)
  IN  [nodes |-> [n \in 0 .. Len(all.nodes) - 1 |-> all.nodes[n + 1]],
       body  |-> [r \in 0 .. Len(bodies) - 1 |-> all.ids[r + 1]]]

X == Str(<<120>>, FALSE)
Empty == Str(<< >>, FALSE)
Surrogate == Num(<<55296>>)

-----------------------------------------------------------------------------
(* All that comes first is the references, whatever follows them.          *)
LeadsTo(S) ==
  LET refs == SetToSortSeq(S, <)
  IN  IF S = {} THEN X ELSE Alt([i \in DOMAIN refs |-> Ref(refs[i])])

Graphs == {<<LeadsTo(a), LeadsTo(b), LeadsTo(c)>> : a, b, c \in SUBSET (0 .. 2)}

Atoms == {X, Empty, Prose, Surrogate, Ref(0), Ref(1)}

Shapes ==
  Atoms
    \cup {Opt(a) : a \in Atoms}
    \cup {Repeat(lo[1], lo[2], a) : lo \in {<<0, 0>>, <<0, None>>, <<2, 2>>}, a \in Atoms}
    \cup {Alt(<<a, b>>) : a, b \in Atoms}
    \cup {Concat(<<a, b>>) : a, b \in Atoms}

Pairs == {<<a, b>> : a, b \in Shapes}

Picked == {
  (* Saturation: 7 * 7 and more than MaxU64; then one more on top.         *)
  <<Repeat(7, None, Repeat(7, 9, Ref(1))), Concat(<<X, X>>), Concat(<<Ref(0), X>>),
    Alt(<<Ref(2), Ref(0), Concat(<<X, Ref(3)>>)>>)>>,
  (* Equally short ways round: the terminals have to be preferred.         *)
  <<Alt(<<Ref(1), X>>), Alt(<<Concat(<<X, Ref(0)>>), X>>),
    Alt(<<Concat(<<Opt(X), Ref(1)>>), Ref(0), Repeat(1, 3, Alt(<<Ref(1), X>>))>>)>>,
  <<Alt(<<Ref(2), Concat(<<Empty, Empty>>)>>), Ref(0), Alt(<<Concat(<<Empty, Empty>>), Opt(Ref(1))>>)>>,
  (* Nothing at all, and mutual ruin.                                      *)
  <<Concat(<<X, Ref(1)>>), Alt(<<Concat(<<X, Ref(0)>>), Concat(<<X, Ref(1)>>)>>),
    Alt(<<Ref(0), Repeat(0, 5, Ref(1))>>)>>,
  (* What is reached lies three rules on, and beside *0.                   *)
  <<Concat(<<X, Ref(1)>>), Alt(<<Repeat(0, 0, Surrogate), Ref(2)>>), Ref(3),
    Opt(Concat(<<Prose, Span(57344, 70000), Span(55296, 57343), Ref(4)>>)), Concat(<<X, Ref(2)>>)>>,
  (* Left recursion behind nullable rules and repetitions.                 *)
  <<Concat(<<Ref(1), Opt(X), Repeat(0, 3, Ref(2)), X>>), Repeat(0, 2, X),
    Concat(<<Repeat(2, 2, Ref(1)), Ref(0)>>)>> }

MCArenas == {ArenaOf(bodies) : bodies \in Graphs \cup Pairs \cup Picked}

(* a leads to b and c, b to a, c to b: two cycles.                         *)
TwoCycles == {ArenaOf(<<LeadsTo({1, 2}), LeadsTo({0}), LeadsTo({1})>>)}
=============================================================================
