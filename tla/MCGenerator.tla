---------------------------- MODULE MCGenerator ----------------------------
(***************************************************************************)
(* A grammar for the generator, with the tables the checker makes for it:  *)
(* the shortest match of each node and the branch that achieves it.        *)
(*                                                                         *)
(*   s    = *item                                                          *)
(*   item = "(" s ")" / "x" / bad / [%xD7FF-E000] deep                      *)
(*   bad  = "y" bad                     matches nothing                    *)
(*   deep = two                         units behind references            *)
(*   two  = %s"p" / *0(%s"q" / %s"r")   a repetition that never runs       *)
(*   z    = 2*"z"                                                          *)
(***************************************************************************)
EXTENDS Generator, MCTables

Arena == <<
  (* 0 *) Repeat(0, None, 1), Ref("item"),
  (* 2 *) Alt(<<3, 7, 8, 9>>), Concat(<<4, 5, 6>>), Str(<<40>>, FALSE), Ref("s"),
  (* 6 *) Str(<<41>>, FALSE), Str(<<120>>, FALSE), Ref("bad"),
  (* 9 *) Concat(<<10, 12>>), Opt(11), Span(55295, 57344), Ref("deep"),
  (* 13 *) Concat(<<14, 15>>), Str(<<121>>, FALSE), Ref("bad"),
  (* 16 *) Ref("two"),
  (* 17 *) Alt(<<18, 19>>), Str(<<112>>, TRUE), Repeat(0, 0, 20),
  (* 20 *) Alt(<<21, 22>>), Str(<<113>>, TRUE), Str(<<114>>, TRUE),
  (* 23 *) Repeat(2, None, 24), Str(<<122>>, TRUE) >>

MCNodes  == 0 .. Len(Arena) - 1
MCNodeOf == [n \in MCNodes |-> Arena[n + 1]]
MCBody   == [s |-> 0, item |-> 2, bad |-> 13, deep |-> 16, two |-> 17, z |-> 23]
MCRules  == DOMAIN MCBody

(* The checker's tables, written out; TLC compares them with their meaning.*)
Lengths == <<0, 0, 0, 2, 1, 0, 1, 1, None, 0, 0, 1, 0, None, 1, None,
             0, 0, 1, 0, 1, 1, 1, 2, 1>>

TableMinLen  == [n \in MCNodes |-> Lengths[n + 1]]
TableWitness ==
  [n \in MCNodes |-> CASE n = 2 -> 4 [] n \in {10, 17} -> 2 [] n = 20 -> 1 [] OTHER -> None]

ASSUME TablesAssumption == TableMinLen = MCMinLen /\ TableWitness = MCWitness /\ LengthsAddUp

MCGeneratable == {r \in MCRules : MCBody[r] \in NoProse}

MCAccepts(text, r) == Len(text) \in Meaning(text)[Body[r]][0]

-----------------------------------------------------------------------------
Options(coverage, preserve, depth, spread, len, max_steps) ==
  [coverage |-> coverage, preserve_case |-> preserve, max_depth |-> depth,
   spread |-> spread, max_output_len |-> len, max_steps |-> max_steps]

(* Random walks, at three depth budgets and under two resource limits;     *)
(* steered walks, some cut short by a limit; and a generator that leaves   *)
(* coverage mode and comes back to it at every opportunity.                *)
Random ==
  {Options(FALSE, FALSE, depth, 2, None, None) : depth \in 0 .. 2}
    \cup {Options(FALSE, TRUE, 2, 1, 1, None), Options(FALSE, TRUE, 2, 1, None, 5)}

Steered ==
  {Options(TRUE, TRUE, 0, 1, None, None), Options(TRUE, TRUE, 2, 1, 1, None)}

Mixed == {Options(coverage, TRUE, 1, 1, None, None) : coverage \in BOOLEAN}

MCSessions ==
  {[options |-> Random, asked |-> {"item", "z"}, calls |-> 2],
   [options |-> Steered, asked |-> {"s", "two", "bad"}, calls |-> 12],
   [options |-> Mixed, asked |-> {"s", "two"}, calls |-> 5]}
=============================================================================
