------------------------------ MODULE Builder ------------------------------
(***************************************************************************)
(* The first stage of `check` (src/check.rs, merge and Builder): the       *)
(* definitions of a parsed grammar are merged into rules, the rules of the *)
(* user and then the core rules are lowered into one arena, every name is  *)
(* resolved on the way, and every defect met is reported.                  *)
(*                                                                         *)
(* An element is the tree the parser made, a record like a node whose parts*)
(* are elements and whose target is a name yet.                            *)
(***************************************************************************)
EXTENDS Naturals, Ordered

CONSTANTS
  Elements,     \* The elements that are written, and the elements in these.
  Definitions,  \* The definitions written of them: [name, defined_as, body, span].
  Sources,      \* The parsed grammars considered: sequences of definitions.
  CoreTable,    \* The rules of RFC 5234, Appendix B: [name, body].
  KeyOf,        \* Of each name its key: names that differ in case have one key.
  None

VARIABLES
  source,     \* The grammar.
  stage,      \* "merge", "user", "core"; "sound", "unsound".
  at,         \* The next definition, or the next rule of the table.
  order,      \* The keys defined, in the order of their first definition.
  collected,  \* Of each key [name, body], the body so far.
  frames,     \* The activations of lower: [id, element, parts].
  nodes,      \* The arena, of which node 0 is the first.
  rules,      \* The rules lowered: [name, body].
  errors      \* The defects reported, in order.

merging == <<order, collected>>
lowering == <<frames, nodes, rules>>
vars == <<source, stage, at, merging, lowering, errors>>

Ids == 0 .. Len(nodes) - 1
Arena == [nodes |-> [n \in Ids |-> nodes[n + 1]],
          body  |-> [r \in 0 .. Len(rules) - 1 |-> rules[r + 1].body]]

Lowered == INSTANCE Grammar WITH
  Nodes <- Ids, NodeOf <- Arena.nodes, Rules <- DOMAIN Arena.body, Body <- Arena.body

(* The fields of an element, by its kind.                                  *)
FieldsOf(kind) ==
  {"kind", "parts"} \cup (CASE kind = "ref"    -> {"target"}
                           [] kind = "repeat" -> {"min", "max"}
                           [] kind = "char"   -> {"value", "case_sensitive"}
                           [] kind = "num"    -> {"value", "range"}
                           [] OTHER           -> {})

(* The elements the parser makes: nothing said of names and ranges yet.    *)
ElementShape(e) ==
  /\ FieldsOf(e.kind) \subseteq DOMAIN e
  /\ e.kind \in {"alt", "concat", "repeat", "optional", "ref", "char", "num", "prose"}
  /\ e.parts \in Seq(Elements)
  /\ e.kind \in {"repeat", "optional"} => Len(e.parts) = 1
  /\ e.kind \in {"ref", "char", "num", "prose"} => e.parts = << >>
  /\ e.kind = "ref" => e.target \in DOMAIN KeyOf
  /\ e.kind = "repeat" => e.min \in Nat /\ e.max \in Nat \cup {None}
  /\ e.kind = "char" => e.value \in Seq(Nat) /\ e.case_sensitive \in BOOLEAN
  /\ e.kind = "num" => /\ e.value \in Seq([lo : Nat, hi : Nat]) /\ e.value # << >>
                       /\ e.range \in BOOLEAN
                       /\ e.range => Len(e.value) = 1
                       /\ ~e.range => \A i \in DOMAIN e.value : e.value[i].lo = e.value[i].hi

ASSUME BuilderAssumption ==
  /\ None \notin Nat
  /\ \A e \in Elements : ElementShape(e)
  /\ \A d \in Definitions : d.name \in DOMAIN KeyOf /\ d.body \in Elements
  /\ Sources \subseteq Seq(Definitions)
  /\ CoreTable \in Seq([name : DOMAIN KeyOf, body : Elements])

Init ==
  /\ source \in Sources
  /\ stage = "merge" /\ at = 1
  /\ order = << >>
  /\ collected = << >>
  /\ frames = << >> /\ nodes = << >> /\ rules = << >>
  /\ errors = << >>

-----------------------------------------------------------------------------
(* A slip to catch: names are compared as they are spelled.                *)
KeySpelled(d) == d.name

Key(d) == KeyOf[d.name]

CoreKeys == {Key(CoreTable[i]) : i \in DOMAIN CoreTable}

(* The next definition is one of a kind.                                   *)
Defined(how, known) ==
  /\ stage = "merge" /\ at <= Len(source)
  /\ source[at].defined_as = how
  /\ Key(source[at]) \in DOMAIN collected <=> known
  /\ at' = at + 1
  /\ UNCHANGED <<source, stage, lowering>>

Found ==
  /\ Defined("=", FALSE)
  /\ LET d == source[at]  k == Key(d) IN
     /\ order' = Append(order, k)
     /\ collected' = [x \in DOMAIN collected \cup {k} |->
                        IF x = k THEN [name |-> d.name, body |-> d.body] ELSE collected[x]]
  /\ UNCHANGED errors

BranchesOf(e) == IF e.kind = "alt" THEN e.parts ELSE <<e>>

(* A slip to catch: every `=/` makes an alternation of its own.            *)
CombineNested(e, more) == [kind |-> "alt", parts |-> <<e, more>>]

(* One flat alternation, however many definitions it was written in.  (The *)
(* code keeps the alternatives and combines them all in the end, which     *)
(* gives what combining them one by one does.)                             *)
Combine(e, more) == [kind |-> "alt", parts |-> BranchesOf(e) \o BranchesOf(more)]

Extend ==
  /\ Defined("=/", TRUE)
  /\ LET d == source[at] IN
     collected' = [collected EXCEPT ![Key(d)].body = Combine(@, d.body)]
  /\ UNCHANGED <<order, errors>>

Duplicate ==
  /\ Defined("=", TRUE)
  /\ errors' = Append(errors, [kind |-> "duplicate", span |-> source[at].span])
  /\ UNCHANGED merging

Orphan ==
  /\ Defined("=/", FALSE)
  /\ errors' = Append(errors, [kind |-> "orphan", span |-> source[at].span,
                               shadows_core |-> Key(source[at]) \in CoreKeys])
  /\ UNCHANGED merging

(* The rules merged, in the order of their first definition.               *)
Merged == [i \in DOMAIN order |-> collected[order[i]]]

-----------------------------------------------------------------------------
Table == IF stage = "user" THEN Merged ELSE CoreTable

PositionsOf(k, table) == {i \in DOMAIN table : Key(table[i]) = k}

(* A slip to catch: a core rule sees the rules of the user too.            *)
ResolveAnywhere(name) ==
  LET k == KeyOf[name]
      user == {i \in DOMAIN order : order[i] = k}
      core == PositionsOf(k, CoreTable)
  IN  IF user # {} THEN (CHOOSE i \in user : TRUE) - 1
      ELSE IF core # {} THEN Len(order) + (CHOOSE i \in core : TRUE) - 1
      ELSE None

(* The rule that `name` stands for in the rules being lowered, by its index*)
(* in the table of all rules, the user's first.                            *)
Resolve(name) ==
  LET k == KeyOf[name]
      user == {i \in DOMAIN order : order[i] = k}
      core == PositionsOf(k, CoreTable)
  IN  IF stage = "user" /\ user # {} THEN (CHOOSE i \in user : TRUE) - 1
      ELSE IF core # {} THEN Len(order) + (CHOOSE i \in core : TRUE) - 1
      ELSE None

IsInverted(e) ==
  \/ e.kind = "repeat" /\ e.max # None /\ e.min > e.max
  \/ e.kind = "num" /\ e.range /\ e.value[1].lo > e.value[1].hi

(* A slip to catch: the range of a repetition goes unchecked.              *)
ComplaintsOfOthers(e) ==
  IF e.kind = "ref" /\ Resolve(e.target) = None THEN <<[kind |-> "undefined", span |-> e.span]>>
  ELSE IF e.kind = "num" /\ IsInverted(e) THEN <<[kind |-> e.kind, span |-> e.span]>>
  ELSE << >>

(* What is wrong with an element itself.                                   *)
Complaints(e) ==
  IF e.kind = "ref" /\ Resolve(e.target) = None THEN <<[kind |-> "undefined", span |-> e.span]>>
  ELSE IF IsInverted(e) THEN <<[kind |-> e.kind, span |-> e.span]>>
  ELSE << >>

Placeholder == [kind |-> "prose", parts |-> << >>]

(* The id of a node is reserved before its parts are lowered.              *)
Reserve(e) ==
  /\ nodes' = Append(nodes, Placeholder)
  /\ frames' = Append(frames, [id |-> Len(nodes), element |-> e, parts |-> << >>])
  /\ errors' = errors \o Complaints(e)
  /\ UNCHANGED <<source, stage, at, merging, rules>>

BeginRule ==
  /\ stage \in {"user", "core"} /\ frames = << >> /\ at <= Len(Table)
  /\ Reserve(Table[at].body)

Top == Last(frames)

LowerPart ==
  /\ frames # << >> /\ Len(Top.parts) < Len(Top.element.parts)
  /\ Reserve(Top.element.parts[Len(Top.parts) + 1])

NodeFor(f) ==
  IF f.element.kind = "ref" THEN [f.element EXCEPT !.target = Resolve(f.element.target)]
  ELSE [f.element EXCEPT !.parts = f.parts]

Place ==
  /\ frames # << >> /\ Len(Top.parts) = Len(Top.element.parts)
  /\ nodes' = [nodes EXCEPT ![Top.id + 1] = NodeFor(Top)]
  /\ IF Len(frames) = 1
     THEN /\ frames' = << >>
          /\ rules' = Append(rules, [name |-> Table[at].name, body |-> Top.id])
          /\ at' = at + 1
     ELSE /\ frames' = [Front(frames) EXCEPT ![Len(frames) - 1].parts = Append(@, Top.id)]
          /\ UNCHANGED <<rules, at>>
  /\ UNCHANGED <<source, stage, merging, errors>>

(* On to the next table, and after the last to the verdict.                 *)
Turn ==
  /\ frames = << >>
  /\ \/ stage = "merge" /\ at > Len(source) /\ stage' = "user"
     \/ stage = "user" /\ at > Len(Table) /\ stage' = "core"
     \/ stage = "core" /\ at > Len(Table)
          /\ stage' = IF errors = << >> THEN "sound" ELSE "unsound"
  /\ at' = 1
  /\ UNCHANGED <<source, merging, lowering, errors>>

Merge == Found \/ Extend \/ Duplicate \/ Orphan
LowerRules == BeginRule \/ LowerPart \/ Place

Next == Merge \/ LowerRules \/ Turn

Spec == Init /\ [][Next]_vars

-----------------------------------------------------------------------------
(* What the recognizer, the generator and the analyses assume of an arena, *)
(* and that a node comes before its parts, as the sweeps for nullability   *)
(* have it.                                                                *)
SoundArena ==
  stage = "sound" =>
    /\ Lowered!WellFormed
    /\ \A n \in Ids : \A i \in DOMAIN nodes[n + 1].parts : n < nodes[n + 1].parts[i]

(* Of the definitions: the first `=` for a key founds a rule, `=/` extends *)
(* one that was founded before.                                            *)
Alike(i, j) == KeyOf[source[i].name] = KeyOf[source[j].name]
IsBase(i) == source[i].defined_as = "="
Misplaced(i) == IsBase(i) <=> \E j \in 1 .. i - 1 : IsBase(j) /\ Alike(i, j)

Founders == {i \in DOMAIN source : IsBase(i) /\ ~Misplaced(i)}
DefinitionsOf(f) == {i \in DOMAIN source : ~Misplaced(i) /\ Alike(i, f)}

(* The elements in `from`, however deep; none is deeper than the arena has *)
(* nodes.                                                                  *)
Within(from) ==
  LET deep[k \in Nat] ==
        IF k = 0 THEN from
        ELSE LET above == deep[k - 1]
             IN  above \cup UNION {{e.parts[i] : i \in DOMAIN e.parts} : e \in above}
  IN  deep[Len(nodes)]

(* Every defect of what was kept is reported once, and nothing else is:    *)
(* the definitions that have no place, the names nobody defines, the ranges*)
(* that are inverted.                                                      *)
ErrorsExact ==
  stage \in {"sound", "unsound"} =>
    LET core == {KeyOf[CoreTable[i].name] : i \in DOMAIN CoreTable}
        user == {KeyOf[source[i].name] : i \in Founders}
        elements == Within({source[i].body : i \in {i \in DOMAIN source : ~Misplaced(i)}})
        misplaced == {i \in DOMAIN source : Misplaced(i)}
        undefined == {e \in elements : e.kind = "ref" /\ KeyOf[e.target] \notin core \cup user}
        inverted  == {e \in elements : IsInverted(e)}
    IN  /\ {errors[i].span : i \in DOMAIN errors}
             = {source[i].span : i \in misplaced} \cup {e.span : e \in undefined \cup inverted}
        /\ IsInjective([i \in DOMAIN errors |-> errors[i].span])
        /\ \A i \in DOMAIN errors : errors[i].kind = "orphan" =>
             \E j \in misplaced : /\ source[j].span = errors[i].span
                                  /\ errors[i].shadows_core <=> KeyOf[source[j].name] \in core

(* The places of what lowering may complain of in an element, when `spans` *)
(* says this of its parts.                                                 *)
OwnSpan(e) == IF e.kind \in {"ref", "num", "repeat"} THEN {e.span} ELSE {}
SpansIn(e, spans) == OwnSpan(e) \cup UNION {spans[e.parts[i]] : i \in DOMAIN e.parts}

(* As the parser makes them: what is written in different places has       *)
(* different spans, and each definition has a span of its own.             *)
SpansApart(spans) ==
  /\ \A e \in Elements :
       /\ spans[e] = SpansIn(e, spans)
       /\ \A i \in DOMAIN e.parts : OwnSpan(e) \cap spans[e.parts[i]] = {}
       /\ \A i, j \in DOMAIN e.parts : i # j => spans[e.parts[i]] \cap spans[e.parts[j]] = {}
  /\ \A s \in Sources : \A i, j \in DOMAIN s :
       /\ s[i].span \notin spans[s[j].body]
       /\ i # j => s[i].span # s[j].span /\ spans[s[i].body] \cap spans[s[j].body] = {}

(* As it is in RFC 5234: among `core`, which is all that the core rules are*)
(* made of, there is no inverted range and no reference to anything else.  *)
CoreSound(core) ==
  /\ {CoreTable[i].body : i \in DOMAIN CoreTable} \subseteq core /\ core \subseteq Elements
  /\ \A e \in core : /\ ~IsInverted(e)
                     /\ e.kind = "ref" => \E i \in DOMAIN CoreTable :
                                            KeyOf[e.target] = KeyOf[CoreTable[i].name]
                     /\ \A i \in DOMAIN e.parts : e.parts[i] \in core

(* What an element or a node is, its parts and its target aside.           *)
Own(e) == IF e.kind = "ref" THEN [e EXCEPT !.target = None] ELSE [e EXCEPT !.parts = << >>]

(* Of a node and an element whether the one, with all below it, is the     *)
(* other lowered.                                                          *)
StandsFor ==
  LET stands[x \in Ids \X Elements] ==
        LET d == nodes[x[1] + 1]  e == x[2] IN
        /\ d.kind = e.kind /\ Own(d) = Own(e)
        /\ d.kind = "ref" => KeyOf[rules[d.target + 1].name] = KeyOf[e.target]
        /\ Len(d.parts) = Len(e.parts)
        /\ \A i \in DOMAIN d.parts : stands[<<d.parts[i], e.parts[i]>>]
  IN  stands

(* The arena is the grammar that was written, and the branches of a rule   *)
(* are numbered in the order they were written in, however they are divided*)
(* among definitions, D10.                                                 *)
ReadsBack ==
  stage = "sound" =>
    LET stands == StandsFor
        user   == Ascending(Founders)
        written(f) == LET defs == Ascending(DefinitionsOf(f))
                      IN  [i \in DOMAIN defs |-> source[defs[i]].body]
        means(body, bodies) ==
          IF Len(bodies) = 1 THEN stands[<<body, bodies[1]>>]
          ELSE LET parts    == nodes[body + 1].parts
                   branches == FlattenSeq([i \in DOMAIN bodies |-> BranchesOf(bodies[i])])
               IN  /\ nodes[body + 1].kind = "alt" /\ Len(parts) = Len(branches)
                   /\ \A i \in DOMAIN parts : stands[<<parts[i], branches[i]>>]
    IN  /\ Len(rules) = Len(user) + Len(CoreTable)
        /\ \A r \in DOMAIN user : /\ rules[r].name = source[user[r]].name
                                  /\ means(rules[r].body, written(user[r]))
        /\ \A c \in DOMAIN CoreTable :
             /\ rules[Len(user) + c].name = CoreTable[c].name
             /\ means(rules[Len(user) + c].body, <<CoreTable[c].body>>)

(* What the user calls a core rule does not reach inside one, D33; outside *)
(* it, the user's rule is the one that is meant.                           *)
Hygienic ==
  stage = "sound" =>
    LET count == Cardinality(Founders)
        isCore(n) == CoreTable # << >> /\ n >= rules[count + 1].body
    IN  \A n \in Ids : nodes[n + 1].kind = "ref" =>
          LET target == nodes[n + 1].target + 1
          IN  target > count <=>
                \/ isCore(n)
                \/ \A i \in Founders : KeyOf[source[i].name] # KeyOf[rules[target].name]
=============================================================================
