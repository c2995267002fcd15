--------------------------- MODULE BuilderProofs ---------------------------
(***************************************************************************)
(* Whatever the grammar, an arena built without a complaint is sound, a    *)
(* name in it means what it should, and it reads back as what was written; *)
(* and what is complained of is what is wrong, each defect once.           *)
(***************************************************************************)
EXTENDS Builder, ProofSupport

(* What is lowered: what was written, and what `=/` made of it.            *)
Bodies == Elements \cup [kind : {"alt"}, parts : Seq(Elements)]

Frames == [id : Nat, element : Bodies, parts : Seq(Nat)]

RuleSet == [name : DOMAIN KeyOf, body : Nat]

(* The number of rules there will be.                                      *)
Total == Len(order) + Len(CoreTable)

(* A sequence, of whatever is in it.                                       *)
IsSequence(s) == s \in Seq({s[i] : i \in DOMAIN s})

(* The arena while it grows: its rules are known, its nodes are not yet.   *)
Growing == INSTANCE Grammar WITH
  Nodes <- Nat, NodeOf <- [n \in Nat |-> Placeholder],
  Rules <- 0 .. Total - 1, Body <- [r \in 0 .. Total - 1 |-> 0]

BuilderTypes ==
  /\ source \in Seq(Definitions)
  /\ stage \in {"merge", "user", "core", "sound", "unsound"}
  /\ at \in Nat \ {0}
  /\ order \in Seq(DOMAIN collected)
  /\ \A k \in DOMAIN collected : collected[k] \in [name : DOMAIN KeyOf, body : Bodies]
  /\ frames \in Seq(Frames)
  /\ IsSequence(nodes)
  /\ rules \in Seq(RuleSet)
  /\ IsSequence(errors)

(* As many rules are lowered as the stage says.                            *)
Progress ==
  /\ stage = "merge" => frames = << >> /\ nodes = << >> /\ rules = << >>
  /\ stage = "user" => Len(rules) = at - 1 /\ at <= Len(order) + 1
  /\ stage = "core" => Len(rules) = Len(order) + at - 1 /\ at <= Len(CoreTable) + 1
  /\ stage \in {"sound", "unsound"} => Len(rules) = Total
  /\ stage = "sound" => errors = << >>
  /\ frames # << >> => stage \in {"user", "core"} /\ at <= Len(Table)

(* These nodes exist, and were reserved after `n`.                         *)
After(parts, n) == \A i \in DOMAIN parts : n < parts[i] /\ parts[i] < Len(nodes)

Unblamed(e) == ~IsInverted(e) /\ (e.kind = "ref" => Resolve(e.target) \in 0 .. Total - 1)

GoodFrame(f) ==
  /\ f.id < Len(nodes)
  /\ After(f.parts, f.id)
  /\ Len(f.parts) <= Len(f.element.parts)
  /\ errors = << >> => Unblamed(f.element)

(* An activation waits for the part that the next one lowers.              *)
Waits(f, g) == f.id < g.id /\ Len(f.parts) < Len(f.element.parts)

Activations ==
  /\ \A i \in 1 .. Len(frames) : GoodFrame(frames[i])
  /\ \A i \in 1 .. Len(frames) - 1 : Waits(frames[i], frames[i + 1])

IsPlaced(n) == Growing!NodeShape(nodes[n + 1]) /\ After(nodes[n + 1].parts, n)

(* Only activations have nodes that are not what they will be.             *)
OthersPlaced ==
  errors = << >> =>
    \A n \in Ids : IsPlaced(n) \/ \E i \in 1 .. Len(frames) : frames[i].id = n

Rooted == \A i \in 1 .. Len(rules) : rules[i].body < Len(nodes)

BuilderInv == BuilderTypes /\ Progress /\ Activations /\ OthersPlaced /\ Rooted

-----------------------------------------------------------------------------
(* A sequence of anything is a sequence of what is in it.                  *)
LEMMA SequenceOf ==
  ASSUME NEW S, NEW s \in Seq(S)
  PROVE  IsSequence(s)
<1>1. Len(s) \in Nat /\ s \in [1 .. Len(s) -> S] /\ DOMAIN s = 1 .. Len(s)
  BY LenProperties
<1>2. s \in [1 .. Len(s) -> {s[i] : i \in DOMAIN s}]
  BY <1>1
<1>3. QED
  BY <1>1, <1>2, SeqDef DEF IsSequence

(* Appending to a sequence of anything.                                    *)
LEMMA AppendFacts ==
  ASSUME NEW s, IsSequence(s), NEW x
  PROVE  /\ IsSequence(Append(s, x)) /\ Len(s) \in Nat
         /\ Len(Append(s, x)) = Len(s) + 1
         /\ Append(s, x)[Len(s) + 1] = x
         /\ \A i \in 1 .. Len(s) : Append(s, x)[i] = s[i]
<1> DEFINE S == {s[i] : i \in DOMAIN s} \cup {x}
<1>1. s \in Seq(S) /\ x \in S
  <2>1. s \in Seq({s[i] : i \in DOMAIN s}) /\ {s[i] : i \in DOMAIN s} \subseteq S
    BY DEF IsSequence
  <2> HIDE DEF S
  <2>2. QED
    BY <2>1, SeqMonotonic DEF S
<1> HIDE DEF S
<1>2. Len(s) \in Nat /\ Append(s, x) \in Seq(S)
  BY <1>1, PushStack
<1>3. IsSequence(Append(s, x))
  BY <1>2, SequenceOf
<1>4. QED
  BY <1>1, <1>2, <1>3, PushStack

(* Nothing comes of a concatenation only if there was nothing.             *)
LEMMA ConcatFacts ==
  ASSUME NEW s, NEW t, IsSequence(s), IsSequence(t)
  PROVE  IsSequence(s \o t) /\ (s \o t = << >> => s = << >> /\ t = << >>)
<1> DEFINE S == {s[i] : i \in DOMAIN s} \cup {t[i] : i \in DOMAIN t}
<1>1. s \in Seq(S) /\ t \in Seq(S)
  <2>1. /\ s \in Seq({s[i] : i \in DOMAIN s}) /\ {s[i] : i \in DOMAIN s} \subseteq S
        /\ t \in Seq({t[i] : i \in DOMAIN t}) /\ {t[i] : i \in DOMAIN t} \subseteq S
    BY DEF IsSequence
  <2> HIDE DEF S
  <2>2. QED
    BY <2>1, SeqMonotonic
<1> HIDE DEF S
<1>2. s \o t \in Seq(S) /\ Len(s \o t) = Len(s) + Len(t)
  BY <1>1, ConcatProperties
<1>3. Len(s) \in Nat /\ Len(t) \in Nat
  BY <1>1
<1>4. ASSUME s \o t = << >> PROVE s = << >> /\ t = << >>
  <2>1. Len(s) = 0 /\ Len(t) = 0
    BY <1>2, <1>3, <1>4
  <2>2. QED
    BY <1>1, <2>1
<1>5. QED
  BY <1>2, <1>4, SequenceOf

(* What is lowered has the shape of an element, and so have its parts.     *)
LEMMA BodyFacts ==
  ASSUME NEW e \in Bodies
  PROVE  /\ ElementShape(e)
         /\ e.parts \in Seq(Elements) /\ Len(e.parts) \in Nat
         /\ \A i \in 1 .. Len(e.parts) : e.parts[i] \in Bodies
<1>1. CASE e \in Elements
  BY <1>1, BuilderAssumption DEF ElementShape, Bodies
<1>2. CASE e \in [kind : {"alt"}, parts : Seq(Elements)]
  <2>1. e.kind = "alt" /\ e.parts \in Seq(Elements) /\ DOMAIN e = {"kind", "parts"}
    BY <1>2
  <2>2. FieldsOf(e.kind) \subseteq DOMAIN e
    BY <2>1 DEF FieldsOf
  <2>3. QED
    BY <2>1, <2>2 DEF ElementShape, Bodies
<1>3. QED
  BY <1>1, <1>2 DEF Bodies

(* The table is made of what can be lowered.                               *)
LEMMA TableFacts ==
  ASSUME BuilderTypes
  PROVE  Table \in Seq([name : DOMAIN KeyOf, body : Bodies])
<1>1. Merged \in Seq([name : DOMAIN KeyOf, body : Bodies])
  <2>1. order \in Seq(DOMAIN collected) /\ Len(order) \in Nat /\ DOMAIN order = 1 .. Len(order)
    BY DEF BuilderTypes
  <2>2. \A i \in 1 .. Len(order) : collected[order[i]] \in [name : DOMAIN KeyOf, body : Bodies]
    BY <2>1 DEF BuilderTypes
  <2>3. Merged \in [1 .. Len(order) -> [name : DOMAIN KeyOf, body : Bodies]]
    BY <2>1, <2>2 DEF Merged
  <2>4. Merged \in UNION {[1 .. n -> [name : DOMAIN KeyOf, body : Bodies]] : n \in Nat}
    BY <2>1, <2>3
  <2>5. QED
    BY <2>4, SeqDef
<1>2. CoreTable \in Seq([name : DOMAIN KeyOf, body : Bodies])
  <2>1. CoreTable \in Seq([name : DOMAIN KeyOf, body : Elements])
    BY BuilderAssumption
  <2>2. [name : DOMAIN KeyOf, body : Elements] \subseteq [name : DOMAIN KeyOf, body : Bodies]
    BY DEF Bodies
  <2>3. QED
    BY <2>1, <2>2, SeqMonotonic
<1>3. QED
  BY <1>1, <1>2 DEF Table

(* A name that stands for a rule stands for one there will be.             *)
LEMMA ResolveFacts ==
  ASSUME BuilderTypes, NEW name, Resolve(name) # None
  PROVE  Resolve(name) \in 0 .. Total - 1
<1>1. Len(order) \in Nat /\ DOMAIN order = 1 .. Len(order)
  BY DEF BuilderTypes
<1>2. Len(CoreTable) \in Nat /\ DOMAIN CoreTable = 1 .. Len(CoreTable)
  BY BuilderAssumption
<1> DEFINE k == KeyOf[name]
           user == {i \in DOMAIN order : order[i] = k}
           core == PositionsOf(k, CoreTable)
<1>3. Resolve(name) = IF stage = "user" /\ user # {} THEN (CHOOSE i \in user : TRUE) - 1
                      ELSE IF core # {} THEN Len(order) + (CHOOSE i \in core : TRUE) - 1
                      ELSE None
  BY DEF Resolve
<1>4. user \subseteq 1 .. Len(order) /\ core \subseteq 1 .. Len(CoreTable)
  BY <1>1, <1>2 DEF PositionsOf
<1> HIDE DEF user, core
<1>5. CASE stage = "user" /\ user # {}
  <2>1. (CHOOSE i \in user : TRUE) \in 1 .. Len(order)
    BY <1>4, <1>5
  <2>2. QED
    BY <1>1, <1>2, <1>3, <1>5, <2>1 DEF Total
<1>6. CASE ~(stage = "user" /\ user # {}) /\ core # {}
  <2>1. (CHOOSE i \in core : TRUE) \in 1 .. Len(CoreTable)
    BY <1>4, <1>6
  <2>2. QED
    BY <1>1, <1>2, <1>3, <1>6, <2>1 DEF Total
<1>7. QED
  BY <1>3, <1>5, <1>6

(* What is not complained of is not to blame.                              *)
LEMMA ComplaintFacts ==
  ASSUME BuilderTypes, NEW e
  PROVE  IsSequence(Complaints(e)) /\ (Complaints(e) = << >> => Unblamed(e))
<1>1. ASSUME NEW x PROVE IsSequence(<<x>>) /\ <<x>> # << >>
  <2>1. <<x>> \in Seq({x}) /\ <<x>> # << >>
    OBVIOUS
  <2>2. QED
    BY <2>1, SequenceOf
<1>2. CASE e.kind = "ref" /\ Resolve(e.target) = None
  BY <1>1, <1>2 DEF Complaints
<1>3. CASE ~(e.kind = "ref" /\ Resolve(e.target) = None) /\ IsInverted(e)
  BY <1>1, <1>3 DEF Complaints
<1>4. CASE ~(e.kind = "ref" /\ Resolve(e.target) = None) /\ ~IsInverted(e)
  <2>1. Complaints(e) = << >>
    BY <1>4 DEF Complaints
  <2>2. << >> \in Seq({})
    OBVIOUS
  <2>3. IsSequence(<< >>)
    BY <2>2, SequenceOf
  <2>4. Unblamed(e)
    BY <1>4, ResolveFacts DEF Unblamed
  <2>5. QED
    BY <2>1, <2>3, <2>4
<1>5. QED
  BY <1>2, <1>3, <1>4

(* Replacing an element of a sequence of anything.                         *)
LEMMA ExceptFacts ==
  ASSUME NEW s, IsSequence(s), NEW k \in 1 .. Len(s), NEW x, NEW t,
         DOMAIN t = DOMAIN s, t[k] = x, \A i \in DOMAIN s : i # k => t[i] = s[i],
         t = [i \in DOMAIN t |-> t[i]]
  PROVE  /\ IsSequence(t) /\ Len(t) = Len(s) /\ t[k] = x
         /\ \A i \in 1 .. Len(s) : i # k => t[i] = s[i]
<1> DEFINE S == {s[i] : i \in DOMAIN s} \cup {x}
<1>1. s \in Seq(S) /\ x \in S
  <2>1. s \in Seq({s[i] : i \in DOMAIN s}) /\ {s[i] : i \in DOMAIN s} \subseteq S
    BY DEF IsSequence
  <2> HIDE DEF S
  <2>2. QED
    BY <2>1, SeqMonotonic DEF S
<1> HIDE DEF S
<1>2. Len(s) \in Nat /\ DOMAIN t = 1 .. Len(s) /\ \A i \in 1 .. Len(s) : t[i] \in S
  BY <1>1
<1>3. t \in [1 .. Len(s) -> S]
  BY <1>2
<1>4. t \in Seq(S)
  BY <1>2, <1>3, SeqDef
<1>5. IsSequence(t) /\ Len(t) = Len(s)
  BY <1>2, <1>4, SequenceOf
<1>6. QED
  BY <1>1, <1>5

-----------------------------------------------------------------------------
(* What the steps of lowering do.                                          *)

(* What lowering a rule or a part reserves.                                *)
Reserved(e, f) ==
  /\ source' = source /\ stage' = stage /\ at' = at
  /\ order' = order /\ collected' = collected /\ rules' = rules
  /\ f \in Frames /\ f.id = Len(nodes) /\ f.element = e /\ f.parts = << >>
  /\ Len(nodes) \in Nat /\ IsSequence(nodes') /\ Len(nodes') = Len(nodes) + 1
  /\ nodes'[Len(nodes) + 1] = Placeholder
  /\ \A i \in 1 .. Len(nodes) : nodes'[i] = nodes[i]
  /\ frames \in Seq(Frames) /\ Len(frames) \in Nat
  /\ frames' \in Seq(Frames) /\ Len(frames') = Len(frames) + 1 /\ frames' # << >>
  /\ frames'[Len(frames) + 1] = f
  /\ \A i \in 1 .. Len(frames) : frames'[i] = frames[i]
  /\ IsSequence(errors') /\ (errors' = << >> => errors = << >> /\ Unblamed(e))

(* Reserving a node does just this.                                        *)
LEMMA ReserveSays ==
  ASSUME BuilderTypes, NEW e \in Bodies, Reserve(e)
  PROVE  \E f : Reserved(e, f)
<1>0. PICK f : f = [id |-> Len(nodes), element |-> e, parts |-> << >>]
  OBVIOUS
<1>1. /\ source' = source /\ stage' = stage /\ at' = at
      /\ order' = order /\ collected' = collected /\ rules' = rules
      /\ nodes' = Append(nodes, Placeholder) /\ frames' = Append(frames, f)
      /\ errors' = errors \o Complaints(e)
  BY <1>0 DEF Reserve, merging
<1>2. /\ Len(nodes) \in Nat /\ IsSequence(nodes')
      /\ Len(nodes') = Len(nodes) + 1 /\ nodes'[Len(nodes) + 1] = Placeholder
      /\ \A i \in 1 .. Len(nodes) : nodes'[i] = nodes[i]
  <2>1. IsSequence(nodes)
    BY DEF BuilderTypes
  <2>2. QED
    BY <1>1, <2>1, AppendFacts
<1>3. f \in Frames /\ f.id = Len(nodes) /\ f.element = e /\ f.parts = << >>
  BY <1>0, <1>2 DEF Frames
<1>4. /\ frames \in Seq(Frames) /\ Len(frames) \in Nat
      /\ frames' \in Seq(Frames) /\ Len(frames') = Len(frames) + 1 /\ frames' # << >>
      /\ frames'[Len(frames) + 1] = f
      /\ \A i \in 1 .. Len(frames) : frames'[i] = frames[i]
  <2>1. /\ frames \in Seq(Frames) /\ Len(frames) \in Nat
        /\ frames' \in Seq(Frames) /\ Len(frames') = Len(frames) + 1
        /\ frames'[Len(frames) + 1] = f
        /\ \A i \in 1 .. Len(frames) : frames'[i] = frames[i]
    BY <1>1, <1>3, PushStack DEF BuilderTypes
  <2>2. QED
    BY <2>1
<1>5. IsSequence(errors') /\ (errors' = << >> => errors = << >> /\ Unblamed(e))
  <2>1. IsSequence(errors) /\ IsSequence(Complaints(e)) /\ (Complaints(e) = << >> => Unblamed(e))
    BY ComplaintFacts DEF BuilderTypes
  <2>2. QED
    BY <1>1, <2>1, ConcatFacts
<1>6. QED
  BY <1>1, <1>2, <1>3, <1>4, <1>5 DEF Reserved

(* What placing the node of the `k`th activation `f` does.                 *)
Placing(k, f) ==
  /\ k = Len(frames) /\ k \in Nat /\ k > 0
  /\ f = frames[k] /\ f \in Frames /\ f.id \in Nat /\ f.parts \in Seq(Nat) /\ f.element \in Bodies
  /\ Len(f.parts) = Len(f.element.parts)
  /\ frames \in Seq(Frames) /\ \A i \in 1 .. k : frames[i] \in Frames
  /\ source' = source /\ stage' = stage /\ order' = order /\ collected' = collected
  /\ errors' = errors
  /\ Len(nodes) \in Nat /\ IsSequence(nodes') /\ Len(nodes') = Len(nodes)
  /\ nodes'[f.id + 1] = NodeFor(f)
  /\ \A i \in 1 .. Len(nodes) : i # f.id + 1 => nodes'[i] = nodes[i]
  /\ stage \in {"user", "core"} /\ at <= Len(Table)
  /\ k = 1 => /\ frames' = << >> /\ at' = at + 1
              /\ rules' = Append(rules, [name |-> Table[at].name, body |-> f.id])

(* What it does to the activation that waits for it.                       *)
Resumed(k, f, h) ==
  /\ rules' = rules /\ at' = at
  /\ k - 1 \in Nat /\ k - 1 \in 1 .. k
  /\ frames' \in Seq(Frames) /\ Len(frames') = k - 1 /\ frames' # << >>
  /\ frames'[k - 1] = h /\ h \in Frames
  /\ \A i \in 1 .. k - 2 : frames'[i] = frames[i]
  /\ h.id = frames[k - 1].id /\ h.element = frames[k - 1].element
  /\ h.parts = Append(frames[k - 1].parts, f.id)

(* Placing a node does just this, and resumes the activation below it.     *)
LEMMA PlaceSays ==
  ASSUME BuilderInv, Place
  PROVE  \E k, f : Placing(k, f) /\ (k # 1 => \E h : Resumed(k, f, h))
<1>1. PICK k : k = Len(frames)
  OBVIOUS
<1>2. PICK f : f = Top
  OBVIOUS
<1>3. /\ frames \in Seq(Frames) /\ k \in Nat /\ k > 0 /\ f = frames[k] /\ f \in Frames
      /\ \A i \in 1 .. k : frames[i] \in Frames
  <2>1. frames \in Seq(Frames) /\ frames # << >>
    BY DEF Place, BuilderInv, BuilderTypes
  <2>2. QED
    BY <1>1, <1>2, <2>1, PopStack, ElementOfSeq DEF Top, Last
<1>4. /\ GoodFrame(f) /\ Len(f.parts) = Len(f.element.parts)
      /\ f.id \in Nat /\ f.parts \in Seq(Nat) /\ f.element \in Bodies
  <2>1. GoodFrame(f)
    BY <1>1, <1>3 DEF BuilderInv, Activations
  <2>2. Len(f.parts) = Len(f.element.parts)
    BY <1>2 DEF Place
  <2>3. QED
    BY <1>3, <2>1, <2>2 DEF Frames
<1>5. /\ source' = source /\ stage' = stage /\ order' = order /\ collected' = collected
      /\ errors' = errors
      /\ nodes' = [nodes EXCEPT ![f.id + 1] = NodeFor(f)]
  BY <1>2 DEF Place, merging
<1>6. /\ Len(nodes) \in Nat /\ IsSequence(nodes') /\ Len(nodes') = Len(nodes)
      /\ nodes'[f.id + 1] = NodeFor(f)
      /\ \A i \in 1 .. Len(nodes) : i # f.id + 1 => nodes'[i] = nodes[i]
  <2>1. IsSequence(nodes)
    BY DEF BuilderInv, BuilderTypes
  <2>2. Len(nodes) \in Nat
    BY <2>1, AppendFacts
  <2>3. f.id + 1 \in 1 .. Len(nodes)
    BY <1>4, <2>2 DEF GoodFrame
  <2>4. PICK m \in 1 .. Len(nodes) : m = f.id + 1
    BY <2>3
  <2>5. PICK x : x = NodeFor(f)
    OBVIOUS
  <2>6. nodes' = [nodes EXCEPT ![m] = x]
    BY <1>5, <2>4, <2>5
  <2>7. /\ IsSequence(nodes') /\ Len(nodes') = Len(nodes) /\ nodes'[m] = x
        /\ \A i \in 1 .. Len(nodes) : i # m => nodes'[i] = nodes[i]
    <3>1. PICK t : t = nodes'
      OBVIOUS
    <3>2. /\ m \in DOMAIN nodes /\ DOMAIN t = DOMAIN nodes /\ t[m] = x
          /\ \A i \in DOMAIN nodes : i # m => t[i] = nodes[i]
          /\ t = [i \in DOMAIN t |-> t[i]]
      <4>1. DOMAIN nodes = 1 .. Len(nodes)
        BY <2>1, LenProperties DEF IsSequence
      <4>2. t = [i \in DOMAIN nodes |-> IF i = m THEN x ELSE nodes[i]]
        BY <2>6, <3>1
      <4>3. QED
        BY <2>4, <4>1, <4>2
    <3>3. /\ IsSequence(t) /\ Len(t) = Len(nodes) /\ t[m] = x
          /\ \A i \in 1 .. Len(nodes) : i # m => t[i] = nodes[i]
      BY <2>1, <2>4, <3>2, ExceptFacts
    <3>4. IsSequence(nodes')
      BY <3>1, <3>3 DEF IsSequence
    <3>5. QED
      BY <3>1, <3>3, <3>4
  <2>8. QED
    BY <2>2, <2>4, <2>5, <2>7
<1>7. stage \in {"user", "core"} /\ at <= Len(Table)
  BY DEF Place, BuilderInv, Progress
<1>8. ASSUME k = 1
      PROVE  /\ frames' = << >> /\ at' = at + 1
             /\ rules' = Append(rules, [name |-> Table[at].name, body |-> f.id])
  BY <1>1, <1>2, <1>8 DEF Place
<1>9. ASSUME k # 1 PROVE \E h : Resumed(k, f, h)
  <2>1. PICK g : g = frames[k - 1]
    OBVIOUS
  <2>2. PICK h : h = [g EXCEPT !.parts = Append(@, f.id)]
    OBVIOUS
  <2>3. PICK front : front = SubSeq(frames, 1, k - 1)
    OBVIOUS
  <2>4. k - 1 \in 1 .. k /\ k - 1 \in Nat /\ g \in Frames
    BY <1>1, <1>3, <1>9, <2>1
  <2>5. /\ g.id \in Nat /\ g.parts \in Seq(Nat) /\ g.element \in Bodies
        /\ DOMAIN g = {"id", "element", "parts"}
    BY <2>4 DEF Frames
  <2>6. h.id = g.id /\ h.element = g.element /\ h.parts = Append(g.parts, f.id) /\ h \in Frames
    <3>1. h.id = g.id /\ h.element = g.element /\ h.parts = Append(g.parts, f.id)
      BY <2>2, <2>5
    <3>2. Append(g.parts, f.id) \in Seq(Nat)
      BY <1>4, <2>5
    <3>3. h = [id |-> g.id, element |-> g.element, parts |-> Append(g.parts, f.id)]
      BY <2>2, <2>4 DEF Frames
    <3>4. QED
      BY <2>5, <3>1, <3>2, <3>3 DEF Frames
  <2>7. /\ front \in Seq(Frames) /\ Len(front) = k - 1 /\ front # << >>
        /\ \A i \in 1 .. k - 1 : front[i] = frames[i]
    <3>1. frames # << >>
      BY <1>1, <1>3
    <3>2. /\ front \in Seq(Frames) /\ Len(front) = k - 1
          /\ \A i \in 1 .. k - 1 : front[i] = frames[i]
      BY <1>1, <1>3, <2>3, <3>1, PopStack
    <3>3. QED
      BY <1>3, <1>9, <3>2
  <2>8. frames' = [front EXCEPT ![k - 1] = h] /\ rules' = rules /\ at' = at
    <3>1. /\ frames' = [Front(frames) EXCEPT ![k - 1].parts = Append(@, f.id)]
          /\ rules' = rules /\ at' = at
      BY <1>1, <1>2, <1>9 DEF Place
    <3>2. Front(frames) = front
      BY <1>1, <2>3 DEF Front
    <3>3. front[k - 1] = g
      BY <2>1, <2>4, <2>7, <1>3, <1>9
    <3>4. QED
      BY <2>2, <3>1, <3>2, <3>3
  <2>9. /\ frames' \in Seq(Frames) /\ Len(frames') = k - 1 /\ frames'[k - 1] = h
        /\ \A i \in 1 .. k - 2 : frames'[i] = frames[i]
    <3>1. /\ frames' \in Seq(Frames) /\ Len(frames') = k - 1 /\ frames'[k - 1] = h
          /\ \A i \in 1 .. (k - 1) - 1 : frames'[i] = front[i]
      BY <2>6, <2>7, <2>8, ReplaceStack
    <3>2. QED
      BY <1>3, <2>7, <3>1
  <2>10. frames' # << >>
    BY <1>3, <1>9, <2>9
  <2>11. Resumed(k, f, h)
    BY <2>1, <2>4, <2>6, <2>8, <2>9, <2>10 DEF Resumed
  <2>12. QED
    BY <2>11
<1>10. Placing(k, f)
  BY <1>1, <1>3, <1>4, <1>5, <1>6, <1>7, <1>8 DEF Placing
<1>11. QED
  BY <1>9, <1>10

-----------------------------------------------------------------------------
(* Every step keeps the invariant.                                         *)

(* The invariant holds at the start.                                       *)
LEMMA BuilderStart == Init => BuilderInv
<1> SUFFICES ASSUME Init PROVE BuilderInv
  OBVIOUS
<1>1. source \in Seq(Definitions)
  BY BuilderAssumption DEF Init
<1>2. IsSequence(<< >>)
  <2>1. << >> \in Seq({})
    OBVIOUS
  <2>2. QED
    BY <2>1, SequenceOf
<1>3. /\ stage = "merge" /\ at = 1 /\ order = << >> /\ collected = << >>
      /\ frames = << >> /\ nodes = << >> /\ rules = << >> /\ errors = << >>
  BY DEF Init
<1>4. BuilderTypes
  BY <1>1, <1>2, <1>3 DEF BuilderTypes
<1>5. Progress
  BY <1>3 DEF Progress
<1>6. Activations /\ OthersPlaced /\ Rooted
  BY <1>3 DEF Activations, OthersPlaced, Rooted, Ids
<1>7. QED
  BY <1>4, <1>5, <1>6 DEF BuilderInv

(* What `=/` makes of two bodies can be lowered.                           *)
LEMMA CombineFacts ==
  ASSUME NEW e \in Bodies, NEW more \in Bodies
  PROVE  Combine(e, more) \in Bodies
<1>1. ASSUME NEW b \in Bodies PROVE BranchesOf(b) \in Seq(Elements)
  <2>1. CASE b.kind = "alt"
    BY <2>1, BodyFacts DEF BranchesOf
  <2>2. CASE b.kind # "alt"
    <3>1. b \in Elements
      BY <2>2 DEF Bodies
    <3>2. QED
      BY <2>2, <3>1 DEF BranchesOf
  <2>3. QED
    BY <2>1, <2>2
<1>2. BranchesOf(e) \o BranchesOf(more) \in Seq(Elements)
  BY <1>1, ConcatProperties
<1>3. QED
  BY <1>2 DEF Combine, Bodies

(* Merging founds or extends one rule and lowers nothing.                  *)
LEMMA MergeKeepsInv ==
  ASSUME BuilderInv, Merge
  PROVE  BuilderInv'
<1>1. /\ stage = "merge" /\ at \in 1 .. Len(source)
      /\ at' = at + 1 /\ source' = source /\ stage' = stage
      /\ frames' = frames /\ nodes' = nodes /\ rules' = rules
  BY DEF BuilderInv, BuilderTypes, Merge, Found, Extend, Duplicate, Orphan, Defined, lowering
<1> DEFINE d == source[at]
<1>2. d \in Definitions /\ d.name \in DOMAIN KeyOf /\ d.body \in Bodies
  BY <1>1, BuilderAssumption DEF BuilderInv, BuilderTypes, Bodies
<1> HIDE DEF d
<1> DEFINE Entry == [name : DOMAIN KeyOf, body : Bodies]
<1>3. order' \in Seq(DOMAIN collected') /\ \A k \in DOMAIN collected' : collected'[k] \in Entry
  <2>1. CASE Found
    <3>1. /\ order' = Append(order, Key(d))
          /\ collected' = [x \in DOMAIN collected \cup {Key(d)} |->
                             IF x = Key(d) THEN [name |-> d.name, body |-> d.body] ELSE collected[x]]
      BY <2>1 DEF Found, d
    <3>2. order \in Seq(DOMAIN collected \cup {Key(d)})
      BY SeqMonotonic DEF BuilderInv, BuilderTypes
    <3>3. order' \in Seq(DOMAIN collected')
      BY <3>1, <3>2
    <3>4. [name |-> d.name, body |-> d.body] \in Entry
      BY <1>2
    <3>5. QED
      BY <3>1, <3>3, <3>4 DEF BuilderInv, BuilderTypes
  <2>2. CASE Extend
    <3>1. /\ order' = order /\ Key(d) \in DOMAIN collected
          /\ collected' = [collected EXCEPT ![Key(d)].body = Combine(@, d.body)]
      BY <2>2 DEF Extend, Defined, d
    <3>2. collected[Key(d)] \in Entry
      BY <3>1 DEF BuilderInv, BuilderTypes
    <3>3. Combine(collected[Key(d)].body, d.body) \in Bodies
      BY <1>2, <3>2, CombineFacts
    <3>4. [collected[Key(d)] EXCEPT !.body = Combine(@, d.body)] \in Entry
      BY <3>2, <3>3
    <3>5. DOMAIN collected' = DOMAIN collected /\ \A k \in DOMAIN collected' : collected'[k] \in Entry
      <4>1. DOMAIN collected' = DOMAIN collected
        BY <3>1
      <4>2. collected'[Key(d)] = [collected[Key(d)] EXCEPT !.body = Combine(@, d.body)]
        BY <3>1
      <4>3. \A k \in DOMAIN collected : k # Key(d) => collected'[k] = collected[k]
        BY <3>1
      <4>4. QED
        BY <3>4, <4>1, <4>2, <4>3 DEF BuilderInv, BuilderTypes
    <3>6. QED
      BY <3>1, <3>5 DEF BuilderInv, BuilderTypes
  <2>3. CASE Duplicate \/ Orphan
    BY <2>3 DEF Duplicate, Orphan, merging, BuilderInv, BuilderTypes
  <2>4. QED
    BY <2>1, <2>2, <2>3 DEF Merge
<1>4. IsSequence(errors')
  <2>1. \/ errors' = errors
        \/ errors' = Append(errors, [kind |-> "duplicate", span |-> source[at].span])
        \/ errors' = Append(errors, [kind |-> "orphan", span |-> source[at].span,
                                     shadows_core |-> Key(source[at]) \in CoreKeys])
    BY DEF Merge, Found, Extend, Duplicate, Orphan
  <2>2. IsSequence(errors)
    BY DEF BuilderInv, BuilderTypes
  <2>3. ASSUME NEW x PROVE IsSequence(Append(errors, x))
    BY <2>2, AppendFacts
  <2>4. QED
    BY <2>1, <2>2, <2>3
<1>5. BuilderTypes'
  BY <1>1, <1>3, <1>4 DEF BuilderInv, BuilderTypes, IsSequence, Bodies, Frames, RuleSet
<1>6. Progress'
  BY <1>1 DEF BuilderInv, Progress
<1>7. Activations' /\ OthersPlaced' /\ Rooted'
  BY <1>1 DEF BuilderInv, Progress, Activations, OthersPlaced, Rooted, Ids
<1>8. QED
  BY <1>5, <1>6, <1>7 DEF BuilderInv

(* A turn to the next stage begins it anew.                                *)
LEMMA TurnKeepsInv ==
  ASSUME BuilderInv, Turn
  PROVE  BuilderInv'
<1>1. /\ frames = << >> /\ at' = 1
      /\ source' = source /\ order' = order /\ collected' = collected
      /\ frames' = frames /\ nodes' = nodes /\ rules' = rules /\ errors' = errors
  BY DEF Turn, merging, lowering
<1>2. Len(order) \in Nat /\ Len(CoreTable) \in Nat /\ at \in Nat
  BY BuilderAssumption DEF BuilderInv, BuilderTypes
<1>3. \/ stage = "merge" /\ stage' = "user"
      \/ stage = "user" /\ at > Len(order) /\ stage' = "core"
      \/ stage = "core" /\ at > Len(CoreTable)
           /\ stage' = IF errors = << >> THEN "sound" ELSE "unsound"
  <2>1. stage = "user" => Len(Table) = Len(order)
    BY DEF Table, Merged, BuilderInv, BuilderTypes
  <2>2. stage = "core" => Len(Table) = Len(CoreTable)
    BY DEF Table
  <2>3. QED
    BY <2>1, <2>2 DEF Turn
<1>4. BuilderTypes'
  BY <1>1, <1>3 DEF BuilderInv, BuilderTypes, IsSequence, Bodies, Frames, RuleSet
<1>5. Progress'
  <2>1. CASE stage = "merge"
    BY <1>1, <1>2, <1>3, <2>1 DEF BuilderInv, Progress
  <2>2. CASE stage = "user"
    BY <1>1, <1>2, <1>3, <2>2 DEF BuilderInv, Progress
  <2>3. CASE stage = "core"
    BY <1>1, <1>2, <1>3, <2>3 DEF BuilderInv, Progress, Total
  <2>4. QED
    BY <1>3, <2>1, <2>2, <2>3
<1>6. Activations' /\ Rooted'
  BY <1>1 DEF BuilderInv, Activations, Rooted
<1>7. OthersPlaced'
  <2>1. Total' = Total
    BY <1>1 DEF Total
  <2>2. QED
    BY <1>1, <2>1 DEF BuilderInv, OthersPlaced, IsPlaced, After, Ids,
              Growing!NodeShape, Growing!Kinds, Growing!Scalars
<1>8. QED
  BY <1>4, <1>5, <1>6, <1>7 DEF BuilderInv

(* Reserving an id begins an activation and leaves the others as they were.*)
LEMMA ReserveKeepsInv ==
  ASSUME BuilderInv, NEW e \in Bodies, Reserve(e),
         stage \in {"user", "core"}, at <= Len(Table),
         frames # << >> => Len(Top.parts) < Len(Top.element.parts)
  PROVE  BuilderInv'
<1>0. PICK f : Reserved(e, f)
  BY ReserveSays DEF BuilderInv
<1>1. /\ source' = source /\ stage' = stage /\ at' = at
      /\ order' = order /\ collected' = collected /\ rules' = rules
  BY <1>0 DEF Reserved
<1>2. /\ Len(nodes) \in Nat /\ IsSequence(nodes')
      /\ Len(nodes') = Len(nodes) + 1
      /\ \A i \in 1 .. Len(nodes) : nodes'[i] = nodes[i]
  BY <1>0 DEF Reserved
<1>3. f \in Frames /\ f.id = Len(nodes) /\ f.element = e /\ f.parts = << >>
  BY <1>0 DEF Reserved
<1>4. /\ frames \in Seq(Frames) /\ Len(frames) \in Nat
      /\ frames' \in Seq(Frames) /\ Len(frames') = Len(frames) + 1
      /\ frames'[Len(frames) + 1] = f
      /\ \A i \in 1 .. Len(frames) : frames'[i] = frames[i]
  BY <1>0 DEF Reserved
<1>5. IsSequence(errors') /\ (errors' = << >> => errors = << >> /\ Unblamed(e))
  BY <1>0 DEF Reserved
<1>6. BuilderTypes'
  BY <1>1, <1>2, <1>4, <1>5 DEF BuilderInv, BuilderTypes, Bodies, Frames, RuleSet
<1>7. Progress'
  <2>1. Table' = Table /\ Total' = Total
    BY <1>1 DEF Table, Merged, Total
  <2>2. QED
    BY <1>1, <2>1 DEF BuilderInv, Progress
<1>8. Total' = Total /\ \A x : Unblamed(x) => Unblamed(x)'
  BY <1>1 DEF Total, Unblamed, IsInverted, Resolve, PositionsOf, Key
<1>9. ASSUME NEW parts \in Seq(Nat), NEW n, After(parts, n)
      PROVE  \A i \in DOMAIN parts : n < parts[i] /\ parts[i] < Len(nodes')
  BY <1>2, <1>9 DEF After
<1>10. Activations'
  <2>1. ASSUME NEW i \in 1 .. Len(frames) PROVE GoodFrame(frames[i])'
    <3>1. frames[i] \in Frames /\ GoodFrame(frames[i]) /\ frames'[i] = frames[i]
      BY <1>4 DEF BuilderInv, Activations
    <3>2. frames[i].parts \in Seq(Nat) /\ frames[i].id \in Nat
      BY <3>1 DEF Frames
    <3>3. After(frames[i].parts, frames[i].id)'
      BY <1>9, <3>1, <3>2 DEF GoodFrame, After
    <3>4. QED
      BY <1>2, <1>5, <1>8, <3>1, <3>2, <3>3 DEF GoodFrame
  <2>2. GoodFrame(f)'
    <3>1. Len(f.parts) <= Len(f.element.parts)
      BY <1>3, BodyFacts, EmptySeq
    <3>2. f.id < Len(nodes') /\ After(f.parts, f.id)'
      BY <1>2, <1>3 DEF After
    <3>3. errors' = << >> => Unblamed(f.element)'
      BY <1>3, <1>5, <1>8
    <3>4. QED
      BY <3>1, <3>2, <3>3 DEF GoodFrame
  <2>3. ASSUME NEW i \in 1 .. Len(frames) PROVE Waits(frames'[i], frames'[i + 1])
    <3>1. CASE i < Len(frames)
      <4>1. i \in 1 .. Len(frames) - 1 /\ i + 1 \in 1 .. Len(frames)
        BY <1>4, <3>1
      <4>2. QED
        BY <1>4, <4>1 DEF BuilderInv, Activations
    <3>2. CASE i = Len(frames)
      <4>1. frames # << >> /\ Top = frames[i]
        BY <1>4, <3>2 DEF Top, Last
      <4>2. Top.id < Len(nodes)
        BY <1>4, <4>1 DEF BuilderInv, Activations, GoodFrame
      <4>3. QED
        BY <1>3, <1>4, <3>2, <4>1, <4>2 DEF Waits
    <3>3. QED
      BY <1>4, <3>1, <3>2
  <2>4. ASSUME NEW i \in 1 .. Len(frames') PROVE GoodFrame(frames[i])'
    <3>1. CASE i \in 1 .. Len(frames)
      BY <2>1, <3>1
    <3>2. CASE i = Len(frames) + 1
      BY <1>4, <2>2, <3>2 DEF GoodFrame, After
    <3>3. QED
      BY <1>4, <3>1, <3>2
  <2>5. \A i \in 1 .. Len(frames') - 1 : Waits(frames'[i], frames'[i + 1])
    BY <1>4, <2>3
  <2>6. QED
    BY <2>4, <2>5 DEF Activations, Waits
<1>11. OthersPlaced'
  <2> SUFFICES ASSUME errors' = << >>, NEW n \in 0 .. Len(nodes') - 1
               PROVE  IsPlaced(n)' \/ \E i \in 1 .. Len(frames') : frames'[i].id = n
    BY DEF OthersPlaced, Ids
  <2>1. CASE n \in Ids
    <3>1. IsPlaced(n) \/ \E i \in 1 .. Len(frames) : frames[i].id = n
      BY <1>5, <2>1 DEF BuilderInv, OthersPlaced
    <3>2. ASSUME IsPlaced(n) PROVE IsPlaced(n)'
      <4>1. nodes'[n + 1] = nodes[n + 1]
        BY <1>2, <2>1 DEF Ids
      <4>2. nodes[n + 1].parts \in Seq(Nat)
        BY <3>2 DEF IsPlaced, Growing!NodeShape
      <4>3. After(nodes[n + 1].parts, n)'
        BY <1>9, <3>2, <4>1, <4>2 DEF IsPlaced, After
      <4>4. QED
        BY <1>8, <3>2, <4>1, <4>3 DEF IsPlaced, Growing!NodeShape, Growing!Kinds, Growing!Scalars
    <3>3. QED
      BY <1>4, <3>1, <3>2
  <2>2. CASE n \notin Ids
    <3>1. n = Len(nodes)
      BY <1>2, <2>2 DEF Ids
    <3>2. QED
      BY <1>3, <1>4, <3>1
  <2>3. QED
    BY <2>1, <2>2
<1>12. Rooted'
  <2>1. \A i \in 1 .. Len(rules) : rules[i] \in RuleSet
    BY DEF BuilderInv, BuilderTypes
  <2>2. \A i \in 1 .. Len(rules) : rules[i].body \in Nat
    BY <2>1, Zenon DEF RuleSet
  <2>3. \A i \in 1 .. Len(rules) : rules[i].body < Len(nodes)
    BY DEF BuilderInv, Rooted
  <2>4. QED
    BY <1>1, <1>2, <2>2, <2>3 DEF Rooted
<1>13. QED
  BY <1>6, <1>7, <1>10, <1>11, <1>12 DEF BuilderInv

(* What is placed is a node, and comes before its parts.                   *)
LEMMA NodeForFacts ==
  ASSUME BuilderTypes, NEW f \in Frames, Unblamed(f.element), After(f.parts, f.id),
         Len(f.parts) = Len(f.element.parts)
  PROVE  Growing!NodeShape(NodeFor(f)) /\ After(NodeFor(f).parts, f.id)
<1>1. PICK e : e = f.element
  OBVIOUS
<1>2. e \in Bodies /\ f.parts \in Seq(Nat)
  BY <1>1 DEF Frames
<1>3. ElementShape(e) /\ e.parts \in Seq(Elements)
  BY <1>2, BodyFacts
<1>4. FieldsOf(e.kind) \subseteq DOMAIN e /\ "kind" \in DOMAIN e /\ "parts" \in DOMAIN e
  BY <1>3 DEF ElementShape, FieldsOf
<1>5. CASE e.kind = "ref"
  <2>1. "target" \in DOMAIN e
    BY <1>4, <1>5 DEF FieldsOf
  <2>2. PICK d : d = NodeFor(f)
    OBVIOUS
  <2>3. d = [e EXCEPT !.target = Resolve(e.target)]
    BY <1>1, <1>5, <2>2 DEF NodeFor
  <2>4. d.kind = "ref" /\ d.target = Resolve(e.target) /\ d.parts = << >>
    BY <1>3, <1>4, <1>5, <2>1, <2>3 DEF ElementShape
  <2>5. Resolve(e.target) \in 0 .. Total - 1
    BY <1>1, <1>5 DEF Unblamed
  <2>6. Growing!NodeShape(d)
    BY <2>4, <2>5, EmptySeq DEF Growing!NodeShape, Growing!Kinds
  <2>7. After(d.parts, f.id)
    BY <2>4 DEF After
  <2>8. QED
    BY <2>2, <2>6, <2>7
<1>6. CASE e.kind # "ref"
  <2>1. PICK d : d = NodeFor(f)
    OBVIOUS
  <2>2. d = [e EXCEPT !.parts = f.parts]
    BY <1>1, <1>6, <2>1 DEF NodeFor
  <2>3. d.parts = f.parts /\ \A x \in DOMAIN e : x # "parts" => d[x] = e[x]
    BY <1>4, <2>2
  <2>4. d.kind = e.kind /\ d.kind # "ref"
    BY <1>4, <1>6, <2>3
  <2>5. Len(d.parts) = Len(e.parts) /\ d.parts \in Seq(Nat)
    BY <1>1, <1>2, <2>3
  <2>6. /\ d.kind \in {"repeat", "optional"} => Len(d.parts) = 1
        /\ d.kind \in {"char", "num", "prose"} => d.parts = << >>
    BY <1>3, <2>4, <2>5 DEF ElementShape
  <2>7. ASSUME d.kind = "repeat"
        PROVE  d.min \in Nat /\ d.max \in Nat \cup {None} /\ (d.max # None => d.min <= d.max)
    <3>1. d.min = e.min /\ d.max = e.max
      BY <1>4, <2>3, <2>4, <2>7 DEF FieldsOf
    <3>2. e.min \in Nat /\ e.max \in Nat \cup {None} /\ ~IsInverted(e)
      BY <1>1, <1>3, <2>4, <2>7 DEF ElementShape, Unblamed
    <3>3. QED
      BY <2>4, <2>7, <3>1, <3>2, BuilderAssumption DEF IsInverted
  <2>8. ASSUME d.kind = "char"
        PROVE  d.value \in Seq(Nat) /\ d.case_sensitive \in BOOLEAN
    <3>1. d.value = e.value /\ d.case_sensitive = e.case_sensitive
      BY <1>4, <2>3, <2>4, <2>8 DEF FieldsOf
    <3>2. QED
      BY <1>3, <2>4, <2>8, <3>1 DEF ElementShape
  <2>9. ASSUME d.kind = "num"
        PROVE  /\ d.value \in Seq([lo : Nat, hi : Nat]) /\ d.value # << >> /\ d.range \in BOOLEAN
               /\ d.range => Len(d.value) = 1
               /\ \A i \in DOMAIN d.value : d.value[i].lo <= d.value[i].hi
    <3>1. d.value = e.value /\ d.range = e.range
      BY <1>4, <2>3, <2>4, <2>9 DEF FieldsOf
    <3>2. /\ e.value \in Seq([lo : Nat, hi : Nat]) /\ e.value # << >> /\ e.range \in BOOLEAN
          /\ e.range => Len(e.value) = 1
          /\ ~e.range => \A i \in DOMAIN e.value : e.value[i].lo = e.value[i].hi
      BY <1>3, <2>4, <2>9 DEF ElementShape
    <3>3. ~(e.range /\ e.value[1].lo > e.value[1].hi)
      BY <1>1, <2>4, <2>9 DEF Unblamed, IsInverted
    <3>4. ASSUME NEW i \in DOMAIN e.value PROVE e.value[i].lo <= e.value[i].hi
      <4>1. DOMAIN e.value = 1 .. Len(e.value) /\ e.value[i] \in [lo : Nat, hi : Nat]
        BY <3>2, <3>4, LenProperties, ElementOfSeq
      <4>2. e.value[i].lo \in Nat /\ e.value[i].hi \in Nat
        BY <4>1
      <4>3. CASE e.range
        <5>1. i = 1
          BY <3>2, <3>4, <4>1, <4>3
        <5>2. QED
          BY <3>3, <4>2, <4>3, <5>1
      <4>4. CASE ~e.range
        BY <3>2, <3>4, <4>2, <4>4
      <4>5. QED
        BY <4>3, <4>4
    <3>5. QED
      BY <3>1, <3>2, <3>4
  <2>10. d.kind \in {"alt", "concat", "repeat", "optional", "ref", "char", "num", "prose"}
    BY <1>3, <2>4 DEF ElementShape
  <2>11. Growing!NodeShape(d)
    BY <2>4, <2>5, <2>6, <2>7, <2>8, <2>9, <2>10
       DEF Growing!NodeShape, Growing!Kinds, Growing!Scalars
  <2>12. After(d.parts, f.id)
    BY <2>3
  <2>13. QED
    BY <2>1, <2>11, <2>12
<1>7. QED
  BY <1>5, <1>6

(* Placing a node ends its activation: what waits for it goes on, or its   *)
(* rule is there.                                                          *)
LEMMA PlaceKeepsInv ==
  ASSUME BuilderInv, Place
  PROVE  BuilderInv'
<1>1. PICK k, f : Placing(k, f) /\ (k # 1 => \E h : Resumed(k, f, h))
  BY PlaceSays
<1>2. k = Len(frames)
  BY <1>1 DEF Placing
<1>3. /\ frames \in Seq(Frames) /\ k \in Nat /\ k > 0 /\ f = frames[k] /\ f \in Frames
      /\ \A i \in 1 .. k : frames[i] \in Frames
  BY <1>1 DEF Placing
<1>4. /\ GoodFrame(f) /\ Len(f.parts) = Len(f.element.parts)
      /\ f.id \in Nat /\ f.parts \in Seq(Nat) /\ f.element \in Bodies
  <2>1. GoodFrame(f)
    BY <1>2, <1>3 DEF BuilderInv, Activations
  <2>2. QED
    BY <1>1, <2>1 DEF Placing
<1>5. /\ source' = source /\ stage' = stage /\ order' = order /\ collected' = collected
      /\ errors' = errors
  BY <1>1 DEF Placing
<1>6. /\ Len(nodes) \in Nat /\ IsSequence(nodes') /\ Len(nodes') = Len(nodes)
      /\ nodes'[f.id + 1] = NodeFor(f)
      /\ \A i \in 1 .. Len(nodes) : i # f.id + 1 => nodes'[i] = nodes[i]
  BY <1>1 DEF Placing
<1>7. stage \in {"user", "core"} /\ at <= Len(Table)
  BY <1>1 DEF Placing
<1>8. Table' = Table /\ Total' = Total
  BY <1>5 DEF Table, Merged, Total
<1>9. \A x : Unblamed(x) => Unblamed(x)'
  BY <1>5, <1>8 DEF Unblamed, IsInverted, Resolve, PositionsOf, Key
<1>10. ASSUME NEW parts, NEW n, After(parts, n)
       PROVE  \A i \in DOMAIN parts : n < parts[i] /\ parts[i] < Len(nodes')
  BY <1>6, <1>10 DEF After
<1>11. ASSUME errors = << >>, NEW n \in Ids, NEW waiting, waiting = {frames[i].id : i \in 1 .. k - 1}
       PROVE  IsPlaced(n)' \/ n \in waiting
  <2>1. CASE n = f.id
    <3>1. Growing!NodeShape(NodeFor(f)) /\ After(NodeFor(f).parts, f.id)
      BY <1>3, <1>4, <1>11, NodeForFacts DEF BuilderInv, GoodFrame
    <3>2. Growing!NodeShape(nodes'[n + 1])
      BY <1>6, <2>1, <3>1
    <3>3. After(nodes[n + 1].parts, n)'
      BY <1>6, <1>10, <2>1, <3>1 DEF After
    <3>4. QED
      BY <1>8, <3>2, <3>3 DEF IsPlaced, Growing!NodeShape, Growing!Kinds, Growing!Scalars
  <2>2. CASE n # f.id
    <3>1. nodes'[n + 1] = nodes[n + 1]
      BY <1>4, <1>6, <2>2 DEF Ids
    <3>2. IsPlaced(n) \/ \E i \in 1 .. k : frames[i].id = n
      BY <1>2, <1>11 DEF BuilderInv, OthersPlaced
    <3>3. CASE IsPlaced(n)
      <4>1. After(nodes[n + 1].parts, n)'
        BY <1>10, <3>1, <3>3 DEF IsPlaced, After
      <4>2. QED
        BY <1>8, <3>1, <3>3, <4>1 DEF IsPlaced, Growing!NodeShape, Growing!Kinds, Growing!Scalars
    <3>4. CASE \E i \in 1 .. k : frames[i].id = n
      <4>1. \E i \in 1 .. k - 1 : frames[i].id = n
        BY <1>3, <2>2, <3>4
      <4>2. QED
        BY <1>11, <4>1
    <3>5. QED
      BY <3>2, <3>3, <3>4
  <2>3. QED
    BY <2>1, <2>2
<1>12. \A i \in 1 .. Len(rules) : rules[i].body < Len(nodes)
  BY DEF BuilderInv, Rooted
<1>13. CASE k = 1
  <2>1. PICK r : r = [name |-> Table[at].name, body |-> f.id]
    OBVIOUS
  <2>2. frames' = << >> /\ rules' = Append(rules, r) /\ at' = at + 1
    BY <1>1, <1>13, <2>1 DEF Placing
  <2>3. at \in Nat \ {0} /\ rules \in Seq(RuleSet) /\ Len(order) \in Nat /\ Len(CoreTable) \in Nat
    BY BuilderAssumption DEF BuilderInv, BuilderTypes
  <2>4. r \in RuleSet
    <3>1. Table[at] \in [name : DOMAIN KeyOf, body : Bodies]
      <4>1. Table \in Seq([name : DOMAIN KeyOf, body : Bodies])
        BY TableFacts DEF BuilderInv
      <4>2. Len(Table) \in Nat /\ at \in 1 .. Len(Table)
        BY <1>7, <2>3, <4>1
      <4>3. QED
        BY <4>1, <4>2, ElementOfSeq
    <3>2. QED
      BY <1>4, <2>1, <3>1 DEF RuleSet
  <2>5. /\ rules' \in Seq(RuleSet) /\ Len(rules') = Len(rules) + 1
        /\ rules'[Len(rules) + 1] = r
        /\ \A i \in 1 .. Len(rules) : rules'[i] = rules[i]
    BY <2>2, <2>3, <2>4, PushStack
  <2>6. BuilderTypes'
    <3>1. frames' \in Seq(Frames) /\ at' \in Nat \ {0}
      BY <2>2, <2>3
    <3>2. QED
      BY <1>5, <1>6, <2>5, <3>1 DEF BuilderInv, BuilderTypes, IsSequence, Bodies, Frames, RuleSet
  <2>7. Progress'
    <3>1. stage = "user" => Len(Table) = Len(order)
      BY DEF Table, Merged, BuilderInv, BuilderTypes
    <3>2. stage = "core" => Len(Table) = Len(CoreTable)
      BY DEF Table
    <3>3. CASE stage = "user"
      BY <1>5, <1>7, <2>2, <2>3, <2>5, <3>1, <3>3 DEF BuilderInv, Progress
    <3>4. CASE stage = "core"
      BY <1>5, <1>7, <2>2, <2>3, <2>5, <3>2, <3>4 DEF BuilderInv, Progress
    <3>5. QED
      BY <1>7, <3>3, <3>4
  <2>8. Activations'
    BY <2>2 DEF Activations
  <2>9. OthersPlaced'
    <3>1. Ids' = Ids
      BY <1>6 DEF Ids
    <3>2. ASSUME errors = << >>, NEW n \in Ids PROVE IsPlaced(n)'
      <4>1. {frames[i].id : i \in 1 .. k - 1} = {}
        BY <1>13
      <4>2. QED
        BY <1>11, <3>2, <4>1
    <3>3. QED
      BY <1>5, <3>1, <3>2 DEF OthersPlaced
  <2>10. Rooted'
    <3>1. ASSUME NEW i \in 1 .. Len(rules') PROVE rules'[i].body < Len(nodes')
      <4>1. CASE i = Len(rules) + 1
        BY <1>4, <1>6, <2>1, <2>5, <4>1 DEF GoodFrame
      <4>2. CASE i \in 1 .. Len(rules)
        BY <1>6, <1>12, <2>5, <4>2
      <4>3. QED
        BY <2>3, <2>5, <4>1, <4>2
    <3>2. QED
      BY <3>1 DEF Rooted
  <2>11. QED
    BY <2>6, <2>7, <2>8, <2>9, <2>10 DEF BuilderInv
<1>14. CASE k # 1
  <2>1. PICK g : g = frames[k - 1]
    OBVIOUS
  <2>2. PICK h : Resumed(k, f, h)
    BY <1>1, <1>14
  <2>3. k - 1 \in 1 .. k /\ k - 1 \in Nat /\ g \in Frames /\ GoodFrame(g) /\ Waits(g, f)
    BY <1>2, <1>3, <1>14, <2>1 DEF BuilderInv, Activations
  <2>4. /\ g.id \in Nat /\ g.parts \in Seq(Nat) /\ g.element \in Bodies
        /\ Len(g.parts) \in Nat
    BY <2>3 DEF Frames
  <2>5. h.id = g.id /\ h.element = g.element /\ h.parts = Append(g.parts, f.id) /\ h \in Frames
    BY <2>1, <2>2 DEF Resumed
  <2>6. rules' = rules /\ at' = at
    BY <2>2 DEF Resumed
  <2>7. /\ frames' \in Seq(Frames) /\ Len(frames') = k - 1 /\ frames'[k - 1] = h
        /\ \A i \in 1 .. k - 2 : frames'[i] = frames[i]
    BY <2>2 DEF Resumed
  <2>8. BuilderTypes'
    BY <1>5, <1>6, <2>6, <2>7 DEF BuilderInv, BuilderTypes, IsSequence, Bodies, Frames, RuleSet
  <2>9. Progress'
    BY <1>5, <1>7, <1>8, <2>6 DEF BuilderInv, Progress
  <2>10. GoodFrame(h)'
    <3>1. g.id < f.id /\ f.id < Len(nodes) /\ g.id < Len(nodes) /\ After(g.parts, g.id)
      BY <1>4, <2>3 DEF GoodFrame, Waits
    <3>2. h.id < Len(nodes')
      BY <1>6, <2>5, <3>1
    <3>3. After(h.parts, h.id)'
      <4>1. ASSUME NEW i \in DOMAIN h.parts PROVE g.id < h.parts[i] /\ h.parts[i] < Len(nodes)
        <5>1. i \in 1 .. Len(g.parts) + 1 /\ h.parts[Len(g.parts) + 1] = f.id
          BY <1>4, <2>4, <2>5, <4>1
        <5>2. CASE i = Len(g.parts) + 1
          BY <3>1, <5>1, <5>2
        <5>3. CASE i # Len(g.parts) + 1
          <6>1. i \in DOMAIN g.parts /\ h.parts[i] = g.parts[i]
            BY <1>4, <2>4, <2>5, <5>1, <5>3
          <6>2. QED
            BY <3>1, <6>1 DEF After
        <5>4. QED
          BY <5>2, <5>3
      <4>2. QED
        BY <1>6, <2>5, <4>1 DEF After
    <3>4. Len(h.parts) <= Len(h.element.parts)
      <4>1. Len(h.parts) = Len(g.parts) + 1 /\ Len(g.parts) < Len(g.element.parts)
        BY <1>4, <2>3, <2>4, <2>5 DEF Waits
      <4>2. Len(g.element.parts) \in Nat
        BY <2>4, BodyFacts
      <4>3. QED
        BY <2>4, <2>5, <4>1, <4>2
    <3>5. errors' = << >> => Unblamed(h.element)'
      BY <1>5, <1>9, <2>3, <2>5 DEF GoodFrame
    <3>6. QED
      BY <3>2, <3>3, <3>4, <3>5 DEF GoodFrame
  <2>11. Activations'
    <3>1. ASSUME NEW i \in 1 .. k - 2 PROVE GoodFrame(frames[i])'
      <4>1. i \in 1 .. Len(frames) /\ GoodFrame(frames[i]) /\ frames'[i] = frames[i]
        BY <1>2, <1>3, <2>7 DEF BuilderInv, Activations
      <4>2. After(frames[i].parts, frames[i].id)'
        BY <1>10, <4>1 DEF GoodFrame, After
      <4>3. QED
        BY <1>5, <1>6, <1>9, <4>1, <4>2 DEF GoodFrame
    <3>2. ASSUME NEW i \in 1 .. Len(frames') PROVE GoodFrame(frames[i])'
      <4>1. CASE i = k - 1
        BY <2>7, <2>10, <4>1 DEF GoodFrame, After
      <4>2. CASE i \in 1 .. k - 2
        BY <3>1, <4>2
      <4>3. QED
        BY <1>3, <2>7, <4>1, <4>2
    <3>3. ASSUME NEW i \in 1 .. Len(frames') - 1 PROVE Waits(frames'[i], frames'[i + 1])
      <4>1. i \in 1 .. k - 2 /\ frames'[i] = frames[i] /\ Waits(frames[i], frames[i + 1])
        BY <1>2, <1>3, <2>7 DEF BuilderInv, Activations
      <4>2. CASE i + 1 = k - 1
        BY <2>1, <2>5, <2>7, <4>1, <4>2 DEF Waits
      <4>3. CASE i + 1 # k - 1
        <5>1. i + 1 \in 1 .. k - 2
          BY <1>3, <4>1, <4>3
        <5>2. QED
          BY <2>7, <4>1, <5>1
      <4>4. QED
        BY <4>2, <4>3
    <3>4. QED
      BY <3>2, <3>3 DEF Activations, Waits
  <2>12. OthersPlaced'
    <3>1. ASSUME errors = << >>, NEW n \in Ids
          PROVE  IsPlaced(n)' \/ \E i \in 1 .. k - 1 : frames'[i].id = n
      <4>1. IsPlaced(n)' \/ n \in {frames[i].id : i \in 1 .. k - 1}
        BY <1>11, <3>1
      <4>2. ASSUME NEW i \in 1 .. k - 1 PROVE frames'[i].id = frames[i].id
        <5>1. CASE i = k - 1
          BY <2>1, <2>5, <2>7, <5>1
        <5>2. CASE i \in 1 .. k - 2
          BY <2>7, <5>2
        <5>3. QED
          BY <1>3, <5>1, <5>2
      <4>3. QED
        BY <4>1, <4>2
    <3>2. Ids' = Ids
      BY <1>6 DEF Ids
    <3>3. QED
      BY <1>5, <2>7, <3>1, <3>2 DEF OthersPlaced
  <2>13. Rooted'
    BY <1>6, <1>12, <2>6 DEF Rooted
  <2>14. QED
    BY <2>8, <2>9, <2>11, <2>12, <2>13 DEF BuilderInv
<1>15. QED
  BY <1>13, <1>14

(* So does every other step.                                               *)
LEMMA BuilderStep ==
  ASSUME BuilderInv, [Next]_vars
  PROVE  BuilderInv'
<1>1. CASE Merge
  BY <1>1, MergeKeepsInv
<1>2. CASE BeginRule
  <2>1. stage \in {"user", "core"} /\ frames = << >> /\ at <= Len(Table) /\ Reserve(Table[at].body)
    BY <1>2 DEF BeginRule
  <2>2. Table \in Seq([name : DOMAIN KeyOf, body : Bodies]) /\ at \in Nat \ {0}
    BY TableFacts DEF BuilderInv, BuilderTypes
  <2>3. at \in 1 .. Len(Table)
    BY <2>1, <2>2
  <2>4. Table[at] \in [name : DOMAIN KeyOf, body : Bodies]
    BY <2>2, <2>3, ElementOfSeq
  <2>5. Table[at].body \in Bodies
    BY <2>4
  <2>6. QED
    BY <2>1, <2>5, ReserveKeepsInv
<1>3. CASE LowerPart
  <2>1. /\ frames # << >> /\ Len(Top.parts) < Len(Top.element.parts)
        /\ Reserve(Top.element.parts[Len(Top.parts) + 1])
    BY <1>3 DEF LowerPart
  <2>2. stage \in {"user", "core"} /\ at <= Len(Table)
    BY <2>1 DEF BuilderInv, Progress
  <2>3. Top \in Frames
    BY <2>1, PopStack DEF BuilderInv, BuilderTypes, Top, Last
  <2>4. Top.element \in Bodies /\ Len(Top.parts) \in Nat
    BY <2>3 DEF Frames
  <2>5. Len(Top.parts) + 1 \in 1 .. Len(Top.element.parts)
    BY <2>1, <2>4, BodyFacts
  <2>6. Top.element.parts[Len(Top.parts) + 1] \in Bodies
    BY <2>4, <2>5, BodyFacts
  <2>7. QED
    BY <2>1, <2>2, <2>6, ReserveKeepsInv
<1>4. CASE Place
  BY <1>4, PlaceKeepsInv
<1>5. CASE Turn
  BY <1>5, TurnKeepsInv
<1>6. CASE UNCHANGED vars
  <2>1. /\ source' = source /\ stage' = stage /\ at' = at
        /\ order' = order /\ collected' = collected
        /\ frames' = frames /\ nodes' = nodes /\ rules' = rules /\ errors' = errors
    BY <1>6 DEF vars, merging, lowering
  <2>2. Total' = Total /\ Table' = Table /\ Ids' = Ids
    BY <2>1 DEF Total, Table, Merged, Ids
  <2>3. BuilderTypes'
    BY <2>1 DEF BuilderInv, BuilderTypes, IsSequence, Bodies, Frames, RuleSet
  <2>4. Progress'
    BY <2>1, <2>2 DEF BuilderInv, Progress
  <2>5. Activations'
    <3>1. \A x : Unblamed(x) => Unblamed(x)'
      BY <2>1, <2>2 DEF Unblamed, IsInverted, Resolve, PositionsOf, Key
    <3>2. ASSUME NEW i \in 1 .. Len(frames') PROVE GoodFrame(frames[i])'
      <4>1. GoodFrame(frames[i])
        BY <2>1, <3>2 DEF BuilderInv, Activations
      <4>2. After(frames[i].parts, frames[i].id)'
        BY <2>1, <4>1 DEF GoodFrame, After
      <4>3. QED
        BY <2>1, <3>1, <4>1, <4>2 DEF GoodFrame
    <3>3. QED
      BY <2>1, <3>2 DEF BuilderInv, Activations, Waits
  <2>6. OthersPlaced'
    BY <2>1, <2>2 DEF BuilderInv, OthersPlaced, IsPlaced, After, Growing!NodeShape,
                      Growing!Kinds, Growing!Scalars
  <2>7. Rooted'
    BY <2>1 DEF BuilderInv, Rooted
  <2>8. QED
    BY <2>3, <2>4, <2>5, <2>6, <2>7 DEF BuilderInv
<1>7. QED
  BY <1>1, <1>2, <1>3, <1>4, <1>5, <1>6 DEF Next, LowerRules

-----------------------------------------------------------------------------
(* When there is nothing to report no activation is left, and so every node*)
(* is what it was to be.                                                   *)
LEMMA InvGivesSoundArena == BuilderInv => SoundArena
<1> SUFFICES ASSUME BuilderInv, stage = "sound"
             PROVE  /\ Lowered!WellFormed
                    /\ \A n \in Ids : \A i \in DOMAIN nodes[n + 1].parts :
                         n < nodes[n + 1].parts[i]
  BY DEF SoundArena
<1>1. errors = << >> /\ frames = << >> /\ Len(rules) = Total
  BY DEF BuilderInv, Progress
<1>2. \A n \in Ids : IsPlaced(n)
  BY <1>1 DEF BuilderInv, OthersPlaced
<1>3. /\ DOMAIN Arena.nodes = Ids /\ \A n \in Ids : Arena.nodes[n] = nodes[n + 1]
      /\ DOMAIN Arena.body = 0 .. Total - 1
      /\ \A r \in 0 .. Total - 1 : Arena.body[r] = rules[r + 1].body
  BY <1>1 DEF Arena
<1>4. Len(nodes) \in Nat /\ Ids \subseteq Nat
  <2>1. IsSequence(nodes)
    BY DEF BuilderInv, BuilderTypes
  <2>2. QED
    BY <2>1, AppendFacts DEF Ids
<1>5. ASSUME NEW n \in Ids PROVE Lowered!NodeShape(Arena.nodes[n])
  <2>1. PICK d : d = nodes[n + 1]
    OBVIOUS
  <2>2. Growing!NodeShape(d) /\ After(d.parts, n)
    BY <1>2, <2>1 DEF IsPlaced
  <2>3. d.parts \in Seq(Ids)
    <3>1. d.parts \in Seq(Nat)
      BY <2>2 DEF Growing!NodeShape
    <3>2. Len(d.parts) \in Nat /\ d.parts \in [1 .. Len(d.parts) -> Nat]
      BY <3>1, LenProperties
    <3>3. \A i \in 1 .. Len(d.parts) : d.parts[i] \in Ids
      BY <1>4, <2>2, <3>2 DEF After, Ids
    <3>4. d.parts \in [1 .. Len(d.parts) -> Ids]
      BY <3>2, <3>3
    <3>5. QED
      BY <3>2, <3>4, SeqDef
  <2>4. Lowered!NodeShape(d)
    BY <1>3, <2>2, <2>3 DEF Growing!NodeShape, Growing!Kinds, Growing!Scalars,
                            Lowered!NodeShape, Lowered!Kinds, Lowered!Scalars
  <2>5. QED
    BY <1>3, <2>1, <2>4
<1>6. Arena.body \in [DOMAIN Arena.body -> Ids]
  <2>1. Len(rules) \in Nat /\ \A i \in 1 .. Len(rules) : rules[i] \in RuleSet
    BY DEF BuilderInv, BuilderTypes
  <2>2. \A i \in 1 .. Len(rules) : rules[i].body \in Nat /\ rules[i].body < Len(nodes)
    <3>1. \A i \in 1 .. Len(rules) : rules[i].body \in Nat
      BY <2>1, Zenon DEF RuleSet
    <3>2. QED
      BY <3>1 DEF BuilderInv, Rooted
  <2>3. ASSUME NEW r \in DOMAIN Arena.body PROVE Arena.body[r] \in Ids
    <3>1. r \in 0 .. Total - 1 /\ r + 1 \in 1 .. Len(rules)
      BY <1>1, <1>3, <2>1
    <3>2. QED
      BY <1>3, <1>4, <2>2, <3>1 DEF Ids
  <2>4. Arena.body = [r \in DOMAIN Arena.body |-> Arena.body[r]]
    BY DEF Arena
  <2>5. QED
    BY <2>3, <2>4
<1>7. Lowered!WellFormed
  BY <1>3, <1>4, <1>5, <1>6, BuilderAssumption DEF Lowered!WellFormed
<1>8. ASSUME NEW n \in Ids, NEW i \in DOMAIN nodes[n + 1].parts PROVE n < nodes[n + 1].parts[i]
  BY <1>2, <1>8 DEF IsPlaced, After
<1>9. QED
  BY <1>7, <1>8

(* Of every grammar: if `check` reports nothing, the arena it built has    *)
(* nodes where there are to be nodes and rules where there are to be rules,*)
(* no inverted range, and every node before its parts.  That is all the    *)
(* recognizer, the generator and the analyses assume of an arena.          *)
THEOREM BuildsSoundArena == Spec => []SoundArena
<1>1. Init => BuilderInv
  BY BuilderStart
<1>2. BuilderInv /\ [Next]_vars => BuilderInv'
  BY BuilderStep
<1>3. BuilderInv => SoundArena
  BY InvGivesSoundArena
<1>4. QED
  BY <1>1, <1>2, <1>3, PTL DEF Spec

-----------------------------------------------------------------------------
(* What merging has done with the definitions it has met.                  *)

(* How many definitions are met, and which of some.                        *)
Past == IF stage = "merge" THEN at - 1 ELSE Len(source)
Met(S) == {i \in S : i <= Past}

(* The body `b` is made of the definitions `ds`, in their order.           *)
MadeOf(b, ds) ==
  /\ ds # << >>
  /\ Len(ds) = 1 => b = source[ds[1]].body
  /\ Len(ds) > 1 => b.kind = "alt"
  /\ BranchesOf(b) = FlattenSeq([i \in DOMAIN ds |-> BranchesOf(source[ds[i]].body)])

(* The rule `r` is what the founder `f` and the definitions that extend it *)
(* say.                                                                    *)
Says(r, f) ==
  /\ order[r] = Key(source[f]) /\ collected[order[r]].name = source[f].name
  /\ \E ds : IsList(ds, Met(DefinitionsOf(f))) /\ MadeOf(collected[order[r]].body, ds)

(* A key is known when a base for it was met; the rules are those founded, *)
(* in the order of their founders.                                         *)
MergedInv ==
  /\ stage = "merge" => at <= Len(source) + 1
  /\ DOMAIN collected = {Key(source[i]) : i \in {i \in 1 .. Past : IsBase(i)}}
  /\ \E fs : /\ IsList(fs, Met(Founders)) /\ Len(fs) = Len(order)
             /\ \A r \in 1 .. Len(order) : Says(r, fs[r])

(* The ways a definition is merged.                                        *)
LEMMA MergeCases ==
  ASSUME BuilderInv, Merge
  PROVE  /\ stage = "merge" /\ at \in 1 .. Len(source) /\ at \in Nat /\ Len(source) \in Nat
         /\ DOMAIN source = 1 .. Len(source)
         /\ at' = at + 1 /\ source' = source /\ stage' = stage
         /\ frames' = frames /\ nodes' = nodes /\ rules' = rules
         /\ \/ /\ IsBase(at) /\ Key(source[at]) \notin DOMAIN collected
               /\ order' = Append(order, Key(source[at])) /\ errors' = errors
               /\ collected' = [x \in DOMAIN collected \cup {Key(source[at])} |->
                                  IF x = Key(source[at])
                                  THEN [name |-> source[at].name, body |-> source[at].body]
                                  ELSE collected[x]]
            \/ /\ ~IsBase(at) /\ Key(source[at]) \in DOMAIN collected
               /\ order' = order /\ errors' = errors
               /\ collected' = [collected EXCEPT ![Key(source[at])].body = Combine(@, source[at].body)]
            \/ /\ IsBase(at) <=> Key(source[at]) \in DOMAIN collected
               /\ order' = order /\ collected' = collected
<1>1. source \in Seq(Definitions) /\ at \in Nat \ {0}
  BY DEF BuilderInv, BuilderTypes
<1>2. /\ stage = "merge" /\ at <= Len(source)
      /\ at' = at + 1 /\ source' = source /\ stage' = stage
      /\ frames' = frames /\ nodes' = nodes /\ rules' = rules
  BY DEF Merge, Found, Extend, Duplicate, Orphan, Defined, lowering
<1>3. Len(source) \in Nat /\ DOMAIN source = 1 .. Len(source) /\ at \in 1 .. Len(source)
  BY <1>1, <1>2
<1>4. CASE Found
  BY <1>1, <1>2, <1>3, <1>4 DEF Found, Defined, IsBase
<1>5. CASE Extend
  BY <1>1, <1>2, <1>3, <1>5 DEF Extend, Defined, IsBase
<1>6. CASE Duplicate \/ Orphan
  BY <1>1, <1>2, <1>3, <1>6 DEF Duplicate, Orphan, Defined, IsBase, merging
<1>7. QED
  BY <1>4, <1>5, <1>6 DEF Merge

(* A definition has a place if its key is known just when it extends.      *)
LEMMA PlaceFacts ==
  ASSUME MergedInv, stage = "merge", at \in Nat, at >= 1
  PROVE  /\ (\E j \in 1 .. at - 1 : IsBase(j) /\ Alike(at, j)) <=> Key(source[at]) \in DOMAIN collected
         /\ Misplaced(at) <=> (IsBase(at) <=> Key(source[at]) \in DOMAIN collected)
<1>1. DOMAIN collected = {Key(source[i]) : i \in {i \in 1 .. at - 1 : IsBase(i)}}
  BY DEF MergedInv, Past
<1>2. (\E j \in 1 .. at - 1 : IsBase(j) /\ Alike(at, j)) <=> Key(source[at]) \in DOMAIN collected
  BY <1>1 DEF Alike, Key
<1>3. QED
  BY <1>2 DEF Misplaced

(* The next definition adds itself to the sets it is in.                   *)
LEMMA MetGrows ==
  ASSUME BuilderInv, Merge, NEW S \in SUBSET Nat
  PROVE  {i \in S : i <= Past'} = Met(S) \cup (S \cap {at}) /\ \A i \in Met(S) : i < at
<1>1. stage = "merge" /\ at \in Nat /\ at' = at + 1 /\ stage' = stage
  BY MergeCases
<1>2. Past = at - 1 /\ Past' = at
  BY <1>1 DEF Past
<1>3. \A i \in Nat : (i <= at <=> i <= at - 1 \/ i = at) /\ (i <= at - 1 => i < at)
  BY <1>1
<1>4. QED
  BY <1>2, <1>3 DEF Met

(* What a definition is does not change.                                   *)
LEMMA SourceStays ==
  ASSUME source' = source
  PROVE  /\ Founders' = Founders
         /\ \A f : DefinitionsOf(f)' = DefinitionsOf(f)
         /\ \A i : IsBase(i)' = IsBase(i) /\ Key(source[i])' = Key(source[i])
         /\ \A b, ds : MadeOf(b, ds) => MadeOf(b, ds)'
<1>1. \A i : IsBase(i)' = IsBase(i) /\ Misplaced(i)' = Misplaced(i) /\ Key(source[i])' = Key(source[i])
  BY DEF IsBase, Misplaced, Alike, Key
<1>2. Founders' = Founders /\ \A f : DefinitionsOf(f)' = DefinitionsOf(f)
  BY <1>1 DEF Founders, DefinitionsOf, Alike
<1>3. \A b, ds : MadeOf(b, ds) => MadeOf(b, ds)'
  BY DEF MadeOf, BranchesOf
<1>4. QED
  BY <1>1, <1>2, <1>3

(* All of these are numbers of definitions.                                *)
LEMMA PlacesAreNumbers ==
  ASSUME BuilderTypes
  PROVE  /\ Founders \in SUBSET Nat /\ Founders \subseteq 1 .. Len(source)
         /\ \A f : DefinitionsOf(f) \in SUBSET Nat /\ DefinitionsOf(f) \subseteq 1 .. Len(source)
<1>1. DOMAIN source = 1 .. Len(source) /\ Len(source) \in Nat
  BY DEF BuilderTypes
<1>2. QED
  BY <1>1 DEF Founders, DefinitionsOf

(* What `=/` makes of what is made of definitions is made of them and its  *)
(* own.                                                                    *)
LEMMA MadeOfMore ==
  ASSUME BuilderTypes, NEW b \in Bodies, NEW S \in SUBSET (1 .. Len(source)), NEW ds, IsList(ds, S),
         MadeOf(b, ds), NEW m \in 1 .. Len(source), \A i \in S : i < m
  PROVE  IsList(Append(ds, m), S \cup {m}) /\ MadeOf(Combine(b, source[m].body), Append(ds, m))
<1>1. Len(source) \in Nat /\ m \in Nat /\ S \in SUBSET Nat
  BY DEF BuilderTypes
<1>2. /\ IsList(Append(ds, m), S \cup {m}) /\ Len(Append(ds, m)) = Len(ds) + 1
      /\ Append(ds, m)[Len(ds) + 1] = m /\ \A i \in 1 .. Len(ds) : Append(ds, m)[i] = ds[i]
  BY <1>1, ListAppend
<1>3. PICK es : es = Append(ds, m)
  OBVIOUS
<1> DEFINE of(i) == BranchesOf(source[i].body)
           s == [i \in DOMAIN ds |-> of(ds[i])]
           t == [i \in DOMAIN es |-> of(es[i])]
<1>4. ASSUME NEW i \in 1 .. Len(source) PROVE of(i) \in Seq(Elements)
  <2>1. source[i] \in Definitions
    BY <1>4 DEF BuilderTypes
  <2>2. source[i].body \in Elements
    BY <2>1, BuilderAssumption
  <2>3. source[i].body.parts \in Seq(Elements)
    BY <2>2, BuilderAssumption DEF ElementShape
  <2>4. QED
    BY <2>2, <2>3 DEF BranchesOf
<1>5. /\ ds \in Seq(S) /\ Len(ds) \in Nat /\ DOMAIN ds = 1 .. Len(ds) /\ Len(ds) > 0
      /\ \A i \in 1 .. Len(ds) : ds[i] \in S
  <2>1. /\ ds \in Seq(S) /\ Len(ds) \in Nat /\ DOMAIN ds = 1 .. Len(ds)
        /\ \A i \in 1 .. Len(ds) : ds[i] \in S
    BY <1>1, ListFacts
  <2>2. ds # << >>
    BY DEF MadeOf
  <2>3. QED
    BY <2>1, <2>2
<1>6. DOMAIN es = 1 .. Len(ds) + 1 /\ Len(es) = Len(ds) + 1
  <2>1. es \in Seq(S \cup {m})
    BY <1>2, <1>3 DEF IsList
  <2>2. QED
    BY <1>2, <1>3, <1>5, <2>1
<1>7. s \in Seq(Seq(Elements)) /\ Len(s) = Len(ds)
  <2>1. \A i \in 1 .. Len(ds) : of(ds[i]) \in Seq(Elements)
    BY <1>4, <1>5
  <2>2. s \in [1 .. Len(ds) -> Seq(Elements)]
    <3> HIDE DEF of
    <3> QED BY <1>5, <2>1
  <2> HIDE DEF s
  <2>3. s \in Seq(Seq(Elements))
    BY <1>5, <2>2, SeqDef
  <2>4. QED
    BY <1>5, <2>2, <2>3
<1>8. t = Append(s, of(m))
  <2>1. of(m) \in Seq(Elements)
    BY <1>4
  <2> HIDE DEF of
  <2>2. \A i \in 1 .. Len(ds) : t[i] = s[i]
    BY <1>2, <1>3, <1>5, <1>6
  <2>3. t[Len(ds) + 1] = of(m)
    <3>1. Len(ds) + 1 \in DOMAIN es
      BY <1>5, <1>6
    <3>2. QED
      BY <1>2, <1>3, <3>1
  <2>4. PICK w : w = of(m)
    OBVIOUS
  <2>5. /\ Append(s, w) \in Seq(Seq(Elements)) /\ Len(Append(s, w)) = Len(s) + 1
        /\ Append(s, w)[Len(s) + 1] = w
        /\ \A i \in 1 .. Len(s) : Append(s, w)[i] = s[i]
    <3> HIDE DEF s
    <3> QED BY <1>7, <2>1, <2>4, PushStack
  <2>6. DOMAIN t = 1 .. Len(ds) + 1 /\ t = [i \in 1 .. Len(ds) + 1 |-> t[i]]
    BY <1>6
  <2>7. \A i \in 1 .. Len(ds) + 1 : t[i] = Append(s, w)[i]
    <3> HIDE DEF s, t
    <3>1. \A i \in 1 .. Len(ds) + 1 : i \in 1 .. Len(ds) \/ i = Len(ds) + 1
      BY <1>5
    <3>2. QED
      BY <1>7, <2>2, <2>3, <2>4, <2>5, <3>1
  <2>8. Append(s, w) = [i \in 1 .. Len(ds) + 1 |-> Append(s, w)[i]]
    <3> HIDE DEF s, t
    <3>1. PICK a : a = Append(s, w)
      OBVIOUS
    <3>2. a \in Seq(Seq(Elements)) /\ Len(a) = Len(ds) + 1
      BY <1>7, <2>5, <3>1
    <3>3. a = [i \in 1 .. Len(a) |-> a[i]]
      BY <3>2
    <3>4. QED
      BY <3>1, <3>2, <3>3
  <2>9. QED
    <3> HIDE DEF s, t
    <3> QED BY <2>4, <2>6, <2>7, <2>8
<1>9. FlattenSeq(t) = FlattenSeq(s) \o of(m)
  <2>1. s # << >>
    <3> HIDE DEF s
    <3> QED BY <1>5, <1>7
  <2>2. of(m) \in Seq(Elements)
    BY <1>4
  <2> HIDE DEF s, t, of
  <2>3. QED
    BY <1>7, <1>8, <2>1, <2>2, FlattenMore
<1>10. BranchesOf(b) = FlattenSeq(s)
  BY DEF MadeOf
<1> PICK c : c = Combine(b, source[m].body)
  OBVIOUS
<1>11. c.kind = "alt" /\ BranchesOf(c) = FlattenSeq(t)
  <2>1. c.kind = "alt" /\ c.parts = BranchesOf(b) \o of(m)
    BY DEF Combine
  <2>2. BranchesOf(c) = c.parts
    BY <2>1 DEF BranchesOf
  <2> HIDE DEF s, t, of
  <2>3. QED
    BY <1>9, <1>10, <2>1, <2>2
<1>12. MadeOf(c, es)
  <2>1. Len(es) > 1 /\ Len(es) # 1
    BY <1>5, <1>6
  <2>2. es # << >>
    <3>1. es \in Seq(S \cup {m})
      BY <1>2, <1>3 DEF IsList
    <3>2. QED
      BY <2>1, <3>1
  <2>3. BranchesOf(c) = FlattenSeq([i \in DOMAIN es |-> BranchesOf(source[es[i]].body)])
    BY <1>11
  <2>4. QED
    BY <1>11, <2>1, <2>2, <2>3 DEF MadeOf
<1>13. QED
  BY <1>2, <1>3, <1>12

(* What one definition founds is made of that.                             *)
LEMMA MadeOfOne ==
  ASSUME BuilderTypes, NEW m \in 1 .. Len(source)
  PROVE  IsList(<<m>>, {m}) /\ MadeOf(source[m].body, <<m>>)
<1>1. IsList(<<m>>, {m})
  <2>1. <<m>> \in Seq({m}) /\ DOMAIN <<m>> = {1} /\ <<m>>[1] = m
    OBVIOUS
  <2>2. QED
    BY <2>1 DEF IsList, Lists
<1> DEFINE x == BranchesOf(source[m].body)
<1>2. x \in Seq(Elements)
  <2>1. source[m] \in Definitions
    BY DEF BuilderTypes
  <2>2. source[m].body \in Elements
    BY <2>1, BuilderAssumption
  <2>3. source[m].body.parts \in Seq(Elements)
    BY <2>2, BuilderAssumption DEF ElementShape
  <2>4. QED
    BY <2>2, <2>3 DEF BranchesOf
<1>3. FlattenSeq(Append(<< >>, x)) = x
  <2> HIDE DEF x
  <2>1. << >> \in Seq(Seq(Elements))
    OBVIOUS
  <2>2. QED
    BY <1>2, <2>1, FlattenMore
<1>4. [i \in DOMAIN <<m>> |-> BranchesOf(source[<<m>>[i]].body)] = Append(<< >>, x)
  OBVIOUS
<1>5. Len(<<m>>) = 1 /\ <<m>> # << >> /\ <<m>>[1] = m
  OBVIOUS
<1>6. QED
  BY <1>1, <1>3, <1>4, <1>5 DEF MadeOf

(* Whether a definition has a place does not depend on later ones; what is *)
(* met later does not touch a rule it does not belong to.                  *)
LEMMA SaysStays ==
  ASSUME BuilderInv, Merge, NEW r \in 1 .. Len(order), NEW f, Says(r, f),
         order'[r] = order[r], collected'[order[r]] = collected[order[r]],
         at \notin DefinitionsOf(f)
  PROVE  Says(r, f)'
<1>1. source' = source
  BY MergeCases
<1>2. Met(DefinitionsOf(f))' = Met(DefinitionsOf(f))
  <2>1. PICK S : S = DefinitionsOf(f)
    OBVIOUS
  <2>2. S \in SUBSET Nat
    BY <2>1, PlacesAreNumbers DEF BuilderInv
  <2>3. {i \in S : i <= Past'} = Met(S) \cup (S \cap {at})
    BY <2>2, MetGrows
  <2>4. S \cap {at} = {}
    BY <2>1
  <2>5. DefinitionsOf(f)' = S
    BY <1>1, <2>1, SourceStays
  <2>6. Met(DefinitionsOf(f))' = {i \in S : i <= Past'}
    BY <2>5 DEF Met
  <2>7. QED
    BY <2>1, <2>3, <2>4, <2>6
<1>3. order[r] = Key(source[f]) /\ collected[order[r]].name = source[f].name
  BY DEF Says
<1>4. PICK ds : IsList(ds, Met(DefinitionsOf(f))) /\ MadeOf(collected[order[r]].body, ds)
  BY DEF Says
<1>5. MadeOf(collected[order[r]].body, ds)'
  BY <1>1, <1>4 DEF MadeOf, BranchesOf
<1>6. order'[r] = Key(source[f])' /\ collected'[order'[r]].name = source'[f].name
  BY <1>1, <1>3, SourceStays
<1>7. MadeOf(collected[order[r]].body, ds)' /\ IsList(ds, Met(DefinitionsOf(f))')
  BY <1>2, <1>4, <1>5
<1>8. QED
  BY <1>6, <1>7 DEF Says, IsList, Lists

(* A definition founds a rule, which then is the last, extends the one of  *)
(* its key, or has no place and changes nothing.                           *)
LEMMA MergeKeepsMerged ==
  ASSUME BuilderInv, MergedInv, Merge
  PROVE  MergedInv'
<1>1. /\ stage = "merge" /\ at \in 1 .. Len(source) /\ at \in Nat /\ Len(source) \in Nat
      /\ DOMAIN source = 1 .. Len(source)
      /\ at' = at + 1 /\ source' = source /\ stage' = stage
  BY MergeCases
<1>2. PICK k : k = Key(source[at])
  OBVIOUS
<1>3. Past = at - 1 /\ Past' = at
  BY <1>1 DEF Past
<1>4. Misplaced(at) <=> (IsBase(at) <=> k \in DOMAIN collected)
  BY <1>1, <1>2, PlaceFacts
<1>5. /\ Founders \in SUBSET Nat /\ Founders \subseteq 1 .. Len(source)
      /\ \A f : DefinitionsOf(f) \in SUBSET Nat /\ DefinitionsOf(f) \subseteq 1 .. Len(source)
  BY PlacesAreNumbers DEF BuilderInv
<1>6. PICK fs : /\ IsList(fs, Met(Founders)) /\ Len(fs) = Len(order)
                /\ \A r \in 1 .. Len(order) : Says(r, fs[r])
  BY DEF MergedInv
<1>7. /\ order \in Seq(DOMAIN collected) /\ Len(order) \in Nat
      /\ \A r \in 1 .. Len(order) : order[r] \in DOMAIN collected
  BY DEF BuilderInv, BuilderTypes
<1>8. Met(Founders)' = Met(Founders) \cup (Founders \cap {at}) /\ \A i \in Met(Founders) : i < at
  <2>1. PICK S : S = Founders
    OBVIOUS
  <2>2. S \in SUBSET Nat
    BY <1>5, <2>1
  <2>3. {i \in S : i <= Past'} = Met(S) \cup (S \cap {at}) /\ \A i \in Met(S) : i < at
    BY <2>2, MetGrows
  <2>4. Founders' = S
    BY <1>1, <2>1, SourceStays
  <2>5. Met(Founders)' = {i \in S : i <= Past'}
    BY <2>4 DEF Met
  <2>6. QED
    BY <2>1, <2>3, <2>5
<1>9. {Key(source[i]) : i \in {i \in 1 .. Past : IsBase(i)}}'
        = DOMAIN collected \cup (IF IsBase(at) THEN {k} ELSE {})
  <2>1. DOMAIN collected = {Key(source[i]) : i \in {i \in 1 .. at - 1 : IsBase(i)}}
    BY <1>3 DEF MergedInv
  <2>2. {Key(source[i]) : i \in {i \in 1 .. Past : IsBase(i)}}'
          = {Key(source[i]) : i \in {i \in 1 .. at : IsBase(i)}}
    BY <1>1, <1>3 DEF IsBase, Key
  <2>3. 1 .. at = (1 .. at - 1) \cup {at}
    BY <1>1
  <2>4. QED
    BY <1>2, <2>1, <2>2, <2>3
<1>10. ASSUME NEW r \in 1 .. Len(order), k # order[r] PROVE at \notin DefinitionsOf(fs[r])
  <2>1. order[r] = Key(source[fs[r]])
    BY <1>6 DEF Says
  <2>2. QED
    BY <1>2, <1>10, <2>1 DEF DefinitionsOf, Alike, Key
<1>0. stage' = "merge" => at' <= Len(source') + 1
  BY <1>1
<1>11. CASE IsBase(at) /\ k \notin DOMAIN collected
  <2>1. /\ order' = Append(order, k)
        /\ collected' = [x \in DOMAIN collected \cup {k} |->
                           IF x = k THEN [name |-> source[at].name, body |-> source[at].body]
                           ELSE collected[x]]
    BY <1>2, <1>11, MergeCases
  <2>2. at \in Founders
    BY <1>1, <1>4, <1>11 DEF Founders
  <2>3. DOMAIN collected' = {Key(source[i]) : i \in {i \in 1 .. Past : IsBase(i)}}'
    BY <1>9, <1>11, <2>1
  <2>4. PICK gs : gs = Append(fs, at)
    OBVIOUS
  <2>5. /\ IsList(gs, Met(Founders)') /\ Len(gs) = Len(fs) + 1
        /\ gs[Len(fs) + 1] = at /\ \A i \in 1 .. Len(fs) : gs[i] = fs[i]
    <3>1. PICK S : S = Met(Founders)
      OBVIOUS
    <3>2. S \in SUBSET Nat /\ IsList(fs, S) /\ \A x \in S : x < at
      BY <1>5, <1>6, <1>8, <3>1 DEF Met
    <3>3. Met(Founders)' = S \cup {at}
      BY <1>8, <2>2, <3>1
    <3>4. QED
      BY <1>1, <2>4, <3>2, <3>3, ListAppend
  <2>6. /\ Len(order') = Len(order) + 1 /\ order'[Len(order) + 1] = k
        /\ \A i \in 1 .. Len(order) : order'[i] = order[i]
    <3>1. order \in Seq(DOMAIN collected \cup {k})
      BY <1>7, SeqMonotonic
    <3>2. QED
      BY <2>1, <3>1, PushStack
  <2>7. ASSUME NEW r \in 1 .. Len(order) PROVE Says(r, fs[r])'
    <3>1. order[r] \in DOMAIN collected /\ order[r] # k
      BY <1>7, <1>11
    <3>2. collected'[order[r]] = collected[order[r]]
      BY <2>1, <3>1
    <3>3. PICK f : f = fs[r]
      OBVIOUS
    <3>4. Says(r, f) /\ at \notin DefinitionsOf(f) /\ order'[r] = order[r]
      BY <1>6, <1>10, <2>6, <3>1, <3>3
    <3>5. Says(r, f)'
      BY <3>2, <3>4, SaysStays
    <3>6. QED
      BY <3>3, <3>5
  <2>8. \A n, m : n = Len(order) + 1 /\ m = at => Says(n, m)'
    <3> SUFFICES ASSUME NEW n, NEW m, n = Len(order) + 1, m = at PROVE Says(n, m)'
      OBVIOUS
    <3>1. ASSUME NEW i \in DefinitionsOf(at), i < at PROVE FALSE
      <4>1. i \in DOMAIN source /\ i \in 1 .. at - 1 /\ ~Misplaced(i) /\ Key(source[i]) = k
        BY <1>1, <1>2, <3>1 DEF DefinitionsOf, Alike, Key
      <4>2. \E j \in 1 .. at - 1 : IsBase(j) /\ Key(source[j]) = k
        <5>1. CASE IsBase(i)
          BY <4>1, <5>1
        <5>2. CASE ~IsBase(i)
          <6>1. PICK j \in 1 .. i - 1 : IsBase(j) /\ Alike(i, j)
            BY <4>1, <5>2 DEF Misplaced
          <6>2. j \in 1 .. at - 1 /\ Key(source[j]) = k
            BY <1>1, <4>1, <6>1 DEF Alike, Key
          <6>3. QED
            BY <6>1, <6>2
        <5>3. QED
          BY <5>1, <5>2
      <4>3. k \in DOMAIN collected
        BY <1>3, <4>2 DEF MergedInv
      <4>4. QED
        BY <1>11, <4>3
    <3>2. Met(DefinitionsOf(at)) = {}
      BY <1>1, <1>3, <1>5, <3>1 DEF Met
    <3>3. at \in DefinitionsOf(at)
      BY <1>1, <2>2 DEF Founders, DefinitionsOf, Alike
    <3>4. {i \in DefinitionsOf(at) : i <= at} = {at}
      <4>1. PICK D : D = DefinitionsOf(at)
        OBVIOUS
      <4>2. D \in SUBSET Nat /\ at \in D /\ \A i \in D : ~ i < at
        BY <1>5, <3>1, <3>3, <4>1
      <4>3. \A i \in D : i <= at <=> i = at
        BY <1>1, <4>2
      <4>4. QED
        BY <4>1, <4>2, <4>3
    <3>5. \A f : DefinitionsOf(f)' = DefinitionsOf(f)
      BY <1>1, SourceStays
    <3>6. \A f : (f = at) => Met(DefinitionsOf(f))' = {at}
      BY <1>3, <3>4, <3>5 DEF Met
    <3>7. IsList(<<at>>, {at}) /\ MadeOf(source[at].body, <<at>>)
      BY <1>1, MadeOfOne DEF BuilderInv
    <3>9. MadeOf(source[m].body, <<m>>)'
      BY <1>1, <3>7 DEF MadeOf, BranchesOf
    <3>10. collected'[k] = [name |-> source[m].name, body |-> source[m].body]
      BY <2>1
    <3>11. order'[Len(order) + 1] = Key(source[m])' /\ Key(source[m])' = k
      BY <1>1, <1>2, <2>6 DEF Key
    <3>12. \A b, ds : MadeOf(b, ds)' => MadeOf(b, ds)'
      OBVIOUS
    <3>13. PICK b : b = source[m].body
      OBVIOUS
    <3>14. MadeOf(b, <<m>>)' /\ collected'[k].body = b /\ collected'[k].name = source'[m].name
      BY <1>1, <3>9, <3>10, <3>13
    <3>15. IsList(<<m>>, Met(DefinitionsOf(m))')
      BY <3>6, <3>7
    <3>16. QED
      BY <3>11, <3>14, <3>15 DEF Says, IsList, Lists
  <2>9. ASSUME NEW r \in 1 .. Len(order') PROVE Says(r, gs[r])'
    <3>1. CASE r \in 1 .. Len(order)
      BY <1>6, <2>5, <2>7, <3>1
    <3>2. CASE r = Len(order) + 1
      <4>1. PICK m : m = at
        OBVIOUS
      <4>2. gs[r] = m
        BY <1>6, <2>5, <3>2, <4>1
      <4>3. Says(r, m)'
        BY <2>8, <3>2, <4>1
      <4>4. QED
        BY <4>2, <4>3
    <3>3. QED
      BY <1>7, <2>6, <3>1, <3>2
  <2>10. QED
    BY <1>0, <1>6, <2>3, <2>5, <2>6, <2>9 DEF MergedInv, IsList, Lists
<1>12. CASE ~IsBase(at) /\ k \in DOMAIN collected
  <2>1. /\ order' = order
        /\ collected' = [collected EXCEPT ![k].body = Combine(@, source[at].body)]
    BY <1>2, <1>12, MergeCases
  <2>2. at \notin Founders /\ ~Misplaced(at)
    BY <1>4, <1>12 DEF Founders
  <2>3. DOMAIN collected' = {Key(source[i]) : i \in {i \in 1 .. Past : IsBase(i)}}'
    BY <1>9, <1>12, <2>1
  <2>4. IsList(fs, Met(Founders)')
    BY <1>6, <1>8, <2>2
  <2>5. ASSUME NEW r \in 1 .. Len(order), order[r] # k PROVE Says(r, fs[r])'
    <3>1. PICK f : f = fs[r]
      OBVIOUS
    <3>2. /\ Says(r, f) /\ at \notin DefinitionsOf(f) /\ order'[r] = order[r]
          /\ collected'[order[r]] = collected[order[r]]
      BY <1>6, <1>7, <1>10, <2>1, <2>5, <3>1
    <3>3. Says(r, f)'
      BY <3>2, SaysStays
    <3>4. QED
      BY <3>1, <3>3
  <2>6. ASSUME NEW r \in 1 .. Len(order), order[r] = k PROVE Says(r, fs[r])'
    <3>1. PICK f : f = fs[r]
      OBVIOUS
    <3>2. PICK S : S = Met(DefinitionsOf(f))
      OBVIOUS
    <3>3. Says(r, f)
      BY <1>6, <3>1
    <3>4. PICK b : b = collected[k].body
      OBVIOUS
    <3>5. k = Key(source[f]) /\ collected[k].name = source[f].name
      BY <2>6, <3>3 DEF Says
    <3>6. PICK ds : IsList(ds, S) /\ MadeOf(b, ds)
      BY <2>6, <3>2, <3>3, <3>4 DEF Says
    <3>7. at \in DefinitionsOf(f)
      BY <1>1, <1>2, <2>2, <3>5 DEF DefinitionsOf, Alike, Key
    <3>8. Met(DefinitionsOf(f))' = S \cup {at} /\ S \in SUBSET (1 .. Len(source)) /\ \A i \in S : i < at
      <4>1. PICK D : D = DefinitionsOf(f)
        OBVIOUS
      <4>2. D \in SUBSET Nat /\ D \subseteq 1 .. Len(source) /\ at \in D
        BY <1>5, <3>7, <4>1
      <4>3. {i \in D : i <= Past'} = Met(D) \cup (D \cap {at}) /\ \A i \in Met(D) : i < at
        BY <4>2, MetGrows
      <4>4. DefinitionsOf(f)' = D
        BY <1>1, <4>1, SourceStays
      <4>5. Met(DefinitionsOf(f))' = {i \in D : i <= Past'}
        BY <4>4 DEF Met
      <4>6. S \subseteq D
        BY <3>2, <4>1 DEF Met
      <4>7. QED
        BY <3>2, <4>1, <4>2, <4>3, <4>5, <4>6
    <3>9. b \in Bodies
      BY <1>12, <3>4 DEF BuilderInv, BuilderTypes
    <3>10. PICK es : es = Append(ds, at)
      OBVIOUS
    <3>11. PICK c : c = Combine(b, source[at].body)
      OBVIOUS
    <3>12. IsList(es, S \cup {at}) /\ MadeOf(c, es)
      BY <1>1, <3>6, <3>8, <3>9, <3>10, <3>11, MadeOfMore DEF BuilderInv
    <3>13. collected'[k].body = c /\ collected'[k].name = collected[k].name
      <4>1. collected[k] \in [name : DOMAIN KeyOf, body : Bodies]
        BY <1>12 DEF BuilderInv, BuilderTypes
      <4>2. collected'[k] = [collected[k] EXCEPT !.body = c]
        BY <1>12, <2>1, <3>4, <3>11
      <4>3. QED
        BY <4>1, <4>2
    <3>14. MadeOf(c, es)'
      BY <1>1, <3>12 DEF MadeOf, BranchesOf
    <3>15. order'[r] = Key(source[f])' /\ order'[r] = k /\ collected'[k].name = source'[f].name
      BY <1>1, <2>1, <2>6, <3>5, <3>13 DEF Key
    <3>16. IsList(es, Met(DefinitionsOf(f))')
      BY <3>8, <3>12
    <3>17. Says(r, f)'
      BY <3>13, <3>14, <3>15, <3>16 DEF Says, IsList, Lists
    <3>18. QED
      BY <3>1, <3>17
  <2>7. \A r \in 1 .. Len(order') : Says(r, fs[r])'
    BY <2>1, <2>5, <2>6
  <2>8. QED
    BY <1>0, <1>6, <2>1, <2>3, <2>4, <2>7 DEF MergedInv, IsList, Lists
<1>13. CASE IsBase(at) <=> k \in DOMAIN collected
  <2>1. order' = order /\ collected' = collected
    BY <1>2, <1>13, MergeCases
  <2>2. Misplaced(at)
    BY <1>4, <1>13
  <2>3. DOMAIN collected' = {Key(source[i]) : i \in {i \in 1 .. Past : IsBase(i)}}'
    BY <1>9, <1>13, <2>1
  <2>4. IsList(fs, Met(Founders)')
    BY <1>6, <1>8, <2>2 DEF Founders
  <2>5. ASSUME NEW r \in 1 .. Len(order) PROVE Says(r, fs[r])'
    <3>1. PICK f : f = fs[r]
      OBVIOUS
    <3>2. /\ Says(r, f) /\ at \notin DefinitionsOf(f) /\ order'[r] = order[r]
          /\ collected'[order[r]] = collected[order[r]]
      BY <1>6, <2>1, <2>2, <3>1 DEF DefinitionsOf
    <3>3. Says(r, f)'
      BY <3>2, SaysStays
    <3>4. QED
      BY <3>1, <3>3
  <2>6. QED
    BY <1>0, <1>6, <2>1, <2>3, <2>4, <2>5 DEF MergedInv, IsList, Lists
<1>14. QED
  BY <1>11, <1>12, <1>13

(* At the start nothing is met.                                            *)
LEMMA MergedStart == Init => MergedInv
<1> SUFFICES ASSUME Init PROVE MergedInv
  OBVIOUS
<1>1. stage = "merge" /\ at = 1 /\ order = << >> /\ collected = << >>
  BY DEF Init
<1>2. Past = 0
  BY <1>1 DEF Past
<1>3. Met(Founders) = {}
  <2>1. Founders \in SUBSET Nat /\ Founders \subseteq 1 .. Len(source)
    BY BuilderStart, PlacesAreNumbers DEF BuilderInv
  <2>2. Len(source) \in Nat
    BY BuilderStart DEF BuilderInv, BuilderTypes
  <2>3. \A i \in Founders : ~ i <= 0
    BY <2>1, <2>2
  <2>4. QED
    BY <1>2, <2>3 DEF Met
<1>4. IsList(<< >>, {}) /\ Len(<< >>) = 0
  BY DEF IsList, Lists
<1>5. DOMAIN collected = {Key(source[i]) : i \in {i \in 1 .. Past : IsBase(i)}}
  BY <1>1, <1>2
<1>6. at <= Len(source) + 1
  <2>1. Len(source) \in Nat
    BY BuilderStart DEF BuilderInv, BuilderTypes
  <2>2. QED
    BY <1>1, <2>1
<1>7. QED
  BY <1>1, <1>3, <1>4, <1>5, <1>6 DEF MergedInv

(* What has merged stays so.                                               *)
LEMMA MergedStep ==
  ASSUME BuilderInv, MergedInv, [Next]_vars
  PROVE  MergedInv'
<1>1. CASE Merge
  BY <1>1, MergeKeepsMerged
<1>2. CASE ~Merge
  <2>1. source' = source /\ order' = order /\ collected' = collected /\ Past' = Past
    <3>1. CASE BeginRule \/ LowerPart \/ UNCHANGED vars
      BY <3>1 DEF BeginRule, LowerPart, Reserve, vars, merging, Past
    <3>2. CASE Place
      <4>1. stage' = stage /\ stage # "merge"
        BY <3>2 DEF Place, BuilderInv, Progress
      <4>2. QED
        BY <3>2, <4>1 DEF Place, merging, Past
    <3>3. CASE Turn
      <4>1. source' = source /\ order' = order /\ collected' = collected
        BY <3>3 DEF Turn, merging
      <4>2. CASE stage = "merge"
        <5>1. at > Len(source) /\ stage' = "user"
          BY <3>3, <4>2 DEF Turn
        <5>2. PICK m : m = Len(source)
          OBVIOUS
        <5>3. Past = at - 1 /\ Past' = m
          BY <4>1, <4>2, <5>1, <5>2 DEF Past
        <5>4. at - 1 = m
          <6>1. m \in Nat /\ at \in Nat /\ at <= m + 1
            BY <4>2, <5>2 DEF BuilderInv, BuilderTypes, MergedInv
          <6>2. QED
            BY <5>1, <5>2, <6>1
        <5>5. QED
          BY <4>1, <5>3, <5>4
      <4>3. CASE stage # "merge"
        <5>1. stage' # "merge"
          BY <3>3, <4>3 DEF Turn
        <5>2. QED
          BY <4>1, <4>3, <5>1 DEF Past
      <4>4. QED
        BY <4>2, <4>3
    <3>4. QED
      BY <1>2, <3>1, <3>2, <3>3 DEF Next, LowerRules
  <2>2. /\ Founders' = Founders
        /\ \A f : DefinitionsOf(f)' = DefinitionsOf(f)
        /\ \A b, ds : MadeOf(b, ds) => MadeOf(b, ds)'
    BY <2>1, SourceStays
  <2>3. /\ DOMAIN collected = {Key(source[i]) : i \in {i \in 1 .. Past : IsBase(i)}}
        /\ {Key(source[i]) : i \in {i \in 1 .. Past : IsBase(i)}}'
             = {Key(source[i]) : i \in {i \in 1 .. Past : IsBase(i)}}
    BY <2>1 DEF MergedInv, IsBase, Key
  <2>4. PICK fs : /\ IsList(fs, Met(Founders)) /\ Len(fs) = Len(order)
                  /\ \A r \in 1 .. Len(order) : Says(r, fs[r])
    BY DEF MergedInv
  <2>5. ASSUME NEW r, NEW f, Says(r, f) PROVE Says(r, f)'
    <3>1. PICK ds : IsList(ds, Met(DefinitionsOf(f))) /\ MadeOf(collected[order[r]].body, ds)
      BY <2>5 DEF Says
    <3>2. IsList(ds, Met(DefinitionsOf(f)))' /\ MadeOf(collected[order[r]].body, ds)'
      BY <2>1, <2>2, <3>1 DEF IsList, Lists, Met, MadeOf, BranchesOf
    <3>3. QED
      BY <2>1, <2>5, <3>2 DEF Says, Key
  <2>6. IsList(fs, Met(Founders))' /\ Len(fs) = Len(order')
    BY <2>1, <2>2, <2>4 DEF IsList, Lists, Met
  <2>7. stage' # "merge" \/ (stage' = stage /\ at' = at)
    <3>1. CASE Place
      BY <3>1 DEF Place, BuilderInv, Progress
    <3>2. CASE BeginRule \/ LowerPart \/ Turn \/ UNCHANGED vars
      BY <3>2 DEF BeginRule, LowerPart, Reserve, Turn, vars
    <3>3. QED
      BY <1>2, <3>1, <3>2 DEF Next, LowerRules
  <2>8. QED
    BY <2>1, <2>3, <2>4, <2>5, <2>6, <2>7 DEF MergedInv
<1>3. QED
  BY <1>1, <1>2

-----------------------------------------------------------------------------
(* What names mean.                                                        *)

(* The table of all rules, the user's first.                               *)
Entry(r) == IF r <= Len(order) THEN collected[order[r]] ELSE CoreTable[r - Len(order)]

RulesNamed == \A r \in 1 .. Len(rules) : rules[r].name = Entry(r).name

(* The first node that is, or will be, of a core rule.                     *)
Boundary ==
  IF stage \in {"merge", "user"} THEN Len(nodes)
  ELSE IF Len(rules) > Len(order) THEN rules[Len(order) + 1].body
  ELSE IF frames # << >> THEN frames[1].id
  ELSE Len(nodes)

CoreFrames == stage = "core" => \A i \in 1 .. Len(frames) : frames[i].id >= Boundary

(* The rule `t` is one that a reference before, or after, the boundary may *)
(* mean.                                                                   *)
UserMeans(t) ==
  \/ t + 1 <= Len(order)
  \/ \E c \in 1 .. Len(CoreTable) : /\ t + 1 = Len(order) + c
                                    /\ \A i \in 1 .. Len(order) : order[i] # Key(CoreTable[c])
CoreMeans(t) == t >= Len(order)

Meant(n) ==
  nodes[n + 1].kind = "ref" =>
    IF n < Boundary THEN UserMeans(nodes[n + 1].target) ELSE CoreMeans(nodes[n + 1].target)

TargetsMeant == errors = << >> => \A n \in Ids : Meant(n)

HygieneInv == RulesNamed /\ CoreFrames /\ TargetsMeant

(* The rule being lowered is the next in the table of all.                 *)
LEMMA TableEntry ==
  ASSUME BuilderInv, stage \in {"user", "core"}, at <= Len(Table)
  PROVE  Table[at] = Entry(Len(rules) + 1)
<1>1. Len(order) \in Nat /\ DOMAIN order = 1 .. Len(order) /\ at \in Nat /\ at > 0
  BY DEF BuilderInv, BuilderTypes
<1>2. CASE stage = "user"
  <2>1. Len(rules) + 1 = at
    BY <1>1, <1>2 DEF BuilderInv, Progress
  <2>2. Len(Table) = Len(order) /\ Table = Merged
    BY <1>1, <1>2 DEF Table, Merged
  <2>3. at \in DOMAIN order
    BY <1>1, <2>2
  <2>4. Table[at] = collected[order[at]]
    BY <2>2, <2>3 DEF Merged
  <2>5. QED
    BY <1>1, <2>1, <2>2, <2>4 DEF Entry
<1>3. CASE stage = "core"
  <2>1. Len(rules) = Len(order) + at - 1 /\ Table = CoreTable
    BY <1>3 DEF BuilderInv, Progress, Table
  <2>2. PICK r : r = Len(rules) + 1
    OBVIOUS
  <2>3. r > Len(order) /\ r - Len(order) = at /\ r \in Nat
    BY <1>1, <2>1, <2>2
  <2>4. ~ r <= Len(order)
    BY <1>1, <2>3
  <2>5. QED
    BY <2>1, <2>2, <2>3, <2>4 DEF Entry
<1>4. QED
  BY <1>2, <1>3

(* What a name resolves to, in the rules of the user and in the core rules.*)
LEMMA ResolveMeans ==
  ASSUME BuilderTypes, NEW name, Resolve(name) \in 0 .. Total - 1
  PROVE  /\ stage = "user" => UserMeans(Resolve(name))
         /\ stage = "core" => CoreMeans(Resolve(name))
         /\ KeyOf[Entry(Resolve(name) + 1).name] = KeyOf[name]
              \/ \E i \in 1 .. Len(order) : Resolve(name) + 1 = i /\ order[i] = KeyOf[name]
<1>1. Len(order) \in Nat /\ DOMAIN order = 1 .. Len(order)
  BY DEF BuilderTypes
<1>2. Len(CoreTable) \in Nat /\ DOMAIN CoreTable = 1 .. Len(CoreTable) /\ None \notin Nat
  BY BuilderAssumption
<1> DEFINE k == KeyOf[name]
           user == {i \in DOMAIN order : order[i] = k}
           core == PositionsOf(k, CoreTable)
<1>3. Resolve(name) = IF stage = "user" /\ user # {} THEN (CHOOSE i \in user : TRUE) - 1
                      ELSE IF core # {} THEN Len(order) + (CHOOSE i \in core : TRUE) - 1
                      ELSE None
  BY DEF Resolve
<1>4. /\ \A i \in user : i \in 1 .. Len(order) /\ order[i] = k
      /\ \A c \in core : c \in 1 .. Len(CoreTable) /\ Key(CoreTable[c]) = k
  BY <1>1, <1>2 DEF PositionsOf
<1>5. user = {} => \A i \in 1 .. Len(order) : order[i] # k
  BY <1>1
<1> PICK t : t = Resolve(name)
  OBVIOUS
<1> HIDE DEF user, core, k
<1>6. CASE stage = "user" /\ user # {}
  <2>1. PICK i \in user : t = i - 1
    BY <1>3, <1>6
  <2>2. i \in 1 .. Len(order) /\ order[i] = k /\ t + 1 = i
    BY <1>4, <2>1
  <2>3. UserMeans(t)
    BY <2>2 DEF UserMeans
  <2>4. QED
    BY <1>6, <2>2, <2>3 DEF k
<1>7. CASE ~(stage = "user" /\ user # {}) /\ core # {}
  <2>1. PICK c \in core : t = Len(order) + c - 1
    BY <1>3, <1>7
  <2>2. c \in 1 .. Len(CoreTable) /\ Key(CoreTable[c]) = k /\ t + 1 = Len(order) + c
    BY <1>1, <1>4, <2>1
  <2>3. stage = "user" => UserMeans(t)
    BY <1>5, <1>7, <2>2 DEF UserMeans
  <2>4. CoreMeans(t)
    BY <1>1, <2>1, <2>2 DEF CoreMeans
  <2>5. KeyOf[Entry(t + 1).name] = k
    <3>1. PICK r : r = t + 1
      OBVIOUS
    <3>2. r \in Nat /\ ~ r <= Len(order) /\ r - Len(order) = c
      BY <1>1, <2>2, <3>1
    <3>3. Entry(r) = CoreTable[c]
      BY <3>2 DEF Entry
    <3>4. QED
      BY <2>2, <3>1, <3>3 DEF Key
  <2>6. QED
    BY <2>3, <2>4, <2>5 DEF k
<1>8. CASE ~(stage = "user" /\ user # {}) /\ core = {}
  BY <1>2, <1>3, <1>8
<1>9. QED
  BY <1>6, <1>7, <1>8

(* A merged rule has the key it is kept under.                             *)
LEMMA KeysKept ==
  ASSUME BuilderInv, MergedInv, NEW r \in 1 .. Len(order)
  PROVE  KeyOf[Entry(r).name] = order[r]
<1>1. PICK fs : \A q \in 1 .. Len(order) : Says(q, fs[q])
  BY DEF MergedInv
<1>2. order[r] = Key(source[fs[r]]) /\ collected[order[r]].name = source[fs[r]].name
  BY <1>1 DEF Says
<1>3. r <= Len(order)
  BY DEF BuilderInv, BuilderTypes
<1>4. QED
  BY <1>2, <1>3 DEF Entry, Key

(* The boundary is among the nodes there are.                              *)
LEMMA BoundaryFacts ==
  ASSUME BuilderInv
  PROVE  Boundary \in Nat /\ Boundary <= Len(nodes) /\ Len(nodes) \in Nat
<1>1. Len(nodes) \in Nat /\ Len(order) \in Nat
  <2>1. IsSequence(nodes)
    BY DEF BuilderInv, BuilderTypes
  <2>2. QED
    BY <2>1, AppendFacts DEF BuilderInv, BuilderTypes
<1>2. CASE stage \in {"merge", "user"}
  BY <1>1, <1>2 DEF Boundary
<1>3. CASE stage \notin {"merge", "user"} /\ Len(rules) > Len(order)
  <2>1. PICK m : m = Len(order) + 1
    OBVIOUS
  <2>2. rules \in Seq(RuleSet) /\ Len(rules) \in Nat
    BY DEF BuilderInv, BuilderTypes
  <2>3. m \in 1 .. Len(rules)
    BY <1>1, <1>3, <2>1, <2>2
  <2>4. rules[m] \in RuleSet /\ rules[m].body < Len(nodes)
    BY <2>2, <2>3 DEF BuilderInv, Rooted
  <2>5. rules[m].body \in Nat
    BY <2>4 DEF RuleSet
  <2>6. QED
    BY <1>1, <1>3, <2>1, <2>4, <2>5 DEF Boundary
<1>4. CASE stage \notin {"merge", "user"} /\ ~ Len(rules) > Len(order) /\ frames # << >>
  <2>1. frames \in Seq(Frames)
    BY DEF BuilderInv, BuilderTypes
  <2>2. 1 \in 1 .. Len(frames)
    BY <1>4, <2>1
  <2>3. frames[1] \in Frames /\ frames[1].id < Len(nodes)
    BY <2>1, <2>2 DEF BuilderInv, Activations, GoodFrame
  <2>4. frames[1].id \in Nat
    BY <2>3 DEF Frames
  <2>5. QED
    BY <1>1, <1>4, <2>3, <2>4 DEF Boundary
<1>5. CASE stage \notin {"merge", "user"} /\ ~ Len(rules) > Len(order) /\ frames = << >>
  BY <1>1, <1>5 DEF Boundary
<1>6. QED
  BY <1>2, <1>3, <1>4, <1>5

(* A node reserved means nothing yet and is on the side of the boundary    *)
(* its stage says.                                                         *)
LEMMA ReserveKeepsHygiene ==
  ASSUME BuilderInv, HygieneInv, NEW e \in Bodies, Reserve(e), stage \in {"user", "core"}
  PROVE  HygieneInv'
<1>1. PICK f : Reserved(e, f)
  BY ReserveSays DEF BuilderInv
<1>2. /\ stage' = stage /\ order' = order /\ collected' = collected /\ rules' = rules
      /\ Len(nodes) \in Nat /\ Len(nodes') = Len(nodes) + 1
      /\ nodes'[Len(nodes) + 1] = Placeholder
      /\ \A i \in 1 .. Len(nodes) : nodes'[i] = nodes[i]
      /\ errors' = << >> => errors = << >>
  BY <1>1 DEF Reserved
<1>3. /\ frames \in Seq(Frames) /\ Len(frames) \in Nat /\ Len(frames') = Len(frames) + 1
      /\ frames' # << >> /\ frames'[Len(frames) + 1] = f /\ f.id = Len(nodes)
      /\ \A i \in 1 .. Len(frames) : frames'[i] = frames[i]
  BY <1>1 DEF Reserved
<1>4. RulesNamed'
  BY <1>2 DEF HygieneInv, RulesNamed, Entry
<1>5. stage = "core" => Boundary' = Boundary
  <2>1. CASE frames = << >>
    BY <1>2, <1>3, <2>1 DEF Boundary
  <2>2. CASE frames # << >>
    <3>1. 1 \in 1 .. Len(frames)
      BY <1>3, <2>2
    <3>2. frames'[1] = frames[1]
      BY <1>3, <3>1
    <3>3. QED
      BY <1>2, <1>3, <2>2, <3>2 DEF Boundary
  <2>3. QED
    BY <2>1, <2>2
<1>6. Boundary \in Nat /\ Boundary <= Len(nodes)
  BY BoundaryFacts
<1>7. CoreFrames'
  <2>1. ASSUME stage = "core", NEW i \in 1 .. Len(frames') PROVE frames'[i].id >= Boundary'
    <3>1. CASE i \in 1 .. Len(frames)
      BY <1>3, <1>5, <2>1, <3>1 DEF HygieneInv, CoreFrames
    <3>2. CASE i = Len(frames) + 1
      BY <1>2, <1>3, <1>5, <1>6, <2>1, <3>2
    <3>3. QED
      BY <1>3, <3>1, <3>2
  <2>2. QED
    BY <1>2, <2>1 DEF CoreFrames
<1>8. TargetsMeant'
  <2>1. \A t : (UserMeans(t) => UserMeans(t)') /\ (CoreMeans(t) => CoreMeans(t)')
    BY <1>2 DEF UserMeans, CoreMeans, Key
  <2>2. ASSUME errors' = << >>, NEW n \in 0 .. Len(nodes') - 1 PROVE Meant(n)'
    <3>1. CASE n = Len(nodes)
      <4>1. nodes'[n + 1].kind # "ref"
        BY <1>2, <3>1 DEF Placeholder
      <4>2. QED
        BY <4>1 DEF Meant
    <3>2. CASE n \in Ids
      <4>1. nodes'[n + 1] = nodes[n + 1] /\ Meant(n)
        BY <1>2, <2>2, <3>2 DEF Ids, HygieneInv, TargetsMeant
      <4>2. n < Boundary' <=> n < Boundary
        <5>1. CASE stage = "core"
          BY <1>5, <5>1
        <5>2. CASE stage = "user"
          BY <1>2, <3>2, <5>2 DEF Boundary, Ids
        <5>3. QED
          BY <5>1, <5>2
      <4>3. QED
        BY <2>1, <4>1, <4>2 DEF Meant
    <3>3. QED
      BY <1>2, <3>1, <3>2 DEF Ids
  <2>3. QED
    BY <2>2 DEF TargetsMeant, Ids
<1>9. QED
  BY <1>4, <1>7, <1>8 DEF HygieneInv

(* A reference placed is resolved in the scope of the stage it is placed   *)
(* in.                                                                     *)
LEMMA PlaceKeepsHygiene ==
  ASSUME BuilderInv, HygieneInv, Place
  PROVE  HygieneInv'
<1>1. PICK k, f : Placing(k, f) /\ (k # 1 => \E h : Resumed(k, f, h))
  BY PlaceSays
<1>2. /\ k = Len(frames) /\ k \in Nat /\ k > 0 /\ frames # << >>
      /\ f = frames[k] /\ f.id \in Nat /\ f.element \in Bodies
      /\ stage' = stage /\ order' = order /\ collected' = collected /\ errors' = errors
      /\ Len(nodes) \in Nat /\ Len(nodes') = Len(nodes)
      /\ nodes'[f.id + 1] = NodeFor(f)
      /\ \A i \in 1 .. Len(nodes) : i # f.id + 1 => nodes'[i] = nodes[i]
      /\ stage \in {"user", "core"} /\ at <= Len(Table)
  BY <1>1 DEF Placing
<1>3. k = 1 => /\ frames' = << >>
               /\ rules' = Append(rules, [name |-> Table[at].name, body |-> f.id])
  BY <1>1 DEF Placing
<1>4. rules \in Seq(RuleSet) /\ Len(rules) \in Nat /\ Len(order) \in Nat
  BY DEF BuilderInv, BuilderTypes
<1>5. ASSUME k = 1
      PROVE  /\ Len(rules') = Len(rules) + 1 /\ \A i \in 1 .. Len(rules) : rules'[i] = rules[i]
             /\ rules'[Len(rules) + 1].name = Entry(Len(rules) + 1).name
             /\ rules'[Len(rules) + 1].body = f.id
  <2>1. PICK r : r = [name |-> Table[at].name, body |-> f.id]
    OBVIOUS
  <2>2. \A i \in 1 .. Len(rules) : rules[i] \in RuleSet
    BY <1>4
  <2>3. rules \in Seq(RuleSet \cup {r}) /\ r \in RuleSet \cup {r}
    BY <1>4, SeqMonotonic
  <2>4. rules' = Append(rules, r)
    BY <1>3, <1>5, <2>1
  <2>5. /\ Len(rules') = Len(rules) + 1 /\ \A i \in 1 .. Len(rules) : rules'[i] = rules[i]
        /\ rules'[Len(rules) + 1] = r
    BY <2>3, <2>4, PushStack
  <2>6. Table[at] = Entry(Len(rules) + 1)
    BY <1>2, TableEntry
  <2>7. QED
    BY <2>1, <2>5, <2>6
<1>6. RulesNamed'
  <2>1. \A r : Entry(r)' = Entry(r)
    BY <1>2 DEF Entry
  <2>2. CASE k # 1
    BY <1>1, <2>1, <2>2 DEF Resumed, HygieneInv, RulesNamed
  <2>3. CASE k = 1
    <3>1. ASSUME NEW r \in 1 .. Len(rules') PROVE rules'[r].name = Entry(r)'.name
      <4>1. CASE r \in 1 .. Len(rules)
        BY <1>5, <2>1, <2>3, <4>1 DEF HygieneInv, RulesNamed
      <4>2. CASE r = Len(rules) + 1
        BY <1>5, <2>1, <2>3, <4>2
      <4>3. QED
        BY <1>4, <1>5, <2>3, <4>1, <4>2
    <3>2. QED
      BY <3>1 DEF RulesNamed
  <2>4. QED
    BY <2>2, <2>3
<1>7. Boundary' = Boundary
  <2>1. CASE stage = "user"
    BY <1>2, <2>1 DEF Boundary
  <2>2. CASE stage = "core" /\ k # 1
    <3>1. PICK h : Resumed(k, f, h)
      BY <1>1, <2>2
    <3>2. /\ rules' = rules /\ frames' # << >> /\ frames'[k - 1] = h
          /\ \A i \in 1 .. k - 2 : frames'[i] = frames[i]
          /\ h.id = frames[k - 1].id
      BY <3>1 DEF Resumed
    <3>3. frames'[1].id = frames[1].id
      <4>1. CASE k = 2
        BY <3>2, <4>1
      <4>2. CASE k # 2
        <5>1. 1 \in 1 .. k - 2
          BY <1>2, <2>2, <4>2
        <5>2. QED
          BY <3>2, <5>1
      <4>3. QED
        BY <4>1, <4>2
    <3>4. QED
      BY <1>2, <2>2, <3>2, <3>3 DEF Boundary
  <2>3. CASE stage = "core" /\ k = 1
    <3>1. Len(rules) >= Len(order)
      <4>1. Len(rules) = Len(order) + at - 1 /\ at \in Nat /\ at > 0
        BY <2>3 DEF BuilderInv, BuilderTypes, Progress
      <4>2. QED
        BY <1>4, <4>1
    <3>2. Len(rules') > Len(order)
      BY <1>4, <1>5, <2>3, <3>1
    <3>3. Boundary' = rules'[Len(order) + 1].body
      BY <1>2, <2>3, <3>2 DEF Boundary
    <3>4. CASE Len(rules) > Len(order)
      <4>1. Len(order) + 1 \in 1 .. Len(rules)
        BY <1>4, <3>4
      <4>2. rules'[Len(order) + 1] = rules[Len(order) + 1]
        BY <1>5, <2>3, <4>1
      <4>3. QED
        BY <2>3, <3>3, <3>4, <4>2 DEF Boundary
    <3>5. CASE ~ Len(rules) > Len(order)
      <4>1. Len(rules) = Len(order)
        BY <1>4, <3>1, <3>5
      <4>2. rules'[Len(order) + 1].body = f.id
        BY <1>5, <2>3, <4>1
      <4>3. Boundary = frames[1].id
        BY <1>2, <2>3, <3>5 DEF Boundary
      <4>4. QED
        BY <1>2, <2>3, <3>3, <4>2, <4>3
    <3>6. QED
      BY <3>4, <3>5
  <2>4. QED
    BY <1>2, <2>1, <2>2, <2>3
<1>8. CoreFrames'
  <2>1. CASE k = 1
    BY <1>3, <2>1 DEF CoreFrames
  <2>2. CASE k # 1
    <3>1. PICK h : Resumed(k, f, h)
      BY <1>1, <2>2
    <3>2. /\ Len(frames') = k - 1 /\ frames'[k - 1] = h /\ k - 1 \in 1 .. k
          /\ \A i \in 1 .. k - 2 : frames'[i] = frames[i]
          /\ h.id = frames[k - 1].id
      BY <3>1 DEF Resumed
    <3>3. ASSUME NEW i \in 1 .. k - 1 PROVE frames'[i].id = frames[i].id
      <4>1. i = k - 1 \/ i \in 1 .. k - 2
        BY <1>2, <3>2
      <4>2. QED
        BY <3>2, <4>1
    <3>4. ASSUME NEW i \in 1 .. Len(frames'), stage = "core" PROVE frames'[i].id >= Boundary'
      <4>1. i \in 1 .. k - 1 /\ i \in 1 .. Len(frames)
        BY <1>2, <3>2
      <4>2. QED
        BY <1>7, <3>3, <3>4, <4>1 DEF HygieneInv, CoreFrames
    <3>5. QED
      BY <1>2, <3>4 DEF CoreFrames
  <2>3. QED
    BY <2>1, <2>2
<1>9. TargetsMeant'
  <2>1. \A t : (UserMeans(t) => UserMeans(t)') /\ (CoreMeans(t) => CoreMeans(t)')
    BY <1>2 DEF UserMeans, CoreMeans, Key
  <2>2. ASSUME errors = << >>, NEW n \in Ids PROVE Meant(n)'
    <3>1. CASE n # f.id
      <4>1. nodes'[n + 1] = nodes[n + 1] /\ Meant(n)
        BY <1>2, <2>2, <3>1 DEF Ids, HygieneInv, TargetsMeant
      <4>2. QED
        BY <1>7, <2>1, <4>1 DEF Meant
    <3>2. CASE n = f.id
      <4>1. k \in 1 .. Len(frames) /\ GoodFrame(f) /\ Unblamed(f.element)
        BY <1>2, <2>2 DEF BuilderInv, Activations, GoodFrame
      <4>2. PICK e : e = f.element
        OBVIOUS
      <4>3. ElementShape(e)
        BY <1>2, <4>2, BodyFacts
      <4>4. CASE e.kind # "ref"
        <5>1. FieldsOf(e.kind) \subseteq DOMAIN e
          BY <4>3 DEF ElementShape
        <5>2. "kind" \in DOMAIN e
          BY <5>1 DEF FieldsOf
        <5>3. NodeFor(f).kind = e.kind
          BY <4>2, <4>4, <5>2 DEF NodeFor
        <5>4. QED
          BY <1>2, <3>2, <4>4, <5>3 DEF Meant
      <4>5. CASE e.kind = "ref"
        <5>1. FieldsOf(e.kind) \subseteq DOMAIN e
          BY <4>3 DEF ElementShape
        <5>2. "target" \in DOMAIN e
          BY <4>5, <5>1 DEF FieldsOf
        <5>3. NodeFor(f).target = Resolve(e.target)
          BY <4>2, <4>5, <5>2 DEF NodeFor
        <5>4. Resolve(e.target) \in 0 .. Total - 1
          BY <4>1, <4>2, <4>5 DEF Unblamed
        <5>5. /\ stage = "user" => UserMeans(Resolve(e.target))
              /\ stage = "core" => CoreMeans(Resolve(e.target))
          BY <5>4, ResolveMeans DEF BuilderInv
        <5>6. IF n < Boundary THEN UserMeans(Resolve(e.target)) ELSE CoreMeans(Resolve(e.target))
          <6>1. CASE stage = "user"
            <7>1. n < Boundary
              BY <2>2, <1>2, <6>1 DEF Boundary, Ids
            <7>2. QED
              BY <5>5, <6>1, <7>1
          <6>2. CASE stage = "core"
            <7>1. f.id >= Boundary
              BY <1>2, <4>1, <6>2 DEF HygieneInv, CoreFrames
            <7>2. ~ n < Boundary
              BY <1>2, <3>2, <7>1, BoundaryFacts
            <7>3. QED
              BY <5>5, <6>2, <7>2
          <6>3. QED
            BY <1>2, <6>1, <6>2
        <5>7. PICK t : t = Resolve(e.target)
          OBVIOUS
        <5>8. nodes'[n + 1].target = t
          BY <1>2, <3>2, <5>3, <5>7
        <5>9. IF n < Boundary' THEN UserMeans(t)' ELSE CoreMeans(t)'
          BY <1>7, <2>1, <5>6, <5>7
        <5>10. QED
          BY <5>8, <5>9 DEF Meant
      <4>6. QED
        BY <4>4, <4>5
    <3>3. QED
      BY <3>1, <3>2
  <2>3. QED
    BY <1>2, <2>2 DEF TargetsMeant, Ids
<1>10. QED
  BY <1>6, <1>8, <1>9 DEF HygieneInv

(* Every step keeps what names mean.                                       *)
LEMMA HygieneStep ==
  ASSUME BuilderInv, HygieneInv, [Next]_vars
  PROVE  HygieneInv'
<1>1. CASE Merge
  <2>1. /\ stage = "merge" /\ stage' = stage /\ frames' = frames /\ nodes' = nodes /\ rules' = rules
    BY <1>1, MergeCases
  <2>2. frames = << >> /\ nodes = << >> /\ rules = << >>
    BY <2>1 DEF BuilderInv, Progress
  <2>3. QED
    BY <2>1, <2>2 DEF HygieneInv, RulesNamed, CoreFrames, TargetsMeant, Ids
<1>2. CASE BeginRule
  <2>1. stage \in {"user", "core"} /\ at <= Len(Table) /\ Reserve(Table[at].body)
    BY <1>2 DEF BeginRule
  <2>2. Table[at].body \in Bodies
    <3>1. Table \in Seq([name : DOMAIN KeyOf, body : Bodies]) /\ at \in Nat \ {0}
      BY TableFacts DEF BuilderInv, BuilderTypes
    <3>2. at \in 1 .. Len(Table)
      BY <2>1, <3>1
    <3>3. Table[at] \in [name : DOMAIN KeyOf, body : Bodies]
      BY <3>1, <3>2, ElementOfSeq
    <3>4. QED
      BY <3>3
  <2>3. QED
    BY <2>1, <2>2, ReserveKeepsHygiene
<1>3. CASE LowerPart
  <2>1. /\ frames # << >> /\ Len(Top.parts) < Len(Top.element.parts)
        /\ Reserve(Top.element.parts[Len(Top.parts) + 1])
    BY <1>3 DEF LowerPart
  <2>2. stage \in {"user", "core"}
    BY <2>1 DEF BuilderInv, Progress
  <2>3. Top \in Frames
    BY <2>1, PopStack DEF BuilderInv, BuilderTypes, Top, Last
  <2>4. Top.element \in Bodies /\ Len(Top.parts) \in Nat
    BY <2>3 DEF Frames
  <2>5. Len(Top.parts) + 1 \in 1 .. Len(Top.element.parts)
    BY <2>1, <2>4, BodyFacts
  <2>6. Top.element.parts[Len(Top.parts) + 1] \in Bodies
    BY <2>4, <2>5, BodyFacts
  <2>7. QED
    BY <2>1, <2>2, <2>6, ReserveKeepsHygiene
<1>4. CASE Place
  BY <1>4, PlaceKeepsHygiene
<1>5. CASE Turn
  <2>1. /\ frames = << >>
        /\ order' = order /\ collected' = collected
        /\ frames' = frames /\ nodes' = nodes /\ rules' = rules /\ errors' = errors
    BY <1>5 DEF Turn, merging, lowering
  <2>2. Boundary' = Boundary
    <3>1. CASE stage = "merge"
      BY <1>5, <2>1, <3>1 DEF Turn, Boundary
    <3>2. CASE stage = "user"
      <4>1. stage' = "core" /\ at > Len(Table)
        BY <1>5, <3>2 DEF Turn
      <4>2. ~ Len(rules) > Len(order)
        <5>1. Len(rules) = at - 1 /\ at <= Len(order) + 1 /\ at \in Nat /\ Len(order) \in Nat
          BY <3>2 DEF BuilderInv, BuilderTypes, Progress
        <5>2. QED
          BY <5>1
      <4>3. QED
        BY <2>1, <3>2, <4>1, <4>2 DEF Boundary
    <3>3. CASE stage = "core"
      <4>1. stage' \notin {"merge", "user"}
        BY <1>5, <3>3 DEF Turn
      <4>2. QED
        BY <2>1, <3>3, <4>1 DEF Boundary
    <3>4. QED
      BY <1>5, <3>1, <3>2, <3>3 DEF Turn
  <2>3. RulesNamed' /\ CoreFrames'
    BY <2>1 DEF HygieneInv, RulesNamed, CoreFrames, Entry
  <2>4. TargetsMeant'
    BY <2>1, <2>2 DEF HygieneInv, TargetsMeant, Meant, UserMeans, CoreMeans, Key, Ids
  <2>5. QED
    BY <2>3, <2>4 DEF HygieneInv
<1>6. CASE UNCHANGED vars
  BY <1>6 DEF vars, merging, lowering, HygieneInv, RulesNamed, CoreFrames, TargetsMeant, Meant,
              UserMeans, CoreMeans, Key, Ids, Entry, Boundary
<1>7. QED
  BY <1>1, <1>2, <1>3, <1>4, <1>5, <1>6 DEF Next, LowerRules

(* At the start there is nothing to mean.                                  *)
LEMMA HygieneStart == Init => HygieneInv
  BY DEF Init, HygieneInv, RulesNamed, CoreFrames, TargetsMeant, Ids

(* When all is merged there is a rule for every founder.                   *)
LEMMA MergedAll ==
  ASSUME BuilderInv, MergedInv, stage # "merge"
  PROVE  /\ \A S \in SUBSET (1 .. Len(source)) : Met(S) = S
         /\ \E fs : /\ IsList(fs, Founders) /\ Len(fs) = Len(order)
                    /\ \A r \in 1 .. Len(order) : Says(r, fs[r])
<1>1. Len(source) \in Nat
  BY DEF BuilderInv, BuilderTypes
<1>2. \A S \in SUBSET (1 .. Len(source)) : Met(S) = S
  <2>1. Past = Len(source)
    BY DEF Past
  <2>2. ASSUME NEW S \in SUBSET (1 .. Len(source)) PROVE \A i \in S : i <= Past
    <3>1. \A i \in 1 .. Len(source) : i <= Past
      BY <1>1, <2>1
    <3>2. QED
      BY <3>1
  <2>3. QED
    BY <2>2 DEF Met
<1>3. Met(Founders) = Founders
  BY <1>2, PlacesAreNumbers DEF BuilderInv
<1>4. QED
  BY <1>2, <1>3 DEF MergedInv

(* What the invariants say of references at the verdict is what is asked:  *)
(* within a core rule is behind the boundary.                              *)
LEMMA InvGivesHygienic == BuilderInv /\ MergedInv /\ HygieneInv => Hygienic
<1> SUFFICES ASSUME BuilderInv, MergedInv, HygieneInv, stage = "sound"
             PROVE  Hygienic
  BY DEF Hygienic
<1>1. errors = << >> /\ frames = << >> /\ Len(rules) = Total
  BY DEF BuilderInv, Progress
<1>2. PICK fs : /\ IsList(fs, Founders) /\ Len(fs) = Len(order)
                /\ \A r \in 1 .. Len(order) : Says(r, fs[r])
  BY MergedAll
<1>3. PICK count : count = Len(order)
  OBVIOUS
<1>4. Founders \in SUBSET Nat
  BY PlacesAreNumbers DEF BuilderInv
<1>5. Cardinality(Founders) = count
  BY <1>2, <1>3, <1>4, ListIsAscending
<1>6. count \in Nat /\ Len(CoreTable) \in Nat /\ Len(rules) = count + Len(CoreTable)
  BY <1>1, <1>3, BuilderAssumption DEF Total, BuilderInv, BuilderTypes
<1>7. /\ \A r \in 1 .. count : fs[r] \in Founders /\ Key(source[fs[r]]) = order[r]
      /\ \A i \in Founders : \E r \in 1 .. count : fs[r] = i
  <2>1. /\ \A r \in 1 .. Len(fs) : fs[r] \in Founders
        /\ \A i \in Founders : \E r \in 1 .. Len(fs) : fs[r] = i
    BY <1>2, <1>4, ListFacts
  <2>2. \A r \in 1 .. Len(order) : Key(source[fs[r]]) = order[r]
    BY <1>2 DEF Says
  <2>3. QED
    BY <1>2, <1>3, <2>1, <2>2
<1>8. Len(nodes) \in Nat /\ Boundary = IF CoreTable # << >> THEN rules[count + 1].body ELSE Len(nodes)
  <2>1. CoreTable # << >> <=> Len(CoreTable) > 0
    BY BuilderAssumption
  <2>2. QED
    BY <1>1, <1>3, <1>6, <2>1, BoundaryFacts DEF Boundary
<1>9. ASSUME NEW n \in Ids, nodes[n + 1].kind = "ref", NEW target, target = nodes[n + 1].target + 1,
             NEW core, core = (CoreTable # << >> /\ n >= rules[count + 1].body)
      PROVE  target > count <=> \/ core
                                \/ \A i \in Founders : KeyOf[source[i].name] # KeyOf[rules[target].name]
  <2>1. n \in Nat /\ n < Len(nodes) /\ Boundary \in Nat
    BY <1>8, <1>9, BoundaryFacts DEF Ids
  <2>2. core <=> ~ n < Boundary
    <3>1. CASE CoreTable = << >>
      BY <1>8, <1>9, <2>1, <3>1
    <3>2. CASE CoreTable # << >>
      <4>1. PICK b : b = Boundary
        OBVIOUS
      <4>2. b = rules[count + 1].body /\ b \in Nat
        BY <1>8, <2>1, <3>2, <4>1
      <4>3. core <=> n >= b
        BY <1>9, <3>2, <4>2
      <4>4. QED
        BY <2>1, <4>1, <4>2, <4>3
    <3>3. QED
      BY <3>1, <3>2
  <2>3. PICK t : t = nodes[n + 1].target
    OBVIOUS
  <2>4. IF n < Boundary THEN UserMeans(t) ELSE CoreMeans(t)
    BY <1>1, <1>9, <2>3 DEF HygieneInv, TargetsMeant, Meant
  <2>5. t \in 0 .. Total - 1
    <3>1. Growing!NodeShape(nodes[n + 1])
      BY <1>1, <1>9 DEF BuilderInv, OthersPlaced, IsPlaced
    <3>2. QED
      BY <1>9, <2>3, <3>1 DEF Growing!NodeShape
  <2>6. target \in 1 .. Len(rules) /\ target = t + 1 /\ t \in Nat
    BY <1>1, <1>3, <1>6, <1>9, <2>3, <2>5 DEF Total
  <2>7. KeyOf[rules[target].name] = KeyOf[Entry(target).name]
    BY <2>6 DEF HygieneInv, RulesNamed
  <2>8. CASE core
    BY <1>3, <1>6, <2>2, <2>4, <2>6, <2>8 DEF CoreMeans
  <2>9. CASE ~core /\ target <= count
    <3>1. target \in 1 .. count
      BY <1>6, <2>6, <2>9
    <3>2. KeyOf[rules[target].name] = order[target]
      BY <1>3, <2>7, <3>1, KeysKept
    <3>3. fs[target] \in Founders /\ KeyOf[source[fs[target]].name] = order[target]
      BY <1>7, <3>1 DEF Key
    <3>4. ~ target > count
      BY <1>6, <2>6, <2>9
    <3>5. QED
      BY <2>9, <3>2, <3>3, <3>4
  <2>10. CASE ~core /\ target > count
    <3>1. PICK c \in 1 .. Len(CoreTable) :
             target = count + c /\ \A i \in 1 .. count : order[i] # Key(CoreTable[c])
      BY <1>3, <1>6, <2>2, <2>4, <2>6, <2>10 DEF UserMeans
    <3>2. ~ target <= count /\ target - count = c
      BY <1>6, <3>1
    <3>3. KeyOf[rules[target].name] = Key(CoreTable[c])
      BY <1>3, <2>7, <3>2 DEF Entry, Key
    <3>4. \A i \in Founders : KeyOf[source[i].name] # KeyOf[rules[target].name]
      BY <1>7, <3>1, <3>3 DEF Key
    <3>5. QED
      BY <2>10, <3>4
  <2>11. target <= count \/ target > count
    BY <1>6, <2>6
  <2>12. QED
    BY <2>8, <2>9, <2>10, <2>11
<1>10. QED
  BY <1>5, <1>9 DEF Hygienic

(* Of every grammar built without a complaint and of every reference in it:*)
(* one inside a core rule means a core rule, whatever the user defines,    *)
(* D33; one outside means the rule of the user of that name, and a core    *)
(* rule only if there is none.                                             *)
THEOREM NamesMeanWhatTheyShould == Spec => []Hygienic
<1>1. Init => BuilderInv /\ MergedInv /\ HygieneInv
  BY BuilderStart, MergedStart, HygieneStart
<1>2. BuilderInv /\ MergedInv /\ HygieneInv /\ [Next]_vars => (BuilderInv /\ MergedInv /\ HygieneInv)'
  <2>1. ASSUME BuilderInv, MergedInv, HygieneInv, [Next]_vars
        PROVE  BuilderInv' /\ MergedInv' /\ HygieneInv'
    BY <2>1, BuilderStep, MergedStep, HygieneStep
  <2>2. QED
    BY <2>1
<1>3. BuilderInv /\ MergedInv /\ HygieneInv => Hygienic
  BY InvGivesHygienic
<1>4. QED
  BY <1>1, <1>2, <1>3, PTL DEF Spec

-----------------------------------------------------------------------------
(* What nodes are lowered from.                                            *)

(* The node `d` is the element `e` lowered, when `el` says of every node   *)
(* what it is lowered from.                                                *)
Same(d, e, el) ==
  /\ d.kind = e.kind /\ Own(d) = Own(e)
  /\ d.kind = "ref" => d.target \in 0 .. Total - 1 /\ KeyOf[Entry(d.target + 1).name] = KeyOf[e.target]
  /\ Len(d.parts) = Len(e.parts)
  /\ \A i \in DOMAIN d.parts : el[d.parts[i]] = e.parts[i]

(* A node is being lowered.                                                *)
OnStack(n) == \E i \in 1 .. Len(frames) : frames[i].id = n

(* The activation lowers its element, and did so with the parts before.    *)
Lowers(f, el) ==
  /\ el[f.id] = f.element
  /\ \A j \in 1 .. Len(f.parts) : el[f.parts[j]] = f.element.parts[j]

(* The elements the nodes are lowered from.                                *)
Reads(el) ==
  /\ el \in [Ids -> Bodies]
  /\ \A n \in Ids : OnStack(n) \/ Same(nodes[n + 1], el[n], el)
  /\ \A i \in 1 .. Len(frames) : Lowers(frames[i], el)
  /\ \A i \in 1 .. Len(frames) - 1 :
       frames[i + 1].element = frames[i].element.parts[Len(frames[i].parts) + 1]
  /\ frames # << >> => frames[1].element = Entry(Len(rules) + 1).body
  /\ \A r \in 1 .. Len(rules) : el[rules[r].body] = Entry(r).body

ReadInv == errors = << >> => \E el : Reads(el)

(* What is placed is the element of its activation, lowered.               *)
LEMMA NodeForReads ==
  ASSUME BuilderInv, MergedInv, NEW f \in Frames, NEW el, Unblamed(f.element), Lowers(f, el),
         Len(f.parts) = Len(f.element.parts)
  PROVE  Same(NodeFor(f), f.element, el)
<1>1. PICK e : e = f.element
  OBVIOUS
<1>2. e \in Bodies /\ f.parts \in Seq(Nat)
  BY <1>1 DEF Frames
<1>3. ElementShape(e) /\ e.parts \in Seq(Elements)
  BY <1>2, BodyFacts
<1>4. FieldsOf(e.kind) \subseteq DOMAIN e /\ "kind" \in DOMAIN e /\ "parts" \in DOMAIN e
  BY <1>3 DEF ElementShape, FieldsOf
<1>5. PICK d : d = NodeFor(f)
  OBVIOUS
<1>6. CASE e.kind = "ref"
  <2>1. "target" \in DOMAIN e /\ e.parts = << >>
    BY <1>3, <1>4, <1>6 DEF FieldsOf, ElementShape
  <2>2. PICK t : t = Resolve(e.target)
    OBVIOUS
  <2>3. d = [e EXCEPT !.target = t]
    BY <1>1, <1>5, <1>6, <2>2 DEF NodeFor
  <2>4. d.kind = "ref" /\ d.target = t /\ d.parts = << >>
    BY <1>4, <1>6, <2>1, <2>3
  <2>5. Own(d) = Own(e)
    <3>1. Own(e) = [e EXCEPT !.target = None]
      BY <1>6 DEF Own
    <3>2. Own(d) = [d EXCEPT !.target = None]
      BY <2>4 DEF Own
    <3>3. [d EXCEPT !.target = None] = [e EXCEPT !.target = None]
      BY <2>3
    <3>4. QED
      BY <3>1, <3>2, <3>3
  <2>6. t \in 0 .. Total - 1
    BY <1>1, <1>6, <2>2 DEF Unblamed
  <2>7. KeyOf[Entry(t + 1).name] = KeyOf[e.target]
    <3>1. \/ KeyOf[Entry(t + 1).name] = KeyOf[e.target]
          \/ \E i \in 1 .. Len(order) : t + 1 = i /\ order[i] = KeyOf[e.target]
      BY <2>2, <2>6, ResolveMeans DEF BuilderInv
    <3>2. ASSUME NEW i \in 1 .. Len(order), t + 1 = i, order[i] = KeyOf[e.target]
          PROVE  KeyOf[Entry(t + 1).name] = KeyOf[e.target]
      BY <3>2, KeysKept
    <3>3. QED
      BY <3>1, <3>2
  <2>8. Same(d, e, el)
    BY <1>6, <2>1, <2>4, <2>5, <2>6, <2>7 DEF Same
  <2>9. QED
    BY <1>1, <1>5, <2>8
<1>7. CASE e.kind # "ref"
  <2>1. d = [e EXCEPT !.parts = f.parts]
    BY <1>1, <1>5, <1>7 DEF NodeFor
  <2>2. d.parts = f.parts /\ d.kind = e.kind
    BY <1>4, <2>1
  <2>3. Own(d) = Own(e)
    <3>1. Own(e) = [e EXCEPT !.parts = << >>]
      BY <1>7 DEF Own
    <3>2. Own(d) = [d EXCEPT !.parts = << >>]
      BY <1>7, <2>2 DEF Own
    <3>3. [d EXCEPT !.parts = << >>] = [e EXCEPT !.parts = << >>]
      BY <2>1
    <3>4. QED
      BY <3>1, <3>2, <3>3
  <2>4. \A i \in DOMAIN d.parts : el[d.parts[i]] = e.parts[i]
    BY <1>1, <1>2, <2>2 DEF Lowers
  <2>5. Same(d, e, el)
    BY <1>1, <1>7, <2>2, <2>3, <2>4 DEF Same
  <2>6. QED
    BY <1>1, <1>5, <2>5
<1>8. QED
  BY <1>6, <1>7

(* A node that is no activation's is placed, and its parts are there.      *)
LEMMA PlacedParts ==
  ASSUME BuilderInv, errors = << >>, NEW n \in Ids, ~OnStack(n)
  PROVE  \A i \in DOMAIN nodes[n + 1].parts : nodes[n + 1].parts[i] \in Ids
<1>1. IsPlaced(n)
  BY DEF BuilderInv, OthersPlaced, OnStack
<1>2. PICK p : p = nodes[n + 1].parts
  OBVIOUS
<1>3. p \in Seq(Nat) /\ \A i \in DOMAIN p : p[i] < Len(nodes)
  BY <1>1, <1>2 DEF IsPlaced, After, Growing!NodeShape
<1>4. Len(nodes) \in Nat
  BY BoundaryFacts
<1>5. \A i \in DOMAIN p : p[i] \in Nat
  BY <1>3
<1>6. QED
  BY <1>2, <1>3, <1>4, <1>5 DEF Ids

(* Lowering does not touch the rules merged.                               *)
LEMMA EntryStays ==
  ASSUME order' = order, collected' = collected
  PROVE  /\ \A r : Entry(r)' = Entry(r)
         /\ \A d, e, el : Same(d, e, el) => Same(d, e, el)'
<1>1. \A r : Entry(r)' = Entry(r)
  BY DEF Entry
<1>2. Total' = Total
  BY DEF Total
<1>3. QED
  BY <1>1, <1>2 DEF Same, Own

(* A node reserved is lowered from the element its activation is about.    *)
LEMMA ReserveKeepsReads ==
  ASSUME BuilderInv, NEW el, Reads(el), NEW e \in Bodies, Reserve(e), errors' = << >>,
         frames = << >> => e = Entry(Len(rules) + 1).body,
         frames # << >> => e = Top.element.parts[Len(Top.parts) + 1]
  PROVE  \E el2 : Reads(el2)'
<1>1. PICK f : Reserved(e, f)
  BY ReserveSays DEF BuilderInv
<1>2. /\ order' = order /\ collected' = collected /\ rules' = rules
      /\ Len(nodes) \in Nat /\ Len(nodes') = Len(nodes) + 1
      /\ \A i \in 1 .. Len(nodes) : nodes'[i] = nodes[i]
      /\ errors = << >>
  BY <1>1 DEF Reserved
<1>3. /\ frames \in Seq(Frames) /\ Len(frames) \in Nat /\ Len(frames') = Len(frames) + 1
      /\ frames' # << >> /\ frames'[Len(frames) + 1] = f /\ f.id = Len(nodes)
      /\ f.element = e /\ f.parts = << >>
      /\ \A i \in 1 .. Len(frames) : frames'[i] = frames[i]
  BY <1>1 DEF Reserved
<1>4. PICK el2 : el2 = [n \in 0 .. Len(nodes) |-> IF n = Len(nodes) THEN e ELSE el[n]]
  OBVIOUS
<1>5. /\ \A n \in Ids : el2[n] = el[n] /\ el[n] \in Bodies
      /\ el2[Len(nodes)] = e
      /\ Ids' = Ids \cup {Len(nodes)} /\ Ids' = 0 .. Len(nodes)
  <2>1. Ids' = Ids \cup {Len(nodes)} /\ Ids' = 0 .. Len(nodes)
    BY <1>2 DEF Ids
  <2>2. \A n \in Ids : n \in 0 .. Len(nodes) /\ n # Len(nodes)
    BY <1>2 DEF Ids
  <2>3. \A n \in Ids : el2[n] = el[n]
    BY <1>4, <2>2
  <2>4. el2[Len(nodes)] = e
    BY <1>2, <1>4
  <2>5. \A n \in Ids : el[n] \in Bodies
    BY DEF Reads
  <2>6. QED
    BY <2>1, <2>3, <2>4, <2>5
<1>6. el2 \in [Ids' -> Bodies]
  BY <1>2, <1>4, <1>5 DEF Ids
<1>7. (\A r : Entry(r)' = Entry(r)) /\ \A d, x, l : Same(d, x, l) => Same(d, x, l)'
  BY <1>2, EntryStays
<1>8. \A n \in Ids' : OnStack(n)' \/ Same(nodes[n + 1], el2[n], el2)'
  <2>1. ASSUME NEW n \in Ids' PROVE OnStack(n)' \/ Same(nodes'[n + 1], el2[n], el2)
    <3>1. CASE n = Len(nodes)
      <4>1. frames'[Len(frames) + 1].id = n /\ Len(frames) + 1 \in 1 .. Len(frames')
        BY <1>3, <3>1
      <4>2. QED
        BY <4>1 DEF OnStack
    <3>2. CASE n \in Ids /\ OnStack(n)
      <4>1. PICK i \in 1 .. Len(frames) : frames[i].id = n
        BY <3>2 DEF OnStack
      <4>2. i \in 1 .. Len(frames') /\ frames'[i].id = n
        BY <1>3, <4>1
      <4>3. QED
        BY <4>2 DEF OnStack
    <3>3. CASE n \in Ids /\ ~OnStack(n)
      <4>1. Same(nodes[n + 1], el[n], el)
        BY <3>3 DEF Reads
      <4>2. \A i \in DOMAIN nodes[n + 1].parts : nodes[n + 1].parts[i] \in Ids
        BY <1>2, <3>3, PlacedParts
      <4>3. el2[n] = el[n] /\ \A i \in DOMAIN nodes[n + 1].parts :
                                el2[nodes[n + 1].parts[i]] = el[nodes[n + 1].parts[i]]
        BY <1>5, <3>3, <4>2
      <4>4. nodes'[n + 1] = nodes[n + 1]
        BY <1>2, <3>3 DEF Ids
      <4>5. Same(nodes[n + 1], el2[n], el2)
        BY <4>1, <4>3 DEF Same
      <4>6. QED
        BY <4>4, <4>5
    <3>4. QED
      BY <1>5, <3>1, <3>2, <3>3
  <2>2. ASSUME NEW n \in Ids', Same(nodes'[n + 1], el2[n], el2) PROVE Same(nodes[n + 1], el2[n], el2)'
    <3>1. PICK d : d = nodes'[n + 1]
      OBVIOUS
    <3>2. Same(d, el2[n], el2)'
      BY <1>7, <2>2, <3>1
    <3>3. QED
      BY <3>1, <3>2
  <2>3. QED
    BY <2>1, <2>2
<1>9. \A i \in 1 .. Len(frames) : /\ frames[i].id \in Ids
                                  /\ \A j \in 1 .. Len(frames[i].parts) : frames[i].parts[j] \in Ids
  <2> SUFFICES ASSUME NEW i \in 1 .. Len(frames), NEW g, g = frames[i]
               PROVE  g.id \in Ids /\ \A j \in 1 .. Len(g.parts) : g.parts[j] \in Ids
    OBVIOUS
  <2>1. g \in Frames /\ GoodFrame(g)
    BY <1>3 DEF BuilderInv, Activations
  <2>2. g.id \in Nat /\ g.parts \in Seq(Nat) /\ g.id < Len(nodes) /\ After(g.parts, g.id)
    BY <2>1 DEF Frames, GoodFrame
  <2>3. \A j \in 1 .. Len(g.parts) : g.parts[j] \in Nat /\ g.parts[j] < Len(nodes)
    BY <2>2 DEF After
  <2>4. QED
    BY <1>2, <2>2, <2>3 DEF Ids
<1>10. ASSUME NEW i \in 1 .. Len(frames') PROVE Lowers(frames'[i], el2)
  <2>1. CASE i \in 1 .. Len(frames)
    <3>1. Lowers(frames[i], el)
      BY <2>1 DEF Reads
    <3>2. Lowers(frames[i], el2)
      BY <1>5, <1>9, <2>1, <3>1 DEF Lowers
    <3>3. QED
      BY <1>3, <2>1, <3>2
  <2>2. CASE i = Len(frames) + 1
    <3>1. Len(f.parts) = 0
      BY <1>3
    <3>2. Lowers(f, el2)
      BY <1>3, <1>5, <3>1 DEF Lowers
    <3>3. QED
      BY <1>3, <2>2, <3>2
  <2>3. QED
    BY <1>3, <2>1, <2>2
<1>11. ASSUME NEW i \in 1 .. Len(frames') - 1
       PROVE  frames'[i + 1].element = frames'[i].element.parts[Len(frames'[i].parts) + 1]
  <2>1. i \in 1 .. Len(frames) /\ frames'[i] = frames[i]
    BY <1>3
  <2>2. CASE i < Len(frames)
    <3>1. i \in 1 .. Len(frames) - 1 /\ i + 1 \in 1 .. Len(frames)
      BY <1>3, <2>1, <2>2
    <3>2. frames'[i + 1] = frames[i + 1]
      BY <1>3, <3>1
    <3>3. QED
      BY <2>1, <3>1, <3>2 DEF Reads
  <2>3. CASE i = Len(frames)
    <3>1. frames # << >> /\ Top = frames[i]
      BY <1>3, <2>1, <2>3 DEF Top, Last
    <3>2. QED
      BY <1>3, <2>1, <2>3, <3>1
  <2>4. QED
    BY <1>3, <2>1, <2>2, <2>3
<1>12. frames'[1].element = Entry(Len(rules) + 1)'.body
  <2>1. Len(rules') = Len(rules)
    BY <1>2
  <2>2. PICK r : r = Len(rules) + 1
    OBVIOUS
  <2>3. Entry(Len(rules) + 1)' = Entry(r)
    BY <1>2, <2>2 DEF Entry
  <2>4. CASE frames = << >>
    BY <1>3, <2>2, <2>3, <2>4
  <2>5. CASE frames # << >>
    <3>1. 1 \in 1 .. Len(frames)
      BY <1>3, <2>5
    <3>2. QED
      BY <1>3, <2>2, <2>3, <2>5, <3>1 DEF Reads
  <2>6. QED
    BY <2>4, <2>5
<1>13. \A r \in 1 .. Len(rules') : el2[rules'[r].body] = Entry(r)'.body
  <2>1. ASSUME NEW r \in 1 .. Len(rules) PROVE rules[r].body \in Ids
    <3>1. rules \in Seq(RuleSet) /\ rules[r].body < Len(nodes)
      BY DEF BuilderInv, BuilderTypes, Rooted
    <3>2. rules[r] \in RuleSet
      BY <3>1
    <3>3. rules[r].body \in Nat
      BY <3>2 DEF RuleSet
    <3>4. QED
      BY <1>2, <3>1, <3>3 DEF Ids
  <2>2. \A r \in 1 .. Len(rules) : el[rules[r].body] = Entry(r).body
    BY DEF Reads
  <2>3. QED
    BY <1>2, <1>5, <1>7, <2>1, <2>2
<1>14. Reads(el2)'
  BY <1>6, <1>8, <1>10, <1>11, <1>12, <1>13 DEF Reads, Lowers
<1>15. QED
  BY <1>14

(* A node placed is its element lowered, and the next part of the one      *)
(* below.                                                                  *)
LEMMA PlaceKeepsReads ==
  ASSUME BuilderInv, MergedInv, NEW el, Reads(el), Place, errors = << >>
  PROVE  Reads(el)'
<1>1. PICK k, f : Placing(k, f) /\ (k # 1 => \E h : Resumed(k, f, h))
  BY PlaceSays
<1>2. /\ k = Len(frames) /\ k \in Nat /\ k > 0 /\ frames # << >>
      /\ f = frames[k] /\ f.id \in Nat /\ f \in Frames /\ f.element \in Bodies
      /\ Len(f.parts) = Len(f.element.parts)
      /\ \A i \in 1 .. k : frames[i] \in Frames
      /\ order' = order /\ collected' = collected
      /\ Len(nodes) \in Nat /\ Len(nodes') = Len(nodes)
      /\ nodes'[f.id + 1] = NodeFor(f)
      /\ \A i \in 1 .. Len(nodes) : i # f.id + 1 => nodes'[i] = nodes[i]
      /\ stage \in {"user", "core"} /\ at <= Len(Table)
  BY <1>1 DEF Placing
<1>3. /\ k \in 1 .. Len(frames) /\ 1 \in 1 .. Len(frames) /\ Ids' = Ids
      /\ Lowers(f, el) /\ GoodFrame(f) /\ Unblamed(f.element)
  BY <1>2 DEF Ids, Reads, BuilderInv, Activations, GoodFrame
<1>4. (\A r : Entry(r)' = Entry(r)) /\ \A d, x, l : Same(d, x, l) => Same(d, x, l)'
  BY <1>2, EntryStays
<1>5. ASSUME NEW n \in Ids, n = f.id \/ ~OnStack(n) PROVE Same(nodes[n + 1], el[n], el)'
  <2>1. PICK d : d = nodes'[n + 1]
    OBVIOUS
  <2>2. CASE n = f.id
    <3>1. Same(NodeFor(f), f.element, el)
      BY <1>2, <1>3, NodeForReads
    <3>2. el[n] = f.element
      BY <1>3, <2>2 DEF Lowers
    <3>3. Same(d, el[n], el)
      BY <1>2, <2>1, <2>2, <3>1, <3>2
    <3>4. Same(d, el[n], el)'
      BY <1>4, <3>3
    <3>5. QED
      BY <2>1, <3>4
  <2>3. CASE n # f.id
    <3>1. Same(nodes[n + 1], el[n], el)
      BY <1>5, <2>3 DEF Reads
    <3>2. d = nodes[n + 1]
      BY <1>2, <2>1, <2>3 DEF Ids
    <3>3. Same(d, el[n], el)'
      BY <1>4, <3>1, <3>2
    <3>4. QED
      BY <2>1, <3>3
  <2>4. QED
    BY <2>2, <2>3
<1>6. CASE k = 1
  <2>1. PICK r : r = [name |-> Table[at].name, body |-> f.id]
    OBVIOUS
  <2>2. frames' = << >> /\ rules' = Append(rules, r)
    BY <1>1, <1>6, <2>1 DEF Placing
  <2>3. rules \in Seq(RuleSet) /\ Len(rules) \in Nat
    BY DEF BuilderInv, BuilderTypes
  <2>4. /\ Len(rules') = Len(rules) + 1 /\ \A i \in 1 .. Len(rules) : rules'[i] = rules[i]
        /\ rules'[Len(rules) + 1] = r
    <3>1. rules \in Seq(RuleSet \cup {r}) /\ r \in RuleSet \cup {r}
      BY <2>3, SeqMonotonic
    <3>2. QED
      BY <2>2, <3>1, PushStack
  <2>5. ASSUME NEW q \in 1 .. Len(rules') PROVE el[rules'[q].body] = Entry(q)'.body
    <3>1. CASE q \in 1 .. Len(rules)
      BY <1>4, <2>4, <3>1 DEF Reads
    <3>2. CASE q = Len(rules) + 1
      <4>1. rules'[q].body = f.id
        BY <2>1, <2>4, <3>2
      <4>2. el[f.id] = f.element /\ f = frames[1]
        BY <1>2, <1>3, <1>6 DEF Lowers
      <4>3. frames[1].element = Entry(q).body
        BY <1>2, <3>2 DEF Reads
      <4>4. QED
        BY <1>4, <4>1, <4>2, <4>3
    <3>3. QED
      BY <2>3, <2>4, <3>1, <3>2
  <2>6. ASSUME NEW n \in Ids PROVE Same(nodes[n + 1], el[n], el)'
    <3>1. n = f.id \/ ~OnStack(n)
      BY <1>2, <1>6 DEF OnStack
    <3>2. QED
      BY <1>5, <3>1
  <2>7. el \in [Ids' -> Bodies]
    BY <1>3 DEF Reads
  <2>8. Len(frames') = 0
    BY <2>2
  <2>9. QED
    BY <1>3, <2>2, <2>5, <2>6, <2>7, <2>8 DEF Reads
<1>7. CASE k # 1
  <2>1. PICK h : Resumed(k, f, h)
    BY <1>1, <1>7
  <2>2. PICK g : g = frames[k - 1]
    OBVIOUS
  <2>3. /\ rules' = rules /\ Len(frames') = k - 1 /\ frames'[k - 1] = h /\ k - 1 \in 1 .. k
        /\ \A i \in 1 .. k - 2 : frames'[i] = frames[i]
        /\ h.id = g.id /\ h.element = g.element /\ h.parts = Append(g.parts, f.id)
    BY <2>1, <2>2 DEF Resumed
  <2>4. /\ g \in Frames /\ Lowers(g, el) /\ k - 1 \in 1 .. Len(frames) - 1
        /\ f.element = g.element.parts[Len(g.parts) + 1]
    <3>1. k - 1 \in 1 .. Len(frames) - 1 /\ k - 1 \in 1 .. Len(frames) /\ (k - 1) + 1 = k
      BY <1>2, <1>7
    <3>2. QED
      BY <1>2, <2>2, <3>1 DEF Reads
  <2>5. g.parts \in Seq(Nat) /\ Len(g.parts) \in Nat
    BY <2>4 DEF Frames
  <2>6. Lowers(h, el)
    <3>1. /\ Len(h.parts) = Len(g.parts) + 1 /\ h.parts[Len(g.parts) + 1] = f.id
          /\ \A j \in 1 .. Len(g.parts) : h.parts[j] = g.parts[j]
      BY <1>2, <2>3, <2>5, PushStack
    <3>2. ASSUME NEW j \in 1 .. Len(h.parts) PROVE el[h.parts[j]] = h.element.parts[j]
      <4>1. CASE j \in 1 .. Len(g.parts)
        BY <2>3, <2>4, <3>1, <4>1 DEF Lowers
      <4>2. CASE j = Len(g.parts) + 1
        BY <1>3, <2>3, <2>4, <3>1, <4>2 DEF Lowers
      <4>3. QED
        BY <2>5, <3>1, <4>1, <4>2
    <3>3. el[h.id] = h.element
      BY <2>3, <2>4 DEF Lowers
    <3>4. QED
      BY <3>2, <3>3 DEF Lowers
  <2>7. ASSUME NEW i \in 1 .. Len(frames')
        PROVE  /\ frames'[i].id = frames[i].id /\ frames'[i].element = frames[i].element
               /\ Lowers(frames'[i], el)
    <3>1. CASE i = k - 1
      BY <2>2, <2>3, <2>6, <3>1
    <3>2. CASE i \in 1 .. k - 2
      <4>1. i \in 1 .. Len(frames) /\ frames'[i] = frames[i]
        <5>1. frames'[i] = frames[i]
          BY <2>3, <3>2
        <5>2. i \in 1 .. k
          BY <1>2, <3>2
        <5>3. QED
          BY <1>2, <5>1, <5>2
      <4>2. QED
        BY <4>1 DEF Reads
    <3>3. QED
      BY <1>2, <2>3, <3>1, <3>2
  <2>8. ASSUME NEW i \in 1 .. Len(frames') - 1
        PROVE  frames'[i + 1].element = frames'[i].element.parts[Len(frames'[i].parts) + 1]
    <3>1. /\ i \in 1 .. k - 2 /\ i \in 1 .. Len(frames) - 1
          /\ i \in 1 .. Len(frames') /\ i + 1 \in 1 .. Len(frames')
      BY <1>2, <2>3
    <3>2. frames'[i] = frames[i] /\ frames'[i + 1].element = frames[i + 1].element
      BY <2>3, <2>7, <3>1
    <3>3. QED
      BY <3>1, <3>2 DEF Reads
  <2>9. ASSUME NEW n \in Ids PROVE OnStack(n)' \/ Same(nodes[n + 1], el[n], el)'
    <3>1. CASE n = f.id \/ ~OnStack(n)
      BY <1>5, <3>1
    <3>2. CASE n # f.id /\ OnStack(n)
      <4>1. PICK i \in 1 .. Len(frames) : frames[i].id = n
        BY <3>2 DEF OnStack
      <4>2. i # k /\ i \in 1 .. Len(frames')
        BY <1>2, <2>3, <3>2, <4>1
      <4>3. frames'[i].id = n
        BY <2>7, <4>1, <4>2
      <4>4. QED
        BY <4>2, <4>3 DEF OnStack
    <3>3. QED
      BY <3>1, <3>2
  <2>10. frames'[1].element = Entry(Len(rules) + 1)'.body
    <3>1. 1 \in 1 .. Len(frames')
      BY <1>2, <1>7, <2>3
    <3>2. frames'[1].element = frames[1].element
      BY <2>7, <3>1
    <3>3. frames[1].element = Entry(Len(rules) + 1).body
      BY <1>2 DEF Reads
    <3>4. Entry(Len(rules) + 1)' = Entry(Len(rules) + 1)
      BY <1>2, <2>3 DEF Entry
    <3>5. QED
      BY <3>2, <3>3, <3>4
  <2>11. \A r \in 1 .. Len(rules') : el[rules'[r].body] = Entry(r)'.body
    BY <1>4, <2>3 DEF Reads
  <2>12. el \in [Ids' -> Bodies]
    BY <1>3 DEF Reads
  <2>13. QED
    BY <1>3, <2>7, <2>8, <2>9, <2>10, <2>11, <2>12 DEF Reads, Lowers
<1>8. QED
  BY <1>6, <1>7

(* At the start there is nothing to read.                                  *)
LEMMA ReadStart == Init => ReadInv
<1> SUFFICES ASSUME Init PROVE \E el : Reads(el)
  BY DEF ReadInv
<1>1. frames = << >> /\ nodes = << >> /\ rules = << >>
  BY DEF Init
<1>2. PICK el : el = [n \in {} |-> n]
  OBVIOUS
<1>3. Ids = {} /\ Len(frames) = 0 /\ Len(rules) = 0
  BY <1>1 DEF Ids
<1>4. Reads(el)
  BY <1>1, <1>2, <1>3 DEF Reads
<1>5. QED
  BY <1>4

(* Every step keeps what the nodes are lowered from.                       *)
LEMMA ReadStep ==
  ASSUME BuilderInv, MergedInv, ReadInv, [Next]_vars
  PROVE  ReadInv'
<1> SUFFICES ASSUME errors' = << >> PROVE (\E el : Reads(el))'
  BY DEF ReadInv
<1>1. CASE Merge
  <2>1. /\ stage = "merge" /\ frames' = frames /\ nodes' = nodes /\ rules' = rules
    BY <1>1, MergeCases
  <2>2. frames' = << >> /\ nodes' = << >> /\ rules' = << >>
    BY <2>1 DEF BuilderInv, Progress
  <2>3. PICK el : el = [n \in {} |-> n]
    OBVIOUS
  <2>4. Ids' = {} /\ Len(frames') = 0 /\ Len(rules') = 0
    BY <2>2 DEF Ids
  <2>5. Reads(el)'
    BY <2>2, <2>3, <2>4 DEF Reads
  <2>6. QED
    BY <2>5
<1>2. ASSUME NEW e \in Bodies, Reserve(e), stage \in {"user", "core"},
             frames = << >> => e = Entry(Len(rules) + 1).body,
             frames # << >> => e = Top.element.parts[Len(Top.parts) + 1]
      PROVE  (\E el : Reads(el))'
  <2>1. PICK f : Reserved(e, f)
    BY <1>2, ReserveSays DEF BuilderInv
  <2>2. errors = << >>
    BY <2>1 DEF Reserved
  <2>3. PICK el : Reads(el)
    BY <2>2 DEF ReadInv
  <2>4. QED
    BY <1>2, <2>3, ReserveKeepsReads
<1>3. CASE BeginRule
  <2>1. stage \in {"user", "core"} /\ frames = << >> /\ at <= Len(Table) /\ Reserve(Table[at].body)
    BY <1>3 DEF BeginRule
  <2>2. Table[at] \in [name : DOMAIN KeyOf, body : Bodies]
    <3>1. Table \in Seq([name : DOMAIN KeyOf, body : Bodies]) /\ at \in Nat \ {0}
      BY TableFacts DEF BuilderInv, BuilderTypes
    <3>2. at \in 1 .. Len(Table)
      BY <2>1, <3>1
    <3>3. QED
      BY <3>1, <3>2, ElementOfSeq
  <2>3. PICK e : e = Table[at].body
    OBVIOUS
  <2>4. e \in Bodies /\ e = Entry(Len(rules) + 1).body /\ Reserve(e)
    BY <2>1, <2>2, <2>3, TableEntry
  <2>5. QED
    BY <1>2, <2>1, <2>4
<1>4. CASE LowerPart
  <2>1. /\ frames # << >> /\ Len(Top.parts) < Len(Top.element.parts)
        /\ Reserve(Top.element.parts[Len(Top.parts) + 1])
    BY <1>4 DEF LowerPart
  <2>2. stage \in {"user", "core"}
    BY <2>1 DEF BuilderInv, Progress
  <2>3. Top \in Frames
    BY <2>1, PopStack DEF BuilderInv, BuilderTypes, Top, Last
  <2>4. Top.element \in Bodies /\ Len(Top.parts) \in Nat
    BY <2>3 DEF Frames
  <2>5. Len(Top.parts) + 1 \in 1 .. Len(Top.element.parts)
    BY <2>1, <2>4, BodyFacts
  <2>6. PICK e : e = Top.element.parts[Len(Top.parts) + 1]
    OBVIOUS
  <2>7. e \in Bodies /\ Reserve(e)
    BY <2>1, <2>4, <2>5, <2>6, BodyFacts
  <2>8. QED
    BY <1>2, <2>1, <2>2, <2>6, <2>7
<1>5. CASE Place
  <2>1. errors = << >>
    BY <1>5 DEF Place
  <2>2. PICK el : Reads(el)
    BY <2>1 DEF ReadInv
  <2>3. Reads(el)'
    BY <1>5, <2>1, <2>2, PlaceKeepsReads
  <2>4. QED
    BY <2>3
<1>6. CASE Turn \/ UNCHANGED vars
  <2>1. /\ order' = order /\ collected' = collected
        /\ frames' = frames /\ nodes' = nodes /\ rules' = rules /\ errors' = errors
    BY <1>6 DEF Turn, vars, merging, lowering
  <2>2. PICK el : Reads(el)
    BY <2>1 DEF ReadInv
  <2>3. (\A r : Entry(r)' = Entry(r)) /\ \A d, x, l : Same(d, x, l) => Same(d, x, l)'
    BY <2>1, EntryStays
  <2>4. \A n \in Ids' : OnStack(n)' \/ Same(nodes[n + 1], el[n], el)'
    <3>1. ASSUME NEW n \in Ids' PROVE OnStack(n)' \/ Same(nodes[n + 1], el[n], el)'
      <4>1. Ids' = Ids /\ (OnStack(n) => OnStack(n)')
        BY <2>1 DEF Ids, OnStack
      <4>2. PICK d : d = nodes[n + 1]
        OBVIOUS
      <4>3. OnStack(n) \/ Same(d, el[n], el)
        BY <2>2, <4>1, <4>2 DEF Reads
      <4>4. d = nodes'[n + 1] /\ (OnStack(n)' \/ Same(d, el[n], el)')
        BY <2>1, <2>3, <4>1, <4>2, <4>3
      <4>5. QED
        BY <4>4
    <3>2. QED
      BY <3>1
  <2>5. frames' # << >> => frames'[1].element = Entry(Len(rules) + 1)'.body
    BY <2>1, <2>2 DEF Reads, Entry
  <2>6. \A r \in 1 .. Len(rules') : el[rules'[r].body] = Entry(r)'.body
    BY <2>1, <2>2, <2>3 DEF Reads
  <2>7. el \in [Ids' -> Bodies]
    BY <2>1, <2>2 DEF Reads, Ids
  <2>8. Reads(el)'
    BY <2>1, <2>2, <2>4, <2>5, <2>6, <2>7 DEF Reads, Lowers
  <2>9. QED
    BY <2>8
<1>7. QED
  BY <1>1, <1>3, <1>4, <1>5, <1>6 DEF Next, LowerRules

-----------------------------------------------------------------------------
(* What the recursion of StandsFor computes.                               *)

(* One round of it.                                                        *)
Matches(x, s) ==
  /\ nodes[x[1] + 1].kind = x[2].kind /\ Own(nodes[x[1] + 1]) = Own(x[2])
  /\ nodes[x[1] + 1].kind = "ref" =>
       KeyOf[rules[nodes[x[1] + 1].target + 1].name] = KeyOf[x[2].target]
  /\ Len(nodes[x[1] + 1].parts) = Len(x[2].parts)
  /\ \A i \in DOMAIN nodes[x[1] + 1].parts : s[<<nodes[x[1] + 1].parts[i], x[2].parts[i]>>]

(* The parts of a node are after it.                                       *)
PartsAfter ==
  /\ Len(nodes) \in Nat
  /\ \A n \in Ids : /\ nodes[n + 1].parts \in Seq(Nat)
                    /\ \A i \in DOMAIN nodes[n + 1].parts :
                         nodes[n + 1].parts[i] \in Ids /\ nodes[n + 1].parts[i] > n

(* In an arena built without a complaint they are.                         *)
LEMMA PartsFacts ==
  ASSUME BuilderInv, stage = "sound"
  PROVE  PartsAfter
<1>1. errors = << >> /\ frames = << >>
  BY DEF BuilderInv, Progress
<1>2. Len(nodes) \in Nat
  BY BoundaryFacts
<1>3. ASSUME NEW n \in Ids
      PROVE  /\ nodes[n + 1].parts \in Seq(Nat)
             /\ \A i \in DOMAIN nodes[n + 1].parts :
                  nodes[n + 1].parts[i] \in Ids /\ nodes[n + 1].parts[i] > n
  <2>1. IsPlaced(n) /\ ~OnStack(n)
    BY <1>1 DEF BuilderInv, OthersPlaced, OnStack
  <2>2. PICK p : p = nodes[n + 1].parts
    OBVIOUS
  <2>3. p \in Seq(Nat) /\ \A i \in DOMAIN p : n < p[i]
    BY <2>1, <2>2 DEF IsPlaced, After, Growing!NodeShape
  <2>4. \A i \in DOMAIN p : p[i] \in Ids
    BY <1>1, <2>1, <2>2, PlacedParts
  <2>5. n \in Nat /\ \A i \in DOMAIN p : p[i] \in Nat
    BY <2>3 DEF Ids
  <2>6. QED
    BY <2>2, <2>3, <2>4, <2>5
<1>4. QED
  BY <1>2, <1>3 DEF PartsAfter

(* A round asks only of later nodes.                                       *)
LEMMA MatchesLater ==
  ASSUME PartsAfter, NEW x \in Ids \X Elements, NEW g, NEW h,
         \A y \in Ids \X Elements : y[1] > x[1] => g[y] = h[y]
  PROVE  Matches(x, g) = Matches(x, h)
<1>1. PICK n \in Ids, e \in Elements : x = <<n, e>>
  OBVIOUS
<1>2. PICK d : d = nodes[n + 1]
  OBVIOUS
<1>3. d.parts \in Seq(Nat) /\ \A i \in DOMAIN d.parts : d.parts[i] \in Ids /\ d.parts[i] > n
  BY <1>2 DEF PartsAfter
<1>4. e.parts \in Seq(Elements)
  BY BuilderAssumption DEF ElementShape
<1>5. ASSUME Len(d.parts) = Len(e.parts), NEW i \in DOMAIN d.parts
      PROVE  g[<<d.parts[i], e.parts[i]>>] = h[<<d.parts[i], e.parts[i]>>]
  <2>1. i \in DOMAIN e.parts
    BY <1>3, <1>4, <1>5
  <2>2. e.parts[i] \in Elements
    BY <1>4, <2>1
  <2>3. PICK y : y = <<d.parts[i], e.parts[i]>>
    OBVIOUS
  <2>4. y \in Ids \X Elements /\ y[1] > x[1]
    BY <1>1, <1>3, <1>5, <2>2, <2>3
  <2>5. QED
    BY <2>3, <2>4
<1>6. Len(d.parts) = Len(e.parts) =>
        ((\A i \in DOMAIN d.parts : g[<<d.parts[i], e.parts[i]>>])
           <=> \A i \in DOMAIN d.parts : h[<<d.parts[i], e.parts[i]>>])
  BY <1>5
<1>7. x[1] = n /\ x[2] = e
  BY <1>1
<1>8. Matches(x, g) <=> Matches(x, h)
  BY <1>2, <1>6, <1>7 DEF Matches
<1>9. QED
  BY <1>8 DEF Matches

(* From a node on the rounds are done.                                     *)
DoneFrom(g, m) == \A x \in Ids \X Elements : x[1] >= m => g[x] = Matches(x, g)

(* Done backwards from the last node, the rounds come to an end.           *)
LEMMA RoundsEnd ==
  ASSUME PartsAfter
  PROVE  \E g \in [Ids \X Elements -> BOOLEAN] : DoneFrom(g, 0)
<1> DEFINE P == Ids \X Elements
<1>1. PICK N \in Nat : N = Len(nodes)
  BY DEF PartsAfter
<1>2. Ids = 0 .. N - 1
  BY <1>1 DEF Ids
<1> DEFINE S == {k \in 0 .. N : \E g \in [P -> BOOLEAN] : DoneFrom(g, N - k)}
<1>3. 0 \in S
  <2>1. PICK g : g = [x \in P |-> FALSE]
    OBVIOUS
  <2>2. \A x \in P : ~ x[1] >= N - 0
    BY <1>2
  <2>3. g \in [P -> BOOLEAN] /\ DoneFrom(g, N - 0)
    BY <2>1, <2>2 DEF DoneFrom
  <2>4. QED
    BY <2>3
<1>4. ASSUME NEW k \in 1 .. N, k - 1 \in S PROVE k \in S
  <2>1. PICK g \in [P -> BOOLEAN] : DoneFrom(g, N - (k - 1))
    BY <1>4
  <2>2. PICK m : m = N - k
    OBVIOUS
  <2>3. m \in Nat /\ N - (k - 1) = m + 1 /\ k \in 0 .. N
    BY <2>2
  <2>4. PICK h : h = [x \in P |-> IF x[1] = m THEN Matches(x, g) ELSE g[x]]
    OBVIOUS
  <2>5. \A x \in P : Matches(x, g) \in BOOLEAN
    BY DEF Matches
  <2>6. h \in [P -> BOOLEAN]
    BY <2>1, <2>4, <2>5
  <2>7. ASSUME NEW x \in P, x[1] >= m PROVE h[x] = Matches(x, h)
    <3>1. x[1] \in Nat
      BY <1>2
    <3>2. \A y \in P : y[1] > x[1] => g[y] = h[y]
      <4>1. \A y \in P : y[1] \in Nat
        BY <1>2
      <4>2. \A y \in P : y[1] > x[1] => y[1] # m
        BY <2>3, <2>7, <3>1, <4>1
      <4>3. QED
        BY <2>4, <4>2
    <3>3. Matches(x, g) = Matches(x, h)
      BY <3>2, MatchesLater
    <3>4. CASE x[1] = m
      BY <2>4, <3>3, <3>4
    <3>5. CASE x[1] # m
      <4>1. x[1] >= m + 1
        BY <2>3, <2>7, <3>1, <3>5
      <4>2. g[x] = Matches(x, g)
        BY <2>1, <2>3, <4>1 DEF DoneFrom
      <4>3. QED
        BY <2>4, <3>3, <3>5, <4>2
    <3>6. QED
      BY <3>4, <3>5
  <2>8. DoneFrom(h, N - k)
    BY <2>2, <2>7 DEF DoneFrom
  <2>9. QED
    BY <2>3, <2>6, <2>8
<1>5. N \in S
  <2> HIDE DEF S
  <2>1. \A k \in 0 .. N : k \in S
    BY <1>3, <1>4, CountUp
  <2>2. QED
    BY <2>1
<1>6. PICK g \in [P -> BOOLEAN] : DoneFrom(g, N - N)
  BY <1>5
<1>7. N - N = 0
  OBVIOUS
<1>8. QED
  BY <1>6, <1>7

(* So the recursion computes a function that satisfies it.                 *)
LEMMA StandsFacts ==
  ASSUME PartsAfter
  PROVE  \A x \in Ids \X Elements : StandsFor[x] = Matches(x, StandsFor)
<1> DEFINE F(g) == g = [x \in Ids \X Elements |-> Matches(x, g)]
<1>1. PICK g \in [Ids \X Elements -> BOOLEAN] : DoneFrom(g, 0)
  BY RoundsEnd
<1>2. \A x \in Ids \X Elements : x[1] >= 0
  BY DEF Ids
<1>3. F(g)
  BY <1>1, <1>2 DEF DoneFrom
<1>4. StandsFor = CHOOSE s : F(s)
  BY DEF StandsFor, Matches
<1>5. F(StandsFor)
  <2> HIDE DEF F
  <2> QED BY <1>3, <1>4
<1>6. QED
  BY <1>5

(* A node stands for the element it was lowered from.                      *)
LEMMA NodesStand ==
  ASSUME BuilderInv, HygieneInv, stage = "sound", NEW el, Reads(el)
  PROVE  \A n \in Ids : el[n] \in Elements => StandsFor[<<n, el[n]>>]
<1>1. PICK N \in Nat : N = Len(nodes)
  BY BoundaryFacts
<1>2. Ids = 0 .. N - 1
  BY <1>1 DEF Ids
<1>3. PartsAfter /\ \A x \in Ids \X Elements : StandsFor[x] = Matches(x, StandsFor)
  BY PartsFacts, StandsFacts
<1>4. frames = << >> /\ Len(rules) = Total /\ Total \in Nat
  BY BuilderAssumption DEF BuilderInv, BuilderTypes, Progress, Total
<1>5. \A n \in Ids : Same(nodes[n + 1], el[n], el)
  BY <1>4 DEF Reads, OnStack
<1> DEFINE stands(n) == el[n] \in Elements => StandsFor[<<n, el[n]>>]
           S == {k \in 0 .. N : \A n \in Ids : n >= N - k => stands(n)}
<1>6. 0 \in S
  <2>1. \A n \in Ids : ~ n >= N - 0
    BY <1>2
  <2>2. 0 \in 0 .. N
    OBVIOUS
  <2>3. QED
    BY <2>1, <2>2
<1>7. ASSUME NEW k \in 1 .. N, k - 1 \in S PROVE k \in S
  <2>1. k \in 0 .. N /\ \A n \in Ids : n > N - k => stands(n)
    <3>1. \A n \in Ids : n > N - k => n >= N - (k - 1)
      BY <1>2
    <3> HIDE DEF stands
    <3>2. QED
      BY <1>7, <3>1
  <2>2. ASSUME NEW n \in Ids, n = N - k, el[n] \in Elements PROVE StandsFor[<<n, el[n]>>]
    <3>1. PICK e \in Elements : e = el[n]
      BY <2>2
    <3>2. PICK d : d = nodes[n + 1]
      OBVIOUS
    <3>3. Same(d, e, el)
      BY <1>5, <3>1, <3>2
    <3>4. d.parts \in Seq(Nat) /\ \A i \in DOMAIN d.parts : d.parts[i] \in Ids /\ d.parts[i] > n
      BY <1>3, <3>2 DEF PartsAfter
    <3>5. e.parts \in Seq(Elements)
      BY BuilderAssumption DEF ElementShape
    <3>6. ASSUME NEW i \in DOMAIN d.parts PROVE StandsFor[<<d.parts[i], e.parts[i]>>]
      <4>1. i \in DOMAIN e.parts
        BY <3>3, <3>4, <3>5 DEF Same
      <4>2. e.parts[i] \in Elements
        BY <3>5, <4>1
      <4>3. el[d.parts[i]] = e.parts[i]
        BY <3>3 DEF Same
      <4>4. stands(d.parts[i])
        <5> HIDE DEF stands
        <5> QED BY <2>1, <2>2, <3>4
      <4>5. QED
        BY <4>2, <4>3, <4>4
    <3>7. d.kind = "ref" => KeyOf[rules[d.target + 1].name] = KeyOf[e.target]
      <4>1. SUFFICES ASSUME d.kind = "ref" PROVE KeyOf[rules[d.target + 1].name] = KeyOf[e.target]
        OBVIOUS
      <4>2. d.target \in 0 .. Total - 1 /\ KeyOf[Entry(d.target + 1).name] = KeyOf[e.target]
        BY <3>3, <4>1 DEF Same
      <4>3. d.target + 1 \in 1 .. Len(rules)
        BY <1>4, <4>2
      <4>4. rules[d.target + 1].name = Entry(d.target + 1).name
        BY <4>3 DEF HygieneInv, RulesNamed
      <4>5. QED
        BY <4>2, <4>4
    <3>8. PICK x : x = <<n, e>>
      OBVIOUS
    <3>9. x \in Ids \X Elements /\ x[1] = n /\ x[2] = e
      BY <3>8
    <3>10. d.kind = e.kind /\ Own(d) = Own(e) /\ Len(d.parts) = Len(e.parts)
      BY <3>3 DEF Same
    <3>11. Matches(x, StandsFor)
      BY <3>2, <3>6, <3>7, <3>9, <3>10 DEF Matches
    <3>12. QED
      BY <1>3, <3>1, <3>8, <3>9, <3>11
  <2>3. ASSUME NEW n \in Ids, n >= N - k PROVE stands(n)
    <3>1. n = N - k \/ n > N - k
      BY <1>2, <2>3
    <3>2. QED
      BY <2>1, <2>2, <3>1
  <2> HIDE DEF stands
  <2>4. QED
    BY <2>1, <2>3
<1>8. N \in S
  <2> HIDE DEF S
  <2>1. \A k \in 0 .. N : k \in S
    BY <1>6, <1>7, CountUp
  <2>2. QED
    BY <2>1
<1>9. \A n \in Ids : n >= N - N
  BY <1>2
<1>10. QED
  BY <1>8, <1>9

(* The bodies of some definitions, and whether a node is what they make.   *)
Written(ds) == [i \in DOMAIN ds |-> source[ds[i]].body]

Means(body, bodies) ==
  IF Len(bodies) = 1 THEN StandsFor[<<body, bodies[1]>>]
  ELSE LET parts    == nodes[body + 1].parts
           branches == FlattenSeq([i \in DOMAIN bodies |-> BranchesOf(bodies[i])])
       IN  /\ nodes[body + 1].kind = "alt" /\ Len(parts) = Len(branches)
           /\ \A i \in DOMAIN parts : StandsFor[<<parts[i], branches[i]>>]

(* A node lowered from what is made of definitions means what they say.    *)
LEMMA MadeMeans ==
  ASSUME BuilderInv, HygieneInv, stage = "sound", NEW el, Reads(el), NEW n \in Ids,
         NEW S \in SUBSET (1 .. Len(source)), NEW ds, IsList(ds, S), MadeOf(el[n], ds)
  PROVE  Means(n, Written(ds))
<1>1. PICK b : b = el[n]
  OBVIOUS
<1>2. S \in SUBSET Nat /\ ds \in Seq(S) /\ Len(ds) \in Nat /\ DOMAIN ds = 1 .. Len(ds) /\ Len(ds) > 0
  <2>1. S \in SUBSET Nat
    BY DEF BuilderInv, BuilderTypes
  <2>2. ds \in Seq(S) /\ Len(ds) \in Nat /\ DOMAIN ds = 1 .. Len(ds)
    BY <2>1, ListFacts
  <2>3. ds # << >>
    BY DEF MadeOf
  <2>4. QED
    BY <2>1, <2>2, <2>3
<1>3. PICK bs : bs = Written(ds)
  OBVIOUS
<1>4. /\ DOMAIN bs = 1 .. Len(ds)
      /\ \A i \in 1 .. Len(ds) : bs[i] = source[ds[i]].body /\ bs[i] \in Elements
  <2>1. DOMAIN bs = 1 .. Len(ds) /\ \A i \in 1 .. Len(ds) : bs[i] = source[ds[i]].body
    BY <1>2, <1>3 DEF Written
  <2>2. ASSUME NEW i \in 1 .. Len(ds) PROVE source[ds[i]].body \in Elements
    <3>1. ds[i] \in S
      BY <1>2
    <3>2. ds[i] \in 1 .. Len(source) /\ source \in Seq(Definitions)
      BY <3>1 DEF BuilderInv, BuilderTypes
    <3>3. source[ds[i]] \in Definitions
      BY <3>2
    <3>4. QED
      BY <3>3, BuilderAssumption
  <2>3. QED
    BY <2>1, <2>2
<1>5. Len(bs) = Len(ds)
  <2>1. bs = [i \in 1 .. Len(ds) |-> source[ds[i]].body]
    BY <1>2, <1>3 DEF Written
  <2>2. bs \in Seq({source[ds[i]].body : i \in 1 .. Len(ds)})
    BY <1>2, <2>1
  <2>3. QED
    BY <1>2, <1>4, <2>2
<1>6. CASE Len(ds) = 1
  <2>1. bs[1] = b /\ b \in Elements
    BY <1>1, <1>4, <1>6 DEF MadeOf
  <2>2. StandsFor[<<n, bs[1]>>]
    BY <1>1, <2>1, NodesStand
  <2>3. QED
    BY <1>3, <1>5, <1>6, <2>2 DEF Means
<1>7. CASE Len(ds) # 1
  <2>1. b.kind = "alt" /\ b \in Bodies
    BY <1>1, <1>2, <1>7 DEF MadeOf, Reads
  <2>2. b.parts \in Seq(Elements)
    BY <2>1, BodyFacts
  <2>3. b.parts = FlattenSeq([i \in DOMAIN bs |-> BranchesOf(bs[i])])
    <3>1. b.parts = FlattenSeq([i \in DOMAIN ds |-> BranchesOf(source[ds[i]].body)])
      BY <1>1, <2>1 DEF MadeOf, BranchesOf
    <3>2. [i \in DOMAIN ds |-> BranchesOf(source[ds[i]].body)] = [i \in DOMAIN bs |-> BranchesOf(bs[i])]
      BY <1>2, <1>4
    <3>3. QED
      BY <3>1, <3>2
  <2>4. PICK d : d = nodes[n + 1]
    OBVIOUS
  <2>5. frames = << >>
    BY DEF BuilderInv, Progress
  <2>6. Same(d, b, el)
    BY <1>1, <2>4, <2>5 DEF Reads, OnStack
  <2>7. d.parts \in Seq(Nat) /\ \A i \in DOMAIN d.parts : d.parts[i] \in Ids
    BY <2>4, PartsFacts DEF PartsAfter
  <2>8. ASSUME NEW i \in DOMAIN d.parts PROVE StandsFor[<<d.parts[i], b.parts[i]>>]
    <3>1. i \in DOMAIN b.parts
      BY <2>2, <2>6, <2>7 DEF Same
    <3>2. b.parts[i] \in Elements
      BY <2>2, <3>1
    <3>3. el[d.parts[i]] = b.parts[i]
      BY <2>6 DEF Same
    <3>4. PICK p \in Ids : p = d.parts[i]
      BY <2>7
    <3>5. el[p] \in Elements => StandsFor[<<p, el[p]>>]
      BY NodesStand
    <3>6. QED
      BY <3>2, <3>3, <3>4, <3>5
  <2>9. d.kind = "alt" /\ Len(d.parts) = Len(b.parts)
    BY <2>1, <2>6 DEF Same
  <2>10. QED
    BY <1>3, <1>5, <1>7, <2>3, <2>4, <2>8, <2>9 DEF Means
<1>8. QED
  BY <1>6, <1>7

(* At the verdict the rules read back: the list of founders and that of    *)
(* the definitions of each are the only ascending ones.                    *)
LEMMA InvGivesReadsBack == BuilderInv /\ MergedInv /\ HygieneInv /\ ReadInv => ReadsBack
<1> SUFFICES ASSUME BuilderInv, MergedInv, HygieneInv, ReadInv, stage = "sound"
             PROVE  ReadsBack
  BY DEF ReadsBack
<1>1. errors = << >> /\ frames = << >> /\ Len(rules) = Total
  BY DEF BuilderInv, Progress
<1>2. PICK el : Reads(el)
  BY <1>1 DEF ReadInv
<1>3. PICK fs : /\ IsList(fs, Founders) /\ Len(fs) = Len(order)
                /\ \A r \in 1 .. Len(order) : Says(r, fs[r])
  BY MergedAll
<1>4. /\ Founders \in SUBSET Nat /\ Founders \subseteq 1 .. Len(source)
      /\ \A f : DefinitionsOf(f) \in SUBSET Nat /\ DefinitionsOf(f) \in SUBSET (1 .. Len(source))
  BY PlacesAreNumbers DEF BuilderInv
<1>5. Ascending(Founders) = fs /\ DOMAIN fs = 1 .. Len(order)
  BY <1>3, <1>4, ListIsAscending, ListFacts
<1>6. /\ Len(order) \in Nat /\ Len(CoreTable) \in Nat /\ DOMAIN CoreTable = 1 .. Len(CoreTable)
      /\ Len(rules) = Len(order) + Len(CoreTable) /\ Len(nodes) \in Nat
  BY <1>1, BuilderAssumption, BoundaryFacts DEF Total, BuilderInv, BuilderTypes
<1>7. ASSUME NEW r \in 1 .. Len(rules)
      PROVE  /\ rules[r].name = Entry(r).name /\ rules[r].body \in Ids
             /\ el[rules[r].body] = Entry(r).body
  <2>1. rules[r].name = Entry(r).name /\ el[rules[r].body] = Entry(r).body
    BY <1>2 DEF HygieneInv, RulesNamed, Reads
  <2>2. rules \in Seq(RuleSet) /\ rules[r].body < Len(nodes)
    BY DEF BuilderInv, BuilderTypes, Rooted
  <2>3. rules[r] \in RuleSet
    BY <2>2
  <2>4. rules[r].body \in Nat
    BY <2>3 DEF RuleSet
  <2>5. QED
    BY <1>6, <2>1, <2>2, <2>4 DEF Ids
<1>8. ASSUME NEW r \in 1 .. Len(order)
      PROVE  /\ rules[r].name = source[fs[r]].name
             /\ Means(rules[r].body, Written(Ascending(DefinitionsOf(fs[r]))))
  <2>1. r \in 1 .. Len(rules) /\ r <= Len(order)
    BY <1>6
  <2>2. Entry(r) = collected[order[r]]
    BY <2>1 DEF Entry
  <2>3. PICK S : S = DefinitionsOf(fs[r])
    OBVIOUS
  <2>4. S \in SUBSET Nat /\ S \in SUBSET (1 .. Len(source))
    BY <1>4, <2>3
  <2>5. Met(S) = S
    BY <2>4, MergedAll
  <2>6. PICK ds : IsList(ds, S) /\ MadeOf(collected[order[r]].body, ds)
    BY <1>3, <2>3, <2>5 DEF Says
  <2>7. Ascending(S) = ds
    BY <2>4, <2>6, ListIsAscending
  <2>8. PICK n : n = rules[r].body
    OBVIOUS
  <2>9. n \in Ids /\ MadeOf(el[n], ds)
    BY <1>7, <2>1, <2>2, <2>6, <2>8
  <2>10. Means(n, Written(ds))
    BY <1>2, <2>4, <2>6, <2>9, MadeMeans
  <2>11. rules[r].name = source[fs[r]].name
    BY <1>3, <1>7, <2>1, <2>2 DEF Says
  <2>12. QED
    BY <2>3, <2>7, <2>8, <2>10, <2>11
<1>9. ASSUME NEW c \in 1 .. Len(CoreTable)
      PROVE  /\ rules[Len(order) + c].name = CoreTable[c].name
             /\ Means(rules[Len(order) + c].body, <<CoreTable[c].body>>)
  <2>1. PICK r : r = Len(order) + c
    OBVIOUS
  <2>2. r \in 1 .. Len(rules) /\ ~ r <= Len(order) /\ r - Len(order) = c
    BY <1>6, <2>1
  <2>3. Entry(r) = CoreTable[c]
    BY <2>2 DEF Entry
  <2>4. PICK b : b = CoreTable[c].body
    OBVIOUS
  <2>5. b \in Elements
    <3>1. CoreTable \in Seq([name : DOMAIN KeyOf, body : Elements])
      BY BuilderAssumption
    <3>2. CoreTable[c] \in [name : DOMAIN KeyOf, body : Elements]
      BY <3>1, ElementOfSeq
    <3>3. QED
      BY <2>4, <3>2
  <2>6. PICK n : n = rules[r].body
    OBVIOUS
  <2>7. n \in Ids /\ el[n] = b
    BY <1>7, <2>2, <2>3, <2>4, <2>6
  <2>8. StandsFor[<<n, b>>]
    BY <1>2, <2>5, <2>7, NodesStand
  <2>9. Means(n, <<b>>)
    BY <2>8 DEF Means
  <2>10. QED
    BY <1>7, <2>1, <2>2, <2>3, <2>4, <2>6, <2>9
<1>10. QED
  <2>1. Len(rules) = Len(Ascending(Founders)) + Len(CoreTable)
    BY <1>3, <1>5, <1>6
  <2>2. \A r \in DOMAIN Ascending(Founders) :
          /\ rules[r].name = source[Ascending(Founders)[r]].name
          /\ Means(rules[r].body, Written(Ascending(DefinitionsOf(Ascending(Founders)[r]))))
    BY <1>5, <1>8
  <2>3. \A c \in DOMAIN CoreTable :
          /\ rules[Len(Ascending(Founders)) + c].name = CoreTable[c].name
          /\ Means(rules[Len(Ascending(Founders)) + c].body, <<CoreTable[c].body>>)
    BY <1>3, <1>5, <1>6, <1>9
  <2>4. QED
    BY <2>1, <2>2, <2>3 DEF ReadsBack, Means, Written

(* Of every grammar built without a complaint: the rules are the user's in *)
(* the order they were founded and then the core rules, each under the name*)
(* it was first given; and the node of each is, part by part, what its     *)
(* definitions say, one after the other, D10.                              *)
THEOREM ArenaIsTheGrammar == Spec => []ReadsBack
<1>1. Init => BuilderInv /\ MergedInv /\ HygieneInv /\ ReadInv
  BY BuilderStart, MergedStart, HygieneStart, ReadStart
<1>2. BuilderInv /\ MergedInv /\ HygieneInv /\ ReadInv /\ [Next]_vars
        => (BuilderInv /\ MergedInv /\ HygieneInv /\ ReadInv)'
  <2>1. ASSUME BuilderInv, MergedInv, HygieneInv, ReadInv, [Next]_vars
        PROVE  BuilderInv' /\ MergedInv' /\ HygieneInv' /\ ReadInv'
    BY <2>1, BuilderStep, MergedStep, HygieneStep, ReadStep
  <2>2. QED
    BY <2>1
<1>3. BuilderInv /\ MergedInv /\ HygieneInv /\ ReadInv => ReadsBack
  BY InvGivesReadsBack
<1>4. QED
  BY <1>1, <1>2, <1>3, PTL DEF Spec

-----------------------------------------------------------------------------
(* Where the elements of `t` come from in the first `k` of `s`, joined: each *)
(* from a place of its own, and from every place one.                      *)
Sorted(t, s, k, d, b) ==
  /\ \A i \in 1 .. Len(t) : d[i] \in 1 .. k /\ b[i] \in 1 .. Len(s[d[i]]) /\ t[i] = s[d[i]][b[i]]
  /\ \A i, j \in 1 .. Len(t) : i # j => d[i] # d[j] \/ b[i] # b[j]
  /\ \A l \in 1 .. k : \A m \in 1 .. Len(s[l]) : \E i \in 1 .. Len(t) : d[i] = l /\ b[i] = m

(* What is joined comes from the places it was joined of.                  *)
LEMMA JoinPlaces ==
  ASSUME NEW S, NEW s \in Seq(Seq(S)), s # << >>
  PROVE  /\ FlattenSeq(s) \in Seq(S)
         /\ \E d, b : Sorted(FlattenSeq(s), s, Len(s), d, b)
<1> DEFINE V == Seq(S)
<1> HIDE DEF V
<1>1. s \in Seq(V)
  BY DEF V
<1>2. PICK t \in [1 .. Len(s) -> V] : Joins(t, s, Len(s)) /\ FlattenSeq(s) = t[Len(s)]
  BY <1>1, FlattenFacts DEF V
<1>3. /\ Len(s) \in Nat /\ Len(s) > 0 /\ \A k \in 1 .. Len(s) : s[k] \in V /\ t[k] \in V
      /\ \A x \in V : x \in Seq(S) /\ Len(x) \in Nat
  <2>1. Len(s) \in Nat /\ Len(s) > 0 /\ \A k \in 1 .. Len(s) : s[k] \in V /\ t[k] \in V
    <3>1. Len(s) \in Nat /\ \A k \in 1 .. Len(s) : s[k] \in V
      BY <1>1
    <3>2. Len(s) # 0
      BY <1>1, SMT
    <3>3. QED
      <4>1. Len(s) > 0
        BY <3>1, <3>2
      <4>2. QED
        BY <1>2, <3>1, <4>1
  <2>2. \A x \in V : x \in Seq(S) /\ Len(x) \in Nat
    BY DEF V
  <2>3. QED
    BY <2>1, <2>2
<1> DEFINE C == {k \in Nat : k \in 1 .. Len(s) => \E d, b : Sorted(t[k], s, k, d, b)}
<1>4. 0 \in C
  BY <1>3
<1>5. ASSUME NEW k \in 1 .. Len(s), k - 1 \in C PROVE k \in C
  <2>1. t[k] \in V /\ s[k] \in V /\ Len(t[k]) \in Nat /\ Len(s[k]) \in Nat /\ k \in Nat
    BY <1>3
  <2>2. CASE k = 1
    <3>1. t[k] = s[k]
      BY <1>2, <2>2 DEF Joins
    <3>2. PICK u : u = s[k]
      OBVIOUS
    <3>3. Len(u) \in Nat
      BY <2>1, <3>2
    <3>4. Sorted(u, s, k, [i \in 1 .. Len(u) |-> 1], [i \in 1 .. Len(u) |-> i])
      BY <2>2, <3>2, <3>3 DEF Sorted
    <3>5. QED
      BY <2>1, <3>1, <3>2, <3>4
  <2>3. CASE k # 1
    <3>0. t[k] = t[k - 1] \o s[k]
      BY <1>2, <2>3 DEF Joins
    <3>1. t[k] = t[k - 1] \o s[k] /\ k - 1 \in 1 .. Len(s) /\ k - 1 \in Nat
      BY <1>3, <2>3, <3>0
    <3>2. PICK d, b : Sorted(t[k - 1], s, k - 1, d, b)
      BY <1>5, <3>1
    <3>3. PICK u : u = t[k - 1]
      OBVIOUS
    <3>4. u \in Seq(S) /\ Len(u) \in Nat /\ s[k] \in Seq(S)
      BY <1>3, <3>1, <3>3
    <3>5. /\ Len(t[k]) = Len(u) + Len(s[k])
          /\ \A i \in 1 .. Len(t[k]) : t[k][i] = IF i <= Len(u) THEN u[i] ELSE s[k][i - Len(u)]
      <4>1. PICK v \in Seq(S) : v = s[k]
        BY <3>4
      <4>2. t[k] = u \o v
        BY <3>1, <3>3, <4>1
      <4>3. Len(u \o v) = Len(u) + Len(v) /\ u \o v \in Seq(S)
        BY <3>4, ConcatProperties
      <4>4. \A i \in 1 .. Len(u) + Len(v) : (u \o v)[i] = IF i <= Len(u) THEN u[i] ELSE v[i - Len(u)]
        BY <3>4, ConcatProperties
      <4>5. QED
        BY <4>1, <4>2, <4>3, <4>4
    <3> DEFINE dd == [i \in 1 .. Len(t[k]) |-> IF i <= Len(u) THEN d[i] ELSE k]
               bb == [i \in 1 .. Len(t[k]) |-> IF i <= Len(u) THEN b[i] ELSE i - Len(u)]
    <3>6. ASSUME NEW i \in 1 .. Len(t[k])
          PROVE  /\ dd[i] \in 1 .. k /\ bb[i] \in 1 .. Len(s[dd[i]]) /\ t[k][i] = s[dd[i]][bb[i]]
                 /\ i <= Len(u) => i \in 1 .. Len(u) /\ dd[i] = d[i] /\ bb[i] = b[i] /\ d[i] < k
                 /\ ~(i <= Len(u)) => dd[i] = k /\ bb[i] = i - Len(u)
      <4>1. CASE i <= Len(u)
        <5>1. i \in 1 .. Len(u) /\ dd[i] = d[i] /\ bb[i] = b[i] /\ t[k][i] = u[i]
          BY <3>4, <3>5, <4>1
        <5>2. d[i] \in 1 .. k - 1 /\ b[i] \in 1 .. Len(s[d[i]]) /\ u[i] = s[d[i]][b[i]]
          BY <3>2, <3>3, <5>1 DEF Sorted
        <5>3. d[i] \in 1 .. k /\ d[i] < k
          BY <2>1, <5>2
        <5> HIDE DEF dd, bb
        <5>4. QED
          BY <4>1, <5>1, <5>2, <5>3
      <4>2. CASE ~(i <= Len(u))
        <5>1. dd[i] = k /\ bb[i] = i - Len(u) /\ t[k][i] = s[k][i - Len(u)]
          BY <3>5, <4>2
        <5>2. i - Len(u) \in 1 .. Len(s[k]) /\ k \in 1 .. k
          BY <2>1, <3>4, <3>5, <4>2
        <5> HIDE DEF dd, bb
        <5>3. QED
          BY <4>2, <5>1, <5>2
      <4>3. QED
        BY <4>1, <4>2
    <3>7. ASSUME NEW i \in 1 .. Len(t[k]), NEW j \in 1 .. Len(t[k]), i # j
          PROVE  dd[i] # dd[j] \/ bb[i] # bb[j]
      <4>1. CASE i <= Len(u) /\ j <= Len(u)
        <5>1. i \in 1 .. Len(u) /\ j \in 1 .. Len(u) /\ dd[i] = d[i] /\ dd[j] = d[j] /\ bb[i] = b[i] /\ bb[j] = b[j]
          BY <3>6, <4>1
        <5>2. d[i] # d[j] \/ b[i] # b[j]
          BY <3>2, <3>3, <3>7, <5>1 DEF Sorted
        <5> HIDE DEF dd, bb
        <5>3. QED
          BY <5>1, <5>2
      <4>2. CASE ~(i <= Len(u)) /\ ~(j <= Len(u))
        <5>1. dd[i] = k /\ dd[j] = k /\ bb[i] = i - Len(u) /\ bb[j] = j - Len(u)
          BY <3>6, <4>2
        <5>2. i - Len(u) # j - Len(u)
          BY <2>1, <3>4, <3>7
        <5> HIDE DEF dd, bb
        <5>3. QED
          BY <5>1, <5>2
      <4>3. CASE (i <= Len(u)) # (j <= Len(u))
        <5>1. dd[i] # dd[j]
          <6> HIDE DEF dd, bb
          <6>1. CASE i <= Len(u)
            <7>1. dd[i] = d[i] /\ d[i] < k /\ dd[j] = k /\ d[i] \in Int
              BY <2>1, <3>6, <4>3, <6>1
            <7>2. QED
              BY <2>1, <7>1
          <6>2. CASE j <= Len(u)
            <7>1. dd[j] = d[j] /\ d[j] < k /\ dd[i] = k /\ d[j] \in Int
              BY <2>1, <3>6, <4>3, <6>2
            <7>2. QED
              BY <2>1, <7>1
          <6>3. QED
            BY <4>3, <6>1, <6>2
        <5> HIDE DEF dd, bb
        <5>2. QED
          BY <5>1
      <4>4. QED
        BY <4>1, <4>2, <4>3
    <3>8. ASSUME NEW l \in 1 .. k, NEW m \in 1 .. Len(s[l])
          PROVE  \E i \in 1 .. Len(t[k]) : dd[i] = l /\ bb[i] = m
      <4>1. CASE l = k
        <5>1. Len(u) + m \in 1 .. Len(t[k]) /\ ~(Len(u) + m <= Len(u)) /\ (Len(u) + m) - Len(u) = m
          BY <2>1, <3>4, <3>5, <3>8, <4>1
        <5>2. dd[Len(u) + m] = k /\ bb[Len(u) + m] = m
          BY <5>1
        <5>3. QED
          BY <4>1, <5>1, <5>2
      <4>2. CASE l # k
        <5>1. l \in 1 .. k - 1
          BY <2>1, <3>8, <4>2
        <5>2. PICK i \in 1 .. Len(u) : d[i] = l /\ b[i] = m
          BY <3>2, <3>3, <5>1 DEF Sorted
        <5>3. i \in 1 .. Len(t[k]) /\ i <= Len(u)
          BY <2>1, <3>4, <3>5
        <5>4. QED
          BY <5>2, <5>3
      <4>3. QED
        BY <4>1, <4>2
    <3>9. Sorted(t[k], s, k, dd, bb)
      <4> HIDE DEF dd, bb
      <4> QED BY <3>6, <3>7, <3>8 DEF Sorted
    <3>10. QED
      BY <2>1, <3>9
  <2>4. QED
    BY <2>2, <2>3
<1>6. \A k \in 0 .. Len(s) : k \in C
  <2> HIDE DEF C
  <2> QED BY <1>3, <1>4, <1>5, CountUp
<1>7. Len(s) \in C /\ Len(s) \in 1 .. Len(s)
  <2> HIDE DEF C
  <2> QED BY <1>3, <1>6
<1>8. QED
  BY <1>2, <1>3, <1>7

-----------------------------------------------------------------------------
(* What is reported.                                                       *)

PartsOf(e) == {e.parts[i] : i \in DOMAIN e.parts}

(* What is written where it has a place, and so many deep in this.         *)
Kept == {source[i].body : i \in {i \in DOMAIN source : ~Misplaced(i)}}
Deep ==
  LET deep[k \in Nat] ==
        IF k = 0 THEN Kept
        ELSE LET above == deep[k - 1]
             IN  above \cup UNION {{e.parts[i] : i \in DOMAIN e.parts} : e \in above}
  IN  deep

(* What has a place is elements.                                           *)
LEMMA KeptFacts == BuilderTypes => Kept \subseteq Elements
<1> SUFFICES ASSUME BuilderTypes, NEW i \in DOMAIN source PROVE source[i].body \in Elements
  BY DEF Kept
<1>1. source[i] \in Definitions
  BY DEF BuilderTypes
<1>2. QED
  BY <1>1, BuilderAssumption

(* Each round adds the parts of what is there.                             *)
LEMMA DeepFacts ==
  ASSUME BuilderTypes
  PROVE  /\ Deep[0] = Kept /\ \A k \in Nat : Deep[k] \subseteq Elements
         /\ \A k \in Nat : Deep[k + 1] = Deep[k] \cup UNION {PartsOf(e) : e \in Deep[k]}
         /\ \A k, m \in Nat : k <= m => Deep[k] \subseteq Deep[m]
<1> DEFINE V == SUBSET Elements
           h == [x \in (Nat \ {0}) \X V |-> x[2] \cup UNION {PartsOf(e) : e \in x[2]}]
           P(g) == g = [k \in Nat |-> IF k = 0 THEN Kept
                                      ELSE g[k - 1] \cup UNION {PartsOf(e) : e \in g[k - 1]}]
<1>1. Kept \in V
  BY KeptFacts
<1>2. \A e \in Elements : PartsOf(e) \subseteq Elements
  <2> SUFFICES ASSUME NEW e \in Elements, NEW i \in DOMAIN e.parts PROVE e.parts[i] \in Elements
    BY DEF PartsOf
  <2>1. e.parts \in Seq(Elements)
    BY BuilderAssumption DEF ElementShape
  <2>2. QED
    BY <2>1
<1>3. h \in [(Nat \ {0}) \X V -> V]
  BY <1>2
<1>4. \E g \in [Nat -> V] : IteratesOn(g, Kept, h)
  <2> HIDE DEF V, h
  <2> QED BY <1>1, <1>3, IterationOnExists
<1>5. PICK g \in [Nat -> V] : IteratesOn(g, Kept, h)
  BY <1>4
<1>6. P(g)
  <2>1. ASSUME NEW k \in Nat, k # 0
        PROVE  g[k] = g[k - 1] \cup UNION {PartsOf(e) : e \in g[k - 1]}
    <3>1. k - 1 \in Nat /\ k \in Nat \ {0}
      BY <2>1
    <3>2. g[k - 1] \in V
      BY <1>5, <3>1
    <3>3. g[k] = h[<<k, g[k - 1]>>]
      BY <1>5, <3>1 DEF IteratesOn
    <3>4. QED
      BY <3>1, <3>2, <3>3
  <2>2. g[0] = Kept
    BY <1>5 DEF IteratesOn
  <2>3. QED
    BY <1>5, <2>1, <2>2
<1>7. Deep = CHOOSE f : P(f)
  BY DEF Deep, PartsOf
<1>8. P(Deep)
  <2> HIDE DEF P
  <2> QED BY <1>6, <1>7
<1>9. Deep[0] = Kept
  BY <1>8
<1>10. ASSUME NEW k \in Nat PROVE Deep[k + 1] = Deep[k] \cup UNION {PartsOf(e) : e \in Deep[k]}
  <2>1. k + 1 \in Nat /\ k + 1 # 0 /\ (k + 1) - 1 = k
    OBVIOUS
  <2>2. QED
    BY <1>8, <2>1
<1> HIDE DEF P, h
<1> DEFINE A == {k \in Nat : Deep[k] \subseteq Elements}
<1>11. \A k \in Nat : k \in A
  <2>1. 0 \in A
    BY <1>1, <1>9
  <2>2. \A k \in Nat : k \in A => k + 1 \in A
    BY <1>2, <1>10
  <2> HIDE DEF A
  <2>3. QED
    BY <2>1, <2>2, CountOn
<1>12. ASSUME NEW k \in Nat, NEW m \in Nat, k <= m PROVE Deep[k] \subseteq Deep[m]
  <2> DEFINE B == {j \in Nat : Deep[k] \subseteq Deep[k + j]}
  <2>1. 0 \in B
    BY k + 0 = k
  <2>2. ASSUME NEW j \in Nat, j \in B PROVE j + 1 \in B
    <3>1. k + (j + 1) = (k + j) + 1 /\ k + j \in Nat
      OBVIOUS
    <3>2. Deep[k + j] \subseteq Deep[k + (j + 1)]
      BY <1>10, <3>1
    <3>3. QED
      BY <2>2, <3>2
  <2>3. \A j \in Nat : j \in B
    <3> HIDE DEF B
    <3> QED BY <2>1, <2>2, CountOn
  <2>4. m - k \in Nat /\ k + (m - k) = m
    BY <1>12
  <2>5. QED
    BY <2>3, <2>4
<1>13. QED
  BY <1>9, <1>10, <1>11, <1>12

-----------------------------------------------------------------------------
(* What is written in different places of an element.                      *)
Apart(e, spans) ==
  /\ \A i \in DOMAIN e.parts : OwnSpan(e) \cap spans[e.parts[i]] = {}
  /\ \A i, j \in DOMAIN e.parts : i # j => spans[e.parts[i]] \cap spans[e.parts[j]] = {}

(* The branches of what was written, apart from each other.                *)
LEMMA BranchFacts ==
  ASSUME NEW spans, SpansApart(spans), NEW e \in Elements
  PROVE  /\ spans[e] = SpansIn(e, spans) /\ Apart(e, spans)
         /\ \A i \in DOMAIN e.parts : spans[e.parts[i]] \subseteq spans[e]
         /\ BranchesOf(e) \in Seq(Elements)
         /\ \A m \in 1 .. Len(BranchesOf(e)) : spans[BranchesOf(e)[m]] \subseteq spans[e]
         /\ \A m, n \in 1 .. Len(BranchesOf(e)) :
              m # n => spans[BranchesOf(e)[m]] \cap spans[BranchesOf(e)[n]] = {}
         /\ e.kind = "alt" => BranchesOf(e) = e.parts
         /\ e.kind # "alt" => BranchesOf(e) = <<e>>
<1>1. spans[e] = SpansIn(e, spans) /\ Apart(e, spans)
  BY DEF SpansApart, Apart
<1>2. \A i \in DOMAIN e.parts : spans[e.parts[i]] \subseteq spans[e]
  BY <1>1 DEF SpansIn
<1>3. e.parts \in Seq(Elements)
  BY BuilderAssumption DEF ElementShape
<1>4. CASE e.kind = "alt"
  <2>1. BranchesOf(e) = e.parts
    BY <1>4 DEF BranchesOf
  <2>2. DOMAIN e.parts = 1 .. Len(e.parts)
    BY <1>3
  <2>3. QED
    BY <1>1, <1>2, <1>3, <1>4, <2>1, <2>2 DEF Apart
<1>5. CASE e.kind # "alt"
  <2>1. BranchesOf(e) = <<e>>
    BY <1>5 DEF BranchesOf
  <2>2. Len(<<e>>) = 1 /\ <<e>>[1] = e /\ <<e>> \in Seq(Elements) /\ <<e>> # << >>
    OBVIOUS
  <2>3. QED
    BY <1>1, <1>2, <1>5, <2>1, <2>2
<1>6. QED
  BY <1>4, <1>5

(* What a body is made of, when it is made of definitions: nothing twice,  *)
(* nothing but what is written in them, and all of it.                     *)
LEMMA MadeApart ==
  ASSUME BuilderTypes, source \in Sources, NEW spans, SpansApart(spans),
         NEW b \in Bodies, NEW D \in SUBSET (1 .. Len(source)), \A i \in D : ~Misplaced(i),
         NEW ds, IsList(ds, D), MadeOf(b, ds)
  PROVE  /\ Apart(b, spans)
         /\ SpansIn(b, spans) \subseteq UNION {spans[source[i].body] : i \in D}
         /\ PartsOf(b) \subseteq Deep[1] /\ (b \in Kept \/ b.kind = "alt")
         /\ \A i \in D : \/ source[i].body = b \/ source[i].body \in PartsOf(b)
                         \/ source[i].body.kind = "alt" /\ PartsOf(source[i].body) \subseteq PartsOf(b)
<1>1. /\ DOMAIN source = 1 .. Len(source) /\ Len(source) \in Nat
      /\ \A i \in D : i \in DOMAIN source /\ source[i].body \in Elements /\ source[i].body \in Kept
  <2>1. source \in Seq(Definitions)
    BY DEF BuilderTypes
  <2>2. DOMAIN source = 1 .. Len(source) /\ Len(source) \in Nat
    BY <2>1
  <2>3. \A i \in D : i \in DOMAIN source /\ source[i].body \in Kept
    BY <2>2 DEF Kept
  <2>4. QED
    BY <2>2, <2>3, KeptFacts
<1>2. /\ ds \in Seq(D) /\ Len(ds) \in Nat /\ DOMAIN ds = 1 .. Len(ds) /\ Len(ds) > 0
      /\ \A k \in 1 .. Len(ds) : ds[k] \in D /\ ds[k] \in Nat
      /\ \A i \in D : \E k \in 1 .. Len(ds) : ds[k] = i
      /\ \A k, l \in 1 .. Len(ds) : k # l => ds[k] # ds[l]
  <2>1. D \in SUBSET Nat
    BY <1>1
  <2>2. /\ ds \in Seq(D) /\ Len(ds) \in Nat /\ DOMAIN ds = 1 .. Len(ds)
        /\ \A k \in 1 .. Len(ds) : ds[k] \in D /\ ds[k] \in Nat
        /\ \A i \in D : \E k \in 1 .. Len(ds) : ds[k] = i
        /\ \A k, l \in 1 .. Len(ds) : k < l => ds[k] < ds[l]
    BY <2>1, ListFacts
  <2>3. ds # << >>
    BY DEF MadeOf
  <2>4. Len(ds) > 0
    BY <2>2, <2>3
  <2>5. ASSUME NEW k \in 1 .. Len(ds), NEW l \in 1 .. Len(ds), k # l PROVE ds[k] # ds[l]
    <3>1. k < l \/ l < k
      BY <2>2, <2>5
    <3>2. ds[k] < ds[l] \/ ds[l] < ds[k]
      BY <2>2, <3>1
    <3>3. QED
      BY <2>2, <3>2
  <2>6. QED
    BY <2>2, <2>4, <2>5
<1>3. /\ Deep[0] = Kept /\ Deep[1] = Kept \cup UNION {PartsOf(e) : e \in Kept}
  <2>1. Deep[0] = Kept /\ Deep[0 + 1] = Deep[0] \cup UNION {PartsOf(e) : e \in Deep[0]}
    BY DeepFacts
  <2>2. QED
    BY <2>1
<1>4. CASE Len(ds) = 1
  <2>1. b = source[ds[1]].body /\ ds[1] \in D
    BY <1>2, <1>4 DEF MadeOf
  <2>2. b \in Elements /\ b \in Kept
    BY <1>1, <2>1
  <2>3. \A i \in D : i = ds[1]
    BY <1>2, <1>4
  <2>4. Apart(b, spans) /\ spans[b] = SpansIn(b, spans)
    BY <2>2, BranchFacts
  <2>5. PartsOf(b) \subseteq Deep[1]
    BY <1>3, <2>2
  <2>6. QED
    BY <2>1, <2>2, <2>3, <2>4, <2>5
<1>5. CASE Len(ds) # 1
  <2> DEFINE bs == [k \in DOMAIN ds |-> BranchesOf(source[ds[k]].body)]
  <2>1. b.kind = "alt" /\ b.parts = FlattenSeq(bs)
    BY <1>2, <1>5 DEF MadeOf, BranchesOf
  <2>2. /\ DOMAIN bs = 1 .. Len(ds)
        /\ \A k \in 1 .. Len(ds) : bs[k] = BranchesOf(source[ds[k]].body) /\ bs[k] \in Seq(Elements)
    <3>1. \A k \in 1 .. Len(ds) : source[ds[k]].body \in Elements
      BY <1>1, <1>2
    <3>2. \A e \in Elements : BranchesOf(e) \in Seq(Elements)
      <4>1. \A e \in Elements : e.parts \in Seq(Elements) /\ <<e>> \in Seq(Elements)
        BY BuilderAssumption DEF ElementShape
      <4>2. QED
        BY <4>1 DEF BranchesOf
    <3>3. QED
      BY <1>2, <3>1, <3>2
  <2>3. bs \in Seq(Seq(Elements)) /\ Len(bs) = Len(ds) /\ bs # << >>
    <3>1. bs \in [1 .. Len(ds) -> Seq(Elements)]
      BY <1>2, <2>2
    <3> HIDE DEF bs
    <3>2. bs \in Seq(Seq(Elements))
      BY <1>2, <3>1, SeqDef
    <3>3. QED
      BY <1>2, <2>2, <3>2
  <2> HIDE DEF bs
  <2>4. b.parts \in Seq(Elements) /\ \E d, c : Sorted(b.parts, bs, Len(ds), d, c)
    BY <2>1, <2>3, JoinPlaces
  <2>5. PICK d, c : Sorted(b.parts, bs, Len(ds), d, c)
    BY <2>4
  <2>6. DOMAIN b.parts = 1 .. Len(b.parts) /\ OwnSpan(b) = {}
    BY <2>1, <2>4 DEF OwnSpan
  <2> DEFINE W(i) == source[ds[d[i]]].body
  <2>7. ASSUME NEW i \in DOMAIN b.parts
        PROVE  /\ d[i] \in 1 .. Len(ds) /\ ds[d[i]] \in D /\ W(i) \in Elements /\ W(i) \in Kept
               /\ c[i] \in 1 .. Len(BranchesOf(W(i))) /\ b.parts[i] = BranchesOf(W(i))[c[i]]
               /\ spans[b.parts[i]] \subseteq spans[W(i)]
    <3>1. d[i] \in 1 .. Len(ds) /\ c[i] \in 1 .. Len(bs[d[i]]) /\ b.parts[i] = bs[d[i]][c[i]]
      BY <2>5, <2>6 DEF Sorted
    <3>2. ds[d[i]] \in D /\ bs[d[i]] = BranchesOf(W(i))
      BY <1>2, <2>2, <3>1
    <3>3. W(i) \in Elements /\ W(i) \in Kept
      BY <1>1, <3>2
    <3> HIDE DEF W
    <3>4. spans[BranchesOf(W(i))[c[i]]] \subseteq spans[W(i)]
      BY <3>1, <3>2, <3>3, BranchFacts
    <3>5. QED
      BY <3>1, <3>2, <3>3, <3>4 DEF W
  <2>8. ASSUME NEW i \in DOMAIN b.parts, NEW j \in DOMAIN b.parts, i # j
        PROVE  spans[b.parts[i]] \cap spans[b.parts[j]] = {}
    <3>1. CASE d[i] = d[j]
      <4>1. c[i] # c[j] /\ W(i) = W(j)
        BY <2>5, <2>6, <2>8, <3>1 DEF Sorted
      <4>2. /\ c[i] \in 1 .. Len(BranchesOf(W(i))) /\ b.parts[i] = BranchesOf(W(i))[c[i]]
            /\ c[j] \in 1 .. Len(BranchesOf(W(i))) /\ b.parts[j] = BranchesOf(W(i))[c[j]]
            /\ W(i) \in Elements
        BY <2>7, <4>1
      <4>3. PICK e \in Elements : e = W(i)
        BY <4>2
      <4> HIDE DEF W
      <4>4. \A m, n \in 1 .. Len(BranchesOf(e)) :
              m # n => spans[BranchesOf(e)[m]] \cap spans[BranchesOf(e)[n]] = {}
        BY BranchFacts
      <4>5. QED
        BY <4>1, <4>2, <4>3, <4>4
    <3>2. CASE d[i] # d[j]
      <4>1. ds[d[i]] # ds[d[j]] /\ ds[d[i]] \in DOMAIN source /\ ds[d[j]] \in DOMAIN source
        BY <1>1, <1>2, <2>7, <3>2
      <4>2. spans[W(i)] \cap spans[W(j)] = {}
        BY <4>1 DEF SpansApart
      <4>3. spans[b.parts[i]] \subseteq spans[W(i)] /\ spans[b.parts[j]] \subseteq spans[W(j)]
        BY <2>7
      <4> HIDE DEF W
      <4>4. QED
        BY <4>2, <4>3
    <3>3. QED
      BY <3>1, <3>2
  <2>9. Apart(b, spans)
    BY <2>6, <2>8 DEF Apart
  <2>10. SpansIn(b, spans) \subseteq UNION {spans[source[i].body] : i \in D}
    <3>1. SpansIn(b, spans) = UNION {spans[b.parts[i]] : i \in DOMAIN b.parts}
      BY <2>6 DEF SpansIn
    <3>2. ASSUME NEW i \in DOMAIN b.parts
          PROVE  \E j \in D : spans[b.parts[i]] \subseteq spans[source[j].body]
      BY <2>7
    <3>3. QED
      BY <3>1, <3>2
  <2>11. ASSUME NEW i \in DOMAIN b.parts PROVE b.parts[i] \in Deep[1]
    <3>1. PICK e \in Kept : e = W(i)
      BY <2>7
    <3>2. c[i] \in 1 .. Len(BranchesOf(e)) /\ b.parts[i] = BranchesOf(e)[c[i]]
      BY <2>7, <3>1
    <3>3. CASE e.kind = "alt"
      <4>1. BranchesOf(e) = e.parts /\ e.parts \in Seq(Elements)
        BY <3>3, KeptFacts, BuilderAssumption DEF BranchesOf, ElementShape
      <4>2. b.parts[i] \in PartsOf(e)
        BY <3>2, <4>1 DEF PartsOf
      <4>3. QED
        BY <1>3, <4>2
    <3>4. CASE e.kind # "alt"
      <4>1. BranchesOf(e) = <<e>>
        BY <3>4 DEF BranchesOf
      <4>2. b.parts[i] = e
        BY <3>2, <4>1
      <4>3. QED
        BY <1>3, <4>2
    <3>5. QED
      BY <3>3, <3>4
  <2>12. PartsOf(b) \subseteq Deep[1]
    BY <2>11 DEF PartsOf
  <2>13. ASSUME NEW i \in D
         PROVE  \/ source[i].body \in PartsOf(b)
                \/ source[i].body.kind = "alt" /\ PartsOf(source[i].body) \subseteq PartsOf(b)
    <3>1. PICK k \in 1 .. Len(ds) : ds[k] = i
      BY <1>2
    <3>2. PICK e \in Elements : e = source[i].body
      BY <1>1
    <3>3. bs[k] = BranchesOf(e)
      BY <2>2, <3>1, <3>2
    <3>4. \A m \in 1 .. Len(bs[k]) : bs[k][m] \in PartsOf(b)
      <4> SUFFICES ASSUME NEW m \in 1 .. Len(bs[k]) PROVE bs[k][m] \in PartsOf(b)
        OBVIOUS
      <4>1. PICK j \in 1 .. Len(b.parts) : d[j] = k /\ c[j] = m
        BY <2>5 DEF Sorted
      <4>2. b.parts[j] = bs[k][m]
        BY <2>5, <4>1 DEF Sorted
      <4>3. QED
        BY <2>6, <4>2 DEF PartsOf
    <3>5. CASE e.kind = "alt"
      <4>1. bs[k] = e.parts /\ e.parts \in Seq(Elements)
        BY <3>3, <3>5, BuilderAssumption DEF BranchesOf, ElementShape
      <4>2. \A m \in DOMAIN e.parts : m \in 1 .. Len(bs[k])
        BY <4>1
      <4>3. PartsOf(e) \subseteq PartsOf(b)
        BY <3>4, <4>1, <4>2 DEF PartsOf
      <4>4. QED
        BY <3>2, <3>5, <4>3
    <3>6. CASE e.kind # "alt"
      <4>1. bs[k] = <<e>>
        BY <3>3, <3>6 DEF BranchesOf
      <4>2. Len(bs[k]) = 1 /\ bs[k][1] = e
        BY <4>1
      <4>3. e \in PartsOf(b)
        BY <3>4, <4>2
      <4>4. QED
        BY <3>2, <4>3
    <3>7. QED
      BY <3>5, <3>6
  <2>14. QED
    BY <2>1, <2>9, <2>10, <2>12, <2>13
<1>6. QED
  BY <1>4, <1>5

(* The definitions a rule of the user is made of.                          *)
Rule(r) == Entry(r).body

(* Each definition that has a place is of one founder, and of no other.    *)
LEMMA OneFounder ==
  ASSUME BuilderTypes
  PROVE  /\ \A i \in 1 .. Len(source) : ~Misplaced(i) => \E f \in Founders : i \in DefinitionsOf(f)
         /\ \A f, g \in Founders : f # g => DefinitionsOf(f) \cap DefinitionsOf(g) = {}
         /\ \A f \in Founders : \A i \in DefinitionsOf(f) : i \in 1 .. Len(source) /\ ~Misplaced(i)
<1>1. DOMAIN source = 1 .. Len(source) /\ Len(source) \in Nat
  BY DEF BuilderTypes
<1>2. ASSUME NEW i \in 1 .. Len(source), ~Misplaced(i)
      PROVE  \E f \in Founders : i \in DefinitionsOf(f)
  <2>1. CASE IsBase(i)
    <3>1. i \in Founders
      BY <1>1, <1>2, <2>1 DEF Founders
    <3>2. i \in DefinitionsOf(i)
      BY <1>1, <1>2 DEF DefinitionsOf, Alike
    <3>3. QED
      BY <3>1, <3>2
  <2>2. CASE ~IsBase(i)
    <3> DEFINE B == {j \in 1 .. i - 1 : IsBase(j) /\ Alike(i, j)}
    <3>1. B # {} /\ B \in SUBSET Nat
      BY <1>1, <1>2, <2>2 DEF Misplaced
    <3>2. PICK f \in B : \A j \in B : f <= j
      <4> HIDE DEF B
      <4> QED BY <3>1, LeastExists
    <3>3. f \in 1 .. i - 1 /\ IsBase(f) /\ Alike(i, f) /\ f \in DOMAIN source /\ f \in Nat
      BY <1>1
    <3>4. ASSUME NEW j \in 1 .. f - 1, IsBase(j), Alike(f, j) PROVE FALSE
      <4>1. j \in 1 .. i - 1 /\ Alike(i, j) /\ j < f
        BY <1>1, <3>3, <3>4 DEF Alike
      <4>2. f <= j
        BY <3>2, <3>4, <4>1
      <4>3. QED
        BY <3>3, <4>1, <4>2
    <3>5. f \in Founders
      BY <3>3, <3>4 DEF Founders, Misplaced
    <3>6. i \in DefinitionsOf(f)
      BY <1>1, <1>2, <3>3 DEF DefinitionsOf
    <3>7. QED
      BY <3>5, <3>6
  <2>3. QED
    BY <2>1, <2>2
<1>3. ASSUME NEW f \in Founders, NEW g \in Founders, f < g, Alike(g, f) PROVE FALSE
  <2>1. f \in 1 .. g - 1 /\ IsBase(f)
    BY <1>1, <1>3 DEF Founders
  <2>2. Misplaced(g)
    BY <1>3, <2>1 DEF Misplaced, Founders
  <2>3. QED
    BY <2>2 DEF Founders
<1>4. ASSUME NEW f \in Founders, NEW g \in Founders, f # g, NEW i \in DefinitionsOf(f),
             i \in DefinitionsOf(g)
      PROVE  FALSE
  <2>1. Alike(g, f) /\ Alike(f, g)
    BY <1>4 DEF DefinitionsOf, Alike
  <2>2. f < g \/ g < f
    BY <1>1, <1>4 DEF Founders
  <2>3. QED
    BY <1>3, <2>1, <2>2
<1>5. QED
  BY <1>1, <1>2, <1>4 DEF DefinitionsOf

(* What the user's rules are: no two share a place, nothing of them is a   *)
(* definition's own place, and all that has a place is in them.            *)
LEMMA UserRules ==
  ASSUME BuilderInv, MergedInv, Past = Len(source), source \in Sources,
         NEW spans, SpansApart(spans)
  PROVE  /\ \A r \in 1 .. Len(order) :
              /\ Rule(r) \in Bodies /\ Apart(Rule(r), spans)
              /\ PartsOf(Rule(r)) \subseteq Deep[1] /\ (Rule(r) \in Kept \/ Rule(r).kind = "alt")
              /\ \A i \in DOMAIN source : source[i].span \notin SpansIn(Rule(r), spans)
         /\ \A r, q \in 1 .. Len(order) :
              r # q => SpansIn(Rule(r), spans) \cap SpansIn(Rule(q), spans) = {}
         /\ \A e \in Kept : \E r \in 1 .. Len(order) :
              \/ e = Rule(r) \/ e \in PartsOf(Rule(r))
              \/ e.kind = "alt" /\ PartsOf(e) \subseteq PartsOf(Rule(r))
         /\ {order[r] : r \in 1 .. Len(order)} = {KeyOf[source[i].name] : i \in Founders}
<1>1. BuilderTypes /\ DOMAIN source = 1 .. Len(source) /\ Founders \in SUBSET Nat
      /\ \A f \in Founders : DefinitionsOf(f) \in SUBSET (1 .. Len(source))
  <2>1. BuilderTypes
    BY DEF BuilderInv
  <2>2. DOMAIN source = 1 .. Len(source)
    BY <2>1 DEF BuilderTypes
  <2>3. QED
    BY <2>1, <2>2, PlacesAreNumbers
<1>2. \A S \in SUBSET (1 .. Len(source)) : Met(S) = S
  <2>1. Len(source) \in Nat
    BY <1>1 DEF BuilderTypes
  <2>2. ASSUME NEW S \in SUBSET (1 .. Len(source)) PROVE {i \in S : i <= Past} = S
    <3>1. ASSUME NEW i \in S PROVE i <= Past
      <4>1. i \in 1 .. Len(source)
        OBVIOUS
      <4>2. i <= Len(source)
        BY <2>1, <4>1
      <4>3. QED
        BY <4>2
    <3>2. QED
      BY <3>1
  <2>3. QED
    BY <2>2 DEF Met
<1>3. PICK fs : /\ IsList(fs, Founders) /\ Len(fs) = Len(order)
                /\ \A r \in 1 .. Len(order) : Says(r, fs[r])
  <2>1. Met(Founders) = Founders
    BY <1>1, <1>2, PlacesAreNumbers
  <2>2. QED
    BY <2>1 DEF MergedInv
<1>4. /\ Len(order) \in Nat
      /\ \A r \in 1 .. Len(order) : fs[r] \in Founders /\ fs[r] \in Nat
      /\ \A f \in Founders : \E r \in 1 .. Len(order) : fs[r] = f
      /\ \A r, q \in 1 .. Len(order) : r < q => fs[r] < fs[q]
  <2>1. /\ fs \in Seq(Founders) /\ Len(fs) \in Nat
        /\ \A r \in 1 .. Len(fs) : fs[r] \in Founders /\ fs[r] \in Nat
        /\ \A f \in Founders : \E r \in 1 .. Len(fs) : fs[r] = f
        /\ \A r, q \in 1 .. Len(fs) : r < q => fs[r] < fs[q]
    BY <1>1, <1>3, ListFacts
  <2>2. QED
    BY <1>3, <2>1
<1>5. ASSUME NEW r \in 1 .. Len(order)
      PROVE  /\ Rule(r) \in Bodies /\ Apart(Rule(r), spans)
             /\ PartsOf(Rule(r)) \subseteq Deep[1] /\ (Rule(r) \in Kept \/ Rule(r).kind = "alt")
             /\ SpansIn(Rule(r), spans) \subseteq UNION {spans[source[i].body] : i \in DefinitionsOf(fs[r])}
             /\ \A i \in DefinitionsOf(fs[r]) :
                  \/ source[i].body = Rule(r) \/ source[i].body \in PartsOf(Rule(r))
                  \/ source[i].body.kind = "alt" /\ PartsOf(source[i].body) \subseteq PartsOf(Rule(r))
             /\ order[r] = KeyOf[source[fs[r]].name]
  <2>1. Says(r, fs[r])
    BY <1>3
  <2>2. PICK b : b = collected[order[r]].body
    OBVIOUS
  <2>3. b = Rule(r)
    BY <1>4, <2>2 DEF Rule, Entry
  <2>4. b \in Bodies
    <3>1. order[r] \in DOMAIN collected
      BY <1>1, <1>4 DEF BuilderTypes
    <3>2. collected[order[r]] \in [name : DOMAIN KeyOf, body : Bodies]
      BY <1>1, <3>1 DEF BuilderTypes
    <3>3. QED
      BY <2>2, <3>2
  <2>5. PICK D \in SUBSET (1 .. Len(source)) : D = DefinitionsOf(fs[r])
    BY <1>1, <1>4
  <2>6. PICK ds : IsList(ds, D) /\ MadeOf(b, ds)
    BY <1>2, <2>1, <2>2, <2>5 DEF Says
  <2>7. \A i \in D : ~Misplaced(i)
    BY <2>5 DEF DefinitionsOf
  <2>8. /\ Apart(b, spans)
        /\ SpansIn(b, spans) \subseteq UNION {spans[source[i].body] : i \in D}
        /\ PartsOf(b) \subseteq Deep[1] /\ (b \in Kept \/ b.kind = "alt")
        /\ \A i \in D : \/ source[i].body = b \/ source[i].body \in PartsOf(b)
                        \/ source[i].body.kind = "alt" /\ PartsOf(source[i].body) \subseteq PartsOf(b)
    BY <1>1, <2>4, <2>6, <2>7, MadeApart
  <2>9. order[r] = KeyOf[source[fs[r]].name]
    BY <2>1 DEF Says, Key
  <2>10. QED
    BY <2>3, <2>4, <2>5, <2>8, <2>9
<1>6. ASSUME NEW r \in 1 .. Len(order), NEW i \in DOMAIN source
      PROVE  source[i].span \notin SpansIn(Rule(r), spans)
  <2>1. \A j \in DefinitionsOf(fs[r]) : source[i].span \notin spans[source[j].body]
    BY <1>1, <1>4 DEF SpansApart
  <2>2. QED
    BY <1>5, <2>1
<1>7. ASSUME NEW r \in 1 .. Len(order), NEW q \in 1 .. Len(order), r # q
      PROVE  SpansIn(Rule(r), spans) \cap SpansIn(Rule(q), spans) = {}
  <2>1. fs[r] # fs[q]
    <3>1. r < q \/ q < r
      BY <1>4, <1>7
    <3>2. fs[r] < fs[q] \/ fs[q] < fs[r]
      BY <1>4, <3>1
    <3>3. QED
      BY <1>4, <3>2
  <2>2. DefinitionsOf(fs[r]) \cap DefinitionsOf(fs[q]) = {}
    BY <1>1, <1>4, <2>1, OneFounder
  <2>3. ASSUME NEW i \in DefinitionsOf(fs[r]), NEW j \in DefinitionsOf(fs[q])
        PROVE  spans[source[i].body] \cap spans[source[j].body] = {}
    <3>1. i # j /\ i \in DOMAIN source /\ j \in DOMAIN source
      BY <1>1, <1>4, <2>2
    <3>2. QED
      BY <3>1 DEF SpansApart
  <2>4. ASSUME NEW x, x \in SpansIn(Rule(r), spans), x \in SpansIn(Rule(q), spans)
        PROVE  FALSE
    <3>1. PICK i \in DefinitionsOf(fs[r]) : x \in spans[source[i].body]
      BY <1>5, <2>4
    <3>2. PICK j \in DefinitionsOf(fs[q]) : x \in spans[source[j].body]
      BY <1>5, <2>4
    <3>3. QED
      BY <2>3, <3>1, <3>2
  <2>5. QED
    BY <2>4
<1>8. ASSUME NEW e \in Kept
      PROVE  \E r \in 1 .. Len(order) :
               \/ e = Rule(r) \/ e \in PartsOf(Rule(r))
               \/ e.kind = "alt" /\ PartsOf(e) \subseteq PartsOf(Rule(r))
  <2>1. PICK i \in 1 .. Len(source) : ~Misplaced(i) /\ source[i].body = e
    BY <1>1 DEF Kept
  <2>2. PICK f \in Founders : i \in DefinitionsOf(f)
    BY <1>1, <2>1, OneFounder
  <2>3. PICK r \in 1 .. Len(order) : fs[r] = f
    BY <1>4
  <2>4. QED
    BY <1>5, <2>1, <2>2, <2>3
<1>9. {order[r] : r \in 1 .. Len(order)} = {KeyOf[source[i].name] : i \in Founders}
  BY <1>4, <1>5
<1>10. QED
  BY <1>5, <1>6, <1>7, <1>8, <1>9

-----------------------------------------------------------------------------
(* What lowering complains of.                                             *)

(* The names that mean something to the user's rules.                      *)
Known == CoreKeys \cup {order[r] : r \in 1 .. Len(order)}
Faulty(e) == IsInverted(e) \/ (e.kind = "ref" /\ KeyOf[e.target] \notin Known)

(* One complaint of what is faulty, at its place, and none of anything else.*)
LEMMA ComplaintSays ==
  ASSUME BuilderTypes, NEW e
  PROVE  /\ stage = "user" /\ ~Faulty(e) => Complaints(e) = << >>
         /\ stage = "user" /\ Faulty(e) =>
              \E c : Complaints(e) = <<c>> /\ c.span = e.span /\ c.kind # "orphan"
         /\ stage = "core" /\ ~IsInverted(e) /\ (e.kind = "ref" => KeyOf[e.target] \in CoreKeys)
              => Complaints(e) = << >>
         /\ Faulty(e) => OwnSpan(e) = {e.span}
<1>1. ASSUME e.kind = "ref"
      PROVE  /\ stage = "user" => (Resolve(e.target) = None <=> KeyOf[e.target] \notin Known)
             /\ stage = "core" => (Resolve(e.target) = None <=> KeyOf[e.target] \notin CoreKeys)
  <2> DEFINE k    == KeyOf[e.target]
             user == {i \in DOMAIN order : order[i] = k}
             core == PositionsOf(k, CoreTable)
  <2>1. /\ DOMAIN order = 1 .. Len(order) /\ Len(order) \in Nat
        /\ DOMAIN CoreTable = 1 .. Len(CoreTable) /\ None \notin Nat
    BY BuilderAssumption DEF BuilderTypes
  <2>2. core # {} <=> k \in CoreKeys
    BY DEF PositionsOf, CoreKeys
  <2>3. user # {} <=> k \in {order[r] : r \in 1 .. Len(order)}
    BY <2>1
  <2>4. user # {} => (CHOOSE i \in user : TRUE) - 1 \in Nat
    <3>1. ASSUME user # {} PROVE (CHOOSE i \in user : TRUE) \in 1 .. Len(order)
      BY <2>1, <3>1
    <3>2. QED
      BY <2>1, <3>1
  <2>5. core # {} => Len(order) + (CHOOSE i \in core : TRUE) - 1 \in Nat
    <3>1. ASSUME core # {} PROVE (CHOOSE i \in core : TRUE) \in 1 .. Len(CoreTable)
      BY <2>1, <3>1 DEF PositionsOf
    <3>2. Len(CoreTable) \in Nat
      BY BuilderAssumption
    <3> HIDE DEF core
    <3>3. QED
      BY <2>1, <3>1, <3>2
  <2>6. Resolve(e.target) = IF stage = "user" /\ user # {} THEN (CHOOSE i \in user : TRUE) - 1
                            ELSE IF core # {} THEN Len(order) + (CHOOSE i \in core : TRUE) - 1
                            ELSE None
    BY DEF Resolve
  <2> HIDE DEF user, core
  <2>7. (Resolve(e.target) = None) <=> ((stage = "user" => user = {}) /\ core = {})
    BY <2>1, <2>4, <2>5, <2>6
  <2>8. QED
    BY <2>2, <2>3, <2>7 DEF Known
<1>2. IsInverted(e) => e.kind \in {"repeat", "num"}
  BY DEF IsInverted
<1>3. Faulty(e) => OwnSpan(e) = {e.span}
  BY <1>2 DEF Faulty, OwnSpan
<1>4. ASSUME stage = "user", ~Faulty(e) PROVE Complaints(e) = << >>
  BY <1>1, <1>4 DEF Complaints, Faulty
<1>5. ASSUME stage = "core", ~IsInverted(e), e.kind = "ref" => KeyOf[e.target] \in CoreKeys
      PROVE  Complaints(e) = << >>
  BY <1>1, <1>5 DEF Complaints
<1>6. ASSUME stage = "user", Faulty(e)
      PROVE  \E c : Complaints(e) = <<c>> /\ c.span = e.span /\ c.kind # "orphan"
  <2>1. CASE e.kind = "ref" /\ Resolve(e.target) = None
    <3>1. Complaints(e) = <<[kind |-> "undefined", span |-> e.span]>>
      BY <2>1 DEF Complaints
    <3>2. QED
      BY <3>1
  <2>2. CASE ~(e.kind = "ref" /\ Resolve(e.target) = None)
    <3>1. IsInverted(e)
      BY <1>1, <1>6, <2>2 DEF Faulty
    <3>2. Complaints(e) = <<[kind |-> e.kind, span |-> e.span]>>
      BY <2>2, <3>1 DEF Complaints
    <3>3. QED
      BY <1>2, <3>1, <3>2
  <2>3. QED
    BY <2>1, <2>2
<1>7. QED
  BY <1>3, <1>4, <1>5, <1>6

-----------------------------------------------------------------------------
(* What was reported, and what is yet to come.                             *)

Reported == {errors[i].span : i \in DOMAIN errors}

(* The places of the definitions met that have none.                       *)
Homeless == {source[i].span : i \in {i \in Met(DOMAIN source) : Misplaced(i)}}

(* Each place is reported once; and of an orphan it is told right whether  *)
(* it is called like a core rule.                                          *)
ReportedOnce == \A i, j \in DOMAIN errors : i # j => errors[i].span # errors[j].span
OrphansTold ==
  \A i \in DOMAIN errors : errors[i].kind = "orphan" =>
    \E j \in DOMAIN source :
      /\ Misplaced(j) /\ source[j].span = errors[i].span
      /\ errors[i].shadows_core <=> Key(source[j]) \in CoreKeys

(* Of the activation `k` the parts that are lowered or being lowered, and  *)
(* those that are not yet.                                                 *)
Taken(k) == 1 .. Len(frames[k].parts) + IF k < Len(frames) THEN 1 ELSE 0
Left(k) == DOMAIN frames[k].element.parts \ Taken(k)

(* `S` is what was lowered of the user's rules.                            *)
Gathered(S) ==
  /\ S \subseteq Bodies
  /\ Reported = Homeless \cup {e.span : e \in {e \in S : Faulty(e)}}
  /\ \A e \in S : e \in Deep[Len(nodes)] \/ \E r \in 1 .. Len(order) : e = Rule(r)
  /\ \A r \in 1 .. Len(order) : r <= Len(rules) => Rule(r) \in S
  /\ \A e \in S : \/ PartsOf(e) \subseteq S
                  \/ stage = "user" /\ \E k \in 1 .. Len(frames) : frames[k].element = e

(* The activations of the user's rules lower what is gathered, and that is *)
(* no deeper than there are nodes.                                         *)
Gathering(S) ==
  stage = "user" => \A k \in 1 .. Len(frames) :
    /\ frames[k].element \in S
    /\ k = 1 => frames[k].element = Rule(Len(rules) + 1)
    /\ \A i \in Taken(k) : frames[k].element.parts[i] \in S
    /\ PartsOf(frames[k].element) \subseteq Deep[frames[k].id + 1]

(* The rules of the user that are begun.                                   *)
Begun == Len(rules) + IF frames = << >> THEN 0 ELSE 1

(* What is yet to be lowered is at places where nothing is reported and    *)
(* nothing else is.                                                        *)
Ahead(spans) ==
  stage = "user" =>
    /\ \A k \in 1 .. Len(frames) :
         /\ Apart(frames[k].element, spans)
         /\ \A i \in Left(k) : Reported \cap spans[frames[k].element.parts[i]] = {}
         /\ \A i \in Left(k) : \A j \in k + 1 .. Len(frames) :
              SpansIn(frames[j].element, spans) \cap spans[frames[k].element.parts[i]] = {}
         /\ \A r \in Begun + 1 .. Len(order) :
              SpansIn(frames[k].element, spans) \cap SpansIn(Rule(r), spans) = {}
    /\ \A r \in Begun + 1 .. Len(order) : Reported \cap SpansIn(Rule(r), spans) = {}

(* The core rules are being lowered, of which there is nothing to report.  *)
CoreLowered(core) ==
  stage = "core" => \A k \in 1 .. Len(frames) : frames[k].element \in core

DefectInv(spans, core) ==
  /\ source \in Sources /\ ReportedOnce /\ OrphansTold
  /\ stage = "merge" => Reported = Homeless
  /\ stage # "merge" => \E S : Gathered(S) /\ Gathering(S)
  /\ Ahead(spans) /\ CoreLowered(core)

(* Reporting one thing more.                                               *)
LEMMA ReportsMore ==
  ASSUME BuilderTypes, NEW c, errors' = Append(errors, c)
  PROVE  /\ Reported' = Reported \cup {c.span}
         /\ ReportedOnce /\ c.span \notin Reported => ReportedOnce'
         /\ source' = source /\ OrphansTold
              /\ (c.kind = "orphan" => \E j \in DOMAIN source :
                     /\ Misplaced(j) /\ source[j].span = c.span
                     /\ c.shadows_core <=> Key(source[j]) \in CoreKeys)
              => OrphansTold'
<1>1. /\ Len(errors) \in Nat /\ DOMAIN errors = 1 .. Len(errors)
      /\ DOMAIN errors' = 1 .. Len(errors) + 1 /\ errors'[Len(errors) + 1] = c
      /\ \A i \in 1 .. Len(errors) : errors'[i] = errors[i]
  <2>1. IsSequence(errors)
    BY DEF BuilderTypes
  <2>2. /\ IsSequence(errors') /\ Len(errors) \in Nat /\ Len(errors') = Len(errors) + 1
        /\ errors'[Len(errors) + 1] = c /\ \A i \in 1 .. Len(errors) : errors'[i] = errors[i]
    BY <2>1, AppendFacts
  <2>3. DOMAIN errors = 1 .. Len(errors) /\ DOMAIN errors' = 1 .. Len(errors')
    BY <2>1, <2>2 DEF IsSequence
  <2>4. QED
    BY <2>2, <2>3
<1>2. \A i \in DOMAIN errors' : i \in DOMAIN errors \/ i = Len(errors) + 1
  BY <1>1
<1>3. DOMAIN errors \subseteq DOMAIN errors' /\ Len(errors) + 1 \in DOMAIN errors'
  BY <1>1
<1>4. Reported' = Reported \cup {c.span}
  BY <1>1, <1>2, <1>3 DEF Reported
<1>5. ASSUME ReportedOnce, c.span \notin Reported PROVE ReportedOnce'
  BY <1>1, <1>2, <1>5 DEF ReportedOnce, Reported
<1>6. ASSUME source' = source, OrphansTold,
             c.kind = "orphan" => \E j \in DOMAIN source :
               /\ Misplaced(j) /\ source[j].span = c.span
               /\ c.shadows_core <=> Key(source[j]) \in CoreKeys
      PROVE  OrphansTold'
  <2>1. \A j : Misplaced(j)' = Misplaced(j) /\ Key(source[j])' = Key(source[j])
    BY <1>6 DEF Misplaced, IsBase, Alike, Key
  <2>2. CoreKeys' = CoreKeys
    BY DEF CoreKeys, Key
  <2>3. QED
    BY <1>1, <1>2, <1>6, <2>1, <2>2 DEF OrphansTold
<1>7. QED
  BY <1>4, <1>5, <1>6

(* What does not change lowering leaves these alone.                       *)
LEMMA DefectsStay ==
  ASSUME source' = source, order' = order, collected' = collected
  PROVE  /\ Deep' = Deep /\ Kept' = Kept /\ \A r : Rule(r)' = Rule(r)
         /\ \A e : Faulty(e)' = Faulty(e) /\ \A S : Past' = Past => Met(S)' = Met(S)
         /\ Past' = Past => Homeless' = Homeless
         /\ errors' = errors => Reported' = Reported
         /\ errors' = errors /\ ReportedOnce => ReportedOnce'
         /\ errors' = errors /\ OrphansTold => OrphansTold'
<1>1. \A j : Misplaced(j)' = Misplaced(j) /\ Key(source[j])' = Key(source[j])
  BY DEF Misplaced, IsBase, Alike, Key
<1>2. CoreKeys' = CoreKeys
  BY DEF CoreKeys, Key
<1>3. Kept' = Kept
  BY <1>1 DEF Kept
<1>4. Deep' = Deep
  BY <1>3 DEF Deep
<1>5. \A r : Rule(r)' = Rule(r)
  BY DEF Rule, Entry
<1>6. \A e : Faulty(e)' = Faulty(e)
  BY <1>2 DEF Faulty, Known, IsInverted
<1>7. Past' = Past => Homeless' = Homeless /\ \A S : Met(S)' = Met(S)
  BY <1>1 DEF Homeless, Met
<1>8. ASSUME errors' = errors
      PROVE  /\ Reported' = Reported
             /\ ReportedOnce => ReportedOnce'
             /\ OrphansTold => OrphansTold'
  BY <1>1, <1>2, <1>8 DEF Reported, ReportedOnce, OrphansTold
<1>9. QED
  BY <1>3, <1>4, <1>5, <1>6, <1>7, <1>8

(* Merging reports the definitions that have no place.                     *)
LEMMA MergeKeepsDefects ==
  ASSUME BuilderInv, MergedInv, Merge, NEW spans, SpansApart(spans), NEW core,
         DefectInv(spans, core)
  PROVE  DefectInv(spans, core)'
<1>1. /\ stage = "merge" /\ at \in 1 .. Len(source) /\ at \in Nat /\ Len(source) \in Nat
      /\ DOMAIN source = 1 .. Len(source)
      /\ at' = at + 1 /\ source' = source /\ stage' = stage
  BY MergeCases
<1>2. /\ source \in Sources /\ ReportedOnce /\ OrphansTold /\ Reported = Homeless /\ BuilderTypes
      /\ \A j : Misplaced(j)' = Misplaced(j)
  BY <1>1 DEF DefectInv, BuilderInv, Misplaced, IsBase, Alike
<1>3. Met(DOMAIN source)' = Met(DOMAIN source) \cup {at} /\ \A i \in Met(DOMAIN source) : i < at
  BY <1>1 DEF Met, Past
<1>4. Homeless' = Homeless \cup IF Misplaced(at) THEN {source[at].span} ELSE {}
  BY <1>1, <1>2, <1>3 DEF Homeless
<1>5. /\ Ahead(spans)' /\ CoreLowered(core)'
      /\ source' \in Sources /\ stage' = "merge"
  BY <1>1, <1>2 DEF Ahead, CoreLowered
<1>6. CASE errors' = errors /\ ~Misplaced(at)
  <2>1. Reported' = Homeless'
    BY <1>2, <1>4, <1>6 DEF Reported
  <2>2. ReportedOnce' /\ OrphansTold'
    <3>1. \A j : Key(source[j])' = Key(source[j])
      BY <1>1 DEF Key
    <3>2. CoreKeys' = CoreKeys
      BY DEF CoreKeys, Key
    <3>3. QED
      BY <1>1, <1>2, <1>6, <3>1, <3>2 DEF ReportedOnce, OrphansTold
  <2>3. QED
    BY <1>5, <2>1, <2>2 DEF DefectInv
<1>7. ASSUME NEW c, errors' = Append(errors, c), Misplaced(at), c.span = source[at].span,
             c.kind = "orphan" => (c.shadows_core <=> Key(source[at]) \in CoreKeys)
      PROVE  DefectInv(spans, core)'
  <2>1. c.span \notin Reported
    <3>1. \A i \in Met(DOMAIN source) : i \in DOMAIN source /\ i # at
      BY <1>1, <1>3 DEF Met
    <3>2. \A i \in Met(DOMAIN source) : source[i].span # source[at].span
      BY <1>1, <1>2, <3>1 DEF SpansApart
    <3>3. QED
      BY <1>2, <1>7, <3>2 DEF Homeless
  <2>2. Reported' = Homeless'
    BY <1>2, <1>4, <1>7, ReportsMore
  <2>3. ReportedOnce'
    BY <1>2, <1>7, <2>1, ReportsMore
  <2>4. c.kind = "orphan" => \E j \in DOMAIN source :
          /\ Misplaced(j) /\ source[j].span = c.span
          /\ c.shadows_core <=> Key(source[j]) \in CoreKeys
    BY <1>1, <1>7
  <2>5. OrphansTold'
    BY <1>1, <1>2, <1>7, <2>4, ReportsMore
  <2>6. QED
    BY <1>5, <2>2, <2>3, <2>5 DEF DefectInv
<1>8. Misplaced(at) <=> (IsBase(at) <=> Key(source[at]) \in DOMAIN collected)
  BY <1>1, PlaceFacts
<1>9. CASE Found
  BY <1>6, <1>8, <1>9 DEF Found, Defined, IsBase
<1>10. CASE Extend
  <2>1. ~IsBase(at)
    BY <1>10 DEF Extend, Defined, IsBase
  <2>2. QED
    BY <1>6, <1>8, <1>10, <2>1 DEF Extend, Defined
<1>11. CASE Duplicate
  <2>1. PICK c : c = [kind |-> "duplicate", span |-> source[at].span]
    OBVIOUS
  <2>2. errors' = Append(errors, c) /\ Misplaced(at)
    BY <1>8, <1>11, <2>1 DEF Duplicate, Defined, IsBase
  <2>3. c.span = source[at].span /\ c.kind # "orphan"
    BY <2>1
  <2>4. QED
    BY <1>7, <2>2, <2>3
<1>12. CASE Orphan
  <2>1. PICK c : c = [kind |-> "orphan", span |-> source[at].span,
                      shadows_core |-> Key(source[at]) \in CoreKeys]
    OBVIOUS
  <2>2. ~IsBase(at)
    BY <1>12 DEF Orphan, Defined, IsBase
  <2>3. errors' = Append(errors, c) /\ Misplaced(at)
    BY <1>8, <1>12, <2>1, <2>2 DEF Orphan, Defined
  <2>4. c.span = source[at].span /\ (c.shadows_core <=> Key(source[at]) \in CoreKeys)
    BY <2>1
  <2>5. QED
    BY <1>7, <2>3, <2>4
<1>13. QED
  BY <1>9, <1>10, <1>11, <1>12 DEF Merge

(* A turn to the next stage reports nothing; the rules of the user are     *)
(* apart from each other and from all that was reported of definitions.    *)
LEMMA TurnKeepsDefects ==
  ASSUME BuilderInv, MergedInv, Turn, NEW spans, SpansApart(spans), NEW core,
         DefectInv(spans, core)
  PROVE  DefectInv(spans, core)'
<1>1. /\ source' = source /\ order' = order /\ collected' = collected /\ errors' = errors
      /\ frames = << >> /\ frames' = frames /\ nodes' = nodes /\ rules' = rules
  BY DEF Turn, merging, lowering
<1>2. /\ Deep' = Deep /\ \A r : Rule(r)' = Rule(r)
      /\ \A e : Faulty(e)' = Faulty(e)
      /\ Past' = Past => Homeless' = Homeless
      /\ Reported' = Reported /\ (ReportedOnce => ReportedOnce') /\ (OrphansTold => OrphansTold')
  BY <1>1, DefectsStay
<1>3. source' \in Sources /\ ReportedOnce' /\ OrphansTold'
  BY <1>1, <1>2 DEF DefectInv
<1>4. Len(frames) = 0 /\ Len(frames') = 0 /\ 1 .. Len(frames) = {} /\ 1 .. Len(frames') = {}
  BY <1>1
<1>5. Gathering({})' /\ \A S : Gathering(S)'
  BY <1>4 DEF Gathering
<1>6. CoreLowered(core)'
  BY <1>4 DEF CoreLowered
<1>7. CASE stage = "merge"
  <2>1. stage' = "user" /\ at > Len(source)
    BY <1>7 DEF Turn
  <2>2. Past = Len(source) /\ Past' = Past
    <3>1. at <= Len(source) + 1 /\ at \in Nat /\ Len(source) \in Nat
      BY <1>7 DEF MergedInv, BuilderInv, BuilderTypes
    <3>2. at - 1 = Len(source)
      BY <2>1, <3>1
    <3>3. QED
      BY <1>1, <1>7, <2>1, <3>2 DEF Past
  <2>3. nodes = << >> /\ rules = << >> /\ Len(rules) = 0 /\ Len(order) \in Nat
    BY <1>7 DEF BuilderInv, Progress, BuilderTypes
  <2>4. Reported = Homeless
    BY <1>7 DEF DefectInv
  <2>5. Gathered({})'
    <3>1. Reported' = Homeless'
      BY <1>2, <2>2, <2>4
    <3>2. \A r \in 1 .. Len(order) : ~(r <= Len(rules))
      BY <2>3
    <3>3. QED
      BY <1>1, <3>1, <3>2 DEF Gathered
  <2>6. \A r \in 1 .. Len(order) : Reported \cap SpansIn(Rule(r), spans) = {}
    <3>1. \A r \in 1 .. Len(order) : \A i \in DOMAIN source : source[i].span \notin SpansIn(Rule(r), spans)
      BY <2>2, UserRules DEF DefectInv
    <3>2. \A x \in Reported : \E i \in DOMAIN source : x = source[i].span
      BY <2>4 DEF Homeless, Met
    <3>3. QED
      BY <3>1, <3>2
  <2>7. Ahead(spans)'
    <3>1. Begun' = 0
      BY <1>1, <2>3 DEF Begun
    <3>2. \A e : SpansIn(e, spans)' = SpansIn(e, spans)
      BY DEF SpansIn
    <3>3. Reported' = Reported /\ order' = order /\ \A r : Rule(r)' = Rule(r)
      BY <1>1, <1>2
    <3>4. \A r \in Begun' + 1 .. Len(order') : r \in 1 .. Len(order)
      BY <1>1, <2>3, <3>1
    <3>5. \A r \in Begun' + 1 .. Len(order') : Reported' \cap SpansIn(Rule(r)', spans) = {}
      BY <2>6, <3>3, <3>4
    <3>6. QED
      BY <1>4, <3>5 DEF Ahead
  <2>8. QED
    BY <1>3, <1>5, <1>6, <2>1, <2>5, <2>7 DEF DefectInv
<1>8. CASE stage # "merge"
  <2>1. stage' # "merge" /\ stage' # "user" /\ Past' = Past
    BY <1>1, <1>8 DEF Turn, Past
  <2>2. PICK S : Gathered(S)
    BY <1>8 DEF DefectInv
  <2>3. \A e \in S : PartsOf(e) \subseteq S
    BY <1>4, <2>2 DEF Gathered
  <2>4. Gathered(S)'
    BY <1>1, <1>2, <2>1, <2>2, <2>3 DEF Gathered
  <2>5. Ahead(spans)'
    BY <2>1 DEF Ahead
  <2>6. QED
    BY <1>3, <1>5, <1>6, <2>1, <2>4, <2>5 DEF DefectInv
<1>9. QED
  BY <1>7, <1>8

(* A node reserved, for the body of the user's next rule or for the next   *)
(* part of what is being lowered.                                          *)
Fresh(e, spans) ==
  /\ e \in Bodies /\ Apart(e, spans)
  /\ e \in Deep[Len(nodes)] \/ \E r \in 1 .. Len(order) : e = Rule(r)
  /\ PartsOf(e) \subseteq Deep[Len(nodes) + 1]
  /\ Reported \cap SpansIn(e, spans) = {}
  /\ \A k \in 1 .. Len(frames) : \A i \in Left(k) :
       (k = Len(frames) => i # Len(frames[k].parts) + 1)
         => SpansIn(e, spans) \cap spans[frames[k].element.parts[i]] = {}
  /\ \A r \in 1 .. Len(order) : r > Len(rules) + 1 => SpansIn(e, spans) \cap SpansIn(Rule(r), spans) = {}

(* Nothing of either was reported, and nothing else that is left shares a  *)
(* place with it.                                                          *)
LEMMA ReservedIsFresh ==
  ASSUME BuilderInv, MergedInv, stage = "user", NEW spans, SpansApart(spans), NEW core,
         DefectInv(spans, core), NEW S, Gathered(S), Gathering(S), NEW e,
         \/ frames = << >> /\ Len(rules) + 1 \in 1 .. Len(order) /\ e = Rule(Len(rules) + 1)
         \/ /\ frames # << >> /\ Len(Top.parts) < Len(Top.element.parts)
            /\ e = Top.element.parts[Len(Top.parts) + 1]
  PROVE  Fresh(e, spans)
<1>1. /\ BuilderTypes /\ Len(nodes) \in Nat /\ Len(rules) \in Nat /\ Len(order) \in Nat
      /\ Len(frames) \in Nat /\ frames \in Seq(Frames)
  BY BoundaryFacts DEF BuilderInv, BuilderTypes
<1>2. Past = Len(source) /\ source \in Sources
  BY DEF Past, DefectInv
<1>3. CASE frames = << >>
  <2>1. Len(rules) + 1 \in 1 .. Len(order) /\ e = Rule(Len(rules) + 1) /\ Len(frames) = 0
    BY <1>3
  <2>2. /\ e \in Bodies /\ Apart(e, spans) /\ PartsOf(e) \subseteq Deep[1]
        /\ \A r \in 1 .. Len(order) :
             r # Len(rules) + 1 => SpansIn(e, spans) \cap SpansIn(Rule(r), spans) = {}
    BY <1>2, <2>1, UserRules
  <2>3. Deep[1] \subseteq Deep[Len(nodes) + 1]
    BY <1>1, DeepFacts
  <2>4. Reported \cap SpansIn(e, spans) = {}
    <3>1. Len(rules) + 1 \in Begun + 1 .. Len(order)
      BY <1>1, <1>3, <2>1 DEF Begun
    <3>2. QED
      BY <2>1, <3>1 DEF DefectInv, Ahead
  <2>5. \A r \in 1 .. Len(order) : r > Len(rules) + 1 => r # Len(rules) + 1
    BY <1>1
  <2>6. 1 .. Len(frames) = {}
    BY <2>1
  <2>7. QED
    BY <2>1, <2>2, <2>3, <2>4, <2>5, <2>6 DEF Fresh
<1>4. CASE frames # << >>
  <2>1. PICK n : n = Len(frames)
    OBVIOUS
  <2>2. n \in 1 .. Len(frames) /\ n \in Nat /\ Top = frames[n] /\ frames[n] \in Frames
    BY <1>1, <1>4, <2>1 DEF Top, Last
  <2>3. PICK m : m = Len(frames[n].parts) + 1
    OBVIOUS
  <2>4. PICK b : b = frames[n].element
    OBVIOUS
  <2>5. /\ b \in Bodies /\ b.parts \in Seq(Elements) /\ DOMAIN b.parts = 1 .. Len(b.parts)
        /\ m \in DOMAIN b.parts /\ m \in Nat /\ e = b.parts[m] /\ e \in Elements
        /\ Len(frames[n].parts) \in Nat /\ frames[n].id \in Nat /\ frames[n].id + 1 <= Len(nodes)
    <3>1. b \in Bodies /\ Len(frames[n].parts) \in Nat /\ frames[n].id \in Nat
      BY <2>2, <2>4 DEF Frames
    <3>2. b.parts \in Seq(Elements)
      BY <3>1, BodyFacts
    <3>3. m \in 1 .. Len(b.parts) /\ e = b.parts[m]
      BY <1>4, <2>2, <2>3, <2>4, <3>1, <3>2
    <3>4. frames[n].id < Len(nodes)
      BY <2>2 DEF BuilderInv, Activations, GoodFrame
    <3>5. QED
      BY <1>1, <3>1, <3>2, <3>3, <3>4
  <2>6. Taken(n) = 1 .. m - 1 /\ m \in Left(n)
    <3>1. Taken(n) = 1 .. Len(frames[n].parts) + 0
      <4>1. ~(n < Len(frames))
        BY <1>1, <2>1
      <4>2. (IF n < Len(frames) THEN 1 ELSE 0) = 0
        BY <4>1
      <4>3. QED
        BY <4>2 DEF Taken
    <3>2. Len(frames[n].parts) + 0 = m - 1 /\ m \notin 1 .. m - 1
      BY <2>3, <2>5
    <3>3. QED
      BY <2>4, <2>5, <3>1, <3>2 DEF Left
  <2>7. /\ Apart(b, spans) /\ spans[e] \subseteq SpansIn(b, spans)
        /\ Reported \cap spans[e] = {}
        /\ \A r \in Begun + 1 .. Len(order) : SpansIn(b, spans) \cap SpansIn(Rule(r), spans) = {}
    <3>1. Apart(b, spans) /\ Reported \cap spans[e] = {}
      BY <2>2, <2>4, <2>5, <2>6 DEF DefectInv, Ahead
    <3>2. \A r \in Begun + 1 .. Len(order) : SpansIn(b, spans) \cap SpansIn(Rule(r), spans) = {}
      BY <2>2, <2>4 DEF DefectInv, Ahead
    <3>3. spans[e] \subseteq SpansIn(b, spans)
      BY <2>5 DEF SpansIn
    <3>4. QED
      BY <3>1, <3>2, <3>3
  <2>8. SpansIn(e, spans) = spans[e] /\ Apart(e, spans)
    BY <2>5, BranchFacts
  <2>9. PartsOf(b) \subseteq Deep[frames[n].id + 1] /\ e \in PartsOf(b)
    BY <2>2, <2>4, <2>5 DEF Gathering, PartsOf
  <2>10. e \in Deep[Len(nodes)]
    <3>1. Deep[frames[n].id + 1] \subseteq Deep[Len(nodes)]
      BY <1>1, <2>5, DeepFacts
    <3>2. QED
      BY <2>9, <3>1
  <2>11. PartsOf(e) \subseteq Deep[Len(nodes) + 1]
    <3>1. Deep[Len(nodes) + 1] = Deep[Len(nodes)] \cup UNION {PartsOf(x) : x \in Deep[Len(nodes)]}
      BY <1>1, DeepFacts
    <3>2. QED
      BY <2>10, <3>1
  <2>12. ASSUME NEW k \in 1 .. Len(frames), NEW i \in Left(k),
                k = Len(frames) => i # Len(frames[k].parts) + 1
         PROVE  spans[e] \cap spans[frames[k].element.parts[i]] = {}
    <3>1. CASE k = n
      <4>1. i # m /\ i \in DOMAIN b.parts
        BY <2>1, <2>3, <2>4, <2>12, <3>1 DEF Left
      <4>2. spans[b.parts[m]] \cap spans[b.parts[i]] = {}
        BY <2>5, <2>7, <4>1 DEF Apart
      <4>3. QED
        BY <2>4, <2>5, <3>1, <4>2
    <3>2. CASE k # n
      <4>1. n \in k + 1 .. Len(frames)
        BY <1>1, <2>1, <2>2, <3>2
      <4>2. SpansIn(b, spans) \cap spans[frames[k].element.parts[i]] = {}
        BY <2>4, <4>1 DEF DefectInv, Ahead
      <4>3. QED
        BY <2>7, <4>2
    <3>3. QED
      BY <3>1, <3>2
  <2>13. ASSUME NEW r \in 1 .. Len(order), r > Len(rules) + 1
         PROVE  spans[e] \cap SpansIn(Rule(r), spans) = {}
    <3>1. r \in Begun + 1 .. Len(order)
      BY <1>1, <1>4, <2>13 DEF Begun
    <3>2. QED
      BY <2>7, <3>1
  <2>14. e \in Bodies
    BY <2>5 DEF Bodies
  <2>15. QED
    BY <2>7, <2>8, <2>10, <2>11, <2>12, <2>13, <2>14 DEF Fresh
<1>5. QED
  BY <1>3, <1>4

(* Lowering one element more of the user's rules reports it if it is       *)
(* faulty.                                                                 *)
LEMMA ReserveGathers ==
  ASSUME BuilderInv, MergedInv, stage = "user", NEW spans, SpansApart(spans), NEW core,
         DefectInv(spans, core), NEW S, Gathered(S), Gathering(S), NEW e, Fresh(e, spans),
         NEW f, Reserved(e, f), errors' = errors \o Complaints(e),
         frames = << >> => e = Rule(Len(rules) + 1),
         frames # << >> => e = Top.element.parts[Len(Top.parts) + 1]
  PROVE  DefectInv(spans, core)'
<1>1. /\ source' = source /\ stage' = "user" /\ at' = at /\ order' = order /\ collected' = collected
      /\ rules' = rules /\ f \in Frames /\ f.id = Len(nodes) /\ f.element = e /\ f.parts = << >>
      /\ Len(nodes) \in Nat /\ Len(nodes') = Len(nodes) + 1
      /\ Len(frames) \in Nat /\ Len(frames') = Len(frames) + 1 /\ frames' # << >>
      /\ frames'[Len(frames) + 1] = f /\ \A i \in 1 .. Len(frames) : frames'[i] = frames[i]
      /\ frames \in Seq(Frames)
  BY DEF Reserved
<1>2. BuilderTypes /\ Len(rules) \in Nat /\ Len(order) \in Nat /\ IsSequence(errors)
  BY DEF BuilderInv, BuilderTypes
<1>3. /\ Deep' = Deep /\ \A r : Rule(r)' = Rule(r)
      /\ \A x : Faulty(x)' = Faulty(x) /\ Homeless' = Homeless /\ source' \in Sources
  <2>1. Past' = Past
    BY <1>1 DEF Past
  <2>2. QED
    BY <1>1, <2>1, DefectsStay DEF DefectInv
<1>4. /\ Reported' = Reported \cup IF Faulty(e) THEN {e.span} ELSE {}
      /\ ReportedOnce' /\ OrphansTold'
  <2>1. ReportedOnce /\ OrphansTold
    BY DEF DefectInv
  <2>2. CASE ~Faulty(e)
    <3>1. Complaints(e) = << >>
      BY <1>2, <2>2, ComplaintSays
    <3>2. errors' = errors
      BY <1>2, <3>1, ConcatEmptySeq DEF IsSequence
    <3>3. QED
      BY <1>1, <2>1, <2>2, <3>2, DefectsStay
  <2>3. CASE Faulty(e)
    <3>1. PICK c : Complaints(e) = <<c>> /\ c.span = e.span /\ c.kind # "orphan"
      BY <1>2, <2>3, ComplaintSays
    <3>2. errors' = Append(errors, c)
      <4>1. PICK T : errors \in Seq(T) /\ c \in T
        <5>1. errors \in Seq({errors[i] : i \in DOMAIN errors})
          BY <1>2 DEF IsSequence
        <5>2. PICK T : T = {errors[i] : i \in DOMAIN errors} \cup {c}
          OBVIOUS
        <5>3. {errors[i] : i \in DOMAIN errors} \subseteq T /\ c \in T
          BY <5>2
        <5>4. QED
          BY <5>1, <5>3, SeqMonotonic
      <4>2. errors \o <<c>> = Append(errors, c)
        BY <4>1, AppendIsConcat
      <4>3. QED
        BY <3>1, <4>2
    <3>3. c.span \notin Reported
      <4>1. OwnSpan(e) = {e.span}
        BY <1>2, <2>3, ComplaintSays
      <4>2. e.span \in SpansIn(e, spans)
        BY <4>1 DEF SpansIn
      <4>3. QED
        BY <3>1, <4>2 DEF Fresh
    <3>4. Reported' = Reported \cup {c.span} /\ ReportedOnce' /\ OrphansTold'
      BY <1>1, <1>2, <2>1, <3>1, <3>2, <3>3, ReportsMore
    <3>5. QED
      BY <2>3, <3>1, <3>4
  <2>4. QED
    BY <2>2, <2>3
<1>5. PICK n : n = Len(frames)
  OBVIOUS
<1>6. /\ \A k \in 1 .. Len(frames') : k \in 1 .. n \/ k = n + 1
      /\ n \in Nat /\ \A k \in 1 .. n : k \in 1 .. Len(frames') /\ frames'[k] = frames[k] /\ k # n + 1
      /\ frames'[n + 1] = f /\ n + 1 \in 1 .. Len(frames')
  BY <1>1, <1>5
<1>7. Taken(n + 1)' = {} /\ Left(n + 1)' = DOMAIN e.parts
  <2>1. ~(n + 1 < Len(frames')) /\ Len(f.parts) = 0
    BY <1>1, <1>5
  <2>2. (IF n + 1 < Len(frames') THEN 1 ELSE 0) = 0
    BY <2>1
  <2>3. Taken(n + 1)' = 1 .. 0 + 0
    BY <1>6, <2>1, <2>2 DEF Taken
  <2>4. QED
    BY <1>1, <1>6, <2>3 DEF Left
<1>8. ASSUME NEW k \in 1 .. n
      PROVE  /\ k < n => Taken(k)' = Taken(k)
             /\ k = n => Taken(k)' = Taken(k) \cup {Len(frames[k].parts) + 1}
                         /\ Len(frames[k].parts) + 1 \in Taken(k)'
             /\ Left(k)' \subseteq Left(k)
             /\ \A i \in Left(k)' : k = Len(frames) => i # Len(frames[k].parts) + 1
  <2>1. Len(frames[k].parts) \in Nat /\ k \in Nat
    <3>1. frames[k] \in Frames
      BY <1>1, <1>5
    <3>2. QED
      BY <1>6, <3>1 DEF Frames
  <2>2. k < Len(frames') /\ (k < n <=> k < Len(frames))
    BY <1>1, <1>5, <1>6, <2>1
  <2>3. Taken(k)' = 1 .. Len(frames[k].parts) + 1
    BY <1>6, <2>2 DEF Taken
  <2>4. CASE k < n
    <3>1. Taken(k) = 1 .. Len(frames[k].parts) + 1
      BY <2>2, <2>4 DEF Taken
    <3>2. Taken(k)' = Taken(k) /\ k # n /\ k # Len(frames)
      BY <1>5, <1>6, <2>1, <2>3, <2>4, <3>1
    <3>3. Left(k)' = Left(k)
      BY <1>6, <3>2 DEF Left
    <3>4. QED
      BY <3>2, <3>3
  <2>5. CASE ~(k < n)
    <3>1. Taken(k) = 1 .. Len(frames[k].parts) + 0
      <4>1. (IF k < Len(frames) THEN 1 ELSE 0) = 0
        BY <2>2, <2>5
      <4>2. QED
        BY <4>1 DEF Taken
    <3>2. /\ Taken(k)' = Taken(k) \cup {Len(frames[k].parts) + 1}
          /\ Len(frames[k].parts) + 1 \in Taken(k)'
      BY <2>1, <2>3, <3>1
    <3>3. QED
      BY <1>6, <2>5, <3>2 DEF Left
  <2>6. QED
    BY <2>4, <2>5
<1>9. PICK Z : Z = S \cup {e}
  OBVIOUS
<1>10. Gathered(Z)'
  <2>1. Z \subseteq Bodies
    BY <1>9 DEF Gathered, Fresh
  <2>2. Reported' = Homeless' \cup {x.span : x \in {x \in Z : Faulty(x)'}}
    <3>1. Reported = Homeless \cup {x.span : x \in {x \in S : Faulty(x)}}
      BY DEF Gathered
    <3>2. CASE Faulty(e)
      BY <1>3, <1>4, <1>9, <3>1, <3>2
    <3>3. CASE ~Faulty(e)
      BY <1>3, <1>4, <1>9, <3>1, <3>3
    <3>4. QED
      BY <3>2, <3>3
  <2>3. \A x \in Z : x \in Deep'[Len(nodes')] \/ \E r \in 1 .. Len(order') : x = Rule(r)'
    <3>1. Deep[Len(nodes)] \subseteq Deep[Len(nodes) + 1]
      <4>1. Len(nodes) + 1 \in Nat /\ Len(nodes) <= Len(nodes) + 1
        BY <1>1
      <4>2. QED
        BY <1>1, <1>2, <4>1, DeepFacts
    <3>2. \A x \in Z : x \in Deep[Len(nodes)] \/ \E r \in 1 .. Len(order) : x = Rule(r)
      BY <1>9 DEF Gathered, Fresh
    <3>3. QED
      BY <1>1, <1>3, <3>1, <3>2
  <2>4. \A r \in 1 .. Len(order') : r <= Len(rules') => Rule(r)' \in Z
    BY <1>1, <1>3, <1>9 DEF Gathered
  <2>5. ASSUME NEW x \in Z
        PROVE  \/ PartsOf(x) \subseteq Z
               \/ stage' = "user" /\ \E k \in 1 .. Len(frames') : frames'[k].element = x
    <3>1. CASE x = e
      BY <1>1, <1>6, <3>1
    <3>2. CASE x \in S
      <4>1. PartsOf(x) \subseteq S \/ \E k \in 1 .. n : frames[k].element = x
        BY <1>5, <3>2 DEF Gathered
      <4>2. QED
        BY <1>1, <1>6, <1>9, <4>1
    <3>3. QED
      BY <1>9, <3>1, <3>2
  <2>6. QED
    BY <2>1, <2>2, <2>3, <2>4, <2>5 DEF Gathered
<1>11. Gathering(Z)'
  <2> SUFFICES ASSUME NEW k \in 1 .. Len(frames')
               PROVE  /\ frames'[k].element \in Z
                      /\ k = 1 => frames'[k].element = Rule(Len(rules) + 1)'
                      /\ \A i \in Taken(k)' : frames'[k].element.parts[i] \in Z
                      /\ PartsOf(frames'[k].element) \subseteq Deep'[frames'[k].id + 1]
    BY DEF Gathering, PartsOf
  <2>1. Rule(Len(rules) + 1)' = Rule(Len(rules) + 1)
    BY <1>1, <1>3 DEF Rule, Entry
  <2>2. CASE k \in 1 .. n
    <3>1. /\ frames[k].element \in S
          /\ k = 1 => frames[k].element = Rule(Len(rules) + 1)
          /\ \A i \in Taken(k) : frames[k].element.parts[i] \in S
          /\ PartsOf(frames[k].element) \subseteq Deep[frames[k].id + 1]
      BY <1>5, <2>2 DEF Gathering
    <3>2. \A i \in Taken(k)' : frames[k].element.parts[i] \in Z
      <4>1. CASE k < n
        BY <1>8, <1>9, <2>2, <3>1, <4>1
      <4>2. CASE k = n
        <5>1. frames # << >>
          BY <1>5, <1>6, <2>2, <4>2
        <5>2. Top = frames[n]
          BY <1>5 DEF Top, Last
        <5>3. e = frames[n].element.parts[Len(frames[n].parts) + 1]
          BY <5>1, <5>2
        <5>4. QED
          BY <1>8, <1>9, <2>2, <3>1, <4>2, <5>3
      <4>3. QED
        BY <1>6, <2>2, <4>1, <4>2
    <3>3. QED
      BY <1>3, <1>6, <1>9, <2>1, <2>2, <3>1, <3>2
  <2>3. CASE k = n + 1
    <3>1. frames'[k] = f /\ f.element = e /\ f.id = Len(nodes)
      BY <1>1, <1>6, <2>3
    <3>2. k = 1 => frames = << >>
      BY <1>1, <1>5, <1>6, <2>3
    <3>3. Taken(k)' = {}
      BY <1>7, <2>3
    <3>4. PartsOf(e) \subseteq Deep[Len(nodes) + 1]
      BY DEF Fresh
    <3>5. QED
      BY <1>3, <1>9, <2>1, <3>1, <3>2, <3>3, <3>4
  <2>4. QED
    BY <1>6, <2>2, <2>3
<1>12. Begun' = Len(rules) + 1 /\ Begun' + 1 = Len(rules) + 2 /\ Begun <= Begun'
  <2>1. Begun' = Len(rules) + 1
    BY <1>1 DEF Begun
  <2>2. Begun = Len(rules) \/ Begun = Len(rules) + 1
    BY <1>2 DEF Begun
  <2>3. QED
    BY <1>2, <2>1, <2>2
<1>13. Ahead(spans)'
  <2>1. \A r \in Begun' + 1 .. Len(order) :
          r \in 1 .. Len(order) /\ r > Len(rules) + 1 /\ r \in Begun + 1 .. Len(order)
    <3>1. Begun \in Nat
      BY <1>2 DEF Begun
    <3>2. QED
      BY <1>2, <1>12, <3>1
  <2>2. Reported' \subseteq Reported \cup OwnSpan(e) /\ OwnSpan(e) \subseteq SpansIn(e, spans)
    <3>1. Faulty(e) => OwnSpan(e) = {e.span}
      BY <1>2, ComplaintSays
    <3>2. QED
      BY <1>4, <3>1 DEF SpansIn
  <2>3. Reported \cap SpansIn(e, spans) = {}
    BY DEF Fresh
  <2>4. ASSUME NEW r \in Begun' + 1 .. Len(order)
        PROVE  /\ Reported' \cap SpansIn(Rule(r), spans) = {}
               /\ SpansIn(e, spans) \cap SpansIn(Rule(r), spans) = {}
    <3>1. SpansIn(e, spans) \cap SpansIn(Rule(r), spans) = {}
      BY <2>1 DEF Fresh
    <3>2. Reported \cap SpansIn(Rule(r), spans) = {}
      BY <2>1 DEF DefectInv, Ahead
    <3>3. QED
      BY <2>2, <3>1, <3>2
  <2>5. ASSUME NEW k \in 1 .. n
        PROVE  /\ Apart(frames[k].element, spans)
               /\ \A i \in Left(k)' : Reported' \cap spans[frames[k].element.parts[i]] = {}
               /\ \A i \in Left(k)' : \A j \in k + 1 .. Len(frames') :
                    SpansIn(frames'[j].element, spans) \cap spans[frames[k].element.parts[i]] = {}
               /\ \A r \in Begun' + 1 .. Len(order) :
                    SpansIn(frames[k].element, spans) \cap SpansIn(Rule(r), spans) = {}
    <3>1. /\ Apart(frames[k].element, spans)
          /\ \A i \in Left(k) : Reported \cap spans[frames[k].element.parts[i]] = {}
          /\ \A i \in Left(k) : \A j \in k + 1 .. Len(frames) :
                SpansIn(frames[j].element, spans) \cap spans[frames[k].element.parts[i]] = {}
          /\ \A r \in Begun + 1 .. Len(order) :
                SpansIn(frames[k].element, spans) \cap SpansIn(Rule(r), spans) = {}
      BY <1>5 DEF DefectInv, Ahead
    <3>2. ASSUME NEW i \in Left(k)'
          PROVE  i \in Left(k) /\ SpansIn(e, spans) \cap spans[frames[k].element.parts[i]] = {}
      BY <1>5, <1>8 DEF Fresh
    <3>3. \A i \in Left(k)' : Reported' \cap spans[frames[k].element.parts[i]] = {}
      BY <2>2, <3>1, <3>2
    <3>4. ASSUME NEW i \in Left(k)', NEW j \in k + 1 .. Len(frames')
          PROVE  SpansIn(frames'[j].element, spans) \cap spans[frames[k].element.parts[i]] = {}
      <4>1. j = n + 1 \/ (j \in k + 1 .. Len(frames) /\ j \in 1 .. n)
        BY <1>1, <1>5, <1>6
      <4>2. CASE j = n + 1
        <5>1. frames'[j].element = e
          BY <1>1, <1>6, <4>2
        <5>2. QED
          BY <3>2, <5>1
      <4>3. CASE j \in k + 1 .. Len(frames) /\ j \in 1 .. n
        <5>1. frames'[j] = frames[j] /\ i \in Left(k)
          BY <1>6, <3>2, <4>3
        <5>2. QED
          BY <3>1, <4>3, <5>1
      <4>4. QED
        BY <4>1, <4>2, <4>3
    <3>5. \A r \in Begun' + 1 .. Len(order) :
            SpansIn(frames[k].element, spans) \cap SpansIn(Rule(r), spans) = {}
      BY <2>1, <3>1
    <3>6. QED
      BY <3>1, <3>3, <3>4, <3>5
  <2>6. /\ Apart(e, spans)
        /\ \A i \in DOMAIN e.parts : Reported' \cap spans[e.parts[i]] = {}
    <3>1. Apart(e, spans)
      BY DEF Fresh
    <3>2. \A i \in DOMAIN e.parts : spans[e.parts[i]] \subseteq SpansIn(e, spans)
      BY DEF SpansIn
    <3>3. \A i \in DOMAIN e.parts : OwnSpan(e) \cap spans[e.parts[i]] = {}
      BY <3>1 DEF Apart
    <3>4. QED
      BY <2>2, <2>3, <3>1, <3>2, <3>3
  <2>7. \A j \in (n + 1) + 1 .. Len(frames') : FALSE
    BY <1>1, <1>5
  <2>8. ASSUME NEW k \in 1 .. Len(frames')
        PROVE  /\ Apart(frames'[k].element, spans)
               /\ \A i \in Left(k)' : Reported' \cap spans[frames'[k].element.parts[i]] = {}
               /\ \A i \in Left(k)' : \A j \in k + 1 .. Len(frames') :
                    SpansIn(frames'[j].element, spans) \cap spans[frames'[k].element.parts[i]] = {}
               /\ \A r \in Begun' + 1 .. Len(order') :
                    SpansIn(frames'[k].element, spans) \cap SpansIn(Rule(r)', spans) = {}
    <3>1. CASE k \in 1 .. n
      <4>1. frames'[k] = frames[k]
        BY <1>6, <3>1
      <4>2. QED
        BY <1>1, <1>3, <2>5, <3>1, <4>1
    <3>2. CASE k = n + 1
      <4>1. frames'[k].element = e /\ Left(k)' = DOMAIN e.parts
        BY <1>1, <1>6, <1>7, <3>2
      <4>2. QED
        BY <1>1, <1>3, <2>4, <2>6, <2>7, <3>2, <4>1
    <3>3. QED
      BY <1>6, <3>1, <3>2
  <2>9. \A r \in Begun' + 1 .. Len(order') : Reported' \cap SpansIn(Rule(r)', spans) = {}
    BY <1>1, <1>3, <2>4
  <2>10. QED
    BY <2>8, <2>9 DEF Ahead, Apart, SpansIn, OwnSpan
<1>14. QED
  BY <1>1, <1>3, <1>4, <1>10, <1>11, <1>13 DEF DefectInv, CoreLowered

(* Lowering one element more of the core rules reports nothing.            *)
LEMMA ReserveOfCore ==
  ASSUME BuilderInv, stage = "core", NEW spans, NEW core, CoreSound(core), DefectInv(spans, core),
         NEW e \in core, NEW f, Reserved(e, f), errors' = errors \o Complaints(e)
  PROVE  DefectInv(spans, core)'
<1>1. /\ source' = source /\ stage' = "core" /\ order' = order /\ collected' = collected
      /\ rules' = rules /\ f.element = e
      /\ Len(nodes) \in Nat /\ Len(nodes') = Len(nodes) + 1
      /\ Len(frames) \in Nat /\ Len(frames') = Len(frames) + 1
      /\ frames'[Len(frames) + 1] = f /\ \A i \in 1 .. Len(frames) : frames'[i] = frames[i]
  BY DEF Reserved
<1>2. BuilderTypes /\ IsSequence(errors)
  BY DEF BuilderInv, BuilderTypes
<1>3. errors' = errors
  <2>1. ~IsInverted(e) /\ (e.kind = "ref" => KeyOf[e.target] \in CoreKeys)
    BY DEF CoreSound, CoreKeys, Key
  <2>2. Complaints(e) = << >>
    BY <1>2, <2>1, ComplaintSays
  <2>3. QED
    BY <1>2, <2>2, ConcatEmptySeq DEF IsSequence
<1>4. /\ Deep' = Deep /\ \A r : Rule(r)' = Rule(r)
      /\ \A x : Faulty(x)' = Faulty(x) /\ Homeless' = Homeless
      /\ Reported' = Reported /\ (ReportedOnce => ReportedOnce') /\ (OrphansTold => OrphansTold')
  <2>1. Past' = Past
    BY <1>1 DEF Past
  <2>2. QED
    BY <1>1, <1>3, <2>1, DefectsStay
<1>5. PICK S : Gathered(S)
  BY DEF DefectInv
<1>6. Deep[Len(nodes)] \subseteq Deep[Len(nodes) + 1]
  <2>1. Len(nodes) + 1 \in Nat /\ Len(nodes) <= Len(nodes) + 1
    BY <1>1
  <2>2. QED
    BY <1>1, <1>2, <2>1, DeepFacts
<1>7. Gathered(S)'
  BY <1>1, <1>4, <1>5, <1>6 DEF Gathered
<1>8. Gathering(S)' /\ Ahead(spans)'
  BY <1>1 DEF Gathering, Ahead
<1>9. CoreLowered(core)'
  <2> SUFFICES ASSUME NEW k \in 1 .. Len(frames') PROVE frames'[k].element \in core
    BY DEF CoreLowered
  <2>1. k \in 1 .. Len(frames) \/ k = Len(frames) + 1
    BY <1>1
  <2>2. CASE k \in 1 .. Len(frames)
    BY <1>1, <2>2 DEF DefectInv, CoreLowered
  <2>3. QED
    BY <1>1, <2>1, <2>2
<1>10. QED
  BY <1>1, <1>4, <1>7, <1>8, <1>9 DEF DefectInv

(* Beginning a rule or a part reports what is faulty of it, once.          *)
LEMMA ReserveKeepsDefects ==
  ASSUME BuilderInv, MergedInv, BeginRule \/ LowerPart, NEW spans, SpansApart(spans),
         NEW core, CoreSound(core), DefectInv(spans, core)
  PROVE  DefectInv(spans, core)'
<1>1. BuilderTypes /\ Len(order) \in Nat /\ DOMAIN order = 1 .. Len(order) /\ at \in Nat /\ at > 0
  BY DEF BuilderInv, BuilderTypes
<1>2. CASE BeginRule
  <2>1. stage \in {"user", "core"} /\ frames = << >> /\ at <= Len(Table) /\ Reserve(Table[at].body)
    BY <1>2 DEF BeginRule
  <2>2. Table \in Seq([name : DOMAIN KeyOf, body : Bodies])
    BY <1>1, TableFacts
  <2>3. at \in 1 .. Len(Table)
    BY <1>1, <2>1, <2>2
  <2>4. PICK e : e = Table[at].body
    OBVIOUS
  <2>5. e \in Bodies
    <3>1. Table[at] \in [name : DOMAIN KeyOf, body : Bodies]
      BY <2>2, <2>3, ElementOfSeq
    <3>2. QED
      BY <2>4, <3>1
  <2>6. PICK f : Reserved(e, f)
    BY <1>1, <2>1, <2>4, <2>5, ReserveSays
  <2>7. errors' = errors \o Complaints(e)
    BY <2>1, <2>4 DEF Reserve
  <2>8. CASE stage = "user"
    <3>1. e = Rule(Len(rules) + 1)
      BY <2>1, <2>4, TableEntry DEF Rule
    <3>2. Len(rules) + 1 = at /\ Len(Table) = Len(order)
      BY <1>1, <2>8 DEF BuilderInv, Progress, Table, Merged
    <3>3. Len(rules) + 1 \in 1 .. Len(order)
      BY <2>3, <3>2
    <3>4. PICK S : Gathered(S) /\ Gathering(S)
      BY <2>8 DEF DefectInv
    <3>5. Fresh(e, spans)
      BY <2>1, <2>8, <3>1, <3>3, <3>4, ReservedIsFresh
    <3>6. QED
      BY <2>1, <2>6, <2>7, <2>8, <3>1, <3>4, <3>5, ReserveGathers
  <2>9. CASE stage = "core"
    <3>1. Table = CoreTable
      BY <2>9 DEF Table
    <3>2. at \in DOMAIN CoreTable
      BY <2>3, <3>1, BuilderAssumption
    <3>3. e \in core
      BY <2>4, <3>1, <3>2 DEF CoreSound
    <3>4. QED
      BY <2>6, <2>7, <2>9, <3>3, ReserveOfCore
  <2>10. QED
    BY <2>1, <2>8, <2>9
<1>3. CASE LowerPart
  <2>1. /\ frames # << >> /\ Len(Top.parts) < Len(Top.element.parts)
        /\ Reserve(Top.element.parts[Len(Top.parts) + 1])
    BY <1>3 DEF LowerPart
  <2>2. stage \in {"user", "core"}
    BY <2>1 DEF BuilderInv, Progress
  <2>3. Top \in Frames /\ Top = frames[Len(frames)] /\ Len(frames) \in 1 .. Len(frames)
    <3>1. frames \in Seq(Frames)
      BY <1>1 DEF BuilderTypes
    <3>2. QED
      BY <2>1, <3>1, PopStack DEF Top, Last
  <2>4. Top.element \in Bodies /\ Len(Top.parts) \in Nat
    BY <2>3 DEF Frames
  <2>5. Len(Top.parts) + 1 \in 1 .. Len(Top.element.parts)
    BY <2>1, <2>4, BodyFacts
  <2>6. PICK e : e = Top.element.parts[Len(Top.parts) + 1]
    OBVIOUS
  <2>7. e \in Bodies
    BY <2>4, <2>5, <2>6, BodyFacts
  <2>8. PICK f : Reserved(e, f)
    BY <1>1, <2>1, <2>6, <2>7, ReserveSays
  <2>9. errors' = errors \o Complaints(e)
    BY <2>1, <2>6 DEF Reserve
  <2>10. CASE stage = "user"
    <3>1. PICK S : Gathered(S) /\ Gathering(S)
      BY <2>10 DEF DefectInv
    <3>2. Fresh(e, spans)
      BY <2>1, <2>6, <2>10, <3>1, ReservedIsFresh
    <3>3. QED
      BY <2>1, <2>6, <2>8, <2>9, <2>10, <3>1, <3>2, ReserveGathers
  <2>11. CASE stage = "core"
    <3>1. Top.element \in core
      BY <2>3, <2>11 DEF DefectInv, CoreLowered
    <3>2. Len(Top.parts) + 1 \in DOMAIN Top.element.parts
      BY <2>4, <2>5, BodyFacts
    <3>3. e \in core
      BY <2>6, <3>1, <3>2 DEF CoreSound
    <3>4. QED
      BY <2>8, <2>9, <2>11, <3>3, ReserveOfCore
  <2>12. QED
    BY <2>2, <2>10, <2>11
<1>4. QED
  BY <1>2, <1>3

(* Placing a node reports nothing; what is placed is gathered with all its *)
(* parts.                                                                  *)
LEMMA PlaceKeepsDefects ==
  ASSUME BuilderInv, MergedInv, Place, NEW spans, NEW core, DefectInv(spans, core)
  PROVE  DefectInv(spans, core)'
<1>1. PICK k, f : Placing(k, f) /\ (k # 1 => \E h : Resumed(k, f, h))
  BY PlaceSays
<1>2. /\ k = Len(frames) /\ k \in Nat /\ k > 0 /\ f = frames[k] /\ f.element \in Bodies
      /\ frames # << >> /\ Len(f.parts) = Len(f.element.parts)
      /\ frames \in Seq(Frames) /\ \A i \in 1 .. k : frames[i] \in Frames
      /\ source' = source /\ stage' = stage /\ order' = order /\ collected' = collected
      /\ errors' = errors /\ Len(nodes) \in Nat /\ Len(nodes') = Len(nodes)
      /\ stage \in {"user", "core"} /\ at <= Len(Table)
  BY <1>1 DEF Placing
<1>3. /\ Deep' = Deep /\ \A r : Rule(r)' = Rule(r)
      /\ \A x : Faulty(x)' = Faulty(x) /\ Homeless' = Homeless
      /\ Reported' = Reported /\ ReportedOnce' /\ OrphansTold' /\ source' \in Sources
  <2>1. Past' = Past
    BY <1>2 DEF Past
  <2>2. QED
    BY <1>2, <2>1, DefectsStay DEF DefectInv
<1>4. BuilderTypes /\ Len(rules) \in Nat /\ Len(order) \in Nat /\ rules \in Seq(RuleSet)
  BY DEF BuilderInv, BuilderTypes
<1>5. /\ k = 1 => frames' = << >> /\ Len(frames') = 0 /\ Len(rules') = Len(rules) + 1
      /\ k # 1 => frames' # << >> /\ Len(frames') = k - 1 /\ rules' = rules
      /\ \A i \in 1 .. Len(frames') :
           /\ i \in 1 .. k /\ i < k /\ k # 1
           /\ frames'[i].element = frames[i].element /\ frames'[i].id = frames[i].id
           /\ Len(frames'[i].parts) = Len(frames[i].parts) + IF i = k - 1 THEN 1 ELSE 0
  <2>1. CASE k = 1
    <3>1. frames' = << >> /\ rules' = Append(rules, [name |-> Table[at].name, body |-> f.id])
      BY <1>1, <2>1 DEF Placing
    <3>2. Len(rules') = Len(rules) + 1
      <4>1. PICK r : r = [name |-> Table[at].name, body |-> f.id]
        OBVIOUS
      <4>2. \A i \in 1 .. Len(rules) : rules[i] \in RuleSet
        BY <1>4
      <4>3. rules \in Seq(RuleSet \cup {r}) /\ r \in RuleSet \cup {r}
        BY <1>4, SeqMonotonic
      <4>4. QED
        BY <3>1, <4>1, <4>3, PushStack
    <3>3. Len(frames') = 0 /\ 1 .. Len(frames') = {}
      BY <3>1
    <3>4. QED
      BY <2>1, <3>1, <3>2, <3>3
  <2>2. CASE k # 1
    <3>1. PICK h : Resumed(k, f, h)
      BY <1>1, <2>2
    <3>2. /\ rules' = rules /\ frames' # << >> /\ Len(frames') = k - 1 /\ frames'[k - 1] = h
          /\ \A i \in 1 .. k - 2 : frames'[i] = frames[i]
          /\ h.id = frames[k - 1].id /\ h.element = frames[k - 1].element
          /\ h.parts = Append(frames[k - 1].parts, f.id)
      BY <3>1 DEF Resumed
    <3>3. \A i \in 1 .. k : Len(frames[i].parts) \in Nat /\ frames[i].parts \in Seq(Nat)
      BY <1>2 DEF Frames
    <3>4. Len(h.parts) = Len(frames[k - 1].parts) + 1
      <4>1. f.id \in Nat
        BY <1>1 DEF Placing
      <4>2. k - 1 \in 1 .. k
        BY <1>2, <2>2
      <4>3. QED
        BY <3>2, <3>3, <4>1, <4>2, PushStack
    <3>5. ASSUME NEW i \in 1 .. Len(frames')
          PROVE  /\ i \in 1 .. k /\ i < k
                 /\ frames'[i].element = frames[i].element /\ frames'[i].id = frames[i].id
                 /\ Len(frames'[i].parts) = Len(frames[i].parts) + IF i = k - 1 THEN 1 ELSE 0
      <4>1. i \in 1 .. k /\ i < k /\ (i = k - 1 \/ (i \in 1 .. k - 2 /\ i # k - 1))
        BY <1>2, <2>2, <3>2
      <4>2. CASE i = k - 1
        BY <3>2, <3>4, <4>1, <4>2
      <4>3. CASE i \in 1 .. k - 2 /\ i # k - 1
        <5>1. frames'[i] = frames[i]
          BY <3>2, <4>3
        <5>2. Len(frames[i].parts) = Len(frames[i].parts) + 0
          BY <3>3, <4>1
        <5>3. QED
          BY <4>1, <4>3, <5>1, <5>2
      <4>4. QED
        BY <4>1, <4>2, <4>3
    <3>6. QED
      BY <2>2, <3>2, <3>5
  <2>3. QED
    BY <2>1, <2>2
<1>6. ASSUME NEW i \in 1 .. Len(frames')
      PROVE  Taken(i)' = Taken(i) /\ Left(i)' = Left(i)
  <2>1. /\ i \in 1 .. k /\ i < k /\ k # 1 /\ frames'[i].element = frames[i].element
        /\ Len(frames'[i].parts) = Len(frames[i].parts) + IF i = k - 1 THEN 1 ELSE 0
        /\ Len(frames[i].parts) \in Nat /\ Len(frames') = k - 1
    <3>1. i \in 1 .. k
      BY <1>5
    <3>2. Len(frames[i].parts) \in Nat
      BY <1>2, <3>1 DEF Frames
    <3>3. QED
      BY <1>5, <3>2
  <2>2. Taken(i) = 1 .. Len(frames[i].parts) + 1
    BY <1>2, <2>1 DEF Taken
  <2>3. Taken(i)' = 1 .. Len(frames[i].parts) + 1
    <3>1. CASE i = k - 1
      <4>1. ~(i < Len(frames')) /\ Len(frames'[i].parts) = Len(frames[i].parts) + 1
        BY <1>2, <2>1, <3>1
      <4>2. Taken(i)' = 1 .. (Len(frames[i].parts) + 1) + 0
        BY <4>1 DEF Taken
      <4>3. QED
        BY <2>1, <4>2
    <3>2. CASE i # k - 1
      <4>1. i < Len(frames') /\ Len(frames'[i].parts) = Len(frames[i].parts)
        <5>1. i < Len(frames')
          BY <1>2, <2>1, <3>2
        <5>2. (IF i = k - 1 THEN 1 ELSE 0) = 0
          BY <3>2
        <5>3. PICK n, m : n = Len(frames[i].parts) /\ m = Len(frames'[i].parts)
          OBVIOUS
        <5>4. n \in Nat /\ m = n + 0
          BY <2>1, <5>2, <5>3
        <5>5. m = n
          BY <5>4
        <5>6. QED
          BY <5>1, <5>3, <5>5
      <4>2. Taken(i)' = 1 .. Len(frames[i].parts) + 1
        <5>1. (IF i < Len(frames') THEN 1 ELSE 0) = 1
          BY <4>1
        <5>2. QED
          BY <4>1, <5>1 DEF Taken
      <4>3. QED
        BY <4>2
    <3>3. QED
      BY <3>1, <3>2
  <2>4. QED
    BY <2>1, <2>2, <2>3 DEF Left
<1>7. PICK S : Gathered(S) /\ Gathering(S)
  BY <1>2 DEF DefectInv
<1>8. CASE stage = "user"
  <2>1. Begun' = Begun
    <3>1. Begun = Len(rules) + 1
      BY <1>2 DEF Begun
    <3>2. CASE k = 1
      BY <1>4, <1>5, <3>1, <3>2 DEF Begun
    <3>3. CASE k # 1
      BY <1>5, <3>1, <3>3 DEF Begun
    <3>4. QED
      BY <3>2, <3>3
  <2>2. PartsOf(f.element) \subseteq S
    <3>1. Taken(k) = 1 .. Len(f.parts) + 0
      <4>1. ~(k < Len(frames))
        BY <1>2
      <4>2. (IF k < Len(frames) THEN 1 ELSE 0) = 0
        BY <4>1
      <4>3. QED
        BY <1>2, <4>2 DEF Taken
    <3>2. DOMAIN f.element.parts = 1 .. Len(f.element.parts) /\ Len(f.element.parts) \in Nat
      BY <1>2, BodyFacts
    <3>3. Taken(k) = DOMAIN f.element.parts
      BY <1>2, <3>1, <3>2
    <3>4. k \in 1 .. Len(frames)
      BY <1>2
    <3>5. QED
      BY <1>2, <1>7, <1>8, <3>3, <3>4 DEF Gathering, PartsOf
  <2>3. Gathered(S)'
    <3>1. /\ S \subseteq Bodies
          /\ Reported = Homeless \cup {x.span : x \in {x \in S : Faulty(x)}}
          /\ \A x \in S : x \in Deep[Len(nodes)] \/ \E r \in 1 .. Len(order) : x = Rule(r)
          /\ \A r \in 1 .. Len(order) : r <= Len(rules) => Rule(r) \in S
          /\ \A x \in S : PartsOf(x) \subseteq S \/ \E i \in 1 .. Len(frames) : frames[i].element = x
      BY <1>7 DEF Gathered
    <3>2. ASSUME NEW x \in S
          PROVE  \/ PartsOf(x) \subseteq S
                 \/ stage' = "user" /\ \E i \in 1 .. Len(frames') : frames'[i].element = x
      <4>1. CASE PartsOf(x) \subseteq S
        BY <4>1
      <4>2. CASE \E i \in 1 .. Len(frames) : frames[i].element = x
        <5>1. PICK i \in 1 .. Len(frames) : frames[i].element = x
          BY <4>2
        <5>2. CASE i = k
          BY <1>2, <2>2, <5>1, <5>2
        <5>3. CASE i # k
          <6>1. i \in 1 .. Len(frames')
            BY <1>2, <1>5, <5>3
          <6>2. QED
            BY <1>2, <1>5, <1>8, <5>1, <6>1
        <5>4. QED
          BY <5>2, <5>3
      <4>3. QED
        BY <3>1, <4>1, <4>2
    <3>3. ASSUME NEW r \in 1 .. Len(order), r <= Len(rules') PROVE Rule(r) \in S
      <4>1. CASE r <= Len(rules)
        BY <3>1, <4>1
      <4>2. CASE ~(r <= Len(rules))
        <5>1. k = 1 /\ r = Len(rules) + 1
          BY <1>4, <1>5, <3>3, <4>2
        <5>2. 1 \in 1 .. Len(frames)
          BY <1>2, <5>1
        <5>3. QED
          BY <1>7, <1>8, <5>1, <5>2 DEF Gathering
      <4>3. QED
        BY <4>1, <4>2
    <3>4. QED
      BY <1>2, <1>3, <3>1, <3>2, <3>3 DEF Gathered, PartsOf
  <2>4. Gathering(S)'
    <3> SUFFICES ASSUME NEW i \in 1 .. Len(frames')
                 PROVE  /\ frames'[i].element \in S
                        /\ i = 1 => frames'[i].element = Rule(Len(rules') + 1)
                        /\ \A j \in Taken(i)' : frames'[i].element.parts[j] \in S
                        /\ PartsOf(frames'[i].element) \subseteq Deep[frames'[i].id + 1]
      BY <1>3 DEF Gathering, PartsOf, Rule, Entry
    <3>1. /\ i \in 1 .. Len(frames) /\ rules' = rules
          /\ frames'[i].element = frames[i].element /\ frames'[i].id = frames[i].id
      BY <1>2, <1>5
    <3>2. QED
      BY <1>6, <1>7, <1>8, <3>1 DEF Gathering
  <2>5. Ahead(spans)'
    <3>1. /\ \A i \in 1 .. Len(frames) :
               /\ Apart(frames[i].element, spans)
               /\ \A m \in Left(i) : Reported \cap spans[frames[i].element.parts[m]] = {}
               /\ \A m \in Left(i) : \A j \in i + 1 .. Len(frames) :
                    SpansIn(frames[j].element, spans) \cap spans[frames[i].element.parts[m]] = {}
               /\ \A r \in Begun + 1 .. Len(order) :
                    SpansIn(frames[i].element, spans) \cap SpansIn(Rule(r), spans) = {}
          /\ \A r \in Begun + 1 .. Len(order) : Reported \cap SpansIn(Rule(r), spans) = {}
      BY <1>8 DEF DefectInv, Ahead
    <3>2. ASSUME NEW i \in 1 .. Len(frames')
          PROVE  /\ Apart(frames'[i].element, spans)
                 /\ \A m \in Left(i)' : Reported \cap spans[frames'[i].element.parts[m]] = {}
                 /\ \A m \in Left(i)' : \A j \in i + 1 .. Len(frames') :
                      SpansIn(frames'[j].element, spans) \cap spans[frames'[i].element.parts[m]] = {}
                 /\ \A r \in Begun + 1 .. Len(order) :
                      SpansIn(frames'[i].element, spans) \cap SpansIn(Rule(r), spans) = {}
      <4>1. i \in 1 .. Len(frames) /\ frames'[i].element = frames[i].element /\ Left(i)' = Left(i)
        BY <1>2, <1>5, <1>6
      <4>2. \A j \in i + 1 .. Len(frames') :
              j \in i + 1 .. Len(frames) /\ frames'[j].element = frames[j].element
        <5>1. \A j \in i + 1 .. Len(frames') : j \in 1 .. Len(frames') /\ j \in i + 1 .. Len(frames)
          BY <1>2, <1>5
        <5>2. QED
          BY <1>5, <5>1
      <4>3. QED
        BY <3>1, <4>1, <4>2
    <3>3. ASSUME NEW i \in 1 .. Len(frames')
          PROVE  /\ Apart(frames'[i].element, spans)
                 /\ \A m \in Left(i)' : Reported' \cap spans[frames'[i].element.parts[m]] = {}
                 /\ \A m \in Left(i)' : \A j \in i + 1 .. Len(frames') :
                      SpansIn(frames'[j].element, spans) \cap spans[frames'[i].element.parts[m]] = {}
                 /\ \A r \in Begun' + 1 .. Len(order') :
                      SpansIn(frames'[i].element, spans) \cap SpansIn(Rule(r)', spans) = {}
      BY <1>2, <1>3, <2>1, <3>2
    <3>4. \A r \in Begun' + 1 .. Len(order') : Reported' \cap SpansIn(Rule(r)', spans) = {}
      BY <1>2, <1>3, <2>1, <3>1
    <3>5. QED
      BY <3>3, <3>4 DEF Ahead, Apart, SpansIn, OwnSpan
  <2>6. CoreLowered(core)'
    BY <1>2, <1>8 DEF CoreLowered
  <2>7. QED
    BY <1>2, <1>3, <1>8, <2>3, <2>4, <2>5, <2>6 DEF DefectInv
<1>9. CASE stage = "core"
  <2>1. Len(order) <= Len(rules)
    <3>1. Len(rules) = Len(order) + at - 1 /\ at \in Nat /\ at > 0
      BY <1>4, <1>9 DEF BuilderInv, Progress, BuilderTypes
    <3>2. QED
      BY <1>4, <3>1
  <2>2. Gathered(S)'
    <3>1. \A r \in 1 .. Len(order) : r <= Len(rules)
      BY <1>4, <2>1
    <3>2. QED
      BY <1>2, <1>3, <1>7, <1>9, <3>1 DEF Gathered, PartsOf
  <2>3. Gathering(S)' /\ Ahead(spans)'
    BY <1>2, <1>9 DEF Gathering, Ahead
  <2>4. CoreLowered(core)'
    <3> SUFFICES ASSUME NEW i \in 1 .. Len(frames') PROVE frames'[i].element \in core
      BY DEF CoreLowered
    <3>1. i \in 1 .. Len(frames) /\ frames'[i].element = frames[i].element
      BY <1>2, <1>5
    <3>2. QED
      BY <1>9, <3>1 DEF DefectInv, CoreLowered
  <2>5. QED
    BY <1>2, <1>3, <1>9, <2>2, <2>3, <2>4 DEF DefectInv
<1>10. QED
  BY <1>2, <1>8, <1>9

-----------------------------------------------------------------------------
(* At the start nothing is reported and nothing is met.                    *)
LEMMA DefectStart == ASSUME Init, NEW spans, NEW core PROVE DefectInv(spans, core)
<1>1. /\ source \in Sources /\ stage = "merge" /\ at = 1 /\ errors = << >>
  BY DEF Init
<1>2. DOMAIN source = 1 .. Len(source)
  BY BuilderStart DEF BuilderInv, BuilderTypes
<1>3. Met(DOMAIN source) = {}
  <2>1. Past = 0
    BY <1>1 DEF Past
  <2>2. \A i \in 1 .. Len(source) : ~(i <= 0)
    BY BuilderStart DEF BuilderInv, BuilderTypes
  <2>3. QED
    BY <1>2, <2>1, <2>2 DEF Met
<1>4. DOMAIN errors = {}
  BY <1>1
<1>5. Reported = Homeless
  BY <1>3, <1>4 DEF Reported, Homeless
<1>6. QED
  BY <1>1, <1>4, <1>5 DEF DefectInv, ReportedOnce, OrphansTold, Ahead, CoreLowered

(* Every step keeps what was reported as it should be.                     *)
LEMMA DefectStep ==
  ASSUME BuilderInv, MergedInv, [Next]_vars, NEW spans, SpansApart(spans),
         NEW core, CoreSound(core), DefectInv(spans, core)
  PROVE  DefectInv(spans, core)'
<1>1. CASE Merge
  BY <1>1, MergeKeepsDefects
<1>2. CASE BeginRule \/ LowerPart
  BY <1>2, ReserveKeepsDefects
<1>3. CASE Place
  BY <1>3, PlaceKeepsDefects
<1>4. CASE Turn
  BY <1>4, TurnKeepsDefects
<1>5. CASE UNCHANGED vars
  <2>1. /\ source' = source /\ stage' = stage /\ at' = at
        /\ order' = order /\ collected' = collected
        /\ frames' = frames /\ nodes' = nodes /\ rules' = rules /\ errors' = errors
    BY <1>5 DEF vars, merging, lowering
  <2>2. Past' = Past
    BY <2>1 DEF Past
  <2>3. /\ Deep' = Deep /\ \A r : Rule(r)' = Rule(r)
        /\ \A x : Faulty(x)' = Faulty(x) /\ Homeless' = Homeless
        /\ Reported' = Reported /\ ReportedOnce' /\ OrphansTold'
    BY <2>1, <2>2, DefectsStay DEF DefectInv
  <2>4. Begun' = Begun /\ \A k : Taken(k)' = Taken(k) /\ Left(k)' = Left(k)
    BY <2>1 DEF Begun, Taken, Left
  <2>5. \A S : (Gathered(S) => Gathered(S)') /\ (Gathering(S) => Gathering(S)')
    <3>1. Rule(Len(rules) + 1)' = Rule(Len(rules) + 1)
      BY <2>1 DEF Rule, Entry
    <3>2. \A S : Gathered(S) => Gathered(S)'
      BY <2>1, <2>3 DEF Gathered, PartsOf
    <3>3. \A S : Gathering(S) => Gathering(S)'
      BY <2>1, <2>3, <2>4, <3>1 DEF Gathering, PartsOf
    <3>4. QED
      BY <3>2, <3>3
  <2>6. Ahead(spans)'
    <3>1. ASSUME stage' = "user", NEW k \in 1 .. Len(frames')
          PROVE  /\ Apart(frames'[k].element, spans)
                 /\ \A i \in Left(k)' : Reported' \cap spans[frames'[k].element.parts[i]] = {}
                 /\ \A i \in Left(k)' : \A j \in k + 1 .. Len(frames') :
                      SpansIn(frames'[j].element, spans) \cap spans[frames'[k].element.parts[i]] = {}
                 /\ \A r \in Begun' + 1 .. Len(order') :
                      SpansIn(frames'[k].element, spans) \cap SpansIn(Rule(r)', spans) = {}
      BY <2>1, <2>3, <2>4, <3>1 DEF DefectInv, Ahead
    <3>2. stage' = "user" =>
            \A r \in Begun' + 1 .. Len(order') : Reported' \cap SpansIn(Rule(r)', spans) = {}
      BY <2>1, <2>3, <2>4 DEF DefectInv, Ahead
    <3>3. QED
      BY <3>1, <3>2 DEF Ahead, Apart, SpansIn, OwnSpan
  <2>7. QED
    BY <2>1, <2>3, <2>5, <2>6 DEF DefectInv, CoreLowered
<1>6. QED
  BY <1>1, <1>2, <1>3, <1>4, <1>5 DEF Next, LowerRules

(* At the verdict all that has a place is gathered, however deep.          *)
LEMMA AllGathered ==
  ASSUME BuilderInv, MergedInv, stage \in {"sound", "unsound"}, source \in Sources,
         NEW spans, SpansApart(spans), NEW S, Gathered(S)
  PROVE  \A e : Faulty(e) => (e \in S <=> e \in Deep[Len(nodes)])
<1>1. /\ BuilderTypes /\ Len(order) \in Nat /\ Len(order) <= Len(rules) /\ Len(nodes) \in Nat
  <2>1. BuilderTypes /\ Len(rules) = Len(order) + Len(CoreTable)
    BY DEF BuilderInv, Progress, Total
  <2>2. Len(order) \in Nat /\ Len(CoreTable) \in Nat
    BY <2>1, BuilderAssumption DEF BuilderTypes
  <2>3. Len(nodes) \in Nat
    BY <2>1 DEF BuilderTypes, IsSequence
  <2>4. QED
    BY <2>1, <2>2, <2>3
<1>2. Past = Len(source)
  BY DEF Past
<1>3. \A e : Faulty(e) => e.kind # "alt"
  BY DEF Faulty, IsInverted
<1>4. \A r \in 1 .. Len(order) : Rule(r) \in S
  <2>1. \A r \in 1 .. Len(order) : r <= Len(rules)
    BY <1>1
  <2>2. QED
    BY <2>1 DEF Gathered
<1>5. \A e \in S : PartsOf(e) \subseteq S
  BY DEF Gathered
<1>6. ASSUME NEW e \in S, Faulty(e) PROVE e \in Deep[Len(nodes)]
  <2>1. CASE \E r \in 1 .. Len(order) : e = Rule(r)
    <3>1. e \in Kept
      BY <1>2, <1>3, <1>6, <2>1, UserRules
    <3>2. Deep[0] = Kept /\ Deep[0] \subseteq Deep[Len(nodes)]
      BY <1>1, DeepFacts
    <3>3. QED
      BY <3>1, <3>2
  <2>2. QED
    BY <2>1 DEF Gathered
<1> DEFINE AllOf == S \cup {x \in Elements : x.kind = "alt" /\ PartsOf(x) \subseteq S}
           C == {k \in Nat : Deep[k] \subseteq AllOf}
<1>7. 0 \in C
  <2> SUFFICES ASSUME NEW e \in Kept PROVE e \in AllOf
    BY <1>1, DeepFacts
  <2>1. PICK r \in 1 .. Len(order) :
          \/ e = Rule(r) \/ e \in PartsOf(Rule(r))
          \/ e.kind = "alt" /\ PartsOf(e) \subseteq PartsOf(Rule(r))
    BY <1>2, UserRules
  <2>2. Rule(r) \in S /\ PartsOf(Rule(r)) \subseteq S
    BY <1>4, <1>5
  <2>3. e \in Elements
    BY <1>1, KeptFacts
  <2>4. QED
    BY <2>1, <2>2, <2>3
<1>8. ASSUME NEW k \in Nat, k \in C PROVE k + 1 \in C
  <2>1. Deep[k + 1] = Deep[k] \cup UNION {PartsOf(e) : e \in Deep[k]}
    BY <1>1, DeepFacts
  <2>2. \A e \in Deep[k] : PartsOf(e) \subseteq S
    BY <1>5, <1>8
  <2>3. QED
    BY <1>8, <2>1, <2>2
<1>9. \A k \in Nat : k \in C
  <2> HIDE DEF C
  <2> QED BY <1>7, <1>8, CountOn
<1>10. ASSUME NEW e \in Deep[Len(nodes)], Faulty(e) PROVE e \in S
  <2>1. e \in AllOf
    BY <1>1, <1>9
  <2>2. QED
    BY <1>3, <1>10, <2>1
<1>11. QED
  BY <1>6, <1>10

(* At the verdict what was reported is what should have been.              *)
LEMMA InvGivesErrorsExact ==
  ASSUME BuilderInv, MergedInv, NEW spans, SpansApart(spans), NEW core, DefectInv(spans, core)
  PROVE  ErrorsExact
<1> SUFFICES ASSUME stage \in {"sound", "unsound"} PROVE ErrorsExact
  BY DEF ErrorsExact
<1>1. BuilderTypes /\ DOMAIN source = 1 .. Len(source) /\ source \in Sources
  BY DEF BuilderInv, BuilderTypes, DefectInv
<1>2. Past = Len(source)
  BY DEF Past
<1>3. PICK S : Gathered(S)
  BY DEF DefectInv
<1> DEFINE c == {KeyOf[CoreTable[i].name] : i \in DOMAIN CoreTable}
           user == {KeyOf[source[i].name] : i \in Founders}
           elements == Within({source[i].body : i \in {i \in DOMAIN source : ~Misplaced(i)}})
           misplaced == {i \in DOMAIN source : Misplaced(i)}
           undefined == {e \in elements : e.kind = "ref" /\ KeyOf[e.target] \notin c \cup user}
           inverted  == {e \in elements : IsInverted(e)}
<1>4. c = CoreKeys
  BY DEF CoreKeys, Key
<1>5. c \cup user = Known
  BY <1>1, <1>2, <1>4, UserRules DEF Known
<1>6. elements = Deep[Len(nodes)]
  BY DEF Within, Deep, Kept
<1>7. undefined \cup inverted = {e \in Deep[Len(nodes)] : Faulty(e)}
  <2> HIDE DEF c, user, elements
  <2> QED BY <1>5, <1>6 DEF Faulty
<1>8. {e \in Deep[Len(nodes)] : Faulty(e)} = {e \in S : Faulty(e)}
  BY <1>1, <1>3, AllGathered
<1>9. Homeless = {source[i].span : i \in misplaced}
  <2>1. Met(DOMAIN source) = DOMAIN source
    BY <1>1, MergedAll
  <2>2. QED
    BY <2>1 DEF Homeless
<1>10. {errors[i].span : i \in DOMAIN errors}
         = {source[i].span : i \in misplaced} \cup {e.span : e \in undefined \cup inverted}
  <2> HIDE DEF misplaced, undefined, inverted
  <2>1. Reported = Homeless \cup {e.span : e \in {e \in S : Faulty(e)}}
    BY <1>3 DEF Gathered
  <2>2. QED
    BY <1>7, <1>8, <1>9, <2>1 DEF Reported
<1>11. IsInjective([i \in DOMAIN errors |-> errors[i].span])
  BY DEF DefectInv, ReportedOnce, IsInjective
<1>12. \A i \in DOMAIN errors : errors[i].kind = "orphan" =>
         \E j \in misplaced :
           /\ source[j].span = errors[i].span
           /\ errors[i].shadows_core <=> KeyOf[source[j].name] \in c
  <2> HIDE DEF c
  <2> TAKE i \in DOMAIN errors
  <2> HAVE errors[i].kind = "orphan"
  <2>1. PICK j \in DOMAIN source :
          /\ Misplaced(j) /\ source[j].span = errors[i].span
          /\ errors[i].shadows_core <=> Key(source[j]) \in CoreKeys
    BY Zenon DEF DefectInv, OrphansTold
  <2>2. (Key(source[j]) \in CoreKeys) <=> (KeyOf[source[j].name] \in c)
    BY <1>4 DEF Key
  <2>3. Misplaced(j) /\ source[j].span = errors[i].span
    BY <2>1, Zenon
  <2>4. j \in misplaced
    BY <2>3
  <2>5. errors[i].shadows_core <=> KeyOf[source[j].name] \in c
    <3> HIDE DEF misplaced
    <3> QED BY <2>1, <2>2, Zenon
  <2> HIDE DEF misplaced
  <2>6. QED
    BY <2>3, <2>4, <2>5, Zenon
<1>13. QED
  <2> HIDE DEF c, user, elements
  <2> QED BY <1>10, <1>11, <1>12 DEF ErrorsExact, c, user, elements

(* ErrorsExact, for every grammar: of what is written where it has a place *)
(* every defect is reported once, and nothing else is, if what is written  *)
(* in different places has different spans and the core rules have no      *)
(* defects.                                                                *)
THEOREM DefectsReported ==
  ASSUME NEW spans, SpansApart(spans), NEW core, CoreSound(core)
  PROVE  Spec => []ErrorsExact
<1> DEFINE I == BuilderInv /\ MergedInv /\ DefectInv(spans, core)
<1>1. Init => I
  BY BuilderStart, MergedStart, DefectStart
<1>2. I /\ [Next]_vars => I'
  <2>1. ASSUME BuilderInv, MergedInv, DefectInv(spans, core), [Next]_vars
        PROVE  BuilderInv' /\ MergedInv' /\ DefectInv(spans, core)'
    BY <2>1, BuilderStep, MergedStep, DefectStep
  <2>2. QED
    BY <2>1
<1>3. I => ErrorsExact
  BY InvGivesErrorsExact
<1> HIDE DEF I
<1>4. QED
  BY <1>1, <1>2, <1>3, PTL DEF Spec
=============================================================================
