--------------------------- MODULE DescentProofs ----------------------------
(***************************************************************************)
(* What the trees of elements are, and that canonicalizing one gives its   *)
(* normal form with the same words; then recursive descent: what it finds  *)
(* in a text is what the notation's own grammar has there.                 *)
(***************************************************************************)
EXTENDS Syntax, ProofSupport

-----------------------------------------------------------------------------
(* The trees of elements.                                                  *)

(* What can be written: numbers, and names.                                *)
Values == 0 .. MaxU64
NameChars == ALPHA \cup DIGIT \cup {"-"}
Names == {n \in Seq(NameChars) : n # << >> /\ n[1] \in ALPHA}

(* The elements that have no parts.                                        *)
Leaves ==
  {Ref(n) : n \in Names} \cup {Str(v, c) : v \in Seq(QUOTABLE), c \in BOOLEAN}
    \cup {Num(v) : v \in Seq(Values) \ {<< >>}} \cup {Span(lo, hi) : lo \in Values, hi \in Values}
    \cup {ProseVal(n) : n \in Seq(PROSE)}

(* The elements whose parts are in X.                                      *)
Over(X) ==
  Leaves \cup {Alt(s) : s \in Seq(X) \ {<< >>}} \cup {Concat(s) : s \in Seq(X) \ {<< >>}}
    \cup {Opt(x) : x \in X} \cup {Repeat(lo, hi, x) : lo \in Values, hi \in Values \cup {None}, x \in X}

(* The elements of each depth, and of every depth.                         *)
Builds(f) == f = [d \in Nat |-> IF d = 0 THEN {} ELSE Over(f[d - 1])]
(* The elements of depth less than d.                                      *)
Built == CHOOSE f : Builds(f)
(* All elements.                                                           *)
Trees == UNION {Built[d] : d \in Nat}

(* Terminal values are natural numbers, and none of them stands for no     *)
(* bound.                                                                  *)
LEMMA ValuesFacts ==
  /\ Values \subseteq Nat /\ None \notin Values
BY CharactersAssumption DEF Values

(* There are the elements of each depth: the recursion defines a function. *)
LEMMA BuiltExists == Builds(Built)
<1> DEFINE P(n, g) == /\ g = [k \in 0 .. n |-> g[k]]
                      /\ g[0] = {}
                      /\ \A k \in 1 .. n : g[k] = Over(g[k - 1])
           A == {n \in Nat : \E g : P(n, g)}
<1>1. 0 \in A
  <2>1. P(0, [k \in 0 .. 0 |-> {}])
    OBVIOUS
  <2> QED BY <2>1
<1>2. ASSUME NEW n \in Nat, n \in A PROVE n + 1 \in A
  <2>1. PICK g : P(n, g)
    BY <1>2
  <2> DEFINE f == [k \in 0 .. n + 1 |-> IF k = n + 1 THEN Over(g[n]) ELSE g[k]]
  <2>2. f = [k \in 0 .. n + 1 |-> f[k]] /\ f[0] = {}
    BY <2>1
  <2>3. ASSUME NEW k \in 1 .. n + 1 PROVE f[k] = Over(f[k - 1])
    <3>1. CASE k = n + 1
      BY <3>1
    <3>2. CASE k # n + 1
      <4>1. k \in 1 .. n /\ k \in 0 .. n + 1 /\ k - 1 \in 0 .. n + 1 /\ k - 1 # n + 1
        BY <3>2
      <4> HIDE DEF Over
      <4>2. g[k] = Over(g[k - 1])
        BY <2>1, <4>1
      <4>3. f[k] = g[k] /\ f[k - 1] = g[k - 1]
        BY <3>2, <4>1
      <4> QED BY <4>2, <4>3
    <3> QED BY <3>1, <3>2
  <2>4. P(n + 1, f)
    <3> HIDE DEF f
    <3> QED BY <2>2, <2>3
  <2> HIDE DEF P
  <2> QED BY <2>4
<1>3. \A n \in Nat : n \in A
  <2> HIDE DEF A
  <2> QED BY <1>1, <1>2, CountOn
<1> DEFINE to(n) == CHOOSE g : P(n, g)
<1>4. \A n \in Nat : P(n, to(n))
  <2> HIDE DEF P
  <2> QED BY <1>3
<1> DEFINE f == [n \in Nat |-> to(n)[n]]
<1>8. \A n \in Nat : to(n)[0] = {} /\ \A k \in 1 .. n : to(n)[k] = Over(to(n)[k - 1])
  <2> HIDE DEF to
  <2> QED BY <1>4
<1>5. \A m, n \in Nat : m <= n => to(n)[m] = to(m)[m]
  <2> TAKE m, n \in Nat
  <2> HAVE m <= n
  <2> DEFINE B == {k \in 0 .. m : to(n)[k] = to(m)[k]}
  <2> HIDE DEF to
  <2>1. 0 \in B
    <3> HIDE DEF P
    <3>1. to(n)[0] = {} /\ to(m)[0] = {}
      BY <1>8
    <3>2. 0 \in 0 .. m
      OBVIOUS
    <3> QED BY <3>1, <3>2
  <2>2. ASSUME NEW k \in 1 .. m, k - 1 \in B PROVE k \in B
    <3>1. k \in 1 .. n
      OBVIOUS
    <3>2. to(n)[k] = Over(to(n)[k - 1]) /\ to(m)[k] = Over(to(m)[k - 1])
      BY <1>4, <3>1
    <3> QED BY <2>2, <3>2
  <2>3. \A k \in 0 .. m : k \in B
    <3> HIDE DEF B
    <3> QED BY <2>1, <2>2, CountUp
  <2> QED BY <2>3
<1>6. ASSUME NEW n \in Nat PROVE f[n] = IF n = 0 THEN {} ELSE Over(f[n - 1])
  <2> HIDE DEF to
  <2>1. CASE n = 0
    BY <1>4, <2>1
  <2>2. CASE n # 0
    <3>1. n - 1 \in Nat /\ n \in 1 .. n /\ n - 1 <= n
      BY <2>2
    <3>2. to(n)[n] = Over(to(n)[n - 1])
      BY <1>4, <3>1
    <3>3. to(n)[n - 1] = to(n - 1)[n - 1]
      BY <1>5, <3>1
    <3> QED BY <2>2, <3>1, <3>2, <3>3
  <2> QED BY <2>1, <2>2
<1>7. Builds(f)
  <2>1. f = [n \in Nat |-> f[n]]
    OBVIOUS
  <2> HIDE DEF f
  <2> QED BY <1>6, <2>1 DEF Builds
<1> HIDE DEF f
<1> QED BY <1>7 DEF Built

(* No element has depth 0, and those one deeper are made of these.         *)
LEMMA BuiltFacts == Built[0] = {} /\ \A d \in Nat : Built[d + 1] = Over(Built[d])
<1>1. \A d \in Nat : Built[d] = IF d = 0 THEN {} ELSE Over(Built[d - 1])
  BY BuiltExists DEF Builds
<1>2. ASSUME NEW d \in Nat PROVE Built[d + 1] = Over(Built[d])
  <2>1. d + 1 \in Nat /\ d + 1 # 0 /\ (d + 1) - 1 = d
    OBVIOUS
  <2> QED BY <1>1, <2>1
<1> QED BY <1>1, <1>2

(* More parts to choose from make more elements.                           *)
LEMMA OverGrows ==
  ASSUME NEW X, NEW Y, X \subseteq Y
  PROVE  Over(X) \subseteq Over(Y)
<1>1. Seq(X) \subseteq Seq(Y)
  OBVIOUS
<1>2. ASSUME NEW x \in Over(X) PROVE x \in Over(Y)
  <2>1. CASE x \in Leaves
    BY <2>1 DEF Over
  <2>2. CASE \E s \in Seq(X) \ {<< >>} : x = Alt(s) \/ x = Concat(s)
    BY <1>1, <2>2 DEF Over
  <2>3. CASE \E y \in X : x = Opt(y)
    BY <2>3 DEF Over
  <2>4. CASE \E y \in X, lo \in Values, hi \in Values \cup {None} : x = Repeat(lo, hi, y)
    BY <2>4 DEF Over
  <2> QED BY <1>2, <2>1, <2>2, <2>3, <2>4 DEF Over
<1> QED BY <1>2

(* Elements of a depth are of every greater one.                           *)
LEMMA BuiltGrows ==
  ASSUME NEW d \in Nat, NEW e \in Nat, d <= e
  PROVE  Built[d] \subseteq Built[e]
<1> DEFINE A == {k \in Nat : Built[k] \subseteq Built[k + 1]}
<1>1. 0 \in A
  BY BuiltFacts
<1>2. ASSUME NEW k \in Nat, k \in A PROVE k + 1 \in A
  <2>1. Over(Built[k]) \subseteq Over(Built[k + 1])
    BY <1>2, OverGrows
  <2>2. k + 1 \in Nat /\ Built[k + 1] = Over(Built[k]) /\ Built[(k + 1) + 1] = Over(Built[k + 1])
    BY BuiltFacts
  <2> QED BY <2>1, <2>2
<1>3. \A k \in Nat : k \in A
  <2> HIDE DEF A
  <2> QED BY <1>1, <1>2, CountOn
<1> DEFINE B == {k \in Nat : Built[d] \subseteq Built[d + k]}
<1>4. 0 \in B
  OBVIOUS
<1>5. ASSUME NEW k \in Nat, k \in B PROVE k + 1 \in B
  <2>1. d + k \in Nat /\ (d + k) + 1 = d + (k + 1)
    OBVIOUS
  <2>2. Built[d + k] \subseteq Built[d + (k + 1)]
    BY <1>3, <2>1
  <2> QED BY <1>5, <2>2
<1>6. \A k \in Nat : k \in B
  <2> HIDE DEF B
  <2> QED BY <1>4, <1>5, CountOn
<1>7. PICK k \in Nat : d + k = e
  <2>1. e - d \in Nat /\ d + (e - d) = e
    OBVIOUS
  <2> QED BY <2>1
<1> QED BY <1>6, <1>7

(* The elements of a sequence are of one depth.                            *)
LEMMA SequenceDepth ==
  ASSUME NEW s \in Seq(Trees)
  PROVE  \E d \in Nat : s \in Seq(Built[d])
<1> DEFINE A == {n \in Nat : \E d \in Nat : \A i \in 1 .. n : i <= Len(s) => s[i] \in Built[d]}
<1>1. 0 \in A
  <2>1. \A i \in 1 .. 0 : i <= Len(s) => s[i] \in Built[0]
    OBVIOUS
  <2> QED BY <2>1
<1>2. ASSUME NEW n \in Nat, n \in A PROVE n + 1 \in A
  <2>1. PICK d \in Nat : \A i \in 1 .. n : i <= Len(s) => s[i] \in Built[d]
    BY <1>2
  <2>2. CASE n + 1 > Len(s)
    BY <2>1, <2>2
  <2>3. CASE n + 1 <= Len(s)
    <3>1. s[n + 1] \in Trees
      BY <2>3
    <3>2. PICK c \in Nat : s[n + 1] \in Built[c]
      BY <3>1 DEF Trees
    <3>3. PICK e \in Nat : c <= e /\ d <= e
      <4>1. c <= c + d /\ d <= c + d /\ c + d \in Nat
        OBVIOUS
      <4> QED BY <4>1
    <3>4. Built[c] \subseteq Built[e] /\ Built[d] \subseteq Built[e]
      BY <3>3, BuiltGrows
    <3>5. \A i \in 1 .. n + 1 : i <= Len(s) => s[i] \in Built[e]
      <4> TAKE i \in 1 .. n + 1
      <4>1. CASE i = n + 1
        BY <3>2, <3>4, <4>1
      <4>2. CASE i # n + 1
        <5>1. i \in 1 .. n
          BY <4>2
        <5> QED BY <2>1, <3>4, <5>1
      <4> QED BY <4>1, <4>2
    <3> QED BY <3>5
  <2>4. Len(s) \in Nat
    OBVIOUS
  <2> QED BY <2>2, <2>3, <2>4
<1>3. \A n \in Nat : n \in A
  <2> HIDE DEF A
  <2> QED BY <1>1, <1>2, CountOn
<1>4. Len(s) \in Nat /\ DOMAIN s = 1 .. Len(s) /\ s = [i \in 1 .. Len(s) |-> s[i]]
  OBVIOUS
<1>5. Len(s) \in A
  BY <1>3, <1>4
<1>6. PICK d \in Nat : \A i \in 1 .. Len(s) : i <= Len(s) => s[i] \in Built[d]
  BY <1>5
<1>7. \A i \in 1 .. Len(s) : s[i] \in Built[d]
  BY <1>4, <1>6
<1>8. s \in Seq(Built[d])
  BY <1>4, <1>7
<1> QED BY <1>8

(* What is made of elements is an element, and nothing else is.            *)
LEMMA TreesOver == Trees = Over(Trees)
<1>1. ASSUME NEW x \in Trees PROVE x \in Over(Trees)
  <2>1. PICK d \in Nat : x \in Built[d]
    BY DEF Trees
  <2>2. d # 0
    BY <2>1, BuiltFacts
  <2>3. PICK c \in Nat : d = c + 1
    <3>1. d - 1 \in Nat /\ d = (d - 1) + 1
      BY <2>2
    <3> QED BY <3>1
  <2>4. x \in Over(Built[c])
    BY <2>1, <2>3, BuiltFacts
  <2>5. Built[c] \subseteq Trees
    BY DEF Trees
  <2> QED BY <2>4, <2>5, OverGrows
<1>2. ASSUME NEW d \in Nat PROVE Over(Built[d]) \subseteq Trees
  BY BuiltFacts DEF Trees
<1>3. ASSUME NEW x \in Over(Trees) PROVE x \in Trees
  <2>1. CASE x \in Leaves
    BY <1>2, <2>1 DEF Over
  <2>2. ASSUME NEW s \in Seq(Trees) \ {<< >>}, x = Alt(s) \/ x = Concat(s) PROVE x \in Trees
    <3>1. PICK d \in Nat : s \in Seq(Built[d])
      BY SequenceDepth
    <3>2. x \in Over(Built[d])
      BY <2>2, <3>1 DEF Over
    <3> QED BY <1>2, <3>2
  <2>3. ASSUME NEW y \in Trees,
               x = Opt(y) \/ \E lo \in Values, hi \in Values \cup {None} : x = Repeat(lo, hi, y)
        PROVE  x \in Trees
    <3>1. PICK d \in Nat : y \in Built[d]
      BY DEF Trees
    <3>2. x \in Over(Built[d])
      BY <2>3, <3>1 DEF Over
    <3> QED BY <1>2, <3>2
  <2> QED BY <2>1, <2>2, <2>3 DEF Over
<1> QED BY <1>1, <1>3

(* Induction on how an element is made.                                    *)
LEMMA TreeInduction ==
  ASSUME NEW S, \A x \in Over(Trees \cap S) : x \in S
  PROVE  \A x \in Trees : x \in S
<1> DEFINE A == {d \in Nat : Built[d] \subseteq S}
<1>1. 0 \in A
  BY BuiltFacts
<1>2. ASSUME NEW d \in Nat, d \in A PROVE d + 1 \in A
  <2>1. Built[d] \subseteq Trees \cap S
    BY <1>2 DEF Trees
  <2>2. Over(Built[d]) \subseteq Over(Trees \cap S)
    BY <2>1, OverGrows
  <2>3. d + 1 \in Nat /\ Built[d + 1] = Over(Built[d])
    BY BuiltFacts
  <2> QED BY <2>2, <2>3
<1>3. \A d \in Nat : d \in A
  <2> HIDE DEF A
  <2> QED BY <1>1, <1>2, CountOn
<1> QED BY <1>3 DEF Trees

(* How an element is made can be told from it.                             *)
LEMMA OverFacts ==
  ASSUME NEW X, NEW x \in Over(X)
  PROVE  /\ x.parts \in Seq(X)
         /\ x.kind \in {"alt", "concat", "optional", "repeat", "ref", "char", "num", "prose"}
         /\ x.kind = "alt" => x.parts # << >> /\ x = Alt(x.parts)
         /\ x.kind = "concat" => x.parts # << >> /\ x = Concat(x.parts)
         /\ x.kind = "optional" => Len(x.parts) = 1 /\ x.parts[1] \in X /\ x = Opt(x.parts[1])
         /\ x.kind = "repeat" => /\ Len(x.parts) = 1 /\ x.parts[1] \in X
                                 /\ x.min \in Nat /\ x.max \in Nat \cup {None}
                                 /\ x.min \in Values /\ x.max \in Values \cup {None}
                                 /\ x = Repeat(x.min, x.max, x.parts[1])
         /\ x.kind \in {"ref", "char", "num", "prose"} <=> x \in Leaves
         /\ x \in Leaves => x.parts = << >>
<1>0. \A y \in Leaves : y.parts = << >> /\ y.kind \in {"ref", "char", "num", "prose"}
  BY DEF Leaves, Ref, Str, Num, Span, ProseVal
<1>1. CASE x \in Leaves
  <2>1. << >> \in Seq(X)
    OBVIOUS
  <2>2. x.parts = << >> /\ x.kind \in {"ref", "char", "num", "prose"}
    BY <1>0, <1>1
  <2>3. x.kind \notin {"alt", "concat", "optional", "repeat"}
    BY <2>2
  <2> QED BY <1>1, <2>1, <2>2, <2>3
<1>2. ASSUME NEW s \in Seq(X) \ {<< >>}, x = Alt(s)
      PROVE  x.parts = s /\ x.kind = "alt"
  BY <1>2 DEF Alt
<1>3. ASSUME NEW s \in Seq(X) \ {<< >>}, x = Concat(s)
      PROVE  x.parts = s /\ x.kind = "concat"
  BY <1>3 DEF Concat
<1>4. ASSUME NEW y \in X, x = Opt(y)
      PROVE  x.parts = <<y>> /\ x.kind = "optional"
  BY <1>4 DEF Opt
<1>5. ASSUME NEW y \in X, NEW lo \in Values, NEW hi \in Values \cup {None}, x = Repeat(lo, hi, y)
      PROVE  x.parts = <<y>> /\ x.kind = "repeat" /\ x.min = lo /\ x.max = hi
  BY <1>5 DEF Repeat
<1>6. \A y \in X : <<y>> \in Seq(X) /\ Len(<<y>>) = 1 /\ <<y>>[1] = y
  OBVIOUS
<1>7. CASE \E s \in Seq(X) \ {<< >>} : x = Alt(s) \/ x = Concat(s)
  BY <1>0, <1>2, <1>3, <1>7
<1>8. CASE \E y \in X : x = Opt(y)
  BY <1>0, <1>4, <1>6, <1>8
<1>9. CASE \E y \in X, lo \in Values, hi \in Values \cup {None} : x = Repeat(lo, hi, y)
  <2>1. PICK y \in X, lo \in Values, hi \in Values \cup {None} : x = Repeat(lo, hi, y)
    BY <1>9
  <2>2. x.parts = <<y>> /\ x.kind = "repeat" /\ x.min = lo /\ x.max = hi
    BY <1>5, <2>1
  <2>3. x.parts \in Seq(X) /\ Len(x.parts) = 1 /\ x.parts[1] = y
    BY <1>6, <2>2
  <2>4. x \notin Leaves
    BY <1>0, <2>2
  <2> QED BY <2>1, <2>2, <2>3, <2>4, ValuesFacts
<1> QED BY <1>1, <1>7, <1>8, <1>9 DEF Over

(* A function of the elements may be given by what it is for an element    *)
(* whose parts have theirs.                                                *)
Of(g, x) == [i \in DOMAIN x.parts |-> g[x.parts[i]]]

(* What a function says of the parts is a sequence of its values.          *)
LEMMA OfFacts ==
  ASSUME NEW X, NEW V, NEW g, \A y \in X : g[y] \in V, NEW x \in Over(X)
  PROVE  Of(g, x) \in Seq(V)
<1>1. x.parts \in Seq(X)
  BY OverFacts
<1>2. Len(x.parts) \in Nat /\ DOMAIN x.parts = 1 .. Len(x.parts)
      /\ \A i \in 1 .. Len(x.parts) : x.parts[i] \in X
  BY <1>1
<1>3. \A i \in 1 .. Len(x.parts) : g[x.parts[i]] \in V
  BY <1>2
<1>4. Of(g, x) = [i \in 1 .. Len(x.parts) |-> g[x.parts[i]]]
  BY <1>2 DEF Of
<1> QED BY <1>2, <1>3, <1>4

(* Functions that agree on the parts say the same of them.                 *)
LEMMA OfAgree ==
  ASSUME NEW X, NEW f, NEW g, \A y \in X : f[y] = g[y], NEW x \in Over(X)
  PROVE  Of(f, x) = Of(g, x)
<1>1. x.parts \in Seq(X)
  BY OverFacts
<1>2. \A i \in DOMAIN x.parts : x.parts[i] \in X
  BY <1>1
<1> QED BY <1>2 DEF Of

(* There is the function that `h` gives, part by part.                     *)
LEMMA TreeRecursion ==
  ASSUME NEW V, NEW h \in [Trees \X Seq(V) -> V]
  PROVE  \E g \in [Trees -> V] : \A x \in Trees : g[x] = h[<<x, Of(g, x)>>]
<1> DEFINE P(d, g) == g \in [Built[d] -> V] /\ \A x \in Built[d] : g[x] = h[<<x, Of(g, x)>>]
           A == {d \in Nat : \E g : P(d, g)}
<1>0. \A d \in Nat : Built[d] \subseteq Trees
  BY DEF Trees
<1>1. 0 \in A
  <2>1. P(0, [x \in {} |-> x])
    BY BuiltFacts
  <2> QED BY <2>1
<1>2. ASSUME NEW d \in Nat, d \in A PROVE d + 1 \in A
  <2>1. PICK g : P(d, g)
    BY <1>2
  <2> DEFINE f == [x \in Built[d + 1] |-> h[<<x, Of(g, x)>>]]
  <2>2. Built[d + 1] = Over(Built[d]) /\ Built[d] \subseteq Built[d + 1] /\ d + 1 \in Nat
    BY BuiltFacts, BuiltGrows
  <2>3. \A y \in Built[d] : g[y] \in V
    BY <2>1
  <2>4. ASSUME NEW x \in Built[d + 1] PROVE f[x] \in V
    <3>1. Of(g, x) \in Seq(V)
      BY <2>2, <2>3, OfFacts
    <3>2. x \in Trees
      BY <1>0, <2>2
    <3> QED BY <3>1, <3>2
  <2>5. \A y \in Built[d] : f[y] = g[y]
    BY <2>1, <2>2
  <2>6. ASSUME NEW x \in Built[d + 1] PROVE f[x] = h[<<x, Of(f, x)>>]
    <3>1. Of(f, x) = Of(g, x)
      <4> HIDE DEF f
      <4> QED BY <2>2, <2>5, OfAgree
    <3> QED BY <3>1
  <2>7. P(d + 1, f)
    <3>1. f \in [Built[d + 1] -> V]
      BY <2>4
    <3> HIDE DEF f
    <3> QED BY <2>6, <3>1
  <2> HIDE DEF P
  <2> QED BY <2>2, <2>7
<1>3. \A d \in Nat : d \in A
  <2> HIDE DEF A
  <2> QED BY <1>1, <1>2, CountOn
<1> DEFINE to(d) == CHOOSE g : P(d, g)
<1>4. \A d \in Nat : P(d, to(d))
  <2> HIDE DEF P
  <2> QED BY <1>3
<1> HIDE DEF to
<1> DEFINE S == {x \in Trees : \A m, n \in Nat : x \in Built[m] /\ x \in Built[n] => to(m)[x] = to(n)[x]}
<1>5. ASSUME NEW x \in Over(Trees \cap S) PROVE x \in S
  <2>1. x \in Trees
    <3>1. Trees \cap S \subseteq Trees
      OBVIOUS
    <3> HIDE DEF S
    <3> QED BY <3>1, OverGrows, TreesOver
  <2>2. ASSUME NEW n \in Nat, x \in Built[n]
        PROVE  \A i \in DOMAIN x.parts : x.parts[i] \in Built[n]
    <3>1. n # 0
      BY <2>2, BuiltFacts
    <3>2. PICK c \in Nat : n = c + 1
      <4>1. n - 1 \in Nat /\ n = (n - 1) + 1
        BY <3>1
      <4> QED BY <4>1
    <3>3. x \in Over(Built[c]) /\ Built[c] \subseteq Built[n]
      BY <2>2, <3>2, BuiltFacts, BuiltGrows
    <3>4. x.parts \in Seq(Built[c])
      BY <3>3, OverFacts
    <3> QED BY <3>3, <3>4
  <2>3. x.parts \in Seq(Trees \cap S)
    <3> HIDE DEF S
    <3> QED BY OverFacts
  <2>4. \A i \in DOMAIN x.parts : x.parts[i] \in S
    BY <2>3
  <2>5. ASSUME NEW m \in Nat, NEW n \in Nat, x \in Built[m], x \in Built[n]
        PROVE  to(m)[x] = to(n)[x]
    <3>1. \A i \in DOMAIN x.parts : to(m)[x.parts[i]] = to(n)[x.parts[i]]
      BY <2>2, <2>4, <2>5
    <3>2. Of(to(m), x) = Of(to(n), x)
      BY <3>1 DEF Of
    <3>3. to(m)[x] = h[<<x, Of(to(m), x)>>] /\ to(n)[x] = h[<<x, Of(to(n), x)>>]
      BY <1>4, <2>5
    <3> QED BY <3>2, <3>3
  <2> QED BY <2>1, <2>5
<1>6. \A x \in Trees : x \in S
  <2> HIDE DEF S
  <2> QED BY <1>5, TreeInduction
<1> DEFINE depth(x) == CHOOSE d \in Nat : x \in Built[d]
           f == [x \in Trees |-> to(depth(x))[x]]
<1>7. \A x \in Trees : depth(x) \in Nat /\ x \in Built[depth(x)]
  <2> TAKE x \in Trees
  <2>1. \E d \in Nat : x \in Built[d]
    BY DEF Trees
  <2> QED BY <2>1
<1> HIDE DEF depth
<1>8. ASSUME NEW x \in Trees, NEW d \in Nat, x \in Built[d] PROVE f[x] = to(d)[x]
  BY <1>6, <1>7, <1>8
<1>9. ASSUME NEW x \in Trees PROVE f[x] \in V /\ f[x] = h[<<x, Of(f, x)>>]
  <2>1. PICK d \in Nat : x \in Built[d]
    BY DEF Trees
  <2>2. x \in Over(Built[d]) /\ Built[d] \subseteq Trees
    <3>1. Built[d] \subseteq Built[d + 1] /\ d + 1 \in Nat
      BY BuiltGrows
    <3> QED BY <1>0, <2>1, <3>1, BuiltFacts
  <2>3. \A y \in Built[d] : f[y] = to(d)[y]
    <3> HIDE DEF f
    <3> QED BY <1>8, <2>2
  <2>4. Of(f, x) = Of(to(d), x)
    <3> HIDE DEF f
    <3> QED BY <2>2, <2>3, OfAgree
  <2>5. to(d)[x] \in V /\ to(d)[x] = h[<<x, Of(to(d), x)>>]
    BY <1>4, <2>1
  <2> HIDE DEF f
  <2> QED BY <2>1, <2>3, <2>4, <2>5
<1>10. f \in [Trees -> V]
  <2>1. \A x \in Trees : f[x] \in V
    <3> HIDE DEF f
    <3> QED BY <1>9
  <2> QED BY <2>1
<1> HIDE DEF f
<1> QED BY <1>9, <1>10

-----------------------------------------------------------------------------
(* The elements in an element: the least set that holds it and the parts of*)
(* whatever it holds.                                                      *)
PartsIn(S) == \A x \in S : \A i \in DOMAIN x.parts : x.parts[i] \in S

(* `Below(e)` is the least set that holds e and the parts of all it holds. *)
THEOREM BelowFacts ==
  ASSUME NEW e \in Trees
  PROVE  /\ Below(e) \subseteq Trees /\ e \in Below(e) /\ PartsIn(Below(e))
         /\ \A S : e \in S /\ PartsIn(S) => Below(e) \subseteq S
<1> DEFINE Next1(X) == UNION {ToSet(x.parts) : x \in X}
           L(f) == f = [k \in Nat |-> IF k = 0 THEN {e} ELSE Next1(f[k - 1])]
           level == CHOOSE f : L(f)
           F(f) == f = [k \in Nat |-> IF level[k] = {} THEN {} ELSE level[k] \cup f[k + 1]]
           from == CHOOSE f : F(f)
<1>1. Below(e) = from[0]
  BY DEF Below
<1>2. \A X \in SUBSET Trees : \A y : y \in Next1(X) <=> \E x \in X : \E i \in DOMAIN x.parts : y = x.parts[i]
  BY DEF ToSet
<1>3. \A x \in Trees : \A i \in DOMAIN x.parts : x.parts[i] \in Trees
  <2> TAKE x \in Trees
  <2>1. x.parts \in Seq(Trees)
    BY TreesOver, OverFacts
  <2> QED BY <2>1
<1>4. \A X \in SUBSET Trees : Next1(X) \in SUBSET Trees
  <2> HIDE DEF Next1
  <2> QED BY <1>2, <1>3
<1> HIDE DEF Next1
<1>5. /\ level \in [Nat -> SUBSET Trees] /\ level[0] = {e}
      /\ \A k \in Nat : level[k + 1] = Next1(level[k])
  <2> DEFINE V == SUBSET Trees
             h == [z \in (Nat \ {0}) \X V |-> Next1(z[2])]
  <2>1. h \in [(Nat \ {0}) \X V -> V]
    BY <1>4
  <2>2. {e} \in V
    OBVIOUS
  <2>3. PICK g \in [Nat -> V] : IteratesOn(g, {e}, h)
    <3> HIDE DEF h, V
    <3> QED BY <2>1, <2>2, IterationOnExists
  <2>4. \A k \in Nat \ {0} : g[k] = Next1(g[k - 1])
    <3> TAKE k \in Nat \ {0}
    <3>1. k - 1 \in Nat /\ g[k - 1] \in V
      OBVIOUS
    <3>2. h[<<k, g[k - 1]>>] = Next1(g[k - 1])
      BY <3>1
    <3> QED BY <2>3, <3>2 DEF IteratesOn
  <2>5. g[0] = {e}
    BY <2>3 DEF IteratesOn
  <2>6. L(g)
    <3>1. g = [k \in Nat |-> g[k]]
      OBVIOUS
    <3> QED BY <2>4, <2>5, <3>1
  <2>7. L(level)
    <3> HIDE DEF L
    <3> QED BY <2>6
  <2> HIDE DEF level
  <2>8. level[0] = {e} /\ \A k \in Nat : level[k + 1] = Next1(level[k])
    <3>1. \A k \in Nat : level[k] = IF k = 0 THEN {e} ELSE Next1(level[k - 1])
      BY <2>7
    <3>2. \A k \in Nat : k + 1 \in Nat /\ k + 1 # 0 /\ (k + 1) - 1 = k
      OBVIOUS
    <3> QED BY <3>1, <3>2
  <2> DEFINE A == {k \in Nat : level[k] \in V}
  <2>9. \A k \in Nat : k \in A
    <3>1. 0 \in A
      BY <2>8
    <3>2. \A k \in Nat : k \in A => k + 1 \in A
      BY <1>4, <2>8
    <3> HIDE DEF A
    <3> QED BY <3>1, <3>2, CountOn
  <2> QED BY <2>7, <2>8, <2>9
<1> HIDE DEF level
<1>6. PICK d \in Nat : level[d] = {}
  <2>1. PICK d \in Nat : e \in Built[d]
    BY DEF Trees
  <2> DEFINE A == {k \in Nat : k <= d => level[k] \subseteq Built[d - k]}
  <2>2. 0 \in A
    BY <1>5, <2>1
  <2>3. ASSUME NEW k \in Nat, k \in A, k + 1 <= d PROVE level[k + 1] \subseteq Built[d - (k + 1)]
    <3>1. d - (k + 1) \in Nat /\ (d - (k + 1)) + 1 = d - k /\ k <= d
      BY <2>3
    <3>2. Built[d - k] = Over(Built[d - (k + 1)])
      BY <3>1, BuiltFacts
    <3>3. ASSUME NEW x \in level[k] PROVE \A i \in DOMAIN x.parts : x.parts[i] \in Built[d - (k + 1)]
      <4>1. x \in Over(Built[d - (k + 1)])
        BY <2>3, <3>1, <3>2, <3>3
      <4>2. x.parts \in Seq(Built[d - (k + 1)])
        BY <4>1, OverFacts
      <4> QED BY <4>2
    <3>4. level[k] \in SUBSET Trees /\ level[k + 1] = Next1(level[k])
      BY <1>5
    <3> QED BY <1>2, <3>3, <3>4
  <2>4. \A k \in Nat : k \in A
    <3>1. \A k \in Nat : k \in A => k + 1 \in A
      BY <2>3
    <3> HIDE DEF A
    <3> QED BY <2>2, <3>1, CountOn
  <2>5. level[d] \subseteq Built[0]
    <3>1. d - d = 0
      OBVIOUS
    <3> QED BY <2>4, <3>1
  <2> QED BY <2>5, BuiltFacts
<1> DEFINE rest == [k \in Nat |-> UNION {level[j] : j \in {i \in Nat : i >= k}}]
<1>7. \A k \in Nat : level[k] = {} => level[k + 1] = {}
  BY <1>2, <1>5
<1>8. ASSUME NEW k \in Nat, level[k] = {} PROVE rest[k] = {}
  <2> DEFINE A == {j \in Nat : level[k + j] = {}}
  <2>1. \A j \in Nat : j \in A
    <3>1. 0 \in A
      BY <1>8
    <3>2. ASSUME NEW j \in Nat, j \in A PROVE j + 1 \in A
      <4>1. k + j \in Nat /\ (k + j) + 1 = k + (j + 1)
        OBVIOUS
      <4> QED BY <1>7, <3>2, <4>1
    <3> HIDE DEF A
    <3> QED BY <3>1, <3>2, CountOn
  <2>2. ASSUME NEW i \in Nat, i >= k PROVE level[i] = {}
    <3>1. i - k \in Nat /\ k + (i - k) = i
      BY <2>2
    <3> QED BY <2>1, <3>1
  <2> QED BY <2>2
<1>9. \A k \in Nat : rest[k] = level[k] \cup rest[k + 1]
  <2> TAKE k \in Nat
  <2>1. \A j \in Nat : j >= k <=> j = k \/ j >= k + 1
    OBVIOUS
  <2> QED BY <2>1
<1>10. F(rest)
  <2>1. \A k \in Nat : rest[k] = IF level[k] = {} THEN {} ELSE level[k] \cup rest[k + 1]
    <3> HIDE DEF rest
    <3> QED BY <1>8, <1>9
  <2>2. rest = [k \in Nat |-> rest[k]]
    OBVIOUS
  <2> HIDE DEF rest
  <2> QED BY <2>1, <2>2
<1>11. F(from)
  <2> HIDE DEF F
  <2> QED BY <1>10
<1> HIDE DEF from
<1>17. \A i \in Nat : from[i] = IF level[i] = {} THEN {} ELSE level[i] \cup from[i + 1]
  <2> HIDE DEF rest
  <2> QED BY <1>11
<1>12. from[0] = rest[0]
  <2> DEFINE A == {j \in Nat : j <= d => from[d - j] = rest[d - j]}
  <2>1. 0 \in A
    <3>1. from[d] = {} /\ rest[d] = {}
      <4> HIDE DEF rest
      <4> QED BY <1>6, <1>8, <1>11
    <3>2. d - 0 = d
      OBVIOUS
    <3> HIDE DEF rest
    <3> QED BY <3>1, <3>2
  <2>2. ASSUME NEW j \in Nat, j \in A, j + 1 <= d PROVE from[d - (j + 1)] = rest[d - (j + 1)]
    <3>1. PICK k \in Nat : k = d - (j + 1)
      BY <2>2
    <3>2. k + 1 = d - j /\ j <= d
      BY <2>2, <3>1
    <3>3. from[k + 1] = rest[k + 1]
      BY <2>2, <3>2
    <3>4. from[k] = IF level[k] = {} THEN {} ELSE level[k] \cup from[k + 1]
      BY <1>17
    <3>5. rest[k] = IF level[k] = {} THEN {} ELSE level[k] \cup rest[k + 1]
      <4> HIDE DEF rest
      <4> QED BY <1>10
    <3> HIDE DEF rest
    <3> QED BY <3>1, <3>3, <3>4, <3>5
  <2>3. \A j \in Nat : j \in A
    <3>1. \A j \in Nat : j \in A => j + 1 \in A
      <4> HIDE DEF rest
      <4> QED BY <2>2
    <3> HIDE DEF A
    <3> QED BY <2>1, <3>1, CountOn
  <2>4. d - d = 0 /\ d <= d
    OBVIOUS
  <2> HIDE DEF rest
  <2> QED BY <2>3, <2>4
<1>13. \A y : y \in Below(e) <=> \E j \in Nat : y \in level[j]
  BY <1>1, <1>12
<1>14. e \in Below(e) /\ Below(e) \subseteq Trees
  BY <1>5, <1>13
<1>15. ASSUME NEW x \in Below(e), NEW i \in DOMAIN x.parts PROVE x.parts[i] \in Below(e)
  <2>1. PICK j \in Nat : x \in level[j]
    BY <1>13
  <2>2. level[j] \in SUBSET Trees /\ level[j + 1] = Next1(level[j]) /\ j + 1 \in Nat
    BY <1>5
  <2>3. x.parts[i] \in level[j + 1]
    BY <1>2, <2>1, <2>2
  <2> QED BY <1>13, <2>2, <2>3
<1>16. ASSUME NEW S, e \in S, PartsIn(S) PROVE Below(e) \subseteq S
  <2> DEFINE A == {k \in Nat : level[k] \subseteq S}
  <2>1. 0 \in A
    BY <1>5, <1>16
  <2>2. ASSUME NEW k \in Nat, k \in A PROVE k + 1 \in A
    <3>1. level[k] \in SUBSET Trees /\ level[k + 1] = Next1(level[k]) /\ k + 1 \in Nat
      BY <1>5
    <3> QED BY <1>2, <1>16, <2>2, <3>1 DEF PartsIn
  <2>3. \A k \in Nat : k \in A
    <3> HIDE DEF A
    <3> QED BY <2>1, <2>2, CountOn
  <2> QED BY <1>13, <2>3
<1> QED BY <1>14, <1>15, <1>16 DEF PartsIn

(* Those of an element are itself and those of its parts.                  *)
LEMMA BelowParts ==
  ASSUME NEW e \in Trees
  PROVE  \A y : y \in Below(e) <=> y = e \/ \E i \in DOMAIN e.parts : y \in Below(e.parts[i])
<1>1. \A i \in DOMAIN e.parts : e.parts[i] \in Trees
  <2>1. e.parts \in Seq(Trees)
    BY TreesOver, OverFacts
  <2> QED BY <2>1
<1>2. /\ e \in Below(e) /\ PartsIn(Below(e))
      /\ \A S : e \in S /\ PartsIn(S) => Below(e) \subseteq S
  BY BelowFacts
<1>3. ASSUME NEW i \in DOMAIN e.parts PROVE Below(e.parts[i]) \subseteq Below(e)
  <2>1. e.parts[i] \in Below(e)
    BY <1>2 DEF PartsIn
  <2>2. \A S : e.parts[i] \in S /\ PartsIn(S) => Below(e.parts[i]) \subseteq S
    BY <1>1, BelowFacts
  <2> QED BY <1>2, <2>1, <2>2
<1> DEFINE S == {e} \cup UNION {Below(e.parts[i]) : i \in DOMAIN e.parts}
<1>4. PartsIn(S)
  <2>1. \A i \in DOMAIN e.parts : e.parts[i] \in Below(e.parts[i]) /\ PartsIn(Below(e.parts[i]))
    BY <1>1, BelowFacts
  <2>2. ASSUME NEW x \in S, NEW j \in DOMAIN x.parts PROVE x.parts[j] \in S
    <3>1. CASE x = e
      <4>1. x.parts[j] \in Below(e.parts[j]) /\ j \in DOMAIN e.parts
        BY <2>1, <3>1
      <4> QED BY <4>1
    <3>2. CASE \E i \in DOMAIN e.parts : x \in Below(e.parts[i])
      <4>1. PICK i \in DOMAIN e.parts : x \in Below(e.parts[i])
        BY <3>2
      <4>2. x.parts[j] \in Below(e.parts[i])
        BY <2>1, <4>1 DEF PartsIn
      <4> QED BY <4>2
    <3> QED BY <3>1, <3>2
  <2> HIDE DEF S
  <2> QED BY <2>2 DEF PartsIn
<1>5. Below(e) \subseteq S
  <2>1. e \in S
    OBVIOUS
  <2> HIDE DEF S
  <2> QED BY <1>2, <1>4, <2>1
<1> QED BY <1>2, <1>3, <1>5

(* Induction on a sequence, from its first element on.                     *)
LEMMA SequenceInduction ==
  ASSUME NEW T, NEW S, << >> \in S, \A s \in Seq(T), x \in T : s \in S => Append(s, x) \in S
  PROVE  \A s \in Seq(T) : s \in S
<1> DEFINE A == {n \in Nat : \A s \in Seq(T) : Len(s) = n => s \in S}
<1>1. 0 \in A
  <2>1. \A s \in Seq(T) : Len(s) = 0 => s = << >>
    OBVIOUS
  <2> QED BY <2>1
<1>2. ASSUME NEW n \in Nat, n \in A PROVE n + 1 \in A
  <2>1. ASSUME NEW s \in Seq(T), Len(s) = n + 1 PROVE s \in S
    <3>1. s # << >>
      BY <2>1
    <3>2. PICK u \in Seq(T), x \in T : s = Append(u, x)
      BY <3>1, SequenceEmptyOrAppend
    <3>3. Len(s) = Len(u) + 1 /\ Len(u) \in Nat
      BY <3>2, AppendProperties
    <3>4. Len(u) = n
      BY <2>1, <3>3
    <3>5. u \in S
      BY <1>2, <3>4
    <3> QED BY <3>2, <3>5
  <2> QED BY <2>1
<1>3. \A n \in Nat : n \in A
  <2> HIDE DEF A
  <2> QED BY <1>1, <1>2, CountOn
<1>4. \A s \in Seq(T) : Len(s) \in Nat
  OBVIOUS
<1> QED BY <1>3, <1>4

(* Functions with the same values on what is below an element are one.     *)
LEMMA BelowAgree ==
  ASSUME NEW e \in Trees, NEW f, NEW g, \A x \in Below(e) : Of(f, x) = Of(g, x) => f[x] = g[x]
  PROVE  \A x \in Below(e) : f[x] = g[x]
<1> DEFINE S == {x \in Trees : x \in Below(e) => f[x] = g[x]}
<1>1. ASSUME NEW x \in Over(Trees \cap S), x \in Below(e) PROVE f[x] = g[x]
  <2>1. x.parts \in Seq(Trees \cap S)
    <3> HIDE DEF S
    <3> QED BY OverFacts
  <2>2. \A i \in DOMAIN x.parts : x.parts[i] \in S /\ x.parts[i] \in Below(e)
    <3>1. PartsIn(Below(e))
      BY BelowFacts
    <3> QED BY <1>1, <2>1, <3>1 DEF PartsIn
  <2>3. Of(f, x) = Of(g, x)
    BY <2>2 DEF Of
  <2> QED BY <1>1, <2>3
<1>2. \A x \in Over(Trees \cap S) : x \in Trees
  <2>1. Trees \cap S \subseteq Trees
    OBVIOUS
  <2> HIDE DEF S
  <2> QED BY <2>1, OverGrows, TreesOver
<1>3. \A x \in Over(Trees \cap S) : x \in S
  BY <1>1, <1>2
<1>4. \A x \in Trees : x \in S
  <2> HIDE DEF S
  <2> QED BY <1>3, TreeInduction
<1>5. Below(e) \subseteq Trees
  BY BelowFacts
<1> QED BY <1>4, <1>5

(* A function of all elements agrees with its restriction on their parts.  *)
LEMMA OfBelow ==
  ASSUME NEW e \in Trees, NEW g, NEW x \in Below(e)
  PROVE  Of([y \in Below(e) |-> g[y]], x) = Of(g, x)
<1>1. \A i \in DOMAIN x.parts : x.parts[i] \in Below(e)
  BY BelowFacts DEF PartsIn
<1> QED BY <1>1 DEF Of

-----------------------------------------------------------------------------
(* What is dissolved in a node.                                            *)
Dissolved(x, kind) == IF x.kind = kind THEN x.parts ELSE <<x>>

(* Flattening dissolves one part after the other.                          *)
LEMMA FlattenedFacts ==
  ASSUME NEW X, NEW kind, NEW s \in Seq(X), NEW Y,
         \A x \in X : Dissolved(x, kind) \in Seq(Y) \ {<< >>}
  PROVE  /\ Flattened(s, kind) \in Seq(Y)
         /\ Flattened(<< >>, kind) = << >>
         /\ s # << >> => Flattened(s, kind) # << >>
         /\ \A x \in X : Flattened(Append(s, x), kind) = Flattened(s, kind) \o Dissolved(x, kind)
<1> DEFINE D(w) == [i \in DOMAIN w |-> Dissolved(w[i], kind)]
<1>1. \A w : Flattened(w, kind) = FlattenSeq(D(w))
  BY DEF Flattened, Dissolved
<1>2. ASSUME NEW w \in Seq(X), NEW x \in X
      PROVE  /\ D(w) \in Seq(Seq(Y)) /\ (w # << >> => D(w) # << >>) /\ (w = << >> => D(w) = << >>)
             /\ D(Append(w, x)) = Append(D(w), Dissolved(x, kind))
  <2>1. Len(w) \in Nat /\ DOMAIN w = 1 .. Len(w) /\ \A i \in 1 .. Len(w) : w[i] \in X
    OBVIOUS
  <2> DEFINE V == Seq(Y)
  <2> HIDE DEF V, D
  <2>2. \A y \in X : Dissolved(y, kind) \in V
    BY DEF V
  <2>3. D(w) = [i \in 1 .. Len(w) |-> Dissolved(w[i], kind)]
    BY <2>1 DEF D
  <2>4. D(w) \in Seq(V) /\ Len(D(w)) = Len(w)
    BY <2>1, <2>2, <2>3
  <2>5. D(Append(w, x)) = Append(D(w), Dissolved(x, kind))
    <3>1. /\ Append(w, x) \in Seq(X) /\ Len(Append(w, x)) = Len(w) + 1
          /\ Append(w, x)[Len(w) + 1] = x /\ \A i \in 1 .. Len(w) : Append(w, x)[i] = w[i]
      BY AppendProperties
    <3>2. D(Append(w, x)) = [i \in 1 .. Len(w) + 1 |-> Dissolved(Append(w, x)[i], kind)]
      BY <3>1 DEF D
    <3>3. /\ Append(D(w), Dissolved(x, kind)) \in Seq(V)
          /\ Len(Append(D(w), Dissolved(x, kind))) = Len(w) + 1
          /\ Append(D(w), Dissolved(x, kind))[Len(w) + 1] = Dissolved(x, kind)
          /\ \A i \in 1 .. Len(w) : Append(D(w), Dissolved(x, kind))[i] = D(w)[i]
      BY <2>2, <2>4, AppendProperties
    <3>4. \A i \in 1 .. Len(w) + 1 : D(Append(w, x))[i] = Append(D(w), Dissolved(x, kind))[i]
      <4> TAKE i \in 1 .. Len(w) + 1
      <4>1. CASE i = Len(w) + 1
        BY <3>1, <3>2, <3>3, <4>1
      <4>2. CASE i # Len(w) + 1
        <5>1. i \in 1 .. Len(w)
          BY <2>1, <4>2
        <5> QED BY <2>3, <3>1, <3>2, <3>3, <5>1
      <4> QED BY <4>1, <4>2
    <3>5. D(Append(w, x)) \in Seq(V) /\ Len(D(Append(w, x))) = Len(w) + 1
      <4>1. \A i \in 1 .. Len(w) + 1 : Append(w, x)[i] \in X
        BY <3>1
      <4>2. \A i \in 1 .. Len(w) + 1 : Dissolved(Append(w, x)[i], kind) \in V
        BY <2>2, <4>1
      <4> QED BY <2>1, <3>2, <4>2
    <3> QED BY <3>3, <3>4, <3>5, SeqEqual
  <2>6. (w # << >> => D(w) # << >>) /\ (w = << >> => D(w) = << >>)
    BY <2>1, <2>4
  <2>7. D(w) \in Seq(Seq(Y))
    BY <2>4 DEF V
  <2> QED BY <2>5, <2>6, <2>7
<1>3. FlattenSeq(<< >>) = << >>
  BY DEF FlattenSeq
<1>4. D(<< >>) = << >>
  OBVIOUS
<1> HIDE DEF D
<1>5. Flattened(<< >>, kind) = << >>
  BY <1>1, <1>3, <1>4
<1>6. ASSUME NEW w \in Seq(X), NEW x \in X
      PROVE  /\ w # << >> => Flattened(w, kind) \in Seq(Y)
             /\ Flattened(Append(w, x), kind) = Flattened(w, kind) \o Dissolved(x, kind)
  <2>1. Dissolved(x, kind) \in Seq(Y)
    OBVIOUS
  <2>2. /\ D(w) = << >> => FlattenSeq(Append(D(w), Dissolved(x, kind))) = Dissolved(x, kind)
        /\ D(w) # << >> => /\ FlattenSeq(D(w)) \in Seq(Y)
                           /\ FlattenSeq(Append(D(w), Dissolved(x, kind))) = FlattenSeq(D(w)) \o Dissolved(x, kind)
    BY <1>2, <2>1, FlattenMore
  <2>3. << >> \o Dissolved(x, kind) = Dissolved(x, kind)
    BY <2>1, ConcatEmptySeq
  <2>4. CASE w = << >>
    <3>1. D(w) = << >> /\ D(Append(w, x)) = Append(D(w), Dissolved(x, kind))
      BY <1>2, <2>4
    <3> QED BY <1>1, <1>5, <2>2, <2>3, <2>4, <3>1
  <2>5. CASE w # << >>
    <3>1. D(w) # << >> /\ D(Append(w, x)) = Append(D(w), Dissolved(x, kind))
      BY <1>2, <2>5
    <3> QED BY <1>1, <2>2, <2>5, <3>1
  <2> QED BY <2>4, <2>5
<1> DEFINE S == {w \in Seq(X) : Flattened(w, kind) \in Seq(Y) /\ (w # << >> => Flattened(w, kind) # << >>)}
<1>7. << >> \in S
  <2>1. << >> \in Seq(X) /\ << >> \in Seq(Y)
    OBVIOUS
  <2> QED BY <1>5, <2>1
<1>8. ASSUME NEW w \in Seq(X), NEW x \in X, w \in S PROVE Append(w, x) \in S
  <2>1. Dissolved(x, kind) \in Seq(Y) /\ Dissolved(x, kind) # << >> /\ Append(w, x) \in Seq(X)
    BY AppendProperties
  <2>2. Flattened(w, kind) \in Seq(Y)
    BY <1>8
  <2>3. /\ Flattened(w, kind) \o Dissolved(x, kind) \in Seq(Y)
        /\ Flattened(w, kind) \o Dissolved(x, kind) # << >>
    BY <2>1, <2>2, ConcatProperties, ConcatEqualIffEmpty
  <2> QED BY <1>6, <2>1, <2>3
<1>9. \A w \in Seq(X) : w \in S
  <2> HIDE DEF S
  <2> QED BY <1>7, <1>8, SequenceInduction
<1> QED BY <1>5, <1>6, <1>9

(* Every part dissolved is of other kind, if the parts of parts are.       *)
LEMMA DissolvedTrees ==
  ASSUME NEW x \in Trees, NEW kind \in {"alt", "concat"}
  PROVE  Dissolved(x, kind) \in Seq(Trees) \ {<< >>}
<1>1. x \in Over(Trees)
  BY TreesOver
<1>2. x.parts \in Seq(Trees) /\ (x.kind = kind => x.parts # << >>)
  BY <1>1, OverFacts
<1>3. <<x>> \in Seq(Trees) /\ <<x>> # << >>
  OBVIOUS
<1> QED BY <1>2, <1>3 DEF Dissolved
-----------------------------------------------------------------------------
(* One rewrite, the parts rewritten.                                       *)
CanonStep(x, parts) ==
  CASE x.kind \in {"alt", "concat"} -> UnwrapSingle(Flattened(parts, x.kind), x.kind)
    [] x.kind = "repeat"            -> Respelled(x, parts[1])
    [] OTHER                        -> [x EXCEPT !.parts = parts]

(* An element of a known kind, rewritten.                                  *)
LEMMA StepFacts ==
  ASSUME NEW x \in Trees, NEW w \in Seq(Trees), Len(w) = Len(x.parts)
  PROVE  /\ CanonStep(x, w) \in Trees
         /\ x.kind \in {"alt", "concat"} => w # << >> /\ CanonStep(x, w) = UnwrapSingle(Flattened(w, x.kind), x.kind)
         /\ x.kind = "optional" => w[1] \in Trees /\ CanonStep(x, w) = Opt(w[1])
         /\ x.kind = "repeat" => w[1] \in Trees /\ CanonStep(x, w) = Respelled(x, w[1])
         /\ x \in Leaves => CanonStep(x, w) = x
<1>1. x \in Over(Trees)
  BY TreesOver
<1>2. /\ x.parts \in Seq(Trees)
      /\ x.kind \in {"alt", "concat", "optional", "repeat", "ref", "char", "num", "prose"}
      /\ x.kind = "alt" => x.parts # << >> /\ x = Alt(x.parts)
      /\ x.kind = "concat" => x.parts # << >> /\ x = Concat(x.parts)
      /\ x.kind = "optional" => Len(x.parts) = 1 /\ x.parts[1] \in Trees /\ x = Opt(x.parts[1])
      /\ x.kind = "repeat" => /\ Len(x.parts) = 1 /\ x.parts[1] \in Trees
                              /\ x.min \in Values /\ x.max \in Values \cup {None}
                              /\ x = Repeat(x.min, x.max, x.parts[1])
      /\ x.kind \in {"ref", "char", "num", "prose"} <=> x \in Leaves
      /\ x \in Leaves => x.parts = << >>
  BY <1>1, OverFacts
<1>3. CASE x.kind \in {"alt", "concat"}
  <2>1. w # << >> /\ CanonStep(x, w) = UnwrapSingle(Flattened(w, x.kind), x.kind)
    BY <1>2, <1>3 DEF CanonStep
  <2>2. \A y \in Trees : Dissolved(y, x.kind) \in Seq(Trees) \ {<< >>}
    BY <1>3, DissolvedTrees
  <2>3. Flattened(w, x.kind) \in Seq(Trees) /\ Flattened(w, x.kind) # << >>
    BY <2>1, <2>2, FlattenedFacts
  <2>4. \A s \in Seq(Trees) \ {<< >>} : UnwrapSingle(s, "alt") \in Over(Trees) /\ UnwrapSingle(s, "concat") \in Over(Trees)
    <3> TAKE s \in Seq(Trees) \ {<< >>}
    <3>1. CASE Len(s) = 1
      <4>1. s[1] \in Trees
        BY <3>1
      <4> QED BY <3>1, <4>1, TreesOver DEF UnwrapSingle
    <3>2. CASE Len(s) # 1
      <4>1. UnwrapSingle(s, "alt") = Alt(s) /\ UnwrapSingle(s, "concat") = Concat(s)
        BY <3>2 DEF UnwrapSingle, Alt, Concat
      <4> QED BY <4>1 DEF Over
    <3> QED BY <3>1, <3>2
  <2>5. CanonStep(x, w) \in Trees
    BY <1>3, <2>1, <2>3, <2>4, TreesOver
  <2>6. x.kind \notin {"optional", "repeat"} /\ x \notin Leaves
    BY <1>2, <1>3
  <2> QED BY <2>1, <2>5, <2>6
<1>4. CASE x.kind = "optional"
  <2>1. PICK y \in Trees : w = <<y>> /\ w[1] = y
    BY <1>2, <1>4
  <2>2. CanonStep(x, w) = [x EXCEPT !.parts = w]
    BY <1>4 DEF CanonStep
  <2>3. [x EXCEPT !.parts = w] = Opt(y)
    <3>1. x = [kind |-> "optional", parts |-> <<x.parts[1]>>]
      BY <1>2, <1>4 DEF Opt
    <3> QED BY <2>1, <3>1 DEF Opt
  <2>4. Opt(y) \in Trees
    BY TreesOver DEF Over
  <2>5. x.kind \notin {"alt", "concat", "repeat"} /\ x \notin Leaves
    BY <1>2, <1>4
  <2> QED BY <2>1, <2>2, <2>3, <2>4, <2>5
<1>5. CASE x.kind = "repeat"
  <2>1. PICK y \in Trees : w = <<y>> /\ w[1] = y
    BY <1>2, <1>5
  <2>2. CanonStep(x, w) = Respelled(x, y)
    BY <1>5, <2>1 DEF CanonStep
  <2>3. [x EXCEPT !.parts = <<y>>] = Repeat(x.min, x.max, y)
    <3>1. PICK lo, hi, z : x = [kind |-> "repeat", parts |-> <<z>>, min |-> lo, max |-> hi]
      BY <1>2, <1>5 DEF Repeat
    <3> QED BY <3>1 DEF Repeat
  <2>4. Opt(y) \in Over(Trees) /\ Repeat(x.min, x.max, y) \in Over(Trees)
    BY <1>2, <1>5 DEF Over
  <2>5. Respelled(x, y) \in Trees
    BY <2>3, <2>4, TreesOver DEF Respelled
  <2>6. x.kind \notin {"alt", "concat", "optional"} /\ x \notin Leaves
    BY <1>2, <1>5
  <2> QED BY <2>1, <2>2, <2>5, <2>6
<1>6. CASE x \in Leaves
  <2>1. w = << >> /\ x.parts = << >>
    BY <1>2, <1>6
  <2>2. x.kind \notin {"alt", "concat", "optional", "repeat"}
    BY <1>2, <1>6
  <2>3. CanonStep(x, w) = [x EXCEPT !.parts = w]
    BY <2>2 DEF CanonStep
  <2>4. [x EXCEPT !.parts = << >>] = x
    BY <1>6, <2>1 DEF Leaves, Ref, Str, Num, Span, ProseVal
  <2> QED BY <1>6, <2>1, <2>2, <2>3, <2>4
<1> QED BY <1>2, <1>3, <1>4, <1>5, <1>6

(* Canonicalization rewrites every element once its parts are rewritten.   *)
LEMMA CanonicalizeIs ==
  /\ \A e \in Trees : Canonicalize(e) \in Trees
  /\ \A e \in Trees : Canonicalize(e) = CanonStep(e, [i \in DOMAIN e.parts |-> Canonicalize(e.parts[i])])
<1> DEFINE h == [z \in Trees \X Seq(Trees) |->
                   IF Len(z[2]) = Len(z[1].parts) THEN CanonStep(z[1], z[2]) ELSE z[1]]
<1>1. h \in [Trees \X Seq(Trees) -> Trees]
  <2>1. ASSUME NEW z \in Trees \X Seq(Trees)
        PROVE  (IF Len(z[2]) = Len(z[1].parts) THEN CanonStep(z[1], z[2]) ELSE z[1]) \in Trees
    <3>1. z[1] \in Trees /\ z[2] \in Seq(Trees)
      OBVIOUS
    <3> QED BY <3>1, StepFacts
  <2> QED BY <2>1
<1>2. PICK g \in [Trees -> Trees] : \A x \in Trees : g[x] = h[<<x, Of(g, x)>>]
  <2> DEFINE V == Trees
  <2>1. h \in [Trees \X Seq(V) -> V]
    BY <1>1
  <2> HIDE DEF h, V
  <2>2. \E g \in [Trees -> V] : \A x \in Trees : g[x] = h[<<x, Of(g, x)>>]
    BY <2>1, TreeRecursion
  <2> QED BY <2>2 DEF V
<1>3. \A x \in Trees : g[x] = CanonStep(x, Of(g, x))
  <2> TAKE x \in Trees
  <2>1. x \in Over(Trees) /\ \A y \in Trees : g[y] \in Trees
    BY TreesOver
  <2>2. Of(g, x) \in Seq(Trees)
    BY <2>1, OfFacts
  <2>3. Len(Of(g, x)) = Len(x.parts)
    <3>1. x.parts \in Seq(Trees)
      BY <2>1, OverFacts
    <3>2. DOMAIN x.parts = 1 .. Len(x.parts) /\ Len(x.parts) \in Nat
      BY <3>1
    <3>3. Of(g, x) = [i \in 1 .. Len(x.parts) |-> g[x.parts[i]]]
      BY <3>2 DEF Of
    <3> QED BY <3>2, <3>3
  <2>4. h[<<x, Of(g, x)>>] = CanonStep(x, Of(g, x))
    BY <2>2, <2>3
  <2> HIDE DEF h
  <2> QED BY <1>2, <2>4
<1>4. ASSUME NEW e \in Trees PROVE Canonicalize(e) = g[e]
  <2> DEFINE P(f) == f = [x \in Below(e) |-> CanonStep(x, Of(f, x))]
             F == CHOOSE f : P(f)
             r == [x \in Below(e) |-> g[x]]
  <2>1. Canonicalize(e) = F[e]
    BY DEF Canonicalize, CanonStep, Of
  <2>2. Below(e) \subseteq Trees /\ e \in Below(e)
    BY BelowFacts
  <2>3. P(r)
    <3>1. \A x \in Below(e) : r[x] = CanonStep(x, Of(r, x))
      <4> TAKE x \in Below(e)
      <4>1. Of(r, x) = Of(g, x)
        BY OfBelow
      <4>2. x \in Trees /\ r[x] = g[x]
        BY <2>2
      <4> HIDE DEF r
      <4> QED BY <1>3, <4>1, <4>2
    <3>2. r = [x \in Below(e) |-> r[x]]
      OBVIOUS
    <3> HIDE DEF r
    <3> QED BY <3>1, <3>2
  <2>4. P(F)
    <3> HIDE DEF P
    <3> QED BY <2>3
  <2> HIDE DEF F
  <2>5. \A x \in Below(e) : Of(F, x) = Of(g, x) => F[x] = g[x]
    BY <1>3, <2>2, <2>4
  <2>6. \A x \in Below(e) : F[x] = g[x]
    BY <2>5, BelowAgree
  <2> QED BY <2>1, <2>2, <2>6
<1>5. \A e \in Trees : Canonicalize(e) \in Trees
  BY <1>2, <1>4
<1>6. ASSUME NEW e \in Trees
      PROVE  Canonicalize(e) = CanonStep(e, [i \in DOMAIN e.parts |-> Canonicalize(e.parts[i])])
  <2>1. \A i \in DOMAIN e.parts : e.parts[i] \in Trees
    <3>1. e.parts \in Seq(Trees)
      BY TreesOver, OverFacts
    <3> QED BY <3>1
  <2>2. Of(g, e) = [i \in DOMAIN e.parts |-> Canonicalize(e.parts[i])]
    BY <1>4, <2>1 DEF Of
  <2> QED BY <1>3, <1>4, <2>2
<1> QED BY <1>5, <1>6

(* What Normal asks of one element.                                        *)
Proper(x) ==
  /\ x.kind \in {"alt", "concat"} =>
       Len(x.parts) > 1 /\ \A i \in DOMAIN x.parts : x.parts[i].kind # x.kind
  /\ x.kind = "repeat" => ~(x.max = 1 /\ x.min \in {0, 1})

(* Normal of an element is what it asks of the element and of its parts.   *)
LEMMA NormalIs ==
  ASSUME NEW e \in Trees
  PROVE  Normal(e) <=> Proper(e) /\ \A i \in DOMAIN e.parts : Normal(e.parts[i])
<1>1. \A x : Normal(x) <=> \A y \in Below(x) : Proper(y)
  BY Zenon DEF Normal, Proper
<1>2. \A y : y \in Below(e) <=> y = e \/ \E i \in DOMAIN e.parts : y \in Below(e.parts[i])
  BY BelowParts
<1> QED BY <1>1, <1>2

(* When an alternation or concatenation is normal.                         *)
LEMMA NormalLists ==
  ASSUME NEW s \in Seq(Trees), s # << >>
  PROVE  /\ Alt(s) \in Trees /\ Concat(s) \in Trees
         /\ Normal(Alt(s)) <=> /\ Len(s) > 1
                               /\ \A i \in 1 .. Len(s) : Normal(s[i]) /\ s[i].kind # "alt"
         /\ Normal(Concat(s)) <=> /\ Len(s) > 1
                                  /\ \A i \in 1 .. Len(s) : Normal(s[i]) /\ s[i].kind # "concat"
<1>1. Len(s) \in Nat /\ DOMAIN s = 1 .. Len(s)
  OBVIOUS
<1>2. Alt(s) \in Trees /\ Concat(s) \in Trees
  BY TreesOver DEF Over
<1>4. Alt(s).kind = "alt" /\ Alt(s).parts = s /\ Concat(s).kind = "concat" /\ Concat(s).parts = s
  BY DEF Alt, Concat
<1>6. /\ Normal(Alt(s)) <=> Proper(Alt(s)) /\ \A i \in 1 .. Len(s) : Normal(s[i])
      /\ Normal(Concat(s)) <=> Proper(Concat(s)) /\ \A i \in 1 .. Len(s) : Normal(s[i])
  BY <1>1, <1>2, <1>4, NormalIs
<1>7. /\ Proper(Alt(s)) <=> Len(s) > 1 /\ \A i \in 1 .. Len(s) : s[i].kind # "alt"
      /\ Proper(Concat(s)) <=> Len(s) > 1 /\ \A i \in 1 .. Len(s) : s[i].kind # "concat"
  BY <1>1, <1>4 DEF Proper
<1> QED BY <1>2, <1>6, <1>7

(* When an option or repetition of something normal is.                    *)
LEMMA NormalBodies ==
  ASSUME NEW y \in Trees, Normal(y)
  PROVE  /\ Opt(y) \in Trees /\ Normal(Opt(y))
         /\ \A lo \in Values, hi \in Values \cup {None} :
              /\ Repeat(lo, hi, y) \in Trees
              /\ ~(hi = 1 /\ lo \in {0, 1}) => Normal(Repeat(lo, hi, y))
<1>1. DOMAIN <<y>> = {1} /\ <<y>>[1] = y
  OBVIOUS
<1>2. Opt(y) \in Trees /\ Normal(Opt(y))
  <2>1. Opt(y) \in Over(Trees) /\ Opt(y).kind = "optional" /\ Opt(y).parts = <<y>>
    BY DEF Over, Opt
  <2>2. Proper(Opt(y))
    BY <2>1 DEF Proper
  <2> QED BY <1>1, <2>1, <2>2, NormalIs, TreesOver
<1>3. ASSUME NEW lo \in Values, NEW hi \in Values \cup {None}
      PROVE  /\ Repeat(lo, hi, y) \in Trees
             /\ ~(hi = 1 /\ lo \in {0, 1}) => Normal(Repeat(lo, hi, y))
  <2>1. Repeat(lo, hi, y) \in Over(Trees)
    BY DEF Over
  <2>2. /\ Repeat(lo, hi, y).kind = "repeat" /\ Repeat(lo, hi, y).parts = <<y>>
        /\ Repeat(lo, hi, y).min = lo /\ Repeat(lo, hi, y).max = hi
    BY DEF Repeat
  <2>3. ~(hi = 1 /\ lo \in {0, 1}) => Proper(Repeat(lo, hi, y))
    BY <2>2 DEF Proper
  <2> QED BY <1>1, <2>1, <2>2, <2>3, NormalIs, TreesOver
<1> QED BY <1>2, <1>3

(* Leaves are normal.                                                      *)
LEMMA LeavesNormal ==
  ASSUME NEW x \in Leaves
  PROVE  x \in Trees /\ Normal(x)
<1>1. x \in Over(Trees) /\ x \in Trees
  BY TreesOver DEF Over
<1>2. x.kind \notin {"alt", "concat", "repeat"} /\ x.parts = << >>
  <2>1. x.kind \in {"ref", "char", "num", "prose"} /\ x.parts = << >>
    BY <1>1, OverFacts
  <2> QED BY <2>1
<1>3. Proper(x) /\ \A i \in DOMAIN x.parts : Normal(x.parts[i])
  BY <1>2 DEF Proper
<1> QED BY <1>1, <1>3, NormalIs

(* The canonical parts of a node.                                          *)
Parts(e) == [i \in DOMAIN e.parts |-> Canonicalize(e.parts[i])]

(* The parts of an element, and what canonicalization does to them.        *)
LEMMA PartsFacts ==
  ASSUME NEW e \in Trees
  PROVE  /\ e.parts \in Seq(Trees) /\ Len(e.parts) \in Nat /\ DOMAIN e.parts = 1 .. Len(e.parts)
         /\ Parts(e) \in Seq(Trees) /\ Len(Parts(e)) = Len(e.parts)
         /\ \A i \in 1 .. Len(e.parts) : /\ e.parts[i] \in Trees
                                         /\ Parts(e)[i] = Canonicalize(e.parts[i])
         /\ Canonicalize(e) = CanonStep(e, Parts(e))
<1>1. e.parts \in Seq(Trees)
  BY TreesOver, OverFacts
<1>2. Len(e.parts) \in Nat /\ DOMAIN e.parts = 1 .. Len(e.parts)
      /\ \A i \in 1 .. Len(e.parts) : e.parts[i] \in Trees
  BY <1>1
<1>3. Parts(e) = [i \in 1 .. Len(e.parts) |-> Canonicalize(e.parts[i])]
  BY <1>2 DEF Parts
<1>4. \A i \in 1 .. Len(e.parts) : Canonicalize(e.parts[i]) \in Trees
  BY <1>2, CanonicalizeIs
<1>5. Parts(e) \in Seq(Trees) /\ Len(Parts(e)) = Len(e.parts)
  BY <1>2, <1>3, <1>4
<1>6. Canonicalize(e) = CanonStep(e, Parts(e))
  BY CanonicalizeIs DEF Parts
<1> QED BY <1>1, <1>2, <1>3, <1>5, <1>6

(* What is rewritten is normal.                                            *)
THEOREM CanonicalizeNormal == \A e \in Trees : Normal(Canonicalize(e))
<1> DEFINE S == {e \in Trees : Normal(Canonicalize(e))}
<1>1. ASSUME NEW e \in Over(Trees \cap S) PROVE e \in S
  <2>1. e \in Trees
    <3>1. Trees \cap S \subseteq Trees
      OBVIOUS
    <3> HIDE DEF S
    <3> QED BY <3>1, OverGrows, TreesOver
  <2>2. \A i \in 1 .. Len(e.parts) : e.parts[i] \in S
    <3>1. e.parts \in Seq(Trees \cap S)
      <4> HIDE DEF S
      <4> QED BY OverFacts
    <3> HIDE DEF S
    <3> QED BY <3>1
  <2> PICK w : w = Parts(e)
    OBVIOUS
  <2>3. /\ w \in Seq(Trees) /\ Len(w) = Len(e.parts) /\ Len(w) \in Nat
        /\ Canonicalize(e) = CanonStep(e, w)
    BY <2>1, PartsFacts
  <2>4. \A i \in 1 .. Len(w) : w[i] \in Trees /\ Normal(w[i])
    <3>1. \A i \in 1 .. Len(w) : w[i] = Canonicalize(e.parts[i]) /\ w[i] \in Trees
      BY <2>1, <2>3, PartsFacts
    <3> QED BY <2>2, <2>3, <3>1
  <2>5. CASE e.kind \in {"alt", "concat"}
    <3> PICK k \in {"alt", "concat"} : k = e.kind
      BY <2>5
    <3> DEFINE Y == {x \in Trees : Normal(x) /\ x.kind # k}
               X == {x \in Trees : Normal(x)}
    <3>1. ASSUME NEW x \in X PROVE Dissolved(x, k) \in Seq(Y) \ {<< >>}
      <4>1. x \in Over(Trees)
        BY TreesOver
      <4>2. Proper(x) /\ \A i \in DOMAIN x.parts : Normal(x.parts[i])
        BY NormalIs
      <4>3. x.parts \in Seq(Trees)
        BY <4>1, OverFacts
      <4>4. CASE x.kind = k
        <5>1. Len(x.parts) > 1 /\ \A i \in DOMAIN x.parts : x.parts[i].kind # k
          BY <4>2, <4>4 DEF Proper
        <5>2. \A i \in DOMAIN x.parts : x.parts[i] \in Y
          BY <4>2, <4>3, <5>1
        <5>3. x.parts \in Seq(Y) /\ x.parts # << >>
          <6> HIDE DEF Y
          <6>1. Len(x.parts) \in Nat /\ x.parts = [i \in 1 .. Len(x.parts) |-> x.parts[i]] /\ DOMAIN x.parts = 1 .. Len(x.parts)
            BY <4>3
          <6>2. x.parts \in Seq(Y)
            BY <5>2, <6>1, IsASeq
          <6> QED BY <5>1, <6>1, <6>2
        <5> QED BY <4>4, <5>3 DEF Dissolved
      <4>5. CASE x.kind # k
        <5>1. x \in Y
          BY <4>5
        <5> HIDE DEF Y
        <5>2. <<x>> \in Seq(Y) /\ <<x>> # << >>
          BY <5>1
        <5> QED BY <4>5, <5>2 DEF Dissolved
      <4> QED BY <4>4, <4>5
    <3>2. w \in Seq(X)
      <4>1. \A i \in 1 .. Len(w) : w[i] \in X
        BY <2>4
      <4> HIDE DEF X
      <4> QED BY <2>3, <4>1, IsASeq
    <3> PICK f : f = Flattened(w, k)
      OBVIOUS
    <3>3. w # << >> /\ Canonicalize(e) = UnwrapSingle(f, k)
      BY <2>1, <2>3, <2>5, StepFacts
    <3>4. f \in Seq(Y) /\ f # << >>
      <4> HIDE DEF X, Y
      <4> QED BY <3>1, <3>2, <3>3, FlattenedFacts
    <3>5. Len(f) \in Nat /\ Len(f) # 0 /\ \A i \in 1 .. Len(f) : f[i] \in Y
      <4> HIDE DEF Y
      <4> QED BY <3>4
    <3>6. f \in Seq(Trees)
      <4>1. Y \subseteq Trees
        OBVIOUS
      <4> HIDE DEF Y
      <4> QED BY <3>4, <4>1, SeqMonotonic
    <3>7. CASE Len(f) = 1
      <4>1. UnwrapSingle(f, k) = f[1] /\ f[1] \in Y
        BY <3>5, <3>7 DEF UnwrapSingle
      <4> QED BY <2>1, <3>3, <4>1
    <3>8. CASE Len(f) # 1
      <4>1. Len(f) > 1
        BY <3>5, <3>8
      <4>2. UnwrapSingle(f, k) = IF k = "alt" THEN Alt(f) ELSE Concat(f)
        BY <3>8 DEF UnwrapSingle, Alt, Concat
      <4>3. Normal(UnwrapSingle(f, k))
        BY <3>4, <3>5, <3>6, <4>1, <4>2, NormalLists
      <4> QED BY <2>1, <3>3, <4>3
    <3> QED BY <3>7, <3>8
  <2>6. CASE e.kind = "optional"
    <3>1. w[1] \in Trees /\ Canonicalize(e) = Opt(w[1]) /\ Len(w) = 1
      BY <2>1, <2>3, <2>6, StepFacts, OverFacts
    <3>2. Normal(w[1])
      BY <2>4, <3>1
    <3> QED BY <2>1, <3>1, <3>2, NormalBodies
  <2>7. CASE e.kind = "repeat"
    <3>1. /\ w[1] \in Trees /\ Canonicalize(e) = Respelled(e, w[1])
          /\ Len(w) = 1 /\ e.min \in Values /\ e.max \in Values \cup {None}
          /\ e = Repeat(e.min, e.max, e.parts[1])
      BY <2>1, <2>3, <2>7, StepFacts, OverFacts
    <3>2. Normal(w[1])
      BY <2>4, <3>1
    <3>3. [e EXCEPT !.parts = <<w[1]>>] = Repeat(e.min, e.max, w[1])
      <4>1. PICK lo, hi, z : e = [kind |-> "repeat", parts |-> <<z>>, min |-> lo, max |-> hi]
        BY <3>1 DEF Repeat
      <4> QED BY <4>1 DEF Repeat
    <3>4. CASE e.max = 1 /\ e.min \in {0, 1}
      <4>1. Canonicalize(e) = Opt(w[1]) \/ Canonicalize(e) = w[1]
        BY <2>7, <3>1, <3>4 DEF Respelled, IsExactly
      <4> QED BY <2>1, <3>1, <3>2, <4>1, NormalBodies
    <3>5. CASE ~ (e.max = 1 /\ e.min \in {0, 1})
      <4>1. Canonicalize(e) = Repeat(e.min, e.max, w[1])
        BY <3>1, <3>3, <3>5 DEF Respelled, IsExactly
      <4> QED BY <2>1, <3>1, <3>2, <3>5, <4>1, NormalBodies
    <3> QED BY <3>4, <3>5
  <2>8. CASE e \in Leaves
    <3>1. Canonicalize(e) = e
      BY <2>1, <2>3, <2>8, StepFacts
    <3> QED BY <2>1, <2>8, <3>1, LeavesNormal
  <2> QED BY <2>5, <2>6, <2>7, <2>8, OverFacts
<1>2. \A x \in Trees : x \in S
  <2> HIDE DEF S
  <2> QED BY <1>1, TreeInduction
<1> QED BY <1>2

(* Where no part is of the kind, nothing is dissolved.                     *)
LEMMA FlattenedSame ==
  ASSUME NEW kind, NEW X, \A x \in X : x.kind # kind, NEW s \in Seq(X)
  PROVE  Flattened(s, kind) = s
<1> DEFINE S == {u \in Seq(X) : Flattened(u, kind) = u}
<1>1. ASSUME NEW x \in X PROVE Dissolved(x, kind) \in Seq(X) \ {<< >>} /\ Dissolved(x, kind) = <<x>>
  <2>1. Dissolved(x, kind) = <<x>>
    BY DEF Dissolved
  <2>2. <<x>> \in Seq(X) /\ <<x>> # << >>
    OBVIOUS
  <2> QED BY <2>1, <2>2
<1>2. << >> \in S
  <2>1. << >> \in Seq(X)
    OBVIOUS
  <2> QED BY <1>1, <2>1, FlattenedFacts
<1>3. ASSUME NEW u \in Seq(X), NEW x \in X, u \in S PROVE Append(u, x) \in S
  <2>1. Flattened(Append(u, x), kind) = Flattened(u, kind) \o Dissolved(x, kind)
    BY <1>1, FlattenedFacts
  <2>2. Append(u, x) = u \o <<x>> /\ Append(u, x) \in Seq(X)
    BY AppendIsConcat, AppendProperties
  <2> QED BY <1>1, <1>3, <2>1, <2>2
<1>4. \A u \in Seq(X) : u \in S
  <2> HIDE DEF S
  <2> QED BY <1>2, <1>3, SequenceInduction
<1> QED BY <1>4

(* What is normal is left as it is.                                        *)
LEMMA NormalStays == \A e \in Trees : Normal(e) => Canonicalize(e) = e
<1> DEFINE S == {e \in Trees : Normal(e) => Canonicalize(e) = e}
<1>1. ASSUME NEW e \in Over(Trees \cap S), Normal(e) PROVE Canonicalize(e) = e
  <2>1. e \in Trees
    <3>1. Trees \cap S \subseteq Trees
      OBVIOUS
    <3> HIDE DEF S
    <3> QED BY <3>1, OverGrows, TreesOver
  <2>2. \A i \in 1 .. Len(e.parts) : e.parts[i] \in S
    <3>1. e.parts \in Seq(Trees \cap S)
      <4> HIDE DEF S
      <4> QED BY OverFacts
    <3> HIDE DEF S
    <3> QED BY <3>1
  <2>3. Proper(e) /\ \A i \in DOMAIN e.parts : Normal(e.parts[i])
    BY <1>1, <2>1, NormalIs
  <2> PICK w : w = Parts(e)
    OBVIOUS
  <2>4. /\ w \in Seq(Trees) /\ Len(w) = Len(e.parts) /\ Len(w) \in Nat /\ e.parts \in Seq(Trees)
        /\ Canonicalize(e) = CanonStep(e, w) /\ DOMAIN e.parts = 1 .. Len(e.parts)
    BY <2>1, PartsFacts
  <2>5. \A i \in 1 .. Len(w) : w[i] = Canonicalize(e.parts[i])
    BY <2>1, <2>4, PartsFacts
  <2>6. \A i \in 1 .. Len(w) : w[i] = e.parts[i]
    BY <2>2, <2>3, <2>4, <2>5
  <2>7. w = e.parts
    <3> HIDE DEF S
    <3> QED BY <2>4, <2>6, SeqEqual
  <2>8. CASE e.kind \in {"alt", "concat"}
    <3> PICK k \in {"alt", "concat"} : k = e.kind
      BY <2>8
    <3>1. Len(w) > 1 /\ \A i \in 1 .. Len(w) : w[i].kind # k /\ w[i] \in Trees
      BY <2>3, <2>4, <2>7 DEF Proper
    <3> DEFINE X == {x \in Trees : x.kind # k}
    <3>2. \A x \in X : x.kind # k
      OBVIOUS
    <3>3. Flattened(w, k) = w
      <4>1. w \in Seq(X)
        BY <2>4, <3>1
      <4> HIDE DEF X
      <4> QED BY <3>2, <4>1, FlattenedSame
    <3>4. Canonicalize(e) = UnwrapSingle(Flattened(w, k), k)
      BY <2>1, <2>4, <2>8, StepFacts
    <3>5. Canonicalize(e) = [kind |-> k, parts |-> w]
      BY <3>1, <3>3, <3>4 DEF UnwrapSingle
    <3>6. e = [kind |-> k, parts |-> e.parts]
      <4>1. (k = "alt" => e = Alt(e.parts)) /\ (k = "concat" => e = Concat(e.parts))
        BY <2>1, TreesOver, OverFacts
      <4> QED BY <4>1 DEF Alt, Concat
    <3> QED BY <2>7, <3>5, <3>6
  <2>9. CASE e.kind = "optional"
    <3>1. Canonicalize(e) = Opt(w[1])
      BY <2>1, <2>4, <2>9, StepFacts
    <3>2. e = Opt(e.parts[1])
      BY <2>1, <2>9, TreesOver, OverFacts
    <3> QED BY <2>7, <3>1, <3>2
  <2>10. CASE e.kind = "repeat"
    <3>1. Canonicalize(e) = Respelled(e, w[1]) /\ e = Repeat(e.min, e.max, e.parts[1])
      BY <2>1, <2>4, <2>10, StepFacts, TreesOver, OverFacts
    <3>2. ~ (e.max = 1 /\ e.min \in {0, 1})
      BY <2>3, <2>10 DEF Proper
    <3>3. Canonicalize(e) = [e EXCEPT !.parts = <<w[1]>>]
      BY <3>1, <3>2 DEF Respelled, IsExactly
    <3>4. [e EXCEPT !.parts = <<w[1]>>] = Repeat(e.min, e.max, w[1])
      <4>1. PICK lo, hi, z : e = [kind |-> "repeat", parts |-> <<z>>, min |-> lo, max |-> hi]
        BY <3>1 DEF Repeat
      <4> QED BY <4>1 DEF Repeat
    <3> QED BY <2>7, <3>1, <3>3, <3>4
  <2>11. CASE e \in Leaves
    BY <2>1, <2>4, <2>11, StepFacts
  <2> QED BY <2>1, <2>8, <2>9, <2>10, <2>11, TreesOver, OverFacts
<1>2. ASSUME NEW e \in Over(Trees \cap S) PROVE e \in S
  <2>1. Trees \cap S \subseteq Trees
    OBVIOUS
  <2>2. e \in Trees
    <3> HIDE DEF S
    <3> QED BY <2>1, OverGrows, TreesOver
  <2> QED BY <1>1, <2>2
<1>3. \A x \in Trees : x \in S
  <2> HIDE DEF S
  <2> QED BY <1>2, TreeInduction
<1> QED BY <1>3

-----------------------------------------------------------------------------
(* Words.                                                                  *)
Sentences == {w \in Seq(Leaves) : Len(w) <= WordBound}
(* Sets of sentences.                                                      *)
Languages == SUBSET Sentences

(* The words of `Followed` are made of a word of each.                     *)
LEMMA InFollowed ==
  ASSUME NEW V, NEW W, NEW w
  PROVE  w \in Followed(V, W) <=> \E v \in V, u \in W : w = v \o u /\ Len(w) <= WordBound
  BY DEF Followed

(* `Followed` is associative, and the empty word its unit, despite the     *)
(* bound.                                                                  *)
LEMMA FollowedFacts ==
  ASSUME NEW A \in Languages, NEW B \in Languages, NEW C \in Languages
  PROVE  /\ Followed(A, B) \in Languages
         /\ {<< >>} \in Languages
         /\ Followed({<< >>}, A) = A
         /\ Followed(A, {<< >>}) = A
         /\ Followed(Followed(A, B), C) = Followed(A, Followed(B, C))
<1>0. WordBound \in Nat
  BY SyntaxAssumption
<1>1. \A w \in Sentences : w \in Seq(Leaves) /\ Len(w) \in Nat /\ Len(w) <= WordBound
  BY DEF Sentences
<1>2. \A v, w \in Seq(Leaves) : v \o w \in Seq(Leaves) /\ Len(v \o w) = Len(v) + Len(w)
  BY ConcatProperties
<1>4. ASSUME NEW V \in Languages, NEW W \in Languages PROVE Followed(V, W) \in Languages
  <2>1. ASSUME NEW w \in Followed(V, W) PROVE w \in Seq(Leaves) /\ Len(w) <= WordBound
    <3>1. PICK v \in V, u \in W : w = v \o u /\ Len(w) <= WordBound
      BY InFollowed
    <3>2. v \in Seq(Leaves) /\ u \in Seq(Leaves)
      BY <1>1 DEF Languages
    <3> QED BY <1>2, <3>1, <3>2
  <2> QED BY <2>1 DEF Languages, Sentences
<1>5. {<< >>} \in Languages
  <2>1. << >> \in Seq(Leaves) /\ Len(<< >>) = 0
    OBVIOUS
  <2> QED BY <1>0, <2>1 DEF Languages, Sentences
<1>6. \A w \in A : w \in Seq(Leaves) /\ Len(w) <= WordBound /\ << >> \o w = w /\ w \o << >> = w
  BY <1>1, ConcatEmptySeq DEF Languages
<1>7. Followed({<< >>}, A) = A
  <2>1. \A w : w \in Followed({<< >>}, A) <=> w \in A
    BY <1>6, InFollowed
  <2> QED BY <2>1
<1>8. Followed(A, {<< >>}) = A
  <2>1. ASSUME NEW w PROVE w \in Followed(A, {<< >>}) <=> w \in A
    <3>1. w \in Followed(A, {<< >>}) <=> \E v \in A, u \in {<< >>} : w = v \o u /\ Len(w) <= WordBound
      BY InFollowed
    <3> QED BY <1>6, <3>1
  <2> QED BY <2>1
<1>9. ASSUME NEW w \in Followed(Followed(A, B), C) PROVE w \in Followed(A, Followed(B, C))
  <2>1. PICK v \in Followed(A, B), c \in C : w = v \o c /\ Len(w) <= WordBound
    BY InFollowed
  <2>2. PICK a \in A, b \in B : v = a \o b
    BY InFollowed
  <2>3. a \in Seq(Leaves) /\ b \in Seq(Leaves) /\ c \in Seq(Leaves) /\ Len(a) \in Nat /\ Len(b) \in Nat /\ Len(c) \in Nat
    BY <1>1 DEF Languages
  <2>4. w = a \o (b \o c)
    <3>1. (a \o b) \o c = a \o (b \o c)
      BY <2>3, ConcatAssociative
    <3> QED BY <2>1, <2>2, <3>1
  <2>5. Len(w) = Len(a) + Len(b \o c) /\ Len(b \o c) = Len(b) + Len(c)
    BY <1>2, <2>3, <2>4
  <2>6. b \o c \in Followed(B, C)
    <3>1. Len(b \o c) <= WordBound
      BY <1>0, <2>1, <2>3, <2>5
    <3> QED BY <3>1, InFollowed
  <2>7. \E x \in A, u \in Followed(B, C) : w = x \o u /\ Len(w) <= WordBound
    BY <2>1, <2>4, <2>6
  <2> QED BY <2>7, InFollowed, Zenon
<1>10. ASSUME NEW w \in Followed(A, Followed(B, C)) PROVE w \in Followed(Followed(A, B), C)
  <2>1. PICK a \in A, v \in Followed(B, C) : w = a \o v /\ Len(w) <= WordBound
    BY InFollowed
  <2>2. PICK b \in B, c \in C : v = b \o c
    BY InFollowed
  <2>3. a \in Seq(Leaves) /\ b \in Seq(Leaves) /\ c \in Seq(Leaves) /\ Len(a) \in Nat /\ Len(b) \in Nat /\ Len(c) \in Nat
    BY <1>1 DEF Languages
  <2>4. w = (a \o b) \o c
    <3>1. (a \o b) \o c = a \o (b \o c)
      BY <2>3, ConcatAssociative
    <3> QED BY <2>1, <2>2, <3>1
  <2>5. Len(w) = Len(a \o b) + Len(c) /\ Len(a \o b) = Len(a) + Len(b)
    BY <1>2, <2>3, <2>4
  <2>6. a \o b \in Followed(A, B)
    <3>1. Len(a \o b) <= WordBound
      BY <1>0, <2>1, <2>3, <2>5
    <3> QED BY <3>1, InFollowed
  <2>7. \E x \in Followed(A, B), u \in C : w = x \o u /\ Len(w) <= WordBound
    BY <2>1, <2>4, <2>6
  <2> QED BY <2>7, InFollowed, Zenon
<1>11. Followed(Followed(A, B), C) = Followed(A, Followed(B, C))
  BY <1>9, <1>10
<1> QED BY <1>4, <1>5, <1>7, <1>8, <1>11

(* A product, its sets from the first on.                                  *)
LEMMA ProductFacts ==
  /\ Product(<< >>) = {<< >>}
  /\ \A s \in Seq(Languages) : Product(s) \in Languages
  /\ \A s \in Seq(Languages), x \in Languages : Product(Append(s, x)) = Followed(Product(s), x)
<1> DEFINE P(s, f) == f = [k \in Nat |-> IF k \notin DOMAIN s THEN {<< >>} ELSE Followed(f[k - 1], s[k])]
           F(s) == CHOOSE f : P(s, f)
<1>1. \A s : Product(s) = F(s)[Len(s)]
  BY DEF Product
<1>2. ASSUME NEW s \in Seq(Languages)
      PROVE  /\ Len(s) \in Nat /\ F(s)[0] = {<< >>}
             /\ \A k \in 1 .. Len(s) : F(s)[k] = Followed(F(s)[k - 1], s[k])
             /\ \A k \in 0 .. Len(s) : F(s)[k] \in Languages
  <2>1. Len(s) \in Nat /\ DOMAIN s = 1 .. Len(s) /\ \A k \in 1 .. Len(s) : s[k] \in Languages
    OBVIOUS
  <2>2. {<< >>} \in Languages /\ \A A, B \in Languages : Followed(A, B) \in Languages
    <3>1. {} \in Languages
      BY DEF Languages
    <3> QED BY <3>1, FollowedFacts
  <2> DEFINE h == [z \in (Nat \ {0}) \X Languages |->
                     IF z[1] \notin DOMAIN s THEN {<< >>} ELSE Followed(z[2], s[z[1]])]
  <2>3. h \in [(Nat \ {0}) \X Languages -> Languages]
    BY <2>1, <2>2
  <2>4. PICK g \in [Nat -> Languages] : IteratesOn(g, {<< >>}, h)
    <3> HIDE DEF h
    <3> QED BY <2>2, <2>3, IterationOnExists
  <2>5. \A k \in Nat \ {0} : g[k] = IF k \notin DOMAIN s THEN {<< >>} ELSE Followed(g[k - 1], s[k])
    <3> TAKE k \in Nat \ {0}
    <3>1. k - 1 \in Nat /\ g[k - 1] \in Languages
      OBVIOUS
    <3>2. h[<<k, g[k - 1]>>] = IF k \notin DOMAIN s THEN {<< >>} ELSE Followed(g[k - 1], s[k])
      BY <3>1
    <3> QED BY <2>4, <3>2 DEF IteratesOn
  <2>6. P(s, g)
    <3>1. g[0] = {<< >>} /\ 0 \notin DOMAIN s
      BY <2>1, <2>4 DEF IteratesOn
    <3>2. \A k \in Nat : g[k] = IF k \notin DOMAIN s THEN {<< >>} ELSE Followed(g[k - 1], s[k])
      BY <2>5, <3>1
    <3>3. g = [k \in Nat |-> g[k]]
      OBVIOUS
    <3> QED BY <3>2, <3>3
  <2>7. P(s, F(s))
    <3> HIDE DEF P
    <3> QED BY <2>6
  <2> HIDE DEF F
  <2>8. \A k \in Nat : F(s)[k] = IF k \notin DOMAIN s THEN {<< >>} ELSE Followed(F(s)[k - 1], s[k])
    BY <2>7
  <2>9. F(s)[0] = {<< >>} /\ \A k \in 1 .. Len(s) : F(s)[k] = Followed(F(s)[k - 1], s[k])
    BY <2>1, <2>8
  <2> DEFINE A == {k \in 0 .. Len(s) : F(s)[k] \in Languages}
  <2>10. \A k \in 0 .. Len(s) : k \in A
    <3>1. 0 \in A
      <4>1. 0 \in 0 .. Len(s) /\ F(s)[0] \in Languages
        BY <2>1, <2>2, <2>9
      <4> QED BY <4>1
    <3>2. ASSUME NEW k \in 1 .. Len(s), k - 1 \in A PROVE k \in A
      BY <2>1, <2>2, <2>9, <3>2
    <3> HIDE DEF A
    <3> QED BY <2>1, <3>1, <3>2, CountUp
  <2> QED BY <2>1, <2>9, <2>10
<1> HIDE DEF F
<1>3. ASSUME NEW s \in Seq(Languages), NEW x \in Languages
      PROVE  Product(Append(s, x)) = Followed(Product(s), x)
  <2> PICK t : t = Append(s, x)
    OBVIOUS
  <2>1. /\ t \in Seq(Languages) /\ Len(t) = Len(s) + 1 /\ t[Len(s) + 1] = x /\ Len(s) \in Nat
        /\ \A k \in 1 .. Len(s) : t[k] = s[k]
    BY AppendProperties
  <2> DEFINE A == {k \in 0 .. Len(s) : F(t)[k] = F(s)[k]}
  <2>2. \A k \in 0 .. Len(s) : k \in A
    <3>1. 0 \in A
      <4>1. F(t)[0] = {<< >>} /\ F(s)[0] = {<< >>}
        BY <1>2, <2>1
      <4>2. 0 \in 0 .. Len(s)
        BY <2>1
      <4> QED BY <4>1, <4>2
    <3>2. ASSUME NEW k \in 1 .. Len(s), k - 1 \in A PROVE k \in A
      <4>1. k \in 1 .. Len(t)
        BY <2>1
      <4>2. F(t)[k] = Followed(F(t)[k - 1], t[k]) /\ F(s)[k] = Followed(F(s)[k - 1], s[k])
        BY <1>2, <2>1, <4>1
      <4> QED BY <2>1, <3>2, <4>2
    <3> HIDE DEF A
    <3> QED BY <2>1, <3>1, <3>2, CountUp
  <2>3. F(t)[Len(s)] = F(s)[Len(s)]
    BY <2>1, <2>2
  <2>4. Len(t) \in 1 .. Len(t) /\ Len(t) - 1 = Len(s)
    BY <2>1
  <2>5. F(t)[Len(t)] = Followed(F(t)[Len(t) - 1], t[Len(t)])
    BY <1>2, <2>1, <2>4
  <2> QED BY <1>1, <2>1, <2>3, <2>4, <2>5
<1>4. << >> \in Seq(Languages) /\ Len(<< >>) = 0
  OBVIOUS
<1>5. Product(<< >>) = {<< >>}
  BY <1>1, <1>2, <1>4
<1>6. \A s \in Seq(Languages) : Product(s) \in Languages
  <2> TAKE s \in Seq(Languages)
  <2>1. Len(s) \in 0 .. Len(s)
    BY <1>2
  <2> QED BY <1>1, <1>2, <2>1
<1> QED BY <1>3, <1>5, <1>6

(* The words of an element, from those of its parts.                       *)
WordStep(x, of) ==
  CASE x.kind = "alt"      -> UNION ToSet(of)
    [] x.kind = "concat"   -> Product(of)
    [] x.kind = "optional" -> {<< >>} \cup of[1]
    [] x.kind = "repeat"   ->
         IF x.max # None /\ x.max < x.min THEN {}
         ELSE UNION {Product([i \in 1 .. k |-> of[1]]) : k \in Copies(x.min) .. Copies(x.max)}
    [] OTHER               -> {<<x>>}

(* The words of each of some elements.                                     *)
WordsOf(s) == [i \in DOMAIN s |-> Words(s[i])]

(* The words of copies.                                                    *)
Repeated(lo, hi, W) ==
  IF hi # None /\ hi < lo THEN {}
  ELSE UNION {Product([i \in 1 .. k |-> W]) : k \in Copies(lo) .. Copies(hi)}

(* Copies make a language; at most one of them adds the empty word to it,  *)
(* and exactly one changes nothing.                                        *)
LEMMA CopiesFacts ==
  ASSUME NEW W \in Languages
  PROVE  /\ \A k \in Nat : Product([i \in 1 .. k |-> W]) \in Languages
         /\ \A lo \in Nat, hi \in Nat \cup {None} : Repeated(lo, hi, W) \in Languages
         /\ Repeated(0, 1, W) = {<< >>} \cup W
         /\ Repeated(1, 1, W) = W
<1>0. WordBound \in Nat /\ WordBound >= 1 /\ None \notin Nat
  BY SyntaxAssumption, CharactersAssumption
<1>1. ASSUME NEW k \in Nat PROVE Product([i \in 1 .. k |-> W]) \in Languages
  <2> DEFINE V == Languages
  <2>1. W \in V
    OBVIOUS
  <2> HIDE DEF V
  <2>2. [i \in 1 .. k |-> W] \in Seq(V)
    BY <2>1
  <2> QED BY <2>2, ProductFacts DEF V
<1>2. \A c \in Nat \cup {None} : Copies(c) \in Nat
  BY <1>0 DEF Copies
<1>3. ASSUME NEW lo \in Nat, NEW hi \in Nat \cup {None} PROVE Repeated(lo, hi, W) \in Languages
  <2>1. \A k \in Copies(lo) .. Copies(hi) : Product([i \in 1 .. k |-> W]) \subseteq Sentences
    <3>1. \A k \in Copies(lo) .. Copies(hi) : k \in Nat
      BY <1>2
    <3> QED BY <1>1, <3>1 DEF Languages
  <2> QED BY <2>1 DEF Repeated, Languages
<1>4. Copies(0) = 0 /\ Copies(1) = 1
  BY <1>0 DEF Copies
<1>5. Product([i \in 1 .. 0 |-> W]) = {<< >>}
  <2>1. [i \in 1 .. 0 |-> W] = << >>
    OBVIOUS
  <2> QED BY <2>1, ProductFacts
<1>6. Product([i \in 1 .. 1 |-> W]) = W
  <2> DEFINE V == Languages
  <2>1. W \in V
    OBVIOUS
  <2> HIDE DEF V
  <2>2. << >> \in Seq(V) /\ [i \in 1 .. 1 |-> W] = Append(<< >>, W)
    BY <2>1
  <2>3. Product(Append(<< >>, W)) = Followed(Product(<< >>), W)
    BY <2>2, ProductFacts DEF V
  <2>4. Followed({<< >>}, W) = W
    BY FollowedFacts
  <2> QED BY <2>2, <2>3, <2>4, ProductFacts
<1>7. Repeated(0, 1, W) = {<< >>} \cup W
  <2>1. 0 .. 1 = {0, 1} /\ 1 # None /\ ~ (1 < 0)
    BY <1>0
  <2>2. Repeated(0, 1, W) = UNION {Product([i \in 1 .. k |-> W]) : k \in {0, 1}}
    BY <1>4, <2>1 DEF Repeated
  <2> QED BY <1>5, <1>6, <2>2
<1>8. Repeated(1, 1, W) = W
  <2>1. 1 .. 1 = {1} /\ 1 # None /\ ~ (1 < 1)
    BY <1>0
  <2>2. Repeated(1, 1, W) = UNION {Product([i \in 1 .. k |-> W]) : k \in {1}}
    BY <1>4, <2>1 DEF Repeated
  <2> QED BY <1>6, <2>2
<1> QED BY <1>1, <1>3, <1>7, <1>8

(* Every element makes a language of those of its parts.                   *)
LEMMA WordStepFacts ==
  ASSUME NEW x \in Trees, NEW of \in Seq(Languages), Len(of) = Len(x.parts)
  PROVE  WordStep(x, of) \in Languages
<1>1. x \in Over(Trees)
  BY TreesOver
<1>2. /\ x.kind = "optional" => Len(x.parts) = 1
      /\ x.kind = "repeat" => Len(x.parts) = 1 /\ x.min \in Nat /\ x.max \in Nat \cup {None}
      /\ x.kind \in {"alt", "concat", "optional", "repeat", "ref", "char", "num", "prose"}
      /\ x.kind \in {"ref", "char", "num", "prose"} <=> x \in Leaves
  BY <1>1, OverFacts
<1>3. \A i \in 1 .. Len(of) : of[i] \in Languages
  OBVIOUS
<1>4. CASE x.kind = "alt"
  <2>1. \A V \in ToSet(of) : V \in Languages
    BY <1>3 DEF ToSet
  <2> QED BY <1>4, <2>1 DEF WordStep, Languages
<1>5. CASE x.kind = "concat"
  BY <1>5, ProductFacts DEF WordStep
<1>6. CASE x.kind = "optional"
  <2>1. of[1] \in Languages
    BY <1>2, <1>3, <1>6
  <2>2. {<< >>} \in Languages
    BY <2>1, FollowedFacts
  <2> QED BY <1>6, <2>1, <2>2 DEF WordStep, Languages
<1>7. CASE x.kind = "repeat"
  <2>1. of[1] \in Languages
    BY <1>2, <1>3, <1>7
  <2>2. WordStep(x, of) = Repeated(x.min, x.max, of[1])
    BY <1>7 DEF WordStep, Repeated
  <2>3. x.min \in Nat /\ x.max \in Nat \cup {None}
    BY <1>2, <1>7
  <2>4. Repeated(x.min, x.max, of[1]) \in Languages
    <3> PICK W \in Languages : W = of[1]
      BY <2>1
    <3>1. \A lo \in Nat, hi \in Nat \cup {None} : Repeated(lo, hi, W) \in Languages
      BY CopiesFacts
    <3> QED BY <2>3, <3>1
  <2> QED BY <2>2, <2>4
<1>8. CASE x \in Leaves
  <2>1. WordStep(x, of) = {<<x>>}
    BY <1>2, <1>8 DEF WordStep
  <2>2. <<x>> \in Seq(Leaves) /\ Len(<<x>>) = 1
    BY <1>8
  <2>3. WordBound \in Nat /\ WordBound >= 1
    BY SyntaxAssumption
  <2>4. <<x>> \in Sentences
    BY <2>2, <2>3 DEF Sentences
  <2> QED BY <2>1, <2>4 DEF Languages
<1> QED BY <1>2, <1>4, <1>5, <1>6, <1>7, <1>8

(* The words of every element are those its parts make.                    *)
LEMMA WordsIs ==
  /\ \A e \in Trees : Words(e) \in Languages
  /\ \A e \in Trees : Words(e) = WordStep(e, WordsOf(e.parts))
<1> DEFINE h == [z \in Trees \X Seq(Languages) |->
                   IF Len(z[2]) = Len(z[1].parts) THEN WordStep(z[1], z[2]) ELSE {}]
<1>1. h \in [Trees \X Seq(Languages) -> Languages]
  <2>1. ASSUME NEW z \in Trees \X Seq(Languages)
        PROVE  (IF Len(z[2]) = Len(z[1].parts) THEN WordStep(z[1], z[2]) ELSE {}) \in Languages
    <3>1. z[1] \in Trees /\ z[2] \in Seq(Languages)
      OBVIOUS
    <3>2. {} \in Languages
      BY DEF Languages
    <3> QED BY <3>1, <3>2, WordStepFacts
  <2> QED BY <2>1
<1>2. PICK g \in [Trees -> Languages] : \A x \in Trees : g[x] = h[<<x, Of(g, x)>>]
  <2> DEFINE V == Languages
  <2>1. h \in [Trees \X Seq(V) -> V]
    BY <1>1
  <2> HIDE DEF h, V
  <2>2. \E g \in [Trees -> V] : \A x \in Trees : g[x] = h[<<x, Of(g, x)>>]
    BY <2>1, TreeRecursion
  <2> QED BY <2>2 DEF V
<1>3. \A x \in Trees : g[x] = WordStep(x, Of(g, x))
  <2> TAKE x \in Trees
  <2>1. x \in Over(Trees) /\ \A y \in Trees : g[y] \in Languages
    BY TreesOver
  <2>2. Of(g, x) \in Seq(Languages)
    BY <2>1, OfFacts
  <2>3. Len(Of(g, x)) = Len(x.parts)
    <3>1. x.parts \in Seq(Trees)
      BY <2>1, OverFacts
    <3>2. DOMAIN x.parts = 1 .. Len(x.parts) /\ Len(x.parts) \in Nat
      BY <3>1
    <3>3. Of(g, x) = [i \in 1 .. Len(x.parts) |-> g[x.parts[i]]]
      BY <3>2 DEF Of
    <3> QED BY <3>2, <3>3
  <2>4. h[<<x, Of(g, x)>>] = WordStep(x, Of(g, x))
    BY <2>2, <2>3
  <2> HIDE DEF h
  <2> QED BY <1>2, <2>4
<1>4. ASSUME NEW e \in Trees PROVE Words(e) = g[e]
  <2> DEFINE P(f) == f = [x \in Below(e) |-> WordStep(x, Of(f, x))]
             F == CHOOSE f : P(f)
             r == [x \in Below(e) |-> g[x]]
  <2>1. Words(e) = F[e]
    BY DEF Words, WordStep, Of
  <2>2. Below(e) \subseteq Trees /\ e \in Below(e)
    BY BelowFacts
  <2>3. P(r)
    <3>1. \A x \in Below(e) : r[x] = WordStep(x, Of(r, x))
      <4> TAKE x \in Below(e)
      <4>1. Of(r, x) = Of(g, x)
        BY OfBelow
      <4>2. x \in Trees /\ r[x] = g[x]
        BY <2>2
      <4> HIDE DEF r
      <4> QED BY <1>3, <4>1, <4>2
    <3>2. r = [x \in Below(e) |-> r[x]]
      OBVIOUS
    <3> HIDE DEF r
    <3> QED BY <3>1, <3>2
  <2>4. P(F)
    <3> HIDE DEF P
    <3> QED BY <2>3
  <2> HIDE DEF F
  <2>5. \A x \in Below(e) : Of(F, x) = Of(g, x) => F[x] = g[x]
    BY <1>3, <2>2, <2>4
  <2>6. \A x \in Below(e) : F[x] = g[x]
    BY <2>5, BelowAgree
  <2> QED BY <2>1, <2>2, <2>6
<1>5. \A e \in Trees : Words(e) \in Languages
  BY <1>2, <1>4
<1>6. ASSUME NEW e \in Trees PROVE Words(e) = WordStep(e, WordsOf(e.parts))
  <2>1. \A i \in DOMAIN e.parts : e.parts[i] \in Trees
    <3>1. e.parts \in Seq(Trees)
      BY TreesOver, OverFacts
    <3> QED BY <3>1
  <2>2. Of(g, e) = WordsOf(e.parts)
    BY <1>4, <2>1 DEF Of, WordsOf
  <2> QED BY <1>3, <1>4, <2>2
<1> QED BY <1>5, <1>6

(* What the parts of a node of a kind say together: alternations unite     *)
(* what concatenations follow by one another.                              *)
Said(kind, s) == IF kind = "alt" THEN UNION ToSet(WordsOf(s)) ELSE Product(WordsOf(s))
(* Two languages as parts of a node of a kind.                             *)
Both(kind, A, B) == IF kind = "alt" THEN A \cup B ELSE Followed(A, B)
(* The language of no parts.                                               *)
Nothing(kind) == IF kind = "alt" THEN {} ELSE {<< >>}

(* `Nothing` of a kind is the unit of `Both`.                              *)
LEMMA BothFacts ==
  ASSUME NEW kind, NEW A \in Languages, NEW B \in Languages
  PROVE  /\ Nothing(kind) \in Languages
         /\ Both(kind, A, B) \in Languages
         /\ Both(kind, A, Nothing(kind)) = A
         /\ Both(kind, Nothing(kind), A) = A
<1>1. CASE kind = "alt"
  <2>1. {} \in Languages /\ A \cup B \in Languages
    BY DEF Languages
  <2> QED BY <1>1, <2>1 DEF Both, Nothing
<1>2. CASE kind # "alt"
  <2>1. /\ Followed(A, B) \in Languages /\ {<< >>} \in Languages
        /\ Followed({<< >>}, A) = A /\ Followed(A, {<< >>}) = A
    BY FollowedFacts
  <2> QED BY <1>2, <2>1 DEF Both, Nothing
<1> QED BY <1>1, <1>2

(* `Both` is associative.                                                  *)
LEMMA BothAssociative ==
  ASSUME NEW kind, NEW A \in Languages, NEW B \in Languages, NEW C \in Languages
  PROVE  Both(kind, Both(kind, A, B), C) = Both(kind, A, Both(kind, B, C))
<1>1. CASE kind = "alt"
  BY <1>1 DEF Both
<1>2. CASE kind # "alt"
  <2>1. Followed(Followed(A, B), C) = Followed(A, Followed(B, C))
    BY FollowedFacts
  <2> QED BY <1>2, <2>1 DEF Both
<1> QED BY <1>1, <1>2

(* What parts say together, with one part more.                            *)
LEMMA SaidFacts ==
  ASSUME NEW kind, NEW s \in Seq(Trees)
  PROVE  /\ Said(kind, s) \in Languages
         /\ Said(kind, << >>) = Nothing(kind)
         /\ \A x \in Trees : Said(kind, Append(s, x)) = Both(kind, Said(kind, s), Words(x))
<1>1. ASSUME NEW u \in Seq(Trees) PROVE WordsOf(u) \in Seq(Languages) /\ DOMAIN WordsOf(u) = 1 .. Len(u) /\ Len(u) \in Nat
  <2>1. Len(u) \in Nat /\ DOMAIN u = 1 .. Len(u) /\ \A i \in 1 .. Len(u) : u[i] \in Trees
    OBVIOUS
  <2>2. WordsOf(u) = [i \in 1 .. Len(u) |-> Words(u[i])] /\ \A i \in 1 .. Len(u) : Words(u[i]) \in Languages
    BY <2>1, WordsIs DEF WordsOf
  <2> DEFINE V == Languages
  <2> HIDE DEF V
  <2>3. \A i \in 1 .. Len(u) : Words(u[i]) \in V
    BY <2>2 DEF V
  <2>4. WordsOf(u) \in Seq(V)
    BY <2>1, <2>2, <2>3
  <2> QED BY <2>1, <2>2, <2>4 DEF V
<1>2. WordsOf(<< >>) = << >>
  BY DEF WordsOf
<1>3. ASSUME NEW x \in Trees PROVE WordsOf(Append(s, x)) = Append(WordsOf(s), Words(x)) /\ Words(x) \in Languages
  <2>1. /\ Append(s, x) \in Seq(Trees) /\ Len(Append(s, x)) = Len(s) + 1 /\ Len(s) \in Nat
        /\ Append(s, x)[Len(s) + 1] = x /\ \A i \in 1 .. Len(s) : Append(s, x)[i] = s[i]
    BY AppendProperties
  <2> DEFINE V == Languages
  <2>2. Words(x) \in V /\ WordsOf(s) \in Seq(V) /\ WordsOf(Append(s, x)) \in Seq(V)
    BY <1>1, <2>1, WordsIs
  <2> HIDE DEF V
  <2>3. DOMAIN WordsOf(s) = 1 .. Len(s) /\ DOMAIN WordsOf(Append(s, x)) = 1 .. Len(s) + 1
    BY <1>1, <2>1
  <2>4. Len(WordsOf(s)) = Len(s) /\ Len(WordsOf(Append(s, x))) = Len(s) + 1
    BY <2>1, <2>2, <2>3
  <2>5. /\ Append(WordsOf(s), Words(x)) \in Seq(V) /\ Len(Append(WordsOf(s), Words(x))) = Len(s) + 1
        /\ Append(WordsOf(s), Words(x))[Len(s) + 1] = Words(x)
        /\ \A i \in 1 .. Len(s) : Append(WordsOf(s), Words(x))[i] = WordsOf(s)[i]
    BY <2>2, <2>4, AppendProperties
  <2>6. /\ \A i \in 1 .. Len(s) : WordsOf(s)[i] = Words(s[i])
        /\ \A i \in 1 .. Len(s) + 1 : WordsOf(Append(s, x))[i] = Words(Append(s, x)[i])
    <3>1. DOMAIN s = 1 .. Len(s) /\ DOMAIN Append(s, x) = 1 .. Len(s) + 1
      BY <2>1
    <3> QED BY <3>1 DEF WordsOf
  <2>7. \A i \in 1 .. Len(s) + 1 : WordsOf(Append(s, x))[i] = Append(WordsOf(s), Words(x))[i]
    <3> TAKE i \in 1 .. Len(s) + 1
    <3>1. CASE i = Len(s) + 1
      BY <2>1, <2>5, <2>6, <3>1
    <3>2. CASE i # Len(s) + 1
      <4>1. i \in 1 .. Len(s)
        BY <2>1, <3>2
      <4> QED BY <2>1, <2>5, <2>6, <4>1
    <3> QED BY <3>1, <3>2
  <2>8. WordsOf(Append(s, x)) = Append(WordsOf(s), Words(x))
    BY <2>1, <2>2, <2>4, <2>5, <2>7, SeqEqual
  <2> QED BY <2>2, <2>8 DEF V
<1>4. CASE kind = "alt"
  <2>1. ASSUME NEW of \in Seq(Languages) PROVE UNION ToSet(of) \in Languages
    <3>1. \A i \in DOMAIN of : of[i] \in Languages
      OBVIOUS
    <3> QED BY <3>1 DEF ToSet, Languages
  <2>2. UNION ToSet(<< >>) = {}
    BY DEF ToSet
  <2>3. ASSUME NEW of \in Seq(Languages), NEW W \in Languages
        PROVE  UNION ToSet(Append(of, W)) = (UNION ToSet(of)) \cup W
    <3>1. Len(of) \in Nat /\ DOMAIN of = 1 .. Len(of)
      OBVIOUS
    <3>2. DOMAIN Append(of, W) = 1 .. Len(of) + 1 /\ Append(of, W)[Len(of) + 1] = W
          /\ \A i \in 1 .. Len(of) : Append(of, W)[i] = of[i]
      <4> DEFINE V == Languages
      <4>1. of \in Seq(V) /\ W \in V
        OBVIOUS
      <4> HIDE DEF V
      <4>2. Append(of, W) \in Seq(V) /\ Len(Append(of, W)) = Len(of) + 1 /\ Append(of, W)[Len(of) + 1] = W
            /\ \A i \in 1 .. Len(of) : Append(of, W)[i] = of[i]
        BY <4>1, AppendProperties
      <4> QED BY <4>2
    <3>3. \A i : i \in 1 .. Len(of) + 1 <=> i \in 1 .. Len(of) \/ i = Len(of) + 1
      BY <3>1
    <3>4. ToSet(Append(of, W)) = ToSet(of) \cup {W}
      BY <3>1, <3>2, <3>3 DEF ToSet
    <3> QED BY <3>4
  <2> QED BY <1>1, <1>2, <1>3, <1>4, <2>1, <2>2, <2>3 DEF Said, Both, Nothing
<1>5. CASE kind # "alt"
  <2>1. Product(WordsOf(s)) \in Languages /\ Product(<< >>) = {<< >>}
    BY <1>1, ProductFacts
  <2>2. ASSUME NEW x \in Trees PROVE Product(WordsOf(Append(s, x))) = Followed(Product(WordsOf(s)), Words(x))
    BY <1>1, <1>3, ProductFacts
  <2> QED BY <1>2, <1>5, <2>1, <2>2 DEF Said, Both, Nothing
<1> QED BY <1>4, <1>5

(* What two sequences of parts say is what both say.                       *)
LEMMA SaidConcat ==
  ASSUME NEW kind, NEW s \in Seq(Trees), NEW t \in Seq(Trees)
  PROVE  Said(kind, s \o t) = Both(kind, Said(kind, s), Said(kind, t))
<1> DEFINE S == {u \in Seq(Trees) : Said(kind, s \o u) = Both(kind, Said(kind, s), Said(kind, u))}
<1>1. << >> \in S
  <2>1. << >> \in Seq(Trees) /\ s \o << >> = s
    BY ConcatEmptySeq
  <2>2. Said(kind, s) \in Languages /\ Said(kind, << >>) = Nothing(kind)
    BY SaidFacts
  <2> QED BY <2>1, <2>2, BothFacts
<1>2. ASSUME NEW u \in Seq(Trees), NEW x \in Trees, u \in S PROVE Append(u, x) \in S
  <2>1. /\ Append(u, x) \in Seq(Trees) /\ s \o u \in Seq(Trees) /\ <<x>> \in Seq(Trees)
        /\ Append(u, x) = u \o <<x>> /\ Append(s \o u, x) = (s \o u) \o <<x>>
    BY AppendIsConcat, AppendProperties, ConcatProperties
  <2>2. s \o Append(u, x) = Append(s \o u, x)
    BY <2>1, ConcatAssociative
  <2>3. Said(kind, Append(s \o u, x)) = Both(kind, Said(kind, s \o u), Words(x))
    BY <2>1, SaidFacts
  <2>4. Said(kind, Append(u, x)) = Both(kind, Said(kind, u), Words(x))
    BY SaidFacts
  <2>5. Said(kind, s) \in Languages /\ Said(kind, u) \in Languages /\ Words(x) \in Languages
    BY SaidFacts, WordsIs
  <2>6. Both(kind, Both(kind, Said(kind, s), Said(kind, u)), Words(x))
          = Both(kind, Said(kind, s), Both(kind, Said(kind, u), Words(x)))
    BY <2>5, BothAssociative
  <2>7. Said(kind, s \o u) = Both(kind, Said(kind, s), Said(kind, u))
    BY <1>2
  <2>8. Said(kind, s \o Append(u, x)) = Both(kind, Said(kind, s), Said(kind, Append(u, x)))
    BY <2>2, <2>3, <2>4, <2>6, <2>7
  <2> QED BY <2>1, <2>8
<1>3. \A u \in Seq(Trees) : u \in S
  <2> HIDE DEF S
  <2> QED BY <1>1, <1>2, SequenceInduction
<1> QED BY <1>3

(* The words of an element are those that it says dissolved, or alone.     *)
LEMMA SaidOne ==
  ASSUME NEW kind \in {"alt", "concat"}, NEW x \in Trees
  PROVE  /\ Said(kind, <<x>>) = Words(x)
         /\ Said(kind, Dissolved(x, kind)) = Words(x)
<1>1. Said(kind, <<x>>) = Words(x)
  <2>1. << >> \in Seq(Trees) /\ Append(<< >>, x) = <<x>> /\ Words(x) \in Languages
    BY WordsIs
  <2>2. Said(kind, Append(<< >>, x)) = Both(kind, Said(kind, << >>), Words(x)) /\ Said(kind, << >>) = Nothing(kind)
    BY <2>1, SaidFacts
  <2>3. Both(kind, Nothing(kind), Words(x)) = Words(x)
    BY <2>1, BothFacts
  <2> QED BY <2>1, <2>2, <2>3
<1>2. CASE x.kind = kind
  <2>1. Words(x) = WordStep(x, WordsOf(x.parts))
    BY WordsIs
  <2>2. Words(x) = Said(kind, x.parts)
    BY <1>2, <2>1 DEF WordStep, Said
  <2> QED BY <1>1, <1>2, <2>2 DEF Dissolved
<1> QED BY <1>1, <1>2 DEF Dissolved

(* Flattening changes nothing of what the parts say together.              *)
LEMMA SaidFlattened ==
  ASSUME NEW kind \in {"alt", "concat"}, NEW w \in Seq(Trees)
  PROVE  /\ Flattened(w, kind) \in Seq(Trees)
         /\ Said(kind, Flattened(w, kind)) = Said(kind, w)
<1>0. \A x \in Trees : Dissolved(x, kind) \in Seq(Trees) \ {<< >>}
  BY DissolvedTrees
<1> DEFINE S == {u \in Seq(Trees) : Said(kind, Flattened(u, kind)) = Said(kind, u)}
<1>1. << >> \in S
  <2>1. << >> \in Seq(Trees)
    OBVIOUS
  <2>2. Flattened(<< >>, kind) = << >>
    BY <1>0, <2>1, FlattenedFacts
  <2> QED BY <2>1, <2>2
<1>2. ASSUME NEW u \in Seq(Trees), NEW x \in Trees, u \in S PROVE Append(u, x) \in S
  <2>1. /\ Flattened(u, kind) \in Seq(Trees)
        /\ Flattened(Append(u, x), kind) = Flattened(u, kind) \o Dissolved(x, kind)
    BY <1>0, FlattenedFacts
  <2>2. Said(kind, Flattened(Append(u, x), kind))
          = Both(kind, Said(kind, Flattened(u, kind)), Said(kind, Dissolved(x, kind)))
    BY <1>0, <2>1, SaidConcat
  <2>3. Said(kind, Append(u, x)) = Both(kind, Said(kind, u), Words(x)) /\ Append(u, x) \in Seq(Trees)
    BY SaidFacts, AppendProperties
  <2> QED BY <1>2, <2>2, <2>3, SaidOne
<1>3. \A u \in Seq(Trees) : u \in S
  <2> HIDE DEF S
  <2> QED BY <1>1, <1>2, SequenceInduction
<1>4. Flattened(w, kind) \in Seq(Trees)
  BY <1>0, FlattenedFacts
<1> QED BY <1>3, <1>4

(* A node of one part says what the part says.                             *)
LEMMA SaidUnwrap ==
  ASSUME NEW kind \in {"alt", "concat"}, NEW s \in Seq(Trees), s # << >>
  PROVE  Words(UnwrapSingle(s, kind)) = Said(kind, s)
<1>1. CASE Len(s) = 1
  <2>1. PICK x \in Trees : s = <<x>>
    <3>1. s[1] \in Trees /\ s = <<s[1]>>
      BY <1>1
    <3> QED BY <3>1
  <2>2. UnwrapSingle(s, kind) = x
    BY <1>1, <2>1 DEF UnwrapSingle
  <2> QED BY <2>1, <2>2, SaidOne
<1>2. CASE Len(s) # 1
  <2>1. UnwrapSingle(s, kind) = [kind |-> kind, parts |-> s]
    BY <1>2 DEF UnwrapSingle
  <2>2. UnwrapSingle(s, kind) \in Trees
    <3>1. UnwrapSingle(s, kind) = Alt(s) \/ UnwrapSingle(s, kind) = Concat(s)
      BY <2>1 DEF Alt, Concat
    <3> QED BY <3>1, TreesOver DEF Over
  <2>3. UnwrapSingle(s, kind).kind = kind /\ UnwrapSingle(s, kind).parts = s
    BY <2>1
  <2> QED BY <2>2, <2>3, WordsIs DEF WordStep, Said
<1> QED BY <1>1, <1>2

(* Canonicalization keeps the words of every element.                      *)
THEOREM WordsKept == \A e \in Trees : Words(Canonicalize(e)) = Words(e)
<1> DEFINE S == {e \in Trees : Words(Canonicalize(e)) = Words(e)}
<1>1. ASSUME NEW e \in Over(Trees \cap S) PROVE e \in S
  <2>1. e \in Trees /\ e \in Over(Trees)
    <3>1. Trees \cap S \subseteq Trees
      OBVIOUS
    <3> HIDE DEF S
    <3> QED BY <3>1, OverGrows, TreesOver
  <2>2. \A i \in 1 .. Len(e.parts) : e.parts[i] \in S
    <3>1. e.parts \in Seq(Trees \cap S)
      <4> HIDE DEF S
      <4> QED BY OverFacts
    <3> HIDE DEF S
    <3> QED BY <3>1
  <2> PICK w : w = Parts(e)
    OBVIOUS
  <2>3. /\ w \in Seq(Trees) /\ Len(w) = Len(e.parts) /\ Len(w) \in Nat
        /\ DOMAIN e.parts = 1 .. Len(e.parts)
        /\ Canonicalize(e) = CanonStep(e, w) /\ Canonicalize(e) \in Trees
        /\ \A i \in 1 .. Len(w) : w[i] = Canonicalize(e.parts[i]) /\ w[i] \in Trees
    <3>1. Parts(e) \in Seq(Trees) /\ \A i \in 1 .. Len(e.parts) : Parts(e)[i] = Canonicalize(e.parts[i])
      BY <2>1, PartsFacts
    <3> QED BY <2>1, <3>1, PartsFacts, CanonicalizeIs
  <2>4. WordsOf(w) = WordsOf(e.parts)
    <3>1. DOMAIN w = 1 .. Len(w)
      BY <2>3
    <3>2. \A i \in 1 .. Len(w) : Words(w[i]) = Words(e.parts[i])
      BY <2>2, <2>3
    <3> QED BY <2>3, <3>1, <3>2 DEF WordsOf
  <2>5. Words(e) = WordStep(e, WordsOf(w))
    BY <2>1, <2>4, WordsIs
  <2>6. CASE e.kind \in {"alt", "concat"}
    <3> PICK k \in {"alt", "concat"} : k = e.kind
      BY <2>6
    <3>1. w # << >> /\ Canonicalize(e) = UnwrapSingle(Flattened(w, k), k)
      BY <2>1, <2>3, <2>6, StepFacts
    <3>2. \A x \in Trees : Dissolved(x, k) \in Seq(Trees) \ {<< >>}
      BY DissolvedTrees
    <3>3. Flattened(w, k) \in Seq(Trees) /\ Flattened(w, k) # << >>
      BY <2>3, <3>1, <3>2, FlattenedFacts
    <3>4. Words(Canonicalize(e)) = Said(k, w)
      BY <2>3, <3>1, <3>3, SaidUnwrap, SaidFlattened
    <3>5. Words(e) = Said(k, w)
      BY <2>5 DEF WordStep, Said
    <3> QED BY <2>1, <3>4, <3>5
  <2>7. CASE e.kind = "optional"
    <3>1. w[1] \in Trees /\ Canonicalize(e) = Opt(w[1]) /\ Len(w) = 1
      BY <2>1, <2>3, <2>7, StepFacts, OverFacts
    <3>2. Words(Canonicalize(e)) = {<< >>} \cup Words(w[1])
      <4>1. Opt(w[1]).kind = "optional" /\ Opt(w[1]).parts = <<w[1]>> /\ WordsOf(<<w[1]>>)[1] = Words(w[1])
        BY DEF Opt, WordsOf
      <4>2. Words(Opt(w[1])) = WordStep(Opt(w[1]), WordsOf(<<w[1]>>))
        BY <2>3, <3>1, <4>1, WordsIs
      <4> QED BY <3>1, <4>1, <4>2 DEF WordStep
    <3>3. Words(e) = {<< >>} \cup Words(w[1])
      <4>1. WordsOf(w)[1] = Words(w[1])
        BY <2>3, <3>1 DEF WordsOf
      <4> QED BY <2>5, <2>7, <4>1 DEF WordStep
    <3> QED BY <2>1, <3>2, <3>3
  <2>8. CASE e.kind = "repeat"
    <3>1. /\ w[1] \in Trees /\ Canonicalize(e) = Respelled(e, w[1])
          /\ Len(w) = 1 /\ e.min \in Nat /\ e.max \in Nat \cup {None}
          /\ e = Repeat(e.min, e.max, e.parts[1])
      BY <2>1, <2>3, <2>8, StepFacts, OverFacts
    <3>2. Words(e) = Repeated(e.min, e.max, Words(w[1]))
      <4>1. WordsOf(w)[1] = Words(w[1])
        BY <2>3, <3>1 DEF WordsOf
      <4> QED BY <2>5, <2>8, <4>1 DEF WordStep, Repeated
    <3>3. Words(w[1]) \in Languages
      BY <3>1, WordsIs
    <3>4. [e EXCEPT !.parts = <<w[1]>>] = Repeat(e.min, e.max, w[1])
      <4>1. PICK lo, hi, z : e = [kind |-> "repeat", parts |-> <<z>>, min |-> lo, max |-> hi]
        BY <3>1 DEF Repeat
      <4> QED BY <4>1 DEF Repeat
    <3>5. CASE e.min = 0 /\ e.max = 1
      <4>1. Canonicalize(e) = Opt(w[1])
        BY <2>8, <3>1, <3>5 DEF Respelled, IsExactly
      <4>2. Opt(w[1]).kind = "optional" /\ Opt(w[1]).parts = <<w[1]>> /\ WordsOf(<<w[1]>>)[1] = Words(w[1])
        BY DEF Opt, WordsOf
      <4>3. Words(Opt(w[1])) = WordStep(Opt(w[1]), WordsOf(<<w[1]>>))
        BY <2>3, <4>1, <4>2, WordsIs
      <4>4. Words(Opt(w[1])) = {<< >>} \cup Words(w[1])
        BY <4>2, <4>3 DEF WordStep
      <4>5. Repeated(0, 1, Words(w[1])) = {<< >>} \cup Words(w[1])
        BY <3>3, CopiesFacts
      <4> QED BY <2>1, <3>2, <3>5, <4>1, <4>4, <4>5
    <3>6. CASE e.min = 1 /\ e.max = 1
      <4>1. Canonicalize(e) = w[1]
        BY <2>8, <3>1, <3>6 DEF Respelled, IsExactly
      <4>2. Repeated(1, 1, Words(w[1])) = Words(w[1])
        BY <3>3, CopiesFacts
      <4> QED BY <2>1, <3>2, <3>6, <4>1, <4>2
    <3>7. CASE ~ (e.max = 1 /\ e.min \in {0, 1})
      <4>1. Canonicalize(e) = Repeat(e.min, e.max, w[1])
        BY <3>1, <3>4, <3>7 DEF Respelled, IsExactly
      <4> DEFINE r == Repeat(e.min, e.max, w[1])
      <4>2. r.kind = "repeat" /\ r.parts = <<w[1]>> /\ r.min = e.min /\ r.max = e.max /\ WordsOf(<<w[1]>>)[1] = Words(w[1])
        BY DEF Repeat, WordsOf
      <4>3. Words(r) = WordStep(r, WordsOf(<<w[1]>>))
        BY <2>3, <4>1, <4>2, WordsIs
      <4>4. Words(r) = Repeated(e.min, e.max, Words(w[1]))
        <5> PICK x, of : x = r /\ of = WordsOf(<<w[1]>>)
          OBVIOUS
        <5> HIDE DEF r
        <5>1. WordStep(x, of) = Repeated(e.min, e.max, of[1])
          BY <4>2 DEF WordStep, Repeated
        <5> QED BY <4>2, <4>3, <5>1
      <4> QED BY <2>1, <3>2, <4>1, <4>4
    <3> QED BY <3>5, <3>6, <3>7
  <2>9. CASE e \in Leaves
    <3>1. Canonicalize(e) = e
      BY <2>1, <2>3, <2>9, StepFacts
    <3> QED BY <2>1, <3>1
  <2> QED BY <2>1, <2>6, <2>7, <2>8, <2>9, OverFacts
<1>2. \A x \in Trees : x \in S
  <2> HIDE DEF S
  <2> QED BY <1>1, TreeInduction
<1> QED BY <1>2

(* What it has rewritten it leaves as it is.                               *)
THEOREM CanonicalizeOnce == \A e \in Trees : Canonicalize(Canonicalize(e)) = Canonicalize(e)
<1> TAKE e \in Trees
<1>1. Canonicalize(e) \in Trees /\ Normal(Canonicalize(e))
  BY CanonicalizeIs, CanonicalizeNormal
<1> QED BY <1>1, NormalStays

(* The letters, one by one.                                                *)
LEMMA Letters ==
  ALPHA = {"a", "b", "c", "d", "e", "f", "i", "s", "x", "y",
           "A", "B", "C", "D", "E", "F", "I", "S", "X", "Y"}
<1>1. DOMAIN Lowers = 1 .. 10 /\ DOMAIN Uppers = 1 .. 10
  BY DEF Lowers, Uppers
<1>2. \A k : k \in 1 .. 10 <=> k \in {1, 2, 3, 4, 5, 6, 7, 8, 9, 10}
  OBVIOUS
<1>3. ToSet(Lowers) = {Lowers[k] : k \in {1, 2, 3, 4, 5, 6, 7, 8, 9, 10}}
  BY <1>1, <1>2 DEF ToSet
<1>4. ToSet(Uppers) = {Uppers[k] : k \in {1, 2, 3, 4, 5, 6, 7, 8, 9, 10}}
  BY <1>1, <1>2 DEF ToSet
<1>5. ToSet(Lowers) = {"a", "b", "c", "d", "e", "f", "i", "s", "x", "y"}
  BY <1>3 DEF Lowers
<1>6. ToSet(Uppers) = {"A", "B", "C", "D", "E", "F", "I", "S", "X", "Y"}
  BY <1>4 DEF Uppers
<1> QED BY <1>5, <1>6 DEF ALPHA

(* Capital letters and their small ones.                                   *)
LEMMA Lowered ==
  /\ ToLower("A") = "a" /\ ToLower("B") = "b" /\ ToLower("C") = "c" /\ ToLower("D") = "d"
  /\ ToLower("E") = "e" /\ ToLower("F") = "f" /\ ToLower("I") = "i" /\ ToLower("S") = "s"
  /\ ToLower("X") = "x" /\ ToLower("Y") = "y"
  /\ \A c : c \notin {"A", "B", "C", "D", "E", "F", "I", "S", "X", "Y"} => ToLower(c) = c
<1>1. DOMAIN Uppers = 1 .. 10
  BY DEF Uppers
<1>2. \A k : k \in 1 .. 10 <=> k \in {1, 2, 3, 4, 5, 6, 7, 8, 9, 10}
  OBVIOUS
<1>3. ToSet(Uppers) = {Uppers[k] : k \in {1, 2, 3, 4, 5, 6, 7, 8, 9, 10}}
  BY <1>1, <1>2 DEF ToSet
<1>4. ToSet(Uppers) = {"A", "B", "C", "D", "E", "F", "I", "S", "X", "Y"}
  BY <1>3 DEF Uppers
<1>5. \A j, k \in DOMAIN Uppers : Uppers[j] = Uppers[k] => j = k
  <2>1. \A j, k \in {1, 2, 3, 4, 5, 6, 7, 8, 9, 10} : Uppers[j] = Uppers[k] => j = k
    BY DEF Uppers
  <2> QED BY <1>1, <1>2, <2>1
<1>6. ASSUME NEW k \in DOMAIN Uppers PROVE ToLower(Uppers[k]) = Lowers[k]
  <2>1. (CHOOSE j \in DOMAIN Uppers : Uppers[j] = Uppers[k]) = k
    BY <1>5
  <2>2. Uppers[k] \in ToSet(Uppers)
    BY DEF ToSet
  <2>3. DOMAIN Small = ToSet(Uppers) /\ Small[Uppers[k]] = Lowers[k]
    BY <2>1, <2>2 DEF Small
  <2> QED BY <2>2, <2>3 DEF ToLower
<1>7. \A k \in {1, 2, 3, 4, 5, 6, 7, 8, 9, 10} : ToLower(Uppers[k]) = Lowers[k]
  BY <1>1, <1>2, <1>6
<1>8. /\ ToLower("A") = "a" /\ ToLower("B") = "b" /\ ToLower("C") = "c" /\ ToLower("D") = "d"
      /\ ToLower("E") = "e" /\ ToLower("F") = "f" /\ ToLower("I") = "i" /\ ToLower("S") = "s"
      /\ ToLower("X") = "x" /\ ToLower("Y") = "y"
  BY <1>7 DEF Uppers, Lowers
<1>9. \A c : c \notin {"A", "B", "C", "D", "E", "F", "I", "S", "X", "Y"} => ToLower(c) = c
  <2>1. DOMAIN Small = ToSet(Uppers)
    BY DEF Small
  <2> QED BY <1>4, <2>1 DEF ToLower
<1> QED BY <1>8, <1>9

(* A small letter of the markers is written in either case.                *)
LEMMA Markers ==
  ASSUME NEW c
  PROVE  /\ ToLower(c) = "s" <=> c \in {"s", "S"}
         /\ ToLower(c) = "i" <=> c \in {"i", "I"}
         /\ ToLower(c) = "b" <=> c \in {"b", "B"}
         /\ ToLower(c) = "d" <=> c \in {"d", "D"}
         /\ ToLower(c) = "x" <=> c \in {"x", "X"}
  BY Lowered

(* Digits and what they are worth.                                         *)
LEMMA Digitals ==
  /\ DOMAIN Worth = DIGIT \cup {"A", "B", "C", "D", "E", "F", "a", "b", "c", "d", "e", "f"}
  /\ \A c \in DOMAIN Worth : Worth[c] \in 0 .. 15
  /\ \A k \in 1 .. 16 : HexDigits[k] \in DOMAIN Worth /\ Worth[HexDigits[k]] = k - 1
  /\ DigitsOf(10) = DIGIT
<1> DEFINE K == {1, 2, 3, 4, 5, 6, 7, 8, 9, 10, 11, 12, 13, 14, 15, 16}
<1>1. DOMAIN HexDigits = K /\ 1 .. 16 = K /\ Len(HexDigits) = 16
  <2>1. DOMAIN HexDigits = 1 .. 16
    BY DEF HexDigits
  <2>2. \A k : k \in 1 .. 16 <=> k \in K
    OBVIOUS
  <2>3. Len(HexDigits) = 16
    BY DEF HexDigits
  <2> QED BY <2>1, <2>2, <2>3
<1>2. ToSet(HexDigits) = DIGIT \cup {"A", "B", "C", "D", "E", "F"}
  <2>1. ToSet(HexDigits) = {HexDigits[k] : k \in K}
    BY <1>1 DEF ToSet
  <2> QED BY <2>1 DEF HexDigits, DIGIT
<1>3. ToSet(Uppers) = {"A", "B", "C", "D", "E", "F", "I", "S", "X", "Y"}
  <2>1. DOMAIN Uppers = 1 .. 10
    BY DEF Uppers
  <2>2. \A k : k \in 1 .. 10 <=> k \in {1, 2, 3, 4, 5, 6, 7, 8, 9, 10}
    OBVIOUS
  <2>3. ToSet(Uppers) = {Uppers[k] : k \in {1, 2, 3, 4, 5, 6, 7, 8, 9, 10}}
    BY <2>1, <2>2 DEF ToSet
  <2> QED BY <2>3 DEF Uppers
<1>4. DOMAIN Small = ToSet(Uppers)
  BY DEF Small
<1>5. ToSet(Uppers) \cap ToSet(HexDigits) = {"A", "B", "C", "D", "E", "F"}
  BY <1>2, <1>3 DEF DIGIT
<1>6. /\ Small["A"] = "a" /\ Small["B"] = "b" /\ Small["C"] = "c"
      /\ Small["D"] = "d" /\ Small["E"] = "e" /\ Small["F"] = "f"
  <2>1. \A c \in {"A", "B", "C", "D", "E", "F"} : c \in CHAR /\ ToLower(c) = Small[c]
    BY <1>3, <1>4, Letters DEF CHAR, VCHAR, ToLower
  <2> QED BY <2>1, Lowered
<1>7. DOMAIN Worth = DIGIT \cup {"A", "B", "C", "D", "E", "F", "a", "b", "c", "d", "e", "f"}
  <2>1. {Small[d] : d \in ToSet(Uppers) \cap ToSet(HexDigits)} = {"a", "b", "c", "d", "e", "f"}
    BY <1>5, <1>6
  <2> QED BY <1>2, <2>1 DEF Worth
<1>8. \A j, k \in K : ToLower(HexDigits[j]) = ToLower(HexDigits[k]) => j = k
  <2>1. \A c \in DIGIT : ToLower(c) = c
    BY <1>3, <1>4 DEF ToLower, DIGIT
  <2>2. /\ HexDigits[1] = "0" /\ HexDigits[2] = "1" /\ HexDigits[3] = "2" /\ HexDigits[4] = "3"
        /\ HexDigits[5] = "4" /\ HexDigits[6] = "5" /\ HexDigits[7] = "6" /\ HexDigits[8] = "7"
        /\ HexDigits[9] = "8" /\ HexDigits[10] = "9" /\ HexDigits[11] = "A" /\ HexDigits[12] = "B"
        /\ HexDigits[13] = "C" /\ HexDigits[14] = "D" /\ HexDigits[15] = "E" /\ HexDigits[16] = "F"
    BY DEF HexDigits
  <2>3. /\ ToLower("0") = "0" /\ ToLower("1") = "1" /\ ToLower("2") = "2" /\ ToLower("3") = "3"
        /\ ToLower("4") = "4" /\ ToLower("5") = "5" /\ ToLower("6") = "6" /\ ToLower("7") = "7"
        /\ ToLower("8") = "8" /\ ToLower("9") = "9"
    BY <2>1 DEF DIGIT
  <2> QED BY <2>2, <2>3, Lowered
<1>9. ASSUME NEW k \in K PROVE HexDigits[k] \in DOMAIN Worth /\ Worth[HexDigits[k]] = k - 1
  <2>1. HexDigits[k] \in ToSet(HexDigits) /\ HexDigits[k] \in DOMAIN Worth
    BY <1>1, <1>2, <1>7 DEF ToSet
  <2>2. (CHOOSE j \in DOMAIN HexDigits : ToLower(HexDigits[j]) = ToLower(HexDigits[k])) = k
    BY <1>1, <1>8
  <2>3. Worth[HexDigits[k]] = (CHOOSE j \in DOMAIN HexDigits : ToLower(HexDigits[j]) = ToLower(HexDigits[k])) - 1
    BY <2>1 DEF Worth
  <2> QED BY <2>1, <2>2, <2>3
<1>10. \A c \in DOMAIN Worth : Worth[c] \in 0 .. 15
  <2> TAKE c \in DOMAIN Worth
  <2>1. \E k \in K : ToLower(HexDigits[k]) = ToLower(c)
    <3>1. CASE c \in ToSet(HexDigits)
      BY <1>1, <3>1 DEF ToSet
    <3>2. CASE c \in {"a", "b", "c", "d", "e", "f"}
      <4>1. ToLower(c) = c
        BY <1>3, <1>4, <3>2 DEF ToLower
      <4>2. /\ HexDigits[11] = "A" /\ HexDigits[12] = "B" /\ HexDigits[13] = "C"
            /\ HexDigits[14] = "D" /\ HexDigits[15] = "E" /\ HexDigits[16] = "F"
        BY DEF HexDigits
      <4>3. \E k \in {11, 12, 13, 14, 15, 16} : ToLower(HexDigits[k]) = c
        BY <3>2, <4>2, Lowered
      <4> QED BY <4>1, <4>3
    <3> QED BY <1>2, <1>7, <3>1, <3>2
  <2>2. PICK k \in DOMAIN HexDigits : k = (CHOOSE j \in DOMAIN HexDigits : ToLower(HexDigits[j]) = ToLower(c))
    BY <1>1, <2>1
  <2>3. Worth[c] = k - 1
    BY <2>2 DEF Worth
  <2> QED BY <1>1, <2>2, <2>3
<1>11. \A c \in DIGIT : Worth[c] < 10
  <2>1. /\ HexDigits[1] = "0" /\ HexDigits[2] = "1" /\ HexDigits[3] = "2" /\ HexDigits[4] = "3"
        /\ HexDigits[5] = "4" /\ HexDigits[6] = "5" /\ HexDigits[7] = "6" /\ HexDigits[8] = "7"
        /\ HexDigits[9] = "8" /\ HexDigits[10] = "9"
    BY DEF HexDigits
  <2>2. \A c \in DIGIT : \E k \in {1, 2, 3, 4, 5, 6, 7, 8, 9, 10} : c = HexDigits[k]
    BY <2>1 DEF DIGIT
  <2> QED BY <1>9, <2>2
<1>12. \A c \in {"A", "B", "C", "D", "E", "F", "a", "b", "c", "d", "e", "f"} : Worth[c] >= 10
  <2> TAKE c \in {"A", "B", "C", "D", "E", "F", "a", "b", "c", "d", "e", "f"}
  <2>1. /\ HexDigits[11] = "A" /\ HexDigits[12] = "B" /\ HexDigits[13] = "C"
        /\ HexDigits[14] = "D" /\ HexDigits[15] = "E" /\ HexDigits[16] = "F"
    BY DEF HexDigits
  <2>2. PICK k \in {11, 12, 13, 14, 15, 16} : ToLower(HexDigits[k]) = ToLower(c)
    <3>1. c \in {"a", "b", "c", "d", "e", "f"} => ToLower(c) = c
      BY <1>3, <1>4 DEF ToLower
    <3>2. CASE c \in {"a", "b", "c", "d", "e", "f"}
      <4>1. \E k \in {11, 12, 13, 14, 15, 16} : ToLower(HexDigits[k]) = c
        BY <2>1, <3>2, Lowered
      <4> QED BY <3>1, <3>2, <4>1
    <3>3. CASE c \in {"A", "B", "C", "D", "E", "F"}
      <4>1. \E k \in {11, 12, 13, 14, 15, 16} : HexDigits[k] = c
        BY <2>1, <3>3
      <4> QED BY <4>1
    <3> QED BY <3>2, <3>3
  <2>3. (CHOOSE j \in DOMAIN HexDigits : ToLower(HexDigits[j]) = ToLower(c)) = k
    <3>1. \A j \in DOMAIN HexDigits : ToLower(HexDigits[j]) = ToLower(c) => j = k
      BY <1>1, <1>8, <2>2
    <3>2. k \in DOMAIN HexDigits
      BY <1>1
    <3> QED BY <2>2, <3>1, <3>2
  <2>4. Worth[c] = k - 1
    BY <1>7, <2>3 DEF Worth
  <2> QED BY <2>4
<1>13. DigitsOf(10) = DIGIT
  <2>1. \A c \in DOMAIN Worth : Worth[c] < 10 <=> c \in DIGIT
    <3> TAKE c \in DOMAIN Worth
    <3>1. CASE c \in DIGIT
      BY <1>11, <3>1
    <3>2. CASE c \in {"A", "B", "C", "D", "E", "F", "a", "b", "c", "d", "e", "f"}
      <4>1. Worth[c] >= 10 /\ c \notin DIGIT /\ Worth[c] \in 0 .. 15
        BY <1>10, <1>12, <3>2 DEF DIGIT
      <4> QED BY <4>1
    <3> QED BY <1>7, <3>1, <3>2
  <2> QED BY <1>7, <2>1 DEF DigitsOf
<1> QED BY <1>1, <1>7, <1>9, <1>10, <1>13

(* The text in hand, as SelfGrammar takes one.                             *)
Given == [text |-> src, strict |-> strict]
(* Where the text ends.                                                    *)
End == Len(src)
(* The text is one the parser may be given.                                *)
Typed == src \in Seq(CHAR) /\ strict \in BOOLEAN

(* What a comment or line ending begins with.                              *)
Breaks == {";", "CR", "LF"}
(* What whitespace begins with.                                            *)
Blanks == WSP \cup Breaks

(* What is read is not a failure, and what failed is.                      *)
LEMMA ReadFacts ==
  /\ None \notin Errors
  /\ \A q, v : /\ Read(q, v).at = q /\ Read(q, v).value = v /\ Read(q, v).error = None
               /\ ~Failed(Read(q, v))
  /\ \A q, w : Failure(q, w).error = w
  /\ \A q : Failed(Expected(q)) /\ Expected(q).error \in Errors
<1>1. None \notin Errors
  BY ParserAssumption
<1>2. \A q : Expected(q).error \in Errors
  BY DEF Expected, Failure, Errors
<1> QED BY <1>1, <1>2 DEF Read, Failure, Failed

(* What `Peek` sees, inside the text and behind it.                        *)
LEMMA PeekFacts ==
  ASSUME Typed
  PROVE  /\ End \in Nat
         /\ \A p \in Nat : /\ Peek(p) \in CHAR \cup {"END"}
                           /\ Peek(p) = "END" <=> p >= End
                           /\ p < End => Peek(p) = src[p + 1] /\ p + 1 \in 1 .. End
         /\ Given.text = src /\ Given.strict = strict
<1>1. End \in Nat /\ \A i \in 1 .. End : src[i] \in CHAR
  BY DEF End, Typed
<1>2. "END" \notin CHAR
  BY Letters DEF CHAR, VCHAR, DIGIT, WSP
<1>3. ASSUME NEW p \in Nat
      PROVE  /\ Peek(p) \in CHAR \cup {"END"}
             /\ Peek(p) = "END" <=> p >= End
             /\ p < End => Peek(p) = src[p + 1] /\ p + 1 \in 1 .. End
  BY <1>1, <1>2 DEF Peek, End
<1> QED BY <1>1, <1>3 DEF Given

(* Grammar and parser look at the same character.                          *)
LEMMA HereFacts ==
  ASSUME Typed, NEW S, "END" \notin S, NEW p \in Nat
  PROVE  Here(Given, p, S) <=> Peek(p) \in S
<1>1. Here(Given, p, S) <=> p < End /\ src[p + 1] \in S
  BY PeekFacts DEF Here, End
<1> QED BY <1>1, PeekFacts

(* A run of characters, and its end.                                       *)
LEMMA SkipFacts ==
  ASSUME Typed, NEW S, "END" \notin S, NEW p \in 0 .. End
  PROVE  /\ Skip(p, S) \in p .. End
         /\ Peek(Skip(p, S)) \notin S
         /\ \A i \in p .. Skip(p, S) - 1 : Peek(i) \in S
         /\ Runs(Given, p, S) = p .. Skip(p, S)
<1> DEFINE P(q) == Peek(q) \notin S /\ \A i \in p .. q - 1 : Peek(i) \in S
<1>1. \E q \in p .. End : P(q)
  <2> DEFINE B == {i \in p .. End : Peek(i) \notin S}
  <2>1. End \in B /\ B \in SUBSET Nat
    BY PeekFacts
  <2>2. PICK r \in B : \A s \in B : r <= s
    <3> HIDE DEF B
    <3> QED BY <2>1, LeastExists
  <2>3. \A i \in p .. r - 1 : Peek(i) \in S
    <3> TAKE i \in p .. r - 1
    <3>1. i \in p .. End /\ i < r
      BY PeekFacts
    <3>2. i \notin B
      BY <2>2, <3>1, PeekFacts
    <3> QED BY <3>1, <3>2
  <2> QED BY <2>3
<1>2. Skip(p, S) = CHOOSE q \in p .. End : P(q)
  BY DEF Skip, End
<1>3. Skip(p, S) \in p .. End /\ P(Skip(p, S))
  BY <1>1, <1>2
<1>4. Runs(Given, p, S) = {q \in p .. End : \A i \in p .. q - 1 : Peek(i) \in S}
  <2>1. \A i \in Nat : Here(Given, i, S) <=> Peek(i) \in S
    BY HereFacts
  <2>2. \A q \in p .. End : \A i \in p .. q - 1 : i \in Nat
    BY PeekFacts
  <2>3. Runs(Given, p, S) = {q \in p .. End : \A i \in p .. q - 1 : Here(Given, i, S)}
    BY PeekFacts DEF Runs, End
  <2> QED BY <2>1, <2>2, <2>3
<1>5. ASSUME NEW q \in p .. End
      PROVE  (\A i \in p .. q - 1 : Peek(i) \in S) <=> q \in p .. Skip(p, S)
  BY <1>3, PeekFacts
<1>6. Runs(Given, p, S) = p .. Skip(p, S)
  <2>1. \A q \in p .. Skip(p, S) : q \in p .. End
    BY <1>3, PeekFacts
  <2> QED BY <1>4, <1>5, <2>1
<1> QED BY <1>3, <1>6

(* The parser's loop ends where a run can go no further.                   *)
LEMMA SkipEnds ==
  ASSUME Typed, NEW S, "END" \notin S, NEW p \in 0 .. End, NEW q \in Runs(Given, p, S), Peek(q) \notin S
  PROVE  q = Skip(p, S)
<1>1. q \in p .. Skip(p, S) /\ Skip(p, S) \in p .. End /\ \A i \in p .. Skip(p, S) - 1 : Peek(i) \in S
  BY SkipFacts
<1> QED BY <1>1, PeekFacts

(* Where a run ends is after it.                                           *)
LEMMA AfterFacts ==
  ASSUME Typed, NEW E, \A q \in E : q \in Nat, NEW c, c # "END"
  PROVE  \A s : s \in After(Given, E, c) <=> \E q \in E : s = q + 1 /\ Peek(q) = c
<1>1. \A q \in E : Here(Given, q, {c}) <=> Peek(q) = c
  <2> TAKE q \in E
  <2>1. "END" \notin {c} /\ q \in Nat
    OBVIOUS
  <2> QED BY <2>1, HereFacts
<1> QED BY <1>1 DEF After

-----------------------------------------------------------------------------
(* Line endings and whitespace.                                            *)
LEMMA LineFacts ==
  ASSUME Typed, NEW p \in 0 .. End
  PROVE  /\ TryLineEnding(p) \in p .. End
         /\ TryLineEnding(p) # p => Peek(p) \in {"CR", "LF"}
         /\ LineEnds(Given, p) = IF TryLineEnding(p) = p THEN {} ELSE {TryLineEnding(p)}
         /\ TryLineEnding(p) # p => LineEnding(p) = Read(TryLineEnding(p), "CRLF")
         /\ TryLineEnding(p) = p => Failed(LineEnding(p)) /\ LineEnding(p).error \in Errors
<1>1. /\ Here(Given, p, {"CR"}) <=> Peek(p) = "CR"
      /\ Here(Given, p + 1, {"LF"}) <=> Peek(p + 1) = "LF"
      /\ Here(Given, p, {"CR", "LF"}) <=> Peek(p) \in {"CR", "LF"}
  <2>1. "END" \notin {"CR"} /\ "END" \notin {"LF"} /\ "END" \notin {"CR", "LF"} /\ p \in Nat /\ p + 1 \in Nat
    BY PeekFacts
  <2> QED BY <2>1, HereFacts
<1>2. /\ Peek(p) \in {"CR", "LF"} => p < End
      /\ Peek(p + 1) = "LF" => p + 1 < End
  <2>1. p \in Nat /\ p + 1 \in Nat /\ End \in Nat
    BY PeekFacts
  <2> QED BY <2>1, PeekFacts
<1>3. p \in Nat /\ p + 2 # p /\ p + 1 # p /\ End \in Nat /\ p <= End
  BY PeekFacts
<1>4. TryLineEnding(p) \in p .. End
  BY <1>2, <1>3 DEF TryLineEnding
<1>5. TryLineEnding(p) # p => Peek(p) \in {"CR", "LF"}
  BY DEF TryLineEnding
<1>6. LineEnds(Given, p) = IF TryLineEnding(p) = p THEN {} ELSE {TryLineEnding(p)}
  BY <1>1, <1>3, PeekFacts DEF LineEnds, TryLineEnding
<1>7. TryLineEnding(p) = p => Failed(LineEnding(p)) /\ LineEnding(p).error \in Errors
  BY ReadFacts DEF LineEnding, Failed, Failure, Errors
<1>8. TryLineEnding(p) # p => LineEnding(p) = Read(TryLineEnding(p), "CRLF")
  BY DEF LineEnding
<1> QED BY <1>4, <1>5, <1>6, <1>7, <1>8

(* A comment or line ending is read in one way at most.                    *)
LEMMA CNlFacts ==
  ASSUME Typed, NEW p \in 0 .. End
  PROVE  /\ CNlEnds(Given, p) = IF Failed(CNl(p)) THEN {} ELSE {CNl(p).at}
         /\ ~Failed(CNl(p)) => CNl(p).at \in p + 1 .. End /\ Peek(p) \in Breaks
         /\ Failed(CNl(p)) => CNl(p).error \in Errors
<1> DEFINE S == WSP \cup VCHAR
           m == Skip(p + 1, S)
<1>0. "END" \notin S /\ "CR" \notin S /\ "LF" \notin S /\ p \in Nat /\ End \in Nat
  BY Letters, PeekFacts DEF VCHAR, DIGIT, WSP
<1>1. \A s : s \in After(Given, {p}, ";") <=> s = p + 1 /\ Peek(p) = ";"
  <2> DEFINE E == {p}
  <2>1. (\A q \in E : q \in Nat) /\ ";" # "END"
    BY <1>0
  <2> HIDE DEF E
  <2>2. \A s : s \in After(Given, E, ";") <=> \E q \in E : s = q + 1 /\ Peek(q) = ";"
    BY <2>1, AfterFacts
  <2> QED BY <2>2 DEF E
<1>2. CASE Peek(p) = ";"
  <2>1. p < End /\ p + 1 \in 0 .. End
    <3>1. Peek(p) # "END"
      BY <1>2
    <3> QED BY <1>0, <3>1, PeekFacts
  <2>2. /\ m \in p + 1 .. End /\ Runs(Given, p + 1, S) = p + 1 .. m
        /\ \A i \in p + 1 .. m - 1 : Peek(i) \in S
    BY <1>0, <2>1, SkipFacts
  <2> HIDE DEF m, S
  <2>3. After(Given, {p}, ";") = {p + 1}
    BY <1>1, <1>2
  <2>4. LineEnds(Given, p) = {}
    BY <1>2, LineFacts
  <2>5. \A q \in p + 1 .. m : q \in 0 .. End /\ (q # m => q \in p + 1 .. m - 1)
    BY <1>0, <2>1, <2>2
  <2>6. \A q \in p + 1 .. m : q # m => LineEnds(Given, q) = {}
    <3> TAKE q \in p + 1 .. m
    <3> HAVE q # m
    <3>1. Peek(q) \in S /\ q \in 0 .. End
      BY <2>2, <2>5
    <3> QED BY <1>0, <3>1, LineFacts
  <2>7. UNION {LineEnds(Given, q) : q \in Runs(Given, p + 1, S)} = LineEnds(Given, m)
    <3>1. m \in p + 1 .. m
      BY <1>0, <2>2
    <3> QED BY <2>2, <2>6, <3>1
  <2>8. CNlEnds(Given, p) = LineEnds(Given, m)
    <3>1. CNlEnds(Given, p) = LineEnds(Given, p) \cup UNION {UNION {LineEnds(Given, q) : q \in Runs(Given, s, S)} : s \in {p + 1}}
      BY <2>3 DEF CNlEnds, S
    <3> QED BY <2>4, <2>7, <3>1
  <2>9. CNl(p) = LineEnding(m)
    BY <1>2 DEF CNl, Comment, m, S
  <2>10. m \in 0 .. End
    BY <1>0, <2>2
  <2>11. Failed(LineEnding(m)) <=> TryLineEnding(m) = m
    BY <2>10, LineFacts, ReadFacts
  <2>12. TryLineEnding(m) \in m .. End /\ (TryLineEnding(m) # m => LineEnding(m).at = TryLineEnding(m))
    BY <2>10, LineFacts, ReadFacts
  <2>13. /\ LineEnds(Given, m) = IF TryLineEnding(m) = m THEN {} ELSE {TryLineEnding(m)}
         /\ TryLineEnding(m) = m => LineEnding(m).error \in Errors
    BY <2>10, LineFacts
  <2>14. ~Failed(CNl(p)) => CNl(p).at \in p + 1 .. End
    BY <1>0, <2>2, <2>9, <2>11, <2>12
  <2> QED BY <1>2, <2>8, <2>9, <2>11, <2>12, <2>13, <2>14 DEF Breaks
<1>3. CASE Peek(p) # ";"
  <2>1. After(Given, {p}, ";") = {}
    BY <1>1, <1>3
  <2>2. CNlEnds(Given, p) = LineEnds(Given, p)
    BY <2>1 DEF CNlEnds
  <2>3. CNl(p) = LineEnding(p)
    BY <1>3 DEF CNl
  <2>4. Failed(LineEnding(p)) <=> TryLineEnding(p) = p
    BY LineFacts, ReadFacts
  <2>5. TryLineEnding(p) \in p .. End /\ (TryLineEnding(p) # p => LineEnding(p).at = TryLineEnding(p))
    BY LineFacts, ReadFacts
  <2>6. /\ LineEnds(Given, p) = IF TryLineEnding(p) = p THEN {} ELSE {TryLineEnding(p)}
        /\ TryLineEnding(p) = p => LineEnding(p).error \in Errors
        /\ TryLineEnding(p) # p => Peek(p) \in {"CR", "LF"}
    BY LineFacts
  <2>7. ~Failed(CNl(p)) => CNl(p).at \in p + 1 .. End
    BY <1>0, <2>3, <2>4, <2>5
  <2> QED BY <2>2, <2>3, <2>4, <2>5, <2>6, <2>7 DEF Breaks
<1> QED BY <1>2, <1>3

(* And so is one c-wsp.                                                    *)
LEMMA CWspFacts ==
  ASSUME Typed, NEW p \in 0 .. End
  PROVE  /\ CWspEnds(Given, p) = IF CWsp(p) = p THEN {} ELSE {CWsp(p)}
         /\ CWsp(p) \in p .. End
         /\ Peek(p) \notin Blanks => CWsp(p) = p
         /\ Peek(p) \in WSP => CWsp(p) = p + 1
         /\ Peek(p) \in Breaks /\ CNlEnds(Given, p) = {} => CWsp(p) = p
         /\ \A q \in CNlEnds(Given, p) : CWsp(p) = IF Peek(q) \in WSP THEN q + 1 ELSE p
<1>0. "END" \notin WSP /\ p \in Nat /\ End \in Nat /\ WSP \cap Breaks = {}
  BY PeekFacts DEF WSP, Breaks
<1>1. \A q \in {p} \cup CNlEnds(Given, p) : q \in Nat
  BY <1>0, CNlFacts
<1>2. \A s : s \in CWspEnds(Given, p) <=> \E q \in {p} \cup CNlEnds(Given, p) : s = q + 1 /\ Peek(q) \in WSP
  <2>1. \A c \in WSP : \A s : s \in After(Given, {p} \cup CNlEnds(Given, p), c)
                                <=> \E q \in {p} \cup CNlEnds(Given, p) : s = q + 1 /\ Peek(q) = c
    <3> TAKE c \in WSP
    <3> DEFINE E == {p} \cup CNlEnds(Given, p)
    <3>1. c # "END" /\ \A q \in E : q \in Nat
      BY <1>0, <1>1
    <3> HIDE DEF E
    <3>2. \A s : s \in After(Given, E, c) <=> \E q \in E : s = q + 1 /\ Peek(q) = c
      BY <3>1, AfterFacts
    <3> QED BY <3>2 DEF E
  <2> QED BY <2>1 DEF CWspEnds
<1>3. CASE Peek(p) \in WSP
  <2>1. Failed(CNl(p)) /\ CNlEnds(Given, p) = {} /\ Peek(p) \notin Breaks
    BY <1>0, <1>3, CNlFacts
  <2>2. CWsp(p) = p + 1 /\ p < End
    BY <1>0, <1>3, PeekFacts DEF CWsp
  <2>3. CWspEnds(Given, p) = {p + 1}
    BY <1>2, <1>3, <2>1
  <2> QED BY <1>0, <1>3, <2>1, <2>2, <2>3 DEF Blanks
<1>4. CASE Peek(p) \notin WSP /\ Failed(CNl(p))
  <2>1. CWsp(p) = p
    BY <1>4 DEF CWsp
  <2>2. CNlEnds(Given, p) = {} /\ CWspEnds(Given, p) = {}
    BY <1>2, <1>4, CNlFacts
  <2> QED BY <1>0, <1>4, <2>1, <2>2
<1>5. CASE Peek(p) \notin WSP /\ ~Failed(CNl(p))
  <2>1. /\ CNlEnds(Given, p) = {CNl(p).at} /\ CNl(p).at \in p + 1 .. End
        /\ Peek(p) \in Breaks
    BY <1>5, CNlFacts
  <2>2. CWsp(p) = IF Peek(CNl(p).at) \in WSP THEN CNl(p).at + 1 ELSE p
    BY <1>5, <2>1 DEF CWsp, Breaks
  <2>3. CWspEnds(Given, p) = IF Peek(CNl(p).at) \in WSP THEN {CNl(p).at + 1} ELSE {}
    BY <1>2, <1>5, <2>1
  <2>4. Peek(CNl(p).at) \in WSP => CNl(p).at < End
    BY <1>0, <2>1, PeekFacts
  <2> QED BY <1>0, <1>5, <2>1, <2>2, <2>3, <2>4 DEF Blanks
<1> QED BY <1>3, <1>4, <1>5

(* Induction from the last number down.                                    *)
LEMMA CountBack ==
  ASSUME NEW n \in Nat, NEW S, n \in S, \A k \in 0 .. n : k + 1 \in S /\ k < n => k \in S
  PROVE  \A k \in 0 .. n : k \in S
<1> DEFINE A == {k \in 0 .. n : n - k \in S}
<1>1. 0 \in A
  <2>1. n - 0 = n /\ 0 \in 0 .. n
    OBVIOUS
  <2> QED BY <2>1
<1>2. ASSUME NEW k \in 1 .. n, k - 1 \in A PROVE k \in A
  <2>1. n - k \in 0 .. n /\ (n - k) + 1 = n - (k - 1) /\ n - k < n
    OBVIOUS
  <2>2. n - (k - 1) \in S
    BY <1>2
  <2> QED BY <2>1, <2>2
<1>3. \A k \in 0 .. n : k \in A
  <2> HIDE DEF A
  <2> QED BY <1>1, <1>2, CountUp
<1> TAKE k \in 0 .. n
<1>4. n - k \in 0 .. n /\ n - (n - k) = k
  OBVIOUS
<1> QED BY <1>3, <1>4

(* And from what is known of every greater one.                            *)
LEMMA CountDown ==
  ASSUME NEW n \in Nat, NEW S, \A k \in 0 .. n : (\A i \in k + 1 .. n : i \in S) => k \in S
  PROVE  \A k \in 0 .. n : k \in S
<1> DEFINE A == {k \in 0 .. n : \A i \in k .. n : i \in S}
<1>1. n \in A
  <2>1. n \in S
    <3>1. \A i \in n + 1 .. n : i \in S
      OBVIOUS
    <3> QED BY <3>1
  <2>2. \A i \in n .. n : i = n
    OBVIOUS
  <2> QED BY <2>1, <2>2
<1>2. ASSUME NEW k \in 0 .. n, k + 1 \in A, k < n PROVE k \in A
  <2>1. \A i \in k + 1 .. n : i \in S
    BY <1>2
  <2>2. k \in S
    BY <2>1
  <2>3. \A i \in k .. n : i = k \/ i \in k + 1 .. n
    OBVIOUS
  <2> QED BY <2>1, <2>2, <2>3
<1>3. \A k \in 0 .. n : k \in A
  <2> HIDE DEF A
  <2> QED BY <1>1, <1>2, CountBack
<1>4. \A k \in 0 .. n : k \in k .. n
  OBVIOUS
<1> QED BY <1>3, <1>4

-----------------------------------------------------------------------------
(* `StarCWsp` is one c-wsp and then itself.                                *)
LEMMA StarIs ==
  ASSUME Typed
  PROVE  \A p \in 0 .. End : StarCWsp(p) = IF CWsp(p) = p THEN p ELSE StarCWsp(CWsp(p))
<1> DEFINE E(f, q) == IF CWsp(q) = q THEN q ELSE f[CWsp(q)]
           P(f) == f = [q \in 0 .. Len(src) |-> E(f, q)]
           F == CHOOSE f : P(f)
           A == {m \in 0 .. End + 1 : \E g : \A q \in m .. End : g[q] = E(g, q)}
<1>0. End \in Nat /\ End = Len(src) /\ \A q \in 0 .. End : CWsp(q) \in q .. End
  BY PeekFacts, CWspFacts DEF End
<1>1. End + 1 \in A
  <2>1. \A q : q \notin End + 1 .. End
    BY <1>0
  <2>2. End + 1 \in 0 .. End + 1
    BY <1>0
  <2> QED BY <2>1, <2>2
<1>2. ASSUME NEW m \in 0 .. End + 1, m + 1 \in A, m < End + 1 PROVE m \in A
  <2>1. PICK g : \A q \in m + 1 .. End : g[q] = E(g, q)
    BY <1>2
  <2> DEFINE f == [q \in m .. End |-> IF q = m THEN E(g, m) ELSE g[q]]
  <2>2. ASSUME NEW q \in m .. End PROVE f[q] = E(f, q)
    <3>1. q \in 0 .. End /\ CWsp(q) \in q .. End
      BY <1>0
    <3>2. CWsp(q) # q => CWsp(q) \in m .. End /\ CWsp(q) # m
      BY <1>0, <3>1
    <3>3. q # m => q \in m + 1 .. End
      BY <1>0, <3>1
    <3> QED BY <2>1, <3>2, <3>3
  <2> HIDE DEF f
  <2> QED BY <1>0, <2>2
<1>3. \A m \in 0 .. End + 1 : m \in A
  <2> HIDE DEF A
  <2>1. End + 1 \in Nat
    BY <1>0
  <2> QED BY <1>1, <1>2, <2>1, CountBack
<1>4. PICK g : \A q \in 0 .. End : g[q] = E(g, q)
  <2>1. 0 \in 0 .. End + 1
    BY <1>0
  <2>2. 0 \in A
    BY <1>3, <2>1
  <2> QED BY <2>2
<1>5. P([q \in 0 .. End |-> g[q]])
  <2> DEFINE r == [q \in 0 .. End |-> g[q]]
  <2>1. \A q \in 0 .. End : r[q] = E(r, q)
    BY <1>0, <1>4
  <2>2. r = [q \in 0 .. End |-> r[q]]
    OBVIOUS
  <2> HIDE DEF r
  <2> QED BY <1>0, <2>1, <2>2
<1>6. P(F)
  <2> HIDE DEF P
  <2> QED BY <1>5
<1>7. \A p : StarCWsp(p) = F[p]
  BY DEF StarCWsp
<1> HIDE DEF F
<1>8. \A p \in 0 .. End : F[p] = E(F, p)
  BY <1>0, <1>6
<1> QED BY <1>7, <1>8

(* The readings of *c-wsp are none of it, and one c-wsp and then           *)
(* themselves.                                                             *)
LEMMA StarEndsIs ==
  ASSUME Typed
  PROVE  \A p \in 0 .. End :
           StarCWspEnds(Given, p) = {p} \cup UNION {StarCWspEnds(Given, s) : s \in CWspEnds(Given, p)}
<1> DEFINE E(f, q) == {q} \cup UNION {f[s] : s \in CWspEnds(Given, q)}
           P(f) == f = [q \in 0 .. Len(Given.text) |-> E(f, q)]
           F == CHOOSE f : P(f)
           A == {m \in 0 .. End + 1 : \E g : \A q \in m .. End : g[q] = E(g, q)}
<1>0. /\ End \in Nat /\ End = Len(Given.text)
      /\ \A q \in 0 .. End : \A s \in CWspEnds(Given, q) : s \in q + 1 .. End
  <2>1. ASSUME NEW q \in 0 .. End, NEW s \in CWspEnds(Given, q) PROVE s \in q + 1 .. End
    <3>1. CWsp(q) \in q .. End /\ CWsp(q) # q /\ s = CWsp(q)
      BY CWspFacts
    <3> QED BY <3>1, PeekFacts
  <2> QED BY <2>1, PeekFacts DEF End
<1>1. End + 1 \in A
  <2>1. \A q : q \notin End + 1 .. End
    BY <1>0
  <2>2. End + 1 \in 0 .. End + 1
    BY <1>0
  <2> QED BY <2>1, <2>2
<1>2. ASSUME NEW m \in 0 .. End + 1, m + 1 \in A, m < End + 1 PROVE m \in A
  <2>1. PICK g : \A q \in m + 1 .. End : g[q] = E(g, q)
    BY <1>2
  <2> DEFINE f == [q \in m .. End |-> IF q = m THEN E(g, m) ELSE g[q]]
  <2>2. ASSUME NEW q \in m .. End PROVE f[q] = E(f, q)
    <3>1. q \in 0 .. End
      BY <1>0
    <3>2. \A s \in CWspEnds(Given, q) : s \in m .. End /\ s # m
      BY <1>0, <3>1
    <3>3. \A s \in CWspEnds(Given, q) : f[s] = g[s]
      BY <3>2
    <3>4. q # m => q \in m + 1 .. End
      BY <1>0, <3>1
    <3>5. f[q] = E(g, q)
      BY <2>1, <3>4
    <3> HIDE DEF f
    <3> QED BY <3>3, <3>5
  <2> HIDE DEF f
  <2> QED BY <1>0, <2>2
<1>3. \A m \in 0 .. End + 1 : m \in A
  <2> HIDE DEF A
  <2>1. End + 1 \in Nat
    BY <1>0
  <2> QED BY <1>1, <1>2, <2>1, CountBack
<1>4. PICK g : \A q \in 0 .. End : g[q] = E(g, q)
  <2>1. 0 \in 0 .. End + 1
    BY <1>0
  <2>2. 0 \in A
    BY <1>3, <2>1
  <2> QED BY <2>2
<1>5. P([q \in 0 .. End |-> g[q]])
  <2> DEFINE r == [q \in 0 .. End |-> g[q]]
  <2>1. ASSUME NEW q \in 0 .. End PROVE r[q] = E(r, q)
    <3>1. \A s \in CWspEnds(Given, q) : s \in 0 .. End
      <4>1. \A s \in q + 1 .. End : s \in 0 .. End
        BY <1>0
      <4> QED BY <1>0, <4>1
    <3>2. \A s \in CWspEnds(Given, q) : r[s] = g[s]
      BY <3>1
    <3>3. r[q] = E(g, q)
      <4>1. r[q] = g[q]
        OBVIOUS
      <4> HIDE DEF E, r
      <4> QED BY <1>4, <4>1
    <3> HIDE DEF r
    <3> QED BY <3>2, <3>3
  <2>2. r = [q \in 0 .. End |-> r[q]]
    OBVIOUS
  <2> HIDE DEF r, E
  <2>3. r = [q \in 0 .. End |-> E(r, q)]
    BY <2>1, <2>2
  <2>4. P(r)
    BY <1>0, <2>3
  <2> QED BY <2>4 DEF r
<1>6. P(F)
  <2> HIDE DEF P
  <2> QED BY <1>5
<1>7. \A p : StarCWspEnds(Given, p) = F[p]
  BY DEF StarCWspEnds
<1> HIDE DEF F
<1>8. \A p \in 0 .. End : F[p] = E(F, p)
  BY <1>0, <1>6
<1> QED BY <1>7, <1>8

(* All there is between what goes before and after.                        *)
LEMMA StarFacts ==
  ASSUME Typed, NEW p \in 0 .. End
  PROVE  /\ StarCWsp(p) \in p .. End
         /\ CWsp(StarCWsp(p)) = StarCWsp(p)
         /\ CWsp(p) = p => StarCWsp(p) = p
         /\ StarCWsp(CWsp(p)) = StarCWsp(p)
         /\ StarCWsp(p) \in StarCWspEnds(Given, p)
         /\ \A q \in StarCWspEnds(Given, p) : q \in p .. End /\ StarCWsp(q) = StarCWsp(p)
<1>0. End \in Nat
  BY PeekFacts
<1> DEFINE S == {q \in 0 .. End : /\ StarCWsp(q) \in q .. End
                                  /\ CWsp(StarCWsp(q)) = StarCWsp(q)
                                  /\ StarCWsp(q) \in StarCWspEnds(Given, q)
                                  /\ \A s \in StarCWspEnds(Given, q) : s \in q .. End /\ StarCWsp(s) = StarCWsp(q)}
<1>1. ASSUME NEW q \in 0 .. End, \A i \in q + 1 .. End : i \in S PROVE q \in S
  <2>1. StarCWsp(q) = IF CWsp(q) = q THEN q ELSE StarCWsp(CWsp(q))
    BY StarIs
  <2>2. StarCWspEnds(Given, q) = {q} \cup UNION {StarCWspEnds(Given, s) : s \in CWspEnds(Given, q)}
    BY StarEndsIs
  <2>3. CWspEnds(Given, q) = (IF CWsp(q) = q THEN {} ELSE {CWsp(q)}) /\ CWsp(q) \in q .. End
    BY CWspFacts
  <2>4. CASE CWsp(q) = q
    <3>1. StarCWspEnds(Given, q) = {q} /\ StarCWsp(q) = q /\ q \in q .. End
      BY <1>0, <2>1, <2>2, <2>3, <2>4
    <3> QED BY <2>4, <3>1
  <2>5. CASE CWsp(q) # q
    <3> PICK c : c = CWsp(q)
      OBVIOUS
    <3>1. c \in q + 1 .. End /\ c \in S
      BY <1>0, <1>1, <2>3, <2>5
    <3>2. StarCWspEnds(Given, q) = {q} \cup StarCWspEnds(Given, c) /\ StarCWsp(q) = StarCWsp(c)
      BY <2>1, <2>2, <2>3, <2>5
    <3>3. /\ StarCWsp(c) \in c .. End /\ CWsp(StarCWsp(c)) = StarCWsp(c)
          /\ StarCWsp(c) \in StarCWspEnds(Given, c)
          /\ \A s \in StarCWspEnds(Given, c) : s \in c .. End /\ StarCWsp(s) = StarCWsp(c)
      BY <3>1
    <3>4. StarCWsp(q) \in q .. End /\ q \in q .. End
      BY <1>0, <3>1, <3>2, <3>3
    <3>5. \A s \in StarCWspEnds(Given, q) : s \in q .. End /\ StarCWsp(s) = StarCWsp(q)
      <4>1. \A s \in c .. End : s \in q .. End
        BY <1>0, <3>1
      <4> QED BY <3>2, <3>3, <3>4, <4>1
    <3> QED BY <3>2, <3>3, <3>4, <3>5
  <2> QED BY <2>4, <2>5
<1>2. \A q \in 0 .. End : q \in S
  <2> HIDE DEF S
  <2> QED BY <1>0, <1>1, CountDown
<1>3. StarCWsp(p) = IF CWsp(p) = p THEN p ELSE StarCWsp(CWsp(p))
  BY StarIs
<1> QED BY <1>2, <1>3

(* What is not blank ends it.                                              *)
LEMMA StarEnds ==
  ASSUME Typed, NEW p \in 0 .. End, NEW q \in StarCWspEnds(Given, p), Peek(q) \notin Blanks
  PROVE  q = StarCWsp(p)
<1>1. q \in 0 .. End /\ StarCWsp(q) = StarCWsp(p)
  BY StarFacts, PeekFacts
<1>2. CWsp(q) = q
  BY <1>1, CWspFacts
<1> QED BY <1>1, <1>2, StarFacts

(* `StarCWsp` moves over blanks only, and does not stop at a space or tab. *)
LEMMA StarStops ==
  ASSUME Typed, NEW p \in 0 .. End
  PROVE  /\ Peek(p) \notin Blanks => StarCWsp(p) = p
         /\ StarCWsp(p) # p => Peek(p) \in Blanks /\ CWsp(p) # p
         /\ Peek(StarCWsp(p)) \notin WSP
<1>1. Peek(p) \notin Blanks => CWsp(p) = p
  BY CWspFacts
<1>2. StarCWsp(p) \in 0 .. End /\ CWsp(StarCWsp(p)) = StarCWsp(p) /\ (CWsp(p) = p => StarCWsp(p) = p)
  BY StarFacts, PeekFacts
<1>3. StarCWsp(p) + 1 # StarCWsp(p)
  BY <1>2
<1> QED BY <1>1, <1>2, <1>3, CWspFacts

(* Induction upwards, between two numbers.                                 *)
LEMMA CountFrom ==
  ASSUME NEW p \in Nat, NEW n \in Nat, p <= n, NEW S, p \in S, \A k \in p .. n : k < n /\ k \in S => k + 1 \in S
  PROVE  \A k \in p .. n : k \in S
<1>0. n \in Nat /\ p <= n
  OBVIOUS
<1> DEFINE A == {k \in 0 .. n - p : p + k \in S}
<1>1. 0 \in A
  <2>1. 0 \in 0 .. n - p /\ p + 0 = p
    BY <1>0
  <2> QED BY <2>1
<1>2. ASSUME NEW k \in 1 .. n - p, k - 1 \in A PROVE k \in A
  <2>1. p + (k - 1) \in p .. n /\ (p + (k - 1)) + 1 = p + k /\ p + (k - 1) < n
    BY <1>0
  <2> QED BY <1>2, <2>1
<1>3. \A k \in 0 .. n - p : k \in A
  <2> HIDE DEF A
  <2>1. n - p \in Nat
    BY <1>0
  <2> QED BY <1>1, <1>2, <2>1, CountUp
<1> TAKE k \in p .. n
<1>4. k - p \in 0 .. n - p /\ p + (k - p) = k
  BY <1>0
<1> QED BY <1>3, <1>4

(* What was passed over is what stands there.                              *)
LEMMA PieceFacts ==
  ASSUME Typed, NEW p \in 0 .. End, NEW q \in p .. End
  PROVE  /\ TextFrom(p, q) = Piece(Given, p, q)
         /\ Piece(Given, p, q) \in Seq(CHAR)
<1>1. Piece(Given, p, q) = SubSeq(src, p + 1, q) /\ TextFrom(p, q) = SubSeq(src, p + 1, q)
  BY PeekFacts DEF Piece, TextFrom
<1>2. src \in Seq(CHAR) /\ p + 1 \in 1 .. Len(src) + 1 /\ q \in p .. Len(src)
  BY PeekFacts DEF End, Typed
<1>3. SubSeq(src, p + 1, q) \in Seq(CHAR)
  BY <1>2, SubSeqProperties
<1> QED BY <1>1, <1>3

(* A sequence is one of what its elements are.                             *)
LEMMA Within ==
  ASSUME NEW X, NEW s \in Seq(X), NEW S, \A i \in 1 .. Len(s) : s[i] \in S
  PROVE  s \in Seq(S)
<1>1. Len(s) \in Nat /\ s = [i \in 1 .. Len(s) |-> s[i]]
  BY LenProperties, ElementOfSeq
<1>2. [i \in 1 .. Len(s) |-> s[i]] \in [1 .. Len(s) -> S]
  OBVIOUS
<1>3. s \in UNION {[1 .. n -> S] : n \in Nat}
  BY <1>1, <1>2
<1> QED BY <1>3, SeqDef

(* What stands there, character by character.                              *)
LEMMA PieceOf ==
  ASSUME Typed, NEW p \in 0 .. End, NEW q \in p .. End
  PROVE  /\ Len(Piece(Given, p, q)) = q - p
         /\ \A i \in 1 .. q - p : Piece(Given, p, q)[i] = Peek(p + (i - 1))
         /\ \A S : (\A i \in p .. q - 1 : Peek(i) \in S) => Piece(Given, p, q) \in Seq(S)
<1>1. src \in Seq(CHAR) /\ p \in Nat /\ q \in Nat /\ p <= q /\ q <= Len(src) /\ End = Len(src)
  BY PeekFacts DEF Typed, End
<1>2. Piece(Given, p, q) = SubSeq(src, p + 1, q)
  BY DEF Piece, Given
<1> PICK w : w = SubSeq(src, p + 1, q)
  OBVIOUS
<1>3. w \in Seq(CHAR) /\ Len(w) = q - p /\ \A i \in 1 .. q - p : w[i] = src[p + i]
  BY <1>1
<1>4. \A i \in 1 .. q - p : w[i] = Peek(p + (i - 1))
  <2> TAKE i \in 1 .. q - p
  <2>1. p + (i - 1) \in Nat /\ p + (i - 1) < End /\ (p + (i - 1)) + 1 = p + i
    BY <1>1
  <2>2. Peek(p + (i - 1)) = src[(p + (i - 1)) + 1]
    BY <2>1, PeekFacts
  <2> QED BY <1>3, <2>1, <2>2
<1>5. ASSUME NEW S, \A i \in p .. q - 1 : Peek(i) \in S PROVE w \in Seq(S)
  <2>1. \A i \in 1 .. Len(w) : w[i] \in S
    <3> TAKE i \in 1 .. Len(w)
    <3>1. i \in 1 .. q - p /\ p + (i - 1) \in p .. q - 1
      BY <1>1, <1>3
    <3> QED BY <1>4, <1>5, <3>1
  <2> QED BY <1>3, <2>1, Within
<1> QED BY <1>2, <1>3, <1>4, <1>5

(* What ends any reading of a rule's body or of a part of it.              *)
Stops == Blanks \cup {"/", ")", "]"}

-----------------------------------------------------------------------------
(* The parser reads a name as far as it goes; every reading of a name is a *)
(* beginning of that one.                                                  *)
LEMMA RulenameFacts ==
  ASSUME Typed, NEW p \in 0 .. End
  PROVE  /\ Rulename(p).error \in Errors \cup {None}
         /\ ~Failed(Rulename(p)) => <<Rulename(p).at, Rulename(p).value>> \in Rulenames(Given, p)
         /\ \A z \in Rulenames(Given, p) :
              /\ z = <<z[1], z[2]>> /\ z[1] \in p + 1 .. End /\ z[2] \in Seq(CHAR)
              /\ Peek(p) \in ALPHA
              /\ Peek(z[1]) \notin ALPHA \cup DIGIT \cup {"-"} => Rulename(p) = Read(z[1], z[2])
<1> DEFINE S == ALPHA \cup DIGIT \cup {"-"}
           q == Skip(p + 1, S)
<1>0. "END" \notin ALPHA /\ "END" \notin S /\ p \in Nat /\ End \in Nat
  BY Letters, PeekFacts DEF DIGIT
<1>1. Here(Given, p, ALPHA) <=> Peek(p) \in ALPHA
  BY <1>0, HereFacts
<1>2. CASE Peek(p) \notin ALPHA
  <2>1. Rulename(p) = Expected(p) /\ Rulenames(Given, p) = {}
    BY <1>1, <1>2 DEF Rulename, Rulenames
  <2> QED BY <2>1, ReadFacts
<1>3. CASE Peek(p) \in ALPHA
  <2>1. p + 1 \in 0 .. End
    BY <1>0, <1>3, PeekFacts
  <2>2. q \in p + 1 .. End /\ Runs(Given, p + 1, S) = p + 1 .. q
    BY <1>0, <2>1, SkipFacts
  <2>3. Rulenames(Given, p) = {<<s, Piece(Given, p, s)>> : s \in Runs(Given, p + 1, S)}
    BY <1>1, <1>3 DEF Rulenames
  <2>4. Rulename(p) = Read(q, TextFrom(p, q))
    BY <1>3 DEF Rulename
  <2>5. ASSUME NEW s \in Runs(Given, p + 1, S), Peek(s) \notin S PROVE s = q
    <3> HIDE DEF S
    <3> QED BY <1>0, <2>1, <2>5, SkipEnds DEF S
  <2> HIDE DEF q, S
  <2>6. \A s \in p + 1 .. q : s \in p + 1 .. End /\ s \in p .. End
    BY <1>0, <2>1, <2>2
  <2>7. \A s \in p + 1 .. q : Piece(Given, p, s) \in Seq(CHAR) /\ TextFrom(p, s) = Piece(Given, p, s)
    BY <2>6, PieceFacts
  <2>8. q \in p + 1 .. q
    BY <1>0, <2>1, <2>2
  <2>9. ~Failed(Rulename(p)) /\ Rulename(p).error = None /\ Rulename(p).at = q /\ Rulename(p).value = Piece(Given, p, q)
    BY <2>4, <2>7, <2>8, ReadFacts
  <2>10. <<q, Piece(Given, p, q)>> \in Rulenames(Given, p)
    BY <2>2, <2>3, <2>8
  <2>11. ASSUME NEW z \in Rulenames(Given, p)
         PROVE  /\ z = <<z[1], z[2]>> /\ z[1] \in p + 1 .. End /\ z[2] \in Seq(CHAR)
                /\ Peek(z[1]) \notin S => Rulename(p) = Read(z[1], z[2])
    <3>1. PICK s \in p + 1 .. q : z = <<s, Piece(Given, p, s)>>
      BY <2>2, <2>3
    <3>2. Peek(s) \notin S => s = q
      BY <2>2, <2>5
    <3> QED BY <2>4, <2>6, <2>7, <3>1, <3>2
  <2> QED BY <1>3, <2>9, <2>10, <2>11 DEF S
<1> QED BY <1>2, <1>3

(* And what it reads is one: a letter and what may follow it.              *)
LEMMA NamesRead ==
  ASSUME Typed, NEW p \in 0 .. End, NEW z \in Rulenames(Given, p)
  PROVE  z[2] \in Names
<1>0. "END" \notin NameChars /\ p \in Nat /\ End \in Nat /\ ALPHA \subseteq NameChars
  BY Letters, PeekFacts DEF DIGIT, NameChars
<1>1. z = <<z[1], z[2]>> /\ z[1] \in p + 1 .. End /\ Peek(p) \in ALPHA
  BY RulenameFacts
<1>2. p + 1 \in 0 .. End
  BY <1>0, <1>1
<1>3. Rulenames(Given, p) \subseteq {<<s, Piece(Given, p, s)>> : s \in Runs(Given, p + 1, NameChars)}
  BY DEF Rulenames, NameChars
<1>4. PICK s \in Runs(Given, p + 1, NameChars) : z = <<s, Piece(Given, p, s)>>
  BY <1>3
<1>5. /\ s \in p + 1 .. Skip(p + 1, NameChars) /\ Skip(p + 1, NameChars) \in p + 1 .. End
      /\ \A i \in p + 1 .. Skip(p + 1, NameChars) - 1 : Peek(i) \in NameChars
  BY <1>0, <1>2, <1>4, SkipFacts
<1> PICK m : m = Skip(p + 1, NameChars)
  OBVIOUS
<1>6. s \in p .. End /\ s - p \in Nat /\ 1 \in 1 .. s - p /\ p + (1 - 1) = p
  BY <1>0, <1>5
<1>7. \A i \in p .. s - 1 : Peek(i) \in NameChars
  <2> TAKE i \in p .. s - 1
  <2>1. i = p \/ i \in p + 1 .. Skip(p + 1, NameChars) - 1
    BY <1>0, <1>5
  <2> QED BY <1>0, <1>1, <1>5, <2>1
<1> PICK w : w = Piece(Given, p, s)
  OBVIOUS
<1>8. w \in Seq(NameChars) /\ Len(w) = s - p /\ w[1] = Peek(p)
  BY <1>6, <1>7, PieceOf
<1>9. w # << >>
  BY <1>6, <1>8
<1> QED BY <1>1, <1>4, <1>8, <1>9 DEF Names

(* Whitespace up to a character that is none.                              *)
LEMMA UpToFacts ==
  ASSUME Typed, NEW p \in 0 .. End, NEW c \in CHAR \ Blanks
  PROVE  /\ After(Given, StarCWspEnds(Given, p), c)
              = IF Peek(StarCWsp(p)) = c THEN {StarCWsp(p) + 1} ELSE {}
         /\ Peek(StarCWsp(p)) = c => StarCWsp(p) + 1 \in p + 1 .. End
         /\ Peek(StarCWsp(p)) = c => Peek(p) \in Blanks \cup {c}
<1>0. p \in Nat /\ End \in Nat /\ c # "END"
  <2>1. "END" \notin CHAR
    BY Letters DEF CHAR, VCHAR, DIGIT, WSP
  <2> QED BY <2>1, PeekFacts
<1>1. StarCWsp(p) \in p .. End /\ StarCWsp(p) \in StarCWspEnds(Given, p)
      /\ \A q \in StarCWspEnds(Given, p) : q \in p .. End
  BY StarFacts
<1>2. \A q \in StarCWspEnds(Given, p) : Peek(q) = c => q = StarCWsp(p)
  BY StarEnds
<1>3. \A s : s \in After(Given, StarCWspEnds(Given, p), c) <=> \E q \in StarCWspEnds(Given, p) : s = q + 1 /\ Peek(q) = c
  <2> DEFINE E == StarCWspEnds(Given, p)
  <2>1. \A q \in E : q \in Nat
    BY <1>0, <1>1
  <2> HIDE DEF E
  <2>2. \A s : s \in After(Given, E, c) <=> \E q \in E : s = q + 1 /\ Peek(q) = c
    BY <1>0, <2>1, AfterFacts
  <2> QED BY <2>2 DEF E
<1>4. After(Given, StarCWspEnds(Given, p), c) = IF Peek(StarCWsp(p)) = c THEN {StarCWsp(p) + 1} ELSE {}
  BY <1>1, <1>2, <1>3
<1>5. Peek(StarCWsp(p)) = c => StarCWsp(p) < End
  BY <1>0, <1>1, PeekFacts
<1>6. Peek(StarCWsp(p)) = c => Peek(p) \in Blanks \cup {c}
  BY StarStops
<1> QED BY <1>0, <1>1, <1>4, <1>5, <1>6

(* The parser reads `=/` where it can; what a rule is defined by can be    *)
(* read in no other way if neither a blank nor a slash follows.            *)
LEMMA DefinedAsFacts ==
  ASSUME Typed, NEW p \in 0 .. End
  PROVE  /\ DefinedAs(p).error \in Errors \cup {None}
         /\ ~Failed(DefinedAs(p)) => <<DefinedAs(p).at, DefinedAs(p).value>> \in DefinedAss(Given, p)
         /\ \A z \in DefinedAss(Given, p) :
              /\ z = <<z[1], z[2]>> /\ z[1] \in p + 1 .. End /\ z[2] \in {"=", "=/"}
              /\ Peek(p) \in Blanks \cup {"="}
              /\ Peek(z[1]) \notin Blanks \cup {"/"} => DefinedAs(p) = Read(z[1], z[2])
<1> PICK q : q = StarCWsp(p)
  OBVIOUS
<1>0. /\ p \in Nat /\ End \in Nat /\ q \in p .. End /\ q \in Nat /\ "=" \in CHAR \ Blanks
      /\ "/" \in CHAR \ Blanks /\ "/" # "END"
  <2>1. "=" \in CHAR /\ "=" \notin Blanks /\ "/" \in CHAR /\ "/" \notin Blanks
    BY DEF CHAR, VCHAR, WSP, Blanks, Breaks
  <2> QED BY <2>1, PeekFacts, StarFacts
<1>1. /\ After(Given, StarCWspEnds(Given, p), "=") = (IF Peek(q) = "=" THEN {q + 1} ELSE {})
      /\ Peek(q) = "=" => q + 1 \in p + 1 .. End
      /\ Peek(q) = "=" => Peek(p) \in Blanks \cup {"="}
  BY <1>0, UpToFacts
<1>2. CASE Peek(q) # "="
  <2>1. After(Given, StarCWspEnds(Given, p), "=") = {}
    BY <1>1, <1>2
  <2>2. DefinedAss(Given, p) = {}
    <3>1. After(Given, {}, "/") = {}
      BY DEF After
    <3> QED BY <2>1, <3>1 DEF DefinedAss, Separated
  <2>3. DefinedAs(p) = Expected(q)
    BY <1>2 DEF DefinedAs
  <2> QED BY <2>2, <2>3, ReadFacts
<1>3. CASE Peek(q) = "="
  <2>1. After(Given, StarCWspEnds(Given, p), "=") = {q + 1} /\ q + 1 \in 0 .. End /\ q + 1 \in p + 1 .. End
    BY <1>0, <1>1, <1>3
  <2>2. \A s : s \in After(Given, {q + 1}, "/") <=> s = q + 2 /\ Peek(q + 1) = "/"
    <3> DEFINE E == {q + 1}
    <3>1. \A s \in E : s \in Nat
      BY <1>0
    <3> HIDE DEF E
    <3>2. \A s : s \in After(Given, E, "/") <=> \E u \in E : s = u + 1 /\ Peek(u) = "/"
      BY <1>0, <3>1, AfterFacts
    <3>3. (q + 1) + 1 = q + 2
      BY <1>0
    <3> QED BY <3>2, <3>3 DEF E
  <2>3. Peek(q + 1) = "/" => q + 2 \in p + 1 .. End /\ q + 2 \in 0 .. End
    <3>1. q + 1 \in Nat
      BY <1>0
    <3>2. Peek(q + 1) = "/" => q + 1 < End
      BY <1>0, <3>1, PeekFacts
    <3> QED BY <1>0, <3>2
  <2>4. DefinedAss(Given, p) = {<<s, "=">> : s \in StarCWspEnds(Given, q + 1)}
                                 \cup {<<s, "=/">> : s \in UNION {StarCWspEnds(Given, u) : u \in After(Given, {q + 1}, "/")}}
    BY <2>1 DEF DefinedAss, Separated
  <2>5. \A z : z \in DefinedAss(Given, p) <=>
                 \/ \E s \in StarCWspEnds(Given, q + 1) : z = <<s, "=">>
                 \/ Peek(q + 1) = "/" /\ \E s \in StarCWspEnds(Given, q + 2) : z = <<s, "=/">>
    BY <2>2, <2>4
  <2>6. /\ StarCWsp(q + 1) \in StarCWspEnds(Given, q + 1)
        /\ \A s \in StarCWspEnds(Given, q + 1) : s \in q + 1 .. End /\ (Peek(s) \notin Blanks => s = StarCWsp(q + 1))
        /\ Peek(q + 1) = "/" => StarCWsp(q + 1) = q + 1
    BY <1>0, <2>1, StarFacts, StarEnds, StarStops
  <2>7. Peek(q + 1) = "/" =>
          /\ StarCWsp(q + 2) \in StarCWspEnds(Given, q + 2)
          /\ \A s \in StarCWspEnds(Given, q + 2) : s \in q + 2 .. End /\ (Peek(s) \notin Blanks => s = StarCWsp(q + 2))
    BY <2>3, StarFacts, StarEnds
  <2>8. DefinedAs(p) = IF Peek(q + 1) = "/" THEN Read(StarCWsp(q + 2), "=/") ELSE Read(StarCWsp(q + 1), "=")
    BY <1>3 DEF DefinedAs
  <2>9. ASSUME NEW z \in DefinedAss(Given, p)
        PROVE  /\ z = <<z[1], z[2]>> /\ z[1] \in p + 1 .. End /\ z[2] \in {"=", "=/"}
               /\ Peek(z[1]) \notin Blanks \cup {"/"} => DefinedAs(p) = Read(z[1], z[2])
    <3>1. CASE \E s \in StarCWspEnds(Given, q + 1) : z = <<s, "=">>
      <4>1. PICK s \in StarCWspEnds(Given, q + 1) : z = <<s, "=">>
        BY <3>1
      <4>2. s \in p + 1 .. End
        BY <1>0, <2>6
      <4>3. Peek(s) \notin Blanks \cup {"/"} => s = StarCWsp(q + 1) /\ Peek(q + 1) # "/"
        BY <2>6
      <4> QED BY <2>8, <4>1, <4>2, <4>3
    <3>2. CASE Peek(q + 1) = "/" /\ \E s \in StarCWspEnds(Given, q + 2) : z = <<s, "=/">>
      <4>1. PICK s \in StarCWspEnds(Given, q + 2) : z = <<s, "=/">>
        BY <3>2
      <4>2. s \in p + 1 .. End
        BY <1>0, <2>7, <3>2
      <4>3. Peek(s) \notin Blanks => s = StarCWsp(q + 2)
        BY <2>7, <3>2
      <4> QED BY <2>8, <3>2, <4>1, <4>2, <4>3
    <3> QED BY <2>5, <3>1, <3>2
  <2>10. /\ DefinedAs(p).error = None
         /\ <<DefinedAs(p).at, DefinedAs(p).value>> \in DefinedAss(Given, p)
    BY <2>5, <2>6, <2>7, <2>8, ReadFacts
  <2> QED BY <1>1, <1>3, <2>9, <2>10
<1> QED BY <1>2, <1>3

-----------------------------------------------------------------------------
(* Numbers.                                                                *)
Radixes == {2, 10, 16}

(* A number does not shrink with a digit more.                             *)
LEMMA Weighed ==
  ASSUME NEW radix \in Radixes, NEW v \in Nat, NEW d \in Nat
  PROVE  v * radix + d \in Nat /\ v * radix + d >= v
<1>1. v * 2 + d \in Nat /\ v * 2 + d >= v /\ v * 10 + d \in Nat /\ v * 10 + d >= v
      /\ v * 16 + d \in Nat /\ v * 16 + d >= v
  OBVIOUS
<1> QED BY <1>1 DEF Radixes

(* What digits are and what they are worth.                                *)
LEMMA DigitFacts ==
  ASSUME NEW radix
  PROVE  /\ "END" \notin DigitsOf(radix)
         /\ \A c \in DigitsOf(radix) : Worth[c] \in Nat /\ c \in ALPHA \cup DIGIT
<1>1. \A c \in DigitsOf(radix) : c \in DOMAIN Worth
  BY DEF DigitsOf
<1>2. \A c \in DOMAIN Worth : Worth[c] \in Nat /\ c \in ALPHA \cup DIGIT
  BY Digitals, Letters
<1>3. "END" \notin ALPHA \cup DIGIT
  BY Letters DEF DIGIT
<1> QED BY <1>1, <1>2, <1>3

(* What the digits from `p` come to.                                       *)
Valued(p, radix, f) ==
  f = [q \in p .. Len(Given.text) |-> IF q = p THEN 0 ELSE f[q - 1] * radix + Worth[Given.text[q]]]

(* There is the value of each run of digits: the recursion defines a       *)
(* function.                                                               *)
LEMMA ValuedExists ==
  ASSUME Typed, NEW p \in 0 .. End, NEW radix \in Radixes
  PROVE  \E f : Valued(p, radix, f)
<1>0. End \in Nat /\ Len(Given.text) = End /\ p \in Nat /\ p <= End
  BY PeekFacts DEF End
<1> DEFINE E(f, q) == IF q = p THEN 0 ELSE f[q - 1] * radix + Worth[Given.text[q]]
           A == {m \in p .. End : \E g : \A q \in p .. m : g[q] = E(g, q)}
<1>1. p \in A
  <2> DEFINE g == [q \in p .. p |-> 0]
  <2>1. \A q \in p .. p : q = p
    BY <1>0
  <2>2. \A q \in p .. p : g[q] = E(g, q)
    BY <2>1
  <2> HIDE DEF g
  <2> QED BY <1>0, <2>2
<1>2. ASSUME NEW m \in p .. End, m < End, m \in A PROVE m + 1 \in A
  <2>1. PICK g : \A q \in p .. m : g[q] = E(g, q)
    BY <1>2
  <2> DEFINE f == [q \in p .. m + 1 |-> IF q = m + 1 THEN E(g, m + 1) ELSE g[q]]
  <2>2. ASSUME NEW q \in p .. m + 1 PROVE f[q] = E(f, q)
    <3>1. q # p => q - 1 \in p .. m + 1 /\ q - 1 # m + 1
      BY <1>0
    <3>2. q # m + 1 => q \in p .. m
      BY <1>0
    <3>3. q # p => f[q - 1] = g[q - 1]
      BY <3>1
    <3>4. f[q] = E(g, q)
      BY <2>1, <3>2
    <3> HIDE DEF f
    <3> QED BY <3>3, <3>4
  <2> HIDE DEF f
  <2>3. m + 1 \in p .. End
    BY <1>0, <1>2
  <2> QED BY <2>2, <2>3
<1>3. \A m \in p .. End : m \in A
  <2> HIDE DEF A
  <2> QED BY <1>0, <1>1, <1>2, CountFrom
<1>4. PICK g : \A q \in p .. End : g[q] = E(g, q)
  <2>1. End \in p .. End
    BY <1>0
  <2>2. End \in A
    BY <1>3, <2>1
  <2> QED BY <2>2
<1> DEFINE r == [q \in p .. End |-> g[q]]
<1>5. ASSUME NEW q \in p .. End PROVE r[q] = E(r, q)
  <2>1. q # p => q - 1 \in p .. End
    BY <1>0
  <2>2. r[q] = E(g, q)
    BY <1>4
  <2>3. q # p => r[q - 1] = g[q - 1]
    BY <2>1
  <2> HIDE DEF r
  <2> QED BY <2>2, <2>3
<1>6. r = [q \in p .. End |-> r[q]]
  OBVIOUS
<1>7. Valued(p, radix, r)
  <2> HIDE DEF r
  <2> QED BY <1>0, <1>5, <1>6 DEF Valued
<1> QED BY <1>7

(* The value of the digits from `p` on, up to each position.               *)
Tally(p, radix) == CHOOSE f : Valued(p, radix, f)

(* The value of a run of digits, digit by digit.                           *)
LEMMA TallyFacts ==
  ASSUME Typed, NEW p \in 0 .. End, NEW radix \in Radixes
  PROVE  /\ Tally(p, radix)[p] = 0
         /\ \A q \in p + 1 .. Skip(p, DigitsOf(radix)) :
              /\ Tally(p, radix)[q] = Tally(p, radix)[q - 1] * radix + Worth[src[q]]
              /\ Worth[src[q]] \in Nat
         /\ \A q \in p .. Skip(p, DigitsOf(radix)) : Tally(p, radix)[q] \in Nat
<1>0. End \in Nat /\ Len(Given.text) = End /\ Given.text = src /\ p \in Nat /\ p <= End
  BY PeekFacts DEF End
<1> PICK V, m : V = Tally(p, radix) /\ m = Skip(p, DigitsOf(radix))
  OBVIOUS
<1>1. V = [q \in p .. End |-> IF q = p THEN 0 ELSE V[q - 1] * radix + Worth[src[q]]]
  <2>1. Valued(p, radix, V)
    BY ValuedExists DEF Tally
  <2> QED BY <1>0, <2>1 DEF Valued
<1>2. m \in p .. End /\ m \in Nat /\ \A i \in p .. m - 1 : Peek(i) \in DigitsOf(radix)
  <2>1. "END" \notin DigitsOf(radix)
    BY DigitFacts
  <2> QED BY <1>0, <2>1, SkipFacts
<1>3. V[p] = 0
  <2>1. p \in p .. End
    BY <1>0
  <2> QED BY <1>1, <2>1
<1>4. ASSUME NEW q \in p + 1 .. m PROVE V[q] = V[q - 1] * radix + Worth[src[q]] /\ Worth[src[q]] \in Nat
  <2>1. q \in p .. End /\ q # p /\ q - 1 \in p .. m - 1 /\ q - 1 \in Nat /\ q - 1 < End /\ (q - 1) + 1 = q
    BY <1>0, <1>2
  <2>2. V[q] = V[q - 1] * radix + Worth[src[q]]
    BY <1>1, <2>1
  <2>3. Peek(q - 1) = src[q] /\ Peek(q - 1) \in DigitsOf(radix)
    BY <1>2, <2>1, PeekFacts
  <2> QED BY <2>2, <2>3, DigitFacts
<1> DEFINE A == {q \in p .. m : V[q] \in Nat}
<1>5. p \in A
  <2>1. p \in p .. m
    BY <1>0, <1>2
  <2> QED BY <1>3, <2>1
<1>6. ASSUME NEW q \in p .. m, q < m, q \in A PROVE q + 1 \in A
  <2>1. q + 1 \in p + 1 .. m /\ (q + 1) - 1 = q /\ q + 1 \in p .. m
    BY <1>0, <1>2, <1>6
  <2>2. V[q + 1] = V[q] * radix + Worth[src[q + 1]] /\ Worth[src[q + 1]] \in Nat
    BY <1>4, <2>1
  <2>3. V[q] \in Nat
    BY <1>6
  <2> QED BY <2>1, <2>2, <2>3, Weighed
<1>7. \A q \in p .. m : q \in A
  <2> HIDE DEF A
  <2>1. p <= m
    BY <1>0, <1>2
  <2> QED BY <1>0, <1>2, <1>5, <1>6, <2>1, CountFrom
<1> QED BY <1>3, <1>4, <1>7

(* A reading of a number is a run of digits that comes to one that fits.   *)
LEMMA NumbersAre ==
  ASSUME Typed, NEW p \in 0 .. End, NEW radix \in Radixes
  PROVE  \A z : z \in Numbers(Given, p, radix) <=>
                  \E q \in p + 1 .. Skip(p, DigitsOf(radix)) :
                    z = <<q, Tally(p, radix)[q]>> /\ Tally(p, radix)[q] <= MaxU64
<1>0. "END" \notin DigitsOf(radix) /\ p \in Nat /\ End \in Nat
  BY DigitFacts, PeekFacts
<1> PICK V, m, R : V = Tally(p, radix) /\ m = Skip(p, DigitsOf(radix)) /\ R = Runs(Given, p, DigitsOf(radix))
  OBVIOUS
<1>1. R = p .. m /\ m \in p .. End
  BY <1>0, SkipFacts
<1>2. Numbers(Given, p, radix) = {<<q, V[q]>> : q \in {q \in R \ {p} : V[q] <= MaxU64}}
  BY DEF Numbers, Tally, Valued
<1>3. \A q : q \in R \ {p} <=> q \in p + 1 .. m
  BY <1>0, <1>1
<1> QED BY <1>2, <1>3

-----------------------------------------------------------------------------
(* A literal read so far and what its digits come to.                      *)
Tells(l, v) ==
  \/ v > MaxU64 /\ \E n \in Nat : l = [value |-> n, overflowed |-> TRUE]
  \/ v <= MaxU64 /\ l = [value |-> v, overflowed |-> FALSE]

(* A literal with another value.                                           *)
LEMMA ValueChanged ==
  \A n, t, k : [[value |-> n, overflowed |-> t] EXCEPT !.value = k] = [value |-> k, overflowed |-> t]
  OBVIOUS

(* One digit more: a literal that tells its value, or that it is too large,*)
(* still does; one that overflowed never fits again.                       *)
LEMMA MoreTells ==
  ASSUME NEW l, NEW v \in Nat, Tells(l, v), NEW radix \in Radixes, NEW d \in Nat
  PROVE  Tells(MoreDigits(l, d, radix), v * radix + d)
<1>0. MaxU64 \in Nat
  BY CharactersAssumption
<1>a. PICK w : w = v * radix + d
  OBVIOUS
<1>1. w \in Nat /\ w >= v
  BY <1>a, Weighed
<1>2. CASE v > MaxU64
  <2>1. PICK n \in Nat : l = [value |-> n, overflowed |-> TRUE]
    BY <1>0, <1>2 DEF Tells
  <2>2. w > MaxU64
    BY <1>0, <1>1, <1>2
  <2>3. n * radix + d \in Nat
    BY Weighed
  <2>4. \E k \in Nat : MoreDigits(l, d, radix) = [value |-> k, overflowed |-> TRUE]
    <3>a. \A k : [[value |-> n, overflowed |-> TRUE] EXCEPT !.value = k] = [value |-> k, overflowed |-> TRUE]
      BY ValueChanged, Zenon
    <3>b. l.value = n
      BY <2>1
    <3>c. \A k : [l EXCEPT !.value = k] = [value |-> k, overflowed |-> TRUE]
      BY <2>1, <3>a, Zenon
    <3>1. l.value = n /\ \A k : [l EXCEPT !.value = k] = [value |-> k, overflowed |-> TRUE]
      BY <3>b, <3>c
    <3>2. MoreDigits(l, d, radix) = IF n * radix + d > MaxU64 THEN [value |-> 0, overflowed |-> TRUE]
                                    ELSE [value |-> n * radix + d, overflowed |-> TRUE]
      BY <3>1 DEF MoreDigits
    <3>3. 0 \in Nat
      OBVIOUS
    <3> QED BY <2>3, <3>2, <3>3
  <2> QED BY <1>a, <2>2, <2>4 DEF Tells
<1>3. CASE v <= MaxU64
  <2>1. l = [value |-> v, overflowed |-> FALSE]
    BY <1>0, <1>3 DEF Tells
  <2>a. \A k : [[value |-> v, overflowed |-> FALSE] EXCEPT !.value = k] = [value |-> k, overflowed |-> FALSE]
    BY ValueChanged, Zenon
  <2>b. l.value = v
    BY <2>1
  <2>c. \A k : [l EXCEPT !.value = k] = [value |-> k, overflowed |-> FALSE]
    BY <2>1, <2>a, Zenon
  <2>2. l.value = v /\ \A k : [l EXCEPT !.value = k] = [value |-> k, overflowed |-> FALSE]
    BY <2>b, <2>c
  <2>3. MoreDigits(l, d, radix) = IF w > MaxU64 THEN [value |-> 0, overflowed |-> TRUE]
                                  ELSE [value |-> w, overflowed |-> FALSE]
    BY <1>a, <2>2 DEF MoreDigits
  <2>4. CASE w > MaxU64
    <3>1. MoreDigits(l, d, radix) = [value |-> 0, overflowed |-> TRUE] /\ 0 \in Nat
      BY <2>3, <2>4
    <3> QED BY <1>a, <2>4, <3>1 DEF Tells
  <2>5. CASE ~(w > MaxU64)
    <3>1. MoreDigits(l, d, radix) = [value |-> w, overflowed |-> FALSE] /\ w <= MaxU64
      BY <1>0, <1>1, <2>3, <2>5
    <3> QED BY <1>a, <3>1 DEF Tells
  <2> QED BY <2>4, <2>5
<1> QED BY <1>0, <1>2, <1>3

(* The parser's literal at the end of its digits.                          *)
Scanned(p, m, radix, f) ==
  f = [i \in p .. m |-> IF i = p THEN [value |-> 0, overflowed |-> FALSE]
                        ELSE MoreDigits(f[i - 1], Worth[src[i]], radix)]

(* At the end of its digits the parser's literal tells what they come to.  *)
LEMMA ScanTells ==
  ASSUME Typed, NEW p \in 0 .. End, NEW radix \in Radixes
  PROVE  LET m == Skip(p, DigitsOf(radix))
         IN  Tells((CHOOSE f : Scanned(p, m, radix, f))[m], Tally(p, radix)[m])
<1> PICK V, m : V = Tally(p, radix) /\ m = Skip(p, DigitsOf(radix))
  OBVIOUS
<1>0. p \in Nat /\ m \in p .. End /\ m \in Nat /\ p <= m
  <2>1. "END" \notin DigitsOf(radix)
    BY DigitFacts
  <2> QED BY <2>1, SkipFacts, PeekFacts
<1> DEFINE zero == [value |-> 0, overflowed |-> FALSE]
           E(f, i) == IF i = p THEN zero ELSE MoreDigits(f[i - 1], Worth[src[i]], radix)
           A == {n \in p .. m : \E g : \A i \in p .. n : g[i] = E(g, i)}
<1>1. p \in A
  <2> DEFINE g == [q \in p .. p |-> zero]
  <2>1. \A q \in p .. p : q = p
    BY <1>0
  <2>2. \A q \in p .. p : g[q] = E(g, q)
    BY <2>1
  <2> HIDE DEF g
  <2> QED BY <1>0, <2>2
<1>2. ASSUME NEW n \in p .. m, n < m, n \in A PROVE n + 1 \in A
  <2>1. PICK g : \A q \in p .. n : g[q] = E(g, q)
    BY <1>2
  <2> DEFINE f == [q \in p .. n + 1 |-> IF q = n + 1 THEN E(g, n + 1) ELSE g[q]]
  <2>2. ASSUME NEW q \in p .. n + 1 PROVE f[q] = E(f, q)
    <3>1. q # p => q - 1 \in p .. n + 1 /\ q - 1 # n + 1
      BY <1>0
    <3>2. q # n + 1 => q \in p .. n
      BY <1>0
    <3>3. q # p => f[q - 1] = g[q - 1]
      BY <3>1
    <3>4. f[q] = E(g, q)
      BY <2>1, <3>2
    <3> HIDE DEF f
    <3> QED BY <3>3, <3>4
  <2> HIDE DEF f
  <2>3. n + 1 \in p .. m
    BY <1>0, <1>2
  <2> QED BY <2>2, <2>3
<1>3. \A n \in p .. m : n \in A
  <2> HIDE DEF A
  <2> QED BY <1>0, <1>1, <1>2, CountFrom
<1>4. PICK g : \A q \in p .. m : g[q] = E(g, q)
  <2>1. m \in p .. m
    BY <1>0
  <2>2. m \in A
    BY <1>3, <2>1
  <2> QED BY <2>2
<1> DEFINE r == [q \in p .. m |-> g[q]]
<1>5. ASSUME NEW q \in p .. m PROVE r[q] = E(r, q)
  <2>1. q # p => q - 1 \in p .. m
    BY <1>0
  <2>2. r[q] = E(g, q)
    BY <1>4
  <2>3. q # p => r[q - 1] = g[q - 1]
    BY <2>1
  <2> HIDE DEF r
  <2> QED BY <2>2, <2>3
<1>6. Scanned(p, m, radix, r)
  <2>1. r = [q \in p .. m |-> r[q]]
    OBVIOUS
  <2> HIDE DEF r
  <2> QED BY <1>5, <2>1 DEF Scanned
<1> HIDE DEF r
<1>7. PICK F : F = (CHOOSE f : Scanned(p, m, radix, f)) /\ Scanned(p, m, radix, F)
  BY <1>6
<1>8. \A q \in p .. m : F[q] = E(F, q)
  BY <1>7 DEF Scanned
<1> DEFINE B == {q \in p .. m : Tells(F[q], V[q])}
<1>9. p \in B
  <2>1. F[p] = zero /\ V[p] = 0 /\ p \in p .. m
    BY <1>0, <1>8, TallyFacts
  <2>2. MaxU64 \in Nat
    BY CharactersAssumption
  <2>3. Tells(zero, 0)
    BY <2>2 DEF Tells
  <2> QED BY <2>1, <2>3
<1>10. ASSUME NEW q \in p .. m, q < m, q \in B PROVE q + 1 \in B
  <2>1. q + 1 \in p + 1 .. m /\ q + 1 \in p .. m /\ (q + 1) - 1 = q /\ q + 1 # p
    BY <1>0, <1>10
  <2>2. F[q + 1] = MoreDigits(F[q], Worth[src[q + 1]], radix)
    BY <1>8, <2>1
  <2>3. V[q + 1] = V[q] * radix + Worth[src[q + 1]] /\ Worth[src[q + 1]] \in Nat /\ V[q] \in Nat
    BY <2>1, TallyFacts
  <2>4. Tells(F[q], V[q])
    BY <1>10
  <2>5. Tells(F[q + 1], V[q + 1])
    BY <2>2, <2>3, <2>4, MoreTells
  <2> QED BY <2>1, <2>5
<1>11. \A q \in p .. m : q \in B
  <2> HIDE DEF B
  <2> QED BY <1>0, <1>9, <1>10, CountFrom
<1>12. m \in p .. m
  BY <1>0
<1> QED BY <1>7, <1>11, <1>12

(* The parser reads a number as far as its digits go, and fails exactly    *)
(* where these come to too much; every reading of a number is a beginning  *)
(* of its digits.                                                          *)
LEMMA NumberFacts ==
  ASSUME Typed, NEW p \in 0 .. End, NEW radix \in Radixes
  PROVE  /\ Number(p, radix).error \in Errors \cup {None}
         /\ ~Failed(Number(p, radix)) =>
              /\ <<Number(p, radix).at, Number(p, radix).value>> \in Numbers(Given, p, radix)
              /\ Peek(Number(p, radix).at) \notin DigitsOf(radix)
         /\ \A z \in Numbers(Given, p, radix) :
              /\ z = <<z[1], z[2]>> /\ z[1] \in p + 1 .. End /\ z[2] \in 0 .. MaxU64
              /\ Peek(p) \in DigitsOf(radix)
              /\ Peek(z[1]) \notin DigitsOf(radix) => Number(p, radix) = Read(z[1], z[2])
<1> DEFINE S == DigitsOf(radix)
<1> PICK V, m, l : /\ V = Tally(p, radix) /\ m = Skip(p, S)
                   /\ l = (CHOOSE f : Scanned(p, Skip(p, S), radix, f))[m]
  OBVIOUS
<1>0. /\ p \in Nat /\ End \in Nat /\ m \in p .. End /\ m \in Nat /\ Peek(m) \notin S
      /\ \A i \in p .. m - 1 : Peek(i) \in S
      /\ MaxU64 \in Nat
  <2>1. "END" \notin S
    BY DigitFacts
  <2> HIDE DEF S
  <2> QED BY <2>1, SkipFacts, PeekFacts, CharactersAssumption
<1>1. \A z : z \in Numbers(Given, p, radix) <=> \E q \in p + 1 .. m : z = <<q, V[q]>> /\ V[q] <= MaxU64
  BY NumbersAre
<1>2. Tells(l, V[m]) /\ \A q \in p .. m : V[q] \in Nat
  BY ScanTells, TallyFacts
<1>3. Number(p, radix) = IF m = p THEN Expected(p)
                         ELSE IF l.overflowed THEN Failure(p, "NumberTooLarge")
                         ELSE Read(m, l.value)
  BY DEF Number, Scanned
<1>4. CASE m = p
  <2>1. Numbers(Given, p, radix) = {}
    <3>1. \A q : q \notin p + 1 .. m
      BY <1>0, <1>4
    <3> QED BY <1>1, <3>1
  <2> QED BY <1>3, <1>4, <2>1, ReadFacts
<1>5. CASE m # p
  <2>1. m \in p + 1 .. m /\ p \in p .. m - 1 /\ m \in p .. m
    BY <1>0, <1>5
  <2>2. ASSUME NEW z \in Numbers(Given, p, radix)
        PROVE  /\ z = <<z[1], z[2]>> /\ z[1] \in p + 1 .. End /\ z[2] \in 0 .. MaxU64
               /\ Peek(p) \in S
               /\ Peek(z[1]) \notin S => Number(p, radix) = Read(z[1], z[2])
    <3>1. PICK q \in p + 1 .. m : z = <<q, V[q]>> /\ V[q] <= MaxU64
      BY <1>1
    <3>2. q \in p + 1 .. End /\ q \in p .. m
      BY <1>0
    <3>3. V[q] \in 0 .. MaxU64
      BY <1>0, <1>2, <3>1, <3>2
    <3>4. ASSUME Peek(q) \notin S PROVE Number(p, radix) = Read(q, V[q])
      <4>1. q = m
        BY <1>0, <3>2, <3>4
      <4>2. l = [value |-> V[m], overflowed |-> FALSE]
        BY <1>0, <1>2, <3>1, <3>3, <4>1 DEF Tells
      <4>3. l.value = V[m] /\ ~l.overflowed
        BY <4>2
      <4>4. Number(p, radix) = Read(m, l.value)
        BY <1>3, <1>5, <4>3
      <4> QED BY <4>1, <4>3, <4>4
    <3> QED BY <1>0, <2>1, <3>1, <3>2, <3>3, <3>4
  <2>3. CASE l.overflowed
    <3>1. Number(p, radix) = Failure(p, "NumberTooLarge")
      BY <1>3, <1>5, <2>3
    <3>2. Number(p, radix).error \in Errors
      BY <3>1, ReadFacts DEF Errors
    <3> QED BY <2>2, <3>2, ReadFacts DEF Failed
  <2>4. CASE ~l.overflowed
    <3>1. Number(p, radix) = Read(m, l.value)
      BY <1>3, <1>5, <2>4
    <3>2. V[m] <= MaxU64 /\ l.value = V[m]
      <4>1. CASE V[m] > MaxU64
        <5>1. PICK n \in Nat : l = [value |-> n, overflowed |-> TRUE]
          BY <1>0, <1>2, <2>1, <4>1 DEF Tells
        <5> QED BY <2>4, <5>1
      <4>2. CASE V[m] <= MaxU64
        <5>1. l = [value |-> V[m], overflowed |-> FALSE]
          BY <1>0, <1>2, <2>1, <4>2 DEF Tells
        <5> QED BY <4>2, <5>1
      <4> QED BY <1>0, <1>2, <2>1, <4>1, <4>2
    <3>3. <<m, V[m]>> \in Numbers(Given, p, radix)
      BY <1>1, <2>1, <3>2
    <3> QED BY <1>0, <2>2, <3>1, <3>2, <3>3, ReadFacts
  <2> QED BY <2>3, <2>4
<1> QED BY <1>4, <1>5

(* The parser's answer `r` against the readings R from `p`, with values in *)
(* V: what it finds is a reading, and a reading that one of the characters *)
(* in `Ends` follows is what it finds.                                     *)
Finds(r, R, p, V, Ends) ==
  /\ r.error \in Errors \cup {None}
  /\ ~Failed(r) => <<r.at, r.value>> \in R
  /\ \A z \in R : z = <<z[1], z[2]>> /\ z[1] \in p + 1 .. End /\ z[2] \in V
  /\ \A z \in R : Peek(z[1]) \in Ends => r = Read(z[1], z[2])

(* What can stand at a position.                                           *)
Anything == CHAR \cup {"END"}

-----------------------------------------------------------------------------
(* A reading of a number takes at least one digit.                         *)
LEMMA NumberTyped ==
  ASSUME Typed, NEW p \in 0 .. End, NEW radix \in Radixes, NEW z \in Numbers(Given, p, radix)
  PROVE  z = <<z[1], z[2]>> /\ z[1] \in p + 1 .. End /\ z[2] \in Nat /\ z[2] \in Values
<1>1. z = <<z[1], z[2]>> /\ z[1] \in p + 1 .. End /\ z[2] \in 0 .. MaxU64
  BY NumberFacts
<1> QED BY <1>1, ValuesFacts DEF Values

(* A number, or none, and the bounds of a repetition.                      *)
Digitals10(p) == {<<p, None>>} \cup Numbers(Given, p, 10)

(* The same of a number that may be missing.                               *)
LEMMA TryNumberFacts ==
  ASSUME Typed, NEW p \in 0 .. End
  PROVE  /\ TryNumber(p).error \in Errors \cup {None}
         /\ ~Failed(TryNumber(p)) => <<TryNumber(p).at, TryNumber(p).value>> \in Digitals10(p)
         /\ \A z \in Digitals10(p) :
              /\ z = <<z[1], z[2]>> /\ z[1] \in p .. End
              /\ \/ z[2] = None /\ z[1] = p
                 \/ z[2] \in Nat /\ z[2] # None /\ z \in Numbers(Given, p, 10) /\ Peek(p) \in DIGIT
              /\ Peek(z[1]) \notin DIGIT => TryNumber(p) = Read(z[1], z[2])
<1>0. /\ 10 \in Radixes /\ DigitsOf(10) = DIGIT /\ None \notin Nat /\ MaxU64 \in Nat
      /\ p \in Nat /\ End \in Nat
  BY Digitals, CharactersAssumption, PeekFacts DEF Radixes
<1> PICK n, R : n = Number(p, 10) /\ R = Numbers(Given, p, 10)
  OBVIOUS
<1>1. /\ n.error \in Errors \cup {None}
      /\ ~Failed(n) => <<n.at, n.value>> \in R
      /\ \A z \in R : /\ z = <<z[1], z[2]>> /\ z[1] \in p + 1 .. End /\ z[2] \in 0 .. MaxU64
                      /\ Peek(p) \in DIGIT
                      /\ Peek(z[1]) \notin DIGIT => n = Read(z[1], z[2])
  BY <1>0, NumberFacts
<1>2. TryNumber(p) = IF Peek(p) \in DIGIT THEN n ELSE Read(p, None)
  BY DEF TryNumber
<1>3. ASSUME NEW z \in Digitals10(p)
      PROVE  /\ z = <<z[1], z[2]>> /\ z[1] \in p .. End
             /\ \/ z[2] = None /\ z[1] = p
                \/ z[2] \in Nat /\ z[2] # None /\ z \in R /\ Peek(p) \in DIGIT
             /\ Peek(z[1]) \notin DIGIT => TryNumber(p) = Read(z[1], z[2])
  <2>1. CASE z \in R
    <3>1. z[1] \in p .. End /\ z[2] \in Nat
      BY <1>0, <1>1, <2>1
    <3> QED BY <1>0, <1>1, <1>2, <2>1, <3>1
  <2>2. CASE z = <<p, None>>
    BY <1>0, <1>2, <2>2
  <2> QED BY <2>1, <2>2 DEF Digitals10
<1>4. TryNumber(p).error \in Errors \cup {None}
  BY <1>1, <1>2, ReadFacts
<1>5. ~Failed(TryNumber(p)) => <<TryNumber(p).at, TryNumber(p).value>> \in Digitals10(p)
  BY <1>1, <1>2, ReadFacts DEF Digitals10
<1> QED BY <1>3, <1>4, <1>5

(* The readings of bounds, one by one.                                     *)
LEMMA RepeatsAre ==
  ASSUME Typed, NEW p \in 0 .. End
  PROVE  \A z : z \in Repeats(Given, p) <=>
           \/ \E n \in Numbers(Given, p, 10) : z = <<n[1], [min |-> n[2], max |-> n[2]]>>
           \/ \E lo \in Digitals10(p) :
                /\ Peek(lo[1]) = "*"
                /\ \E hi \in Digitals10(lo[1] + 1) :
                     z = <<hi[1], [min |-> IF lo[2] = None THEN 0 ELSE lo[2], max |-> hi[2]]>>
<1>1. ASSUME NEW lo \in Digitals10(p)
      PROVE  \A q : q \in After(Given, {lo[1]}, "*") <=> Peek(lo[1]) = "*" /\ q = lo[1] + 1
  <2> DEFINE E == {lo[1]}
  <2>a. \A z \in Digitals10(p) :
              /\ z = <<z[1], z[2]>> /\ z[1] \in p .. End
              /\ \/ z[2] = None /\ z[1] = p
                 \/ z[2] \in Nat /\ z[2] # None /\ z \in Numbers(Given, p, 10) /\ Peek(p) \in DIGIT
              /\ Peek(z[1]) \notin DIGIT => TryNumber(p) = Read(z[1], z[2])
    BY TryNumberFacts
  <2>b. lo[1] \in p .. End
    BY <2>a
  <2>0. lo[1] \in p .. End /\ p \in Nat /\ End \in Nat
    BY <2>b, PeekFacts
  <2>1. \A q \in E : q \in Nat
    BY <2>0
  <2> HIDE DEF E
  <2>2. \A s : s \in After(Given, E, "*") <=> \E u \in E : s = u + 1 /\ Peek(u) = "*"
    BY <2>1, AfterFacts
  <2> QED BY <2>2 DEF E
<1> DEFINE M(lo) == UNION {Digitals10(q) : q \in After(Given, {lo[1]}, "*")}
<1>2. ASSUME NEW lo \in Digitals10(p)
      PROVE  \A hi : hi \in M(lo) <=> Peek(lo[1]) = "*" /\ hi \in Digitals10(lo[1] + 1)
  BY <1>1
<1>3. Repeats(Given, p) =
        {<<n[1], [min |-> n[2], max |-> n[2]]>> : n \in Numbers(Given, p, 10)}
          \cup UNION {{<<hi[1], [min |-> IF lo[2] = None THEN 0 ELSE lo[2], max |-> hi[2]]>> : hi \in M(lo)} :
                        lo \in Digitals10(p)}
  BY DEF Repeats, Digitals10
<1> HIDE DEF M
<1> QED BY <1>2, <1>3

(* And of the bounds of a repetition, which begin with a digit or an       *)
(* asterisk or are not there.                                              *)
LEMMA BoundsFacts ==
  ASSUME Typed, NEW p \in 0 .. End
  PROVE  /\ Bounds(p).error \in Errors \cup {None}
         /\ ~Failed(Bounds(p)) =>
              \/ Bounds(p) = Read(p, None)
              \/ Bounds(p).value # None /\ <<Bounds(p).at, Bounds(p).value>> \in Repeats(Given, p)
         /\ \A z \in Repeats(Given, p) :
              /\ z = <<z[1], z[2]>> /\ z[1] \in p + 1 .. End /\ z[2] # None
              /\ z[2].min \in Nat /\ z[2].max \in Nat \cup {None}
              /\ Peek(p) \in DIGIT \cup {"*"}
              /\ Peek(z[1]) \notin DIGIT \cup {"*"} => Bounds(p) = Read(z[1], z[2])
         /\ Peek(p) \notin DIGIT \cup {"*"} => Bounds(p) = Read(p, None)
<1>0. /\ None \notin Nat /\ None \notin [min : Nat, max : Nat \cup {None}] /\ p \in Nat /\ End \in Nat
      /\ "*" # "END" /\ "*" \notin DIGIT
  BY CharactersAssumption, PeekFacts DEF DIGIT
<1> PICK low : low = TryNumber(p)
  OBVIOUS
<1>1. /\ low.error \in Errors \cup {None}
      /\ ~Failed(low) => <<low.at, low.value>> \in Digitals10(p)
      /\ \A z \in Digitals10(p) :
              /\ z = <<z[1], z[2]>> /\ z[1] \in p .. End
              /\ \/ z[2] = None /\ z[1] = p
                 \/ z[2] \in Nat /\ z[2] # None /\ z \in Numbers(Given, p, 10) /\ Peek(p) \in DIGIT
              /\ Peek(z[1]) \notin DIGIT => low = Read(z[1], z[2])
  BY TryNumberFacts
<1>n. \A n \in Numbers(Given, p, 10) : n[1] \in p + 1 .. End /\ n[2] \in Nat
  <2>1. 10 \in Radixes
    BY DEF Radixes
  <2> TAKE n \in Numbers(Given, p, 10)
  <2> QED BY <2>1, NumberTyped
<1>2. \A z \in Digitals10(p) : Peek(z[1]) = "*" => z[1] + 1 \in p + 1 .. End
  <2> TAKE z \in Digitals10(p)
  <2>1. z[1] \in p .. End /\ z[1] \in Nat
    BY <1>0, <1>1
  <2>2. Peek(z[1]) = "*" => z[1] < End
    BY <1>0, <2>1, PeekFacts
  <2> QED BY <1>0, <2>1, <2>2
<1> DEFINE lowest(lo) == IF lo = None THEN 0 ELSE lo
<1>3. ASSUME NEW lo, NEW hi
      PROVE  [min |-> lo, max |-> hi].min = lo /\ [min |-> lo, max |-> hi].max = hi
  OBVIOUS
<1>4. ASSUME NEW lo \in Nat, NEW hi \in Nat \cup {None} PROVE [min |-> lo, max |-> hi] # None
  <2>1. [min |-> lo, max |-> hi] \in [min : Nat, max : Nat \cup {None}]
    OBVIOUS
  <2> QED BY <1>0, <2>1
<1>5. Bounds(p) = IF Failed(low) THEN low
                  ELSE IF Peek(low.at) = "*"
                  THEN AndThen(TryNumber(low.at + 1), LAMBDA max :
                         Read(max.at, [min |-> lowest(low.value), max |-> max.value]))
                  ELSE IF low.value = None THEN Read(p, None)
                  ELSE Read(low.at, [min |-> low.value, max |-> low.value])
  BY DEF Bounds, AndThen
<1>a. ASSUME NEW lo \in Digitals10(p), Peek(lo[1]) = "*"
      PROVE  /\ lo[1] + 1 \in 0 .. End
             /\ TryNumber(lo[1] + 1).error \in Errors \cup {None}
             /\ ~Failed(TryNumber(lo[1] + 1)) =>
                  <<TryNumber(lo[1] + 1).at, TryNumber(lo[1] + 1).value>> \in Digitals10(lo[1] + 1)
             /\ \A hi \in Digitals10(lo[1] + 1) :
                  /\ hi[1] \in p + 1 .. End /\ hi[2] \in Nat \cup {None}
                  /\ Peek(hi[1]) \notin DIGIT => TryNumber(lo[1] + 1) = Read(hi[1], hi[2])
  <2>1. lo[1] + 1 \in p + 1 .. End
    BY <1>2, <1>a
  <2>2. lo[1] + 1 \in 0 .. End
    BY <1>0, <2>1
  <2>3. \A q \in lo[1] + 1 .. End : q \in p + 1 .. End
    BY <1>0, <2>1
  <2>4. ASSUME NEW hi \in Digitals10(lo[1] + 1)
        PROVE  /\ hi[1] \in lo[1] + 1 .. End /\ hi[2] \in Nat \cup {None}
               /\ Peek(hi[1]) \notin DIGIT => TryNumber(lo[1] + 1) = Read(hi[1], hi[2])
    BY <2>2, TryNumberFacts
  <2> QED BY <2>2, <2>3, <2>4, TryNumberFacts
<1>b. ASSUME NEW v \in Nat \cup {None} PROVE lowest(v) \in Nat
  BY <1>b
<1>c. \A z \in Digitals10(p) : z[2] \in Nat \cup {None}
  BY <1>1
<1>6. Bounds(p).error \in Errors \cup {None} /\
      (~Failed(Bounds(p)) =>
              \/ Bounds(p) = Read(p, None)
              \/ Bounds(p).value # None /\ <<Bounds(p).at, Bounds(p).value>> \in Repeats(Given, p))
  <2>1. CASE Failed(low)
    BY <1>1, <1>5, <2>1
  <2>2. CASE ~Failed(low) /\ Peek(low.at) = "*"
    <3> PICK lo, r : lo = <<low.at, low.value>> /\ r = TryNumber(low.at + 1)
      OBVIOUS
    <3>1. lo \in Digitals10(p) /\ lo[1] = low.at /\ lo[2] = low.value /\ Peek(lo[1]) = "*"
      BY <1>1, <2>2
    <3>2. Bounds(p) = IF Failed(r) THEN r ELSE Read(r.at, [min |-> lowest(low.value), max |-> r.value])
      BY <1>5, <2>2 DEF AndThen
    <3>3. CASE Failed(r)
      BY <1>a, <3>1, <3>2, <3>3
    <3>4. CASE ~Failed(r)
      <4> PICK hi, b : hi = <<r.at, r.value>> /\ b = [min |-> lowest(low.value), max |-> r.value]
        OBVIOUS
      <4>1. hi \in Digitals10(lo[1] + 1) /\ hi[1] = r.at /\ hi[2] = r.value
        BY <1>a, <3>1, <3>4
      <4>2. Bounds(p).error = None /\ Bounds(p).at = r.at /\ Bounds(p).value = b
        BY <3>2, <3>4, ReadFacts
      <4>3. lowest(low.value) \in Nat /\ r.value \in Nat \cup {None}
        BY <1>a, <1>b, <1>c, <3>1, <4>1
      <4>4. b # None
        BY <1>4, <4>3
      <4>5. <<r.at, b>> \in Repeats(Given, p)
        <5>1. <<r.at, b>> = <<hi[1], [min |-> IF lo[2] = None THEN 0 ELSE lo[2], max |-> hi[2]]>>
          BY <3>1, <4>1
        <5> QED BY <3>1, <4>1, <5>1, RepeatsAre
      <4> QED BY <4>2, <4>4, <4>5
    <3> QED BY <3>3, <3>4
  <2>3. CASE ~Failed(low) /\ Peek(low.at) # "*" /\ low.value = None
    BY <1>5, <2>3, ReadFacts
  <2>4. CASE ~Failed(low) /\ Peek(low.at) # "*" /\ low.value # None
    <3> PICK lo, b : lo = <<low.at, low.value>> /\ b = [min |-> low.value, max |-> low.value]
      OBVIOUS
    <3>1. lo \in Digitals10(p) /\ lo[1] = low.at /\ lo[2] = low.value
      BY <1>1, <2>4
    <3>2. lo[2] \in Nat /\ lo \in Numbers(Given, p, 10)
      BY <1>1, <2>4, <3>1
    <3>3. Bounds(p).error = None /\ Bounds(p).at = low.at /\ Bounds(p).value = b
      BY <1>5, <2>4, ReadFacts
    <3>4. b # None
      BY <1>4, <3>1, <3>2
    <3>5. <<low.at, b>> \in Repeats(Given, p)
      <4>1. <<low.at, b>> = <<lo[1], [min |-> lo[2], max |-> lo[2]]>>
        BY <3>1
      <4> QED BY <3>2, <4>1, RepeatsAre
    <3> QED BY <3>3, <3>4, <3>5
  <2> QED BY <2>1, <2>2, <2>3, <2>4
<1>7. ASSUME NEW z \in Repeats(Given, p)
      PROVE  /\ z = <<z[1], z[2]>> /\ z[1] \in p + 1 .. End /\ z[2] # None
             /\ z[2].min \in Nat /\ z[2].max \in Nat \cup {None}
             /\ Peek(p) \in DIGIT \cup {"*"}
             /\ Peek(z[1]) \notin DIGIT \cup {"*"} => Bounds(p) = Read(z[1], z[2])
  <2>1. CASE \E n \in Numbers(Given, p, 10) : z = <<n[1], [min |-> n[2], max |-> n[2]]>>
    <3>1. PICK n \in Numbers(Given, p, 10) : z = <<n[1], [min |-> n[2], max |-> n[2]]>>
      BY <2>1
    <3>2. n \in Digitals10(p)
      BY DEF Digitals10
    <3>3. n[1] \in p + 1 .. End /\ n[2] \in Nat
      BY <1>n
    <3>4. Peek(p) \in DIGIT /\ n[2] # None
      BY <1>0, <1>1, <3>2, <3>3
    <3> PICK b : b = [min |-> n[2], max |-> n[2]]
      OBVIOUS
    <3>5. b # None /\ b.min \in Nat /\ b.max \in Nat \cup {None} /\ z[1] = n[1] /\ z[2] = b /\ z = <<z[1], z[2]>>
      BY <1>4, <3>1, <3>3
    <3>6. ASSUME Peek(z[1]) \notin DIGIT \cup {"*"} PROVE Bounds(p) = Read(z[1], z[2])
      <4>1. low = Read(n[1], n[2])
        BY <1>1, <3>2, <3>5, <3>6
      <4>2. ~Failed(low) /\ low.at = n[1] /\ low.value = n[2]
        BY <4>1, ReadFacts
      <4> QED BY <1>5, <3>4, <3>5, <3>6, <4>2
    <3> QED BY <3>3, <3>4, <3>5, <3>6
  <2>2. CASE \E lo \in Digitals10(p) :
                /\ Peek(lo[1]) = "*"
                /\ \E hi \in Digitals10(lo[1] + 1) :
                     z = <<hi[1], [min |-> IF lo[2] = None THEN 0 ELSE lo[2], max |-> hi[2]]>>
    <3>1. PICK lo \in Digitals10(p) :
                /\ Peek(lo[1]) = "*"
                /\ \E hi \in Digitals10(lo[1] + 1) :
                     z = <<hi[1], [min |-> IF lo[2] = None THEN 0 ELSE lo[2], max |-> hi[2]]>>
      BY <2>2
    <3>2. PICK hi \in Digitals10(lo[1] + 1) : z = <<hi[1], [min |-> lowest(lo[2]), max |-> hi[2]]>>
      BY <3>1
    <3>3. low = Read(lo[1], lo[2])
      BY <1>0, <1>1, <3>1
    <3>4. /\ hi[1] \in p + 1 .. End /\ hi[2] \in Nat \cup {None}
          /\ Peek(hi[1]) \notin DIGIT => TryNumber(lo[1] + 1) = Read(hi[1], hi[2])
      BY <1>a, <3>1
    <3>5. lowest(lo[2]) \in Nat
      BY <1>b, <1>c
    <3> PICK b : b = [min |-> lowest(lo[2]), max |-> hi[2]]
      OBVIOUS
    <3> HIDE DEF lowest
    <3>6. b # None /\ b.min \in Nat /\ b.max \in Nat \cup {None} /\ z[1] = hi[1] /\ z[2] = b /\ z = <<z[1], z[2]>>
      BY <1>4, <3>2, <3>4, <3>5
    <3>7. Peek(p) \in DIGIT \cup {"*"}
      <4>1. (z[2] = None => TRUE) /\ (lo[1] = p \/ Peek(p) \in DIGIT)
        BY <1>1
      <4> QED BY <3>1, <4>1
    <3>8. ASSUME Peek(z[1]) \notin DIGIT \cup {"*"} PROVE Bounds(p) = Read(z[1], z[2])
      <4>1. ~Failed(low) /\ low.at = lo[1] /\ low.value = lo[2]
        BY <3>3, ReadFacts
      <4> PICK r : r = TryNumber(lo[1] + 1)
        OBVIOUS
      <4>2. r = Read(hi[1], hi[2])
        BY <3>4, <3>6, <3>8
      <4>3. ~Failed(r) /\ r.at = hi[1] /\ r.value = hi[2]
        BY <4>2, ReadFacts
      <4>4. Bounds(p) = IF Failed(r) THEN r ELSE Read(r.at, [min |-> lowest(low.value), max |-> r.value])
        BY <1>5, <3>1, <4>1 DEF AndThen
      <4> QED BY <3>6, <4>1, <4>3, <4>4
    <3> QED BY <3>4, <3>6, <3>7, <3>8
  <2> QED BY <2>1, <2>2, RepeatsAre
<1>8. ASSUME Peek(p) \notin DIGIT \cup {"*"} PROVE Bounds(p) = Read(p, None)
  <2>1. low = Read(p, None)
    BY <1>8 DEF TryNumber
  <2>2. ~Failed(low) /\ low.at = p /\ low.value = None
    BY <2>1, ReadFacts
  <2> QED BY <1>5, <1>8, <2>2
<1> HIDE DEF lowest
<1> QED BY <1>6, <1>7, <1>8

(* Bounds are numbers that fit.                                            *)
LEMMA BoundsFit ==
  ASSUME Typed, NEW p \in 0 .. End, NEW z \in Repeats(Given, p)
  PROVE  z[2].min \in Values /\ z[2].max \in Values \cup {None}
<1>0. 10 \in Radixes /\ 0 \in Values /\ p \in Nat /\ End \in Nat /\ None \notin Values
  BY CharactersAssumption, PeekFacts, ValuesFacts DEF Radixes, Values
<1>1. \A q \in 0 .. End : \A n \in Numbers(Given, q, 10) : n[2] \in Values
  BY <1>0, NumberTyped
<1>2. \A q \in 0 .. End : \A n \in Digitals10(q) : n[2] \in Values \cup {None}
  BY <1>1 DEF Digitals10
<1>3. CASE \E n \in Numbers(Given, p, 10) : z = <<n[1], [min |-> n[2], max |-> n[2]]>>
  <2>1. PICK n \in Numbers(Given, p, 10) : z = <<n[1], [min |-> n[2], max |-> n[2]]>>
    BY <1>3
  <2>2. n[2] \in Values
    BY <1>1
  <2> QED BY <2>1, <2>2
<1>4. ASSUME NEW lo \in Digitals10(p), Peek(lo[1]) = "*", NEW hi \in Digitals10(lo[1] + 1),
             z = <<hi[1], [min |-> IF lo[2] = None THEN 0 ELSE lo[2], max |-> hi[2]]>>
      PROVE  z[2].min \in Values /\ z[2].max \in Values \cup {None}
  <2>1. lo[1] \in p .. End
    BY TryNumberFacts
  <2>2. lo[1] < End
    BY <1>0, <1>4, <2>1, PeekFacts
  <2>3. lo[1] + 1 \in 0 .. End
    BY <1>0, <2>1, <2>2
  <2>4. lo[2] \in Values \cup {None} /\ hi[2] \in Values \cup {None}
    BY <1>2, <2>3
  <2> QED BY <1>0, <1>4, <2>4
<1> QED BY <1>3, <1>4, RepeatsAre

(* Where a given character is, its run is begun after it.                  *)
LEMMA AfterOne ==
  ASSUME Typed, NEW p \in 0 .. End, NEW c \in CHAR
  PROVE  /\ After(Given, {p}, c) = IF Peek(p) = c THEN {p + 1} ELSE {}
         /\ Peek(p) = c => p + 1 \in 0 .. End /\ p + 1 \in p + 1 .. End
<1>0. p \in Nat /\ End \in Nat /\ c # "END"
  <2>1. "END" \notin CHAR
    BY Letters DEF CHAR, VCHAR, DIGIT, WSP
  <2> QED BY <2>1, PeekFacts
<1>1. \A s : s \in After(Given, {p}, c) <=> s = p + 1 /\ Peek(p) = c
  <2> DEFINE E == {p}
  <2>1. \A q \in E : q \in Nat
    BY <1>0
  <2> HIDE DEF E
  <2>2. \A s : s \in After(Given, E, c) <=> \E u \in E : s = u + 1 /\ Peek(u) = c
    BY <1>0, <2>1, AfterFacts
  <2> QED BY <2>2 DEF E
<1>2. Peek(p) = c => p < End
  BY <1>0, PeekFacts
<1> QED BY <1>0, <1>1, <1>2

(* What stands between delimiters is found, as far as the first that ends  *)
(* it.                                                                     *)
LEMMA DelimitedFacts ==
  ASSUME Typed, NEW p \in 0 .. End, NEW open \in CHAR, NEW close \in CHAR, NEW chars, chars \subseteq CHAR,
         close \notin chars, Peek(p) = open
  PROVE  LET q == Skip(p + 1, chars)
         IN  /\ Delimited(Given, p, open, chars, close)
                  = IF Peek(q) = close THEN {<<q + 1, TextFrom(p + 1, q)>>} ELSE {}
             /\ Peek(q) = close => q + 1 \in p + 1 .. End /\ TextFrom(p + 1, q) \in Seq(chars)
<1>0. "END" \notin chars /\ close # "END" /\ p \in Nat /\ End \in Nat
  <2>1. "END" \notin CHAR
    BY Letters DEF CHAR, VCHAR, DIGIT, WSP
  <2> QED BY <2>1, PeekFacts
<1>1. After(Given, {p}, open) = {p + 1} /\ p + 1 \in 0 .. End /\ p + 1 \in Nat
  <2>1. After(Given, {p}, open) = IF Peek(p) = open THEN {p + 1} ELSE {}
    BY AfterOne
  <2>2. Peek(p) = open => p + 1 \in 0 .. End /\ p + 1 \in p + 1 .. End
    BY AfterOne
  <2>3. p + 1 \in 0 .. End
    BY <2>2
  <2> QED BY <1>0, <2>1, <2>3
<1> PICK q, R : q = Skip(p + 1, chars) /\ R = Runs(Given, p + 1, chars)
  OBVIOUS
<1>2. q \in p + 1 .. End /\ R = p + 1 .. q /\ \A i \in p + 1 .. q - 1 : Peek(i) \in chars
  BY <1>0, <1>1, SkipFacts
<1>3. \A s : s \in After(Given, R, close) <=> \E u \in R : s = u + 1 /\ Peek(u) = close
  <2>1. \A u \in R : u \in Nat
    BY <1>1, <1>2
  <2> QED BY <1>0, <2>1, AfterFacts
<1>4. \A u \in R : Peek(u) = close => u = q
  BY <1>0, <1>2
<1>5. q \in R /\ q \in Nat
  BY <1>1, <1>2
<1>6. After(Given, R, close) = IF Peek(q) = close THEN {q + 1} ELSE {}
  BY <1>3, <1>4, <1>5
<1>7. TextFrom(p + 1, q) = Piece(Given, p + 1, q) /\ Piece(Given, p + 1, q) \in Seq(chars)
  BY <1>1, <1>2, PieceFacts, PieceOf
<1>8. Delimited(Given, p, open, chars, close) = {<<s, Piece(Given, p + 1, s - 1)>> : s \in After(Given, R, close)}
  BY <1>1 DEF Delimited
<1>9. (q + 1) - 1 = q
  BY <1>5
<1>10. Peek(q) = close => q < End
  BY <1>0, <1>5, PeekFacts
<1>11. Peek(q) = close => q + 1 \in p + 1 .. End
  BY <1>0, <1>2, <1>10
<1>12. Delimited(Given, p, open, chars, close) = IF Peek(q) = close THEN {<<q + 1, TextFrom(p + 1, q)>>} ELSE {}
  <2>1. CASE Peek(q) = close
    BY <1>6, <1>7, <1>8, <1>9, <2>1
  <2>2. CASE Peek(q) # close
    BY <1>6, <1>8, <2>2
  <2> QED BY <2>1, <2>2
<1> QED BY <1>7, <1>11, <1>12

(* Nothing is delimited that does not begin with its delimiter.            *)
LEMMA NotDelimited ==
  ASSUME Typed, NEW p \in 0 .. End, NEW open \in CHAR, NEW close, NEW chars, Peek(p) # open
  PROVE  Delimited(Given, p, open, chars, close) = {}
<1>1. After(Given, {p}, open) = {}
  BY AfterOne
<1> QED BY <1>1 DEF Delimited

(* References, strings, prose and numbers are elements.                    *)
LEMMA LeavesAre ==
  /\ \A n \in Names : Ref(n) \in Trees
  /\ \A n \in Seq(PROSE) : ProseVal(n) \in Trees
  /\ \A v \in Seq(QUOTABLE), c \in BOOLEAN : Str(v, c) \in Trees
  /\ \A v \in Seq(Values) : v # << >> => Num(v) \in Trees
  /\ \A lo, hi \in Values : Span(lo, hi) \in Trees
<1>1. Leaves \subseteq Trees
  BY TreesOver DEF Over
<1>2. /\ \A n \in Names : Ref(n) \in Leaves
      /\ \A n \in Seq(PROSE) : ProseVal(n) \in Leaves
      /\ \A v \in Seq(QUOTABLE), c \in BOOLEAN : Str(v, c) \in Leaves
      /\ \A v \in Seq(Values) : v # << >> => Num(v) \in Leaves
      /\ \A lo, hi \in Values : Span(lo, hi) \in Leaves
  BY DEF Leaves
<1> QED BY <1>1, <1>2

(* The parser reads a string up to its first quotation mark, which is the  *)
(* only way to read it.                                                    *)
LEMMA QuotedFacts ==
  ASSUME Typed, NEW p \in 0 .. End, NEW cs \in BOOLEAN
  PROVE  /\ Finds(QuotedString(p, cs), Quoted(Given, p, cs), p, Trees, Anything)
         /\ Peek(p) # "DQUOTE" => Quoted(Given, p, cs) = {}
<1>0. "DQUOTE" \in CHAR /\ QUOTABLE \subseteq CHAR /\ "DQUOTE" \notin QUOTABLE
  BY DEF CHAR, VCHAR, QUOTABLE, WSP
<1> PICK q, D : q = Skip(p + 1, QUOTABLE) /\ D = Delimited(Given, p, "DQUOTE", QUOTABLE, "DQUOTE")
  OBVIOUS
<1>1. Quoted(Given, p, cs) = {<<d[1], Str(d[2], cs)>> : d \in D}
  BY DEF Quoted
<1>2. CASE Peek(p) # "DQUOTE"
  <2>1. D = {}
    BY <1>0, <1>2, NotDelimited
  <2>2. QuotedString(p, cs) = Expected(p)
    BY <1>2 DEF QuotedString
  <2> QED BY <1>1, <2>1, <2>2, ReadFacts DEF Finds
<1>3. CASE Peek(p) = "DQUOTE"
  <2>1. /\ D = IF Peek(q) = "DQUOTE" THEN {<<q + 1, TextFrom(p + 1, q)>>} ELSE {}
        /\ Peek(q) = "DQUOTE" => q + 1 \in p + 1 .. End /\ TextFrom(p + 1, q) \in Seq(QUOTABLE)
    BY <1>0, <1>3, DelimitedFacts
  <2>2. CASE Peek(q) # "DQUOTE"
    <3>1. QuotedString(p, cs) = Expected(q)
      BY <1>3, <2>2 DEF QuotedString
    <3> QED BY <1>1, <1>3, <2>1, <2>2, <3>1, ReadFacts DEF Finds
  <2>3. CASE Peek(q) = "DQUOTE"
    <3> PICK v : v = Str(TextFrom(p + 1, q), cs)
      OBVIOUS
    <3>1. QuotedString(p, cs) = Read(q + 1, v)
      BY <1>3, <2>3 DEF QuotedString
    <3>a. PICK d : d = <<q + 1, TextFrom(p + 1, q)>>
      OBVIOUS
    <3>b. D = {d}
      BY <2>1, <2>3, <3>a
    <3>c. Quoted(Given, p, cs) = {<<d[1], Str(d[2], cs)>>}
      BY <1>1, <3>b
    <3>2. Quoted(Given, p, cs) = {<<q + 1, v>>}
      BY <3>a, <3>c
    <3>3. v \in Trees
      BY <2>1, <2>3, LeavesAre
    <3>4. q + 1 \in p + 1 .. End
      BY <2>1, <2>3
    <3> QED BY <1>3, <3>1, <3>2, <3>3, <3>4, ReadFacts DEF Finds
  <2> QED BY <2>2, <2>3
<1> QED BY <1>2, <1>3

(* And prose up to its first bracket.                                      *)
LEMMA ProseFacts ==
  ASSUME Typed, NEW p \in 0 .. End
  PROVE  /\ Peek(p) = "<" => Finds(ProseValue(p), Proses(Given, p), p, Trees, Anything)
         /\ Peek(p) # "<" => Proses(Given, p) = {}
<1>0. "<" \in CHAR /\ ">" \in CHAR /\ PROSE \subseteq CHAR /\ ">" \notin PROSE
  BY DEF CHAR, VCHAR, PROSE, WSP
<1> PICK q, D : q = Skip(p + 1, PROSE) /\ D = Delimited(Given, p, "<", PROSE, ">")
  OBVIOUS
<1>1. Proses(Given, p) = {<<d[1], ProseVal(d[2])>> : d \in D}
  BY DEF Proses
<1>2. CASE Peek(p) # "<"
  <2>1. D = {}
    BY <1>0, <1>2, NotDelimited
  <2> QED BY <1>1, <1>2, <2>1
<1>3. CASE Peek(p) = "<"
  <2>1. /\ D = IF Peek(q) = ">" THEN {<<q + 1, TextFrom(p + 1, q)>>} ELSE {}
        /\ Peek(q) = ">" => q + 1 \in p + 1 .. End /\ TextFrom(p + 1, q) \in Seq(PROSE)
    BY <1>0, <1>3, DelimitedFacts
  <2>2. CASE Peek(q) # ">"
    <3>1. ProseValue(p) = Expected(q)
      BY <2>2 DEF ProseValue
    <3> QED BY <1>1, <1>3, <2>1, <2>2, <3>1, ReadFacts DEF Finds
  <2>3. CASE Peek(q) = ">"
    <3> PICK v : v = ProseVal(TextFrom(p + 1, q))
      OBVIOUS
    <3>1. ProseValue(p) = Read(q + 1, v)
      BY <2>3 DEF ProseValue
    <3>a. PICK d : d = <<q + 1, TextFrom(p + 1, q)>>
      OBVIOUS
    <3>b. D = {d}
      BY <2>1, <2>3, <3>a
    <3>c. Proses(Given, p) = {<<d[1], ProseVal(d[2])>>}
      BY <1>1, <3>b
    <3>2. Proses(Given, p) = {<<q + 1, v>>}
      BY <3>a, <3>c
    <3>3. v \in Trees
      BY <2>1, <2>3, LeavesAre
    <3>4. q + 1 \in p + 1 .. End
      BY <2>1, <2>3
    <3> QED BY <1>3, <3>1, <3>2, <3>3, <3>4, ReadFacts DEF Finds
  <2> QED BY <2>2, <2>3
<1> QED BY <1>2, <1>3

(* Where a number was read, the next begins after a dot.                   *)
LEMMA AfterNumber ==
  ASSUME Typed, NEW p \in 0 .. End, NEW radix \in Radixes, NEW n \in Numbers(Given, p, radix), NEW c \in CHAR
  PROVE  /\ After(Given, {n[1]}, c) = IF Peek(n[1]) = c THEN {n[1] + 1} ELSE {}
         /\ Peek(n[1]) = c => n[1] + 1 \in p + 1 .. End /\ n[1] + 1 \in 0 .. End
<1>1. n[1] \in p + 1 .. End /\ p \in Nat /\ End \in Nat
  BY NumberTyped, PeekFacts
<1>2. PICK m \in 0 .. End : m = n[1]
  BY <1>1
<1>3. After(Given, {m}, c) = IF Peek(m) = c THEN {m + 1} ELSE {}
  BY AfterOne
<1>4. Peek(m) = c => m + 1 \in 0 .. End /\ m + 1 \in m + 1 .. End
  BY AfterOne
<1> QED BY <1>1, <1>2, <1>3, <1>4

(* A number the parser read is a reading of one.                           *)
LEMMA NumberRead ==
  ASSUME Typed, NEW p \in 0 .. End, NEW radix \in Radixes, ~Failed(Number(p, radix))
  PROVE  <<Number(p, radix).at, Number(p, radix).value>> \in Numbers(Given, p, radix)
  BY NumberFacts


(* The parser's loop over numbers with dots between them, one number at a  *)
(* time.                                                                   *)
LEMMA DottedNumbersIs ==
  ASSUME Typed, NEW radix \in Radixes
  PROVE  \A p \in 0 .. End :
           DottedNumbers(p, radix) =
             IF Failed(Number(p, radix)) THEN Number(p, radix)
             ELSE IF Peek(Number(p, radix).at) # "." THEN Read(Number(p, radix).at, <<Number(p, radix).value>>)
             ELSE IF Failed(DottedNumbers(Number(p, radix).at + 1, radix))
             THEN DottedNumbers(Number(p, radix).at + 1, radix)
             ELSE Read(DottedNumbers(Number(p, radix).at + 1, radix).at,
                       <<Number(p, radix).value>> \o DottedNumbers(Number(p, radix).at + 1, radix).value)
<1> DEFINE E(f, q) == IF Failed(Number(q, radix)) THEN Number(q, radix)
                      ELSE IF Peek(Number(q, radix).at) # "." THEN Read(Number(q, radix).at, <<Number(q, radix).value>>)
                      ELSE IF Failed(f[Number(q, radix).at + 1]) THEN f[Number(q, radix).at + 1]
                      ELSE Read(f[Number(q, radix).at + 1].at,
                                <<Number(q, radix).value>> \o f[Number(q, radix).at + 1].value)
           P(f) == f = [q \in 0 .. Len(src) |-> E(f, q)]
           F == CHOOSE f : P(f)
           A == {m \in 0 .. End + 1 : \E g : \A q \in m .. End : g[q] = E(g, q)}
<1>0. End \in Nat /\ End = Len(src)
  BY PeekFacts DEF End
<1>a. ASSUME NEW f, NEW g, NEW q \in 0 .. End, \A s \in q + 1 .. End : f[s] = g[s]
      PROVE  E(f, q) = E(g, q)
  <2> PICK n : n = Number(q, radix)
    OBVIOUS
  <2>1. CASE Failed(n) \/ Peek(n.at) # "."
    BY <2>1
  <2>2. CASE ~Failed(n) /\ Peek(n.at) = "."
    <3> PICK z : z = <<n.at, n.value>>
      OBVIOUS
    <3>1. z \in Numbers(Given, q, radix) /\ z[1] = n.at
      BY <2>2, NumberRead
    <3>2. "." \in CHAR
      BY DEF CHAR, VCHAR
    <3>3. n.at + 1 \in q + 1 .. End
      BY <2>2, <3>1, <3>2, AfterNumber
    <3>4. f[n.at + 1] = g[n.at + 1]
      BY <1>a, <3>3
    <3> QED BY <3>4
  <2> QED BY <2>1, <2>2
<1>b. \A p : DottedNumbers(p, radix) = F[p]
  BY DEF DottedNumbers, AndThen
<1> HIDE DEF E
<1>1. End + 1 \in A
  <2>1. \A q : q \notin End + 1 .. End
    BY <1>0
  <2>2. End + 1 \in 0 .. End + 1
    BY <1>0
  <2> QED BY <2>1, <2>2
<1>2. ASSUME NEW m \in 0 .. End + 1, m + 1 \in A, m < End + 1 PROVE m \in A
  <2>1. PICK g : \A q \in m + 1 .. End : g[q] = E(g, q)
    BY <1>2
  <2> DEFINE f == [q \in m .. End |-> IF q = m THEN E(g, m) ELSE g[q]]
  <2>2. ASSUME NEW q \in m .. End PROVE f[q] = E(f, q)
    <3>1. q \in 0 .. End /\ \A s \in q + 1 .. End : s \in m .. End /\ s # m
      BY <1>0
    <3>2. \A s \in q + 1 .. End : f[s] = g[s]
      BY <3>1
    <3>3. q # m => q \in m + 1 .. End
      BY <1>0, <3>1
    <3>4. f[q] = E(g, q)
      BY <2>1, <3>3
    <3> HIDE DEF f
    <3>5. E(f, q) = E(g, q)
      BY <1>a, <3>1, <3>2
    <3> QED BY <3>4, <3>5
  <2> HIDE DEF f
  <2> QED BY <1>0, <2>2
<1>3. \A m \in 0 .. End + 1 : m \in A
  <2> HIDE DEF A
  <2>1. End + 1 \in Nat
    BY <1>0
  <2> QED BY <1>1, <1>2, <2>1, CountBack
<1>4. PICK g : \A q \in 0 .. End : g[q] = E(g, q)
  <2>1. 0 \in 0 .. End + 1
    BY <1>0
  <2>2. 0 \in A
    BY <1>3, <2>1
  <2> QED BY <2>2
<1> DEFINE r == [q \in 0 .. End |-> g[q]]
<1>5. ASSUME NEW q \in 0 .. End PROVE r[q] = E(r, q)
  <2>1. \A s \in q + 1 .. End : s \in 0 .. End
    BY <1>0
  <2>2. \A s \in q + 1 .. End : r[s] = g[s]
    BY <2>1
  <2>3. r[q] = E(g, q)
    BY <1>4
  <2> HIDE DEF r
  <2>4. E(r, q) = E(g, q)
    BY <1>a, <2>2
  <2> QED BY <2>3, <2>4
<1>6. P(r)
  <2>1. r = [q \in 0 .. End |-> r[q]]
    OBVIOUS
  <2> HIDE DEF r
  <2>2. r = [q \in 0 .. End |-> E(r, q)]
    BY <1>5, <2>1
  <2> QED BY <1>0, <2>2
<1>7. P(F)
  <2> HIDE DEF P, r
  <2> QED BY <1>6
<1> HIDE DEF F
<1>8. F = [q \in 0 .. End |-> E(F, q)]
  BY <1>0, <1>7
<1>9. ASSUME NEW p \in 0 .. End PROVE F[p] = E(F, p)
  BY <1>8
<1> QED BY <1>b, <1>9 DEF E


(* The readings of numbers with dots between them, one number at a time.   *)
LEMMA DottedIs ==
  ASSUME Typed, NEW radix \in Radixes
  PROVE  \E D : /\ \A p : Dotted(Given, p, radix) = D[p]
                /\ \A p \in 0 .. End :
                     D[p] = UNION {{<<n[1], <<n[2]>>>>}
                                     \cup {<<m[1], <<n[2]>> \o m[2]>> :
                                             m \in UNION {D[s] : s \in After(Given, {n[1]}, ".")}} :
                                   n \in Numbers(Given, p, radix)}
<1> DEFINE E(f, q) == UNION {{<<n[1], <<n[2]>>>>}
                               \cup {<<m[1], <<n[2]>> \o m[2]>> : m \in UNION {f[s] : s \in After(Given, {n[1]}, ".")}} :
                             n \in Numbers(Given, q, radix)}
           P(f) == f = [q \in 0 .. Len(Given.text) |-> E(f, q)]
           F == CHOOSE f : P(f)
           A == {m \in 0 .. End + 1 : \E g : \A q \in m .. End : g[q] = E(g, q)}
<1>0. End \in Nat /\ End = Len(Given.text)
  BY PeekFacts DEF End
<1>a. ASSUME NEW f, NEW g, NEW q \in 0 .. End, \A s \in q + 1 .. End : f[s] = g[s]
      PROVE  E(f, q) = E(g, q)
  <2>0. "." \in CHAR
    BY DEF CHAR, VCHAR
  <2>1. ASSUME NEW n \in Numbers(Given, q, radix)
        PROVE  {f[s] : s \in After(Given, {n[1]}, ".")} = {g[s] : s \in After(Given, {n[1]}, ".")}
    <3>1. \A s \in After(Given, {n[1]}, ".") : s \in q + 1 .. End
      BY <2>0, AfterNumber
    <3> QED BY <1>a, <3>1
  <2> QED BY <2>1
<1>b. \A p : Dotted(Given, p, radix) = F[p]
  BY DEF Dotted
<1> HIDE DEF E
<1>1. End + 1 \in A
  <2>1. \A q : q \notin End + 1 .. End
    BY <1>0
  <2>2. End + 1 \in 0 .. End + 1
    BY <1>0
  <2> QED BY <2>1, <2>2
<1>2. ASSUME NEW m \in 0 .. End + 1, m + 1 \in A, m < End + 1 PROVE m \in A
  <2>1. PICK g : \A q \in m + 1 .. End : g[q] = E(g, q)
    BY <1>2
  <2> DEFINE f == [q \in m .. End |-> IF q = m THEN E(g, m) ELSE g[q]]
  <2>2. ASSUME NEW q \in m .. End PROVE f[q] = E(f, q)
    <3>1. q \in 0 .. End /\ \A s \in q + 1 .. End : s \in m .. End /\ s # m
      BY <1>0
    <3>2. \A s \in q + 1 .. End : f[s] = g[s]
      BY <3>1
    <3>3. q # m => q \in m + 1 .. End
      BY <1>0, <3>1
    <3>4. f[q] = E(g, q)
      BY <2>1, <3>3
    <3> HIDE DEF f
    <3>5. E(f, q) = E(g, q)
      BY <1>a, <3>1, <3>2
    <3> QED BY <3>4, <3>5
  <2> HIDE DEF f
  <2> QED BY <1>0, <2>2
<1>3. \A m \in 0 .. End + 1 : m \in A
  <2> HIDE DEF A
  <2>1. End + 1 \in Nat
    BY <1>0
  <2> QED BY <1>1, <1>2, <2>1, CountBack
<1>4. PICK g : \A q \in 0 .. End : g[q] = E(g, q)
  <2>1. 0 \in 0 .. End + 1
    BY <1>0
  <2>2. 0 \in A
    BY <1>3, <2>1
  <2> QED BY <2>2
<1> DEFINE r == [q \in 0 .. End |-> g[q]]
<1>5. ASSUME NEW q \in 0 .. End PROVE r[q] = E(r, q)
  <2>1. \A s \in q + 1 .. End : s \in 0 .. End
    BY <1>0
  <2>2. \A s \in q + 1 .. End : r[s] = g[s]
    BY <2>1
  <2>3. r[q] = E(g, q)
    BY <1>4
  <2> HIDE DEF r
  <2>4. E(r, q) = E(g, q)
    BY <1>a, <2>2
  <2> QED BY <2>3, <2>4
<1>6. P(r)
  <2>1. r = [q \in 0 .. End |-> r[q]]
    OBVIOUS
  <2> HIDE DEF r
  <2>2. r = [q \in 0 .. End |-> E(r, q)]
    BY <1>5, <2>1
  <2> QED BY <1>0, <2>2
<1>7. P(F)
  <2> HIDE DEF P, r
  <2> QED BY <1>6
<1> HIDE DEF F
<1>8. F = [q \in 0 .. End |-> E(F, q)]
  BY <1>0, <1>7
<1>9. ASSUME NEW p \in 0 .. End PROVE F[p] = E(F, p)
  BY <1>8
<1>10. \A p \in 0 .. End :
          F[p] = UNION {{<<n[1], <<n[2]>>>>}
                          \cup {<<m[1], <<n[2]>> \o m[2]>> : m \in UNION {F[s] : s \in After(Given, {n[1]}, ".")}} :
                        n \in Numbers(Given, p, radix)}
  BY <1>9, Zenon DEF E
<1> QED BY <1>b, <1>10

(* Nonempty sequences.                                                     *)
NonEmpty(X) == Seq(X) \ {<< >>}

(* Nonempty sequences, from their first element on.                        *)
LEMMA NonEmptyFacts ==
  ASSUME NEW X, NEW x \in X
  PROVE  <<x>> \in NonEmpty(X) /\ \A s \in NonEmpty(X) : <<x>> \o s \in NonEmpty(X)
  BY DEF NonEmpty

(* What ends a number ends no other that it is in.                         *)
LEMMA StopFacts ==
  /\ Stops \subseteq CHAR
  /\ \A c \in Stops : /\ c \notin ALPHA \cup DIGIT \cup {"-", ".", "*", "DQUOTE", "%", "<", "(", "["} /\ c # "END"
                      /\ \A radix : c \notin DigitsOf(radix)
<1>1. \A radix : \A c \in DigitsOf(radix) : c \in ALPHA \cup DIGIT
  BY DigitFacts
<1>2. \A c \in Stops : c \notin ALPHA \cup DIGIT \cup {"-", ".", "*", "DQUOTE", "%", "<", "(", "["} /\ c # "END" /\ c \in CHAR
  BY Letters DEF Stops, Blanks, Breaks, WSP, DIGIT, CHAR, VCHAR
<1> QED BY <1>1, <1>2

(* A reading of numbers with dots between them: one number, or one and then*)
(* others.                                                                 *)
LEMMA DottedAre ==
  ASSUME Typed, NEW radix \in Radixes, NEW p \in 0 .. End
  PROVE  \A z : z \in Dotted(Given, p, radix) <=>
           \E n \in Numbers(Given, p, radix) :
             \/ z = <<n[1], <<n[2]>>>>
             \/ Peek(n[1]) = "." /\ \E m \in Dotted(Given, n[1] + 1, radix) : z = <<m[1], <<n[2]>> \o m[2]>>
<1>1. PICK D : /\ \A q : Dotted(Given, q, radix) = D[q]
               /\ \A q \in 0 .. End :
                     D[q] = UNION {{<<n[1], <<n[2]>>>>}
                                     \cup {<<m[1], <<n[2]>> \o m[2]>> :
                                             m \in UNION {D[s] : s \in After(Given, {n[1]}, ".")}} :
                                   n \in Numbers(Given, q, radix)}
  BY DottedIs
<1>2. "." \in CHAR
  BY DEF CHAR, VCHAR
<1> PICK K : K = Numbers(Given, p, radix)
  OBVIOUS
<1> DEFINE M(n) == UNION {D[s] : s \in After(Given, {n[1]}, ".")}
<1>3. ASSUME NEW n \in K PROVE \A m : m \in M(n) <=> Peek(n[1]) = "." /\ m \in Dotted(Given, n[1] + 1, radix)
  <2>1. After(Given, {n[1]}, ".") = IF Peek(n[1]) = "." THEN {n[1] + 1} ELSE {}
    BY <1>2, AfterNumber
  <2> QED BY <1>1, <2>1
<1>4. D[p] = UNION {{<<n[1], <<n[2]>>>>} \cup {<<m[1], <<n[2]>> \o m[2]>> : m \in M(n)} : n \in K}
  BY <1>1
<1> HIDE DEF M
<1> DEFINE part(n) == {<<n[1], <<n[2]>>>>} \cup {<<m[1], <<n[2]>> \o m[2]>> : m \in M(n)}
           Q(z, n) == \/ z = <<n[1], <<n[2]>>>>
                      \/ Peek(n[1]) = "." /\ \E m \in Dotted(Given, n[1] + 1, radix) : z = <<m[1], <<n[2]>> \o m[2]>>
<1>5. ASSUME NEW n \in K, NEW z PROVE z \in part(n) <=> Q(z, n)
  <2>1. z \in part(n) <=> z = <<n[1], <<n[2]>>>> \/ \E m \in M(n) : z = <<m[1], <<n[2]>> \o m[2]>>
    OBVIOUS
  <2> HIDE DEF part
  <2> QED BY <1>3, <2>1
<1>6. Dotted(Given, p, radix) = UNION {part(n) : n \in K}
  BY <1>1, <1>4
<1> HIDE DEF part, Q
<1>7. \A z : z \in Dotted(Given, p, radix) <=> \E n \in K : z \in part(n)
  BY <1>6
<1>8. ASSUME NEW z PROVE z \in Dotted(Given, p, radix) <=> \E n \in Numbers(Given, p, radix) : Q(z, n)
  BY <1>5, <1>7
<1> QED BY <1>8, Zenon DEF Q

(* The parser reads the numbers as far as the dots go.                     *)
LEMMA DottedFacts ==
  ASSUME Typed, NEW radix \in Radixes
  PROVE  \A p \in 0 .. End :
           Finds(DottedNumbers(p, radix), Dotted(Given, p, radix), p, NonEmpty(Values), Stops)
<1> DEFINE S == {q \in 0 .. End : Finds(DottedNumbers(q, radix), Dotted(Given, q, radix), q, NonEmpty(Values), Stops)}
<1>0. End \in Nat /\ "." \in CHAR /\ \A q \in 0 .. End : q \in Nat
  <2>1. End \in Nat
    BY PeekFacts
  <2> QED BY <2>1 DEF CHAR, VCHAR
<1>1. ASSUME NEW q \in 0 .. End, \A i \in q + 1 .. End : i \in S PROVE q \in S
  <2> PICK r, R, n, K : /\ r = DottedNumbers(q, radix) /\ R = Dotted(Given, q, radix)
                        /\ n = Number(q, radix) /\ K = Numbers(Given, q, radix)
    OBVIOUS
  <2> DEFINE next(k) == DottedNumbers(k + 1, radix)
             rest(k) == Dotted(Given, k + 1, radix)
  <2>1. r = IF Failed(n) THEN n
            ELSE IF Peek(n.at) # "." THEN Read(n.at, <<n.value>>)
            ELSE IF Failed(next(n.at)) THEN next(n.at)
            ELSE Read(next(n.at).at, <<n.value>> \o next(n.at).value)
    BY DottedNumbersIs
  <2>2. \A z : z \in R <=> \E k \in K : \/ z = <<k[1], <<k[2]>>>>
                                        \/ Peek(k[1]) = "." /\ \E m \in rest(k[1]) : z = <<m[1], <<k[2]>> \o m[2]>>
    <3>1. \A z : z \in Dotted(Given, q, radix) <=>
           \E k \in Numbers(Given, q, radix) :
             \/ z = <<k[1], <<k[2]>>>>
             \/ Peek(k[1]) = "." /\ \E m \in Dotted(Given, k[1] + 1, radix) : z = <<m[1], <<k[2]>> \o m[2]>>
      BY DottedAre
    <3> QED BY <3>1
  <2>3. ASSUME NEW k \in K, Peek(k[1]) = "."
        PROVE  /\ next(k[1]).error \in Errors \cup {None}
               /\ ~Failed(next(k[1])) => <<next(k[1]).at, next(k[1]).value>> \in rest(k[1])
               /\ \A m \in rest(k[1]) : m = <<m[1], m[2]>> /\ m[1] \in q + 1 .. End /\ m[2] \in NonEmpty(Values)
               /\ \A m \in rest(k[1]) : Peek(m[1]) \in Stops => next(k[1]) = Read(m[1], m[2])
    <3>1. k[1] + 1 \in q + 1 .. End
      BY <1>0, <2>3, AfterNumber
    <3>2. k[1] + 1 \in S
      BY <1>1, <3>1
    <3>3. Finds(next(k[1]), rest(k[1]), k[1] + 1, NonEmpty(Values), Stops)
      BY <3>2
    <3>4. \A s \in (k[1] + 1) + 1 .. End : s \in q + 1 .. End
      BY <1>0, <3>1
    <3> HIDE DEF next, rest
    <3> QED BY <3>3, <3>4 DEF Finds
  <2>4. \A k \in K : k = <<k[1], k[2]>> /\ k[1] \in q + 1 .. End /\ k[2] \in Values
    <3> TAKE k \in K
    <3> QED BY NumberTyped
  <2>5. n.error \in Errors \cup {None} /\ (~Failed(n) => <<n.at, n.value>> \in K)
    BY NumberFacts, NumberRead
  <2>6. ASSUME NEW k \in K, Peek(k[1]) \in Stops \cup {"."} PROVE n = Read(k[1], k[2])
    <3>1. Peek(k[1]) \notin DigitsOf(radix)
      <4>1. "." \notin DigitsOf(radix)
        BY DigitFacts, Letters DEF DIGIT
      <4> QED BY <2>6, <4>1, StopFacts
    <3>2. /\ k = <<k[1], k[2]>> /\ k[1] \in q + 1 .. End /\ k[2] \in 0 .. MaxU64
          /\ Peek(q) \in DigitsOf(radix)
          /\ Peek(k[1]) \notin DigitsOf(radix) => Number(q, radix) = Read(k[1], k[2])
      BY NumberFacts
    <3> QED BY <3>1, <3>2
  <2> HIDE DEF next, rest
  <2>7. ASSUME NEW z \in R
        PROVE  /\ z = <<z[1], z[2]>> /\ z[1] \in q + 1 .. End /\ z[2] \in NonEmpty(Values)
               /\ Peek(z[1]) \in Stops => r = Read(z[1], z[2])
    <3>1. PICK k \in K : \/ z = <<k[1], <<k[2]>>>>
                         \/ Peek(k[1]) = "." /\ \E m \in rest(k[1]) : z = <<m[1], <<k[2]>> \o m[2]>>
      BY <2>2
    <3>2. <<k[2]>> \in NonEmpty(Values) /\ \A s \in NonEmpty(Values) : <<k[2]>> \o s \in NonEmpty(Values)
      BY <2>4, NonEmptyFacts
    <3>3. CASE z = <<k[1], <<k[2]>>>>
      <4>1. ASSUME Peek(k[1]) \in Stops PROVE r = Read(k[1], <<k[2]>>)
        <5>1. n = Read(k[1], k[2]) /\ Peek(k[1]) # "."
          BY <2>6, <4>1, StopFacts
        <5>2. ~Failed(n) /\ n.at = k[1] /\ n.value = k[2]
          BY <5>1, ReadFacts
        <5> QED BY <2>1, <5>1, <5>2
      <4>2. z[1] = k[1] /\ z[2] = <<k[2]>>
        BY <3>3
      <4> QED BY <2>4, <3>2, <3>3, <4>1, <4>2
    <3>4. CASE Peek(k[1]) = "." /\ \E m \in rest(k[1]) : z = <<m[1], <<k[2]>> \o m[2]>>
      <4>1. PICK m \in rest(k[1]) : z = <<m[1], <<k[2]>> \o m[2]>>
        BY <3>4
      <4>2. /\ m[1] \in q + 1 .. End /\ m[2] \in NonEmpty(Values)
            /\ Peek(m[1]) \in Stops => next(k[1]) = Read(m[1], m[2])
        BY <2>3, <3>4
      <4>3. ASSUME Peek(m[1]) \in Stops PROVE r = Read(m[1], <<k[2]>> \o m[2])
        <5>1. n = Read(k[1], k[2]) /\ next(k[1]) = Read(m[1], m[2])
          BY <2>6, <3>4, <4>2, <4>3
        <5>2. /\ ~Failed(n) /\ n.at = k[1] /\ n.value = k[2]
              /\ ~Failed(next(k[1])) /\ next(k[1]).at = m[1] /\ next(k[1]).value = m[2]
          BY <5>1, ReadFacts
        <5>3. Peek(n.at) = "." /\ next(n.at) = next(k[1])
          BY <3>4, <5>2
        <5> QED BY <2>1, <5>2, <5>3
      <4>4. z[1] = m[1] /\ z[2] = <<k[2]>> \o m[2]
        BY <4>1
      <4> QED BY <3>2, <4>1, <4>2, <4>3, <4>4
    <3> QED BY <3>1, <3>3, <3>4
  <2>8. r.error \in Errors \cup {None} /\ (~Failed(r) => <<r.at, r.value>> \in R)
    <3>1. CASE Failed(n)
      BY <2>1, <2>5, <3>1
    <3>2. CASE ~Failed(n) /\ Peek(n.at) # "."
      <4> PICK k : k = <<n.at, n.value>>
        OBVIOUS
      <4>1. k \in K /\ k[1] = n.at /\ k[2] = n.value
        BY <2>5, <3>2
      <4>2. <<k[1], <<k[2]>>>> \in R
        BY <2>2, <4>1
      <4>3. r.error = None /\ r.at = k[1] /\ r.value = <<k[2]>>
        BY <2>1, <3>2, <4>1, ReadFacts
      <4> QED BY <4>2, <4>3
    <3>3. CASE ~Failed(n) /\ Peek(n.at) = "."
      <4> PICK k : k = <<n.at, n.value>>
        OBVIOUS
      <4>1. k \in K /\ k[1] = n.at /\ k[2] = n.value
        BY <2>5, <3>3
      <4> PICK t : t = next(k[1])
        OBVIOUS
      <4>2. t.error \in Errors \cup {None} /\ (~Failed(t) => <<t.at, t.value>> \in rest(k[1]))
        BY <2>3, <3>3, <4>1
      <4>3. r = IF Failed(t) THEN t ELSE Read(t.at, <<k[2]>> \o t.value)
        BY <2>1, <3>3, <4>1
      <4>4. CASE Failed(t)
        BY <4>2, <4>3, <4>4
      <4>5. CASE ~Failed(t)
        <5> PICK m : m = <<t.at, t.value>>
          OBVIOUS
        <5>1. m \in rest(k[1]) /\ m[1] = t.at /\ m[2] = t.value
          BY <4>2, <4>5
        <5>2. <<m[1], <<k[2]>> \o m[2]>> \in R
          BY <2>2, <3>3, <4>1, <5>1
        <5>a. r = Read(m[1], <<k[2]>> \o m[2])
          BY <4>3, <4>5, <5>1
        <5>v. PICK v : v = <<k[2]>> \o m[2]
          OBVIOUS
        <5>b. r = Read(m[1], v)
          BY <5>a, <5>v
        <5>d. \A a : Read(a, v).error = None /\ Read(a, v).at = a /\ Read(a, v).value = v
          BY ReadFacts
        <5>c. r.error = None /\ r.at = m[1] /\ r.value = v
          BY <5>b, <5>d
        <5>3. r.error = None /\ r.at = m[1] /\ r.value = <<k[2]>> \o m[2]
          BY <5>c, <5>v
        <5> QED BY <5>2, <5>3
      <4> QED BY <4>4, <4>5
    <3> QED BY <3>1, <3>2, <3>3
  <2>9. Finds(r, R, q, NonEmpty(Values), Stops)
    BY <2>7, <2>8 DEF Finds
  <2> QED BY <2>9
<1>2. \A q \in 0 .. End : q \in S
  <2> HIDE DEF S
  <2> QED BY <1>0, <1>1, CountDown
<1> QED BY <1>2

(* The parts of what was read.                                             *)
LEMMA ReadIs ==
  ASSUME NEW q, NEW v
  PROVE  Read(q, v).at = q /\ Read(q, v).value = v /\ Read(q, v).error = None /\ ~Failed(Read(q, v))
  BY ReadFacts

(* The readings of a numeric terminal, one by one.                         *)
LEMMA NumValsAre ==
  ASSUME Typed, NEW radix \in Radixes, NEW p \in 0 .. End
  PROVE  \A z : z \in NumVals(Given, p, radix) <=>
           \/ \E d \in Dotted(Given, p, radix) : z = <<d[1], Num(d[2])>>
           \/ \E lo \in Numbers(Given, p, radix) :
                Peek(lo[1]) = "-" /\ \E hi \in Numbers(Given, lo[1] + 1, radix) : z = <<hi[1], Span(lo[2], hi[2])>>
<1>0. "-" \in CHAR
  BY DEF CHAR, VCHAR
<1> DEFINE M(lo) == UNION {Numbers(Given, q, radix) : q \in After(Given, {lo[1]}, "-")}
           part(lo) == {<<hi[1], Span(lo[2], hi[2])>> : hi \in M(lo)}
<1>1. ASSUME NEW lo \in Numbers(Given, p, radix)
      PROVE  \A z : z \in part(lo) <=>
               Peek(lo[1]) = "-" /\ \E hi \in Numbers(Given, lo[1] + 1, radix) : z = <<hi[1], Span(lo[2], hi[2])>>
  <2>1. After(Given, {lo[1]}, "-") = IF Peek(lo[1]) = "-" THEN {lo[1] + 1} ELSE {}
    BY <1>0, AfterNumber
  <2>2. \A hi : hi \in M(lo) <=> Peek(lo[1]) = "-" /\ hi \in Numbers(Given, lo[1] + 1, radix)
    BY <2>1
  <2> HIDE DEF M
  <2> QED BY <2>2
<1>2. NumVals(Given, p, radix) = {<<d[1], Num(d[2])>> : d \in Dotted(Given, p, radix)}
                                  \cup UNION {part(lo) : lo \in Numbers(Given, p, radix)}
  BY DEF NumVals
<1> HIDE DEF M, part
<1> QED BY <1>1, <1>2

(* A number, numbers, or a range: the parser tells by the character after  *)
(* the first, and takes all it can.                                        *)
LEMMA NumValFacts ==
  ASSUME Typed, NEW radix \in Radixes, NEW p \in 0 .. End
  PROVE  Finds(NumValue(p, radix), NumVals(Given, p, radix), p, Trees, Stops)
<1>a. PICK r : r = NumValue(p, radix)
  OBVIOUS
<1>b. PICK n : n = Number(p, radix)
  OBVIOUS
<1>c. PICK d : d = DottedNumbers(p, radix)
  OBVIOUS
<1>d. PICK R : R = NumVals(Given, p, radix)
  OBVIOUS
<1>e. PICK K : K = Numbers(Given, p, radix)
  OBVIOUS
<1>f. PICK D : D = Dotted(Given, p, radix)
  OBVIOUS
<1>0. p \in Nat /\ End \in Nat /\ "-" \in CHAR
  <2>1. p \in Nat /\ End \in Nat
    BY PeekFacts
  <2> QED BY <2>1 DEF CHAR, VCHAR
<1>1. \A z : z \in R <=>
           \/ \E y \in D : z = <<y[1], Num(y[2])>>
           \/ \E lo \in K : Peek(lo[1]) = "-" /\ \E hi \in Numbers(Given, lo[1] + 1, radix) : z = <<hi[1], Span(lo[2], hi[2])>>
  BY <1>d, <1>e, <1>f, NumValsAre
<1>2. /\ d.error \in Errors \cup {None}
      /\ ~Failed(d) => <<d.at, d.value>> \in D
      /\ \A z \in D : z = <<z[1], z[2]>> /\ z[1] \in p + 1 .. End /\ z[2] \in NonEmpty(Values)
      /\ \A z \in D : Peek(z[1]) \in Stops => d = Read(z[1], z[2])
  BY <1>c, <1>f, DottedFacts DEF Finds
<1>3. n.error \in Errors \cup {None} /\ (~Failed(n) => <<n.at, n.value>> \in K)
  BY <1>b, <1>e, NumberFacts, NumberRead
<1>4. \A k \in K : k = <<k[1], k[2]>> /\ k[1] \in p + 1 .. End /\ k[2] \in Values
  <2> TAKE k \in K
  <2> QED BY <1>e, NumberTyped
<1>5. ASSUME NEW q \in 0 .. End, NEW k \in Numbers(Given, q, radix), Peek(k[1]) \in Stops \cup {"-"}
      PROVE  Number(q, radix) = Read(k[1], k[2])
    <3>1. Peek(k[1]) \notin DigitsOf(radix)
      <4>1. "-" \notin DigitsOf(radix)
        BY DigitFacts, Letters DEF DIGIT
      <4> QED BY <1>5, <4>1, StopFacts
    <3>2. /\ k = <<k[1], k[2]>> /\ k[1] \in q + 1 .. End /\ k[2] \in 0 .. MaxU64
          /\ Peek(q) \in DigitsOf(radix)
          /\ Peek(k[1]) \notin DigitsOf(radix) => Number(q, radix) = Read(k[1], k[2])
      BY NumberFacts
    <3> QED BY <3>1, <3>2
<1>6. ASSUME NEW k \in K, Peek(k[1]) = "-" PROVE k[1] + 1 \in p + 1 .. End /\ k[1] + 1 \in 0 .. End
  BY <1>0, <1>6, <1>e, AfterNumber
<1> DEFINE next(k) == Number(k + 1, radix)
<1>7. r = IF Failed(n) THEN n
          ELSE IF Peek(n.at) = "-"
          THEN IF Failed(next(n.at)) THEN next(n.at) ELSE Read(next(n.at).at, Span(n.value, next(n.at).value))
          ELSE IF Failed(d) THEN d ELSE Read(d.at, Num(d.value))
  BY <1>a, <1>b, <1>c DEF NumValue, AndThen
<1>8. ASSUME NEW z \in D
      PROVE  /\ z[1] \in p + 1 .. End /\ Num(z[2]) \in Trees
             /\ Peek(z[1]) \in Stops => r = Read(z[1], Num(z[2]))
  <2>1. Num(z[2]) \in Trees
    BY <1>2, LeavesAre DEF NonEmpty
  <2>2. ASSUME Peek(z[1]) \in Stops PROVE r = Read(z[1], Num(z[2]))
    <3>1. d = Read(z[1], z[2])
      BY <1>2, <2>2
    <3>2. ~Failed(d) /\ d.at = z[1] /\ d.value = z[2]
      BY <3>1, ReadIs
    <3>3. d = IF Failed(n) THEN n
              ELSE IF Peek(n.at) # "." THEN Read(n.at, <<n.value>>)
              ELSE IF Failed(DottedNumbers(n.at + 1, radix)) THEN DottedNumbers(n.at + 1, radix)
              ELSE Read(DottedNumbers(n.at + 1, radix).at, <<n.value>> \o DottedNumbers(n.at + 1, radix).value)
      BY <1>b, <1>c, DottedNumbersIs
    <3>4. ~Failed(n)
      BY <3>2, <3>3
    <3>5. Peek(n.at) # "-"
      <4>1. CASE Peek(n.at) # "."
        <5>1. d.at = n.at
          <6>1. d = Read(n.at, <<n.value>>)
            BY <3>3, <3>4, <4>1
          <6> QED BY <6>1, ReadIs
        <5> QED BY <2>2, <3>2, <5>1, StopFacts
      <4> QED BY <4>1
    <3> QED BY <1>7, <3>2, <3>4, <3>5
  <2> QED BY <1>2, <2>1, <2>2
<1>9. ASSUME NEW lo \in K, Peek(lo[1]) = "-", NEW hi \in Numbers(Given, lo[1] + 1, radix)
      PROVE  /\ hi[1] \in p + 1 .. End /\ Span(lo[2], hi[2]) \in Trees
             /\ Peek(hi[1]) \in Stops => r = Read(hi[1], Span(lo[2], hi[2]))
  <2>1. lo[1] + 1 \in p + 1 .. End /\ lo[1] + 1 \in 0 .. End
    BY <1>6, <1>9
  <2>2. hi[1] \in (lo[1] + 1) + 1 .. End /\ hi[2] \in Values /\ lo[2] \in Values
    BY <1>4, <2>1, NumberTyped
  <2>3. hi[1] \in p + 1 .. End
    BY <1>0, <2>1, <2>2
  <2>4. Span(lo[2], hi[2]) \in Trees
    BY <2>2, LeavesAre
  <2>5. ASSUME Peek(hi[1]) \in Stops PROVE r = Read(hi[1], Span(lo[2], hi[2]))
    <3>1. n = Read(lo[1], lo[2])
      BY <1>5, <1>9, <1>b, <1>e
    <3>2. ~Failed(n) /\ n.at = lo[1] /\ n.value = lo[2]
      BY <3>1, ReadIs
    <3>3. next(lo[1]) = Read(hi[1], hi[2])
      BY <1>5, <2>1, <2>5
    <3>4. ~Failed(next(lo[1])) /\ next(lo[1]).at = hi[1] /\ next(lo[1]).value = hi[2]
      BY <3>3, ReadIs
    <3> HIDE DEF next
    <3> QED BY <1>7, <1>9, <3>2, <3>4
  <2> QED BY <2>3, <2>4, <2>5
<1>10. ASSUME NEW z \in R
       PROVE  /\ z = <<z[1], z[2]>> /\ z[1] \in p + 1 .. End /\ z[2] \in Trees
              /\ Peek(z[1]) \in Stops => r = Read(z[1], z[2])
  <2>1. CASE \E y \in D : z = <<y[1], Num(y[2])>>
    <3>1. PICK y \in D : z = <<y[1], Num(y[2])>>
      BY <2>1
    <3>2. z[1] = y[1] /\ z[2] = Num(y[2])
      BY <3>1
    <3> QED BY <1>8, <3>1, <3>2
  <2>2. CASE \E lo \in K : Peek(lo[1]) = "-" /\ \E hi \in Numbers(Given, lo[1] + 1, radix) : z = <<hi[1], Span(lo[2], hi[2])>>
    <3>1. PICK lo \in K : Peek(lo[1]) = "-" /\ \E hi \in Numbers(Given, lo[1] + 1, radix) : z = <<hi[1], Span(lo[2], hi[2])>>
      BY <2>2
    <3>2. PICK hi \in Numbers(Given, lo[1] + 1, radix) : z = <<hi[1], Span(lo[2], hi[2])>>
      BY <3>1
    <3>3. z[1] = hi[1] /\ z[2] = Span(lo[2], hi[2])
      BY <3>2
    <3>4. /\ hi[1] \in p + 1 .. End /\ Span(lo[2], hi[2]) \in Trees
          /\ Peek(hi[1]) \in Stops => r = Read(hi[1], Span(lo[2], hi[2]))
      BY <1>9, <3>1
    <3> QED BY <3>2, <3>3, <3>4
  <2> QED BY <1>1, <2>1, <2>2
<1>11. r.error \in Errors \cup {None} /\ (~Failed(r) => <<r.at, r.value>> \in R)
  <2>1. CASE Failed(n)
    BY <1>3, <1>7, <2>1
  <2>2. CASE ~Failed(n) /\ Peek(n.at) = "-"
    <3>k. PICK k : k = <<n.at, n.value>>
      OBVIOUS
    <3>1. k \in K /\ k[1] = n.at /\ k[2] = n.value
      BY <1>3, <2>2, <3>k
    <3>t. PICK t : t = next(k[1])
      OBVIOUS
    <3>2. k[1] + 1 \in 0 .. End
      BY <1>6, <2>2, <3>1
    <3>3. t.error \in Errors \cup {None} /\ (~Failed(t) => <<t.at, t.value>> \in Numbers(Given, k[1] + 1, radix))
      BY <3>2, <3>t, NumberFacts
    <3>4. r = IF Failed(t) THEN t ELSE Read(t.at, Span(k[2], t.value))
      BY <1>7, <2>2, <3>1, <3>t
    <3>5. CASE Failed(t)
      BY <3>3, <3>4, <3>5
    <3>6. CASE ~Failed(t)
      <4>h. PICK hi : hi = <<t.at, t.value>>
        OBVIOUS
      <4>1. hi \in Numbers(Given, k[1] + 1, radix) /\ hi[1] = t.at /\ hi[2] = t.value
        BY <3>3, <3>6, <4>h
      <4>2. <<hi[1], Span(k[2], hi[2])>> \in R
        BY <1>1, <2>2, <3>1, <4>1
      <4>3. r = Read(hi[1], Span(k[2], hi[2]))
        BY <3>4, <3>6, <4>1
      <4>4. r.error = None /\ r.at = hi[1] /\ r.value = Span(k[2], hi[2])
        BY <4>3, ReadIs
      <4> QED BY <4>2, <4>4
    <3> QED BY <3>5, <3>6
  <2>3. CASE ~Failed(n) /\ Peek(n.at) # "-"
    <3>1. r = IF Failed(d) THEN d ELSE Read(d.at, Num(d.value))
      BY <1>7, <2>3
    <3>2. CASE Failed(d)
      BY <1>2, <3>1, <3>2
    <3>3. CASE ~Failed(d)
      <4>y. PICK y : y = <<d.at, d.value>>
        OBVIOUS
      <4>1. y \in D /\ y[1] = d.at /\ y[2] = d.value
        BY <1>2, <3>3, <4>y
      <4>2. <<y[1], Num(y[2])>> \in R
        BY <1>1, <4>1
      <4>3. r = Read(y[1], Num(y[2]))
        BY <3>1, <3>3, <4>1
      <4>4. r.error = None /\ r.at = y[1] /\ r.value = Num(y[2])
        BY <4>3, ReadIs
      <4> QED BY <4>2, <4>4
    <3> QED BY <3>2, <3>3
  <2> QED BY <2>1, <2>2, <2>3
<1> HIDE DEF next
<1> QED BY <1>a, <1>d, <1>10, <1>11 DEF Finds

(* What is found from a place is found from before it, and with fewer      *)
(* characters to follow.                                                   *)
LEMMA FindsFrom ==
  ASSUME NEW r, NEW R, NEW p \in Nat, NEW q \in Nat, p <= q, End \in Nat, NEW V, NEW X, NEW Y, Y \subseteq X,
         Finds(r, R, q, V, X)
  PROVE  Finds(r, R, p, V, Y)
<1>1. \A s \in q + 1 .. End : s \in p + 1 .. End
  OBVIOUS
<1> QED BY <1>1 DEF Finds

(* After a per cent sign the parser reads what the next character says.    *)
LEMMA PercentFacts ==
  ASSUME Typed, NEW p \in 0 .. End
  PROVE  /\ Peek(p) = "%" => Finds(Percent(p), Percents(Given, p), p, Trees, Stops)
         /\ Peek(p) # "%" => Percents(Given, p) = {}
<1>0. p \in Nat /\ End \in Nat /\ p + 1 \in Nat /\ p + 2 \in Nat /\ p <= p + 2
  BY PeekFacts
<1>1. Here(Given, p, {"%"}) <=> Peek(p) = "%"
  <2>1. "END" \notin {"%"}
    OBVIOUS
  <2> QED BY <1>0, <2>1, HereFacts
<1>2. CASE Peek(p) # "%"
  BY <1>1, <1>2 DEF Percents
<1>3. CASE Peek(p) = "%"
  <2>c. PICK c : c = Peek(p + 1)
    OBVIOUS
  <2>1. /\ Here(Given, p + 1, {"b", "B"}) <=> c \in {"b", "B"}
        /\ Here(Given, p + 1, {"d", "D"}) <=> c \in {"d", "D"}
        /\ Here(Given, p + 1, {"x", "X"}) <=> c \in {"x", "X"}
        /\ Here(Given, p + 1, {"s", "S"}) <=> c \in {"s", "S"}
        /\ Here(Given, p + 1, {"i", "I"}) <=> c \in {"i", "I"}
    <3>1. "END" \notin {"b", "B"} /\ "END" \notin {"d", "D"} /\ "END" \notin {"x", "X"}
          /\ "END" \notin {"s", "S"} /\ "END" \notin {"i", "I"}
      OBVIOUS
    <3> QED BY <1>0, <2>c, <3>1, HereFacts
  <2>2. ASSUME c \in {"b", "B", "d", "D", "x", "X", "s", "S", "i", "I"} PROVE p + 2 \in 0 .. End
    <3>1. c # "END"
      BY <2>2
    <3>2. p + 1 < End
      BY <1>0, <2>c, <3>1, PeekFacts
    <3> QED BY <1>0, <3>2
  <2>3. /\ ToLower(c) = "s" <=> c \in {"s", "S"}
        /\ ToLower(c) = "i" <=> c \in {"i", "I"}
        /\ ToLower(c) = "b" <=> c \in {"b", "B"}
        /\ ToLower(c) = "d" <=> c \in {"d", "D"}
        /\ ToLower(c) = "x" <=> c \in {"x", "X"}
    BY Markers
  <2>4. ASSUME NEW radix \in Radixes, p + 2 \in 0 .. End
        PROVE  Finds(NumValue(p + 2, radix), NumVals(Given, p + 2, radix), p, Trees, Stops)
    <3>1. Finds(NumValue(p + 2, radix), NumVals(Given, p + 2, radix), p + 2, Trees, Stops)
      BY <2>4, NumValFacts
    <3> QED BY <1>0, <3>1, FindsFrom
  <2>5. ASSUME NEW cs \in BOOLEAN, p + 2 \in 0 .. End
        PROVE  Finds(QuotedString(p + 2, cs), Quoted(Given, p + 2, cs), p, Trees, Stops)
    <3>1. Finds(QuotedString(p + 2, cs), Quoted(Given, p + 2, cs), p + 2, Trees, Anything)
      BY <2>5, QuotedFacts
    <3>2. Stops \subseteq Anything
      BY StopFacts DEF Anything
    <3> QED BY <1>0, <3>1, <3>2, FindsFrom
  <2>6. 2 \in Radixes /\ 10 \in Radixes /\ 16 \in Radixes
    BY DEF Radixes
  <2>7. CASE c \in {"s", "S"}
    <3>1. Percents(Given, p) = Quoted(Given, p + 2, TRUE)
      BY <1>1, <1>3, <2>1, <2>7 DEF Percents
    <3>2. Percent(p) = QuotedString(p + 2, TRUE)
      <4>1. ToLower(c) = "s"
        BY <2>3, <2>7
      <4> QED BY <2>c, <4>1 DEF Percent
    <3> QED BY <1>3, <2>2, <2>5, <2>7, <3>1, <3>2
  <2>8. CASE c \in {"i", "I"}
    <3>1. Percents(Given, p) = Quoted(Given, p + 2, FALSE)
      BY <1>1, <1>3, <2>1, <2>8 DEF Percents
    <3>2. Percent(p) = QuotedString(p + 2, FALSE)
      <4>1. ToLower(c) = "i"
        BY <2>3, <2>8
      <4> QED BY <2>c, <4>1 DEF Percent
    <3> QED BY <1>3, <2>2, <2>5, <2>8, <3>1, <3>2
  <2>9. CASE c \in {"b", "B"}
    <3>1. Percents(Given, p) = NumVals(Given, p + 2, 2)
      BY <1>1, <1>3, <2>1, <2>9 DEF Percents
    <3>2. Percent(p) = NumValue(p + 2, 2)
      <4>1. ToLower(c) = "b"
        BY <2>3, <2>9
      <4> QED BY <2>c, <4>1 DEF Percent
    <3> QED BY <1>3, <2>2, <2>4, <2>6, <2>9, <3>1, <3>2
  <2>10. CASE c \in {"d", "D"}
    <3>1. Percents(Given, p) = NumVals(Given, p + 2, 10)
      BY <1>1, <1>3, <2>1, <2>10 DEF Percents
    <3>2. Percent(p) = NumValue(p + 2, 10)
      <4>1. ToLower(c) = "d"
        BY <2>3, <2>10
      <4> QED BY <2>c, <4>1 DEF Percent
    <3> QED BY <1>3, <2>2, <2>4, <2>6, <2>10, <3>1, <3>2
  <2>11. CASE c \in {"x", "X"}
    <3>1. Percents(Given, p) = NumVals(Given, p + 2, 16)
      BY <1>1, <1>3, <2>1, <2>11 DEF Percents
    <3>2. Percent(p) = NumValue(p + 2, 16)
      <4>1. ToLower(c) = "x"
        BY <2>3, <2>11
      <4> QED BY <2>c, <4>1 DEF Percent
    <3> QED BY <1>3, <2>2, <2>4, <2>6, <2>11, <3>1, <3>2
  <2>12. CASE c \notin {"b", "B", "d", "D", "x", "X", "s", "S", "i", "I"}
    <3>1. Percents(Given, p) = {}
      BY <1>1, <1>3, <2>1, <2>12 DEF Percents
    <3>2. Percent(p) = Expected(p + 1)
      <4>1. ToLower(c) \notin {"s", "i", "b", "d", "x"}
        BY <2>3, <2>12
      <4> QED BY <2>c, <4>1 DEF Percent
    <3> QED BY <1>3, <3>1, <3>2, ReadFacts DEF Finds
  <2> QED BY <2>7, <2>8, <2>9, <2>10, <2>11, <2>12
<1> QED BY <1>2, <1>3

(* What follows the items of a branch, and what follows the branches.      *)
ItemsEnd(q) == Peek(q) \in Stops /\ ~StartsRepetition(Peek(StarCWsp(q)))
BranchesEnd(q) == ItemsEnd(q) /\ Peek(StarCWsp(q)) # "/"

(* What the parser does at `s` and how the text can be read from there.    *)
Agrees(f, x, s) ==
  /\ Finds(f[s].items, x[s].items, s, NonEmpty(Trees), {})
  /\ \A z \in x[s].items : ItemsEnd(z[1]) => f[s].items = Read(z[1], z[2])
  /\ x[s].items # {} => StartsRepetition(Peek(s))
  /\ Finds(f[s].branches, x[s].branches, s, NonEmpty(Trees), {})
  /\ \A z \in x[s].branches : BranchesEnd(z[1]) => f[s].branches = Read(z[1], z[2])
  /\ x[s].branches # {} => StartsRepetition(Peek(s))

(* What begins a repetition ends none and is not blank.                    *)
LEMMA StartFacts ==
  ASSUME NEW c, StartsRepetition(c)
  PROVE  c \notin Stops /\ c \notin Blanks
<1>1. c \notin Stops
  BY StopFacts DEF StartsRepetition
<1> QED BY <1>1 DEF Stops

(* Options, repetitions, and nonempty sequences unwrapped, are elements.   *)
LEMMA TreesAre ==
  /\ \A e \in Trees : Opt(e) \in Trees
  /\ \A e \in Trees, lo \in Values, hi \in Values \cup {None} : Repeat(lo, hi, e) \in Trees
  /\ \A s \in NonEmpty(Trees) : UnwrapSingle(s, "alt") \in Trees /\ UnwrapSingle(s, "concat") \in Trees
<1>1. ASSUME NEW X, X = Trees
      PROVE  /\ \A e \in X : Opt(e) \in Over(X)
             /\ \A e \in X, lo \in Values, hi \in Values \cup {None} : Repeat(lo, hi, e) \in Over(X)
             /\ \A s \in NonEmpty(X) : Alt(s) \in Over(X) /\ Concat(s) \in Over(X)
  BY DEF Over, NonEmpty
<1>2. ASSUME NEW s \in NonEmpty(Trees)
      PROVE  UnwrapSingle(s, "alt") \in Trees /\ UnwrapSingle(s, "concat") \in Trees
  <2>1. Alt(s) \in Trees /\ Concat(s) \in Trees
    BY <1>1, TreesOver
  <2>2. Len(s) = 1 => s[1] \in Trees
    BY DEF NonEmpty
  <2>3. UnwrapSingle(s, "alt") = (IF Len(s) = 1 THEN s[1] ELSE Alt(s))
        /\ UnwrapSingle(s, "concat") = (IF Len(s) = 1 THEN s[1] ELSE Concat(s))
    BY DEF UnwrapSingle, Alt, Concat
  <2> QED BY <2>1, <2>2, <2>3
<1> QED BY <1>1, <1>2, TreesOver

(* What closes brackets, after any whitespace.                             *)
Closers == {")", "]"}

(* A reading of what is in brackets: an alternation, and after it, past all*)
(* whitespace, what closes them.                                           *)
LEMMA EnclosuresAre ==
  ASSUME Typed, NEW p \in 0 .. End, NEW open \in {"(", "["}, NEW close \in Closers, NEW x, Peek(p) = open,
         \A s \in p + 1 .. End : \A z \in x[s].branches : z[1] \in s + 1 .. End
  PROVE  \A z : z \in Enclosures(Given, p, open, close, x) <=>
           \E s \in StarCWspEnds(Given, p + 1) : \E b \in x[s].branches :
             Peek(StarCWsp(b[1])) = close /\ z = <<StarCWsp(b[1]) + 1, UnwrapSingle(b[2], "alt")>>
<1>0. p \in Nat /\ End \in Nat /\ open \in CHAR /\ close \in CHAR \ Blanks
  <2>1. open \in CHAR /\ close \in CHAR /\ close \notin Blanks
    BY DEF CHAR, VCHAR, Blanks, Breaks, WSP, Closers
  <2> QED BY <2>1, PeekFacts
<1>1. After(Given, {p}, open) = {p + 1} /\ p + 1 \in 0 .. End
  <2>1. After(Given, {p}, open) = IF Peek(p) = open THEN {p + 1} ELSE {}
    BY <1>0, AfterOne
  <2>2. Peek(p) = open => p + 1 \in 0 .. End /\ p + 1 \in p + 1 .. End
    BY <1>0, AfterOne
  <2> QED BY <2>1, <2>2
<1>2. \A s \in StarCWspEnds(Given, p + 1) : s \in p + 1 .. End
  BY <1>1, StarFacts
<1> DEFINE part(a) == {<<q, a[2]>> : q \in After(Given, StarCWspEnds(Given, a[1]), close)}
           all == UNION {Alternations(Given, s, x) : s \in StarCWspEnds(Given, p + 1)}
<1>3. \A a : a \in all <=> \E s \in StarCWspEnds(Given, p + 1) : \E b \in x[s].branches :
                             a = <<b[1], UnwrapSingle(b[2], "alt")>>
  BY DEF Alternations
<1>4. Enclosures(Given, p, open, close, x) = UNION {part(a) : a \in all}
  BY <1>1 DEF Enclosures
<1>5. ASSUME NEW s \in StarCWspEnds(Given, p + 1), NEW b \in x[s].branches, NEW z
      PROVE  z \in part(<<b[1], UnwrapSingle(b[2], "alt")>>) <=>
               Peek(StarCWsp(b[1])) = close /\ z = <<StarCWsp(b[1]) + 1, UnwrapSingle(b[2], "alt")>>
  <2>1. b[1] \in 0 .. End
    <3>1. s \in p + 1 .. End /\ b[1] \in s + 1 .. End
      BY <1>2
    <3> QED BY <1>0, <3>1
  <2>2. After(Given, StarCWspEnds(Given, b[1]), close) = IF Peek(StarCWsp(b[1])) = close THEN {StarCWsp(b[1]) + 1} ELSE {}
    BY <1>0, <2>1, UpToFacts
  <2>3. part(<<b[1], UnwrapSingle(b[2], "alt")>>) =
          {<<q, UnwrapSingle(b[2], "alt")>> : q \in After(Given, StarCWspEnds(Given, b[1]), close)}
    OBVIOUS
  <2> HIDE DEF part
  <2> QED BY <2>2, <2>3
<1> HIDE DEF part, all
<1>6. \A z : z \in Enclosures(Given, p, open, close, x) <=> \E a \in all : z \in part(a)
  BY <1>4
<1> DEFINE Q(z) == \E s \in StarCWspEnds(Given, p + 1) : \E b \in x[s].branches :
                     Peek(StarCWsp(b[1])) = close /\ z = <<StarCWsp(b[1]) + 1, UnwrapSingle(b[2], "alt")>>
<1>7. ASSUME NEW z, NEW a \in all, z \in part(a) PROVE Q(z)
  <2>1. PICK s \in StarCWspEnds(Given, p + 1) : \E b \in x[s].branches : a = <<b[1], UnwrapSingle(b[2], "alt")>>
    BY <1>3
  <2>2. PICK b \in x[s].branches : a = <<b[1], UnwrapSingle(b[2], "alt")>>
    BY <2>1
  <2>3. z \in part(<<b[1], UnwrapSingle(b[2], "alt")>>)
    BY <1>7, <2>2
  <2> QED BY <1>5, <2>3
<1>8. ASSUME NEW z, Q(z) PROVE \E a \in all : z \in part(a)
  <2>1. PICK s \in StarCWspEnds(Given, p + 1) : \E b \in x[s].branches :
                     Peek(StarCWsp(b[1])) = close /\ z = <<StarCWsp(b[1]) + 1, UnwrapSingle(b[2], "alt")>>
    BY <1>8
  <2>2. PICK b \in x[s].branches :
                     Peek(StarCWsp(b[1])) = close /\ z = <<StarCWsp(b[1]) + 1, UnwrapSingle(b[2], "alt")>>
    BY <2>1
  <2>a. PICK a : a = <<b[1], UnwrapSingle(b[2], "alt")>>
    OBVIOUS
  <2>3. a \in all
    BY <1>3, <2>a
  <2>4. z \in part(<<b[1], UnwrapSingle(b[2], "alt")>>)
    BY <1>5, <2>2
  <2> QED BY <2>a, <2>3, <2>4
<1> HIDE DEF Q
<1>9. \A z : z \in Enclosures(Given, p, open, close, x) <=> Q(z)
  BY <1>6, <1>7, <1>8
<1> QED BY <1>9 DEF Q

(* Nothing is in brackets that does not begin with one.                    *)
LEMMA NotEnclosed ==
  ASSUME Typed, NEW p \in 0 .. End, NEW open \in CHAR, NEW close, NEW x, Peek(p) # open
  PROVE  Enclosures(Given, p, open, close, x) = {}
<1>1. After(Given, {p}, open) = {}
  BY AfterOne
<1> QED BY <1>1 DEF Enclosures

(* If parser and grammar agree on what is in the brackets, they do on the  *)
(* whole.                                                                  *)
LEMMA EnclosedFacts ==
  ASSUME Typed, NEW p \in 0 .. End, NEW open \in {"(", "["}, NEW close \in Closers, NEW f, NEW x, Peek(p) = open,
         \A s \in p + 1 .. End : Agrees(f, x, s)
  PROVE  Finds(Enclosed(p, close, f), Enclosures(Given, p, open, close, x), p, Trees, Anything)
<1>0. p \in Nat /\ End \in Nat /\ p + 1 \in 0 .. End /\ close \in Stops /\ close \in CHAR \ Blanks /\ close # "/"
  <2>1. close \in Stops /\ close \in CHAR /\ close \notin Blanks /\ close # "/"
    BY DEF CHAR, VCHAR, Blanks, Breaks, WSP, Closers, Stops
  <2>2. open \in CHAR /\ open # "END"
    BY DEF CHAR, VCHAR
  <2> QED BY <2>1, <2>2, PeekFacts
<1>a. PICK t : t = StarCWsp(p + 1)
  OBVIOUS
<1>1. t \in p + 1 .. End /\ t \in StarCWspEnds(Given, p + 1)
      /\ \A s \in StarCWspEnds(Given, p + 1) : s \in p + 1 .. End /\ (Peek(s) \notin Blanks => s = t)
  BY <1>0, <1>a, StarFacts, StarEnds
<1>2. ASSUME NEW s \in p + 1 .. End
      PROVE  /\ f[s].branches.error \in Errors \cup {None}
             /\ ~Failed(f[s].branches) => <<f[s].branches.at, f[s].branches.value>> \in x[s].branches
             /\ \A z \in x[s].branches : /\ z = <<z[1], z[2]>> /\ z[1] \in s + 1 .. End /\ z[2] \in NonEmpty(Trees)
                                         /\ BranchesEnd(z[1]) => f[s].branches = Read(z[1], z[2])
                                         /\ StartsRepetition(Peek(s))
  BY DEF Agrees, Finds
<1>R. PICK R : R = Enclosures(Given, p, open, close, x)
  OBVIOUS
<1>3. \A z : z \in R <=>
        \E s \in StarCWspEnds(Given, p + 1) : \E b \in x[s].branches :
          Peek(StarCWsp(b[1])) = close /\ z = <<StarCWsp(b[1]) + 1, UnwrapSingle(b[2], "alt")>>
  <2>1. \A s \in p + 1 .. End : \A z \in x[s].branches : z[1] \in s + 1 .. End
    BY <1>2
  <2> QED BY <1>R, <2>1, EnclosuresAre
<1>r. PICK r : r = Enclosed(p, close, f)
  OBVIOUS
<1>g. PICK g : g = f[t].branches
  OBVIOUS
<1>4. r = IF Failed(g) THEN g
          ELSE IF Peek(StarCWsp(g.at)) # close THEN Expected(StarCWsp(g.at))
          ELSE Read(StarCWsp(g.at) + 1, UnwrapSingle(g.value, "alt"))
  <2>1. Alternation(t, f) = IF Failed(g) THEN g ELSE Read(g.at, UnwrapSingle(g.value, "alt"))
    BY <1>g DEF Alternation, AndThen
  <2>2. r = IF Failed(Alternation(t, f)) THEN Alternation(t, f)
            ELSE IF Peek(StarCWsp(Alternation(t, f).at)) # close THEN Expected(StarCWsp(Alternation(t, f).at))
            ELSE Read(StarCWsp(Alternation(t, f).at) + 1, Alternation(t, f).value)
    BY <1>r, <1>a DEF Enclosed, AndThen
  <2>v. PICK v : v = UnwrapSingle(g.value, "alt")
    OBVIOUS
  <2>3. ~Failed(g) => /\ ~Failed(Alternation(t, f)) /\ Alternation(t, f).at = g.at
                      /\ Alternation(t, f).value = v
    BY <2>1, <2>v, ReadIs
  <2> QED BY <2>1, <2>2, <2>3, <2>v
<1>5. ASSUME NEW s \in StarCWspEnds(Given, p + 1), NEW b \in x[s].branches, Peek(StarCWsp(b[1])) = close
      PROVE  /\ s = t /\ b = <<b[1], b[2]>> /\ b[2] \in NonEmpty(Trees)
             /\ StarCWsp(b[1]) + 1 \in p + 1 .. End
             /\ g = Read(b[1], b[2])
  <2>1. s \in p + 1 .. End
    BY <1>1
  <2>2. s = t
    BY <1>1, <1>2, <2>1, StartFacts
  <2>3. b = <<b[1], b[2]>> /\ b[1] \in s + 1 .. End /\ b[2] \in NonEmpty(Trees)
    BY <1>2, <2>1
  <2>4. b[1] \in 0 .. End
    BY <1>0, <2>1, <2>3
  <2>5. StarCWsp(b[1]) + 1 \in b[1] + 1 .. End /\ Peek(b[1]) \in Blanks \cup {close}
    BY <1>0, <1>5, <2>4, UpToFacts
  <2>6. BranchesEnd(b[1])
    <3>1. Peek(b[1]) \in Stops
      BY <1>0, <2>5 DEF Stops
    <3>2. ~StartsRepetition(close)
      BY <1>0, StartFacts
    <3> QED BY <1>0, <1>5, <3>1, <3>2 DEF BranchesEnd, ItemsEnd
  <2>7. StarCWsp(b[1]) + 1 \in p + 1 .. End
    BY <1>0, <2>1, <2>3, <2>5
  <2> QED BY <1>2, <1>g, <2>1, <2>2, <2>3, <2>6, <2>7
<1>6. ASSUME NEW z \in R
      PROVE  z = <<z[1], z[2]>> /\ z[1] \in p + 1 .. End /\ z[2] \in Trees /\ r = Read(z[1], z[2])
  <2>0. PICK s \in StarCWspEnds(Given, p + 1) : \E b \in x[s].branches :
          Peek(StarCWsp(b[1])) = close /\ z = <<StarCWsp(b[1]) + 1, UnwrapSingle(b[2], "alt")>>
    BY <1>3
  <2>1. PICK b \in x[s].branches :
          Peek(StarCWsp(b[1])) = close /\ z = <<StarCWsp(b[1]) + 1, UnwrapSingle(b[2], "alt")>>
    BY <2>0
  <2>2. /\ s = t /\ b[2] \in NonEmpty(Trees) /\ StarCWsp(b[1]) + 1 \in p + 1 .. End /\ g = Read(b[1], b[2])
    BY <1>5, <2>1
  <2>3. ~Failed(g) /\ g.at = b[1] /\ g.value = b[2]
    BY <2>2, ReadIs
  <2>4. UnwrapSingle(b[2], "alt") \in Trees
    BY <2>2, TreesAre
  <2>5. z[1] = StarCWsp(b[1]) + 1 /\ z[2] = UnwrapSingle(b[2], "alt")
    BY <2>1
  <2>6. r = Read(StarCWsp(b[1]) + 1, UnwrapSingle(b[2], "alt"))
    BY <1>4, <2>1, <2>3
  <2> QED BY <2>1, <2>2, <2>4, <2>5, <2>6
<1>7. r.error \in Errors \cup {None} /\ (~Failed(r) => <<r.at, r.value>> \in R)
  <2>1. CASE Failed(g)
    BY <1>1, <1>2, <1>4, <1>g, <2>1
  <2>2. CASE ~Failed(g) /\ Peek(StarCWsp(g.at)) # close
    BY <1>4, <2>2, ReadFacts
  <2>3. CASE ~Failed(g) /\ Peek(StarCWsp(g.at)) = close
    <3>b. PICK b : b = <<g.at, g.value>>
      OBVIOUS
    <3>1. b \in x[t].branches /\ b[1] = g.at /\ b[2] = g.value
      BY <1>1, <1>2, <1>g, <2>3, <3>b
    <3>2. <<StarCWsp(b[1]) + 1, UnwrapSingle(b[2], "alt")>> \in R
      BY <1>1, <1>3, <2>3, <3>1
    <3>v. PICK v : v = UnwrapSingle(b[2], "alt")
      OBVIOUS
    <3>3. r = Read(StarCWsp(b[1]) + 1, v)
      BY <1>4, <2>3, <3>1, <3>v
    <3>4. r.error = None /\ r.at = StarCWsp(b[1]) + 1 /\ r.value = v
      BY <3>3, ReadIs
    <3> QED BY <3>2, <3>4, <3>v
  <2> QED BY <2>1, <2>2, <2>3
<1> QED BY <1>6, <1>7, <1>r, <1>R DEF Finds

(* What an element begins with.                                            *)
Starters == ALPHA \cup {"(", "[", "DQUOTE", "%", "<"}

(* A name is a reference, as far as it goes.                               *)
LEMMA ReferenceFacts ==
  ASSUME Typed, NEW p \in 0 .. End
  PROVE  LET r == AndThen(Rulename(p), LAMBDA name : Read(name.at, Ref(name.value)))
             R == {<<n[1], Ref(n[2])>> : n \in Rulenames(Given, p)}
         IN  /\ Finds(r, R, p, Trees, Stops)
             /\ Peek(p) \notin ALPHA => R = {}
<1>n. PICK n : n = Rulename(p)
  OBVIOUS
<1>r. PICK r : r = AndThen(Rulename(p), LAMBDA name : Read(name.at, Ref(name.value)))
  OBVIOUS
<1>N. PICK K : K = Rulenames(Given, p)
  OBVIOUS
<1>R. PICK R : R = {<<k[1], Ref(k[2])>> : k \in K}
  OBVIOUS
<1>1. r = IF Failed(n) THEN n ELSE Read(n.at, Ref(n.value))
  BY <1>n, <1>r DEF AndThen
<1>2. /\ n.error \in Errors \cup {None}
      /\ ~Failed(n) => <<n.at, n.value>> \in K
      /\ \A z \in K : /\ z = <<z[1], z[2]>> /\ z[1] \in p + 1 .. End /\ z[2] \in Names
                      /\ Peek(p) \in ALPHA
                      /\ Peek(z[1]) \notin ALPHA \cup DIGIT \cup {"-"} => n = Read(z[1], z[2])
  BY <1>n, <1>N, RulenameFacts, NamesRead
<1>3. \A z : z \in R <=> \E k \in K : z = <<k[1], Ref(k[2])>>
  BY <1>R
<1>4. ASSUME NEW z \in R
      PROVE  /\ z = <<z[1], z[2]>> /\ z[1] \in p + 1 .. End /\ z[2] \in Trees /\ Peek(p) \in ALPHA
             /\ Peek(z[1]) \in Stops => r = Read(z[1], z[2])
  <2>1. PICK k \in K : z = <<k[1], Ref(k[2])>>
    BY <1>3
  <2>2. z[1] = k[1] /\ z[2] = Ref(k[2])
    BY <2>1
  <2>3. k[2] \in Names /\ k[1] \in p + 1 .. End /\ Peek(p) \in ALPHA
        /\ (Peek(k[1]) \notin ALPHA \cup DIGIT \cup {"-"} => n = Read(k[1], k[2]))
    BY <1>2
  <2>4. Ref(k[2]) \in Trees
    BY <2>3, LeavesAre
  <2>5. ASSUME Peek(k[1]) \in Stops PROVE r = Read(k[1], Ref(k[2]))
    <3>1. n = Read(k[1], k[2])
      BY <2>3, <2>5, StopFacts
    <3>2. ~Failed(n) /\ n.at = k[1] /\ n.value = k[2]
      BY <3>1, ReadIs
    <3> QED BY <1>1, <3>2
  <2> QED BY <2>1, <2>2, <2>3, <2>4, <2>5
<1>5. r.error \in Errors \cup {None} /\ (~Failed(r) => <<r.at, r.value>> \in R)
  <2>1. CASE Failed(n)
    BY <1>1, <1>2, <2>1
  <2>2. CASE ~Failed(n)
    <3>k. PICK k : k = <<n.at, n.value>>
      OBVIOUS
    <3>1. k \in K /\ k[1] = n.at /\ k[2] = n.value
      BY <1>2, <2>2, <3>k
    <3>2. <<k[1], Ref(k[2])>> \in R
      BY <1>3, <3>1
    <3>3. r = Read(k[1], Ref(k[2]))
      BY <1>1, <2>2, <3>1
    <3>4. r.error = None /\ r.at = k[1] /\ r.value = Ref(k[2])
      BY <3>3, ReadIs
    <3> QED BY <3>2, <3>4
  <2> QED BY <2>1, <2>2
<1>6. Finds(r, R, p, Trees, Stops)
  BY <1>4, <1>5 DEF Finds
<1>7. Peek(p) \notin ALPHA => R = {}
  BY <1>4
<1> QED BY <1>6, <1>7, <1>r, <1>R, <1>N

(* And if it is made an option.                                            *)
LEMMA OptionFacts ==
  ASSUME NEW p, NEW e, NEW E, Finds(e, E, p, Trees, Anything)
  PROVE  LET r == AndThen(e, LAMBDA body : Read(body.at, Opt(body.value)))
             R == {<<o[1], Opt(o[2])>> : o \in E}
         IN  Finds(r, R, p, Trees, Anything)
<1>r. PICK r : r = AndThen(e, LAMBDA body : Read(body.at, Opt(body.value)))
  OBVIOUS
<1>R. PICK R : R = {<<k[1], Opt(k[2])>> : k \in E}
  OBVIOUS
<1>1. r = IF Failed(e) THEN e ELSE Read(e.at, Opt(e.value))
  BY <1>r DEF AndThen
<1>2. /\ e.error \in Errors \cup {None}
      /\ ~Failed(e) => <<e.at, e.value>> \in E
      /\ \A z \in E : z = <<z[1], z[2]>> /\ z[1] \in p + 1 .. End /\ z[2] \in Trees
      /\ \A z \in E : Peek(z[1]) \in Anything => e = Read(z[1], z[2])
  BY DEF Finds
<1>3. \A z : z \in R <=> \E k \in E : z = <<k[1], Opt(k[2])>>
  BY <1>R
<1>4. ASSUME NEW z \in R
      PROVE  /\ z = <<z[1], z[2]>> /\ z[1] \in p + 1 .. End /\ z[2] \in Trees
             /\ Peek(z[1]) \in Anything => r = Read(z[1], z[2])
  <2>1. PICK k \in E : z = <<k[1], Opt(k[2])>>
    BY <1>3
  <2>2. z[1] = k[1] /\ z[2] = Opt(k[2])
    BY <2>1
  <2>3. Opt(k[2]) \in Trees
    BY <1>2, TreesAre
  <2>4. ASSUME Peek(k[1]) \in Anything PROVE r = Read(k[1], Opt(k[2]))
    <3>1. e = Read(k[1], k[2])
      BY <1>2, <2>4
    <3>2. ~Failed(e) /\ e.at = k[1] /\ e.value = k[2]
      BY <3>1, ReadIs
    <3> QED BY <1>1, <3>2
  <2> QED BY <1>2, <2>1, <2>2, <2>3, <2>4
<1>5. r.error \in Errors \cup {None} /\ (~Failed(r) => <<r.at, r.value>> \in R)
  <2>1. CASE Failed(e)
    BY <1>1, <1>2, <2>1
  <2>2. CASE ~Failed(e)
    <3>k. PICK k : k = <<e.at, e.value>>
      OBVIOUS
    <3>1. k \in E /\ k[1] = e.at /\ k[2] = e.value
      BY <1>2, <2>2, <3>k
    <3>2. <<k[1], Opt(k[2])>> \in R
      BY <1>3, <3>1
    <3>3. r = Read(k[1], Opt(k[2]))
      BY <1>1, <2>2, <3>1
    <3>4. r.error = None /\ r.at = k[1] /\ r.value = Opt(k[2])
      BY <3>3, ReadIs
    <3> QED BY <3>2, <3>4
  <2> QED BY <2>1, <2>2
<1>6. Finds(r, R, p, Trees, Anything)
  BY <1>4, <1>5 DEF Finds
<1> QED BY <1>6, <1>r, <1>R

(* If parser and grammar agree further on, they agree on the element here. *)
LEMMA ElementFacts ==
  ASSUME Typed, NEW p \in 0 .. End, NEW f, NEW x, \A s \in p + 1 .. End : Agrees(f, x, s)
  PROVE  /\ Finds(Element(p, f), Elements(Given, p, x), p, Trees, Stops)
         /\ Elements(Given, p, x) # {} => Peek(p) \in Starters
<1>c. PICK c : c = Peek(p)
  OBVIOUS
<1>0. /\ c \notin {"(", "[", "DQUOTE", "%", "<"} \/ c \notin ALPHA
      /\ "(" \in CHAR /\ "[" \in CHAR /\ p \in Nat /\ End \in Nat
  <2>1. "(" \in CHAR /\ "[" \in CHAR
    BY DEF CHAR, VCHAR
  <2> QED BY <2>1, Letters, PeekFacts
<1>1. PICK R1 : R1 = {<<n[1], Ref(n[2])>> : n \in Rulenames(Given, p)}
  OBVIOUS
<1>2. PICK R2 : R2 = Enclosures(Given, p, "(", ")", x)
  OBVIOUS
<1>3. PICK R3 : R3 = {<<o[1], Opt(o[2])>> : o \in Enclosures(Given, p, "[", "]", x)}
  OBVIOUS
<1>4. PICK R4 : R4 = Quoted(Given, p, FALSE)
  OBVIOUS
<1>5. PICK R5 : R5 = Percents(Given, p)
  OBVIOUS
<1>6. PICK R6 : R6 = Proses(Given, p)
  OBVIOUS
<1>7. Elements(Given, p, x) = R1 \cup R2 \cup R3 \cup R4 \cup R5 \cup R6
  BY <1>1, <1>2, <1>3, <1>4, <1>5, <1>6 DEF Elements
<1>8. c \notin ALPHA => R1 = {}
  BY <1>1, <1>c, ReferenceFacts
<1>9. c # "(" => R2 = {}
  BY <1>0, <1>2, <1>c, NotEnclosed
<1>10. c # "[" => R3 = {}
  <2>1. c # "[" => Enclosures(Given, p, "[", "]", x) = {}
    BY <1>0, <1>c, NotEnclosed
  <2> QED BY <1>3, <2>1
<1>11. c # "DQUOTE" => R4 = {}
  BY <1>4, <1>c, QuotedFacts
<1>12. c # "%" => R5 = {}
  BY <1>5, <1>c, PercentFacts
<1>13. c # "<" => R6 = {}
  BY <1>6, <1>c, ProseFacts
<1>A. ASSUME NEW r, NEW R, Finds(r, R, p, Trees, Anything) PROVE Finds(r, R, p, Trees, Stops)
  <2>1. Stops \subseteq Anything
    BY StopFacts DEF Anything
  <2> QED BY <1>0, <1>A, <2>1, FindsFrom
<1>14. CASE c \in ALPHA
  <2>1. Elements(Given, p, x) = R1
    BY <1>0, <1>7, <1>9, <1>10, <1>11, <1>12, <1>13, <1>14
  <2>2. Element(p, f) = AndThen(Rulename(p), LAMBDA name : Read(name.at, Ref(name.value)))
    BY <1>0, <1>14, <1>c DEF Element, AndThen
  <2>3. Finds(AndThen(Rulename(p), LAMBDA name : Read(name.at, Ref(name.value))), R1, p, Trees, Stops)
    BY <1>1, ReferenceFacts
  <2> QED BY <1>14, <1>c, <2>1, <2>2, <2>3 DEF Starters
<1>15. CASE c = "("
  <2>1. Elements(Given, p, x) = R2
    BY <1>0, <1>7, <1>8, <1>10, <1>11, <1>12, <1>13, <1>15
  <2>2. Element(p, f) = Enclosed(p, ")", f)
    BY <1>0, <1>15, <1>c DEF Element, Group
  <2>3. Finds(Enclosed(p, ")", f), R2, p, Trees, Anything)
    BY <1>15, <1>2, <1>c, EnclosedFacts DEF Closers
  <2> QED BY <1>15, <1>c, <1>A, <2>1, <2>2, <2>3 DEF Starters
<1>16. CASE c = "["
  <2>1. Elements(Given, p, x) = R3
    BY <1>0, <1>7, <1>8, <1>9, <1>11, <1>12, <1>13, <1>16
  <2>2. Element(p, f) = AndThen(Enclosed(p, "]", f), LAMBDA body : Read(body.at, Opt(body.value)))
    BY <1>0, <1>16, <1>c DEF Element, Option
  <2>3. Finds(Enclosed(p, "]", f), Enclosures(Given, p, "[", "]", x), p, Trees, Anything)
    BY <1>16, <1>c, EnclosedFacts DEF Closers
  <2>4. Finds(AndThen(Enclosed(p, "]", f), LAMBDA body : Read(body.at, Opt(body.value))), R3, p, Trees, Anything)
    BY <1>3, <2>3, OptionFacts
  <2> QED BY <1>16, <1>c, <1>A, <2>1, <2>2, <2>4 DEF Starters
<1>17. CASE c = "DQUOTE"
  <2>1. Elements(Given, p, x) = R4
    BY <1>0, <1>7, <1>8, <1>9, <1>10, <1>12, <1>13, <1>17
  <2>2. Element(p, f) = QuotedString(p, FALSE)
    BY <1>0, <1>17, <1>c DEF Element
  <2>3. Finds(QuotedString(p, FALSE), R4, p, Trees, Anything)
    BY <1>4, QuotedFacts
  <2> QED BY <1>17, <1>c, <1>A, <2>1, <2>2, <2>3 DEF Starters
<1>18. CASE c = "%"
  <2>1. Elements(Given, p, x) = R5
    BY <1>0, <1>7, <1>8, <1>9, <1>10, <1>11, <1>13, <1>18
  <2>2. Element(p, f) = Percent(p)
    BY <1>0, <1>18, <1>c DEF Element
  <2>3. Finds(Percent(p), R5, p, Trees, Stops)
    BY <1>18, <1>c, <1>5, PercentFacts
  <2> QED BY <1>18, <1>c, <2>1, <2>2, <2>3 DEF Starters
<1>19. CASE c = "<"
  <2>1. Elements(Given, p, x) = R6
    BY <1>0, <1>7, <1>8, <1>9, <1>10, <1>11, <1>12, <1>19
  <2>2. Element(p, f) = ProseValue(p)
    BY <1>0, <1>19, <1>c DEF Element
  <2>3. Finds(ProseValue(p), R6, p, Trees, Anything)
    BY <1>19, <1>c, <1>6, ProseFacts
  <2> QED BY <1>19, <1>c, <1>A, <2>1, <2>2, <2>3 DEF Starters
<1>20. CASE c \notin Starters
  <2>1. Elements(Given, p, x) = {}
    BY <1>7, <1>8, <1>9, <1>10, <1>11, <1>12, <1>13, <1>20 DEF Starters
  <2>2. Element(p, f) = Expected(p)
    BY <1>20, <1>c DEF Element, Starters
  <2> QED BY <2>1, <2>2, ReadFacts DEF Finds
<1> QED BY <1>14, <1>15, <1>16, <1>17, <1>18, <1>19, <1>20 DEF Starters

(* An element begins a repetition, as do a digit and an asterisk, which    *)
(* begin no element.                                                       *)
LEMMA StarterFacts ==
  /\ \A c \in Starters : StartsRepetition(c) /\ c \notin DIGIT \cup {"*"}
  /\ \A c \in DIGIT \cup {"*"} : StartsRepetition(c)
  BY Letters DEF Starters, StartsRepetition, DIGIT

(* If parser and grammar agree further on, they agree on the repetition    *)
(* here.                                                                   *)
LEMMA RepetitionFacts ==
  ASSUME Typed, NEW p \in 0 .. End, NEW f, NEW x, \A s \in p + 1 .. End : Agrees(f, x, s)
  PROVE  /\ Finds(Repetition(p, f), Repetitions(Given, p, x), p, Trees, Stops)
         /\ Repetitions(Given, p, x) # {} => StartsRepetition(Peek(p))
<1>r. PICK r : r = Repetition(p, f)
  OBVIOUS
<1>R. PICK R : R = Repetitions(Given, p, x)
  OBVIOUS
<1>b. PICK b : b = Bounds(p)
  OBVIOUS
<1>B. PICK B : B = Repeats(Given, p)
  OBVIOUS
<1>0. p \in Nat /\ End \in Nat
  BY PeekFacts
<1>1. /\ b.error \in Errors \cup {None}
      /\ ~Failed(b) => \/ b = Read(p, None)
                       \/ b.value # None /\ <<b.at, b.value>> \in B
      /\ \A z \in B :
              /\ z = <<z[1], z[2]>> /\ z[1] \in p + 1 .. End /\ z[2] # None
              /\ z[2].min \in Values /\ z[2].max \in Values \cup {None}
              /\ Peek(p) \in DIGIT \cup {"*"}
              /\ Peek(z[1]) \notin DIGIT \cup {"*"} => b = Read(z[1], z[2])
      /\ Peek(p) \notin DIGIT \cup {"*"} => b = Read(p, None)
  BY <1>b, <1>B, BoundsFacts, BoundsFit
<1> DEFINE el(q) == Element(q, f)
           els(q) == Elements(Given, q, x)
<1>2. ASSUME NEW q \in p .. End
      PROVE  /\ el(q).error \in Errors \cup {None}
             /\ ~Failed(el(q)) => <<el(q).at, el(q).value>> \in els(q)
             /\ \A z \in els(q) : /\ z = <<z[1], z[2]>> /\ z[1] \in p + 1 .. End /\ z[2] \in Trees
                                  /\ Peek(z[1]) \in Stops => el(q) = Read(z[1], z[2])
                                  /\ Peek(q) \in Starters
  <2>1. q \in 0 .. End /\ q \in Nat /\ p <= q /\ \A s \in q + 1 .. End : s \in p + 1 .. End
    BY <1>0
  <2>2. \A s \in q + 1 .. End : Agrees(f, x, s)
    BY <2>1
  <2>3. Finds(el(q), els(q), q, Trees, Stops) /\ (els(q) # {} => Peek(q) \in Starters)
    BY <2>1, <2>2, ElementFacts
  <2>4. Finds(el(q), els(q), p, Trees, Stops)
    <3> HIDE DEF el, els
    <3> QED BY <1>0, <2>1, <2>3, FindsFrom
  <2> HIDE DEF el, els
  <2> QED BY <2>3, <2>4 DEF Finds
<1>3. r = IF Failed(b) THEN b
          ELSE IF Failed(el(b.at)) THEN el(b.at)
          ELSE IF b.value = None THEN el(b.at)
          ELSE Read(el(b.at).at, Repeat(b.value.min, b.value.max, el(b.at).value))
  BY <1>r, <1>b DEF Repetition, AndThen
<1>4. \A z : z \in R <=> \/ z \in els(p)
                         \/ \E k \in B : \E e \in els(k[1]) : z = <<e[1], Repeat(k[2].min, k[2].max, e[2])>>
  <2> DEFINE part(k) == {<<e[1], Repeat(k[2].min, k[2].max, e[2])>> : e \in els(k[1])}
  <2>1. R = els(p) \cup UNION {part(k) : k \in B}
    BY <1>R, <1>B DEF Repetitions
  <2>2. ASSUME NEW k, NEW z PROVE z \in part(k) <=> \E e \in els(k[1]) : z = <<e[1], Repeat(k[2].min, k[2].max, e[2])>>
    OBVIOUS
  <2> HIDE DEF part, els
  <2> QED BY <2>1, <2>2
<1> HIDE DEF el, els
<1>5. p \in p .. End
  BY <1>0
<1>6. ASSUME NEW z \in els(p)
      PROVE  /\ z = <<z[1], z[2]>> /\ z[1] \in p + 1 .. End /\ z[2] \in Trees
             /\ Peek(z[1]) \in Stops => r = Read(z[1], z[2])
             /\ StartsRepetition(Peek(p))
  <2>1. /\ z = <<z[1], z[2]>> /\ z[1] \in p + 1 .. End /\ z[2] \in Trees
        /\ Peek(z[1]) \in Stops => el(p) = Read(z[1], z[2])
        /\ Peek(p) \in Starters
    BY <1>2, <1>5
  <2>2. b = Read(p, None)
    BY <1>1, <2>1, StarterFacts
  <2>3. ~Failed(b) /\ b.at = p /\ b.value = None
    BY <2>2, ReadIs
  <2>4. r = el(p)
    BY <1>3, <2>3
  <2> QED BY <2>1, <2>4, StarterFacts
<1>7. ASSUME NEW k \in B, NEW e \in els(k[1])
      PROVE  /\ e[1] \in p + 1 .. End /\ Repeat(k[2].min, k[2].max, e[2]) \in Trees
             /\ Peek(e[1]) \in Stops => r = Read(e[1], Repeat(k[2].min, k[2].max, e[2]))
             /\ StartsRepetition(Peek(p))
  <2>1. /\ k = <<k[1], k[2]>> /\ k[1] \in p + 1 .. End /\ k[2] # None
        /\ k[2].min \in Values /\ k[2].max \in Values \cup {None}
        /\ Peek(p) \in DIGIT \cup {"*"}
        /\ Peek(k[1]) \notin DIGIT \cup {"*"} => b = Read(k[1], k[2])
    BY <1>1
  <2>2. k[1] \in p .. End
    BY <1>0, <2>1
  <2>3. /\ e[1] \in p + 1 .. End /\ e[2] \in Trees
        /\ Peek(e[1]) \in Stops => el(k[1]) = Read(e[1], e[2])
        /\ Peek(k[1]) \in Starters
    BY <1>2, <2>2
  <2>4. Repeat(k[2].min, k[2].max, e[2]) \in Trees
    BY <2>1, <2>3, TreesAre
  <2>5. b = Read(k[1], k[2])
    BY <2>1, <2>3, StarterFacts
  <2>6. ~Failed(b) /\ b.at = k[1] /\ b.value = k[2]
    BY <2>5, ReadIs
  <2>7. ASSUME Peek(e[1]) \in Stops PROVE r = Read(e[1], Repeat(k[2].min, k[2].max, e[2]))
    <3>1. el(k[1]) = Read(e[1], e[2])
      BY <2>3, <2>7
    <3>2. ~Failed(el(k[1])) /\ el(k[1]).at = e[1] /\ el(k[1]).value = e[2]
      BY <3>1, ReadIs
    <3> QED BY <1>3, <2>1, <2>6, <3>2
  <2> QED BY <2>1, <2>3, <2>4, <2>7, StarterFacts
<1>8. ASSUME NEW z \in R
      PROVE  /\ z = <<z[1], z[2]>> /\ z[1] \in p + 1 .. End /\ z[2] \in Trees
             /\ Peek(z[1]) \in Stops => r = Read(z[1], z[2])
             /\ StartsRepetition(Peek(p))
  <2>1. CASE z \in els(p)
    BY <1>6, <2>1
  <2>2. CASE \E k \in B : \E e \in els(k[1]) : z = <<e[1], Repeat(k[2].min, k[2].max, e[2])>>
    <3>1. PICK k \in B : \E e \in els(k[1]) : z = <<e[1], Repeat(k[2].min, k[2].max, e[2])>>
      BY <2>2
    <3>2. PICK e \in els(k[1]) : z = <<e[1], Repeat(k[2].min, k[2].max, e[2])>>
      BY <3>1
    <3>3. z[1] = e[1] /\ z[2] = Repeat(k[2].min, k[2].max, e[2])
      BY <3>2
    <3> QED BY <1>7, <3>2, <3>3
  <2> QED BY <1>4, <2>1, <2>2
<1>9. r.error \in Errors \cup {None} /\ (~Failed(r) => <<r.at, r.value>> \in R)
  <2>1. CASE Failed(b)
    BY <1>1, <1>3, <2>1
  <2>2. CASE ~Failed(b) /\ b = Read(p, None)
    <3>1. b.at = p /\ b.value = None
      BY <2>2, ReadIs
    <3>2. r = el(p)
      BY <1>3, <2>2, <3>1
    <3>3. el(p).error \in Errors \cup {None} /\ (~Failed(el(p)) => <<el(p).at, el(p).value>> \in els(p))
      BY <1>2, <1>5
    <3> QED BY <1>4, <3>2, <3>3
  <2>3. CASE ~Failed(b) /\ b.value # None /\ <<b.at, b.value>> \in B
    <3>k. PICK k : k = <<b.at, b.value>>
      OBVIOUS
    <3>1. k \in B /\ k[1] = b.at /\ k[2] = b.value
      BY <2>3, <3>k
    <3>2. k[1] \in p + 1 .. End
      BY <1>1, <3>1
    <3>3. k[1] \in p .. End
      BY <1>0, <3>2
    <3>t. PICK t : t = el(k[1])
      OBVIOUS
    <3>4. t.error \in Errors \cup {None} /\ (~Failed(t) => <<t.at, t.value>> \in els(k[1]))
      BY <1>2, <3>3, <3>t
    <3>5. r = IF Failed(t) THEN t ELSE Read(t.at, Repeat(k[2].min, k[2].max, t.value))
      BY <1>3, <2>3, <3>1, <3>t
    <3>6. CASE Failed(t)
      BY <3>4, <3>5, <3>6
    <3>7. CASE ~Failed(t)
      <4>e. PICK e : e = <<t.at, t.value>>
        OBVIOUS
      <4>1. e \in els(k[1]) /\ e[1] = t.at /\ e[2] = t.value
        BY <3>4, <3>7, <4>e
      <4>v. PICK v : v = Repeat(k[2].min, k[2].max, e[2])
        OBVIOUS
      <4>2. <<e[1], v>> \in R
        BY <1>4, <3>1, <4>1, <4>v
      <4>3. r = Read(e[1], v)
        BY <3>5, <3>7, <4>1, <4>v
      <4>4. r.error = None /\ r.at = e[1] /\ r.value = v
        BY <4>3, ReadIs
      <4> QED BY <4>2, <4>4
    <3> QED BY <3>6, <3>7
  <2> QED BY <1>1, <2>1, <2>2, <2>3
<1>10. Finds(r, R, p, Trees, Stops)
  BY <1>8, <1>9 DEF Finds
<1>11. R # {} => StartsRepetition(Peek(p))
  BY <1>8
<1> QED BY <1>10, <1>11, <1>r, <1>R

-----------------------------------------------------------------------------
(* `z` is a reading of items of which the first is read as `k`.            *)
FirstItem(z, k, x) ==
  \/ z = <<k[1], <<k[2]>>>>
  \/ CWsp(k[1]) # k[1] /\ \E s \in StarCWspEnds(Given, CWsp(k[1])) : \E m \in x[s].items :
       z = <<m[1], <<k[2]>> \o m[2]>>

(* The readings of the items of a branch, one by one.                      *)
LEMMA ItemListsAre ==
  ASSUME Typed, NEW p \in 0 .. End, NEW x,
         \A z \in Repetitions(Given, p, x) : z[1] \in p + 1 .. End
  PROVE  \A z : z \in ItemLists(Given, p, x) <=> \E k \in Repetitions(Given, p, x) : FirstItem(z, k, x)
<1>K. PICK K : K = Repetitions(Given, p, x)
  OBVIOUS
<1>0. p \in Nat /\ End \in Nat
  BY PeekFacts
<1> DEFINE M(k) == UNION {x[s].items : s \in UNION {StarCWspEnds(Given, q) : q \in CWspEnds(Given, k[1])}}
           part(k) == {<<k[1], <<k[2]>>>>} \cup {<<m[1], <<k[2]>> \o m[2]>> : m \in M(k)}
<1>1. ItemLists(Given, p, x) = UNION {part(k) : k \in K}
  BY <1>K DEF ItemLists
<1>2. ASSUME NEW k \in K
      PROVE  \A m : m \in M(k) <=> CWsp(k[1]) # k[1] /\ \E s \in StarCWspEnds(Given, CWsp(k[1])) : m \in x[s].items
  <2>1. k[1] \in p + 1 .. End
    BY <1>K
  <2>2. k[1] \in 0 .. End
    BY <1>0, <2>1
  <2>3. CWspEnds(Given, k[1]) = IF CWsp(k[1]) = k[1] THEN {} ELSE {CWsp(k[1])}
    BY <2>2, CWspFacts
  <2> QED BY <2>3
<1>3. ASSUME NEW k \in K, NEW z PROVE z \in part(k) <=> FirstItem(z, k, x)
  <2>1. z \in part(k) <=> z = <<k[1], <<k[2]>>>> \/ \E m \in M(k) : z = <<m[1], <<k[2]>> \o m[2]>>
    OBVIOUS
  <2> HIDE DEF part, M
  <2> QED BY <1>2, <2>1 DEF FirstItem
<1> HIDE DEF part, M
<1>4. \A z : z \in ItemLists(Given, p, x) <=> \E k \in K : z \in part(k)
  BY <1>1
<1> QED BY <1>3, <1>4, <1>K

(* The items of a branch are read as far as they go: where the items end   *)
(* nothing follows the whitespace that an item could begin with.           *)
LEMMA ConcatenationFacts ==
  ASSUME Typed, NEW p \in 0 .. End, NEW f, NEW x, \A s \in p + 1 .. End : Agrees(f, x, s)
  PROVE  /\ Finds(Concatenation(p, f), ItemLists(Given, p, x), p, NonEmpty(Trees), {})
         /\ \A z \in ItemLists(Given, p, x) : ItemsEnd(z[1]) => Concatenation(p, f) = Read(z[1], z[2])
         /\ ItemLists(Given, p, x) # {} => StartsRepetition(Peek(p))
<1>r. PICK r : r = Concatenation(p, f)
  OBVIOUS
<1>R. PICK R : R = ItemLists(Given, p, x)
  OBVIOUS
<1>n. PICK n : n = Repetition(p, f)
  OBVIOUS
<1>K. PICK K : K = Repetitions(Given, p, x)
  OBVIOUS
<1>0. p \in Nat /\ End \in Nat
  BY PeekFacts
<1> DEFINE g(a) == f[StarCWsp(a)].items
<1>1. /\ n.error \in Errors \cup {None}
      /\ ~Failed(n) => <<n.at, n.value>> \in K
      /\ \A k \in K : /\ k = <<k[1], k[2]>> /\ k[1] \in p + 1 .. End /\ k[2] \in Trees
                      /\ Peek(k[1]) \in Stops => n = Read(k[1], k[2])
                      /\ StartsRepetition(Peek(p))
  BY <1>n, <1>K, RepetitionFacts DEF Finds
<1>2. r = IF Failed(n) THEN n
          ELSE IF StarCWsp(n.at) = n.at \/ ~StartsRepetition(Peek(StarCWsp(n.at))) THEN Read(n.at, <<n.value>>)
          ELSE IF Failed(g(n.at)) THEN g(n.at)
          ELSE Read(g(n.at).at, <<n.value>> \o g(n.at).value)
  BY <1>r, <1>n DEF Concatenation, AndThen
<1>a. \A z : z \in R <=> \E k \in K : FirstItem(z, k, x)
  <2>1. \A z \in Repetitions(Given, p, x) : z[1] \in p + 1 .. End
    BY <1>1, <1>K
  <2> QED BY <1>R, <1>K, <2>1, ItemListsAre
<1>3. \A z : z \in R <=>
        \E k \in K : \/ z = <<k[1], <<k[2]>>>>
                     \/ CWsp(k[1]) # k[1] /\ \E s \in StarCWspEnds(Given, CWsp(k[1])) : \E m \in x[s].items :
                          z = <<m[1], <<k[2]>> \o m[2]>>
  BY <1>a, Zenon DEF FirstItem
<1>4. ASSUME NEW s \in p + 1 .. End
      PROVE  /\ f[s].items.error \in Errors \cup {None}
             /\ ~Failed(f[s].items) => <<f[s].items.at, f[s].items.value>> \in x[s].items
             /\ \A m \in x[s].items : /\ m = <<m[1], m[2]>> /\ m[1] \in s + 1 .. End /\ m[2] \in NonEmpty(Trees)
                                      /\ ItemsEnd(m[1]) => f[s].items = Read(m[1], m[2])
                                      /\ StartsRepetition(Peek(s))
  BY DEF Agrees, Finds
<1>5. ASSUME NEW k \in K
      PROVE  /\ k[1] \in 0 .. End /\ k[1] \in p + 1 .. End /\ k[2] \in Trees
             /\ ItemsEnd(k[1]) => r = Read(k[1], <<k[2]>>)
  <2>1. k[1] \in 0 .. End /\ k[1] \in p + 1 .. End /\ k[2] \in Trees
    BY <1>0, <1>1
  <2>2. ASSUME ItemsEnd(k[1]) PROVE r = Read(k[1], <<k[2]>>)
    <3>1. Peek(k[1]) \in Stops /\ ~StartsRepetition(Peek(StarCWsp(k[1])))
      BY <2>2 DEF ItemsEnd
    <3>2. n = Read(k[1], k[2])
      BY <1>1, <3>1
    <3>3. ~Failed(n) /\ n.at = k[1] /\ n.value = k[2]
      BY <3>2, ReadIs
    <3> QED BY <1>2, <3>1, <3>3
  <2> QED BY <2>1, <2>2
<1>6. ASSUME NEW k \in K, CWsp(k[1]) # k[1]
      PROVE  /\ StarCWsp(k[1]) \in StarCWspEnds(Given, CWsp(k[1]))
             /\ Peek(k[1]) \in Stops
             /\ \A s \in StarCWspEnds(Given, CWsp(k[1])) :
                  s \in p + 1 .. End /\ s # k[1] /\ (Peek(s) \notin Blanks => s = StarCWsp(k[1]))
  <2>c. PICK c : c = CWsp(k[1])
    OBVIOUS
  <2>1. k[1] \in 0 .. End /\ k[1] \in p + 1 .. End
    BY <1>5
  <2>2. c \in k[1] .. End /\ Peek(k[1]) \in Blanks
    BY <1>6, <2>1, <2>c, CWspFacts
  <2>3. c \in k[1] + 1 .. End /\ c \in 0 .. End
    BY <1>0, <1>6, <2>1, <2>2, <2>c
  <2>4. StarCWsp(k[1]) = StarCWsp(c)
    BY <2>1, <2>c, StarFacts
  <2>5. StarCWsp(c) \in StarCWspEnds(Given, c)
        /\ \A s \in StarCWspEnds(Given, c) : s \in c .. End
    BY <2>3, StarFacts
  <2>6. \A s \in c .. End : s \in p + 1 .. End /\ s # k[1]
    BY <1>0, <2>1, <2>3
  <2>7. \A s \in StarCWspEnds(Given, c) : Peek(s) \notin Blanks => s = StarCWsp(c)
    BY <2>3, StarEnds
  <2> QED BY <2>2, <2>4, <2>5, <2>6, <2>7, <2>c DEF Stops
<1>7. ASSUME NEW k \in K, CWsp(k[1]) # k[1], NEW s \in StarCWspEnds(Given, CWsp(k[1])), NEW m \in x[s].items
      PROVE  /\ m[1] \in p + 1 .. End /\ <<k[2]>> \o m[2] \in NonEmpty(Trees)
             /\ ItemsEnd(m[1]) => r = Read(m[1], <<k[2]>> \o m[2])
  <2>1. s \in p + 1 .. End /\ s # k[1] /\ Peek(k[1]) \in Stops /\ (Peek(s) \notin Blanks => s = StarCWsp(k[1]))
    BY <1>6, <1>7
  <2>2. /\ m[1] \in s + 1 .. End /\ m[2] \in NonEmpty(Trees) /\ StartsRepetition(Peek(s))
        /\ ItemsEnd(m[1]) => f[s].items = Read(m[1], m[2])
    BY <1>4, <2>1
  <2>3. s = StarCWsp(k[1])
    BY <2>1, <2>2, StartFacts
  <2>4. n = Read(k[1], k[2])
    BY <1>1, <2>1
  <2>5. ~Failed(n) /\ n.at = k[1] /\ n.value = k[2]
    BY <2>4, ReadIs
  <2>6. r = IF Failed(g(k[1])) THEN g(k[1]) ELSE Read(g(k[1]).at, <<k[2]>> \o g(k[1]).value)
    <3>1. StarCWsp(k[1]) # k[1] /\ StartsRepetition(Peek(StarCWsp(k[1])))
      BY <2>1, <2>2, <2>3
    <3> HIDE DEF g
    <3> QED BY <1>2, <2>5, <3>1
  <2>7. ASSUME ItemsEnd(m[1]) PROVE r = Read(m[1], <<k[2]>> \o m[2])
    <3>1. g(k[1]) = Read(m[1], m[2])
      BY <2>2, <2>3, <2>7
    <3>2. ~Failed(g(k[1])) /\ g(k[1]).at = m[1] /\ g(k[1]).value = m[2]
      <4> HIDE DEF g
      <4> QED BY <3>1, ReadIs
    <3> HIDE DEF g
    <3> QED BY <2>6, <3>2
  <2>8. m[1] \in p + 1 .. End
    BY <1>0, <2>1, <2>2
  <2>9. <<k[2]>> \o m[2] \in NonEmpty(Trees)
    BY <1>5, <2>2, NonEmptyFacts
  <2> QED BY <2>7, <2>8, <2>9
<1>8. ASSUME NEW z \in R
      PROVE  /\ z = <<z[1], z[2]>> /\ z[1] \in p + 1 .. End /\ z[2] \in NonEmpty(Trees)
             /\ ItemsEnd(z[1]) => r = Read(z[1], z[2])
             /\ StartsRepetition(Peek(p))
  <2>k. PICK k \in K : \/ z = <<k[1], <<k[2]>>>>
                       \/ CWsp(k[1]) # k[1] /\ \E s \in StarCWspEnds(Given, CWsp(k[1])) : \E m \in x[s].items :
                          z = <<m[1], <<k[2]>> \o m[2]>>
    BY <1>3
  <2>1. CASE z = <<k[1], <<k[2]>>>>
    <3>1. z[1] = k[1] /\ z[2] = <<k[2]>>
      BY <2>1
    <3>2. <<k[2]>> \in NonEmpty(Trees)
      BY <1>5, NonEmptyFacts
    <3> QED BY <1>1, <1>5, <2>1, <3>1, <3>2
  <2>2. CASE CWsp(k[1]) # k[1] /\ \E s \in StarCWspEnds(Given, CWsp(k[1])) : \E m \in x[s].items :
                          z = <<m[1], <<k[2]>> \o m[2]>>
    <3>s. PICK s \in StarCWspEnds(Given, CWsp(k[1])) : \E m \in x[s].items : z = <<m[1], <<k[2]>> \o m[2]>>
      BY <2>2
    <3>m. PICK m \in x[s].items : z = <<m[1], <<k[2]>> \o m[2]>>
      BY <3>s
    <3>v. PICK v : v = <<k[2]>> \o m[2]
      OBVIOUS
    <3>1. z = <<m[1], v>> /\ z[1] = m[1] /\ z[2] = v
      BY <3>m, <3>v
    <3>2. /\ m[1] \in p + 1 .. End /\ v \in NonEmpty(Trees)
          /\ ItemsEnd(m[1]) => r = Read(m[1], v)
      BY <1>7, <2>2, <3>v
    <3> QED BY <1>1, <3>1, <3>2
  <2> QED BY <2>k, <2>1, <2>2
<1>9. r.error \in Errors \cup {None} /\ (~Failed(r) => <<r.at, r.value>> \in R)
  <2>1. CASE Failed(n)
    BY <1>1, <1>2, <2>1
  <2>2. CASE ~Failed(n)
    <3>k. PICK k : k = <<n.at, n.value>>
      OBVIOUS
    <3>1. k \in K /\ k[1] = n.at /\ k[2] = n.value
      BY <1>1, <2>2, <3>k
    <3>2. CASE StarCWsp(k[1]) = k[1] \/ ~StartsRepetition(Peek(StarCWsp(k[1])))
      <4>v. PICK v : v = <<k[2]>>
        OBVIOUS
      <4>1. r = Read(k[1], v)
        <5> HIDE DEF g
        <5> QED BY <1>2, <2>2, <3>1, <3>2, <4>v
      <4>2. r.error = None /\ r.at = k[1] /\ r.value = v
        BY <4>1, ReadIs
      <4>3. <<k[1], v>> \in R
        BY <1>3, <3>1, <4>v
      <4> QED BY <4>2, <4>3
    <3>3. CASE StarCWsp(k[1]) # k[1] /\ StartsRepetition(Peek(StarCWsp(k[1])))
      <4>s. PICK s : s = StarCWsp(k[1])
        OBVIOUS
      <4>1. k[1] \in 0 .. End
        BY <1>5, <3>1
      <4>2. CWsp(k[1]) # k[1]
        BY <3>3, <4>1, StarFacts
      <4>3. s \in StarCWspEnds(Given, CWsp(k[1])) /\ s \in p + 1 .. End
        BY <1>6, <3>1, <4>2, <4>s
      <4>t. PICK t : t = f[s].items
        OBVIOUS
      <4>4. t.error \in Errors \cup {None} /\ (~Failed(t) => <<t.at, t.value>> \in x[s].items)
        BY <1>4, <4>3, <4>t
      <4>5. r = IF Failed(t) THEN t ELSE Read(t.at, <<k[2]>> \o t.value)
        <5>1. g(k[1]) = t
          BY <4>s, <4>t
        <5> HIDE DEF g
        <5> QED BY <1>2, <2>2, <3>1, <3>3, <5>1
      <4>6. CASE Failed(t)
        BY <4>4, <4>5, <4>6
      <4>7. CASE ~Failed(t)
        <5>m. PICK m : m = <<t.at, t.value>>
          OBVIOUS
        <5>1. m \in x[s].items /\ m[1] = t.at /\ m[2] = t.value
          BY <4>4, <4>7, <5>m
        <5>v. PICK v : v = <<k[2]>> \o m[2]
          OBVIOUS
        <5>2. <<m[1], v>> \in R
          BY <1>3, <3>1, <4>2, <4>3, <5>1, <5>v
        <5>3. r = Read(m[1], v)
          BY <4>5, <4>7, <5>1, <5>v
        <5>4. r.error = None /\ r.at = m[1] /\ r.value = v
          BY <5>3, ReadIs
        <5> QED BY <5>2, <5>4
      <4> QED BY <4>6, <4>7
    <3> QED BY <3>2, <3>3
  <2> QED BY <2>1, <2>2
<1>10. Finds(r, R, p, NonEmpty(Trees), {})
  BY <1>8, <1>9 DEF Finds
<1>11. (\A z \in R : ItemsEnd(z[1]) => r = Read(z[1], z[2])) /\ (R # {} => StartsRepetition(Peek(p)))
  BY <1>8
<1> QED BY <1>10, <1>11, <1>r, <1>R

(* `z` is a reading of branches of which the first has the items `c`.      *)
FirstBranch(z, c, x) ==
  \/ z = <<c[1], <<UnwrapSingle(c[2], "concat")>>>>
  \/ /\ Peek(StarCWsp(c[1])) = "/"
     /\ \E s \in StarCWspEnds(Given, StarCWsp(c[1]) + 1) : \E m \in x[s].branches :
          z = <<m[1], <<UnwrapSingle(c[2], "concat")>> \o m[2]>>

(* The readings of branches, the first read as one of `I`, one by one.     *)
LEMMA BranchListsAre ==
  ASSUME Typed, NEW p \in 0 .. End, NEW x, NEW I, \A c \in I : c[1] \in p + 1 .. End
  PROVE  \A z : z \in BranchLists(Given, I, x) <=> \E c \in I : FirstBranch(z, c, x)
<1>0. p \in Nat /\ End \in Nat /\ "/" \in CHAR \ Blanks
  <2>1. "/" \in CHAR \ Blanks
    BY DEF CHAR, VCHAR, Blanks, Breaks, WSP
  <2> QED BY <2>1, PeekFacts
<1> DEFINE u(c) == <<UnwrapSingle(c[2], "concat")>>
           M(c) == UNION {x[s].branches : s \in Separated(Given, c[1], "/")}
           part(c) == {<<c[1], u(c)>>} \cup {<<m[1], u(c) \o m[2]>> : m \in M(c)}
<1>1. BranchLists(Given, I, x) = UNION {part(c) : c \in I}
  BY DEF BranchLists
<1>2. ASSUME NEW c \in I
      PROVE  \A m : m \in M(c) <=> /\ Peek(StarCWsp(c[1])) = "/"
                                   /\ \E s \in StarCWspEnds(Given, StarCWsp(c[1]) + 1) : m \in x[s].branches
  <2>1. c[1] \in 0 .. End
    BY <1>0
  <2>2. After(Given, StarCWspEnds(Given, c[1]), "/") = IF Peek(StarCWsp(c[1])) = "/" THEN {StarCWsp(c[1]) + 1} ELSE {}
    BY <1>0, <2>1, UpToFacts
  <2>3. Separated(Given, c[1], "/") = IF Peek(StarCWsp(c[1])) = "/" THEN StarCWspEnds(Given, StarCWsp(c[1]) + 1) ELSE {}
    BY <2>2 DEF Separated
  <2> QED BY <2>3
<1>3. ASSUME NEW c \in I, NEW z PROVE z \in part(c) <=> FirstBranch(z, c, x)
  <2>1. z \in part(c) <=> z = <<c[1], u(c)>> \/ \E m \in M(c) : z = <<m[1], u(c) \o m[2]>>
    OBVIOUS
  <2> HIDE DEF part, M
  <2> QED BY <1>2, <2>1 DEF FirstBranch
<1> HIDE DEF part, M
<1>4. \A z : z \in BranchLists(Given, I, x) <=> \E c \in I : z \in part(c)
  BY <1>1
<1> QED BY <1>3, <1>4

(* The branches are read as far as they go: where they end, no slash       *)
(* follows the whitespace, which is given back.                            *)
LEMMA BranchesFacts ==
  ASSUME Typed, NEW p \in 0 .. End, NEW f, NEW x, \A s \in p + 1 .. End : Agrees(f, x, s),
         NEW i, NEW I, Finds(i, I, p, NonEmpty(Trees), {}),
         \A z \in I : ItemsEnd(z[1]) => i = Read(z[1], z[2]),
         I # {} => StartsRepetition(Peek(p))
  PROVE  /\ Finds(Branches(i, f), BranchLists(Given, I, x), p, NonEmpty(Trees), {})
         /\ \A z \in BranchLists(Given, I, x) : BranchesEnd(z[1]) => Branches(i, f) = Read(z[1], z[2])
         /\ BranchLists(Given, I, x) # {} => StartsRepetition(Peek(p))
<1>r. PICK r : r = Branches(i, f)
  OBVIOUS
<1>R. PICK R : R = BranchLists(Given, I, x)
  OBVIOUS
<1>0. p \in Nat /\ End \in Nat /\ "/" \in CHAR \ Blanks /\ "/" \in Stops /\ Blanks \subseteq Stops
      /\ ~StartsRepetition("/")
  <2>1. "/" \in CHAR \ Blanks /\ "/" \in Stops /\ Blanks \subseteq Stops
    BY DEF CHAR, VCHAR, Blanks, Breaks, WSP, Stops
  <2> QED BY <2>1, PeekFacts, StartFacts
<1> DEFINE u(c) == <<UnwrapSingle(c[2], "concat")>>
           on(a) == StarCWsp(StarCWsp(a) + 1)
           g(a) == f[on(a)].branches
<1>1. /\ i.error \in Errors \cup {None}
      /\ ~Failed(i) => <<i.at, i.value>> \in I
      /\ \A c \in I : /\ c = <<c[1], c[2]>> /\ c[1] \in p + 1 .. End /\ c[2] \in NonEmpty(Trees)
                      /\ ItemsEnd(c[1]) => i = Read(c[1], c[2])
                      /\ StartsRepetition(Peek(p))
  BY DEF Finds
<1>2. ASSUME NEW c \in I, ~Failed(i), i.at = c[1], i.value = c[2]
      PROVE  r = IF Peek(StarCWsp(c[1])) # "/" THEN Read(c[1], u(c))
                 ELSE IF Failed(g(c[1])) THEN g(c[1])
                 ELSE Read(g(c[1]).at, u(c) \o g(c[1]).value)
  BY <1>2, <1>r DEF Branches, AndThen
<1>a. Failed(i) => r = i
  BY <1>r DEF Branches, AndThen
<1>b. \A z : z \in R <=> \E c \in I : FirstBranch(z, c, x)
  <2>1. \A c \in I : c[1] \in p + 1 .. End
    BY <1>1
  <2> QED BY <1>R, <2>1, BranchListsAre
<1>3. \A z : z \in R <=>
        \E c \in I : \/ z = <<c[1], u(c)>>
                     \/ /\ Peek(StarCWsp(c[1])) = "/"
                        /\ \E s \in StarCWspEnds(Given, StarCWsp(c[1]) + 1) : \E m \in x[s].branches :
                             z = <<m[1], u(c) \o m[2]>>
  BY <1>b, Zenon DEF FirstBranch
<1>4. ASSUME NEW s \in p + 1 .. End
      PROVE  /\ f[s].branches.error \in Errors \cup {None}
             /\ ~Failed(f[s].branches) => <<f[s].branches.at, f[s].branches.value>> \in x[s].branches
             /\ \A m \in x[s].branches : /\ m = <<m[1], m[2]>> /\ m[1] \in s + 1 .. End /\ m[2] \in NonEmpty(Trees)
                                         /\ BranchesEnd(m[1]) => f[s].branches = Read(m[1], m[2])
                                         /\ StartsRepetition(Peek(s))
  BY DEF Agrees, Finds
<1>5. ASSUME NEW c \in I
      PROVE  /\ c[1] \in 0 .. End /\ c[1] \in p + 1 .. End /\ UnwrapSingle(c[2], "concat") \in Trees
             /\ u(c) \in NonEmpty(Trees)
             /\ BranchesEnd(c[1]) => r = Read(c[1], u(c))
  <2>1. c[1] \in 0 .. End /\ c[1] \in p + 1 .. End /\ c[2] \in NonEmpty(Trees)
    BY <1>0, <1>1
  <2>2. UnwrapSingle(c[2], "concat") \in Trees /\ u(c) \in NonEmpty(Trees)
    BY <2>1, TreesAre, NonEmptyFacts
  <2>3. ASSUME BranchesEnd(c[1]) PROVE r = Read(c[1], u(c))
    <3>1. ItemsEnd(c[1]) /\ Peek(StarCWsp(c[1])) # "/"
      BY <2>3 DEF BranchesEnd
    <3>2. i = Read(c[1], c[2])
      BY <1>1, <3>1
    <3>3. ~Failed(i) /\ i.at = c[1] /\ i.value = c[2]
      BY <3>2, ReadIs
    <3> HIDE DEF u, g
    <3> QED BY <1>2, <3>1, <3>3
  <2> QED BY <2>1, <2>2, <2>3
<1>6. ASSUME NEW c \in I, Peek(StarCWsp(c[1])) = "/"
      PROVE  /\ on(c[1]) \in StarCWspEnds(Given, StarCWsp(c[1]) + 1)
             /\ ItemsEnd(c[1])
             /\ \A s \in StarCWspEnds(Given, StarCWsp(c[1]) + 1) :
                  s \in p + 1 .. End /\ (Peek(s) \notin Blanks => s = on(c[1]))
  <2>b. PICK b : b = StarCWsp(c[1]) + 1
    OBVIOUS
  <2>1. c[1] \in 0 .. End /\ c[1] \in p + 1 .. End
    BY <1>5
  <2>2. b \in c[1] + 1 .. End /\ Peek(c[1]) \in Blanks \cup {"/"}
    BY <1>0, <1>6, <2>1, <2>b, UpToFacts
  <2>3. b \in 0 .. End
    BY <1>0, <2>1, <2>2
  <2>4. StarCWsp(b) \in StarCWspEnds(Given, b)
        /\ \A s \in StarCWspEnds(Given, b) : s \in b .. End
    BY <2>3, StarFacts
  <2>5. \A s \in b .. End : s \in p + 1 .. End
    BY <1>0, <2>1, <2>2
  <2>6. \A s \in StarCWspEnds(Given, b) : Peek(s) \notin Blanks => s = StarCWsp(b)
    BY <2>3, StarEnds
  <2>7. ItemsEnd(c[1])
    BY <1>0, <1>6, <2>2 DEF ItemsEnd
  <2> QED BY <2>4, <2>5, <2>6, <2>7, <2>b
<1>7. ASSUME NEW c \in I, Peek(StarCWsp(c[1])) = "/",
             NEW s \in StarCWspEnds(Given, StarCWsp(c[1]) + 1), NEW m \in x[s].branches
      PROVE  /\ m[1] \in p + 1 .. End /\ u(c) \o m[2] \in NonEmpty(Trees)
             /\ BranchesEnd(m[1]) => r = Read(m[1], u(c) \o m[2])
  <2>1. s \in p + 1 .. End /\ ItemsEnd(c[1]) /\ (Peek(s) \notin Blanks => s = on(c[1]))
    BY <1>6, <1>7
  <2>2. /\ m[1] \in s + 1 .. End /\ m[2] \in NonEmpty(Trees) /\ StartsRepetition(Peek(s))
        /\ BranchesEnd(m[1]) => f[s].branches = Read(m[1], m[2])
    BY <1>4, <2>1
  <2>3. s = on(c[1])
    BY <2>1, <2>2, StartFacts
  <2>4. i = Read(c[1], c[2])
    BY <1>1, <2>1
  <2>5. ~Failed(i) /\ i.at = c[1] /\ i.value = c[2]
    BY <2>4, ReadIs
  <2>6. r = IF Failed(g(c[1])) THEN g(c[1]) ELSE Read(g(c[1]).at, u(c) \o g(c[1]).value)
    <3> HIDE DEF g, u
    <3> QED BY <1>2, <1>7, <2>5
  <2>7. ASSUME BranchesEnd(m[1]) PROVE r = Read(m[1], u(c) \o m[2])
    <3>1. g(c[1]) = Read(m[1], m[2])
      BY <2>2, <2>3, <2>7
    <3>2. ~Failed(g(c[1])) /\ g(c[1]).at = m[1] /\ g(c[1]).value = m[2]
      <4> HIDE DEF g
      <4> QED BY <3>1, ReadIs
    <3> HIDE DEF g, u
    <3> QED BY <2>6, <3>2
  <2>8. m[1] \in p + 1 .. End
    BY <1>0, <2>1, <2>2
  <2>9. u(c) \o m[2] \in NonEmpty(Trees)
    BY <1>5, <2>2, NonEmptyFacts
  <2> QED BY <2>7, <2>8, <2>9
<1>8. ASSUME NEW z \in R
      PROVE  /\ z = <<z[1], z[2]>> /\ z[1] \in p + 1 .. End /\ z[2] \in NonEmpty(Trees)
             /\ BranchesEnd(z[1]) => r = Read(z[1], z[2])
             /\ StartsRepetition(Peek(p))
  <2>c. PICK c \in I : \/ z = <<c[1], u(c)>>
                       \/ /\ Peek(StarCWsp(c[1])) = "/"
                          /\ \E s \in StarCWspEnds(Given, StarCWsp(c[1]) + 1) : \E m \in x[s].branches :
                               z = <<m[1], u(c) \o m[2]>>
    BY <1>3
  <2>1. CASE z = <<c[1], u(c)>>
    <3>1. z[1] = c[1] /\ z[2] = u(c)
      BY <2>1
    <3> HIDE DEF u
    <3> QED BY <1>1, <1>5, <2>1, <3>1
  <2>2. CASE /\ Peek(StarCWsp(c[1])) = "/"
             /\ \E s \in StarCWspEnds(Given, StarCWsp(c[1]) + 1) : \E m \in x[s].branches :
                  z = <<m[1], u(c) \o m[2]>>
    <3>s. PICK s \in StarCWspEnds(Given, StarCWsp(c[1]) + 1) : \E m \in x[s].branches : z = <<m[1], u(c) \o m[2]>>
      BY <2>2
    <3>m. PICK m \in x[s].branches : z = <<m[1], u(c) \o m[2]>>
      BY <3>s
    <3>v. PICK v : v = u(c) \o m[2]
      OBVIOUS
    <3>1. z = <<m[1], v>> /\ z[1] = m[1] /\ z[2] = v
      BY <3>m, <3>v
    <3>2. /\ m[1] \in p + 1 .. End /\ v \in NonEmpty(Trees)
          /\ BranchesEnd(m[1]) => r = Read(m[1], v)
      BY <1>7, <2>2, <3>v
    <3> QED BY <1>1, <3>1, <3>2
  <2> QED BY <2>c, <2>1, <2>2
<1>9. r.error \in Errors \cup {None} /\ (~Failed(r) => <<r.at, r.value>> \in R)
  <2>1. CASE Failed(i)
    BY <1>1, <1>a, <2>1
  <2>2. CASE ~Failed(i)
    <3>c. PICK c : c = <<i.at, i.value>>
      OBVIOUS
    <3>1. c \in I /\ c[1] = i.at /\ c[2] = i.value
      BY <1>1, <2>2, <3>c
    <3>w. PICK w : w = u(c)
      OBVIOUS
    <3>s. PICK s : s = on(c[1])
      OBVIOUS
    <3>t. PICK t : t = f[s].branches
      OBVIOUS
    <3>2. r = IF Peek(StarCWsp(c[1])) # "/" THEN Read(c[1], w)
              ELSE IF Failed(t) THEN t ELSE Read(t.at, w \o t.value)
      BY <1>2, <2>2, <3>1, <3>w, <3>s, <3>t
    <3>3. CASE Peek(StarCWsp(c[1])) # "/"
      <4>1. r = Read(c[1], w)
        BY <3>2, <3>3
      <4>2. r.error = None /\ r.at = c[1] /\ r.value = w
        BY <4>1, ReadIs
      <4>3. <<c[1], w>> \in R
        BY <1>3, <3>1, <3>w
      <4> QED BY <4>2, <4>3
    <3>4. CASE Peek(StarCWsp(c[1])) = "/"
      <4>1. s \in StarCWspEnds(Given, StarCWsp(c[1]) + 1) /\ s \in p + 1 .. End
        BY <1>6, <3>1, <3>4, <3>s
      <4>2. t.error \in Errors \cup {None} /\ (~Failed(t) => <<t.at, t.value>> \in x[s].branches)
        BY <1>4, <4>1, <3>t
      <4>3. CASE Failed(t)
        BY <3>2, <3>4, <4>2, <4>3
      <4>4. CASE ~Failed(t)
        <5>m. PICK m : m = <<t.at, t.value>>
          OBVIOUS
        <5>1. m \in x[s].branches /\ m[1] = t.at /\ m[2] = t.value
          BY <4>2, <4>4, <5>m
        <5>v. PICK v : v = w \o m[2]
          OBVIOUS
        <5>2. <<m[1], v>> \in R
          BY <1>3, <3>1, <3>4, <4>1, <5>1, <5>v, <3>w
        <5>3. r = Read(m[1], v)
          BY <3>2, <3>4, <4>4, <5>1, <5>v
        <5>4. r.error = None /\ r.at = m[1] /\ r.value = v
          BY <5>3, ReadIs
        <5> QED BY <5>2, <5>4
      <4> QED BY <4>3, <4>4
    <3> QED BY <3>3, <3>4
  <2> QED BY <2>1, <2>2
<1>10. Finds(r, R, p, NonEmpty(Trees), {})
  BY <1>8, <1>9 DEF Finds
<1>11. (\A z \in R : BranchesEnd(z[1]) => r = Read(z[1], z[2])) /\ (R # {} => StartsRepetition(Peek(p)))
  BY <1>8
<1> QED BY <1>10, <1>11, <1>r, <1>R

(* What is at `q` is found from what is at greater positions only, by the  *)
(* parser and by the grammar: first, what is in brackets.                  *)
Same(f, g, p) == \A s \in p + 1 .. End : f[s] = g[s]

(* What is the same after a position is so after a later one.              *)
LEMMA SameFrom ==
  ASSUME NEW f, NEW g, NEW p \in Nat, NEW q \in p .. End, End \in Nat, Same(f, g, p)
  PROVE  Same(f, g, q)
<1>1. \A s \in q + 1 .. End : s \in p + 1 .. End
  OBVIOUS
<1> QED BY <1>1 DEF Same

(* The parser finds an element here from what it finds further on.         *)
LEMMA SameElement ==
  ASSUME Typed, NEW p \in 0 .. End, NEW f, NEW g, Same(f, g, p)
  PROVE  Element(p, f) = Element(p, g)
<1>0. p \in Nat /\ End \in Nat
  BY PeekFacts
<1>1. ASSUME NEW close, Peek(p) # "END" PROVE Enclosed(p, close, f) = Enclosed(p, close, g)
  <2>1. p + 1 \in 0 .. End
    BY <1>0, <1>1, PeekFacts
  <2>2. StarCWsp(p + 1) \in p + 1 .. End
    BY <2>1, StarFacts
  <2>3. f[StarCWsp(p + 1)] = g[StarCWsp(p + 1)]
    BY <2>2 DEF Same
  <2>4. Alternation(StarCWsp(p + 1), f) = Alternation(StarCWsp(p + 1), g)
    BY <2>3 DEF Alternation, AndThen
  <2> QED BY <2>4 DEF Enclosed, AndThen
<1>2. CASE Peek(p) \in {"(", "["}
  <2>1. Enclosed(p, ")", f) = Enclosed(p, ")", g) /\ Enclosed(p, "]", f) = Enclosed(p, "]", g)
    BY <1>1, <1>2
  <2>2. Group(p, f) = Group(p, g) /\ Option(p, f) = Option(p, g)
    BY <2>1 DEF Group, Option, AndThen
  <2>3. CASE Peek(p) = "("
    <3>1. "(" \notin ALPHA
      BY Letters
    <3>2. Element(p, f) = Group(p, f) /\ Element(p, g) = Group(p, g)
      BY <2>3, <3>1 DEF Element
    <3> QED BY <2>2, <3>2
  <2>4. CASE Peek(p) = "["
    <3>1. "[" \notin ALPHA
      BY Letters
    <3>2. Element(p, f) = Option(p, f) /\ Element(p, g) = Option(p, g)
      BY <2>4, <3>1 DEF Element
    <3> QED BY <2>2, <3>2
  <2> QED BY <1>2, <2>3, <2>4
<1>3. CASE Peek(p) \notin {"(", "["}
  <2>1. CASE Peek(p) \in ALPHA
    <3>1. Element(p, f) = AndThen(Rulename(p), LAMBDA name : Read(name.at, Ref(name.value)))
      BY <2>1, Letters DEF Element, AndThen
    <3>2. Element(p, g) = AndThen(Rulename(p), LAMBDA name : Read(name.at, Ref(name.value)))
      BY <2>1, Letters DEF Element, AndThen
    <3> QED BY <3>1, <3>2
  <2>2. CASE Peek(p) = "DQUOTE"
    BY <2>2, Letters DEF Element
  <2>3. CASE Peek(p) = "%"
    BY <2>3, Letters DEF Element
  <2>4. CASE Peek(p) = "<"
    BY <2>4, Letters DEF Element
  <2>5. CASE Peek(p) \notin ALPHA \cup {"(", "[", "DQUOTE", "%", "<"}
    BY <2>5 DEF Element
  <2> QED BY <1>3, <2>1, <2>2, <2>3, <2>4, <2>5
<1> QED BY <1>2, <1>3

(* Where an element begins: after the bounds, if there are any.            *)
LEMMA SameRepetition ==
  ASSUME Typed, NEW p \in 0 .. End, NEW f, NEW g, Same(f, g, p)
  PROVE  Repetition(p, f) = Repetition(p, g)
<1>0. p \in Nat /\ End \in Nat
  BY PeekFacts
<1>b. PICK b : b = Bounds(p)
  OBVIOUS
<1>1. ASSUME ~Failed(b) PROVE b.at \in p .. End
  <2>1. CASE b = Read(p, None)
    <3>1. b.at = p
      BY <2>1, ReadIs
    <3> QED BY <1>0, <3>1
  <2>2. CASE <<b.at, b.value>> \in Repeats(Given, p)
    <3>k. PICK k : k = <<b.at, b.value>>
      OBVIOUS
    <3>1. k[1] \in p + 1 .. End /\ k[1] = b.at
      BY <2>2, <3>k, BoundsFacts
    <3> QED BY <1>0, <3>1
  <2> QED BY <1>1, <1>b, <2>1, <2>2, BoundsFacts
<1>2. ~Failed(b) => Element(b.at, f) = Element(b.at, g)
  <2>1. ASSUME ~Failed(b) PROVE Element(b.at, f) = Element(b.at, g)
    <3>1. b.at \in p .. End /\ b.at \in 0 .. End
      BY <1>0, <1>1, <2>1
    <3>2. Same(f, g, b.at)
      BY <1>0, <3>1, SameFrom
    <3> QED BY <3>1, <3>2, SameElement
  <2> QED BY <2>1
<1> DEFINE E(h) == IF Failed(b) THEN b
                   ELSE IF Failed(Element(b.at, h)) THEN Element(b.at, h)
                   ELSE IF b.value = None THEN Element(b.at, h)
                   ELSE Read(Element(b.at, h).at, Repeat(b.value.min, b.value.max, Element(b.at, h).value))
<1>3. Repetition(p, f) = E(f) /\ Repetition(p, g) = E(g)
  BY <1>b DEF Repetition, AndThen
<1>4. E(f) = E(g)
  BY <1>2
<1> QED BY <1>3, <1>4

(* And the items of a branch.                                              *)
LEMMA SameItems ==
  ASSUME Typed, NEW p \in 0 .. End, NEW f, NEW g, NEW x, Same(f, g, p), \A s \in p + 1 .. End : Agrees(f, x, s)
  PROVE  Concatenation(p, f) = Concatenation(p, g)
<1>0. p \in Nat /\ End \in Nat
  BY PeekFacts
<1>n. PICK n : n = Repetition(p, f)
  OBVIOUS
<1>1. Repetition(p, g) = n
  BY <1>n, SameRepetition
<1>2. ~Failed(n) => f[StarCWsp(n.at)] = g[StarCWsp(n.at)]
  <2>1. ASSUME ~Failed(n) PROVE StarCWsp(n.at) \in p + 1 .. End
    <3>k. PICK k : k = <<n.at, n.value>>
      OBVIOUS
    <3>1. k \in Repetitions(Given, p, x) /\ k[1] = n.at
      BY <1>n, <2>1, <3>k, RepetitionFacts DEF Finds
    <3>2. n.at \in p + 1 .. End
      BY <3>1, RepetitionFacts DEF Finds
    <3>3. n.at \in 0 .. End
      BY <1>0, <3>2
    <3>4. StarCWsp(n.at) \in n.at .. End
      BY <3>3, StarFacts
    <3> QED BY <1>0, <3>2, <3>4
  <2> QED BY <2>1 DEF Same
<1> DEFINE E(h) == IF Failed(n) THEN n
                   ELSE IF StarCWsp(n.at) = n.at \/ ~StartsRepetition(Peek(StarCWsp(n.at))) THEN Read(n.at, <<n.value>>)
                   ELSE IF Failed(h[StarCWsp(n.at)].items) THEN h[StarCWsp(n.at)].items
                   ELSE Read(h[StarCWsp(n.at)].items.at, <<n.value>> \o h[StarCWsp(n.at)].items.value)
<1>3. Concatenation(p, f) = E(f) /\ Concatenation(p, g) = E(g)
  BY <1>n, <1>1 DEF Concatenation, AndThen
<1>4. E(f) = E(g)
  BY <1>2
<1> QED BY <1>3, <1>4

(* And, with the items in hand, the branches.                              *)
LEMMA SameBranches ==
  ASSUME Typed, NEW p \in 0 .. End, NEW f, NEW g, Same(f, g, p),
         NEW i, ~Failed(i) => i.at \in p + 1 .. End
  PROVE  Branches(i, f) = Branches(i, g)
<1>0. p \in Nat /\ End \in Nat /\ "/" # "END"
  BY PeekFacts
<1>q. PICK q : q = StarCWsp(i.at)
  OBVIOUS
<1>1. ASSUME ~Failed(i), Peek(q) = "/" PROVE f[StarCWsp(q + 1)] = g[StarCWsp(q + 1)]
  <2>1. i.at \in 0 .. End /\ i.at \in p + 1 .. End
    BY <1>0, <1>1
  <2>2. q \in i.at .. End
    BY <1>q, <2>1, StarFacts
  <2>3. q \in Nat
    BY <1>0, <2>1, <2>2
  <2>4. q < End
    BY <1>0, <1>1, <2>3, PeekFacts
  <2>5. q + 1 \in p + 1 .. End /\ q + 1 \in 0 .. End
    BY <1>0, <2>1, <2>2, <2>4
  <2>6. StarCWsp(q + 1) \in q + 1 .. End
    BY <2>5, StarFacts
  <2>7. StarCWsp(q + 1) \in p + 1 .. End
    BY <1>0, <2>5, <2>6
  <2> QED BY <2>7 DEF Same
<1> DEFINE u == <<UnwrapSingle(i.value, "concat")>>
           E(h) == IF Failed(i) THEN i
                   ELSE IF Peek(q) # "/" THEN Read(i.at, u)
                   ELSE IF Failed(h[StarCWsp(q + 1)].branches) THEN h[StarCWsp(q + 1)].branches
                   ELSE Read(h[StarCWsp(q + 1)].branches.at, u \o h[StarCWsp(q + 1)].branches.value)
<1>3. Branches(i, f) = E(f) /\ Branches(i, g) = E(g)
  BY <1>q DEF Branches, AndThen
<1>4. E(f) = E(g)
  BY <1>1
<1> QED BY <1>3, <1>4

(* And the same of the grammar.                                            *)
LEMMA SameEnclosures ==
  ASSUME Typed, NEW p \in 0 .. End, NEW open \in CHAR, NEW close, NEW x, NEW y, Same(x, y, p)
  PROVE  Enclosures(Given, p, open, close, x) = Enclosures(Given, p, open, close, y)
<1>0. p \in Nat /\ End \in Nat
  BY PeekFacts
<1> DEFINE S == UNION {StarCWspEnds(Given, q) : q \in After(Given, {p}, open)}
<1>1. \A s \in S : s \in p + 1 .. End
  <2>1. CASE Peek(p) = open
    <3>1. After(Given, {p}, open) = {p + 1} /\ p + 1 \in 0 .. End
      BY <2>1, AfterOne
    <3>2. \A s \in StarCWspEnds(Given, p + 1) : s \in p + 1 .. End
      BY <3>1, StarFacts
    <3> QED BY <3>1, <3>2
  <2>2. CASE Peek(p) # open
    <3>1. After(Given, {p}, open) = {}
      BY <2>2, AfterOne
    <3> QED BY <3>1
  <2> QED BY <2>1, <2>2
<1> HIDE DEF S
<1>2. \A s \in S : x[s] = y[s]
  BY <1>1 DEF Same
<1>3. \A s \in S : Alternations(Given, s, x) = Alternations(Given, s, y)
  BY <1>2 DEF Alternations
<1>4. {Alternations(Given, s, x) : s \in S} = {Alternations(Given, s, y) : s \in S}
  BY <1>3
<1> DEFINE E(A) == UNION {{<<q, a[2]>> : q \in After(Given, StarCWspEnds(Given, a[1]), close)} : a \in UNION A}
<1>5. /\ Enclosures(Given, p, open, close, x) = E({Alternations(Given, s, x) : s \in S})
      /\ Enclosures(Given, p, open, close, y) = E({Alternations(Given, s, y) : s \in S})
  BY DEF Enclosures, S
<1> HIDE DEF E
<1> QED BY <1>4, <1>5

(* The grammar has the elements here from what it has further on.          *)
LEMMA SameElements ==
  ASSUME Typed, NEW p \in 0 .. End, NEW x, NEW y, Same(x, y, p)
  PROVE  Elements(Given, p, x) = Elements(Given, p, y)
<1>0. "(" \in CHAR /\ "[" \in CHAR
  BY DEF CHAR, VCHAR
<1>1. /\ Enclosures(Given, p, "(", ")", x) = Enclosures(Given, p, "(", ")", y)
      /\ Enclosures(Given, p, "[", "]", x) = Enclosures(Given, p, "[", "]", y)
  BY <1>0, SameEnclosures
<1> QED BY <1>1 DEF Elements

(* And the repetitions.                                                    *)
LEMMA SameRepetitions ==
  ASSUME Typed, NEW p \in 0 .. End, NEW x, NEW y, Same(x, y, p)
  PROVE  Repetitions(Given, p, x) = Repetitions(Given, p, y)
<1>0. p \in Nat /\ End \in Nat
  BY PeekFacts
<1>1. ASSUME NEW r \in Repeats(Given, p) PROVE Elements(Given, r[1], x) = Elements(Given, r[1], y)
  <2>1. r[1] \in p + 1 .. End
    BY BoundsFacts
  <2>2. r[1] \in p .. End /\ r[1] \in 0 .. End
    BY <1>0, <2>1
  <2>3. Same(x, y, r[1])
    BY <1>0, <2>2, SameFrom
  <2> QED BY <2>2, <2>3, SameElements
<1>2. Elements(Given, p, x) = Elements(Given, p, y)
  BY SameElements
<1> DEFINE part(E, r) == {<<e[1], Repeat(r[2].min, r[2].max, e[2])>> : e \in E}
<1>3. \A r \in Repeats(Given, p) : part(Elements(Given, r[1], x), r) = part(Elements(Given, r[1], y), r)
  BY <1>1
<1>4. /\ Repetitions(Given, p, x) = Elements(Given, p, x) \cup UNION {part(Elements(Given, r[1], x), r) : r \in Repeats(Given, p)}
      /\ Repetitions(Given, p, y) = Elements(Given, p, y) \cup UNION {part(Elements(Given, r[1], y), r) : r \in Repeats(Given, p)}
  BY DEF Repetitions
<1> HIDE DEF part
<1>5. {part(Elements(Given, r[1], x), r) : r \in Repeats(Given, p)} = {part(Elements(Given, r[1], y), r) : r \in Repeats(Given, p)}
  BY <1>3
<1> QED BY <1>2, <1>4, <1>5

(* And the items of a branch.                                              *)
LEMMA SameItemLists ==
  ASSUME Typed, NEW p \in 0 .. End, NEW f, NEW x, NEW y, Same(x, y, p), \A s \in p + 1 .. End : Agrees(f, x, s)
  PROVE  ItemLists(Given, p, x) = ItemLists(Given, p, y)
<1>0. p \in Nat /\ End \in Nat
  BY PeekFacts
<1>1. Repetitions(Given, p, x) = Repetitions(Given, p, y)
  BY SameRepetitions
<1>2. \A z \in Repetitions(Given, p, x) : z[1] \in p + 1 .. End
  BY RepetitionFacts DEF Finds
<1>3. /\ \A z : z \in ItemLists(Given, p, x) <=> \E k \in Repetitions(Given, p, x) : FirstItem(z, k, x)
      /\ \A z : z \in ItemLists(Given, p, y) <=> \E k \in Repetitions(Given, p, x) : FirstItem(z, k, y)
  BY <1>1, <1>2, ItemListsAre
<1>4. ASSUME NEW k \in Repetitions(Given, p, x), NEW z PROVE FirstItem(z, k, x) <=> FirstItem(z, k, y)
  <2>1. ASSUME CWsp(k[1]) # k[1], NEW s \in StarCWspEnds(Given, CWsp(k[1])) PROVE x[s].items = y[s].items
    <3>1. k[1] \in p + 1 .. End /\ k[1] \in 0 .. End
      BY <1>0, <1>2
    <3>2. CWsp(k[1]) \in k[1] .. End
      BY <3>1, CWspFacts
    <3>3. CWsp(k[1]) \in 0 .. End /\ CWsp(k[1]) \in p + 1 .. End
      BY <1>0, <3>1, <3>2
    <3>4. s \in CWsp(k[1]) .. End
      BY <2>1, <3>3, StarFacts
    <3>5. s \in p + 1 .. End
      BY <1>0, <3>3, <3>4
    <3> QED BY <3>5 DEF Same
  <2> QED BY <2>1 DEF FirstItem
<1> QED BY <1>3, <1>4

(* And, with the items in hand, the branches.                              *)
LEMMA SameBranchLists ==
  ASSUME Typed, NEW p \in 0 .. End, NEW x, NEW y, Same(x, y, p), NEW I, \A c \in I : c[1] \in p + 1 .. End
  PROVE  BranchLists(Given, I, x) = BranchLists(Given, I, y)
<1>0. p \in Nat /\ End \in Nat /\ "/" \in CHAR \ Blanks
  <2>1. "/" \in CHAR \ Blanks
    BY DEF CHAR, VCHAR, Blanks, Breaks, WSP
  <2> QED BY <2>1, PeekFacts
<1>3. /\ \A z : z \in BranchLists(Given, I, x) <=> \E c \in I : FirstBranch(z, c, x)
      /\ \A z : z \in BranchLists(Given, I, y) <=> \E c \in I : FirstBranch(z, c, y)
  BY BranchListsAre
<1>4. ASSUME NEW c \in I, NEW z PROVE FirstBranch(z, c, x) <=> FirstBranch(z, c, y)
  <2>1. ASSUME Peek(StarCWsp(c[1])) = "/", NEW s \in StarCWspEnds(Given, StarCWsp(c[1]) + 1)
        PROVE  x[s].branches = y[s].branches
    <3>1. c[1] \in p + 1 .. End /\ c[1] \in 0 .. End
      BY <1>0
    <3>2. StarCWsp(c[1]) + 1 \in c[1] + 1 .. End
      BY <1>0, <2>1, <3>1, UpToFacts
    <3>3. StarCWsp(c[1]) + 1 \in 0 .. End /\ StarCWsp(c[1]) + 1 \in p + 1 .. End
      BY <1>0, <3>1, <3>2
    <3>4. s \in StarCWsp(c[1]) + 1 .. End
      BY <2>1, <3>3, StarFacts
    <3>5. s \in p + 1 .. End
      BY <1>0, <3>3, <3>4
    <3> QED BY <3>5 DEF Same
  <2> QED BY <2>1 DEF FirstBranch
<1> QED BY <1>3, <1>4

-----------------------------------------------------------------------------
(* What is at `q` from what is at greater positions.                       *)
Descended(q, f) ==
  [items |-> Concatenation(q, f), branches |-> Branches(Concatenation(q, f), f)]
(* What the grammar has at `q`, from what it has further on.               *)
Expanded(q, x) ==
  [items |-> ItemLists(Given, q, x), branches |-> BranchLists(Given, ItemLists(Given, q, x), x)]

(* Parser and grammar agree at `q` if they do at all greater positions.    *)
LEMMA AgreesStep ==
  ASSUME Typed, NEW q \in 0 .. End, NEW f, NEW x, f[q] = Descended(q, f), x[q] = Expanded(q, x),
         \A s \in q + 1 .. End : Agrees(f, x, s)
  PROVE  Agrees(f, x, q)
<1>i. PICK i : i = Concatenation(q, f)
  OBVIOUS
<1>I. PICK I : I = ItemLists(Given, q, x)
  OBVIOUS
<1>1. /\ Finds(i, I, q, NonEmpty(Trees), {})
      /\ \A z \in I : ItemsEnd(z[1]) => i = Read(z[1], z[2])
      /\ I # {} => StartsRepetition(Peek(q))
  BY <1>i, <1>I, ConcatenationFacts
<1>2. /\ Finds(Branches(i, f), BranchLists(Given, I, x), q, NonEmpty(Trees), {})
      /\ \A z \in BranchLists(Given, I, x) : BranchesEnd(z[1]) => Branches(i, f) = Read(z[1], z[2])
      /\ BranchLists(Given, I, x) # {} => StartsRepetition(Peek(q))
  BY <1>1, BranchesFacts
<1>3. /\ f[q].items = i /\ f[q].branches = Branches(i, f)
      /\ x[q].items = I /\ x[q].branches = BranchLists(Given, I, x)
  BY <1>i, <1>I DEF Descended, Expanded
<1> QED BY <1>1, <1>2, <1>3 DEF Agrees

(* All there is at `q`, then, from what there is at greater positions.     *)
LEMMA SameThere ==
  ASSUME Typed, NEW q \in 0 .. End, NEW f, NEW g, NEW x, NEW y, Same(f, g, q), Same(x, y, q),
         \A s \in q + 1 .. End : Agrees(f, x, s)
  PROVE  Descended(q, f) = Descended(q, g) /\ Expanded(q, x) = Expanded(q, y)
<1>i. PICK i : i = Concatenation(q, f)
  OBVIOUS
<1>I. PICK I : I = ItemLists(Given, q, x)
  OBVIOUS
<1>1. i = Concatenation(q, g)
  BY <1>i, SameItems
<1>2. I = ItemLists(Given, q, y)
  BY <1>I, SameItemLists
<1>3. Finds(i, I, q, NonEmpty(Trees), {})
  BY <1>i, <1>I, ConcatenationFacts
<1>4. /\ \A c \in I : c[1] \in q + 1 .. End
      /\ ~Failed(i) => i.at \in q + 1 .. End
  <2>1. \A c \in I : c[1] \in q + 1 .. End
    BY <1>3 DEF Finds
  <2>2. ASSUME ~Failed(i) PROVE i.at \in q + 1 .. End
    <3>1. <<i.at, i.value>> \in I
      BY <1>3, <2>2 DEF Finds
    <3>2. <<i.at, i.value>>[1] \in q + 1 .. End
      BY <2>1, <3>1
    <3> QED BY <3>2
  <2> QED BY <2>1, <2>2
<1>5. Branches(i, f) = Branches(i, g)
  BY <1>4, SameBranches
<1>6. BranchLists(Given, I, x) = BranchLists(Given, I, y)
  BY <1>4, SameBranchLists
<1> QED BY <1>i, <1>I, <1>1, <1>2, <1>5, <1>6 DEF Descended, Expanded

(* `f` and `x` are what the parser and the grammar find from `m` on.       *)
FoundFrom(m, f, x) ==
  \A q \in m .. End : f[q] = Descended(q, f) /\ x[q] = Expanded(q, x) /\ Agrees(f, x, q)

(* What is found from m + 1 on can be continued to m.                      *)
LEMMA FoundOneMore ==
  ASSUME Typed, NEW m \in 0 .. End, NEW g, NEW y, FoundFrom(m + 1, g, y)
  PROVE  \E f, x : FoundFrom(m, f, x)
<1>0. End \in Nat /\ m \in Nat
  BY PeekFacts
<1> DEFINE f == [q \in m .. End |-> IF q = m THEN Descended(m, g) ELSE g[q]]
           x == [q \in m .. End |-> IF q = m THEN Expanded(m, y) ELSE y[q]]
<1>1. f[m] = Descended(m, g) /\ x[m] = Expanded(m, y)
  BY <1>0
<1>2. \A s \in m + 1 .. End : f[s] = g[s] /\ x[s] = y[s]
  <2>1. \A s \in m + 1 .. End : s \in m .. End /\ s # m
    BY <1>0
  <2> QED BY <2>1
<1> HIDE DEF f, x
<1>3. \A s \in m + 1 .. End : g[s] = Descended(s, g) /\ y[s] = Expanded(s, y) /\ Agrees(g, y, s)
  BY DEF FoundFrom
<1>4. \A s \in m + 1 .. End : Agrees(f, x, s)
  <2> TAKE s \in m + 1 .. End
  <2>1. f[s] = g[s] /\ x[s] = y[s] /\ Agrees(g, y, s)
    BY <1>2, <1>3
  <2> QED BY <2>1 DEF Agrees
<1>5. ASSUME NEW q \in m .. End
      PROVE  Descended(q, g) = Descended(q, f) /\ Expanded(q, y) = Expanded(q, x)
  <2>1. q \in 0 .. End /\ \A s \in q + 1 .. End : s \in m + 1 .. End
    BY <1>0
  <2>2. Same(g, f, q) /\ Same(y, x, q) /\ \A s \in q + 1 .. End : Agrees(g, y, s)
    BY <1>2, <1>3, <2>1 DEF Same
  <2> QED BY <2>1, <2>2, SameThere
<1>6. \A q \in m .. End : q = m \/ q \in m + 1 .. End
  BY <1>0
<1>7. \A q \in m .. End : f[q] = Descended(q, f) /\ x[q] = Expanded(q, x)
  BY <1>1, <1>2, <1>3, <1>5, <1>6
<1>8. Agrees(f, x, m)
  <2>1. m \in m .. End
    BY <1>0
  <2> QED BY <1>4, <1>7, <2>1, AgreesStep
<1>9. FoundFrom(m, f, x)
  BY <1>4, <1>6, <1>7, <1>8 DEF FoundFrom
<1> QED BY <1>9

(* What the parser does and how the text can be read, from every position. *)
LEMMA Descending ==
  ASSUME Typed
  PROVE  \A q \in 0 .. End : /\ Agrees(Descent, Expansions(Given), q)
                             /\ Expansions(Given)[q] = Expanded(q, Expansions(Given))
<1>0. End \in Nat /\ End = Len(src) /\ End = Len(Given.text) /\ 0 \in 0 .. End + 1 /\ End + 1 \in Nat
  BY PeekFacts DEF End
<1> DEFINE A == {m \in 0 .. End + 1 : \E f, x : FoundFrom(m, f, x)}
           PF(f) == f = [q \in 0 .. Len(src) |-> Descended(q, f)]
           PX(x) == x = [q \in 0 .. Len(Given.text) |-> Expanded(q, x)]
           D == CHOOSE f : PF(f)
           X == CHOOSE x : PX(x)
<1>1. End + 1 \in A
  <2>1. \A q : q \notin End + 1 .. End
    BY <1>0
  <2>2. \A f, x : FoundFrom(End + 1, f, x)
    BY <2>1 DEF FoundFrom
  <2>3. End + 1 \in 0 .. End + 1
    BY <1>0
  <2> QED BY <2>2, <2>3
<1>2. ASSUME NEW m \in 0 .. End + 1, m + 1 \in A, m < End + 1 PROVE m \in A
  <2>1. PICK g, y : FoundFrom(m + 1, g, y)
    BY <1>2
  <2>2. m \in 0 .. End
    BY <1>0, <1>2
  <2> QED BY <2>1, <2>2, FoundOneMore
<1>3. \A m \in 0 .. End + 1 : m \in A
  <2> HIDE DEF A
  <2> QED BY <1>0, <1>1, <1>2, CountBack
<1>4. PICK g, y : FoundFrom(0, g, y)
  <2>1. 0 \in A
    BY <1>0, <1>3
  <2> QED BY <2>1
<1> DEFINE f == [q \in 0 .. End |-> g[q]]
           x == [q \in 0 .. End |-> y[q]]
<1>5. \A s \in 0 .. End : g[s] = f[s] /\ y[s] = x[s]
  OBVIOUS
<1>d. f = [q \in 0 .. End |-> f[q]] /\ x = [q \in 0 .. End |-> x[q]]
  OBVIOUS
<1> HIDE DEF f, x
<1>6. ASSUME NEW q \in 0 .. End PROVE f[q] = Descended(q, f) /\ x[q] = Expanded(q, x)
  <2>1. \A s \in q + 1 .. End : s \in 0 .. End
    BY <1>0
  <2>2. Same(g, f, q) /\ Same(y, x, q) /\ \A s \in q + 1 .. End : Agrees(g, y, s)
    BY <1>4, <1>5, <2>1 DEF Same, FoundFrom
  <2>3. Descended(q, g) = Descended(q, f) /\ Expanded(q, y) = Expanded(q, x)
    BY <2>2, SameThere
  <2>4. g[q] = Descended(q, g) /\ y[q] = Expanded(q, y)
    BY <1>4 DEF FoundFrom
  <2> QED BY <1>5, <2>3, <2>4
<1>7. PF(f) /\ PX(x)
  <2>1. f = [q \in 0 .. End |-> Descended(q, f)]
    BY <1>6, <1>d
  <2>2. x = [q \in 0 .. End |-> Expanded(q, x)]
    BY <1>6, <1>d
  <2> QED BY <1>0, <2>1, <2>2
<1>8. PF(D) /\ PX(X)
  <2> HIDE DEF PF, PX
  <2> QED BY <1>7
<1>9. Descent = D /\ Expansions(Given) = X
  BY DEF Descent, Expansions, Descended, Expanded
<1> HIDE DEF D, X
<1>10. D = [q \in 0 .. End |-> Descended(q, D)] /\ X = [q \in 0 .. End |-> Expanded(q, X)]
  BY <1>0, <1>8
<1>11. \A q \in 0 .. End : D[q] = Descended(q, D) /\ X[q] = Expanded(q, X)
  <2> TAKE q \in 0 .. End
  <2>1. [s \in 0 .. End |-> Descended(s, D)][q] = Descended(q, D)
    OBVIOUS
  <2>2. [s \in 0 .. End |-> Expanded(s, X)][q] = Expanded(q, X)
    OBVIOUS
  <2> QED BY <1>10, <2>1, <2>2, Zenon
<1> DEFINE S == {q \in 0 .. End : Agrees(D, X, q)}
<1>12. \A q \in 0 .. End : (\A i \in q + 1 .. End : i \in S) => q \in S
  <2> TAKE q \in 0 .. End
  <2> HAVE \A i \in q + 1 .. End : i \in S
  <2>1. \A i \in q + 1 .. End : Agrees(D, X, i)
    OBVIOUS
  <2>2. Agrees(D, X, q)
    BY <1>11, <2>1, AgreesStep
  <2> QED BY <2>2
<1>13. \A q \in 0 .. End : q \in S
  <2> HIDE DEF S
  <2> QED BY <1>0, <1>12, CountDown
<1> QED BY <1>9, <1>11, <1>13

(* Recursive descent finds, in every text and from every position, what    *)
(* the grammar allows: the parser's `Descent` against the notation's       *)
(* `Expansions`, choices made by looking at most past the whitespace       *)
(* against all the choices there are.                                      *)
THEOREM DescentFinds ==
  ASSUME Typed
  PROVE  \A q \in 0 .. End : Agrees(Descent, Expansions(Given), q)
BY Descending
=============================================================================
