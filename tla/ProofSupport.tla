---------------------------- MODULE ProofSupport ----------------------------
(***************************************************************************)
(* Facts the proofs share: a stack kept as a sequence, least and greatest  *)
(* numbers, what recursive functions compute, step by step or by growing a *)
(* set, the cycles of finite graphs, numbers in order and sequences joined.*)
(***************************************************************************)
EXTENDS Naturals, Ordered, FiniteSets, SequenceTheorems, FiniteSetTheorems,
        WellFoundedInduction, TLAPS

(* Append leaves what was there and puts the new element last.             *)
LEMMA PushStack ==
  ASSUME NEW S, NEW s \in Seq(S), NEW f \in S
  PROVE  /\ Append(s, f) \in Seq(S)
         /\ Len(Append(s, f)) = Len(s) + 1
         /\ Append(s, f)[Len(s) + 1] = f
         /\ \A i \in 1 .. Len(s) : Append(s, f)[i] = s[i]
  OBVIOUS

(* Replacing the last element leaves the others and the length.            *)
LEMMA ReplaceStack ==
  ASSUME NEW S, NEW s \in Seq(S), s # << >>, NEW f \in S
  PROVE  /\ [s EXCEPT ![Len(s)] = f] \in Seq(S)
         /\ Len([s EXCEPT ![Len(s)] = f]) = Len(s)
         /\ [s EXCEPT ![Len(s)] = f][Len(s)] = f
         /\ \A i \in 1 .. Len(s) - 1 : [s EXCEPT ![Len(s)] = f][i] = s[i]
  OBVIOUS

(* Popping leaves all but the last.                                        *)
LEMMA PopStack ==
  ASSUME NEW S, NEW s \in Seq(S), s # << >>
  PROVE  /\ Len(s) \in Nat /\ Len(s) > 0 /\ s[Len(s)] \in S
         /\ SubSeq(s, 1, Len(s) - 1) \in Seq(S)
         /\ Len(SubSeq(s, 1, Len(s) - 1)) = Len(s) - 1
         /\ \A i \in 1 .. Len(s) - 1 : SubSeq(s, 1, Len(s) - 1)[i] = s[i]
<1>1. Len(s) \in Nat /\ Len(s) > 0 /\ \A i \in 1 .. Len(s) : s[i] \in S
  OBVIOUS
<1>2. Len(s) - 1 \in Int /\ 1 \in Int /\ \A i \in 1 .. Len(s) - 1 : s[i] \in S
  BY <1>1
<1>3. PICK n \in Int : n = Len(s) - 1 /\ \A i \in 1 .. n : s[i] \in S
  BY <1>2
<1>4. /\ SubSeq(s, 1, n) \in Seq(S)
      /\ Len(SubSeq(s, 1, n)) = IF 1 <= n THEN n - 1 + 1 ELSE 0
      /\ \A i \in 1 .. n - 1 + 1 : SubSeq(s, 1, n)[i] = s[1 + i - 1]
  BY <1>3, <1>2, SubSeqProperties
<1>5. Len(SubSeq(s, 1, n)) = n /\ \A i \in 1 .. n : SubSeq(s, 1, n)[i] = s[i]
  BY <1>1, <1>3, <1>4
<1>6. QED
  BY <1>1, <1>3, <1>4, <1>5

-----------------------------------------------------------------------------
(* A set of numbers has a least.                                           *)
LEMMA LeastExists ==
  ASSUME NEW S \in SUBSET Nat, S # {}
  PROVE  \E r \in S : \A s \in S : r <= s
<1> DEFINE Less == {p \in Nat \X Nat : p[1] < p[2]}
<1>1. IsWellFoundedOn(Less, Nat)
  BY NatLessThanWellFounded DEF OpToRel
<1>2. PICK r \in S : \A s \in S : ~ (<<s, r>> \in Less)
  BY <1>1, WFMin
<1>3. ASSUME NEW s \in S, s < r PROVE <<s, r>> \in Less
  BY <1>3
<1>4. \A s \in S : r <= s
  <2> TAKE s \in S
  <2> r \in Nat /\ s \in Nat
    OBVIOUS
  <2> ~ (s < r)
    <3> HIDE DEF Less
    <3> QED BY <1>2, <1>3
  <2> QED OBVIOUS
<1>5. QED
  BY <1>4

(* Finitely many numbers have a bound: else there would be a shortest list *)
(* of them that has none.                                                  *)
LEMMA BoundExists ==
  ASSUME NEW len \in Nat, NEW f, \A i \in 1 .. len : f[i] \in Nat
  PROVE  \E u \in Nat : \A i \in 1 .. len : f[i] <= u
<1> DEFINE Bad == {k \in 0 .. len : ~ \E u \in Nat : \A i \in 1 .. k : f[i] <= u}
<1>1. ASSUME Bad # {} PROVE FALSE
  <2>1. Bad \in SUBSET Nat
    OBVIOUS
  <2>2. PICK k \in Bad : \A j \in Bad : k <= j
    <3> HIDE DEF Bad
    <3> QED BY <1>1, <2>1, LeastExists
  <2>3. k \in 0 .. len /\ ~ \E u \in Nat : \A i \in 1 .. k : f[i] <= u
    OBVIOUS
  <2>4. CASE k = 0
    BY <2>3, <2>4
  <2>5. CASE k > 0
    <3>1. k - 1 \in 0 .. len /\ k - 1 \notin Bad
      <4>1. k - 1 \in 0 .. len /\ ~ (k <= k - 1)
        BY <2>3, <2>5
      <4> HIDE DEF Bad
      <4>2. QED
        BY <2>2, <4>1
    <3>2. PICK u \in Nat : \A i \in 1 .. k - 1 : f[i] <= u
      BY <3>1
    <3>3. k \in 1 .. len /\ f[k] \in Nat
      BY <2>3, <2>5
    <3>4. PICK v \in Nat : u <= v /\ f[k] <= v
      <4>1. PICK x \in Nat : x = f[k]
        BY <3>3
      <4>2. CASE u <= x
        BY <4>1, <4>2
      <4>3. CASE x <= u
        BY <4>1, <4>3
      <4>4. QED
        BY <4>2, <4>3
    <3>5. ASSUME NEW i \in 1 .. k PROVE f[i] <= v
      <4>1. CASE i = k
        BY <3>4, <4>1
      <4>2. CASE i # k
        <5>1. i \in 1 .. k - 1 /\ i \in 1 .. len
          BY <2>3, <4>2
        <5>2. f[i] <= u /\ f[i] \in Nat
          BY <3>2, <5>1
        <5>3. QED
          BY <3>4, <5>2
      <4>3. QED
        BY <4>1, <4>2
    <3>6. QED
      BY <2>3, <3>5
  <2>6. QED
    BY <2>3, <2>4, <2>5
<1>2. len \in 0 .. len /\ len \notin Bad
  <2>1. len \in 0 .. len
    OBVIOUS
  <2> HIDE DEF Bad
  <2>2. QED
    BY <1>1, <2>1
<1>3. QED
  BY <1>2

(* A bounded set of numbers has a greatest: the least of its bounds.       *)
LEMMA GreatestExists ==
  ASSUME NEW S \in SUBSET Nat, S # {}, NEW u \in Nat, \A s \in S : s <= u
  PROVE  \E g \in S : \A s \in S : s <= g
<1> DEFINE B == {v \in Nat : \A s \in S : s <= v}
<1>1. B \in SUBSET Nat /\ u \in B
  OBVIOUS
<1>2. PICK b \in B : \A v \in B : b <= v
  <2> HIDE DEF B
  <2> QED BY <1>1, LeastExists
<1>3. b \in Nat /\ \A s \in S : s <= b
  BY <1>2
<1>4. b \in S
  <2> SUFFICES ASSUME b \notin S PROVE FALSE
    OBVIOUS
  <2>1. \A s \in S : s \in Nat /\ s <= b /\ s # b
    BY <1>3
  <2>2. PICK x \in S : TRUE
    OBVIOUS
  <2>3. b > 0
    BY <1>3, <2>1, <2>2
  <2>4. b - 1 \in Nat /\ \A s \in S : s <= b - 1
    BY <1>3, <2>1, <2>3
  <2>5. b <= b - 1
    BY <1>2, <2>4
  <2>6. QED
    BY <1>3, <2>5
<1>5. QED
  BY <1>3, <1>4
-----------------------------------------------------------------------------
(* Counting up: what 0 is in and no step leads out of holds every number.  *)
LEMMA CountUp ==
  ASSUME NEW n \in Nat, NEW S, 0 \in S, \A k \in 1 .. n : k - 1 \in S => k \in S
  PROVE  \A k \in 0 .. n : k \in S
<1> DEFINE Bad == {k \in 0 .. n : k \notin S}
<1>1. ASSUME Bad # {} PROVE FALSE
  <2>1. Bad \in SUBSET Nat
    OBVIOUS
  <2>2. PICK k \in Bad : \A j \in Bad : k <= j
    <3> HIDE DEF Bad
    <3> QED BY <1>1, <2>1, LeastExists
  <2>3. k \in 0 .. n /\ k \notin S /\ k # 0
    OBVIOUS
  <2>4. k \in 1 .. n /\ k - 1 \in 0 .. n /\ ~ (k <= k - 1)
    BY <2>3
  <2>5. k - 1 \notin Bad
    <3> HIDE DEF Bad
    <3> QED BY <2>2, <2>4
  <2>6. k - 1 \in S
    BY <2>4, <2>5
  <2>7. QED
    BY <2>3, <2>4, <2>6
<1>2. QED
  BY <1>1

(* The same without an end.                                                *)
LEMMA CountOn ==
  ASSUME NEW S, 0 \in S, \A k \in Nat : k \in S => k + 1 \in S
  PROVE  \A k \in Nat : k \in S
<1> TAKE n \in Nat
<1>1. \A k \in 1 .. n : k - 1 \in S => k \in S
  <2> TAKE k \in 1 .. n
  <2>1. k - 1 \in Nat /\ (k - 1) + 1 = k
    OBVIOUS
  <2>2. QED
    BY <2>1
<1>2. \A k \in 0 .. n : k \in S
  BY <1>1, CountUp
<1>3. QED
  BY <1>2

(* What is computed in `n` steps from a start.                             *)
Iterates(g, n, start, h) ==
  g[0] = start /\ \A k \in 1 .. n : g[k] = h[<<k, g[k - 1]>>]

(* Every start and every step have an iteration.                           *)
LEMMA IterationExists ==
  ASSUME NEW n \in Nat, NEW V, NEW start \in V, NEW h \in [(1 .. n) \X V -> V]
  PROVE  \E g \in [0 .. n -> V] : Iterates(g, n, start, h)
<1> DEFINE S == {k \in 0 .. n : \E g \in [0 .. k -> V] : Iterates(g, k, start, h)}
<1>1. 0 \in S
  <2>1. [k \in 0 .. 0 |-> start] \in [0 .. 0 -> V]
    OBVIOUS
  <2>2. Iterates([k \in 0 .. 0 |-> start], 0, start, h)
    BY DEF Iterates
  <2>3. 0 \in 0 .. n
    OBVIOUS
  <2>4. QED
    BY <2>1, <2>2, <2>3
<1>2. ASSUME NEW k \in 1 .. n, k - 1 \in S PROVE k \in S
  <2>1. PICK g \in [0 .. k - 1 -> V] : Iterates(g, k - 1, start, h)
    BY <1>2
  <2> DEFINE f == [i \in 0 .. k |-> IF i = k THEN h[<<k, g[k - 1]>>] ELSE g[i]]
  <2>2. g[k - 1] \in V /\ h[<<k, g[k - 1]>>] \in V
    OBVIOUS
  <2>3. f \in [0 .. k -> V]
    <3>1. \A i \in 0 .. k : i # k => i \in 0 .. k - 1
      OBVIOUS
    <3>2. QED
      BY <2>2, <3>1
  <2>4. f[0] = start
    BY <2>1 DEF Iterates
  <2>5. ASSUME NEW i \in 1 .. k PROVE f[i] = h[<<i, f[i - 1]>>]
    <3>1. i \in 0 .. k /\ i - 1 \in 0 .. k /\ i - 1 # k
      OBVIOUS
    <3>2. f[i - 1] = g[i - 1]
      BY <3>1
    <3>3. CASE i = k
      BY <3>1, <3>2, <3>3
    <3>4. CASE i # k
      <4>1. i \in 1 .. k - 1
        BY <3>4
      <4>2. g[i] = h[<<i, g[i - 1]>>]
        BY <2>1, <4>1 DEF Iterates
      <4>3. f[i] = g[i]
        BY <3>1, <3>4
      <4>4. QED
        BY <3>2, <4>2, <4>3
    <3>5. QED
      BY <3>3, <3>4
  <2> HIDE DEF f
  <2>6. Iterates(f, k, start, h)
    BY <2>4, <2>5 DEF Iterates
  <2>7. QED
    BY <2>3, <2>6
<1>3. n \in S
  <2>1. n \in 0 .. n
    OBVIOUS
  <2> HIDE DEF S
  <2>2. QED
    BY <1>1, <1>2, <2>1, CountUp
<1>4. QED
  BY <1>3

(* An iteration has one outcome.                                           *)
LEMMA IterationUnique ==
  ASSUME NEW n \in Nat, NEW start, NEW h, NEW f, NEW g,
         Iterates(f, n, start, h), Iterates(g, n, start, h)
  PROVE  \A k \in 0 .. n : f[k] = g[k]
<1> DEFINE S == {k \in 0 .. n : f[k] = g[k]}
<1>1. 0 \in S
  BY DEF Iterates
<1>2. ASSUME NEW k \in 1 .. n, k - 1 \in S PROVE k \in S
  <2>1. f[k] = h[<<k, f[k - 1]>>] /\ g[k] = h[<<k, g[k - 1]>>]
    BY DEF Iterates
  <2>2. f[k - 1] = g[k - 1]
    BY <1>2
  <2>3. QED
    BY <2>1, <2>2
<1>3. \A k \in 0 .. n : k \in S
  <2> HIDE DEF S
  <2> QED BY <1>1, <1>2, CountUp
<1>4. QED
  BY <1>3

(* What is computed step by step without end.                              *)
IteratesOn(g, start, h) ==
  g[0] = start /\ \A k \in Nat \ {0} : g[k] = h[<<k, g[k - 1]>>]

(* Each number has its bounded iteration, and they agree.                  *)
LEMMA IterationOnExists ==
  ASSUME NEW V, NEW start \in V, NEW h \in [(Nat \ {0}) \X V -> V]
  PROVE  \E g \in [Nat -> V] : IteratesOn(g, start, h)
<1> DEFINE part(n) == [x \in (1 .. n) \X V |-> h[x]]
           to(n) == CHOOSE g : g \in [0 .. n -> V] /\ Iterates(g, n, start, h)
           f == [n \in Nat |-> to(n)[n]]
<1>1. ASSUME NEW n \in Nat
      PROVE  to(n) \in [0 .. n -> V] /\ Iterates(to(n), n, start, h)
  <2>1. part(n) \in [(1 .. n) \X V -> V]
    OBVIOUS
  <2>2. PICK g \in [0 .. n -> V] : Iterates(g, n, start, part(n))
    <3> HIDE DEF part
    <3> QED BY <2>1, IterationExists
  <2>3. Iterates(g, n, start, h)
    <3>1. ASSUME NEW k \in 1 .. n PROVE g[k] = h[<<k, g[k - 1]>>]
      <4>1. g[k - 1] \in V
        OBVIOUS
      <4>2. part(n)[<<k, g[k - 1]>>] = h[<<k, g[k - 1]>>]
        BY <4>1
      <4>3. g[k] = part(n)[<<k, g[k - 1]>>]
        <5> HIDE DEF part
        <5> QED BY <2>2 DEF Iterates
      <4>4. QED
        BY <4>2, <4>3
    <3>2. g[0] = start
      <4> HIDE DEF part
      <4> QED BY <2>2 DEF Iterates
    <3>3. QED
      BY <3>1, <3>2 DEF Iterates
  <2>4. QED
    BY <2>3
<1>2. ASSUME NEW n \in Nat \ {0} PROVE to(n)[n - 1] = to(n - 1)[n - 1]
  <2>1. n \in Nat /\ n - 1 \in Nat /\ n - 1 \in 0 .. n - 1
    OBVIOUS
  <2>2. Iterates(to(n), n, start, h) /\ Iterates(to(n - 1), n - 1, start, h)
    <3> HIDE DEF to
    <3> QED BY <1>1, <2>1
  <2> HIDE DEF to
  <2>3. Iterates(to(n), n - 1, start, h)
    BY <2>2 DEF Iterates
  <2>4. \A k \in 0 .. n - 1 : to(n)[k] = to(n - 1)[k]
    BY <2>1, <2>2, <2>3, IterationUnique
  <2>5. QED
    BY <2>1, <2>4
<1> HIDE DEF to
<1>3. f \in [Nat -> V]
  <2>1. \A n \in Nat : to(n)[n] \in V
    <3> TAKE n \in Nat
    <3>1. n \in 0 .. n
      OBVIOUS
    <3>2. QED
      BY <1>1, <3>1
  <2>2. QED
    BY <2>1
<1>4. f[0] = start
  <2>1. f[0] = to(0)[0]
    OBVIOUS
  <2>2. to(0)[0] = start
    BY <1>1 DEF Iterates
  <2>3. QED
    BY <2>1, <2>2
<1>5. ASSUME NEW n \in Nat \ {0} PROVE f[n] = h[<<n, f[n - 1]>>]
  <2>1. n \in Nat /\ n - 1 \in Nat /\ n \in 1 .. n
    OBVIOUS
  <2>2. f[n] = to(n)[n] /\ f[n - 1] = to(n - 1)[n - 1]
    BY <2>1
  <2>3. to(n)[n] = h[<<n, to(n)[n - 1]>>]
    BY <1>1, <2>1 DEF Iterates
  <2>4. QED
    BY <1>2, <2>2, <2>3
<1> HIDE DEF f
<1>6. IteratesOn(f, start, h)
  BY <1>4, <1>5 DEF IteratesOn
<1>7. QED
  BY <1>3, <1>6

-----------------------------------------------------------------------------
(* `g` grows a set by what its elements lead to until nothing is added.    *)
Grows(g, e, X) ==
  \A S \in SUBSET X :
    g[S] = IF S \cup UNION {e[s] : s \in S} = S THEN S ELSE g[S \cup UNION {e[s] : s \in S}]

(* Nothing in `C` leads out of it.                                         *)
Closed(C, e) == \A c \in C : e[c] \subseteq C

(* The least closed set that holds `S`.                                    *)
Hull(S, e, X) == {x \in X : \A C \in SUBSET X : S \subseteq C /\ Closed(C, e) => x \in C}

(* The hull is what it is called.                                          *)
LEMMA HullFacts ==
  ASSUME NEW X, NEW e \in [X -> SUBSET X], NEW S \in SUBSET X
  PROVE  /\ Hull(S, e, X) \in SUBSET X /\ S \subseteq Hull(S, e, X)
         /\ Closed(Hull(S, e, X), e)
         /\ \A C \in SUBSET X : S \subseteq C /\ Closed(C, e) => Hull(S, e, X) \subseteq C
  BY DEF Hull, Closed

(* One step of growing adds nothing that the hull does not hold.           *)
LEMMA HullGrows ==
  ASSUME NEW X, NEW e \in [X -> SUBSET X], NEW S \in SUBSET X
  PROVE  /\ S \cup UNION {e[s] : s \in S} \in SUBSET X
         /\ Hull(S \cup UNION {e[s] : s \in S}, e, X) = Hull(S, e, X)
         /\ S \cup UNION {e[s] : s \in S} = S => Hull(S, e, X) = S
<1> DEFINE T == S \cup UNION {e[s] : s \in S}
<1>1. T \in SUBSET X
  OBVIOUS
<1>2. \A C \in SUBSET X : Closed(C, e) => (S \subseteq C <=> T \subseteq C)
  <2> SUFFICES ASSUME NEW C \in SUBSET X, Closed(C, e), S \subseteq C PROVE T \subseteq C
    OBVIOUS
  <2>1. \A s \in S : e[s] \subseteq C
    BY DEF Closed
  <2>2. QED
    BY <2>1
<1>3. T = S => Closed(S, e)
  <2>1. \A s \in S : e[s] \subseteq T
    OBVIOUS
  <2>2. QED
    BY <2>1 DEF Closed
<1> HIDE DEF T
<1>4. Hull(T, e, X) = Hull(S, e, X)
  BY <1>2 DEF Hull
<1>5. T = S => Hull(S, e, X) = S
  BY <1>3, HullFacts
<1>6. QED
  BY <1>1, <1>4, <1>5 DEF T

(* So one such `g` takes every set to its hull.                            *)
LEMMA HullIsGrown ==
  ASSUME NEW X, NEW e \in [X -> SUBSET X],
         NEW h, h = [S \in SUBSET X |-> Hull(S, e, X)]
  PROVE  Grows(h, e, X)
<1> SUFFICES ASSUME NEW S \in SUBSET X, NEW T, T = S \cup UNION {e[s] : s \in S}
             PROVE  h[S] = IF T = S THEN S ELSE h[T]
  BY DEF Grows
<1>1. T \in SUBSET X /\ Hull(T, e, X) = Hull(S, e, X) /\ (T = S => Hull(S, e, X) = S)
  BY HullGrows
<1>2. h[S] = Hull(S, e, X) /\ h[T] = Hull(T, e, X)
  BY <1>1
<1>3. QED
  BY <1>1, <1>2

(* What is grown is the hull: else take a set as large as can be of which  *)
(* that fails.                                                             *)
LEMMA GrownIsHull ==
  ASSUME NEW X, IsFiniteSet(X), NEW e \in [X -> SUBSET X], NEW g, Grows(g, e, X),
         NEW S \in SUBSET X
  PROVE  g[S] = Hull(S, e, X)
<1> DEFINE Rest(T) == Cardinality(X \ T)
           Bad == {k \in Nat : \E T \in SUBSET X : Rest(T) = k /\ g[T] # Hull(T, e, X)}
<1>1. \A T \in SUBSET X : IsFiniteSet(X \ T) /\ Rest(T) \in Nat
  BY FS_Difference, FS_CardinalityType
<1>2. ASSUME Bad # {} PROVE FALSE
  <2>1. PICK k \in Bad : \A j \in Bad : k <= j
    <3>1. Bad \in SUBSET Nat
      OBVIOUS
    <3> HIDE DEF Bad
    <3>2. QED
      BY <1>2, <3>1, LeastExists
  <2>2. PICK T \in SUBSET X : Rest(T) = k /\ g[T] # Hull(T, e, X)
    BY <2>1
  <2> DEFINE U == T \cup UNION {e[s] : s \in T}
  <2>3. U \in SUBSET X /\ Hull(U, e, X) = Hull(T, e, X) /\ (U = T => Hull(T, e, X) = T)
    BY HullGrows
  <2>4. g[T] = IF U = T THEN T ELSE g[U]
    BY DEF Grows
  <2>5. T \subseteq U
    OBVIOUS
  <2> HIDE DEF U
  <2>6. U # T /\ g[U] # Hull(U, e, X)
    BY <2>2, <2>3, <2>4
  <2>7. Rest(U) < Rest(T)
    <3>1. X \ U \in SUBSET (X \ T) /\ X \ U # X \ T
      BY <2>3, <2>5, <2>6
    <3>2. Cardinality(X \ U) <= Cardinality(X \ T) /\ Cardinality(X \ U) # Cardinality(X \ T)
      BY <1>1, <3>1, FS_Subset
    <3>3. Cardinality(X \ U) \in Nat /\ Cardinality(X \ T) \in Nat
      BY <1>1, <2>3
    <3>4. QED
      BY <3>2, <3>3
  <2>8. Rest(U) \in Bad
    BY <1>1, <2>3, <2>6
  <2>9. Rest(U) \in Nat /\ Rest(T) \in Nat /\ k = Rest(T) /\ k <= Rest(U)
    <3>1. k <= Rest(U)
      <4> HIDE DEF Bad, Rest
      <4> QED BY <2>1, <2>8
    <3>2. QED BY <1>1, <2>2, <2>3, <3>1
  <2> HIDE DEF Rest
  <2>10. QED
    BY <2>7, <2>9
<1>3. QED
  BY <1>1, <1>2

(* What an element leads to in one or more steps.                          *)
LEMMA AheadFacts ==
  ASSUME NEW X, NEW e \in [X -> SUBSET X], NEW r \in X
  PROVE  /\ Hull(e[r], e, X) \in SUBSET X /\ e[r] \subseteq Hull(e[r], e, X)
         /\ \A s \in Hull(e[r], e, X) :
              e[s] \subseteq Hull(e[r], e, X) /\ Hull(e[s], e, X) \subseteq Hull(e[r], e, X)
         /\ \A t \in Hull(e[r], e, X) : \E s \in e[r] : t = s \/ t \in Hull(e[s], e, X)
<1>1. /\ Hull(e[r], e, X) \in SUBSET X /\ e[r] \subseteq Hull(e[r], e, X)
      /\ Closed(Hull(e[r], e, X), e)
      /\ \A C \in SUBSET X : e[r] \subseteq C /\ Closed(C, e) => Hull(e[r], e, X) \subseteq C
  BY HullFacts
<1>2. \A s \in Hull(e[r], e, X) :
        e[s] \subseteq Hull(e[r], e, X) /\ Hull(e[s], e, X) \subseteq Hull(e[r], e, X)
  BY <1>1, HullFacts DEF Closed
<1> DEFINE C == {t \in X : \E s \in e[r] : t = s \/ t \in Hull(e[s], e, X)}
<1>3. C \in SUBSET X /\ e[r] \subseteq C
  OBVIOUS
<1>4. Closed(C, e)
  <2> SUFFICES ASSUME NEW t \in C, NEW u \in e[t] PROVE u \in C
    BY DEF Closed
  <2>1. PICK s \in e[r] : t = s \/ t \in Hull(e[s], e, X)
    OBVIOUS
  <2>2. e[s] \subseteq Hull(e[s], e, X) /\ Closed(Hull(e[s], e, X), e)
    BY <2>1, HullFacts
  <2>3. u \in Hull(e[s], e, X)
    BY <2>1, <2>2 DEF Closed
  <2>4. t \in X /\ u \in X
    OBVIOUS
  <2>5. QED
    BY <2>3, <2>4
<1>5. Hull(e[r], e, X) \subseteq C
  <2> HIDE DEF C
  <2> QED BY <1>1, <1>3, <1>4
<1>6. QED
  BY <1>1, <1>2, <1>5

(* Of what leads back to itself, something it leads to does so too, and    *)
(* leads to it.                                                            *)
LEMMA RoundAndRound ==
  ASSUME NEW X, NEW e \in [X -> SUBSET X], NEW r \in X, NEW t \in Hull(e[r], e, X),
         r \in Hull(e[t], e, X)
  PROVE  \E s \in e[t] : s \in Hull(e[r], e, X) /\ r \in Hull(e[s], e, X)
<1>1. t \in X /\ e[t] \subseteq Hull(e[r], e, X) /\ Hull(e[r], e, X) \in SUBSET X
  BY AheadFacts
<1>2. r \in Hull(e[r], e, X)
  BY AheadFacts
<1>3. PICK s \in e[t] : r = s \/ r \in Hull(e[s], e, X)
  BY <1>1, AheadFacts
<1>4. QED
  BY <1>1, <1>2, <1>3

(* The remainder that closes a cycle.                                      *)
LEMMA RoundTheCycle ==
  ASSUME NEW m \in Nat, m > 0, NEW k \in 1 .. m
  PROVE  (k % m) + 1 = IF k = m THEN 1 ELSE k + 1
<1>1. CASE k = m
  <2>1. m % m = 0
    BY Z3
  <2>2. QED
    BY <1>1, <2>1
<1>2. CASE k # m
  <2>1. k \in 0 .. m - 1
    BY <1>2
  <2>2. k % m = k
    BY <2>1
  <2>3. QED
    BY <1>2, <2>2
<1>3. QED
  BY <1>1, <1>2

(* A growing chain of subsets of a finite set comes to rest.               *)
LEMMA ChainRests ==
  ASSUME NEW X, IsFiniteSet(X), NEW E \in [Nat -> SUBSET X],
         \A k \in Nat : E[k] \subseteq E[k + 1],
         \A k \in Nat : E[k + 1] = E[k] => E[k + 2] = E[k + 1]
  PROVE  E[Cardinality(X) + 1] = E[Cardinality(X)]
<1> DEFINE S == {k \in Nat : E[k + 1] = E[k] \/ Cardinality(E[k + 1]) >= k + 1}
<1>1. \A k \in Nat : IsFiniteSet(E[k]) /\ Cardinality(E[k]) \in Nat /\ Cardinality(E[k]) <= Cardinality(X)
  <2> TAKE k \in Nat
  <2>1. E[k] \in SUBSET X
    OBVIOUS
  <2>2. QED
    BY <2>1, FS_Subset, FS_CardinalityType
<1>2. \A k \in Nat : E[k + 1] # E[k] => Cardinality(E[k + 1]) >= Cardinality(E[k]) + 1
  <2> SUFFICES ASSUME NEW k \in Nat, E[k + 1] # E[k]
               PROVE  Cardinality(E[k + 1]) >= Cardinality(E[k]) + 1
    OBVIOUS
  <2>1. E[k] \in SUBSET E[k + 1] /\ IsFiniteSet(E[k + 1]) /\ k + 1 \in Nat
    BY <1>1
  <2>2. Cardinality(E[k]) <= Cardinality(E[k + 1]) /\ Cardinality(E[k]) # Cardinality(E[k + 1])
    BY <2>1, FS_Subset
  <2>3. Cardinality(E[k]) \in Nat /\ Cardinality(E[k + 1]) \in Nat
    BY <1>1, <2>1
  <2>4. QED
    BY <2>2, <2>3
<1>3. 0 \in S
  <2>1. Cardinality(E[0]) >= 0 /\ Cardinality(E[0]) \in Nat /\ Cardinality(E[0 + 1]) \in Nat
    BY <1>1
  <2>2. E[0 + 1] # E[0] => Cardinality(E[0 + 1]) >= Cardinality(E[0]) + 1
    BY <1>2
  <2>3. QED
    BY <2>1, <2>2
<1>4. ASSUME NEW k \in Nat, k \in S PROVE k + 1 \in S
  <2>1. k + 1 \in Nat /\ (k + 1) + 1 = k + 2 /\ k + 2 \in Nat
    OBVIOUS
  <2>2. CASE E[k + 1] = E[k]
    BY <2>1, <2>2
  <2>3. CASE E[k + 2] # E[k + 1] /\ Cardinality(E[k + 1]) >= k + 1
    <3>1. Cardinality(E[(k + 1) + 1]) >= Cardinality(E[k + 1]) + 1
      BY <1>2, <2>1, <2>3
    <3>2. Cardinality(E[k + 1]) \in Nat /\ Cardinality(E[k + 2]) \in Nat
      BY <1>1, <2>1
    <3>3. QED
      BY <2>1, <2>3, <3>1, <3>2
  <2>4. CASE E[k + 2] = E[k + 1]
    BY <2>1, <2>4
  <2>5. QED
    BY <1>4, <2>2, <2>3, <2>4
<1>5. \A k \in Nat : k \in S
  <2> HIDE DEF S
  <2> QED BY <1>3, <1>4, CountOn
<1>6. Cardinality(X) \in Nat
  BY FS_CardinalityType
<1>7. Cardinality(X) \in S /\ Cardinality(X) + 1 \in Nat
  BY <1>5, <1>6
<1>8. Cardinality(E[Cardinality(X) + 1]) <= Cardinality(X)
        /\ Cardinality(E[Cardinality(X) + 1]) \in Nat
  BY <1>1, <1>7
<1>9. QED
  BY <1>6, <1>7, <1>8

(* Something leads back to itself just when there is a set in which        *)
(* everything leads to something of it.                                    *)
LEMMA Knots ==
  ASSUME NEW X, IsFiniteSet(X), NEW e \in [X -> SUBSET X]
  PROVE  (\E x \in X : x \in Hull(e[x], e, X)) <=>
           \E T \in SUBSET X : T # {} /\ \A t \in T : e[t] \cap T # {}
<1>1. ASSUME NEW x \in X, x \in Hull(e[x], e, X)
      PROVE  \E T \in SUBSET X : T # {} /\ \A t \in T : e[t] \cap T # {}
  <2> DEFINE T == {t \in Hull(e[x], e, X) : x \in Hull(e[t], e, X)}
  <2>1. x \in T /\ T \in SUBSET X
    BY <1>1, AheadFacts
  <2>2. ASSUME NEW t \in T PROVE e[t] \cap T # {}
    <3>1. PICK s \in e[t] : s \in Hull(e[x], e, X) /\ x \in Hull(e[s], e, X)
      BY RoundAndRound
    <3>2. QED
      BY <3>1
  <2>3. QED
    BY <2>1, <2>2
<1>2. ASSUME NEW T \in SUBSET X, T # {}, \A t \in T : e[t] \cap T # {}
      PROVE  \E x \in X : x \in Hull(e[x], e, X)
  <2> DEFINE Size(t) == Cardinality(Hull(e[t], e, X))
             Sizes == {Size(t) : t \in T}
  <2>1. \A t \in T : /\ Hull(e[t], e, X) \in SUBSET X /\ IsFiniteSet(Hull(e[t], e, X))
                     /\ Size(t) \in Nat
    BY AheadFacts, FS_Subset, FS_CardinalityType
  <2>2. Sizes \in SUBSET Nat /\ Sizes # {}
    BY <1>2, <2>1
  <2>3. PICK k \in Sizes : \A j \in Sizes : k <= j
    <3> HIDE DEF Sizes
    <3> QED BY <2>2, LeastExists
  <2>4. PICK t \in T : Size(t) = k
    BY <2>3
  <2>5. PICK s \in e[t] : s \in T
    BY <1>2
  <2>6. Hull(e[s], e, X) \subseteq Hull(e[t], e, X) /\ s \in Hull(e[t], e, X) /\ s \in X
    BY <2>5, AheadFacts
  <2>7. Size(t) <= Size(s)
    BY <2>3, <2>4, <2>5
  <2>8. Hull(e[s], e, X) = Hull(e[t], e, X)
    <3> DEFINE A == Hull(e[s], e, X)
               B == Hull(e[t], e, X)
    <3>1. A \in SUBSET B /\ IsFiniteSet(B) /\ Cardinality(B) <= Cardinality(A)
            /\ Cardinality(A) \in Nat /\ Cardinality(B) \in Nat
      BY <2>1, <2>5, <2>6, <2>7
    <3> HIDE DEF A, B
    <3>2. Cardinality(A) <= Cardinality(B) /\ (Cardinality(A) = Cardinality(B) => A = B)
      BY <3>1, FS_Subset
    <3>3. A = B
      BY <3>1, <3>2
    <3>4. QED
      BY <3>3 DEF A, B
  <2>9. QED
    BY <2>6, <2>8
<1>3. QED
  BY <1>1, <1>2

(* What is grown from one element is it, or grown from something it leads  *)
(* to.                                                                     *)
LEMMA HullOfOne ==
  ASSUME NEW X, NEW e \in [X -> SUBSET X], NEW n \in X, NEW m \in Hull({n}, e, X)
  PROVE  m = n \/ \E s \in e[n] : m \in Hull({s}, e, X)
<1> DEFINE C == {n} \cup UNION {Hull({s}, e, X) : s \in e[n]}
<1>1. \A s \in e[n] : /\ s \in X /\ Hull({s}, e, X) \in SUBSET X /\ s \in Hull({s}, e, X)
                      /\ Closed(Hull({s}, e, X), e)
  <2> TAKE s \in e[n]
  <2>1. s \in X /\ {s} \in SUBSET X
    OBVIOUS
  <2>2. QED
    BY <2>1, HullFacts
<1>2. C \in SUBSET X /\ {n} \subseteq C
  BY <1>1
<1>3. Closed(C, e)
  <2> SUFFICES ASSUME NEW c \in C PROVE e[c] \subseteq C
    BY DEF Closed
  <2>1. CASE c = n
    BY <1>1, <2>1
  <2>2. CASE c # n
    <3>1. PICK s \in e[n] : c \in Hull({s}, e, X)
      BY <2>2
    <3>2. e[c] \subseteq Hull({s}, e, X)
      BY <1>1, <3>1 DEF Closed
    <3>3. QED
      BY <3>2
  <2>3. QED
    BY <2>1, <2>2
<1>4. Hull({n}, e, X) \subseteq C
  <2> HIDE DEF C
  <2>1. {n} \in SUBSET X
    OBVIOUS
  <2>2. QED
    BY <1>2, <1>3, <2>1, HullFacts
<1>5. QED
  BY <1>4

-----------------------------------------------------------------------------
(* `g` goes on with `next` until it may stop.                              *)
Loops(g, next, Stop, last, X) ==
  g = [x \in X |-> IF x \in Stop THEN last[x] ELSE g[next[x]]]

(* A loop computes something: what it ends with, where it ends.            *)
LEMMA LoopExists ==
  ASSUME NEW X, NEW next \in [X -> X], NEW Stop \in SUBSET X, NEW last
  PROVE  \E g : Loops(g, next, Stop, last, X)
<1> DEFINE e == [x \in X |-> IF x \in Stop THEN {} ELSE {next[x]}]
           ends(x) == Hull({x}, e, X) \cap Stop
           end(x) == CHOOSE y \in X : y \in ends(x)
           g == [x \in X |-> last[end(x)]]
<1>1. e \in [X -> SUBSET X]
  OBVIOUS
<1>2. ASSUME NEW x \in X, x \in Stop PROVE ends(x) = {x}
  <2>1. e[x] = {}
    BY <1>2
  <2>2. {x} \in SUBSET X /\ Closed({x}, e)
    BY <2>1 DEF Closed
  <2> HIDE DEF e
  <2>3. Hull({x}, e, X) = {x}
    BY <1>1, <2>2, HullFacts
  <2>4. QED
    BY <1>2, <2>3
<1>3. ASSUME NEW x \in X, x \notin Stop PROVE ends(x) = ends(next[x])
  <2>1. e[x] = {next[x]} /\ next[x] \in X
    BY <1>3
  <2> HIDE DEF e
  <2>2. ASSUME NEW m \in Hull({x}, e, X) PROVE m \in {x} \cup Hull({next[x]}, e, X)
    <3>1. m = x \/ \E s \in e[x] : m \in Hull({s}, e, X)
      BY <1>1, HullOfOne
    <3>2. QED
      BY <2>1, <3>1
  <2>3. {x} \in SUBSET X /\ Hull({x}, e, X) \in SUBSET X /\ x \in Hull({x}, e, X)
        /\ Closed(Hull({x}, e, X), e)
    BY <1>1, HullFacts
  <2>4. {next[x]} \in SUBSET X /\ {next[x]} \subseteq Hull({x}, e, X)
    BY <2>1, <2>3 DEF Closed
  <2>5. Hull({next[x]}, e, X) \subseteq Hull({x}, e, X)
    BY <1>1, <2>3, <2>4, HullFacts
  <2>6. QED
    BY <1>3, <2>2, <2>5
<1> HIDE DEF ends
<1>4. ASSUME NEW x \in X
      PROVE  /\ x \in Stop => end(x) = x
             /\ x \notin Stop => end(x) = end(next[x])
  <2>1. x \in Stop => end(x) = x
    BY <1>2
  <2>2. x \notin Stop => end(x) = end(next[x])
    BY <1>3
  <2>3. QED
    BY <2>1, <2>2
<1> HIDE DEF end
<1>5. \A x \in X : g[x] = IF x \in Stop THEN last[x] ELSE g[next[x]]
  BY <1>4
<1>6. g = [x \in X |-> IF x \in Stop THEN last[x] ELSE g[next[x]]]
  <2>1. g = [x \in X |-> g[x]]
    OBVIOUS
  <2> HIDE DEF g
  <2>2. QED
    BY <1>5, <2>1
<1>7. QED
  BY <1>6 DEF Loops

-----------------------------------------------------------------------------
(* Numbers in their order.                                                 *)

(* The numbers of a set in their order.                                    *)
IsList(s, S) == s \in Seq(S) /\ Lists(s, S)

(* A greater number comes last.                                            *)
LEMMA ListAppend ==
  ASSUME NEW S \in SUBSET Nat, NEW s, IsList(s, S), NEW m \in Nat, \A x \in S : x < m
  PROVE  /\ IsList(Append(s, m), S \cup {m}) /\ Len(Append(s, m)) = Len(s) + 1
         /\ Append(s, m)[Len(s) + 1] = m /\ \A i \in 1 .. Len(s) : Append(s, m)[i] = s[i]
<1> DEFINE t == Append(s, m)
<1>1. s \in Seq(S \cup {m}) /\ m \in S \cup {m}
  BY SeqMonotonic DEF IsList
<1>2. /\ t \in Seq(S \cup {m}) /\ Len(t) = Len(s) + 1 /\ Len(s) \in Nat
      /\ t[Len(s) + 1] = m /\ \A i \in 1 .. Len(s) : t[i] = s[i]
  BY <1>1, PushStack
<1>3. /\ DOMAIN s = 1 .. Len(s) /\ DOMAIN t = 1 .. Len(s) + 1
      /\ {s[i] : i \in 1 .. Len(s)} = S
      /\ \A i, j \in 1 .. Len(s) : i < j => s[i] < s[j]
  BY <1>1, <1>2 DEF IsList, Lists
<1> HIDE DEF t
<1>4. {t[i] : i \in DOMAIN t} = S \cup {m}
  <2>1. DOMAIN t = 1 .. Len(s) \cup {Len(s) + 1}
    BY <1>2, <1>3
  <2>2. {t[i] : i \in DOMAIN t} = {t[i] : i \in 1 .. Len(s)} \cup {t[Len(s) + 1]}
    BY <2>1
  <2>3. {t[i] : i \in 1 .. Len(s)} = {s[i] : i \in 1 .. Len(s)}
    BY <1>2
  <2>4. QED
    BY <1>2, <1>3, <2>2, <2>3
<1>5. ASSUME NEW i \in DOMAIN t, NEW j \in DOMAIN t, i < j PROVE t[i] < t[j]
  <2>1. i \in 1 .. Len(s) /\ t[i] = s[i] /\ s[i] \in S
    BY <1>2, <1>3, <1>5
  <2>2. CASE j \in 1 .. Len(s)
    BY <1>2, <1>3, <1>5, <2>1, <2>2
  <2>3. CASE j = Len(s) + 1
    BY <1>2, <2>1, <2>3
  <2>4. QED
    BY <1>2, <1>3, <2>2, <2>3
<1>6. IsList(t, S \cup {m})
  BY <1>2, <1>4, <1>5 DEF IsList, Lists
<1>7. QED
  BY <1>2, <1>6 DEF t

(* What a list says element by element.                                    *)
LEMMA ListFacts ==
  ASSUME NEW S \in SUBSET Nat, NEW x, IsList(x, S)
  PROVE  /\ x \in Seq(S) /\ Len(x) \in Nat /\ DOMAIN x = 1 .. Len(x)
         /\ \A i \in 1 .. Len(x) : x[i] \in S /\ x[i] \in Nat
         /\ \A y \in S : \E i \in 1 .. Len(x) : x[i] = y
         /\ \A i, j \in 1 .. Len(x) : i < j => x[i] < x[j]
<1>1. x \in Seq(S) /\ Len(x) \in Nat /\ DOMAIN x = 1 .. Len(x)
  BY DEF IsList
<1>2. {x[i] : i \in 1 .. Len(x)} = S /\ \A i, j \in 1 .. Len(x) : i < j => x[i] < x[j]
  BY <1>1 DEF IsList, Lists
<1>3. QED
  BY <1>1, <1>2

(* Up to a place two lists are the same.                                   *)
BeginAlike(x, y, k) == \A i \in 1 .. k - 1 : i <= Len(y) /\ x[i] = y[i]

(* Of two lists that begin alike, what comes next in one comes in the other*)
(* no earlier.                                                             *)
LEMMA ListsGoOn ==
  ASSUME NEW S \in SUBSET Nat, NEW x, IsList(x, S), NEW y, IsList(y, S), NEW k \in 1 .. Len(x),
         BeginAlike(x, y, k)
  PROVE  \E j \in 1 .. Len(y) : j >= k /\ y[j] = x[k]
<1>0. /\ Len(y) \in Nat /\ \A i \in 1 .. Len(y) : y[i] \in Nat
      /\ \A z \in S : \E i \in 1 .. Len(y) : y[i] = z
  BY ListFacts
<1>1. /\ Len(x) \in Nat /\ k \in Nat /\ x[k] \in S
      /\ \A i \in 1 .. Len(x) : x[i] \in Nat
      /\ \A i, j \in 1 .. Len(x) : i < j => x[i] < x[j]
  <2>1. /\ Len(x) \in Nat /\ \A i \in 1 .. Len(x) : x[i] \in S /\ x[i] \in Nat
        /\ \A i, j \in 1 .. Len(x) : i < j => x[i] < x[j]
    BY ListFacts
  <2>2. QED
    BY <2>1
<1>2. PICK j \in 1 .. Len(y) : y[j] = x[k]
  BY <1>0, <1>1
<1>3. ASSUME j < k PROVE FALSE
  <2>1. j \in 1 .. k - 1 /\ j \in 1 .. Len(x)
    BY <1>1, <1>3
  <2>2. x[j] = y[j]
    BY <2>1 DEF BeginAlike
  <2>3. x[j] < x[k] /\ x[j] \in Nat
    BY <1>1, <1>3, <2>1
  <2>4. QED
    BY <1>2, <2>2, <2>3
<1>4. QED
  BY <1>0, <1>1, <1>2, <1>3

(* There is one such list at most.                                         *)
LEMMA ListIsOne ==
  ASSUME NEW S \in SUBSET Nat, NEW s, IsList(s, S), NEW t, IsList(t, S)
  PROVE  s = t
<1>1. ASSUME NEW x, IsList(x, S)
      PROVE  /\ x \in Seq(S) /\ Len(x) \in Nat /\ DOMAIN x = 1 .. Len(x)
             /\ \A i \in 1 .. Len(x) : x[i] \in S /\ x[i] \in Nat
             /\ \A i, j \in 1 .. Len(x) : i < j => x[i] < x[j]
  BY <1>1, ListFacts
<1> DEFINE Agree == {k \in Nat : \A i \in 1 .. k :
                       (i <= Len(s) <=> i <= Len(t)) /\ (i <= Len(s) => s[i] = t[i])}
<1>3. 0 \in Agree
  OBVIOUS
<1>4. ASSUME NEW k \in Nat, k \in Agree PROVE k + 1 \in Agree
  <2>0. Len(s) \in Nat /\ Len(t) \in Nat
    BY <1>1
  <2>1. ASSUME NEW x, IsList(x, S), NEW y, IsList(y, S), k + 1 <= Len(x),
               \A i \in 1 .. k : (i <= Len(x) <=> i <= Len(y)) /\ (i <= Len(x) => x[i] = y[i])
        PROVE  k + 1 <= Len(y) /\ x[k + 1] >= y[k + 1]
    <3>1. Len(x) \in Nat /\ Len(y) \in Nat
      BY <1>1, <2>1
    <3>2. k + 1 \in 1 .. Len(x) /\ (k + 1) - 1 = k
      BY <2>1, <3>1
    <3>3. \A i \in 1 .. k : i <= Len(y) /\ x[i] = y[i]
      BY <2>1, <3>1
    <3>4. \E j \in 1 .. Len(y) : j >= k + 1 /\ y[j] = x[k + 1]
      <4>1. PICK m \in 1 .. Len(x) : m = k + 1
        BY <3>2
      <4>2. BeginAlike(x, y, m)
        BY <3>2, <3>3, <4>1 DEF BeginAlike
      <4>3. \E j \in 1 .. Len(y) : j >= m /\ y[j] = x[m]
        BY <2>1, <4>2, ListsGoOn
      <4>4. QED
        BY <4>1, <4>3
    <3>5. PICK j \in 1 .. Len(y) : j >= k + 1 /\ y[j] = x[k + 1]
      BY <3>4
    <3>6. k + 1 \in 1 .. Len(y)
      BY <3>1, <3>5
    <3>7. y[k + 1] \in Nat /\ y[j] \in Nat /\ (k + 1 < j => y[k + 1] < y[j])
      BY <1>1, <2>1, <3>5, <3>6
    <3>8. QED
      BY <3>1, <3>5, <3>6, <3>7
  <2>2. \A i \in 1 .. k : (i <= Len(s) <=> i <= Len(t)) /\ (i <= Len(s) => s[i] = t[i])
    BY <1>4
  <2>3. k + 1 <= Len(s) => k + 1 <= Len(t) /\ s[k + 1] >= t[k + 1]
    BY <2>1, <2>2
  <2>4. k + 1 <= Len(t) => k + 1 <= Len(s) /\ t[k + 1] >= s[k + 1]
    <3>1. \A i \in 1 .. k : (i <= Len(t) <=> i <= Len(s)) /\ (i <= Len(t) => t[i] = s[i])
      BY <2>2
    <3>2. QED
      BY <2>1, <3>1
  <2>5. k + 1 <= Len(s) => s[k + 1] = t[k + 1]
    <3>1. SUFFICES ASSUME k + 1 <= Len(s) PROVE s[k + 1] = t[k + 1]
      OBVIOUS
    <3>2. k + 1 \in 1 .. Len(s) /\ k + 1 \in 1 .. Len(t)
      BY <2>0, <2>3, <3>1
    <3>3. s[k + 1] \in Nat /\ t[k + 1] \in Nat
      BY <1>1, <3>2
    <3>4. QED
      BY <2>3, <2>4, <3>1, <3>3
  <2>6. ASSUME NEW i \in 1 .. k + 1
        PROVE  (i <= Len(s) <=> i <= Len(t)) /\ (i <= Len(s) => s[i] = t[i])
    <3>1. i = k + 1 \/ i \in 1 .. k
      BY <2>6
    <3>2. QED
      BY <2>2, <2>3, <2>4, <2>5, <3>1
  <2>7. QED
    BY <2>6
<1>5. \A k \in Nat : k \in Agree
  <2> HIDE DEF Agree
  <2> QED BY <1>3, <1>4, CountOn
<1>6. Len(s) = Len(t) /\ \A i \in 1 .. Len(s) : s[i] = t[i]
  <2>0. Len(s) \in Nat /\ Len(t) \in Nat
    BY <1>1
  <2>1. PICK k \in Nat : k > Len(s) /\ k > Len(t)
    <3>1. Len(s) + Len(t) + 1 \in Nat /\ Len(s) + Len(t) + 1 > Len(s) /\ Len(s) + Len(t) + 1 > Len(t)
      BY <2>0
    <3>2. QED
      BY <3>1
  <2>2. \A i \in 1 .. k : (i <= Len(s) <=> i <= Len(t)) /\ (i <= Len(s) => s[i] = t[i])
    BY <1>5
  <2>3. Len(s) = Len(t)
    <3>1. Len(s) > 0 => Len(s) <= Len(t)
      <4>1. Len(s) > 0 => Len(s) \in 1 .. k
        BY <2>0, <2>1
      <4>2. QED
        BY <2>0, <2>2, <4>1
    <3>2. Len(t) > 0 => Len(t) <= Len(s)
      <4>1. Len(t) > 0 => Len(t) \in 1 .. k
        BY <2>0, <2>1
      <4>2. QED
        BY <2>0, <2>2, <4>1
    <3>3. QED
      BY <2>0, <3>1, <3>2
  <2>4. \A i \in 1 .. Len(s) : i \in 1 .. k /\ i <= Len(s)
    BY <2>0, <2>1
  <2>5. QED
    BY <2>2, <2>3, <2>4
<1>7. s \in Seq(S) /\ t \in Seq(S)
  BY <1>1
<1>8. QED
  BY <1>6, <1>7, SeqEqual

(* It is as long as there are numbers, and is the one Ascending chooses.   *)
LEMMA ListIsAscending ==
  ASSUME NEW S \in SUBSET Nat, NEW s, IsList(s, S)
  PROVE  IsFiniteSet(S) /\ Cardinality(S) = Len(s) /\ Ascending(S) = s
<1>1. s \in Seq(S) /\ Len(s) \in Nat /\ DOMAIN s = 1 .. Len(s) /\ Lists(s, S)
  BY DEF IsList
<1>2. s \in Bijection(1 .. Len(s), S)
  <2>1. s \in [1 .. Len(s) -> S]
    BY <1>1
  <2>2. \A i, j \in 1 .. Len(s) : s[i] = s[j] => i = j
    <3> SUFFICES ASSUME NEW i \in 1 .. Len(s), NEW j \in 1 .. Len(s), s[i] = s[j] PROVE i = j
      OBVIOUS
    <3>1. (i < j => s[i] < s[j]) /\ (j < i => s[j] < s[i])
      BY <1>1 DEF Lists
    <3>2. s[i] \in Nat /\ s[j] \in Nat
      BY <2>1
    <3>3. QED
      BY <1>1, <3>1, <3>2
  <2>3. \A x \in S : \E i \in 1 .. Len(s) : s[i] = x
    BY <1>1 DEF Lists
  <2>4. s \in Injection(1 .. Len(s), S)
    BY <2>1, <2>2 DEF Injection, IsInjective
  <2>5. s \in Surjection(1 .. Len(s), S)
    BY <2>1, <2>3 DEF Surjection
  <2>6. QED
    BY <2>4, <2>5 DEF Bijection
<1>3. IsFiniteSet(S) /\ Cardinality(S) = Len(s)
  <2>1. IsFiniteSet(1 .. Len(s)) /\ Cardinality(1 .. Len(s)) = Len(s)
    <3>1. PICK n \in Nat : n = Len(s)
      BY <1>1
    <3>2. IsFiniteSet(1 .. n) /\ Cardinality(1 .. n) = n
      BY FS_Interval
    <3>3. QED
      BY <3>1, <3>2
  <2>2. ExistsBijection(1 .. Len(s), S)
    BY <1>2 DEF ExistsBijection
  <2>3. QED
    BY <2>1, <2>2, FS_Bijection
<1>4. s \in [1 .. Cardinality(S) -> S] /\ Lists(s, S)
  BY <1>1, <1>3
<1>5. Ascending(S) \in [1 .. Cardinality(S) -> S] /\ Lists(Ascending(S), S)
  BY <1>4 DEF Ascending
<1>6. IsList(Ascending(S), S)
  <2>1. Ascending(S) \in [1 .. Len(s) -> S]
    BY <1>3, <1>5
  <2>2. Ascending(S) \in Seq(S)
    BY <1>1, <2>1, SeqDef
  <2>3. QED
    BY <1>5, <2>2 DEF IsList
<1>7. Ascending(S) = s
  <2>1. PICK a : a = Ascending(S)
    OBVIOUS
  <2>2. IsList(a, S)
    BY <1>6, <2>1
  <2>3. QED
    BY <2>1, <2>2, ListIsOne
<1>8. QED
  BY <1>3, <1>7

(* There is a list of any numbers below a bound.                           *)
LEMMA ListExists ==
  ASSUME NEW u \in Nat, NEW S, \A x \in S : x \in Nat /\ x < u
  PROVE  \E s : IsList(s, S)
<1> DEFINE Good == {k \in 0 .. u : \A T \in SUBSET Nat : (\A x \in T : x < k) => \E s : IsList(s, T)}
<1>1. 0 \in Good
  <2> SUFFICES ASSUME NEW T \in SUBSET Nat, \A x \in T : x < 0 PROVE \E s : IsList(s, T)
    OBVIOUS
  <2>1. T = {}
    OBVIOUS
  <2>2. IsList(<< >>, {})
    BY DEF IsList, Lists
  <2>3. QED
    BY <2>1, <2>2
<1>2. ASSUME NEW k \in 1 .. u, k - 1 \in Good PROVE k \in Good
  <2> SUFFICES ASSUME NEW T \in SUBSET Nat, \A x \in T : x < k PROVE \E s : IsList(s, T)
    OBVIOUS
  <2>1. PICK m \in Nat : m = k - 1
    OBVIOUS
  <2>2. PICK U \in SUBSET Nat : U = T \ {m}
    OBVIOUS
  <2>3. \A x \in U : x < m
    BY <2>1, <2>2
  <2>4. PICK s : IsList(s, U)
    BY <1>2, <2>1, <2>3
  <2>5. CASE m \in T
    <3>1. IsList(Append(s, m), U \cup {m})
      BY <2>3, <2>4, ListAppend
    <3>2. U \cup {m} = T
      BY <2>2, <2>5
    <3>3. QED
      BY <3>1, <3>2
  <2>6. CASE m \notin T
    <3>1. U = T
      BY <2>2, <2>6
    <3>2. QED
      BY <2>4, <3>1
  <2>7. QED
    BY <2>5, <2>6
<1>3. u \in Good
  <2> HIDE DEF Good
  <2>1. \A k \in 0 .. u : k \in Good
    BY <1>1, <1>2, CountUp
  <2>2. QED
    BY <2>1
<1>4. QED
  BY <1>3

-----------------------------------------------------------------------------
(* Sequences joined.                                                       *)

(* Joining the sequences of a sequence from its first on.                  *)
Joins(t, s, n) ==
  /\ t[1] = s[1]
  /\ \A i \in 1 .. n : i # 1 => t[i] = t[i - 1] \o s[i]

(* What the recursion of FlattenSeq computes.                              *)
LEMMA FlattenFacts ==
  ASSUME NEW S, NEW s \in Seq(Seq(S)), s # << >>
  PROVE  \E t \in [1 .. Len(s) -> Seq(S)] : Joins(t, s, Len(s)) /\ FlattenSeq(s) = t[Len(s)]
<1> DEFINE n == Len(s)
           V == Seq(S)
           P(g) == g = [i \in 1 .. n |-> IF i = 1 THEN s[i] ELSE g[i - 1] \o s[i]]
           G == CHOOSE g : P(g)
           h == [x \in (1 .. n - 1) \X V |-> x[2] \o s[x[1] + 1]]
<1>1. n \in Nat /\ n > 0 /\ n - 1 \in Nat /\ \A i \in 1 .. n : s[i] \in V
  OBVIOUS
<1>2. h \in [(1 .. n - 1) \X V -> V]
  <2>1. ASSUME NEW k \in 1 .. n - 1, NEW v \in V PROVE v \o s[k + 1] \in V
    <3>1. k + 1 \in 1 .. n
      BY <1>1
    <3>2. s[k + 1] \in V
      BY <1>1, <3>1
    <3>3. QED
      BY <3>2, ConcatProperties
  <2> HIDE DEF V
  <2>2. QED
    BY <2>1
<1>3. PICK g \in [0 .. n - 1 -> V] : Iterates(g, n - 1, s[1], h)
  <2>1. s[1] \in V
    BY <1>1
  <2>2. PICK m \in Nat : m = n - 1
    BY <1>1
  <2>3. h \in [(1 .. m) \X V -> V]
    BY <1>2, <2>2
  <2> HIDE DEF h, n, V
  <2>4. \E g \in [0 .. m -> V] : Iterates(g, m, s[1], h)
    BY <2>1, <2>3, IterationExists
  <2>5. QED
    BY <2>2, <2>4
<1>4. g[0] = s[1] /\ \A k \in 1 .. n - 1 : g[k] = g[k - 1] \o s[k + 1]
  <2>1. g[0] = s[1] /\ \A k \in 1 .. n - 1 : g[k] = h[<<k, g[k - 1]>>]
    <3> HIDE DEF h
    <3> QED BY <1>3 DEF Iterates
  <2>2. ASSUME NEW k \in 1 .. n - 1 PROVE h[<<k, g[k - 1]>>] = g[k - 1] \o s[k + 1]
    <3>1. g[k - 1] \in V
      <4>1. k - 1 \in 0 .. n - 1
        BY <1>1
      <4> HIDE DEF V, n
      <4>2. QED
        BY <4>1
    <3> HIDE DEF V
    <3>2. QED
      BY <3>1
  <2>3. QED
    BY <2>1, <2>2
<1> DEFINE t == [i \in 1 .. n |-> g[i - 1]]
<1>5. t \in [1 .. n -> V] /\ t[1] = s[1]
      /\ \A i \in 1 .. n : i # 1 => t[i] = t[i - 1] \o s[i]
  <2>1. t \in [1 .. n -> V]
    <3> HIDE DEF V
    <3> QED BY <1>1
  <2>2. t[1] = s[1]
    BY <1>1, <1>4
  <2>3. ASSUME NEW i \in 1 .. n, i # 1 PROVE t[i] = t[i - 1] \o s[i]
    <3>1. i - 1 \in 1 .. n - 1 /\ i - 1 \in 1 .. n /\ (i - 1) + 1 = i
      BY <1>1, <2>3
    <3>2. g[i - 1] = g[(i - 1) - 1] \o s[i]
      BY <1>4, <3>1
    <3>3. QED
      BY <3>1, <3>2
  <2>4. QED
    BY <2>1, <2>2, <2>3
<1> HIDE DEF h, t, n, V
<1>6. P(t)
  <2>1. t = [i \in 1 .. n |-> t[i]]
    BY <1>5
  <2>2. \A i \in 1 .. n : t[i] = IF i = 1 THEN s[i] ELSE t[i - 1] \o s[i]
    BY <1>1, <1>5
  <2>3. QED
    BY <2>1, <2>2
<1>7. P(G)
  <2> HIDE DEF P
  <2> QED BY <1>6
<1>8. FlattenSeq(s) = G[n]
  BY <1>1 DEF FlattenSeq, n
<1> HIDE DEF G
<1>9. G[1] = s[1] /\ \A i \in 1 .. n : i # 1 => G[i] = G[i - 1] \o s[i]
  <2>1. 1 \in 1 .. n
    BY <1>1
  <2>2. QED
    BY <1>7, <2>1
<1> DEFINE A == {k \in Nat : k + 1 \in 1 .. n => G[k + 1] = t[k + 1]}
<1>10. 0 \in A /\ \A k \in Nat : k \in A => k + 1 \in A
  <2>1. 0 \in A
    BY <1>1, <1>5, <1>9
  <2>2. ASSUME NEW k \in Nat, k \in A, (k + 1) + 1 \in 1 .. n PROVE G[(k + 1) + 1] = t[(k + 1) + 1]
    <3>1. PICK i \in 1 .. n : i = (k + 1) + 1
      BY <2>2
    <3>2. i # 1 /\ i - 1 = k + 1 /\ k + 1 \in 1 .. n
      BY <1>1, <3>1
    <3>3. G[i - 1] = t[i - 1]
      BY <2>2, <3>2
    <3>4. QED
      BY <1>5, <1>9, <3>1, <3>2, <3>3
  <2>3. QED
    BY <2>1, <2>2
<1>11. \A k \in Nat : k \in A
  <2> HIDE DEF A
  <2> QED BY <1>10, CountOn
<1>12. G[n] = t[n]
  <2>1. PICK k \in Nat : k = n - 1
    BY <1>1
  <2>2. k + 1 = n /\ k + 1 \in 1 .. n
    BY <1>1, <2>1
  <2>3. k \in A
    <3> HIDE DEF A
    <3> QED BY <1>11
  <2>4. QED
    BY <2>2, <2>3
<1>13. Joins(t, s, n)
  BY <1>5 DEF Joins
<1>14. QED
  BY <1>5, <1>8, <1>12, <1>13 DEF n, V

(* One sequence joined is that sequence, and one more is joined at the end.*)
LEMMA FlattenMore ==
  ASSUME NEW S, NEW s \in Seq(Seq(S)), NEW x \in Seq(S)
  PROVE  /\ s = << >> => FlattenSeq(Append(s, x)) = x
         /\ s # << >> => FlattenSeq(s) \in Seq(S) /\ FlattenSeq(Append(s, x)) = FlattenSeq(s) \o x
<1> DEFINE V == Seq(S)
<1> HIDE DEF V
<1>1. s \in Seq(V) /\ x \in V
  BY DEF V
<1> PICK w : w = Append(s, x)
  OBVIOUS
<1>2. /\ w \in Seq(V) /\ Len(s) \in Nat /\ Len(w) = Len(s) + 1 /\ w[Len(s) + 1] = x
      /\ \A i \in 1 .. Len(s) : w[i] = s[i]
  BY <1>1, PushStack
<1>3. w # << >>
  BY <1>2
<1>4. PICK u \in [1 .. Len(w) -> V] : Joins(u, w, Len(w)) /\ FlattenSeq(w) = u[Len(w)]
  BY <1>2, <1>3, FlattenFacts DEF V
<1>5. CASE s = << >>
  <2>1. Len(s) = 0
    BY <1>5
  <2>2. FlattenSeq(w) = x
    BY <1>2, <1>4, <2>1 DEF Joins
  <2>3. QED
    BY <1>5, <2>2
<1>6. CASE s # << >>
  <2>1. PICK t \in [1 .. Len(s) -> V] : Joins(t, s, Len(s)) /\ FlattenSeq(s) = t[Len(s)]
    BY <1>6, FlattenFacts DEF V
  <2>2. Len(s) > 0 /\ Len(s) \in Nat
    BY <1>1, <1>2, <1>6
  <2> DEFINE A == {k \in Nat : k + 1 \in 1 .. Len(s) => u[k + 1] = t[k + 1]}
  <2>3. 0 \in A
    BY <1>2, <1>4, <2>1, <2>2 DEF Joins
  <2>4. ASSUME NEW k \in Nat, k \in A, (k + 1) + 1 \in 1 .. Len(s)
        PROVE  u[(k + 1) + 1] = t[(k + 1) + 1]
    <3>1. PICK i \in 1 .. Len(s) : i = (k + 1) + 1
      BY <2>4
    <3>2. i # 1 /\ i - 1 = k + 1 /\ k + 1 \in 1 .. Len(s) /\ i \in 1 .. Len(w) /\ w[i] = s[i]
      BY <1>2, <3>1
    <3>3. u[i - 1] = t[i - 1]
      BY <2>4, <3>2
    <3>4. u[i] = u[i - 1] \o w[i] /\ t[i] = t[i - 1] \o s[i]
      BY <1>4, <2>1, <3>2 DEF Joins
    <3>5. QED
      BY <3>1, <3>2, <3>3, <3>4
  <2>5. \A k \in Nat : k \in A => k + 1 \in A
    BY <2>4
  <2>6. \A k \in Nat : k \in A
    <3> HIDE DEF A
    <3> QED BY <2>3, <2>5, CountOn
  <2>7. u[Len(s)] = t[Len(s)]
    <3>1. PICK k \in Nat : k = Len(s) - 1
      <4>1. Len(s) - 1 \in Nat
        BY <2>2
      <4>2. QED
        BY <4>1, Zenon
    <3>2. k + 1 = Len(s) /\ k + 1 \in 1 .. Len(s)
      BY <2>2, <3>1
    <3>3. k \in A
      <4> HIDE DEF A
      <4> QED BY <2>6
    <3>4. QED
      BY <3>2, <3>3
  <2>8. u[Len(w)] = u[Len(s)] \o x
    <3>1. Len(w) \in 1 .. Len(w) /\ Len(w) # 1 /\ Len(w) - 1 = Len(s) /\ w[Len(w)] = x
      BY <1>2, <2>2
    <3>2. QED
      BY <1>4, <3>1 DEF Joins
  <2>9. Len(s) \in 1 .. Len(s) /\ FlattenSeq(s) \in V
    <3>1. Len(s) \in 1 .. Len(s)
      BY <1>2, <2>2
    <3>2. QED
      BY <2>1, <3>1
  <2>10. QED
    BY <1>4, <1>6, <2>1, <2>7, <2>8, <2>9 DEF V
<1>7. QED
  BY <1>5, <1>6
=============================================================================
