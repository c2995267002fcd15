---------------------------- MODULE SyntaxProofs ----------------------------
(***************************************************************************)
(* The parser is right about every text: rule by rule and blank line by    *)
(* blank line it reads what every reading of the text begins with, and it  *)
(* gives up only where there is none.                                      *)
(***************************************************************************)
EXTENDS DescentProofs

-----------------------------------------------------------------------------
(* Blank lines and rules.                                                  *)

(* Spaces and tabs are whitespace.                                         *)
LEMMA SpacesFacts ==
  ASSUME Typed, NEW p \in 0 .. End, NEW s \in Runs(Given, p, WSP)
  PROVE  /\ s \in p .. End /\ StarCWsp(s) = StarCWsp(p)
         /\ s # p => Peek(p) \in WSP
         /\ Peek(s) \notin WSP => s = StarWsp(p)
<1>0. p \in Nat /\ End \in Nat /\ "END" \notin WSP
  <2>1. "END" \notin WSP
    BY DEF WSP
  <2> QED BY <2>1, PeekFacts
<1>m. PICK m : m = Skip(p, WSP)
  OBVIOUS
<1>1. m \in p .. End /\ (\A i \in p .. m - 1 : Peek(i) \in WSP) /\ Runs(Given, p, WSP) = p .. m
  <2>1. /\ Skip(p, WSP) \in p .. End
        /\ \A i \in p .. Skip(p, WSP) - 1 : Peek(i) \in WSP
        /\ Runs(Given, p, WSP) = p .. Skip(p, WSP)
    BY <1>0, SkipFacts
  <2> QED BY <1>m, <2>1
<1>2. s \in p .. m /\ m \in Nat /\ p <= m
  BY <1>0, <1>1
<1> DEFINE S == {i \in p .. m : StarCWsp(i) = StarCWsp(p)}
<1>3. p \in S
  BY <1>0, <1>2
<1>4. ASSUME NEW k \in p .. m, k < m, k \in S PROVE k + 1 \in S
  <2>1. k \in p .. m - 1 /\ k \in 0 .. End /\ k + 1 \in p .. m
    BY <1>0, <1>1, <1>4
  <2>2. CWsp(k) = k + 1
    BY <1>1, <2>1, CWspFacts
  <2>3. StarCWsp(k + 1) = StarCWsp(k)
    BY <2>1, <2>2, StarFacts
  <2> QED BY <1>4, <2>1, <2>3
<1>5. \A k \in p .. m : k \in S
  <2> HIDE DEF S
  <2> QED BY <1>0, <1>2, <1>3, <1>4, CountFrom
<1>6. s # p => Peek(p) \in WSP
  <2>1. s # p => p \in p .. m - 1
    BY <1>0, <1>2
  <2> QED BY <1>1, <2>1
<1>7. Peek(s) \notin WSP => s = StarWsp(p)
  BY <1>0, SkipEnds DEF StarWsp
<1>8. s \in p .. End
  BY <1>0, <1>1, <1>2
<1> QED BY <1>2, <1>5, <1>6, <1>7, <1>8

(* After the line ending that `s` begins with, the text goes on without    *)
(* whitespace, or with a line that has nothing else.                       *)
NothingMore(q) == Peek(q) \in WSP => Peek(StarCWsp(q)) \in Breaks

(* A blank line up to where nothing more of it follows is the one the      *)
(* parser takes.                                                           *)
LEMMA LineOver ==
  ASSUME Typed, NEW p \in 0 .. End, NEW s \in Runs(Given, p, WSP), NEW q \in CNlEnds(Given, s), NothingMore(q)
  PROVE  /\ Peek(StarCWsp(p)) \in Breaks /\ Peek(p) \in Blanks
         /\ s = StarWsp(p) /\ ~Failed(CNl(s)) /\ CNl(s).at = q /\ q \in p + 1 .. End
<1>0. p \in Nat /\ End \in Nat /\ WSP \cap Breaks = {}
  <2>1. WSP \cap Breaks = {}
    BY DEF WSP, Breaks
  <2> QED BY <2>1, PeekFacts
<1>1. s \in p .. End /\ StarCWsp(s) = StarCWsp(p) /\ (s # p => Peek(p) \in WSP) /\ (Peek(s) \notin WSP => s = StarWsp(p))
  BY SpacesFacts
<1>2. s \in 0 .. End
  BY <1>0, <1>1
<1>3. ~Failed(CNl(s)) /\ q = CNl(s).at /\ q \in s + 1 .. End /\ Peek(s) \in Breaks
  BY <1>2, CNlFacts
<1>4. q \in 0 .. End /\ q \in p + 1 .. End
  BY <1>0, <1>1, <1>2, <1>3
<1>5. CWsp(s) = IF Peek(q) \in WSP THEN q + 1 ELSE s
  BY <1>2, CWspFacts
<1>6. Peek(StarCWsp(s)) \in Breaks
  <2>1. CASE Peek(q) \in WSP
    <3>1. CWsp(q) = q + 1
      BY <1>4, <2>1, CWspFacts
    <3>2. StarCWsp(s) = StarCWsp(q)
      BY <1>2, <1>4, <1>5, <2>1, <3>1, StarFacts
    <3> QED BY <2>1, <3>2 DEF NothingMore
  <2>2. CASE Peek(q) \notin WSP
    <3>1. StarCWsp(s) = s
      BY <1>2, <1>5, <2>2, StarFacts
    <3> QED BY <1>3, <3>1
  <2> QED BY <2>1, <2>2
<1>7. Peek(p) \in Blanks
  BY <1>1, <1>3 DEF Blanks
<1> QED BY <1>0, <1>1, <1>3, <1>4, <1>6, <1>7

-----------------------------------------------------------------------------
(* One rule.                                                               *)
RuleReading(z, n, how, b) ==
  \E s \in Runs(Given, b[1], WSP) : \E q \in CNlEnds(Given, s) :
    z = <<q, [name |-> n[2], defined_as |-> how[2], body |-> UnwrapSingle(b[2], "alt")]>>

(* The readings of a rule, one by one.                                     *)
LEMMA RulesAre ==
  ASSUME NEW p
  PROVE  \A z : z \in RulesAt(Given, p) <=>
           \E n \in Rulenames(Given, p) : \E how \in DefinedAss(Given, n[1]) :
             \E b \in Expansions(Given)[how[1]].branches : RuleReading(z, n, how, b)
<1> DEFINE U3(n, how, a) == {<<q, [name |-> n[2], defined_as |-> how[2], body |-> a[2]]>> :
                               q \in UNION {CNlEnds(Given, s) : s \in Runs(Given, a[1], WSP)}}
           U2(n, how) == UNION {U3(n, how, a) : a \in Alternations(Given, how[1], Expansions(Given))}
           U1(n) == UNION {U2(n, how) : how \in DefinedAss(Given, n[1])}
<1>1. RulesAt(Given, p) = UNION {U1(n) : n \in Rulenames(Given, p)}
  BY DEF RulesAt
<1>2. ASSUME NEW n, NEW how, NEW b, NEW z
      PROVE  z \in U3(n, how, <<b[1], UnwrapSingle(b[2], "alt")>>) <=> RuleReading(z, n, how, b)
  <2>v. PICK v : v = UnwrapSingle(b[2], "alt")
    OBVIOUS
  <2>a. PICK a : a = <<b[1], v>>
    OBVIOUS
  <2>b. a[1] = b[1] /\ a[2] = v
    BY <2>a
  <2>1. z \in U3(n, how, a) <=> \E s \in Runs(Given, a[1], WSP) : \E q \in CNlEnds(Given, s) :
           z = <<q, [name |-> n[2], defined_as |-> how[2], body |-> a[2]]>>
    OBVIOUS
  <2> HIDE DEF U3
  <2>2. z \in U3(n, how, a) <=> RuleReading(z, n, how, b)
    BY <2>1, <2>b, <2>v DEF RuleReading
  <2> QED BY <2>2, <2>a, <2>v
<1> HIDE DEF U3
<1>3. ASSUME NEW n, NEW how, NEW z
      PROVE  z \in U2(n, how) <=> \E b \in Expansions(Given)[how[1]].branches : RuleReading(z, n, how, b)
  <2>1. z \in U2(n, how) <=> \E b \in Expansions(Given)[how[1]].branches : z \in U3(n, how, <<b[1], UnwrapSingle(b[2], "alt")>>)
    BY DEF Alternations
  <2> HIDE DEF U2
  <2> QED BY <1>2, <2>1
<1> HIDE DEF U2
<1>4. ASSUME NEW n, NEW z
      PROVE  z \in U1(n) <=> \E how \in DefinedAss(Given, n[1]) :
               \E b \in Expansions(Given)[how[1]].branches : RuleReading(z, n, how, b)
  <2>1. z \in U1(n) <=> \E how \in DefinedAss(Given, n[1]) : z \in U2(n, how)
    OBVIOUS
  <2> HIDE DEF U1
  <2> QED BY <1>3, <2>1
<1> HIDE DEF U1
<1>5. \A z : z \in RulesAt(Given, p) <=> \E n \in Rulenames(Given, p) : z \in U1(n)
  BY <1>1
<1> QED BY <1>4, <1>5

(* A definition as it is read, and as the parser keeps it.                 *)
Definitions == [name : Names, defined_as : {"=", "=/"}, body : Trees]
(* A definition with its body canonical.                                   *)
Meaning(d) == [d EXCEPT !.body = Canonicalize(@)]

(* The meaning of a definition has its body canonical.                     *)
LEMMA MeaningIs ==
  ASSUME NEW a, NEW h, NEW e
  PROVE  Meaning([name |-> a, defined_as |-> h, body |-> e])
           = [name |-> a, defined_as |-> h, body |-> Canonicalize(e)]
  BY DEF Meaning

(* The parser reads a rule where there is one and as it can be read, which *)
(* if only blank lines and rules follow is in one way.                     *)
THEOREM RuleFacts ==
  ASSUME Typed, NEW p \in 0 .. End
  PROVE  /\ Rule(p).error \in Errors \cup {None}
         /\ ~Failed(Rule(p)) => \E d : <<Rule(p).at, d>> \in RulesAt(Given, p) /\ Rule(p).value = Meaning(d)
         /\ \A z \in RulesAt(Given, p) :
              /\ z = <<z[1], z[2]>> /\ z[1] \in p + 1 .. End /\ z[2] \in Definitions
              /\ Peek(p) \in ALPHA
              /\ NothingMore(z[1]) => Rule(p) = Read(z[1], Meaning(z[2]))
<1>0. p \in Nat /\ End \in Nat /\ "END" \notin WSP /\ Blanks \subseteq Stops
  <2>1. "END" \notin WSP /\ Blanks \subseteq Stops
    BY DEF WSP, Stops
  <2> QED BY <2>1, PeekFacts
<1>r. PICK r : r = Rule(p)
  OBVIOUS
<1>R. PICK R : R = RulesAt(Given, p)
  OBVIOUS
<1>n. PICK nm : nm = Rulename(p)
  OBVIOUS
<1>x. PICK x : x = Expansions(Given)
  OBVIOUS
<1> DEFINE g(q) == Descent[q].branches
           end(a) == StarWsp(a)
<1>1. /\ nm.error \in Errors \cup {None}
      /\ ~Failed(nm) => <<nm.at, nm.value>> \in Rulenames(Given, p)
      /\ \A n \in Rulenames(Given, p) :
           /\ n = <<n[1], n[2]>> /\ n[1] \in p + 1 .. End /\ n[1] \in 0 .. End /\ n[2] \in Names /\ Peek(p) \in ALPHA
           /\ Peek(n[1]) \notin ALPHA \cup DIGIT \cup {"-"} => nm = Read(n[1], n[2])
  <2>1. \A q \in p + 1 .. End : q \in 0 .. End
    BY <1>0
  <2>2. /\ nm.error \in Errors \cup {None}
        /\ ~Failed(nm) => <<nm.at, nm.value>> \in Rulenames(Given, p)
        /\ \A n \in Rulenames(Given, p) :
             /\ n = <<n[1], n[2]>> /\ n[1] \in p + 1 .. End /\ n[2] \in Names /\ Peek(p) \in ALPHA
             /\ Peek(n[1]) \notin ALPHA \cup DIGIT \cup {"-"} => nm = Read(n[1], n[2])
    BY <1>n, RulenameFacts, NamesRead
  <2> QED BY <2>1, <2>2
<1>2. ASSUME NEW n \in Rulenames(Given, p)
      PROVE  /\ DefinedAs(n[1]).error \in Errors \cup {None}
             /\ ~Failed(DefinedAs(n[1])) => <<DefinedAs(n[1]).at, DefinedAs(n[1]).value>> \in DefinedAss(Given, n[1])
             /\ \A how \in DefinedAss(Given, n[1]) :
                  /\ how = <<how[1], how[2]>> /\ how[1] \in p + 1 .. End /\ how[1] \in 0 .. End /\ how[2] \in {"=", "=/"}
                  /\ Peek(n[1]) \in Blanks \cup {"="}
                  /\ Peek(how[1]) \notin Blanks \cup {"/"} => DefinedAs(n[1]) = Read(how[1], how[2])
  <2>1. n[1] \in p + 1 .. End /\ n[1] \in 0 .. End
    BY <1>1
  <2>2. \A q \in n[1] + 1 .. End : q \in p + 1 .. End /\ q \in 0 .. End
    BY <1>0, <2>1
  <2>3. /\ DefinedAs(n[1]).error \in Errors \cup {None}
        /\ ~Failed(DefinedAs(n[1])) => <<DefinedAs(n[1]).at, DefinedAs(n[1]).value>> \in DefinedAss(Given, n[1])
        /\ \A how \in DefinedAss(Given, n[1]) :
              /\ how = <<how[1], how[2]>> /\ how[1] \in n[1] + 1 .. End /\ how[2] \in {"=", "=/"}
              /\ Peek(n[1]) \in Blanks \cup {"="}
              /\ Peek(how[1]) \notin Blanks \cup {"/"} => DefinedAs(n[1]) = Read(how[1], how[2])
    BY <2>1, DefinedAsFacts
  <2> QED BY <2>2, <2>3
<1>3. ASSUME NEW q \in p + 1 .. End
      PROVE  /\ g(q).error \in Errors \cup {None}
             /\ ~Failed(g(q)) => <<g(q).at, g(q).value>> \in x[q].branches
             /\ \A b \in x[q].branches :
                  /\ b = <<b[1], b[2]>> /\ b[1] \in p + 1 .. End /\ b[1] \in 0 .. End /\ b[2] \in NonEmpty(Trees)
                  /\ BranchesEnd(b[1]) => g(q) = Read(b[1], b[2])
                  /\ StartsRepetition(Peek(q))
  <2>1. q \in 0 .. End /\ \A s \in q + 1 .. End : s \in p + 1 .. End /\ s \in 0 .. End
    BY <1>0
  <2>2. Agrees(Descent, x, q)
    BY <1>x, <2>1, DescentFinds
  <2> QED BY <2>1, <2>2 DEF Agrees, Finds
<1>4. \A z : z \in R <=> \E n \in Rulenames(Given, p) : \E how \in DefinedAss(Given, n[1]) :
                           \E b \in x[how[1]].branches : RuleReading(z, n, how, b)
  BY <1>R, <1>x, RulesAre
<1>5. /\ Failed(nm) => r = nm
      /\ ~Failed(nm) /\ Failed(DefinedAs(nm.at)) => r = DefinedAs(nm.at)
      /\ ~Failed(nm) /\ ~Failed(DefinedAs(nm.at)) =>
           r = IF Failed(RuleElements(DefinedAs(nm.at).at)) THEN RuleElements(DefinedAs(nm.at).at)
               ELSE IF Failed(CNl(RuleElements(DefinedAs(nm.at).at).at)) THEN CNl(RuleElements(DefinedAs(nm.at).at).at)
               ELSE Read(CNl(RuleElements(DefinedAs(nm.at).at).at).at,
                         [name |-> nm.value, defined_as |-> DefinedAs(nm.at).value,
                          body |-> Canonicalize(RuleElements(DefinedAs(nm.at).at).value)])
  BY <1>r, <1>n DEF Rule, AndThen
<1>6. ASSUME NEW q
      PROVE  RuleElements(q) = IF Failed(g(q)) THEN g(q) ELSE Read(StarWsp(g(q).at), UnwrapSingle(g(q).value, "alt"))
  <2>1. Alternation(q, Descent) = IF Failed(g(q)) THEN g(q) ELSE Read(g(q).at, UnwrapSingle(g(q).value, "alt"))
    BY DEF Alternation, AndThen
  <2>2. RuleElements(q) = IF Failed(Alternation(q, Descent)) THEN Alternation(q, Descent)
                          ELSE Read(StarWsp(Alternation(q, Descent).at), Alternation(q, Descent).value)
    BY DEF RuleElements, AndThen
  <2>v. PICK v : v = UnwrapSingle(g(q).value, "alt")
    OBVIOUS
  <2>3. ~Failed(g(q)) => /\ ~Failed(Alternation(q, Descent)) /\ Alternation(q, Descent).at = g(q).at
                         /\ Alternation(q, Descent).value = v
    BY <2>1, <2>v, ReadIs
  <2> HIDE DEF g
  <2> QED BY <2>1, <2>2, <2>3, <2>v
<1> HIDE DEF g
(* What the parser comes to where it has read a name and what defines it.  *)
<1>7. ASSUME NEW n \in Rulenames(Given, p), nm = Read(n[1], n[2]),
             NEW how \in DefinedAss(Given, n[1]), DefinedAs(n[1]) = Read(how[1], how[2])
      PROVE  /\ Failed(g(how[1])) => r = g(how[1])
             /\ ~Failed(g(how[1])) =>
                  r = IF Failed(CNl(StarWsp(g(how[1]).at))) THEN CNl(StarWsp(g(how[1]).at))
                      ELSE Read(CNl(StarWsp(g(how[1]).at)).at,
                                Meaning([name |-> n[2], defined_as |-> how[2],
                                         body |-> UnwrapSingle(g(how[1]).value, "alt")]))
  <2>1. ~Failed(nm) /\ nm.at = n[1] /\ nm.value = n[2]
    BY <1>7, ReadIs
  <2>2. ~Failed(DefinedAs(n[1])) /\ DefinedAs(n[1]).at = how[1] /\ DefinedAs(n[1]).value = how[2]
    BY <1>7, ReadIs
  <2>e. PICK e : e = RuleElements(how[1])
    OBVIOUS
  <2>3. r = IF Failed(e) THEN e
            ELSE IF Failed(CNl(e.at)) THEN CNl(e.at)
            ELSE Read(CNl(e.at).at, [name |-> n[2], defined_as |-> how[2], body |-> Canonicalize(e.value)])
    BY <1>5, <2>1, <2>2, <2>e
  <2>v. PICK v : v = UnwrapSingle(g(how[1]).value, "alt")
    OBVIOUS
  <2>4. e = IF Failed(g(how[1])) THEN g(how[1]) ELSE Read(StarWsp(g(how[1]).at), v)
    BY <1>6, <2>e, <2>v
  <2>5. CASE Failed(g(how[1]))
    BY <2>3, <2>4, <2>5
  <2>6. CASE ~Failed(g(how[1]))
    <3>1. e = Read(StarWsp(g(how[1]).at), v)
      BY <2>4, <2>6
    <3>2. ~Failed(e) /\ e.at = StarWsp(g(how[1]).at) /\ e.value = v
      BY <3>1, ReadIs
    <3>3. Meaning([name |-> n[2], defined_as |-> how[2], body |-> v])
            = [name |-> n[2], defined_as |-> how[2], body |-> Canonicalize(v)]
      BY MeaningIs
    <3> QED BY <2>3, <2>6, <2>v, <3>2, <3>3
  <2> QED BY <2>5, <2>6
<1>8. ASSUME NEW z \in R
      PROVE  /\ z = <<z[1], z[2]>> /\ z[1] \in p + 1 .. End /\ z[2] \in Definitions
             /\ Peek(p) \in ALPHA
             /\ NothingMore(z[1]) => r = Read(z[1], Meaning(z[2]))
  <2>n. PICK n \in Rulenames(Given, p) : \E how \in DefinedAss(Given, n[1]) :
                           \E b \in x[how[1]].branches : RuleReading(z, n, how, b)
    BY <1>4
  <2>h. PICK how \in DefinedAss(Given, n[1]) : \E b \in x[how[1]].branches : RuleReading(z, n, how, b)
    BY <2>n
  <2>b. PICK b \in x[how[1]].branches : RuleReading(z, n, how, b)
    BY <2>h
  <2>s. PICK s \in Runs(Given, b[1], WSP) : \E q \in CNlEnds(Given, s) :
    z = <<q, [name |-> n[2], defined_as |-> how[2], body |-> UnwrapSingle(b[2], "alt")]>>
    BY <2>b DEF RuleReading
  <2>q. PICK q \in CNlEnds(Given, s) :
    z = <<q, [name |-> n[2], defined_as |-> how[2], body |-> UnwrapSingle(b[2], "alt")]>>
    BY <2>s
  <2>v. PICK v : v = UnwrapSingle(b[2], "alt")
    OBVIOUS
  <2>d. PICK d : d = [name |-> n[2], defined_as |-> how[2], body |-> v]
    OBVIOUS
  <2>1. z = <<q, d>> /\ z[1] = q /\ z[2] = d
    BY <2>q, <2>v, <2>d
  <2>2. /\ n[1] \in p + 1 .. End /\ n[2] \in Names /\ Peek(p) \in ALPHA
        /\ Peek(n[1]) \notin ALPHA \cup DIGIT \cup {"-"} => nm = Read(n[1], n[2])
    BY <1>1
  <2>3. /\ how[1] \in p + 1 .. End /\ how[2] \in {"=", "=/"} /\ Peek(n[1]) \in Blanks \cup {"="}
        /\ Peek(how[1]) \notin Blanks \cup {"/"} => DefinedAs(n[1]) = Read(how[1], how[2])
    BY <1>2
  <2>4. /\ b[1] \in p + 1 .. End /\ b[1] \in 0 .. End /\ b[2] \in NonEmpty(Trees)
        /\ BranchesEnd(b[1]) => g(how[1]) = Read(b[1], b[2])
        /\ StartsRepetition(Peek(how[1]))
    BY <1>3, <2>3
  <2>5. v \in Trees
    BY <2>4, <2>v, TreesAre
  <2>6. d \in Definitions
    BY <2>2, <2>3, <2>5, <2>d DEF Definitions
  <2>7. q \in p + 1 .. End
    <3>1. s \in b[1] .. End
      BY <2>4, SpacesFacts
    <3>2. s \in 0 .. End /\ s \in p + 1 .. End
      BY <1>0, <2>4, <3>1
    <3>3. q \in s + 1 .. End
      BY <3>2, CNlFacts
    <3> QED BY <1>0, <3>2, <3>3
  <2>8. ASSUME NothingMore(q) PROVE r = Read(q, Meaning(d))
    <3>1. /\ Peek(StarCWsp(b[1])) \in Breaks /\ Peek(b[1]) \in Blanks
          /\ s = StarWsp(b[1]) /\ ~Failed(CNl(s)) /\ CNl(s).at = q
      BY <2>4, <2>8, LineOver
    <3>2. BranchesEnd(b[1])
      <4>1. Breaks \subseteq Blanks /\ "/" \notin Breaks
        BY DEF Blanks, Breaks
      <4> QED BY <1>0, <3>1, <4>1, StartFacts DEF BranchesEnd, ItemsEnd
    <3>3. g(how[1]) = Read(b[1], b[2])
      BY <2>4, <3>2
    <3>4. ~Failed(g(how[1])) /\ g(how[1]).at = b[1] /\ g(how[1]).value = b[2]
      BY <3>3, ReadIs
    <3>5. Peek(how[1]) \notin Blanks \cup {"/"}
      <4>1. "/" \in Stops
        BY DEF Stops
      <4> QED BY <2>4, <4>1, StartFacts
    <3>6. Peek(n[1]) \notin ALPHA \cup DIGIT \cup {"-"}
      <4>1. "=" \notin ALPHA \cup DIGIT \cup {"-"}
        BY Letters DEF DIGIT
      <4> QED BY <1>0, <2>3, <4>1, StopFacts
    <3>7. nm = Read(n[1], n[2]) /\ DefinedAs(n[1]) = Read(how[1], how[2])
      BY <2>2, <2>3, <3>5, <3>6
    <3>8. r = IF Failed(CNl(s)) THEN CNl(s)
              ELSE Read(CNl(s).at, Meaning([name |-> n[2], defined_as |-> how[2], body |-> v]))
      BY <1>7, <2>v, <3>1, <3>4, <3>7
    <3> QED BY <2>d, <3>1, <3>8
  <2> QED BY <2>1, <2>2, <2>6, <2>7, <2>8
<1>9. /\ r.error \in Errors \cup {None}
      /\ ~Failed(r) => \E d : <<r.at, d>> \in R /\ r.value = Meaning(d)
  <2>1. CASE Failed(nm)
    BY <1>1, <1>5, <2>1
  <2>2. CASE ~Failed(nm)
    <3>n. PICK n : n = <<nm.at, nm.value>>
      OBVIOUS
    <3>1. n \in Rulenames(Given, p) /\ n[1] = nm.at /\ n[2] = nm.value
      BY <1>1, <2>2, <3>n
    <3>h. PICK h : h = DefinedAs(n[1])
      OBVIOUS
    <3>2. h.error \in Errors \cup {None} /\ (~Failed(h) => <<h.at, h.value>> \in DefinedAss(Given, n[1]))
      BY <1>2, <3>1, <3>h
    <3>3. CASE Failed(h)
      BY <1>5, <2>2, <3>1, <3>2, <3>3, <3>h
    <3>4. CASE ~Failed(h)
      <4>w. PICK how : how = <<h.at, h.value>>
        OBVIOUS
      <4>1. how \in DefinedAss(Given, n[1]) /\ how[1] = h.at /\ how[2] = h.value
        BY <3>2, <3>4, <4>w
      <4>2. how[1] \in p + 1 .. End
        BY <1>2, <3>1, <4>1
      <4>e. PICK e : e = RuleElements(how[1])
        OBVIOUS
      <4>3. r = IF Failed(e) THEN e
                ELSE IF Failed(CNl(e.at)) THEN CNl(e.at)
                ELSE Read(CNl(e.at).at, [name |-> n[2], defined_as |-> how[2], body |-> Canonicalize(e.value)])
        BY <1>5, <2>2, <3>1, <3>4, <3>h, <4>1, <4>e
      <4>t. PICK t : t = g(how[1])
        OBVIOUS
      <4>v. PICK v : v = UnwrapSingle(t.value, "alt")
        OBVIOUS
      <4>4. e = IF Failed(t) THEN t ELSE Read(StarWsp(t.at), v)
        BY <1>6, <4>e, <4>t, <4>v
      <4>5. t.error \in Errors \cup {None} /\ (~Failed(t) => <<t.at, t.value>> \in x[how[1]].branches)
        BY <1>3, <4>2, <4>t
      <4>6. CASE Failed(t)
        BY <4>3, <4>4, <4>5, <4>6
      <4>7. CASE ~Failed(t)
        <5>b. PICK b : b = <<t.at, t.value>>
          OBVIOUS
        <5>1. b \in x[how[1]].branches /\ b[1] = t.at /\ b[2] = t.value
          BY <4>5, <4>7, <5>b
        <5>2. b[1] \in 0 .. End
          BY <1>3, <4>2, <5>1
        <5>s. PICK s : s = StarWsp(b[1])
          OBVIOUS
        <5>3. s \in Runs(Given, b[1], WSP) /\ s \in 0 .. End
          <6>1. Skip(b[1], WSP) \in b[1] .. End /\ Runs(Given, b[1], WSP) = b[1] .. Skip(b[1], WSP)
            BY <1>0, <5>2, SkipFacts
          <6>2. s = Skip(b[1], WSP)
            BY <5>s DEF StarWsp
          <6> QED BY <1>0, <5>2, <6>1, <6>2
        <5>4. e = Read(s, v)
          BY <4>4, <4>7, <5>1, <5>s
        <5>5. ~Failed(e) /\ e.at = s /\ e.value = v
          BY <5>4, ReadIs
        <5>6. CASE Failed(CNl(s))
          BY <4>3, <5>3, <5>5, <5>6, CNlFacts
        <5>7. CASE ~Failed(CNl(s))
          <6>q. PICK q : q = CNl(s).at
            OBVIOUS
          <6>1. q \in CNlEnds(Given, s)
            BY <5>3, <5>7, <6>q, CNlFacts
          <6>d. PICK d : d = [name |-> n[2], defined_as |-> how[2], body |-> v]
            OBVIOUS
          <6>2. Meaning(d) = [name |-> n[2], defined_as |-> how[2], body |-> Canonicalize(v)]
            BY <6>d, MeaningIs
          <6>3. r = Read(q, Meaning(d))
            BY <4>3, <5>5, <5>7, <6>q, <6>2
          <6>4. r.error = None /\ r.at = q /\ r.value = Meaning(d)
            BY <6>3, ReadIs
          <6>5. v = UnwrapSingle(b[2], "alt")
            BY <4>v, <5>1
          <6>6. <<q, d>> = <<q, [name |-> n[2], defined_as |-> how[2], body |-> UnwrapSingle(b[2], "alt")]>>
            BY <6>d, <6>5
          <6>7. RuleReading(<<q, d>>, n, how, b)
            BY <5>3, <6>1, <6>6 DEF RuleReading
          <6>8. <<q, d>> \in R
            BY <1>4, <3>1, <4>1, <5>1, <6>7
          <6> QED BY <6>4, <6>8
        <5> QED BY <5>6, <5>7
      <4> QED BY <4>6, <4>7
    <3> QED BY <3>3, <3>4
  <2> QED BY <2>1, <2>2
<1> QED BY <1>8, <1>9, <1>r, <1>R

(* A blank line is read to after where it began.                           *)
LEMMA BlankEnds ==
  ASSUME Typed, NEW p \in 0 .. End, NEW w \in Runs(Given, p, WSP), NEW q \in CNlEnds(Given, w)
  PROVE  q \in p + 1 .. End /\ q \in 0 .. End /\ Peek(p) \in Blanks /\ Peek(w) \in Breaks /\ w \in 0 .. End
<1>0. p \in Nat /\ End \in Nat
  BY PeekFacts
<1>1. w \in p .. End /\ (w # p => Peek(p) \in WSP)
  BY SpacesFacts
<1>2. w \in 0 .. End
  BY <1>0, <1>1
<1>3. q \in w + 1 .. End /\ Peek(w) \in Breaks
  BY <1>2, CNlFacts
<1>4. q \in p + 1 .. End /\ q \in 0 .. End
  BY <1>0, <1>1, <1>3
<1> QED BY <1>1, <1>2, <1>3, <1>4 DEF Blanks

(* The items from a position to the end, from those further on.            *)
RulesFrom(L, p) == UNION {{<<r[2]>> \o rest : rest \in L[r[1]]} : r \in RulesAt(Given, p)}
(* The items after a blank line at `p`.                                    *)
BlanksFrom(L, p) == UNION {L[s] : s \in UNION {CNlEnds(Given, w) : w \in Runs(Given, p, WSP)}}
(* All items from `p` on.                                                  *)
ItemsFrom(L, p) == IF p = End THEN {<< >>} ELSE RulesFrom(L, p) \cup BlanksFrom(L, p)

(* There is one such function, and it is what `ItemsTo` takes.             *)
LEMMA ItemsToIs ==
  ASSUME Typed
  PROVE  \E L : /\ \A p : ItemsTo(Given, p) = L[p]
                /\ \A p \in 0 .. End : L[p] = ItemsFrom(L, p)
<1> DEFINE R(f, q) == UNION {{<<r[2]>> \o rest : rest \in f[r[1]]} : r \in RulesAt(Given, q)}
           B(f, q) == UNION {f[s] : s \in UNION {CNlEnds(Given, w) : w \in Runs(Given, q, WSP)}}
           E(f, q) == IF q = Len(Given.text) THEN {<< >>} ELSE R(f, q) \cup B(f, q)
           P(f) == f = [q \in 0 .. Len(Given.text) |-> E(f, q)]
           F == CHOOSE f : P(f)
           A == {m \in 0 .. End + 1 : \E g : \A q \in m .. End : g[q] = E(g, q)}
<1>0. End \in Nat /\ End = Len(Given.text)
  BY PeekFacts DEF End
<1>e. ASSUME NEW f, NEW q
      PROVE  E(f, q) = IF q = Len(Given.text) THEN {<< >>} ELSE RulesFrom(f, q) \cup BlanksFrom(f, q)
  <2>1. R(f, q) = RulesFrom(f, q)
    BY Zenon DEF RulesFrom
  <2>2. B(f, q) = BlanksFrom(f, q)
    BY Zenon DEF BlanksFrom
  <2> HIDE DEF R, B
  <2> QED BY <2>1, <2>2
<1>a. ASSUME NEW f, NEW g, NEW q \in 0 .. End, \A s \in q + 1 .. End : f[s] = g[s]
      PROVE  E(f, q) = E(g, q)
  <2>1. ASSUME NEW r \in RulesAt(Given, q)
        PROVE  {<<r[2]>> \o rest : rest \in f[r[1]]} = {<<r[2]>> \o rest : rest \in g[r[1]]}
    <3>1. r[1] \in q + 1 .. End
      BY RuleFacts
    <3> QED BY <1>a, <3>1
  <2>2. ASSUME NEW s \in UNION {CNlEnds(Given, w) : w \in Runs(Given, q, WSP)} PROVE f[s] = g[s]
    <3>1. PICK w \in Runs(Given, q, WSP) : s \in CNlEnds(Given, w)
      OBVIOUS
    <3>2. s \in q + 1 .. End
      BY <3>1, BlankEnds
    <3> QED BY <1>a, <3>2
  <2>3. RulesFrom(f, q) = RulesFrom(g, q)
    <3> DEFINE part(h, r) == {<<r[2]>> \o rest : rest \in h[r[1]]}
    <3>1. \A h : RulesFrom(h, q) = UNION {part(h, r) : r \in RulesAt(Given, q)}
      BY DEF RulesFrom
    <3>2. \A r \in RulesAt(Given, q) : part(f, r) = part(g, r)
      BY <2>1
    <3> HIDE DEF part
    <3>3. {part(f, r) : r \in RulesAt(Given, q)} = {part(g, r) : r \in RulesAt(Given, q)}
      BY <3>2
    <3>4. RulesFrom(f, q) = UNION {part(f, r) : r \in RulesAt(Given, q)}
          /\ RulesFrom(g, q) = UNION {part(g, r) : r \in RulesAt(Given, q)}
      BY <3>1, Zenon
    <3> QED BY <3>3, <3>4
  <2>4. BlanksFrom(f, q) = BlanksFrom(g, q)
    <3> DEFINE K == UNION {CNlEnds(Given, w) : w \in Runs(Given, q, WSP)}
    <3>1. \A s \in K : f[s] = g[s]
      BY <2>2
    <3>2. BlanksFrom(f, q) = UNION {f[s] : s \in K} /\ BlanksFrom(g, q) = UNION {g[s] : s \in K}
      BY DEF BlanksFrom
    <3> HIDE DEF K
    <3> QED BY <3>1, <3>2
  <2> HIDE DEF E
  <2> QED BY <1>e, <2>3, <2>4
<1>b. \A p : ItemsTo(Given, p) = F[p]
  BY DEF ItemsTo
<1> HIDE DEF E
<1>1. End + 1 \in A
  <2>1. \A q : q \notin End + 1 .. End
    BY <1>0
  <2>2. End + 1 \in 0 .. End + 1
    BY <1>0
  <2> QED BY <2>1, <2>2
<1>2. ASSUME NEW m \in 0 .. End + 1, m + 1 \in A, m < End + 1 PROVE m \in A
  <2>1. PICK g : \A q \in m + 1 .. End : g[q] = E(g, q)
    BY <1>2
  <2> DEFINE f == [q \in m .. End |-> IF q = m THEN E(g, m) ELSE g[q]]
  <2>2. ASSUME NEW q \in m .. End PROVE f[q] = E(f, q)
    <3>1. q \in 0 .. End /\ \A s \in q + 1 .. End : s \in m .. End /\ s # m
      BY <1>0
    <3>2. \A s \in q + 1 .. End : f[s] = g[s]
      BY <3>1
    <3>3. q # m => q \in m + 1 .. End
      BY <1>0, <3>1
    <3>4. f[q] = E(g, q)
      BY <2>1, <3>3
    <3> HIDE DEF f
    <3>5. E(f, q) = E(g, q)
      BY <1>a, <3>1, <3>2
    <3> QED BY <3>4, <3>5
  <2> HIDE DEF f
  <2> QED BY <1>0, <2>2
<1>3. \A m \in 0 .. End + 1 : m \in A
  <2> HIDE DEF A
  <2>1. End + 1 \in Nat
    BY <1>0
  <2> QED BY <1>1, <1>2, <2>1, CountBack
<1>4. PICK g : \A q \in 0 .. End : g[q] = E(g, q)
  <2>1. 0 \in 0 .. End + 1
    BY <1>0
  <2>2. 0 \in A
    BY <1>3, <2>1
  <2> QED BY <2>2
<1> DEFINE r == [q \in 0 .. End |-> g[q]]
<1>5. ASSUME NEW q \in 0 .. End PROVE r[q] = E(r, q)
  <2>1. \A s \in q + 1 .. End : s \in 0 .. End
    BY <1>0
  <2>2. \A s \in q + 1 .. End : r[s] = g[s]
    BY <2>1
  <2>3. r[q] = E(g, q)
    BY <1>4
  <2> HIDE DEF r
  <2>4. E(r, q) = E(g, q)
    BY <1>a, <2>2
  <2> QED BY <2>3, <2>4
<1>6. P(r)
  <2>1. r = [q \in 0 .. End |-> r[q]]
    OBVIOUS
  <2> HIDE DEF r
  <2>2. r = [q \in 0 .. End |-> E(r, q)]
    BY <1>5, <2>1
  <2> QED BY <1>0, <2>2
<1>7. P(F)
  <2> HIDE DEF P, r
  <2> QED BY <1>6
<1> HIDE DEF F
<1>8. F = [q \in 0 .. End |-> E(F, q)]
  BY <1>0, <1>7
<1>9. ASSUME NEW p \in 0 .. End PROVE F[p] = E(F, p)
  BY <1>8
<1>10. Len(Given.text) = End
  BY <1>0
<1>11. \A p \in 0 .. End : F[p] = ItemsFrom(F, p)
  BY <1>9, <1>10, <1>e DEF ItemsFrom
<1> QED BY <1>b, <1>11

(* A reading of the items from `p`: a rule and what follows, or a blank    *)
(* line and what follows.                                                  *)
LEMMA ItemsAre ==
  ASSUME Typed, NEW p \in 0 .. End
  PROVE  /\ p = End => ItemsTo(Given, p) = {<< >>}
         /\ p # End => \A z : z \in ItemsTo(Given, p) <=>
              \/ \E r \in RulesAt(Given, p) : \E rest \in ItemsTo(Given, r[1]) : z = <<r[2]>> \o rest
              \/ \E w \in Runs(Given, p, WSP) : \E q \in CNlEnds(Given, w) : z \in ItemsTo(Given, q)
<1>L. PICK L : /\ \A q : ItemsTo(Given, q) = L[q]
               /\ \A q \in 0 .. End : L[q] = ItemsFrom(L, q)
  BY ItemsToIs
<1>1. L[p] = IF p = End THEN {<< >>} ELSE RulesFrom(L, p) \cup BlanksFrom(L, p)
  BY <1>L DEF ItemsFrom
<1>2. \A z : z \in RulesFrom(L, p) <=>
         \E r \in RulesAt(Given, p) : \E rest \in ItemsTo(Given, r[1]) : z = <<r[2]>> \o rest
  <2> DEFINE part(r) == {<<r[2]>> \o rest : rest \in L[r[1]]}
  <2>1. \A z : z \in RulesFrom(L, p) <=> \E r \in RulesAt(Given, p) : z \in part(r)
    BY DEF RulesFrom
  <2>2. ASSUME NEW r, NEW z PROVE z \in part(r) <=> \E rest \in ItemsTo(Given, r[1]) : z = <<r[2]>> \o rest
    <3>1. ItemsTo(Given, r[1]) = L[r[1]]
      BY <1>L
    <3> QED BY <3>1
  <2> HIDE DEF part
  <2> DEFINE Q(z, r) == \E rest \in ItemsTo(Given, r[1]) : z = <<r[2]>> \o rest
  <2>3. ASSUME NEW r, NEW z PROVE z \in part(r) <=> Q(z, r)
    BY <2>2
  <2> HIDE DEF Q
  <2>4. \A z : z \in RulesFrom(L, p) <=> \E r \in RulesAt(Given, p) : Q(z, r)
    BY <2>1, <2>3
  <2> QED BY <2>4, Zenon DEF Q
<1>3. \A z : z \in BlanksFrom(L, p) <=>
         \E w \in Runs(Given, p, WSP) : \E q \in CNlEnds(Given, w) : z \in ItemsTo(Given, q)
  <2>1. \A z : z \in BlanksFrom(L, p) <=> \E w \in Runs(Given, p, WSP) : \E q \in CNlEnds(Given, w) : z \in L[q]
    BY DEF BlanksFrom
  <2>2. \A q : ItemsTo(Given, q) = L[q]
    BY <1>L
  <2> QED BY <2>1, <2>2
<1>8. ItemsTo(Given, p) = L[p]
  BY <1>L
<1> QED BY <1>1, <1>2, <1>3, <1>8

(* If the text can be read on from `q`, what whitespace there is at `q`    *)
(* goes to the end of a line: no rule begins with whitespace.              *)
LEMMA DeadLines ==
  ASSUME Typed
  PROVE  \A q \in 0 .. End : ItemsTo(Given, q) # {} => NothingMore(q)
<1>0. End \in Nat /\ "END" \notin WSP /\ WSP \cap ALPHA = {}
  <2>1. "END" \notin WSP /\ WSP \cap ALPHA = {}
    BY Letters DEF WSP
  <2> QED BY <2>1, PeekFacts
<1>e. Peek(End) \notin WSP
  BY <1>0, PeekFacts
<1> DEFINE S == {q \in 0 .. End : ItemsTo(Given, q) # {} => NothingMore(q)}
<1>1. ASSUME NEW q \in 0 .. End, \A i \in q + 1 .. End : i \in S PROVE q \in S
  <2>1. ASSUME ItemsTo(Given, q) # {}, Peek(q) \in WSP PROVE Peek(StarCWsp(q)) \in Breaks
    <3>1. q # End
      BY <1>e, <2>1
    <3>2. RulesAt(Given, q) = {}
      <4>1. Peek(q) \notin ALPHA
        BY <1>0, <2>1
      <4> QED BY <4>1, RuleFacts
    <3>z. PICK z : z \in ItemsTo(Given, q)
      BY <2>1
    <3>3. \E w \in Runs(Given, q, WSP) : \E s \in CNlEnds(Given, w) : z \in ItemsTo(Given, s)
      <4>1. \/ \E r \in RulesAt(Given, q) : \E rest \in ItemsTo(Given, r[1]) : z = <<r[2]>> \o rest
            \/ \E w \in Runs(Given, q, WSP) : \E s \in CNlEnds(Given, w) : z \in ItemsTo(Given, s)
        BY <3>1, <3>z, ItemsAre
      <4> QED BY <3>2, <4>1
    <3>w. PICK w \in Runs(Given, q, WSP) : \E s \in CNlEnds(Given, w) : z \in ItemsTo(Given, s)
      BY <3>3
    <3>s. PICK s \in CNlEnds(Given, w) : z \in ItemsTo(Given, s)
      BY <3>w
    <3>4. s \in q + 1 .. End
      BY BlankEnds
    <3>5. NothingMore(s)
      BY <1>1, <3>4, <3>s
    <3> QED BY <3>5, LineOver
  <2> QED BY <2>1 DEF NothingMore
<1>2. \A q \in 0 .. End : q \in S
  <2> HIDE DEF S
  <2> QED BY <1>0, <1>1, CountDown
<1> QED BY <1>2

(* What the items are read as is definitions.                              *)
LEMMA ItemsTyped ==
  ASSUME Typed
  PROVE  \A p \in 0 .. End : ItemsTo(Given, p) \subseteq Seq(Definitions)
<1> DEFINE S == {p \in 0 .. End : ItemsTo(Given, p) \subseteq Seq(Definitions)}
<1>0. End \in Nat
  BY PeekFacts
<1>1. ASSUME NEW p \in 0 .. End, \A i \in p + 1 .. End : i \in S PROVE p \in S
  <2>1. CASE p = End
    <3>1. ItemsTo(Given, p) = {<< >>}
      BY <2>1, ItemsAre
    <3>2. << >> \in Seq(Definitions)
      OBVIOUS
    <3> QED BY <3>1, <3>2
  <2>2. CASE p # End
    <3>1. ASSUME NEW z \in ItemsTo(Given, p) PROVE z \in Seq(Definitions)
      <4>1. CASE \E r \in RulesAt(Given, p) : \E rest \in ItemsTo(Given, r[1]) : z = <<r[2]>> \o rest
        <5>r. PICK r \in RulesAt(Given, p) : \E rest \in ItemsTo(Given, r[1]) : z = <<r[2]>> \o rest
          BY <4>1
        <5>s. PICK rest \in ItemsTo(Given, r[1]) : z = <<r[2]>> \o rest
          BY <5>r
        <5>1. r[1] \in p + 1 .. End /\ r[2] \in Definitions
          BY RuleFacts
        <5>2. rest \in Seq(Definitions)
          BY <1>1, <5>1
        <5> QED BY <5>1, <5>2, <5>s
      <4>2. CASE \E w \in Runs(Given, p, WSP) : \E q \in CNlEnds(Given, w) : z \in ItemsTo(Given, q)
        <5>w. PICK w \in Runs(Given, p, WSP) : \E q \in CNlEnds(Given, w) : z \in ItemsTo(Given, q)
          BY <4>2
        <5>q. PICK q \in CNlEnds(Given, w) : z \in ItemsTo(Given, q)
          BY <5>w
        <5>1. q \in p + 1 .. End
          BY BlankEnds
        <5> QED BY <1>1, <5>1, <5>q
      <4> QED BY <2>2, <4>1, <4>2, ItemsAre
    <3> QED BY <3>1
  <2> QED BY <2>1, <2>2
<1>2. \A p \in 0 .. End : p \in S
  <2> HIDE DEF S
  <2> QED BY <1>0, <1>1, CountDown
<1> QED BY <1>2

(* Of a reading the parser keeps the meaning, definition by definition.    *)
LEMMA CanonicalizedFacts ==
  /\ Canonicalized(<< >>) = << >>
  /\ \A d \in Definitions : Meaning(d) \in Definitions
  /\ \A z \in Seq(Definitions) :
       /\ Canonicalized(z) \in Seq(Definitions)
       /\ \A d \in Definitions : Canonicalized(<<d>> \o z) = <<Meaning(d)>> \o Canonicalized(z)
<1>0. \A z : Canonicalized(z) = [k \in DOMAIN z |-> Meaning(z[k])]
  BY DEF Canonicalized, Meaning
<1>1. ASSUME NEW d \in Definitions PROVE Meaning(d) \in Definitions
  <2>1. Canonicalize(d.body) \in Trees
    BY CanonicalizeIs DEF Definitions
  <2> QED BY <2>1 DEF Meaning, Definitions
<1>2. Canonicalized(<< >>) = << >>
  BY <1>0
<1>3. ASSUME NEW z \in Seq(Definitions) PROVE Canonicalized(z) \in Seq(Definitions)
  BY <1>0, <1>1
<1>4. ASSUME NEW z \in Seq(Definitions), NEW d \in Definitions
      PROVE  Canonicalized(<<d>> \o z) = <<Meaning(d)>> \o Canonicalized(z)
  <2> DEFINE m(x) == Meaning(x)
  <2>1. Canonicalized(<<d>> \o z) = [k \in DOMAIN (<<d>> \o z) |-> m((<<d>> \o z)[k])]
    BY <1>0
  <2>2. Canonicalized(z) = [k \in DOMAIN z |-> m(z[k])]
    BY <1>0
  <2>3. \A x \in Definitions : m(x) \in Definitions
    BY <1>1
  <2> HIDE DEF m
  <2>4. <<m(d)>> \o [k \in DOMAIN z |-> m(z[k])] = [k \in DOMAIN (<<d>> \o z) |-> m((<<d>> \o z)[k])]
    BY <2>3
  <2>5. m(d) = Meaning(d)
    BY DEF m
  <2> QED BY <2>1, <2>2, <2>4, <2>5
<1> QED BY <1>1, <1>2, <1>3, <1>4

(* At a letter: the parser's rule is the only one there may be, if the text*)
(* can be read on from after it.                                           *)
LEMMA AtLetter ==
  ASSUME Typed, NEW p \in 0 .. End, Peek(p) \in ALPHA
  PROVE  /\ Failed(Rule(p)) => Rule(p).error \in Errors /\ ItemsTo(Given, p) = {}
         /\ ~Failed(Rule(p)) =>
              /\ Rule(p).at \in p + 1 .. End /\ Rule(p).value \in Definitions
              /\ {Canonicalized(z) : z \in ItemsTo(Given, p)}
                   = {<<Rule(p).value>> \o Canonicalized(z) : z \in ItemsTo(Given, Rule(p).at)}
<1>0. End \in Nat /\ p # End /\ ALPHA \cap Blanks = {}
  <2>1. ALPHA \cap Blanks = {} /\ "END" \notin ALPHA
    BY Letters DEF Blanks, WSP, Breaks
  <2> QED BY <2>1, PeekFacts
<1>r. PICK r : r = Rule(p)
  OBVIOUS
<1>1. ASSUME NEW z \in ItemsTo(Given, p)
      PROVE  ~Failed(r) /\ \E rest \in ItemsTo(Given, r.at) : Canonicalized(z) = <<r.value>> \o Canonicalized(rest)
  <2>1. ~ \E w \in Runs(Given, p, WSP) : \E q \in CNlEnds(Given, w) : z \in ItemsTo(Given, q)
    BY <1>0, BlankEnds
  <2>2. \E x \in RulesAt(Given, p) : \E rest \in ItemsTo(Given, x[1]) : z = <<x[2]>> \o rest
    BY <1>0, <2>1, ItemsAre
  <2>x. PICK x \in RulesAt(Given, p) : \E rest \in ItemsTo(Given, x[1]) : z = <<x[2]>> \o rest
    BY <2>2
  <2>s. PICK rest \in ItemsTo(Given, x[1]) : z = <<x[2]>> \o rest
    BY <2>x
  <2>3. x[1] \in p + 1 .. End /\ x[2] \in Definitions /\ (NothingMore(x[1]) => r = Read(x[1], Meaning(x[2])))
    BY <1>r, RuleFacts
  <2>4. x[1] \in 0 .. End
    BY <1>0, <2>3
  <2>5. r = Read(x[1], Meaning(x[2]))
    BY <2>3, <2>4, <2>s, DeadLines
  <2>6. ~Failed(r) /\ r.at = x[1] /\ r.value = Meaning(x[2])
    BY <2>5, ReadFacts
  <2>7. rest \in Seq(Definitions)
    BY <2>4, ItemsTyped
  <2>8. Canonicalized(z) = <<Meaning(x[2])>> \o Canonicalized(rest)
    BY <2>3, <2>7, <2>s, CanonicalizedFacts
  <2> QED BY <2>6, <2>8
<1>2. Failed(r) => r.error \in Errors
  <2>1. r.error \in Errors \cup {None}
    BY <1>r, RuleFacts
  <2> QED BY <2>1 DEF Failed
<1>3. ASSUME ~Failed(r)
      PROVE  /\ r.at \in p + 1 .. End /\ r.value \in Definitions
             /\ \A rest \in ItemsTo(Given, r.at) :
                  \E z \in ItemsTo(Given, p) : Canonicalized(z) = <<r.value>> \o Canonicalized(rest)
  <2>d. PICK d : <<r.at, d>> \in RulesAt(Given, p) /\ r.value = Meaning(d)
    BY <1>3, <1>r, RuleFacts
  <2> DEFINE x == <<r.at, d>>
  <2>0. x \in RulesAt(Given, p) /\ x[1] = r.at /\ x[2] = d
    BY <2>d
  <2>1. r.at \in p + 1 .. End /\ d \in Definitions
    <3> HIDE DEF x
    <3> QED BY <2>0, RuleFacts
  <2>2. r.at \in 0 .. End
    BY <1>0, <2>1
  <2>3. ASSUME NEW rest \in ItemsTo(Given, r.at)
        PROVE  \E z \in ItemsTo(Given, p) : Canonicalized(z) = <<r.value>> \o Canonicalized(rest)
    <3> HIDE DEF x
    <3>1. \E y \in RulesAt(Given, p) : \E s \in ItemsTo(Given, y[1]) : <<d>> \o rest = <<y[2]>> \o s
      BY <2>0
    <3>2. <<d>> \o rest \in ItemsTo(Given, p)
      BY <1>0, <3>1, ItemsAre
    <3>3. rest \in Seq(Definitions)
      BY <2>2, ItemsTyped
    <3>4. Canonicalized(<<d>> \o rest) = <<Meaning(d)>> \o Canonicalized(rest)
      BY <2>1, <3>3, CanonicalizedFacts
    <3> QED BY <2>d, <3>2, <3>4
  <2> QED BY <2>1, <2>3, <2>d, CanonicalizedFacts
<1>4. Failed(r) => ItemsTo(Given, p) = {}
  BY <1>1
<1>5. ~Failed(r) => {Canonicalized(z) : z \in ItemsTo(Given, p)}
                      = {<<r.value>> \o Canonicalized(z) : z \in ItemsTo(Given, r.at)}
  <2> DEFINE c(z) == Canonicalized(z)
             g(z) == <<r.value>> \o Canonicalized(z)
             X == ItemsTo(Given, p)
             Y == ItemsTo(Given, r.at)
  <2>1. \A z \in X : \E y \in Y : c(z) = g(y)
    BY <1>1
  <2>2. ~Failed(r) => \A y \in Y : \E z \in X : c(z) = g(y)
    BY <1>3
  <2> HIDE DEF c, g, X, Y
  <2>3. ~Failed(r) => {c(z) : z \in X} = {g(y) : y \in Y}
    BY <2>1, <2>2
  <2> QED BY <2>3 DEF c, g, X, Y
<1> QED BY <1>2, <1>3, <1>4, <1>5, <1>r

(* At whitespace, a comment or a line ending: the blank line is the only   *)
(* item there may be.                                                      *)
LEMMA AtBlank ==
  ASSUME Typed, NEW p \in 0 .. End, Peek(p) \in Blanks
  PROVE  /\ Failed(CNl(StarWsp(p))) => CNl(StarWsp(p)).error \in Errors /\ ItemsTo(Given, p) = {}
         /\ ~Failed(CNl(StarWsp(p))) => /\ CNl(StarWsp(p)).at \in p + 1 .. End
                                        /\ ItemsTo(Given, p) = ItemsTo(Given, CNl(StarWsp(p)).at)
<1>0. End \in Nat /\ p # End /\ ALPHA \cap Blanks = {} /\ "END" \notin WSP
  <2>1. ALPHA \cap Blanks = {} /\ "END" \notin Blanks /\ "END" \notin WSP
    BY Letters DEF Blanks, WSP, Breaks
  <2> QED BY <2>1, PeekFacts
<1>m. PICK m : m = StarWsp(p)
  OBVIOUS
<1>r. PICK r : r = CNl(m)
  OBVIOUS
<1>1. m \in Runs(Given, p, WSP) /\ m \in 0 .. End
  <2>1. Skip(p, WSP) \in p .. End /\ Runs(Given, p, WSP) = p .. Skip(p, WSP)
    BY <1>0, SkipFacts
  <2> QED BY <1>0, <1>m, <2>1 DEF StarWsp
<1>2. /\ CNlEnds(Given, m) = IF Failed(r) THEN {} ELSE {r.at}
      /\ Failed(r) => r.error \in Errors
  BY <1>1, <1>r, CNlFacts
<1>3. ASSUME NEW z \in ItemsTo(Given, p) PROVE ~Failed(r) /\ z \in ItemsTo(Given, r.at)
  <2>1. RulesAt(Given, p) = {}
    BY <1>0, RuleFacts
  <2>2. \E w \in Runs(Given, p, WSP) : \E q \in CNlEnds(Given, w) : z \in ItemsTo(Given, q)
    BY <1>0, <2>1, ItemsAre
  <2>w. PICK w \in Runs(Given, p, WSP) : \E q \in CNlEnds(Given, w) : z \in ItemsTo(Given, q)
    BY <2>2
  <2>q. PICK q \in CNlEnds(Given, w) : z \in ItemsTo(Given, q)
    BY <2>w
  <2>3. q \in 0 .. End
    BY BlankEnds
  <2>4. NothingMore(q)
    BY <2>3, <2>q, DeadLines
  <2>5. w = m /\ ~Failed(CNl(w)) /\ CNl(w).at = q
    BY <1>m, <2>4, LineOver
  <2> QED BY <1>r, <2>5, <2>q
<1>4. ASSUME ~Failed(r) PROVE r.at \in p + 1 .. End /\ \A z \in ItemsTo(Given, r.at) : z \in ItemsTo(Given, p)
  <2>1. r.at \in CNlEnds(Given, m)
    BY <1>2, <1>4
  <2>2. r.at \in p + 1 .. End
    BY <1>1, <2>1, BlankEnds
  <2>3. ASSUME NEW z \in ItemsTo(Given, r.at) PROVE z \in ItemsTo(Given, p)
    <3>1. \E w \in Runs(Given, p, WSP) : \E q \in CNlEnds(Given, w) : z \in ItemsTo(Given, q)
      BY <1>1, <2>1
    <3> QED BY <1>0, <3>1, ItemsAre
  <2> QED BY <2>2, <2>3
<1>5. Failed(r) => ItemsTo(Given, p) = {}
  BY <1>3
<1>6. ~Failed(r) => ItemsTo(Given, p) = ItemsTo(Given, r.at)
  BY <1>3, <1>4
<1> QED BY <1>2, <1>4, <1>5, <1>6, <1>m, <1>r

(* At anything else: there is no item.                                     *)
LEMMA AtNothing ==
  ASSUME Typed, NEW p \in 0 .. End, Peek(p) \notin ALPHA \cup Blanks, p # End
  PROVE  ItemsTo(Given, p) = {}
<1>1. RulesAt(Given, p) = {}
  BY RuleFacts
<1>2. ~ \E w \in Runs(Given, p, WSP) : \E q \in CNlEnds(Given, w) : TRUE
  BY BlankEnds
<1> QED BY <1>1, <1>2, ItemsAre

(* What can be printed.                                                    *)
Ascii == CHAR \ {"NONASCII"}
(* What can be given to the parser.                                        *)
Text == Seq(Ascii)

(* What the notation itself is written with.                               *)
LEMMA Signs ==
  /\ {"(", ")", "[", "]", "/", " ", "*", "%", "s", "x", "DQUOTE", "-", ".", "<", ">", "=", "CR", "LF", "0"} \subseteq Ascii
  /\ DOMAIN Worth \subseteq Ascii
  /\ NameChars \subseteq Ascii /\ QUOTABLE \subseteq Ascii /\ PROSE \subseteq Ascii
<1>1. DOMAIN Worth \subseteq Ascii
  BY Digitals, Letters DEF Ascii, CHAR, VCHAR, DIGIT
<1>2. NameChars \subseteq Ascii /\ QUOTABLE \subseteq Ascii /\ PROSE \subseteq Ascii
  BY Letters DEF Ascii, CHAR, VCHAR, WSP, DIGIT, NameChars, QUOTABLE, PROSE
<1> QED BY <1>1, <1>2, Letters DEF Ascii, CHAR, VCHAR, WSP, DIGIT

(* The digits of a number are characters: those of what is left without the*)
(* last, and that one.                                                     *)
LEMMA DigitsTyped ==
  ASSUME NEW radix \in {10, 16}
  PROVE  \A n \in Nat :
           /\ Digits(n, radix) \in Text
           /\ Digits(n, radix) = IF n = 0 THEN << >>
                                 ELSE Append(Digits(n \div radix, radix), HexDigits[(n % radix) + 1])
<1> DEFINE E(f, k) == IF k = 0 THEN << >> ELSE Append(f[k \div radix], HexDigits[(k % radix) + 1])
           P(f) == f = [k \in Nat |-> E(f, k)]
           F == CHOOSE f : P(f)
           R(g, n) == \A k \in 0 .. n : g[k] = E(g, k) /\ g[k] \in Text
           A == {n \in Nat : \E g : R(g, n)}
<1>0. \A k \in Nat : k # 0 => k \div radix \in 0 .. k - 1
  <2>1. CASE radix = 10
    BY <2>1
  <2>2. CASE radix = 16
    BY <2>2
  <2> QED BY <2>1, <2>2
<1>d. \A k \in Nat : HexDigits[(k % radix) + 1] \in Ascii
  <2>1. \A k \in Nat : (k % radix) + 1 \in 1 .. 16
    <3>1. CASE radix = 10
      BY <3>1
    <3>2. CASE radix = 16
      BY <3>2
    <3> QED BY <3>1, <3>2
  <2> QED BY <2>1, Digitals, Signs
<1>a. ASSUME NEW f, NEW g, NEW k \in Nat, \A i \in 0 .. k - 1 : f[i] = g[i] PROVE E(f, k) = E(g, k)
  BY <1>0, <1>a
<1>t. ASSUME NEW f, NEW k \in Nat, \A i \in 0 .. k - 1 : f[i] \in Text PROVE E(f, k) \in Text
  <2>1. CASE k = 0
    <3>1. << >> \in Text
      BY DEF Text
    <3> QED BY <2>1, <3>1
  <2>2. CASE k # 0
    <3>1. f[k \div radix] \in Text
      BY <1>0, <1>t, <2>2
    <3>2. Append(f[k \div radix], HexDigits[(k % radix) + 1]) \in Text
      BY <1>d, <3>1, PushStack DEF Text
    <3> QED BY <2>2, <3>2
  <2> QED BY <2>1, <2>2
<1>f. \A n \in Nat : Digits(n, radix) = F[n]
  BY DEF Digits
<1> HIDE DEF E
<1>1. 0 \in A
  <2> DEFINE g == [k \in 0 .. 0 |-> E(<< >>, k)]
  <2>1. \A k \in 0 .. 0 : k \in Nat /\ \A i \in 0 .. k - 1 : FALSE
    OBVIOUS
  <2>2. ASSUME NEW k \in 0 .. 0 PROVE g[k] = E(g, k) /\ g[k] \in Text
    <3>1. g[k] = E(<< >>, k)
      OBVIOUS
    <3> HIDE DEF g
    <3>2. E(g, k) = E(<< >>, k) /\ E(<< >>, k) \in Text
      BY <1>a, <1>t, <2>1
    <3> QED BY <3>1, <3>2
  <2> HIDE DEF g
  <2> QED BY <2>2
<1>2. ASSUME NEW n \in Nat, n \in A PROVE n + 1 \in A
  <2>1. PICK g : R(g, n)
    BY <1>2
  <2> DEFINE f == [k \in 0 .. n + 1 |-> IF k = n + 1 THEN E(g, k) ELSE g[k]]
  <2>2. ASSUME NEW k \in 0 .. n + 1 PROVE f[k] = E(f, k) /\ f[k] \in Text
    <3>1. \A i \in 0 .. k - 1 : i \in 0 .. n /\ i \in 0 .. n + 1 /\ i # n + 1
      OBVIOUS
    <3>2. \A i \in 0 .. k - 1 : f[i] = g[i] /\ g[i] \in Text
      BY <2>1, <3>1
    <3>3. k # n + 1 => k \in 0 .. n
      OBVIOUS
    <3>4. f[k] = E(g, k)
      BY <2>1, <3>3
    <3> HIDE DEF f
    <3>5. E(f, k) = E(g, k) /\ E(g, k) \in Text
      BY <1>a, <1>t, <3>2
    <3> QED BY <3>4, <3>5
  <2> HIDE DEF f
  <2>3. R(f, n + 1)
    BY <2>2
  <2> HIDE DEF R
  <2> QED BY <2>3
<1>3. \A n \in Nat : n \in A
  <2> HIDE DEF A
  <2> QED BY <1>1, <1>2, CountOn
<1> DEFINE to(n) == CHOOSE g : R(g, n)
<1>4. \A n \in Nat : R(to(n), n)
  <2> HIDE DEF R
  <2> QED BY <1>3
<1> HIDE DEF to
<1>5. ASSUME NEW m \in Nat, NEW n \in Nat, m <= n PROVE \A k \in 0 .. m : to(m)[k] = to(n)[k]
  <2> DEFINE S == {k \in 0 .. m : to(m)[k] = to(n)[k]}
  <2>1. ASSUME NEW k \in 0 .. m, \A i \in 0 .. k - 1 : i \in S PROVE k \in S
    <3>1. k \in 0 .. n
      BY <1>5
    <3>2. to(m)[k] = E(to(m), k) /\ to(n)[k] = E(to(n), k)
      BY <1>4, <3>1
    <3>3. E(to(m), k) = E(to(n), k)
      BY <1>a, <2>1
    <3> QED BY <3>2, <3>3
  <2>2. \A k \in 0 .. m : k \in S
    <3> HIDE DEF S
    <3> DEFINE B == {k \in 0 .. m : \A i \in 0 .. k : i \in S}
    <3>1. 0 \in B
      <4>1. \A i \in 0 .. 0 - 1 : i \in S
        OBVIOUS
      <4>2. 0 \in S
        BY <2>1, <4>1
      <4> QED BY <4>2
    <3>2. ASSUME NEW k \in 1 .. m, k - 1 \in B PROVE k \in B
      <4>1. k \in S
        BY <2>1, <3>2
      <4> QED BY <3>2, <4>1
    <3>3. \A k \in 0 .. m : k \in B
      <4> HIDE DEF B
      <4> QED BY <3>1, <3>2, CountUp
    <3> QED BY <3>3
  <2> QED BY <2>2
<1> DEFINE r == [n \in Nat |-> to(n)[n]]
<1>6. ASSUME NEW k \in Nat PROVE r[k] = E(r, k) /\ r[k] \in Text
  <2>1. to(k)[k] = E(to(k), k) /\ to(k)[k] \in Text
    BY <1>4
  <2>2. ASSUME NEW i \in 0 .. k - 1 PROVE r[i] = to(k)[i]
    <3>1. i \in Nat /\ i <= k /\ i \in 0 .. i
      OBVIOUS
    <3> QED BY <1>5, <3>1
  <2>3. r[k] = to(k)[k]
    OBVIOUS
  <2> HIDE DEF r
  <2>4. E(r, k) = E(to(k), k)
    BY <1>a, <2>2
  <2> QED BY <2>1, <2>3, <2>4
<1>7. P(r)
  <2>1. r = [k \in Nat |-> r[k]]
    OBVIOUS
  <2> HIDE DEF r
  <2> QED BY <1>6, <2>1
<1>8. P(F)
  <2> HIDE DEF P, r
  <2> QED BY <1>7
<1> HIDE DEF F
<1>9. \A k \in Nat : F[k] = E(F, k)
  BY <1>8
<1> DEFINE G == {k \in Nat : \A i \in 0 .. k : F[i] \in Text}
<1>10. 0 \in G
  <2>1. \A i \in 0 .. 0 - 1 : F[i] \in Text
    OBVIOUS
  <2>2. F[0] \in Text
    BY <1>9, <1>t, <2>1
  <2> QED BY <2>2
<1>11. ASSUME NEW k \in Nat, k \in G PROVE k + 1 \in G
  <2>1. F[k + 1] \in Text
    BY <1>9, <1>11, <1>t
  <2> QED BY <1>11, <2>1
<1>12. \A k \in Nat : k \in G
  <2> HIDE DEF G
  <2> QED BY <1>10, <1>11, CountOn
<1>13. \A k \in Nat : Digits(k, radix) = IF k = 0 THEN << >>
                       ELSE Append(Digits(k \div radix, radix), HexDigits[(k % radix) + 1])
  <2> TAKE k \in Nat
  <2>1. k # 0 => k \div radix \in Nat
    BY <1>0
  <2>2. F[k] = IF k = 0 THEN << >> ELSE Append(F[k \div radix], HexDigits[(k % radix) + 1])
    BY <1>9 DEF E
  <2>3. Digits(k, radix) = F[k]
    BY <1>f
  <2>4. CASE k = 0
    BY <2>2, <2>3, <2>4
  <2>5. CASE k # 0
    <3>h. PICK h : h = k \div radix
      OBVIOUS
    <3>1. h \in Nat
      BY <2>1, <2>5, <3>h
    <3>2. Digits(h, radix) = F[h]
      BY <1>f, <3>1
    <3>3. F[k] = Append(F[h], HexDigits[(k % radix) + 1])
      BY <2>2, <2>5, <3>h
    <3>4. Digits(k, radix) = Append(Digits(h, radix), HexDigits[(k % radix) + 1])
      BY <2>3, <3>2, <3>3
    <3> QED BY <2>5, <3>4, <3>h
  <2> QED BY <2>4, <2>5
<1>14. \A k \in Nat : Digits(k, radix) \in Text
  BY <1>12, <1>f
<1> HIDE DEF G
<1> QED BY <1>13, <1>14

(* Numbers are written as characters.                                      *)
LEMMA NumbersWritten ==
  /\ \A n \in Nat : Decimal(n) \in Text /\ WriteHex(n) \in Text
  /\ \A s, t \in Text : s \o t \in Text
  /\ << >> \in Text /\ \A c \in Ascii : <<c>> \in Text
<1>1. <<"0">> \in Text
  <2>1. "0" \in Ascii
    BY Signs
  <2> QED BY <2>1 DEF Text
<1>2. \A s, t \in Text : s \o t \in Text
  BY DEF Text
<1>3. \A n \in Nat : Digits(n, 10) \in Text /\ Digits(n, 16) \in Text
  BY DigitsTyped
<1>4. \A n \in Nat : Decimal(n) \in Text
  BY <1>1, <1>3 DEF Decimal
<1>5. \A n \in Nat : WriteHex(n) \in Text
  <2> TAKE n \in Nat
  <2>d. PICK d : d = IF n = 0 THEN <<"0">> ELSE Digits(n, 16)
    OBVIOUS
  <2>1. WriteHex(n) = IF Len(d) % 2 = 1 THEN <<"0">> \o d ELSE d
    BY <2>d DEF WriteHex
  <2>2. d \in Text /\ <<"0">> \o d \in Text
    BY <1>1, <1>2, <1>3, <2>d
  <2> QED BY <2>1, <2>2
<1>6. << >> \in Text /\ \A c \in Ascii : <<c>> \in Text
  BY DEF Text
<1> QED BY <1>2, <1>4, <1>5, <1>6

(* Texts one after the other.                                              *)
LEMMA JoinedTyped ==
  /\ \A s \in Seq(Text) : s # << >> => FlattenSeq(s) \in Text
  /\ \A s \in Seq(Text), c \in Text : s # << >> => Joined(s, c) \in Text
<1>1. ASSUME NEW s \in Seq(Text), s # << >> PROVE FlattenSeq(s) \in Text
  <2>1. s \in Seq(Seq(Ascii)) /\ Len(s) \in Nat /\ Len(s) \in 1 .. Len(s)
    BY <1>1 DEF Text
  <2>2. PICK t \in [1 .. Len(s) -> Seq(Ascii)] : FlattenSeq(s) = t[Len(s)]
    BY <1>1, <2>1, FlattenFacts
  <2> QED BY <2>1, <2>2 DEF Text
<1>2. ASSUME NEW s \in Seq(Text), NEW c \in Text, s # << >> PROVE Joined(s, c) \in Text
  <2> DEFINE j == [i \in DOMAIN s |-> IF i = 1 THEN s[i] ELSE c \o s[i]]
  <2>1. \A i \in 1 .. Len(s) : s[i] \in Text
    OBVIOUS
  <2>2. \A i \in 1 .. Len(s) : c \o s[i] \in Text
    BY <2>1, NumbersWritten
  <2>3. j \in Seq(Text) /\ j # << >>
    <3>1. DOMAIN s = 1 .. Len(s) /\ Len(s) \in Nat /\ Len(s) # 0
      BY <1>2
    <3>2. \A i \in 1 .. Len(s) : (IF i = 1 THEN s[i] ELSE c \o s[i]) \in Text
      BY <2>1, <2>2
    <3>3. j = [i \in 1 .. Len(s) |-> IF i = 1 THEN s[i] ELSE c \o s[i]]
      BY <3>1
    <3> HIDE DEF j
    <3>4. j \in [1 .. Len(s) -> Text]
      BY <3>2, <3>3
    <3>5. j \in Seq(Text) /\ DOMAIN j = 1 .. Len(s)
      BY <3>1, <3>4
    <3> QED BY <3>1, <3>5
  <2> HIDE DEF j
  <2>4. FlattenSeq(j) \in Text
    BY <1>1, <2>3
  <2> QED BY <2>4 DEF Joined, j
<1> QED BY <1>1, <1>2

(* Where an element can stand.                                             *)
Places == {"free", "concat", "repeat"}

(* What is written, from how the parts are written in each place.          *)
BareOf(x, s) ==
  LET parts(where) == [i \in DOMAIN s |-> s[i][where]]
  IN  CASE x.kind = "alt"      -> Joined(parts("free"), <<" ", "/", " ">>)
        [] x.kind = "concat"   -> Joined(parts("concat"), <<" ">>)
        [] x.kind = "repeat"   -> WriteRepeat(x) \o parts("repeat")[1]
        [] x.kind = "optional" -> <<"[">> \o parts("free")[1] \o <<"]">>
        [] x.kind = "ref"      -> x.target
        [] x.kind = "char"     -> WriteCharVal(x)
        [] x.kind = "num"      -> WriteNumVal(x)
        [] x.kind = "prose"    -> <<"<">> \o x.text \o <<">">>

(* What is written in each place.                                          *)
Row(x, s) ==
  [where \in Places |-> IF NeedsParens(x, where) THEN <<"(">> \o BareOf(x, s) \o <<")">> ELSE BareOf(x, s)]

(* So are the signs of the notation.                                       *)
LEMMA SignsWritten ==
  /\ <<"(">> \in Text /\ <<")">> \in Text /\ <<"[">> \in Text /\ <<"]">> \in Text
  /\ <<"<">> \in Text /\ <<">">> \in Text /\ <<" ">> \in Text /\ <<" ", "/", " ">> \in Text
  /\ <<"*">> \in Text /\ <<"DQUOTE">> \in Text /\ <<"%", "s">> \in Text /\ <<"%", "x">> \in Text
  /\ <<"-">> \in Text /\ <<".">> \in Text /\ <<" ", "=", " ">> \in Text /\ <<" ", "=", "/", " ">> \in Text
  /\ <<"CR", "LF">> \in Text
<1>1. /\ "(" \in Ascii /\ ")" \in Ascii /\ "[" \in Ascii /\ "]" \in Ascii /\ "<" \in Ascii /\ ">" \in Ascii
      /\ " " \in Ascii /\ "*" \in Ascii /\ "DQUOTE" \in Ascii /\ "-" \in Ascii /\ "." \in Ascii
  BY Signs
<1>2. "/" \in Ascii /\ "%" \in Ascii /\ "s" \in Ascii /\ "x" \in Ascii /\ "=" \in Ascii /\ "CR" \in Ascii /\ "LF" \in Ascii
  BY Signs
<1>3. \A c \in Ascii : <<c>> \in Text
  BY NumbersWritten
<1>4. /\ \A b, c \in Ascii : <<b, c>> \in Text
      /\ \A b, c, d \in Ascii : <<b, c, d>> \in Text
      /\ \A b, c, d, e \in Ascii : <<b, c, d, e>> \in Text
  BY DEF Text
<1> QED BY <1>1, <1>2, <1>3, <1>4

(* A leaf is written as characters, whatever its parts.                    *)
LEMMA LeafWritten ==
  ASSUME NEW x \in Leaves, NEW s
  PROVE  BareOf(x, s) \in Text
<1>c. \A b, c \in Text : b \o c \in Text
  BY NumbersWritten
<1> DEFINE quote == <<"DQUOTE">>
           hex == <<"%", "x">>
           dash == <<"-">>
           dot == <<".">>
           open == <<"<">>
           shut == <<">">>
<1>s. quote \in Text /\ hex \in Text /\ dash \in Text /\ dot \in Text /\ open \in Text /\ shut \in Text
  BY SignsWritten
<1>t. \A n : n \in Names \/ n \in Seq(QUOTABLE) \/ n \in Seq(PROSE) => n \in Text
  <2>1. \A S : S \subseteq Ascii => \A n \in Seq(S) : n \in Seq(Ascii)
    BY Within
  <2>2. Names \subseteq Seq(NameChars)
    BY DEF Names
  <2> QED BY <2>1, <2>2, Signs DEF Text
<1>1. ASSUME NEW n \in Text, x = Ref(n) PROVE BareOf(x, s) \in Text
  BY <1>1 DEF BareOf, Ref
<1>2. ASSUME NEW v \in Text, NEW c \in BOOLEAN, x = Str(v, c) PROVE BareOf(x, s) \in Text
  <2>1. x.kind = "char" /\ x.value = v /\ x.case_sensitive = c
    BY <1>2 DEF Str
  <2>2. BareOf(x, s) = WriteCharVal(x)
    BY <2>1 DEF BareOf
  <2>p. PICK p : p = IF c THEN <<"%", "s">> ELSE << >>
    OBVIOUS
  <2>3. p \in Text
    BY <2>p, SignsWritten, NumbersWritten
  <2>4. WriteCharVal(x) = p \o quote \o v \o quote
    BY <2>1, <2>p DEF WriteCharVal
  <2> HIDE DEF quote
  <2>5. p \o quote \o v \o quote \in Text
    BY <1>c, <1>s, <2>3
  <2> QED BY <2>2, <2>4, <2>5
<1>3. ASSUME NEW v \in Seq(Values) \ {<< >>}, x = Num(v) PROVE BareOf(x, s) \in Text
  <2>1. x.kind = "num" /\ x.range = FALSE /\ x.value = [i \in DOMAIN v |-> [lo |-> v[i], hi |-> v[i]]]
    BY <1>3 DEF Num
  <2>2. BareOf(x, s) = WriteNumVal(x)
    BY <2>1 DEF BareOf
  <2> DEFINE t == [i \in DOMAIN v |-> WriteHex(v[i])]
  <2>3. [i \in DOMAIN x.value |-> WriteHex(x.value[i].lo)] = t
    BY <2>1
  <2>4. t \in Seq(Text) /\ t # << >>
    <3>1. DOMAIN v = 1 .. Len(v) /\ Len(v) \in Nat /\ Len(v) # 0 /\ \A i \in 1 .. Len(v) : v[i] \in Nat
      <4>1. \A i \in 1 .. Len(v) : v[i] \in Values
        OBVIOUS
      <4>2. DOMAIN v = 1 .. Len(v) /\ Len(v) \in Nat /\ Len(v) # 0
        OBVIOUS
      <4> QED BY <4>1, <4>2, ValuesFacts
    <3>2. t \in [1 .. Len(v) -> Text]
      BY <3>1, NumbersWritten
    <3> HIDE DEF t
    <3>3. t \in Seq(Text) /\ DOMAIN t = 1 .. Len(v)
      BY <3>1, <3>2
    <3> QED BY <3>1, <3>3
  <2>5. WriteNumVal(x) = hex \o Joined(t, dot)
    BY <2>1, <2>3 DEF WriteNumVal
  <2> HIDE DEF t, hex, dot
  <2>6. Joined(t, dot) \in Text
    BY <1>s, <2>4, JoinedTyped
  <2> QED BY <1>c, <1>s, <2>2, <2>5, <2>6
<1>4. ASSUME NEW lo \in Values, NEW hi \in Values, x = Span(lo, hi) PROVE BareOf(x, s) \in Text
  <2>1. x.kind = "num" /\ x.range = TRUE /\ x.value[1].lo = lo /\ x.value[1].hi = hi
    BY <1>4 DEF Span
  <2>2. BareOf(x, s) = WriteNumVal(x)
    BY <2>1 DEF BareOf
  <2>3. WriteNumVal(x) = hex \o (WriteHex(lo) \o dash \o WriteHex(hi))
    BY <2>1 DEF WriteNumVal
  <2> HIDE DEF hex, dash
  <2>4. WriteHex(lo) \in Text /\ WriteHex(hi) \in Text
    BY NumbersWritten, ValuesFacts
  <2> QED BY <1>c, <1>s, <2>2, <2>3, <2>4
<1>5. ASSUME NEW n \in Text, x = ProseVal(n) PROVE BareOf(x, s) \in Text
  <2>1. x.kind = "prose" /\ x.text = n
    BY <1>5 DEF ProseVal
  <2>2. BareOf(x, s) = open \o n \o shut
    BY <2>1 DEF BareOf
  <2> HIDE DEF open, shut
  <2> QED BY <1>c, <1>s, <2>2
<1>6. \/ \E n \in Names : x = Ref(n)
      \/ \E v \in Seq(QUOTABLE), c \in BOOLEAN : x = Str(v, c)
      \/ \E v \in Seq(Values) \ {<< >>} : x = Num(v)
      \/ \E lo, hi \in Values : x = Span(lo, hi)
      \/ \E n \in Seq(PROSE) : x = ProseVal(n)
  BY DEF Leaves
<1> QED BY <1>t, <1>1, <1>2, <1>3, <1>4, <1>5, <1>6

(* And so is a node, if its parts are.                                     *)
LEMMA NodeWritten ==
  ASSUME NEW x \in Trees, NEW s \in Seq([Places -> Text]), Len(s) = Len(x.parts)
  PROVE  Row(x, s) \in [Places -> Text]
<1>c. \A b, c, d \in Text : b \o c \in Text /\ b \o c \o d \in Text
  BY NumbersWritten
<1>0. x \in Over(Trees) /\ x.parts \in Seq(Trees)
  BY TreesOver, OverFacts
<1> DEFINE at(where) == [i \in DOMAIN s |-> s[i][where]]
<1>1. ASSUME NEW where \in Places
      PROVE  /\ at(where) \in Seq(Text)
             /\ s # << >> => at(where) # << >> /\ at(where)[1] \in Text
  <2>1. Len(s) \in Nat /\ DOMAIN s = 1 .. Len(s) /\ \A i \in 1 .. Len(s) : s[i] \in [Places -> Text]
    OBVIOUS
  <2>2. \A i \in 1 .. Len(s) : s[i][where] \in Text
    BY <2>1
  <2>3. at(where) \in [1 .. Len(s) -> Text]
    BY <2>1, <2>2
  <2>4. s # << >> => Len(s) # 0 /\ 1 \in 1 .. Len(s)
    BY <2>1
  <2>p. PICK p : p = at(where)
    OBVIOUS
  <2>5. p \in Seq(Text) /\ DOMAIN p = 1 .. Len(s)
    BY <2>1, <2>3, <2>p
  <2> HIDE DEF at
  <2>6. s # << >> => p # << >> /\ p[1] \in Text
    BY <2>1, <2>4, <2>5
  <2> QED BY <2>5, <2>6, <2>p
<1>2. Len(x.parts) # 0 => s # << >>
  OBVIOUS
<1>p. "free" \in Places /\ "concat" \in Places /\ "repeat" \in Places
  BY DEF Places
<1>3. BareOf(x, s) \in Text
  <2>1. CASE x.kind = "alt"
    <3>1. x.parts # << >>
      BY <1>0, <2>1, OverFacts
    <3>2. s # << >>
      BY <1>0, <1>2, <3>1
    <3>3. BareOf(x, s) = Joined(at("free"), <<" ", "/", " ">>)
      BY <2>1 DEF BareOf
    <3> HIDE DEF at
    <3> QED BY <1>1, <1>p, <3>2, <3>3, JoinedTyped, SignsWritten
  <2>2. CASE x.kind = "concat"
    <3>1. x.parts # << >>
      BY <1>0, <2>2, OverFacts
    <3>2. s # << >>
      BY <1>0, <1>2, <3>1
    <3>3. BareOf(x, s) = Joined(at("concat"), <<" ">>)
      BY <2>2 DEF BareOf
    <3> HIDE DEF at
    <3> QED BY <1>1, <1>p, <3>2, <3>3, JoinedTyped, SignsWritten
  <2>3. CASE x.kind = "optional"
    <3>1. s # << >>
      BY <1>0, <1>2, <2>3, OverFacts
    <3> DEFINE open == <<"[">>
               shut == <<"]">>
    <3>s. open \in Text /\ shut \in Text
      BY SignsWritten
    <3>2. BareOf(x, s) = open \o at("free")[1] \o shut
      BY <2>3 DEF BareOf
    <3> HIDE DEF at, open, shut
    <3>3. at("free")[1] \in Text
      BY <1>1, <1>p, <3>1
    <3> QED BY <1>c, <3>2, <3>3, <3>s
  <2>4. CASE x.kind = "repeat"
    <3>1. s # << >> /\ x.min \in Nat /\ x.max \in Nat \cup {None}
      BY <1>0, <1>2, <2>4, OverFacts
    <3>2. BareOf(x, s) = WriteRepeat(x) \o at("repeat")[1]
      BY <2>4 DEF BareOf
    <3> HIDE DEF at
    <3>3. at("repeat")[1] \in Text
      BY <1>1, <1>p, <3>1
    <3>4. WriteRepeat(x) \in Text
      <4>b. PICK b : b = IF x.min = 0 THEN << >> ELSE Decimal(x.min)
        OBVIOUS
      <4>e. PICK e : e = IF x.max = None THEN << >> ELSE Decimal(x.max)
        OBVIOUS
      <4>1. b \in Text
        BY <3>1, <4>b, NumbersWritten
      <4>2. e \in Text
        BY <3>1, <4>e, NumbersWritten
      <4>3. WriteRepeat(x) = Decimal(x.min) \/ WriteRepeat(x) = b \o <<"*">> \o e
        BY <4>b, <4>e DEF WriteRepeat
      <4>4. b \o <<"*">> \o e \in Text
        BY <1>c, <4>1, <4>2, SignsWritten
      <4>5. Decimal(x.min) \in Text
        BY <3>1, NumbersWritten
      <4> QED BY <4>3, <4>4, <4>5
    <3> QED BY <1>c, <3>2, <3>3, <3>4
  <2>5. CASE x \in Leaves
    BY <2>5, LeafWritten
  <2>6. x \in Leaves \/ x.kind \in {"alt", "concat", "optional", "repeat"}
    <3>1. \/ x \in Leaves
          \/ \E w \in Seq(Trees) : x = Alt(w) \/ x = Concat(w)
          \/ \E y \in Trees : x = Opt(y) \/ \E lo \in Values, hi \in Values \cup {None} : x = Repeat(lo, hi, y)
      BY <1>0 DEF Over
    <3> QED BY <3>1 DEF Alt, Concat, Opt, Repeat
  <2> QED BY <2>1, <2>2, <2>3, <2>4, <2>5, <2>6
<1>4. <<"(">> \o BareOf(x, s) \o <<")">> \in Text
  BY <1>3, <1>c, SignsWritten
<1>5. \A where \in Places :
        (IF NeedsParens(x, where) THEN <<"(">> \o BareOf(x, s) \o <<")">> ELSE BareOf(x, s)) \in Text
  BY <1>3, <1>4
<1> QED BY <1>5 DEF Row

(* How an element is written in each place.                                *)
Written(e) == [where \in Places |-> WriteElement(e, where)]
WrittenParts(e) == [i \in DOMAIN e.parts |-> Written(e.parts[i])]

(* Every element is written as characters, from how its parts are.         *)
LEMMA ElementWritten ==
  \A e \in Trees : Written(e) \in [Places -> Text] /\ Written(e) = Row(e, WrittenParts(e))
<1> DEFINE V == [Places -> Text]
           h == [z \in Trees \X Seq(V) |->
                   IF Len(z[2]) = Len(z[1].parts) THEN Row(z[1], z[2]) ELSE [where \in Places |-> << >>]]
<1>1. h \in [Trees \X Seq(V) -> V]
  <2>1. ASSUME NEW z \in Trees \X Seq(V)
        PROVE  (IF Len(z[2]) = Len(z[1].parts) THEN Row(z[1], z[2]) ELSE [where \in Places |-> << >>]) \in V
    <3>1. z[1] \in Trees /\ z[2] \in Seq([Places -> Text])
      OBVIOUS
    <3>2. [where \in Places |-> << >>] \in V
      BY NumbersWritten
    <3> QED BY <3>1, <3>2, NodeWritten
  <2> QED BY <2>1
<1>2. PICK g \in [Trees -> V] : \A x \in Trees : g[x] = h[<<x, Of(g, x)>>]
  <2> HIDE DEF h, V
  <2> QED BY <1>1, TreeRecursion
<1>3. \A x \in Trees : g[x] = Row(x, Of(g, x))
  <2> TAKE x \in Trees
  <2>1. x \in Over(Trees) /\ \A y \in Trees : g[y] \in V
    BY TreesOver
  <2>2. Of(g, x) \in Seq(V)
    <3> HIDE DEF V
    <3> QED BY <2>1, OfFacts
  <2>3. Len(Of(g, x)) = Len(x.parts)
    <3>1. x.parts \in Seq(Trees)
      BY <2>1, OverFacts
    <3>2. DOMAIN x.parts = 1 .. Len(x.parts) /\ Len(x.parts) \in Nat
      BY <3>1
    <3>3. Of(g, x) = [i \in 1 .. Len(x.parts) |-> g[x.parts[i]]]
      BY <3>2 DEF Of
    <3> QED BY <3>2, <3>3
  <2>4. h[<<x, Of(g, x)>>] = Row(x, Of(g, x))
    <3> HIDE DEF V
    <3> QED BY <2>2, <2>3
  <2> HIDE DEF h
  <2> QED BY <1>2, <2>4
<1>b. ASSUME NEW f, NEW x PROVE Bare(x, f) = BareOf(x, Of(f, x))
  <2>1. \A where : [i \in DOMAIN x.parts |-> f[x.parts[i]][where]] = [i \in DOMAIN Of(f, x) |-> Of(f, x)[i][where]]
    BY DEF Of
  <2> QED BY <2>1 DEF Bare, BareOf
<1>4. ASSUME NEW z \in Trees PROVE Written(z) = g[z]
  <2> DEFINE P(f) == f = [x \in Below(z) |->
                            [where \in {"free", "concat", "repeat"} |->
                               IF NeedsParens(x, where) THEN <<"(">> \o Bare(x, f) \o <<")">> ELSE Bare(x, f)]]
             F == CHOOSE f : P(f)
             r == [x \in Below(z) |-> g[x]]
  <2>1. \A where : WriteElement(z, where) = F[z][where]
    BY DEF WriteElement
  <2>2. Below(z) \subseteq Trees /\ z \in Below(z)
    BY BelowFacts
  <2>p. ASSUME NEW f PROVE P(f) <=> f = [x \in Below(z) |-> Row(x, Of(f, x))]
    BY <1>b DEF Row, Places
  <2>3. P(r)
    <3>1. \A x \in Below(z) : r[x] = Row(x, Of(r, x))
      <4> TAKE x \in Below(z)
      <4>1. Of(r, x) = Of(g, x)
        BY OfBelow
      <4>2. x \in Trees /\ r[x] = g[x]
        BY <2>2
      <4> HIDE DEF r
      <4> QED BY <1>3, <4>1, <4>2
    <3>2. r = [x \in Below(z) |-> r[x]]
      OBVIOUS
    <3> HIDE DEF r
    <3>3. r = [x \in Below(z) |-> Row(x, Of(r, x))]
      BY <3>1, <3>2
    <3> HIDE DEF P
    <3> QED BY <2>p, <3>3
  <2>4. P(F)
    <3> HIDE DEF P
    <3> QED BY <2>3
  <2> HIDE DEF F, P
  <2>5. \A x \in Below(z) : Of(F, x) = Of(g, x) => F[x] = g[x]
    BY <1>3, <2>2, <2>4, <2>p
  <2>6. \A x \in Below(z) : F[x] = g[x]
    BY <2>5, BelowAgree
  <2>7. F[z] = g[z] /\ g[z] \in V
    BY <1>2, <2>2, <2>6
  <2>8. Written(z) = [where \in Places |-> g[z][where]]
    BY <2>1, <2>7 DEF Written
  <2> QED BY <2>7, <2>8
<1>5. ASSUME NEW e \in Trees PROVE WrittenParts(e) = Of(g, e)
  <2>1. e.parts \in Seq(Trees)
    BY TreesOver, OverFacts
  <2>2. \A i \in DOMAIN e.parts : e.parts[i] \in Trees
    BY <2>1
  <2> QED BY <1>4, <2>2 DEF WrittenParts, Of
<1> HIDE DEF h
<1> QED BY <1>2, <1>3, <1>4, <1>5

(* Wherever it stands.                                                     *)
LEMMA FreelyWritten ==
  ASSUME NEW e \in Trees, NEW where \in Places
  PROVE  WriteElement(e, where) \in Text /\ WriteElement(e, where) = Row(e, WrittenParts(e))[where]
         /\ "free" \in Places
<1>1. Written(e)[where] = WriteElement(e, where)
  BY DEF Written
<1> QED BY <1>1, ElementWritten DEF Places

(* The printed form of a grammar is a text.                                *)
LEMMA GrammarWritten ==
  ASSUME NEW ds \in Seq(Definitions)
  PROVE  WriteGrammar(ds) \in Text
<1>c. \A b, c, d \in Text : b \o c \in Text /\ b \o c \o d \in Text
  BY NumbersWritten
<1>1. ASSUME NEW d \in Definitions PROVE WriteDefinition(d) \o <<"CR", "LF">> \in Text
  <2>1. d.name \in Text /\ d.body \in Trees
    <3>1. d.name \in Names /\ d.body \in Trees
      BY DEF Definitions
    <3>2. d.name \in Seq(NameChars)
      BY <3>1 DEF Names
    <3>3. d.name \in Seq(Ascii)
      <4>1. \A i \in 1 .. Len(d.name) : d.name[i] \in NameChars
        BY <3>2
      <4>2. \A i \in 1 .. Len(d.name) : d.name[i] \in Ascii
        BY <4>1, Signs
      <4> QED BY <3>2, <4>2, Within
    <3> QED BY <3>1, <3>3 DEF Text
  <2>h. PICK h : h = IF d.defined_as = "=" THEN <<" ", "=", " ">> ELSE <<" ", "=", "/", " ">>
    OBVIOUS
  <2>2. h \in Text /\ WriteElement(d.body, "free") \in Text
    BY <2>1, <2>h, SignsWritten, FreelyWritten DEF Places
  <2>3. WriteDefinition(d) = d.name \o h \o WriteElement(d.body, "free")
    BY <2>h DEF WriteDefinition
  <2>4. WriteDefinition(d) \in Text
    BY <1>c, <2>1, <2>2, <2>3
  <2> QED BY <1>c, <2>4, SignsWritten
<1>2. CASE ds = << >>
  BY <1>2, SignsWritten DEF WriteGrammar
<1>3. CASE ds # << >>
  <2> DEFINE t == [i \in DOMAIN ds |-> WriteDefinition(ds[i]) \o <<"CR", "LF">>]
  <2>1. Len(ds) \in Nat /\ DOMAIN ds = 1 .. Len(ds) /\ Len(ds) # 0 /\ \A i \in 1 .. Len(ds) : ds[i] \in Definitions
    BY <1>3
  <2>2. t \in [1 .. Len(ds) -> Text]
    BY <1>1, <2>1
  <2>3. WriteGrammar(ds) = FlattenSeq(t)
    BY <1>3 DEF WriteGrammar
  <2> HIDE DEF t
  <2>4. t \in Seq(Text) /\ t # << >>
    BY <2>1, <2>2
  <2> QED BY <2>3, <2>4, JoinedTyped
<1> QED BY <1>2, <1>3

(* The readings of a text, as the parser keeps them.                       *)
Meanings(readings) == {Canonicalized(read) : read \in readings}
(* The sequences of X, `ds` before each.                                   *)
Prefixed(ds, X) == {ds \o x : x \in X}
(* The text has a character that is not of ASCII.                          *)
NonAscii == Contains(src, "NONASCII")

(* How far the parser is with the text: what it has read is what every     *)
(* reading of the text begins with, and where no rule or blank line can be *)
(* read from where it is, there is no reading.                             *)
ParserInv ==
  /\ Typed
  /\ pos \in 0 .. End /\ iterations \in Nat /\ (iterations = 0 <=> pos = 0)
  /\ defs \in Seq(Definitions)
  /\ status \in Errors \cup {"new", "NonAscii", "reading", "parsed"}
  /\ status = "new" => pos = 0 /\ defs = << >>
  /\ status = "reading" =>
       /\ ~NonAscii
       /\ Meanings(ItemsTo(Given, 0)) = Prefixed(defs, Meanings(ItemsTo(Given, pos)))
  /\ status = "parsed" => Meanings(Readings) = {defs}
  /\ status \in Errors \cup {"NonAscii"} => Readings = {}

(* Where there is no reading there is no meaning.                          *)
LEMMA NoMeanings == \A X : Meanings(X) = {} <=> X = {}
  BY DEF Meanings

(* Meanings are sequences of definitions.                                  *)
LEMMA MeaningsTyped ==
  ASSUME Typed, NEW p \in 0 .. End
  PROVE  Meanings(ItemsTo(Given, p)) \subseteq Seq(Definitions)
  BY ItemsTyped, CanonicalizedFacts DEF Meanings

(* A further definition at the end of those read, or none.                 *)
LEMMA Further ==
  ASSUME NEW T, NEW ds \in Seq(T), NEW X, X \subseteq Seq(T), NEW v \in T
  PROVE  Prefixed(ds, Prefixed(<<v>>, X)) = Prefixed(ds \o <<v>>, X)
<1> DEFINE f(x) == ds \o (<<v>> \o x)
           g(x) == (ds \o <<v>>) \o x
<1>1. ASSUME NEW x \in X PROVE f(x) = g(x)
  OBVIOUS
<1>2. Prefixed(ds, Prefixed(<<v>>, X)) = {f(x) : x \in X}
  BY DEF Prefixed
<1> HIDE DEF f, g
<1>3. {f(x) : x \in X} = {g(x) : x \in X}
  BY <1>1
<1> QED BY <1>2, <1>3 DEF g, Prefixed

(* Nothing before and nothing after.                                       *)
LEMMA NoFurther ==
  ASSUME NEW T, NEW ds \in Seq(T), NEW X, X \subseteq Seq(T)
  PROVE  Prefixed(ds, {<< >>}) = {ds} /\ Prefixed(<< >>, X) = X
<1>1. ds \o << >> = ds
  OBVIOUS
<1>2. ASSUME NEW x \in X PROVE << >> \o x = x
  OBVIOUS
<1> QED BY <1>1, <1>2 DEF Prefixed

(* Before anything is read all of the text is ahead.                       *)
LEMMA ParserStart == SyntaxInit => ParserInv
<1> SUFFICES ASSUME SyntaxInit PROVE ParserInv
  OBVIOUS
<1>1. src \in Seq(CHAR) /\ strict \in BOOLEAN /\ pos = 0 /\ iterations = 0 /\ defs = << >> /\ status = "new"
  BY ParserAssumption DEF SyntaxInit, Init
<1>2. Typed
  BY <1>1 DEF Typed
<1>3. 0 \in 0 .. End
  BY <1>2, PeekFacts
<1>4. "new" \notin Errors
  BY DEF Errors
<1> QED BY <1>1, <1>2, <1>3, <1>4 DEF ParserInv

(* While the text is the same, so is what can be made of it.               *)
LEMMA TextStays ==
  ASSUME UNCHANGED <<src, strict>>
  PROVE  Typed' = Typed /\ End' = End /\ Readings' = Readings /\ NonAscii' = NonAscii /\ Given' = Given
<1>1. src' = src /\ strict' = strict
  OBVIOUS
<1>2. Given' = Given
  BY <1>1 DEF Given
<1> QED BY <1>1, <1>2 DEF Typed, End, Readings, NonAscii

(* An item read, or why it could not be.                                   *)
LEMMA ItemTaken ==
  ASSUME ParserInv, status = "reading", pos < Len(src), NEW r, NEW more \in Seq(Definitions), Take(r, more),
         Failed(r) => r.error \in Errors /\ ItemsTo(Given, pos) = {},
         ~Failed(r) => /\ r.at \in pos + 1 .. End
                       /\ Prefixed(defs, Meanings(ItemsTo(Given, pos)))
                            = Prefixed(defs \o more, Meanings(ItemsTo(Given, r.at)))
  PROVE  ParserInv'
<1>1. UNCHANGED <<src, strict>>
  BY DEF Take
<1>2. Typed' /\ End' = End /\ Readings' = Readings /\ NonAscii' = NonAscii /\ Given' = Given
  BY <1>1, TextStays DEF ParserInv
<1>n. End \in Nat /\ pos \in 0 .. End
  BY PeekFacts DEF ParserInv
<1>s. "new" \notin Errors /\ "reading" \notin Errors /\ "parsed" \notin Errors /\ "NonAscii" \notin Errors
  BY DEF Errors
<1>3. CASE Failed(r)
  <2>1. status' = r.error /\ pos' = pos /\ iterations' = iterations /\ defs' = defs
    BY <1>3 DEF Take
  <2>2. r.error \in Errors /\ ItemsTo(Given, pos) = {}
    BY <1>3
  <2>3. Meanings(ItemsTo(Given, pos)) = {}
    BY <2>2, NoMeanings
  <2>4. Meanings(ItemsTo(Given, 0)) = {}
    <3>1. Prefixed(defs, {}) = {}
      BY DEF Prefixed
    <3> QED BY <2>3, <3>1 DEF ParserInv
  <2>5. ItemsTo(Given, 0) = {}
    BY <2>4, NoMeanings
  <2>6. Readings = {}
    BY <2>5 DEF Readings, Rulelists, Given
  <2> QED BY <1>2, <1>s, <2>1, <2>2, <2>6 DEF ParserInv
<1>4. CASE ~Failed(r)
  <2>1. status' = status /\ pos' = r.at /\ iterations' = iterations + 1 /\ defs' = defs \o more
    BY <1>4 DEF Take
  <2>2. r.at \in 0 .. End /\ r.at # 0 /\ iterations + 1 \in Nat /\ iterations + 1 # 0
    BY <1>4, <1>n DEF ParserInv
  <2>3. defs' \in Seq(Definitions)
    BY <2>1 DEF ParserInv
  <2>4. Meanings(ItemsTo(Given, 0)) = Prefixed(defs', Meanings(ItemsTo(Given, pos')))
    BY <1>4, <2>1 DEF ParserInv
  <2>5. Meanings(ItemsTo(Given, 0))' = Meanings(ItemsTo(Given, 0))
    BY <1>2 DEF Meanings
  <2>6. Prefixed(defs, Meanings(ItemsTo(Given, pos)))' = Prefixed(defs', Meanings(ItemsTo(Given, pos')))
    BY <1>2 DEF Meanings, Prefixed
  <2> QED BY <1>2, <1>s, <2>1, <2>2, <2>3, <2>4, <2>5, <2>6 DEF ParserInv
<1> QED BY <1>3, <1>4

(* Every step of the parser, and printing what it read, keeps its progress:*)
(* a rule or blank line it takes is the only one that any reading of the   *)
(* rest begins with.                                                       *)
LEMMA ParserStep ==
  ASSUME ParserInv, [Next]_<<vars, printed>>
  PROVE  ParserInv'
<1>n. Typed /\ End \in Nat /\ pos \in 0 .. End /\ End = Len(src)
  BY PeekFacts DEF ParserInv, End
<1>s. "new" \notin Errors /\ "reading" \notin Errors /\ "parsed" \notin Errors /\ "NonAscii" \notin Errors
  BY DEF Errors
<1>1. CASE Gate
  <2>1. UNCHANGED <<src, strict>> /\ status = "new" /\ pos' = pos /\ iterations' = iterations /\ defs' = defs
        /\ status' = IF NonAscii THEN "NonAscii" ELSE "reading"
    BY <1>1 DEF Gate, NonAscii
  <2>2. Typed' /\ End' = End /\ Readings' = Readings /\ NonAscii' = NonAscii /\ Given' = Given
    BY <1>n, <2>1, TextStays
  <2>3. pos = 0 /\ defs = << >>
    BY <2>1 DEF ParserInv
  <2>4. NonAscii => Readings = {}
    BY DEF NonAscii, Readings
  <2>m. PICK M : M = Meanings(ItemsTo(Given, 0))
    OBVIOUS
  <2>5. Prefixed(<< >>, M) = M
    <3>1. M \subseteq Seq(Definitions)
      BY <1>n, <2>3, <2>m, MeaningsTyped
    <3>2. << >> \in Seq(Definitions)
      OBVIOUS
    <3> QED BY <3>1, <3>2, NoFurther
  <2>6. Meanings(ItemsTo(Given, 0))' = M /\ Meanings(ItemsTo(Given, pos))' = M
    BY <2>1, <2>2, <2>3, <2>m DEF Meanings
  <2>7. Prefixed(defs, Meanings(ItemsTo(Given, pos)))' = M
    BY <2>1, <2>3, <2>5, <2>6 DEF Prefixed
  <2> QED BY <1>s, <2>1, <2>2, <2>4, <2>6, <2>7 DEF ParserInv
<1>2. CASE ReadRule
  <2>1. status = "reading" /\ pos < Len(src) /\ Peek(pos) \in ALPHA /\ Take(Rule(pos), <<Rule(pos).value>>)
    BY <1>2 DEF ReadRule, AtItem
  <2>r. PICK r : r = Rule(pos)
    OBVIOUS
  <2>2. Failed(r) => r.error \in Errors /\ ItemsTo(Given, pos) = {}
    BY <1>n, <2>1, <2>r, AtLetter
  <2>3. CASE Failed(r)
    <3>1. Take(r, << >>)
      BY <2>1, <2>3, <2>r DEF Take
    <3>2. << >> \in Seq(Definitions)
      OBVIOUS
    <3> QED BY <2>1, <2>2, <2>3, <3>1, <3>2, ItemTaken
  <2>4. CASE ~Failed(r)
    <3>1. /\ r.at \in pos + 1 .. End /\ r.value \in Definitions
          /\ Meanings(ItemsTo(Given, pos)) = {<<r.value>> \o Canonicalized(z) : z \in ItemsTo(Given, r.at)}
      BY <1>n, <2>1, <2>4, <2>r, AtLetter DEF Meanings
    <3>m. PICK M : M = Meanings(ItemsTo(Given, r.at))
      OBVIOUS
    <3>2. {<<r.value>> \o Canonicalized(z) : z \in ItemsTo(Given, r.at)} = Prefixed(<<r.value>>, M)
      BY <3>m DEF Meanings, Prefixed
    <3>3. M \subseteq Seq(Definitions)
      <4>1. r.at \in 0 .. End
        BY <1>n, <3>1
      <4> QED BY <1>n, <3>m, <4>1, MeaningsTyped
    <3>4. Prefixed(defs, Prefixed(<<r.value>>, M)) = Prefixed(defs \o <<r.value>>, M)
      <4>1. defs \in Seq(Definitions)
        BY DEF ParserInv
      <4> QED BY <3>1, <3>3, <4>1, Further
    <3>5. Prefixed(defs, Meanings(ItemsTo(Given, pos)))
            = Prefixed(defs \o <<r.value>>, Meanings(ItemsTo(Given, r.at)))
      BY <3>1, <3>2, <3>4, <3>m
    <3>6. <<r.value>> \in Seq(Definitions) /\ Take(r, <<r.value>>)
      BY <2>1, <2>r, <3>1
    <3> QED BY <2>1, <2>4, <3>1, <3>5, <3>6, ItemTaken
  <2> QED BY <2>3, <2>4
<1>3. CASE ReadBlank
  <2>1. status = "reading" /\ pos < Len(src) /\ Peek(pos) \in Blanks /\ Take(CNl(StarWsp(pos)), << >>)
    BY <1>3 DEF ReadBlank, AtItem, Blanks, Breaks
  <2>r. PICK r : r = CNl(StarWsp(pos))
    OBVIOUS
  <2>2. /\ Failed(r) => r.error \in Errors /\ ItemsTo(Given, pos) = {}
        /\ ~Failed(r) => r.at \in pos + 1 .. End /\ ItemsTo(Given, pos) = ItemsTo(Given, r.at)
    BY <1>n, <2>1, <2>r, AtBlank
  <2>3. << >> \in Seq(Definitions) /\ defs \o << >> = defs
    BY DEF ParserInv
  <2>4. ~Failed(r) => Prefixed(defs, Meanings(ItemsTo(Given, pos)))
                        = Prefixed(defs \o << >>, Meanings(ItemsTo(Given, r.at)))
    BY <2>2, <2>3
  <2>5. Take(r, << >>)
    BY <2>1, <2>r
  <2> QED BY <2>1, <2>2, <2>3, <2>4, <2>5, ItemTaken
<1>4. CASE NoRule
  <2>1. status = "reading" /\ pos < Len(src) /\ Peek(pos) \in VCHAR \ (ALPHA \cup {";"}) /\ Take(Expected(pos), << >>)
    BY <1>4 DEF NoRule, AtItem
  <2>2. Peek(pos) \notin ALPHA \cup Blanks
    <3>1. VCHAR \cap WSP = {} /\ "CR" \notin VCHAR /\ "LF" \notin VCHAR
      BY Letters DEF VCHAR, DIGIT, WSP
    <3>c. PICK c : c = Peek(pos)
      OBVIOUS
    <3>2. c \in VCHAR /\ c \notin ALPHA /\ c # ";"
      BY <2>1, <3>c
    <3>3. c \notin Blanks
      BY <3>1, <3>2 DEF Blanks, Breaks
    <3> QED BY <3>2, <3>3, <3>c
  <2>3. ItemsTo(Given, pos) = {}
    <3>0. pos < Len(src)
      BY <2>1
    <3>1. pos # End
      BY <1>n, <3>0
    <3> QED BY <1>n, <2>2, <3>1, AtNothing
  <2>4. Failed(Expected(pos)) /\ Expected(pos).error \in Errors
    BY ReadFacts
  <2>5. << >> \in Seq(Definitions)
    OBVIOUS
  <2>r. PICK r : r = Expected(pos)
    OBVIOUS
  <2>6. Take(r, << >>) /\ Failed(r) /\ r.error \in Errors
    BY <2>1, <2>4, <2>r
  <2> QED BY <2>1, <2>3, <2>5, <2>6, ItemTaken
<1>5. CASE Finish
  <2>1. /\ UNCHANGED <<src, strict>> /\ status = "reading" /\ pos = End
        /\ pos' = pos /\ iterations' = iterations /\ defs' = defs
        /\ status' = IF iterations = 0 THEN Expected(pos).error ELSE "parsed"
    BY <1>5, <1>n DEF Finish
  <2>2. Typed' /\ End' = End /\ Readings' = Readings /\ NonAscii' = NonAscii /\ Given' = Given
    BY <1>n, <2>1, TextStays
  <2>3. CASE iterations = 0
    <3>1. src = << >>
      BY <1>n, <2>1, <2>3 DEF ParserInv, Typed
    <3>2. Readings = {}
      BY <3>1 DEF Readings, Rulelists
    <3>3. status' \in Errors
      BY <2>1, <2>3, ReadFacts
    <3> QED BY <1>s, <2>1, <2>2, <3>2, <3>3 DEF ParserInv
  <2>4. CASE iterations # 0
    <3>1. src # << >>
      BY <1>n, <2>1, <2>4 DEF ParserInv
    <3>2. Readings = ItemsTo(Given, 0)
      BY <2>1, <3>1 DEF ParserInv, NonAscii, Readings, Rulelists, Given
    <3>3. ItemsTo(Given, pos) = {<< >>}
      BY <1>n, <2>1, ItemsAre
    <3>4. Meanings(ItemsTo(Given, pos)) = {<< >>}
      BY <3>3, CanonicalizedFacts DEF Meanings
    <3>5. Prefixed(defs, {<< >>}) = {defs}
      <4>1. defs \in Seq(Definitions)
        BY DEF ParserInv
      <4>2. {} \subseteq Seq(Definitions)
        OBVIOUS
      <4> QED BY <4>1, <4>2, NoFurther
    <3>6. Meanings(Readings) = {defs}
      BY <2>1, <3>2, <3>4, <3>5 DEF ParserInv
    <3>7. Meanings(Readings)' = {defs}'
      BY <2>1, <2>2, <3>6 DEF Meanings
    <3> QED BY <1>s, <2>1, <2>2, <2>4, <3>7 DEF ParserInv
  <2> QED BY <2>3, <2>4
<1>6. CASE Display
  <2>1. src' = WriteGrammar(defs) /\ strict' \in BOOLEAN /\ pos' = 0 /\ iterations' = 0 /\ defs' = << >> /\ status' = "new"
    BY <1>6 DEF Display, Begin
  <2>2. WriteGrammar(defs) \in Seq(CHAR)
    <3>w. PICK w : w = WriteGrammar(defs)
      OBVIOUS
    <3>1. w \in Seq(Ascii)
      BY <3>w, GrammarWritten DEF ParserInv, Text
    <3>2. \A i \in 1 .. Len(w) : w[i] \in Ascii
      BY <3>1
    <3>3. \A i \in 1 .. Len(w) : w[i] \in CHAR
      BY <3>2 DEF Ascii
    <3> QED BY <3>w, <3>1, <3>3, Within
  <2>3. Typed' /\ End' = Len(src')
    BY <2>1, <2>2 DEF Typed, End
  <2>4. Len(src') \in Nat
    BY <2>1, <2>2
  <2>5. 0 \in 0 .. Len(src')
    BY <2>4
  <2> QED BY <1>s, <2>1, <2>3, <2>5 DEF ParserInv
<1>7. CASE UNCHANGED <<vars, printed>>
  <2>1. UNCHANGED <<src, strict>> /\ pos' = pos /\ iterations' = iterations /\ defs' = defs /\ status' = status
    BY <1>7 DEF vars, reading
  <2>2. Typed' /\ End' = End /\ Readings' = Readings /\ NonAscii' = NonAscii /\ Given' = Given
    BY <1>n, <2>1, TextStays
  <2>3. /\ Meanings(Readings)' = Meanings(Readings)
        /\ Meanings(ItemsTo(Given, 0))' = Meanings(ItemsTo(Given, 0))
        /\ Prefixed(defs, Meanings(ItemsTo(Given, pos)))' = Prefixed(defs, Meanings(ItemsTo(Given, pos)))
    BY <2>1, <2>2 DEF Meanings, Prefixed
  <2> QED BY <2>1, <2>2, <2>3 DEF ParserInv
<1> QED BY <1>1, <1>2, <1>3, <1>4, <1>5, <1>6, <1>7 DEF Next, Parse

(* What the parser has read so far is what every reading of the text begins*)
(* with, and where it gives up there is none, for every text and both kinds*)
(* of line endings.                                                        *)
THEOREM ParserInvariant == Spec => []ParserInv
  BY ParserStart, ParserStep, PTL DEF Spec

(* ReadsExact for every text: Grammar::parse accepts exactly what the      *)
(* notation's own grammar derives, and answers with the only meaning there *)
(* is. Looking one character past the whitespace, taking the longest match,*)
(* and giving whitespace back lose no reading.                             *)
THEOREM ReadingIsExact == Spec => []ReadsExact
<1>1. ParserInv => ReadsExact
  <2>1. "parsed" \notin Errors
    BY DEF Errors
  <2> QED BY <2>1 DEF ParserInv, ReadsExact, Answered, Meanings
<1> QED BY <1>1, ParserInvariant, PTL

(* CanonicalExact for every text and every length of words: the bodies the *)
(* parser keeps are normal, and have the words of what stands in the text. *)
THEOREM CanonicalizationIsExact == Spec => []CanonicalExact
<1>1. ParserInv => CanonicalExact
  <2> SUFFICES ASSUME ParserInv, status = "parsed", NEW read \in Readings, NEW k \in DOMAIN defs
               PROVE  Normal(defs[k].body) /\ Words(defs[k].body) = Words(read[k].body)
    BY DEF CanonicalExact
  <2>1. Canonicalized(read) = defs
    BY DEF ParserInv, Meanings
  <2>2. read \in Seq(Definitions)
    <3>1. read \in ItemsTo(Given, 0)
      BY DEF Readings, Rulelists, Given
    <3>2. Typed /\ 0 \in 0 .. End
      BY PeekFacts DEF ParserInv
    <3> QED BY <3>1, <3>2, ItemsTyped
  <2>3. k \in DOMAIN read /\ defs[k] = [read[k] EXCEPT !.body = Canonicalize(@)]
    BY <2>1 DEF Canonicalized
  <2>4. read[k] \in Definitions
    BY <2>2, <2>3
  <2>5. read[k].body \in Trees /\ defs[k].body = Canonicalize(read[k].body)
    BY <2>3, <2>4 DEF Definitions
  <2> QED BY <2>5, CanonicalizeNormal, WordsKept
<1> QED BY <1>1, ParserInvariant, PTL

-----------------------------------------------------------------------------
(* The text that is printed is read as what it was printed from.           *)

(* From `p` on the text is `w`.                                            *)
Stands(p, w) ==
  /\ p \in 0 .. End /\ p + Len(w) \in 0 .. End
  /\ \A i \in 1 .. Len(w) : src[p + i] = w[i]

(* Of two texts the second stands where the first ends.                    *)
LEMMA StandsBoth ==
  ASSUME Typed, NEW p, NEW w \in Text, NEW u \in Text, Stands(p, w \o u)
  PROVE  /\ Stands(p, w) /\ p + Len(w) \in 0 .. End /\ Stands(p + Len(w), u)
         /\ p + Len(w \o u) = (p + Len(w)) + Len(u)
         /\ p \in 0 .. End
<1>1. End \in Nat
  BY PeekFacts
<1>2. /\ Len(w) \in Nat /\ Len(u) \in Nat /\ w \o u \in Text /\ Len(w \o u) = Len(w) + Len(u)
      /\ \A i \in 1 .. Len(w) : (w \o u)[i] = w[i]
      /\ \A i \in 1 .. Len(u) : (w \o u)[Len(w) + i] = u[i]
  <2>1. /\ Len(w) \in Nat /\ Len(u) \in Nat /\ w \o u \in Seq(Ascii) /\ Len(w \o u) = Len(w) + Len(u)
        /\ \A i \in 1 .. Len(w) + Len(u) : (w \o u)[i] = IF i <= Len(w) THEN w[i] ELSE u[i - Len(w)]
    BY DEF Text
  <2>2. \A i \in 1 .. Len(u) : Len(w) + i \in 1 .. Len(w) + Len(u) /\ ~(Len(w) + i <= Len(w)) /\ (Len(w) + i) - Len(w) = i
    BY <2>1
  <2>3. \A i \in 1 .. Len(w) : i \in 1 .. Len(w) + Len(u) /\ i <= Len(w)
    BY <2>1
  <2> QED BY <2>1, <2>2, <2>3 DEF Text
<1> PICK v : v = w \o u
  OBVIOUS
<1>3. p \in 0 .. End /\ p + Len(v) \in 0 .. End /\ \A i \in 1 .. Len(v) : src[p + i] = v[i]
  BY DEF Stands
<1>4. p \in Nat /\ p + Len(w) \in 0 .. End /\ (p + Len(w)) + Len(u) = p + Len(v)
  BY <1>1, <1>2, <1>3
<1>5. \A i \in 1 .. Len(w) : src[p + i] = w[i]
  BY <1>2, <1>3
<1>6. \A i \in 1 .. Len(u) : src[(p + Len(w)) + i] = u[i]
  <2> TAKE i \in 1 .. Len(u)
  <2>1. Len(w) + i \in 1 .. Len(v) /\ (p + Len(w)) + i = p + (Len(w) + i)
    BY <1>2, <1>4
  <2>2. src[p + (Len(w) + i)] = v[Len(w) + i]
    BY <1>3, <2>1
  <2> QED BY <1>2, <2>1, <2>2
<1> QED BY <1>3, <1>4, <1>5, <1>6 DEF Stands

(* What stands is there, character by character.                           *)
LEMMA StandsThere ==
  ASSUME Typed, NEW p, NEW w \in Text, Stands(p, w)
  PROVE  /\ p \in 0 .. End /\ p + Len(w) \in p .. End /\ Len(w) \in Nat
         /\ \A i \in 1 .. Len(w) : Peek(p + (i - 1)) = w[i]
         /\ Piece(Given, p, p + Len(w)) = w
<1>1. End \in Nat /\ Len(w) \in Nat /\ w \in Seq(Ascii)
  BY PeekFacts DEF Text
<1>2. p \in 0 .. End /\ p + Len(w) \in 0 .. End /\ \A i \in 1 .. Len(w) : src[p + i] = w[i]
  BY DEF Stands
<1>3. p + Len(w) \in p .. End /\ (p + Len(w)) - p = Len(w)
  BY <1>1, <1>2
<1>4. \A i \in 1 .. Len(w) : Peek(p + (i - 1)) = w[i]
  <2> TAKE i \in 1 .. Len(w)
  <2>1. p + (i - 1) \in Nat /\ p + (i - 1) < End /\ (p + (i - 1)) + 1 = p + i
    BY <1>1, <1>2
  <2>2. Peek(p + (i - 1)) = src[(p + (i - 1)) + 1]
    BY <2>1, PeekFacts
  <2> QED BY <1>2, <2>1, <2>2
<1>5. Piece(Given, p, p + Len(w)) = w
  <2>z. PICK z : z = Piece(Given, p, p + Len(w))
    OBVIOUS
  <2>1. z \in Seq(CHAR)
    BY <1>2, <1>3, <2>z, PieceFacts
  <2>2. Len(z) = Len(w) /\ \A i \in 1 .. Len(w) : z[i] = Peek(p + (i - 1))
    BY <1>2, <1>3, <2>z, PieceOf
  <2>3. \A i \in 1 .. Len(w) : z[i] = w[i]
    BY <1>4, <2>2
  <2> QED BY <1>1, <2>1, <2>2, <2>3, <2>z, SeqEqual
<1> QED BY <1>1, <1>2, <1>3, <1>4, <1>5

(* One character, and a run of characters.                                 *)
LEMMA StandsOne ==
  ASSUME Typed, NEW p, NEW c \in Ascii, Stands(p, <<c>>)
  PROVE  p \in 0 .. End /\ Peek(p) = c /\ p + Len(<<c>>) = p + 1 /\ p + 1 \in 0 .. End
<1>1. <<c>> \in Text /\ Len(<<c>>) = 1 /\ <<c>>[1] = c
  BY NumbersWritten
<1>2. /\ p \in 0 .. End /\ p + 1 \in p .. End
      /\ \A i \in 1 .. 1 : Peek(p + (i - 1)) = <<c>>[i]
  BY <1>1, StandsThere
<1>3. End \in Nat /\ 1 \in 1 .. 1 /\ p + (1 - 1) = p
  BY <1>2, PeekFacts
<1> QED BY <1>1, <1>2, <1>3

(* A text of characters of S that stands somewhere is a run of such        *)
(* characters there.                                                       *)
LEMMA StandsRun ==
  ASSUME Typed, NEW p, NEW S, "END" \notin S, NEW w \in Seq(S), w \in Text, Stands(p, w)
  PROVE  p \in 0 .. End /\ p + Len(w) \in p .. End /\ p + Len(w) \in Runs(Given, p, S)
<1>1. End \in Nat /\ Len(w) \in Nat
  BY PeekFacts
<1>2. p \in 0 .. End /\ p + Len(w) \in p .. End /\ \A i \in 1 .. Len(w) : Peek(p + (i - 1)) = w[i]
  BY StandsThere
<1>3. \A i \in p .. (p + Len(w)) - 1 : Here(Given, i, S)
  <2> TAKE i \in p .. (p + Len(w)) - 1
  <2>1. PICK k \in 1 .. Len(w) : i = p + (k - 1)
    <3>1. (i - p) + 1 \in 1 .. Len(w) /\ i = p + (((i - p) + 1) - 1)
      BY <1>1, <1>2
    <3> QED BY <3>1
  <2>2. Peek(i) = w[k] /\ w[k] \in S /\ i \in Nat
    BY <1>1, <1>2, <2>1
  <2> QED BY <2>2, HereFacts
<1> QED BY <1>2, <1>3 DEF Runs, Given, End

(* Texts one after the other, and one more.                                *)
LEMMA JoinedMore ==
  ASSUME NEW s \in Seq(Text), NEW c \in Text, NEW x \in Text
  PROVE  Joined(Append(s, x), c) = IF s = << >> THEN x ELSE Joined(s, c) \o (c \o x)
<1> DEFINE J(w) == [i \in DOMAIN w |-> IF i = 1 THEN w[i] ELSE c \o w[i]]
           last == IF s = << >> THEN x ELSE c \o x
<1>1. Len(s) \in Nat /\ DOMAIN s = 1 .. Len(s) /\ (s = << >> <=> Len(s) = 0) /\ \A i \in 1 .. Len(s) : s[i] \in Text
  OBVIOUS
<1>2. \A y \in Text : c \o y \in Text
  BY NumbersWritten
<1>3. \A w : Joined(w, c) = FlattenSeq(J(w))
  BY DEF Joined
<1>4. J(s) = [i \in 1 .. Len(s) |-> IF i = 1 THEN s[i] ELSE c \o s[i]]
  BY <1>1
<1>5. J(s) \in Seq(Text) /\ Len(J(s)) = Len(s) /\ DOMAIN J(s) = 1 .. Len(s)
  <2>1. \A i \in 1 .. Len(s) : (IF i = 1 THEN s[i] ELSE c \o s[i]) \in Text
    BY <1>1, <1>2
  <2> HIDE DEF J
  <2> QED BY <1>1, <1>4, <2>1
<1>6. last \in Text
  BY <1>2
<1>7. J(Append(s, x)) = Append(J(s), last)
  <2>1. /\ Append(s, x) \in Seq(Text) /\ Len(Append(s, x)) = Len(s) + 1
        /\ Append(s, x)[Len(s) + 1] = x /\ \A i \in 1 .. Len(s) : Append(s, x)[i] = s[i]
    BY AppendProperties
  <2>a. PICK a : a = Append(s, x)
    OBVIOUS
  <2>2. J(a) = [i \in 1 .. Len(s) + 1 |-> IF i = 1 THEN a[i] ELSE c \o a[i]]
    BY <2>1, <2>a
  <2> HIDE DEF last
  <2>3. /\ Append(J(s), last) \in Seq(Text)
        /\ Len(Append(J(s), last)) = Len(s) + 1
        /\ Append(J(s), last)[Len(s) + 1] = last
        /\ \A i \in 1 .. Len(s) : Append(J(s), last)[i] = J(s)[i]
    <3> HIDE DEF J
    <3> QED BY <1>5, <1>6, AppendProperties
  <2>4. \A i \in 1 .. Len(s) + 1 : J(a)[i] = Append(J(s), last)[i]
    <3> TAKE i \in 1 .. Len(s) + 1
    <3>0. J(a)[i] = IF i = 1 THEN a[i] ELSE c \o a[i]
      BY <2>2
    <3>1. CASE i = Len(s) + 1
      <4>1. a[i] = x /\ (i = 1 <=> s = << >>)
        BY <1>1, <2>1, <2>a, <3>1
      <4>2. J(a)[i] = last
        BY <3>0, <4>1 DEF last
      <4> QED BY <2>3, <3>1, <4>2
    <3>2. CASE i # Len(s) + 1
      <4>1. i \in 1 .. Len(s)
        BY <1>1, <3>2
      <4>2. a[i] = s[i] /\ J(s)[i] = IF i = 1 THEN s[i] ELSE c \o s[i]
        BY <1>4, <2>1, <2>a, <4>1
      <4>3. J(a)[i] = J(s)[i]
        BY <3>0, <4>2
      <4> QED BY <2>3, <4>1, <4>3
    <3> QED BY <3>1, <3>2
  <2>5. J(a) \in Seq(Text) /\ Len(J(a)) = Len(s) + 1
    <3>1. \A i \in 1 .. Len(s) + 1 : a[i] \in Text
      BY <2>1, <2>a
    <3>2. \A i \in 1 .. Len(s) + 1 : (IF i = 1 THEN a[i] ELSE c \o a[i]) \in Text
      BY <1>2, <3>1
    <3> HIDE DEF J
    <3> QED BY <1>1, <2>2, <3>2
  <2>6. J(a) = Append(J(s), last)
    <3> HIDE DEF J
    <3> QED BY <2>3, <2>4, <2>5, SeqEqual
  <2> QED BY <2>6, <2>a
<1>8. /\ J(s) = << >> => FlattenSeq(Append(J(s), last)) = last
      /\ J(s) # << >> => FlattenSeq(Append(J(s), last)) = FlattenSeq(J(s)) \o last
  <2>1. J(s) \in Seq(Seq(Ascii)) /\ last \in Seq(Ascii)
    BY <1>5, <1>6 DEF Text
  <2> HIDE DEF J, last
  <2> QED BY <2>1, FlattenMore
<1>9. J(s) = << >> <=> s = << >>
  <2> HIDE DEF J
  <2> QED BY <1>1, <1>5
<1>10. Joined(Append(s, x), c) = FlattenSeq(Append(J(s), last)) /\ Joined(s, c) = FlattenSeq(J(s))
  BY <1>3, <1>7
<1> HIDE DEF J
<1> QED BY <1>8, <1>9, <1>10

(* The texts of the elements of a sequence, in a row.                      *)
Laid(wr, s, sep) == Joined([i \in DOMAIN s |-> wr[s[i]]], sep)

(* One element more adds a separator and its text, and a first one its text*)
(* alone.                                                                  *)
LEMMA LaidMore ==
  ASSUME NEW X, NEW wr \in [X -> Text], NEW sep \in Text, NEW s \in Seq(X), NEW x \in X
  PROVE  /\ Laid(wr, Append(s, x), sep) = IF s = << >> THEN wr[x] ELSE Laid(wr, s, sep) \o (sep \o wr[x])
         /\ s # << >> => Laid(wr, s, sep) \in Text
<1>1. Len(s) \in Nat /\ DOMAIN s = 1 .. Len(s) /\ \A i \in 1 .. Len(s) : s[i] \in X
  OBVIOUS
<1> DEFINE M(w) == [i \in DOMAIN w |-> wr[w[i]]]
<1>2. M(s) \in Seq(Text) /\ Len(M(s)) = Len(s)
  <2>1. \A i \in 1 .. Len(s) : wr[s[i]] \in Text
    BY <1>1
  <2>2. M(s) = [i \in 1 .. Len(s) |-> wr[s[i]]]
    BY <1>1
  <2> HIDE DEF M
  <2> QED BY <1>1, <2>1, <2>2
<1>3. M(Append(s, x)) = Append(M(s), wr[x])
  <2>1. /\ Append(s, x) \in Seq(X) /\ Len(Append(s, x)) = Len(s) + 1
        /\ Append(s, x)[Len(s) + 1] = x /\ \A i \in 1 .. Len(s) : Append(s, x)[i] = s[i]
    BY AppendProperties
  <2>a. PICK a : a = Append(s, x)
    OBVIOUS
  <2>2. M(a) = [i \in 1 .. Len(s) + 1 |-> wr[a[i]]]
    BY <2>1, <2>a
  <2>3. /\ Append(M(s), wr[x]) \in Seq(Text)
        /\ Len(Append(M(s), wr[x])) = Len(s) + 1
        /\ Append(M(s), wr[x])[Len(s) + 1] = wr[x]
        /\ \A i \in 1 .. Len(s) : Append(M(s), wr[x])[i] = M(s)[i]
    <3> HIDE DEF M
    <3> QED BY <1>2, AppendProperties
  <2>4. \A i \in 1 .. Len(s) + 1 : M(a)[i] = Append(M(s), wr[x])[i]
    <3> TAKE i \in 1 .. Len(s) + 1
    <3>1. CASE i = Len(s) + 1
      BY <2>1, <2>2, <2>3, <2>a, <3>1
    <3>2. CASE i # Len(s) + 1
      <4>1. i \in 1 .. Len(s)
        BY <1>1, <3>2
      <4>2. a[i] = s[i] /\ M(s)[i] = wr[s[i]] /\ M(a)[i] = wr[a[i]]
        BY <1>1, <2>1, <2>2, <2>a, <4>1
      <4> HIDE DEF M
      <4> QED BY <2>3, <4>1, <4>2
    <3> QED BY <3>1, <3>2
  <2>5. M(a) \in Seq(Text) /\ Len(M(a)) = Len(s) + 1
    <3>1. \A i \in 1 .. Len(s) + 1 : a[i] \in X
      BY <2>1, <2>a
    <3>2. \A i \in 1 .. Len(s) + 1 : wr[a[i]] \in Text
      BY <3>1
    <3> HIDE DEF M
    <3> QED BY <1>1, <2>2, <3>2
  <2>6. M(a) = Append(M(s), wr[x])
    <3> HIDE DEF M
    <3> QED BY <2>3, <2>4, <2>5, SeqEqual
  <2> QED BY <2>6, <2>a
<1>4. \A w : Laid(wr, w, sep) = Joined(M(w), sep)
  BY DEF Laid
<1> HIDE DEF M
<1>5. M(s) = << >> <=> s = << >>
  BY <1>1, <1>2
<1>6. wr[x] \in Text
  OBVIOUS
<1>7. Joined(Append(M(s), wr[x]), sep) = IF M(s) = << >> THEN wr[x] ELSE Joined(M(s), sep) \o (sep \o wr[x])
  BY <1>2, <1>6, JoinedMore
<1>8. s # << >> => Joined(M(s), sep) \in Text
  BY <1>2, <1>5, JoinedTyped
<1> QED BY <1>3, <1>4, <1>5, <1>7, <1>8

(* Elements in a row are written as a text.                                *)
LEMMA LaidTyped ==
  ASSUME NEW X, NEW wr \in [X -> Text], NEW sep \in Text, NEW s \in Seq(X), s # << >>
  PROVE  Laid(wr, s, sep) \in Text
<1>1. Len(s) \in Nat /\ Len(s) # 0 /\ DOMAIN s = 1 .. Len(s) /\ \A i \in 1 .. Len(s) : s[i] \in X
  OBVIOUS
<1>2. \A i \in 1 .. Len(s) : wr[s[i]] \in Text
  BY <1>1
<1>m. PICK m : m = [i \in DOMAIN s |-> wr[s[i]]]
  OBVIOUS
<1>3. m \in [1 .. Len(s) -> Text]
  BY <1>1, <1>2, <1>m
<1>4. m \in Seq(Text) /\ m # << >>
  BY <1>1, <1>3
<1> QED BY <1>4, <1>m, JoinedTyped DEF Laid

(* `D` has, at each position, the lists that can be read from it, and one  *)
(* of X is read from its text alone or before such a list, a separator     *)
(* between.                                                                *)
Listing(D, X, wr, sep) ==
  \A p \in 0 .. End : \A x \in X :
    Stands(p, wr[x]) =>
      /\ <<p + Len(wr[x]), <<x>>>> \in D[p]
      /\ Stands(p + Len(wr[x]), sep) =>
           \A q : \A t \in Seq(X) :
             <<q, t>> \in D[(p + Len(wr[x])) + Len(sep)] => <<q, <<x>> \o t>> \in D[p]

(* Then the texts of many, a separator between, are read as the list of    *)
(* them: by induction, the last added at its end.                          *)
LEMMA ListsRead ==
  ASSUME Typed, NEW X, NEW wr \in [X -> Text], NEW sep \in Text, NEW D, Listing(D, X, wr, sep),
         NEW s \in Seq(X), s # << >>, NEW p, Stands(p, Laid(wr, s, sep))
  PROVE  <<p + Len(Laid(wr, s, sep)), s>> \in D[p]
<1> DEFINE J(w) == Laid(wr, w, sep)
           Good(w, a) ==
             /\ <<a + Len(J(w)), w>> \in D[a]
             /\ Stands(a + Len(J(w)), sep) =>
                  \A q : \A t \in Seq(X) : <<q, t>> \in D[(a + Len(J(w))) + Len(sep)] => <<q, w \o t>> \in D[a]
           S == {w \in Seq(X) : w # << >> => \A a \in 0 .. End : Stands(a, J(w)) => Good(w, a)}
<1>1. << >> \in S
  OBVIOUS
<1>2. ASSUME NEW w \in Seq(X), NEW x \in X, w \in S PROVE Append(w, x) \in S
  <2>a. PICK v : v = Append(w, x)
    OBVIOUS
  <2>0. v \in Seq(X) /\ v = w \o <<x>> /\ <<x>> \in Seq(X)
    BY <2>a, AppendProperties, ConcatProperties
  <2>1. SUFFICES ASSUME NEW a \in 0 .. End, Stands(a, J(v)) PROVE Good(v, a)
    <3> HIDE DEF Good, J
    <3> QED BY <2>0, <2>a
  <2>2. /\ J(v) = IF w = << >> THEN wr[x] ELSE J(w) \o (sep \o wr[x])
        /\ w # << >> => J(w) \in Text
    <3>1. /\ Laid(wr, Append(w, x), sep) = IF w = << >> THEN wr[x] ELSE Laid(wr, w, sep) \o (sep \o wr[x])
          /\ w # << >> => Laid(wr, w, sep) \in Text
      BY LaidMore
    <3> QED BY <2>a, <3>1
  <2>3. wr[x] \in Text /\ sep \o wr[x] \in Text
    <3>1. wr[x] \in Text
      OBVIOUS
    <3> QED BY <3>1, NumbersWritten
  <2>4. CASE w = << >>
    <3>1. J(v) = wr[x] /\ v = <<x>>
      <4>1. Append(<< >>, x) = <<x>>
        OBVIOUS
      <4> QED BY <2>2, <2>4, <2>a, <4>1
    <3> HIDE DEF J
    <3>2. Good(<<x>>, a) <=> Good(v, a)
      BY <3>1
    <3>3. /\ <<a + Len(wr[x]), <<x>>>> \in D[a]
          /\ Stands(a + Len(wr[x]), sep) =>
               \A q : \A t \in Seq(X) :
                 <<q, t>> \in D[(a + Len(wr[x])) + Len(sep)] => <<q, <<x>> \o t>> \in D[a]
      BY <2>1, <3>1 DEF Listing
    <3> QED BY <3>1, <3>3
  <2>5. CASE w # << >>
    <3>b. PICK b : b = a + Len(J(w))
      OBVIOUS
    <3>1. J(w) \in Text /\ J(v) = J(w) \o (sep \o wr[x])
      BY <2>2, <2>5
    <3>j. PICK j : j = J(w)
      OBVIOUS
    <3>2. /\ Stands(a, j) /\ b \in 0 .. End /\ Stands(b, sep \o wr[x])
          /\ a + Len(J(v)) = b + Len(sep \o wr[x])
      <4>1. Stands(a, j \o (sep \o wr[x])) /\ j \in Text
        BY <2>1, <3>1, <3>j
      <4> HIDE DEF J
      <4>2. J(v) = j \o (sep \o wr[x]) /\ b = a + Len(j)
        BY <3>1, <3>b, <3>j
      <4> QED BY <2>3, <4>1, <4>2, StandsBoth
    <3>c. PICK c : c = b + Len(sep)
      OBVIOUS
    <3>3. /\ Stands(b, sep) /\ c \in 0 .. End /\ Stands(c, wr[x]) /\ a + Len(J(v)) = c + Len(wr[x])
      <4> HIDE DEF J
      <4> QED BY <2>3, <3>2, <3>c, StandsBoth
    <3>e. PICK e : e = c + Len(wr[x])
      OBVIOUS
    <3>4. /\ <<b, w>> \in D[a]
          /\ \A q : \A t \in Seq(X) : <<q, t>> \in D[c] => <<q, w \o t>> \in D[a]
      <4>1. Good(w, a)
        BY <1>2, <2>5, <3>2, <3>j
      <4> HIDE DEF J
      <4> QED BY <3>b, <3>c, <3>3, <4>1
    <3>5. /\ <<e, <<x>>>> \in D[c]
          /\ Stands(e, sep) => \A q : \A t \in Seq(X) : <<q, t>> \in D[e + Len(sep)] => <<q, <<x>> \o t>> \in D[c]
      BY <3>3, <3>e DEF Listing
    <3>6. <<e, v>> \in D[a]
      BY <2>0, <3>4, <3>5
    <3>7. ASSUME Stands(e, sep), NEW q, NEW t \in Seq(X), <<q, t>> \in D[e + Len(sep)]
          PROVE  <<q, v \o t>> \in D[a]
      <4>y. PICK y : y = <<x>> \o t
        OBVIOUS
      <4>1. <<q, y>> \in D[c]
        BY <3>5, <3>7, <4>y
      <4>2. y \in Seq(X)
        BY <2>0, <4>y, ConcatProperties
      <4>3. <<q, w \o y>> \in D[a]
        BY <3>4, <4>1, <4>2
      <4>4. w \o y = v \o t
        <5>o. PICK o : o = <<x>>
          OBVIOUS
        <5>1. o \in Seq(X) /\ v = w \o o /\ y = o \o t
          BY <2>0, <4>y, <5>o
        <5>2. (w \o o) \o t = w \o (o \o t)
          BY <5>1, ConcatAssociative
        <5> QED BY <5>1, <5>2
      <4> QED BY <4>3, <4>4
    <3>8. a + Len(J(v)) = e
      BY <3>3, <3>e
    <3> HIDE DEF J
    <3> QED BY <3>6, <3>7, <3>8
  <2> QED BY <2>4, <2>5
<1>3. \A w \in Seq(X) : w \in S
  <2> HIDE DEF S
  <2> QED BY <1>1, <1>2, SequenceInduction
<1>4. p \in 0 .. End
  BY DEF Stands
<1>5. Good(s, p)
  BY <1>3, <1>4
<1> QED BY <1>5

(* A zero changes nothing where nothing was counted yet.                   *)
LEMMA ZeroRead ==
  ASSUME Typed, NEW radix \in {10, 16}, NEW p \in 0 .. End, NEW m \in p .. Skip(p, DigitsOf(radix)),
         Tally(p, radix)[m] = 0, Stands(m, <<"0">>)
  PROVE  m + 1 \in p + 1 .. Skip(p, DigitsOf(radix)) /\ Tally(p, radix)[m + 1] = 0
<1>1. radix \in Radixes /\ radix \in Nat
  BY DEF Radixes
<1>2. "END" \notin DigitsOf(radix)
  BY DigitFacts
<1>3. "0" \in DOMAIN Worth /\ Worth["0"] = 0
  <2>1. 1 \in 1 .. 16 /\ HexDigits[1] = "0"
    BY DEF HexDigits
  <2>2. HexDigits[1] \in DOMAIN Worth /\ Worth[HexDigits[1]] = 1 - 1
    BY <2>1, Digitals
  <2> QED BY <2>1, <2>2
<1>4. "0" \in DigitsOf(radix)
  BY <1>3 DEF DigitsOf
<1>5. Skip(p, DigitsOf(radix)) \in p .. End /\ Peek(Skip(p, DigitsOf(radix))) \notin DigitsOf(radix)
  BY <1>2, SkipFacts
<1>6. "0" \in Ascii
  BY Signs
<1>7. Peek(m) = "0"
  BY <1>6, StandsOne
<1> PICK k : k = Skip(p, DigitsOf(radix))
  OBVIOUS
<1>8. m \in p .. k /\ k \in p .. End /\ m # k /\ p \in Nat /\ End \in Nat
  BY <1>4, <1>5, <1>7, PeekFacts
<1>9. m + 1 \in p + 1 .. k /\ (m + 1) - 1 = m /\ m \in Nat /\ m < End
  BY <1>8
<1>10. Tally(p, radix)[m + 1] = Tally(p, radix)[m] * radix + Worth[src[m + 1]]
  BY <1>1, <1>9, TallyFacts
<1>11. src[m + 1] = "0"
  BY <1>7, <1>9, PeekFacts
<1> QED BY <1>1, <1>3, <1>9, <1>10, <1>11

(* The digits of a number, read after zeros, come to it.                   *)
LEMMA DigitsRead ==
  ASSUME Typed, NEW radix \in {10, 16}, NEW p \in 0 .. End
  PROVE  \A n \in Nat : \A m \in p .. Skip(p, DigitsOf(radix)) :
           Tally(p, radix)[m] = 0 /\ Stands(m, Digits(n, radix)) =>
             /\ m + Len(Digits(n, radix)) \in m .. Skip(p, DigitsOf(radix))
             /\ Tally(p, radix)[m + Len(Digits(n, radix))] = n
             /\ n # 0 => Len(Digits(n, radix)) > 0
<1> PICK k : k = Skip(p, DigitsOf(radix))
  OBVIOUS
<1> DEFINE Good(n) == \A m \in p .. k :
             Tally(p, radix)[m] = 0 /\ Stands(m, Digits(n, radix)) =>
               /\ m + Len(Digits(n, radix)) \in m .. k
               /\ Tally(p, radix)[m + Len(Digits(n, radix))] = n
               /\ n # 0 => Len(Digits(n, radix)) > 0
           S == {n \in Nat : \A i \in 0 .. n : Good(i)}
<1>1. radix \in Radixes /\ radix \in Nat
  BY DEF Radixes
<1>2. "END" \notin DigitsOf(radix)
  BY DigitFacts
<1>3. k \in p .. End /\ Peek(k) \notin DigitsOf(radix) /\ p \in Nat /\ End \in Nat
  BY <1>2, SkipFacts, PeekFacts
<1>4. Good(0)
  <2>1. Digits(0, radix) = << >>
    BY DigitsTyped
  <2>2. Len(<< >>) = 0
    OBVIOUS
  <2>3. \A m \in p .. k : m + 0 = m /\ m \in m .. k
    BY <1>3
  <2> QED BY <2>1, <2>2, <2>3
<1>5. ASSUME NEW n \in Nat, n # 0, \A i \in 0 .. n - 1 : Good(i) PROVE Good(n)
  <2> PICK h, d : h = n \div radix /\ d = n % radix
    OBVIOUS
  <2>1. h \in 0 .. n - 1 /\ h \in Nat /\ d \in 0 .. radix - 1 /\ h * radix + d = n /\ d + 1 \in 1 .. 16 /\ (d + 1) - 1 = d
    <3>1. CASE radix = 10
      BY <1>5, <3>1
    <3>2. CASE radix = 16
      BY <1>5, <3>2
    <3> QED BY <3>1, <3>2
  <2> PICK c, w : c = HexDigits[d + 1] /\ w = Digits(h, radix)
    OBVIOUS
  <2>2. c \in DOMAIN Worth /\ Worth[c] = d
    BY <2>1, Digitals
  <2>3. c \in DigitsOf(radix) /\ c \in Ascii
    <3>1. Worth[c] < radix
      BY <1>1, <2>1, <2>2
    <3>2. c \in DigitsOf(radix)
      BY <2>2, <3>1 DEF DigitsOf
    <3> QED BY <2>2, <3>2, Signs
  <2>4. w \in Text /\ Digits(n, radix) = Append(w, c)
    BY <1>5, <2>1, DigitsTyped
  <2>5. <<c>> \in Text /\ Append(w, c) = w \o <<c>> /\ Len(Append(w, c)) = Len(w) + 1 /\ Len(w) \in Nat
    <3>1. <<c>> \in Text
      BY <2>3, NumbersWritten
    <3>2. w \in Seq(Ascii)
      BY <2>4 DEF Text
    <3>3. Append(w, c) = w \o <<c>> /\ Len(Append(w, c)) = Len(w) + 1 /\ Len(w) \in Nat
      BY <2>3, <3>2
    <3> QED BY <3>1, <3>3
  <2>6. SUFFICES ASSUME NEW m \in p .. k, Tally(p, radix)[m] = 0, Stands(m, w \o <<c>>)
        PROVE  m + (Len(w) + 1) \in m .. k /\ Tally(p, radix)[m + (Len(w) + 1)] = n
    <3> PICK v : v = Digits(n, radix)
      OBVIOUS
    <3>1. v = w \o <<c>> /\ Len(v) = Len(w) + 1 /\ Len(v) > 0
      BY <2>4, <2>5
    <3> QED BY <3>1
  <2>7. Stands(m, w) /\ Stands(m + Len(w), <<c>>)
    BY <2>4, <2>5, <2>6, StandsBoth
  <2> PICK e : e = m + Len(w)
    OBVIOUS
  <2>8. e \in m .. k /\ Tally(p, radix)[e] = h
    BY <1>5, <2>1, <2>6, <2>7
  <2>9. Peek(e) = c
    BY <2>3, <2>7, StandsOne
  <2>10. e # k
    BY <1>3, <2>3, <2>9
  <2>11. e + 1 \in p + 1 .. k /\ (e + 1) - 1 = e /\ e \in Nat /\ e < End /\ e + 1 \in m .. k /\ e + 1 = m + (Len(w) + 1)
    BY <1>3, <2>5, <2>8, <2>10
  <2>12. Tally(p, radix)[e + 1] = Tally(p, radix)[e] * radix + Worth[src[e + 1]]
    BY <1>1, <2>11, TallyFacts
  <2>13. src[e + 1] = c
    BY <2>9, <2>11, PeekFacts
  <2> QED BY <2>1, <2>2, <2>8, <2>11, <2>12, <2>13
<1> HIDE DEF Good
<1>6. 0 \in S
  BY <1>4
<1>7. ASSUME NEW n \in Nat, n \in S PROVE n + 1 \in S
  <2>1. \A i \in 0 .. (n + 1) - 1 : Good(i)
    BY <1>7
  <2>2. Good(n + 1)
    BY <1>5, <2>1
  <2> QED BY <1>7, <2>2
<1>8. \A n \in Nat : n \in S
  <2> HIDE DEF S
  <2> QED BY <1>6, <1>7, CountOn
<1>9. \A n \in Nat : Good(n)
  BY <1>8
<1> QED BY <1>9 DEF Good

(* So a number is read as it was written, in decimal or hexadecimal.       *)
LEMMA NumberBack ==
  ASSUME Typed, NEW n \in Values, NEW p
  PROVE  /\ Stands(p, Decimal(n)) => <<p + Len(Decimal(n)), n>> \in Numbers(Given, p, 10)
         /\ Stands(p, WriteHex(n)) => <<p + Len(WriteHex(n)), n>> \in Numbers(Given, p, 16)
<1>0. n \in Nat /\ n <= MaxU64
  BY CharactersAssumption DEF Values
<1>1. ASSUME NEW radix \in {10, 16}, p \in 0 .. End, NEW q, q \in p + 1 .. Skip(p, DigitsOf(radix)), Tally(p, radix)[q] = n
      PROVE  <<q, n>> \in Numbers(Given, p, radix)
  BY <1>0, <1>1, NumbersAre DEF Radixes
<1> DEFINE digits(radix) == IF n = 0 THEN <<"0">> ELSE Digits(n, radix)
<1>z. <<"0">> \in Text /\ Len(<<"0">>) = 1
  <2>1. "0" \in Ascii
    BY Signs
  <2> QED BY <2>1, NumbersWritten
<1>d. \A radix \in {10, 16} : digits(radix) \in Text
  BY <1>0, <1>z, DigitsTyped
<1>2. ASSUME NEW radix \in {10, 16}, p \in 0 .. End, NEW m \in p .. Skip(p, DigitsOf(radix)), Tally(p, radix)[m] = 0,
             Stands(m, digits(radix))
      PROVE  /\ m + Len(digits(radix)) \in p + 1 .. Skip(p, DigitsOf(radix))
             /\ Tally(p, radix)[m + Len(digits(radix))] = n
  <2>1. CASE n = 0
    <3>1. digits(radix) = <<"0">>
      BY <2>1
    <3>2. m + 1 \in p + 1 .. Skip(p, DigitsOf(radix)) /\ Tally(p, radix)[m + 1] = 0
      BY <1>2, <3>1, ZeroRead
    <3> QED BY <1>z, <2>1, <3>1, <3>2
  <2>2. CASE n # 0
    <3>1. digits(radix) = Digits(n, radix)
      BY <2>2
    <3> PICK w : w = Digits(n, radix)
      OBVIOUS
    <3>2. m + Len(w) \in m .. Skip(p, DigitsOf(radix)) /\ Tally(p, radix)[m + Len(w)] = n /\ Len(w) > 0
      <4>1. /\ m + Len(Digits(n, radix)) \in m .. Skip(p, DigitsOf(radix))
            /\ Tally(p, radix)[m + Len(Digits(n, radix))] = n
            /\ n # 0 => Len(Digits(n, radix)) > 0
        <5>1. Stands(m, Digits(n, radix))
          BY <1>2, <3>1
        <5>2. \A i \in Nat : \A j \in p .. Skip(p, DigitsOf(radix)) :
                Tally(p, radix)[j] = 0 /\ Stands(j, Digits(i, radix)) =>
                  /\ j + Len(Digits(i, radix)) \in j .. Skip(p, DigitsOf(radix))
                  /\ Tally(p, radix)[j + Len(Digits(i, radix))] = i
                  /\ i # 0 => Len(Digits(i, radix)) > 0
          BY <1>2, DigitsRead
        <5> QED BY <1>0, <1>2, <5>1, <5>2
      <4> QED BY <2>2, <4>1
    <3>3. p \in Nat /\ Len(w) \in Nat
      <4>1. w \in Seq(Ascii)
        BY <1>0, DigitsTyped DEF Text
      <4> QED BY <1>2, <4>1, PeekFacts
    <3>4. m + Len(w) \in p + 1 .. Skip(p, DigitsOf(radix))
      <4>1. Skip(p, DigitsOf(radix)) \in Nat
        <5>1. Skip(p, DigitsOf(radix)) \in p .. End
          BY <1>2, SkipFacts, DigitFacts
        <5> QED BY <3>3, <5>1, PeekFacts
      <4> QED BY <3>2, <3>3, <4>1
    <3> QED BY <3>1, <3>2, <3>4
  <2> QED BY <2>1, <2>2
<1>3. ASSUME NEW radix \in {10, 16}, p \in 0 .. End
      PROVE  p \in p .. Skip(p, DigitsOf(radix)) /\ Tally(p, radix)[p] = 0
  <2>1. Skip(p, DigitsOf(radix)) \in p .. End /\ p \in Nat /\ End \in Nat
    BY <1>3, SkipFacts, DigitFacts, PeekFacts
  <2>2. Tally(p, radix)[p] = 0
    BY <1>3, TallyFacts DEF Radixes
  <2> QED BY <2>1, <2>2
<1>4. \A w : Stands(p, w) => p \in 0 .. End
  BY DEF Stands
<1>5. Decimal(n) = digits(10)
  BY DEF Decimal
<1>6. WriteHex(n) = digits(16) \/ WriteHex(n) = <<"0">> \o digits(16)
  BY DEF WriteHex
<1> HIDE DEF digits
<1>7. ASSUME Stands(p, Decimal(n)) PROVE <<p + Len(Decimal(n)), n>> \in Numbers(Given, p, 10)
  <2> PICK w : w = digits(10)
    OBVIOUS
  <2>1. Stands(p, w) /\ p \in 0 .. End
    BY <1>4, <1>5, <1>7
  <2>2. p \in p .. Skip(p, DigitsOf(10)) /\ Tally(p, 10)[p] = 0
    BY <1>3, <2>1
  <2>3. p + Len(w) \in p + 1 .. Skip(p, DigitsOf(10)) /\ Tally(p, 10)[p + Len(w)] = n
    BY <1>2, <2>1, <2>2
  <2>4. <<p + Len(w), n>> \in Numbers(Given, p, 10)
    BY <1>1, <2>1, <2>3
  <2> QED BY <1>5, <2>4
<1>8. ASSUME Stands(p, WriteHex(n)) PROVE <<p + Len(WriteHex(n)), n>> \in Numbers(Given, p, 16)
  <2> PICK w : w = digits(16)
    OBVIOUS
  <2>p. p \in 0 .. End /\ p \in p .. Skip(p, DigitsOf(16)) /\ Tally(p, 16)[p] = 0
    BY <1>3, <1>4, <1>8
  <2>1. CASE WriteHex(n) = w
    <3>1. p + Len(w) \in p + 1 .. Skip(p, DigitsOf(16)) /\ Tally(p, 16)[p + Len(w)] = n
      BY <1>2, <1>8, <2>p, <2>1
    <3>2. <<p + Len(w), n>> \in Numbers(Given, p, 16)
      BY <1>1, <2>p, <3>1
    <3> QED BY <2>1, <3>2
  <2>2. CASE WriteHex(n) = <<"0">> \o w
    <3>w. w \in Text
      BY <1>d
    <3>1. Stands(p, <<"0">>) /\ Stands(p + Len(<<"0">>), w) /\ p + Len(<<"0">> \o w) = (p + Len(<<"0">>)) + Len(w)
      <4>z. PICK z : z = <<"0">>
        OBVIOUS
      <4>1. z \in Text /\ Stands(p, z \o w)
        BY <1>8, <1>z, <2>2, <4>z
      <4>2. Stands(p, z) /\ Stands(p + Len(z), w) /\ p + Len(z \o w) = (p + Len(z)) + Len(w)
        BY <3>w, <4>1, StandsBoth
      <4> QED BY <4>z, <4>2
    <3>2. p + 1 \in p + 1 .. Skip(p, DigitsOf(16)) /\ Tally(p, 16)[p + 1] = 0
      BY <2>p, <3>1, ZeroRead
    <3>3. p + 1 \in p .. Skip(p, DigitsOf(16)) /\ Stands(p + 1, w)
      BY <1>z, <2>p, <3>1, <3>2
    <3>4. (p + 1) + Len(w) \in p + 1 .. Skip(p, DigitsOf(16)) /\ Tally(p, 16)[(p + 1) + Len(w)] = n
      BY <1>2, <2>p, <3>2, <3>3
    <3>5. <<(p + 1) + Len(w), n>> \in Numbers(Given, p, 16)
      BY <1>1, <2>p, <3>4
    <3>6. p + Len(WriteHex(n)) = (p + 1) + Len(w)
      BY <1>z, <2>2, <3>1
    <3> QED BY <3>5, <3>6
  <2> QED BY <1>6, <2>1, <2>2
<1> QED BY <1>7, <1>8

(* A name is read where it stands, as far as it goes.                      *)
LEMMA NameBack ==
  ASSUME Typed, NEW n \in Names, NEW p, Stands(p, n)
  PROVE  <<p + Len(n), n>> \in Rulenames(Given, p) /\ n \in Text /\ p + Len(n) \in p + 1 .. End
<1>1. n \in Seq(NameChars) /\ n # << >> /\ n[1] \in ALPHA
  BY DEF Names
<1>2. n \in Text
  <2>1. \A i \in 1 .. Len(n) : n[i] \in NameChars
    BY <1>1
  <2>2. \A i \in 1 .. Len(n) : n[i] \in Ascii
    BY <2>1, Signs
  <2>3. n \in Seq(Ascii)
    BY <1>1, <2>2, Within
  <2> QED BY <2>3 DEF Text
<1>3. "END" \notin NameChars /\ "END" \notin ALPHA
  <2>1. "END" \notin ALPHA
    BY Letters
  <2> QED BY <2>1 DEF NameChars, DIGIT
<1>4. p \in 0 .. End /\ p + Len(n) \in p .. End /\ p + Len(n) \in Runs(Given, p, NameChars)
  BY <1>1, <1>2, <1>3, StandsRun
<1>5. End \in Nat /\ Len(n) \in Nat /\ Len(n) # 0 /\ p \in Nat
  BY <1>1, <1>4, PeekFacts
<1>6. p + Len(n) \in p + 1 .. End
  BY <1>4, <1>5
<1>7. p + Len(n) \in Runs(Given, p + 1, NameChars)
  <2>1. Len(Given.text) = End
    BY DEF Given, End
  <2>2. \A i \in p .. (p + Len(n)) - 1 : Here(Given, i, NameChars)
    BY <1>4 DEF Runs
  <2>3. \A i \in p + 1 .. (p + Len(n)) - 1 : i \in p .. (p + Len(n)) - 1
    BY <1>5
  <2>4. \A i \in p + 1 .. (p + Len(n)) - 1 : Here(Given, i, NameChars)
    BY <2>2, <2>3
  <2> QED BY <1>6, <2>1, <2>4 DEF Runs
<1>8. Here(Given, p, ALPHA)
  <2>1. \A i \in 1 .. Len(n) : Peek(p + (i - 1)) = n[i]
    BY <1>2, StandsThere
  <2>2. 1 \in 1 .. Len(n) /\ p + (1 - 1) = p
    BY <1>5
  <2>3. Peek(p) = n[1]
    BY <2>1, <2>2
  <2> QED BY <1>1, <1>3, <1>5, <2>3, HereFacts
<1>9. Piece(Given, p, p + Len(n)) = n
  BY <1>2, StandsThere
<1>10. p + Len(n) \in Runs(Given, p + 1, ALPHA \cup DIGIT \cup {"-"})
  BY <1>7 DEF NameChars
<1>11. <<p + Len(n), Piece(Given, p, p + Len(n))>> \in Rulenames(Given, p)
  BY <1>8, <1>10 DEF Rulenames
<1> QED BY <1>2, <1>6, <1>9, <1>11

(* And so is what stands between delimiters.                               *)
LEMMA DelimitedBack ==
  ASSUME Typed, NEW open \in Ascii, NEW close \in Ascii, NEW chars, chars \subseteq Ascii, NEW v \in Seq(chars),
         NEW p, Stands(p, <<open>>), Stands(p + 1, v), Stands((p + 1) + Len(v), <<close>>)
  PROVE  <<((p + 1) + Len(v)) + 1, v>> \in Delimited(Given, p, open, chars, close)
<1>1. "END" \notin chars /\ "END" \notin Ascii
  <2>1. "END" \notin Ascii
    BY Letters DEF Ascii, CHAR, VCHAR, WSP, DIGIT
  <2> QED BY <2>1
<1>2. v \in Text
  <2>1. \A i \in 1 .. Len(v) : v[i] \in chars
    OBVIOUS
  <2>2. \A i \in 1 .. Len(v) : v[i] \in Ascii
    BY <2>1
  <2>3. v \in Seq(Ascii)
    BY <2>2, Within
  <2> QED BY <2>3 DEF Text
<1>3. p \in 0 .. End /\ Peek(p) = open /\ p + 1 \in 0 .. End
  BY StandsOne
<1> PICK m : m = (p + 1) + Len(v)
  OBVIOUS
<1>4. m \in 0 .. End /\ Peek(m) = close
  BY StandsOne
<1>5. m \in p + 1 .. End /\ m \in Runs(Given, p + 1, chars)
  BY <1>1, <1>2, StandsRun
<1>6. p + 1 \in After(Given, {p}, open)
  <2>1. \A q \in {p} : q \in Nat
    BY <1>3, PeekFacts
  <2>2. open # "END"
    BY <1>1
  <2> QED BY <1>3, <2>1, <2>2, AfterFacts
<1>7. m + 1 \in After(Given, Runs(Given, p + 1, chars), close)
  <2>1. \A q \in Runs(Given, p + 1, chars) : q \in Nat
    <3>1. Len(Given.text) = End /\ End \in Nat /\ p + 1 \in Nat
      BY <1>3, PeekFacts DEF Given, End
    <3> QED BY <3>1 DEF Runs
  <2>2. close # "END"
    BY <1>1
  <2> QED BY <1>4, <1>5, <2>1, <2>2, AfterFacts
<1>8. m + 1 \in UNION {After(Given, Runs(Given, s, chars), close) : s \in After(Given, {p}, open)}
  BY <1>6, <1>7
<1>9. (m + 1) - 1 = m
  BY <1>4, PeekFacts
<1>10. Piece(Given, p + 1, m) = v
  BY <1>2, StandsThere
<1>11. <<m + 1, Piece(Given, p + 1, (m + 1) - 1)>> \in Delimited(Given, p, open, chars, close)
  BY <1>8 DEF Delimited
<1> QED BY <1>9, <1>10, <1>11

(* Numbers with a dot between them.                                        *)
Hexes == [n \in Values |-> WriteHex(n)]

(* Values written with dots between them are read as those values: of      *)
(* Dotted in Grammar.tla.                                                  *)
LEMMA DottedBack ==
  ASSUME Typed, NEW v \in Seq(Values), v # << >>, NEW p, Stands(p, Laid(Hexes, v, <<".">>))
  PROVE  <<p + Len(Laid(Hexes, v, <<".">>)), v>> \in Dotted(Given, p, 16) /\ Laid(Hexes, v, <<".">>) \in Text
<1> DEFINE D == [q \in 0 .. End |-> Dotted(Given, q, 16)]
<1>0. 16 \in Radixes /\ "." \in Ascii
  BY Signs DEF Radixes
<1> PICK dot : dot = <<".">>
  OBVIOUS
<1>1. dot \in Text
  BY SignsWritten
<1>2. Hexes \in [Values -> Text]
  <2>1. \A n \in Values : WriteHex(n) \in Text
    BY NumbersWritten, ValuesFacts
  <2> QED BY <2>1 DEF Hexes
<1>3. ASSUME NEW q \in 0 .. End, NEW n \in Values, Stands(q, Hexes[n])
      PROVE  /\ <<q + Len(Hexes[n]), <<n>>>> \in D[q]
             /\ Stands(q + Len(Hexes[n]), dot) =>
                  \A e : \A t \in Seq(Values) :
                    <<e, t>> \in D[(q + Len(Hexes[n])) + Len(dot)] => <<e, <<n>> \o t>> \in D[q]
  <2> PICK h, a : h = WriteHex(n) /\ a = q + Len(h)
    OBVIOUS
  <2>1. Hexes[n] = h /\ D[q] = Dotted(Given, q, 16)
    BY DEF Hexes
  <2>2. <<a, n>> \in Numbers(Given, q, 16)
    BY <1>3, <2>1, NumberBack
  <2>k. PICK k \in Numbers(Given, q, 16) : k = <<a, n>>
    BY <2>2
  <2>3. k[1] = a /\ k[2] = n
    BY <2>k
  <2>4. \A z : z \in Dotted(Given, q, 16) <=>
           \E i \in Numbers(Given, q, 16) :
             \/ z = <<i[1], <<i[2]>>>>
             \/ Peek(i[1]) = "." /\ \E m \in Dotted(Given, i[1] + 1, 16) : z = <<m[1], <<i[2]>> \o m[2]>>
    BY <1>0, DottedAre
  <2>5. <<a, <<n>>>> \in Dotted(Given, q, 16)
    BY <2>3, <2>4
  <2>6. ASSUME Stands(a, dot), NEW e, NEW t \in Seq(Values), <<e, t>> \in D[a + Len(dot)]
        PROVE  <<e, <<n>> \o t>> \in Dotted(Given, q, 16)
    <3>1. Peek(a) = "." /\ a + Len(dot) = a + 1 /\ a + 1 \in 0 .. End
      BY <1>0, <2>6, StandsOne
    <3>2. <<e, t>> \in Dotted(Given, a + 1, 16)
      BY <2>6, <3>1
    <3>m. PICK m \in Dotted(Given, a + 1, 16) : m = <<e, t>>
      BY <3>2
    <3>3. m[1] = e /\ m[2] = t
      BY <3>m
    <3>4. <<m[1], <<n>> \o m[2]>> \in Dotted(Given, q, 16)
      BY <2>3, <2>4, <3>1
    <3> QED BY <3>3, <3>4
  <2> HIDE DEF D
  <2> QED BY <2>1, <2>5, <2>6
<1>4. Listing(D, Values, Hexes, dot)
  <2> HIDE DEF D
  <2> QED BY <1>3 DEF Listing
<1> PICK w : w = Laid(Hexes, v, dot)
  OBVIOUS
<1>5. <<p + Len(w), v>> \in D[p]
  <2> HIDE DEF D
  <2> QED BY <1>1, <1>2, <1>4, ListsRead
<1>6. w \in Text
  BY <1>1, <1>2, LaidTyped
<1>7. p \in 0 .. End
  BY DEF Stands
<1> QED BY <1>5, <1>6, <1>7

(* What stands between two signs, and after two.                           *)
LEMMA Bracketed ==
  ASSUME Typed, NEW open \in Ascii, NEW close \in Ascii, NEW v \in Text, NEW p,
         Stands(p, <<open>> \o v \o <<close>>)
  PROVE  /\ Stands(p, <<open>>) /\ Peek(p) = open /\ p \in 0 .. End /\ p + 1 \in 0 .. End
         /\ Stands(p + 1, v)
         /\ Stands((p + 1) + Len(v), <<close>>) /\ Peek((p + 1) + Len(v)) = close
         /\ (p + 1) + Len(v) \in 0 .. End
         /\ p + Len(<<open>> \o v \o <<close>>) = ((p + 1) + Len(v)) + 1
<1>o. PICK o : o = <<open>>
  OBVIOUS
<1>c. PICK c : c = <<close>>
  OBVIOUS
<1>1. o \in Text /\ c \in Text /\ o \o v \in Text
  BY <1>o, <1>c, NumbersWritten
<1> PICK w : w = o \o v
  OBVIOUS
<1>2. Stands(p, w \o c) /\ w \in Text
  BY <1>1, <1>o, <1>c
<1>3. Stands(p, w) /\ Stands(p + Len(w), c) /\ p + Len(w \o c) = (p + Len(w)) + Len(c)
  BY <1>1, <1>2, StandsBoth
<1>4. Stands(p, o) /\ Stands(p + Len(o), v) /\ p + Len(w) = (p + Len(o)) + Len(v)
  BY <1>1, <1>3, StandsBoth
<1>5. p \in 0 .. End /\ Peek(p) = open /\ p + Len(o) = p + 1 /\ p + 1 \in 0 .. End
  BY <1>4, <1>o, StandsOne
<1> PICK m : m = (p + 1) + Len(v)
  OBVIOUS
<1>6. p + Len(w) = m /\ Stands(m, c)
  BY <1>3, <1>4, <1>5
<1>7. m \in 0 .. End /\ Peek(m) = close /\ m + Len(c) = m + 1
  BY <1>6, <1>c, StandsOne
<1> QED BY <1>o, <1>c, <1>3, <1>4, <1>5, <1>6, <1>7

(* After a percent sign and its letter, what stands is read as the letter  *)
(* says.                                                                   *)
LEMMA PercentBack ==
  ASSUME Typed, NEW c \in {"s", "x"}, NEW v \in Text, NEW p, Stands(p, <<"%", c>> \o v)
  PROVE  /\ p \in 0 .. End /\ p + 2 \in 0 .. End /\ Stands(p + 2, v)
         /\ p + Len(<<"%", c>> \o v) = (p + 2) + Len(v)
         /\ Percents(Given, p) = IF c = "s" THEN Quoted(Given, p + 2, TRUE) ELSE NumVals(Given, p + 2, 16)
<1>0. "%" \in Ascii /\ c \in Ascii
  BY Signs
<1> PICK o : o = <<"%", c>>
  OBVIOUS
<1>1. o \in Text /\ Len(o) = 2 /\ o[1] = "%" /\ o[2] = c
  BY <1>0 DEF Text
<1>2. /\ Stands(p, o) /\ p + Len(o) \in 0 .. End /\ Stands(p + Len(o), v)
      /\ p + Len(o \o v) = (p + Len(o)) + Len(v) /\ p \in 0 .. End
  BY <1>1, StandsBoth
<1>3. \A i \in 1 .. Len(o) : Peek(p + (i - 1)) = o[i]
  BY <1>1, <1>2, StandsThere
<1>4. 1 \in 1 .. Len(o) /\ 2 \in 1 .. Len(o) /\ p + (1 - 1) = p /\ p + (2 - 1) = p + 1
  BY <1>1, <1>2, PeekFacts
<1>5. Peek(p) = "%" /\ Peek(p + 1) = c
  BY <1>1, <1>3, <1>4
<1>6. p + Len(o) = p + 2
  BY <1>1
<1>7. p \in Nat /\ p + 1 \in Nat
  BY <1>2, PeekFacts
<1>8. /\ Here(Given, p, {"%"})
      /\ ~Here(Given, p + 1, {"b", "B"}) /\ ~Here(Given, p + 1, {"d", "D"})
      /\ Here(Given, p + 1, {"x", "X"}) <=> c = "x"
      /\ Here(Given, p + 1, {"s", "S"}) <=> c = "s"
      /\ ~Here(Given, p + 1, {"i", "I"})
  <2>1. "END" \notin {"b", "B"} /\ "END" \notin {"d", "D"} /\ "END" \notin {"x", "X"}
        /\ "END" \notin {"s", "S"} /\ "END" \notin {"i", "I"} /\ "END" \notin {"%"}
    OBVIOUS
  <2>2. /\ Here(Given, p, {"%"}) <=> Peek(p) \in {"%"}
        /\ Here(Given, p + 1, {"b", "B"}) <=> Peek(p + 1) \in {"b", "B"}
        /\ Here(Given, p + 1, {"d", "D"}) <=> Peek(p + 1) \in {"d", "D"}
        /\ Here(Given, p + 1, {"x", "X"}) <=> Peek(p + 1) \in {"x", "X"}
        /\ Here(Given, p + 1, {"s", "S"}) <=> Peek(p + 1) \in {"s", "S"}
        /\ Here(Given, p + 1, {"i", "I"}) <=> Peek(p + 1) \in {"i", "I"}
    BY <1>7, <2>1, HereFacts
  <2> QED BY <1>5, <2>2
<1>9. CASE c = "s"
  <2>1. Percents(Given, p) = Quoted(Given, p + 2, TRUE)
    BY <1>8, <1>9 DEF Percents
  <2> QED BY <1>2, <1>6, <1>9, <2>1
<1>10. CASE c = "x"
  <2>1. Percents(Given, p) = NumVals(Given, p + 2, 16)
    BY <1>8, <1>10 DEF Percents
  <2> QED BY <1>2, <1>6, <1>10, <2>1
<1> QED BY <1>9, <1>10

(* A quoted string is read where it stands.                                *)
LEMMA QuotedBack ==
  ASSUME Typed, NEW v \in Seq(QUOTABLE), NEW cs \in BOOLEAN, NEW p,
         Stands(p, <<"DQUOTE">> \o v \o <<"DQUOTE">>)
  PROVE  /\ v \in Text
         /\ <<p + Len(<<"DQUOTE">> \o v \o <<"DQUOTE">>), Str(v, cs)>> \in Quoted(Given, p, cs)
<1>0. "DQUOTE" \in Ascii /\ QUOTABLE \subseteq Ascii
  BY Signs
<1>1. v \in Text
  <2>1. \A i \in 1 .. Len(v) : v[i] \in QUOTABLE
    OBVIOUS
  <2>2. \A i \in 1 .. Len(v) : v[i] \in Ascii
    BY <1>0, <2>1
  <2>3. v \in Seq(Ascii)
    BY <2>2, Within
  <2> QED BY <2>3 DEF Text
<1> PICK q : q = ((p + 1) + Len(v)) + 1
  OBVIOUS
<1> PICK w : w = <<"DQUOTE">> \o v \o <<"DQUOTE">>
  OBVIOUS
<1>2. /\ Stands(p, <<"DQUOTE">>) /\ Stands(p + 1, v) /\ Stands((p + 1) + Len(v), <<"DQUOTE">>)
      /\ p + Len(w) = q
  BY <1>0, <1>1, Bracketed
<1>3. <<q, v>> \in Delimited(Given, p, "DQUOTE", QUOTABLE, "DQUOTE")
  BY <1>0, <1>2, DelimitedBack
<1> PICK d \in Delimited(Given, p, "DQUOTE", QUOTABLE, "DQUOTE") : d = <<q, v>>
  BY <1>3
<1>4. d[1] = q /\ d[2] = v
  OBVIOUS
<1>5. <<d[1], Str(d[2], cs)>> \in Quoted(Given, p, cs)
  BY DEF Quoted
<1> QED BY <1>1, <1>2, <1>4, <1>5

(* What is read of the kinds that have no parts is read as an element.     *)
LEMMA AmongElements ==
  ASSUME NEW p, NEW inner
  PROVE  /\ \A n \in Rulenames(Given, p) : <<n[1], Ref(n[2])>> \in Elements(Given, p, inner)
         /\ Quoted(Given, p, FALSE) \subseteq Elements(Given, p, inner)
         /\ Percents(Given, p) \subseteq Elements(Given, p, inner)
         /\ Proses(Given, p) \subseteq Elements(Given, p, inner)
BY DEF Elements

(* A number terminal is read where it stands.                              *)
LEMMA NumBack ==
  ASSUME Typed, NEW p
  PROVE  /\ \A v \in Seq(Values) : v # << >> /\ Stands(p, Laid(Hexes, v, <<".">>)) =>
              <<p + Len(Laid(Hexes, v, <<".">>)), Num(v)>> \in NumVals(Given, p, 16)
         /\ \A lo, hi \in Values : Stands(p, WriteHex(lo) \o <<"-">> \o WriteHex(hi)) =>
              <<p + Len(WriteHex(lo) \o <<"-">> \o WriteHex(hi)), Span(lo, hi)>> \in NumVals(Given, p, 16)
<1>0. 16 \in Radixes /\ "-" \in Ascii
  BY Signs DEF Radixes
<1>r. ASSUME p \in 0 .. End
      PROVE  \A z : z \in NumVals(Given, p, 16) <=>
               \/ \E d \in Dotted(Given, p, 16) : z = <<d[1], Num(d[2])>>
               \/ \E lo \in Numbers(Given, p, 16) :
                    Peek(lo[1]) = "-" /\ \E hi \in Numbers(Given, lo[1] + 1, 16) : z = <<hi[1], Span(lo[2], hi[2])>>
  BY <1>0, <1>r, NumValsAre
<1>p. \A w : Stands(p, w) => p \in 0 .. End
  BY DEF Stands
<1>1. ASSUME NEW v \in Seq(Values), v # << >>, Stands(p, Laid(Hexes, v, <<".">>))
      PROVE  <<p + Len(Laid(Hexes, v, <<".">>)), Num(v)>> \in NumVals(Given, p, 16)
  <2>q. PICK q : q = p + Len(Laid(Hexes, v, <<".">>))
    OBVIOUS
  <2>1. <<q, v>> \in Dotted(Given, p, 16)
    BY <1>1, <2>q, DottedBack
  <2>d. PICK d \in Dotted(Given, p, 16) : d = <<q, v>>
    BY <2>1
  <2>2. d[1] = q /\ d[2] = v
    BY <2>d
  <2>3. <<d[1], Num(d[2])>> \in NumVals(Given, p, 16)
    BY <1>1, <1>p, <1>r
  <2> QED BY <2>2, <2>3, <2>q
<1>2. ASSUME NEW lo \in Values, NEW hi \in Values, Stands(p, WriteHex(lo) \o <<"-">> \o WriteHex(hi))
      PROVE  <<p + Len(WriteHex(lo) \o <<"-">> \o WriteHex(hi)), Span(lo, hi)>> \in NumVals(Given, p, 16)
  <2>a. PICK a : a = WriteHex(lo)
    OBVIOUS
  <2>b. PICK b : b = WriteHex(hi)
    OBVIOUS
  <2>c. PICK c : c = <<"-">>
    OBVIOUS
  <2>w. PICK w : w = a \o c
    OBVIOUS
  <2>1. a \in Text /\ b \in Text /\ c \in Text /\ w \in Text
    BY <1>0, <2>a, <2>b, <2>c, <2>w, NumbersWritten, ValuesFacts
  <2>2. Stands(p, w \o b)
    BY <1>2, <2>a, <2>b, <2>c, <2>w
  <2>3. Stands(p, w) /\ Stands(p + Len(w), b) /\ p + Len(w \o b) = (p + Len(w)) + Len(b)
    BY <2>1, <2>2, StandsBoth
  <2>m. PICK m : m = p + Len(a)
    OBVIOUS
  <2>4. Stands(p, a) /\ Stands(m, c) /\ p + Len(w) = m + Len(c)
    BY <2>1, <2>3, <2>w, <2>m, StandsBoth
  <2>5. Peek(m) = "-" /\ m + Len(c) = m + 1
    BY <1>0, <2>4, <2>c, StandsOne
  <2>6. Stands(m + 1, b) /\ p + Len(w \o b) = (m + 1) + Len(b)
    BY <2>3, <2>4, <2>5
  <2>7. <<m, lo>> \in Numbers(Given, p, 16)
    BY <2>4, <2>a, <2>m, NumberBack
  <2>8. <<(m + 1) + Len(b), hi>> \in Numbers(Given, m + 1, 16)
    BY <2>6, <2>b, NumberBack
  <2>l. PICK l \in Numbers(Given, p, 16) : l = <<m, lo>>
    BY <2>7
  <2>9. l[1] = m /\ l[2] = lo
    BY <2>l
  <2>h. PICK h \in Numbers(Given, m + 1, 16) : h = <<(m + 1) + Len(b), hi>>
    BY <2>8
  <2>10. h[1] = (m + 1) + Len(b) /\ h[2] = hi
    BY <2>h
  <2>11. <<h[1], Span(l[2], h[2])>> \in NumVals(Given, p, 16)
    <3>1. h \in Numbers(Given, l[1] + 1, 16) /\ Peek(l[1]) = "-"
      BY <2>5, <2>9
    <3> QED BY <1>2, <1>p, <1>r, <3>1
  <2> QED BY <2>6, <2>9, <2>10, <2>11, <2>a, <2>b, <2>c, <2>w
<1> QED BY <1>1, <1>2

(* A leaf is read where it stands, whatever its parts are said to be.      *)
LEMMA LeafBack ==
  ASSUME Typed, NEW x \in Leaves, NEW s, NEW inner, NEW p, Stands(p, BareOf(x, s))
  PROVE  <<p + Len(BareOf(x, s)), x>> \in Elements(Given, p, inner)
<1> DEFINE quote == <<"DQUOTE">>
           percent == <<"%", "s">>
           hex == <<"%", "x">>
           dash == <<"-">>
           dot == <<".">>
           open == <<"<">>
           shut == <<">">>
<1>s. quote \in Text /\ hex \in Text /\ dash \in Text /\ dot \in Text /\ percent \in Text
  BY SignsWritten
<1>c. \A b, c \in Text : b \o c \in Text
  BY NumbersWritten
<1> PICK E : E = Elements(Given, p, inner)
  OBVIOUS
<1>e. /\ \A n \in Rulenames(Given, p) : <<n[1], Ref(n[2])>> \in E
      /\ Quoted(Given, p, FALSE) \subseteq E /\ Percents(Given, p) \subseteq E /\ Proses(Given, p) \subseteq E
  BY AmongElements
<1>1. ASSUME NEW n \in Names, x = Ref(n) PROVE <<p + Len(BareOf(x, s)), x>> \in E
  <2>1. BareOf(x, s) = n
    BY <1>1 DEF BareOf, Ref
  <2>2. <<p + Len(n), n>> \in Rulenames(Given, p)
    BY <2>1, NameBack
  <2>z. PICK z \in Rulenames(Given, p) : z = <<p + Len(n), n>>
    BY <2>2
  <2>3. z[1] = p + Len(n) /\ z[2] = n
    BY <2>z
  <2>4. <<z[1], Ref(z[2])>> \in E
    BY <1>e
  <2> QED BY <1>1, <2>1, <2>3, <2>4
<1>2. ASSUME NEW v \in Seq(QUOTABLE), x = Str(v, FALSE) PROVE <<p + Len(BareOf(x, s)), x>> \in E
  <2>1. BareOf(x, s) = << >> \o quote \o v \o quote
    BY <1>2 DEF BareOf, Str, WriteCharVal
  <2>2. << >> \o quote = quote
    <3> HIDE DEF quote
    <3> QED BY <1>s, ConcatEmptySeq DEF Text
  <2>3. BareOf(x, s) = quote \o v \o quote
    <3> HIDE DEF quote
    <3> QED BY <2>1, <2>2
  <2>4. <<p + Len(BareOf(x, s)), Str(v, FALSE)>> \in Quoted(Given, p, FALSE)
    BY <2>3, QuotedBack
  <2> QED BY <1>2, <1>e, <2>4
<1>3. ASSUME NEW v \in Seq(QUOTABLE), x = Str(v, TRUE) PROVE <<p + Len(BareOf(x, s)), x>> \in E
  <2>1. BareOf(x, s) = percent \o quote \o v \o quote
    BY <1>3 DEF BareOf, Str, WriteCharVal
  <2>v. v \in Text
    <3>1. \A i \in 1 .. Len(v) : v[i] \in QUOTABLE
      OBVIOUS
    <3>2. \A i \in 1 .. Len(v) : v[i] \in Ascii
      BY <3>1, Signs
    <3>3. v \in Seq(Ascii)
      BY <3>2, Within
    <3> QED BY <3>3 DEF Text
  <2>w. PICK w : w = quote \o v \o quote
    OBVIOUS
  <2>2. BareOf(x, s) = percent \o w /\ w \in Text
    <3> HIDE DEF quote, percent
    <3>0. quote \in Seq(Ascii) /\ percent \in Seq(Ascii) /\ v \in Seq(Ascii)
      BY <1>s, <2>v DEF Text
    <3>1. quote \o v \in Seq(Ascii) /\ w \in Text
      BY <1>c, <1>s, <2>v, <2>w DEF Text
    <3>2. (percent \o quote) \o v = percent \o (quote \o v)
      BY <3>0, ConcatAssociative
    <3>a. PICK a : a = quote \o v
      OBVIOUS
    <3>3. (percent \o a) \o quote = percent \o (a \o quote)
      BY <3>0, <3>1, <3>a, ConcatAssociative
    <3> QED BY <2>1, <2>w, <3>1, <3>2, <3>3, <3>a
  <2>3. /\ Stands(p + 2, w) /\ p + Len(BareOf(x, s)) = (p + 2) + Len(w)
        /\ Percents(Given, p) = Quoted(Given, p + 2, TRUE)
    BY <2>2, PercentBack
  <2>4. <<(p + 2) + Len(w), Str(v, TRUE)>> \in Quoted(Given, p + 2, TRUE)
    BY <2>3, <2>w, QuotedBack
  <2> QED BY <1>3, <1>e, <2>3, <2>4
<1>4. ASSUME NEW v \in Seq(Values) \ {<< >>}, x = Num(v) PROVE <<p + Len(BareOf(x, s)), x>> \in E
  <2>1. x.kind = "num" /\ x.range = FALSE /\ x.value = [i \in DOMAIN v |-> [lo |-> v[i], hi |-> v[i]]]
    BY <1>4 DEF Num
  <2>2. BareOf(x, s) = WriteNumVal(x)
    BY <2>1 DEF BareOf
  <2>3. [i \in DOMAIN x.value |-> WriteHex(x.value[i].lo)] = [i \in DOMAIN v |-> Hexes[v[i]]]
    <3>1. \A i \in DOMAIN v : v[i] \in Values
      OBVIOUS
    <3>2. \A i \in DOMAIN v : Hexes[v[i]] = WriteHex(v[i])
      BY <3>1 DEF Hexes
    <3>3. [i \in DOMAIN x.value |-> WriteHex(x.value[i].lo)] = [i \in DOMAIN v |-> WriteHex(v[i])]
      BY <2>1
    <3> QED BY <3>2, <3>3
  <2>w. PICK w : w = Laid(Hexes, v, dot)
    OBVIOUS
  <2>4. BareOf(x, s) = hex \o w
    BY <2>1, <2>2, <2>3, <2>w DEF WriteNumVal, Laid
  <2>5. w \in Text
    <3>1. \A n \in Values : WriteHex(n) \in Text
      BY NumbersWritten, ValuesFacts
    <3>2. Hexes \in [Values -> Text]
      BY <3>1 DEF Hexes
    <3> HIDE DEF dot
    <3> QED BY <1>s, <2>w, <3>2, LaidTyped
  <2>6. /\ Stands(p + 2, w) /\ p + Len(BareOf(x, s)) = (p + 2) + Len(w)
        /\ Percents(Given, p) = NumVals(Given, p + 2, 16)
    BY <2>4, <2>5, PercentBack
  <2>7. <<(p + 2) + Len(w), Num(v)>> \in NumVals(Given, p + 2, 16)
    BY <2>6, <2>w, NumBack
  <2> QED BY <1>4, <1>e, <2>6, <2>7
<1>5. ASSUME NEW lo \in Values, NEW hi \in Values, x = Span(lo, hi) PROVE <<p + Len(BareOf(x, s)), x>> \in E
  <2>1. x.kind = "num" /\ x.range = TRUE /\ x.value[1].lo = lo /\ x.value[1].hi = hi
    BY <1>5 DEF Span
  <2>2. BareOf(x, s) = WriteNumVal(x)
    BY <2>1 DEF BareOf
  <2>w. PICK w : w = WriteHex(lo) \o dash \o WriteHex(hi)
    OBVIOUS
  <2>3. BareOf(x, s) = hex \o w
    BY <2>1, <2>2, <2>w DEF WriteNumVal
  <2>4. w \in Text
    <3> HIDE DEF dash
    <3>1. WriteHex(lo) \in Text /\ WriteHex(hi) \in Text
      BY NumbersWritten, ValuesFacts
    <3> QED BY <1>c, <1>s, <2>w, <3>1
  <2>5. /\ Stands(p + 2, w) /\ p + Len(BareOf(x, s)) = (p + 2) + Len(w)
        /\ Percents(Given, p) = NumVals(Given, p + 2, 16)
    BY <2>3, <2>4, PercentBack
  <2>6. <<(p + 2) + Len(w), Span(lo, hi)>> \in NumVals(Given, p + 2, 16)
    BY <2>5, <2>w, NumBack
  <2> QED BY <1>5, <1>e, <2>5, <2>6
<1>6. ASSUME NEW v \in Seq(PROSE), x = ProseVal(v) PROVE <<p + Len(BareOf(x, s)), x>> \in E
  <2>1. BareOf(x, s) = open \o v \o shut
    BY <1>6 DEF BareOf, ProseVal
  <2>0. "<" \in Ascii /\ ">" \in Ascii /\ PROSE \subseteq Ascii
    BY Signs
  <2>v. v \in Text
    <3>1. \A i \in 1 .. Len(v) : v[i] \in PROSE
      OBVIOUS
    <3>2. \A i \in 1 .. Len(v) : v[i] \in Ascii
      BY <2>0, <3>1
    <3>3. v \in Seq(Ascii)
      BY <3>2, Within
    <3> QED BY <3>3 DEF Text
  <2>q. PICK q : q = ((p + 1) + Len(v)) + 1
    OBVIOUS
  <2>2. /\ Stands(p, open) /\ Stands(p + 1, v) /\ Stands((p + 1) + Len(v), shut)
        /\ p + Len(BareOf(x, s)) = q
    BY <2>0, <2>1, <2>v, <2>q, Bracketed
  <2>3. <<q, v>> \in Delimited(Given, p, "<", PROSE, ">")
    BY <2>0, <2>2, <2>q, DelimitedBack
  <2>d. PICK d \in Delimited(Given, p, "<", PROSE, ">") : d = <<q, v>>
    BY <2>3
  <2>4. d[1] = q /\ d[2] = v
    BY <2>d
  <2>5. <<d[1], ProseVal(d[2])>> \in Proses(Given, p)
    BY DEF Proses
  <2> QED BY <1>6, <1>e, <2>2, <2>4, <2>5
<1>7. \/ \E n \in Names : x = Ref(n)
      \/ \E v \in Seq(QUOTABLE), c \in BOOLEAN : x = Str(v, c)
      \/ \E v \in Seq(Values) \ {<< >>} : x = Num(v)
      \/ \E lo, hi \in Values : x = Span(lo, hi)
      \/ \E n \in Seq(PROSE) : x = ProseVal(n)
  BY DEF Leaves
<1> HIDE DEF quote, percent, hex, dash, dot, open, shut
<1> QED BY <1>1, <1>2, <1>3, <1>4, <1>5, <1>6, <1>7

(* How the text can be read from a position, from how it can be read from  *)
(* others: what items, branches and what is in brackets are made of, where *)
(* what separates them is as the printer writes it.                        *)
LEMMA Agreeing ==
  ASSUME Typed, NEW p \in 0 .. End
  PROVE  /\ \A s \in p + 1 .. End : Agrees(Descent, Expansions(Given), s)
         /\ \A s \in p + 1 .. End : \A z \in Expansions(Given)[s].branches : z[1] \in s + 1 .. End
         /\ \A z \in Repetitions(Given, p, Expansions(Given)) : z = <<z[1], z[2]>> /\ z[1] \in p + 1 .. End
         /\ \A z \in Expansions(Given)[p].items : z = <<z[1], z[2]>> /\ z[1] \in p + 1 .. End
         /\ \A z \in Expansions(Given)[p].branches : z = <<z[1], z[2]>> /\ z[1] \in p + 1 .. End
<1> PICK X : X = Expansions(Given)
  OBVIOUS
<1>1. \A s \in 0 .. End : Agrees(Descent, X, s)
  BY DescentFinds
<1>2. \A s \in p + 1 .. End : s \in 0 .. End
  BY PeekFacts
<1>3. \A s \in p + 1 .. End : Agrees(Descent, X, s)
  BY <1>1, <1>2
<1>4. \A s \in p + 1 .. End : \A z \in X[s].branches : z[1] \in s + 1 .. End
  BY <1>3 DEF Agrees, Finds
<1>5. Finds(Repetition(p, Descent), Repetitions(Given, p, X), p, Trees, Stops)
  BY <1>3, RepetitionFacts
<1>6. \A z \in Repetitions(Given, p, X) : z = <<z[1], z[2]>> /\ z[1] \in p + 1 .. End
  BY <1>5 DEF Finds
<1>7. Agrees(Descent, X, p)
  BY <1>1
<1>8. /\ \A z \in X[p].items : z = <<z[1], z[2]>> /\ z[1] \in p + 1 .. End
      /\ \A z \in X[p].branches : z = <<z[1], z[2]>> /\ z[1] \in p + 1 .. End
  BY <1>7 DEF Agrees, Finds
<1> QED BY <1>3, <1>4, <1>6, <1>8

(* What the printer separates things by.                                   *)
Space == " "

(* A space is a white space that nothing need follow: of CWsp and          *)
(* StarCWspEnds.                                                           *)
LEMMA SpaceFacts ==
  ASSUME Typed, NEW p \in 0 .. End, Peek(p) = Space
  PROVE  CWsp(p) = p + 1 /\ p + 1 \in 0 .. End /\ p + 1 \in StarCWspEnds(Given, p + 1) /\ p + 1 \in StarCWspEnds(Given, p)
<1>0. Peek(p) \in WSP
  <2>1. Space \in WSP
    BY DEF WSP, Space
  <2> QED BY <2>1
<1>1. CWsp(p) = p + 1 /\ CWsp(p) \in p .. End /\ CWspEnds(Given, p) = IF CWsp(p) = p THEN {} ELSE {CWsp(p)}
  BY <1>0, CWspFacts
<1>n. End \in Nat
  BY PeekFacts
<1>2. p \in Nat /\ p + 1 # p /\ p + 1 \in 0 .. End
  BY <1>1, <1>n
<1>3. p + 1 \in StarCWspEnds(Given, p + 1)
  BY <1>2, StarEndsIs
<1>4. StarCWspEnds(Given, p) = {p} \cup UNION {StarCWspEnds(Given, s) : s \in CWspEnds(Given, p)}
  BY StarEndsIs
<1>5. CWspEnds(Given, p) = {p + 1}
  BY <1>1, <1>2
<1>6. p + 1 \in StarCWspEnds(Given, p)
  BY <1>3, <1>4, <1>5
<1> QED BY <1>1, <1>2, <1>3, <1>6

(* An item is a list of items of its own, and after a space goes before    *)
(* another list.                                                           *)
LEMMA ItemsMore ==
  ASSUME Typed, NEW p \in 0 .. End, NEW q, NEW x, <<q, x>> \in Repetitions(Given, p, Expansions(Given))
  PROVE  /\ <<q, <<x>>>> \in Expansions(Given)[p].items
         /\ q \in 0 .. End /\ Peek(q) = Space => \A e, t : <<e, t>> \in Expansions(Given)[q + 1].items =>
                                    <<e, <<x>> \o t>> \in Expansions(Given)[p].items
<1> PICK X : X = Expansions(Given)
  OBVIOUS
<1>k. PICK k \in Repetitions(Given, p, X) : k = <<q, x>>
  OBVIOUS
<1>n. End \in Nat
  BY PeekFacts
<1>1. k[1] = q /\ k[2] = x
  BY <1>k
<1>2. \A z : z \in ItemLists(Given, p, X) <=> \E i \in Repetitions(Given, p, X) : FirstItem(z, i, X)
  BY Agreeing, ItemListsAre
<1>3. X[p] = Expanded(p, X)
  BY Descending
<1>4. X[p].items = ItemLists(Given, p, X)
  BY <1>3 DEF Expanded
<1>5. \A z : FirstItem(z, k, X) => z \in X[p].items
  BY <1>2, <1>4
<1>6. <<q, <<x>>>> \in X[p].items
  <2>1. FirstItem(<<q, <<x>>>>, k, X)
    BY <1>1 DEF FirstItem
  <2> QED BY <1>5, <2>1
<1>7. ASSUME q \in 0 .. End, Peek(q) = Space, NEW e, NEW t, <<e, t>> \in X[q + 1].items
      PROVE  <<e, <<x>> \o t>> \in X[p].items
  <2>1. CWsp(q) = q + 1 /\ q + 1 \in StarCWspEnds(Given, q + 1)
    BY <1>7, SpaceFacts
  <2>2. CWsp(q) # q
    <3>1. q + 1 # q
      BY <1>7, <1>n
    <3> QED BY <2>1, <3>1
  <2>m. PICK m \in X[q + 1].items : m = <<e, t>>
    BY <1>7
  <2>3. m[1] = e /\ m[2] = t
    BY <2>m
  <2>z. PICK z : z = <<m[1], <<k[2]>> \o m[2]>>
    OBVIOUS
  <2>s. CWsp(k[1]) # k[1] /\ q + 1 \in StarCWspEnds(Given, CWsp(k[1]))
    BY <1>1, <2>1, <2>2
  <2>4. FirstItem(z, k, X)
    BY <2>s, <2>z DEF FirstItem
  <2>5. z \in X[p].items
    BY <1>5, <2>4
  <2> QED BY <1>1, <2>3, <2>5, <2>z
<1> QED BY <1>6, <1>7

(* Items are a branch, and before a bar the first of more branches.        *)
LEMMA BranchesMore ==
  ASSUME Typed, NEW p \in 0 .. End, NEW q, NEW s, <<q, s>> \in Expansions(Given)[p].items
  PROVE  LET x == UnwrapSingle(s, "concat")
         IN  /\ <<q, <<x>>>> \in Expansions(Given)[p].branches
             /\ q \in 0 .. End /\ Peek(q) = Space /\ Peek(q + 1) = "/" /\ Peek(q + 2) = Space =>
                  \A e, t : <<e, t>> \in Expansions(Given)[q + 3].branches =>
                    <<e, <<x>> \o t>> \in Expansions(Given)[p].branches
<1> PICK X : X = Expansions(Given)
  OBVIOUS
<1>x. PICK x : x = UnwrapSingle(s, "concat")
  OBVIOUS
<1>c. PICK c \in X[p].items : c = <<q, s>>
  OBVIOUS
<1>n. End \in Nat
  BY PeekFacts
<1>1. c[1] = q /\ c[2] = s
  BY <1>c
<1>2. X[p] = Expanded(p, X)
  BY Descending
<1>3. X[p].items = ItemLists(Given, p, X) /\ X[p].branches = BranchLists(Given, X[p].items, X)
  BY <1>2 DEF Expanded
<1>i. \A i \in X[p].items : i[1] \in p + 1 .. End
  BY Agreeing
<1>4. \A z : z \in BranchLists(Given, X[p].items, X) <=> \E i \in X[p].items : FirstBranch(z, i, X)
  BY <1>i, BranchListsAre
<1>5. \A z : FirstBranch(z, c, X) => z \in X[p].branches
  BY <1>3, <1>4
<1>6. <<q, <<x>>>> \in X[p].branches
  <2>1. FirstBranch(<<q, <<x>>>>, c, X)
    BY <1>1, <1>x DEF FirstBranch
  <2> QED BY <1>5, <2>1
<1>7. ASSUME q \in 0 .. End, Peek(q) = Space, Peek(q + 1) = "/", Peek(q + 2) = Space,
             NEW e, NEW t, <<e, t>> \in X[q + 3].branches
      PROVE  <<e, <<x>> \o t>> \in X[p].branches
  <2>0. q \in Nat /\ (q + 1) + 1 = q + 2 /\ (q + 2) + 1 = q + 3
    BY <1>7, <1>n
  <2>1. CWsp(q) = q + 1 /\ q + 1 \in 0 .. End
    BY <1>7, SpaceFacts
  <2>2. "/" \notin Blanks
    BY DEF Blanks, WSP, Breaks
  <2>3. StarCWsp(q + 1) = q + 1
    BY <1>7, <2>1, <2>2, StarStops
  <2>4. StarCWsp(q) = q + 1
    BY <1>7, <2>1, <2>3, StarFacts
  <2>5. q + 2 \in 0 .. End
    <3>0. Peek(q + 2) # "END"
      <4>1. Space # "END"
        BY DEF Space
      <4> QED BY <1>7, <4>1
    <3>1. Peek(q + 2) # "END" /\ q + 2 \in Nat
      BY <2>0, <3>0
    <3>2. ~(q + 2 >= End)
      BY <3>1, PeekFacts
    <3> QED BY <1>n, <3>1, <3>2
  <2>6. q + 3 \in StarCWspEnds(Given, q + 2)
    BY <1>7, <2>0, <2>5, SpaceFacts
  <2>m. PICK m \in X[q + 3].branches : m = <<e, t>>
    BY <1>7
  <2>7. m[1] = e /\ m[2] = t
    BY <2>m
  <2>z. PICK z : z = <<m[1], <<x>> \o m[2]>>
    OBVIOUS
  <2>8. Peek(StarCWsp(c[1])) = "/" /\ StarCWsp(c[1]) + 1 = q + 2
    BY <1>1, <1>7, <2>0, <2>4
  <2>s. q + 3 \in StarCWspEnds(Given, StarCWsp(c[1]) + 1)
    BY <2>6, <2>8
  <2>u. z = <<m[1], <<UnwrapSingle(c[2], "concat")>> \o m[2]>>
    BY <1>1, <1>x, <2>z
  <2>9. FirstBranch(z, c, X)
    BY <2>8, <2>s, <2>u DEF FirstBranch
  <2>10. z \in X[p].branches
    BY <1>5, <2>9
  <2> QED BY <2>7, <2>10, <2>z
<1> QED BY <1>6, <1>7, <1>x

(* A body between a delimiter and the one that closes it is what they      *)
(* enclose.                                                                *)
LEMMA EnclosedMore ==
  ASSUME Typed, NEW p \in 0 .. End, NEW open \in {"(", "["}, NEW close \in Closers, Peek(p) = open,
         p + 1 \in 0 .. End, NEW q, NEW s, <<q, s>> \in Expansions(Given)[p + 1].branches, Peek(q) = close
  PROVE  <<q + 1, UnwrapSingle(s, "alt")>> \in Enclosures(Given, p, open, close, Expansions(Given))
<1>x. PICK X : X = Expansions(Given)
  OBVIOUS
<1>b. PICK b \in X[p + 1].branches : b = <<q, s>>
  BY <1>x
<1>1. b[1] = q /\ b[2] = s
  BY <1>b
<1>2. \A i \in p + 1 .. End : \A z \in X[i].branches : z[1] \in i + 1 .. End
  BY <1>x, Agreeing
<1>3. \A z : z \in Enclosures(Given, p, open, close, X) <=>
        \E i \in StarCWspEnds(Given, p + 1) : \E a \in X[i].branches :
          Peek(StarCWsp(a[1])) = close /\ z = <<StarCWsp(a[1]) + 1, UnwrapSingle(a[2], "alt")>>
  BY <1>2, EnclosuresAre
<1>4. p + 1 \in StarCWspEnds(Given, p + 1)
  BY StarEndsIs
<1>5. q \in 0 .. End
  <2>1. End \in Nat
    BY PeekFacts
  <2>2. q \in (p + 1) + 1 .. End
    <3>1. \A z \in X[p + 1].branches : z[1] \in (p + 1) + 1 .. End
      BY <1>x, Agreeing
    <3> QED BY <1>1, <3>1
  <2> QED BY <2>1, <2>2
<1>6. StarCWsp(q) = q
  <2>1. close \notin Blanks
    BY DEF Blanks, Breaks, WSP, Closers
  <2> QED BY <1>5, <2>1, StarStops
<1>7. Peek(StarCWsp(b[1])) = close /\ <<q + 1, UnwrapSingle(s, "alt")>> = <<StarCWsp(b[1]) + 1, UnwrapSingle(b[2], "alt")>>
  BY <1>1, <1>6
<1> QED BY <1>3, <1>4, <1>7, <1>x

(* What is enclosed is an element, an element is an item, and so is one    *)
(* with bounds before it.                                                  *)
LEMMA AmongMore ==
  ASSUME NEW p, NEW x
  PROVE  /\ Enclosures(Given, p, "(", ")", x) \subseteq Elements(Given, p, x)
         /\ \A o \in Enclosures(Given, p, "[", "]", x) : <<o[1], Opt(o[2])>> \in Elements(Given, p, x)
         /\ Elements(Given, p, x) \subseteq Repetitions(Given, p, x)
         /\ \A r \in Repeats(Given, p) : \A e \in Elements(Given, r[1], x) :
              <<e[1], Repeat(r[2].min, r[2].max, e[2])>> \in Repetitions(Given, p, x)
<1>1. /\ Enclosures(Given, p, "(", ")", x) \subseteq Elements(Given, p, x)
      /\ \A o \in Enclosures(Given, p, "[", "]", x) : <<o[1], Opt(o[2])>> \in Elements(Given, p, x)
  BY DEF Elements
<1>2. /\ Elements(Given, p, x) \subseteq Repetitions(Given, p, x)
      /\ \A r \in Repeats(Given, p) : \A e \in Elements(Given, r[1], x) :
              <<e[1], Repeat(r[2].min, r[2].max, e[2])>> \in Repetitions(Given, p, x)
  BY DEF Repetitions
<1> QED BY <1>1, <1>2

-----------------------------------------------------------------------------
(* Wherever `w` stands it can be read as `x`: as an element, an item of a  *)
(* branch, a branch of a body, a body.                                     *)
AsElement(x, w) ==
  \A p : Stands(p, w) => <<p + Len(w), x>> \in Elements(Given, p, Expansions(Given))
AsItem(x, w) ==
  \A p : Stands(p, w) => <<p + Len(w), x>> \in Repetitions(Given, p, Expansions(Given))
AsBranch(x, w) ==
  \A p : Stands(p, w) => \E s : /\ <<p + Len(w), s>> \in Expansions(Given)[p].items
                               /\ UnwrapSingle(s, "concat") = x
AsBody(x, w) ==
  \A p : Stands(p, w) => \E s : /\ <<p + Len(w), s>> \in Expansions(Given)[p].branches
                               /\ UnwrapSingle(s, "alt") = x

(* A list of one is unwrapped to the one: of UnwrapSingle in Ast.tla.      *)
LEMMA OneUnwrapped == \A x, kind : UnwrapSingle(<<x>>, kind) = x
BY DEF UnwrapSingle

(* What is one is the next.                                                *)
LEMMA Rising ==
  ASSUME Typed, NEW x, NEW w \in Text
  PROVE  /\ AsElement(x, w) => AsItem(x, w)
         /\ AsItem(x, w) => AsBranch(x, w)
         /\ AsBranch(x, w) => AsBody(x, w)
<1>p. \A p : Stands(p, w) => p \in 0 .. End
  BY DEF Stands
<1>1. ASSUME AsElement(x, w) PROVE AsItem(x, w)
  BY <1>1, AmongMore DEF AsElement, AsItem
<1>2. ASSUME AsItem(x, w) PROVE AsBranch(x, w)
  <2> SUFFICES ASSUME NEW p, Stands(p, w)
               PROVE  \E s : <<p + Len(w), s>> \in Expansions(Given)[p].items /\ UnwrapSingle(s, "concat") = x
    BY DEF AsBranch
  <2>1. <<p + Len(w), x>> \in Repetitions(Given, p, Expansions(Given))
    BY <1>2 DEF AsItem
  <2>2. <<p + Len(w), <<x>>>> \in Expansions(Given)[p].items
    BY <1>p, <2>1, ItemsMore
  <2> QED BY <2>2, OneUnwrapped
<1>3. ASSUME AsBranch(x, w) PROVE AsBody(x, w)
  <2> SUFFICES ASSUME NEW p, Stands(p, w)
               PROVE  \E s : <<p + Len(w), s>> \in Expansions(Given)[p].branches /\ UnwrapSingle(s, "alt") = x
    BY DEF AsBody
  <2>1. PICK s : <<p + Len(w), s>> \in Expansions(Given)[p].items /\ UnwrapSingle(s, "concat") = x
    BY <1>3 DEF AsBranch
  <2>2. <<p + Len(w), <<x>>>> \in Expansions(Given)[p].branches
    BY <1>p, <2>1, BranchesMore
  <2> QED BY <2>2, OneUnwrapped
<1> QED BY <1>1, <1>2, <1>3

(* And in brackets a body is an element.                                   *)
LEMMA InBrackets ==
  ASSUME Typed, NEW x, NEW w \in Text, AsBody(x, w)
  PROVE  AsElement(x, <<"(">> \o w \o <<")">>) /\ AsElement(Opt(x), <<"[">> \o w \o <<"]">>)
<1>0. "(" \in Ascii /\ ")" \in Ascii /\ "[" \in Ascii /\ "]" \in Ascii
  BY Signs
<1>1. ASSUME NEW open \in {"(", "["}, NEW close \in Closers, NEW p, Stands(p, <<open>> \o w \o <<close>>)
      PROVE  <<p + Len(<<open>> \o w \o <<close>>), x>> \in Enclosures(Given, p, open, close, Expansions(Given))
  <2>q. PICK q : q = (p + 1) + Len(w)
    OBVIOUS
  <2>0. open \in Ascii /\ close \in Ascii
    BY <1>0 DEF Closers
  <2>1. /\ Peek(p) = open /\ p \in 0 .. End /\ p + 1 \in 0 .. End
        /\ Stands(p + 1, w) /\ Peek(q) = close
        /\ p + Len(<<open>> \o w \o <<close>>) = q + 1
    BY <1>1, <2>0, <2>q, Bracketed
  <2>2. PICK s : <<q, s>> \in Expansions(Given)[p + 1].branches /\ UnwrapSingle(s, "alt") = x
    BY <2>1, <2>q DEF AsBody
  <2>3. <<q + 1, UnwrapSingle(s, "alt")>> \in Enclosures(Given, p, open, close, Expansions(Given))
    BY <2>1, <2>2, EnclosedMore
  <2> QED BY <2>1, <2>2, <2>3
<1>2. AsElement(x, <<"(">> \o w \o <<")">>)
  <2>w. PICK u : u = <<"(">> \o w \o <<")">>
    OBVIOUS
  <2>1. ASSUME NEW p, Stands(p, u) PROVE <<p + Len(u), x>> \in Elements(Given, p, Expansions(Given))
    <3>1. <<p + Len(u), x>> \in Enclosures(Given, p, "(", ")", Expansions(Given))
      BY <1>1, <2>1, <2>w DEF Closers
    <3> QED BY <3>1, AmongMore
  <2> QED BY <2>1, <2>w DEF AsElement
<1>3. AsElement(Opt(x), <<"[">> \o w \o <<"]">>)
  <2>w. PICK u : u = <<"[">> \o w \o <<"]">>
    OBVIOUS
  <2>1. ASSUME NEW p, Stands(p, u) PROVE <<p + Len(u), Opt(x)>> \in Elements(Given, p, Expansions(Given))
    <3>1. <<p + Len(u), x>> \in Enclosures(Given, p, "[", "]", Expansions(Given))
      BY <1>1, <2>1, <2>w DEF Closers
    <3>o. PICK o \in Enclosures(Given, p, "[", "]", Expansions(Given)) : o = <<p + Len(u), x>>
      BY <3>1
    <3>2. o[1] = p + Len(u) /\ o[2] = x
      BY <3>o
    <3>3. <<o[1], Opt(o[2])>> \in Elements(Given, p, Expansions(Given))
      BY AmongMore
    <3> QED BY <3>2, <3>3
  <2> QED BY <2>1, <2>w DEF AsElement
<1> QED BY <1>2, <1>3

(* What is written between the items of a branch and between branches.     *)
Gap == <<" ">>
Bar == <<" ", "/", " ">>

(* The separators are texts, and where one stands its characters do.       *)
LEMMA Separators ==
  /\ Gap \in Text /\ Bar \in Text
  /\ \A q : Typed /\ Stands(q, Gap) => q \in 0 .. End /\ q + Len(Gap) = q + 1 /\ Peek(q) = Space
  /\ \A q : Typed /\ Stands(q, Bar) =>
       q \in 0 .. End /\ q + Len(Bar) = q + 3 /\ Peek(q) = Space /\ Peek(q + 1) = "/" /\ Peek(q + 2) = Space
<1>1. Gap \in Text /\ Bar \in Text
  BY SignsWritten DEF Gap, Bar
<1>2. Gap = <<Space>> /\ Bar = <<Space, "/", Space>> /\ Space \in Ascii
  BY Signs DEF Gap, Bar, Space
<1>3. ASSUME Typed, NEW q, Stands(q, Gap) PROVE q \in 0 .. End /\ q + Len(Gap) = q + 1 /\ Peek(q) = Space
  BY <1>2, <1>3, StandsOne
<1>4. Len(Bar) = 3 /\ Bar[1] = Space /\ Bar[2] = "/" /\ Bar[3] = Space
  BY <1>2
<1>5. ASSUME Typed, NEW q, Stands(q, Bar)
      PROVE  q \in 0 .. End /\ q + Len(Bar) = q + 3 /\ Peek(q) = Space /\ Peek(q + 1) = "/" /\ Peek(q + 2) = Space
  <2>1. q \in 0 .. End /\ \A i \in 1 .. Len(Bar) : Peek(q + (i - 1)) = Bar[i]
    BY <1>1, <1>5, StandsThere
  <2>2. 1 \in 1 .. 3 /\ 2 \in 1 .. 3 /\ 3 \in 1 .. 3
    OBVIOUS
  <2>n. End \in Nat
    BY <1>5, PeekFacts
  <2>3. q + (1 - 1) = q /\ q + (2 - 1) = q + 1 /\ q + (3 - 1) = q + 2
    BY <2>1, <2>n
  <2> QED BY <1>4, <2>1, <2>2, <2>3
<1> QED BY <1>1, <1>3, <1>5

(* Items in a row are read as the branch of them.                          *)
LEMMA ConcatBack ==
  ASSUME Typed, NEW S, NEW wr \in [S -> Text], \A y \in S : AsItem(y, wr[y]), NEW s \in Seq(S), s # << >>
  PROVE  AsBranch(UnwrapSingle(s, "concat"), Laid(wr, s, Gap))
<1> DEFINE D == [p \in 0 .. End |-> Expansions(Given)[p].items]
<1>0. Gap \in Text
  BY Separators
<1>1. ASSUME NEW p \in 0 .. End, NEW x \in S, Stands(p, wr[x])
      PROVE  /\ <<p + Len(wr[x]), <<x>>>> \in D[p]
             /\ Stands(p + Len(wr[x]), Gap) =>
                  \A q : \A t \in Seq(S) : <<q, t>> \in D[(p + Len(wr[x])) + Len(Gap)] => <<q, <<x>> \o t>> \in D[p]
  <2>a. PICK a : a = p + Len(wr[x])
    OBVIOUS
  <2>d. D[p] = Expansions(Given)[p].items
    OBVIOUS
  <2>1. <<a, x>> \in Repetitions(Given, p, Expansions(Given))
    BY <1>1, <2>a DEF AsItem
  <2>2. <<a, <<x>>>> \in Expansions(Given)[p].items
    BY <2>1, ItemsMore
  <2>3. ASSUME Stands(a, Gap), NEW q, NEW t, <<q, t>> \in D[a + Len(Gap)]
        PROVE  <<q, <<x>> \o t>> \in Expansions(Given)[p].items
    <3>1. a \in 0 .. End /\ a + Len(Gap) = a + 1 /\ Peek(a) = Space /\ a + 1 \in 0 .. End
      <4>1. a \in 0 .. End /\ a + Len(Gap) = a + 1 /\ Peek(a) = Space
        BY <2>3, Separators
      <4> QED BY <4>1, SpaceFacts
    <3>2. <<q, t>> \in Expansions(Given)[a + 1].items
      BY <2>3, <3>1
    <3> QED BY <2>1, <3>1, <3>2, ItemsMore
  <2> HIDE DEF D
  <2> QED BY <2>2, <2>3, <2>a, <2>d
<1>2. Listing(D, S, wr, Gap)
  <2> HIDE DEF D
  <2> QED BY <1>1 DEF Listing
<1>w. PICK w : w = Laid(wr, s, Gap)
  OBVIOUS
<1>3. ASSUME NEW p, Stands(p, w) PROVE <<p + Len(w), s>> \in Expansions(Given)[p].items
  <2>1. <<p + Len(w), s>> \in D[p]
    <3> HIDE DEF D
    <3> QED BY <1>0, <1>2, <1>3, <1>w, ListsRead
  <2>2. p \in 0 .. End
    BY <1>3 DEF Stands
  <2> QED BY <2>1, <2>2
<1>4. AsBranch(UnwrapSingle(s, "concat"), w)
  BY <1>3 DEF AsBranch
<1> QED BY <1>4, <1>w

(* Branches in a row are read as the body of them.                         *)
LEMMA AltBack ==
  ASSUME Typed, NEW S, NEW wr \in [S -> Text], \A y \in S : AsBranch(y, wr[y]), NEW s \in Seq(S), s # << >>
  PROVE  AsBody(UnwrapSingle(s, "alt"), Laid(wr, s, Bar))
<1> DEFINE D == [p \in 0 .. End |-> Expansions(Given)[p].branches]
<1>0. Bar \in Text
  BY Separators
<1>1. ASSUME NEW p \in 0 .. End, NEW x \in S, Stands(p, wr[x])
      PROVE  /\ <<p + Len(wr[x]), <<x>>>> \in D[p]
             /\ Stands(p + Len(wr[x]), Bar) =>
                  \A q : \A t \in Seq(S) : <<q, t>> \in D[(p + Len(wr[x])) + Len(Bar)] => <<q, <<x>> \o t>> \in D[p]
  <2>a. PICK a : a = p + Len(wr[x])
    OBVIOUS
  <2>d. D[p] = Expansions(Given)[p].branches
    OBVIOUS
  <2>1. PICK u : <<a, u>> \in Expansions(Given)[p].items /\ UnwrapSingle(u, "concat") = x
    BY <1>1, <2>a DEF AsBranch
  <2>2. <<a, <<x>>>> \in Expansions(Given)[p].branches
    BY <2>1, BranchesMore
  <2>3. ASSUME Stands(a, Bar), NEW q, NEW t, <<q, t>> \in D[a + Len(Bar)]
        PROVE  <<q, <<x>> \o t>> \in Expansions(Given)[p].branches
    <3>1. a \in 0 .. End /\ a + Len(Bar) = a + 3 /\ Peek(a) = Space /\ Peek(a + 1) = "/" /\ Peek(a + 2) = Space
      BY <2>3, Separators
    <3>2. a + 3 \in 0 .. End
      <4>1. a + Len(Bar) \in 0 .. End
        BY <2>3 DEF Stands
      <4> QED BY <3>1, <4>1
    <3>3. <<q, t>> \in Expansions(Given)[a + 3].branches
      BY <2>3, <3>1, <3>2
    <3>4. \A e, v : <<e, v>> \in Expansions(Given)[a + 3].branches =>
            <<e, <<UnwrapSingle(u, "concat")>> \o v>> \in Expansions(Given)[p].branches
      BY <2>1, <3>1, BranchesMore
    <3> QED BY <2>1, <3>3, <3>4
  <2> HIDE DEF D
  <2> QED BY <2>2, <2>3, <2>a, <2>d
<1>2. Listing(D, S, wr, Bar)
  <2> HIDE DEF D
  <2> QED BY <1>1 DEF Listing
<1>w. PICK w : w = Laid(wr, s, Bar)
  OBVIOUS
<1>3. ASSUME NEW p, Stands(p, w) PROVE <<p + Len(w), s>> \in Expansions(Given)[p].branches
  <2>1. <<p + Len(w), s>> \in D[p]
    <3> HIDE DEF D
    <3> QED BY <1>0, <1>2, <1>3, <1>w, ListsRead
  <2>2. p \in 0 .. End
    BY <1>3 DEF Stands
  <2> QED BY <2>1, <2>2
<1>4. AsBody(UnwrapSingle(s, "alt"), w)
  BY <1>3 DEF AsBody
<1> QED BY <1>4, <1>w

(* Bounds are read as they are written.                                    *)
LEMMA BoundsBack ==
  ASSUME NEW lo \in Values, NEW hi \in Values \cup {None}, NEW x
  PROVE  LET w == WriteRepeat(Repeat(lo, hi, x))
         IN  /\ w \in Text
             /\ \A p : Typed /\ Stands(p, w) => <<p + Len(w), [min |-> lo, max |-> hi]>> \in Repeats(Given, p)
<1>0. "*" \in Ascii /\ lo \in Nat /\ (hi # None => hi \in Values /\ hi \in Nat) /\ lo # None
  BY Signs, ValuesFacts
<1>e. PICK e : e = Repeat(lo, hi, x)
  OBVIOUS
<1>1. e.min = lo /\ e.max = hi
  BY <1>e DEF Repeat
<1>w. PICK w : w = WriteRepeat(e)
  OBVIOUS
<1>p. \A p, u : Stands(p, u) => p \in 0 .. End
  BY DEF Stands
<1>2. CASE hi # None /\ hi = lo /\ lo # 0
  <2>1. w = Decimal(lo)
    BY <1>1, <1>2, <1>w DEF WriteRepeat
  <2>2. w \in Text
    BY <1>0, <2>1, NumbersWritten
  <2>3. ASSUME Typed, NEW p, Stands(p, w) PROVE <<p + Len(w), [min |-> lo, max |-> hi]>> \in Repeats(Given, p)
    <3>1. <<p + Len(w), lo>> \in Numbers(Given, p, 10)
      BY <2>1, <2>3, NumberBack
    <3>n. PICK n \in Numbers(Given, p, 10) : n = <<p + Len(w), lo>>
      BY <3>1
    <3>2. n[1] = p + Len(w) /\ n[2] = lo
      BY <3>n
    <3>3. <<n[1], [min |-> n[2], max |-> n[2]]>> \in Repeats(Given, p)
      BY <1>p, <2>3, RepeatsAre
    <3> QED BY <1>2, <3>2, <3>3
  <2> QED BY <2>2, <2>3, <1>e, <1>w
<1>3. CASE ~(hi # None /\ hi = lo /\ lo # 0)
  <2>b. PICK b : b = IF lo = 0 THEN << >> ELSE Decimal(lo)
    OBVIOUS
  <2>f. PICK f : f = IF hi = None THEN << >> ELSE Decimal(hi)
    OBVIOUS
  <2>c. PICK c : c = <<"*">>
    OBVIOUS
  <2>1. w = b \o c \o f
    BY <1>1, <1>3, <1>w, <2>b, <2>c, <2>f DEF WriteRepeat
  <2>2. b \in Text /\ c \in Text
    BY <1>0, <2>b, <2>c, NumbersWritten
  <2>3. f \in Text
    BY <1>0, <2>f, NumbersWritten
  <2>u. PICK u : u = b \o c
    OBVIOUS
  <2>4. u \in Text /\ w = u \o f /\ w \in Text
    BY <2>1, <2>2, <2>3, <2>u, NumbersWritten
  <2>5. ASSUME Typed, NEW p, Stands(p, w) PROVE <<p + Len(w), [min |-> lo, max |-> hi]>> \in Repeats(Given, p)
    <3>1. Stands(p, u) /\ Stands(p + Len(u), f) /\ p + Len(w) = (p + Len(u)) + Len(f)
      BY <2>3, <2>4, <2>5, StandsBoth
    <3>m. PICK m : m = p + Len(b)
      OBVIOUS
    <3>2. Stands(p, b) /\ Stands(m, c) /\ p + Len(u) = m + Len(c)
      BY <2>2, <2>5, <2>u, <3>1, <3>m, StandsBoth
    <3>3. Peek(m) = "*" /\ m + Len(c) = m + 1 /\ m \in 0 .. End
      BY <1>0, <2>5, <2>c, <3>2, StandsOne
    <3>q. PICK q : q = (m + 1) + Len(f)
      OBVIOUS
    <3>4. Stands(m + 1, f) /\ p + Len(w) = q
      BY <3>1, <3>2, <3>3, <3>q
    <3>5. <<m, IF lo = 0 THEN None ELSE lo>> \in Digitals10(p)
      <4>1. CASE lo = 0
        <5>1. b = << >>
          BY <2>b, <4>1
        <5>2. Len(b) = 0
          BY <5>1
        <5>3. p \in 0 .. End /\ End \in Nat
          BY <1>p, <2>5, PeekFacts
        <5>4. m = p
          BY <3>m, <5>2, <5>3
        <5> QED BY <4>1, <5>4 DEF Digitals10
      <4>2. CASE lo # 0
        <5>1. b = Decimal(lo)
          BY <2>b, <4>2
        <5>2. <<m, lo>> \in Numbers(Given, p, 10)
          BY <2>5, <3>2, <3>m, <5>1, NumberBack
        <5> QED BY <4>2, <5>2 DEF Digitals10
      <4> QED BY <4>1, <4>2
    <3>6. <<q, hi>> \in Digitals10(m + 1)
      <4>1. CASE hi = None
        <5>1. f = << >>
          BY <2>f, <4>1
        <5>2. Len(f) = 0
          BY <5>1
        <5>3. m \in Nat
          BY <2>5, <3>3, PeekFacts
        <5>4. q = m + 1
          BY <3>q, <5>2, <5>3
        <5> QED BY <4>1, <5>4 DEF Digitals10
      <4>2. CASE hi # None
        <5>1. f = Decimal(hi) /\ hi \in Values
          BY <1>0, <2>f, <4>2
        <5>2. <<q, hi>> \in Numbers(Given, m + 1, 10)
          BY <2>5, <3>4, <3>q, <5>1, NumberBack
        <5> QED BY <5>2 DEF Digitals10
      <4> QED BY <4>1, <4>2
    <3>l. PICK l \in Digitals10(p) : l = <<m, IF lo = 0 THEN None ELSE lo>>
      BY <3>5
    <3>h. PICK h \in Digitals10(m + 1) : h = <<q, hi>>
      BY <3>6
    <3>7. l[1] = m /\ l[2] = (IF lo = 0 THEN None ELSE lo) /\ h[1] = q /\ h[2] = hi
      BY <3>l, <3>h
    <3>8. (IF l[2] = None THEN 0 ELSE l[2]) = lo
      BY <1>0, <3>7
    <3>9. \A z : z \in Repeats(Given, p) <=>
           \/ \E n \in Numbers(Given, p, 10) : z = <<n[1], [min |-> n[2], max |-> n[2]]>>
           \/ \E y \in Digitals10(p) :
                /\ Peek(y[1]) = "*"
                /\ \E v \in Digitals10(y[1] + 1) :
                     z = <<v[1], [min |-> IF y[2] = None THEN 0 ELSE y[2], max |-> v[2]]>>
      BY <1>p, <2>5, RepeatsAre
    <3>10. h \in Digitals10(l[1] + 1) /\ Peek(l[1]) = "*"
      BY <3>3, <3>7
    <3>11. <<h[1], [min |-> IF l[2] = None THEN 0 ELSE l[2], max |-> h[2]]>> \in Repeats(Given, p)
      BY <3>9, <3>10
    <3> QED BY <3>4, <3>7, <3>8, <3>11
  <2> QED BY <2>4, <2>5, <1>e, <1>w
<1> QED BY <1>2, <1>3

(* And a repetition where its body is an element.                          *)
LEMMA RepeatBack ==
  ASSUME Typed, NEW lo \in Values, NEW hi \in Values \cup {None}, NEW x, NEW v \in Text, AsElement(x, v)
  PROVE  AsItem(Repeat(lo, hi, x), WriteRepeat(Repeat(lo, hi, x)) \o v)
<1>w. PICK w : w = WriteRepeat(Repeat(lo, hi, x))
  OBVIOUS
<1>1. w \in Text /\ \A p : Stands(p, w) => <<p + Len(w), [min |-> lo, max |-> hi]>> \in Repeats(Given, p)
  BY <1>w, BoundsBack
<1>2. ASSUME NEW p, Stands(p, w \o v)
      PROVE  <<p + Len(w \o v), Repeat(lo, hi, x)>> \in Repetitions(Given, p, Expansions(Given))
  <2>m. PICK m : m = p + Len(w)
    OBVIOUS
  <2>1. Stands(p, w) /\ Stands(m, v) /\ p + Len(w \o v) = m + Len(v)
    BY <1>1, <1>2, <2>m, StandsBoth
  <2>2. <<m, [min |-> lo, max |-> hi]>> \in Repeats(Given, p)
    BY <1>1, <2>1, <2>m
  <2>r. PICK r \in Repeats(Given, p) : r = <<m, [min |-> lo, max |-> hi]>>
    BY <2>2
  <2>3. r[1] = m /\ r[2].min = lo /\ r[2].max = hi
    BY <2>r
  <2>4. <<m + Len(v), x>> \in Elements(Given, r[1], Expansions(Given))
    BY <2>1, <2>3 DEF AsElement
  <2>e. PICK e \in Elements(Given, r[1], Expansions(Given)) : e = <<m + Len(v), x>>
    BY <2>4
  <2>5. e[1] = m + Len(v) /\ e[2] = x
    BY <2>e
  <2>6. <<e[1], Repeat(r[2].min, r[2].max, e[2])>> \in Repetitions(Given, p, Expansions(Given))
    BY AmongMore
  <2> QED BY <2>1, <2>3, <2>5, <2>6
<1> QED BY <1>2, <1>w DEF AsItem

(* How an element is written in each place, and from its parts.            *)
Bared(x) == BareOf(x, WrittenParts(x))

(* Where parentheses are written around an element, by its kind and its    *)
(* place: of WriteElement in Printer.tla.                                  *)
LEMMA WrittenIn ==
  ASSUME NEW x \in Trees
  PROVE  /\ Bared(x) \in Text
         /\ WriteElement(x, "free") = Bared(x)
         /\ WriteElement(x, "concat") = IF x.kind = "alt" THEN <<"(">> \o Bared(x) \o <<")">> ELSE Bared(x)
         /\ WriteElement(x, "repeat") = IF x.kind \in {"alt", "concat", "repeat"} THEN <<"(">> \o Bared(x) \o <<")">>
                                        ELSE Bared(x)
<1>0. "free" \in Places /\ "concat" \in Places /\ "repeat" \in Places
  BY DEF Places
<1>1. \A where \in Places : WriteElement(x, where) \in Text /\ WriteElement(x, where) = Row(x, WrittenParts(x))[where]
  BY FreelyWritten
<1>2. \A where \in Places : WriteElement(x, where)
        = IF NeedsParens(x, where) THEN <<"(">> \o Bared(x) \o <<")">> ELSE Bared(x)
  BY <1>1 DEF Row, Bared
<1>3. /\ ~NeedsParens(x, "free") /\ (NeedsParens(x, "concat") <=> x.kind = "alt")
      /\ NeedsParens(x, "repeat") <=> x.kind \in {"alt", "concat", "repeat"}
  BY DEF NeedsParens
<1>4. WriteElement(x, "free") = Bared(x)
  BY <1>0, <1>2, <1>3
<1>5. WriteElement(x, "concat") = IF x.kind = "alt" THEN <<"(">> \o Bared(x) \o <<")">> ELSE Bared(x)
  BY <1>0, <1>2, <1>3
<1>6. WriteElement(x, "repeat") = IF x.kind \in {"alt", "concat", "repeat"} THEN <<"(">> \o Bared(x) \o <<")">>
                                  ELSE Bared(x)
  BY <1>0, <1>2, <1>3
<1>7. Bared(x) \in Text
  BY <1>0, <1>1, <1>4
<1> QED BY <1>4, <1>5, <1>6, <1>7

(* What is written between them, from how its parts are written.           *)
LEMMA BaredIs ==
  ASSUME NEW x \in Trees
  PROVE  /\ x.kind = "optional" => Bared(x) = <<"[">> \o WriteElement(x.parts[1], "free") \o <<"]">>
         /\ x.kind = "repeat" => Bared(x) = WriteRepeat(x) \o WriteElement(x.parts[1], "repeat")
         /\ x.kind = "concat" => Bared(x) = Joined([i \in DOMAIN x.parts |-> WriteElement(x.parts[i], "concat")], Gap)
         /\ x.kind = "alt" => Bared(x) = Joined([i \in DOMAIN x.parts |-> WriteElement(x.parts[i], "free")], Bar)
<1>0. "free" \in Places /\ "concat" \in Places /\ "repeat" \in Places
  BY DEF Places
<1> DEFINE s == WrittenParts(x)
           at(where) == [i \in DOMAIN s |-> s[i][where]]
<1>1. \A where \in Places : at(where) = [i \in DOMAIN x.parts |-> WriteElement(x.parts[i], where)]
  <2> TAKE where \in Places
  <2>1. DOMAIN s = DOMAIN x.parts /\ \A i \in DOMAIN x.parts : s[i] = Written(x.parts[i])
    BY DEF WrittenParts
  <2>2. \A y : Written(y)[where] = WriteElement(y, where)
    BY DEF Written
  <2> HIDE DEF s
  <2> QED BY <2>1, <2>2
<1>2. ASSUME x.kind \in {"optional", "repeat"} PROVE 1 \in DOMAIN x.parts
  <2>1. Len(x.parts) = 1 /\ x.parts \in Seq(Trees)
    BY <1>2, TreesOver, OverFacts
  <2> QED BY <2>1
<1>3. CASE x.kind = "optional"
  <2>1. Bared(x) = <<"[">> \o at("free")[1] \o <<"]">>
    BY <1>3 DEF Bared, BareOf
  <2> HIDE DEF at
  <2>2. at("free")[1] = WriteElement(x.parts[1], "free")
    BY <1>0, <1>1, <1>2, <1>3
  <2> QED BY <1>3, <2>1, <2>2
<1>4. CASE x.kind = "repeat"
  <2>1. Bared(x) = WriteRepeat(x) \o at("repeat")[1]
    BY <1>4 DEF Bared, BareOf
  <2> HIDE DEF at
  <2>2. at("repeat")[1] = WriteElement(x.parts[1], "repeat")
    BY <1>0, <1>1, <1>2, <1>4
  <2> QED BY <1>4, <2>1, <2>2
<1>5. CASE x.kind = "concat"
  <2>1. Bared(x) = Joined(at("concat"), Gap)
    BY <1>5 DEF Bared, BareOf, Gap
  <2> HIDE DEF at
  <2> QED BY <1>0, <1>1, <1>5, <2>1
<1>6. CASE x.kind = "alt"
  <2>1. Bared(x) = Joined(at("free"), Bar)
    BY <1>6 DEF Bared, BareOf, Bar
  <2> HIDE DEF at
  <2> QED BY <1>0, <1>1, <1>6, <2>1
<1> HIDE DEF at, s
<1> QED BY <1>3, <1>4, <1>5, <1>6

(* How a normal element is read, written in each place.                    *)
ReadBack(x) ==
  /\ AsElement(x, WriteElement(x, "repeat"))
  /\ x.kind # "concat" => AsItem(x, WriteElement(x, "concat"))
  /\ x.kind # "alt" => AsBranch(x, WriteElement(x, "free"))
  /\ AsBody(x, WriteElement(x, "free"))

(* For each kind it is enough to read it where it stands without           *)
(* parentheses.                                                            *)
LEMMA EveryPlace ==
  ASSUME Typed, NEW x \in Trees,
         x.kind \notin {"alt", "concat", "repeat"} => AsElement(x, Bared(x)),
         x.kind = "repeat" => AsItem(x, Bared(x)),
         x.kind = "concat" => AsBranch(x, Bared(x)),
         x.kind = "alt" => AsBody(x, Bared(x))
  PROVE  ReadBack(x)
<1> PICK b : b = Bared(x)
  OBVIOUS
<1>1. b \in Text
  BY WrittenIn
<1>2. (AsElement(x, b) => AsItem(x, b)) /\ (AsItem(x, b) => AsBranch(x, b)) /\ (AsBranch(x, b) => AsBody(x, b))
  BY <1>1, Rising
<1>3. AsBody(x, b)
  BY <1>2
<1>p. PICK u : u = <<"(">> \o b \o <<")">>
  OBVIOUS
<1>4. AsElement(x, u)
  BY <1>1, <1>3, <1>p, InBrackets
<1>5. u \in Text
  <2>1. \A a, c \in Text : a \o c \in Text
    BY NumbersWritten
  <2>o. PICK o : o = <<"(">>
    OBVIOUS
  <2>c. PICK c : c = <<")">>
    OBVIOUS
  <2>2. o \in Text /\ c \in Text
    BY <2>o, <2>c, SignsWritten
  <2>3. u = o \o b \o c
    BY <1>p, <2>o, <2>c
  <2> QED BY <1>1, <2>1, <2>2, <2>3
<1>6. AsItem(x, u)
  BY <1>4, <1>5, Rising
<1>7. /\ WriteElement(x, "free") = b
      /\ WriteElement(x, "concat") = IF x.kind = "alt" THEN u ELSE b
      /\ WriteElement(x, "repeat") = IF x.kind \in {"alt", "concat", "repeat"} THEN u ELSE b
  BY <1>p, WrittenIn
<1> QED BY <1>2, <1>3, <1>4, <1>6, <1>7 DEF ReadBack

(* A list of more than one is wrapped in a node of its kind.               *)
LEMMA ManyUnwrapped ==
  ASSUME NEW s, Len(s) # 1
  PROVE  UnwrapSingle(s, "concat") = Concat(s) /\ UnwrapSingle(s, "alt") = Alt(s)
<1>1. \A kind : UnwrapSingle(s, kind) = [kind |-> kind, parts |-> s]
  BY DEF UnwrapSingle
<1>2. Concat(s) = [kind |-> "concat", parts |-> s] /\ Alt(s) = [kind |-> "alt", parts |-> s]
  BY DEF Concat, Alt
<1> QED BY <1>1, <1>2

(* Parts written in a row, as the lists of them are.                       *)
LEMMA PartsLaid ==
  ASSUME NEW x \in Trees, x.parts # << >>, NEW S, \A i \in DOMAIN x.parts : x.parts[i] \in S, S \subseteq Trees,
         NEW where \in Places, NEW sep \in Text, NEW wr, wr = [y \in S |-> WriteElement(y, where)]
  PROVE  /\ wr \in [S -> Text] /\ x.parts \in Seq(S)
         /\ Laid(wr, x.parts, sep) = Joined([i \in DOMAIN x.parts |-> WriteElement(x.parts[i], where)], sep)
<1>1. wr \in [S -> Text]
  <2>1. \A y \in S : WriteElement(y, where) \in Text
    BY FreelyWritten
  <2> QED BY <2>1
<1>2. x.parts \in Seq(Trees)
  BY TreesOver, OverFacts
<1>3. x.parts \in Seq(S)
  BY <1>2, Within
<1>4. \A i \in DOMAIN x.parts : wr[x.parts[i]] = WriteElement(x.parts[i], where)
  OBVIOUS
<1>5. Laid(wr, x.parts, sep) = Joined([i \in DOMAIN x.parts |-> WriteElement(x.parts[i], where)], sep)
  BY <1>4 DEF Laid
<1> QED BY <1>1, <1>3, <1>5

(* What is written is read back, in every place: from the parts up.        *)
LEMMA ElementBack ==
  ASSUME Typed
  PROVE  \A e \in Trees : Normal(e) => ReadBack(e)
<1> DEFINE S == {e \in Trees : Normal(e) => ReadBack(e)}
<1>p. "free" \in Places /\ "concat" \in Places /\ "repeat" \in Places
  BY DEF Places
<1>s. Gap \in Text /\ Bar \in Text
  BY Separators
<1>1. ASSUME NEW x \in Over(Trees \cap S), Normal(x) PROVE x \in Trees /\ ReadBack(x)
  <2>X. PICK X : X = Trees \cap S
    OBVIOUS
  <2>0. x \in Over(X) /\ X \subseteq Trees /\ \A y \in X : Normal(y) => ReadBack(y)
    BY <2>X
  <2> HIDE DEF S
  <2>1. x \in Trees
    BY <2>0, OverGrows, TreesOver
  <2>2. /\ Proper(x) /\ \A i \in DOMAIN x.parts : Normal(x.parts[i])
    BY <1>1, <2>1, NormalIs
  <2>3. x.parts \in Seq(X)
    BY <2>0, OverFacts
  <2>4. \A i \in DOMAIN x.parts : x.parts[i] \in X /\ x.parts[i] \in Trees /\ ReadBack(x.parts[i])
    <3>1. \A i \in DOMAIN x.parts : x.parts[i] \in X
      BY <2>3
    <3> QED BY <2>0, <2>2, <3>1
  <2>5. ASSUME x.kind \in {"optional", "repeat"} PROVE 1 \in DOMAIN x.parts
    <3>1. Len(x.parts) = 1
      BY <2>0, <2>5, OverFacts
    <3> QED BY <2>3, <3>1
  <2>6. x.kind \notin {"alt", "concat", "repeat"} => AsElement(x, Bared(x))
    <3>1. CASE x.kind = "optional"
      <4>y. PICK y : y = x.parts[1]
        OBVIOUS
      <4>1. y \in Trees /\ AsBody(y, WriteElement(y, "free")) /\ x = Opt(y)
        BY <2>0, <2>4, <2>5, <3>1, <4>y, OverFacts DEF ReadBack
      <4>2. WriteElement(y, "free") \in Text
        BY <1>p, <4>1, FreelyWritten
      <4>3. Bared(x) = <<"[">> \o WriteElement(y, "free") \o <<"]">>
        BY <2>1, <3>1, <4>y, BaredIs
      <4> QED BY <4>1, <4>2, <4>3, InBrackets
    <3>2. CASE x \in Leaves
      BY <3>2, LeafBack DEF AsElement, Bared
    <3>3. x.kind \in {"alt", "concat", "repeat", "optional"} \/ x \in Leaves
      BY <2>1, TreesOver, OverFacts
    <3> QED BY <3>1, <3>2, <3>3
  <2>7. x.kind = "repeat" => AsItem(x, Bared(x))
    <3> SUFFICES ASSUME x.kind = "repeat" PROVE AsItem(x, Bared(x))
      OBVIOUS
    <3>y. PICK y : y = x.parts[1]
      OBVIOUS
    <3>1. /\ y \in Trees /\ AsElement(y, WriteElement(y, "repeat")) 
      BY <2>4, <2>5, <3>y DEF ReadBack
    <3>2. x.min \in Values /\ x.max \in Values \cup {None} /\ x = Repeat(x.min, x.max, y)
      BY <2>0, <3>y, OverFacts
    <3>3. WriteElement(y, "repeat") \in Text
      BY <1>p, <3>1, FreelyWritten
    <3>4. Bared(x) = WriteRepeat(x) \o WriteElement(y, "repeat")
      BY <2>1, <3>y, BaredIs
    <3>5. AsItem(Repeat(x.min, x.max, y), WriteRepeat(Repeat(x.min, x.max, y)) \o WriteElement(y, "repeat"))
      BY <3>1, <3>2, <3>3, RepeatBack
    <3> QED BY <3>2, <3>4, <3>5
  <2>8. x.kind = "concat" => AsBranch(x, Bared(x))
    <3> SUFFICES ASSUME x.kind = "concat" PROVE AsBranch(x, Bared(x))
      OBVIOUS
    <3> DEFINE Y == {y \in Trees : AsItem(y, WriteElement(y, "concat"))}
    <3>w. PICK wr : wr = [y \in Y |-> WriteElement(y, "concat")]
      OBVIOUS
    <3>1. /\ x.parts # << >> /\ x = Concat(x.parts) /\ Len(x.parts) > 1
          /\ \A i \in DOMAIN x.parts : x.parts[i].kind # "concat"
      BY <2>0, <2>2, OverFacts DEF Proper
    <3>2. \A i \in DOMAIN x.parts : x.parts[i] \in Y
      BY <2>4, <3>1 DEF ReadBack
    <3>3. Y \subseteq Trees /\ \A y \in Y : AsItem(y, wr[y])
      BY <3>w
    <3>4. /\ wr \in [Y -> Text] /\ x.parts \in Seq(Y)
          /\ Laid(wr, x.parts, Gap) = Joined([i \in DOMAIN x.parts |-> WriteElement(x.parts[i], "concat")], Gap)
      <4>0. Y \subseteq Trees /\ x.parts # << >>
        BY <3>1, <3>3
      <4> HIDE DEF Y
      <4> QED BY <1>p, <1>s, <2>1, <3>2, <3>w, <4>0, PartsLaid
    <3> HIDE DEF Y
    <3>5. AsBranch(UnwrapSingle(x.parts, "concat"), Laid(wr, x.parts, Gap))
      BY <3>1, <3>3, <3>4, ConcatBack
    <3>6. UnwrapSingle(x.parts, "concat") = x
      <4>p. PICK s : s = x.parts
        OBVIOUS
      <4>n. PICK n : n = Len(s)
        OBVIOUS
      <4>1. n \in Nat /\ n > 1
        BY <2>3, <3>1, <4>n, <4>p
      <4>2. n # 1
        BY <4>1
      <4>3. UnwrapSingle(s, "concat") = Concat(s)
        BY <4>2, <4>n, ManyUnwrapped
      <4> QED BY <3>1, <4>3, <4>p
    <3>7. Bared(x) = Laid(wr, x.parts, Gap)
      BY <2>1, <3>4, BaredIs
    <3> QED BY <3>5, <3>6, <3>7
  <2>9. ASSUME x.kind = "alt" PROVE AsBody(x, Bared(x))
    <3> DEFINE Y == {y \in Trees : AsBranch(y, WriteElement(y, "free"))}
    <3>w. PICK wr : wr = [y \in Y |-> WriteElement(y, "free")]
      OBVIOUS
    <3>1. /\ x.parts # << >> /\ x = Alt(x.parts) /\ Len(x.parts) > 1
          /\ \A i \in DOMAIN x.parts : x.parts[i].kind # "alt"
      BY <2>0, <2>2, <2>9, OverFacts DEF Proper
    <3>2. \A i \in DOMAIN x.parts : x.parts[i] \in Y
      BY <2>4, <3>1 DEF ReadBack
    <3>3. Y \subseteq Trees /\ \A y \in Y : AsBranch(y, wr[y])
      BY <3>w
    <3>4. /\ wr \in [Y -> Text] /\ x.parts \in Seq(Y)
          /\ Laid(wr, x.parts, Bar) = Joined([i \in DOMAIN x.parts |-> WriteElement(x.parts[i], "free")], Bar)
      <4>0. Y \subseteq Trees /\ x.parts # << >>
        BY <3>1, <3>3
      <4> HIDE DEF Y
      <4> QED BY <1>p, <1>s, <2>1, <3>2, <3>w, <4>0, PartsLaid
    <3> HIDE DEF Y
    <3>5. AsBody(UnwrapSingle(x.parts, "alt"), Laid(wr, x.parts, Bar))
      BY <3>1, <3>3, <3>4, AltBack
    <3>6. UnwrapSingle(x.parts, "alt") = x
      <4>p. PICK s : s = x.parts
        OBVIOUS
      <4>n. PICK n : n = Len(s)
        OBVIOUS
      <4>1. n \in Nat /\ n > 1
        BY <2>3, <3>1, <4>n, <4>p
      <4>2. n # 1
        BY <4>1
      <4>3. UnwrapSingle(s, "alt") = Alt(s)
        BY <4>2, <4>n, ManyUnwrapped
      <4> QED BY <3>1, <4>3, <4>p
    <3>7. Bared(x) = Laid(wr, x.parts, Bar)
      BY <2>1, <2>9, <3>4, BaredIs
    <3> QED BY <3>5, <3>6, <3>7
  <2> QED BY <2>1, <2>6, <2>7, <2>8, <2>9, EveryPlace
<1>2. \A x \in Over(Trees \cap S) : x \in S
  <2> TAKE x \in Over(Trees \cap S)
  <2>1. Normal(x) => x \in Trees /\ ReadBack(x)
    BY <1>1
  <2>2. x \in Trees
    <3>1. Trees \cap S \subseteq Trees
      OBVIOUS
    <3> HIDE DEF S
    <3> QED BY <3>1, OverGrows, TreesOver
  <2> QED BY <2>1, <2>2
<1>3. \A x \in Trees : x \in S
  <2> HIDE DEF S
  <2> QED BY <1>2, TreeInduction
<1> QED BY <1>3

(* What stands between a name and its body.                                *)
Sign(how) == IF how = "=" THEN <<" ", "=", " ">> ELSE <<" ", "=", "/", " ">>

(* The sign of a definition is read where it stands, as far as it goes: of *)
(* DefinedAss in Grammar.tla.                                              *)
LEMMA DefinedAsBack ==
  ASSUME Typed, NEW how \in {"=", "=/"}, NEW p, Stands(p, Sign(how))
  PROVE  <<p + Len(Sign(how)), how>> \in DefinedAss(Given, p) /\ Sign(how) \in Text /\ p \in 0 .. End
<1>n. End \in Nat
  BY PeekFacts
<1>0. p \in 0 .. End
  BY DEF Stands
<1>1. Sign("=") = <<Space, "=", Space>> /\ Sign("=/") = <<Space, "=", "/", Space>>
  BY DEF Sign, Space
<1>t. Sign("=") \in Text /\ Sign("=/") \in Text
  BY SignsWritten DEF Sign
<1>e. "=" # "END" /\ "/" # "END"
  OBVIOUS
<1>2. ASSUME Peek(p) = Space, Peek(p + 1) = "=", p + 2 \in 0 .. End
      PROVE  p + 2 \in After(Given, StarCWspEnds(Given, p), "=")
  <2>1. p + 1 \in StarCWspEnds(Given, p)
    BY <1>0, <1>2, SpaceFacts
  <2>2. \A q \in StarCWspEnds(Given, p) : q \in Nat
    <3>1. \A q \in StarCWspEnds(Given, p) : q \in p .. End
      BY <1>0, StarFacts
    <3> QED BY <1>0, <1>n, <3>1
  <2>3. p + 2 = (p + 1) + 1
    BY <1>0, <1>n
  <2> QED BY <1>2, <1>e, <2>1, <2>2, <2>3, AfterFacts
<1>3. CASE how = "="
  <2>w. PICK w : w = Sign(how)
    OBVIOUS
  <2>1. Len(w) = 3 /\ w[1] = Space /\ w[2] = "=" /\ w[3] = Space /\ w \in Text
    BY <1>1, <1>3, <1>t, <2>w
  <2>2. p + Len(w) \in p .. End /\ \A i \in 1 .. Len(w) : Peek(p + (i - 1)) = w[i]
    BY <2>1, <2>w, StandsThere
  <2>3. 1 \in 1 .. 3 /\ 2 \in 1 .. 3 /\ 3 \in 1 .. 3
    OBVIOUS
  <2>4. /\ p + (1 - 1) = p /\ p + (2 - 1) = p + 1 /\ p + (3 - 1) = p + 2
        /\ (p + 2) + 1 = p + 3 /\ p + Len(w) = p + 3 /\ p + 2 \in 0 .. End
    BY <1>0, <1>n, <2>1, <2>2
  <2>5. Peek(p) = Space /\ Peek(p + 1) = "=" /\ Peek(p + 2) = Space
    BY <2>1, <2>2, <2>3, <2>4
  <2>6. p + 3 \in StarCWspEnds(Given, p + 2)
    BY <2>4, <2>5, SpaceFacts
  <2>7. p + 3 \in Separated(Given, p, "=")
    BY <1>2, <2>4, <2>5, <2>6 DEF Separated
  <2>8. <<p + 3, "=">> \in DefinedAss(Given, p)
    BY <2>7 DEF DefinedAss
  <2> QED BY <1>0, <1>3, <2>1, <2>4, <2>8, <2>w
<1>4. CASE how = "=/"
  <2>w. PICK w : w = Sign(how)
    OBVIOUS
  <2>1. Len(w) = 4 /\ w[1] = Space /\ w[2] = "=" /\ w[3] = "/" /\ w[4] = Space /\ w \in Text
    BY <1>1, <1>4, <1>t, <2>w
  <2>2. p + Len(w) \in p .. End /\ \A i \in 1 .. Len(w) : Peek(p + (i - 1)) = w[i]
    BY <2>1, <2>w, StandsThere
  <2>3. 1 \in 1 .. 4 /\ 2 \in 1 .. 4 /\ 3 \in 1 .. 4 /\ 4 \in 1 .. 4
    OBVIOUS
  <2>4. /\ p + (1 - 1) = p /\ p + (2 - 1) = p + 1 /\ p + (3 - 1) = p + 2 /\ p + (4 - 1) = p + 3
        /\ (p + 3) + 1 = p + 4 /\ p + Len(w) = p + 4 /\ p + 2 \in 0 .. End /\ p + 3 \in 0 .. End
        /\ (p + 2) + 1 = p + 3
    BY <1>0, <1>n, <2>1, <2>2
  <2>5. Peek(p) = Space /\ Peek(p + 1) = "=" /\ Peek(p + 2) = "/" /\ Peek(p + 3) = Space
    BY <2>1, <2>2, <2>3, <2>4
  <2>6. p + 4 \in StarCWspEnds(Given, p + 3)
    BY <2>4, <2>5, SpaceFacts
  <2>7. p + 2 \in After(Given, StarCWspEnds(Given, p), "=")
    BY <1>2, <2>4, <2>5
  <2>8. p + 3 \in After(Given, After(Given, StarCWspEnds(Given, p), "="), "/")
    <3>1. \A q \in After(Given, StarCWspEnds(Given, p), "=") : q \in Nat
      <4>1. \A q \in StarCWspEnds(Given, p) : q \in p .. End
        BY <1>0, StarFacts
      <4>2. \A q \in StarCWspEnds(Given, p) : q \in Nat
        BY <1>0, <1>n, <4>1
      <4>3. \A q \in After(Given, StarCWspEnds(Given, p), "=") : \E s \in StarCWspEnds(Given, p) : q = s + 1
        BY <1>e, <4>2, AfterFacts
      <4> QED BY <4>2, <4>3
    <3> QED BY <1>e, <2>4, <2>5, <2>7, <3>1, AfterFacts
  <2>9. <<p + 4, "=/">> \in DefinedAss(Given, p)
    BY <2>6, <2>8 DEF DefinedAss
  <2> QED BY <1>0, <1>4, <2>1, <2>4, <2>9, <2>w
<1> QED BY <1>3, <1>4

(* A line is ended where CR and LF stand.                                  *)
LineEnd == <<"CR", "LF">>

(* The end of a line is read where it stands, under either convention: of  *)
(* CNlEnds in Grammar.tla.                                                 *)
LEMMA LineBack ==
  ASSUME Typed, NEW p, Stands(p, LineEnd)
  PROVE  p \in Runs(Given, p, WSP) /\ p + Len(LineEnd) \in CNlEnds(Given, p) /\ p \in 0 .. End /\ p # End
<1>n. End \in Nat /\ Len(Given.text) = End
  BY PeekFacts DEF End
<1>1. LineEnd \in Text
  BY SignsWritten DEF LineEnd
<1>2. Len(LineEnd) = 2 /\ LineEnd[1] = "CR" /\ LineEnd[2] = "LF"
  BY DEF LineEnd
<1>3. p \in 0 .. End /\ p + Len(LineEnd) \in p .. End /\ \A i \in 1 .. Len(LineEnd) : Peek(p + (i - 1)) = LineEnd[i]
  BY <1>1, StandsThere
<1>4. 1 \in 1 .. 2 /\ 2 \in 1 .. 2
  OBVIOUS
<1>5. p + (1 - 1) = p /\ p + (2 - 1) = p + 1 /\ p + Len(LineEnd) = p + 2 /\ p # End /\ p \in Nat /\ p + 1 \in Nat
  BY <1>2, <1>3, <1>n
<1>6. Peek(p) = "CR" /\ Peek(p + 1) = "LF"
  BY <1>2, <1>3, <1>4, <1>5
<1>7. Here(Given, p, {"CR"}) /\ Here(Given, p + 1, {"LF"})
  <2>1. "END" \notin {"CR"} /\ "END" \notin {"LF"}
    OBVIOUS
  <2>2. (Here(Given, p, {"CR"}) <=> Peek(p) \in {"CR"}) /\ (Here(Given, p + 1, {"LF"}) <=> Peek(p + 1) \in {"LF"})
    BY <1>5, <2>1, HereFacts
  <2> QED BY <1>6, <2>2
<1>8. LineEnds(Given, p) = {p + 2}
  BY <1>7 DEF LineEnds
<1>9. p + 2 \in CNlEnds(Given, p)
  BY <1>8 DEF CNlEnds
<1>10. p \in Runs(Given, p, WSP)
  <2>1. p \in p .. Len(Given.text) /\ \A i : i \notin p .. p - 1
    BY <1>3, <1>5, <1>n
  <2> QED BY <2>1 DEF Runs
<1> QED BY <1>3, <1>5, <1>9, <1>10

(* A definition and the end of its line, as they are printed.              *)
Line(d) == WriteDefinition(d) \o LineEnd

(* The parts of a line are texts, and so is the line.                      *)
LEMMA LineWritten ==
  ASSUME NEW d \in Definitions
  PROVE  /\ d.name \in Names /\ d.name \in Text /\ d.body \in Trees /\ d.defined_as \in {"=", "=/"}
         /\ WriteElement(d.body, "free") \in Text /\ Sign(d.defined_as) \in Text /\ LineEnd \in Text
         /\ Line(d) = d.name \o Sign(d.defined_as) \o WriteElement(d.body, "free") \o LineEnd
         /\ Line(d) \in Text
<1>1. d.name \in Names /\ d.body \in Trees /\ d.defined_as \in {"=", "=/"}
  BY DEF Definitions
<1>2. d.name \in Text
  <2>1. d.name \in Seq(NameChars)
    BY <1>1 DEF Names
  <2>2. \A i \in 1 .. Len(d.name) : d.name[i] \in NameChars
    BY <2>1
  <2>3. \A i \in 1 .. Len(d.name) : d.name[i] \in Ascii
    BY <2>2, Signs
  <2>4. d.name \in Seq(Ascii)
    BY <2>1, <2>3, Within
  <2> QED BY <2>4 DEF Text
<1>3. WriteElement(d.body, "free") \in Text
  BY <1>1, WrittenIn
<1>4. Sign(d.defined_as) \in Text /\ LineEnd \in Text
  BY SignsWritten DEF Sign, LineEnd
<1>5. WriteDefinition(d) = d.name \o Sign(d.defined_as) \o WriteElement(d.body, "free")
  BY DEF WriteDefinition, Sign
<1>6. Line(d) = d.name \o Sign(d.defined_as) \o WriteElement(d.body, "free") \o LineEnd
  BY <1>5 DEF Line
<1>7. Line(d) \in Text
  <2>1. \A a, b \in Text : a \o b \in Text
    BY NumbersWritten
  <2> QED BY <1>2, <1>3, <1>4, <1>6, <2>1
<1> QED BY <1>1, <1>2, <1>3, <1>4, <1>6, <1>7

(* It is read as that definition.                                          *)
LEMMA RuleBack ==
  ASSUME Typed, NEW d \in Definitions, Normal(d.body), NEW p, Stands(p, Line(d))
  PROVE  <<p + Len(Line(d)), d>> \in RulesAt(Given, p)
<1>n. PICK n : n = d.name
  OBVIOUS
<1>h. PICK h : h = Sign(d.defined_as)
  OBVIOUS
<1>b. PICK b : b = WriteElement(d.body, "free")
  OBVIOUS
<1>u. PICK u : u = n \o h
  OBVIOUS
<1>v. PICK v : v = u \o b
  OBVIOUS
<1>1. /\ n \in Names /\ n \in Text /\ h \in Text /\ b \in Text /\ u \in Text /\ v \in Text /\ LineEnd \in Text
      /\ Line(d) = v \o LineEnd
  <2>1. \A x, y \in Text : x \o y \in Text
    BY NumbersWritten
  <2>2. /\ n \in Names /\ n \in Text /\ h \in Text /\ b \in Text /\ LineEnd \in Text
        /\ Line(d) = n \o h \o b \o LineEnd
    BY <1>n, <1>h, <1>b, LineWritten
  <2> QED BY <1>u, <1>v, <2>1, <2>2
<1>2. Stands(p, v) /\ Stands(p + Len(v), LineEnd) /\ p + Len(Line(d)) = (p + Len(v)) + Len(LineEnd)
  BY <1>1, StandsBoth
<1>3. Stands(p, u) /\ Stands(p + Len(u), b) /\ p + Len(v) = (p + Len(u)) + Len(b)
  BY <1>1, <1>2, <1>v, StandsBoth
<1>4. Stands(p, n) /\ Stands(p + Len(n), h) /\ p + Len(u) = (p + Len(n)) + Len(h)
  BY <1>1, <1>3, <1>u, StandsBoth
<1>j. PICK j : j = p + Len(n)
  OBVIOUS
<1>k. PICK k : k = p + Len(u)
  OBVIOUS
<1>m. PICK m : m = p + Len(v)
  OBVIOUS
<1>e. PICK e : e = p + Len(Line(d))
  OBVIOUS
<1>5. <<j, n>> \in Rulenames(Given, p)
  BY <1>1, <1>4, <1>j, NameBack
<1>6. <<k, d.defined_as>> \in DefinedAss(Given, j)
  <2>1. k = j + Len(h)
    BY <1>4, <1>j, <1>k
  <2>2. d.defined_as \in {"=", "=/"}
    BY LineWritten
  <2>3. Stands(j, Sign(d.defined_as))
    BY <1>4, <1>h, <1>j
  <2> QED BY <1>h, <2>1, <2>2, <2>3, DefinedAsBack
<1>7. PICK s : <<m, s>> \in Expansions(Given)[k].branches /\ UnwrapSingle(s, "alt") = d.body
  <2>1. AsBody(d.body, b)
    BY <1>b, ElementBack, LineWritten DEF ReadBack
  <2>2. Stands(k, b) /\ m = k + Len(b)
    BY <1>3, <1>k, <1>m
  <2> QED BY <2>1, <2>2 DEF AsBody
<1>8. m \in Runs(Given, m, WSP) /\ e \in CNlEnds(Given, m)
  <2>1. Stands(m, LineEnd) /\ e = m + Len(LineEnd)
    BY <1>2, <1>e, <1>m
  <2> QED BY <2>1, LineBack
<1>x. PICK x \in Rulenames(Given, p) : x = <<j, n>>
  BY <1>5
<1>9. x[1] = j /\ x[2] = n
  BY <1>x
<1>y. PICK y \in DefinedAss(Given, x[1]) : y = <<k, d.defined_as>>
  BY <1>6, <1>9
<1>10. y[1] = k /\ y[2] = d.defined_as
  BY <1>y
<1>z. PICK z \in Expansions(Given)[y[1]].branches : z = <<m, s>>
  BY <1>7, <1>10
<1>11. z[1] = m /\ z[2] = s
  BY <1>z
<1>12. <<e, d>> = <<e, [name |-> x[2], defined_as |-> y[2], body |-> UnwrapSingle(z[2], "alt")]>>
  <2>1. d = [name |-> d.name, defined_as |-> d.defined_as, body |-> d.body]
    BY DEF Definitions
  <2> QED BY <1>7, <1>9, <1>10, <1>11, <1>n, <2>1
<1>13. m \in Runs(Given, z[1], WSP)
  BY <1>8, <1>11
<1>14. RuleReading(<<e, d>>, x, y, z)
  BY <1>8, <1>12, <1>13 DEF RuleReading
<1>15. <<e, d>> \in RulesAt(Given, p)
  BY <1>14, RulesAre
<1> QED BY <1>15, <1>e

(* The definitions that are printed as they are read again.                *)
Printable == {d \in Definitions : Normal(d.body)}

(* A grammar that has rules is printed as their lines, one after the other.*)
LEMMA GrammarLaid ==
  ASSUME NEW ds \in Seq(Printable), ds # << >>, NEW wr, wr = [d \in Printable |-> Line(d)]
  PROVE  wr \in [Printable -> Text] /\ << >> \in Text /\ WriteGrammar(ds) = Laid(wr, ds, << >>)
<1>1. \A d \in Printable : Line(d) \in Text
  BY LineWritten DEF Printable
<1>2. wr \in [Printable -> Text] /\ \A d \in Printable : wr[d] = Line(d)
  BY <1>1
<1>3. \A w \in Text : << >> \o w = w
  BY ConcatEmptySeq DEF Text
<1>4. DOMAIN ds = 1 .. Len(ds) /\ \A i \in DOMAIN ds : ds[i] \in Printable
  OBVIOUS
<1> DEFINE t == [i \in DOMAIN ds |-> wr[ds[i]]]
<1>5. DOMAIN t = DOMAIN ds /\ \A i \in DOMAIN ds : t[i] = Line(ds[i]) /\ << >> \o t[i] = t[i]
  BY <1>1, <1>2, <1>3, <1>4
<1>6. [i \in DOMAIN t |-> IF i = 1 THEN t[i] ELSE << >> \o t[i]] = [i \in DOMAIN ds |-> Line(ds[i])]
  <2> HIDE DEF t
  <2> QED BY <1>5
<1>7. Laid(wr, ds, << >>) = FlattenSeq([i \in DOMAIN ds |-> Line(ds[i])])
  <2>1. Laid(wr, ds, << >>) = Joined(t, << >>)
    BY DEF Laid
  <2>2. Joined(t, << >>) = FlattenSeq([i \in DOMAIN t |-> IF i = 1 THEN t[i] ELSE << >> \o t[i]])
    BY DEF Joined
  <2> HIDE DEF t
  <2> QED BY <1>6, <2>1, <2>2
<1>8. WriteGrammar(ds) = FlattenSeq([i \in DOMAIN ds |-> Line(ds[i])])
  BY DEF WriteGrammar, Line, LineEnd
<1>9. << >> \in Text
  BY NumbersWritten
<1> QED BY <1>2, <1>7, <1>8, <1>9

(* From a position: how far definitions are read that all that follows can *)
(* follow.                                                                 *)
Onward(p) ==
  {z \in (0 .. End) \X Seq(Definitions) :
     \A rest \in ItemsTo(Given, z[1]) : z[2] \o rest \in ItemsTo(Given, p)}

(* A line that stands there is one, and goes before others.                *)
LEMMA LineOnward ==
  ASSUME Typed, NEW p \in 0 .. End, NEW d \in Printable, Stands(p, Line(d))
  PROVE  /\ p + Len(Line(d)) \in 0 .. End
         /\ \A rest \in ItemsTo(Given, p + Len(Line(d))) : <<d>> \o rest \in ItemsTo(Given, p)
<1>e. PICK e : e = p + Len(Line(d))
  OBVIOUS
<1>1. d \in Definitions /\ Normal(d.body)
  BY DEF Printable
<1>2. <<e, d>> \in RulesAt(Given, p)
  BY <1>1, <1>e, RuleBack
<1>r. PICK r \in RulesAt(Given, p) : r = <<e, d>>
  BY <1>2
<1>3. r[1] = e /\ r[2] = d
  BY <1>r
<1>4. r[1] \in p + 1 .. End
  BY RuleFacts
<1>5. e \in p + 1 .. End
  BY <1>3, <1>4
<1>6. End \in Nat
  BY PeekFacts
<1>7. p # End /\ e \in 0 .. End
  BY <1>5, <1>6
<1>8. \A rest \in ItemsTo(Given, r[1]) : <<r[2]>> \o rest \in ItemsTo(Given, p)
  BY <1>7, ItemsAre
<1> QED BY <1>e, <1>3, <1>7, <1>8

(* So the lines that are read from a position make lists, each of one more *)
(* definition.                                                             *)
LEMMA LinesOnward ==
  ASSUME Typed, NEW wr, wr = [d \in Printable |-> Line(d)], NEW D, D = [p \in 0 .. End |-> Onward(p)]
  PROVE  Listing(D, Printable, wr, << >>)
<1> SUFFICES ASSUME NEW p \in 0 .. End, NEW d \in Printable, Stands(p, wr[d])
             PROVE  /\ <<p + Len(wr[d]), <<d>>>> \in D[p]
                    /\ Stands(p + Len(wr[d]), << >>) =>
                         \A q : \A t \in Seq(Printable) :
                           <<q, t>> \in D[(p + Len(wr[d])) + Len(<< >>)] => <<q, <<d>> \o t>> \in D[p]
  BY DEF Listing
<1>e. PICK e : e = p + Len(wr[d])
  OBVIOUS
<1>1. wr[d] = Line(d) /\ d \in Definitions
  BY DEF Printable
<1>2. e \in 0 .. End /\ \A rest \in ItemsTo(Given, e) : <<d>> \o rest \in ItemsTo(Given, p)
  BY <1>1, <1>e, LineOnward
<1>3. D[p] = Onward(p) /\ D[e] = Onward(e)
  BY <1>2
<1>4. \A z : z \in Onward(p) <=> /\ z \in (0 .. End) \X Seq(Definitions)
                                 /\ \A rest \in ItemsTo(Given, z[1]) : z[2] \o rest \in ItemsTo(Given, p)
  BY DEF Onward
<1>5. <<d>> \in Seq(Definitions)
  BY <1>1
<1>6. <<e, <<d>>>> \in D[p]
  <2>z. PICK z : z = <<e, <<d>>>>
    OBVIOUS
  <2>1. z \in (0 .. End) \X Seq(Definitions) /\ z[1] = e /\ z[2] = <<d>>
    BY <1>2, <1>5, <2>z
  <2>2. \A rest \in ItemsTo(Given, z[1]) : z[2] \o rest \in ItemsTo(Given, p)
    BY <1>2, <2>1
  <2> QED BY <1>3, <1>4, <2>1, <2>2, <2>z
<1>7. ASSUME NEW q, NEW t \in Seq(Printable), <<q, t>> \in D[e] PROVE <<q, <<d>> \o t>> \in D[p]
  <2>y. PICK y : y = <<q, t>>
    OBVIOUS
  <2>1. y[1] = q /\ y[2] = t
    BY <2>y
  <2>2. y \in Onward(e)
    BY <1>3, <1>7, <2>y
  <2>3. /\ y \in (0 .. End) \X Seq(Definitions)
        /\ \A rest \in ItemsTo(Given, y[1]) : y[2] \o rest \in ItemsTo(Given, e)
    BY <2>2 DEF Onward
  <2>4. q \in 0 .. End /\ t \in Seq(Definitions)
    BY <2>1, <2>3
  <2>5. \A rest \in ItemsTo(Given, q) : t \o rest \in ItemsTo(Given, e)
    BY <2>1, <2>3
  <2>u. PICK u : u = <<d>> \o t
    OBVIOUS
  <2>6. u \in Seq(Definitions)
    <3>a. PICK a : a = <<d>>
      OBVIOUS
    <3>1. a \in Seq(Definitions)
      BY <1>5, <3>a
    <3> QED BY <2>4, <2>u, <3>1, <3>a, ConcatProperties
  <2>7. ASSUME NEW rest \in ItemsTo(Given, q) PROVE u \o rest \in ItemsTo(Given, p)
    <3>1. <<d>> \o (t \o rest) \in ItemsTo(Given, p)
      BY <1>2, <2>5
    <3>2. rest \in Seq(Definitions)
      BY <2>4, ItemsTyped
    <3>a. PICK a : a = <<d>>
      OBVIOUS
    <3>3. a \in Seq(Definitions)
      BY <1>5, <3>a
    <3>4. (a \o t) \o rest = a \o (t \o rest)
      BY <2>4, <3>2, <3>3, ConcatAssociative
    <3> QED BY <2>u, <3>1, <3>4, <3>a
  <2>z. PICK z : z = <<q, u>>
    OBVIOUS
  <2>8. z \in (0 .. End) \X Seq(Definitions) /\ z[1] = q /\ z[2] = u
    BY <2>4, <2>6, <2>z
  <2>9. \A rest \in ItemsTo(Given, z[1]) : z[2] \o rest \in ItemsTo(Given, p)
    BY <2>7, <2>8
  <2> QED BY <1>3, <1>4, <2>8, <2>9, <2>u, <2>z
<1>8. e + Len(<< >>) = e
  <2>1. Len(<< >>) = 0
    OBVIOUS
  <2>2. e \in Nat
    BY <1>2
  <2> QED BY <2>1, <2>2
<1> QED BY <1>e, <1>6, <1>7, <1>8

(* The printed form of a grammar is read as that grammar.                  *)
THEOREM GrammarBack ==
  ASSUME Typed, NEW ds \in Seq(Printable), src = WriteGrammar(ds)
  PROVE  ds \in ItemsTo(Given, 0)
<1>0. End \in Nat /\ End = Len(src) /\ 0 \in 0 .. End /\ ItemsTo(Given, End) = {<< >>}
  <2>1. End \in Nat /\ End = Len(src)
    BY PeekFacts DEF End
  <2>2. End \in 0 .. End /\ 0 \in 0 .. End
    BY <2>1
  <2> QED BY <2>1, <2>2, ItemsAre
<1>1. \A w \in Text : src = w => Stands(0, w) /\ 0 + Len(w) = End
  <2> SUFFICES ASSUME NEW w \in Text, src = w PROVE Stands(0, w) /\ 0 + Len(w) = End
    OBVIOUS
  <2>1. Len(w) = End
    BY <1>0
  <2>2. \A i \in 1 .. Len(w) : src[0 + i] = w[i]
    OBVIOUS
  <2>3. 0 + Len(w) = End /\ 0 + Len(w) \in 0 .. End
    BY <1>0, <2>1
  <2> QED BY <1>0, <2>2, <2>3 DEF Stands
<1>2. CASE ds = << >>
  <2>1. src = LineEnd /\ LineEnd \in Text
    BY <1>2, SignsWritten DEF WriteGrammar, LineEnd
  <2>2. Stands(0, LineEnd) /\ 0 + Len(LineEnd) = End
    BY <1>1, <2>1
  <2>3. 0 \in Runs(Given, 0, WSP) /\ End \in CNlEnds(Given, 0) /\ 0 # End
    BY <2>2, LineBack
  <2>4. << >> \in ItemsTo(Given, End)
    BY <1>0
  <2>5. << >> \in ItemsTo(Given, 0)
    BY <1>0, <2>3, <2>4, ItemsAre
  <2> QED BY <1>2, <2>5
<1>3. CASE ds # << >>
  <2>w. PICK wr : wr = [d \in Printable |-> Line(d)]
    OBVIOUS
  <2>d. PICK D : D = [p \in 0 .. End |-> Onward(p)]
    OBVIOUS
  <2>1. wr \in [Printable -> Text] /\ << >> \in Text /\ src = Laid(wr, ds, << >>)
    BY <1>3, <2>w, GrammarLaid
  <2>2. Laid(wr, ds, << >>) \in Text
    BY <1>3, <2>1, LaidTyped
  <2>3. Stands(0, Laid(wr, ds, << >>)) /\ 0 + Len(Laid(wr, ds, << >>)) = End
    BY <1>1, <2>1, <2>2
  <2>4. Listing(D, Printable, wr, << >>)
    BY <2>d, <2>w, LinesOnward
  <2>5. <<0 + Len(Laid(wr, ds, << >>)), ds>> \in D[0]
    BY <1>3, <2>1, <2>3, <2>4, ListsRead
  <2>6. <<End, ds>> \in Onward(0)
    BY <1>0, <2>3, <2>5, <2>d
  <2>7. \A rest \in ItemsTo(Given, End) : ds \o rest \in ItemsTo(Given, 0)
    <3>z. PICK z \in Onward(0) : z = <<End, ds>>
      BY <2>6
    <3>1. z[1] = End /\ z[2] = ds
      BY <3>z
    <3> QED BY <3>1 DEF Onward
  <2>8. ds \o << >> = ds
    BY ConcatEmptySeq
  <2> QED BY <1>0, <2>7, <2>8
<1> QED BY <1>2, <1>3

(* What is printed is definitions canonicalized before, and the text is    *)
(* theirs until it is read.                                                *)
PrintedIs(ds) == ds \in Seq(Printable) /\ src = WriteGrammar(ds)
PrintInv == printed # None => PrintedIs(printed)

(* Definitions that are printed as they are read are their own meaning.    *)
LEMMA OwnMeaning == \A ds \in Seq(Printable) : Canonicalized(ds) = ds
<1> SUFFICES ASSUME NEW ds \in Seq(Printable) PROVE Canonicalized(ds) = ds
  OBVIOUS
<1>1. \A d \in Printable : Meaning(d) = d
  <2> SUFFICES ASSUME NEW d \in Printable PROVE Meaning(d) = d
    OBVIOUS
  <2>1. d \in Definitions /\ Normal(d.body)
    BY DEF Printable
  <2>2. d = [name |-> d.name, defined_as |-> d.defined_as, body |-> d.body] /\ d.body \in Trees
    BY <2>1 DEF Definitions
  <2>3. Canonicalize(d.body) = d.body
    BY <2>1, <2>2, NormalStays
  <2>4. Meaning([name |-> d.name, defined_as |-> d.defined_as, body |-> d.body])
          = [name |-> d.name, defined_as |-> d.defined_as, body |-> Canonicalize(d.body)]
    BY MeaningIs
  <2> QED BY <2>2, <2>3, <2>4
<1>2. Canonicalized(ds) = [k \in DOMAIN ds |-> Meaning(ds[k])]
  BY DEF Canonicalized, Meaning
<1>3. \A k \in DOMAIN ds : ds[k] \in Printable
  OBVIOUS
<1>4. [k \in DOMAIN ds |-> Meaning(ds[k])] = [k \in DOMAIN ds |-> ds[k]]
  BY <1>1, <1>3
<1>5. [k \in DOMAIN ds |-> ds[k]] = ds
  OBVIOUS
<1> QED BY <1>2, <1>4, <1>5

(* What the parser makes of a text can be printed and read again.          *)
LEMMA ParsedPrintable ==
  ASSUME ParserInv, status = "parsed"
  PROVE  defs \in Seq(Printable)
<1>1. Meanings(Readings) = {defs} /\ defs \in Seq(Definitions)
  BY DEF ParserInv
<1>2. PICK read \in Readings : Canonicalized(read) = defs
  BY <1>1 DEF Meanings
<1>3. read \in Seq(Definitions)
  <2>1. read \in ItemsTo(Given, 0)
    BY DEF Readings, Rulelists, Given
  <2>2. Typed /\ 0 \in 0 .. End
    BY PeekFacts DEF ParserInv
  <2> QED BY <2>1, <2>2, ItemsTyped
<1>4. Len(defs) \in Nat /\ DOMAIN defs = 1 .. Len(defs) /\ DOMAIN defs = DOMAIN read
  BY <1>1, <1>2 DEF Canonicalized
<1>5. \A k \in 1 .. Len(defs) : defs[k] \in Printable
  <2> SUFFICES ASSUME NEW k \in 1 .. Len(defs) PROVE defs[k] \in Printable
    OBVIOUS
  <2>1. defs[k] \in Definitions
    BY <1>1
  <2>2. read[k] \in Definitions
    BY <1>3, <1>4
  <2>3. defs[k] = [read[k] EXCEPT !.body = Canonicalize(@)]
    BY <1>2, <1>4 DEF Canonicalized
  <2>4. read[k].body \in Trees /\ defs[k].body = Canonicalize(read[k].body)
    BY <2>2, <2>3 DEF Definitions
  <2>5. Normal(defs[k].body)
    BY <2>4, CanonicalizeNormal
  <2> QED BY <2>1, <2>5 DEF Printable
<1> QED BY <1>1, <1>5, Within

(* A printed text has one meaning: what was printed.                       *)
LEMMA PrintedRead ==
  ASSUME Typed, NEW ds, PrintedIs(ds)
  PROVE  ds \in Meanings(Readings)
<1>1. ds \in Seq(Printable) /\ src = WriteGrammar(ds)
  BY DEF PrintedIs
<1>2. ds \in Seq(Definitions)
  BY <1>1 DEF Printable
<1>3. src \in Text
  BY <1>1, <1>2, GrammarWritten
<1>4. ~Contains(src, "NONASCII")
  BY <1>3 DEF Text, Ascii, Contains
<1>5. ds \in ItemsTo(Given, 0)
  BY <1>1, GrammarBack
<1>6. src # << >>
  <2> SUFFICES ASSUME src = << >> PROVE FALSE
    OBVIOUS
  <2>1. End = 0 /\ 0 \in 0 .. End
    BY PeekFacts DEF End
  <2>2. ds = << >>
    BY <1>5, <2>1, ItemsAre
  <2>3. src = <<"CR", "LF">>
    BY <1>1, <2>2 DEF WriteGrammar
  <2> QED BY <2>3
<1>7. Readings = ItemsTo(Given, 0)
  BY <1>4, <1>6 DEF Readings, Rulelists, Given
<1>8. Canonicalized(ds) = ds
  BY <1>1, OwnMeaning
<1>9. Canonicalized(ds) \in Meanings(Readings)
  BY <1>5, <1>7 DEF Meanings
<1> QED BY <1>8, <1>9

(* Nothing is printed yet at the start.                                    *)
LEMMA PrintStart == SyntaxInit => PrintInv
  BY DEF SyntaxInit, PrintInv

(* Every step of the parser and of the printer keeps it: printing takes the*)
(* parsed grammar, and parsing leaves the text alone.                      *)
LEMMA PrintStep ==
  ASSUME ParserInv, PrintInv, [Next]_<<vars, printed>>
  PROVE  PrintInv'
<1>1. CASE Display
  <2>1. status = "parsed" /\ src' = WriteGrammar(defs) /\ printed' = defs
    BY <1>1 DEF Display, Begin
  <2>2. defs \in Seq(Printable)
    BY <2>1, ParsedPrintable
  <2> QED BY <2>1, <2>2 DEF PrintInv, PrintedIs
<1>2. CASE ~Display
  <2>1. UNCHANGED <<src, printed>>
    <3>1. CASE UNCHANGED <<vars, printed>>
      BY <3>1 DEF vars
    <3>2. CASE Parse /\ UNCHANGED printed
      BY <3>2 DEF Parse, Gate, ReadRule, ReadBlank, NoRule, Finish, Take
    <3> QED BY <1>2, <3>1, <3>2 DEF Next
  <2> QED BY <2>1 DEF PrintInv, PrintedIs
<1> QED BY <1>1, <1>2

(* The printed form of a grammar is parsed as that grammar.                *)
LEMMA RoundTrip ==
  ASSUME ParserInv, PrintInv, Answered, printed # None
  PROVE  status = "parsed" /\ defs = printed
<1>1. printed \in Meanings(Readings)
  BY PrintedRead DEF PrintInv, ParserInv
<1>2. Readings # {}
  BY <1>1 DEF Meanings
<1>3. status = "parsed"
  BY <1>2 DEF ParserInv, Answered
<1>4. Meanings(Readings) = {defs}
  BY <1>3 DEF ParserInv
<1> QED BY <1>1, <1>3, <1>4

-----------------------------------------------------------------------------
(* No parenthesis is printed that the text could do without.               *)

(* What a character counts for.                                            *)
One(c) == IF c = "(" THEN 1 ELSE 0

(* Parentheses opened in a text, and in one that is a character longer.    *)
LEMMA OpensMore ==
  ASSUME NEW S, NEW s \in Seq(S)
  PROVE  /\ Opens(s) \in Nat /\ Opens(<< >>) = 0
         /\ \A c \in S : Opens(Append(s, c)) = Opens(s) + One(c)
<1> DEFINE A(t) == {i \in DOMAIN t : t[i] = "("}
<1>1. IsFiniteSet(A(s)) /\ Opens(s) \in Nat /\ Opens(s) = Cardinality(A(s))
  <2>1. A(s) \subseteq 1 .. Len(s) /\ Len(s) \in Nat
    OBVIOUS
  <2>2. IsFiniteSet(1 .. Len(s))
    BY <2>1, FS_Interval
  <2>3. IsFiniteSet(A(s))
    BY <2>1, <2>2, FS_Subset
  <2> QED BY <2>3, FS_CardinalityType DEF Opens
<1>2. Opens(<< >>) = 0
  <2>1. A(<< >>) = {}
    OBVIOUS
  <2> QED BY <2>1, FS_EmptySet DEF Opens
<1>3. ASSUME NEW c \in S PROVE Opens(Append(s, c)) = Opens(s) + One(c)
  <2>1. /\ Append(s, c) \in Seq(S) /\ Len(Append(s, c)) = Len(s) + 1 /\ Len(s) \in Nat
        /\ Append(s, c)[Len(s) + 1] = c /\ \A i \in 1 .. Len(s) : Append(s, c)[i] = s[i]
    BY AppendProperties
  <2>n. PICK n : n = Len(s)
    OBVIOUS
  <2>t. PICK t : t = Append(s, c)
    OBVIOUS
  <2>2. /\ n \in Nat /\ DOMAIN t = 1 .. n + 1 /\ t[n + 1] = c /\ DOMAIN s = 1 .. n
        /\ \A i \in 1 .. n : t[i] = s[i]
    BY <2>1, <2>n, <2>t
  <2>3. A(t) = IF c = "(" THEN A(s) \cup {n + 1} ELSE A(s)
    BY <2>2
  <2>4. n + 1 \notin A(s)
    BY <2>2
  <2>5. Cardinality(A(s) \cup {n + 1}) = Cardinality(A(s)) + 1
    <3> HIDE DEF A
    <3> QED BY <1>1, <2>4, FS_AddElement
  <2>6. Opens(t) = Cardinality(A(t))
    BY DEF Opens
  <2> HIDE DEF A
  <2> QED BY <1>1, <2>3, <2>5, <2>6, <2>t DEF One
<1> QED BY <1>1, <1>2, <1>3

(* A text of one character opens what the character counts for.            *)
LEMMA OpensOne ==
  ASSUME NEW c
  PROVE  Opens(<<c>>) = One(c)
<1>1. << >> \in Seq({c}) /\ Append(<< >>, c) = <<c>>
  OBVIOUS
<1>2. Opens(Append(<< >>, c)) = Opens(<< >>) + One(c) /\ Opens(<< >>) = 0
  BY <1>1, OpensMore
<1> QED BY <1>1, <1>2 DEF One

(* In two texts, one after the other, as many as in both.                  *)
LEMMA OpensBoth ==
  ASSUME NEW S, NEW s \in Seq(S), NEW t \in Seq(S)
  PROVE  Opens(s) \in Nat /\ Opens(t) \in Nat /\ Opens(s \o t) = Opens(s) + Opens(t)
<1> DEFINE G == {u \in Seq(S) : Opens(s \o u) = Opens(s) + Opens(u)}
<1>0. \A u \in Seq(S) : Opens(u) \in Nat /\ \A c \in S : Opens(Append(u, c)) = Opens(u) + One(c)
  BY OpensMore
<1>1. << >> \in G
  <2>1. s \o << >> = s /\ << >> \in Seq(S)
    BY ConcatEmptySeq
  <2>2. Opens(<< >>) = 0
    BY OpensMore
  <2> QED BY <1>0, <2>1, <2>2
<1>2. ASSUME NEW u \in Seq(S), NEW c \in S, u \in G PROVE Append(u, c) \in G
  <2>1. s \o u \in Seq(S) /\ Append(u, c) \in Seq(S)
    BY ConcatProperties, AppendProperties
  <2>2. s \o Append(u, c) = Append(s \o u, c)
    OBVIOUS
  <2>3. Opens(s \o Append(u, c)) = Opens(s \o u) + One(c)
    BY <1>0, <2>1, <2>2
  <2>4. Opens(s \o u) = Opens(s) + Opens(u) /\ Opens(Append(u, c)) = Opens(u) + One(c)
    BY <1>0, <1>2
  <2>5. Opens(s) \in Nat /\ Opens(u) \in Nat /\ One(c) \in Nat
    BY <1>0 DEF One
  <2>6. Opens(s \o Append(u, c)) = Opens(s) + Opens(Append(u, c))
    BY <2>3, <2>4, <2>5
  <2> QED BY <2>1, <2>6
<1> HIDE DEF G
<1>3. \A u \in Seq(S) : u \in G
  BY <1>1, <1>2, SequenceInduction
<1> QED BY <1>0, <1>3 DEF G

(* Where no character is an opening parenthesis, none.                     *)
LEMMA OpensNone ==
  ASSUME NEW S, "(" \notin S, NEW s \in Seq(S)
  PROVE  Opens(s) = 0
<1>1. {i \in DOMAIN s : s[i] = "("} = {}
  OBVIOUS
<1> QED BY <1>1, FS_EmptySet DEF Opens

-----------------------------------------------------------------------------
(* How many are opened from one position to another.                       *)
Opened(p, q) == Opens(Piece(Given, p, q))

(* What is opened from one position to another is a number that adds up    *)
(* along the text.                                                         *)
LEMMA OpenedFacts ==
  ASSUME Typed, NEW p \in 0 .. End, NEW q \in p .. End
  PROVE  /\ Opened(p, q) \in Nat
         /\ \A r \in q .. End : Opened(p, r) = Opened(p, q) + Opened(q, r)
         /\ \A r \in q .. End : Opened(p, q) <= Opened(p, r) /\ Opened(q, r) <= Opened(p, r)
<1>0. End \in Nat
  BY PeekFacts
<1>1. \A a \in 0 .. End : \A b \in a .. End : Piece(Given, a, b) \in Seq(CHAR)
  BY PieceFacts
<1>2. \A a \in 0 .. End : \A b \in a .. End : Opened(a, b) \in Nat
  BY <1>1, OpensMore DEF Opened
<1>3. ASSUME NEW r \in q .. End PROVE Opened(p, r) = Opened(p, q) + Opened(q, r)
  <2>1. q \in 0 .. End /\ r \in p .. End /\ r \in 0 .. End
    BY <1>0
  <2>a. PICK a : a = Piece(Given, p, q)
    OBVIOUS
  <2>b. PICK b : b = Piece(Given, q, r)
    OBVIOUS
  <2>c. PICK c : c = Piece(Given, p, r)
    OBVIOUS
  <2>2. /\ a \in Seq(CHAR) /\ Len(a) = q - p /\ \A i \in 1 .. q - p : a[i] = Peek(p + (i - 1))
        /\ b \in Seq(CHAR) /\ Len(b) = r - q /\ \A i \in 1 .. r - q : b[i] = Peek(q + (i - 1))
        /\ c \in Seq(CHAR) /\ Len(c) = r - p /\ \A i \in 1 .. r - p : c[i] = Peek(p + (i - 1))
    BY <1>1, <2>1, <2>a, <2>b, <2>c, PieceOf
  <2>3. /\ a \o b \in Seq(CHAR) /\ Len(a \o b) = r - p
        /\ \A i \in 1 .. r - p : (a \o b)[i] = c[i]
    <3>1. a \o b \in Seq(CHAR) /\ Len(a \o b) = (q - p) + (r - q)
      BY <2>2, ConcatProperties
    <3>2. ASSUME NEW i \in 1 .. r - p PROVE (a \o b)[i] = c[i]
      <4>1. CASE i <= q - p
        <5>1. i \in 1 .. q - p
          BY <1>0, <4>1
        <5>2. (a \o b)[i] = a[i]
          BY <2>2, <5>1
        <5> QED BY <2>2, <5>1, <5>2
      <4>2. CASE ~(i <= q - p)
        <5>j. PICK j : j = i - (q - p)
          OBVIOUS
        <5>1. j \in 1 .. r - q /\ q + (j - 1) = p + (i - 1) /\ i = (q - p) + j
          BY <1>0, <4>2, <5>j
        <5>2. (a \o b)[i] = b[j]
          BY <1>0, <2>2, <5>1
        <5>3. b[j] = Peek(q + (j - 1)) /\ c[i] = Peek(p + (i - 1))
          BY <2>2, <5>1
        <5> QED BY <5>1, <5>2, <5>3
      <4> QED BY <4>1, <4>2
    <3> QED BY <1>0, <3>1, <3>2
  <2>4. a \o b = c
    BY <2>2, <2>3, SeqEqual
  <2> QED BY <2>2, <2>4, <2>a, <2>b, <2>c, OpensBoth DEF Opened
<1>4. ASSUME NEW r \in q .. End PROVE Opened(p, q) <= Opened(p, r) /\ Opened(q, r) <= Opened(p, r)
  <2>1. Opened(p, q) \in Nat /\ Opened(q, r) \in Nat
    BY <1>0, <1>2
  <2> QED BY <1>3, <2>1
<1> QED BY <1>2, <1>3, <1>4

(* An opening parenthesis is one of them.                                  *)
LEMMA OpenedThere ==
  ASSUME Typed, NEW p \in 0 .. End, Peek(p) = "(", NEW q \in p + 1 .. End
  PROVE  Opened(p, q) = 1 + Opened(p + 1, q)
<1>0. End \in Nat
  BY PeekFacts
<1>1. p + 1 \in p .. End /\ p + 1 \in 0 .. End
  BY <1>0
<1>2. Opened(p, p + 1) = 1
  <2>w. PICK w : w = Piece(Given, p, p + 1)
    OBVIOUS
  <2>1. w \in Seq(CHAR)
    BY <1>1, <2>w, PieceFacts
  <2>2. Len(w) = (p + 1) - p /\ \A i \in 1 .. (p + 1) - p : w[i] = Peek(p + (i - 1))
    BY <1>1, <2>w, PieceOf
  <2>3. (p + 1) - p = 1 /\ 1 \in 1 .. 1 /\ p + (1 - 1) = p
    BY <1>0
  <2>4. Len(w) = 1 /\ w[1] = "("
    BY <2>2, <2>3
  <2>5. w = <<"(">>
    BY <2>1, <2>4
  <2>6. Opens(<<"(">>) = 1
    BY OpensOne DEF One
  <2> QED BY <2>5, <2>6, <2>w DEF Opened
<1>3. Opened(p, q) = Opened(p, p + 1) + Opened(p + 1, q)
  BY <1>1, OpenedFacts
<1> QED BY <1>2, <1>3

(* Of texts the count is a number, of two in a row the sum, of none zero.  *)
LEMMA TextOpens ==
  /\ \A a \in Text : Opens(a) \in Nat
  /\ \A a, b \in Text : a \o b \in Text /\ Opens(a \o b) = Opens(a) + Opens(b)
  /\ Opens(<< >>) = 0
<1>1. \A a, b \in Text : Opens(a) \in Nat /\ Opens(a \o b) = Opens(a) + Opens(b)
  BY OpensBoth DEF Text
<1>2. Opens(<< >>) = 0
  <2>1. << >> \in Seq({})
    OBVIOUS
  <2> QED BY <2>1, OpensMore
<1> QED BY <1>1, <1>2, NumbersWritten

(* Of the signs one is an opening parenthesis, and no digit is.            *)
LEMMA SignsOpen ==
  /\ Opens(<<"(">>) = 1
  /\ Opens(<<")">>) = 0 /\ Opens(<<"[">>) = 0 /\ Opens(<<"]">>) = 0 /\ Opens(<<"<">>) = 0 /\ Opens(<<">">>) = 0
  /\ Opens(<<"*">>) = 0 /\ Opens(<<"DQUOTE">>) = 0 /\ Opens(<<"-">>) = 0 /\ Opens(<<".">>) = 0 /\ Opens(<<"0">>) = 0
  /\ Opens(<<"%", "s">>) = 0 /\ Opens(<<"%", "x">>) = 0
  /\ Opens(Gap) = 0 /\ Opens(Bar) = 0 /\ Opens(LineEnd) = 0
  /\ \A how \in {"=", "=/"} : Opens(Sign(how)) = 0
<1>1. \A c : c # "(" => Opens(<<c>>) = 0
  BY OpensOne DEF One
<1>2. /\ \A b, c : b # "(" /\ c # "(" => Opens(<<b, c>>) = 0
      /\ \A b, c, d : b # "(" /\ c # "(" /\ d # "(" => Opens(<<b, c, d>>) = 0
      /\ \A b, c, d, e : b # "(" /\ c # "(" /\ d # "(" /\ e # "(" => Opens(<<b, c, d, e>>) = 0
  <2>1. ASSUME NEW b, NEW c, b # "(", c # "(" PROVE Opens(<<b, c>>) = 0
    <3>1. "(" \notin {b, c} /\ <<b, c>> \in Seq({b, c})
      BY <2>1
    <3> QED BY <3>1, OpensNone
  <2>2. ASSUME NEW b, NEW c, NEW d, b # "(", c # "(", d # "(" PROVE Opens(<<b, c, d>>) = 0
    <3>1. "(" \notin {b, c, d} /\ <<b, c, d>> \in Seq({b, c, d})
      BY <2>2
    <3> QED BY <3>1, OpensNone
  <2>3. ASSUME NEW b, NEW c, NEW d, NEW e, b # "(", c # "(", d # "(", e # "(" PROVE Opens(<<b, c, d, e>>) = 0
    <3>1. "(" \notin {b, c, d, e} /\ <<b, c, d, e>> \in Seq({b, c, d, e})
      BY <2>3
    <3> QED BY <3>1, OpensNone
  <2> QED BY <2>1, <2>2, <2>3
<1>3. Space # "("
  BY DEF Space
<1>4. Opens(<<"(">>) = 1
  BY OpensOne DEF One
<1>5. /\ Opens(<<")">>) = 0 /\ Opens(<<"[">>) = 0 /\ Opens(<<"]">>) = 0 /\ Opens(<<"<">>) = 0 /\ Opens(<<">">>) = 0
      /\ Opens(<<"*">>) = 0 /\ Opens(<<"DQUOTE">>) = 0 /\ Opens(<<"-">>) = 0 /\ Opens(<<".">>) = 0 /\ Opens(<<"0">>) = 0
  BY <1>1
<1>6. Opens(<<"%", "s">>) = 0 /\ Opens(<<"%", "x">>) = 0 /\ Opens(LineEnd) = 0
  BY <1>2 DEF LineEnd
<1>7. Gap = <<Space>> /\ Bar = <<Space, "/", Space>>
  BY DEF Gap, Bar, Space
<1>8. Opens(Gap) = 0 /\ Opens(Bar) = 0
  BY <1>1, <1>2, <1>3, <1>7
<1>9. Sign("=") = <<Space, "=", Space>> /\ Sign("=/") = <<Space, "=", "/", Space>>
  BY DEF Sign, Space
<1>10. \A how \in {"=", "=/"} : Opens(Sign(how)) = 0
  BY <1>2, <1>3, <1>9
<1> QED BY <1>4, <1>5, <1>6, <1>8, <1>10

(* Written numbers open none.                                              *)
LEMMA NumbersOpen ==
  \A n \in Nat : Opens(Decimal(n)) = 0 /\ Opens(WriteHex(n)) = 0 /\ Decimal(n) \in Text /\ WriteHex(n) \in Text
<1>1. ASSUME NEW radix \in {10, 16} PROVE \A n \in Nat : Opens(Digits(n, radix)) = 0 /\ Digits(n, radix) \in Text
  <2> DEFINE Good(n) == Opens(Digits(n, radix)) = 0
             S == {n \in Nat : \A i \in 0 .. n : Good(i)}
  <2>1. Good(0)
    <3>1. Digits(0, radix) = << >>
      BY DigitsTyped
    <3> QED BY <3>1, TextOpens
  <2>2. ASSUME NEW n \in Nat, n # 0, \A i \in 0 .. n - 1 : Good(i) PROVE Good(n)
    <3>h. PICK h, d : h = n \div radix /\ d = n % radix
      OBVIOUS
    <3>1. h \in 0 .. n - 1 /\ h \in Nat /\ d + 1 \in 1 .. 16
      <4>1. CASE radix = 10
        BY <2>2, <3>h, <4>1
      <4>2. CASE radix = 16
        BY <2>2, <3>h, <4>2
      <4> QED BY <4>1, <4>2
    <3>c. PICK c : c = HexDigits[d + 1]
      OBVIOUS
    <3>w. PICK w : w = Digits(h, radix)
      OBVIOUS
    <3>2. c \in DOMAIN Worth
      BY <3>1, <3>c, Digitals
    <3>3. c \in Ascii /\ c # "("
      <4>1. "(" \notin DOMAIN Worth
        BY Digitals, Letters DEF DIGIT
      <4> QED BY <3>2, <4>1, Signs
    <3>4. w \in Seq(Ascii) /\ Digits(n, radix) = Append(w, c)
      BY <2>2, <3>1, <3>c, <3>h, <3>w, DigitsTyped DEF Text
    <3>5. Opens(w) = 0
      BY <2>2, <3>1, <3>w
    <3>6. Opens(Append(w, c)) = Opens(w) + One(c)
      BY <3>3, <3>4, OpensMore
    <3> QED BY <3>3, <3>4, <3>5, <3>6 DEF One
  <2> HIDE DEF Good
  <2>3. 0 \in S
    BY <2>1
  <2>4. ASSUME NEW n \in Nat, n \in S PROVE n + 1 \in S
    <3>1. \A i \in 0 .. (n + 1) - 1 : Good(i)
      BY <2>4
    <3>2. Good(n + 1)
      BY <2>2, <3>1
    <3> QED BY <2>4, <3>2
  <2>5. \A n \in Nat : n \in S
    <3> HIDE DEF S
    <3> QED BY <2>3, <2>4, CountOn
  <2>6. \A n \in Nat : Good(n)
    BY <2>5
  <2> QED BY <2>6, DigitsTyped DEF Good
<1> SUFFICES ASSUME NEW n \in Nat
             PROVE  Opens(Decimal(n)) = 0 /\ Opens(WriteHex(n)) = 0 /\ Decimal(n) \in Text /\ WriteHex(n) \in Text
  OBVIOUS
<1>2. <<"0">> \in Text /\ Opens(<<"0">>) = 0
  BY SignsOpen, Signs, NumbersWritten
<1>3. Opens(Decimal(n)) = 0
  BY <1>1, <1>2 DEF Decimal
<1>4. Opens(WriteHex(n)) = 0
  <2>d. PICK d : d = IF n = 0 THEN <<"0">> ELSE Digits(n, 16)
    OBVIOUS
  <2>1. d \in Text /\ Opens(d) = 0
    BY <1>1, <1>2, <2>d
  <2>z. PICK z : z = <<"0">>
    OBVIOUS
  <2>2. Opens(z \o d) = 0
    BY <1>2, <2>1, <2>z, TextOpens
  <2>3. WriteHex(n) = IF Len(d) % 2 = 1 THEN z \o d ELSE d
    BY <2>d, <2>z DEF WriteHex
  <2> QED BY <2>1, <2>2, <2>3
<1> QED BY <1>3, <1>4, NumbersWritten

(* Bounds open none.                                                       *)
LEMMA BoundsOpen ==
  ASSUME NEW x \in Trees, x.kind = "repeat"
  PROVE  WriteRepeat(x) \in Text /\ Opens(WriteRepeat(x)) = 0
<1>1. x.min \in Nat /\ x.max \in Nat \cup {None}
  BY TreesOver, OverFacts
<1>s. PICK star : star = <<"*">>
  OBVIOUS
<1>e. PICK none : none = << >>
  OBVIOUS
<1>2. star \in Text /\ Opens(star) = 0
  BY <1>s, SignsWritten, SignsOpen
<1>3. none \in Text /\ Opens(none) = 0
  BY <1>e, NumbersWritten, TextOpens
<1>4. CASE x.max # None /\ x.max = x.min /\ x.min # 0
  BY <1>1, <1>4, NumbersOpen DEF WriteRepeat
<1>5. CASE ~(x.max # None /\ x.max = x.min /\ x.min # 0)
  <2>b. PICK b : b = IF x.min = 0 THEN none ELSE Decimal(x.min)
    OBVIOUS
  <2>f. PICK f : f = IF x.max = None THEN none ELSE Decimal(x.max)
    OBVIOUS
  <2>1. WriteRepeat(x) = b \o star \o f
    BY <1>5, <1>e, <1>s, <2>b, <2>f DEF WriteRepeat
  <2>2. b \in Text /\ Opens(b) = 0
    BY <1>1, <1>3, <2>b, NumbersOpen
  <2>3. f \in Text /\ Opens(f) = 0
    BY <1>1, <1>3, <2>f, NumbersOpen
  <2>u. PICK u : u = b \o star
    OBVIOUS
  <2>4. u \in Text /\ Opens(u) = 0
    BY <1>2, <2>2, <2>u, TextOpens
  <2>5. u \o f \in Text /\ Opens(u \o f) = 0
    BY <2>3, <2>4, TextOpens
  <2> QED BY <2>1, <2>5, <2>u
<1> QED BY <1>4, <1>5

(* The parentheses opened in an element as it is written, and in several   *)
(* in a row.                                                               *)
Cost(x, where) == Opens(WriteElement(x, where))
Counted(where, s) ==
  IF s = << >> THEN 0 ELSE Opens(Laid([x \in Trees |-> WriteElement(x, where)], s, << >>))

(* Where an element stands adds one at most.                               *)
LEMMA CostIn ==
  ASSUME NEW x \in Trees
  PROVE  /\ Opens(Bared(x)) \in Nat
         /\ Cost(x, "free") = Opens(Bared(x))
         /\ Cost(x, "concat") = Opens(Bared(x)) + (IF x.kind = "alt" THEN 1 ELSE 0)
         /\ Cost(x, "repeat") = Opens(Bared(x)) + (IF x.kind \in {"alt", "concat", "repeat"} THEN 1 ELSE 0)
         /\ \A where \in Places : Cost(x, where) \in Nat
<1>b. PICK b : b = Bared(x)
  OBVIOUS
<1>o. PICK o : o = <<"(">>
  OBVIOUS
<1>c. PICK c : c = <<")">>
  OBVIOUS
<1>1. b \in Text /\ o \in Text /\ c \in Text /\ Opens(o) = 1 /\ Opens(c) = 0
  BY <1>b, <1>c, <1>o, WrittenIn, SignsWritten, SignsOpen
<1>2. /\ Opens(b) \in Nat
      /\ Opens(o \o b \o c) = Opens(b) + 1
  <2>1. o \o b \in Text /\ Opens(o \o b) = 1 + Opens(b) /\ Opens(b) \in Nat
    BY <1>1, TextOpens
  <2>u. PICK u : u = o \o b
    OBVIOUS
  <2>2. Opens(u \o c) = Opens(u) + 0
    BY <1>1, <2>1, <2>u, TextOpens
  <2> QED BY <2>1, <2>2, <2>u
<1>3. /\ WriteElement(x, "free") = b
      /\ WriteElement(x, "concat") = IF x.kind = "alt" THEN o \o b \o c ELSE b
      /\ WriteElement(x, "repeat") = IF x.kind \in {"alt", "concat", "repeat"} THEN o \o b \o c ELSE b
  BY <1>b, <1>c, <1>o, WrittenIn
<1>4. /\ Cost(x, "free") = Opens(b)
      /\ Cost(x, "concat") = Opens(b) + (IF x.kind = "alt" THEN 1 ELSE 0)
      /\ Cost(x, "repeat") = Opens(b) + (IF x.kind \in {"alt", "concat", "repeat"} THEN 1 ELSE 0)
  <2>1. \A where : Cost(x, where) = Opens(WriteElement(x, where))
    BY DEF Cost
  <2>2. /\ Opens(WriteElement(x, "free")) = Opens(b)
        /\ Opens(WriteElement(x, "concat")) = IF x.kind = "alt" THEN Opens(o \o b \o c) ELSE Opens(b)
        /\ Opens(WriteElement(x, "repeat")) = IF x.kind \in {"alt", "concat", "repeat"} THEN Opens(o \o b \o c)
                                               ELSE Opens(b)
    BY <1>3, Zenon
  <2> QED BY <1>2, <2>1, <2>2
<1>5. \A where \in Places : Cost(x, where) \in Nat
  BY <1>2, <1>4 DEF Places
<1> QED BY <1>2, <1>4, <1>5, <1>b

(* So from place to place they rise, by one at most.                       *)
LEMMA CostRises ==
  ASSUME NEW x \in Trees
  PROVE  /\ Cost(x, "free") \in Nat /\ Cost(x, "concat") \in Nat /\ Cost(x, "repeat") \in Nat
         /\ Cost(x, "free") <= Cost(x, "concat") /\ Cost(x, "concat") <= Cost(x, "repeat")
         /\ Cost(x, "repeat") <= Cost(x, "free") + 1
<1>b. PICK b : b = Opens(Bared(x))
  OBVIOUS
<1>1. /\ b \in Nat
      /\ Cost(x, "free") = b
      /\ Cost(x, "concat") = b + (IF x.kind = "alt" THEN 1 ELSE 0)
      /\ Cost(x, "repeat") = b + (IF x.kind \in {"alt", "concat", "repeat"} THEN 1 ELSE 0)
  BY <1>b, CostIn
<1>2. CASE x.kind = "alt"
  BY <1>1, <1>2
<1>3. CASE x.kind # "alt"
  BY <1>1, <1>3
<1> QED BY <1>2, <1>3

-----------------------------------------------------------------------------
(* One element more in a row adds what it opens.                           *)
LEMMA CountedMore ==
  ASSUME NEW where \in Places, NEW s \in Seq(Trees)
  PROVE  /\ Counted(where, s) \in Nat /\ Counted(where, << >>) = 0
         /\ \A x \in Trees : Counted(where, Append(s, x)) = Counted(where, s) + Cost(x, where)
<1>w. PICK wr : wr = [x \in Trees |-> WriteElement(x, where)]
  OBVIOUS
<1>1. wr \in [Trees -> Text] /\ \A x \in Trees : wr[x] = WriteElement(x, where)
  <2>1. \A x \in Trees : WriteElement(x, where) \in Text
    BY FreelyWritten
  <2> QED BY <1>w, <2>1
<1>f. wr \in [Trees -> Text]
  BY <1>1
<1>e. PICK none : none = << >>
  OBVIOUS
<1>2. none \in Text /\ Opens(none) = 0
  BY <1>e, TextOpens, NumbersWritten
<1>3. \A t : Counted(where, t) = IF t = << >> THEN 0 ELSE Opens(Laid(wr, t, none))
  BY <1>e, <1>w DEF Counted
<1>4. s # << >> => Laid(wr, s, none) \in Text
  BY <1>1, <1>2, LaidTyped
<1>5. Counted(where, s) \in Nat /\ Counted(where, << >>) = 0
  BY <1>3, <1>4, TextOpens
<1>6. ASSUME NEW x \in Trees PROVE Counted(where, Append(s, x)) = Counted(where, s) + Cost(x, where)
  <2>1. Append(s, x) # << >>
    BY AppendProperties
  <2>2. Counted(where, Append(s, x)) = Opens(Laid(wr, Append(s, x), none))
    BY <1>3, <2>1
  <2>3. Laid(wr, Append(s, x), none) = IF s = << >> THEN wr[x] ELSE Laid(wr, s, none) \o (none \o wr[x])
    <3>1. /\ Laid(wr, Append(s, x), none) = IF s = << >> THEN wr[x] ELSE Laid(wr, s, none) \o (none \o wr[x])
          /\ s # << >> => Laid(wr, s, none) \in Text
      BY <1>2, <1>f, LaidMore
    <3> QED BY <3>1
  <2>4. wr[x] \in Text /\ Opens(wr[x]) = Cost(x, where) /\ Cost(x, where) \in Nat
    <3>1. wr[x] \in Text /\ wr[x] = WriteElement(x, where)
      BY <1>1
    <3>2. Opens(wr[x]) = Cost(x, where)
      BY <3>1 DEF Cost
    <3> QED BY <3>1, <3>2, TextOpens
  <2>5. none \o wr[x] \in Text /\ Opens(none \o wr[x]) = Cost(x, where)
    BY <1>2, <2>4, TextOpens
  <2>6. CASE s = << >>
    BY <1>5, <2>2, <2>3, <2>4, <2>6
  <2>7. CASE s # << >>
    <3>1. Opens(Laid(wr, s, none) \o (none \o wr[x])) = Opens(Laid(wr, s, none)) + Cost(x, where)
      BY <1>4, <2>5, <2>7, TextOpens
    <3> QED BY <1>3, <2>2, <2>3, <2>7, <3>1
  <2> QED BY <2>6, <2>7
<1> QED BY <1>5, <1>6

(* Separators that open none add none.                                     *)
LEMMA CountedJoined ==
  ASSUME NEW where \in Places, NEW sep \in Text, Opens(sep) = 0, NEW s \in Seq(Trees), s # << >>
  PROVE  Opens(Joined([i \in DOMAIN s |-> WriteElement(s[i], where)], sep)) = Counted(where, s)
<1>w. PICK wr : wr = [x \in Trees |-> WriteElement(x, where)]
  OBVIOUS
<1>1. wr \in [Trees -> Text] /\ \A x \in Trees : wr[x] = WriteElement(x, where)
  <2>1. \A x \in Trees : WriteElement(x, where) \in Text
    BY FreelyWritten
  <2> QED BY <1>w, <2>1
<1>f. wr \in [Trees -> Text]
  BY <1>1
<1> DEFINE G == {t \in Seq(Trees) : t # << >> => Opens(Laid(wr, t, sep)) = Counted(where, t)}
<1>2. << >> \in G
  OBVIOUS
<1>3. ASSUME NEW t \in Seq(Trees), NEW x \in Trees, t \in G PROVE Append(t, x) \in G
  <2>1. Append(t, x) \in Seq(Trees)
    OBVIOUS
  <2>2. Counted(where, Append(t, x)) = Counted(where, t) + Cost(x, where) /\ Counted(where, << >>) = 0
    BY CountedMore
  <2>3. Laid(wr, Append(t, x), sep) = IF t = << >> THEN wr[x] ELSE Laid(wr, t, sep) \o (sep \o wr[x])
    <3>1. /\ Laid(wr, Append(t, x), sep) = IF t = << >> THEN wr[x] ELSE Laid(wr, t, sep) \o (sep \o wr[x])
          /\ t # << >> => Laid(wr, t, sep) \in Text
      BY <1>f, LaidMore
    <3> QED BY <3>1
  <2>4. wr[x] \in Text /\ Opens(wr[x]) = Cost(x, where) /\ Cost(x, where) \in Nat
    <3>1. wr[x] \in Text /\ wr[x] = WriteElement(x, where)
      BY <1>1
    <3>2. Opens(wr[x]) = Cost(x, where)
      BY <3>1 DEF Cost
    <3> QED BY <3>1, <3>2, TextOpens
  <2>5. sep \o wr[x] \in Text /\ Opens(sep \o wr[x]) = Cost(x, where)
    BY <2>4, TextOpens
  <2>6. CASE t = << >>
    <3>1. Opens(Laid(wr, Append(t, x), sep)) = Counted(where, Append(t, x))
      BY <2>2, <2>3, <2>4, <2>6
    <3> QED BY <2>1, <3>1
  <2>7. CASE t # << >>
    <3>1. Laid(wr, t, sep) \in Text
      BY <1>1, <2>7, LaidTyped
    <3>2. Opens(Laid(wr, t, sep) \o (sep \o wr[x])) = Opens(Laid(wr, t, sep)) + Cost(x, where)
      BY <2>5, <3>1, TextOpens
    <3>3. Opens(Laid(wr, t, sep)) = Counted(where, t)
      BY <1>3, <2>7
    <3>4. Opens(Laid(wr, Append(t, x), sep)) = Counted(where, Append(t, x))
      BY <2>2, <2>3, <2>7, <3>2, <3>3
    <3> QED BY <2>1, <3>4
  <2> QED BY <2>6, <2>7
<1>4. \A t \in Seq(Trees) : t \in G
  <2> HIDE DEF G
  <2> QED BY <1>2, <1>3, SequenceInduction
<1>5. Opens(Laid(wr, s, sep)) = Counted(where, s)
  BY <1>4
<1>6. [i \in DOMAIN s |-> wr[s[i]]] = [i \in DOMAIN s |-> WriteElement(s[i], where)]
  <2>1. \A i \in DOMAIN s : s[i] \in Trees
    OBVIOUS
  <2> QED BY <1>1, <2>1
<1> QED BY <1>5, <1>6 DEF Laid

(* And several more add what they open: by induction on them.              *)
LEMMA CountedBoth ==
  ASSUME NEW where \in Places, NEW s \in Seq(Trees), NEW t \in Seq(Trees)
  PROVE  Counted(where, s \o t) = Counted(where, s) + Counted(where, t)
<1> DEFINE G == {u \in Seq(Trees) : Counted(where, s \o u) = Counted(where, s) + Counted(where, u)}
<1>0. \A u \in Seq(Trees) : /\ Counted(where, u) \in Nat
                            /\ \A x \in Trees : Counted(where, Append(u, x)) = Counted(where, u) + Cost(x, where)
  BY CountedMore
<1>1. << >> \in G
  <2>1. s \o << >> = s /\ << >> \in Seq(Trees)
    BY ConcatEmptySeq
  <2>2. Counted(where, << >>) = 0
    BY CountedMore
  <2> QED BY <1>0, <2>1, <2>2
<1>2. ASSUME NEW u \in Seq(Trees), NEW x \in Trees, u \in G PROVE Append(u, x) \in G
  <2>1. s \o u \in Seq(Trees) /\ Append(u, x) \in Seq(Trees)
    BY ConcatProperties, AppendProperties
  <2>2. s \o Append(u, x) = Append(s \o u, x)
    OBVIOUS
  <2>3. Counted(where, s \o Append(u, x)) = Counted(where, s \o u) + Cost(x, where)
    BY <1>0, <2>1, <2>2
  <2>4. /\ Counted(where, s \o u) = Counted(where, s) + Counted(where, u)
        /\ Counted(where, Append(u, x)) = Counted(where, u) + Cost(x, where)
    BY <1>0, <1>2
  <2>5. Counted(where, s) \in Nat /\ Counted(where, u) \in Nat /\ Cost(x, where) \in Nat
    BY <1>0, CostIn
  <2>6. Counted(where, s \o Append(u, x)) = Counted(where, s) + Counted(where, Append(u, x))
    BY <2>3, <2>4, <2>5
  <2> QED BY <2>1, <2>6
<1> HIDE DEF G
<1>3. \A u \in Seq(Trees) : u \in G
  BY <1>1, <1>2, SequenceInduction
<1> QED BY <1>3 DEF G

(* One alone counts for itself.                                            *)
LEMMA CountedOne ==
  ASSUME NEW where \in Places, NEW x \in Trees
  PROVE  Counted(where, <<x>>) = Cost(x, where) /\ Cost(x, where) \in Nat
<1>1. << >> \in Seq(Trees) /\ Append(<< >>, x) = <<x>>
  OBVIOUS
<1>2. Counted(where, Append(<< >>, x)) = Counted(where, << >>) + Cost(x, where) /\ Counted(where, << >>) = 0
  BY <1>1, CountedMore
<1>3. Cost(x, where) \in Nat
  BY CostIn
<1> QED BY <1>1, <1>2, <1>3

(* The place of the parts of a node, and what its own place adds.          *)
Context(kind) == IF kind = "alt" THEN "free" ELSE "concat"
Extra(kind, where) == IF where = "repeat" \/ (where = "concat" /\ kind = "alt") THEN 1 ELSE 0

(* Without its own parentheses an element opens those of its parts.        *)
LEMMA BaredOpens ==
  ASSUME NEW x \in Trees
  PROVE  /\ x.kind = "optional" => x.parts[1] \in Trees /\ Opens(Bared(x)) = Cost(x.parts[1], "free")
         /\ x.kind = "repeat" => x.parts[1] \in Trees /\ Opens(Bared(x)) = Cost(x.parts[1], "repeat")
         /\ x.kind \in {"alt", "concat"} =>
              x.parts \in Seq(Trees) /\ x.parts # << >> /\ Opens(Bared(x)) = Counted(Context(x.kind), x.parts)
<1>0. x \in Over(Trees)
  BY TreesOver
<1>p. "free" \in Places /\ "concat" \in Places /\ "repeat" \in Places
  BY DEF Places
<1>1. CASE x.kind = "optional"
  <2>1. x.parts[1] \in Trees
    BY <1>0, <1>1, OverFacts
  <2>o. PICK o : o = <<"[">>
    OBVIOUS
  <2>c. PICK c : c = <<"]">>
    OBVIOUS
  <2>b. PICK b : b = WriteElement(x.parts[1], "free")
    OBVIOUS
  <2>2. o \in Text /\ Opens(o) = 0 /\ c \in Text /\ Opens(c) = 0
    BY <2>c, <2>o, SignsWritten, SignsOpen
  <2>3. b \in Text
    BY <1>p, <2>1, <2>b, FreelyWritten
  <2>4. Bared(x) = o \o b \o c
    BY <1>1, <2>b, <2>c, <2>o, BaredIs
  <2>u. PICK u : u = o \o b
    OBVIOUS
  <2>5. u \in Text /\ Opens(u) = Opens(b) /\ Opens(b) \in Nat
    BY <2>2, <2>3, <2>u, TextOpens
  <2>6. Opens(u \o c) = Opens(b)
    BY <2>2, <2>5, TextOpens
  <2>7. Opens(Bared(x)) = Cost(x.parts[1], "free")
    BY <2>4, <2>6, <2>b, <2>u DEF Cost
  <2> QED BY <1>1, <2>1, <2>7
<1>2. CASE x.kind = "repeat"
  <2>1. x.parts[1] \in Trees
    BY <1>0, <1>2, OverFacts
  <2>b. PICK b : b = WriteElement(x.parts[1], "repeat")
    OBVIOUS
  <2>r. PICK r : r = WriteRepeat(x)
    OBVIOUS
  <2>2. r \in Text /\ Opens(r) = 0
    BY <1>2, <2>r, BoundsOpen
  <2>3. b \in Text
    BY <1>p, <2>1, <2>b, FreelyWritten
  <2>4. Bared(x) = r \o b
    BY <1>2, <2>b, <2>r, BaredIs
  <2>5. Opens(r \o b) = Opens(b)
    BY <2>2, <2>3, TextOpens
  <2>6. Opens(Bared(x)) = Cost(x.parts[1], "repeat")
    BY <2>4, <2>5, <2>b DEF Cost
  <2> QED BY <1>2, <2>1, <2>6
<1>3. CASE x.kind \in {"alt", "concat"}
  <2>1. x.parts \in Seq(Trees) /\ x.parts # << >>
    BY <1>0, <1>3, OverFacts
  <2>2. Gap \in Text /\ Opens(Gap) = 0 /\ Bar \in Text /\ Opens(Bar) = 0
    BY Separators, SignsOpen
  <2>3. CASE x.kind = "alt"
    <3>1. Opens(Joined([i \in DOMAIN x.parts |-> WriteElement(x.parts[i], "free")], Bar)) = Counted("free", x.parts)
      BY <1>p, <2>1, <2>2, CountedJoined
    <3>2. Bared(x) = Joined([i \in DOMAIN x.parts |-> WriteElement(x.parts[i], "free")], Bar)
      BY <2>3, BaredIs
    <3> QED BY <2>1, <2>3, <3>1, <3>2 DEF Context
  <2>4. CASE x.kind = "concat"
    <3>1. Opens(Joined([i \in DOMAIN x.parts |-> WriteElement(x.parts[i], "concat")], Gap)) = Counted("concat", x.parts)
      BY <1>p, <2>1, <2>2, CountedJoined
    <3>2. Bared(x) = Joined([i \in DOMAIN x.parts |-> WriteElement(x.parts[i], "concat")], Gap)
      BY <2>4, BaredIs
    <3> QED BY <2>1, <2>4, <3>1, <3>2 DEF Context
  <2> QED BY <1>3, <2>3, <2>4
<1> QED BY <1>1, <1>2, <1>3

(* A choice or a sequence opens what its parts do, and one more where it   *)
(* stands in parentheses.                                                  *)
LEMMA NodeCost ==
  ASSUME NEW x \in Trees, x.kind \in {"alt", "concat"}, NEW where \in Places
  PROVE  /\ x.parts \in Seq(Trees) /\ Context(x.kind) \in Places /\ Counted(Context(x.kind), x.parts) \in Nat
         /\ Cost(x, where) = Counted(Context(x.kind), x.parts) + Extra(x.kind, where)
<1>1. x.parts \in Seq(Trees) /\ Opens(Bared(x)) = Counted(Context(x.kind), x.parts) /\ Opens(Bared(x)) \in Nat
  BY BaredOpens, CostIn
<1>2. Context(x.kind) \in Places
  BY DEF Context, Places
<1>b. PICK b : b = Opens(Bared(x))
  OBVIOUS
<1>3. /\ Cost(x, "free") = b
      /\ Cost(x, "concat") = b + (IF x.kind = "alt" THEN 1 ELSE 0)
      /\ Cost(x, "repeat") = b + (IF x.kind \in {"alt", "concat", "repeat"} THEN 1 ELSE 0)
  BY <1>b, CostIn
<1>4. b \in Nat
  BY <1>1, <1>b
<1>5. CASE where = "free"
  <2>1. Extra(x.kind, where) = 0
    BY <1>5 DEF Extra
  <2> QED BY <1>1, <1>2, <1>3, <1>4, <1>5, <1>b, <2>1
<1>6. CASE where = "concat"
  <2>1. Extra(x.kind, where) = IF x.kind = "alt" THEN 1 ELSE 0
    BY <1>6 DEF Extra
  <2> QED BY <1>1, <1>2, <1>3, <1>4, <1>6, <1>b, <2>1
<1>7. CASE where = "repeat"
  <2>1. Extra(x.kind, where) = 1
    BY <1>7 DEF Extra
  <2> QED BY <1>1, <1>2, <1>3, <1>4, <1>7, <1>b, <2>1
<1> QED BY <1>5, <1>6, <1>7 DEF Places

(* A list unwrapped where it is of one opens no more than the list does.   *)
LEMMA UnwrapCost ==
  ASSUME NEW kind \in {"alt", "concat"}, NEW s \in Seq(Trees), s # << >>, NEW where \in Places
  PROVE  /\ UnwrapSingle(s, kind) \in Trees /\ Counted(Context(kind), s) \in Nat
         /\ Cost(UnwrapSingle(s, kind), where) <= Counted(Context(kind), s) + Extra(kind, where)
<1>0. Context(kind) \in Places /\ Extra(kind, where) \in Nat
  BY DEF Context, Places, Extra
<1>c. Counted(Context(kind), s) \in Nat
  BY <1>0, CountedMore
<1>1. CASE Len(s) = 1
  <2>1. PICK x \in Trees : s = <<x>>
    <3>1. s[1] \in Trees /\ s = <<s[1]>>
      BY <1>1
    <3> QED BY <3>1
  <2>2. UnwrapSingle(s, kind) = x
    BY <1>1, <2>1 DEF UnwrapSingle
  <2>3. Counted(Context(kind), s) = Cost(x, Context(kind))
    BY <1>0, <2>1, CountedOne
  <2>4. Cost(x, where) <= Cost(x, Context(kind)) + Extra(kind, where)
    <3>1. /\ Cost(x, "free") \in Nat /\ Cost(x, "concat") \in Nat /\ Cost(x, "repeat") \in Nat
          /\ Cost(x, "free") <= Cost(x, "concat") /\ Cost(x, "concat") <= Cost(x, "repeat")
          /\ Cost(x, "repeat") <= Cost(x, "free") + 1
      BY CostRises
    <3>a. PICK a, b, c : a = Cost(x, "free") /\ b = Cost(x, "concat") /\ c = Cost(x, "repeat")
      OBVIOUS
    <3>2. a \in Nat /\ b \in Nat /\ c \in Nat /\ a <= b /\ b <= c /\ c <= a + 1
      BY <3>1, <3>a
    <3>3. CASE kind = "alt"
      <4>1. Cost(x, Context(kind)) = a
        BY <3>3, <3>a DEF Context
      <4>2. CASE where = "free"
        <5>1. Extra(kind, where) = 0 /\ Cost(x, where) = a
          BY <3>a, <4>2 DEF Extra
        <5> QED BY <3>2, <4>1, <5>1
      <4>3. CASE where = "concat"
        <5>1. Extra(kind, where) = 1 /\ Cost(x, where) = b
          BY <3>3, <3>a, <4>3 DEF Extra
        <5> QED BY <3>2, <4>1, <5>1
      <4>4. CASE where = "repeat"
        <5>1. Extra(kind, where) = 1 /\ Cost(x, where) = c
          BY <3>a, <4>4 DEF Extra
        <5> QED BY <3>2, <4>1, <5>1
      <4>5. where = "free" \/ where = "concat" \/ where = "repeat"
        BY DEF Places
      <4> QED BY <4>2, <4>3, <4>4, <4>5, Zenon
    <3>4. CASE kind = "concat"
      <4>1. Cost(x, Context(kind)) = b
        BY <3>4, <3>a DEF Context
      <4>2. CASE where = "free"
        <5>1. Extra(kind, where) = 0 /\ Cost(x, where) = a
          BY <3>a, <3>4, <4>2 DEF Extra
        <5> QED BY <3>2, <4>1, <5>1
      <4>3. CASE where = "concat"
        <5>1. Extra(kind, where) = 0 /\ Cost(x, where) = b
          BY <3>4, <3>a, <4>3 DEF Extra
        <5> QED BY <3>2, <4>1, <5>1
      <4>4. CASE where = "repeat"
        <5>1. Extra(kind, where) = 1 /\ Cost(x, where) = c
          BY <3>a, <4>4 DEF Extra
        <5> QED BY <3>2, <4>1, <5>1
      <4>5. where = "free" \/ where = "concat" \/ where = "repeat"
        BY DEF Places
      <4> QED BY <4>2, <4>3, <4>4, <4>5, Zenon
    <3> QED BY <3>3, <3>4
  <2> QED BY <1>c, <2>2, <2>3, <2>4
<1>2. CASE Len(s) # 1
  <2>u. PICK u : u = UnwrapSingle(s, kind)
    OBVIOUS
  <2>1. u = [kind |-> kind, parts |-> s]
    BY <1>2, <2>u DEF UnwrapSingle
  <2>2. u \in Trees
    <3>1. u = Alt(s) \/ u = Concat(s)
      BY <2>1 DEF Alt, Concat
    <3> QED BY <3>1, TreesOver DEF Over
  <2>3. u.kind = kind /\ u.parts = s
    BY <2>1
  <2>4. Cost(u, where) = Counted(Context(kind), s) + Extra(kind, where)
    <3>1. Cost(u, where) = Counted(Context(u.kind), u.parts) + Extra(u.kind, where)
      BY <2>2, <2>3, NodeCost
    <3> QED BY <2>3, <3>1
  <2> QED BY <1>0, <1>c, <2>2, <2>4, <2>u
<1> QED BY <1>1, <1>2

(* What dissolving does to elements, one by one.                           *)
LEMMA FlattenedTrees ==
  ASSUME NEW kind \in {"alt", "concat"}, NEW u \in Seq(Trees)
  PROVE  /\ Flattened(u, kind) \in Seq(Trees)
         /\ Flattened(<< >>, kind) = << >>
         /\ u # << >> => Flattened(u, kind) # << >>
         /\ \A x \in Trees : Flattened(Append(u, x), kind) = Flattened(u, kind) \o Dissolved(x, kind)
<1> DEFINE X == Trees
           Y == Trees
<1>1. \A x \in X : Dissolved(x, kind) \in Seq(Y) \ {<< >>}
  BY DissolvedTrees
<1>2. u \in Seq(X)
  OBVIOUS
<1> HIDE DEF X, Y
<1>3. /\ Flattened(u, kind) \in Seq(Y)
      /\ Flattened(<< >>, kind) = << >>
      /\ u # << >> => Flattened(u, kind) # << >>
      /\ \A x \in X : Flattened(Append(u, x), kind) = Flattened(u, kind) \o Dissolved(x, kind)
  BY <1>1, <1>2, FlattenedFacts
<1> QED BY <1>3 DEF X, Y

(* Dissolving what is of the kind changes nothing in a row.                *)
LEMMA FlattenedCost ==
  ASSUME NEW kind \in {"alt", "concat"}, NEW w \in Seq(Trees)
  PROVE  /\ Flattened(w, kind) \in Seq(Trees)
         /\ Counted(Context(kind), Flattened(w, kind)) = Counted(Context(kind), w)
<1>p. Context(kind) \in Places
  BY DEF Context, Places
<1>0. \A x \in Trees : Dissolved(x, kind) \in Seq(Trees) \ {<< >>}
  BY DissolvedTrees
<1>f. ASSUME NEW u \in Seq(Trees)
      PROVE  /\ Flattened(u, kind) \in Seq(Trees)
             /\ Flattened(<< >>, kind) = << >>
             /\ u # << >> => Flattened(u, kind) # << >>
             /\ \A x \in Trees : Flattened(Append(u, x), kind) = Flattened(u, kind) \o Dissolved(x, kind)
  BY FlattenedTrees
<1>c. PICK c : c = Context(kind)
  OBVIOUS
<1>d. ASSUME NEW x \in Trees PROVE Counted(c, Dissolved(x, kind)) = Cost(x, c)
  <2>1. CASE x.kind = kind
    <3>1. Cost(x, Context(kind)) = Counted(Context(kind), x.parts) + Extra(kind, Context(kind))
          /\ Counted(Context(kind), x.parts) \in Nat
      BY <1>p, <2>1, NodeCost
    <3>2. Extra(kind, Context(kind)) = 0
      BY DEF Extra, Context
    <3> QED BY <1>c, <2>1, <3>1, <3>2 DEF Dissolved
  <2>2. CASE x.kind # kind
    BY <1>c, <1>p, <2>2, CountedOne DEF Dissolved
  <2> QED BY <2>1, <2>2
<1> DEFINE S == {u \in Seq(Trees) : Counted(c, Flattened(u, kind)) = Counted(c, u)}
<1>1. << >> \in S
  <2>1. << >> \in Seq(Trees)
    OBVIOUS
  <2>2. Flattened(<< >>, kind) = << >>
    BY <2>1, <1>f
  <2> QED BY <2>1, <2>2
<1>2. ASSUME NEW u \in Seq(Trees), NEW x \in Trees, u \in S PROVE Append(u, x) \in S
  <2>1. /\ Flattened(u, kind) \in Seq(Trees)
        /\ Flattened(Append(u, x), kind) = Flattened(u, kind) \o Dissolved(x, kind)
    BY <1>f
  <2>2. Counted(c, Flattened(Append(u, x), kind)) = Counted(c, Flattened(u, kind)) + Counted(c, Dissolved(x, kind))
    BY <1>0, <1>c, <1>p, <2>1, CountedBoth
  <2>3. Counted(c, Append(u, x)) = Counted(c, u) + Cost(x, c) /\ Append(u, x) \in Seq(Trees)
    BY <1>c, <1>p, CountedMore, AppendProperties
  <2>4. Counted(c, Dissolved(x, kind)) = Cost(x, c) /\ Counted(c, Flattened(u, kind)) = Counted(c, u)
    BY <1>2, <1>d
  <2>5. Counted(c, Flattened(Append(u, x), kind)) = Counted(c, Append(u, x))
    <3> HIDE DEF S
    <3> QED BY <2>2, <2>3, <2>4
  <2> QED BY <2>3, <2>5
<1>3. \A u \in Seq(Trees) : u \in S
  <2> HIDE DEF S
  <2> QED BY <1>1, <1>2, SequenceInduction
<1>4. Flattened(w, kind) \in Seq(Trees)
  BY <1>0, FlattenedFacts
<1> QED BY <1>3, <1>4, <1>c

(* Elements that each open no more, canonicalized, open no more in a row.  *)
LEMMA CountedLess ==
  ASSUME NEW where \in Places, NEW s \in Seq(Trees), NEW t \in Seq(Trees), Len(s) = Len(t),
         \A i \in 1 .. Len(s) : Cost(s[i], where) <= Cost(t[i], where)
  PROVE  Counted(where, s) <= Counted(where, t)
<1>0. Len(s) \in Nat
  OBVIOUS
<1>c. \A r \in Seq(Trees) : /\ Counted(where, r) \in Nat /\ Counted(where, << >>) = 0
                            /\ \A x \in Trees : Counted(where, Append(r, x)) = Counted(where, r) + Cost(x, where)
  BY CountedMore
<1>t. \A x \in Trees : Cost(x, where) \in Nat
  BY CostIn
<1> DEFINE Up(r, n) == SubSeq(r, 1, n)
<1> DEFINE G == {n \in Nat : n <= Len(s) => Counted(where, Up(s, n)) <= Counted(where, Up(t, n))}
<1>1. 0 \in G
  <2>1. Up(s, 0) = << >> /\ Up(t, 0) = << >>
    OBVIOUS
  <2>2. << >> \in Seq(Trees)
    OBVIOUS
  <2> HIDE DEF Up
  <2> QED BY <1>c, <2>1, <2>2
<1>2. ASSUME NEW n \in Nat, n \in G PROVE n + 1 \in G
  <2> SUFFICES ASSUME n + 1 <= Len(s) PROVE Counted(where, Up(s, n + 1)) <= Counted(where, Up(t, n + 1))
    OBVIOUS
  <2>1. /\ n <= Len(s) /\ n + 1 \in 1 .. Len(s) /\ n + 1 \in 1 .. Len(t)
    BY <1>0
  <2>2. Counted(where, Up(s, n)) <= Counted(where, Up(t, n))
    BY <1>2, <2>1
  <2>3. Up(s, n) \in Seq(Trees) /\ Up(t, n) \in Seq(Trees) /\ s[n + 1] \in Trees /\ t[n + 1] \in Trees
    BY <2>1
  <2>4. Up(s, n + 1) = Append(Up(s, n), s[n + 1]) /\ Up(t, n + 1) = Append(Up(t, n), t[n + 1])
    BY <2>1
  <2> HIDE DEF Up
  <2>5. /\ Counted(where, Up(s, n + 1)) = Counted(where, Up(s, n)) + Cost(s[n + 1], where)
        /\ Counted(where, Up(t, n + 1)) = Counted(where, Up(t, n)) + Cost(t[n + 1], where)
    BY <1>c, <2>3, <2>4
  <2>6. Cost(s[n + 1], where) <= Cost(t[n + 1], where)
    BY <2>1
  <2>7. /\ Counted(where, Up(s, n)) \in Nat /\ Counted(where, Up(t, n)) \in Nat
        /\ Cost(s[n + 1], where) \in Nat /\ Cost(t[n + 1], where) \in Nat
    BY <1>c, <1>t, <2>3
  <2> QED BY <2>2, <2>5, <2>6, <2>7
<1>3. \A n \in Nat : n \in G
  <2> HIDE DEF G
  <2> QED BY <1>1, <1>2, CountOn
<1>4. Up(s, Len(s)) = s /\ Up(t, Len(s)) = t
  OBVIOUS
<1>5. Len(s) <= Len(s) => Counted(where, Up(s, Len(s))) <= Counted(where, Up(t, Len(s)))
  <2>1. Len(s) \in G
    <3> HIDE DEF G
    <3> QED BY <1>0, <1>3
  <2> QED BY <2>1
<1>6. Len(s) <= Len(s)
  BY <1>0
<1> HIDE DEF Up
<1> QED BY <1>4, <1>5, <1>6, Zenon

(* An option opens what stands in it; a repetition, what it repeats, and   *)
(* one more where it is repeated itself.                                   *)
LEMMA WrappedCost ==
  ASSUME NEW x \in Trees, NEW where \in Places
  PROVE  /\ x.kind = "optional" => x.parts[1] \in Trees /\ Cost(x, where) = Cost(x.parts[1], "free")
         /\ x.kind = "repeat" => /\ x.parts[1] \in Trees
                                 /\ Cost(x.parts[1], "repeat") \in Nat
                                 /\ Cost(x.parts[1], "repeat") <= Cost(x, where)
                                 /\ where # "repeat" => Cost(x, where) = Cost(x.parts[1], "repeat")
                                 /\ where = "repeat" => Cost(x, where) = Cost(x.parts[1], "repeat") + 1
<1>b. PICK b : b = Opens(Bared(x))
  OBVIOUS
<1>1. /\ b \in Nat /\ Cost(x, "free") = b
      /\ Cost(x, "concat") = b + (IF x.kind = "alt" THEN 1 ELSE 0)
      /\ Cost(x, "repeat") = b + (IF x.kind \in {"alt", "concat", "repeat"} THEN 1 ELSE 0)
  BY <1>b, CostIn
<1>w. where = "free" \/ where = "concat" \/ where = "repeat"
  BY DEF Places
<1>2. CASE x.kind = "optional"
  <2>1. Cost(x, "free") = b /\ Cost(x, "concat") = b /\ Cost(x, "repeat") = b
    BY <1>1, <1>2
  <2>2. x.parts[1] \in Trees /\ b = Cost(x.parts[1], "free")
    BY <1>2, <1>b, BaredOpens
  <2>3. Cost(x, where) = b
    BY <1>w, <2>1, Zenon
  <2> QED BY <1>2, <2>2, <2>3
<1>3. CASE x.kind = "repeat"
  <2>1. Cost(x, "free") = b /\ Cost(x, "concat") = b /\ Cost(x, "repeat") = b + 1
    BY <1>1, <1>3
  <2>2. x.parts[1] \in Trees /\ b = Cost(x.parts[1], "repeat")
    BY <1>3, <1>b, BaredOpens
  <2>3. where # "repeat" => Cost(x, where) = b
    BY <1>w, <2>1, Zenon
  <2>4. where = "repeat" => Cost(x, where) = b + 1
    BY <2>1, Zenon
  <2> QED BY <1>1, <1>3, <2>2, <2>3, <2>4
<1> QED BY <1>2, <1>3

(* Canonicalization opens no parenthesis that was not there: what it takes *)
(* out of a node is written in it where it stood.                          *)
THEOREM CanonCost == \A e \in Trees : \A where \in Places : Cost(Canonicalize(e), where) <= Cost(e, where)
<1> DEFINE S == {e \in Trees : \A where \in Places : Cost(Canonicalize(e), where) <= Cost(e, where)}
<1>p. "free" \in Places /\ "concat" \in Places /\ "repeat" \in Places
  BY DEF Places
<1>1. ASSUME NEW e \in Over(Trees \cap S) PROVE e \in S
  <2>1. e \in Trees /\ e \in Over(Trees)
    <3>1. Trees \cap S \subseteq Trees
      OBVIOUS
    <3> HIDE DEF S
    <3> QED BY <3>1, OverGrows, TreesOver
  <2>2. \A i \in 1 .. Len(e.parts) : e.parts[i] \in S
    <3>1. e.parts \in Seq(Trees \cap S)
      <4> HIDE DEF S
      <4> QED BY OverFacts
    <3> HIDE DEF S
    <3> QED BY <3>1
  <2> PICK w : w = Parts(e)
    OBVIOUS
  <2>3. /\ w \in Seq(Trees) /\ Len(w) = Len(e.parts) /\ Len(w) \in Nat
        /\ DOMAIN e.parts = 1 .. Len(e.parts)
        /\ Canonicalize(e) = CanonStep(e, w) /\ Canonicalize(e) \in Trees
        /\ \A i \in 1 .. Len(w) : w[i] = Canonicalize(e.parts[i]) /\ w[i] \in Trees
    <3>1. Parts(e) \in Seq(Trees) /\ \A i \in 1 .. Len(e.parts) : Parts(e)[i] = Canonicalize(e.parts[i])
      BY <2>1, PartsFacts
    <3> QED BY <2>1, <3>1, PartsFacts, CanonicalizeIs
  <2>4. \A i \in 1 .. Len(w) : \A where \in Places : Cost(w[i], where) <= Cost(e.parts[i], where)
    BY <2>2, <2>3
  <2> HIDE DEF S
  <2>s. SUFFICES ASSUME NEW where \in Places PROVE Cost(Canonicalize(e), where) <= Cost(e, where)
    BY <2>1 DEF S
  <2>6. CASE e.kind \in {"alt", "concat"}
    <3> PICK k \in {"alt", "concat"} : k = e.kind
      BY <2>6
    <3>1. w # << >> /\ Canonicalize(e) = UnwrapSingle(Flattened(w, k), k)
      BY <2>1, <2>3, <2>6, StepFacts
    <3>2. /\ Flattened(w, k) \in Seq(Trees)
          /\ w # << >> => Flattened(w, k) # << >>
      BY <2>3, FlattenedTrees
    <3>3. Counted(Context(k), Flattened(w, k)) = Counted(Context(k), w)
      BY <2>3, FlattenedCost
    <3>4. /\ UnwrapSingle(Flattened(w, k), k) \in Trees /\ Counted(Context(k), Flattened(w, k)) \in Nat
          /\ Cost(UnwrapSingle(Flattened(w, k), k), where) <= Counted(Context(k), Flattened(w, k)) + Extra(k, where)
      BY <3>1, <3>2, UnwrapCost
    <3>5. /\ e.parts \in Seq(Trees) /\ Context(k) \in Places /\ Counted(Context(k), e.parts) \in Nat
          /\ Cost(e, where) = Counted(Context(k), e.parts) + Extra(k, where)
      BY <2>1, <2>6, NodeCost
    <3>6. Counted(Context(k), w) <= Counted(Context(k), e.parts)
      BY <2>3, <2>4, <3>5, CountedLess
    <3>7. Extra(k, where) \in Nat
      BY DEF Extra
    <3>a. PICK a, b, c, d : /\ a = Cost(Canonicalize(e), where) /\ b = Counted(Context(k), Flattened(w, k))
                            /\ c = Cost(e, where) /\ d = Extra(k, where)
      OBVIOUS
    <3>b. PICK g : g = Counted(Context(k), e.parts)
      OBVIOUS
    <3>8. a <= b + d
      BY <3>1, <3>4, <3>a
    <3>9. b \in Nat /\ b <= g /\ g \in Nat /\ c = g + d /\ d \in Nat
      BY <3>3, <3>4, <3>5, <3>6, <3>7, <3>a, <3>b
    <3>10. a \in Nat
      BY <2>3, <3>a, CostIn
    <3>11. a <= c
      BY <3>8, <3>9, <3>10
    <3> QED BY <3>11, <3>a
  <2>7. CASE e.kind \in {"optional", "repeat"}
    <3>1. Len(w) = 1 /\ w[1] \in Trees /\ e.parts[1] \in Trees
      BY <2>1, <2>3, <2>7, OverFacts
    <3>2. \A here \in Places : Cost(w[1], here) <= Cost(e.parts[1], here)
      BY <2>4, <3>1
    <3>3. /\ Cost(w[1], "free") <= Cost(e.parts[1], "free")
          /\ Cost(w[1], "repeat") <= Cost(e.parts[1], "repeat")
      BY <1>p, <3>2
    <3>a. PICK a, b, c, d : /\ a = Cost(w[1], "free") /\ b = Cost(w[1], "repeat")
                            /\ c = Cost(e.parts[1], "free") /\ d = Cost(e.parts[1], "repeat")
      OBVIOUS
    <3>4. a \in Nat /\ b \in Nat /\ c \in Nat /\ d \in Nat /\ a <= c /\ b <= d /\ a <= b /\ c <= d
      <4>1. /\ Cost(w[1], "free") \in Nat /\ Cost(w[1], "concat") \in Nat /\ Cost(w[1], "repeat") \in Nat
            /\ Cost(w[1], "free") <= Cost(w[1], "concat") /\ Cost(w[1], "concat") <= Cost(w[1], "repeat")
        BY <3>1, CostRises
      <4>2. /\ Cost(e.parts[1], "free") \in Nat /\ Cost(e.parts[1], "concat") \in Nat /\ Cost(e.parts[1], "repeat") \in Nat
            /\ Cost(e.parts[1], "free") <= Cost(e.parts[1], "concat")
            /\ Cost(e.parts[1], "concat") <= Cost(e.parts[1], "repeat")
        BY <3>1, CostRises
      <4> QED BY <3>3, <3>a, <4>1, <4>2
    <3>5. CASE e.kind = "optional"
      <4>1. Canonicalize(e) = Opt(w[1])
        BY <2>1, <2>3, <3>5, StepFacts
      <4>2. Opt(w[1]) \in Trees /\ Opt(w[1]).kind = "optional" /\ Opt(w[1]).parts[1] = w[1]
        BY <2>3, <4>1 DEF Opt
      <4>3. Cost(Opt(w[1]), where) = Cost(w[1], "free")
        BY <4>2, WrappedCost
      <4>4. Cost(e, where) = Cost(e.parts[1], "free")
        BY <2>1, <3>5, WrappedCost
      <4> QED BY <3>3, <4>1, <4>3, <4>4
    <3>6. CASE e.kind = "repeat"
      <4>1. /\ Canonicalize(e) = Respelled(e, w[1])
            /\ e.min \in Nat /\ e.max \in Nat \cup {None}
            /\ e = Repeat(e.min, e.max, e.parts[1])
        BY <2>1, <2>3, <3>6, StepFacts, OverFacts
      <4>2. /\ Cost(e.parts[1], "repeat") \in Nat
            /\ Cost(e.parts[1], "repeat") <= Cost(e, where)
            /\ where # "repeat" => Cost(e, where) = Cost(e.parts[1], "repeat")
            /\ where = "repeat" => Cost(e, where) = Cost(e.parts[1], "repeat") + 1
        BY <2>1, <3>6, WrappedCost
      <4>d. PICK g : g = Cost(e, where)
        OBVIOUS
      <4>3. g \in Nat /\ d <= g /\ (where # "repeat" => g = d) /\ (where = "repeat" => g = d + 1)
        BY <2>1, <3>4, <3>a, <4>2, <4>d
      <4>5. CASE e.min = 0 /\ e.max = 1
        <5>1. Canonicalize(e) = Opt(w[1])
          BY <3>6, <4>1, <4>5 DEF Respelled, IsExactly
        <5>2. Opt(w[1]) \in Trees /\ Opt(w[1]).kind = "optional" /\ Opt(w[1]).parts[1] = w[1]
          BY <2>3, <5>1 DEF Opt
        <5>3. Cost(Opt(w[1]), where) = Cost(w[1], "free")
          BY <5>2, WrappedCost
        <5>4. Cost(Canonicalize(e), where) = a
          BY <3>a, <5>1, <5>3
        <5> QED BY <3>4, <4>3, <4>d, <5>4
      <4>6. CASE e.min = 1 /\ e.max = 1
        <5>1. Canonicalize(e) = w[1]
          BY <3>6, <4>1, <4>6 DEF Respelled, IsExactly
        <5>2. /\ Cost(w[1], "free") \in Nat /\ Cost(w[1], "concat") \in Nat /\ Cost(w[1], "repeat") \in Nat
              /\ Cost(w[1], "free") <= Cost(w[1], "concat") /\ Cost(w[1], "concat") <= Cost(w[1], "repeat")
          BY <3>1, CostRises
        <5>3. Cost(w[1], where) <= Cost(w[1], "repeat") /\ Cost(w[1], where) \in Nat
          <6>1. CASE where = "free"
            BY <5>2, <6>1
          <6>2. CASE where = "concat"
            BY <5>2, <6>2
          <6>3. CASE where = "repeat"
            BY <5>2, <6>3
          <6>4. where = "free" \/ where = "concat" \/ where = "repeat"
            BY DEF Places
          <6> QED BY <6>1, <6>2, <6>3, <6>4, Zenon
        <5>4. Cost(Canonicalize(e), where) <= b /\ Cost(Canonicalize(e), where) \in Nat
          BY <3>a, <5>1, <5>3
        <5> QED BY <3>4, <4>3, <4>d, <5>4
      <4>7. CASE ~ (e.max = 1 /\ e.min \in {0, 1})
        <5>1. [e EXCEPT !.parts = <<w[1]>>] = Repeat(e.min, e.max, w[1])
          <6>1. PICK lo, hi, z : e = [kind |-> "repeat", parts |-> <<z>>, min |-> lo, max |-> hi]
            BY <4>1 DEF Repeat
          <6> QED BY <6>1 DEF Repeat
        <5>2. Canonicalize(e) = Repeat(e.min, e.max, w[1])
          BY <4>1, <4>7, <5>1 DEF Respelled, IsExactly
        <5>r. PICK r : r = Canonicalize(e)
          OBVIOUS
        <5>3. r \in Trees /\ r.kind = "repeat" /\ r.parts[1] = w[1]
          BY <2>3, <5>2, <5>r DEF Repeat
        <5>4. /\ Cost(w[1], "repeat") <= Cost(r, where)
              /\ where # "repeat" => Cost(r, where) = Cost(w[1], "repeat")
              /\ where = "repeat" => Cost(r, where) = Cost(w[1], "repeat") + 1
          BY <5>3, WrappedCost
        <5>5. (where # "repeat" => Cost(r, where) = b) /\ (where = "repeat" => Cost(r, where) = b + 1)
          BY <3>a, <5>4
        <5>6. CASE where = "repeat"
          BY <3>4, <4>3, <4>d, <5>5, <5>6, <5>r
        <5>7. CASE where # "repeat"
          BY <3>4, <4>3, <4>d, <5>5, <5>7, <5>r
        <5> QED BY <5>6, <5>7
      <4> QED BY <4>5, <4>6, <4>7
    <3> QED BY <2>7, <3>5, <3>6
  <2>9. CASE e \in Leaves
    <3>1. Canonicalize(e) = e
      BY <2>1, <2>3, <2>9, StepFacts
    <3>2. Cost(e, where) \in Nat
      BY <2>1, CostIn
    <3> QED BY <3>1, <3>2
  <2> QED BY <2>1, <2>6, <2>7, <2>9, OverFacts
<1>2. \A x \in Trees : x \in S
  <2> HIDE DEF S
  <2> QED BY <1>1, TreeInduction
<1> QED BY <1>2 DEF S

(* Texts that open nothing open nothing one after the other.               *)
LEMMA LaidOpen ==
  ASSUME NEW X, NEW wr \in [X -> Text], \A x \in X : Opens(wr[x]) = 0, NEW sep \in Text, Opens(sep) = 0,
         NEW s \in Seq(X), s # << >>
  PROVE  Laid(wr, s, sep) \in Text /\ Opens(Laid(wr, s, sep)) = 0
<1> DEFINE G == {t \in Seq(X) : t # << >> => Opens(Laid(wr, t, sep)) = 0}
<1>1. << >> \in G
  OBVIOUS
<1>2. ASSUME NEW t \in Seq(X), NEW x \in X, t \in G PROVE Append(t, x) \in G
  <2>1. Append(t, x) \in Seq(X)
    OBVIOUS
  <2>2. /\ Laid(wr, Append(t, x), sep) = IF t = << >> THEN wr[x] ELSE Laid(wr, t, sep) \o (sep \o wr[x])
        /\ t # << >> => Laid(wr, t, sep) \in Text
    BY LaidMore
  <2>3. wr[x] \in Text /\ Opens(wr[x]) = 0
    OBVIOUS
  <2>4. sep \o wr[x] \in Text /\ Opens(sep \o wr[x]) = 0
    BY <2>3, TextOpens
  <2>5. CASE t = << >>
    BY <2>1, <2>2, <2>3, <2>5
  <2>6. CASE t # << >>
    <3>1. Opens(Laid(wr, t, sep)) = 0
      BY <1>2, <2>6
    <3>2. Opens(Laid(wr, t, sep) \o (sep \o wr[x])) = 0
      BY <2>2, <2>4, <2>6, <3>1, TextOpens
    <3> QED BY <2>1, <2>2, <2>6, <3>2
  <2> QED BY <2>5, <2>6
<1>3. \A t \in Seq(X) : t \in G
  <2> HIDE DEF G
  <2> QED BY <1>1, <1>2, SequenceInduction
<1>4. Laid(wr, s, sep) \in Text
  BY LaidTyped
<1> QED BY <1>3, <1>4

(* What is between delimiters opens what it is made of.                    *)
LEMMA BetweenOpens ==
  ASSUME NEW a \in Text, Opens(a) = 0, NEW v \in Text, NEW b \in Text, Opens(b) = 0
  PROVE  a \o v \o b \in Text /\ Opens(a \o v \o b) = Opens(v)
<1>u. PICK u : u = a \o v
  OBVIOUS
<1>1. u \in Text /\ Opens(u) = Opens(v) /\ Opens(v) \in Nat
  BY <1>u, TextOpens
<1>2. u \o b \in Text /\ Opens(u \o b) = Opens(v)
  BY <1>1, TextOpens
<1> QED BY <1>2, <1>u

(* A reference and a number open nothing; a string and prose, what they    *)
(* quote.                                                                  *)
LEMMA LeavesOpen ==
  /\ \A n \in Names : Cost(Ref(n), "repeat") = 0
  /\ \A v \in Seq(QUOTABLE), c \in BOOLEAN : Cost(Str(v, c), "repeat") = Opens(v)
  /\ \A v \in Seq(Values) : v # << >> => Cost(Num(v), "repeat") = 0
  /\ \A lo, hi \in Values : Cost(Span(lo, hi), "repeat") = 0
  /\ \A v \in Seq(PROSE) : Cost(ProseVal(v), "repeat") = Opens(v)
<1> DEFINE quote == <<"DQUOTE">>
           percent == <<"%", "s">>
           hex == <<"%", "x">>
           dash == <<"-">>
           dot == <<".">>
           open == <<"<">>
           shut == <<">">>
<1>s. /\ quote \in Text /\ hex \in Text /\ dash \in Text /\ dot \in Text /\ percent \in Text
      /\ open \in Text /\ shut \in Text
  BY SignsWritten
<1>z. /\ Opens(quote) = 0 /\ Opens(hex) = 0 /\ Opens(dash) = 0 /\ Opens(dot) = 0 /\ Opens(percent) = 0
      /\ Opens(open) = 0 /\ Opens(shut) = 0
  BY SignsOpen
<1>0. ASSUME NEW x \in Trees, x.kind \in {"ref", "char", "num", "prose"}
      PROVE  Cost(x, "repeat") = Opens(BareOf(x, WrittenParts(x)))
  <2>b. PICK b : b = Opens(Bared(x))
    OBVIOUS
  <2>1. /\ b \in Nat
        /\ Cost(x, "repeat") = b + (IF x.kind \in {"alt", "concat", "repeat"} THEN 1 ELSE 0)
    BY <2>b, CostIn
  <2>2. Cost(x, "repeat") = b
    BY <1>0, <2>1
  <2> QED BY <2>2, <2>b DEF Bared
<1>t. \A S : S \subseteq Ascii => \A n \in Seq(S) : n \in Text
  BY Within DEF Text
<1>1. ASSUME NEW n \in Names PROVE Cost(Ref(n), "repeat") = 0
  <2>x. PICK x : x = Ref(n)
    OBVIOUS
  <2>1. x \in Trees /\ x.kind = "ref" /\ x.target = n
    BY <2>x, LeavesAre DEF Ref
  <2>2. Cost(x, "repeat") = Opens(n)
    BY <1>0, <2>1 DEF BareOf
  <2>3. n \in Seq(NameChars) /\ "(" \notin NameChars
    BY Letters DEF Names, NameChars, DIGIT
  <2>4. Opens(n) = 0
    BY <2>3, OpensNone
  <2> QED BY <2>2, <2>4, <2>x
<1>2. ASSUME NEW v \in Seq(QUOTABLE), NEW c \in BOOLEAN PROVE Cost(Str(v, c), "repeat") = Opens(v)
  <2>x. PICK x : x = Str(v, c)
    OBVIOUS
  <2>1. x \in Trees /\ x.kind = "char" /\ x.value = v /\ x.case_sensitive = c
    <3>1. Str(v, c) \in Trees
      BY LeavesAre
    <3> QED BY <2>x, <3>1 DEF Str
  <2>v. v \in Text
    BY <1>t, Signs
  <2>p. PICK p : p = IF c THEN percent ELSE << >>
    OBVIOUS
  <2>2. p \in Text /\ Opens(p) = 0
    <3> HIDE DEF percent
    <3> QED BY <1>s, <1>z, <2>p, TextOpens, NumbersWritten
  <2>3. Cost(x, "repeat") = Opens(WriteCharVal(x))
    BY <1>0, <2>1 DEF BareOf
  <2>4. WriteCharVal(x) = p \o quote \o v \o quote
    BY <2>1, <2>p DEF WriteCharVal
  <2> HIDE DEF quote, percent
  <2>u. PICK u : u = p \o quote
    OBVIOUS
  <2>5. u \in Text /\ Opens(u) = 0
    BY <1>s, <1>z, <2>2, <2>u, TextOpens
  <2>6. Opens(u \o v \o quote) = Opens(v)
    BY <1>s, <1>z, <2>5, <2>v, BetweenOpens
  <2> QED BY <2>3, <2>4, <2>6, <2>u, <2>x
<1>3. ASSUME NEW v \in Seq(Values), v # << >> PROVE Cost(Num(v), "repeat") = 0
  <2>x. PICK x : x = Num(v)
    OBVIOUS
  <2>1. x.kind = "num" /\ x.range = FALSE /\ x.value = [i \in DOMAIN v |-> [lo |-> v[i], hi |-> v[i]]]
    BY <2>x DEF Num
  <2>t. x \in Trees
    BY <1>3, <2>x, LeavesAre
  <2>2. Cost(x, "repeat") = Opens(WriteNumVal(x))
    BY <1>0, <2>1, <2>t DEF BareOf
  <2>3. [i \in DOMAIN x.value |-> WriteHex(x.value[i].lo)] = [i \in DOMAIN v |-> Hexes[v[i]]]
    <3>1. \A i \in DOMAIN v : v[i] \in Values
      OBVIOUS
    <3>2. \A i \in DOMAIN v : Hexes[v[i]] = WriteHex(v[i])
      BY <3>1 DEF Hexes
    <3>3. [i \in DOMAIN x.value |-> WriteHex(x.value[i].lo)] = [i \in DOMAIN v |-> WriteHex(v[i])]
      BY <2>1
    <3> QED BY <3>2, <3>3
  <2>w. PICK w : w = Laid(Hexes, v, dot)
    OBVIOUS
  <2>4. WriteNumVal(x) = hex \o w
    BY <2>1, <2>3, <2>w DEF WriteNumVal, Laid
  <2>5. w \in Text /\ Opens(w) = 0
    <3>1. \A n \in Values : WriteHex(n) \in Text /\ Opens(WriteHex(n)) = 0
      BY NumbersOpen, ValuesFacts
    <3>2. Hexes \in [Values -> Text]
      BY <3>1 DEF Hexes
    <3>3. \A n \in Values : Opens(Hexes[n]) = 0
      BY <3>1 DEF Hexes
    <3> HIDE DEF dot
    <3> QED BY <1>3, <1>s, <1>z, <2>w, <3>2, <3>3, LaidOpen
  <2> HIDE DEF hex
  <2>6. Opens(hex \o w) = 0
    BY <1>s, <1>z, <2>5, TextOpens
  <2> QED BY <2>2, <2>4, <2>6, <2>x
<1>4. ASSUME NEW lo \in Values, NEW hi \in Values PROVE Cost(Span(lo, hi), "repeat") = 0
  <2>x. PICK x : x = Span(lo, hi)
    OBVIOUS
  <2>1. x.kind = "num" /\ x.range = TRUE /\ x.value[1].lo = lo /\ x.value[1].hi = hi
    BY <2>x DEF Span
  <2>t. x \in Trees
    BY <2>x, LeavesAre
  <2>2. Cost(x, "repeat") = Opens(WriteNumVal(x))
    BY <1>0, <2>1, <2>t DEF BareOf
  <2>w. PICK w : w = WriteHex(lo) \o dash \o WriteHex(hi)
    OBVIOUS
  <2>3. WriteNumVal(x) = hex \o w
    BY <2>1, <2>w DEF WriteNumVal
  <2> HIDE DEF hex, dash
  <2>4. w \in Text /\ Opens(w) = 0
    <3>1. WriteHex(lo) \in Text /\ WriteHex(hi) \in Text /\ Opens(WriteHex(lo)) = 0 /\ Opens(WriteHex(hi)) = 0
      BY NumbersOpen, ValuesFacts
    <3> QED BY <1>s, <1>z, <2>w, <3>1, BetweenOpens
  <2>5. Opens(hex \o w) = 0
    BY <1>s, <1>z, <2>4, TextOpens
  <2> QED BY <2>2, <2>3, <2>5, <2>x
<1>5. ASSUME NEW v \in Seq(PROSE) PROVE Cost(ProseVal(v), "repeat") = Opens(v)
  <2>x. PICK x : x = ProseVal(v)
    OBVIOUS
  <2>1. x \in Trees /\ x.kind = "prose" /\ x.text = v
    <3>1. ProseVal(v) \in Trees
      BY LeavesAre
    <3> QED BY <2>x, <3>1 DEF ProseVal
  <2>v. v \in Text
    BY <1>t, Signs
  <2>2. Cost(x, "repeat") = Opens(open \o v \o shut)
    BY <1>0, <2>1 DEF BareOf
  <2> HIDE DEF open, shut
  <2>3. Opens(open \o v \o shut) = Opens(v)
    BY <1>s, <1>z, <2>v, BetweenOpens
  <2> QED BY <2>2, <2>3, <2>x
<1> HIDE DEF quote, percent, hex, dash, dot, open, shut
<1> QED BY <1>1, <1>2, <1>3, <1>4, <1>5

(* What is opened in a stretch is opened in every longer one.              *)
LEMMA OpenedWithin ==
  ASSUME Typed, NEW a \in 0 .. End, NEW b \in a .. End, NEW c \in b .. End, NEW d \in c .. End
  PROVE  /\ Opened(b, c) \in Nat /\ Opened(a, d) \in Nat /\ Opened(b, c) <= Opened(a, d)
         /\ Opened(a, b) \in Nat /\ Opened(a, b) + Opened(b, c) <= Opened(a, d)
<1>0. End \in Nat
  BY PeekFacts
<1>1. b \in 0 .. End /\ c \in a .. End /\ d \in b .. End /\ d \in a .. End /\ c \in 0 .. End
  BY <1>0
<1>2. Opened(a, b) \in Nat /\ Opened(a, c) = Opened(a, b) + Opened(b, c)
  BY OpenedFacts
<1>3. Opened(b, c) \in Nat
  BY <1>1, OpenedFacts
<1>4. Opened(a, c) <= Opened(a, d) /\ Opened(a, c) \in Nat
  BY <1>1, OpenedFacts
<1>5. Opened(a, d) \in Nat
  BY <1>1, OpenedFacts
<1> QED BY <1>2, <1>3, <1>4, <1>5

(* The readings in R from `p` are written with no more parentheses than are*)
(* opened in what is read.                                                 *)
Spare(R, p) == \A z \in R : z[1] \in p .. End /\ Cost(z[2], "repeat") <= Opened(p, z[1])

(* Readings from a later position open no more than the text from an       *)
(* earlier one.                                                            *)
LEMMA SpareFrom ==
  ASSUME Typed, NEW p \in 0 .. End, NEW q \in p .. End, NEW R, Spare(R, q)
  PROVE  \A z \in R : z[1] \in p .. End /\ (Cost(z[2], "repeat") \in Nat => Cost(z[2], "repeat") <= Opened(p, z[1]))
<1>0. End \in Nat
  BY PeekFacts
<1> SUFFICES ASSUME NEW z \in R
             PROVE  z[1] \in p .. End /\ (Cost(z[2], "repeat") \in Nat => Cost(z[2], "repeat") <= Opened(p, z[1]))
  OBVIOUS
<1>1. z[1] \in q .. End /\ Cost(z[2], "repeat") <= Opened(q, z[1])
  BY DEF Spare
<1>2. z[1] \in p .. End /\ z[1] \in z[1] .. End
  BY <1>0, <1>1
<1>3. Opened(q, z[1]) \in Nat /\ Opened(p, z[1]) \in Nat /\ Opened(q, z[1]) <= Opened(p, z[1])
  BY <1>1, <1>2, OpenedWithin
<1> QED BY <1>1, <1>2, <1>3

(* What is quoted is written as it is.                                     *)
LEMMA SpareQuoted ==
  ASSUME Typed, NEW p \in 0 .. End
  PROVE  /\ \A cs \in BOOLEAN : Spare(Quoted(Given, p, cs), p)
         /\ Spare(Proses(Given, p), p)
<1>0. /\ "DQUOTE" \in CHAR /\ QUOTABLE \subseteq CHAR /\ "DQUOTE" \notin QUOTABLE
      /\ "<" \in CHAR /\ ">" \in CHAR /\ PROSE \subseteq CHAR /\ ">" \notin PROSE
  BY DEF CHAR, VCHAR, QUOTABLE, PROSE, WSP
<1>e. End \in Nat
  BY PeekFacts
<1>1. ASSUME NEW open \in CHAR, NEW close \in CHAR, NEW chars, chars \subseteq CHAR, close \notin chars, "END" \notin chars,
             NEW d \in Delimited(Given, p, open, chars, close)
      PROVE  d[1] \in p .. End /\ d[2] \in Seq(chars) /\ Opens(d[2]) <= Opened(p, d[1])
  <2>1. Peek(p) = open
    <3>1. Peek(p) # open => Delimited(Given, p, open, chars, close) = {}
      BY NotDelimited
    <3> QED BY <1>1, <3>1
  <2>q. PICK q : q = Skip(p + 1, chars)
    OBVIOUS
  <2>2. /\ Delimited(Given, p, open, chars, close)
             = IF Peek(q) = close THEN {<<q + 1, TextFrom(p + 1, q)>>} ELSE {}
        /\ Peek(q) = close => q + 1 \in p + 1 .. End /\ TextFrom(p + 1, q) \in Seq(chars)
    BY <1>1, <2>1, <2>q, DelimitedFacts
  <2>3. Peek(q) = close /\ d = <<q + 1, TextFrom(p + 1, q)>>
    BY <2>2
  <2>4. d[1] = q + 1 /\ d[2] = TextFrom(p + 1, q)
    BY <2>3
  <2>5. p + 1 \in 0 .. End /\ p + 1 \in p .. End
    <3>1. q + 1 \in p + 1 .. End
      BY <2>2, <2>3
    <3> QED BY <1>e, <3>1
  <2>6. q \in p + 1 .. End
    BY <1>1, <2>5, <2>q, SkipFacts
  <2>7. q + 1 \in q .. End /\ q + 1 \in p .. End
    <3>1. q + 1 \in p + 1 .. End
      BY <2>2, <2>3
    <3> QED BY <1>e, <2>6, <3>1
  <2>8. TextFrom(p + 1, q) = Piece(Given, p + 1, q)
    BY <2>5, <2>6, PieceFacts
  <2>9. Opened(p + 1, q) <= Opened(p, q + 1)
    BY <2>5, <2>6, <2>7, OpenedWithin
  <2>10. Opens(d[2]) = Opened(p + 1, q)
    BY <2>4, <2>8 DEF Opened
  <2>11. d[2] \in Seq(chars)
    BY <2>2, <2>3, <2>4
  <2> QED BY <2>4, <2>7, <2>9, <2>10, <2>11
<1>x. "END" \notin QUOTABLE /\ "END" \notin PROSE
  <2>1. "END" \notin CHAR
    BY Letters DEF CHAR, VCHAR, WSP, DIGIT
  <2> QED BY <1>0, <2>1
<1>2. ASSUME NEW cs \in BOOLEAN, NEW z \in Quoted(Given, p, cs)
      PROVE  z[1] \in p .. End /\ Cost(z[2], "repeat") <= Opened(p, z[1])
  <2>1. PICK d \in Delimited(Given, p, "DQUOTE", QUOTABLE, "DQUOTE") : z = <<d[1], Str(d[2], cs)>>
    BY DEF Quoted
  <2>2. d[1] \in p .. End /\ d[2] \in Seq(QUOTABLE) /\ Opens(d[2]) <= Opened(p, d[1])
    BY <1>0, <1>1, <1>x
  <2>3. z[1] = d[1] /\ z[2] = Str(d[2], cs)
    BY <2>1
  <2>4. Cost(Str(d[2], cs), "repeat") = Opens(d[2])
    BY <2>2, LeavesOpen
  <2> QED BY <2>2, <2>3, <2>4
<1>3. ASSUME NEW z \in Proses(Given, p)
      PROVE  z[1] \in p .. End /\ Cost(z[2], "repeat") <= Opened(p, z[1])
  <2>1. PICK d \in Delimited(Given, p, "<", PROSE, ">") : z = <<d[1], ProseVal(d[2])>>
    BY DEF Proses
  <2>2. d[1] \in p .. End /\ d[2] \in Seq(PROSE) /\ Opens(d[2]) <= Opened(p, d[1])
    BY <1>0, <1>1, <1>x
  <2>3. z[1] = d[1] /\ z[2] = ProseVal(d[2])
    BY <2>1
  <2>4. Cost(ProseVal(d[2]), "repeat") = Opens(d[2])
    BY <2>2, LeavesOpen
  <2> QED BY <2>2, <2>3, <2>4
<1> QED BY <1>2, <1>3 DEF Spare

(* Names and numbers have none.                                            *)
LEMMA SpareNames ==
  ASSUME Typed, NEW p \in 0 .. End
  PROVE  Spare({<<n[1], Ref(n[2])>> : n \in Rulenames(Given, p)}, p)
<1>0. End \in Nat
  BY PeekFacts
<1>1. ASSUME NEW n \in Rulenames(Given, p), NEW z, z = <<n[1], Ref(n[2])>>
      PROVE  z[1] \in p .. End /\ Cost(z[2], "repeat") <= Opened(p, z[1])
  <2>1. n[1] \in p + 1 .. End
    BY RulenameFacts
  <2>2. n[2] \in Names
    BY NamesRead
  <2>3. n[1] \in p .. End
    BY <1>0, <2>1
  <2>4. Opened(p, n[1]) \in Nat
    BY <2>3, OpenedFacts
  <2>5. Cost(Ref(n[2]), "repeat") = 0
    BY <2>2, LeavesOpen
  <2>6. z[1] = n[1] /\ z[2] = Ref(n[2])
    BY <1>1
  <2> QED BY <2>3, <2>4, <2>5, <2>6
<1> QED BY <1>1 DEF Spare

(* Numbers, after their letter, open none.                                 *)
LEMMA SpareNumVals ==
  ASSUME Typed, NEW radix \in Radixes, NEW p \in 0 .. End
  PROVE  Spare(NumVals(Given, p, radix), p)
<1>0. End \in Nat
  BY PeekFacts
<1>1. Finds(NumValue(p, radix), NumVals(Given, p, radix), p, Trees, Stops)
  BY NumValFacts
<1>2. ASSUME NEW z \in NumVals(Given, p, radix)
      PROVE  z[1] \in p .. End /\ Cost(z[2], "repeat") <= Opened(p, z[1])
  <2>1. z[1] \in p + 1 .. End
    BY <1>1 DEF Finds
  <2>2. z[1] \in p .. End
    BY <1>0, <2>1
  <2>3. Opened(p, z[1]) \in Nat
    BY <2>2, OpenedFacts
  <2>4. Cost(z[2], "repeat") = 0
    <3>1. \/ \E d \in Dotted(Given, p, radix) : z = <<d[1], Num(d[2])>>
          \/ \E lo \in Numbers(Given, p, radix) :
               Peek(lo[1]) = "-" /\ \E hi \in Numbers(Given, lo[1] + 1, radix) : z = <<hi[1], Span(lo[2], hi[2])>>
      BY NumValsAre
    <3>2. ASSUME NEW d \in Dotted(Given, p, radix), z = <<d[1], Num(d[2])>> PROVE Cost(z[2], "repeat") = 0
      <4>1. Finds(DottedNumbers(p, radix), Dotted(Given, p, radix), p, NonEmpty(Values), Stops)
        BY DottedFacts
      <4>2. d[2] \in NonEmpty(Values)
        BY <4>1 DEF Finds
      <4>3. z[2] = Num(d[2])
        BY <3>2
      <4>4. d[2] \in Seq(Values) /\ d[2] # << >>
        BY <4>2 DEF NonEmpty
      <4> QED BY <4>3, <4>4, LeavesOpen
    <3>3. ASSUME NEW lo \in Numbers(Given, p, radix), Peek(lo[1]) = "-",
                 NEW hi \in Numbers(Given, lo[1] + 1, radix), z = <<hi[1], Span(lo[2], hi[2])>>
          PROVE  Cost(z[2], "repeat") = 0
      <4>1. lo[1] \in p + 1 .. End /\ lo[2] \in Values
        BY NumberTyped
      <4>2. lo[1] + 1 \in 0 .. End
        <5>1. lo[1] \in Nat
          BY <1>0, <4>1
        <5>2. lo[1] < End
          <6>1. Peek(lo[1]) = "END" <=> lo[1] >= End
            BY <5>1, PeekFacts
          <6>2. ~(lo[1] >= End)
            BY <3>3, <6>1
          <6> QED BY <1>0, <5>1, <6>2
        <5> QED BY <1>0, <5>1, <5>2
      <4>3. hi[2] \in Values
        BY <4>2, NumberTyped
      <4>4. z[2] = Span(lo[2], hi[2])
        BY <3>3
      <4> QED BY <4>1, <4>3, <4>4, LeavesOpen
    <3> QED BY <3>1, <3>2, <3>3
  <2> QED BY <2>2, <2>3, <2>4
<1> QED BY <1>2 DEF Spare

(* And what is after a percent sign is such a number or a string.          *)
LEMMA SparePercents ==
  ASSUME Typed, NEW p \in 0 .. End
  PROVE  Spare(Percents(Given, p), p)
<1>0. p \in Nat /\ End \in Nat /\ p + 1 \in Nat
  BY PeekFacts
<1>1. CASE Peek(p) # "%"
  <2>1. Percents(Given, p) = {}
    BY <1>1, PercentFacts
  <2> QED BY <2>1 DEF Spare
<1>2. CASE Peek(p) = "%"
  <2>c. PICK c : c = Peek(p + 1)
    OBVIOUS
  <2>1. /\ Here(Given, p, {"%"})
        /\ Here(Given, p + 1, {"b", "B"}) <=> c \in {"b", "B"}
        /\ Here(Given, p + 1, {"d", "D"}) <=> c \in {"d", "D"}
        /\ Here(Given, p + 1, {"x", "X"}) <=> c \in {"x", "X"}
        /\ Here(Given, p + 1, {"s", "S"}) <=> c \in {"s", "S"}
        /\ Here(Given, p + 1, {"i", "I"}) <=> c \in {"i", "I"}
    <3>1. "END" \notin {"b", "B"} /\ "END" \notin {"d", "D"} /\ "END" \notin {"x", "X"}
          /\ "END" \notin {"s", "S"} /\ "END" \notin {"i", "I"} /\ "END" \notin {"%"}
      OBVIOUS
    <3> QED BY <1>0, <1>2, <2>c, <3>1, HereFacts
  <2>2. CASE c \notin {"b", "B", "d", "D", "x", "X", "s", "S", "i", "I"}
    <3>1. Percents(Given, p) = {}
      BY <2>1, <2>2 DEF Percents
    <3> QED BY <3>1 DEF Spare
  <2>3. CASE c \in {"b", "B", "d", "D", "x", "X", "s", "S", "i", "I"}
    <3>1. p + 2 \in 0 .. End /\ p + 2 \in p .. End
      <4>1. c # "END"
        BY <2>3
      <4>2. p + 1 < End
        BY <1>0, <2>c, <4>1, PeekFacts
      <4> QED BY <1>0, <4>2
    <3>2. 2 \in Radixes /\ 10 \in Radixes /\ 16 \in Radixes
      BY DEF Radixes
    <3>3. Percents(Given, p) \in {NumVals(Given, p + 2, 2), NumVals(Given, p + 2, 10), NumVals(Given, p + 2, 16),
                                  Quoted(Given, p + 2, TRUE), Quoted(Given, p + 2, FALSE)}
      BY <2>1, <2>3 DEF Percents
    <3>4. /\ Spare(NumVals(Given, p + 2, 2), p + 2) /\ Spare(NumVals(Given, p + 2, 10), p + 2)
          /\ Spare(NumVals(Given, p + 2, 16), p + 2)
          /\ Spare(Quoted(Given, p + 2, TRUE), p + 2) /\ Spare(Quoted(Given, p + 2, FALSE), p + 2)
      BY <3>1, <3>2, SpareNumVals, SpareQuoted
    <3>R. PICK R : R = Percents(Given, p)
      OBVIOUS
    <3>5. Spare(R, p + 2)
      BY <3>3, <3>4, <3>R
    <3>6. \A z \in R : z[1] \in p .. End /\ (Cost(z[2], "repeat") \in Nat => Cost(z[2], "repeat") <= Opened(p, z[1]))
      BY <3>1, <3>5, SpareFrom
    <3>7. Finds(Percent(p), R, p, Trees, Stops)
      BY <1>2, <3>R, PercentFacts
    <3>8. \A z \in R : z[2] \in Trees
      BY <3>7 DEF Finds
    <3>9. \A y \in Trees : Cost(y, "repeat") \in Nat
      BY CostIn DEF Places
    <3> QED BY <3>6, <3>8, <3>9, <3>R DEF Spare
  <2> QED BY <2>2, <2>3
<1> QED BY <1>1, <1>2

-----------------------------------------------------------------------------
(* And so are the items and the branches read from `s`, in a row.          *)
Thrifty(x, s) ==
  /\ \A z \in x[s].items : Counted("concat", z[2]) <= Opened(s, z[1])
  /\ \A z \in x[s].branches : Counted("free", z[2]) <= Opened(s, z[1])

(* What is in brackets is written with no more than are opened in them,    *)
(* but for one that it may need of its own.                                *)
LEMMA EnclosedThrift ==
  ASSUME Typed, NEW p \in 0 .. End, NEW open \in {"(", "["}, NEW close \in Closers, NEW f, NEW x, Peek(p) = open,
         \A s \in p + 1 .. End : Agrees(f, x, s) /\ Thrifty(x, s),
         NEW z \in Enclosures(Given, p, open, close, x)
  PROVE  /\ z[1] \in p + 1 .. End /\ z[2] \in Trees /\ p + 1 \in 0 .. End
         /\ Cost(z[2], "free") <= Opened(p + 1, z[1]) /\ Cost(z[2], "repeat") <= 1 + Opened(p + 1, z[1])
<1>0. End \in Nat /\ p \in Nat
  BY PeekFacts
<1>1. ASSUME NEW s \in p + 1 .. End, NEW b \in x[s].branches
      PROVE  b[1] \in s + 1 .. End /\ b[2] \in NonEmpty(Trees) /\ Counted("free", b[2]) <= Opened(s, b[1])
  <2>1. Agrees(f, x, s) /\ Thrifty(x, s)
    OBVIOUS
  <2>2. Finds(f[s].branches, x[s].branches, s, NonEmpty(Trees), {})
    BY <2>1 DEF Agrees
  <2> QED BY <2>1, <2>2 DEF Finds, Thrifty
<1>2. \A s \in p + 1 .. End : \A b \in x[s].branches : b[1] \in s + 1 .. End
  BY <1>1
<1>3. \E s \in StarCWspEnds(Given, p + 1) : \E b \in x[s].branches :
        Peek(StarCWsp(b[1])) = close /\ z = <<StarCWsp(b[1]) + 1, UnwrapSingle(b[2], "alt")>>
  BY <1>2, EnclosuresAre
<1>s. PICK s \in StarCWspEnds(Given, p + 1) : \E b \in x[s].branches :
        Peek(StarCWsp(b[1])) = close /\ z = <<StarCWsp(b[1]) + 1, UnwrapSingle(b[2], "alt")>>
  BY <1>3
<1>b. PICK b \in x[s].branches : Peek(StarCWsp(b[1])) = close /\ z = <<StarCWsp(b[1]) + 1, UnwrapSingle(b[2], "alt")>>
  BY <1>s
<1>4. p + 1 \in 0 .. End
  <2>1. p < End
    <3>1. Peek(p) = "END" <=> p >= End
      BY <1>0, PeekFacts
    <3>2. ~(p >= End)
      BY <3>1
    <3> QED BY <1>0, <3>2
  <2> QED BY <1>0, <2>1
<1>5. s \in p + 1 .. End
  BY <1>4, StarFacts
<1>6. b[1] \in s + 1 .. End /\ b[2] \in NonEmpty(Trees) /\ Counted("free", b[2]) <= Opened(s, b[1])
  BY <1>1, <1>5
<1>e. PICK e : e = StarCWsp(b[1])
  OBVIOUS
<1>7. e \in b[1] .. End
  <2>1. b[1] \in 0 .. End
    BY <1>0, <1>5, <1>6
  <2> QED BY <1>e, <2>1, StarFacts
<1>8. z[1] = e + 1 /\ z[2] = UnwrapSingle(b[2], "alt")
  BY <1>b, <1>e
<1>9. e + 1 \in 0 .. End
  <2>0. e \in Nat
    BY <1>0, <1>5, <1>6, <1>7
  <2>1. Peek(e) = "END" <=> e >= End
    BY <2>0, PeekFacts
  <2>2. close # "END"
    BY DEF Closers
  <2>3. ~(e >= End)
    BY <1>b, <1>e, <2>1, <2>2
  <2> QED BY <1>0, <2>0, <2>3
<1>10. /\ z[1] \in p + 1 .. End /\ s \in p + 1 .. End /\ b[1] \in s .. End /\ z[1] \in b[1] .. End
  BY <1>0, <1>5, <1>6, <1>7, <1>8, <1>9
<1>11. Opened(s, b[1]) \in Nat /\ Opened(p + 1, z[1]) \in Nat /\ Opened(s, b[1]) <= Opened(p + 1, z[1])
  BY <1>4, <1>10, OpenedWithin
<1>p. "free" \in Places /\ "repeat" \in Places
  BY DEF Places
<1>u. PICK u : u = b[2]
  OBVIOUS
<1>12. u \in Seq(Trees) /\ u # << >>
  BY <1>6, <1>u DEF NonEmpty
<1>13. Context("alt") = "free" /\ Extra("alt", "free") = 0 /\ Extra("alt", "repeat") = 1
  BY DEF Context, Extra
<1>14. \A where \in Places :
         /\ UnwrapSingle(u, "alt") \in Trees /\ Counted(Context("alt"), u) \in Nat
         /\ Cost(UnwrapSingle(u, "alt"), where) <= Counted(Context("alt"), u) + Extra("alt", where)
  BY <1>12, UnwrapCost
<1>15. /\ UnwrapSingle(u, "alt") \in Trees /\ Counted("free", u) \in Nat
       /\ Cost(UnwrapSingle(u, "alt"), "free") <= Counted("free", u) + 0
       /\ Cost(UnwrapSingle(u, "alt"), "repeat") <= Counted("free", u) + 1
  BY <1>13, <1>14, <1>p
<1>m. PICK m : m = UnwrapSingle(u, "alt")
  OBVIOUS
<1>16. m \in Trees /\ Cost(m, "free") \in Nat /\ Cost(m, "repeat") \in Nat
  BY <1>15, <1>m, CostRises
<1>17. Counted("free", u) <= Opened(p + 1, z[1])
  BY <1>6, <1>11, <1>15, <1>u
<1>18. Cost(m, "free") <= Opened(p + 1, z[1]) /\ Cost(m, "repeat") <= 1 + Opened(p + 1, z[1])
  BY <1>11, <1>15, <1>16, <1>17, <1>m
<1>19. z[2] = m
  BY <1>8, <1>m, <1>u
<1> QED BY <1>4, <1>10, <1>16, <1>18, <1>19

(* An element, wherever it is repeated.                                    *)
LEMMA SpareElements ==
  ASSUME Typed, NEW p \in 0 .. End, NEW f, NEW x, \A s \in p + 1 .. End : Agrees(f, x, s) /\ Thrifty(x, s)
  PROVE  /\ Spare(Elements(Given, p, x), p)
         /\ \A z \in Elements(Given, p, x) : z[2] \in Trees
<1>0. End \in Nat /\ p \in Nat
  BY PeekFacts
<1>t. \A z \in Elements(Given, p, x) : z[2] \in Trees
  <2>1. Finds(Element(p, f), Elements(Given, p, x), p, Trees, Stops)
    BY ElementFacts
  <2> QED BY <2>1 DEF Finds
<1>1. PICK R1 : R1 = {<<n[1], Ref(n[2])>> : n \in Rulenames(Given, p)}
  OBVIOUS
<1>2. PICK R2 : R2 = Enclosures(Given, p, "(", ")", x)
  OBVIOUS
<1>3. PICK R3 : R3 = {<<o[1], Opt(o[2])>> : o \in Enclosures(Given, p, "[", "]", x)}
  OBVIOUS
<1>4. PICK R4 : R4 = Quoted(Given, p, FALSE)
  OBVIOUS
<1>5. PICK R5 : R5 = Percents(Given, p)
  OBVIOUS
<1>6. PICK R6 : R6 = Proses(Given, p)
  OBVIOUS
<1>7. Elements(Given, p, x) = R1 \cup R2 \cup R3 \cup R4 \cup R5 \cup R6
  BY <1>1, <1>2, <1>3, <1>4, <1>5, <1>6 DEF Elements
<1>8. Spare(R1, p)
  BY <1>1, SpareNames
<1>9. Spare(R4, p) /\ Spare(R5, p) /\ Spare(R6, p)
  BY <1>4, <1>5, <1>6, SpareQuoted, SparePercents
<1>o. "(" \in CHAR /\ "[" \in CHAR /\ ")" \in Closers /\ "]" \in Closers
  BY DEF CHAR, VCHAR, Closers
<1>10. ASSUME NEW z \in R2 PROVE z[1] \in p .. End /\ Cost(z[2], "repeat") <= Opened(p, z[1])
  <2>1. Peek(p) = "("
    <3>1. Peek(p) # "(" => Enclosures(Given, p, "(", ")", x) = {}
      BY <1>o, NotEnclosed
    <3> QED BY <1>2, <3>1
  <2>2. /\ z[1] \in p + 1 .. End /\ z[2] \in Trees /\ p + 1 \in 0 .. End
        /\ Cost(z[2], "free") <= Opened(p + 1, z[1]) /\ Cost(z[2], "repeat") <= 1 + Opened(p + 1, z[1])
    BY <1>2, <1>o, <2>1, EnclosedThrift
  <2>3. Opened(p, z[1]) = 1 + Opened(p + 1, z[1])
    BY <2>1, <2>2, OpenedThere
  <2>4. z[1] \in p .. End
    BY <1>0, <2>2
  <2> QED BY <2>2, <2>3, <2>4
<1>11. ASSUME NEW o \in Enclosures(Given, p, "[", "]", x), NEW z, z = <<o[1], Opt(o[2])>>
       PROVE  z[1] \in p .. End /\ Cost(z[2], "repeat") <= Opened(p, z[1])
  <2>1. Peek(p) = "["
    <3>1. Peek(p) # "[" => Enclosures(Given, p, "[", "]", x) = {}
      BY <1>o, NotEnclosed
    <3> QED BY <3>1
  <2>2. /\ o[1] \in p + 1 .. End /\ o[2] \in Trees /\ p + 1 \in 0 .. End
        /\ Cost(o[2], "free") <= Opened(p + 1, o[1]) /\ Cost(o[2], "repeat") <= 1 + Opened(p + 1, o[1])
    BY <1>o, <2>1, EnclosedThrift
  <2>3. z[1] = o[1] /\ z[2] = Opt(o[2])
    BY <1>11
  <2>4. Cost(Opt(o[2]), "repeat") = Cost(o[2], "free")
    <3>u. PICK u : u = Opt(o[2])
      OBVIOUS
    <3>1. u \in Trees
      BY <2>2, <3>u, TreesAre
    <3>2. u.kind = "optional" /\ u.parts[1] = o[2]
      BY <3>u DEF Opt
    <3>3. "repeat" \in Places
      BY DEF Places
    <3>4. Cost(u, "repeat") = Cost(u.parts[1], "free")
      BY <3>1, <3>2, <3>3, WrappedCost
    <3> QED BY <3>2, <3>4, <3>u
  <2>5. p + 1 \in p .. End /\ o[1] \in o[1] .. End /\ o[1] \in p .. End
    BY <1>0, <2>2
  <2>6. Opened(p + 1, o[1]) \in Nat /\ Opened(p, o[1]) \in Nat /\ Opened(p + 1, o[1]) <= Opened(p, o[1])
    BY <2>2, <2>5, OpenedWithin
  <2>7. Cost(o[2], "free") \in Nat
    BY <2>2, CostRises
  <2> QED BY <2>2, <2>3, <2>4, <2>5, <2>6, <2>7
<1>12. Spare(R2, p)
  BY <1>10 DEF Spare
<1>13. Spare(R3, p)
  BY <1>3, <1>11 DEF Spare
<1>14. Spare(Elements(Given, p, x), p)
  BY <1>7, <1>8, <1>9, <1>12, <1>13 DEF Spare
<1> QED BY <1>t, <1>14

(* What is opened in two stretches is opened in one over both.             *)
LEMMA OpenedApart ==
  ASSUME Typed, NEW a \in 0 .. End, NEW b \in a .. End, NEW c \in b .. End, NEW d \in c .. End
  PROVE  /\ Opened(a, b) \in Nat /\ Opened(c, d) \in Nat /\ Opened(a, d) \in Nat
         /\ Opened(a, b) + Opened(c, d) <= Opened(a, d)
<1>0. End \in Nat
  BY PeekFacts
<1>1. b \in 0 .. End /\ d \in b .. End /\ d \in a .. End /\ b \in b .. End /\ d \in d .. End /\ c \in 0 .. End
  BY <1>0
<1>2. Opened(c, d) \in Nat /\ Opened(b, d) \in Nat /\ Opened(c, d) <= Opened(b, d)
  BY <1>1, OpenedWithin
<1>3. Opened(a, d) \in Nat /\ Opened(a, b) \in Nat /\ Opened(a, b) + Opened(b, d) <= Opened(a, d)
  BY <1>1, OpenedWithin
<1> QED BY <1>2, <1>3

(* An element with bounds, or without.                                     *)
LEMMA RepetitionsThrift ==
  ASSUME Typed, NEW p \in 0 .. End, NEW f, NEW x, \A s \in p + 1 .. End : Agrees(f, x, s) /\ Thrifty(x, s),
         NEW z \in Repetitions(Given, p, x)
  PROVE  z[1] \in p + 1 .. End /\ z[2] \in Trees /\ Cost(z[2], "concat") <= Opened(p, z[1])
<1>0. End \in Nat /\ p \in Nat
  BY PeekFacts
<1>p. "concat" \in Places /\ "repeat" \in Places
  BY DEF Places
<1>1. z[1] \in p + 1 .. End /\ z[2] \in Trees
  <2>1. Finds(Repetition(p, f), Repetitions(Given, p, x), p, Trees, Stops)
    BY RepetitionFacts
  <2> QED BY <2>1 DEF Finds
<1>2. ASSUME z \in Elements(Given, p, x) PROVE Cost(z[2], "concat") <= Opened(p, z[1])
  <2>1. Spare(Elements(Given, p, x), p)
    BY SpareElements
  <2>2. z[1] \in p .. End /\ Cost(z[2], "repeat") <= Opened(p, z[1])
    BY <1>2, <2>1 DEF Spare
  <2>3. Cost(z[2], "concat") \in Nat /\ Cost(z[2], "repeat") \in Nat /\ Cost(z[2], "concat") <= Cost(z[2], "repeat")
    BY <1>1, CostRises
  <2>4. Opened(p, z[1]) \in Nat
    BY <2>2, OpenedFacts
  <2> QED BY <2>2, <2>3, <2>4
<1>3. ASSUME NEW r \in Repeats(Given, p), NEW e \in Elements(Given, r[1], x),
             z = <<e[1], Repeat(r[2].min, r[2].max, e[2])>>
      PROVE  Cost(z[2], "concat") <= Opened(p, z[1])
  <2>1. r[1] \in p + 1 .. End
    BY BoundsFacts
  <2>2. r[1] \in 0 .. End /\ r[1] \in p .. End /\ \A s \in r[1] + 1 .. End : s \in p + 1 .. End
    BY <1>0, <2>1
  <2>q. PICK q : q = r[1]
    OBVIOUS
  <2>3. \A s \in q + 1 .. End : Agrees(f, x, s) /\ Thrifty(x, s)
    BY <2>2, <2>q
  <2>4. /\ Spare(Elements(Given, q, x), q)
        /\ \A y \in Elements(Given, q, x) : y[2] \in Trees
    BY <2>2, <2>3, <2>q, SpareElements
  <2>5. e[1] \in q .. End /\ Cost(e[2], "repeat") <= Opened(q, e[1]) /\ e[2] \in Trees
    BY <2>4, <2>q DEF Spare
  <2>6. z[1] = e[1] /\ z[2] = Repeat(r[2].min, r[2].max, e[2])
    BY <1>3
  <2>7. Cost(z[2], "concat") = Cost(e[2], "repeat")
    <3>u. PICK u : u = z[2]
      OBVIOUS
    <3>1. u \in Trees
      BY <1>1, <3>u
    <3>2. u.kind = "repeat" /\ u.parts[1] = e[2]
      BY <2>6, <3>u DEF Repeat
    <3>3. "concat" # "repeat" => Cost(u, "concat") = Cost(u.parts[1], "repeat")
      BY <1>p, <3>1, <3>2, WrappedCost
    <3>4. Cost(u, "concat") = Cost(u.parts[1], "repeat")
      BY <3>3
    <3> QED BY <3>2, <3>4, <3>u
  <2>8. e[1] \in e[1] .. End /\ e[1] \in p .. End /\ q \in p .. End
    BY <1>0, <2>2, <2>5, <2>q
  <2>9. Opened(q, e[1]) \in Nat /\ Opened(p, e[1]) \in Nat /\ Opened(q, e[1]) <= Opened(p, e[1])
    BY <2>5, <2>8, OpenedWithin
  <2>10. Cost(e[2], "repeat") \in Nat
    BY <2>5, CostRises
  <2> QED BY <2>5, <2>6, <2>7, <2>9, <2>10
<1>4. \/ z \in Elements(Given, p, x)
      \/ \E r \in Repeats(Given, p) : \E e \in Elements(Given, r[1], x) :
           z = <<e[1], Repeat(r[2].min, r[2].max, e[2])>>
  <2> DEFINE els(q) == Elements(Given, q, x)
             part(k) == {<<e[1], Repeat(k[2].min, k[2].max, e[2])>> : e \in els(k[1])}
  <2>1. Repetitions(Given, p, x) = els(p) \cup UNION {part(k) : k \in Repeats(Given, p)}
    BY DEF Repetitions
  <2>2. ASSUME NEW k, NEW y PROVE y \in part(k) <=> \E e \in els(k[1]) : y = <<e[1], Repeat(k[2].min, k[2].max, e[2])>>
    OBVIOUS
  <2>3. \/ z \in els(p)
        \/ \E r \in Repeats(Given, p) : \E e \in els(r[1]) : z = <<e[1], Repeat(r[2].min, r[2].max, e[2])>>
    <3> HIDE DEF part, els
    <3> QED BY <2>1, <2>2
  <2> QED BY <2>3
<1> QED BY <1>1, <1>2, <1>3, <1>4

(* Items in a row, the first of them and the rest.                         *)
LEMMA ItemsThrift ==
  ASSUME Typed, NEW p \in 0 .. End, NEW f, NEW x, \A s \in p + 1 .. End : Agrees(f, x, s) /\ Thrifty(x, s),
         NEW z \in ItemLists(Given, p, x)
  PROVE  /\ z[1] \in p + 1 .. End /\ z[2] \in Seq(Trees) /\ z[2] # << >>
         /\ Counted("concat", z[2]) <= Opened(p, z[1])
<1>0. End \in Nat /\ p \in Nat
  BY PeekFacts
<1>p. "concat" \in Places
  BY DEF Places
<1>1. z[1] \in p + 1 .. End /\ z[2] \in Seq(Trees) /\ z[2] # << >>
  <2>1. Finds(Concatenation(p, f), ItemLists(Given, p, x), p, NonEmpty(Trees), {})
    BY ConcatenationFacts
  <2> QED BY <2>1 DEF Finds, NonEmpty
<1>2. \A k \in Repetitions(Given, p, x) :
        k[1] \in p + 1 .. End /\ k[2] \in Trees /\ Cost(k[2], "concat") <= Opened(p, k[1])
  BY RepetitionsThrift
<1>3. \A k \in Repetitions(Given, p, x) : k[1] \in p + 1 .. End
  BY <1>2
<1>4. z \in ItemLists(Given, p, x) <=> \E k \in Repetitions(Given, p, x) : FirstItem(z, k, x)
  BY <1>3, ItemListsAre
<1>k. PICK k \in Repetitions(Given, p, x) : FirstItem(z, k, x)
  BY <1>4
<1>5. k[1] \in p + 1 .. End /\ k[2] \in Trees /\ Cost(k[2], "concat") <= Opened(p, k[1])
  BY <1>2
<1>6. Counted("concat", <<k[2]>>) = Cost(k[2], "concat") /\ Cost(k[2], "concat") \in Nat
  BY <1>5, <1>p, CountedOne
<1>7. ASSUME z = <<k[1], <<k[2]>>>> PROVE Counted("concat", z[2]) <= Opened(p, z[1])
  <2>1. z[1] = k[1] /\ z[2] = <<k[2]>>
    BY <1>7
  <2> QED BY <1>5, <1>6, <2>1
<1>8. ASSUME NEW s \in StarCWspEnds(Given, CWsp(k[1])), NEW m \in x[s].items, z = <<m[1], <<k[2]>> \o m[2]>>
      PROVE  Counted("concat", z[2]) <= Opened(p, z[1])
  <2>1. k[1] \in 0 .. End
    BY <1>0, <1>5
  <2>2. CWsp(k[1]) \in k[1] .. End
    BY <2>1, CWspFacts
  <2>3. CWsp(k[1]) \in 0 .. End
    BY <1>0, <1>5, <2>2
  <2>4. s \in CWsp(k[1]) .. End
    BY <2>3, StarFacts
  <2>5. s \in p + 1 .. End /\ s \in k[1] .. End /\ k[1] \in p .. End
    BY <1>0, <1>5, <2>2, <2>4
  <2>6. Finds(f[s].items, x[s].items, s, NonEmpty(Trees), {}) /\ Thrifty(x, s)
    BY <2>5 DEF Agrees
  <2>7. m[1] \in s + 1 .. End /\ m[2] \in Seq(Trees) /\ Counted("concat", m[2]) <= Opened(s, m[1])
    BY <2>6 DEF Finds, NonEmpty, Thrifty
  <2>8. m[1] \in s .. End
    BY <1>0, <2>5, <2>7
  <2>9. /\ Opened(p, k[1]) \in Nat /\ Opened(s, m[1]) \in Nat /\ Opened(p, m[1]) \in Nat
        /\ Opened(p, k[1]) + Opened(s, m[1]) <= Opened(p, m[1])
    BY <2>5, <2>8, OpenedApart
  <2>w. PICK w : w = k[2]
    OBVIOUS
  <2>v. w \in Trees
    BY <1>5, <2>w
  <2>o. PICK o : o = <<w>>
    OBVIOUS
  <2>t. o \in Seq(Trees)
    <3>1. <<w>> \in NonEmpty(Trees)
      BY <2>v, NonEmptyFacts
    <3> QED BY <3>1, <2>o DEF NonEmpty
  <2>10. Counted("concat", o \o m[2]) = Counted("concat", o) + Counted("concat", m[2])
    BY <1>p, <2>7, <2>t, CountedBoth
  <2>11. Counted("concat", m[2]) \in Nat
    BY <1>p, <2>7, CountedMore
  <2>12. z[1] = m[1] /\ z[2] = o \o m[2]
    BY <1>8, <2>o, <2>w
  <2> QED BY <1>5, <1>6, <2>7, <2>9, <2>10, <2>11, <2>12, <2>o, <2>w
<1> QED BY <1>1, <1>k, <1>7, <1>8 DEF FirstItem

(* Branches, the first of them and the rest.                               *)
LEMMA BranchesThrift ==
  ASSUME Typed, NEW p \in 0 .. End, NEW f, NEW x, \A s \in p + 1 .. End : Agrees(f, x, s) /\ Thrifty(x, s),
         NEW z \in BranchLists(Given, ItemLists(Given, p, x), x)
  PROVE  Counted("free", z[2]) <= Opened(p, z[1])
<1>0. End \in Nat /\ p \in Nat
  BY PeekFacts
<1>p. "free" \in Places /\ "concat" \in Places
  BY DEF Places
<1>I. PICK I : I = ItemLists(Given, p, x)
  OBVIOUS
<1>1. \A c \in I : /\ c[1] \in p + 1 .. End /\ c[2] \in Seq(Trees) /\ c[2] # << >>
                   /\ Counted("concat", c[2]) <= Opened(p, c[1])
  BY <1>I, ItemsThrift
<1>2. \A c \in I : c[1] \in p + 1 .. End
  BY <1>1
<1>3. z \in BranchLists(Given, I, x) <=> \E c \in I : FirstBranch(z, c, x)
  BY <1>2, BranchListsAre
<1>c. PICK c \in I : FirstBranch(z, c, x)
  BY <1>3, <1>I
<1>4. /\ c[1] \in p + 1 .. End /\ c[2] \in Seq(Trees) /\ c[2] # << >>
      /\ Counted("concat", c[2]) <= Opened(p, c[1])
  BY <1>1
<1>u. PICK u : u = UnwrapSingle(c[2], "concat")
  OBVIOUS
<1>5. u \in Trees /\ Counted("free", <<u>>) \in Nat /\ Counted("free", <<u>>) <= Opened(p, c[1])
  <2>1. Context("concat") = "concat" /\ Extra("concat", "free") = 0
    BY DEF Context, Extra
  <2>2. /\ UnwrapSingle(c[2], "concat") \in Trees /\ Counted(Context("concat"), c[2]) \in Nat
        /\ Cost(UnwrapSingle(c[2], "concat"), "free") <= Counted(Context("concat"), c[2]) + Extra("concat", "free")
    BY <1>4, <1>p, UnwrapCost
  <2>3. u \in Trees /\ Counted("concat", c[2]) \in Nat /\ Cost(u, "free") <= Counted("concat", c[2]) + 0
    BY <1>u, <2>1, <2>2
  <2>4. Counted("free", <<u>>) = Cost(u, "free") /\ Cost(u, "free") \in Nat
    BY <1>p, <2>3, CountedOne
  <2>5. c[1] \in p .. End
    BY <1>0, <1>4
  <2>6. Opened(p, c[1]) \in Nat
    BY <2>5, OpenedFacts
  <2> QED BY <1>4, <2>3, <2>4, <2>6
<1>6. ASSUME z = <<c[1], <<u>>>> PROVE Counted("free", z[2]) <= Opened(p, z[1])
  <2>1. z[1] = c[1] /\ z[2] = <<u>>
    BY <1>6
  <2> QED BY <1>5, <2>1
<1>7. ASSUME Peek(StarCWsp(c[1])) = "/",
             NEW s \in StarCWspEnds(Given, StarCWsp(c[1]) + 1), NEW m \in x[s].branches, z = <<m[1], <<u>> \o m[2]>>
      PROVE  Counted("free", z[2]) <= Opened(p, z[1])
  <2>1. c[1] \in 0 .. End
    BY <1>0, <1>4
  <2>e. PICK e : e = StarCWsp(c[1])
    OBVIOUS
  <2>2. e \in c[1] .. End
    BY <2>1, <2>e, StarFacts
  <2>3. e + 1 \in 0 .. End
    <3>0. e \in Nat
      BY <1>0, <1>4, <2>2
    <3>1. Peek(e) = "END" <=> e >= End
      BY <3>0, PeekFacts
    <3>2. ~(e >= End)
      BY <1>7, <2>e, <3>1
    <3> QED BY <1>0, <3>0, <3>2
  <2>4. s \in e + 1 .. End
    BY <2>3, <2>e, StarFacts
  <2>5. s \in p + 1 .. End /\ s \in c[1] .. End /\ c[1] \in p .. End
    BY <1>0, <1>4, <2>2, <2>4
  <2>6. Finds(f[s].branches, x[s].branches, s, NonEmpty(Trees), {}) /\ Thrifty(x, s)
    BY <2>5 DEF Agrees
  <2>7. m[1] \in s + 1 .. End /\ m[2] \in Seq(Trees) /\ Counted("free", m[2]) <= Opened(s, m[1])
    BY <2>6 DEF Finds, NonEmpty, Thrifty
  <2>8. m[1] \in s .. End
    BY <1>0, <2>5, <2>7
  <2>9. /\ Opened(p, c[1]) \in Nat /\ Opened(s, m[1]) \in Nat /\ Opened(p, m[1]) \in Nat
        /\ Opened(p, c[1]) + Opened(s, m[1]) <= Opened(p, m[1])
    BY <2>5, <2>8, OpenedApart
  <2>w. PICK w : w = u
    OBVIOUS
  <2>v. w \in Trees
    BY <1>5, <2>w
  <2>o. PICK o : o = <<w>>
    OBVIOUS
  <2>t. o \in Seq(Trees)
    <3>1. <<w>> \in NonEmpty(Trees)
      BY <2>v, NonEmptyFacts
    <3> QED BY <3>1, <2>o DEF NonEmpty
  <2>10. Counted("free", o \o m[2]) = Counted("free", o) + Counted("free", m[2])
    BY <1>p, <2>7, <2>t, CountedBoth
  <2>11. Counted("free", m[2]) \in Nat
    BY <1>p, <2>7, CountedMore
  <2>12. z[1] = m[1] /\ z[2] = o \o m[2]
    BY <1>7, <2>o, <2>w
  <2> QED BY <1>5, <2>7, <2>9, <2>10, <2>11, <2>12, <2>o, <2>w
<1> QED BY <1>c, <1>u, <1>6, <1>7 DEF FirstBranch

-----------------------------------------------------------------------------
(* So from every position.                                                 *)
LEMMA ThriftyEverywhere ==
  ASSUME Typed
  PROVE  \A q \in 0 .. End : Thrifty(Expansions(Given), q)
<1>0. End \in Nat
  BY PeekFacts
<1> DEFINE S == {q \in 0 .. End : Thrifty(Expansions(Given), q)}
<1>1. ASSUME NEW k \in 0 .. End, \A i \in k + 1 .. End : i \in S PROVE k \in S
  <2>x. PICK x, f : x = Expansions(Given) /\ f = Descent
    OBVIOUS
  <2>1. \A s \in k + 1 .. End : Agrees(f, x, s) /\ Thrifty(x, s)
    <3>1. \A s \in k + 1 .. End : Thrifty(Expansions(Given), s)
      BY <1>1
    <3>2. \A s \in k + 1 .. End : Agrees(Descent, Expansions(Given), s)
      BY Agreeing
    <3> QED BY <2>x, <3>1, <3>2
  <2>2. x[k] = Expanded(k, x)
    BY <2>x, Descending
  <2>3. x[k].items = ItemLists(Given, k, x) /\ x[k].branches = BranchLists(Given, ItemLists(Given, k, x), x)
    BY <2>2 DEF Expanded
  <2>4. \A z \in ItemLists(Given, k, x) : Counted("concat", z[2]) <= Opened(k, z[1])
    BY <2>1, ItemsThrift
  <2>5. \A z \in BranchLists(Given, ItemLists(Given, k, x), x) : Counted("free", z[2]) <= Opened(k, z[1])
    BY <2>1, BranchesThrift
  <2>6. Thrifty(x, k)
    BY <2>3, <2>4, <2>5 DEF Thrifty
  <2> QED BY <2>6, <2>x
<1>2. \A q \in 0 .. End : q \in S
  <2> HIDE DEF S
  <2> QED BY <1>0, <1>1, CountDown
<1> QED BY <1>2

(* A line opens what its body does.                                        *)
LEMMA LineOpens ==
  ASSUME NEW d \in Definitions
  PROVE  Line(d) \in Text /\ Opens(Line(d)) = Cost(d.body, "free") /\ Cost(d.body, "free") \in Nat
<1>n. PICK n : n = d.name
  OBVIOUS
<1>h. PICK h : h = Sign(d.defined_as)
  OBVIOUS
<1>b. PICK b : b = WriteElement(d.body, "free")
  OBVIOUS
<1>e. PICK e : e = LineEnd
  OBVIOUS
<1>1. /\ n \in Text /\ h \in Text /\ b \in Text /\ e \in Text
      /\ Line(d) = n \o h \o b \o e
      /\ Line(d) \in Text /\ d.defined_as \in {"=", "=/"} /\ d.name \in Names
  BY <1>b, <1>e, <1>h, <1>n, LineWritten
<1>2. Opens(h) = 0 /\ Opens(e) = 0
  BY <1>1, <1>e, <1>h, SignsOpen
<1>3. Opens(n) = 0
  <2>1. n \in Seq(NameChars)
    BY <1>1, <1>n DEF Names
  <2>2. "(" \notin NameChars
    BY Letters DEF NameChars, DIGIT
  <2> QED BY <2>1, <2>2, OpensNone
<1>4. Opens(b) = Cost(d.body, "free") /\ Opens(b) \in Nat
  BY <1>1, <1>b, TextOpens DEF Cost
<1>u. PICK u : u = n \o h
  OBVIOUS
<1>5. u \in Text /\ Opens(u) = 0
  BY <1>1, <1>2, <1>3, <1>u, TextOpens
<1>6. u \o b \o e \in Text /\ Opens(u \o b \o e) = Opens(b)
  BY <1>1, <1>2, <1>5, BetweenOpens
<1> QED BY <1>1, <1>4, <1>6, <1>u

(* The parentheses opened in a grammar as it is printed: those of its      *)
(* bodies.                                                                 *)
Openings(ds) == Opens(WriteGrammar(ds))

(* A definition more adds what its body opens.                             *)
LEMMA OpeningsMore ==
  ASSUME NEW ds \in Seq(Printable)
  PROVE  /\ Openings(ds) \in Nat /\ Openings(<< >>) = 0
         /\ \A d \in Printable : Openings(Append(ds, d)) = Openings(ds) + Cost(d.body, "free")
<1>w. PICK wr : wr = [d \in Printable |-> Line(d)]
  OBVIOUS
<1>d. \A d \in Printable : d \in Definitions
  BY DEF Printable
<1>1. \A d \in Printable : wr[d] \in Text /\ Opens(wr[d]) = Cost(d.body, "free") /\ Cost(d.body, "free") \in Nat
  <2>1. \A d \in Printable : wr[d] = Line(d)
    BY <1>w
  <2> QED BY <1>d, <2>1, LineOpens
<1>f. wr \in [Printable -> Text]
  <2>1. DOMAIN wr = Printable /\ wr = [d \in Printable |-> wr[d]]
    BY <1>w
  <2> QED BY <1>1, <2>1
<1>e. PICK none : none = << >>
  OBVIOUS
<1>2. none \in Text /\ Opens(none) = 0
  BY <1>e, TextOpens, NumbersWritten
<1>3. \A t \in Seq(Printable) : t # << >> => WriteGrammar(t) = Laid(wr, t, none)
  BY <1>e, <1>w, GrammarLaid
<1>4. \A t \in Seq(Printable) : t # << >> => Laid(wr, t, none) \in Text
  BY <1>2, <1>f, LaidTyped
<1>5. Openings(<< >>) = 0
  <2>1. WriteGrammar(<< >>) = LineEnd
    BY DEF WriteGrammar, LineEnd
  <2> QED BY <2>1, SignsOpen DEF Openings
<1>6. Openings(ds) \in Nat
  <2>1. CASE ds = << >>
    BY <1>5, <2>1
  <2>2. CASE ds # << >>
    <3>1. WriteGrammar(ds) \in Text
      BY <1>3, <1>4, <2>2
    <3> QED BY <3>1, TextOpens DEF Openings
  <2> QED BY <2>1, <2>2
<1>7. ASSUME NEW d \in Printable PROVE Openings(Append(ds, d)) = Openings(ds) + Cost(d.body, "free")
  <2>1. Append(ds, d) \in Seq(Printable) /\ Append(ds, d) # << >>
    BY AppendProperties
  <2>2. WriteGrammar(Append(ds, d)) = Laid(wr, Append(ds, d), none)
    BY <1>3, <2>1
  <2>3. Laid(wr, Append(ds, d), none) = IF ds = << >> THEN wr[d] ELSE Laid(wr, ds, none) \o (none \o wr[d])
    <3>1. /\ Laid(wr, Append(ds, d), none) = IF ds = << >> THEN wr[d] ELSE Laid(wr, ds, none) \o (none \o wr[d])
          /\ ds # << >> => Laid(wr, ds, none) \in Text
      BY <1>2, <1>f, LaidMore
    <3> QED BY <3>1
  <2>4. wr[d] \in Text /\ Opens(wr[d]) = Cost(d.body, "free") /\ Cost(d.body, "free") \in Nat
    BY <1>1
  <2>5. none \o wr[d] \in Text /\ Opens(none \o wr[d]) = Cost(d.body, "free")
    BY <1>2, <2>4, TextOpens
  <2>o. Openings(Append(ds, d)) = Opens(Laid(wr, Append(ds, d), none))
    BY <2>2 DEF Openings
  <2>6. CASE ds = << >>
    BY <1>5, <2>o, <2>3, <2>4, <2>6
  <2>7. CASE ds # << >>
    <3>1. Opens(Laid(wr, ds, none) \o (none \o wr[d])) = Opens(Laid(wr, ds, none)) + Cost(d.body, "free")
      BY <1>4, <2>5, <2>7, TextOpens
    <3>2. Openings(ds) = Opens(Laid(wr, ds, none))
      BY <1>3, <2>7 DEF Openings
    <3> QED BY <2>o, <2>3, <2>7, <3>1, <3>2
  <2> QED BY <2>6, <2>7
<1> QED BY <1>5, <1>6, <1>7

(* Of two lists of definitions, one after the other, the openings are those*)
(* of both: by induction on the second.                                    *)
LEMMA OpeningsBoth ==
  ASSUME NEW s \in Seq(Printable), NEW t \in Seq(Printable)
  PROVE  Openings(s \o t) = Openings(s) + Openings(t)
<1> DEFINE G == {u \in Seq(Printable) : Openings(s \o u) = Openings(s) + Openings(u)}
<1>0. \A u \in Seq(Printable) :
        /\ Openings(u) \in Nat
        /\ \A d \in Printable : Openings(Append(u, d)) = Openings(u) + Cost(d.body, "free")
  BY OpeningsMore
<1>1. << >> \in G
  <2>1. s \o << >> = s /\ << >> \in Seq(Printable)
    BY ConcatEmptySeq
  <2>2. Openings(<< >>) = 0
    BY OpeningsMore
  <2> QED BY <1>0, <2>1, <2>2
<1>2. ASSUME NEW u \in Seq(Printable), NEW d \in Printable, u \in G PROVE Append(u, d) \in G
  <2>1. s \o u \in Seq(Printable) /\ Append(u, d) \in Seq(Printable)
    BY ConcatProperties, AppendProperties
  <2>2. s \o Append(u, d) = Append(s \o u, d)
    OBVIOUS
  <2>3. Openings(s \o Append(u, d)) = Openings(s \o u) + Cost(d.body, "free")
    BY <1>0, <2>1, <2>2
  <2>4. /\ Openings(s \o u) = Openings(s) + Openings(u)
        /\ Openings(Append(u, d)) = Openings(u) + Cost(d.body, "free")
    BY <1>0, <1>2
  <2>5. Openings(s) \in Nat /\ Openings(u) \in Nat /\ Cost(d.body, "free") \in Nat
    BY <1>0, LineOpens DEF Printable
  <2>6. Openings(s \o Append(u, d)) = Openings(s) + Openings(Append(u, d))
    BY <2>3, <2>4, <2>5
  <2> QED BY <2>1, <2>6
<1> HIDE DEF G
<1>3. \A u \in Seq(Printable) : u \in G
  BY <1>1, <1>2, SequenceInduction
<1> QED BY <1>3 DEF G

(* One definition alone opens what its body does.                          *)
LEMMA OpeningsOne ==
  ASSUME NEW d \in Printable
  PROVE  <<d>> \in Seq(Printable) /\ Openings(<<d>>) = Cost(d.body, "free") /\ Cost(d.body, "free") \in Nat
<1>1. << >> \in Seq(Printable) /\ Append(<< >>, d) = <<d>> /\ <<d>> \in Seq(Printable)
  OBVIOUS
<1>2. Openings(Append(<< >>, d)) = Openings(<< >>) + Cost(d.body, "free") /\ Openings(<< >>) = 0
  BY <1>1, OpeningsMore
<1>3. Cost(d.body, "free") \in Nat
  BY LineOpens DEF Printable
<1> QED BY <1>1, <1>2, <1>3

(* A definition opens no more as the parser keeps it than as it is read.   *)
LEMMA MeaningCheaper ==
  ASSUME NEW d \in Definitions
  PROVE  /\ Meaning(d) \in Printable
         /\ Cost(Meaning(d).body, "free") \in Nat /\ Cost(d.body, "free") \in Nat
         /\ Cost(Meaning(d).body, "free") <= Cost(d.body, "free")
<1>1. d.body \in Trees /\ Meaning(d) \in Definitions
  BY CanonicalizedFacts DEF Definitions
<1>2. Meaning(d).body = Canonicalize(d.body)
  BY DEF Meaning, Definitions
<1>3. Normal(Meaning(d).body)
  BY <1>1, <1>2, CanonicalizeNormal
<1>4. "free" \in Places
  BY DEF Places
<1>5. Cost(Canonicalize(d.body), "free") <= Cost(d.body, "free")
  BY <1>1, <1>4, CanonCost
<1> QED BY <1>1, <1>2, <1>3, <1>5, LineOpens DEF Printable

(* A rule's body opens no more than the text that it is read from.         *)
LEMMA RuleThrift ==
  ASSUME Typed, NEW p \in 0 .. End, NEW z \in RulesAt(Given, p)
  PROVE  z[1] \in p + 1 .. End /\ z[2] \in Definitions /\ Cost(z[2].body, "free") <= Opened(p, z[1])
<1>0. End \in Nat /\ p \in Nat
  BY PeekFacts
<1>1. z[1] \in p + 1 .. End /\ z[2] \in Definitions
  BY RuleFacts
<1>n. PICK n \in Rulenames(Given, p) : \E how \in DefinedAss(Given, n[1]) :
        \E b \in Expansions(Given)[how[1]].branches : RuleReading(z, n, how, b)
  BY RulesAre
<1>2. n[1] \in p + 1 .. End
  BY RulenameFacts
<1>3. n[1] \in 0 .. End
  BY <1>0, <1>2
<1>h. PICK how \in DefinedAss(Given, n[1]) :
        \E b \in Expansions(Given)[how[1]].branches : RuleReading(z, n, how, b)
  BY <1>n
<1>4. how[1] \in n[1] + 1 .. End
  BY <1>3, DefinedAsFacts
<1>b. PICK b \in Expansions(Given)[how[1]].branches : RuleReading(z, n, how, b)
  BY <1>h
<1>q. PICK q : q = how[1]
  OBVIOUS
<1>5. q \in 0 .. End /\ q \in p .. End
  BY <1>0, <1>2, <1>4, <1>q
<1>6. /\ b[1] \in q + 1 .. End /\ b[2] \in Seq(Trees) /\ b[2] # << >>
      /\ Counted("free", b[2]) <= Opened(q, b[1])
  <2>1. Agrees(Descent, Expansions(Given), q) /\ Thrifty(Expansions(Given), q)
    BY <1>5, DescentFinds, ThriftyEverywhere
  <2> QED BY <1>b, <1>q, <2>1 DEF Agrees, Finds, NonEmpty, Thrifty
<1>7. Cost(z[2].body, "free") <= Counted("free", b[2]) /\ Counted("free", b[2]) \in Nat /\ Cost(z[2].body, "free") \in Nat
  <2>1. z[2].body = UnwrapSingle(b[2], "alt")
    BY <1>b DEF RuleReading
  <2>2. Context("alt") = "free" /\ Extra("alt", "free") = 0 /\ "free" \in Places
    BY DEF Context, Extra, Places
  <2>3. /\ UnwrapSingle(b[2], "alt") \in Trees /\ Counted(Context("alt"), b[2]) \in Nat
        /\ Cost(UnwrapSingle(b[2], "alt"), "free") <= Counted(Context("alt"), b[2]) + Extra("alt", "free")
    BY <1>6, <2>2, UnwrapCost
  <2>4. Cost(z[2].body, "free") \in Nat
    BY <1>1, LineOpens
  <2> QED BY <2>1, <2>2, <2>3, <2>4
<1>8. z[1] \in b[1] .. End
  <2>1. PICK s \in Runs(Given, b[1], WSP) : \E r \in CNlEnds(Given, s) :
          z = <<r, [name |-> n[2], defined_as |-> how[2], body |-> UnwrapSingle(b[2], "alt")]>>
    BY <1>b DEF RuleReading
  <2>2. b[1] \in 0 .. End
    BY <1>0, <1>5, <1>6
  <2>3. PICK r \in CNlEnds(Given, s) :
          z = <<r, [name |-> n[2], defined_as |-> how[2], body |-> UnwrapSingle(b[2], "alt")]>>
    BY <2>1
  <2>4. r \in b[1] + 1 .. End
    BY <2>2, BlankEnds
  <2>5. z[1] = r
    BY <2>3
  <2> QED BY <1>0, <2>2, <2>4, <2>5
<1>9. Opened(q, b[1]) \in Nat /\ Opened(p, z[1]) \in Nat /\ Opened(q, b[1]) <= Opened(p, z[1])
  <2>1. b[1] \in q .. End
    BY <1>0, <1>5, <1>6
  <2> QED BY <1>5, <1>8, <2>1, OpenedWithin
<1> QED BY <1>1, <1>6, <1>7, <1>9

-----------------------------------------------------------------------------
(* So is a grammar: from any position the definitions that follow are      *)
(* printed with no more parentheses than follow.                           *)
LEMMA GrammarThrift ==
  ASSUME Typed
  PROVE  \A p \in 0 .. End : \A z \in ItemsTo(Given, p) :
           Canonicalized(z) \in Seq(Printable) /\ Openings(Canonicalized(z)) <= Opened(p, End)
<1>0. End \in Nat
  BY PeekFacts
<1> DEFINE Good(z, p) == Canonicalized(z) \in Seq(Printable) /\ Openings(Canonicalized(z)) <= Opened(p, End)
           S == {p \in 0 .. End : \A z \in ItemsTo(Given, p) : Good(z, p)}
<1>o. \A p \in 0 .. End : Opened(p, End) \in Nat
  <2>1. \A p \in 0 .. End : End \in p .. End
    BY <1>0
  <2> QED BY <2>1, OpenedFacts
<1>1. ASSUME NEW p \in 0 .. End, \A i \in p + 1 .. End : i \in S PROVE p \in S
  <2>f. \A i \in p + 1 .. End : i \in 0 .. End /\ \A z \in ItemsTo(Given, i) : Good(z, i)
    BY <1>1
  <2>1. CASE p = End
    <3>1. ItemsTo(Given, p) = {<< >>}
      BY <2>1, ItemsAre
    <3>2. Canonicalized(<< >>) = << >> /\ << >> \in Seq(Printable)
      BY CanonicalizedFacts
    <3>3. Openings(<< >>) = 0
      BY <3>2, OpeningsMore
    <3>4. Opened(p, End) >= 0
      <4>1. Opened(p, End) \in Nat
        BY <1>o
      <4> QED BY <4>1
    <3>n. PICK none : none = << >>
      OBVIOUS
    <3>5. Good(none, p)
      BY <3>2, <3>3, <3>4, <3>n
    <3> HIDE DEF Good
    <3>6. \A z \in ItemsTo(Given, p) : Good(z, p)
      BY <3>1, <3>5, <3>n
    <3> QED BY <3>6
  <2>2. CASE p # End
    <3>1. ASSUME NEW z \in ItemsTo(Given, p) PROVE Good(z, p)
      <4>1. CASE \E r \in RulesAt(Given, p) : \E rest \in ItemsTo(Given, r[1]) : z = <<r[2]>> \o rest
        <5>r. PICK r \in RulesAt(Given, p) : \E rest \in ItemsTo(Given, r[1]) : z = <<r[2]>> \o rest
          BY <4>1
        <5>s. PICK rest \in ItemsTo(Given, r[1]) : z = <<r[2]>> \o rest
          BY <5>r
        <5>1. r[1] \in p + 1 .. End /\ r[2] \in Definitions /\ Cost(r[2].body, "free") <= Opened(p, r[1])
          BY RuleThrift
        <5>2. /\ r[1] \in 0 .. End /\ r[1] \in p .. End
              /\ Canonicalized(rest) \in Seq(Printable) /\ Openings(Canonicalized(rest)) <= Opened(r[1], End)
          BY <1>0, <2>f, <5>1
        <5>m. PICK m : m = Meaning(r[2])
          OBVIOUS
        <5>c. PICK c : c = Canonicalized(rest)
          OBVIOUS
        <5>3. /\ m \in Printable /\ Cost(m.body, "free") <= Cost(r[2].body, "free")
              /\ Cost(m.body, "free") \in Nat /\ Cost(r[2].body, "free") \in Nat
          BY <5>1, <5>m, MeaningCheaper
        <5>4. Canonicalized(z) = <<m>> \o c
          <6>1. rest \in Seq(Definitions)
            BY <5>2, ItemsTyped
          <6> QED BY <5>1, <5>c, <5>m, <5>s, <6>1, CanonicalizedFacts
        <5>w. PICK w : w = <<m>>
          OBVIOUS
        <5>5. w \in Seq(Printable) /\ Openings(w) = Cost(m.body, "free")
          BY <5>3, <5>w, OpeningsOne
        <5>6. w \o c \in Seq(Printable) /\ Openings(w \o c) = Openings(w) + Openings(c) /\ Openings(c) \in Nat
          BY <5>2, <5>5, <5>c, OpeningsBoth, OpeningsMore, ConcatProperties
        <5>7. /\ Opened(p, r[1]) \in Nat /\ Opened(r[1], End) \in Nat
              /\ Opened(p, End) = Opened(p, r[1]) + Opened(r[1], End)
          <6>1. End \in r[1] .. End
            BY <1>0, <5>1
          <6> QED BY <1>o, <5>2, <6>1, OpenedFacts
        <5>8. PICK i, j, k, l, n : /\ i = Openings(c) /\ j = Cost(m.body, "free") /\ k = Cost(r[2].body, "free")
                                   /\ l = Opened(p, r[1]) /\ n = Opened(r[1], End)
          OBVIOUS
        <5>9. i \in Nat /\ j \in Nat /\ k \in Nat /\ l \in Nat /\ n \in Nat /\ j <= k /\ k <= l /\ i <= n
          BY <5>1, <5>2, <5>3, <5>6, <5>7, <5>8, <5>c
        <5>10. j + i <= l + n
          BY <5>9
        <5>11. Openings(w \o c) = j + i /\ Opened(p, End) = l + n
          BY <5>5, <5>6, <5>7, <5>8
        <5> QED BY <5>4, <5>6, <5>10, <5>11, <5>w
      <4>2. CASE \E w \in Runs(Given, p, WSP) : \E q \in CNlEnds(Given, w) : z \in ItemsTo(Given, q)
        <5>w. PICK w \in Runs(Given, p, WSP) : \E q \in CNlEnds(Given, w) : z \in ItemsTo(Given, q)
          BY <4>2
        <5>q. PICK q \in CNlEnds(Given, w) : z \in ItemsTo(Given, q)
          BY <5>w
        <5>1. q \in p + 1 .. End
          BY BlankEnds
        <5>2. Good(z, q)
          BY <2>f, <5>1, <5>q
        <5>3. Opened(q, End) \in Nat /\ Opened(p, End) \in Nat /\ Opened(q, End) <= Opened(p, End)
          <6>1. q \in p .. End /\ End \in q .. End
            BY <1>0, <5>1
          <6> QED BY <6>1, OpenedWithin, <1>o, OpenedFacts
        <5>4. Openings(Canonicalized(z)) \in Nat
          BY <5>2, OpeningsMore
        <5> QED BY <5>2, <5>3, <5>4
      <4> HIDE DEF Good
      <4> QED BY <2>2, <4>1, <4>2, ItemsAre
    <3> QED BY <3>1
  <2> QED BY <2>1, <2>2
<1>2. \A p \in 0 .. End : p \in S
  <2> HIDE DEF S
  <2> QED BY <1>0, <1>1, CountDown
<1> QED BY <1>2

(* What is parsed is printed with no more parentheses than it opens.       *)
LEMMA NoneToSpare ==
  ASSUME ParserInv, status = "parsed"
  PROVE  Opens(WriteGrammar(defs)) <= Opens(src)
<1>1. Typed /\ Meanings(Readings) = {defs}
  BY DEF ParserInv
<1>2. PICK read \in Readings : Canonicalized(read) = defs
  BY <1>1 DEF Meanings
<1>3. read \in ItemsTo(Given, 0)
  BY DEF Readings, Rulelists, Given
<1>4. End \in Nat /\ 0 \in 0 .. End /\ End \in 0 .. End
  BY <1>1, PeekFacts
<1>5. Openings(defs) <= Opened(0, End)
  BY <1>1, <1>2, <1>3, <1>4, GrammarThrift
<1>6. Piece(Given, 0, End) = src
  <2>1. src \in Seq(CHAR) /\ End = Len(src)
    BY <1>1 DEF Typed, End
  <2>2. Piece(Given, 0, End) = SubSeq(src, 1, Len(src))
    BY <2>1 DEF Piece, Given
  <2> QED BY <2>1, <2>2
<1> QED BY <1>5, <1>6 DEF Opened, Openings

-----------------------------------------------------------------------------
(* What the printer writes for a parsed grammar is parsed, CRLF required or*)
(* not, and as that grammar; and no text that is parsed opens fewer        *)
(* parentheses than its grammar's printed form, so those that are printed  *)
(* are the ones that the grammar needs. For every text, of any length and  *)
(* depth of nesting.                                                       *)
THEOREM PrintingReadsBack == Spec => []PrintsBack
<1> DEFINE Inv == ParserInv /\ PrintInv
<1>1. SyntaxInit => Inv
  BY ParserStart, PrintStart
<1>2. Inv /\ [Next]_<<vars, printed>> => Inv'
  BY ParserStep, PrintStep
<1>3. Inv => PrintsBack
  BY RoundTrip, NoneToSpare DEF PrintsBack
<1> HIDE DEF Inv
<1> QED BY <1>1, <1>2, <1>3, PTL DEF Spec
=============================================================================
