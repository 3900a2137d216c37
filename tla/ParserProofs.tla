---------------------------- MODULE ParserProofs ----------------------------
(* Theorems about AdaptiveParser, for every set of goroutines, names and       *)
(* documents.                                                                 *)
EXTENDS AdaptiveParser, OrderLemmas, SequenceTheorems

----------------------------------------------------------------------------
(* Scores. *)

LEMMA DocumentFacts ==
    ASSUME NEW d \in Document
    PROVE  /\ Len(d) \in Nat /\ DOMAIN d = 1..Len(d)
           /\ \A i \in 1..Len(d) : d[i] \in Element /\ d[i] \in [Attributes -> STRING]
           /\ ToSet(d) = {d[i] : i \in 1..Len(d)} /\ ToSet(d) \subseteq Element
<1>1. d \in Seq([Attributes -> STRING])
  BY ParserAssumption
<1>2. Len(d) \in Nat /\ DOMAIN d = 1..Len(d) /\ \A i \in 1..Len(d) : d[i] \in [Attributes -> STRING]
  BY <1>1, LenProperties, ElementOfSeq
<1>3. ToSet(d) = {d[i] : i \in 1..Len(d)} /\ ToSet(d) \subseteq Element
  BY <1>2 DEF ToSet, Element
<1> QED
  BY <1>2, <1>3

\* The greatest of some numbers of at most 100 and 0.
LEMMA MaxFacts ==
    ASSUME NEW T, T \subseteq 0..100
    PROVE  /\ Max({0} \cup T) \in {0} \cup T /\ Max({0} \cup T) \in 0..100
           /\ \A y \in T : y <= Max({0} \cup T)
<1> DEFINE U == {0} \cup T
<1>1. U \subseteq Nat /\ U # {} /\ \A x \in U : x <= 100
  OBVIOUS
<1> HIDE DEF U
<1>2. \E x \in U : \A y \in U : y <= x
  BY <1>1, GreatestNat
<1>3. Max(U) \in U /\ \A y \in U : y <= Max(U)
  BY <1>2 DEF Max
<1>4. U \subseteq 0..100
  BY DEF U
<1>5. Max(U) \in 0..100
  BY <1>3, <1>4
<1> QED
  BY <1>3, <1>5 DEF U

LEMMA MinFacts ==
    ASSUME NEW T, T \subseteq Nat, T # {}
    PROVE  Min(T) \in T
  BY LeastNat DEF Min

LEMMA ScoreRange ==
    ASSUME NEW e, NEW print
    PROVE  Score(e, print) \in 0..100
<1>1. ASSUME NEW a, NEW b, NEW w \in Nat PROVE Agree(a, b, w) \in {0, w}
  BY DEF Agree
<1>2. /\ Agree(e.tag, print.tag, 35) \in {0, 35} /\ Agree(e.id, print.id, 35) \in {0, 35}
      /\ Agree(e.class, print.class, 20) \in {0, 20} /\ Agree(e.text, print.text, 10) \in {0, 10}
  BY <1>1
<1> QED
  BY <1>2 DEF Score

\* A score is enough exactly for those that agree in two of tag, id and class:
\* the weights leave one of these with the text below, the two lightest above.
LEMMA EnoughMeansAlike ==
    ASSUME NEW e, NEW print
    PROVE  Score(e, print) >= 55 <=> Alike(e, print)
<1> DEFINE S == {x \in {"tag", "id", "class"} : e[x] # "" /\ e[x] = print[x]}
           t == e.tag # "" /\ e.tag = print.tag
           i == e.id # "" /\ e.id = print.id
           k == e.class # "" /\ e.class = print.class
           two == (t /\ i) \/ (t /\ k) \/ (i /\ k)
<1>1. /\ Agree(e.tag, print.tag, 35) = IF t THEN 35 ELSE 0
      /\ Agree(e.id, print.id, 35) = IF i THEN 35 ELSE 0
      /\ Agree(e.class, print.class, 20) = IF k THEN 20 ELSE 0
      /\ Agree(e.text, print.text, 10) \in {0, 10}
  BY DEF Agree
<1>2. /\ "tag" \in S <=> t
      /\ "id" \in S <=> i
      /\ "class" \in S <=> k
  OBVIOUS
<1>3. S \subseteq {"tag", "id", "class"}
  OBVIOUS
<1>4. IsFiniteSet(S) /\ Cardinality(S) \in Nat
  <2>1. {"tag", "id", "class"} = {"tag"} \cup {"id"} \cup {"class"}
    OBVIOUS
  <2>2. IsFiniteSet({"tag"} \cup {"id"} \cup {"class"})
    BY FS_Singleton, FS_Union
  <2> HIDE DEF S
  <2> QED
    BY <1>3, <2>1, <2>2, FS_Subset, FS_CardinalityType
<1> HIDE DEF S, t, i, k
<1>5. Score(e, print) >= 55 <=> two
  BY <1>1 DEF Score
<1>6. ASSUME NEW x, NEW y, x # y, x \in S, y \in S PROVE Cardinality(S) >= 2
  <2>1. IsFiniteSet({x}) /\ Cardinality({x}) = 1
    BY FS_Singleton
  <2>2. IsFiniteSet({x} \cup {y}) /\ Cardinality({x} \cup {y}) = 2
    <3>1. y \notin {x}
      BY <1>6
    <3>2. IsFiniteSet({x} \cup {y}) /\ Cardinality({x} \cup {y}) = Cardinality({x}) + 1
      BY <2>1, <3>1, FS_AddElement
    <3> QED
      BY <2>1, <3>2
  <2>3. {x} \cup {y} \in SUBSET S
    BY <1>6
  <2>4. Cardinality({x} \cup {y}) <= Cardinality(S)
    BY <1>4, <2>3, FS_Subset
  <2> QED
    BY <1>4, <2>2, <2>4
<1>7. ASSUME two PROVE Cardinality(S) >= 2
  BY <1>2, <1>6, <1>7
<1>8. ASSUME ~two PROVE ~(Cardinality(S) >= 2)
  <2>1. S = {} \/ \E x : S = {x}
    BY <1>2, <1>3, <1>8
  <2>2. Cardinality(S) = 0 \/ Cardinality(S) = 1
    BY <1>4, <2>1, FS_EmptySet, FS_Singleton
  <2> QED
    BY <2>2
<1>9. Alike(e, print) <=> Cardinality(S) >= 2
  BY DEF Alike, S
<1> QED
  BY <1>5, <1>7, <1>8, <1>9

LEMMA BestFacts ==
    ASSUME NEW e, NEW prints
    PROVE  /\ BestScore(e, prints) \in 0..100
           /\ BestScore(e, prints) >= 55 <=> \E print \in ToSet(prints) : Alike(e, print)
<1> DEFINE T == {Score(e, prints[i]) : i \in DOMAIN prints}
<1>1. T \subseteq 0..100
  BY ScoreRange
<1>2. BestScore(e, prints) = Max({0} \cup T)
  BY DEF BestScore
<1>3. \A i \in DOMAIN prints : Score(e, prints[i]) \in T
  OBVIOUS
<1>4. \A y \in T : \E i \in DOMAIN prints : y = Score(e, prints[i])
  OBVIOUS
<1>5. \A print : print \in ToSet(prints) <=> \E i \in DOMAIN prints : print = prints[i]
  BY DEF ToSet
<1> HIDE DEF T
<1>6. /\ Max({0} \cup T) \in {0} \cup T /\ Max({0} \cup T) \in 0..100
      /\ \A y \in T : y <= Max({0} \cup T)
  BY <1>1, MaxFacts
<1>7. ASSUME BestScore(e, prints) >= 55 PROVE \E print \in ToSet(prints) : Alike(e, print)
  <2>1. Max({0} \cup T) \in T
    BY <1>2, <1>6, <1>7
  <2>2. PICK i \in DOMAIN prints : Score(e, prints[i]) >= 55
    BY <1>2, <1>4, <1>7, <2>1
  <2> QED
    BY <1>5, <2>2, EnoughMeansAlike
<1>8. ASSUME NEW print \in ToSet(prints), Alike(e, print) PROVE BestScore(e, prints) >= 55
  <2>1. PICK i \in DOMAIN prints : print = prints[i]
    BY <1>5, <1>8
  <2>2. Score(e, prints[i]) >= 55 /\ Score(e, prints[i]) \in 0..100
    BY <1>8, <2>1, EnoughMeansAlike, ScoreRange
  <2>3. Score(e, prints[i]) <= Max({0} \cup T)
    BY <1>3, <1>6
  <2> QED
    BY <1>2, <1>6, <2>2, <2>3
<1> QED
  BY <1>2, <1>6, <1>7, <1>8

\* What findSimilar finds.
LEMMA FindsTheAlike ==
    ASSUME NEW d \in Document, NEW prints
    PROVE  /\ Recognised(d, prints) = {} => FindSimilar(d, prints) = NoNode
           /\ Recognised(d, prints) # {} => /\ FindSimilar(d, prints) \in Recognised(d, prints)
                                            /\ FindSimilar(d, prints) # NoNode
           /\ FindSimilar(d, prints) # NoNode => FindSimilar(d, prints) \in Element
<1> DEFINE T == {BestScore(d[i], prints) : i \in DOMAIN d}
           best == Max({0} \cup T)
           H == {i \in DOMAIN d : BestScore(d[i], prints) = best}
<1>1. /\ Len(d) \in Nat /\ DOMAIN d = 1..Len(d) /\ \A i \in 1..Len(d) : d[i] \in Element
      /\ ToSet(d) = {d[i] : i \in 1..Len(d)}
  BY DocumentFacts
<1>2. T \subseteq 0..100
  BY BestFacts
<1>3. \A i \in DOMAIN d : BestScore(d[i], prints) \in T
  OBVIOUS
<1>4. \A y \in T : \E i \in DOMAIN d : y = BestScore(d[i], prints)
  OBVIOUS
<1>5. FindSimilar(d, prints) = IF best < 55 THEN NoNode ELSE d[Min(H)]
  BY DEF FindSimilar, NotEnough
<1> HIDE DEF T
<1>6. best \in {0} \cup T /\ best \in 0..100 /\ \A y \in T : y <= best
  BY <1>2, MaxFacts
<1> HIDE DEF best
<1>7. \A e : e \in Recognised(d, prints) <=>
                \E i \in 1..Len(d) : e = d[i] /\ BestScore(d[i], prints) >= 55
  BY <1>1, BestFacts DEF Recognised
<1>8. CASE best < 55
  <2>1. \A i \in 1..Len(d) : BestScore(d[i], prints) \in 0..100 /\ BestScore(d[i], prints) <= best
    BY <1>1, <1>3, <1>6, BestFacts
  <2>2. \A i \in 1..Len(d) : ~(BestScore(d[i], prints) >= 55)
    <3> SUFFICES ASSUME NEW i \in 1..Len(d) PROVE ~(BestScore(d[i], prints) >= 55)
      OBVIOUS
    <3>1. BestScore(d[i], prints) \in 0..100 /\ BestScore(d[i], prints) <= best
      BY <2>1
    <3>2. \A a, b \in 0..100 : a <= b /\ b < 55 => ~(a >= 55)
      OBVIOUS
    <3> QED
      BY <1>6, <1>8, <3>1, <3>2
  <2>3. Recognised(d, prints) = {}
    BY <1>7, <2>2
  <2> QED
    BY <1>8, <1>5, <2>3
<1>9. CASE ~(best < 55)
  <2>1. best \in T
    BY <1>9, <1>6
  <2>2. H # {} /\ H \subseteq Nat
    BY <1>1, <1>4, <2>1
  <2>3. Min(H) \in H
    <3> HIDE DEF H
    <3> QED
      BY <2>2, MinFacts
  <2>4. PICK i \in 1..Len(d) : i = Min(H) /\ BestScore(d[i], prints) = best
    BY <1>1, <2>3
  <2> HIDE DEF H
  <2>5. FindSimilar(d, prints) = d[i] /\ d[i] \in Element
    BY <1>1, <1>9, <1>5, <2>4
  <2>6. BestScore(d[i], prints) >= 55
    BY <1>9, <1>6, <2>4
  <2>7. d[i] \in Recognised(d, prints)
    BY <1>7, <2>6
  <2>8. d[i] # NoNode
    <3> SUFFICES ASSUME d[i] = NoNode PROVE FALSE
      OBVIOUS
    <3>1. PICK print \in ToSet(prints) : Alike(NoNode, print)
      BY <2>6, BestFacts
    <3>2. Score(NoNode, print) >= 55
      BY <3>1, EnoughMeansAlike
    <3>3. NoNode.tag = "" /\ NoNode.id = "" /\ NoNode.class = "" /\ NoNode.text = ""
      BY DEF NoNode
    <3>4. /\ Agree(NoNode.tag, print.tag, 35) = 0 /\ Agree(NoNode.id, print.id, 35) = 0
          /\ Agree(NoNode.class, print.class, 20) = 0 /\ Agree(NoNode.text, print.text, 10) = 0
      BY <3>3 DEF Agree
    <3>5. Score(NoNode, print) = 0
      BY <3>4 DEF Score
    <3> QED
      BY <3>2, <3>5
  <2> QED
    BY <2>5, <2>7, <2>8
<1> QED
  BY <1>8, <1>9
----------------------------------------------------------------------------
(* Types. *)

Styles == {NoCSS} \cup CSS \cup {CssCandidate(e) : e \in Element}
Prints == {s \in Seq(Element) : Len(s) <= Cap}
Maps == [Name -> [css : Styles, prints : Prints]]

\* The files and what Load read hold whole maps, if not nothing or a broken one;
\* a call that heals or learns has found an element.
ParserInv ==
    /\ selectors \in Maps
    /\ file \in Maps \cup {Absent, Broken} /\ tmp \in Maps \cup {Absent, Broken}
    /\ pc \in [Caller -> PC]
    /\ name \in [Caller -> Name]
    /\ doc \in [Caller -> Document]
    /\ node \in [Caller -> Element \cup {NoNode}]
    /\ opened \in [Caller -> {"tmp", "file"}]
    /\ calls \in [Caller -> 0..MaxCalls] /\ crashes \in 0..MaxCrashes
    /\ DOMAIN held = Caller /\ DOMAIN decoded = Caller
    /\ \A c \in Caller : /\ pc[c] \in {"heal", "learn"} => node[c] \in Element
                         /\ pc[c] = "swap" => decoded[c] \in Maps

LEMMA MapFacts ==
    ASSUME NEW m \in Maps
    PROVE  /\ DOMAIN m = Name
           /\ \A n \in Name : Len(m[n].prints) <= Cap /\ ToSet(m[n].prints) \subseteq Element
           /\ m # Absent /\ m # Broken
<1>1. DOMAIN m = Name
  BY DEF Maps
<1>2. ASSUME NEW n \in Name PROVE Len(m[n].prints) <= Cap /\ ToSet(m[n].prints) \subseteq Element
  <2>1. m[n].prints \in Seq(Element) /\ Len(m[n].prints) <= Cap
    BY DEF Maps, Prints
  <2>2. \A i \in DOMAIN m[n].prints : m[n].prints[i] \in Element
    BY <2>1, LenProperties, ElementOfSeq
  <2> QED
    BY <2>1, <2>2 DEF ToSet
<1>3. DOMAIN Absent = {} /\ DOMAIN Broken = {"broken"}
  BY DEF Absent, Broken
<1>4. Name # {} /\ Name # {"broken"}
  BY ParserAssumption
<1> QED
  BY <1>1, <1>2, <1>3, <1>4

LEMMA EmptyMap == Empty \in Maps
<1>1. <<>> \in Prints
  BY ParserAssumption DEF Prints
<1> QED
  BY <1>1 DEF Empty, Maps, Unregistered, Styles

LEMMA SomeArguments == AnyName \in Name /\ AnyDocument \in Document
  BY ParserAssumption DEF AnyName, AnyDocument

LEMMA LearntFits ==
    ASSUME NEW prints \in Prints, NEW e \in Element
    PROVE  Learnt(prints, e) \in Prints
<1>1. prints \in Seq(Element) /\ Len(prints) \in Nat /\ Len(prints) <= Cap /\ Cap \in Nat \ {0}
  BY ParserAssumption, LenProperties DEF Prints
<1>2. CASE Len(prints) >= Cap
  <2>1. prints # <<>>
    BY <1>1, <1>2
  <2>2. Tail(prints) \in Seq(Element) /\ Len(Tail(prints)) = Len(prints) - 1
    BY <1>1, <2>1, HeadTailProperties
  <2>3. Append(Tail(prints), e) \in Seq(Element) /\ Len(Append(Tail(prints), e)) = Len(Tail(prints)) + 1
    BY <2>2, AppendProperties
  <2>4. Len(Append(Tail(prints), e)) = Len(prints)
    BY <1>1, <2>2, <2>3
  <2> QED
    BY <1>1, <1>2, <2>3, <2>4 DEF Learnt, Prints
<1>3. CASE ~(Len(prints) >= Cap)
  <2>1. Append(prints, e) \in Seq(Element) /\ Len(Append(prints, e)) = Len(prints) + 1
    BY <1>1, AppendProperties
  <2>2. Len(Append(prints, e)) <= Cap
    BY <1>1, <1>3, <2>1
  <2> QED
    BY <1>3, <2>1, <2>2 DEF Learnt, Prints
<1> QED
  BY <1>2, <1>3

LEMMA QueryFinds ==
    ASSUME NEW d \in Document, NEW css
    PROVE  Query(d, css) \in Element \cup {NoNode}
<1> DEFINE H == {i \in DOMAIN d : Matches(css, d[i])}
<1>1. DOMAIN d \subseteq Nat /\ \A i \in DOMAIN d : d[i] \in Element
  BY DocumentFacts
<1>2. ASSUME H # {} PROVE Min(H) \in DOMAIN d
  <2>1. H \subseteq Nat /\ H \subseteq DOMAIN d
    BY <1>1
  <2> HIDE DEF H
  <2> QED
    BY <1>2, <2>1, MinFacts
<1>3. Query(d, css) = IF H = {} THEN NoNode ELSE d[Min(H)]
  BY DEF Query
<1> QED
  BY <1>1, <1>2, <1>3

----------------------------------------------------------------------------
(* The steps keep the types. *)

LEMMA CalledTypes ==
    ASSUME NEW c \in Caller, Called(c), calls \in [Caller -> 0..MaxCalls], crashes \in 0..MaxCrashes
    PROVE  pc[c] = "idle" /\ calls' \in [Caller -> 0..MaxCalls] /\ crashes' \in 0..MaxCrashes
<1>1. MaxCalls \in Nat
  BY ParserAssumption
<1>2. calls[c] + 1 \in 0..MaxCalls
  BY <1>1 DEF Called
<1> QED
  BY <1>2 DEF Called, At

\* What a call that returns leaves behind.
LEMMA ReturnTypes ==
    ASSUME ParserInv, NEW c \in Caller, Return(c)
    PROVE  /\ pc' \in [Caller -> PC] /\ name' \in [Caller -> Name] /\ doc' \in [Caller -> Document]
           /\ node' \in [Caller -> Element \cup {NoNode}] /\ opened' \in [Caller -> {"tmp", "file"}]
           /\ DOMAIN held' = Caller /\ DOMAIN decoded' = Caller
           /\ \A d \in Caller : /\ pc'[d] \in {"heal", "learn"} => node'[d] \in Element
                                /\ pc'[d] = "swap" => decoded'[d] \in Maps
<1>1. /\ pc' \in [Caller -> PC] /\ name' \in [Caller -> Name] /\ doc' \in [Caller -> Document]
      /\ node' \in [Caller -> Element \cup {NoNode}] /\ opened' \in [Caller -> {"tmp", "file"}]
      /\ DOMAIN held' = Caller /\ DOMAIN decoded' = Caller
  BY SomeArguments DEF ParserInv, Return, Goto, PC
<1>2. \A d \in Caller \ {c} : pc'[d] = pc[d] /\ node'[d] = node[d] /\ decoded'[d] = decoded[d]
  BY DEF ParserInv, Return, Goto
<1>3. pc'[c] = "idle"
  BY DEF ParserInv, Return, Goto
<1> QED
  BY <1>1, <1>2, <1>3 DEF ParserInv

LEMMA ParserSteps == ParserInv /\ [Next]_vars => ParserInv'
<1> SUFFICES ASSUME ParserInv, [Next]_vars PROVE ParserInv'
  OBVIOUS
<1> USE DEF ParserInv
<1>1. ASSUME NEW c \in Caller, Register(c) PROVE ParserInv'
  <2>1. PICK n \in Name, css \in CSS :
           selectors' = [selectors EXCEPT ![n] = [css |-> css, prints |-> <<>>]] /\ Keep({n})
    BY <1>1 DEF Register
  <2>2. <<>> \in Prints
    BY ParserAssumption DEF Prints
  <2>3. [css |-> css, prints |-> <<>>] \in [css : Styles, prints : Prints]
    BY <2>2 DEF Styles
  <2>4. selectors' \in Maps
    BY <2>1, <2>3 DEF Maps
  <2>5. DOMAIN held' = Caller
    BY <2>1 DEF Keep
  <2>6. UNCHANGED <<file, tmp, pc, name, doc, node, opened, decoded>>
    BY <1>1 DEF Register
  <2>7. calls' \in [Caller -> 0..MaxCalls] /\ crashes' \in 0..MaxCrashes
    BY <1>1, CalledTypes DEF Register
  <2> QED
    BY <2>4, <2>5, <2>6, <2>7
<1>2. ASSUME NEW c \in Caller, Select(c) PROVE ParserInv'
  <2>1. PICK n \in Name, d \in Document : name' = [name EXCEPT ![c] = n] /\ doc' = [doc EXCEPT ![c] = d]
    BY <1>2 DEF Select
  <2>2. name' \in [Caller -> Name] /\ doc' \in [Caller -> Document]
    BY <2>1
  <2>3. pc' = [pc EXCEPT ![c] = "match"] /\ UNCHANGED <<selectors, file, tmp, held, node, opened, decoded>>
    BY <1>2 DEF Select, Goto
  <2>4. calls' \in [Caller -> 0..MaxCalls] /\ crashes' \in 0..MaxCrashes
    BY <1>2, CalledTypes DEF Select
  <2>5. pc' \in [Caller -> PC]
    BY <2>3 DEF PC
  <2>6. \A b \in Caller : /\ pc'[b] \in {"heal", "learn"} => node'[b] \in Element
                          /\ pc'[b] = "swap" => decoded'[b] \in Maps
    BY <2>3
  <2> QED
    BY <2>2, <2>3, <2>4, <2>5, <2>6
<1>3. ASSUME NEW c \in Caller, Match(c) PROVE ParserInv'
  <2> DEFINE e == Query(doc[c], Object(c).css)
  <2>1. /\ node' = [node EXCEPT ![c] = e]
        /\ pc' = [pc EXCEPT ![c] = IF e = NoNode THEN "similar" ELSE "learn"]
        /\ UNCHANGED <<selectors, file, tmp, name, doc, held, opened, decoded>>
        /\ UNCHANGED <<calls, crashes>>
    BY <1>3 DEF Match, Goto, Continues
  <2>2. e \in Element \cup {NoNode}
    BY QueryFinds
  <2> HIDE DEF e
  <2>3. node' \in [Caller -> Element \cup {NoNode}]
    BY <2>1, <2>2
  <2>4. pc' \in [Caller -> PC]
    BY <2>1 DEF PC
  <2>5. \A d \in Caller : /\ pc'[d] \in {"heal", "learn"} => node'[d] \in Element
                          /\ pc'[d] = "swap" => decoded'[d] \in Maps
    BY <2>1, <2>2
  <2> QED
    BY <2>1, <2>3, <2>4, <2>5
<1>4. ASSUME NEW c \in Caller, CompileError(c) \/ EncodeFails(c) PROVE ParserInv'
  <2>1. Return(c) /\ UNCHANGED <<selectors, file, tmp, calls, crashes>>
    BY <1>4 DEF CompileError, EncodeFails, Continues
  <2> QED
    BY <2>1, ReturnTypes
<1>5. ASSUME NEW c \in Caller, Similar(c) PROVE ParserInv'
  <2> DEFINE e == FindSimilar(doc[c], Object(c).prints)
  <2>1. UNCHANGED <<selectors, file, tmp, calls, crashes>>
    BY <1>5 DEF Similar, Continues
  <2>2. CASE e = NoNode
    <3>1. Return(c)
      BY <1>5, <2>2 DEF Similar
    <3> QED
      BY <2>1, <3>1, ReturnTypes
  <2>3. CASE e # NoNode
    <3>1. /\ node' = [node EXCEPT ![c] = e] /\ pc' = [pc EXCEPT ![c] = "heal"]
          /\ UNCHANGED <<name, doc, held, opened, decoded>>
      BY <1>5, <2>3 DEF Similar, Goto
    <3>2. e \in Element
      BY <2>3, FindsTheAlike
    <3> HIDE DEF e
    <3>3. node' \in [Caller -> Element \cup {NoNode}] /\ pc' \in [Caller -> PC]
      BY <3>1, <3>2 DEF PC
    <3>4. \A d \in Caller : /\ pc'[d] \in {"heal", "learn"} => node'[d] \in Element
                            /\ pc'[d] = "swap" => decoded'[d] \in Maps
      BY <3>1, <3>2
    <3> QED
      BY <2>1, <3>1, <3>3, <3>4
  <2> QED
    BY <2>2, <2>3
<1>6. ASSUME NEW c \in Caller, Heal(c) PROVE ParserInv'
  <2>1. /\ pc[c] = "heal" /\ pc' = [pc EXCEPT ![c] = "learn"] /\ held' = [held EXCEPT ![c] = Live]
        /\ UNCHANGED <<file, tmp, name, doc, node, opened, decoded, calls, crashes>>
        /\ \/ selectors' = selectors
           \/ selectors' = [selectors EXCEPT ![name[c]].css = CssCandidate(node[c])]
    BY <1>6 DEF Heal, At, Goto, Continues
  <2>2. CssCandidate(node[c]) \in Styles
    BY <2>1 DEF Styles
  <2>3. selectors' \in Maps
    BY <2>1, <2>2 DEF Maps
  <2>4. pc' \in [Caller -> PC] /\ DOMAIN held' = Caller
    BY <2>1 DEF PC
  <2>5. \A d \in Caller : /\ pc'[d] \in {"heal", "learn"} => node'[d] \in Element
                          /\ pc'[d] = "swap" => decoded'[d] \in Maps
    BY <2>1
  <2> QED
    BY <2>1, <2>3, <2>4, <2>5
<1>7. ASSUME NEW c \in Caller, Learn(c) PROVE ParserInv'
  <2>1. /\ pc[c] = "learn" /\ Return(c) /\ UNCHANGED <<file, tmp, calls, crashes>>
        /\ \/ selectors' = selectors
           \/ selectors' = [selectors EXCEPT ![name[c]].prints = Learnt(@, node[c])]
    BY <1>7 DEF Learn, At, Continues
  <2>2. selectors[name[c]].prints \in Prints
    BY DEF Maps
  <2>3. Learnt(selectors[name[c]].prints, node[c]) \in Prints
    BY <2>1, <2>2, LearntFits
  <2>4. selectors' \in Maps
    BY <2>1, <2>3 DEF Maps
  <2> QED
    BY <2>1, <2>4, ReturnTypes
<1>8. ASSUME NEW c \in Caller, Save(c) PROVE ParserInv'
  <2>1. /\ tmp' = Broken /\ pc' = [pc EXCEPT ![c] = "encode"]
        /\ UNCHANGED <<selectors, file, name, doc, held, node, opened, decoded>>
    BY <1>8 DEF Save, SaveAside, Goto
  <2>2. calls' \in [Caller -> 0..MaxCalls] /\ crashes' \in 0..MaxCrashes
    BY <1>8, CalledTypes DEF Save
  <2>3. pc' \in [Caller -> PC]
    BY <2>1 DEF PC
  <2>4. \A d \in Caller : /\ pc'[d] \in {"heal", "learn"} => node'[d] \in Element
                          /\ pc'[d] = "swap" => decoded'[d] \in Maps
    BY <2>1
  <2> QED
    BY <2>1, <2>2, <2>3, <2>4
<1>9. ASSUME NEW c \in Caller, Encode(c) PROVE ParserInv'
  <2>1. /\ pc' = [pc EXCEPT ![c] = "rename"]
        /\ UNCHANGED <<selectors, name, doc, held, node, opened, decoded, calls, crashes>>
        /\ file' \in {file, selectors} /\ tmp' \in {tmp, selectors}
    BY <1>9 DEF Encode, Goto, Continues
  <2>2. pc' \in [Caller -> PC]
    BY <2>1 DEF PC
  <2>3. \A d \in Caller : /\ pc'[d] \in {"heal", "learn"} => node'[d] \in Element
                          /\ pc'[d] = "swap" => decoded'[d] \in Maps
    BY <2>1
  <2> QED
    BY <2>1, <2>2, <2>3
<1>10. ASSUME NEW c \in Caller, Rename(c) PROVE ParserInv'
  <2>1. /\ pc' = [pc EXCEPT ![c] = "idle"]
        /\ UNCHANGED <<selectors, name, doc, held, node, decoded, calls, crashes>>
        /\ file' \in {file, tmp} /\ tmp' \in {tmp, Absent}
    BY <1>10 DEF Rename, Goto, Continues
  <2>2. opened' \in [Caller -> {"tmp", "file"}]
    <3>1. CASE opened' = [d \in Caller |-> IF d # c /\ pc[d] \in {"encode", "rename"} THEN "file" ELSE "tmp"]
      BY <3>1
    <3>2. CASE opened' = [opened EXCEPT ![c] = "tmp"]
      BY <3>2
    <3> QED
      BY <1>10, <3>1, <3>2 DEF Rename
  <2>3. pc' \in [Caller -> PC]
    BY <2>1 DEF PC
  <2>4. \A d \in Caller : /\ pc'[d] \in {"heal", "learn"} => node'[d] \in Element
                          /\ pc'[d] = "swap" => decoded'[d] \in Maps
    BY <2>1
  <2> QED
    BY <2>1, <2>2, <2>3, <2>4
<1>11. ASSUME NEW c \in Caller, Load(c) PROVE ParserInv'
  <2>1. /\ file \notin {Absent, Broken} /\ decoded' = [decoded EXCEPT ![c] = file]
        /\ pc' = [pc EXCEPT ![c] = "swap"]
        /\ UNCHANGED <<selectors, file, tmp, name, doc, held, node, opened>>
    BY <1>11 DEF Load, Goto
  <2>2. calls' \in [Caller -> 0..MaxCalls] /\ crashes' \in 0..MaxCrashes
    BY <1>11, CalledTypes DEF Load
  <2>3. file \in Maps
    BY <2>1
  <2>4. pc' \in [Caller -> PC] /\ DOMAIN decoded' = Caller
    BY <2>1 DEF PC
  <2>5. \A d \in Caller : /\ pc'[d] \in {"heal", "learn"} => node'[d] \in Element
                          /\ pc'[d] = "swap" => decoded'[d] \in Maps
    BY <2>1, <2>3
  <2> QED
    BY <2>1, <2>2, <2>4, <2>5
<1>12. ASSUME NEW c \in Caller, Swap(c) PROVE ParserInv'
  <2>1. /\ pc[c] = "swap" /\ selectors' = decoded[c] /\ Keep(Name)
        /\ decoded' = [decoded EXCEPT ![c] = Absent] /\ pc' = [pc EXCEPT ![c] = "idle"]
        /\ UNCHANGED <<file, tmp, name, doc, node, opened, calls, crashes>>
    BY <1>12 DEF Swap, At, Goto, Continues
  <2>2. selectors' \in Maps
    BY <2>1
  <2>3. pc' \in [Caller -> PC] /\ DOMAIN held' = Caller /\ DOMAIN decoded' = Caller
    BY <2>1 DEF PC, Keep
  <2>4. \A d \in Caller : /\ pc'[d] \in {"heal", "learn"} => node'[d] \in Element
                          /\ pc'[d] = "swap" => decoded'[d] \in Maps
    BY <2>1
  <2> QED
    BY <2>1, <2>2, <2>3, <2>4
<1>13. ASSUME Crash PROVE ParserInv'
  <2>1. /\ selectors' = Empty /\ UNCHANGED <<file, tmp, calls>>
        /\ pc' = [c \in Caller |-> "idle"] /\ opened' = [c \in Caller |-> "tmp"]
        /\ name' = [c \in Caller |-> AnyName] /\ doc' = [c \in Caller |-> AnyDocument]
        /\ node' = [c \in Caller |-> NoNode]
        /\ held' = [c \in Caller |-> Live] /\ decoded' = [c \in Caller |-> Absent]
    BY <1>13 DEF Crash, Fresh
  <2>2. crashes' \in 0..MaxCrashes
    BY <1>13, ParserAssumption DEF Crash
  <2>3. pc' \in [Caller -> PC]
    BY <2>1 DEF PC
  <2>4. name' \in [Caller -> Name] /\ doc' \in [Caller -> Document]
    BY <2>1, SomeArguments
  <2>5. node' \in [Caller -> Element \cup {NoNode}] /\ opened' \in [Caller -> {"tmp", "file"}]
    BY <2>1
  <2>6. \A d \in Caller : pc'[d] = "idle"
    BY <2>1
  <2>7. DOMAIN held' = Caller /\ DOMAIN decoded' = Caller
    BY <2>1
  <2> QED
    BY <2>1, <2>2, <2>3, <2>4, <2>5, <2>6, <2>7, EmptyMap
<1>14. ASSUME UNCHANGED vars PROVE ParserInv'
  BY <1>14 DEF vars, callVars
<1> QED
  BY <1>1, <1>2, <1>3, <1>4, <1>5, <1>6, <1>7, <1>8, <1>9, <1>10, <1>11, <1>12, <1>13, <1>14
     DEF Next, Begin, Step

LEMMA ParserStarts == Init => ParserInv
<1> SUFFICES ASSUME Init PROVE ParserInv
  OBVIOUS
<1>1. calls \in [Caller -> 0..MaxCalls] /\ crashes \in 0..MaxCrashes
  BY ParserAssumption DEF Init, Fresh
<1>2. name \in [Caller -> Name] /\ doc \in [Caller -> Document]
  BY SomeArguments DEF Init, Fresh
<1>3. pc \in [Caller -> PC] /\ node \in [Caller -> Element \cup {NoNode}] /\ opened \in [Caller -> {"tmp", "file"}]
  BY DEF Init, Fresh, PC
<1>4. selectors \in Maps /\ file = Absent /\ tmp = Absent
  BY EmptyMap DEF Init
<1>5. DOMAIN held = Caller /\ DOMAIN decoded = Caller /\ \A c \in Caller : pc[c] = "idle"
  BY DEF Init, Fresh
<1> QED
  BY <1>1, <1>2, <1>3, <1>4, <1>5 DEF ParserInv

\* The types, with the bound of Cap fingerprints, each of an element that was
\* found: Register, healing, learning, and the swap of what Load read keep them.
THEOREM TypeCorrect == Spec => []TypeOK
<1>1. ParserInv => TypeOK
  <2> SUFFICES ASSUME ParserInv PROVE TypeOK
    OBVIOUS
  <2>1. /\ DOMAIN selectors = Name
        /\ \A n \in Name : Len(selectors[n].prints) <= Cap /\ ToSet(selectors[n].prints) \subseteq Element
    BY MapFacts DEF ParserInv
  <2> QED
    BY <2>1 DEF ParserInv, TypeOK
<1> QED
  BY <1>1, ParserStarts, ParserSteps, PTL DEF Spec

----------------------------------------------------------------------------
(* The file. *)

\* A saver between opening and renaming may save, writes to path.tmp, and before
\* the rename that holds the map.
FileInv ==
    /\ ParserInv
    /\ file # Broken
    /\ \A c \in Caller : /\ pc[c] \in {"encode", "rename"} => c \in MaySave
                         /\ opened[c] = "tmp"
                         /\ pc[c] = "rename" => tmp = selectors

\* One goroutine saves.
OneSaver == \A c, d \in MaySave : c = d

LEMMA FileSteps ==
    ASSUME OneSaver
    PROVE  FileInv /\ [Next]_vars => FileInv'
<1> SUFFICES ASSUME FileInv, [Next]_vars PROVE FileInv'
  OBVIOUS
<1>0. ParserInv /\ ParserInv'
  BY ParserSteps DEF FileInv
<1>t. pc \in [Caller -> PC] /\ opened \in [Caller -> {"tmp", "file"}]
  BY <1>0 DEF ParserInv
<1> USE DEF FileInv
<1>1. ASSUME NEW c \in Caller, Register(c) PROVE FileInv'
  <2>1. UNCHANGED <<file, tmp, pc, opened>> /\ \A d \in Caller : pc[d] \notin {"encode", "rename"}
    BY <1>1 DEF Register, CanWrite
  <2> QED
    BY <1>0, <2>1
<1>2. ASSUME NEW c \in Caller, Select(c) \/ Match(c) \/ Load(c) PROVE FileInv'
  <2>1. /\ UNCHANGED <<selectors, file, tmp, opened>>
        /\ \E s \in {"match", "similar", "learn", "swap"} : pc' = [pc EXCEPT ![c] = s]
    BY <1>2 DEF Select, Match, Load, Goto
  <2> QED
    BY <1>0, <1>t, <2>1
<1>3. ASSUME NEW c \in Caller, Return(c), UNCHANGED <<selectors, file, tmp>> PROVE FileInv'
  <2>1. pc' = [pc EXCEPT ![c] = "idle"] /\ opened' = [opened EXCEPT ![c] = "tmp"]
    BY <1>3 DEF Return, Goto
  <2> QED
    BY <1>0, <1>3, <1>t, <2>1
<1>4. ASSUME NEW c \in Caller, CompileError(c) \/ EncodeFails(c) PROVE FileInv'
  BY <1>3, <1>4 DEF CompileError, EncodeFails
<1>5. ASSUME NEW c \in Caller, Similar(c) PROVE FileInv'
  <2>1. UNCHANGED <<selectors, file, tmp>>
        /\ (Return(c) \/ (pc' = [pc EXCEPT ![c] = "heal"] /\ UNCHANGED opened))
    BY <1>5 DEF Similar, Goto
  <2>2. CASE pc' = [pc EXCEPT ![c] = "heal"] /\ UNCHANGED opened
    BY <1>0, <1>t, <2>1, <2>2
  <2> QED
    BY <1>3, <2>1, <2>2
<1>6. ASSUME NEW c \in Caller, Heal(c) PROVE FileInv'
  <2>1. /\ UNCHANGED <<file, tmp, opened>> /\ pc' = [pc EXCEPT ![c] = "learn"]
        /\ \A d \in Caller : pc[d] \notin {"encode", "rename"}
    BY <1>6 DEF Heal, CanWrite, Goto
  <2> QED
    BY <1>0, <1>t, <2>1
<1>7. ASSUME NEW c \in Caller, Learn(c) PROVE FileInv'
  <2>1. /\ UNCHANGED <<file, tmp>> /\ pc' = [pc EXCEPT ![c] = "idle"] /\ opened' = [opened EXCEPT ![c] = "tmp"]
        /\ \A d \in Caller : pc[d] \notin {"encode", "rename"}
    BY <1>7 DEF Learn, CanWrite, Return, Goto
  <2> QED
    BY <1>0, <1>t, <2>1
<1>8. ASSUME NEW c \in Caller, Save(c) PROVE FileInv'
  <2>1. /\ UNCHANGED <<file, opened>> /\ pc' = [pc EXCEPT ![c] = "encode"]
        /\ pc[c] = "idle" /\ c \in MaySave
    BY <1>8 DEF Save, SaveAside, Goto, Called, At
  <2>2. \A d \in Caller : pc[d] # "rename"
    BY <2>1 DEF OneSaver
  <2> QED
    BY <1>0, <1>t, <2>1, <2>2
<1>9. ASSUME NEW c \in Caller, Encode(c) PROVE FileInv'
  <2>1. /\ UNCHANGED <<selectors, file, opened>> /\ tmp' = selectors /\ pc' = [pc EXCEPT ![c] = "rename"]
        /\ pc[c] = "encode"
    BY <1>9 DEF Encode, Goto, At
  <2> QED
    BY <1>0, <1>t, <2>1
<1>10. ASSUME NEW c \in Caller, Rename(c) PROVE FileInv'
  <2>1. /\ pc[c] = "rename" /\ UNCHANGED selectors /\ pc' = [pc EXCEPT ![c] = "idle"]
        /\ file' \in {file, tmp}
    BY <1>10 DEF Rename, At, Goto
  <2>2. selectors # Broken
    BY <1>0, MapFacts DEF ParserInv
  <2>3. file' # Broken
    BY <2>1, <2>2
  <2>4. \A d \in Caller : d # c => pc[d] \notin {"encode", "rename"}
    BY <2>1 DEF OneSaver
  <2>5. \A d \in Caller : opened'[d] = "tmp"
    <3>1. CASE opened' = [d \in Caller |-> IF d # c /\ pc[d] \in {"encode", "rename"} THEN "file" ELSE "tmp"]
      BY <2>4, <3>1
    <3>2. CASE opened' = [opened EXCEPT ![c] = "tmp"]
      BY <1>t, <3>2
    <3> QED
      BY <1>10, <3>1, <3>2 DEF Rename
  <2>6. \A d \in Caller : pc'[d] \notin {"encode", "rename"}
    BY <1>t, <2>1, <2>4
  <2> QED
    BY <1>0, <2>3, <2>5, <2>6
<1>11. ASSUME NEW c \in Caller, Swap(c) PROVE FileInv'
  <2>1. /\ UNCHANGED <<file, tmp, opened>> /\ pc' = [pc EXCEPT ![c] = "idle"]
        /\ \A d \in Caller : pc[d] \notin {"encode", "rename"}
    BY <1>11 DEF Swap, CanWrite, Goto
  <2> QED
    BY <1>0, <1>t, <2>1
<1>12. ASSUME Crash PROVE FileInv'
  <2>1. /\ UNCHANGED file /\ pc' = [c \in Caller |-> "idle"] /\ opened' = [c \in Caller |-> "tmp"]
    BY <1>12 DEF Crash, Fresh
  <2> QED
    BY <1>0, <2>1
<1>13. ASSUME UNCHANGED vars PROVE FileInv'
  BY <1>0, <1>13 DEF vars, callVars
<1> QED
  BY <1>1, <1>2, <1>4, <1>5, <1>6, <1>7, <1>8, <1>9, <1>10, <1>11, <1>12, <1>13
     DEF Next, Begin, Step

LEMMA FileStarts == Init => FileInv
<1> SUFFICES ASSUME Init PROVE FileInv
  OBVIOUS
<1>1. ParserInv
  BY ParserStarts
<1>2. file # Broken
  <2>1. DOMAIN Absent = {} /\ DOMAIN Broken = {"broken"}
    BY DEF Absent, Broken
  <2> QED
    BY <2>1 DEF Init
<1> QED
  BY <1>1, <1>2 DEF FileInv, Init, Fresh

\* With one saver, whenever the process dies and whatever the other calls do
\* meanwhile, the file is missing or whole: Save writes aside and renames.
THEOREM FileStaysWhole == ASSUME OneSaver PROVE Spec => []FileWhole
<1>1. FileInv => FileWhole
  BY DEF FileInv, FileWhole
<1>2. FileInv /\ [Next]_vars => FileInv'
  BY FileSteps
<1> QED
  BY <1>1, <1>2, FileStarts, PTL DEF Spec

\* With one saver what is renamed onto the file is the map as it is then: every
\* write to the map waits for the lock that Save holds.
THEOREM SaveIsCurrent == ASSUME OneSaver PROVE Spec => []SavedIsCurrent
<1>1. FileInv => SavedIsCurrent
  BY DEF FileInv, SavedIsCurrent, At
<1>2. FileInv /\ [Next]_vars => FileInv'
  BY FileSteps
<1> QED
  BY <1>1, <1>2, FileStarts, PTL DEF Spec

----------------------------------------------------------------------------
(* Healing. *)

\* A call moves only itself.
LEMMA OthersStay ==
    ASSUME ParserInv, NEW c \in Caller, NEW d \in Caller, c # d, Begin(d) \/ Step(d)
    PROVE  pc'[c] = pc[c]
<1>1. pc' = pc \/ \E s : pc' = [pc EXCEPT ![d] = s]
  <2>1. CASE Begin(d)
    BY <2>1 DEF Begin, Register, Select, Save, Load, Goto
  <2>2. CASE Step(d)
    BY <2>2 DEF Step, Match, CompileError, Similar, Heal, Learn, Encode, EncodeFails, Rename, Swap, Return, Goto
  <2> QED
    BY <2>1, <2>2
<1> QED
  BY <1>1 DEF ParserInv

\* A call that looks for a similar element takes no other step.
LEMMA SimilarNext ==
    ASSUME NEW c \in Caller, At(c, "similar"), Begin(c) \/ Step(c)
    PROVE  Similar(c)
  BY DEF At, Begin, Step, Register, Select, Save, Load, Called, Match, CompileError, Heal, Learn, Encode,
         EncodeFails, Rename, Swap

\* For every document and every list of fingerprints: Select heals to an element
\* that agrees with a fingerprint in two of tag, id and class, and gives up only
\* if there is none.  The weights and the threshold of findSimilar say this.
THEOREM HealsWhatIsAlike == Spec => HealsTheAlike
<1> DEFINE Healed(c) ==
      IF Recognised(doc[c], Object(c).prints) = {} THEN pc'[c] = "idle"
      ELSE node'[c] \in Recognised(doc[c], Object(c).prints)
           A == \A c \in Caller : At(c, "similar") /\ pc'[c] # "similar" /\ crashes' = crashes => Healed(c)
<1>1. ASSUME ParserInv, NEW c \in Caller, Similar(c) PROVE Healed(c)
  <2> DEFINE e == FindSimilar(doc[c], Object(c).prints)
             R == Recognised(doc[c], Object(c).prints)
  <2>1. doc[c] \in Document /\ pc \in [Caller -> PC] /\ node \in [Caller -> Element \cup {NoNode}]
    BY <1>1 DEF ParserInv
  <2>2. /\ R = {} => e = NoNode
        /\ R # {} => e \in R /\ e # NoNode
    BY <2>1, FindsTheAlike
  <2>3. /\ e = NoNode => pc' = [pc EXCEPT ![c] = "idle"]
        /\ e # NoNode => node' = [node EXCEPT ![c] = e]
    BY <1>1 DEF Similar, Return, Goto
  <2> HIDE DEF e, R
  <2>4. IF R = {} THEN pc'[c] = "idle" ELSE node'[c] \in R
    BY <2>1, <2>2, <2>3
  <2> QED
    BY <2>4 DEF R
<1>2. ParserInv /\ [Next]_vars => A \/ UNCHANGED vars
  <2> SUFFICES ASSUME ParserInv, Next, NEW c \in Caller,
                      At(c, "similar"), pc'[c] # "similar", crashes' = crashes
               PROVE  Healed(c)
    OBVIOUS
  <2>1. ~Crash
    <3>1. crashes \in Nat
      BY ParserAssumption DEF ParserInv
    <3> QED
      BY <3>1 DEF Crash
  <2>2. PICK d \in Caller : Begin(d) \/ Step(d)
    BY <2>1 DEF Next
  <2>3. d = c
    BY <2>2, OthersStay DEF At
  <2>4. Similar(c)
    BY <2>2, <2>3, SimilarNext
  <2> QED
    BY <1>1, <2>4
<1> HIDE DEF A
<1>3. Spec => [][A]_vars
  BY <1>2, ParserStarts, ParserSteps, PTL DEF Spec
<1> QED
  BY <1>3 DEF A, HealsTheAlike

=============================================================================
