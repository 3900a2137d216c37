----------------------------- MODULE OrderLemmas -----------------------------
(* Facts about sets of natural numbers that the proofs of several components   *)
(* cite.  Induction over the naturals enters here once, as the existence of a  *)
(* least element; it rests on the well-foundedness of the strict subset order. *)
EXTENDS Integers, FiniteSetTheorems, TLAPS

\* Every nonempty set of natural numbers has a least element.
LEMMA LeastNat ==
    ASSUME NEW T, T \subseteq Nat, T # {}
    PROVE  \E x \in T : \A y \in T : x <= y
<1>1. PICK t \in T : t \in Nat
  OBVIOUS
<1> DEFINE S == 0..t
           Below(x) == {y \in T : y < x}
           R == StrictSubsetOrdering(S)
           F == {Below(x) : x \in T \cap S}
<1>2. IsFiniteSet(S)
  BY <1>1, FS_Interval
<1>3. IsWellFoundedOn(R, FiniteSubsetsOf(S))
  BY FS_StrictSubsetOrderingWellFounded
<1>4. \A x \in T \cap S : Below(x) \subseteq S
  <2> SUFFICES ASSUME NEW x \in T, x \in S, NEW y \in T, y < x PROVE y \in S
    OBVIOUS
  <2>1. y \in Nat /\ x \in Nat
    OBVIOUS
  <2> QED
    BY <1>1, <2>1
<1>5. t \in T \cap S
  BY <1>1
<1>6. F \subseteq FiniteSubsetsOf(S) /\ F # {}
  <2>1. \A x \in T \cap S : Below(x) \in FiniteSubsetsOf(S)
    BY <1>4, <1>2, FS_Subset DEF FiniteSubsetsOf
  <2> QED
    BY <2>1, <1>5
<1>7. PICK f \in F : \A g \in F : ~ (<<g, f>> \in R)
  <2> HIDE DEF F, R, S
  <2> QED
    BY <1>3, <1>6, WFMin
<1>8. PICK x \in T \cap S : f = Below(x)
  BY <1>7
<1>9. ASSUME NEW y \in T, y < x PROVE FALSE
  <2>1. y \in Nat /\ x \in Nat
    BY <1>9
  <2>2. y \in T \cap S
    BY <1>1, <1>8, <1>9, <2>1
  <2>3. Below(y) \subseteq Below(x)
    <3> SUFFICES ASSUME NEW z \in T, z < y PROVE z < x
      OBVIOUS
    <3>1. z \in Nat
      OBVIOUS
    <3> QED
      BY <2>1, <3>1, <1>9
  <2>4. y \in Below(x) /\ y \notin Below(y)
    BY <2>1, <1>9
  <2>5. <<Below(y), Below(x)>> \in R
    BY <2>2, <2>3, <2>4, <1>4, <1>8 DEF StrictSubsetOrdering
  <2> QED
    BY <2>2, <2>5, <1>7, <1>8
<1>10. x \in Nat /\ T \subseteq Nat
  BY <1>8
<1> QED
  BY <1>8, <1>9, <1>10

\* Every nonempty set of naturals with an upper bound has a greatest element.
LEMMA GreatestNat ==
    ASSUME NEW T, T \subseteq Nat, T # {}, NEW n \in Nat, \A x \in T : x <= n
    PROVE  \E x \in T : \A y \in T : y <= x
<1> DEFINE U == {k \in Nat : n - k \in T}
<1>1. U # {} /\ U \subseteq Nat
  <2>1. PICK x \in T : x \in Nat /\ x <= n
    OBVIOUS
  <2>2. n - x \in Nat /\ n - (n - x) = x
    BY <2>1
  <2> QED
    BY <2>1, <2>2
<1>2. PICK k \in U : \A y \in U : k <= y
  <2> HIDE DEF U
  <2> QED
    BY <1>1, LeastNat
<1>3. ASSUME NEW y \in T PROVE y <= n - k
  <2>1. y \in Nat /\ y <= n /\ n - y \in Nat /\ n - (n - y) = y
    BY <1>3
  <2>2. n - y \in U
    BY <2>1
  <2>3. k <= n - y /\ k \in Nat
    BY <1>2, <2>2
  <2> QED
    BY <2>1, <2>3
<1> QED
  BY <1>2, <1>3

\* What holds of 0 and passes from each number below n to the next holds up to n.
LEMMA UpTo ==
    ASSUME NEW n \in Nat, NEW P, 0 \in P, \A k \in 0..(n - 1) : k \in P => k + 1 \in P
    PROVE  \A k \in 0..n : k \in P
<1> DEFINE Bad == {k \in 0..n : k \notin P}
<1> SUFFICES ASSUME Bad # {} PROVE FALSE
  OBVIOUS
<1>1. PICK k \in Bad : \A y \in Bad : k <= y
  <2>1. Bad \subseteq Nat
    OBVIOUS
  <2> HIDE DEF Bad
  <2> QED
    BY <2>1, LeastNat
<1>2. k \in Nat /\ k # 0 /\ k <= n
  BY <1>1
<1>3. k - 1 \in 0..(n - 1) /\ ~(k <= k - 1)
  BY <1>2
<1>4. k - 1 \in P
  BY <1>1, <1>3
<1>5. (k - 1) + 1 = k
  BY <1>2
<1> QED
  BY <1>1, <1>3, <1>4, <1>5

\* A set of positive numbers without gaps is an interval, and its size its end.
LEMMA Prefix ==
    ASSUME NEW n \in Nat, NEW S, S \subseteq 1..n,
           \A i \in S : \A j \in 1..i : j \in S
    PROVE  /\ Cardinality(S) \in 0..n
           /\ S = 1..Cardinality(S)
<1>1. CASE S = {}
  BY <1>1, FS_EmptySet
<1>2. CASE S # {}
  <2>1. S \subseteq Nat /\ \A x \in S : x <= n
    OBVIOUS
  <2>2. PICK m \in S : \A y \in S : y <= m
    BY <1>2, <2>1, GreatestNat
  <2>3. S = 1..m
    <3>1. ASSUME NEW y \in S PROVE y \in 1..m
      BY <2>2
    <3> QED
      BY <2>2, <3>1
  <2>4. m \in 1..n
    BY <2>2
  <2>5. Cardinality(1..m) = m
    BY <2>4, FS_Interval
  <2> QED
    BY <2>3, <2>4, <2>5
<1> QED
  BY <1>1, <1>2

\* The rank of i in S is the number of elements up to i.  It is the size of S at
\* the end, grows by one at the next element, and takes each value up to the
\* size of S at an element.
Rank(S, i) == Cardinality({j \in S : j <= i})

LEMMA Ranks ==
    ASSUME NEW n \in Nat, NEW S, S \subseteq 1..n
    PROVE  /\ IsFiniteSet(S) /\ Cardinality(S) \in 0..n
           /\ \A i \in 0..n : Rank(S, i) \in 0..Cardinality(S)
           /\ Rank(S, 0) = 0
           /\ Rank(S, n) = Cardinality(S)
<1>1. IsFiniteSet(1..n) /\ Cardinality(1..n) = n
  BY FS_Interval
<1>2. IsFiniteSet(S) /\ Cardinality(S) \in Nat /\ Cardinality(S) <= n
  BY <1>1, FS_Subset, FS_CardinalityType
<1>3. ASSUME NEW i \in 0..n PROVE Rank(S, i) \in 0..Cardinality(S)
  <2> DEFINE T == {j \in S : j <= i}
  <2>1. T \in SUBSET S
    OBVIOUS
  <2> HIDE DEF T
  <2>2. IsFiniteSet(T) /\ Cardinality(T) <= Cardinality(S) /\ Cardinality(T) \in Nat
    BY <1>2, <2>1, FS_Subset, FS_CardinalityType
  <2>3. Cardinality(T) \in 0..Cardinality(S)
    BY <1>2, <2>2
  <2> QED
    BY <2>3 DEF T, Rank
<1>4. {j \in S : j <= 0} = {} /\ {j \in S : j <= n} = S
  <2>1. \A j \in S : j \in 1..n
    OBVIOUS
  <2>2. \A j \in S : ~(j <= 0) /\ j <= n
    BY <2>1
  <2> QED
    BY <2>2
<1> QED
  BY <1>2, <1>3, <1>4, FS_EmptySet DEF Rank

LEMMA NextRank ==
    ASSUME NEW n \in Nat, NEW S, S \subseteq 1..n, NEW m \in 0..n, NEW i \in S, m < i,
           \A j \in S : j <= m \/ i <= j
    PROVE  Rank(S, i) = Rank(S, m) + 1
<1> DEFINE T == {j \in S : j <= m}
<1>1. IsFiniteSet(T)
  <2>1. IsFiniteSet(S)
    BY Ranks
  <2>2. T \in SUBSET S
    OBVIOUS
  <2> HIDE DEF T
  <2> QED
    BY <2>1, <2>2, FS_Subset
<1>2. {j \in S : j <= i} = T \cup {i}
  <2>1. i \in Nat /\ m \in Nat /\ \A j \in S : j \in Nat
    OBVIOUS
  <2>2. \A j \in S : j <= i <=> (j <= m \/ j = i)
    BY <2>1
  <2> QED
    BY <2>2
<1>3. i \notin T
  <2>1. i \in Nat /\ m \in Nat
    OBVIOUS
  <2> QED
    BY <2>1
<1> HIDE DEF T
<1>4. Cardinality(T \cup {i}) = Cardinality(T) + 1
  BY <1>1, <1>3, FS_AddElement
<1> QED
  BY <1>2, <1>4 DEF T, Rank

LEMMA RankGrows ==
    ASSUME NEW n \in Nat, NEW S, S \subseteq 1..n, NEW m \in 0..n, NEW i \in S, m < i
    PROVE  Rank(S, m) < Rank(S, i)
<1> DEFINE T == {j \in S : j <= m}
           U == {j \in S : j <= i}
<1>1. IsFiniteSet(U)
  <2>1. IsFiniteSet(S)
    BY Ranks
  <2>2. U \in SUBSET S
    OBVIOUS
  <2> HIDE DEF U
  <2> QED
    BY <2>1, <2>2, FS_Subset
<1>2. T \in SUBSET U /\ i \in U /\ i \notin T
  <2>1. i \in Nat /\ m \in Nat /\ \A j \in S : j \in Nat
    OBVIOUS
  <2>2. \A j \in S : j <= m => j <= i
    BY <2>1
  <2>3. i <= i /\ ~(i <= m)
    BY <2>1
  <2> QED
    BY <2>2, <2>3
<1> HIDE DEF T, U
<1>4. IsFiniteSet(T) /\ Cardinality(T) <= Cardinality(U) /\ Cardinality(T) # Cardinality(U)
  BY <1>1, <1>2, FS_Subset
<1>5. Cardinality(T) \in Nat /\ Cardinality(U) \in Nat
  BY <1>1, <1>4, FS_CardinalityType
<1> QED
  BY <1>4, <1>5 DEF T, U, Rank

LEMMA EveryRank ==
    ASSUME NEW n \in Nat, NEW S, S \subseteq 1..n, NEW k \in 1..Cardinality(S)
    PROVE  \E i \in S : Rank(S, i) = k
<1> DEFINE c(i) == Rank(S, i)
           T == {i \in 0..n : c(i) >= k}
<1>1. /\ Cardinality(S) \in 0..n /\ k \in Nat \ {0} /\ k <= Cardinality(S)
      /\ \A i \in 0..n : c(i) \in Nat
      /\ c(0) = 0 /\ c(n) = Cardinality(S)
  <2>1. /\ Cardinality(S) \in 0..n /\ c(0) = 0 /\ c(n) = Cardinality(S)
        /\ \A i \in 0..n : c(i) \in 0..Cardinality(S)
    BY Ranks
  <2> HIDE DEF c
  <2> QED
    BY <2>1
<1> HIDE DEF c
<1>2. n \in T /\ T \subseteq Nat
  BY <1>1
<1>3. PICK i \in T : \A y \in T : i <= y
  BY <1>2, LeastNat
<1>4. i \in 1..n /\ i - 1 \in 0..n /\ ~(i <= i - 1) /\ i \in Nat
  BY <1>1, <1>3
<1>5. c(i) >= k /\ ~(c(i - 1) >= k)
  BY <1>3, <1>4
<1>6. i \in S
  <2> SUFFICES ASSUME i \notin S PROVE FALSE
    OBVIOUS
  <2>1. \A j \in S : j \in 1..n /\ j # i
    OBVIOUS
  <2>2. \A j \in S : j <= i <=> j <= i - 1
    BY <1>4, <2>1
  <2>3. {j \in S : j <= i} = {j \in S : j <= i - 1}
    BY <2>2
  <2> QED
    BY <1>5, <2>3 DEF c, Rank
<1>7. c(i) = c(i - 1) + 1
  <2>1. \A j \in S : j <= i - 1 \/ i <= j
    <3>1. \A j \in S : j \in Nat
      OBVIOUS
    <3> QED
      BY <1>4, <3>1
  <2>2. i - 1 < i
    BY <1>4
  <2>3. PICK m \in 0..n : m = i - 1
    BY <1>4
  <2>4. m < i /\ \A j \in S : j <= m \/ i <= j
    BY <2>1, <2>2, <2>3
  <2> HIDE DEF T
  <2>5. c(i) = c(m) + 1
    BY <1>6, <2>4, NextRank DEF c
  <2> QED
    BY <2>3, <2>5
<1>8. c(i) \in Nat /\ c(i - 1) \in Nat
  BY <1>1, <1>4
<1>9. c(i) = k
  BY <1>1, <1>5, <1>7, <1>8
<1> QED
  BY <1>6, <1>9 DEF c
=============================================================================
