---------------------------- MODULE ServiceProofs ----------------------------
(* Theorems about Service and the engine and guard it drives, for every set of  *)
(* callers and addresses and every value of the other constants.                *)
EXTENDS Service, OrderLemmas, SequenceTheorems

----------------------------------------------------------------------------
(* The guard. *)

\* The requests accepted within a minute from one address, oldest first: k of
\* them before this window, the others in it.  The count of the window says how
\* many those are, up to the limit.
Split(ip, k) ==
    /\ k <= RateLimit /\ Len(accepted[ip]) - k <= RateLimit
    /\ \A i \in 1..k : accepted[ip][i] > windowAge
    /\ \A i \in (k + 1)..Len(accepted[ip]) : accepted[ip][i] <= windowAge
    /\ ~WindowOver => Len(accepted[ip]) - k = IF counts[ip] < RateLimit THEN counts[ip] ELSE RateLimit
GuardInv ==
    \A ip \in IP :
       /\ \A i, j \in 1..Len(accepted[ip]) : i <= j => accepted[ip][i] >= accepted[ip][j]
       /\ WindowOver => \A i \in 1..Len(accepted[ip]) : accepted[ip][i] > 0
       /\ \E k \in 0..Len(accepted[ip]) : Split(ip, k)

LEMMA AgesType ==
    ASSUME GuardTypeOK, NEW ip \in IP
    PROVE  /\ accepted[ip] \in Seq(0..(Minute - 1))
           /\ Len(accepted[ip]) \in Nat /\ DOMAIN accepted[ip] = 1..Len(accepted[ip])
           /\ \A i \in 1..Len(accepted[ip]) : accepted[ip][i] \in Nat /\ accepted[ip][i] < Minute
           /\ windowAge \in Nat /\ counts[ip] \in Nat /\ RateLimit \in Nat /\ Minute \in Nat \ {0}
<1>1. accepted[ip] \in Seq(0..(Minute - 1)) /\ windowAge \in 0..Minute /\ counts[ip] \in Nat
  BY DEF GuardTypeOK
<1>2. Len(accepted[ip]) \in Nat /\ DOMAIN accepted[ip] = 1..Len(accepted[ip])
  BY <1>1, LenProperties
<1>3. \A i \in 1..Len(accepted[ip]) : accepted[ip][i] \in 0..(Minute - 1)
  BY <1>1, ElementOfSeq
<1> QED
  BY <1>1, <1>2, <1>3, GuardAssumption

\* Time passes for the ages of one address.
LEMMA AgedFacts ==
    ASSUME GuardTypeOK, GuardInv, NEW ip \in IP
    PROVE  \E gone \in 0..Len(accepted[ip]) :
              /\ Aged(accepted[ip]) \in Seq(0..(Minute - 1))
              /\ Len(Aged(accepted[ip])) = Len(accepted[ip]) - gone
              /\ \A i \in 1..gone : accepted[ip][i] = Minute - 1
              /\ \A i \in 1..(Len(accepted[ip]) - gone) :
                    Aged(accepted[ip])[i] = accepted[ip][i + gone] + 1
<1> DEFINE ages == accepted[ip]
           G == {i \in DOMAIN ages : ages[i] = Minute - 1}
           gone == Cardinality(G)
           n == Len(ages) - gone
<1>1. /\ Len(ages) \in Nat /\ DOMAIN ages = 1..Len(ages) /\ Minute \in Nat \ {0}
      /\ \A i \in 1..Len(ages) : ages[i] \in Nat /\ ages[i] < Minute
  BY AgesType
<1>2. ASSUME NEW i \in G, NEW j \in 1..i PROVE j \in G
  <2>1. i \in 1..Len(ages) /\ ages[i] = Minute - 1 /\ j \in 1..Len(ages) /\ j <= i
    BY <1>1
  <2>2. ages[j] >= ages[i]
    BY <2>1 DEF GuardInv
  <2>3. ages[j] = Minute - 1
    BY <1>1, <2>1, <2>2
  <2> QED
    BY <1>1, <2>1, <2>3
<1>3. gone \in 0..Len(ages) /\ G = 1..gone
  <2>1. G \subseteq 1..Len(ages)
    BY <1>1
  <2> HIDE DEF G, ages
  <2> QED
    BY <1>1, <1>2, <2>1, Prefix
<1>4. \A i \in 1..Len(ages) : ages[i] = Minute - 1 <=> i <= gone
  <2>1. \A i \in 1..Len(ages) : i \in G <=> ages[i] = Minute - 1
    BY <1>1
  <2> HIDE DEF G, ages
  <2> QED
    BY <1>1, <1>3, <2>1
<1>5. n \in Nat /\ Aged(ages) = [i \in 1..n |-> ages[i + gone] + 1]
  <2>1. n \in Nat
    <3> HIDE DEF gone, ages
    <3> QED
      BY <1>1, <1>3
  <2> QED
    BY <2>1 DEF Aged
<1> HIDE DEF ages, G, gone
<1>6. \A i \in 1..n : i + gone \in 1..Len(ages) /\ ages[i + gone] + 1 \in 0..(Minute - 1)
  <2> SUFFICES ASSUME NEW i \in 1..n
               PROVE  i + gone \in 1..Len(ages) /\ ages[i + gone] + 1 \in 0..(Minute - 1)
    OBVIOUS
  <2>1. i + gone \in 1..Len(ages) /\ ~(i + gone <= gone)
    BY <1>1, <1>3, <1>5
  <2>2. ages[i + gone] \in Nat /\ ages[i + gone] < Minute /\ ages[i + gone] # Minute - 1
    BY <1>1, <1>4, <2>1
  <2> QED
    BY <1>1, <2>1, <2>2
<1> HIDE DEF n
<1>7. Aged(ages) \in Seq(0..(Minute - 1)) /\ Len(Aged(ages)) = n
  <2>1. Aged(ages) \in [1..n -> 0..(Minute - 1)]
    BY <1>5, <1>6
  <2>2. Aged(ages) \in Seq(0..(Minute - 1))
    BY <1>5, <2>1, SeqDef
  <2>3. DOMAIN Aged(ages) = 1..n /\ DOMAIN Aged(ages) = 1..Len(Aged(ages)) /\ Len(Aged(ages)) \in Nat
    BY <2>1, <2>2, LenProperties
  <2> QED
    BY <1>5, <2>2, <2>3
<1>8. \A i \in 1..gone : ages[i] = Minute - 1
  BY <1>1, <1>3, <1>4
<1>9. \A i \in 1..n : Aged(ages)[i] = ages[i + gone] + 1
  BY <1>5
<1> QED
  BY <1>3, <1>7, <1>8, <1>9 DEF ages, n

LEMMA GuardTicks ==
    ASSUME GuardTypeOK, GuardInv, GuardTick
    PROVE  GuardTypeOK' /\ GuardInv'
<1>1. windowAge \in 0..Minute /\ Minute \in Nat \ {0} /\ counts' = counts
  BY GuardAssumption DEF GuardTypeOK, GuardTick
<1>2. windowAge' \in 0..Minute /\ windowAge' = IF windowAge < Minute THEN windowAge + 1 ELSE Minute
  BY <1>1 DEF GuardTick, WindowOver
<1>3. \A ip \in IP : accepted'[ip] = Aged(accepted[ip])
  BY DEF GuardTick
<1>4. GuardTypeOK'
  <2>1. \A ip \in IP : Aged(accepted[ip]) \in Seq(0..(Minute - 1))
    BY AgedFacts
  <2>2. accepted' \in [IP -> Seq(0..(Minute - 1))]
    BY <2>1 DEF GuardTick
  <2> QED
    BY <1>1, <1>2, <2>2 DEF GuardTypeOK
<1>5. ASSUME NEW ip \in IP
      PROVE  /\ \A i, j \in 1..Len(accepted'[ip]) : i <= j => accepted'[ip][i] >= accepted'[ip][j]
             /\ WindowOver' => \A i \in 1..Len(accepted'[ip]) : accepted'[ip][i] > 0
             /\ \E k \in 0..Len(accepted'[ip]) : Split(ip, k)'
  <2> DEFINE ages == accepted[ip]
             later == accepted'[ip]
  <2>1. PICK gone \in 0..Len(ages) :
           /\ Len(later) = Len(ages) - gone
           /\ \A i \in 1..gone : ages[i] = Minute - 1
           /\ \A i \in 1..(Len(ages) - gone) : later[i] = ages[i + gone] + 1
    BY <1>3, AgedFacts
  <2>2. PICK k \in 0..Len(ages) : Split(ip, k)
    BY DEF GuardInv
  <2>3. /\ Len(ages) \in Nat /\ RateLimit \in Nat
        /\ \A i \in 1..Len(ages) : ages[i] \in Nat /\ ages[i] < Minute
    BY AgesType
  <2>4. \A i, j \in 1..Len(ages) : i <= j => ages[i] >= ages[j]
    BY DEF GuardInv
  <2>5. /\ k <= RateLimit /\ Len(ages) - k <= RateLimit
        /\ \A i \in 1..k : ages[i] > windowAge
        /\ \A i \in (k + 1)..Len(ages) : ages[i] <= windowAge
        /\ windowAge < Minute =>
              Len(ages) - k = IF counts[ip] < RateLimit THEN counts[ip] ELSE RateLimit
    BY <1>1, <2>2 DEF Split, WindowOver
  <2> HIDE DEF ages, later
  <2>6. Len(later) \in Nat /\ \A i \in 1..Len(later) :
           i + gone \in 1..Len(ages) /\ later[i] = ages[i + gone] + 1 /\ ages[i + gone] \in Nat
    BY <2>1, <2>3
  <2>7. \A i, j \in 1..Len(later) : i <= j => later[i] >= later[j]
    <3> SUFFICES ASSUME NEW i \in 1..Len(later), NEW j \in 1..Len(later), i <= j
                 PROVE  later[i] >= later[j]
      OBVIOUS
    <3>1. ages[i + gone] >= ages[j + gone]
      BY <2>1, <2>4, <2>6
    <3> QED
      BY <2>6, <3>1
  <2>8. \A i \in 1..Len(later) : later[i] > 0
    BY <2>6
  \* The window stays, or it is over and no request was accepted before it.
  <2>9. CASE windowAge + 1 < Minute
    <3>1. gone <= k
      <4> SUFFICES ASSUME k < gone PROVE FALSE
        BY <2>1, <2>3
      <4>1. k + 1 \in 1..gone /\ k + 1 \in (k + 1)..Len(ages)
        BY <2>1, <2>3
      <4>2. ages[k + 1] = Minute - 1 /\ ages[k + 1] <= windowAge
        BY <2>1, <2>5, <4>1
      <4> QED
        BY <1>1, <2>9, <4>2
    <3>2. k - gone \in 0..Len(later) /\ Len(later) - (k - gone) = Len(ages) - k
      BY <2>1, <2>3, <3>1
    <3>3. \A i \in 1..(k - gone) : later[i] > windowAge'
      <4> SUFFICES ASSUME NEW i \in 1..(k - gone) PROVE later[i] > windowAge'
        OBVIOUS
      <4>1. i \in 1..Len(later) /\ i + gone \in 1..k
        BY <2>1, <2>3, <3>1, <3>2
      <4>2. ages[i + gone] > windowAge
        BY <2>5, <4>1
      <4> QED
        BY <1>1, <1>2, <2>6, <2>9, <4>1, <4>2
    <3>4. \A i \in ((k - gone) + 1)..Len(later) : later[i] <= windowAge'
      <4> SUFFICES ASSUME NEW i \in ((k - gone) + 1)..Len(later) PROVE later[i] <= windowAge'
        OBVIOUS
      <4>1. i \in 1..Len(later) /\ i + gone \in (k + 1)..Len(ages)
        BY <2>1, <2>3, <3>1, <3>2
      <4>2. ages[i + gone] <= windowAge
        BY <2>5, <4>1
      <4> QED
        BY <1>1, <1>2, <2>6, <2>9, <4>1, <4>2
    <3>5. windowAge < Minute /\ k - gone <= RateLimit
      BY <1>1, <2>1, <2>3, <2>5, <2>9
    <3>6. Split(ip, k - gone)'
      BY <1>1, <2>5, <3>2, <3>3, <3>4, <3>5 DEF Split, later
    <3> QED
      BY <2>7, <2>8, <3>2, <3>6 DEF later
  <2>10. CASE ~(windowAge + 1 < Minute)
    <3>1. windowAge' = Minute /\ WindowOver'
      BY <1>1, <1>2, <2>10 DEF WindowOver
    <3>2. k = 0
      <4> SUFFICES ASSUME k > 0 PROVE FALSE
        BY <2>3
      <4>1. 1 \in 1..k /\ 1 \in 1..Len(ages)
        BY <2>3
      <4>2. ages[1] > windowAge /\ ages[1] < Minute /\ ages[1] \in Nat
        BY <2>3, <2>5, <4>1
      <4> QED
        BY <1>1, <2>10, <4>2
    <3>3. Len(later) <= RateLimit
      BY <2>1, <2>3, <2>5, <3>2
    <3>4. \A i \in 1..Len(later) : later[i] <= windowAge'
      BY <1>1, <2>3, <2>6, <3>1
    <3>5. Split(ip, 0)'
      BY <2>3, <2>6, <3>1, <3>3, <3>4 DEF Split, later
    <3> QED
      BY <2>6, <2>7, <2>8, <3>5 DEF later
  <2> QED
    BY <2>9, <2>10
<1> QED
  BY <1>4, <1>5 DEF GuardInv

\* A request of one address: what happens to the ages and the count of each.
LEMMA AllowFacts ==
    ASSUME GuardTypeOK, NEW who \in IP, NEW ok \in BOOLEAN, Allow(who, ok), RateLimit # 0
    PROVE  /\ windowAge' = IF WindowOver THEN 0 ELSE windowAge
           /\ counts' \in [IP -> Nat] /\ accepted' \in [IP -> Seq(0..(Minute - 1))]
           /\ \A ip \in IP :
                 LET old == IF WindowOver THEN 0 ELSE counts[ip] IN
                 IF ip # who THEN counts'[ip] = old /\ accepted'[ip] = accepted[ip]
                 ELSE IF old < RateLimit
                 THEN counts'[ip] = old + 1 /\ accepted'[ip] = Append(accepted[ip], 0)
                 ELSE counts'[ip] > RateLimit /\ accepted'[ip] = accepted[ip]
<1> DEFINE then == IF WindowOver THEN NewCounts ELSE counts
<1>1. RateLimit \in Nat /\ Minute \in Nat \ {0} /\ counts \in [IP -> Nat]
      /\ accepted \in [IP -> Seq(0..(Minute - 1))]
  BY GuardAssumption DEF GuardTypeOK
<1>2. /\ windowAge' = IF WindowOver THEN 0 ELSE windowAge
      /\ counts' = Counted(who) /\ ok = (Counted(who)[who] <= RateLimit)
      /\ accepted' = IF ok THEN [accepted EXCEPT ![who] = Append(@, 0)] ELSE accepted
  BY DEF Allow, OpenWindow
<1>3. then \in [IP -> Nat] /\ \A ip \in IP : then[ip] = IF WindowOver THEN 0 ELSE counts[ip]
  BY <1>1 DEF NewCounts
<1>4. Counted(who) = [then EXCEPT ![who] = IF @ > RateLimit THEN @ ELSE @ + 1]
  BY DEF Counted
<1> HIDE DEF then
<1>5. /\ counts' \in [IP -> Nat]
      /\ counts'[who] = IF then[who] > RateLimit THEN then[who] ELSE then[who] + 1
      /\ \A ip \in IP : ip # who => counts'[ip] = then[ip]
  BY <1>1, <1>2, <1>3, <1>4
<1>6. 0 \in 0..(Minute - 1)
  BY <1>1
<1>7. Append(accepted[who], 0) \in Seq(0..(Minute - 1))
  BY <1>1, <1>6, AppendProperties
<1>8. accepted' \in [IP -> Seq(0..(Minute - 1))]
  BY <1>1, <1>2, <1>7
<1>9. \A ip \in IP : ip # who => accepted'[ip] = accepted[ip]
  BY <1>1, <1>2
<1>10. then[who] \in Nat
  BY <1>3
<1>11. CASE then[who] < RateLimit
  <2>1. counts'[who] = then[who] + 1 /\ counts'[who] <= RateLimit
    BY <1>1, <1>5, <1>10, <1>11
  <2>3. ok
    BY <1>2, <2>1
  <2>2. accepted'[who] = Append(accepted[who], 0)
    BY <1>1, <1>2, <2>3
  <2> QED
    BY <1>2, <1>3, <1>5, <1>8, <1>9, <1>11, <2>1, <2>2
<1>12. CASE ~(then[who] < RateLimit)
  <2>1. counts'[who] > RateLimit
    BY <1>1, <1>5, <1>10, <1>12
  <2>3. ~(counts'[who] <= RateLimit)
    BY <1>1, <1>5, <1>10, <2>1
  <2>4. ~ok
    BY <1>2, <2>3
  <2>2. accepted'[who] = accepted[who]
    BY <1>2, <2>4
  <2> QED
    BY <1>2, <1>3, <1>5, <1>8, <1>9, <1>12, <2>1, <2>2
<1> QED
  BY <1>11, <1>12

LEMMA GuardAllows ==
    ASSUME GuardTypeOK, GuardInv, NEW who \in IP, NEW ok \in BOOLEAN, Allow(who, ok)
    PROVE  GuardTypeOK' /\ GuardInv'
<1>1. CASE RateLimit = 0
  <2>1. UNCHANGED guardVars
    BY <1>1 DEF Allow
  <2> QED
    BY <2>1 DEF guardVars, GuardTypeOK, GuardInv, Split, WindowOver
<1>2. CASE RateLimit # 0
  <2>1. windowAge \in 0..Minute /\ Minute \in Nat \ {0} /\ RateLimit \in Nat \ {0}
    BY <1>2, GuardAssumption DEF GuardTypeOK
  <2>2. windowAge' = (IF WindowOver THEN 0 ELSE windowAge) /\ windowAge' \in 0..Minute /\ ~WindowOver'
    BY <1>2, <2>1, AllowFacts DEF WindowOver
  <2>3. GuardTypeOK'
    BY <1>2, <2>2, AllowFacts DEF GuardTypeOK
  <2>4. ASSUME NEW ip \in IP
        PROVE  /\ \A i, j \in 1..Len(accepted'[ip]) : i <= j => accepted'[ip][i] >= accepted'[ip][j]
               /\ \E k \in 0..Len(accepted'[ip]) : Split(ip, k)'
    <3> DEFINE ages == accepted[ip]
               later == accepted'[ip]
               count == IF WindowOver THEN 0 ELSE counts[ip]
    <3>1. /\ ages \in Seq(0..(Minute - 1)) /\ Len(ages) \in Nat
          /\ \A i \in 1..Len(ages) : ages[i] \in Nat /\ ages[i] < Minute
          /\ count \in Nat
      BY AgesType
    <3>2. \A i, j \in 1..Len(ages) : i <= j => ages[i] >= ages[j]
      BY DEF GuardInv
    <3>3. PICK k0 \in 0..Len(ages) : Split(ip, k0)
      BY DEF GuardInv
    \* What was accepted before the window that the request finds or opens.
    <3>4. \E k \in 0..Len(ages) :
             /\ k <= RateLimit
             /\ \A i \in 1..k : ages[i] > windowAge'
             /\ \A i \in (k + 1)..Len(ages) : ages[i] <= windowAge'
             /\ Len(ages) - k = IF count < RateLimit THEN count ELSE RateLimit
      <4>1. CASE WindowOver
        <5>1. windowAge = Minute /\ windowAge' = 0 /\ count = 0
          BY <2>1, <2>2, <4>1 DEF WindowOver
        <5>2. \A i \in 1..Len(ages) : ages[i] > 0
          BY <4>1 DEF GuardInv
        <5>3. k0 = 0
          <6> SUFFICES ASSUME k0 > 0 PROVE FALSE
            BY <3>1
          <6>1. 1 \in 1..k0 /\ 1 \in 1..Len(ages)
            BY <3>1
          <6>2. ages[1] > windowAge
            BY <3>3, <6>1 DEF Split
          <6> QED
            BY <2>1, <3>1, <5>1, <6>1, <6>2
        <5>4. Len(ages) <= RateLimit
          BY <3>1, <3>3, <5>3 DEF Split
        <5> HIDE DEF ages
        <5> WITNESS Len(ages) \in 0..Len(ages)
        <5> QED
          BY <2>1, <3>1, <5>1, <5>2, <5>4
      <4>2. CASE ~WindowOver
        <5>1. /\ k0 <= RateLimit
              /\ \A i \in 1..k0 : ages[i] > windowAge
              /\ \A i \in (k0 + 1)..Len(ages) : ages[i] <= windowAge
              /\ Len(ages) - k0 = IF count < RateLimit THEN count ELSE RateLimit
          BY <3>3, <4>2 DEF Split
        <5> HIDE DEF ages, count
        <5> WITNESS k0 \in 0..Len(ages)
        <5> QED
          BY <2>2, <4>2, <5>1
      <4> QED
        BY <4>1, <4>2
    <3>5. PICK k \in 0..Len(ages) :
             /\ k <= RateLimit
             /\ \A i \in 1..k : ages[i] > windowAge'
             /\ \A i \in (k + 1)..Len(ages) : ages[i] <= windowAge'
             /\ Len(ages) - k = IF count < RateLimit THEN count ELSE RateLimit
      BY <3>4
    <3>6. \/ counts'[ip] = count /\ later = ages
          \/ count < RateLimit /\ counts'[ip] = count + 1 /\ later = Append(ages, 0)
          \/ count >= RateLimit /\ counts'[ip] > RateLimit /\ later = ages
      <4>1. RateLimit \in Nat
        BY <2>1
      <4> QED
        BY <1>2, <3>1, <4>1, AllowFacts
    <3>7. counts'[ip] \in Nat
      BY <1>2, AllowFacts
    <3> HIDE DEF ages, count, later
    <3>8. CASE later = ages
      <4>1. Len(ages) - k = IF counts'[ip] < RateLimit THEN counts'[ip] ELSE RateLimit
        <5>1. CASE counts'[ip] = count
          BY <3>5, <5>1
        <5>2. CASE count >= RateLimit /\ counts'[ip] > RateLimit
          <6>1. Len(ages) - k = RateLimit
            BY <2>1, <3>1, <3>5, <5>2
          <6>2. ~(counts'[ip] < RateLimit)
            BY <2>1, <3>7, <5>2
          <6> QED
            BY <6>1, <6>2
        <5>3. CASE later = Append(ages, 0)
          <6>1. Len(Append(ages, 0)) = Len(ages) + 1
            BY <3>1, <2>1, AppendProperties
          <6> QED
            BY <3>1, <3>8, <5>3, <6>1
        <5> QED
          BY <3>6, <5>1, <5>2, <5>3
      <4>2. Len(ages) - k <= RateLimit
        BY <2>1, <3>1, <3>7, <4>1
      <4>3. Split(ip, k)'
        BY <3>5, <3>8, <4>1, <4>2 DEF Split, later
      <4> QED
        BY <3>2, <3>5, <3>8, <4>3 DEF later
    <3>9. CASE count < RateLimit /\ counts'[ip] = count + 1 /\ later = Append(ages, 0)
      <4>1. 0 \in 0..(Minute - 1)
        BY <2>1
      <4>2. /\ Len(later) = Len(ages) + 1 /\ later[Len(ages) + 1] = 0
            /\ \A i \in 1..Len(ages) : later[i] = ages[i]
        BY <3>1, <3>9, <4>1, AppendProperties
      <4>3. \A i \in 1..Len(later) : IF i <= Len(ages) THEN i \in 1..Len(ages) /\ later[i] = ages[i]
                                                       ELSE i = Len(ages) + 1 /\ later[i] = 0
        BY <3>1, <4>2
      <4>4. \A i, j \in 1..Len(later) : i <= j => later[i] >= later[j]
        <5> SUFFICES ASSUME NEW i \in 1..Len(later), NEW j \in 1..Len(later), i <= j
                     PROVE  later[i] >= later[j]
          OBVIOUS
        <5> QED
          BY <3>1, <3>2, <4>2, <4>3
      <4>5. Len(later) - k = IF counts'[ip] < RateLimit THEN counts'[ip] ELSE RateLimit
        <5>1. Len(ages) - k = count
          BY <3>5, <3>9
        <5>2. Len(later) - k = count + 1
          BY <3>1, <4>2, <5>1
        <5>3. IF counts'[ip] < RateLimit THEN counts'[ip] = count + 1 ELSE RateLimit = count + 1
          BY <2>1, <3>1, <3>9
        <5> QED
          BY <5>2, <5>3
      <4>6. Len(later) - k <= RateLimit /\ k \in 0..Len(later)
        BY <2>1, <3>1, <3>7, <4>2, <4>5
      <4>7. \A i \in 1..k : later[i] > windowAge'
        BY <3>1, <3>5, <4>2
      <4>8. \A i \in (k + 1)..Len(later) : later[i] <= windowAge'
        <5> SUFFICES ASSUME NEW i \in (k + 1)..Len(later) PROVE later[i] <= windowAge'
          OBVIOUS
        <5>1. i \in 1..Len(later)
          BY <3>1, <4>2
        <5> QED
          BY <2>2, <3>1, <3>5, <4>2, <4>3, <5>1
      <4>9. Split(ip, k)'
        BY <3>5, <4>5, <4>6, <4>7, <4>8 DEF Split, later
      <4> QED
        BY <4>4, <4>6, <4>9 DEF later
    <3> QED
      BY <3>6, <3>8, <3>9
  <2> QED
    BY <2>2, <2>3, <2>4 DEF GuardInv
<1> QED
  BY <1>1, <1>2

----------------------------------------------------------------------------
(* The engine: positions of a sequence. *)

LEMMA NthOf ==
    ASSUME NEW n \in Nat, NEW S, S \subseteq 1..n, NEW k \in 1..Cardinality(S)
    PROVE  Nth(S, k) \in S /\ Rank(S, Nth(S, k)) = k
<1>1. \E i \in S : Rank(S, i) = k
  BY EveryRank
<1>2. Nth(S, k) = CHOOSE i \in S : Rank(S, i) = k
  BY DEF Nth, Rank
<1> QED
  BY <1>1, <1>2

LEMMA RankOf ==
    ASSUME NEW n \in Nat, NEW S, S \subseteq 1..n, NEW i \in S
    PROVE  Rank(S, i) \in 1..Cardinality(S) /\ Nth(S, Rank(S, i)) = i
<1>1. i \in 0..n /\ 0 \in 0..n /\ 0 < i /\ i \in Nat
  OBVIOUS
<1>2. /\ Rank(S, i) \in 0..Cardinality(S) /\ Rank(S, 0) = 0
      /\ Cardinality(S) \in Nat
  <2>1. Rank(S, 0) = 0 /\ Cardinality(S) \in 0..n /\ Rank(S, i) \in 0..Cardinality(S)
    BY <1>1, Ranks
  <2> QED
    BY <2>1
<1>3. Rank(S, 0) < Rank(S, i)
  BY <1>1, RankGrows
<1>4. Rank(S, i) \in 1..Cardinality(S)
  BY <1>2, <1>3
<1>5. PICK m \in S : m = Nth(S, Rank(S, i)) /\ Rank(S, m) = Rank(S, i)
  BY <1>4, NthOf
<1>6. m \in 0..n /\ m \in Nat
  OBVIOUS
<1>7. ~(m < i)
  <2> SUFFICES ASSUME m < i PROVE FALSE
    OBVIOUS
  <2>1. Rank(S, m) < Rank(S, i)
    BY <1>6, RankGrows
  <2> QED
    BY <1>2, <1>5, <2>1
<1>8. ~(i < m)
  <2> SUFFICES ASSUME i < m PROVE FALSE
    OBVIOUS
  <2>1. Rank(S, i) < Rank(S, m)
    BY <1>1, RankGrows
  <2> QED
    BY <1>2, <1>5, <2>1
<1> QED
  BY <1>1, <1>4, <1>5, <1>6, <1>7, <1>8

LEMMA ThoseFacts ==
    ASSUME NEW n \in Nat, NEW S, S \subseteq 1..n, NEW V, NEW seq, \A i \in S : seq[i] \in V
    PROVE  /\ Those(seq, S) \in Seq(V) /\ Len(Those(seq, S)) = Cardinality(S)
           /\ Cardinality(S) \in 0..n
<1>1. Cardinality(S) \in 0..n /\ Cardinality(S) \in Nat
  <2>1. Cardinality(S) \in 0..n
    BY Ranks
  <2> QED
    BY <2>1
<1>2. \A k \in 1..Cardinality(S) : seq[Nth(S, k)] \in V
  BY NthOf
<1>3. Those(seq, S) \in [1..Cardinality(S) -> V]
  BY <1>2 DEF Those
<1>4. Those(seq, S) \in Seq(V)
  BY <1>1, <1>3, SeqDef
<1>5. Len(Those(seq, S)) = Cardinality(S)
  BY <1>1, <1>3, <1>4, LenProperties
<1> QED
  BY <1>1, <1>4, <1>5

LEMMA KeptFacts ==
    ASSUME NEW names, NEW n \in Nat, DOMAIN names = 1..n
    PROVE  LET S == Kept(names)
               kept == Those(names, S) IN
           /\ kept \in Seq(Providers) /\ Len(kept) = Cardinality(S) /\ Len(kept) \in Nat
           /\ \A k \in 1..Cardinality(S) : kept[k] = names[Nth(S, k)]
<1> DEFINE S == Kept(names)
<1>1. S \subseteq 1..n /\ \A i \in S : names[i] \in Providers
  BY DEF Kept
<1> HIDE DEF S
<1>2. /\ Those(names, S) \in Seq(Providers) /\ Len(Those(names, S)) = Cardinality(S)
      /\ Cardinality(S) \in 0..n
      /\ \A k \in 1..Cardinality(S) : Those(names, S)[k] = names[Nth(S, k)]
  <2>1. /\ Those(names, S) \in Seq(Providers) /\ Len(Those(names, S)) = Cardinality(S)
        /\ Cardinality(S) \in 0..n
    BY <1>1, ThoseFacts
  <2>2. \A k \in 1..Cardinality(S) : Those(names, S)[k] = names[Nth(S, k)]
    BY DEF Those
  <2> QED
    BY <2>1, <2>2
<1>3. Cardinality(S) \in Nat
  BY <1>2
<1> QED
  BY <1>2, <1>3 DEF S

\* Whatever the variable names: the chain holds known providers, and ddg.
LEMMA InOrderFacts ==
    ASSUME NEW V, NEW names \in Seq(V)
    PROVE  /\ InOrder(names) \in Seq(Providers)
           /\ \E i \in 1..Len(InOrder(names)) : InOrder(names)[i] = "ddg"
<1> DEFINE S == Kept(names)
           kept == Those(names, S)
<1>1. Len(names) \in Nat /\ DOMAIN names = 1..Len(names)
  BY LenProperties
<1>2. S \subseteq 1..Len(names) /\ \A i \in S : names[i] \in Providers
  BY <1>1 DEF Kept
<1>3. /\ kept \in Seq(Providers) /\ Len(kept) = Cardinality(S) /\ Len(kept) \in Nat
      /\ \A k \in 1..Cardinality(S) : kept[k] = names[Nth(S, k)]
  <2>1. PICK n \in Nat : n = Len(names)
    BY <1>1
  <2>2. DOMAIN names = 1..n
    BY <1>1, <2>1
  <2> QED
    BY <2>2, KeptFacts
<1>4. CASE \E i \in DOMAIN names : names[i] = "ddg"
  <2> DEFINE T == {i \in DOMAIN names : names[i] = "ddg"}
  <2>1. T \subseteq Nat /\ T # {}
    BY <1>1, <1>4
  <2>2. PICK i \in T : \A y \in T : i <= y
    BY <2>1, LeastNat
  <2>3. i \in S
    <3>1. i \in 1..Len(names) /\ names[i] = "ddg" /\ "ddg" \in Providers
      BY <1>1 DEF Providers
    <3>2. \A j \in 1..(i - 1) : names[j] # names[i]
      <4> SUFFICES ASSUME NEW j \in 1..(i - 1), names[j] = names[i] PROVE FALSE
        OBVIOUS
      <4>1. j \in 1..Len(names) /\ ~(i <= j)
        BY <1>1, <3>1
      <4>2. j \in T
        BY <1>1, <3>1, <4>1
      <4> QED
        BY <2>2, <4>1, <4>2
    <3> QED
      BY <1>1, <3>1, <3>2 DEF Kept
  <2>4. Rank(S, i) \in 1..Cardinality(S) /\ Nth(S, Rank(S, i)) = i
    <3> HIDE DEF S
    <3> QED
      BY <1>1, <1>2, <2>3, RankOf
  <2>5. kept[Rank(S, i)] = "ddg"
    BY <1>3, <2>2, <2>4
  <2>6. InOrder(names) = kept
    BY <1>4 DEF InOrder
  <2> QED
    BY <1>3, <2>4, <2>5, <2>6
<1>5. CASE ~(\E i \in DOMAIN names : names[i] = "ddg")
  <2> DEFINE first == <<"ddg">>
  <2>1. first \in Seq(Providers) /\ Len(first) = 1 /\ first[1] = "ddg"
    BY DEF Providers
  <2> HIDE DEF first, kept, S
  <2>6. /\ first \o kept \in Seq(Providers) /\ Len(first \o kept) = Len(first) + Len(kept)
        /\ \A i \in 1..(Len(first) + Len(kept)) :
              (first \o kept)[i] = IF i <= Len(first) THEN first[i] ELSE kept[i - Len(first)]
    BY <1>3, <2>1, ConcatProperties
  <2>2. first \o kept \in Seq(Providers) /\ Len(first \o kept) = 1 + Len(kept)
    BY <2>1, <2>6
  <2>3. (first \o kept)[1] = first[1]
    <3>1. 1 \in 1..(Len(first) + Len(kept)) /\ 1 <= Len(first)
      BY <1>3, <2>1
    <3> QED
      BY <2>6, <3>1
  <2>4. InOrder(names) = first \o kept
    BY <1>5 DEF InOrder, first, kept, S
  <2>5. 1 \in 1..Len(first \o kept)
    BY <1>3, <2>2
  <2> QED
    BY <2>1, <2>2, <2>3, <2>4, <2>5
<1> QED
  BY <1>4, <1>5

----------------------------------------------------------------------------
(* The steps of a caller, by what they do to it. *)

Starts(c) ==
    /\ pc[c] = "idle" /\ calls[c] > 0 /\ UNCHANGED daemonVars
    /\ \E way \in {"http", "command"} :
          /\ via' = [via EXCEPT ![c] = way]
          /\ way = "http" => daemon = "serving"
          /\ way = "command" => calls[c] = MaxCalls
TurnedAway(c) == Starts(c) /\ NoSearch(c) /\ \E a \in Answers \ {Cut} : Turned(c, a)
EntersStealth(c) == Starts(c) /\ NoSearch(c) /\ \E s \in {"fetch", "browse", "crawl"} : Enter(c, s)
EntersSearch(c) == Starts(c) /\ \E s \in {"search", "doctor"} : BeginsSearch(c, s)

SaysFound == {Status(200), Exit(0)}
Finishes(c) ==
    /\ pc[c] # "idle" /\ UNCHANGED daemonVars
    /\ \E a \in Answers \ {Cut} :
          /\ Done(c, a)
          /\ pc[c] = "search" =>
                /\ Returns(c)
                /\ Found(c) => a \in SaysFound
                /\ ~Found(c) => a \in {Status(SearchStatus(ReturnedKind(c))), Exit(SearchExit(ReturnedKind(c)))}
          /\ pc[c] = "doctor" => Returns(c) /\ ~Found(c) /\ a = Exit(3)
          /\ pc[c] = "probe" => a = Exit(0)
Probes(c) ==
    /\ pc[c] = "doctor" /\ Found(c)
    /\ pc' = [pc EXCEPT ![c] = "probe"]
    /\ UNCHANGED <<via, answer, calls, searched, engineVars, daemonVars>>

LEMMA BeginShapes ==
    ASSUME NEW c \in Caller, Begin(c)
    PROVE  /\ TurnedAway(c) \/ EntersStealth(c) \/ EntersSearch(c)
           /\ UNCHANGED guardVars \/ \E ip \in IP, ok \in BOOLEAN : Allow(ip, ok)
<1> USE DEF TurnedAway, EntersStealth, EntersSearch, Starts, Requests, Runs, Comes, At
<1>1. /\ \A n \in {200, 400, 401, 405, 429, 502, 503} : Status(n) \in Answers \ {Cut}
      /\ \A n \in {2, 4} : Exit(n) \in Answers \ {Cut}
  BY DEF Answers, Status, Exit, Cut
<1> HIDE DEF Turned, NoSearch, Enter, BeginsSearch, Answers
<1>2. CASE Readyz(c)
  BY <1>1, <1>2 DEF Readyz
<1>3. CASE HandleSearch(c)
  BY <1>1, <1>3 DEF HandleSearch
<1>4. ASSUME NEW modes \in SUBSET {"fetch", "browse", "crawl"}, HandleStealth(c, modes)
      PROVE  /\ TurnedAway(c) \/ EntersStealth(c)
             /\ UNCHANGED guardVars \/ \E ip \in IP, ok \in BOOLEAN : Allow(ip, ok)
  <2>1. Starts(c)
    BY <1>4 DEF HandleStealth
  <2> HIDE DEF Starts
  <2>2. CASE \E a \in Answers : Unguarded(c, a)
    <3>1. PICK a \in {Status(405), Status(401)} : Turned(c, a) /\ UNCHANGED guardVars /\ NoSearch(c)
      BY <2>2 DEF Unguarded
    <3>2. a \in Answers \ {Cut}
      BY <1>1
    <3> QED
      BY <2>1, <3>1, <3>2
  <2>3. CASE Guarded(c, \E s \in modes : Enter(c, s))
    <3>1. PICK ip \in IP, ok \in BOOLEAN :
             /\ Allow(ip, ok) /\ NoSearch(c)
             /\ \/ \E a \in {Status(400), Status(502), Status(429)} : Turned(c, a)
                \/ \E s \in modes : Enter(c, s)
      BY <2>3 DEF Guarded
    <3>2. {Status(400), Status(502), Status(429)} \subseteq Answers \ {Cut}
      BY <1>1
    <3> QED
      BY <2>1, <3>1, <3>2
  <2> QED
    BY <1>4, <2>2, <2>3 DEF HandleStealth
<1>5. CASE HandleFetch(c)
  <2>1. {"fetch", "browse"} \in SUBSET {"fetch", "browse", "crawl"}
    OBVIOUS
  <2> QED
    BY <1>4, <1>5, <2>1 DEF HandleFetch
<1>6. CASE HandleCrawl(c)
  <2>1. {"crawl"} \in SUBSET {"fetch", "browse", "crawl"}
    OBVIOUS
  <2> QED
    BY <1>4, <1>6, <2>1 DEF HandleCrawl
<1>7. CASE CmdSearch(c)
  BY <1>1, <1>7 DEF CmdSearch
<1>8. CASE CmdDoctor(c)
  BY <1>1, <1>8 DEF CmdDoctor
<1>9. CASE CmdFetch(c)
  BY <1>1, <1>9 DEF CmdFetch
<1>10. CASE CmdCrawl(c)
  BY <1>1, <1>10 DEF CmdCrawl
<1> QED
  BY <1>2, <1>3, <1>5, <1>6, <1>7, <1>8, <1>9, <1>10 DEF Begin

LEMMA WorkShapes ==
    ASSUME NEW c \in Caller, Work(c)
    PROVE  /\ Search(c) \/ Finishes(c) \/ Probes(c)
           /\ UNCHANGED guardVars
<1> USE DEF Finishes, Probes, At
<1>1. /\ \A n \in {200, 404, 429, 502} : Status(n) \in Answers \ {Cut}
      /\ \A n \in {0, 2, 3, 4} : Exit(n) \in Answers \ {Cut}
  BY DEF Answers, Status, Exit, Cut
<1> HIDE DEF Done, Found, Returns, Answers, Status, Exit, ReturnedKind
<1>2. CASE Search(c)
  BY <1>2 DEF Search
<1>3. CASE AnswerSearch(c)
  <2>1. SearchStatus(ReturnedKind(c)) \in {404, 429, 502} /\ SearchExit(ReturnedKind(c)) \in {2, 4}
    BY DEF SearchStatus, SearchExit
  <2>2. /\ Status(IF Found(c) THEN 200 ELSE SearchStatus(ReturnedKind(c))) \in Answers \ {Cut}
        /\ Exit(IF Found(c) THEN 0 ELSE SearchExit(ReturnedKind(c))) \in Answers \ {Cut}
    BY <1>1, <2>1
  <2> HIDE DEF SearchStatus, SearchExit
  <2> QED
    BY <1>3, <2>2 DEF AnswerSearch, SaysFound
<1>4. CASE AnswerDoctor(c)
  BY <1>1, <1>4 DEF AnswerDoctor
<1>5. CASE DoctorProbe(c)
  BY <1>1, <1>5 DEF DoctorProbe
<1>6. CASE AnswerFetch(c)
  <2>1. \A says \in {"blocked", "error", "page"} :
           FetchStatus(says) \in {200, 429, 502} /\ FetchExit(says) \in {0, 3}
    BY DEF FetchStatus, FetchExit
  <2> QED
    BY <1>1, <1>6, <2>1 DEF AnswerFetch
<1>7. CASE AnswerCrawl(c)
  BY <1>1, <1>7 DEF AnswerCrawl
<1> QED
  BY <1>2, <1>3, <1>4, <1>5, <1>6, <1>7 DEF Work

LEMMA StepShapes ==
    ASSUME Next
    PROVE  \/ \E c \in Caller :
                 \/ TurnedAway(c) \/ EntersStealth(c) \/ EntersSearch(c)
                 \/ Search(c) \/ Finishes(c) \/ Probes(c) \/ EndContext(c)
           \/ Signal \/ ShutdownDone \/ ShutdownTimeout \/ PassTime
  BY BeginShapes, WorkShapes DEF Next

LEMMA GuardSteps ==
    ASSUME GuardTypeOK, GuardInv, [Next]_vars
    PROVE  GuardTypeOK' /\ GuardInv'
<1>1. ASSUME UNCHANGED guardVars PROVE GuardTypeOK' /\ GuardInv'
  BY <1>1 DEF guardVars, GuardTypeOK, GuardInv, Split, WindowOver
<1>2. ASSUME NEW c \in Caller, Begin(c) PROVE GuardTypeOK' /\ GuardInv'
  BY <1>1, <1>2, BeginShapes, GuardAllows
<1>3. ASSUME NEW c \in Caller, Work(c) PROVE GuardTypeOK' /\ GuardInv'
  BY <1>1, <1>3, WorkShapes
<1>4. ASSUME NEW c \in Caller, EndContext(c) PROVE GuardTypeOK' /\ GuardInv'
  BY <1>1, <1>4 DEF EndContext
<1>5. ASSUME Signal \/ ShutdownDone \/ ShutdownTimeout PROVE GuardTypeOK' /\ GuardInv'
  BY <1>1, <1>5 DEF Signal, ShutdownDone, ShutdownTimeout, EndProcess
<1>6. ASSUME PassTime PROVE GuardTypeOK' /\ GuardInv'
  BY <1>6, GuardTicks DEF PassTime
<1>7. ASSUME UNCHANGED vars PROVE GuardTypeOK' /\ GuardInv'
  BY <1>1, <1>7 DEF vars
<1> QED
  BY <1>2, <1>3, <1>4, <1>5, <1>6, <1>7 DEF Next

LEMMA GuardStarts ==
    ASSUME GuardInit
    PROVE  GuardTypeOK /\ GuardInv
<1>1. RateLimit \in Nat /\ Minute \in Nat \ {0}
  BY GuardAssumption
<1>2. <<>> \in Seq(0..(Minute - 1)) /\ Len(<<>>) = 0
  OBVIOUS
<1>3. GuardTypeOK
  BY <1>1, <1>2 DEF GuardInit, GuardTypeOK
<1>4. ~WindowOver
  BY <1>1 DEF GuardInit, WindowOver
<1>5. \A ip \in IP : accepted[ip] = <<>> /\ counts[ip] = 0 /\ Split(ip, 0)
  BY <1>1, <1>2 DEF GuardInit, Split
<1> QED
  BY <1>2, <1>3, <1>4, <1>5 DEF GuardInv

LEMMA GuardAlways == Spec => [](GuardTypeOK /\ GuardInv)
<1>1. Init => GuardTypeOK /\ GuardInv
  BY GuardStarts DEF Init
<1>2. GuardTypeOK /\ GuardInv /\ [Next]_vars => (GuardTypeOK /\ GuardInv)'
  BY GuardSteps
<1> QED
  BY <1>1, <1>2, PTL DEF Spec

\* No address is served more than twice the limit within a minute, wherever the
\* windows of stealthAccessGuard.allow fall: what a minute holds of the window
\* before, and what this window has, is each at most the limit.
THEOREM TwiceTheLimitAtMost == Spec => []TwiceTheLimit
<1>1. GuardTypeOK /\ GuardInv => TwiceTheLimit
  <2> SUFFICES ASSUME GuardTypeOK, GuardInv, NEW ip \in IP
               PROVE  Len(accepted[ip]) <= 2 * RateLimit
    BY DEF TwiceTheLimit, AcceptedInAMinute
  <2>1. PICK k \in 0..Len(accepted[ip]) : k <= RateLimit /\ Len(accepted[ip]) - k <= RateLimit
    BY DEF GuardInv, Split
  <2>2. Len(accepted[ip]) \in Nat /\ RateLimit \in Nat
    BY AgesType
  <2> QED
    BY <2>1, <2>2
<1> QED
  BY <1>1, GuardAlways, PTL

\* An address at the limit of an open window had that many requests accepted in
\* it: the count, which goes on at rejected ones, keeps nobody out by itself.
THEOREM OnlyTheServedAreRefused == Spec => []NobodyLockedOut
<1>1. GuardTypeOK /\ GuardInv => NobodyLockedOut
  <2> SUFFICES ASSUME GuardTypeOK, GuardInv, ~WindowOver, NEW ip \in IP, counts[ip] >= RateLimit
               PROVE  Len(accepted[ip]) >= RateLimit
    BY DEF NobodyLockedOut, AcceptedInAMinute
  <2>1. PICK k \in 0..Len(accepted[ip]) :
           Len(accepted[ip]) - k = IF counts[ip] < RateLimit THEN counts[ip] ELSE RateLimit
    BY DEF GuardInv, Split
  <2>2. Len(accepted[ip]) \in Nat /\ RateLimit \in Nat /\ counts[ip] \in Nat
    BY AgesType
  <2>3. Len(accepted[ip]) - k = RateLimit
    BY <2>1, <2>2
  <2> QED
    BY <2>2, <2>3
<1> QED
  BY <1>1, GuardAlways, PTL

----------------------------------------------------------------------------
(* Types, and the end of the daemon. *)

CallerTypeOK ==
    /\ pc \in [Caller -> PC]
    /\ via \in [Caller -> {"http", "command"}]
    /\ answer \in [Caller -> Answers]
    /\ calls \in [Caller -> 0..MaxCalls]
    /\ searched \in [Caller -> BOOLEAN]
    /\ daemon \in {"serving", "stopping", "stopped"}
    /\ result \in {"none", "nil", "error"}

\* The place of the next enabled provider.
LEMMA AheadFacts ==
    ASSUME EngineTypeOK, NEW c \in Searcher, Ahead(c) # {}
    PROVE  /\ Min(Ahead(c)) \in Ahead(c) /\ \A j \in Ahead(c) : Min(Ahead(c)) <= j
           /\ Min(Ahead(c)) \in 1..Len(chain) /\ Len(chain) \in Nat /\ at[c] \in 0..Len(chain)
           /\ DOMAIN chain = 1..Len(chain)
           /\ chain[Min(Ahead(c))] \in Providers /\ Enabled(chain[Min(Ahead(c))])
<1>1. Len(chain) \in Nat /\ at[c] \in 0..Len(chain) /\ DOMAIN chain = 1..Len(chain)
      /\ \A i \in 1..Len(chain) : chain[i] \in Providers
  BY LenProperties, ElementOfSeq DEF EngineTypeOK
<1>2. Ahead(c) \subseteq Nat /\ Ahead(c) \subseteq 1..Len(chain)
  BY <1>1 DEF Ahead
<1>3. \E x \in Ahead(c) : \A y \in Ahead(c) : x <= y
  BY <1>2, LeastNat
<1>4. Min(Ahead(c)) \in Ahead(c) /\ \A j \in Ahead(c) : Min(Ahead(c)) <= j
  BY <1>3 DEF Min
<1> QED
  BY <1>1, <1>2, <1>4 DEF Ahead

LEMMA SaysKnown ==
    ASSUME NEW p \in Providers, NEW over \in BOOLEAN
    PROVE  MaySay(p, over) \subseteq ErrorKind \cup {"results"}
<1>1. ASSUME NEW x \in Exchange PROVE Meaning(x) \in ErrorKind \cup {"results"}
  BY DEF Exchange, Meaning, ErrorKind
<1>2. "failed" \in Exchange
  BY DEF Exchange
<1>3. ASSUME NEW out \in SearchOutcome PROVE DDGSearch(out) \in ErrorKind \cup {"results"}
  BY DEF SearchOutcome, DDGSearch, ClassifyError, ErrorKind
<1>4. "other" \in SearchOutcome
  BY DEF SearchOutcome
<1> QED
  BY <1>1, <1>2, <1>3, <1>4 DEF MaySay, Providers, Keyed, BraveSearch, TavilySearch, SerpAPISearch

LEMMA AskFacts ==
    ASSUME EngineTypeOK, NEW c \in Searcher, NEW counted \in BOOLEAN, Ask(c, counted)
    PROVE  LET i == Min(Ahead(c)) IN
           \E says \in ErrorKind \cup {"results"} :
              /\ ~Found(c) /\ Ahead(c) # {}
              /\ at' = [at EXCEPT ![c] = i]
              /\ asked' = [asked EXCEPT ![c] = Append(@, [provider |-> chain[i], says |-> says])]
              /\ [provider |-> chain[i], says |-> says] \in Reply
              /\ IF counted THEN Hook(chain[i], says, i) ELSE UNCHANGED metricVars
              /\ UNCHANGED <<ended, configVars>>
<1> DEFINE i == Min(Ahead(c))
<1>1. Ahead(c) # {} /\ ~Found(c)
  BY DEF Ask
<1>2. chain[i] \in Providers
  BY <1>1, AheadFacts
<1>3. ended[c] \in BOOLEAN
  BY DEF EngineTypeOK
<1>4. PICK says \in MaySay(chain[i], ended[c]) :
         /\ at' = [at EXCEPT ![c] = i]
         /\ asked' = [asked EXCEPT ![c] = Append(@, [provider |-> chain[i], says |-> says])]
         /\ IF counted THEN Hook(chain[i], says, i) ELSE UNCHANGED metricVars
  BY DEF Ask
<1>5. says \in ErrorKind \cup {"results"}
  BY <1>2, <1>3, <1>4, SaysKnown
<1>6. [provider |-> chain[i], says |-> says] \in Reply
  BY <1>2, <1>5 DEF Reply
<1>7. UNCHANGED <<ended, configVars>>
  BY DEF Ask
<1> QED
  BY <1>1, <1>4, <1>5, <1>6, <1>7

LEMMA AskType ==
    ASSUME EngineTypeOK, NEW c \in Searcher, NEW counted \in BOOLEAN, Ask(c, counted)
    PROVE  EngineTypeOK'
<1> DEFINE i == Min(Ahead(c))
<1>1. PICK says \in ErrorKind \cup {"results"} :
         /\ Ahead(c) # {}
         /\ at' = [at EXCEPT ![c] = i]
         /\ asked' = [asked EXCEPT ![c] = Append(@, [provider |-> chain[i], says |-> says])]
         /\ [provider |-> chain[i], says |-> says] \in Reply
         /\ IF counted THEN Hook(chain[i], says, i) ELSE UNCHANGED metricVars
         /\ UNCHANGED <<ended, configVars>>
  BY AskFacts
<1>2. i \in 1..Len(chain) /\ Len(chain) \in Nat /\ chain[i] \in Providers
  BY <1>1, AheadFacts
<1>3. chain' = chain /\ keys' = keys /\ ended' = ended
  BY <1>1 DEF configVars
<1> HIDE DEF i
<1>4. at' \in [Searcher -> 0..Len(chain')]
  BY <1>1, <1>2, <1>3 DEF EngineTypeOK
<1>5. asked' \in [Searcher -> Seq(Reply)]
  <2>1. Append(asked[c], [provider |-> chain[i], says |-> says]) \in Seq(Reply)
    BY <1>1, AppendProperties DEF EngineTypeOK
  <2> QED
    BY <1>1, <2>1 DEF EngineTypeOK
<1>6. /\ requests' \in [Providers -> [{"success", "error"} -> Nat]]
      /\ fallbacks' \in [Providers -> Nat]
      /\ blocks' \in [Providers -> Nat]
  <2>1. CASE UNCHANGED metricVars
    BY <2>1 DEF metricVars, EngineTypeOK
  <2>2. CASE Hook(chain[i], says, i)
    <3>1. requests' \in [Providers -> [{"success", "error"} -> Nat]]
      <4> DEFINE kind == IF says = "results" THEN "success" ELSE "error"
                 p == chain[i]
      <4>1. requests' = [requests EXCEPT ![p] = [requests[p] EXCEPT ![kind] = requests[p][kind] + 1]]
        BY <2>2, <1>2 DEF Hook, EngineTypeOK
      <4>2. requests[p] \in [{"success", "error"} -> Nat] /\ kind \in {"success", "error"}
        BY <1>2 DEF EngineTypeOK
      <4> HIDE DEF kind, p
      <4>3. [requests[p] EXCEPT ![kind] = requests[p][kind] + 1] \in [{"success", "error"} -> Nat]
        BY <4>2
      <4> QED
        BY <4>1, <4>3 DEF EngineTypeOK
    <3>2. fallbacks[chain[i]] \in Nat /\ blocks[chain[i]] \in Nat
      BY <1>2 DEF EngineTypeOK
    <3>3. /\ fallbacks' \in {fallbacks, [fallbacks EXCEPT ![chain[i]] = fallbacks[chain[i]] + 1]}
          /\ blocks' \in {blocks, [blocks EXCEPT ![chain[i]] = blocks[chain[i]] + 1]}
      BY <2>2 DEF Hook
    <3>4. fallbacks' \in [Providers -> Nat] /\ blocks' \in [Providers -> Nat]
      <4>1. /\ [fallbacks EXCEPT ![chain[i]] = fallbacks[chain[i]] + 1] \in [Providers -> Nat]
            /\ [blocks EXCEPT ![chain[i]] = blocks[chain[i]] + 1] \in [Providers -> Nat]
        <5> DEFINE p == chain[i]
                   f == fallbacks[p] + 1
                   b == blocks[p] + 1
        <5>1. f \in Nat /\ b \in Nat
          BY <3>2
        <5> HIDE DEF p, f, b
        <5>2. [fallbacks EXCEPT ![p] = f] \in [Providers -> Nat]
          BY <5>1 DEF EngineTypeOK
        <5>3. [blocks EXCEPT ![p] = b] \in [Providers -> Nat]
          BY <5>1 DEF EngineTypeOK
        <5> QED
          BY <5>2, <5>3 DEF p, f, b
      <4>2. fallbacks \in [Providers -> Nat] /\ blocks \in [Providers -> Nat]
        BY DEF EngineTypeOK
      <4> QED
        BY <3>3, <4>1, <4>2
    <3> QED
      BY <3>1, <3>4
  <2> QED
    BY <1>1, <2>1, <2>2
<1> QED
  BY <1>3, <1>4, <1>5, <1>6 DEF EngineTypeOK

LEMMA EngineStarts ==
    EngineInit => EngineTypeOK /\ \E i \in 1..Len(chain) : chain[i] = "ddg"
<1> SUFFICES ASSUME EngineInit
             PROVE  EngineTypeOK /\ \E i \in 1..Len(chain) : chain[i] = "ddg"
  OBVIOUS
<1>1. PICK env \in Orders : chain = InOrder(ProviderOrder(env))
  BY DEF EngineInit
<1>2. /\ chain \in Seq(Providers)
      /\ \E i \in 1..Len(chain) : chain[i] = "ddg"
  <2>1. CASE env = <<>>
    <3>1. ProviderOrder(env) = <<"ddg", "brave", "tavily", "serpapi">>
      BY <2>1 DEF ProviderOrder
    <3>2. <<"ddg", "brave", "tavily", "serpapi">> \in Seq(Providers)
      BY DEF Providers, Keyed
    <3> QED
      BY <1>1, <3>1, <3>2, InOrderFacts
  <2>2. CASE env # <<>>
    <3>1. ProviderOrder(env) \in Seq(STRING)
      BY <2>2, EngineAssumption DEF ProviderOrder
    <3> QED
      BY <1>1, <3>1, InOrderFacts
  <2> QED
    BY <2>1, <2>2
<1>3. Len(chain) \in Nat /\ 0 \in 0..Len(chain)
  BY <1>2, LenProperties
<1>4. [success |-> 0, error |-> 0] \in [{"success", "error"} -> Nat]
  OBVIOUS
<1>5. <<>> \in Seq(Reply)
  OBVIOUS
<1> QED
  BY <1>2, <1>3, <1>4, <1>5 DEF EngineInit, EngineTypeOK

LEMMA CallerSteps ==
    ASSUME CallerTypeOK, EngineTypeOK, [Next]_vars
    PROVE  CallerTypeOK' /\ EngineTypeOK'
<1> USE DEF CallerTypeOK
<1>1. Searcher = Caller /\ MaxCalls \in Nat \ {0} /\ MaySearch \subseteq Caller
  BY ServiceAssumption
<1>2. None \in Answers /\ Cut \in Answers
  BY DEF Answers
<1>3. ASSUME UNCHANGED engineVars PROVE EngineTypeOK'
  BY <1>3 DEF EngineTypeOK, engineVars, configVars, searchVars, metricVars
<1> HIDE DEF Answers
<1>4. ASSUME NEW c \in Caller, Starts(c)
      PROVE  /\ calls[c] \in 1..MaxCalls /\ calls[c] - 1 \in 0..MaxCalls /\ 0 \in 0..MaxCalls
             /\ via' \in [Caller -> {"http", "command"}]
             /\ UNCHANGED <<daemon, result>>
  BY <1>1, <1>4 DEF Starts, daemonVars
<1>5. ASSUME NEW c \in Caller, Starts(c), NoSearch(c)
      PROVE  /\ calls' \in [Caller -> 0..MaxCalls]
             /\ searched' \in [Caller -> BOOLEAN]
             /\ EngineTypeOK'
  <2>1. calls[c] - 1 \in 0..MaxCalls /\ 0 \in 0..MaxCalls
    BY <1>4, <1>5
  <2> QED
    BY <1>3, <1>5, <2>1 DEF NoSearch
<1>6. ASSUME NEW c \in Caller, TurnedAway(c) PROVE CallerTypeOK' /\ EngineTypeOK'
  BY <1>4, <1>5, <1>6 DEF TurnedAway, Turned
<1>7. ASSUME NEW c \in Caller, EntersStealth(c) PROVE CallerTypeOK' /\ EngineTypeOK'
  <2>1. {"fetch", "browse", "crawl"} \subseteq PC
    BY DEF PC
  <2> QED
    BY <1>2, <1>4, <1>5, <1>7, <2>1 DEF EntersStealth, Enter
<1>8. ASSUME NEW c \in Caller, EntersSearch(c) PROVE CallerTypeOK' /\ EngineTypeOK'
  <2>1. {"search", "doctor"} \subseteq PC
    BY DEF PC
  <2>2. PICK s \in {"search", "doctor"} : BeginsSearch(c, s)
    BY <1>8 DEF EntersSearch
  <2>3. CallerTypeOK'
    BY <1>2, <1>4, <1>8, <2>1, <2>2 DEF EntersSearch, BeginsSearch, Enter
  <2>4. asked' \in [Searcher -> Seq(Reply)] /\ at' = at /\ ended' = ended
    BY <1>1, <2>2 DEF BeginsSearch, StartSearch, EngineTypeOK
  <2>5. UNCHANGED <<configVars, metricVars>>
    BY <2>2 DEF BeginsSearch
  <2> QED
    BY <2>3, <2>4, <2>5 DEF EngineTypeOK, configVars, metricVars
<1>9. ASSUME NEW c \in Caller, Search(c) PROVE CallerTypeOK' /\ EngineTypeOK'
  <2>1. EngineTypeOK'
    <3>1. PICK counted \in BOOLEAN : Ask(c, counted)
      BY <1>9 DEF Search
    <3> QED
      BY <1>1, <3>1, AskType
  <2> QED
    BY <1>9, <2>1 DEF Search, callerVars, daemonVars
<1>10. ASSUME NEW c \in Caller, Finishes(c) PROVE CallerTypeOK' /\ EngineTypeOK'
  <2>1. PICK a \in Answers : Done(c, a)
    BY <1>10 DEF Finishes
  <2>2. "idle" \in PC
    BY DEF PC
  <2>3. CallerTypeOK'
    BY <1>10, <2>1, <2>2 DEF Finishes, Done, daemonVars
  <2>4. UNCHANGED <<asked, configVars, metricVars>>
    BY <2>1 DEF Done
  <2>5. at' \in [Searcher -> 0..Len(chain)] /\ ended' \in [Searcher -> BOOLEAN]
    <3>1. 0 \in 0..Len(chain)
      BY LenProperties DEF EngineTypeOK
    <3> QED
      BY <2>1, <3>1 DEF Done, EngineTypeOK
  <2> QED
    BY <2>3, <2>4, <2>5 DEF EngineTypeOK, configVars, metricVars
<1>11. ASSUME NEW c \in Caller, Probes(c) PROVE CallerTypeOK' /\ EngineTypeOK'
  BY <1>3, <1>11 DEF Probes, PC, daemonVars
<1>12. ASSUME NEW c \in Caller, EndContext(c) PROVE CallerTypeOK' /\ EngineTypeOK'
  <2>1. EngineTypeOK'
    BY <1>1, <1>12 DEF EndContext, EndOfContext, EngineTypeOK, configVars, metricVars
  <2> QED
    BY <1>12, <2>1 DEF EndContext, callerVars, daemonVars
<1>13. ASSUME Signal PROVE CallerTypeOK' /\ EngineTypeOK'
  BY <1>3, <1>13 DEF Signal, callerVars
<1>14. ASSUME NEW err \in {"nil", "error"}, EndProcess(err) PROVE CallerTypeOK' /\ EngineTypeOK'
  <2>1. "idle" \in PC
    BY DEF PC
  <2>2. CallerTypeOK'
    BY <1>2, <1>14, <2>1 DEF EndProcess
  <2>3. UNCHANGED <<asked, configVars, metricVars>>
    BY <1>14 DEF EndProcess
  <2>4. at' \in [Searcher -> 0..Len(chain)] /\ ended' \in [Searcher -> BOOLEAN]
    <3>1. 0 \in 0..Len(chain)
      BY LenProperties DEF EngineTypeOK
    <3> QED
      BY <1>1, <1>14, <3>1 DEF EndProcess, EngineTypeOK
  <2> QED
    BY <2>2, <2>3, <2>4 DEF EngineTypeOK, configVars, metricVars
<1>15. ASSUME PassTime PROVE CallerTypeOK' /\ EngineTypeOK'
  BY <1>3, <1>15 DEF PassTime, callerVars, daemonVars
<1>16. ASSUME UNCHANGED vars PROVE CallerTypeOK' /\ EngineTypeOK'
  BY <1>3, <1>16 DEF vars, callerVars, daemonVars
<1> QED
  BY <1>6, <1>7, <1>8, <1>9, <1>10, <1>11, <1>12, <1>13, <1>14, <1>15, <1>16, StepShapes
     DEF ShutdownDone, ShutdownTimeout

\* Type correctness of the service with its engine and guard: whatever the order
\* variable names and in whatever order calls begin, end and are cut off, the
\* chain holds known providers and every handler gives one of its answers.
THEOREM TypeCorrect == Spec => []TypeOK
<1>1. TypeOK <=> CallerTypeOK /\ EngineTypeOK /\ GuardTypeOK
  BY DEF TypeOK, CallerTypeOK
<1>2. Init => CallerTypeOK /\ EngineTypeOK
  <2> SUFFICES ASSUME Init PROVE CallerTypeOK /\ EngineTypeOK
    OBVIOUS
  <2>1. "idle" \in PC /\ None \in Answers
    BY DEF PC, Answers
  <2>2. MaxCalls \in 0..MaxCalls
    BY ServiceAssumption
  <2> QED
    BY <2>1, <2>2, EngineStarts DEF Init, CallerTypeOK
<1>3. CallerTypeOK /\ EngineTypeOK /\ [Next]_vars => (CallerTypeOK /\ EngineTypeOK)'
  BY CallerSteps
<1>4. Spec => [](CallerTypeOK /\ EngineTypeOK)
  BY <1>2, <1>3, PTL DEF Spec
<1> QED
  BY <1>1, <1>4, GuardAlways, PTL

\* The process ends once, and only an end by the timeout cuts calls off.
EndInv ==
    /\ daemon # "stopped" => result = "none"
    /\ \A c \in Caller : answer[c] = Cut => result = "error"

\* runWithServe returns nil only when Shutdown came to its end: no handler was
\* cut off, whichever calls were under way at the signal.
THEOREM NilIsClean == Spec => []NilMeansAnswered
<1>1. Init => EndInv
  BY DEF Init, EndInv, None, Cut
<1>2. EndInv /\ CallerTypeOK /\ [Next]_vars => EndInv'
  <2> SUFFICES ASSUME EndInv, CallerTypeOK, [Next]_vars PROVE EndInv'
    OBVIOUS
  <2> USE DEF EndInv, CallerTypeOK
  <2>1. None # Cut
    BY DEF None, Cut
  <2>2. ASSUME NEW c \in Caller, UNCHANGED <<daemon, result>>, NEW a, a # Cut,
               answer' = [answer EXCEPT ![c] = a]
        PROVE  EndInv'
    BY <2>2
  <2>3. ASSUME UNCHANGED <<answer, daemon, result>> PROVE EndInv'
    BY <2>3
  <2>4. ASSUME NEW c \in Caller, TurnedAway(c) PROVE EndInv'
    BY <2>2, <2>4 DEF TurnedAway, Starts, Turned, daemonVars
  <2>5. ASSUME NEW c \in Caller, EntersStealth(c) PROVE EndInv'
    BY <2>1, <2>2, <2>5 DEF EntersStealth, Starts, Enter, daemonVars
  <2>6. ASSUME NEW c \in Caller, EntersSearch(c) PROVE EndInv'
    BY <2>1, <2>2, <2>6 DEF EntersSearch, Starts, BeginsSearch, Enter, daemonVars
  <2>7. ASSUME NEW c \in Caller, Search(c) \/ Probes(c) \/ EndContext(c) PROVE EndInv'
    BY <2>3, <2>7 DEF Search, Probes, EndContext, callerVars, daemonVars
  <2>8. ASSUME NEW c \in Caller, Finishes(c) PROVE EndInv'
    BY <2>2, <2>8 DEF Finishes, Done, daemonVars
  <2>9. ASSUME Signal PROVE EndInv'
    BY <2>9 DEF Signal, callerVars
  <2>10. ASSUME ShutdownDone PROVE EndInv'
    BY <2>10 DEF ShutdownDone, AllAnswered, EndProcess
  <2>11. ASSUME ShutdownTimeout PROVE EndInv'
    BY <2>11 DEF ShutdownTimeout, EndProcess
  <2>12. ASSUME PassTime PROVE EndInv'
    BY <2>3, <2>12 DEF PassTime, callerVars, daemonVars
  <2>13. ASSUME UNCHANGED vars PROVE EndInv'
    BY <2>3, <2>13 DEF vars, callerVars, daemonVars
  <2> QED
    BY <2>4, <2>5, <2>6, <2>7, <2>8, <2>9, <2>10, <2>11, <2>12, <2>13, StepShapes
<1>3. TypeOK => CallerTypeOK
  BY DEF TypeOK, CallerTypeOK
<1>4. EndInv => NilMeansAnswered
  BY DEF EndInv, NilMeansAnswered
<1> QED
  BY <1>1, <1>2, <1>3, <1>4, TypeCorrect, PTL DEF Spec

----------------------------------------------------------------------------
(* What a search says. *)

\* The providers asked are the first enabled ones, in the order of the chain, up
\* to the place of the loop while the search is under way; none but the last had
\* results.  A call that searches is its caller's last one.
AskedFrom(c) ==
    /\ Len(asked[c]) <= Cardinality(EnabledAt)
    /\ \A k \in 1..Len(asked[c]) : asked[c][k].provider = chain[Nth(EnabledAt, k)]
    /\ \A k \in 1..(Len(asked[c]) - 1) : asked[c][k].says # "results"
Verdict(c) ==
    /\ answer[c] \in SaysFound <=> Found(c)
    /\ ~Found(c) => /\ answer[c] \in {Status(404), Exit(2), Exit(3)}
                    /\ Len(asked[c]) = Cardinality(EnabledAt)
SearchInvOf(c) ==
    /\ searched[c] => calls[c] = 0 /\ pc[c] \in {"idle", "search", "doctor", "probe"}
    /\ pc[c] \in {"search", "doctor", "probe"} => searched[c]
    /\ pc[c] \notin {"search", "doctor", "probe"} => at[c] = 0
    /\ AskedFrom(c)
    /\ pc[c] \in {"search", "doctor"} => Len(asked[c]) = Rank(EnabledAt, at[c])
    /\ pc[c] = "probe" => Found(c)
    /\ searched[c] /\ pc[c] = "idle" /\ answer[c] # Cut => Verdict(c)
SearchInv ==
    /\ \E i \in 1..Len(chain) : chain[i] = "ddg"
    /\ \A c \in Caller : SearchInvOf(c)

LEMMA EnabledFacts ==
    ASSUME EngineTypeOK
    PROVE  /\ Len(chain) \in Nat /\ DOMAIN chain = 1..Len(chain)
           /\ EnabledAt \subseteq 1..Len(chain)
           /\ Cardinality(EnabledAt) \in Nat /\ Cardinality(EnabledAt) <= Len(chain)
           /\ (\E i \in 1..Len(chain) : chain[i] = "ddg") => Cardinality(EnabledAt) >= 1
<1>1. Len(chain) \in Nat /\ DOMAIN chain = 1..Len(chain)
  BY LenProperties DEF EngineTypeOK
<1>2. EnabledAt \subseteq 1..Len(chain)
  BY <1>1 DEF EnabledAt
<1>3. Cardinality(EnabledAt) \in 0..Len(chain) /\ IsFiniteSet(EnabledAt)
  BY <1>1, <1>2, Ranks
<1>4. ASSUME NEW i \in 1..Len(chain), chain[i] = "ddg" PROVE Cardinality(EnabledAt) >= 1
  <2>1. i \in EnabledAt
    BY <1>1, <1>4 DEF EnabledAt, Enabled
  <2>2. Rank(EnabledAt, i) \in 1..Cardinality(EnabledAt)
    BY <1>1, <1>2, <2>1, RankOf
  <2> QED
    BY <1>3, <2>2
<1>5. Cardinality(EnabledAt) \in Nat /\ Cardinality(EnabledAt) <= Len(chain)
  BY <1>1, <1>3
<1> QED
  BY <1>1, <1>2, <1>4, <1>5

LEMMA AskedFacts ==
    ASSUME EngineTypeOK, NEW c \in Searcher
    PROVE  /\ asked[c] \in Seq(Reply) /\ Len(asked[c]) \in Nat /\ DOMAIN asked[c] = 1..Len(asked[c])
           /\ asked[c] = <<>> <=> Len(asked[c]) = 0
<1>1. asked[c] \in Seq(Reply)
  BY DEF EngineTypeOK
<1> QED
  BY <1>1, LenProperties, EmptySeq

\* One more provider asked.
LEMMA AskKeepsOrder ==
    ASSUME EngineTypeOK, NEW c \in Searcher, NEW counted \in BOOLEAN, Ask(c, counted),
           AskedFrom(c), Len(asked[c]) = Rank(EnabledAt, at[c])
    PROVE  AskedFrom(c)' /\ Len(asked'[c]) = Rank(EnabledAt, at'[c]) /\ UNCHANGED configVars
           /\ \A d \in Searcher : d # c => asked'[d] = asked[d] /\ at'[d] = at[d]
<1> DEFINE i == Min(Ahead(c))
<1>1. PICK says \in ErrorKind \cup {"results"} :
         /\ ~Found(c) /\ Ahead(c) # {}
         /\ at' = [at EXCEPT ![c] = i]
         /\ asked' = [asked EXCEPT ![c] = Append(@, [provider |-> chain[i], says |-> says])]
         /\ [provider |-> chain[i], says |-> says] \in Reply
         /\ UNCHANGED <<ended, configVars>>
  BY AskFacts
<1> DEFINE r == [provider |-> chain[i], says |-> says]
<1>2. /\ i \in Ahead(c) /\ \A j \in Ahead(c) : i <= j
      /\ i \in 1..Len(chain) /\ Len(chain) \in Nat /\ at[c] \in 0..Len(chain)
      /\ DOMAIN chain = 1..Len(chain)
  BY <1>1, AheadFacts
<1>3. EnabledAt \subseteq 1..Len(chain) /\ Cardinality(EnabledAt) \in Nat
  BY EnabledFacts
<1>4. i \in EnabledAt /\ at[c] < i
  BY <1>2 DEF Ahead, EnabledAt
<1>5. \A j \in EnabledAt : j <= at[c] \/ i <= j
  BY <1>2, <1>3 DEF Ahead, EnabledAt
<1> HIDE DEF i
<1>6. Rank(EnabledAt, i) = Rank(EnabledAt, at[c]) + 1
  BY <1>2, <1>3, <1>4, <1>5, NextRank
<1>7. Rank(EnabledAt, i) \in 1..Cardinality(EnabledAt) /\ Nth(EnabledAt, Rank(EnabledAt, i)) = i
  BY <1>2, <1>3, <1>4, RankOf
<1>8. asked[c] \in Seq(Reply) /\ Len(asked[c]) \in Nat /\ DOMAIN asked[c] = 1..Len(asked[c])
  BY AskedFacts
<1>9. /\ at'[c] = i /\ asked'[c] = Append(asked[c], r)
      /\ \A d \in Searcher : d # c => asked'[d] = asked[d] /\ at'[d] = at[d]
  BY <1>1 DEF EngineTypeOK
<1>10. /\ Len(asked'[c]) = Len(asked[c]) + 1
       /\ asked'[c][Len(asked[c]) + 1] = r
       /\ \A k \in 1..Len(asked[c]) : asked'[c][k] = asked[c][k]
  BY <1>1, <1>8, <1>9, AppendProperties
<1>11. EnabledAt' = EnabledAt /\ chain' = chain
  BY <1>1 DEF configVars, EnabledAt, Enabled
<1>12. Len(asked'[c]) = Rank(EnabledAt, i)
  BY <1>6, <1>8, <1>10
<1>13. Len(asked'[c]) <= Cardinality(EnabledAt)
  BY <1>3, <1>7, <1>12
<1>14. ASSUME NEW k \in 1..Len(asked'[c]) PROVE asked'[c][k].provider = chain[Nth(EnabledAt, k)]
  <2>1. CASE k \in 1..Len(asked[c])
    BY <1>10, <2>1 DEF AskedFrom
  <2>2. CASE k = Len(asked[c]) + 1
    <3>1. k = Rank(EnabledAt, i)
      BY <1>10, <1>12, <2>2
    <3> QED
      BY <1>7, <1>10, <2>2, <3>1
  <2> QED
    BY <1>8, <1>10, <2>1, <2>2
<1>15. ASSUME NEW k \in 1..(Len(asked'[c]) - 1) PROVE asked'[c][k].says # "results"
  <2>1. k \in 1..Len(asked[c]) /\ asked'[c][k] = asked[c][k]
    BY <1>8, <1>10
  <2>2. CASE k \in 1..(Len(asked[c]) - 1)
    BY <2>1, <2>2 DEF AskedFrom
  <2>3. CASE k = Len(asked[c])
    <3>1. asked[c] # <<>>
      BY <1>8, <2>1, AskedFacts
    <3>2. Last(asked[c]).says # "results"
      BY <1>1, <3>1 DEF Found
    <3> QED
      BY <2>1, <2>3, <3>2 DEF Last
  <2> QED
    BY <1>8, <2>1, <2>2, <2>3
<1>16. AskedFrom(c)'
  BY <1>11, <1>13, <1>14, <1>15 DEF AskedFrom
<1> QED
  BY <1>1, <1>9, <1>12, <1>16

\* A search that ends without results has asked every enabled provider.
LEMMA AllAsked ==
    ASSUME EngineTypeOK, NEW c \in Searcher, Ahead(c) = {}, Len(asked[c]) = Rank(EnabledAt, at[c]),
           \E i \in 1..Len(chain) : chain[i] = "ddg"
    PROVE  Len(asked[c]) = Cardinality(EnabledAt) /\ ReturnedKind(c) = "no_results"
<1>1. /\ Len(chain) \in Nat /\ DOMAIN chain = 1..Len(chain) /\ EnabledAt \subseteq 1..Len(chain)
      /\ Cardinality(EnabledAt) >= 1 /\ Cardinality(EnabledAt) \in Nat
  BY EnabledFacts
<1>2. at[c] \in 0..Len(chain)
  BY DEF EngineTypeOK
<1>3. \A j \in EnabledAt : j <= at[c]
  BY <1>1, <1>2 DEF Ahead, EnabledAt
<1>4. {j \in EnabledAt : j <= at[c]} = EnabledAt
  BY <1>3
<1>5. Rank(EnabledAt, at[c]) = Cardinality(EnabledAt)
  BY <1>4 DEF Rank
<1>6. asked[c] # <<>>
  BY <1>1, <1>5, AskedFacts
<1> QED
  BY <1>5, <1>6 DEF ReturnedKind

LEMMA SearchSteps ==
    ASSUME SearchInv, CallerTypeOK, EngineTypeOK, [Next]_vars
    PROVE  SearchInv'
<1>1. Searcher = Caller /\ MaxCalls \in Nat \ {0} /\ \A c \in Caller : calls[c] \in Nat
  BY ServiceAssumption DEF CallerTypeOK
<1>2. /\ pc \in [Caller -> PC] /\ answer \in [Caller -> Answers] /\ calls \in [Caller -> 0..MaxCalls]
      /\ searched \in [Caller -> BOOLEAN]
      /\ at \in [Caller -> 0..Len(chain)] /\ asked \in [Caller -> Seq(Reply)]
  BY <1>1 DEF CallerTypeOK, EngineTypeOK
<1>3. \A c \in Caller : SearchInvOf(c)
  BY DEF SearchInv
\* A caller whose call the step leaves alone.
<1>4. ASSUME NEW d \in Caller, UNCHANGED configVars,
             pc'[d] = pc[d], answer'[d] = answer[d], calls'[d] = calls[d],
             searched'[d] = searched[d], at'[d] = at[d], asked'[d] = asked[d]
      PROVE  SearchInvOf(d)'
  <2>1. SearchInvOf(d)
    BY <1>3
  <2>2. EnabledAt' = EnabledAt /\ chain' = chain
    BY <1>4 DEF configVars, EnabledAt, Enabled
  <2>3. Found(d)' = Found(d) /\ AskedFrom(d)' = AskedFrom(d)
    BY <1>4, <2>2 DEF Found, AskedFrom
  <2>4. Verdict(d)' = Verdict(d)
    BY <1>4, <2>2, <2>3 DEF Verdict
  <2> HIDE DEF Found, AskedFrom, Verdict, Cut, Rank
  <2> QED
    BY <1>4, <2>1, <2>2, <2>3, <2>4 DEF SearchInvOf
<1>5. ASSUME UNCHANGED configVars, \A c \in Caller : SearchInvOf(c)' PROVE SearchInv'
  BY <1>5 DEF SearchInv, configVars
<1>6. ASSUME NEW c \in Caller, Starts(c) PROVE ~searched[c] /\ pc[c] = "idle" /\ at[c] = 0
  <2>1. SearchInvOf(c) /\ pc[c] = "idle" /\ calls[c] > 0 /\ calls[c] \in Nat
    BY <1>1, <1>3, <1>6 DEF Starts
  <2> QED
    BY <2>1 DEF SearchInvOf
<1>7. ASSUME NEW c \in Caller, TurnedAway(c) PROVE SearchInv'
  <2>1. PICK a \in Answers \ {Cut} : Turned(c, a)
    BY <1>7 DEF TurnedAway
  <2>2. ~searched[c] /\ pc[c] = "idle"
    BY <1>6, <1>7 DEF TurnedAway
  <2>3. UNCHANGED <<pc, searched, at, asked, configVars>>
    BY <1>7, <2>1 DEF TurnedAway, NoSearch, Turned, engineVars, searchVars
  <2>4. \A d \in Caller : d # c => answer'[d] = answer[d] /\ calls'[d] = calls[d]
    BY <1>2, <1>7, <2>1 DEF TurnedAway, NoSearch, Turned
  <2>5. \A d \in Caller : d # c => SearchInvOf(d)'
    BY <1>4, <2>3, <2>4
  <2>6. SearchInvOf(c)'
    <3>1. SearchInvOf(c)
      BY <1>3
    <3>2. AskedFrom(c)'
      BY <2>3, <3>1 DEF SearchInvOf, AskedFrom, EnabledAt, Enabled, configVars
    <3> QED
      BY <2>2, <2>3, <3>1, <3>2 DEF SearchInvOf
  <2> QED
    BY <1>5, <2>3, <2>5, <2>6
<1>8. ASSUME NEW c \in Caller, EntersStealth(c) PROVE SearchInv'
  <2>1. PICK s \in {"fetch", "browse", "crawl"} : Enter(c, s)
    BY <1>8 DEF EntersStealth
  <2>2. ~searched[c] /\ pc[c] = "idle"
    BY <1>6, <1>8 DEF EntersStealth
  <2>3. UNCHANGED <<searched, at, asked, configVars>>
    BY <1>8 DEF EntersStealth, NoSearch, engineVars, searchVars
  <2>4. \A d \in Caller : d # c => pc'[d] = pc[d] /\ answer'[d] = answer[d] /\ calls'[d] = calls[d]
    BY <1>2, <1>8, <2>1 DEF EntersStealth, NoSearch, Enter
  <2>5. \A d \in Caller : d # c => SearchInvOf(d)'
    BY <1>4, <2>3, <2>4
  <2>6. SearchInvOf(c)'
    <3>1. SearchInvOf(c)
      BY <1>3
    <3>2. AskedFrom(c)'
      BY <2>3, <3>1 DEF SearchInvOf, AskedFrom, EnabledAt, Enabled, configVars
    <3>3. pc'[c] = s
      BY <1>2, <2>1 DEF Enter
    <3> QED
      BY <2>2, <2>3, <3>1, <3>2, <3>3 DEF SearchInvOf
  <2> QED
    BY <1>5, <2>3, <2>5, <2>6
<1>9. ASSUME NEW c \in Caller, EntersSearch(c) PROVE SearchInv'
  <2>1. PICK s \in {"search", "doctor"} : BeginsSearch(c, s)
    BY <1>9 DEF EntersSearch
  <2>2. at[c] = 0
    BY <1>6, <1>9 DEF EntersSearch
  <2>3. UNCHANGED <<at, configVars>>
    BY <2>1 DEF BeginsSearch, StartSearch
  <2>4. \A d \in Caller : d # c => /\ pc'[d] = pc[d] /\ answer'[d] = answer[d] /\ calls'[d] = calls[d]
                                   /\ searched'[d] = searched[d] /\ asked'[d] = asked[d]
    BY <1>2, <2>1 DEF BeginsSearch, Enter, StartSearch
  <2>5. \A d \in Caller : d # c => SearchInvOf(d)'
    BY <1>4, <2>3, <2>4
  <2>6. SearchInvOf(c)'
    <3>1. pc'[c] = s /\ searched'[c] = TRUE /\ calls'[c] = 0 /\ asked'[c] = <<>> /\ at'[c] = 0
      BY <1>2, <2>1, <2>2 DEF BeginsSearch, Enter, StartSearch
    <3>2. Len(asked'[c]) = 0
      BY <3>1
    <3>3. EnabledAt' = EnabledAt /\ Cardinality(EnabledAt) \in Nat /\ Rank(EnabledAt, 0) = 0
      BY <2>3, EnabledFacts, Ranks DEF EnabledAt, Enabled, configVars
    <3>4. AskedFrom(c)'
      BY <3>2, <3>3 DEF AskedFrom
    <3> QED
      BY <3>1, <3>2, <3>3, <3>4 DEF SearchInvOf
  <2> QED
    BY <1>5, <2>3, <2>5, <2>6
<1>10. ASSUME NEW c \in Caller, Search(c) PROVE SearchInv'
  <2>1. PICK counted \in BOOLEAN : Ask(c, counted)
    BY <1>10 DEF Search
  <2>2. pc[c] \in {"search", "doctor"} /\ UNCHANGED <<pc, answer, calls, searched>>
    BY <1>10 DEF Search, callerVars
  <2>3. SearchInvOf(c)
    BY <1>3
  <2>4. /\ AskedFrom(c)' /\ Len(asked'[c]) = Rank(EnabledAt, at'[c]) /\ UNCHANGED configVars
        /\ \A d \in Caller : d # c => asked'[d] = asked[d] /\ at'[d] = at[d]
    BY <1>1, <2>1, <2>2, <2>3, AskKeepsOrder DEF SearchInvOf
  <2>5. EnabledAt' = EnabledAt
    BY <2>4 DEF EnabledAt, Enabled, configVars
  <2>6. SearchInvOf(c)'
    BY <2>2, <2>3, <2>4, <2>5 DEF SearchInvOf
  <2>7. \A d \in Caller : d # c => SearchInvOf(d)'
    BY <1>4, <2>2, <2>4
  <2> QED
    BY <1>5, <2>4, <2>6, <2>7
<1>11. ASSUME NEW c \in Caller, Finishes(c) PROVE SearchInv'
  <2>1. PICK a \in Answers \ {Cut} :
           /\ Done(c, a)
           /\ pc[c] = "search" =>
                 /\ Returns(c)
                 /\ Found(c) => a \in SaysFound
                 /\ ~Found(c) => a \in {Status(SearchStatus(ReturnedKind(c))), Exit(SearchExit(ReturnedKind(c)))}
           /\ pc[c] = "doctor" => Returns(c) /\ ~Found(c) /\ a = Exit(3)
           /\ pc[c] = "probe" => a = Exit(0)
    BY <1>11 DEF Finishes
  <2>2. UNCHANGED <<calls, searched, asked, configVars>>
    BY <2>1 DEF Done
  <2>3. /\ pc'[c] = "idle" /\ answer'[c] = a /\ at'[c] = 0
        /\ \A d \in Caller : d # c => pc'[d] = pc[d] /\ answer'[d] = answer[d] /\ at'[d] = at[d]
    BY <1>1, <1>2, <2>1 DEF Done
  <2>4. \A d \in Caller : d # c => SearchInvOf(d)'
    BY <1>4, <2>2, <2>3
  <2>5. SearchInvOf(c) /\ pc[c] # "idle"
    BY <1>3, <1>11 DEF Finishes
  <2>6. EnabledAt' = EnabledAt /\ chain' = chain
    BY <2>2 DEF EnabledAt, Enabled, configVars
  <2>7. AskedFrom(c)' /\ Found(c)' = Found(c)
    BY <2>2, <2>5, <2>6 DEF SearchInvOf, AskedFrom, Found
  <2>8. ASSUME searched[c] PROVE Verdict(c)'
    <3>1. /\ SaysFound \cap {Status(404), Exit(2), Exit(3)} = {}
          /\ Exit(0) \in SaysFound
      BY DEF SaysFound, Status, Exit
    <3>2. pc[c] \in {"search", "doctor", "probe"}
      BY <2>5, <2>8 DEF SearchInvOf
    <3>3. CASE Found(c)
      <4>1. a \in SaysFound
        BY <2>1, <3>1, <3>2, <3>3
      <4> QED
        BY <2>3, <2>7, <3>3, <4>1 DEF Verdict, SaysFound
    <3>4. CASE ~Found(c)
      <4>1. pc[c] \in {"search", "doctor"} /\ Ahead(c) = {} /\ Len(asked[c]) = Rank(EnabledAt, at[c])
        BY <2>1, <2>5, <3>2, <3>4 DEF SearchInvOf, Returns
      <4>2. Len(asked[c]) = Cardinality(EnabledAt) /\ ReturnedKind(c) = "no_results"
        BY <1>1, <4>1, AllAsked DEF SearchInv
      <4>3. SearchStatus("no_results") = 404 /\ SearchExit("no_results") = 2
        BY DEF SearchStatus, SearchExit
      <4>4. a \in {Status(404), Exit(2), Exit(3)}
        BY <2>1, <3>4, <4>1, <4>2, <4>3
      <4>5. a \notin SaysFound
        BY <3>1, <4>4
      <4> HIDE DEF Found, SaysFound, Status, Exit
      <4>6. Len(asked'[c]) = Cardinality(EnabledAt')
        BY <2>2, <2>6, <4>2
      <4>7. (answer[c] \in SaysFound)' = (a \in SaysFound)
        BY <2>3 DEF SaysFound, Status, Exit
      <4>8. (answer[c] \in {Status(404), Exit(2), Exit(3)})' = (a \in {Status(404), Exit(2), Exit(3)})
        BY <2>3 DEF Status, Exit
      <4> QED
        BY <2>7, <3>4, <4>4, <4>5, <4>6, <4>7, <4>8 DEF Verdict
    <3> QED
      BY <3>3, <3>4
  <2>9. SearchInvOf(c)'
    BY <2>2, <2>3, <2>5, <2>7, <2>8 DEF SearchInvOf
  <2> QED
    BY <1>5, <2>2, <2>4, <2>9
<1>12. ASSUME NEW c \in Caller, Probes(c) PROVE SearchInv'
  <2>1. UNCHANGED <<answer, calls, searched, at, asked, configVars>>
    BY <1>12 DEF Probes, engineVars, searchVars
  <2>2. pc'[c] = "probe" /\ \A d \in Caller : d # c => pc'[d] = pc[d]
    BY <1>2, <1>12 DEF Probes
  <2>3. \A d \in Caller : d # c => SearchInvOf(d)'
    BY <1>4, <2>1, <2>2
  <2>4. SearchInvOf(c) /\ Found(c) /\ pc[c] = "doctor"
    BY <1>3, <1>12 DEF Probes
  <2>5. AskedFrom(c)' /\ Found(c)'
    BY <2>1, <2>4 DEF SearchInvOf, AskedFrom, Found, EnabledAt, Enabled, configVars
  <2>6. SearchInvOf(c)'
    BY <2>1, <2>2, <2>4, <2>5 DEF SearchInvOf
  <2> QED
    BY <1>5, <2>1, <2>3, <2>6
<1>13. ASSUME UNCHANGED <<pc, answer, calls, searched, at, asked, configVars>> PROVE SearchInv'
  <2>1. \A d \in Caller : SearchInvOf(d)'
    BY <1>4, <1>13
  <2> QED
    BY <1>5, <1>13, <2>1
<1>14. ASSUME NEW c \in Caller, EndContext(c) PROVE SearchInv'
  BY <1>13, <1>14 DEF EndContext, EndOfContext, callerVars
<1>15. ASSUME Signal PROVE SearchInv'
  BY <1>13, <1>15 DEF Signal, callerVars, engineVars, searchVars
<1>16. ASSUME NEW err, EndProcess(err) PROVE SearchInv'
  <2>1. UNCHANGED <<calls, searched, asked, configVars>>
    BY <1>16 DEF EndProcess
  <2>2. ASSUME NEW d \in Caller PROVE SearchInvOf(d)'
    <3>1. CASE ~InHandler(d)
      <4>1. pc'[d] = pc[d] /\ answer'[d] = answer[d] /\ at'[d] = at[d]
        BY <1>1, <1>16, <3>1 DEF EndProcess
      <4> QED
        BY <1>4, <2>1, <4>1
    <3>2. CASE InHandler(d)
      <4>1. pc'[d] = "idle" /\ answer'[d] = Cut /\ at'[d] = 0
        BY <1>1, <1>16, <3>2 DEF EndProcess
      <4>2. SearchInvOf(d)
        BY <1>3
      <4>3. AskedFrom(d)'
        BY <2>1, <4>2 DEF SearchInvOf, AskedFrom, EnabledAt, Enabled, configVars
      <4>4. ~(answer'[d] # Cut')
        BY <4>1 DEF Cut
      <4> QED
        BY <2>1, <4>1, <4>2, <4>3, <4>4 DEF SearchInvOf
    <3> QED
      BY <3>1, <3>2
  <2> QED
    BY <1>5, <2>1, <2>2
<1>17. ASSUME PassTime PROVE SearchInv'
  BY <1>13, <1>17 DEF PassTime, callerVars, engineVars, searchVars
<1>18. ASSUME UNCHANGED vars PROVE SearchInv'
  BY <1>13, <1>18 DEF vars, callerVars, engineVars, searchVars
<1> QED
  BY <1>7, <1>8, <1>9, <1>10, <1>11, <1>12, <1>14, <1>15, <1>16, <1>17, <1>18, StepShapes
     DEF ShutdownDone, ShutdownTimeout

LEMMA SearchAlways == Spec => [](CallerTypeOK /\ EngineTypeOK /\ SearchInv)
<1>1. Init => SearchInv
  <2> SUFFICES ASSUME Init PROVE SearchInv
    OBVIOUS
  <2>1. EngineTypeOK /\ \E i \in 1..Len(chain) : chain[i] = "ddg"
    BY EngineStarts DEF Init
  <2>2. Cardinality(EnabledAt) \in Nat
    BY <2>1, EnabledFacts
  <2>3. ASSUME NEW c \in Caller PROVE SearchInvOf(c)
    <3>1. pc[c] = "idle" /\ ~searched[c] /\ at[c] = 0 /\ asked[c] = <<>>
      BY <2>3, ServiceAssumption DEF Init, EngineInit
    <3>2. Len(asked[c]) = 0
      BY <3>1
    <3>3. AskedFrom(c)
      BY <2>2, <3>2 DEF AskedFrom
    <3> QED
      BY <3>1, <3>3 DEF SearchInvOf
  <2> QED
    BY <2>1, <2>3 DEF SearchInv
<1>2. TypeOK => CallerTypeOK /\ EngineTypeOK
  BY DEF TypeOK, CallerTypeOK
<1>3. SearchInv /\ CallerTypeOK /\ EngineTypeOK /\ [Next]_vars => SearchInv'
  BY SearchSteps
<1> QED
  BY <1>1, <1>2, <1>3, TypeCorrect, PTL DEF Spec

\* What Engine.Search answers is earned, whatever its providers said, whichever
\* were enabled and whenever its context ended: a success is that of the first
\* enabled provider with results, and every failure that a caller sees comes
\* after all enabled providers were called, of which there is always one; those
\* called after the end of the context sent no request.
THEOREM AnswersAreEarned == Spec => []AnswerJustified
<1>1. ASSUME EngineTypeOK, SearchInv, NEW c \in Caller PROVE AskedInOrder(c)
  <2> DEFINE names == [i \in DOMAIN asked[c] |-> asked[c][i].provider]
             n == Len(asked[c])
  <2>1. AskedFrom(c)
    BY <1>1 DEF SearchInv, SearchInvOf
  <2>2. /\ asked[c] \in Seq(Reply) /\ n \in Nat /\ DOMAIN asked[c] = 1..n
    BY <1>1, ServiceAssumption, AskedFacts
  <2>3. /\ Len(chain) \in Nat /\ EnabledAt \subseteq 1..Len(chain)
        /\ DOMAIN chain = 1..Len(chain) /\ Cardinality(EnabledAt) \in Nat
    BY <1>1, EnabledFacts
  <2>4. \A i \in 1..Len(chain) : chain[i] \in Providers
    BY <1>1, ElementOfSeq DEF EngineTypeOK
  <2>5. EnabledProviders \in Seq(Providers) /\ Len(EnabledProviders) = Cardinality(EnabledAt)
    <3>1. \A i \in EnabledAt : chain[i] \in Providers
      BY <2>3, <2>4
    <3> QED
      BY <2>3, <3>1, ThoseFacts DEF EnabledProviders
  <2>6. \A k \in 1..n : asked[c][k].provider \in Providers
    <3>1. \A k \in 1..n : asked[c][k] \in Reply
      BY <2>2, ElementOfSeq
    <3> QED
      BY <3>1 DEF Reply
  <2>7. names \in Seq(Providers) /\ Len(names) = n
    <3>1. names \in [1..n -> Providers]
      BY <2>2, <2>6
    <3>2. names \in Seq(Providers)
      BY <2>2, <3>1, SeqDef
    <3> QED
      BY <2>2, <3>1, <3>2, LenProperties
  <2>8. n <= Cardinality(EnabledAt)
    BY <2>1 DEF AskedFrom
  <2>9. \A k \in 1..n : names[k] = EnabledProviders[k]
    <3> SUFFICES ASSUME NEW k \in 1..n PROVE names[k] = EnabledProviders[k]
      OBVIOUS
    <3>1. names[k] = asked[c][k].provider
      BY <2>2
    <3>2. asked[c][k].provider = chain[Nth(EnabledAt, k)]
      BY <2>1 DEF AskedFrom
    <3>3. k \in 1..Cardinality(EnabledAt)
      BY <2>2, <2>3, <2>8
    <3> QED
      BY <3>1, <3>2, <3>3 DEF EnabledProviders, Those
  <2> HIDE DEF names, n
  <2>10. SubSeq(names, 1, n) = SubSeq(EnabledProviders, 1, n)
    BY <2>2, <2>9
  <2>11. IsPrefix(names, EnabledProviders)
    BY <2>5, <2>7, <2>8, <2>10 DEF IsPrefix
  <2> QED
    BY <2>1, <2>11 DEF AskedInOrder, AskedFrom, names
<1>2. CallerTypeOK /\ EngineTypeOK /\ SearchInv => AnswerJustified
  <2> SUFFICES ASSUME CallerTypeOK, EngineTypeOK, SearchInv, NEW c \in Caller, searched[c]
               PROVE  /\ AskedInOrder(c)
                      /\ pc[c] = "idle" /\ answer[c] # Cut =>
                            /\ answer[c] \in {Status(200), Exit(0)} <=> Found(c)
                            /\ ~Found(c) => Len(asked[c]) = Len(EnabledProviders)
    BY DEF AnswerJustified
  <2>1. SearchInvOf(c)
    BY DEF SearchInv
  <2>2. Len(EnabledProviders) = Cardinality(EnabledAt)
    <3>1. Len(chain) \in Nat /\ EnabledAt \subseteq 1..Len(chain)
      BY EnabledFacts
    <3>2. \A i \in EnabledAt : chain[i] \in Providers
      BY <3>1, ElementOfSeq DEF EngineTypeOK
    <3> QED
      BY <3>1, <3>2, ThoseFacts DEF EnabledProviders
  <2> QED
    BY <1>1, <2>1, <2>2 DEF SearchInvOf, Verdict, SaysFound
<1> QED
  BY <1>2, SearchAlways, PTL

----------------------------------------------------------------------------
(* The counters. *)

\* x is an observed caller and the place of an answer in its diagnostics.
Told(x, p, kinds) ==
    /\ x[1] \in Observed /\ x[2] <= Len(asked[x[1]])
    /\ asked[x[1]][x[2]].provider = p /\ asked[x[1]][x[2]].says \in kinds
Pairs == Caller \X (1..Len(chain))
FellBack(p) == {x \in Replies(p, ErrorKind) : Nth(EnabledAt, x[2]) < Len(chain)}
MetricsInv ==
    \A p \in Providers :
       /\ requests[p].success = HowMany(p, {"results"})
       /\ requests[p].error = HowMany(p, ErrorKind)
       /\ blocks[p] = HowMany(p, {"blocked"})
       /\ fallbacks[p] = Cardinality(FellBack(p))

LEMMA RepliesAre ==
    ASSUME NEW p, NEW kinds
    PROVE  Replies(p, kinds) = {x \in Pairs : Told(x, p, kinds)}
<1>1. \A x : x \in Observed \X (1..Len(chain)) <=> x \in Pairs /\ x[1] \in Observed
  BY DEF Pairs, Observed
<1> QED
  BY <1>1 DEF Replies, Told

LEMMA RepliesFinite ==
    ASSUME IsFiniteSet(Caller), EngineTypeOK, NEW p, NEW kinds
    PROVE  /\ IsFiniteSet(Replies(p, kinds)) /\ IsFiniteSet(FellBack(p))
           /\ Cardinality(Replies(p, kinds)) \in Nat /\ Cardinality(FellBack(p)) \in Nat
<1>1. IsFiniteSet(1..Len(chain))
  BY FS_Interval, EnabledFacts
<1>2. IsFiniteSet(Pairs)
  BY <1>1, FS_Product DEF Pairs
<1>3. ASSUME NEW ks PROVE IsFiniteSet(Replies(p, ks))
  <2>1. Replies(p, ks) \in SUBSET Pairs
    BY RepliesAre
  <2> QED
    BY <1>2, <2>1, FS_Subset
<1>4. IsFiniteSet(FellBack(p))
  <2>1. FellBack(p) \in SUBSET Replies(p, ErrorKind)
    BY DEF FellBack
  <2> QED
    BY <1>3, <2>1, FS_Subset
<1> QED
  BY <1>3, <1>4, FS_CardinalityType

\* A step that asks no provider for an observed caller.
LEMMA MetricsStay ==
    ASSUME MetricsInv, UNCHANGED <<configVars, metricVars>>,
           \A d \in Observed : d \in Observed' /\ asked'[d] = asked[d],
           \A d \in Observed' : d \in Observed \/ asked'[d] = <<>>
    PROVE  MetricsInv'
<1>1. chain' = chain /\ EnabledAt' = EnabledAt /\ Pairs' = Pairs
  BY DEF configVars, EnabledAt, Enabled, Pairs
<1>2. ASSUME NEW p, NEW kinds PROVE Replies(p, kinds)' = Replies(p, kinds)
  <2>1. ASSUME NEW x \in Pairs PROVE Told(x, p, kinds)' <=> Told(x, p, kinds)
    <3>1. x[2] \in 1..Len(chain)
      BY DEF Pairs
    <3>2. CASE x[1] \in Observed
      BY <3>2 DEF Told
    <3>3. CASE x[1] \notin Observed
      <4>1. x[1] \in Observed' => Len(asked'[x[1]]) = 0
        BY <3>3
      <4>2. ~(x[2] <= 0)
        BY <3>1
      <4> QED
        BY <3>3, <4>1, <4>2 DEF Told
    <3> QED
      BY <3>2, <3>3
  <2>2. Replies(p, kinds)' = {x \in Pairs' : Told(x, p, kinds)'}
    BY RepliesAre DEF Replies, Told, Observed, Pairs
  <2> QED
    BY <1>1, <2>1, <2>2, RepliesAre
<1>3. ASSUME NEW p PROVE FellBack(p)' = FellBack(p)
  BY <1>1, <1>2 DEF FellBack
<1> QED
  BY <1>2, <1>3 DEF MetricsInv, HowMany, metricVars

\* An answer more, and the counts of the sets it joins.
LEMMA AskCounts ==
    ASSUME IsFiniteSet(Caller), EngineTypeOK, SearchInv, MetricsInv,
           NEW c \in Observed, Len(asked[c]) = Rank(EnabledAt, at[c]),
           Ask(c, TRUE), UNCHANGED <<via, searched>>
    PROVE  MetricsInv'
<1> DEFINE i == Min(Ahead(c))
           k == Len(asked[c]) + 1
           who == chain[i]
<1>0. c \in Caller /\ Searcher = Caller
  BY ServiceAssumption DEF Observed
<1>1. PICK says \in ErrorKind \cup {"results"} :
         /\ ~Found(c) /\ Ahead(c) # {}
         /\ at' = [at EXCEPT ![c] = i]
         /\ asked' = [asked EXCEPT ![c] = Append(@, [provider |-> who, says |-> says])]
         /\ [provider |-> who, says |-> says] \in Reply
         /\ Hook(who, says, i)
         /\ UNCHANGED <<ended, configVars>>
  BY <1>0, AskFacts
<1>2. /\ AskedFrom(c)' /\ Len(asked'[c]) = Rank(EnabledAt, at'[c])
      /\ \A d \in Caller : d # c => asked'[d] = asked[d]
  BY <1>0, AskKeepsOrder DEF SearchInv, SearchInvOf
<1>3. /\ chain' = chain /\ EnabledAt' = EnabledAt /\ Pairs' = Pairs /\ Observed' = Observed
  BY <1>1 DEF configVars, EnabledAt, Enabled, Pairs, Observed
<1>4. asked[c] \in Seq(Reply) /\ Len(asked[c]) \in Nat /\ k \in Nat
  BY <1>0, AskedFacts
<1>5. /\ Len(asked'[c]) = k
      /\ asked'[c][k] = [provider |-> who, says |-> says]
      /\ \A j \in 1..Len(asked[c]) : asked'[c][j] = asked[c][j]
  <2> DEFINE r == [provider |-> who, says |-> says]
  <2>1. asked'[c] = Append(asked[c], r)
    BY <1>0, <1>1 DEF EngineTypeOK
  <2>2. r \in Reply
    BY <1>1
  <2> HIDE DEF r
  <2>3. /\ Len(asked'[c]) = Len(asked[c]) + 1
        /\ asked'[c][Len(asked[c]) + 1] = r
        /\ \A j \in 1..Len(asked[c]) : asked'[c][j] = asked[c][j]
    BY <1>4, <2>1, <2>2, AppendProperties
  <2> QED
    BY <2>3 DEF r
<1>6. i \in EnabledAt /\ i \in 1..Len(chain) /\ Len(chain) \in Nat /\ who \in Providers
      /\ EnabledAt \subseteq 1..Len(chain) /\ Cardinality(EnabledAt) \in Nat
      /\ Cardinality(EnabledAt) <= Len(chain)
  BY <1>0, <1>1, AheadFacts, EnabledFacts DEF EnabledAt
<1>7. at'[c] = i
  BY <1>0, <1>1 DEF EngineTypeOK
<1> HIDE DEF i
<1>8. k \in 1..Len(chain) /\ Nth(EnabledAt, k) = i
  <2>1. k = Rank(EnabledAt, i)
    BY <1>2, <1>5, <1>7
  <2>2. Rank(EnabledAt, i) \in 1..Cardinality(EnabledAt) /\ Nth(EnabledAt, Rank(EnabledAt, i)) = i
    BY <1>6, RankOf
  <2> QED
    BY <1>6, <2>1, <2>2
<1> HIDE DEF k, who
<1>9. PICK new \in Pairs : new = <<c, k>> /\ new[1] = c /\ new[2] = k
  <2>1. <<c, k>> \in Pairs
    BY <1>0, <1>8 DEF Pairs
  <2> QED
    BY <2>1
<1>10. ASSUME NEW p, NEW kinds
       PROVE  /\ new \notin Replies(p, kinds)
              /\ Replies(p, kinds)' = IF p = who /\ says \in kinds THEN Replies(p, kinds) \cup {new}
                                      ELSE Replies(p, kinds)
  <2>1. ~Told(new, p, kinds)
    <3>1. ~(k <= Len(asked[c]))
      BY <1>4 DEF k
    <3> QED
      BY <1>9, <3>1 DEF Told
  <2>2. Told(new, p, kinds)' <=> p = who /\ says \in kinds
    <3>1. k <= Len(asked'[c])
      BY <1>4, <1>5
    <3>2. asked'[c][k].provider = who /\ asked'[c][k].says = says
      BY <1>5
    <3> QED
      BY <1>3, <1>9, <3>1, <3>2 DEF Told
  <2>3. ASSUME NEW x \in Pairs, x # new PROVE Told(x, p, kinds)' <=> Told(x, p, kinds)
    <3>1. x[1] \in Caller /\ x[2] \in 1..Len(chain) /\ x = <<x[1], x[2]>>
      BY <2>3 DEF Pairs
    <3>2. CASE x[1] # c
      BY <1>2, <1>3, <3>1, <3>2 DEF Told
    <3>3. CASE x[1] = c
      <4>1. x[2] # k
        BY <1>9, <2>3, <3>1, <3>3
      <4>2. x[2] <= k <=> x[2] <= Len(asked[c])
        BY <1>4, <3>1, <4>1 DEF k
      <4>3. CASE x[2] <= Len(asked[c])
        <5>1. asked'[c][x[2]] = asked[c][x[2]]
          BY <1>4, <1>5, <3>1, <4>3
        <5> QED
          BY <1>3, <1>5, <3>3, <4>2, <4>3, <5>1 DEF Told
      <4>4. CASE ~(x[2] <= Len(asked[c]))
        BY <1>3, <1>5, <3>3, <4>2, <4>4 DEF Told
      <4> QED
        BY <4>3, <4>4
    <3> QED
      BY <3>2, <3>3
  <2>4. Replies(p, kinds)' = {x \in Pairs' : Told(x, p, kinds)'}
    BY RepliesAre DEF Replies, Told, Observed, Pairs
  <2>5. \A x : x \in Replies(p, kinds)' <=> x \in Pairs /\ Told(x, p, kinds)'
    BY <1>3, <2>4
  <2>6. \A x : x \in Replies(p, kinds) <=> x \in Pairs /\ Told(x, p, kinds)
    BY RepliesAre
  <2>7. CASE p = who /\ says \in kinds
    <3>1. \A x : x \in Replies(p, kinds)' <=> x \in Replies(p, kinds) \/ x = new
      BY <1>9, <2>2, <2>3, <2>5, <2>6, <2>7
    <3> QED
      BY <2>1, <2>6, <2>7, <3>1
  <2>8. CASE ~(p = who /\ says \in kinds)
    <3>1. \A x : x \in Replies(p, kinds)' <=> x \in Replies(p, kinds)
      BY <1>9, <2>1, <2>2, <2>3, <2>5, <2>6, <2>8
    <3> QED
      BY <2>1, <2>6, <2>8, <3>1
  <2> QED
    BY <2>7, <2>8
<1>11. ASSUME NEW p, NEW kinds
       PROVE  HowMany(p, kinds)' = IF p = who /\ says \in kinds THEN HowMany(p, kinds) + 1
                                   ELSE HowMany(p, kinds)
  <2>1. IsFiniteSet(Replies(p, kinds))
    BY RepliesFinite
  <2>2. Cardinality(Replies(p, kinds) \cup {new}) = Cardinality(Replies(p, kinds)) + 1
    BY <1>10, <2>1, FS_AddElement
  <2> QED
    BY <1>10, <2>2 DEF HowMany
<1>12. ASSUME NEW p
       PROVE  Cardinality(FellBack(p))' =
                 IF p = who /\ says # "results" /\ i < Len(chain) THEN Cardinality(FellBack(p)) + 1
                 ELSE Cardinality(FellBack(p))
  <2>1. FellBack(p)' = {x \in Replies(p, ErrorKind)' : Nth(EnabledAt, x[2]) < Len(chain)}
    BY <1>3 DEF FellBack
  <2>2. says \in ErrorKind <=> says # "results"
    BY DEF ErrorKind
  <2>3. new \notin FellBack(p) /\ IsFiniteSet(FellBack(p))
    BY <1>10, RepliesFinite DEF FellBack
  <2>4. Nth(EnabledAt, new[2]) = i
    BY <1>8, <1>9
  <2>5. CASE p = who /\ says # "results" /\ i < Len(chain)
    <3>1. Replies(p, ErrorKind)' = Replies(p, ErrorKind) \cup {new}
      BY <1>10, <2>2, <2>5
    <3>2. FellBack(p)' = FellBack(p) \cup {new}
      BY <2>1, <2>4, <2>5, <3>1 DEF FellBack
    <3>3. Cardinality(FellBack(p) \cup {new}) = Cardinality(FellBack(p)) + 1
      BY <2>3, FS_AddElement
    <3> QED
      BY <2>5, <3>2, <3>3
  <2>6. CASE p = who /\ says # "results" /\ ~(i < Len(chain))
    <3>1. Replies(p, ErrorKind)' = Replies(p, ErrorKind) \cup {new}
      BY <1>10, <2>2, <2>6
    <3>2. FellBack(p)' = FellBack(p)
      BY <2>1, <2>4, <2>6, <3>1 DEF FellBack
    <3> QED
      BY <2>6, <3>2
  <2>7. CASE ~(p = who /\ says # "results")
    <3>1. Replies(p, ErrorKind)' = Replies(p, ErrorKind)
      BY <1>10, <2>2, <2>7
    <3>2. FellBack(p)' = FellBack(p)
      BY <2>1, <3>1 DEF FellBack
    <3> QED
      BY <2>7, <3>2
  <2> QED
    BY <2>5, <2>6, <2>7
<1>13. \A p \in Providers :
          /\ requests'[p].success = IF p = who /\ says = "results" THEN requests[p].success + 1
                                    ELSE requests[p].success
          /\ requests'[p].error = IF p = who /\ says # "results" THEN requests[p].error + 1
                                  ELSE requests[p].error
  <2>1. requests \in [Providers -> [{"success", "error"} -> Nat]]
    BY DEF EngineTypeOK
  <2> DEFINE kind == IF says = "results" THEN "success" ELSE "error"
  <2>2. requests' = [requests EXCEPT ![who] = [requests[who] EXCEPT ![kind] = requests[who][kind] + 1]]
    BY <1>1, <1>6, <2>1 DEF Hook
  <2>3. \A p \in Providers : p # who => requests'[p] = requests[p]
    BY <2>1, <2>2
  <2>4. requests'[who] = [requests[who] EXCEPT ![kind] = requests[who][kind] + 1]
    BY <1>6, <2>1, <2>2
  <2>5. requests[who] \in [{"success", "error"} -> Nat]
    BY <1>6, <2>1
  <2>6. CASE says = "results"
    <3>1. requests'[who].success = requests[who].success + 1 /\ requests'[who].error = requests[who].error
      BY <2>4, <2>5, <2>6
    <3> QED
      BY <2>3, <2>6, <3>1
  <2>7. CASE says # "results"
    <3>1. requests'[who].error = requests[who].error + 1 /\ requests'[who].success = requests[who].success
      BY <2>4, <2>5, <2>7
    <3> QED
      BY <2>3, <2>7, <3>1
  <2> QED
    BY <2>6, <2>7
<1>14. \A p \in Providers :
          /\ blocks'[p] = IF p = who /\ says = "blocked" THEN blocks[p] + 1 ELSE blocks[p]
          /\ fallbacks'[p] = IF p = who /\ says # "results" /\ i < Len(chain) THEN fallbacks[p] + 1
                             ELSE fallbacks[p]
  BY <1>1, <1>6 DEF Hook, EngineTypeOK
<1>15. says \in {"results"} <=> says = "results"
  OBVIOUS
<1>16. says \in ErrorKind <=> says # "results"
  BY DEF ErrorKind
<1>17. says \in {"blocked"} <=> says = "blocked"
  OBVIOUS
<1>18. ASSUME NEW p \in Providers
       PROVE  /\ requests'[p].success = HowMany(p, {"results"})'
              /\ requests'[p].error = HowMany(p, ErrorKind)'
              /\ blocks'[p] = HowMany(p, {"blocked"})'
              /\ fallbacks'[p] = Cardinality(FellBack(p))'
  <2>1. /\ requests[p].success = HowMany(p, {"results"})
        /\ requests[p].error = HowMany(p, ErrorKind)
        /\ blocks[p] = HowMany(p, {"blocked"})
        /\ fallbacks[p] = Cardinality(FellBack(p))
    BY DEF MetricsInv
  <2>2. requests'[p].success = HowMany(p, {"results"})'
    BY <1>11, <1>13, <1>15, <2>1
  <2>3. requests'[p].error = HowMany(p, ErrorKind)'
    BY <1>11, <1>13, <1>16, <2>1
  <2>4. blocks'[p] = HowMany(p, {"blocked"})'
    BY <1>11, <1>14, <1>17, <2>1
  <2>5. fallbacks'[p] = Cardinality(FellBack(p))'
    BY <1>12, <1>14, <2>1
  <2> QED
    BY <2>2, <2>3, <2>4, <2>5
<1> QED
  BY <1>18 DEF MetricsInv, ErrorKind, HowMany

LEMMA MetricsSteps ==
    ASSUME IsFiniteSet(Caller), CallerTypeOK, EngineTypeOK, SearchInv, MetricsInv, [Next]_vars
    PROVE  MetricsInv'
<1>1. Searcher = Caller /\ asked \in [Caller -> Seq(Reply)] /\ via \in [Caller -> {"http", "command"}]
      /\ searched \in [Caller -> BOOLEAN]
  BY ServiceAssumption DEF EngineTypeOK, CallerTypeOK
<1>2. ASSUME UNCHANGED <<configVars, metricVars, via, searched, asked>> PROVE MetricsInv'
  BY <1>2, MetricsStay DEF Observed
<1>3. ASSUME NEW c \in Caller, Starts(c)
      PROVE  ~searched[c] /\ c \notin Observed /\ \A d \in Caller : d # c => via'[d] = via[d]
  <2>1. calls[c] > 0 /\ SearchInvOf(c)
    BY <1>3 DEF SearchInv, Starts
  <2>2. ~searched[c]
    BY <2>1 DEF SearchInvOf
  <2> QED
    BY <1>1, <1>3, <2>2 DEF Observed, Starts
<1>4. ASSUME NEW c \in Caller, Starts(c), NoSearch(c) PROVE MetricsInv'
  <2>1. ~searched[c] /\ \A d \in Caller : d # c => via'[d] = via[d]
    BY <1>3, <1>4
  <2>2. UNCHANGED <<searched, asked, configVars, metricVars>>
    BY <1>4 DEF NoSearch, engineVars, searchVars
  <2>3. Observed' = Observed
    BY <2>1, <2>2 DEF Observed
  <2> QED
    BY <2>2, <2>3, MetricsStay
<1>5. ASSUME NEW c \in Caller, EntersSearch(c) PROVE MetricsInv'
  <2>1. c \notin Observed /\ \A d \in Caller : d # c => via'[d] = via[d]
    BY <1>3, <1>5 DEF EntersSearch
  <2>2. /\ asked'[c] = <<>> /\ UNCHANGED <<configVars, metricVars>>
        /\ \A d \in Caller : d # c => searched'[d] = searched[d] /\ asked'[d] = asked[d]
    BY <1>1, <1>5 DEF EntersSearch, BeginsSearch, StartSearch
  <2>3. \A d \in Caller : d # c => (d \in Observed' <=> d \in Observed)
    BY <2>1, <2>2 DEF Observed
  <2>4. Observed \subseteq Caller /\ Observed' \subseteq Caller
    BY DEF Observed
  <2> QED
    BY <2>1, <2>2, <2>3, <2>4, MetricsStay
<1>6. ASSUME NEW c \in Caller, Search(c) PROVE MetricsInv'
  <2>1. /\ pc[c] \in {"search", "doctor"} /\ UNCHANGED <<via, searched>>
        /\ Ask(c, via[c] = "http")
    BY <1>6 DEF Search, callerVars
  <2>2. SearchInvOf(c)
    BY DEF SearchInv
  <2>3. searched[c] /\ AskedFrom(c) /\ Len(asked[c]) = Rank(EnabledAt, at[c])
    BY <2>1, <2>2 DEF SearchInvOf
  <2>4. CASE via[c] = "http"
    <3>1. c \in Observed
      BY <2>3, <2>4 DEF Observed
    <3>2. Ask(c, TRUE)
      BY <2>1, <2>4 DEF Ask
    <3> QED
      BY <2>1, <2>3, <3>1, <3>2, AskCounts
  <2>5. CASE via[c] # "http"
    <3>1. c \notin Observed /\ Observed' = Observed /\ Observed \subseteq Caller
      BY <2>1, <2>5 DEF Observed
    <3>2. Ask(c, FALSE)
      BY <2>1, <2>5 DEF Ask
    <3>3. UNCHANGED <<configVars, metricVars>>
      BY <3>2 DEF Ask
    <3>4. \A d \in Caller : d # c => asked'[d] = asked[d]
      BY <1>1, <2>3, <3>2, AskKeepsOrder
    <3> QED
      BY <3>1, <3>3, <3>4, MetricsStay
  <2> QED
    BY <2>4, <2>5
<1>7. ASSUME NEW c \in Caller, TurnedAway(c) \/ EntersStealth(c) PROVE MetricsInv'
  BY <1>4, <1>7 DEF TurnedAway, EntersStealth
<1>8. ASSUME NEW c \in Caller, Finishes(c) PROVE MetricsInv'
  BY <1>2, <1>8 DEF Finishes, Done
<1>9. ASSUME NEW c \in Caller, Probes(c) PROVE MetricsInv'
  BY <1>2, <1>9 DEF Probes, engineVars, searchVars
<1>10. ASSUME NEW c \in Caller, EndContext(c) PROVE MetricsInv'
  BY <1>2, <1>10 DEF EndContext, EndOfContext, callerVars
<1>11. ASSUME Signal PROVE MetricsInv'
  BY <1>2, <1>11 DEF Signal, callerVars, engineVars, searchVars
<1>12. ASSUME NEW err, EndProcess(err) PROVE MetricsInv'
  BY <1>2, <1>12 DEF EndProcess
<1>13. ASSUME PassTime PROVE MetricsInv'
  BY <1>2, <1>13 DEF PassTime, callerVars, engineVars, searchVars
<1>14. ASSUME UNCHANGED vars PROVE MetricsInv'
  BY <1>2, <1>14 DEF vars, callerVars, engineVars, searchVars
<1> QED
  BY <1>5, <1>6, <1>7, <1>8, <1>9, <1>10, <1>11, <1>12, <1>13, <1>14, StepShapes
     DEF ShutdownDone, ShutdownTimeout

\* A caller that had a provider answer it and asked another one after it counts
\* among the fallbacks of that provider.
LEMMA MovedOn ==
    ASSUME IsFiniteSet(Caller), EngineTypeOK, SearchInv, NEW p
    PROVE  LET moved == {c \in Observed : \E i \in 1..(Len(asked[c]) - 1) : asked[c][i].provider = p} IN
           /\ Cardinality(moved) \in Nat
           /\ Cardinality(moved) <= Cardinality(FellBack(p))
<1> DEFINE moved == {c \in Observed : \E i \in 1..(Len(asked[c]) - 1) : asked[c][i].provider = p}
           place(c) == CHOOSE i \in 1..(Len(asked[c]) - 1) : asked[c][i].provider = p
           f == [c \in moved |-> <<c, place(c)>>]
<1>1. ASSUME NEW c \in moved PROVE <<c, place(c)>> \in FellBack(p)
  <2>1. c \in Observed /\ c \in Caller /\ Searcher = Caller
    BY ServiceAssumption DEF Observed
  <2>2. place(c) \in 1..(Len(asked[c]) - 1) /\ asked[c][place(c)].provider = p
    OBVIOUS
  <2> HIDE DEF moved, place
  <2>3. PICK i \in 1..(Len(asked[c]) - 1) : i = place(c)
    BY <2>2
  <2>4. AskedFrom(c) /\ asked[c] \in Seq(Reply) /\ Len(asked[c]) \in Nat
    BY <2>1, AskedFacts DEF SearchInv, SearchInvOf
  <2>5. /\ Len(chain) \in Nat /\ EnabledAt \subseteq 1..Len(chain)
        /\ Cardinality(EnabledAt) \in Nat /\ Cardinality(EnabledAt) <= Len(chain)
    BY EnabledFacts
  <2>6. Len(asked[c]) <= Cardinality(EnabledAt) /\ asked[c][i].says # "results"
    BY <2>4 DEF AskedFrom
  <2>7. i \in Nat /\ i >= 1 /\ i < Len(asked[c])
    BY <2>4
  <2>8. i \in 1..Len(asked[c]) /\ i \in 1..Cardinality(EnabledAt) /\ i \in 1..Len(chain)
        /\ i < Cardinality(EnabledAt)
    BY <2>4, <2>5, <2>6, <2>7
  <2>9. asked[c][i] \in Reply
    BY <2>4, <2>8, ElementOfSeq
  <2>10. asked[c][i].says \in ErrorKind
    BY <2>6, <2>9 DEF Reply
  <2>11. <<c, i>> \in Replies(p, ErrorKind)
    <3>1. <<c, i>> \in Pairs
      BY <2>1, <2>8 DEF Pairs
    <3>2. Told(<<c, i>>, p, ErrorKind)
      BY <2>1, <2>2, <2>3, <2>4, <2>7, <2>10 DEF Told
    <3> QED
      BY <3>1, <3>2, RepliesAre
  <2>12. Nth(EnabledAt, i) < Len(chain)
    <3>1. Nth(EnabledAt, i) \in EnabledAt /\ Rank(EnabledAt, Nth(EnabledAt, i)) = i
      BY <2>5, <2>8, NthOf
    <3>2. Rank(EnabledAt, Len(chain)) = Cardinality(EnabledAt)
      BY <2>5, Ranks
    <3>3. Nth(EnabledAt, i) # Len(chain)
      BY <2>5, <2>7, <2>8, <3>1, <3>2
    <3>4. Nth(EnabledAt, i) \in 1..Len(chain)
      BY <2>5, <3>1
    <3> QED
      BY <2>5, <3>3, <3>4
  <2> QED
    BY <2>3, <2>11, <2>12 DEF FellBack
<1>2. f \in Injection(moved, FellBack(p))
  <2>1. f \in [moved -> FellBack(p)]
    BY <1>1
  <2>2. IsInjective(f)
    BY DEF IsInjective
  <2> QED
    BY <2>1, <2>2 DEF Injection
<1>3. IsFiniteSet(FellBack(p))
  BY RepliesFinite
<1> HIDE DEF moved, f
<1>4. IsFiniteSet(moved) /\ Cardinality(moved) <= Cardinality(FellBack(p))
  BY <1>2, <1>3, FS_Injection
<1>5. Cardinality(moved) \in Nat
  BY <1>4, FS_CardinalityType
<1> QED
  BY <1>4, <1>5 DEF moved

\* PrometheusCollector's counters agree with the diagnostics of all searches of
\* a daemon, for any finite number of callers: every answer of a provider is
\* counted once, under what it said, and a failure that was not the chain's last
\* position is a fallback, whether or not another provider was asked after it.
THEOREM CountersAddUp ==
    ASSUME IsFiniteSet(Caller)
    PROVE  Spec => []MetricsAddUp
<1>1. Init => MetricsInv
  <2> SUFFICES ASSUME Init PROVE MetricsInv
    OBVIOUS
  <2>1. Observed = {}
    BY DEF Init, Observed
  <2>2. \A p, kinds : Replies(p, kinds) = {}
    BY <2>1 DEF Replies
  <2>3. \A p, kinds : HowMany(p, kinds) = 0 /\ Cardinality(FellBack(p)) = 0
    BY <2>2, FS_EmptySet DEF HowMany, FellBack
  <2> QED
    BY <2>3 DEF Init, EngineInit, MetricsInv
<1>2. MetricsInv /\ CallerTypeOK /\ EngineTypeOK /\ SearchInv /\ [Next]_vars => MetricsInv'
  BY MetricsSteps
<1>3. EngineTypeOK /\ SearchInv /\ MetricsInv => MetricsAddUp
  <2> SUFFICES ASSUME EngineTypeOK, SearchInv, MetricsInv, NEW p \in Providers
               PROVE  /\ fallbacks[p] <= requests[p].error
                      /\ fallbacks[p] >= Cardinality({c \in Observed : \E i \in 1..(Len(asked[c]) - 1) :
                                                                          asked[c][i].provider = p})
    BY DEF MetricsAddUp, MetricsInv
  <2> DEFINE moved == {c \in Observed : \E i \in 1..(Len(asked[c]) - 1) : asked[c][i].provider = p}
  <2>1. fallbacks[p] = Cardinality(FellBack(p)) /\ requests[p].error = Cardinality(Replies(p, ErrorKind))
    BY DEF MetricsInv, HowMany
  <2>2. Cardinality(moved) \in Nat /\ Cardinality(moved) <= Cardinality(FellBack(p))
    BY MovedOn
  <2> HIDE DEF moved
  <2>3. IsFiniteSet(Replies(p, ErrorKind)) /\ FellBack(p) \in SUBSET Replies(p, ErrorKind)
    BY RepliesFinite DEF FellBack
  <2>4. Cardinality(FellBack(p)) <= Cardinality(Replies(p, ErrorKind))
    BY <2>3, FS_Subset
  <2>5. Cardinality(FellBack(p)) \in Nat
    BY RepliesFinite
  <2>6. fallbacks[p] >= Cardinality(moved)
    BY <2>1, <2>2, <2>5
  <2> QED
    BY <2>1, <2>4, <2>6 DEF moved
<1> QED
  BY <1>1, <1>2, <1>3, SearchAlways, PTL DEF Spec

=============================================================================
