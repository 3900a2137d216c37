--------------------------- MODULE FetchersProofs ---------------------------
(* Theorems about Fetchers and the limiter, breaker and solvers it drives, for  *)
(* every set of callers, every solver chain and every value of the other        *)
(* constants.                                                                   *)
EXTENDS Fetchers, OrderLemmas, SequenceTheorems

----------------------------------------------------------------------------
(* The rate limiter. *)

LEMMA LimiterFacts ==
    /\ Base \in Nat \ {0} /\ MaxDelay \in Nat \ {0}
    /\ Base \div 2 \in Nat
    /\ ShortestGap \in Nat /\ LongestGap \in Nat /\ ShortestGap <= LongestGap
    /\ LongAgo \in Int /\ LongAgo < 0
BY LimiterAssumption DEF LongAgo, ShortestGap, LongestGap, Lesser, Greater

\* What the clamp lets pass, whichever of its bounds is the larger.
LEMMA ClampBounds ==
    ASSUME NEW d \in Int, NEW lo \in Int, NEW hi \in Int
    PROVE  Clamp(d, lo, hi) \in Lesser(lo, hi)..Greater(lo, hi)
BY DEF Clamp, Lesser, Greater

LEMMA GapFacts == ShortestGap \in Nat /\ LongestGap \in Nat
BY LimiterFacts

LEMMA DelayFacts ==
    /\ DelayRange \subseteq Nat \ {0} /\ Base \in DelayRange
    /\ \A d \in DelayRange : d <= Base \/ d <= MaxDelay
    /\ \A d \in DelayRange : \A e \in Base..d : e \in DelayRange
BY LimiterAssumption DEF DelayRange, Lesser, Greater

LEMMA JitterBounds ==
    ASSUME LimiterTypeOK, NEW d \in Jittered
    PROVE  d \in Nat /\ ShortestGap <= d /\ d <= LongestGap
<1>1. PICK e \in Gaussian(current) : d = Clamp(e, Base \div 2, 2 * MaxDelay)
  BY DEF Jittered
<1>2. e \in Int
  <2>1. current \in Int
    BY DelayFacts DEF LimiterTypeOK
  <2> QED
    BY <2>1 DEF Gaussian
<1> QED
  <2>1. d \in ShortestGap..LongestGap
    BY <1>1, <1>2, ClampBounds, LimiterFacts DEF ShortestGap, LongestGap
  <2> QED
    BY <2>1, GapFacts

\* The last slot ahead, abandoned or not, is where the limiter's clock stands.
LimiterInv ==
    /\ SlotsSpaced
    /\ slots = <<>> => lastReq <= 0
    /\ slots # <<>> => lastReq = slots[Len(slots)]

LEMMA SlotType ==
    ASSUME LimiterTypeOK
    PROVE  /\ Len(slots) \in Nat /\ DOMAIN slots = 1..Len(slots)
           /\ \A i \in 1..Len(slots) : slots[i] \in Nat \ {0}
           /\ slots # <<>> <=> Len(slots) > 0
BY LenProperties, EmptySeq, ElementOfSeq DEF LimiterTypeOK

\* The slots that begin now are the first ones.
LEMMA DueFirst ==
    ASSUME LimiterTypeOK, SlotsSpaced
    PROVE  /\ Due \in 0..Len(slots)
           /\ \A i \in 1..Len(slots) : slots[i] = 1 <=> i <= Due
<1> DEFINE D == {i \in DOMAIN slots : slots[i] = 1}
<1>1. ASSUME NEW i \in D, NEW j \in 1..i PROVE j \in D
  <2> DEFINE P == {k \in 0..(i - 1) : slots[i - k] = 1}
  <2>1. i \in 1..Len(slots) /\ i \in Nat /\ i - 1 \in Nat
    BY SlotType
  <2>2. 0 \in P
    BY <2>1
  <2>3. ASSUME NEW k \in 0..((i - 1) - 1), k \in P PROVE k + 1 \in P
    <3>1. i - k \in 1..Len(slots) /\ i - k > 1 /\ (i - k) - 1 \in 1..Len(slots)
          /\ i - (k + 1) = (i - k) - 1 /\ k + 1 \in 0..(i - 1)
      BY <2>1, SlotType
    <3>2. slots[i - k] - slots[(i - k) - 1] >= ShortestGap
      BY <3>1 DEF SlotsSpaced
    <3>3. slots[(i - k) - 1] \in Nat \ {0} /\ slots[i - k] = 1
      BY <3>1, <2>3, SlotType
    <3> QED
      BY <3>1, <3>2, <3>3, GapFacts
  <2>4. \A k \in 0..(i - 1) : k \in P
    <3> HIDE DEF P
    <3> QED
      BY <2>1, <2>2, <2>3, UpTo
  <2>5. i - j \in 0..(i - 1) /\ i - (i - j) = j
    BY <2>1
  <2>6. slots[j] = 1
    BY <2>4, <2>5
  <2>7. j \in DOMAIN slots
    BY <2>1, SlotType
  <2> QED
    BY <2>6, <2>7
<1>2. D \subseteq 1..Len(slots) /\ Len(slots) \in Nat
  BY SlotType
<1>3. Cardinality(D) \in 0..Len(slots) /\ D = 1..Cardinality(D)
  <2> HIDE DEF D
  <2> QED
    BY <1>1, <1>2, Prefix
<1> QED
  BY <1>3, SlotType DEF Due

LEMMA LimiterReserve ==
    ASSUME LimiterTypeOK, LimiterInv, NEW c \in Sleeper, Reserve(c)
    PROVE  LimiterTypeOK' /\ LimiterInv'
<1>1. PICK d \in Jittered :
         LET wait == IF lastReq + d > 0 THEN lastReq + d ELSE 0
         IN /\ lastReq' = wait
            /\ left' = [left EXCEPT ![c] = wait]
            /\ slots' = IF wait > 0 THEN Append(slots, wait) ELSE slots
            /\ UNCHANGED current
  BY DEF Reserve
<1>2. d \in Nat /\ ShortestGap <= d /\ d <= LongestGap /\ lastReq \in Int
  BY JitterBounds DEF LimiterTypeOK
<1>3. CASE lastReq + d > 0
  <2>1. lastReq' \in Nat \ {0} /\ lastReq' = lastReq + d /\ slots' = Append(slots, lastReq')
    BY <1>1, <1>2, <1>3
  <2>2. slots' \in Seq(Nat \ {0}) /\ Len(slots') = Len(slots) + 1
        /\ slots'[Len(slots')] = lastReq' /\ \A i \in 1..Len(slots) : slots'[i] = slots[i]
    BY <2>1, SlotType, AppendProperties DEF LimiterTypeOK
  <2>3. LimiterTypeOK'
    BY <1>1, <1>3, <2>1, <2>2, LimiterFacts DEF LimiterTypeOK
  <2>4. SlotsSpaced'
    <3> SUFFICES ASSUME NEW i \in 1..Len(slots')
                 PROVE  LET before == IF i = 1 THEN 0 ELSE slots'[i - 1]
                        IN /\ i > 1 => slots'[i] - before >= ShortestGap
                           /\ slots'[i] - before <= LongestGap
      BY DEF SlotsSpaced
    <3>1. CASE i <= Len(slots)
      <4>1. i \in 1..Len(slots) /\ slots'[i] = slots[i]
            /\ (i > 1 => i - 1 \in 1..Len(slots) /\ slots'[i - 1] = slots[i - 1])
        BY <2>2, <3>1, SlotType
      <4> QED
        BY <4>1 DEF LimiterInv, SlotsSpaced
    <3>2. CASE i = Len(slots) + 1 /\ slots # <<>>
      <4>1. i - 1 = Len(slots) /\ i > 1 /\ slots'[i - 1] = lastReq
        BY <2>2, <3>2, SlotType DEF LimiterInv
      <4>2. slots'[i] = lastReq + d
        <5>1. i = Len(slots')
          BY <2>2, <3>2
        <5> QED
          BY <2>1, <2>2, <5>1
      <4>3. slots'[i] - slots'[i - 1] = d
        BY <1>2, <4>1, <4>2
      <4> QED
        BY <1>2, <4>1, <4>3
    <3>3. CASE i = Len(slots) + 1 /\ slots = <<>>
      <4>1. i = 1 /\ lastReq <= 0
        BY <3>3, SlotType DEF LimiterInv
      <4> QED
        BY <1>2, <2>1, <2>2, <3>3, <4>1, LimiterFacts
    <3> QED
      BY <2>2, <3>1, <3>2, <3>3, SlotType
  <2>5. slots' # <<>>
    BY <2>2, SlotType
  <2> QED
    BY <2>2, <2>3, <2>4, <2>5 DEF LimiterInv
<1>4. CASE ~(lastReq + d > 0)
  <2>1. lastReq' = 0 /\ slots' = slots /\ left' = [left EXCEPT ![c] = 0] /\ current' = current
    BY <1>1, <1>4
  <2>2. slots = <<>>
    <3>1. slots # <<>> => lastReq \in Nat \ {0}
      BY SlotType DEF LimiterInv
    <3> QED
      BY <1>2, <1>4, <3>1
  <2> QED
    BY <2>1, <2>2, LimiterFacts DEF LimiterTypeOK, LimiterInv, SlotsSpaced
<1> QED
  BY <1>3, <1>4

LEMMA LimiterTicks ==
    ASSUME LimiterTypeOK, LimiterInv, LimiterTick
    PROVE  LimiterTypeOK' /\ LimiterInv'
<1> DEFINE n == Len(slots) - Due
<1>1. Due \in 0..Len(slots) /\ \A i \in 1..Len(slots) : slots[i] = 1 <=> i <= Due
  BY DueFirst DEF LimiterInv
<1>2. n \in Nat /\ Len(slots) \in Nat
  BY <1>1, SlotType
<1>3. slots' = [i \in 1..n |-> slots[i + Due] - 1]
  BY DEF LimiterTick
<1>4. \A i \in 1..n : i + Due \in 1..Len(slots) /\ slots[i + Due] - 1 \in Nat \ {0}
  <2> SUFFICES ASSUME NEW i \in 1..n PROVE i + Due \in 1..Len(slots) /\ slots[i + Due] - 1 \in Nat \ {0}
    OBVIOUS
  <2>1. i + Due \in 1..Len(slots) /\ ~(i + Due <= Due)
    BY <1>1, <1>2
  <2>2. slots[i + Due] \in Nat \ {0, 1}
    BY <1>1, <2>1, SlotType
  <2> QED
    BY <2>1, <2>2
<1> HIDE DEF n
<1>5. slots' \in Seq(Nat \ {0}) /\ Len(slots') = n
  <2>1. slots' \in [1..n -> Nat \ {0}]
    BY <1>3, <1>4
  <2>2. slots' \in Seq(Nat \ {0})
    BY <1>2, <2>1, SeqDef
  <2>3. DOMAIN slots' = 1..n /\ DOMAIN slots' = 1..Len(slots') /\ Len(slots') \in Nat
    BY <2>1, <2>2, LenProperties
  <2> QED
    BY <1>2, <2>2, <2>3
<1>6. LimiterTypeOK'
  <2>1. lastReq' \in Int /\ lastReq' >= LongAgo
    BY LimiterFacts DEF LimiterTick, LimiterTypeOK
  <2>2. left' \in [Sleeper -> Nat]
    BY DEF LimiterTick, LimiterTypeOK
  <2> QED
    BY <1>5, <2>1, <2>2 DEF LimiterTick, LimiterTypeOK
<1>7. SlotsSpaced'
  <2> SUFFICES ASSUME NEW i \in 1..n
               PROVE  LET before == IF i = 1 THEN 0 ELSE slots'[i - 1]
                      IN /\ i > 1 => slots'[i] - before >= ShortestGap
                         /\ slots'[i] - before <= LongestGap
    BY <1>5 DEF SlotsSpaced
  <2>1. slots'[i] = slots[i + Due] - 1 /\ i + Due \in 1..Len(slots) /\ slots[i + Due] \in Nat
    BY <1>3, <1>4, SlotType
  <2>2. CASE i > 1
    <3>1. i - 1 \in 1..n /\ (i - 1) + Due = (i + Due) - 1 /\ i + Due > 1
      BY <1>1, <1>2, <2>2
    <3>2. slots'[i - 1] = slots[(i + Due) - 1] - 1 /\ slots[(i + Due) - 1] \in Nat
      BY <1>3, <1>4, <3>1, SlotType
    <3>3. /\ slots[i + Due] - slots[(i + Due) - 1] >= ShortestGap
          /\ slots[i + Due] - slots[(i + Due) - 1] <= LongestGap
      BY <2>1, <3>1 DEF LimiterInv, SlotsSpaced
    <3> QED
      BY <2>1, <2>2, <3>2, <3>3, LimiterFacts
  <2>3. CASE i = 1 /\ Due = 0
    <3>1. slots[i + Due] <= LongestGap
      BY <2>1, <2>3 DEF LimiterInv, SlotsSpaced
    <3> QED
      BY <2>1, <2>3, <3>1, LimiterFacts
  <2>4. CASE i = 1 /\ Due # 0
    <3>1. i + Due > 1 /\ (i + Due) - 1 = Due /\ Due \in 1..Len(slots) /\ slots[Due] = 1
      BY <1>1, <1>2, <2>4
    <3>2. slots[i + Due] - slots[Due] <= LongestGap
      BY <2>1, <3>1 DEF LimiterInv, SlotsSpaced
    <3> QED
      BY <2>1, <2>4, <3>1, <3>2, LimiterFacts
  <2> QED
    BY <1>2, <2>2, <2>3, <2>4
<1>8. slots' # <<>> => lastReq' = slots'[Len(slots')]
  <2> SUFFICES ASSUME slots' # <<>> PROVE lastReq' = slots'[Len(slots')]
    OBVIOUS
  <2>1. n > 0 /\ n \in 1..n
    BY <1>2, <1>5, EmptySeq
  <2>2. n + Due = Len(slots) /\ slots # <<>>
    BY <1>1, <1>2, <2>1, SlotType DEF n
  <2>3. slots'[n] = slots[Len(slots)] - 1 /\ lastReq = slots[Len(slots)] /\ lastReq \in Nat \ {0}
    BY <1>3, <2>1, <2>2, SlotType DEF LimiterInv
  <2> QED
    <3>1. lastReq' = lastReq - 1
      BY <2>3, LimiterFacts DEF LimiterTick
    <3> QED
      BY <1>5, <2>3, <3>1
<1>9. slots' = <<>> => lastReq' <= 0
  <2> SUFFICES ASSUME slots' = <<>> PROVE lastReq' <= 0
    OBVIOUS
  <2>1. Due = Len(slots)
    BY <1>1, <1>2, <1>5, EmptySeq DEF n
  <2>2. lastReq <= 1 /\ lastReq \in Int
    <3>1. CASE slots = <<>>
      BY <3>1 DEF LimiterInv, LimiterTypeOK
    <3>2. CASE slots # <<>>
      BY <1>1, <2>1, <3>2, SlotType DEF LimiterInv
    <3> QED
      BY <3>1, <3>2
  <2> QED
    BY <2>2, LimiterFacts DEF LimiterTick
<1> QED
  BY <1>6, <1>7, <1>8, <1>9 DEF LimiterInv

LEMMA LimiterOther ==
    ASSUME LimiterTypeOK, LimiterInv, NEW c \in Sleeper,
           GiveUpSlot(c) \/ OnBlock \/ OnSuccess \/ UNCHANGED limiterVars
    PROVE  LimiterTypeOK' /\ LimiterInv'
<1>1. UNCHANGED <<lastReq, slots>>
  BY DEF GiveUpSlot, OnBlock, OnSuccess, limiterVars
<1>2. LimiterInv'
  BY <1>1 DEF LimiterInv, SlotsSpaced
<1>3. current' \in DelayRange
  <2>1. current \in Nat /\ current \in DelayRange
    BY DelayFacts DEF LimiterTypeOK
  <2>2. CASE OnBlock
    BY <2>1, <2>2, ClampBounds, LimiterFacts DEF OnBlock, DelayRange
  <2>3. CASE OnSuccess
    <3>1. (current * 85) \div 100 \in Int /\ (current * 85) \div 100 <= current
      BY <2>1
    <3>2. current' = Base \/ current' \in Base..current
      BY <2>1, <2>3, <3>1, LimiterFacts DEF OnSuccess
    <3> QED
      BY <2>1, <3>2, DelayFacts
  <2> QED
    BY <2>2, <2>3 DEF GiveUpSlot, limiterVars, LimiterTypeOK
<1>4. left' \in [Sleeper -> Nat]
  BY DEF GiveUpSlot, OnBlock, OnSuccess, limiterVars, LimiterTypeOK
<1> QED
  BY <1>1, <1>2, <1>3, <1>4 DEF LimiterTypeOK

----------------------------------------------------------------------------
(* The solvers. *)

\* Each question for a result is a whole interval after the one before, and none
\* but the last comes after the deadline.
PollInv(c) ==
    /\ polls[c] <= PollBound
    /\ phase[c] = "nap" =>
          /\ polls[c] * PollInterval <= PollTimeout
          /\ deadline[c] >= 0 =>
                polls[c] * PollInterval + (PollInterval - nap[c]) <= PollTimeout - deadline[c]
    /\ phase[c] = "poll" =>
          /\ deadline[c] >= 0 => polls[c] * PollInterval <= PollTimeout - deadline[c]
SolverInv == \A c \in Solver : PollInv(c)

LEMMA SolverFacts ==
    /\ PollInterval \in Nat \ {0} /\ PollTimeout \in Nat
    /\ PollBound \in Nat /\ Len(Chain) \in Nat /\ BlockPage # {} /\ AnyPage \in BlockPage
<1>1. Len(Chain) \in Nat
  BY SolverAssumption, LenProperties
<1>2. PollTimeout \div PollInterval \in Nat
  BY SolverAssumption
<1> QED
  BY <1>1, <1>2, SolverAssumption DEF PollBound, AnyPage

\* A question that comes after at most the timeout is within the bound.
LEMMA PollQuotient ==
    ASSUME NEW n \in Nat, n * PollInterval <= PollTimeout
    PROVE  n + 1 <= PollBound
<1> DEFINE q == PollTimeout \div PollInterval
<1>1. q \in Nat /\ PollTimeout < (q + 1) * PollInterval
  BY SolverFacts
<1>2. n <= q
  <2> SUFFICES ASSUME ~(n <= q) PROVE FALSE
    OBVIOUS
  <2> HIDE DEF q
  <2>1. n >= q + 1
    BY <1>1
  <2>2. n * PollInterval >= (q + 1) * PollInterval
    BY <1>1, <2>1, SolverFacts
  <2>3. n * PollInterval \in Nat /\ (q + 1) * PollInterval \in Nat
    BY <1>1, SolverFacts
  <2> QED
    BY <1>1, <2>2, <2>3, SolverFacts
<1> QED
  BY <1>1, <1>2 DEF PollBound

LEMMA NextSolverType ==
    ASSUME SolverTypeOK, NEW c \in Solver, NEW i \in Nat, NEW b, NextSolver(c, i, b)
    PROVE  /\ phase' \in [Solver -> Phase] /\ at' \in [Solver -> 0..Len(Chain)]
           /\ phase' \in {[phase EXCEPT ![c] = "failed"], [phase EXCEPT ![c] = "submit"]}
<1> DEFINE able == {j \in (i + 1)..Len(Chain) : Supports(Chain[j], b.signal)}
<1>1. CASE able = {}
  <2>1. phase' = [phase EXCEPT ![c] = "failed"] /\ at' = [at EXCEPT ![c] = 0]
    BY <1>1 DEF NextSolver, GoOn
  <2> HIDE DEF able
  <2> QED
    BY <2>1, SolverFacts DEF SolverTypeOK, Phase
<1>2. CASE able # {}
  <2>1. able \subseteq Nat /\ able \subseteq 0..Len(Chain)
    BY SolverFacts
  <2>2. Min(able) \in able
    <3> HIDE DEF able
    <3>1. \E x \in able : \A y \in able : x <= y
      BY <1>2, <2>1, LeastNat
    <3> QED
      BY <3>1 DEF Min
  <2>3. phase' = [phase EXCEPT ![c] = "submit"] /\ at' = [at EXCEPT ![c] = Min(able)]
    BY <1>2 DEF NextSolver, GoOn
  <2> HIDE DEF able
  <2> QED
    BY <2>1, <2>2, <2>3 DEF SolverTypeOK, Phase
<1> QED
  BY <1>1, <1>2

\* What a step of one caller's Solve leaves alone in another's.
SolveKept(d) ==
    /\ phase'[d] = phase[d] /\ deadline'[d] = deadline[d]
    /\ nap'[d] = nap[d] /\ polls'[d] = polls[d]

\* The polls of c are as they were, and it does not wait for one.
LEMMA PollsLeft ==
    ASSUME NEW c \in Solver, PollInv(c),
           polls'[c] = polls[c], phase'[c] \notin {"nap", "poll"}
    PROVE  PollInv(c)'
BY DEF PollInv, PollBound

LEMMA SolverStepInv ==
    ASSUME SolverTypeOK, SolverInv, NEW c \in Solver, NEW ended, NEW b \in BlockPage,
           SolveStep(c, ended) \/ StartSolve(c, b) \/ EndSolve(c)
    PROVE  SolverTypeOK' /\ SolverInv'
<1>1. ASSUME SolverTypeOK', PollInv(c)', \A d \in Solver \ {c} : SolveKept(d)
      PROVE  SolverTypeOK' /\ SolverInv'
  BY <1>1 DEF SolverInv, PollInv, SolveKept, PollBound
<1>2. PollInv(c) /\ at[c] \in Nat
  BY SolverFacts DEF SolverInv, SolverTypeOK
<1>3. ASSUME SolverFails(c), nap' \in {nap, [nap EXCEPT ![c] = 0]}
      PROVE  SolverTypeOK' /\ SolverInv'
  <2>1. /\ phase' \in [Solver -> Phase] /\ at' \in [Solver -> 0..Len(Chain)]
        /\ phase' \in {[phase EXCEPT ![c] = "failed"], [phase EXCEPT ![c] = "submit"]}
        /\ UNCHANGED <<block, deadline, polls>>
    BY <1>2, <1>3, NextSolverType DEF SolverFails
  <2>2. nap' \in [Solver -> 0..PollInterval]
    <3>1. nap \in [Solver -> 0..PollInterval] /\ 0 \in 0..PollInterval
      BY SolverFacts DEF SolverTypeOK
    <3>2. [nap EXCEPT ![c] = 0] \in [Solver -> 0..PollInterval]
      BY <3>1
    <3> QED
      BY <1>3, <3>1, <3>2
  <2>3. SolverTypeOK'
    BY <2>1, <2>2 DEF SolverTypeOK
  <2>4. PollInv(c)'
    BY <1>2, <2>1, PollsLeft DEF SolverTypeOK
  <2> QED
    BY <1>1, <1>3, <2>1, <2>3, <2>4 DEF SolveKept, SolverTypeOK
<1>4. CASE Refused(c) \/ NapCut(c) \/ PollFails(c)
  BY <1>3, <1>4 DEF Refused, NapCut, PollFails
<1>5. CASE NapOver(c)
  <2>1. /\ phase[c] = "nap" /\ nap[c] = 0 /\ phase' = [phase EXCEPT ![c] = "poll"]
        /\ UNCHANGED <<at, block, deadline, nap>>
    BY <1>5 DEF NapOver, In, GoOn
  <2>2. polls[c] \in Nat /\ polls[c] * PollInterval <= PollTimeout
    BY <1>2, <2>1 DEF PollInv, SolverTypeOK
  <2>3. polls[c] + 1 <= PollBound
    BY <2>2, PollQuotient
  <2>4. polls' = [polls EXCEPT ![c] = polls[c] + 1]
    <3>1. ~(polls[c] > PollBound)
      BY <2>2, <2>3, SolverFacts
    <3> QED
      BY <1>5, <3>1 DEF NapOver
  <2>5. SolverTypeOK'
    BY <2>1, <2>4 DEF SolverTypeOK, Phase
  <2>6. (polls[c] + 1) * PollInterval = polls[c] * PollInterval + PollInterval
    BY <2>2, SolverFacts
  <2>7. deadline[c] >= 0 => (polls[c] + 1) * PollInterval <= PollTimeout - deadline[c]
    <3>1. deadline[c] >= 0 =>
             polls[c] * PollInterval + (PollInterval - 0) <= PollTimeout - deadline[c]
      BY <1>2, <2>1 DEF PollInv
    <3>2. polls[c] * PollInterval \in Nat /\ deadline[c] \in Int
      BY <2>2, SolverFacts DEF SolverTypeOK
    <3> QED
      BY <2>6, <3>1, <3>2, SolverFacts
  <2>8. PollInv(c)'
    <3>1. /\ polls'[c] = polls[c] + 1 /\ phase'[c] = "poll" /\ deadline'[c] = deadline[c]
      BY <2>1, <2>4 DEF SolverTypeOK
    <3> QED
      BY <2>3, <2>7, <3>1 DEF PollInv, PollBound
  <2> QED
    BY <1>1, <2>1, <2>4, <2>5, <2>8 DEF SolveKept, SolverTypeOK
<1>6. CASE Submit(c)
  <2>1. /\ phase' = [phase EXCEPT ![c] = "nap"] /\ nap' = [nap EXCEPT ![c] = PollInterval]
        /\ deadline' = [deadline EXCEPT ![c] = PollTimeout] /\ polls' = [polls EXCEPT ![c] = 0]
        /\ UNCHANGED <<at, block>>
    BY <1>6 DEF Submit, StartPolling, Poll, GoOn
  <2>2. SolverTypeOK'
    BY <2>1, SolverFacts DEF SolverTypeOK, Phase
  <2>3. PollInv(c)'
    <3>1. /\ polls'[c] = 0 /\ phase'[c] = "nap" /\ deadline'[c] = PollTimeout
          /\ nap'[c] = PollInterval
      BY <2>1 DEF SolverTypeOK
    <3> QED
      BY <3>1, SolverFacts DEF PollInv, PollBound
  <2> QED
    BY <1>1, <2>1, <2>2, <2>3 DEF SolveKept, SolverTypeOK
<1>7. CASE FlareSolverrSolve(c) \/ HasResult(c)
  <2>1. /\ phase' = [phase EXCEPT ![c] = "solved"]
        /\ UNCHANGED <<at, block, deadline, nap, polls>>
    BY <1>7 DEF FlareSolverrSolve, HasResult, GoOn
  <2>2. SolverTypeOK' /\ PollInv(c)'
    BY <1>2, <2>1, PollsLeft DEF SolverTypeOK, Phase
  <2> QED
    BY <1>1, <2>1, <2>2 DEF SolveKept, SolverTypeOK
<1>8. CASE Result(c)
  <2>1. CASE TooLate(c) /\ NotReady(c)
    BY <1>3, <2>1 DEF NotReady
  <2>2. CASE ~TooLate(c) /\ NotReady(c)
    <3>1. /\ phase[c] = "poll" /\ ~(deadline[c] < 0)
          /\ phase' = [phase EXCEPT ![c] = "nap"] /\ nap' = [nap EXCEPT ![c] = PollInterval]
          /\ UNCHANGED <<at, block, deadline, polls>>
      BY <1>8, <2>2 DEF Result, In, NotReady, TooLate, Poll, GoOn
    <3>2. SolverTypeOK'
      BY <3>1, SolverFacts DEF SolverTypeOK, Phase
    <3>3. PollInv(c)'
      <4>1. /\ polls'[c] = polls[c] /\ phase'[c] = "nap" /\ deadline'[c] = deadline[c]
            /\ nap'[c] = PollInterval
        BY <3>1 DEF SolverTypeOK
      <4>2. /\ deadline[c] \in Nat /\ deadline[c] <= PollTimeout /\ polls[c] \in Nat
            /\ polls[c] * PollInterval \in Nat
        BY <3>1, SolverFacts DEF SolverTypeOK
      <4>3. polls[c] * PollInterval <= PollTimeout - deadline[c]
        BY <1>2, <3>1, <4>2 DEF PollInv
      <4>4. /\ polls[c] * PollInterval <= PollTimeout
            /\ polls[c] * PollInterval + (PollInterval - PollInterval) <= PollTimeout - deadline[c]
        BY <4>2, <4>3, SolverFacts
      <4> QED
        BY <1>2, <4>1, <4>4 DEF PollInv, PollBound
    <3> QED
      BY <1>1, <3>1, <3>2, <3>3 DEF SolveKept, SolverTypeOK
  <2>3. CASE HasResult(c)
    BY <1>7, <2>3
  <2> QED
    BY <1>8, <2>1, <2>2, <2>3 DEF Result
<1>9. CASE StartSolve(c, b)
  <2>1. /\ phase' \in [Solver -> Phase] /\ at' \in [Solver -> 0..Len(Chain)]
        /\ phase' \in {[phase EXCEPT ![c] = "failed"], [phase EXCEPT ![c] = "submit"]}
        /\ UNCHANGED <<deadline, nap, polls>> /\ block' = [block EXCEPT ![c] = b]
    BY <1>9, NextSolverType DEF StartSolve
  <2>2. SolverTypeOK' /\ PollInv(c)'
    BY <1>2, <2>1, PollsLeft DEF SolverTypeOK
  <2> QED
    BY <1>1, <2>1, <2>2 DEF SolveKept, SolverTypeOK
<1>10. CASE EndSolve(c)
  <2>1. SolverTypeOK'
    BY <1>10, SolverFacts DEF EndSolve, GoOn, SolverTypeOK, Phase
  <2>2. polls'[c] = 0 /\ phase'[c] = "none"
    BY <1>10 DEF EndSolve, GoOn, SolverTypeOK
  <2>3. PollInv(c)'
    BY <2>2, SolverFacts DEF PollInv, PollBound
  <2> QED
    BY <1>1, <1>10, <2>1, <2>3 DEF EndSolve, GoOn, SolveKept, SolverTypeOK
<1> QED
  BY <1>4, <1>5, <1>6, <1>7, <1>8, <1>9, <1>10 DEF SolveStep

LEMMA SolverTicks ==
    ASSUME SolverTypeOK, SolverInv, SolverTick
    PROVE  SolverTypeOK' /\ SolverInv'
<1>1. SolverTypeOK'
  <2>1. deadline' \in [Solver -> -1..PollTimeout] /\ nap' \in [Solver -> 0..PollInterval]
    BY SolverFacts DEF SolverTick, SolverTypeOK
  <2> QED
    BY <2>1 DEF SolverTick, SolverTypeOK
<1>2. ASSUME NEW c \in Solver PROVE PollInv(c)'
  <2>1. PollInv(c) /\ polls'[c] = polls[c] /\ phase'[c] = phase[c]
    BY DEF SolverInv, SolverTick
  <2>2. /\ deadline[c] \in Int /\ nap[c] \in Nat /\ polls[c] \in Nat
        /\ polls[c] * PollInterval \in Nat
    BY SolverFacts DEF SolverTypeOK
  <2>3. nap'[c] = IF nap[c] > 0 THEN nap[c] - 1 ELSE 0
    BY DEF SolverTick
  <2>4. phase[c] \in {"nap", "poll"} =>
           deadline'[c] = IF deadline[c] >= 0 THEN deadline[c] - 1 ELSE deadline[c]
    BY DEF SolverTick
  <2> DEFINE e == polls[c] * PollInterval
  <2>7. e \in Nat
    BY <2>2
  <2>5. CASE phase[c] = "nap"
    <3>1. e <= PollTimeout /\
          (deadline[c] >= 0 => e + (PollInterval - nap[c]) <= PollTimeout - deadline[c])
      BY <2>1, <2>5 DEF PollInv
    <3>2. deadline'[c] >= 0 => e + (PollInterval - nap'[c]) <= PollTimeout - deadline'[c]
      <4> SUFFICES ASSUME deadline'[c] >= 0
                   PROVE  e + (PollInterval - nap'[c]) <= PollTimeout - deadline'[c]
        OBVIOUS
      <4>1. deadline[c] >= 0 /\ deadline'[c] = deadline[c] - 1
        BY <2>2, <2>4, <2>5
      <4>2. nap'[c] \in Nat /\ nap'[c] >= nap[c] - 1
        BY <2>2, <2>3
      <4>3. deadline[c] \in Int /\ nap[c] \in Nat
        BY <2>2
      <4>4. e + (PollInterval - nap[c]) <= PollTimeout - deadline[c]
        BY <3>1, <4>1
      <4> HIDE DEF e
      <4>5. QED
        <5>1. e \in Int /\ PollInterval \in Int /\ PollTimeout \in Int
          BY <2>7, SolverFacts
        <5>2. PollInterval - nap'[c] <= (PollInterval - nap[c]) + 1
          BY <4>2, <4>3, <5>1
        <5>3. e + (PollInterval - nap'[c]) <= e + ((PollInterval - nap[c]) + 1)
          BY <4>2, <4>3, <5>1, <5>2
        <5>4. e + ((PollInterval - nap[c]) + 1) <= (PollTimeout - deadline[c]) + 1
          BY <4>2, <4>3, <4>4, <5>1
        <5>5. (PollTimeout - deadline[c]) + 1 = PollTimeout - deadline'[c]
          BY <4>1, <4>3, <5>1
        <5> QED
          BY <4>1, <4>2, <4>3, <5>1, <5>3, <5>4, <5>5
    <3> QED
      BY <2>1, <2>5, <3>1, <3>2 DEF PollInv, PollBound
  <2>6. CASE phase[c] = "poll"
    <3>1. deadline[c] >= 0 => e <= PollTimeout - deadline[c]
      BY <2>1, <2>6 DEF PollInv
    <3>2. deadline'[c] >= 0 => e <= PollTimeout - deadline'[c]
      BY <2>2, <2>4, <2>6, <3>1, SolverFacts
    <3> QED
      BY <2>1, <2>6, <3>2 DEF PollInv, PollBound
  <2> QED
    BY <2>1, <2>5, <2>6, PollsLeft
<1> QED
  BY <1>1, <1>2 DEF SolverInv

LEMMA SolverKept ==
    ASSUME SolverTypeOK, SolverInv, UNCHANGED solverVars
    PROVE  SolverTypeOK' /\ SolverInv'
BY DEF SolverTypeOK, SolverInv, PollInv, PollBound, solverVars

----------------------------------------------------------------------------
(* Types, with the invariants of the limiter and of the solvers. *)

\* Everything but the limiter, the breaker and the solvers.
CallTypeOK ==
    /\ pc \in [Caller -> PC]
    /\ layer \in [Caller -> {"browser", "http"}]
    /\ mayRetry \in [Caller -> BOOLEAN]
    /\ ctxDone \in [Caller -> BOOLEAN]
    /\ page \in [Caller -> {"none", "live", "dead"}]
    /\ browser \in BOOLEAN /\ closing \in BOOLEAN /\ warm \in BOOLEAN
    /\ fetches \in [Caller -> 0..MaxFetches]
    /\ sent \in [Caller -> Nat] /\ sentOpen \in [Caller -> Nat]

Inv == CallTypeOK /\ LimiterTypeOK /\ BreakerTypeOK /\ SolverTypeOK /\ LimiterInv /\ SolverInv

LEMMA InvInit == Init => Inv
<1> SUFFICES ASSUME Init PROVE Inv
  OBVIOUS
<1>1. CallTypeOK
  <2>1. fetches \in [Caller -> 0..MaxFetches]
    BY FetcherAssumption DEF Init
  <2>2. browser \in BOOLEAN /\ closing \in BOOLEAN /\ warm \in BOOLEAN
        /\ ctxDone \in [Caller -> BOOLEAN] /\ mayRetry \in [Caller -> BOOLEAN]
    BY DEF Init
  <2>3. /\ pc \in [Caller -> PC] /\ layer \in [Caller -> {"browser", "http"}]
        /\ page \in [Caller -> {"none", "live", "dead"}]
        /\ sent \in [Caller -> Nat] /\ sentOpen \in [Caller -> Nat]
    BY DEF Init, PC
  <2> QED
    BY <2>1, <2>2, <2>3 DEF CallTypeOK
<1>2. LimiterTypeOK /\ LimiterInv
  <2>1. slots = <<>> /\ <<>> \in Seq(Nat \ {0}) /\ Len(<<>>) = 0
    BY EmptySeq DEF Init, LimiterInit
  <2>2. /\ current = Base /\ lastReq = LongAgo /\ left \in [Sleeper -> Nat]
    BY DEF Init, LimiterInit
  <2> QED
    BY <2>1, <2>2, LimiterFacts, DelayFacts DEF LimiterTypeOK, LimiterInv, SlotsSpaced
<1>3. BreakerTypeOK
  BY BreakerAssumption DEF Init, BreakerInit, BreakerTypeOK
<1>4. SolverTypeOK /\ SolverInv
  <2> USE DEF Init, SolverInit
  <2>1. SolverTypeOK
    BY SolverFacts DEF SolverTypeOK, Phase
  <2>2. SolverInv
    BY SolverFacts DEF SolverInv, PollInv
  <2> QED
    BY <2>1, <2>2
<1> QED
  BY <1>1, <1>2, <1>3, <1>4 DEF Inv

\* What a step of a call may do to the limiter, the breaker and the solvers.
LEMMA Parts ==
    ASSUME NEW c \in Caller, Step(c) \/ LaunchStep(c) \/ PageStep(c)
    PROVE  /\ Reserve(c) \/ GiveUpSlot(c) \/ OnBlock \/ OnSuccess \/ UNCHANGED limiterVars
           /\ RecordSuccess \/ RecordBlock \/ UNCHANGED breakerVars
           /\ \/ SolveStep(c, ctxDone[c]) \/ EndSolve(c) \/ UNCHANGED solverVars
              \/ \E b \in BlockPage : StartSolve(c, b)
<1>1. CASE Gate(c) \/ Wait(c) \/ WaitCut(c) \/ EnsureBrowser(c) \/ SkipWarmup(c) \/ WarmupGET(c)
           \/ WarmupAgain(c) \/ DoFails(c) \/ DoBlocked(c) \/ DoSucceeds(c) \/ LaunchStep(c) \/ PageStep(c)
  BY <1>1 DEF LaunchStep, LaunchSucceeds, LaunchFails, Gate, Wait, WaitCut, EnsureBrowser, SkipWarmup, WarmupGET, WarmupAgain,
     DoFails, DoBlocked, DoSucceeds, PageStep, PageFails, PageBlocked, PageLoads
<1>2. CASE Reset(c) \/ Count(c) \/ Invalidate(c) \/ Solve(c) \/ Solved(c) \/ NotSolved(c)
  BY <1>2 DEF Reset, Count, Invalidate, SolveOrReturn, Solve, Solved, NotSolved
<1> QED
  BY <1>1, <1>2 DEF Step

LEMMA CountSentType ==
    ASSUME CallTypeOK, NEW c \in Caller, CountSent(c)
    PROVE  sent' \in [Caller -> Nat] /\ sentOpen' \in [Caller -> Nat] /\ fetches' = fetches
BY DEF CallTypeOK, CountSent

LEMMA MoveType ==
    ASSUME CallTypeOK, NEW c \in Caller,
           \/ \E s \in PC : Goto(c, s) \/ LeavePage(c, s)
           \/ Return(c) \/ FallBack(c) \/ FetchAgain(c)
    PROVE  /\ pc' \in [Caller -> PC] /\ layer' \in [Caller -> {"browser", "http"}]
           /\ mayRetry' \in [Caller -> BOOLEAN]
           /\ page' \in [Caller -> {"none", "live", "dead"}]
<1>1. CASE \E s \in PC : Goto(c, s) \/ LeavePage(c, s)
  BY <1>1 DEF CallTypeOK, Goto, LeavePage
<1>2. CASE Return(c) \/ FallBack(c) \/ FetchAgain(c)
  <2>1. "idle" \in PC /\ "gate" \in PC
    BY DEF PC
  <2>2. CASE Return(c) BY <2>1, <2>2 DEF CallTypeOK, Return
  <2>3. CASE FallBack(c) BY <2>1, <2>3 DEF CallTypeOK, FallBack
  <2>4. CASE FetchAgain(c) BY <2>1, <2>4 DEF CallTypeOK, FetchAgain
  <2> QED
    BY <1>2, <2>2, <2>3, <2>4
<1> QED
  BY <1>1, <1>2

LEMMA OpenPageType ==
    ASSUME CallTypeOK, NEW c \in Caller, OpenPage(c)
    PROVE  /\ pc' \in [Caller -> PC] /\ layer' \in [Caller -> {"browser", "http"}]
           /\ mayRetry' \in [Caller -> BOOLEAN]
           /\ page' \in [Caller -> {"none", "live", "dead"}]
           /\ sent' \in [Caller -> Nat] /\ sentOpen' \in [Caller -> Nat] /\ fetches' = fetches
BY CountSentType DEF CallTypeOK, PC, OpenPage

LEMMA StepCallType ==
    ASSUME CallTypeOK, NEW c \in Caller, Step(c) \/ LaunchStep(c) \/ PageStep(c)
    PROVE  CallTypeOK'
<1> USE DEF countVars, mutexVars
<1>1. CASE Gate(c)
  <2>1. Return(c) \/ Goto(c, "wait")
    BY <1>1 DEF Gate, CheckOpen
  <2> QED
    BY <1>1, <2>1, MoveType DEF Gate, CallTypeOK, PC
<1>2. CASE Wait(c) \/ WaitCut(c)
  <2>1. Goto(c, "sleep") \/ Return(c)
    BY <1>2 DEF Wait, WaitCut
  <2> QED
    BY <1>2, <2>1, MoveType DEF Wait, WaitCut, CallTypeOK, PC
<1>3. CASE EnsureBrowser(c)
  <2>1. CASE browser
    BY <1>3, <2>1, OpenPageType DEF EnsureBrowser, CallTypeOK
  <2>2. CASE ~browser
    BY <1>3, <2>2, MoveType DEF EnsureBrowser, CallTypeOK, PC
  <2> QED
    BY <2>1, <2>2
<1>11. CASE LaunchStep(c)
  <2>1. CASE LaunchSucceeds(c)
    BY <2>1, OpenPageType DEF LaunchSucceeds, CallTypeOK
  <2>2. CASE LaunchFails(c)
    BY <2>2, MoveType DEF LaunchFails, CallTypeOK
  <2> QED
    BY <1>11, <2>1, <2>2 DEF LaunchStep
<1>4. CASE SkipWarmup(c) \/ WarmupGET(c) \/ WarmupAgain(c)
  <2>1. \E s \in PC : Goto(c, s)
    BY <1>4 DEF SkipWarmup, WarmupGET, WarmupAgain, PC
  <2> QED
    BY <1>4, <2>1, MoveType DEF SkipWarmup, WarmupGET, WarmupAgain, CallTypeOK
<1>5. CASE DoFails(c) \/ DoBlocked(c) \/ DoSucceeds(c)
  <2>1. Return(c) \/ \E s \in PC : Goto(c, s)
    BY <1>5 DEF DoFails, DoBlocked, DoSucceeds, PC
  <2>2. CountSent(c) /\ UNCHANGED <<ctxDone, mutexVars, warm>>
    BY <1>5 DEF DoFails, DoBlocked, DoSucceeds
  <2> QED
    BY <2>1, <2>2, MoveType, CountSentType DEF CallTypeOK
<1>6. CASE PageStep(c)
  <2>1. FallBack(c) \/ \E s \in PC : LeavePage(c, s)
    BY <1>6 DEF PageStep, PageFails, PageBlocked, PageLoads, PC
  <2>2. UNCHANGED <<ctxDone, mutexVars, warm, countVars>>
    BY <1>6 DEF PageStep, PageFails, PageBlocked, PageLoads
  <2> QED
    BY <2>1, <2>2, MoveType DEF CallTypeOK
<1>7. CASE Reset(c)
  BY <1>7, MoveType DEF Reset, NobodySent, CallTypeOK
<1>8. CASE Count(c) \/ Invalidate(c)
  <2>1. Return(c) \/ \E s \in PC : Goto(c, s)
    BY <1>8 DEF Count, Invalidate, SolveOrReturn, PC
  <2>2. UNCHANGED <<ctxDone, mutexVars, countVars>> /\ warm' \in BOOLEAN
    BY <1>8 DEF Count, Invalidate, CallTypeOK
  <2> QED
    BY <2>1, <2>2, MoveType DEF CallTypeOK
<1>9. CASE Solve(c)
  BY <1>9 DEF Solve, callVars, CallTypeOK
<1>10. CASE Solved(c) \/ NotSolved(c)
  <2>1. FetchAgain(c) \/ FallBack(c) \/ Return(c)
    BY <1>10 DEF Solved, NotSolved
  <2>2. UNCHANGED <<ctxDone, mutexVars, warm, countVars>>
    BY <1>10 DEF Solved, NotSolved
  <2> QED
    BY <2>1, <2>2, MoveType DEF CallTypeOK
<1> QED
  BY <1>1, <1>2, <1>3, <1>4, <1>5, <1>6, <1>7, <1>8, <1>9, <1>10, <1>11 DEF Step

LEMMA BreakerType ==
    ASSUME BreakerTypeOK, RecordSuccess \/ RecordBlock \/ Tick \/ UNCHANGED breakerVars
    PROVE  BreakerTypeOK'
BY BreakerAssumption
DEF BreakerTypeOK, RecordSuccess, RecordBlock, Tick, IsOpen, breakerVars

LEMMA InvStep == Inv /\ [Next]_vars => Inv'
<1> SUFFICES ASSUME Inv, [Next]_vars PROVE Inv'
  OBVIOUS
<1> USE DEF Inv
<1>1. ASSUME NEW c \in Caller, Step(c) \/ LaunchStep(c) \/ PageStep(c) PROVE Inv'
  <2>1. CallTypeOK'
    BY <1>1, StepCallType
  <2>2. LimiterTypeOK' /\ LimiterInv'
    BY <1>1, Parts, LimiterReserve, LimiterOther, FetcherAssumption
  <2>3. BreakerTypeOK'
    BY <1>1, Parts, BreakerType
  <2>4. SolverTypeOK' /\ SolverInv'
    BY <1>1, Parts, SolverStepInv, SolverKept, SolverFacts, FetcherAssumption
  <2> QED
    BY <2>1, <2>2, <2>3, <2>4
<1>2. ASSUME UNCHANGED <<limiterVars, breakerVars, solverVars>>, CallTypeOK', NEW c \in Caller
      PROVE  Inv'
  BY <1>2, LimiterOther, BreakerType, SolverKept, FetcherAssumption
<1>3. ASSUME NEW c \in Caller, FetchDynamic(c) PROVE Inv'
  <2>1. fetches' \in [Caller -> 0..MaxFetches] /\ sent' \in [Caller -> Nat]
        /\ ctxDone' \in [Caller -> BOOLEAN]
    BY <1>3, FetcherAssumption DEF FetchDynamic, CallTypeOK
  <2>2. CallTypeOK'
    BY <1>3, <2>1, MoveType DEF FetchDynamic, mutexVars, CallTypeOK, PC
  <2> QED
    BY <1>2, <1>3, <2>2 DEF FetchDynamic
<1>4. ASSUME NEW c \in Caller, EndContext(c) PROVE Inv'
  <2>1. CallTypeOK'
    BY <1>4 DEF EndContext, callVars, countVars, mutexVars, CallTypeOK
  <2> QED
    BY <1>2, <1>4, <2>1 DEF EndContext
<1>5. ASSUME CallTypeOK', UNCHANGED <<limiterVars, breakerVars, solverVars>> PROVE Inv'
  <2>1. LimiterTypeOK' /\ LimiterInv'
    BY <1>5 DEF limiterVars, LimiterTypeOK, LimiterInv, SlotsSpaced
  <2> QED
    BY <1>5, <2>1, BreakerType, SolverKept
<1>6. CASE Close \/ Closed
  <2>1. CallTypeOK'
    BY <1>6 DEF Close, Closed, callVars, countVars, CallTypeOK
  <2> QED
    BY <1>5, <1>6, <2>1 DEF Close, Closed
<1>7. CASE PassTime
  <2>1. CallTypeOK'
    BY <1>7 DEF PassTime, NobodySent, callVars, mutexVars, CallTypeOK
  <2> QED
    BY <1>7, <2>1, LimiterTicks, BreakerType, SolverTicks DEF PassTime
<1>8. CASE UNCHANGED vars
  <2>1. CallTypeOK'
    BY <1>8 DEF vars, callVars, countVars, mutexVars, CallTypeOK
  <2> QED
    BY <1>5, <1>8, <2>1 DEF vars
<1> QED
  BY <1>1, <1>3, <1>4, <1>6, <1>7, <1>8 DEF Next

LEMMA Invariant == Spec => []Inv
<1> QED
  BY InvInit, InvStep, PTL DEF Spec

\* The state of every fetch, of the limiter, the breaker and the solvers has its
\* type, with any number of callers and any chain.
THEOREM TypeCorrect == Spec => []TypeOK
<1>1. Inv => TypeOK
  BY DEF Inv, CallTypeOK, TypeOK
<1> QED
  BY <1>1, Invariant, PTL

\* In whatever order callers reserve, give up and wake, and whichever of the base and
\* the maximum is larger, slots stay apart by the shortest gap that Wait draws and
\* within the longest.
THEOREM SlotsStaySpaced == Spec => []SlotsSpaced
<1>1. Inv => SlotsSpaced
  BY DEF Inv, LimiterInv
<1> QED
  BY <1>1, Invariant, PTL

\* No sleeper wakes after the last slot, so the next one to reserve wakes later than
\* all of them.
SleeperInv == SleepersApart /\ \A c \in Sleeper : left[c] > 0 => left[c] <= lastReq

LEMMA SleeperReserve ==
    ASSUME LimiterTypeOK, SleeperInv, NEW c \in Sleeper, Reserve(c)
    PROVE  SleeperInv'
<1>1. PICK d \in Jittered :
         LET wait == IF lastReq + d > 0 THEN lastReq + d ELSE 0
         IN /\ lastReq' = wait
            /\ left' = [left EXCEPT ![c] = wait]
  BY DEF Reserve
<1>2. d \in Nat /\ ShortestGap <= d /\ lastReq \in Int
  BY JitterBounds DEF LimiterTypeOK
<1>3. /\ left \in [Sleeper -> Nat] /\ lastReq' \in Nat /\ left'[c] = lastReq'
      /\ \A e \in Sleeper : e # c => left'[e] = left[e]
  BY <1>1, <1>2 DEF LimiterTypeOK
<1>4. ASSUME NEW e \in Sleeper, e # c, left[e] > 0
      PROVE  lastReq' - left[e] >= ShortestGap /\ left[e] <= lastReq'
  <2>1. left[e] \in Nat /\ left[e] <= lastReq
    BY <1>3, <1>4 DEF SleeperInv
  <2>2. lastReq + d > 0 /\ lastReq' = lastReq + d
    BY <1>1, <1>2, <1>4, <2>1
  <2> QED
    BY <1>2, <2>1, <2>2, LimiterFacts
<1>5. SleepersApart'
  BY <1>3, <1>4 DEF SleeperInv, SleepersApart
<1> QED
  BY <1>3, <1>4, <1>5 DEF SleeperInv

LEMMA SleeperTick ==
    ASSUME LimiterTypeOK, SleeperInv, LimiterTick
    PROVE  SleeperInv'
<1>1. \A c \in Sleeper : left'[c] > 0 => left[c] \in Nat /\ left[c] > 1 /\ left'[c] = left[c] - 1
  BY DEF LimiterTick, LimiterTypeOK
<1>2. SleepersApart'
  BY <1>1, LimiterFacts DEF SleeperInv, SleepersApart
<1>3. ASSUME NEW c \in Sleeper, left'[c] > 0 PROVE left'[c] <= lastReq'
  <2>1. left[c] <= lastReq /\ left[c] > 1 /\ left[c] \in Nat /\ lastReq \in Int
    BY <1>1, <1>3 DEF SleeperInv, LimiterTypeOK
  <2>2. lastReq' = lastReq - 1
    BY <2>1, LimiterFacts DEF LimiterTick
  <2> QED
    BY <1>1, <1>3, <2>1, <2>2
<1> QED
  BY <1>2, <1>3 DEF SleeperInv

LEMMA SleeperStep == Inv /\ SleeperInv /\ [Next]_vars => SleeperInv'
<1> SUFFICES ASSUME Inv, SleeperInv, [Next]_vars PROVE SleeperInv'
  OBVIOUS
<1>1. LimiterTypeOK
  BY DEF Inv
<1>2. ASSUME UNCHANGED <<lastReq, left>> PROVE SleeperInv'
  BY <1>2 DEF SleeperInv, SleepersApart
<1>3. ASSUME NEW c \in Sleeper, GiveUpSlot(c) PROVE SleeperInv'
  <2>1. lastReq' = lastReq /\ \A e \in Sleeper : left'[e] > 0 => left'[e] = left[e]
    BY <1>1, <1>3 DEF GiveUpSlot, LimiterTypeOK
  <2> QED
    BY <2>1 DEF SleeperInv, SleepersApart
<1>4. ASSUME NEW c \in Caller, Step(c) \/ LaunchStep(c) \/ PageStep(c) PROVE SleeperInv'
  <2>1. CASE Reserve(c) BY <1>1, <2>1, SleeperReserve, FetcherAssumption
  <2>2. CASE GiveUpSlot(c) BY <1>3, <2>2, FetcherAssumption
  <2>3. CASE OnBlock \/ OnSuccess \/ UNCHANGED limiterVars
    BY <1>2, <2>3 DEF OnBlock, OnSuccess, limiterVars
  <2> QED
    BY <1>4, <2>1, <2>2, <2>3, Parts
<1>5. CASE \E c \in Caller : FetchDynamic(c) \/ EndContext(c)
  BY <1>2, <1>5 DEF FetchDynamic, EndContext, limiterVars
<1>6. CASE Close \/ Closed BY <1>2, <1>6 DEF Close, Closed, limiterVars
<1>7. CASE PassTime BY <1>1, <1>7, SleeperTick DEF PassTime
<1>8. CASE UNCHANGED vars BY <1>2, <1>8 DEF vars, limiterVars
<1> QED
  BY <1>4, <1>5, <1>6, <1>7, <1>8 DEF Next

\* Whoever sleeps in Wait, and whoever gives up, returns or is cut off meanwhile:
\* no two callers wake within the shortest gap, which is half the base or twice the
\* maximum, whichever is less.
THEOREM SleepersWakeApart == Spec => []SleepersApart
<1>1. Init => SleeperInv
  BY DEF Init, LimiterInit, SleeperInv, SleepersApart
<1>2. SleeperInv => SleepersApart
  BY DEF SleeperInv
<1> QED
  BY <1>1, <1>2, SleeperStep, Invariant, PTL DEF Spec

\* No task is asked about more often than its timeout has intervals, and once,
\* however slow the requests and however late the context ends.
THEOREM PollingEnds == Spec => []PollsBounded
<1>1. Inv => PollsBounded
  BY DEF Inv, SolverInv, PollInv, PollsBounded
<1> QED
  BY <1>1, Invariant, PTL

----------------------------------------------------------------------------
(* What a fetch sends. *)

\* What a fetch has sent where it is: the browser loads one page, the HTTP fetcher
\* sends one request and after a solution one more.
Ahead == {"gate", "wait", "sleep", "launch", "warmup", "do"}
Spent(c) == IF layer[c] = "browser" THEN 0 ELSE IF mayRetry[c] THEN 1 ELSE 2
Allowance(c) ==
    IF pc[c] = "idle" THEN FetchBound
    ELSE IF pc[c] \in Ahead THEN Spent(c) ELSE Spent(c) + 1
FetchInv(c) ==
    /\ layer[c] = "browser" => mayRetry[c]
    /\ pc[c] \in {"launch", "page"} => layer[c] = "browser"
    /\ pc[c] = "solve" => mayRetry[c]
    /\ sent[c] <= Allowance(c)
\* A fetch between the breaker's gate and its next request has sent none since
\* the breaker opened.
GateInv ==
    \A c \in Caller :
       /\ sentOpen[c] <= 1
       /\ ~IsOpen => sentOpen[c] = 0
       /\ pc[c] \in Ahead \ {"gate"} => sentOpen[c] = 0

\* What a step of one fetch leaves alone in another.
Kept(d) ==
    /\ pc'[d] = pc[d] /\ layer'[d] = layer[d]
    /\ mayRetry'[d] = mayRetry[d] /\ sent'[d] = sent[d]

LEMMA FetchKept ==
    ASSUME NEW d \in Caller, Kept(d), FetchInv(d)
    PROVE  FetchInv(d)'
BY DEF Kept, FetchInv, Allowance, Spent, FetchBound

LEMMA CallValues ==
    ASSUME CallTypeOK, NEW c \in Caller
    PROVE  /\ sent[c] \in Nat /\ layer[c] \in {"browser", "http"} /\ mayRetry[c] \in BOOLEAN
           /\ Spent(c) \in {0, 1, 2}
BY DEF CallTypeOK, Spent

\* The values of c after each kind of move.
LEMMA AfterGoto ==
    ASSUME CallTypeOK, NEW c \in Caller, NEW s, Goto(c, s) \/ LeavePage(c, s)
    PROVE  pc'[c] = s /\ layer'[c] = layer[c] /\ mayRetry'[c] = mayRetry[c]
BY DEF CallTypeOK, Goto, LeavePage
LEMMA AfterFallBack ==
    ASSUME CallTypeOK, NEW c \in Caller, FallBack(c)
    PROVE  pc'[c] = "gate" /\ layer'[c] = "http" /\ mayRetry'[c] = mayRetry[c]
BY DEF CallTypeOK, FallBack
LEMMA AfterFetchAgain ==
    ASSUME CallTypeOK, NEW c \in Caller, FetchAgain(c)
    PROVE  pc'[c] = "gate" /\ layer'[c] = layer[c] /\ mayRetry'[c] = FALSE
BY DEF CallTypeOK, FetchAgain
LEMMA AfterReturn ==
    ASSUME CallTypeOK, NEW c \in Caller, Return(c)
    PROVE  pc'[c] = "idle" /\ layer'[c] = "browser" /\ mayRetry'[c] = TRUE
BY DEF CallTypeOK, Return
LEMMA AfterCount ==
    ASSUME CallTypeOK, NEW c \in Caller, CountSent(c)
    PROVE  sent'[c] \in {sent[c], sent[c] + 1}
BY DEF CallTypeOK, CountSent

\* A fetch moves on without sending, sends, or returns.
LEMMA Onward ==
    ASSUME CallTypeOK, NEW c \in Caller, FetchInv(c), NEW s, Goto(c, s) \/ LeavePage(c, s),
           UNCHANGED sent, pc[c] # "idle", s \notin {"idle", "page"},
           s = "launch" => layer[c] = "browser",
           s \in Ahead => pc[c] \in Ahead, s = "solve" => mayRetry[c]
    PROVE  FetchInv(c)'
<1>1. pc'[c] = s /\ layer'[c] = layer[c] /\ mayRetry'[c] = mayRetry[c] /\ sent'[c] = sent[c]
  BY AfterGoto
<1>2. Spent(c)' = Spent(c)
  BY <1>1 DEF Spent
<1>3. Allowance(c) \in Nat /\ Allowance(c)' \in Nat /\ Allowance(c) <= Allowance(c)'
  BY <1>1, <1>2, CallValues DEF Allowance
<1> QED
  BY <1>1, <1>3, CallValues DEF FetchInv

LEMMA Sends ==
    ASSUME CallTypeOK, NEW c \in Caller, FetchInv(c), CountSent(c), pc[c] \in Ahead,
           pc'[c] \in {"page", "count", "reset"}, pc'[c] = "page" => layer[c] = "browser",
           layer'[c] = layer[c], mayRetry'[c] = mayRetry[c]
    PROVE  FetchInv(c)'
<1>1. Spent(c)' = Spent(c)
  BY DEF Spent
<1>2. Allowance(c) = Spent(c) /\ Allowance(c)' = Spent(c) + 1
  BY <1>1 DEF Allowance, Ahead
<1>3. sent'[c] <= Spent(c) + 1
  BY <1>2, AfterCount, CallValues DEF FetchInv
<1> QED
  BY <1>2, <1>3 DEF FetchInv

LEMMA Returns ==
    ASSUME CallTypeOK, NEW c \in Caller, FetchInv(c), Return(c),
           UNCHANGED sent \/ (CountSent(c) /\ pc[c] \in Ahead)
    PROVE  FetchInv(c)'
<1>1. Allowance(c) \in Nat /\ Allowance(c) <= 3 /\ (pc[c] \in Ahead => Allowance(c) <= 2)
  BY CallValues DEF Allowance, FetchBound, Ahead
<1>2. sent'[c] <= 3
  BY <1>1, AfterCount, CallValues DEF FetchInv
<1> QED
  BY <1>2, AfterReturn DEF FetchInv, Allowance, FetchBound

LEMMA OthersKept ==
    ASSUME CallTypeOK, NEW c \in Caller, Step(c) \/ LaunchStep(c) \/ PageStep(c) \/ FetchDynamic(c),
           NEW d \in Caller \ {c}
    PROVE  Kept(d)
<1> USE DEF Kept, countVars
<1>1. ASSUME \/ \E s : Goto(c, s) \/ LeavePage(c, s)
             \/ Return(c) \/ FallBack(c) \/ FetchAgain(c)
      PROVE  pc'[d] = pc[d] /\ layer'[d] = layer[d] /\ mayRetry'[d] = mayRetry[d]
  BY <1>1 DEF CallTypeOK, Goto, LeavePage, Return, FallBack, FetchAgain
<1>2. ASSUME CountSent(c) \/ UNCHANGED sent PROVE sent'[d] = sent[d]
  BY <1>2 DEF CallTypeOK, CountSent
<1>3. CASE Gate(c) \/ Wait(c) \/ WaitCut(c) \/ SkipWarmup(c) \/ WarmupGET(c) \/ WarmupAgain(c)
           \/ DoFails(c) \/ DoBlocked(c) \/ DoSucceeds(c) \/ PageStep(c)
  BY <1>1, <1>2, <1>3 DEF Gate, CheckOpen, Wait, WaitCut, SkipWarmup, WarmupGET, WarmupAgain,
     DoFails, DoBlocked, DoSucceeds, PageStep, PageFails, PageBlocked, PageLoads
<1>4. CASE EnsureBrowser(c) \/ LaunchStep(c)
  <2>1. ASSUME OpenPage(c) PROVE Kept(d)
    BY <1>2, <2>1 DEF OpenPage, CallTypeOK
  <2> QED
    BY <1>1, <1>4, <2>1 DEF EnsureBrowser, LaunchStep, LaunchSucceeds, LaunchFails
<1>5. CASE Reset(c) \/ Count(c) \/ Invalidate(c) \/ Solve(c) \/ Solved(c) \/ NotSolved(c)
  BY <1>1, <1>2, <1>5 DEF Reset, Count, Invalidate, SolveOrReturn, Solve, callVars, Solved,
     NotSolved
<1>6. CASE FetchDynamic(c)
  BY <1>1, <1>6 DEF FetchDynamic, CallTypeOK
<1> QED
  BY <1>3, <1>4, <1>5, <1>6 DEF Step

LEMMA StepFetch ==
    ASSUME CallTypeOK, NEW c \in Caller, FetchInv(c), Step(c) \/ LaunchStep(c) \/ PageStep(c)
    PROVE  FetchInv(c)'
<1> USE DEF At, Granted, Ahead, countVars
\* From the browser to the fallback.
<1>1. ASSUME FallBack(c), UNCHANGED sent, pc[c] # "idle", layer[c] = "browser" PROVE FetchInv(c)'
  <2>1. Allowance(c) <= 1 /\ Allowance(c) \in Nat /\ mayRetry[c]
    BY <1>1 DEF Allowance, Spent, FetchInv
  <2>2. pc'[c] = "gate" /\ layer'[c] = "http" /\ mayRetry'[c] = mayRetry[c] /\ sent'[c] <= 1
    <3>1. sent[c] \in Nat /\ sent[c] <= Allowance(c)
      BY CallValues DEF FetchInv
    <3>2. sent'[c] = sent[c] /\ sent[c] <= 1
      BY <1>1, <2>1, <3>1
    <3> QED
      BY <1>1, <3>2, AfterFallBack
  <2>3. Allowance(c)' = 1
    BY <2>1, <2>2 DEF Allowance, Spent
  <2> QED
    BY <2>2, <2>3 DEF FetchInv
\* The browser loads its page.
<1>12. ASSUME OpenPage(c), pc[c] \in {"sleep", "launch"}, layer[c] = "browser" PROVE FetchInv(c)'
  <2>1. pc'[c] = "page" /\ layer'[c] = layer[c] /\ mayRetry'[c] = mayRetry[c] /\ CountSent(c)
    BY <1>12 DEF OpenPage, CallTypeOK
  <2> QED
    BY <1>12, <2>1, Sends
<1>2. CASE Gate(c) \/ Wait(c) \/ WaitCut(c)
  BY <1>2, Onward, Returns DEF Gate, CheckOpen, Wait, WaitCut
<1>3. CASE EnsureBrowser(c)
  <2>1. layer[c] = "browser" /\ pc[c] = "sleep"
    BY <1>3, CallValues DEF EnsureBrowser, InHTTP
  <2>2. CASE browser
    BY <1>3, <1>12, <2>1, <2>2 DEF EnsureBrowser
  <2>3. CASE ~browser
    BY <1>3, <2>1, <2>3, Onward DEF EnsureBrowser
  <2> QED
    BY <2>2, <2>3
<1>13. CASE LaunchStep(c)
  <2>1. layer[c] = "browser" /\ pc[c] = "launch"
    BY <1>13 DEF LaunchStep, LaunchSucceeds, LaunchFails, FetchInv
  <2>2. CASE LaunchSucceeds(c)
    BY <1>12, <2>1, <2>2 DEF LaunchSucceeds
  <2>3. CASE LaunchFails(c)
    BY <1>1, <2>1, <2>3 DEF LaunchFails
  <2> QED
    BY <1>13, <2>2, <2>3 DEF LaunchStep
<1>4. CASE SkipWarmup(c) \/ WarmupGET(c) \/ WarmupAgain(c)
  BY <1>4, Onward DEF SkipWarmup, WarmupGET, WarmupAgain
<1>5. CASE DoFails(c) \/ DoBlocked(c) \/ DoSucceeds(c)
  BY <1>5, Returns, Sends, AfterGoto DEF DoFails, DoBlocked, DoSucceeds
<1>6. CASE PageStep(c)
  <2>1. pc[c] = "page" /\ layer[c] = "browser"
    BY <1>6 DEF PageStep, PageFails, PageBlocked, PageLoads, FetchInv
  <2> QED
    BY <1>1, <1>6, <2>1, Onward DEF PageStep, PageFails, PageBlocked, PageLoads
<1>7. CASE Reset(c)
  BY <1>7, Returns DEF Reset
<1>8. CASE Count(c) \/ Invalidate(c)
  <2>1. UNCHANGED sent /\ pc[c] \in {"count", "invalidate"}
    BY <1>8 DEF Count, Invalidate
  <2>2. \/ Goto(c, "invalidate")
        \/ Goto(c, "solve") /\ mayRetry[c]
        \/ Return(c)
    BY <1>8, CallValues DEF Count, Invalidate, SolveOrReturn, MaySolve, InHTTP, FetchInv
  <2> QED
    BY <2>1, <2>2, Onward, Returns
<1>9. CASE Solve(c)
  BY <1>9, FetchKept DEF Solve, callVars, Kept
<1>10. CASE Solved(c)
  <2>1. CASE layer[c] = "http"
    <3>1. FetchAgain(c) /\ pc[c] = "solve" /\ sent'[c] = sent[c]
      BY <1>10, <2>1 DEF Solved, InHTTP
    <3>2. Allowance(c) = 2
      BY <2>1, <3>1 DEF FetchInv, Allowance, Spent
    <3>3. pc'[c] = "gate" /\ layer'[c] = "http" /\ mayRetry'[c] = FALSE
      BY <2>1, <3>1, AfterFetchAgain
    <3>4. Allowance(c)' = 2
      BY <3>3 DEF Allowance, Spent
    <3> QED
      BY <3>1, <3>2, <3>3, <3>4 DEF FetchInv
  <2>2. CASE layer[c] = "browser"
    BY <1>1, <1>10, <2>2 DEF Solved, InHTTP
  <2> QED
    BY <2>1, <2>2, CallValues
<1>11. CASE NotSolved(c)
  BY <1>11, Returns DEF NotSolved
<1> QED
  BY <1>2, <1>3, <1>4, <1>5, <1>6, <1>7, <1>8, <1>9, <1>10, <1>11, <1>13 DEF Step

LEMMA FetchStep ==
    CallTypeOK /\ (\A c \in Caller : FetchInv(c)) /\ [Next]_vars => (\A c \in Caller : FetchInv(c))'
<1> SUFFICES ASSUME CallTypeOK, \A c \in Caller : FetchInv(c), [Next]_vars
             PROVE  \A c \in Caller : FetchInv(c)'
  OBVIOUS
<1>1. ASSUME NEW c \in Caller, Step(c) \/ LaunchStep(c) \/ PageStep(c) PROVE \A d \in Caller : FetchInv(d)'
  BY <1>1, StepFetch, OthersKept, FetchKept
<1>2. ASSUME NEW c \in Caller, FetchDynamic(c) PROVE \A d \in Caller : FetchInv(d)'
  <2>1. FetchInv(c)'
    <3>1. pc'[c] = "gate" /\ layer'[c] = layer[c] /\ mayRetry'[c] = mayRetry[c]
      BY <1>2, AfterGoto DEF FetchDynamic
    <3>2. sent'[c] = 0
      BY <1>2 DEF FetchDynamic, CallTypeOK
    <3>3. Allowance(c)' = Spent(c) /\ Spent(c) \in Nat
      BY <3>1, CallValues DEF Allowance, Spent, Ahead
    <3> QED
      BY <3>1, <3>2, <3>3 DEF FetchInv
  <2> QED
    BY <1>2, <2>1, OthersKept, FetchKept
<1>3. ASSUME UNCHANGED <<pc, layer, mayRetry, sent>> PROVE \A d \in Caller : FetchInv(d)'
  BY <1>3, FetchKept DEF Kept
<1>4. ASSUME NEW c \in Caller, EndContext(c) PROVE \A d \in Caller : FetchInv(d)'
  BY <1>3, <1>4 DEF EndContext, callVars, countVars
<1>5. CASE Close \/ Closed \/ PassTime \/ UNCHANGED vars
  BY <1>3, <1>5 DEF Close, Closed, PassTime, vars, callVars, countVars
<1> QED
  BY <1>1, <1>2, <1>4, <1>5 DEF Next

\* However often a fetch is blocked, solved and sent back, and whoever closes the
\* browser meanwhile, it loads one page and sends two requests at most.
THEOREM FetchEnds == Spec => []FetchBounded
<1>1. Init => \A c \in Caller : FetchInv(c)
  BY DEF Init, FetchInv, Allowance, FetchBound
<1>2. CallTypeOK /\ (\A c \in Caller : FetchInv(c)) => FetchBounded
  <2> SUFFICES ASSUME CallTypeOK, NEW c \in Caller, FetchInv(c) PROVE sent[c] <= FetchBound
    BY DEF FetchBounded
  <2> QED
    BY CallValues DEF FetchInv, Allowance, FetchBound
<1>3. Inv => CallTypeOK
  BY DEF Inv
<1> QED
  BY <1>1, <1>2, <1>3, FetchStep, Invariant, PTL DEF Spec

\* The steps of the other calls leave what GateInv says of a call alone.
LEMMA GateMove ==
    ASSUME CallTypeOK, GateInv, NEW c \in Caller, Step(c) \/ LaunchStep(c) \/ PageStep(c) \/ FetchDynamic(c),
           UNCHANGED <<cooling, sentOpen>>,
           pc'[c] \in Ahead \ {"gate"} => pc[c] \in Ahead \ {"gate"}
    PROVE  GateInv'
BY OthersKept DEF GateInv, Kept, IsOpen

LEMMA GateSend ==
    ASSUME CallTypeOK, GateInv, NEW c \in Caller, Step(c) \/ LaunchStep(c) \/ PageStep(c), CountSent(c),
           UNCHANGED cooling, pc[c] \in Ahead \ {"gate"}, pc'[c] \notin Ahead
    PROVE  GateInv'
<1>1. sentOpen[c] = 0
  BY DEF GateInv
<1>2. \A d \in Caller : sentOpen[d] \in Nat
  BY DEF CallTypeOK
<1>3. /\ ~IsOpen => sentOpen' = sentOpen
      /\ IsOpen => sentOpen' = [sentOpen EXCEPT ![c] = 1]
  BY <1>1 DEF CountSent
<1>4. \A d \in Caller \ {c} : pc'[d] = pc[d] /\ sentOpen'[d] = sentOpen[d]
  BY <1>3, OthersKept DEF Kept, CallTypeOK
<1>5. sentOpen'[c] <= 1 /\ (~IsOpen => sentOpen'[c] = 0)
  BY <1>1, <1>3 DEF CallTypeOK
<1> QED
  BY <1>4, <1>5 DEF GateInv, IsOpen

LEMMA GateStep == CallTypeOK /\ BreakerTypeOK /\ GateInv /\ [Next]_vars => GateInv'
<1> SUFFICES ASSUME CallTypeOK, BreakerTypeOK, GateInv, [Next]_vars PROVE GateInv'
  OBVIOUS
<1> USE DEF At, Ahead, countVars, breakerVars
<1>9. ASSUME NEW c \in Caller, EnsureBrowser(c) \/ LaunchStep(c), OpenPage(c), UNCHANGED cooling,
             pc[c] \in {"sleep", "launch"}
      PROVE  GateInv'
  <2>1. pc'[c] = "page" /\ CountSent(c)
    BY <1>9 DEF OpenPage, CallTypeOK
  <2>2. Step(c) \/ LaunchStep(c) \/ PageStep(c)
    BY <1>9 DEF Step
  <2> QED
    BY <1>9, <2>1, <2>2, GateSend
<1>1. ASSUME NEW c \in Caller, Step(c) \/ LaunchStep(c) \/ PageStep(c) PROVE GateInv'
  <2>1. CASE Gate(c)
    <3>1. CASE IsOpen
      BY <1>1, <2>1, <3>1, AfterReturn, GateMove DEF Gate, CheckOpen
    <3>2. CASE ~IsOpen
      BY <1>1, <2>1, <3>2, OthersKept DEF Gate, GateInv, Kept, IsOpen
    <3> QED
      BY <3>1, <3>2
  <2>2. CASE Wait(c) \/ WaitCut(c) \/ SkipWarmup(c) \/ WarmupGET(c) \/ WarmupAgain(c)
    <3>1. pc[c] \in Ahead \ {"gate"} /\ UNCHANGED <<cooling, sentOpen>>
      BY <2>2 DEF Wait, WaitCut, SkipWarmup, WarmupGET, WarmupAgain, Granted
    <3> QED
      BY <1>1, <3>1, GateMove
  <2>3. CASE EnsureBrowser(c)
    <3>1. CASE browser
      BY <1>9, <2>3, <3>1 DEF EnsureBrowser, Granted
    <3>2. CASE ~browser
      <4>1. pc[c] = "sleep" /\ UNCHANGED <<cooling, sentOpen>>
        BY <2>3, <3>2 DEF EnsureBrowser, Granted
      <4> QED
        BY <1>1, <4>1, GateMove
    <3> QED
      BY <3>1, <3>2
  <2>10. CASE LaunchStep(c)
    <3>1. CASE LaunchSucceeds(c)
      BY <1>9, <2>10, <3>1 DEF LaunchSucceeds
    <3>2. CASE LaunchFails(c)
      BY <1>1, <3>2, AfterFallBack, GateMove DEF LaunchFails
    <3> QED
      BY <2>10, <3>1, <3>2 DEF LaunchStep
  <2>4. CASE DoFails(c) \/ DoBlocked(c) \/ DoSucceeds(c)
    <3>1. CountSent(c) /\ pc[c] = "do" /\ UNCHANGED cooling
      BY <2>4 DEF DoFails, DoBlocked, DoSucceeds
    <3>2. pc'[c] \in {"idle", "count", "reset"}
      BY <2>4, AfterReturn, AfterGoto DEF DoFails, DoBlocked, DoSucceeds
    <3> QED
      BY <1>1, <3>1, <3>2, GateSend
  <2>5. CASE PageStep(c)
    <3>1. pc'[c] \in {"gate", "count", "reset"} /\ UNCHANGED <<cooling, sentOpen>>
      BY <2>5, AfterFallBack, AfterGoto DEF PageStep, PageFails, PageBlocked, PageLoads
    <3> QED
      BY <1>1, <3>1, GateMove
  <2>6. CASE Reset(c)
    BY <2>6 DEF Reset, RecordSuccess, NobodySent, GateInv, IsOpen
  <2>7. CASE Count(c)
    <3>1. pc'[c] \in {"invalidate", "solve", "idle"} /\ sentOpen' = sentOpen
      BY <2>7, AfterReturn, AfterGoto DEF Count, SolveOrReturn
    <3>2. IsOpen => IsOpen'
      BY <2>7, BreakerAssumption DEF Count, RecordBlock, IsOpen
    <3>3. \A d \in Caller \ {c} : pc'[d] = pc[d]
      BY <1>1, OthersKept DEF Kept
    <3> QED
      BY <3>1, <3>2, <3>3 DEF GateInv
  <2>8. CASE Invalidate(c)
    <3>1. pc'[c] \in {"solve", "idle"} /\ UNCHANGED <<cooling, sentOpen>>
      BY <2>8, AfterReturn, AfterGoto DEF Invalidate, SolveOrReturn
    <3> QED
      BY <1>1, <3>1, GateMove
  <2>9. CASE Solve(c) \/ Solved(c) \/ NotSolved(c)
    <3>1. UNCHANGED <<cooling, sentOpen>>
      BY <2>9 DEF Solve, Solved, NotSolved
    <3>2. pc'[c] \in {pc[c], "gate", "idle"}
      BY <2>9, AfterReturn, AfterFallBack, AfterFetchAgain DEF Solve, callVars, Solved, NotSolved
    <3> QED
      BY <1>1, <3>1, <3>2, GateMove
  <2> QED
    BY <1>1, <2>1, <2>2, <2>3, <2>4, <2>5, <2>6, <2>7, <2>8, <2>9, <2>10 DEF Step
<1>2. ASSUME NEW c \in Caller, FetchDynamic(c) PROVE GateInv'
  BY <1>2, AfterGoto, GateMove DEF FetchDynamic
<1>3. ASSUME NEW c \in Caller, EndContext(c) PROVE GateInv'
  BY <1>3 DEF EndContext, callVars, GateInv, IsOpen
<1>4. CASE Close \/ Closed \/ UNCHANGED vars
  BY <1>4 DEF Close, Closed, vars, callVars, GateInv, IsOpen
<1>5. CASE PassTime
  <2>1. cooling \in Nat /\ pc' = pc
    BY <1>5, BreakerAssumption DEF PassTime, BreakerTypeOK, callVars
  <2>2. CASE cooling = 1
    BY <1>5, <2>1, <2>2 DEF PassTime, NobodySent, GateInv
  <2>3. CASE cooling # 1
    <3>1. sentOpen' = sentOpen /\ (IsOpen => IsOpen')
      BY <1>5, <2>1, <2>3 DEF PassTime, Tick, IsOpen
    <3> QED
      BY <2>1, <3>1 DEF GateInv
  <2> QED
    BY <2>2, <2>3
<1> QED
  BY <1>1, <1>2, <1>3, <1>4, <1>5 DEF Next

\* While the breaker stays open a fetch loads or requests once more at most,
\* through its fallback and its retry, whoever opens it and keeps it open.
THEOREM OpenStopsFetches == Spec => []OpenBoundsFetch
<1>1. Init => GateInv
  BY DEF Init, GateInv
<1>2. GateInv => OpenBoundsFetch
  BY DEF GateInv, OpenBoundsFetch
<1>3. Inv => CallTypeOK /\ BreakerTypeOK
  BY DEF Inv
<1> QED
  BY <1>1, <1>2, <1>3, GateStep, Invariant, PTL DEF Spec
=============================================================================
