---------------------------- MODULE ClientProofs ----------------------------
(* Theorems about Client and the breaker and proxy pool it drives, for every   *)
(* set of calls and every value of the other constants.                        *)
EXTENDS Client, FiniteSetTheorems, TLAPS

----------------------------------------------------------------------------
(* Types. *)

LEMMA TypeInit == Init => TypeOK
<1> SUFFICES ASSUME Init PROVE TypeOK
  OBVIOUS
<1> USE DEF Init
<1>1. /\ pc \in [Call -> PC] /\ loop \in [Call -> Loop]
      /\ tries \in [Call -> [Loop -> 0..(RetryMax - 1)]]
  BY LoopAssumption DEF PC, Loop, NoTries
<1>2. /\ held \in [Call -> Token \cup {NoToken}] /\ cache \in Token \cup {NoToken}
  OBVIOUS
<1>3. /\ ctxDone \in [Call -> BOOLEAN] /\ gauge \in BOOLEAN /\ warm \in BOOLEAN
  OBVIOUS
<1>4. BreakerTypeOK
  BY BreakerAssumption DEF BreakerTypeOK, BreakerInit
<1>5. PoolTypeOK /\ earned \in [Proxy -> 0..MaxFails]
  BY PoolAssumption DEF PoolTypeOK, PoolInit
<1>6. lastProxy \in Proxy \cup {NoProxy} /\ carrier \in [Call -> Proxy \cup {NoProxy}]
  OBVIOUS
<1>7. /\ searches \in [Call -> 0..MaxSearches]
      /\ sent \in [Call -> Nat] /\ sentOpen \in [Call -> Nat]
      /\ stale \in [Call -> SUBSET Call]
  BY LoopAssumption
<1> QED
  BY <1>1, <1>2, <1>3, <1>4, <1>5, <1>6, <1>7 DEF TypeOK

\* The steps that only move a call through its program.
LEMMA MoveType ==
    ASSUME TypeOK, NEW c \in Call, NEW s \in PC, GoTo(c, s),
           UNCHANGED <<ctxDone, sharedVars, searches>>
    PROVE  TypeOK'
BY DEF TypeOK, GoTo, sharedVars, routeVars, proxyVars, breakerVars, poolVars,
       BreakerTypeOK, PoolTypeOK

LEMMA RoundTripType ==
    ASSUME TypeOK, NEW c \in Call, NEW e \in Proxy \cup {NoProxy}, RoundTrip(c, e)
    PROVE  /\ PoolTypeOK' /\ earned' \in [Proxy -> 0..MaxFails]
           /\ lastProxy' \in Proxy \cup {NoProxy}
           /\ carrier' \in [Call -> Proxy \cup {NoProxy}]
<1>1. CASE HasPool /\ Available # {}
  <2>1. UNCHANGED <<fails, resting, earned>>
    BY <1>1 DEF RoundTrip, NextProxy
  <2>2. rrIndex' \in 0..(Cycle - 1)
    <3>1. rrIndex \in Nat /\ Cycle \in Nat \ {0}
      BY PoolAssumption DEF TypeOK, PoolTypeOK
    <3>2. (rrIndex + 1) % Cycle \in 0..(Cycle - 1)
      BY <3>1
    <3> QED
      BY <1>1, <3>2 DEF RoundTrip, NextProxy, TypeOK, PoolTypeOK
  <2>3. lastProxy' = e /\ carrier' = [carrier EXCEPT ![c] = e]
    BY <1>1 DEF RoundTrip
  <2> QED
    BY <2>1, <2>2, <2>3 DEF TypeOK, PoolTypeOK
<1>2. CASE HasPool /\ Available = {}
  BY <1>2 DEF RoundTrip, NextProxy, TypeOK, PoolTypeOK, poolVars
<1>3. CASE ~HasPool
  BY <1>3 DEF RoundTrip, TypeOK, PoolTypeOK, poolVars, proxyVars
<1> QED
  BY <1>1, <1>2, <1>3

LEMMA FailType ==
    ASSUME TypeOK, NEW c \in Call, Fail(c) \/ Finish(c)
    PROVE  /\ pc' \in [Call -> PC] /\ loop' \in [Call -> Loop]
           /\ tries' \in [Call -> [Loop -> 0..(RetryMax - 1)]]
           /\ held' \in [Call -> Token \cup {NoToken}]
           /\ sent' \in [Call -> Nat] /\ stale' \in [Call -> SUBSET Call]
<1>1. NoTries \in [Loop -> 0..(RetryMax - 1)]
  BY LoopAssumption DEF NoTries
<1>2. CASE Finish(c)
  <2>1. pc' \in [Call -> PC] /\ loop' \in [Call -> Loop]
    BY <1>2 DEF TypeOK, Finish, PC, Loop
  <2>2. tries' \in [Call -> [Loop -> 0..(RetryMax - 1)]]
    BY <1>2, <1>1 DEF TypeOK, Finish
  <2>3. held' \in [Call -> Token \cup {NoToken}]
    BY <1>2 DEF TypeOK, Finish
  <2>4. sent' \in [Call -> Nat] /\ stale' \in [Call -> SUBSET Call]
    BY <1>2 DEF TypeOK, Finish
  <2> QED
    BY <2>1, <2>2, <2>3, <2>4
<1>3. CASE Fail(c) /\ ~Finish(c)
  BY <1>1, <1>3 DEF TypeOK, Fail, PC, Loop
<1> QED
  BY <1>2, <1>3

LEMMA CountSentType ==
    ASSUME TypeOK, NEW c \in Call, CountSent(c)
    PROVE  sent' \in [Call -> Nat] /\ sentOpen' \in [Call -> Nat]
BY DEF TypeOK, CountSent

LEMMA MarkType ==
    ASSUME NEW count \in [Proxy -> 0..MaxFails], NEW e
    PROVE  /\ Failed(count, e) \in [Proxy -> 0..MaxFails]
           /\ Cleared(count, e) \in [Proxy -> 0..MaxFails]
BY PoolAssumption DEF Failed, Cleared

LEMMA BurnType ==
    ASSUME NEW t \in Token \cup {NoToken}, NEW c \in Call
    PROVE  Burn(t, c) \in Token \cup {NoToken}
BY DEF Burn, Token

\* The types of what a step leaves alone.
LEMMA RouteType ==
    ASSUME TypeOK, UNCHANGED routeVars
    PROVE  /\ PoolTypeOK' /\ earned' \in [Proxy -> 0..MaxFails] /\ warm' \in BOOLEAN
           /\ lastProxy' \in Proxy \cup {NoProxy}
           /\ carrier' \in [Call -> Proxy \cup {NoProxy}]
BY DEF TypeOK, PoolTypeOK, routeVars, proxyVars, poolVars
LEMMA BreakerType == TypeOK /\ UNCHANGED breakerVars => BreakerTypeOK'
BY DEF TypeOK, BreakerTypeOK, breakerVars
LEMMA GoToType ==
    ASSUME TypeOK, NEW c \in Call, NEW s \in PC, GoTo(c, s)
    PROVE  /\ pc' \in [Call -> PC] /\ loop' \in [Call -> Loop]
           /\ tries' \in [Call -> [Loop -> 0..(RetryMax - 1)]]
           /\ held' \in [Call -> Token \cup {NoToken}]
           /\ sent' \in [Call -> Nat] /\ stale' \in [Call -> SUBSET Call]
BY DEF TypeOK, GoTo

LEMMA TypeStep == TypeOK /\ [Next]_vars => TypeOK'
<1> SUFFICES ASSUME TypeOK, [Next]_vars PROVE TypeOK'
  OBVIOUS
<1> USE DEF sharedVars
<1>1. ASSUME NEW c \in Call, Begin(c) PROVE TypeOK'
  <2>1. searches' \in [Call -> 0..MaxSearches] /\ ctxDone' \in [Call -> BOOLEAN]
    BY <1>1, LoopAssumption DEF Begin, TypeOK
  <2>2. PICK s \in PC : GoTo(c, s)
    BY <1>1 DEF Begin, PC
  <2>3. sentOpen' \in [Call -> Nat]
    BY <1>1 DEF Begin, TypeOK
  <2> QED
    BY <1>1, <2>1, <2>2, <2>3, GoToType, RouteType, BreakerType DEF Begin, TypeOK
<1>2. ASSUME NEW c \in Call, Step(c) PROVE TypeOK'
  <2> USE DEF PC
  <2> DEFINE Elsewhere == UNCHANGED <<ctxDone, sharedVars, searches>>
  <2>1. ASSUME NEW s \in PC, GoTo(c, s), Elsewhere PROVE TypeOK'
    BY <2>1, MoveType
  <2>2. ASSUME Fail(c) \/ Finish(c), Elsewhere PROVE TypeOK'
    BY <2>2, FailType, RouteType, BreakerType DEF TypeOK
  <2>3. CASE SkipWarmup(c)
    BY <2>1, <2>3 DEF SkipWarmup
  <2>4. CASE WarmupGET(c)
    <3>1. pc' \in [Call -> PC]
      BY <2>4 DEF WarmupGET, TypeOK
    <3>2. PICK e \in Proxy \cup {NoProxy} : RoundTrip(c, e)
      BY <2>4 DEF WarmupGET
    <3> QED
      BY <2>4, <3>1, <3>2, RoundTripType, CountSentType, BreakerType DEF WarmupGET, TypeOK
  <2>5. CASE WarmupAgain(c)
    <3>1. pc' \in [Call -> PC]
      BY <2>5 DEF WarmupAgain, TypeOK
    <3>2. PICK e \in Proxy \cup {NoProxy} : RoundTrip(c, e)
      BY <2>5 DEF WarmupAgain
    <3> QED
      BY <2>5, <3>1, <3>2, RoundTripType, CountSentType, BreakerType DEF WarmupAgain, TypeOK
  <2>6. CASE Gate(c)
    BY <2>1, <2>6 DEF Gate, CheckOpen
  <2>7. CASE FailFast(c)
    BY <2>7, FailType, RouteType, BreakerType DEF FailFast, TypeOK
  <2>8. CASE Build(c)
    <3>1. CASE loop[c] = "djs" /\ cache # NoToken
      <4>1. pc' \in [Call -> PC] /\ held' \in [Call -> Token \cup {NoToken}]
        BY <2>8, <3>1 DEF Build, GetVQD, TypeOK
      <4> QED
        BY <2>8, <3>1, <4>1, RouteType, BreakerType DEF Build, GetVQD, TypeOK
    <3>2. CASE loop[c] = "djs" /\ cache = NoToken
      <4>1. pc' \in [Call -> PC] /\ loop' \in [Call -> Loop]
        BY <2>8, <3>2 DEF Build, GetVQD, TypeOK, Loop
      <4> QED
        BY <2>8, <3>2, <4>1, RouteType, BreakerType DEF Build, GetVQD, TypeOK
    <3>3. CASE loop[c] # "djs"
      BY <2>1, <2>8, <3>3 DEF Build
    <3> QED
      BY <3>1, <3>2, <3>3
  <2>9. CASE Send(c)
    <3>1. pc' \in [Call -> PC] /\ held' \in [Call -> Token \cup {NoToken}]
      BY <2>9 DEF Send, TypeOK
    <3>2. PICK e \in Proxy \cup {NoProxy} : RoundTrip(c, e)
      BY <2>9 DEF Send
    <3>4. stale' \in [Call -> SUBSET Call]
      <4>1. c \in held[c].burned => held[c].by \in Call
        BY DEF TypeOK, Token, NoToken
      <4> QED
        BY <2>9, <4>1 DEF Send, TypeOK
    <3> QED
      BY <2>9, <3>1, <3>2, <3>4, RoundTripType, CountSentType, BreakerType
      DEF Send, TypeOK
  <2>10. CASE GetPage(c)
    <3>1. [by |-> c, burned |-> {}] \in Token
      BY DEF Token
    <3>2. pc' \in [Call -> PC] /\ held' \in [Call -> Token \cup {NoToken}]
      BY <2>10, <3>1 DEF GetPage, TypeOK
    <3> QED
      BY <2>10, <3>2, RouteType, BreakerType DEF GetPage, TypeOK
  <2>11. CASE GetBlock(c)
    BY <2>1, <2>11 DEF GetBlock
  <2>12. CASE GetRetryable(c)
    BY <2>1, <2>12 DEF GetRetryable
  <2>13. CASE GetFatal(c)
    BY <2>2, <2>13 DEF GetFatal
  <2>14. CASE Success(c)
    <3>1. \E s \in PC : GoTo(c, s)
      BY <2>14 DEF Success, AfterSuccess
    <3>2. BreakerTypeOK'
      BY <2>14, BreakerAssumption DEF Success, RecordSuccess, BreakerTypeOK
    <3>3. sentOpen' \in [Call -> Nat]
      BY <2>14 DEF Success, NobodySent
    <3> QED
      BY <2>14, <3>1, <3>2, <3>3, GoToType, RouteType DEF Success, TypeOK
  <2>15. CASE SayClosed(c)
    <3>1. \E s \in PC : GoTo(c, s)
      BY <2>15 DEF SayClosed, AfterSuccess
    <3> QED
      BY <2>15, <3>1, GoToType, RouteType, BreakerType DEF SayClosed, TypeOK
  <2>16. CASE Credit(c)
    <3>1. PoolTypeOK' /\ earned' \in [Proxy -> 0..MaxFails]
      BY <2>16, MarkType DEF Credit, MarkSuccess, PoolTypeOK, TypeOK
    <3>2. \E s \in PC : GoTo(c, s)
      BY <2>16 DEF Credit
    <3> QED
      BY <2>16, <3>1, <3>2, GoToType, BreakerType DEF Credit, TypeOK
  <2>17. CASE StoreToken(c)
    <3>1. pc' \in [Call -> PC] /\ loop' \in [Call -> Loop] /\ cache' \in Token \cup {NoToken}
      BY <2>17 DEF StoreToken, TypeOK, Loop
    <3>2. tries' \in [Call -> [Loop -> 0..(RetryMax - 1)]]
      BY <2>17, LoopAssumption DEF StoreToken, TypeOK
    <3> QED
      BY <2>17, <3>1, <3>2, RouteType, BreakerType DEF StoreToken, TypeOK
  <2>18. CASE NothingUsable(c)
    BY <2>2, <2>18 DEF NothingUsable
  <2>19. CASE Answer(c)
    BY <2>2, <2>19 DEF Answer
  <2>20. CASE Blocked(c)
    <3>1. \E s \in PC : GoTo(c, s)
      BY <2>20 DEF Blocked, AfterBlock
    <3>2. BreakerTypeOK'
      BY <2>20, BreakerAssumption DEF Blocked, RecordBlock, BreakerTypeOK, TypeOK
    <3> QED
      BY <2>20, <3>1, <3>2, GoToType, RouteType DEF Blocked, TypeOK
  <2>21. CASE SayOpen(c)
    <3>1. \E s \in PC : GoTo(c, s)
      BY <2>21 DEF SayOpen, AfterBlock
    <3> QED
      BY <2>21, <3>1, GoToType, RouteType, BreakerType DEF SayOpen, TypeOK
  <2>22. CASE Blame(c)
    <3>1. fails' \in [Proxy -> 0..MaxFails] /\ earned' \in [Proxy -> 0..MaxFails]
      BY <2>22, MarkType DEF Blame, MarkFailed, PoolTypeOK, TypeOK
    <3>2. resting' \in [Proxy -> 0..Rest] /\ rrIndex' \in 0..(Cycle - 1)
      BY <2>22, PoolAssumption DEF Blame, MarkFailed, PoolTypeOK, TypeOK
    <3>3. \E s \in PC : GoTo(c, s)
      BY <2>22 DEF Blame
    <3> QED
      BY <2>22, <3>1, <3>2, <3>3, GoToType, BreakerType DEF Blame, TypeOK, PoolTypeOK
  <2>23. CASE Clear(c)
    <3>1. pc' \in [Call -> PC]
      BY <2>23 DEF Clear, AfterClear, TypeOK
    <3>2. held' \in [Call -> Token \cup {NoToken}]
      BY <2>23, BurnType DEF Clear, TypeOK
    <3> QED
      BY <2>23, <3>1, <3>2, RouteType, BreakerType DEF Clear, ClearAllVQD, TypeOK
  <2>24. CASE Invalidate(c)
    <3>1. \E s \in PC : GoTo(c, s)
      BY <2>24 DEF Invalidate, AfterClear
    <3>2. PoolTypeOK'
      BY <2>24 DEF Invalidate, proxyVars, poolVars, PoolTypeOK, TypeOK
    <3> QED
      BY <2>24, <3>1, <3>2, GoToType, BreakerType DEF Invalidate, TypeOK, proxyVars
  <2>25. CASE Solved(c)
    <3>1. pc' \in [Call -> PC] /\ sent' \in [Call -> Nat]
      BY <2>25 DEF Solved, TypeOK
    <3> QED
      BY <2>25, <3>1, RouteType, BreakerType DEF Solved, TypeOK
  <2>26. CASE NotSolved(c)
    BY <2>1, <2>26 DEF NotSolved
  <2>27. CASE GiveUp(c)
    BY <2>2, <2>27 DEF GiveUp
  <2>28. CASE Retry(c)
    <3>1. pc' \in [Call -> PC]
      BY <2>28 DEF Retry, TypeOK
    <3>2. loop[c] \in Loop /\ tries[c] \in [Loop -> 0..(RetryMax - 1)]
      BY DEF TypeOK
    <3>3. tries[c][loop[c]] + 1 \in 0..(RetryMax - 1)
      BY <2>28, <3>2, LoopAssumption DEF Retry, IsLast, Attempt
    <3>4. tries' \in [Call -> [Loop -> 0..(RetryMax - 1)]]
      BY <2>28, <3>2, <3>3 DEF Retry, NextAttempt, TypeOK
    <3> QED
      BY <2>28, <3>1, <3>4, RouteType, BreakerType DEF Retry, TypeOK
  <2>29. CASE Abandon(c)
    BY <2>2, <2>29 DEF Abandon
  <2> QED
    BY <1>2, <2>3, <2>4, <2>5, <2>6, <2>7, <2>8, <2>9, <2>10, <2>11, <2>12, <2>13, <2>14,
       <2>15, <2>16, <2>17, <2>18, <2>19, <2>20, <2>21, <2>22, <2>23, <2>24, <2>25, <2>26,
       <2>27, <2>28, <2>29 DEF Step
<1>3. ASSUME NEW c \in Call, EndContext(c) PROVE TypeOK'
  <2>1. ctxDone' \in [Call -> BOOLEAN]
    BY <1>3 DEF EndContext, TypeOK
  <2> QED
    BY <1>3, <2>1, RouteType, BreakerType DEF EndContext, TypeOK, searchVars
<1>4. CASE ExpireToken
  BY <1>4, RouteType, BreakerType DEF ExpireToken, TypeOK, searchVars
<1>5. CASE ExpireSession
  <2>1. PoolTypeOK'
    BY <1>5 DEF ExpireSession, proxyVars, poolVars, PoolTypeOK, TypeOK
  <2> QED
    BY <1>5, <2>1, BreakerType DEF ExpireSession, TypeOK, searchVars, proxyVars
<1>6. CASE PassTime
  <2>1. BreakerTypeOK'
    BY <1>6, BreakerAssumption DEF PassTime, Tick, IsOpen, BreakerTypeOK, TypeOK
  <2>2. PoolTypeOK'
    BY <1>6, PoolAssumption DEF PassTime, PoolTick, PoolTypeOK, TypeOK
  <2>3. sentOpen' \in [Call -> Nat]
    BY <1>6 DEF PassTime, NobodySent, TypeOK
  <2> QED
    BY <1>6, <2>1, <2>2, <2>3 DEF PassTime, TypeOK, searchVars
<1>7. CASE UNCHANGED vars
  BY <1>7, RouteType, BreakerType DEF TypeOK, vars, searchVars
<1> QED
  BY <1>1, <1>2, <1>3, <1>4, <1>5, <1>6, <1>7 DEF Next

\* The state of every search, of the breaker and of the pool has its type.
THEOREM TypeCorrect == Spec => []TypeOK
<1> QED
  BY TypeInit, TypeStep, PTL DEF Spec

----------------------------------------------------------------------------
(* The breaker. *)

\* What leaves the breaker and the history of its opening alone.
QuietStep(c) ==
    \/ SkipWarmup(c) \/ Gate(c) \/ FailFast(c) \/ Build(c)
    \/ GetPage(c) \/ GetBlock(c) \/ GetRetryable(c) \/ GetFatal(c)
    \/ SayClosed(c) \/ Credit(c) \/ StoreToken(c) \/ NothingUsable(c) \/ Answer(c)
    \/ SayOpen(c) \/ Blame(c) \/ Clear(c) \/ Invalidate(c) \/ Solved(c) \/ NotSolved(c)
    \/ GiveUp(c) \/ Retry(c) \/ Abandon(c)

LEMMA StepCases ==
    ASSUME NEW c \in Call, Step(c)
    PROVE  QuietStep(c) \/ WarmupGET(c) \/ WarmupAgain(c) \/ Send(c) \/ Success(c) \/ Blocked(c)
BY DEF Step, QuietStep

LEMMA QuietBreaker ==
    ASSUME NEW c \in Call, QuietStep(c)
    PROVE  UNCHANGED <<consecutive, cooling, sentOpen>>
BY DEF QuietStep, SkipWarmup, Gate, FailFast, Build, GetPage, GetBlock,
       GetRetryable, GetFatal, SayClosed, Credit, StoreToken, NothingUsable, Answer, SayOpen,
       Blame, Clear, Invalidate, Solved, NotSolved, GiveUp, Retry, Abandon, sharedVars, breakerVars

LEMMA TrippedStep == TypeOK /\ OpenMeansTripped /\ [Next]_vars => OpenMeansTripped'
<1> SUFFICES ASSUME TypeOK, OpenMeansTripped, [Next]_vars PROVE OpenMeansTripped'
  OBVIOUS
<1> USE DEF OpenMeansTripped, IsOpen
<1>1. ASSUME UNCHANGED breakerVars PROVE OpenMeansTripped'
  BY <1>1 DEF breakerVars
<1>2. ASSUME NEW c \in Call, Step(c) PROVE OpenMeansTripped'
  <2>1. CASE QuietStep(c)
    BY <2>1, QuietBreaker
  <2>2. CASE WarmupGET(c) \/ WarmupAgain(c) \/ Send(c)
    BY <1>1, <2>2 DEF WarmupGET, WarmupAgain, Send
  <2>3. CASE Success(c)
    BY <2>3 DEF Success, RecordSuccess
  <2>4. CASE Blocked(c)
    BY <2>4, BreakerAssumption
    DEF Blocked, RecordBlock, Trips, TypeOK, BreakerTypeOK
  <2> QED
    BY <1>2, <2>1, <2>2, <2>3, <2>4, StepCases
<1>3. ASSUME NEW c \in Call, Begin(c) \/ EndContext(c) PROVE OpenMeansTripped'
  BY <1>1, <1>3 DEF Begin, EndContext, sharedVars
<1>4. CASE ExpireToken \/ ExpireSession \/ UNCHANGED vars
  BY <1>1, <1>4 DEF ExpireToken, ExpireSession, vars, sharedVars
<1>5. CASE PassTime
  BY <1>5 DEF PassTime, Tick, TypeOK, BreakerTypeOK
<1> QED
  BY <1>2, <1>3, <1>4, <1>5 DEF Next

\* However many searches record blocks and successes in whatever order, the
\* breaker is open only after Threshold blocks without a success.
THEOREM OpenIsTripped == Spec => []OpenMeansTripped
<1>1. Init => OpenMeansTripped
  BY DEF Init, BreakerInit, OpenMeansTripped, IsOpen
<1> QED
  BY <1>1, TrippedStep, TypeCorrect, PTL DEF Spec

\* What a search has sent where it is, while the breaker is open.  Whoever waits or
\* is about to send was let through earlier, and what follows a success began with
\* the breaker's reset; the warmup comes first of all.
OpenBound == IF HasSession THEN 2 ELSE 1
Passed == {"wait", "send", "sayClosed", "credit", "answer"}
Warming == {"warmup", "warmup2"}
OpenLimit(s) ==
    CASE s \in Passed \cup {"warmup"} -> 0
      [] s = "warmup2" -> 1
      [] OTHER -> OpenBound
GateInv ==
    /\ ~IsOpen => \A c \in Call : sentOpen[c] = 0
    /\ \A c \in Call : sentOpen[c] <= OpenLimit(pc[c])
    /\ \A c \in Call : pc[c] \in Warming => HasSession

LEMMA LimitFacts ==
    /\ OpenBound \in {1, 2} /\ (HasSession => OpenBound = 2)
    /\ \A s : OpenLimit(s) \in Nat /\ OpenLimit(s) <= OpenBound
    /\ \A s : s \notin Passed \cup Warming => OpenLimit(s) = OpenBound
    /\ \A s \in Passed : OpenLimit(s) = 0
    /\ OpenLimit("warmup") = 0 /\ OpenLimit("warmup2") = 1
BY DEF OpenBound, OpenLimit, Passed, Warming

LEMMA GateMove ==
    ASSUME TypeOK, GateInv, UNCHANGED <<cooling, sentOpen>>,
           NEW c \in Call, NEW s, pc' = [pc EXCEPT ![c] = s],
           s \notin Warming, s \in Passed => sentOpen[c] = 0
    PROVE  GateInv'
<1>1. sentOpen[c] <= OpenLimit(s)
  <2>1. sentOpen[c] \in Nat /\ sentOpen[c] <= OpenLimit(pc[c])
    BY DEF TypeOK, GateInv
  <2> QED
    BY <2>1, LimitFacts
<1>2. \A d \in Call : pc'[d] = IF d = c THEN s ELSE pc[d]
  BY DEF TypeOK
<1> QED
  BY <1>1, <1>2 DEF GateInv, IsOpen

\* A request of c, which leaves it where one more is allowed.
LEMMA GateSend ==
    ASSUME TypeOK, GateInv, NEW c \in Call, CountSent(c), UNCHANGED cooling,
           NEW s, pc' = [pc EXCEPT ![c] = s], s \in Warming => HasSession,
           OpenLimit(pc[c]) + 1 <= OpenLimit(s)
    PROVE  GateInv'
<1>1. /\ \A d \in Call : sentOpen[d] \in Nat /\ pc'[d] = IF d = c THEN s ELSE pc[d]
      /\ sentOpen[c] <= OpenLimit(pc[c]) /\ OpenLimit(pc[c]) \in Nat /\ OpenLimit(s) \in Nat
  BY LimitFacts DEF TypeOK, GateInv
<1>2. CASE IsOpen
  <2>1. \A d \in Call : sentOpen'[d] = IF d = c THEN sentOpen[c] + 1 ELSE sentOpen[d]
    BY <1>2 DEF CountSent, TypeOK
  <2>2. sentOpen'[c] <= OpenLimit(s)
    BY <1>1, <2>1
  <2> QED
    BY <1>1, <1>2, <2>1, <2>2 DEF GateInv, IsOpen
<1>3. CASE ~IsOpen
  <2>1. sentOpen' = sentOpen /\ \A d \in Call : sentOpen[d] = 0
    BY <1>3 DEF CountSent, GateInv
  <2> QED
    BY <1>1, <1>3, <2>1 DEF GateInv, IsOpen
<1> QED
  BY <1>2, <1>3

LEMMA GateKept ==
    ASSUME GateInv, UNCHANGED <<cooling, sentOpen, pc>>
    PROVE  GateInv'
BY DEF GateInv, IsOpen

\* Where an error leaves a call.
LEMMA FailMove ==
    ASSUME NEW c \in Call, Fail(c) \/ Finish(c)
    PROVE  \E s \in {"gate", "idle"} : pc' = [pc EXCEPT ![c] = s]
BY DEF Fail, Finish

LEMMA GateStep == TypeOK /\ GateInv /\ [Next]_vars => GateInv'
<1> SUFFICES ASSUME TypeOK, GateInv, [Next]_vars PROVE GateInv'
  OBVIOUS
<1> USE DEF Passed, Warming
<1>1. ASSUME NEW c \in Call, QuietStep(c) PROVE GateInv'
  <2>1. UNCHANGED <<cooling, sentOpen>>
    BY <1>1, QuietBreaker
  <2>2. ASSUME Fail(c) \/ Finish(c) PROVE GateInv'
    BY <2>1, <2>2, FailMove, GateMove
  <2>3. ASSUME NEW s, GoTo(c, s), s \notin Passed \cup Warming PROVE GateInv'
    BY <2>1, <2>3, GateMove DEF GoTo
  <2>5. ASSUME pc[c] \in Passed, NEW s, pc' = [pc EXCEPT ![c] = s], s \notin Warming PROVE GateInv'
    <3>1. sentOpen[c] = 0
      <4>1. sentOpen[c] \in Nat /\ sentOpen[c] <= OpenLimit(pc[c])
        BY DEF TypeOK, GateInv
      <4> QED
        BY <2>5, <4>1, LimitFacts
    <3> QED
      BY <2>1, <2>5, <3>1, GateMove
  <2>6. CASE SkipWarmup(c)
    BY <2>3, <2>6 DEF SkipWarmup
  <2>8. CASE Gate(c)
    <3>1. CASE IsOpen
      BY <2>3, <2>8, <3>1 DEF Gate, CheckOpen
    <3>2. CASE ~IsOpen
      <4>1. pc' = [pc EXCEPT ![c] = "wait"]
        BY <2>8, <3>2 DEF Gate, CheckOpen, GoTo
      <4>2. sentOpen[c] = 0
        BY <3>2 DEF GateInv
      <4> QED
        BY <2>1, <4>1, <4>2, GateMove
    <3> QED
      BY <3>1, <3>2
  <2>9. CASE FailFast(c) \/ GetFatal(c) \/ NothingUsable(c) \/ Answer(c) \/ GiveUp(c) \/ Abandon(c)
    BY <2>2, <2>9 DEF FailFast, GetFatal, NothingUsable, Answer, GiveUp, Abandon
  <2>10. CASE Build(c) \/ SayClosed(c) \/ Credit(c) \/ StoreToken(c)
    <3>1. pc[c] \in Passed
      BY <2>10 DEF Build, SayClosed, Credit, StoreToken, At
    <3>2. \E s \in {"send", "gate", "credit", "answer"} : pc' = [pc EXCEPT ![c] = s]
      BY <2>10 DEF Build, GetVQD, SayClosed, AfterSuccess, Credit, StoreToken, GoTo
    <3> QED
      BY <2>5, <3>1, <3>2
  <2>11. CASE GetPage(c) \/ Retry(c) \/ Solved(c)
    BY <2>1, <2>11, GateMove DEF GetPage, Retry, Solved
  <2>12. CASE GetBlock(c) \/ GetRetryable(c) \/ NotSolved(c) \/ Blame(c)
    BY <2>3, <2>12 DEF GetBlock, GetRetryable, NotSolved, Blame
  <2>13. CASE SayOpen(c) \/ Invalidate(c)
    BY <2>3, <2>13 DEF SayOpen, Invalidate, AfterBlock, AfterClear
  <2>14. CASE Clear(c)
    <3>1. \E s \in {"invalidate", "solve", "again"} : pc' = [pc EXCEPT ![c] = s]
      BY <2>14 DEF Clear, AfterClear
    <3> QED
      BY <2>1, <3>1, GateMove
  <2> QED
    BY <1>1, <2>6, <2>8, <2>9, <2>10, <2>11, <2>12, <2>13, <2>14 DEF QuietStep
<1>2. ASSUME NEW c \in Call, WarmupGET(c) \/ WarmupAgain(c) \/ Send(c) PROVE GateInv'
  <2>1. CountSent(c) /\ UNCHANGED cooling
    BY <1>2 DEF WarmupGET, WarmupAgain, Send, breakerVars
  <2>2. CASE WarmupGET(c)
    <3>1. pc[c] = "warmup" /\ HasSession
      BY <2>2 DEF WarmupGET, At, GateInv
    <3>2. PICK s \in {"warmup2", "gate"} : pc' = [pc EXCEPT ![c] = s]
      BY <2>2 DEF WarmupGET
    <3>3. OpenLimit(pc[c]) = 0 /\ OpenLimit(s) \in {1, 2}
      BY <3>1, <3>2, LimitFacts
    <3>4. OpenLimit(pc[c]) + 1 <= OpenLimit(s)
      BY <3>3
    <3> QED
      BY <2>1, <3>1, <3>2, <3>4, GateSend
  <2>3. CASE WarmupAgain(c)
    <3>1. pc[c] = "warmup2" /\ HasSession /\ pc' = [pc EXCEPT ![c] = "gate"]
      BY <2>3 DEF WarmupAgain, At, GateInv
    <3>2. OpenLimit(pc[c]) = 1 /\ OpenLimit("gate") = 2
      BY <3>1, LimitFacts
    <3>3. OpenLimit(pc[c]) + 1 <= OpenLimit("gate")
      BY <3>2
    <3> QED
      BY <2>1, <3>1, <3>3, GateSend
  <2>4. CASE Send(c)
    <3>1. pc[c] = "send" /\ pc' = [pc EXCEPT ![c] = "await"]
      BY <2>4 DEF Send, At
    <3>2. OpenLimit(pc[c]) = 0 /\ OpenLimit("await") \in {1, 2}
      BY <3>1, LimitFacts
    <3>3. OpenLimit(pc[c]) + 1 <= OpenLimit("await")
      BY <3>2
    <3> QED
      BY <2>1, <3>1, <3>3, GateSend
  <2> QED
    BY <1>2, <2>2, <2>3, <2>4
<1>3. ASSUME NEW c \in Call, Success(c) PROVE GateInv'
  <2>1. sentOpen' = [d \in Call |-> 0]
    BY <1>3 DEF Success, NobodySent
  <2>2. \E s \in {"sayClosed", "credit", "answer"} : pc' = [pc EXCEPT ![c] = s]
    BY <1>3 DEF Success, GoTo, AfterSuccess
  <2> QED
    BY <2>1, <2>2, LimitFacts DEF GateInv, TypeOK
<1>4. ASSUME NEW c \in Call, Blocked(c) PROVE GateInv'
  <2>1. cooling > 0 => cooling' > 0
    BY <1>4, BreakerAssumption DEF Blocked, RecordBlock
  <2>2. \E s \in {"sayOpen", "blame", "clear"} : pc' = [pc EXCEPT ![c] = s]
    BY <1>4 DEF Blocked, GoTo, AfterBlock
  <2>3. sentOpen' = sentOpen /\ \A d \in Call : sentOpen[d] \in Nat
    BY <1>4 DEF Blocked, TypeOK
  <2>4. sentOpen[c] <= OpenBound
    <3>1. sentOpen[c] <= OpenLimit(pc[c]) /\ OpenLimit(pc[c]) <= OpenBound
      BY LimitFacts DEF GateInv
    <3> QED
      BY <2>3, <3>1, LimitFacts
  <2> QED
    BY <2>1, <2>2, <2>3, <2>4, LimitFacts DEF GateInv, IsOpen, TypeOK
<1>5. ASSUME NEW c \in Call, Begin(c) PROVE GateInv'
  <2>1. \E s \in {"warmup", "gate"} : pc' = [pc EXCEPT ![c] = s] /\ (s = "warmup" => HasSession)
    BY <1>5 DEF Begin, GoTo
  <2>2. /\ cooling' = cooling /\ sentOpen' = [sentOpen EXCEPT ![c] = 0]
        /\ \A d \in Call : sentOpen[d] \in Nat
    BY <1>5 DEF Begin, breakerVars, TypeOK
  <2> QED
    BY <2>1, <2>2, LimitFacts DEF GateInv, IsOpen, TypeOK
<1>6. ASSUME NEW c \in Call, EndContext(c) PROVE GateInv'
  BY <1>6, GateKept DEF EndContext, searchVars, sharedVars, breakerVars
<1>7. CASE ExpireToken \/ ExpireSession \/ UNCHANGED vars
  BY <1>7, GateKept DEF ExpireToken, ExpireSession, vars, searchVars, sharedVars, breakerVars
<1>8. CASE PassTime
  <2>1. cooling' > 0 <=> cooling > 1
    BY <1>8 DEF PassTime, Tick, IsOpen, TypeOK, BreakerTypeOK
  <2>2. cooling \in Nat /\ pc' = pc
    BY <1>8 DEF PassTime, TypeOK, BreakerTypeOK, searchVars
  <2>3. CASE cooling = 1
    BY <1>8, <2>1, <2>2, <2>3, LimitFacts DEF PassTime, NobodySent, GateInv, IsOpen
  <2>4. CASE cooling # 1
    BY <1>8, <2>1, <2>2, <2>4 DEF PassTime, GateInv, IsOpen
  <2> QED
    BY <2>3, <2>4
<1> QED
  BY <1>1, <1>2, <1>3, <1>4, <1>5, <1>6, <1>7, <1>8, StepCases DEF Next

\* While the breaker is open every search sends at most the one request whose
\* check it had passed, or the two of its session's warmup, whoever opens, extends
\* and closes it meanwhile.
THEOREM OpenStopsRequests == Spec => []OpenBoundsRequests
<1>1. Init => GateInv
  BY LimitFacts DEF Init, GateInv, Warming
<1>2. TypeOK /\ GateInv => OpenBoundsRequests
  <2> SUFFICES ASSUME TypeOK, GateInv, NEW c \in Call PROVE sentOpen[c] <= OpenBound
    BY DEF OpenBoundsRequests, OpenBound
  <2>1. sentOpen[c] \in Nat /\ sentOpen[c] <= OpenLimit(pc[c])
    BY DEF TypeOK, GateInv
  <2> QED
    BY <2>1, LimitFacts
<1> QED
  BY <1>1, <1>2, GateStep, TypeCorrect, PTL DEF Spec

\* The states between the check of the breaker and the record of what came back.
LetThrough == {"wait", "send", "await", "success", "sayClosed", "credit", "answer"}
ShutInv == IsOpen => \A c \in Call : pc[c] \notin LetThrough

\* No quiet step gets there but through the check.
LEMMA OnlyThroughTheGate ==
    ASSUME TypeOK, NEW c \in Call, QuietStep(c), pc'[c] \in LetThrough
    PROVE  pc[c] \in LetThrough \/ ~IsOpen
<1> USE DEF LetThrough, At
<1>1. ASSUME NEW s, GoTo(c, s) PROVE pc'[c] = s
  BY <1>1 DEF GoTo, TypeOK
<1>2. ~Fail(c) /\ ~Finish(c)
  <2>1. ASSUME NEW s, pc' = [pc EXCEPT ![c] = s] PROVE pc'[c] = s
    BY <2>1 DEF TypeOK
  <2> QED
    BY <2>1, FailMove
<1>3. CASE SkipWarmup(c) \/ Gate(c)
  BY <1>1, <1>3 DEF SkipWarmup, Gate, CheckOpen
<1>4. CASE FailFast(c) \/ GetFatal(c) \/ NothingUsable(c) \/ Answer(c) \/ GiveUp(c) \/ Abandon(c)
  BY <1>2, <1>4 DEF FailFast, GetFatal, NothingUsable, Answer, GiveUp, Abandon
<1>5. CASE Build(c) \/ GetPage(c) \/ GetBlock(c) \/ GetRetryable(c) \/ SayClosed(c) \/ Credit(c) \/ StoreToken(c)
  BY <1>5 DEF Build, GetPage, GetBlock, GetRetryable, SayClosed, Credit, StoreToken
<1>6. CASE SayOpen(c) \/ Blame(c) \/ Invalidate(c) \/ NotSolved(c)
  BY <1>1, <1>6 DEF SayOpen, AfterBlock, Blame, Invalidate, AfterClear, NotSolved
<1>7. CASE Clear(c) \/ Solved(c) \/ Retry(c)
  BY <1>7 DEF Clear, AfterClear, Solved, Retry, TypeOK
<1> QED
  BY <1>3, <1>4, <1>5, <1>6, <1>7 DEF QuietStep

\* One goroutine that searches at a time: the breaker stays open for its whole
\* cooldown, as antibot.go:75-81 has it, whatever the server answers and whatever
\* the retries, the solver and the warmup do.
THEOREM OpenForTheCooldown ==
    ASSUME \A c, d \in Call : c = d
    PROVE  Spec => CooldownKept
<1>1. Init => ShutInv
  BY DEF Init, BreakerInit, ShutInv, IsOpen
<1>2. TypeOK /\ ShutInv /\ [Next]_vars => ShutInv' /\ (IsOpen /\ ~IsOpen' => cooling = 1)
  <2> SUFFICES ASSUME TypeOK, ShutInv, [Next]_vars
               PROVE  ShutInv' /\ (IsOpen /\ ~IsOpen' => cooling = 1)
    OBVIOUS
  <2> USE DEF ShutInv, IsOpen
  <2>1. ASSUME UNCHANGED cooling, NEW c \in Call,
               pc'[c] \in LetThrough => pc[c] \in LetThrough \/ ~IsOpen
        PROVE  ShutInv' /\ (IsOpen /\ ~IsOpen' => cooling = 1)
    <3>1. \A d \in Call : d = c
      OBVIOUS
    <3> QED
      BY <2>1, <3>1
  <2>2. ASSUME NEW c \in Call, QuietStep(c)
        PROVE  ShutInv' /\ (IsOpen /\ ~IsOpen' => cooling = 1)
    BY <2>1, <2>2, QuietBreaker, OnlyThroughTheGate
  <2>3. ASSUME NEW c \in Call, WarmupGET(c) \/ WarmupAgain(c) \/ Send(c) \/ Begin(c)
        PROVE  ShutInv' /\ (IsOpen /\ ~IsOpen' => cooling = 1)
    <3>1. cooling' = cooling
      BY <2>3 DEF WarmupGET, WarmupAgain, Send, Begin, breakerVars
    <3>2. pc'[c] \in LetThrough => pc[c] \in LetThrough
      BY <2>3 DEF WarmupGET, WarmupAgain, Send, Begin, GoTo, At, LetThrough, TypeOK
    <3> QED
      BY <2>1, <3>1, <3>2
  <2>4. ASSUME NEW c \in Call, Success(c)
        PROVE  ShutInv' /\ (IsOpen /\ ~IsOpen' => cooling = 1)
    <3>1. cooling' = 0
      BY <2>4 DEF Success, RecordSuccess
    <3>2. ~IsOpen
      BY <2>4 DEF Success, At, LetThrough
    <3> QED
      BY <3>1, <3>2
  <2>5. ASSUME NEW c \in Call, Blocked(c)
        PROVE  ShutInv' /\ (IsOpen /\ ~IsOpen' => cooling = 1)
    <3>1. IsOpen => IsOpen'
      BY <2>5, BreakerAssumption DEF Blocked, RecordBlock
    <3>2. pc'[c] \notin LetThrough
      BY <2>5 DEF Blocked, GoTo, AfterBlock, LetThrough, TypeOK
    <3>3. \A d \in Call : d = c
      OBVIOUS
    <3> QED
      BY <3>1, <3>2, <3>3
  <2>6. CASE (\E c \in Call : EndContext(c)) \/ ExpireToken \/ ExpireSession \/ UNCHANGED vars
    <3>1. UNCHANGED <<pc, cooling>>
      BY <2>6 DEF EndContext, ExpireToken, ExpireSession, vars, searchVars, sharedVars, breakerVars
    <3> QED
      BY <3>1
  <2>7. CASE PassTime
    <3>1. pc' = pc /\ cooling \in Nat /\ cooling' = IF cooling > 0 THEN cooling - 1 ELSE 0
      BY <2>7 DEF PassTime, Tick, searchVars, TypeOK, BreakerTypeOK
    <3> QED
      BY <3>1
  <2> QED
    BY <2>2, <2>3, <2>4, <2>5, <2>6, <2>7, StepCases DEF Next
<1>3. TypeOK /\ ShutInv /\ [Next]_vars => [IsOpen /\ ~IsOpen' => cooling = 1]_vars
  BY <1>2
<1> QED
  BY <1>1, <1>2, <1>3, TypeCorrect, PTL DEF Spec, CooldownKept

----------------------------------------------------------------------------
(* Tokens. *)

\* A token never counts the block of its own search while it is cached, or held
\* by that search.  A search that meets a block holds none: its request took it.
Asked == {"await", "blocked", "sayOpen", "blame", "clear"}
Answered == {"success", "sayClosed", "credit", "answer"}
TokenInv ==
    /\ cache.by \notin cache.burned
    /\ \A c \in Call : c \in held[c].burned => held[c].by # c
    /\ \A c \in Call : pc[c] \in Asked => held[c] = NoToken
    /\ \A c \in Call : loop[c] = "vqd" /\ pc[c] \in Answered => held[c].by = c


LEMMA TokenMove ==
    ASSUME TypeOK, TokenInv, UNCHANGED <<cache, held, loop>>,
           NEW c \in Call, NEW s, pc' = [pc EXCEPT ![c] = s],
           s \in Asked => held[c] = NoToken,
           s \in Answered /\ loop[c] = "vqd" => held[c].by = c
    PROVE  TokenInv'
BY DEF TypeOK, TokenInv

LEMMA TokenKept ==
    ASSUME TokenInv, UNCHANGED <<cache, held, loop, pc>>
    PROVE  TokenInv'
BY DEF TokenInv

LEMMA TokenFail ==
    ASSUME TypeOK, TokenInv, NEW c \in Call, Fail(c) \/ Finish(c), UNCHANGED cache
    PROVE  TokenInv'
<1>1. PICK s \in {"gate", "idle"} : pc' = [pc EXCEPT ![c] = s]
  BY FailMove
<1>2. held' = [held EXCEPT ![c] = NoToken]
  BY DEF Fail, Finish
<1>3. \E l : loop' = [loop EXCEPT ![c] = l]
  BY DEF Fail, Finish
<1> QED
  BY <1>1, <1>2, <1>3 DEF TypeOK, TokenInv, Asked, Answered, NoToken

LEMMA TokenStep == TypeOK /\ TokenInv /\ [Next]_vars => TokenInv'
<1> SUFFICES ASSUME TypeOK, TokenInv, [Next]_vars PROVE TokenInv'
  OBVIOUS
<1> USE DEF Asked, Answered
<1>1. ASSUME NEW c \in Call, Step(c) PROVE TokenInv'
  <2>1. ASSUME NEW s, GoTo(c, s), UNCHANGED cache, s \notin Asked \cup Answered PROVE TokenInv'
    BY <2>1, TokenMove DEF GoTo
  <2>2. ASSUME NEW s, GoTo(c, s), UNCHANGED cache, pc[c] \in Asked, s \notin Answered PROVE TokenInv'
    BY <2>2, TokenMove DEF GoTo, TokenInv
  <2>3. ASSUME NEW s, GoTo(c, s), UNCHANGED cache, pc[c] \in Answered, s \in Answered PROVE TokenInv'
    BY <2>3, TokenMove DEF GoTo, TokenInv
  <2>4. CASE SkipWarmup(c) \/ Gate(c) \/ NotSolved(c)
    BY <2>1, <2>4 DEF SkipWarmup, Gate, CheckOpen, NotSolved, sharedVars
  <2>5. CASE WarmupGET(c) \/ WarmupAgain(c)
    <3>1. \E s \in {"warmup2", "gate"} : pc' = [pc EXCEPT ![c] = s]
      BY <2>5 DEF WarmupGET, WarmupAgain
    <3> QED
      BY <2>5, <3>1, TokenMove DEF WarmupGET, WarmupAgain
  <2>6. CASE FailFast(c) \/ GetFatal(c) \/ NothingUsable(c) \/ Answer(c) \/ GiveUp(c) \/ Abandon(c)
    BY <2>6, TokenFail
    DEF FailFast, GetFatal, NothingUsable, Answer, GiveUp, Abandon, sharedVars
  <2>7. CASE Build(c)
    <3>1. CASE loop[c] = "djs" /\ cache # NoToken
      <4>1. pc' = [pc EXCEPT ![c] = "send"] /\ held' = [held EXCEPT ![c] = cache]
        BY <2>7, <3>1 DEF Build, GetVQD
      <4> QED
        BY <2>7, <3>1, <4>1 DEF Build, GetVQD, TypeOK, TokenInv, sharedVars
    <3>2. CASE loop[c] = "djs" /\ cache = NoToken
      <4>1. /\ pc' = [pc EXCEPT ![c] = "gate"] /\ loop' = [loop EXCEPT ![c] = "vqd"]
            /\ UNCHANGED <<held, cache>>
        BY <2>7, <3>2 DEF Build, GetVQD, sharedVars
      <4> QED
        BY <4>1 DEF TypeOK, TokenInv
    <3>3. CASE loop[c] # "djs"
      BY <2>1, <2>7, <3>3 DEF Build, sharedVars
    <3> QED
      BY <3>1, <3>2, <3>3
  <2>8. CASE Send(c)
    <3>1. /\ pc' = [pc EXCEPT ![c] = "await"] /\ held' = [held EXCEPT ![c] = NoToken]
          /\ UNCHANGED <<cache, loop>>
      BY <2>8 DEF Send
    <3> QED
      BY <3>1 DEF TypeOK, TokenInv, NoToken
  <2>9. CASE GetPage(c)
    <3>1. CASE loop[c] = "vqd"
      BY <2>9, <3>1 DEF GetPage, TypeOK, TokenInv, sharedVars
    <3>2. CASE loop[c] # "vqd"
      BY <2>9, <3>2, TokenMove DEF GetPage, sharedVars
    <3> QED
      BY <3>1, <3>2
  <2>10. CASE GetBlock(c) \/ GetRetryable(c)
    BY <2>2, <2>10 DEF GetBlock, GetRetryable, At, sharedVars
  <2>11. CASE Success(c) \/ SayClosed(c) \/ Credit(c)
    <3>1. UNCHANGED cache /\ pc[c] \in Answered
      BY <2>11 DEF Success, SayClosed, Credit, At
    <3>2. PICK s \in {"sayClosed", "credit", "answer"} : GoTo(c, s)
      BY <2>11 DEF Success, SayClosed, Credit, AfterSuccess
    <3> QED
      BY <2>3, <3>1, <3>2
  <2>12. CASE StoreToken(c)
    <3>1. held[c].by = c /\ c \notin held[c].burned
      BY <2>12 DEF StoreToken, At, TokenInv
    <3>2. pc' = [pc EXCEPT ![c] = "send"] /\ loop' = [loop EXCEPT ![c] = "djs"]
      BY <2>12 DEF StoreToken
    <3> QED
      BY <2>12, <3>1, <3>2 DEF StoreToken, TypeOK, TokenInv
  <2>13. CASE Blocked(c) \/ SayOpen(c) \/ Blame(c)
    <3>1. UNCHANGED cache /\ pc[c] \in Asked
      BY <2>13 DEF Blocked, SayOpen, Blame, At
    <3>2. PICK s \in {"sayOpen", "blame", "clear"} : GoTo(c, s)
      BY <2>13 DEF Blocked, SayOpen, Blame, AfterBlock
    <3> QED
      BY <2>2, <3>1, <3>2
  <2>14. CASE Clear(c)
    <3>1. held[c] = NoToken /\ cache' = NoToken /\ UNCHANGED loop
      BY <2>14 DEF Clear, ClearAllVQD, At, TokenInv
    <3>2. PICK s \in {"invalidate", "solve", "again"} : pc' = [pc EXCEPT ![c] = s]
      BY <2>14 DEF Clear, AfterClear
    <3>3. ASSUME NEW d \in Call
          PROVE  /\ held'[d].by = held[d].by
                 /\ d \in held'[d].burned => d \in held[d].burned
                 /\ held[d] = NoToken => held'[d] = NoToken
      <4>1. held'[d] = Burn(held[d], c)
        BY <2>14 DEF Clear
      <4>2. held[d] \in Token \cup {NoToken}
        BY DEF TypeOK
      <4>3. CASE held[d] = NoToken
        BY <4>1, <4>3 DEF Burn
      <4>4. CASE held[d] # NoToken
        <5>1. held'[d] = [held[d] EXCEPT !.burned = @ \cup {c}] /\ d # c
          BY <4>1, <4>4, <3>1 DEF Burn
        <5> QED
          BY <4>2, <4>4, <5>1 DEF Token
      <4> QED
        BY <4>3, <4>4
    <3> QED
      BY <3>1, <3>2, <3>3 DEF TypeOK, TokenInv, NoToken
  <2>15. CASE Invalidate(c)
    BY <2>1, <2>15 DEF Invalidate, AfterClear
  <2>16. CASE Retry(c) \/ Solved(c)
    BY <2>16, TokenMove DEF Retry, Solved, sharedVars
  <2> QED
    BY <1>1, <2>4, <2>5, <2>6, <2>7, <2>8, <2>9, <2>10, <2>11, <2>12, <2>13, <2>14, <2>15, <2>16
    DEF Step
<1>2. ASSUME NEW c \in Call, Begin(c) PROVE TokenInv'
  <2>1. \E s \in {"warmup", "gate"} : pc' = [pc EXCEPT ![c] = s]
    BY <1>2 DEF Begin, GoTo
  <2> QED
    BY <1>2, <2>1, TokenMove DEF Begin, GoTo, sharedVars
<1>3. ASSUME NEW c \in Call, EndContext(c) PROVE TokenInv'
  BY <1>3, TokenKept DEF EndContext, searchVars, sharedVars
<1>4. CASE ExpireToken
  BY <1>4 DEF ExpireToken, searchVars, TokenInv, NoToken
<1>5. CASE ExpireSession \/ PassTime \/ UNCHANGED vars
  BY <1>5, TokenKept DEF ExpireSession, PassTime, vars, searchVars, sharedVars
<1> QED
  BY <1>1, <1>2, <1>3, <1>4, <1>5 DEF Next

LEMMA TokenInvariant == Spec => [](TypeOK /\ TokenInv)
<1>1. Init => TokenInv
  BY DEF Init, TokenInv, NoToken, Asked, Answered
<1> QED
  BY <1>1, TokenStep, TypeCorrect, PTL DEF Spec

\* No search sends a token that it fetched itself before a block it has met,
\* however its retries interleave with the searches that share the cache.
THEOREM RetriesWithFreshToken == Spec => []OwnTokenFresh
<1>1. Init => OwnTokenFresh
  BY DEF Init, OwnTokenFresh
<1>2. TypeOK /\ TokenInv /\ OwnTokenFresh /\ [Next]_vars => OwnTokenFresh'
  <2> SUFFICES ASSUME TypeOK, TokenInv, OwnTokenFresh, [Next]_vars PROVE OwnTokenFresh'
    OBVIOUS
  <2>1. ASSUME NEW c \in Call, Send(c) PROVE OwnTokenFresh'
    <3>1. c \in held[c].burned => held[c].by # c
      BY DEF TokenInv
    <3> QED
      BY <2>1, <3>1 DEF Send, OwnTokenFresh, TypeOK
  <2>2. ASSUME NEW c \in Call, Finish(c) PROVE OwnTokenFresh'
    BY <2>2 DEF Finish, OwnTokenFresh, TypeOK
  <2>3. ASSUME NEW c \in Call, Fail(c) PROVE OwnTokenFresh'
    BY <2>2, <2>3 DEF Fail, OwnTokenFresh
  <2>4. ASSUME NEW c \in Call, Step(c), ~Send(c), ~Fail(c), ~Finish(c) PROVE UNCHANGED stale
    BY <2>4
    DEF Step, SkipWarmup, WarmupGET, WarmupAgain, Gate, CheckOpen, FailFast, Build, GetVQD,
        GetPage, GetBlock, GetRetryable, GetFatal, Success, SayClosed, Credit, StoreToken,
        NothingUsable, Answer, Blocked, SayOpen, Blame, Clear, Invalidate, Solved, NotSolved,
        GiveUp, Retry, Abandon, GoTo
  <2>5. ASSUME NEW c \in Call, Begin(c) \/ EndContext(c) PROVE UNCHANGED stale
    BY <2>5 DEF Begin, GoTo, EndContext, searchVars
  <2>6. CASE ExpireToken \/ ExpireSession \/ PassTime \/ UNCHANGED vars
    BY <2>6 DEF ExpireToken, ExpireSession, PassTime, vars, searchVars, OwnTokenFresh
  <2> QED
    BY <2>1, <2>2, <2>3, <2>4, <2>5, <2>6 DEF Next, OwnTokenFresh
<1> QED
  BY <1>1, <1>2, TokenInvariant, PTL DEF Spec

----------------------------------------------------------------------------
(* Requests. *)

\* What a search may have sent where it is.  An attempt of "djs" costs its own
\* request and a whole loop for a token, the fallback comes after all of them.
Spent(attempts) == attempts * (RetryMax + 1)
Warmth == IF HasSession THEN 2 ELSE 0
Early == {"idle", "warmup", "warmup2"}
Unsent == {"gate", "failFast", "wait"}
Earlier(l, t) ==
    CASE l = "djs" -> Spent(t["djs"])
      [] l = "vqd" -> Spent(t["djs"]) + t["vqd"]
      [] l = "html" -> Spent(RetryMax) + t["html"]
Cost(s, l) ==
    CASE s \in Unsent -> 0
      [] s = "send" -> IF l = "djs" THEN RetryMax ELSE 0
      [] OTHER -> IF l = "djs" THEN RetryMax + 1 ELSE 1
Allowance(c) ==
    IF pc[c] \in Early THEN (IF pc[c] = "warmup2" THEN 1 ELSE 0)
    ELSE Warmth + Earlier(loop[c], tries[c]) + Cost(pc[c], loop[c])
InBudget(c) ==
    /\ pc[c] \in Early => loop[c] = "djs" /\ tries[c] = NoTries
    /\ pc[c] \in {"warmup", "warmup2"} => HasSession
    /\ loop[c] = "djs" => tries[c]["vqd"] = 0
    /\ sent[c] <= Allowance(c)
BoundInv == \A c \in Call : InBudget(c)

LEMMA SpentFacts ==
    /\ Spent(0) = 0 /\ Spent(RetryMax) \in Nat
    /\ \A i \in 0..(RetryMax - 1) :
          /\ Spent(i) \in Nat
          /\ Spent(i + 1) = Spent(i) + RetryMax + 1
          /\ Spent(i) + RetryMax + 1 <= Spent(RetryMax)
    /\ SearchBound = Warmth + Spent(RetryMax) + RetryMax
<1> USE LoopAssumption DEF Spent
<1>1. Spent(0) = 0 /\ Spent(RetryMax) \in Nat
  OBVIOUS
<1>2. ASSUME NEW i \in 0..(RetryMax - 1)
      PROVE  /\ Spent(i) \in Nat
             /\ Spent(i + 1) = Spent(i) + RetryMax + 1
             /\ Spent(i) + RetryMax + 1 <= Spent(RetryMax)
  <2>1. i \in Nat /\ i + 1 <= RetryMax
    OBVIOUS
  <2>2. (i + 1) * (RetryMax + 1) <= RetryMax * (RetryMax + 1)
    BY <2>1
  <2> QED
    BY <2>1, <2>2
<1>3. SearchBound = Warmth + Spent(RetryMax) + RetryMax
  BY DEF SearchBound, Warmth
<1> QED
  BY <1>1, <1>2, <1>3

LEMMA Tries ==
    ASSUME TypeOK, NEW c \in Call
    PROVE  /\ \A l \in Loop : tries[c][l] \in 0..(RetryMax - 1)
           /\ tries[c]["djs"] \in 0..(RetryMax - 1) /\ tries[c]["vqd"] \in 0..(RetryMax - 1)
           /\ tries[c]["html"] \in 0..(RetryMax - 1)
           /\ loop[c] \in {"djs", "vqd", "html"} /\ pc[c] \in PC
           /\ sent[c] \in Nat /\ Warmth \in Nat /\ RetryMax \in Nat \ {0}
BY LoopAssumption DEF TypeOK, Loop, Warmth

LEMMA EarlierType ==
    ASSUME TypeOK, NEW c \in Call
    PROVE  Earlier(loop[c], tries[c]) \in Nat
BY Tries, SpentFacts DEF Earlier

LEMMA CostType ==
    ASSUME NEW s, NEW l
    PROVE  Cost(s, l) \in 0..(RetryMax + 1) /\ (l # "djs" => Cost(s, l) \in {0, 1})
BY LoopAssumption DEF Cost

\* Outside the fallback an allowance stops short of it; nowhere does it exceed
\* the bound.
LEMMA AllowanceBounded ==
    ASSUME TypeOK, NEW c \in Call
    PROVE  /\ Earlier(loop[c], tries[c]) + Cost(pc[c], loop[c]) <= Spent(RetryMax) + RetryMax
           /\ loop[c] # "html" =>
                 Earlier(loop[c], tries[c]) + Cost(pc[c], loop[c]) <= Spent(RetryMax)
BY Tries, SpentFacts, CostType DEF Earlier

LEMMA WithinBound ==
    ASSUME TypeOK, NEW c \in Call, InBudget(c)
    PROVE  sent[c] <= SearchBound
<1> DEFINE e == Earlier(loop[c], tries[c])
           k == Cost(pc[c], loop[c])
<1>1. /\ e \in Nat /\ k \in Nat /\ e + k <= Spent(RetryMax) + RetryMax
      /\ Spent(RetryMax) \in Nat /\ RetryMax \in Nat \ {0} /\ sent[c] \in Nat
      /\ SearchBound = Warmth + Spent(RetryMax) + RetryMax
  BY EarlierType, CostType, AllowanceBounded, SpentFacts, Tries
<1>2. Warmth \in Nat /\ (pc[c] \in Early => sent[c] <= Warmth)
  BY <1>1 DEF InBudget, Allowance, Early, Warmth
<1>3. pc[c] \notin Early => sent[c] <= Warmth + e + k
  BY DEF InBudget, Allowance
<1> HIDE DEF e, k
<1> QED
  BY <1>1, <1>2, <1>3

\* What a step of one search leaves alone in another.
Kept(d) ==
    /\ pc'[d] = pc[d] /\ loop'[d] = loop[d]
    /\ tries'[d] = tries[d] /\ sent'[d] = sent[d]

LEMMA BudgetKept ==
    ASSUME NEW d \in Call, Kept(d), InBudget(d)
    PROVE  InBudget(d)'
BY DEF Kept, InBudget, Allowance

LEMMA OthersKept ==
    ASSUME TypeOK, NEW c \in Call, Step(c) \/ Begin(c), NEW d \in Call \ {c}
    PROVE  Kept(d)
<1> USE DEF Kept
<1>1. ASSUME NEW s, GoTo(c, s) PROVE Kept(d)
  BY <1>1 DEF GoTo, TypeOK
<1>2. ASSUME Finish(c) PROVE Kept(d)
  BY <1>2 DEF Finish, TypeOK
<1>3. ASSUME Fail(c) PROVE Kept(d)
  BY <1>2, <1>3 DEF Fail, TypeOK
<1>4. ASSUME WarmupGET(c) \/ WarmupAgain(c) \/ Send(c) PROVE Kept(d)
  BY <1>4 DEF WarmupGET, WarmupAgain, Send, CountSent, TypeOK
<1>5. ASSUME Build(c) \/ GetPage(c) \/ StoreToken(c) \/ Clear(c) \/ Solved(c) \/ Retry(c)
      PROVE  Kept(d)
  BY <1>1, <1>5 DEF Build, GetVQD, GetPage, StoreToken, Clear, Solved, Retry, NextAttempt, TypeOK
<1>6. CASE SkipWarmup(c) \/ Gate(c) \/ GetBlock(c) \/ GetRetryable(c) \/ Success(c)
           \/ SayClosed(c) \/ Credit(c) \/ Blocked(c) \/ SayOpen(c) \/ Blame(c)
           \/ Invalidate(c) \/ NotSolved(c) \/ Begin(c)
  BY <1>1, <1>6 DEF SkipWarmup, Gate, CheckOpen, GetBlock, GetRetryable, Success, SayClosed,
     Credit, Blocked, SayOpen, Blame, Invalidate, NotSolved, Begin
<1>7. CASE FailFast(c) \/ GetFatal(c) \/ NothingUsable(c) \/ Answer(c) \/ GiveUp(c) \/ Abandon(c)
  BY <1>2, <1>3, <1>7 DEF FailFast, GetFatal, NothingUsable, Answer, GiveUp, Abandon
<1> QED
  BY <1>4, <1>5, <1>6, <1>7 DEF Step

\* A search moves on within an attempt.
LEMMA BudgetMove ==
    ASSUME TypeOK, NEW c \in Call, InBudget(c),
           pc[c] \notin Early, pc'[c] \notin Early,
           loop'[c] = loop[c], tries'[c] = tries[c], sent'[c] = sent[c],
           Cost(pc[c], loop[c]) <= Cost(pc'[c], loop[c])
    PROVE  InBudget(c)'
<1> DEFINE e == Earlier(loop[c], tries[c])
           k == Cost(pc[c], loop[c])
           n == Cost(pc'[c], loop[c])
<1>1. e \in Nat /\ k \in Nat /\ n \in Nat /\ sent[c] \in Nat /\ Warmth \in Nat
  BY EarlierType, CostType, LoopAssumption, Tries
<1>2. sent[c] <= Warmth + e + k /\ k <= n
  BY DEF InBudget, Allowance
<1>3. Allowance(c)' = Warmth + e + n
  BY DEF Allowance, Warmth, Earlier, Spent
<1>4. sent'[c] <= Warmth + e + n
  <2> HIDE DEF e, k, n
  <2> QED
    BY <1>1, <1>2
<1> HIDE DEF e, k, n
<1> QED
  BY <1>3, <1>4 DEF InBudget, Early

\* A loop fails.
LEMMA BudgetFail ==
    ASSUME TypeOK, NEW c \in Call, InBudget(c), pc[c] \notin Early, Fail(c) \/ Finish(c)
    PROVE  InBudget(c)'
<1>1. CASE Finish(c)
  <2>1. /\ pc'[c] = "idle" /\ loop'[c] = "djs" /\ tries'[c] = NoTries /\ sent'[c] = 0
    BY <1>1 DEF Finish, TypeOK
  <2> QED
    BY <2>1 DEF InBudget, Allowance, Early, NoTries, Loop
<1>2. CASE ~Finish(c)
  <2> DEFINE e == Earlier(loop[c], tries[c])
             k == Cost(pc[c], loop[c])
  <2>1. /\ pc'[c] = "gate" /\ loop'[c] = "html" /\ tries'[c] = NoTries
        /\ sent'[c] = sent[c] /\ loop[c] # "html"
    BY <1>2 DEF Fail, TypeOK
  <2>2. /\ e \in Nat /\ k \in Nat /\ sent[c] \in Nat /\ Warmth \in Nat
        /\ Spent(RetryMax) \in Nat /\ e + k <= Spent(RetryMax)
    BY <2>1, EarlierType, CostType, LoopAssumption, Tries, AllowanceBounded, SpentFacts
  <2>3. sent[c] <= Warmth + e + k
    BY DEF InBudget, Allowance
  <2>4. Allowance(c)' = Warmth + (Spent(RetryMax) + 0) + 0
    BY <2>1 DEF Allowance, Earlier, Cost, Early, Unsent, NoTries, Loop, Warmth, Spent
  <2>5. sent'[c] <= Warmth + (Spent(RetryMax) + 0) + 0
    <3> HIDE DEF e, k
    <3> QED
      BY <2>1, <2>2, <2>3
  <2> HIDE DEF e, k
  <2> QED
    BY <2>1, <2>4, <2>5 DEF InBudget, Early
<1> QED
  BY <1>1, <1>2

LEMMA StepBudget ==
    ASSUME TypeOK, NEW c \in Call, InBudget(c), Step(c)
    PROVE  InBudget(c)'
<1> USE DEF At
<1>1. ASSUME NEW s, GoTo(c, s), pc[c] \notin Early, s \notin Early,
             Cost(pc[c], loop[c]) <= Cost(s, loop[c])
      PROVE  InBudget(c)'
  <2>1. /\ pc'[c] = s /\ loop'[c] = loop[c] /\ tries'[c] = tries[c] /\ sent'[c] = sent[c]
    BY <1>1 DEF GoTo, TypeOK
  <2> QED
    BY <1>1, <2>1, BudgetMove
\* The states whose request has left cost the same.
<1>2. ASSUME NEW s \in PC \ (Early \cup Unsent \cup {"send"}),
             NEW t \in PC \ (Early \cup Unsent \cup {"send"})
      PROVE  Cost(s, loop[c]) <= Cost(t, loop[c])
  BY LoopAssumption DEF Cost
<1>3. ASSUME NEW s \in PC \ (Early \cup Unsent \cup {"send"}), GoTo(c, s),
             pc[c] \in PC \ (Early \cup Unsent \cup {"send"})
      PROVE  InBudget(c)'
  BY <1>1, <1>2, <1>3
<1>4. CASE GetBlock(c) \/ GetRetryable(c) \/ Success(c) \/ SayClosed(c) \/ Credit(c)
           \/ Blocked(c) \/ SayOpen(c) \/ Blame(c) \/ Invalidate(c) \/ NotSolved(c)
  <2>1. pc[c] \in PC \ (Early \cup Unsent \cup {"send"})
    BY <1>4 DEF GetBlock, GetRetryable, Success, SayClosed, Credit, Blocked, SayOpen, Blame,
       Invalidate, NotSolved, PC, Early, Unsent
  <2>2. \E s \in PC \ (Early \cup Unsent \cup {"send"}) : GoTo(c, s)
    BY <1>4 DEF GetBlock, GetRetryable, Success, SayClosed, Credit, Blocked, SayOpen, Blame,
       Invalidate, NotSolved, AfterSuccess, AfterBlock, AfterClear, PC, Early, Unsent
  <2> QED
    BY <1>3, <2>1, <2>2
<1>5. CASE GetPage(c) \/ Clear(c)
  <2>1. /\ pc[c] \in {"await", "clear"}
        /\ pc'[c] \in {"success", "invalidate", "solve", "again"}
        /\ loop'[c] = loop[c] /\ tries'[c] = tries[c] /\ sent'[c] = sent[c]
    BY <1>5 DEF GetPage, Clear, AfterClear, TypeOK
  <2>2. Cost(pc[c], loop[c]) <= Cost(pc'[c], loop[c])
    BY <2>1, <1>2 DEF PC, Early, Unsent
  <2> QED
    BY <2>1, <2>2, BudgetMove DEF Early
<1>6. CASE Gate(c)
  <2>1. \E s \in {"failFast", "wait"} : GoTo(c, s)
    BY <1>6 DEF Gate, CheckOpen
  <2> QED
    BY <1>1, <1>6, <2>1 DEF Gate, Cost, Early, Unsent
<1>7. CASE Solved(c)
  <2>1. /\ pc'[c] = "gate" /\ loop'[c] = loop[c] /\ tries'[c] = tries[c] /\ sent'[c] = 0
    BY <1>7 DEF Solved, TypeOK
  <2>2. Allowance(c)' = Warmth + Earlier(loop[c], tries[c]) + 0
    BY <2>1 DEF Allowance, Early, Unsent, Warmth, Earlier, Cost, Spent
  <2>3. sent'[c] <= Allowance(c)'
    BY <2>1, <2>2, EarlierType, Tries
  <2> QED
    BY <2>1, <2>3 DEF InBudget, Early
<1>8. CASE FailFast(c) \/ GetFatal(c) \/ NothingUsable(c) \/ Answer(c) \/ GiveUp(c) \/ Abandon(c)
  <2>1. pc[c] \notin Early
    BY <1>8 DEF FailFast, GetFatal, NothingUsable, Answer, GiveUp, Abandon, Early
  <2>2. Fail(c) \/ Finish(c)
    BY <1>8 DEF FailFast, GetFatal, NothingUsable, Answer, GiveUp, Abandon
  <2> QED
    BY <2>1, <2>2, BudgetFail
<1>9. CASE SkipWarmup(c)
  <2>1. /\ pc[c] = "warmup" /\ pc'[c] = "gate" /\ loop'[c] = loop[c] /\ tries'[c] = tries[c]
        /\ sent'[c] = sent[c]
    BY <1>9 DEF SkipWarmup, GoTo, TypeOK
  <2>2. Allowance(c)' = 2
    BY <2>1, SpentFacts
    DEF InBudget, Allowance, Early, Unsent, Warmth, Earlier, Cost, NoTries, Loop, Spent
  <2>3. sent[c] <= 0
    BY <2>1 DEF InBudget, Allowance, Early
  <2> QED
    BY <2>1, <2>2, <2>3, Tries DEF InBudget, Early, NoTries, Loop
<1>10. CASE WarmupGET(c) \/ WarmupAgain(c)
  <2>1. /\ \/ pc[c] = "warmup" /\ pc'[c] \in {"warmup2", "gate"}
           \/ pc[c] = "warmup2" /\ pc'[c] = "gate"
        /\ loop'[c] = loop[c] /\ tries'[c] = tries[c]
    BY <1>10 DEF WarmupGET, WarmupAgain, TypeOK
  <2>2. sent'[c] \in {sent[c], sent[c] + 1}
    BY <1>10 DEF WarmupGET, WarmupAgain, CountSent, TypeOK
  <2>3. /\ pc'[c] = "gate" => Allowance(c)' = 2
        /\ pc'[c] = "warmup2" => Allowance(c)' = 1
    BY <2>1, SpentFacts
    DEF InBudget, Allowance, Early, Unsent, Warmth, Earlier, Cost, NoTries, Loop, Spent
  <2>4. sent[c] <= (IF pc[c] = "warmup2" THEN 1 ELSE 0)
    BY <2>1 DEF InBudget, Allowance, Early
  <2>5. HasSession /\ loop[c] = "djs" /\ tries[c] = NoTries
    BY <2>1 DEF InBudget, Early
  <2>6. sent'[c] <= Allowance(c)'
    BY <2>1, <2>2, <2>3, <2>4, Tries
  <2> QED
    BY <2>1, <2>2, <2>5, <2>6 DEF InBudget, Early, NoTries, Loop
<1>11. CASE Build(c)
  <2>1. CASE loop[c] = "djs" /\ cache = NoToken
    <3>1. /\ pc[c] = "wait" /\ pc'[c] = "gate" /\ loop[c] = "djs" /\ loop'[c] = "vqd"
          /\ tries'[c] = tries[c] /\ sent'[c] = sent[c] /\ tries[c]["vqd"] = 0
      BY <1>11, <2>1 DEF Build, GetVQD, TypeOK, InBudget
    <3>2. /\ Allowance(c) = Warmth + Spent(tries[c]["djs"]) + 0
          /\ Allowance(c)' = Warmth + (Spent(tries[c]["djs"]) + tries[c]["vqd"]) + 0
      BY <3>1 DEF Allowance, Early, Unsent, Warmth, Earlier, Cost, Spent
    <3>3. Allowance(c)' = Allowance(c)
      BY <3>1, <3>2, Tries, SpentFacts
    <3> QED
      BY <3>1, <3>3 DEF InBudget, Early
  <2>2. CASE ~(loop[c] = "djs" /\ cache = NoToken)
    <3>1. /\ pc[c] = "wait" /\ pc'[c] = "send" /\ loop'[c] = loop[c]
          /\ tries'[c] = tries[c] /\ sent'[c] = sent[c]
      BY <1>11, <2>2 DEF Build, GetVQD, GoTo, TypeOK
    <3>2. Cost(pc[c], loop[c]) <= Cost(pc'[c], loop[c])
      BY <3>1, LoopAssumption DEF Cost, Unsent
    <3> QED
      BY <3>1, <3>2, BudgetMove DEF Early
  <2> QED
    BY <2>1, <2>2
<1>12. CASE Send(c)
  <2>1. /\ pc[c] = "send" /\ pc'[c] = "await" /\ loop'[c] = loop[c] /\ tries'[c] = tries[c]
    BY <1>12 DEF Send, TypeOK
  <2>2. sent'[c] \in {sent[c], sent[c] + 1}
    BY <1>12 DEF Send, CountSent, TypeOK
  <2>3. sent[c] <= Allowance(c)
    BY DEF InBudget
  <2>4. Allowance(c)' = Allowance(c) + 1 /\ Allowance(c) \in Nat
    BY <2>1, Tries, SpentFacts DEF Allowance, Early, Unsent, Warmth, Earlier, Cost, Spent
  <2>5. sent'[c] <= Allowance(c)'
    BY <2>2, <2>3, <2>4, Tries
  <2> QED
    BY <2>1, <2>2, <2>5 DEF InBudget, Early
<1>13. CASE StoreToken(c)
  <2>1. /\ pc[c] = "answer" /\ pc'[c] = "send" /\ loop[c] = "vqd" /\ loop'[c] = "djs"
        /\ tries'[c]["djs"] = tries[c]["djs"] /\ tries'[c]["vqd"] = 0 /\ sent'[c] = sent[c]
    BY <1>13 DEF StoreToken, TypeOK, Loop
  <2>2. /\ Allowance(c) = Warmth + (Spent(tries[c]["djs"]) + tries[c]["vqd"]) + 1
        /\ Allowance(c)' = Warmth + Spent(tries[c]["djs"]) + RetryMax
    BY <2>1 DEF Allowance, Early, Unsent, Warmth, Earlier, Cost, Spent
  <2>3. Allowance(c) <= Allowance(c)' /\ Allowance(c) \in Nat /\ Allowance(c)' \in Nat
    BY <2>2, Tries, SpentFacts
  <2>4. sent'[c] <= Allowance(c)'
    BY <2>1, <2>3, Tries DEF InBudget
  <2> QED
    BY <2>1, <2>4 DEF InBudget, Early
<1>14. CASE Retry(c)
  <2>1. /\ pc[c] = "again" /\ pc'[c] = "gate" /\ loop'[c] = loop[c] /\ sent'[c] = sent[c]
        /\ tries[c][loop[c]] # RetryMax - 1
        /\ tries'[c] = [tries[c] EXCEPT ![loop[c]] = @ + 1]
    BY <1>14 DEF Retry, NextAttempt, IsLast, Attempt, TypeOK
  <2>2. /\ tries[c] \in [Loop -> 0..(RetryMax - 1)] /\ {"djs", "vqd", "html"} = Loop
        /\ \A i \in 0..(RetryMax - 1) : i # RetryMax - 1 => i + 1 \in 0..(RetryMax - 1)
    BY LoopAssumption DEF TypeOK, Loop
  <2>3. CASE loop[c] = "djs"
    <3>1. tries'[c]["djs"] = tries[c]["djs"] + 1 /\ tries'[c]["vqd"] = tries[c]["vqd"]
      BY <2>1, <2>2, <2>3
    <3>2. /\ Allowance(c) = Warmth + Spent(tries[c]["djs"]) + (RetryMax + 1)
          /\ Allowance(c)' = Warmth + Spent(tries[c]["djs"] + 1) + 0
      BY <2>1, <2>3, <3>1 DEF Allowance, Early, Unsent, Warmth, Earlier, Cost, Spent
    <3>3. Allowance(c)' = Allowance(c)
      BY <3>2, Tries, SpentFacts
    <3> QED
      BY <2>1, <3>1, <3>3 DEF InBudget, Early
  <2>4. CASE loop[c] = "vqd"
    <3>1. tries'[c]["djs"] = tries[c]["djs"] /\ tries'[c]["vqd"] = tries[c]["vqd"] + 1
      BY <2>1, <2>2, <2>4
    <3>2. /\ Allowance(c) = Warmth + (Spent(tries[c]["djs"]) + tries[c]["vqd"]) + 1
          /\ Allowance(c)' = Warmth + (Spent(tries[c]["djs"]) + (tries[c]["vqd"] + 1)) + 0
      BY <2>1, <2>4, <3>1 DEF Allowance, Early, Unsent, Warmth, Earlier, Cost, Spent
    <3>3. Allowance(c)' = Allowance(c)
      BY <3>2, Tries, SpentFacts
    <3> QED
      BY <2>1, <2>4, <3>1, <3>3 DEF InBudget, Early
  <2>5. CASE loop[c] = "html"
    <3>1. tries'[c]["html"] = tries[c]["html"] + 1
      BY <2>1, <2>2, <2>5
    <3>2. /\ Allowance(c) = Warmth + (Spent(RetryMax) + tries[c]["html"]) + 1
          /\ Allowance(c)' = Warmth + (Spent(RetryMax) + (tries[c]["html"] + 1)) + 0
      BY <2>1, <2>5, <3>1 DEF Allowance, Early, Unsent, Warmth, Earlier, Cost, Spent
    <3>3. Allowance(c)' = Allowance(c)
      BY <3>2, Tries, SpentFacts
    <3> QED
      BY <2>1, <2>5, <3>1, <3>3 DEF InBudget, Early
  <2> QED
    BY <2>3, <2>4, <2>5, Tries
<1> QED
  BY <1>4, <1>5, <1>6, <1>7, <1>8, <1>9, <1>10, <1>11, <1>12, <1>13, <1>14 DEF Step

LEMMA BoundStep == TypeOK /\ BoundInv /\ [Next]_vars => BoundInv'
<1> SUFFICES ASSUME TypeOK, BoundInv, [Next]_vars PROVE BoundInv'
  OBVIOUS
<1>1. ASSUME NEW c \in Call, Step(c) \/ Begin(c), InBudget(c)' PROVE BoundInv'
  BY <1>1, OthersKept, BudgetKept DEF BoundInv
<1>2. ASSUME NEW c \in Call, Step(c) PROVE BoundInv'
  BY <1>1, <1>2, StepBudget DEF BoundInv
<1>3. ASSUME NEW c \in Call, Begin(c) PROVE BoundInv'
  <2>1. /\ pc[c] = "idle" /\ pc'[c] \in {"warmup", "gate"}
        /\ pc'[c] = "warmup" => HasSession
        /\ loop'[c] = loop[c] /\ tries'[c] = tries[c] /\ sent'[c] = sent[c]
    BY <1>3 DEF Begin, At, GoTo, TypeOK
  <2>2. /\ sent[c] <= 0
        /\ loop[c] = "djs" /\ tries[c] = NoTries
    BY <2>1, <1>3 DEF BoundInv, InBudget, Allowance, Early
  <2>3. /\ pc'[c] = "warmup" => Allowance(c)' = 0
        /\ pc'[c] = "gate" => Allowance(c)' \in Nat
    <3>1. pc'[c] = "warmup" => Allowance(c)' = 0
      BY DEF Allowance, Early
    <3>2. pc'[c] = "gate" => Allowance(c)' = Warmth + Spent(0) + 0
      BY <2>1, <2>2
      DEF Allowance, Early, Unsent, Warmth, Earlier, Cost, NoTries, Loop, Spent
    <3> QED
      BY <3>1, <3>2, SpentFacts, Tries
  <2>4. sent'[c] <= Allowance(c)'
    BY <2>1, <2>2, <2>3, Tries
  <2>5. InBudget(c)'
    BY <2>1, <2>2, <2>4 DEF InBudget, Early, NoTries, Loop
  <2> QED
    BY <1>1, <1>3, <2>5
<1>4. ASSUME UNCHANGED searchVars PROVE BoundInv'
  BY <1>4, BudgetKept DEF searchVars, BoundInv, Kept
<1>5. ASSUME NEW c \in Call, EndContext(c) PROVE BoundInv'
  BY <1>4, <1>5 DEF EndContext
<1>6. CASE ExpireToken \/ ExpireSession \/ PassTime \/ UNCHANGED vars
  BY <1>4, <1>6 DEF ExpireToken, ExpireSession, PassTime, vars
<1> QED
  BY <1>2, <1>3, <1>5, <1>6 DEF Next

\* Whatever the server answers and whatever other searches do to the token cache,
\* the breaker and the session, one search sends no more than its three loops
\* and the warm-up allow, and after each challenge that a solver solves no more than
\* that again.
THEOREM SearchIsBounded == Spec => []RequestsBounded
<1>1. Init => BoundInv
  <2> SUFFICES ASSUME Init, NEW c \in Call PROVE InBudget(c)
    BY DEF BoundInv
  <2> QED
    BY DEF Init, InBudget, Allowance, Early, NoTries, Loop
<1>2. TypeOK /\ BoundInv => RequestsBounded
  BY WithinBound DEF BoundInv, RequestsBounded
<1> QED
  BY <1>1, <1>2, BoundStep, TypeCorrect, PTL DEF Spec

----------------------------------------------------------------------------
(* The proxies. *)

\* The transport's last proxy carried the last request of whoever asks.
BlameInv ==
    /\ fails = earned
    /\ \A c \in Call : carrier[c] = lastProxy

LEMMA BlameKept == BlameInv /\ UNCHANGED proxyVars => BlameInv'
BY DEF BlameInv, proxyVars, poolVars

\* One goroutine that searches at a time: the proxies are cleared and put in
\* their cooldown for the requests they carried.
THEOREM BlameIsEarned ==
    ASSUME \A c, d \in Call : c = d
    PROVE  Spec => []BlameEarned
<1>1. Init => BlameInv
  BY DEF Init, PoolInit, BlameInv
<1>2. TypeOK /\ BlameInv /\ [Next]_vars => BlameInv'
  <2> SUFFICES ASSUME TypeOK, BlameInv, [Next]_vars PROVE BlameInv'
    OBVIOUS
  <2>1. ASSUME NEW c \in Call, NEW e, RoundTrip(c, e) PROVE BlameInv'
    <3>1. CASE HasPool
      <4>1. lastProxy' = e /\ carrier' = [carrier EXCEPT ![c] = e] /\ UNCHANGED <<fails, earned>>
        BY <2>1, <3>1 DEF RoundTrip, NextProxy, poolVars
      <4>2. \A d \in Call : carrier'[d] = e
        BY <4>1 DEF TypeOK
      <4> QED
        BY <4>1, <4>2 DEF BlameInv
    <3>2. CASE ~HasPool
      BY <2>1, <3>2, BlameKept DEF RoundTrip
    <3> QED
      BY <3>1, <3>2
  <2>2. ASSUME NEW c \in Call, Step(c) PROVE BlameInv'
    <3>1. CASE WarmupGET(c) \/ WarmupAgain(c) \/ Send(c)
      BY <2>1, <3>1 DEF WarmupGET, WarmupAgain, Send
    <3>2. CASE Credit(c)
      <4>1. carrier[c] = lastProxy
        BY DEF BlameInv
      <4> QED
        BY <3>2, <4>1 DEF Credit, MarkSuccess, BlameInv
    <3>3. CASE Blame(c)
      <4>1. carrier[c] = lastProxy
        BY DEF BlameInv
      <4> QED
        BY <3>3, <4>1 DEF Blame, MarkFailed, BlameInv
    <3>4. CASE ~(WarmupGET(c) \/ WarmupAgain(c) \/ Send(c) \/ Credit(c) \/ Blame(c))
      <4>1. UNCHANGED proxyVars
        BY <2>2, <3>4
        DEF Step, SkipWarmup, Gate, FailFast, Build, GetPage, GetBlock, GetRetryable, GetFatal,
            Success, SayClosed, StoreToken, NothingUsable, Answer, Blocked, SayOpen, Clear,
            Invalidate, Solved, NotSolved, GiveUp, Retry, Abandon, sharedVars, routeVars
      <4> QED
        BY <4>1, BlameKept
    <3> QED
      BY <3>1, <3>2, <3>3, <3>4
  <2>3. ASSUME NEW c \in Call, Begin(c) \/ EndContext(c) PROVE BlameInv'
    BY <2>3, BlameKept DEF Begin, EndContext, sharedVars, routeVars
  <2>4. CASE ExpireToken \/ ExpireSession \/ UNCHANGED vars
    BY <2>4, BlameKept DEF ExpireToken, ExpireSession, vars, sharedVars, routeVars
  <2>5. CASE PassTime
    BY <2>5 DEF PassTime, PoolTick, BlameInv
  <2> QED
    BY <2>2, <2>3, <2>4, <2>5 DEF Next
<1>3. BlameInv => BlameEarned
  BY DEF BlameInv, BlameEarned
<1> QED
  BY <1>1, <1>2, <1>3, TypeCorrect, PTL DEF Spec
=============================================================================
