----------------------------- MODULE RateLimiter -----------------------------
(***************************************************************************)
(* AdaptiveRateLimiter of timing.go.  Its methods hold the mutex; only the    *)
(* sleep of Wait is outside, after the slot was reserved.  lastReq is kept    *)
(* as its distance from now, which is negative for the past and, before the   *)
(* first request, as far back as matters.                                    *)
(***************************************************************************)
EXTENDS Integers, Sequences, FiniteSets

CONSTANTS
    Sleeper,        \* goroutines that may call Wait
    Base, MaxDelay  \* bounds of the delay; nothing keeps the base below the maximum

ASSUME LimiterAssumption == Base \in Nat \ {0} /\ MaxDelay \in Nat \ {0}

VARIABLES
    current,
    lastReq,
    left,   \* what is left of each sleeper's wait
    slots   \* history: the reserved slots that lie ahead, abandoned ones included

limiterVars == <<current, lastReq, left, slots>>

\* The least and the greatest of two numbers, of the delay, and of what the clamp
\* of Wait lets pass.
Lesser(a, b) == IF a <= b THEN a ELSE b
Greater(a, b) == IF a <= b THEN b ELSE a
DelayRange == Lesser(Base, MaxDelay)..Greater(Base, MaxDelay)
ShortestGap == Lesser(Base \div 2, 2 * MaxDelay)
LongestGap == Greater(Base \div 2, 2 * MaxDelay)
LongAgo == -LongestGap

LimiterTypeOK ==
    /\ current \in DelayRange
    /\ lastReq \in Int /\ lastReq >= LongAgo
    /\ left \in [Sleeper -> Nat]
    /\ slots \in Seq(Nat \ {0})

LimiterInit ==
    /\ current = Base
    /\ lastReq = LongAgo
    /\ left = [c \in Sleeper |-> 0]
    /\ slots = <<>>

Clamp(d, lo, hi) == IF d < lo THEN lo ELSE IF d > hi THEN hi ELSE d

\* A draw far below the mean and one far above it: many standard deviations are
\* rare and possible.
Gaussian(mean) == {-mean, 3 * mean}
Unclamped == Gaussian(current)
Jittered == {Clamp(d, Base \div 2, 2 * MaxDelay) : d \in Gaussian(current)}

ReserveAlone(c) ==
    \E d \in Jittered :
       LET wait == IF lastReq + d > 0 THEN lastReq + d ELSE 0
       IN /\ lastReq' = wait
          /\ left' = [left EXCEPT ![c] = IF wait > 0 THEN d ELSE 0]
          /\ slots' = IF wait > 0 THEN Append(slots, wait) ELSE slots
          /\ UNCHANGED current
\* Wait up to its unlock: the slot is reserved before the sleep.
Reserve(c) ==
    \E d \in Jittered :
       LET wait == IF lastReq + d > 0 THEN lastReq + d ELSE 0
       IN /\ lastReq' = wait
          /\ left' = [left EXCEPT ![c] = wait]
          /\ slots' = IF wait > 0 THEN Append(slots, wait) ELSE slots
          /\ UNCHANGED current
\* The context ends the sleep.  The reservation stays.
GiveUpSlot(c) == left' = [left EXCEPT ![c] = 0] /\ UNCHANGED <<current, lastReq, slots>>

DoubleDelay == current' = 2 * current /\ UNCHANGED <<lastReq, left, slots>>
OnBlock ==
    /\ current' = Clamp(2 * current, Base, MaxDelay)
    /\ UNCHANGED <<lastReq, left, slots>>
OnSuccess ==
    LET shrunk == (current * 85) \div 100
    IN /\ current' = IF shrunk < Base THEN Base ELSE shrunk
       /\ UNCHANGED <<lastReq, left, slots>>

\* Time passes, and the slots that were one unit ahead begin.
Due == Cardinality({i \in DOMAIN slots : slots[i] = 1})
LimiterTick ==
    /\ lastReq' = IF lastReq > LongAgo THEN lastReq - 1 ELSE LongAgo
    /\ left' = [c \in Sleeper |-> IF left[c] > 0 THEN left[c] - 1 ELSE 0]
    /\ slots' = [i \in 1..(Len(slots) - Due) |-> slots[i + Due] - 1]
    /\ UNCHANGED current

\* Whoever waits, gives up or comes back in whatever order, the queue of slots
\* ahead, abandoned ones included, keeps the gaps that Wait draws: none below the
\* shortest and none beyond the longest.  The shortest is half the base, or twice
\* the maximum where that is less: not the base, which antibot.go:45 calls the
\* minimum delay between requests.
SlotsSpaced ==
    \A i \in 1..Len(slots) :
       LET before == IF i = 1 THEN 0 ELSE slots[i - 1]
       IN /\ i > 1 => slots[i] - before >= ShortestGap
          /\ slots[i] - before <= LongestGap

\* What the slots are for: however many callers sleep in Wait, and whoever gave up
\* or came back meanwhile, no two of them wake within the shortest gap.  Two may
\* wake half a base apart.
SleepersApart ==
    \A c, d \in Sleeper :
       (c # d /\ left[c] > 0 /\ left[d] > 0) =>
          \/ left[c] - left[d] >= ShortestGap
          \/ left[d] - left[c] >= ShortestGap
=============================================================================
