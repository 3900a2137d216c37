------------------------------ MODULE ProxyPool ------------------------------
(***************************************************************************)
(* ProxyPool of proxypool.go, whose methods hold its mutex.  The entries are  *)
(* 1..NProxy in their order.  An entry's lastFail is the time that is left    *)
(* until its cooldown is over, and consecutiveFails stops counting at         *)
(* MaxFails: beyond it the value is only reported.                           *)
(***************************************************************************)
EXTENDS Integers, FiniteSets

CONSTANTS
    NProxy,     \* entries, 0 for no pool
    MaxFails,
    Rest,       \* the pool's cooldown
    Rotation,   \* "roundRobin", "random" or "weighted"
    Weight,     \* the entries' weights
    Cycle       \* bound: the index is kept modulo a multiple of every number of
                \* available entries, which is all that it is used modulo

Proxy == 1..NProxy
NoProxy == 0

ASSUME PoolAssumption ==
    /\ NProxy \in Nat /\ MaxFails \in Nat \ {0} /\ Rest \in Nat \ {0}
    /\ Rotation \in {"roundRobin", "random", "weighted"}
    /\ Weight \in [Proxy -> Nat]
    /\ Cycle \in Nat \ {0} /\ \A k \in Proxy : Cycle % k = 0

VARIABLES fails, resting, rrIndex

poolVars == <<fails, resting, rrIndex>>

PoolTypeOK ==
    /\ fails \in [Proxy -> 0..MaxFails]
    /\ resting \in [Proxy -> 0..Rest]
    /\ rrIndex \in 0..(Cycle - 1)

PoolInit ==
    /\ fails = [p \in Proxy |-> 0]
    /\ resting = [p \in Proxy |-> 0]
    /\ rrIndex = 0

Available == {p \in Proxy : fails[p] < MaxFails \/ resting[p] = 0}

InTurn == CHOOSE p \in Available :
            Cardinality({q \in Available : q < p}) = rrIndex % Cardinality(Available)
\* Any entry with a weight may be drawn, and any entry at all when none has one.
Weighted ==
    LET heavy == {p \in Available : Weight[p] > 0}
    IN IF heavy = {} THEN Available ELSE heavy

\* Next returns e, or none when every entry is in its cooldown.
NextProxy(e) ==
    IF Available = {} THEN e = NoProxy /\ UNCHANGED poolVars
    ELSE /\ e \in CASE Rotation = "roundRobin" -> {InTurn}
                    [] Rotation = "random" -> Available
                    [] Rotation = "weighted" -> Weighted
         /\ rrIndex' = IF Rotation = "roundRobin" THEN (rrIndex + 1) % Cycle ELSE rrIndex
         /\ UNCHANGED <<fails, resting>>

\* One more failure of an entry, in a count that stops at MaxFails.
Failed(count, e) == [p \in Proxy |-> IF p = e /\ count[p] < MaxFails THEN count[p] + 1 ELSE count[p]]
Cleared(count, e) == [p \in Proxy |-> IF p = e THEN 0 ELSE count[p]]

CreditNothing(e) == UNCHANGED poolVars
MarkSuccess(e) == fails' = Cleared(fails, e) /\ UNCHANGED <<resting, rrIndex>>
MarkFailed(e) ==
    /\ fails' = Failed(fails, e)
    /\ resting' = [p \in Proxy |-> IF p = e /\ fails'[p] = MaxFails THEN Rest ELSE resting[p]]
    /\ UNCHANGED rrIndex

\* Time passes.
PoolTick == /\ resting' = [p \in Proxy |-> IF resting[p] > 0 THEN resting[p] - 1 ELSE 0]
            /\ UNCHANGED <<fails, rrIndex>>
=============================================================================
