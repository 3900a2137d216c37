--------------------------- MODULE CircuitBreaker ---------------------------
(***************************************************************************)
(* circuitBreaker of antibot.go, shared by every request of a client.  Its   *)
(* methods hold the mutex, so each is one step.  openUntil is modelled by    *)
(* the time that is left until it, 0 for the zero time and for the past;     *)
(* consecutive stops counting at the threshold, past which its value is      *)
(* only reported.                                                            *)
(***************************************************************************)
EXTENDS Integers

CONSTANTS Threshold, Cooldown

ASSUME BreakerAssumption == Threshold \in Nat \ {0} /\ Cooldown \in Nat \ {0}

VARIABLES consecutive, cooling

breakerVars == <<consecutive, cooling>>

BreakerTypeOK == consecutive \in 0..Threshold /\ cooling \in 0..Cooldown

BreakerInit == consecutive = 0 /\ cooling = 0

IsOpen == cooling > 0

\* RecordBlock, and its first result: the breaker was closed and now is open.
Trips == consecutive + 1 >= Threshold
Opens == Trips /\ ~IsOpen
RecordBlock ==
    /\ consecutive' = IF consecutive < Threshold THEN consecutive + 1 ELSE consecutive
    /\ cooling' = IF Trips THEN Cooldown ELSE cooling

\* RecordSuccess, and its first result: the breaker was open.
Closes == IsOpen
ResetCountOnly == consecutive' = 0 /\ UNCHANGED cooling
RecordSuccess == consecutive' = 0 /\ cooling' = 0

\* Time passes.
Tick == cooling' = (IF IsOpen THEN cooling - 1 ELSE 0) /\ UNCHANGED consecutive

\* The breaker is open only after Threshold blocks without a success.
OpenMeansTripped == IsOpen => consecutive = Threshold
=============================================================================
