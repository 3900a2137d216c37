-------------------------------- MODULE Guard --------------------------------
(***************************************************************************)
(* stealthAccessGuard of service_stealth_guard.go: one window of a minute     *)
(* for all requesters, a count for each.  windowAge is the time since         *)
(* windowStart, as far as it matters.  The clock is read before the lock is   *)
(* taken; that delay is not modelled, allow is one step.                      *)
(***************************************************************************)
EXTENDS Integers, Sequences, FiniteSets

CONSTANTS
    IP,         \* what requesterIP may return
    RateLimit,  \* stealthRateLimitPerMin(), 0 for none
    Minute      \* ticks of a minute

ASSUME GuardAssumption == RateLimit \in Nat /\ Minute \in Nat \ {0}

VARIABLES
    windowAge,
    counts,
    accepted    \* history: how long ago ip's requests of the last minute were
                \* accepted, the oldest first

guardVars == <<windowAge, counts, accepted>>

GuardTypeOK ==
    /\ windowAge \in 0..Minute
    /\ counts \in [IP -> Nat]
    /\ accepted \in [IP -> Seq(0..(Minute - 1))]

GuardInit ==
    /\ windowAge = 0
    /\ counts = [ip \in IP |-> 0]
    /\ accepted = [ip \in IP |-> <<>>]

WindowOver == windowAge >= Minute
NewCounts == [ip \in IP |-> 0]

KeepCounts(ip) == [counts EXCEPT ![ip] = IF @ > RateLimit THEN @ ELSE @ + 1]
\* allow(ip), and what it decided.  A request beyond the limit is counted too;
\* more than one above the limit makes no difference.
Counted(ip) ==
    LET old == IF WindowOver THEN NewCounts ELSE counts
    IN [old EXCEPT ![ip] = IF @ > RateLimit THEN @ ELSE @ + 1]
ForgetWindow == UNCHANGED windowAge
OpenWindow == windowAge' = IF WindowOver THEN 0 ELSE windowAge
Allow(ip, ok) ==
    IF RateLimit = 0 THEN ok /\ UNCHANGED guardVars
    ELSE /\ OpenWindow
         /\ counts' = Counted(ip)
         /\ ok = (Counted(ip)[ip] <= RateLimit)
         /\ accepted' = IF ok THEN [accepted EXCEPT ![ip] = Append(@, 0)] ELSE accepted

\* The ages, a tick later; those of a minute are forgotten.
Aged(ages) ==
    LET gone == Cardinality({i \in DOMAIN ages : ages[i] = Minute - 1})
    IN [i \in 1..(Len(ages) - gone) |-> ages[i + gone] + 1]
GuardTick ==
    /\ windowAge' = IF WindowOver THEN windowAge ELSE windowAge + 1
    /\ accepted' = [ip \in IP |-> Aged(accepted[ip])]
    /\ UNCHANGED counts

AcceptedInAMinute(ip) == Len(accepted[ip])

----------------------------------------------------------------------------
(* Safety. *)

\* The window is fixed, not sliding: any minute may see the limit twice, around
\* a window's end, and never more.
TwiceTheLimit ==
    RateLimit > 0 => \A ip \in IP : AcceptedInAMinute(ip) <= 2 * RateLimit

\* Rejected requests are counted too, but lock nobody out: whoever is at the
\* limit had that many requests accepted within the last minute.
NobodyLockedOut ==
    RateLimit > 0 /\ ~WindowOver =>
       \A ip \in IP : counts[ip] >= RateLimit => AcceptedInAMinute(ip) >= RateLimit
=============================================================================
