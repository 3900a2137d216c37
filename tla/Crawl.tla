------------------------------- MODULE Crawl --------------------------------
(***************************************************************************)
(* What Spider.Run promises its caller, without workers or channels: it     *)
(* learns URLs, begins to fetch each one at most once and never more than   *)
(* MaxPages of them, reports what it fetched, and returns.  It begins no     *)
(* fetch once it has returned, and it returns nil only if everything it      *)
(* learned has been reported.  A restart keeps the reports, inherits a part  *)
(* of what was known and does not fetch that part again.                     *)
(***************************************************************************)
EXTENDS Integers, FiniteSets

CONSTANTS URL, MaxPages

VARIABLES
    known,      \* the URLs seen
    inherited,  \* those known before this run
    begun,      \* those this run began to fetch
    reported,   \* those some run has reported
    status      \* "running", or the error Run returned: "nil" or "canceled"

vars == <<known, inherited, begun, reported, status>>

Init ==
    /\ known = {} /\ inherited = {} /\ begun = {} /\ reported = {}
    /\ status = "running"

Learn ==
    /\ status = "running"
    /\ \E u \in URL \ known : known' = known \cup {u}
    /\ UNCHANGED <<inherited, begun, reported, status>>

Begin ==
    /\ status = "running"
    /\ Cardinality(begun) < MaxPages
    /\ \E u \in known \ (begun \cup inherited) : begun' = begun \cup {u}
    /\ UNCHANGED <<known, inherited, reported, status>>

Report ==
    /\ status = "running"
    /\ \E u \in begun : reported' = reported \cup {u}
    /\ UNCHANGED <<known, inherited, begun, status>>

Return ==
    /\ status = "running"
    /\ status' \in {"nil", "canceled"}
    /\ status' = "nil" => known \ inherited \subseteq reported
    /\ UNCHANGED <<known, inherited, begun, reported>>

Restart ==
    /\ inherited' \in SUBSET (known \cup inherited)
    /\ known' = inherited' /\ begun' = {} /\ status' = "running"
    /\ UNCHANGED reported

Next == Learn \/ Begin \/ Report \/ Return \/ Restart

Spec == Init /\ [][Next]_vars
=============================================================================
