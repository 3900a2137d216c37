------------------------------- MODULE Client -------------------------------
(***************************************************************************)
(* Client.Search of client.go: goroutines that search with one client.  A    *)
(* search runs up to three retry loops (doWithRetry): "djs" asks for         *)
(* results and, to build each request, needs a VQD token, which is cached    *)
(* or fetched by a loop of its own, "vqd", nested in the attempt; "html" is  *)
(* the fallback.  The loops share the circuit breaker, the token cache, the   *)
(* session, the transport with its proxies, and the callback that feeds the  *)
(* goddgs_circuit_open gauge.                                                *)
(*                                                                         *)
(* All searches ask for the same query with the same user agent, so the      *)
(* cache has one entry.  A token is the call that fetched it and the calls   *)
(* that met a block since it came back: the program sees only that a token   *)
(* is there.  The rate limiter, which these loops also drive, is modelled    *)
(* with the fetchers; here it only lets the context end an attempt.          *)
(***************************************************************************)
EXTENDS CircuitBreaker, ProxyPool

CONSTANTS
    Call,           \* goroutines that call Search
    RetryMax,       \* attempts per loop
    HasSolver,      \* cfg.ChallengeSolvers is not empty
    HasSession,     \* cfg.SessionWarmup, with SessionInvalidateOnBlock
    NoFallback,
    MaxSearches     \* bound on the searches of one goroutine

ASSUME CallAssumption == IsFiniteSet(Call)
ASSUME LoopAssumption ==
    /\ RetryMax \in Nat \ {0} /\ MaxSearches \in Nat \ {0}
    /\ {HasSolver, HasSession, NoFallback} \subseteq BOOLEAN

VARIABLES
    \* what a goroutine knows of the search it is in
    pc,
    loop,       \* the innermost loop it is in
    tries,      \* the loop variable i of each loop
    held,       \* the VQD token for the next request
    ctxDone,    \* its context has ended
    \* what the goroutines share, beside the breaker
    cache,      \* the entry of vqdCache
    gauge,      \* goddgs_circuit_open
    warm,       \* the session is warmed up and within its lifetime
    lastProxy,  \* of the transport
    \* history, never read by the program
    searches,   \* searches begun
    sent,       \* requests of the search, since it was last solved
    sentOpen,   \* requests of the search, since the breaker last opened
    stale,      \* whose token the last request carried, if it predated a block
                \* this search had met
    carrier,    \* the proxy that carried the last request
    earned      \* what fails would be if each result were marked on its carrier

searchVars == <<pc, loop, tries, held, sent, stale>>
proxyVars == <<poolVars, lastProxy, carrier, earned>>
routeVars == <<warm, proxyVars>>
sharedVars == <<cache, gauge, breakerVars, routeVars, sentOpen>>
vars == <<searchVars, ctxDone, sharedVars, searches>>

\* The most requests one Search can send from one solution of a challenge to the
\* next: RetryMax for results, each after at most RetryMax for a token, and
\* RetryMax to the fallback; with a session two more warm it up.  sent stops
\* counting one above it.
SearchBound == RetryMax * (RetryMax + 1) + RetryMax + (IF HasSession THEN 2 ELSE 0)

NoToken == [by |-> "none", burned |-> {}]
Token == [by : Call, burned : SUBSET Call]
Loop == {"djs", "vqd", "html"}
PC == {"idle", "warmup", "warmup2", "gate", "failFast", "wait", "send", "await",
       "success", "sayClosed", "credit", "answer",
       "blocked", "sayOpen", "blame", "clear", "invalidate", "solve", "again"}

TypeOK ==
    /\ pc \in [Call -> PC]
    /\ loop \in [Call -> Loop]
    /\ tries \in [Call -> [Loop -> 0..(RetryMax - 1)]]
    /\ held \in [Call -> Token \cup {NoToken}]
    /\ ctxDone \in [Call -> BOOLEAN]
    /\ cache \in Token \cup {NoToken}
    /\ gauge \in BOOLEAN
    /\ BreakerTypeOK
    /\ PoolTypeOK
    /\ warm \in BOOLEAN
    /\ lastProxy \in Proxy \cup {NoProxy}
    /\ carrier \in [Call -> Proxy \cup {NoProxy}]
    /\ earned \in [Proxy -> 0..MaxFails]
    /\ searches \in [Call -> 0..MaxSearches]
    /\ sent \in [Call -> Nat]
    /\ sentOpen \in [Call -> Nat]
    /\ stale \in [Call -> SUBSET Call]

NoTries == [l \in Loop |-> 0]

Init ==
    /\ pc = [c \in Call |-> "idle"]
    /\ loop = [c \in Call |-> "djs"]
    /\ tries = [c \in Call |-> NoTries]
    /\ held = [c \in Call |-> NoToken]
    /\ ctxDone = [c \in Call |-> FALSE]
    /\ cache = NoToken
    /\ gauge = FALSE
    /\ BreakerInit
    /\ PoolInit
    /\ warm = FALSE
    /\ lastProxy = NoProxy
    /\ carrier = [c \in Call |-> NoProxy]
    /\ earned = [p \in Proxy |-> 0]
    /\ searches = [c \in Call |-> 0]
    /\ sent = [c \in Call |-> 0]
    /\ sentOpen = [c \in Call |-> 0]
    /\ stale = [c \in Call |-> {}]

----------------------------------------------------------------------------
\* Moves of call c between its states.

At(c, s) == pc[c] = s
GoTo(c, s) == pc' = [pc EXCEPT ![c] = s] /\ UNCHANGED <<loop, tries, held, sent, stale>>

\* Search returns, and what it knew is gone.
Finish(c) ==
    /\ pc' = [pc EXCEPT ![c] = "idle"]
    /\ loop' = [loop EXCEPT ![c] = "djs"]
    /\ tries' = [tries EXCEPT ![c] = NoTries]
    /\ held' = [held EXCEPT ![c] = NoToken]
    /\ sent' = [sent EXCEPT ![c] = 0]
    /\ stale' = [stale EXCEPT ![c] = {}]

\* A loop returns an error.  getVQD passes it on and buildReq ends "djs" with
\* it, so an error in either one sends Search to its fallback.
Fail(c) ==
    IF loop[c] = "html" \/ NoFallback
      THEN Finish(c)
      ELSE /\ pc' = [pc EXCEPT ![c] = "gate"]
           /\ loop' = [loop EXCEPT ![c] = "html"]
           /\ tries' = [tries EXCEPT ![c] = NoTries]
           /\ held' = [held EXCEPT ![c] = NoToken]
           /\ UNCHANGED <<sent, stale>>

----------------------------------------------------------------------------
\* Search.
Begin(c) ==
    /\ At(c, "idle") /\ searches[c] < MaxSearches
    /\ searches' = [searches EXCEPT ![c] = @ + 1]
    /\ ctxDone' = [ctxDone EXCEPT ![c] = FALSE]
    /\ sentOpen' = [sentOpen EXCEPT ![c] = 0]
    /\ GoTo(c, IF HasSession /\ ~warm THEN "warmup" ELSE "gate")
    /\ UNCHANGED <<cache, gauge, breakerVars, routeVars>>

\* The transport's RoundTrip begins a request of c: it picks e, if it has a pool.
\* The pick and the dial through it are one step, and there are no redirects.
HasPool == NProxy > 0
RoundTrip(c, e) ==
    IF HasPool
      THEN /\ NextProxy(e)
           /\ lastProxy' = e
           /\ carrier' = [carrier EXCEPT ![c] = e]
           /\ UNCHANGED earned
      ELSE e = NoProxy /\ UNCHANGED proxyVars
CountSent(c) ==
    /\ sent' = [sent EXCEPT ![c] = IF @ > SearchBound THEN @ ELSE @ + 1]
    /\ sentOpen' = IF IsOpen THEN [sentOpen EXCEPT ![c] = @ + 1] ELSE sentOpen

\* Warmup looks at the session again, and gets the home page twice: an error of
\* the first ends it, one of the second does not matter.  It does not ask the
\* breaker.
SkipWarmup(c) ==
    /\ At(c, "warmup") /\ warm
    /\ GoTo(c, "gate")
    /\ UNCHANGED <<ctxDone, sharedVars, searches>>
WarmupGET(c) ==
    /\ At(c, "warmup") /\ ~warm
    /\ \E e \in Proxy \cup {NoProxy} : RoundTrip(c, e)
    /\ CountSent(c)
    /\ \E ok \in {FALSE, ~ctxDone[c]} :
         pc' = [pc EXCEPT ![c] = IF ok THEN "warmup2" ELSE "gate"]
    /\ UNCHANGED <<loop, tries, held, stale, ctxDone, cache, gauge, breakerVars, warm, searches>>
WarmupAgain(c) ==
    /\ At(c, "warmup2")
    /\ \E e \in Proxy \cup {NoProxy} : RoundTrip(c, e)
    /\ CountSent(c)
    /\ warm' = TRUE
    /\ pc' = [pc EXCEPT ![c] = "gate"]
    /\ UNCHANGED <<loop, tries, held, stale, ctxDone, cache, gauge, breakerVars, searches>>

\* The top of the retry loop: IsOpen, then ErrCircuitOpen or the rate limiter.
Blind(c) == GoTo(c, "wait")
CheckOpen(c) == GoTo(c, IF IsOpen THEN "failFast" ELSE "wait")
Gate(c) ==
    /\ At(c, "gate")
    /\ CheckOpen(c)
    /\ UNCHANGED <<ctxDone, sharedVars, searches>>

\* The fail_fast event, and return ErrCircuitOpen.
FailFast(c) ==
    /\ At(c, "failFast")
    /\ gauge' = TRUE
    /\ Fail(c)
    /\ UNCHANGED <<ctxDone, cache, breakerVars, routeVars, sentOpen, searches>>

\* The rate limiter lets the attempt go on, and buildReq begins.  For "djs" it
\* is getVQD: a cached token, or the loop that fetches one.
GetVQD(c) ==
    IF cache # NoToken
      THEN /\ pc' = [pc EXCEPT ![c] = "send"]
           /\ held' = [held EXCEPT ![c] = cache]
           /\ UNCHANGED <<loop, tries, sent, stale>>
      ELSE /\ pc' = [pc EXCEPT ![c] = "gate"]
           /\ loop' = [loop EXCEPT ![c] = "vqd"]
           /\ UNCHANGED <<tries, held, sent, stale>>
Build(c) ==
    /\ At(c, "wait")
    /\ IF loop[c] = "djs" THEN GetVQD(c) ELSE GoTo(c, "send")
    /\ UNCHANGED <<ctxDone, sharedVars, searches>>

\* The request leaves.
Send(c) ==
    /\ At(c, "send")
    /\ pc' = [pc EXCEPT ![c] = "await"]
    /\ held' = [held EXCEPT ![c] = NoToken]
    /\ \E e \in Proxy \cup {NoProxy} : RoundTrip(c, e)
    /\ CountSent(c)
    /\ stale' = [stale EXCEPT ![c] = IF c \in held[c].burned THEN {held[c].by} ELSE {}]
    /\ UNCHANGED <<loop, tries, ctxDone, cache, gauge, breakerVars, warm, searches>>

\* What comes back: a page without a block, one with a block status or a block
\* pattern, an error worth a retry (network, 429, 5xx) or another status.  A
\* page that answers the "vqd" loop holds a new token.  Once the context has
\* ended Do returns its error, and a solver fails.
GetPage(c) ==
    /\ At(c, "await") /\ ~ctxDone[c]
    /\ pc' = [pc EXCEPT ![c] = "success"]
    /\ held' = IF loop[c] = "vqd"
                 THEN [held EXCEPT ![c] = [by |-> c, burned |-> {}]] ELSE held
    /\ UNCHANGED <<loop, tries, sent, stale, ctxDone, sharedVars, searches>>
GetBlock(c) ==
    /\ At(c, "await") /\ ~ctxDone[c]
    /\ GoTo(c, "blocked")
    /\ UNCHANGED <<ctxDone, sharedVars, searches>>
GetRetryable(c) ==
    /\ At(c, "await")
    /\ GoTo(c, "again")
    /\ UNCHANGED <<ctxDone, sharedVars, searches>>
GetFatal(c) ==
    /\ At(c, "await") /\ ~ctxDone[c]
    /\ Fail(c)
    /\ UNCHANGED <<ctxDone, sharedVars, searches>>

NobodySent == [c \in Call |-> 0]

\* The success path: RecordSuccess, then the success_reset event if it closed
\* the breaker, then the transport's last proxy is marked and the body returned.
AfterSuccess == IF HasPool THEN "credit" ELSE "answer"
Success(c) ==
    /\ At(c, "success")
    /\ RecordSuccess /\ sentOpen' = NobodySent
    /\ GoTo(c, IF Closes THEN "sayClosed" ELSE AfterSuccess)
    /\ UNCHANGED <<ctxDone, cache, gauge, routeVars, searches>>
SayClosed(c) ==
    /\ At(c, "sayClosed")
    /\ gauge' = FALSE
    /\ GoTo(c, AfterSuccess)
    /\ UNCHANGED <<ctxDone, cache, breakerVars, routeVars, sentOpen, searches>>
Credit(c) ==
    /\ At(c, "credit")
    /\ MarkSuccess(lastProxy) /\ earned' = Cleared(earned, carrier[c])
    /\ GoTo(c, "answer")
    /\ UNCHANGED <<ctxDone, cache, gauge, breakerVars, warm, lastProxy, carrier, sentOpen, searches>>

\* The caller of the loop reads the body.  getVQD stores the token it finds and
\* the "djs" attempt goes on with it; without one, and when the results cannot
\* be parsed or there are none, the loop's caller fails.
StoreToken(c) ==
    /\ At(c, "answer") /\ loop[c] = "vqd"
    /\ cache' = held[c]
    /\ pc' = [pc EXCEPT ![c] = "send"]
    /\ loop' = [loop EXCEPT ![c] = "djs"]
    /\ tries' = [tries EXCEPT ![c]["vqd"] = 0]
    /\ UNCHANGED <<held, sent, stale, ctxDone, gauge, breakerVars, routeVars, sentOpen, searches>>
NothingUsable(c) ==
    /\ At(c, "answer")
    /\ Fail(c)
    /\ UNCHANGED <<ctxDone, sharedVars, searches>>
Answer(c) ==
    /\ At(c, "answer") /\ loop[c] # "vqd"
    /\ Finish(c)
    /\ UNCHANGED <<ctxDone, sharedVars, searches>>

\* The block path: RecordBlock and its event, the transport's last proxy is
\* marked, clearAllVQD, Invalidate, the solver.
AfterBlock == IF HasPool THEN "blame" ELSE "clear"
Blocked(c) ==
    /\ At(c, "blocked")
    /\ RecordBlock
    /\ GoTo(c, IF Opens THEN "sayOpen" ELSE AfterBlock)
    /\ UNCHANGED <<ctxDone, cache, gauge, routeVars, sentOpen, searches>>
SayOpen(c) ==
    /\ At(c, "sayOpen")
    /\ gauge' = TRUE
    /\ GoTo(c, AfterBlock)
    /\ UNCHANGED <<ctxDone, cache, breakerVars, routeVars, sentOpen, searches>>
Blame(c) ==
    /\ At(c, "blame")
    /\ MarkFailed(lastProxy) /\ earned' = Failed(earned, carrier[c])
    /\ GoTo(c, "clear")
    /\ UNCHANGED <<ctxDone, cache, gauge, breakerVars, warm, lastProxy, carrier, sentOpen, searches>>

\* For the history, tokens that are held or cached now are burned for c.
Burn(t, c) == IF t = NoToken THEN t ELSE [t EXCEPT !.burned = @ \cup {c}]
ClearNothing(c) == cache' = Burn(cache, c)
ClearAllVQD(c) == cache' = NoToken
AfterClear == IF HasSolver THEN "solve" ELSE "again"
Clear(c) ==
    /\ At(c, "clear")
    /\ ClearAllVQD(c)
    /\ held' = [d \in Call |-> Burn(held[d], c)]
    /\ pc' = [pc EXCEPT ![c] = IF HasSession THEN "invalidate" ELSE AfterClear]
    /\ UNCHANGED <<loop, tries, sent, stale, ctxDone, gauge, breakerVars, routeVars,
                   sentOpen, searches>>
Invalidate(c) ==
    /\ At(c, "invalidate")
    /\ warm' = FALSE
    /\ GoTo(c, AfterClear)
    /\ UNCHANGED <<ctxDone, cache, gauge, breakerVars, proxyVars, sentOpen, searches>>

\* A solution is applied and the attempt repeated: i--; continue.
Solved(c) ==
    /\ At(c, "solve") /\ ~ctxDone[c]
    /\ pc' = [pc EXCEPT ![c] = "gate"]
    /\ sent' = [sent EXCEPT ![c] = 0]
    /\ UNCHANGED <<loop, tries, held, stale, ctxDone, sharedVars, searches>>
NotSolved(c) ==
    /\ At(c, "solve")
    /\ GoTo(c, "again")
    /\ UNCHANGED <<ctxDone, sharedVars, searches>>

\* The end of an attempt: the last one breaks out of the loop, any other sleeps
\* and goes round.
Attempt(c) == tries[c][loop[c]]
LastMissed(c) == Attempt(c) = RetryMax
IsLast(c) == Attempt(c) = RetryMax - 1
ForgetAttempt(c) == UNCHANGED tries
NextAttempt(c) == tries' = [tries EXCEPT ![c][loop[c]] = @ + 1]
GiveUp(c) ==
    /\ At(c, "again") /\ IsLast(c)
    /\ Fail(c)
    /\ UNCHANGED <<ctxDone, sharedVars, searches>>
Retry(c) ==
    /\ At(c, "again") /\ ~IsLast(c)
    /\ NextAttempt(c)
    /\ pc' = [pc EXCEPT ![c] = "gate"]
    /\ UNCHANGED <<loop, held, sent, stale, ctxDone, sharedVars, searches>>

\* The three waits that watch the context: the rate limiter, Retry-After (which
\* precedes the block path and skips it), the backoff.
Abandon(c) ==
    /\ ctxDone[c]
    /\ \/ At(c, "wait")
       \/ pc[c] \in {"blocked", "again"} /\ ~IsLast(c)
    /\ Fail(c)
    /\ UNCHANGED <<ctxDone, sharedVars, searches>>

Step(c) ==
    \/ SkipWarmup(c) \/ WarmupGET(c) \/ WarmupAgain(c)
    \/ Gate(c) \/ FailFast(c) \/ Build(c) \/ Send(c)
    \/ GetPage(c) \/ GetBlock(c) \/ GetRetryable(c) \/ GetFatal(c)
    \/ Success(c) \/ SayClosed(c) \/ Credit(c) \/ StoreToken(c) \/ NothingUsable(c) \/ Answer(c)
    \/ Blocked(c) \/ SayOpen(c) \/ Blame(c) \/ Clear(c) \/ Invalidate(c) \/ Solved(c) \/ NotSolved(c)
    \/ GiveUp(c) \/ Retry(c) \/ Abandon(c)

----------------------------------------------------------------------------
\* The environment: contexts end, the lifetimes of token and session end, time
\* passes.
EndContext(c) ==
    /\ ~At(c, "idle") /\ ~ctxDone[c]
    /\ ctxDone' = [ctxDone EXCEPT ![c] = TRUE]
    /\ UNCHANGED <<searchVars, sharedVars, searches>>
ExpireToken ==
    /\ cache # NoToken /\ cache' = NoToken
    /\ UNCHANGED <<searchVars, ctxDone, gauge, breakerVars, routeVars, sentOpen, searches>>
ExpireSession ==
    /\ warm /\ warm' = FALSE
    /\ UNCHANGED <<searchVars, ctxDone, cache, gauge, breakerVars, proxyVars, sentOpen, searches>>
PassTime ==
    /\ IsOpen \/ \E p \in Proxy : resting[p] > 0
    /\ Tick /\ PoolTick
    /\ sentOpen' = IF cooling = 1 THEN NobodySent ELSE sentOpen
    /\ UNCHANGED <<searchVars, ctxDone, cache, gauge, warm, lastProxy, carrier, earned, searches>>

Next ==
    \/ \E c \in Call : Begin(c) \/ Step(c) \/ EndContext(c)
    \/ ExpireToken
    \/ ExpireSession
    \/ PassTime

Spec == Init /\ [][Next]_vars

\* A goroutine that searches keeps going: requests have a timeout, a solver ends.
Fairness == \A c \in Call : WF_vars(Step(c))
FairSpec == Spec /\ Fairness

----------------------------------------------------------------------------
(* Safety. *)

\* From one solution of a challenge to the next, and so in all without a solver,
\* the nested loops and the fallback together send no more than SearchBound
\* requests for one Search.
RequestsBounded == \A c \in Call : sent[c] <= SearchBound

\* What an open breaker still lets out: while it stays open a search sends the one
\* request whose check it had already passed, or the two of the session's warmup,
\* which ask nobody.  antibot.go:75-77 has all further attempts fail at once.
OpenBoundsRequests == IsOpen => \A c \in Call : sentOpen[c] <= IF HasSession THEN 2 ELSE 1

\* An open breaker closes when its cooldown is over, and not before.  One goroutine
\* keeps it: the block that opens the breaker is its own, and nothing it sends
\* afterwards passes the gate.  With two, a success whose request was under way
\* closes the breaker at once, which the code does not rule out.
CooldownKept == [][IsOpen /\ ~IsOpen' => cooling = 1]_vars

\* A retry after a block never carries the token this call had fetched before
\* the block: the token is looked up anew in every attempt.
OwnTokenFresh == \A c \in Call : c \notin stale[c]

\* A proxy is cleared and put in its cooldown for the requests it carried:
\* LastProxy, asked after the response, is the proxy of that request.  One
\* search at a time keeps it; two do not, as their round trips interleave.
BlameEarned == fails = earned

\* When nothing is going on and the last response was a success, the gauge says
\* that the breaker is closed.
GaugeFollowsSuccess ==
    ((\A c \in Call : pc[c] = "idle") /\ consecutive = 0) => ~gauge

(* Liveness, under FairSpec. *)

\* Every search returns, whatever the server answers and whenever contexts end
\* and time passes, unless a solver solves one challenge after the other: each
\* solution gives its attempt back.
SearchReturns == \A c \in Call : []<>(pc[c] = "idle") \/ []<>(pc[c] = "solve")
=============================================================================
