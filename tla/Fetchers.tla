------------------------------ MODULE Fetchers ------------------------------
(***************************************************************************)
(* Fetch of stealthy_fetcher.go, dynamic_fetcher.go and fetcher.go.  A        *)
(* DynamicFetcher waits and calls its StealthyFetcher, which drives a browser *)
(* and falls back to an HTTPFetcher; all calls share one browser, rate        *)
(* limiter, circuit breaker, session and solver chain, as buildAntiBotState   *)
(* wires them.  Another goroutine may Close the fetcher at any time.  The      *)
(* fixed wait of a DynamicFetcher before its fetch delays it and is not here.  *)
(***************************************************************************)
EXTENDS RateLimiter, CircuitBreaker, Solvers

CONSTANTS
    Caller,     \* goroutines that call FetchDynamic
    MaxFetches  \* bound on the fetches of one goroutine

ASSUME FetcherAssumption == Sleeper = Caller /\ Solver = Caller /\ MaxFetches \in Nat \ {0}

VARIABLES
    pc,
    layer,      \* the fetcher a call is in: "browser" or "http"
    mayRetry,   \* solverRetry of HTTPFetcher.fetch
    ctxDone,
    page,       \* the page a call drives: "none", "live", or "dead" once its browser closed
    browser,    \* f.browser is not nil
    closing,    \* Close holds f.mu and waits for the browser to close
    warm,       \* the session is warmed up and within its lifetime
    \* history, never read by the program
    fetches,
    sent,       \* pages loaded and requests sent by the fetch, warmups aside
    sentOpen    \* those since the breaker last opened

callVars == <<pc, layer, mayRetry, page>>
countVars == <<fetches, sent, sentOpen>>
mutexVars == <<browser, closing>>
vars == <<callVars, ctxDone, mutexVars, warm, countVars, limiterVars, breakerVars, solverVars>>

PC == {"idle", "gate", "wait", "sleep", "launch", "page", "warmup", "do", "count", "reset",
       "invalidate", "solve"}

\* One page load and two requests; sent stops counting one above.
FetchBound == 3

TypeOK ==
    /\ pc \in [Caller -> PC]
    /\ layer \in [Caller -> {"browser", "http"}]
    /\ mayRetry \in [Caller -> BOOLEAN]
    /\ ctxDone \in [Caller -> BOOLEAN]
    /\ page \in [Caller -> {"none", "live", "dead"}]
    /\ browser \in BOOLEAN /\ closing \in BOOLEAN /\ warm \in BOOLEAN
    /\ fetches \in [Caller -> 0..MaxFetches]
    /\ sent \in [Caller -> Nat] /\ sentOpen \in [Caller -> Nat]
    /\ LimiterTypeOK /\ BreakerTypeOK /\ SolverTypeOK

Init ==
    /\ pc = [c \in Caller |-> "idle"]
    /\ layer = [c \in Caller |-> "browser"]
    /\ mayRetry = [c \in Caller |-> TRUE]
    /\ ctxDone = [c \in Caller |-> FALSE]
    /\ page = [c \in Caller |-> "none"]
    /\ browser = FALSE /\ closing = FALSE /\ warm = FALSE
    /\ fetches = [c \in Caller |-> 0]
    /\ sent = [c \in Caller |-> 0] /\ sentOpen = [c \in Caller |-> 0]
    /\ LimiterInit /\ BreakerInit /\ SolverInit

----------------------------------------------------------------------------
\* Moves of a call.

At(c, s) == pc[c] = s
Goto(c, s) == pc' = [pc EXCEPT ![c] = s] /\ UNCHANGED <<layer, mayRetry, page>>
Return(c) ==
    /\ pc' = [pc EXCEPT ![c] = "idle"]
    /\ layer' = [layer EXCEPT ![c] = "browser"]
    /\ mayRetry' = [mayRetry EXCEPT ![c] = TRUE]
    /\ page' = [page EXCEPT ![c] = "none"]
\* f.fallback.Fetch.
FallBack(c) ==
    /\ pc' = [pc EXCEPT ![c] = "gate"]
    /\ layer' = [layer EXCEPT ![c] = "http"]
    /\ page' = [page EXCEPT ![c] = "none"]
    /\ UNCHANGED mayRetry
\* f.fetch(ctx, req, false).
FetchAgainWithRetry(c) == Goto(c, "gate")
FetchAgain(c) ==
    /\ pc' = [pc EXCEPT ![c] = "gate"]
    /\ mayRetry' = [mayRetry EXCEPT ![c] = FALSE]
    /\ UNCHANGED <<layer, page>>

InHTTP(c) == layer[c] = "http"
CountSent(c) ==
    /\ sent' = [sent EXCEPT ![c] = IF @ > FetchBound THEN @ ELSE @ + 1]
    /\ sentOpen' = IF IsOpen THEN [sentOpen EXCEPT ![c] = @ + 1] ELSE sentOpen
    /\ UNCHANGED fetches
NobodySent == [c \in Caller |-> 0]

----------------------------------------------------------------------------
\* Fetch and its gates, common to both fetchers.

FetchDynamic(c) ==
    /\ At(c, "idle") /\ fetches[c] < MaxFetches
    /\ Goto(c, "gate")
    /\ ctxDone' = [ctxDone EXCEPT ![c] = FALSE]
    /\ fetches' = [fetches EXCEPT ![c] = @ + 1]
    /\ sent' = [sent EXCEPT ![c] = 0]
    /\ UNCHANGED <<mutexVars, warm, sentOpen, limiterVars, breakerVars, solverVars>>
OpenGate(c) == Goto(c, "wait")
CheckOpen(c) == IF IsOpen THEN Return(c) ELSE Goto(c, "wait")
Gate(c) ==
    /\ At(c, "gate")
    /\ CheckOpen(c)
    /\ UNCHANGED <<ctxDone, mutexVars, warm, countVars, limiterVars, breakerVars, solverVars>>
Wait(c) ==
    /\ At(c, "wait")
    /\ Reserve(c)
    /\ Goto(c, "sleep")
    /\ UNCHANGED <<ctxDone, mutexVars, warm, countVars, breakerVars, solverVars>>
Granted(c) == At(c, "sleep") /\ left[c] = 0
WaitCut(c) ==
    /\ At(c, "sleep") /\ left[c] > 0 /\ ctxDone[c]
    /\ GiveUpSlot(c)
    /\ Return(c)
    /\ UNCHANGED <<ctxDone, mutexVars, warm, countVars, breakerVars, solverVars>>

----------------------------------------------------------------------------
\* The browser.

\* f.mu is held by ensureBrowser while it launches and by Close while the browser
\* closes; neither has a timeout or sees a context.
MutexFree == ~closing /\ \A d \in Caller : ~At(d, "launch")
AwaitsMutex(c) == Granted(c) /\ ~InHTTP(c) /\ ~MutexFree

OpenPage(c) ==
    /\ pc' = [pc EXCEPT ![c] = "page"]
    /\ page' = [page EXCEPT ![c] = "live"]
    /\ CountSent(c)
    /\ UNCHANGED <<layer, mayRetry>>
EnsureBrowser(c) ==
    /\ Granted(c) /\ ~InHTTP(c) /\ MutexFree
    /\ IF browser THEN OpenPage(c) ELSE Goto(c, "launch") /\ UNCHANGED countVars
    /\ UNCHANGED <<ctxDone, mutexVars, warm, limiterVars, breakerVars, solverVars>>
LaunchSucceeds(c) ==
    /\ At(c, "launch")
    /\ browser' = TRUE
    /\ OpenPage(c)
    /\ UNCHANGED <<ctxDone, closing, warm, limiterVars, breakerVars, solverVars>>
\* Launch fails, or Connect.
LaunchFails(c) ==
    /\ At(c, "launch")
    /\ FallBack(c)
    /\ UNCHANGED <<ctxDone, mutexVars, warm, countVars, limiterVars, breakerVars, solverVars>>

\* runStealthPage ends: with an error, a blocked page, or a page.
LeavePage(c, s) ==
    /\ pc' = [pc EXCEPT ![c] = s]
    /\ page' = [page EXCEPT ![c] = "none"]
    /\ UNCHANGED <<layer, mayRetry>>
PageFails(c) ==
    /\ At(c, "page")
    /\ OnBlock
    /\ FallBack(c)
    /\ UNCHANGED <<ctxDone, mutexVars, warm, countVars, breakerVars, solverVars>>
PageBlocked(c) ==
    /\ At(c, "page") /\ page[c] = "live"
    /\ OnBlock
    /\ LeavePage(c, "count")
    /\ UNCHANGED <<ctxDone, mutexVars, warm, countVars, breakerVars, solverVars>>
PageLoads(c) ==
    /\ At(c, "page") /\ page[c] = "live"
    /\ OnSuccess
    /\ LeavePage(c, "reset")
    /\ UNCHANGED <<ctxDone, mutexVars, warm, countVars, breakerVars, solverVars>>

----------------------------------------------------------------------------
\* The HTTP fetcher: the session's warmup, then the request.

\* Warmup gets the home page twice: an error of the first ends it, one of the
\* second does not matter.
SkipWarmup(c) ==
    /\ Granted(c) /\ InHTTP(c) /\ warm
    /\ Goto(c, "do")
    /\ UNCHANGED <<ctxDone, mutexVars, warm, countVars, limiterVars, breakerVars, solverVars>>
WarmupGET(c) ==
    /\ Granted(c) /\ InHTTP(c) /\ ~warm
    /\ \E ok \in {FALSE, ~ctxDone[c]} : Goto(c, IF ok THEN "warmup" ELSE "do")
    /\ UNCHANGED <<ctxDone, mutexVars, warm, countVars, limiterVars, breakerVars, solverVars>>
WarmupAgain(c) ==
    /\ At(c, "warmup")
    /\ Goto(c, "do")
    /\ warm' = TRUE
    /\ UNCHANGED <<ctxDone, mutexVars, countVars, limiterVars, breakerVars, solverVars>>

\* Do, and what comes back: an error, a body that cannot be read, a block, or a
\* page.
DoFails(c) ==
    /\ At(c, "do")
    /\ CountSent(c)
    /\ \/ OnBlock
       \/ ~ctxDone[c] /\ UNCHANGED limiterVars
    /\ Return(c)
    /\ UNCHANGED <<ctxDone, mutexVars, warm, breakerVars, solverVars>>
DoBlocked(c) ==
    /\ At(c, "do") /\ ~ctxDone[c]
    /\ CountSent(c)
    /\ OnBlock
    /\ Goto(c, "count")
    /\ UNCHANGED <<ctxDone, mutexVars, warm, breakerVars, solverVars>>
DoSucceeds(c) ==
    /\ At(c, "do") /\ ~ctxDone[c]
    /\ CountSent(c)
    /\ OnSuccess
    /\ Goto(c, "reset")
    /\ UNCHANGED <<ctxDone, mutexVars, warm, breakerVars, solverVars>>

----------------------------------------------------------------------------
\* The end of a success, and of a block.  The browser's page has no session to
\* invalidate.

Reset(c) ==
    /\ At(c, "reset")
    /\ RecordSuccess /\ sentOpen' = NobodySent
    /\ Return(c)
    /\ UNCHANGED <<ctxDone, mutexVars, warm, fetches, sent, limiterVars, solverVars>>

MaySolve(c) == Chain # <<>> /\ (InHTTP(c) => mayRetry[c])
SolveOrReturn(c) ==
    IF MaySolve(c) THEN Goto(c, "solve") /\ \E b \in BlockPage : StartSolve(c, b)
    ELSE Return(c) /\ UNCHANGED solverVars
Count(c) ==
    /\ At(c, "count")
    /\ RecordBlock
    /\ IF InHTTP(c) THEN Goto(c, "invalidate") /\ UNCHANGED solverVars ELSE SolveOrReturn(c)
    /\ UNCHANGED <<ctxDone, mutexVars, warm, countVars, limiterVars>>
Invalidate(c) ==
    /\ At(c, "invalidate")
    /\ warm' = FALSE
    /\ SolveOrReturn(c)
    /\ UNCHANGED <<ctxDone, mutexVars, countVars, limiterVars, breakerVars>>

Solve(c) ==
    /\ At(c, "solve")
    /\ SolveStep(c, ctxDone[c])
    /\ UNCHANGED <<callVars, ctxDone, mutexVars, warm, countVars, limiterVars, breakerVars>>
Solved(c) ==
    /\ At(c, "solve") /\ phase[c] = "solved"
    /\ EndSolve(c)
    /\ IF InHTTP(c) THEN FetchAgain(c) ELSE FallBack(c)
    /\ UNCHANGED <<ctxDone, mutexVars, warm, countVars, limiterVars, breakerVars>>
NotSolved(c) ==
    /\ At(c, "solve") /\ phase[c] = "failed"
    /\ EndSolve(c)
    /\ Return(c)
    /\ UNCHANGED <<ctxDone, mutexVars, warm, countVars, limiterVars, breakerVars>>

\* Everything a fetch does by itself, but for the launch and the page load.
Step(c) ==
    \/ Gate(c) \/ Wait(c) \/ WaitCut(c) \/ EnsureBrowser(c)
    \/ SkipWarmup(c) \/ WarmupGET(c) \/ WarmupAgain(c)
    \/ DoFails(c) \/ DoBlocked(c) \/ DoSucceeds(c)
    \/ Reset(c) \/ Count(c) \/ Invalidate(c) \/ Solve(c) \/ Solved(c) \/ NotSolved(c)
LaunchStep(c) == LaunchSucceeds(c) \/ LaunchFails(c)
PageStep(c) == PageFails(c) \/ PageBlocked(c) \/ PageLoads(c)

----------------------------------------------------------------------------
\* Close takes the browser from whoever drives it.
Close ==
    /\ MutexFree /\ browser
    /\ closing' = TRUE
    /\ UNCHANGED <<callVars, ctxDone, browser, warm, countVars, limiterVars, breakerVars, solverVars>>
Closed ==
    /\ closing
    /\ closing' = FALSE /\ browser' = FALSE
    /\ page' = [c \in Caller |-> IF page[c] = "live" THEN "dead" ELSE page[c]]
    /\ UNCHANGED <<pc, layer, mayRetry, ctxDone, warm, countVars, limiterVars, breakerVars, solverVars>>

\* A context ends; when the call next looks at it is all that matters.
EndContext(c) ==
    /\ pc[c] \in {"sleep", "warmup", "do", "solve"} /\ ~ctxDone[c]
    /\ ctxDone' = [ctxDone EXCEPT ![c] = TRUE]
    /\ UNCHANGED <<callVars, mutexVars, warm, countVars, limiterVars, breakerVars, solverVars>>
\* Time passes, and with it what waits for it; the session may grow old.
PassTime ==
    /\ LimiterTick /\ Tick /\ SolverTick
    /\ warm' \in {warm, FALSE}
    /\ sentOpen' = IF cooling = 1 THEN NobodySent ELSE sentOpen
    /\ UNCHANGED <<callVars, ctxDone, mutexVars, fetches, sent>>

Next ==
    \/ \E c \in Caller : FetchDynamic(c) \/ Step(c) \/ LaunchStep(c) \/ PageStep(c) \/ EndContext(c)
    \/ Close \/ Closed
    \/ PassTime

Spec == Init /\ [][Next]_vars

\* Requests have a timeout, timers fire, and a mutex that stays free is taken.  A
\* launch, a page load and the closing of a browser have no timeout and do not
\* see the context; only a closed browser ends its pages.
Moves(c) == Step(c) \/ (page[c] = "dead" /\ PageFails(c))
Fairness == (\A c \in Caller : WF_vars(Moves(c))) /\ WF_vars(PassTime)
FairSpec == Spec /\ Fairness

----------------------------------------------------------------------------
(* Safety. *)

\* One fetch loads one page and sends at most two requests, however often it is
\* blocked and solved.  The warmup requests of the session are not among them.
FetchBounded == \A c \in Caller : sent[c] <= FetchBound

\* While the breaker is open a fetch loads or requests at most once more: the
\* fallback and the retry look at it again.  The warmup between that look and the
\* request is not counted.
OpenBoundsFetch == IsOpen => \A c \in Caller : sentOpen[c] <= 1

(* Liveness, under FairSpec. *)

\* Only the browser can keep a fetch from ending: a page load while it is open, a
\* launch, or another one's launch or Close that holds f.mu.  Not a wait, a solver
\* that is never ready, an ended context or a closed browser.
OnlyTheBrowserHangs ==
    \A c \in Caller :
       []<>(\/ pc[c] \in {"idle", "launch"} \/ AwaitsMutex(c)
            \/ pc[c] = "page" /\ page[c] = "live")
=============================================================================
