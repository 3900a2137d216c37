------------------------------- MODULE Solvers -------------------------------
(***************************************************************************)
(* ChainSolver of solver.go over the solvers of solver_2captcha.go,          *)
(* solver_capsolver.go and solver_flaresolverr.go, called by a goroutine c.   *)
(* The first two submit a task and poll for its result until their own        *)
(* deadline; the third answers one request.  A blocked page is its signal     *)
(* and what site key it shows: one, none, or none with the marks of           *)
(* reCAPTCHA v3.                                                             *)
(***************************************************************************)
EXTENDS Integers, Sequences, FiniteSetsExt

CONSTANTS
    Solver,         \* goroutines that may call Solve
    Chain,          \* the configured solvers, in order
    BlockPage,      \* the blocked pages the server may send
    PollInterval, PollTimeout

ASSUME SolverAssumption ==
    /\ Chain \in Seq({"2captcha", "capsolver", "flaresolverr"})
    /\ BlockPage \subseteq [signal : {"cloudflare", "recaptcha", "generic", "other"},
                            key : {"key", "none", "v3"}] /\ BlockPage # {}
    /\ PollInterval \in Nat \ {0} /\ PollTimeout \in Nat

VARIABLES
    phase,      \* where c is in Solve
    at,         \* the solver it asks, an index of Chain
    block,      \* the page to solve
    deadline,   \* time left until the poll's deadline, -1 once it is over
    nap,        \* time left of the poll interval
    polls       \* history: questions for a result of the task

\* One question may come after the deadline and none later; polls stops counting
\* one above.
PollBound == PollTimeout \div PollInterval + 1

solverVars == <<phase, at, block, deadline, nap, polls>>

Phase == {"none", "submit", "nap", "poll", "solved", "failed"}

SolverTypeOK ==
    /\ phase \in [Solver -> Phase]
    /\ at \in [Solver -> 0..Len(Chain)]
    /\ block \in [Solver -> BlockPage]
    /\ deadline \in [Solver -> -1..PollTimeout]
    /\ nap \in [Solver -> 0..PollInterval]
    /\ polls \in [Solver -> Nat]

AnyPage == CHOOSE p \in BlockPage : TRUE

SolverInit ==
    /\ phase = [c \in Solver |-> "none"]
    /\ at = [c \in Solver |-> 0]
    /\ block = [c \in Solver |-> AnyPage]
    /\ deadline = [c \in Solver |-> 0]
    /\ nap = [c \in Solver |-> 0]
    /\ polls = [c \in Solver |-> 0]

In(c, p) == phase[c] = p
GoOn(c, p) == phase' = [phase EXCEPT ![c] = p]
Asks(c, k) == at[c] > 0 /\ Chain[at[c]] = k

SupportsTwoCaptcha(signal) == signal \in {"cloudflare", "recaptcha", "generic"}
SupportsCapSolver(signal) == signal \in {"cloudflare", "recaptcha", "generic"}
SupportsFlareSolverr(signal) == signal \in {"cloudflare", "generic"}
Supports(k, signal) ==
    CASE k = "2captcha" -> SupportsTwoCaptcha(signal)
      [] k = "capsolver" -> SupportsCapSolver(signal)
      [] k = "flaresolverr" -> SupportsFlareSolverr(signal)

\* The loop of ChainSolver.Solve goes on past solver i: to the next one that
\* supports the signal, if there is one.
NextSolver(c, i, page) ==
    LET able == {j \in (i + 1)..Len(Chain) : Supports(Chain[j], page.signal)}
    IN IF able = {} THEN GoOn(c, "failed") /\ at' = [at EXCEPT ![c] = 0]
       ELSE GoOn(c, "submit") /\ at' = [at EXCEPT ![c] = Min(able)]
SolverFails(c) == NextSolver(c, at[c], block[c]) /\ UNCHANGED <<block, deadline, polls>>

StartSolve(c, page) ==
    /\ NextSolver(c, 0, page)
    /\ block' = [block EXCEPT ![c] = page]
    /\ UNCHANGED <<deadline, nap, polls>>
EndSolve(c) ==
    /\ GoOn(c, "none")
    /\ at' = [at EXCEPT ![c] = 0]
    /\ block' = [block EXCEPT ![c] = AnyPage]
    /\ deadline' = [deadline EXCEPT ![c] = 0]
    /\ nap' = [nap EXCEPT ![c] = 0]
    /\ polls' = [polls EXCEPT ![c] = 0]

\* A solver begins.  2captcha takes reCAPTCHA v3 without a site key, but takes
\* every page of Cloudflare for a Turnstile; CapSolver wants the key.  The HTTP
\* request may fail, and does once the context has ended.
CanSubmitTwoCaptcha(page) ==
    \/ page.key = "key"
    \/ page.key = "v3" /\ page.signal # "cloudflare"
CanCreateTask(page) == page.key = "key"
CanSubmit(c) ==
    \/ Asks(c, "2captcha") /\ CanSubmitTwoCaptcha(block[c])
    \/ Asks(c, "capsolver") /\ CanCreateTask(block[c])
Refused(c) == In(c, "submit") /\ SolverFails(c) /\ UNCHANGED nap
Poll(c) ==
    /\ GoOn(c, "nap")
    /\ nap' = [nap EXCEPT ![c] = PollInterval]
    /\ UNCHANGED <<at, block>>
StartPolling(c) ==
    /\ Poll(c)
    /\ deadline' = [deadline EXCEPT ![c] = PollTimeout]
    /\ polls' = [polls EXCEPT ![c] = 0]
Submit(c) == In(c, "submit") /\ CanSubmit(c) /\ StartPolling(c)
FlareSolverrSolve(c) ==
    /\ In(c, "submit") /\ Asks(c, "flaresolverr")
    /\ GoOn(c, "solved")
    /\ UNCHANGED <<at, block, deadline, nap, polls>>

\* The polling loop of both services: the interval passes and the task is asked
\* about, or the context ends and the chain goes on with its next solver.
NapOver(c) ==
    /\ In(c, "nap") /\ nap[c] = 0
    /\ GoOn(c, "poll")
    /\ polls' = [polls EXCEPT ![c] = IF @ > PollBound THEN @ ELSE @ + 1]
    /\ UNCHANGED <<at, block, deadline, nap>>
NapCut(c) ==
    /\ In(c, "nap")
    /\ SolverFails(c)
    /\ nap' = [nap EXCEPT ![c] = 0]

\* The task is not ready, and the deadline is looked at before the next
\* interval; or there is its result; or an error.
NeverTooLate(c) == FALSE
TooLate(c) == deadline[c] < 0
NotReady(c) ==
    IF TooLate(c) THEN SolverFails(c) /\ UNCHANGED nap
    ELSE Poll(c) /\ UNCHANGED <<deadline, polls>>
HasResult(c) == GoOn(c, "solved") /\ UNCHANGED <<at, block, deadline, nap, polls>>
Result(c) == In(c, "poll") /\ (NotReady(c) \/ HasResult(c))
PollFails(c) == In(c, "poll") /\ SolverFails(c) /\ UNCHANGED nap

\* What a step of Solve may do, with the context of c ended or not.
SolveStep(c, ended) ==
    \/ Refused(c) \/ NapOver(c) \/ PollFails(c)
    \/ /\ ~ended
       /\ Submit(c) \/ FlareSolverrSolve(c) \/ Result(c)
    \/ ended /\ NapCut(c)

\* Time passes.
SolverTick ==
    /\ deadline' = [c \in Solver |-> IF phase[c] \in {"nap", "poll"} /\ deadline[c] >= 0
                                      THEN deadline[c] - 1 ELSE deadline[c]]
    /\ nap' = [c \in Solver |-> IF nap[c] > 0 THEN nap[c] - 1 ELSE 0]
    /\ UNCHANGED <<phase, at, block, polls>>

\* A task is asked about a bounded number of times, however slow the requests.
PollsBounded == \A c \in Solver : polls[c] <= PollBound
=============================================================================
