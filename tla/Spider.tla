------------------------------- MODULE Spider -------------------------------
(***************************************************************************)
(* The crawler of spider.go.  Run starts a fixed set of worker goroutines   *)
(* that receive tasks from the bounded channel "queue" and send results on  *)
(* the bounded channel "out"; the goroutine that called Run seeds the       *)
(* queue, then receives results, persists each one and queues the links it  *)
(* had not seen.  A fourth goroutine closes "out" when the workers are gone.*)
(* The caller may pause, resume and cancel at any time, and the process may *)
(* die at any time and be started again on the same checkpoint file.        *)
(*                                                                         *)
(* A URL stands for the key markSeen computes.  A fetch is one step that    *)
(* yields a sequence of links; <<>> is also what a failed fetch or a failed *)
(* parse yields.  The program ignores every error of its two files: a URL is *)
(* "written" once its result has been handed to the JSONL writer.            *)
(***************************************************************************)
EXTENDS Integers, Sequences, FiniteSets

CONSTANTS
    URL,            \* keys of the seen set
    Start,          \* cfg.StartURLs, a sequence
    Allowed,        \* the URLs urlAllowed accepts
    Pages,          \* for each URL, the link sequences its fetch may yield
    Worker,         \* the worker goroutines: cfg.Concurrency of them
    QueuePerWorker, \* 8 in the code
    OutPerWorker,   \* 4 in the code
    MaxPages,
    MaxDepth,
    MaxRestarts     \* bound on the restarts that are explored

ASSUME WorkerAssumption == IsFiniteSet(Worker) /\ Worker # {}
ASSUME UrlAssumption ==
    /\ IsFiniteSet(URL)
    /\ Start \in Seq(URL) /\ Start # <<>>
    /\ Allowed \subseteq URL
    /\ DOMAIN Pages = URL
    /\ \A u \in URL : Pages[u] \subseteq Seq(URL) /\ Pages[u] # {}
ASSUME BoundAssumption ==
    /\ QueuePerWorker \in Nat \ {0}
    /\ OutPerWorker \in Nat \ {0}
    /\ MaxPages \in Nat \ {0}
    /\ MaxDepth \in Nat \ {0}
    /\ MaxRestarts \in Nat

VARIABLES
    \* the goroutine that called Run
    mpc,        \* its program counter
    todo,       \* the start URLs or discovered links still to be looked at
    level,      \* the depth those get
    pend,       \* the URL whose send on queue is in progress
    page,       \* the result being processed
    inFlight,   \* seeded, and then inFlight
    err,        \* what Run returned
    \* channels
    queue, queueClosed, out, outClosed,
    \* the workers
    wpc, task, found,
    \* shared
    budget,     \* pageBudget
    cancelled,  \* ctx.Done() is closed
    paused,
    seen,
    \* files
    ckpt,       \* the "seen" list of the checkpoint file
    written,    \* the URLs whose results went to the JSONL file
    \* history, never read by the program
    starts,     \* how often this run began to fetch each URL
    lost,       \* tasks a worker accepted and dropped because of ctx
    restored,   \* what NewSpider took from the checkpoint
    overrun,    \* fetches each worker began since Pause
    restarts

mainVars   == <<mpc, todo, level, pend, page, inFlight, err>>
chanVars   == <<queue, queueClosed, out, outClosed>>
workerVars == <<wpc, task, found>>
fileVars   == <<ckpt, written>>
histVars   == <<starts, lost, restored, overrun, restarts>>
vars == <<mainVars, chanVars, workerVars, budget, cancelled, paused, seen,
          fileVars, histVars>>

C == Cardinality(Worker)
QueueCap == QueuePerWorker * C
OutCap == OutPerWorker * C

Task == [url : URL, depth : Nat]
Result == [url : URL, depth : Nat, links : Seq(URL)]

MainPC == {"seed", "seedSend", "drain", "recv", "write", "save", "links",
           "send", "close", "done"}
WorkerPC == {"idle", "gate", "polling", "charge", "fetch", "emit", "exit"}

\* A worker in one of these states owns a task.
Busy == {"gate", "polling", "charge", "fetch", "emit"}
BusyWorkers == {w \in Worker : wpc[w] \in Busy}

TypeOK ==
    /\ mpc \in MainPC
    /\ todo \in Seq(URL)
    /\ level \in Nat
    /\ pend \in URL
    /\ page \in URL
    /\ inFlight \in Int
    /\ err \in {"none", "nil", "canceled"}
    /\ queue \in Seq(Task) /\ Len(queue) <= QueueCap
    /\ out \in Seq(Result) /\ Len(out) <= OutCap
    /\ queueClosed \in BOOLEAN /\ outClosed \in BOOLEAN
    /\ wpc \in [Worker -> WorkerPC]
    /\ task \in [Worker -> Task]
    /\ found \in [Worker -> Seq(URL)]
    /\ budget \in 0..MaxPages
    /\ cancelled \in BOOLEAN /\ paused \in BOOLEAN
    /\ seen \subseteq URL /\ ckpt \subseteq URL /\ written \subseteq URL
    /\ starts \in [URL -> Nat]
    /\ lost \in Nat
    /\ restored \subseteq URL
    /\ overrun \in [Worker -> Nat]
    /\ restarts \in 0..MaxRestarts

----------------------------------------------------------------------------
\* NewSpider and the start of Run.  The values of pend, page, task and found do
\* not matter yet.
AnyURL == Start[1]
Init ==
    /\ mpc = "seed" /\ todo = Start /\ level = 0 /\ inFlight = 0 /\ err = "none"
    /\ pend = AnyURL /\ page = AnyURL
    /\ queue = <<>> /\ queueClosed = FALSE /\ out = <<>> /\ outClosed = FALSE
    /\ wpc = [w \in Worker |-> "idle"]
    /\ task = [w \in Worker |-> [url |-> AnyURL, depth |-> 0]]
    /\ found = [w \in Worker |-> <<>>]
    /\ budget = MaxPages /\ cancelled = FALSE /\ paused = FALSE
    /\ seen = {} /\ restored = {} /\ ckpt = {} /\ written = {}
    /\ starts = [u \in URL |-> 0] /\ lost = 0
    /\ overrun = [w \in Worker |-> 0]
    /\ restarts = 0

----------------------------------------------------------------------------
\* The goroutine that called Run.

\* The tests Run makes before it queues a URL: depth, urlAllowed, markSeen.
EligibleUnmarked(u) == u \in Allowed /\ level <= MaxDepth
Eligible(u) == u \in Allowed /\ u \notin seen /\ level <= MaxDepth

\* One turn of the loop over StartURLs or res.Discovered up to the send.
\* markSeen has taken effect when the send on queue begins.
LookAt(here, sending) ==
    /\ mpc = here /\ todo # <<>>
    /\ todo' = Tail(todo)
    /\ IF Eligible(Head(todo))
         THEN mpc' = sending /\ pend' = Head(todo) /\ seen' = seen \cup {Head(todo)}
         ELSE UNCHANGED <<mpc, pend, seen>>
    /\ UNCHANGED <<level, page, inFlight, err, chanVars, workerVars, budget,
                   cancelled, paused, fileVars, histVars>>

LookAtSeed == LookAt("seed", "seedSend")
LookAtLink == LookAt("links", "send")

\* queue <- crawlTask{...}, with the counter that follows it.
EnqueueFront(q, t) == <<t>> \o q
Enqueue(q, t) == Append(q, t)
SendTask(here, back) ==
    /\ mpc = here /\ Len(queue) < QueueCap
    /\ queue' = Enqueue(queue, [url |-> pend, depth |-> level])
    /\ inFlight' = inFlight + 1
    /\ mpc' = back
    /\ UNCHANGED <<todo, level, pend, page, err, queueClosed, out, outClosed,
                   workerVars, budget, cancelled, paused, seen, fileVars, histVars>>

SendSeed == SendTask("seedSend", "seed")   \* no ctx.Done() beside this send
SendLink == SendTask("send", "links")

\* The ctx.Done() case of the select around the send of a link: the link stays
\* marked as seen and is not queued.
DropLinkCounted ==
    /\ mpc = "send" /\ cancelled
    /\ mpc' = "links" /\ inFlight' = inFlight + 1
    /\ UNCHANGED <<todo, level, pend, page, err, chanVars, workerVars,
                   budget, cancelled, paused, seen, fileVars, histVars>>
DropLinkWhenFull ==
    /\ mpc = "send" /\ (cancelled \/ Len(queue) = QueueCap)
    /\ mpc' = "links"
    /\ UNCHANGED <<todo, level, pend, page, inFlight, err, chanVars, workerVars,
                   budget, cancelled, paused, seen, fileVars, histVars>>
DropLink ==
    /\ mpc = "send" /\ cancelled
    /\ mpc' = "links"
    /\ UNCHANGED <<todo, level, pend, page, inFlight, err, chanVars, workerVars,
                   budget, cancelled, paused, seen, fileVars, histVars>>

\* After the seeding loop: nothing seeded closes queue and waits for the
\* workers, otherwise the result loop begins.
EndSeeding ==
    /\ mpc = "seed" /\ todo = <<>>
    /\ IF inFlight = 0 THEN mpc' = "drain" /\ queueClosed' = TRUE
                       ELSE mpc' = "recv" /\ UNCHANGED queueClosed
    /\ UNCHANGED <<todo, level, pend, page, inFlight, err, queue, out, outClosed,
                   workerVars, budget, cancelled, paused, seen, fileVars, histVars>>

AllExited == \A w \in Worker : wpc[w] = "exit"

\* wg.Wait(); close(out); return nil; the deferred cancel() runs.
ReturnEmpty ==
    /\ mpc = "drain" /\ AllExited
    /\ mpc' = "done" /\ outClosed' = TRUE /\ err' = "nil" /\ cancelled' = TRUE
    /\ UNCHANGED <<todo, level, pend, page, inFlight, queue, queueClosed, out,
                   workerVars, budget, paused, seen, fileVars, histVars>>

\* res := <-out; inFlight--.
Receive ==
    /\ mpc = "recv" /\ out # <<>>
    /\ LET res == Head(out) IN
         page' = res.url /\ todo' = res.links /\ level' = res.depth + 1
    /\ out' = Tail(out)
    /\ inFlight' = inFlight - 1
    /\ mpc' = "write"
    /\ UNCHANGED <<pend, err, queue, queueClosed, outClosed, workerVars, budget,
                   cancelled, paused, seen, fileVars, histVars>>

\* `range out` ends: the channel is closed and drained.
OutExhausted ==
    /\ mpc = "recv" /\ out = <<>> /\ outClosed
    /\ mpc' = "close"
    /\ UNCHANGED <<todo, level, pend, page, inFlight, err, chanVars, workerVars,
                   budget, cancelled, paused, seen, fileVars, histVars>>

\* persistResult, first half: the JSONL line.
WriteLine ==
    /\ mpc = "write"
    /\ written' = written \cup {page}
    /\ mpc' = "save"
    /\ UNCHANGED <<todo, level, pend, page, inFlight, err, chanVars, workerVars,
                   budget, cancelled, paused, seen, ckpt, histVars>>

\* persistResult, second half: snapshotSeen to a temporary file, then rename.
\* An error of os.Create leaves the file as it was; after an error of Encode the
\* rename still happens, and restoreCheckpoint will find nothing in the file.
SaveCheckpoint ==
    /\ mpc = "save"
    /\ ckpt' \in {ckpt, seen, {}}
    /\ mpc' = "links"
    /\ UNCHANGED <<todo, level, pend, page, inFlight, err, chanVars, workerVars,
                   budget, cancelled, paused, seen, written, histVars>>

\* All links looked at: leave the loop when nothing is outstanding.
FinishedEarly == inFlight <= 1
FinishedLate == inFlight < 0
Finished == inFlight <= 0
EndLinks ==
    /\ mpc = "links" /\ todo = <<>>
    /\ mpc' = IF Finished THEN "close" ELSE "recv"
    /\ UNCHANGED <<todo, level, pend, page, inFlight, err, chanVars, workerVars,
                   budget, cancelled, paused, seen, fileVars, histVars>>

\* close(queue); return ctx.Err(); the deferred cancel() runs.
ReturnErr ==
    /\ mpc = "close"
    /\ queueClosed' = TRUE
    /\ err' = IF cancelled THEN "canceled" ELSE "nil"
    /\ cancelled' = TRUE
    /\ mpc' = "done"
    /\ UNCHANGED <<todo, level, pend, page, inFlight, queue, out, outClosed,
                   workerVars, budget, paused, seen, fileVars, histVars>>

Main ==
    \/ LookAtSeed \/ SendSeed \/ EndSeeding \/ ReturnEmpty
    \/ Receive \/ OutExhausted \/ WriteLine \/ SaveCheckpoint
    \/ LookAtLink \/ SendLink \/ DropLink \/ EndLinks \/ ReturnErr

----------------------------------------------------------------------------
\* The goroutine started once something is seeded: wg.Wait(); close(out).
CloseOut ==
    /\ mpc \notin {"seed", "seedSend", "drain"}
    /\ AllExited /\ ~outClosed
    /\ outClosed' = TRUE
    /\ UNCHANGED <<mainVars, queue, queueClosed, out, workerVars, budget,
                   cancelled, paused, seen, fileVars, histVars>>

----------------------------------------------------------------------------
\* Worker w.

\* A worker step that only moves w from one state to another.
Goto(w, from, to) ==
    /\ wpc[w] = from
    /\ wpc' = [wpc EXCEPT ![w] = to]

\* What a worker step that exits with a task in hand does to the history.
Loses == lost' = lost + 1

TakeTask(w) ==
    /\ Goto(w, "idle", "gate")
    /\ queue # <<>>
    /\ task' = [task EXCEPT ![w] = Head(queue)]
    /\ queue' = Tail(queue)
    /\ UNCHANGED <<mainVars, queueClosed, out, outClosed, found, budget,
                   cancelled, paused, seen, fileVars, histVars>>

\* The two cases of the select that end the goroutine.
Quit(w) ==
    /\ Goto(w, "idle", "exit")
    /\ cancelled \/ (queueClosed /\ queue = <<>>)
    /\ UNCHANGED <<mainVars, chanVars, task, found, budget, cancelled, paused,
                   seen, fileVars, histVars>>

\* waitIfPaused: look at the flag, and while it is set wait for the 50 ms timer
\* or for ctx.Done().
IgnorePause(w) == Goto(w, "gate", "charge")
LookAtPause(w) ==
    /\ Goto(w, "gate", IF paused THEN "polling" ELSE "charge")
PassGate(w) ==
    /\ LookAtPause(w)
    /\ UNCHANGED <<mainVars, chanVars, task, found, budget, cancelled, paused,
                   seen, fileVars, histVars>>
PollAgain(w) ==
    /\ Goto(w, "polling", "gate")
    /\ UNCHANGED <<mainVars, chanVars, task, found, budget, cancelled, paused,
                   seen, fileVars, histVars>>
NeverQuitPaused(w) == FALSE
QuitPaused(w) ==
    /\ Goto(w, "polling", "exit") /\ cancelled /\ Loses
    /\ UNCHANGED <<mainVars, chanVars, task, found, budget, cancelled, paused,
                   seen, fileVars, starts, restored, overrun, restarts>>

\* consumeBudget, and the call of fetchOne that follows a success.
ChargeNothing == UNCHANGED budget
Charge == budget' = budget - 1
BudgetAssumed == TRUE
HasBudget == budget > 0
StartFetch(w) ==
    /\ Goto(w, "charge", "fetch")
    /\ HasBudget /\ Charge
    /\ starts' = [starts EXCEPT ![task[w].url] = @ + 1]
    /\ overrun' = [overrun EXCEPT ![w] = IF paused THEN @ + 1 ELSE 0]
    /\ UNCHANGED <<mainVars, chanVars, task, found, cancelled, paused, seen,
                   fileVars, lost, restored, restarts>>

\* consumeBudget fails: cancel() and return.
EndCrawl == cancelled' = TRUE
OutOfBudget(w) ==
    /\ Goto(w, "charge", "exit")
    /\ ~HasBudget
    /\ EndCrawl
    /\ Loses
    /\ UNCHANGED <<mainVars, chanVars, task, found, budget, paused, seen,
                   fileVars, starts, restored, overrun, restarts>>

\* fetchOne returns.
Fetched(w) ==
    /\ Goto(w, "fetch", "emit")
    /\ \E links \in Pages[task[w].url] : found' = [found EXCEPT ![w] = links]
    /\ UNCHANGED <<mainVars, chanVars, task, budget, cancelled, paused, seen,
                   fileVars, histVars>>

\* The select around out <- res.
Emit(w) ==
    /\ Goto(w, "emit", "idle")
    /\ Len(out) < OutCap
    /\ out' = Append(out, [url |-> task[w].url, depth |-> task[w].depth,
                           links |-> found[w]])
    /\ UNCHANGED <<mainVars, queue, queueClosed, outClosed, task, found, budget,
                   cancelled, paused, seen, fileVars, histVars>>
DropResult(w) ==
    /\ Goto(w, "emit", "exit") /\ cancelled /\ Loses
    /\ UNCHANGED <<mainVars, chanVars, task, found, budget, cancelled, paused,
                   seen, fileVars, starts, restored, overrun, restarts>>

WorkerStep(w) ==
    \/ TakeTask(w) \/ Quit(w)
    \/ PassGate(w) \/ PollAgain(w) \/ QuitPaused(w)
    \/ StartFetch(w) \/ OutOfBudget(w) \/ Fetched(w)
    \/ Emit(w) \/ DropResult(w)

----------------------------------------------------------------------------
\* The caller and the operating system.

Pause ==
    /\ ~paused /\ paused' = TRUE
    /\ overrun' = [w \in Worker |-> 0]
    /\ UNCHANGED <<mainVars, chanVars, workerVars, budget, cancelled, seen,
                   fileVars, starts, lost, restored, restarts>>
Resume ==
    /\ paused /\ paused' = FALSE
    /\ UNCHANGED <<mainVars, chanVars, workerVars, budget, cancelled, seen,
                   fileVars, histVars>>
\* The context Run was given ends.
Cancel ==
    /\ ~cancelled /\ cancelled' = TRUE
    /\ UNCHANGED <<mainVars, chanVars, workerVars, budget, paused, seen,
                   fileVars, histVars>>

\* The process dies, or has returned, and a new one runs the same crawl on the
\* same files: restoreCheckpoint marks everything in the checkpoint as seen, and
\* NewSpider goes on without it when it cannot be read.
RestoredNothing == {}
Restored == ckpt
Restart ==
    /\ restarts < MaxRestarts
    /\ restarts' = restarts + 1
    /\ mpc' = "seed" /\ todo' = Start /\ level' = 0 /\ inFlight' = 0 /\ err' = "none"
    /\ queue' = <<>> /\ queueClosed' = FALSE /\ out' = <<>> /\ outClosed' = FALSE
    /\ wpc' = [w \in Worker |-> "idle"]
    /\ budget' = MaxPages /\ cancelled' = FALSE /\ paused' = FALSE
    /\ seen' = Restored /\ restored' = ckpt
    /\ starts' = [u \in URL |-> 0] /\ lost' = 0
    /\ overrun' = [w \in Worker |-> 0]
    /\ UNCHANGED <<pend, page, task, found, fileVars>>

Caller == Pause \/ Resume \/ Cancel

Next ==
    \/ Main
    \/ CloseOut
    \/ \E w \in Worker : WorkerStep(w)
    \/ Caller
    \/ Restart

Spec == Init /\ [][Next]_vars

\* Every goroutine that can take a step eventually does: the Go scheduler is
\* fair, a fetch ends (its client has a timeout), a pause timer fires.  A select
\* that finds ctx.Done() ready again and again picks it some time.  The caller
\* owes nothing.
Fairness ==
    /\ WF_vars(Main)
    /\ WF_vars(CloseOut)
    /\ \A w \in Worker : WF_vars(WorkerStep(w)) /\ SF_vars(QuitPaused(w))
FairSpec == Spec /\ Fairness

----------------------------------------------------------------------------
(* Safety. *)

\* The counter that decides when Run may stop is exact: it counts every task
\* that is queued, held by a worker, waiting in out, or dropped by a worker, in
\* every interleaving of the three kinds of goroutine.
InFlightExact ==
    inFlight = Len(queue) + Cardinality(BusyWorkers) + Len(out) + lost

\* Within one run no URL is fetched twice, however many pages link to it and
\* whichever workers handle them.
NoDoubleFetch == \A u \in URL : starts[u] <= 1

\* While the crawl is paused a worker can begin at most the one fetch whose gate
\* it had already passed: Pause stops progress after at most C pages.
PauseBoundsOverrun == paused => \A w \in Worker : overrun[w] <= 1

\* Run does not return while a worker still holds a task: after it the caller
\* may close the fetcher and the JSONL file.
NoWorkAfterReturn == mpc = "done" => BusyWorkers = {}

\* A nil error means that the result of every URL this run marked as seen went
\* to the JSONL file: nothing was cut off by the budget or by ctx, no link was
\* lost.
NilMeansComplete ==
    (mpc = "done" /\ err = "nil") => seen \ restored \subseteq written

\* What a restart on the checkpoint would have to give for "resume": when Run
\* returns nil after it, every URL the crawl ever knew has gone to the JSONL file.
ResumeComplete == (mpc = "done" /\ err = "nil") => seen \subseteq written

\* A URL found in the checkpoint is not fetched again by the resumed crawl.
NoRefetchAfterRestart == \A u \in restored : starts[u] = 0

\* Main waits for room in queue, every worker for room in out, and nobody is
\* left to make any: Run is stuck until its context ends.
NoCircularWait ==
    ~ ( /\ mpc = "send" /\ Len(queue) = QueueCap
        /\ Len(out) = OutCap /\ \A w \in Worker : wpc[w] = "emit"
        /\ ~cancelled )

\* The allowed URLs at most n hops from a start page, when pages always yield
\* the same links: the reference that a crawl's depth is compared with.
LinksOf(u) == {v \in Allowed : \E links \in Pages[u] : \E i \in 1..Len(links) : links[i] = v}
Nearest == {Start[i] : i \in 1..Len(Start)} \cap Allowed
Within[n \in 0..MaxDepth] ==
    IF n = 0 THEN Nearest ELSE Within[n - 1] \cup UNION {LinksOf(u) : u \in Within[n - 1]}

\* With a single worker the two channels keep breadth-first order, so a nil
\* error means that every page at most MaxDepth hops away was reported.
CompleteWithinDepth ==
    (mpc = "done" /\ err = "nil" /\ restarts = 0) => Within[MaxDepth] \subseteq written

\* What Run promises, as a specification of its own.
Promise == INSTANCE Crawl WITH
    known     <- seen,
    inherited <- restored,
    begun     <- {u \in URL : starts[u] > 0},
    reported  <- written,
    status    <- IF mpc = "done" THEN err ELSE "running"
KeepsPromise == Promise!Spec

(* Liveness, under FairSpec. *)

\* The seeding loop sends without a look at ctx: once the workers have left with
\* the queue full, nothing ends Run any more.
SeedingStuck == mpc = "seedSend" /\ Len(queue) = QueueCap /\ AllExited

\* With the links of the run small enough for the channels, Run returns unless the
\* caller leaves it paused, or the context ended while the start list was still
\* being queued and did not fit.
RunReturns == (<>[]~paused) => <>(mpc = "done" \/ SeedingStuck)

\* Ending the context ends Run and every goroutine it started, paused or not, with
\* that one exception: then the workers are gone and Run is not.
CancelEndsRun ==
    cancelled ~> (mpc = "done" /\ AllExited /\ outClosed) \/ SeedingStuck
=============================================================================
