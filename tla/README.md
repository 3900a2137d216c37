# go-ddgs-stealth in TLA+

TLA+ models of the Go package `goddgs`, their TLC configurations, and proofs
for TLAPS. Paths such as `spider.go:213` are relative to the repository's root.

## 1. The system

`goddgs` searches the web through several providers and fetches and crawls
pages with clients that pace themselves, keep sessions, rotate proxies and
react to block pages. It is used as a library, through a command and through
an HTTP daemon.

| Component | State | Operations | Interacts with |
| --- | --- | --- | --- |
| Spider (`spider.go`) | channels `queue` and `out`, `inFlight`, page budget, `seen`, pause flag, pacing per domain, checkpoint and JSONL file | `Run`, `Pause`, `Resume`, `Close`, restart on a checkpoint | a Fetcher; C workers, a closer and the caller run concurrently |
| Client (`client.go`) | VQD token cache, time of the last request, user agent | `Search`, `SearchPages`, the retry loop `doWithRetry`, `getVQD`, `applySolution` | all of the anti-bot state; any number of goroutines share one client |
| Circuit breaker (`antibot.go`) | consecutive blocks, `openUntil` | `IsOpen`, `RecordBlock`, `RecordSuccess` | Client, fetchers |
| Adaptive rate limiter (`timing.go`) | current delay, time of the last slot | `Wait`, `OnBlock`, `OnSuccess` | Client, fetchers |
| Session manager (`session.go`) | cookie jar, warm flag and time | `NeedsWarmup`, `Warmup`, `Invalidate` | Client, HTTP fetcher; shares its jar with the `http.Client` |
| Proxy pool (`proxypool.go`) | per proxy: failures, time of the last one, weight; round-robin index | `Next`, `MarkSuccess`, `MarkFailed` | transport picks, Client marks |
| Transport (`transport.go`) | active and last proxy, pool of user agents | `RoundTrip`, `LastProxy` | proxy pool, Client |
| Solvers (`solver*.go`) | none between calls | `Solve`: submit and poll, first success wins | Client, fetchers |
| HTTP fetcher (`fetcher.go`) | its anti-bot state | `Fetch` with one solver retry | limiter, breaker, session, solvers |
| Stealthy and dynamic fetchers | the browser | `Fetch` with fallback to HTTP, `ensureBrowser`, `Close` | HTTP fetcher, whose anti-bot state they share |
| Engine and providers (`engine.go`, `provider.go`) | none between calls | `Search` over a chain of providers | providers, event hooks |
| Service (`service*.go`) and guard | request counts per minute | `/v1/search`, `/v1/stealth/fetch`, `/v1/stealth/crawl`, probes | engine, fetchers, spider |
| Adaptive parser (`adaptive_parser.go`) | selectors with fingerprints, a file | `Register`, `Select` (heals, learns), `Save`, `Load` | its callers |
| Session hub and fetcher pool | named fetchers with a time, rotation index | `Put`, `Get`, `Delete`, `Len`; `Add`, `Acquire` | fetchers |
| Metrics (`observability_prometheus.go`, `stealth_metrics.go`) | counters, the `goddgs_circuit_open` gauge | hooks | Client, engine |

Block detection, configuration, the commands, and the building and parsing of
HTTP messages keep no state of their own.

What is hard in this code:

- **Spider.** Two bounded channels form a cycle (Run feeds `queue`, the workers
  feed `out`, Run drains `out`); a counter kept by one goroutine decides when
  everything ends; cancellation, the pause flag and the page budget are looked
  at in different places; the checkpoint is written while work is under way,
  and the process may die at any point. Correct: nothing is fetched twice, the
  counter is exact, Run ends, nil means complete, a restart neither repeats
  nor loses pages.
- **Client.** Up to three retry loops, one nested in an attempt of another,
  drive a breaker, a token cache, a limiter, a session and a proxy pool shared
  with other searches; each is read at one moment and used later. Correct: a
  search is bounded and ends, an open breaker stops requests and stays open for
  its cooldown, a retry does not use a burned token, the metrics tell the
  breaker's state.
- **Limiter, session, proxies.** A slot, a warmup or a choice of proxy is made
  before a wait or a request, its result is recorded after it, and others act in
  between.
- **Fetchers, solvers.** A close or a deadline races with work under way; one
  call may be paced and recorded twice.
- **Parser, hub.** State is read under a lock and used after it.
- **Service.** A chain of providers under one timeout, each failing in its own
  way, must end in one answer; a signal meets handlers at work.

The full list, with lines, is `hazards` in PROJECT.json; a hazard without a
property has a note that says why.

## 2. Modules

| Module | Content |
| --- | --- |
| `Spider` | `Spider.Run` with its goroutines, the caller, crashes and restarts |
| `Crawl` | what `Run` promises, without workers and channels; `Spider!KeepsPromise` is the refinement |
| `MCSpider` | page graphs for TLC |
| `SpiderProofs` | theorems about `Spider`: types, no URL fetched twice, the pause, the counter and the end of `Run` |
| `SpiderPromiseProofs` | theorems about a nil result and the refinement of `Crawl` |
| `SpiderDepthProofs` | the theorem that a crawl with one worker is complete within MaxDepth |
| `CircuitBreaker` | the breaker's methods as operators on its two fields |
| `Client` | searches that share a client: the retry loops, token cache and gauge around `CircuitBreaker` |
| `ProxyPool` | the pool's methods as operators: rotation, cooldown, marking |
| `MCClient` | symmetry of the searches, the weights of the proxies |
| `ClientProofs` | theorems about searches, with the breaker and the pool |
| `RateLimiter` | the adaptive rate limiter: delay, reservations, the sleep of `Wait` |
| `Solvers` | the solver chain, with the polling loops of two services and the single request of the third |
| `Fetchers` | dynamic, stealthy and HTTP fetcher on one browser, composed of `RateLimiter`, `CircuitBreaker` and `Solvers` |
| `MCFetchers` | a solver chain and block pages for TLC |
| `FetchersProofs` | theorems about fetches, with the limiter and the solvers |
| `Engine` | configuration, the chain of providers, `Engine.Search`, its errors and counters |
| `Guard` | the request limit of the stealth endpoints |
| `Service` | HTTP handlers, subcommands and the daemon, composed of `Engine` and `Guard` |
| `MCService` | a provider configuration for TLC |
| `ServiceProofs` | theorems about the service, with the engine and the guard |
| `AdaptiveParser` | selectors with their healing, learning and files |
| `MCParser` | documents for TLC |
| `ParserProofs` | theorems about the files and the healing |
| `OrderLemmas` | least and greatest numbers, intervals, ranks: what the proofs use in place of induction |

### Spider

The goroutine in `Run` has the program counter `mpc`: `seed` and `seedSend` are
the loop over the start URLs, `drain` the early end when nothing was seeded,
`recv`, `write`, `save`, `links`, `send` the loop over results, `close` and
`done` the end. A worker has `wpc`: `idle` is the select, `gate` and `polling`
are `waitIfPaused`, `charge` is between it and `consumeBudget`, `fetch` is
`fetchOne`, `emit` the select that sends the result, `exit` the return.
Every operation on a channel, a mutex-protected field or a file is one step;
between any two of them the other goroutines run. An action has the name of
the code it stands for, and `map` in PROJECT.json gives its lines.

- A URL is the key of `markSeen`. `Pages[u]` is the set of link sequences a
  fetch of `u` may yield; `<<>>` also stands for a failed fetch or parse, which
  the program treats the same way. `Allowed` is what `urlAllowed` accepts.
- `written` holds the URLs whose results went to the JSONL writer. The program
  ignores the errors of both files. A checkpoint that cannot be created stays
  as it was; one that cannot be written out replaces the old one and restores
  nothing (`SaveCheckpoint`).
- `Restart` may happen at any point: it is a crash, or the next process after a
  return. Files survive, everything else is as `NewSpider` makes it.
- `cancelled` is the inner context. The budget's end sets it, the caller's
  `Cancel` sets it, and so does the deferred `cancel()` when `Run` returns.
- `starts`, `lost`, `restored`, `overrun` and `restarts` are history: no guard
  of the program reads them (`restarts` bounds `Restart`).
- Not modelled: the wait per domain (`waitDomain`), which delays a fetch that
  is one step here.

### Client

Each element of `Call` is a goroutine that calls `Search`. `loop` is the
innermost of the loops it is in: `djs`, the token loop `vqd` nested in the
construction of a `djs` request, or the fallback `html`. `pc` follows an attempt
through `doWithRetry`, after `warmup` and `warmup2`, the two requests of a
session's warmup: `gate` (the breaker), `failFast`, `wait` (limiter and
`buildReq`), `send`, `await`, then `success`, `sayClosed`, `credit` and `answer`,
or `blocked`, `sayOpen`, `blame`, `clear`, `invalidate` and `solve`, and `again`
(the last attempt or the backoff). The breaker's methods hold its mutex, so each is one step; the event
that `OnCircuit` gets is a later step, and the gauge follows it.

- All searches ask for one query with one user agent, so the cache is one entry.
  A token is the call that fetched it and the calls that have met a block
  since it came back; the second part is history.
- Time is the number of ticks the breaker still has to cool, and the end of a
  token's lifetime at any moment.
- The anti-bot state is configured as `NewAntiBotConfig` does (breaker, limiter
  and `VQDInvalidateOnBlock` on), with solvers, a session and a proxy pool where
  `HasSolver`, `HasSession` and `NProxy` say so. The limiter influences no
  decision of the loops, other than that its wait may end with the context; it
  is modelled with the fetchers.
- `RoundTrip` picks a proxy and remembers it in `lastProxy`, which all searches
  share; `Credit` and `Blame` mark what `lastProxy` is by then. `carrier` and
  `earned` are history: the proxy that carried a search's request, and the
  failures the pool would count if that one were marked. Pick and dial are one
  step, and redirects, which pick again, are left out.
- A session is warm or not; what its cookies do is the server's business.
- `sent` counts the requests of a search since a challenge was last solved, the
  warmup's included; `sentOpen` counts those since the breaker last opened, the
  warmup's included too, though these are sent without asking the breaker.

### RateLimiter, Solvers, Fetchers

The limiter's methods hold its mutex and are one step each. `lastReq` is kept
relative to now, so the clock needs no bound; `slots` is history, the
reservations that lie ahead, including those whose callers have given up. Of the
Gaussian jitter two draws are kept, one below and one above both clamps, so
`Jittered` is what the clamps make of them. Base and maximum may come in either
order, as `buildAntiBotState` accepts them; `ShortestGap` and `LongestGap` are the
least and the greatest gap that the clamp in `Wait` lets pass.

`Solvers` has for each goroutine its `phase` in `Solve`: `submit`, then `nap` and
`poll` for the services that are polled. `deadline` and `nap` run down with
time; a slow request lets time pass in `poll`. A blocked page is the signal it
was classified as and the site key it shows, because each solver has its own
condition on them (`CanSubmitTwoCaptcha`, `CanCreateTask`).

`Fetchers` follows a call of `FetchDynamic` through the `StealthyFetcher` and its
fallback. `layer` is the fetcher the call is in; `gate`, `wait`, `sleep` are
the same code in both; then `launch` and `page` are `ensureBrowser` and
`runStealthPage`, or `warmup` and `do` use HTTP; `count`, `invalidate` and `solve` are the block path and `reset` the end
of a success. A launch and a
`Close` each have a first and a last step and hold `f.mu` between them
(`MutexFree`). A page is `dead` once `Close` has taken its browser. `sent` and
`sentOpen` are history. Limiter, breaker and solvers are extended, so that one
clock (`PassTime`) drives all.

### Engine, Guard, Service

`Engine` has for every searcher the index `at` of its loop, and `asked`, the
diagnostics. What a provider says is chosen among what its code makes of an HTTP
exchange, or of the client's results and errors; an ended context leaves only
failures. The events of one answer are one step: they read nothing, and the
counters only grow. `chain` and the enabled part of it are written by positions
(`Kept`, `EnabledAt`, `Those`): what the loops of `config.go` and `engine.go`
append is what stands at them. `Guard` keeps the age of its one window, the
counts, and as history the ages of the requests accepted within the last minute.

`Service` follows a caller's request or command: checked and turned away in one
step, or accepted and then in `search`, `doctor`, `fetch`, `browse` (a page in a
browser) or `crawl`, to the status or exit code in `answer`. What happens inside
a fetch or crawl is in the other modules. The daemon is `serving`, `stopping`
after its signal, and `stopped`; `EndProcess` cuts off the handlers that are
left.

### AdaptiveParser

`selectors` is the map, `file` and `tmp` are the two paths of `Save`. `Select`
looks up a pointer and reads the object without the lock: `held` is `Live` while
the map still has that object, and its contents from the moment `Register` or
`Load` replaces it. Healing and learning look the name up again, as the code
does. `PrimaryCSS` is a string that is read without the lock while another
call may write it; `Torn` lets such a read fail to compile. `learn` stores the
shortened and the extended list one after the other; in the model it is one step,
so a slice header that `findSimilar` reads half written is not in it. `Save` holds the
read lock, so the writers (`CanWrite`) wait for it. The score is kept in
hundredths; in floating point 0.35 + 0.2 is exactly the 0.55 of the threshold.
`Crash` may come at any point and keeps the files.

## 3. Runs

| Run | Instance | Question |
| --- | --- | --- |
| `spider_pool` | 2 workers, channels of 2, a start list of 3 that link to each other, to 1 more page and off the domain, a budget of 3 | Is the bookkeeping of Run exact in every interleaving, does it keep `Crawl`'s promise, where does Run not end? |
| `spider_serial` | 1 worker, channels of 8 and 4, two chains to one page, up to 2 restarts | Is a serial crawl complete within MaxDepth, does a restart respect the checkpoint? |
| `spider_resume` | 2 workers, channels of 2, 2 start pages with a shared, a back and a too deep link, 1 restart | violated: does a resumed crawl finish what was begun? |
| `spider_star` | 1 worker, channels of 1, a page with 4 links | violated: can Run and its workers wait for each other? |
| `client_shared` | 2 searches, 1 attempt per loop and those a solver gives back, breaker of 2 blocks, a session | Do breaker and token cache keep their meaning when searches interleave? |
| `client_alone` | 1 goroutine, 2 searches, 3 attempts, a session, 2 proxies, a solver | Is a search bounded, does it return, is each result marked on its proxy, does the breaker keep its cooldown? |
| `client_blame` | 2 searches, 2 proxies | violated: is the result marked on the proxy that carried the request? |
| `client_gauge` | 1 goroutine, 2 searches | violated: does the gauge follow the breaker? |
| `fetchers` | 2 fetches over one browser, a polled solver and FlareSolverr, breaker of 2 blocks, a base delay of 2 above the maximum of 1 | Are pacing, polling and requests bounded, and what can hang? |
| `service` | 2 callers, one of which searches, 4 providers with one key, a limit of 1 per minute of 2 ticks | Do success and failure, counters, limit and shutdown mean what they say? |
| `service_errors` | as `service` | violated: does the exit code tell provider errors from a search without results? |
| `parser` | 2 callers, one of which saves, 3 calls each, 1 crash, 2 fingerprints | Are the files whole, does healing find what it should, does every call return? |

**Bounds.** Two workers give every pair of steps an order; channels of two fill
up. The start pages of `spider_pool` link to each other while these are queued,
fetched or done; its start list is one longer than the queue, so a cancellation
can leave the seeding loop without a reader; and its budget of three runs out
with work queued and held when the fourth page is found, and suffices when it is
not, so that both results of Run occur. In `spider_serial` page `d` is two hops
from `a` and one from `b`, and only the short way leaves a hop for `e`.
`MaxRestarts` is the only bound on a counter of the crawler. In `spider_star`
the channel sizes are scaled down: with the code's 8 and 4 per worker it takes
14 links for one worker. For the client, two searches are enough for each to act
between a check and its use by the other. Three attempts in `client_alone` are a
first, a middle and a last one; in `client_shared` the solver repeats the only
one, so that a loop goes round. `MaxSearches` bounds the searches of a
goroutine; the searches of `client_alone` and `client_gauge` follow each other.

In `fetchers` one fetch per goroutine has every stage shared with another's, and
a `PollTimeout` of 0 makes the first answer late and the second impossible; a
base of 2 and a maximum of 1 let the delay reach both, and the draws both clamps;
it is the order of the two that the code does not expect, and the theorems
cover either. In `service` the
configuration has a repeated and an unknown name, a leading ddg to add, and
providers without a key before and after the one that has it. One caller
searches: searches share nothing but counters that only grow, so two of them
commute. A minute of two ticks is enough for a window's end inside a minute of
requests. In `parser` one caller saves; see section 4 for two. Two fingerprints
make the oldest one go, and the documents have an element before and after a
change of its class, one that agrees in tag and class while its text changed,
one that agrees in the tag alone, and one whose id must be escaped. `MaxFetches`, `MaxCalls` and `MaxCrashes` bound the callers.

**Properties.** `InFlightExact` is the loop invariant that `spider.go:190-221`
relies on. `NoDoubleFetch` is what `markSeen` is for. `PauseBoundsOverrun` says
how late a pause may come: a worker past its gate begins one more fetch.
`NoWorkAfterReturn` lets the caller close the fetcher and the file.
`NilMeansComplete` gives `Run`'s result its meaning: a cut by the budget or the
context shows as an error. `CompleteWithinDepth` compares a serial crawl with
the set of pages at most MaxDepth hops away; with two workers the first path to
a page need not be the shortest, and it fails. `KeepsPromise` is `Crawl!Spec`
under the mapping in `Spider`. `OpenBoundsRequests` says that an open breaker lets
through, per search, the one request that had passed its check, or the warmup's
two, which are not checked. `CooldownKept` says that time alone closes the breaker
of a single goroutine.
`OpenMeansTripped` ties the count to the cooldown. `OwnTokenFresh` is the
purpose of looking the token up in each attempt (`client.go:361`).
`BlameEarned` compares the pool's failure counts with those of the proxies that
carried the requests. `SlotsSpaced`: two reserved slots are the shortest gap
apart at least, and abandoned ones delay the next caller by no more than their
own gap. `SleepersApart` is what they are for: of the callers that sleep, no two
wake within that gap; what they do then is up to the scheduler. The shortest gap
is what the code keeps, not what its comment says (section 4). `FetchBounded` and
`OpenBoundsFetch` follow one fetch through fallback and retries; the warmup is
not counted in them. `PollsBounded` and `OnlyTheBrowserHangs`: a solver that is
never ready ends; only the launch, the close and the pages of the browser, which
watch no context, may not, and with the first two whoever waits for `f.mu`. `AnswerJustified`
relates a search's success or failure to what every provider said, whatever the
configuration; a provider that was called with an ended context counts as
called. `ProviderErrorsTold` asks the same of the exit code, and fails; `MetricsAddUp` does so for the counters. `TwiceTheLimit` is
what the fixed window really limits, `NobodyLockedOut` that counting the rejected
requests too denies nobody beyond a minute. `NilMeansAnswered` and `StopEnds` are
the two sides of the shutdown. `FileWhole` and `SavedIsCurrent` are what writing
aside and renaming under the read lock are for. `HealsTheAlike` states the
threshold without the weights: two of tag, id and class.

**Fairness.** Weak fairness of Run, the closer and every worker: the Go
scheduler runs each goroutine that can run, a fetch ends because its client has a
timeout, and the pause timer fires. Strong fairness of `QuitPaused`: between
two polls the worker sits in a select on `ctx.Done()` for 50 ms, so a
cancellation is seen. A search keeps taking steps: requests have a timeout
and solvers a deadline. Nothing is assumed of the caller, of contexts, or of
time in these; `RunReturns` therefore assumes that the caller does not leave the crawl
paused, and `SearchReturns` does not need contexts to end. Both crawler
properties leave out `SeedingStuck`, the send of a start URL that watches no
context; `SearchReturns` leaves out a search whose challenges are solved again
and again.
In `fetchers` every step of a call is fair but those of the browser, and time
passes, since the limiter's sleep and the polls end by timers. A launch, the
closing of the browser and a page load get no fairness, because they have no
timeout and do not see the context; a page whose browser is closed fails. A
mutex that is free from some time on is taken by whoever waits for it; one that
others keep taking need not be. `service` takes that over: `browse`, which
includes the launch, is not fair, all other work is, and so are the end and the timeout of `Shutdown`. In `parser` every
step is fair: the lock is given to a writer when no reader has it.
Deadlock is checked for the crawler. In the other runs the callers end by
themselves after their last call, so there it is not.

## 4. Findings

- `spider_resume`: the checkpoint holds every URL ever *seen*. A restart marks
  queued and unfinished pages as done; with the start URLs among them the
  resumed crawl returns nil at once.
- `spider_star`: `queue <-` in Run (`spider.go:213`) and `out <-` in the workers
  (159) block each other on a page with many links, until the context ends.
- `client_gauge`: a breaker that closed by the passing of its cooldown sends no
  event at the success that follows, so the gauge stays at 1.
- `client_blame`: `LastProxy` after a response is the proxy of whatever request
  began last (`transport.go:126`), so with two searches a block puts another
  search's proxy in its cooldown, and a success clears the one that fails.
- `service_errors`: `Search` of the engine fails with "no results" whatever the
  providers said (`engine.go:97`), so the command ends with 2 where `docs/CLI.md`
  has 4 for provider errors, and `/v1/search` answers with 404 and never with the
  429 or 502 of `service.go:70-80`. Since the whole chain has one timeout, a slow
  first provider ends so too.

Seen while modelling, in the models, and not the subject of a run of its own:

- *The gap of the limiter.* `antibot.go:45` calls the base delay the minimum
  between requests and `timing.go:50` speaks of a minimum gap; the draw is
  clamped at half the base (`timing.go:87`), so two requests may be half a base
  apart, and less when the base is more than four times the maximum.
  `SlotsSpaced` and `SleepersApart` state the gap the code keeps.
- *A base above the maximum*, which nothing refuses (`antibot.go:219-229`): a
  block then shortens the delay to the maximum.
- *The early close of the breaker.* With two goroutines a success of a request
  under way closes it before its cooldown is over (`antibot.go:167`), against
  `antibot.go:75-81`; for one goroutine `CooldownKept` holds.
- *Warmups while it is open.* Every `Search` with a session that is not warm sends
  up to two requests before it asks the breaker (`client.go:291-300`), against
  `antibot.go:75-77`; `OpenBoundsRequests` counts them.
- *The solver's attempts.* `i--; continue` (`client.go:613`) gives a solved attempt
  back, so a search whose solver keeps succeeding does not end by its limit of
  retries, where `docs/ANTI_BOT_AND_SOLVERS.md:14` has retries within configured
  limits. The breaker stops it only when its cooldown outlasts a solve.
  `SearchReturns` names this as the only way not to return.
- *The seeding loop* does not watch the context (`spider.go:174`): a start list
  longer than the queue leaves `Run` stuck when the context ends early, and one
  longer than both channels and the workers hold leaves it stuck without that,
  since nobody reads `out` yet. `CancelEndsRun` and `RunReturns` name it.
- *The launch of the browser* has no timeout and runs under `f.mu`
  (`stealthy_fetcher.go:34`, 39, 194): one that hangs also blocks all other
  fetches of the browser and `Close`.
- *Another search's token.* `getVQD` may store a token that it asked for before
  another search met a block and cleared the cache, and that search's retry then
  uses it (`client.go:464`, against 361-363).

Seen beside the models: `Invalidate` does not reach the jar the `http.Client` uses
(`session.go:59`); tokens of the two captcha services are never applied to the
retried request. `Connect` failing after the launch leaves a browser behind
(`stealthy_fetcher.go:39`). A fallback is counted when no enabled provider is
left, and `FallbackUsed` goes by position. The doctor's stealth probe fetches `/` when
`GODDGS_DDG_BASE` is not set (`cmd/goddgs/main.go:147`). A crawl from the command
line without `--out` keeps its checkpoint in `.checkpoint.json` of the working
directory (240), where the next crawl finds it. The daemon lives on when its
listener fails (`cmd/goddgsd/main.go:63`). Two `Save` calls at once write one
temporary file and can leave a broken one in place (`adaptive_parser.go:43-59`);
`findSimilar` reads a slice that `learn` may be storing (118, 142-145), and half
of each store could make it panic; a healed selector whose id needs escaping does not compile, and `Select` then
fails for that name until it is registered again.

## 5. Proofs

The theorems hold for every value of the constants, from the assumptions that
the modules name (`WorkerAssumption`, `UrlAssumption` and so on) and, where a
theorem says so, one more. These say what the code is given: finitely many
goroutines, limits and delays that are positive where the code replaces others by a
default, documents and block pages that are not none at all. Two are about the
models only: `Cycle` is a common multiple of the numbers of proxies, and no
selector's name is the one that stands for a broken file. Each module first proves type correctness
(`TypeCorrect`), which is inductive everywhere, then takes its other invariants
from the types and what is said here.

There is no induction over data: where a proof needs it, it takes the least
counterexample (`LeastNat` in `OrderLemmas`), or shows that a set of numbers
holds 0 and every successor (`UpTo`). `LeastNat` itself comes from the library's
theorem that strict inclusion of finite sets is well-founded. `Within` is a recursive function; that there is
one (`WithinExists`) is proved in the same way.

**`SpiderProofs`**, for any sets of workers and URLs, any page graph and any bound.

- `TypeCorrect`: the channels' bounds come from the guards of the sends, the
  budget's from `HasBudget`.
- `FetchedOnce`: `NoDoubleFetch`. A URL is *fresh* while it is seen and neither
  restored nor begun. The inductive invariant `OnceInv` says that the URLs in
  `queue`, those held by workers that have not begun their fetch, and the one Run
  is sending are fresh and pairwise distinct (`QueueOnce`, `HeldOnce`,
  `PendOnce`), and that what is begun was seen, is not restored, and was begun
  once (`BegunSeen`). Without distinctness two workers could hold one fresh URL;
  without freshness a queued URL could have been begun before.
- `CheckpointRespected`: `NoRefetchAfterRestart`, from the part of `BegunSeen`
  that keeps begun and restored URLs apart.
- `PauseHolds`: `PauseBoundsOverrun`. `PauseInv` adds that a worker past its gate
  has begun no fetch since the pause.
- `CounterExact`: `InFlightExact`. The equation is inductive given the types;
  three lemmas say how the number of busy workers changes when one moves.
- `ReturnIsLast`: `NoWorkAfterReturn`. By `CounterExact` Run leaves its loop with
  a counter of zero only when nothing is queued, held or waiting; `EndInv` adds
  that `out` is closed only when all workers are gone, the other way out, and
  that past the loop no worker can get a task.

**`SpiderPromiseProofs`**

- `NilIsComplete`: `NilMeansComplete`. `CarryInv`: unless a worker dropped a task
  or the context ended after seeding, every URL seen by this run is in the JSONL
  file or still carried by a channel, a worker or Run. `DropInv`: tasks are
  dropped, and workers leave, only when the context has ended or `queue` was
  closed. With the counter at zero nothing is carried, so everything seen is
  reported (`ResultInv`).
- `Refines`: `KeepsPromise`, the refinement of `Crawl`. `BudgetInv`: the budget
  and the URLs begun sum to `MaxPages`; `BegunInv`: what is past the start of its
  fetch was begun. `StartFetch` is `Begin` by `OnceInv`, `EndInv` and `BudgetInv`,
  `WriteLine` is `Report` by `BegunInv`, the two returns are `Return` by
  `ResultInv`, `Restart` is `Restart` because a checkpoint holds only what was
  seen; all other steps stutter.

**`SpiderDepthProofs`**

- `SerialIsComplete`: `CompleteWithinDepth`, for one worker (`OneWorker`) and pages
  that yield the same links every time (`SamePages`; a failed fetch hides links,
  so without it there is nothing to compare with). `OrderInv`: along `out`, the
  worker and `queue` depths do not decrease. `LevelInv`: they are those of two
  adjacent levels. `SpreadInv`: every URL seen is on its way, being read, or has
  all its links seen; `ReachInv`: everything within one level less than the
  current one is seen, and nothing of it is on its way at a greater depth. When
  Run reads the first page of a new level, nothing of the level before is left,
  so by `SpreadInv` all links of that level are seen: `ReachInv` for the next one.
  At the end either the last level was reached, or what was seen is closed under
  links and so holds `Within` (`ClosedHoldsAll`). With two workers `OrderInv` is
  lost, and so is the property.

**`ClientProofs`**, for any finite set of searches that share a client, any limit
of retries, any pool and threshold.

- `OpenIsTripped`: `OpenMeansTripped`, inductive by itself.
- `OpenStopsRequests`: `OpenBoundsRequests`. `GateInv` says how much a search has
  sent, where it is, since the breaker opened (`OpenLimit`): nothing before the
  warmup and past a check, one request between the two of the warmup; and the
  history is zero while the breaker is closed.
- `OpenForTheCooldown`: `CooldownKept` if one goroutine searches at a time. `ShutInv`:
  while the breaker is open nobody is between its check and the record of what
  came back, so no success can be recorded. With two goroutines the invariant is
  lost, and so is the property.
- `RetriesWithFreshToken`: `OwnTokenFresh`. `TokenInv`: a cached token does not
  count a block of the search that fetched it, nor does one that this search
  holds; a search that meets a block holds none, since its request took it; a
  token loop that has its answer holds its own.
- `SearchIsBounded`: `RequestsBounded`. `InBudget` gives each search an allowance
  from its loop, the attempts begun in each loop and its `pc`, and a solution gives
  it a new one; an attempt of `djs`
  costs its own request and a whole token loop. Multiplication by a constant
  parameter is kept in `SpentFacts`.
- `BlameIsEarned`: `BlameEarned` if one goroutine searches at a time
  (`\A c, d \in Call : c = d`): `lastProxy` is then the carrier of whoever asks.
  The run `client_blame` shows that two goroutines break it.

**`FetchersProofs`**, for any set of callers, any chain of solvers, any delays and
limits.

- `SlotsStaySpaced`: `SlotsSpaced`, with base and maximum in either order
  (`ClampBounds`, `GapFacts`). `LimiterInv` adds that the last reserved slot,
  abandoned or not, is where `lastReq` stands.
- `SleepersWakeApart`: `SleepersApart`. `SleeperInv`: nobody sleeps beyond
  `lastReq`, so the next to reserve wakes later than all others, by a clamped
  delay at least.
- `PollingEnds`: `PollsBounded`. `PollInv`: before the deadline each question
  has cost a whole interval, so questions times interval fit into the time
  passed; only one may come after it.
- `FetchEnds`: `FetchBounded`. `FetchInv` gives a fetch an allowance from its
  layer, whether it may still retry, and its `pc`.
- `OpenStopsFetches`: `OpenBoundsFetch`. `GateInv`: a fetch between the check of
  the breaker and its next request has sent none since the breaker opened.

**`ServiceProofs`**, for any set of callers, any configuration and any limit.

- `AnswersAreEarned`: `AnswerJustified`. `AskedFrom`: the providers asked are the
  first enabled ones in the order of the chain, and none but the last had
  results; `SearchInvOf` ties their number to the loop's index by its rank among
  the enabled positions, and an answer that was not cut off to what they said
  (`Verdict`, which also holds the one kind of failure the code has). That ddg is in every chain makes the enabled part nonempty.
- `CountersAddUp`: `MetricsAddUp`, for finitely many callers: the sets of answers
  it counts grow by the one just given.
- `TwiceTheLimitAtMost` and `OnlyTheServedAreRefused`: `TwiceTheLimit` and
  `NobodyLockedOut`. `GuardInv` splits the requests accepted within a minute into
  those older than the window and those in it, each at most the limit; the
  window's count, capped by the limit, is the size of the second part.
- `NilIsClean`: `NilMeansAnswered`. `EndInv`: a call is cut off only by the end
  that gives an error, and the process ends once.

**`ParserProofs`**, for any documents, names, callers and bounds.

- `FileStaysWhole` and `SaveIsCurrent`: `FileWhole` and `SavedIsCurrent`, if one
  goroutine saves (`OneSaver`). `FileInv`: a call between opening and renaming is
  a saver and writes to `path.tmp`, which before the rename holds the map; nobody
  changes the map then because the saver has the read lock. Two savers share
  `path.tmp` (section 4).
- `HealsWhatIsAlike`: `HealsTheAlike`, for every document and every list of
  fingerprints: the weights of `findSimilar` reach the threshold exactly with two
  of tag, id and class, and the best candidate is above it if any is.

Only model-checked: liveness (`RunReturns`, `CancelEndsRun`, `SearchReturns`,
`OnlyTheBrowserHangs`, `StopEnds`, `OnlyBrowsersHang`, `AllReturn`), which is beyond
TLAPS here, and that the crawler has no deadlock. The violated properties of
section 4 are false, so there is nothing to prove of them. Every other property
of a run is the subject of a theorem.

## 6. Not modelled

- `SearchPages` calls `Search` page by page and sleeps between; its own state is
  a set of URLs to drop duplicates. The fixed gap of `waitForTurn` is a limiter
  without adaptation, off when the anti-bot state is on.
- The session hub and the fetcher pool: a map and a list behind one lock each.
  They neither wait nor call out, and what a caller still holds is outside them.
- Block detection, parsers, headers, user agents, TLS, decompression and the
  scripts of the browser: functions of data. Where their result matters it is a
  choice.
- The wait per domain and the policy of `urlAllowed` in the crawler; the cookie
  jars and the contents of solutions; the dynamic fetcher's wait and its checks
  of the body.
- The `providers` and `repl` commands, `healthz` and `metrics`, the examples,
  benchmarks and scripts.

## 7. Plan

Each safety property of a passing run has its theorem. Left is the invariant that a proof of progress of the crawler by hand would start from: a worker that waits for room in `out` has a reader in Run
unless Run itself waits for room in `queue`, which is the only way to
`NoCircularWait`. No module that it needs declares a RECURSIVE operator.
