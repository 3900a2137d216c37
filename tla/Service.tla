------------------------------- MODULE Service -------------------------------
(***************************************************************************)
(* The ways into the library: the handlers of service.go and                  *)
(* service_stealth.go behind the guard, the daemon of cmd/goddgsd that serves *)
(* them until a signal comes, and the subcommands of cmd/goddgs.  A caller     *)
(* sends requests or runs commands, one after the other.  Fetch and Run are   *)
(* one step here; modules Fetchers and Spider are their insides.              *)
(***************************************************************************)
EXTENDS Engine, Guard

CONSTANTS
    Caller,
    MaySearch,  \* bound: the callers that search
    MaxCalls    \* bound on the requests of one caller; a search or a command is alone

ASSUME ServiceAssumption ==
    Searcher = Caller /\ MaySearch \subseteq Caller /\ MaxCalls \in Nat \ {0}

VARIABLES
    pc,         \* what the call of c is in
    via,        \* "http" or "command"
    answer,     \* status or exit code of c's last call
    calls,      \* history: calls left to c
    searched,   \* history: whether c's call is or was a search
    daemon,     \* "serving", "stopping" or "stopped"
    result      \* what runWithServe returned

callerVars == <<pc, via, answer, calls, searched>>
daemonVars == <<daemon, result>>
engineVars == <<configVars, searchVars, metricVars>>
vars == <<callerVars, daemonVars, engineVars, guardVars>>

Status(n) == <<"status", n>>
Exit(n) == <<"exit", n>>
None == <<"none", 0>>
\* The process ended before the answer.
Cut == <<"cut", 0>>
Answers == {None, Cut} \cup {Status(n) : n \in {200, 400, 401, 404, 405, 429, 502, 503}}
                       \cup {Exit(n) : n \in {0, 2, 3, 4}}
PC == {"idle", "search", "doctor", "probe", "fetch", "browse", "crawl"}

TypeOK ==
    /\ pc \in [Caller -> PC]
    /\ via \in [Caller -> {"http", "command"}]
    /\ answer \in [Caller -> Answers]
    /\ calls \in [Caller -> 0..MaxCalls]
    /\ searched \in [Caller -> BOOLEAN]
    /\ daemon \in {"serving", "stopping", "stopped"}
    /\ result \in {"none", "nil", "error"}
    /\ EngineTypeOK /\ GuardTypeOK

Init ==
    /\ pc = [c \in Caller |-> "idle"]
    /\ via = [c \in Caller |-> "http"]
    /\ answer = [c \in Caller |-> None]
    /\ calls = [c \in Caller |-> MaxCalls]
    /\ searched = [c \in Caller |-> FALSE]
    /\ daemon = "serving" /\ result = "none"
    /\ EngineInit /\ GuardInit

----------------------------------------------------------------------------
At(c, s) == pc[c] = s
InHandler(c) == pc[c] # "idle" /\ via[c] = "http"

Comes(c, way) == At(c, "idle") /\ calls[c] > 0 /\ via' = [via EXCEPT ![c] = way]
Requests(c) == daemon = "serving" /\ Comes(c, "http")
Runs(c) == calls[c] = MaxCalls /\ Comes(c, "command")

Enter(c, s) == pc' = [pc EXCEPT ![c] = s] /\ answer' = [answer EXCEPT ![c] = None]
Turned(c, a) == UNCHANGED pc /\ answer' = [answer EXCEPT ![c] = a]
Done(c, a) ==
    /\ pc' = [pc EXCEPT ![c] = "idle"]
    /\ answer' = [answer EXCEPT ![c] = a]
    /\ at' = [at EXCEPT ![c] = 0]
    /\ ended' = [ended EXCEPT ![c] = FALSE]
    /\ UNCHANGED <<via, calls, searched, asked, configVars, metricVars>>

\* The call begins a search, or leaves the engine alone.
BeginsSearch(c, s) ==
    /\ c \in MaySearch /\ calls[c] = MaxCalls
    /\ calls' = [calls EXCEPT ![c] = 0]
    /\ searched' = [searched EXCEPT ![c] = TRUE]
    /\ Enter(c, s) /\ StartSearch(c)
    /\ UNCHANGED <<configVars, metricVars>>
NoSearch(c) ==
    /\ calls' = [calls EXCEPT ![c] = IF via'[c] = "http" THEN @ - 1 ELSE 0]
    /\ UNCHANGED <<searched, engineVars>>

----------------------------------------------------------------------------
\* The handlers.  A request may have the wrong method, no token, a body that is
\* no JSON, or lack its required field.

Readyz(c) ==
    /\ Requests(c)
    /\ Turned(c, Status(IF EnabledProviders = <<>> THEN 503 ELSE 200))
    /\ NoSearch(c)
    /\ UNCHANGED <<daemonVars, guardVars>>

HandleSearch(c) ==
    /\ Requests(c)
    /\ \/ Turned(c, Status(405)) /\ NoSearch(c)
       \/ Turned(c, Status(400)) /\ NoSearch(c)
       \/ BeginsSearch(c, "search")
    /\ UNCHANGED <<daemonVars, guardVars>>

\* The guard looks at a request that has the method and the token, before its
\* body is read; an accepted one may still be bad, or its fetcher or spider may
\* not come up.
Unguarded(c, a) == a \in {Status(405), Status(401)} /\ Turned(c, a) /\ UNCHANGED guardVars /\ NoSearch(c)
Guarded(c, Go) ==
    \E ip \in IP, ok \in BOOLEAN :
       /\ Allow(ip, ok)
       /\ IF ok THEN (\E a \in {Status(400), Status(502)} : Turned(c, a) /\ NoSearch(c)) \/ (Go /\ NoSearch(c))
          ELSE Turned(c, Status(429)) /\ NoSearch(c)
HandleStealth(c, modes) ==
    /\ Requests(c)
    /\ (\E a \in Answers : Unguarded(c, a)) \/ Guarded(c, \E s \in modes : Enter(c, s))
    /\ UNCHANGED daemonVars
HandleFetch(c) == HandleStealth(c, {"fetch", "browse"})
HandleCrawl(c) == HandleStealth(c, {"crawl"})

\* The subcommands.
CmdSearch(c) ==
    /\ Runs(c)
    /\ (Turned(c, Exit(2)) /\ NoSearch(c)) \/ BeginsSearch(c, "search")
    /\ UNCHANGED <<daemonVars, guardVars>>
CmdDoctor(c) ==
    /\ Runs(c)
    /\ BeginsSearch(c, "doctor")
    /\ UNCHANGED <<daemonVars, guardVars>>
CmdFetch(c) ==
    /\ Runs(c)
    /\ \/ \E a \in {Exit(2), Exit(4)} : Turned(c, a) /\ NoSearch(c)
       \/ \E s \in {"fetch", "browse"} : Enter(c, s) /\ NoSearch(c)
    /\ UNCHANGED <<daemonVars, guardVars>>
CmdCrawl(c) ==
    /\ Runs(c)
    /\ \/ \E a \in {Exit(2), Exit(4)} : Turned(c, a) /\ NoSearch(c)
       \/ Enter(c, "crawl") /\ NoSearch(c)
    /\ UNCHANGED <<daemonVars, guardVars>>

----------------------------------------------------------------------------
\* The work and the answer.

Search(c) ==
    /\ pc[c] \in {"search", "doctor"}
    /\ Ask(c, via[c] = "http")
    /\ UNCHANGED <<callerVars, daemonVars, guardVars>>

SearchStatus(kind) ==
    CASE kind = "no_results" -> 404
      [] kind \in {"rate_limited", "blocked"} -> 429
      [] OTHER -> 502
SearchExit(kind) == IF kind = "no_results" THEN 2 ELSE 4
AnswerSearch(c) ==
    /\ At(c, "search") /\ Returns(c)
    /\ Done(c, IF via[c] = "http"
               THEN Status(IF Found(c) THEN 200 ELSE SearchStatus(ReturnedKind(c)))
               ELSE Exit(IF Found(c) THEN 0 ELSE SearchExit(ReturnedKind(c))))
    /\ UNCHANGED <<daemonVars, guardVars>>

\* runDoctor ends at a failed search; what its fetch says it only prints.
AnswerDoctor(c) ==
    /\ At(c, "doctor") /\ Returns(c)
    /\ IF Found(c) THEN pc' = [pc EXCEPT ![c] = "probe"] /\ UNCHANGED <<via, answer, calls, searched, engineVars>>
       ELSE Done(c, Exit(3))
    /\ UNCHANGED <<daemonVars, guardVars>>
DoctorProbe(c) ==
    /\ At(c, "probe")
    /\ Done(c, Exit(0))
    /\ UNCHANGED <<daemonVars, guardVars>>

FetchStatus(says) ==
    CASE says = "page" -> 200
      [] says = "blocked" -> 429
      [] says = "error" -> 502
FetchExit(says) == IF says = "page" THEN 0 ELSE 3
AnswerFetch(c) ==
    /\ pc[c] \in {"fetch", "browse"}
    /\ \E says \in {"blocked", "error"} \cup {x \in {"page"} : ~ended[c]} :
          Done(c, IF via[c] = "http" THEN Status(FetchStatus(says)) ELSE Exit(FetchExit(says)))
    /\ UNCHANGED <<daemonVars, guardVars>>

\* Run returns nil, Canceled when its page budget is used up or the requester
\* has gone, DeadlineExceeded, or an error of its files.
CrawlFails(err) == err \notin {"nil", "canceled"}
AnswerCrawl(c) ==
    /\ At(c, "crawl")
    /\ \E err \in {"nil", "canceled", "file"} \cup {x \in {"deadline"} : ended[c]} :
          Done(c, IF via[c] = "http" THEN Status(IF CrawlFails(err) THEN 502 ELSE 200)
                  ELSE Exit(IF CrawlFails(err) THEN 3 ELSE 0))
    /\ UNCHANGED <<daemonVars, guardVars>>

\* The timeout of a call, or the end of its requester.
EndContext(c) ==
    /\ pc[c] # "idle"
    /\ EndOfContext(c)
    /\ UNCHANGED <<callerVars, daemonVars, guardVars>>

----------------------------------------------------------------------------
\* The daemon.  Shutdown takes no more requests and waits for the handlers, ten
\* seconds at most; then the process ends, and with it every handler.

Signal ==
    /\ daemon = "serving" /\ daemon' = "stopping"
    /\ UNCHANGED <<callerVars, result, engineVars, guardVars>>
NilAtOnce == daemon = "stopping"
AllAnswered == daemon = "stopping" /\ \A c \in Caller : ~InHandler(c)
EndProcess(err) ==
    /\ daemon' = "stopped" /\ result' = err
    /\ pc' = [c \in Caller |-> IF InHandler(c) THEN "idle" ELSE pc[c]]
    /\ answer' = [c \in Caller |-> IF InHandler(c) THEN Cut ELSE answer[c]]
    /\ at' = [c \in Caller |-> IF InHandler(c) THEN 0 ELSE at[c]]
    /\ ended' = [c \in Caller |-> ended[c] /\ ~InHandler(c)]
    /\ UNCHANGED <<via, calls, searched, asked, configVars, metricVars, guardVars>>
ShutdownDone == AllAnswered /\ EndProcess("nil")
NoTimeout == FALSE
ShutdownTimeout == daemon = "stopping" /\ ~AllAnswered /\ EndProcess("error")

PassTime == GuardTick /\ UNCHANGED <<callerVars, daemonVars, engineVars>>

Begin(c) ==
    \/ Readyz(c) \/ HandleSearch(c) \/ HandleFetch(c) \/ HandleCrawl(c)
    \/ CmdSearch(c) \/ CmdDoctor(c) \/ CmdFetch(c) \/ CmdCrawl(c)
Work(c) ==
    \/ Search(c) \/ AnswerSearch(c) \/ AnswerDoctor(c) \/ DoctorProbe(c)
    \/ AnswerFetch(c) \/ AnswerCrawl(c)

Next ==
    \/ \E c \in Caller : Begin(c) \/ Work(c) \/ EndContext(c)
    \/ Signal \/ ShutdownDone \/ ShutdownTimeout
    \/ PassTime

Spec == Init /\ [][Next]_vars

\* Requests to providers and pages have a timeout, and a crawl ends (module
\* Spider).  A page in a browser may hang (module Fetchers).
Fairness ==
    /\ \A c \in Caller : WF_vars(pc[c] # "browse" /\ Work(c))
    /\ WF_vars(ShutdownDone) /\ WF_vars(ShutdownTimeout)
FairSpec == Spec /\ Fairness

----------------------------------------------------------------------------
(* Safety. *)

Said(c) == [i \in DOMAIN asked[c] |-> asked[c][i].says]
AskedInOrder(c) ==
    /\ IsPrefix([i \in DOMAIN asked[c] |-> asked[c][i].provider], EnabledProviders)
    /\ \A i \in 1..(Len(asked[c]) - 1) : asked[c][i].says # "results"

\* Whatever mix of answers, disabled providers and ended contexts a search met:
\* its success is that of the first enabled provider with results, and its
\* failure says that every enabled one was called and none had any.  A provider
\* called with an ended context sends no request, and counts as called.
AnswerJustified ==
    \A c \in Caller :
       searched[c] =>
          /\ AskedInOrder(c)
          /\ pc[c] = "idle" /\ answer[c] # Cut =>
                /\ answer[c] \in {Status(200), Exit(0)} <=> Found(c)
                /\ ~Found(c) => Len(asked[c]) = Len(EnabledProviders)

\* The exit code tells what the providers said, as docs/CLI.md:17-19 has it: code 2
\* of a search is for a chain in which one found nothing or blocked the request,
\* and a chain of provider errors, an ended context included, gives 4.
ProviderErrorsTold ==
    \A c \in Caller :
       (searched[c] /\ pc[c] = "idle" /\ answer[c] = Exit(2)) =>
          \E i \in DOMAIN asked[c] : asked[c][i].says \in {"no_results", "blocked", "rate_limited"}

\* The counters agree with the diagnostics of the searches.  Fallbacks are
\* counted by position, so there may be more of them than providers asked next.
Observed == {c \in Caller : searched[c] /\ via[c] = "http"}
Replies(p, kinds) ==
    {x \in Observed \X (1..Len(chain)) :
       LET c == x[1]  i == x[2] IN
          i <= Len(asked[c]) /\ asked[c][i].provider = p /\ asked[c][i].says \in kinds}
HowMany(p, kinds) == Cardinality(Replies(p, kinds))
MetricsAddUp ==
    \A p \in Providers :
       /\ requests[p].success = HowMany(p, {"results"})
       /\ requests[p].error = HowMany(p, ErrorKind)
       /\ blocks[p] = HowMany(p, {"blocked"})
       /\ fallbacks[p] <= requests[p].error
       /\ fallbacks[p] >= Cardinality({c \in Observed : \E i \in 1..(Len(asked[c]) - 1) :
                                                           asked[c][i].provider = p})

\* A nil from runWithServe: no request was left without an answer.
NilMeansAnswered == result = "nil" => \A c \in Caller : answer[c] # Cut

(* Liveness, under FairSpec. *)

\* The daemon ends after its signal although a page hangs in a browser, and no
\* other call keeps its caller waiting for ever.
StopEnds == (daemon = "stopping") ~> (daemon = "stopped")
OnlyBrowsersHang == \A c \in Caller : []<>(pc[c] \in {"idle", "browse"})
=============================================================================
