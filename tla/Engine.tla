-------------------------------- MODULE Engine --------------------------------
(***************************************************************************)
(* Engine.Search of engine.go over the providers of provider.go, put in       *)
(* order by config.go, with the counters of observability_prometheus.go.      *)
(* Every element of Searcher is a goroutine that may be in Search.  The        *)
(* Client behind the ddg provider is module Client; here it is one answer.    *)
(***************************************************************************)
EXTENDS Integers, FiniteSetsExt, SequencesExt

CONSTANTS
    Searcher,
    Orders,     \* what GODDGS_PROVIDER_ORDER may hold, <<>> when it is not set
    KeySets     \* the sets of providers that may have an API key

Keyed == {"brave", "tavily", "serpapi"}
Providers == {"ddg"} \cup Keyed

ASSUME EngineAssumption ==
    KeySets \subseteq SUBSET Keyed /\ \A env \in Orders : env \in Seq(STRING)

VARIABLES
    chain,      \* e.providers
    keys,
    at,         \* idx of the loop
    asked,      \* diag: the providers asked and what each one said
    ended,      \* the context of the search has ended
    requests, fallbacks, blocks     \* counters, by provider

configVars == <<chain, keys>>
metricVars == <<requests, fallbacks, blocks>>
searchVars == <<at, asked, ended>>

ErrorKind == {"blocked", "rate_limited", "provider_unavailable", "parse", "no_results"}
Reply == [provider : Providers, says : ErrorKind \cup {"results"}]

EngineTypeOK ==
    /\ chain \in Seq(Providers)
    /\ keys \in KeySets
    /\ at \in [Searcher -> 0..Len(chain)]
    /\ asked \in [Searcher -> Seq(Reply)]
    /\ ended \in [Searcher -> BOOLEAN]
    /\ requests \in [Providers -> [{"success", "error"} -> Nat]]
    /\ fallbacks \in [Providers -> Nat]
    /\ blocks \in [Providers -> Nat]

----------------------------------------------------------------------------
\* Configuration.

\* LoadConfigFromEnv: the names in the variable, or the default.
ProviderOrder(env) == IF env = <<>> THEN <<"ddg", "brave", "tavily", "serpapi">> ELSE env
InOrderUnchecked(names) == names
\* The k-th position of S, and what stands in seq at the positions of S.
Nth(S, k) == CHOOSE i \in S : Cardinality({j \in S : j <= i}) = k
Those(seq, S) == [k \in 1..Cardinality(S) |-> seq[Nth(S, k)]]
\* NewDefaultEngineFromConfig drops unknown names and repetitions, and puts ddg
\* first when it is not among them.
Kept(names) ==
    {i \in DOMAIN names : names[i] \in Providers /\ \A j \in 1..(i - 1) : names[j] # names[i]}
InOrder(names) ==
    IF \E i \in DOMAIN names : names[i] = "ddg" THEN Those(names, Kept(names))
    ELSE <<"ddg">> \o Those(names, Kept(names))

Enabled(p) == p = "ddg" \/ p \in keys
EnabledAt == {i \in DOMAIN chain : Enabled(chain[i])}
EnabledProviders == Those(chain, EnabledAt)

EngineInit ==
    /\ chain \in {InOrder(ProviderOrder(env)) : env \in Orders}
    /\ keys \in KeySets
    /\ at = [c \in Searcher |-> 0]
    /\ asked = [c \in Searcher |-> <<>>]
    /\ ended = [c \in Searcher |-> FALSE]
    /\ requests = [p \in Providers |-> [success |-> 0, error |-> 0]]
    /\ fallbacks = [p \in Providers |-> 0]
    /\ blocks = [p \in Providers |-> 0]

----------------------------------------------------------------------------
\* Providers.

\* What the HTTP exchange of a keyed provider may come to; a body that breaks
\* off is a garbled one, and results without a URL are dropped.
Exchange == {"failed", "429", "5xx", "4xx", "garbled", "empty", "hits"}
Meaning(x) ==
    CASE x = "429" -> "rate_limited"
      [] x \in {"failed", "5xx", "4xx"} -> "provider_unavailable"
      [] x = "garbled" -> "parse"
      [] x = "empty" -> "no_results"
      [] x = "hits" -> "results"
BraveSearch(x) == Meaning(x)
TavilySearch(x) == Meaning(x)
SerpAPISearch(x) == Meaning(x)

\* What Client.Search of the ddg provider may return, and classifyError.
SearchOutcome == {"results", "none", "BlockedError", "ErrNoResults", "ErrNoVQD", "ErrUnexpectedBody", "other"}
ClassifyError(err) ==
    CASE err = "BlockedError" -> "blocked"
      [] err = "ErrNoResults" -> "no_results"
      [] err \in {"ErrNoVQD", "ErrUnexpectedBody"} -> "parse"
      [] err = "other" -> "provider_unavailable"
DDGSearch(out) ==
    CASE out = "results" -> "results"
      [] out = "none" -> "no_results"
      [] OTHER -> ClassifyError(out)

\* With an ended context no request is made.
MaySay(p, over) ==
    LET x == IF over THEN {"failed"} ELSE Exchange
    IN CASE p = "ddg" -> {DDGSearch(out) : out \in IF over THEN {"other"} ELSE SearchOutcome}
         [] p = "brave" -> {BraveSearch(y) : y \in x}
         [] p = "tavily" -> {TavilySearch(y) : y \in x}
         [] p = "serpapi" -> {SerpAPISearch(y) : y \in x}

----------------------------------------------------------------------------
\* Search.

StartSearch(c) ==
    /\ asked' = [asked EXCEPT ![c] = <<>>]
    /\ UNCHANGED <<at, ended>>

\* The loop goes on at the providers behind at that are enabled.
StopAtDisabled(c) == {i \in (at[c] + 1)..Len(chain) : \A j \in (at[c] + 1)..i : Enabled(chain[j])}
Ahead(c) == {i \in (at[c] + 1)..Len(chain) : Enabled(chain[i])}
Found(c) == asked[c] # <<>> /\ Last(asked[c]).says = "results"

\* PrometheusCollector.Hook on the events of one answer.  The counters only
\* grow and the events read nothing, so all of them are one step.  A fallback is
\* counted for every failure but that of the last position.
CountOnlySuccess(p, says, i) ==
    /\ requests' = IF says = "results" THEN [requests EXCEPT ![p].success = @ + 1] ELSE requests
    /\ UNCHANGED <<fallbacks, blocks>>
Hook(p, says, i) ==
    /\ requests' = [requests EXCEPT ![p][IF says = "results" THEN "success" ELSE "error"] = @ + 1]
    /\ blocks' = IF says = "blocked" THEN [blocks EXCEPT ![p] = @ + 1] ELSE blocks
    /\ fallbacks' = IF says # "results" /\ i < Len(chain) THEN [fallbacks EXCEPT ![p] = @ + 1]
                    ELSE fallbacks
\* counted: the daemon's engine has the hook, a command's has none.
Ask(c, counted) ==
    /\ ~Found(c) /\ Ahead(c) # {}
    /\ LET i == Min(Ahead(c)) IN
       \E says \in MaySay(chain[i], ended[c]) :
          /\ at' = [at EXCEPT ![c] = i]
          /\ asked' = [asked EXCEPT ![c] = Append(@, [provider |-> chain[i], says |-> says])]
          /\ IF counted THEN Hook(chain[i], says, i) ELSE UNCHANGED metricVars
    /\ UNCHANGED <<ended, configVars>>

\* Search returns, with results or with the error the callers see: what the
\* providers said is only in the diagnostics.
ReturnsFound(c) == Found(c)
Returns(c) == Found(c) \/ Ahead(c) = {}
ReturnedKind(c) ==
    IF asked[c] = <<>> THEN "provider_unavailable" ELSE "no_results"

EndOfContext(c) ==
    /\ ~ended[c]
    /\ ended' = [ended EXCEPT ![c] = TRUE]
    /\ UNCHANGED <<at, asked, configVars, metricVars>>
=============================================================================
