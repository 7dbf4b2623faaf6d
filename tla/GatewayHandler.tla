----------------------------- MODULE GatewayHandler ---------------------------
(***************************************************************************)
(* gatewayHandler and routeRequest of src/gateway.js: a request passes the *)
(* checks every request passes -- preflight, health, IP allowlist,         *)
(* authentication, rate limit, route -- in one turn of the event loop, and *)
(* then makes the upstream calls of its route one after the other, a turn  *)
(* between any two.                                                        *)
(*                                                                         *)
(* An upstream call is one exchange here: its retries are the business of  *)
(* UpstreamRequest, which also shows that it ends.  The clock is left out: *)
(* the cached verification may expire at any moment, and the limiter is    *)
(* the TokenBucket RateLimiter implements.  The submission routes end in   *)
(* whatever status SubmitTransaction gives them.                           *)
(***************************************************************************)
EXTENDS Naturals, Sequences

CONSTANTS
  Requests,
  Workloads,             \* functions from requests to what clients send
  ApiKeys,               \* keys clients present, without NoKey
  KnownKeys,             \* those whose hash is in config.auth.apiKeyHashes
  NoKey,
  Ips, AllowedIps,
  AllowUnauthenticated,  \* config.auth.allowUnauthenticated
  ReadinessPublic,       \* config.auth.readinessPublic
  EnforceMainnet,        \* config.network.enforceMainnet
  RequireIndexer,        \* config.upstream.requireIndexer
  Errors,                \* statuses an upstream call may throw
  SubmissionStatuses,    \* statuses a submission or simulation may end in
  Burst                  \* config.rateLimit.burst

SubmissionRoutes == {"submit", "simulate"}
Routes == {"health", "ready", "status", "params", "evidence", "account",
           "accountAsset", "accountTransactions", "asset", "assetTransactions",
           "block", "pending", "transaction",
           "accountUnknown", "assetUnknown", "unknown", "undecodable"}
          \union SubmissionRoutes

\* A request, after normalizePathApiKeyRoute: `form` says whether the path held
\* an API key, `defects` which parts of the URL fail validation.
Request ==
  [method : {"GET", "POST", "OPTIONS"}, corsOrigin : BOOLEAN,
   form : {"plain", "pathKey", "badPathKey"}, headerKey : ApiKeys \union {NoKey},
   pathKey : ApiKeys \union {NoKey}, ip : Ips, route : Routes,
   defects : SUBSET {"address", "id", "query"}]

ASSUME HandlerAssumption ==
  /\ Workloads \subseteq [Requests -> Request]
  /\ KnownKeys \subseteq ApiKeys /\ NoKey \notin ApiKeys
  /\ AllowedIps \subseteq Ips
  /\ {AllowUnauthenticated, ReadinessPublic, EnforceMainnet, RequireIndexer}
       \subseteq BOOLEAN
  /\ Errors \subseteq 400..599 /\ SubmissionStatuses \subseteq 200..599
  /\ Burst \in Nat \ {0}

VARIABLES
  rq,            \* the workload
  hasIndexer,    \* config.upstream.indexer.url is set
  at,            \* step of the plan a handler is suspended in: 0 before the
                 \* request arrives, Done after it is answered
  reply,         \* what the pending upstream call settles with
  failed,        \* readiness checks that failed
  gathered,      \* parts of the evidence a handler has been given
  blank,         \* parts of it whose upstream answered 2xx without data
  answer,
  algodNet,      \* the network behind the configured algod URL
  cacheFresh,    \* the last verification is cached and has not expired
  level,         \* the limiter's buckets
  told,          \* what the limiter last told each of its clients
  mainnetSeen    \* requests during which algod was MainNet at some moment

given == <<rq, hasIndexer>>
handlerVars == <<at, reply, failed, gathered, blank, answer>>
limiterVars == <<level, told>>
vars == <<given, handlerVars, algodNet, cacheFresh, limiterVars, mainnetSeen>>

Networks == {"mainnet", "other"}

\* How an upstream call settles: with a body that shows a network, or is the
\* indexer's, or empty (parsed to null); or with the error it throws.  A body that is
\* no JSON (parsed to rawBodyBase64) shows no genesis and so "other" to verifyNetwork,
\* and no field of the evidence: there it is as good as an empty one.
Reply(status, body) == [status |-> status, body |-> body]
Waiting == Reply(0, "none")
Replies ==
  {Reply(200, body) : body \in Networks \union {"served", "empty"}}
    \union {Reply(s, "none") : s \in Errors}

NoAnswer == [status |-> 0, verified |-> FALSE, connected |-> FALSE]
Status(s) == [status |-> s, verified |-> FALSE, connected |-> FALSE]

-----------------------------------------------------------------------------
(* Who is asking.                                                          *)

\* extractApiKey: a key in a header goes before the one in the path.
PresentedKey(r) ==
  IF r.headerKey # NoKey THEN r.headerKey
  ELSE IF r.form = "pathKey" THEN r.pathKey ELSE NoKey

Keyless(r) == AllowUnauthenticated \/ (ReadinessPublic /\ r.route = "ready")

\* Mutant: any key will do.
AuthenticatedByAnyKey(r) == Keyless(r) \/ PresentedKey(r) # NoKey

Authenticated(r) == Keyless(r) \/ PresentedKey(r) \in KnownKeys

Principal(r) ==
  IF ReadinessPublic /\ r.route = "ready" THEN "readiness"
  ELSE IF AllowUnauthenticated THEN "anonymous" ELSE PresentedKey(r)

\* The limiter's key `principal.id:ip`.
LimiterClients == (ApiKeys \union {"anonymous", "readiness"}) \X Ips
LimiterClient(r) == <<Principal(r), r.ip>>

Limiter == INSTANCE TokenBucket WITH
  Clients <- LimiterClients, Capacity <- Burst, Cost <- 1, Refill <- 1, reply <- told

IpAllowed(r) == AllowedIps = {} \/ r.ip \in AllowedIps

-----------------------------------------------------------------------------
(* What is asked: the checks of a route in the order they are made, and    *)
(* the upstream calls it makes when they pass.                             *)

Method(r) == IF r.route \in SubmissionRoutes THEN "POST" ELSE "GET"

RouteChecks(route) ==
  CASE route = "unknown" -> <<"route">>
    [] route = "undecodable" -> <<"encoding">>
    [] route = "accountUnknown" -> <<"address", "route">>
    [] route = "assetUnknown" -> <<"id", "route">>
    [] route = "evidence" -> <<"method", "query", "address">>
    [] route \in {"account", "accountTransactions"} -> <<"address", "method", "query">>
    [] route = "accountAsset" -> <<"address", "method", "id", "query">>
    [] route \in {"asset", "assetTransactions"} -> <<"id", "method", "query">>
    [] route \in {"block", "pending", "transaction"} -> <<"method", "id", "query">>
    [] OTHER -> <<"method">>

CheckFails(check, r) ==
  \/ check \in {"route", "encoding"}
  \/ check = "method" /\ r.method # Method(r)
  \/ check \in r.defects

CheckStatus(check) ==
  CASE check = "route" -> 404 [] check = "method" -> 405 [] OTHER -> 400

\* Status of the first check that fails, 0 if none does.
RouteStatus(r) ==
  LET checks == RouteChecks(r.route)
      failing == {i \in DOMAIN checks : CheckFails(checks[i], r)}
  IN  IF failing = {} THEN 0
      ELSE CheckStatus(checks[CHOOSE i \in failing : \A j \in failing : i <= j])

Readiness ==
  <<"readyStatus", "readyNetwork">> \o (IF hasIndexer THEN <<"readyIndexer">> ELSE <<>>)

Evidence == Readiness \o <<"status", "params", "network", "account", "history">>

Plan(route) ==
  CASE route = "ready" -> Readiness
    [] route = "evidence" -> Evidence
    [] route = "params" -> <<"params", "network">>
    [] route \in {"accountTransactions", "assetTransactions", "transaction"} ->
         <<"indexer">>
    [] route \in SubmissionRoutes -> <<"submission">>
    [] OTHER -> <<"algod">>

StepAt(c, i) == Plan(rq[c].route)[i]
Done == 10
Pending(c) == at[c] \notin {0, Done}
Step(c) == StepAt(c, at[c])

ReadinessSteps == {"readyStatus", "readyNetwork", "readyIndexer"}
IndexerSteps == {"readyIndexer", "history", "indexer"}
EvidenceParts == {"status", "params", "account", "history"}
IsPart(r, step) == r.route = "evidence" /\ step \in EvidenceParts

\* Mutant: readiness is content with the cached verification.
AnsweredFromCacheAlways(step) ==
  step \in {"network", "readyNetwork"} /\ (~EnforceMainnet \/ cacheFresh)

\* verifyNetwork returns without a call.
AnsweredFromCache(step) ==
  \/ step = "network" /\ (~EnforceMainnet \/ cacheFresh)
  \/ step = "readyNetwork" /\ ~EnforceMainnet

\* getServiceConfig throws.
NotConfigured(step) == step \in IndexerSteps /\ ~hasIndexer

-----------------------------------------------------------------------------
Init ==
  /\ rq \in Workloads
  /\ hasIndexer \in {b \in BOOLEAN : RequireIndexer => b}   \* loadConfig refuses the rest
  /\ at = [c \in Requests |-> 0]
  /\ reply = [c \in Requests |-> Waiting]
  /\ failed = [c \in Requests |-> {}]
  /\ gathered = [c \in Requests |-> {}]
  /\ blank = [c \in Requests |-> {}]
  /\ answer = [c \in Requests |-> NoAnswer]
  /\ algodNet \in Networks
  /\ cacheFresh = FALSE
  /\ Limiter!Init
  /\ mainnetSeen = {}

\* Mutant: an early return without a response.
FinishSilently(c, a) ==
  /\ at' = [at EXCEPT ![c] = Done]
  /\ reply' = [reply EXCEPT ![c] = Waiting]
  /\ UNCHANGED answer

Finish(c, a) ==
  /\ at' = [at EXCEPT ![c] = Done]
  /\ answer' = [answer EXCEPT ![c] = a]
  /\ reply' = [reply EXCEPT ![c] = Waiting]

\* The answer of a handler whose upstream calls are all made.
IsReady(failures) ==
  failures \intersect ({"readyStatus", "readyNetwork"}
    \union IF RequireIndexer THEN {"readyIndexer"} ELSE {}) = {}

Completed(route, failures) ==
  [status |-> IF route = "ready" /\ ~IsReady(failures) THEN 503 ELSE 200,
   verified |-> EnforceMainnet /\ route \in {"params", "evidence"},
   connected |-> route \in {"ready", "evidence"} /\ IsReady(failures)]

\* The handler goes on at step i of its plan, up to its next upstream call.
GoOn(c, i, failures) ==
  LET plan == Plan(rq[c].route)
      next == IF i <= Len(plan) /\ AnsweredFromCache(plan[i]) THEN i + 1 ELSE i
  IN  IF next > Len(plan) THEN Finish(c, Completed(rq[c].route, failures))
      ELSE IF NotConfigured(plan[next]) THEN Finish(c, Status(503))
      ELSE /\ at' = [at EXCEPT ![c] = next]
           /\ reply' = [reply EXCEPT ![c] = Waiting]
           /\ UNCHANGED answer

-----------------------------------------------------------------------------
(* The turn a request arrives in.                                          *)

Refuse(c, s) ==
  /\ Finish(c, Status(s))
  /\ UNCHANGED <<given, failed, gathered, blank, algodNet, cacheFresh, mainnetSeen>>

IsPreflight(r) == r.method = "OPTIONS" /\ r.corsOrigin
ReachesHealth(r) == ~IsPreflight(r) /\ r.form # "badPathKey"
ReachesLimiter(r) ==
  ReachesHealth(r) /\ r.route # "health" /\ IpAllowed(r) /\ Authenticated(r)

Preflight(c) ==
  at[c] = 0 /\ IsPreflight(rq[c]) /\ Refuse(c, 204) /\ UNCHANGED limiterVars

BadPath(c) ==
  /\ at[c] = 0 /\ ~IsPreflight(rq[c]) /\ rq[c].form = "badPathKey"
  /\ Refuse(c, 400) /\ UNCHANGED limiterVars

Health(c) ==
  /\ at[c] = 0 /\ ReachesHealth(rq[c]) /\ rq[c].route = "health"
  /\ Refuse(c, 200) /\ UNCHANGED limiterVars

Forbid(c) ==
  /\ at[c] = 0 /\ ReachesHealth(rq[c]) /\ rq[c].route # "health"
  /\ ~IpAllowed(rq[c])
  /\ Refuse(c, 403) /\ UNCHANGED limiterVars

Challenge(c) ==
  /\ at[c] = 0 /\ ReachesHealth(rq[c]) /\ rq[c].route # "health"
  /\ IpAllowed(rq[c]) /\ ~Authenticated(rq[c])
  /\ Refuse(c, 401) /\ UNCHANGED limiterVars

Limit(c) ==
  /\ at[c] = 0 /\ ReachesLimiter(rq[c])
  /\ Limiter!Limit(LimiterClient(rq[c]))
  /\ Refuse(c, 429)

Misroute(c) ==
  /\ at[c] = 0 /\ ReachesLimiter(rq[c])
  /\ Limiter!Grant(LimiterClient(rq[c]))
  /\ RouteStatus(rq[c]) # 0
  /\ Refuse(c, RouteStatus(rq[c]))

Start(c) ==
  /\ at[c] = 0 /\ ReachesLimiter(rq[c])
  /\ Limiter!Grant(LimiterClient(rq[c]))
  /\ RouteStatus(rq[c]) = 0
  /\ GoOn(c, 1, {})
  /\ mainnetSeen' = IF algodNet = "mainnet" THEN mainnetSeen \union {c} ELSE mainnetSeen
  /\ UNCHANGED <<given, failed, gathered, blank, algodNet, cacheFresh>>

-----------------------------------------------------------------------------
(* Turns that resume on the end of an upstream call.                       *)

NetworkStep(c) == Step(c) \in {"network", "readyNetwork"}

\* Mutant: the genesis is not compared.
ThrownButMismatch(step, settled) ==
  IF settled.status \in Errors THEN settled.status
  ELSE IF step \in {"network", "readyNetwork", "readyStatus"} /\ settled.body = "empty"
    THEN 500
  ELSE 0

\* Mutant: a failing indexer leaves the transaction history out.
ThrownButHistory(step, settled) ==
  IF settled.status \in Errors /\ step # "history" THEN settled.status
  ELSE IF step \in {"network", "readyNetwork"} /\ settled.body = "other" THEN 503
  ELSE IF step \in {"network", "readyNetwork", "readyStatus"} /\ settled.body = "empty"
    THEN 500
  ELSE 0

\* What the step throws when its call settles with `settled`, 0 if it goes on: the
\* error of the call, the mismatch of a body without MainNet's genesis, or the TypeError of
\* reading a property of null.
Thrown(step, settled) ==
  IF settled.status \in Errors THEN settled.status
  ELSE IF step \in {"network", "readyNetwork"} /\ settled.body = "other" THEN 503
  ELSE IF step \in {"network", "readyNetwork", "readyStatus"} /\ settled.body = "empty"
    THEN 500
  ELSE 0

\* Mutant: the rejection of a call is not waited for.
ResumesOnSuccess(c) == Pending(c) /\ Step(c) # "submission" /\ reply[c].status = 200

Resumes(c) == Pending(c) /\ Step(c) # "submission" /\ reply[c] # Waiting

\* A step that is not part of readiness has failed: the handler throws.
Throw(c) ==
  /\ Resumes(c)
  /\ Step(c) \notin ReadinessSteps
  /\ Thrown(Step(c), reply[c]) # 0
  /\ Finish(c, Status(Thrown(Step(c), reply[c])))
  /\ UNCHANGED <<given, failed, gathered, blank, algodNet, cacheFresh, limiterVars,
                 mainnetSeen>>

\* checkReadiness catches the failure and goes on to the next check.
RecordFailure(c) ==
  /\ Resumes(c)
  /\ Step(c) \in ReadinessSteps
  /\ Thrown(Step(c), reply[c]) # 0
  /\ LET failures == failed[c] \union {Step(c)}
     IN  /\ failed' = [failed EXCEPT ![c] = failures]
         /\ GoOn(c, at[c] + 1, failures)
  /\ UNCHANGED <<given, gathered, blank, algodNet, cacheFresh, limiterVars, mainnetSeen>>

\* What a step of r adds to the evidence, whose fields are null or empty over a body
\* that is empty or no JSON.
Gathers(r, step, body) ==
  IF IsPart(r, step) /\ body \notin {"none", "empty"} THEN {step} ELSE {}

Advance(c) ==
  /\ Resumes(c)
  /\ Thrown(Step(c), reply[c]) = 0
  /\ GoOn(c, at[c] + 1, failed[c])
  /\ gathered' = [gathered EXCEPT ![c] = @ \union Gathers(rq[c], Step(c), reply[c].body)]
  /\ cacheFresh' = (cacheFresh \/ NetworkStep(c))
  /\ UNCHANGED <<given, failed, blank, algodNet, limiterVars, mainnetSeen>>

\* submitTransaction or submitSimulation ends, and may have verified the network.
SubmissionEnds(c) ==
  /\ Pending(c) /\ Step(c) = "submission"
  /\ \E s \in SubmissionStatuses : Finish(c, Status(s))
  /\ cacheFresh' \in {cacheFresh, cacheFresh \/ (EnforceMainnet /\ c \in mainnetSeen)}
  /\ UNCHANGED <<given, failed, gathered, blank, algodNet, limiterVars, mainnetSeen>>

-----------------------------------------------------------------------------
(* The environment.                                                        *)

\* What a 2xx may come with.
Bodies(step) ==
  {IF step \in IndexerSteps THEN "served" ELSE algodNet, "empty"}
    \union (IF step \in {"network", "readyNetwork"} THEN {"other"} ELSE {})

\* The pending upstream call settles: with data, without, or with an error.
CallSettles(c) ==
  /\ Pending(c) /\ Step(c) # "submission" /\ reply[c] = Waiting
  /\ \E settled \in {Reply(200, body) : body \in Bodies(Step(c))}
                      \union {Reply(s, "none") : s \in Errors} :
       /\ reply' = [reply EXCEPT ![c] = settled]
       /\ blank' =
            IF settled.body = "empty" /\ IsPart(rq[c], Step(c))
              THEN [blank EXCEPT ![c] = @ \union {Step(c)}] ELSE blank
  /\ UNCHANGED <<given, at, failed, gathered, answer, algodNet, cacheFresh, limiterVars,
                 mainnetSeen>>

\* An operator repoints the algod URL's host, or the node is rebuilt.
Switch ==
  /\ \E net \in Networks \ {algodNet} :
       /\ algodNet' = net
       /\ mainnetSeen' =
            mainnetSeen \union IF net = "mainnet" THEN {c \in Requests : Pending(c)} ELSE {}
  /\ UNCHANGED <<given, handlerVars, cacheFresh, limiterVars>>

\* The cached verification reaches its TTL.
CacheExpires ==
  /\ cacheFresh
  /\ cacheFresh' = FALSE
  /\ UNCHANGED <<given, handlerVars, algodNet, limiterVars, mainnetSeen>>

BucketsRefill ==
  /\ Limiter!Elapse
  /\ UNCHANGED <<given, handlerVars, algodNet, cacheFresh, mainnetSeen>>

Arrive(c) ==
  \/ Preflight(c) \/ BadPath(c) \/ Health(c) \/ Forbid(c) \/ Challenge(c)
  \/ Limit(c) \/ Misroute(c) \/ Start(c)
Turn(c) == Throw(c) \/ RecordFailure(c) \/ Advance(c) \/ SubmissionEnds(c)

Next ==
  \/ Switch \/ CacheExpires \/ BucketsRefill
  \/ \E c \in Requests : Arrive(c) \/ Turn(c) \/ CallSettles(c)

\* Every upstream call settles (EveryCallSettles of UpstreamRequest), as does a
\* submission (EveryRequestAnswered of SubmitTransaction); due turns are taken.
Fairness == \A c \in Requests : WF_vars(CallSettles(c)) /\ WF_vars(Turn(c))

Spec == Init /\ [][Next]_vars /\ Fairness

-----------------------------------------------------------------------------
TypeOK ==
  /\ rq \in [Requests -> Request] /\ hasIndexer \in BOOLEAN
  /\ at \in [Requests -> 0..Done]
  /\ \A c \in Requests : Pending(c) => at[c] \in DOMAIN Plan(rq[c].route)
  /\ reply \in [Requests -> Replies \union {Waiting}]
  /\ failed \in [Requests -> SUBSET ReadinessSteps]
  /\ answer \in [Requests -> [status : 0..599, verified : BOOLEAN, connected : BOOLEAN]]
  /\ \A c \in Requests : at[c] = Done <=> answer[c].status # 0
  /\ algodNet \in Networks
  /\ cacheFresh \in BOOLEAN
  /\ level \in [LimiterClients -> 0..Burst]
  /\ mainnetSeen \subseteq Requests

\* An upstream is called only on behalf of a request from an allowed address, with a
\* known key wherever it stood -- or for a public /ready -- that asks a known route
\* with its method, and in whose URL every part that this route reads is valid:
\* every check comes before the first call, in each of the routes' own orders
\* (gatewayHandler, lines 64-87, and the route functions).
OnlyAdmittedReachUpstream ==
  \A c \in Requests : Pending(c) =>
    /\ IpAllowed(rq[c])
    /\ \/ AllowUnauthenticated
       \/ rq[c].route = "ready" /\ ReadinessPublic
       \/ rq[c].headerKey \in KnownKeys
       \/ rq[c].headerKey = NoKey /\ rq[c].form = "pathKey" /\ rq[c].pathKey \in KnownKeys
    /\ rq[c].method = Method(rq[c])
    /\ rq[c].route \notin {"health", "unknown", "undecodable", "accountUnknown",
                           "assetUnknown"}
    /\ \A i \in DOMAIN RouteChecks(rq[c].route) :
         RouteChecks(rq[c].route)[i] \notin rq[c].defects

\* /ready says "ready", and audit evidence "CONNECTED", only if algod was MainNet
\* at some moment while that very request was handled: the verification cached
\* for submissions is not enough (checkReadiness, line 121).
ReadyMeansMainnet ==
  \A c \in Requests : EnforceMainnet /\ answer[c].connected => c \in mainnetSeen

\* An answer says that the network is verified only if algod was MainNet while some
\* request was handled: a positive verdict, cached or fresh, comes from MainNet's
\* genesis, whichever handler asked for it and whatever the others met meanwhile.
VerifiedOnlyIfSeen ==
  (\E c \in Requests : answer[c].verified) => mainnetSeen # {}

\* Audit evidence that is sent leaves out a part only if that part's upstream
\* answered 2xx with a body that is empty or no JSON, over which the fields of the
\* document are null or empty: a part whose call failed, was refused or was never
\* made is not passed over, although readiness, asked first, tolerates failures
\* (routeAuditEvidence).
EvidenceHoldsWhatWasServed ==
  \A c \in Requests :
    rq[c].route = "evidence" /\ answer[c].status = 200 =>
      EvidenceParts \ blank[c] \subseteq gathered[c]

\* Every request whose handler waits for an upstream is answered.
EveryRequestAnswered == \A c \in Requests : Pending(c) ~> at[c] = Done
=============================================================================
