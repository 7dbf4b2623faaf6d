# Verification of the Algorand API gateway

TLA+ models of the gateway in `src/`: what its request handlers, caches, retry
loop, limiter and policies do when requests overlap, upstreams fail or fall
silent, clocks move and processes restart. TLC checks the models on small
instances; TLAPS proves every safety property and both refinements for every
instance, of the components with concurrent state and of the parts that only
compute. `PROJECT.json` lists the runs, the mutants each property is tested with,
the lines of code each definition stands for, the findings and the hazards.

## The system

The gateway is one Node.js process (or one serverless instance). It is
concurrent without threads: a handler runs from one `await` to the next in one
turn of the event loop, and any other handler may run in between. Nothing is
persisted.

| Part | Code | State | Operations | What must be right |
|---|---|---|---|---|
| Request loop of the upstream client | `upstream.js` `request`, `fetchOnce` | one abort or backoff timer per call | fetch, abort, retry, return, throw | no mutating call twice, every call ends in bounded time, with the right status |
| Network verification | `upstream.js` `verifyNetwork` | `networkCache`, shared by all requests | answer from cache, ask algod, store | a positive verdict rests on a recent observation of MainNet |
| Readiness | `upstream.js` `checkReadiness` | none | three checks that tolerate failures | "ready" rests on this request's own observation |
| Idempotency cache | `idempotency.js` | map from principal and key to the answer given | get, set, cleanup | a register per key, whatever the map does |
| Submission, simulation | `gateway.js` `submitTransaction`, `submitSimulation` | none of their own | look up, verify, POST, store, answer | honest acknowledgements, one broadcast per request, MainNet only |
| Rate limiter | `rate-limit.js` | a bucket per principal and address | check, cleanup | no more grants than the clock paid for, sufficient Retry-After |
| Transaction policy | `transaction-policy.js` | none | decode, check | only plain transfers to the wallet pass |
| MessagePack decoder | `transaction-policy.js` | none | decode one value, read a body | a value ends where its bytes end, depth is bounded, no transaction is skipped |
| Handler, routes, authentication | `gateway.js`, `security.js` | none | the checks of every request, IP rules, the route table, keys in paths, chains of calls | who reaches an upstream, answers for everyone, no key in the log |
| Audit evidence | `gateway.js` `routeAuditEvidence` | none | eight calls, one document | no failed call passed over, and consistent |
| Bodies, validators, responses, errors | `http-utils.js`, `validators.js`, `errors.js` | none | read in chunks, check, send | the same answer however a body is cut, nothing lost in decoding |
| Configuration | `config.js` | none | parse the environment | accepted ranges are what the other parts rely on, page limits agree |
| Canonical JSON | `audit-hash.js` | none | canonicalize | one text per meaning, where the order of keys is one |
| Addresses | `algorand-address.js` | none | base32 both ways, checksum | keys read back, a configured wallet can be paid |
| Reconciliation | `settlement-reconciliation.js` | none | match, hash, add up | the total was debited, and reads back |
| Server, process | `server.js`, `index.js` | the server and its connections | start, listen, signal, drain, exit | the required transport, nobody cut off, no wait but for clients |
| Vercel adapter | `vercel-adapter.js` | the lazily made handler, or its startup error | first request, capture the path | same meaning as the server, an instance remembers |

A handler calls the limiter, then the idempotency cache (submissions only),
then the upstream client, synchronously or by awaiting it. The caches are
shared by all handlers and are the only way one request influences another.
The hard behaviours are therefore: what was read before an `await` and used
after it; results that arrive out of order or after a timeout; a call that fails
after it has taken effect; expiry, cleanup and restart of what is remembered;
and the wall clock.

## Modules

`UpstreamClient` holds the steps of one upstream call and is extended by

- `UpstreamRequest`: callers that do nothing else, run by `Process` (below);
- `NetworkGuard`: the steps of `verifyNetwork`, extended by
  - `NetworkVerification`: concurrent callers of it, forced or not;
  - `SubmitTransaction`, together with `IdempotencyCache`: submissions and
    simulations. `MCSubmitTransaction` holds its workloads.

`IdempotentSubmission` (a register per key) and `TokenBucket` (a level that
rises with every tick) are the abstract specifications; `SubmitTransaction` and
`RateLimiter` are shown to implement them. `GatewayHandler` runs the checks and
the chains of upstream calls of the other routes, over `TokenBucket` in place of
the limiter; `MCGatewayHandler` holds its workloads. `TransactionPolicy` and
`MCTransactionPolicy` are the submission policy and its corpora.

`Configuration` is `loadConfig`, with the page sizes that follow from it, and
`createTlsOptions`. It is extended by

- `Process`: one process from its start to its exit, with its connections. A
  connection's request that needs an upstream runs the actions of
  `UpstreamRequest`, of which `Process` has an instance, so the properties of the
  retry loop are checked in a process that may be told to stop at any moment.
  `MCProcess` holds its environments;
- `ServerlessInstances`: the lazily made handlers of a function of which the
  platform runs several instances.

The parts that compute and do not wait have a module each: `MessagePack`,
`AlgorandAddress`, `CanonicalJson`, `SettlementReconciliation`, `SubmissionBody`,
`IpRules`, `RequestPath`. In each, one variable holds the input and grows by one
byte, character, record or part of a path with every step, so that a refused or
complete input is a state of its own; the invariants compare what the code
computes with what it is meant to be. `MCParts` puts these parts, the
configuration and the instances side by side; one of them moves.
`MCCanonicalJson` holds the small documents, which `MCParts` and a run of their own
use.

The proofs about a module `M` are in `M_proofs`: `SubmitTransaction`, `Process`,
`NetworkVerification`, `RateLimiter`, `GatewayHandler`, `TransactionPolicy` and
`MessagePack` have one. `Parts_proofs` takes the other parts that only compute
together, as `MCParts` does, and `Configuration` and `ServerlessInstances` with
them; it rests on the lemmas about induction and sequences of
`MessagePack_proofs`.

How state and actions correspond to the code:

- An action is a turn: everything a handler does from one await to the next that
  really waits. `AdmitVerified` of `SubmitTransaction`, for example, is reading
  the body, the policy, the lookup with its lazy deletion, `verifyNetwork` from
  the cache, and sending the POST.
- `call[c]` is what `request()` is suspended on: a fetch with its abort timer, or
  a backoff. `reply` is an answer that is on its way but not yet read, so that
  an abort may still win. Each request has one call at a time, so a request and
  its call have one name.
- `now` is `Date.now()`. It advances only when no timer is due, that is, turns
  take no time and timers fire on time.
- `algodNet` and `accepted` are the world the gateway talks about: the network
  behind the URL, and the submissions algod has taken. They change at any moment;
  algod may take a submission whose answer is lost, and even after the gateway
  has restarted. `lastMainnet`, `ackedAt`, `mainnetSeen`, `promise`, `fair`,
  `sends` and `startedAt` are history that only properties read.
- `Restart` is the platform or an operator ending the process at any moment and
  starting it again: nothing is persisted, so both caches and every handler are
  gone. The shutdown of `index.js`, which lets handlers finish, is in `Process`.
- In `GatewayHandler` an upstream call is one exchange, because `UpstreamRequest`
  has shown what its retries do, and time is left out: a fresh cached
  verification may expire at any moment.
- A 2xx whose body is no JSON becomes `rawBodyBase64`. To `verifyNetwork` it is a
  body without MainNet's genesis, as another network's; to the evidence, whose
  fields are then null, it is as good as an empty one.
- SHA-256 is taken as injective, addresses, keys, bodies and payloads are model
  values, and HTTP statuses are numbers.

## Runs

| Run | Shows |
|---|---|
| `Process` | seven environments, two connections, an upstream that answers 200, 400, 429, 500, 503, 504, breaks the connection or is silent, signals at any moment: `RequiredTransportIsServed`, `ShutdownWaitsOnlyForClients`, and of the retry loop `AnsweredInBoundedTime`, `GivesUpOnlyWhenExhausted`, `EveryCallSettles` (the process exits before the end of a call only if the client has left) |
| `NetworkVerification` | `VouchedWhileRecent`: a verdict is at most one TTL and one fetch older than the last moment algod was MainNet; `ForcedSeesPastCache`: a forced one at most one fetch |
| `SubmitKeys` | three overlapping submissions that share a key, or differ in key, principal or payload, with a cache of one entry and a restart: `HonestAcknowledgement`, `OneBroadcastPerRequest`, `LookupTellsTruth`, `ImplementsRegister` |
| `SubmitMainnet` | pairs that verify the network while it is switched: `ForwardedToMainnet`, and the inductive invariant `IInv` of the proofs; `EveryRequestAnswered` |
| `RateLimiter` | two clients, eviction, a clock that is set forward or back twice: `GrantsFollowClock`, `RetryAfterSuffices`, and, until the clock is first set, `ImplementsTokenBucket` |
| `Gateway` | one request of every kind, and pairs of overlapping chains of calls, with and without an indexer: `OnlyAdmittedReachUpstream`, `ReadyMeansMainnet`, `VerifiedOnlyIfSeen` (a document says `mainnetVerified` only if algod was seen to be MainNet), `EvidenceHoldsWhatWasServed` (evidence lacks only what an upstream answered without data), `EveryRequestAnswered` |
| `PolicyGroups` | `OnlyPlainTransfersPass`, against what the ledger would do with the transactions, and `ExplicitViolationIsForbidden` |
| `Parts` | the parts of `MCParts`; the table below |

| Part | Property of `Parts` | Says |
|---|---|---|
| `MessagePack` | `ValuesEndWhereTheirBytesEnd` | a value does not depend on what follows it, and is refused with a byte less |
| | `TransactionsAddUp` | a body of two bodies has the transactions of both |
| | `NestingIsBounded` | no value is deeper than the limit, through maps or arrays |
| `AlgorandAddress` | `AddressesReadBack` | every key is written and read back over an accumulator that overflows |
| | `WalletsArePayable` | a wallet is paid by its own key only; and by that exactly if its text is the canonical one |
| `CanonicalJson` | `HashesTellDocumentsApart` | same hash, same meaning, and the reverse, where `localeCompare` tells keys apart |
| `SettlementReconciliation` | `ReconciledTotalIsDebited` | the total reads back as the sum of the settlements, and was debited if their references differ |
| `SubmissionBody` | `ChunksDoNotMatter` | the answer depends on the whole body only |
| | `NoCharacterIsLost` | every character of well-padded base64 reaches algod |
| `IpRules` | `CidrMatchesPrefix` | a CIDR rule is a prefix, /0 included |
| `RequestPath` | `PlatformMeansTheSame` | rewrite and adapter undo each other |
| | `KeyInPathOnlyAuthenticates` | a route is the same with the key in its path, and a key that is taken from a path is not in the log |
| `ServerlessInstances` | `InstancesRemember` | one burst and one fresh acknowledgement per started instance |
| `Configuration` | `PagesFitMaximum` | no page is larger than the maximum |

Four runs find the code at odds with what the repository says of it; each is a
finding in `PROJECT.json` with the lines quoted.

| Run | Disagreement |
|---|---|
| `SubmitReplayRace` | overlapping submissions under one key both reach algod, the second after the first was acknowledged; when they do not overlap, `LookupTellsTruth` rules it out |
| `ReadinessMismatch` | a readiness check that finds another network does not stop submissions that rely on the cached verification |
| `CanonicalOrder` | two records that say the same have two hashes when two of their keys compare equal under `localeCompare` |
| `PolicyZeroAmount` | a zero amount that is left out is answered 400, not the documented 403 |

### What the properties leave room for

Some properties hold only with an exception that the model made visible, or say
less than a reader may expect. Each is stated in the comment of the property it
concerns. They are no findings: where a text of the repository touches one, it is
in general terms, and named below.

- `MAX_PAGE_LIMIT` must be at least `DEFAULT_PAGE_LIMIT` when it is set; its
  default of 1000 is not compared, so a default page of up to 10000 is accepted.
- The last character of an address has two bits of no meaning. A wallet written
  with them set is accepted, kept as written, and never equals what the encoder
  writes: every payment to it is refused.
- `shutdown` has no deadline and `close()` no longer looks for slow requests: a
  client in the middle of a request holds the process up.
- A JSON body `null` is answered 500.
- Base64 with padding it has no use for (`ABCDE=`) is taken, and a character is
  dropped.
- `DEGRADED` evidence may say `mainnetVerified: true`, from the cache.
- `networkVerified` of `/v1/network/params` is the verdict of another call than the
  parameters beside it, made later or cached: algod may be repointed in between.
- Evidence is sent with null or empty fields for a part whose upstream answers 2xx
  with an empty body, or one that is no JSON.
- A submission whose POST failed or timed out leaves no trace of its key, and is
  forwarded again, by the same instance too.
- Behind two slashes at the beginning of a path `new URL` reads a host: the gateway
  takes no key from `//v2/<key>/status`, and the log shows the rest of the path as
  it is. (`test/certification-controls.test.js:105` speaks of logs "without leaking
  secrets", and tests a key in a header.)
- Settlements with one reference share one debit.
- Every serverless instance has a limiter and an idempotency cache of its own,
  and keeps a startup error for its life. (`README.md` says so of the cache of
  replicas.)

### Bounds, and why they are enough

- Two or three requests: every property relates at most two requests and one
  more that disturbs them (by expiry, cleanup or overwriting).
- `MaxTime` stops new requests, never the ones that run; the other times
  (`TimeoutMs`, `TtlMs`, `VerifyTtlMs`, the backoffs) are one to three ticks, in
  an order that lets an entry or verification expire before, during and after a
  fetch. Where the age of a verification matters, `MaxTime` exceeds one TTL and
  one fetch, so that requests arrive with a cached verification that is too old.
  The proofs hold for all values.
- `RetryAttempts` is three in `Process`, where the backoff reaches its cap,
  and at most one elsewhere: a first and a last attempt.
- `MaxEntries` and `MaxBuckets` are 1 or less than the number of keys, so that
  cleanup happens.
- `MaxRestarts` is at most 1; a second restart starts from the state the first
  one made, or one the initial states contain.
- In `RateLimiter` a token costs five shares and a tick refills two, so that
  tokens are fractional most of the time, and `MaxTime` exceeds `IdleMs` by more
  than a refilled token takes.
  `GrantsFollowClock` is stated under `IdleRefills`: a bucket that is idle long
  enough to be thrown away has refilled. The configuration does not ensure it
  (a burst of 100000 at 1 a minute is accepted); the defaults satisfy it.
- `Gateway` takes every request alone except the combinations of unusual
  credentials with unusual URLs, whose checks do not look at each other; the
  second request then asks for `/health`, which touches nothing they share. Of
  pairs it takes the ones that make chains of calls and change or use the
  cached verification.
- `Process` has two connections: one that is served without an upstream and one
  that waits for it. Properties relate a connection to the process, and the
  process to all of them.
- `Parts` scales widths down and keeps the arithmetic: characters of 2 bits and
  bytes of 3 are as misaligned as 5 and 8, the accumulator of 4 bits overflows on
  every address as the one of 32 does, an address of three bytes has spare bits
  in its last character. IPv4 addresses have 3 bits and every prefix. Bodies have
  up to four pieces' worth of bytes, each family of markers is there at its ends,
  a 64-bit integer and a length over the limit included; depth 1 and length 3
  stand for 64 and 100000. Reconciliation has two of each record: equal
  references, equal UETRs and every mismatch fit. References, UETRs and
  instances are symmetric: the code only compares them, and the run checks no
  liveness. Paths have up to four parts
  behind each of the prefixes, with one slash and with two, empty and undecodable
  parts included. Environments
  are all pairs of page limits and all that differ from the least accepted one by
  one setting, or by a flag and a text.
- `PolicyGroups` takes every transaction alone, and all groupings of up to two
  values and two transactions per array of transactions that are off by one
  field, with an allowlist and without.

`CHECK_DEADLOCK FALSE` stands where a workload ends: all requests are answered
and the clock has reached `MaxTime`.

### Fairness

`SubmitTransaction` assumes weak fairness of the clock and of each handler's
turns: Node.js runs a timer that is due and a promise that has settled. Nothing
is assumed of algod, clients or operators; the abort timer is what ends a silent
call. `GatewayHandler`
assumes instead that a call settles, which `EveryCallSettles` shows of the
retry loop, and that a submission ends, which `EveryRequestAnswered` shows in
`SubmitMainnet`.

`Process` assumes the same of timers, callbacks and the clock, and nothing of
clients, upstreams and signals: a connection may stay in the middle of a request
for ever, which is why `ShutdownWaitsOnlyForClients` has the exception.
`NetworkVerification`, `RateLimiter`, `TransactionPolicy` and the modules of
`Parts` have only safety properties and state no fairness.

## Proofs

Eight modules prove theorems for every value of the constants: any number of
requests, callers, clients and connections, any workload, retry count, timeout,
TTL, rate and size of the maps. `PROJECT.json` lists them under `theorems`.

| Module | Theorems | Inductive invariant |
|---|---|---|
| `SubmitTransaction_proofs` | `Invariance`, `TypeCorrect`, `Honesty`, `AtMostOneBroadcast`, `Lookup`, `Mainnet`, `Overgrown` | `IInv` |
| | `RegisterRefinement` | `RegInv` = `IInv` and `Unanswered` |
| `Process_proofs` | `TypeCorrect`, `Transported`, `BoundedTime`, `Persistence`, `SentOnce` | `PInv` |
| `NetworkVerification_proofs` | `Vouched`, `Forced` | `NInv` |
| `RateLimiter_proofs` | `Grants`, `Patience`, `Cleaned`, `Refinement` | `RInv` |
| `GatewayHandler_proofs` | `Admission`, `Ready`, `Verified`, `Whole`, `TypeCorrect` | `GInv` |
| `TransactionPolicy_proofs` | `PlainTransfers`, `Violations` | the body is a sequence of sequences |
| `MessagePack_proofs` | `ValuesEndWhereTheirBytesEndInvariant`, `NestingIsBoundedInvariant`, `TransactionsAddUpInvariant` | the body is a sequence of bytes |
| `Parts_proofs` | `Chunking`, `Characters` | `UInv` |
| | `Pages` | the environment stays as it was |
| | `PrefixRules` | `IpTypeOK` |
| | `Fleet` | `FInv` |
| | `Platform`, `KeyInPath` | the path is a sequence of words |
| | `Debited` | `SInv` |
| | `Addresses`, `Wallets` | the address is a sequence of characters |
| | `Hashes` | `DInv` |

The assumptions are the ones the modules name, and TLC evaluates them in the
runs: `UpstreamAssumption` and `CallsAssumption` (times and attempts are natural
numbers, statuses lie in 200..599, no backoff exceeds its cap),
`NetworkAssumption`, `IdempotencyAssumption`, `NoEntryAssumption` and
`NoBucketAssumption` (the marker of an empty place is not an entry),
`SubmitAssumption`, `LimiterAssumption`, `HandlerAssumption`,
`ProcessAssumption`, `PolicyAssumption`, `CorpusAssumption`, `PackAssumption`,
`BodyAssumption`, `IpAssumption`, `InstancesAssumption` (a platform runs finitely
many), `WordsAssumption`, `AmountsAssumption` (an amount has a whole part and
decimal digits), `AddressAssumption` (a character has fewer bits than a byte, and
the accumulator holds a byte and what is left of a character) and
`DocumentsAssumption` (a document is not a part of itself: its parts have a
smaller depth). `Refinement` of the limiter has one more hypothesis,
`IdleRefills`, explained under the bounds.

None of the properties of the concurrent components is inductive alone; the
invariants add why they hold.

`IInv`, of submissions:

- `CallMatchesStage`: a handler that verifies waits on a retry-safe call, one that
  posts on a call with a single attempt, so its `posts` cannot grow again.
- `VerificationIsRecent`: a MainNet answer on its way is no older than its fetch
  (its abort timer bounds it), and the cache no older than one such answer plus
  the TTL. This is the argument for `ForwardedToMainnet`; `NInv` makes the same
  argument for callers of `verifyNetwork` alone.
- `EntriesAreHonest`: the entry of a key names a submission algod took, with that
  key, principal and fingerprint; a 2xx in flight belongs to an accepted
  submission.
- `EntriesMatchAcknowledgements`: an entry expires exactly one TTL after the last
  acknowledgement under its key, and no lazy deletion, cleanup or overwrite
  takes away one that is still recent. This is the argument for
  `LookupTellsTruth`.

The register of a key (`RegisterRefinement`) holds what its live entry holds,
and nothing once the entry has expired. So deleting an expired entry, lazily or
in a cleanup, is a stutter; a tick that lets entries expire, and a restart, are
the register forgetting them; a handler suspended between the lookup and the
store is "forwarding", and a late store is the register's own.

`PInv`, of processes: a pending call has made as many fetches as it counts, and
its timer, which has not been missed, lies within the budget of the attempts
made so far (`CallKeepsBudget`); nothing listens before `loadConfig` has
accepted the environment.

`RInv`, of the limiter: `fair` is what a bucket would hold had its refills never
been put off, and no bucket holds more (`GrantsFollowClock`); a client that was
told to come back finds a whole token then, whatever happens to its bucket
meanwhile (`PromisesCover`). For the refinement the ideal level of a bucket that
is not in the map is full, which is right because a bucket idle long enough to
be thrown away has refilled.

`GInv`, of handlers: every step of a plan that a handler has gone past is behind
it for good -- it has brought its part, or a body without data, unless it failed and
the failure was recorded -- whether it made a call or was answered from the cache
(`Trail`); an answer on its way that shows MainNet was given while the request
was at work (`Witnessed`); what was admitted stays admitted (`Admitted`). A
handler that completes has gone past every step of its plan, and what its answer
vouches for is among them.

`UInv`, of bodies: what is kept is what has come, and never over the limit; only
a body that has ended is interpreted.

`TransactionPolicy_proofs` reasons about bodies of any number of values. The
list of transactions is a flattening, defined by recursion over the values:
`FlatteningExists`, `FlattenIsLast` and `FlattenHolds` show by induction, from
the least element of a set of naturals, that it holds what the values hold and
nothing else. The decision on one transaction follows from its first failing
check (`FirstErrorIs`, `PartsDecide`, `TransactionDecided`).

The parts that compute do it by recursion or by folds. What a recursive function
is at every argument is proved in the same three steps each time, because no
induction rule of the library can be instantiated: a set of naturals without a
least element is empty (`LeastElement`), so what passes from each number to the
next holds up to any number (`UpTo`); a function with the required values exists
up to every bound, and two of them agree (`RunExists` of folds,
`AspectsExist` and `AspectsAgree` of documents); hence the function the module
defines has them (`Recursion`, for documents).

- `MessagePack`: the decoder of a value, given what decodes the values inside it,
  moves forward (`Progress`), reads no byte behind the end it reports (`Agree`)
  and reports the same end in a body that is put behind another one (`Moved`).
  These three pass from one depth limit to the next, and from one element of a
  collection to the next, so the decoder for any limit has them. That a body of
  two bodies adds up follows by induction over the values of the first.
- `RequestPath`: the rewrite of the platform and the adapter are inverse to each
  other on paths and queries of any length behind one slash; a key is one word of
  the path, dropped by the router and by the log alike. Behind two slashes and a
  host both look at what is left of the path, so what one takes for a key the other
  redacts (`NoKeyBehindSlashes`, `LogHasNoKey`).
- `SettlementReconciliation`: every reconciled settlement names a debit of its
  amount. If references differ the debits named are different ones, so the sum
  over settlements is the sum over a part of the debits, taken one settlement at
  a time (`TotalOfOneMore`). A sum that is written in decimal digits and read
  again is the same sum.
- `IpRules` and `AlgorandAddress` treat numbers as registers of bits, of any
  width. A prefix mask is proved to keep exactly the first bits for every prefix,
  0 and all of them included. In both base32 loops the bits written, followed by
  the bits still held in the accumulator, are the bits read so far (`Carries`):
  bits shifted out of the register were written before. So every bit of a key
  arrives, and texts that are read as one key differ in spare bits only.
- `CanonicalJson`: two texts tell each other apart (`Tells`) if, whatever follows
  them, one cannot be continued to the other. The texts of any two documents do
  (`TextsTell`): scalars by their one token, arrays and objects because joined
  texts do if each of them does and none begins with the closing bracket
  (`JoinedTells`). So documents with one text have the same texts within, and
  by induction over the depth say the same. The converse needs the order:
  the ranks of sorted entries rise when keys differ (`RanksRise`), and two rising
  sequences of the same ranks are one (`SameRanks`).
- `ServerlessInstances` (`FInv`): every token and every first acknowledgement is
  still to be had from an instance, has been given, or went with an instance that
  was stopped; a failed POST takes a token and leaves the acknowledgement to be had.

Only model-checked: the liveness properties `EveryCallSettles`,
`EveryRequestAnswered` (twice) and `ShutdownWaitsOnlyForClients`, because liveness
under fairness is out of the prover's reach; and the four runs that find a
disagreement, which are counterexamples.

## Not modelled

- Wording and layout: HTTP headers, CORS and security headers, request ids, the
  log line but for its path, error messages (`errors.js` is a data class; errors
  are the statuses the modules use), the report text and layout of the evidence,
  the copying of headers and bodies in the adapter.
- In paths, percent-encoding beyond parts that cannot be decoded, dots and
  backslashes, which `new URL` resolves or reads as slashes, and the route-matches
  header of the adapter.
- A limiter that is not enabled, in `RateLimiter`: it returns at once and limits
  nobody. (`ServerlessInstances` has it.)
- The patterns of query values other than the page limits, which are one
  regular expression each, and the validity of UTF-8 in MessagePack strings.
- Floating-point rounding in the limiter, and the time a turn takes.
- The inside of TLS, of Node.js's server and of the platform; they are external
  and do in the model what the code relies on.

## Possible further work

The values of the evidence document from its eight calls; headers and the log
line.
