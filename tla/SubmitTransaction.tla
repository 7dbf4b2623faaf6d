--------------------------- MODULE SubmitTransaction --------------------------
(***************************************************************************)
(* submitTransaction and submitSimulation of src/gateway.js, run by        *)
(* concurrent requests over the verification cache, the idempotency cache  *)
(* and the upstream client they share.                                     *)
(*                                                                         *)
(* One turn of a handler is one action.  Between two turns -- while        *)
(* verifyNetwork asks algod, while the POST is in flight, during a backoff *)
(* -- any other request, the clock, algod, an operator or a restart may    *)
(* step.  In particular the lookup of the Idempotency-Key and the store of *)
(* the answer are turns of their own.                                      *)
(***************************************************************************)
EXTENDS NetworkGuard, IdempotencyCache

CONSTANTS
  Workloads,    \* functions from requests to what their clients send
  Verdict,      \* status the checks before the lookup give a body, 0 if none
  MaxTime,      \* no request arrives after this instant (a bound for TLC)
  MaxRestarts   \* bound on restarts of the gateway

\* A request is an upstream call's identity: a handler has one at a time.
Requests == Calls
Request == [kind : {"submit", "simulate"}, principal : Principals,
            key : Keys \union {NoKey}, body : Bodies]

ASSUME SubmitAssumption ==
  /\ Workloads \subseteq [Requests -> Request]
  /\ Verdict \in [Bodies -> {0, 400, 403, 413, 415}]
  /\ Responses = Requests

VARIABLES
  rq,        \* the workload
  stage,     \* what each handler is suspended on
  answer,    \* status sent to the client, and the request it acknowledges
  posts,     \* POSTs of each request sent to algod
  accepted,  \* submissions algod has taken
  ackedAt,   \* when a forwarded submission under this key was last acknowledged
  restarts

vars == <<now, call, networkVars, entries, rq, stage, answer, posts, accepted,
          ackedAt, restarts>>

Stages == {"arriving", "verifying", "posting", "answered", "lost"}
Active(c) == stage[c] \in {"verifying", "posting"}

NoAnswer == [status |-> 0, of |-> NoEntry]
Failure(s) == [status |-> s, of |-> NoEntry]

\* The key has not been acknowledged since the gateway started.
Never == - (TtlMs + 1)

KeyOf(c) == <<rq[c].principal, rq[c].key>>
Keyed(c) == rq[c].kind = "submit" /\ rq[c].key # NoKey

Init ==
  /\ now = 0
  /\ call = [c \in Calls |-> Idle]
  /\ NetworkInit
  /\ entries = NoEntries
  /\ rq \in Workloads
  /\ stage = [c \in Requests |-> "arriving"]
  /\ answer = [c \in Requests |-> NoAnswer]
  /\ posts = [c \in Requests |-> 0]
  /\ accepted = {}
  /\ ackedAt = [k \in CacheKeys |-> Never]
  /\ restarts = 0

-----------------------------------------------------------------------------
(* Frames: what a turn leaves alone.                                       *)

ClockAndAlgod == <<now, algodNet, lastMainnet, accepted>>
Answered(c, a) ==
  /\ answer' = [answer EXCEPT ![c] = a]
  /\ stage' = [stage EXCEPT ![c] = "answered"]
  /\ UNCHANGED <<rq, restarts>>

-----------------------------------------------------------------------------
(* The turn that starts when the body has been read.                       *)

Arrives(c) ==
  /\ stage[c] = "arriving"
  /\ now < MaxTime

\* readSignedTransactionBody, enforceSubmissionPolicy and parseJsonBuffer throw.
Reject(c) ==
  /\ Arrives(c)
  /\ Verdict[rq[c].body] # 0
  /\ Answered(c, Failure(Verdict[rq[c].body]))
  /\ UNCHANGED <<ClockAndAlgod, call, networkCache, seen, entries, posts, ackedAt>>

Admissible(c) == Arrives(c) /\ Verdict[rq[c].body] = 0

KeyConflict(c) ==
  /\ Admissible(c)
  /\ rq[c].kind = "submit"
  /\ Conflict(KeyOf(c), rq[c].body, now)
  /\ Answered(c, Failure(409))
  /\ UNCHANGED <<ClockAndAlgod, call, networkCache, seen, entries, posts, ackedAt>>

Replay(c) ==
  /\ Admissible(c)
  /\ rq[c].kind = "submit"
  /\ Hit(KeyOf(c), rq[c].body, now)
  /\ Answered(c, [status |-> 202, of |-> entries[KeyOf(c)].response])
  /\ UNCHANGED <<ClockAndAlgod, call, networkCache, seen, entries, posts, ackedAt>>

\* The lookup found nothing, or there is none: on to verifyNetwork.
PassesLookup(c) ==
  /\ Admissible(c)
  /\ IF rq[c].kind = "submit"
       THEN /\ Miss(KeyOf(c), now)
            /\ entries' = AfterMiss(KeyOf(c))
       ELSE UNCHANGED entries

\* Send the POST and suspend on its answer.
Post(c) ==
  /\ StartRequest(c, FALSE)
  /\ posts' = [posts EXCEPT ![c] = @ + 1]
  /\ stage' = [stage EXCEPT ![c] = "posting"]
  /\ UNCHANGED <<rq, answer, ackedAt, restarts>>

AdmitVerified(c) ==
  /\ PassesLookup(c)
  /\ VerifiedAlready(FALSE)
  /\ Post(c)
  /\ UNCHANGED <<ClockAndAlgod, networkCache, seen>>

AdmitUnverified(c) ==
  /\ PassesLookup(c)
  /\ ~VerifiedAlready(FALSE)
  /\ StartRequest(c, TRUE)
  /\ stage' = [stage EXCEPT ![c] = "verifying"]
  /\ UNCHANGED <<ClockAndAlgod, networkCache, seen, rq, answer, posts, ackedAt,
                 restarts>>

-----------------------------------------------------------------------------
(* Turns that resume on an answer of algod, an abort or a backoff timer.   *)

Wait(c) ==
  /\ BackOff(c)
  /\ seen' = [seen EXCEPT ![c] = Unseen]
  /\ UNCHANGED <<ClockAndAlgod, networkCache, entries, rq, stage, answer, posts,
                 ackedAt, restarts>>

Retry(c) ==
  /\ Resend(c)
  /\ posts' = [posts EXCEPT ![c] = IF stage[c] = "posting" THEN @ + 1 ELSE @]
  /\ UNCHANGED <<ClockAndAlgod, networkCache, seen, entries, rq, stage, answer,
                 ackedAt, restarts>>

VerifySucceeds(c) ==
  /\ stage[c] = "verifying"
  /\ \E s \in FetchOutcomes : Returns(c, s)
  /\ GenesisMatches(c)
  /\ StoreVerification
  /\ Post(c)
  /\ seen' = [seen EXCEPT ![c] = Unseen]
  /\ UNCHANGED <<ClockAndAlgod, entries>>

\* The handler throws: gatewayHandler answers with the error.
Abandon(c, s) ==
  /\ Answered(c, Failure(s))
  /\ call' = [call EXCEPT ![c] = Idle]
  /\ seen' = [seen EXCEPT ![c] = Unseen]
  /\ UNCHANGED <<ClockAndAlgod, networkCache, entries, posts, ackedAt>>

VerifyRefuses(c) ==
  /\ stage[c] = "verifying"
  /\ \E s \in FetchOutcomes : Returns(c, s)
  /\ \/ GenesisDiffers(c) /\ Abandon(c, NetworkMismatch)
     \/ NoParamsBody(c) /\ Abandon(c, InternalError)

\* The request for the parameters or the POST itself has failed.
UpstreamFails(c) == \E s \in FetchOutcomes : Throws(c, s) /\ Abandon(c, ErrorStatus(s))

Acknowledge(c) ==
  /\ stage[c] = "posting"
  /\ \E s \in FetchOutcomes : Returns(c, s)
  /\ IF rq[c].kind = "submit"
       THEN /\ entries' = AfterSet(KeyOf(c), rq[c].body, c, now)
            /\ ackedAt' = IF Keyed(c) THEN [ackedAt EXCEPT ![KeyOf(c)] = now]
                                      ELSE ackedAt
            /\ Answered(c, [status |-> 202, of |-> c])
       ELSE /\ UNCHANGED <<entries, ackedAt>>
            /\ Answered(c, [status |-> 200, of |-> c])
  /\ call' = [call EXCEPT ![c] = Idle]
  /\ UNCHANGED <<ClockAndAlgod, networkCache, seen, posts>>

-----------------------------------------------------------------------------
(* The environment.                                                        *)

\* algod takes a submission it was sent: before it answers, after the gateway
\* gave up on the answer, or after the gateway restarted.
AlgodAccepts(c) ==
  /\ rq[c].kind = "submit" /\ posts[c] > 0 /\ c \notin accepted
  /\ accepted' = accepted \union {c}
  /\ UNCHANGED <<now, call, networkVars, entries, rq, stage, answer, posts, ackedAt,
                 restarts>>

\* algod answers a fetch; it says 2xx only of a submission it has taken.
ParamsArrive(c) ==
  /\ stage[c] = "verifying"
  /\ \E s \in FetchOutcomes : ParamsReplies(c, s)
  /\ UNCHANGED <<ClockAndAlgod, networkCache, entries, rq, stage, answer, posts,
                 ackedAt, restarts>>

PostReplyArrives(c) ==
  /\ stage[c] = "posting"
  /\ \E s \in FetchOutcomes :
       /\ UpstreamReplies(c, s)
       /\ s \in Success /\ rq[c].kind = "submit" => c \in accepted
  /\ UNCHANGED <<ClockAndAlgod, networkCache, seen, entries, rq, stage, answer,
                 posts, ackedAt, restarts>>

Switch ==
  /\ SwitchNetwork
  /\ UNCHANGED <<now, call, entries, rq, stage, answer, posts, accepted, ackedAt,
                 restarts>>

Tick ==
  /\ TimersQuiet
  /\ now < MaxTime \/ \E c \in Requests : Active(c)
  /\ now' = now + 1
  /\ NetworkAt(now + 1)
  /\ UNCHANGED <<call, entries, rq, stage, answer, posts, accepted, ackedAt, restarts>>

\* The process dies and comes back: handlers and both caches are gone.
Restart ==
  /\ restarts < MaxRestarts
  /\ restarts' = restarts + 1
  /\ call' = [c \in Calls |-> Idle]
  /\ networkCache' = 0
  /\ seen' = [c \in Calls |-> Unseen]
  /\ entries' = NoEntries
  /\ stage' = [c \in Requests |-> IF Active(c) THEN "lost" ELSE stage[c]]
  /\ ackedAt' = [k \in CacheKeys |-> Never]
  /\ UNCHANGED <<ClockAndAlgod, rq, answer, posts>>

-----------------------------------------------------------------------------
Admit(c) == AdmitVerified(c) \/ AdmitUnverified(c)
Arrive(c) == Reject(c) \/ KeyConflict(c) \/ Replay(c) \/ Admit(c)
Turn(c) ==
  \/ Wait(c) \/ Retry(c) \/ UpstreamFails(c)
  \/ VerifySucceeds(c) \/ VerifyRefuses(c) \/ Acknowledge(c)
Environment(c) == AlgodAccepts(c) \/ ParamsArrive(c) \/ PostReplyArrives(c)

Next ==
  \/ Tick \/ Switch \/ Restart
  \/ \E c \in Requests : Arrive(c) \/ Turn(c) \/ Environment(c)

\* Timers run and due turns of the event loop are taken; neither clients nor
\* algod owe the gateway anything.
Fairness == WF_vars(Tick) /\ \A c \in Requests : WF_vars(Turn(c))

Spec == Init /\ [][Next]_vars /\ Fairness

-----------------------------------------------------------------------------
TypeOK ==
  /\ now \in Nat
  /\ call \in [Calls -> CallType]
  /\ NetworkType
  /\ EntriesType
  /\ rq \in [Requests -> Request]
  /\ stage \in [Requests -> Stages]
  /\ answer \in [Requests -> [status : 0..599, of : Requests \union {NoEntry}]]
  /\ posts \in [Requests -> Nat]
  /\ accepted \subseteq Requests
  /\ ackedAt \in [CacheKeys -> Int]
  /\ restarts \in Nat

\* A 202, fresh or replayed, acknowledges a submission that algod has taken and
\* that the same principal sent under the same key with the same body.
HonestAcknowledgement ==
  \A c \in Requests : answer[c].status = 202 =>
    /\ answer[c].of \in accepted
    /\ rq[answer[c].of] = rq[c]

\* The gateway sends the POST of a request to algod at most once, whatever
\* becomes of it: neither a 503 nor a timeout makes it send it again.
OneBroadcastPerRequest == \A c \in Requests : posts[c] <= 1

\* The lookup of a key tells the truth, although the map is shared by all
\* requests, loses entries to lazy deletion and cleanup, and is overwritten by
\* overlapping requests: a request under a key goes on to algod exactly when no
\* submission under that key was acknowledged in the last TtlMs.
RecentlyAcknowledged(k) == now <= ackedAt[k] + TtlMs
LookupTellsTruth ==
  [][\A c \in Requests :
       /\ Keyed(c) /\ Verdict[rq[c].body] = 0
       /\ stage[c] = "arriving" /\ stage'[c] # "arriving"
       => (stage'[c] = "answered" <=> RecentlyAcknowledged(KeyOf(c)))]_vars

\* A POST leaves for algod only if algod was MainNet within the last VerifyTtlMs
\* and one fetch.
ForwardedToMainnet ==
  [][\A c \in Requests :
       EnforceMainnet /\ posts'[c] > posts[c] =>
         now <= lastMainnet + TimeoutMs + VerifyTtlMs]_vars

\* When `set` leaves more than MaxEntries in the map, none of them has expired:
\* dead entries do not accumulate.
OvergrownMapIsLive ==
  [][\A k \in CacheKeys :
       /\ entries'[k] # entries[k] /\ entries'[k] # NoEntry
       /\ Size(entries') > MaxEntries
       => \A j \in CacheKeys : entries'[j] # NoEntry => Live(entries'[j], now)]_vars

\* Every request the gateway works on is answered, even if algod stays silent,
\* unless the process dies first.
EveryRequestAnswered ==
  \A c \in Requests : Active(c) ~> stage[c] \in {"answered", "lost"}

\* Once a submission was acknowledged under a key, no other one under that key is
\* sent to algod while the acknowledgement is remembered.  It holds for clients
\* that wait for an answer before they reuse a key, and only for them.
NoForwardAfterAcknowledgement ==
  [][\A c \in Requests :
       Keyed(c) /\ posts'[c] > posts[c] => ~RecentlyAcknowledged(KeyOf(c))]_vars

-----------------------------------------------------------------------------
(* The inductive invariant the proofs use: why the properties hold.        *)

\* A handler's stage says what its upstream call is.
CallFits(c) ==
  /\ call[c].phase # "idle" <=> Active(c)
  /\ call[c].phase # "idle" => call[c].attempt \in 1..MaxAttempts(c)
  /\ call[c].phase = "backoff" => call[c].attempt < MaxAttempts(c)
  /\ call[c].phase = "inflight" => call[c].timer \in now..(now + TimeoutMs)
  /\ stage[c] = "verifying" => call[c].retrySafe
  /\ stage[c] = "posting" => ~call[c].retrySafe
  /\ stage[c] \in {"arriving", "verifying"} => posts[c] = 0
  /\ posts[c] <= 1
CallMatchesStage == \A c \in Requests : CallFits(c)

\* A MainNet answer on its way, and the cache made from one, are no older than
\* the fetch that was answered.
VerificationIsRecent ==
  /\ lastMainnet <= now
  /\ algodNet = "mainnet" => lastMainnet = now
  /\ networkCache <= lastMainnet + TimeoutMs + VerifyTtlMs
  /\ \A c \in Requests : seen[c] = "mainnet" =>
       /\ stage[c] = "verifying" /\ call[c].phase = "inflight"
       /\ call[c].timer <= lastMainnet + TimeoutMs

\* An entry holds the submission that was accepted under its key.
EntriesAreHonest ==
  /\ \A k \in CacheKeys : entries[k] # NoEntry =>
       /\ entries[k].response \in accepted
       /\ rq[entries[k].response] = [kind |-> "submit", principal |-> k[1],
                                     key |-> k[2], body |-> entries[k].fingerprint]
  /\ \A c \in Requests :
       /\ stage[c] = "posting" /\ rq[c].kind = "submit"
       /\ call[c].reply \in Success
       => c \in accepted

\* A key has an entry while its last acknowledgement is recent, and an entry
\* expires when that acknowledgement does.
EntriesMatchAcknowledgements ==
  \A k \in CacheKeys :
    /\ ackedAt[k] <= now
    /\ RecentlyAcknowledged(k) => entries[k] # NoEntry
    /\ entries[k] # NoEntry => entries[k].expiresAt = ackedAt[k] + TtlMs

IInv ==
  /\ TypeOK
  /\ CallMatchesStage
  /\ VerificationIsRecent
  /\ EntriesAreHonest
  /\ EntriesMatchAcknowledgements
  /\ HonestAcknowledgement

-----------------------------------------------------------------------------
(* The register the cache implements: an expired entry is an empty one,    *)
(* whether or not the map still holds it.                                  *)

NoScope == <<NoEntry, NoEntry>>

Asked == [c \in Requests |->
            [scope |-> IF Keyed(c) THEN KeyOf(c) ELSE NoScope, body |-> rq[c].body]]
Record == [k \in CacheKeys |->
             IF Live(entries[k], now) THEN entries[k].response ELSE NoEntry]
StateAt(suspension) ==
  CASE suspension = "arriving" -> "new"
    [] suspension \in {"verifying", "posting"} -> "forwarding"
    [] suspension = "answered" -> "done"
    [] suspension = "lost" -> "lost"
State == [c \in Requests |-> StateAt(stage[c])]
Given == [c \in Requests |-> answer[c].of]

Register == INSTANCE IdempotentSubmission WITH
  Scopes <- CacheKeys, Nothing <- NoEntry,
  asked <- Asked, record <- Record, state <- State, of <- Given

\* Every step of the handlers is a step of the register or leaves it alone.
ImplementsRegister == Register!Spec
=============================================================================
