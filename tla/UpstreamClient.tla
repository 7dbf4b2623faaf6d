---------------------------- MODULE UpstreamClient ----------------------------
(***************************************************************************)
(* UpstreamClient.request of src/upstream.js: one HTTP call to algod or    *)
(* the indexer, made of at most MaxAttempts fetches, each under an abort   *)
(* timer, with an exponential backoff between them.                        *)
(*                                                                         *)
(* This module holds the state of the calls and the steps of one call as   *)
(* operators; UpstreamRequest runs them on their own, NetworkVerification  *)
(* and SubmitTransaction compose them with the handlers that call them.    *)
(*                                                                         *)
(* A JavaScript turn -- everything up to the next await that does real     *)
(* input or output -- is one atomic step.  The clock ticks between steps;  *)
(* a timer that has expired runs before the next tick, so the time a step  *)
(* itself takes is not counted.                                            *)
(***************************************************************************)
EXTENDS Integers

CONSTANTS
  Calls,             \* identities of the calls to an upstream
  UpstreamStatuses,  \* HTTP statuses an upstream may answer with
  RetryAttempts,     \* config.upstream.retryAttempts
  TimeoutMs,         \* config.upstream.timeoutMs, in clock units
  BackoffBase,       \* 100 ms in the code
  BackoffCap         \* 1000 ms in the code

VARIABLES
  now,    \* Date.now()
  call    \* for each call, what request() is suspended on

RETRYABLE_STATUSES == {429, 502, 503, 504}
Success == 200..299

\* What a fetch ends in: an HTTP status, or a rejected promise (a connection
\* error, an unreadable body, or the abort timer).
NoReply == 0
FetchRejected == 1
FetchOutcomes == UpstreamStatuses \union {FetchRejected}

BackoffMs(attempt) ==
  LET ms == BackoffBase * 2 ^ (attempt - 1)
  IN  IF ms < BackoffCap THEN ms ELSE BackoffCap

ASSUME UpstreamAssumption ==
  /\ UpstreamStatuses \subseteq 200..599
  /\ RetryAttempts \in Nat
  /\ TimeoutMs \in Nat \ {0}
  /\ BackoffCap \in Nat
  /\ \A n \in 1..RetryAttempts : BackoffMs(n) \in 0..BackoffCap

Idle == [phase |-> "idle", retrySafe |-> FALSE, attempt |-> 0,
         timer |-> 0, reply |-> NoReply]

CallType ==
  [phase : {"idle", "inflight", "backoff"}, retrySafe : BOOLEAN,
   attempt : 0..(RetryAttempts + 1), timer : Nat,
   reply : FetchOutcomes \union {NoReply}]

\* Mutants: the retrySafe option is ignored; the loop runs once too often.
MaxAttemptsForAll(c) == RetryAttempts + 1
MaxAttemptsPlusOne(c) == RetryAttempts + 2

MaxAttempts(c) == IF call[c].retrySafe THEN RetryAttempts + 1 ELSE 1

-----------------------------------------------------------------------------
(* The steps of one call.  `timer` is the abort timer of the fetch while   *)
(* one is in flight, and the delay() of the backoff otherwise.             *)

\* fetchOnce: send the request and start its abort timer.
FetchOnce(safe, n) ==
  [phase |-> "inflight", retrySafe |-> safe, attempt |-> n,
   timer |-> now + TimeoutMs, reply |-> NoReply]

StartRequest(c, safe) == call' = [call EXCEPT ![c] = FetchOnce(safe, 1)]

\* The upstream answers, or the connection breaks: the outcome `s` is on its
\* way to the gateway, which may still abort the fetch first.
UpstreamReplies(c, s) ==
  /\ call[c].phase = "inflight"
  /\ call[c].reply = NoReply
  /\ call' = [call EXCEPT ![c].reply = s]

\* Mutant: the abort timer is cleared before the body is read.
FetchSettlesUnaborted(c, s) ==
  /\ call[c].phase = "inflight"
  /\ s # NoReply /\ s = call[c].reply

\* The fetch settles with `s`: an answer that has arrived, or the abort timer.
FetchSettles(c, s) ==
  /\ call[c].phase = "inflight"
  /\ \/ s # NoReply /\ s = call[c].reply
     \/ s = FetchRejected /\ now >= call[c].timer

\* Mutant: a rejected fetch is not retried.
RetriesAfterStatusOnly(c, s) ==
  call[c].attempt < MaxAttempts(c) /\ s \in RETRYABLE_STATUSES

RetriesAfter(c, s) ==
  /\ call[c].attempt < MaxAttempts(c)
  /\ s \in RETRYABLE_STATUSES \union {FetchRejected}

BackOff(c) ==
  \E s \in FetchOutcomes :
    /\ FetchSettles(c, s)
    /\ RetriesAfter(c, s)
    /\ call' = [call EXCEPT ![c].phase = "backoff",
                            ![c].timer = now + BackoffMs(call[c].attempt),
                            ![c].reply = NoReply]

\* Mutant: the attempt is not counted.
ResendUncounted(c) ==
  /\ call[c].phase = "backoff"
  /\ now >= call[c].timer
  /\ call' = [call EXCEPT ![c] = FetchOnce(@.retrySafe, @.attempt)]

Resend(c) ==
  /\ call[c].phase = "backoff"
  /\ now >= call[c].timer
  /\ call' = [call EXCEPT ![c] = FetchOnce(@.retrySafe, @.attempt + 1)]

\* request() returns the response.
Returns(c, s) == FetchSettles(c, s) /\ s \in Success

\* request() throws an HttpError with status ErrorStatus(s).
Throws(c, s) == FetchSettles(c, s) /\ s \notin Success /\ ~RetriesAfter(c, s)

UpstreamHttpError(s) == IF s >= 500 THEN 502 ELSE s
ErrorStatus(s) == IF s = FetchRejected THEN 504 ELSE UpstreamHttpError(s)

\* Time passes only when no timer of a pending call is due.
TimersQuiet == \A c \in Calls : call[c].phase # "idle" => now < call[c].timer
=============================================================================
