---------------------------- MODULE UpstreamRequest ---------------------------
(***************************************************************************)
(* Callers that do nothing but UpstreamClient.request: each makes one      *)
(* call, retry-safe or not, and keeps what request() returned or threw.    *)
(* The upstream answers each fetch with any status, breaks the             *)
(* connection, or stays silent.                                            *)
(***************************************************************************)
EXTENDS UpstreamClient

CONSTANT MaxTime   \* calls start before this instant (a bound for TLC)

VARIABLES
  sends,      \* fetches made by the call so far
  startedAt,  \* when request() was entered
  result      \* 0 while pending, else the status returned or thrown

vars == <<now, call, sends, startedAt, result>>

Pending(c) == call[c].phase # "idle"

Init ==
  /\ now = 0
  /\ call = [c \in Calls |-> Idle]
  /\ sends = [c \in Calls |-> 0]
  /\ startedAt = [c \in Calls |-> 0]
  /\ result = [c \in Calls |-> NoReply]

Request(c) ==
  /\ ~Pending(c) /\ result[c] = NoReply
  /\ now < MaxTime
  /\ \E retrySafe \in BOOLEAN : StartRequest(c, retrySafe)
  /\ sends' = [sends EXCEPT ![c] = 1]
  /\ startedAt' = [startedAt EXCEPT ![c] = now]
  /\ UNCHANGED <<now, result>>

Answer(c) ==
  /\ \E s \in FetchOutcomes : UpstreamReplies(c, s)
  /\ UNCHANGED <<now, sends, startedAt, result>>

Wait(c) ==
  /\ BackOff(c)
  /\ UNCHANGED <<now, sends, startedAt, result>>

Retry(c) ==
  /\ Resend(c)
  /\ sends' = [sends EXCEPT ![c] = @ + 1]
  /\ UNCHANGED <<now, startedAt, result>>

Settle(c, status) ==
  /\ call' = [call EXCEPT ![c] = Idle]
  /\ result' = [result EXCEPT ![c] = status]
  /\ UNCHANGED <<now, sends, startedAt>>

Return(c) == \E s \in FetchOutcomes : Returns(c, s) /\ Settle(c, s)
Throw(c) == \E s \in FetchOutcomes : Throws(c, s) /\ Settle(c, ErrorStatus(s))

Tick ==
  /\ TimersQuiet
  /\ now < MaxTime \/ \E c \in Calls : Pending(c)
  /\ now' = now + 1
  /\ UNCHANGED <<call, sends, startedAt, result>>

\* The turns of the gateway's event loop for call c.
Turn(c) == Wait(c) \/ Retry(c) \/ Return(c) \/ Throw(c)

Next == Tick \/ \E c \in Calls : Request(c) \/ Answer(c) \/ Turn(c)

Spec == Init /\ [][Next]_vars

-----------------------------------------------------------------------------
TypeOK ==
  /\ now \in Nat
  /\ call \in [Calls -> CallType]
  /\ sends \in [Calls -> 0..(RetryAttempts + 1)]
  /\ startedAt \in [Calls -> Nat]
  /\ result \in [Calls -> 0..599]

\* A call that is not retry-safe reaches the upstream at most once, whatever
\* its answer was and whether or not one came (request, lines 14-15).
MutatingCallSentOnce ==
  \A c \in Calls : Pending(c) /\ ~call[c].retrySafe => sends[c] <= 1

\* The caller waits at most for every attempt it may make to time out and for
\* every backoff in between to reach its cap.
WorstCaseMs(c) == MaxAttempts(c) * TimeoutMs + (MaxAttempts(c) - 1) * BackoffCap
AnsweredInBoundedTime ==
  \A c \in Calls : Pending(c) => now - startedAt[c] <= WorstCaseMs(c)

\* request() gives up only when the attempts are used up or the last answer is
\* one that no retry could change: a step that ends a retry-safe call with 504,
\* with 429, or with 502 after a retryable status, ends its last attempt.
GivesUpOnlyWhenExhausted ==
  [][\A c \in Calls :
       /\ call[c].retrySafe
       /\ result'[c] # result[c]
       /\ result'[c] \in {429, 504} \/ call[c].reply \in RETRYABLE_STATUSES
       => sends[c] = RetryAttempts + 1 ]_vars
=============================================================================
