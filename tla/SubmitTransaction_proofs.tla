----------------------- MODULE SubmitTransaction_proofs -----------------------
(***************************************************************************)
(* Proofs about SubmitTransaction for every number of requests, every      *)
(* workload, every timeout, TTL and retry count: its type invariant, and   *)
(* that the inductive invariant IInv holds and gives the safety            *)
(* properties the model-checking runs check; and the refinement of the     *)
(* register per Idempotency-Key.                                           *)
(***************************************************************************)
EXTENDS SubmitTransaction, TLAPS

-----------------------------------------------------------------------------
(* Facts about the upstream calls.                                         *)

\* The numeric constants.
LEMMA Constants ==
  /\ RetryAttempts \in Nat
  /\ TimeoutMs \in Nat \ {0}
  /\ VerifyTtlMs \in Nat \ {0}
  /\ TtlMs \in Nat \ {0}
BY UpstreamAssumption, NetworkAssumption, IdempotencyAssumption
   DEF UpstreamAssumption, NetworkAssumption, IdempotencyAssumption

\* What is bounded from one instant is bounded from a later one.
LEMMA LaterBound ==
  ASSUME NEW expiry \in Nat, NEW earlier \in Nat, NEW later \in Nat, earlier <= later,
         expiry <= earlier + TimeoutMs + VerifyTtlMs
  PROVE  expiry <= later + TimeoutMs + VerifyTtlMs
BY Constants

\* A backoff is at most BackoffCap.
LEMMA BackoffRange ==
  ASSUME NEW n \in 1..RetryAttempts
  PROVE  BackoffMs(n) \in Nat
BY UpstreamAssumption DEF UpstreamAssumption

\* Outcomes and statuses are small integers.
LEMMA OutcomeRange == FetchOutcomes \subseteq 1..599
<1>1. UpstreamStatuses \subseteq 200..599
  BY UpstreamAssumption DEF UpstreamAssumption
<1> QED
  BY <1>1 DEF FetchOutcomes, FetchRejected

\* A thrown error has an HTTP error status.
LEMMA ErrorRange ==
  ASSUME NEW s \in FetchOutcomes
  PROVE  ErrorStatus(s) \in 0..599
<1>1. s \in 1..599
  BY OutcomeRange
<1> QED
  BY <1>1 DEF ErrorStatus, UpstreamHttpError

\* An error status is never that of a success.
LEMMA ErrorIsNoSuccess ==
  ASSUME NEW s \in FetchOutcomes, s \notin Success
  PROVE  ErrorStatus(s) # 202
BY UpstreamAssumption
   DEF UpstreamAssumption, FetchOutcomes, FetchRejected, ErrorStatus,
       UpstreamHttpError, Success

\* A fetch that has just been sent is a well-formed call.
LEMMA FetchOnceType ==
  ASSUME now \in Nat, NEW safe \in BOOLEAN, NEW n \in 0..(RetryAttempts + 1)
  PROVE  FetchOnce(safe, n) \in CallType
BY UpstreamAssumption DEF UpstreamAssumption, FetchOnce, CallType, NoReply, FetchOutcomes

\* The first fetch of a call, whichever kind, is a well-formed call.
LEMMA FirstFetchType ==
  ASSUME now \in Nat, NEW safe \in BOOLEAN
  PROVE  FetchOnce(safe, 1) \in CallType
<1>1. 1 \in 0..(RetryAttempts + 1)
  BY Constants
<1> QED
  BY <1>1, FetchOnceType

\* No call is a well-formed call.
LEMMA IdleType == Idle \in CallType
BY UpstreamAssumption DEF UpstreamAssumption, Idle, CallType, NoReply, FetchOutcomes

-----------------------------------------------------------------------------
(* The inductive invariant holds initially.                                *)

\* The gateway starts in a state of the invariant.
LEMMA InitIInv == Init => IInv
<1> SUFFICES ASSUME Init PROVE IInv
  OBVIOUS
<1>1. TypeOK
  <2>1. now \in Nat /\ call \in [Calls -> CallType]
    BY IdleType DEF Init
  <2>2. NetworkType
    BY DEF Init, NetworkInit, NetworkType
  <2>3. EntriesType
    BY DEF Init, EntriesType, NoEntries
  <2>4. rq \in [Requests -> Request] /\ stage \in [Requests -> Stages]
    BY SubmitAssumption DEF Init, SubmitAssumption, Stages
  <2>5. answer \in [Requests -> [status : 0..599, of : Requests \union {NoEntry}]]
    BY DEF Init, NoAnswer
  <2>6. ackedAt \in [CacheKeys -> Int]
    BY IdempotencyAssumption DEF Init, Never, IdempotencyAssumption
  <2> QED
    BY <2>1, <2>2, <2>3, <2>4, <2>5, <2>6 DEF TypeOK, Init
<1>2. CallMatchesStage
  <2> SUFFICES ASSUME NEW c \in Requests
               PROVE  CallFits(c)
    BY DEF CallMatchesStage
  <2>1. stage[c] = "arriving" /\ posts[c] = 0 /\ call[c].phase = "idle"
    BY DEF Init, Idle, Requests
  <2> QED
    BY <2>1 DEF CallFits, Active
<1>3. VerificationIsRecent
  BY NetworkAssumption, UpstreamAssumption
  DEF Init, NetworkInit, VerificationIsRecent, NetworkAssumption, UpstreamAssumption,
      Unseen, Requests
<1>4. EntriesAreHonest
  BY DEF Init, EntriesAreHonest, NoEntries
<1>5. EntriesMatchAcknowledgements
  BY IdempotencyAssumption
  DEF Init, EntriesMatchAcknowledgements, RecentlyAcknowledged, NoEntries, Never,
      IdempotencyAssumption
<1>6. HonestAcknowledgement
  BY SMTT(30) DEF Init, HonestAcknowledgement, NoAnswer
<1> QED
  BY <1>1, <1>2, <1>3, <1>4, <1>5, <1>6 DEF IInv

-----------------------------------------------------------------------------
(* Every step keeps the types.                                             *)

\* Every action of SubmitTransaction keeps the types.
LEMMA TypeStep == TypeOK /\ CallMatchesStage /\ [Next]_vars => TypeOK'
<1> SUFFICES ASSUME TypeOK, CallMatchesStage, [Next]_vars PROVE TypeOK'
  OBVIOUS
<1> USE DEF TypeOK, NetworkType, Requests, ClockAndAlgod, networkVars, Answered
<1>1. ASSUME NEW c \in Requests, Reject(c) PROVE TypeOK'
  BY <1>1, SubmitAssumption, SMTT(30)
  DEF Reject, Arrives, Failure, Stages, EntriesType, SubmitAssumption, Request
<1>2. ASSUME NEW c \in Requests, KeyConflict(c) PROVE TypeOK'
  BY <1>2 DEF KeyConflict, Failure, Stages, EntriesType
<1>3. ASSUME NEW c \in Requests, Replay(c) PROVE TypeOK'
  BY <1>3, SubmitAssumption
  DEF Replay, Hit, Live, Stages, EntriesType, Entry, SubmitAssumption
<1>4. ASSUME NEW c \in Requests, PassesLookup(c) PROVE EntriesType'
  BY <1>4 DEF PassesLookup, AfterMiss, EntriesType
<1>5. ASSUME NEW c \in Requests, Post(c)
      PROVE  /\ call' \in [Calls -> CallType]
             /\ posts' \in [Requests -> Nat]
             /\ stage' \in [Requests -> Stages]
  <2>1. FetchOnce(FALSE, 1) \in CallType
    BY FirstFetchType
  <2>2. PICK fetch \in CallType : call' = [call EXCEPT ![c] = fetch]
    BY <1>5, <2>1, Zenon DEF Post, StartRequest
  <2> QED
    BY <1>5, <2>2 DEF Post, Stages
<1>6. ASSUME NEW c \in Requests, AdmitVerified(c) PROVE TypeOK'
  BY <1>4, <1>5, <1>6 DEF AdmitVerified, Post
<1>7. ASSUME NEW c \in Requests, AdmitUnverified(c) PROVE TypeOK'
  <2>1. FetchOnce(TRUE, 1) \in CallType
    BY FirstFetchType
  <2> QED
    BY <1>4, <1>7, <2>1 DEF AdmitUnverified, StartRequest, Stages
<1>8. ASSUME NEW c \in Requests, Wait(c) PROVE TypeOK'
  <2>1. PICK s \in FetchOutcomes :
          /\ FetchSettles(c, s)
          /\ RetriesAfter(c, s)
          /\ call' = [call EXCEPT ![c].phase = "backoff",
                                  ![c].timer = now + BackoffMs(call[c].attempt),
                                  ![c].reply = NoReply]
    BY <1>8 DEF Wait, BackOff
  <2>2. call[c] \in CallType /\ call[c].attempt \in 1..RetryAttempts
    BY <2>1, Constants
    DEF FetchSettles, RetriesAfter, MaxAttempts, CallMatchesStage, CallFits, CallType
  <2>3. now + BackoffMs(call[c].attempt) \in Nat
    BY <2>2, BackoffRange
  <2>4. call' \in [Calls -> CallType]
    BY <2>1, <2>2, <2>3, ZenonT(40) DEF CallType
  <2> QED
    BY <1>8, <2>4 DEF Wait, EntriesType, Unseen
<1>9. ASSUME NEW c \in Requests, Retry(c) PROVE TypeOK'
  <2>1. call[c] \in CallType /\ call[c].attempt \in 1..RetryAttempts
    BY <1>9, Constants DEF Retry, Resend, MaxAttempts, CallMatchesStage, CallFits, CallType
  <2>2. FetchOnce(call[c].retrySafe, call[c].attempt + 1) \in CallType
    <3>1. /\ call[c].retrySafe \in BOOLEAN
          /\ call[c].attempt + 1 \in 0..(RetryAttempts + 1)
      BY <2>1, Constants DEF CallType
    <3> QED
      BY <3>1, FetchOnceType
  <2>3. call' \in [Calls -> CallType]
    BY <1>9, <2>2 DEF Retry, Resend
  <2>4. posts' \in [Requests -> Nat]
    BY <1>9 DEF Retry
  <2> QED
    BY <1>9, <2>3, <2>4 DEF Retry, EntriesType
<1>10. ASSUME NEW c \in Requests, NEW s \in 0..599, Abandon(c, s) PROVE TypeOK'
  BY <1>10, IdleType DEF Abandon, Failure, Stages, EntriesType, Unseen
<1>11. ASSUME NEW c \in Requests, UpstreamFails(c) PROVE TypeOK'
  BY <1>10, <1>11, ErrorRange, ZenonT(40) DEF UpstreamFails
<1>12. ASSUME NEW c \in Requests, VerifyRefuses(c) PROVE TypeOK'
  <2>1. NetworkMismatch \in 0..599 /\ InternalError \in 0..599
    BY DEF NetworkMismatch, InternalError
  <2> QED
    BY <1>10, <1>12, <2>1 DEF VerifyRefuses
<1>13. ASSUME NEW c \in Requests, VerifySucceeds(c) PROVE TypeOK'
  <2>1. Post(c) /\ StoreVerification
    BY <1>13 DEF VerifySucceeds
  <2>2. networkCache' \in Nat
    BY <2>1, Constants DEF StoreVerification
  <2>3. seen' \in [Calls -> Networks \union {Bodiless, Unseen}]
    BY <1>13 DEF VerifySucceeds
  <2>4. /\ call' \in [Calls -> CallType]
        /\ posts' \in [Requests -> Nat]
        /\ stage' \in [Requests -> Stages]
    BY <1>5, <2>1
  <2> QED
    BY <1>13, <2>1, <2>2, <2>3, <2>4 DEF VerifySucceeds, Post, EntriesType
<1>14. ASSUME NEW c \in Requests, Acknowledge(c) PROVE TypeOK'
  <2>1. call' \in [Calls -> CallType]
    BY <1>14, IdleType DEF Acknowledge
  <2>2. /\ answer' \in [Requests -> [status : 0..599, of : Requests \union {NoEntry}]]
        /\ stage' \in [Requests -> Stages]
        /\ rq' = rq /\ restarts' = restarts
    BY <1>14, SMTT(30) DEF Acknowledge, Stages
  <2>3. EntriesType' /\ ackedAt' \in [CacheKeys -> Int]
    <3>1. CASE rq[c].kind = "submit"
      <4>1. entries' = AfterSet(KeyOf(c), rq[c].body, c, now)
        BY <1>14, <3>1 DEF Acknowledge
      <4>2. [fingerprint |-> rq[c].body, response |-> c, expiresAt |-> now + TtlMs]
              \in Entry
        BY SubmitAssumption, Constants DEF SubmitAssumption, Entry, Request
      <4>3. EntriesType'
        BY <4>1, <4>2 DEF AfterSet, Cleanup, EntriesType
      <4>4. ackedAt' \in [CacheKeys -> Int]
        BY <1>14, <3>1 DEF Acknowledge
      <4> QED
        BY <4>3, <4>4
    <3>2. CASE rq[c].kind # "submit"
      BY <1>14, <3>2 DEF Acknowledge, EntriesType
    <3> QED
      BY <3>1, <3>2
  <2> QED
    BY <1>14, <2>1, <2>2, <2>3 DEF Acknowledge
<1>15. ASSUME NEW c \in Requests, AlgodAccepts(c) PROVE TypeOK'
  BY <1>15 DEF AlgodAccepts, EntriesType
<1>16. ASSUME NEW c \in Requests, ParamsArrive(c) PROVE TypeOK'
  BY <1>16 DEF ParamsArrive, ParamsReplies, UpstreamReplies, EntriesType, CallType,
               Networks, Unseen, Bodiless
<1>17. ASSUME NEW c \in Requests, PostReplyArrives(c) PROVE TypeOK'
  BY <1>17 DEF PostReplyArrives, UpstreamReplies, EntriesType, CallType
<1>18. ASSUME Switch PROVE TypeOK'
  BY <1>18 DEF Switch, SwitchNetwork, EntriesType
<1>19. ASSUME Tick PROVE TypeOK'
  BY <1>19 DEF Tick, NetworkAt, EntriesType
<1>20. ASSUME Restart PROVE TypeOK'
  BY <1>20, IdleType, IdempotencyAssumption
  DEF Restart, EntriesType, NoEntries, Never, Stages, IdempotencyAssumption, Unseen
<1>21. ASSUME UNCHANGED vars PROVE TypeOK'
  BY <1>21 DEF vars, EntriesType
<1> QED
  BY <1>1, <1>2, <1>3, <1>6, <1>7, <1>8, <1>9, <1>11, <1>12, <1>13, <1>14, <1>15,
     <1>16, <1>17, <1>18, <1>19, <1>20, <1>21, SMTT(30)
  DEF Next, Arrive, Admit, Turn, Environment

-----------------------------------------------------------------------------
(* Every step keeps calls and stages together.                             *)

\* Every action keeps what a handler waits for and its upstream call together.
LEMMA CallStep == TypeOK /\ CallMatchesStage /\ [Next]_vars => CallMatchesStage'
<1> SUFFICES ASSUME TypeOK, CallMatchesStage, [Next]_vars, NEW d \in Requests
             PROVE  CallFits(d)'
  BY DEF CallMatchesStage
<1>0. /\ CallFits(d) /\ now \in Nat
      /\ call \in [Requests -> CallType]
      /\ call[d] \in CallType
      /\ stage \in [Requests -> Stages]
      /\ posts \in [Requests -> Nat]
  BY DEF CallMatchesStage, TypeOK, Requests
\* A request that a step does not touch keeps its call.
<1>1. ASSUME now' = now, call'[d] = call[d], stage'[d] = stage[d], posts'[d] = posts[d]
      PROVE  CallFits(d)'
  BY <1>0, <1>1 DEF CallFits, Active, MaxAttempts
<1>2. ASSUME NEW c \in Requests, Reject(c) \/ KeyConflict(c) \/ Replay(c)
      PROVE  CallFits(d)'
  BY <1>0, <1>2
  DEF Reject, KeyConflict, Replay, Admissible, Arrives, Answered, ClockAndAlgod,
      CallFits, Active, MaxAttempts
<1>3. ASSUME NEW c \in Requests, Post(c), now' = now, stage[c] \in {"arriving", "verifying"}
      PROVE  CallFits(d)'
  <2>1. CASE d = c
    BY <1>0, <1>3, <2>1, Constants
    DEF Post, StartRequest, FetchOnce, CallFits, Active, MaxAttempts
  <2>2. CASE d # c
    BY <1>0, <1>1, <1>3, <2>2 DEF Post, StartRequest
  <2> QED
    BY <2>1, <2>2
<1>4. ASSUME NEW c \in Requests, AdmitVerified(c) \/ VerifySucceeds(c)
      PROVE  CallFits(d)'
  BY <1>3, <1>4
  DEF AdmitVerified, VerifySucceeds, PassesLookup, Admissible, Arrives, ClockAndAlgod
<1>5. ASSUME NEW c \in Requests, AdmitUnverified(c) PROVE CallFits(d)'
  <2>1. CASE d = c
    BY <1>0, <1>5, <2>1, Constants
    DEF AdmitUnverified, PassesLookup, Admissible, Arrives, StartRequest, FetchOnce,
        ClockAndAlgod, CallFits, Active, MaxAttempts
  <2>2. CASE d # c
    BY <1>0, <1>1, <1>5, <2>2 DEF AdmitUnverified, StartRequest, ClockAndAlgod
  <2> QED
    BY <2>1, <2>2
<1>6. ASSUME NEW c \in Requests, Wait(c) PROVE CallFits(d)'
  <2>1. CASE d = c
    BY <1>0, <1>6, <2>1
    DEF Wait, BackOff, RetriesAfter, FetchSettles, ClockAndAlgod, CallType, CallFits,
        Active, MaxAttempts
  <2>2. CASE d # c
    BY <1>0, <1>1, <1>6, <2>2 DEF Wait, BackOff, ClockAndAlgod
  <2> QED
    BY <2>1, <2>2
<1>7. ASSUME NEW c \in Requests, Retry(c) PROVE CallFits(d)'
  <2>1. CASE d = c
    <3>1. /\ call[c].retrySafe
          /\ call[c].attempt \in 1..RetryAttempts
          /\ stage[c] = "verifying"
      BY <1>0, <1>7, <2>1, Constants
      DEF Retry, Resend, CallFits, Active, MaxAttempts, CallType
    <3>2. /\ call'[c] = FetchOnce(call[c].retrySafe, call[c].attempt + 1)
          /\ UNCHANGED <<now, stage>>
          /\ posts'[c] = posts[c]
      BY <1>0, <1>7, <3>1 DEF Retry, Resend, ClockAndAlgod
    <3> QED
      BY <1>0, <2>1, <3>1, <3>2, Constants
      DEF FetchOnce, CallFits, Active, MaxAttempts
  <2>2. CASE d # c
    BY <1>0, <1>1, <1>7, <2>2 DEF Retry, Resend, ClockAndAlgod
  <2> QED
    BY <2>1, <2>2
<1>8. ASSUME NEW c \in Requests, NEW s, Abandon(c, s) PROVE CallFits(d)'
  BY <1>0, <1>8
  DEF Abandon, Answered, Idle, ClockAndAlgod, CallFits, Active, MaxAttempts
<1>9. ASSUME NEW c \in Requests, UpstreamFails(c) \/ VerifyRefuses(c)
      PROVE  CallFits(d)'
  BY <1>8, <1>9 DEF UpstreamFails, VerifyRefuses
<1>10. ASSUME NEW c \in Requests, Acknowledge(c) PROVE CallFits(d)'
  BY <1>0, <1>10
  DEF Acknowledge, Answered, Idle, ClockAndAlgod, CallFits, Active, MaxAttempts
<1>11. ASSUME NEW c \in Requests, ParamsArrive(c) \/ PostReplyArrives(c)
       PROVE  CallFits(d)'
  BY <1>0, <1>11
  DEF ParamsArrive, PostReplyArrives, ParamsReplies, UpstreamReplies, ClockAndAlgod,
      CallFits, Active, MaxAttempts, CallType
<1>12. ASSUME \/ \E c \in Requests : AlgodAccepts(c)
              \/ Switch
              \/ UNCHANGED vars
       PROVE  CallFits(d)'
  BY <1>1, <1>12 DEF AlgodAccepts, Switch, vars
<1>13. ASSUME Tick PROVE CallFits(d)'
  <2>1. /\ now' = now + 1
        /\ UNCHANGED <<call, stage, posts>>
        /\ call[d].phase # "idle" => now < call[d].timer
    BY <1>13 DEF Tick, TimersQuiet, Requests
  <2>2. call[d].timer \in Nat /\ TimeoutMs \in Nat
    BY <1>0, Constants DEF CallType
  <2>3. call[d].phase = "inflight" => call[d].timer \in now'..(now' + TimeoutMs)
    BY <1>0, <2>1, <2>2 DEF CallFits
  <2> QED
    BY <1>0, <2>1, <2>3 DEF CallFits, Active, MaxAttempts
<1>14. ASSUME Restart PROVE CallFits(d)'
  BY <1>0, <1>14
  DEF Restart, ClockAndAlgod, Idle, Requests, CallFits, Active, MaxAttempts
<1> QED
  BY <1>2, <1>4, <1>5, <1>6, <1>7, <1>9, <1>10, <1>11, <1>12, <1>13, <1>14
  DEF Next, Arrive, Admit, Turn, Environment

-----------------------------------------------------------------------------
(* Every step keeps verifications recent.                                  *)

\* Every action keeps the age of a verification within its bound.
LEMMA RecentStep ==
  TypeOK /\ CallMatchesStage /\ VerificationIsRecent /\ [Next]_vars
    => VerificationIsRecent'
<1> SUFFICES ASSUME TypeOK, CallMatchesStage, VerificationIsRecent, [Next]_vars
             PROVE  VerificationIsRecent'
  OBVIOUS
<1>0. /\ now \in Nat /\ lastMainnet \in Nat /\ networkCache \in Nat
      /\ call \in [Requests -> CallType]
      /\ stage \in [Requests -> Stages]
      /\ seen \in [Requests -> Networks \union {Bodiless, Unseen}]
  BY DEF TypeOK, NetworkType, Requests
\* Steps that leave the network's truth and cache alone, and bring no answer.
<1>1. ASSUME UNCHANGED <<now, algodNet, lastMainnet, networkCache>>,
             \A d \in Requests : seen'[d] = "mainnet" =>
               seen[d] = "mainnet" /\ call'[d] = call[d] /\ stage'[d] = stage[d]
      PROVE  VerificationIsRecent'
  BY <1>0, <1>1 DEF VerificationIsRecent
<1>2. ASSUME NEW c \in Requests, Arrive(c) PROVE VerificationIsRecent'
  <2>1. UNCHANGED <<now, algodNet, lastMainnet, networkCache, seen>>
    BY <1>2 DEF Arrive, Reject, KeyConflict, Replay, Admit, AdmitVerified,
                AdmitUnverified, ClockAndAlgod
  <2>2. stage[c] = "arriving"
    BY <1>2 DEF Arrive, Reject, KeyConflict, Replay, Admit, AdmitVerified,
                AdmitUnverified, PassesLookup, Admissible, Arrives
  <2>3. seen[c] # "mainnet"
    BY <2>2 DEF VerificationIsRecent, CallMatchesStage, CallFits, Active
  <2>4. \A d \in Requests \ {c} : call'[d] = call[d] /\ stage'[d] = stage[d]
    BY <1>0, <1>2 DEF Arrive, Reject, KeyConflict, Replay, Admit, AdmitVerified,
                AdmitUnverified, Post, StartRequest, Answered
  <2> QED
    BY <1>1, <2>1, <2>3, <2>4
<1>3. ASSUME NEW c \in Requests, Wait(c) PROVE VerificationIsRecent'
  <2>1. /\ UNCHANGED <<now, algodNet, lastMainnet, networkCache>>
        /\ seen' = [seen EXCEPT ![c] = Unseen]
        /\ \A d \in Requests \ {c} : call'[d] = call[d] /\ stage'[d] = stage[d]
    BY <1>0, <1>3 DEF Wait, BackOff, ClockAndAlgod
  <2> QED
    BY <1>0, <1>1, <2>1 DEF Unseen
<1>4. ASSUME NEW c \in Requests, Retry(c) PROVE VerificationIsRecent'
  <2>1. /\ UNCHANGED <<now, algodNet, lastMainnet, networkCache, seen>>
        /\ \A d \in Requests \ {c} : call'[d] = call[d] /\ stage'[d] = stage[d]
        /\ call[c].phase = "backoff"
    BY <1>0, <1>4 DEF Retry, Resend, ClockAndAlgod
  <2>2. seen[c] # "mainnet"
    BY <2>1 DEF VerificationIsRecent
  <2> QED
    BY <1>1, <2>1, <2>2
<1>5. ASSUME NEW c \in Requests, NEW s, Abandon(c, s) PROVE VerificationIsRecent'
  <2>1. /\ UNCHANGED <<now, algodNet, lastMainnet, networkCache>>
        /\ seen' = [seen EXCEPT ![c] = Unseen]
        /\ \A d \in Requests \ {c} : call'[d] = call[d] /\ stage'[d] = stage[d]
    BY <1>0, <1>5 DEF Abandon, Answered, ClockAndAlgod
  <2> QED
    BY <1>0, <1>1, <2>1 DEF Unseen
<1>6. ASSUME NEW c \in Requests, UpstreamFails(c) \/ VerifyRefuses(c)
      PROVE  VerificationIsRecent'
  BY <1>5, <1>6 DEF UpstreamFails, VerifyRefuses
\* The cache is filled from an answer whose abort timer is not yet past.
<1>7. ASSUME NEW c \in Requests, VerifySucceeds(c) PROVE VerificationIsRecent'
  <2>1. /\ UNCHANGED <<now, algodNet, lastMainnet>>
        /\ seen' = [seen EXCEPT ![c] = Unseen]
        /\ \A d \in Requests \ {c} : call'[d] = call[d] /\ stage'[d] = stage[d]
        /\ networkCache' = now + VerifyTtlMs
        /\ seen[c] = "mainnet"
    BY <1>0, <1>7
    DEF VerifySucceeds, Post, StartRequest, StoreVerification, GenesisMatches, ClockAndAlgod
  <2>2. call[c].phase = "inflight" /\ call[c].timer <= lastMainnet + TimeoutMs
    BY <2>1 DEF VerificationIsRecent
  <2>3. now <= call[c].timer /\ call[c].timer \in Nat
    BY <1>0, <2>2 DEF CallMatchesStage, CallFits, CallType
  <2>4. networkCache' <= lastMainnet + TimeoutMs + VerifyTtlMs
    BY <1>0, <2>1, <2>2, <2>3, Constants
  <2> QED
    BY <1>0, <2>1, <2>4 DEF VerificationIsRecent, Unseen
<1>8. ASSUME NEW c \in Requests, Acknowledge(c) PROVE VerificationIsRecent'
  <2>1. /\ UNCHANGED <<now, algodNet, lastMainnet, networkCache, seen>>
        /\ \A d \in Requests \ {c} : call'[d] = call[d] /\ stage'[d] = stage[d]
        /\ stage[c] = "posting"
    BY <1>0, <1>8 DEF Acknowledge, Answered, ClockAndAlgod
  <2>2. seen[c] # "mainnet"
    BY <2>1 DEF VerificationIsRecent
  <2> QED
    BY <1>1, <2>1, <2>2
<1>9. ASSUME NEW c \in Requests, ParamsArrive(c) PROVE VerificationIsRecent'
  <2>1. /\ UNCHANGED <<now, algodNet, lastMainnet, networkCache>>
        /\ stage[c] = "verifying" /\ stage' = stage
        /\ call[c].phase = "inflight"
        /\ \A d \in Requests : /\ call'[d].phase = call[d].phase
                               /\ call'[d].timer = call[d].timer
        /\ \A d \in Requests \ {c} : seen'[d] = seen[d]
        /\ seen'[c] \in {algodNet, "other", Bodiless, Unseen}
    BY <1>0, <1>9
    DEF ParamsArrive, ParamsReplies, UpstreamReplies, ClockAndAlgod, CallType
  <2>2. ASSUME seen'[c] = "mainnet" PROVE call[c].timer <= lastMainnet + TimeoutMs
    <3>1. algodNet = "mainnet"
      BY <2>1, <2>2 DEF Bodiless, Unseen
    <3>2. lastMainnet = now
      BY <3>1 DEF VerificationIsRecent
    <3>3. call[c].timer \in now..(now + TimeoutMs)
      BY <2>1 DEF CallMatchesStage, CallFits
    <3> QED
      BY <1>0, <3>2, <3>3, Constants
  <2> QED
    BY <1>0, <2>1, <2>2 DEF VerificationIsRecent
<1>10. ASSUME NEW c \in Requests, PostReplyArrives(c) PROVE VerificationIsRecent'
  <2>1. /\ UNCHANGED <<now, algodNet, lastMainnet, networkCache, seen, stage>>
        /\ \A d \in Requests : /\ call'[d].phase = call[d].phase
                               /\ call'[d].timer = call[d].timer
    BY <1>0, <1>10 DEF PostReplyArrives, UpstreamReplies, ClockAndAlgod, CallType
  <2> QED
    BY <1>0, <2>1 DEF VerificationIsRecent
<1>11. ASSUME \/ \E c \in Requests : AlgodAccepts(c)
              \/ UNCHANGED vars
       PROVE  VerificationIsRecent'
  BY <1>1, <1>11 DEF AlgodAccepts, vars, networkVars
\* The network was MainNet last at or after the instant it was before.
<1>12. ASSUME Switch \/ Tick PROVE VerificationIsRecent'
  <2>1. UNCHANGED <<call, stage, networkCache, seen>>
    BY <1>12 DEF Switch, SwitchNetwork, Tick, NetworkAt
  <2>2. /\ lastMainnet <= lastMainnet' /\ lastMainnet' \in Nat
        /\ lastMainnet' <= now'
        /\ algodNet' = "mainnet" => lastMainnet' = now'
    BY <1>0, <1>12
    DEF Switch, SwitchNetwork, Tick, NetworkAt, Networks, VerificationIsRecent
  <2>3. ASSUME NEW d \in Requests, seen[d] = "mainnet"
        PROVE  call[d].timer <= lastMainnet' + TimeoutMs
    BY <1>0, <2>2, <2>3, Constants DEF VerificationIsRecent, CallType
  <2>4. networkCache' <= lastMainnet' + TimeoutMs + VerifyTtlMs
    BY <1>0, <2>1, <2>2, LaterBound DEF VerificationIsRecent
  <2> QED
    BY <2>1, <2>2, <2>3, <2>4 DEF VerificationIsRecent
<1>13. ASSUME Restart PROVE VerificationIsRecent'
  BY <1>0, <1>13, Constants
  DEF Restart, ClockAndAlgod, VerificationIsRecent, Unseen, Requests
<1> QED
  BY <1>2, <1>3, <1>4, <1>6, <1>7, <1>8, <1>9, <1>10, <1>11, <1>12, <1>13
  DEF Next, Turn, Environment

-----------------------------------------------------------------------------
(* Facts about the idempotency cache.                                      *)

NewEntry(body, response, instant) ==
  [fingerprint |-> body, response |-> response, expiresAt |-> instant + TtlMs]

\* `set` stores its entry, and a cleanup takes away expired entries only.
LEMMA SetKeepsLive ==
  ASSUME EntriesType, NEW k \in CacheKeys, NEW body \in Bodies, NEW response \in Responses,
         NEW instant \in Nat
  PROVE  LET after == AfterSet(k, body, response, instant)
         IN  /\ after[k] = NewEntry(body, response, instant)
             /\ after[k] # NoEntry
             /\ \A j \in CacheKeys \ {k} :
                  \/ after[j] = entries[j]
                  \/ after[j] = NoEntry /\ ~Live(entries[j], instant)
<1> DEFINE e == NewEntry(body, response, instant)
           map == [entries EXCEPT ![k] = e]
           after == AfterSet(k, body, response, instant)
<1>1. e \in Entry /\ e # NoEntry
  BY Constants, NoEntryAssumption DEF NewEntry, Entry, NoEntryAssumption
<1>2. Live(e, instant)
  BY <1>1, Constants DEF Live, Expired, NewEntry
<1>3. map[k] = e /\ \A j \in CacheKeys \ {k} : map[j] = entries[j]
  BY DEF EntriesType
<1>4. after = map \/ after = Cleanup(map, instant)
  BY DEF AfterSet, NewEntry
<1> HIDE DEF e, map, after
<1>5. /\ after[k] = e
      /\ \A j \in CacheKeys \ {k} :
           after[j] = entries[j] \/ (after[j] = NoEntry /\ ~Live(entries[j], instant))
  BY <1>2, <1>3, <1>4 DEF Cleanup
<1> QED
  BY <1>1, <1>5 DEF e, after

\* A miss takes away the entry it met, which has expired.
LEMMA MissKeepsLive ==
  ASSUME EntriesType, NEW k, NEW instant, Miss(k, instant), NEW j \in CacheKeys
  PROVE  LET after == AfterMiss(k)
         IN  \/ after[j] = entries[j]
             \/ after[j] = NoEntry /\ ~Live(entries[j], instant)
BY DEF AfterMiss, Miss, EntriesType

\* A submission carries a cache key exactly when it has the header.
LEMMA KeyOfKeyed ==
  ASSUME rq \in [Requests -> Request], NEW c \in Requests, rq[c].kind = "submit"
  PROVE  /\ Keyed(c) <=> KeyOf(c) \in CacheKeys
         /\ rq[c] = [kind |-> "submit", principal |-> KeyOf(c)[1], key |-> KeyOf(c)[2],
                      body |-> rq[c].body]
BY IdempotencyAssumption DEF IdempotencyAssumption, Keyed, KeyOf, CacheKeys, Request

\* A POST that returned was answered with a success.
LEMMA ReturnsAnswer ==
  ASSUME NEW c, NEW s, Returns(c, s)
  PROVE  call[c].reply \in Success
BY DEF Returns, FetchSettles, FetchRejected, Success

-----------------------------------------------------------------------------
(* Every step keeps the entries honest.                                    *)

\* Every action leaves in an entry a submission that was accepted under its key.
LEMMA HonestEntriesStep ==
  TypeOK /\ CallMatchesStage /\ EntriesAreHonest /\ [Next]_vars => EntriesAreHonest'
<1> SUFFICES ASSUME TypeOK, CallMatchesStage, EntriesAreHonest, [Next]_vars
             PROVE  EntriesAreHonest'
  OBVIOUS
<1> DEFINE Honest(entry, k) ==
             /\ entry.response \in accepted
             /\ rq[entry.response] = [kind |-> "submit", principal |-> k[1], key |-> k[2],
                                      body |-> entry.fingerprint]
           Taken(d) == stage[d] = "posting" /\ rq[d].kind = "submit"
                         /\ call[d].reply \in Success => d \in accepted
<1>0. /\ EntriesType /\ now \in Nat /\ rq \in [Requests -> Request]
      /\ call \in [Requests -> CallType] /\ stage \in [Requests -> Stages]
      /\ \A k \in CacheKeys : entries[k] # NoEntry => Honest(entries[k], k)
      /\ \A d \in Requests : Taken(d)
  BY DEF TypeOK, EntriesAreHonest, Requests
\* Entries that stay stay honest, because algod forgets no submission.
<1>1. ASSUME rq' = rq, accepted \subseteq accepted',
             \A k \in CacheKeys : entries'[k] \in {entries[k], NoEntry},
             \A d \in Requests : Taken(d)'
      PROVE  EntriesAreHonest'
  BY <1>0, <1>1 DEF EntriesAreHonest
<1>2. ASSUME rq' = rq, accepted \subseteq accepted', NEW c \in Requests,
             \A d \in Requests \ {c} : call'[d] = call[d] /\ stage'[d] = stage[d],
             stage'[c] # "posting" \/ call'[c].reply \notin Success
      PROVE  \A d \in Requests : Taken(d)'
  BY <1>0, <1>2
<1> HIDE DEF Taken
<1>3. ASSUME NEW c \in Requests, Reject(c) \/ KeyConflict(c) \/ Replay(c)
      PROVE  EntriesAreHonest'
  <2>1. /\ UNCHANGED <<rq, accepted, entries, call>>
        /\ stage' = [stage EXCEPT ![c] = "answered"]
    BY <1>3 DEF Reject, KeyConflict, Replay, Answered, ClockAndAlgod
  <2> QED
    BY <1>0, <1>1, <1>2, <2>1
<1>4. ASSUME NEW c \in Requests, Admit(c) PROVE EntriesAreHonest'
  <2>1. /\ UNCHANGED <<rq, accepted>>
        /\ \A d \in Requests \ {c} : call'[d] = call[d] /\ stage'[d] = stage[d]
        /\ call'[c].reply = NoReply
        /\ PassesLookup(c)
    <3>1. CASE AdmitVerified(c)
      BY <1>0, <3>1 DEF AdmitVerified, Post, StartRequest, FetchOnce, ClockAndAlgod
    <3>2. CASE AdmitUnverified(c)
      BY <1>0, <3>2 DEF AdmitUnverified, StartRequest, FetchOnce, ClockAndAlgod
    <3> QED
      BY <1>4, <3>1, <3>2 DEF Admit
  <2>2. \A k \in CacheKeys : entries'[k] \in {entries[k], NoEntry}
    BY <1>0, <2>1, MissKeepsLive DEF PassesLookup
  <2> QED
    BY <1>1, <1>2, <2>1, <2>2 DEF NoReply, Success
<1>5. ASSUME NEW c \in Requests, Wait(c) PROVE EntriesAreHonest'
  <2>1. /\ UNCHANGED <<rq, accepted, entries, stage>>
        /\ \A d \in Requests \ {c} : call'[d] = call[d]
        /\ call'[c].reply = NoReply
    BY <1>0, <1>5 DEF Wait, BackOff, ClockAndAlgod, CallType
  <2> QED
    BY <1>1, <1>2, <2>1 DEF NoReply, Success
<1>6. ASSUME NEW c \in Requests, Retry(c) PROVE EntriesAreHonest'
  <2>1. /\ UNCHANGED <<rq, accepted, entries, stage>>
        /\ \A d \in Requests \ {c} : call'[d] = call[d]
        /\ call'[c].reply = NoReply
    BY <1>0, <1>6 DEF Retry, Resend, FetchOnce, ClockAndAlgod
  <2> QED
    BY <1>1, <1>2, <2>1 DEF NoReply, Success
<1>7. ASSUME NEW c \in Requests, NEW s, Abandon(c, s) PROVE EntriesAreHonest'
  <2>1. /\ UNCHANGED <<rq, accepted, entries>>
        /\ \A d \in Requests \ {c} : call'[d] = call[d] /\ stage'[d] = stage[d]
        /\ stage'[c] = "answered"
    BY <1>0, <1>7 DEF Abandon, Answered, ClockAndAlgod
  <2> QED
    BY <1>1, <1>2, <2>1
<1>8. ASSUME NEW c \in Requests, UpstreamFails(c) \/ VerifyRefuses(c)
      PROVE  EntriesAreHonest'
  BY <1>7, <1>8 DEF UpstreamFails, VerifyRefuses
<1>9. ASSUME NEW c \in Requests, VerifySucceeds(c) PROVE EntriesAreHonest'
  <2>1. /\ UNCHANGED <<rq, accepted, entries>>
        /\ \A d \in Requests \ {c} : call'[d] = call[d] /\ stage'[d] = stage[d]
        /\ call'[c].reply = NoReply
    BY <1>0, <1>9 DEF VerifySucceeds, Post, StartRequest, FetchOnce, ClockAndAlgod
  <2> QED
    BY <1>1, <1>2, <2>1 DEF NoReply, Success
\* The one step that makes an entry: algod has said it took the submission.
<1>10. ASSUME NEW c \in Requests, Acknowledge(c) PROVE EntriesAreHonest'
  <2>1. /\ UNCHANGED <<rq, accepted>>
        /\ \A d \in Requests \ {c} : call'[d] = call[d] /\ stage'[d] = stage[d]
        /\ stage'[c] = "answered"
        /\ stage[c] = "posting" /\ \E s \in FetchOutcomes : Returns(c, s)
    BY <1>0, <1>10 DEF Acknowledge, Answered, ClockAndAlgod
  <2>2. \A d \in Requests : Taken(d)'
    BY <1>2, <2>1
  <2>3. CASE rq[c].kind # "submit" \/ KeyOf(c) \notin CacheKeys
    <3>1. entries' = entries
      BY <1>10, <2>3 DEF Acknowledge, AfterSet
    <3> QED
      BY <1>1, <2>1, <2>2, <3>1
  <2>4. CASE rq[c].kind = "submit" /\ KeyOf(c) \in CacheKeys
    <3> DEFINE k == KeyOf(c)
    <3>1. entries' = AfterSet(k, rq[c].body, c, now)
      BY <1>10, <2>4 DEF Acknowledge
    <3>2. rq[c].body \in Bodies /\ c \in Responses
      BY <1>0, SubmitAssumption DEF SubmitAssumption, Request
    <3>3. /\ entries'[k] = NewEntry(rq[c].body, c, now)
          /\ \A j \in CacheKeys \ {k} : entries'[j] \in {entries[j], NoEntry}
      BY <1>0, <2>4, <3>1, <3>2, SetKeepsLive
    <3>4. c \in accepted
      BY <1>0, <2>1, <2>4, ReturnsAnswer DEF Taken
    <3>5. Honest(entries'[k], k)
      BY <1>0, <2>4, <3>3, <3>4, KeyOfKeyed DEF NewEntry
    <3> HIDE DEF k
    <3> QED
      BY <1>0, <2>1, <2>2, <3>3, <3>5 DEF EntriesAreHonest, Taken
  <2> QED
    BY <2>3, <2>4
<1>11. ASSUME NEW c \in Requests, AlgodAccepts(c) PROVE EntriesAreHonest'
  BY <1>0, <1>1, <1>11 DEF AlgodAccepts, Taken
<1>12. ASSUME NEW c \in Requests, ParamsArrive(c) \/ PostReplyArrives(c)
       PROVE  EntriesAreHonest'
  <2>1. /\ UNCHANGED <<rq, accepted, entries, stage>>
        /\ \A d \in Requests \ {c} : call'[d] = call[d]
        /\ stage[c] = "posting" /\ call'[c].reply \in Success /\ rq[c].kind = "submit"
             => c \in accepted
    BY <1>0, <1>12 DEF ParamsArrive, PostReplyArrives, ParamsReplies, UpstreamReplies,
                       ClockAndAlgod, CallType
  <2> QED
    BY <1>0, <1>1, <2>1 DEF Taken
<1>13. ASSUME Switch \/ Tick \/ UNCHANGED vars PROVE EntriesAreHonest'
  <2>1. UNCHANGED <<rq, accepted, entries, stage, call>>
    BY <1>13 DEF Switch, Tick, vars
  <2> QED
    BY <1>0, <1>1, <2>1 DEF Taken
<1>14. ASSUME Restart PROVE EntriesAreHonest'
  <2>1. /\ UNCHANGED <<rq, accepted>>
        /\ \A k \in CacheKeys : entries'[k] = NoEntry
        /\ \A d \in Requests : call'[d].reply = NoReply
    BY <1>14 DEF Restart, NoEntries, ClockAndAlgod, Idle, Requests
  <2> QED
    BY <1>1, <2>1 DEF Taken, NoReply, Success
<1> QED
  BY <1>3, <1>4, <1>5, <1>6, <1>8, <1>9, <1>10, <1>11, <1>12, <1>13, <1>14
  DEF Next, Arrive, Turn, Environment

-----------------------------------------------------------------------------
(* Every step keeps entries and acknowledgements together.                 *)

\* Every action leaves an entry wherever an acknowledgement is recent.
LEMMA MatchStep ==
  TypeOK /\ EntriesMatchAcknowledgements /\ [Next]_vars => EntriesMatchAcknowledgements'
<1> SUFFICES ASSUME TypeOK, EntriesMatchAcknowledgements, [Next]_vars, NEW k \in CacheKeys
             PROVE  /\ ackedAt'[k] <= now'
                    /\ RecentlyAcknowledged(k)' => entries'[k] # NoEntry
                    /\ entries'[k] # NoEntry => entries'[k].expiresAt = ackedAt'[k] + TtlMs
  BY DEF EntriesMatchAcknowledgements
<1> DEFINE Matches == /\ ackedAt'[k] <= now'
                      /\ RecentlyAcknowledged(k)' => entries'[k] # NoEntry
                      /\ entries'[k] # NoEntry => entries'[k].expiresAt = ackedAt'[k] + TtlMs
<1>0. /\ EntriesType /\ now \in Nat /\ rq \in [Requests -> Request]
      /\ ackedAt \in [CacheKeys -> Int] /\ ackedAt[k] \in Int /\ TtlMs \in Nat
      /\ ackedAt[k] <= now
      /\ now <= ackedAt[k] + TtlMs => entries[k] # NoEntry
      /\ entries[k] # NoEntry => entries[k].expiresAt = ackedAt[k] + TtlMs
  BY Constants DEF TypeOK, EntriesMatchAcknowledgements, RecentlyAcknowledged
\* An entry may go once it has expired; it has when its acknowledgement is old.
<1>1. ASSUME now' = now, ackedAt'[k] = ackedAt[k],
             \/ entries'[k] = entries[k]
             \/ entries'[k] = NoEntry /\ ~Live(entries[k], now)
      PROVE  Matches
  BY <1>0, <1>1 DEF RecentlyAcknowledged, Live, Expired
<1>2. ASSUME NEW c \in Requests, Admit(c) PROVE Matches
  <2>1. PassesLookup(c) /\ UNCHANGED <<now, ackedAt>>
    BY <1>2 DEF Admit, AdmitVerified, AdmitUnverified, Post, ClockAndAlgod
  <2> QED
    BY <1>0, <1>1, <2>1, MissKeepsLive DEF PassesLookup
<1>3. ASSUME NEW c \in Requests, Acknowledge(c) PROVE Matches
  <2>1. now' = now
    BY <1>3 DEF Acknowledge, ClockAndAlgod
  <2>2. CASE rq[c].kind # "submit" \/ KeyOf(c) \notin CacheKeys
    <3>1. UNCHANGED <<entries, ackedAt>>
      BY <1>0, <1>3, <2>2, KeyOfKeyed DEF Acknowledge, AfterSet
    <3> QED
      BY <1>1, <2>1, <3>1
  <2>3. CASE rq[c].kind = "submit" /\ KeyOf(c) \in CacheKeys
    <3>1. /\ entries' = AfterSet(KeyOf(c), rq[c].body, c, now)
          /\ ackedAt' = [ackedAt EXCEPT ![KeyOf(c)] = now]
      BY <1>0, <1>3, <2>3, KeyOfKeyed DEF Acknowledge
    <3>2. rq[c].body \in Bodies /\ c \in Responses
      BY <1>0, SubmitAssumption DEF SubmitAssumption, Request
    <3>3. CASE k = KeyOf(c)
      <4>1. entries'[k] = NewEntry(rq[c].body, c, now) /\ entries'[k] # NoEntry
        BY <1>0, <2>3, <3>1, <3>2, <3>3, SetKeepsLive
      <4>2. entries'[k].expiresAt = now + TtlMs
        BY <4>1 DEF NewEntry
      <4> QED
        BY <1>0, <2>1, <3>1, <3>3, <4>1, <4>2
    <3>4. CASE k # KeyOf(c)
      BY <1>0, <1>1, <2>1, <2>3, <3>1, <3>2, <3>4, SetKeepsLive
    <3> QED
      BY <3>3, <3>4
  <2> QED
    BY <2>2, <2>3
<1>4. ASSUME Tick PROVE Matches
  <2>1. now' = now + 1 /\ UNCHANGED <<entries, ackedAt>>
    BY <1>4 DEF Tick
  <2> QED
    BY <1>0, <2>1 DEF RecentlyAcknowledged
<1>5. ASSUME Restart PROVE Matches
  <2>1. now' = now /\ entries'[k] = NoEntry /\ ackedAt'[k] = - (TtlMs + 1)
    BY <1>5 DEF Restart, ClockAndAlgod, NoEntries, Never
  <2> QED
    BY <1>0, <2>1 DEF RecentlyAcknowledged
<1>6. ASSUME UNCHANGED <<now, entries, ackedAt>> PROVE Matches
  BY <1>1, <1>6
<1>7. ASSUME NEW c \in Requests,
             \/ Reject(c) \/ KeyConflict(c) \/ Replay(c) \/ Wait(c) \/ Retry(c)
             \/ UpstreamFails(c) \/ VerifySucceeds(c) \/ VerifyRefuses(c) \/ Environment(c)
      PROVE  Matches
  BY <1>6, <1>7
  DEF Reject, KeyConflict, Replay, Wait, Retry, UpstreamFails, VerifySucceeds,
      VerifyRefuses, Environment, AlgodAccepts, ParamsArrive, PostReplyArrives, Post,
      Abandon, ClockAndAlgod
<1>8. ASSUME Switch \/ UNCHANGED vars PROVE Matches
  BY <1>6, <1>8 DEF Switch, vars
<1> QED
  BY <1>2, <1>3, <1>4, <1>5, <1>7, <1>8 DEF Next, Arrive, Turn

-----------------------------------------------------------------------------
(* Every step keeps acknowledgements honest.                               *)

\* Every action that answers 202 answers for an accepted submission of that kind.
LEMMA HonestStep ==
  TypeOK /\ EntriesAreHonest /\ HonestAcknowledgement /\ [Next]_vars
    => HonestAcknowledgement'
<1> SUFFICES ASSUME TypeOK, EntriesAreHonest, HonestAcknowledgement, [Next]_vars
             PROVE  HonestAcknowledgement'
  OBVIOUS
<1>0. /\ EntriesType /\ rq \in [Requests -> Request]
      /\ answer \in [Requests -> [status : 0..599, of : Requests \union {NoEntry}]]
  BY DEF TypeOK
<1>1. ASSUME NEW c \in Requests, rq' = rq, accepted \subseteq accepted',
             \A d \in Requests \ {c} : answer'[d] = answer[d],
             answer'[c].status = 202 => answer'[c].of \in accepted
                                        /\ rq[answer'[c].of] = rq[c]
      PROVE  HonestAcknowledgement'
  BY <1>1 DEF HonestAcknowledgement
<1>2. ASSUME UNCHANGED <<rq, answer>>, accepted \subseteq accepted'
      PROVE  HonestAcknowledgement'
  BY <1>2 DEF HonestAcknowledgement
<1>3. ASSUME NEW c \in Requests, NEW s, s # 202, Answered(c, Failure(s)),
             accepted' = accepted
      PROVE  HonestAcknowledgement'
  BY <1>0, <1>1, <1>3 DEF Answered, Failure
<1>4. ASSUME NEW c \in Requests, Reject(c) PROVE HonestAcknowledgement'
  <2>1. Verdict[rq[c].body] # 202
    BY <1>0, SubmitAssumption DEF SubmitAssumption, Request
  <2> QED
    BY <1>3, <1>4, <2>1 DEF Reject, ClockAndAlgod
<1>5. ASSUME NEW c \in Requests, KeyConflict(c) PROVE HonestAcknowledgement'
  BY <1>3, <1>5 DEF KeyConflict, ClockAndAlgod
\* A replay hands out what the entry holds.
<1>6. ASSUME NEW c \in Requests, Replay(c) PROVE HonestAcknowledgement'
  <2> DEFINE entry == entries[KeyOf(c)]
  <2>1. /\ KeyOf(c) \in CacheKeys /\ entry # NoEntry
        /\ entry.fingerprint = rq[c].body /\ rq[c].kind = "submit"
        /\ answer' = [answer EXCEPT ![c] = [status |-> 202, of |-> entry.response]]
        /\ UNCHANGED <<rq, accepted>>
    BY <1>6 DEF Replay, Hit, Live, Answered, ClockAndAlgod
  <2>2. /\ entry.response \in accepted
        /\ rq[entry.response] = [kind |-> "submit", principal |-> KeyOf(c)[1],
                                 key |-> KeyOf(c)[2], body |-> rq[c].body]
    BY <2>1 DEF EntriesAreHonest
  <2>3. rq[entry.response] = rq[c]
    BY <1>0, <2>1, <2>2, KeyOfKeyed
  <2> HIDE DEF entry
  <2> QED
    BY <1>0, <1>1, <2>1, <2>2, <2>3
<1>7. ASSUME NEW c \in Requests, UpstreamFails(c) PROVE HonestAcknowledgement'
  <2>1. PICK s \in FetchOutcomes : Throws(c, s) /\ Abandon(c, ErrorStatus(s))
    BY <1>7 DEF UpstreamFails
  <2>2. ErrorStatus(s) # 202
    BY <2>1, ErrorIsNoSuccess DEF Throws
  <2> QED
    BY <1>3, <2>1, <2>2 DEF Abandon, ClockAndAlgod
<1>8. ASSUME NEW c \in Requests, VerifyRefuses(c) PROVE HonestAcknowledgement'
  <2>1. NetworkMismatch # 202 /\ InternalError # 202
    BY DEF NetworkMismatch, InternalError
  <2> QED
    BY <1>3, <1>8, <2>1 DEF VerifyRefuses, Abandon, ClockAndAlgod
\* A fresh acknowledgement is of a POST that algod has answered with a success.
<1>9. ASSUME NEW c \in Requests, Acknowledge(c) PROVE HonestAcknowledgement'
  <2>1. /\ UNCHANGED <<rq, accepted>>
        /\ stage[c] = "posting" /\ \E s \in FetchOutcomes : Returns(c, s)
    BY <1>9 DEF Acknowledge, Answered, ClockAndAlgod
  <2>2. CASE rq[c].kind = "submit"
    <3>1. answer' = [answer EXCEPT ![c] = [status |-> 202, of |-> c]]
      BY <1>9, <2>2 DEF Acknowledge, Answered
    <3>2. c \in accepted
      BY <2>1, <2>2, ReturnsAnswer DEF EntriesAreHonest
    <3> QED
      BY <1>0, <1>1, <2>1, <3>1, <3>2
  <2>3. CASE rq[c].kind # "submit"
    <3>1. answer' = [answer EXCEPT ![c] = [status |-> 200, of |-> c]]
      BY <1>9, <2>3 DEF Acknowledge, Answered
    <3> QED
      BY <1>0, <1>1, <2>1, <3>1
  <2> QED
    BY <2>2, <2>3
<1>10. ASSUME NEW c \in Requests,
              \/ Admit(c) \/ Wait(c) \/ Retry(c) \/ VerifySucceeds(c) \/ Environment(c)
       PROVE  HonestAcknowledgement'
  BY <1>2, <1>10
  DEF Admit, AdmitVerified, AdmitUnverified, Wait, Retry, VerifySucceeds, Environment,
      AlgodAccepts, ParamsArrive, PostReplyArrives, Post, ClockAndAlgod
<1>11. ASSUME Switch \/ Tick \/ Restart \/ UNCHANGED vars PROVE HonestAcknowledgement'
  BY <1>2, <1>11 DEF Switch, Tick, Restart, vars, ClockAndAlgod
<1> QED
  BY <1>4, <1>5, <1>6, <1>7, <1>8, <1>9, <1>10, <1>11 DEF Next, Arrive, Turn

-----------------------------------------------------------------------------
(* The theorems.                                                           *)

\* The invariant is inductive.
LEMMA StepIInv == IInv /\ [Next]_vars => IInv'
BY TypeStep, CallStep, RecentStep, HonestEntriesStep, MatchStep, HonestStep DEF IInv

\* The inductive invariant holds in every behaviour.
THEOREM Invariance == Spec => []IInv
BY InitIInv, StepIInv, PTL DEF Spec

\* The state keeps its types, whatever the workload and the configuration.
THEOREM TypeCorrect == Spec => []TypeOK
<1>1. IInv => TypeOK
  BY DEF IInv
<1> QED
  BY <1>1, Invariance, PTL

\* A 202 is only ever given for a submission that algod took and that the same
\* principal sent with the same key and body (submitTransaction with the cache).
THEOREM Honesty == Spec => []HonestAcknowledgement
<1>1. IInv => HonestAcknowledgement
  BY DEF IInv
<1> QED
  BY <1>1, Invariance, PTL

\* A submission is never sent to algod twice for one client request.
THEOREM AtMostOneBroadcast == Spec => []OneBroadcastPerRequest
<1>1. IInv => OneBroadcastPerRequest
  BY DEF IInv, CallMatchesStage, CallFits, OneBroadcastPerRequest
<1> QED
  BY <1>1, Invariance, PTL

\* What the lookup decides about a key agrees with what was acknowledged.
THEOREM Lookup == Spec => LookupTellsTruth
<1> DEFINE Truth(c) ==
      /\ Keyed(c) /\ Verdict[rq[c].body] = 0
      /\ stage[c] = "arriving" /\ stage'[c] # "arriving"
      => (stage'[c] = "answered" <=> RecentlyAcknowledged(KeyOf(c)))
<1>1. ASSUME IInv, [Next]_vars, NEW c \in Requests PROVE Truth(c)
  <2> SUFFICES ASSUME Keyed(c), Verdict[rq[c].body] = 0,
                      stage[c] = "arriving", stage'[c] # "arriving"
               PROVE  stage'[c] = "answered" <=> RecentlyAcknowledged(KeyOf(c))
    OBVIOUS
  <2>0. /\ rq \in [Requests -> Request] /\ stage \in [Requests -> Stages]
        /\ now \in Nat /\ ackedAt \in [CacheKeys -> Int]
        /\ KeyOf(c) \in CacheKeys /\ rq[c].kind = "submit"
    BY <1>1, KeyOfKeyed DEF IInv, TypeOK, Keyed
  <2>1. RecentlyAcknowledged(KeyOf(c)) <=> Live(entries[KeyOf(c)], now)
    BY <1>1, <2>0, Constants
    DEF IInv, EntriesMatchAcknowledgements, RecentlyAcknowledged, Live, Expired
  <2>2. ASSUME NEW d \in Requests, d # c, Arrive(d) \/ Turn(d) \/ Environment(d)
        PROVE  stage'[c] = stage[c]
    BY <2>0, <2>2
    DEF Arrive, Reject, KeyConflict, Replay, Admit, AdmitVerified, AdmitUnverified, Post,
        Turn, Wait, Retry, UpstreamFails, VerifyRefuses, VerifySucceeds, Acknowledge,
        Abandon, Answered, Environment, AlgodAccepts, ParamsArrive, PostReplyArrives
  <2>3. ASSUME Tick \/ Switch \/ Restart \/ UNCHANGED vars PROVE stage'[c] = stage[c]
    BY <2>0, <2>3 DEF Tick, Switch, Restart, Active, vars
  <2>4. ASSUME Turn(c) \/ Environment(c) PROVE stage'[c] = stage[c]
    <3>1. call[c].phase = "idle"
      BY <1>1 DEF IInv, CallMatchesStage, CallFits, Active
    <3> QED
      BY <2>4, <3>1
      DEF Turn, Wait, BackOff, Retry, Resend, UpstreamFails, Throws, VerifyRefuses,
          VerifySucceeds, Returns, FetchSettles, Acknowledge, Environment, AlgodAccepts,
          ParamsArrive, PostReplyArrives
  <2>5. Arrive(c)
    BY <1>1, <2>2, <2>3, <2>4 DEF Next
  <2>6. CASE KeyConflict(c) \/ Replay(c)
    BY <2>0, <2>1, <2>6 DEF KeyConflict, Replay, Conflict, Hit, Answered
  <2>7. CASE Admit(c)
    <3>1. ~Live(entries[KeyOf(c)], now)
      BY <2>0, <2>7 DEF Admit, AdmitVerified, AdmitUnverified, PassesLookup, Miss
    <3>2. stage'[c] \in {"verifying", "posting"}
      BY <2>0, <2>7 DEF Admit, AdmitVerified, AdmitUnverified, Post
    <3> QED
      BY <2>1, <3>1, <3>2
  <2> QED
    BY <2>5, <2>6, <2>7 DEF Arrive, Reject
<1>2. IInv /\ [Next]_vars => [\A c \in Requests : Truth(c)]_vars
  BY <1>1
<1> QED
  BY <1>2, Invariance, PTL DEF Spec, LookupTellsTruth

\* No POST leaves for an algod that was not MainNet within VerifyTtlMs + TimeoutMs.
THEOREM Mainnet == Spec => ForwardedToMainnet
<1> DEFINE Recent(c) ==
      EnforceMainnet /\ posts'[c] > posts[c] =>
        now <= lastMainnet + TimeoutMs + VerifyTtlMs
<1>1. ASSUME IInv, [Next]_vars, NEW c \in Requests PROVE Recent(c)
  <2> SUFFICES ASSUME EnforceMainnet, posts'[c] > posts[c]
               PROVE  now <= lastMainnet + TimeoutMs + VerifyTtlMs
    OBVIOUS
  <2>0. /\ posts \in [Requests -> Nat] /\ now \in Nat /\ lastMainnet \in Nat
        /\ networkCache \in Nat
        /\ call \in [Requests -> CallType]
        /\ networkCache <= lastMainnet + TimeoutMs + VerifyTtlMs
        /\ TimeoutMs \in Nat /\ VerifyTtlMs \in Nat
    BY <1>1, Constants DEF IInv, TypeOK, NetworkType, VerificationIsRecent, Requests
  <2>1. ASSUME UNCHANGED posts PROVE FALSE
    BY <2>0, <2>1
  <2>2. PICK d \in Requests : Admit(d) \/ Retry(d) \/ VerifySucceeds(d)
    BY <1>1, <2>1
    DEF Next, Arrive, Reject, KeyConflict, Replay, Turn, Wait, UpstreamFails,
        VerifyRefuses, Abandon, Acknowledge, Environment, AlgodAccepts, ParamsArrive,
        PostReplyArrives, Switch, Tick, Restart, vars
  <2>3. CASE Admit(d)
    <3>1. CacheFresh
      BY <2>1, <2>3 DEF Admit, AdmitVerified, AdmitUnverified, VerifiedAlready
    <3> QED
      BY <2>0, <3>1 DEF CacheFresh
  <2>4. CASE Retry(d)
    <3>1. stage[d] # "posting"
      BY <1>1, <2>0, <2>4, Constants
      DEF IInv, CallMatchesStage, CallFits, MaxAttempts, Retry, Resend, CallType
    <3> QED
      BY <2>0, <2>1, <2>4, <3>1 DEF Retry
  <2>5. CASE VerifySucceeds(d)
    <3>1. call[d].phase = "inflight" /\ call[d].timer <= lastMainnet + TimeoutMs
      BY <1>1, <2>5
      DEF IInv, VerificationIsRecent, VerifySucceeds, GenesisMatches
    <3>2. now <= call[d].timer /\ call[d].timer \in Nat
      BY <1>1, <2>0, <3>1 DEF IInv, CallMatchesStage, CallFits, CallType
    <3> QED
      BY <2>0, <3>1, <3>2
  <2> QED
    BY <2>2, <2>3, <2>4, <2>5
<1>2. IInv /\ [Next]_vars => [\A c \in Requests : Recent(c)]_vars
  BY <1>1
<1> QED
  BY <1>2, Invariance, PTL DEF Spec, ForwardedToMainnet

\* A map that `set` leaves larger than MaxEntries holds no expired entry.
THEOREM Overgrown == Spec => OvergrownMapIsLive
<1> DEFINE Clean(k) ==
      /\ entries'[k] # entries[k] /\ entries'[k] # NoEntry
      /\ Size(entries') > MaxEntries
      => \A j \in CacheKeys : entries'[j] # NoEntry => Live(entries'[j], now)
<1>1. ASSUME IInv, [Next]_vars, NEW k \in CacheKeys PROVE Clean(k)
  <2> SUFFICES ASSUME entries'[k] # entries[k], entries'[k] # NoEntry,
                      Size(entries') > MaxEntries,
                      NEW j \in CacheKeys, entries'[j] # NoEntry
               PROVE  Live(entries'[j], now)
    OBVIOUS
  <2>0. EntriesType
    BY <1>1 DEF IInv, TypeOK
  <2>1. ~Restart
    BY DEF Restart, NoEntries
  <2>2. ASSUME NEW c \in Requests, Admit(c) PROVE FALSE
    <3>1. PassesLookup(c)
      BY <2>2 DEF Admit, AdmitVerified, AdmitUnverified
    <3> QED
      BY <2>0, <3>1, MissKeepsLive DEF PassesLookup
  <2>3. PICK c \in Requests : Acknowledge(c)
    BY <1>1, <2>1, <2>2
    DEF Next, Arrive, Reject, KeyConflict, Replay, Turn, Wait, Retry, UpstreamFails,
        VerifySucceeds, VerifyRefuses, Abandon, Post, Environment, AlgodAccepts,
        ParamsArrive, PostReplyArrives, Switch, Tick, vars
  <2>4. entries' = AfterSet(KeyOf(c), rq[c].body, c, now) /\ KeyOf(c) \in CacheKeys
    BY <2>3 DEF Acknowledge, AfterSet
  <2> DEFINE entry == [fingerprint |-> rq[c].body, response |-> c,
                       expiresAt |-> now + TtlMs]
             map == [entries EXCEPT ![KeyOf(c)] = entry]
  <2>5. entries' = IF Size(map) > MaxEntries THEN Cleanup(map, now) ELSE map
    BY <2>4 DEF AfterSet
  <2> HIDE DEF map
  <2>6. entries' = Cleanup(map, now)
    BY <2>5
  <2> QED
    BY <2>6 DEF Cleanup
<1>2. IInv /\ [Next]_vars => [\A k \in CacheKeys : Clean(k)]_vars
  BY <1>1
<1> QED
  BY <1>2, Invariance, PTL DEF Spec, OvergrownMapIsLive

-----------------------------------------------------------------------------
(***************************************************************************)
(* The refinement: submissions implement a register per Idempotency-Key    *)
(* (IdempotentSubmission), for every workload, TTL and size of the map:    *)
(* lazy deletion, cleanup and overwriting do not show, and what is         *)
(* suspended between the lookup and the store of an answer does no harm    *)
(* that the register does not allow.                                       *)
(***************************************************************************)

-----------------------------------------------------------------------------
(* What the register's variables are, request by request and key by key.   *)

\* The states of the register, stage by stage.
LEMMA StateOfStage ==
  /\ StateAt("arriving") = "new"
  /\ StateAt("verifying") = "forwarding" /\ StateAt("posting") = "forwarding"
  /\ StateAt("answered") = "done" /\ StateAt("lost") = "lost"
BY DEF StateAt

\* A turn that changes the stage of one handler changes the state of one request.
LEMMA StateMoves ==
  ASSUME stage \in [Requests -> Stages], NEW c \in Requests, NEW st,
         stage' = [stage EXCEPT ![c] = st]
  PROVE  State' = [State EXCEPT ![c] = StateAt(st)] /\ State[c] = StateAt(stage[c])
<1>1. \A d \in Requests : StateAt(stage'[d]) =
                            IF d = c THEN StateAt(st) ELSE StateAt(stage[d])
  OBVIOUS
<1> QED
  BY <1>1 DEF State

\* An answered request is done.
LEMMA AnsweredState ==
  ASSUME stage \in [Requests -> Stages], NEW c \in Requests,
         stage' = [stage EXCEPT ![c] = "answered"]
  PROVE  State' = [State EXCEPT ![c] = "done"]
<1>1. State' = [State EXCEPT ![c] = StateAt("answered")]
  BY StateMoves
<1> QED
  BY <1>1, StateOfStage

\* A request whose handler is suspended on algod is being forwarded.
LEMMA SuspendedState ==
  ASSUME stage \in [Requests -> Stages], NEW c \in Requests,
         NEW st \in {"verifying", "posting"}, stage' = [stage EXCEPT ![c] = st]
  PROVE  State' = [State EXCEPT ![c] = "forwarding"]
<1>1. State' = [State EXCEPT ![c] = StateAt(st)]
  BY StateMoves
<1>2. StateAt(st) = "forwarding"
  BY StateOfStage
<1> QED
  BY <1>1, <1>2

\* A request that has a key has a scope of the register, the others have none.
LEMMA ScopeOfRequest ==
  ASSUME TypeOK, NEW c \in Requests
  PROVE  /\ Asked[c].body = rq[c].body
         /\ Keyed(c) => Asked[c].scope = KeyOf(c) /\ KeyOf(c) \in CacheKeys
                        /\ KeyOf(c) # NoScope
         /\ ~Keyed(c) => Asked[c].scope = NoScope
<1>1. ASSUME Keyed(c) PROVE KeyOf(c) \in CacheKeys
  BY <1>1, KeyOfKeyed DEF Keyed, TypeOK
<1>2. \A k \in CacheKeys : k # NoScope
  BY NoEntryAssumption DEF NoEntryAssumption, CacheKeys, NoScope
<1> QED
  BY <1>1, <1>2 DEF Asked

\* The register of a key holds what its live entry holds.
LEMMA RecordOfEntry ==
  ASSUME NEW k \in CacheKeys
  PROVE  /\ Live(entries[k], now) => Record[k] = entries[k].response
         /\ ~Live(entries[k], now) => Record[k] = NoEntry
BY DEF Record

\* An entry dropped from the map once it has expired leaves no trace.
LEMMA DroppedEntry ==
  ASSUME NEW k \in CacheKeys, now' = now,
         \/ entries'[k] = entries[k]
         \/ entries'[k] = NoEntry /\ ~Live(entries[k], now)
  PROVE  Record'[k] = Record[k]
BY DEF Record, Live, Expired

\* A handler that has not answered has acknowledged nothing.
Unanswered == \A c \in Requests : stage[c] # "answered" => answer[c].of = NoEntry

RegInv == IInv /\ Unanswered

-----------------------------------------------------------------------------
(* The invariant.                                                          *)

\* Every step keeps the handlers that have not answered so.
LEMMA UnansweredStep == TypeOK /\ Unanswered /\ [Next]_vars => Unanswered'
<1> SUFFICES ASSUME TypeOK, Unanswered, [Next]_vars, NEW d \in Requests,
                    stage'[d] # "answered"
             PROVE  answer'[d].of = NoEntry
  BY DEF Unanswered
<1>1. /\ stage \in [Requests -> Stages]
      /\ stage[d] # "answered" => answer[d].of = NoEntry
      /\ answer \in [Requests -> [status : 0..599, of : Requests \union {NoEntry}]]
  BY DEF TypeOK, Unanswered
<1>2. ASSUME NEW c \in Requests, NEW a, Answered(c, a) PROVE answer'[d].of = NoEntry
  <2>1. CASE d = c
    BY <1>1, <1>2, <2>1 DEF Answered
  <2>2. CASE d # c
    <3>1. answer'[d] = answer[d] /\ stage'[d] = stage[d]
      BY <1>1, <1>2, <2>2 DEF Answered
    <3> QED
      BY <1>1, <3>1
  <2> QED
    BY <2>1, <2>2
<1>3. ASSUME NEW c \in Requests,
             Reject(c) \/ KeyConflict(c) \/ Replay(c) \/ UpstreamFails(c)
               \/ VerifyRefuses(c) \/ Acknowledge(c)
      PROVE  answer'[d].of = NoEntry
  BY <1>2, <1>3, Zenon
  DEF Reject, KeyConflict, Replay, UpstreamFails, VerifyRefuses, Abandon, Acknowledge
<1>4. ASSUME answer' = answer, stage[d] = "answered" => stage'[d] = "answered"
      PROVE  answer'[d].of = NoEntry
  BY <1>1, <1>4
<1>5. ASSUME NEW c \in Requests, AdmitVerified(c) PROVE answer'[d].of = NoEntry
  BY <1>1, <1>4, <1>5 DEF AdmitVerified, PassesLookup, Admissible, Arrives, Post
<1>6. ASSUME NEW c \in Requests, AdmitUnverified(c) PROVE answer'[d].of = NoEntry
  BY <1>1, <1>4, <1>6 DEF AdmitUnverified, PassesLookup, Admissible, Arrives
<1>7. ASSUME NEW c \in Requests, VerifySucceeds(c) PROVE answer'[d].of = NoEntry
  BY <1>1, <1>4, <1>7 DEF VerifySucceeds, Post
<1>8. ASSUME NEW c \in Requests, Wait(c) \/ Retry(c) \/ Environment(c)
      PROVE  answer'[d].of = NoEntry
  BY <1>4, <1>8 DEF Wait, Retry, Environment, AlgodAccepts, ParamsArrive, PostReplyArrives
<1>9. CASE Tick \/ Switch \/ UNCHANGED vars
  BY <1>4, <1>9 DEF Tick, Switch, vars
<1>10. CASE Restart
  BY <1>1, <1>4, <1>10 DEF Restart, Active
<1> QED
  BY <1>3, <1>5, <1>6, <1>7, <1>8, <1>9, <1>10 DEF Next, Arrive, Turn, Admit

\* Every state satisfies the invariant.
LEMMA RegInvariance == Spec => []RegInv
<1>1. Init => Unanswered
  BY DEF Init, Unanswered, NoAnswer
<1>2. IInv /\ Unanswered /\ [Next]_vars => Unanswered'
  BY UnansweredStep DEF IInv
<1> QED
  BY <1>1, <1>2, InitIInv, StepIInv, PTL DEF Spec, RegInv

-----------------------------------------------------------------------------
(* Steps of one request, as steps of the register.                         *)

\* A request that is answered with an error is refused.
LEMMA RefuseRefines ==
  ASSUME RegInv, NEW c \in Requests, NEW s, Answered(c, Failure(s)),
         stage[c] \in {"arriving", "verifying", "posting"},
         UNCHANGED <<now, entries>>
  PROVE  Register!Refuse(c)
<1>1. /\ stage \in [Requests -> Stages]
      /\ answer \in [Requests -> [status : 0..599, of : Requests \union {NoEntry}]]
      /\ answer[c].of = NoEntry
  BY DEF RegInv, IInv, TypeOK, Unanswered
<1>2. State[c] \in {"new", "forwarding"}
  BY StateOfStage DEF State
<1>3. State' = [State EXCEPT ![c] = "done"]
  BY <1>1, AnsweredState DEF Answered
<1>4. Given' = Given
  BY <1>1 DEF Given, Answered, Failure
<1>5. Asked' = Asked /\ Record' = Record
  BY DEF Asked, Record, Answered, Keyed, KeyOf
<1> QED
  BY <1>2, <1>3, <1>4, <1>5 DEF Register!Refuse

\* A replay is one of the register: the entry's submission is the same request.
LEMMA ReplayRefines ==
  ASSUME RegInv, NEW c \in Requests, Replay(c)
  PROVE  Register!Replay(c)
<1> DEFINE d == entries[KeyOf(c)].response
<1>1. /\ stage \in [Requests -> Stages]
      /\ answer \in [Requests -> [status : 0..599, of : Requests \union {NoEntry}]]
      /\ rq \in [Requests -> Request]
      /\ entries \in [CacheKeys -> Entry \union {NoEntry}]
      /\ TypeOK
  BY DEF RegInv, IInv, TypeOK, EntriesType
<1>2. /\ stage[c] = "arriving" /\ rq[c].kind = "submit"
      /\ KeyOf(c) \in CacheKeys /\ Live(entries[KeyOf(c)], now)
      /\ entries[KeyOf(c)].fingerprint = rq[c].body
      /\ Answered(c, [status |-> 202, of |-> d])
      /\ UNCHANGED <<now, entries>>
  BY DEF Replay, Admissible, Arrives, Hit, ClockAndAlgod
<1>3. entries[KeyOf(c)] \in Entry /\ entries[KeyOf(c)] # NoEntry
  BY <1>1, <1>2 DEF Live
<1>4. d \in Requests /\ d # NoEntry
  BY <1>3, SubmitAssumption, NoEntryAssumption
  DEF Entry, SubmitAssumption, NoEntryAssumption
<1>5. rq[d] = rq[c]
  <2>1. rq[d] = [kind |-> "submit", principal |-> KeyOf(c)[1], key |-> KeyOf(c)[2],
                 body |-> rq[c].body]
    BY <1>2, <1>3 DEF RegInv, IInv, EntriesAreHonest
  <2> QED
    BY <1>1, <1>2, <2>1, KeyOfKeyed
<1>6. Keyed(c)
  BY <1>1, <1>2, KeyOfKeyed
<1>7. Asked[c].scope = KeyOf(c) /\ Asked[c].scope # NoScope /\ Record[KeyOf(c)] = d
  BY <1>1, <1>2, <1>6, ScopeOfRequest, RecordOfEntry
<1>8. Asked[d] = Asked[c]
  BY <1>4, <1>5 DEF Asked, Keyed, KeyOf
<1> HIDE DEF d
<1>9. State[c] = "new" /\ State' = [State EXCEPT ![c] = "done"]
  <2>1. State[c] = "new"
    BY <1>2, StateOfStage DEF State
  <2> QED
    BY <1>1, <1>2, <2>1, AnsweredState DEF Answered
<1>10. Given' = [Given EXCEPT ![c] = d]
  <2>1. \A e \in Requests : answer'[e].of = IF e = c THEN d ELSE answer[e].of
    BY <1>1, <1>2 DEF Answered
  <2> QED
    BY <2>1 DEF Given
<1>11. Asked' = Asked /\ Record' = Record
  BY <1>2 DEF Asked, Record, Answered, Keyed, KeyOf
<1> QED
  BY <1>4, <1>7, <1>8, <1>9, <1>10, <1>11 DEF Register!Replay

\* A request is forwarded only when the register of its key is empty.
LEMMA AdmitRefines ==
  ASSUME RegInv, NEW c \in Requests, Admit(c)
  PROVE  Register!Forward(c)
<1>1. /\ TypeOK /\ EntriesType
      /\ stage \in [Requests -> Stages]
      /\ rq \in [Requests -> Request]
  BY DEF RegInv, IInv, TypeOK
<1>2. /\ stage[c] = "arriving" /\ PassesLookup(c)
      /\ \E st \in {"verifying", "posting"} : stage' = [stage EXCEPT ![c] = st]
      /\ UNCHANGED <<now, rq, answer>>
  BY DEF Admit, AdmitVerified, AdmitUnverified, PassesLookup, Admissible, Arrives, Post,
         ClockAndAlgod
<1>3. State[c] = "new" /\ State' = [State EXCEPT ![c] = "forwarding"]
  <2>1. State[c] = "new"
    BY <1>2, StateOfStage DEF State
  <2> QED
    BY <1>1, <1>2, <2>1, SuspendedState
<1>4. Asked[c].scope # NoScope => Record[Asked[c].scope] = NoEntry
  <2> SUFFICES ASSUME Asked[c].scope # NoScope
               PROVE  Record[Asked[c].scope] = NoEntry
    OBVIOUS
  <2>1. Keyed(c) /\ Asked[c].scope = KeyOf(c) /\ KeyOf(c) \in CacheKeys
    BY <1>1, ScopeOfRequest
  <2>2. ~Live(entries[KeyOf(c)], now)
    BY <1>2, <2>1 DEF PassesLookup, Miss, Keyed
  <2> QED
    BY <2>1, <2>2, RecordOfEntry
<1>5. \A k \in CacheKeys : Record'[k] = Record[k]
  <2> SUFFICES ASSUME NEW k \in CacheKeys PROVE Record'[k] = Record[k]
    OBVIOUS
  <2>1. \/ entries'[k] = entries[k]
        \/ entries'[k] = NoEntry /\ ~Live(entries[k], now)
    BY <1>1, <1>2, MissKeepsLive DEF PassesLookup
  <2> QED
    BY <1>2, <2>1, DroppedEntry
<1>6. Record' = Record
  BY <1>5 DEF Record
<1>7. Asked' = Asked /\ Given' = Given
  BY <1>2 DEF Asked, Given, Keyed, KeyOf
<1> QED
  BY <1>3, <1>4, <1>6, <1>7 DEF Register!Forward

\* An acknowledgement is one of the register, which then holds the request.
LEMMA AcknowledgeRefines ==
  ASSUME RegInv, NEW c \in Requests, Acknowledge(c)
  PROVE  Register!Acknowledge(c)
<1>1. /\ TypeOK /\ EntriesType /\ now \in Nat
      /\ stage \in [Requests -> Stages]
      /\ rq \in [Requests -> Request]
      /\ answer \in [Requests -> [status : 0..599, of : Requests \union {NoEntry}]]
  BY DEF RegInv, IInv, TypeOK
<1>2. /\ stage[c] = "posting" /\ now' = now /\ rq' = rq
      /\ \E n : answer' = [answer EXCEPT ![c] = [status |-> n, of |-> c]]
      /\ stage' = [stage EXCEPT ![c] = "answered"]
  BY DEF Acknowledge, Answered, ClockAndAlgod
<1>3. State[c] = "forwarding" /\ State' = [State EXCEPT ![c] = "done"]
  <2>1. State[c] = "forwarding"
    BY <1>2, StateOfStage DEF State
  <2> QED
    BY <1>1, <1>2, <2>1, AnsweredState
<1>4. Given' = [Given EXCEPT ![c] = c]
  <2>1. PICK n : answer' = [answer EXCEPT ![c] = [status |-> n, of |-> c]]
    BY <1>2
  <2>2. \A d \in Requests : answer'[d].of = IF d = c THEN c ELSE answer[d].of
    BY <1>1, <2>1
  <2> QED
    BY <2>2 DEF Given
<1>5. Asked' = Asked
  BY <1>2 DEF Asked, Keyed, KeyOf
<1>6. CASE ~Keyed(c)
  <2>1. entries' = entries
    BY <1>1, <1>6, KeyOfKeyed DEF Acknowledge, AfterSet
  <2>2. Record' = Record /\ Asked[c].scope = NoScope
    BY <1>1, <1>2, <1>6, <2>1, ScopeOfRequest DEF Record
  <2> QED
    BY <1>3, <1>4, <1>5, <2>2 DEF Register!Acknowledge
<1>7. CASE Keyed(c)
  <2> DEFINE k == KeyOf(c)
  <2>1. /\ Asked[c].scope = k /\ k \in CacheKeys /\ k # NoScope
        /\ entries' = AfterSet(k, rq[c].body, c, now)
    BY <1>1, <1>7, ScopeOfRequest DEF Acknowledge, Keyed
  <2>2. rq[c].body \in Bodies /\ c \in Responses
    BY <1>1, SubmitAssumption DEF SubmitAssumption, Request
  <2> HIDE DEF k
  <2>3. Record'[k] = c
    <3>1. entries'[k] = NewEntry(rq[c].body, c, now) /\ entries'[k] # NoEntry
      BY <1>1, <2>1, <2>2, SetKeepsLive
    <3>2. entries'[k].response = c /\ entries'[k].expiresAt = now + TtlMs
      BY <3>1 DEF NewEntry
    <3>3. Live(entries'[k], now)
      BY <1>1, <3>1, <3>2, Constants DEF Live, Expired
    <3> QED
      BY <1>2, <2>1, <3>2, <3>3 DEF Record
  <2>4. ASSUME NEW j \in CacheKeys \ {k} PROVE Record'[j] = Record[j]
    <3>1. \/ entries'[j] = entries[j]
          \/ entries'[j] = NoEntry /\ ~Live(entries[j], now)
      BY <1>1, <2>1, <2>2, SetKeepsLive
    <3> QED
      BY <1>2, <3>1, DroppedEntry
  <2>5. Record' = [Record EXCEPT ![k] = c]
    BY <2>1, <2>3, <2>4 DEF Record
  <2> QED
    BY <1>3, <1>4, <1>5, <2>1, <2>5 DEF Register!Acknowledge
<1> QED
  BY <1>6, <1>7

-----------------------------------------------------------------------------
(* Steps of the environment, as steps of the register.                     *)

\* Time only makes registers expire.
LEMMA TickRefines ==
  ASSUME RegInv, Tick
  PROVE  Register!Forget
<1> DEFINE kept == {k \in CacheKeys : Live(entries[k], now + 1)}
<1>1. now \in Nat /\ entries \in [CacheKeys -> Entry \union {NoEntry}]
  BY DEF RegInv, IInv, TypeOK, EntriesType
<1>2. now' = now + 1 /\ UNCHANGED <<entries, rq, stage, answer>>
  BY DEF Tick
<1>3. Record' = [k \in CacheKeys |-> IF k \in kept THEN Record[k] ELSE NoEntry]
  <2>1. ASSUME NEW k \in CacheKeys
        PROVE  Live(entries[k], now + 1) => Live(entries[k], now)
    BY <1>1, <2>1 DEF Live, Expired, Entry
  <2> QED
    BY <1>2, <2>1 DEF Record
<1>4. Asked' = Asked /\ State' = State /\ Given' = Given
  BY <1>2 DEF Asked, State, Given, Keyed, KeyOf
<1>5. kept \in SUBSET CacheKeys
  OBVIOUS
<1> HIDE DEF kept
<1>6. \E K \in SUBSET CacheKeys :
        Record' = [k \in CacheKeys |-> IF k \in K THEN Record[k] ELSE NoEntry]
  BY <1>3, <1>5
<1> QED
  BY <1>4, <1>6, Zenon DEF Register!Forget

\* A restart empties every register and loses what was being forwarded.
LEMMA RestartRefines ==
  ASSUME RegInv, Restart
  PROVE  Register!Forget
<1>1. stage \in [Requests -> Stages]
  BY DEF RegInv, IInv, TypeOK
<1>2. /\ entries' = NoEntries /\ UNCHANGED <<now, rq, answer>>
      /\ stage' = [c \in Requests |-> IF Active(c) THEN "lost" ELSE stage[c]]
  BY DEF Restart, ClockAndAlgod
<1>3. Record' = [k \in CacheKeys |-> NoEntry]
  BY <1>2 DEF Record, NoEntries, Live
<1>4. State' = [c \in Requests |-> IF State[c] = "forwarding" THEN "lost" ELSE State[c]]
  <2>1. ASSUME NEW c \in Requests
        PROVE  StateAt(stage'[c]) =
                 IF StateAt(stage[c]) = "forwarding" THEN "lost" ELSE StateAt(stage[c])
    BY <1>1, <1>2, StateOfStage DEF Active, Stages
  <2> QED
    BY <2>1 DEF State
<1>5. Asked' = Asked /\ Given' = Given
  BY <1>2 DEF Asked, Given, Keyed, KeyOf
<1>6. \E K \in SUBSET CacheKeys :
        Record' = [k \in CacheKeys |-> IF k \in K THEN Record[k] ELSE NoEntry]
  <2> WITNESS {} \in SUBSET CacheKeys
  <2> QED
    BY <1>3
<1> QED
  BY <1>3, <1>4, <1>5, <1>6, Zenon DEF Register!Forget

\* What happens while a handler is suspended does not show.
LEMMA SuspendedRefines ==
  ASSUME RegInv, NEW c \in Requests,
         Wait(c) \/ Retry(c) \/ VerifySucceeds(c) \/ Environment(c)
  PROVE  UNCHANGED Register!vars
<1>1. stage \in [Requests -> Stages]
  BY DEF RegInv, IInv, TypeOK
<1>2. UNCHANGED <<now, entries, rq, answer>>
  BY DEF Wait, Retry, VerifySucceeds, Environment, AlgodAccepts, ParamsArrive,
         PostReplyArrives, Post, ClockAndAlgod
<1>3. State' = State
  <2>1. CASE VerifySucceeds(c)
    <3>1. stage[c] = "verifying" /\ stage' = [stage EXCEPT ![c] = "posting"]
      BY <2>1 DEF VerifySucceeds, Post
    <3>2. \A d \in Requests : StateAt(stage'[d]) = StateAt(stage[d])
      BY <1>1, <3>1, StateOfStage
    <3> QED
      BY <3>2 DEF State
  <2>2. CASE Wait(c) \/ Retry(c) \/ Environment(c)
    <3>1. stage' = stage
      BY <2>2 DEF Wait, Retry, Environment, AlgodAccepts, ParamsArrive, PostReplyArrives
    <3> QED
      BY <3>1 DEF State
  <2> QED
    BY <2>1, <2>2
<1>4. Asked' = Asked /\ Record' = Record /\ Given' = Given
  BY <1>2 DEF Asked, Record, Given, Keyed, KeyOf
<1> QED
  BY <1>3, <1>4 DEF Register!vars

\* Nor does what algod does, or a step that changes nothing.
LEMMA SwitchRefines ==
  ASSUME Switch \/ UNCHANGED vars
  PROVE  UNCHANGED Register!vars
<1>1. UNCHANGED <<now, entries, rq, stage, answer>>
  BY DEF Switch, vars
<1> QED
  BY <1>1 DEF Register!vars, Asked, Record, State, Given, Keyed, KeyOf

-----------------------------------------------------------------------------
(* The theorem.                                                            *)

\* Every error of a handler is a refusal by the register.
LEMMA ErrorsRefine ==
  ASSUME RegInv, NEW c \in Requests,
         Reject(c) \/ KeyConflict(c) \/ UpstreamFails(c) \/ VerifyRefuses(c)
  PROVE  Register!Refuse(c)
<1>1. CASE Reject(c) \/ KeyConflict(c)
  <2>1. /\ stage[c] = "arriving" /\ UNCHANGED <<now, entries>>
        /\ \E s : Answered(c, Failure(s))
    BY <1>1, Zenon DEF Reject, KeyConflict, Admissible, Arrives, ClockAndAlgod
  <2> QED
    BY <2>1, RefuseRefines
<1>2. CASE UpstreamFails(c) \/ VerifyRefuses(c)
  <2>1. /\ UNCHANGED <<now, entries>>
        /\ \E s : Answered(c, Failure(s))
    BY <1>2, Zenon DEF UpstreamFails, VerifyRefuses, Abandon, ClockAndAlgod
  <2>2. call[c].phase = "inflight"
    BY <1>2 DEF UpstreamFails, VerifyRefuses, Throws, Returns, FetchSettles
  <2>3. stage[c] \in {"verifying", "posting"}
    BY <2>2 DEF RegInv, IInv, CallMatchesStage, CallFits, Active
  <2> QED
    BY <2>1, <2>3, RefuseRefines
<1> QED
  BY <1>1, <1>2

\* Submissions implement a register per principal and Idempotency-Key: nothing of
\* the same key is forwarded while an acknowledgement is remembered, and a replay
\* is of a submission with the same body.
THEOREM RegisterRefinement == Spec => ImplementsRegister
<1>1. Init => Register!Init
  <2> SUFFICES ASSUME Init PROVE Register!Init
    OBVIOUS
  <2>1. Record = [k \in CacheKeys |-> NoEntry]
    BY DEF Init, Record, NoEntries, Live
  <2>2. State = [c \in Requests |-> "new"]
    BY StateOfStage DEF Init, State
  <2>3. Given = [c \in Requests |-> NoEntry]
    BY DEF Init, Given, NoAnswer
  <2> QED
    BY <2>1, <2>2, <2>3 DEF Register!Init
<1>2. ASSUME RegInv, [Next]_vars PROVE [Register!Next]_(Register!vars)
  <2>1. ASSUME NEW c \in Requests, Arrive(c) PROVE Register!Next
    BY <1>2, <2>1, ErrorsRefine, ReplayRefines, AdmitRefines DEF Arrive, Register!Next
  <2>2. ASSUME NEW c \in Requests, Turn(c) PROVE [Register!Next]_(Register!vars)
    BY <1>2, <2>2, ErrorsRefine, AcknowledgeRefines, SuspendedRefines
    DEF Turn, Register!Next
  <2>3. ASSUME NEW c \in Requests, Environment(c) PROVE UNCHANGED Register!vars
    BY <1>2, <2>3, SuspendedRefines
  <2>4. CASE Tick \/ Restart
    BY <1>2, <2>4, TickRefines, RestartRefines DEF Register!Next
  <2>5. CASE Switch \/ UNCHANGED vars
    BY <2>5, SwitchRefines
  <2> QED
    BY <1>2, <2>1, <2>2, <2>3, <2>4, <2>5 DEF Next
<1> QED
  BY <1>1, <1>2, RegInvariance, PTL DEF Spec, ImplementsRegister, Register!Spec
=============================================================================
