----------------------- MODULE NetworkVerification_proofs ----------------------
(***************************************************************************)
(* Proofs about NetworkVerification for every number of callers, every      *)
(* timeout, TTL and retry count, and any number of network switches and     *)
(* restarts: what a positive verdict of verifyNetwork is worth.             *)
(***************************************************************************)
EXTENDS NetworkVerification, TLAPS

-----------------------------------------------------------------------------
(* The inductive invariant.                                                *)

\* A caller waits for a retry-safe call, whose abort timer has not been missed.
CallerFits(c) ==
  /\ Asking(c) => call[c].retrySafe /\ call[c].attempt \in 1..(RetryAttempts + 1)
  /\ call[c].phase = "backoff" => call[c].attempt <= RetryAttempts
  /\ call[c].phase = "inflight" => call[c].timer \in now..(now + TimeoutMs)

\* A MainNet answer on its way is no older than its fetch, and the cache no older
\* than such an answer plus the TTL.
Recent ==
  /\ lastMainnet <= now
  /\ algodNet = "mainnet" => lastMainnet = now
  /\ networkCache <= lastMainnet + TimeoutMs + VerifyTtlMs
  /\ \A c \in Calls : seen[c] = "mainnet" =>
       /\ call[c].phase = "inflight"
       /\ call[c].timer <= lastMainnet + TimeoutMs

CallersFit == \A c \in Calls : CallerFits(c)

NInv == TypeOK /\ CallersFit /\ Recent

-----------------------------------------------------------------------------
(* Facts about the constants and the calls.                                *)

\* The numeric constants.
LEMMA Constants ==
  /\ RetryAttempts \in Nat
  /\ TimeoutMs \in Nat \ {0}
  /\ VerifyTtlMs \in Nat \ {0}
  /\ UpstreamStatuses \subseteq 200..599
  /\ \A n \in 1..RetryAttempts : BackoffMs(n) \in Nat
BY UpstreamAssumption, NetworkAssumption DEF UpstreamAssumption, NetworkAssumption

\* What is bounded from one instant is bounded from a later one.
LEMMA LaterBound ==
  ASSUME NEW expiry \in Nat, NEW earlier \in Nat, NEW later \in Nat, earlier <= later,
         expiry <= earlier + TimeoutMs + VerifyTtlMs
  PROVE  expiry <= later + TimeoutMs + VerifyTtlMs
BY Constants

\* A failed call ends in an HTTP error status, which is never the verdict Verified.
LEMMA ErrorIsNoVerdict ==
  ASSUME NEW s \in FetchOutcomes
  PROVE  ErrorStatus(s) \in 0..599 /\ ErrorStatus(s) # Verified
<1>1. s = 1 \/ s \in 200..599
  BY Constants DEF FetchOutcomes, FetchRejected
<1> QED
  BY <1>1 DEF ErrorStatus, UpstreamHttpError, FetchRejected, Verified

\* A fetch that has just been sent is a well-formed call.
LEMMA FetchType ==
  ASSUME now \in Nat, NEW n \in 0..(RetryAttempts + 1)
  PROVE  FetchOnce(TRUE, n) \in CallType
BY Constants DEF FetchOnce, CallType, NoReply

\* No call is a well-formed call.
LEMMA IdleType == Idle \in CallType
BY Constants DEF Idle, CallType, NoReply

-----------------------------------------------------------------------------
(* The steps.                                                              *)

\* The gateway starts in a state of the invariant.
LEMMA InitNInv == Init => NInv
<1> SUFFICES ASSUME Init PROVE NInv
  OBVIOUS
<1>1. TypeOK
  BY IdleType DEF Init, NetworkInit, TypeOK, NetworkType, Undecided
<1>2. CallersFit
  BY DEF Init, CallersFit, CallerFits, Asking, Idle
<1>3. Recent
  BY Constants DEF Init, NetworkInit, Recent, Unseen
<1> QED
  BY <1>1, <1>2, <1>3 DEF NInv

\* A step of a caller that leaves algod and the clock alone keeps the invariant,
\* if its own call stays well-formed and the cache is filled in time.
LEMMA CallerStep ==
  ASSUME NInv, TypeOK', NEW c \in Calls,
         UNCHANGED <<now, algodNet, lastMainnet>>,
         networkCache' <= lastMainnet + TimeoutMs + VerifyTtlMs,
         \A d \in Calls \ {c} : call'[d] = call[d] /\ seen'[d] = seen[d],
         CallerFits(c)',
         seen'[c] = "mainnet" =>
           call'[c].phase = "inflight" /\ call'[c].timer <= lastMainnet + TimeoutMs
  PROVE  NInv'
<1> USE DEF NInv
<1>1. CallersFit'
  BY DEF CallersFit, CallerFits, Asking
<1>2. Recent'
  BY DEF Recent
<1> QED
  BY <1>1, <1>2

\* What a MainNet answer that is being read says of the past.
LEMMA AnswerIsRecent ==
  ASSUME NInv, NEW c \in Calls, GenesisMatches(c)
  PROVE  now <= lastMainnet + TimeoutMs
BY Constants
DEF NInv, TypeOK, NetworkType, CallType, GenesisMatches, Recent, CallersFit, CallerFits

\* Every step keeps the invariant.
LEMMA NInvStep == NInv /\ [Next]_vars => NInv'
<1> SUFFICES ASSUME NInv, [Next]_vars PROVE NInv'
  OBVIOUS
<1>0. /\ now \in Nat /\ lastMainnet \in Nat /\ networkCache \in Nat /\ restarts \in Nat
      /\ call \in [Calls -> CallType]
      /\ forced \in [Calls -> BOOLEAN]
      /\ verdict \in [Calls -> 0..599]
      /\ algodNet \in Networks
      /\ seen \in [Calls -> Networks \union {Bodiless, Unseen}]
      /\ networkCache <= lastMainnet + TimeoutMs + VerifyTtlMs
  BY DEF NInv, TypeOK, NetworkType, Recent
<1>1. ASSUME NEW c \in Calls
      PROVE  /\ call[c] \in CallType
             /\ CallerFits(c)
             /\ seen[c] = "mainnet" =>
                  call[c].phase = "inflight" /\ call[c].timer <= lastMainnet + TimeoutMs
  BY <1>0, <1>1 DEF NInv, CallersFit, Recent
<1>2. ASSUME NEW c \in Calls, UseCache(c) PROVE NInv'
  <2>1. UNCHANGED <<now, call, algodNet, lastMainnet, networkCache, seen>>
    BY <1>2 DEF UseCache, networkVars
  <2>2. TypeOK'
    BY <1>0, <1>2 DEF UseCache, networkVars, TypeOK, NetworkType, Verified
  <2>3. CallerFits(c)'
    BY <1>1, <2>1 DEF CallerFits, Asking
  <2> QED
    BY <1>0, <1>1, <2>1, <2>2, <2>3, CallerStep
<1>3. ASSUME NEW c \in Calls, AskAlgod(c) PROVE NInv'
  <2>1. /\ call' = [call EXCEPT ![c] = FetchOnce(TRUE, 1)]
        /\ UNCHANGED <<now, algodNet, lastMainnet, networkCache, seen>>
        /\ call[c].phase = "idle"
    BY <1>3 DEF AskAlgod, StartRequest, New, Asking, networkVars
  <2>2. FetchOnce(TRUE, 1) \in CallType
    <3>1. 1 \in 0..(RetryAttempts + 1)
      BY Constants
    <3> QED
      BY <1>0, <3>1, FetchType
  <2>3. TypeOK'
    BY <1>0, <1>3, <2>1, <2>2 DEF AskAlgod, TypeOK, NetworkType
  <2>4. CallerFits(c)'
    BY <1>0, <2>1, Constants DEF FetchOnce, CallerFits, Asking
  <2> QED
    BY <1>0, <1>1, <2>1, <2>3, <2>4, CallerStep
<1>4. ASSUME NEW c \in Calls, Answer(c) PROVE NInv'
  <2>1. PICK s \in FetchOutcomes, b \in {algodNet, "other", Bodiless, Unseen} :
          /\ call[c].phase = "inflight"
          /\ call' = [call EXCEPT ![c].reply = s]
          /\ seen' = [seen EXCEPT ![c] = b]
          /\ UNCHANGED <<now, algodNet, lastMainnet, networkCache, forced, verdict, restarts>>
    BY <1>4 DEF Answer, ParamsReplies, UpstreamReplies, callerVars
  <2>2. TypeOK'
    BY <1>0, <1>1, <2>1 DEF TypeOK, NetworkType, Networks, CallType
  <2>3. CallerFits(c)' /\ call'[c].phase = "inflight" /\ call'[c].timer = call[c].timer
    BY <1>0, <1>1, <2>1 DEF CallerFits, Asking, CallType
  <2>4. seen'[c] = "mainnet" => call'[c].timer <= lastMainnet + TimeoutMs
    <3>1. seen'[c] = "mainnet" => lastMainnet = now
      BY <1>0, <2>1 DEF NInv, Recent, Bodiless, Unseen
    <3> QED
      BY <1>0, <1>1, <2>1, <2>3, <3>1 DEF CallerFits
  <2> QED
    BY <1>0, <2>1, <2>2, <2>3, <2>4, CallerStep
<1>5. ASSUME NEW c \in Calls, Wait(c) PROVE NInv'
  <2>1. /\ call[c].phase = "inflight" /\ call[c].attempt < MaxAttempts(c)
        /\ call' = [call EXCEPT ![c].phase = "backoff",
                                ![c].timer = now + BackoffMs(call[c].attempt),
                                ![c].reply = NoReply]
        /\ seen' = [seen EXCEPT ![c] = Unseen]
        /\ UNCHANGED <<now, algodNet, lastMainnet, networkCache, forced, verdict, restarts>>
    BY <1>5 DEF Wait, BackOff, FetchSettles, RetriesAfter, callerVars
  <2>2. call[c].attempt \in 1..RetryAttempts /\ call[c].retrySafe
    BY <1>1, <2>1, Constants DEF MaxAttempts, CallerFits, Asking, CallType
  <2>3. now + BackoffMs(call[c].attempt) \in Nat
    BY <1>0, <2>2, Constants
  <2>4. TypeOK'
    <3>1. call[c] \in CallType
      BY <1>1
    <3>2. call' \in [Calls -> CallType]
      BY <1>0, <2>1, <2>3, <3>1, ZenonT(40) DEF CallType
    <3> QED
      BY <1>0, <2>1, <3>2 DEF TypeOK, NetworkType
  <2>5. CallerFits(c)'
    BY <1>0, <2>1, <2>2, Constants DEF CallerFits, Asking, CallType
  <2>6. seen'[c] # "mainnet"
    BY <1>0, <2>1 DEF Unseen
  <2> QED
    BY <1>0, <2>1, <2>4, <2>5, <2>6, CallerStep
<1>6. ASSUME NEW c \in Calls, Retry(c) PROVE NInv'
  <2>1. /\ call[c].phase = "backoff"
        /\ call' = [call EXCEPT ![c] = FetchOnce(call[c].retrySafe, call[c].attempt + 1)]
        /\ UNCHANGED <<now, algodNet, lastMainnet, networkCache, seen, forced, verdict, restarts>>
    BY <1>6 DEF Retry, Resend, networkVars, callerVars
  <2>2. call[c].retrySafe = TRUE /\ call[c].attempt + 1 \in 1..(RetryAttempts + 1)
    BY <1>1, <2>1, Constants DEF CallerFits, Asking, CallType
  <2>3. FetchOnce(call[c].retrySafe, call[c].attempt + 1) \in CallType
    <3>1. call[c].attempt + 1 \in 0..(RetryAttempts + 1)
      BY <2>2, Constants
    <3> QED
      BY <1>0, <2>2, <3>1, FetchType
  <2>4. TypeOK'
    BY <1>0, <2>1, <2>3 DEF TypeOK, NetworkType
  <2>5. CallerFits(c)'
    BY <1>0, <2>1, <2>2, Constants DEF FetchOnce, CallerFits, Asking
  <2>6. seen'[c] # "mainnet"
    BY <1>1, <2>1
  <2> QED
    BY <1>0, <2>1, <2>4, <2>5, <2>6, CallerStep
<1>7. ASSUME NEW c \in Calls, NEW v \in 0..599, Decide(c, v), networkCache' \in Nat,
             networkCache' <= lastMainnet + TimeoutMs + VerifyTtlMs
      PROVE  NInv'
  <2>1. /\ call' = [call EXCEPT ![c] = Idle]
        /\ seen' = [seen EXCEPT ![c] = Unseen]
        /\ UNCHANGED <<now, algodNet, lastMainnet>>
    BY <1>7 DEF Decide
  <2>2. TypeOK'
    BY <1>0, <1>7, IdleType DEF Decide, TypeOK, NetworkType
  <2>3. CallerFits(c)' /\ seen'[c] # "mainnet"
    BY <1>0, <2>1 DEF CallerFits, Asking, Idle, Unseen
  <2> QED
    BY <1>0, <1>7, <2>1, <2>2, <2>3, CallerStep
<1>8. ASSUME NEW c \in Calls, Grant(c) PROVE NInv'
  <2>1. GenesisMatches(c) /\ networkCache' = now + VerifyTtlMs /\ Decide(c, Verified)
    BY <1>8 DEF Grant, StoreVerification
  <2>2. now <= lastMainnet + TimeoutMs
    BY <2>1, AnswerIsRecent
  <2>3. networkCache' \in Nat /\ networkCache' <= lastMainnet + TimeoutMs + VerifyTtlMs
    BY <1>0, <2>1, <2>2, Constants
  <2>4. Verified \in 0..599
    BY DEF Verified
  <2> QED
    BY <1>7, <2>1, <2>3, <2>4
<1>9. ASSUME NEW c \in Calls, Refuse(c) \/ Fail(c) PROVE NInv'
  <2>1. UNCHANGED networkCache
    BY <1>9 DEF Refuse, Fail
  <2>2. PICK v \in 0..599 : Decide(c, v)
    <3>1. NetworkMismatch \in 0..599 /\ InternalError \in 0..599
      BY DEF NetworkMismatch, InternalError
    <3>2. CASE Refuse(c)
      BY <3>1, <3>2 DEF Refuse
    <3>3. CASE Fail(c)
      BY <3>3, ErrorIsNoVerdict DEF Fail
    <3> QED
      BY <1>9, <3>2, <3>3
  <2> QED
    BY <1>0, <1>7, <2>1, <2>2
<1>10. ASSUME Restart PROVE NInv'
  <2>1. TypeOK'
    BY <1>0, <1>10, IdleType DEF Restart, TypeOK, NetworkType, Lost
  <2>2. CallersFit'
    BY <1>10 DEF Restart, CallersFit, CallerFits, Asking, Idle
  <2>3. Recent'
    BY <1>0, <1>10, Constants DEF NInv, Restart, Recent, Unseen
  <2> QED
    BY <2>1, <2>2, <2>3 DEF NInv
\* The network was MainNet last at or after the instant it was before.
<1>11. ASSUME Switch \/ Tick PROVE NInv'
  <2>1. /\ UNCHANGED <<call, seen, networkCache, forced, verdict, restarts>>
        /\ now' \in {now, now + 1} /\ algodNet' \in Networks
    BY <1>0, <1>11 DEF Switch, SwitchNetwork, Tick, NetworkAt, callerVars
  <2>2. /\ lastMainnet <= lastMainnet' /\ lastMainnet' \in Nat
        /\ lastMainnet' <= now'
        /\ algodNet' = "mainnet" => lastMainnet' = now'
    BY <1>0, <1>11 DEF NInv, Recent, Switch, SwitchNetwork, Tick, NetworkAt, Networks
  <2>3. TypeOK'
    BY <1>0, <2>1, <2>2 DEF TypeOK, NetworkType
  <2>4. CallersFit'
    <3> SUFFICES ASSUME NEW d \in Calls PROVE CallerFits(d)'
      BY DEF CallersFit
    <3>1. call[d].phase = "inflight" => call[d].timer \in now'..(now' + TimeoutMs)
      BY <1>0, <1>1, <1>11, Constants
      DEF CallerFits, Switch, Tick, TimersQuiet, CallType
    <3> QED
      BY <1>1, <2>1, <3>1 DEF CallerFits, Asking
  <2>5. Recent'
    <3>1. networkCache <= lastMainnet' + TimeoutMs + VerifyTtlMs
      BY <1>0, <2>2, LaterBound
    <3>2. ASSUME NEW d \in Calls, seen[d] = "mainnet"
          PROVE  call[d].phase = "inflight" /\ call[d].timer <= lastMainnet' + TimeoutMs
      BY <1>0, <1>1, <2>2, <3>2, Constants DEF CallType
    <3> QED
      BY <2>1, <2>2, <3>1, <3>2 DEF Recent
  <2> QED
    BY <2>3, <2>4, <2>5 DEF NInv
<1>12. CASE UNCHANGED vars
  BY <1>12
  DEF vars, networkVars, callerVars, NInv, TypeOK, NetworkType, CallersFit, CallerFits, Asking, Recent
<1> QED
  BY <1>2, <1>3, <1>4, <1>5, <1>6, <1>8, <1>9, <1>10, <1>11, <1>12 DEF Next, Turn

-----------------------------------------------------------------------------
(* The theorems.                                                           *)

\* Every state satisfies the invariant, and so every variable keeps its type.
LEMMA Invariance == Spec => []NInv
<1>1. Init => NInv
  BY InitNInv
<1>2. NInv /\ [Next]_vars => NInv'
  BY NInvStep
<1> QED
  BY <1>1, <1>2, PTL DEF Spec

\* Only an answer from the cache or a MainNet answer of algod makes a verdict.
LEMMA WhoVouches ==
  ASSUME NInv, [Next]_vars, NEW c \in Calls, verdict[c] # Verified, verdict'[c] = Verified
  PROVE  \/ VerifiedAlready(forced'[c])
         \/ GenesisMatches(c)
<1> USE DEF NInv, TypeOK
<1>1. ASSUME NEW d \in Calls, NEW v \in 0..599, Decide(d, v), v # Verified PROVE FALSE
  BY <1>1 DEF Decide
<1>2. ASSUME NEW d \in Calls, UseCache(d) PROVE VerifiedAlready(forced'[c])
  BY <1>2 DEF UseCache
<1>3. ASSUME NEW d \in Calls, Grant(d) PROVE GenesisMatches(c)
  BY <1>3 DEF Grant, Decide
<1>4. ASSUME NEW d \in Calls, Refuse(d) PROVE FALSE
  <2>1. /\ NetworkMismatch \in 0..599 /\ NetworkMismatch # Verified
        /\ InternalError \in 0..599 /\ InternalError # Verified
    BY DEF NetworkMismatch, InternalError, Verified
  <2> QED
    BY <1>1, <1>4, <2>1, ZenonT(40) DEF Refuse
<1>5. ASSUME NEW d \in Calls, Fail(d) PROVE FALSE
  BY <1>1, <1>5, ErrorIsNoVerdict, ZenonT(40) DEF Fail
<1>6. ASSUME NEW d \in Calls, AskAlgod(d) \/ Answer(d) \/ Wait(d) \/ Retry(d) PROVE FALSE
  BY <1>6 DEF AskAlgod, Answer, Wait, Retry, callerVars
<1>7. CASE Tick \/ Switch \/ UNCHANGED vars
  BY <1>7 DEF Tick, Switch, vars, callerVars
<1>8. CASE Restart
  BY <1>8 DEF Restart, Lost, Verified
<1> QED
  BY <1>2, <1>3, <1>4, <1>5, <1>6, <1>7, <1>8 DEF Next, Turn

\* However callers, retries, network switches and restarts interleave, a verdict
\* is at most one TTL and one fetch older than the last moment of MainNet.
THEOREM Vouched == Spec => VouchedWhileRecent
<1>1. NInv /\ [Next]_vars =>
        [\A c \in Calls :
           EnforceMainnet /\ verdict[c] # Verified /\ verdict'[c] = Verified =>
             now <= lastMainnet + TimeoutMs + VerifyTtlMs]_vars
  <2> SUFFICES ASSUME NInv, [Next]_vars, NEW c \in Calls,
                      EnforceMainnet, verdict[c] # Verified, verdict'[c] = Verified
               PROVE  now <= lastMainnet + TimeoutMs + VerifyTtlMs
    OBVIOUS
  <2>1. now \in Nat /\ networkCache \in Nat /\ lastMainnet \in Nat
    BY DEF NInv, TypeOK, NetworkType
  <2>2. CASE VerifiedAlready(forced'[c])
    BY <2>1, <2>2, Constants DEF VerifiedAlready, CacheFresh, NInv, Recent
  <2>3. CASE GenesisMatches(c)
    BY <2>1, <2>3, AnswerIsRecent, Constants
  <2> QED
    BY <2>2, <2>3, WhoVouches
<1> QED
  BY <1>1, Invariance, PTL DEF Spec, VouchedWhileRecent

\* A forced verdict, which the readiness check asks for, rests on its own fetch.
THEOREM Forced == Spec => ForcedSeesPastCache
<1>1. NInv /\ [Next]_vars =>
        [\A c \in Calls :
           EnforceMainnet /\ forced'[c] /\ verdict[c] # Verified /\ verdict'[c] = Verified =>
             now <= lastMainnet + TimeoutMs]_vars
  <2> SUFFICES ASSUME NInv, [Next]_vars, NEW c \in Calls,
                      EnforceMainnet, forced'[c], verdict[c] # Verified, verdict'[c] = Verified
               PROVE  now <= lastMainnet + TimeoutMs
    OBVIOUS
  <2>1. GenesisMatches(c)
    BY WhoVouches DEF VerifiedAlready
  <2> QED
    BY <2>1, AnswerIsRecent
<1> QED
  BY <1>1, Invariance, PTL DEF Spec, ForcedSeesPastCache
=============================================================================
