-------------------------- MODULE NetworkVerification -------------------------
(***************************************************************************)
(* Concurrent callers of verifyNetwork, which share the verification cache *)
(* of the gateway: submissions use it, the readiness check (force) always  *)
(* asks algod.                                                             *)
(***************************************************************************)
EXTENDS NetworkGuard

CONSTANTS
  MaxTime,     \* no caller starts after this instant (a bound for TLC)
  MaxRestarts  \* bound on restarts of the gateway

VARIABLES
  forced,   \* the caller passed { force: true }
  verdict,  \* what verifyNetwork told the caller
  restarts

vars == <<now, call, networkVars, forced, verdict, restarts>>
callerVars == <<forced, verdict>>

Undecided == 0
Verified == 1        \* the caller goes on; other verdicts are HTTP errors
Lost == 2            \* the process died first

Asking(c) == call[c].phase # "idle"

Init ==
  /\ now = 0
  /\ call = [c \in Calls |-> Idle]
  /\ NetworkInit
  /\ forced = [c \in Calls |-> FALSE]
  /\ verdict = [c \in Calls |-> Undecided]
  /\ restarts = 0

New(c) == ~Asking(c) /\ verdict[c] = Undecided /\ now < MaxTime

UseCache(c) ==
  /\ New(c)
  /\ \E force \in BOOLEAN :
       /\ VerifiedAlready(force)
       /\ forced' = [forced EXCEPT ![c] = force]
  /\ verdict' = [verdict EXCEPT ![c] = Verified]
  /\ UNCHANGED <<now, call, networkVars, restarts>>

AskAlgod(c) ==
  /\ New(c)
  /\ \E force \in BOOLEAN :
       /\ ~VerifiedAlready(force)
       /\ forced' = [forced EXCEPT ![c] = force]
  /\ StartRequest(c, TRUE)
  /\ UNCHANGED <<now, networkVars, verdict, restarts>>

Answer(c) ==
  /\ \E s \in FetchOutcomes : ParamsReplies(c, s)
  /\ UNCHANGED <<now, algodNet, lastMainnet, networkCache, callerVars, restarts>>

\* An answer that comes after the abort is dropped.
Wait(c) ==
  /\ BackOff(c)
  /\ seen' = [seen EXCEPT ![c] = Unseen]
  /\ UNCHANGED <<now, algodNet, lastMainnet, networkCache, callerVars, restarts>>

Retry(c) == Resend(c) /\ UNCHANGED <<now, networkVars, callerVars, restarts>>

Decide(c, v) ==
  /\ verdict' = [verdict EXCEPT ![c] = v]
  /\ call' = [call EXCEPT ![c] = Idle]
  /\ seen' = [seen EXCEPT ![c] = Unseen]
  /\ UNCHANGED <<now, algodNet, lastMainnet, forced, restarts>>

Grant(c) ==
  /\ \E s \in FetchOutcomes : Returns(c, s)
  /\ GenesisMatches(c)
  /\ StoreVerification
  /\ Decide(c, Verified)

Refuse(c) ==
  /\ \E s \in FetchOutcomes : Returns(c, s)
  /\ \/ GenesisDiffers(c) /\ Decide(c, NetworkMismatch)
     \/ NoParamsBody(c) /\ Decide(c, InternalError)
  /\ UNCHANGED networkCache

Fail(c) ==
  /\ \E s \in FetchOutcomes : Throws(c, s) /\ Decide(c, ErrorStatus(s))
  /\ UNCHANGED networkCache

\* The process restarts: callers and the cache are gone.
Restart ==
  /\ restarts < MaxRestarts
  /\ restarts' = restarts + 1
  /\ verdict' = [c \in Calls |-> IF Asking(c) THEN Lost ELSE verdict[c]]
  /\ call' = [c \in Calls |-> Idle]
  /\ seen' = [c \in Calls |-> Unseen]
  /\ networkCache' = 0
  /\ UNCHANGED <<now, algodNet, lastMainnet, forced>>

Switch == SwitchNetwork /\ UNCHANGED <<now, call, callerVars, restarts>>

Tick ==
  /\ TimersQuiet
  /\ now < MaxTime \/ \E c \in Calls : Asking(c)
  /\ now' = now + 1
  /\ NetworkAt(now + 1)
  /\ UNCHANGED <<call, callerVars, restarts>>

Turn(c) == Wait(c) \/ Retry(c) \/ Grant(c) \/ Refuse(c) \/ Fail(c)

Next ==
  \/ Tick \/ Switch \/ Restart
  \/ \E c \in Calls : UseCache(c) \/ AskAlgod(c) \/ Answer(c) \/ Turn(c)

Spec == Init /\ [][Next]_vars

-----------------------------------------------------------------------------
TypeOK ==
  /\ now \in Nat
  /\ call \in [Calls -> CallType]
  /\ NetworkType
  /\ forced \in [Calls -> BOOLEAN]
  /\ verdict \in [Calls -> 0..599]
  /\ restarts \in Nat

\* The gateway never vouches for MainNet later than VerifyTtlMs plus one fetch
\* after algod last served it, however verifications, retries, network switches
\* and restarts interleave.
VouchedWhileRecent ==
  [][\A c \in Calls :
       EnforceMainnet /\ verdict[c] # Verified /\ verdict'[c] = Verified =>
         now <= lastMainnet + TimeoutMs + VerifyTtlMs]_vars

\* A forced verification sees past the cache: it never vouches for a network
\* algod stopped serving before the last fetch of that verification was sent.
ForcedSeesPastCache ==
  [][\A c \in Calls :
       EnforceMainnet /\ forced'[c] /\ verdict[c] # Verified /\ verdict'[c] = Verified =>
         now <= lastMainnet + TimeoutMs]_vars

\* What BANK_INTEGRATION_GUIDE.md promises: while algod serves another network
\* and a readiness check has found so, no submission that arrives afterwards is
\* let through.  The code keeps the earlier verification (verifyNetwork throws
\* before it touches networkCache), so this does not hold.
MismatchBlocksSubmission ==
  [][\A c, d \in Calls :
       /\ algodNet = "other"
       /\ forced[c] /\ verdict[c] = NetworkMismatch
       /\ ~Asking(d) /\ verdict[d] = Undecided
       => verdict'[d] # Verified]_vars
=============================================================================
