----------------------------- MODULE NetworkGuard -----------------------------
(***************************************************************************)
(* UpstreamClient.verifyNetwork of src/upstream.js: ask algod which network *)
(* it serves, refuse anything but MainNet, and remember a positive answer  *)
(* for VerifyTtlMs.  There is one cache for all requests.                  *)
(*                                                                         *)
(* algodNet and lastMainnet are not in the gateway: they are the truth the *)
(* verification is about, an operator repointing or resetting the node.    *)
(***************************************************************************)
EXTENDS UpstreamClient

CONSTANTS
  EnforceMainnet,  \* config.network.enforceMainnet
  VerifyTtlMs      \* config.network.verifyTtlMs

ASSUME NetworkAssumption ==
  /\ EnforceMainnet \in BOOLEAN
  /\ VerifyTtlMs \in Nat \ {0}

VARIABLES
  algodNet,      \* the network behind the configured algod URL
  lastMainnet,   \* the last instant at which it was MainNet
  networkCache,  \* expiresAt of the cached verification, 0 for null
  seen           \* for each call, the body of the answer to /params on its way

networkVars == <<algodNet, lastMainnet, networkCache, seen>>

Networks == {"mainnet", "other"}

\* What the answer to /v2/transactions/params shows: MainNet's genesis or not, or
\* nothing because its body is empty and parseUpstreamBody gives null.
Bodiless == "empty"
Unseen == "unseen"

NetworkType ==
  /\ algodNet \in Networks
  /\ lastMainnet \in Nat
  /\ networkCache \in Nat
  /\ seen \in [Calls -> Networks \union {Bodiless, Unseen}]

NetworkInit ==
  /\ algodNet \in Networks
  /\ lastMainnet = 0
  /\ networkCache = 0
  /\ seen = [c \in Calls |-> Unseen]

-----------------------------------------------------------------------------
\* Mutant: the expiry of the cached verification is not looked at.
CacheFilled == networkCache > 0

CacheFresh == now < networkCache

\* Mutant: { force: true } is ignored.
VerifiedAlreadyForced(force) == ~EnforceMainnet \/ CacheFresh

\* verifyNetwork returns without asking algod.
VerifiedAlready(force) == ~EnforceMainnet \/ (~force /\ CacheFresh)

\* algod answers the fetch of /v2/transactions/params: a success names the
\* network algod serves at that moment, comes with a body that is no JSON, whose
\* genesis is nobody's and so another's than MainNet's, or without a body.
ParamsReplies(c, s) ==
  /\ UpstreamReplies(c, s)
  /\ \E body \in IF s \in Success THEN {algodNet, "other", Bodiless} ELSE {Unseen} :
       seen' = [seen EXCEPT ![c] = body]

\* Mutant: `&&` for `||`, so that a network passes by its genesis ID or its hash.
GenesisMatchesInPart(c) == seen[c] # Bodiless

\* The response is MainNet's: verifyNetwork stores the verification and returns.
GenesisMatches(c) == seen[c] = "mainnet"

\* The response is another network's: verifyNetwork throws 503 and leaves the
\* cache as it is.
GenesisDiffers(c) == seen[c] = "other"
NetworkMismatch == 503

\* Reading a property of a null body throws a TypeError: sendError answers 500.
NoParamsBody(c) == seen[c] = Bodiless
InternalError == 500

StoreVerification == networkCache' = now + VerifyTtlMs

\* An operator repoints the algod URL's host, or the node is rebuilt.
SwitchNetwork ==
  /\ \E net \in Networks \ {algodNet} :
       /\ algodNet' = net
       /\ lastMainnet' = IF net = "mainnet" THEN now ELSE lastMainnet
  /\ UNCHANGED <<networkCache, seen>>

\* The clock advances to `instant`.
NetworkAt(instant) ==
  /\ lastMainnet' = IF algodNet = "mainnet" THEN instant ELSE lastMainnet
  /\ UNCHANGED <<algodNet, networkCache, seen>>
=============================================================================
