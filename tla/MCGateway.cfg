\* One request of any kind, beside one for /health: every way to ask, every answer of
\* the upstreams; and pairs of requests that read or submit and overlap.
SPECIFICATION Spec
CONSTANTS
  Requests = {"r1", "r2"}
  Workloads <- Everything
  ApiKeys = {"good", "bad"}
  KnownKeys = {"good"}
  NoKey = NoKey
  Ips = {"inside", "outside"}
  AllowedIps = {"inside"}
  AllowUnauthenticated = FALSE
  ReadinessPublic = FALSE
  EnforceMainnet = TRUE
  RequireIndexer = FALSE
  Errors = {504}
  SubmissionStatuses = {202, 409}
  Burst = 1
INVARIANTS
  TypeOK
  OnlyAdmittedReachUpstream
  ReadyMeansMainnet
  VerifiedOnlyIfSeen
  EvidenceHoldsWhatWasServed
PROPERTIES
  EveryRequestAnswered
CHECK_DEADLOCK FALSE
