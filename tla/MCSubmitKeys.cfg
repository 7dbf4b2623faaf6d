\* Three overlapping requests over the idempotency cache; the network check is off.
SPECIFICATION Spec
CONSTANTS
  Calls = {"r1", "r2", "r3"}
  Responses = {"r1", "r2", "r3"}
  Workloads <- Keyed3
  UpstreamStatuses = {200, 503}
  RetryAttempts = 1
  TimeoutMs = 1
  BackoffBase = 1
  BackoffCap = 1
  EnforceMainnet = FALSE
  VerifyTtlMs = 1
  Principals = {"p", "q"}
  Keys = {"k", "j"}
  NoKey = NoKey
  Bodies = {"b1", "b2", "bad"}
  NoEntry = NoEntry
  TtlMs = 1
  MaxEntries = 1
  Verdict <- MCVerdict
  MaxTime = 3
  MaxRestarts = 1
INVARIANTS
  HonestAcknowledgement
  OneBroadcastPerRequest
PROPERTIES
  LookupTellsTruth
  ImplementsRegister
CHECK_DEADLOCK FALSE
