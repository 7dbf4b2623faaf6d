\* Two requests that verify the network, with retries of the verification.
SPECIFICATION Spec
CONSTANTS
  Calls = {"r1", "r2"}
  Responses = {"r1", "r2"}
  Workloads <- Pairs
  UpstreamStatuses = {200, 503}
  RetryAttempts = 1
  TimeoutMs = 1
  BackoffBase = 1
  BackoffCap = 1
  EnforceMainnet = TRUE
  VerifyTtlMs = 1
  Principals = {"p", "q"}
  Keys = {"k", "j"}
  NoKey = NoKey
  Bodies = {"b1", "b2", "bad"}
  NoEntry = NoEntry
  TtlMs = 1
  MaxEntries = 1
  Verdict <- MCVerdict
  MaxTime = 4
  MaxRestarts = 1
INVARIANTS
  IInv
PROPERTIES
  ForwardedToMainnet
  EveryRequestAnswered
CHECK_DEADLOCK FALSE
