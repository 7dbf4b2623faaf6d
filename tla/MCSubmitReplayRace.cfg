\* Overlapping retries of one submission.
SPECIFICATION Spec
CONSTANTS
  Calls = {"r1", "r2"}
  Responses = {"r1", "r2"}
  Workloads <- Retries
  UpstreamStatuses = {200}
  RetryAttempts = 0
  TimeoutMs = 2
  BackoffBase = 1
  BackoffCap = 1
  EnforceMainnet = TRUE
  VerifyTtlMs = 1
  Principals = {"p", "q"}
  Keys = {"k", "j"}
  NoKey = NoKey
  Bodies = {"b1", "b2", "bad"}
  NoEntry = NoEntry
  TtlMs = 10
  MaxEntries = 1
  Verdict <- MCVerdict
  MaxTime = 2
  MaxRestarts = 0
PROPERTIES
  NoForwardAfterAcknowledgement
CHECK_DEADLOCK FALSE
