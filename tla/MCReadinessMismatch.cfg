\* Three callers: one fills the cache, a forced one finds another network, and
\* the third is let through by the cache.
SPECIFICATION Spec
CONSTANTS
  Calls = {c1, c2, c3}
  UpstreamStatuses = {200}
  RetryAttempts = 0
  TimeoutMs = 2
  BackoffBase = 1
  BackoffCap = 1
  EnforceMainnet = TRUE
  VerifyTtlMs = 2
  MaxTime = 2
  MaxRestarts = 0
PROPERTIES
  MismatchBlocksSubmission
CHECK_DEADLOCK FALSE
