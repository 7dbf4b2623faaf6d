\* Two callers; a cached verification outlives a network switch by up to its
\* TTL and is then asked for once more, after it has expired.
SPECIFICATION Spec
CONSTANTS
  Calls = {c1, c2}
  UpstreamStatuses = {200, 503}
  RetryAttempts = 1
  TimeoutMs = 1
  BackoffBase = 1
  BackoffCap = 1
  EnforceMainnet = TRUE
  VerifyTtlMs = 2
  MaxTime = 5
  MaxRestarts = 1
PROPERTIES
  VouchedWhileRecent
  ForcedSeesPastCache
CHECK_DEADLOCK FALSE
