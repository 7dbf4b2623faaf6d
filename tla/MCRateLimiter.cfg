\* Two clients and room for one bucket; a token takes three clock units, and
\* a bucket of two tokens refills in the six units after which it may go; the
\* wall clock is set twice, forward or back.
SPECIFICATION Spec
CONSTANTS
  Clients = {k1, k2}
  Burst = 2
  PerMinute = 2
  TokenShares = 5
  SecondMs = 2
  IdleMs = 5
  MaxBuckets = 1
  NoBucket = NoBucket
  MaxTime = 8
  MaxSteps = 2
INVARIANTS
  GrantsFollowClock
PROPERTIES
  RetryAfterSuffices
  ImplementsTokenBucket
CHECK_DEADLOCK FALSE
