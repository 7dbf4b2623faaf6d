\* Two connections, one of whose requests call an upstream, with every kind of
\* answer; three retries reach the cap of the backoff twice.
SPECIFICATION Spec
CONSTANTS
  Unset = Unset
  Malformed = Malformed
  Given = Given
  Environments <- FewEnvironments
  Connections = {c1, c2}
  Callers = {c1}
  UpstreamStatuses = {200, 400, 429, 500, 503, 504}
  RetryAttempts = 3
  TimeoutMs = 2
  BackoffBase = 1
  BackoffCap = 2
  MaxTime = 2
INVARIANTS
  TypeOK
  AnsweredInBoundedTime
  RequiredTransportIsServed
PROPERTIES
  GivesUpOnlyWhenExhausted
  EveryCallSettles
  ShutdownWaitsOnlyForClients
CHECK_DEADLOCK FALSE
