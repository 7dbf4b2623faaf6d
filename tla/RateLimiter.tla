------------------------------ MODULE RateLimiter -----------------------------
(***************************************************************************)
(* TokenBucketLimiter of src/rate-limit.js.  A bucket is brought up to     *)
(* date only when its client asks; it is created full, and thrown away     *)
(* when the map has grown past MaxBuckets and its client has been idle for *)
(* more than IdleMs.                                                       *)
(*                                                                         *)
(* Tokens are counted in shares of 1 / TokenShares of a token, so that the *)
(* refill of one clock unit is the whole number PerMinute: in the code a   *)
(* token is 60000 shares, the milliseconds of a minute.  The code keeps    *)
(* them as floating-point numbers; the rounding is not modelled.  The      *)
(* limiter is enabled: when it is not, check returns at once, keeps        *)
(* nothing and limits nobody.                                              *)
(***************************************************************************)
EXTENDS Integers, FiniteSets

CONSTANTS
  Clients,      \* keys `principal.id:ip`
  Burst,        \* config.rateLimit.burst
  PerMinute,    \* config.rateLimit.perMinute
  TokenShares,  \* 60000 in the code
  SecondMs,     \* 1000 in the code
  IdleMs,       \* 300000 in the code
  MaxBuckets,   \* 10000 in the code
  NoBucket,
  MaxTime,      \* bound on the clock
  MaxSteps      \* bound on the times the wall clock is set

Capacity == Burst * TokenShares

ASSUME LimiterAssumption ==
  /\ Burst \in Nat \ {0} /\ PerMinute \in Nat \ {0}
  /\ TokenShares \in Nat \ {0} /\ SecondMs \in Nat \ {0}
  /\ IdleMs \in Nat /\ MaxBuckets \in Nat /\ MaxTime \in Nat /\ MaxSteps \in Nat
ASSUME NoBucketAssumption == NoBucket \notin [tokens : Nat, updatedAt : Nat]

VARIABLES
  now,      \* Date.now()
  buckets,
  reply,    \* what each client's last request was told
  promise,  \* instant at which a limited client was told to come back, 0 if none
  fair,     \* what each client's bucket would hold had its refills never been
            \* put off or thrown away, driven by the clock's forward movement
  steps     \* times the clock was set

vars == <<now, buckets, reply, promise, fair, steps>>

Bucket == [tokens : 0..Capacity, updatedAt : Nat]

Init ==
  /\ now = 0
  /\ buckets = [k \in Clients |-> NoBucket]
  /\ reply = [k \in Clients |-> "none"]
  /\ promise = [k \in Clients |-> 0]
  /\ fair = [k \in Clients |-> Capacity]
  /\ steps = 0

-----------------------------------------------------------------------------
Least(a, b) == IF a < b THEN a ELSE b
Greatest(a, b) == IF a > b THEN a ELSE b
Ceiling(a, b) == (a + b - 1) \div b

\* Mutant: the time a bucket was idle is not limited by its capacity.
RefilledUncapped(k) ==
  IF buckets[k] = NoBucket THEN Capacity
  ELSE buckets[k].tokens + Greatest(0, now - buckets[k].updatedAt) * PerMinute

\* The tokens a client has when it asks.
Refilled(k) ==
  IF buckets[k] = NoBucket THEN Capacity
  ELSE Least(Capacity,
             buckets[k].tokens + Greatest(0, now - buckets[k].updatedAt) * PerMinute)

\* Mutant: the fraction of a second is cut off.
RetryAfterFloor(tokens) ==
  Greatest(1, ((TokenShares - tokens) \div PerMinute) \div SecondMs)

\* Seconds until a whole token has been refilled.
RetryAfter(tokens) == Greatest(1, Ceiling(TokenShares - tokens, PerMinute * SecondMs))

\* Mutant: a bucket goes as soon as it has not been used for an instant.
IdleAtOnce(bucket) == now > bucket.updatedAt

Idle(bucket) == now - bucket.updatedAt > IdleMs

Cleanup(map) ==
  IF Cardinality({k \in Clients : map[k] # NoBucket}) > MaxBuckets
    THEN [k \in Clients |->
            IF map[k] # NoBucket /\ Idle(map[k]) THEN NoBucket ELSE map[k]]
    ELSE map

Updated(k, tokens) ==
  [buckets EXCEPT ![k] = [tokens |-> tokens, updatedAt |-> now]]

\* check(key): fewer than one token left.
Limit(k) ==
  /\ Refilled(k) < TokenShares
  /\ buckets' = Updated(k, Refilled(k))
  /\ reply' = [reply EXCEPT ![k] = "limited"]
  /\ promise' = [promise EXCEPT ![k] = now + RetryAfter(Refilled(k)) * SecondMs]
  /\ UNCHANGED <<now, fair, steps>>

\* check(key): a token is taken, and an overgrown map is cleaned up.
Grant(k) ==
  /\ Refilled(k) >= TokenShares
  /\ buckets' = Cleanup(Updated(k, Refilled(k) - TokenShares))
  /\ reply' = [reply EXCEPT ![k] = "granted"]
  /\ promise' = [promise EXCEPT ![k] = 0]
  /\ fair' = [fair EXCEPT ![k] = @ - TokenShares]
  /\ UNCHANGED <<now, steps>>

Rise(elapsed) ==
  [k \in Clients |-> Least(Capacity, fair[k] + elapsed * PerMinute)]

Tick ==
  /\ now < MaxTime
  /\ now' = now + 1
  /\ fair' = Rise(1)
  /\ UNCHANGED <<buckets, reply, promise, steps>>

\* The wall clock is set, forward or back.
SetClock ==
  /\ steps < MaxSteps
  /\ steps' = steps + 1
  /\ \E t \in 0..MaxTime :
       /\ now' = t
       /\ fair' = Rise(Greatest(0, t - now))
  /\ promise' = [k \in Clients |-> 0]
  /\ UNCHANGED <<buckets, reply>>

Next == Tick \/ SetClock \/ \E k \in Clients : Grant(k) \/ Limit(k)

Spec == Init /\ [][Next]_vars

-----------------------------------------------------------------------------
TypeOK ==
  /\ now \in Nat
  /\ buckets \in [Clients -> Bucket \union {NoBucket}]
  /\ reply \in [Clients -> {"none", "granted", "limited"}]
  /\ promise \in [Clients -> Nat]
  /\ fair \in [Clients -> Int]
  /\ steps \in Nat

\* A bucket idle for long enough to be thrown away has refilled: config.js does
\* not demand it, and holds it by default (120 tokens at 600 a minute).
IdleRefills == IdleMs * PerMinute >= Capacity

\* However the clock is set and buckets come and go, a client has no more tokens
\* than a full bucket and the forward movement of the clock have given it, and so
\* is granted no more requests than those pay for.
GrantsFollowClock ==
  IdleRefills => \A k \in Clients : fair[k] >= 0 /\ Refilled(k) <= fair[k]

\* A client that waits as long as Retry-After told it is granted its request.
RetryAfterSuffices ==
  [][\A k \in Clients :
       promise[k] > 0 /\ now >= promise[k] => ~Limit(k)]_vars

\* When a new bucket leaves the map larger than MaxBuckets, every client in it
\* was active within IdleMs.
OvergrownMapIsActive ==
  [][\A k \in Clients :
       /\ buckets[k] = NoBucket /\ buckets'[k] # NoBucket
       /\ Cardinality({j \in Clients : buckets'[j] # NoBucket}) > MaxBuckets
       => \A j \in Clients : buckets'[j] # NoBucket => ~Idle(buckets'[j])]_vars

-----------------------------------------------------------------------------
(* Buckets that are refilled when asked and forgotten when idle are, to a  *)
(* client, the bucket that rises with every tick.                          *)

Ideal == INSTANCE TokenBucket WITH
  Cost <- TokenShares,
  Refill <- PerMinute,
  level <- [k \in Clients |-> Refilled(k)]

\* Until the wall clock is set for the first time, every step is one of that
\* bucket or changes nothing of it: neither the lazy refill of `check` nor the
\* eviction of `cleanup` shows.
ImplementsTokenBucket ==
  Ideal!Init /\ [][steps' = 0 => [Ideal!Next]_(Ideal!vars)]_vars
=============================================================================
