--------------------------- MODULE RateLimiter_proofs --------------------------
(***************************************************************************)
(* Proofs about RateLimiter for every number of clients, every burst, rate, *)
(* idle time and size of the map, and any number of jumps of the clock:     *)
(* clients are granted what the clock pays for, Retry-After is long enough, *)
(* and the map of lazily refilled buckets is, to them, a token bucket.      *)
(***************************************************************************)
EXTENDS RateLimiter, TLAPS

-----------------------------------------------------------------------------
(* Arithmetic.                                                             *)

\* The constants are positive numbers, and a bucket holds at least one token.
LEMMA Constants ==
  /\ Capacity \in Nat /\ TokenShares <= Capacity
  /\ PerMinute \in Nat \ {0} /\ TokenShares \in Nat \ {0} /\ SecondMs \in Nat \ {0}
  /\ IdleMs \in Nat /\ MaxBuckets \in Nat /\ MaxTime \in Nat
BY LimiterAssumption DEF LimiterAssumption, Capacity

\* The refill of more time is larger.
LEMMA RefillGrows ==
  ASSUME NEW a \in Nat, NEW b \in Nat, a <= b
  PROVE  a * PerMinute \in Nat /\ a * PerMinute <= b * PerMinute
BY Constants

\* Two refills add up.
LEMMA RefillAdds ==
  ASSUME NEW a \in Nat, NEW b \in Nat
  PROVE  (a + b) * PerMinute = a * PerMinute + b * PerMinute
BY Constants

\* Division rounds up.
LEMMA CeilingCovers ==
  ASSUME NEW a \in Nat, NEW b \in Nat \ {0}
  PROVE  Ceiling(a, b) \in Nat /\ Ceiling(a, b) * b >= a
BY DEF Ceiling

\* The time Retry-After names refills the rest of a token.
LEMMA RetryAfterCovers ==
  ASSUME NEW tokens \in 0..TokenShares
  PROVE  /\ RetryAfter(tokens) \in Nat
         /\ (RetryAfter(tokens) * SecondMs) * PerMinute >= TokenShares - tokens
<1> DEFINE missing == TokenShares - tokens
           rate == PerMinute * SecondMs
           seconds == Ceiling(missing, rate)
<1>1. missing \in Nat /\ rate \in Nat \ {0}
  BY Constants
<1>2. seconds \in Nat /\ seconds * rate >= missing
  BY <1>1, CeilingCovers
<1>3. RetryAfter(tokens) \in Nat /\ RetryAfter(tokens) >= seconds
  BY <1>2 DEF RetryAfter, Greatest
<1>4. (RetryAfter(tokens) * SecondMs) * PerMinute = RetryAfter(tokens) * rate
  BY <1>3, Constants
<1>5. RetryAfter(tokens) * rate >= seconds * rate
  BY <1>1, <1>2, <1>3
<1> QED
  BY <1>1, <1>2, <1>3, <1>4, <1>5

-----------------------------------------------------------------------------
(* What a request does to the buckets.                                     *)

\* A bucket is not the absence of one.
LEMMA BucketExists ==
  ASSUME NEW b \in Bucket
  PROVE  b # NoBucket
BY NoBucketAssumption, Constants DEF Bucket

\* A client has between nothing and a full bucket.
LEMMA RefilledRange ==
  ASSUME TypeOK, NEW k \in Clients
  PROVE  Refilled(k) \in 0..Capacity
<1>1. CASE buckets[k] = NoBucket
  BY <1>1, Constants DEF Refilled
<1>2. CASE buckets[k] # NoBucket
  <2>1. /\ buckets[k].tokens \in 0..Capacity
        /\ Greatest(0, now - buckets[k].updatedAt) \in Nat
    BY <1>2 DEF TypeOK, Bucket, Greatest
  <2>2. Greatest(0, now - buckets[k].updatedAt) * PerMinute \in Nat
    BY <2>1, RefillGrows
  <2> QED
    BY <1>2, <2>1, <2>2, Constants DEF Refilled, Least
<1> QED
  BY <1>1, <1>2

\* The bucket of a request is brought up to date, whatever is taken from it.
LEMMA UpdatedType ==
  ASSUME TypeOK, NEW k \in Clients, NEW tokens \in 0..Capacity
  PROVE  /\ Updated(k, tokens) \in [Clients -> Bucket \union {NoBucket}]
         /\ Updated(k, tokens)[k] = [tokens |-> tokens, updatedAt |-> now]
         /\ [tokens |-> tokens, updatedAt |-> now] \in Bucket
         /\ \A j \in Clients \ {k} : Updated(k, tokens)[j] = buckets[j]
BY DEF TypeOK, Updated, Bucket

\* A cleanup drops idle buckets and keeps the others.
LEMMA CleanupDropsIdle ==
  ASSUME NEW map \in [Clients -> Bucket \union {NoBucket}]
  PROVE  /\ Cleanup(map) \in [Clients -> Bucket \union {NoBucket}]
         /\ \A j \in Clients :
              \/ Cleanup(map)[j] = map[j]
              \/ map[j] # NoBucket /\ Idle(map[j]) /\ Cleanup(map)[j] = NoBucket
BY DEF Cleanup

\* A granted request takes one token of its own bucket; other buckets may be
\* dropped, if they are idle.
LEMMA GrantEffect ==
  ASSUME TypeOK, NEW k \in Clients, Grant(k)
  PROVE  /\ buckets' \in [Clients -> Bucket \union {NoBucket}]
         /\ buckets'[k] = [tokens |-> Refilled(k) - TokenShares, updatedAt |-> now]
         /\ buckets'[k] # NoBucket
         /\ Refilled(k) - TokenShares \in 0..Capacity
         /\ \A j \in Clients \ {k} :
              \/ buckets'[j] = buckets[j]
              \/ buckets[j] # NoBucket /\ Idle(buckets[j]) /\ buckets'[j] = NoBucket
<1> DEFINE left == Refilled(k) - TokenShares
           map == Updated(k, left)
<1>1. left \in 0..Capacity
  BY RefilledRange, Constants DEF Grant
<1>2. /\ map \in [Clients -> Bucket \union {NoBucket}]
      /\ map[k] = [tokens |-> left, updatedAt |-> now]
      /\ map[k] \in Bucket
      /\ \A j \in Clients \ {k} : map[j] = buckets[j]
  BY <1>1, UpdatedType
<1>3. ~Idle(map[k]) /\ map[k] # NoBucket
  BY <1>2, BucketExists, Constants DEF Idle, TypeOK
<1>4. buckets' = Cleanup(map)
  BY DEF Grant
<1> HIDE DEF map, left
<1>5. /\ buckets' \in [Clients -> Bucket \union {NoBucket}]
      /\ \A j \in Clients : \/ buckets'[j] = map[j]
                            \/ map[j] # NoBucket /\ Idle(map[j]) /\ buckets'[j] = NoBucket
  BY <1>2, <1>4, CleanupDropsIdle
<1> QED
  BY <1>1, <1>2, <1>3, <1>5 DEF left

\* A limited request keeps the tokens it found.
LEMMA LimitEffect ==
  ASSUME TypeOK, NEW k \in Clients, Limit(k)
  PROVE  /\ buckets' \in [Clients -> Bucket \union {NoBucket}]
         /\ buckets'[k] = [tokens |-> Refilled(k), updatedAt |-> now]
         /\ buckets'[k] # NoBucket
         /\ \A j \in Clients \ {k} : buckets'[j] = buckets[j]
BY RefilledRange, UpdatedType, BucketExists DEF Limit

-----------------------------------------------------------------------------
(* What a client has afterwards.                                           *)

\* A bucket that has just been brought up to date holds what it says.
LEMMA FreshLevel ==
  ASSUME NEW k \in Clients, NEW tokens \in 0..Capacity, now \in Nat, now' = now,
         buckets'[k] = [tokens |-> tokens, updatedAt |-> now], buckets'[k] # NoBucket
  PROVE  Refilled(k)' = tokens
<1>1. /\ buckets'[k].tokens = tokens /\ buckets'[k].updatedAt = now
      /\ now' - buckets'[k].updatedAt = 0
  OBVIOUS
<1>2. Greatest(0, now' - buckets'[k].updatedAt) * PerMinute = 0
  BY <1>1, Constants DEF Greatest
<1> QED
  BY <1>1, <1>2, Constants DEF Refilled, Least

\* An idle bucket has refilled, if IdleMs is long enough for it.
LEMMA IdleIsFull ==
  ASSUME TypeOK, IdleRefills, NEW j \in Clients, buckets[j] # NoBucket, Idle(buckets[j])
  PROVE  Refilled(j) = Capacity
<1> DEFINE elapsed == now - buckets[j].updatedAt
<1>1. buckets[j].tokens \in 0..Capacity /\ elapsed \in Nat /\ IdleMs <= elapsed
  BY Constants DEF TypeOK, Bucket, Idle
<1>2. Capacity <= IdleMs * PerMinute /\ IdleMs * PerMinute <= elapsed * PerMinute
        /\ elapsed * PerMinute \in Nat
  BY <1>1, RefillGrows, Constants DEF IdleRefills
<1>3. Greatest(0, elapsed) = elapsed
  BY <1>1 DEF Greatest
<1>4. IdleMs * PerMinute \in Nat
  BY RefillGrows, Constants
<1> QED
  BY <1>1, <1>2, <1>3, <1>4, Constants DEF Refilled, Least

\* Neither the bucket of another client nor its eviction changes what one has.
LEMMA OthersLevel ==
  ASSUME TypeOK, IdleRefills, NEW j \in Clients, now' = now,
         \/ buckets'[j] = buckets[j]
         \/ buckets[j] # NoBucket /\ Idle(buckets[j]) /\ buckets'[j] = NoBucket
  PROVE  Refilled(j)' = Refilled(j)
<1>1. CASE buckets'[j] = buckets[j]
  BY <1>1 DEF Refilled
<1>2. CASE buckets[j] # NoBucket /\ Idle(buckets[j]) /\ buckets'[j] = NoBucket
  BY <1>2, IdleIsFull DEF Refilled
<1> QED
  BY <1>1, <1>2

\* The clock gives a client at most what its forward movement pays for.
LEMMA ClockPays ==
  ASSUME TypeOK, NEW k \in Clients, now' \in Nat, buckets' = buckets, NEW d \in Nat,
         now' <= now + d
  PROVE  Refilled(k)' <= Least(Capacity, Refilled(k) + d * PerMinute)
<1>1. d * PerMinute \in Nat
  BY RefillGrows
<1>2. CASE buckets[k] = NoBucket
  BY <1>1, <1>2, Constants DEF Refilled, Least
<1>3. CASE buckets[k] # NoBucket
  <2> DEFINE t == buckets[k].tokens
             u == buckets[k].updatedAt
             before == Greatest(0, now - u)
             after == Greatest(0, now' - u)
  <2>1. t \in 0..Capacity /\ u \in Nat /\ now \in Nat
    BY <1>3 DEF TypeOK, Bucket
  <2>2. before \in Nat /\ after \in Nat /\ after <= before + d /\ before + d \in Nat
    BY <2>1 DEF Greatest
  <2>3. /\ after * PerMinute \in Nat /\ before * PerMinute \in Nat
        /\ after * PerMinute <= (before + d) * PerMinute
    BY <2>2, RefillGrows
  <2>4. (before + d) * PerMinute = before * PerMinute + d * PerMinute
    BY <2>2, RefillAdds
  <2>5. /\ Refilled(k) = Least(Capacity, t + before * PerMinute)
        /\ Refilled(k)' = Least(Capacity, t + after * PerMinute)
    BY <1>3 DEF Refilled
  <2> HIDE DEF t, before, after
  <2> QED
    BY <1>1, <2>1, <2>3, <2>4, <2>5, Constants DEF Least
<1> QED
  BY <1>2, <1>3

-----------------------------------------------------------------------------
(* The inductive invariant.                                                *)

\* A client that was told to come back will find a whole token then.
PromiseCovers(k) ==
  promise[k] > 0 /\ buckets[k] # NoBucket =>
    /\ buckets[k].updatedAt <= promise[k]
    /\ buckets[k].tokens + (promise[k] - buckets[k].updatedAt) * PerMinute >= TokenShares

PromisesCover == \A k \in Clients : PromiseCovers(k)

\* While the clock has never been set, no bucket is from the future.
NoFutureBucket ==
  steps = 0 => \A k \in Clients : buckets[k] # NoBucket => buckets[k].updatedAt <= now

RInv == TypeOK /\ GrantsFollowClock /\ PromisesCover /\ NoFutureBucket

\* The limiter starts in a state of the invariant.
LEMMA InitRInv == Init => RInv
BY Constants
DEF Init, RInv, TypeOK, GrantsFollowClock, Refilled, PromisesCover, PromiseCovers, NoFutureBucket

\* A step that leaves a client's bucket and promise alone, or drops the bucket,
\* keeps its promise.
LEMMA PromiseKept ==
  ASSUME NEW j \in Clients, PromiseCovers(j), promise'[j] = promise[j],
         buckets'[j] = buckets[j] \/ buckets'[j] = NoBucket
  PROVE  PromiseCovers(j)'
BY DEF PromiseCovers

\* A granted request keeps the invariant.
LEMMA GrantStep ==
  ASSUME RInv, NEW k \in Clients, Grant(k)
  PROVE  RInv'
<1> USE DEF RInv
<1>1. /\ UNCHANGED <<now, steps>>
      /\ Refilled(k) >= TokenShares
      /\ fair' = [fair EXCEPT ![k] = @ - TokenShares]
      /\ promise' = [promise EXCEPT ![k] = 0]
      /\ reply' = [reply EXCEPT ![k] = "granted"]
      /\ now \in Nat /\ fair \in [Clients -> Int] /\ promise \in [Clients -> Nat]
  BY DEF Grant, TypeOK
<1>2. TypeOK'
  <2>1. buckets' \in [Clients -> Bucket \union {NoBucket}]
    BY GrantEffect
  <2>2. /\ fair' \in [Clients -> Int] /\ promise' \in [Clients -> Nat]
        /\ reply' \in [Clients -> {"none", "granted", "limited"}]
    BY <1>1, Constants DEF TypeOK
  <2> QED
    BY <1>1, <2>1, <2>2 DEF TypeOK
<1>3. GrantsFollowClock'
  <2> SUFFICES ASSUME IdleRefills, NEW j \in Clients
               PROVE  fair'[j] >= 0 /\ Refilled(j)' <= fair'[j]
    BY DEF GrantsFollowClock, IdleRefills, Capacity
  <2>1. fair[j] >= 0 /\ Refilled(j) <= fair[j] /\ Refilled(j) \in 0..Capacity
    BY RefilledRange DEF GrantsFollowClock
  <2>2. CASE j = k
    <3>1. Refilled(k)' = Refilled(k) - TokenShares
      BY <1>1, GrantEffect, FreshLevel
    <3> QED
      BY <1>1, <2>1, <2>2, <3>1, Constants
  <2>3. CASE j # k
    <3>1. Refilled(j)' = Refilled(j)
      BY <1>1, <2>3, GrantEffect, OthersLevel
    <3> QED
      BY <1>1, <2>1, <2>3, <3>1
  <2> QED
    BY <2>2, <2>3
<1>4. PromisesCover'
  <2> SUFFICES ASSUME NEW j \in Clients PROVE PromiseCovers(j)'
    BY DEF PromisesCover
  <2>1. CASE j = k
    BY <1>1, <2>1 DEF PromiseCovers
  <2>2. CASE j # k
    BY <1>1, <2>2, GrantEffect, PromiseKept DEF PromisesCover
  <2> QED
    BY <2>1, <2>2
<1>5. NoFutureBucket'
  <2> SUFFICES ASSUME steps' = 0, NEW j \in Clients, buckets'[j] # NoBucket
               PROVE  buckets'[j].updatedAt <= now'
    BY DEF NoFutureBucket
  <2>1. CASE j = k
    <3>1. buckets'[k] = [tokens |-> Refilled(k) - TokenShares, updatedAt |-> now]
      BY GrantEffect
    <3> QED
      BY <1>1, <2>1, <3>1
  <2>2. CASE j # k
    <3>1. buckets'[j] = buckets[j]
      BY <2>2, GrantEffect
    <3> QED
      BY <1>1, <3>1 DEF NoFutureBucket
  <2> QED
    BY <2>1, <2>2
<1> QED
  BY <1>2, <1>3, <1>4, <1>5

\* A limited request keeps the invariant.
LEMMA LimitStep ==
  ASSUME RInv, NEW k \in Clients, Limit(k)
  PROVE  RInv'
<1> USE DEF RInv
<1>1. /\ UNCHANGED <<now, fair, steps>>
      /\ Refilled(k) \in 0..TokenShares /\ Refilled(k) \in 0..Capacity
      /\ promise' = [promise EXCEPT ![k] = now + RetryAfter(Refilled(k)) * SecondMs]
      /\ reply' = [reply EXCEPT ![k] = "limited"]
      /\ now \in Nat /\ promise \in [Clients -> Nat]
  BY RefilledRange, Constants DEF Limit, TypeOK
<1>2. RetryAfter(Refilled(k)) \in Nat /\ RetryAfter(Refilled(k)) * SecondMs \in Nat
  BY <1>1, RetryAfterCovers, Constants
<1>3. TypeOK'
  <2>1. buckets' \in [Clients -> Bucket \union {NoBucket}]
    BY LimitEffect
  <2>2. /\ promise' \in [Clients -> Nat]
        /\ reply' \in [Clients -> {"none", "granted", "limited"}]
    BY <1>1, <1>2 DEF TypeOK
  <2> QED
    BY <1>1, <2>1, <2>2 DEF TypeOK
<1>4. GrantsFollowClock'
  <2> SUFFICES ASSUME IdleRefills, NEW j \in Clients
               PROVE  fair'[j] >= 0 /\ Refilled(j)' <= fair'[j]
    BY DEF GrantsFollowClock, IdleRefills, Capacity
  <2>1. Refilled(j)' = Refilled(j)
    <3>1. CASE j = k
      BY <1>1, <3>1, LimitEffect, FreshLevel
    <3>2. CASE j # k
      BY <1>1, <3>2, LimitEffect, OthersLevel
    <3> QED
      BY <3>1, <3>2
  <2> QED
    BY <1>1, <2>1 DEF GrantsFollowClock
<1>5. PromisesCover'
  <2> SUFFICES ASSUME NEW j \in Clients PROVE PromiseCovers(j)'
    BY DEF PromisesCover
  <2>1. CASE j = k
    <3> DEFINE wait == RetryAfter(Refilled(k)) * SecondMs
    <3>1. wait * PerMinute >= TokenShares - Refilled(k) /\ wait * PerMinute \in Nat
      BY <1>1, <1>2, RetryAfterCovers, RefillGrows
    <3>2. promise'[k] = now + wait /\ wait \in Nat /\ (now + wait) - now = wait
      BY <1>1, <1>2
    <3>3. buckets'[k] = [tokens |-> Refilled(k), updatedAt |-> now]
      BY LimitEffect
    <3> HIDE DEF wait
    <3> QED
      BY <1>1, <2>1, <3>1, <3>2, <3>3, Constants DEF PromiseCovers
  <2>2. CASE j # k
    BY <1>1, <2>2, LimitEffect, PromiseKept DEF PromisesCover
  <2> QED
    BY <2>1, <2>2
<1>6. NoFutureBucket'
  <2> SUFFICES ASSUME steps' = 0, NEW j \in Clients, buckets'[j] # NoBucket
               PROVE  buckets'[j].updatedAt <= now'
    BY DEF NoFutureBucket
  <2>1. CASE j = k
    <3>1. buckets'[k] = [tokens |-> Refilled(k), updatedAt |-> now]
      BY LimitEffect
    <3> QED
      BY <1>1, <2>1, <3>1
  <2>2. CASE j # k
    <3>1. buckets'[j] = buckets[j]
      BY <2>2, LimitEffect
    <3> QED
      BY <1>1, <3>1 DEF NoFutureBucket
  <2> QED
    BY <2>1, <2>2
<1> QED
  BY <1>3, <1>4, <1>5, <1>6

\* The passing of time and a clock that is set keep the invariant.
LEMMA ClockStep ==
  ASSUME RInv, Tick \/ SetClock
  PROVE  RInv'
<1> USE DEF RInv
<1>1. PICK d \in Nat :
        /\ now' \in Nat /\ now' <= now + d
        /\ fair' = Rise(d)
        /\ UNCHANGED <<buckets, reply>>
        /\ \/ now' = now + 1 /\ UNCHANGED <<promise, steps>>
           \/ promise' = [k \in Clients |-> 0] /\ steps' = steps + 1
  <2>1. CASE Tick
    BY <2>1 DEF Tick, TypeOK
  <2>2. CASE SetClock
    <3>1. PICK t \in 0..MaxTime : now' = t /\ fair' = Rise(Greatest(0, t - now))
      BY <2>2 DEF SetClock
    <3>2. /\ Greatest(0, t - now) \in Nat /\ t \in Nat
          /\ now' <= now + Greatest(0, t - now)
      BY <3>1, Constants DEF Greatest, TypeOK
    <3> QED
      BY <2>2, <3>1, <3>2 DEF SetClock
  <2> QED
    BY <2>1, <2>2
<1>2. /\ now \in Nat /\ steps \in Nat /\ fair \in [Clients -> Int] /\ d * PerMinute \in Nat
      /\ \A k \in Clients : fair'[k] = Least(Capacity, fair[k] + d * PerMinute)
      /\ fair' \in [Clients -> Int]
  BY <1>1, RefillGrows, Constants DEF TypeOK, Rise, Least
<1>3. TypeOK'
  BY <1>1, <1>2 DEF TypeOK
<1>4. GrantsFollowClock'
  <2> SUFFICES ASSUME IdleRefills, NEW j \in Clients
               PROVE  fair'[j] >= 0 /\ Refilled(j)' <= fair'[j]
    BY DEF GrantsFollowClock, IdleRefills, Capacity
  <2>1. fair[j] >= 0 /\ Refilled(j) <= fair[j] /\ Refilled(j) \in 0..Capacity
    BY RefilledRange DEF GrantsFollowClock
  <2>2. Refilled(j)' <= Least(Capacity, Refilled(j) + d * PerMinute)
    BY <1>1, ClockPays
  <2>3. Refilled(j)' \in Int
    BY <1>3, RefilledRange, Constants
    DEF Refilled, Least, Greatest, TypeOK, Bucket
  <2> QED
    BY <1>2, <2>1, <2>2, <2>3, Constants DEF Least
<1>5. PromisesCover'
  <2> SUFFICES ASSUME NEW j \in Clients PROVE PromiseCovers(j)'
    BY DEF PromisesCover
  <2> QED
    BY <1>1, PromiseKept DEF PromisesCover, PromiseCovers
<1>6. NoFutureBucket'
  BY <1>1, <1>2 DEF NoFutureBucket, TypeOK, Bucket
<1> QED
  BY <1>3, <1>4, <1>5, <1>6

\* Every step of the limiter keeps the invariant.
LEMMA RInvStep == RInv /\ [Next]_vars => RInv'
<1>1. ASSUME RInv, UNCHANGED vars PROVE RInv'
  BY <1>1
  DEF vars, RInv, TypeOK, GrantsFollowClock, Refilled, PromisesCover, PromiseCovers, NoFutureBucket
<1> QED
  BY <1>1, GrantStep, LimitStep, ClockStep DEF Next

\* Every state of the limiter satisfies the invariant.
LEMMA Invariance == Spec => []RInv
<1>1. Init => RInv
  BY InitRInv
<1>2. RInv /\ [Next]_vars => RInv'
  BY RInvStep
<1> QED
  BY <1>1, <1>2, PTL DEF Spec

-----------------------------------------------------------------------------
(* The theorems.                                                           *)

\* However the clock is set and buckets come and go, clients are granted no more
\* requests than a full bucket and the forward movement of the clock pay for.
THEOREM Grants == Spec => []GrantsFollowClock
<1>1. RInv => GrantsFollowClock
  BY DEF RInv
<1> QED
  BY <1>1, Invariance, PTL

\* A client that waits as long as Retry-After told it is granted its request, for
\* every rate and burst, whether its bucket was kept or thrown away meanwhile.
THEOREM Patience == Spec => RetryAfterSuffices
<1>1. RInv => \A k \in Clients : promise[k] > 0 /\ now >= promise[k] => ~Limit(k)
  <2> SUFFICES ASSUME RInv, NEW k \in Clients, promise[k] > 0, now >= promise[k]
               PROVE  ~(Refilled(k) < TokenShares)
    BY DEF Limit
  <2>1. CASE buckets[k] = NoBucket
    BY <2>1, Constants DEF Refilled
  <2>2. CASE buckets[k] # NoBucket
    <3> DEFINE t == buckets[k].tokens
               u == buckets[k].updatedAt
               promised == (promise[k] - u) * PerMinute
               elapsed == (now - u) * PerMinute
    <3>1. /\ t \in Nat /\ u \in Nat /\ now \in Nat /\ promise[k] \in Nat
          /\ u <= promise[k] /\ t + promised >= TokenShares
      BY <2>2, Constants DEF RInv, TypeOK, Bucket, PromisesCover, PromiseCovers
    <3>2. /\ promise[k] - u \in Nat /\ now - u \in Nat /\ promise[k] - u <= now - u
          /\ Greatest(0, now - u) = now - u
      BY <3>1 DEF Greatest
    <3>3. promised \in Nat /\ elapsed \in Nat /\ promised <= elapsed
      <4>1. elapsed \in Nat
        BY <3>2, RefillGrows
      <4> QED
        BY <3>2, <4>1, RefillGrows
    <3>4. Refilled(k) = Least(Capacity, t + elapsed)
      BY <2>2, <3>2 DEF Refilled
    <3> HIDE DEF t, promised, elapsed
    <3> QED
      BY <3>1, <3>3, <3>4, Constants DEF Least
  <2> QED
    BY <2>1, <2>2
<1> QED
  BY <1>1, Invariance, PTL DEF Spec, RetryAfterSuffices

\* When a new bucket leaves the map larger than MaxBuckets, everyone in it has
\* asked within IdleMs: cleanup leaves out no bucket it could have thrown away.
THEOREM Cleaned == Spec => OvergrownMapIsActive
<1>1. RInv /\ [Next]_vars =>
        [\A k \in Clients :
           /\ buckets[k] = NoBucket /\ buckets'[k] # NoBucket
           /\ Cardinality({j \in Clients : buckets'[j] # NoBucket}) > MaxBuckets
           => \A j \in Clients : buckets'[j] # NoBucket => ~Idle(buckets'[j])]_vars
  <2> SUFFICES ASSUME RInv, [Next]_vars, NEW k \in Clients,
                      buckets[k] = NoBucket, buckets'[k] # NoBucket,
                      Cardinality({j \in Clients : buckets'[j] # NoBucket}) > MaxBuckets,
                      NEW i \in Clients, buckets'[i] # NoBucket
               PROVE  ~Idle(buckets'[i])
    OBVIOUS
  <2>1. TypeOK
    BY DEF RInv
  <2>2. PICK c \in Clients : Grant(c)
    <3>1. ~(Tick \/ SetClock \/ UNCHANGED vars)
      BY DEF Tick, SetClock, vars
    <3>2. ASSUME NEW c \in Clients, Limit(c) PROVE FALSE
      <4>1. c = k
        BY <2>1, <3>2, LimitEffect
      <4> QED
        BY <3>2, <4>1, Constants DEF Limit, Refilled
    <3> QED
      BY <3>1, <3>2 DEF Next
  <2> DEFINE map == Updated(c, Refilled(c) - TokenShares)
             kept == [j \in Clients |->
                        IF map[j] # NoBucket /\ Idle(map[j]) THEN NoBucket ELSE map[j]]
  <2>3. buckets' = map \/ buckets' = kept
    BY <2>2 DEF Grant, Cleanup
  <2>4. buckets' = kept
    <3> SUFFICES ASSUME buckets' = map PROVE buckets' = kept
      BY <2>3
    <3> QED
      BY <2>2 DEF Grant, Cleanup
  <2> HIDE DEF map
  <2> QED
    BY <2>4
<1> QED
  BY <1>1, Invariance, PTL DEF Spec, OvergrownMapIsActive

-----------------------------------------------------------------------------
(* The refinement.                                                         *)

\* The levels of the bucket the limiter stands for.
Level == [k \in Clients |-> Refilled(k)]

\* A tick of a clock that has never been set raises every level by one refill.
LEMMA TickElapses ==
  ASSUME RInv, steps = 0, Tick
  PROVE  Ideal!Elapse
<1> SUFFICES ASSUME NEW k \in Clients
             PROVE  Refilled(k)' = Ideal!AtMost(Capacity, Refilled(k) + PerMinute)
  BY DEF Ideal!Elapse, Tick
<1>1. now' = now + 1 /\ buckets' = buckets /\ now \in Nat
  BY DEF Tick, RInv, TypeOK
<1>2. CASE buckets[k] = NoBucket
  BY <1>1, <1>2, Constants DEF Refilled, Ideal!AtMost
<1>3. CASE buckets[k] # NoBucket
  <2> DEFINE t == buckets[k].tokens
             elapsed == now - buckets[k].updatedAt
  <2>1. t \in 0..Capacity /\ elapsed \in Nat /\ now' - buckets[k].updatedAt = elapsed + 1
    BY <1>1, <1>3 DEF RInv, TypeOK, Bucket, NoFutureBucket
  <2>2. Greatest(0, elapsed) = elapsed /\ Greatest(0, elapsed + 1) = elapsed + 1
    BY <2>1 DEF Greatest
  <2>3. /\ (elapsed + 1) * PerMinute = elapsed * PerMinute + 1 * PerMinute
        /\ elapsed * PerMinute \in Nat /\ 1 * PerMinute = PerMinute
    BY <2>1, RefillAdds, RefillGrows, Constants
  <2>4. /\ Refilled(k) = Least(Capacity, t + elapsed * PerMinute)
        /\ Refilled(k)' = Least(Capacity, t + (elapsed + 1) * PerMinute)
    BY <1>1, <1>3, <2>1, <2>2 DEF Refilled
  <2> HIDE DEF t, elapsed
  <2> QED
    BY <2>1, <2>3, <2>4, Constants DEF Least, Ideal!AtMost
<1> QED
  BY <1>2, <1>3

\* A request is granted or limited as the level says, and changes no other level.
LEMMA RequestRefines ==
  ASSUME RInv, IdleRefills, NEW k \in Clients
  PROVE  /\ Grant(k) => Ideal!Grant(k)
         /\ Limit(k) => Ideal!Limit(k)
<1> USE DEF RInv
<1>1. ASSUME Grant(k) PROVE Ideal!Grant(k)
  <2>1. now' = now /\ now \in Nat /\ Refilled(k) >= TokenShares
    BY <1>1 DEF Grant, TypeOK
  <2>2. Refilled(k)' = Refilled(k) - TokenShares
    BY <1>1, <2>1, GrantEffect, FreshLevel
  <2>3. \A j \in Clients \ {k} : Refilled(j)' = Refilled(j)
    BY <1>1, <2>1, GrantEffect, OthersLevel
  <2>4. Level' = [Level EXCEPT ![k] = @ - TokenShares] /\ Level[k] >= TokenShares
    BY <2>1, <2>2, <2>3 DEF Level
  <2> QED
    BY <1>1, <2>4 DEF Ideal!Grant, Grant, Level
<1>2. ASSUME Limit(k) PROVE Ideal!Limit(k)
  <2>1. now' = now /\ now \in Nat /\ Refilled(k) < TokenShares
    BY <1>2 DEF Limit, TypeOK
  <2>2. Refilled(k)' = Refilled(k)
    BY <1>2, <2>1, LimitEffect, FreshLevel, RefilledRange
  <2>3. \A j \in Clients \ {k} : Refilled(j)' = Refilled(j)
    BY <1>2, <2>1, LimitEffect, OthersLevel
  <2>4. Level' = Level /\ Level[k] < TokenShares
    BY <2>1, <2>2, <2>3 DEF Level
  <2> QED
    BY <1>2, <2>4 DEF Ideal!Limit, Limit, Level
<1> QED
  BY <1>1, <1>2

\* If a bucket that may be thrown away has refilled, lazy refills and evictions
\* cannot be told from a level that rises with every tick, until the wall clock is
\* set for the first time.
THEOREM Refinement ==
  ASSUME IdleRefills
  PROVE  Spec => ImplementsTokenBucket
<1>1. Init => Ideal!Init
  BY DEF Init, Ideal!Init, Refilled
<1>2. RInv /\ [Next]_vars => [steps' = 0 => [Ideal!Next]_(Ideal!vars)]_vars
  <2> SUFFICES ASSUME RInv, [Next]_vars, steps' = 0
               PROVE  [Ideal!Next]_(Ideal!vars)
    OBVIOUS
  <2>1. CASE Tick
    BY <2>1, TickElapses DEF Tick, Ideal!Next
  <2>2. CASE SetClock
    BY <2>2 DEF SetClock, RInv, TypeOK
  <2>3. ASSUME NEW k \in Clients, Grant(k) \/ Limit(k) PROVE Ideal!Next
    BY <2>3, RequestRefines DEF Ideal!Next
  <2>4. CASE UNCHANGED vars
    BY <2>4 DEF vars, Ideal!vars, Refilled
  <2> QED
    BY <2>1, <2>2, <2>3, <2>4 DEF Next
<1> QED
  BY <1>1, <1>2, Invariance, PTL DEF Spec, ImplementsTokenBucket
=============================================================================
