--------------------------- MODULE IdempotencyCache ---------------------------
(***************************************************************************)
(* The IdempotencyCache class of src/idempotency.js: per principal and     *)
(* Idempotency-Key, the answer given to the submission that succeeded.     *)
(* An expired entry stays in the map until `get` meets it or a `set` finds *)
(* the map larger than MaxEntries and cleans it up.                        *)
(*                                                                         *)
(* A principal id holds no colon (security.js makes it "anonymous" or      *)
(* "bank-" and hex digits), so the string scope:key is the pair.  SHA-256  *)
(* is taken to be injective: the fingerprint of a body is the body.        *)
(***************************************************************************)
EXTENDS Integers, FiniteSets

CONSTANTS
  Principals,
  Keys,        \* values of the Idempotency-Key header, without NoKey
  NoKey,       \* the header is absent
  Bodies,
  Responses,   \* payloads an entry may hold
  NoEntry,
  TtlMs,       \* config.idempotency.ttlMs
  MaxEntries   \* 10000 in the code

ASSUME IdempotencyAssumption ==
  /\ NoKey \notin Keys
  /\ TtlMs \in Nat \ {0}
  /\ MaxEntries \in Nat

VARIABLE entries

CacheKeys == Principals \X Keys
Entry == [fingerprint : Bodies, response : Responses, expiresAt : Nat]
ASSUME NoEntryAssumption == NoEntry \notin Entry /\ NoEntry \notin Keys /\ NoEntry \notin Responses

EntriesType == entries \in [CacheKeys -> Entry \union {NoEntry}]
NoEntries == [k \in CacheKeys |-> NoEntry]

Size(map) == Cardinality({k \in CacheKeys : map[k] # NoEntry})

-----------------------------------------------------------------------------
\* Mutant: an entry expires a tick early.
ExpiredAtLimit(entry, instant) == instant >= entry.expiresAt

Expired(entry, instant) == instant > entry.expiresAt
Live(entry, instant) == entry # NoEntry /\ ~Expired(entry, instant)

\* Mutant: the fingerprint is not compared.
HitAnyBody(k, body, instant) == k \in CacheKeys /\ Live(entries[k], instant)

\* The three outcomes of get(scope, key, body) at `instant`.  The cache key is
\* k = <<scope, key>>; without the header, k is not in CacheKeys.
Hit(k, body, instant) ==
  /\ k \in CacheKeys
  /\ Live(entries[k], instant)
  /\ entries[k].fingerprint = body

Conflict(k, body, instant) ==
  /\ k \in CacheKeys
  /\ Live(entries[k], instant)
  /\ entries[k].fingerprint # body

Miss(k, instant) == k \in CacheKeys => ~Live(entries[k], instant)

\* A miss deletes the expired entry it met.
AfterMiss(k) ==
  IF k \in CacheKeys THEN [entries EXCEPT ![k] = NoEntry] ELSE entries

\* Mutant: the whole map is cleared.
CleanupAll(map, instant) == NoEntries

Cleanup(map, instant) ==
  [k \in CacheKeys |-> IF Live(map[k], instant) THEN map[k] ELSE NoEntry]

\* set(scope, key, body, response), with the cleanup of an overgrown map.
AfterSet(k, body, response, instant) ==
  IF k \notin CacheKeys THEN entries
  ELSE LET entry == [fingerprint |-> body, response |-> response,
                     expiresAt |-> instant + TtlMs]
           map == [entries EXCEPT ![k] = entry]
       IN  IF Size(map) > MaxEntries THEN Cleanup(map, instant) ELSE map
=============================================================================
