------------------------------ MODULE TokenBucket -----------------------------
(***************************************************************************)
(* The token bucket a client of the gateway may rely on: every client has  *)
(* a level that rises steadily up to Capacity, a request is granted when   *)
(* the level covers its Cost and refused exactly when it does not.         *)
(***************************************************************************)
EXTENDS Integers

CONSTANTS
  Clients,
  Capacity,  \* highest level
  Cost,      \* of one request
  Refill     \* rise of the level per tick

VARIABLES
  level,
  reply      \* what the client's last request was told

vars == <<level, reply>>

AtMost(bound, n) == IF n < bound THEN n ELSE bound

Init ==
  /\ level = [k \in Clients |-> Capacity]
  /\ reply = [k \in Clients |-> "none"]

Elapse ==
  /\ level' = [k \in Clients |-> AtMost(Capacity, level[k] + Refill)]
  /\ UNCHANGED reply

Grant(k) ==
  /\ level[k] >= Cost
  /\ level' = [level EXCEPT ![k] = @ - Cost]
  /\ reply' = [reply EXCEPT ![k] = "granted"]

Limit(k) ==
  /\ level[k] < Cost
  /\ reply' = [reply EXCEPT ![k] = "limited"]
  /\ UNCHANGED level

Next == Elapse \/ \E k \in Clients : Grant(k) \/ Limit(k)

Spec == Init /\ [][Next]_vars
=============================================================================
