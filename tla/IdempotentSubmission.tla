------------------------- MODULE IdempotentSubmission -------------------------
(***************************************************************************)
(* What submission under an Idempotency-Key promises, with no cache, clock *)
(* or upstream: each scope -- a principal's key -- has a register that     *)
(* holds the submission last acknowledged under it, or nothing.  While the *)
(* register holds a submission, a request of that scope is never           *)
(* forwarded; it is given the acknowledgement of that submission if its    *)
(* body is the same.  The register may be forgotten (expiry, restart).     *)
(***************************************************************************)
CONSTANTS Requests, Scopes, NoScope, Nothing

VARIABLES
  asked,    \* scope and body of each request
  record,   \* the register of each scope
  state,    \* "new", "forwarding", "done", "lost"
  of        \* the submission whose acknowledgement the request was given

vars == <<asked, record, state, of>>

Init ==
  /\ record = [k \in Scopes |-> Nothing]
  /\ state = [c \in Requests |-> "new"]
  /\ of = [c \in Requests |-> Nothing]

Forward(c) ==
  /\ state[c] = "new"
  /\ asked[c].scope # NoScope => record[asked[c].scope] = Nothing
  /\ state' = [state EXCEPT ![c] = "forwarding"]
  /\ UNCHANGED <<asked, record, of>>

Acknowledge(c) ==
  /\ state[c] = "forwarding"
  /\ state' = [state EXCEPT ![c] = "done"]
  /\ of' = [of EXCEPT ![c] = c]
  /\ record' = IF asked[c].scope = NoScope THEN record
                                           ELSE [record EXCEPT ![asked[c].scope] = c]
  /\ UNCHANGED asked

Replay(c) ==
  /\ state[c] = "new"
  /\ asked[c].scope # NoScope
  /\ LET d == record[asked[c].scope]
     IN  /\ d # Nothing
         /\ asked[d] = asked[c]
         /\ of' = [of EXCEPT ![c] = d]
  /\ state' = [state EXCEPT ![c] = "done"]
  /\ UNCHANGED <<asked, record>>

\* An error: of the request itself, a key conflict, or an upstream failure.
Refuse(c) ==
  /\ state[c] \in {"new", "forwarding"}
  /\ state' = [state EXCEPT ![c] = "done"]
  /\ UNCHANGED <<asked, record, of>>

\* Registers expire; a restart forgets all of them and loses what is forwarded.
Forget ==
  /\ \E kept \in SUBSET Scopes :
       record' = [k \in Scopes |-> IF k \in kept THEN record[k] ELSE Nothing]
  /\ \/ UNCHANGED state
     \/ /\ record' = [k \in Scopes |-> Nothing]
        /\ state' = [c \in Requests |-> IF state[c] = "forwarding" THEN "lost"
                                                                   ELSE state[c]]
  /\ UNCHANGED <<asked, of>>

Next ==
  \/ Forget
  \/ \E c \in Requests : Forward(c) \/ Acknowledge(c) \/ Replay(c) \/ Refuse(c)

Spec == Init /\ [][Next]_vars
=============================================================================
