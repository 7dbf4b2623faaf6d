-------------------------- MODULE MCSubmitTransaction -------------------------
(***************************************************************************)
(* Workloads for SubmitTransaction.  A request is named by a string; "bad" *)
(* is a body the submission policy refuses.                                *)
(***************************************************************************)
EXTENDS SubmitTransaction, TLC

Submit(k, b) == [kind |-> "submit", principal |-> "p", key |-> k, body |-> b]
Simulate(b) == [kind |-> "simulate", principal |-> "p", key |-> NoKey, body |-> b]
As(q, request) == [request EXCEPT !.principal = q]

MCVerdict == [b \in Bodies |-> IF b = "bad" THEN 403 ELSE 0]

\* One key: a retry of the same submission, and another payload under that key.
SameKey == { "r1" :> Submit("k", "b1") @@ "r2" :> Submit("k", "b1") @@
             "r3" :> Submit("k", "b2") }

\* Keys of two principals, two keys, or no key: nothing is shared; with
\* MaxEntries = 1 the second entry makes `set` clean up.
OtherKeys ==
  { "r1" :> Submit("k", "b1") @@ "r2" :> As("q", Submit("k", "b1")) @@
    "r3" :> Submit("k", "b1"),
    "r1" :> Submit("k", "b1") @@ "r2" :> Submit("j", "b1") @@
    "r3" :> Submit(NoKey, "b1") }

\* Pairs for the runs that verify the network.
Pairs ==
  { "r1" :> Submit("k", "b1") @@ "r2" :> Submit("k", "b1"),
    "r1" :> Submit("k", "b1") @@ "r2" :> Simulate("b1"),
    "r1" :> Submit("k", "bad") @@ "r2" :> Submit(NoKey, "b1") }

\* A client that reuses its key, with the same or another payload.
Retries ==
  { "r1" :> Submit("k", "b1") @@ "r2" :> Submit("k", "b1"),
    "r1" :> Submit("k", "b1") @@ "r2" :> Submit("k", "b2") }

Keyed3 == SameKey \union OtherKeys
=============================================================================
