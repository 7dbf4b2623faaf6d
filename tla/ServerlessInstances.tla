--------------------------- MODULE ServerlessInstances --------------------------
(***************************************************************************)
(* createLazyProductionFetchHandler of src/vercel-adapter.js: the platform  *)
(* starts and stops instances of the function as it likes and sends each    *)
(* request to any of them.  The first request of an instance makes its      *)
(* handler, with a limiter and a cache of its own, or an error it keeps.    *)
(*                                                                          *)
(* What the platform does is external.  One client sends one submission     *)
(* under one key again and again, at one moment: no bucket refills, no      *)
(* entry expires, and one submission is answered before the next is sent.   *)
(* The submission is one that submitTransaction of src/gateway.js accepts;  *)
(* what can fail is the check of the network and the POST.                  *)
(***************************************************************************)
EXTENDS Configuration, FiniteSets

CONSTANTS
  Instances,
  Deployments,   \* environments the function is deployed with
  MaxStarts, MaxSubmissions   \* bounds for TLC

ASSUME InstancesAssumption == IsFiniteSet(Instances)

\* instance: what each has made; starts: of instances; granted: requests the
\* limiters let through; acknowledged: those algod took, each time anew; failed: an
\* instance said configuration_error.
VARIABLE fleet

Made(what, level, cached) == [made |-> what, level |-> level, cached |-> cached]
NoHandler == Made("none", 0, FALSE)

FleetOf(e) ==
  [env |-> e, instance |-> [i \in Instances |-> NoHandler], starts |-> Cardinality(Instances),
   granted |-> 0, acknowledged |-> 0, failed |-> FALSE]

FleetInit == \E e \in Deployments : fleet = FleetOf(e)

\* Mutant: the handler is not kept.
PreparedAnew(made) ==
  IF Accepted(fleet.env) THEN Made("handler", Integer(fleet.env, "RATE_LIMIT_BURST"), FALSE)
  ELSE Made("error", 0, FALSE)

\* The handler or the error of an instance once a request has reached it.
Prepared(made) ==
  IF made.made # "none" THEN made
  ELSE IF Accepted(fleet.env)
    THEN Made("handler", Integer(fleet.env, "RATE_LIMIT_BURST"), FALSE)
  ELSE Made("error", 0, FALSE)

Admits(made) == ~Flag(fleet.env, "RATE_LIMIT_ENABLED") \/ made.level > 0

Keep(i, made) == [fleet.instance EXCEPT ![i] = made]

FailConfiguration(i) ==
  /\ Prepared(fleet.instance[i]).made = "error"
  /\ fleet' = [fleet EXCEPT !.instance = Keep(i, Prepared(fleet.instance[i])),
                            !.failed = TRUE]

\* check lets a submission through; then the key is cached or not, and so many
\* submissions have been taken anew.
Serve(i, cached, taken) ==
  LET made == Prepared(fleet.instance[i])
  IN  /\ made.made = "handler" /\ Admits(made)
      /\ fleet.granted < MaxSubmissions
      /\ fleet' = [fleet EXCEPT
           !.instance = Keep(i, Made("handler", IF made.level > 0 THEN made.level - 1 ELSE 0,
                                     cached)),
           !.granted = @ + 1,
           !.acknowledged = @ + taken]

Replay(i) == Prepared(fleet.instance[i]).cached /\ Serve(i, TRUE, 0)

\* The POST succeeds: only then does idempotency.set keep the answer.
Forward(i) == ~Prepared(fleet.instance[i]).cached /\ Serve(i, TRUE, 1)

\* verifyNetwork or the POST throws: nothing is kept.
ForwardFails(i) == ~Prepared(fleet.instance[i]).cached /\ Serve(i, FALSE, 0)

\* The limiter refuses.
RefuseSubmit(i) ==
  LET made == Prepared(fleet.instance[i])
  IN  /\ made.made = "handler" /\ ~Admits(made)
      /\ fleet' = [fleet EXCEPT !.instance = Keep(i, made)]

\* The platform ends an instance and starts another.
ReplaceInstance(i) ==
  /\ fleet.starts < MaxStarts
  /\ fleet' = [fleet EXCEPT !.instance = Keep(i, NoHandler), !.starts = @ + 1]

FleetNext ==
  \E i \in Instances :
    \/ FailConfiguration(i) \/ RefuseSubmit(i) \/ ReplaceInstance(i)
    \/ Replay(i) \/ Forward(i) \/ ForwardFails(i)

FleetSpec == FleetInit /\ [][FleetNext]_fleet

-----------------------------------------------------------------------------
\* A client that retries a submission gets at most a burst of tokens, and at most one
\* acknowledgement that is no replay, from every instance the platform has started:
\* making the handler lazily does not make it, and what it remembers, anew with each
\* request.  (A submission whose POST failed leaves nothing behind, and the instance
\* forwards the next one again.  The platform sets no bound on the instances, nor
\* does the code share anything between them.)
InstancesRemember ==
  LET burst == Integer(fleet.env, "RATE_LIMIT_BURST")
  IN  /\ fleet.acknowledged <= fleet.starts
      /\ fleet.granted > 0 /\ Flag(fleet.env, "RATE_LIMIT_ENABLED") =>
           fleet.granted <= burst * fleet.starts
      /\ fleet.failed => fleet.granted = 0
=============================================================================
