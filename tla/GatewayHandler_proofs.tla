------------------------- MODULE GatewayHandler_proofs -------------------------
(***************************************************************************)
(* Proofs about GatewayHandler for any number of overlapping requests, any *)
(* keys, addresses, configuration and error statuses.                      *)
(*                                                                         *)
(* The argument: every step of a plan that a handler has gone past is      *)
(* behind it for good -- what it had to bring it has brought, unless it    *)
(* failed and the failure was recorded -- whether it made a call or was    *)
(* answered from the cache.  A handler that completes has gone past every  *)
(* step of its plan.                                                       *)
(***************************************************************************)
EXTENDS GatewayHandler, SequenceTheorems, TLAPS

-----------------------------------------------------------------------------
(* Facts about the plans.                                                  *)

\* Readiness holds the check of the network.
LEMMA ReadinessPlan ==
  /\ Readiness \in Seq(ReadinessSteps) /\ Len(Readiness) \in {2, 3}
  /\ Readiness[2] = "readyNetwork"
<1> DEFINE two == <<"readyStatus", "readyNetwork">>
<1>1. two \in Seq(ReadinessSteps) /\ Len(two) = 2 /\ two[2] = "readyNetwork"
  BY DEF ReadinessSteps
<1>2. ASSUME NEW rest \in Seq(ReadinessSteps), Len(rest) \in {0, 1}, Readiness = two \o rest
      PROVE  /\ Readiness \in Seq(ReadinessSteps) /\ Len(Readiness) \in {2, 3}
             /\ Readiness[2] = "readyNetwork"
  <2> HIDE DEF two
  <2>1. /\ Readiness \in Seq(ReadinessSteps) /\ Len(Readiness) = 2 + Len(rest)
        /\ \A j \in 1..(2 + Len(rest)) :
             Readiness[j] = IF j <= 2 THEN two[j] ELSE rest[j - 2]
    BY <1>1, <1>2, ConcatProperties, SMTT(30)
  <2> QED
    BY <1>1, <1>2, <2>1
<1>3. CASE hasIndexer
  <2>1. <<"readyIndexer">> \in Seq(ReadinessSteps) /\ Len(<<"readyIndexer">>) \in {0, 1}
    BY DEF ReadinessSteps
  <2> QED
    BY <1>2, <1>3, <2>1 DEF Readiness
<1>4. CASE ~hasIndexer
  <2>1. << >> \in Seq(ReadinessSteps) /\ Len(<< >>) \in {0, 1}
    OBVIOUS
  <2> QED
    BY <1>2, <1>4, <2>1 DEF Readiness
<1> QED
  BY <1>3, <1>4

Parts == {"status", "params", "network", "account", "history"}

\* The evidence plan is readiness and then the five parts of the document.
LEMMA EvidencePlan ==
  /\ Evidence \in Seq(ReadinessSteps \union Parts)
  /\ Len(Evidence) \in {7, 8}
  /\ Evidence[2] = "readyNetwork"
  /\ \A s \in Parts : \E j \in 1..Len(Evidence) : Evidence[j] = s
<1> DEFINE five == <<"status", "params", "network", "account", "history">>
           S == ReadinessSteps \union Parts
           n == Len(Readiness)
<1>1. /\ five \in Seq(S) /\ Len(five) = 5
      /\ five[1] = "status" /\ five[2] = "params" /\ five[3] = "network"
      /\ five[4] = "account" /\ five[5] = "history"
  BY DEF Parts
<1>2. Evidence = Readiness \o five
  BY DEF Evidence
<1>3. Readiness \in Seq(S) /\ n \in {2, 3} /\ Readiness[2] = "readyNetwork"
  BY ReadinessPlan
<1> HIDE DEF five, S
<1>4. /\ Evidence \in Seq(S) /\ Len(Evidence) = n + 5
      /\ \A j \in 1..(n + 5) :
           Evidence[j] = IF j <= n THEN Readiness[j] ELSE five[j - n]
  <2>1. /\ Readiness \o five \in Seq(S) /\ Len(Readiness \o five) = n + Len(five)
        /\ \A j \in 1..(n + Len(five)) :
             (Readiness \o five)[j] = IF j <= n THEN Readiness[j] ELSE five[j - n]
    BY <1>1, <1>3, ConcatProperties
  <2> QED
    BY <1>1, <1>2, <2>1
<1>5. \A i \in 1..5 : n + i \in 1..(n + 5) /\ Evidence[n + i] = five[i]
  BY <1>3, <1>4
<1>6. \A s \in Parts : \E i \in 1..5 : five[i] = s
  BY <1>1 DEF Parts
<1>7. \A s \in Parts : \E j \in 1..Len(Evidence) : Evidence[j] = s
  BY <1>4, <1>5, <1>6
<1>8. Evidence[2] = "readyNetwork" /\ Len(Evidence) \in {7, 8}
  BY <1>3, <1>4
<1> QED
  BY <1>4, <1>7, <1>8 DEF S

\* The plans of the routes.
LEMMA PlanOf ==
  /\ Plan("ready") = Readiness /\ Plan("evidence") = Evidence
  /\ Plan("params") = <<"params", "network">>
  /\ \A route : route \notin {"ready", "evidence", "params"} =>
       Plan(route) \in {<<"indexer">>, <<"submission">>, <<"algod">>}
BY DEF Plan, SubmissionRoutes

\* A plan has one to eight steps.
LEMMA PlanLength ==
  ASSUME NEW route
  PROVE  Len(Plan(route)) \in 1..8 /\ DOMAIN Plan(route) = 1..Len(Plan(route))
<1>1. Len(Readiness) \in 1..8 /\ DOMAIN Readiness = 1..Len(Readiness)
  BY ReadinessPlan
<1>2. Len(Evidence) \in 1..8 /\ DOMAIN Evidence = 1..Len(Evidence)
  BY EvidencePlan
<1>3. CASE route \in {"ready", "evidence"}
  <2>1. Plan(route) = Readiness \/ Plan(route) = Evidence
    BY <1>3, PlanOf
  <2> QED
    BY <1>1, <1>2, <2>1, Zenon
<1>4. CASE route \notin {"ready", "evidence"}
  <2>1. \/ Plan(route) = <<"params", "network">> \/ Plan(route) = <<"indexer">>
        \/ Plan(route) = <<"submission">> \/ Plan(route) = <<"algod">>
    BY <1>4, PlanOf
  <2> QED
    BY <2>1
<1> QED
  BY <1>3, <1>4

\* What the answers vouch for is among the steps of their plans.
LEMMA PlanHolds ==
  /\ \E j \in 1..Len(Plan("evidence")) : Plan("evidence")[j] = "readyNetwork"
  /\ \A s \in Parts : \E j \in 1..Len(Plan("evidence")) : Plan("evidence")[j] = s
  /\ \A j \in 1..Len(Plan("evidence")) : Plan("evidence")[j] # "submission"
  /\ \E j \in 1..Len(Plan("ready")) : Plan("ready")[j] = "readyNetwork"
  /\ \E j \in 1..Len(Plan("params")) : Plan("params")[j] = "network"
<1>1. \A j \in 1..Len(Evidence) : Evidence[j] \in ReadinessSteps \union Parts
  BY EvidencePlan
<1>2. \A j \in 1..Len(Evidence) : Evidence[j] # "submission"
  BY <1>1 DEF ReadinessSteps, Parts
<1>3. 2 \in 1..Len(Evidence) /\ 2 \in 1..Len(Readiness)
  BY EvidencePlan, ReadinessPlan
<1> QED
  BY <1>2, <1>3, EvidencePlan, ReadinessPlan, PlanOf, SMTT(30)

-----------------------------------------------------------------------------
(* The invariant.                                                          *)

\* What a step the handler of c has gone past has left behind.
Behind(c, step) ==
  /\ EnforceMainnet /\ step = "readyNetwork" /\ step \notin failed[c] => c \in mainnetSeen
  /\ EnforceMainnet /\ step = "network" => mainnetSeen # {}
  /\ IsPart(rq[c], step) => step \in gathered[c] \union blank[c]

Trail(c) ==
  /\ at[c] = 0 => failed[c] = {}
  /\ Pending(c) => /\ at[c] \in 1..Len(Plan(rq[c].route))
                   /\ \A j \in 1..(at[c] - 1) : Behind(c, StepAt(c, j))

\* A request at work has seen MainNet if algod, or the answer on its way, is MainNet's,
\* and an empty answer on its way is known to be one.
Witnessed(c) ==
  Pending(c) =>
    /\ algodNet = "mainnet" => c \in mainnetSeen
    /\ reply[c].body = "mainnet" => c \in mainnetSeen
    /\ reply[c].body = "served" => Step(c) \in IndexerSteps
    /\ reply[c].body = "empty" /\ IsPart(rq[c], Step(c)) => Step(c) \in blank[c]

Admitted(c) ==
  Pending(c) =>
    /\ IpAllowed(rq[c]) /\ Authenticated(rq[c])
    /\ RouteStatus(rq[c]) = 0 /\ rq[c].route # "health"

Shape ==
  /\ rq \in [Requests -> Request] /\ hasIndexer \in BOOLEAN
  /\ at \in [Requests -> 0..Done]
  /\ reply \in [Requests -> Replies \union {Waiting}]
  /\ failed \in [Requests -> SUBSET ReadinessSteps]
  /\ DOMAIN gathered = Requests /\ gathered = [c \in Requests |-> gathered[c]]
  /\ DOMAIN blank = Requests /\ blank = [c \in Requests |-> blank[c]]
  /\ answer \in [Requests -> [status : 0..599, verified : BOOLEAN, connected : BOOLEAN]]
  /\ algodNet \in Networks
  /\ cacheFresh \in BOOLEAN
  /\ mainnetSeen \subseteq Requests

CacheIsVouched == EnforceMainnet /\ cacheFresh => mainnetSeen # {}

AnswersVouch(c) ==
  /\ EnforceMainnet /\ answer[c].connected => c \in mainnetSeen
  /\ answer[c].verified => mainnetSeen # {}
  /\ rq[c].route = "evidence" /\ answer[c].status = 200 =>
       EvidenceParts \ blank[c] \subseteq gathered[c]

GInv ==
  /\ Shape /\ CacheIsVouched
  /\ \A c \in Requests : Trail(c) /\ Witnessed(c) /\ Admitted(c) /\ AnswersVouch(c)

\* The gateway starts in a state of the invariant.
LEMMA InitGInv == Init => GInv
<1> SUFFICES ASSUME Init PROVE GInv
  OBVIOUS
<1>1. Shape
  <2>1. rq \in [Requests -> Request] /\ hasIndexer \in BOOLEAN
    BY HandlerAssumption DEF Init, HandlerAssumption
  <2>2. /\ at \in [Requests -> 0..Done]
        /\ reply \in [Requests -> Replies \union {Waiting}]
        /\ failed \in [Requests -> SUBSET ReadinessSteps]
        /\ DOMAIN gathered = Requests /\ gathered = [c \in Requests |-> gathered[c]]
        /\ DOMAIN blank = Requests /\ blank = [c \in Requests |-> blank[c]]
    BY DEF Init, Done
  <2>3. NoAnswer \in [status : 0..599, verified : BOOLEAN, connected : BOOLEAN]
    BY DEF NoAnswer
  <2>4. answer \in [Requests -> [status : 0..599, verified : BOOLEAN, connected : BOOLEAN]]
    BY <2>3 DEF Init
  <2> QED
    BY <2>1, <2>2, <2>4 DEF Init, Shape
<1>2. \A c \in Requests : ~Pending(c)
  BY DEF Init, Pending
<1>3. ASSUME NEW c \in Requests PROVE AnswersVouch(c)
  <2>1. answer[c] = NoAnswer
    BY DEF Init
  <2>2. NoAnswer.connected = FALSE /\ NoAnswer.verified = FALSE /\ NoAnswer.status = 0
    BY DEF NoAnswer
  <2> QED
    BY <2>1, <2>2 DEF AnswersVouch
<1> QED
  BY <1>1, <1>2, <1>3 DEF Init, GInv, CacheIsVouched, Trail, Witnessed, Admitted

-----------------------------------------------------------------------------
(* What a turn of a handler does.                                          *)

\* GoOn suspends at step i or, if that is answered from the cache, the next, unless
\* the plan ends there or the call cannot be made.
LEMMA GoOnEffect ==
  ASSUME NEW c, NEW i \in 1..9, NEW failures, GoOn(c, i, failures)
  PROVE  \E next \in {i, i + 1} :
           /\ next = i + 1 => /\ i <= Len(Plan(rq[c].route))
                              /\ AnsweredFromCache(Plan(rq[c].route)[i])
           /\ \/ /\ next > Len(Plan(rq[c].route))
                 /\ Finish(c, Completed(rq[c].route, failures))
              \/ /\ next <= Len(Plan(rq[c].route))
                 /\ Finish(c, Status(503))
              \/ /\ next <= Len(Plan(rq[c].route))
                 /\ at' = [at EXCEPT ![c] = next]
                 /\ reply' = [reply EXCEPT ![c] = Waiting]
                 /\ UNCHANGED answer
<1> DEFINE plan == Plan(rq[c].route)
           next == IF i <= Len(plan) /\ AnsweredFromCache(plan[i]) THEN i + 1 ELSE i
<1>1. IF next > Len(plan) THEN Finish(c, Completed(rq[c].route, failures))
      ELSE IF NotConfigured(plan[next]) THEN Finish(c, Status(503))
      ELSE /\ at' = [at EXCEPT ![c] = next]
           /\ reply' = [reply EXCEPT ![c] = Waiting]
           /\ UNCHANGED answer
  BY DEF GoOn
<1>2. next \in {i, i + 1} /\ (next = i + 1 => i <= Len(plan) /\ AnsweredFromCache(plan[i]))
  OBVIOUS
<1>3. next \in Nat /\ Len(plan) \in Nat
  BY PlanLength
<1> HIDE DEF next, plan
<1> QED
  BY <1>1, <1>2, <1>3 DEF plan

\* The outcome of a step: what its call has brought.
LEMMA SettledShape ==
  ASSUME Shape, NEW c \in Requests, NEW step, reply[c] # Waiting
  PROVE  /\ Thrown(step, reply[c]) = 0 =>
              /\ reply[c].status = 200
              /\ reply[c].body \in Networks \union {"served", "empty"}
              /\ step \in {"network", "readyNetwork"} => reply[c].body \in {"mainnet", "served"}
         /\ Thrown(step, reply[c]) \in {0, 500, 503} \union Errors
<1>1. reply[c] \in Replies
  BY DEF Shape
<1>2. Errors \subseteq 400..599
  BY HandlerAssumption DEF HandlerAssumption
<1>3. CASE \E s \in Errors : reply[c] = Reply(s, "none")
  <2>1. PICK s \in Errors : reply[c] = Reply(s, "none")
    BY <1>3
  <2>2. reply[c].status = s /\ s # 0
    BY <1>2, <2>1 DEF Reply
  <2> QED
    BY <2>2 DEF Thrown
<1>4. CASE \E body \in Networks \union {"served", "empty"} : reply[c] = Reply(200, body)
  <2>1. PICK body \in Networks \union {"served", "empty"} : reply[c] = Reply(200, body)
    BY <1>4
  <2>2. reply[c].status = 200 /\ reply[c].body = body /\ 200 \notin Errors
    BY <1>2, <2>1 DEF Reply
  <2> QED
    BY <2>1, <2>2 DEF Thrown, Networks
<1> QED
  BY <1>1, <1>3, <1>4 DEF Replies

\* What a step throws is an error status.
LEMMA ThrownRange ==
  ASSUME Shape, NEW c \in Requests, NEW step, reply[c] # Waiting
  PROVE  Thrown(step, reply[c]) \in {0} \union (400..599)
<1>1. Thrown(step, reply[c]) \in {0, 500, 503} \union Errors
  BY SettledShape
<1>2. Errors \subseteq 400..599
  BY HandlerAssumption DEF HandlerAssumption
<1>3. \A s \in {0, 500, 503} \union Errors : s \in {0} \union (400..599)
  BY <1>2
<1> QED
  BY <1>1, <1>3, ZenonT(40)

\* What changes when a handler goes on or ends leaves the other requests alone.
LEMMA OthersKeep ==
  ASSUME GInv, NEW c \in Requests, NEW d \in Requests \ {c},
         rq' = rq, hasIndexer' = hasIndexer, algodNet' = algodNet,
         mainnetSeen \subseteq mainnetSeen',
         at'[d] = at[d], reply'[d] = reply[d], failed'[d] = failed[d],
         gathered'[d] = gathered[d], blank'[d] = blank[d], answer'[d] = answer[d]
  PROVE  Trail(d)' /\ Witnessed(d)' /\ Admitted(d)' /\ AnswersVouch(d)'
<1>1. Trail(d) /\ Witnessed(d) /\ Admitted(d) /\ AnswersVouch(d)
  BY DEF GInv
<1>2. Pending(d)' <=> Pending(d)
  BY DEF Pending
<1>3. \A route : Plan(route)' = Plan(route)
  BY DEF Plan, Evidence, Readiness
<1>4. \A j : StepAt(d, j)' = StepAt(d, j)
  BY <1>3 DEF StepAt
<1>5. \A step : Behind(d, step) => Behind(d, step)'
  BY DEF Behind, IsPart
<1>6. Trail(d)'
  BY <1>1, <1>2, <1>3, <1>4, <1>5 DEF Trail
<1>7. Witnessed(d)'
  BY <1>1, <1>2, <1>3 DEF Witnessed, Step, StepAt, IsPart
<1>8. Admitted(d)'
  BY <1>1, <1>2
  DEF Admitted, IpAllowed, Authenticated, Keyless, PresentedKey, RouteStatus
<1>9. AnswersVouch(d)'
  BY <1>1 DEF AnswersVouch
<1> QED
  BY <1>6, <1>7, <1>8, <1>9

\* The answer of a handler that has gone past every step of its plan.
LEMMA CompletedVouches ==
  ASSUME Shape, NEW c \in Requests, rq' = rq, hasIndexer' = hasIndexer,
         \A j \in 1..Len(Plan(rq[c].route)) : Behind(c, StepAt(c, j))',
         answer'[c] = Completed(rq[c].route, failed'[c])
  PROVE  AnswersVouch(c)'
<1> DEFINE route == rq[c].route
           a == Completed(route, failed'[c])
<1>1. \A r : Plan(r)' = Plan(r)
  BY DEF Plan, Evidence, Readiness
<1>2. ASSUME NEW s, \E j \in 1..Len(Plan(route)) : Plan(route)[j] = s
      PROVE  Behind(c, s)'
  <2>1. PICK j \in 1..Len(Plan(route)) : Plan(route)[j] = s
    BY <1>2
  <2>2. StepAt(c, j)' = s
    BY <1>1, <2>1 DEF StepAt
  <2> QED
    BY <2>1, <2>2
<1>3. ASSUME EnforceMainnet, a.connected PROVE c \in mainnetSeen'
  <2>1. a.connected = (route \in {"ready", "evidence"} /\ IsReady(failed'[c]))
    BY DEF Completed
  <2>2. route \in {"ready", "evidence"} /\ "readyNetwork" \notin failed'[c]
    BY <1>3, <2>1 DEF IsReady
  <2>3. Behind(c, "readyNetwork")'
    BY <1>2, <2>2, PlanHolds
  <2> QED
    BY <1>3, <2>2, <2>3 DEF Behind
<1>4. ASSUME a.verified PROVE mainnetSeen' # {}
  <2>1. a.verified = (EnforceMainnet /\ route \in {"params", "evidence"})
    BY DEF Completed
  <2>2. EnforceMainnet /\ route \in {"params", "evidence"}
    BY <1>4, <2>1
  <2>3. Behind(c, "network")'
    BY <1>2, <2>2, PlanHolds DEF Parts
  <2> QED
    BY <2>2, <2>3 DEF Behind
<1>5. ASSUME route = "evidence"
      PROVE  EvidenceParts \ blank'[c] \subseteq gathered'[c]
  <2>1. \A s \in Parts : Behind(c, s)'
    BY <1>2, <1>5, PlanHolds
  <2> QED
    BY <1>5, <2>1 DEF Behind, Parts, IsPart, EvidenceParts
<1> HIDE DEF a
<1> QED
  BY <1>3, <1>4, <1>5 DEF a, AnswersVouch

\* An answer that vouches for nothing.
LEMMA StatusVouches ==
  ASSUME NEW c \in Requests, NEW s, answer'[c] = Status(s),
         s = 200 => rq'[c].route # "evidence"
  PROVE  AnswersVouch(c)'
<1>1. Status(s).status = s /\ Status(s).verified = FALSE /\ Status(s).connected = FALSE
  BY DEF Status
<1>2. answer'[c].status = s /\ answer'[c].verified = FALSE /\ answer'[c].connected = FALSE
  BY <1>1
<1> QED
  BY <1>2 DEF AnswersVouch

\* A handler that goes on from step i, with all the steps before it behind.
LEMMA GoOnKeeps ==
  ASSUME GInv, NEW c \in Requests, NEW i \in 1..9, GoOn(c, i, failed'[c]),
         rq' = rq, hasIndexer' = hasIndexer, algodNet' = algodNet,
         mainnetSeen \subseteq mainnetSeen', gathered[c] \subseteq gathered'[c],
         blank[c] \subseteq blank'[c],
         algodNet = "mainnet" => c \in mainnetSeen',
         IpAllowed(rq[c]), Authenticated(rq[c]), RouteStatus(rq[c]) = 0,
         rq[c].route # "health",
         \A j \in 1..(i - 1) : j <= Len(Plan(rq[c].route)) => Behind(c, StepAt(c, j))'
  PROVE  Trail(c)' /\ Witnessed(c)' /\ Admitted(c)' /\ AnswersVouch(c)'
<1> DEFINE plan == Plan(rq[c].route)
<1>1. /\ Shape /\ CacheIsVouched /\ AnswersVouch(c)
      /\ at \in [Requests -> 0..Done]
      /\ reply \in [Requests -> Replies \union {Waiting}]
      /\ answer \in [Requests -> [status : 0..599, verified : BOOLEAN, connected : BOOLEAN]]
      /\ Len(plan) \in 1..8
  BY PlanLength DEF GInv, Shape
<1>2. \A r : Plan(r)' = Plan(r)
  BY DEF Plan, Evidence, Readiness
<1>3. Admitted(c)'
  BY DEF Admitted, IpAllowed, Authenticated, Keyless, PresentedKey, RouteStatus
<1>4. PICK next \in {i, i + 1} :
        /\ next = i + 1 => i <= Len(plan) /\ AnsweredFromCache(plan[i])
        /\ \/ next > Len(plan) /\ Finish(c, Completed(rq[c].route, failed'[c]))
           \/ next <= Len(plan) /\ Finish(c, Status(503))
           \/ /\ next <= Len(plan)
              /\ at' = [at EXCEPT ![c] = next]
              /\ reply' = [reply EXCEPT ![c] = Waiting]
              /\ UNCHANGED answer
  BY GoOnEffect
<1>5. ASSUME NEW step, AnsweredFromCache(step) PROVE Behind(c, step)'
  <2>1. step \in {"network", "readyNetwork"}
    BY <1>5 DEF AnsweredFromCache
  <2>2. EnforceMainnet => step = "network" /\ cacheFresh
    BY <1>5 DEF AnsweredFromCache
  <2>3. EnforceMainnet => mainnetSeen' # {}
    BY <1>1, <2>2 DEF CacheIsVouched
  <2> QED
    BY <2>1, <2>2, <2>3 DEF Behind, IsPart, EvidenceParts
<1>6. \A j \in 1..(next - 1) : j <= Len(plan) => Behind(c, StepAt(c, j))'
  <2> SUFFICES ASSUME NEW j \in 1..(next - 1), j <= Len(plan)
               PROVE  Behind(c, StepAt(c, j))'
    OBVIOUS
  <2>1. CASE j \in 1..(i - 1)
    BY <2>1
  <2>2. CASE j = i /\ next = i + 1
    <3>1. StepAt(c, j)' = plan[i]
      BY <1>2, <2>2 DEF StepAt
    <3> QED
      BY <1>4, <1>5, <2>2, <3>1 DEF Behind, IsPart
  <2> QED
    BY <2>1, <2>2
<1>7. ASSUME NEW a, Finish(c, a)
      PROVE  /\ Trail(c)' /\ Witnessed(c)' /\ answer'[c] = a
  BY <1>1, <1>7 DEF Finish, Trail, Witnessed, Pending, Done
<1>8. CASE next > Len(plan) /\ Finish(c, Completed(rq[c].route, failed'[c]))
  <2>1. \A j \in 1..Len(plan) : Behind(c, StepAt(c, j))'
    BY <1>1, <1>6, <1>8
  <2> QED
    BY <1>1, <1>3, <1>7, <1>8, <2>1, CompletedVouches
<1>9. CASE Finish(c, Status(503))
  BY <1>3, <1>7, <1>9, StatusVouches
<1>10. CASE /\ next <= Len(plan)
            /\ at' = [at EXCEPT ![c] = next]
            /\ reply' = [reply EXCEPT ![c] = Waiting]
            /\ UNCHANGED answer
  <2>0. next \in 1..Len(plan)
    BY <1>1, <1>4, <1>10
  <2>1. at'[c] = next /\ reply'[c] = Waiting
    BY <1>1, <1>10
  <2>2. Trail(c)'
    <3>1. \A j \in 1..(next - 1) : Behind(c, StepAt(c, j))'
      BY <1>1, <1>6, <1>10
    <3> QED
      BY <1>2, <2>0, <2>1, <3>1 DEF Trail
  <2>3. Witnessed(c)'
    BY <2>1 DEF Witnessed, Waiting, Reply
  <2>4. AnswersVouch(c)'
    BY <1>1, <1>10 DEF AnswersVouch
  <2> QED
    BY <1>3, <2>2, <2>3, <2>4
<1> QED
  BY <1>4, <1>8, <1>9, <1>10

-----------------------------------------------------------------------------
(* Every step keeps the shape of the state.                                *)

Answers == [status : 0..599, verified : BOOLEAN, connected : BOOLEAN]
HandlersShape ==
  /\ at \in [Requests -> 0..Done]
  /\ reply \in [Requests -> Replies \union {Waiting}]
  /\ answer \in [Requests -> Answers]

\* Statuses and completed answers are answers.
LEMMA AnswerShapes ==
  /\ \A s \in 0..599 : Status(s) \in Answers
  /\ \A route, failures : Completed(route, failures) \in Answers
<1>1. \A route, failures : IsReady(failures) \in BOOLEAN
  BY DEF IsReady
<1>2. EnforceMainnet \in BOOLEAN
  BY HandlerAssumption DEF HandlerAssumption
<1>3. ASSUME NEW route, NEW failures PROVE Completed(route, failures) \in Answers
  <2>1. /\ (EnforceMainnet /\ route \in {"params", "evidence"}) \in BOOLEAN
        /\ (route \in {"ready", "evidence"} /\ IsReady(failures)) \in BOOLEAN
    BY <1>1, <1>2
  <2>2. (IF route = "ready" /\ ~IsReady(failures) THEN 503 ELSE 200) \in 0..599
    OBVIOUS
  <2> QED
    BY <2>1, <2>2 DEF Completed, Answers
<1>4. ASSUME NEW s \in 0..599 PROVE Status(s) \in Answers
  BY DEF Status, Answers
<1> QED
  BY <1>3, <1>4

\* A turn that ends a handler, or goes on with it, keeps the handlers' shape.
LEMMA HandlersKeepShape ==
  ASSUME HandlersShape, NEW c \in Requests
  PROVE  /\ \A a \in Answers : Finish(c, a) => HandlersShape'
         /\ \A i \in 1..9 : \A failures : GoOn(c, i, failures) => HandlersShape'
<1>1. ASSUME NEW a \in Answers, Finish(c, a) PROVE HandlersShape'
  BY <1>1 DEF HandlersShape, Finish, Done
<1>2. ASSUME NEW i \in 1..9, NEW failures, GoOn(c, i, failures) PROVE HandlersShape'
  <2>1. PICK next \in {i, i + 1} :
          \/ Finish(c, Completed(rq[c].route, failures))
          \/ Finish(c, Status(503))
          \/ /\ at' = [at EXCEPT ![c] = next]
             /\ reply' = [reply EXCEPT ![c] = Waiting]
             /\ UNCHANGED answer
    BY <1>2, GoOnEffect
  <2>2. Completed(rq[c].route, failures) \in Answers /\ Status(503) \in Answers
    BY AnswerShapes
  <2>3. next \in 0..Done
    BY <2>1 DEF Done
  <2> QED
    BY <1>1, <2>1, <2>2, <2>3 DEF HandlersShape
<1> QED
  BY <1>1, <1>2

\* A route is refused with 400, 404 or 405.
LEMMA RouteStatusRange ==
  ASSUME NEW r
  PROVE  RouteStatus(r) \in {0, 400, 404, 405}
BY DEF RouteStatus, CheckStatus

\* Every action keeps the shape.
LEMMA ShapeStep == GInv /\ [Next]_vars => Shape'
<1> SUFFICES ASSUME GInv, [Next]_vars PROVE Shape'
  OBVIOUS
<1>1. Shape /\ HandlersShape
  BY DEF GInv, Shape, HandlersShape, Answers
<1>2. ASSUME HandlersShape', UNCHANGED <<given, failed, gathered, blank>>,
             algodNet' \in Networks, cacheFresh' \in BOOLEAN, mainnetSeen' \subseteq Requests
      PROVE  Shape'
  BY <1>1, <1>2 DEF Shape, HandlersShape, Answers, given
<1>3. ASSUME NEW c \in Requests, NEW s \in 0..599, Refuse(c, s) PROVE Shape'
  <2>1. HandlersShape'
    BY <1>1, <1>3, AnswerShapes, HandlersKeepShape DEF Refuse
  <2> QED
    BY <1>1, <1>2, <1>3, <2>1 DEF Refuse, Shape
<1>4. ASSUME NEW c \in Requests, Arrive(c) PROVE Shape'
  <2>1. CASE \E s \in 0..599 : Refuse(c, s)
    BY <1>3, <2>1
  <2>2. CASE Start(c)
    <3>1. HandlersShape'
      BY <1>1, <2>2, HandlersKeepShape DEF Start
    <3> QED
      BY <1>1, <1>2, <2>2, <3>1 DEF Start, Shape
  <2>3. RouteStatus(rq[c]) \in 0..599
    BY RouteStatusRange
  <2> QED
    BY <1>4, <2>1, <2>2, <2>3
    DEF Arrive, Preflight, BadPath, Health, Forbid, Challenge, Limit, Misroute
<1>5. ASSUME NEW c \in Requests, Throw(c) PROVE Shape'
  <2>1. Thrown(Step(c), reply[c]) \in 0..599
    <3>1. reply[c] # Waiting
      BY <1>5 DEF Throw, Resumes
    <3>2. Thrown(Step(c), reply[c]) \in {0} \union (400..599)
      BY <1>1, <3>1, ThrownRange
    <3>3. \A s \in {0} \union (400..599) : s \in 0..599
      OBVIOUS
    <3> QED
      BY <3>2, <3>3, ZenonT(40)
  <2>2. HandlersShape'
    BY <1>1, <1>5, <2>1, AnswerShapes, HandlersKeepShape DEF Throw
  <2> QED
    BY <1>1, <1>2, <1>5, <2>2 DEF Throw, Shape
<1>6. ASSUME NEW c \in Requests, Resumes(c) PROVE at[c] + 1 \in 1..9
  <2>1. at[c] \in 1..Len(Plan(rq[c].route))
    BY <1>6 DEF Resumes, GInv, Trail
  <2>2. \A n \in 1..8 : \A m \in 1..n : m + 1 \in 1..9
    OBVIOUS
  <2>3. Len(Plan(rq[c].route)) \in 1..8
    BY PlanLength
  <2> QED
    BY <2>1, <2>2, <2>3, Zenon
<1>7. ASSUME NEW c \in Requests, RecordFailure(c) PROVE Shape'
  <2>1. HandlersShape'
    BY <1>1, <1>6, <1>7, HandlersKeepShape DEF RecordFailure
  <2>2. failed' \in [Requests -> SUBSET ReadinessSteps]
    BY <1>1, <1>7 DEF RecordFailure, Shape
  <2> QED
    BY <1>1, <1>7, <2>1, <2>2 DEF RecordFailure, Shape, HandlersShape, Answers, given
<1>8. ASSUME NEW c \in Requests, Advance(c) PROVE Shape'
  <2>1. HandlersShape'
    BY <1>1, <1>6, <1>8, HandlersKeepShape DEF Advance
  <2>2. DOMAIN gathered' = Requests /\ gathered' = [d \in Requests |-> gathered'[d]]
    BY <1>1, <1>8 DEF Advance, Shape
  <2>3. cacheFresh' \in BOOLEAN
    BY <1>1, <1>8 DEF Advance, Shape
  <2> QED
    BY <1>1, <1>8, <2>1, <2>2, <2>3 DEF Advance, Shape, HandlersShape, Answers, given
<1>9. ASSUME NEW c \in Requests, SubmissionEnds(c) PROVE Shape'
  <2>1. PICK s \in SubmissionStatuses : Finish(c, Status(s))
    BY <1>9 DEF SubmissionEnds
  <2>2. s \in 0..599 /\ EnforceMainnet \in BOOLEAN
    BY HandlerAssumption DEF HandlerAssumption
  <2>3. HandlersShape'
    BY <1>1, <2>1, <2>2, AnswerShapes, HandlersKeepShape
  <2>4. cacheFresh' \in BOOLEAN
    BY <1>1, <1>9, <2>2 DEF SubmissionEnds, Shape
  <2> QED
    BY <1>1, <1>2, <1>9, <2>3, <2>4 DEF SubmissionEnds, Shape
<1>10. ASSUME NEW c \in Requests, CallSettles(c) PROVE Shape'
  <2> DEFINE settlements == {Reply(200, body) : body \in Bodies(Step(c))}
                              \union {Reply(s, "none") : s \in Errors}
  <2>1. Bodies(Step(c)) \subseteq Networks \union {"served", "empty"}
    BY <1>1 DEF Shape, Networks, Bodies
  <2>2. settlements \subseteq Replies
    BY <2>1 DEF Replies
  <2>3. \E settled \in settlements : reply' = [reply EXCEPT ![c] = settled]
    BY <1>10 DEF CallSettles
  <2>6. DOMAIN blank' = Requests /\ blank' = [d \in Requests |-> blank'[d]]
    BY <1>1, <1>10 DEF CallSettles, Shape
  <2>4. PICK settled \in Replies : reply' = [reply EXCEPT ![c] = settled]
    BY <2>2, <2>3, Zenon
  <2>5. HandlersShape'
    BY <1>1, <1>10, <2>4 DEF CallSettles, HandlersShape
  <2> QED
    BY <1>1, <1>10, <2>5, <2>6 DEF CallSettles, Shape, HandlersShape, Answers, given
<1>11. CASE Switch
  BY <1>1, <1>11 DEF Switch, Shape, given, handlerVars
<1>12. CASE CacheExpires \/ BucketsRefill \/ UNCHANGED vars
  <2>1. HandlersShape' /\ UNCHANGED <<given, failed, gathered, blank, algodNet, mainnetSeen>>
    BY <1>1, <1>12 DEF CacheExpires, BucketsRefill, vars, HandlersShape, handlerVars
  <2>2. cacheFresh' \in BOOLEAN
    BY <1>1, <1>12 DEF CacheExpires, BucketsRefill, vars, Shape
  <2> QED
    BY <1>1, <1>2, <2>1, <2>2 DEF Shape
<1> QED
  BY <1>4, <1>5, <1>7, <1>8, <1>9, <1>10, <1>11, <1>12 DEF Next, Turn

-----------------------------------------------------------------------------
(* Every step keeps what is known of each request.                         *)

Good(c) == Trail(c) /\ Witnessed(c) /\ Admitted(c) /\ AnswersVouch(c)

\* A handler that ends with a status that vouches for nothing.
LEMMA FinishKeeps ==
  ASSUME GInv, NEW c \in Requests, NEW s, Finish(c, Status(s)), rq' = rq,
         s = 200 => rq[c].route # "evidence"
  PROVE  Good(c)'
<1>1. at'[c] = Done /\ answer'[c] = Status(s)
  BY DEF Finish, GInv, Shape
<1>2. AnswersVouch(c)'
  BY <1>1, StatusVouches
<1> QED
  BY <1>1, <1>2 DEF Good, Trail, Witnessed, Admitted, Pending, Done

\* The turn a request arrives in.
LEMMA ArriveKeeps ==
  ASSUME GInv, NEW c \in Requests, Arrive(c)
  PROVE  Good(c)'
<1>1. ASSUME NEW s, Refuse(c, s), s = 200 => rq[c].route # "evidence" PROVE Good(c)'
  BY <1>1, FinishKeeps DEF Refuse, given
<1>2. CASE Start(c)
  <2>1. /\ rq' = rq /\ hasIndexer' = hasIndexer /\ failed'[c] = {}
        /\ gathered' = gathered /\ blank' = blank /\ algodNet' = algodNet
        /\ mainnetSeen \subseteq mainnetSeen'
        /\ algodNet = "mainnet" => c \in mainnetSeen'
    BY <1>2 DEF Start, given, GInv, Trail
  <2>2. GoOn(c, 1, failed'[c]) /\ 1 \in 1..9
    BY <1>2, <2>1 DEF Start
  <2>3. /\ IpAllowed(rq[c]) /\ Authenticated(rq[c]) /\ RouteStatus(rq[c]) = 0
        /\ rq[c].route # "health"
    BY <1>2 DEF Start, ReachesLimiter
  <2>4. \A j \in 1..(1 - 1) : FALSE
    OBVIOUS
  <2> QED
    BY <2>1, <2>2, <2>3, <2>4, GoOnKeeps DEF Good
<1>3. RouteStatus(rq[c]) # 200
  BY RouteStatusRange
<1> QED
  BY <1>1, <1>2, <1>3
  DEF Arrive, Preflight, BadPath, Health, Forbid, Challenge, Limit, Misroute

\* A turn that resumes on the end of an upstream call.
LEMMA TurnKeeps ==
  ASSUME GInv, NEW c \in Requests, Turn(c)
  PROVE  Good(c)' /\ CacheIsVouched'
<1>1. /\ Shape /\ CacheIsVouched /\ Good(c)
      /\ rq' = rq /\ hasIndexer' = hasIndexer /\ mainnetSeen' = mainnetSeen
      /\ algodNet' = algodNet /\ blank' = blank /\ Pending(c)
  BY DEF GInv, Good, Turn, Throw, RecordFailure, Advance, SubmissionEnds, given, Resumes
<1>2. at[c] + 1 \in 1..9 /\ at[c] \in 1..Len(Plan(rq[c].route))
  <2>1. at[c] \in 1..Len(Plan(rq[c].route))
    BY <1>1 DEF Good, Trail
  <2>2. \A n \in 1..8 : \A m \in 1..n : m + 1 \in 1..9
    OBVIOUS
  <2>3. Len(Plan(rq[c].route)) \in 1..8
    BY PlanLength
  <2> QED
    BY <2>1, <2>2, <2>3, Zenon
<1>3. CASE Throw(c)
  <2>1. Thrown(Step(c), reply[c]) # 200
    <3>1. reply[c] # Waiting
      BY <1>3 DEF Throw, Resumes
    <3>2. Thrown(Step(c), reply[c]) \in {0} \union (400..599)
      BY <1>1, <3>1, ThrownRange
    <3>3. \A s \in {0} \union (400..599) : s # 200
      OBVIOUS
    <3> QED
      BY <3>2, <3>3, Zenon
  <2> QED
    BY <1>1, <1>3, <2>1, FinishKeeps DEF Throw, CacheIsVouched
<1>4. ASSUME NEW s \in SubmissionStatuses, Step(c) = "submission", Finish(c, Status(s))
      PROVE  Good(c)'
  <2>1. rq[c].route # "evidence"
    BY <1>2, <1>4, PlanHolds DEF Step, StepAt
  <2> QED
    BY <1>1, <1>4, <2>1, FinishKeeps
<1>5. CASE SubmissionEnds(c)
  <2>1. CacheIsVouched'
    BY <1>1, <1>5 DEF SubmissionEnds, CacheIsVouched
  <2> QED
    BY <1>4, <1>5, <2>1 DEF SubmissionEnds
\* Both ways to go on leave every earlier step behind, and this one.
<1>6. ASSUME GoOn(c, at[c] + 1, failed'[c]), gathered[c] \subseteq gathered'[c],
             failed[c] \subseteq failed'[c],
             NEW step, step = Step(c), Behind(c, step)'
      PROVE  Good(c)'
  <2>1. ASSUME NEW j \in 1..at[c] PROVE Behind(c, StepAt(c, j))'
    <3>1. \A r : Plan(r)' = Plan(r)
      BY <1>1 DEF Plan, Evidence, Readiness
    <3>2. StepAt(c, j)' = StepAt(c, j)
      BY <1>1, <3>1 DEF StepAt
    <3>3. CASE j \in 1..(at[c] - 1)
      <4>1. Behind(c, StepAt(c, j))
        BY <1>1, <3>3 DEF Good, Trail
      <4> QED
        BY <1>1, <1>6, <3>2, <4>1 DEF Behind, IsPart
    <3>4. CASE j = at[c]
      BY <1>6, <3>2, <3>4 DEF Step, Behind, IsPart
    <3> QED
      BY <1>2, <3>3, <3>4
  <2>2. algodNet = "mainnet" => c \in mainnetSeen'
    BY <1>1 DEF Good, Witnessed
  <2>3. /\ IpAllowed(rq[c]) /\ Authenticated(rq[c]) /\ RouteStatus(rq[c]) = 0
        /\ rq[c].route # "health"
    BY <1>1 DEF Good, Admitted
  <2>4. (at[c] + 1) - 1 = at[c]
    BY <1>2
  <2> QED
    BY <1>1, <1>2, <1>6, <2>1, <2>2, <2>3, <2>4, GoOnKeeps DEF Good
<1>7. CASE RecordFailure(c)
  <2>1. failed'[c] = failed[c] \union {Step(c)} /\ gathered' = gathered
    BY <1>1, <1>7 DEF RecordFailure, Shape
  <2>2. GoOn(c, at[c] + 1, failed'[c])
    BY <1>7, <2>1 DEF RecordFailure
  <2>3. PICK step : step = Step(c)
    OBVIOUS
  <2>4. Behind(c, step)'
    BY <1>7, <2>1, <2>3 DEF RecordFailure, Behind, ReadinessSteps, IsPart, EvidenceParts
  <2>5. CacheIsVouched'
    BY <1>1, <1>7 DEF RecordFailure, CacheIsVouched
  <2> QED
    BY <1>6, <2>1, <2>2, <2>3, <2>4, <2>5
<1>8. CASE Advance(c)
  <2>1. /\ failed' = failed /\ GoOn(c, at[c] + 1, failed'[c])
        /\ gathered'[c] = gathered[c] \union Gathers(rq[c], Step(c), reply[c].body)
        /\ cacheFresh' = (cacheFresh \/ NetworkStep(c))
        /\ reply[c] # Waiting /\ Thrown(Step(c), reply[c]) = 0
    BY <1>1, <1>8 DEF Advance, Shape, Resumes
  <2>2. PICK step : step = Step(c)
    OBVIOUS
  <2>3. reply[c].body \in Networks \union {"served", "empty"}
    BY <1>1, <2>1, SettledShape
  <2>4. ASSUME step \in {"network", "readyNetwork"} PROVE c \in mainnetSeen
    <3>1. reply[c].body \in {"mainnet", "served"}
      BY <1>1, <2>1, <2>2, <2>4, SettledShape
    <3>2. reply[c].body # "served"
      BY <1>1, <2>2, <2>4 DEF Good, Witnessed, IndexerSteps
    <3> QED
      BY <1>1, <3>1, <3>2 DEF Good, Witnessed
  <2>5. ASSUME IsPart(rq[c], step) PROVE step \in gathered'[c] \union blank'[c]
    <3>1. CASE reply[c].body = "empty"
      BY <1>1, <2>2, <2>5, <3>1 DEF Good, Witnessed
    <3>2. CASE reply[c].body # "empty"
      BY <2>1, <2>2, <2>3, <2>5, <3>2 DEF Gathers, Networks
    <3> QED
      BY <3>1, <3>2
  <2>6. Behind(c, step)'
    BY <1>1, <2>4, <2>5 DEF Behind, IsPart
  <2>7. CacheIsVouched'
    BY <1>1, <2>1, <2>2, <2>4 DEF CacheIsVouched, NetworkStep
  <2> QED
    BY <1>6, <2>1, <2>2, <2>6, <2>7
<1> QED
  BY <1>3, <1>5, <1>7, <1>8 DEF Turn

\* An upstream call settles: what it brings from algod is algod's network.
LEMMA SettlesKeeps ==
  ASSUME GInv, NEW c \in Requests, CallSettles(c)
  PROVE  Good(c)'
<1>1. /\ Shape /\ Good(c) /\ Pending(c)
      /\ UNCHANGED <<rq, hasIndexer, at, failed, gathered, answer, algodNet, mainnetSeen>>
  BY DEF GInv, Good, CallSettles, given
<1>0. blank[c] \subseteq blank'[c]
  BY <1>1 DEF CallSettles, Shape
<1>2. \A r : Plan(r)' = Plan(r)
  BY <1>1 DEF Plan, Evidence, Readiness
<1>3. \A j : StepAt(c, j)' = StepAt(c, j) /\ Step(c)' = Step(c)
  BY <1>1, <1>2 DEF StepAt, Step
<1>4. Pending(c)'
  BY <1>1 DEF Pending
<1>5. Trail(c)' /\ AnswersVouch(c)'
  <2>1. \A step : Behind(c, step) => Behind(c, step)'
    BY <1>0, <1>1 DEF Behind, IsPart
  <2>2. Trail(c)'
    BY <1>1, <1>2, <1>3, <1>4, <2>1 DEF Good, Trail
  <2>3. AnswersVouch(c)'
    BY <1>0, <1>1 DEF Good, AnswersVouch
  <2> QED
    BY <2>2, <2>3
<1>6. Admitted(c)'
  BY <1>1, <1>4
  DEF Good, Admitted, IpAllowed, Authenticated, Keyless, PresentedKey, RouteStatus
<1>7. Witnessed(c)'
  <2>1. PICK settled \in {Reply(200, body) : body \in Bodies(Step(c))}
                           \union {Reply(s, "none") : s \in Errors} :
          /\ reply' = [reply EXCEPT ![c] = settled]
          /\ blank' = IF settled.body = "empty" /\ IsPart(rq[c], Step(c))
                       THEN [blank EXCEPT ![c] = @ \union {Step(c)}] ELSE blank
    BY DEF CallSettles
  <2>5. reply'[c].body = "empty" /\ IsPart(rq[c], Step(c)) => Step(c) \in blank'[c]
    BY <1>1, <2>1 DEF Shape
  <2>2. settled.body \in Bodies(Step(c)) \union {"none"}
    BY <2>1 DEF Reply
  <2>3. reply'[c].body \in Bodies(Step(c)) \union {"none"}
    BY <1>1, <2>1, <2>2 DEF Shape
  <2>4. algodNet \in {"mainnet", "other"} /\ (algodNet = "mainnet" => c \in mainnetSeen)
    BY <1>1 DEF Shape, Networks, Good, Witnessed
  <2> QED
    BY <1>1, <1>3, <1>4, <2>3, <2>4, <2>5 DEF Witnessed, IsPart, Bodies
<1> QED
  BY <1>5, <1>6, <1>7 DEF Good

\* Nothing but these steps touches what the invariant speaks of.
LEMMA EnvironmentKeeps ==
  ASSUME GInv, NEW c \in Requests,
         Switch \/ CacheExpires \/ BucketsRefill \/ UNCHANGED vars
  PROVE  Good(c)' /\ CacheIsVouched'
<1>1. /\ Shape /\ Good(c) /\ CacheIsVouched
      /\ UNCHANGED <<rq, hasIndexer, at, reply, failed, gathered, blank, answer>>
      /\ mainnetSeen \subseteq mainnetSeen'
  BY DEF GInv, Good, Switch, CacheExpires, BucketsRefill, vars, given, handlerVars
<1>2. \A r : Plan(r)' = Plan(r)
  BY <1>1 DEF Plan, Evidence, Readiness
<1>3. \A j : StepAt(c, j)' = StepAt(c, j) /\ Step(c)' = Step(c)
  BY <1>1, <1>2 DEF StepAt, Step
<1>4. Pending(c)' <=> Pending(c)
  BY <1>1 DEF Pending
<1>5. mainnetSeen # {} => mainnetSeen' # {}
  BY <1>1
<1>6. Trail(c)' /\ AnswersVouch(c)'
  BY <1>1, <1>2, <1>3, <1>4, <1>5 DEF Good, Trail, Behind, AnswersVouch, IsPart
<1>7. Admitted(c)'
  BY <1>1, <1>4
  DEF Good, Admitted, IpAllowed, Authenticated, Keyless, PresentedKey, RouteStatus
<1>8. Pending(c) /\ algodNet' = "mainnet" => c \in mainnetSeen'
  BY <1>1
  DEF Switch, CacheExpires, BucketsRefill, vars, Good, Witnessed, Networks
<1>9. Witnessed(c)'
  BY <1>1, <1>3, <1>4, <1>8 DEF Good, Witnessed, IsPart
<1>10. CacheIsVouched'
  BY <1>1, <1>5 DEF CacheIsVouched, Switch, CacheExpires, BucketsRefill, vars
<1> QED
  BY <1>6, <1>7, <1>9, <1>10 DEF Good

\* A step of one request's handler leaves the others' alone.
LEMMA OthersUntouched ==
  ASSUME Shape, NEW c \in Requests, Arrive(c) \/ Turn(c) \/ CallSettles(c),
         NEW d \in Requests \ {c}
  PROVE  /\ at'[d] = at[d] /\ reply'[d] = reply[d] /\ answer'[d] = answer[d]
         /\ failed'[d] = failed[d] /\ gathered'[d] = gathered[d] /\ blank'[d] = blank[d]
<1> DEFINE Untouched == at'[d] = at[d] /\ reply'[d] = reply[d] /\ answer'[d] = answer[d]
           Unrecorded == /\ failed'[d] = failed[d] /\ gathered'[d] = gathered[d]
                         /\ blank'[d] = blank[d]
<1>1. /\ at \in [Requests -> 0..Done] /\ DOMAIN reply = Requests
      /\ DOMAIN answer = Requests /\ DOMAIN failed = Requests /\ DOMAIN gathered = Requests
      /\ DOMAIN blank = Requests
  BY DEF Shape
<1>2. ASSUME NEW a, Finish(c, a) PROVE Untouched
  BY <1>1, <1>2 DEF Finish
<1>3. ASSUME NEW i, NEW failures, GoOn(c, i, failures) PROVE Untouched
  <2>1. \/ \E a : Finish(c, a)
        \/ \E next : /\ at' = [at EXCEPT ![c] = next]
                     /\ reply' = [reply EXCEPT ![c] = Waiting]
                     /\ UNCHANGED answer
    BY <1>3, Zenon DEF GoOn
  <2> QED
    BY <1>1, <1>2, <2>1
<1>4. CASE Arrive(c)
  <2>1. (\E s : Refuse(c, s)) \/ Start(c)
    BY <1>4
    DEF Arrive, Preflight, BadPath, Health, Forbid, Challenge, Limit, Misroute
  <2>2. Untouched
    BY <1>2, <1>3, <2>1 DEF Refuse, Start
  <2>3. Unrecorded
    BY <2>1 DEF Refuse, Start
  <2> QED
    BY <2>2, <2>3
<1>5. CASE Throw(c) \/ SubmissionEnds(c)
  <2>1. Untouched
    BY <1>2, <1>5 DEF Throw, SubmissionEnds
  <2>2. Unrecorded
    BY <1>5 DEF Throw, SubmissionEnds
  <2> QED
    BY <2>1, <2>2
<1>6. CASE RecordFailure(c)
  <2>1. Untouched
    BY <1>3, <1>6 DEF RecordFailure
  <2>2. Unrecorded
    BY <1>1, <1>6 DEF RecordFailure
  <2> QED
    BY <2>1, <2>2
<1>7. CASE Advance(c)
  <2>1. Untouched
    BY <1>3, <1>7 DEF Advance
  <2>2. Unrecorded
    BY <1>1, <1>7 DEF Advance
  <2> QED
    BY <2>1, <2>2
<1>8. CASE CallSettles(c)
  BY <1>1, <1>8 DEF CallSettles
<1> QED
  BY <1>4, <1>5, <1>6, <1>7, <1>8 DEF Turn

\* The invariant is inductive.
LEMMA StepGInv == GInv /\ [Next]_vars => GInv'
<1> SUFFICES ASSUME GInv, [Next]_vars PROVE GInv'
  OBVIOUS
<1>1. Shape'
  BY ShapeStep
<1>2. ASSUME NEW c \in Requests, Arrive(c) \/ Turn(c) \/ CallSettles(c),
             NEW d \in Requests \ {c}
      PROVE  Good(d)'
  <2>1. /\ rq' = rq /\ hasIndexer' = hasIndexer /\ algodNet' = algodNet
        /\ mainnetSeen \subseteq mainnetSeen'
    BY <1>2
    DEF Arrive, Preflight, BadPath, Health, Forbid, Challenge, Limit, Misroute, Refuse,
        Start, Turn, Throw, RecordFailure, Advance, SubmissionEnds, CallSettles, given
  <2>2. /\ at'[d] = at[d] /\ reply'[d] = reply[d] /\ answer'[d] = answer[d]
        /\ failed'[d] = failed[d] /\ gathered'[d] = gathered[d] /\ blank'[d] = blank[d]
    BY <1>2, OthersUntouched DEF GInv
  <2> QED
    BY <1>2, <2>1, <2>2, OthersKeep DEF Good
<1>3. ASSUME NEW c \in Requests, Arrive(c) \/ Turn(c) \/ CallSettles(c)
      PROVE  CacheIsVouched'
  <2>1. CASE Turn(c)
    BY <2>1, TurnKeeps
  <2>2. CASE Arrive(c) \/ CallSettles(c)
    <3>1. cacheFresh' = cacheFresh /\ mainnetSeen \subseteq mainnetSeen'
      BY <2>2
      DEF Arrive, Preflight, BadPath, Health, Forbid, Challenge, Limit, Misroute, Refuse,
          Start, CallSettles
    <3> QED
      BY <3>1 DEF GInv, CacheIsVouched
  <2> QED
    BY <1>3, <2>1, <2>2
<1>4. ASSUME NEW c \in Requests, Arrive(c) \/ Turn(c) \/ CallSettles(c) PROVE GInv'
  <2>1. Good(c)'
    BY <1>4, ArriveKeeps, TurnKeeps, SettlesKeeps
  <2>2. \A d \in Requests : Good(d)'
    BY <1>2, <1>4, <2>1
  <2> QED
    BY <1>1, <1>3, <1>4, <2>2 DEF GInv, Good
<1>5. CASE Switch \/ CacheExpires \/ BucketsRefill \/ UNCHANGED vars
  <2>1. \A d \in Requests : Good(d)' /\ CacheIsVouched'
    BY <1>5, EnvironmentKeeps
  <2>2. CacheIsVouched'
    <3>1. (cacheFresh' => cacheFresh) /\ mainnetSeen \subseteq mainnetSeen'
      BY <1>5 DEF Switch, CacheExpires, BucketsRefill, vars
    <3> QED
      BY <3>1 DEF GInv, CacheIsVouched
  <2> QED
    BY <1>1, <2>1, <2>2 DEF GInv, Good
<1> QED
  BY <1>4, <1>5 DEF Next
-----------------------------------------------------------------------------
(* What follows from the invariant.                                        *)

\* GInv holds in every reachable state.
LEMMA Invariance == Spec => []GInv
<1>1. Init => GInv
  BY InitGInv
<1>2. GInv /\ [Next]_vars => GInv'
  BY StepGInv
<1> QED
  BY <1>1, <1>2, PTL DEF Spec

\* A request without a failing check is one of a known route, asked with its method,
\* and nothing its route looks at is defective.
LEMMA PassesChecks ==
  ASSUME NEW r \in Request, RouteStatus(r) = 0, r.route # "health"
  PROVE  /\ r.method = Method(r)
         /\ r.route \notin {"unknown", "undecodable", "accountUnknown", "assetUnknown"}
         /\ \A i \in DOMAIN RouteChecks(r.route) : RouteChecks(r.route)[i] \notin r.defects
<1> DEFINE checks == RouteChecks(r.route)
           failing == {i \in DOMAIN checks : CheckFails(checks[i], r)}
<1>1. failing = {}
  <2>1. \A check : CheckStatus(check) # 0
    BY DEF CheckStatus
  <2> HIDE DEF checks
  <2> QED
    BY <2>1 DEF RouteStatus, checks
<1>2. \A i \in DOMAIN checks : checks[i] \notin {"route", "encoding"}
  BY <1>1 DEF CheckFails
<1>3. r.route \notin {"unknown", "undecodable", "accountUnknown", "assetUnknown"}
  BY <1>2 DEF RouteChecks
<1>4. \E i \in DOMAIN checks : checks[i] = "method"
  <2>1. \/ checks = <<"method", "query", "address">>
        \/ checks = <<"address", "method", "query">>
        \/ checks = <<"address", "method", "id", "query">>
        \/ checks = <<"id", "method", "query">>
        \/ checks = <<"method", "id", "query">>
        \/ checks = <<"method">>
    BY <1>3 DEF RouteChecks
  <2>2. (1 \in DOMAIN checks /\ 2 \in DOMAIN checks) \/ checks = <<"method">>
    BY <2>1
  <2> HIDE DEF checks
  <2>3. checks[1] = "method" \/ checks[2] = "method"
    BY <2>1
  <2>4. checks = <<"method">> => 1 \in DOMAIN checks /\ checks[1] = "method"
    OBVIOUS
  <2> QED
    BY <2>2, <2>3, <2>4
<1>5. r.method = Method(r)
  BY <1>1, <1>4 DEF CheckFails
<1>6. \A i \in DOMAIN checks : checks[i] \notin r.defects
  BY <1>1 DEF CheckFails
<1> QED
  BY <1>3, <1>5, <1>6

\* For any keys, addresses and configuration: an upstream is called only on behalf of
\* a request from an allowed address, with a known key wherever it stood (or none
\* needed), that asks a known route with its method and in whose URL every part
\* the route reads is valid (gatewayHandler, lines 64-87, and the route functions).
THEOREM Admission == Spec => []OnlyAdmittedReachUpstream
<1>1. ASSUME GInv, NEW c \in Requests, Pending(c)
      PROVE  /\ IpAllowed(rq[c]) /\ Authenticated(rq[c])
             /\ rq[c].method = Method(rq[c])
             /\ rq[c].route \notin {"health", "unknown", "undecodable", "accountUnknown",
                                    "assetUnknown"}
             /\ \A i \in DOMAIN RouteChecks(rq[c].route) :
                  RouteChecks(rq[c].route)[i] \notin rq[c].defects
  <2>1. /\ rq[c] \in Request /\ IpAllowed(rq[c]) /\ Authenticated(rq[c])
        /\ RouteStatus(rq[c]) = 0 /\ rq[c].route # "health"
    BY <1>1 DEF GInv, Shape, Admitted
  <2> QED
    BY <2>1, PassesChecks
<1>2. ASSUME NEW r, Authenticated(r)
      PROVE  \/ AllowUnauthenticated
             \/ r.route = "ready" /\ ReadinessPublic
             \/ r.headerKey \in KnownKeys
             \/ r.headerKey = NoKey /\ r.form = "pathKey" /\ r.pathKey \in KnownKeys
  <2>1. NoKey \notin KnownKeys
    BY HandlerAssumption DEF HandlerAssumption
  <2> QED
    BY <1>2, <2>1 DEF Authenticated, Keyless, PresentedKey
<1>3. GInv => OnlyAdmittedReachUpstream
  BY <1>1, <1>2 DEF OnlyAdmittedReachUpstream
<1> QED
  BY <1>3, Invariance, PTL

\* However many requests overlap and whenever algod is repointed: "ready" and
\* "CONNECTED" mean that algod was MainNet while that request was handled.
THEOREM Ready == Spec => []ReadyMeansMainnet
<1>1. GInv => ReadyMeansMainnet
  BY DEF GInv, AnswersVouch, ReadyMeansMainnet
<1> QED
  BY <1>1, Invariance, PTL

\* An answer that says networkVerified was preceded by MainNet's genesis, fetched for
\* that request or for an earlier one whose verification is cached.
THEOREM Verified == Spec => []VerifiedOnlyIfSeen
<1>1. GInv => VerifiedOnlyIfSeen
  BY DEF GInv, AnswersVouch, VerifiedOnlyIfSeen
<1> QED
  BY <1>1, Invariance, PTL

\* Audit evidence that is sent holds every part its upstreams served: what is missing
\* came with a body that is empty or no JSON, and no failed or omitted call is passed over, however
\* many requests overlap and whatever readiness tolerated (routeAuditEvidence).
THEOREM Whole == Spec => []EvidenceHoldsWhatWasServed
<1>1. GInv => EvidenceHoldsWhatWasServed
  BY DEF GInv, AnswersVouch, EvidenceHoldsWhatWasServed
<1> QED
  BY <1>1, Invariance, PTL
-----------------------------------------------------------------------------
(* Types: answered exactly once, from buckets that stay within the burst.  *)

Responded(c) == at[c] = Done <=> answer[c].status # 0
LevelsOK == level \in [LimiterClients -> 0..Burst]

\* A handler that ends has an answer, and one that goes on has none yet.
LEMMA TurnResponds ==
  ASSUME Shape, NEW c \in Requests, at[c] # Done, Responded(c)
  PROVE  /\ \A a : a.status # 0 /\ Finish(c, a) => Responded(c)'
         /\ \A i \in 1..9 : \A failures : GoOn(c, i, failures) => Responded(c)'
<1>1. /\ at \in [Requests -> 0..Done]
      /\ answer \in [Requests -> [status : 0..599, verified : BOOLEAN, connected : BOOLEAN]]
      /\ answer[c].status = 0
  BY DEF Shape, Responded
<1>2. ASSUME NEW a, a.status # 0, Finish(c, a) PROVE Responded(c)'
  BY <1>1, <1>2 DEF Finish, Responded
<1>3. ASSUME NEW i \in 1..9, NEW failures, GoOn(c, i, failures) PROVE Responded(c)'
  <2>1. PICK next \in {i, i + 1} :
          \/ Finish(c, Completed(rq[c].route, failures))
          \/ Finish(c, Status(503))
          \/ /\ next <= Len(Plan(rq[c].route))
             /\ at' = [at EXCEPT ![c] = next] /\ UNCHANGED answer
    BY <1>3, GoOnEffect
  <2>2. Completed(rq[c].route, failures).status # 0 /\ Status(503).status # 0
    BY DEF Completed, Status
  <2>3. CASE Finish(c, Completed(rq[c].route, failures)) \/ Finish(c, Status(503))
    <3> DEFINE a == Completed(rq[c].route, failures)
               b == Status(503)
    <3>1. a.status # 0 /\ b.status # 0 /\ (Finish(c, a) \/ Finish(c, b))
      BY <2>2, <2>3
    <3> HIDE DEF a, b
    <3> QED
      BY <1>2, <3>1
  <2>4. CASE /\ next <= Len(Plan(rq[c].route))
             /\ at' = [at EXCEPT ![c] = next] /\ UNCHANGED answer
    <3>1. next # Done
      <4>1. Len(Plan(rq[c].route)) \in 1..8
        BY PlanLength
      <4>2. \A n \in 1..8 : \A m : m <= n => m # Done
        BY DEF Done
      <4> QED
        BY <2>4, <4>1, <4>2, Zenon
    <3> QED
      BY <1>1, <2>4, <3>1 DEF Responded
  <2> QED
    BY <2>1, <2>3, <2>4
<1> QED
  BY <1>2, <1>3

\* The handler whose turn it is keeps to that.
LEMMA HandlerResponds ==
  ASSUME GInv, NEW c \in Requests, Arrive(c) \/ Turn(c) \/ CallSettles(c), Responded(c)
  PROVE  Responded(c)'
<1>1. Shape
  BY DEF GInv
<1>2. 0 # Done
  BY DEF Done
<1>3. ASSUME NEW s, s # 0, at[c] # Done, Finish(c, Status(s)) PROVE Responded(c)'
  <2>1. Status(s).status # 0
    BY <1>3 DEF Status
  <2> QED
    BY <1>1, <1>3, <2>1, TurnResponds
<1>4. CASE Arrive(c)
  <2>1. (\E s : s # 0 /\ at[c] = 0 /\ Finish(c, Status(s))) \/ Start(c)
    BY <1>4
    DEF Arrive, Preflight, BadPath, Health, Forbid, Challenge, Limit, Misroute, Refuse
  <2>2. CASE Start(c)
    <3>1. at[c] # Done /\ GoOn(c, 1, {}) /\ 1 \in 1..9
      BY <1>2, <2>2 DEF Start
    <3> QED
      BY <1>1, <3>1, TurnResponds
  <2> QED
    BY <1>2, <1>3, <2>1, <2>2
<1>5. CASE Throw(c)
  <2>1. at[c] # Done
    BY <1>5 DEF Throw, Resumes, Pending
  <2> QED
    BY <1>3, <1>5, <2>1 DEF Throw
<1>6. CASE RecordFailure(c) \/ Advance(c)
  <2>1. at[c] # Done /\ at[c] \in 1..Len(Plan(rq[c].route))
    BY <1>6 DEF RecordFailure, Advance, Resumes, Pending, GInv, Trail
  <2>2. at[c] + 1 \in 1..9
    <3>1. Len(Plan(rq[c].route)) \in 1..8
      BY PlanLength
    <3>2. \A n \in 1..8 : \A m \in 1..n : m + 1 \in 1..9
      OBVIOUS
    <3> QED
      BY <2>1, <3>1, <3>2, Zenon
  <2>3. \E failures : GoOn(c, at[c] + 1, failures)
    BY <1>6 DEF RecordFailure, Advance
  <2> QED
    BY <1>1, <2>1, <2>2, <2>3, TurnResponds
<1>7. CASE SubmissionEnds(c)
  <2>1. at[c] # Done
    BY <1>7 DEF SubmissionEnds, Pending
  <2>2. PICK s \in SubmissionStatuses : Finish(c, Status(s))
    BY <1>7 DEF SubmissionEnds
  <2>3. s # 0
    BY HandlerAssumption DEF HandlerAssumption
  <2> QED
    BY <1>3, <2>1, <2>2, <2>3
<1>8. CASE CallSettles(c)
  BY <1>8 DEF CallSettles, Responded
<1> QED
  BY <1>4, <1>5, <1>6, <1>7, <1>8 DEF Turn

\* A bucket holds no less than nothing and no more than the burst.
LEMMA LevelsStep ==
  ASSUME LevelsOK, [Next]_vars
  PROVE  LevelsOK'
<1>1. Burst \in Nat /\ level \in [LimiterClients -> 0..Burst]
  BY HandlerAssumption DEF HandlerAssumption, LevelsOK
<1>2. CASE level' = level
  BY <1>2 DEF LevelsOK
<1>3. ASSUME NEW k, Limiter!Grant(k) PROVE LevelsOK'
  <2>1. level[k] >= 1 /\ level' = [level EXCEPT ![k] = @ - 1]
    BY <1>3 DEF Limiter!Grant
  <2>2. k \in LimiterClients => level[k] - 1 \in 0..Burst
    BY <1>1, <2>1
  <2> QED
    BY <1>1, <2>1, <2>2 DEF LevelsOK
<1>4. CASE BucketsRefill
  <2>1. level' = [k \in LimiterClients |-> Limiter!AtMost(Burst, level[k] + 1)]
    BY <1>4 DEF BucketsRefill, Limiter!Elapse
  <2>2. \A k \in LimiterClients : Limiter!AtMost(Burst, level[k] + 1) \in 0..Burst
    BY <1>1 DEF Limiter!AtMost
  <2> QED
    BY <2>1, <2>2 DEF LevelsOK
<1>5. (\E k : Limiter!Grant(k)) \/ BucketsRefill \/ level' = level
  <2>1. CASE UNCHANGED vars \/ Switch \/ CacheExpires
    BY <2>1 DEF vars, limiterVars, Switch, CacheExpires
  <2>2. ASSUME NEW c \in Requests, Arrive(c)
        PROVE  (\E k : Limiter!Grant(k)) \/ level' = level
    BY <2>2
    DEF Arrive, Preflight, BadPath, Health, Forbid, Challenge, Limit, Misroute, Start,
        limiterVars, Limiter!Limit
  <2>3. ASSUME NEW c \in Requests, Turn(c) \/ CallSettles(c) PROVE level' = level
    BY <2>3 DEF Turn, Throw, RecordFailure, Advance, SubmissionEnds, CallSettles, limiterVars
  <2> QED
    BY <2>1, <2>2, <2>3 DEF Next
<1> QED
  BY <1>2, <1>3, <1>4, <1>5

\* Every variable keeps its type: a handler is suspended within its plan, a request has
\* an answer exactly when its handler is done, and no bucket overflows or goes negative.
THEOREM TypeCorrect == Spec => []TypeOK
<1> DEFINE Typed == LevelsOK /\ \A c \in Requests : Responded(c)
<1>1. Init => Typed
  <2> SUFFICES ASSUME Init PROVE Typed
    OBVIOUS
  <2>1. LevelsOK
    <3>1. Burst \in Nat
      BY HandlerAssumption DEF HandlerAssumption
    <3> QED
      BY <3>1 DEF Init, Limiter!Init, LevelsOK
  <2>2. \A c \in Requests : Responded(c)
    <3>1. 0 # Done /\ NoAnswer.status = 0
      BY DEF Done, NoAnswer
    <3>2. \A c \in Requests : at[c] = 0 /\ answer[c] = NoAnswer
      BY DEF Init
    <3> QED
      BY <3>1, <3>2 DEF Responded
  <2> QED
    BY <2>1, <2>2
<1>2. GInv /\ Typed /\ [Next]_vars => Typed'
  <2> SUFFICES ASSUME GInv, Typed, [Next]_vars PROVE Typed'
    OBVIOUS
  <2>1. LevelsOK'
    BY LevelsStep
  <2>2. ASSUME NEW c \in Requests, Arrive(c) \/ Turn(c) \/ CallSettles(c), NEW d \in Requests
        PROVE  Responded(d)'
    <3>1. CASE d = c
      BY <2>2, <3>1, HandlerResponds
    <3>2. CASE d # c
      <4>1. at'[d] = at[d] /\ answer'[d] = answer[d]
        BY <2>2, <3>2, OthersUntouched DEF GInv
      <4> QED
        BY <4>1 DEF Responded
    <3> QED
      BY <3>1, <3>2
  <2>3. CASE Switch \/ CacheExpires \/ BucketsRefill \/ UNCHANGED vars
    <3>1. at' = at /\ answer' = answer
      BY <2>3 DEF Switch, CacheExpires, BucketsRefill, vars, handlerVars
    <3> QED
      BY <2>1, <3>1 DEF Responded
  <2> QED
    BY <2>1, <2>2, <2>3 DEF Next
<1>3. GInv /\ Typed => TypeOK
  <2> SUFFICES ASSUME GInv, Typed PROVE TypeOK
    OBVIOUS
  <2>1. \A c \in Requests : Pending(c) => at[c] \in DOMAIN Plan(rq[c].route)
    BY PlanLength DEF GInv, Trail
  <2> QED
    BY <2>1 DEF GInv, Shape, TypeOK, LevelsOK, Responded
<1> HIDE DEF Typed
<1> QED
  BY <1>1, <1>2, <1>3, Invariance, PTL DEF Spec
=============================================================================
