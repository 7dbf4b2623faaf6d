----------------------------- MODULE Process_proofs ----------------------------
(***************************************************************************)
(* Proofs about Process for every number of connections, every timeout,    *)
(* retry count and backoff, and every environment: its types, the transport *)
(* it serves, and what it states of the retry loop of its upstream calls.  *)
(***************************************************************************)
EXTENDS Process, TLAPS

-----------------------------------------------------------------------------
(* The inductive invariant.                                                *)

\* Every attempt times out and every backoff in between reaches its cap.
Budget(attempts, backoffs) == attempts * TimeoutMs + backoffs * BackoffCap

\* A pending call counts its fetches, and its timer, which has not been missed,
\* is within the budget of the attempts made so far.
CallKeepsBudget(c) ==
  LET n == call[c].attempt
  IN  IF Loop!Pending(c)
      THEN /\ n \in 1..Loop!MaxAttempts(c)
           /\ call[c].phase = "backoff" => n < Loop!MaxAttempts(c)
           /\ sends[c] = n
           /\ now <= call[c].timer
           /\ call[c].timer - startedAt[c]
                <= Budget(n, IF call[c].phase = "backoff" THEN n ELSE n - 1)
      ELSE call[c] = Loop!Idle

CallsKeepBudget == \A c \in Connections : CallKeepsBudget(c)

\* Nothing listens before loadConfig has returned.
ServesAccepted == life \in {"binding", "listening", "closing"} => Accepted(env)

PInv == TypeOK /\ CallsKeepBudget /\ ServesAccepted

-----------------------------------------------------------------------------
(* Arithmetic and types of calls.                                          *)

\* The numeric constants.
LEMMA Constants ==
  /\ RetryAttempts \in Nat
  /\ TimeoutMs \in Nat \ {0}
  /\ BackoffCap \in Nat
  /\ UpstreamStatuses \subseteq 200..599
  /\ \A n \in 1..RetryAttempts : Loop!BackoffMs(n) \in 0..BackoffCap
BY CallsAssumption DEF CallsAssumption

\* More attempts have a larger budget.
LEMMA BudgetGrows ==
  ASSUME NEW a \in Nat, NEW b \in Nat, NEW k \in Nat, a <= b
  PROVE  a * k \in Nat /\ a * k <= b * k
OBVIOUS

\* The next attempt adds a timeout.
LEMMA BudgetOfNext ==
  ASSUME NEW n \in Nat
  PROVE  Budget(n + 1, n) = Budget(n, n) + TimeoutMs
BY Constants DEF Budget

\* A backoff is at most one cap.
LEMMA BudgetOfBackoff ==
  ASSUME NEW n \in Nat \ {0}
  PROVE  Budget(n, n) = Budget(n, n - 1) + BackoffCap
BY Constants DEF Budget

\* Budgets are numbers.
LEMMA BudgetType ==
  ASSUME NEW a \in Nat, NEW b \in Nat
  PROVE  Budget(a, b) \in Nat
BY Constants DEF Budget

\* Outcomes and statuses are small integers.
LEMMA StatusRange ==
  ASSUME NEW s \in Loop!FetchOutcomes
  PROVE  s \in 0..599 /\ Loop!ErrorStatus(s) \in 0..599
<1>1. s \in 1..599
  BY Constants DEF Loop!FetchOutcomes, Loop!FetchRejected
<1> QED
  BY <1>1 DEF Loop!ErrorStatus, Loop!UpstreamHttpError

\* A fetch that has just been sent is a well-formed call.
LEMMA FetchType ==
  ASSUME now \in Nat, NEW safe \in BOOLEAN, NEW n \in 0..(RetryAttempts + 1)
  PROVE  Loop!FetchOnce(safe, n) \in Loop!CallType
BY Constants DEF Loop!FetchOnce, Loop!CallType, Loop!NoReply

\* No call is a well-formed call.
LEMMA IdleType == Loop!Idle \in Loop!CallType
BY Constants DEF Loop!Idle, Loop!CallType, Loop!NoReply

-----------------------------------------------------------------------------
(* The steps of the retry loop.                                            *)

\* A step of the loop of one call touches no other.
LEMMA OthersKeepBudget ==
  ASSUME CallsKeepBudget, NEW c \in Connections, now' = now,
         \A d \in Connections \ {c} :
            call'[d] = call[d] /\ sends'[d] = sends[d] /\ startedAt'[d] = startedAt[d],
         CallKeepsBudget(c)'
  PROVE  CallsKeepBudget'
<1> SUFFICES ASSUME NEW d \in Connections, d # c PROVE CallKeepsBudget(d)'
  BY DEF CallsKeepBudget
<1>1. CallKeepsBudget(d) /\ call'[d] = call[d] /\ sends'[d] = sends[d]
        /\ startedAt'[d] = startedAt[d]
  BY DEF CallsKeepBudget
<1> QED
  BY <1>1 DEF CallKeepsBudget, Loop!Pending, Loop!MaxAttempts, Budget

\* A call begins with its first attempt's budget.
LEMMA RequestStep ==
  ASSUME Loop!TypeOK, CallsKeepBudget, NEW c \in Connections, Loop!Request(c)
  PROVE  Loop!TypeOK' /\ CallsKeepBudget'
<1> USE DEF Loop!TypeOK
<1>1. PICK safe \in BOOLEAN :
        /\ call' = [call EXCEPT ![c] = Loop!FetchOnce(safe, 1)]
        /\ sends' = [sends EXCEPT ![c] = 1]
        /\ startedAt' = [startedAt EXCEPT ![c] = now]
        /\ UNCHANGED <<now, result>>
  BY DEF Loop!Request, Loop!StartRequest
<1>2. 1 \in 0..(RetryAttempts + 1)
  BY Constants
<1>3. Loop!FetchOnce(safe, 1) \in Loop!CallType
  BY <1>2, FetchType
<1>4. Loop!TypeOK'
  BY <1>1, <1>2, <1>3
<1>5. CallKeepsBudget(c)'
  BY <1>1, Constants
  DEF CallKeepsBudget, Loop!Pending, Loop!MaxAttempts, Loop!FetchOnce, Budget
<1> QED
  BY <1>1, <1>4, <1>5, OthersKeepBudget

\* An answer on its way changes neither the timer nor the attempts.
LEMMA AnswerStep ==
  ASSUME Loop!TypeOK, CallsKeepBudget, NEW c \in Connections, Loop!Answer(c)
  PROVE  Loop!TypeOK' /\ CallsKeepBudget'
<1> USE DEF Loop!TypeOK
<1>1. PICK s \in Loop!FetchOutcomes :
        /\ call[c].phase = "inflight"
        /\ call' = [call EXCEPT ![c].reply = s]
        /\ UNCHANGED <<now, sends, startedAt, result>>
  BY DEF Loop!Answer, Loop!UpstreamReplies
<1>2. call[c] \in Loop!CallType /\ CallKeepsBudget(c)
  BY DEF CallsKeepBudget
<1>3. Loop!TypeOK'
  BY <1>1, <1>2 DEF Loop!CallType
<1>4. CallKeepsBudget(c)'
  BY <1>1, <1>2 DEF CallKeepsBudget, Loop!Pending, Loop!MaxAttempts, Budget, Loop!CallType
<1> QED
  BY <1>1, <1>3, <1>4, OthersKeepBudget

\* A backoff starts no later than its fetch was to be aborted.
LEMMA WaitStep ==
  ASSUME Loop!TypeOK, CallsKeepBudget, NEW c \in Connections, Loop!Wait(c)
  PROVE  Loop!TypeOK' /\ CallsKeepBudget'
<1> USE DEF Loop!TypeOK
<1> DEFINE n == call[c].attempt
<1>1. PICK s \in Loop!FetchOutcomes :
        /\ call[c].phase = "inflight"
        /\ n < Loop!MaxAttempts(c)
        /\ call' = [call EXCEPT ![c].phase = "backoff",
                                ![c].timer = now + Loop!BackoffMs(call[c].attempt),
                                ![c].reply = Loop!NoReply]
        /\ UNCHANGED <<now, sends, startedAt, result>>
  BY DEF Loop!Wait, Loop!BackOff, Loop!FetchSettles, Loop!RetriesAfter
<1>2. call[c] \in Loop!CallType /\ CallKeepsBudget(c)
  BY DEF CallsKeepBudget
<1>3. n \in 1..RetryAttempts
  BY <1>1, <1>2, Constants DEF CallKeepsBudget, Loop!Pending, Loop!MaxAttempts, Loop!CallType
<1>4. Loop!BackoffMs(n) \in 0..BackoffCap
  BY <1>3, Constants
<1>5. now + Loop!BackoffMs(n) \in Nat
  BY <1>4, Constants
<1>6. Loop!TypeOK'
  BY <1>1, <1>2, <1>5 DEF Loop!CallType
<1>7. call'[c].timer - startedAt[c] <= Budget(n, n)
  <2>1. /\ now <= call[c].timer
        /\ call[c].timer - startedAt[c] <= Budget(n, n - 1)
    BY <1>1, <1>2 DEF CallKeepsBudget, Loop!Pending
  <2>2. Budget(n, n) = Budget(n, n - 1) + BackoffCap
    BY <1>3, BudgetOfBackoff
  <2>3. call'[c].timer = now + Loop!BackoffMs(n)
    BY <1>1
  <2>4. n \in Nat /\ n - 1 \in Nat
    BY <1>3, Constants
  <2>5. Budget(n, n - 1) \in Nat
    BY <2>4, BudgetType
  <2>6. startedAt[c] \in Nat /\ call[c].timer \in Nat /\ now \in Nat
    BY <1>2 DEF Loop!CallType
  <2> QED
    BY <1>4, <2>1, <2>2, <2>3, <2>5, <2>6, Constants
<1>8. CallKeepsBudget(c)'
  <2>1. /\ call'[c].phase = "backoff" /\ call'[c].attempt = n
        /\ call'[c].retrySafe = call[c].retrySafe
        /\ call'[c].timer = now + Loop!BackoffMs(n)
    BY <1>1
  <2>2. sends[c] = n /\ n < Loop!MaxAttempts(c)
    BY <1>1, <1>2 DEF CallKeepsBudget, Loop!Pending
  <2>3. n < Loop!MaxAttempts(c)' /\ n \in 1..Loop!MaxAttempts(c)'
    BY <1>3, <2>1, <2>2, Constants DEF Loop!MaxAttempts
  <2>4. now <= now + Loop!BackoffMs(n)
    BY <1>4, Constants
  <2> QED
    BY <1>1, <1>7, <2>1, <2>2, <2>3, <2>4 DEF CallKeepsBudget, Loop!Pending, Budget
<1> QED
  BY <1>1, <1>6, <1>8, OthersKeepBudget

\* The next attempt adds its own timeout to the budget.
LEMMA RetryStep ==
  ASSUME Loop!TypeOK, CallsKeepBudget, NEW c \in Connections, Loop!Retry(c)
  PROVE  Loop!TypeOK' /\ CallsKeepBudget'
<1> USE DEF Loop!TypeOK
<1> DEFINE n == call[c].attempt
<1>1. /\ call[c].phase = "backoff" /\ now >= call[c].timer
      /\ call' = [call EXCEPT ![c] = Loop!FetchOnce(call[c].retrySafe, n + 1)]
      /\ sends' = [sends EXCEPT ![c] = sends[c] + 1]
      /\ UNCHANGED <<now, startedAt, result>>
  BY DEF Loop!Retry, Loop!Resend
<1>2. call[c] \in Loop!CallType /\ CallKeepsBudget(c)
  BY DEF CallsKeepBudget
<1>3. /\ n \in 1..RetryAttempts /\ n < Loop!MaxAttempts(c) /\ sends[c] = n
      /\ n + 1 \in 0..(RetryAttempts + 1)
  BY <1>1, <1>2, Constants DEF CallKeepsBudget, Loop!Pending, Loop!MaxAttempts, Loop!CallType
<1>4. Loop!FetchOnce(call[c].retrySafe, n + 1) \in Loop!CallType
  BY <1>2, <1>3, FetchType DEF Loop!CallType
<1>5. Loop!TypeOK'
  BY <1>1, <1>3, <1>4
<1>6. now + TimeoutMs - startedAt[c] <= Budget(n + 1, n)
  <2>1. now <= call[c].timer /\ call[c].timer - startedAt[c] <= Budget(n, n)
    BY <1>1, <1>2 DEF CallKeepsBudget, Loop!Pending
  <2>2. Budget(n + 1, n) = Budget(n, n) + TimeoutMs
    BY <1>3, BudgetOfNext
  <2>3. Budget(n, n) \in Nat /\ startedAt[c] \in Nat /\ call[c].timer \in Nat
    BY <1>2, <1>3, BudgetType DEF Loop!CallType
  <2> QED
    BY <2>1, <2>2, <2>3, Constants
<1>7. CallKeepsBudget(c)'
  <2>1. /\ call'[c].phase = "inflight" /\ call'[c].attempt = n + 1
        /\ call'[c].retrySafe = call[c].retrySafe
        /\ call'[c].timer = now + TimeoutMs
    BY <1>1 DEF Loop!FetchOnce
  <2>2. sends'[c] = n + 1 /\ (n + 1) - 1 = n
    BY <1>1, <1>3
  <2>3. n + 1 \in 1..Loop!MaxAttempts(c)'
    BY <1>3, <2>1, Constants DEF Loop!MaxAttempts
  <2>4. /\ now' <= call'[c].timer
        /\ call'[c].timer - startedAt'[c] <= Budget(n + 1, n)
    BY <1>1, <1>6, <2>1, Constants
  <2>5. call'[c].phase # "idle" /\ call'[c].phase # "backoff"
    BY <2>1
  <2>6. call'[c].attempt = n + 1 /\ call'[c].attempt - 1 = n
    BY <2>1, <2>2
  <2>7. /\ call'[c].timer - startedAt'[c] <= Budget(call'[c].attempt, call'[c].attempt - 1)
        /\ call'[c].attempt \in 1..Loop!MaxAttempts(c)'
        /\ sends'[c] = call'[c].attempt
    BY <2>2, <2>3, <2>4, <2>6
  <2> HIDE DEF n
  <2> QED
    BY <2>4, <2>5, <2>7, Zenon DEF CallKeepsBudget, Loop!Pending, Budget
<1> QED
  BY <1>1, <1>5, <1>7, OthersKeepBudget

\* A call that has ended has no budget.
LEMMA SettleStep ==
  ASSUME Loop!TypeOK, CallsKeepBudget, NEW c \in Connections,
         Loop!Return(c) \/ Loop!Throw(c)
  PROVE  Loop!TypeOK' /\ CallsKeepBudget'
<1>1. PICK status \in 0..599 : Loop!Settle(c, status)
  <2>1. CASE Loop!Return(c)
    BY <2>1, StatusRange DEF Loop!Return
  <2>2. CASE Loop!Throw(c)
    BY <2>2, StatusRange DEF Loop!Throw
  <2> QED
    BY <2>1, <2>2
<1>2. Loop!TypeOK'
  BY <1>1, IdleType DEF Loop!TypeOK, Loop!Settle
<1>3. CallKeepsBudget(c)'
  BY <1>1 DEF Loop!TypeOK, Loop!Settle, CallKeepsBudget, Loop!Pending, Loop!Idle
<1> QED
  BY <1>1, <1>2, <1>3, OthersKeepBudget DEF Loop!TypeOK, Loop!Settle

\* The clock does not pass a timer that is due.
LEMMA TickStep ==
  ASSUME Loop!TypeOK, CallsKeepBudget, Loop!Tick
  PROVE  Loop!TypeOK' /\ CallsKeepBudget'
<1>1. Loop!TypeOK'
  BY DEF Loop!Tick, Loop!TypeOK
<1>2. ASSUME NEW c \in Connections PROVE CallKeepsBudget(c)'
  <2>1. /\ CallKeepsBudget(c) /\ call[c] \in Loop!CallType
        /\ UNCHANGED <<call, sends, startedAt>>
        /\ Loop!Pending(c) => now' <= call[c].timer
    BY DEF CallsKeepBudget, Loop!Tick, Loop!TimersQuiet, Loop!TypeOK, Loop!Pending, Loop!CallType
  <2> QED
    BY <2>1 DEF CallKeepsBudget, Loop!Pending, Loop!MaxAttempts, Budget
<1> QED
  BY <1>1, <1>2 DEF CallsKeepBudget

-----------------------------------------------------------------------------
(* The steps of the process.                                               *)

\* A process starts in a state of the invariant.
LEMMA InitPInv == Init => PInv
<1> SUFFICES ASSUME Init PROVE PInv
  OBVIOUS
<1>1. call = [c \in Connections |-> Loop!Idle]
  BY DEF Init, Loop!Init
<1>2. Loop!TypeOK
  BY <1>1, IdleType, Constants DEF Init, Loop!Init, Loop!TypeOK, Loop!NoReply
<1>3. TypeOK
  BY <1>1, <1>2 DEF Init, TypeOK, Stages, NoExit, Loop!Pending, Loop!Idle
<1>4. CallsKeepBudget
  BY <1>1 DEF CallsKeepBudget, CallKeepsBudget, Loop!Pending, Loop!Idle
<1>5. ServesAccepted
  BY DEF Init, ServesAccepted
<1> QED
  BY <1>3, <1>4, <1>5 DEF PInv

\* What a step of the process does to the calls is a step of UpstreamRequest, or
\* makes room for the next call of a connection, or ends them all.
LEMMA LoopStep ==
  ASSUME PInv, [Next]_vars
  PROVE  Loop!TypeOK' /\ CallsKeepBudget'
<1> USE DEF PInv, TypeOK
<1>1. ASSUME UNCHANGED <<now, call, sends, startedAt>>,
             UNCHANGED result \/ \E c \in Connections : result' = [result EXCEPT ![c] = Loop!NoReply]
      PROVE  Loop!TypeOK' /\ CallsKeepBudget'
  <2>1. Loop!TypeOK'
    BY <1>1 DEF Loop!TypeOK, Loop!NoReply
  <2>2. CallsKeepBudget'
    BY <1>1 DEF CallsKeepBudget, CallKeepsBudget, Loop!Pending, Loop!MaxAttempts, Budget
  <2> QED
    BY <2>1, <2>2
<1>2. ASSUME NEW code, Exit(code) PROVE Loop!TypeOK' /\ CallsKeepBudget'
  <2>1. /\ call' = [c \in Connections |-> Loop!Idle]
        /\ UNCHANGED <<now, sends, startedAt, result>>
    BY <1>2 DEF Exit
  <2>2. Loop!TypeOK'
    BY <2>1, IdleType DEF Loop!TypeOK
  <2>3. CallsKeepBudget'
    BY <2>1 DEF CallsKeepBudget, CallKeepsBudget, Loop!Pending, Loop!Idle
  <2> QED
    BY <2>2, <2>3
<1>3. CASE Start
  BY <1>1, <1>2, <1>3 DEF Start, RefuseConfiguration, FailToCreateServer, Listen, loopVars
<1>4. CASE Bind \/ SignalWhileBinding \/ Signal \/ Drain
  BY <1>1, <1>2, <1>4 DEF Bind, Bound, FailToBind, SignalWhileBinding, Signal, Drain, loopVars
<1>5. CASE Tick
  BY <1>5, TickStep DEF Tick
<1>6. ASSUME NEW c \in Connections,
             Connect(c) \/ SendAnother(c) \/ AnswerAtOnce(c) \/ Leave(c)
               \/ KeepAliveExpires(c) \/ RequestTimesOut(c)
      PROVE  Loop!TypeOK' /\ CallsKeepBudget'
  BY <1>1, <1>6
  DEF Connect, SendAnother, AnswerAtOnce, Leave, KeepAliveExpires, RequestTimesOut, loopVars
<1>7. ASSUME NEW c \in Connections, Handle(c) \/ UpstreamAnswers(c) \/ GoOn(c) \/ Answer(c)
      PROVE  Loop!TypeOK' /\ CallsKeepBudget'
  BY <1>7, RequestStep, AnswerStep, WaitStep, RetryStep, SettleStep
  DEF Handle, UpstreamAnswers, GoOn, Answer
<1>8. CASE UNCHANGED vars
  BY <1>1, <1>8 DEF vars, loopVars
<1> QED
  BY <1>3, <1>4, <1>5, <1>6, <1>7, <1>8 DEF Next, Turn

\* A connection is with its handler, or has left it, exactly while its call is
\* pending.
Attended(c) ==
  life # "exited" => (stage[c] \in {"handling", "left"} <=> Loop!Pending(c))

\* A step keeps handlers and calls together.
LEMMA AttendedStep ==
  ASSUME PInv, [Next]_vars, NEW d \in Connections
  PROVE  Attended(d)'
<1> USE DEF PInv, TypeOK, Stages
<1>1. Attended(d) /\ stage \in [Connections -> Stages]
  BY DEF Attended
<1>2. ASSUME life' = life, stage'[d] = stage[d], call'[d] = call[d] PROVE Attended(d)'
  BY <1>1, <1>2 DEF Attended, Loop!Pending
<1>3. CASE Start \/ Bind \/ SignalWhileBinding \/ Drain
  <2>1. CASE \E code \in {0, 1, 78} : Exit(code)
    BY <2>1 DEF Exit, Attended
  <2>2. CASE Listen \/ Bound
    BY <1>1, <2>2 DEF Listen, Bound, loopVars, Attended, Loop!Pending
  <2> QED
    BY <1>3, <2>1, <2>2
    DEF Start, RefuseConfiguration, FailToCreateServer, Bind, FailToBind, SignalWhileBinding, Drain
<1>4. CASE Signal
  BY <1>1, <1>4 DEF Signal, Attended, Loop!Pending, loopVars
<1>5. CASE Tick
  BY <1>2, <1>5 DEF Tick, Loop!Tick
<1>6. ASSUME NEW c \in Connections,
             Connect(c) \/ SendAnother(c) \/ AnswerAtOnce(c) \/ Leave(c)
               \/ KeepAliveExpires(c) \/ RequestTimesOut(c)
      PROVE  Attended(d)'
  BY <1>1, <1>6
  DEF Connect, SendAnother, AnswerAtOnce, Leave, KeepAliveExpires, RequestTimesOut, Move,
      Running, loopVars, Attended, Loop!Pending
<1>7. ASSUME NEW c \in Connections, Handle(c) PROVE Attended(d)'
  <2>1. CASE d = c
    BY <1>1, <1>7, <2>1
    DEF Handle, Move, Loop!Request, Loop!StartRequest, Loop!FetchOnce, Loop!TypeOK, Attended,
        Loop!Pending
  <2>2. CASE d # c
    BY <1>2, <1>7, <2>2 DEF Handle, Move, Loop!Request, Loop!StartRequest, Loop!TypeOK
  <2> QED
    BY <2>1, <2>2
<1>8. ASSUME NEW c \in Connections, UpstreamAnswers(c) \/ GoOn(c) PROVE Attended(d)'
  <2>1. /\ call[d].phase # "idle" <=> call'[d].phase # "idle"
        /\ UNCHANGED <<life, stage>>
    <3>1. CASE UpstreamAnswers(c)
      BY <3>1 DEF UpstreamAnswers, Loop!Answer, Loop!UpstreamReplies, Loop!TypeOK, Loop!CallType
    <3>2. CASE Loop!Wait(c)
      BY <1>8, <3>2
      DEF UpstreamAnswers, GoOn, Loop!Wait, Loop!BackOff, Loop!FetchSettles, Loop!TypeOK,
          Loop!CallType
    <3>3. CASE Loop!Retry(c)
      BY <1>8, <3>3
      DEF UpstreamAnswers, GoOn, Loop!Retry, Loop!Resend, Loop!FetchOnce, Loop!TypeOK,
          Loop!CallType
    <3> QED
      BY <1>8, <3>1, <3>2, <3>3 DEF GoOn
  <2> QED
    BY <1>1, <2>1 DEF Attended, Loop!Pending
<1>9. ASSUME NEW c \in Connections, Answer(c) PROVE Attended(d)'
  <2>1. call' = [call EXCEPT ![c] = Loop!Idle]
    BY <1>9 DEF Answer, Loop!Return, Loop!Throw, Loop!Settle
  <2>2. CASE d = c
    BY <1>1, <1>9, <2>1, <2>2 DEF Answer, Move, Loop!Idle, Loop!TypeOK, Attended, Loop!Pending
  <2>3. CASE d # c
    BY <1>2, <1>9, <2>1, <2>3 DEF Answer, Move, Loop!TypeOK
  <2> QED
    BY <2>2, <2>3
<1>10. CASE UNCHANGED vars
  BY <1>2, <1>10 DEF vars, loopVars
<1> QED
  BY <1>3, <1>4, <1>5, <1>6, <1>7, <1>8, <1>9, <1>10 DEF Next, Turn

\* Every step of a process keeps the invariant.
LEMMA PInvStep == PInv /\ [Next]_vars => PInv'
<1> SUFFICES ASSUME PInv, [Next]_vars PROVE PInv'
  OBVIOUS
<1> USE DEF PInv
<1>1. Loop!TypeOK' /\ CallsKeepBudget'
  BY LoopStep
<1>2. \A c \in Connections : Attended(c)'
  BY AttendedStep
<1>3. /\ env' = env
      /\ life' \in {"starting", "binding", "listening", "closing", "exited"}
      /\ exitCode' \in {NoExit, 0, 1, 78}
      /\ life' = "exited" <=> exitCode' # NoExit
      /\ life' \in {"binding", "listening", "closing"} =>
           life \in {"binding", "listening", "closing"} \/ Accepted(env)
  <2> USE DEF TypeOK, NoExit
  <2>1. ASSUME NEW code \in {0, 1, 78}, Exit(code) PROVE <1>3!:
    BY <2>1 DEF Exit
  <2>2. CASE Start
    BY <2>1, <2>2 DEF Start, RefuseConfiguration, FailToCreateServer, Listen
  <2>3. CASE Bind \/ SignalWhileBinding \/ Drain \/ Signal
    BY <2>1, <2>3 DEF Bind, Bound, FailToBind, SignalWhileBinding, Drain, Signal
  <2>4. CASE Tick \/ UNCHANGED vars
    BY <2>4 DEF Tick, vars
  <2>5. ASSUME NEW c \in Connections,
               Connect(c) \/ SendAnother(c) \/ AnswerAtOnce(c) \/ Leave(c)
                 \/ KeepAliveExpires(c) \/ RequestTimesOut(c) \/ Handle(c)
                 \/ UpstreamAnswers(c) \/ GoOn(c) \/ Answer(c)
        PROVE  <1>3!:
    BY <2>5
    DEF Connect, SendAnother, AnswerAtOnce, Leave, KeepAliveExpires, RequestTimesOut, Handle,
        UpstreamAnswers, GoOn, Answer
  <2> QED
    BY <2>2, <2>3, <2>4, <2>5 DEF Next, Turn
<1>4. stage' \in [Connections -> Stages]
  <2>1. UNCHANGED stage \/ Signal \/ \E c \in Connections, s \in Stages : Move(c, s)
    <3>1. CASE Start \/ Bind \/ SignalWhileBinding \/ Drain \/ Tick \/ UNCHANGED vars
      BY <3>1
      DEF Start, RefuseConfiguration, FailToCreateServer, Listen, Bind, Bound, FailToBind,
          SignalWhileBinding, Drain, Exit, Tick, vars
    <3>2. ASSUME NEW c \in Connections,
                 Connect(c) \/ SendAnother(c) \/ AnswerAtOnce(c) \/ Leave(c)
                   \/ KeepAliveExpires(c) \/ RequestTimesOut(c) \/ Handle(c)
                   \/ UpstreamAnswers(c) \/ GoOn(c) \/ Answer(c)
          PROVE  <2>1!:
      BY <3>2
      DEF Connect, SendAnother, AnswerAtOnce, Leave, KeepAliveExpires, RequestTimesOut, Handle,
          UpstreamAnswers, GoOn, Answer, Stages
    <3> QED
      BY <3>1, <3>2 DEF Next, Turn
  <2> QED
    BY <2>1 DEF TypeOK, Signal, Move, Stages
<1>5. TypeOK'
  BY <1>1, <1>2, <1>3, <1>4 DEF TypeOK, Attended
<1>6. ServesAccepted'
  <2>1. Accepted(env)' <=> Accepted(env)
    BY <1>3 DEF Accepted, TlsRulesHold, HasTlsFiles, Has, Flag, IntegerFits, Least, Integer
  <2> QED
    BY <1>3, <2>1 DEF ServesAccepted
<1> QED
  BY <1>1, <1>5, <1>6

-----------------------------------------------------------------------------
(* The theorems.                                                           *)

\* Every state of every process satisfies the invariant.
LEMMA Invariance == Spec => []PInv
<1>1. Init => PInv
  BY InitPInv
<1>2. PInv /\ [Next]_vars => PInv'
  BY PInvStep
<1> QED
  BY <1>1, <1>2, PTL DEF Spec

\* The variables of a process keep their types, and handlers and calls together.
THEOREM TypeCorrect == Spec => []TypeOK
<1>1. PInv => TypeOK
  BY DEF PInv
<1> QED
  BY <1>1, Invariance, PTL

\* However many requests a process serves and whatever environment it was given,
\* it takes them only over the transport that environment requires.
THEOREM Transported == Spec => []RequiredTransportIsServed
<1>1. PInv => RequiredTransportIsServed
  <2> SUFFICES ASSUME PInv, Running PROVE RequiredTransportIsServed
    BY DEF RequiredTransportIsServed
  <2>1. TlsRulesHold(env)
    BY DEF PInv, ServesAccepted, Running, Accepted
  <2>2. ASSUME Flag(env, "REQUIRE_TLS") PROVE Transport(env) # "http"
    BY <2>1, <2>2 DEF TlsRulesHold, HasTlsFiles, Transport
  <2>3. ASSUME Flag(env, "MTLS_REQUIRED") PROVE Transport(env) = "clientCertRequired"
    BY <2>1, <2>3 DEF TlsRulesHold, HasTlsFiles, Transport
  <2> QED
    BY <2>2, <2>3 DEF RequiredTransportIsServed
<1> QED
  BY <1>1, Invariance, PTL

\* Whatever the retries, the timeout and the backoff are set to, and whatever
\* upstreams answer or do not, no call is pending for longer than its budget.
THEOREM BoundedTime == Spec => []AnsweredInBoundedTime
<1>1. PInv => AnsweredInBoundedTime
  <2> SUFFICES ASSUME PInv, NEW c \in Connections, Loop!Pending(c)
               PROVE  now - startedAt[c] <= Loop!WorstCaseMs(c)
    BY DEF AnsweredInBoundedTime, Loop!AnsweredInBoundedTime
  <2> DEFINE n == call[c].attempt
             m == Loop!MaxAttempts(c)
             backoffs == IF call[c].phase = "backoff" THEN n ELSE n - 1
  <2>1. /\ n \in 1..m /\ backoffs \in 0..(m - 1) /\ m \in Nat /\ m - 1 \in Nat
        /\ now <= call[c].timer
        /\ call[c].timer - startedAt[c] <= Budget(n, backoffs)
    <3>1. CallKeepsBudget(c) /\ m \in Nat
      BY Constants DEF PInv, CallsKeepBudget, Loop!MaxAttempts
    <3> QED
      BY <3>1 DEF CallKeepsBudget
  <2>2. /\ n \in Nat /\ n <= m
        /\ backoffs \in Nat /\ backoffs <= m - 1
    BY <2>1
  <2>3. /\ n * TimeoutMs \in Nat /\ n * TimeoutMs <= m * TimeoutMs
        /\ backoffs * BackoffCap \in Nat /\ backoffs * BackoffCap <= (m - 1) * BackoffCap
        /\ m * TimeoutMs \in Nat /\ (m - 1) * BackoffCap \in Nat
    <3> HIDE DEF n, m, backoffs
    <3>1. TimeoutMs \in Nat /\ BackoffCap \in Nat
      BY Constants
    <3> QED
      BY <2>1, <2>2, <3>1, BudgetGrows
  <2>4. now \in Nat /\ startedAt[c] \in Nat /\ call[c].timer \in Nat
    BY DEF PInv, TypeOK, Loop!TypeOK, Loop!CallType
  <2>5. Loop!WorstCaseMs(c) = m * TimeoutMs + (m - 1) * BackoffCap
    BY DEF Loop!WorstCaseMs
  <2>6. Budget(n, backoffs) = n * TimeoutMs + backoffs * BackoffCap
    BY DEF Budget
  <2> HIDE DEF n, m, backoffs
  <2> QED
    BY <2>1, <2>3, <2>4, <2>5, <2>6
<1> QED
  BY <1>1, Invariance, PTL

\* A call whose caller is told that the upstream failed in a way worth a retry has
\* used up its attempts.
THEOREM Persistence == Spec => GivesUpOnlyWhenExhausted
<1>1. PInv /\ [Next]_vars =>
        [\A c \in Connections :
           /\ call[c].retrySafe
           /\ result'[c] # result[c]
           /\ result'[c] \in {429, 504} \/ call[c].reply \in Loop!RETRYABLE_STATUSES
           => sends[c] = RetryAttempts + 1]_(Loop!vars)
  <2> SUFFICES ASSUME PInv, [Next]_vars, NEW c \in Connections,
                      call[c].retrySafe, result'[c] # result[c],
                      result'[c] \in {429, 504} \/ call[c].reply \in Loop!RETRYABLE_STATUSES
               PROVE  sends[c] = RetryAttempts + 1
    OBVIOUS
  <2> USE DEF PInv, TypeOK, Loop!TypeOK
  <2>1. Loop!Pending(c) /\ CallKeepsBudget(c)
    BY DEF CallsKeepBudget, CallKeepsBudget, Loop!Idle
  <2>2. PICK s \in Loop!FetchOutcomes :
          \/ Loop!Returns(c, s) /\ Loop!Settle(c, s)
          \/ Loop!Throws(c, s) /\ Loop!Settle(c, Loop!ErrorStatus(s))
    <3>1. ASSUME NEW d \in Connections, Connect(d) \/ SendAnother(d) PROVE d # c
      BY <2>1, <3>1 DEF Connect, SendAnother, Running
    <3>2. \E d \in Connections : Answer(d)
      <4>1. CASE Start \/ Bind \/ SignalWhileBinding \/ Signal \/ Drain \/ Tick \/ UNCHANGED vars
        BY <4>1
        DEF Start, RefuseConfiguration, FailToCreateServer, Listen, Bind, Bound, FailToBind,
            SignalWhileBinding, Signal, Drain, Exit, Tick, Loop!Tick, vars, loopVars
      <4>2. ASSUME NEW d \in Connections, Connect(d) \/ SendAnother(d) PROVE FALSE
        BY <3>1, <4>2 DEF Connect, SendAnother
      <4>3. ASSUME NEW d \in Connections,
                   AnswerAtOnce(d) \/ Leave(d) \/ KeepAliveExpires(d) \/ RequestTimesOut(d)
                     \/ Handle(d) \/ UpstreamAnswers(d) \/ GoOn(d)
            PROVE  FALSE
        BY <4>3
        DEF AnswerAtOnce, Leave, KeepAliveExpires, RequestTimesOut, Handle, UpstreamAnswers,
            GoOn, Loop!Request, Loop!Answer, Loop!Wait, Loop!Retry, loopVars
      <4> QED
        BY <4>1, <4>2, <4>3 DEF Next, Turn
    <3>3. PICK d \in Connections : Answer(d)
      BY <3>2
    <3>4. d = c
      BY <3>3 DEF Answer, Loop!Return, Loop!Throw, Loop!Settle
    <3> QED
      BY <3>3, <3>4 DEF Answer, Loop!Return, Loop!Throw
  <2>3. call[c].attempt = Loop!MaxAttempts(c)
    <3>1. s \in Loop!RETRYABLE_STATUSES \union {Loop!FetchRejected} /\ s \notin Loop!Success
      <4>1. s \in 1..599 /\ Loop!FetchSettles(c, s)
        BY <2>2, Constants
        DEF Loop!FetchOutcomes, Loop!FetchRejected, Loop!Returns, Loop!Throws
      <4>2. CASE Loop!Returns(c, s) /\ Loop!Settle(c, s)
        BY <4>1, <4>2
        DEF Loop!Returns, Loop!Settle, Loop!FetchSettles, Loop!Success, Loop!FetchRejected,
            Loop!RETRYABLE_STATUSES
      <4>3. CASE Loop!Throws(c, s) /\ Loop!Settle(c, Loop!ErrorStatus(s))
        BY <4>1, <4>3
        DEF Loop!Throws, Loop!Settle, Loop!FetchSettles, Loop!ErrorStatus,
            Loop!UpstreamHttpError, Loop!FetchRejected, Loop!RETRYABLE_STATUSES
      <4> QED
        BY <2>2, <4>2, <4>3
    <3>2. Loop!Throws(c, s)
      BY <2>2, <3>1 DEF Loop!Returns
    <3> QED
      BY <2>1, <3>1, <3>2, Constants
      DEF Loop!Throws, Loop!RetriesAfter, CallKeepsBudget, Loop!MaxAttempts, Loop!CallType
  <2> QED
    BY <2>1, <2>3 DEF CallKeepsBudget, Loop!MaxAttempts
<1> QED
  BY <1>1, Invariance, PTL DEF Spec, GivesUpOnlyWhenExhausted, Loop!GivesUpOnlyWhenExhausted

\* A POST is sent to its upstream once, whatever becomes of it: no timeout and no
\* answer makes request() send a call again that is not retry-safe.
THEOREM SentOnce == Spec => []Loop!MutatingCallSentOnce
<1>1. PInv => Loop!MutatingCallSentOnce
  BY Constants
  DEF PInv, CallsKeepBudget, CallKeepsBudget, Loop!MutatingCallSentOnce, Loop!MaxAttempts
<1> QED
  BY <1>1, Invariance, PTL
=============================================================================
