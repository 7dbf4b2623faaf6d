-------------------------------- MODULE Process --------------------------------
(***************************************************************************)
(* src/index.js and src/server.js: one gateway process, from its start to   *)
(* its exit, and the connections it serves meanwhile.                       *)
(*                                                                          *)
(* The handler of a connection's request answers at once, or first makes    *)
(* one upstream call, whose retry loop is UpstreamRequest's, run here in    *)
(* the process that may be told to stop at any moment.  What Node.js's      *)
(* server does -- connections, their timeouts, close() -- is external, and  *)
(* modelled as the engine package.json asks for (20 or later) does it:      *)
(* close() stops listening, drops idle connections and no longer looks for  *)
(* slow ones, and calls back when the last connection is gone.              *)
(***************************************************************************)
EXTENDS Configuration

CONSTANTS
  Connections,
  Callers,   \* those whose requests make an upstream call
  UpstreamStatuses, RetryAttempts, TimeoutMs, BackoffBase, BackoffCap, MaxTime

ASSUME ProcessAssumption ==
  /\ Environments \subseteq [Settings -> {Unset, Malformed, Given} \union BOOLEAN \union Int]
  /\ Callers \subseteq Connections

VARIABLES
  life,       \* what index.js has come to
  exitCode,   \* of the process, NoExit while it runs
  stage,      \* of each connection
  now, call, sends, startedAt, result   \* of UpstreamRequest

Loop == INSTANCE UpstreamRequest WITH Calls <- Connections

\* What UpstreamClient assumes of its constants.
ASSUME CallsAssumption ==
  /\ UpstreamStatuses \subseteq 200..599
  /\ RetryAttempts \in Nat /\ TimeoutMs \in Nat \ {0} /\ BackoffCap \in Nat
  /\ \A n \in 1..RetryAttempts : Loop!BackoffMs(n) \in 0..BackoffCap

loopVars == <<now, call, sends, startedAt, result>>
vars == <<env, life, exitCode, stage, loopVars>>

\* A connection is idle between an answer and the next request, sending from its
\* opening or the first byte of a request to its last one, and handling until it
\* is answered; it has left if the client goes before that.
Stages == {"closed", "idle", "sending", "handling", "left"}
NoExit == -1

Running == life \in {"listening", "closing"}

Init ==
  /\ env \in Environments
  /\ life = "starting"
  /\ exitCode = NoExit
  /\ stage = [c \in Connections |-> "closed"]
  /\ Loop!Init

-----------------------------------------------------------------------------
(* The process.                                                             *)

\* The process ends, and with it every call and connection.
Exit(code) ==
  /\ life' = "exited"
  /\ exitCode' = code
  /\ call' = [c \in Connections |-> Loop!Idle]
  /\ UNCHANGED <<env, stage, now, sends, startedAt, result>>

RefuseConfiguration == life = "starting" /\ ~Accepted(env) /\ Exit(78)

\* A TLS file is not given or cannot be read: the exception is thrown on.
FailToCreateServer ==
  /\ life = "starting" /\ Accepted(env)
  /\ Transport(env) # "http"
  /\ Exit(1)

\* server.listen: the host is still being resolved.
Listen ==
  /\ life = "starting" /\ Accepted(env)
  /\ Transport(env) # "none"
  /\ life' = "binding"
  /\ UNCHANGED <<env, exitCode, stage, loopVars>>

Bound ==
  /\ life = "binding"
  /\ life' = "listening"
  /\ UNCHANGED <<env, exitCode, stage, loopVars>>

\* The address cannot be bound: the server's error has no listener.
FailToBind == life = "binding" /\ Exit(1)

\* shutdown before the server listens: close calls back with an error.
SignalWhileBinding == life = "binding" /\ Exit(1)

\* shutdown.  A second signal changes nothing: the first callback ends the process.
Signal ==
  /\ life = "listening"
  /\ life' = "closing"
  /\ stage' = [c \in Connections |-> IF stage[c] = "idle" THEN "closed" ELSE stage[c]]
  /\ UNCHANGED <<env, exitCode, loopVars>>

Drained ==
  life = "closing" /\ \A c \in Connections : stage[c] \in {"closed", "left"}

Drain == Drained /\ Exit(0)

-----------------------------------------------------------------------------
(* A connection.                                                            *)

Move(c, s) == stage' = [stage EXCEPT ![c] = s]

Connect(c) ==
  /\ life = "listening" /\ stage[c] = "closed" /\ now < MaxTime
  /\ Move(c, "sending")
  /\ result' = [result EXCEPT ![c] = Loop!NoReply]
  /\ UNCHANGED <<env, life, exitCode, now, call, sends, startedAt>>

\* The next request on a connection that was kept alive, even while closing.
SendAnother(c) ==
  /\ Running /\ stage[c] = "idle" /\ now < MaxTime
  /\ Move(c, "sending")
  /\ result' = [result EXCEPT ![c] = Loop!NoReply]
  /\ UNCHANGED <<env, life, exitCode, now, call, sends, startedAt>>

\* The request has arrived; its handler answers without an upstream call.
AnswerAtOnce(c) ==
  /\ Running /\ stage[c] = "sending" /\ c \notin Callers
  /\ Move(c, "idle")
  /\ UNCHANGED <<env, life, exitCode, loopVars>>

\* The request has arrived; its handler calls an upstream.
Handle(c) ==
  /\ Running /\ stage[c] = "sending" /\ c \in Callers
  /\ Loop!Request(c)
  /\ Move(c, "handling")
  /\ UNCHANGED <<env, life, exitCode>>

\* The client goes away.  A handler that runs is not told.
Leave(c) ==
  /\ Running /\ stage[c] \in {"idle", "sending", "handling"}
  /\ Move(c, IF stage[c] = "handling" THEN "left" ELSE "closed")
  /\ UNCHANGED <<env, life, exitCode, loopVars>>

\* Mutant: connections that became idle after close() are kept for ever.
KeepAliveExpiresWhileListening(c) ==
  life = "listening" /\ stage[c] = "idle" /\ Move(c, "closed")
  /\ UNCHANGED <<env, life, exitCode, loopVars>>

\* keepAliveTimeout.
KeepAliveExpires(c) ==
  /\ Running /\ stage[c] = "idle"
  /\ Move(c, "closed")
  /\ UNCHANGED <<env, life, exitCode, loopVars>>

\* requestTimeout or headersTimeout, which close() switches off.
RequestTimesOut(c) ==
  /\ life = "listening" /\ stage[c] = "sending"
  /\ Move(c, "closed")
  /\ UNCHANGED <<env, life, exitCode, loopVars>>

-----------------------------------------------------------------------------
(* A handler, and the world around the process.                             *)

UpstreamAnswers(c) ==
  Running /\ Loop!Answer(c) /\ UNCHANGED <<env, life, exitCode, stage>>

GoOn(c) ==
  Running /\ (Loop!Wait(c) \/ Loop!Retry(c)) /\ UNCHANGED <<env, life, exitCode, stage>>

\* The handler sends its answer, to nobody if the client has left.
Answer(c) ==
  /\ Running
  /\ Loop!Return(c) \/ Loop!Throw(c)
  /\ Move(c, IF stage[c] = "left" THEN "closed" ELSE "idle")
  /\ UNCHANGED <<env, life, exitCode>>

Tick == Running /\ Loop!Tick /\ UNCHANGED <<env, life, exitCode, stage>>

Start == RefuseConfiguration \/ FailToCreateServer \/ Listen
Bind == Bound \/ FailToBind
Turn(c) == GoOn(c) \/ Answer(c) \/ KeepAliveExpires(c)

Next ==
  \/ Start \/ Bind \/ SignalWhileBinding \/ Signal \/ Drain \/ Tick
  \/ \E c \in Connections :
       \/ Connect(c) \/ SendAnother(c) \/ AnswerAtOnce(c) \/ Handle(c) \/ Leave(c)
       \/ UpstreamAnswers(c) \/ Turn(c) \/ RequestTimesOut(c)

\* The clock runs, timers fire and callbacks are called.  Nothing is assumed of
\* clients, upstreams and signals.
Fairness ==
  /\ WF_vars(Start) /\ WF_vars(Bind) /\ WF_vars(Drain) /\ WF_vars(Tick)
  /\ \A c \in Connections : WF_vars(GoOn(c)) /\ WF_vars(Answer(c)) /\ WF_vars(KeepAliveExpires(c))

Spec == Init /\ [][Next]_vars /\ Fairness

-----------------------------------------------------------------------------
TypeOK ==
  /\ env \in Environments
  /\ life \in {"starting", "binding", "listening", "closing", "exited"}
  /\ exitCode \in {NoExit, 0, 1, 78}
  /\ life = "exited" <=> exitCode # NoExit
  /\ stage \in [Connections -> Stages]
  /\ Loop!TypeOK
  /\ \A c \in Connections :
       life # "exited" => (stage[c] \in {"handling", "left"} <=> Loop!Pending(c))

\* A server that takes requests does so over the transport the environment
\* requires: loadConfig's rules are enough for what createTlsOptions makes of it.
RequiredTransportIsServed ==
  Running =>
    /\ Flag(env, "REQUIRE_TLS") => Transport(env) # "http"
    /\ Flag(env, "MTLS_REQUIRED") => Transport(env) = "clientCertRequired"

\* A shutdown ends, unless some client again and again is in the middle of a
\* request: upstreams that are silent cannot hold it up, clients can, because
\* shutdown sets no deadline and close() has switched the request timeout off.
ShutdownWaitsOnlyForClients ==
  \/ life = "closing" ~> life = "exited"
  \/ []<>(\E c \in Connections : stage[c] = "sending")

-----------------------------------------------------------------------------
(* What UpstreamRequest states of its calls holds in a process that starts,  *)
(* serves, is told to stop, and exits.                                       *)

\* A handler waits a bounded time for its upstream.
AnsweredInBoundedTime == Loop!AnsweredInBoundedTime

\* request() gives up only when its attempts are used up.
GivesUpOnlyWhenExhausted == Loop!GivesUpOnlyWhenExhausted

\* Every call ends, even if the upstream never answers, and whenever the process
\* is told to stop: it exits before the end of a call only if the client has left.
EveryCallSettles ==
  \A c \in Connections :
    Loop!Pending(c) ~>
      \/ result[c] # Loop!NoReply
      \/ life = "exited" /\ stage[c] = "left"
=============================================================================
