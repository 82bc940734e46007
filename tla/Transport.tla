------------------------------ MODULE Transport ------------------------------
(***************************************************************************)
(* What surrounds a request: the layers it passes on its way in and out    *)
(* (panic recovery, request identifier, log), and the connection pool      *)
(* health checks and task requests share.  A health check asks Postgres    *)
(* for SELECT 1; of a task request only the statement is kept, module      *)
(* CachedTasks says the rest.                                              *)
(*                                                                         *)
(* A request may panic in any code below the outermost layer, its client   *)
(* may leave at any time, and Postgres comes and goes.                     *)
(***************************************************************************)
EXTENDS Naturals, Sequences, FiniteSets, ErrorCodes

CONSTANTS
  HttpRequests,  \* health checks that can be in progress at the same time
  GrpcRequests,  \* and task requests
  MaxConns       \* connections of the pgxpool

ASSUME TransportAssumption ==
  /\ MaxConns \in Nat \ {0}
  /\ IsFiniteSet(HttpRequests \cup GrpcRequests)
  /\ HttpRequests \cap GrpcRequests = {}

VARIABLES
  pc,        \* where a request is
  depth,     \* the layers it is inside of
  named,     \* it has been given a request identifier
  conn,      \* its connection: "none", "good", or "broken" by an outage
  result,    \* what its handler is about to return
  told,      \* the status its client has been told
  recorded,  \* responseWriter.statusCode
  lines,     \* the log lines it has written
  gone,      \* requests whose client has left
  saw,       \* history: the states of Postgres during a request
  idle,      \* connections in the pool that an outage broke unnoticed
  up,        \* Postgres can be reached
  alive      \* the process runs

reqVars == <<pc, depth, named, conn, result, told, recorded, lines, gone, saw>>
vars    == <<reqVars, idle, up, alive>>

Requests == HttpRequests \cup GrpcRequests

\* Outermost layer first.
HttpChain == <<"recovery", "logging">>
GrpcChain == <<"recovery", "requestId", "logging">>

\* Bug: recovery inside logging.
LoggingOutermost(r) == <<"logging", "requestId", "recovery">>

\* Bug: no recovery.
NoRecovery(r) == <<"requestId", "logging">>

\* Bug: recovery for gRPC only.
GrpcOnlyRecovery(r) == IF r \in HttpRequests THEN <<"logging">> ELSE GrpcChain

Chain(r) == IF r \in HttpRequests THEN HttpChain ELSE GrpcChain

\* The layers that put an identifier into the context of the layers below:
\* LoggingMiddleware, and RequestIDUnaryInterceptor.
Names(r, layer) == layer = IF r \in HttpRequests THEN "logging" ELSE "requestId"

\* getRequestIDFromContext, called by code with d layers around it.
ContextId(r, d) ==
  IF \E i \in 1..d : Names(r, Chain(r)[i]) THEN "own" ELSE "unknown"

Line(event, id, status) == [event |-> event, id |-> id, status |-> status]
Log(r, l) == lines' = [lines EXCEPT ![r] = @ \cup {l}]

Goto(r, place) == pc' = [pc EXCEPT ![r] = place]

\* WriteHeader by code with d layers around it: only the first one is sent,
\* and only code below LoggingMiddleware writes through its responseWriter.
WriteHeader(r, status, d) ==
  /\ told' = [told EXCEPT ![r] = IF @ = "none" THEN status ELSE @]
  /\ recorded' = IF \E i \in 1..d : Chain(r)[i] = "logging"
                 THEN [recorded EXCEPT ![r] = status] ELSE recorded

Serving == {r \in Requests : pc[r] \notin {"idle", "done"}}
Held    == {r \in Requests : conn[r] # "none"}

Init ==
  /\ pc = [r \in Requests |-> "idle"] /\ depth = [r \in Requests |-> 0]
  /\ named = [r \in Requests |-> FALSE] /\ conn = [r \in Requests |-> "none"]
  /\ result = [r \in Requests |-> "none"] /\ told = [r \in Requests |-> "none"]
  /\ recorded = [r \in Requests |-> "none"] /\ lines = [r \in Requests |-> {}]
  /\ gone = {} /\ saw = [r \in Requests |-> {}]
  /\ idle = 0 /\ up = TRUE /\ alive = TRUE

-----------------------------------------------------------------------------
(* On the way in. *)

Arrive(r) ==
  /\ alive /\ pc[r] \in {"idle", "done"}
  /\ Goto(r, "enter")
  /\ depth' = [depth EXCEPT ![r] = 0] /\ named' = [named EXCEPT ![r] = FALSE]
  /\ result' = [result EXCEPT ![r] = "none"] /\ told' = [told EXCEPT ![r] = "none"]
  /\ recorded' = [recorded EXCEPT ![r] = "none"] /\ lines' = [lines EXCEPT ![r] = {}]
  /\ gone' = gone \ {r} /\ saw' = [saw EXCEPT ![r] = {up}]
  /\ UNCHANGED <<conn, idle, up, alive>>

\* The next layer: it names the request, logs its start, or only calls on.
Enter(r) ==
  /\ alive /\ pc[r] = "enter" /\ depth[r] < Len(Chain(r))
  /\ LET layer == Chain(r)[depth[r] + 1] IN
       /\ depth' = [depth EXCEPT ![r] = @ + 1]
       /\ named' = [named EXCEPT ![r] = @ \/ Names(r, layer)]
       /\ IF r \in HttpRequests /\ layer = "logging"
          THEN Log(r, Line("started", "own", "none")) ELSE UNCHANGED lines
  /\ UNCHANGED <<pc, conn, result, told, recorded, gone, saw, idle, up, alive>>

Handle(r) ==
  /\ alive /\ pc[r] = "enter" /\ depth[r] = Len(Chain(r))
  /\ Goto(r, "acquire")
  /\ UNCHANGED <<depth, named, conn, result, told, recorded, lines, gone, saw, idle, up, alive>>

-----------------------------------------------------------------------------
(* The handler: a connection, a statement, the reply. *)

\* Bug: one connection more than the pool has.
AcquireOneMore(r) ==
  /\ alive /\ pc[r] = "acquire"
  /\ up /\ Cardinality(Held) <= MaxConns
  /\ conn' = [conn EXCEPT ![r] = "good"]
  /\ Goto(r, "query")
  /\ UNCHANGED <<depth, named, result, told, recorded, lines, gone, saw, idle, up, alive>>

\* The pool hands out a good connection, having pinged and replaced a broken
\* one or not, or a broken one; it waits when all are in use, and fails when
\* Postgres cannot be reached or the client has left.
Acquire(r) ==
  /\ alive /\ pc[r] = "acquire"
  /\ \/ /\ up /\ Cardinality(Held) < MaxConns
        /\ conn' = [conn EXCEPT ![r] = "good"]
        /\ idle' \in {idle, idle - 1} \cap 0..(MaxConns - Cardinality(Held) - 1)
        /\ Goto(r, "query") /\ UNCHANGED result
     \/ /\ idle > 0
        /\ conn' = [conn EXCEPT ![r] = "broken"]
        /\ idle' = idle - 1
        /\ Goto(r, "query") /\ UNCHANGED result
     \/ /\ ~up \/ r \in gone
        /\ result' = [result EXCEPT ![r] = "error"]
        /\ Goto(r, "respond") /\ UNCHANGED <<conn, idle>>
  /\ UNCHANGED <<depth, named, told, recorded, lines, gone, saw, up, alive>>

\* Bug: a broken connection goes back to the pool.
QueryKeepsBroken(r) ==
  /\ alive /\ pc[r] = "query"
  /\ result' = [result EXCEPT ![r] = IF conn[r] = "good" THEN "ok" ELSE "error"]
  /\ idle' = IF conn[r] = "broken" THEN idle + 1 ELSE idle
  /\ conn' = [conn EXCEPT ![r] = "none"]
  /\ Goto(r, "respond")
  /\ UNCHANGED <<depth, named, told, recorded, lines, gone, saw, up, alive>>

\* The statement ends, its connection goes back; a broken one is destroyed.
Query(r) ==
  /\ alive /\ pc[r] = "query"
  /\ \E res \in {"ok", "error"} :
       /\ res = "ok" => conn[r] = "good"
       /\ res = "error" => conn[r] = "broken" \/ r \in gone \/ r \in GrpcRequests
       /\ result' = [result EXCEPT ![r] = res]
  /\ conn' = [conn EXCEPT ![r] = "none"]
  /\ Goto(r, "respond")
  /\ UNCHANGED <<depth, named, told, recorded, lines, gone, saw, idle, up, alive>>

\* IsConnectionError(err), on what HandlePgxError made of a SELECT 1 that failed.
IsConnectionError(e) == HandlePgxError("health_check", e).err = "database connection error"

\* Bug: only a connection error makes the service unhealthy.
HealthOfConnection(res) ==
  IF res = "error" /\ IsConnectionError(OtherError) THEN "503" ELSE "200"

\* Health and HandleHealthCheck.  IsConnectionError is called, and both of its
\* outcomes mean unhealthy; Health never returns an error.
Health(res) == IF res = "error" THEN "503" ELSE "200"

Respond(r) ==
  /\ alive /\ pc[r] = "respond"
  /\ IF r \in HttpRequests
     THEN /\ WriteHeader(r, Health(result[r]), depth[r])
          /\ Goto(r, "encode")
     ELSE Goto(r, "leave") /\ UNCHANGED <<told, recorded>>
  /\ UNCHANGED <<depth, named, conn, result, lines, gone, saw, idle, up, alive>>

\* The body, and the handler's own log line of its statusCode, only if a client
\* was there to read it.
Encode(r) ==
  /\ alive /\ pc[r] = "encode"
  /\ \/ Log(r, Line("request", ContextId(r, depth[r]), Health(result[r])))
     \/ r \in gone /\ UNCHANGED lines
  /\ Goto(r, "leave")
  /\ UNCHANGED <<depth, named, conn, result, told, recorded, gone, saw, idle, up, alive>>

-----------------------------------------------------------------------------
(* On the way out. *)

\* net/http and grpc end the request behind the outermost layer.
Out(r) == Goto(r, IF depth[r] = 1 THEN "done" ELSE "leave")

\* A layer returns; the logging ones log the status first, the gRPC one without
\* an identifier.  Behind the last layer grpc sends the result.
Leave(r) ==
  /\ alive /\ pc[r] = "leave"
  /\ depth' = [depth EXCEPT ![r] = @ - 1]
  /\ IF Chain(r)[depth[r]] = "logging"
     THEN IF r \in HttpRequests
          THEN Log(r, Line("request", "own", recorded[r]))
          ELSE Log(r, Line("request", "none", result[r]))
     ELSE UNCHANGED lines
  /\ Out(r)
  /\ told' = IF depth[r] = 1 /\ r \in GrpcRequests
             THEN [told EXCEPT ![r] = result[r]] ELSE told
  /\ UNCHANGED <<named, conn, result, recorded, gone, saw, idle, up, alive>>

\* Code inside of a layer may panic on its way in, in the handler and in what it
\* calls; on its way out only the logging layer has code of its own.
MayPanic(r) ==
  \/ pc[r] \in {"enter", "acquire", "query", "respond", "encode"} /\ depth[r] > 0
  \/ pc[r] = "leave" /\ Chain(r)[depth[r]] = "logging"

\* Deferred calls give its connection back.
Panic(r) ==
  /\ alive /\ MayPanic(r)
  /\ Goto(r, "panic")
  /\ conn' = [conn EXCEPT ![r] = "none"]
  /\ UNCHANGED <<depth, named, result, told, recorded, lines, gone, saw, idle, up, alive>>

\* A layer that does not recover: the panic passes through it.  Outside all of
\* them net/http closes the connection; grpc does nothing, and the process dies.
UnwindLayer(r) ==
  /\ alive /\ pc[r] = "panic" /\ Chain(r)[depth[r]] # "recovery"
  /\ depth' = [depth EXCEPT ![r] = @ - 1]
  /\ IF depth[r] > 1
     THEN UNCHANGED <<pc, told, alive>>
     ELSE /\ Goto(r, "done")
          /\ told' = [told EXCEPT ![r] = "aborted"]
          /\ alive' = (r \in HttpRequests)
  /\ UNCHANGED <<named, conn, result, recorded, lines, gone, saw, idle, up>>

\* PanicRecoveryMiddleware and PanicRecoveryUnaryInterceptor.
Recover(r) ==
  /\ alive /\ pc[r] = "panic" /\ Chain(r)[depth[r]] = "recovery"
  /\ depth' = [depth EXCEPT ![r] = @ - 1]
  /\ Out(r)
  /\ IF r \in HttpRequests
     THEN /\ Log(r, Line("panic", ContextId(r, depth[r] - 1), "none"))
          /\ WriteHeader(r, "500", depth[r] - 1)
          /\ UNCHANGED result
     ELSE /\ Log(r, Line("panic", "none", "none"))
          /\ result' = [result EXCEPT ![r] = "error"]
          /\ told' = IF depth[r] = 1 THEN [told EXCEPT ![r] = "error"] ELSE told
          /\ UNCHANGED recorded
  /\ UNCHANGED <<named, conn, gone, saw, idle, up, alive>>

-----------------------------------------------------------------------------
(* The environment. *)

GiveUp(r) ==
  /\ r \in Serving \ gone
  /\ gone' = gone \cup {r}
  /\ UNCHANGED <<pc, depth, named, conn, result, told, recorded, lines, saw, idle, up, alive>>

See(state) == saw' = [r \in Requests |-> IF r \in Serving THEN saw[r] \cup {state} ELSE saw[r]]

\* Every connection breaks; those in the pool are not looked at.
Outage ==
  /\ up /\ up' = FALSE
  /\ conn' = [r \in Requests |-> IF r \in Held THEN "broken" ELSE "none"]
  /\ idle' \in idle..(MaxConns - Cardinality(Held))
  /\ See(FALSE)
  /\ UNCHANGED <<pc, depth, named, result, told, recorded, lines, gone, alive>>

Recovery ==
  /\ ~up /\ up' = TRUE
  /\ See(TRUE)
  /\ UNCHANGED <<pc, depth, named, conn, result, told, recorded, lines, gone, idle, alive>>

Serve(r) ==
  \/ Enter(r) \/ Handle(r) \/ Acquire(r) \/ Query(r) \/ Respond(r) \/ Encode(r)
  \/ Leave(r) \/ UnwindLayer(r) \/ Recover(r)

Next ==
  \/ \E r \in Requests : Arrive(r) \/ Serve(r) \/ Panic(r) \/ GiveUp(r)
  \/ Outage \/ Recovery

Spec == Init /\ [][Next]_vars

\* Goroutines are scheduled, and statements end; the pool serves those who wait
\* for it in their order, so none waits for ever for the others.
FairSpec == Spec /\ \A r \in Requests : WF_vars(Serve(r)) /\ SF_vars(Acquire(r))

-----------------------------------------------------------------------------
(* Properties. *)

HttpStatuses == {"none", "200", "500", "503", "aborted"}

TypeOK ==
  /\ pc \in [Requests -> {"idle", "enter", "acquire", "query", "respond", "encode",
                          "leave", "panic", "done"}]
  /\ \A r \in Requests : depth[r] \in 0..Len(Chain(r))
  /\ named \in [Requests -> BOOLEAN]
  /\ conn \in [Requests -> {"none", "good", "broken"}]
  /\ result \in [Requests -> {"none", "ok", "error"}]
  /\ told \in [Requests -> HttpStatuses \cup {"ok", "error"}]
  /\ recorded \in [Requests -> HttpStatuses]
  /\ gone \subseteq Requests
  /\ idle \in 0..MaxConns /\ Cardinality(Held) + idle <= MaxConns
  /\ up \in BOOLEAN /\ alive \in BOOLEAN

\* The log agrees with what the client was told: each status logged for a
\* request is the one sent, and a request that ends without one in the log has
\* left the line of its panic.
LogTellsReplies ==
  \A r \in Requests : pc[r] = "done" =>
    /\ \A l \in lines[r] : l.event = "request" => l.status = told[r]
    /\ \E l \in lines[r] : l.event \in {"request", "panic"}

\* A service reported healthy had Postgres within reach during the request, and
\* a gRPC call reported done has ended without a panic.
HealthTrue ==
  \A r \in Requests :
    /\ told[r] = "200" => TRUE \in saw[r]
    /\ told[r] = "ok" => \A l \in lines[r] : l.event # "panic"

\* A panic, wherever it comes from, neither ends the process, and with it the
\* other requests, nor leaves its own client without an answer.
PanicsContained ==
  /\ alive
  /\ \A r \in Requests : pc[r] = "done" => told[r] \notin {"none", "aborted"}

\* Every request that is taken in ends, also when others panic, their clients
\* leave, or all connections are in use.
EveryRequestEnds ==
  \A r \in Requests : pc[r] = "enter" ~> pc[r] = "done"

\* Once Postgres stays up, fewer and fewer health checks fail while their client
\* waits, and in the end none does: connections an outage broke are used up.
EventuallyHealthy ==
  <>[]up =>
    \A h \in HttpRequests :
      <>[][told'[h] = "503" /\ told[h] # "503" => h \in gone]_vars

\* The panic of a request that has been named is logged under its name.
PanicLinesNamed ==
  \A r \in HttpRequests : \A l \in lines[r] :
    l.event = "panic" /\ named[r] => l.id = "own"
=============================================================================
