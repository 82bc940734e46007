------------------------------ MODULE Lifecycle ------------------------------
(***************************************************************************)
(* The life of the process: main connects to Postgres with retries and to  *)
(* every Redis shard, starts an HTTP and a gRPC server in goroutines of    *)
(* their own, waits for a signal, stops first the one and then the other   *)
(* under one deadline, waits for the goroutines, and its deferred calls    *)
(* close Redis and then the pool.  Requests are in progress meanwhile.  A  *)
(* process that has ended is restarted (docker-compose.yml).               *)
(*                                                                         *)
(* A gRPC request is at one of its calls, to the cache or to Postgres;     *)
(* module CachedTasks says what it does there.                             *)
(***************************************************************************)
EXTENDS Naturals, Sequences

CONSTANTS
  HttpRequests,  \* health checks that can be in progress at the same time
  GrpcRequests,  \* and task requests
  Postgres,      \* the database
  Instances,     \* Redis servers
  RedisEnabled,  \* cfg.Redis.Enabled
  Shards,        \* cfg.Redis.URLs, in order
  MaxRetries     \* attempts to reach Postgres: initDatabaseWithRetry(cfg, 10, ...)

ASSUME LifecycleAssumption ==
  /\ Postgres \notin Instances
  /\ RedisEnabled \in BOOLEAN
  /\ Shards \in Seq(Instances)
  /\ MaxRetries \in Nat \ {0}
  /\ HttpRequests \cap GrpcRequests = {}

VARIABLES
  main,      \* where main is
  attempts,  \* attempts to reach Postgres that failed
  pinged,    \* shards that answered, in NewRedisCache
  pool,      \* the pgxpool
  cache,     \* the clients of redisCache
  http,      \* the goroutine of the HTTP server
  grpc,      \* the goroutine of the gRPC server
  stop,      \* how far GRPCServer.Stop is
  deadline,  \* the context both Stop calls share
  quit,      \* a signal is in the channel
  req,       \* the requests: "none", or the call each is at
  up         \* the servers that can be reached

procVars == <<main, attempts, pinged, pool, cache, http, grpc, stop, deadline, quit>>
vars     == <<procVars, req, up>>

Requests == HttpRequests \cup GrpcRequests
Servers  == {Postgres} \cup Instances

Starting == {"connect", "sleep", "redis", "start"}
Stopping == {"stopHttp", "stopGrpc", "forceGrpc"}
Closing  == {"wait", "closeRedis", "closeDb", "closingDb"}
Ended    == {"exited", "failed", "killed"}

Idle == [r \in Requests |-> "none"]
Active(R) == \E r \in R : req[r] # "none"

\* The calls that hold a connection of the pool, and the requests at one.
DbCalls    == {"read", "write"}
AtDatabase == {r \in Requests : req[r] \in DbCalls}

Init ==
  /\ main = "connect"
  /\ attempts = 0 /\ pinged = 0
  /\ pool = "none" /\ cache = "none"
  /\ http = "none" /\ grpc = "none"
  /\ stop = "no" /\ deadline = "none" /\ quit = FALSE
  /\ req = Idle
  /\ up \in SUBSET Servers

Goto(next) == main' = next

-----------------------------------------------------------------------------
(* Start-up. *)

\* Bug: i <= maxRetries.
ConnectOnceMore ==
  /\ main = "connect"
  /\ \/ /\ Postgres \in up
        /\ pool' = "open"
        /\ Goto(IF RedisEnabled THEN "redis" ELSE "start")
        /\ UNCHANGED attempts
     \/ /\ Postgres \notin up
        /\ attempts' = attempts + 1
        /\ Goto(IF attempts < MaxRetries THEN "sleep" ELSE "failed")
        /\ UNCHANGED pool
  /\ UNCHANGED <<pinged, cache, http, grpc, stop, deadline, quit, req, up>>

\* One round of initDatabaseWithRetry: pgxpool.New and a Ping.
Connect ==
  /\ main = "connect"
  /\ \/ /\ Postgres \in up
        /\ pool' = "open"
        /\ Goto(IF RedisEnabled THEN "redis" ELSE "start")
        /\ UNCHANGED attempts
     \/ /\ Postgres \notin up
        /\ attempts' = attempts + 1
        /\ Goto(IF attempts + 1 < MaxRetries THEN "sleep" ELSE "failed")
        /\ UNCHANGED pool
  /\ UNCHANGED <<pinged, cache, http, grpc, stop, deadline, quit, req, up>>

Sleep ==
  /\ main = "sleep"
  /\ Goto("connect")
  /\ UNCHANGED <<attempts, pinged, pool, cache, http, grpc, stop, deadline, quit, req, up>>

\* Bug: err == nil in place of err != nil after the Ping.
PingInverted ==
  /\ main = "redis"
  /\ IF pinged < Len(Shards) /\ Shards[pinged + 1] \notin up
     THEN /\ pinged' = pinged + 1
          /\ IF pinged + 1 = Len(Shards)
             THEN cache' = "open" /\ Goto("start")
             ELSE UNCHANGED <<cache, main>>
     ELSE Goto("failed") /\ UNCHANGED <<pinged, cache>>
  /\ UNCHANGED <<attempts, pool, http, grpc, stop, deadline, quit, req, up>>

\* NewRedisCache pings one shard after the other; an empty list, or the first
\* shard that does not answer, ends the process with os.Exit(1), which runs no
\* deferred call.
PingShard ==
  /\ main = "redis"
  /\ IF pinged < Len(Shards) /\ Shards[pinged + 1] \in up
     THEN /\ pinged' = pinged + 1
          /\ IF pinged + 1 = Len(Shards)
             THEN cache' = "open" /\ Goto("start")
             ELSE UNCHANGED <<cache, main>>
     ELSE Goto("failed") /\ UNCHANGED <<pinged, cache>>
  /\ UNCHANGED <<attempts, pool, http, grpc, stop, deadline, quit, req, up>>

\* signal.Notify, and one goroutine per server.
StartServers ==
  /\ main = "start"
  /\ Goto("serving")
  /\ http' = "starting" /\ grpc' = "starting"
  /\ UNCHANGED <<attempts, pinged, pool, cache, stop, deadline, quit, req, up>>

-----------------------------------------------------------------------------
(* The servers' goroutines. *)

\* Shutdown has been called: main does so as it leaves "serving".
HttpShutdown == main \notin Starting \cup {"serving"}

\* ListenAndServe: it fails when the port is taken or Shutdown came first, and
\* returns as soon as Shutdown is called.
HttpServe ==
  /\ \/ http = "starting" /\ ~HttpShutdown /\ http' \in {"serving", "ended"}
     \/ http \in {"starting", "serving"} /\ HttpShutdown /\ http' = "ended"
  /\ UNCHANGED <<main, attempts, pinged, pool, cache, grpc, stop, deadline, quit, req, up>>

\* Serve: it fails when the port is taken or a stop came first, and returns
\* when GracefulStop or Stop is through.
GrpcServe ==
  /\ \/ grpc = "starting" /\ stop = "no" /\ grpc' \in {"serving", "ended"}
     \/ grpc = "starting" /\ stop # "no" /\ grpc' = "ended"
     \/ grpc = "serving" /\ stop \in {"stopped", "aborted"} /\ grpc' = "ended"
  /\ UNCHANGED <<main, attempts, pinged, pool, cache, http, stop, deadline, quit, req, up>>

-----------------------------------------------------------------------------
(* Requests. *)

\* A health check arrives and asks Postgres; on a connection that Shutdown has
\* not closed yet, also after Shutdown was called.
HttpArrive(r) ==
  /\ http = "serving" /\ main \in {"serving", "stopHttp"}
  /\ req[r] = "none"
  /\ req' = [req EXCEPT ![r] = "read"]
  /\ UNCHANGED <<procVars, up>>

HttpReply(r) ==
  /\ main \notin Ended
  /\ req[r] = "read"
  /\ req' = [req EXCEPT ![r] = "none"]
  /\ UNCHANGED <<procVars, up>>

\* A task request reads, from the cache if there is one, or writes to Postgres
\* right away (create and delete).
FirstCalls == {"write"} \cup (IF RedisEnabled THEN {"cacheGet"} ELSE {"read"})

\* What may follow a call: a cache miss is read from Postgres and filled into
\* the cache, an update writes what it read, and a write changes the cache.
NextCalls(call) ==
  CASE call = "cacheGet"  -> {"read", "write"}
    [] call = "read"      -> {IF RedisEnabled THEN "cacheFill" ELSE "write"}
    [] call = "cacheFill" -> {"write"}
    [] call = "write"     -> IF RedisEnabled THEN {"cacheSet"} ELSE {}
    [] call = "cacheSet"  -> {}

\* A task request arrives; until its connection has seen GOAWAY, also after
\* GracefulStop was called.
GrpcArrive(r) ==
  /\ grpc = "serving" /\ stop \in {"no", "goaway"}
  /\ req[r] = "none"
  /\ \E call \in FirstCalls : req' = [req EXCEPT ![r] = call]
  /\ UNCHANGED <<procVars, up>>

\* Its call returns, with or without an error, and it goes on or replies; a
\* pool that is being closed hands out no connection.
GrpcStep(r) ==
  /\ main \notin Ended
  /\ req[r] # "none"
  /\ \E call \in NextCalls(req[r]) \cup {"none"} :
       /\ call \in DbCalls => pool = "open"
       /\ req' = [req EXCEPT ![r] = call]
  /\ UNCHANGED <<procVars, up>>

-----------------------------------------------------------------------------
(* Shutdown. *)

\* SIGINT or SIGTERM: before signal.Notify it kills the process; later it
\* waits in a channel of capacity one, and a second one is dropped.
Signal ==
  /\ \/ main \in Starting /\ Goto("killed") /\ UNCHANGED quit
     \/ main \notin Starting \cup Ended /\ quit' = TRUE /\ UNCHANGED main
  /\ UNCHANGED <<attempts, pinged, pool, cache, http, grpc, stop, deadline, req, up>>

\* Bug: context.Background() goes to both stops.
TakeSignalNoDeadline ==
  /\ main = "serving" /\ quit
  /\ quit' = FALSE
  /\ Goto("stopHttp")
  /\ UNCHANGED <<attempts, pinged, pool, cache, http, grpc, stop, deadline, req, up>>

\* <-quit, the context, and the call of httpServer.Stop.
TakeSignal ==
  /\ main = "serving" /\ quit
  /\ quit' = FALSE
  /\ deadline' = "running"
  /\ Goto("stopHttp")
  /\ UNCHANGED <<attempts, pinged, pool, cache, http, grpc, stop, req, up>>

\* The 30 seconds are over; nobody looks at the context after the two stops.
Deadline ==
  /\ main \in Stopping /\ deadline = "running"
  /\ deadline' = "expired"
  /\ UNCHANGED <<main, attempts, pinged, pool, cache, http, grpc, stop, quit, req, up>>

\* Bug: Close, which does not wait for requests, in place of Shutdown.
HttpClosed ==
  /\ main = "stopHttp"
  /\ stop' = "goaway"
  /\ Goto("stopGrpc")
  /\ UNCHANGED <<attempts, pinged, pool, cache, http, grpc, deadline, quit, req, up>>

\* Shutdown returns once no health check is left, or at the deadline, which
\* cancels none of them; either way main calls grpcServer.Stop, whose goroutine
\* calls GracefulStop.
HttpStopped ==
  /\ main = "stopHttp"
  /\ ~Active(HttpRequests) \/ deadline = "expired"
  /\ stop' = "goaway"
  /\ Goto("stopGrpc")
  /\ UNCHANGED <<attempts, pinged, pool, cache, http, grpc, deadline, quit, req, up>>

\* GracefulStop: every client has been told to send no more requests.
GrpcDrain ==
  /\ stop = "goaway"
  /\ stop' = "draining"
  /\ UNCHANGED <<main, attempts, pinged, pool, cache, http, grpc, deadline, quit, req, up>>

\* The last request has been answered, and GracefulStop returns.
GrpcDrained ==
  /\ stop = "draining"
  /\ ~Active(GrpcRequests)
  /\ stop' = "stopped"
  /\ UNCHANGED <<main, attempts, pinged, pool, cache, http, grpc, deadline, quit, req, up>>

\* case <-done.
GrpcStopped ==
  /\ main = "stopGrpc" /\ stop = "stopped"
  /\ Goto("wait")
  /\ UNCHANGED <<attempts, pinged, pool, cache, http, grpc, stop, deadline, quit, req, up>>

\* Bug: case <-ctx.Done() only returns.
GrpcGivesUp ==
  /\ main = "stopGrpc" /\ deadline = "expired"
  /\ Goto("wait")
  /\ UNCHANGED <<attempts, pinged, pool, cache, http, grpc, stop, deadline, quit, req, up>>

\* case <-ctx.Done(): Stop closes the connections, which cancels the contexts
\* of the requests in progress.
GrpcForce ==
  /\ main = "stopGrpc" /\ deadline = "expired"
  /\ stop' = "forced"
  /\ Goto("forceGrpc")
  /\ UNCHANGED <<attempts, pinged, pool, cache, http, grpc, deadline, quit, req, up>>

Cancelled == stop \in {"forced", "aborted"}

\* Stop returns without waiting for them, unless the lock it needs is held by
\* a GracefulStop that does.
StopReturns ==
  /\ main = "forceGrpc"
  /\ stop' = "aborted"
  /\ Goto("wait")
  /\ UNCHANGED <<attempts, pinged, pool, cache, http, grpc, deadline, quit, req, up>>

\* Bug: the servers' goroutines are not waited for.
WaitForNobody ==
  /\ main = "wait"
  /\ Goto(IF RedisEnabled THEN "closeRedis" ELSE "closeDb")
  /\ UNCHANGED <<attempts, pinged, pool, cache, http, grpc, stop, deadline, quit, req, up>>

\* wg.Wait; main returns, and its deferred calls run in reverse order.
WaitServers ==
  /\ main = "wait"
  /\ http = "ended" /\ grpc = "ended"
  /\ Goto(IF RedisEnabled THEN "closeRedis" ELSE "closeDb")
  /\ UNCHANGED <<attempts, pinged, pool, cache, http, grpc, stop, deadline, quit, req, up>>

CloseRedis ==
  /\ main = "closeRedis"
  /\ cache' = "closed"
  /\ Goto("closeDb")
  /\ UNCHANGED <<attempts, pinged, pool, http, grpc, stop, deadline, quit, req, up>>

\* dbPool.Close: no connection is handed out any more ...
CloseDb ==
  /\ main = "closeDb"
  /\ pool' = "closing"
  /\ Goto("closingDb")
  /\ UNCHANGED <<attempts, pinged, cache, http, grpc, stop, deadline, quit, req, up>>

\* ... and it returns when the last one has come back.
DbClosed ==
  /\ main = "closingDb"
  /\ AtDatabase = {}
  /\ pool' = "closed"
  /\ Goto("exited")
  /\ UNCHANGED <<attempts, pinged, cache, http, grpc, stop, deadline, quit, req, up>>

-----------------------------------------------------------------------------
(* The environment. *)

\* restart: unless-stopped.  The new process finds nothing of the old one.
Restart ==
  /\ main \in Ended
  /\ main' = "connect"
  /\ attempts' = 0 /\ pinged' = 0
  /\ pool' = "none" /\ cache' = "none"
  /\ http' = "none" /\ grpc' = "none"
  /\ stop' = "no" /\ deadline' = "none" /\ quit' = FALSE
  /\ req' = Idle
  /\ UNCHANGED up

\* Postgres or a shard goes down or comes up.
Flip(s) ==
  /\ up' = (up \ {s}) \cup ({s} \ up)
  /\ UNCHANGED <<procVars, req>>

Startup  == Connect \/ Sleep \/ PingShard \/ StartServers
Shutdown == TakeSignal \/ HttpStopped \/ GrpcStopped \/ GrpcForce
            \/ WaitServers \/ CloseRedis \/ CloseDb \/ DbClosed
GracefulStop == GrpcDrain \/ GrpcDrained

Next ==
  \/ Startup \/ HttpServe \/ GrpcServe
  \/ \E r \in HttpRequests : HttpArrive(r) \/ HttpReply(r)
  \/ \E r \in GrpcRequests : GrpcArrive(r) \/ GrpcStep(r)
  \/ Signal \/ Deadline \/ Shutdown \/ GracefulStop \/ StopReturns
  \/ Restart
  \/ \E s \in Servers : Flip(s)

Spec == Init /\ [][Next]_vars

\* Goroutines are scheduled and the deadline comes.  A call may hang, and a task
\* request only surely goes on once its context is cancelled; a health check's
\* context never is.  Stop is only sure to return when no request is left.  A
\* process that failed is restarted; one that a signal ended may have been
\* stopped for good.
Fairness ==
  /\ WF_vars(Startup) /\ WF_vars(HttpServe) /\ WF_vars(GrpcServe)
  /\ WF_vars(Deadline) /\ WF_vars(Shutdown) /\ WF_vars(GracefulStop)
  /\ WF_vars(StopReturns /\ ~Active(GrpcRequests))
  /\ WF_vars(main = "failed" /\ Restart)
  /\ \A r \in GrpcRequests : WF_vars(Cancelled /\ GrpcStep(r))

FairSpec == Spec /\ Fairness

-----------------------------------------------------------------------------
(* Properties. *)

TypeOK ==
  /\ main \in Starting \cup {"serving"} \cup Stopping \cup Closing \cup Ended
  /\ attempts \in 0..MaxRetries /\ pinged \in 0..Len(Shards)
  /\ pool \in {"none", "open", "closing", "closed"}
  /\ cache \in {"none", "open", "closed"}
  /\ http \in {"none", "starting", "serving", "ended"}
  /\ grpc \in {"none", "starting", "serving", "ended"}
  /\ stop \in {"no", "goaway", "draining", "stopped", "forced", "aborted"}
  /\ deadline \in {"none", "running", "expired"}
  /\ quit \in BOOLEAN
  /\ req \in [Requests -> {"none", "cacheGet", "read", "cacheFill", "write", "cacheSet"}]
  /\ up \subseteq Servers

\* Once both Stop calls have returned, a request is still in progress only if
\* the deadline cut it off: until then main closes neither Redis nor the pool
\* under a request, and does not end the process before its reply.
CutOffOnlyByDeadline ==
  main \in Closing \cup {"exited"} /\ Active(Requests) => deadline = "expired"

\* Requests are only taken in while the pool is open and, if Redis is enabled,
\* every shard has answered and no client is closed.
ServesOnlyConnected ==
  http = "serving" \/ grpc = "serving" =>
    /\ pool = "open"
    /\ RedisEnabled => cache = "open" /\ pinged = Len(Shards)

\* What main may find itself waiting for during a shutdown.  Before both stops
\* have returned the deadline is there to end them; at wg.Wait the gRPC server
\* has been stopped, so that its goroutine returns.  A request that can keep
\* Stop or Pool.Close waiting is a task request whose context has been
\* cancelled, or a health check, which nothing cancels: and that one is only
\* left if the deadline passed while Shutdown waited for it.
ShutdownProceeds ==
  /\ main \in Stopping => deadline # "none"
  /\ main \in Closing => stop \in {"stopped", "aborted"}
  /\ main \in Closing \cup {"forceGrpc"} /\ Active(GrpcRequests) => Cancelled
  /\ main \in Closing \cup {"stopGrpc"} /\ Active(HttpRequests) => deadline = "expired"

\* After a signal the process ends, even if task requests hang and a server
\* never came up, unless a health check hangs: then all but dbPool.Close is
\* done, and the process stays in it for ever.
HeldByHealthCheck == main = "closingDb" /\ AtDatabase # {} /\ AtDatabase \subseteq HttpRequests
SignalStops == quit ~> (main = "exited" \/ []HeldByHealthCheck)

\* However often start-up was given up, once Postgres and all shards stay up a
\* process starts its servers and waits for a signal (that their ports are free
\* is not its business), unless a signal ends it: ten attempts, a shard that is
\* missing and os.Exit leave nothing behind that the next process trips over.
EventuallyServes ==
  Shards # << >> /\ <>[](up = Servers) =>
    []<>(main \in {"serving", "killed"} \/ deadline # "none")
=============================================================================
