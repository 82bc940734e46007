--------------------------- MODULE LifecycleProofs ---------------------------
(***************************************************************************)
(* Theorems about Lifecycle for any number of requests, shards and         *)
(* attempts.                                                               *)
(***************************************************************************)
EXTENDS Lifecycle, TLAPS

\* main's places before httpServer.Stop has returned, or when it never gets
\* there.
Before == Starting \cup {"serving", "stopHttp", "failed", "killed"}

\* main's places while its connections are up.
Connected == {"start", "serving"} \cup Stopping \cup {"wait", "closeRedis"}

\* Where main is tells how far the shutdown is.
StopInv ==
  /\ main \in Before <=> stop = "no"
  /\ main = "forceGrpc" => stop = "forced"
  /\ main \in Closing \cup {"exited"} => stop \in {"stopped", "aborted"}
  /\ stop \in {"forced", "aborted"} => deadline = "expired"
  /\ main \in Stopping => deadline # "none"

\* Only the deadline leaves requests in progress behind: health checks when
\* Shutdown gives up, task requests when GracefulStop is never through.
DrainInv ==
  /\ deadline # "expired" /\ main \notin Before => ~Active(HttpRequests)
  /\ stop = "stopped" => ~Active(GrpcRequests)

\* Where main is tells what is connected and which server may run.
ConnectedInv ==
  /\ main \in {"connect", "sleep"} => attempts < MaxRetries /\ pinged = 0
  /\ main = "redis" => pool = "open"
  /\ main \in Connected =>
       /\ pool = "open"
       /\ main # "closeRedis" /\ RedisEnabled => cache = "open" /\ pinged = Len(Shards)
  /\ main = "closeDb" => pool = "open"
  /\ main \in Starting \cup {"failed", "killed"} => http = "none" /\ grpc = "none"
  /\ main \in (Closing \ {"wait"}) \cup {"exited"} => http = "ended" /\ grpc = "ended"

Inv == TypeOK /\ StopInv /\ DrainInv /\ ConnectedInv

LEMMA InitInv == Init => Inv
<1> SUFFICES ASSUME Init PROVE Inv
  OBVIOUS
<1> USE LifecycleAssumption DEF Init, Starting, Stopping, Closing, Ended
<1>1. TypeOK
  <2>1. Len(Shards) \in Nat
    OBVIOUS
  <2>2. req \in [Requests -> {"none", "cacheGet", "read", "cacheFill", "write", "cacheSet"}]
    BY DEF Idle
  <2>3. quit \in BOOLEAN /\ up \subseteq Servers
    OBVIOUS
  <2>4. attempts \in 0..MaxRetries /\ pinged \in 0..Len(Shards)
    BY <2>1
  <2> QED
    BY <2>2, <2>3, <2>4 DEF TypeOK
<1>2. StopInv
  BY DEF StopInv, Before
<1>3. DrainInv
  BY DEF DrainInv, Before
<1>4. ConnectedInv
  BY DEF ConnectedInv, Connected
<1> QED
  BY <1>1, <1>2, <1>3, <1>4 DEF Inv

\* Whatever call a request is at, the next one is a call too.
LEMMA NextCallsType ==
  ASSUME NEW call \in {"none", "cacheGet", "read", "cacheFill", "write", "cacheSet"}, call # "none"
  PROVE  NextCalls(call) \subseteq {"read", "write", "cacheFill", "cacheSet"}
  BY DEF NextCalls

LEMMA TypeStep == Inv /\ [Next]_vars => TypeOK'
<1> SUFFICES ASSUME Inv, [Next]_vars PROVE TypeOK'
  OBVIOUS
<1> USE DEF Inv, TypeOK, ConnectedInv, Requests, Servers, Starting, Stopping, Closing, Ended
<1>1. CASE Connect
  BY <1>1, LifecycleAssumption DEF Connect, Goto
<1>2. CASE Sleep
  BY <1>2 DEF Sleep, Goto
<1>3. CASE PingShard
  BY <1>3, LifecycleAssumption DEF PingShard, Goto
<1>4. CASE StartServers
  BY <1>4 DEF StartServers, Goto
<1>5. CASE HttpServe
  BY <1>5 DEF HttpServe, Goto
<1>6. CASE GrpcServe
  BY <1>6 DEF GrpcServe, Goto
<1>7. CASE \E r \in HttpRequests : HttpArrive(r)
  BY <1>7 DEF HttpArrive, procVars
<1>8. CASE \E r \in HttpRequests : HttpReply(r)
  BY <1>8 DEF HttpReply, procVars
<1>9. CASE \E r \in GrpcRequests : GrpcArrive(r)
  BY <1>9 DEF GrpcArrive, FirstCalls, procVars
<1>10. CASE \E r \in GrpcRequests : GrpcStep(r)
  BY <1>10, NextCallsType DEF GrpcStep, procVars
<1>11. CASE Signal
  <2>1. CASE main \in Starting /\ Goto("killed") /\ UNCHANGED quit
    BY <1>11, <2>1 DEF Signal, Goto
  <2>2. CASE main \notin Starting \cup Ended /\ quit' = TRUE /\ UNCHANGED main
    BY <1>11, <2>2 DEF Signal
  <2> QED
    BY <1>11, <2>1, <2>2 DEF Signal
<1>12. CASE Deadline
  BY <1>12 DEF Deadline, Goto
<1>13. CASE TakeSignal
  BY <1>13 DEF TakeSignal, Goto
<1>14. CASE HttpStopped
  BY <1>14 DEF HttpStopped, Goto
<1>15. CASE GrpcStopped
  BY <1>15 DEF GrpcStopped, Goto
<1>16. CASE GrpcForce
  BY <1>16 DEF GrpcForce, Goto
<1>17. CASE WaitServers
  BY <1>17 DEF WaitServers, Goto
<1>18. CASE CloseRedis
  BY <1>18 DEF CloseRedis, Goto
<1>19. CASE CloseDb
  BY <1>19 DEF CloseDb, Goto
<1>20. CASE DbClosed
  BY <1>20 DEF DbClosed, Goto
<1>21. CASE GrpcDrain
  BY <1>21 DEF GrpcDrain, Goto
<1>22. CASE GrpcDrained
  BY <1>22 DEF GrpcDrained, Goto
<1>23. CASE StopReturns
  BY <1>23 DEF StopReturns, Goto
<1>24. CASE \E r \in Servers : Flip(r)
  BY <1>24 DEF Flip, procVars
<1>25. CASE Restart
  <2>1. Len(Shards) \in Nat
    BY LifecycleAssumption
  <2>2. quit' \in BOOLEAN /\ up' \subseteq Servers
    BY <1>25 DEF Restart
  <2>3. attempts' \in 0..MaxRetries /\ pinged' \in 0..Len(Shards)
    BY <1>25, <2>1, LifecycleAssumption DEF Restart
  <2>4. req' \in [Requests -> {"none", "cacheGet", "read", "cacheFill", "write", "cacheSet"}]
    BY <1>25 DEF Restart, Idle
  <2> QED
    BY <1>25, <2>2, <2>3, <2>4 DEF Restart
<1>26. CASE UNCHANGED vars
  BY <1>26 DEF vars, procVars
<1> QED
  BY <1>1, <1>2, <1>3, <1>4, <1>5, <1>6, <1>7, <1>8, <1>9, <1>10, <1>11, <1>12, <1>13, <1>14, <1>15, <1>16, <1>17, <1>18, <1>19, <1>20, <1>21, <1>22, <1>23, <1>24, <1>25, <1>26
  DEF Next, Startup, Shutdown, GracefulStop

LEMMA StopStep == Inv /\ [Next]_vars => StopInv'
<1> SUFFICES ASSUME Inv, [Next]_vars PROVE StopInv'
  OBVIOUS
<1> USE DEF Inv, StopInv, Before, Starting, Stopping, Closing, Ended
<1>1. CASE Connect
  BY <1>1 DEF Connect, Goto
<1>2. CASE Sleep
  BY <1>2 DEF Sleep, Goto
<1>3. CASE PingShard
  BY <1>3 DEF PingShard, Goto
<1>4. CASE StartServers
  BY <1>4 DEF StartServers, Goto
<1>5. CASE HttpServe
  BY <1>5 DEF HttpServe, Goto
<1>6. CASE GrpcServe
  BY <1>6 DEF GrpcServe, Goto
<1>7. CASE \E r \in HttpRequests : HttpArrive(r)
  BY <1>7 DEF HttpArrive, procVars
<1>8. CASE \E r \in HttpRequests : HttpReply(r)
  BY <1>8 DEF HttpReply, procVars
<1>9. CASE \E r \in GrpcRequests : GrpcArrive(r)
  BY <1>9 DEF GrpcArrive, procVars
<1>10. CASE \E r \in GrpcRequests : GrpcStep(r)
  BY <1>10 DEF GrpcStep, procVars
<1>11. CASE Signal
  BY <1>11 DEF Signal, Goto
<1>12. CASE Deadline
  BY <1>12 DEF Deadline, Goto
<1>13. CASE TakeSignal
  BY <1>13 DEF TakeSignal, Goto
<1>14. CASE HttpStopped
  BY <1>14 DEF HttpStopped, Goto
<1>15. CASE GrpcStopped
  BY <1>15 DEF GrpcStopped, Goto
<1>16. CASE GrpcForce
  BY <1>16 DEF GrpcForce, Goto
<1>17. CASE WaitServers
  BY <1>17 DEF WaitServers, Goto
<1>18. CASE CloseRedis
  BY <1>18 DEF CloseRedis, Goto
<1>19. CASE CloseDb
  BY <1>19 DEF CloseDb, Goto
<1>20. CASE DbClosed
  BY <1>20 DEF DbClosed, Goto
<1>21. CASE GrpcDrain
  BY <1>21 DEF GrpcDrain, Goto
<1>22. CASE GrpcDrained
  BY <1>22 DEF GrpcDrained, Goto
<1>23. CASE StopReturns
  BY <1>23 DEF StopReturns, Goto
<1>24. CASE \E r \in Servers : Flip(r)
  BY <1>24 DEF Flip, procVars
<1>25. CASE Restart
  BY <1>25, LifecycleAssumption DEF Restart, Idle
<1>26. CASE UNCHANGED vars
  BY <1>26 DEF vars, procVars
<1> QED
  BY <1>1, <1>2, <1>3, <1>4, <1>5, <1>6, <1>7, <1>8, <1>9, <1>10, <1>11, <1>12, <1>13, <1>14, <1>15, <1>16, <1>17, <1>18, <1>19, <1>20, <1>21, <1>22, <1>23, <1>24, <1>25, <1>26
  DEF Next, Startup, Shutdown, GracefulStop

LEMMA DrainStep == Inv /\ [Next]_vars => DrainInv'
<1> SUFFICES ASSUME Inv, [Next]_vars PROVE DrainInv'
  OBVIOUS
<1> USE DEF Inv, DrainInv, TypeOK, StopInv, Active, HttpShutdown, Before, Requests, Starting, Stopping, Closing, Ended
<1>1. CASE Connect
  BY <1>1 DEF Connect, Goto
<1>2. CASE Sleep
  BY <1>2 DEF Sleep, Goto
<1>3. CASE PingShard
  BY <1>3 DEF PingShard, Goto
<1>4. CASE StartServers
  BY <1>4 DEF StartServers, Goto
<1>5. CASE HttpServe
  BY <1>5 DEF HttpServe, Goto
<1>6. CASE GrpcServe
  BY <1>6 DEF GrpcServe, Goto
<1>7. CASE \E r \in HttpRequests : HttpArrive(r)
  BY <1>7, LifecycleAssumption DEF HttpArrive, procVars
<1>8. CASE \E r \in HttpRequests : HttpReply(r)
  BY <1>8, LifecycleAssumption DEF HttpReply, procVars
<1>9. CASE \E r \in GrpcRequests : GrpcArrive(r)
  BY <1>9, LifecycleAssumption DEF GrpcArrive, procVars
<1>10. CASE \E r \in GrpcRequests : GrpcStep(r)
  BY <1>10, LifecycleAssumption DEF GrpcStep, procVars
<1>11. CASE Signal
  BY <1>11 DEF Signal, Goto
<1>12. CASE Deadline
  BY <1>12 DEF Deadline, Goto
<1>13. CASE TakeSignal
  BY <1>13 DEF TakeSignal, Goto
<1>14. CASE HttpStopped
  BY <1>14 DEF HttpStopped, Goto
<1>15. CASE GrpcStopped
  BY <1>15 DEF GrpcStopped, Goto
<1>16. CASE GrpcForce
  BY <1>16 DEF GrpcForce, Goto
<1>17. CASE WaitServers
  BY <1>17 DEF WaitServers, Goto
<1>18. CASE CloseRedis
  BY <1>18 DEF CloseRedis, Goto
<1>19. CASE CloseDb
  BY <1>19 DEF CloseDb, Goto
<1>20. CASE DbClosed
  BY <1>20 DEF DbClosed, Goto
<1>21. CASE GrpcDrain
  BY <1>21 DEF GrpcDrain, Goto
<1>22. CASE GrpcDrained
  BY <1>22 DEF GrpcDrained, Goto
<1>23. CASE StopReturns
  BY <1>23 DEF StopReturns, Goto
<1>24. CASE \E r \in Servers : Flip(r)
  BY <1>24 DEF Flip, procVars
<1>25. CASE Restart
  BY <1>25, LifecycleAssumption DEF Restart, Idle
<1>26. CASE UNCHANGED vars
  BY <1>26 DEF vars, procVars
<1> QED
  BY <1>1, <1>2, <1>3, <1>4, <1>5, <1>6, <1>7, <1>8, <1>9, <1>10, <1>11, <1>12, <1>13, <1>14, <1>15, <1>16, <1>17, <1>18, <1>19, <1>20, <1>21, <1>22, <1>23, <1>24, <1>25, <1>26
  DEF Next, Startup, Shutdown, GracefulStop

LEMMA ConnectedStep == Inv /\ [Next]_vars => ConnectedInv'
<1> SUFFICES ASSUME Inv, [Next]_vars PROVE ConnectedInv'
  OBVIOUS
<1> USE DEF Inv, ConnectedInv, TypeOK, StopInv, Connected, Before, Starting, Stopping, Closing, Ended
<1>1. CASE Connect
  BY <1>1, LifecycleAssumption DEF Connect, Goto
<1>2. CASE Sleep
  BY <1>2 DEF Sleep, Goto
<1>3. CASE PingShard
  BY <1>3, LifecycleAssumption DEF PingShard, Goto
<1>4. CASE StartServers
  BY <1>4 DEF StartServers, Goto
<1>5. CASE HttpServe
  BY <1>5 DEF HttpServe, Goto
<1>6. CASE GrpcServe
  BY <1>6 DEF GrpcServe, Goto
<1>7. CASE \E r \in HttpRequests : HttpArrive(r)
  BY <1>7 DEF HttpArrive, procVars
<1>8. CASE \E r \in HttpRequests : HttpReply(r)
  BY <1>8 DEF HttpReply, procVars
<1>9. CASE \E r \in GrpcRequests : GrpcArrive(r)
  BY <1>9 DEF GrpcArrive, procVars
<1>10. CASE \E r \in GrpcRequests : GrpcStep(r)
  BY <1>10 DEF GrpcStep, procVars
<1>11. CASE Signal
  BY <1>11 DEF Signal, Goto
<1>12. CASE Deadline
  BY <1>12 DEF Deadline, Goto
<1>13. CASE TakeSignal
  BY <1>13 DEF TakeSignal, Goto
<1>14. CASE HttpStopped
  BY <1>14 DEF HttpStopped, Goto
<1>15. CASE GrpcStopped
  BY <1>15 DEF GrpcStopped, Goto
<1>16. CASE GrpcForce
  BY <1>16 DEF GrpcForce, Goto
<1>17. CASE WaitServers
  BY <1>17 DEF WaitServers, Goto
<1>18. CASE CloseRedis
  BY <1>18 DEF CloseRedis, Goto
<1>19. CASE CloseDb
  BY <1>19 DEF CloseDb, Goto
<1>20. CASE DbClosed
  BY <1>20 DEF DbClosed, Goto
<1>21. CASE GrpcDrain
  BY <1>21 DEF GrpcDrain, Goto
<1>22. CASE GrpcDrained
  BY <1>22 DEF GrpcDrained, Goto
<1>23. CASE StopReturns
  BY <1>23 DEF StopReturns, Goto
<1>24. CASE \E r \in Servers : Flip(r)
  BY <1>24 DEF Flip, procVars
<1>25. CASE Restart
  BY <1>25, LifecycleAssumption DEF Restart, Idle
<1>26. CASE UNCHANGED vars
  BY <1>26 DEF vars, procVars
<1> QED
  BY <1>1, <1>2, <1>3, <1>4, <1>5, <1>6, <1>7, <1>8, <1>9, <1>10, <1>11, <1>12, <1>13, <1>14, <1>15, <1>16, <1>17, <1>18, <1>19, <1>20, <1>21, <1>22, <1>23, <1>24, <1>25, <1>26
  DEF Next, Startup, Shutdown, GracefulStop

LEMMA InvHolds == Spec => []Inv
<1>1. Inv /\ [Next]_vars => Inv'
  BY TypeStep, StopStep, DrainStep, ConnectedStep DEF Inv
<1> QED
  BY InitInv, <1>1, PTL DEF Spec

-----------------------------------------------------------------------------
(* The properties. *)

\* The variables stay in their types: no more attempts than MaxRetries, and no
\* ping past the last shard.
THEOREM LifecycleTypeCorrect == Spec => []TypeOK
<1>1. Inv => TypeOK
  BY DEF Inv
<1> QED
  BY InvHolds, <1>1, PTL

\* Connections are closed, and the process ends, under a request only if the
\* deadline of the shutdown has passed: main is past both Stop calls when
\* GracefulStop is through (DrainInv: nothing is left, and nothing new comes
\* in), or has been aborted, which only the deadline does.
THEOREM CutOffCorrect == Spec => []CutOffOnlyByDeadline
<1>1. Inv => CutOffOnlyByDeadline
  <2> SUFFICES ASSUME Inv, main \in Closing \cup {"exited"}, deadline # "expired"
               PROVE  ~Active(Requests)
    BY DEF CutOffOnlyByDeadline
  <2>1. stop = "stopped"
    BY DEF Inv, StopInv
  <2>2. main \notin Before
    BY DEF Before, Starting, Closing
  <2>3. ~Active(HttpRequests) /\ ~Active(GrpcRequests)
    BY <2>1, <2>2 DEF Inv, DrainInv
  <2> QED
    BY <2>3 DEF Active, Requests
<1> QED
  BY InvHolds, <1>1, PTL

\* A server that takes requests in has its pool and its cache: main starts the
\* servers after the connections, and waits for both before it closes them.
THEOREM ConnectedCorrect == Spec => []ServesOnlyConnected
<1>1. Inv => ServesOnlyConnected
  <2> SUFFICES ASSUME Inv, http = "serving" \/ grpc = "serving"
               PROVE  /\ pool = "open"
                      /\ RedisEnabled => cache = "open" /\ pinged = Len(Shards)
    BY DEF ServesOnlyConnected
  <2>1. main \in {"serving", "wait"} \cup Stopping
    BY DEF Inv, TypeOK, ConnectedInv, Starting, Stopping, Closing, Ended
  <2>2. main \in Connected /\ main # "closeRedis"
    BY <2>1 DEF Connected, Stopping
  <2> QED
    BY <2>2 DEF Inv, ConnectedInv
<1> QED
  BY InvHolds, <1>1, PTL

\* The deadline ends both stops, and a gRPC server that main waits for has been
\* stopped.  What can keep Stop or Pool.Close waiting after that is a task request
\* that Stop has cancelled (a GracefulStop that is through has left none behind,
\* DrainInv), or a health check, never cancelled, that Shutdown gave up on at the
\* deadline (DrainInv: else Shutdown waited for it, and no other has come in).
THEOREM ShutdownCorrect == Spec => []ShutdownProceeds
<1>1. Inv => ShutdownProceeds
  <2> SUFFICES ASSUME Inv PROVE ShutdownProceeds
    OBVIOUS
  <2>1. main \in Stopping => deadline # "none"
    BY DEF Inv, StopInv
  <2>2. main \in Closing => stop \in {"stopped", "aborted"}
    BY DEF Inv, StopInv
  <2>3. main = "forceGrpc" => Cancelled
    BY DEF Inv, StopInv, Cancelled
  <2>4. stop = "stopped" => ~Active(GrpcRequests)
    BY DEF Inv, DrainInv
  <2>5. main \in Closing \cup {"stopGrpc"} /\ Active(HttpRequests) => deadline = "expired"
    BY DEF Inv, DrainInv, Before, Starting, Closing
  <2> QED
    BY <2>1, <2>2, <2>3, <2>4, <2>5 DEF ShutdownProceeds, Cancelled
<1> QED
  BY InvHolds, <1>1, PTL
=============================================================================
