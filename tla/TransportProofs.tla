--------------------------- MODULE TransportProofs ---------------------------
(***************************************************************************)
(* The invariants of Transport, for any requests and any size of the pool. *)
(***************************************************************************)
EXTENDS Transport, FiniteSetTheorems, TLAPS

-----------------------------------------------------------------------------
(* The inductive invariant. *)

Statuses == HttpStatuses \cup {"ok", "error"}
Lines == [event : {"started", "request", "panic"}, id : {"own", "unknown", "none"},
          status : Statuses]

TypeInv ==
  /\ TypeOK
  /\ lines \in [Requests -> SUBSET Lines]
  /\ saw \in [Requests -> SUBSET BOOLEAN]
  /\ depth \in [Requests -> Nat]

\* Where a request is, and the layers and the connection it has there.
PlaceInv(r) ==
  /\ pc[r] \in {"idle", "done"} => depth[r] = 0
  /\ pc[r] \in {"acquire", "query", "respond", "encode"} => depth[r] = Len(Chain(r))
  /\ pc[r] \in {"leave", "panic"} => depth[r] # 0
  /\ conn[r] # "none" => pc[r] = "query"
  /\ pc[r] = "encode" => r \in HttpRequests
  /\ pc[r] = "respond" => result[r] # "none"

\* A health check that has logged a status was told that one, which its handler
\* computed from its result; on its way out it has recorded what it was told, and
\* behind the logging layer it has logged it.
HttpInv(r) ==
  /\ told[r] # "ok"
  /\ pc[r] \in {"enter", "acquire", "query", "respond"} => told[r] = "none"
  /\ \A l \in lines[r] : l.event = "request" => l.status = told[r] /\ told[r] # "none"
  /\ pc[r] = "encode" \/ (pc[r] = "leave" /\ depth[r] = 2) =>
       told[r] = recorded[r] /\ told[r] # "none"
  /\ pc[r] = "encode" => told[r] = Health(result[r])
  /\ pc[r] = "leave" /\ depth[r] = 1 => \E l \in lines[r] : l.event = "request"
  /\ pc[r] = "done" => \E l \in lines[r] : l.event \in {"request", "panic"}

\* A gRPC request logs its result as it passes the logging layer on its way out,
\* or else its panic, and is told the same.
GrpcInv(r) ==
  /\ told[r] # "200"
  /\ pc[r] \notin {"leave", "done"} => lines[r] = {}
  /\ pc[r] = "leave" =>
       lines[r] = IF depth[r] = 3 THEN {} ELSE {Line("request", "none", result[r])}
  /\ pc[r] = "done" => \/ lines[r] = {Line("request", "none", told[r])}
                       \/ lines[r] = {Line("panic", "none", "none")} /\ told[r] = "error"
  /\ pc[r] # "done" => told[r] = "none"

\* A good connection is one to a Postgres that is up, and what it answered was
\* answered during the request.
SawInv(r) ==
  /\ r \in Serving => up \in saw[r]
  /\ conn[r] = "good" => up
  /\ result[r] = "ok" \/ told[r] = "200" => TRUE \in saw[r]

ReqInv(r) ==
  /\ PlaceInv(r) /\ SawInv(r)
  /\ r \in HttpRequests => HttpInv(r)
  /\ r \in GrpcRequests => GrpcInv(r)

Inv == TypeInv /\ \A r \in Requests : ReqInv(r)

LEMMA InvImplies == Inv => TypeOK /\ LogTellsReplies /\ HealthTrue
<1> SUFFICES ASSUME Inv PROVE LogTellsReplies /\ HealthTrue
  BY DEF Inv, TypeInv
<1>1. ASSUME NEW r \in HttpRequests
      PROVE  /\ pc[r] = "done" =>
                  /\ \A l \in lines[r] : l.event = "request" => l.status = told[r]
                  /\ \E l \in lines[r] : l.event \in {"request", "panic"}
             /\ told[r] = "200" => TRUE \in saw[r]
             /\ told[r] # "ok"
  BY DEF Inv, ReqInv, HttpInv, SawInv, Requests
<1>2. ASSUME NEW r \in GrpcRequests
      PROVE  /\ pc[r] = "done" =>
                  /\ \A l \in lines[r] : l.event = "request" => l.status = told[r]
                  /\ \E l \in lines[r] : l.event \in {"request", "panic"}
             /\ told[r] # "200"
             /\ told[r] = "ok" => \A l \in lines[r] : l.event # "panic"
  <2>1. GrpcInv(r)
    BY DEF Inv, ReqInv, Requests
  <2>2. CASE pc[r] # "done"
    BY <2>1, <2>2 DEF GrpcInv
  <2>3. CASE pc[r] = "done" /\ lines[r] = {Line("request", "none", told[r])}
    BY <2>1, <2>3 DEF GrpcInv, Line
  <2>4. CASE lines[r] = {Line("panic", "none", "none")} /\ told[r] = "error"
    BY <2>1, <2>4 DEF GrpcInv, Line
  <2> QED
    BY <2>1, <2>2, <2>3, <2>4 DEF GrpcInv
<1> QED
  BY <1>1, <1>2 DEF LogTellsReplies, HealthTrue, Requests

LEMMA ChainFacts ==
  ASSUME NEW r \in Requests
  PROVE  /\ Chain(r)[1] = "recovery"
         /\ r \in HttpRequests => Len(Chain(r)) = 2 /\ Chain(r)[2] = "logging"
         /\ r \in GrpcRequests => /\ Len(Chain(r)) = 3
                                  /\ Chain(r)[2] = "requestId" /\ Chain(r)[3] = "logging"
  BY TransportAssumption DEF Chain, HttpChain, GrpcChain, Requests

LEMMA HeldFinite == IsFiniteSet(Held) /\ Cardinality(Held) \in Nat
<1>1. IsFiniteSet(Requests)
  BY TransportAssumption DEF Requests
<1>2. Held \subseteq Requests
  BY DEF Held
<1> QED
  BY <1>1, <1>2, FS_Subset, FS_CardinalityType

LEMMA InitInv == Init => Inv
<1> SUFFICES ASSUME Init PROVE Inv
  OBVIOUS
<1>1. Held = {}
  BY DEF Init, Held
<1>2. Cardinality(Held) = 0
  BY <1>1, FS_EmptySet
<1>3. \A r \in Requests : 0 \in 0..Len(Chain(r))
  BY ChainFacts DEF Requests
<1>4. TypeInv
  BY <1>2, <1>3, TransportAssumption DEF Init, TypeInv, TypeOK, HttpStatuses
<1>5. ASSUME NEW r \in Requests PROVE ReqInv(r)
  BY DEF Init, ReqInv, PlaceInv, SawInv, HttpInv, GrpcInv, Serving
<1> QED
  BY <1>4, <1>5 DEF Inv

-----------------------------------------------------------------------------
(* Every step preserves it. *)

\* A request that a step does not touch.
LEMMA Untouched ==
  ASSUME Inv, NEW q \in Requests, UNCHANGED up,
         UNCHANGED <<pc[q], depth[q], conn[q], result[q], told[q], recorded[q],
                     lines[q], saw[q]>>
  PROVE  ReqInv(q)'
BY DEF Inv, ReqInv, PlaceInv, SawInv, HttpInv, GrpcInv, Serving

\* The pool, when a request gives its connection back or has none to give.
LEMMA GivenBack ==
  ASSUME Inv, NEW r \in Requests, conn' = [conn EXCEPT ![r] = "none"], UNCHANGED idle
  PROVE  Cardinality(Held') + idle' <= MaxConns
<1>1. Held' \subseteq Held
  BY DEF Inv, TypeInv, TypeOK, Held
<1>2. IsFiniteSet(Held) /\ Cardinality(Held) \in Nat
  BY HeldFinite
<1>3. Cardinality(Held') <= Cardinality(Held) /\ Cardinality(Held') \in Nat
  BY <1>1, <1>2, FS_Subset, FS_CardinalityType
<1> QED
  BY <1>2, <1>3, TransportAssumption DEF Inv, TypeInv, TypeOK

\* ... and when it gets one.
LEMMA Taken ==
  ASSUME Inv, NEW r \in Requests, NEW state \in {"good", "broken"}, conn[r] = "none",
         conn' = [conn EXCEPT ![r] = state]
  PROVE  Cardinality(Held') = Cardinality(Held) + 1
<1>1. Held' = Held \cup {r} /\ r \notin Held
  BY DEF Inv, TypeInv, TypeOK, Held
<1>2. IsFiniteSet(Held)
  BY HeldFinite
<1> QED
  BY <1>1, <1>2, FS_AddElement

LEMMA ArriveStep ==
  ASSUME Inv, NEW r \in Requests, Arrive(r)
  PROVE  Inv'
<1>1. conn[r] = "none" /\ Held' = Held
  BY DEF Arrive, Inv, ReqInv, PlaceInv, Held
<1>2. 0 \in 0..Len(Chain(r))
  BY ChainFacts DEF Requests
<1>3. TypeInv'
  BY <1>1, <1>2 DEF Arrive, Goto, Inv, TypeInv, TypeOK, HttpStatuses
<1>4. ReqInv(r)'
  BY <1>1 DEF Arrive, Goto, Inv, TypeInv, TypeOK, ReqInv, PlaceInv, SawInv, HttpInv,
              GrpcInv, Serving
<1>5. ASSUME NEW q \in Requests, q # r PROVE ReqInv(q)'
  BY <1>5, Untouched DEF Arrive, Goto, Inv, TypeInv, TypeOK
<1> QED
  BY <1>3, <1>4, <1>5 DEF Inv

LEMMA EnterStep ==
  ASSUME Inv, NEW r \in Requests, Enter(r)
  PROVE  Inv'
<1>0. /\ pc[r] = "enter" /\ depth[r] < Len(Chain(r))
      /\ depth' = [depth EXCEPT ![r] = @ + 1]
      /\ named' = [named EXCEPT ![r] = @ \/ Names(r, Chain(r)[depth[r] + 1])]
      /\ \/ r \in HttpRequests /\ Log(r, Line("started", "own", "none"))
         \/ UNCHANGED lines
      /\ UNCHANGED <<pc, conn, result, told, recorded, gone, saw, idle, up, alive>>
  BY DEF Enter
<1>1. TypeInv'
  <2>1. Held' = Held
    BY <1>0 DEF Held
  <2>2. depth[r] + 1 \in 0..Len(Chain(r)) /\ \A q \in Requests : depth[q] \in 0..Len(Chain(q))
    BY <1>0, ChainFacts DEF Inv, TypeInv, TypeOK, Requests
  <2>3. \A q \in Requests : depth'[q] \in 0..Len(Chain(q))
    BY <1>0, <2>2 DEF Inv, TypeInv
  <2>6. depth' \in [Requests -> Nat]
    BY <1>0 DEF Inv, TypeInv
  <2>4. named' \in [Requests -> BOOLEAN]
    BY <1>0 DEF Inv, TypeInv, TypeOK, Names
  <2>5. lines' \in [Requests -> SUBSET Lines]
    BY <1>0 DEF Inv, TypeInv, Log, Line, Lines, Statuses, HttpStatuses
  <2> QED
    BY <1>0, <2>1, <2>3, <2>4, <2>5, <2>6 DEF Inv, TypeInv, TypeOK
<1>2. ReqInv(r)'
  <2>1. ReqInv(r)
    BY DEF Inv
  <2>2. PlaceInv(r)' /\ SawInv(r)'
    BY <1>0, <2>1 DEF ReqInv, PlaceInv, SawInv, Serving
  <2>3. ASSUME r \in HttpRequests PROVE HttpInv(r)'
    BY <1>0, <2>1, <2>3 DEF ReqInv, HttpInv, Log, Line, Inv, TypeInv
  <2>4. ASSUME r \in GrpcRequests PROVE GrpcInv(r)'
    BY <1>0, <2>1, <2>4, TransportAssumption DEF ReqInv, GrpcInv
  <2> QED
    BY <2>2, <2>3, <2>4 DEF ReqInv
<1>3. ASSUME NEW q \in Requests, q # r PROVE ReqInv(q)'
  BY <1>0, <1>3, Untouched DEF Inv, TypeInv, TypeOK, Log
<1> QED
  BY <1>1, <1>2, <1>3 DEF Inv

LEMMA HandleStep ==
  ASSUME Inv, NEW r \in Requests, Handle(r)
  PROVE  Inv'
<1>1. /\ pc[r] = "enter" /\ depth[r] = Len(Chain(r))
      /\ pc' = [pc EXCEPT ![r] = "acquire"]
      /\ UNCHANGED <<depth, named, conn, result, told, recorded, lines, gone, saw,
                     idle, up, alive>>
  BY DEF Handle, Goto
<1>2. TypeInv'
  <2>1. Held' = Held
    BY <1>1 DEF Held
  <2> QED
    BY <1>1, <2>1 DEF Inv, TypeInv, TypeOK
<1>3. ReqInv(r)'
  BY <1>1 DEF Inv, TypeInv, TypeOK, ReqInv, PlaceInv, SawInv, HttpInv, GrpcInv, Serving
<1>4. ASSUME NEW q \in Requests, q # r PROVE ReqInv(q)'
  BY <1>1, <1>4, Untouched DEF Inv, TypeInv, TypeOK
<1> QED
  BY <1>2, <1>3, <1>4 DEF Inv

LEMMA AcquireStep ==
  ASSUME Inv, NEW r \in Requests, Acquire(r)
  PROVE  Inv'
<1>0. /\ pc[r] = "acquire" /\ conn[r] = "none"
      /\ UNCHANGED <<depth, named, told, recorded, lines, gone, saw, up, alive>>
  BY DEF Acquire, Inv, ReqInv, PlaceInv
<1> DEFINE Gets(state) ==
      /\ conn' = [conn EXCEPT ![r] = state]
      /\ pc' = [pc EXCEPT ![r] = "query"] /\ UNCHANGED result
<1>1. \/ /\ up /\ Gets("good") /\ Cardinality(Held) < MaxConns
         /\ idle' \in {idle, idle - 1} \cap 0..(MaxConns - Cardinality(Held) - 1)
      \/ Gets("broken") /\ idle > 0 /\ idle' = idle - 1
      \/ /\ result' = [result EXCEPT ![r] = "error"]
         /\ pc' = [pc EXCEPT ![r] = "respond"] /\ UNCHANGED <<conn, idle>>
  BY DEF Acquire, Goto
<1>2. TypeInv'
  <2>1. Cardinality(Held) \in Nat /\ MaxConns \in Nat
    BY HeldFinite, TransportAssumption
  <2>2. idle' \in 0..MaxConns /\ Cardinality(Held') + idle' <= MaxConns
    <3>1. CASE UNCHANGED <<conn, idle>>
      BY <3>1 DEF Inv, TypeInv, TypeOK, Held
    <3>2. ASSUME NEW state \in {"good", "broken"}, conn' = [conn EXCEPT ![r] = state]
          PROVE  Cardinality(Held') = Cardinality(Held) + 1
      BY <1>0, <3>2, Taken
    <3> QED
      BY <1>1, <2>1, <3>1, <3>2 DEF Inv, TypeInv, TypeOK
  <2>3. /\ pc' \in [Requests -> {"idle", "enter", "acquire", "query", "respond", "encode",
                                 "leave", "panic", "done"}]
        /\ conn' \in [Requests -> {"none", "good", "broken"}]
        /\ result' \in [Requests -> {"none", "ok", "error"}]
    BY <1>1 DEF Inv, TypeInv, TypeOK
  <2> QED
    BY <1>0, <2>2, <2>3 DEF Inv, TypeInv, TypeOK
<1>3. ReqInv(r)'
  <2>1. ReqInv(r) /\ \A f \in {pc, conn, result} : DOMAIN f = Requests
    BY DEF Inv, TypeInv, TypeOK
  <2>2. PlaceInv(r)' /\ SawInv(r)'
    BY <1>0, <1>1, <2>1 DEF ReqInv, PlaceInv, SawInv, Serving
  <2> QED
    BY <1>0, <1>1, <2>1, <2>2 DEF ReqInv, HttpInv, GrpcInv
<1>4. ASSUME NEW q \in Requests, q # r PROVE ReqInv(q)'
  BY <1>0, <1>1, <1>4, Untouched DEF Inv, TypeInv, TypeOK
<1> QED
  BY <1>2, <1>3, <1>4 DEF Inv

LEMMA QueryStep ==
  ASSUME Inv, NEW r \in Requests, Query(r)
  PROVE  Inv'
<1>1. PICK res \in {"ok", "error"} :
        /\ res = "ok" => conn[r] = "good"
        /\ result' = [result EXCEPT ![r] = res]
  BY DEF Query
<1>2. /\ pc[r] = "query"
      /\ conn' = [conn EXCEPT ![r] = "none"]
      /\ pc' = [pc EXCEPT ![r] = "respond"]
      /\ UNCHANGED <<depth, named, told, recorded, lines, gone, saw, idle, up, alive>>
  BY DEF Query, Goto
<1>3. TypeInv'
  <2>1. Cardinality(Held') + idle' <= MaxConns
    BY <1>2, GivenBack
  <2> QED
    BY <1>1, <1>2, <2>1 DEF Inv, TypeInv, TypeOK
<1>4. ReqInv(r)'
  <2>1. ReqInv(r) /\ \A f \in {pc, conn, result} : DOMAIN f = Requests
    BY DEF Inv, TypeInv, TypeOK
  <2>2. PlaceInv(r)' /\ SawInv(r)'
    BY <1>1, <1>2, <2>1 DEF ReqInv, PlaceInv, SawInv, Serving
  <2> QED
    BY <1>2, <2>1, <2>2 DEF ReqInv, HttpInv, GrpcInv
<1>5. ASSUME NEW q \in Requests, q # r PROVE ReqInv(q)'
  BY <1>1, <1>2, <1>5, Untouched DEF Inv, TypeInv, TypeOK
<1> QED
  BY <1>3, <1>4, <1>5 DEF Inv

LEMMA RespondStep ==
  ASSUME Inv, NEW r \in Requests, Respond(r)
  PROVE  Inv'
<1>0. /\ pc[r] = "respond" /\ depth[r] = Len(Chain(r))
      /\ UNCHANGED <<depth, named, conn, result, lines, gone, saw, idle, up, alive>>
  BY DEF Respond, Inv, ReqInv, PlaceInv
<1>1. Held' = Held
  BY <1>0 DEF Held
<1>2. CASE r \in HttpRequests
  <2> DEFINE status == Health(result[r])
  <2>0. \E i \in 1..depth[r] : Chain(r)[i] = "logging"
    BY <1>0, <1>2, ChainFacts
  <2>1. /\ told' = [told EXCEPT ![r] = IF @ = "none" THEN status ELSE @]
        /\ recorded' = [recorded EXCEPT ![r] = status]
        /\ pc' = [pc EXCEPT ![r] = "encode"]
    BY <1>2, <2>0 DEF Respond, WriteHeader, Goto
  <2>2. status \in {"200", "503"} /\ (status = "200" => result[r] = "ok")
    BY <1>0 DEF Health, Inv, TypeInv, TypeOK, ReqInv, PlaceInv
  <2>3. told'[r] = status /\ recorded'[r] = status
    BY <1>0, <1>2, <2>1 DEF Inv, TypeInv, TypeOK, ReqInv, HttpInv
  <2>4. TypeInv'
    BY <1>0, <1>1, <2>1, <2>2 DEF Inv, TypeInv, TypeOK, HttpStatuses
  <2>5. ReqInv(r)'
    <3>1. ReqInv(r) /\ pc'[r] = "encode" /\ r \notin GrpcRequests
      BY <1>2, <2>1, TransportAssumption DEF Inv, TypeInv, TypeOK
    <3>2. PlaceInv(r)' /\ SawInv(r)'
      BY <1>0, <1>2, <2>2, <2>3, <3>1 DEF ReqInv, PlaceInv, SawInv, Serving
    <3>3. \A l \in lines[r] : l.event # "request"
      BY <1>0, <1>2, <3>1 DEF ReqInv, HttpInv
    <3>4. HttpInv(r)'
      BY <1>0, <2>2, <2>3, <3>1, <3>3 DEF HttpInv
    <3> QED
      BY <3>1, <3>2, <3>4 DEF ReqInv
  <2>6. ASSUME NEW q \in Requests, q # r PROVE ReqInv(q)'
    BY <1>0, <2>1, <2>6, Untouched DEF Inv, TypeInv, TypeOK
  <2> QED
    BY <2>4, <2>5, <2>6 DEF Inv
<1>3. CASE r \notin HttpRequests
  <2>1. pc' = [pc EXCEPT ![r] = "leave"] /\ UNCHANGED <<told, recorded>>
    BY <1>3 DEF Respond, Goto
  <2>2. TypeInv'
    BY <1>0, <1>1, <2>1 DEF Inv, TypeInv, TypeOK
  <2>3. ReqInv(r)'
    <3>1. ReqInv(r) /\ pc'[r] = "leave" /\ Len(Chain(r)) = 3
      BY <1>3, <2>1, ChainFacts DEF Inv, TypeInv, TypeOK, Requests
    <3>2. PlaceInv(r)'
      BY <1>0, <2>1, <3>1 DEF ReqInv, PlaceInv
    <3>4. SawInv(r)'
      BY <1>0, <2>1, <3>1 DEF ReqInv, SawInv, Serving
    <3>3. GrpcInv(r)'
      BY <1>0, <1>3, <2>1, <3>1 DEF ReqInv, GrpcInv, Requests
    <3> QED
      BY <1>3, <3>2, <3>3, <3>4 DEF ReqInv
  <2>4. ASSUME NEW q \in Requests, q # r PROVE ReqInv(q)'
    BY <1>0, <2>1, <2>4, Untouched DEF Inv, TypeInv, TypeOK
  <2> QED
    BY <2>2, <2>3, <2>4 DEF Inv
<1> QED
  BY <1>2, <1>3

LEMMA EncodeStep ==
  ASSUME Inv, NEW r \in Requests, Encode(r)
  PROVE  Inv'
<1>0. /\ pc[r] = "encode" /\ r \in HttpRequests /\ r \notin GrpcRequests
      /\ pc' = [pc EXCEPT ![r] = "leave"]
      /\ \/ Log(r, Line("request", ContextId(r, depth[r]), Health(result[r])))
         \/ UNCHANGED lines
      /\ UNCHANGED <<depth, named, conn, result, told, recorded, gone, saw, idle, up, alive>>
  BY TransportAssumption DEF Encode, Goto, Inv, ReqInv, PlaceInv
<1>1. TypeInv'
  <2>1. Held' = Held
    BY <1>0 DEF Held
  <2>2. ContextId(r, depth[r]) \in {"own", "unknown", "none"} /\ Health(result[r]) \in Statuses
    BY DEF ContextId, Health, Statuses, HttpStatuses
  <2>3. lines' \in [Requests -> SUBSET Lines]
    BY <1>0, <2>2 DEF Inv, TypeInv, Log, Line, Lines
  <2> QED
    BY <1>0, <2>1, <2>3 DEF Inv, TypeInv, TypeOK
<1>2. ReqInv(r)'
  <2>1. ReqInv(r) /\ pc'[r] = "leave" /\ depth[r] = 2
    <3>1. Len(Chain(r)) = 2
      BY <1>0, ChainFacts
    <3> QED
      BY <1>0, <3>1 DEF Inv, TypeInv, TypeOK, ReqInv, PlaceInv
  <2>2. PlaceInv(r)'
    BY <1>0, <2>1 DEF ReqInv, PlaceInv
  <2>5. SawInv(r)'
    BY <1>0, <2>1 DEF ReqInv, SawInv, Serving
  <2>6. told[r] = Health(result[r])
    BY <1>0, <2>1 DEF ReqInv, HttpInv
  <2>3. \A l \in lines'[r] : l \in lines[r] \/ l.status = told[r]
    BY <1>0, <2>6 DEF Inv, TypeInv, Log, Line
  <2>4. HttpInv(r)'
    BY <1>0, <2>1, <2>3 DEF ReqInv, HttpInv
  <2> QED
    BY <1>0, <2>2, <2>4, <2>5 DEF ReqInv
<1>3. ASSUME NEW q \in Requests, q # r PROVE ReqInv(q)'
  BY <1>0, <1>3, Untouched DEF Inv, TypeInv, TypeOK, Log
<1> QED
  BY <1>1, <1>2, <1>3 DEF Inv

\* A step outwards: the request is inside of one layer less.
LEMMA OneLess ==
  ASSUME Inv, NEW r \in Requests, depth[r] # 0, depth' = [depth EXCEPT ![r] = @ - 1]
  PROVE  /\ depth[r] \in 1..Len(Chain(r)) /\ depth'[r] = depth[r] - 1
         /\ \A q \in Requests : depth'[q] \in 0..Len(Chain(q))
         /\ depth' \in [Requests -> Nat]
<1>1. \A q \in Requests : Len(Chain(q)) \in Nat
  BY ChainFacts DEF Requests
<1>2. \A q \in Requests : depth[q] \in 0..Len(Chain(q))
  BY DEF Inv, TypeInv, TypeOK
<1>3. \A q \in Requests : depth'[q] = IF q = r THEN depth[r] - 1 ELSE depth[q]
  BY DEF Inv, TypeInv
<1> QED
  BY <1>1, <1>2, <1>3 DEF Inv, TypeInv

LEMMA LeaveStep ==
  ASSUME Inv, NEW r \in Requests, Leave(r)
  PROVE  Inv'
<1>0. /\ pc[r] = "leave" /\ depth[r] # 0 /\ conn[r] = "none"
      /\ depth' = [depth EXCEPT ![r] = @ - 1]
      /\ pc' = [pc EXCEPT ![r] = IF depth[r] = 1 THEN "done" ELSE "leave"]
      /\ UNCHANGED <<named, conn, result, recorded, gone, saw, idle, up, alive>>
  BY DEF Leave, Out, Goto, Inv, ReqInv, PlaceInv
<1>1. /\ depth[r] \in 1..Len(Chain(r)) /\ depth'[r] = depth[r] - 1
      /\ \A q \in Requests : depth'[q] \in 0..Len(Chain(q))
      /\ depth' \in [Requests -> Nat]
  BY <1>0, OneLess
<1>2. /\ told' = IF depth[r] = 1 /\ r \in GrpcRequests
                 THEN [told EXCEPT ![r] = result[r]] ELSE told
      /\ lines' = IF Chain(r)[depth[r]] # "logging" THEN lines
                  ELSE [lines EXCEPT ![r] = @ \cup
                    {IF r \in HttpRequests THEN Line("request", "own", recorded[r])
                                           ELSE Line("request", "none", result[r])}]
  BY DEF Leave, Log
<1>3. TypeInv'
  <2>1. Held' = Held
    BY <1>0 DEF Held
  <2>2. recorded[r] \in Statuses /\ result[r] \in Statuses
    BY DEF Inv, TypeInv, TypeOK, Statuses, HttpStatuses
  <2>3. lines' \in [Requests -> SUBSET Lines]
    BY <1>2, <2>2 DEF Inv, TypeInv, Line, Lines
  <2>4. told' \in [Requests -> HttpStatuses \cup {"ok", "error"}]
    BY <1>2 DEF Inv, TypeInv, TypeOK, HttpStatuses
  <2> QED
    BY <1>0, <1>1, <2>1, <2>3, <2>4 DEF Inv, TypeInv, TypeOK
<1>4. ReqInv(r)'
  <2>1. ReqInv(r) /\ pc'[r] = IF depth[r] = 1 THEN "done" ELSE "leave"
    BY <1>0 DEF Inv, TypeInv, TypeOK
  <2>2. PlaceInv(r)'
    BY <1>0, <1>1, <2>1 DEF PlaceInv
  <2>3. SawInv(r)' /\ (r \in HttpRequests => HttpInv(r)')
    <3>1. CASE r \in HttpRequests
      <4>1. r \notin GrpcRequests /\ Len(Chain(r)) = 2 /\ Chain(r)[1] # "logging" /\ Chain(r)[2] = "logging"
        BY <3>1, ChainFacts, TransportAssumption
      <4>2. told' = told /\ depth[r] \in {1, 2}
        BY <1>1, <1>2, <4>1
      <4>3. SawInv(r)'
        BY <1>0, <2>1, <4>2 DEF ReqInv, SawInv, Serving
      <4>4. CASE depth[r] = 1
        <5>1. lines' = lines
          BY <1>2, <4>1, <4>4
        <5> QED
          BY <1>0, <2>1, <3>1, <4>2, <4>3, <4>4, <5>1 DEF ReqInv, HttpInv
      <4>5. CASE depth[r] = 2
        <5>1. lines'[r] = lines[r] \cup {Line("request", "own", recorded[r])}
          BY <1>2, <3>1, <4>1, <4>5 DEF Inv, TypeInv
        <5>2. HttpInv(r) /\ told[r] = recorded[r] /\ told[r] # "none"
          BY <1>0, <2>1, <3>1, <4>5 DEF ReqInv, HttpInv
        <5>3. \A l \in lines'[r] : l.event = "request" => l.status = told[r]
          BY <5>1, <5>2 DEF HttpInv, Line
        <5>4. \E l \in lines'[r] : l.event = "request"
          <6>1. Line("request", "own", recorded[r]).event = "request"
            BY DEF Line
          <6> QED
            BY <5>1, <6>1
        <5> QED
          BY <1>0, <1>1, <2>1, <4>2, <4>3, <4>5, <5>2, <5>3, <5>4 DEF HttpInv
      <4> QED
        BY <4>2, <4>4, <4>5
    <3>2. CASE r \notin HttpRequests
      <4>1. result[r] = "ok" \/ told'[r] = "200" => TRUE \in saw[r]
        BY <1>2, <2>1 DEF ReqInv, SawInv, Inv, TypeInv, TypeOK
      <4> QED
        BY <1>0, <2>1, <3>2, <4>1 DEF ReqInv, SawInv, Serving
    <3> QED
      BY <3>1, <3>2
  <2>4. ASSUME r \in GrpcRequests PROVE GrpcInv(r)'
    <3>1. /\ r \notin HttpRequests /\ Len(Chain(r)) = 3
          /\ Chain(r)[1] # "logging" /\ Chain(r)[2] # "logging" /\ Chain(r)[3] = "logging"
      BY <2>4, ChainFacts, TransportAssumption
    <3>2. GrpcInv(r) /\ result'[r] = result[r]
      BY <1>0, <2>1, <2>4 DEF ReqInv
    <3>3. CASE depth[r] = 3
      <4>1. lines'[r] = {} \cup {Line("request", "none", result[r])} /\ told' = told
        BY <1>0, <1>2, <3>1, <3>2, <3>3 DEF GrpcInv, Inv, TypeInv
      <4> QED
        BY <1>0, <1>1, <2>1, <3>2, <3>3, <4>1 DEF GrpcInv
    <3>4. CASE depth[r] # 3
      <4>1. lines' = lines /\ lines[r] = {Line("request", "none", result[r])}
        BY <1>0, <1>1, <1>2, <3>1, <3>2, <3>4 DEF GrpcInv
      <4>2. told'[r] = IF depth[r] = 1 THEN result[r] ELSE told[r]
        BY <1>2, <2>4 DEF Inv, TypeInv, TypeOK
      <4>3. result[r] # "200"
        BY DEF Inv, TypeInv, TypeOK
      <4>4. CASE depth[r] = 1
        BY <1>0, <1>1, <2>1, <3>2, <4>1, <4>2, <4>3, <4>4 DEF GrpcInv
      <4>5. CASE depth[r] # 1
        <5>1. pc'[r] = "leave" /\ depth'[r] # 3 /\ told'[r] = "none"
          BY <1>0, <1>1, <2>1, <3>1, <3>2, <3>4, <4>2, <4>5 DEF GrpcInv
        <5> QED
          BY <3>2, <4>1, <5>1 DEF GrpcInv
      <4> QED
        BY <4>4, <4>5
    <3> QED
      BY <3>3, <3>4
  <2> QED
    BY <2>2, <2>3, <2>4 DEF ReqInv
<1>5. ASSUME NEW q \in Requests, q # r PROVE ReqInv(q)'
  BY <1>0, <1>2, <1>5, Untouched DEF Inv, TypeInv, TypeOK
<1> QED
  BY <1>3, <1>4, <1>5 DEF Inv

LEMMA PanicStep ==
  ASSUME Inv, NEW r \in Requests, Panic(r)
  PROVE  Inv'
<1>1. /\ \/ pc[r] \in {"enter", "acquire", "query", "respond", "encode"}
         \/ pc[r] = "leave" /\ Chain(r)[depth[r]] = "logging"
      /\ depth[r] # 0
      /\ pc' = [pc EXCEPT ![r] = "panic"]
      /\ conn' = [conn EXCEPT ![r] = "none"]
      /\ UNCHANGED <<depth, named, result, told, recorded, lines, gone, saw, idle, up, alive>>
  BY DEF Panic, MayPanic, Goto, Inv, TypeInv, ReqInv, PlaceInv
<1>2. TypeInv'
  <2>1. Cardinality(Held') + idle' <= MaxConns
    BY <1>1, GivenBack
  <2> QED
    BY <1>1, <2>1 DEF Inv, TypeInv, TypeOK
<1>3. ReqInv(r)'
  <2>1. ReqInv(r) /\ pc'[r] = "panic" /\ conn'[r] = "none" /\ depth[r] # 0
    BY <1>1, ChainFacts DEF Inv, TypeInv, TypeOK
  <2>2. PlaceInv(r)'
    BY <1>1, <2>1 DEF PlaceInv
  <2>3. SawInv(r)'
    BY <1>1, <2>1 DEF ReqInv, SawInv, Serving
  <2>4. ASSUME r \in HttpRequests PROVE HttpInv(r)'
    BY <1>1, <2>1, <2>4 DEF ReqInv, HttpInv
  <2>5. ASSUME r \in GrpcRequests PROVE GrpcInv(r)'
    <3>1. GrpcInv(r)
      BY <2>1, <2>5 DEF ReqInv
    <3>2. CASE pc[r] # "leave"
      BY <1>1, <2>1, <3>1, <3>2 DEF GrpcInv
    <3>3. CASE pc[r] = "leave"
      <4>1. depth[r] = 3
        BY <1>1, <2>5, <3>3, ChainFacts DEF Inv, TypeInv, TypeOK, Requests
      <4> QED
        BY <1>1, <2>1, <3>1, <3>3, <4>1 DEF GrpcInv
    <3> QED
      BY <3>2, <3>3
  <2> QED
    BY <2>1, <2>2, <2>3, <2>4, <2>5 DEF ReqInv
<1>4. ASSUME NEW q \in Requests, q # r PROVE ReqInv(q)'
  BY <1>1, <1>4, Untouched DEF Inv, TypeInv, TypeOK
<1> QED
  BY <1>2, <1>3, <1>4 DEF Inv

\* The recovering layer is the outermost one, so none that does not recover is.
LEMMA UnwindStep ==
  ASSUME Inv, NEW r \in Requests, UnwindLayer(r)
  PROVE  Inv'
<1>1. /\ pc[r] = "panic" /\ depth[r] # 0 /\ Chain(r)[depth[r]] # "recovery"
      /\ depth' = [depth EXCEPT ![r] = @ - 1]
      /\ UNCHANGED <<named, conn, result, recorded, lines, gone, saw, idle, up>>
  BY DEF UnwindLayer, Inv, ReqInv, PlaceInv
<1>2. /\ depth[r] \in 1..Len(Chain(r)) /\ depth'[r] = depth[r] - 1
      /\ \A q \in Requests : depth'[q] \in 0..Len(Chain(q))
      /\ depth' \in [Requests -> Nat]
  BY <1>1, OneLess
<1>3. depth[r] > 1
  BY <1>1, <1>2, ChainFacts DEF Requests
<1>4. UNCHANGED <<pc, told, alive>>
  BY <1>3 DEF UnwindLayer
<1>5. TypeInv'
  <2>1. Held' = Held
    BY <1>1 DEF Held
  <2> QED
    BY <1>1, <1>2, <1>4, <2>1 DEF Inv, TypeInv, TypeOK
<1>6. ReqInv(r)'
  <2>1. ReqInv(r)
    BY DEF Inv
  <2>2. PlaceInv(r)'
    BY <1>1, <1>2, <1>3, <1>4, <2>1 DEF ReqInv, PlaceInv
  <2>3. SawInv(r)'
    BY <1>1, <1>4, <2>1 DEF ReqInv, SawInv, Serving
  <2> QED
    BY <1>1, <1>4, <2>1, <2>2, <2>3 DEF ReqInv, HttpInv, GrpcInv
<1>7. ASSUME NEW q \in Requests, q # r PROVE ReqInv(q)'
  BY <1>1, <1>4, <1>7, Untouched DEF Inv, TypeInv, TypeOK
<1> QED
  BY <1>5, <1>6, <1>7 DEF Inv

LEMMA RecoverStep ==
  ASSUME Inv, NEW r \in Requests, Recover(r)
  PROVE  Inv'
<1>0. /\ pc[r] = "panic" /\ conn[r] = "none"
      /\ depth[r] # 0 /\ Chain(r)[depth[r]] = "recovery"
      /\ depth' = [depth EXCEPT ![r] = @ - 1]
      /\ UNCHANGED <<named, conn, gone, saw, idle, up, alive>>
  BY DEF Recover, Inv, ReqInv, PlaceInv
<1>1. /\ depth[r] \in 1..Len(Chain(r)) /\ depth'[r] = depth[r] - 1
      /\ \A q \in Requests : depth'[q] \in 0..Len(Chain(q))
      /\ depth' \in [Requests -> Nat]
  BY <1>0, OneLess
<1>2. depth[r] = 1
  BY <1>0, <1>1, ChainFacts DEF Requests
<1>3. pc' = [pc EXCEPT ![r] = "done"]
  BY <1>2 DEF Recover, Out, Goto
<1>4. Held' = Held
  BY <1>0 DEF Held
<1>5. ReqInv(r) /\ pc'[r] = "done" /\ depth'[r] = 0
  BY <1>1, <1>2, <1>3 DEF Inv, TypeInv, TypeOK
<1>6. PlaceInv(r)'
  BY <1>0, <1>5 DEF PlaceInv
<1>7. CASE r \in HttpRequests
  <2>1. /\ Log(r, Line("panic", ContextId(r, 0), "none"))
        /\ told' = [told EXCEPT ![r] = IF @ = "none" THEN "500" ELSE @]
        /\ UNCHANGED <<recorded, result>>
    BY <1>2, <1>7 DEF Recover, WriteHeader
  <2>2. ContextId(r, 0) \in {"own", "unknown", "none"}
    BY DEF ContextId
  <2>3. TypeInv'
    <3>1. lines' \in [Requests -> SUBSET Lines]
      BY <2>1, <2>2 DEF Inv, TypeInv, Log, Line, Lines, Statuses, HttpStatuses
    <3>2. told' \in [Requests -> HttpStatuses \cup {"ok", "error"}]
      BY <2>1 DEF Inv, TypeInv, TypeOK, HttpStatuses
    <3> QED
      BY <1>0, <1>1, <1>3, <1>4, <2>1, <3>1, <3>2 DEF Inv, TypeInv, TypeOK
  <2>4. /\ lines'[r] = lines[r] \cup {Line("panic", ContextId(r, 0), "none")}
        /\ told'[r] = IF told[r] = "none" THEN "500" ELSE told[r]
    BY <2>1 DEF Log, Inv, TypeInv, TypeOK
  <2>5. SawInv(r)'
    <3>1. result'[r] = "ok" \/ told'[r] = "200" => TRUE \in saw[r]
      <4>1. told'[r] = "200" => told[r] = "200"
        BY <2>4
      <4>2. result'[r] = result[r]
        BY <2>1
      <4> QED
        BY <1>5, <4>1, <4>2 DEF ReqInv, SawInv
    <3> QED
      BY <1>0, <1>5, <3>1 DEF SawInv, Serving
  <2>6. HttpInv(r)'
    <3>1. \A l \in lines'[r] : l.event = "request" => l \in lines[r]
      BY <2>4 DEF Line
    <3>2. Line("panic", ContextId(r, 0), "none").event = "panic"
      BY DEF Line
    <3> QED
      BY <1>5, <1>7, <2>4, <3>1, <3>2 DEF ReqInv, HttpInv
  <2>7. ASSUME NEW q \in Requests, q # r PROVE ReqInv(q)'
    BY <1>0, <1>3, <2>1, <2>7, Untouched DEF Inv, TypeInv, TypeOK, Log
  <2> QED
    BY <1>6, <1>7, <2>3, <2>5, <2>6, <2>7, TransportAssumption DEF Inv, ReqInv
<1>8. CASE r \notin HttpRequests
  <2>1. /\ Log(r, Line("panic", "none", "none"))
        /\ result' = [result EXCEPT ![r] = "error"]
        /\ told' = [told EXCEPT ![r] = "error"]
        /\ UNCHANGED recorded
    BY <1>2, <1>8 DEF Recover
  <2>2. TypeInv'
    <3>1. lines' \in [Requests -> SUBSET Lines]
      BY <2>1 DEF Inv, TypeInv, Log, Line, Lines, Statuses, HttpStatuses
    <3> QED
      BY <1>0, <1>1, <1>3, <1>4, <2>1, <3>1 DEF Inv, TypeInv, TypeOK
  <2>3. /\ lines'[r] = lines[r] \cup {Line("panic", "none", "none")}
        /\ told'[r] = "error" /\ result'[r] = "error"
    BY <2>1 DEF Log, Inv, TypeInv, TypeOK
  <2>4. SawInv(r)'
    BY <1>0, <1>5, <2>3 DEF ReqInv, SawInv, Serving
  <2>5. lines[r] = {}
    BY <1>0, <1>5, <1>8 DEF ReqInv, GrpcInv, Requests
  <2>6. GrpcInv(r)'
    BY <1>5, <2>3, <2>5 DEF GrpcInv
  <2>7. ASSUME NEW q \in Requests, q # r PROVE ReqInv(q)'
    BY <1>0, <1>3, <2>1, <2>7, Untouched DEF Inv, TypeInv, TypeOK, Log
  <2> QED
    BY <1>6, <1>8, <2>2, <2>4, <2>6, <2>7 DEF Inv, ReqInv
<1> QED
  BY <1>7, <1>8

LEMMA GiveUpStep ==
  ASSUME Inv, NEW r \in Requests, GiveUp(r)
  PROVE  Inv'
<1>1. /\ gone' = gone \cup {r}
      /\ UNCHANGED <<pc, depth, named, conn, result, told, recorded, lines, saw, idle,
                     up, alive>>
  BY DEF GiveUp
<1>2. Held' = Held
  BY <1>1 DEF Held
<1>3. TypeInv'
  BY <1>1, <1>2 DEF Inv, TypeInv, TypeOK
<1> QED
  BY <1>1, <1>3, Untouched DEF Inv

LEMMA DatabaseStep ==
  ASSUME Inv, Outage \/ Recovery
  PROVE  Inv'
<1>1. /\ up' = ~up /\ See(up')
      /\ up' \in BOOLEAN
      /\ \/ /\ up
            /\ conn' = [r \in Requests |-> IF r \in Held THEN "broken" ELSE "none"]
            /\ idle' \in idle..(MaxConns - Cardinality(Held))
         \/ ~up /\ UNCHANGED <<conn, idle>>
      /\ UNCHANGED <<pc, depth, named, result, told, recorded, lines, gone, alive>>
  <2>1. CASE Outage
    BY <2>1 DEF Outage
  <2>2. CASE Recovery
    BY <2>2 DEF Recovery
  <2> QED
    BY <2>1, <2>2
<1>2. Held' = Held
  BY <1>1 DEF Held
<1>3. /\ saw' \in [Requests -> SUBSET BOOLEAN]
      /\ \A r \in Requests : /\ saw[r] \subseteq saw'[r]
                             /\ r \in Serving => up' \in saw'[r]
  BY <1>1 DEF See, Inv, TypeInv
<1>4. TypeInv'
  <2>1. Cardinality(Held) \in Nat /\ MaxConns \in Nat
    BY HeldFinite, TransportAssumption
  <2>2. idle' \in 0..MaxConns /\ Cardinality(Held') + idle' <= MaxConns
    BY <1>1, <1>2, <2>1 DEF Inv, TypeInv, TypeOK
  <2>3. conn' \in [Requests -> {"none", "good", "broken"}]
    BY <1>1 DEF Inv, TypeInv, TypeOK
  <2> QED
    BY <1>1, <1>3, <2>2, <2>3 DEF Inv, TypeInv, TypeOK
<1>5. ASSUME NEW r \in Requests PROVE ReqInv(r)'
  <2>1. ReqInv(r) /\ conn[r] \in {"none", "good", "broken"}
    BY DEF Inv, TypeInv, TypeOK
  <2>2. /\ conn'[r] # "none" => conn[r] # "none"
        /\ conn'[r] # "good"
    <3>1. ~up => conn[r] # "good"
      BY <2>1 DEF ReqInv, SawInv
    <3> QED
      BY <1>1, <3>1 DEF Held
  <2>3. PlaceInv(r)'
    BY <1>1, <2>1, <2>2 DEF ReqInv, PlaceInv
  <2>4. SawInv(r)'
    BY <1>1, <1>3, <2>1, <2>2 DEF ReqInv, SawInv, Serving
  <2> QED
    BY <1>1, <2>1, <2>3, <2>4 DEF ReqInv, HttpInv, GrpcInv
<1> QED
  BY <1>4, <1>5 DEF Inv

LEMMA InvHolds == Inv /\ [Next]_vars => Inv'
<1> SUFFICES ASSUME Inv, [Next]_vars PROVE Inv'
  OBVIOUS
<1>1. ASSUME NEW r \in Requests, Arrive(r) PROVE Inv'
  BY <1>1, ArriveStep
<1>2. ASSUME NEW r \in Requests, Serve(r) PROVE Inv'
  BY <1>2, EnterStep, HandleStep, AcquireStep, QueryStep, RespondStep, EncodeStep,
     LeaveStep, UnwindStep, RecoverStep DEF Serve
<1>3. ASSUME NEW r \in Requests, Panic(r) PROVE Inv'
  BY <1>3, PanicStep
<1>4. ASSUME NEW r \in Requests, GiveUp(r) PROVE Inv'
  BY <1>4, GiveUpStep
<1>5. CASE Outage \/ Recovery
  BY <1>5, DatabaseStep
<1>6. CASE UNCHANGED vars
  <2>1. Held' = Held
    BY <1>6 DEF vars, reqVars, Held
  <2>2. TypeInv'
    BY <1>6, <2>1 DEF vars, reqVars, Inv, TypeInv, TypeOK
  <2> QED
    BY <1>6, <2>2, Untouched DEF vars, reqVars, Inv
<1> QED
  BY <1>1, <1>2, <1>3, <1>4, <1>5, <1>6 DEF Next

THEOREM InvAlways == Spec => []Inv
  BY InitInv, InvHolds, PTL DEF Spec

-----------------------------------------------------------------------------
(* What follows. *)

\* The pool never has more connections than it may, in use or idle, and no
\* request is inside of a layer that its chain does not have.
THEOREM TransportTypeCorrect == Spec => []TypeOK
  BY InvImplies, InvAlways, PTL

\* Each status in the log is the one the client was told, and no request ends
\* without a line that says how.
THEOREM LogCorrect == Spec => []LogTellsReplies
  BY InvImplies, InvAlways, PTL

\* A health check that says healthy had Postgres within reach, and a gRPC call
\* that succeeded did not panic.
THEOREM HealthCorrect == Spec => []HealthTrue
  BY InvImplies, InvAlways, PTL

-----------------------------------------------------------------------------
(* Panics. *)

\* Both chains recover in their outermost layer, so no panic passes them all;
\* a request past its handler has a result.  The line of an HTTP panic is
\* written where no layer has put an identifier into the context.
PanicInv(r) ==
  /\ told[r] # "aborted"
  /\ r \in GrpcRequests /\ pc[r] = "leave" => result[r] # "none"
  /\ pc[r] = "done" => told[r] # "none"
  /\ r \in HttpRequests => \A l \in lines[r] : l.event = "panic" => l.id = "unknown"

PanicsInv == alive /\ \A r \in Requests : PanicInv(r)

\* What PanicInv is about does not change.
LEMMA PanicUntouched ==
  ASSUME NEW r \in Requests, PanicInv(r), told'[r] = told[r], result'[r] = result[r],
         lines'[r] = lines[r], pc'[r] \notin {"leave", "done"} \/ pc'[r] = pc[r]
  PROVE  PanicInv(r)'
BY DEF PanicInv

\* A step of one request, seen from the others and from itself.
LEMMA PanicsStep ==
  ASSUME Inv, PanicsInv, NEW r \in Requests, Arrive(r) \/ Serve(r) \/ Panic(r) \/ GiveUp(r)
  PROVE  PanicsInv'
<1> USE DEF Goto, Log, WriteHeader, Out
<1>1. /\ TypeOK /\ PanicInv(r) /\ ReqInv(r) /\ alive
      /\ lines \in [Requests -> SUBSET Lines] /\ depth[r] \in Nat
  BY DEF Inv, TypeInv, PanicsInv
<1>2. ASSUME NEW q \in Requests, q # r PROVE PanicInv(q)'
  <2>1. /\ pc'[q] = pc[q] /\ told'[q] = told[q] /\ result'[q] = result[q]
        /\ lines'[q] = lines[q]
    BY <1>1, <1>2 DEF Arrive, Serve, Enter, Handle, Acquire, Query, Respond, Encode, Leave,
       UnwindLayer, Recover, Panic, GiveUp, TypeOK
  <2> QED BY <1>2, <2>1, PanicUntouched DEF PanicsInv
<1>3. PanicInv(r)' /\ alive'
  <2>1. CASE Arrive(r)
    BY <1>1, <2>1 DEF Arrive, PanicInv, TypeOK
  <2>2. CASE Enter(r)
    <3>1. /\ pc[r] = "enter" /\ UNCHANGED <<pc, result, told, alive>>
          /\ \/ lines'[r] = lines[r] \cup {Line("started", "own", "none")}
             \/ lines'[r] = lines[r]
      BY <1>1, <2>2 DEF Enter
    <3> QED BY <1>1, <3>1 DEF PanicInv, Line
  <2>8. CASE Handle(r) \/ Acquire(r) \/ Query(r)
    <3>1. /\ pc'[r] \in {"acquire", "query", "respond"} /\ UNCHANGED <<told, lines, alive>>
      BY <1>1, <2>8 DEF Handle, Acquire, Query, TypeOK
    <3> QED BY <1>1, <3>1 DEF PanicInv
  <2>9. CASE Panic(r) \/ GiveUp(r)
    <3>1. /\ pc'[r] = "panic" \/ pc'[r] = pc[r]
          /\ UNCHANGED <<told, lines, result, alive>>
      BY <1>1, <2>9 DEF Panic, GiveUp, TypeOK
    <3> QED BY <1>1, <3>1, PanicUntouched
  <2>3. CASE Respond(r)
    BY <1>1, <2>3 DEF Respond, Health, PanicInv, TypeOK, ReqInv, PlaceInv
  <2>4. CASE Encode(r)
    <3>1. /\ pc'[r] = "leave" /\ r \in HttpRequests /\ r \notin GrpcRequests
          /\ UNCHANGED <<told, result, alive>>
      BY <1>1, <2>4, TransportAssumption DEF Encode, TypeOK, ReqInv, PlaceInv
    <3>2. \/ lines'[r] = lines[r] \cup {Line("request", ContextId(r, depth[r]), Health(result[r]))}
          \/ lines'[r] = lines[r]
      BY <1>1, <2>4 DEF Encode
    <3> QED BY <1>1, <3>1, <3>2 DEF PanicInv, Line
  <2>5. CASE Leave(r)
    BY <1>1, <2>5 DEF Leave, PanicInv, TypeOK, ReqInv, HttpInv, Line, Requests
  <2>6. CASE UnwindLayer(r)
    <3>1. depth[r] > 1 /\ pc[r] = "panic"
      BY <1>1, <2>6, ChainFacts DEF UnwindLayer, ReqInv, PlaceInv
    <3>2. UNCHANGED <<pc, told, alive, result, lines>>
      BY <2>6, <3>1 DEF UnwindLayer
    <3> QED BY <1>1, <3>1, <3>2 DEF PanicInv
  <2>7. CASE Recover(r)
    <3>1. depth[r] = 1 /\ pc'[r] = "done" /\ alive' = alive
      <4>1. depth[r] \in 1..Len(Chain(r)) /\ Chain(r)[depth[r]] = "recovery"
        BY <1>1, <2>7, ChainFacts DEF Recover, TypeOK, ReqInv, PlaceInv
      <4>2. depth[r] = 1
        BY <4>1, ChainFacts DEF Requests
      <4> QED BY <1>1, <2>7, <4>2 DEF Recover, TypeOK
    <3>2. CASE r \in HttpRequests
      <4>1. /\ lines'[r] = lines[r] \cup {Line("panic", ContextId(r, 0), "none")}
            /\ told'[r] = IF told[r] = "none" THEN "500" ELSE told[r]
        BY <1>1, <2>7, <3>1, <3>2 DEF Recover, TypeOK
      <4>2. ContextId(r, 0) = "unknown"
        BY DEF ContextId
      <4>3. \A l \in lines'[r] : l.event = "panic" => l.id = "unknown"
        BY <1>1, <3>2, <4>1, <4>2 DEF PanicInv, Line
      <4>4. told'[r] \notin {"none", "aborted"}
        BY <1>1, <4>1 DEF PanicInv
      <4> QED BY <1>1, <3>1, <4>3, <4>4 DEF PanicInv
    <3>3. CASE r \notin HttpRequests
      <4>1. told'[r] = "error"
        BY <1>1, <2>7, <3>1, <3>3 DEF Recover, TypeOK
      <4> QED BY <1>1, <3>1, <3>3, <4>1 DEF PanicInv
    <3> QED BY <1>1, <3>1, <3>2, <3>3
  <2> QED BY <2>1, <2>2, <2>3, <2>4, <2>5, <2>6, <2>7,
               <2>8, <2>9 DEF Serve
<1> QED BY <1>2, <1>3 DEF PanicsInv

LEMMA PanicsHold == Spec => []PanicsInv
<1>1. Init => PanicsInv
  BY DEF Init, PanicsInv, PanicInv
<1>2. ASSUME Inv, PanicsInv, [Next]_vars PROVE PanicsInv'
  <2>1. CASE Outage \/ Recovery \/ UNCHANGED vars
    BY <1>2, <2>1, PanicUntouched DEF Outage, Recovery, vars, reqVars, PanicsInv
  <2> QED BY <1>2, <2>1, PanicsStep DEF Next
<1> QED BY <1>1, <1>2, InvAlways, PTL DEF Spec

\* A panic harms nobody but its own request, and that one is answered.
THEOREM PanicsCorrect == Spec => []PanicsContained
<1>1. PanicsInv => PanicsContained
  BY DEF PanicsInv, PanicInv, PanicsContained
<1> QED BY <1>1, PanicsHold, PTL

\* The line of an HTTP panic never names its request, whatever panics: what
\* PanicLinesNamed asks for only holds when nothing does.
THEOREM PanicLinesNameless ==
  Spec => [](\A r \in HttpRequests : \A l \in lines[r] : l.event = "panic" => l.id # "own")
<1>1. PanicsInv => \A r \in HttpRequests : \A l \in lines[r] : l.event = "panic" => l.id # "own"
  BY DEF PanicsInv, PanicInv, Requests
<1> QED BY <1>1, PanicsHold, PTL
=============================================================================
