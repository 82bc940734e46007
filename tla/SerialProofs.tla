------------------------------ MODULE SerialProofs ------------------------------
(***************************************************************************)
(* What CachedTasks promises while nothing fails and clients wait for a    *)
(* request before they send a conflicting one, for every value of the      *)
(* other constants.                                                        *)
(***************************************************************************)
EXTENDS CachedTasksProofs

-----------------------------------------------------------------------------
(* The inductive invariant.  Coherence follows from what handlers are about  *)
(* to put in the cache, which is the table's present value because nobody    *)
(* else may write it.                                                        *)

NoRace == \A p, q \in Handlers : p # q => ~Conflict(req[p], req[q])

\* What a handler has read or written is what the table holds.
UpToDate(p) ==
  LET r == req[p] IN
  /\ pc[p] \in {"cacheFill", "cacheSet"} => task[p] = db[r.id]
  /\ pc[p] = "dbUpdate" => db[r.id] # NoTask /\ task[p] = ApplyPatch(db[r.id], r.patch)
  /\ pc[p] = "listFill" => tasks[p] = db
  /\ code[p] = "OK" /\ r.op = "Get" => task[p] = db[r.id]
  /\ code[p] = "OK" /\ r.op = "List" => tasks[p] = db

Tracked(key) == Coherent(key) \/ \E p \in Handlers : Behind(p, key)

CalmInv ==
  /\ late = {}
  /\ NoRace
  /\ \A p \in Handlers : UpToDate(p)
  /\ \A key \in Keys : Tracked(key)

SerialInv == Serial => CalmInv

-----------------------------------------------------------------------------
(* What cannot happen without faults, and who cannot be in the way. *)

LEMMA NothingFails ==
  ASSUME Serial
  PROVE  /\ \A p, op : ~DbFails(p, op)
         /\ ~Crash
         /\ \A key, value : RedisWrite(key, value) =>
              redis' = [redis EXCEPT ![key] = value] /\ late' = late
BY DEF Serial, DbFails, Crash, RedisWrite

\* Where a handler is tells what its request does.
LEMMA PlaceTells ==
  ASSUME TypeInv, NEW p \in Handlers
  PROVE  /\ pc[p] \in {"dbInsert", "dbUpdate", "dbDelete", "cacheSet", "cacheDel", "listDel"} =>
              req[p].op \in {"Create", "Update", "Delete"} /\ req[p].id \in Ids
         /\ pc[p] \in {"cacheGet", "dbGet", "cacheFill"} =>
              req[p].op \in {"Get", "Update"} /\ req[p].id \in Ids
         /\ pc[p] \in {"listGet", "dbList", "listFill"} => req[p].op = "List"
         /\ pc[p] # "done" => code[p] # "OK"
BY DEF TypeInv, TypeOK, ControlInv, InPlace, Ops

\* A key a handler reads is one nobody else is behind on.
LEMMA ReadsCoherent ==
  ASSUME TypeInv, CalmInv, NEW p \in Handlers, NEW key \in Keys,
         \/ pc[p] = "cacheGet" /\ key = req[p].id
         \/ pc[p] = "listGet" /\ key = ListKey
  PROVE  Coherent(key)
<1>1. key = ListKey => pc[p] = "listGet"
  BY AboutOneTask
<1>2. ASSUME NEW q \in Handlers, Behind(q, key) PROVE FALSE
  <2>1. q # p /\ pc[q] \in {"cacheSet", "cacheDel", "listDel"}
    BY <1>1, <1>2 DEF Behind
  <2>2. req[q].op \in {"Create", "Update", "Delete"} /\ req[q].op # "none"
    BY <2>1, PlaceTells
  <2>3. req[p].op # "none" /\ (req[p].op = "List" \/ req[p].id = req[q].id)
    BY <1>1, <1>2, PlaceTells DEF Behind
  <2> QED BY <2>1, <2>2, <2>3 DEF CalmInv, NoRace, Conflict, Writes
<1> QED BY <1>2 DEF CalmInv, Tracked

-----------------------------------------------------------------------------
(* Steps that leave the table alone. *)

\* The other handlers' part of the invariant.
LEMMA OthersUpToDate ==
  ASSUME TypeInv, CalmInv, NEW p \in Handlers, Arrive(p) \/ Step(p), db' = db,
         UpToDate(p)'
  PROVE  \A q \in Handlers : UpToDate(q)'
BY OthersStay DEF CalmInv, UpToDate, ApplyPatch

\* Keys nobody writes, and keys that get the table's value.
LEMMA KeysTracked ==
  ASSUME TypeInv, CalmInv, NEW p \in Handlers, Arrive(p) \/ Step(p), db' = db,
         \A key \in Keys :
           \/ redis'[key] \in {Miss, Current(key)}
           \/ Behind(p, key)'
           \/ redis'[key] = redis[key] /\ ~Behind(p, key)
  PROVE  \A key \in Keys : Tracked(key)'
<1> SUFFICES ASSUME NEW key \in Keys PROVE Tracked(key)'
  OBVIOUS
<1>1. CASE redis'[key] \in {Miss, Current(key)}
  BY <1>1 DEF Tracked, Coherent, Current
<1>2. CASE Behind(p, key)'
  BY <1>2 DEF Tracked
<1>3. CASE redis'[key] = redis[key] /\ ~Behind(p, key)
  <2>1. CASE Coherent(key)
    BY <1>3, <2>1 DEF Tracked, Coherent, Current
  <2>2. CASE \E q \in Handlers : Behind(q, key)
    <3>1. PICK q \in Handlers : Behind(q, key) /\ q # p
      BY <1>3, <2>2
    <3>2. Behind(q, key)'
      BY <3>1, OthersStay DEF Behind
    <3> QED BY <3>2 DEF Tracked
  <2> QED BY <2>1, <2>2 DEF CalmInv, Tracked
<1> QED BY <1>1, <1>2, <1>3

LEMMA RaceStays ==
  ASSUME TypeInv, NoRace, \A p \in Handlers : req'[p] \in {req[p], NoRequest}
  PROVE  NoRace'
BY DEF NoRace, Conflict, NoRequest, Request, Writes

LEMMA StartCalm ==
  ASSUME TypeInv, Serial, CalmInv, NEW p \in Handlers, NEW r,
         NEW next \in {"dbInsert", "cacheGet", "dbDelete", "listGet"}, NEW row,
         Start(p, r, next, row), Arrive(p)
  PROVE  CalmInv'
<1>1. /\ late' = late /\ db' = db /\ redis' = redis /\ pc[p] = "idle"
      /\ pc'[p] = next /\ code'[p] # "OK" /\ req' = [req EXCEPT ![p] = r]
  BY PlaceTells DEF Start, GoOn, tableVars, cacheVars, TypeInv, TypeOK
<1>2. NoRace'
  <2>1. \A q \in Handlers : ~Conflict(r, req[q])
    BY DEF Start, Serial
  <2>2. \A q \in Handlers : ~Conflict(req[q], r)
    BY <2>1 DEF Conflict
  <2> QED BY <1>1, <2>1, <2>2 DEF NoRace, CalmInv, TypeInv, TypeOK, Conflict, Writes
<1>3. UpToDate(p)'
  BY <1>1 DEF UpToDate
<1>4. \A key \in Keys : ~Behind(p, key)
  BY <1>1 DEF Behind
<1> QED BY <1>1, <1>2, <1>3, <1>4, OthersUpToDate, KeysTracked DEF CalmInv

LEMMA ArriveCalm ==
  ASSUME TypeInv, Serial, CalmInv, NEW p \in Handlers, Arrive(p)
  PROVE  CalmInv'
<1>1. CASE Reject(p)
  <2>1. /\ late' = late /\ db' = db /\ redis' = redis /\ pc[p] = "idle" /\ req' = req
        /\ pc'[p] = "done" /\ code'[p] = "InvalidArgument"
    BY <1>1 DEF Reject, ReplyError, tableVars, cacheVars, TypeInv, TypeOK
  <2>2. UpToDate(p)' /\ NoRace' /\ \A key \in Keys : ~Behind(p, key)
    BY <2>1, RaceStays DEF UpToDate, Behind, CalmInv
  <2> QED BY <2>1, <2>2, OthersUpToDate, KeysTracked DEF CalmInv
<1>2. CASE CreateTask(p) /\ ~Reject(p)
  <2>1. PICK title \in Titles, id \in Ids :
          Start(p, Request("Create", id, [title |-> title, completed |-> FALSE]),
                "dbInsert", NewTask(title))
    BY <1>2 DEF CreateTask
  <2> QED BY <2>1, StartCalm
<1>3. CASE GetTask(p)
  BY <1>3, StartCalm DEF GetTask
<1>4. CASE UpdateTask(p)
  BY <1>4, StartCalm DEF UpdateTask
<1>5. CASE DeleteTask(p)
  BY <1>5, StartCalm DEF DeleteTask
<1>6. CASE ListTasks(p)
  BY <1>6, StartCalm DEF ListTasks
<1> QED BY <1>1, <1>2, <1>3, <1>4, <1>5, <1>6 DEF Arrive

-----------------------------------------------------------------------------
\* GetByID hands out what the table holds.
LEMMA FoundUpToDate ==
  ASSUME TypeInv, NEW p \in Handlers, NEW row \in Row, row = db[req[p].id],
         pc[p] \in {"cacheGet", "cacheFill"}, Found(p, row), req' = req, db' = db
  PROVE  UpToDate(p)'
<1>1. row # NoTask /\ code[p] # "OK"
  BY ConstantsAssumption, PlaceTells
<1>2. CASE req[p].op = "Get"
  BY <1>2 DEF Found, Reply, UpToDate, TypeInv, TypeOK
<1>3. CASE req[p].op # "Get"
  BY <1>1, <1>3 DEF Found, GoOn, UpToDate, ApplyPatch, TypeInv, TypeOK
<1> QED BY <1>2, <1>3

LEMMA ReadCalm ==
  ASSUME TypeInv, Serial, CalmInv, NEW p \in Handlers, Step(p),
         CacheGet(p) \/ DbGet(p) \/ ListGet(p) \/ DbList(p) \/ Return(p)
  PROVE  CalmInv'
<1> DEFINE id == req[p].id
<1>1. /\ late' = late /\ db' = db /\ redis' = redis
      /\ \A q \in Handlers : req'[q] \in {req[q], NoRequest}
      /\ \A key \in Keys : ~Behind(p, key)
  BY DEF CacheGet, DbGet, ListGet, DbList, Return, tableVars, cacheVars, Behind, TypeInv,
         TypeOK
<1>2. SUFFICES UpToDate(p)'
  BY <1>1, RaceStays, OthersUpToDate, KeysTracked DEF CalmInv
<1>3. CASE CacheGet(p)
  <2>1. pc[p] = "cacheGet" /\ id \in Keys /\ id # ListKey /\ req' = req /\ code[p] # "OK"
    BY <1>3, AboutOneTask, PlaceTells DEF CacheGet, Keys
  <2>2. CASE RedisHits(id) /\ Found(p, redis[id])
    <3>1. redis[id] = db[id] /\ redis[id] \in Row
      BY <2>1, <2>2, ReadsCoherent
         DEF RedisHits, Coherent, Current, TypeInv, TypeOK, CacheValue
    <3> QED BY <1>1, <2>1, <2>2, <3>1, FoundUpToDate
  <2>3. CASE GoOn(p, "dbGet", NoTask)
    BY <2>1, <2>3 DEF GoOn, UpToDate, TypeInv, TypeOK
  <2> QED BY <1>3, <2>2, <2>3 DEF CacheGet
<1>4. CASE DbGet(p)
  <2>1. pc[p] = "dbGet" /\ req' = req /\ code[p] # "OK"
    BY <1>4, PlaceTells DEF DbGet
  <2>2. CASE GoOn(p, "cacheFill", db[id])
    BY <1>1, <2>1, <2>2 DEF GoOn, UpToDate, TypeInv, TypeOK
  <2>3. CASE ReplyError(p, StatusOf("get_task_by_id", NoRows))
    BY <2>1, <2>3, ErrorIsNotOK DEF ReplyError, StatusOf, UpToDate, TypeInv, TypeOK
  <2> QED BY <1>4, <2>2, <2>3, NothingFails DEF DbGet
<1>5. CASE ListGet(p)
  <2>1. /\ pc[p] = "listGet" /\ req' = req /\ code[p] # "OK" /\ req[p].op = "List"
        /\ ListKey \in Keys
    BY <1>5, PlaceTells DEF ListGet, Keys
  <2>2. CASE /\ RedisHits(ListKey)
             /\ tasks' = [tasks EXCEPT ![p] = redis[ListKey]]
             /\ Reply(p, NoTask)
    <3>1. redis[ListKey] = db
      BY <2>1, <2>2, ReadsCoherent DEF RedisHits, Coherent, Current
    <3> QED BY <1>1, <2>1, <2>2, <3>1 DEF Reply, UpToDate, TypeInv, TypeOK
  <2>3. CASE GoOn(p, "dbList", NoTask)
    BY <2>1, <2>3 DEF GoOn, UpToDate, TypeInv, TypeOK
  <2> QED BY <1>5, <2>2, <2>3 DEF ListGet
<1>6. CASE DbList(p)
  <2>1. /\ pc[p] = "dbList" /\ req' = req /\ code[p] # "OK"
        /\ tasks' = [tasks EXCEPT ![p] = db] /\ GoOn(p, "listFill", NoTask)
    BY <1>6, PlaceTells, NothingFails DEF DbList
  <2> QED BY <1>1, <2>1 DEF GoOn, UpToDate, TypeInv, TypeOK
<1>7. CASE Return(p)
  BY <1>7 DEF Return, UpToDate, TypeInv, TypeOK
<1> QED BY <1>3, <1>4, <1>5, <1>6, <1>7

\* The calls that put a value in Redis, or remove one.
LEMMA CacheCalm ==
  ASSUME HistoryInv, Serial, CalmInv, NEW p \in Handlers, Step(p),
         CacheFill(p) \/ CacheSet(p) \/ CacheDel(p) \/ ListDel(p) \/ ListFill(p)
  PROVE  CalmInv'
<1> DEFINE id == req[p].id
<1>1. TypeInv /\ TypeOK /\ UpToDate(p) /\ DOMAIN redis = Keys /\ ListKey \in Keys
  BY DEF HistoryInv, TypeInv, TypeOK, CalmInv, Keys
<1>2. /\ late' = late /\ db' = db /\ req' = req /\ tasks' = tasks
      /\ \A q \in Handlers : req'[q] \in {req[q], NoRequest}
  BY NothingFails DEF CacheFill, CacheSet, CacheDel, ListDel, ListFill, tableVars
<1>3. SUFFICES /\ UpToDate(p)'
               /\ \A key \in Keys :
                    \/ redis'[key] \in {Miss, Current(key)}
                    \/ Behind(p, key)'
                    \/ redis'[key] = redis[key] /\ ~Behind(p, key)
  BY <1>1, <1>2, RaceStays, OthersUpToDate, KeysTracked DEF CalmInv
<1>4. CASE CacheFill(p)
  <2>1. /\ pc[p] = "cacheFill" /\ Found(p, task[p]) /\ task[p] = db[id] /\ task[p] \in Row
        /\ id # ListKey /\ redis' = [redis EXCEPT ![id] = db[id]]
    BY <1>1, <1>4, AboutOneTask, NothingFails DEF CacheFill, UpToDate, TypeOK
  <2>2. UpToDate(p)'
    BY <1>1, <1>2, <2>1, FoundUpToDate
  <2> QED BY <1>1, <2>1, <2>2 DEF Current, Behind
<1>5. CASE CacheSet(p)
  <2>1. /\ pc[p] = "cacheSet" /\ GoOn(p, "listDel", task[p]) /\ task[p] = db[id]
        /\ id # ListKey /\ redis' = [redis EXCEPT ![id] = db[id]] /\ code[p] # "OK"
    BY <1>1, <1>5, AboutOneTask, NothingFails, PlaceTells DEF CacheSet, UpToDate
  <2>2. pc'[p] = "listDel" /\ code'[p] # "OK"
    BY <1>1, <2>1 DEF GoOn, TypeOK
  <2> QED BY <1>1, <2>1, <2>2 DEF Current, Behind, UpToDate
<1>6. CASE CacheDel(p)
  <2>1. /\ pc[p] = "cacheDel" /\ GoOn(p, "listDel", NoTask)
        /\ id # ListKey /\ redis' = [redis EXCEPT ![id] = Miss] /\ code[p] # "OK"
    BY <1>1, <1>6, AboutOneTask, NothingFails, PlaceTells DEF CacheDel
  <2>2. pc'[p] = "listDel" /\ code'[p] # "OK"
    BY <1>1, <2>1 DEF GoOn, TypeOK
  <2> QED BY <1>1, <2>1, <2>2 DEF Behind, UpToDate
<1>7. CASE ListDel(p)
  <2>1. /\ pc[p] = "listDel" /\ Reply(p, task[p]) /\ redis' = [redis EXCEPT ![ListKey] = Miss]
        /\ req[p].op \in {"Create", "Update", "Delete"}
    BY <1>1, <1>7, NothingFails, PlaceTells DEF ListDel
  <2>2. pc'[p] = "done" /\ UpToDate(p)'
    BY <1>1, <1>2, <2>1 DEF Reply, TypeOK, UpToDate
  <2> QED BY <1>1, <2>1, <2>2 DEF Behind
<1>8. CASE ListFill(p)
  <2>1. /\ pc[p] = "listFill" /\ Reply(p, NoTask) /\ tasks[p] = db
        /\ redis' = [redis EXCEPT ![ListKey] = db] /\ req[p].op = "List"
    BY <1>1, <1>8, NothingFails, PlaceTells DEF ListFill, UpToDate
  <2>2. UpToDate(p)'
    BY <1>1, <1>2, <2>1 DEF Reply, TypeOK, UpToDate
  <2> QED BY <1>1, <2>1, <2>2 DEF Behind, Current
<1> QED BY <1>4, <1>5, <1>6, <1>7, <1>8

-----------------------------------------------------------------------------
(* The statements. *)

\* A statement leaves its row, and its handler goes on to the cache; or it finds
\* no row to change, and its request ends.
LEMMA StatementEffect ==
  ASSUME TypeInv, Serial, NEW p \in Handlers, DbInsert(p) \/ DbUpdate(p) \/ DbDelete(p)
  PROVE  /\ cacheVars' = cacheVars /\ req' = req
         /\ \/ /\ pc[p] \in {"dbInsert", "dbUpdate"} /\ pc'[p] = "cacheSet"
               /\ task'[p] = Written(p) /\ code'[p] = code[p]
               /\ db' = [db EXCEPT ![req[p].id] = Written(p)]
            \/ /\ pc[p] = "dbDelete" /\ pc'[p] = "cacheDel" /\ code'[p] = code[p]
               /\ db' = [db EXCEPT ![req[p].id] = NoTask]
            \/ /\ pc[p] \in {"dbUpdate", "dbDelete"} /\ pc'[p] = "done"
               /\ code'[p] # "OK" /\ db' = db
<1>1. CASE DbInsert(p)
  BY <1>1, NothingFails DEF DbInsert, Commit, GoOn, TypeInv, TypeOK
<1>2. CASE DbUpdate(p)
  <2>1. pc[p] = "dbUpdate" /\ cacheVars' = cacheVars /\ req' = req
    BY <1>2 DEF DbUpdate
  <2>2. \/ Commit(req[p].id, Written(p)) /\ GoOn(p, "cacheSet", Written(p))
        \/ NoCommit /\ ReplyError(p, StatusOf("update_task", NoRows))
    <3>1. ~DbFails(p, "update_task")
      BY NothingFails
    <3> QED BY <1>2, <3>1 DEF DbUpdate
  <2>3. ASSUME Commit(req[p].id, Written(p)), GoOn(p, "cacheSet", Written(p))
        PROVE  /\ pc'[p] = "cacheSet" /\ task'[p] = Written(p) /\ code'[p] = code[p]
               /\ db' = [db EXCEPT ![req[p].id] = Written(p)]
    BY <2>1, <2>3 DEF Commit, GoOn, TypeInv, TypeOK
  <2>4. ASSUME NoCommit, ReplyError(p, StatusOf("update_task", NoRows))
        PROVE  pc'[p] = "done" /\ code'[p] # "OK" /\ db' = db
    BY <2>1, <2>4, ErrorIsNotOK DEF NoCommit, tableVars, ReplyError, StatusOf, TypeInv, TypeOK
  <2> QED BY <2>1, <2>2, <2>3, <2>4
<1>3. CASE DbDelete(p)
  <2>1. pc[p] = "dbDelete" /\ cacheVars' = cacheVars /\ req' = req
    BY <1>3 DEF DbDelete
  <2>2. \/ Commit(req[p].id, NoTask) /\ GoOn(p, "cacheDel", NoTask)
        \/ NoCommit /\ \E e : ReplyError(p, WrapRepositoryError(e))
    <3>1. ~DbFails(p, "delete_task")
      BY NothingFails
    <3> QED BY <1>3, <3>1 DEF DbDelete
  <2>3. ASSUME Commit(req[p].id, NoTask), GoOn(p, "cacheDel", NoTask)
        PROVE  /\ pc'[p] = "cacheDel" /\ code'[p] = code[p]
               /\ db' = [db EXCEPT ![req[p].id] = NoTask]
    BY <2>1, <2>3 DEF Commit, GoOn, TypeInv, TypeOK
  <2>4. ASSUME NoCommit, NEW e, ReplyError(p, WrapRepositoryError(e))
        PROVE  pc'[p] = "done" /\ code'[p] # "OK" /\ db' = db
    BY <2>1, <2>4, ErrorIsNotOK DEF NoCommit, tableVars, ReplyError, TypeInv, TypeOK
  <2> QED BY <2>1, <2>2, <2>3, <2>4
<1> QED BY <1>1, <1>2, <1>3

LEMMA StatementCalm ==
  ASSUME TypeInv, Serial, CalmInv, NEW p \in Handlers, Step(p),
         DbInsert(p) \/ DbUpdate(p) \/ DbDelete(p)
  PROVE  CalmInv'
<1> DEFINE id == req[p].id
<1>1. /\ pc[p] \in {"dbInsert", "dbUpdate", "dbDelete"} /\ code[p] # "OK" /\ id \in Ids
      /\ req[p].op \in {"Create", "Update", "Delete"}
  BY PlaceTells DEF DbInsert, DbUpdate, DbDelete
<1>2. /\ late' = late /\ redis' = redis /\ NoRace'
  BY StatementEffect, RaceStays DEF cacheVars, CalmInv
<1>3. CASE pc'[p] = "done"
  <2>1. pc[p] # "done" /\ code'[p] # "OK" /\ db' = db
    BY <1>1, <1>3, StatementEffect
  <2>2. UpToDate(p)' /\ \A key \in Keys : ~Behind(p, key)
    BY <1>1, <1>3, <2>1 DEF UpToDate, Behind
  <2> QED BY <1>2, <2>1, <2>2, OthersUpToDate, KeysTracked DEF CalmInv
<1>4. CASE pc'[p] # "done"
  <2>1. PICK row \in {Written(p), NoTask} :
          /\ db' = [db EXCEPT ![id] = row]
          /\ pc'[p] \in {"cacheSet", "cacheDel"} /\ code'[p] # "OK" /\ req' = req
          /\ pc'[p] = "cacheSet" => task'[p] = row
    BY <1>1, <1>4, StatementEffect
  <2>2. DOMAIN db = Ids
    BY DEF TypeInv, TypeOK, Table
  <2>3. UpToDate(p)'
    BY <1>1, <2>1, <2>2 DEF UpToDate
  <2>4. ASSUME NEW q \in Handlers \ {p} PROVE UpToDate(q)'
    <3>1. req[q].op = "none" \/ (req[q].id # id /\ req[q].op # "List")
      BY <1>1 DEF CalmInv, NoRace, Conflict, Writes
    <3>2. /\ pc[q] \in {"cacheFill", "dbUpdate", "cacheSet", "listFill"} => req[q].op # "none"
          /\ pc[q] = "listFill" => req[q].op = "List"
      BY PlaceTells
    <3>3. req[q].id # id => db'[req[q].id] = db[req[q].id]
      BY <2>1
    <3> QED BY <2>4, <3>1, <3>2, <3>3, OthersStay DEF CalmInv, UpToDate, ApplyPatch
  <2>5. ASSUME NEW key \in Keys PROVE Tracked(key)'
    <3>1. CASE key \in {id, ListKey}
      BY <2>1, <3>1 DEF Tracked, Behind
    <3>2. CASE key \notin {id, ListKey}
      <4>1. Coherent(key) => Coherent(key)'
        BY <1>2, <2>1, <3>2 DEF Coherent, Current
      <4>2. ASSUME NEW q \in Handlers, Behind(q, key) PROVE Behind(q, key)'
        <5>1. q # p
          BY <1>1, <4>2 DEF Behind
        <5> QED BY <4>2, <5>1, OthersStay DEF Behind
      <4> QED BY <4>1, <4>2 DEF CalmInv, Tracked
    <3> QED BY <3>1, <3>2
  <2> QED BY <1>2, <2>3, <2>4, <2>5 DEF CalmInv
<1> QED BY <1>3, <1>4

-----------------------------------------------------------------------------
(* The invariant holds. *)

LEMMA InitSerial == Init => SerialInv
BY DEF Init, SerialInv, CalmInv, NoRace, Conflict, NoRequest, Request, Writes, UpToDate,
   Tracked, Coherent

LEMMA NextSerial == HistoryInv /\ SerialInv /\ [Next]_vars => SerialInv'
<1> SUFFICES ASSUME HistoryInv, Serial, CalmInv, [Next]_vars PROVE CalmInv'
  BY DEF SerialInv, Serial
<1>1. TypeInv /\ DOMAIN redis = Keys
  BY DEF HistoryInv, TypeInv, TypeOK
<1>2. CASE UNCHANGED vars
  BY <1>2 DEF vars, tableVars, cacheVars, localVars, CalmInv, NoRace, Conflict, Writes,
     UpToDate, ApplyPatch, Tracked, Coherent, Current, Behind
<1>3. CASE \E key \in Keys : Expire(key)
  <2>1. /\ db' = db /\ late' = late /\ UNCHANGED localVars
        /\ \A k \in Keys : redis'[k] \in {redis[k], Miss}
    BY <1>1, <1>3 DEF Expire, tableVars
  <2> QED BY <2>1 DEF localVars, CalmInv, NoRace, Conflict, Writes, UpToDate, ApplyPatch,
          Tracked, Coherent, Current, Behind
<1>4. CASE LateWrite
  BY <1>4 DEF LateWrite, CalmInv
<1>5. ASSUME NEW p \in Handlers, Arrive(p) \/ Step(p) PROVE CalmInv'
  BY <1>1, <1>5, ArriveCalm, ReadCalm, CacheCalm, StatementCalm DEF Step
<1> QED BY <1>2, <1>3, <1>4, <1>5, NothingFails DEF Next

LEMMA SerialCorrect == Spec => []SerialInv
BY HistoryCorrect, InitSerial, NextSerial, PTL DEF Spec

-----------------------------------------------------------------------------
(* The properties. *)

\* Without faults and races each key of the cache agrees with the table or is
\* missing, except between a statement and the cache call that follows it.
THEOREM CoherentCorrect == Spec => []SerialClientsCoherent
<1>1. SerialInv => SerialClientsCoherent
  BY DEF SerialInv, CalmInv, Tracked, SerialClientsCoherent
<1> QED BY <1>1, SerialCorrect, PTL

\* Then GetTask and ListTasks return what the table holds at that moment.
THEOREM FreshCorrect == Spec => []SerialReadsFresh
<1>1. SerialInv => SerialReadsFresh
  BY DEF SerialInv, CalmInv, UpToDate, SerialReadsFresh
<1> QED BY <1>1, SerialCorrect, PTL

\* A step that changes a task that stays in the table is an UPDATE of it, which
\* keeps the fields the request does not name.
LEMMA FieldsKept ==
  ASSUME HistoryInv, SerialInv, Serial, [Next]_vars, NEW id \in Ids,
         db[id] # NoTask, db'[id] \notin {NoTask, db[id]}
  PROVE  \E p \in Handlers :
           /\ pc[p] = "dbUpdate" /\ req[p].id = id
           /\ req[p].patch.title = Absent => db'[id].title = db[id].title
           /\ req[p].patch.completed = Absent => db'[id].completed = db[id].completed
<1>1. TypeInv /\ CreateInv /\ CalmInv
  BY DEF HistoryInv, SerialInv
<1>2. PICK p \in Handlers : DbInsert(p) \/ DbUpdate(p) \/ DbDelete(p)
  BY NothingFails
     DEF Next, Arrive, CreateTask, GetTask, UpdateTask, DeleteTask, ListTasks, Reject, Start,
         Step, CacheGet, DbGet, CacheFill, CacheSet, CacheDel, ListDel, ListGet, DbList,
         ListFill, Return, Expire, LateWrite, vars, tableVars
<1>3. DOMAIN db = Ids
  BY <1>1 DEF TypeInv, TypeOK, Table
<1>4. /\ id = req[p].id /\ pc[p] \in {"dbInsert", "dbUpdate"} /\ db'[id] = Written(p)
  BY <1>1, <1>2, <1>3, StatementEffect
<1>5. pc[p] # "dbInsert"
  BY <1>1, <1>4, PresentHasVersion DEF CreateInv
<1>6. task[p] = ApplyPatch(db[id], req[p].patch)
  BY <1>1, <1>4, <1>5 DEF CalmInv, UpToDate
<1> QED BY <1>4, <1>5, <1>6 DEF Written, ApplyPatch

LEMMA SerialStays == Serial => Serial'
BY DEF Serial

\* Then UpdateTask leaves the fields its request does not set as they are.
THEOREM UnnamedFieldsCorrect == Serial /\ Spec => UnnamedFieldsKept
<1>1. HistoryInv /\ SerialInv /\ Serial /\ [Next]_vars =>
        [\A id \in Ids :
           db[id] # NoTask /\ db'[id] \notin {NoTask, db[id]} =>
             \E p \in Handlers :
               /\ pc[p] = "dbUpdate" /\ req[p].id = id
               /\ req[p].patch.title = Absent => db'[id].title = db[id].title
               /\ req[p].patch.completed = Absent =>
                    db'[id].completed = db[id].completed]_vars
  BY FieldsKept
<1> QED BY <1>1, SerialStays, HistoryCorrect, SerialCorrect, PTL DEF Spec, UnnamedFieldsKept
=============================================================================
