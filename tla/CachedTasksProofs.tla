-------------------------- MODULE CachedTasksProofs --------------------------
(***************************************************************************)
(* Theorems about CachedTasks for every value of its constants.            *)
(***************************************************************************)
EXTENDS CachedTasks, TLAPS

\* Where a handler can be while it serves a request of each kind.
InPlace(op, at) ==
  /\ op = "none"   => at \in {"idle", "done"}
  /\ op = "Create" => at \in {"dbInsert", "cacheSet", "listDel", "done"}
  /\ op = "Get"    => at \in {"cacheGet", "dbGet", "cacheFill", "done"}
  /\ op = "Update" => at \in {"cacheGet", "dbGet", "cacheFill", "dbUpdate",
                              "cacheSet", "listDel", "done"}
  /\ op = "Delete" => at \in {"dbDelete", "cacheDel", "listDel", "done"}
  /\ op = "List"   => at \in {"listGet", "dbList", "listFill", "done"}

\* A handler is where its request takes it, a request about one task names one,
\* and there is a status exactly when the handler is done.
ControlInv ==
  \A p \in Handlers :
    /\ InPlace(req[p].op, pc[p])
    /\ req[p].op \in {"Create", "Get", "Update", "Delete"} => req[p].id \in Ids
    /\ req[p].op = "List" => req[p].id = ListKey
    /\ code[p] # "none" <=> pc[p] = "done"
    /\ req[p].op = "none" => code[p] # "OK"

TypeInv == TypeOK /\ ControlInv

-----------------------------------------------------------------------------
(* Facts about the operators. *)

LEMMA PatchedIsRow ==
  ASSUME NEW row \in Row, NEW patch \in Patch
  PROVE  ApplyPatch(row, patch) \in Row
BY DEF ApplyPatch, Row, Patch

LEMMA WrittenIsRow ==
  ASSUME NEW p, task[p] \in Row, commits \in Nat
  PROVE  /\ Written(p) \in Row
         /\ Written(p).title = task[p].title
         /\ Written(p).completed = task[p].completed
BY DEF Written, Row

LEMMA ErrorIsNotOK ==
  ASSUME NEW e
  PROVE  WrapRepositoryError(e) \in {"NotFound", "AlreadyExists", "Internal"}
BY DEF WrapRepositoryError

LEMMA PatchesTyped ==
  /\ NoPatch \in Patch
  /\ NoRequest \in [op : Ops, id : Keys, patch : Patch]
BY DEF NoPatch, NoRequest, Request, Patch, Ops, Keys

\* What RedisWrite does to the cache, whatever fails.
LEMMA RedisWriteTyped ==
  ASSUME TypeOK, NEW key \in Keys, NEW value \in CacheValue(key),
         RedisWrite(key, value)
  PROVE  /\ redis' = [k \in Keys |-> redis'[k]]
         /\ \A k \in Keys : redis'[k] \in CacheValue(k)
         /\ \A m \in late' : m \in Keys \X CacheValue(m[1])
<1>1. redis' \in {redis, [redis EXCEPT ![key] = value]}
  BY DEF RedisWrite
<1>2. late' \subseteq late \cup {<<key, value>>}
  BY DEF RedisWrite
<1>3. redis' = [k \in Keys |-> redis'[k]] /\ \A k \in Keys : redis'[k] \in CacheValue(k)
  BY <1>1 DEF TypeOK
<1>4. ASSUME NEW m \in late' PROVE m \in Keys \X CacheValue(m[1])
  BY <1>2 DEF TypeOK
<1> QED BY <1>3, <1>4

-----------------------------------------------------------------------------
(* Type correctness. *)

\* The part of TypeInv about the handlers' own state, and the part about the
\* table and the cache.
LocalsTyped ==
  /\ pc \in [Handlers -> PCs]
  /\ req \in [Handlers -> [op : Ops, id : Keys, patch : Patch]]
  /\ task \in [Handlers -> Row \cup {NoTask}]
  /\ tasks \in [Handlers -> Table \cup {Miss}]
  /\ code \in [Handlers -> Statuses]
  /\ \A p \in Handlers :
       pc[p] \in {"cacheFill", "dbInsert", "dbUpdate", "cacheSet"} => task[p] \in Row
  /\ ControlInv

TableTyped ==
  db \in Table /\ past \subseteq Table /\ db \in past /\ commits \in Nat

CacheTyped ==
  /\ redis = [key \in Keys |-> redis[key]]
  /\ \A key \in Keys : redis[key] \in CacheValue(key)
  /\ \A m \in late : m \in Keys \X CacheValue(m[1])

LEMMA TypeParts == TypeInv <=> LocalsTyped /\ TableTyped /\ CacheTyped
BY DEF TypeInv, TypeOK, LocalsTyped, TableTyped, CacheTyped

\* The same about the next state, in the form in which steps need it.
LEMMA TypePartsNext == LocalsTyped' /\ TableTyped' /\ CacheTyped' => TypeInv'
BY DEF TypeInv, TypeOK, LocalsTyped, TableTyped, CacheTyped

LEMMA InitType == Init => TypeInv
<1> SUFFICES ASSUME Init PROVE LocalsTyped /\ TableTyped /\ CacheTyped
  BY TypeParts
<1>1. LocalsTyped
  BY PatchesTyped DEF Init, LocalsTyped, ControlInv, PCs, Statuses, InPlace, Ops,
     NoRequest, Request
<1>2. TableTyped
  BY DEF Init, TableTyped, Table
<1>3. CacheTyped
  BY DEF Init, CacheTyped, CacheValue
<1> QED BY <1>1, <1>2, <1>3

\* One statement keeps the table typed.
LEMMA CommitTyped ==
  ASSUME TableTyped, NEW id \in Ids, NEW row \in Row \cup {NoTask}, Commit(id, row)
  PROVE  TableTyped'
BY DEF TableTyped, Commit, Table

\* Moving a handler on, to a place its request can be in, keeps the handlers'
\* state typed.
LEMMA GoOnTyped ==
  ASSUME LocalsTyped, NEW p \in Handlers, NEW next \in PCs \ {"done"},
         NEW row \in Row \cup {NoTask},
         next \in {"cacheFill", "dbInsert", "dbUpdate", "cacheSet"} => row \in Row,
         pc[p] # "done", InPlace(req[p].op, next), GoOn(p, next, row), req' = req,
         tasks' \in [Handlers -> Table \cup {Miss}]
  PROVE  LocalsTyped'
BY DEF LocalsTyped, ControlInv, GoOn

LEMMA ReplyTyped ==
  ASSUME LocalsTyped, NEW p \in Handlers, NEW row \in Row \cup {NoTask},
         req[p].op # "none", Reply(p, row), req' = req,
         tasks' \in [Handlers -> Table \cup {Miss}]
  PROVE  LocalsTyped'
BY DEF LocalsTyped, ControlInv, Reply, InPlace, PCs, Statuses, Ops

LEMMA ReplyErrorTyped ==
  ASSUME LocalsTyped, NEW p \in Handlers, NEW status \in Statuses \ {"none", "OK"},
         ReplyError(p, status), req' = req,
         tasks' \in [Handlers -> Table \cup {Miss}]
  PROVE  LocalsTyped'
BY DEF LocalsTyped, ControlInv, ReplyError, InPlace, PCs, Statuses, Ops

-----------------------------------------------------------------------------
\* A request that arrives, with the place it starts at and the row it brings.
LEMMA StartTyped ==
  ASSUME TypeInv, NEW p \in Handlers, NEW r \in [op : Ops \ {"none"}, id : Keys, patch : Patch],
         r.op # "List" => r.id \in Ids, r.op = "List" => r.id = ListKey,
         NEW next \in PCs \ {"done"}, InPlace(r.op, next),
         NEW row \in Row \cup {NoTask},
         next \in {"cacheFill", "dbInsert", "dbUpdate", "cacheSet"} => row \in Row,
         Start(p, r, next, row)
  PROVE  TypeInv'
<1>1. LocalsTyped'
  BY TypeParts DEF LocalsTyped, ControlInv, Start, GoOn
<1>2. TableTyped' /\ CacheTyped'
  BY TypeParts DEF TableTyped, CacheTyped, Start, tableVars, cacheVars
<1> QED BY <1>1, <1>2, TypePartsNext

LEMMA ArriveType ==
  ASSUME TypeInv, NEW p \in Handlers, Arrive(p)
  PROVE  TypeInv'
<1> USE DEF Request, Ops, Keys, InPlace, PCs
<1>1. CASE Reject(p)
  <2>1. LocalsTyped'
    BY <1>1, TypeParts, ReplyErrorTyped DEF Reject, Statuses, LocalsTyped
  <2>2. TableTyped' /\ CacheTyped'
    BY <1>1, TypeParts DEF TableTyped, CacheTyped, Reject, tableVars, cacheVars
  <2> QED BY <2>1, <2>2, TypePartsNext
<1>2. CASE CreateTask(p)
  <2>1. CASE Reject(p)
    BY <1>1, <2>1
  <2>2. ASSUME NEW title \in Titles, NEW id \in Ids,
               Start(p, Request("Create", id, [title |-> title, completed |-> FALSE]),
                     "dbInsert", NewTask(title))
        PROVE  TypeInv'
    <3>1. NewTask(title) \in Row
      BY DEF NewTask, Row
    <3>2. Request("Create", id, [title |-> title, completed |-> FALSE])
            \in [op : Ops \ {"none"}, id : Keys, patch : Patch]
      BY DEF Patch
    <3> QED BY <2>2, <3>1, <3>2, StartTyped
  <2> QED BY <1>2, <2>1, <2>2 DEF CreateTask
<1>3. CASE GetTask(p)
  BY <1>3, StartTyped, PatchesTyped DEF GetTask
<1>4. CASE UpdateTask(p)
  BY <1>4, StartTyped, ConstantsAssumption DEF UpdateTask
<1>5. CASE DeleteTask(p)
  BY <1>5, StartTyped, PatchesTyped DEF DeleteTask
<1>6. CASE ListTasks(p)
  BY <1>6, StartTyped, PatchesTyped DEF ListTasks
<1> QED BY <1>1, <1>2, <1>3, <1>4, <1>5, <1>6 DEF Arrive

\* The request of a handler that is about to use its id is about one task.
LEMMA AboutOneTask ==
  ASSUME TypeInv, NEW p \in Handlers,
         pc[p] \in {"cacheGet", "dbGet", "cacheFill", "dbInsert", "dbUpdate",
                    "dbDelete", "cacheSet", "cacheDel"}
  PROVE  req[p].id \in Ids /\ req[p].id # ListKey
BY ConstantsAssumption DEF TypeInv, TypeOK, ControlInv, InPlace, Ops

LEMMA DbFailsTyped ==
  ASSUME LocalsTyped, NEW p \in Handlers, NEW op, DbFails(p, op), req' = req,
         tasks' \in [Handlers -> Table \cup {Miss}]
  PROVE  LocalsTyped'
<1>1. PICK status \in {"NotFound", "AlreadyExists", "Internal"} : ReplyError(p, status)
  BY ErrorIsNotOK DEF DbFails, StatusOf
<1> QED BY <1>1, ReplyErrorTyped DEF Statuses

LEMMA FoundTyped ==
  ASSUME LocalsTyped, NEW p \in Handlers, NEW row \in Row,
         pc[p] \in {"cacheGet", "cacheFill"}, Found(p, row), req' = req, tasks' = tasks
  PROVE  LocalsTyped'
<1>1. req[p].patch \in Patch /\ req[p].op \in {"Get", "Update"}
  BY DEF LocalsTyped, ControlInv, InPlace, Ops
<1>2. CASE req[p].op = "Get"
  BY <1>2, ReplyTyped DEF Found, LocalsTyped
<1>3. CASE req[p].op = "Update"
  BY <1>1, <1>3, GoOnTyped, PatchedIsRow DEF Found, LocalsTyped, PCs, InPlace, Ops
<1> QED BY <1>1, <1>2, <1>3

LEMMA TableUnchangedTyped == ASSUME TableTyped, UNCHANGED tableVars PROVE TableTyped'
BY DEF TableTyped, tableVars

LEMMA CacheUnchangedTyped == ASSUME CacheTyped, UNCHANGED cacheVars PROVE CacheTyped'
BY DEF CacheTyped, cacheVars

\* Steps that only read: Redis, Postgres or nothing.
LEMMA ReadStepType ==
  ASSUME TypeInv, NEW p \in Handlers,
         CacheGet(p) \/ DbGet(p) \/ ListGet(p) \/ DbList(p) \/ Return(p)
  PROVE  TypeInv'
<1> USE DEF PCs, Ops, InPlace
<1>0. LocalsTyped /\ TableTyped /\ CacheTyped
  BY TypeParts
<1>1. SUFFICES LocalsTyped'
  BY <1>0, TypePartsNext, TableUnchangedTyped, CacheUnchangedTyped
     DEF CacheGet, DbGet, ListGet, DbList, Return
<1>2. CASE CacheGet(p)
  <2> DEFINE id == req[p].id
  <2>1. pc[p] = "cacheGet" /\ tasks' = tasks /\ req' = req /\ id \in Ids /\ id # ListKey
    BY <1>0, <1>2, AboutOneTask DEF CacheGet
  <2>2. tasks' \in [Handlers -> Table \cup {Miss}]
    BY <1>0, <2>1 DEF LocalsTyped
  <2>3. CASE RedisHits(id) /\ Found(p, redis[id])
    <3>1. redis[id] \in Row
      BY <1>0, <2>1, <2>3 DEF RedisHits, CacheTyped, CacheValue, Keys
    <3> QED BY <1>0, <2>1, <2>3, <3>1, FoundTyped
  <2>4. CASE GoOn(p, "dbGet", NoTask)
    <3>1. InPlace(req[p].op, "dbGet")
      BY <1>0, <2>1 DEF LocalsTyped, ControlInv
    <3> QED BY <1>0, <2>1, <2>2, <2>4, <3>1, GoOnTyped
  <2> QED BY <1>0, <1>2, <2>3, <2>4 DEF CacheGet
<1>3. CASE DbGet(p)
  <2> DEFINE id == req[p].id
  <2>1. pc[p] = "dbGet" /\ tasks' = tasks /\ req' = req /\ id \in Ids
    BY <1>0, <1>3, AboutOneTask DEF DbGet
  <2>2. tasks' \in [Handlers -> Table \cup {Miss}]
    BY <1>0, <2>1 DEF LocalsTyped
  <2>3. CASE db[id] # NoTask /\ GoOn(p, "cacheFill", db[id])
    <3>1. db[id] \in Row
      BY <1>0, <2>1, <2>3 DEF TableTyped, Table
    <3>2. InPlace(req[p].op, "cacheFill")
      BY <1>0, <2>1 DEF LocalsTyped, ControlInv
    <3> QED BY <1>0, <2>1, <2>2, <2>3, <3>1, <3>2, GoOnTyped
  <2>4. CASE ReplyError(p, StatusOf("get_task_by_id", NoRows))
    BY <1>0, <2>1, <2>2, <2>4, ErrorIsNotOK, ReplyErrorTyped DEF StatusOf, Statuses
  <2>5. CASE DbFails(p, "get_task_by_id")
    BY <1>0, <2>1, <2>2, <2>5, DbFailsTyped
  <2> QED BY <1>0, <1>3, <2>3, <2>4, <2>5 DEF DbGet
<1>4. CASE ListGet(p)
  <2>1. /\ pc[p] = "listGet" /\ req' = req /\ req[p].op # "none"
        /\ InPlace(req[p].op, "dbList")
    BY <1>0, <1>4 DEF ListGet, LocalsTyped, ControlInv
  <2>2. CASE /\ RedisHits(ListKey)
             /\ tasks' = [tasks EXCEPT ![p] = redis[ListKey]]
             /\ Reply(p, NoTask)
    <3>1. redis[ListKey] \in Table
      BY <1>0, <2>2 DEF RedisHits, CacheTyped, CacheValue, Keys
    <3>2. tasks' \in [Handlers -> Table \cup {Miss}]
      BY <1>0, <2>2, <3>1 DEF LocalsTyped
    <3> QED BY <1>0, <2>1, <2>2, <3>2, ReplyTyped
  <2>3. CASE GoOn(p, "dbList", NoTask) /\ UNCHANGED tasks
    <3>1. tasks' \in [Handlers -> Table \cup {Miss}]
      BY <1>0, <2>3 DEF LocalsTyped
    <3> QED BY <1>0, <2>1, <2>3, <3>1, GoOnTyped
  <2> QED BY <1>0, <1>4, <2>2, <2>3 DEF ListGet
<1>5. CASE DbList(p)
  <2>1. pc[p] = "dbList" /\ req' = req /\ InPlace(req[p].op, "listFill")
    BY <1>0, <1>5 DEF DbList, LocalsTyped, ControlInv
  <2>2. tasks' \in [Handlers -> Table \cup {Miss}]
    BY <1>0, <1>5 DEF DbList, LocalsTyped, TableTyped
  <2>3. CASE GoOn(p, "listFill", NoTask)
    BY <1>0, <2>1, <2>2, <2>3, GoOnTyped
  <2>4. CASE DbFails(p, "list_tasks")
    BY <1>0, <2>1, <2>2, <2>4, DbFailsTyped
  <2> QED BY <1>0, <1>5, <2>3, <2>4 DEF DbList
<1>6. CASE Return(p)
  BY <1>0, <1>6, PatchesTyped
     DEF Return, LocalsTyped, ControlInv, Statuses, NoRequest, Request
<1> QED BY <1>2, <1>3, <1>4, <1>5, <1>6

\* Steps that send Redis a SET or a DEL.
LEMMA CacheStepType ==
  ASSUME TypeInv, NEW p \in Handlers,
         CacheFill(p) \/ CacheSet(p) \/ CacheDel(p) \/ ListDel(p) \/ ListFill(p)
  PROVE  TypeInv'
<1> USE DEF PCs, Ops, InPlace
<1>0. LocalsTyped /\ TableTyped /\ CacheTyped /\ TypeOK
  BY TypeParts DEF TypeInv
<1>1. /\ UNCHANGED tableVars /\ req' = req /\ tasks' = tasks
      /\ tasks' \in [Handlers -> Table \cup {Miss}]
  BY <1>0 DEF CacheFill, CacheSet, CacheDel, ListDel, ListFill, LocalsTyped
<1>2. TableTyped'
  BY <1>0, <1>1, TableUnchangedTyped
<1>3. ASSUME NEW key \in Keys, NEW value \in CacheValue(key), RedisWrite(key, value)
      PROVE  CacheTyped'
  BY <1>0, <1>3, RedisWriteTyped DEF CacheTyped
<1>4. CASE CacheFill(p)
  <2>1. /\ pc[p] = "cacheFill" /\ req[p].id \in Keys /\ task[p] \in Row
        /\ task[p] \in CacheValue(req[p].id)
    BY <1>0, <1>4, AboutOneTask DEF CacheFill, LocalsTyped, CacheValue, Keys
  <2>2. LocalsTyped'
    BY <1>0, <1>1, <1>4, <2>1, FoundTyped DEF CacheFill
  <2> QED BY <1>2, <1>3, <1>4, <2>1, <2>2, TypePartsNext DEF CacheFill
<1>5. CASE CacheSet(p)
  <2>1. /\ pc[p] = "cacheSet" /\ req[p].id \in Keys /\ task[p] \in Row
        /\ task[p] \in CacheValue(req[p].id)
    BY <1>0, <1>5, AboutOneTask DEF CacheSet, LocalsTyped, CacheValue, Keys
  <2>2. InPlace(req[p].op, "listDel")
    BY <1>0, <2>1 DEF LocalsTyped, ControlInv
  <2>3. LocalsTyped'
    BY <1>0, <1>1, <1>5, <2>1, <2>2, GoOnTyped DEF CacheSet
  <2> QED BY <1>2, <1>3, <1>5, <2>1, <2>3, TypePartsNext DEF CacheSet
<1>6. CASE CacheDel(p)
  <2>1. pc[p] = "cacheDel" /\ req[p].id \in Keys /\ Miss \in CacheValue(req[p].id)
    BY <1>6, AboutOneTask DEF CacheDel, CacheValue, Keys
  <2>2. InPlace(req[p].op, "listDel")
    BY <1>0, <2>1 DEF LocalsTyped, ControlInv
  <2>3. LocalsTyped'
    BY <1>0, <1>1, <1>6, <2>1, <2>2, GoOnTyped DEF CacheDel
  <2> QED BY <1>2, <1>3, <1>6, <2>1, <2>3, TypePartsNext DEF CacheDel
<1>7. CASE ListDel(p)
  <2>1. /\ pc[p] = "listDel" /\ req[p].op # "none" /\ task[p] \in Row \cup {NoTask}
        /\ ListKey \in Keys /\ Miss \in CacheValue(ListKey)
    BY <1>0, <1>7 DEF ListDel, LocalsTyped, ControlInv, CacheValue, Keys
  <2>2. LocalsTyped'
    BY <1>0, <1>1, <1>7, <2>1, ReplyTyped DEF ListDel
  <2> QED BY <1>2, <1>3, <1>7, <2>1, <2>2, TypePartsNext DEF ListDel
<1>8. CASE ListFill(p)
  <2>1. /\ pc[p] = "listFill" /\ req[p].op # "none" /\ ListKey \in Keys
        /\ tasks[p] \in CacheValue(ListKey)
    BY <1>0, <1>8 DEF ListFill, LocalsTyped, ControlInv, CacheValue, Keys
  <2>2. LocalsTyped'
    BY <1>0, <1>1, <1>8, <2>1, ReplyTyped DEF ListFill
  <2> QED BY <1>2, <1>3, <1>8, <2>1, <2>2, TypePartsNext DEF ListFill
<1> QED BY <1>4, <1>5, <1>6, <1>7, <1>8

\* The statements that change the table.
LEMMA DbStepType ==
  ASSUME TypeInv, NEW p \in Handlers, DbInsert(p) \/ DbUpdate(p) \/ DbDelete(p)
  PROVE  TypeInv'
<1> USE DEF PCs, Ops, InPlace
<1> DEFINE id == req[p].id
<1>0. LocalsTyped /\ TableTyped /\ CacheTyped
  BY TypeParts
<1>1. /\ UNCHANGED cacheVars /\ req' = req /\ tasks' = tasks
      /\ tasks' \in [Handlers -> Table \cup {Miss}]
  BY <1>0 DEF DbInsert, DbUpdate, DbDelete, LocalsTyped
<1>2. id \in Ids
  BY AboutOneTask DEF DbInsert, DbUpdate, DbDelete
<1>3. CacheTyped'
  BY <1>0, <1>1, CacheUnchangedTyped
<1>4. TableTyped'
  <2>1. CASE NoCommit
    BY <1>0, <2>1, TableUnchangedTyped DEF NoCommit
  <2>2. CASE Commit(id, Written(p)) /\ pc[p] \in {"dbInsert", "dbUpdate"}
    <3>1. Written(p) \in Row
      BY <1>0, <2>2, WrittenIsRow DEF LocalsTyped, TableTyped
    <3> QED BY <1>0, <1>2, <2>2, <3>1, CommitTyped
  <2>3. CASE Commit(id, NoTask)
    BY <1>0, <1>2, <2>3, CommitTyped
  <2> QED BY <2>1, <2>2, <2>3 DEF DbInsert, DbUpdate, DbDelete
<1>5. LocalsTyped'
  <2>1. CASE \E op \in {"create_task", "update_task", "delete_task"} : DbFails(p, op)
    BY <1>0, <1>1, <2>1, DbFailsTyped
  <2>2. CASE \E e : ReplyError(p, WrapRepositoryError(e))
    BY <1>0, <1>1, <2>2, ErrorIsNotOK, ReplyErrorTyped DEF Statuses
  <2>3. CASE pc[p] \in {"dbInsert", "dbUpdate"} /\ GoOn(p, "cacheSet", Written(p))
    <3>1. Written(p) \in Row
      BY <1>0, <2>3, WrittenIsRow DEF LocalsTyped, TableTyped
    <3>2. InPlace(req[p].op, "cacheSet")
      BY <1>0, <2>3 DEF LocalsTyped, ControlInv
    <3> QED BY <1>0, <1>1, <2>3, <3>1, <3>2, GoOnTyped
  <2>4. CASE pc[p] = "dbDelete" /\ GoOn(p, "cacheDel", NoTask)
    <3>1. InPlace(req[p].op, "cacheDel")
      BY <1>0, <2>4 DEF LocalsTyped, ControlInv
    <3> QED BY <1>0, <1>1, <2>4, <3>1, GoOnTyped
  <2> QED BY <2>1, <2>2, <2>3, <2>4 DEF DbInsert, DbUpdate, DbDelete, StatusOf
<1> QED BY <1>3, <1>4, <1>5, TypePartsNext

\* A crash leaves a handler as it is, or without a request.
LEMMA CrashEach ==
  ASSUME Crash, NEW q \in Handlers
  PROVE  \/ /\ pc'[q] = "idle" /\ req'[q] = NoRequest /\ code'[q] = "none"
            /\ task'[q] = NoTask /\ tasks'[q] = Miss
         \/ /\ pc'[q] = pc[q] /\ req'[q] = req[q] /\ code'[q] = code[q]
            /\ task'[q] = task[q] /\ tasks'[q] = tasks[q]
BY DEF Crash

\* What happens around the handlers.
LEMMA EnvironmentType ==
  ASSUME TypeInv, Crash \/ (\E key \in Keys : Expire(key)) \/ LateWrite
  PROVE  TypeInv'
<1>0. LocalsTyped /\ TableTyped /\ CacheTyped
  BY TypeParts
<1>1. CASE Crash
  <2>1. LocalsTyped'
    <3>1. /\ pc' = [q \in Handlers |-> pc'[q]]
          /\ req' = [q \in Handlers |-> req'[q]]
          /\ code' = [q \in Handlers |-> code'[q]]
          /\ task' = [q \in Handlers |-> task'[q]]
          /\ tasks' = [q \in Handlers |-> tasks'[q]]
      BY <1>1 DEF Crash
    <3>2. NoRequest \in [op : Ops, id : Keys, patch : Patch]
      BY PatchesTyped DEF NoRequest, Request, Ops, Keys
    <3>3. "idle" \in PCs /\ "none" \in Statuses
      BY DEF PCs, Statuses
    <3>4. ASSUME NEW q \in Handlers
          PROVE  /\ pc'[q] \in PCs /\ req'[q] \in [op : Ops, id : Keys, patch : Patch]
                 /\ code'[q] \in Statuses
                 /\ task'[q] \in Row \cup {NoTask} /\ tasks'[q] \in Table \cup {Miss}
      BY <1>0, <1>1, <3>2, <3>3, CrashEach DEF LocalsTyped
    <3>5. \A q \in Handlers :
            pc'[q] \in {"cacheFill", "dbInsert", "dbUpdate", "cacheSet"} => task'[q] \in Row
      BY <1>0, <1>1, CrashEach DEF LocalsTyped
    <3>6. ControlInv'
      BY <1>0, <1>1, CrashEach DEF LocalsTyped, ControlInv, InPlace, NoRequest, Request
    <3> QED BY <3>1, <3>4, <3>5, <3>6 DEF LocalsTyped
  <2> QED BY <1>0, <1>1, <2>1, TableUnchangedTyped, CacheUnchangedTyped, TypePartsNext
       DEF Crash
<1>2. CASE (\E key \in Keys : Expire(key)) \/ LateWrite
  <2>1. UNCHANGED <<tableVars, localVars>>
    BY <1>2 DEF Expire, LateWrite
  <2>2. LocalsTyped'
    BY <1>0, <2>1 DEF LocalsTyped, ControlInv, localVars
  <2>3. CacheTyped'
    <3>1. CASE \E key \in Keys : Expire(key)
      BY <1>0, <3>1 DEF Expire, CacheTyped, CacheValue
    <3>2. CASE LateWrite
      BY <1>0, <3>2 DEF LateWrite, CacheTyped
    <3> QED BY <1>2, <3>1, <3>2
  <2> QED BY <1>0, <2>1, <2>2, <2>3, TableUnchangedTyped, TypePartsNext
<1> QED BY <1>1, <1>2

LEMMA NextType == TypeInv /\ [Next]_vars => TypeInv'
<1> SUFFICES ASSUME TypeInv, [Next]_vars PROVE TypeInv'
  OBVIOUS
<1>1. CASE UNCHANGED vars
  <2>1. LocalsTyped /\ TableTyped /\ CacheTyped
    BY TypeParts
  <2>2. LocalsTyped'
    BY <1>1, <2>1 DEF vars, localVars, LocalsTyped, ControlInv
  <2> QED BY <1>1, <2>1, <2>2, TypePartsNext, TableUnchangedTyped, CacheUnchangedTyped
       DEF vars
<1>2. ASSUME NEW p \in Handlers, Arrive(p) \/ Step(p) PROVE TypeInv'
  BY <1>2, ArriveType, ReadStepType, CacheStepType, DbStepType DEF Step
<1> QED BY <1>1, <1>2, EnvironmentType DEF Next

\* The variables stay within their types; in particular the repository hands
\* no nil task to Redis, to Task.Update or to a statement.
THEOREM TypeCorrect == Spec => []TypeOK
<1>1. TypeInv => TypeOK
  BY DEF TypeInv
<1> QED BY <1>1, InitType, NextType, PTL DEF Spec

-----------------------------------------------------------------------------
(* What handlers hold.  The safety properties are not inductive: a value in  *)
(* the cache comes from the row a handler held before, and that row from the *)
(* table, so the invariant follows it all the way.                           *)

\* The request of p has changed the table, or replied that it had.
Settled(p) == pc[p] \in {"cacheSet", "cacheDel", "listDel"} \/ code[p] = "OK"

\* The row about to be written carries the requested values; what was read,
\* written or removed was in the table, which a reply may say from then on.
HeldBy(p) ==
  LET r == req[p] IN
  /\ pc[p] \in {"dbInsert", "dbUpdate"} => task[p] = ApplyPatch(task[p], r.patch)
  /\ pc[p] = "cacheFill" \/ (r.op = "Get" /\ code[p] = "OK") =>
       task[p] \in Versions(r.id)
  /\ r.op \in {"Create", "Update"} /\ Settled(p) =>
       task[p] \in Versions(r.id) /\ task[p] = ApplyPatch(task[p], r.patch)
  /\ r.op = "Delete" /\ Settled(p) =>
       db[r.id] = NoTask /\ Versions(r.id) # {} /\ task[p] = NoTask
  /\ pc[p] = "listFill" \/ (r.op = "List" /\ code[p] = "OK") => tasks[p] \in past

\* A task about to be inserted is new, and only one handler inserts it.
CreateInv ==
  \A p \in Handlers : pc[p] = "dbInsert" =>
    /\ Versions(req[p].id) = {}
    /\ \A q \in Handlers \ {p} : pc[q] = "dbInsert" => req[q].id # req[p].id

HistoryInv ==
  /\ TypeInv
  /\ \A p \in Handlers : HeldBy(p)
  /\ CreateInv
  /\ CacheHoldsCommitted

\* Whatever the step, the table stays as it is or one statement commits: an
\* INSERT, or an UPDATE or DELETE of a task that is there.
LEMMA TableSteps ==
  ASSUME TypeInv, [Next]_vars
  PROVE  \/ UNCHANGED tableVars
         \/ \E p \in Handlers :
              /\ pc[p] = "dbInsert" \/ db[req[p].id] # NoTask
              /\ req[p].id \in Ids
              /\ \E row \in Row \cup {NoTask} : Commit(req[p].id, row)
<1>1. CASE UNCHANGED vars
  BY <1>1 DEF vars
<1>2. CASE Crash \/ (\E key \in Keys : Expire(key)) \/ LateWrite
  BY <1>2 DEF Crash, Expire, LateWrite
<1>3. ASSUME NEW p \in Handlers, Arrive(p) PROVE UNCHANGED tableVars
  BY <1>3 DEF Arrive, CreateTask, GetTask, UpdateTask, DeleteTask, ListTasks, Reject, Start
<1>4. ASSUME NEW p \in Handlers, DbInsert(p) \/ DbUpdate(p) \/ DbDelete(p)
      PROVE  \/ UNCHANGED tableVars
             \/ /\ pc[p] = "dbInsert" \/ db[req[p].id] # NoTask
                /\ req[p].id \in Ids
                /\ \E row \in Row \cup {NoTask} : Commit(req[p].id, row)
  <2>1. req[p].id \in Ids
    BY <1>4, AboutOneTask DEF DbInsert, DbUpdate, DbDelete
  <2>2. ASSUME pc[p] \in {"dbInsert", "dbUpdate"} PROVE Written(p) \in Row
    BY <2>2, WrittenIsRow DEF TypeInv, TypeOK
  <2> QED BY <1>4, <2>1, <2>2 DEF DbInsert, DbUpdate, DbDelete, NoCommit
<1>5. ASSUME NEW p \in Handlers, Step(p), ~(DbInsert(p) \/ DbUpdate(p) \/ DbDelete(p))
      PROVE  UNCHANGED tableVars
  BY <1>5 DEF Step, CacheGet, DbGet, CacheFill, CacheSet, CacheDel, ListDel, ListGet,
     DbList, ListFill, Return
<1> QED BY <1>1, <1>2, <1>3, <1>4, <1>5 DEF Next

LEMMA VersionsGrow ==
  ASSUME past \subseteq past', NEW id
  PROVE  Versions(id) \subseteq Versions(id)'
BY DEF Versions

\* A task that is in the table has a version.
LEMMA PresentHasVersion ==
  ASSUME TypeInv, NEW id \in Ids
  PROVE  db[id] # NoTask => db[id] \in Versions(id)
BY DEF TypeInv, TypeOK, Versions

\* The history grows, and a deleted task stays deleted.
LEMMA HistoryGrows ==
  ASSUME TypeInv, CreateInv, [Next]_vars
  PROVE  /\ past \subseteq past'
         /\ \A id \in Ids : db[id] = NoTask /\ Versions(id) # {} => db'[id] = NoTask
<1>1. CASE UNCHANGED tableVars
  BY <1>1 DEF tableVars
<1>2. ASSUME NEW p \in Handlers, pc[p] = "dbInsert" \/ db[req[p].id] # NoTask,
             NEW row \in Row \cup {NoTask}, Commit(req[p].id, row)
      PROVE  /\ past \subseteq past'
             /\ \A id \in Ids : db[id] = NoTask /\ Versions(id) # {} => db'[id] = NoTask
  BY <1>2 DEF Commit, CreateInv, TypeInv, TypeOK, Table
<1> QED BY <1>1, <1>2, TableSteps

\* A step of one handler leaves the others where they are.
LEMMA OthersStay ==
  ASSUME TypeInv, NEW p \in Handlers, Arrive(p) \/ Step(p), NEW q \in Handlers \ {p}
  PROVE  /\ pc'[q] = pc[q] /\ req'[q] = req[q] /\ task'[q] = task[q]
         /\ tasks'[q] = tasks[q] /\ code'[q] = code[q]
<1> USE DEF TypeInv, TypeOK, GoOn, Reply, ReplyError
<1>1. CASE Arrive(p)
  BY <1>1 DEF Arrive, CreateTask, GetTask, UpdateTask, DeleteTask, ListTasks, Reject, Start
<1>2. CASE DbInsert(p) \/ DbUpdate(p) \/ DbDelete(p)
  BY <1>2 DEF DbInsert, DbUpdate, DbDelete, DbFails
<1>3. CASE CacheGet(p) \/ DbGet(p) \/ CacheFill(p)
  BY <1>3 DEF CacheGet, DbGet, CacheFill, DbFails, Found
<1>4. CASE CacheSet(p) \/ CacheDel(p) \/ ListDel(p)
  BY <1>4 DEF CacheSet, CacheDel, ListDel
<1>5. CASE ListGet(p) \/ DbList(p) \/ ListFill(p) \/ Return(p)
  BY <1>5 DEF ListGet, DbList, ListFill, Return, DbFails
<1> QED BY <1>1, <1>2, <1>3, <1>4, <1>5 DEF Step

\* What a handler holds stays true while it does nothing.
LEMMA HeldStays ==
  ASSUME TypeInv, CreateInv, [Next]_vars, NEW p \in Handlers, HeldBy(p),
         pc'[p] = pc[p], req'[p] = req[p], task'[p] = task[p],
         tasks'[p] = tasks[p], code'[p] = code[p]
  PROVE  HeldBy(p)'
<1>1. past \subseteq past' /\ Versions(req[p].id) \subseteq Versions(req[p].id)'
  BY HistoryGrows, VersionsGrow DEF Versions
<1>2. Versions(req[p].id)' = {t[req[p].id] : t \in past'} \ {NoTask}
  BY DEF Versions
<1>3. req[p].op = "Delete" /\ db[req[p].id] = NoTask /\ Versions(req[p].id) # {}
        => db'[req[p].id] = NoTask
  BY HistoryGrows DEF TypeInv, ControlInv
<1> QED BY <1>1, <1>2, <1>3 DEF HeldBy, Settled, ApplyPatch

LEMMA PatchedTwice ==
  ASSUME NEW row, NEW patch
  PROVE  ApplyPatch(ApplyPatch(row, patch), patch) = ApplyPatch(row, patch)
BY DEF ApplyPatch

\* What the moving handler holds after an error.
LEMMA HeldOnError ==
  ASSUME TypeInv, NEW p \in Handlers, NEW status \in {"InvalidArgument", "NotFound",
         "AlreadyExists", "Internal"}, ReplyError(p, status)
  PROVE  HeldBy(p)'
BY DEF HeldBy, Settled, ReplyError, TypeInv, TypeOK

LEMMA HeldOnDbFails ==
  ASSUME TypeInv, NEW p \in Handlers, NEW op, DbFails(p, op)
  PROVE  HeldBy(p)'
<1>1. PICK status \in {"NotFound", "AlreadyExists", "Internal"} : ReplyError(p, status)
  BY ErrorIsNotOK DEF DbFails, StatusOf
<1> QED BY <1>1, HeldOnError

LEMMA HeldOnArrival ==
  ASSUME TypeInv, NEW p \in Handlers, Arrive(p)
  PROVE  HeldBy(p)'
<1>1. CASE Reject(p)
  BY <1>1, HeldOnError DEF Reject
<1>2. CASE CreateTask(p)
  <2>1. ASSUME NEW title \in Titles, NEW id \in Ids,
               Start(p, Request("Create", id, [title |-> title, completed |-> FALSE]),
                     "dbInsert", NewTask(title))
        PROVE  HeldBy(p)'
    <3>1. /\ pc'[p] = "dbInsert" /\ code'[p] = code[p] /\ code[p] # "OK"
          /\ task'[p] = NewTask(title)
          /\ req'[p] = Request("Create", id, [title |-> title, completed |-> FALSE])
      BY <2>1 DEF Start, GoOn, TypeInv, TypeOK, ControlInv
    <3>2. NewTask(title) = ApplyPatch(NewTask(title), [title |-> title, completed |-> FALSE])
      BY DEF NewTask, ApplyPatch
    <3> QED BY <3>1, <3>2 DEF HeldBy, Settled, Request
  <2> QED BY <1>1, <1>2, <2>1 DEF CreateTask
<1>3. ASSUME NEW r, NEW next \in {"cacheGet", "dbDelete", "listGet"},
             Start(p, r, next, NoTask)
      PROVE  HeldBy(p)'
  BY <1>3 DEF Start, GoOn, TypeInv, TypeOK, ControlInv, HeldBy, Settled
<1> QED BY <1>1, <1>2, <1>3 DEF Arrive, GetTask, UpdateTask, DeleteTask, ListTasks

\* GetByID succeeded with a row the task has had.
LEMMA HeldOnFound ==
  ASSUME TypeInv, NEW p \in Handlers, NEW row \in Row, row \in Versions(req[p].id),
         pc[p] \in {"cacheGet", "cacheFill"}, Found(p, row), req' = req, past' = past
  PROVE  HeldBy(p)'
<1>1. Versions(req[p].id)' = Versions(req[p].id)
  BY DEF Versions
<1>2. CASE req[p].op = "Get"
  BY <1>1, <1>2 DEF Found, Reply, HeldBy, Settled, TypeInv, TypeOK
<1>3. CASE req[p].op # "Get"
  <2>1. /\ pc'[p] = "dbUpdate" /\ code'[p] = code[p] /\ code[p] # "OK"
        /\ task'[p] = ApplyPatch(row, req[p].patch)
    BY <1>3 DEF Found, GoOn, TypeInv, TypeOK, ControlInv
  <2>2. task'[p] = ApplyPatch(task'[p], req'[p].patch)
    BY <2>1, PatchedTwice
  <2> QED BY <2>1, <2>2 DEF HeldBy, Settled, ApplyPatch
<1> QED BY <1>2, <1>3

\* Get and List.
LEMMA HeldOnRead ==
  ASSUME HistoryInv, NEW p \in Handlers,
         \/ CacheGet(p) \/ DbGet(p) \/ CacheFill(p)
         \/ ListGet(p) \/ DbList(p) \/ ListFill(p)
  PROVE  HeldBy(p)'
<1> DEFINE id == req[p].id
<1> USE DEF HistoryInv
<1>1. TypeInv /\ TypeOK /\ HeldBy(p) /\ req' = req /\ past' = past
  BY DEF TypeInv, CacheGet, DbGet, CacheFill, ListGet, DbList, ListFill, tableVars
<1>2. CASE CacheGet(p)
  <2>1. CASE RedisHits(id) /\ Found(p, redis[id])
    <3>1. pc[p] = "cacheGet" /\ id \in Ids /\ id # ListKey /\ id \in Keys
      BY <1>2, AboutOneTask DEF CacheGet, Keys
    <3>2. redis[id] \in Versions(id) /\ redis[id] \in Row
      BY <1>1, <2>1, <3>1 DEF RedisHits, CacheHoldsCommitted, Genuine, TypeOK, CacheValue
    <3> QED BY <1>1, <2>1, <3>1, <3>2, HeldOnFound
  <2>2. CASE GoOn(p, "dbGet", NoTask)
    BY <1>1, <1>2, <2>2 DEF CacheGet, GoOn, HeldBy, Settled, TypeInv, TypeOK, ControlInv
  <2> QED BY <1>2, <2>1, <2>2 DEF CacheGet
<1>3. CASE DbGet(p)
  <2>1. CASE db[id] # NoTask /\ GoOn(p, "cacheFill", db[id])
    <3>1. id \in Ids /\ db[id] \in Versions(id) /\ code[p] # "OK"
      BY <1>1, <1>3, <2>1, AboutOneTask, PresentHasVersion DEF DbGet, TypeInv, ControlInv
    <3>2. Versions(id)' = Versions(id)
      BY <1>1 DEF Versions
    <3> QED BY <1>1, <2>1, <3>1, <3>2 DEF GoOn, HeldBy, Settled, TypeOK
  <2>2. CASE ReplyError(p, StatusOf("get_task_by_id", NoRows))
    BY <1>1, <2>2, ErrorIsNotOK, HeldOnError DEF StatusOf
  <2> QED BY <1>1, <1>3, <2>1, <2>2, HeldOnDbFails DEF DbGet
<1>4. CASE CacheFill(p)
  <2>1. pc[p] = "cacheFill" /\ Found(p, task[p]) /\ task[p] \in Row /\ task[p] \in Versions(id)
    BY <1>1, <1>4 DEF CacheFill, TypeOK, HeldBy
  <2> QED BY <1>1, <2>1, HeldOnFound
<1>5. CASE ListGet(p)
  <2>1. pc[p] = "listGet" /\ req[p].op = "List" /\ ListKey \in Keys /\ code[p] # "OK"
    BY <1>1, <1>5 DEF ListGet, Keys, TypeInv, ControlInv, InPlace, Ops, TypeOK
  <2>2. CASE /\ RedisHits(ListKey)
             /\ tasks' = [tasks EXCEPT ![p] = redis[ListKey]]
             /\ Reply(p, NoTask)
    <3>1. redis[ListKey] \in past
      BY <2>1, <2>2 DEF RedisHits, CacheHoldsCommitted, Genuine
    <3> QED BY <1>1, <2>1, <2>2, <3>1 DEF Reply, HeldBy, Settled, TypeOK
  <2>3. CASE GoOn(p, "dbList", NoTask)
    BY <1>1, <2>1, <2>3 DEF GoOn, HeldBy, Settled, TypeOK
  <2> QED BY <1>5, <2>2, <2>3 DEF ListGet
<1>6. CASE DbList(p)
  <2>1. pc[p] = "dbList" /\ req[p].op = "List" /\ code[p] # "OK"
    BY <1>1, <1>6 DEF DbList, TypeInv, ControlInv, InPlace, Ops, TypeOK
  <2>2. CASE tasks' = [tasks EXCEPT ![p] = db] /\ GoOn(p, "listFill", NoTask)
    BY <1>1, <2>1, <2>2 DEF GoOn, HeldBy, Settled, TypeOK
  <2> QED BY <1>1, <1>6, <2>2, HeldOnDbFails DEF DbList
<1>7. CASE ListFill(p)
  <2>1. pc[p] = "listFill" /\ req[p].op = "List" /\ tasks[p] \in past
    BY <1>1, <1>7 DEF ListFill, TypeInv, ControlInv, InPlace, Ops, TypeOK, HeldBy
  <2> QED BY <1>1, <1>7, <2>1 DEF ListFill, Reply, HeldBy, Settled, TypeOK
<1> QED BY <1>2, <1>3, <1>4, <1>5, <1>6, <1>7

\* The statement that has just committed put its row into the history.
LEMMA CommittedRow ==
  ASSUME TypeInv, NEW id \in Ids, NEW row \in Row, Commit(id, row)
  PROVE  row \in Versions(id)'
<1>1. db' \in past' /\ db'[id] = row /\ row # NoTask
  BY ConstantsAssumption DEF Commit, TypeInv, TypeOK, Table
<1> QED BY <1>1 DEF Versions

\* The three statements and the calls to Redis after them.
LEMMA HeldOnWrite ==
  ASSUME HistoryInv, [Next]_vars, NEW p \in Handlers,
         \/ DbInsert(p) \/ DbUpdate(p) \/ DbDelete(p)
         \/ CacheSet(p) \/ CacheDel(p) \/ ListDel(p) \/ Return(p)
  PROVE  HeldBy(p)'
<1> DEFINE id == req[p].id
<1>1. TypeInv /\ TypeOK /\ HeldBy(p)
  BY DEF HistoryInv, TypeInv
<1>2. ASSUME pc[p] \in {"dbInsert", "dbUpdate"}, req' = req, Commit(id, Written(p)),
             GoOn(p, "cacheSet", Written(p))
      PROVE  HeldBy(p)'
  <2>1. id \in Ids /\ Written(p) \in Row /\ req[p].op \in {"Create", "Update"}
    BY <1>1, <1>2, AboutOneTask, WrittenIsRow DEF TypeInv, TypeOK, ControlInv, InPlace, Ops
  <2>2. Written(p) \in Versions(id)'
    BY <1>1, <1>2, <2>1, CommittedRow
  <2>3. Written(p) = ApplyPatch(Written(p), req[p].patch)
    <3>1. task[p] = ApplyPatch(task[p], req[p].patch)
      BY <1>1, <1>2 DEF HeldBy
    <3> QED BY <3>1 DEF Written, ApplyPatch
  <2>4. /\ pc'[p] = "cacheSet" /\ task'[p] = Written(p) /\ code'[p] # "OK"
        /\ Versions(req[p].id)' = Versions(id)'
    BY <1>1, <1>2 DEF GoOn, TypeInv, TypeOK, ControlInv, Versions
  <2>5. task'[p] = ApplyPatch(task'[p], req'[p].patch) /\ task'[p] \in Versions(req[p].id)'
    BY <1>2, <2>2, <2>3, <2>4
  <2> QED BY <1>2, <2>1, <2>4, <2>5 DEF HeldBy, ApplyPatch
<1>3. CASE DbInsert(p)
  BY <1>1, <1>2, <1>3, HeldOnDbFails DEF DbInsert
<1>4. CASE DbUpdate(p)
  <2>1. CASE ReplyError(p, StatusOf("update_task", NoRows))
    BY <1>1, <2>1, ErrorIsNotOK, HeldOnError DEF StatusOf
  <2> QED BY <1>1, <1>2, <1>4, <2>1, HeldOnDbFails DEF DbUpdate
<1>5. CASE DbDelete(p)
  <2>1. id \in Ids /\ req[p].op = "Delete" /\ req' = req
    BY <1>1, <1>5, AboutOneTask DEF DbDelete, TypeInv, TypeOK, ControlInv, InPlace, Ops
  <2>2. CASE /\ db[id] # NoTask
             /\ Commit(id, NoTask)
             /\ GoOn(p, "cacheDel", NoTask)
    <3>1. Versions(id) # {} /\ past \subseteq past'
      BY <1>1, <2>1, <2>2, PresentHasVersion DEF Commit
    <3>2. Versions(req[p].id)' # {}
      BY <2>1, <3>1 DEF Versions
    <3>3. db'[id] = NoTask
      BY <1>1, <2>1, <2>2 DEF Commit, TypeOK, Table
    <3> QED BY <1>1, <2>1, <2>2, <3>2, <3>3 DEF GoOn, HeldBy, TypeInv, TypeOK, ControlInv
  <2>3. CASE ReplyError(p, WrapRepositoryError(WrapError("delete_task", "task not found")))
    BY <1>1, <2>3, ErrorIsNotOK, HeldOnError
  <2> QED BY <1>1, <1>5, <2>2, <2>3, HeldOnDbFails DEF DbDelete
<1>6. CASE CacheSet(p) \/ CacheDel(p) \/ ListDel(p)
  <2>1. /\ pc[p] \in {"cacheSet", "cacheDel", "listDel"}
        /\ req[p].op \in {"Create", "Update", "Delete"}
        /\ req' = req /\ past' = past /\ db' = db
    BY <1>1, <1>6 DEF CacheSet, CacheDel, ListDel, tableVars, TypeInv, TypeOK, ControlInv,
       InPlace, Ops
  <2>2. Versions(req[p].id)' = Versions(id)
    BY <2>1 DEF Versions
  <2>3. pc'[p] \in {"listDel", "done"} /\ task'[p] = task[p]
    BY <1>1, <1>6, <2>1 DEF HeldBy, Settled, CacheSet, CacheDel, ListDel, GoOn, Reply,
       TypeOK, TypeInv, ControlInv, InPlace
  <2> QED BY <1>1, <2>1, <2>2, <2>3 DEF HeldBy, Settled, ApplyPatch
<1>7. CASE Return(p)
  BY <1>1, <1>7 DEF Return, HeldBy, Settled, TypeOK
<1> QED BY <1>3, <1>4, <1>5, <1>6, <1>7

LEMMA HeldNext ==
  ASSUME HistoryInv, [Next]_vars
  PROVE  \A p \in Handlers : HeldBy(p)'
<1>1. TypeInv /\ CreateInv /\ \A p \in Handlers : HeldBy(p)
  BY DEF HistoryInv
<1>2. CASE (\E key \in Keys : Expire(key)) \/ LateWrite \/ UNCHANGED vars
  BY <1>1, <1>2, HeldStays DEF Expire, LateWrite, localVars, vars
<1>3. CASE Crash
  <2>1. ASSUME NEW p \in Handlers, pc'[p] = "idle", req'[p].op = "none", code'[p] = "none"
        PROVE  HeldBy(p)'
    BY <2>1 DEF HeldBy, Settled
  <2> QED BY <1>1, <1>3, <2>1, CrashEach, HeldStays DEF NoRequest, Request
<1>4. ASSUME NEW p \in Handlers, Arrive(p) \/ Step(p), NEW q \in Handlers
      PROVE  HeldBy(q)'
  <2>1. CASE q # p
    BY <1>1, <1>4, <2>1, OthersStay, HeldStays
  <2>2. CASE q = p
    BY <1>1, <1>4, <2>2, HeldOnArrival, HeldOnRead, HeldOnWrite DEF Step
  <2> QED BY <2>1, <2>2
<1> QED BY <1>2, <1>3, <1>4 DEF Next

LEMMA CreateNext ==
  ASSUME HistoryInv, [Next]_vars
  PROVE  CreateInv'
<1>1. TypeInv /\ TypeOK /\ CreateInv
  BY DEF HistoryInv, TypeInv
<1>2. ASSUME \A p \in Handlers : pc'[p] = "dbInsert" => pc[p] = "dbInsert" /\ req'[p] = req[p],
             past' = past
      PROVE  CreateInv'
  BY <1>1, <1>2 DEF CreateInv, Versions
<1>3. CASE UNCHANGED vars \/ Crash \/ (\E key \in Keys : Expire(key)) \/ LateWrite
  BY <1>2, <1>3 DEF Crash, Expire, LateWrite, vars, localVars, tableVars
<1>4. ASSUME NEW p \in Handlers, Arrive(p) PROVE CreateInv'
  <2>1. past' = past
    BY <1>4 DEF Arrive, CreateTask, GetTask, UpdateTask, DeleteTask, ListTasks, Reject,
       Start, tableVars
  <2>2. CASE pc'[p] # "dbInsert"
    BY <1>1, <1>2, <1>4, <2>1, <2>2, OthersStay
  <2>3. CASE pc'[p] = "dbInsert"
    <3>1. PICK id \in Ids : Fresh(id) /\ req'[p].id = id
      <4>1. CreateTask(p) /\ ~Reject(p)
        BY <1>1, <1>4, <2>3
           DEF Arrive, GetTask, UpdateTask, DeleteTask, ListTasks, Reject, Start, GoOn,
               ReplyError, TypeOK
      <4>2. PICK title \in Titles, id \in Ids :
              /\ Fresh(id)
              /\ Start(p, Request("Create", id, [title |-> title, completed |-> FALSE]),
                       "dbInsert", NewTask(title))
        BY <4>1 DEF CreateTask
      <4>3. req'[p].id = id
        BY <1>1, <4>2 DEF Start, Request, TypeOK
      <4> QED BY <4>2, <4>3
    <3>2. Versions(req[p].id)' = {}
      BY <2>1, <3>1 DEF Versions, Fresh
    <3>3. \A q \in Handlers \ {p} : req'[q].id # req'[p].id
      BY <1>1, <1>4, <3>1, OthersStay DEF Fresh
    <3>4. \A q \in Handlers \ {p} : pc'[q] = "dbInsert" => Versions(req[q].id)' = {}
      BY <1>1, <1>4, <2>1, OthersStay DEF CreateInv, Versions
    <3>5. \A q, r \in Handlers \ {p} :
             q # r /\ pc'[q] = "dbInsert" /\ pc'[r] = "dbInsert" => req'[q].id # req'[r].id
      BY <1>1, <1>4, OthersStay DEF CreateInv
    <3> QED BY <3>2, <3>3, <3>4, <3>5 DEF CreateInv
  <2> QED BY <2>2, <2>3
<1>5. ASSUME NEW p \in Handlers, Step(p) PROVE CreateInv'
  <2>1. pc'[p] # "dbInsert"
    BY <1>1, <1>5
       DEF Step, CacheGet, DbGet, CacheFill, DbInsert, DbUpdate, DbDelete, CacheSet, CacheDel,
           ListDel, ListGet, DbList, ListFill, Return, Found, GoOn, Reply, ReplyError, DbFails,
           TypeOK
  <2>2. CASE past' = past
    BY <1>1, <1>2, <1>5, <2>1, <2>2, OthersStay
  <2>3. CASE past' # past
    <3>1. PICK row \in Row \cup {NoTask} : Commit(req[p].id, row)
      BY <1>1, <1>5, <2>3, WrittenIsRow
         DEF Step, CacheGet, DbGet, CacheFill, DbInsert, DbUpdate, DbDelete, CacheSet,
             CacheDel, ListDel, ListGet, DbList, ListFill, Return, NoCommit, tableVars, TypeOK
    <3>2. /\ req[p].id \in Ids
          /\ pc[p] = "dbInsert" \/ db[req[p].id] # NoTask
      BY <1>1, <1>5, <2>3, AboutOneTask
         DEF Step, CacheGet, DbGet, CacheFill, DbInsert, DbUpdate, DbDelete, CacheSet,
             CacheDel, ListDel, ListGet, DbList, ListFill, Return, NoCommit, tableVars
    <3>3. ASSUME NEW q \in Handlers \ {p}, pc[q] = "dbInsert"
          PROVE  Versions(req[q].id)' = {}
      <4>1. req[q].id # req[p].id /\ Versions(req[q].id) = {} /\ req[q].id \in Ids
        BY <1>1, <3>2, <3>3, PresentHasVersion, AboutOneTask DEF CreateInv
      <4>2. db'[req[q].id] = NoTask
        BY <1>1, <3>1, <4>1, PresentHasVersion DEF Commit, TypeOK, Table
      <4>3. req'[q] = req[q] /\ past' = past \cup {db'}
        BY <1>1, <1>5, <3>1, OthersStay DEF Commit
      <4> QED BY <4>1, <4>2, <4>3 DEF Versions
    <3> QED BY <1>1, <1>5, <2>1, <3>3, OthersStay DEF CreateInv
  <2> QED BY <2>2, <2>3
<1> QED BY <1>3, <1>4, <1>5 DEF Next

LEMMA RedisWriteGenuine ==
  ASSUME TypeOK, CacheHoldsCommitted, NEW key \in Keys, NEW value, Genuine(key, value),
         RedisWrite(key, value), past' = past
  PROVE  CacheHoldsCommitted'
<1>1. redis' \in {redis, [redis EXCEPT ![key] = value]}
      /\ late' \subseteq late \cup {<<key, value>>}
  BY DEF RedisWrite
<1>2. \A k \in Keys : \A v : Genuine(k, v) => Genuine(k, v)'
  BY DEF Genuine, Versions
<1>3. \A k \in Keys : Genuine(k, redis'[k])
  BY <1>1 DEF TypeOK, CacheHoldsCommitted
<1>4. \A m \in late' : Genuine(m[1], m[2]) /\ m[1] \in Keys
  BY <1>1 DEF CacheHoldsCommitted, TypeOK
<1> QED BY <1>3, <1>4 DEF CacheHoldsCommitted, Genuine, Versions

LEMMA CacheNext ==
  ASSUME HistoryInv, [Next]_vars
  PROVE  CacheHoldsCommitted'
<1>1. TypeInv /\ TypeOK /\ CreateInv /\ CacheHoldsCommitted /\ \A p \in Handlers : HeldBy(p)
  BY DEF HistoryInv, TypeInv
<1>2. past \subseteq past'
  BY <1>1, HistoryGrows
<1>3. \A k \in Keys : \A v : Genuine(k, v) => Genuine(k, v)'
  BY <1>2 DEF Genuine, Versions
<1>4. ASSUME \A k \in Keys : redis'[k] \in {redis[k], Miss}, late' \subseteq late
      PROVE  CacheHoldsCommitted'
  <2>1. \A k \in Keys : Genuine(k, redis'[k])
    BY <1>1, <1>4 DEF CacheHoldsCommitted, Genuine
  <2>2. \A m \in late' : Genuine(m[1], m[2]) /\ m[1] \in Keys
    BY <1>1, <1>4 DEF CacheHoldsCommitted, TypeOK
  <2> QED BY <1>2, <2>1, <2>2 DEF CacheHoldsCommitted, Genuine, Versions
<1>5. CASE UNCHANGED cacheVars
  BY <1>1, <1>4, <1>5 DEF cacheVars
<1>6. CASE \E key \in Keys : Expire(key)
  BY <1>1, <1>4, <1>6 DEF Expire, TypeOK
<1>7. CASE LateWrite
  <2>1. PICK m \in late :
          /\ redis' = [redis EXCEPT ![m[1]] = m[2]] \/ UNCHANGED redis
          /\ late' = late \ {m}
    BY <1>7 DEF LateWrite
  <2>2. m[1] \in Keys /\ Genuine(m[1], m[2])
    BY <1>1 DEF TypeOK, CacheHoldsCommitted
  <2>3. \A k \in Keys : Genuine(k, redis'[k])
    BY <1>1, <2>1, <2>2 DEF TypeOK, CacheHoldsCommitted
  <2>4. \A n \in late' : Genuine(n[1], n[2]) /\ n[1] \in Keys
    BY <1>1, <2>1 DEF TypeOK, CacheHoldsCommitted
  <2> QED BY <1>2, <2>3, <2>4 DEF CacheHoldsCommitted, Genuine, Versions
<1>8. ASSUME NEW p \in Handlers, CacheFill(p) \/ CacheSet(p)
      PROVE  CacheHoldsCommitted'
  <2>1. /\ pc[p] \in {"cacheFill", "cacheSet"} /\ past' = past
        /\ RedisWrite(req[p].id, task[p])
    BY <1>8 DEF CacheFill, CacheSet, tableVars
  <2>2. req[p].id \in Keys /\ req[p].id # ListKey
    BY <1>1, <2>1, AboutOneTask DEF Keys
  <2>3. req[p].op \in {"Create", "Get", "Update"} /\ task[p] \in Versions(req[p].id)
    BY <1>1, <2>1 DEF HeldBy, Settled, TypeInv, TypeOK, ControlInv, InPlace, Ops
  <2> QED BY <1>1, <2>1, <2>2, <2>3, RedisWriteGenuine DEF Genuine
<1>9. ASSUME NEW p \in Handlers, CacheDel(p) \/ ListDel(p)
      PROVE  CacheHoldsCommitted'
  <2>1. past' = past
    BY <1>9 DEF CacheDel, ListDel, tableVars
  <2>2. CASE CacheDel(p)
    BY <1>1, <2>1, <2>2, AboutOneTask, RedisWriteGenuine DEF CacheDel, Genuine, Keys
  <2>3. CASE ListDel(p)
    BY <1>1, <2>1, <2>3, RedisWriteGenuine DEF ListDel, Genuine, Keys
  <2> QED BY <1>9, <2>2, <2>3
<1>10. ASSUME NEW p \in Handlers, ListFill(p)
       PROVE  CacheHoldsCommitted'
  <2>1. /\ RedisWrite(ListKey, tasks[p]) /\ tasks[p] \in past /\ past' = past
        /\ ListKey \in Keys
    BY <1>1, <1>10 DEF ListFill, HeldBy, tableVars, Keys
  <2> QED BY <1>1, <2>1, RedisWriteGenuine DEF Genuine
<1>11. ASSUME NEW p \in Handlers, Arrive(p) PROVE UNCHANGED cacheVars
  BY <1>11 DEF Arrive, CreateTask, GetTask, UpdateTask, DeleteTask, ListTasks, Reject, Start
<1>12. ASSUME NEW p \in Handlers, Step(p) PROVE CacheHoldsCommitted'
  <2>1. CASE CacheGet(p) \/ DbGet(p) \/ DbInsert(p) \/ DbUpdate(p) \/ DbDelete(p)
             \/ ListGet(p) \/ DbList(p) \/ Return(p)
    BY <1>5, <2>1 DEF CacheGet, DbGet, DbInsert, DbUpdate, DbDelete, ListGet, DbList, Return
  <2> QED BY <1>8, <1>9, <1>10, <1>12, <2>1 DEF Step
<1>13. CASE UNCHANGED vars \/ Crash
  BY <1>5, <1>13 DEF Crash, vars
<1> QED BY <1>5, <1>6, <1>7, <1>11, <1>12, <1>13 DEF Next

LEMMA InitHistory == Init => HistoryInv
<1> SUFFICES ASSUME Init PROVE HistoryInv
  OBVIOUS
<1>1. \A p \in Handlers : HeldBy(p)
  BY DEF Init, HeldBy, Settled, NoRequest, Request
<1>2. CreateInv /\ CacheHoldsCommitted
  BY DEF Init, CreateInv, CacheHoldsCommitted, Genuine
<1> QED BY <1>1, <1>2, InitType DEF HistoryInv

LEMMA NextHistory == HistoryInv /\ [Next]_vars => HistoryInv'
BY NextType, HeldNext, CreateNext, CacheNext DEF HistoryInv

LEMMA HistoryCorrect == Spec => []HistoryInv
BY InitHistory, NextHistory, PTL DEF Spec

-----------------------------------------------------------------------------
(* The safety properties. *)

\* Whatever fails, races or crashes, every value in Redis, and every value a
\* late command will put there, was committed to Postgres under its key.
THEOREM CacheCorrect == Spec => []CacheHoldsCommitted
<1>1. HistoryInv => CacheHoldsCommitted
  BY DEF HistoryInv
<1> QED BY <1>1, HistoryCorrect, PTL

\* A successful reply tells the truth.
THEOREM RepliesCorrect == Spec => []RepliesTrue
<1>1. HistoryInv => RepliesTrue
  BY DEF HistoryInv, HeldBy, Settled, RepliesTrue
<1> QED BY <1>1, HistoryCorrect, PTL

\* No step brings a deleted task back.
THEOREM DeletedCorrect == Spec => DeletedStayDeleted
<1>1. HistoryInv /\ [Next]_vars =>
        [\A id \in Ids : db[id] = NoTask /\ Versions(id) # {} => db'[id] = NoTask]_vars
  BY HistoryGrows DEF HistoryInv
<1> QED BY <1>1, HistoryCorrect, PTL DEF Spec, DeletedStayDeleted

-----------------------------------------------------------------------------
(* How the cache recovers. *)

\* An agreeing key stays so when it is written with what is in the table, or
\* with nothing.
LEMMA RedisWriteAtRest ==
  ASSUME TypeOK, NEW key \in Keys, AtRest(key), Current(key)' = Current(key),
         NEW other \in Keys, NEW value, RedisWrite(other, value),
         other = key => value \in {Miss, Current(key)}
  PROVE  /\ Coherent(key)'
         /\ \A m \in late' : m[1] = key => m[2] \in {Miss, Current(key)'}
<1>1. redis' \in {redis, [redis EXCEPT ![other] = value]}
      /\ late' \subseteq late \cup {<<other, value>>}
  BY DEF RedisWrite
<1>2. redis'[key] \in {Miss, Current(key)}
  BY <1>1 DEF TypeOK, AtRest, Coherent
<1>3. \A m \in late' : m[1] = key => m[2] \in {Miss, Current(key)}
  BY <1>1 DEF AtRest
<1> QED BY <1>2, <1>3 DEF Coherent

\* A cache that nobody writes stays as it is.
LEMMA CacheStaysAtRest ==
  ASSUME NEW key \in Keys, AtRest(key), Current(key)' = Current(key), UNCHANGED cacheVars
  PROVE  /\ Coherent(key)'
         /\ \A m \in late' : m[1] = key => m[2] \in {Miss, Current(key)'}
BY DEF AtRest, Coherent, cacheVars

\* The step of a handler: what it has in hand after it is what is in the table.
LEMMA HandStaysCurrent ==
  ASSUME TypeInv, NEW p \in Handlers, Arrive(p) \/ Step(p), NEW key \in Keys,
         AtRest(key), Current(key)' = Current(key), AboutToSet(p, key)'
  PROVE  InHand(p, key)' = Current(key)'
<1>1. TypeOK /\ pc'[p] \in {"cacheFill", "cacheSet", "listFill"}
  BY DEF AboutToSet, TypeInv
<1>2. DbGet(p) \/ DbInsert(p) \/ DbUpdate(p) \/ DbList(p)
  <2>1. ~Arrive(p)
    BY <1>1 DEF Arrive, CreateTask, GetTask, UpdateTask, DeleteTask, ListTasks, Reject, Start,
       GoOn, ReplyError, TypeOK
  <2>2. ~(CacheGet(p) \/ CacheFill(p))
    BY <1>1 DEF CacheGet, CacheFill, Found, GoOn, Reply, TypeOK
  <2>3. ~(DbDelete(p) \/ CacheSet(p) \/ CacheDel(p) \/ ListDel(p))
    BY <1>1 DEF DbDelete, DbFails, CacheSet, CacheDel, ListDel, GoOn, Reply, ReplyError, TypeOK
  <2>4. ~(ListGet(p) \/ ListFill(p) \/ Return(p))
    BY <1>1 DEF ListGet, ListFill, Return, GoOn, Reply, TypeOK
  <2> QED BY <2>1, <2>2, <2>3, <2>4 DEF Step
<1>3. CASE DbGet(p)
  <2>1. /\ pc'[p] = "cacheFill" /\ task'[p] = db[req[p].id] /\ req' = req /\ db' = db
        /\ req[p].id # ListKey
    BY <1>1, <1>3, AboutOneTask DEF DbGet, DbFails, GoOn, ReplyError, TypeOK, tableVars
  <2> QED BY <2>1 DEF AboutToSet, InHand, Current
<1>4. CASE DbInsert(p) \/ DbUpdate(p)
  <2>1. /\ pc'[p] = "cacheSet" /\ task'[p] = Written(p) /\ req' = req
        /\ Commit(req[p].id, Written(p))
    BY <1>1, <1>4 DEF DbInsert, DbUpdate, DbFails, GoOn, ReplyError, TypeOK
  <2>2. req[p].id \in Ids /\ req[p].id # ListKey
    BY <1>4, AboutOneTask DEF DbInsert, DbUpdate
  <2>3. db'[req[p].id] = Written(p)
    BY <1>1, <2>1, <2>2 DEF Commit, TypeOK, Table
  <2> QED BY <2>1, <2>2, <2>3 DEF AboutToSet, InHand, Current
<1>5. CASE DbList(p)
  <2>1. pc'[p] = "listFill" /\ tasks'[p] = db /\ db' = db
    BY <1>1, <1>5 DEF DbList, DbFails, GoOn, ReplyError, TypeOK, tableVars
  <2> QED BY <2>1 DEF AboutToSet, InHand, Current
<1> QED BY <1>2, <1>3, <1>4, <1>5

\* The cache after a step of a handler.
LEMMA StepCacheAtRest ==
  ASSUME TypeInv, NEW p \in Handlers, Arrive(p) \/ Step(p), NEW key \in Keys,
         AtRest(key), Current(key)' = Current(key)
  PROVE  /\ Coherent(key)'
         /\ \A m \in late' : m[1] = key => m[2] \in {Miss, Current(key)'}
<1>1. TypeOK /\ (AboutToSet(p, key) => InHand(p, key) = Current(key))
  BY DEF TypeInv, AtRest
<1>2. CASE CacheFill(p) \/ CacheSet(p)
  <2>1. pc[p] \in {"cacheFill", "cacheSet"} /\ RedisWrite(req[p].id, task[p])
    BY <1>2 DEF CacheFill, CacheSet
  <2>2. req[p].id \in Keys /\ req[p].id # ListKey
    BY <2>1, AboutOneTask DEF Keys
  <2>3. req[p].id = key => task[p] = Current(key)
    BY <1>1, <2>1, <2>2 DEF AboutToSet, InHand
  <2> QED BY <1>1, <2>1, <2>2, <2>3, RedisWriteAtRest
<1>3. CASE CacheDel(p)
  BY <1>1, <1>3, AboutOneTask, RedisWriteAtRest DEF CacheDel, Keys
<1>4. CASE ListDel(p)
  BY <1>1, <1>4, RedisWriteAtRest DEF ListDel, Keys
<1>5. CASE ListFill(p)
  <2>1. RedisWrite(ListKey, tasks[p]) /\ ListKey \in Keys
    BY <1>5 DEF ListFill, Keys
  <2>2. key = ListKey => tasks[p] = Current(key)
    BY <1>1, <1>5 DEF ListFill, AboutToSet, InHand
  <2> QED BY <1>1, <2>1, <2>2, RedisWriteAtRest
<1>6. CASE Arrive(p)
  BY <1>6, CacheStaysAtRest DEF Arrive, CreateTask, GetTask, UpdateTask, DeleteTask,
     ListTasks, Reject, Start
<1>7. CASE CacheGet(p) \/ DbGet(p) \/ DbInsert(p) \/ DbUpdate(p) \/ DbDelete(p)
           \/ ListGet(p) \/ DbList(p) \/ Return(p)
  BY <1>7, CacheStaysAtRest DEF CacheGet, DbGet, DbInsert, DbUpdate, DbDelete, ListGet,
     DbList, Return
<1> QED BY <1>2, <1>3, <1>4, <1>5, <1>6, <1>7 DEF Step

LEMMA NextAtRest ==
  ASSUME TypeInv, [Next]_vars, NEW key \in Keys, AtRest(key), Current(key)' = Current(key)
  PROVE  AtRest(key)'
<1>1. TypeOK /\ \A q \in Handlers : AboutToSet(q, key) => InHand(q, key) = Current(key)
  BY DEF TypeInv, AtRest
<1>2. ASSUME NEW q \in Handlers, AboutToSet(q, key)', pc'[q] = pc[q], req'[q] = req[q],
             task'[q] = task[q], tasks'[q] = tasks[q]
      PROVE  InHand(q, key)' = Current(key)'
  BY <1>1, <1>2 DEF AboutToSet, InHand
<1>3. ASSUME NEW p \in Handlers, Arrive(p) \/ Step(p) PROVE AtRest(key)'
  <2>1. \A q \in Handlers : AboutToSet(q, key)' => InHand(q, key)' = Current(key)'
    BY <1>2, <1>3, OthersStay, HandStaysCurrent
  <2> QED BY <1>3, <2>1, StepCacheAtRest DEF AtRest
<1>4. CASE Crash
  <2>1. \A q \in Handlers : AboutToSet(q, key)' => InHand(q, key)' = Current(key)'
    <3>1. ASSUME NEW q \in Handlers, pc'[q] = "idle" PROVE ~AboutToSet(q, key)'
      BY <3>1 DEF AboutToSet
    <3> QED BY <1>2, <1>4, <3>1, CrashEach
  <2> QED BY <1>4, <2>1, CacheStaysAtRest DEF Crash, AtRest
<1>5. CASE (\E k \in Keys : Expire(k)) \/ LateWrite \/ UNCHANGED vars
  <2>1. UNCHANGED localVars
    BY <1>5 DEF Expire, LateWrite, vars
  <2>2. \A q \in Handlers : AboutToSet(q, key)' => InHand(q, key)' = Current(key)'
    BY <1>2, <2>1 DEF localVars
  <2>3. late' \subseteq late
    BY <1>5 DEF Expire, LateWrite, vars, cacheVars
  <2>4. redis'[key] \in {Miss, Current(key)}
    <3>1. CASE \E k \in Keys : Expire(k)
      BY <1>1, <3>1 DEF Expire, TypeOK, AtRest, Coherent
    <3>2. CASE LateWrite
      BY <1>1, <3>2 DEF LateWrite, TypeOK, AtRest, Coherent
    <3>3. CASE UNCHANGED vars
      BY <3>3 DEF vars, cacheVars, AtRest, Coherent
    <3> QED BY <1>5, <3>1, <3>2, <3>3
  <2> QED BY <2>2, <2>3, <2>4 DEF AtRest, Coherent
<1> QED BY <1>3, <1>4, <1>5 DEF Next

\* Only a statement can make a key stale again that agrees with the table and
\* that nobody is about to SET to an older value.
THEOREM CoherenceCorrect == Spec => CoherenceLasts
<1>1. TypeInv /\ [Next]_vars =>
        [\A key \in Keys :
           AtRest(key) /\ Current(key)' = Current(key) => AtRest(key)']_vars
  BY NextAtRest
<1> QED BY <1>1, InitType, NextType, PTL DEF Spec, CoherenceLasts

-----------------------------------------------------------------------------
(* A lost update needs an old copy. *)

\* What a handler at its UPDATE holds is a version of the task with the changes
\* of its request.
Merged(p) ==
  pc[p] = "dbUpdate" =>
    \E row \in Versions(req[p].id) : task[p] = ApplyPatch(row, req[p].patch)

\* ver tells the versions of a task apart.
NumberInv ==
  /\ \A t \in past : \A id \in Ids : t[id] # NoTask => t[id].ver <= commits
  /\ \A t, u \in past : \A id \in Ids :
       t[id] # NoTask /\ u[id] # NoTask /\ t[id].ver = u[id].ver => t[id] = u[id]

CopyInv == NumberInv /\ \A p \in Handlers : Merged(p)

\* What a statement that commits writes.
LEMMA WhatCommits ==
  ASSUME TypeInv, [Next]_vars
  PROVE  \/ UNCHANGED tableVars
         \/ \E p \in Handlers : \E row \in {NoTask, Written(p)} :
              /\ req[p].id \in Ids /\ Commit(req[p].id, row)
              /\ row = NoTask \/ pc[p] \in {"dbInsert", "dbUpdate"}
<1>1. ASSUME NEW p \in Handlers, DbInsert(p) \/ DbUpdate(p) \/ DbDelete(p)
      PROVE  \/ UNCHANGED tableVars
             \/ \E row \in {NoTask, Written(p)} :
                  /\ req[p].id \in Ids /\ Commit(req[p].id, row)
                  /\ row = NoTask \/ pc[p] \in {"dbInsert", "dbUpdate"}
  <2>1. req[p].id \in Ids
    BY <1>1, AboutOneTask DEF DbInsert, DbUpdate, DbDelete
  <2> QED BY <1>1, <2>1 DEF DbInsert, DbUpdate, DbDelete, NoCommit
<1>2. CASE \A p \in Handlers : ~(DbInsert(p) \/ DbUpdate(p) \/ DbDelete(p))
  BY <1>2 DEF Next, Arrive, CreateTask, GetTask, UpdateTask, DeleteTask, ListTasks, Reject,
     Start, Step, CacheGet, DbGet, CacheFill, CacheSet, CacheDel, ListDel, ListGet,
     DbList, ListFill, Return, Crash, Expire, LateWrite, vars, tableVars
<1> QED BY <1>1, <1>2

\* The table numbers its versions.
LEMMA NextNumbers ==
  ASSUME TypeInv, NumberInv, [Next]_vars
  PROVE  NumberInv'
<1>1. CASE UNCHANGED tableVars
  BY <1>1 DEF NumberInv, tableVars
<1>2. ASSUME NEW p \in Handlers, NEW row \in {NoTask, Written(p)},
             req[p].id \in Ids, Commit(req[p].id, row)
      PROVE  NumberInv'
  <2>1. /\ db \in past /\ past \subseteq Table /\ db \in Table /\ commits \in Nat
        /\ past' = past \cup {db'} /\ commits' = commits + 1
        /\ db' = [db EXCEPT ![req[p].id] = row]
    BY <1>2 DEF Commit, TypeInv, TypeOK
  <2>2. row # NoTask => row.ver = commits + 1
    BY <1>2 DEF Written
  <2>3. ASSUME NEW t \in past, NEW id \in Ids, t[id] # NoTask
        PROVE  t[id].ver \in Nat /\ t[id].ver <= commits
    BY <2>1, <2>3 DEF NumberInv, Table, Row
  <2>4. ASSUME NEW id \in Ids
        PROVE  db'[id] = db[id] \/ (db'[id] # NoTask => db'[id].ver = commits + 1)
    BY <2>1, <2>2 DEF Table
  <2>5. ASSUME NEW t \in past', NEW id \in Ids, t[id] # NoTask
        PROVE  t[id].ver <= commits'
    <3>1. CASE t \in past
      BY <2>1, <2>3, <2>5, <3>1
    <3>2. CASE t = db' /\ db'[id] = db[id]
      BY <2>1, <2>3, <2>5, <3>2
    <3>3. CASE t = db' /\ db'[id] # db[id]
      BY <2>1, <2>4, <2>5, <3>3
    <3> QED BY <2>1, <3>1, <3>2, <3>3
  <2>6. ASSUME NEW t \in past', NEW u \in past', NEW id \in Ids,
               t[id] # NoTask, u[id] # NoTask, t[id].ver = u[id].ver
        PROVE  t[id] = u[id]
    <3>1. CASE t \in past /\ u \in past
      BY <2>6, <3>1 DEF NumberInv
    <3>2. ASSUME NEW v \in past, v[id] # NoTask, db'[id] # NoTask, v[id].ver = db'[id].ver
          PROVE  v[id] = db'[id]
      <4>1. v[id].ver # commits + 1
        BY <2>1, <2>3, <3>2
      <4>2. db'[id] = db[id]
        BY <2>4, <3>2, <4>1
      <4> QED BY <2>1, <3>2, <4>2 DEF NumberInv
    <3>3. CASE t \in past /\ u = db'
      BY <2>6, <3>2, <3>3
    <3>4. CASE t = db' /\ u \in past
      BY <2>6, <3>2, <3>4
    <3> QED BY <2>1, <3>1, <3>3, <3>4
  <2> QED BY <2>5, <2>6 DEF NumberInv
<1> QED BY <1>1, <1>2, WhatCommits

\* GetByID found a version of the task.
LEMMA MergedFound ==
  ASSUME TypeOK, NEW p \in Handlers, NEW row \in Versions(req[p].id),
         past \subseteq past', Found(p, row), req' = req
  PROVE  Merged(p)'
<1>1. pc'[p] = "dbUpdate" => task'[p] = ApplyPatch(row, req[p].patch)
  BY DEF Found, Reply, GoOn, TypeOK
<1>2. row \in Versions(req[p].id)'
  BY VersionsGrow DEF Versions
<1> QED BY <1>1, <1>2 DEF Merged, ApplyPatch, Versions

\* What the handler that moves brings to its UPDATE.
LEMMA MergedInHand ==
  ASSUME HistoryInv, NEW p \in Handlers, Arrive(p) \/ Step(p), past \subseteq past'
  PROVE  Merged(p)'
<1>1. TypeInv /\ TypeOK /\ CacheHoldsCommitted /\ HeldBy(p)
  BY DEF HistoryInv, TypeInv
<1>2. CASE CacheGet(p)
  <2>1. /\ req[p].id \in Ids /\ req[p].id # ListKey /\ req[p].id \in Keys /\ req' = req
    BY <1>1, <1>2, AboutOneTask DEF CacheGet, Keys
  <2>2. CASE GoOn(p, "dbGet", NoTask)
    BY <1>1, <2>2 DEF GoOn, Merged, TypeOK
  <2>3. CASE RedisHits(req[p].id) /\ Found(p, redis[req[p].id])
    <3>1. redis[req[p].id] \in Versions(req[p].id)
      BY <1>1, <2>1, <2>3 DEF RedisHits, CacheHoldsCommitted, Genuine
    <3> QED BY <1>1, <2>1, <2>3, <3>1, MergedFound
  <2> QED BY <1>2, <2>2, <2>3 DEF CacheGet
<1>3. CASE CacheFill(p)
  <2>1. Found(p, task[p]) /\ task[p] \in Versions(req[p].id) /\ req' = req
    BY <1>1, <1>3 DEF CacheFill, HeldBy
  <2> QED BY <1>1, <2>1, MergedFound
<1>4. CASE Arrive(p)
  <2>1. pc'[p] # "dbUpdate"
    BY <1>1, <1>4 DEF Arrive, CreateTask, GetTask, UpdateTask, DeleteTask, ListTasks, Reject,
       Start, GoOn, ReplyError, TypeOK
  <2> QED BY <2>1 DEF Merged
<1>5. CASE Step(p) /\ ~CacheGet(p) /\ ~CacheFill(p)
  <2>1. pc'[p] # "dbUpdate"
    <3>1. CASE DbGet(p) \/ DbInsert(p) \/ DbUpdate(p) \/ DbDelete(p)
      BY <1>1, <3>1 DEF DbGet, DbInsert, DbUpdate, DbDelete, DbFails, GoOn, ReplyError, TypeOK
    <3>2. CASE CacheSet(p) \/ CacheDel(p) \/ ListDel(p) \/ ListGet(p) \/ DbList(p)
               \/ ListFill(p) \/ Return(p)
      BY <1>1, <3>2 DEF CacheSet, CacheDel, ListDel, ListGet, DbList, ListFill, Return, DbFails,
         GoOn, Reply, ReplyError, TypeOK
    <3> QED BY <1>5, <3>1, <3>2 DEF Step
  <2> QED BY <2>1 DEF Merged
<1> QED BY <1>2, <1>3, <1>4, <1>5

LEMMA NextCopies == HistoryInv /\ CopyInv /\ [Next]_vars => CopyInv'
<1> SUFFICES ASSUME HistoryInv, CopyInv, [Next]_vars PROVE CopyInv'
  OBVIOUS
<1>1. /\ TypeInv /\ TypeOK /\ NumberInv /\ past \subseteq past'
      /\ \A p \in Handlers : Merged(p)
  BY HistoryGrows DEF HistoryInv, TypeInv, CopyInv
<1>2. ASSUME NEW q \in Handlers, pc'[q] = pc[q], req'[q] = req[q], task'[q] = task[q]
      PROVE  Merged(q)'
  <2>1. Versions(req[q].id) \subseteq Versions(req[q].id)'
    BY <1>1, <1>2 DEF Versions
  <2>2. ASSUME pc'[q] = "dbUpdate"
        PROVE  \E row \in Versions(req[q].id)' : task'[q] = ApplyPatch(row, req'[q].patch)
    BY <1>1, <1>2, <2>1, <2>2 DEF Merged
  <2> QED BY <2>2 DEF Merged, ApplyPatch, Versions
<1>3. ASSUME NEW p \in Handlers, Arrive(p) \/ Step(p), NEW q \in Handlers PROVE Merged(q)'
  BY <1>1, <1>2, <1>3, OthersStay, MergedInHand
<1>4. ASSUME Crash, NEW q \in Handlers PROVE Merged(q)'
  BY <1>2, <1>4, CrashEach DEF Merged
<1>5. ASSUME (\E key \in Keys : Expire(key)) \/ LateWrite \/ UNCHANGED vars, NEW q \in Handlers
      PROVE  Merged(q)'
  BY <1>2, <1>5 DEF Expire, LateWrite, vars, localVars
<1> QED BY <1>1, <1>3, <1>4, <1>5, NextNumbers DEF Next, CopyInv

\* A statement that commits is its handler's own, and writes what it holds.
LEMMA UpdateFromCurrentCopy ==
  HistoryInv /\ CopyInv /\ [Next]_vars =>
    \A p \in Handlers :
      /\ pc[p] = "dbUpdate" /\ pc'[p] # pc[p]
      /\ db[req[p].id] # NoTask /\ db'[req[p].id] # db[req[p].id]
      /\ task[p].ver = db[req[p].id].ver
      => /\ req[p].patch.title = Absent => db'[req[p].id].title = db[req[p].id].title
         /\ req[p].patch.completed = Absent =>
              db'[req[p].id].completed = db[req[p].id].completed
<1> SUFFICES ASSUME HistoryInv, CopyInv, [Next]_vars, NEW p \in Handlers,
                    pc[p] = "dbUpdate", pc'[p] # pc[p],
                    db[req[p].id] # NoTask, db'[req[p].id] # db[req[p].id],
                    task[p].ver = db[req[p].id].ver
             PROVE  /\ req[p].patch.title = Absent =>
                         db'[req[p].id].title = db[req[p].id].title
                    /\ req[p].patch.completed = Absent =>
                         db'[req[p].id].completed = db[req[p].id].completed
  OBVIOUS
<1>1. /\ TypeInv /\ TypeOK /\ NumberInv /\ Merged(p) /\ req[p].id \in Ids /\ db \in past
  BY AboutOneTask DEF HistoryInv, TypeInv, TypeOK, CopyInv
<1>2. DbUpdate(p)
  <2>1. PICK q \in Handlers : Arrive(q) \/ Step(q)
    BY DEF Next, Crash, Expire, LateWrite, vars, tableVars, localVars
  <2>2. q = p
    BY <1>1, <2>1, OthersStay
  <2>3. ~Arrive(p)
    BY DEF Arrive, CreateTask, GetTask, UpdateTask, DeleteTask, ListTasks, Reject, Start
  <2> QED BY <2>1, <2>2, <2>3 DEF Step, CacheGet, DbGet, CacheFill, DbInsert, DbDelete,
       CacheSet, CacheDel, ListDel, ListGet, DbList, ListFill, Return
<1>3. Commit(req[p].id, Written(p))
  BY <1>2 DEF DbUpdate, NoCommit, tableVars
<1>4. db'[req[p].id] = Written(p)
  BY <1>1, <1>3 DEF Commit, TypeOK, Table
<1>5. PICK row \in Versions(req[p].id) : task[p] = ApplyPatch(row, req[p].patch)
  BY <1>1 DEF Merged
<1>6. row = db[req[p].id]
  <2>1. row.ver = task[p].ver
    BY <1>5 DEF ApplyPatch
  <2>2. PICK t \in past : t[req[p].id] = row /\ row # NoTask
    BY <1>5 DEF Versions
  <2> QED BY <1>1, <2>1, <2>2 DEF NumberInv
<1> QED BY <1>4, <1>5, <1>6 DEF Written, ApplyPatch

LEMMA InitCopies == Init => CopyInv
BY DEF Init, CopyInv, NumberInv, Merged

LEMMA CopiesCorrect == Spec => []CopyInv
BY InitCopies, NextCopies, HistoryCorrect, PTL DEF Spec

\* A lost update has one cause, a copy that is older than the row.
THEOREM LostUpdatesExplained == Spec => OnlyOldCopiesLoseFields
<1>1. HistoryInv /\ CopyInv /\ [Next]_vars =>
        [\A p \in Handlers :
           LET id == req[p].id IN
           /\ pc[p] = "dbUpdate" /\ pc'[p] # pc[p]
           /\ db[id] # NoTask /\ db'[id] # db[id]
           /\ task[p].ver = db[id].ver
           => /\ req[p].patch.title = Absent => db'[id].title = db[id].title
              /\ req[p].patch.completed = Absent =>
                   db'[id].completed = db[id].completed]_vars
  BY UpdateFromCurrentCopy
<1> QED BY <1>1, CopiesCorrect, HistoryCorrect, PTL DEF Spec, OnlyOldCopiesLoseFields

-----------------------------------------------------------------------------
(* What the code makes of what the repository says: UpdateTask is the only   *)
(* way to a task without a title, and no error is a NotFound.                *)

PatchesKeepTitles == \A patch \in Patches : patch.title # EmptyTitle

\* No version of a task is without a title, nor a task about to be inserted; and
\* an update is one of those clients send.
TitlesInv ==
  PatchesKeepTitles =>
    /\ \A t \in past : \A id \in Ids : t[id] # NoTask => t[id].title # EmptyTitle
    /\ \A p \in Handlers : pc[p] = "dbInsert" => task[p].title # EmptyTitle
    /\ \A p \in Handlers : req[p].op = "Update" => req[p].patch \in Patches

\* What the handler that moves is about to insert.
LEMMA TitledInHand ==
  ASSUME TypeInv, NEW p \in Handlers, Arrive(p) \/ Step(p), pc'[p] = "dbInsert"
  PROVE  task'[p].title # EmptyTitle
<1>1. TypeOK
  BY DEF TypeInv
<1>2. CreateTask(p) /\ ~Reject(p)
  <2>1. ~(Reject(p) \/ GetTask(p) \/ UpdateTask(p) \/ DeleteTask(p) \/ ListTasks(p))
    BY <1>1 DEF GetTask, UpdateTask, DeleteTask, ListTasks, Reject, Start, GoOn, ReplyError,
       TypeOK
  <2>2. ~(CacheGet(p) \/ DbGet(p) \/ CacheFill(p) \/ DbInsert(p) \/ DbUpdate(p) \/ DbDelete(p))
    BY <1>1 DEF CacheGet, DbGet, CacheFill, DbInsert, DbUpdate, DbDelete, DbFails, Found, GoOn,
       Reply, ReplyError, TypeOK
  <2>3. ~(CacheSet(p) \/ CacheDel(p) \/ ListDel(p) \/ ListGet(p) \/ DbList(p)
          \/ ListFill(p) \/ Return(p))
    BY <1>1 DEF CacheSet, CacheDel, ListDel, ListGet, DbList, ListFill, Return, DbFails, GoOn,
       Reply, ReplyError, TypeOK
  <2> QED BY <2>1, <2>2, <2>3 DEF Arrive, Step
<1>3. PICK title \in Titles \ {EmptyTitle}, id \in Ids :
        Start(p, Request("Create", id, [title |-> title, completed |-> FALSE]),
              "dbInsert", NewTask(title))
  BY <1>2 DEF CreateTask
<1>4. task'[p] = NewTask(title)
  BY <1>1, <1>3 DEF Start, GoOn, TypeOK
<1> QED BY <1>3, <1>4 DEF NewTask

\* What the statement that commits puts into the history.
LEMMA TitledCommit ==
  ASSUME TypeInv, CopyInv, TitlesInv, PatchesKeepTitles, [Next]_vars
  PROVE  \A t \in past' : \A id \in Ids : t[id] # NoTask => t[id].title # EmptyTitle
<1>1. CASE UNCHANGED tableVars
  BY <1>1 DEF TitlesInv, tableVars
<1>2. ASSUME NEW p \in Handlers, NEW row \in {NoTask, Written(p)},
             req[p].id \in Ids, Commit(req[p].id, row),
             row = NoTask \/ pc[p] \in {"dbInsert", "dbUpdate"}
      PROVE  \A t \in past' : \A id \in Ids : t[id] # NoTask => t[id].title # EmptyTitle
  <2>1. pc[p] = "dbInsert" => task[p].title # EmptyTitle
    BY DEF TitlesInv
  <2>2. pc[p] = "dbUpdate" => task[p].title # EmptyTitle
    <3> SUFFICES ASSUME pc[p] = "dbUpdate" PROVE task[p].title # EmptyTitle
      OBVIOUS
    <3>1. PICK copy \in Versions(req[p].id) : task[p] = ApplyPatch(copy, req[p].patch)
      BY DEF CopyInv, Merged
    <3>2. copy.title # EmptyTitle
      BY <1>2, <3>1 DEF TitlesInv, Versions
    <3>3. req[p].op = "Update" /\ req[p].patch.title # EmptyTitle
      BY DEF TitlesInv, PatchesKeepTitles, TypeInv, ControlInv, InPlace, TypeOK, Ops
    <3> QED BY <3>1, <3>2, <3>3 DEF ApplyPatch
  <2>3. row # NoTask => row.title # EmptyTitle
    BY <1>2, <2>1, <2>2 DEF Written
  <2>4. \A id \in Ids : db'[id] # NoTask => db'[id].title # EmptyTitle
    BY <1>2, <2>3 DEF Commit, TitlesInv, TypeInv, TypeOK, Table
  <2> QED BY <1>2, <2>4 DEF Commit, TitlesInv
<1> QED BY <1>1, <1>2, WhatCommits

LEMMA NextTitles ==
  ASSUME HistoryInv, CopyInv, TitlesInv, [Next]_vars
  PROVE  TitlesInv'
<1> SUFFICES ASSUME PatchesKeepTitles PROVE TitlesInv'
  BY DEF TitlesInv, PatchesKeepTitles
<1>1. /\ TypeInv /\ TypeOK
      /\ \A p \in Handlers : pc[p] = "dbInsert" => task[p].title # EmptyTitle
      /\ \A p \in Handlers : req[p].op = "Update" => req[p].patch \in Patches
  BY DEF HistoryInv, TypeInv, TitlesInv
<1>2. \A t \in past' : \A id \in Ids : t[id] # NoTask => t[id].title # EmptyTitle
  BY <1>1, TitledCommit
<1>3. ASSUME NEW q \in Handlers, pc'[q] = pc[q], req'[q] = req[q], task'[q] = task[q]
      PROVE  /\ pc'[q] = "dbInsert" => task'[q].title # EmptyTitle
             /\ req'[q].op = "Update" => req'[q].patch \in Patches
  BY <1>1, <1>3
<1>4. ASSUME NEW p \in Handlers, Arrive(p) \/ Step(p), NEW q \in Handlers
      PROVE  /\ pc'[q] = "dbInsert" => task'[q].title # EmptyTitle
             /\ req'[q].op = "Update" => req'[q].patch \in Patches
  <2>1. CASE q # p
    BY <1>1, <1>3, <1>4, <2>1, OthersStay
  <2>2. CASE q = p
    <3>1. req'[p].op = "Update" => req'[p].patch \in Patches
      <4>1. CASE Step(p)
        <5>1. req' = req \/ req'[p] = NoRequest
          BY <1>1, <4>1 DEF Step, CacheGet, DbGet, CacheFill, DbInsert, DbUpdate, DbDelete,
             CacheSet, CacheDel, ListDel, ListGet, DbList, ListFill, Return, TypeOK
        <5> QED BY <1>1, <5>1 DEF NoRequest, Request
      <4>2. CASE Arrive(p)
        <5>1. CASE Reject(p)
          BY <1>1, <5>1 DEF Reject
        <5>2. CASE CreateTask(p) /\ ~Reject(p)
          <6>1. PICK title \in Titles, id \in Ids :
                  req' = [req EXCEPT ![p] =
                    Request("Create", id, [title |-> title, completed |-> FALSE])]
            BY <5>2 DEF CreateTask, Start
          <6> QED BY <1>1, <6>1 DEF Request, TypeOK
        <5>3. CASE UpdateTask(p)
          BY <1>1, <5>3 DEF UpdateTask, Start, Request, TypeOK
        <5>4. CASE GetTask(p)
          BY <1>1, <5>4 DEF GetTask, Start, Request, TypeOK
        <5>5. CASE DeleteTask(p)
          BY <1>1, <5>5 DEF DeleteTask, Start, Request, TypeOK
        <5>6. CASE ListTasks(p)
          BY <1>1, <5>6 DEF ListTasks, Start, Request, TypeOK
        <5> QED BY <4>2, <5>1, <5>2, <5>3, <5>4, <5>5, <5>6 DEF Arrive
      <4> QED BY <1>4, <4>1, <4>2
    <3> QED BY <1>1, <1>4, <2>2, <3>1, TitledInHand
  <2> QED BY <2>1, <2>2
<1>5. CASE Crash
  <2>1. ASSUME NEW q \in Handlers
        PROVE  /\ pc'[q] = "dbInsert" => task'[q].title # EmptyTitle
               /\ req'[q].op = "Update" => req'[q].patch \in Patches
    BY <1>1, <1>3, <1>5, CrashEach DEF NoRequest, Request
  <2> QED BY <1>2, <2>1 DEF TitlesInv
<1>6. CASE (\E key \in Keys : Expire(key)) \/ LateWrite \/ UNCHANGED vars
  <2>1. UNCHANGED localVars
    BY <1>6 DEF Expire, LateWrite, vars
  <2> QED BY <1>1, <1>2, <2>1 DEF TitlesInv, localVars
<1>7. ASSUME NEW p \in Handlers, Arrive(p) \/ Step(p) PROVE TitlesInv'
  BY <1>2, <1>4, <1>7 DEF TitlesInv
<1> QED BY <1>5, <1>6, <1>7 DEF Next

\* While no update asks for an empty title, no task is without one: CreateTask
\* refuses it, and no stale copy brings one in.
THEOREM TitlesCorrect == Spec => [](PatchesKeepTitles => TitlesRequired)
<1>1. Init => TitlesInv
  BY DEF Init, TitlesInv, NoRequest, Request
<1>2. HistoryInv /\ CopyInv /\ TitlesInv /\ [Next]_vars => TitlesInv'
  BY NextTitles
<1>3. HistoryInv /\ TitlesInv => (PatchesKeepTitles => TitlesRequired)
  BY DEF HistoryInv, TypeInv, TypeOK, TitlesInv, TitlesRequired
<1> QED BY <1>1, <1>2, <1>3, CopiesCorrect, HistoryCorrect, PTL DEF Spec

\* A RepositoryError has its operation in front of its text, and the text of
\* IsNotFoundError has none.
LEMMA NamedErrorIsInternal ==
  ASSUME NEW op, op # "", NEW err
  PROVE  WrapRepositoryError(WrapError(op, err)) = "Internal"
<1>1. ErrorText(WrapError(op, err)) = <<op, err>>
  BY DEF ErrorText, WrapError
<1>2. <<op, err>> # <<"no rows in result set">>
  OBVIOUS
<1> QED BY <1>1, <1>2 DEF WrapRepositoryError, IsNotFoundError, IsConstraintViolationError

\* Whatever a statement fails with.
LEMMA StatementErrorIsInternal ==
  ASSUME NEW op, op # "", NEW e
  PROVE  StatusOf(op, e) = "Internal"
BY NamedErrorIsInternal DEF StatusOf, HandlePgxError

\* Of the codes WrapRepositoryError and the handlers know, clients see these.
SeenStatuses == {"none", "OK", "InvalidArgument", "Internal"}

\* What a step of a handler makes of its status.
LEMMA StepSeen ==
  ASSUME TypeInv, NEW p \in Handlers, Arrive(p) \/ Step(p), code[p] \in SeenStatuses
  PROVE  code'[p] \in SeenStatuses
<1>1. TypeOK
  BY DEF TypeInv
<1>2. ASSUME NEW op, op # "", DbFails(p, op)
      PROVE  code'[p] = "Internal"
  <2>1. PICK e : ReplyError(p, StatusOf(op, e))
    BY <1>2 DEF DbFails
  <2> QED BY <1>1, <1>2, <2>1, StatementErrorIsInternal DEF ReplyError, TypeOK
<1>3. CASE Arrive(p)
  BY <1>1, <1>3 DEF Arrive, CreateTask, GetTask, UpdateTask, DeleteTask, ListTasks, Reject,
     Start, GoOn, ReplyError, SeenStatuses, TypeOK
<1>4. CASE CacheGet(p) \/ CacheFill(p) \/ CacheSet(p) \/ CacheDel(p) \/ ListDel(p)
           \/ ListGet(p) \/ ListFill(p) \/ Return(p)
  BY <1>1, <1>4 DEF CacheGet, CacheFill, CacheSet, CacheDel, ListDel, ListGet, ListFill, Return,
     Found, GoOn, Reply, SeenStatuses, TypeOK
<1>5. CASE DbGet(p)
  <2>1. \/ GoOn(p, "cacheFill", db[req[p].id])
        \/ ReplyError(p, StatusOf("get_task_by_id", NoRows))
        \/ DbFails(p, "get_task_by_id")
    BY <1>5 DEF DbGet
  <2>2. StatusOf("get_task_by_id", NoRows) = "Internal"
    BY StatementErrorIsInternal
  <2> QED BY <1>1, <1>2, <2>1, <2>2 DEF GoOn, ReplyError, SeenStatuses, TypeOK
<1>6. CASE DbInsert(p)
  <2>1. GoOn(p, "cacheSet", Written(p)) \/ DbFails(p, "create_task")
    BY <1>6 DEF DbInsert
  <2> QED BY <1>1, <1>2, <2>1 DEF GoOn, SeenStatuses, TypeOK
<1>7. CASE DbUpdate(p)
  <2>1. \/ GoOn(p, "cacheSet", Written(p))
        \/ ReplyError(p, StatusOf("update_task", NoRows))
        \/ DbFails(p, "update_task")
    BY <1>7 DEF DbUpdate
  <2>2. StatusOf("update_task", NoRows) = "Internal"
    BY StatementErrorIsInternal
  <2> QED BY <1>1, <1>2, <2>1, <2>2 DEF GoOn, ReplyError, SeenStatuses, TypeOK
<1>8. CASE DbDelete(p)
  <2>1. \/ GoOn(p, "cacheDel", NoTask)
        \/ ReplyError(p, WrapRepositoryError(WrapError("delete_task", "task not found")))
        \/ DbFails(p, "delete_task")
    BY <1>8 DEF DbDelete
  <2>2. WrapRepositoryError(WrapError("delete_task", "task not found")) = "Internal"
    BY NamedErrorIsInternal
  <2> QED BY <1>1, <1>2, <2>1, <2>2 DEF GoOn, ReplyError, SeenStatuses, TypeOK
<1>9. CASE DbList(p)
  <2>1. GoOn(p, "listFill", NoTask) \/ DbFails(p, "list_tasks")
    BY <1>9 DEF DbList
  <2> QED BY <1>1, <1>2, <2>1 DEF GoOn, SeenStatuses, TypeOK
<1> QED BY <1>3, <1>4, <1>5, <1>6, <1>7, <1>8, <1>9 DEF Step

\* No reply ever has the status NotFound, nor AlreadyExists: whatever is asked
\* for and whatever fails, the client of a failed statement is told Internal.
\* This is what run not_found_status shows of one request.
THEOREM NotFoundNever == Spec => [](\A p \in Handlers : code[p] \in SeenStatuses)
<1> DEFINE Seen == \A p \in Handlers : code[p] \in SeenStatuses
<1>1. Init => Seen
  BY DEF Init, SeenStatuses
<1>2. TypeInv /\ Seen /\ [Next]_vars => Seen'
  <2> SUFFICES ASSUME TypeInv, Seen, [Next]_vars, NEW q \in Handlers
               PROVE  code'[q] \in SeenStatuses
    OBVIOUS
  <2>1. ASSUME NEW p \in Handlers, Arrive(p) \/ Step(p)
        PROVE  code'[q] \in SeenStatuses
    BY <2>1, StepSeen, OthersStay
  <2>2. CASE Crash
    BY <2>2, CrashEach DEF SeenStatuses
  <2>3. CASE (\E key \in Keys : Expire(key)) \/ LateWrite \/ UNCHANGED vars
    BY <2>3 DEF Expire, LateWrite, vars, localVars
  <2> QED BY <2>1, <2>2, <2>3 DEF Next
<1> QED BY <1>1, <1>2, InitType, NextType, PTL DEF Spec
=============================================================================
