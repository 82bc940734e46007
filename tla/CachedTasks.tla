----------------------------- MODULE CachedTasks -----------------------------
(***************************************************************************)
(* The task service as its clients see it: concurrent gRPC handlers that   *)
(* run taskService, cachedTaskRepository, taskRepository and redisCache    *)
(* over one Postgres table and one Redis keyspace.  A step of a handler is *)
(* one call to Postgres or to Redis and the code up to the next call, so   *)
(* the steps of several handlers interleave the way goroutines do.         *)
(*                                                                         *)
(* A row is abstracted to its title, its completed flag and ver, the       *)
(* number of the commit that wrote it (standing for updated_at and for     *)
(* whatever else tells two versions apart).  description behaves as title  *)
(* without the emptiness check; created_at is only used to sort lists.     *)
(***************************************************************************)
EXTENDS Naturals, FiniteSets, ErrorCodes

CONSTANTS
  Ids,         \* task identifiers (uuid.New never returns one twice)
  Handlers,    \* requests that can be in progress at the same time
  Titles,      \* the titles clients send
  EmptyTitle,  \* the title ""
  Patches,     \* the field changes UpdateTask requests carry
  Absent,      \* an optional field that is not set in a request
  NoTask,      \* no row
  Miss,        \* Redis has no value under the key
  ListKey,     \* the Redis key "tasks:list"
  TaskTTL,     \* REDIS_TTL in seconds; SET with 0 stores without expiry
  Faults,      \* what may go wrong: a subset of {"db", "redis", "late", "crash"}
  Exclusive,   \* TRUE: clients wait for a request before sending a conflicting one
  MaxCommits,  \* bound: statements that change the table
  MaxLate      \* bound: Redis commands in flight that their sender gave up on

VARIABLES
  db,       \* the tasks table: Ids -> Row or NoTask
  past,     \* history: every state the table has had
  commits,  \* history: how many statements changed the table
  redis,    \* the keyspace: Keys -> a row, a list or Miss
  late,     \* <<key, value>>: SET and DEL commands Redis may still execute
  pc,       \* where each handler is
  req,      \* the request it serves
  task,     \* its *model.Task (task, createdTask, updatedTask)
  tasks,    \* its []*model.Task, in ListTasks
  code      \* the status of its reply, once done

tableVars == <<db, past, commits>>
cacheVars == <<redis, late>>
localVars == <<pc, req, task, tasks, code>>
vars      == <<tableVars, cacheVars, localVars>>

-----------------------------------------------------------------------------
(* Data. *)

Row   == [title : Titles, completed : BOOLEAN, ver : Nat]
Table == [Ids -> Row \cup {NoTask}]
Keys  == Ids \cup {ListKey}
Patch == [title : Titles \cup {Absent}, completed : BOOLEAN \cup {Absent}]

NoPatch == [title |-> Absent, completed |-> Absent]
Ops     == {"none", "Create", "Get", "Update", "Delete", "List"}
Request(op, id, patch) == [op |-> op, id |-> id, patch |-> patch]
NoRequest == Request("none", ListKey, NoPatch)

Statuses == {"none", "OK", "InvalidArgument", "NotFound", "AlreadyExists", "Internal"}
PCs == {"idle", "cacheGet", "dbGet", "cacheFill", "dbInsert", "dbUpdate",
        "dbDelete", "cacheSet", "cacheDel", "listDel", "listGet", "dbList",
        "listFill", "done"}

ASSUME ConstantsAssumption ==
  /\ EmptyTitle \in Titles
  /\ Patches \subseteq Patch
  /\ ListKey \notin Ids
  /\ NoTask \notin Row /\ NoTask \notin Table
  /\ Miss \notin Row \cup Table \cup {NoTask}
  /\ TaskTTL \in Nat /\ MaxCommits \in Nat /\ MaxLate \in Nat
  /\ Faults \subseteq {"db", "redis", "late", "crash"}
  /\ Exclusive \in BOOLEAN

\* What the table now has under a key of the cache.
Current(key) == IF key = ListKey THEN db ELSE db[key]

\* The versions a task has had.
Versions(id) == {t[id] : t \in past} \ {NoTask}

Writes(r) == r.op \in {"Create", "Update", "Delete"}

\* Two requests of which one writes what the other reads or writes.
Conflict(r, s) ==
  /\ Writes(r) \/ Writes(s)
  /\ r.op # "none" /\ s.op # "none"
  /\ r.id = s.id \/ r.op = "List" \/ s.op = "List"

Init ==
  /\ db = [id \in Ids |-> NoTask]
  /\ past = {db}
  /\ commits = 0
  /\ redis = [key \in Keys |-> Miss]
  /\ late = {}
  /\ pc = [p \in Handlers |-> "idle"]
  /\ req = [p \in Handlers |-> NoRequest]
  /\ task = [p \in Handlers |-> NoTask]
  /\ tasks = [p \in Handlers |-> Miss]
  /\ code = [p \in Handlers |-> "none"]

-----------------------------------------------------------------------------
(* Calls to Postgres and Redis, and how a handler goes on. *)

\* One statement commits: the row of one task is written, or removed.
Commit(id, row) ==
  LET table == [db EXCEPT ![id] = row] IN
  /\ db' = table
  /\ past' = past \cup {table}
  /\ commits' = commits + 1

NoCommit == UNCHANGED tableVars

\* The handler goes on to its next call, holding row.
GoOn(p, next, row) ==
  /\ pc' = [pc EXCEPT ![p] = next]
  /\ task' = [task EXCEPT ![p] = row]
  /\ UNCHANGED code

\* The handler returns its response.
Reply(p, row) ==
  /\ pc' = [pc EXCEPT ![p] = "done"]
  /\ task' = [task EXCEPT ![p] = row]
  /\ code' = [code EXCEPT ![p] = "OK"]

\* The handler returns nil and an error.
ReplyError(p, status) ==
  /\ pc' = [pc EXCEPT ![p] = "done"]
  /\ task' = [task EXCEPT ![p] = NoTask]
  /\ code' = [code EXCEPT ![p] = status]

\* Postgres cannot be reached, or the answer is lost on its way back.
DbFails(p, op) ==
  /\ "db" \in Faults
  /\ \E e \in {OtherError, PgError("08006")} : ReplyError(p, StatusOf(op, e))

\* SET key value EX ttl, or DEL key when value is Miss.  Every caller logs an
\* error and goes on.  A command that timed out may not have been executed;
\* and, as it was sent, it may still be executed later, even when go-redis
\* has retried it with success on another connection.
RedisWrite(key, value) ==
  /\ \/ redis' = [redis EXCEPT ![key] = value]
     \/ "redis" \in Faults /\ UNCHANGED redis
  /\ \/ UNCHANGED late
     \/ /\ "late" \in Faults
        /\ Cardinality(late) < MaxLate
        /\ late' = late \cup {<<key, value>>}

\* GET: the value, unless the key is missing or the call fails; callers treat
\* both alike.
RedisHits(key)   == redis[key] # Miss
RedisMisses(key) == redis[key] = Miss \/ "redis" \in Faults

-----------------------------------------------------------------------------
(* A request arrives. *)

Start(p, r, next, row) ==
  /\ pc[p] = "idle"
  /\ Exclusive => \A q \in Handlers : ~Conflict(r, req[q])
  /\ Writes(r) =>
       commits + Cardinality({q \in Handlers : Writes(req[q])}) < MaxCommits
  /\ req' = [req EXCEPT ![p] = r]
  /\ GoOn(p, next, row)
  /\ UNCHANGED <<tableVars, cacheVars, tasks>>

\* A request that is turned down before any call: uuid.Parse fails on its id,
\* or CreateTask gets an empty title.
Reject(p) ==
  /\ pc[p] = "idle"
  /\ ReplyError(p, "InvalidArgument")
  /\ UNCHANGED <<tableVars, cacheVars, req, tasks>>

\* uuid.New: an identifier no task has had and no request names.
Fresh(id) ==
  /\ \A t \in past : t[id] = NoTask
  /\ \A q \in Handlers : req[q].id # id

NewTask(title) == [title |-> title, completed |-> FALSE, ver |-> 0]

CreateTask(p) ==
  \E title \in Titles :
    IF title = EmptyTitle THEN Reject(p)
    ELSE \E id \in Ids :
           /\ Fresh(id)
           /\ Start(p, Request("Create", id, [title |-> title, completed |-> FALSE]),
                    "dbInsert", NewTask(title))

GetTask(p) ==
  \E id \in Ids : Start(p, Request("Get", id, NoPatch), "cacheGet", NoTask)

UpdateTask(p) ==
  \E id \in Ids, patch \in Patches :
    Start(p, Request("Update", id, patch), "cacheGet", NoTask)

DeleteTask(p) ==
  \E id \in Ids : Start(p, Request("Delete", id, NoPatch), "dbDelete", NoTask)

ListTasks(p) == Start(p, Request("List", ListKey, NoPatch), "listGet", NoTask)

-----------------------------------------------------------------------------
(* GetTask, and the read half of UpdateTask. *)

\* Bug: a title the request does not set is taken for "", as GetTitle has it.
ApplyPatchPlainTitle(row, patch) ==
  [title     |-> IF patch.title = Absent THEN EmptyTitle ELSE patch.title,
   completed |-> IF patch.completed = Absent THEN row.completed ELSE patch.completed,
   ver       |-> row.ver]

\* model.Task.Update: the fields the request names; updated_at, set here too,
\* is overwritten by NOW() in the statement.
ApplyPatch(row, patch) ==
  [title     |-> IF patch.title = Absent THEN row.title ELSE patch.title,
   completed |-> IF patch.completed = Absent THEN row.completed ELSE patch.completed,
   ver       |-> row.ver]

\* GetByID returned row: GetTask replies, UpdateTask merges its changes in.
Found(p, row) ==
  IF req[p].op = "Get" THEN Reply(p, row)
  ELSE GoOn(p, "dbUpdate", ApplyPatch(row, req[p].patch))

CacheGet(p) ==
  LET id == req[p].id IN
  /\ pc[p] = "cacheGet"
  /\ \/ RedisHits(id) /\ Found(p, redis[id])
     \/ RedisMisses(id) /\ GoOn(p, "dbGet", NoTask)
  /\ UNCHANGED <<tableVars, cacheVars, req, tasks>>

\* Bug: pgx.ErrNoRows is not treated as an error.
DbGetNoRowsIgnored(p) ==
  LET id == req[p].id IN
  /\ pc[p] = "dbGet"
  /\ GoOn(p, "cacheFill", db[id]) \/ DbFails(p, "get_task_by_id")
  /\ UNCHANGED <<tableVars, cacheVars, req, tasks>>

\* Bug: the SELECT goes to a replica that may lag behind.
DbGetFromReplica(p) ==
  LET id == req[p].id IN
  /\ pc[p] = "dbGet"
  /\ \/ \E row \in Versions(id) : GoOn(p, "cacheFill", row)
     \/ ReplyError(p, StatusOf("get_task_by_id", NoRows))
     \/ DbFails(p, "get_task_by_id")
  /\ UNCHANGED <<tableVars, cacheVars, req, tasks>>

DbGet(p) ==
  LET id == req[p].id IN
  /\ pc[p] = "dbGet"
  /\ \/ db[id] # NoTask /\ GoOn(p, "cacheFill", db[id])
     \/ db[id] = NoTask /\ ReplyError(p, StatusOf("get_task_by_id", NoRows))
     \/ DbFails(p, "get_task_by_id")
  /\ UNCHANGED <<tableVars, cacheVars, req, tasks>>

CacheFill(p) ==
  /\ pc[p] = "cacheFill"
  /\ RedisWrite(req[p].id, task[p])
  /\ Found(p, task[p])
  /\ UNCHANGED <<tableVars, req, tasks>>

-----------------------------------------------------------------------------
(* The statements that change the table. *)

\* The row as the statement writes it, and RETURNING hands it back.
Written(p) ==
  [title |-> task[p].title, completed |-> task[p].completed, ver |-> commits + 1]

DbInsert(p) ==
  /\ pc[p] = "dbInsert"
  /\ \/ /\ Commit(req[p].id, Written(p))
        /\ GoOn(p, "cacheSet", Written(p)) \/ DbFails(p, "create_task")
     \/ NoCommit /\ DbFails(p, "create_task")
  /\ UNCHANGED <<cacheVars, req, tasks>>

\* Bug: an upsert in place of the UPDATE.
DbUpsert(p) ==
  /\ pc[p] = "dbUpdate"
  /\ \/ Commit(req[p].id, Written(p)) /\ GoOn(p, "cacheSet", Written(p))
     \/ NoCommit /\ DbFails(p, "update_task")
  /\ UNCHANGED <<cacheVars, req, tasks>>

DbUpdate(p) ==
  LET id == req[p].id IN
  /\ pc[p] = "dbUpdate"
  /\ \/ /\ db[id] # NoTask
        /\ Commit(id, Written(p))
        /\ GoOn(p, "cacheSet", Written(p)) \/ DbFails(p, "update_task")
     \/ /\ db[id] = NoTask
        /\ NoCommit
        /\ ReplyError(p, StatusOf("update_task", NoRows))
     \/ NoCommit /\ DbFails(p, "update_task")
  /\ UNCHANGED <<cacheVars, req, tasks>>

\* Bug: the error of Exec is not looked at.
DbDeleteErrorIgnored(p) ==
  /\ pc[p] = "dbDelete"
  /\ GoOn(p, "cacheDel", NoTask)
  /\ Commit(req[p].id, NoTask) \/ ("db" \in Faults /\ NoCommit)
  /\ UNCHANGED <<cacheVars, req, tasks>>

\* Bug: RowsAffected is not looked at.
DbDeleteUncounted(p) ==
  LET id == req[p].id IN
  /\ pc[p] = "dbDelete"
  /\ \/ /\ IF db[id] = NoTask THEN NoCommit ELSE Commit(id, NoTask)
        /\ GoOn(p, "cacheDel", NoTask)
     \/ NoCommit /\ DbFails(p, "delete_task")
  /\ UNCHANGED <<cacheVars, req, tasks>>

DbDelete(p) ==
  LET id == req[p].id IN
  /\ pc[p] = "dbDelete"
  /\ \/ /\ db[id] # NoTask
        /\ Commit(id, NoTask)
        /\ GoOn(p, "cacheDel", NoTask) \/ DbFails(p, "delete_task")
     \/ /\ db[id] = NoTask
        /\ NoCommit
        /\ ReplyError(p, WrapRepositoryError(WrapError("delete_task", "task not found")))
     \/ NoCommit /\ DbFails(p, "delete_task")
  /\ UNCHANGED <<cacheVars, req, tasks>>

-----------------------------------------------------------------------------
(* What cachedTaskRepository does to Redis after a successful statement. *)

CacheSet(p) ==
  /\ pc[p] = "cacheSet"
  /\ RedisWrite(req[p].id, task[p])
  /\ GoOn(p, "listDel", task[p])
  /\ UNCHANGED <<tableVars, req, tasks>>

\* Bug: the deleted task is left in the cache.
CacheDelForgotten(p) ==
  /\ pc[p] = "cacheDel"
  /\ GoOn(p, "listDel", NoTask)
  /\ UNCHANGED <<tableVars, cacheVars, req, tasks>>

CacheDel(p) ==
  /\ pc[p] = "cacheDel"
  /\ RedisWrite(req[p].id, Miss)
  /\ GoOn(p, "listDel", NoTask)
  /\ UNCHANGED <<tableVars, req, tasks>>

\* Bug: the list is left to its time to live.
ListDelForgotten(p) ==
  /\ pc[p] = "listDel"
  /\ Reply(p, task[p])
  /\ UNCHANGED <<tableVars, cacheVars, req, tasks>>

\* Bug: the cached list is not dropped but brought up to date in place.
ListPatchedInPlace(p) ==
  /\ pc[p] = "listDel"
  /\ IF redis[ListKey] = Miss THEN UNCHANGED cacheVars
     ELSE RedisWrite(ListKey, [redis[ListKey] EXCEPT ![req[p].id] = task[p]])
  /\ Reply(p, task[p])
  /\ UNCHANGED <<tableVars, req, tasks>>

ListDel(p) ==
  /\ pc[p] = "listDel"
  /\ RedisWrite(ListKey, Miss)
  /\ Reply(p, task[p])
  /\ UNCHANGED <<tableVars, req, tasks>>

-----------------------------------------------------------------------------
(* ListTasks. *)

ListGet(p) ==
  /\ pc[p] = "listGet"
  /\ \/ /\ RedisHits(ListKey)
        /\ tasks' = [tasks EXCEPT ![p] = redis[ListKey]]
        /\ Reply(p, NoTask)
     \/ /\ RedisMisses(ListKey)
        /\ GoOn(p, "dbList", NoTask)
        /\ UNCHANGED tasks
  /\ UNCHANGED <<tableVars, cacheVars, req>>

\* One SELECT sees one state of the table, however long its rows are read.
DbList(p) ==
  /\ pc[p] = "dbList"
  /\ \/ /\ tasks' = [tasks EXCEPT ![p] = db]
        /\ GoOn(p, "listFill", NoTask)
     \/ UNCHANGED tasks /\ DbFails(p, "list_tasks")
  /\ UNCHANGED <<tableVars, cacheVars, req>>

ListFill(p) ==
  /\ pc[p] = "listFill"
  /\ RedisWrite(ListKey, tasks[p])
  /\ Reply(p, NoTask)
  /\ UNCHANGED <<tableVars, req, tasks>>

-----------------------------------------------------------------------------
(* The end of a request, and the environment. *)

\* The gRPC server sends the reply and the handler's goroutine ends.
Return(p) ==
  /\ pc[p] = "done"
  /\ pc' = [pc EXCEPT ![p] = "idle"]
  /\ req' = [req EXCEPT ![p] = NoRequest]
  /\ task' = [task EXCEPT ![p] = NoTask]
  /\ tasks' = [tasks EXCEPT ![p] = Miss]
  /\ code' = [code EXCEPT ![p] = "none"]
  /\ UNCHANGED <<tableVars, cacheVars>>

\* A process dies, with the handlers in P, and is started again; Postgres and
\* Redis keep their data.  P need not be all: other handlers may run in another
\* process; and a statement that outlives the process that sent it is one in a
\* handler that stays behind and whose answer is lost (DbFails).
Crash ==
  /\ "crash" \in Faults
  /\ \E P \in SUBSET Handlers :
       /\ pc' = [p \in Handlers |-> IF p \in P THEN "idle" ELSE pc[p]]
       /\ req' = [p \in Handlers |-> IF p \in P THEN NoRequest ELSE req[p]]
       /\ task' = [p \in Handlers |-> IF p \in P THEN NoTask ELSE task[p]]
       /\ tasks' = [p \in Handlers |-> IF p \in P THEN Miss ELSE tasks[p]]
       /\ code' = [p \in Handlers |-> IF p \in P THEN "none" ELSE code[p]]
  /\ UNCHANGED <<tableVars, cacheVars>>

\* Bug: only the list is given a time to live.
ExpireListOnly(key) ==
  /\ redis[key] # Miss
  /\ key = ListKey
  /\ redis' = [redis EXCEPT ![key] = Miss]
  /\ UNCHANGED <<tableVars, late, localVars>>

\* The time to live of a key runs out: 60 seconds for the list, TaskTTL for a
\* task, which with TaskTTL = 0 never happens.
Expire(key) ==
  /\ redis[key] # Miss
  /\ key = ListKey \/ TaskTTL > 0
  /\ redis' = [redis EXCEPT ![key] = Miss]
  /\ UNCHANGED <<tableVars, late, localVars>>

\* Redis gets round to a command whose sender has given up, or never does.
LateWrite ==
  \E m \in late :
    /\ redis' = [redis EXCEPT ![m[1]] = m[2]] \/ UNCHANGED redis
    /\ late' = late \ {m}
    /\ UNCHANGED <<tableVars, localVars>>

Arrive(p) == CreateTask(p) \/ GetTask(p) \/ UpdateTask(p) \/ DeleteTask(p)
             \/ ListTasks(p) \/ Reject(p)

Step(p) ==
  \/ CacheGet(p) \/ DbGet(p) \/ CacheFill(p)
  \/ DbInsert(p) \/ DbUpdate(p) \/ DbDelete(p)
  \/ CacheSet(p) \/ CacheDel(p) \/ ListDel(p)
  \/ ListGet(p) \/ DbList(p) \/ ListFill(p)
  \/ Return(p)

Next ==
  \/ \E p \in Handlers : Arrive(p) \/ Step(p)
  \/ Crash
  \/ \E key \in Keys : Expire(key)
  \/ LateWrite

Spec == Init /\ [][Next]_vars

\* Handlers are goroutines the runtime schedules, their calls return, and Redis
\* drops keys whose time is up.  Nothing obliges a client to send a request,
\* a late command to be executed or the process to crash.
Fairness ==
  /\ \A p \in Handlers : WF_vars(Step(p))
  /\ \A key \in Keys : WF_vars(Expire(key))

FairSpec == Spec /\ Fairness

-----------------------------------------------------------------------------
(* Properties that hold whatever fails. *)

CacheValue(key) == {Miss} \cup IF key = ListKey THEN Table ELSE Row

\* The values the variables range over; the row a handler holds has the kind
\* its place in the code needs, so that no nil task is ever marshalled,
\* patched or sent.
TypeOK ==
  /\ db \in Table
  /\ past \subseteq Table /\ db \in past
  /\ commits \in Nat
  /\ redis = [key \in Keys |-> redis[key]]
  /\ \A key \in Keys : redis[key] \in CacheValue(key)
  /\ \A m \in late : m \in Keys \X CacheValue(m[1])
  /\ pc \in [Handlers -> PCs]
  /\ req \in [Handlers -> [op : Ops, id : Keys, patch : Patch]]
  /\ task \in [Handlers -> Row \cup {NoTask}]
  /\ tasks \in [Handlers -> Table \cup {Miss}]
  /\ code \in [Handlers -> Statuses]
  /\ \A p \in Handlers :
       pc[p] \in {"cacheFill", "dbInsert", "dbUpdate", "cacheSet"} => task[p] \in Row

\* What the value of a cache key may be: for a task, contents it has had in
\* Postgres; for the list, one past state of the whole table.
Genuine(key, value) ==
  value # Miss =>
    IF key = ListKey THEN value \in past ELSE value \in Versions(key)

\* Redis never holds, nor will a late command ever put there, anything that
\* was not committed to Postgres under that very key: no row a failed or
\* pending statement would have written, no other task's row, no list put
\* together from several moments.
CacheHoldsCommitted ==
  /\ \A key \in Keys : Genuine(key, redis[key])
  /\ \A m \in late : Genuine(m[1], m[2])

\* What a successful reply says has happened, and keeps having happened:
\* CreateTask and UpdateTask return a committed version with the values the
\* request named; after DeleteTask the task exists no more; GetTask and
\* ListTasks return what the table has held.
RepliesTrue ==
  \A p \in Handlers :
    LET r == req[p] IN
    code[p] = "OK" =>
      /\ r.op \in {"Create", "Update"} =>
           task[p] \in Versions(r.id) /\ task[p] = ApplyPatch(task[p], r.patch)
      /\ r.op = "Get" => task[p] \in Versions(r.id)
      /\ r.op = "Delete" => db[r.id] = NoTask /\ Versions(r.id) # {}
      /\ r.op = "List" => tasks[p] \in past

\* A deleted task never comes back: UpdateTask may hold a stale copy of it,
\* from the cache or from before the delete, but UPDATE does not insert, and
\* identifiers are not reused.
DeletedStayDeleted ==
  [][\A id \in Ids :
       db[id] = NoTask /\ Versions(id) # {} => db'[id] = NoTask]_vars

\* The service implements the store of module TaskStore: a handler that is
\* done without an error has told its client the value it returns.
Nothing == "nothing"
Answer(p) ==
  IF code[p] = "OK"
  THEN <<req[p].id, IF req[p].op = "List" THEN tasks[p] ELSE task[p]>>
  ELSE <<Nothing, Nothing>>
Store == INSTANCE TaskStore WITH
           Clients <- Handlers,
           Nothing <- <<Nothing, Nothing>>,
           answer  <- [p \in Handlers |-> Answer(p)]
ImplementsTaskStore == Store!Spec

-----------------------------------------------------------------------------
(* Properties that hold while nothing fails and clients do not race. *)

Serial == Exclusive /\ Faults = {}

\* The handler has changed the table and not yet brought the key up to date.
Behind(p, key) ==
  IF key = ListKey THEN pc[p] \in {"cacheSet", "cacheDel", "listDel"}
  ELSE pc[p] \in {"cacheSet", "cacheDel"} /\ req[p].id = key

Coherent(key) == redis[key] \in {Miss, Current(key)}

\* The handler is about to SET the key to what it has in hand.
AboutToSet(p, key) ==
  IF key = ListKey THEN pc[p] = "listFill"
  ELSE pc[p] \in {"cacheFill", "cacheSet"} /\ req[p].id = key
InHand(p, key) == IF key = ListKey THEN tasks[p] ELSE task[p]

\* However requests for different tasks interleave, each key of the cache
\* agrees with the table or is missing, except between a statement and the
\* cache call that follows it.
SerialClientsCoherent ==
  Serial =>
    \A key \in Keys : Coherent(key) \/ \E p \in Handlers : Behind(p, key)

\* Then what GetTask and ListTasks return, hit or miss, is what the table
\* holds at that moment.
SerialReadsFresh ==
  Serial =>
    \A p \in Handlers : code[p] = "OK" =>
      /\ req[p].op = "Get" => task[p] = db[req[p].id]
      /\ req[p].op = "List" => tasks[p] = db

\* UpdateTask leaves the fields its request does not set as they are: they are
\* "optional" in UpdateTaskRequest, and Task.Update skips them.  The UPDATE
\* writes the whole row from a copy read earlier, so this needs the copy to be
\* current.
UnnamedFieldsKept ==
  [][\A id \in Ids :
       db[id] # NoTask /\ db'[id] \notin {NoTask, db[id]} =>
         \E p \in Handlers :
           /\ pc[p] = "dbUpdate" /\ req[p].id = id
           /\ req[p].patch.title = Absent => db'[id].title = db[id].title
           /\ req[p].patch.completed = Absent =>
                db'[id].completed = db[id].completed]_vars

\* A lost update has one cause, a copy older than the row it is written over:
\* from the cache, or read before another update.  An UPDATE that commits with a
\* copy of the row as it is keeps the fields its request does not set, however
\* requests race and whatever fails; so an UPDATE that also asked for the
\* version its copy was read at would lose none.
OnlyOldCopiesLoseFields ==
  [][\A p \in Handlers :
       LET id == req[p].id IN
       /\ pc[p] = "dbUpdate" /\ pc'[p] # pc[p]
       /\ db[id] # NoTask /\ db'[id] # db[id]
       /\ task[p].ver = db[id].ver
       => /\ req[p].patch.title = Absent => db'[id].title = db[id].title
          /\ req[p].patch.completed = Absent => db'[id].completed = db[id].completed]_vars

-----------------------------------------------------------------------------
(* How the cache recovers. *)

\* The key agrees with the table or is missing, and nobody is about to SET an
\* older value: no handler, and no late command.
AtRest(key) ==
  /\ Coherent(key)
  /\ \A p \in Handlers : AboutToSet(p, key) => InHand(p, key) = Current(key)
  /\ \A m \in late : m[1] = key => m[2] \in {Miss, Current(key)}

\* Only a statement makes the cache stale.  While what is in the table under a
\* key stays as it is, a key at rest stays at rest, whatever other requests,
\* failures, crashes, late commands and expiry do, and although reads go on
\* filling it.
CoherenceLasts ==
  [][\A key \in Keys :
       AtRest(key) /\ Current(key)' = Current(key) => AtRest(key)']_vars

\* Once the table stops changing (the runs bound the commits), the cache comes
\* to agree with it and never disagrees again, whatever races and failures
\* left behind, although reads go on all the time: every stale value has a
\* time to live that hits do not renew.  (With REDIS_TTL=0 tasks have none.)
EventuallyCoherent == TaskTTL > 0 => <>[](\A key \in Keys : Coherent(key))

-----------------------------------------------------------------------------
(* What the repository says of the program and the code does not do. *)

\* A request for a task that does not exist is answered NotFound
\* (internal/errors/errors.go:37 and the first case of WrapRepositoryError).
MissingTaskIsNotFound ==
  [][\A p \in Handlers :
       /\ pc[p] \in {"dbGet", "dbUpdate", "dbDelete"} /\ pc'[p] = "done"
       /\ db[req[p].id] = NoTask
       => code'[p] = "NotFound"]_vars

\* No task is without a title ("title is required", internal/errors/errors.go:35).
TitlesRequired == \A id \in Ids : db[id] # NoTask => db[id].title # EmptyTitle
=============================================================================
