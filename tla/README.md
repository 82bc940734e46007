# TLA+ for the checklist database service

This directory models, model-checks and proves things about the service in
`src/`: a Go program that keeps tasks (title, description, completed flag) in one
Postgres table, caches rows and the list of all rows on Redis servers, and serves
five operations over gRPC and a health check over HTTP.

Everything in the modules is read off the code; `PROJECT.json` names, for each
definition, the lines it stands for.

## 1. Inventory

| Component | State it keeps | Operations | Interacts with |
|---|---|---|---|
| gRPC handlers and task service (`internal/transport/grpc/task.go`, `internal/service/task.go`) | none between requests; one goroutine per request with its `*model.Task` | CreateTask, GetTask, UpdateTask, DeleteTask, ListTasks; validation; error to status | calls the repository, several requests at once |
| Cached task repository (`internal/repository/cached_task.go`) | none | Create, GetByID, Update, DeleteByID, List, each a statement and cache calls around it | wraps the task repository when Redis is enabled |
| Task repository (`internal/repository/task.go`, `sql/init.sql`) | the `tasks` table | INSERT ... RETURNING, SELECT, UPDATE ... RETURNING, DELETE, SELECT all | Postgres through a pool |
| Redis cache (`internal/cache/redis.go`) | `task:<id>` and `tasks:list` keys with a time to live, spread over shards | SetTask, GetTask, DeleteTask, SetTaskList, GetTaskList, InvalidateTaskList, NewRedisCache, Close | Redis; survives a restart of the service |
| Domain model (`internal/model`) | none | NewTask, Task.Update, conversions | |
| Error mapping (`internal/repository/errors.go`, `internal/errors/errors.go`) | none | HandlePgxError, WrapRepositoryError | two layers that must agree on what an error is |
| Process lifecycle (`cmd/db-service/main.go`, both `server.go`) | pool, clients, two server goroutines, a signal channel, one deadline | connect with retries, serve, stop, wait, close | everything above is alive while it runs |
| Health check (`transport/http/health.go`, `service/health.go`, `repository/health.go`) | none | one `SELECT 1` per request, and a status | the pool, which task requests use too |
| Middleware (`transport/*/middleware`) | per request: its identifier, the status it recorded | request identifiers, logging, panic recovery | wraps every request |
| Configuration (`internal/config`) | none after start-up | Load | decides whether there is a cache, and on which servers |
| Logger, protobuf | none | formatting | |

### What is hard

* **Interleaving.** No lock and no transaction spans two calls. Between a
  handler's read of Postgres and its SET, between its statement and its SET or
  DEL, and between an update's read and its write, other handlers do anything.
* **Partial failure.** Every cache error is logged and swallowed; a statement may
  commit and its answer be lost; a Redis command may be executed after its sender
  gave up on it.
* **Crash.** The process may die after a commit and before its cache calls, and
  the cache outlives it.
* **Layers that disagree.** The error a missing row raises is rewritten by one
  layer and compared as text by the next.
* **Shutdown and restart.** One deadline for two servers, a forced stop that does
  not wait for handlers, connections closed by deferred calls; a start that gives
  up and is repeated by the container's restart policy.
* **Data that outlives the process.** Redis keeps what was cached under an
  earlier list of servers, or came back with an older snapshot; Postgres may
  execute a statement whose sender is gone.
* **Clocks.** `created_at` is a service's clock, `updated_at` the database's when
  the statement began.
* **What goes through layers.** A panic unwinds them from the inside, and each
  of them knows a part of what the log should say.

### What makes each component correct

* The store: rows change only as statements say, a deleted task stays deleted,
  a reply without an error is true (`TaskStore`, `RepliesTrue`,
  `DeletedStayDeleted`).
* The cache: it holds only what was committed (`CacheHoldsCommitted`), agrees with
  the table while nothing goes wrong (`SerialClientsCoherent`,
  `SerialReadsFresh`), and comes to agree with it again whatever went wrong
  (`EventuallyCoherent`), after which only a statement makes it stale again
  (`CoherenceLasts`).
* Updates: fields a request does not name are kept (`UnnamedFieldsKept`: true for
  clients that take turns and a Redis that answers, false otherwise; see
  Findings), and are lost only through a copy older than the row
  (`OnlyOldCopiesLoseFields`).
* Errors: a missing task is NotFound (`MissingTaskIsNotFound`, which does not hold).
* The process: requests are only taken in while connections are up, only the
  deadline cuts one off, a request that can still hold up a shutdown has been
  cancelled or is a health check that outlived the deadline, a signal ends the
  process unless such a health check hangs, and a start that fails does not keep
  the next one from getting to wait for a signal (`ServesOnlyConnected`,
  `CutOffOnlyByDeadline`, `ShutdownProceeds`, `SignalStops`, `EventuallyServes`).
* Several Redis servers are one keyspace to their caller, and what is left on one
  of them goes, the list always and tasks if REDIS_TTL is positive
  (`ImplementsKeyspace`, `ValuesVanish`).
* Stamps follow the order of requests that follow one another
  (`SerialUpdatesOrdered`, `SerialCreatesOrdered`).
* Every request ends, the log agrees with what clients were told, a panic harms
  nobody but its own request, and the health check is right about the database
  (`EveryRequestEnds`, `LogTellsReplies`, `PanicsContained`, `HealthTrue`,
  `EventuallyHealthy`).

## 2. Modules

| Module | Models |
|---|---|
| `ErrorCodes` | from the error pgx returns to the status of the reply |
| `TaskStore` | abstract: what the service promises, whatever fails |
| `CachedTasks` | service, repositories, cache and their callers (extends `ErrorCodes`) |
| `Lifecycle` | the process from start to exit and restart, with requests in progress |
| `Keyspace` | abstract: what `RedisCache` promises, whatever servers are behind it |
| `ShardedCache` | the choice of a server, lists that change, servers that restart |
| `TasksOnKeyspace` | `CachedTasks` over what `Keyspace` promises: values that come back (extends `CachedTasks`) |
| `Timestamps` | `created_at` and `updated_at` |
| `Transport` | middleware, health check and connection pool around a request (extends `ErrorCodes`) |
| `MCCachedTasks`, `MCTasksOnKeyspace`, `MCLifecycle`, `MCShardedCache`, `MCTimestamps`, `MCTransport` | constants for TLC |
| `CachedTasksProofs`, `SerialProofs`, `StoreRefinementProofs`, `TasksOnKeyspaceProofs`, `LifecycleProofs`, `ShardedCacheProofs`, `TimestampsProofs`, `TransportProofs` | theorems |

The modules meet where the code's interfaces are. `CachedTasks` takes one keyspace
for Redis, and `ShardedCache` implements `Keyspace`, whose commands are those of
`CachedTasks` and whose `Disturb` is its `Expire` and `LateWrite`, except that
values which come back after a restart of a server or a change of the list may be
older than any late command's, and come back again and again. `TasksOnKeyspace`
puts the two together: it is `CachedTasks` with a cache that does that too. A task
request of `Transport` and of `Lifecycle` is a handler of `CachedTasks` of which
only the calls are kept.

### CachedTasks and the code

A *handler* is a request in progress. A step of a handler is one call to Postgres
or Redis together with the code up to the next call, so that interleavings are
those of goroutines, and `pc` names the call it is about to make:

| Operation | Calls |
|---|---|
| CreateTask | `dbInsert`, `cacheSet`, `listDel` |
| GetTask | `cacheGet`; on a miss `dbGet`, `cacheFill` |
| UpdateTask | as GetTask, then `dbUpdate`, `cacheSet`, `listDel` |
| DeleteTask | `dbDelete`, `cacheDel`, `listDel` |
| ListTasks | `listGet`; on a miss `dbList`, `listFill` |

`db` is the table; `past` and `commits` are history variables (every state the
table has had; how many statements changed it). A row is its title, its completed
flag and the number `ver` of the commit that wrote it, which stands for
`updated_at` and tells versions with equal fields apart. `redis` is the keyspace,
`late` the SET and DEL commands that Redis may still execute although their
sender has gone on. `task`, `tasks` and `code` are the handler's local
`*model.Task`, its list and its reply.

Failures are switched by the constant `Faults`:

* `"db"`: a statement fails without effect, or commits and its answer is lost;
* `"redis"`: a command fails, executed or not; a GET fails (a miss for the caller).
  A disabled cache behaves like one whose calls all fail;
* `"late"`: a command takes effect later, also after a later command of another
  handler (a timed out attempt that the client library retried);
* `"crash"`: some handlers end between two calls and the others go on: one
  process of several dies and is restarted, or, when all end, the only one.

`Exclusive = TRUE` describes clients that do not send a request before a
conflicting one was answered.

### TaskStore

The abstract store has a table, its past states and what each client was last
told. An identifier is inserted once; rows change one at a time; a client is
told a version the task has had, that a task is gone, or one past state of the
whole table. How old an answer may be is left open on purpose: `CachedTasks`
implements this with every fault on, and `TasksOnKeyspace` over any `Keyspace`. The refinement mapping takes `db` and `past`
as they are and `answer` from the handlers that are done.

### TasksOnKeyspace and the code

A SET names its key and carries a value, and `getClient` sends it to one server of
the list. What that server makes of it, and what a later list finds on another
server, is in `ShardedCache`; its caller sees only that a value it once SET under a
key is there, or none. `ever` remembers what was SET under each key, and `Back` puts
one of these values, or nothing, there at any time, whether or not the SET was
answered. A step of `CachedTasks` goes on as before.

### Lifecycle and the code

`main` is where `main()` is: `connect`/`sleep` (initDatabaseWithRetry), `redis`
(NewRedisCache pinging one shard per step), `start`, `serving` (`<-quit`),
`stopHttp`, `stopGrpc`, `forceGrpc` (the two Stop calls), `wait` (`wg.Wait`),
`closeRedis`, `closeDb`, `closingDb` (the deferred calls), and the ends `exited`,
`failed` (`os.Exit(1)`) and `killed` (a signal before `signal.Notify`). `http` and
`grpc` are the two goroutines, `stop` is how far `GRPCServer.Stop` and the
`GracefulStop` it started are, `up` the servers that can be reached, which change at any time. `Restart` is the
container's `restart: unless-stopped`; `RedisEnabled` decides whether the shards
are connected to at all. `req` is which call each request in progress is at: a
health check its `read`; a task request starts at `cacheGet` (or `read`, without
Redis) or, a create or a delete, at `write`, and goes on as `NextCalls` says, through
`cacheFill`, `write` and `cacheSet`, or ends. Only `read` and `write` hold a
connection. The behaviour of
`http.Server.Shutdown`, `grpc.Server.GracefulStop` and `Stop`, and of
`pgxpool.Pool.Close`, is external and modelled from how the code uses them:
Shutdown waits for requests or the context and cancels none of them, GracefulStop
still accepts requests until its clients know, Stop cancels contexts and may itself
wait for a lock that GracefulStop holds until the last handler returns, Close waits
for connections in use.

### ShardedCache and the code

`clients` is `r.clients`, empty when the cache is disabled, and comes out of the
environment as `Load`, `parseRedisURLs`, `getEnvBool` and `NewRedisCache` make it;
a new process may find another environment (`Restart`). `ShardIndex` is
`getShardIndex`, with the checksum a constant function of the key. `Ttl` is 60 s for
the list and `REDIS_TTL` for tasks, whose values stay if it is zero. `store` is what
each server has in memory and `disk` what it saved last (`docker-compose.yml` gives
each a volume), to which it may return (`Reload`). `Set`, `Get` and `Del` are the
six methods, two by two: the list has the key `ListKey`. A SET or DEL may be sent more than once by the client library: the caller gets an answer only if an attempt
was executed, and either way another attempt may be executed later. Each value is
SET once, so that it stands for its own time of expiry, counted from its last
execution. There is one process at a time, as the container's fixed
name has it. The refinement mapping takes under each key what its present server
holds.

### Timestamps and the code

A statement is sent, begins (`NOW()` is fixed then, for the trigger of `init.sql`
as for `Update`'s own `NOW()`), and commits when it has the row's lock; between
these anything may happen, other statements on the row included. An INSERT carries
two readings of its process's clock, which is up to `MaxSkew` off. A handler that
gives up may leave its statement behind. `base` remembers the latest stamp a
client could know when a request was sent.

### Transport and the code

`Chain` is the order of the layers, outermost first, and `depth` how many of them a
request is inside of, so that going in, out, and unwinding are each one step per
layer. `conn` and `idle` are the pool: a connection an outage breaks is found out
when it is used. `told` is what the client was sent, `recorded` is
`responseWriter.statusCode`, `lines` what the request has logged. `Panic` may
happen at every step of the handler, in the layers below the outermost one on the
way in, and in the logging layer on the way out, before or after it wrote its line;
net/http survives a panic that passes all layers, grpc does not.

## 3. What TLC checks

| Run | Instance | Shows |
|---|---|---|
| `any_keyspace` | 2 tasks, 2 handlers, 3 commits, keys that are lost and values that come back | `TypeOK`, `CacheHoldsCommitted`, `RepliesTrue`, `DeletedStayDeleted`, `ImplementsTaskStore` |
| `serial_clients` | 2 tasks, 3 handlers, 3 commits, no faults, `Exclusive` | `SerialClientsCoherent`, `SerialReadsFresh`, `UnnamedFieldsKept` |
| `liveness` | 1 task, 2 handlers, 3 commits, 1 late command, all faults | `RepliesTrue`, `ImplementsTaskStore`, `EventuallyCoherent`, `CoherenceLasts`, `OnlyOldCopiesLoseFields` |
| `lifecycle` | 1 health check, 2 task requests, 2 shards, 3 attempts | `TypeOK`, `CutOffOnlyByDeadline`, `ServesOnlyConnected`, `ShutdownProceeds`, `SignalStops`, `EventuallyServes` |
| `sharded_cache` | 2 servers, 6 environments, a task's key and the list's on different servers, 2 values, 1 late command | `TypeOK`, `ImplementsKeyspace`, `ValuesVanish` |
| `timestamps` | 2 tasks, 2 handlers, 3 times, skew 1, 1 statement left behind | `TypeOK`, `SerialUpdatesOrdered`, `SerialCreatesOrdered` |
| `transport` | 1 health check, 1 task request, 1 connection | `TypeOK`, `LogTellsReplies`, `HealthTrue`, `PanicsContained`, `EveryRequestEnds`, `EventuallyHealthy` |
| `lost_update_race`, `lost_update_stale_cache`, `not_found_status`, `empty_title`, `panic_line` | 1 task, 1 or 2 handlers; as `transport` | the findings |

**Bounds.** Two handlers are enough for every race on one key: each race in this
code is between a stale write to the cache (a fill, or a SET that was overtaken)
and a statement. Three commits are a create and two further changes, so a version
can be overtaken, and a task can be created, updated and deleted. One late
command is one value that arrives out of order; a second one would only be
another. With two tasks a list can mix states. `MaxCommits` and `MaxLate` bound
nothing else: reads are unbounded. `any_keyspace` needs no fault of Redis beside
`Back`: a SET or DEL that fails or comes late, a GET that fails and a key that
expires are each what some `Back` does, before the command, after it or again.
Statements that fail or lose their answer, and handlers that end, are in
`liveness`, with one task; the theorems have them all together. Two shards distinguish "some answered" from
"all answered"; three attempts distinguish the first, a middle and the last one.
The environments of `sharded_cache` have one server, two, and the same two in
another order, so that a key moves, stays, and moves back; switch the cache off;
and are refused. Two values are one that was overwritten and its successor.
In `timestamps` a clock that is one off, and three times, let a stamp be equal to,
before and after another one, and a statement begin before and commit after
another. With one connection in `transport` a request waits for the other; an
outage breaks all there are.
Symmetry is used over handlers and tasks, in runs without liveness properties
only. Each property has a mutant of the code
(definitions marked "Bug:") that violates it in its run, so no run passes because
the case does not occur.

**Deadlock** is checked in every run: a handler that is idle can always be sent a
request that is turned down or a read, in `Lifecycle` and `Transport` servers go
down and up for ever, in `ShardedCache` a Get may always fail, and in `Timestamps`
a handler may always give up and send the next update.

**Fairness.** `CachedTasks`: weak fairness of each handler's next step (goroutines
are scheduled, and calls return, if with an error) and of each key's expiry (Redis
drops keys whose time is up; tasks have none if `TaskTTL = 0`, so
`EventuallyCoherent` supposes a positive one). No fairness for arrivals, crashes or
late commands. `EventuallyCoherent` is about a table that stops changing, which the
bound on commits enforces; reads go on for ever in its run, and do not keep a stale
key alive because hits do not renew the time to live.
`Lifecycle`: weak fairness of main, of the goroutines and of the deadline. Any
call of a request may hang; a task request goes on for sure only once its context
is cancelled, and `Stop` returns for sure only once no request is left. There is no
fairness for health checks: `SELECT 1` has no time limit, and Shutdown does not
cancel its context. So after a signal the process ends, or stays in `dbPool.Close`
for ever with only a health check at its connection (`SignalStops`). A process that
failed is restarted (the restart policy); one that a signal ended need not be.
`EventuallyServes` assumes that all servers stay up from some time on, and its
conclusion is that main waits at `<-quit`: whether the two listeners got their
ports is decided in their goroutines, and main does not look.
`ShardedCache`: weak fairness of the expiry of each value that has a time to live,
on each server, in memory and in what was saved, and of nothing else; servers may
restart for ever.
`Transport`: weak fairness of each request's next step (goroutines are scheduled,
and statements end), and strong fairness of getting a connection, because the pool's semaphore serves
those who wait in order. No fairness for clients leaving, panics or outages;
`EventuallyHealthy` assumes that Postgres stays up from some time on.

## 4. What is proved

With TLAPS, for any sets of tasks, handlers, titles and patches, any `Faults`, any
`MaxCommits` and `MaxLate`, under `ConstantsAssumption` (the special values are
different from the rows and tables they stand beside; patches are well formed;
the list key is no task):

| Theorem | States |
|---|---|
| `TypeCorrect` | `Spec => []TypeOK` |
| `CacheCorrect` | `Spec => []CacheHoldsCommitted` |
| `RepliesCorrect` | `Spec => []RepliesTrue` |
| `DeletedCorrect` | `Spec => DeletedStayDeleted` |
| `CoherenceCorrect` | `Spec => CoherenceLasts` |
| `LostUpdatesExplained` | `Spec => OnlyOldCopiesLoseFields` |
| `TitlesCorrect` | `Spec => [](PatchesKeepTitles => TitlesRequired)` |
| `NotFoundNever` | `Spec => [](\A p \in Handlers : code[p] \in {"none", "OK", "InvalidArgument", "Internal"})` |
| `ServiceImplementsStore` | `Spec => ImplementsTaskStore` |
| `CoherentCorrect` | `Spec => []SerialClientsCoherent` |
| `FreshCorrect` | `Spec => []SerialReadsFresh` |
| `UnnamedFieldsCorrect` | `Serial /\ Spec => UnnamedFieldsKept` |

The inductive invariant is built in three layers.

1. `TypeInv` adds to `TypeOK` which operation can be at which place
   (`ControlInv`): a handler at `dbUpdate` serves an Update of a task, so the row
   it holds is a row and not nil.
2. `HistoryInv` adds what handlers hold. `HeldBy` says that a row about to be put
   in Redis or returned is a committed version of the requested task, a list is a
   past state of the table, and a handler past a delete found the task and removed
   it. `CreateInv` says that the identifier of a pending insert belongs to no
   other request and was never in the table, without which an insert could
   bring a deleted task back. Neither `CacheHoldsCommitted` nor `RepliesTrue` is
   inductive: both are about values that handlers still hold.
3. `SerialInv` says, only for `Serial` (`Exclusive` and no faults), that no two
   requests in progress conflict (`NoRace`), that what a handler has read or written
   is what the table holds now (`UpToDate`), that no command is late, and that each
   key is coherent or someone is `Behind` it (`Tracked`). Coherence alone is not
   inductive: a value put in the cache is as good as the copy in the handler, and
   that copy stays good because nobody else may write the task meanwhile.
   `UnnamedFieldsCorrect` has `Serial` as a hypothesis, and needs it: the two
   `lost_update` runs break the property with either half of it dropped.

`CoherenceLasts` is what can be proved of `EventuallyCoherent`. A key that agrees
with the table is not safe by itself: a handler may be about to SET an older row
it read before, or a command of one may be under way. `AtRest` adds these, and is
then kept by every step that leaves the table's value as it is (`NextAtRest`):
what is read from the table or already in the cache is current, and stays so in
the hands of handlers (`HandStaysCurrent`). That every key comes to rest is
fairness, and stays with TLC.

The last three are what findings look like in general. `CopyInv`: what a handler
writes with its UPDATE is a version of the task, merged with the request
(`Merged`), and `ver` tells a task's versions apart (`NumberInv`); so a copy with
the row's `ver` is the row, and an update that loses a field had an older one,
from the cache or from before another update. `TitlesInv`: as long as no update
asks for an empty title, no version of a task has one, nor a task about to be
inserted, and by `CopyInv` nor a row about to be updated, so that such a request is
the only way. `NotFoundNever`: a `RepositoryError` has its operation before its
text, so that it is never the text `IsNotFoundError` compares with, whatever
failed.

The step lemmas rest on two facts used everywhere: the history only grows
(`HistoryGrows`), so what was committed stays so, and no other handler's step
changes a handler's locals (`OthersStay`). The refinement proof maps
each statement to the store's Insert, Replace or Remove, each reply to Tell,
Return and Crash to Forget, and the other steps to stuttering.

For `TasksOnKeyspace`, under the same assumption:

| Theorem | States |
|---|---|
| `TypeOnKeyspace` | `SpecOnKeyspace => []TypeOK` |
| `CacheOnKeyspace` | `SpecOnKeyspace => []CacheHoldsCommitted` |
| `RepliesOnKeyspace` | `SpecOnKeyspace => []RepliesTrue` |
| `DeletedOnKeyspace` | `SpecOnKeyspace => DeletedStayDeleted` |
| `StoreOnKeyspace` | `SpecOnKeyspace => ImplementsTaskStore` |
| `LostUpdatesOnKeyspace` | `SpecOnKeyspace => OnlyOldCopiesLoseFields` |

The invariant is `HistoryInv` and `EverInv`: whatever was SET under a key was
committed under it. It was in the hands of a handler, of which `HeldBy` says so
(`SentGenuine`), and remains so since the history only grows; hence a value that
comes back is as good as one that never left (`BackKeeps`). With
`CacheImplementsKeyspace` below, these are the promises of the service over
several Redis servers that restart and whose list changes. `CoherenceLasts` and
the properties of `Serial` clients have no such theorem, and are false there: a
value that comes back is stale.

For `Lifecycle`, for any number of requests, shards and attempts, under
`LifecycleAssumption`:

| Theorem | States |
|---|---|
| `LifecycleTypeCorrect` | `Spec => []TypeOK` |
| `CutOffCorrect` | `Spec => []CutOffOnlyByDeadline` |
| `ConnectedCorrect` | `Spec => []ServesOnlyConnected` |
| `ShutdownCorrect` | `Spec => []ShutdownProceeds` |

Their invariant has three parts: `StopInv` (where main is determines how far the
gRPC stop is, a shutdown has its deadline set, and an abort implies that it has
passed), `DrainInv` (before the deadline, each stop leaves no request of its kind
behind; and a GracefulStop that is through never does) and `ConnectedInv` (where main is
determines what is connected and which server can run). `ShutdownProceeds` is the
part of `SignalStops` that is no liveness: while main waits for a stop there is a
deadline, at `wg.Wait` the gRPC server has been stopped, the task requests that are
left have been cancelled, and a health check that is left, which nothing cancels,
has outlived the deadline.

For `Timestamps`, for any tasks, handlers, skew and numbers of statements left
behind, under `TimestampsAssumption`:

| Theorem | States |
|---|---|
| `TimestampsTypeCorrect` | `Spec => []TypeOK` |
| `UpdatesCorrect` | `Spec => []SerialUpdatesOrdered` |
| `CreatesCorrect` | `Spec => []SerialCreatesOrdered` |

The invariant bounds each stamp by the clock: no stamp that was returned is later
than now (plus the skew, for `created_at`), and a statement takes its stamp after
it was sent, when `base` had been fixed.

For `ShardedCache`, for any servers, keys, values, checksums and environments,
under `ShardedCacheAssumption`:

| Theorem | States |
|---|---|
| `ShardedTypeCorrect` | `Spec => []TypeOK` |
| `CacheImplementsKeyspace` | `Spec => ImplementsKeyspace` |

What is needed beyond the type is `EverInv`: whatever a server holds, has saved or
may still receive was once SET under that very key. `PutView` says that a write to
a key's server changes that key to the caller and no other; `AnyView` that every
step of the servers, and every new list, is a `Disturb`.

For `Transport`, for any requests and any size of the pool, under
`TransportAssumption`:

| Theorem | States |
|---|---|
| `TransportTypeCorrect` | `Spec => []TypeOK` |
| `LogCorrect` | `Spec => []LogTellsReplies` |
| `HealthCorrect` | `Spec => []HealthTrue` |
| `PanicsCorrect` | `Spec => []PanicsContained` |
| `PanicLinesNameless` | `Spec => [](no HTTP panic line has an identifier)` |

The invariant says of each request where it is in its chain of layers
(`PlaceInv`), what it has told, recorded and logged there (`HttpInv`, `GrpcInv`),
and what it has seen of Postgres (`SawInv`). The log line and the reply are written
by different layers, so it has to say that a health check on its way out has
recorded the status it told, and that a gRPC request above its logging layer has
logged its result; and that a good connection is one to a Postgres that is up.
`PanicInv` adds what a panic finds on its way out: the recovering layer is the
outermost of either chain and still around it, so that the process goes on and the
client is told, and a request that left its last layer has told its client
something.

Every invariant and action property of a passing run is stated by a theorem. Only
model-checked: the liveness properties (`EventuallyCoherent`, `SignalStops`,
`EventuallyServes`, `ValuesVanish`, `EveryRequestEnds`, `EventuallyHealthy`), which
the prover does not reach.

## 5. Findings

* **Lost updates** (`lost_update_race`, `lost_update_stale_cache`). UpdateTask
  reads a task, merges the fields of the request and writes all fields back. Two
  concurrent updates of different fields lose one; and since the read may hit the
  cache, one failed SET followed by an update of another field undoes an earlier
  update in Postgres with a single client. There is no other way
  (`LostUpdatesExplained`): a statement that also asked for the version it was
  based on would lose none.
* **A missing task is Internal** (`not_found_status`). `IsNotFoundError` compares
  the text with `no rows in result set`, which `HandlePgxError` has already
  replaced; and the `task not found` of a DELETE that found no row is another text
  again, which is the run's trace. No request is ever answered NotFound
  (`NotFoundNever`).
* **Updates may empty a title** (`empty_title`), which CreateTask refuses; nothing else
  does (`TitlesCorrect`).
* **A panic is logged without its request's identifier** (`panic_line`). The layer
  that recovers is outside the one that assigns the identifier, and looks for it
  in its own, older copy of the request; no HTTP panic is ever logged with one
  (`PanicLinesNameless`).

Not an error by any text of the repository, but worth knowing: of two updates that
overlap, the one that commits last may carry the earlier `updated_at`, since its
statement may have begun first (`SerialUpdatesOrdered` is about updates of which
one was sent after the other's reply); and a list orders tasks by the clocks of
the processes that made them (`SerialCreatesOrdered` allows twice the skew). A
health check whose `SELECT 1` never returns keeps the process in `dbPool.Close`, after
both stops: nothing limits its time, and Shutdown gives up on it without cancelling
it (`SignalStops` says that this is the only way). With `REDIS_TTL=0` the keys of tasks
never expire, while the list still has its 60 s, so a stale task would stay stale
until a later request sets or deletes its key.

## 6. Not modelled

* `description` (behaves as title without the emptiness check). A title that is too
  long is, for the reply, one of the failures of a statement.
* The logger (formatting and levels; nothing the program decides depends on it; the
  lines a property is about are in `Transport`), generated protobuf code, the
  bodies of health checks, the configuration that is passed on as it is.
* In `Transport`: what a task request does to the table and the cache, which is
  `CachedTasks`; statements that hang with their client waiting (in `Lifecycle` they
  may); the identifier of a gRPC request, which no log line carries.
* In `ShardedCache`: the calls of NewRedisCache to each server, which are steps of
  `Lifecycle`; several processes with different lists at a time. What a value that
  came back means to the tasks is in `TasksOnKeyspace`.
* In `Timestamps`: deletes, and clocks that are set back by more than the skew.
* In `Lifecycle`: the 5 s pause and the 10 s and 5 s time limits of single
  attempts (an attempt succeeds or not), and the second half of `initDatabase`'s
  error path, which closes a pool nobody else has.

## 7. Plan

1. Done: `ErrorCodes`, `TaskStore`, `CachedTasks`, its proofs and the refinement.
2. Done: `Lifecycle` with restarts, and its proofs.
3. Done: `Keyspace`, `ShardedCache` and the refinement; `Timestamps` and its proofs;
   `Transport` and its proofs.
4. Done: the proofs about `Serial` clients.
5. Done: `TasksOnKeyspace` and its proofs; the safety halves of the liveness
   properties (`CoherenceLasts`, `ShutdownProceeds`) and `PanicsContained`; the type of
   `Timestamps`; the findings in general (`TitlesCorrect`, `NotFoundNever`,
   `PanicLinesNameless`).
6. Done: `OnlyOldCopiesLoseFields`, the cause of lost updates.
7. Next: a bound on how old the answer of a read may be when nothing fails.

Not planned: more of the parts listed in section 6, whose behaviour no property
here would tell apart from another.
