---------------------------- MODULE ShardedCache ----------------------------
(***************************************************************************)
(* redisCache over several Redis servers: each command goes to the shard   *)
(* the key's checksum selects in the list of clients.  The list comes from *)
(* the environment when the process starts; a restart with another one     *)
(* leaves values behind on servers that no longer own their key.  Redis    *)
(* keeps values on disk (docker-compose.yml mounts /data), and a server    *)
(* that restarts comes back with those it saved last.                      *)
(***************************************************************************)
EXTENDS Integers, Sequences, FiniteSets

CONSTANTS
  Servers,
  Keys,
  ListKey,   \* "tasks:list"; the other keys are those of tasks
  Values,    \* what is cached; each one is SET once, so that it stands for
             \* its own time of expiry, the one its last execution set
  Miss,      \* no value
  Hash,      \* crc32.ChecksumIEEE
  Blank,     \* what is between two commas and is no address
  Environments, \* what REDIS_ENABLED and REDIS_URLS, split at commas, may be
  TaskTTL,   \* REDIS_TTL
  MaxLate    \* bound: commands at a time that outlive their sender

\* getEnvBool: a value that ParseBool does not know counts as none.
GetEnvBool(value, default) ==
  IF value = "true" THEN TRUE ELSE IF value = "false" THEN FALSE ELSE default

\* parseRedisURLs drops what is empty.
ParseRedisURLs(urls) == SelectSeq(urls, LAMBDA url : url # Blank)

\* The clients of a process started in this environment.
Load(env) ==
  IF GetEnvBool(env.enabled, FALSE) THEN ParseRedisURLs(env.urls) ELSE << >>

\* NewRedisCache refuses an empty list, and the process ends.
Starts(env) == GetEnvBool(env.enabled, FALSE) => ParseRedisURLs(env.urls) # << >>

Lists == {Load(env) : env \in {e \in Environments : Starts(e)}}

ASSUME ShardedCacheAssumption ==
  /\ Miss \notin Values
  /\ Hash \in [Keys -> Nat]
  /\ Lists \subseteq Seq(Servers)
  /\ TaskTTL \in Nat /\ MaxLate \in Nat

VARIABLES
  clients,  \* r.clients; << >> when r.enabled is false
  store,    \* what each server holds
  disk,     \* what each server saved last
  late,     \* attempts that timed out and that a server may execute yet
  ever,     \* history: the values ever SET under a key
  reply     \* the outcome of the last command

vars == <<clients, store, disk, late, ever, reply>>

Enabled == clients # << >>
Reply(op, key, res) == [op |-> op, key |-> key, res |-> res]

\* getShardIndex.
ShardIndex(key) == IF Len(clients) = 1 THEN 0 ELSE Hash[key] % Len(clients)

\* getClient; the clients of the model are numbered from 1.
Client(key) == clients[ShardIndex(key) + 1]

Command(server, key, value) == [server |-> server, key |-> key, value |-> value]

NoValues == [s \in Servers |-> [k \in Keys |-> Miss]]

Init ==
  /\ clients \in Lists
  /\ store = NoValues /\ disk = NoValues /\ late = {}
  /\ ever = [k \in Keys |-> {}]
  /\ reply = Reply("none", "none", "none")

-----------------------------------------------------------------------------
(* Commands. *)

Put(server, key, value) == store' = [store EXCEPT ![server][key] = value]

\* A SET, or a DEL when value is Miss, goes out, more than once if go-redis
\* retries it.  When it is answered it has been executed; when it fails it may
\* have been.  Either way an attempt that timed out may be executed later, even
\* by a server that the list no longer has.
Send(op, key, value) ==
  /\ \/ /\ Put(Client(key), key, value)
        /\ reply' \in {Reply(op, key, "ok"), Reply(op, key, "error")}
     \/ UNCHANGED store /\ reply' = Reply(op, key, "error")
  /\ \/ UNCHANGED late
     \/ /\ Cardinality(late) < MaxLate
        /\ late' = late \cup {Command(Client(key), key, value)}

\* if !r.enabled { return nil }
Skip(op, key) == reply' = Reply(op, key, "ok") /\ UNCHANGED <<store, late>>

\* SetTask and SetTaskList.
Set(key, value) ==
  /\ IF Enabled
     THEN Send("set", key, value) /\ ever' = [ever EXCEPT ![key] = @ \cup {value}]
     ELSE Skip("set", key) /\ UNCHANGED ever
  /\ UNCHANGED <<clients, disk>>

\* Bug: redis.Nil is not taken for an error.
GetNil(key) ==
  /\ \/ Enabled /\ reply' = Reply("get", key, store[Client(key)][key])
     \/ reply' = Reply("get", key, "error")
  /\ UNCHANGED <<clients, store, disk, late, ever>>

\* GetTask and GetTaskList: a missing value is an error like any other.
Get(key) ==
  /\ \/ /\ Enabled /\ store[Client(key)][key] # Miss
        /\ reply' = Reply("get", key, store[Client(key)][key])
     \/ reply' = Reply("get", key, "error")
  /\ UNCHANGED <<clients, store, disk, late, ever>>

\* Bug: the list is invalidated on the first shard.
DelOnFirst(key) ==
  /\ IF Enabled /\ key = ListKey
     THEN /\ Put(clients[1], key, Miss)
          /\ reply' = Reply("del", key, "ok")
          /\ UNCHANGED late
     ELSE IF Enabled THEN Send("del", key, Miss) ELSE Skip("del", key)
  /\ UNCHANGED <<clients, disk, ever>>

\* DeleteTask and InvalidateTaskList.
Del(key) ==
  /\ IF Enabled THEN Send("del", key, Miss) ELSE Skip("del", key)
  /\ UNCHANGED <<clients, disk, ever>>

-----------------------------------------------------------------------------
(* Servers and restarts. *)

ListTTL == 60

\* Bug: SetTask passes 0 in place of its ttl, as REDIS_TTL=0 makes it do.
TtlOfList(key) == IF key = ListKey THEN ListTTL ELSE 0

\* The expiration, in seconds, that the cached repository gives SetTaskList and
\* SetTask; only the latter's is configured.
Ttl(key) == IF key = ListKey THEN ListTTL ELSE TaskTTL

\* A value's time has come, in memory and on disk; with 0 it never does.
Expire(server, key, value) ==
  LET Purged(kv) == [kv EXCEPT ![key] = IF @ = value THEN Miss ELSE @] IN
  /\ Ttl(key) > 0
  /\ store' = [store EXCEPT ![server] = Purged(@)]
  /\ disk' = [disk EXCEPT ![server] = Purged(@)]
  /\ UNCHANGED <<clients, late, ever, reply>>

Save(server) ==
  /\ disk' = [disk EXCEPT ![server] = store[server]]
  /\ UNCHANGED <<clients, store, late, ever, reply>>

\* A server restarts; what it had not saved is lost, what was overwritten or
\* deleted since is back.
Reload(server) ==
  /\ store' = [store EXCEPT ![server] = disk[server]]
  /\ UNCHANGED <<clients, disk, late, ever, reply>>

\* NewRedisCache, in a new process.
Restart ==
  /\ clients' \in Lists
  /\ UNCHANGED <<store, disk, late, ever, reply>>

LateCommand ==
  \E c \in late :
    /\ Put(c.server, c.key, c.value)
    /\ late' = late \ {c}
    /\ UNCHANGED <<clients, disk, ever, reply>>

Used == UNION {ever[k] : k \in Keys}

Next ==
  \/ \E k \in Keys : Get(k) \/ Del(k) \/ \E v \in Values \ Used : Set(k, v)
  \/ \E s \in Servers, k \in Keys, v \in Values : Expire(s, k, v)
  \/ \E s \in Servers : Save(s) \/ Reload(s)
  \/ Restart \/ LateCommand

Spec == Init /\ [][Next]_vars

\* Redis removes values whose time has come.
FairSpec ==
  Spec /\ \A s \in Servers, k \in Keys, v \in Values : WF_vars(Expire(s, k, v))

-----------------------------------------------------------------------------
(* Properties. *)

TypeOK ==
  /\ clients \in Lists
  /\ store \in [Servers -> [Keys -> Values \cup {Miss}]]
  /\ disk \in [Servers -> [Keys -> Values \cup {Miss}]]
  /\ late \subseteq [server : Servers, key : Keys, value : Values \cup {Miss}]
  /\ ever \in [Keys -> SUBSET Values]
  /\ reply.op = "get" => reply.res \in Values \cup {"error"}

\* The keyspace the caller sees: under each key what its shard has.
View == [k \in Keys |-> IF Enabled THEN store[Client(k)][k] ELSE Miss]

Abstract == INSTANCE Keyspace WITH on <- Enabled, kv <- View

\* The shards behave as one keyspace, in which a change of the list, a server
\* that restarts, or a late command can at worst bring back what was once
\* written.
ImplementsKeyspace == Abstract!Spec

\* No list stays for ever and, if REDIS_TTL is positive, no task does: wherever
\* a value was left, under whatever list of servers, and however often it came
\* back, it is gone for good in the end.  (With REDIS_TTL=0 tasks do stay.)
GoneFor(key, value) == <>[](\A s \in Servers : value \notin {store[s][key], disk[s][key]})
ValuesVanish ==
  \A v \in Values : /\ GoneFor(ListKey, v)
                    /\ TaskTTL > 0 => \A k \in Keys : GoneFor(k, v)
=============================================================================
