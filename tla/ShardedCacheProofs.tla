------------------------- MODULE ShardedCacheProofs -------------------------
(***************************************************************************)
(* ShardedCache implements Keyspace, for any servers, keys, values,        *)
(* checksums and lists.                                                    *)
(***************************************************************************)
EXTENDS ShardedCache, TLAPS

\* What is anywhere, or on its way, was once SET under that very key.
Written(key, value) == value = Miss \/ value \in ever[key]

EverInv ==
  /\ \A s \in Servers, k \in Keys : Written(k, store[s][k]) /\ Written(k, disk[s][k])
  /\ \A c \in late : Written(c.key, c.value)

Inv == TypeOK /\ EverInv

\* A key has a server, if there is any.
LEMMA ClientIn ==
  ASSUME clients \in Lists, Enabled, NEW key \in Keys
  PROVE  Client(key) \in Servers
<1>1. clients \in Seq(Servers) /\ Len(clients) \in Nat /\ Len(clients) > 0
  BY ShardedCacheAssumption DEF Enabled
<1>2. Hash[key] \in Nat
  BY ShardedCacheAssumption
<1>3. ShardIndex(key) \in 0..(Len(clients) - 1)
  BY <1>1, <1>2 DEF ShardIndex
<1> QED
  BY <1>1, <1>3 DEF Client

LEMMA InitInv == Init => Inv
  BY ShardedCacheAssumption DEF Init, Inv, TypeOK, EverInv, Written, NoValues, Reply

-----------------------------------------------------------------------------
(* Every step preserves Inv. *)

\* Writing a value under its own key on some server.
LEMMA PutInv ==
  ASSUME Inv, NEW server \in Servers, NEW key \in Keys, NEW value \in Values \cup {Miss},
         Put(server, key, value)
  PROVE  /\ store' \in [Servers -> [Keys -> Values \cup {Miss}]]
         /\ \A s \in Servers, k \in Keys :
              store'[s][k] = IF s = server /\ k = key THEN value ELSE store[s][k]
  BY DEF Inv, TypeOK, Put

\* A command leaves behind no more than it was given.
LEMMA SendInv ==
  ASSUME Inv, NEW op, NEW key \in Keys, NEW value \in Values \cup {Miss}, Enabled,
         Send(op, key, value)
  PROVE  /\ store' \in [Servers -> [Keys -> Values \cup {Miss}]]
         /\ late' \subseteq [server : Servers, key : Keys, value : Values \cup {Miss}]
         /\ \A s \in Servers, k \in Keys :
              store'[s][k] = store[s][k] \/ (k = key /\ store'[s][k] = value)
         /\ \A c \in late' : c \in late \/ (c.key = key /\ c.value = value)
<1>1. Client(key) \in Servers
  BY ClientIn DEF Inv, TypeOK
<1>2. /\ store' \in [Servers -> [Keys -> Values \cup {Miss}]]
      /\ \A s \in Servers, k \in Keys :
           store'[s][k] = store[s][k] \/ (k = key /\ store'[s][k] = value)
  <2>1. CASE Put(Client(key), key, value)
    BY <1>1, <2>1, PutInv
  <2>2. CASE UNCHANGED store
    BY <2>2 DEF Inv, TypeOK
  <2> QED
    BY <2>1, <2>2 DEF Send
<1>3. late' = late \/ late' = late \cup {Command(Client(key), key, value)}
  BY DEF Send
<1> QED
  BY <1>1, <1>2, <1>3 DEF Inv, TypeOK, Command

LEMMA SetStep ==
  ASSUME Inv, NEW key \in Keys, NEW value \in Values, Set(key, value)
  PROVE  Inv'
<1> USE DEF Inv, TypeOK, EverInv, Written
<1>1. CASE ~Enabled
  BY <1>1 DEF Set, Skip, Reply
<1>2. CASE Enabled
  <2> value \in Values \cup {Miss}
    OBVIOUS
  <2>1. /\ ever' = [ever EXCEPT ![key] = @ \cup {value}]
        /\ UNCHANGED <<clients, disk>>
        /\ reply'.op = "set"
    BY <1>2 DEF Set, Send, Reply
  <2>2. \A k \in Keys : ever[k] \subseteq ever'[k]
    BY <2>1
  <2>3. value \in ever'[key] /\ ever' \in [Keys -> SUBSET Values]
    BY <2>1
  <2>4. /\ store' \in [Servers -> [Keys -> Values \cup {Miss}]]
        /\ late' \subseteq [server : Servers, key : Keys, value : Values \cup {Miss}]
        /\ \A s \in Servers, k \in Keys :
             store'[s][k] = store[s][k] \/ (k = key /\ store'[s][k] = value)
        /\ \A c \in late' : c \in late \/ (c.key = key /\ c.value = value)
    BY <1>2, SendInv DEF Set
  <2>5. TypeOK'
    BY <2>1, <2>3, <2>4
  <2>6. \A c \in late' : c.value = Miss \/ c.value \in ever'[c.key]
    <3> SUFFICES ASSUME NEW c \in late', c.value # Miss PROVE c.value \in ever'[c.key]
      OBVIOUS
    <3>1. CASE c \in late
      BY <2>2, <3>1
    <3>2. CASE c.key = key /\ c.value = value
      BY <2>3, <3>2
    <3> QED
      BY <2>4, <3>1, <3>2
  <2>7. \A s \in Servers, k \in Keys :
          /\ store'[s][k] = Miss \/ store'[s][k] \in ever'[k]
          /\ disk'[s][k] = Miss \/ disk'[s][k] \in ever'[k]
    <3> SUFFICES ASSUME NEW s \in Servers, NEW k \in Keys
                 PROVE  /\ store'[s][k] = Miss \/ store'[s][k] \in ever'[k]
                        /\ disk'[s][k] = Miss \/ disk'[s][k] \in ever'[k]
      OBVIOUS
    <3>1. store'[s][k] = store[s][k] \/ (k = key /\ store'[s][k] = value)
      BY <2>4
    <3> QED
      BY <2>1, <2>2, <2>3, <3>1
  <2> QED
    BY <2>5, <2>6, <2>7
<1> QED
  BY <1>1, <1>2

LEMMA GetStep ==
  ASSUME Inv, NEW key \in Keys, Get(key)
  PROVE  Inv'
<1>1. Enabled => store[Client(key)][key] \in Values \cup {Miss}
  BY ClientIn DEF Inv, TypeOK
<1> QED
  BY <1>1 DEF Get, Reply, Inv, TypeOK, EverInv, Written

LEMMA DelStep ==
  ASSUME Inv, NEW key \in Keys, Del(key)
  PROVE  Inv'
<1> USE DEF Inv, TypeOK, EverInv, Written
<1>1. CASE ~Enabled
  BY <1>1 DEF Del, Skip, Reply
<1>2. CASE Enabled
  <2> Miss \in Values \cup {Miss}
    OBVIOUS
  <2>1. UNCHANGED <<clients, disk, ever>> /\ reply'.op = "del"
    BY <1>2 DEF Del, Send, Reply
  <2>2. /\ store' \in [Servers -> [Keys -> Values \cup {Miss}]]
        /\ late' \subseteq [server : Servers, key : Keys, value : Values \cup {Miss}]
        /\ \A s \in Servers, k \in Keys :
             store'[s][k] = store[s][k] \/ (k = key /\ store'[s][k] = Miss)
        /\ \A c \in late' : c \in late \/ (c.key = key /\ c.value = Miss)
    BY <1>2, SendInv DEF Del
  <2>3. TypeOK'
    BY <2>1, <2>2
  <2>4. \A c \in late' : c.value = Miss \/ c.value \in ever'[c.key]
    BY <2>1, <2>2
  <2>5. \A s \in Servers, k \in Keys :
          /\ store'[s][k] = Miss \/ store'[s][k] \in ever'[k]
          /\ disk'[s][k] = Miss \/ disk'[s][k] \in ever'[k]
    BY <2>1, <2>2
  <2> QED
    BY <2>3, <2>4, <2>5
<1> QED
  BY <1>1, <1>2

LEMMA ServerStep ==
  ASSUME Inv,
         \/ \E s \in Servers, k \in Keys, v \in Values : Expire(s, k, v)
         \/ \E s \in Servers : Save(s) \/ Reload(s)
         \/ Restart \/ LateCommand
  PROVE  Inv'
<1> USE DEF Inv, TypeOK, EverInv, Written
<1>1. ASSUME NEW s \in Servers, NEW k \in Keys, NEW v \in Values, Expire(s, k, v) PROVE Inv'
  BY <1>1 DEF Expire
<1>2. ASSUME NEW s \in Servers, Save(s) PROVE Inv'
  BY <1>2 DEF Save
<1>3. ASSUME NEW s \in Servers, Reload(s) PROVE Inv'
  BY <1>3 DEF Reload
<1>4. CASE Restart
  BY <1>4 DEF Restart
<1>5. CASE LateCommand
  <2>1. PICK c \in late : /\ Put(c.server, c.key, c.value)
                          /\ late' = late \ {c}
                          /\ UNCHANGED <<clients, disk, ever, reply>>
    BY <1>5 DEF LateCommand
  <2>2. c.server \in Servers /\ c.key \in Keys /\ c.value \in Values \cup {Miss}
    OBVIOUS
  <2>3. /\ store' \in [Servers -> [Keys -> Values \cup {Miss}]]
        /\ \A s \in Servers, k \in Keys :
              store'[s][k] = IF s = c.server /\ k = c.key THEN c.value ELSE store[s][k]
    BY <2>1, <2>2, PutInv
  <2> QED
    BY <2>1, <2>2, <2>3
<1> QED
  BY <1>1, <1>2, <1>3, <1>4, <1>5

LEMMA InvHolds == Inv /\ [Next]_vars => Inv'
<1> SUFFICES ASSUME Inv, [Next]_vars PROVE Inv'
  OBVIOUS
<1>1. ASSUME NEW k \in Keys, NEW v \in Values, Set(k, v) PROVE Inv'
  BY <1>1, SetStep
<1>2. ASSUME NEW k \in Keys, Get(k) PROVE Inv'
  BY <1>2, GetStep
<1>3. ASSUME NEW k \in Keys, Del(k) PROVE Inv'
  BY <1>3, DelStep
<1>4. CASE \/ \E s \in Servers, k \in Keys, v \in Values : Expire(s, k, v)
           \/ \E s \in Servers : Save(s) \/ Reload(s)
           \/ Restart \/ LateCommand
  BY <1>4, ServerStep
<1>5. CASE UNCHANGED vars
  BY <1>5 DEF vars, Inv, TypeOK, EverInv, Written
<1> QED
  BY <1>1, <1>2, <1>3, <1>4, <1>5 DEF Next

THEOREM InvAlways == Spec => []Inv
  BY InitInv, InvHolds, PTL DEF Spec

\* A reply to Get is a value or an error, never Miss; every list of clients is
\* one that the environment gives.
THEOREM ShardedTypeCorrect == Spec => []TypeOK
<1>1. Inv => TypeOK
  BY DEF Inv
<1> QED
  BY <1>1, InvAlways, PTL

-----------------------------------------------------------------------------
(* The refinement. *)

\* What the caller sees is a function of the clients and of what they hold.
LEMMA SameView == UNCHANGED <<clients, store>> => View' = View
  BY DEF View, Enabled, Client, ShardIndex

\* Writing to the shard of a key changes that key, and no other.
LEMMA PutView ==
  ASSUME Inv, Enabled, NEW key \in Keys, NEW value \in Values \cup {Miss},
         UNCHANGED clients, Put(Client(key), key, value)
  PROVE  View' = [View EXCEPT ![key] = value]
<1>1. \A k \in Keys : Client(k) \in Servers
  BY ClientIn DEF Inv, TypeOK
<1>2. Enabled' /\ \A k \in Keys : Client(k)' = Client(k)
  BY DEF Enabled, Client, ShardIndex
<1>3. \A s \in Servers, k \in Keys :
        store'[s][k] = IF s = Client(key) /\ k = key THEN value ELSE store[s][k]
  BY <1>1, PutInv
<1>4. \A k \in Keys : View'[k] = IF k = key THEN value ELSE View[k]
  BY <1>1, <1>2, <1>3 DEF View
<1> QED
  BY <1>4 DEF View

LEMMA ClientsIn == Inv => (Enabled => \A k \in Keys : Client(k) \in Servers)
  BY ClientIn DEF Inv, TypeOK

\* Whatever servers and restarts do, the caller sees what was once written.
LEMMA AnyView ==
  ASSUME Inv, Inv', UNCHANGED <<ever, reply>>
  PROVE  Abstract!Disturb
<1>1. (Inv => (Enabled => \A k \in Keys : Client(k) \in Servers))'
  BY ClientsIn, PTL
<1> QED
  BY <1>1 DEF Abstract!Disturb, View, Inv, TypeOK, EverInv, Written, Enabled

LEMMA InitRefines == Init => Abstract!Init
<1> SUFFICES ASSUME Init PROVE Abstract!Init
  OBVIOUS
<1>1. Enabled => \A k \in Keys : Client(k) \in Servers
  BY ClientsIn, InitInv
<1>2. View = [k \in Keys |-> Miss]
  BY <1>1 DEF Init, NoValues, View
<1>3. Enabled \in BOOLEAN
  BY DEF Enabled
<1> QED
  BY <1>2, <1>3 DEF Init, Abstract!Init, Reply, Abstract!Reply

LEMMA SetRefines ==
  ASSUME Inv, NEW key \in Keys, NEW value \in Values, Set(key, value)
  PROVE  Abstract!Set(key, value)
<1>1. clients' = clients /\ (Enabled' <=> Enabled)
  BY DEF Set, Enabled
<1>2. CASE ~Enabled
  <2>1. View' = View
    BY <1>2, SameView DEF Set, Skip
  <2> QED
    BY <1>1, <1>2, <2>1 DEF Set, Skip, Abstract!Set, Reply, Abstract!Reply
<1>3. CASE Enabled
  <2>1. ever' = [ever EXCEPT ![key] = @ \cup {value}]
    BY <1>3 DEF Set
  <2>2. CASE Put(Client(key), key, value)
    <3>1. View' = [View EXCEPT ![key] = value]
      BY <1>1, <1>3, <2>2, PutView
    <3>2. reply' \in {Reply("set", key, "ok"), Reply("set", key, "error")}
      BY <1>3 DEF Set, Send
    <3> QED
      BY <1>1, <1>3, <2>1, <3>1, <3>2 DEF Abstract!Set, Reply, Abstract!Reply
  <2>3. CASE UNCHANGED store /\ reply' = Reply("set", key, "error")
    <3>1. View' = View
      BY <1>1, <2>3, SameView
    <3> QED
      BY <1>1, <1>3, <2>1, <2>3, <3>1 DEF Abstract!Set, Reply, Abstract!Reply
  <2> QED
    BY <1>3, <2>2, <2>3 DEF Set, Send
<1> QED
  BY <1>2, <1>3

LEMMA GetRefines ==
  ASSUME Inv, NEW key \in Keys, Get(key)
  PROVE  Abstract!Get(key)
<1>1. View' = View /\ (Enabled' <=> Enabled)
  BY SameView DEF Get, Enabled
<1>2. Enabled => View[key] = store[Client(key)][key]
  BY DEF View
<1> QED
  BY <1>1, <1>2 DEF Get, Abstract!Get, Reply, Abstract!Reply

LEMMA DelRefines ==
  ASSUME Inv, NEW key \in Keys, Del(key)
  PROVE  Abstract!Del(key)
<1>1. clients' = clients /\ ever' = ever /\ (Enabled' <=> Enabled)
  BY DEF Del, Enabled
<1>2. CASE ~Enabled
  <2>1. View' = View /\ View = [View EXCEPT ![key] = Miss]
    BY <1>2, SameView DEF Del, Skip, View
  <2> QED
    BY <1>1, <1>2, <2>1 DEF Del, Skip, Abstract!Del, Reply, Abstract!Reply
<1>3. CASE Enabled
  <2>1. CASE Put(Client(key), key, Miss)
    <3>1. View' = [View EXCEPT ![key] = Miss]
      BY <1>1, <1>3, <2>1, PutView
    <3>2. reply' \in {Reply("del", key, "ok"), Reply("del", key, "error")}
      BY <1>3 DEF Del, Send
    <3> QED
      BY <1>1, <3>1, <3>2 DEF Abstract!Del, Reply, Abstract!Reply
  <2>2. CASE UNCHANGED store /\ reply' = Reply("del", key, "error")
    <3>1. View' = View
      BY <1>1, <2>2, SameView
    <3> QED
      BY <1>1, <2>2, <3>1 DEF Abstract!Del, Reply, Abstract!Reply
  <2> QED
    BY <1>3, <2>1, <2>2 DEF Del, Send
<1> QED
  BY <1>2, <1>3

LEMMA NextRefines == Inv /\ [Next]_vars => [Abstract!Next]_(Abstract!vars)
<1> SUFFICES ASSUME Inv, [Next]_vars PROVE [Abstract!Next]_(Abstract!vars)
  OBVIOUS
<1>1. Inv'
  BY InvHolds
<1>2. ASSUME NEW k \in Keys, NEW v \in Values, Set(k, v) PROVE Abstract!Next
  BY <1>2, SetRefines DEF Abstract!Next
<1>3. ASSUME NEW k \in Keys, Get(k) PROVE Abstract!Next
  BY <1>3, GetRefines DEF Abstract!Next
<1>4. ASSUME NEW k \in Keys, Del(k) PROVE Abstract!Next
  BY <1>4, DelRefines DEF Abstract!Next
<1>5. CASE \/ \E s \in Servers, k \in Keys, v \in Values : Expire(s, k, v)
           \/ \E s \in Servers : Save(s) \/ Reload(s)
           \/ Restart \/ LateCommand
  <2>1. UNCHANGED <<ever, reply>>
    BY <1>5 DEF Expire, Save, Reload, Restart, LateCommand
  <2> QED
    BY <1>1, <2>1, AnyView DEF Abstract!Next
<1>6. CASE UNCHANGED vars
  <2>1. View' = View /\ (Enabled' <=> Enabled) /\ UNCHANGED <<ever, reply>>
    BY <1>6, SameView DEF vars, Enabled
  <2> QED
    BY <2>1 DEF Abstract!vars
<1> QED
  BY <1>2, <1>3, <1>4, <1>5, <1>6 DEF Next

\* The shards are one keyspace to their caller: what a command is answered is
\* true of the shard that the next command for that key goes to, and nothing
\* but a change of the servers, of their list, or a late command lets a caller
\* see other than the last value, and then one that was once written.
THEOREM CacheImplementsKeyspace == Spec => ImplementsKeyspace
  BY InitRefines, InvAlways, NextRefines, PTL DEF Spec, ImplementsKeyspace, Abstract!Spec
=============================================================================
