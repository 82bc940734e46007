------------------------------ MODULE Keyspace ------------------------------
(***************************************************************************)
(* What RedisCache promises to its caller, whatever servers are behind it: *)
(* one value per key, where a command that is answered has been executed.  *)
(* Between two commands a value may vanish, or one that was once written   *)
(* under the same key may be back, when the cache is set up anew, when a   *)
(* server restarts, or when a late command arrives.                        *)
(***************************************************************************)
CONSTANTS Keys, Values,
          Miss   \* no value

VARIABLES
  on,    \* the cache is enabled
  kv,    \* the keyspace
  ever,  \* the values that were ever written under a key
  reply  \* the outcome of the last command

vars == <<on, kv, ever, reply>>

Reply(op, key, res) == [op |-> op, key |-> key, res |-> res]

Init ==
  /\ on \in BOOLEAN
  /\ kv = [k \in Keys |-> Miss]
  /\ ever = [k \in Keys |-> {}]
  /\ reply = Reply("none", "none", "none")

\* An enabled cache that answers has stored the value; without an answer it
\* may have.  A disabled one answers, and stores nothing.
Set(k, v) ==
  \/ /\ on
     /\ ever' = [ever EXCEPT ![k] = @ \cup {v}]
     /\ \/ /\ kv' = [kv EXCEPT ![k] = v]
           /\ reply' \in {Reply("set", k, "ok"), Reply("set", k, "error")}
        \/ UNCHANGED kv /\ reply' = Reply("set", k, "error")
     /\ UNCHANGED on
  \/ ~on /\ reply' = Reply("set", k, "ok") /\ UNCHANGED <<on, kv, ever>>

\* A value that is returned is the one under the key.
Get(k) ==
  /\ \/ on /\ kv[k] # Miss /\ reply' = Reply("get", k, kv[k])
     \/ reply' = Reply("get", k, "error")
  /\ UNCHANGED <<on, kv, ever>>

Del(k) ==
  /\ \/ /\ kv' = [kv EXCEPT ![k] = Miss]
        /\ reply' \in {Reply("del", k, "ok"), Reply("del", k, "error")}
     \/ UNCHANGED kv /\ reply' = Reply("del", k, "error")
  /\ UNCHANGED <<on, ever>>

\* The world outside: values vanish, and those that were once written under the
\* very key may be back.
Disturb ==
  /\ on' \in BOOLEAN
  /\ kv' \in [Keys -> Values \cup {Miss}]
  /\ \A k \in Keys : kv'[k] # Miss => on' /\ kv'[k] \in ever[k]
  /\ UNCHANGED <<ever, reply>>

Next ==
  \/ \E k \in Keys : Get(k) \/ Del(k) \/ \E v \in Values : Set(k, v)
  \/ Disturb

Spec == Init /\ [][Next]_vars
=============================================================================
