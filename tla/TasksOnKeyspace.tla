--------------------------- MODULE TasksOnKeyspace ---------------------------
(***************************************************************************)
(* The task service over what module Keyspace promises of Redis, which is  *)
(* less than what CachedTasks takes it to be: when a server restarts with  *)
(* what it had saved, or the list of shards changes, a value that was once *)
(* SET under a key may be back under it, however long ago that was, how    *)
(* often it has come back already, and whether or not the SET was answered *)
(* (Keyspace!Disturb; ShardedCache implements it).                         *)
(***************************************************************************)
EXTENDS CachedTasks

VARIABLE ever  \* history: the values that were ever SET under a key

allVars == <<vars, ever>>

\* The values that go out under a key in this step.
Sent(key) ==
  {InHand(p, key) : p \in {q \in Handlers : AboutToSet(q, key) /\ pc'[q] # pc[q]}}

Serve == Next /\ ever' = [key \in Keys |-> ever[key] \cup Sent(key)]

\* A value is back under its key, or lost; several keys come back in as many
\* steps.
Back(key) ==
  /\ \E value \in ever[key] \cup {Miss} : redis' = [redis EXCEPT ![key] = value]
  /\ UNCHANGED <<tableVars, late, localVars, ever>>

InitOnKeyspace == Init /\ ever = [key \in Keys |-> {}]
NextOnKeyspace == Serve \/ \E key \in Keys : Back(key)
SpecOnKeyspace == InitOnKeyspace /\ [][NextOnKeyspace]_allVars
=============================================================================
