--------------------------- MODULE MCShardedCache ---------------------------
(***************************************************************************)
(* Instances of ShardedCache for TLC.                                      *)
(***************************************************************************)
EXTENDS ShardedCache

CONSTANTS s0, s1,      \* Redis servers
          task,        \* the key of a task
          v1, v2       \* values

TwoServers == {s0, s1}
TwoKeys    == {task, ListKey}
TwoValues  == {v1, v2}

\* The checksums select different shards of two.
TwoHashes == [k \in TwoKeys |-> IF k = ListKey THEN 3 ELSE 2]

\* One shard, two, two in another order and with a comma too many, a cache
\* that is switched off, one that is meant to be on, and one without a server.
SomeEnvironments ==
  [enabled : {"true"}, urls : {<<s0>>, <<s0, s1>>, <<s1, Blank, s0, Blank>>, <<Blank>>}]
  \cup [enabled : {"false", "yes"}, urls : {<<s0>>}]
=============================================================================
