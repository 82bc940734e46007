---------------------------- MODULE MCLifecycle ----------------------------
(***************************************************************************)
(* Instances of Lifecycle for TLC.                                         *)
(***************************************************************************)
EXTENDS Lifecycle

CONSTANTS h1, g1, g2,   \* requests
          s1, s2        \* Redis shards

OneHttp      == {h1}
TwoGrpc      == {g1, g2}
TwoInstances == {s1, s2}
TwoShards    == <<s1, s2>>
=============================================================================
