----------------------------- MODULE MCTransport -----------------------------
(***************************************************************************)
(* Instances of Transport for TLC.                                         *)
(***************************************************************************)
EXTENDS Transport

CONSTANTS h1, g1   \* requests

OneHttp == {h1}
OneGrpc == {g1}
=============================================================================
