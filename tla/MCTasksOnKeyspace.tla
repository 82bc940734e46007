-------------------------- MODULE MCTasksOnKeyspace --------------------------
(***************************************************************************)
(* Instances of TasksOnKeyspace for TLC.                                   *)
(***************************************************************************)
EXTENDS MCCachedTasks, TasksOnKeyspace
=============================================================================
