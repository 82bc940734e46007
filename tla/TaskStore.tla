------------------------------ MODULE TaskStore ------------------------------
(***************************************************************************)
(* What the task service promises whatever its cache, its network and its  *)
(* restarts do: a table of tasks in which an identifier is used once, is   *)
(* never brought back after a delete, and changes one statement at a time; *)
(* and clients that are only ever told things that were true of the table  *)
(* at one moment.  Answers may be out of date: nothing here bounds by how  *)
(* much, and CachedTasks says when they are not.                           *)
(***************************************************************************)
CONSTANTS
  Ids,       \* task identifiers
  Row,       \* contents a task may have
  Clients,   \* those who receive answers
  NoTask,    \* what the table holds under an identifier without a task
  ListKey,   \* the subject of an answer about the whole table
  Nothing    \* no answer

VARIABLES
  db,        \* the table, Ids -> Row or NoTask
  past,      \* every state the table has had, the present one included
  answer     \* what each client was last told: <<subject, value>> or Nothing

vars == <<db, past, answer>>

Table == [Ids -> Row \cup {NoTask}]

\* The identifier has had a task, now or before.
Used(id) == \E t \in past : t[id] # NoTask

Init ==
  /\ db = [id \in Ids |-> NoTask]
  /\ past = {db}
  /\ answer = [c \in Clients |-> Nothing]

\* One row changes; the contents it is given are named by their effect.
Changes(id, contents) ==
  /\ db'[id] \in contents
  /\ db' = [db EXCEPT ![id] = db'[id]]
  /\ past' = past \cup {db'}
  /\ UNCHANGED answer

Insert(id)  == ~Used(id) /\ Changes(id, Row)
Replace(id) == db[id] # NoTask /\ Changes(id, Row)
Remove(id)  == db[id] # NoTask /\ Changes(id, {NoTask})

\* Told of a task: contents it has had.
TellTask(c, id) ==
  \E t \in past : t[id] # NoTask /\ answer' = [answer EXCEPT ![c] = <<id, t[id]>>]

\* Told that a task is deleted: it existed and is gone.
TellDeleted(c, id) ==
  /\ Used(id)
  /\ db[id] = NoTask
  /\ answer' = [answer EXCEPT ![c] = <<id, NoTask>>]

\* Told of all tasks: one past state of the table, not a mixture of several.
TellList(c) ==
  \E t \in past : answer' = [answer EXCEPT ![c] = <<ListKey, t>>]

Tell(c) ==
  /\ answer[c] = Nothing
  /\ (\E id \in Ids : TellTask(c, id) \/ TellDeleted(c, id)) \/ TellList(c)
  /\ UNCHANGED <<db, past>>

Forget(C) ==
  /\ answer' = [c \in Clients |-> IF c \in C THEN Nothing ELSE answer[c]]
  /\ UNCHANGED <<db, past>>

Next ==
  \/ \E id \in Ids : Insert(id) \/ Replace(id) \/ Remove(id)
  \/ \E c \in Clients : Tell(c)
  \/ \E C \in SUBSET Clients : Forget(C)

Spec == Init /\ [][Next]_vars
=============================================================================
