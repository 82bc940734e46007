----------------------------- MODULE Timestamps -----------------------------
(***************************************************************************)
(* created_at and updated_at.  Create stamps both with the clock of its    *)
(* service process; an UPDATE stamps updated_at with NOW(), the database's *)
(* clock when the statement began, which may be long before it commits:    *)
(* it waits for the row's lock, among others.  A handler that gives up     *)
(* leaves its statement behind, and that may still begin and commit.       *)
(*                                                                         *)
(* Rows are not deleted here, a deleted one has no stamps; the other       *)
(* columns are the matter of module CachedTasks.                           *)
(***************************************************************************)
EXTENDS Integers, FiniteSets

CONSTANTS
  Ids, Handlers,
  NoRow,       \* a task that is not in the table
  NoStatement, \* a handler that has none
  MaxSkew,     \* how far a service's clock is off the database's
  MaxTime,     \* bound: the last time
  MaxOrphans   \* bound: statements at a time that outlive their handler

Row == [created : Int, updated : Int]

ASSUME TimestampsAssumption ==
  /\ MaxSkew \in Nat /\ MaxTime \in Nat /\ MaxOrphans \in Nat
  /\ NoRow \notin Row

VARIABLES
  now,          \* the database's clock
  row,          \* the table
  stmt,         \* the statement of each handler
  orphans,      \* statements whose handler gave up
  base,         \* history: the stamp each handler's request came after
  lastUpdated,  \* history: the latest updated_at an UpdateTask has returned
  lastCreated   \* history: the latest created_at a CreateTask has returned

vars == <<now, row, stmt, orphans, base, lastUpdated, lastCreated>>

\* Where a statement is, and the row it writes.
Statement == [op : {"insert", "update"}, at : {"sent", "begun", "done"},
              task : Ids, created : Int, updated : Int]

\* time.Now().
ServiceClock == (now - MaxSkew)..(now + MaxSkew)

Later(x, y) == IF x >= y THEN x ELSE y

Init ==
  /\ now = 0
  /\ row = [i \in Ids |-> NoRow]
  /\ stmt = [h \in Handlers |-> NoStatement] /\ orphans = {}
  /\ base = [h \in Handlers |-> -MaxSkew]
  /\ lastUpdated = [i \in Ids |-> 0] /\ lastCreated = -MaxSkew

Tick ==
  /\ now < MaxTime
  /\ now' = now + 1
  /\ UNCHANGED <<row, stmt, orphans, base, lastUpdated, lastCreated>>

\* uuid.New(): no row and no statement has this identifier.
Unused(i) ==
  /\ row[i] = NoRow
  /\ \A h \in Handlers : stmt[h] # NoStatement => stmt[h].task # i
  /\ \A s \in orphans : s.task # i

\* Bug: the clock has been read when the process started.
SendCreateAtStart(h) ==
  /\ stmt[h] = NoStatement
  /\ \E i \in Ids, started \in (-MaxSkew)..(now + MaxSkew) :
       /\ Unused(i)
       /\ stmt' = [stmt EXCEPT ![h] = [op |-> "insert", at |-> "sent", task |-> i,
                                       created |-> started, updated |-> started]]
  /\ base' = [base EXCEPT ![h] = lastCreated]
  /\ UNCHANGED <<now, row, orphans, lastUpdated, lastCreated>>

\* Create: a new identifier, and two readings of the service's clock.
SendCreate(h) ==
  /\ stmt[h] = NoStatement
  /\ \E i \in Ids, created \in ServiceClock, updated \in ServiceClock :
       /\ Unused(i)
       /\ stmt' = [stmt EXCEPT ![h] = [op |-> "insert", at |-> "sent", task |-> i,
                                       created |-> created, updated |-> updated]]
  /\ base' = [base EXCEPT ![h] = lastCreated]
  /\ UNCHANGED <<now, row, orphans, lastUpdated, lastCreated>>

\* Update sends the new columns, and not the stamp Task.Update put in the copy.
SendUpdate(h) ==
  /\ stmt[h] = NoStatement
  /\ \E i \in Ids :
       /\ row[i] # NoRow
       /\ stmt' = [stmt EXCEPT ![h] = [op |-> "update", at |-> "sent", task |-> i,
                                       created |-> 0, updated |-> 0]]
       /\ base' = [base EXCEPT ![h] = lastUpdated[i]]
  /\ UNCHANGED <<now, row, orphans, lastUpdated, lastCreated>>

\* Bug: updated_at = $5, the stamp of the copy.
BegunWithCopy(s) ==
  [s EXCEPT !.at = "begun", !.updated = IF s.op = "update" THEN now - MaxSkew ELSE @]

\* NOW() is fixed as the statement begins; an INSERT does not use it.
Begun(s) == [s EXCEPT !.at = "begun",
                      !.updated = IF s.op = "update" THEN now ELSE @]

\* Bug: the INSERT leaves updated_at out of a column without a default.
ExecutedNull(s) == [row EXCEPT ![s.task] =
  IF s.op = "update" THEN [@ EXCEPT !.updated = s.updated]
                     ELSE [created |-> s.created, updated |-> NoRow]]

Executed(s) == [row EXCEPT ![s.task] =
  IF s.op = "update" THEN [@ EXCEPT !.updated = s.updated]
                     ELSE [created |-> s.created, updated |-> s.updated]]

Begin(h) ==
  /\ stmt[h] # NoStatement /\ stmt[h].at = "sent"
  /\ stmt' = [stmt EXCEPT ![h] = Begun(@)]
  /\ UNCHANGED <<now, row, orphans, base, lastUpdated, lastCreated>>

\* The statement commits.
Execute(h) ==
  /\ stmt[h] # NoStatement /\ stmt[h].at = "begun"
  /\ row' = Executed(stmt[h])
  /\ stmt' = [stmt EXCEPT ![h].at = "done"]
  /\ UNCHANGED <<now, orphans, base, lastUpdated, lastCreated>>

\* The row RETURNING gave reaches the client.
Reply(h) ==
  /\ stmt[h] # NoStatement /\ stmt[h].at = "done"
  /\ IF stmt[h].op = "update"
     THEN /\ lastUpdated' = [lastUpdated EXCEPT ![stmt[h].task] = Later(@, stmt[h].updated)]
          /\ UNCHANGED lastCreated
     ELSE /\ lastCreated' = Later(lastCreated, stmt[h].created)
          /\ UNCHANGED lastUpdated
  /\ stmt' = [stmt EXCEPT ![h] = NoStatement]
  /\ UNCHANGED <<now, row, orphans, base>>

\* An error, a client that left, a process that died: what has been sent may
\* never get to Postgres, or be executed all the same.
GiveUp(h) ==
  /\ stmt[h] # NoStatement
  /\ \/ UNCHANGED orphans
     \/ /\ stmt[h].at # "done" /\ Cardinality(orphans) < MaxOrphans
        /\ orphans' = orphans \cup {stmt[h]}
  /\ stmt' = [stmt EXCEPT ![h] = NoStatement]
  /\ UNCHANGED <<now, row, base, lastUpdated, lastCreated>>

OrphanBegin(s) ==
  /\ s.at = "sent"
  /\ orphans' = (orphans \ {s}) \cup {Begun(s)}
  /\ UNCHANGED <<now, row, stmt, base, lastUpdated, lastCreated>>

OrphanExecute(s) ==
  /\ s.at = "begun"
  /\ row' = Executed(s)
  /\ orphans' = orphans \ {s}
  /\ UNCHANGED <<now, stmt, base, lastUpdated, lastCreated>>

Next ==
  \/ Tick
  \/ \E h \in Handlers : \/ SendCreate(h) \/ SendUpdate(h) \/ Begin(h) \/ Execute(h)
                         \/ Reply(h) \/ GiveUp(h)
  \/ \E s \in orphans : OrphanBegin(s) \/ OrphanExecute(s)

Spec == Init /\ [][Next]_vars

-----------------------------------------------------------------------------
(* Properties. *)

TypeOK ==
  /\ now \in 0..MaxTime
  /\ row \in [Ids -> Row \cup {NoRow}]
  /\ stmt \in [Handlers -> Statement \cup {NoStatement}]
  /\ orphans \subseteq Statement
  /\ base \in [Handlers -> Int]
  /\ lastUpdated \in [Ids -> Int] /\ lastCreated \in Int

Answered(h, op) == stmt[h] # NoStatement /\ stmt[h].at = "done" /\ stmt[h].op = op

\* An UpdateTask sent after another's reply leaves an updated_at that is not
\* earlier, however far the services' clocks are off, and whatever else runs.
SerialUpdatesOrdered ==
  \A h \in Handlers : Answered(h, "update") => stmt[h].updated >= base[h]

\* A task created after another's CreateTask has replied is not listed below it
\* (ORDER BY created_at DESC; equal stamps come in any order), unless the clocks
\* of the two services differ.
SerialCreatesOrdered ==
  \A h \in Handlers : Answered(h, "insert") => stmt[h].created + 2 * MaxSkew >= base[h]
=============================================================================
