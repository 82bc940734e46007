-------------------------- MODULE TimestampsProofs --------------------------
(***************************************************************************)
(* Theorems about Timestamps for any number of tasks and handlers, any     *)
(* skew of the clocks and any number of statements left behind.            *)
(***************************************************************************)
EXTENDS Timestamps, TLAPS

Running(h, op) == stmt[h] # NoStatement /\ stmt[h].op = op

\* Replies and statements that have begun carry a time the database's clock has
\* had, and the request they answer came after its base.
UpdateInv ==
  /\ \A i \in Ids : lastUpdated[i] <= now
  /\ \A h \in Handlers : Running(h, "update") =>
       /\ base[h] <= now
       /\ stmt[h].at # "sent" => base[h] <= stmt[h].updated /\ stmt[h].updated <= now

\* A service's clock is never further ahead of the database's than MaxSkew, and
\* never further behind when it is read.
CreateInv ==
  /\ lastCreated <= now + MaxSkew
  /\ \A h \in Handlers : Running(h, "insert") =>
       /\ stmt[h].created <= now + MaxSkew
       /\ base[h] <= stmt[h].created + 2 * MaxSkew

\* An UPDATE is only sent for a task that is there, and rows stay.
RowsThere ==
  /\ \A h \in Handlers : Running(h, "update") => row[stmt[h].task] # NoRow
  /\ \A s \in orphans : s.op = "update" => row[s.task] # NoRow

Inv == TypeOK /\ RowsThere /\ UpdateInv /\ CreateInv

LEMMA InitInv == Init => Inv
  BY TimestampsAssumption DEF Init, Inv, TypeOK, RowsThere, UpdateInv, CreateInv, Running

\* A statement stays one when it begins.
LEMMA BegunType ==
  ASSUME NEW s \in Statement, now \in Int
  PROVE  /\ Begun(s) \in Statement
         /\ Begun(s).op = s.op /\ Begun(s).at = "begun" /\ Begun(s).task = s.task
         /\ Begun(s).created = s.created
         /\ Begun(s).updated = IF s.op = "update" THEN now ELSE s.updated
  BY DEF Begun, Statement

\* What a statement writes is a row, and all rows stay.
LEMMA ExecutedType ==
  ASSUME TypeOK, NEW s \in Statement, s.op = "update" => row[s.task] # NoRow
  PROVE  /\ Executed(s) \in [Ids -> Row \cup {NoRow}]
         /\ \A i \in Ids : row[i] # NoRow => Executed(s)[i] # NoRow
<1>1. s.task \in Ids /\ s.created \in Int /\ s.updated \in Int
  BY DEF Statement
<1>2. CASE s.op = "update"
  <2>1. row[s.task] \in Row
    BY <1>1, <1>2 DEF TypeOK
  <2>2. [row[s.task] EXCEPT !.updated = s.updated] \in Row
    BY <1>1, <2>1 DEF Row
  <2> QED
    BY <1>1, <1>2, <2>2, TimestampsAssumption DEF Executed, TypeOK
<1>3. CASE s.op # "update"
  <2>1. [created |-> s.created, updated |-> s.updated] \in Row
    BY <1>1 DEF Row
  <2> QED
    BY <1>1, <1>3, <2>1, TimestampsAssumption DEF Executed, TypeOK
<1> QED
  BY <1>2, <1>3

LEMMA TypeStep == Inv /\ [Next]_vars => TypeOK'
<1> SUFFICES ASSUME Inv, [Next]_vars PROVE TypeOK'
  OBVIOUS
<1> USE TimestampsAssumption DEF Inv, TypeOK
<1>1. CASE Tick
  BY <1>1 DEF Tick
<1>2. ASSUME NEW h \in Handlers, SendCreate(h) PROVE TypeOK'
  <2>1. PICK i \in Ids, created \in ServiceClock, updated \in ServiceClock :
          stmt' = [stmt EXCEPT ![h] = [op |-> "insert", at |-> "sent", task |-> i,
                                       created |-> created, updated |-> updated]]
    BY <1>2 DEF SendCreate
  <2>2. created \in Int /\ updated \in Int
    BY DEF ServiceClock
  <2>3. stmt' \in [Handlers -> Statement \cup {NoStatement}]
    BY <2>1, <2>2 DEF Statement
  <2> QED
    BY <1>2, <2>3 DEF SendCreate
<1>3. ASSUME NEW h \in Handlers, SendUpdate(h) PROVE TypeOK'
  BY <1>3 DEF SendUpdate, Statement
<1>4. ASSUME NEW h \in Handlers, Begin(h) PROVE TypeOK'
  BY <1>4, BegunType DEF Begin
<1>5. ASSUME NEW h \in Handlers, Execute(h) PROVE TypeOK'
  <2>1. stmt[h] \in Statement /\ Running(h, stmt[h].op)
    BY <1>5 DEF Execute, Running
  <2>2. row' \in [Ids -> Row \cup {NoRow}]
    BY <1>5, <2>1, ExecutedType DEF Execute, RowsThere
  <2>3. [stmt[h] EXCEPT !.at = "done"] \in Statement
    BY <2>1 DEF Statement
  <2> QED
    BY <1>5, <2>2, <2>3 DEF Execute
<1>6. ASSUME NEW h \in Handlers, Reply(h) PROVE TypeOK'
  <2>1. stmt[h] \in Statement
    BY <1>6 DEF Reply
  <2>2. stmt[h].task \in Ids /\ stmt[h].created \in Int /\ stmt[h].updated \in Int
    BY <2>1 DEF Statement
  <2> QED
    BY <1>6, <2>2 DEF Reply, Later
<1>7. ASSUME NEW h \in Handlers, GiveUp(h) PROVE TypeOK'
  BY <1>7 DEF GiveUp
<1>8. ASSUME NEW s \in orphans, OrphanBegin(s) PROVE TypeOK'
  BY <1>8, BegunType DEF OrphanBegin
<1>9. ASSUME NEW s \in orphans, OrphanExecute(s) PROVE TypeOK'
  BY <1>9, ExecutedType DEF OrphanExecute, RowsThere
<1>10. CASE UNCHANGED vars
  BY <1>10 DEF vars
<1> QED
  BY <1>1, <1>2, <1>3, <1>4, <1>5, <1>6, <1>7, <1>8, <1>9, <1>10 DEF Next

LEMMA RowsStep == Inv /\ [Next]_vars => RowsThere'
<1> SUFFICES ASSUME Inv, [Next]_vars PROVE RowsThere'
  OBVIOUS
<1> USE DEF Inv, TypeOK, RowsThere, Running
<1>1. CASE Tick
  BY <1>1 DEF Tick
<1>2. ASSUME NEW h \in Handlers, SendCreate(h) PROVE RowsThere'
  BY <1>2 DEF SendCreate
<1>3. ASSUME NEW h \in Handlers, SendUpdate(h) PROVE RowsThere'
  BY <1>3 DEF SendUpdate
<1>4. ASSUME NEW h \in Handlers, Begin(h) PROVE RowsThere'
  <2>1. Begun(stmt[h]).op = stmt[h].op /\ Begun(stmt[h]).task = stmt[h].task
    BY <1>4, BegunType DEF Begin
  <2> QED
    BY <1>4, <2>1 DEF Begin
<1>5. ASSUME NEW h \in Handlers, Execute(h) PROVE RowsThere'
  <2>1. stmt[h] \in Statement
    BY <1>5 DEF Execute
  <2>2. \A i \in Ids : row[i] # NoRow => row'[i] # NoRow
    BY <1>5, <2>1, ExecutedType DEF Execute
  <2>3. stmt'[h].op = stmt[h].op /\ stmt'[h].task = stmt[h].task
    BY <1>5, <2>1 DEF Execute, Statement
  <2> QED
    BY <1>5, <2>1, <2>2, <2>3 DEF Execute, Statement
<1>6. ASSUME NEW h \in Handlers, Reply(h) PROVE RowsThere'
  BY <1>6 DEF Reply
<1>7. ASSUME NEW h \in Handlers, GiveUp(h) PROVE RowsThere'
  BY <1>7 DEF GiveUp
<1>8. ASSUME NEW s \in orphans, OrphanBegin(s) PROVE RowsThere'
  <2>1. Begun(s).op = s.op /\ Begun(s).task = s.task
    BY <1>8, BegunType DEF OrphanBegin
  <2> QED
    BY <1>8, <2>1 DEF OrphanBegin
<1>9. ASSUME NEW s \in orphans, OrphanExecute(s) PROVE RowsThere'
  <2>1. \A i \in Ids : row[i] # NoRow => row'[i] # NoRow
    BY <1>9, ExecutedType DEF OrphanExecute
  <2> QED
    BY <1>9, <2>1 DEF OrphanExecute, Statement
<1>10. CASE UNCHANGED vars
  BY <1>10 DEF vars
<1> QED
  BY <1>1, <1>2, <1>3, <1>4, <1>5, <1>6, <1>7, <1>8, <1>9, <1>10 DEF Next

LEMMA UpdateStep == Inv /\ [Next]_vars => UpdateInv'
<1> SUFFICES ASSUME Inv, [Next]_vars PROVE UpdateInv'
  OBVIOUS
<1> USE DEF Inv, TypeOK, UpdateInv, Running
<1>1. CASE Tick
  <2>1. \A h \in Handlers : stmt[h] # NoStatement => stmt[h].updated \in Int
    BY DEF Statement
  <2> QED
    BY <1>1, <2>1 DEF Tick
<1>2. ASSUME NEW h \in Handlers, SendCreate(h) PROVE UpdateInv'
  BY <1>2 DEF SendCreate
<1>3. ASSUME NEW h \in Handlers, SendUpdate(h) PROVE UpdateInv'
  BY <1>3 DEF SendUpdate
<1>4. ASSUME NEW h \in Handlers, Begin(h) PROVE UpdateInv'
  <2>1. /\ Begun(stmt[h]).op = stmt[h].op
        /\ Begun(stmt[h]).updated = IF stmt[h].op = "update" THEN now ELSE stmt[h].updated
    BY <1>4, BegunType DEF Begin
  <2> QED
    BY <1>4, <2>1 DEF Begin
<1>5. ASSUME NEW h \in Handlers, Execute(h) PROVE UpdateInv'
  <2>1. stmt[h] \in Statement /\ stmt[h].at = "begun" /\ stmt[h] # NoStatement
    BY <1>5 DEF Execute
  <2>2. stmt'[h].op = stmt[h].op /\ stmt'[h].updated = stmt[h].updated
    BY <1>5, <2>1 DEF Execute, Statement
  <2> QED
    BY <1>5, <2>1, <2>2 DEF Execute
<1>6. ASSUME NEW h \in Handlers, Reply(h) PROVE UpdateInv'
  <2>1. stmt[h].task \in Ids /\ stmt[h].updated \in Int
    BY <1>6 DEF Reply, Statement
  <2>2. stmt[h].op = "update" => stmt[h].updated <= now
    BY <1>6 DEF Reply
  <2>3. \A i \in Ids : lastUpdated'[i] <= now
    BY <1>6, <2>1, <2>2 DEF Reply, Later
  <2> QED
    BY <1>6, <2>3 DEF Reply
<1>7. ASSUME NEW h \in Handlers, GiveUp(h) PROVE UpdateInv'
  BY <1>7 DEF GiveUp
<1>8. ASSUME NEW s \in orphans, OrphanBegin(s) PROVE UpdateInv'
  BY <1>8 DEF OrphanBegin
<1>9. ASSUME NEW s \in orphans, OrphanExecute(s) PROVE UpdateInv'
  BY <1>9 DEF OrphanExecute
<1>10. CASE UNCHANGED vars
  BY <1>10 DEF vars
<1> QED
  BY <1>1, <1>2, <1>3, <1>4, <1>5, <1>6, <1>7, <1>8, <1>9, <1>10 DEF Next

LEMMA CreateStep == Inv /\ [Next]_vars => CreateInv'
<1> SUFFICES ASSUME Inv, [Next]_vars PROVE CreateInv'
  OBVIOUS
<1> USE TimestampsAssumption DEF Inv, TypeOK, CreateInv, Running
<1>1. CASE Tick
  <2>1. \A h \in Handlers : stmt[h] # NoStatement => stmt[h].created \in Int
    BY DEF Statement
  <2> QED
    BY <1>1, <2>1 DEF Tick
<1>2. ASSUME NEW h \in Handlers, SendCreate(h) PROVE CreateInv'
  <2>1. PICK i \in Ids, created \in ServiceClock, updated \in ServiceClock :
          stmt' = [stmt EXCEPT ![h] = [op |-> "insert", at |-> "sent", task |-> i,
                                       created |-> created, updated |-> updated]]
    BY <1>2 DEF SendCreate
  <2>2. created \in Int /\ created <= now + MaxSkew /\ now - MaxSkew <= created
    BY DEF ServiceClock
  <2>3. lastCreated <= created + 2 * MaxSkew
    BY <2>2
  <2>4. \A g \in Handlers : stmt'[g] = IF g = h THEN
            [op |-> "insert", at |-> "sent", task |-> i, created |-> created, updated |-> updated]
            ELSE stmt[g]
    BY <2>1
  <2>5. base' = [base EXCEPT ![h] = lastCreated] /\ UNCHANGED <<now, lastCreated>>
    BY <1>2 DEF SendCreate
  <2> QED
    BY <2>2, <2>3, <2>4, <2>5
<1>3. ASSUME NEW h \in Handlers, SendUpdate(h) PROVE CreateInv'
  BY <1>3 DEF SendUpdate
<1>4. ASSUME NEW h \in Handlers, Begin(h) PROVE CreateInv'
  <2>1. Begun(stmt[h]).op = stmt[h].op /\ Begun(stmt[h]).created = stmt[h].created
    BY <1>4, BegunType DEF Begin
  <2> QED
    BY <1>4, <2>1 DEF Begin
<1>5. ASSUME NEW h \in Handlers, Execute(h) PROVE CreateInv'
  <2>1. stmt[h] \in Statement /\ stmt[h] # NoStatement
    BY <1>5 DEF Execute
  <2>2. stmt'[h].op = stmt[h].op /\ stmt'[h].created = stmt[h].created
    BY <1>5, <2>1 DEF Execute, Statement
  <2> QED
    BY <1>5, <2>1, <2>2 DEF Execute
<1>6. ASSUME NEW h \in Handlers, Reply(h) PROVE CreateInv'
  <2>1. stmt[h] \in Statement /\ stmt[h] # NoStatement
    BY <1>6 DEF Reply
  <2>2. stmt[h].op = "update" \/ stmt[h].op = "insert"
    BY <2>1 DEF Statement
  <2>3. stmt[h].op = "insert" => stmt[h].created <= now + MaxSkew
    BY <2>1
  <2>4. lastCreated' <= now + MaxSkew
    BY <1>6, <2>2, <2>3 DEF Reply, Later
  <2> QED
    BY <1>6, <2>4 DEF Reply
<1>7. ASSUME NEW h \in Handlers, GiveUp(h) PROVE CreateInv'
  BY <1>7 DEF GiveUp
<1>8. ASSUME NEW s \in orphans, OrphanBegin(s) PROVE CreateInv'
  BY <1>8 DEF OrphanBegin
<1>9. ASSUME NEW s \in orphans, OrphanExecute(s) PROVE CreateInv'
  BY <1>9 DEF OrphanExecute
<1>10. CASE UNCHANGED vars
  BY <1>10 DEF vars
<1> QED
  BY <1>1, <1>2, <1>3, <1>4, <1>5, <1>6, <1>7, <1>8, <1>9, <1>10 DEF Next

LEMMA InvHolds == Spec => []Inv
<1>1. Inv /\ [Next]_vars => Inv'
  BY TypeStep, RowsStep, UpdateStep, CreateStep DEF Inv
<1> QED
  BY InitInv, <1>1, PTL DEF Spec

-----------------------------------------------------------------------------
(* The properties. *)

\* The variables stay in their types; in particular an UPDATE only finds rows
\* that are there, of which it keeps created_at (RowsThere).
THEOREM TimestampsTypeCorrect == Spec => []TypeOK
<1>1. Inv => TypeOK
  BY DEF Inv
<1> QED
  BY InvHolds, <1>1, PTL

\* An UpdateTask sent after another's reply returns no earlier updated_at,
\* because both stamps are readings of the database's clock: the reply's was
\* read before the request was sent, the request's own after that (UpdateInv).
THEOREM UpdatesCorrect == Spec => []SerialUpdatesOrdered
<1>1. Inv => SerialUpdatesOrdered
  BY DEF Inv, TypeOK, Statement, UpdateInv, Running, SerialUpdatesOrdered, Answered
<1> QED
  BY InvHolds, <1>1, PTL

\* A CreateTask sent after another's reply returns a created_at that is earlier
\* by no more than the clocks of the two services differ (CreateInv).
THEOREM CreatesCorrect == Spec => []SerialCreatesOrdered
<1>1. Inv => SerialCreatesOrdered
  BY TimestampsAssumption
  DEF Inv, TypeOK, Statement, CreateInv, Running, SerialCreatesOrdered, Answered
<1> QED
  BY InvHolds, <1>1, PTL
=============================================================================
