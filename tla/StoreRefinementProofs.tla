------------------------ MODULE StoreRefinementProofs ------------------------
(***************************************************************************)
(* CachedTasks implements TaskStore, for every value of the constants: the *)
(* table and its history are the store's, and a handler that is done       *)
(* without an error is a client that has been told what it replies.        *)
(***************************************************************************)
EXTENDS CachedTasksProofs

\* The refinement mapping of answer.
Answers == [p \in Handlers |-> Answer(p)]

LEMMA InitStore == Init => Store!Init
BY DEF Init, Store!Init, Answer

\* While no handler gets to reply, clients are told nothing new.
LEMMA AnswersStay ==
  ASSUME \A q \in Handlers :
           \/ code[q] # "OK" /\ code'[q] # "OK"
           \/ /\ code'[q] = code[q] /\ req'[q] = req[q]
              /\ task'[q] = task[q] /\ tasks'[q] = tasks[q]
  PROVE  Answers' = Answers
BY DEF Answers, Answer

\* A statement that commits is an Insert, a Replace or a Remove of the store.
LEMMA CommitInStore ==
  ASSUME HistoryInv, NEW p \in Handlers, NEW row \in Row \cup {NoTask},
         req[p].id \in Ids, Commit(req[p].id, row), Answers' = Answers,
         \/ pc[p] = "dbInsert" /\ row \in Row
         \/ db[req[p].id] # NoTask
  PROVE  Store!Next
<1> DEFINE id == req[p].id
<1>1. /\ db' = [db EXCEPT ![id] = db'[id]] /\ db'[id] = row
      /\ past' = past \cup {db'}
  BY DEF Commit, HistoryInv, TypeInv, TypeOK, Table
<1>2. CASE pc[p] = "dbInsert" /\ row \in Row
  <2>1. Versions(id) = {}
    BY <1>2 DEF HistoryInv, CreateInv
  <2>2. ~Store!Used(id)
    BY <2>1 DEF Store!Used, Versions
  <2> QED BY <1>1, <1>2, <2>2 DEF Store!Next, Store!Insert, Store!Changes, Answers
<1>3. CASE db[id] # NoTask
  <2>1. CASE row \in Row
    BY <1>1, <1>3, <2>1 DEF Store!Next, Store!Replace, Store!Changes, Answers
  <2>2. CASE row = NoTask
    BY <1>1, <1>3, <2>2 DEF Store!Next, Store!Remove, Store!Changes, Answers
  <2> QED BY <2>1, <2>2
<1> QED BY <1>2, <1>3

\* A successful reply is an answer the store may give.
LEMMA ReplyInStore ==
  ASSUME HistoryInv, HistoryInv', NEW p \in Handlers, UNCHANGED tableVars, req' = req,
         code[p] # "OK", code'[p] = "OK",
         \A q \in Handlers \ {p} :
           code'[q] = code[q] /\ task'[q] = task[q] /\ tasks'[q] = tasks[q]
  PROVE  Store!Next
<1> DEFINE id == req[p].id
<1>1. /\ Answers = [q \in Handlers |-> Answer(q)]
      /\ Answers' = [Answers EXCEPT ![p] = Answer(p)']
      /\ Answers[p] = <<Nothing, Nothing>>
      /\ UNCHANGED <<db, past>>
  BY DEF Answers, Answer, tableVars
<1>2. HeldBy(p)' /\ req[p].op \in {"Create", "Get", "Update", "Delete", "List"}
  BY DEF HistoryInv, TypeInv, TypeOK, ControlInv, Ops
<1>3. /\ req[p].op # "List" => id \in Ids
      /\ req[p].op = "List" => id = ListKey
  BY <1>2 DEF HistoryInv, TypeInv, ControlInv
<1>4. CASE req[p].op \in {"Create", "Get", "Update"}
  <2>1. task'[p] \in Versions(id)
    BY <1>1, <1>2, <1>4 DEF HeldBy, Settled, Versions
  <2>2. PICK t \in past : t[id] # NoTask /\ t[id] = task'[p]
    BY <2>1 DEF Versions
  <2>3. Answer(p)' = <<id, task'[p]>>
    BY <1>4 DEF Answer
  <2>4. Answers' = [Answers EXCEPT ![p] = <<id, t[id]>>]
    BY <1>1, <2>2, <2>3
  <2>5. Store!TellTask(p, id)
    BY <2>2, <2>4 DEF Store!TellTask, Answers
  <2> QED BY <1>1, <1>3, <1>4, <2>5 DEF Store!Next, Store!Tell, Answers
<1>5. CASE req[p].op = "Delete"
  <2>1. db[id] = NoTask /\ Versions(id) # {} /\ task'[p] = NoTask
    BY <1>1, <1>2, <1>5 DEF HeldBy, Settled, Versions
  <2>2. Answers' = [Answers EXCEPT ![p] = <<id, NoTask>>]
    <3>1. Answer(p)' = <<id, NoTask>>
      BY <1>5, <2>1 DEF Answer
    <3> QED BY <1>1, <3>1
  <2>3. Store!TellDeleted(p, id)
    <3>1. Store!Used(id)
      BY <2>1 DEF Store!Used, Versions
    <3> QED BY <2>1, <2>2, <3>1 DEF Store!TellDeleted, Answers
  <2> QED BY <1>1, <1>3, <1>5, <2>3 DEF Store!Next, Store!Tell, Answers
<1>6. CASE req[p].op = "List"
  <2>1. tasks'[p] \in past
    BY <1>1, <1>2, <1>6 DEF HeldBy
  <2>2. Answer(p)' = <<ListKey, tasks'[p]>>
    BY <1>3, <1>6 DEF Answer
  <2>3. Store!TellList(p)
    BY <1>1, <2>1, <2>2 DEF Store!TellList, Answers
  <2> QED BY <1>1, <2>3 DEF Store!Next, Store!Tell, Answers
<1> QED BY <1>2, <1>4, <1>5, <1>6

\* The handlers' own steps.
LEMMA StepInStore ==
  ASSUME HistoryInv, HistoryInv', [Next]_vars, NEW p \in Handlers, Step(p)
  PROVE  Store!Next \/ (Answers' = Answers /\ UNCHANGED <<db, past>>)
<1>1. TypeInv /\ TypeOK /\ \A q \in Handlers : code[q] # "none" <=> pc[q] = "done"
  BY DEF HistoryInv, TypeInv, ControlInv
<1>2. \A q \in Handlers \ {p} :
        code'[q] = code[q] /\ req'[q] = req[q] /\ task'[q] = task[q] /\ tasks'[q] = tasks[q]
  BY <1>1, OthersStay
<1>3. CASE Return(p)
  <2>1. code'[p] = "none" /\ UNCHANGED <<db, past>>
    BY <1>1, <1>3 DEF Return, TypeOK, tableVars
  <2>2. Answers' = [q \in Handlers |-> IF q \in {p} THEN <<Nothing, Nothing>> ELSE Answers[q]]
    BY <1>2, <2>1 DEF Answers, Answer
  <2> QED BY <2>1, <2>2 DEF Store!Next, Store!Forget, Answers
<1>4. CASE ~Return(p)
  <2>1. code[p] # "OK" /\ req' = req
    BY <1>1, <1>4 DEF Step, CacheGet, DbGet, CacheFill, DbInsert, DbUpdate, DbDelete,
       CacheSet, CacheDel, ListDel, ListGet, DbList, ListFill
  <2>2. CASE code'[p] = "OK"
    <3>1. UNCHANGED tableVars
      <4>1. ~(DbInsert(p) \/ DbUpdate(p) \/ DbDelete(p))
        <5>1. ASSUME NEW e, ReplyError(p, WrapRepositoryError(e)) PROVE FALSE
          BY <1>1, <2>2, <5>1, ErrorIsNotOK DEF ReplyError, TypeOK
        <5>2. ASSUME NEW op, DbFails(p, op) PROVE FALSE
          BY <5>1, <5>2 DEF DbFails, StatusOf
        <5>3. ASSUME NEW next, NEW row, GoOn(p, next, row) PROVE FALSE
          BY <2>1, <2>2, <5>3 DEF GoOn
        <5> QED BY <5>1, <5>2, <5>3 DEF DbInsert, DbUpdate, DbDelete, StatusOf
      <4> QED BY <1>4, <4>1 DEF Step, CacheGet, DbGet, CacheFill, CacheSet, CacheDel,
                 ListDel, ListGet, DbList, ListFill
    <3> QED BY <1>2, <2>1, <2>2, <3>1, ReplyInStore
  <2>3. CASE code'[p] # "OK"
    <3>1. Answers' = Answers
      BY <1>2, <2>1, <2>3, AnswersStay
    <3>2. CASE UNCHANGED <<db, past>>
      BY <3>1, <3>2
    <3>3. CASE ~UNCHANGED <<db, past>>
      <4>1. DbInsert(p) \/ DbUpdate(p) \/ DbDelete(p)
        BY <1>4, <3>3 DEF Step, CacheGet, DbGet, CacheFill, CacheSet, CacheDel, ListDel,
           ListGet, DbList, ListFill, tableVars
      <4>2. req[p].id \in Ids
        BY <1>1, <4>1, AboutOneTask DEF DbInsert, DbUpdate, DbDelete
      <4>3. pc[p] \in {"dbInsert", "dbUpdate"} => Written(p) \in Row
        BY <1>1, WrittenIsRow DEF TypeOK
      <4>4. PICK row \in Row \cup {NoTask} :
              /\ Commit(req[p].id, row)
              /\ (pc[p] = "dbInsert" /\ row \in Row) \/ db[req[p].id] # NoTask
        BY <3>3, <4>1, <4>3 DEF DbInsert, DbUpdate, DbDelete, NoCommit, tableVars
      <4> QED BY <3>1, <4>2, <4>4, CommitInStore
    <3> QED BY <3>2, <3>3
  <2> QED BY <2>2, <2>3
<1> QED BY <1>3, <1>4

\* Every step is one of the store's or leaves it alone.
LEMMA NextStore ==
  HistoryInv /\ HistoryInv' /\ [Next]_vars =>
    Store!Next \/ (Answers' = Answers /\ UNCHANGED <<db, past>>)
<1> SUFFICES ASSUME HistoryInv, HistoryInv', [Next]_vars
             PROVE  Store!Next \/ (Answers' = Answers /\ UNCHANGED <<db, past>>)
  OBVIOUS
<1>1. TypeInv /\ TypeOK /\ \A q \in Handlers : code[q] # "none" <=> pc[q] = "done"
  BY DEF HistoryInv, TypeInv, ControlInv
<1>2. ASSUME NEW p \in Handlers, Arrive(p)
      PROVE  Answers' = Answers /\ UNCHANGED <<db, past>>
  <2>1. UNCHANGED <<db, past>> /\ code[p] # "OK" /\ code'[p] # "OK"
    BY <1>1, <1>2 DEF Arrive, CreateTask, GetTask, UpdateTask, DeleteTask, ListTasks, Reject,
       Start, GoOn, ReplyError, tableVars, TypeOK
  <2> QED BY <1>1, <1>2, <2>1, OthersStay, AnswersStay
<1>3. CASE Crash
  <2>1. PICK P \in SUBSET Handlers :
          /\ req' = [q \in Handlers |-> IF q \in P THEN NoRequest ELSE req[q]]
          /\ task' = [q \in Handlers |-> IF q \in P THEN NoTask ELSE task[q]]
          /\ tasks' = [q \in Handlers |-> IF q \in P THEN Miss ELSE tasks[q]]
          /\ code' = [q \in Handlers |-> IF q \in P THEN "none" ELSE code[q]]
    BY <1>3 DEF Crash
  <2>2. Answers' = [q \in Handlers |-> IF q \in P THEN <<Nothing, Nothing>>
                                       ELSE Answers[q]]
    BY <2>1 DEF Answers, Answer
  <2> QED BY <1>3, <2>2 DEF Crash, tableVars, Store!Next, Store!Forget, Answers
<1>4. CASE UNCHANGED vars \/ (\E key \in Keys : Expire(key)) \/ LateWrite
  BY <1>4 DEF Expire, LateWrite, vars, localVars, tableVars, Answers, Answer
<1> QED BY <1>2, <1>3, <1>4, StepInStore DEF Next

\* The service implements the store: whatever its cache, its failures and its
\* restarts do, what happens to the table and what clients are told is a
\* behaviour of TaskStore.
THEOREM ServiceImplementsStore == Spec => ImplementsTaskStore
<1>1. HistoryInv /\ HistoryInv' /\ [Next]_vars => [Store!Next]_(Store!vars)
  BY NextStore DEF Store!vars, Answers
<1> QED BY <1>1, InitStore, HistoryCorrect, PTL DEF Spec, ImplementsTaskStore, Store!Spec
=============================================================================
