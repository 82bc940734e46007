------------------------- MODULE TasksOnKeyspaceProofs -------------------------
(***************************************************************************)
(* What is proved of the task service over a perfect Redis that late       *)
(* commands disturb holds over everything that keeps the promises of       *)
(* Keyspace, for every value of the constants.                             *)
(***************************************************************************)
EXTENDS StoreRefinementProofs, TasksOnKeyspace

\* Whatever was SET under a key, and may be back under it, was committed under
\* that key.
EverInv ==
  /\ ever = [key \in Keys |-> ever[key]]
  /\ \A key \in Keys : \A value \in ever[key] :
       value \in CacheValue(key) /\ Genuine(key, value)

OnKeyspaceInv == HistoryInv /\ EverInv

LEMMA InitOnKeyspaceInv == InitOnKeyspace => OnKeyspaceInv
BY InitHistory DEF InitOnKeyspace, OnKeyspaceInv, EverInv

\* What is committed under a key remains so.
LEMMA GenuineStays ==
  ASSUME past \subseteq past', NEW key \in Keys, NEW value, Genuine(key, value)
  PROVE  Genuine(key, value)'
BY DEF Genuine, Versions

\* What handlers send to Redis has been committed.
LEMMA SentGenuine ==
  ASSUME HistoryInv, NEW key \in Keys, NEW value \in Sent(key)
  PROVE  value \in CacheValue(key) /\ Genuine(key, value)
<1>1. TypeInv /\ TypeOK /\ \A p \in Handlers : HeldBy(p)
  BY DEF HistoryInv, TypeInv
<1>2. CASE key = ListKey
  <2>1. PICK p \in Handlers : pc[p] = "listFill" /\ value = tasks[p]
    BY <1>2 DEF Sent, AboutToSet, InHand
  <2>2. value \in past
    BY <1>1, <2>1 DEF HeldBy
  <2> QED BY <1>1, <1>2, <2>2 DEF CacheValue, Genuine, TypeOK
<1>3. CASE key # ListKey
  <2>1. PICK p \in Handlers :
          pc[p] \in {"cacheFill", "cacheSet"} /\ req[p].id = key /\ value = task[p]
    BY <1>3 DEF Sent, AboutToSet, InHand
  <2>2. value \in Row
    BY <1>1, <2>1 DEF TypeOK
  <2>3. value \in Versions(key)
    BY <1>1, <2>1 DEF HeldBy, Settled, TypeInv, TypeOK, ControlInv, InPlace, Ops
  <2> QED BY <1>3, <2>2, <2>3 DEF CacheValue, Genuine
<1> QED BY <1>2, <1>3

LEMMA ServeKeeps ==
  ASSUME OnKeyspaceInv, Serve
  PROVE  OnKeyspaceInv'
<1>1. HistoryInv /\ EverInv /\ [Next]_vars
  BY DEF OnKeyspaceInv, Serve
<1>2. HistoryInv' /\ past \subseteq past'
  BY <1>1, NextHistory, HistoryGrows DEF HistoryInv
<1>3. ever' = [key \in Keys |-> ever[key] \cup Sent(key)]
  BY DEF Serve
<1>4. ASSUME NEW key \in Keys, NEW value \in ever'[key]
      PROVE  value \in CacheValue(key) /\ Genuine(key, value)'
  <2>1. value \in CacheValue(key) /\ Genuine(key, value)
    BY <1>1, <1>3, <1>4, SentGenuine DEF EverInv
  <2> QED BY <1>2, <2>1, GenuineStays
<1>5. EverInv'
  BY <1>3, <1>4 DEF EverInv, CacheValue
<1> QED BY <1>2, <1>5 DEF OnKeyspaceInv

\* A value that comes back does no harm: it was committed under its key.
LEMMA BackKeeps ==
  ASSUME OnKeyspaceInv, NEW key \in Keys, Back(key)
  PROVE  OnKeyspaceInv'
<1>1. /\ TypeInv /\ TypeOK /\ CreateInv /\ CacheHoldsCommitted /\ EverInv
      /\ \A p \in Handlers : HeldBy(p)
  BY DEF OnKeyspaceInv, HistoryInv, TypeInv
<1>2. PICK value \in ever[key] \cup {Miss} : redis' = [redis EXCEPT ![key] = value]
  BY DEF Back
<1>3. /\ UNCHANGED <<tableVars, localVars>> /\ late' = late /\ ever' = ever
  BY DEF Back
<1>4. value \in CacheValue(key) /\ Genuine(key, value)
  BY <1>1, <1>2 DEF EverInv, CacheValue, Genuine
<1>5. TypeInv'
  <2>1. LocalsTyped /\ TableTyped /\ CacheTyped
    BY <1>1, TypeParts
  <2>2. LocalsTyped'
    BY <1>3, <2>1 DEF LocalsTyped, ControlInv, localVars
  <2>3. CacheTyped'
    BY <1>2, <1>3, <1>4, <2>1 DEF CacheTyped
  <2> QED BY <1>3, <2>1, <2>2, <2>3, TableUnchangedTyped, TypePartsNext
<1>6. \A p \in Handlers : HeldBy(p)'
  BY <1>1, <1>3 DEF HeldBy, Settled, Versions, localVars, tableVars
<1>7. CreateInv'
  BY <1>1, <1>3 DEF CreateInv, Versions, localVars, tableVars
<1>8. past' = past
  BY <1>3 DEF tableVars
<1>9. CacheHoldsCommitted'
  <2>1. \A k \in Keys : Genuine(k, redis'[k])
    BY <1>1, <1>2, <1>4 DEF CacheHoldsCommitted, TypeOK
  <2>2. \A m \in late : m[1] \in Keys /\ Genuine(m[1], m[2])
    BY <1>1 DEF CacheHoldsCommitted, TypeOK
  <2> QED BY <1>3, <1>8, <2>1, <2>2, GenuineStays DEF CacheHoldsCommitted
<1>10. EverInv'
  BY <1>1, <1>3, <1>8, GenuineStays DEF EverInv, CacheValue
<1> QED BY <1>5, <1>6, <1>7, <1>9, <1>10 DEF OnKeyspaceInv, HistoryInv

LEMMA NextOnKeyspaceInv ==
  OnKeyspaceInv /\ [NextOnKeyspace]_allVars => OnKeyspaceInv'
<1> SUFFICES ASSUME OnKeyspaceInv, [NextOnKeyspace]_allVars PROVE OnKeyspaceInv'
  OBVIOUS
<1>1. CASE UNCHANGED allVars
  <2>1. HistoryInv'
    BY <1>1, NextHistory DEF allVars, OnKeyspaceInv
  <2>2. past' = past /\ ever' = ever
    BY <1>1 DEF allVars, vars, tableVars
  <2> QED BY <2>1, <2>2, GenuineStays DEF OnKeyspaceInv, EverInv, CacheValue
<1> QED BY <1>1, ServeKeeps, BackKeeps DEF NextOnKeyspace

LEMMA OnKeyspaceCorrect == SpecOnKeyspace => []OnKeyspaceInv
BY InitOnKeyspaceInv, NextOnKeyspaceInv, PTL DEF SpecOnKeyspace

-----------------------------------------------------------------------------
(* The safety properties of CachedTasks, over any keyspace. *)

\* A value that is back, however old, is of the kind its readers expect: no
\* handler is given a nil task.
THEOREM TypeOnKeyspace == SpecOnKeyspace => []TypeOK
<1>1. OnKeyspaceInv => TypeOK
  BY DEF OnKeyspaceInv, HistoryInv, TypeInv
<1> QED BY <1>1, OnKeyspaceCorrect, PTL

\* It was committed to Postgres under its key, as everything else in Redis.
THEOREM CacheOnKeyspace == SpecOnKeyspace => []CacheHoldsCommitted
<1>1. OnKeyspaceInv => CacheHoldsCommitted
  BY DEF OnKeyspaceInv, HistoryInv
<1> QED BY <1>1, OnKeyspaceCorrect, PTL

\* A reply made from it is true.
THEOREM RepliesOnKeyspace == SpecOnKeyspace => []RepliesTrue
<1>1. OnKeyspaceInv => RepliesTrue
  BY DEF OnKeyspaceInv, HistoryInv, HeldBy, Settled, RepliesTrue
<1> QED BY <1>1, OnKeyspaceCorrect, PTL

\* A deleted task whose row is back in Redis, and that a client updates, stays
\* deleted.
THEOREM DeletedOnKeyspace == SpecOnKeyspace => DeletedStayDeleted
<1>1. ASSUME OnKeyspaceInv, [NextOnKeyspace]_allVars
      PROVE  [\A id \in Ids : db[id] = NoTask /\ Versions(id) # {} => db'[id] = NoTask]_vars
  <2>1. CASE [Next]_vars
    BY <1>1, <2>1, HistoryGrows DEF OnKeyspaceInv, HistoryInv
  <2>2. CASE \E key \in Keys : Back(key)
    BY <2>2 DEF Back, tableVars
  <2> QED BY <1>1, <2>1, <2>2 DEF NextOnKeyspace, Serve, allVars
<1> QED BY <1>1, OnKeyspaceCorrect, PTL DEF SpecOnKeyspace, DeletedStayDeleted

\* The whole service, the cache behind it included, implements the store: the
\* servers may restart and their list may change, and clients are told what
\* TaskStore lets them be told.
THEOREM StoreOnKeyspace == SpecOnKeyspace => ImplementsTaskStore
<1>1. ASSUME OnKeyspaceInv, OnKeyspaceInv', [NextOnKeyspace]_allVars
      PROVE  [Store!Next]_(Store!vars)
  <2>1. CASE [Next]_vars
    BY <1>1, <2>1, NextStore DEF OnKeyspaceInv, Store!vars, Answers
  <2>2. CASE \E key \in Keys : Back(key)
    BY <2>2 DEF Back, tableVars, localVars, Store!vars, Answer
  <2> QED BY <1>1, <2>1, <2>2 DEF NextOnKeyspace, Serve, allVars
<1>2. InitOnKeyspace => Store!Init
  BY InitStore DEF InitOnKeyspace
<1> QED BY <1>1, <1>2, OnKeyspaceCorrect, PTL
       DEF SpecOnKeyspace, ImplementsTaskStore, Store!Spec

\* Over any keyspace too, an update only loses a field through a copy that is
\* older than the row; the cache has more ways to such copies, no other harm.
THEOREM LostUpdatesOnKeyspace == SpecOnKeyspace => OnlyOldCopiesLoseFields
<1>1. InitOnKeyspace => CopyInv
  BY InitCopies DEF InitOnKeyspace
<1>2. ASSUME OnKeyspaceInv, CopyInv, [NextOnKeyspace]_allVars
      PROVE  /\ CopyInv'
             /\ [\A p \in Handlers :
                   LET id == req[p].id IN
                   /\ pc[p] = "dbUpdate" /\ pc'[p] # pc[p]
                   /\ db[id] # NoTask /\ db'[id] # db[id]
                   /\ task[p].ver = db[id].ver
                   => /\ req[p].patch.title = Absent => db'[id].title = db[id].title
                      /\ req[p].patch.completed = Absent =>
                           db'[id].completed = db[id].completed]_vars
  <2>1. CASE [Next]_vars
    BY <1>2, <2>1, NextCopies, UpdateFromCurrentCopy DEF OnKeyspaceInv
  <2>2. CASE \E key \in Keys : Back(key)
    BY <1>2, <2>2 DEF Back, CopyInv, NumberInv, Merged, Versions, tableVars, localVars
  <2> QED BY <1>2, <2>1, <2>2 DEF NextOnKeyspace, Serve, allVars
<1> QED BY <1>1, <1>2, OnKeyspaceCorrect, PTL DEF SpecOnKeyspace, OnlyOldCopiesLoseFields
=============================================================================
