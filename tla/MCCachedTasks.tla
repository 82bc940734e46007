---------------------------- MODULE MCCachedTasks ----------------------------
(***************************************************************************)
(* Instances of CachedTasks for TLC.                                       *)
(***************************************************************************)
EXTENDS CachedTasks, TLC

CONSTANTS a, b,          \* task identifiers
          p1, p2, p3,    \* handlers
          empty, text    \* titles

OneId  == {a}
TwoIds == {a, b}
OneHandler    == {p1}
TwoHandlers   == {p1, p2}
ThreeHandlers == {p1, p2, p3}
TwoTitles == {empty, text}

\* Two requests that set different fields, so that one can undo the other.
FieldPatches == {[title |-> text, completed |-> Absent],
                 [title |-> Absent, completed |-> TRUE]}
\* One update is enough where only the order of versions matters.
OnePatch == {[title |-> text, completed |-> Absent]}
\* One that leaves the title to the copy.
CompletedPatch == {[title |-> Absent, completed |-> TRUE]}
\* Also one that empties the title.
AnyPatches == FieldPatches \cup {[title |-> empty, completed |-> Absent]}

AllFaults == {"db", "redis", "late", "crash"}
NoFaults  == {}
OnlyRedis == {"redis"}

Symmetry == Permutations(Handlers) \cup Permutations(Ids)
=============================================================================
