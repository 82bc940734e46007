---------------------------- MODULE MCTimestamps ----------------------------
(***************************************************************************)
(* Instances of Timestamps for TLC.                                        *)
(***************************************************************************)
EXTENDS Timestamps, TLC

CONSTANTS a, b,     \* task identifiers
          p1, p2    \* handlers

TwoIds == {a, b}
TwoHandlers == {p1, p2}

Symmetry == Permutations(Handlers) \cup Permutations(Ids)
=============================================================================
