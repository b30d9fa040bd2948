--------------------------- MODULE MCSyncScheduler ---------------------------
(***************************************************************************)
(* Instances of SyncScheduler for TLC.                                     *)
(***************************************************************************)
EXTENDS SyncScheduler, TLC

CONSTANTS s1, s2, x, q1, q2, w1, w2

OneSchedule == {s1}
TwoSchedules == {s1, s2}
OneExpr == {x}
TwoRequests == {q1, q2}
OneWorker == {w1}
TwoWorkers == {w1, w2}

NoHazards == {}
AllHazards == HazardKinds

Symmetry == Permutations(TwoSchedules) \cup Permutations(TwoRequests)
                \cup Permutations(TwoWorkers)

=============================================================================
