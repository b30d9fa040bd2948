----------------------------- MODULE MCSyncLease -----------------------------
(***************************************************************************)
(* Instances of SyncLease for TLC.  The time unit is 5 s: the lease lasts  *)
(* two units (10 s), is renewed every unit and is stale after four (20 s). *)
(* With one slot per process the slot is named like its process.           *)
(***************************************************************************)
EXTENDS SyncLease, FiniteSets, TLC

CONSTANTS a, b, c        \* processes, and their only slots
CONSTANTS a1, a2         \* two slots of process a

TwoInstances == {a, b}
ThreeInstances == {a, b, c}
OneSlotEach == [i \in TwoInstances |-> i]
OneSlotOfThree == [i \in ThreeInstances |-> i]
BothSlotsOfA == {a1, a2}
ThreeSlots == {a1, a2, b}
OnlyA == {a}
SlotsOfA == a1 :> a @@ a2 :> a
TwoSlotsOfA == a1 :> a @@ a2 :> a @@ b :> b

(* With OneSlotEach the processes are interchangeable. *)
ProcessSymmetry == Permutations(TwoInstances)
ThreeSymmetry == Permutations(ThreeInstances)

NoHazards == {}
CrashOnly == {"crash"}
ForceAndCrash == {"force", "crash"}
DelayOnly == {"delay"}
AllHazards == HazardKinds

=============================================================================
