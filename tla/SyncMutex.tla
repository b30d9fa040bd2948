------------------------------ MODULE SyncMutex ------------------------------
(***************************************************************************)
(* What TriggerSync promises about one data source: at most one process at *)
(* a time synchronises it, only that process replaces the stored metadata, *)
(* and it never replaces them by an older scan.  SyncLease, which does it  *)
(* with a map in each process and an expiring row, implements this         *)
(* specification when every process is prompt and serves one call at a     *)
(* time.                                                                   *)
(***************************************************************************)
EXTENDS Naturals

CONSTANTS Instance, NoInstance

VARIABLES
    holder,   \* the process whose sync is under way
    saved     \* when the stored metadata were read from the source

mutexVars == <<holder, saved>>

MutexInit == holder = NoInstance /\ saved = 0

Begin ==
    /\ holder = NoInstance
    /\ holder' \in Instance
    /\ UNCHANGED saved

Save ==
    /\ holder # NoInstance
    /\ saved' >= saved
    /\ UNCHANGED holder

(* The sync ends, or the process dies. *)
End ==
    /\ holder # NoInstance
    /\ holder' = NoInstance
    /\ UNCHANGED saved

MutexNext == Begin \/ Save \/ End

MutexSpec == MutexInit /\ [][MutexNext]_mutexVars

=============================================================================
