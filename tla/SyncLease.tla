------------------------------ MODULE SyncLease ------------------------------
(***************************************************************************)
(* Synchronisation of ONE data source by several server processes that     *)
(* share a database: SourceService.TriggerSync, the goroutine it starts,   *)
(* the goroutine that renews the lease, the administrator's forced         *)
(* release and the deletion of the source (internal/service/source.go),    *)
(* over the tables sync_leases and data_sources.                           *)
(*                                                                         *)
(* Two guards keep syncs of a source apart: the in-process map             *)
(* syncInFlight, and the row of sync_leases, which names an owner process  *)
(* and a time until which it holds.  Sources do not share either, so one   *)
(* source is enough.  A Slot is a place for one TriggerSync call: two      *)
(* slots of an Instance are two requests the process may serve at once.    *)
(* One step is one SQL statement, one critical section of syncMu, one      *)
(* reading of the clock or one channel operation.                          *)
(***************************************************************************)
EXTENDS Integers

CONSTANTS
    Instance,     \* server processes; a restarted process is another one,
                  \* because NewSourceService draws a fresh ownerID
    NoInstance,   \* the owner of a lease row that does not exist
    Slot,         \* concurrent TriggerSync calls
    InstanceOf,   \* the process that serves a slot
    TTL,          \* syncLeaseTTL
    StaleAfter,   \* syncLeaseStaleAfter
    MaxClock,     \* bound on the clock
    Hazards       \* what may go wrong in this run, a subset of HazardKinds

HazardKinds == {
    "delay",      \* a process may be paused between any two of its steps
    "dberror",    \* a statement may fail, or succeed and its answer be lost
    "crash",      \* a process may die
    "force",      \* the administrator calls force_release_source_sync_lease
    "delete" }    \* the data source may be deleted

ASSUME InstanceAssumption ==
    /\ NoInstance \notin Instance
    /\ InstanceOf \in [Slot -> Instance]

ASSUME TimeAssumption ==
    /\ TTL \in Nat /\ TTL >= 2
    /\ StaleAfter \in Nat /\ StaleAfter >= TTL
    /\ MaxClock \in Nat

ASSUME HazardsAssumption == Hazards \subseteq HazardKinds

VARIABLES
    now,       \* the clock the processes and the database share
    lease,     \* the row of sync_leases
    status,    \* data_sources.status, or "deleted" once the row is gone
    flight,    \* the processes whose syncInFlight holds the source
    pc,        \* how far each TriggerSync call or its goroutine has come
    asked,     \* the "now" a slot read before it executes TryAcquireSyncLease
    scanned,   \* when the scan a slot holds was taken
    saved,     \* when the scan in the database was taken
    ticker,    \* the renewal goroutine of each slot
    forcing,   \* ForceReleaseStaleSyncLease has read a stale row
    alive,     \* the processes that run
    diedAt,    \* history: when a process died
    cut        \* history: the process of the last sync that marked the
               \* source died before it could settle the status

vars == <<now, lease, status, flight, pc, asked, scanned, saved, ticker,
          forcing, alive, diedAt, cut>>

-----------------------------------------------------------------------------

NoLease == [owner |-> NoInstance, until |-> 0, updated |-> 0]
NoTicker == [st |-> "off", due |-> 0, until |-> 0, stop |-> FALSE]

(* Mutant of RenewEvery: the renewal comes when the lease runs out. *)
RenewEveryTTL == TTL

(* startSyncLeaseRenewal: interval := s.syncLeaseTTL / 2. *)
RenewEvery == TTL \div 2

(* The program counter of a call.  From "acquire" to "endLocal" it holds   *)
(* the entry of syncInFlight; from "prepare" to "endLease" it believes the *)
(* lease row is its own; in BusyPC it works on the source's metadata; in   *)
(* Unsettled it has marked the source "syncing" and has yet to undo that.  *)
Ending == {"failed", "lost", "lostStatus", "stop", "endLocal", "endLease"}
BusyPC == {"marked", "scan", "checkBefore", "save", "checkAfter", "finish"}
Unsettled == BusyPC \cup {"failed", "lost", "lostStatus"}
HoldingPC == {"prepare"} \cup BusyPC \cup Ending
PC == {"idle", "acquire", "refused"} \cup HoldingPC

Busy(s) == pc[s] \in BusyPC
Holding(s) == pc[s] \in HoldingPC
HoldsFlag(s) == pc[s] \notin {"idle", "endLease"}

LeaseRow == [owner : Instance \cup {NoInstance}, until : Nat, updated : Nat]
Ticker == [st : {"off", "wait", "write"}, due : Nat, until : Nat,
           stop : BOOLEAN]
Statuses == {"active", "syncing", "error", "deleted"}

TypeOK ==
    /\ now \in Nat
    /\ lease \in LeaseRow
    /\ status \in Statuses
    /\ flight \subseteq Instance
    /\ pc \in [Slot -> PC]
    /\ asked \in [Slot -> Nat]
    /\ scanned \in [Slot -> Nat]
    /\ saved \in Nat
    /\ ticker \in [Slot -> Ticker]
    /\ forcing \in BOOLEAN
    /\ alive \subseteq Instance
    /\ diedAt \in [Instance -> Nat]
    /\ cut \in BOOLEAN

-----------------------------------------------------------------------------

(* syncLeaseOwned: the row is there, names this process and has time left. *)
Owned(i) == lease.owner = i /\ lease.until > now

(* handleLostSyncLease: another process holds the source. *)
HeldByOther(i) ==
    lease.owner \notin {i, NoInstance} /\ lease.until > now

Goto(s, from, to) == pc[s] = from /\ pc' = [pc EXCEPT ![s] = to]

Runs(s) == InstanceOf[s] \in alive

-----------------------------------------------------------------------------
(* TriggerSync, in the caller's goroutine. *)

(* Mutant of BeginSync: the entry in syncInFlight is not looked up. *)
BeginSyncUnguarded(s) ==
    /\ Runs(s)
    /\ status # "deleted"
    /\ ticker[s].st = "off"
    /\ Goto(s, "idle", "acquire")
    /\ flight' = flight \cup {InstanceOf[s]}
    /\ asked' = [asked EXCEPT ![s] = now]
    /\ UNCHANGED <<now, lease, status, scanned, saved, ticker, forcing,
                   alive, diedAt, cut>>

(* beginSync up to the statement: claim the source in syncInFlight and     *)
(* read the clock.  A call that finds the entry there returns at once; a   *)
(* deleted source is refused by GetDataSource before.                      *)
BeginSync(s) ==
    /\ Runs(s)
    /\ status # "deleted"
    /\ ticker[s].st = "off"
    /\ InstanceOf[s] \notin flight
    /\ Goto(s, "idle", "acquire")
    /\ flight' = flight \cup {InstanceOf[s]}
    /\ asked' = [asked EXCEPT ![s] = now]
    /\ UNCHANGED <<now, lease, status, scanned, saved, ticker, forcing,
                   alive, diedAt, cut>>

(* Mutant of LeaseFree: the row is compared with the new lease_until. *)
LeaseFreeSwapped(s) ==
    \/ lease.owner \in {NoInstance, InstanceOf[s]}
    \/ lease.until <= asked[s] + TTL

(* The WHERE clause of the upsert: insert, the same owner, or an expired   *)
(* row as seen from the time the caller read.                              *)
LeaseFree(s) ==
    \/ lease.owner \in {NoInstance, InstanceOf[s]}
    \/ lease.until <= asked[s]

TakeLease(s) ==
    lease' = [owner |-> InstanceOf[s], until |-> asked[s] + TTL,
              updated |-> now]

TryAcquireSyncLease(s) ==
    /\ \/ /\ status # "deleted"
          /\ LeaseFree(s)
          /\ TakeLease(s)
          /\ Goto(s, "acquire", "prepare")
       \/ /\ status = "deleted" \/ ~LeaseFree(s)
          /\ Goto(s, "acquire", "refused")
          /\ UNCHANGED lease
    /\ asked' = [asked EXCEPT ![s] = 0]
    /\ UNCHANGED <<now, status, flight, scanned, saved, ticker, forcing,
                   alive, diedAt, cut>>

(* The statement reports an error, applied or not. *)
AcquireFails(s) ==
    /\ "dberror" \in Hazards
    /\ Goto(s, "acquire", "refused")
    /\ \/ UNCHANGED lease
       \/ status # "deleted" /\ LeaseFree(s) /\ TakeLease(s)
    /\ asked' = [asked EXCEPT ![s] = 0]
    /\ UNCHANGED <<now, status, flight, scanned, saved, ticker, forcing,
                   alive, diedAt, cut>>

(* Mutant of Refused: beginSync returns without releaseLocalSync. *)
RefusedKeepsFlag(s) ==
    /\ Goto(s, "refused", "idle")
    /\ UNCHANGED <<now, lease, status, flight, asked, scanned, saved, ticker,
                   forcing, alive, diedAt, cut>>

(* releaseLocalSync after a refusal or an error of the statement. *)
Refused(s) ==
    /\ Goto(s, "refused", "idle")
    /\ flight' = flight \ {InstanceOf[s]}
    /\ UNCHANGED <<now, lease, status, asked, scanned, saved, ticker,
                   forcing, alive, diedAt, cut>>

(* Mutants of PrepareFails: an early return that forgets endSync, and the  *)
(* status written before the configuration is looked at.                   *)
PrepareFailsWithoutEnd(s) ==
    /\ Goto(s, "prepare", "idle")
    /\ UNCHANGED <<now, lease, status, flight, asked, scanned, saved, ticker,
                   forcing, alive, diedAt, cut>>

PrepareFailsMarked(s) ==
    /\ status # "deleted"
    /\ Goto(s, "prepare", "endLocal")
    /\ status' = "syncing"
    /\ UNCHANGED <<now, lease, flight, asked, scanned, saved, ticker,
                   forcing, alive, diedAt, cut>>

(* Decrypt, ConnectionConfigFromJSON, the scanner registry or the status   *)
(* update fails, or only the update's answer is lost: TriggerSync calls    *)
(* endSync and writes no other status.                                     *)
PrepareFails(s) ==
    /\ Goto(s, "prepare", "endLocal")
    /\ \/ UNCHANGED status
       \/ "dberror" \in Hazards /\ status # "deleted" /\ status' = "syncing"
    /\ UNCHANGED <<now, lease, flight, asked, scanned, saved, ticker, forcing,
                   alive, diedAt, cut>>

MarkSyncing(s) ==
    /\ status # "deleted"
    /\ Goto(s, "prepare", "marked")
    /\ status' = "syncing"
    /\ cut' = FALSE
    /\ UNCHANGED <<now, lease, flight, asked, scanned, saved, ticker,
                   forcing, alive, diedAt>>

-----------------------------------------------------------------------------
(* The goroutine TriggerSync starts. *)

(* Mutant of StartWorker: the renewal goroutine is not started. *)
StartWorkerUnrenewed(s) ==
    /\ Goto(s, "marked", "scan")
    /\ UNCHANGED <<now, lease, status, flight, asked, scanned, saved, ticker,
                   forcing, alive, diedAt, cut>>

StartWorker(s) ==
    /\ Goto(s, "marked", "scan")
    /\ ticker' = [ticker EXCEPT ![s] =
           [st |-> "wait", due |-> now + RenewEvery, until |-> 0,
            stop |-> FALSE]]
    /\ UNCHANGED <<now, lease, status, flight, asked, scanned, saved,
                   forcing, alive, diedAt, cut>>

ScanSchema(s) ==
    /\ \/ /\ Goto(s, "scan", "checkBefore")
          /\ scanned' = [scanned EXCEPT ![s] = now]
       \/ /\ Goto(s, "scan", "failed")
          /\ UNCHANGED scanned
    /\ UNCHANGED <<now, lease, status, flight, asked, saved, ticker, forcing,
                   alive, diedAt, cut>>

(* syncLeaseOwned is asked before and after the save; the answer is not    *)
(* carried into the transaction of the save.                               *)
CheckLease(s, from, to) ==
    /\ \/ Owned(InstanceOf[s]) /\ Goto(s, from, to)
       \/ ~Owned(InstanceOf[s]) /\ Goto(s, from, "lost")
       \/ "dberror" \in Hazards /\ Goto(s, from, "failed")
    /\ UNCHANGED <<now, lease, status, flight, asked, scanned, saved, ticker,
                   forcing, alive, diedAt, cut>>

(* saveSchema commits, or its transaction fails (rolled back). *)
SaveSchema(s) ==
    /\ \/ /\ status # "deleted"
          /\ Goto(s, "save", "checkAfter")
          /\ saved' = scanned[s]
       \/ /\ Goto(s, "save", "failed")
          /\ UNCHANGED saved
    /\ UNCHANGED <<now, lease, status, flight, asked, scanned, ticker,
                   forcing, alive, diedAt, cut>>

(* updateSyncStatus ignores the error of its statement. *)
WriteStatus(st) ==
    \/ status' = IF status = "deleted" THEN "deleted" ELSE st
    \/ "dberror" \in Hazards /\ UNCHANGED status

MarkActive(s) ==
    /\ Goto(s, "finish", "stop")
    /\ WriteStatus("active")
    /\ UNCHANGED <<now, lease, flight, asked, scanned, saved, ticker,
                   forcing, alive, diedAt, cut>>

(* Mutant of MarkError: a status the CHECK constraint does not know. *)
MarkErrorFailed(s) ==
    /\ Goto(s, "failed", "stop")
    /\ WriteStatus("failed")
    /\ UNCHANGED <<now, lease, flight, asked, scanned, saved, ticker,
                   forcing, alive, diedAt, cut>>

MarkError(s) ==
    /\ Goto(s, "failed", "stop")
    /\ WriteStatus("error")
    /\ UNCHANGED <<now, lease, flight, asked, scanned, saved, ticker,
                   forcing, alive, diedAt, cut>>

(* handleLostSyncLease, its first read: another holder keeps the status;   *)
(* a failed read too.                                                      *)
LostLease(s) ==
    /\ \/ HeldByOther(InstanceOf[s]) /\ Goto(s, "lost", "stop")
       \/ ~HeldByOther(InstanceOf[s]) /\ Goto(s, "lost", "lostStatus")
       \/ "dberror" \in Hazards /\ Goto(s, "lost", "stop")
    /\ UNCHANGED <<now, lease, status, flight, asked, scanned, saved, ticker,
                   forcing, alive, diedAt, cut>>

(* Its second read: only a source still "syncing" is marked as failed. *)
LostStatus(s) ==
    /\ \/ status = "syncing" /\ Goto(s, "lostStatus", "failed")
       \/ status # "syncing" /\ Goto(s, "lostStatus", "stop")
       \/ "dberror" \in Hazards /\ Goto(s, "lostStatus", "stop")
    /\ UNCHANGED <<now, lease, status, flight, asked, scanned, saved, ticker,
                   forcing, alive, diedAt, cut>>

(* The deferred stopLeaseRenewal runs first, the deferred endSync last. *)
StopRenewal(s) ==
    /\ Goto(s, "stop", "endLocal")
    /\ ticker' = [ticker EXCEPT ![s].stop = TRUE]
    /\ scanned' = [scanned EXCEPT ![s] = 0]
    /\ UNCHANGED <<now, lease, status, flight, asked, saved, forcing, alive,
                   diedAt, cut>>

(* endSync, first half: releaseLocalSync. *)
EndLocal(s) ==
    /\ Goto(s, "endLocal", "endLease")
    /\ flight' = flight \ {InstanceOf[s]}
    /\ UNCHANGED <<now, lease, status, asked, scanned, saved, ticker,
                   forcing, alive, diedAt, cut>>

(* Mutant of EndLease: only an expired row is deleted. *)
EndLeaseExpired(s) ==
    /\ Goto(s, "endLease", "idle")
    /\ lease' = IF lease.owner = InstanceOf[s] /\ lease.until <= now
                THEN NoLease ELSE lease
    /\ UNCHANGED <<now, status, flight, asked, scanned, saved, ticker,
                   forcing, alive, diedAt, cut>>

(* endSync, second half: DELETE ... WHERE source_id AND owner_id. *)
EndLease(s) ==
    /\ Goto(s, "endLease", "idle")
    /\ \/ lease' = IF lease.owner = InstanceOf[s] THEN NoLease ELSE lease
       \/ "dberror" \in Hazards /\ UNCHANGED lease
    /\ UNCHANGED <<now, status, flight, asked, scanned, saved, ticker,
                   forcing, alive, diedAt, cut>>

-----------------------------------------------------------------------------
(* The renewal goroutine of a slot.  Ticks it was too late for are         *)
(* dropped; with the tick and the stop both ready, select takes either.    *)

TickerFires(s) ==
    /\ ticker[s].st = "wait"
    /\ now >= ticker[s].due
    /\ ticker' = [ticker EXCEPT ![s] =
           [@ EXCEPT !.st = "write", !.due = now + RenewEvery,
                     !.until = now + TTL]]
    /\ UNCHANGED <<now, lease, status, flight, pc, asked, scanned, saved,
                   forcing, alive, diedAt, cut>>

(* Mutant of RenewSyncLease: the owner is not in the WHERE clause. *)
RenewAnyLease(s) ==
    /\ ticker[s].st = "write"
    /\ lease' = IF lease.owner # NoInstance
                THEN [lease EXCEPT !.until = ticker[s].until,
                                   !.updated = now]
                ELSE lease
    /\ ticker' = [ticker EXCEPT ![s].st = "wait", ![s].until = 0]
    /\ UNCHANGED <<now, status, flight, pc, asked, scanned, saved, forcing,
                   alive, diedAt, cut>>

(* UPDATE ... WHERE source_id AND owner_id; the error is dropped. *)
RenewSyncLease(s) ==
    /\ ticker[s].st = "write"
    /\ \/ lease' = IF lease.owner = InstanceOf[s]
                   THEN [lease EXCEPT !.until = ticker[s].until,
                                      !.updated = now]
                   ELSE lease
       \/ "dberror" \in Hazards /\ UNCHANGED lease
    /\ ticker' = [ticker EXCEPT ![s].st = "wait", ![s].until = 0]
    /\ UNCHANGED <<now, status, flight, pc, asked, scanned, saved, forcing,
                   alive, diedAt, cut>>

TickerStops(s) ==
    /\ ticker[s].st = "wait"
    /\ ticker[s].stop
    /\ ticker' = [ticker EXCEPT ![s] = NoTicker]
    /\ UNCHANGED <<now, lease, status, flight, pc, asked, scanned, saved,
                   forcing, alive, diedAt, cut>>

-----------------------------------------------------------------------------
(* The environment. *)

(* ForceReleaseStaleSyncLease reads the row and finds it stale ... *)
ForceCheck ==
    /\ "force" \in Hazards
    /\ ~forcing
    /\ lease.owner # NoInstance
    /\ now - lease.updated >= StaleAfter
    /\ forcing' = TRUE
    /\ UNCHANGED <<now, lease, status, flight, pc, asked, scanned, saved,
                   ticker, alive, diedAt, cut>>

(* ... and deletes whatever row the source has by then. *)
ForceRelease ==
    /\ forcing
    /\ forcing' = FALSE
    /\ lease' = NoLease
    /\ UNCHANGED <<now, status, flight, pc, asked, scanned, saved, ticker,
                   alive, diedAt, cut>>

(* DeleteSource: the lease row goes with the source (ON DELETE CASCADE). *)
DeleteSource ==
    /\ "delete" \in Hazards
    /\ status # "deleted"
    /\ status' = "deleted"
    /\ lease' = NoLease
    /\ UNCHANGED <<now, flight, pc, asked, scanned, saved, ticker, forcing,
                   alive, diedAt, cut>>

(* A process dies with its goroutines and its map; the rows stay. *)
Crash(i) ==
    /\ "crash" \in Hazards
    /\ i \in alive
    /\ alive' = alive \ {i}
    /\ diedAt' = [diedAt EXCEPT ![i] = now]
    /\ cut' = (cut \/ \E s \in Slot : InstanceOf[s] = i /\ pc[s] \in Unsettled)
    /\ flight' = flight \ {i}
    /\ pc' = [s \in Slot |-> IF InstanceOf[s] = i THEN "idle" ELSE pc[s]]
    /\ ticker' = [s \in Slot |->
           IF InstanceOf[s] = i THEN NoTicker ELSE ticker[s]]
    /\ asked' = [s \in Slot |-> IF InstanceOf[s] = i THEN 0 ELSE asked[s]]
    /\ scanned' = [s \in Slot |->
           IF InstanceOf[s] = i THEN 0 ELSE scanned[s]]
    /\ UNCHANGED <<now, lease, status, saved, forcing>>

(* Without the "delay" hazard time passes only while the external database *)
(* is scanned or the result is saved, and never past a renewal that is     *)
(* due: every process is prompt.                                           *)
Prompt(s) ==
    /\ pc[s] \in {"idle", "scan", "save"}
    /\ ticker[s].st # "write"
    /\ ticker[s].st = "wait" => now < ticker[s].due

Tick ==
    /\ now < MaxClock
    /\ "delay" \in Hazards \/ \A s \in Slot : Prompt(s)
    /\ now' = now + 1
    /\ UNCHANGED <<lease, status, flight, pc, asked, scanned, saved, ticker,
                   forcing, alive, diedAt, cut>>

-----------------------------------------------------------------------------

Init ==
    /\ now = 0
    /\ lease = NoLease
    /\ status = "active"
    /\ flight = {}
    /\ pc = [s \in Slot |-> "idle"]
    /\ asked = [s \in Slot |-> 0]
    /\ scanned = [s \in Slot |-> 0]
    /\ saved = 0
    /\ ticker = [s \in Slot |-> NoTicker]
    /\ forcing = FALSE
    /\ alive = Instance
    /\ diedAt = [i \in Instance |-> 0]
    /\ cut = FALSE

Trigger(s) ==
    \/ TryAcquireSyncLease(s) \/ AcquireFails(s) \/ Refused(s)
    \/ PrepareFails(s) \/ MarkSyncing(s)

Worker(s) ==
    \/ StartWorker(s) \/ ScanSchema(s)
    \/ CheckLease(s, "checkBefore", "save") \/ SaveSchema(s)
    \/ CheckLease(s, "checkAfter", "finish")
    \/ MarkActive(s) \/ MarkError(s) \/ LostLease(s) \/ LostStatus(s)
    \/ StopRenewal(s) \/ EndLocal(s) \/ EndLease(s)

Renewal(s) == TickerFires(s) \/ RenewSyncLease(s) \/ TickerStops(s)

Environment ==
    \/ ForceCheck \/ ForceRelease \/ DeleteSource
    \/ \E i \in Instance : Crash(i)
    \/ Tick

Next ==
    \/ \E s \in Slot : BeginSync(s) \/ Trigger(s) \/ Worker(s) \/ Renewal(s)
    \/ Environment

Spec == Init /\ [][Next]_vars

(* A goroutine that can run does run, and the external database answers    *)
(* ScanSchema; nobody is obliged to call TriggerSync, and TickerFires is   *)
(* left to the clock.                                                      *)
Fairness == \A s \in Slot :
    /\ WF_vars(Trigger(s) \/ Worker(s))
    /\ WF_vars(RenewSyncLease(s))
    /\ WF_vars(TickerStops(s))

FairSpec == Spec /\ Fairness

-----------------------------------------------------------------------------
(* Properties that hold whatever goes wrong. *)

(* The entry of syncInFlight is there exactly while one call of that       *)
(* process is between its claim (beginSync) and releaseLocalSync: no early *)
(* return, lost lease or failed statement leaves it behind or drops it     *)
(* while a second call could start.                                        *)
FlagExact ==
    /\ \A i \in Instance :
           i \in flight <=> \E s \in Slot : InstanceOf[s] = i /\ HoldsFlag(s)
    /\ \A s, t \in Slot :
           (s # t /\ InstanceOf[s] = InstanceOf[t])
               => ~(HoldsFlag(s) /\ HoldsFlag(t))

(* No process takes over a lease that has time left: TryAcquireSyncLease   *)
(* only replaces the owner of an expired row, however long ago the caller  *)
(* read the clock it passes in.                                            *)
TakeoverOnlyExpired ==
    (/\ lease.owner # NoInstance
     /\ lease'.owner \notin {lease.owner, NoInstance}) => lease.until <= now

LiveLeaseNotTakenOver == [][TakeoverOnlyExpired]_vars

(* A process that died blocks the source no longer than one TTL: nothing   *)
(* it left behind, and nobody else, extends the row it held.               *)
OrphanLeaseExpires ==
    \A i \in Instance \ alive :
        lease.owner = i => lease.until <= diedAt[i] + TTL

-----------------------------------------------------------------------------
(* Properties that need prompt processes and one call per process. *)

(* Two syncs of the source never run at the same time, on one process or   *)
(* on two (TriggerSync: in-process map plus database lease).               *)
NoConcurrentSync ==
    \A s, t \in Slot : (Busy(s) /\ Busy(t)) => s = t

(* The process whose call believes it has the lease. *)
Holder ==
    IF \E s \in Slot : Holding(s)
    THEN InstanceOf[CHOOSE s \in Slot : Holding(s)]
    ELSE NoInstance

Mutex == INSTANCE SyncMutex WITH holder <- Holder

(* The lease protocol implements the mutex: from the acquisition of the    *)
(* lease to its release no other process acquires it, only the holder      *)
(* commits saveSchema, and no commit replaces a later scan by an earlier   *)
(* one although the transaction does not look at the lease.                *)
ImplementsMutex == Mutex!MutexSpec

(* When no sync of the source is under way, the source does not say it is  *)
(* syncing: every way out of TriggerSync and of its goroutine leaves the   *)
(* status settled.  The death of its process is an excuse only until the   *)
(* next sync marks the source: that one settles what the dead one left.    *)
NobodyLeftSyncing ==
    (status = "syncing" /\ \A s \in Slot : pc[s] \notin Unsettled) => cut

-----------------------------------------------------------------------------
(* Force release. *)

(* force_release_source_sync_lease removes a row only if its owner has not *)
(* touched it for StaleAfter.                                              *)
ForceReleaseOnlyStale ==
    [][(forcing /\ ~forcing' /\ lease.owner # NoInstance)
           => now - lease.updated >= StaleAfter]_vars

-----------------------------------------------------------------------------
(* Liveness, when no process dies and no statement fails. *)

(* A process that claimed the source in its map gives it up again: every   *)
(* path of TriggerSync and of its goroutine reaches releaseLocalSync.      *)
FlagReleased ==
    \A i \in Instance : (i \in flight) ~> (i \notin flight)

(* A lease does not stay with a process that has nothing left to do: it is *)
(* released, or a later sync of the process releases it.                   *)
LeaseGivenUp ==
    \A i \in Instance : (lease.owner = i) ~> (lease.owner # i)

-----------------------------------------------------------------------------
(* Inductive invariants the proofs use. *)

(* No time in the state is ahead of the clock by more than it may be, and  *)
(* a dead process runs nothing.                                            *)
TimeInv ==
    /\ \A s \in Slot : asked[s] <= now /\ ticker[s].until <= now + TTL
    /\ lease.until <= now + TTL
    /\ \A s \in Slot : ~Runs(s) => pc[s] = "idle" /\ ticker[s].st = "off"
    /\ OrphanLeaseExpires

(* What makes the lease protocol exclusive: one call per process at a      *)
(* time, prompt processes, statements that succeed.                        *)
OneCallPerProcess ==
    \A s, t \in Slot : InstanceOf[s] = InstanceOf[t] => s = t

PromptProcesses == Hazards \subseteq {"crash"}

(* A call that holds the lease has a live row, and while its renewal       *)
(* goroutine waits the row outlives the next renewal.                      *)
LeaseInv ==
    /\ \A s \in Slot :
        /\ pc[s] = "acquire" => asked[s] = now
        /\ Holding(s) => lease.owner = InstanceOf[s] /\ lease.until > now
        /\ pc[s] \in {"prepare", "marked"} => lease.until = now + TTL
        /\ pc[s] \in {"acquire", "refused", "prepare", "marked"}
               => ticker[s].st = "off"
        /\ pc[s] \in HoldingPC \ {"prepare", "marked", "endLocal", "endLease"}
               => ticker[s].st # "off" /\ ~ticker[s].stop
        /\ ticker[s].st = "write" => /\ ticker[s].due = now + RenewEvery
                                     /\ ticker[s].until = now + TTL
        /\ (Holding(s) /\ ticker[s].st = "wait" /\ ~ticker[s].stop)
               => lease.until > ticker[s].due
        /\ pc[s] \notin {"lost", "lostStatus"}
    /\ ~forcing

(* The scan a call is about to save is the newest there is, and a source   *)
(* that says it is syncing has a worker that will settle it, or had one    *)
(* that died.                                                              *)
SaveInv ==
    /\ saved <= now
    /\ \A s \in Slot : pc[s] \in {"checkBefore", "save"}
           => saved <= scanned[s] /\ scanned[s] <= now
    /\ status = "syncing" => cut \/ \E s \in Slot : pc[s] \in Unsettled
    /\ status # "deleted"

=============================================================================
