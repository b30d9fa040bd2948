--------------------------- MODULE SyncLeaseProofs ---------------------------
(***************************************************************************)
(* Theorems about SyncLease, for every set of processes and calls and all  *)
(* values of the times.                                                    *)
(***************************************************************************)
EXTENDS SyncLease, TLAPS

LEMMA RenewEveryType == RenewEvery \in Nat /\ RenewEvery > 0 /\ RenewEvery < TTL
  BY TimeAssumption DEF RenewEvery

-----------------------------------------------------------------------------

(* Type correctness: the variables of the sync protocol keep their types,  *)
(* whatever goes wrong.                                                    *)
THEOREM TypeCorrect == Spec => []TypeOK
<1> USE InstanceAssumption, TimeAssumption, RenewEveryType
    DEF TypeOK, LeaseRow, Ticker, Statuses, PC, HoldingPC, BusyPC, Ending,
        NoLease, NoTicker
<1>0. NoTicker \in Ticker /\ NoLease \in LeaseRow
  OBVIOUS
<1>1. Init => TypeOK
  <2> SUFFICES ASSUME Init PROVE TypeOK
    OBVIOUS
  <2>1. ticker \in [Slot -> Ticker]
    BY <1>0 DEF Init
  <2>2. lease \in LeaseRow
    BY <1>0 DEF Init
  <2>3. QED
    BY <2>1, <2>2 DEF Init
<1>2. TypeOK /\ [Next]_vars => TypeOK'
  <2> SUFFICES ASSUME TypeOK, [Next]_vars PROVE TypeOK'
    OBVIOUS
  <2>1. ASSUME NEW s \in Slot, BeginSync(s) PROVE TypeOK'
    BY <2>1 DEF BeginSync, Goto
  <2>2. ASSUME NEW s \in Slot, Trigger(s) PROVE TypeOK'
    <3>1. CASE TryAcquireSyncLease(s)
      BY <3>1 DEF TryAcquireSyncLease, TakeLease, Goto
    <3>2. CASE AcquireFails(s)
      BY <3>2 DEF AcquireFails, TakeLease, Goto
    <3>3. CASE Refused(s)
      BY <3>3 DEF Refused, Goto
    <3>4. CASE PrepareFails(s)
      BY <3>4 DEF PrepareFails, Goto
    <3>5. CASE MarkSyncing(s)
      BY <3>5 DEF MarkSyncing, Goto
    <3>6. QED
      BY <2>2, <3>1, <3>2, <3>3, <3>4, <3>5 DEF Trigger
  <2>3. ASSUME NEW s \in Slot, Worker(s) PROVE TypeOK'
    <3>1. CASE StartWorker(s)
      BY <3>1 DEF StartWorker, Goto
    <3>2. CASE ScanSchema(s)
      BY <3>2 DEF ScanSchema, Goto
    <3>3. CASE CheckLease(s, "checkBefore", "save")
      BY <3>3 DEF CheckLease, Goto
    <3>4. CASE SaveSchema(s)
      BY <3>4 DEF SaveSchema, Goto
    <3>5. CASE CheckLease(s, "checkAfter", "finish")
      BY <3>5 DEF CheckLease, Goto
    <3>6. CASE MarkActive(s)
      BY <3>6 DEF MarkActive, WriteStatus, Goto
    <3>7. CASE MarkError(s)
      BY <3>7 DEF MarkError, WriteStatus, Goto
    <3>8. CASE LostLease(s)
      BY <3>8 DEF LostLease, Goto
    <3>9. CASE LostStatus(s)
      BY <3>9 DEF LostStatus, Goto
    <3>10. CASE StopRenewal(s)
      BY <3>10 DEF StopRenewal, Goto
    <3>11. CASE EndLocal(s)
      BY <3>11 DEF EndLocal, Goto
    <3>12. CASE EndLease(s)
      BY <3>12 DEF EndLease, Goto
    <3>13. QED
      BY <2>3, <3>1, <3>2, <3>3, <3>4, <3>5, <3>6, <3>7, <3>8, <3>9, <3>10,
         <3>11, <3>12 DEF Worker
  <2>4. ASSUME NEW s \in Slot, Renewal(s) PROVE TypeOK'
    <3>1. CASE TickerFires(s)
      <4>1. now + RenewEvery \in Nat /\ now + TTL \in Nat
        OBVIOUS
      <4>2. [ticker[s] EXCEPT !.st = "write", !.due = now + RenewEvery,
                              !.until = now + TTL] \in Ticker
        <5>1. ticker[s] \in Ticker
          OBVIOUS
        <5>2. [ticker[s] EXCEPT !.st = "write"] \in Ticker
          BY <5>1
        <5>3. [[ticker[s] EXCEPT !.st = "write"]
                  EXCEPT !.due = now + RenewEvery] \in Ticker
          BY <4>1, <5>2
        <5>4. QED
          BY <4>1, <5>3
      <4>3. ticker' \in [Slot -> Ticker]
        <5>1. ticker' = [ticker EXCEPT ![s] =
                  [ticker[s] EXCEPT !.st = "write", !.due = now + RenewEvery,
                                    !.until = now + TTL]]
          BY <3>1 DEF TickerFires
        <5>2. QED
          BY <4>2, <5>1
      <4>4. QED
        BY <3>1, <4>3 DEF TickerFires
    <3>2. CASE RenewSyncLease(s)
      <4>1. [[ticker[s] EXCEPT !.st = "wait"] EXCEPT !.until = 0] \in Ticker
        <5>1. ticker[s] \in Ticker
          OBVIOUS
        <5>2. [ticker[s] EXCEPT !.st = "wait"] \in Ticker
          BY <5>1
        <5>3. QED
          BY <5>2
      <4>2. ticker' \in [Slot -> Ticker]
        BY <3>2, <4>1 DEF RenewSyncLease
      <4>3. [lease EXCEPT !.until = ticker[s].until, !.updated = now]
                \in LeaseRow
        OBVIOUS
      <4>4. lease' \in LeaseRow
        BY <3>2, <4>3 DEF RenewSyncLease
      <4>5. QED
        BY <3>2, <4>2, <4>4 DEF RenewSyncLease
    <3>3. CASE TickerStops(s)
      BY <3>3 DEF TickerStops
    <3>4. QED
      BY <2>4, <3>1, <3>2, <3>3 DEF Renewal
  <2>5. CASE Environment
    <3>1. CASE ForceCheck
      BY <3>1 DEF ForceCheck
    <3>2. CASE ForceRelease
      BY <3>2 DEF ForceRelease
    <3>3. CASE DeleteSource
      BY <3>3 DEF DeleteSource
    <3>4. ASSUME NEW i \in Instance, Crash(i) PROVE TypeOK'
      <4>1. ticker' \in [Slot -> Ticker]
        BY <3>4, <1>0 DEF Crash
      <4>2. QED
        BY <3>4, <4>1 DEF Crash
    <3>5. CASE Tick
      BY <3>5 DEF Tick
    <3>6. QED
      BY <2>5, <3>1, <3>2, <3>3, <3>4, <3>5 DEF Environment
  <2>6. CASE UNCHANGED vars
    BY <2>6 DEF vars
  <2>7. QED
    BY <2>1, <2>2, <2>3, <2>4, <2>5, <2>6 DEF Next
<1>3. QED
  BY <1>1, <1>2, PTL DEF Spec

-----------------------------------------------------------------------------

(* The entry of syncInFlight is held exactly by one call of the process,   *)
(* along every path of TriggerSync and of its goroutine.                   *)
THEOREM FlagExactHolds == Spec => []FlagExact
<1> USE InstanceAssumption DEF FlagExact, HoldsFlag, TypeOK
<1>1. Init => FlagExact
  BY DEF Init
<1>2. TypeOK /\ FlagExact /\ [Next]_vars => FlagExact'
  <2> SUFFICES ASSUME TypeOK, FlagExact, [Next]_vars PROVE FlagExact'
    OBVIOUS
  <2>1. ASSUME NEW s \in Slot, BeginSync(s) PROVE FlagExact'
    BY <2>1 DEF BeginSync, Goto
  <2>2. ASSUME NEW s \in Slot, Trigger(s) PROVE FlagExact'
    <3>1. CASE TryAcquireSyncLease(s)
      BY <3>1 DEF TryAcquireSyncLease, TakeLease, LeaseFree, Goto
    <3>2. CASE AcquireFails(s)
      BY <3>2 DEF AcquireFails, TakeLease, LeaseFree, Goto
    <3>3. CASE Refused(s)
      BY <3>3 DEF Refused, Goto
    <3>4. CASE PrepareFails(s)
      BY <3>4 DEF PrepareFails, Goto
    <3>5. CASE MarkSyncing(s)
      BY <3>5 DEF MarkSyncing, Goto
    <3>6. QED
      BY <2>2, <3>1, <3>2, <3>3, <3>4, <3>5 DEF Trigger
  <2>3. ASSUME NEW s \in Slot, Worker(s) PROVE FlagExact'
    <3>1. CASE StartWorker(s)
      BY <3>1 DEF StartWorker, Goto
    <3>2. CASE ScanSchema(s)
      BY <3>2 DEF ScanSchema, Goto
    <3>3. CASE CheckLease(s, "checkBefore", "save")
      BY <3>3 DEF CheckLease, Owned, Goto
    <3>4. CASE SaveSchema(s)
      BY <3>4 DEF SaveSchema, Goto
    <3>5. CASE CheckLease(s, "checkAfter", "finish")
      BY <3>5 DEF CheckLease, Owned, Goto
    <3>6. CASE MarkActive(s)
      BY <3>6 DEF MarkActive, WriteStatus, Goto
    <3>7. CASE MarkError(s)
      BY <3>7 DEF MarkError, WriteStatus, Goto
    <3>8. CASE LostLease(s)
      BY <3>8 DEF LostLease, HeldByOther, Goto
    <3>9. CASE LostStatus(s)
      BY <3>9 DEF LostStatus, Goto
    <3>10. CASE StopRenewal(s)
      BY <3>10 DEF StopRenewal, Goto
    <3>11. CASE EndLocal(s)
      BY <3>11 DEF EndLocal, Goto
    <3>12. CASE EndLease(s)
      BY <3>12 DEF EndLease, Goto
    <3>13. QED
      BY <2>3, <3>1, <3>2, <3>3, <3>4, <3>5, <3>6, <3>7, <3>8, <3>9, <3>10,
         <3>11, <3>12 DEF Worker
  <2>4. ASSUME NEW s \in Slot, Renewal(s) PROVE FlagExact'
    <3>1. CASE TickerFires(s)
      BY <3>1 DEF TickerFires
    <3>2. CASE RenewSyncLease(s)
      BY <3>2 DEF RenewSyncLease
    <3>3. CASE TickerStops(s)
      BY <3>3 DEF TickerStops
    <3>4. QED
      BY <2>4, <3>1, <3>2, <3>3 DEF Renewal
  <2>5. CASE Environment
    <3>1. CASE ForceCheck
      BY <3>1 DEF ForceCheck
    <3>2. CASE ForceRelease
      BY <3>2 DEF ForceRelease
    <3>3. CASE DeleteSource
      BY <3>3 DEF DeleteSource
    <3>4. CASE Tick
      BY <3>4 DEF Tick, Prompt
    <3>5. ASSUME NEW i \in Instance, Crash(i) PROVE FlagExact'
      BY <3>5 DEF Crash
    <3>6. QED
      BY <2>5, <3>1, <3>2, <3>3, <3>4, <3>5 DEF Environment
  <2>6. CASE UNCHANGED vars
    BY <2>6 DEF vars
  <2>7. QED
    BY <2>1, <2>2, <2>3, <2>4, <2>5, <2>6 DEF Next
<1>3. QED
  BY <1>1, <1>2, TypeCorrect, PTL DEF Spec

-----------------------------------------------------------------------------

(* Times never run ahead of the clock by more than the TTL, so a dead      *)
(* process holds the lease no longer than one TTL after its death.         *)
THEOREM TimeInvHolds == Spec => []TimeInv
<1> USE InstanceAssumption, TimeAssumption
    DEF TimeInv, OrphanLeaseExpires, Runs, TypeOK, LeaseRow, Ticker, NoLease,
        NoTicker
<1>1. Init => TimeInv
  BY DEF Init
<1>2. TypeOK /\ TimeInv /\ [Next]_vars => TimeInv'
  <2> SUFFICES ASSUME TypeOK, TimeInv, [Next]_vars PROVE TimeInv'
    OBVIOUS
  <2>1. ASSUME NEW s \in Slot, BeginSync(s) PROVE TimeInv'
    BY <2>1 DEF BeginSync, Goto
  <2>2. ASSUME NEW s \in Slot, Trigger(s) PROVE TimeInv'
    <3>1. CASE TryAcquireSyncLease(s)
      BY <3>1 DEF TryAcquireSyncLease, TakeLease, LeaseFree, Goto
    <3>2. CASE AcquireFails(s)
      BY <3>2 DEF AcquireFails, TakeLease, LeaseFree, Goto
    <3>3. CASE Refused(s)
      BY <3>3 DEF Refused, Goto
    <3>4. CASE PrepareFails(s)
      BY <3>4 DEF PrepareFails, Goto
    <3>5. CASE MarkSyncing(s)
      BY <3>5 DEF MarkSyncing, Goto
    <3>6. QED
      BY <2>2, <3>1, <3>2, <3>3, <3>4, <3>5 DEF Trigger
  <2>3. ASSUME NEW s \in Slot, Worker(s) PROVE TimeInv'
    <3>1. CASE StartWorker(s)
      BY <3>1 DEF StartWorker, Goto
    <3>2. CASE ScanSchema(s)
      BY <3>2 DEF ScanSchema, Goto
    <3>3. CASE CheckLease(s, "checkBefore", "save")
      BY <3>3 DEF CheckLease, Owned, Goto
    <3>4. CASE SaveSchema(s)
      BY <3>4 DEF SaveSchema, Goto
    <3>5. CASE CheckLease(s, "checkAfter", "finish")
      BY <3>5 DEF CheckLease, Owned, Goto
    <3>6. CASE MarkActive(s)
      BY <3>6 DEF MarkActive, WriteStatus, Goto
    <3>7. CASE MarkError(s)
      BY <3>7 DEF MarkError, WriteStatus, Goto
    <3>8. CASE LostLease(s)
      BY <3>8 DEF LostLease, HeldByOther, Goto
    <3>9. CASE LostStatus(s)
      BY <3>9 DEF LostStatus, Goto
    <3>10. CASE StopRenewal(s)
      BY <3>10 DEF StopRenewal, Goto
    <3>11. CASE EndLocal(s)
      BY <3>11 DEF EndLocal, Goto
    <3>12. CASE EndLease(s)
      BY <3>12 DEF EndLease, Goto
    <3>13. QED
      BY <2>3, <3>1, <3>2, <3>3, <3>4, <3>5, <3>6, <3>7, <3>8, <3>9, <3>10,
         <3>11, <3>12 DEF Worker
  <2>4. ASSUME NEW s \in Slot, Renewal(s) PROVE TimeInv'
    <3>1. CASE TickerFires(s)
      BY <3>1 DEF TickerFires
    <3>2. CASE RenewSyncLease(s)
      <4>1. ticker'[s].until <= now' + TTL
        BY <3>2 DEF RenewSyncLease
      <4>2. ASSUME NEW r \in Slot, r # s PROVE ticker'[r] = ticker[r]
        BY <3>2, <4>2 DEF RenewSyncLease
      <4>3. s \in Slot /\ Runs(s)
        BY <3>2 DEF RenewSyncLease
      <4>4. /\ lease'.owner = lease.owner
            /\ lease'.until <= now + TTL
            /\ lease.owner # InstanceOf[s] => lease' = lease
        BY <3>2 DEF RenewSyncLease
      <4>5. OrphanLeaseExpires'
        BY <3>2, <4>3, <4>4 DEF RenewSyncLease
      <4>6. QED
        BY <3>2, <4>1, <4>2, <4>3, <4>4, <4>5 DEF RenewSyncLease
    <3>3. CASE TickerStops(s)
      BY <3>3 DEF TickerStops
    <3>4. QED
      BY <2>4, <3>1, <3>2, <3>3 DEF Renewal
  <2>5. CASE Environment
    <3>1. CASE ForceCheck
      BY <3>1 DEF ForceCheck
    <3>2. CASE ForceRelease
      BY <3>2 DEF ForceRelease
    <3>3. CASE DeleteSource
      BY <3>3 DEF DeleteSource
    <3>4. CASE Tick
      BY <3>4 DEF Tick, Prompt
    <3>5. ASSUME NEW i \in Instance, Crash(i) PROVE TimeInv'
      BY <3>5 DEF Crash
    <3>6. QED
      BY <2>5, <3>1, <3>2, <3>3, <3>4, <3>5 DEF Environment
  <2>6. CASE UNCHANGED vars
    BY <2>6 DEF vars
  <2>7. QED
    BY <2>1, <2>2, <2>3, <2>4, <2>5, <2>6 DEF Next
<1>3. QED
  BY <1>1, <1>2, TypeCorrect, PTL DEF Spec

(* A dead process holds the source's lease for at most one TTL.            *)
THEOREM OrphanLeaseExpiresHolds == Spec => []OrphanLeaseExpires
<1>1. TimeInv => OrphanLeaseExpires
  BY DEF TimeInv
<1>2. QED
  BY <1>1, TimeInvHolds, PTL

-----------------------------------------------------------------------------

(* The statements that write the lease row. *)
LeaseWrite ==
    \/ \E s \in Slot : \/ TryAcquireSyncLease(s) \/ AcquireFails(s)
                       \/ EndLease(s) \/ RenewSyncLease(s)
    \/ ForceRelease \/ DeleteSource

(* Every other step of the protocol leaves the lease row as it is.         *)
LEMMA OnlyLeaseWrites ==
  ASSUME [Next]_vars
  PROVE  LeaseWrite \/ UNCHANGED lease
<1>1. ASSUME NEW s \in Slot, BeginSync(s) PROVE UNCHANGED lease
  BY <1>1 DEF BeginSync
<1>2. ASSUME NEW s \in Slot, Trigger(s) PROVE LeaseWrite \/ UNCHANGED lease
  BY <1>2 DEF Trigger, Refused, PrepareFails, MarkSyncing, LeaseWrite
<1>3. ASSUME NEW s \in Slot, Worker(s) PROVE LeaseWrite \/ UNCHANGED lease
  BY <1>3 DEF Worker, StartWorker, ScanSchema, CheckLease, SaveSchema,
              MarkActive, MarkError, LostLease, LostStatus, StopRenewal,
              EndLocal, LeaseWrite
<1>4. ASSUME NEW s \in Slot, Renewal(s) PROVE LeaseWrite \/ UNCHANGED lease
  BY <1>4 DEF Renewal, TickerFires, TickerStops, LeaseWrite
<1>5. CASE Environment
  BY <1>5 DEF Environment, ForceCheck, Crash, Tick, LeaseWrite
<1>6. CASE UNCHANGED vars
  BY <1>6 DEF vars
<1>7. QED
  BY <1>1, <1>2, <1>3, <1>4, <1>5, <1>6 DEF Next

(* No step replaces the owner of a lease that has time left, although the  *)
(* acquiring call compares it with a clock it read earlier.                *)
THEOREM LiveLeaseNotTakenOverHolds == Spec => LiveLeaseNotTakenOver
<1>1. TypeOK /\ TimeInv /\ [Next]_vars => [TakeoverOnlyExpired]_vars
  <2> SUFFICES ASSUME TypeOK, TimeInv, [Next]_vars
               PROVE  TakeoverOnlyExpired
    OBVIOUS
  <2> USE InstanceAssumption, TimeAssumption
      DEF TakeoverOnlyExpired, TypeOK, LeaseRow
  <2>1. ASSUME NEW s \in Slot,
               TryAcquireSyncLease(s) \/ AcquireFails(s)
        PROVE  TakeoverOnlyExpired
    <3>1. asked[s] \in Nat /\ asked[s] <= now
      BY DEF TimeInv
    <3>2. lease' = lease \/ (LeaseFree(s) /\ TakeLease(s))
      BY <2>1 DEF TryAcquireSyncLease, AcquireFails
    <3>3. QED
      BY <3>1, <3>2 DEF LeaseFree, TakeLease
  <2>2. ASSUME NEW s \in Slot, EndLease(s) PROVE TakeoverOnlyExpired
    BY <2>2 DEF EndLease, NoLease
  <2>3. ASSUME NEW s \in Slot, RenewSyncLease(s) PROVE TakeoverOnlyExpired
    BY <2>3 DEF RenewSyncLease
  <2>4. CASE ForceRelease \/ DeleteSource
    BY <2>4 DEF ForceRelease, DeleteSource, NoLease
  <2>5. QED
    BY <2>1, <2>2, <2>3, <2>4, OnlyLeaseWrites DEF LeaseWrite
<1>2. QED
  BY <1>1, TypeCorrect, TimeInvHolds, PTL DEF Spec, LiveLeaseNotTakenOver

-----------------------------------------------------------------------------

(* Two calls that hold the lease are the same call.                        *)
LEMMA HoldersExclude ==
  ASSUME TypeOK, LeaseInv, OneCallPerProcess,
         NEW s \in Slot, NEW t \in Slot, Holding(s), Holding(t)
  PROVE  s = t
  BY InstanceAssumption DEF LeaseInv, OneCallPerProcess

(* Prompt processes that serve one call each keep the lease row alive for  *)
(* as long as they believe they hold it.                                   *)
THEOREM LeaseInvHolds ==
  ASSUME OneCallPerProcess, PromptProcesses
  PROVE  Spec => []LeaseInv
<1> USE InstanceAssumption, TimeAssumption, RenewEveryType, OneCallPerProcess,
        PromptProcesses
    DEF LeaseInv, Holding, HoldingPC, BusyPC, Ending, PC, TypeOK, LeaseRow,
        Ticker, NoLease, NoTicker, OneCallPerProcess, PromptProcesses
<1>1. Init => LeaseInv
  BY DEF Init
<1>2. TypeOK /\ LeaseInv /\ [Next]_vars => LeaseInv'
  <2> SUFFICES ASSUME TypeOK, LeaseInv, [Next]_vars PROVE LeaseInv'
    OBVIOUS
  <2>1. ASSUME NEW s \in Slot, BeginSync(s) PROVE LeaseInv'
    BY <2>1 DEF BeginSync, Goto
  <2>2. ASSUME NEW s \in Slot, Trigger(s) PROVE LeaseInv'
    <3>1. CASE TryAcquireSyncLease(s)
      BY <3>1 DEF TryAcquireSyncLease, TakeLease, LeaseFree, Goto
    <3>2. CASE AcquireFails(s)
      BY <3>2 DEF AcquireFails, TakeLease, LeaseFree, Goto
    <3>3. CASE Refused(s)
      BY <3>3 DEF Refused, Goto
    <3>4. CASE PrepareFails(s)
      BY <3>4 DEF PrepareFails, Goto
    <3>5. CASE MarkSyncing(s)
      BY <3>5 DEF MarkSyncing, Goto
    <3>6. QED
      BY <2>2, <3>1, <3>2, <3>3, <3>4, <3>5 DEF Trigger
  <2>3. ASSUME NEW s \in Slot, Worker(s) PROVE LeaseInv'
    <3>1. CASE StartWorker(s)
      BY <3>1 DEF StartWorker, Goto
    <3>2. CASE ScanSchema(s)
      BY <3>2 DEF ScanSchema, Goto
    <3>3. CASE CheckLease(s, "checkBefore", "save")
      BY <3>3 DEF CheckLease, Owned, Goto
    <3>4. CASE SaveSchema(s)
      BY <3>4 DEF SaveSchema, Goto
    <3>5. CASE CheckLease(s, "checkAfter", "finish")
      BY <3>5 DEF CheckLease, Owned, Goto
    <3>6. CASE MarkActive(s)
      BY <3>6 DEF MarkActive, WriteStatus, Goto
    <3>7. CASE MarkError(s)
      BY <3>7 DEF MarkError, WriteStatus, Goto
    <3>8. CASE LostLease(s)
      BY <3>8 DEF LostLease, HeldByOther, Goto
    <3>9. CASE LostStatus(s)
      BY <3>9 DEF LostStatus, Goto
    <3>10. CASE StopRenewal(s)
      BY <3>10 DEF StopRenewal, Goto
    <3>11. CASE EndLocal(s)
      BY <3>11 DEF EndLocal, Goto
    <3>12. CASE EndLease(s)
      BY <3>12 DEF EndLease, Goto
    <3>13. QED
      BY <2>3, <3>1, <3>2, <3>3, <3>4, <3>5, <3>6, <3>7, <3>8, <3>9,
         <3>10, <3>11, <3>12 DEF Worker
  <2>4. ASSUME NEW s \in Slot, Renewal(s) PROVE LeaseInv'
    <3>1. CASE TickerFires(s)
      BY <3>1 DEF TickerFires
    <3>2. CASE RenewSyncLease(s)
      BY <3>2 DEF RenewSyncLease
    <3>3. CASE TickerStops(s)
      BY <3>3 DEF TickerStops
    <3>4. QED
      BY <2>4, <3>1, <3>2, <3>3 DEF Renewal
  <2>5. CASE Environment
    <3>1. CASE ForceCheck
      BY <3>1 DEF ForceCheck
    <3>2. CASE ForceRelease
      BY <3>2 DEF ForceRelease
    <3>3. CASE DeleteSource
      BY <3>3 DEF DeleteSource
    <3>4. CASE Tick
      BY <3>4 DEF Tick, Prompt
    <3>5. ASSUME NEW i \in Instance, Crash(i) PROVE LeaseInv'
      BY <3>5 DEF Crash
    <3>6. QED
      BY <2>5, <3>1, <3>2, <3>3, <3>4, <3>5 DEF Environment
  <2>6. CASE UNCHANGED vars
    BY <2>6 DEF vars
  <2>7. QED
    BY <2>1, <2>2, <2>3, <2>4, <2>5, <2>6 DEF Next
<1>3. QED
  BY <1>1, <1>2, TypeCorrect, PTL DEF Spec

(* Two syncs of a source never run at once when every process is prompt    *)
(* and serves one TriggerSync at a time.                                   *)
THEOREM NoConcurrentSyncHolds ==
  ASSUME OneCallPerProcess, PromptProcesses
  PROVE  Spec => []NoConcurrentSync
<1>1. TypeOK /\ LeaseInv => NoConcurrentSync
  BY HoldersExclude DEF NoConcurrentSync, Busy, Holding, HoldingPC
<1>2. QED
  BY <1>1, TypeCorrect, LeaseInvHolds, PTL

-----------------------------------------------------------------------------

(* A scan about to be saved is the newest, and a syncing source has a      *)
(* worker that will settle its status.                                     *)
THEOREM SaveInvHolds ==
  ASSUME OneCallPerProcess, PromptProcesses
  PROVE  Spec => []SaveInv
<1> USE InstanceAssumption, TimeAssumption, OneCallPerProcess,
        PromptProcesses
    DEF SaveInv, HoldingPC, BusyPC, Ending, PC, TypeOK, Statuses,
        PromptProcesses, Unsettled
<1>1. Init => SaveInv
  BY DEF Init
<1>2. TypeOK /\ LeaseInv /\ SaveInv /\ [Next]_vars => SaveInv'
  <2> SUFFICES ASSUME TypeOK, LeaseInv, SaveInv, [Next]_vars PROVE SaveInv'
    OBVIOUS
  <2>0. /\ \A s, t \in Slot : Holding(s) /\ Holding(t) => s = t
        /\ \A s \in Slot : pc[s] \notin {"lost", "lostStatus"}
    BY HoldersExclude DEF LeaseInv
  <2>1. ASSUME NEW s \in Slot, BeginSync(s) PROVE SaveInv'
    BY <2>1 DEF BeginSync, Goto
  <2>2. ASSUME NEW s \in Slot, Trigger(s) PROVE SaveInv'
    <3>1. CASE TryAcquireSyncLease(s)
      BY <3>1 DEF TryAcquireSyncLease, TakeLease, LeaseFree, Goto
    <3>2. CASE AcquireFails(s)
      BY <3>2 DEF AcquireFails, TakeLease, LeaseFree, Goto
    <3>3. CASE Refused(s)
      BY <3>3 DEF Refused, Goto
    <3>4. CASE PrepareFails(s)
      BY <3>4 DEF PrepareFails, Goto
    <3>5. CASE MarkSyncing(s)
      BY <3>5 DEF MarkSyncing, Goto
    <3>6. QED
      BY <2>2, <3>1, <3>2, <3>3, <3>4, <3>5 DEF Trigger
  <2>3. ASSUME NEW s \in Slot, Worker(s) PROVE SaveInv'
    <3>1. CASE StartWorker(s)
      BY <3>1 DEF StartWorker, Goto
    <3>2. CASE ScanSchema(s)
      BY <3>2 DEF ScanSchema, Goto
    <3>3. CASE CheckLease(s, "checkBefore", "save")
      BY <3>3 DEF CheckLease, Goto, LeaseInv, Holding, Owned
    <3>4. CASE SaveSchema(s)
      BY <3>4, <2>0 DEF SaveSchema, Goto, Holding
    <3>5. CASE CheckLease(s, "checkAfter", "finish")
      BY <3>5 DEF CheckLease, Goto, LeaseInv, Holding, Owned
    <3>6. CASE MarkActive(s)
      BY <3>6, <2>0 DEF MarkActive, WriteStatus, Goto, Holding
    <3>7. CASE MarkError(s)
      BY <3>7, <2>0 DEF MarkError, WriteStatus, Goto, Holding
    <3>8. CASE LostLease(s)
      BY <3>8, <2>0 DEF LostLease, Goto
    <3>9. CASE LostStatus(s)
      BY <3>9, <2>0 DEF LostStatus, Goto
    <3>10. CASE StopRenewal(s)
      BY <3>10 DEF StopRenewal, Goto
    <3>11. CASE EndLocal(s)
      BY <3>11 DEF EndLocal, Goto
    <3>12. CASE EndLease(s)
      BY <3>12 DEF EndLease, Goto
    <3>13. QED
      BY <2>3, <3>1, <3>2, <3>3, <3>4, <3>5, <3>6, <3>7, <3>8, <3>9,
         <3>10, <3>11, <3>12 DEF Worker
  <2>4. ASSUME NEW s \in Slot, Renewal(s) PROVE SaveInv'
    <3>1. CASE TickerFires(s)
      BY <3>1 DEF TickerFires
    <3>2. CASE RenewSyncLease(s)
      BY <3>2 DEF RenewSyncLease
    <3>3. CASE TickerStops(s)
      BY <3>3 DEF TickerStops
    <3>4. QED
      BY <2>4, <3>1, <3>2, <3>3 DEF Renewal
  <2>5. CASE Environment
    <3>1. CASE ForceCheck
      BY <3>1 DEF ForceCheck
    <3>2. CASE ForceRelease
      BY <3>2 DEF ForceRelease
    <3>3. CASE DeleteSource
      BY <3>3 DEF DeleteSource
    <3>4. CASE Tick
      BY <3>4 DEF Tick, Prompt
    <3>5. ASSUME NEW i \in Instance, Crash(i) PROVE SaveInv'
      BY <3>5 DEF Crash
    <3>6. QED
      BY <2>5, <3>1, <3>2, <3>3, <3>4, <3>5 DEF Environment
  <2>6. CASE UNCHANGED vars
    BY <2>6 DEF vars
  <2>7. QED
    BY <2>1, <2>2, <2>3, <2>4, <2>5, <2>6 DEF Next
<1>3. QED
  BY <1>1, <1>2, TypeCorrect, LeaseInvHolds, PTL DEF Spec

(* No path of TriggerSync leaves a source saying it is syncing when every  *)
(* process is prompt and serves one call at a time, unless the process of  *)
(* the last sync that marked the source died in it.                        *)
THEOREM NobodyLeftSyncingHolds ==
  ASSUME OneCallPerProcess, PromptProcesses
  PROVE  Spec => []NobodyLeftSyncing
<1>1. SaveInv => NobodyLeftSyncing
  BY DEF SaveInv, NobodyLeftSyncing
<1>2. QED
  BY <1>1, SaveInvHolds, PTL

-----------------------------------------------------------------------------

(* Holder names the one call that holds the lease, if there is one.        *)
HolderInv ==
    /\ \A s, t \in Slot : Holding(s) /\ Holding(t) => s = t
    /\ \A s \in Slot : Holding(s) => Holder = InstanceOf[s]
    /\ (\A s \in Slot : ~Holding(s)) => Holder = NoInstance

LEMMA HolderInvHolds ==
  ASSUME OneCallPerProcess, PromptProcesses
  PROVE  Spec => []HolderInv
<1>1. ASSUME TypeOK, LeaseInv PROVE HolderInv
  <2>1. \A s, t \in Slot : Holding(s) /\ Holding(t) => s = t
    BY <1>1, HoldersExclude
  <2>2. ASSUME NEW s \in Slot, Holding(s) PROVE Holder = InstanceOf[s]
    BY <2>1, <2>2 DEF Holder
  <2>3. QED
    BY <2>1, <2>2 DEF HolderInv, Holder
<1>2. QED
  BY <1>1, TypeCorrect, LeaseInvHolds, PTL

(* What a step may do to the set of holders and to the stored scan. *)
Stays == saved' = saved /\ \A s \in Slot : Holding(s)' = Holding(s)

Starts(s) ==
    /\ saved' = saved
    /\ \A t \in Slot : Holding(t)' = (t = s \/ Holding(t))
    /\ ~Holding(s)

Saves(s) ==
    /\ saved' >= saved
    /\ Holding(s)
    /\ \A t \in Slot : Holding(t)' = Holding(t)

Ends(s) ==
    /\ saved' = saved
    /\ Holding(s)
    /\ \A t \in Slot : Holding(t)' = (t # s /\ Holding(t))

Dies(i) ==
    /\ saved' = saved
    /\ \A t \in Slot : Holding(t)' = (InstanceOf[t] # i /\ Holding(t))

MutexStep ==
    \/ Stays
    \/ \E s \in Slot : Starts(s) \/ Saves(s) \/ Ends(s)
    \/ \E i \in Instance : Dies(i)

LEMMA EveryStepIsAMutexStep ==
  ASSUME TypeOK, LeaseInv, SaveInv, [Next]_vars
  PROVE  MutexStep
<1> USE InstanceAssumption
    DEF MutexStep, Holding, HoldingPC, BusyPC, Ending, PC, TypeOK
<1>1. MutexStep
  <2>1. ASSUME NEW s \in Slot, BeginSync(s) PROVE MutexStep
    BY <2>1 DEF BeginSync, Goto, Stays
  <2>2. ASSUME NEW s \in Slot, Trigger(s) PROVE MutexStep
    <3>1. CASE TryAcquireSyncLease(s)
      BY <3>1 DEF TryAcquireSyncLease, Goto, Stays, Starts
    <3>2. CASE AcquireFails(s)
      BY <3>2 DEF AcquireFails, Goto, Stays
    <3>3. CASE Refused(s)
      BY <3>3 DEF Refused, Goto, Stays
    <3>4. CASE PrepareFails(s)
      BY <3>4 DEF PrepareFails, Goto, Stays
    <3>5. CASE MarkSyncing(s)
      BY <3>5 DEF MarkSyncing, Goto, Stays
    <3>6. QED
      BY <2>2, <3>1, <3>2, <3>3, <3>4, <3>5 DEF Trigger
  <2>3. ASSUME NEW s \in Slot, Worker(s) PROVE MutexStep
    <3>1. CASE StartWorker(s)
      BY <3>1 DEF StartWorker, Goto, Stays
    <3>2. CASE ScanSchema(s)
      BY <3>2 DEF ScanSchema, Goto, Stays
    <3>3. CASE CheckLease(s, "checkBefore", "save")
      BY <3>3 DEF CheckLease, Owned, Goto, Stays
    <3>4. CASE SaveSchema(s)
      BY <3>4 DEF SaveSchema, Goto, Stays, Saves, SaveInv
    <3>5. CASE CheckLease(s, "checkAfter", "finish")
      BY <3>5 DEF CheckLease, Owned, Goto, Stays
    <3>6. CASE MarkActive(s)
      BY <3>6 DEF MarkActive, WriteStatus, Goto, Stays
    <3>7. CASE MarkError(s)
      BY <3>7 DEF MarkError, WriteStatus, Goto, Stays
    <3>8. CASE LostLease(s)
      BY <3>8 DEF LostLease, HeldByOther, Goto, Stays
    <3>9. CASE LostStatus(s)
      BY <3>9 DEF LostStatus, Goto, Stays
    <3>10. CASE StopRenewal(s)
      BY <3>10 DEF StopRenewal, Goto, Stays
    <3>11. CASE EndLocal(s)
      BY <3>11 DEF EndLocal, Goto, Stays
    <3>12. CASE EndLease(s)
      BY <3>12 DEF EndLease, Goto, Ends
    <3>13. QED
      BY <2>3, <3>1, <3>2, <3>3, <3>4, <3>5, <3>6, <3>7, <3>8, <3>9,
         <3>10, <3>11, <3>12 DEF Worker
  <2>4. ASSUME NEW s \in Slot, Renewal(s) PROVE MutexStep
    <3>1. CASE TickerFires(s)
      BY <3>1 DEF TickerFires, Stays
    <3>2. CASE RenewSyncLease(s)
      BY <3>2 DEF RenewSyncLease, Stays
    <3>3. CASE TickerStops(s)
      BY <3>3 DEF TickerStops, Stays
    <3>4. QED
      BY <2>4, <3>1, <3>2, <3>3 DEF Renewal
  <2>5. CASE Environment
    <3>1. CASE ForceCheck
      BY <3>1 DEF ForceCheck, Stays
    <3>2. CASE ForceRelease
      BY <3>2 DEF ForceRelease, Stays
    <3>3. CASE DeleteSource
      BY <3>3 DEF DeleteSource, Stays
    <3>4. CASE Tick
      BY <3>4 DEF Tick, Stays
    <3>5. ASSUME NEW i \in Instance, Crash(i) PROVE MutexStep
      BY <3>5 DEF Crash, Dies
    <3>6. QED
      BY <2>5, <3>1, <3>2, <3>3, <3>4, <3>5 DEF Environment
  <2>6. CASE UNCHANGED vars
    BY <2>6 DEF vars, Stays
  <2>7. QED
    BY <2>1, <2>2, <2>3, <2>4, <2>5, <2>6 DEF Next
<1>2. QED
  BY <1>1

(* The lease protocol implements the mutex of SyncMutex when every process *)
(* is prompt and serves one call at a time: one holder at a time, only the *)
(* holder saves, and never an older scan.                                  *)
THEOREM ImplementsMutexHolds ==
  ASSUME OneCallPerProcess, PromptProcesses
  PROVE  Spec => ImplementsMutex
<1> USE InstanceAssumption
<1>1. Init => Mutex!MutexInit
  BY DEF Init, Mutex!MutexInit, Holder, Holding, HoldingPC, BusyPC, Ending
<1>2. ASSUME TypeOK, LeaseInv, SaveInv, HolderInv, HolderInv', [Next]_vars
      PROVE  [Mutex!MutexNext]_(Mutex!mutexVars)
  <2> USE DEF HolderInv, Mutex!mutexVars, Mutex!MutexNext
  <2>1. CASE Stays
    <3>1. Holder' = Holder
      BY <1>2, <2>1 DEF Stays
    <3>2. QED
      BY <2>1, <3>1 DEF Stays
  <2>2. ASSUME NEW s \in Slot, Starts(s) PROVE Mutex!Begin
    <3>1. Holder' = InstanceOf[s]
      BY <1>2, <2>2 DEF Starts
    <3>2. \A t \in Slot : ~Holding(t)
      BY <1>2, <2>2 DEF Starts
    <3>3. QED
      BY <1>2, <2>2, <3>1, <3>2 DEF Starts, Mutex!Begin
  <2>3. ASSUME NEW s \in Slot, Saves(s) PROVE Mutex!Save
    BY <1>2, <2>3 DEF Saves, Mutex!Save
  <2>4. ASSUME NEW s \in Slot, Ends(s) PROVE Mutex!End
    <3>1. \A t \in Slot : ~Holding(t)'
      BY <1>2, <2>4 DEF Ends
    <3>2. QED
      BY <1>2, <2>4, <3>1 DEF Ends, Mutex!End
  <2>5. ASSUME NEW i \in Instance, Dies(i)
        PROVE  Mutex!End \/ UNCHANGED Mutex!mutexVars
    <3>1. CASE \E s \in Slot : Holding(s) /\ InstanceOf[s] = i
      <4>1. \A t \in Slot : ~Holding(t)'
        BY <1>2, <2>5, <3>1 DEF Dies
      <4>2. QED
        BY <1>2, <2>5, <3>1, <4>1 DEF Dies, Mutex!End
    <3>2. CASE \A s \in Slot : Holding(s) => InstanceOf[s] # i
      <4>1. Holder' = Holder
        BY <1>2, <2>5, <3>2 DEF Dies
      <4>2. QED
        BY <2>5, <4>1 DEF Dies
    <3>3. QED
      BY <3>1, <3>2
  <2>6. QED
    BY <1>2, <2>1, <2>2, <2>3, <2>4, <2>5, EveryStepIsAMutexStep DEF MutexStep
<1>3. QED
  BY <1>1, <1>2, TypeCorrect, LeaseInvHolds, SaveInvHolds, HolderInvHolds, PTL
     DEF Spec, ImplementsMutex, Mutex!MutexSpec

=============================================================================
