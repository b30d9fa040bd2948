------------------------- MODULE SyncSchedulerProofs -------------------------
(***************************************************************************)
(* Proofs about SyncScheduler, for any number of schedules, requests,      *)
(* workers and job ids, and whatever goes wrong.                           *)
(***************************************************************************)
EXTENDS SyncScheduler, TLAPS

-----------------------------------------------------------------------------
(* Types. *)

(* The records a step writes. *)
LEMMA RecordTypes ==
    /\ NoJob \notin Job
    /\ New \in Row /\ Gone \in Row
    /\ AtRest \in Reload /\ NoRun \in Run
    /\ \A R \in Reload :
           /\ \A p \in {"idle", "clear", "list", "add", "put", "start"} :
                  [R EXCEPT !.pc = p] \in Reload
           /\ \A j \in Job, e \in Entry :
                  [pc |-> "put", todo |-> R.todo \ {j}, job |-> j,
                   entry |-> e] \in Reload
    /\ \A w \in Run : w.pc # "idle" =>
           /\ w.sched \in Schedule
           /\ \A p \in {"mark", "trigger", "next", "success", "failed",
                        "leave"} : [w EXCEPT !.pc = p] \in Run
           /\ \A n \in {"time", "empty"} :
                  [w EXCEPT !.pc = "success", !.next = n] \in Run
    /\ \A t \in Row :
           \A x \in {"never", "running", "success", "failed"} :
               [t EXCEPT !.status = x] \in Row
<1>1. NoJob \notin Job
  BY NamesAssumption DEF NoJob, Job
<1>2. New \in Row /\ Gone \in Row
  BY DEF New, Gone, Row
<1>3. AtRest \in Reload /\ NoRun \in Run
  BY DEF AtRest, Reload, NoRun, Run, NoJob
<1>4. \A R \in Reload :
          \A p \in {"idle", "clear", "list", "add", "put", "start"} :
              [R EXCEPT !.pc = p] \in Reload
  BY DEF Reload
<1>5. \A R \in Reload : \A j \in Job, e \in Entry :
          [pc |-> "put", todo |-> R.todo \ {j}, job |-> j, entry |-> e]
              \in Reload
  BY DEF Reload
<1>6. \A w \in Run : w.pc # "idle" =>
          /\ w.sched \in Schedule
          /\ \A p \in {"mark", "trigger", "next", "success", "failed",
                       "leave"} : [w EXCEPT !.pc = p] \in Run
          /\ \A n \in {"time", "empty"} :
                 [w EXCEPT !.pc = "success", !.next = n] \in Run
  <2> DEFINE Active == [pc : {"begin", "mark", "trigger", "next", "success",
                             "failed", "leave"},
                       sched : Schedule, next : {"time", "empty"}]
  <2>1. \A w \in Run : w.pc # "idle" => w \in Active
    BY DEF Run, NoRun
  <2>2. \A w \in Active :
            /\ w.sched \in Schedule
            /\ \A p \in {"mark", "trigger", "next", "success", "failed",
                         "leave"} : [w EXCEPT !.pc = p] \in Active
    OBVIOUS
  <2>3. \A w \in Active : \A n \in {"time", "empty"} :
            [w EXCEPT !.pc = "success", !.next = n] \in Active
    OBVIOUS
  <2>4. Active \subseteq Run
    BY DEF Run
  <2> HIDE DEF Active
  <2> QED
    BY <2>1, <2>2, <2>3, <2>4
<1>7. \A t \in Row : \A x \in {"never", "running", "success", "failed"} :
          [t EXCEPT !.status = x] \in Row
  BY DEF Row
<1> QED
  BY <1>1, <1>2, <1>3, <1>4, <1>5, <1>6, <1>7

(* Wanted asks for jobs; a reload that read the table has well-typed work. *)
LEMMA WantedJobs ==
    ASSUME TypeOK
    PROVE  /\ Wanted \subseteq Job
           /\ \A j \in Job : j \in Wanted <=>
                  row[j.sched].st = "on" /\ row[j.sched].expr = j.expr
           /\ \A j, k \in Wanted : j.sched = k.sched => j = k
  BY DEF TypeOK, Wanted, Job, Row

LEMMA ContinueType ==
    ASSUME NEW r \in Reloader, NEW todo \in SUBSET Job
    PROVE  /\ Continue(r, todo) \in Reload
           /\ Continue(r, todo).todo = todo
           /\ todo # {} => Continue(r, todo).pc = "add"
           /\ todo = {} => Continue(r, todo).pc \in {"idle", "start"}
  BY DEF Continue, AtRest, Reload, NoJob

(* The rows a request may write. *)
LEMMA WrittenRows ==
    ASSUME TypeOK, NEW s \in Schedule,
           NEW new \in Created(s) \cup Updated(s) \cup Deleted(s)
    PROVE  /\ new \in Row
           /\ new.status \in {"never", row[s].status}
           /\ new.st \notin {"on", "off"} => new.status = "never"
  BY DEF TypeOK, Created, Updated, Deleted, Gone, Row

LEMMA StatusTyped ==
    ASSUME TypeOK, NEW s \in Schedule,
           NEW x \in {"running", "success", "failed"},
           SetStatus(s, x)
    PROVE  /\ row' \in [Schedule -> Row]
           /\ \A t \in Schedule : /\ row'[t].st = row[t].st
                                  /\ row'[t].expr = row[t].expr
                                  /\ t # s => row'[t] = row[t]
           /\ row[s].st \in {"on", "off"} => row'[s].status = x
           /\ row[s].st \notin {"on", "off"} => row'[s] = row[s]
<1>1. [row[s] EXCEPT !.status = x] \in Row /\ row[s] \in Row
  BY RecordTypes DEF TypeOK
<1>2. CASE row[s].st \in {"on", "off"}
  <2>1. row' = [row EXCEPT ![s] = [row[s] EXCEPT !.status = x]]
    BY <1>2 DEF SetStatus
  <2> QED
    BY <1>1, <1>2, <2>1 DEF TypeOK, Row
<1>3. CASE row[s].st \notin {"on", "off"}
  <2>1. row' = row
    BY <1>3 DEF SetStatus
  <2> QED
    BY <1>3, <2>1 DEF TypeOK
<1> QED
  BY <1>2, <1>3

(* The step that preserves an invariant is shown action by action. *)
LEMMA TypeStep == TypeOK /\ [Next]_vars => TypeOK'
<1> SUFFICES ASSUME TypeOK, [Next]_vars PROVE TypeOK'
  OBVIOUS
<1> USE LimitAssumption
<1>1. ASSUME NEW r \in Request, WriteTable(r) PROVE TypeOK'
  <2>1. row' \in [Schedule -> Row]
    BY <1>1, WrittenRows DEF WriteTable, TypeOK
  <2>2. reload' \in [Reloader -> Reload]
    BY <1>1, RecordTypes DEF WriteTable, TypeOK, Reloader
  <2>3. events' \in 0..MaxEvents
    BY <1>1 DEF WriteTable, TypeOK
  <2>4. overlap' \in BOOLEAN
    BY <1>1 DEF WriteTable, TypeOK
  <2> QED
    BY <1>1, <2>1, <2>2, <2>3, <2>4 DEF WriteTable, TypeOK
<1>2. ASSUME NEW r \in Request, WriteAnswerLost(r) PROVE TypeOK'
  BY <1>2, WrittenRows DEF WriteAnswerLost, TypeOK
<1>3. ASSUME NEW s \in Schedule, CascadeDelete(s) PROVE TypeOK'
  BY <1>3, RecordTypes DEF CascadeDelete, TypeOK
<1>4. ASSUME NEW r \in Reloader, Clear(r) PROVE TypeOK'
  BY <1>4, RecordTypes DEF Clear, TypeOK
<1>5. ASSUME NEW r \in Reloader, List(r) PROVE TypeOK'
  BY <1>5, WantedJobs, ContinueType DEF List, TypeOK
<1>6. ASSUME NEW r \in Reloader, AddFunc(r) PROVE TypeOK'
  <2> DEFINE e == CHOOSE f \in Entry : cron[f] = NoJob
  <2>1. PICK j \in reload[r].todo :
            /\ cron' = [cron EXCEPT ![e] = j]
            /\ reload' = [reload EXCEPT ![r] =
                   [pc |-> "put", todo |-> @.todo \ {j}, job |-> j,
                    entry |-> e]]
    BY <1>6 DEF AddFunc
  <2>2. e \in Entry
    BY <1>6 DEF AddFunc
  <2>3. reload[r] \in Reload /\ j \in Job
    BY <2>1 DEF TypeOK, Reload
  <2> HIDE DEF e
  <2> QED
    BY <1>6, <2>1, <2>2, <2>3, RecordTypes DEF AddFunc, TypeOK
<1>7. ASSUME NEW r \in Reloader, PutEntry(r) PROVE TypeOK'
  <2>1. reload[r] \in Reload
    BY DEF TypeOK
  <2>2. /\ reload[r].todo \in SUBSET Job
        /\ reload[r].entry \in Entry \cup {NoEntry}
    BY <2>1 DEF Reload
  <2> QED
    BY <1>7, <2>2, ContinueType DEF PutEntry, TypeOK
<1>8. ASSUME NEW r \in Reloader, ListFails(r) PROVE TypeOK'
  BY <1>8, RecordTypes DEF ListFails, TypeOK
<1>9. CASE StartCron
  BY <1>9, RecordTypes DEF StartCron, TypeOK
<1>10. ASSUME NEW w \in Worker, Fire(w) PROVE TypeOK'
  <2>1. PICK e \in Entry :
            /\ cron[e] # NoJob
            /\ run' = [run EXCEPT ![w] = [pc |-> "begin",
                   sched |-> cron[e].sched, next |-> "empty"]]
    BY <1>10 DEF Fire
  <2>2. [pc |-> "begin", sched |-> cron[e].sched, next |-> "empty"] \in Run
    BY <2>1 DEF TypeOK, Job, Run
  <2> QED
    BY <1>10, <2>1, <2>2 DEF Fire, TypeOK
<1>11. ASSUME NEW w \in Worker, Enter(w) PROVE TypeOK'
  <2>1. run[w] \in Run /\ run[w].sched \in Schedule
    BY <1>11, RecordTypes DEF Enter, TypeOK
  <2>2. run' \in [Worker -> Run]
    BY <1>11, <2>1, RecordTypes DEF Enter, TypeOK
  <2>3. running' \subseteq Schedule
    BY <1>11, <2>1 DEF Enter, TypeOK
  <2> QED
    BY <1>11, <2>2, <2>3 DEF Enter, TypeOK
<1>12. ASSUME NEW w \in Worker, MarkRunning(w) PROVE TypeOK'
  <2>1. run[w] \in Run /\ run[w].sched \in Schedule
    BY <1>12, RecordTypes DEF MarkRunning, TypeOK
  <2>2. row' \in [Schedule -> Row]
    BY <1>12, <2>1, StatusTyped DEF MarkRunning, TypeOK
  <2>3. run' \in [Worker -> Run]
    BY <1>12, <2>1, RecordTypes DEF MarkRunning, TypeOK
  <2> QED
    BY <1>12, <2>2, <2>3 DEF MarkRunning, TypeOK
<1>13. ASSUME NEW w \in Worker, TriggerSync(w) PROVE TypeOK'
  <2>1. run[w] \in Run /\ run[w].pc # "idle"
    BY <1>13 DEF TriggerSync, TypeOK
  <2>2. PICK to \in {"next", "failed"} : run' = [run EXCEPT ![w].pc = to]
    BY <1>13 DEF TriggerSync
  <2>3. run' \in [Worker -> Run]
    BY <2>1, <2>2, RecordTypes DEF TypeOK
  <2> QED
    BY <1>13, <2>3 DEF TriggerSync, TypeOK
<1>14. ASSUME NEW w \in Worker, ReadNext(w) PROVE TypeOK'
  BY <1>14, RecordTypes DEF ReadNext, TypeOK
<1>15. ASSUME NEW w \in Worker, WriteEnd(w) PROVE TypeOK'
  <2>1. run[w] \in Run /\ run[w].sched \in Schedule
    BY <1>15, RecordTypes DEF WriteEnd, TypeOK
  <2>2. row' \in [Schedule -> Row]
    BY <1>15, <2>1, StatusTyped DEF WriteEnd, TypeOK
  <2>3. run' \in [Worker -> Run]
    BY <1>15, <2>1, RecordTypes DEF WriteEnd, TypeOK
  <2>4. cut' \subseteq Schedule
    BY <1>15, <2>1 DEF WriteEnd, TypeOK
  <2> QED
    BY <1>15, <2>2, <2>3, <2>4 DEF WriteEnd, TypeOK
<1>16. ASSUME NEW w \in Worker, Leave(w) PROVE TypeOK'
  BY <1>16, RecordTypes DEF Leave, TypeOK
<1>17. CASE Crash
  <2>1. reload' \in [Reloader -> Reload]
    BY <1>17, RecordTypes DEF Crash
  <2>2. events' \in 0..MaxEvents
    BY <1>17 DEF Crash, TypeOK
  <2>3. run' \in [Worker -> Run]
    BY <1>17, RecordTypes DEF Crash
  <2>4. cron' \in [Entry -> Job \cup {NoJob}]
    BY <1>17 DEF Crash
  <2>5. entries' \in [Schedule -> Entry \cup {NoEntry}]
    BY <1>17 DEF Crash
  <2> QED
    BY <1>17, <2>1, <2>2, <2>3, <2>4, <2>5 DEF Crash, TypeOK
<1>18. CASE UNCHANGED vars
  BY <1>18 DEF vars, TypeOK
<1> QED
  BY <1>1, <1>2, <1>3, <1>4, <1>5, <1>6, <1>7, <1>8, <1>9, <1>10, <1>11,
     <1>12, <1>13, <1>14, <1>15, <1>16, <1>17, <1>18
     DEF Next, ReloadStep, RunStep

-----------------------------------------------------------------------------
(* The map and the jobs. *)

(* Steps that leave the jobs, the map and the reloads alone. *)
Elsewhere ==
    \/ \E r \in Request : WriteAnswerLost(r)
    \/ \E s \in Schedule : CascadeDelete(s)
    \/ \E w \in Worker : Fire(w) \/ RunStep(w)
    \/ UNCHANGED vars

LEMMA ElsewhereFrame == Elsewhere => UNCHANGED <<cron, entries, reload>>
BY DEF Elsewhere, WriteAnswerLost, CascadeDelete, Fire, RunStep, Enter,
       MarkRunning, TriggerSync, ReadNext, WriteEnd, Leave, vars

LEMMA EntryStep == TypeOK /\ TypeOK' /\ EntryInv /\ [Next]_vars => EntryInv'
<1> SUFFICES ASSUME TypeOK, TypeOK', EntryInv, [Next]_vars PROVE EntryInv'
  OBVIOUS
<1> USE NamesAssumption
<1>1. ASSUME NEW r \in Request, WriteTable(r) PROVE EntryInv'
  BY <1>1 DEF WriteTable, EntryInv, NoDanglingEntry, TypeOK, Reloader
<1>2. ASSUME NEW r \in Reloader, Clear(r) PROVE EntryInv'
  <2>1. NoDanglingEntry'
    BY <1>2 DEF Clear, NoDanglingEntry
  <2>2. \A q \in Reloader : reload'[q].pc = "put" =>
            reload'[q] = reload[q] /\ reload[q].pc = "put"
    BY <1>2 DEF Clear, TypeOK
  <2>3. \A q \in Reloader : reload[q].pc = "put" =>
            /\ cron'[reload[q].entry] = cron[reload[q].entry]
            /\ \A s \in Schedule : entries'[s] # reload[q].entry
    BY <1>2 DEF Clear, EntryInv, TypeOK
  <2> QED
    BY <2>1, <2>2, <2>3 DEF EntryInv
<1>3. ASSUME NEW r \in Reloader, List(r) PROVE EntryInv'
  <2>1. Continue(r, Wanted).pc # "put"
    BY WantedJobs, ContinueType
  <2> QED
    BY <1>3, <2>1 DEF List, EntryInv, NoDanglingEntry, TypeOK
<1>4. ASSUME NEW r \in Reloader, AddFunc(r) PROVE EntryInv'
  <2> DEFINE e == CHOOSE f \in Entry : cron[f] = NoJob
  <2>1. e \in Entry /\ cron[e] = NoJob
    BY <1>4 DEF AddFunc
  <2>2. PICK j \in reload[r].todo :
            /\ cron' = [cron EXCEPT ![e] = j]
            /\ reload' = [reload EXCEPT ![r] =
                   [pc |-> "put", todo |-> @.todo \ {j}, job |-> j,
                    entry |-> e]]
    BY <1>4 DEF AddFunc
  <2>3. j \in Job /\ NoJob \notin Job /\ NoJob.sched \notin Schedule
    <3>1. reload[r].todo \subseteq Job
      BY DEF TypeOK, Reload
    <3>2. NoJob.sched = NoSchedule
      BY DEF NoJob
    <3> QED
      BY <2>2, <3>1, <3>2, RecordTypes
  <2> HIDE DEF e
  <2>4. entries' = entries
    BY <1>4 DEF AddFunc
  <2>5. \A s \in Schedule : entries[s] # e
    BY <2>1, <2>3 DEF EntryInv, NoDanglingEntry
  <2>6. NoDanglingEntry'
    BY <2>1, <2>2, <2>4, <2>5 DEF EntryInv, NoDanglingEntry, TypeOK
  <2>7. \A q \in Reloader \ {r} :
            /\ reload'[q] = reload[q]
            /\ reload[q].pc = "put" =>
                   /\ reload[q].entry # e
                   /\ cron'[reload[q].entry] = cron[reload[q].entry]
    BY <2>1, <2>2, <2>3 DEF EntryInv, TypeOK
  <2>8. /\ reload'[r].entry = e /\ reload'[r].job = j
        /\ cron'[e] = j
    BY <2>1, <2>2 DEF TypeOK
  <2> QED
    BY <2>1, <2>3, <2>4, <2>5, <2>6, <2>7, <2>8 DEF EntryInv
<1>5. ASSUME NEW r \in Reloader, PutEntry(r) PROVE EntryInv'
  <2>1. reload[r].todo \in SUBSET Job
    BY DEF TypeOK, Reload
  <2>2. Continue(r, reload[r].todo).pc # "put"
    BY <2>1, ContinueType
  <2>3. /\ reload[r].job.sched \in Schedule
        /\ cron[reload[r].entry].sched = reload[r].job.sched
    BY <1>5 DEF PutEntry, EntryInv, Job
  <2>4. NoDanglingEntry'
    BY <1>5, <2>3 DEF PutEntry, EntryInv, NoDanglingEntry, TypeOK
  <2>5. \A q \in Reloader : reload'[q].pc = "put" =>
            q # r /\ reload'[q] = reload[q]
    BY <1>5, <2>2 DEF PutEntry, TypeOK
  <2>6. \A q \in Reloader : reload'[q].pc = "put" =>
            \A s \in Schedule : entries'[s] # reload[q].entry
    BY <1>5, <2>3, <2>5 DEF PutEntry, EntryInv, TypeOK
  <2>7. cron' = cron
    BY <1>5 DEF PutEntry
  <2> QED
    BY <2>4, <2>5, <2>6, <2>7 DEF EntryInv
<1>6. ASSUME NEW r \in Reloader, ListFails(r) PROVE EntryInv'
  BY <1>6 DEF ListFails, AtRest, EntryInv, NoDanglingEntry, TypeOK
<1>7. CASE StartCron
  BY <1>7 DEF StartCron, AtRest, EntryInv, NoDanglingEntry, TypeOK, Reloader
<1>8. CASE Crash
  <2>1. \A r \in Reloader : reload'[r].pc # "put"
    BY <1>8 DEF Crash, AtRest
  <2> QED
    BY <1>8, <2>1 DEF Crash, EntryInv, NoDanglingEntry
<1>9. CASE Elsewhere
  BY <1>9, ElsewhereFrame DEF EntryInv, NoDanglingEntry
<1> QED
  BY <1>1, <1>2, <1>3, <1>4, <1>5, <1>6, <1>7, <1>8, <1>9
     DEF Next, ReloadStep, Elsewhere

-----------------------------------------------------------------------------
(* Every job the table asks for. *)

LEMMA WantedSame ==
    ASSUME \A t \in Schedule : /\ row'[t].st = row[t].st
                               /\ row'[t].expr = row[t].expr
    PROVE  Wanted' = Wanted
BY DEF Wanted

(* The steps of runSchedule do not touch what the table asks for. *)
LEMMA RunFrame ==
    ASSUME TypeOK, \/ \E w \in Worker : Fire(w) \/ RunStep(w)
                   \/ UNCHANGED vars
    PROVE  /\ Wanted' = Wanted
           /\ UNCHANGED <<cron, entries, reload, missed, overlap>>
<1>1. ASSUME NEW w \in Worker, MarkRunning(w) \/ WriteEnd(w)
      PROVE  Wanted' = Wanted
  <2>1. run[w].sched \in Schedule
    BY <1>1, RecordTypes DEF MarkRunning, WriteEnd, TypeOK
  <2>2. \/ \E x \in {"running", "success", "failed"} :
               SetStatus(run[w].sched, x)
        \/ row' = row
    BY <1>1 DEF MarkRunning, WriteEnd
  <2>3. \A t \in Schedule : /\ row'[t].st = row[t].st
                             /\ row'[t].expr = row[t].expr
    BY <2>1, <2>2, StatusTyped
  <2> QED
    BY <2>3, WantedSame
<1>2. ASSUME UNCHANGED row PROVE Wanted' = Wanted
  BY <1>2, WantedSame
<1> QED
  BY <1>1, <1>2 DEF Fire, RunStep, Enter, MarkRunning, TriggerSync, ReadNext,
                    WriteEnd, Leave, vars

LEMMA CoverStep ==
    TypeOK /\ TypeOK' /\ CoverInv /\ [Next]_vars => CoverInv'
<1> SUFFICES ASSUME TypeOK, TypeOK', CoverInv, [Next]_vars PROVE CoverInv'
  OBVIOUS
<1> USE NamesAssumption
<1>1. ASSUME NEW r \in Request, WriteTable(r) PROVE CoverInv'
  BY <1>1 DEF WriteTable, CoverInv, Idle, TypeOK, Reloader
<1>2. ASSUME NEW r \in Reloader, Clear(r) PROVE CoverInv'
  BY <1>2 DEF Clear, CoverInv, TypeOK
<1>3. ASSUME NEW r \in Reloader, List(r) PROVE CoverInv'
  <2>1. /\ reload' = [reload EXCEPT ![r] = Continue(r, Wanted)]
        /\ Continue(r, Wanted).todo = Wanted
        /\ Continue(r, Wanted).pc \notin {"add", "put"} => Wanted = {}
    BY <1>3, WantedJobs, ContinueType DEF List
  <2>2. Wanted' = Wanted
    BY <1>3, WantedSame DEF List
  <2> QED
    BY <2>1, <2>2 DEF CoverInv, TypeOK
<1>4. ASSUME NEW r \in Reloader, AddFunc(r) PROVE CoverInv'
  <2> DEFINE e == CHOOSE f \in Entry : cron[f] = NoJob
  <2>1. e \in Entry /\ cron[e] = NoJob
    BY <1>4 DEF AddFunc
  <2>2. PICK j \in reload[r].todo :
            /\ cron' = [cron EXCEPT ![e] = j]
            /\ reload' = [reload EXCEPT ![r] =
                   [pc |-> "put", todo |-> @.todo \ {j}, job |-> j,
                    entry |-> e]]
    BY <1>4 DEF AddFunc
  <2> HIDE DEF e
  <2>3. Wanted' = Wanted /\ missed' = missed
    BY <1>4, WantedSame DEF AddFunc
  <2>4. \A k \in Wanted : Scheduled(k) => Scheduled(k)'
    BY <2>1, <2>2, WantedJobs, RecordTypes DEF Scheduled, TypeOK
  <2>5. Scheduled(j)'
    BY <2>1, <2>2 DEF Scheduled, TypeOK
  <2>6. /\ reload[r].pc = "add"
        /\ reload'[r].pc = "put" /\ reload'[r].todo = reload[r].todo \ {j}
        /\ \A q \in Reloader \ {r} : reload'[q] = reload[q]
    BY <1>4, <2>2 DEF AddFunc, TypeOK
  <2> QED
    BY <2>3, <2>4, <2>5, <2>6 DEF CoverInv
<1>5. ASSUME NEW r \in Reloader, PutEntry(r) PROVE CoverInv'
  <2>1. reload[r].todo \in SUBSET Job
    BY DEF TypeOK, Reload
  <2>2. /\ reload'[r].todo = reload[r].todo
        /\ reload'[r].pc \notin {"add", "put"} => reload[r].todo = {}
        /\ reload[r].pc = "put"
        /\ \A q \in Reloader \ {r} : reload'[q] = reload[q]
    BY <1>5, <2>1, ContinueType DEF PutEntry, TypeOK
  <2>3. Wanted' = Wanted /\ UNCHANGED <<cron, missed>>
    BY <1>5, WantedSame DEF PutEntry
  <2> QED
    BY <2>2, <2>3 DEF CoverInv, Scheduled
<1>6. ASSUME NEW r \in Reloader, ListFails(r) PROVE CoverInv'
  BY <1>6 DEF ListFails, AtRest, CoverInv, TypeOK
<1>7. CASE StartCron
  <2>1. Wanted' = Wanted
    BY <1>7, WantedSame DEF StartCron
  <2> QED
    BY <1>7, <2>1 DEF StartCron, AtRest, CoverInv, Scheduled, TypeOK, Reloader
<1>8. CASE Crash
  <2>1. reload'[Boot].pc = "clear" /\ Boot \in Reloader
    BY <1>8 DEF Crash, AtRest, Reloader
  <2>2. \A r \in Reloader : reload'[r].todo = {}
    BY <1>8 DEF Crash, AtRest
  <2> QED
    BY <2>1, <2>2 DEF CoverInv
<1>9. ASSUME NEW r \in Request, WriteAnswerLost(r) PROVE CoverInv'
  BY <1>9 DEF WriteAnswerLost, CoverInv
<1>10. ASSUME NEW s \in Schedule, CascadeDelete(s) PROVE CoverInv'
  BY <1>10 DEF CascadeDelete, CoverInv
<1>11. CASE (\E w \in Worker : Fire(w) \/ RunStep(w)) \/ UNCHANGED vars
  BY <1>11, RunFrame DEF CoverInv, Scheduled
<1> QED
  BY <1>1, <1>2, <1>3, <1>4, <1>5, <1>6, <1>7, <1>8, <1>9, <1>10, <1>11
     DEF Next, ReloadStep

-----------------------------------------------------------------------------
(* Exactness while reloads do not overlap. *)

LEMMA ExactStep ==
    TypeOK /\ TypeOK' /\ EntryInv /\ CoverInv /\ ExactInv /\ [Next]_vars
        => ExactInv'
<1> SUFFICES ASSUME TypeOK, TypeOK', EntryInv, CoverInv, ExactInv,
                    [Next]_vars, ~overlap'
             PROVE  /\ OneReload' /\ MapExact' /\ NothingLeft' /\ AddedOnce'
                    /\ ~missed' => AsTheTableSays'
  BY DEF ExactInv
<1> DEFINE Exact == /\ OneReload /\ MapExact /\ NothingLeft /\ AddedOnce
                    /\ ~missed => AsTheTableSays
<1> USE NamesAssumption
<1>0. \A e \in Entry : cron[e] # NoJob => cron[e].sched \in Schedule
  BY DEF TypeOK, Job
<1>1. ASSUME NEW r \in Request, WriteTable(r) PROVE Exact'
  <2>1. Exact /\ Quiet
    BY <1>1 DEF WriteTable, ExactInv
  <2>2. /\ r \in Reloader /\ reload'[r].pc = "clear"
        /\ \A q \in Reloader : reload'[q].todo = {} /\ reload[q].pc = "idle"
        /\ \A q \in Reloader \ {r} : reload'[q] = reload[q]
        /\ UNCHANGED <<cron, entries>>
    BY <1>1, <2>1 DEF WriteTable, Quiet, Idle, CoverInv, TypeOK, Reloader
  <2>3. OneReload' /\ NothingLeft' /\ AddedOnce' /\ AsTheTableSays'
    BY <2>2 DEF OneReload, NothingLeft, AddedOnce, AsTheTableSays, Idle
  <2>4. MapExact'
    BY <2>1, <2>2 DEF MapExact
  <2> QED
    BY <2>3, <2>4
<1>2. ASSUME NEW r \in Reloader, Clear(r) PROVE Exact'
  <2>1. Exact
    BY <1>2 DEF Clear, ExactInv
  <2>2. \A q \in Reloader \ {r} : reload'[q] = reload[q] /\ Idle(q)
    BY <1>2, <2>1 DEF Clear, OneReload, Idle, TypeOK
  <2>3. reload[r].pc = "clear" /\ reload'[r].pc = "list"
    BY <1>2 DEF Clear, TypeOK
  <2>4. \A q \in Reloader : reload'[q].todo = {}
    BY <2>2, <2>3, <1>2 DEF Clear, CoverInv, TypeOK, Idle
  <2>5. \A e \in Entry : cron'[e] = NoJob
    <3>1. \A e \in Entry : cron[e] # NoJob => entries[cron[e].sched] = e
      BY <2>1, <2>2, <2>3 DEF MapExact, Idle
    <3> QED
      BY <1>0, <1>2, <3>1 DEF Clear
  <2>6. \A s \in Schedule : entries'[s] = NoEntry
    BY <1>2 DEF Clear
  <2>7. OneReload' /\ MapExact' /\ NothingLeft' /\ AddedOnce'
    BY <2>2, <2>3, <2>4, <2>5, <2>6
       DEF OneReload, MapExact, NothingLeft, AddedOnce, Idle
  <2>8. AsTheTableSays'
    BY <2>4, <2>5 DEF AsTheTableSays
  <2> QED
    BY <2>7, <2>8
<1>3. ASSUME NEW r \in Reloader, List(r) PROVE Exact'
  <2>1. Exact
    BY <1>3 DEF List, ExactInv
  <2>2. /\ reload'[r].todo = Wanted
        /\ reload'[r].pc \in {"add", "idle", "start"}
        /\ UNCHANGED <<cron, entries>>
        /\ reload[r].pc = "list"
        /\ \A q \in Reloader \ {r} : reload'[q] = reload[q]
    BY <1>3, WantedJobs, ContinueType DEF List, TypeOK
  <2>3. \A q \in Reloader \ {r} : Idle(q) /\ reload[q].todo = {}
    BY <2>1, <2>2 DEF OneReload, Idle, CoverInv
  <2>4. /\ \A e \in Entry : cron'[e] = NoJob
        /\ \A s \in Schedule : entries'[s] = NoEntry
    BY <2>1, <2>2 DEF NothingLeft
  <2>5. Wanted' = Wanted
    BY <1>3, WantedSame DEF List
  <2>6. OneReload' /\ MapExact' /\ NothingLeft'
    BY <2>2, <2>3, <2>4 DEF OneReload, MapExact, NothingLeft, Idle
  <2>7. AddedOnce'
    BY <2>2, <2>3, <2>4, WantedJobs DEF AddedOnce, Idle, Job
  <2>8. AsTheTableSays'
    BY <2>2, <2>3, <2>4, <2>5 DEF AsTheTableSays
  <2> QED
    BY <2>6, <2>7, <2>8
<1>4. ASSUME NEW r \in Reloader, AddFunc(r) PROVE Exact'
  <2> DEFINE e == CHOOSE f \in Entry : cron[f] = NoJob
  <2>1. Exact
    BY <1>4 DEF AddFunc, ExactInv
  <2>2. e \in Entry /\ cron[e] = NoJob
    BY <1>4 DEF AddFunc
  <2>3. PICK j \in reload[r].todo :
            /\ cron' = [cron EXCEPT ![e] = j]
            /\ reload' = [reload EXCEPT ![r] =
                   [pc |-> "put", todo |-> @.todo \ {j}, job |-> j,
                    entry |-> e]]
    BY <1>4 DEF AddFunc
  <2> HIDE DEF e
  <2>4. /\ reload[r].pc = "add" /\ entries' = entries
        /\ reload'[r].pc = "put" /\ reload'[r].entry = e
        /\ reload'[r].job = j /\ reload'[r].todo = reload[r].todo \ {j}
        /\ \A q \in Reloader \ {r} : reload'[q] = reload[q]
        /\ Wanted' = Wanted /\ missed' = missed
        /\ cron'[e] = j /\ \A f \in Entry \ {e} : cron'[f] = cron[f]
    BY <1>4, <2>2, <2>3, WantedSame DEF AddFunc, TypeOK
  <2>5. \A q \in Reloader \ {r} : Idle(q)
    BY <2>1, <2>4 DEF OneReload, Idle
  <2>6. OneReload' /\ NothingLeft'
    BY <2>4, <2>5 DEF OneReload, NothingLeft, Idle
  <2>7. MapExact'
    BY <2>1, <2>2, <2>4, <2>5 DEF MapExact, Idle
  <2>8. AddedOnce'
    BY <2>1, <2>3, <2>4, <2>5 DEF AddedOnce, Idle
  <2>9. ~missed' => AsTheTableSays'
    BY <2>1, <2>3, <2>4, <2>5 DEF AsTheTableSays, Idle
  <2> QED
    BY <2>6, <2>7, <2>8, <2>9
<1>5. ASSUME NEW r \in Reloader, PutEntry(r) PROVE Exact'
  <2>1. Exact
    BY <1>5 DEF PutEntry, ExactInv
  <2> DEFINE e == reload[r].entry
             j == reload[r].job
  <2>2. reload[r].todo \in SUBSET Job
    BY DEF TypeOK, Reload
  <2>3. /\ e \in Entry /\ j \in Job /\ j.sched \in Schedule
        /\ cron[e] = j /\ cron' = cron
        /\ reload[r].pc = "put"
        /\ entries' = [entries EXCEPT ![j.sched] = e]
        /\ Wanted' = Wanted /\ missed' = missed
    BY <1>5, WantedSame DEF PutEntry, EntryInv, Job
  <2>4. /\ reload'[r].todo = reload[r].todo
        /\ reload'[r].pc \in {"add", "idle", "start"}
        /\ \A q \in Reloader \ {r} : reload'[q] = reload[q]
    BY <1>5, <2>2, ContinueType DEF PutEntry, TypeOK
  <2>5. \A q \in Reloader \ {r} : Idle(q) /\ reload[q].todo = {}
    BY <2>1, <2>3 DEF OneReload, Idle, CoverInv
  <2>6. OneReload' /\ NothingLeft'
    BY <2>4, <2>5 DEF OneReload, NothingLeft, Idle
  <2>7. MapExact'
    <3> SUFFICES ASSUME NEW f \in Entry, cron[f] # NoJob
                 PROVE  entries'[cron[f].sched] = f
      BY <2>3 DEF MapExact
    <3>1. CASE f = e
      BY <2>3, <3>1 DEF TypeOK
    <3>2. CASE f # e
      <4>1. entries[cron[f].sched] = f
        BY <2>1, <2>5, <3>2 DEF MapExact, Idle
      <4>2. entries[j.sched] = NoEntry
        BY <2>1, <2>3 DEF AddedOnce
      <4> QED
        BY <1>0, <2>3, <4>1, <4>2 DEF TypeOK
    <3> QED
      BY <3>1, <3>2
  <2>8. AddedOnce'
    BY <2>1, <2>2, <2>3, <2>4, <2>5 DEF AddedOnce, Idle, TypeOK, Job
  <2>9. ~missed' => AsTheTableSays'
    BY <2>1, <2>3, <2>4, <2>5 DEF AsTheTableSays, Idle
  <2> QED
    BY <2>6, <2>7, <2>8, <2>9
<1>6. ASSUME NEW r \in Reloader, ListFails(r) PROVE Exact'
  <2>1. Exact
    BY <1>6 DEF ListFails, ExactInv
  <2>2. /\ reload[r].pc = "list" /\ missed' = TRUE
        /\ reload'[r].pc = "idle" /\ reload'[r].todo = {}
        /\ \A q \in Reloader \ {r} : reload'[q] = reload[q]
        /\ UNCHANGED <<cron, entries>>
    BY <1>6 DEF ListFails, AtRest, TypeOK
  <2> QED
    BY <2>1, <2>2
       DEF OneReload, MapExact, NothingLeft, AddedOnce, Idle
<1>7. CASE StartCron
  <2>1. Exact
    BY <1>7 DEF StartCron, ExactInv
  <2>2. /\ reload[Boot].pc = "start" /\ Boot \in Reloader
        /\ reload'[Boot].pc = "idle" /\ reload'[Boot].todo = {}
        /\ \A q \in Reloader \ {Boot} : reload'[q] = reload[q]
        /\ Wanted' = Wanted /\ UNCHANGED <<cron, entries, missed>>
    BY <1>7, WantedSame DEF StartCron, AtRest, TypeOK, Reloader
  <2>3. OneReload' /\ MapExact' /\ NothingLeft' /\ AddedOnce'
    BY <2>1, <2>2
       DEF OneReload, MapExact, NothingLeft, AddedOnce, Idle
  <2>4. ~missed' => AsTheTableSays'
    BY <2>1, <2>2 DEF AsTheTableSays
  <2> QED
    BY <2>3, <2>4
<1>8. CASE Crash
  <2>1. /\ \A e \in Entry : cron'[e] = NoJob
        /\ \A r \in Reloader : /\ reload'[r].todo = {}
                               /\ reload'[r].pc \in {"clear", "idle"}
                               /\ r # Boot => reload'[r].pc = "idle"
    BY <1>8 DEF Crash, AtRest
  <2>2. OneReload'
    BY <2>1 DEF OneReload, Idle
  <2>3. MapExact' /\ NothingLeft' /\ AddedOnce'
    BY <2>1 DEF MapExact, NothingLeft, AddedOnce
  <2>4. AsTheTableSays'
    BY <2>1 DEF AsTheTableSays
  <2> QED
    BY <2>2, <2>3, <2>4
<1>9. ASSUME \/ \E r \in Request : WriteAnswerLost(r)
             \/ \E s \in Schedule : CascadeDelete(s)
      PROVE  Exact'
  <2>1. missed' = TRUE /\ UNCHANGED <<cron, entries, reload, overlap>>
    BY <1>9 DEF WriteAnswerLost, CascadeDelete
  <2> QED
    BY <2>1 DEF ExactInv, OneReload, MapExact, NothingLeft, AddedOnce, Idle
<1>10. CASE (\E w \in Worker : Fire(w) \/ RunStep(w)) \/ UNCHANGED vars
  <2>1. /\ Wanted' = Wanted
        /\ UNCHANGED <<cron, entries, reload, missed, overlap>>
    BY <1>10, RunFrame
  <2> QED
    BY <2>1 DEF ExactInv, OneReload, MapExact, NothingLeft, AddedOnce,
                AsTheTableSays, Idle
<1> QED
  BY <1>1, <1>2, <1>3, <1>4, <1>5, <1>6, <1>7, <1>8, <1>9, <1>10
     DEF Next, ReloadStep

-----------------------------------------------------------------------------
(* Runs. *)

(* Steps of requests and reloads, with runs alone; none sets "running". *)
LEMMA TableFrame ==
    ASSUME TypeOK, RunInv,
           \/ \E r \in Request : WriteTable(r) \/ WriteAnswerLost(r)
           \/ \E s \in Schedule : CascadeDelete(s)
           \/ \E r \in Reloader : ReloadStep(r) \/ ListFails(r)
           \/ StartCron
           \/ UNCHANGED vars
    PROVE  /\ UNCHANGED <<run, running, cut>>
           /\ \A s \in Schedule :
                  /\ row'[s].status \in {"never", row[s].status}
                  /\ row'[s].st \notin {"on", "off"}
                         => row'[s].status = "never"
<1> DEFINE Good == \A s \in Schedule :
                       /\ row'[s].status \in {"never", row[s].status}
                       /\ row'[s].st \notin {"on", "off"}
                              => row'[s].status = "never"
<1>1. ASSUME NEW r \in Request, WriteTable(r) \/ WriteAnswerLost(r)
      PROVE  Good
  <2>1. PICK s \in Schedule :
            \E new \in Created(s) \cup Updated(s) \cup Deleted(s) :
                row' = [row EXCEPT ![s] = new]
    BY <1>1 DEF WriteTable, WriteAnswerLost
  <2>2. PICK new \in Created(s) \cup Updated(s) \cup Deleted(s) :
            row' = [row EXCEPT ![s] = new]
    BY <2>1
  <2> QED
    BY <2>2, WrittenRows DEF RunInv, TypeOK
<1>2. ASSUME NEW s \in Schedule, CascadeDelete(s) PROVE Good
  BY <1>2 DEF CascadeDelete, Gone, RunInv, TypeOK
<1>3. ASSUME UNCHANGED row PROVE Good
  BY <1>3 DEF RunInv
<1> HIDE DEF Good
<1>4. Good
  BY <1>1, <1>2, <1>3 DEF ReloadStep, Clear, List, AddFunc, PutEntry,
                          ListFails, StartCron, vars
<1>5. UNCHANGED <<run, running, cut>>
  BY DEF WriteTable, WriteAnswerLost, CascadeDelete, ReloadStep, Clear, List,
         AddFunc, PutEntry, ListFails, StartCron, vars
<1> QED
  BY <1>4, <1>5 DEF Good

LEMMA RunStepsInv == TypeOK /\ TypeOK' /\ RunInv /\ [Next]_vars => RunInv'
<1> SUFFICES ASSUME TypeOK, TypeOK', RunInv, [Next]_vars PROVE RunInv'
  OBVIOUS
<1>0. ASSUME NEW w \in Worker, run[w].pc # "idle"
      PROVE  run[w].sched \in Schedule
  BY <1>0, RecordTypes DEF TypeOK
<1>1. CASE \/ \E r \in Request : WriteTable(r) \/ WriteAnswerLost(r)
           \/ \E s \in Schedule : CascadeDelete(s)
           \/ \E r \in Reloader : ReloadStep(r) \/ ListFails(r)
           \/ StartCron
           \/ UNCHANGED vars
  <2>1. /\ UNCHANGED <<run, running, cut>>
        /\ \A s \in Schedule :
               /\ row'[s].status \in {"never", row[s].status}
               /\ row'[s].st \notin {"on", "off"} => row'[s].status = "never"
    BY <1>1, TableFrame
  <2>2. \A w \in Worker : run[w].pc = "leave" => run[w].sched \in Schedule
    BY <1>0
  <2> QED
    BY <2>1, <2>2 DEF RunInv, StatusCovered, InRun
<1>2. ASSUME NEW w \in Worker, Fire(w) PROVE RunInv'
  <2>1. /\ run[w].pc = "idle" /\ run'[w].pc = "begin"
        /\ \A v \in Worker \ {w} : run'[v] = run[v]
        /\ UNCHANGED <<row, running, cut>>
    BY <1>2 DEF Fire, TypeOK
  <2> QED
    BY <2>1 DEF RunInv, StatusCovered, InRun
<1>3. ASSUME NEW w \in Worker, Enter(w) PROVE RunInv'
  <2>1. CASE run[w].sched \in running
    <3>1. /\ run'[w].pc = "idle"
          /\ \A v \in Worker \ {w} : run'[v] = run[v]
          /\ UNCHANGED <<row, running, cut>>
      BY <1>3, <2>1 DEF Enter, NoRun, TypeOK
    <3> QED
      BY <3>1 DEF RunInv, StatusCovered, InRun
  <2>2. CASE run[w].sched \notin running
    <3>1. /\ run'[w].pc = "mark" /\ run'[w].sched = run[w].sched
          /\ \A v \in Worker \ {w} : run'[v] = run[v]
          /\ running' = running \cup {run[w].sched}
          /\ UNCHANGED <<row, cut>>
      <4>1. run' = [run EXCEPT ![w].pc = "mark"]
        BY <1>3, <2>2 DEF Enter
      <4> QED
        BY <1>3, <2>2, <4>1 DEF Enter, TypeOK, Run
    <3> QED
      BY <2>2, <3>1 DEF RunInv, StatusCovered, InRun
  <2> QED
    BY <2>1, <2>2
<1>4. ASSUME NEW w \in Worker, MarkRunning(w) PROVE RunInv'
  <2>1. /\ run[w].pc = "mark" /\ run'[w].pc = "trigger"
        /\ run'[w].sched = run[w].sched /\ run[w].sched \in Schedule
        /\ \A v \in Worker \ {w} : run'[v] = run[v]
        /\ UNCHANGED <<running, cut>>
    BY <1>0, <1>4 DEF MarkRunning, TypeOK, Run
  <2>2. /\ \A s \in Schedule \ {run[w].sched} : row'[s] = row[s]
        /\ \A s \in Schedule : row'[s].st = row[s].st
        /\ row[run[w].sched].st \notin {"on", "off"}
               => row'[run[w].sched] = row[run[w].sched]
    BY <1>4, <2>1, StatusTyped DEF MarkRunning
  <2>3. run[w].sched \in running
    BY <2>1 DEF RunInv, InRun
  <2>4. \A v \in Worker : run'[v].pc = "leave" =>
            /\ v # w /\ run[v].sched # run[w].sched
            /\ run[v].sched \in Schedule
    BY <1>0, <2>1 DEF RunInv, InRun
  <2>5. StatusCovered'
    BY <2>1, <2>2, <2>3 DEF RunInv, StatusCovered
  <2> QED
    BY <2>1, <2>2, <2>4, <2>5 DEF RunInv, InRun
<1>5. ASSUME NEW w \in Worker, TriggerSync(w) PROVE RunInv'
  <2>1. /\ run[w].pc = "trigger" /\ run'[w].pc \in {"next", "failed"}
        /\ run'[w].sched = run[w].sched
        /\ \A v \in Worker \ {w} : run'[v] = run[v]
        /\ UNCHANGED <<row, running, cut>>
    <3>1. PICK to \in {"next", "failed"} : run' = [run EXCEPT ![w].pc = to]
      BY <1>5 DEF TriggerSync
    <3> QED
      BY <1>5, <3>1 DEF TriggerSync, TypeOK, Run
  <2> QED
    BY <2>1 DEF RunInv, StatusCovered, InRun
<1>6. ASSUME NEW w \in Worker, ReadNext(w) PROVE RunInv'
  <2>1. /\ run[w].pc = "next" /\ run'[w].pc = "success"
        /\ run'[w].sched = run[w].sched
        /\ \A v \in Worker \ {w} : run'[v] = run[v]
        /\ UNCHANGED <<row, running, cut>>
    BY <1>6 DEF ReadNext, TypeOK, Run
  <2> QED
    BY <2>1 DEF RunInv, StatusCovered, InRun
<1>7. ASSUME NEW w \in Worker, WriteEnd(w) PROVE RunInv'
  <2> DEFINE s == run[w].sched
  <2>1. /\ run[w].pc \in {"success", "failed"} /\ run'[w].pc = "leave"
        /\ run'[w].sched = s /\ s \in Schedule
        /\ \A v \in Worker \ {w} : run'[v] = run[v]
        /\ running' = running
    BY <1>0, <1>7 DEF WriteEnd, TypeOK, Run
  <2>2. s \in running
    BY <2>1 DEF RunInv, InRun
  <2>3. /\ \A t \in Schedule \ {s} : row'[t] = row[t]
        /\ \A t \in Schedule : row'[t].st = row[t].st
        /\ row[s].st \notin {"on", "off"} => row'[s] = row[s]
        /\ \A t \in Schedule \ {s} : t \in cut <=> t \in cut'
        /\ row'[s].status # "running" \/ s \in cut'
    <3>1. CASE SetStatus(s, run[w].pc) /\ cut' = cut \ {s}
      <4>1. row[s].st \notin {"on", "off"} => row[s].status = "never"
        BY <2>1 DEF RunInv
      <4> QED
        BY <2>1, <3>1, <4>1, StatusTyped
    <3>2. CASE UNCHANGED row /\ cut' = cut \cup {s}
      BY <3>2
    <3> QED
      BY <1>7, <3>1, <3>2 DEF WriteEnd
  <2>4. \A v \in Worker \ {w} : run[v].pc = "leave" =>
            run[v].sched # s /\ run[v].sched \in Schedule
    BY <1>0, <2>1 DEF RunInv, InRun
  <2> HIDE DEF s
  <2>5. StatusCovered'
    BY <2>1, <2>2, <2>3 DEF RunInv, StatusCovered
  <2>6. \A v \in Worker : InRun(v)' =>
            InRun(v) /\ run'[v].sched = run[v].sched
    BY <2>1 DEF InRun, s
  <2> QED
    BY <2>1, <2>3, <2>4, <2>5, <2>6 DEF RunInv
<1>8. ASSUME NEW w \in Worker, Leave(w) PROVE RunInv'
  <2> DEFINE s == run[w].sched
  <2>1. /\ run[w].pc = "leave" /\ run'[w].pc = "idle"
        /\ \A v \in Worker \ {w} : run'[v] = run[v]
        /\ running' = running \ {s} /\ UNCHANGED <<row, cut>>
    BY <1>8 DEF Leave, NoRun, TypeOK
  <2>2. /\ row[s].status # "running" \/ s \in cut
        /\ \A v \in Worker \ {w} : InRun(v) => run[v].sched # s
    BY <2>1 DEF RunInv, InRun
  <2> HIDE DEF s
  <2> QED
    BY <2>1, <2>2 DEF RunInv, StatusCovered, InRun
<1>9. CASE Crash
  <2>1. /\ \A w \in Worker : run'[w].pc = "idle"
        /\ cut' = cut \cup running /\ UNCHANGED row
    BY <1>9 DEF Crash, NoRun
  <2> QED
    BY <2>1 DEF RunInv, StatusCovered, InRun
<1> QED
  BY <1>1, <1>2, <1>3, <1>4, <1>5, <1>6, <1>7, <1>8, <1>9
     DEF Next, RunStep

(* The deferred function takes the entry out with the run that made it.    *)
LEMMA RunningStep ==
    TypeOK /\ RunningHasRun /\ [Next]_vars => RunningHasRun'
<1> SUFFICES ASSUME TypeOK, RunningHasRun, [Next]_vars PROVE RunningHasRun'
  OBVIOUS
<1>1. CASE UNCHANGED <<run, running>>
  BY <1>1 DEF RunningHasRun, InRun
<1>2. ASSUME NEW w \in Worker, Fire(w) \/ RunStep(w) PROVE RunningHasRun'
  <2>1. \A v \in Worker \ {w} : run'[v] = run[v]
    BY <1>2 DEF RunStep, Fire, Enter, MarkRunning, TriggerSync, ReadNext,
                WriteEnd, Leave, TypeOK
  <2>2. /\ running' \subseteq running \cup {run[w].sched}
        /\ run[w].sched \in running' /\ InRun(w)
               => InRun(w)' /\ run'[w].sched = run[w].sched
        /\ run[w].sched \in running' \ running
               => InRun(w)' /\ run'[w].sched = run[w].sched
    <3>1. CASE Fire(w)
      BY <3>1 DEF Fire, InRun, TypeOK
    <3>2. CASE Enter(w)
      <4>1. run[w].pc = "begin"
        BY <3>2 DEF Enter
      <4>2. CASE run[w].sched \in running
        BY <3>2, <4>1, <4>2 DEF Enter, InRun
      <4>3. CASE run[w].sched \notin running
        <5>1. /\ run' = [run EXCEPT ![w].pc = "mark"]
              /\ running' = running \cup {run[w].sched}
          BY <3>2, <4>3 DEF Enter
        <5>2. run'[w].pc = "mark" /\ run'[w].sched = run[w].sched
          BY <4>1, <5>1 DEF TypeOK, Run
        <5> QED
          BY <5>1, <5>2 DEF InRun
      <4> QED
        BY <4>2, <4>3
    <3>3. CASE TriggerSync(w)
      <4>1. PICK to \in {"next", "failed"} : run' = [run EXCEPT ![w].pc = to]
        BY <3>3 DEF TriggerSync
      <4> QED
        BY <3>3, <4>1 DEF TriggerSync, InRun, TypeOK, Run
    <3>4. CASE MarkRunning(w) \/ ReadNext(w) \/ WriteEnd(w)
      <4>1. running' = running /\ run[w].pc \notin {"idle", "begin"}
        BY <3>4 DEF MarkRunning, ReadNext, WriteEnd
      <4>2. /\ run'[w].pc \in {"trigger", "success", "leave"}
            /\ run'[w].sched = run[w].sched
        <5>1. CASE MarkRunning(w)
          BY <5>1 DEF MarkRunning, TypeOK, Run
        <5>2. CASE ReadNext(w)
          BY <5>2 DEF ReadNext, TypeOK, Run
        <5>3. CASE WriteEnd(w)
          BY <5>3 DEF WriteEnd, TypeOK, Run
        <5> QED
          BY <3>4, <5>1, <5>2, <5>3
      <4> QED
        BY <4>1, <4>2 DEF InRun
    <3>5. CASE Leave(w)
      BY <3>5 DEF Leave, InRun, TypeOK
    <3> QED
      BY <1>2, <3>1, <3>2, <3>3, <3>4, <3>5 DEF RunStep
  <2> QED
    BY <2>1, <2>2 DEF RunningHasRun, InRun
<1>3. CASE Crash
  BY <1>3 DEF Crash, RunningHasRun
<1> QED
  BY <1>1, <1>2, <1>3
     DEF Next, WriteTable, WriteAnswerLost, CascadeDelete, ReloadStep, Clear,
         List, AddFunc, PutEntry, ListFails, StartCron, vars

-----------------------------------------------------------------------------
(* The theorems. *)

SchedulerInv ==
    TypeOK /\ EntryInv /\ CoverInv /\ ExactInv /\ RunInv /\ RunningHasRun

LEMMA InitInv == Init => SchedulerInv
<1> SUFFICES ASSUME Init PROVE SchedulerInv
  OBVIOUS
<1>1. TypeOK
  <2>1. reload \in [Reloader -> Reload]
    BY RecordTypes DEF Init
  <2>2. events \in 0..MaxEvents
    BY LimitAssumption DEF Init
  <2>3. row \in [Schedule -> Row] /\ run \in [Worker -> Run]
    BY RecordTypes DEF Init
  <2> QED
    BY <2>1, <2>2, <2>3 DEF Init, TypeOK
<1>2. /\ \A r \in Reloader :
             /\ reload[r].pc \in {"clear", "idle"}
             /\ reload[r].todo = {}
             /\ r # Boot => reload[r].pc = "idle"
      /\ reload[Boot].pc = "clear" /\ Boot \in Reloader
      /\ \A e \in Entry : cron[e] = NoJob
      /\ \A s \in Schedule : entries[s] = NoEntry
  BY DEF Init, AtRest, Reloader
<1>3. EntryInv /\ CoverInv
  BY <1>2 DEF EntryInv, NoDanglingEntry, CoverInv
<1>4. OneReload /\ MapExact /\ NothingLeft
  BY <1>2 DEF OneReload, MapExact, NothingLeft, Idle
<1>5. AddedOnce /\ AsTheTableSays
  BY <1>2 DEF AddedOnce, AsTheTableSays
<1>6. RunInv
  BY DEF Init, New, NoRun, RunInv, StatusCovered, InRun
<1>7. RunningHasRun
  BY DEF Init, RunningHasRun
<1> QED
  BY <1>1, <1>3, <1>4, <1>5, <1>6, <1>7 DEF SchedulerInv, ExactInv

THEOREM SchedulerInvariant == Spec => []SchedulerInv
<1>1. SchedulerInv /\ [Next]_vars => SchedulerInv'
  BY TypeStep, EntryStep, CoverStep, ExactStep, RunStepsInv,
     RunningStep DEF SchedulerInv
<1> QED
  BY InitInv, <1>1, PTL DEF Spec

(* Types are kept, for any tables, requests, workers and hazards. *)
THEOREM SchedulerTypeCorrect == Spec => []TypeOK
<1>1. SchedulerInv => TypeOK
  BY DEF SchedulerInv
<1> QED
  BY <1>1, SchedulerInvariant, PTL

(* The map never leads to a removed job or to another schedule's job.      *)
THEOREM NoDanglingEntryHolds == Spec => []NoDanglingEntry
<1>1. SchedulerInv => NoDanglingEntry
  BY DEF SchedulerInv, EntryInv
<1> QED
  BY <1>1, SchedulerInvariant, PTL

(* Concurrent reloads may leave too many jobs, never too few.              *)
THEOREM EveryActiveIsScheduledHolds == Spec => []EveryActiveIsScheduled
<1>1. SchedulerInv => EveryActiveIsScheduled
  BY DEF SchedulerInv, CoverInv, EveryActiveIsScheduled, Quiet, Idle
<1> QED
  BY <1>1, SchedulerInvariant, PTL

(* Requests one after the other leave exactly the jobs of the table, or,   *)
(* when the table was not read, only jobs that the next reload removes.    *)
THEOREM SerialReloadsExactHolds == Spec => []SerialReloadsExact
<1>1. SchedulerInv => SerialReloadsExact
  BY DEF SchedulerInv, ExactInv, MapExact, AsTheTableSays,
         SerialReloadsExact, NoLeakedJob, Quiet, Idle
<1> QED
  BY <1>1, SchedulerInvariant, PTL

(* A schedule has one run at a time, and its row says "running" only       *)
(* during that run, or after one that could not write its end.             *)
THEOREM RunStatusSettlesHolds == Spec => []RunStatusSettles
<1>1. RunInv /\ RunningHasRun => RunStatusSettles
  BY DEF RunInv, RunningHasRun, StatusCovered, RunStatusSettles
<1>2. SchedulerInv => RunStatusSettles
  BY <1>1 DEF SchedulerInv
<1> QED
  BY <1>2, SchedulerInvariant, PTL

=============================================================================
