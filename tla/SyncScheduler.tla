---------------------------- MODULE SyncScheduler ----------------------------
(***************************************************************************)
(* Scheduled synchronisation in ONE server process                         *)
(* (internal/service/scheduler.go) and the requests that change the table  *)
(* sync_schedules (internal/api/sync_schedule_handler.go).                 *)
(*                                                                         *)
(* The scheduler keeps a copy of the table: one job of the cron library    *)
(* per active row, and the map entries from the row to its job.  Every     *)
(* request writes the table and then rebuilds the copy (reloadSchedules)   *)
(* in its own goroutine; entriesMu guards the map, not the rebuilding, so  *)
(* reloads interleave.  A job runs runSchedule, which writes the run's     *)
(* status to the row.  One step is one SQL statement or one critical       *)
(* section of entriesMu, runningMu or the cron library.  The order in      *)
(* which a reload adds its rows is left open.                              *)
(***************************************************************************)
EXTENDS Integers

CONSTANTS
    Schedule,     \* ids of sync_schedules; a UUID is never used twice
    Expr,         \* cron expressions the parser accepts
    Blank,        \* the empty expression
    Request,      \* create, update and delete requests served at once
    Boot,         \* the goroutine of main that calls Start
    Worker,       \* goroutines of the cron library
    Entry,        \* cron.EntryID; one that is free again may be given out
    NoEntry,
    NoSchedule,
    MaxEvents,    \* bound on writes to the table and deaths of the process
    Hazards       \* what may go wrong in this run, a subset of HazardKinds

HazardKinds == {
    "dberror",    \* a statement fails, its answer is lost, or the client
                  \* goes away and the request's context with it
    "crash",      \* the process dies and is started again
    "cascade",    \* a source is deleted, and with it its schedules
    "postgres" }  \* the database is Postgres, which refuses '' as a time

ASSUME NamesAssumption ==
    /\ Blank \notin Expr
    /\ Boot \notin Request
    /\ NoEntry \notin Entry
    /\ NoSchedule \notin Schedule

ASSUME LimitAssumption == MaxEvents \in Nat /\ Hazards \subseteq HazardKinds

VARIABLES
    row,       \* the table sync_schedules
    cron,      \* the jobs of the cron library
    entries,   \* the map from a schedule to its job
    reload,    \* how far each request, and Start, has come
    ticking,   \* cron.Start has been called
    run,       \* the goroutines that execute runSchedule
    running,   \* the schedules the map running holds
    events,    \* writes and deaths so far
    missed,    \* history: a change was not followed by a reload, or the
               \* reload failed, and no table was read since
    overlap,   \* history: two reloads overlapped since the start
    cut        \* history: schedules whose last run could not write its end

vars == <<row, cron, entries, reload, ticking, run, running, events, missed,
          overlap, cut>>

-----------------------------------------------------------------------------

Job == [sched : Schedule, expr : Expr]
NoJob == [sched |-> NoSchedule, expr |-> Blank]

Row == [st : {"new", "on", "off", "gone"}, expr : Expr \cup {Blank},
        status : {"never", "running", "success", "failed"}]
New == [st |-> "new", expr |-> Blank, status |-> "never"]
Gone == [st |-> "gone", expr |-> Blank, status |-> "never"]

Reloader == Request \cup {Boot}
Reload == [pc : {"idle", "clear", "list", "add", "put", "start"},
           todo : SUBSET Job, job : Job \cup {NoJob},
           entry : Entry \cup {NoEntry}]
AtRest == [pc |-> "idle", todo |-> {}, job |-> NoJob, entry |-> NoEntry]

NoRun == [pc |-> "idle", sched |-> NoSchedule, next |-> "empty"]
Run == {NoRun} \cup
       [pc : {"begin", "mark", "trigger", "next", "success", "failed",
              "leave"},
        sched : Schedule, next : {"time", "empty"}]

TypeOK ==
    /\ row \in [Schedule -> Row]
    /\ cron \in [Entry -> Job \cup {NoJob}]
    /\ entries \in [Schedule -> Entry \cup {NoEntry}]
    /\ reload \in [Reloader -> Reload]
    /\ ticking \in BOOLEAN
    /\ run \in [Worker -> Run]
    /\ running \subseteq Schedule
    /\ events \in 0..MaxEvents
    /\ missed \in BOOLEAN
    /\ overlap \in BOOLEAN
    /\ cut \subseteq Schedule

(* The jobs the table asks for: an active row whose expression parses. *)
Wanted == {[sched |-> s, expr |-> row[s].expr] :
              s \in {t \in Schedule : row[t].st = "on"
                                        /\ row[t].expr \in Expr}}

Idle(r) == reload[r].pc = "idle"

(* main starts the HTTP server after Start has returned. *)
Serving == Idle(Boot)

Quiet == \A r \in Reloader : Idle(r)

-----------------------------------------------------------------------------
(* The requests: write the table, then RefreshSchedules. *)

(* The rows CreateSchedule and UpdateSchedule may leave for s.  The        *)
(* expression is validated, except that an update to the empty string is   *)
(* not; an update changes the fields it names (COALESCE).                  *)
Created(s) ==
    IF row[s].st = "new"
    THEN [st : {"on", "off"}, expr : Expr, status : {"never"}]
    ELSE {}

Updated(s) ==
    IF row[s].st \in {"on", "off"}
    THEN [st : {"on", "off"}, expr : Expr \cup {Blank},
          status : {row[s].status}]
    ELSE {}

Deleted(s) == IF row[s].st \in {"on", "off"} THEN {Gone} ELSE {}

(* Mutant of WriteTable: the handler answers without RefreshSchedules. *)
WriteTableOnly(r) ==
    /\ Serving /\ Idle(r) /\ events < MaxEvents
    /\ \E s \in Schedule :
           \E new \in Created(s) \cup Updated(s) \cup Deleted(s) :
               row' = [row EXCEPT ![s] = new]
    /\ events' = events + 1
    /\ UNCHANGED <<cron, entries, reload, ticking, run, running, missed,
                   overlap, cut>>

(* A request changes the table and goes on to reload.  A request that is   *)
(* refused (bad expression, no such source or schedule) changes nothing.   *)
WriteTable(r) ==
    /\ Serving /\ Idle(r) /\ events < MaxEvents
    /\ \E s \in Schedule :
           \E new \in Created(s) \cup Updated(s) \cup Deleted(s) :
               row' = [row EXCEPT ![s] = new]
    /\ reload' = [reload EXCEPT ![r].pc = "clear"]
    /\ overlap' = (overlap \/ ~Quiet)
    /\ events' = events + 1
    /\ UNCHANGED <<cron, entries, ticking, run, running, missed, cut>>

(* The statement took effect and its answer was lost: the handler returns  *)
(* 500 before it reaches RefreshSchedules.                                 *)
WriteAnswerLost(r) ==
    /\ "dberror" \in Hazards
    /\ Serving /\ Idle(r) /\ events < MaxEvents
    /\ \E s \in Schedule :
           \E new \in Created(s) \cup Updated(s) \cup Deleted(s) :
               row' = [row EXCEPT ![s] = new]
    /\ missed' = TRUE
    /\ events' = events + 1
    /\ UNCHANGED <<cron, entries, reload, ticking, run, running, overlap,
                   cut>>

(* DeleteSource: ON DELETE CASCADE removes the row, nobody reloads. *)
CascadeDelete(s) ==
    /\ "cascade" \in Hazards
    /\ row[s].st \in {"on", "off"}
    /\ row' = [row EXCEPT ![s] = Gone]
    /\ missed' = TRUE
    /\ UNCHANGED <<cron, entries, reload, ticking, run, running, events,
                   overlap, cut>>

-----------------------------------------------------------------------------
(* reloadSchedules. *)

(* Mutant of Clear: the map is emptied, the jobs stay. *)
ClearMapOnly(r) ==
    /\ reload[r].pc = "clear"
    /\ entries' = [s \in Schedule |-> NoEntry]
    /\ reload' = [reload EXCEPT ![r].pc = "list"]
    /\ UNCHANGED <<row, cron, ticking, run, running, events, missed, overlap,
                   cut>>

(* Mutant of Clear: the jobs are removed, the map keeps their ids. *)
ClearJobsOnly(r) ==
    /\ reload[r].pc = "clear"
    /\ cron' = [e \in Entry |->
           IF \E s \in Schedule : entries[s] = e THEN NoJob ELSE cron[e]]
    /\ reload' = [reload EXCEPT ![r].pc = "list"]
    /\ UNCHANGED <<row, entries, ticking, run, running, events, missed,
                   overlap, cut>>

(* Under entriesMu: remove every job the map knows, and empty the map. *)
Clear(r) ==
    /\ reload[r].pc = "clear"
    /\ cron' = [e \in Entry |->
           IF \E s \in Schedule : entries[s] = e THEN NoJob ELSE cron[e]]
    /\ entries' = [s \in Schedule |-> NoEntry]
    /\ reload' = [reload EXCEPT ![r].pc = "list"]
    /\ UNCHANGED <<row, ticking, run, running, events, missed, overlap, cut>>

(* What follows when these rows are still to be added. *)
Continue(r, todo) ==
    [AtRest EXCEPT
        !.pc = IF todo # {} THEN "add"
               ELSE IF r = Boot THEN "start" ELSE "idle",
        !.todo = todo]

(* ListSyncSchedules; rows that are inactive, or whose expression AddFunc  *)
(* refuses (addCronJob returns the error and the loop goes on), add        *)
(* nothing.                                                                *)
List(r) ==
    /\ reload[r].pc = "list"
    /\ reload' = [reload EXCEPT ![r] = Continue(r, Wanted)]
    /\ missed' = FALSE
    /\ UNCHANGED <<row, cron, entries, ticking, run, running, events,
                   overlap, cut>>

(* The jobs are gone by now.  The handlers drop the error; main logs that  *)
(* Start failed and serves on, with a cron library that never ticks.       *)
ListFails(r) ==
    /\ "dberror" \in Hazards
    /\ reload[r].pc = "list"
    /\ reload' = [reload EXCEPT ![r] = AtRest]
    /\ missed' = TRUE
    /\ UNCHANGED <<row, cron, entries, ticking, run, running, events,
                   overlap, cut>>

(* addCronJob, first half: AddFunc gives the job a new id. *)
AddFunc(r) ==
    /\ reload[r].pc = "add"
    /\ \E e \in Entry : cron[e] = NoJob
    /\ LET e == CHOOSE e \in Entry : cron[e] = NoJob
       IN  \E j \in reload[r].todo :
               /\ cron' = [cron EXCEPT ![e] = j]
               /\ reload' = [reload EXCEPT ![r] =
                      [pc |-> "put", todo |-> @.todo \ {j}, job |-> j,
                       entry |-> e]]
    /\ UNCHANGED <<row, entries, ticking, run, running, events, missed,
                   overlap, cut>>

(* Second half, under entriesMu: the map now leads to this job, whatever   *)
(* it led to before.                                                       *)
PutEntry(r) ==
    /\ reload[r].pc = "put"
    /\ entries' = [entries EXCEPT ![reload[r].job.sched] = reload[r].entry]
    /\ reload' = [reload EXCEPT ![r] = Continue(r, reload[r].todo)]
    /\ UNCHANGED <<row, cron, ticking, run, running, events, missed, overlap,
                   cut>>

StartCron ==
    /\ reload[Boot].pc = "start"
    /\ reload' = [reload EXCEPT ![Boot] = AtRest]
    /\ ticking' = TRUE
    /\ UNCHANGED <<row, cron, entries, run, running, events, missed, overlap,
                   cut>>

-----------------------------------------------------------------------------
(* runSchedule. *)

(* The library starts a goroutine for a job that is due. *)
Fire(w) ==
    /\ ticking
    /\ run[w].pc = "idle"
    /\ \E e \in Entry :
           /\ cron[e] # NoJob
           /\ run' = [run EXCEPT ![w] =
                  [pc |-> "begin", sched |-> cron[e].sched,
                   next |-> "empty"]]
    /\ UNCHANGED <<row, cron, entries, reload, ticking, running, events,
                   missed, overlap, cut>>

(* Mutant of Enter: a schedule that is running already is not skipped. *)
EnterUnguarded(w) ==
    /\ run[w].pc = "begin"
    /\ running' = running \cup {run[w].sched}
    /\ run' = [run EXCEPT ![w].pc = "mark"]
    /\ UNCHANGED <<row, cron, entries, reload, ticking, events, missed,
                   overlap, cut>>

(* Under runningMu: at most one run of a schedule goes on. *)
Enter(w) ==
    /\ run[w].pc = "begin"
    /\ \/ /\ run[w].sched \in running
          /\ run' = [run EXCEPT ![w] = NoRun]
          /\ UNCHANGED running
       \/ /\ run[w].sched \notin running
          /\ running' = running \cup {run[w].sched}
          /\ run' = [run EXCEPT ![w].pc = "mark"]
    /\ UNCHANGED <<row, cron, entries, reload, ticking, events, missed,
                   overlap, cut>>

(* Mutant of SetStatus: a status the CHECK constraint does not know. *)
SetStatusDone(s, status) ==
    IF row[s].st \in {"on", "off"}
    THEN row' = [row EXCEPT ![s].status =
                     IF status = "success" THEN "done" ELSE status]
    ELSE UNCHANGED row

(* UpdateSyncScheduleRunStatus: a deleted schedule has no row to update. *)
SetStatus(s, status) ==
    IF row[s].st \in {"on", "off"}
    THEN row' = [row EXCEPT ![s].status = status]
    ELSE UNCHANGED row

(* The error of the first update is only logged. *)
MarkRunning(w) ==
    /\ run[w].pc = "mark"
    /\ \/ SetStatus(run[w].sched, "running")
       \/ "dberror" \in Hazards /\ UNCHANGED row
    /\ run' = [run EXCEPT ![w].pc = "trigger"]
    /\ UNCHANGED <<cron, entries, reload, ticking, running, events, missed,
                   overlap, cut>>

(* TriggerSync (module SyncLease) accepts the sync, which goes on in a     *)
(* goroutine of its own, or returns an error: no such source, a sync       *)
(* already in progress, a configuration that cannot be read.               *)
TriggerSync(w) ==
    /\ run[w].pc = "trigger"
    /\ \E to \in {"next", "failed"} :
           run' = [run EXCEPT ![w].pc = to]
    /\ UNCHANGED <<row, cron, entries, reload, ticking, running, events,
                   missed, overlap, cut>>

(* Under entriesMu: the next time of the job the map leads to; "" when a   *)
(* reload has just emptied it.                                             *)
ReadNext(w) ==
    /\ run[w].pc = "next"
    /\ run' = [run EXCEPT ![w].pc = "success",
                          ![w].next = IF entries[run[w].sched] = NoEntry
                                      THEN "empty" ELSE "time"]
    /\ UNCHANGED <<row, cron, entries, reload, ticking, running, events,
                   missed, overlap, cut>>

(* The update fails: in Postgres '' is no TIMESTAMPTZ. *)
WriteFails(w) ==
    \/ "dberror" \in Hazards
    \/ /\ "postgres" \in Hazards
       /\ run[w].pc = "success" /\ run[w].next = "empty"

(* The last update of the run; its error, too, is only logged. *)
WriteEnd(w) ==
    /\ run[w].pc \in {"success", "failed"}
    /\ \/ /\ ~("postgres" \in Hazards /\ run[w].pc = "success"
                 /\ run[w].next = "empty")
          /\ SetStatus(run[w].sched, run[w].pc)
          /\ cut' = cut \ {run[w].sched}
       \/ /\ WriteFails(w)
          /\ cut' = cut \cup {run[w].sched}
          /\ UNCHANGED row
    /\ run' = [run EXCEPT ![w].pc = "leave"]
    /\ UNCHANGED <<cron, entries, reload, ticking, running, events, missed,
                   overlap>>

(* The deferred function. *)
Leave(w) ==
    /\ run[w].pc = "leave"
    /\ running' = running \ {run[w].sched}
    /\ run' = [run EXCEPT ![w] = NoRun]
    /\ UNCHANGED <<row, cron, entries, reload, ticking, events, missed,
                   overlap, cut>>

-----------------------------------------------------------------------------

(* The process dies; the next one starts with nothing but the table. *)
Crash ==
    /\ "crash" \in Hazards
    /\ events < MaxEvents
    /\ events' = events + 1
    /\ cron' = [e \in Entry |-> NoJob]
    /\ entries' = [s \in Schedule |-> NoEntry]
    /\ reload' = [r \in Reloader |->
           [AtRest EXCEPT !.pc = IF r = Boot THEN "clear" ELSE "idle"]]
    /\ ticking' = FALSE
    /\ run' = [w \in Worker |-> NoRun]
    /\ running' = {}
    /\ cut' = cut \cup running
    /\ overlap' = FALSE
    /\ UNCHANGED <<row, missed>>

(* The first server of a new database; the next ones (Crash) start on the  *)
(* table their predecessors left.                                          *)
Init ==
    /\ row = [s \in Schedule |-> New]
    /\ cron = [e \in Entry |-> NoJob]
    /\ entries = [s \in Schedule |-> NoEntry]
    /\ reload = [r \in Reloader |->
           [AtRest EXCEPT !.pc = IF r = Boot THEN "clear" ELSE "idle"]]
    /\ ticking = FALSE
    /\ run = [w \in Worker |-> NoRun]
    /\ running = {}
    /\ events = 0
    /\ missed = FALSE
    /\ overlap = FALSE
    /\ cut = {}

ReloadStep(r) == Clear(r) \/ List(r) \/ AddFunc(r) \/ PutEntry(r)

RunStep(w) ==
    \/ Enter(w) \/ MarkRunning(w) \/ TriggerSync(w) \/ ReadNext(w)
    \/ WriteEnd(w) \/ Leave(w)

Next ==
    \/ \E r \in Request : WriteTable(r) \/ WriteAnswerLost(r)
    \/ \E s \in Schedule : CascadeDelete(s)
    \/ \E r \in Reloader : ReloadStep(r) \/ ListFails(r)
    \/ StartCron
    \/ \E w \in Worker : Fire(w) \/ RunStep(w)
    \/ Crash

Spec == Init /\ [][Next]_vars

-----------------------------------------------------------------------------
(* Properties. *)

(* The map leads to live jobs of the right schedule, and to no job twice,  *)
(* however reloads interleave: reloadSchedules never removes a job of      *)
(* another schedule or one it has not registered, and runSchedule never    *)
(* reads the next time of somebody else's job.                             *)
NoDanglingEntry ==
    \A s \in Schedule :
        entries[s] # NoEntry => cron[entries[s]].sched = s

Scheduled(j) == \E e \in Entry : cron[e] = j

(* However requests and their reloads interleave, once all of them have    *)
(* returned every active schedule has a job with its present expression:   *)
(* the reload that clears last also reads the table after the last change. *)
(* Excepted are changes no reload followed and reloads that failed.        *)
EveryActiveIsScheduled ==
    (Quiet /\ ~missed) => \A j \in Wanted : Scheduled(j)

(* Once all reloads have returned, every job belongs to an active row,     *)
(* with its present expression, and the map leads to it (reloadSchedules:  *)
(* "clear the existing jobs", then add the enabled ones).                  *)
NoLeakedJob ==
    (Quiet /\ ~missed) =>
        \A e \in Entry : cron[e] # NoJob =>
            cron[e] \in Wanted /\ entries[cron[e].sched] = e

(* That holds as long as requests come one after the other; and even when  *)
(* a change was not followed by a reload, as when a source was deleted, or *)
(* a reload failed, the map leads to every job that is left, so that the   *)
(* next reload removes it.                                                 *)
SerialReloadsExact ==
    ~overlap => /\ NoLeakedJob
                /\ Quiet => \A e \in Entry : cron[e] # NoJob
                                                => entries[cron[e].sched] = e

(* A goroutine past the guard of runSchedule. *)
InRun(w) == run[w].pc \notin {"idle", "begin"}

(* A schedule has one run at a time, however often it is due, and a row    *)
(* says "running" only while that run is under way, unless the run's       *)
(* process died or its last update failed (in Postgres: also because a     *)
(* reload had emptied the map).                                            *)
RunStatusSettles ==
    /\ \A v, w \in Worker :
           InRun(v) /\ InRun(w) /\ run[v].sched = run[w].sched => v = w
    /\ \A s \in Schedule : row[s].status = "running" =>
           s \in cut \/ \E w \in Worker : InRun(w) /\ run[w].sched = s

-----------------------------------------------------------------------------
(* Inductive strengthenings. *)

(* An id AddFunc has just given out is not in the map yet, and belongs to  *)
(* one reload.                                                             *)
EntryInv ==
    /\ NoDanglingEntry
    /\ \A r \in Reloader : reload[r].pc = "put" =>
           /\ reload[r].entry \in Entry
           /\ reload[r].job \in Job
           /\ cron[reload[r].entry] = reload[r].job
           /\ \A s \in Schedule : entries[s] # reload[r].entry
    /\ \A q, r \in Reloader :
           (/\ reload[q].pc = "put" /\ reload[r].pc = "put"
            /\ reload[q].entry = reload[r].entry) => q = r

(* A job the table asks for is there, is about to be added, or some reload *)
(* has yet to read the table.                                              *)
CoverInv ==
    /\ \A r \in Reloader :
           reload[r].pc \notin {"add", "put"} => reload[r].todo = {}
    /\ ~missed => \A j \in Wanted :
           \/ Scheduled(j)
           \/ \E r \in Reloader : \/ reload[r].pc \in {"clear", "list"}
                                  \/ j \in reload[r].todo

(* While reloads do not overlap ...                                        *)
OneReload == \A q, r \in Reloader : ~Idle(q) /\ ~Idle(r) => q = r

(* ... the map leads to every job but the one that is being put in, ...    *)
MapExact ==
    \A e \in Entry : cron[e] # NoJob =>
        \/ entries[cron[e].sched] = e
        \/ \E r \in Reloader : reload[r].pc = "put" /\ reload[r].entry = e

(* ... a reload that cleared the map has left no job, ...                  *)
NothingLeft ==
    \A r \in Reloader : reload[r].pc = "list" =>
        /\ \A e \in Entry : cron[e] = NoJob
        /\ \A s \in Schedule : entries[s] = NoEntry

(* ... each schedule is added once, ...                                    *)
AddedOnce ==
    \A r \in Reloader :
        /\ \A j \in reload[r].todo : entries[j.sched] = NoEntry
        /\ \A j, k \in reload[r].todo : j.sched = k.sched => j = k
        /\ reload[r].pc = "put" =>
               /\ entries[reload[r].job.sched] = NoEntry
               /\ \A j \in reload[r].todo : j.sched # reload[r].job.sched

(* ... and only what the table asks for.                                   *)
AsTheTableSays ==
    /\ \A r \in Reloader : reload[r].todo \subseteq Wanted
    /\ (\A r \in Reloader : reload[r].pc # "clear") =>
           \A e \in Entry : cron[e] # NoJob => cron[e] \in Wanted

ExactInv ==
    ~overlap => /\ OneReload /\ MapExact /\ NothingLeft /\ AddedOnce
                /\ ~missed => AsTheTableSays

(* What the map running holds is the schedule of a run, ...                *)
RunningHasRun ==
    \A s \in running : \E w \in Worker : InRun(w) /\ run[w].sched = s

(* ... and "running" in a row stands for an entry of that map, or is       *)
(* excused.                                                                *)
StatusCovered ==
    \A s \in Schedule : row[s].status = "running" => s \in running \cup cut

(* Past the guard a run has its schedule to itself, and when it leaves it  *)
(* has settled the status or is excused.                                   *)
RunInv ==
    /\ StatusCovered
    /\ \A s \in Schedule :
           row[s].st \notin {"on", "off"} => row[s].status = "never"
    /\ \A w \in Worker :
           /\ InRun(w) => run[w].sched \in running
           /\ run[w].pc = "leave" => \/ row[run[w].sched].status # "running"
                                     \/ run[w].sched \in cut
    /\ \A v, w \in Worker :
           InRun(v) /\ InRun(w) /\ run[v].sched = run[w].sched => v = w

=============================================================================
