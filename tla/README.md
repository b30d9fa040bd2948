# Verification of DataMapLite

TLA+ models of DataMapLite (the Go server under `internal/` and `cmd/datamap`,
and the session code of the web UI), with TLC runs on small instances and TLAPS
proofs for all instances.  They aim at what several goroutines, requests,
server processes or a crash decide: whether what people attached to a catalogue
survives, and whether what the system reports is what happened.

Contents: [what the system is](#the-system) ·
[what is modelled](#the-models) · [runs](#the-runs) · [fairness](#fairness) ·
[proofs](#the-proofs) · [what the code does not keep](#what-the-runs-found) ·
[what is left out](#what-is-not-modelled) · [plan](#plan)

Running it, in this directory:

    tlc -workers 2 -config catalog.cfg MCCatalogSystem
    tlapm CatalogProofs.tla

`PROJECT.json` lists the components, every run with its properties, for each
checked property a mutation of the model that violates it, the source lines of
each definition, the hazards and the theorems.

## The system

DataMapLite keeps a catalogue of the schemas of external databases. It *syncs*
a data source (scans it and stores objects and columns), records each
difference as a change, raises alerts for changes that match a rule, and sends
governance events to an external endpoint. One binary serves an HTTP API, an
MCP server and a web UI over SQLite or Postgres; several processes may share a
database (`README.md:215-250` of the repository describes this chain and the
faults repaired in it).

### Inventory

| Component | State it keeps | Operations | What is hard about it | What makes it correct |
|---|---|---|---|---|
| Source synchronisation (`service/source.go`, `store/*_reliability.go`) | `data_sources.status`, row of `sync_leases`, in-process map `syncInFlight`, renewal goroutines | `TriggerSync`, `beginSync`, `endSync`, `startSyncLeaseRenewal`, `handleLostSyncLease`, `ForceReleaseStaleSyncLease`, `DeleteSource` | two guards (map and row) taken and given up one after the other; leases run out under paused or dead processes; a check before the save, not in its transaction | one sync of a source at a time; no older scan over a newer one; map entry and row always given up; a dead process blocks for one TTL at most; status settles |
| Governance outbox (`service/governance_event.go`, `store/*_reliability.go`) | table `governance_outbox` | `Publish`, `ProcessOutbox` (claim, send, three marks), dispatcher, `ReplayOutboxEvent` | batches under one lease, marks by id only, retries, unknown outcome of a request | a recorded delivery happened; a row is in one batch; settled rows stay; every event settles |
| Sync scheduler (`service/scheduler.go`, `api/sync_schedule_handler.go`) | table `sync_schedules`, jobs of the cron library, map `entries`, map `running` | create/update/delete + `RefreshSchedules`, `Start`, `runSchedule` | reloads of concurrent requests interleave; the table may be stale when its rows are added; runs overlap | no active schedule without a job, no job without an active schedule, status of a run settles |
| Schema diff (`service/source.go` `saveSchema`, `store/*_schema.go`, `*_column.go`, `*_change.go`) | objects, columns, change log | one transaction per sync; `DeleteSource` in seven statements without one | matching by name, stable identifiers, removal cascades to tags, terms, mappings, lineage, rules | stored tree = last scan; following the change log gives the tree; annotations survive |
| Scanners (`internal/scanner`) | none; they read a database that changes | `ScanSchema`: list, then one query per object; MongoDB infers from a sample | a scan is no snapshot | a column that was there all the time is not dropped |
| Alerts (`service/alert.go`, `store/*_alert.go`) | rules, notifications, unread marks, webhook outcome | rule CRUD, `ProcessSchemaChange`, webhook with retries, marking as read | a goroutine per change against deletions, deaths and failing statements; lost answers; update in two steps | one notification per rule and change, for every user, unless its own statements failed; the outcome recorded is the one that happened |
| Data quality (`service/dq.go`, `dq_executor.go`) | rules, results | rule CRUD, run a check | counts of a table that changes, result read back by batch and rule, event in a goroutine | one result per rule; every failure announced |
| Lineage and impact (`service/metadata.go`, `store/*_mapping.go`) | mappings, edges | mapping CRUD, import of edges, recursive queries, impact analysis | cycles and diamonds, dangling edges, depth limit | readable; shortest distances |
| Terms and tags (`service/term.go`, `tag.go`), MCP tools (`mcpserver/server.go`) | terms, tags, assignments, audit events | CRUD, assignment, tools that write and then publish | check-then-act on names; two statements per deletion; several writes per call | foreign keys and unique names; event = what was written |
| Authentication (`service/auth.go`, `api/middleware.go`, `auth_handler.go`) | users; tokens in the hands of clients | login, refresh, registration, roles, deletion, first administrator | read, then sign or insert; roles live on in tokens | names unique; lost rights run out |
| Web session (`web/src/services/api.ts`, `auth/AuthContext.tsx`) | token pair in memory and `localStorage` | requests, shared refresh, bootstrap, login, logout | several 401 at once, logout during a refresh | no session after a logout |
| Start-up (`store/sqlite.go`, `postgres.go`, `cmd/datamap/main.go`) | tables, indexes, recorded versions | migrations, first administrator | several processes, deaths half-way, rebuilt tables | whoever serves has every table it needs; nothing lost |
| SQL validation, DDL generation; configuration, encryption, UI assets | none | text to text | nothing with state | – |

### How the parts meet

* The HTTP API, the MCP server and the scheduler call `TriggerSync`. It returns
  once the source is marked `syncing`; the work goes on in a goroutine.
* A sync that commits creates change records; each goes to
  `AlertService.ProcessChange` and, as an event, to
  `GovernanceEventService.Publish`.
* Processes never talk to each other: they meet in the tables. Within a process
  goroutines meet in `syncInFlight`, `entries` and `running`, each under a
  mutex of its own that is not held across a database call.
* Deleting a source removes its lease row and its schedules in the database
  (`ON DELETE CASCADE`); no process is told.
* Terms, tags, mappings, edges and quality rules hang on columns, columns on
  objects, objects on sources, most by foreign keys (`ON DELETE CASCADE`), lineage edges
  by nothing: they name nodes as text.

## The models

One step of a model is one SQL statement or transaction, one critical section
of a Go mutex, one reading of the clock or one channel operation; everything
between two of them that touches only a goroutine's own variables is folded
into the step before it. The models of leases, outbox and schedules name what
may go wrong as a set `Hazards`, so that a run says in its configuration what
it assumes. In those of the catalogue and of alerts a request can be cut short
at any time, and deaths and deletions are kinds of request among the others; the
loads of `alerts` with `dberror` let every statement of the alert goroutines fail.

### SyncLease, SyncMutex

`SyncLease` is the synchronisation of **one** source (sources share neither map
entry nor row, so one is enough) by several processes. A `Slot` is a place for
one `TriggerSync` call; `InstanceOf` says which process serves it.

| Model | Code |
|---|---|
| `flight` | the processes whose `syncInFlight` has the source |
| `lease` | the row of `sync_leases`: owner, `lease_until`, `updated_at` |
| `status` | `data_sources.status` (or `deleted`) |
| `pc[s]` | how far the call, later its goroutine, has come |
| `asked[s]` | the time read before the upsert of the lease |
| `ticker[s]` | the renewal goroutine: waiting, writing, told to stop |
| `scanned[s]`, `saved` | the times of the scan in hand and of the scan stored |
| `forcing` | the forced release between its check and its delete |
| `now`, `alive`, `diedAt` | clock, processes, history |
| `cut` | history: a sync died with the source marked, and none has marked it since |
| `BeginSync`, `TryAcquireSyncLease`, `AcquireFails`, `Refused` | `beginSync` |
| `PrepareFails`, `MarkSyncing` | the rest of `TriggerSync` with its early returns |
| `StartWorker` … `LostStatus` | the goroutine: scan, lease checks before and after `saveSchema`, status, `handleLostSyncLease` |
| `StopRenewal`, `EndLocal`, `EndLease` | the deferred functions, in their order |
| `TickerFires`, `RenewSyncLease`, `TickerStops` | `startSyncLeaseRenewal` |
| `ForceCheck`, `ForceRelease` | `ForceReleaseStaleSyncLease` |
| `DeleteSource`, `Crash`, `Tick` | environment |

Time is a discrete clock shared by processes and database. Without the hazard
`delay` the clock moves only while the external database is scanned or the
result is saved and never past a renewal that is due (`Prompt`): this is what
"a process is prompt" means throughout. With `delay` any process may sleep
between any two steps. A restarted process is a new one, because
`NewSourceService` draws a fresh `ownerID`.

`SyncMutex` is what `TriggerSync` promises: a holder, or none; only a holder
saves; no save replaces a later scan. `SyncLease` implements it with
`holder <- Holder` (the process whose call believes it has the lease).

### GovernanceOutbox

The table, and any number of goroutines inside `ProcessOutbox` (called by the
dispatcher of each process and by `Publish`).

| Model | Code |
|---|---|
| `row[e]` | status, `attempt_count`, what is left until `next_attempt_at` and `lease_until`, `last_error` |
| `batch[w]` | `attempt_count`, as claimed, of the rows a sender has still to send |
| `job[w]` | where the sender is: idle, flush, batch, sending, answered |
| `accepted` | history: what the endpoint has taken |
| `Publish` | insertion (ignored if the `event_id` is there), then a flush |
| `Claim` | `ClaimGovernanceOutboxEvents` with its `WHERE` (`Due`) and `LIMIT` (`Batches`) |
| `StartSend`, `Acknowledged`, `SendFails` | `sendEvent` |
| `MarkDelivered`, `MarkRetry`, `MarkDeadLetter` | the three marks, by id |
| `Replay`, `Crash`, `Tick` | `ReplayOutboxEvent`, environment |

Times count down, so no bound on time is needed: `wait` and `lease` are what is
left until the time in the row. `attempt_count` stops counting at `MaxAttempts`
because the code only compares it with that. A failed request may have been
taken by the endpoint (`SendFails`). `lease_owner` is written and never read,
and so left out.

`EventDelivery` is what the outbox promises, without leases, times or batches:
an event has a fate (`unpublished`, `open`, `delivered`, `dead_letter`), a
number of attempts and the hands it is in. Only the one sender that took an
open event sends it; it then delivers it (the endpoint has received it), gives
it up (after `MaxAttempts` attempts) or puts it back; a death drops what was in
hand. `GovernanceOutbox` implements it with

| `EventDelivery` | `GovernanceOutbox` |
|---|---|
| `fate[e]` | the status in the row, `pending` and `processing` both `open` |
| `tries[e]` | `attempt_count` |
| `hands[e]` | the senders that have `e` in their batch |
| `received` | `accepted` |

The abstract `Finish` looks at who has the event and at its fate; the marks of
the code look at nothing but the id. That they amount to the same is what the
refinement says, and what a batch that outlives its lease breaks.

### SyncScheduler

One process and the table. Start-up (`Boot`) and each request are reloaders.

| Model | Code |
|---|---|
| `row` | `sync_schedules`: active or not, expression, status of the last run |
| `cron` | jobs of the cron library by `EntryID` |
| `entries` | the map from schedule to job, under `entriesMu` |
| `reload[r]` | how far a request's `reloadSchedules` has come, and the rows it read |
| `ticking` | `cron.Start` has been called |
| `run`, `running` | goroutines in `runSchedule`, and the map under `runningMu` |
| `missed`, `overlap`, `cut` | history: a change without reload; reloads that overlapped; runs that could not write their end |
| `WriteTable`, `WriteAnswerLost`, `CascadeDelete` | the three requests; their statement with its answer lost; a deleted source |
| `Clear`, `List`, `ListFails`, `AddFunc`, `PutEntry` | `reloadSchedules` and `addCronJob` |
| `StartCron` | the end of `Start` |
| `Fire`, `Enter`, `MarkRunning`, `TriggerSync`, `ReadNext`, `WriteEnd`, `Leave` | a job that is due, and `runSchedule` |
| `Crash` | the process dies and starts again |

`List` keeps only the rows that will become jobs (`Wanted`: active, and with an
expression the parser accepts); the order in which they are added is open. An
update to the empty expression is accepted by the handler, and refused only by
`AddFunc`. With the hazard `postgres` the last update of a run fails when the
next time is `""`, as it is while a reload has emptied the map.

### The catalogue: MetadataStore, Catalog, Scanner, Lineage, Glossary, Quality, CatalogSystem

Everything that shares the tables of the catalogue. `MetadataStore` has no
variables: it gives the tables as a record `db` of functions, and each SQL
statement of `internal/store` as an operator from a database to a database,
under the name of the store's method (`CreateColumnMapping`,
`DeleteLineageEdgesByNode`, …), with its cascades. The other modules have the
services, and `CatalogSystem` lets their requests interleave and states the
properties.

| Model | Code |
|---|---|
| `db` | the tables |
| `req[c]` | a request of several statements: what it has read, how far it is |
| `live[s]` | the external database, which changes during a scan |
| `CreateSource`, `UpdateSourceRead/Write` | settings of a source; the encrypted connection is rebuilt from the row read |
| `DeleteSource`, `DeleteSourceColumns` … `DeleteSourceRow` | the statements of `store.DeleteDataSource`, which can end between any two |
| `SavedSchema`, `ChangeRecords` | the transaction of `saveSchema`: `NewObjects`, `NewColumns`, `Altered`, `GoneObjects`, `GoneColumns` are its comparison |
| `StartScan`, `ScanObject`, `SaveScanned`, `inferCollectionSchema` | `ScanSchema` query by query; types and confidence inferred from a sample |
| `MapColumns`, `ImportEdge`, `GetLineageDownward`, `ImpactAnalysis` | mappings, edges, the recursive queries, the walk with its queue |
| `CreateTerm` … `RemoveTag` | terms and tags; `DeleteTermClear/Row`, `CreateTagCheck/Insert`, `UpdateTagCheck/Write` are requests of two statements |
| `McpCreateTag` … `McpPublish` | MCP tools; `audit` the events they hand to the publisher |
| `StartCheck`, `CountAll`, `CountFailing`, `CheckFails`, `ReadBack`, `CheckAnswers` | a quality check; `PublishFailure` the goroutine that announces |
| `AbortRequest` | a request ends between two statements: an error, a cancelled context, a death |
| `lastScan`, `mirror`, `written`, `doomed`, `torn`, … | history variables |

A column is identified by object, name and the scan that created it, as a UUID
would: dropped and found again it is another one. The connection of a source is
the record the code encrypts. What `saveSchema` compares of a column (type,
nullability, keys, …) is one value, its confidence another, because only the
latter is normalised on the way (0 becomes 1).

### Accounts, WebSession, Alerts, StartUp, AlertsSystem

Who uses the system and what he is told.

| Model | Code |
|---|---|
| `users`, `tokens`, `clock` | table, tokens signed so far, time in ticks |
| `calls[c]` | a request between its read and its write: login, refresh, registration, rule update |
| `starting[p]` | a process: migrations, then `bootstrapAdmin`, then serving (`"up"`) |
| `disk` | tables, indexes, recorded versions and old notifications of the database it opens |
| `rules`, `notes`, `inbox` | alert rules, notifications, unread marks |
| `jobs[ch]` | the goroutine of `ProcessSchemaChange`: the rules left, the users left, the attempts of the webhook |
| `MatchRules`, `NextRule`, `ListUsers`, `NotifyUser`, `Taken` … `RecordStatus` | its steps; a webhook may be taken, refused, or taken with the answer lost |
| `MatchFails`, `NextRuleFails`, `ListUsersFails`, `NotifyUserFails`, `RecordStatusFails` | the same statements failing, a busy or lost database being enough: the goroutine gives up the change, the rule or the rest of the users, as the code does |
| `matched`, `audience`, `cut`, `failed` | history: what each goroutine had to find, whom each notification was meant for, what a death or a deleted user cut short, what a failing statement did |
| `DeleteSourceObjects`, `DeleteSourceChanges`, `DeleteSource` | the statements of `DeleteDataSource`, which share no transaction |
| `memory`, `stored`, `refreshing`, `pending`, `boot` | the browser tab |
| `OpenSQLite` … `Rebuild`, the migrations of Postgres | `NewSQLiteStore`, `runSQLitePostMigrations`, `NewPostgresStore` |

`WebSession` shares nothing with the other three: the server is whatever may
answer. It is in the same system because it needs no run of its own.

A statement that fails may have been done all the same, its answer lost.
`CreateNotification` returns its error after the notification is stored as well
as before; `createNotification` then reads the notification back and, if it
finds it, goes on with the webhook (`AfterError`). So a failing statement has
up to three outcomes: nothing stored, stored and the webhook called, stored and
the rule given up. `MatchRules` is the two reads with which `ProcessSchemaChange`
begins; `MatchFails` is the failure of either.

`disk.has` names what a database may lack: the tables of 001, `sync_leases` and
`governance_outbox` (`"leases"`), `sync_schedules` (`"schedules"`), the unique
index, the fields of a term. Which statement brings which is what `StartUp` is
about: the built-in schema of SQLite has all tables, the schema file those of
001, and `runSQLitePostMigrations` adds the leases to both (`CreatePostTables`).

## The runs

Properties are named as in the modules, where each has a comment that states it.

| Run | What it asks | Instance |
|---|---|---|
| `sync_prompt` | with prompt processes that may die at any step: `NoConcurrentSync`, `NobodyLeftSyncing`, `ImplementsMutex`, `TypeOK` | 3 processes, one call each, clock to 4 |
| `sync_faulty` | whatever goes wrong: `FlagExact`, `OrphanLeaseExpires`, `LiveLeaseNotTakenOver` | 2 processes, all hazards, clock to 3 |
| `sync_ends` | liveness: `FlagReleased`, `LeaseGivenUp` | 1 process, 2 calls, pauses, clock to 2 |
| `outbox_prompt` | when batches fit into the lease: `ImplementsDelivery`, `DeadLetterEarned`, `SettledIsFinal`, and liveness `EveryEventSettles` | 2 senders, 2 events, one may die |
| `outbox_faulty` | whatever goes wrong: `DeliveredWasAccepted`, `TypeOK` | 2 senders, 2 events, all hazards |
| `schedule_reload` | whatever goes wrong: `NoDanglingEntry`, `EveryActiveIsScheduled`, `SerialReloadsExact`, `RunStatusSettles`, `TypeOK` | 2 schedules, 2 requests, 2 runs, 2 changes or deaths |
| `catalog` | what people attached survives (`ScansKeepAnnotations`, `EvidentColumnsSurvive`, `ReferentialIntegrity`); the stored tree and the change log are exact (`TreeIsLastScan`, `ChangeLogReplays`, `RescanIsQuiet`); lineage can be read and the impact is right (`LineageBreaksOnlyByDeletion`, `ImpactIsShortestDistance`); reports are true (`HostShownIsHostUsed`, `McpAuditMatchesWrites`, `OneResultPerRule`, `FailuresAreAnnounced`) | 11 loads, see below |
| `alerts` | people and rules (`PeopleIntegrity`, `RightsExpire`, `ScopeAgrees`), deliveries (`EveryMatchNotified`, `InboxComplete`, `WebhookAccount`), the browser (`SessionEndsAtLogout`), start-up (`StartsMigrated`) | 22 loads, see below |
| `sync_end_order`, `sync_force`, `outbox_slow`, `schedule_leak` | statements of the repository that do not hold, see [below](#what-the-runs-found) | each the smallest instance that shows it |

**Bounds, and why they are enough.**

* *SyncLease.* The unit is 5 s: TTL 10 s = 2, renewal every unit, stale after
  20 s = 4. `MaxClock` 4 is two leases one after the other, so a lease can run
  out, be taken over, and run out again. Three processes: one that dies, one
  that takes over, one that competes for the same row. `sync_faulty` has
  `StaleAfter` 2 (the least the assumption allows), so that a forced release
  happens before its clock ends. `sync_ends` needs no second process: what is
  in doubt is that a process's own paths end. Slots and processes that are
  interchangeable are declared symmetric, but not in the liveness run.
* *GovernanceOutbox.* The unit is the request timeout (5 s), the lease three
  units (15 s). `Limit` 2 and two events give batches of none, one and both
  rows. The code has `Limit` 8 and 16 and 5 attempts; 3 attempts contain a
  first, a middle and a last one. In `outbox_faulty` attempts are 2 and the
  lease 2, to make room for replays and pauses.
* *SyncScheduler.* Two changes of two schedules in two requests are the fewest
  in which a reload uses a table another one has changed. At most four of the
  six entry ids are ever in use at once, leaks included, so `AddFunc` never
  lacks one. One expression beside the empty one is enough to change it; with
  any number the properties are proved.
  `MaxEvents` counts changes and deaths together.
* *CatalogSystem, AlertsSystem.* All kinds of request at once would be too many
  states, and most have nothing to do with each other. A *load* (`Traffic`,
  chosen in the initial state) says which kinds of request meet in a behaviour
  and how many: the set of loads is the list of interactions in question. In
  `catalog` they are: two updates of a source and its deletion; scans, links
  and a deletion; three links (a cycle with a shortcut needs as many);
  the same over two sources; terms with scans and a deletion; tags with MCP
  calls; the same with a scan that drops the column; quality checks with scans;
  quality checks with changes of the table; scans in steps over relational
  content and a deletion; scans in steps over documents. Two scans are saved
  per source: one to create, one to compare. Their contents are five: a column,
  the same one inferred, another type with a second column, a view in its place
  with another table, nothing. `MaxDepth` 2 (10 in the code) makes the limit
  bite.
* In `alerts`: twelve databases a process can find (new, of an earlier version,
  with and without duplicate notifications, with and without the schema file
  and idle connections, SQLite and Postgres), the browser, tokens against
  changed accounts (from two users, from one), and rules and changes against
  users, sources, deaths, failing statements and each other: statements fail
  beside nothing else, beside deleted users, and beside a deleted source and
  deaths. An access token lives one tick, a
  refresh token three: there is time for refreshes with an access token that
  has expired.

The theorems below have none of these bounds: any loads, any names, any
numbers.

`CHECK_DEADLOCK FALSE` appears where a run really stops: the clock has a bound
and all work is done, or the last request has been served. The outbox always
ticks, and is checked for deadlock.

## Fairness

* *SyncLease* (`sync_ends`): weak fairness of each call and goroutine
  (`Trigger ∨ Worker`), of a renewal that has fired and of a renewal goroutine
  that was told to stop. These are runnable goroutines, whose database calls
  return. Nobody is obliged to call `TriggerSync`; processes do not die in this
  run (after a death the row goes away by time: `OrphanLeaseExpires`).
* *GovernanceOutbox* (`outbox_prompt`): weak fairness of time and of each
  sender. The dispatcher's ticker (2 s) keeps calling `ProcessOutbox` in every
  process; the HTTP client's timeout ends each request. One process survives.
* *SyncScheduler* states no liveness: whether a job fires is up to the cron
  library, and nothing in the code waits for it. Nor do *CatalogSystem* and
  *AlertsSystem*: their requests end whenever they fail, and nothing that was
  cut short is taken up again, so that "eventually" would be true of nothing
  but a request that never fails. What a request that ends must have done is
  stated as safety (`OneResultPerRule`, `EveryMatchNotified`, `InboxComplete`).

## The proofs

The modules `*Proofs` hold the theorems; tlapm checks all of them without any
unproved step. Every invariant and action property of a passing run has its
theorem, and so has every refinement. The assumptions on
constants are the named `ASSUME`s of the modules (distinct names, a TTL of at
least two units, …). What a theorem needs beyond that it says as its `ASSUME`.

**For any hazards.**

* `TypeCorrect`, `OutboxTypeCorrect`, `SchedulerTypeCorrect`.
* `FlagExactHolds`: an entry of `syncInFlight` exactly while one call of the
  process is between `beginSync` and `releaseLocalSync`. It is inductive by
  itself together with the types.
* `OrphanLeaseExpiresHolds` and `LiveLeaseNotTakenOverHolds` rest on `TimeInv`:
  no time a goroutine has read, or written into the row, is later than the
  clock allows. Without it an upsert with a time from the future could take
  over a live row.
* `DeliveredWasAcceptedHolds` rests on `JobInv`: a sender that is about to mark
  a row delivered has an acknowledged event in its batch.
* `NoDanglingEntryHolds`, `EveryActiveIsScheduledHolds`,
  `SerialReloadsExactHolds`, `RunStatusSettlesHolds`, all from `SchedulerInv`:
  `EntryInv` (an id just given out belongs to one reload and is not in the map
  yet), `CoverInv` (each wanted job is there, or will be added by a reload that
  has read it, or a reload has yet to read the table: the argument why
  interleaved reloads never lose a schedule), `ExactInv` (the four facts that
  make a lone reload exact; three of them survive a deleted source and a failed
  reload, so that the map still leads to every job left), `RunInv`
  (runs past the guard have their schedule to themselves) and `RunningHasRun`
  (the map `running` holds nothing but the schedules of these runs).

**For prompt processes** (`PromptProcesses`: they may die, but are not paused
and their statements succeed) **with one call each** (`OneCallPerProcess`):

* `LeaseInvHolds`, from it `NoConcurrentSyncHolds`. `NoConcurrentSync` says
  nothing about rows or clocks, so it is not inductive; `LeaseInv` adds that
  who believes to hold the lease has a live row, and that while the renewal
  goroutine waits the row outlives the next renewal. Here `TTL >= 2` is used:
  with a shorter one half the TTL is no time.
* `NobodyLeftSyncingHolds` and `ImplementsMutexHolds` (the refinement of
  `SyncMutex`), from `SaveInv`: the scan about to be saved is the newest, and
  while the source says it is syncing, a call has yet to settle that or has died. A death
  is an excuse only until the next sync marks the source, so the theorem also
  says that the next sync clears what a dead one left.

**For prompt senders whose batches fit into the lease** (`PromptOutbox`:
`Limit * SendTimeout < LeaseTTL`, no replays): `ClaimedOnceHolds` (no two
senders have the same event), `DeadLetterEarnedHolds`, `SettledIsFinalHolds`,
from `BatchInv`: a row in a batch is as its claim left it and leased for longer
than the rest of the batch may take.

* `ImplementsDeliveryHolds`: the refinement of `EventDelivery`, from the same
  invariant. `InHands` turns it into the words of the abstract specification
  (an event in a batch is open, has been tried, and is in no other hands); then
  one lemma per action: `PublishOpens`, `ClaimIsTake`, `RequestReceives` (a
  request that fails may have been taken: `Receive` or a stutter),
  `MarkFinishes` for the three marks, `CrashDies`; time stutters.

The default values of the code (16 rows, 5 s, 15 s) do *not* satisfy
`PromptOutbox`; the theorems say what endpoint or configuration is fast enough, and run
`outbox_slow` what happens otherwise.

**The catalogue** (`StoreProofs`, `CatalogProofs`), for any clients, scans and
loads:

* `ReferencesStay` (`ReferentialIntegrity`), from `CatalogInv`. A database is
  *sound* (`Sound`) when rows have their types, foreign keys hold and names are
  unique; `StoreProofs` has one lemma per SQL statement that says under which
  condition it keeps a sound database sound, `SavedSchemaSound` the one for the
  transaction of `saveSchema`. `CatalogInv` adds what a request in flight holds:
  its operands have been checked, a rebuilt connection has the host that will
  be shown, a scan in progress is a scan.
* `HostsAgree` (`HostShownIsHostUsed`), from the same invariant.
* `AnnotationsStay` (`ScansKeepAnnotations`), from `ScansAreSaved` (only a scan
  that is saved moves the records about scans) and `ScanKeepsColumn`.
* `AuditsMatchWrites` (`McpAuditMatchesWrites`), from `McpInv`: a call in
  flight has a number no other call and no event has, and knows what it has
  written and what is left. All requests but MCP calls leave it alone
  (`…Quiet`), and `CallKeeps` is the argument for every step of a call.

**The schema and its change log** (`HistoryProofs`), for the same:

* `TreeStaysLastScan` (`TreeIsLastScan`), from `TreesMatch`: the stored objects
  and columns of a source, read as a tree, are the last scan that was saved.
  `SavedRows` says row by row what a save stores, `SavedTree` that this is the
  scan, `OthersSame` that no other source is touched. Every other request
  leaves the schema alone, or deletes objects of a source that is being
  deleted; for the latter `DeletesKnown` is needed, which is an invariant of
  its own: a deletion in flight holds only rows of a source already listed as
  doomed.
* `RescansStayQuiet` (`RescanIsQuiet`): of a tree that is the scan, none of the
  five kinds of change records has anything to say (`NoRecords`).
* `LogAlwaysReplays` (`ChangeLogReplays`), from `LogKept`: the schema rebuilt
  from the records is the stored one, and no record is of a save yet to come,
  so that the records of the next save can be told from all earlier ones.
  `LogTellsSchema` is the step: the records of one save, applied to the schema
  before it, give the schema after it.
* `EvidentStays` (`EvidentColumnsSurvive`), from `ScansFind`: whatever has been
  beyond doubt since a scan began is in what it has found, or in an object it
  still has to ask for; and a source is scanned by one client at a time. The
  theorem is about loads whose scans take their steps one by one
  (`load.scans = {}`), which is what it is a question about; the others take a
  whole scan at once.

**Lineage and impact** (`HistoryProofs`), for the same:

* `LineageStaysReadable` (`LineageBreaksOnlyByDeletion`), from `EdgesKnown`:
  there are finitely many edges, and a node an edge joins has its row or is of a
  source somebody began to delete. A scan that drops a column takes its edges
  with it in the same transaction, so only the steps of a deletion can make an
  edge dangle. The queries are recursive; `LineageAreEdges` (`StoreProofs`)
  says that they return edges of the table, so that what is proved of edges
  holds of answers.
* `ImpactsStayShortest` (`ImpactIsShortestDistance`). The loop of
  `ImpactAnalysis` is a recursive function over the state of the loop, and
  `ImpactsAreShortest` says what it returns for every finite set of mappings,
  cycles included. `Walk` is its invariant: a column that was found is as many
  edges below the first one as its distance says, the queue names each column
  once, in order of distance and over at most two distances, and what a
  column leads to is in the result unless the column still waits in the
  queue. `Turned` counts the turns: no column is in the queue twice, so the queue is
  empty before the recursion ends.

Both reason about recursive *functions*. Induction over a predicate would need
a theorem with an operator parameter, which the provers cannot instantiate;
induction over a *set* of naturals does not. `LeastNat` and `NatSetInduction`
follow from the well-foundedness of `<`, and `RecursionHolds` from them: a
function defined by recursion on the number before exists and obeys its
definition.

**Quality checks** (`HistoryProofs`), for the same:

* `ResultsComplete` (`OneResultPerRule`) and `FailuresAnnounced`
  (`FailuresAreAnnounced`), from `ResultInv`. A check in flight has a result
  for every place before its own whose rule still exists, and for its own place
  when it says so (`CheckKnown`); no two checks share a batch; and no identifier
  of a rule is handed out again, or a new rule could pass for one the check has
  skipped. Deletions take a result only with its rule (`RulesStay`, for every
  statement that cascades), because a result is about the column of its rule
  (`ResultsFollow`). `RestKeeps` deals with all steps of the other services at
  once.

**Users, alerts, browser** (`AlertsProofs`, `DeliveryProofs`), for any users, processes, rules, changes and loads:

* `SessionEnds` (`SessionEndsAtLogout`): `WebInv` adds that nothing that could
  store a session is under way.
* `RightsEnd` (`RightsExpire`): `TokenInv`, every token and every token about
  to be signed has a role its user had no earlier than its issue allows.
* `ScopesAgree`, `PeopleIntact`: `ScopeInv` (what an update has read is what
  the rule still is, unless torn), `ReferenceInv`.
* `MatchesNotified` (`EveryMatchNotified`), `WebhooksAccounted`
  (`WebhookAccount`), `InboxesComplete` (`InboxComplete`): `MatchInv`,
  `HookInv`, `InboxInv` follow the goroutine through its loops, whichever of
  its statements fail. `OnceEach`, a rule is dealt with once per change, is
  what makes the count of webhook calls right. `SourceInv`: a stored change has
  its source and is the one its goroutine works on, so a goroutine that finds no
  source owes nothing. `OfferInv`: a notification of a rule that wants it has
  its list of users, or is about to get it, or a statement failed for it, or
  its goroutine died with it (`Died`); this is what `InboxComplete` says beyond
  the loop over the users, and it rests on `NoteMade`: the
  rule of a stored notification is no longer on its goroutine's list.
* `ProcessesMigrated` (`StartsMigrated`), from `StartInv`: what a process that
  has come to a given place of its start finds in the database (`PlaceOK`), and
  what every database on the way has in common (`DiskOK`: what PostgreSQL has
  recorded is there, and no notification but a duplicate is missing). That
  another process goes on in the same database takes nothing of this away,
  because a database only goes `Forward` (`PlaceStays`); so one lemma,
  `StartMoves`, serves all steps of all processes. What a process that serves
  finds is everything but `NotBrought`: `sync_schedules`, when the schema comes
  from the file. `DiskAssumption` says from which databases a start may begin.

**Only model-checked:** the liveness properties `FlagReleased`,
`LeaseGivenUp` and `EveryEventSettles` (the prover does not reason about
liveness under fairness, nor about `ENABLED`), and the four violations.

## What the runs found

1. `sync_end_order`: `endSync` gives up the map entry before it deletes the row
   by owner (`source.go:361-362`). The process's next sync can start in between
   and loses its row to the late delete; another process then syncs too,
   although nothing failed and nobody was slow. This is why the theorems above
   need `OneCallPerProcess`.
2. `sync_force`: the forced release checks the age of one row and deletes
   whatever row is there later (`source.go:218-234`).
3. `outbox_slow`: a batch of requests that time out outlives its lease; the
   same rows are claimed again, and the first sender's late mark puts a
   delivered event back (`governance_event.go:379`).
4. `schedule_leak`: two reloads that overlap leave a job the table does not
   have, in one order until the process restarts (`scheduler.go:55`).

More that the models show, as exceptions of their properties or by their
actions:

* A new SQLite database whose schema is read from
  `migrations/001_init_schema_sqlite.sql`, as in the image the Dockerfile
  builds, never gets `sync_schedules`: the file has no such table, the built-in
  schema that has it (`sqlite.go:549-567`) is skipped (`sqlite.go:227-232`), and
  the migrations after it create other tables (`sqlite.go:637-680`). The process
  serves, and everything about schedules is an error, although
  `docs/DEPLOYMENT.md:147` says that a start migrates the database (the
  exception `NotBrought` of `StartsMigrated`; without it the run `alerts` shows
  such a start in a few steps).
* A process that dies leaves the status `syncing` until another sync of the
  source marks it (the exception `cut` of `NobodyLeftSyncing`), and a paused process can save an old scan over a newer one, because
  the lease is not looked at in the transaction of the save.
* `DeleteSource` leaves the lineage edges of the source's columns. One of them
  has no name in the recursive query, NULL does not scan into a Go string, and
  the lineage of every column connected to it is an error from then on
  (the exception of `LineageBreaksOnlyByDeletion`). A scan that drops a column
  does remove its edges.
* Two updates of a source, or of an alert rule, that overlap: the second writes
  what it made of a row the first has changed meanwhile. The host shown is then
  not the host used, or a rule pairs an object with a foreign source (the
  exceptions `torn`).
* A logout during a refresh, or while the page starts, is undone when the
  refresh stores its new pair (the exception of `SessionEndsAtLogout`).
* A type that two documents of a MongoDB sample share equally is decided by the
  order of a Go map: a column may change its type, and be reported, from scan
  to scan. A rare field disappears with an unlucky sample, and with it
  everything attached.
* The built-in SQLite schema creates the unique index on notifications
  (`sqlite.go:498`) before the step that removes duplicates
  (`sqlite.go:581-614`): a database with duplicates cannot be opened that way.
  Postgres removes them in the transaction that creates the index.
* With `SQLITE_MIN_CONNS=0` the pool may drop the connection on which foreign
  keys were turned off for the rebuild, and `DROP TABLE` then deletes the
  notifications (`sqlite.go:702,774`; the exception of `StartsMigrated`).
* Of two Postgres processes that start at once, one fails on the row of a
  version the other has recorded, and does not start (`postgres.go:107`).
* `UpdateRule` of a quality rule validates the configuration against the type
  in the request and stores it under the rule's own type. Of a rule named twice
  in a check one failure may be announced twice and the other not at all (the
  exception of `FailuresAreAnnounced`).
* A process that dies during `ProcessSchemaChange` leaves the rest of its
  rules and users without notification (`cut`). So does one failing statement,
  a busy SQLite being enough: if the rules or the source cannot be read nobody
  is told of the change (`alert.go:292-307`), if a notification cannot be
  stored its rule is skipped (`alert.go:320-325`), and if the mark of one user
  cannot be stored all users after it get none (`sqlite_alert.go:284-292`). The
  error is logged and nothing is tried again: the exceptions `failed` of
  `EveryMatchNotified` and `InboxComplete`.

## What is not modelled

* `SyncLease` stores "the scan of time t"; what a scan contains is `Catalog`'s
  subject, which in turn has no leases: `StartScan` lets one scan of a source
  run at a time, as `SyncLease` proves for prompt processes.
* Clock skew between processes and database: there is one clock.
* SQLite compares RFC3339Nano texts, whose order within one second is not the
  order of times; times are numbers here.
* Postgres under READ COMMITTED lets statements of other requests in between
  those of `saveSchema`'s transaction; here, as on SQLite, a transaction is one
  step.
* Schedulers of other processes: each has a copy of the table that only its own
  requests refresh. Graceful shutdown.
* Two browser tabs that share `localStorage`; the mode without authentication;
  password hashing.
* Reading: lists, paging, search, statistics, the dashboard, MCP resources.
* The DDL generator and the SQL validator map text to text; configuration,
  encryption and UI assets have no state that changes after start-up. What a
  query of a quality rule says is left out, what it counts is not.

## Plan

What would come next, in this order:

1. The transaction of `saveSchema` statement by statement, for Postgres, with
   assignments and deletions in between.
2. Two browser tabs.
