-------------------------------- MODULE StartUp --------------------------------
(***************************************************************************)
(* How a process opens its database (internal/store/sqlite.go and          *)
(* postgres.go, called from cmd/datamap/main.go): the migrations that run  *)
(* before bootstrapAdmin, on a database an earlier version has left.       *)
(*                                                                         *)
(* Several processes may open one database at once, and one may die at     *)
(* any step and be started again.  On SQLite every statement commits by    *)
(* itself, except in the two rebuilds; on PostgreSQL a migration and its   *)
(* version commit together.                                                *)
(***************************************************************************)
EXTENDS Accounts, Sequences

VARIABLE disk    \* what the database holds

\* A database: the tables and indexes it has, the tables whose object_id is
\* still a reference that cascades, the versions PostgreSQL has recorded, the
\* notifications of rules about changes, and the unread marks of users.
Artifact == {"tables", "leases", "schedules", "unique", "term fields"}

Version == <<"001", "002", "003", "004">>

\* 001 creates the tables, 002 the fields of a term, 003 removes the
\* duplicates and creates the index, sync_leases and governance_outbox ("leases"),
\* 004 sync_schedules.
Brings == <<{"tables"}, {"term fields"}, {"unique", "leases"}, {"schedules"}>>

AfterRebuild == [schema_changes |-> "alert_rules", alert_rules |-> "marks"]

\* The notifications of which an older one exists, of the same rule about the
\* same change.
DuplicatesIn(d) ==
    {n \in DOMAIN d.notes : \E keep \in DOMAIN d.notes :
        LET a == d.notes[keep]  b == d.notes[n]
        IN  /\ a.about = b.about
            /\ a.created < b.created \/ (a.created = b.created /\ keep < n)}

IsDisk(d) ==
    /\ d = [has |-> d.has, cascades |-> d.cascades, versions |-> d.versions,
            notes |-> d.notes, marks |-> d.marks]
    /\ d.cascades \subseteq DOMAIN AfterRebuild
    /\ d.versions \in Seq(Range(Version)) /\ IsInjective(d.versions)

\* What a migration of PostgreSQL brings is there once it is recorded.
Recorded(d) ==
    /\ d.cascades = {}
    /\ \A v \in DOMAIN Version : Version[v] \in Range(d.versions) =>
          Brings[v] \subseteq d.has /\ (v = 3 => DuplicatesIn(d) = {})

\* Every migration has been applied, but for some tables.
CompleteBut(missing, d) ==
    Artifact \ missing \subseteq d.has /\ d.cascades = {} /\ DuplicatesIn(d) = {}

ASSUME DiskAssumption ==
    \A load \in Traffic :
        /\ IsDisk(load.disk)
        /\ load.db \in {"sqlite", "postgres"}
        /\ load.db = "postgres" => Recorded(load.disk)
        /\ "start" \notin load.kinds => CompleteBut({}, load.disk)

StartUpInit == disk = mix.disk

Step(p, from, to) ==
    /\ starting[p] = from
    /\ starting' = [starting EXCEPT ![p] = to]
    /\ UNCHANGED <<users, tokens, clock, calls, sent, mix, held>>

Create(things) == disk' = [disk EXCEPT !.has = @ \cup things]

Duplicates == DuplicatesIn(disk)

WithoutNotes(d, N) ==
    [d EXCEPT !.notes = Restrict(@, DOMAIN @ \ N),
              !.marks = {m \in @ : m[2] \notin N}]

(***************************************************************************)
(* SQLite.                                                                 *)
(***************************************************************************)
Rebuilding == [schema_changes |-> "rebuild schema_changes",
               alert_rules    |-> "rebuild alert_rules"]

\* store.New, NewSQLiteStore: schema from a file, or the built-in one.
OpenSQLite(p) ==
    /\ mix.db = "sqlite"
    /\ Step(p, "open", IF mix.file THEN "file" ELSE "tables")
    /\ UNCHANGED disk

\* migrations/001_init_schema_sqlite.sql, the tables of 001 as an earlier
\* version had them.  With it the built-in schema is not run.
ReadSchemaFile(p) ==
    /\ Step(p, "file", "schema_changes")
    /\ \E old \in SUBSET DOMAIN AfterRebuild :
          disk' = [disk EXCEPT !.has = @ \cup {"tables"},
                    !.cascades = IF "tables" \in disk.has THEN @ ELSE old]

CreateTables(p) ==
    /\ Step(p, "tables", "unique")
    /\ Create({"tables"})

\* CREATE UNIQUE INDEX IF NOT EXISTS idx_notifications_rule_change, which
\* duplicates make fail.
CreateUnique(p, from, to) ==
    LET fails == Duplicates # {} /\ "unique" \notin disk.has
    IN  /\ Step(p, from, IF fails THEN "failed" ELSE to)
        /\ Create(IF fails THEN {} ELSE {"unique"})

\* The built-in schema has the index too, before anything is deduplicated.
CreateBuiltinIndex(p) == CreateUnique(p, "unique", "late tables")

CreateLateTables(p) ==
    /\ Step(p, "late tables", "schema_changes")
    /\ Create({"leases", "schedules"})

\* No other statement of SQLite creates sync_schedules.
NotBrought == IF mix.db = "sqlite" /\ mix.file THEN {"schedules"} ELSE {}

\* The old definition is read in one statement ...
ReadDefinition(p, t) ==
    /\ Step(p, t, IF t \in disk.cascades THEN Rebuilding[t]
                  ELSE AfterRebuild[t])
    /\ UNCHANGED disk

\* Mutant of Rebuild: PRAGMA foreign_keys stays on.
RebuildReferenced(p, t) ==
    /\ Step(p, Rebuilding[t], AfterRebuild[t])
    /\ disk' = [WithoutNotes(disk, DOMAIN disk.notes) EXCEPT !.cascades = @ \ {t}]

\* ... and the table is copied, dropped and replaced in one transaction.  The
\* DROP deletes the rows that refer to it ON DELETE CASCADE, the
\* notifications, if foreign keys are on: the PRAGMA that turns them off is
\* lost when the pool keeps no idle connection.
Rebuild(p, t) ==
    /\ Step(p, Rebuilding[t], AfterRebuild[t])
    /\ disk' = [(IF mix.idle THEN disk
                 ELSE WithoutNotes(disk, DOMAIN disk.notes))
                EXCEPT !.cascades = @ \ {t}]

DeduplicateMarks(p) ==
    /\ Step(p, "marks", "notes")
    /\ disk' = [disk EXCEPT !.marks = {m \in @ : m[2] \notin Duplicates}]

Deduplicate(p) ==
    /\ Step(p, "notes", "fields")
    /\ disk' = WithoutNotes(disk, Duplicates)

\* The ALTERs that find their column already there fail and are passed over.
AddTermFields(p) ==
    /\ Step(p, "fields", "index")
    /\ Create({"term fields"})

CreatePostIndex(p) == CreateUnique(p, "index", "post tables")

CreatePostTables(p) ==
    /\ Step(p, "post tables", "list")
    /\ Create({"leases"})

(***************************************************************************)
(* PostgreSQL.                                                             *)
(***************************************************************************)
Applied(v) == Version[v] \in Range(disk.versions)

Finding  == <<"find 001", "find 002", "find 003", "find 004">>
Applying == <<"apply 001", "apply 002", "apply 003", "apply 004">>

Find(v) == IF v \in DOMAIN Version THEN Finding[v] ELSE "list"

OpenPostgres(p) ==
    /\ mix.db = "postgres"
    /\ Step(p, "open", Find(1))
    /\ UNCHANGED disk

\* SELECT EXISTS: the next version, or bootstrapAdmin.
SkipApplied(p, v) ==
    /\ Applied(v)
    /\ Step(p, Find(v), Find(v + 1))
    /\ UNCHANGED disk

FindMissing(p, v) ==
    /\ ~Applied(v)
    /\ Step(p, Find(v), Applying[v])
    /\ UNCHANGED disk

Migrated(v) ==
    LET d == IF v = 3 THEN WithoutNotes(disk, Duplicates) ELSE disk
    IN  [d EXCEPT !.has = @ \cup Brings[v], !.versions = Append(@, Version[v])]

\* The transaction that comes second cannot insert the version: it rolls back
\* and the process does not start.
Migrate(p, v) ==
    \/ /\ ~Applied(v)
       /\ Step(p, Applying[v], Find(v + 1))
       /\ disk' = Migrated(v)
    \/ /\ Applied(v)
       /\ Step(p, Applying[v], "failed")
       /\ UNCHANGED disk

(***************************************************************************)
(* The process.                                                            *)
(***************************************************************************)
\* Killed, out of its 30 seconds, or refused by a busy database; and started
\* again.
Restart(p) ==
    /\ Serve("restart")
    /\ starting' = [starting EXCEPT ![p] = "open"]
    /\ UNCHANGED <<users, tokens, clock, calls, mix, held, disk>>

StartUpNext == \E p \in Process :
    \/ OpenSQLite(p) \/ ReadSchemaFile(p) \/ CreateTables(p)
    \/ CreateBuiltinIndex(p) \/ CreateLateTables(p)
    \/ \E t \in DOMAIN AfterRebuild : ReadDefinition(p, t) \/ Rebuild(p, t)
    \/ DeduplicateMarks(p) \/ Deduplicate(p) \/ AddTermFields(p)
    \/ CreatePostIndex(p) \/ CreatePostTables(p)
    \/ OpenPostgres(p)
    \/ \E v \in DOMAIN Version : SkipApplied(p, v) \/ FindMissing(p, v) \/ Migrate(p, v)
    \/ Restart(p)
=============================================================================
