---------------------------- MODULE CatalogSystem ----------------------------
(***************************************************************************)
(* The services that share the catalogue database: sources, schemas and    *)
(* lineage (Catalog, Scanner, Lineage), terms, tags and MCP tools          *)
(* (Glossary), and data quality (Quality).  Their requests interleave.     *)
(***************************************************************************)
EXTENDS Glossary, Quality, Lineage, Scanner

vars == <<catalogVars, glossaryVars, qualityVars, live>>

Init == CatalogInit /\ GlossaryInit /\ QualityInit /\ ScannerInit

AbortRequest(c) == Abort(c) /\ GlossaryAbort(c) /\ QualityAbort(c) /\ UNCHANGED live

Next ==
    \/ CatalogNext /\ UNCHANGED <<glossaryVars, qualityVars, live>>
    \/ GlossaryNext /\ UNCHANGED <<qualityVars, live>>
    \/ QualityNext /\ UNCHANGED <<glossaryVars, live>>
    \/ ScannerNext /\ UNCHANGED <<glossaryVars, qualityVars>>
    \/ \E c \in Client : AbortRequest(c)

Spec == Init /\ [][Next]_vars

(***************************************************************************)
(* Properties.                                                             *)
(***************************************************************************)
RequestOps == {"idle", "update", "delete", "delete_term", "create_tag",
               "mcp_create_tag", "update_tag", "tagging", "audit", "check",
               "scan"}

TypeOK ==
    /\ DatabaseOK(db)
    /\ \A c \in Client : req[c].op \in RequestOps
    /\ mix \in Traffic /\ sent \in 0 .. mix.requests
    /\ saves \in [Source -> 0 .. MaxScans]
    /\ doomed \cup torn \subseteq Source
    /\ table \in Tables
    /\ publishing \cup events \cup lost \subseteq ResultRow

\* What is attached to a column is found by the queries that join its object
\* and its source.
NothingHidden ==
    /\ \A c \in DOMAIN db.columns : ColumnDetailReadable(db, c)
    /\ \A x \in db.columnTags : x.column \in SearchColumnsByTag(db, x.tag)
    /\ \A m \in db.mappings : m \in GetColumnMappings(db, m.from)

\* Whatever scans, deletions and assignments interleave, no row refers to a
\* row that is gone or is hidden from the queries, and names stay unique
\* (terms and tags among all, objects in their source, columns in their
\* object).  Every table holds rows of its type.
ReferentialIntegrity ==
    TypeOK /\ ForeignKeysHold(db) /\ NamesUnique(db) /\ NothingHidden

Undisturbed(s) == s \notin doomed /\ lastScan[s] # None

\* The schema tree of a source is exactly the last scan that was saved,
\* unless somebody began to delete the source.
TreeIsLastScan ==
    \A s \in Source : Undisturbed(s) =>
        SchemaTree(db, s) =
            [n \in DOMAIN lastScan[s] |->
                [type |-> lastScan[s][n].type,
                 columns |-> [x \in DOMAIN lastScan[s][n].columns |->
                    ScannedSignature(lastScan[s][n].columns[x])]]]

\* A reader who follows the change records of a source, scan by scan, knows
\* its objects, its columns and their signatures.
ChangeLogReplays ==
    \A s \in Source : Undisturbed(s) =>
        mirror[s] =
            [objects |-> ListSchemaObjectsBySource(db, s),
             columns |-> {[object |-> c.object, column |-> c.column,
                           signature |-> StoredSignature(db.columns[c])] :
                             c \in ColumnsOfSource(db, s)}]

\* A scan that is saved leaves what people attached to a column it still
\* contains: the column keeps its identifier, its term, its tags, mappings,
\* lineage and rules.
ScansKeepAnnotations ==
    [][\A s \in Source : saves'[s] # saves[s] =>
         \A c \in ColumnsOfSource(db, s) : InScan(lastScan'[s], c) =>
            /\ c \in DOMAIN db'.columns
            /\ db'.columns[c].term = db.columns[c].term
            /\ GetColumnTags(db', c) = GetColumnTags(db, c)
            /\ \A b \in DOMAIN db'.columns :
                  /\ [from |-> c, to |-> b] \in db.mappings
                        => [from |-> c, to |-> b] \in db'.mappings
                  /\ [from |-> c, to |-> b] \in db.edges
                        => [from |-> c, to |-> b] \in db'.edges
            /\ \A r \in DOMAIN db.rules : db.rules[r].column = c
                  => r \in DOMAIN db'.rules]_vars

\* A column loses its identifier, and with it all that is attached to it,
\* only when the source was without the column at some time during the scan,
\* although a scan is not a snapshot.  Of a collection this covers the fields
\* all documents have: a rare field vanishes with an unlucky sample.
EvidentColumnsSurvive ==
    [][\A c \in Client : req[c].op = "scan" /\ saves' # saves =>
         \A x \in ColumnsOfSource(db, req[c].source) :
            <<x.object.name, x.column>> \in req[c].always
               => x \in DOMAIN db'.columns]_vars

\* Saving the same scan again records no change.
RescanIsQuiet ==
    [][\A s \in Source :
         /\ saves'[s] # saves[s] /\ Undisturbed(s)
         /\ lastScan'[s] = lastScan[s]
         => db'.changes = db.changes]_vars

\* The lineage of a column can be read, unless it leads to what belonged to a
\* source somebody began to delete: DeleteDataSource leaves lineage edges, and
\* one dangling edge fails the query for every column above and below it.
LineageBreaksOnlyByDeletion ==
    \A c \in DOMAIN db.columns :
        LET edges == GetLineageDownward(db, c) \cup GetLineageUpward(db, c)
            source(n) == IF "object" \in DOMAIN n THEN n.object.source
                         ELSE n.source
        IN  \/ LineageReadable(db, edges)
            \/ \E e \in edges : {source(e.from), source(e.to)} \cap doomed # {}

\* The impact analysis names exactly the nodes below a column, each at its
\* shortest distance, whatever cycles and diamonds the edges form.
ImpactIsShortestDistance ==
    \A c \in DOMAIN db.columns :
        LET impact == ImpactAnalysis(db, c)
            at(n) == {e.to : e \in DownwardLevel(db, c)[n]}
        IN  /\ DOMAIN impact = (UNION {at(n) : n \in 1 .. MaxDepth}) \ {c}
            /\ \A t \in DOMAIN impact :
                  /\ t \in at(impact[t])
                  /\ \A n \in 1 .. impact[t] - 1 : t \notin at(n)

\* The host an administrator sees is the host the scanner connects to, unless
\* two updates of the source overlapped.
HostShownIsHostUsed ==
    \A s \in DOMAIN db.sources \ torn :
        db.sources[s].host = db.sources[s].config.host

\* A governance event of an MCP call tells what the call wrote, all of it and
\* nothing else; a call that wrote and is over has its event, unless it
\* failed.
McpAuditMatchesWrites ==
    LET of(call) == {w.write : w \in {v \in written : v.call = call}}
    IN  /\ \A e \in audit : e.writes = of(e.call)
        /\ \A w \in written :
              \/ \E e \in audit : e.call = w.call
              \/ w.call \in failed
              \/ \E c \in Client : req[c].op \in McpCalls /\ req[c].call = w.call

\* A check that has answered has stored one result for every rule in its
\* list that still exists, no check stores two results for one place of its
\* list, and no result has more failing rows than rows, unless the table
\* changed between the two counts or a custom_sql is compared with a table.
OneResultPerRule ==
    /\ \A b \in DOMAIN checked : \A i \in DOMAIN checked[b] :
          checked[b][i] \in DOMAIN db.rules =>
             \E x \in db.results :
                x.batch = b /\ x.no = i /\ x.rule = checked[b][i]
    /\ \A x, y \in db.results : <<x.batch, x.no>> = <<y.batch, y.no>> => x = y
    /\ \A x \in db.results : x.failed <= x.total \/ <<x.batch, x.no>> \in shaken

\* Every stored failure has its event or is about to, unless the process died
\* first or the rule occurs twice in the list of the check.
FailuresAreAnnounced ==
    \A x \in db.results : x.status # "passed" =>
        \/ x \in events \cup publishing \cup lost
        \/ \E y \in db.results : y # x /\ y.batch = x.batch /\ y.rule = x.rule
        \/ \E c \in Client : req[c].op = "check" /\ req[c].stored = x
=============================================================================
