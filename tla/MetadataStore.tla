---------------------------- MODULE MetadataStore ----------------------------
(***************************************************************************)
(* The tables that hold the catalogue and the SQL statements the services  *)
(* run on them (internal/store/sqlite*.go and postgres*.go, whose          *)
(* statements say the same: each operator stands for both).  This module   *)
(* has no variables: a database is a record of tables, a table with an     *)
(* identifier is a function from the identifiers it holds to their rows,   *)
(* and a statement is an operator from a database to a database.  A reader *)
(* of the services finds the store's function names here.                  *)
(*                                                                         *)
(* SQLite runs with foreign_keys(1), so a DELETE also removes the rows     *)
(* that reference the deleted ones ON DELETE CASCADE; the operators whose  *)
(* names start with Cascade say which.  Identifiers are UUIDs.  Objects    *)
(* and columns are created by scans only, so an identifier is a record of  *)
(* what no statement updates: the parent, the name, and the scan that      *)
(* created the row.  A column dropped and found again is another one.      *)
(***************************************************************************)
EXTENDS Integers, FiniteSets, Functions, TLC

CONSTANTS
    Source,       \* identifiers of data sources
    ObjectName,   \* names of tables, views and collections
    ColumnName,   \* names of columns
    ObjectType,   \* table, view or collection
    DataType,     \* the data type a scan reports for a column
    Host,         \* values of data_sources.host
    Secret,       \* values of the user name and password
    Term, Tag,    \* identifiers of business terms and tags
    Word,         \* names of terms and tags
    Rule,         \* identifiers of data quality rules
    RuleKind,     \* values of dq_rules.rule_type
    Batch,        \* values of dq_results.check_batch_id
    MaxScans,     \* bound on the scans saved for a source
    MaxRows,      \* bound on the rows of a table of the source
    MaxDepth,     \* how far the lineage queries follow edges: 10 in the code
    None          \* NULL

ScanNo == 1 .. MaxScans

\* A column as a scanner reports it (scanner.ColumnInfo).  Confidence 0 is
\* "not given", 1 certain, 2 inferred from a sample that disagrees.  Of the
\* other fields (position, nullability, keys, ...) type stands for those in
\* the signature that is compared; the rest changes nothing here.
ColumnInfo == [type: DataType, confidence: 0 .. 2]

ObjectId == [source: Source, name: ObjectName, scan: ScanNo]
ColumnId == [object: ObjectId, column: ColumnName, scan: ScanNo]
Node     == ObjectId \cup ColumnId

\* connection_config is the encrypted JSON of this record.
ConnectionConfig == [host: Host, secret: Secret]

DataSourceRow   == [host: Host, config: ConnectionConfig]
SchemaObjectRow == [type: ObjectType]
ColumnRow       == [data: ColumnInfo, term: Term \cup {None}]
TermRow         == [name: Word]
TagRow          == [name: Word]
ColumnTagRow    == [column: ColumnId, tag: Tag]
MappingRow      == [from: ColumnId, to: ColumnId]
EdgeRow         == [from: Node, to: Node]

ChangeType == {"add_object", "drop_object", "add_column", "drop_column",
               "alter_column"}
Signature  == [type: DataType, confidence: 0 .. 2]
ChangeRow  == [source: Source, scan: ScanNo, kind: ChangeType,
               object: ObjectId, column: ColumnName \cup {None},
               old: Signature \cup ObjectType \cup {None},
               new: Signature \cup ObjectType \cup {None}]

RuleRow   == [source: Source \cup {None}, object: ObjectId \cup {None},
              column: ColumnId \cup {None}, kind: RuleKind,
              config: RuleKind, active: BOOLEAN]
ResultRow == [rule: Rule, column: ColumnId \cup {None}, batch: Batch,
              no: Nat, status: {"passed", "failed", "error"},
              total: 0 .. MaxRows, failed: 0 .. MaxRows]

IsTable(t, Id, Row) == DOMAIN t \subseteq Id /\ t \in [DOMAIN t -> Row]

DatabaseOK(d) ==
    /\ IsTable(d.sources, Source, DataSourceRow)
    /\ IsTable(d.objects, ObjectId, SchemaObjectRow)
    /\ IsTable(d.columns, ColumnId, ColumnRow)
    /\ IsTable(d.terms, Term, TermRow)
    /\ IsTable(d.tags, Tag, TagRow)
    /\ IsTable(d.rules, Rule, RuleRow)
    /\ d.columnTags \subseteq ColumnTagRow
    /\ d.mappings \subseteq MappingRow
    /\ d.edges \subseteq EdgeRow
    /\ d.changes \subseteq ChangeRow
    /\ d.results \subseteq ResultRow

\* f with v at x.
Put(f, x, v) == [y \in DOMAIN f \cup {x} |-> IF y = x THEN v ELSE f[y]]

\* f, and g where f says nothing.
Over(f, g) ==
    [x \in DOMAIN f \cup DOMAIN g |-> IF x \in DOMAIN f THEN f[x] ELSE g[x]]

NoRows == [id \in {} |-> None]

\* A database after runSQLiteBuiltinMigrations.
EmptyDatabase ==
    [sources |-> NoRows, objects |-> NoRows, columns |-> NoRows,
     terms |-> NoRows, tags |-> NoRows, rules |-> NoRows,
     columnTags |-> {}, mappings |-> {}, edges |-> {}, changes |-> {},
     results |-> {}]

Without(table, ids) == Restrict(table, DOMAIN table \ ids)

(***************************************************************************)
(* Queries.                                                                *)
(***************************************************************************)
ListSchemaObjectsBySource(d, s) == {o \in DOMAIN d.objects : o.source = s}

ListColumnsByObject(d, o) == {c \in DOMAIN d.columns : c.object = o}

ColumnsOfSource(d, s) == {c \in DOMAIN d.columns : c.object.source = s}

\* The inner joins with schema_objects and data_sources hide a column whose
\* object or source is gone.
SearchColumns(d, names) ==
    {c \in DOMAIN d.columns :
        /\ c.column \in names
        /\ c.object \in DOMAIN d.objects
        /\ c.object.source \in DOMAIN d.sources}

SearchColumnsByTag(d, g) ==
    {c \in SearchColumns(d, ColumnName) :
        [column |-> c, tag |-> g] \in d.columnTags}

GetColumnMappings(d, c) ==
    {m \in d.mappings : m.from = c /\ m.to \in SearchColumns(d, ColumnName)}

GetColumnTags(d, c) ==
    {g \in DOMAIN d.tags : [column |-> c, tag |-> g] \in d.columnTags}

GetTagByName(d, w) == {g \in DOMAIN d.tags : d.tags[g].name = w}

ListSchemaChangesBySource(d, s) == {ch \in d.changes : ch.source = s}

(***************************************************************************)
(* What ON DELETE CASCADE takes along.                                     *)
(***************************************************************************)
CascadeRules(d, R) ==
    [d EXCEPT !.rules = Without(@, R),
              !.results = {x \in @ : x.rule \notin R}]

CascadeColumns(d, C) ==
    LET e == CascadeRules(d, {r \in DOMAIN d.rules : d.rules[r].column \in C})
    IN  [e EXCEPT !.columns    = Without(@, C),
                  !.columnTags = {x \in @ : x.column \notin C},
                  !.mappings   = {m \in @ : m.from \notin C /\ m.to \notin C},
                  !.results    = {x \in @ : x.column \notin C}]

CascadeObjects(d, O) ==
    LET e == CascadeRules(
               CascadeColumns(d, {c \in DOMAIN d.columns : c.object \in O}),
               {r \in DOMAIN d.rules : d.rules[r].object \in O})
    IN  [e EXCEPT !.objects = Without(@, O)]

CascadeSource(d, s) ==
    LET e == CascadeRules(
               CascadeObjects(d, ListSchemaObjectsBySource(d, s)),
               {r \in DOMAIN d.rules : d.rules[r].source = s})
    IN  [e EXCEPT !.sources = Without(@, {s}),
                  !.changes = {ch \in @ : ch.source # s}]

CascadeTag(d, g) ==
    [d EXCEPT !.tags = Without(@, {g}),
              !.columnTags = {x \in @ : x.tag # g}]

(***************************************************************************)
(* Statements.                                                             *)
(***************************************************************************)
CreateDataSource(d, s, row) == [d EXCEPT !.sources = Put(@, s, row)]

\* UPDATE ... SET host = COALESCE(?, host): a field that is not given stays.
Given(new, old) == IF new = None THEN old ELSE new

UpdateDataSource(d, s, host, config) ==
    [d EXCEPT !.sources[s] = [host   |-> Given(host, @.host),
                              config |-> Given(config, @.config)]]

DeleteColumnsByObject(d, o) == CascadeColumns(d, ListColumnsByObject(d, o))

DeleteSchemaObjectsBySource(d, s) ==
    CascadeObjects(d, ListSchemaObjectsBySource(d, s))

DeleteSchemaChangesBySource(d, s) ==
    [d EXCEPT !.changes = {ch \in @ : ch.source # s}]

DeleteLineageEdgesByNode(d, N) ==
    [d EXCEPT !.edges = {e \in @ : e.from \notin N /\ e.to \notin N}]

CreateColumnMapping(d, c1, c2) ==
    [d EXCEPT !.mappings = @ \cup {[from |-> c1, to |-> c2]}]

DeleteColumnMapping(d, m) == [d EXCEPT !.mappings = @ \ {m}]

CreateLineageEdge(d, n1, n2) ==
    [d EXCEPT !.edges = @ \cup {[from |-> n1, to |-> n2]}]

CreateBusinessTerm(d, t, w) ==
    [d EXCEPT !.terms = Put(@, t, [name |-> w])]

UpdateBusinessTerm(d, t, w) ==
    [d EXCEPT !.terms[t].name = Given(w, @)]

ClearTermAssociations(d, t) ==
    [d EXCEPT !.columns = [c \in DOMAIN @ |->
        IF @[c].term = t THEN [@[c] EXCEPT !.term = None] ELSE @[c]]]

DeleteBusinessTermRow(d, t) == [d EXCEPT !.terms = Without(@, {t})]

AssignTermToColumn(d, c, t) == [d EXCEPT !.columns[c].term = t]

CreateTag(d, g, w) == [d EXCEPT !.tags = Put(@, g, [name |-> w])]

UpdateTag(d, g, w) == [d EXCEPT !.tags[g].name = w]

\* INSERT OR IGNORE
AddTagToColumn(d, c, g) ==
    [d EXCEPT !.columnTags = @ \cup {[column |-> c, tag |-> g]}]

RemoveTagFromColumn(d, c, g) ==
    [d EXCEPT !.columnTags = @ \ {[column |-> c, tag |-> g]}]

CreateDQRule(d, r, row) == [d EXCEPT !.rules = Put(@, r, row)]

UpdateDQRule(d, r, config, active) ==
    [d EXCEPT !.rules[r].config = Given(config, @),
              !.rules[r].active = Given(active, @)]

CreateDQResult(d, row) == [d EXCEPT !.results = @ \cup {row}]

(***************************************************************************)
(* What the foreign keys and the UNIQUE indexes promise of the tables.     *)
(***************************************************************************)
ForeignKeysHold(d) ==
    /\ \A o \in DOMAIN d.objects : o.source \in DOMAIN d.sources
    /\ \A c \in DOMAIN d.columns :
          /\ c.object \in DOMAIN d.objects
          /\ d.columns[c].term \in DOMAIN d.terms \cup {None}
    /\ \A x \in d.columnTags :
          x.column \in DOMAIN d.columns /\ x.tag \in DOMAIN d.tags
    /\ \A m \in d.mappings : {m.from, m.to} \subseteq DOMAIN d.columns
    /\ \A ch \in d.changes : ch.source \in DOMAIN d.sources
    /\ \A r \in DOMAIN d.rules :
          /\ d.rules[r].source \in DOMAIN d.sources \cup {None}
          /\ d.rules[r].object \in DOMAIN d.objects \cup {None}
          /\ d.rules[r].column \in DOMAIN d.columns \cup {None}
    /\ \A x \in d.results :
          /\ x.rule \in DOMAIN d.rules
          /\ x.column \in DOMAIN d.columns \cup {None}

NamesUnique(d) ==
    /\ \A o1, o2 \in DOMAIN d.objects :
          <<o1.source, o1.name>> = <<o2.source, o2.name>> => o1 = o2
    /\ \A c1, c2 \in DOMAIN d.columns :
          <<c1.object, c1.column>> = <<c2.object, c2.column>> => c1 = c2
    /\ IsInjective(d.terms)
    /\ IsInjective(d.tags)
=============================================================================
