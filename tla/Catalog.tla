------------------------------- MODULE Catalog -------------------------------
(***************************************************************************)
(* Data sources and their schemas: SourceService (settings, deletion and   *)
(* saveSchema of internal/service/source.go), MetadataService              *)
(* (internal/service/metadata.go) and the HTTP handlers in front of them.  *)
(*                                                                         *)
(* A request of one statement, or of one transaction, is one action.  The  *)
(* requests that read, compute and write (UpdateSource) or that run        *)
(* several statements without a transaction (DeleteSource) take one action *)
(* per statement, and a Client is a place for one of them; it may be cut   *)
(* short between two statements by an error of the database, by the        *)
(* caller's context or by the death of the process.                        *)
(***************************************************************************)
EXTENDS MetadataStore

CONSTANTS
    Client,       \* requests of several statements served at once
    Scans,        \* what a scan of a source may return, and what a
                  \* relational source may hold
    Dumps,        \* what a source of documents may hold
    Traffic       \* the loads considered: the kinds of request that meet in
                  \* one behaviour, and the bounds on them

RequestKinds == {"settings", "delete", "link", "term", "tag", "mcp", "rule",
                 "check", "scan"}

\* scanner.SchemaInfo: the objects found, with their columns.  A scanner
\* reports an object once and, within an object, a column once.
IsScan(scan) ==
    /\ DOMAIN scan \subseteq ObjectName
    /\ \A n \in DOMAIN scan :
          /\ scan[n].type \in ObjectType
          /\ IsTable(scan[n].columns, ColumnName, ColumnInfo)

ASSUME CatalogAssumption ==
    /\ MaxScans \in Nat /\ MaxRows \in Nat
    /\ MaxDepth \in Nat \ {0}
    /\ \A scan \in Scans : IsScan(scan)
    /\ \A load \in Traffic :
          /\ load.kinds \subseteq RequestKinds
          /\ load.scans \subseteq Scans
          /\ load.contents \subseteq Scans \cup Dumps
          /\ {load.sources, load.requests} \subseteq Nat
          /\ load.saved \in 0 .. MaxScans
    /\ None \notin Source /\ None \notin ObjectName /\ None \notin ColumnName
    /\ None \notin Term /\ None \notin Host /\ None \notin Secret
    /\ None \notin ObjectId /\ None \notin ColumnId /\ None \notin Word
    /\ None \notin ConnectionConfig
    /\ None \notin RuleKind /\ None \notin BOOLEAN /\ None \notin Scans

VARIABLES
    db,         \* the database
    req,        \* the request each client is in the middle of
    sent,       \* how many requests have been sent
    mix,        \* the load of this behaviour
    spent,      \* the identifiers handed out so far: a UUID is never reused
    saves,      \* how many scans of a source were saved
    lastScan,   \* history: the last scan saved for a source
    mirror,     \* history: what a reader of schema_changes believes is stored
    doomed,     \* history: the sources some request began to delete
    torn        \* history: the sources whose settings one update overwrote
                \*          with what another had already changed

catalogVars == <<db, req, sent, mix, spent, saves, lastScan, mirror, doomed,
                 torn>>

Idle == [op |-> "idle"]

\* A request of one statement, and one that takes a client.
Serve(kind) ==
    /\ kind \in mix.kinds
    /\ sent < mix.requests
    /\ sent' = sent + 1

Accept(kind, c) == Serve(kind) /\ req[c] = Idle

Finish(c) == req' = [req EXCEPT ![c] = Idle]

EmptySchema == [objects |-> {}, columns |-> {}]

CatalogInit ==
    /\ db = EmptyDatabase
    /\ req = [c \in Client |-> Idle]
    /\ sent = 0
    /\ mix \in Traffic
    /\ spent = {}
    /\ saves = [s \in Source |-> 0]
    /\ lastScan = [s \in Source |-> None]
    /\ mirror = [s \in Source |-> EmptySchema]
    /\ doomed = {}
    /\ torn = {}

(***************************************************************************)
(* Settings of a source.                                                   *)
(***************************************************************************)
CreateSource(s, h, w) ==
    /\ s \notin spent
    /\ Cardinality(spent \cap Source) < mix.sources
    /\ spent' = spent \cup {s}
    /\ db' = CreateDataSource(db, s,
                [host |-> h, config |-> [host |-> h, secret |-> w]])
    /\ UNCHANGED <<req, sent, mix, saves, lastScan, mirror, doomed, torn>>

\* Mutant of RebuiltConfig: only new credentials rebuild the encrypted config.
CredentialsConfig(config, h, w) ==
    IF w = None THEN None ELSE [host |-> Given(h, config.host), secret |-> w]

\* Any of the connection settings rebuilds connection_config from the one
\* that is stored.
RebuiltConfig(config, h, w) ==
    IF h = None /\ w = None THEN None
    ELSE [host |-> Given(h, config.host), secret |-> Given(w, config.secret)]

UpdateSourceRead(c, s, h, w) ==
    /\ Accept("settings", c)
    /\ s \in DOMAIN db.sources
    /\ <<h, w>> # <<None, None>>
    /\ req' = [req EXCEPT ![c] =
          [op |-> "update", source |-> s, host |-> h,
           seen |-> db.sources[s].config,
           config |-> RebuiltConfig(db.sources[s].config, h, w)]]
    /\ UNCHANGED <<db, mix, spent, saves, lastScan, mirror, doomed, torn>>

UpdateSourceWrite(c) ==
    /\ req[c].op = "update"
    /\ Finish(c)
    /\ LET s == req[c].source
       IN  IF s \in DOMAIN db.sources
           THEN /\ db' = UpdateDataSource(db, s, req[c].host, req[c].config)
                /\ torn' = IF db.sources[s].config = req[c].seen
                           THEN torn ELSE torn \cup {s}
           ELSE UNCHANGED <<db, torn>>
    /\ UNCHANGED <<sent, mix, spent, saves, lastScan, mirror, doomed>>

(***************************************************************************)
(* Deletion of a source: seven statements and no transaction.              *)
(***************************************************************************)
DeleteSource(c, s) ==
    /\ Accept("delete", c)
    /\ s \in spent
    /\ req' = [req EXCEPT ![c] =
          [op |-> "delete", source |-> s, next |-> "columns",
           objects |-> ListSchemaObjectsBySource(db, s)]]
    /\ doomed' = doomed \cup {s}
    /\ UNCHANGED <<db, mix, spent, saves, lastScan, mirror, torn>>

Deleting(c, stage) == req[c].op = "delete" /\ req[c].next = stage

DeleteSourceColumns(c, o) ==
    /\ Deleting(c, "columns")
    /\ o \in req[c].objects
    /\ db' = DeleteColumnsByObject(db, o)
    /\ req' = [req EXCEPT ![c].objects = @ \ {o}]
    /\ UNCHANGED <<sent, mix, spent, saves, lastScan, mirror, doomed, torn>>

DeleteSourceObjects(c) ==
    /\ Deleting(c, "columns")
    /\ req[c].objects = {}
    /\ db' = DeleteSchemaObjectsBySource(db, req[c].source)
    /\ req' = [req EXCEPT ![c].next = "changes"]
    /\ UNCHANGED <<sent, mix, spent, saves, lastScan, mirror, doomed, torn>>

DeleteSourceChanges(c) ==
    /\ Deleting(c, "changes")
    /\ db' = DeleteSchemaChangesBySource(db, req[c].source)
    /\ req' = [req EXCEPT ![c].next = "row"]
    /\ UNCHANGED <<sent, mix, spent, saves, lastScan, mirror, doomed, torn>>

DeleteSourceRow(c) ==
    /\ Deleting(c, "row")
    /\ db' = CascadeSource(db, req[c].source)
    /\ Finish(c)
    /\ UNCHANGED <<sent, mix, spent, saves, lastScan, mirror, doomed, torn>>

(***************************************************************************)
(* saveSchema: what a scan changes, and the records it leaves.             *)
(***************************************************************************)
NormalConfidence(x) == IF x = 0 THEN 1 ELSE x

\* Mutant of ScannedSignature: a confidence that is not given is compared
\* as it is.
RawSignature(info) == [type |-> info.type, confidence |-> info.confidence]

\* columnSignatureFromScanner
ScannedSignature(info) ==
    [type |-> info.type, confidence |-> NormalConfidence(info.confidence)]

StoredSignature(row) ==
    [type |-> row.data.type, confidence |-> row.data.confidence]

\* toColumnCreate, toColumnUpdate
StoredData(info) == [info EXCEPT !.confidence = NormalConfidence(@)]

Known(d, s, n) == {o \in ListSchemaObjectsBySource(d, s) : o.name = n}

\* The object a scanned name stands for: the stored one, or a new one.
ObjectOf(d, s, n, k) ==
    IF Known(d, s, n) = {} THEN [source |-> s, name |-> n, scan |-> k]
    ELSE CHOOSE o \in Known(d, s, n) : TRUE

\* What the scan says of a column it contains.
InScan(scan, c) ==
    /\ c.object.name \in DOMAIN scan
    /\ c.column \in DOMAIN scan[c.object.name].columns

InfoOf(scan, c) == scan[c.object.name].columns[c.column]

NewObjects(d, s, scan, k) ==
    {ObjectOf(d, s, n, k) : n \in {m \in DOMAIN scan : Known(d, s, m) = {}}}

NewColumns(d, s, scan, k) ==
    {c \in [object : {ObjectOf(d, s, n, k) : n \in DOMAIN scan},
            column : ColumnName, scan : {k}] :
        /\ InScan(scan, c)
        /\ \A b \in DOMAIN d.columns :
              <<b.object, b.column>> # <<c.object, c.column>>}

\* Mutant of Altered: the confidence is not compared.
AlteredType(d, s, scan) ==
    {c \in ColumnsOfSource(d, s) :
        /\ InScan(scan, c)
        /\ d.columns[c].data.type # InfoOf(scan, c).type}

Altered(d, s, scan) ==
    {c \in ColumnsOfSource(d, s) :
        /\ InScan(scan, c)
        /\ StoredSignature(d.columns[c]) # ScannedSignature(InfoOf(scan, c))}

GoneObjects(d, s, scan) ==
    {o \in ListSchemaObjectsBySource(d, s) : o.name \notin DOMAIN scan}

\* Columns that vanished from an object that is still there.
GoneColumns(d, s, scan) ==
    {c \in ColumnsOfSource(d, s) :
        c.object.name \in DOMAIN scan /\ ~InScan(scan, c)}

Record(s, k, kind, o, x, old, new) ==
    [source |-> s, scan |-> k, kind |-> kind, object |-> o, column |-> x,
     old |-> old, new |-> new]

AddedObjectRecords(d, s, scan, k) ==
    {Record(s, k, "add_object", o, None, None, scan[o.name].type) :
        o \in NewObjects(d, s, scan, k)}

\* Mutant of AddedColumnRecords: the columns of a new object are left to its
\* add_object record.
LaterColumnRecords(d, s, scan, k) ==
    {Record(s, k, "add_column", c.object, c.column, None,
            ScannedSignature(InfoOf(scan, c))) :
        c \in {x \in NewColumns(d, s, scan, k) : x.object \in DOMAIN d.objects}}

AddedColumnRecords(d, s, scan, k) ==
    {Record(s, k, "add_column", c.object, c.column, None,
            ScannedSignature(InfoOf(scan, c))) : c \in NewColumns(d, s, scan, k)}

AlteredColumnRecords(d, s, scan, k) ==
    {Record(s, k, "alter_column", c.object, c.column,
            StoredSignature(d.columns[c]), ScannedSignature(InfoOf(scan, c))) :
        c \in Altered(d, s, scan)}

DroppedColumnRecords(d, s, scan, k) ==
    {Record(s, k, "drop_column", c.object, c.column,
            StoredSignature(d.columns[c]), None) : c \in GoneColumns(d, s, scan)}

\* The columns of a dropped object get no record of their own.
DroppedObjectRecords(d, s, scan, k) ==
    {Record(s, k, "drop_object", o, None, d.objects[o].type, None) :
        o \in GoneObjects(d, s, scan)}

ChangeRecords(d, s, scan, k) ==
    AddedObjectRecords(d, s, scan, k) \cup AddedColumnRecords(d, s, scan, k)
      \cup AlteredColumnRecords(d, s, scan, k)
      \cup DroppedColumnRecords(d, s, scan, k)
      \cup DroppedObjectRecords(d, s, scan, k)

\* The objects of the scan, created or updated.  A changed type leaves no
\* record.
SavedObjects(d, s, scan, k) ==
    [o \in {ObjectOf(d, s, n, k) : n \in DOMAIN scan} |->
        [type |-> scan[o.name].type]]

\* toColumnCreate
CreatedColumns(d, s, scan, k) ==
    [c \in NewColumns(d, s, scan, k) |->
        [data |-> StoredData(InfoOf(scan, c)), term |-> None]]

\* toColumnUpdate, which leaves the term alone.
UpdatedColumns(d, s, scan) ==
    [c \in Altered(d, s, scan) |->
        [d.columns[c] EXCEPT !.data = StoredData(InfoOf(scan, c))]]

\* Mutant of DropGone: the edges of the columns of a dropped object stay.
DropGoneKeepingEdges(d, s, scan) ==
    LET cols == GoneColumns(d, s, scan)
        objs == GoneObjects(d, s, scan)
    IN  CascadeObjects(CascadeColumns(
            DeleteLineageEdgesByNode(d, cols \cup objs), cols), objs)

\* What vanished is deleted, its lineage edges first.
DropGone(d, s, scan) ==
    LET cols == GoneColumns(d, s, scan)
        objs == GoneObjects(d, s, scan)
        theirs == {c \in DOMAIN d.columns : c.object \in objs}
    IN  CascadeObjects(CascadeColumns(
            DeleteLineageEdgesByNode(d, cols \cup objs \cup theirs), cols), objs)

\* Mutant of SavedSchema: every scanned column is deleted and created again.
ReplacedSchema(d, s, scan, k) ==
    LET bare == CascadeColumns(DropGone(d, s, scan), ColumnsOfSource(d, s))
    IN  [bare EXCEPT !.objects = Over(SavedObjects(d, s, scan, k), @),
                     !.columns = Over(CreatedColumns(bare, s, scan, k), @),
                     !.changes = @ \cup ChangeRecords(d, s, scan, k)]

\* The transaction as a whole.
SavedSchema(d, s, scan, k) ==
    [DropGone(d, s, scan) EXCEPT
        !.objects = Over(SavedObjects(d, s, scan, k), @),
        !.columns = Over(CreatedColumns(d, s, scan, k),
                         Over(UpdatedColumns(d, s, scan), @)),
        !.changes = @ \cup ChangeRecords(d, s, scan, k)]

\* What a reader who follows schema_changes makes of one scan's records.
Follow(schema, records) ==
    LET of(kinds) == {r \in records : r.kind \in kinds}
        dropped == {r.object : r \in of({"drop_object"})}
    IN  [objects |-> (schema.objects
                        \cup {r.object : r \in of({"add_object"})}) \ dropped,
         columns |-> {x \in schema.columns :
                        /\ x.object \notin dropped
                        /\ \A r \in of({"drop_column", "alter_column"}) :
                              <<r.object, r.column>> # <<x.object, x.column>>}
                     \cup {[object |-> r.object, column |-> r.column,
                            signature |-> r.new] :
                              r \in of({"add_column", "alter_column"})}]

\* The transaction of saveSchema and what follows it.
StoreScan(s, scan) ==
    /\ s \in DOMAIN db.sources
    /\ saves[s] < mix.saved
    /\ LET k == saves[s] + 1
       IN  /\ db' = SavedSchema(db, s, scan, k)
           /\ saves' = [saves EXCEPT ![s] = k]
           /\ mirror' = [mirror EXCEPT ![s] =
                 Follow(@, {r \in ListSchemaChangesBySource(db', s) : r.scan = k})]
    /\ lastScan' = [lastScan EXCEPT ![s] = scan]

\* A scan taken at once.  Scanner.tla has the steps of one.
SaveSchema(s, scan) ==
    /\ scan \in mix.scans
    /\ StoreScan(s, scan)
    /\ UNCHANGED <<req, sent, mix, spent, doomed, torn>>

(***************************************************************************)
(* Mappings and lineage.                                                   *)
(***************************************************************************)
MapColumns(c1, c2) ==
    /\ Serve("link")
    /\ {c1, c2} \subseteq DOMAIN db.columns
    /\ db' = CreateColumnMapping(db, c1, c2)
    /\ UNCHANGED <<req, mix, spent, saves, lastScan, mirror, doomed, torn>>

UnmapColumns(m) ==
    /\ Serve("link")
    /\ m \in db.mappings
    /\ db' = DeleteColumnMapping(db, m)
    /\ UNCHANGED <<req, mix, spent, saves, lastScan, mirror, doomed, torn>>

\* No service creates edges: a job outside the program fills the table.
ImportEdge(n1, n2) ==
    /\ Serve("link")
    /\ {n1, n2} \subseteq DOMAIN db.columns \cup DOMAIN db.objects
    /\ n1 # n2
    /\ db' = CreateLineageEdge(db, n1, n2)
    /\ UNCHANGED <<req, mix, spent, saves, lastScan, mirror, doomed, torn>>

(***************************************************************************)
(* What the reads return.                                                  *)
(***************************************************************************)
\* GetSchemaTree, which reads object by object.
SchemaTree(d, s) ==
    [n \in {o.name : o \in ListSchemaObjectsBySource(d, s)} |->
        LET o == CHOOSE o \in Known(d, s, n) : TRUE
            cols == ListColumnsByObject(d, o)
        IN  [type |-> d.objects[o].type,
             columns |-> [x \in {c.column : c \in cols} |->
                StoredSignature(d.columns[
                    CHOOSE c \in cols : c.column = x])]]]

\* GetColumnDetail finds the object, the source and the term it needs.
ColumnDetailReadable(d, c) ==
    /\ c \in SearchColumns(d, ColumnName)
    /\ d.columns[c].term \in DOMAIN d.terms \cup {None}

(***************************************************************************)
(* An error, the caller's context or a crash ends a request.               *)
(***************************************************************************)
Abort(c) ==
    /\ req[c] # Idle
    /\ Finish(c)
    /\ UNCHANGED <<db, sent, mix, spent, saves, lastScan, mirror, doomed, torn>>

CatalogNext ==
    \/ \E s \in Source, h \in Host, w \in Secret : CreateSource(s, h, w)
    \/ \E s \in Source, scan \in Scans : SaveSchema(s, scan)
    \/ \E c1, c2 \in DOMAIN db.columns : MapColumns(c1, c2)
    \/ \E m \in db.mappings : UnmapColumns(m)
    \/ \E n1, n2 \in DOMAIN db.columns \cup DOMAIN db.objects :
          ImportEdge(n1, n2)
    \/ \E c \in Client :
          \/ \E s \in Source, h \in Host \cup {None}, w \in Secret \cup {None} :
                UpdateSourceRead(c, s, h, w)
          \/ UpdateSourceWrite(c)
          \/ \E s \in Source : DeleteSource(c, s)
          \/ \E o \in DOMAIN db.objects : DeleteSourceColumns(c, o)
          \/ DeleteSourceObjects(c)
          \/ DeleteSourceChanges(c)
          \/ DeleteSourceRow(c)
=============================================================================
