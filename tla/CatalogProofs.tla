---------------------------- MODULE CatalogProofs ----------------------------
(***************************************************************************)
(* Theorems about the catalogue database: whatever interleaves, references *)
(* stay whole and scans keep what people attached to columns.  StoreProofs *)
(* has the statements one by one; here are saveSchema and the requests.    *)
(***************************************************************************)
EXTENDS CatalogSystem, StoreProofs

(***************************************************************************)
(* saveSchema.                                                             *)
(***************************************************************************)
\* What the deletions of saveSchema make of the tables: columns, objects and
\* their lineage go, and what hangs on the others stays.
Dropped(d, e, cols, objs) ==
    /\ e.sources = d.sources /\ e.terms = d.terms /\ e.tags = d.tags
    /\ e.changes = d.changes
    /\ DOMAIN e.objects = DOMAIN d.objects \ objs
    /\ DOMAIN e.columns =
          {c \in DOMAIN d.columns : c \notin cols /\ c.object \notin objs}
    /\ \A x \in d.columnTags : x.column \in DOMAIN e.columns => x \in e.columnTags
    /\ \A m \in d.mappings :
          {m.from, m.to} \subseteq DOMAIN e.columns => m \in e.mappings
    /\ \A m \in d.edges :
          /\ {m.from, m.to} \cap DOMAIN d.columns \subseteq DOMAIN e.columns
          /\ {m.from, m.to} \cap DOMAIN d.objects \subseteq DOMAIN e.objects
          => m \in e.edges
    /\ \A m \in e.edges : \A n \in {m.from, m.to} :
          /\ m \in d.edges
          /\ n \in DOMAIN d.columns => n \in DOMAIN e.columns
          /\ n \in DOMAIN d.objects => n \in DOMAIN e.objects
    /\ \A r \in DOMAIN d.rules :
          /\ d.rules[r].column \in DOMAIN e.columns \cup {None}
          /\ d.rules[r].object \in DOMAIN e.objects \cup {None}
          => r \in DOMAIN e.rules

LEMMA IdentifiersDiffer == ObjectId \cap ColumnId = {}
BY DEF ObjectId, ColumnId

LEMMA DropGoneSound ==
    ASSUME NEW d, Sound(d), NEW s, NEW scan, NEW e, e = DropGone(d, s, scan)
    PROVE  /\ Sound(e) /\ Pruned(d, e)
           /\ Dropped(d, e, GoneColumns(d, s, scan), GoneObjects(d, s, scan))
<1>a. PICK cols : cols = GoneColumns(d, s, scan)
    OBVIOUS
<1>b. PICK objs : objs = GoneObjects(d, s, scan)
    OBVIOUS
<1>c. PICK theirs : theirs = {c \in DOMAIN d.columns : c.object \in objs}
    OBVIOUS
<1>d. PICK f : f = DeleteLineageEdgesByNode(d, cols \cup objs \cup theirs)
    OBVIOUS
<1>e. PICK g : g = CascadeColumns(f, cols)
    OBVIOUS
<1>f. PICK R : R = {r \in DOMAIN f.rules : f.rules[r].column \in cols}
    OBVIOUS
<1>g. PICK C : C = {c \in DOMAIN g.columns : c.object \in objs}
    OBVIOUS
<1>h. PICK P : P = {r \in DOMAIN g.rules : g.rules[r].column \in C}
    OBVIOUS
<1>i. PICK Q : Q = {r \in DOMAIN g.rules : g.rules[r].object \in objs}
    OBVIOUS
<1>1. e = CascadeObjects(g, objs)
    BY <1>a, <1>b, <1>c, <1>d, <1>e DEF DropGone
<1>2. Sound(f) /\ Pruned(d, f)
    BY <1>d, DeleteLineageEdgesByNodeSound
<1>3. Sound(g) /\ Pruned(f, g) /\ ColumnsGone(f, g, cols, R)
    BY <1>2, <1>e, <1>f, CascadeColumnsSound, CascadeColumnsFields DEF Sound
<1>4. Sound(e) /\ Pruned(g, e) /\ ObjectsGone(g, e, objs, C, P, Q)
    BY <1>1, <1>3, <1>g, <1>h, <1>i, CascadeObjectsSound
<1>5. /\ f.sources = d.sources /\ f.objects = d.objects /\ f.columns = d.columns
      /\ f.terms = d.terms /\ f.tags = d.tags /\ f.rules = d.rules
      /\ f.columnTags = d.columnTags /\ f.mappings = d.mappings
      /\ f.changes = d.changes
      /\ f.edges = {m \in d.edges : /\ m.from \notin cols \cup objs \cup theirs
                                    /\ m.to \notin cols \cup objs \cup theirs}
    BY <1>d DEF DeleteLineageEdgesByNode, Sound, IsDatabase
<1>6. /\ e.sources = d.sources /\ e.terms = d.terms /\ e.tags = d.tags
      /\ e.changes = d.changes /\ e.edges = f.edges
    BY <1>3, <1>4, <1>5 DEF ColumnsGone, ObjectsGone
<1>7. DOMAIN e.objects = DOMAIN d.objects \ objs
    BY <1>3, <1>4, <1>5 DEF ColumnsGone, ObjectsGone, Without, Restrict
<1>8. DOMAIN g.columns = DOMAIN d.columns \ cols
    BY <1>3, <1>5 DEF ColumnsGone, Without, Restrict
<1>9. DOMAIN e.columns = DOMAIN g.columns \ C
    BY <1>4 DEF ObjectsGone, Without, Restrict
<1>10. \A c : c \in DOMAIN e.columns <=>
              c \in DOMAIN d.columns /\ c \notin cols /\ c.object \notin objs
    BY <1>8, <1>9, <1>g
<1>11. ASSUME NEW x \in d.columnTags, x.column \in DOMAIN e.columns
       PROVE  x \in e.columnTags
    BY <1>3, <1>4, <1>5, <1>9, <1>10, <1>11 DEF ColumnsGone, ObjectsGone
<1>12. ASSUME NEW m \in d.mappings, {m.from, m.to} \subseteq DOMAIN e.columns
       PROVE  m \in e.mappings
    BY <1>3, <1>4, <1>5, <1>9, <1>10, <1>12 DEF ColumnsGone, ObjectsGone
<1>13. /\ cols \cup theirs \subseteq DOMAIN d.columns \ DOMAIN e.columns
       /\ objs \subseteq DOMAIN d.objects \ DOMAIN e.objects
    BY <1>a, <1>b, <1>c, <1>7, <1>10 DEF GoneColumns, GoneObjects, ColumnsOfSource,
       ListSchemaObjectsBySource
<1>14. ASSUME NEW m \in d.edges,
              {m.from, m.to} \cap DOMAIN d.columns \subseteq DOMAIN e.columns,
              {m.from, m.to} \cap DOMAIN d.objects \subseteq DOMAIN e.objects
       PROVE  m \in e.edges
    BY <1>5, <1>6, <1>13, <1>14
<1>15. ASSUME NEW r \in DOMAIN d.rules,
              d.rules[r].column \in DOMAIN e.columns \cup {None},
              d.rules[r].object \in DOMAIN e.objects \cup {None}
       PROVE  r \in DOMAIN e.rules
    <2>1. cols \subseteq ColumnId /\ C \subseteq ColumnId /\ objs \subseteq ObjectId
        BY <1>a, <1>b, <1>g, <1>8 DEF GoneColumns, GoneObjects, ColumnsOfSource,
           ListSchemaObjectsBySource, Sound, DatabaseOK, IsTable
    <2>2. d.rules[r].column \notin cols \cup C /\ d.rules[r].object \notin objs
        BY <2>1, <1>7, <1>9, <1>10, <1>15, CatalogAssumption
    <2>3. r \notin R
        BY <2>2, <1>5, <1>f
    <2>4. r \in DOMAIN g.rules /\ g.rules[r] = d.rules[r]
        BY <2>3, <1>3, <1>5 DEF ColumnsGone, Without, Restrict
    <2>5. r \notin P \cup Q
        BY <2>2, <2>4, <1>h, <1>i
    <2> QED
        BY <2>4, <2>5, <1>4 DEF ObjectsGone, Without, Restrict
<1>16. DOMAIN e.columns =
          {c \in DOMAIN d.columns : c \notin cols /\ c.object \notin objs}
    BY <1>10
<1>19. ASSUME NEW m \in e.edges, NEW n \in {m.from, m.to}
       PROVE  /\ m \in d.edges
              /\ n \in DOMAIN d.columns => n \in DOMAIN e.columns
              /\ n \in DOMAIN d.objects => n \in DOMAIN e.objects
    BY <1>c, <1>5, <1>6, <1>7, <1>10
<1>17. Dropped(d, e, cols, objs)
    BY <1>6, <1>7, <1>11, <1>12, <1>14, <1>15, <1>16, <1>19 DEF Dropped
<1>18. Pruned(d, e)
    BY <1>2, <1>3, <1>4, PrunedTwice
<1> QED
    BY <1>4, <1>17, <1>18, <1>a, <1>b

\* h is f, and g where f says nothing.
Overlaid(h, f, g, Id, Row) ==
    /\ IsTable(h, Id, Row)
    /\ DOMAIN h = DOMAIN f \cup DOMAIN g
    /\ \A x \in DOMAIN f : h[x] = f[x]
    /\ \A x \in DOMAIN g \ DOMAIN f : h[x] = g[x]

LEMMA OverTable ==
    ASSUME NEW Id, NEW Row, NEW f, NEW g, IsTable(f, Id, Row), IsTable(g, Id, Row)
    PROVE  Overlaid(Over(f, g), f, g, Id, Row)
BY DEF IsTable, Over, Overlaid

\* A scanned name stands for an object of its source with that name: one that
\* is stored when there is one.
LEMMA ObjectOfName ==
    ASSUME NEW d, Sound(d), NEW s \in Source, NEW n \in ObjectName, NEW k \in ScanNo
    PROVE  /\ ObjectOf(d, s, n, k) \in ObjectId
           /\ ObjectOf(d, s, n, k).source = s
           /\ ObjectOf(d, s, n, k).name = n
           /\ \/ ObjectOf(d, s, n, k) \in DOMAIN d.objects
              \/ \A o \in DOMAIN d.objects : <<o.source, o.name>> # <<s, n>>
<1>1. \A o \in Known(d, s, n) :
          o \in DOMAIN d.objects /\ o \in ObjectId /\ o.source = s /\ o.name = n
    BY DEF Known, ListSchemaObjectsBySource, Sound, DatabaseOK, IsTable
<1>2. CASE Known(d, s, n) = {}
    <2>1. ObjectOf(d, s, n, k) = [source |-> s, name |-> n, scan |-> k]
        BY <1>2 DEF ObjectOf
    <2>2. \A o \in DOMAIN d.objects : <<o.source, o.name>> # <<s, n>>
        BY <1>2 DEF Known, ListSchemaObjectsBySource
    <2> QED
        BY <2>1, <2>2 DEF ObjectId
<1>3. CASE Known(d, s, n) # {}
    <2>1. ObjectOf(d, s, n, k) \in Known(d, s, n)
        BY <1>3 DEF ObjectOf
    <2> QED
        BY <2>1, <1>1
<1> QED
    BY <1>2, <1>3

LEMMA ScannedInfo ==
    ASSUME NEW scan, IsScan(scan), NEW c, InScan(scan, c)
    PROVE  /\ InfoOf(scan, c) \in ColumnInfo
           /\ StoredData(InfoOf(scan, c)) \in ColumnInfo
           /\ ScannedSignature(InfoOf(scan, c)) \in Signature
           /\ StoredSignature([data |-> StoredData(InfoOf(scan, c)), term |-> None])
                = ScannedSignature(InfoOf(scan, c))
<1>1. InfoOf(scan, c) \in ColumnInfo
    BY DEF IsScan, IsTable, InScan, InfoOf
<1> QED
    BY <1>1 DEF ColumnInfo, StoredData, NormalConfidence, ScannedSignature,
       Signature, StoredSignature

\* The columns a scan creates are in its objects, and no stored column has
\* their object and name.
LEMMA NewColumnsAre ==
    ASSUME NEW d, Sound(d), NEW s \in Source, NEW scan, IsScan(scan), NEW k \in ScanNo,
           NEW c \in NewColumns(d, s, scan, k)
    PROVE  /\ c \in ColumnId /\ c.scan = k /\ InScan(scan, c)
           /\ c.object \in {ObjectOf(d, s, n, k) : n \in DOMAIN scan}
           /\ \A b \in DOMAIN d.columns :
                 <<b.object, b.column>> # <<c.object, c.column>>
<1>1. \A n \in DOMAIN scan : ObjectOf(d, s, n, k) \in ObjectId
    BY ObjectOfName DEF IsScan
<1>2. /\ c \in [object : {ObjectOf(d, s, n, k) : n \in DOMAIN scan},
                column : ColumnName, scan : {k}]
      /\ InScan(scan, c)
      /\ \A b \in DOMAIN d.columns :
            <<b.object, b.column>> # <<c.object, c.column>>
    BY DEF NewColumns
<1> QED
    BY <1>1, <1>2 DEF ColumnId

LEMMA SavedTables ==
    ASSUME NEW d, Sound(d), NEW s \in Source, NEW scan, IsScan(scan), NEW k \in ScanNo
    PROVE  /\ IsTable(SavedObjects(d, s, scan, k), ObjectId, SchemaObjectRow)
           /\ IsTable(CreatedColumns(d, s, scan, k), ColumnId, ColumnRow)
           /\ IsTable(UpdatedColumns(d, s, scan), ColumnId, ColumnRow)
<1>1. IsTable(SavedObjects(d, s, scan, k), ObjectId, SchemaObjectRow)
    <2>1. \A n \in DOMAIN scan : /\ ObjectOf(d, s, n, k) \in ObjectId
                                 /\ ObjectOf(d, s, n, k).name = n
                                 /\ scan[n].type \in ObjectType
        BY ObjectOfName DEF IsScan
    <2> QED
        BY <2>1 DEF SavedObjects, IsTable, SchemaObjectRow
<1>2. IsTable(CreatedColumns(d, s, scan, k), ColumnId, ColumnRow)
    <2>1. \A c \in NewColumns(d, s, scan, k) :
              c \in ColumnId /\ StoredData(InfoOf(scan, c)) \in ColumnInfo
        BY NewColumnsAre, ScannedInfo
    <2> QED
        BY <2>1 DEF CreatedColumns, IsTable, ColumnRow
<1>3. IsTable(UpdatedColumns(d, s, scan), ColumnId, ColumnRow)
    <2>1. \A c \in Altered(d, s, scan) :
              /\ c \in DOMAIN d.columns /\ InScan(scan, c)
              /\ c \in ColumnId /\ d.columns[c] \in ColumnRow
        BY DEF Altered, ColumnsOfSource, Sound, DatabaseOK, IsTable
    <2>2. \A c \in Altered(d, s, scan) : StoredData(InfoOf(scan, c)) \in ColumnInfo
        BY <2>1, ScannedInfo
    <2> QED
        BY <2>1, <2>2 DEF UpdatedColumns, IsTable, ColumnRow
<1> QED
    BY <1>1, <1>2, <1>3

LEMMA RecordsTyped ==
    ASSUME NEW d, Sound(d), NEW s \in Source, NEW scan, IsScan(scan), NEW k \in ScanNo
    PROVE  /\ ChangeRecords(d, s, scan, k) \subseteq ChangeRow
           /\ \A ch \in ChangeRecords(d, s, scan, k) : ch.source = s /\ ch.scan = k
<1> DEFINE Good(X) == \A ch \in X : ch \in ChangeRow /\ ch.source = s /\ ch.scan = k
<1>1. Good(AddedObjectRecords(d, s, scan, k))
    <2>1. \A o \in NewObjects(d, s, scan, k) :
              o \in ObjectId /\ scan[o.name].type \in ObjectType
        BY ObjectOfName DEF NewObjects, IsScan
    <2> QED
        BY <2>1 DEF AddedObjectRecords, Record, ChangeRow, ChangeType
<1>2. Good(AddedColumnRecords(d, s, scan, k))
    <2>1. ASSUME NEW c \in NewColumns(d, s, scan, k)
          PROVE  /\ c.object \in ObjectId /\ c.column \in ColumnName
                 /\ ScannedSignature(InfoOf(scan, c)) \in Signature
        <3>1. c \in ColumnId /\ InScan(scan, c)
            BY NewColumnsAre
        <3> QED
            BY <3>1, ScannedInfo DEF ColumnId
    <2> QED
        BY <2>1 DEF AddedColumnRecords, Record, ChangeRow, ChangeType
<1>3. \A c \in DOMAIN d.columns : /\ c.object \in ObjectId /\ c.column \in ColumnName
                                  /\ StoredSignature(d.columns[c]) \in Signature
    BY DEF Sound, DatabaseOK, IsTable, ColumnId, ColumnRow, ColumnInfo,
       StoredSignature, Signature
<1>4. Good(AlteredColumnRecords(d, s, scan, k))
    <2>1. \A c \in Altered(d, s, scan) :
              /\ c \in DOMAIN d.columns
              /\ ScannedSignature(InfoOf(scan, c)) \in Signature
        BY ScannedInfo DEF Altered, ColumnsOfSource
    <2> QED
        BY <1>3, <2>1 DEF AlteredColumnRecords, Record, ChangeRow, ChangeType
<1>5. Good(DroppedColumnRecords(d, s, scan, k))
    <2>1. GoneColumns(d, s, scan) \subseteq DOMAIN d.columns
        BY DEF GoneColumns, ColumnsOfSource
    <2> QED
        BY <1>3, <2>1 DEF DroppedColumnRecords, Record, ChangeRow, ChangeType
<1>6. Good(DroppedObjectRecords(d, s, scan, k))
    <2>1. \A o \in GoneObjects(d, s, scan) :
              o \in ObjectId /\ d.objects[o].type \in ObjectType
        BY DEF GoneObjects, ListSchemaObjectsBySource, Sound, DatabaseOK, IsTable,
           SchemaObjectRow
    <2> QED
        BY <2>1 DEF DroppedObjectRecords, Record, ChangeRow, ChangeType
<1> QED
    BY <1>1, <1>2, <1>4, <1>5, <1>6 DEF ChangeRecords

\* SavedSchema, table by table.
LEMMA SavedSchemaFields ==
    ASSUME NEW d, NEW s, NEW scan, NEW k, NEW e, e = SavedSchema(d, s, scan, k),
           NEW f, f = DropGone(d, s, scan), IsDatabase(f)
    PROVE  /\ IsDatabase(e)
           /\ e.sources = f.sources /\ e.terms = f.terms /\ e.tags = f.tags
           /\ e.rules = f.rules /\ e.columnTags = f.columnTags
           /\ e.mappings = f.mappings /\ e.edges = f.edges /\ e.results = f.results
           /\ e.objects = Over(SavedObjects(d, s, scan, k), f.objects)
           /\ e.columns = Over(CreatedColumns(d, s, scan, k),
                              Over(UpdatedColumns(d, s, scan), f.columns))
           /\ e.changes = f.changes \cup ChangeRecords(d, s, scan, k)
BY DEF SavedSchema, IsDatabase

\* What a saved scan leaves of the columns and objects.
LEMMA SavedSchemaKeys ==
    ASSUME NEW d, Sound(d), NEW s \in Source, NEW scan, IsScan(scan), NEW k \in ScanNo,
           NEW e, e = SavedSchema(d, s, scan, k), NEW f, f = DropGone(d, s, scan)
    PROVE  /\ DOMAIN e.objects = DOMAIN f.objects \cup
                                   {ObjectOf(d, s, n, k) : n \in DOMAIN scan}
           /\ DOMAIN e.columns = DOMAIN f.columns \cup NewColumns(d, s, scan, k)
           /\ \A c \in DOMAIN f.columns : e.columns[c].term = d.columns[c].term
           /\ \A c \in NewColumns(d, s, scan, k) : e.columns[c].term = None
           /\ IsTable(e.objects, ObjectId, SchemaObjectRow)
           /\ IsTable(e.columns, ColumnId, ColumnRow)
<1> DEFINE SO == SavedObjects(d, s, scan, k)
           CC == CreatedColumns(d, s, scan, k)
           UC == UpdatedColumns(d, s, scan)
<1>1. /\ Sound(f) /\ Pruned(d, f)
      /\ Dropped(d, f, GoneColumns(d, s, scan), GoneObjects(d, s, scan))
    BY DropGoneSound
<1>2. e.objects = Over(SO, f.objects) /\ e.columns = Over(CC, Over(UC, f.columns))
    BY <1>1, SavedSchemaFields DEF Sound
<1>3. /\ DOMAIN SO = {ObjectOf(d, s, n, k) : n \in DOMAIN scan}
      /\ DOMAIN CC = NewColumns(d, s, scan, k)
      /\ \A c \in NewColumns(d, s, scan, k) : CC[c].term = None
      /\ DOMAIN UC = Altered(d, s, scan)
      /\ \A c \in Altered(d, s, scan) : UC[c].term = d.columns[c].term
    <2>1. \A c \in Altered(d, s, scan) : d.columns[c] \in ColumnRow
        BY DEF Altered, ColumnsOfSource, Sound, DatabaseOK, IsTable
    <2> QED
        BY <2>1 DEF SavedObjects, CreatedColumns, UpdatedColumns, ColumnRow
<1>4. /\ IsTable(SO, ObjectId, SchemaObjectRow) /\ IsTable(CC, ColumnId, ColumnRow)
      /\ IsTable(UC, ColumnId, ColumnRow)
    BY SavedTables
<1>5. IsTable(f.objects, ObjectId, SchemaObjectRow) /\ IsTable(f.columns, ColumnId, ColumnRow)
    BY <1>1 DEF Sound, DatabaseOK
<1>6. \A c \in DOMAIN f.columns : c \in DOMAIN d.columns /\ f.columns[c] = d.columns[c]
    BY <1>1 DEF Pruned, Part
<1>7. Altered(d, s, scan) \subseteq DOMAIN f.columns
    BY <1>1 DEF Altered, Dropped, GoneColumns, GoneObjects, InScan, ColumnsOfSource,
       ListSchemaObjectsBySource
<1>8. NewColumns(d, s, scan, k) \cap DOMAIN d.columns = {}
    BY DEF NewColumns
<1> HIDE DEF SO, CC, UC
<1>9. /\ DOMAIN Over(UC, f.columns) = DOMAIN f.columns
      /\ IsTable(Over(UC, f.columns), ColumnId, ColumnRow)
      /\ \A c \in DOMAIN f.columns : Over(UC, f.columns)[c].term = d.columns[c].term
    <2>1. Overlaid(Over(UC, f.columns), UC, f.columns, ColumnId, ColumnRow)
        BY <1>4, <1>5, OverTable
    <2> QED
        BY <2>1, <1>3, <1>6, <1>7 DEF Overlaid
<1>10. Overlaid(e.columns, CC, Over(UC, f.columns), ColumnId, ColumnRow)
    BY <1>2, <1>4, <1>9, OverTable
<1>11. Overlaid(e.objects, SO, f.objects, ObjectId, SchemaObjectRow)
    BY <1>2, <1>4, <1>5, OverTable
<1> QED
    BY <1>3, <1>6, <1>8, <1>9, <1>10, <1>11 DEF Overlaid

LEMMA SavedSchemaSound ==
    ASSUME NEW d, Sound(d), NEW s \in DOMAIN d.sources, NEW scan, IsScan(scan),
           NEW k \in ScanNo, NEW e, e = SavedSchema(d, s, scan, k)
    PROVE  Sound(e)
<1>s. s \in Source
    BY DEF Sound, DatabaseOK, IsTable
<1>a. PICK f : f = DropGone(d, s, scan)
    OBVIOUS
<1>b. PICK SOb : SOb = {ObjectOf(d, s, n, k) : n \in DOMAIN scan}
    OBVIOUS
<1>c. PICK New : New = NewColumns(d, s, scan, k)
    OBVIOUS
<1>1. /\ Sound(f) /\ Pruned(d, f)
      /\ Dropped(d, f, GoneColumns(d, s, scan), GoneObjects(d, s, scan))
    BY <1>a, DropGoneSound
<1>2. /\ IsDatabase(e)
      /\ e.sources = f.sources /\ e.terms = f.terms /\ e.tags = f.tags
      /\ e.rules = f.rules /\ e.columnTags = f.columnTags
      /\ e.mappings = f.mappings /\ e.edges = f.edges /\ e.results = f.results
      /\ e.changes = f.changes \cup ChangeRecords(d, s, scan, k)
    BY <1>1, <1>a, SavedSchemaFields DEF Sound
<1>3. /\ DOMAIN e.objects = DOMAIN f.objects \cup SOb
      /\ DOMAIN e.columns = DOMAIN f.columns \cup New
      /\ \A c \in DOMAIN f.columns : e.columns[c].term = d.columns[c].term
      /\ \A c \in New : e.columns[c].term = None
      /\ IsTable(e.objects, ObjectId, SchemaObjectRow)
      /\ IsTable(e.columns, ColumnId, ColumnRow)
    BY <1>a, <1>b, <1>c, <1>s, SavedSchemaKeys
<1>4. /\ ChangeRecords(d, s, scan, k) \subseteq ChangeRow
      /\ \A ch \in ChangeRecords(d, s, scan, k) : ch.source = s
    BY <1>s, RecordsTyped
<1>5. /\ DOMAIN f.objects \subseteq DOMAIN d.objects
      /\ DOMAIN f.columns \subseteq DOMAIN d.columns
      /\ \A c \in DOMAIN f.columns : f.columns[c] = d.columns[c]
      /\ f.sources = d.sources
    BY <1>1 DEF Pruned, Part, Dropped
<1>6. \A o \in SOb : /\ o.source = s
                     /\ \/ o \in DOMAIN d.objects
                        \/ \A p \in DOMAIN d.objects :
                              <<p.source, p.name>> # <<o.source, o.name>>
    BY <1>b, <1>s, ObjectOfName DEF IsScan
<1>7. \A o, p \in SOb : o.name = p.name => o = p
    BY <1>b, <1>s, ObjectOfName DEF IsScan
<1>8. \A c \in New : /\ c.object \in SOb /\ c.scan = k /\ c \in ColumnId
                     /\ \A b \in DOMAIN d.columns :
                           <<b.object, b.column>> # <<c.object, c.column>>
    BY <1>b, <1>c, <1>s, NewColumnsAre
<1>9. DatabaseOK(e)
    BY <1>1, <1>2, <1>3, <1>4 DEF Sound, DatabaseOK
<1>10. ForeignKeysHold(e)
    <2>1. \A o \in DOMAIN e.objects : o.source \in DOMAIN e.sources
        BY <1>1, <1>2, <1>3, <1>5, <1>6 DEF Sound, ForeignKeysHold
    <2>2. \A c \in DOMAIN e.columns :
              /\ c.object \in DOMAIN e.objects
              /\ e.columns[c].term \in DOMAIN e.terms \cup {None}
        BY <1>1, <1>2, <1>3, <1>5, <1>8 DEF Sound, ForeignKeysHold
    <2>3. \A ch \in e.changes : ch.source \in DOMAIN e.sources
        BY <1>1, <1>2, <1>4, <1>5 DEF Sound, ForeignKeysHold
    <2> QED
        BY <2>1, <2>2, <2>3, <1>1, <1>2, <1>3 DEF Sound, ForeignKeysHold
<1>11. NamesUnique(e)
    <2>1. ASSUME NEW o \in DOMAIN e.objects, NEW p \in DOMAIN e.objects,
                 <<o.source, o.name>> = <<p.source, p.name>>
          PROVE  o = p
        BY <2>1, <1>3, <1>5, <1>6, <1>7 DEF Sound, NamesUnique
    <2>2. ASSUME NEW b \in DOMAIN e.columns, NEW c \in DOMAIN e.columns,
                 <<b.object, b.column>> = <<c.object, c.column>>
          PROVE  b = c
        <3>1. CASE b \in New /\ c \in New
            BY <3>1, <2>2, <1>8 DEF ColumnId
        <3>2. CASE ~(b \in New /\ c \in New)
            BY <3>2, <2>2, <1>3, <1>5, <1>8 DEF Sound, NamesUnique
        <3> QED
            BY <3>1, <3>2
    <2> QED
        BY <2>1, <2>2, <1>1, <1>2 DEF Sound, NamesUnique
<1> QED
    BY <1>2, <1>9, <1>10, <1>11 DEF Sound

(***************************************************************************)
(* The invariant: the database is sound, a rule about a column is about    *)
(* nothing else, the settings in flight are those they were rebuilt from,  *)
(* and requests and sources hold what they should.                         *)
(***************************************************************************)
RulesScoped(d) ==
    \A r \in DOMAIN d.rules : d.rules[r].column # None => d.rules[r].object = None

UpdateRequest(q) ==
    /\ q = [op |-> "update", source |-> q.source, host |-> q.host, seen |-> q.seen,
            config |-> q.config]
    /\ q.source \in Source /\ q.host \in Host \cup {None}
    /\ q.seen \in ConnectionConfig /\ q.config \in ConnectionConfig
    /\ q.config.host = Given(q.host, q.seen.host)

DeleteRequest(q) ==
    /\ q = [op |-> "delete", source |-> q.source, next |-> q.next,
            objects |-> q.objects]
    /\ q.source \in Source

TagRequest(q) ==
    /\ \/ q = [op |-> "create_tag", tag |-> q.tag, name |-> q.name]
       \/ q = [op |-> "update_tag", tag |-> q.tag, name |-> q.name]
       \/ q = [op |-> "mcp_create_tag", call |-> q.call, tag |-> q.tag,
               name |-> q.name]
    /\ q.tag \in Tag /\ q.name \in Word

TaggingRequest(q) ==
    q = [op |-> "tagging", call |-> q.call, column |-> q.column, left |-> q.left,
         writes |-> q.writes]

CheckRequest(q) ==
    /\ q.op = "check" /\ {"batch", "no", "todo", "total", "stored"} \subseteq DOMAIN q
    /\ q.batch \in Batch /\ q.no \in Nat
    /\ q.total \in Tables \cup {None}
    /\ q.stored \in ResultRow \cup {None}

ScanRequest(q) ==
    /\ q.op = "scan" /\ {"found", "todo", "always"} \subseteq DOMAIN q
    /\ q.source \in Source /\ IsScan(q.found)
    /\ q.todo \subseteq [name: ObjectName, type: ObjectType]

RequestOK(q) ==
    \/ q = Idle
    \/ UpdateRequest(q) \/ DeleteRequest(q)
    \/ q = [op |-> "delete_term", term |-> q.term]
    \/ TagRequest(q) \/ TaggingRequest(q)
    \/ q = [op |-> "audit", call |-> q.call, action |-> q.action, writes |-> q.writes]
    \/ CheckRequest(q) \/ ScanRequest(q)

RequestsTyped == DOMAIN req = Client /\ \A c \in Client : RequestOK(req[c])

ContentOK(content) ==
    \/ IsDump(content)
    \/ /\ IsScan(content)
       /\ \A n \in DOMAIN content : "docs" \notin DOMAIN content[n]

LiveTyped == DOMAIN live = Source /\ \A s \in Source : ContentOK(live[s])

CountsTyped ==
    /\ mix \in Traffic /\ sent \in 0 .. mix.requests
    /\ saves \in [Source -> 0 .. MaxScans]
    /\ doomed \cup torn \subseteq Source
    /\ table \in Tables
    /\ publishing \cup events \cup lost \subseteq ResultRow

StoreInv == Sound(db) /\ RulesScoped(db) /\ HostShownIsHostUsed

CatalogInv == StoreInv /\ RequestsTyped /\ LiveTyped /\ CountsTyped

(***************************************************************************)
(* The database.                                                           *)
(***************************************************************************)
LEMMA FrameKept ==
    ASSUME StoreInv, Sound(db'), SourcesKept(db, db'), ScopesKept(db, db'),
           torn \subseteq torn'
    PROVE  StoreInv'
<1>1. RulesScoped(db')
    BY DEF StoreInv, RulesScoped, ScopesKept
<1>2. HostShownIsHostUsed'
    BY DEF StoreInv, HostShownIsHostUsed, SourcesKept, Part
<1> QED
    BY <1>1, <1>2 DEF StoreInv

LEMMA SameDatabase == StoreInv /\ UNCHANGED <<db, torn>> => StoreInv'
BY DEF StoreInv, HostShownIsHostUsed

LEMMA PrunedDatabase ==
    ASSUME StoreInv, Sound(db'), Pruned(db, db'), torn' = torn PROVE StoreInv'
BY PrunedFrame, FrameKept

LEMMA StoreScanKeeps ==
    ASSUME StoreInv, CountsTyped, NEW s, NEW scan, IsScan(scan), StoreScan(s, scan),
           torn' = torn
    PROVE  StoreInv'
<1> DEFINE k == saves[s] + 1
<1>a. Sound(db) /\ s \in DOMAIN db.sources /\ s \in Source
    BY DEF StoreInv, StoreScan, Sound, DatabaseOK, IsTable
<1>1. k \in ScanNo
    BY <1>a, CatalogAssumption DEF StoreScan, CountsTyped, ScanNo
<1>2. db' = SavedSchema(db, s, scan, k)
    BY DEF StoreScan
<1>3. Sound(db')
    BY <1>1, <1>2, <1>a, SavedSchemaSound
<1>b. PICK f : f = DropGone(db, s, scan)
    OBVIOUS
<1>4. Sound(f) /\ Pruned(db, f)
    BY <1>a, <1>b, DropGoneSound
<1>5. db'.sources = f.sources /\ db'.rules = f.rules
    BY <1>2, <1>4, <1>b, SavedSchemaFields DEF Sound
<1>6. SourcesKept(db, db') /\ ScopesKept(db, db')
    BY <1>4, <1>5, PrunedFrame DEF SourcesKept, ScopesKept
<1> QED
    BY <1>3, <1>6, FrameKept

LEMMA CatalogStore ==
    ASSUME CatalogInv, CatalogNext PROVE StoreInv'
<1>a. StoreInv /\ Sound(db) /\ RequestsTyped /\ CountsTyped
    BY DEF CatalogInv, StoreInv
<1>1. ASSUME NEW s \in Source, NEW h \in Host, NEW w \in Secret, CreateSource(s, h, w)
      PROVE  StoreInv'
    <2> DEFINE row == [host |-> h, config |-> [host |-> h, secret |-> w]]
    <2>1. row \in DataSourceRow
        BY DEF DataSourceRow, ConnectionConfig
    <2>2. db' = CreateDataSource(db, s, row) /\ torn' = torn
        BY <1>1 DEF CreateSource
    <2>3. Sound(db') /\ ScopesKept(db, db')
        BY <1>a, <2>1, <2>2, CreateDataSourceSound
    <2>4. db'.sources = Put(db.sources, s, row)
        BY <1>a, <2>2 DEF CreateDataSource, Sound, IsDatabase
    <2>5. HostShownIsHostUsed'
        BY <1>a, <2>2, <2>4 DEF StoreInv, HostShownIsHostUsed, Put
    <2>6. RulesScoped(db')
        BY <1>a, <2>3 DEF StoreInv, RulesScoped, ScopesKept
    <2> QED
        BY <2>3, <2>5, <2>6 DEF StoreInv
<1>2. ASSUME NEW s \in Source, NEW scan \in Scans, SaveSchema(s, scan)
      PROVE  StoreInv'
    BY <1>2, <1>a, CatalogAssumption, StoreScanKeeps DEF SaveSchema
<1>3. ASSUME NEW c1 \in DOMAIN db.columns, NEW c2 \in DOMAIN db.columns,
             MapColumns(c1, c2)
      PROVE  StoreInv'
    BY <1>3, <1>a, CreateColumnMappingSound, FrameKept DEF MapColumns
<1>4. ASSUME NEW m \in db.mappings, UnmapColumns(m) PROVE StoreInv'
    BY <1>4, <1>a, DeleteColumnMappingSound, PrunedDatabase DEF UnmapColumns
<1>5. ASSUME NEW n1 \in DOMAIN db.columns \cup DOMAIN db.objects,
             NEW n2 \in DOMAIN db.columns \cup DOMAIN db.objects, ImportEdge(n1, n2)
      PROVE  StoreInv'
    BY <1>5, <1>a, CreateLineageEdgeSound, FrameKept DEF ImportEdge
<1>6. ASSUME NEW c \in Client, NEW s \in Source, NEW h, NEW w,
             UpdateSourceRead(c, s, h, w) \/ DeleteSource(c, s)
      PROVE  StoreInv'
    BY <1>6, <1>a, SameDatabase DEF UpdateSourceRead, DeleteSource
<1>7. ASSUME NEW c \in Client, UpdateSourceWrite(c) PROVE StoreInv'
    <2> DEFINE s == req[c].source
    <2>1. UpdateRequest(req[c])
        BY <1>7, <1>a DEF UpdateSourceWrite, RequestsTyped, RequestOK, DeleteRequest,
           TagRequest, TaggingRequest, CheckRequest, ScanRequest, Idle
    <2>2. CASE s \notin DOMAIN db.sources
        BY <2>2, <1>7, <1>a, SameDatabase DEF UpdateSourceWrite
    <2>3. CASE s \in DOMAIN db.sources
        <3>1. /\ db' = UpdateDataSource(db, s, req[c].host, req[c].config)
              /\ torn' = IF db.sources[s].config = req[c].seen
                         THEN torn ELSE torn \cup {s}
            BY <2>3, <1>7 DEF UpdateSourceWrite
        <3>2. Sound(db') /\ ScopesKept(db, db')
            BY <1>a, <2>1, <2>3, <3>1, UpdateDataSourceSound DEF UpdateRequest
        <3>3. db'.sources = [db.sources EXCEPT ![s] =
                                [host   |-> Given(req[c].host, @.host),
                                 config |-> Given(req[c].config, @.config)]]
            BY <1>a, <3>1 DEF UpdateDataSource, Sound, IsDatabase
        <3>4. HostShownIsHostUsed'
            <4>1. Given(req[c].config, db.sources[s].config) = req[c].config
                BY <2>1, CatalogAssumption DEF UpdateRequest, Given
            <4>2. /\ DOMAIN db'.sources = DOMAIN db.sources
                  /\ \A x \in DOMAIN db.sources \ {s} : db'.sources[x] = db.sources[x]
                  /\ db'.sources[s].host = Given(req[c].host, db.sources[s].host)
                  /\ db'.sources[s].config = req[c].config
                BY <2>3, <3>3, <4>1
            <4>3. CASE db.sources[s].config = req[c].seen
                BY <1>a, <2>1, <2>3, <3>1, <4>2, <4>3
                   DEF StoreInv, HostShownIsHostUsed, UpdateRequest, Given
            <4>4. CASE db.sources[s].config # req[c].seen
                BY <1>a, <3>1, <4>2, <4>4 DEF StoreInv, HostShownIsHostUsed
            <4> QED
                BY <4>3, <4>4
        <3>5. RulesScoped(db')
            BY <1>a, <3>2 DEF StoreInv, RulesScoped, ScopesKept
        <3> QED
            BY <3>2, <3>4, <3>5 DEF StoreInv
    <2> QED
        BY <2>2, <2>3
<1>8. ASSUME NEW c \in Client, NEW o \in DOMAIN db.objects, DeleteSourceColumns(c, o)
      PROVE  StoreInv'
    BY <1>8, <1>a, CascadeColumnsSound, PrunedDatabase
       DEF DeleteSourceColumns, DeleteColumnsByObject
<1>9. ASSUME NEW c \in Client, DeleteSourceObjects(c) PROVE StoreInv'
    BY <1>9, <1>a, CascadeObjectsSound, PrunedDatabase
       DEF DeleteSourceObjects, DeleteSchemaObjectsBySource
<1>10. ASSUME NEW c \in Client, DeleteSourceChanges(c) PROVE StoreInv'
    BY <1>10, <1>a, DeleteSchemaChangesBySourceSound, PrunedDatabase
       DEF DeleteSourceChanges
<1>11. ASSUME NEW c \in Client, DeleteSourceRow(c) PROVE StoreInv'
    BY <1>11, <1>a, CascadeSourceSound, PrunedDatabase DEF DeleteSourceRow
<1> QED
    BY <1>1, <1>2, <1>3, <1>4, <1>5, <1>6, <1>7, <1>8, <1>9, <1>10, <1>11
       DEF CatalogNext

LEMMA RequestsByName ==
    ASSUME RequestsTyped, NEW c \in Client
    PROVE  /\ req[c].op \in RequestOps
           /\ req[c].op \in {"create_tag", "update_tag", "mcp_create_tag"}
                 => TagRequest(req[c])
           /\ req[c].op = "check" => CheckRequest(req[c])
           /\ req[c].op = "scan" => ScanRequest(req[c])
           /\ req[c].op = "tagging" => TaggingRequest(req[c])
           /\ req[c].op = "update" => UpdateRequest(req[c])
           /\ req[c].op = "delete" => DeleteRequest(req[c])
BY DEF RequestsTyped, RequestOK, UpdateRequest, DeleteRequest, TagRequest,
   TaggingRequest, CheckRequest, ScanRequest, Idle, RequestOps

LEMMA NameFreeOthers ==
    ASSUME NEW f, NEW id, NEW w, NameFree(Without(f, {id}), w)
    PROVE  \A x \in DOMAIN f \ {id} : f[x].name # w
BY DEF NameFree, Without, Restrict

LEMMA GlossaryStore ==
    ASSUME CatalogInv, GlossaryNext PROVE StoreInv'
<1>a. StoreInv /\ Sound(db) /\ RequestsTyped /\ CountsTyped
    BY DEF CatalogInv, StoreInv
<1>1. ASSUME NEW t \in Term, NEW w \in Word, CreateTerm(t, w) PROVE StoreInv'
    BY <1>1, <1>a, CreateBusinessTermSound, FrameKept DEF CreateTerm, NameFree,
       schemaVars
<1>2. ASSUME NEW t \in Term, NEW w \in Word, UpdateTerm(t, w) PROVE StoreInv'
    <2>1. \A u \in DOMAIN db.terms \ {t} : db.terms[u].name # w
        BY <1>2, NameFreeOthers DEF UpdateTerm
    <2> QED
        BY <1>2, <2>1, <1>a, CatalogAssumption, UpdateBusinessTermSound, FrameKept
           DEF UpdateTerm, schemaVars
<1>3. ASSUME NEW x \in DOMAIN db.columns, NEW t, AssignTerm(x, t) PROVE StoreInv'
    BY <1>3, <1>a, AssignTermToColumnSound, FrameKept
       DEF AssignTerm, CanAssign, schemaVars
<1>4. ASSUME NEW g \in Tag, DeleteTag(g) PROVE StoreInv'
    BY <1>4, <1>a, CascadeTagSound, PrunedDatabase DEF DeleteTag, schemaVars
<1>5. ASSUME NEW x \in DOMAIN db.columns, NEW g \in Tag, AddTag(x, g) PROVE StoreInv'
    BY <1>5, <1>a, AddTagToColumnSound, FrameKept DEF AddTag, schemaVars
<1>6. ASSUME NEW x \in DOMAIN db.columns, NEW g \in Tag, RemoveTag(x, g)
      PROVE  StoreInv'
    BY <1>6, <1>a, RemoveTagFromColumnSound, PrunedDatabase DEF RemoveTag, schemaVars
<1>7. ASSUME NEW c \in Client, NEW t \in Term, DeleteTermClear(c, t) PROVE StoreInv'
    BY <1>7, <1>a, ClearTermAssociationsSound, FrameKept DEF DeleteTermClear, schemaVars
<1>8. ASSUME NEW c \in Client, DeleteTermRow(c) PROVE StoreInv'
    <2> DEFINE t == req[c].term
    <2>1. CASE \E x \in DOMAIN db.columns : db.columns[x].term = t
        BY <1>8, <2>1, <1>a, SameDatabase DEF DeleteTermRow, schemaVars
    <2>2. CASE ~\E x \in DOMAIN db.columns : db.columns[x].term = t
        BY <1>8, <2>2, <1>a, DeleteBusinessTermRowSound, PrunedDatabase
           DEF DeleteTermRow, schemaVars
    <2> QED
        BY <2>1, <2>2
<1>9. ASSUME NEW c \in Client, NEW g, NEW w,
             \/ CreateTagCheck(c, g, w) \/ UpdateTagCheck(c, g, w)
             \/ McpCreateTag(c, g, w)
      PROVE  StoreInv'
    BY <1>9, <1>a, SameDatabase DEF CreateTagCheck, UpdateTagCheck, McpCreateTag,
       schemaVars
<1>10. ASSUME NEW c \in Client, CreateTagInsert(c) \/ McpInsertTag(c) PROVE StoreInv'
    <2>1. TagRequest(req[c])
        BY <1>10, <1>a, RequestsByName DEF CreateTagInsert, McpInsertTag
    <2>2. CASE NameFree(db.tags, req[c].name)
        BY <1>10, <2>1, <2>2, <1>a, CreateTagSound, FrameKept
           DEF CreateTagInsert, McpInsertTag, NameFree, TagRequest, schemaVars
    <2>3. CASE ~NameFree(db.tags, req[c].name)
        BY <1>10, <2>3, <1>a, SameDatabase DEF CreateTagInsert, McpInsertTag, schemaVars
    <2> QED
        BY <2>2, <2>3
<1>11. ASSUME NEW c \in Client, UpdateTagWrite(c) PROVE StoreInv'
    <2> DEFINE g == req[c].tag
    <2>1. TagRequest(req[c])
        BY <1>11, <1>a, RequestsByName DEF UpdateTagWrite
    <2>2. CASE g \in DOMAIN db.tags /\ NameFree(Without(db.tags, {g}), req[c].name)
        <3>1. \A u \in DOMAIN db.tags \ {g} : db.tags[u].name # req[c].name
            BY <2>2, NameFreeOthers
        <3> QED
            BY <1>11, <2>1, <2>2, <3>1, <1>a, UpdateTagSound, FrameKept
               DEF UpdateTagWrite, TagRequest, schemaVars
    <2>3. CASE ~(g \in DOMAIN db.tags /\ NameFree(Without(db.tags, {g}), req[c].name))
        BY <1>11, <2>3, <1>a, SameDatabase DEF UpdateTagWrite, schemaVars
    <2> QED
        BY <2>2, <2>3
<1>12. ASSUME NEW c \in Client, NEW x, NEW t, McpAssignTerm(c, x, t) PROVE StoreInv'
    BY <1>12, <1>a, AssignTermToColumnSound, FrameKept
       DEF McpAssignTerm, CanAssign, schemaVars
<1>13. ASSUME NEW c \in Client, NEW x, NEW y, McpCreateMapping(c, x, y) PROVE StoreInv'
    BY <1>13, <1>a, CreateColumnMappingSound, FrameKept DEF McpCreateMapping, schemaVars
<1>14. ASSUME NEW c \in Client, NEW t \in Term, NEW w \in Word, McpCreateTerm(c, t, w)
       PROVE  StoreInv'
    BY <1>14, <1>a, CreateBusinessTermSound, FrameKept
       DEF McpCreateTerm, NameFree, schemaVars
<1>15. ASSUME NEW c \in Client, NEW g, McpAttachTag(c, g) PROVE StoreInv'
    <2>1. CASE req[c].column \in DOMAIN db.columns /\ g \in DOMAIN db.tags
        BY <1>15, <2>1, <1>a, AddTagToColumnSound, FrameKept DEF McpAttachTag, schemaVars
    <2>2. CASE ~(req[c].column \in DOMAIN db.columns /\ g \in DOMAIN db.tags)
        BY <1>15, <2>2, <1>a, SameDatabase DEF McpAttachTag, schemaVars
    <2> QED
        BY <2>1, <2>2
<1>16. ASSUME NEW c \in Client, NEW x, NEW tags,
              \/ McpAssignTags(c, x, tags) \/ McpTagsAttached(c) \/ McpPublish(c)
       PROVE  StoreInv'
    BY <1>16, <1>a, SameDatabase DEF McpAssignTags, McpTagsAttached, McpPublish,
       schemaVars
<1> QED
    BY <1>1, <1>2, <1>3, <1>4, <1>5, <1>6, <1>7, <1>8, <1>9, <1>10, <1>11, <1>12,
       <1>13, <1>14, <1>15, <1>16 DEF GlossaryNext

LEMMA RequestReplaced ==
    ASSUME RequestsTyped, NEW c \in Client, NEW q, RequestOK(q),
           req' = [req EXCEPT ![c] = q]
    PROVE  RequestsTyped'
BY DEF RequestsTyped

LEMMA RequestFinished ==
    ASSUME RequestsTyped, NEW c \in Client, Finish(c) PROVE RequestsTyped'
BY RequestReplaced DEF Finish, RequestOK

LEMMA StoreKeeps ==
    ASSUME StoreInv, RequestsTyped, NEW c \in Client, CheckRequest(req[c]),
           NEW status \in {"passed", "failed", "error"}, NEW total \in 0 .. MaxRows,
           NEW bad \in 0 .. MaxRows, Store(c, status, total, bad), torn' = torn
    PROVE  StoreInv' /\ RequestsTyped'
<1> DEFINE rule == Current(c)
           row == [rule |-> rule.id, column |-> rule.column, batch |-> req[c].batch,
                   no |-> req[c].no, status |-> status, total |-> total,
                   failed |-> bad]
<1>1. CASE rule.id \in DOMAIN db.rules /\ rule.column \in DOMAIN db.columns \cup {None}
    <2>1. db' = CreateDQResult(db, row) /\ req' = [req EXCEPT ![c].stored = row]
        BY <1>1 DEF Store
    <2>2. Sound(db)
        BY DEF StoreInv
    <2>3. row \in ResultRow
        BY <1>1, <2>2 DEF CheckRequest, ResultRow, Sound, DatabaseOK, IsTable
    <2>4. StoreInv'
        BY <1>1, <2>1, <2>2, <2>3, CreateDQResultSound, FrameKept
    <2> DEFINE q == [req[c] EXCEPT !.stored = row]
    <2>5. CheckRequest(q)
        BY <2>3 DEF CheckRequest
    <2>6. RequestsTyped'
        BY <2>1, <2>5, RequestReplaced DEF RequestOK
    <2> QED
        BY <2>4, <2>6
<1>2. CASE ~(rule.id \in DOMAIN db.rules /\ rule.column \in DOMAIN db.columns \cup {None})
    BY <1>2, SameDatabase, RequestFinished DEF Store
<1> QED
    BY <1>1, <1>2

LEMMA ScopesTyped ==
    ASSUME NEW d, Sound(d), NEW scope \in Scopes(d), NEW kind \in RuleKinds, NEW row,
           row = [source |-> scope.source, object |-> scope.object,
                  column |-> scope.column, kind |-> kind, config |-> kind,
                  active |-> TRUE]
    PROVE  /\ row \in RuleRow
           /\ row.source \in DOMAIN d.sources \cup {None}
           /\ row.object \in DOMAIN d.objects \cup {None}
           /\ row.column \in DOMAIN d.columns \cup {None}
           /\ row.column # None => row.object = None
<1>1. /\ DOMAIN d.sources \subseteq Source /\ DOMAIN d.objects \subseteq ObjectId
      /\ DOMAIN d.columns \subseteq ColumnId
    BY DEF Sound, DatabaseOK, IsTable
<1>2. /\ scope.source \in DOMAIN d.sources \cup {None}
      /\ scope.object \in DOMAIN d.objects \cup {None}
      /\ scope.column \in DOMAIN d.columns \cup {None}
      /\ scope.column # None => scope.object = None
    BY DEF Scopes
<1> QED
    BY <1>1, <1>2, QualityAssumption DEF RuleRow

LEMMA CountedRows ==
    ASSUME NEW rule, NEW t \in Tables, NEW bad \in FailingRows(rule, t)
    PROVE  bad \in 0 .. MaxRows
<1>1. t.bad \in 0 .. MaxRows /\ 0 \in 0 .. MaxRows
    BY CatalogAssumption DEF Tables
<1> QED
    BY <1>1 DEF FailingRows, RegexFinds

LEMMA QualityStore ==
    ASSUME CatalogInv, QualityNext PROVE StoreInv'
<1>a. StoreInv /\ Sound(db) /\ RequestsTyped /\ CountsTyped
    BY DEF CatalogInv, StoreInv
<1>1. ASSUME NEW r \in Rule, NEW scope \in Scopes(db), NEW kind \in RuleKinds,
             CreateRule(r, scope, kind)
      PROVE  StoreInv'
    <2> DEFINE row == [source |-> scope.source, object |-> scope.object,
                       column |-> scope.column, kind |-> kind, config |-> kind,
                       active |-> TRUE]
    <2>1. db' = CreateDQRule(db, r, row) /\ torn' = torn
        BY <1>1 DEF CreateRule, restVars
    <2>2. /\ row \in RuleRow
          /\ row.source \in DOMAIN db.sources \cup {None}
          /\ row.object \in DOMAIN db.objects \cup {None}
          /\ row.column \in DOMAIN db.columns \cup {None}
          /\ row.column # None => row.object = None
        BY <1>a, ScopesTyped
    <2> HIDE DEF row
    <2>3. Sound(db') /\ SourcesKept(db, db')
        BY <1>a, <2>1, <2>2, CreateDQRuleSound
    <2>4. db'.rules = Put(db.rules, r, row)
        BY <1>a, <2>1 DEF CreateDQRule, Sound, IsDatabase
    <2>5. RulesScoped(db')
        BY <1>a, <2>2, <2>4 DEF StoreInv, RulesScoped, Put
    <2>6. HostShownIsHostUsed'
        BY <1>a, <2>1, <2>3 DEF StoreInv, HostShownIsHostUsed, SourcesKept, Part
    <2> QED
        BY <2>3, <2>5, <2>6 DEF StoreInv
<1>2. ASSUME NEW r \in Rule, NEW kind, NEW config \in RuleKinds \cup {None},
             NEW active \in BOOLEAN \cup {None}, UpdateRule(r, kind, config, active)
      PROVE  StoreInv'
    BY <1>2, <1>a, QualityAssumption, UpdateDQRuleSound, FrameKept
       DEF UpdateRule, restVars
<1>3. ASSUME NEW r \in Rule, DeleteRule(r) PROVE StoreInv'
    BY <1>3, <1>a, CascadeRulesSound, PrunedDatabase DEF DeleteRule, restVars
<1>4. ASSUME NEW c \in Client, NEW b \in Batch, NEW rules \in CheckLists,
             CheckGiven(c, b, rules)
      PROVE  StoreInv'
    BY <1>4, <1>a, SameDatabase DEF CheckGiven, StartCheck, restVars
<1>5. ASSUME NEW c \in Client, CountAll(c) \/ ReadBack(c) \/ CheckAnswers(c)
      PROVE  StoreInv'
    BY <1>5, <1>a, SameDatabase DEF CountAll, ReadBack, CheckAnswers, restVars
<1>6. ASSUME NEW c \in Client, CheckFails(c) PROVE StoreInv'
    <2>1. CheckRequest(req[c])
        BY <1>6, <1>a, RequestsByName DEF CheckFails, Busy
    <2> QED
        BY <1>6, <2>1, <1>a, CatalogAssumption, StoreKeeps DEF CheckFails, restVars
<1>7. ASSUME NEW c \in Client, CountFailing(c) PROVE StoreInv'
    <2>1. CheckRequest(req[c]) /\ req[c].total # None
        BY <1>7, <1>a, RequestsByName DEF CountFailing, Busy
    <2>2. PICK bad \in FailingRows(Current(c), table), n \in 0 .. MaxRows :
             Store(c, StatusOf(n, bad), n, bad)
        BY <1>7, <2>1 DEF CountFailing, CheckRequest, Tables
    <2>3. bad \in 0 .. MaxRows /\ StatusOf(n, bad) \in {"passed", "failed", "error"}
        BY <1>a, CountedRows DEF CountsTyped, StatusOf
    <2> QED
        BY <1>7, <2>1, <2>2, <2>3, <1>a, StoreKeeps DEF CountFailing, restVars
<1>8. ASSUME NEW x, NEW t, PublishFailure(x) \/ LoseFailure(x) \/ TableChanges(t)
      PROVE  StoreInv'
    BY <1>8, <1>a, SameDatabase DEF PublishFailure, LoseFailure, TableChanges, restVars
<1>9. ASSUME NEW c \in Client, NEW b \in Batch, CheckAll(c, b) PROVE StoreInv'
    BY <1>9, <1>a, SameDatabase DEF CheckAll, StartCheck, restVars
<1> QED
    BY <1>1, <1>2, <1>3, <1>4, <1>5, <1>6, <1>7, <1>8, <1>9 DEF QualityNext

LEMMA ScannerStore ==
    ASSUME CatalogInv, ScannerNext PROVE StoreInv'
<1>a. StoreInv /\ Sound(db) /\ RequestsTyped /\ CountsTyped
    BY DEF CatalogInv, StoreInv
<1>1. ASSUME NEW c \in Client, SaveScanned(c) PROVE StoreInv'
    <2>1. ScanRequest(req[c])
        BY <1>1, <1>a, RequestsByName DEF SaveScanned
    <2> QED
        BY <1>1, <2>1, <1>a, StoreScanKeeps DEF SaveScanned, ScanRequest, scannedVars
<1>2. ASSUME NEW c \in Client, NEW s, NEW o, StartScan(c, s) \/ ScanObject(c, o)
      PROVE  StoreInv'
    BY <1>2, <1>a, SameDatabase DEF StartScan, ScanObject, scannedVars
<1>3. ASSUME NEW s, NEW content, SourceChanges(s, content) PROVE StoreInv'
    BY <1>3, <1>a, SameDatabase DEF SourceChanges
<1> QED
    BY <1>1, <1>2, <1>3 DEF ScannerNext

LEMMA StoreSteps == ASSUME CatalogInv, [Next]_vars PROVE StoreInv'
<1>a. StoreInv
    BY DEF CatalogInv
<1>1. ASSUME NEW c \in Client, AbortRequest(c) PROVE StoreInv'
    BY <1>1, <1>a, SameDatabase DEF AbortRequest, Abort
<1>2. CASE UNCHANGED vars
    BY <1>2, <1>a, SameDatabase DEF vars, catalogVars
<1> QED
    BY <1>1, <1>2, CatalogStore, GlossaryStore, QualityStore, ScannerStore DEF Next

(***************************************************************************)
(* Requests and sources.                                                   *)
(***************************************************************************)
LEMMA SameRequests == RequestsTyped /\ UNCHANGED req => RequestsTyped'
BY DEF RequestsTyped

LEMMA CatalogRequests ==
    ASSUME CatalogInv, CatalogNext PROVE RequestsTyped'
<1>a. RequestsTyped /\ Sound(db)
    BY DEF CatalogInv, StoreInv
<1>1. ASSUME NEW c \in Client, NEW s \in Source, NEW h \in Host \cup {None},
             NEW w \in Secret \cup {None}, UpdateSourceRead(c, s, h, w)
      PROVE  RequestsTyped'
    <2> DEFINE old == db.sources[s].config
               q == [op |-> "update", source |-> s, host |-> h, seen |-> old,
                     config |-> RebuiltConfig(old, h, w)]
    <2>1. old \in ConnectionConfig
        BY <1>1, <1>a DEF UpdateSourceRead, Sound, DatabaseOK, IsTable, DataSourceRow
    <2>2. /\ RebuiltConfig(old, h, w) \in ConnectionConfig
          /\ RebuiltConfig(old, h, w).host = Given(h, old.host)
        BY <1>1, <2>1 DEF UpdateSourceRead, RebuiltConfig, ConnectionConfig, Given
    <2>3. UpdateRequest(q)
        BY <2>1, <2>2 DEF UpdateRequest
    <2> QED
        BY <1>1, <1>a, <2>3, RequestReplaced DEF UpdateSourceRead, RequestOK
<1>2. ASSUME NEW c \in Client, UpdateSourceWrite(c) \/ DeleteSourceRow(c)
      PROVE  RequestsTyped'
    BY <1>2, <1>a, RequestFinished DEF UpdateSourceWrite, DeleteSourceRow
<1>3. ASSUME NEW c \in Client, NEW s \in Source, DeleteSource(c, s)
      PROVE  RequestsTyped'
    <2> DEFINE q == [op |-> "delete", source |-> s, next |-> "columns",
                     objects |-> ListSchemaObjectsBySource(db, s)]
    <2>1. RequestOK(q) /\ req' = [req EXCEPT ![c] = q]
        BY <1>3 DEF DeleteSource, RequestOK, DeleteRequest
    <2> QED
        BY <2>1, <1>a, RequestReplaced
<1>4. ASSUME NEW c \in Client, NEW o,
             \/ DeleteSourceColumns(c, o) \/ DeleteSourceObjects(c)
             \/ DeleteSourceChanges(c)
      PROVE  RequestsTyped'
    <2>1. DeleteRequest(req[c])
        BY <1>4, <1>a, RequestsByName DEF DeleteSourceColumns, DeleteSourceObjects,
           DeleteSourceChanges, Deleting
    <2>2. \E q : DeleteRequest(q) /\ req' = [req EXCEPT ![c] = q]
        BY <1>4, <2>1 DEF DeleteSourceColumns, DeleteSourceObjects,
           DeleteSourceChanges, DeleteRequest
    <2> QED
        BY <2>2, <1>a, RequestReplaced DEF RequestOK
<1> QED
    BY <1>1, <1>2, <1>3, <1>4, <1>a, SameRequests
       DEF CatalogNext, CreateSource, SaveSchema, MapColumns, UnmapColumns, ImportEdge

LEMMA GlossaryRequests ==
    ASSUME CatalogInv, GlossaryNext PROVE RequestsTyped'
<1>a. RequestsTyped
    BY DEF CatalogInv
<1>1. ASSUME NEW c \in Client, NEW t \in Term, DeleteTermClear(c, t)
      PROVE  RequestsTyped'
    BY <1>1, <1>a, RequestReplaced DEF DeleteTermClear, RequestOK
<1>2. ASSUME NEW c \in Client,
             \/ DeleteTermRow(c) \/ CreateTagInsert(c) \/ UpdateTagWrite(c)
             \/ McpPublish(c)
      PROVE  RequestsTyped'
    BY <1>2, <1>a, RequestFinished DEF DeleteTermRow, CreateTagInsert,
       UpdateTagWrite, McpPublish
<1>3. ASSUME NEW c \in Client, NEW g \in Tag, NEW w \in Word,
             \/ CreateTagCheck(c, g, w) \/ UpdateTagCheck(c, g, w)
             \/ McpCreateTag(c, g, w)
      PROVE  RequestsTyped'
    <2>1. \E q : TagRequest(q) /\ req' = [req EXCEPT ![c] = q]
        <3>1. CASE CreateTagCheck(c, g, w)
            <4> DEFINE q == [op |-> "create_tag", tag |-> g, name |-> w]
            <4>1. TagRequest(q) /\ req' = [req EXCEPT ![c] = q]
                BY <3>1 DEF CreateTagCheck, TagRequest
            <4> QED
                BY <4>1
        <3>2. CASE UpdateTagCheck(c, g, w)
            <4> DEFINE q == [op |-> "update_tag", tag |-> g, name |-> w]
            <4>1. TagRequest(q) /\ req' = [req EXCEPT ![c] = q]
                BY <3>2 DEF UpdateTagCheck, TagRequest
            <4> QED
                BY <4>1
        <3>3. CASE McpCreateTag(c, g, w)
            <4> DEFINE q == [op |-> "mcp_create_tag", call |-> sent + 1,
                             tag |-> g, name |-> w]
            <4>1. TagRequest(q) /\ req' = [req EXCEPT ![c] = q]
                BY <3>3 DEF McpCreateTag, TagRequest
            <4> QED
                BY <4>1
        <3> QED
            BY <1>3, <3>1, <3>2, <3>3
    <2> QED
        BY <2>1, <1>a, RequestReplaced DEF RequestOK
<1>4. ASSUME NEW c \in Client, McpInsertTag(c) PROVE RequestsTyped'
    BY <1>4, <1>a, RequestFinished, RequestReplaced DEF McpInsertTag, RequestOK
<1>5. ASSUME NEW c \in Client, NEW x, NEW y,
             \/ McpAssignTerm(c, x, y) \/ McpCreateMapping(c, x, y)
             \/ McpCreateTerm(c, x, y)
      PROVE  RequestsTyped'
    BY <1>5, <1>a, RequestReplaced DEF McpAssignTerm, McpCreateMapping, McpCreateTerm,
       ToBeAudited, RequestOK
<1>6. ASSUME NEW c \in Client, NEW x, NEW tags, McpAssignTags(c, x, tags)
      PROVE  RequestsTyped'
    BY <1>6, <1>a, RequestReplaced DEF McpAssignTags, RequestOK, TaggingRequest
<1>7. ASSUME NEW c \in Client, NEW g, McpAttachTag(c, g) PROVE RequestsTyped'
    <2>1. TaggingRequest(req[c])
        BY <1>7, <1>a, RequestsByName DEF McpAttachTag
    <2> DEFINE q == [req[c] EXCEPT !.left = @ \ {g}]
    <2>2. TaggingRequest(q)
        BY <2>1 DEF TaggingRequest
    <2>3. Finish(c) \/ req' = [req EXCEPT ![c] = q]
        BY <1>7 DEF McpAttachTag
    <2> QED
        BY <2>2, <2>3, <1>a, RequestFinished, RequestReplaced DEF RequestOK
<1>8. ASSUME NEW c \in Client, McpTagsAttached(c) PROVE RequestsTyped'
    BY <1>8, <1>a, RequestReplaced DEF McpTagsAttached, RequestOK
<1> QED
    BY <1>1, <1>2, <1>3, <1>4, <1>5, <1>6, <1>7, <1>8, <1>a, SameRequests
       DEF GlossaryNext, CreateTerm, UpdateTerm, AssignTerm, DeleteTag, AddTag, RemoveTag

\* The requests a scan and a check go on with.
LEMMA ScanGoesOn ==
    ASSUME NEW p, ScanRequest(p), NEW found, IsScan(found), NEW todo \in SUBSET p.todo,
           NEW always
    PROVE  /\ ScanRequest([p EXCEPT !.todo = todo, !.found = found])
           /\ ScanRequest([p EXCEPT !.always = always])
BY DEF ScanRequest

LEMMA CheckGoesOn ==
    ASSUME NEW p, CheckRequest(p)
    PROVE  CheckRequest([p EXCEPT !.no = @ + 1, !.total = None, !.stored = None])
BY DEF CheckRequest

LEMMA QualityRequests ==
    ASSUME CatalogInv, QualityNext PROVE RequestsTyped'
<1>a. RequestsTyped /\ StoreInv /\ CountsTyped /\ Sound(db)
    BY DEF CatalogInv, StoreInv
<1>1. ASSUME NEW c \in Client, NEW b \in Batch, NEW rules, StartCheck(c, b, rules)
      PROVE  RequestsTyped'
    <2> DEFINE q == [op |-> "check", batch |-> b, no |-> 1, todo |-> Rows(db, rules),
                     total |-> None, stored |-> None]
    <2>1. CheckRequest(q) /\ req' = [req EXCEPT ![c] = q]
        BY <1>1 DEF StartCheck, CheckRequest
    <2> QED
        BY <2>1, <1>a, RequestReplaced DEF RequestOK
<1>2. ASSUME NEW c \in Client, CountAll(c) PROVE RequestsTyped'
    <2> DEFINE q == [req[c] EXCEPT !.total = table]
    <2>1. CheckRequest(req[c])
        BY <1>2, <1>a, RequestsByName DEF CountAll, Busy
    <2>2. CheckRequest(q) /\ req' = [req EXCEPT ![c] = q]
        BY <1>2, <2>1, <1>a DEF CountAll, CheckRequest, CountsTyped
    <2> QED
        BY <2>2, <1>a, RequestReplaced DEF RequestOK
<1>3. ASSUME NEW c \in Client, CheckFails(c) PROVE RequestsTyped'
    <2>1. CheckRequest(req[c])
        BY <1>3, <1>a, RequestsByName DEF CheckFails, Busy
    <2> QED
        BY <1>3, <2>1, <1>a, CatalogAssumption, StoreKeeps DEF CheckFails, restVars
<1>4. ASSUME NEW c \in Client, CountFailing(c) PROVE RequestsTyped'
    <2>1. CheckRequest(req[c]) /\ req[c].total # None
        BY <1>4, <1>a, RequestsByName DEF CountFailing, Busy
    <2>2. PICK bad \in FailingRows(Current(c), table), n \in 0 .. MaxRows :
             Store(c, StatusOf(n, bad), n, bad)
        BY <1>4, <2>1 DEF CountFailing, CheckRequest, Tables
    <2>3. bad \in 0 .. MaxRows /\ StatusOf(n, bad) \in {"passed", "failed", "error"}
        BY <1>a, CountedRows DEF CountsTyped, StatusOf
    <2> QED
        BY <1>4, <2>1, <2>2, <2>3, <1>a, StoreKeeps DEF CountFailing, restVars
<1>5. ASSUME NEW c \in Client, ReadBack(c) PROVE RequestsTyped'
    <2> DEFINE q == [req[c] EXCEPT !.no = @ + 1, !.total = None, !.stored = None]
    <2>1. CheckRequest(req[c])
        BY <1>5, <1>a, RequestsByName DEF ReadBack
    <2>2. CheckRequest(q)
        BY <2>1, CheckGoesOn
    <2>3. req' = [req EXCEPT ![c] = q]
        BY <1>5, <2>1, <1>a DEF ReadBack, RequestsTyped
    <2> QED
        BY <2>2, <2>3, <1>a, RequestReplaced DEF RequestOK
<1>6. ASSUME NEW c \in Client, CheckAnswers(c) PROVE RequestsTyped'
    BY <1>6, <1>a, RequestFinished DEF CheckAnswers
<1> QED
    BY <1>1, <1>2, <1>3, <1>4, <1>5, <1>6, <1>a, SameRequests
       DEF QualityNext, CheckAll, CheckGiven, CreateRule, UpdateRule, DeleteRule,
           PublishFailure, LoseFailure, TableChanges

\* What a query for columns answers has column names and column data.
LEMMA ColumnsAnswered ==
    ASSUME LiveTyped, NEW s \in Source, NEW n, NEW columns \in getColumns(s, n)
    PROVE  IsTable(columns, ColumnName, ColumnInfo)
<1>1. CASE n \notin DOMAIN live[s]
    BY <1>1 DEF getColumns, NoRows, IsTable
<1>2. CASE n \in DOMAIN live[s] /\ "docs" \in DOMAIN live[s][n]
    <2> DEFINE docs == live[s][n].docs
    <2>1. \A i \in DOMAIN docs : IsTable(docs[i], ColumnName, DataType)
        BY <1>2 DEF LiveTyped, ContentOK, IsDump
    <2>2. columns \in inferCollectionSchema(docs)
        BY <1>2 DEF getColumns
    <2> HIDE DEF docs
    <2>3. PICK I \in SUBSET DOMAIN docs : columns \in InferredColumns(Restrict(docs, I))
        BY <2>2 DEF inferCollectionSchema
    <2> DEFINE some == Restrict(docs, I)
    <2>4. \A i \in DOMAIN some : IsTable(some[i], ColumnName, DataType)
        BY <2>1, <2>3 DEF Restrict
    <2> HIDE DEF some
    <2> DEFINE fields == UNION {DOMAIN some[i] : i \in DOMAIN some}
    <2>5. fields \subseteq ColumnName
        BY <2>4 DEF IsTable
    <2>6. PICK f \in [fields -> DataType] :
              columns = [x \in fields |-> InferColumn(some, x, f[x])]
        BY <2>3 DEF InferredColumns, some
    <2> HIDE DEF fields
    <2>7. \A x \in fields : InferColumn(some, x, f[x]) \in ColumnInfo
        BY DEF InferColumn, ColumnInfo
    <2> QED
        BY <2>5, <2>6, <2>7 DEF IsTable
<1>3. CASE n \in DOMAIN live[s] /\ "docs" \notin DOMAIN live[s][n]
    BY <1>3 DEF getColumns, LiveTyped, ContentOK, IsDump, IsScan
<1> QED
    BY <1>1, <1>2, <1>3

LEMMA ScannerRequests ==
    ASSUME CatalogInv, ScannerNext PROVE RequestsTyped'
<1>a. RequestsTyped /\ LiveTyped
    BY DEF CatalogInv
<1>1. ASSUME NEW c \in Client, NEW s \in Source, StartScan(c, s) PROVE RequestsTyped'
    <2> DEFINE q == [op |-> "scan", source |-> s, found |-> NoRows,
                     todo |-> {[name |-> n, type |-> live[s][n].type] :
                                  n \in DOMAIN live[s]},
                     always |-> Evident(live[s])]
    <2>1. \A n \in DOMAIN live[s] : n \in ObjectName /\ live[s][n].type \in ObjectType
        BY <1>a DEF LiveTyped, ContentOK, IsDump, IsScan
    <2>2. IsScan(NoRows)
        BY DEF IsScan, NoRows
    <2>3. ScanRequest(q) /\ req' = [req EXCEPT ![c] = q]
        BY <1>1, <2>1, <2>2 DEF StartScan, ScanRequest
    <2> QED
        BY <2>3, <1>a, RequestReplaced DEF RequestOK
<1>2. ASSUME NEW c \in Client, NEW o, ScanObject(c, o) PROVE RequestsTyped'
    <2>1. ScanRequest(req[c])
        BY <1>2, <1>a, RequestsByName DEF ScanObject
    <2>2. PICK columns \in getColumns(req[c].source, o.name) :
             req' = [req EXCEPT ![c].todo = @ \ {o},
                       ![c].found = Put(@, o.name,
                                        [type |-> o.type, columns |-> columns])]
        BY <1>2 DEF ScanObject
    <2> DEFINE found == Put(req[c].found, o.name, [type |-> o.type, columns |-> columns])
               q == [req[c] EXCEPT !.todo = @ \ {o}, !.found = found]
    <2>3. IsTable(columns, ColumnName, ColumnInfo)
        BY <2>1, <1>a, ColumnsAnswered DEF ScanRequest
    <2>4. o.name \in ObjectName /\ o.type \in ObjectType
        BY <1>2, <2>1 DEF ScanObject, ScanRequest
    <2>5. IsScan(found)
        BY <2>1, <2>3, <2>4 DEF ScanRequest, IsScan, Put
    <2> HIDE DEF found
    <2>6. ScanRequest(q)
        BY <2>1, <2>5, ScanGoesOn
    <2>7. req' = [req EXCEPT ![c] = q]
        BY <2>1, <2>2, <1>a DEF ScanRequest, found, RequestsTyped
    <2> QED
        BY <2>6, <2>7, <1>a, RequestReplaced DEF RequestOK
<1>3. ASSUME NEW c \in Client, SaveScanned(c) PROVE RequestsTyped'
    BY <1>3, <1>a, RequestFinished DEF SaveScanned
<1>4. ASSUME NEW s, NEW content, SourceChanges(s, content) PROVE RequestsTyped'
    <2>1. DOMAIN req' = Client
        BY <1>4 DEF SourceChanges
    <2>2. ASSUME NEW c \in Client PROVE RequestOK(req'[c])
        <3>1. CASE Scanning(c, s)
            <4> DEFINE q == [req[c] EXCEPT !.always = @ \cap Evident(content)]
            <4>1. ScanRequest(req[c])
                BY <3>1, <1>a, RequestsByName DEF Scanning
            <4>2. ScanRequest(q)
                BY <4>1, ScanGoesOn DEF ScanRequest
            <4>3. req'[c] = q
                BY <1>4, <3>1 DEF SourceChanges
            <4> QED
                BY <4>2, <4>3 DEF RequestOK
        <3>2. CASE ~Scanning(c, s)
            BY <1>4, <3>2, <1>a DEF SourceChanges, RequestsTyped
        <3> QED
            BY <3>1, <3>2
    <2> QED
        BY <2>1, <2>2 DEF RequestsTyped
<1> QED
    BY <1>1, <1>2, <1>3, <1>4 DEF ScannerNext

LEMMA RequestSteps == ASSUME CatalogInv, [Next]_vars PROVE RequestsTyped'
<1>a. RequestsTyped
    BY DEF CatalogInv
<1>1. ASSUME NEW c \in Client, AbortRequest(c) PROVE RequestsTyped'
    BY <1>1, <1>a, RequestFinished DEF AbortRequest, Abort
<1>2. CASE UNCHANGED vars
    BY <1>2, <1>a, SameRequests DEF vars, catalogVars
<1> QED
    BY <1>1, <1>2, CatalogRequests, GlossaryRequests, QualityRequests,
       ScannerRequests DEF Next

LEMMA LoadsAre ==
    ASSUME mix \in Traffic
    PROVE  /\ mix.requests \in Nat /\ mix.saved \in 0 .. MaxScans
           /\ \A content \in mix.contents : ContentOK(content)
BY CatalogAssumption, ScannerAssumption DEF ContentOK

LEMMA LiveSteps == ASSUME CatalogInv, [Next]_vars PROVE LiveTyped'
<1>a. LiveTyped /\ mix \in Traffic
    BY DEF CatalogInv, CountsTyped
<1>1. ASSUME NEW s \in DOMAIN db.sources, NEW content \in mix.contents,
             SourceChanges(s, content)
      PROVE  LiveTyped'
    BY <1>1, <1>a, LoadsAre DEF SourceChanges, LiveTyped
<1>2. ASSUME UNCHANGED live PROVE LiveTyped'
    BY <1>2, <1>a DEF LiveTyped
<1> QED
    BY <1>1, <1>2 DEF Next, vars, ScannerNext, AbortRequest, StartScan, ScanObject,
       SaveScanned

\* The variables of CountsTyped but sent and saves.
typedVars == <<mix, doomed, torn, table, publishing, events, lost>>

LEMMA CountsKept ==
    ASSUME CountsTyped, UNCHANGED <<typedVars, saves>>, NEW kind,
           sent' = sent \/ Serve(kind)
    PROVE  CountsTyped'
BY LoadsAre DEF CountsTyped, typedVars, Serve

LEMMA StoreScanCounts ==
    ASSUME CountsTyped, NEW s \in Source, NEW scan, StoreScan(s, scan),
           UNCHANGED <<typedVars, sent>>
    PROVE  CountsTyped'
<1>1. /\ saves[s] < mix.saved /\ saves' = [saves EXCEPT ![s] = saves[s] + 1]
    BY DEF StoreScan
<1>2. mix.saved \in 0 .. MaxScans /\ MaxScans \in Nat
    BY LoadsAre, CatalogAssumption DEF CountsTyped
<1>3. saves' \in [Source -> 0 .. MaxScans]
    BY <1>1, <1>2 DEF CountsTyped
<1> QED
    BY <1>3 DEF CountsTyped, typedVars

LEMMA CatalogCounts ==
    ASSUME CatalogInv, CatalogNext, UNCHANGED <<table, publishing, events, lost>>
    PROVE  CountsTyped'
<1>a. CountsTyped /\ RequestsTyped
    BY DEF CatalogInv
<1>1. ASSUME NEW s \in Source, NEW scan, SaveSchema(s, scan) PROVE CountsTyped'
    BY <1>1, <1>a, StoreScanCounts DEF SaveSchema, typedVars
<1>2. ASSUME NEW c \in Client, NEW s \in Source, DeleteSource(c, s) PROVE CountsTyped'
    <2>1. doomed' \cup torn' \subseteq Source
        BY <1>2, <1>a DEF DeleteSource, CountsTyped
    <2> QED
        BY <1>2, <1>a, <2>1, LoadsAre DEF DeleteSource, Accept, Serve, CountsTyped
<1>3. ASSUME NEW c \in Client, UpdateSourceWrite(c) PROVE CountsTyped'
    <2>1. req[c].source \in Source
        BY <1>3, <1>a, RequestsByName DEF UpdateSourceWrite, UpdateRequest
    <2>2. torn' \subseteq Source
        BY <1>3, <2>1, <1>a DEF UpdateSourceWrite, CountsTyped
    <2> QED
        BY <1>3, <1>a, <2>2 DEF UpdateSourceWrite, CountsTyped
<1>4. ASSUME UNCHANGED <<mix, doomed, torn, saves>>, NEW kind,
             sent' = sent \/ Serve(kind)
      PROVE  CountsTyped'
    BY <1>4, <1>a, CountsKept DEF typedVars
<1>5. ASSUME NEW s, NEW h, NEW w, CreateSource(s, h, w) PROVE CountsTyped'
    BY <1>5, <1>4 DEF CreateSource
<1>6. ASSUME NEW x, NEW y, MapColumns(x, y) \/ UnmapColumns(x) \/ ImportEdge(x, y)
      PROVE  CountsTyped'
    BY <1>6, <1>4 DEF MapColumns, UnmapColumns, ImportEdge
<1>7. ASSUME NEW c \in Client, NEW s, NEW h, NEW w, UpdateSourceRead(c, s, h, w)
      PROVE  CountsTyped'
    BY <1>7, <1>4 DEF UpdateSourceRead, Accept
<1>8. ASSUME NEW c \in Client, NEW o,
             \/ DeleteSourceColumns(c, o) \/ DeleteSourceObjects(c)
             \/ DeleteSourceChanges(c) \/ DeleteSourceRow(c)
      PROVE  CountsTyped'
    BY <1>8, <1>4 DEF DeleteSourceColumns, DeleteSourceObjects, DeleteSourceChanges,
       DeleteSourceRow
<1> QED
    BY <1>1, <1>2, <1>3, <1>5, <1>6, <1>7, <1>8 DEF CatalogNext

LEMMA GlossaryCounts ==
    ASSUME CatalogInv, GlossaryNext, UNCHANGED <<table, publishing, events, lost>>
    PROVE  CountsTyped'
<1>a. CountsTyped
    BY DEF CatalogInv
<1>1. ASSUME NEW kind, sent' = sent \/ Serve(kind), UNCHANGED schemaVars
      PROVE  CountsTyped'
    BY <1>1, <1>a, CountsKept DEF typedVars, schemaVars
<1>2. ASSUME NEW t, NEW w, NEW x,
             \/ CreateTerm(t, w) \/ UpdateTerm(t, w) \/ AssignTerm(x, t)
      PROVE  CountsTyped'
    BY <1>2, <1>1 DEF CreateTerm, UpdateTerm, AssignTerm
<1>3. ASSUME NEW g, NEW x, DeleteTag(g) \/ AddTag(x, g) \/ RemoveTag(x, g)
      PROVE  CountsTyped'
    BY <1>3, <1>1 DEF DeleteTag, AddTag, RemoveTag
<1>4. ASSUME NEW c, NEW t, NEW w,
             \/ DeleteTermClear(c, t) \/ CreateTagCheck(c, t, w)
             \/ UpdateTagCheck(c, t, w) \/ McpCreateTag(c, t, w)
      PROVE  CountsTyped'
    BY <1>4, <1>1 DEF DeleteTermClear, CreateTagCheck, UpdateTagCheck, McpCreateTag,
       Accept
<1>5. ASSUME NEW c, NEW g,
             \/ DeleteTermRow(c) \/ CreateTagInsert(c) \/ UpdateTagWrite(c)
             \/ McpInsertTag(c) \/ McpAttachTag(c, g) \/ McpTagsAttached(c)
             \/ McpPublish(c)
      PROVE  CountsTyped'
    BY <1>5, <1>1 DEF DeleteTermRow, CreateTagInsert, UpdateTagWrite, McpInsertTag,
       McpAttachTag, McpTagsAttached, McpPublish
<1>6. ASSUME NEW c, NEW x, NEW y,
             \/ McpAssignTerm(c, x, y) \/ McpCreateMapping(c, x, y)
             \/ McpCreateTerm(c, x, y) \/ McpAssignTags(c, x, y)
      PROVE  CountsTyped'
    BY <1>6, <1>1 DEF McpAssignTerm, McpCreateMapping, McpCreateTerm, McpAssignTags,
       Accept
<1> QED
    BY <1>2, <1>3, <1>4, <1>5, <1>6 DEF GlossaryNext

LEMMA QualityCounts == ASSUME CatalogInv, QualityNext PROVE CountsTyped'
<1>a. CountsTyped /\ RequestsTyped /\ Sound(db)
    BY DEF CatalogInv, StoreInv
<1>1. ASSUME NEW kind, sent' = sent \/ Serve(kind), UNCHANGED <<restVars, qualityVars>>
      PROVE  CountsTyped'
    BY <1>1, <1>a, CountsKept DEF typedVars, restVars, qualityVars
<1>2. ASSUME NEW r, NEW x, NEW y, NEW z,
             CreateRule(r, x, y) \/ UpdateRule(r, x, y, z) \/ DeleteRule(r)
      PROVE  CountsTyped'
    BY <1>2, <1>1 DEF CreateRule, UpdateRule, DeleteRule
<1>3. ASSUME NEW c \in Client, NEW b, NEW x,
             StartCheck(c, b, x) \/ CountAll(c) \/ CheckFails(c)
      PROVE  CountsTyped'
    BY <1>3, <1>1 DEF StartCheck, CountAll, CheckFails, Accept
<1>4. ASSUME NEW c \in Client, CountFailing(c) \/ CheckAnswers(c) PROVE CountsTyped'
    BY <1>4, <1>a, CountsKept DEF CountFailing, CheckAnswers, typedVars, restVars
<1>5. ASSUME NEW c \in Client, ReadBack(c) PROVE CountsTyped'
    <2>1. db.results \subseteq ResultRow
        BY <1>a DEF Sound, DatabaseOK
    <2>2. publishing' \subseteq ResultRow
        BY <1>5, <2>1, <1>a DEF ReadBack, ResultsOf, CountsTyped
    <2> QED
        BY <1>5, <2>2, <1>a DEF ReadBack, CountsTyped, restVars
<1>6. ASSUME NEW x \in publishing, PublishFailure(x) \/ LoseFailure(x)
      PROVE  CountsTyped'
    BY <1>6, <1>a DEF PublishFailure, LoseFailure, CountsTyped, restVars
<1>7. ASSUME NEW t \in Tables, TableChanges(t) PROVE CountsTyped'
    BY <1>7, <1>a, LoadsAre DEF TableChanges, CountsTyped, restVars, Serve
<1> QED
    BY <1>2, <1>3, <1>4, <1>5, <1>6, <1>7 DEF QualityNext, CheckAll, CheckGiven

LEMMA ScannerCounts ==
    ASSUME CatalogInv, ScannerNext, UNCHANGED <<table, publishing, events, lost>>
    PROVE  CountsTyped'
<1>a. CountsTyped /\ RequestsTyped
    BY DEF CatalogInv
<1>1. ASSUME NEW c \in Client, SaveScanned(c) PROVE CountsTyped'
    <2>1. req[c].source \in Source
        BY <1>1, <1>a, RequestsByName DEF SaveScanned, ScanRequest
    <2> QED
        BY <1>1, <1>a, <2>1, StoreScanCounts DEF SaveScanned, scannedVars, typedVars
<1>2. ASSUME NEW c \in Client, NEW s, NEW o, StartScan(c, s) \/ ScanObject(c, o)
      PROVE  CountsTyped'
    BY <1>2, <1>a, CountsKept DEF StartScan, ScanObject, scannedVars, typedVars, Accept
<1>3. ASSUME NEW s, NEW content, SourceChanges(s, content) PROVE CountsTyped'
    BY <1>3, <1>a, CountsKept DEF SourceChanges, typedVars
<1> QED
    BY <1>1, <1>2, <1>3 DEF ScannerNext

LEMMA CountsSteps == ASSUME CatalogInv, [Next]_vars PROVE CountsTyped'
<1>a. CountsTyped /\ RequestsTyped
    BY DEF CatalogInv
<1>1. ASSUME NEW c \in Client, AbortRequest(c) PROVE CountsTyped'
    <2>1. req[c].op = "check" => req[c].stored \in ResultRow \cup {None}
        BY <1>a, RequestsByName DEF CheckRequest
    <2>2. lost' \subseteq ResultRow
        BY <1>1, <2>1, <1>a DEF AbortRequest, QualityAbort, CountsTyped
    <2> QED
        BY <1>1, <2>2, <1>a DEF AbortRequest, Abort, QualityAbort, CountsTyped
<1>2. CASE UNCHANGED vars
    BY <1>2, <1>a, CountsKept DEF vars, catalogVars, qualityVars, typedVars
<1> QED
    BY <1>1, <1>2, CatalogCounts, GlossaryCounts, QualityCounts, ScannerCounts
       DEF Next, qualityVars

LEMMA CatalogStart == Init => CatalogInv
<1> SUFFICES ASSUME Init PROVE CatalogInv
    OBVIOUS
<1> USE DEF Init, CatalogInit, QualityInit, ScannerInit
<1>1. StoreInv
    BY DEF StoreInv, Sound, IsDatabase, EmptyDatabase, NoRows, DatabaseOK, IsTable,
       ForeignKeysHold, NamesUnique, IsInjective, RulesScoped, HostShownIsHostUsed
<1>2. RequestsTyped
    BY DEF RequestsTyped, RequestOK
<1>3. mix \in Traffic
    OBVIOUS
<1>4. LiveTyped
    <2>1. ContentOK(NoRows)
        BY DEF ContentOK, IsScan, NoRows
    <2> QED
        BY <1>3, <2>1, LoadsAre DEF LiveTyped
<1>5. CountsTyped
    BY <1>3, LoadsAre, CatalogAssumption DEF CountsTyped
<1> QED
    BY <1>1, <1>2, <1>4, <1>5 DEF CatalogInv

LEMMA CatalogInvariant == Spec => []CatalogInv
<1>1. CatalogInv /\ [Next]_vars => CatalogInv'
    <2> SUFFICES ASSUME CatalogInv, [Next]_vars PROVE CatalogInv'
        OBVIOUS
    <2> QED
        BY StoreSteps, RequestSteps, LiveSteps, CountsSteps DEF CatalogInv
<1> QED
    BY <1>1, CatalogStart, PTL DEF Spec

LEMMA InvariantMeansIntact == CatalogInv => ReferentialIntegrity
<1> SUFFICES ASSUME CatalogInv PROVE ReferentialIntegrity
    OBVIOUS
<1>a. Sound(db) /\ RequestsTyped /\ CountsTyped
    BY DEF CatalogInv, StoreInv
<1>1. TypeOK
    BY <1>a, RequestsByName DEF TypeOK, CountsTyped, Sound
<1>2. \A c \in DOMAIN db.columns : c \in SearchColumns(db, ColumnName)
    BY <1>a DEF Sound, SearchColumns, ForeignKeysHold, DatabaseOK, IsTable, ColumnId
<1>3. NothingHidden
    <2>1. \A x \in db.columnTags : x = [column |-> x.column, tag |-> x.tag]
        BY <1>a DEF Sound, DatabaseOK, ColumnTagRow
    <2> QED
        BY <1>a, <1>2, <2>1 DEF NothingHidden, ColumnDetailReadable,
           SearchColumnsByTag, GetColumnMappings, Sound, ForeignKeysHold
<1> QED
    BY <1>a, <1>1, <1>3 DEF ReferentialIntegrity, Sound

\* Whatever scans, deletions and assignments interleave, no row refers to a
\* row that is gone or is hidden from the queries, and names stay unique.
THEOREM ReferencesStay == Spec => []ReferentialIntegrity
BY CatalogInvariant, InvariantMeansIntact, PTL

\* The host an administrator sees is the host the scanner connects to, unless
\* two updates of the source overlapped.
THEOREM HostsAgree == Spec => []HostShownIsHostUsed
<1>1. CatalogInv => HostShownIsHostUsed
    BY DEF CatalogInv, StoreInv
<1> QED
    BY <1>1, CatalogInvariant, PTL

(***************************************************************************)
(* What a saved scan keeps.                                                *)
(***************************************************************************)
\* Only a scan that is saved moves the records about scans.
scanVars == <<saves, lastScan, mirror>>

LEMMA SavingSteps ==
    ASSUME [Next]_vars
    PROVE  \/ UNCHANGED scanVars
           \/ \E s \in Source, scan \in Scans : SaveSchema(s, scan)
           \/ \E c \in Client : SaveScanned(c)
<1>1. CASE CatalogNext
    <2>1. ASSUME NEW c, NEW s, NEW h, NEW w,
                 \/ UpdateSourceRead(c, s, h, w) \/ UpdateSourceWrite(c)
                 \/ DeleteSource(c, s) \/ CreateSource(s, h, w)
          PROVE  UNCHANGED scanVars
        BY <2>1 DEF UpdateSourceRead, UpdateSourceWrite, DeleteSource, CreateSource,
           scanVars
    <2>2. ASSUME NEW c, NEW o,
                 \/ DeleteSourceColumns(c, o) \/ DeleteSourceObjects(c)
                 \/ DeleteSourceChanges(c) \/ DeleteSourceRow(c)
          PROVE  UNCHANGED scanVars
        BY <2>2 DEF DeleteSourceColumns, DeleteSourceObjects, DeleteSourceChanges,
           DeleteSourceRow, scanVars
    <2>3. ASSUME NEW x, NEW y, MapColumns(x, y) \/ UnmapColumns(x) \/ ImportEdge(x, y)
          PROVE  UNCHANGED scanVars
        BY <2>3 DEF MapColumns, UnmapColumns, ImportEdge, scanVars
    <2> QED
        BY <1>1, <2>1, <2>2, <2>3 DEF CatalogNext
<1>2. CASE GlossaryNext
    <2>1. ASSUME NEW t, NEW w, NEW x,
                 \/ CreateTerm(t, w) \/ UpdateTerm(t, w) \/ AssignTerm(x, t)
                 \/ DeleteTag(t) \/ AddTag(x, t) \/ RemoveTag(x, t)
          PROVE  UNCHANGED scanVars
        BY <2>1 DEF CreateTerm, UpdateTerm, AssignTerm, DeleteTag, AddTag, RemoveTag,
           schemaVars, scanVars
    <2>2. ASSUME NEW c, NEW t, NEW w,
                 \/ DeleteTermClear(c, t) \/ CreateTagCheck(c, t, w)
                 \/ UpdateTagCheck(c, t, w) \/ McpCreateTag(c, t, w)
          PROVE  UNCHANGED scanVars
        BY <2>2 DEF DeleteTermClear, CreateTagCheck, UpdateTagCheck, McpCreateTag,
           schemaVars, scanVars
    <2>3. ASSUME NEW c, NEW g,
                 \/ DeleteTermRow(c) \/ CreateTagInsert(c) \/ UpdateTagWrite(c)
                 \/ McpInsertTag(c) \/ McpAttachTag(c, g) \/ McpTagsAttached(c)
                 \/ McpPublish(c)
          PROVE  UNCHANGED scanVars
        BY <2>3 DEF DeleteTermRow, CreateTagInsert, UpdateTagWrite, McpInsertTag,
           McpAttachTag, McpTagsAttached, McpPublish, schemaVars, scanVars
    <2>4. ASSUME NEW c, NEW x, NEW y,
                 \/ McpAssignTerm(c, x, y) \/ McpCreateMapping(c, x, y)
                 \/ McpCreateTerm(c, x, y) \/ McpAssignTags(c, x, y)
          PROVE  UNCHANGED scanVars
        BY <2>4 DEF McpAssignTerm, McpCreateMapping, McpCreateTerm, McpAssignTags,
           schemaVars, scanVars
    <2> QED
        BY <1>2, <2>1, <2>2, <2>3, <2>4 DEF GlossaryNext
<1>3. CASE QualityNext
    <2>1. ASSUME NEW r, NEW x, NEW y, NEW z,
                 CreateRule(r, x, y) \/ UpdateRule(r, x, y, z) \/ DeleteRule(r)
          PROVE  UNCHANGED scanVars
        BY <2>1 DEF CreateRule, UpdateRule, DeleteRule, restVars, scanVars
    <2>2. ASSUME NEW c, NEW b, NEW x,
                 \/ StartCheck(c, b, x) \/ CountAll(c) \/ CheckFails(c)
                 \/ CountFailing(c) \/ CheckAnswers(c) \/ ReadBack(c)
          PROVE  UNCHANGED scanVars
        BY <2>2 DEF StartCheck, CountAll, CheckFails, CountFailing, CheckAnswers,
           ReadBack, restVars, scanVars
    <2>3. ASSUME NEW x, PublishFailure(x) \/ LoseFailure(x) \/ TableChanges(x)
          PROVE  UNCHANGED scanVars
        BY <2>3 DEF PublishFailure, LoseFailure, TableChanges, restVars, scanVars
    <2> QED
        BY <1>3, <2>1, <2>2, <2>3 DEF QualityNext, CheckAll, CheckGiven
<1>4. CASE ScannerNext
    <2>1. ASSUME NEW c, NEW s, NEW o, StartScan(c, s) \/ ScanObject(c, o)
          PROVE  UNCHANGED scanVars
        BY <2>1 DEF StartScan, ScanObject, scanVars
    <2>2. ASSUME NEW s, NEW content, SourceChanges(s, content)
          PROVE  UNCHANGED scanVars
        BY <2>2 DEF SourceChanges, scanVars
    <2> QED
        BY <1>4, <2>1, <2>2 DEF ScannerNext
<1>5. ASSUME NEW c, AbortRequest(c) PROVE UNCHANGED scanVars
    BY <1>5 DEF AbortRequest, Abort, scanVars
<1>6. CASE UNCHANGED vars
    BY <1>6 DEF vars, catalogVars, scanVars
<1> QED
    BY <1>1, <1>2, <1>3, <1>4, <1>5, <1>6 DEF Next

LEMMA ScansAreSaved ==
    ASSUME CatalogInv, [Next]_vars
    PROVE  \/ UNCHANGED scanVars
           \/ \E s, scan : s \in Source /\ IsScan(scan) /\ StoreScan(s, scan)
<1>1. ASSUME NEW s \in Source, NEW scan \in Scans, SaveSchema(s, scan)
      PROVE  IsScan(scan) /\ StoreScan(s, scan)
    BY <1>1, CatalogAssumption DEF SaveSchema
<1>2. ASSUME NEW c \in Client, SaveScanned(c)
      PROVE  \E s, scan : s \in Source /\ IsScan(scan) /\ StoreScan(s, scan)
    <2>1. ScanRequest(req[c])
        BY <1>2, RequestsByName DEF CatalogInv, SaveScanned
    <2> QED
        BY <1>2, <2>1 DEF SaveScanned, ScanRequest
<1> QED
    BY <1>1, <1>2, SavingSteps

ScansKnown == DOMAIN lastScan = Source /\ DOMAIN saves = Source

LEMMA ScansKnownAlways == Spec => []ScansKnown
<1>1. Init => ScansKnown
    BY DEF Init, CatalogInit, ScansKnown
<1>2. CatalogInv /\ ScansKnown /\ [Next]_vars => ScansKnown'
    <2> SUFFICES ASSUME CatalogInv, ScansKnown, [Next]_vars PROVE ScansKnown'
        OBVIOUS
    <2> QED
        BY ScansAreSaved DEF ScansKnown, StoreScan, scanVars
<1> QED
    BY <1>1, <1>2, CatalogInvariant, PTL DEF Spec

\* A column the scan contains survives with all that hangs on it.
LEMMA ScanKeepsColumn ==
    ASSUME CatalogInv, NEW s \in Source, NEW scan, IsScan(scan), StoreScan(s, scan),
           NEW c \in ColumnsOfSource(db, s), InScan(scan, c)
    PROVE  /\ c \in DOMAIN db'.columns
           /\ db'.columns[c].term = db.columns[c].term
           /\ GetColumnTags(db', c) = GetColumnTags(db, c)
           /\ \A m \in db.mappings : m.from = c /\ m.to \in DOMAIN db'.columns
                                         => m \in db'.mappings
           /\ \A m \in db.edges : m.from = c /\ m.to \in DOMAIN db'.columns
                                      => m \in db'.edges
           /\ \A r \in DOMAIN db.rules : db.rules[r].column = c
                                          => r \in DOMAIN db'.rules
<1> DEFINE k == saves[s] + 1
           cols == GoneColumns(db, s, scan)
           objs == GoneObjects(db, s, scan)
<1>b. PICK f : f = DropGone(db, s, scan)
    OBVIOUS
<1>c. PICK e : e = SavedSchema(db, s, scan, k)
    OBVIOUS
<1>1. Sound(db) /\ RulesScoped(db)
    BY DEF CatalogInv, StoreInv
<1>2. k \in ScanNo
    BY CatalogAssumption DEF StoreScan, CatalogInv, CountsTyped, ScanNo
<1>3. e = db'
    BY <1>c DEF StoreScan
<1>4. Sound(f) /\ Pruned(db, f) /\ Dropped(db, f, cols, objs)
    BY <1>1, <1>b, DropGoneSound
<1>5. /\ e.rules = f.rules /\ e.columnTags = f.columnTags /\ e.tags = f.tags
      /\ e.mappings = f.mappings /\ e.edges = f.edges
    BY <1>4, <1>b, <1>c, SavedSchemaFields DEF Sound
<1>6. /\ DOMAIN e.columns = DOMAIN f.columns \cup NewColumns(db, s, scan, k)
      /\ \A x \in DOMAIN f.columns : e.columns[x].term = db.columns[x].term
    BY <1>1, <1>2, <1>b, <1>c, SavedSchemaKeys
<1>7. c \in DOMAIN db.columns /\ c \notin cols /\ c.object \notin objs
    BY DEF ColumnsOfSource, GoneColumns, GoneObjects, InScan
<1>8. c \in DOMAIN f.columns
    BY <1>4, <1>7 DEF Dropped
<1>9. \A x \in DOMAIN db.columns : x \in DOMAIN e.columns => x \in DOMAIN f.columns
    BY <1>6 DEF NewColumns
<1>10. GetColumnTags(e, c) = GetColumnTags(db, c)
    BY <1>4, <1>5, <1>8 DEF GetColumnTags, Dropped, Pruned
<1>11. ASSUME NEW m \in db.mappings, m.from = c, m.to \in DOMAIN e.columns
       PROVE  m \in e.mappings
    <2>1. m.to \in DOMAIN db.columns
        BY <1>1 DEF Sound, ForeignKeysHold
    <2> QED
        BY <2>1, <1>4, <1>5, <1>8, <1>9, <1>11 DEF Dropped
<1>12. ASSUME NEW m \in db.edges, m.from = c, m.to \in DOMAIN e.columns
       PROVE  m \in e.edges
    <2>1. /\ DOMAIN e.columns \subseteq ColumnId /\ DOMAIN db.columns \subseteq ColumnId
          /\ DOMAIN db.objects \subseteq ObjectId
        BY <1>1, <1>2, <1>b, <1>c, SavedSchemaKeys DEF Sound, DatabaseOK, IsTable
    <2>2. {m.from, m.to} \cap DOMAIN db.objects = {}
        BY <2>1, <1>7, <1>12, IdentifiersDiffer
    <2> QED
        BY <2>2, <1>4, <1>5, <1>8, <1>9, <1>12 DEF Dropped
<1>13. ASSUME NEW r \in DOMAIN db.rules, db.rules[r].column = c
       PROVE  r \in DOMAIN e.rules
    <2>1. c # None
        BY <1>1, <1>7, CatalogAssumption DEF Sound, DatabaseOK, IsTable
    <2>2. db.rules[r].object = None
        BY <1>1, <1>13, <2>1 DEF RulesScoped
    <2> QED
        BY <2>2, <1>4, <1>5, <1>8, <1>13 DEF Dropped
<1> QED
    BY <1>3, <1>6, <1>8, <1>10, <1>11, <1>12, <1>13

\* A scan that is saved leaves what people attached to a column it still
\* contains: its identifier, term, tags, mappings, lineage and rules.
THEOREM AnnotationsStay == Spec => ScansKeepAnnotations
<1> DEFINE Kept == \A s \in Source : saves'[s] # saves[s] =>
         \A c \in ColumnsOfSource(db, s) : InScan(lastScan'[s], c) =>
            /\ c \in DOMAIN db'.columns
            /\ db'.columns[c].term = db.columns[c].term
            /\ GetColumnTags(db', c) = GetColumnTags(db, c)
            /\ \A b \in DOMAIN db'.columns :
                  /\ [from |-> c, to |-> b] \in db.mappings
                        => [from |-> c, to |-> b] \in db'.mappings
                  /\ [from |-> c, to |-> b] \in db.edges
                        => [from |-> c, to |-> b] \in db'.edges
            /\ \A r \in DOMAIN db.rules : db.rules[r].column = c
                  => r \in DOMAIN db'.rules
<1>1. CatalogInv /\ ScansKnown /\ [Next]_vars => [Kept]_vars
    <2> SUFFICES ASSUME CatalogInv, ScansKnown, [Next]_vars,
                        NEW s \in Source, saves'[s] # saves[s],
                        NEW c \in ColumnsOfSource(db, s), InScan(lastScan'[s], c)
                 PROVE  /\ c \in DOMAIN db'.columns
                        /\ db'.columns[c].term = db.columns[c].term
                        /\ GetColumnTags(db', c) = GetColumnTags(db, c)
                        /\ \A b \in DOMAIN db'.columns :
                              /\ [from |-> c, to |-> b] \in db.mappings
                                    => [from |-> c, to |-> b] \in db'.mappings
                              /\ [from |-> c, to |-> b] \in db.edges
                                    => [from |-> c, to |-> b] \in db'.edges
                        /\ \A r \in DOMAIN db.rules : db.rules[r].column = c
                              => r \in DOMAIN db'.rules
        OBVIOUS
    <2>1. PICK z, scan : z \in Source /\ IsScan(scan) /\ StoreScan(z, scan)
        BY ScansAreSaved DEF scanVars
    <2>2. z = s /\ lastScan'[s] = scan
        BY <2>1 DEF StoreScan, ScansKnown
    <2> QED
        BY <2>1, <2>2, ScanKeepsColumn
<1>2. ScansKeepAnnotations <=> [][Kept]_vars
    BY DEF ScansKeepAnnotations
<1> HIDE DEF Kept
<1> QED
    BY <1>1, <1>2, CatalogInvariant, ScansKnownAlways, PTL DEF Spec

(***************************************************************************)
(* The events of MCP calls.                                                *)
(***************************************************************************)
McpOps == {"mcp_create_tag", "tagging", "audit"}

\* What a call has written so far, and what it has yet to write.
WritesIn(history, call) == {w.write : w \in {v \in history : v.call = call}}

Writes(call) == WritesIn(written, call)

Outstanding(q) == {<<q.column, g>> : g \in q.left}

\* A call in flight has a number of its own, and knows what it has written.
CallKnown(c) ==
    req[c].op \in McpOps =>
        /\ req[c].call \in 1 .. sent
        /\ \A d \in Client : req[d].op \in McpOps /\ req[d].call = req[c].call => d = c
        /\ \A e \in audit : e.call # req[c].call
        /\ req[c].op = "mcp_create_tag" => Writes(req[c].call) = {}
        /\ req[c].op = "audit" => req[c].writes = Writes(req[c].call)
        /\ req[c].op = "tagging" =>
              req[c].writes = Writes(req[c].call) \cup Outstanding(req[c])

CallsKnown == \A c \in Client : CallKnown(c)

McpInv ==
    /\ CallsKnown
    /\ \A e \in audit : e.call \in 1 .. sent /\ e.writes = Writes(e.call)
    /\ \A w \in written :
          /\ w.call \in 1 .. sent
          /\ \/ \E e \in audit : e.call = w.call
             \/ w.call \in failed
             \/ \E c \in Client : req[c].op \in McpCalls /\ req[c].call = w.call

\* The step concerns no MCP call.
McpQuiet ==
    /\ UNCHANGED glossaryVars
    /\ sent' \in {sent, sent + 1}
    /\ \A c \in Client : req[c].op \in McpOps \/ req'[c].op \in McpOps
                            => req'[c] = req[c]

LEMMA QuietKeeps == ASSUME CatalogInv, McpInv, McpQuiet PROVE McpInv'
<1>1. sent \in Nat /\ 1 .. sent \subseteq 1 .. sent'
    BY LoadsAre DEF McpQuiet, CatalogInv, CountsTyped
<1>2. \A c \in Client : (req'[c].op \in McpOps <=> req[c].op \in McpOps)
                        /\ (req'[c].op \in McpOps => req'[c] = req[c])
    BY DEF McpQuiet
<1>3. UNCHANGED <<audit, written, failed>>
    BY DEF McpQuiet, glossaryVars
<1>4. CallsKnown'
    BY <1>1, <1>2, <1>3 DEF McpInv, CallsKnown, CallKnown, Writes
<1> QED
    BY <1>1, <1>2, <1>3, <1>4 DEF McpInv, McpCalls, McpOps, Writes

\* A client that serves no MCP call goes on, or begins, with another request.
LEMMA OthersQuiet ==
    ASSUME NEW c \in Client, req[c].op \notin McpOps, req'[c].op \notin McpOps,
           \A d \in Client \ {c} : req'[d] = req[d],
           UNCHANGED glossaryVars, sent' \in {sent, sent + 1}
    PROVE  McpQuiet
BY DEF McpQuiet

LEMMA StillQuiet ==
    ASSUME UNCHANGED <<req, glossaryVars>>, sent' \in {sent, sent + 1} PROVE McpQuiet
BY DEF McpQuiet

LEMMA CatalogQuiet ==
    ASSUME CatalogInv, CatalogNext, UNCHANGED glossaryVars PROVE McpQuiet
<1>a. RequestsTyped /\ DOMAIN req = Client
    BY DEF CatalogInv, RequestsTyped
<1>1. ASSUME NEW s, NEW h, NEW w, CreateSource(s, h, w) \/ SaveSchema(s, h)
      PROVE  McpQuiet
    BY <1>1, StillQuiet DEF CreateSource, SaveSchema
<1>2. ASSUME NEW x, NEW y, MapColumns(x, y) \/ UnmapColumns(x) \/ ImportEdge(x, y)
      PROVE  McpQuiet
    BY <1>2, StillQuiet DEF MapColumns, UnmapColumns, ImportEdge, Serve
<1>3. ASSUME NEW c \in Client, NEW s, NEW h, NEW w, UpdateSourceRead(c, s, h, w)
      PROVE  McpQuiet
    BY <1>3, <1>a, OthersQuiet DEF UpdateSourceRead, Accept, Serve, Idle, McpOps
<1>4. ASSUME NEW c \in Client, NEW s, DeleteSource(c, s) PROVE McpQuiet
    BY <1>4, <1>a, OthersQuiet DEF DeleteSource, Accept, Serve, Idle, McpOps
<1>5. ASSUME NEW c \in Client, UpdateSourceWrite(c) \/ DeleteSourceRow(c)
      PROVE  McpQuiet
    BY <1>5, <1>a, OthersQuiet DEF UpdateSourceWrite, DeleteSourceRow, Deleting,
       Finish, Idle, McpOps
<1>6. ASSUME NEW c \in Client, NEW o,
             \/ DeleteSourceColumns(c, o) \/ DeleteSourceObjects(c)
             \/ DeleteSourceChanges(c)
      PROVE  McpQuiet
    <2>1. /\ DeleteRequest(req[c]) /\ req[c].op = "delete"
          /\ UNCHANGED sent
        BY <1>6, <1>a, RequestsByName DEF DeleteSourceColumns, DeleteSourceObjects,
           DeleteSourceChanges, Deleting
    <2>2. req'[c].op = "delete" /\ \A d \in Client \ {c} : req'[d] = req[d]
        BY <1>6, <2>1, <1>a DEF DeleteSourceColumns, DeleteSourceObjects,
           DeleteSourceChanges, DeleteRequest
    <2> QED
        BY <2>1, <2>2, <1>a, OthersQuiet DEF McpOps
<1> QED
    BY <1>1, <1>2, <1>3, <1>4, <1>5, <1>6 DEF CatalogNext

LEMMA QualityQuiet ==
    ASSUME CatalogInv, QualityNext, UNCHANGED glossaryVars PROVE McpQuiet
<1>a. RequestsTyped /\ DOMAIN req = Client
    BY DEF CatalogInv, RequestsTyped
<1>1. ASSUME NEW r, NEW x, NEW y, NEW z,
             CreateRule(r, x, y) \/ UpdateRule(r, x, y, z) \/ DeleteRule(r)
      PROVE  McpQuiet
    BY <1>1, StillQuiet DEF CreateRule, UpdateRule, DeleteRule, Serve
<1>2. ASSUME NEW c \in Client, NEW b, NEW x, StartCheck(c, b, x) PROVE McpQuiet
    BY <1>2, <1>a, OthersQuiet DEF StartCheck, Accept, Serve, Idle, McpOps
<1>3. ASSUME NEW c \in Client,
             \/ CountAll(c) \/ CheckFails(c) \/ CountFailing(c) \/ ReadBack(c)
             \/ CheckAnswers(c)
      PROVE  McpQuiet
    <2>1. CheckRequest(req[c]) /\ UNCHANGED sent
        BY <1>3, <1>a, RequestsByName DEF CountAll, CheckFails, CountFailing, ReadBack,
           CheckAnswers, Busy
    <2>2. req'[c].op \notin McpOps /\ \A d \in Client \ {c} : req'[d] = req[d]
        <3>1. CASE CountAll(c)
            BY <3>1, <2>1, <1>a DEF CountAll, CheckRequest, McpOps
        <3>2. ASSUME NEW status, NEW total, NEW bad, Store(c, status, total, bad)
              PROVE  req'[c].op \notin McpOps /\ \A d \in Client \ {c} : req'[d] = req[d]
            <4>1. PICK row : req' = [req EXCEPT ![c].stored = row] \/ Finish(c)
                BY <3>2 DEF Store
            <4>2. CASE Finish(c)
                BY <4>2, <1>a DEF McpOps, Finish, Idle
            <4>3. CASE req' = [req EXCEPT ![c].stored = row]
                <5>1. req'[c] = [req[c] EXCEPT !.stored = row]
                    BY <4>3, <1>a
                <5> QED
                    BY <4>3, <5>1, <2>1, <1>a DEF CheckRequest, McpOps
            <4> QED
                BY <4>1, <4>2, <4>3
        <3>3. CASE CheckFails(c) \/ CountFailing(c)
            BY <3>2, <3>3 DEF CheckFails, CountFailing
        <3>4. CASE ReadBack(c)
            BY <3>4, <2>1, <1>a DEF ReadBack, CheckRequest, McpOps
        <3>5. CASE CheckAnswers(c)
            BY <3>5, <1>a DEF CheckAnswers, Finish, Idle, McpOps
        <3> QED
            BY <1>3, <3>1, <3>3, <3>4, <3>5
    <2> QED
        BY <2>1, <2>2, <1>a, OthersQuiet DEF CheckRequest, McpOps
<1>4. ASSUME NEW x, PublishFailure(x) \/ LoseFailure(x) \/ TableChanges(x)
      PROVE  McpQuiet
    BY <1>4, StillQuiet DEF PublishFailure, LoseFailure, TableChanges, Serve
<1> QED
    BY <1>1, <1>2, <1>3, <1>4 DEF QualityNext, CheckAll, CheckGiven

LEMMA ScannerQuiet ==
    ASSUME CatalogInv, ScannerNext, UNCHANGED glossaryVars PROVE McpQuiet
<1>a. RequestsTyped /\ DOMAIN req = Client
    BY DEF CatalogInv, RequestsTyped
<1>1. ASSUME NEW c \in Client, NEW s, StartScan(c, s) PROVE McpQuiet
    BY <1>1, <1>a, OthersQuiet DEF StartScan, Accept, Serve, Idle, McpOps
<1>2. ASSUME NEW c \in Client, NEW o, ScanObject(c, o) PROVE McpQuiet
    <2>1. ScanRequest(req[c]) /\ UNCHANGED sent
        BY <1>2, <1>a, RequestsByName DEF ScanObject, scannedVars
    <2>2. req'[c].op = "scan" /\ \A d \in Client \ {c} : req'[d] = req[d]
        BY <1>2, <2>1, <1>a DEF ScanObject, ScanRequest
    <2> QED
        BY <2>1, <2>2, OthersQuiet, <1>2 DEF ScanRequest, McpOps
<1>3. ASSUME NEW c \in Client, SaveScanned(c) PROVE McpQuiet
    BY <1>3, <1>a, OthersQuiet DEF SaveScanned, scannedVars, Finish, Idle, McpOps
<1>4. ASSUME NEW s, NEW content, SourceChanges(s, content) PROVE McpQuiet
    <2>1. \A c \in Client : req'[c] = req[c] \/ (req[c].op = "scan" /\ req'[c].op = "scan")
        <3>1. ASSUME NEW c \in Client, Scanning(c, s)
              PROVE  req[c].op = "scan" /\ req'[c].op = "scan"
            BY <3>1, <1>4, <1>a, RequestsByName DEF SourceChanges, Scanning, ScanRequest
        <3> QED
            BY <3>1, <1>4 DEF SourceChanges
    <2> QED
        BY <1>4, <2>1 DEF SourceChanges, Serve, McpQuiet, McpOps
<1> QED
    BY <1>1, <1>2, <1>3, <1>4 DEF ScannerNext

LEMMA GlossaryQuiet ==
    ASSUME NEW t, NEW w, NEW x,
           \/ CreateTerm(t, w) \/ UpdateTerm(t, w) \/ AssignTerm(x, t)
           \/ DeleteTag(t) \/ AddTag(x, t) \/ RemoveTag(x, t)
    PROVE  McpQuiet
BY StillQuiet DEF CreateTerm, UpdateTerm, AssignTerm, DeleteTag, AddTag, RemoveTag, Serve

LEMMA TermAndTagQuiet ==
    ASSUME CatalogInv, NEW c \in Client, NEW t, NEW w,
           \/ DeleteTermClear(c, t) \/ DeleteTermRow(c)
           \/ CreateTagCheck(c, t, w) \/ UpdateTagCheck(c, t, w)
           \/ CreateTagInsert(c) \/ UpdateTagWrite(c)
    PROVE  McpQuiet
<1>a. DOMAIN req = Client
    BY DEF CatalogInv, RequestsTyped
<1>1. CASE \/ DeleteTermClear(c, t) \/ CreateTagCheck(c, t, w)
           \/ UpdateTagCheck(c, t, w)
    BY <1>1, <1>a, OthersQuiet DEF DeleteTermClear, CreateTagCheck, UpdateTagCheck,
       Accept, Serve, Idle, McpOps
<1>2. CASE DeleteTermRow(c) \/ CreateTagInsert(c) \/ UpdateTagWrite(c)
    BY <1>2, <1>a, OthersQuiet DEF DeleteTermRow, CreateTagInsert, UpdateTagWrite,
       Finish, Idle, McpOps
<1> QED
    BY <1>1, <1>2

\* Client c begins call n, or goes on with it, and touches no other call.
CallMoves(c, n) ==
    /\ sent' \in {sent, sent + 1}
    /\ \/ req[c].op \in McpOps /\ req[c].call = n
       \/ n = sent + 1 /\ sent' = n /\ req[c].op \notin McpOps
    /\ \A d \in Client \ {c} : req'[d] = req[d]
    /\ audit \subseteq audit' /\ failed \subseteq failed' /\ written \subseteq written'
    /\ \A e \in audit' : e \in audit \/ (e.call = n /\ e.writes = WritesIn(written', n))
    /\ \A w \in written' : w \in written \/ w.call = n

\* After the step the call is in flight and knows what it has written, ...
StillKnown(c, n) ==
    /\ req'[c].op \in McpOps /\ req'[c].call = n
    /\ audit' = audit
    /\ req'[c].op = "mcp_create_tag" => WritesIn(written', n) = {}
    /\ req'[c].op = "audit" => req'[c].writes = WritesIn(written', n)
    /\ req'[c].op = "tagging" => req'[c].writes = WritesIn(written', n) \cup Outstanding(req'[c])

\* ... or is over, with its event or among the failed unless it wrote nothing.
IsOver(c, n) ==
    /\ req'[c].op \notin McpOps
    /\ n \in failed' \/ (\E e \in audit' : e.call = n) \/ WritesIn(written', n) = {}

LEMMA CallKeeps ==
    ASSUME CatalogInv, McpInv, NEW c \in Client, NEW n, CallMoves(c, n),
           StillKnown(c, n) \/ IsOver(c, n)
    PROVE  McpInv'
<1>a. sent \in Nat /\ DOMAIN req = Client
    BY LoadsAre DEF CatalogInv, RequestsTyped, CountsTyped
<1>b. /\ n \in 1 .. sent' /\ 1 .. sent \subseteq 1 .. sent'
      /\ \A d \in Client \ {c} : req[d].op \in McpOps => req[d].call # n
      /\ \A e \in audit : e.call # n
    BY <1>a DEF CallMoves, McpInv, CallsKnown, CallKnown
<1>1. \A m : m # n => WritesIn(written', m) = WritesIn(written, m)
    BY DEF CallMoves, Writes, WritesIn
<1>2. ASSUME NEW d \in Client, req'[d].op \in McpOps PROVE CallKnown(d)'
    <2>1. CASE d = c
        BY <1>2, <2>1, <1>b DEF StillKnown, IsOver, CallMoves, CallKnown, Writes
    <2>2. CASE d # c
        <3>1. req'[d] = req[d] /\ req[d].call # n /\ CallKnown(d)
            BY <1>2, <2>2, <1>b DEF CallMoves, McpInv, CallsKnown
        <3>2. WritesIn(written', req[d].call) = WritesIn(written, req[d].call)
            BY <3>1, <1>1 DEF Writes
        <3>3. \A x \in Client : req'[x].op \in McpOps /\ req'[x].call = req[d].call => x = d
            <4> SUFFICES ASSUME NEW x \in Client, req'[x].op \in McpOps,
                                req'[x].call = req[d].call
                         PROVE  x = d
                OBVIOUS
            <4>1. x # c
                BY <3>1 DEF StillKnown, IsOver
            <4> QED
                BY <1>2, <3>1, <4>1 DEF CallMoves, CallKnown
        <3>4. \A e \in audit' : e.call # req[d].call
            BY <1>2, <3>1 DEF CallMoves, CallKnown
        <3> QED
            BY <1>2, <3>1, <3>2, <3>3, <3>4, <1>b DEF CallKnown, Writes
    <2> QED
        BY <2>1, <2>2
<1>3. \A e \in audit' : e.call \in 1 .. sent' /\ e.writes = WritesIn(written', e.call)
    BY <1>1, <1>b DEF CallMoves, McpInv, Writes
<1>4. ASSUME NEW w \in written'
      PROVE  /\ w.call \in 1 .. sent'
             /\ \/ \E e \in audit' : e.call = w.call
                \/ w.call \in failed'
                \/ \E d \in Client : req'[d].op \in McpCalls /\ req'[d].call = w.call
    <2>1. CASE w.call = n
        <3>1. w.write \in WritesIn(written', n)
            BY <2>1 DEF Writes, WritesIn
        <3> QED
            BY <2>1, <3>1, <1>b DEF IsOver, StillKnown, McpOps, McpCalls
    <2>2. CASE w.call # n
        <3>1. /\ w.call \in 1 .. sent
              /\ \/ \E e \in audit : e.call = w.call
                 \/ w.call \in failed
                 \/ \E d \in Client : req[d].op \in McpCalls /\ req[d].call = w.call
            BY <2>2 DEF CallMoves, McpInv
        <3>2. \A d \in Client : req[d].op \in McpCalls /\ req[d].call = w.call => d # c
            BY <2>2, <3>1, <1>a DEF CallMoves, McpOps, McpCalls
        <3> QED
            BY <3>1, <3>2, <1>b DEF CallMoves
    <2> QED
        BY <2>1, <2>2
<1>5. CallsKnown'
    BY <1>2 DEF CallsKnown, CallKnown
<1> QED
    BY <1>3, <1>4, <1>5 DEF McpInv, Writes

\* A write is added to the writes of its call.
LEMMA WritesGrow ==
    ASSUME NEW history, NEW call, NEW write
    PROVE  WritesIn(history \cup {Call(call, write)}, call)
             = WritesIn(history, call) \cup {write}
<1>1. Call(call, write).call = call /\ Call(call, write).write = write
    BY DEF Call
<1> QED
    BY <1>1 DEF WritesIn

\* A call that writes at once: its number is new.
LEMMA CallWrites ==
    ASSUME CatalogInv, McpInv, NEW c \in Client, NEW write, NEW action,
           written' = written \cup {Call(sent + 1, write)},
           ToBeAudited(c, action, {write}), req[c] = Idle, sent' = sent + 1,
           UNCHANGED <<audit, failed>>
    PROVE  McpInv'
<1>a. DOMAIN req = Client /\ sent \in Nat
    BY LoadsAre DEF CatalogInv, RequestsTyped, CountsTyped
<1>1. /\ req'[c].op = "audit" /\ req'[c].call = sent + 1 /\ req'[c].writes = {write}
      /\ \A d \in Client \ {c} : req'[d] = req[d]
    BY <1>a DEF ToBeAudited
<1>2. WritesIn(written', sent + 1) = {write}
    <2>1. \A w \in written : w.call # sent + 1
        BY <1>a DEF McpInv
    <2>2. \A w \in written' : w.call = sent + 1 => w.write = write
        BY <2>1 DEF Call
    <2>3. Call(sent + 1, write) \in written' /\ Call(sent + 1, write).call = sent + 1
          /\ Call(sent + 1, write).write = write
        BY DEF Call
    <2> QED
        BY <2>2, <2>3 DEF Writes, WritesIn
<1>3. CallMoves(c, sent + 1)
    BY <1>1 DEF CallMoves, Call, Idle, McpOps
<1>4. StillKnown(c, sent + 1)
    BY <1>1, <1>2 DEF StillKnown, McpOps
<1> QED
    BY <1>3, <1>4, CallKeeps

\* The steps of a call, each for itself.
LEMMA McpStep ==
    ASSUME CatalogInv, McpInv, NEW c \in Client,
           \/ \E x \in DOMAIN db.columns, t \in Term \cup {None} : McpAssignTerm(c, x, t)
           \/ \E x, y \in DOMAIN db.columns : McpCreateMapping(c, x, y)
           \/ \E t \in Term, w \in Word : McpCreateTerm(c, t, w)
           \/ \E g \in Tag, w \in Word : McpCreateTag(c, g, w)
           \/ McpInsertTag(c)
           \/ \E x \in DOMAIN db.columns, tags \in SUBSET Tag : McpAssignTags(c, x, tags)
           \/ \E g \in Tag : McpAttachTag(c, g)
           \/ McpTagsAttached(c)
           \/ McpPublish(c)
    PROVE  McpInv'
<1>a. DOMAIN req = Client /\ sent \in Nat /\ RequestsTyped
    BY LoadsAre DEF CatalogInv, RequestsTyped, CountsTyped
<1>b. CallKnown(c)
    BY DEF McpInv, CallsKnown
<1>1. ASSUME NEW x, NEW t, McpAssignTerm(c, x, t) PROVE McpInv'
    BY <1>1, CallWrites DEF McpAssignTerm, Accept, Serve
<1>2. ASSUME NEW x, NEW y, McpCreateMapping(c, x, y) PROVE McpInv'
    BY <1>2, CallWrites DEF McpCreateMapping, Accept, Serve
<1>3. ASSUME NEW t, NEW w, McpCreateTerm(c, t, w) PROVE McpInv'
    BY <1>3, CallWrites DEF McpCreateTerm, Accept, Serve
<1>c. Writes(sent + 1) = {}
    BY <1>a DEF McpInv, Writes, WritesIn
<1>4. ASSUME NEW g, NEW w, McpCreateTag(c, g, w) PROVE McpInv'
    <2>1. /\ req'[c].op = "mcp_create_tag" /\ req'[c].call = sent + 1
          /\ \A d \in Client \ {c} : req'[d] = req[d]
          /\ req[c].op = "idle" /\ sent' = sent + 1 /\ UNCHANGED glossaryVars
        BY <1>4, <1>a DEF McpCreateTag, Accept, Serve, Idle
    <2>2. CallMoves(c, sent + 1) /\ StillKnown(c, sent + 1)
        BY <2>1, <1>c DEF CallMoves, StillKnown, glossaryVars, McpOps, Writes
    <2> QED
        BY <2>2, CallKeeps
<1>5. ASSUME NEW x, NEW tags, McpAssignTags(c, x, tags) PROVE McpInv'
    <2>1. /\ req'[c].op = "tagging" /\ req'[c].call = sent + 1
          /\ req'[c].writes = Outstanding(req'[c])
          /\ \A d \in Client \ {c} : req'[d] = req[d]
          /\ req[c].op = "idle" /\ sent' = sent + 1 /\ UNCHANGED glossaryVars
        BY <1>5, <1>a DEF McpAssignTags, Accept, Serve, Idle, Outstanding
    <2>2. CallMoves(c, sent + 1) /\ StillKnown(c, sent + 1)
        BY <2>1, <1>c DEF CallMoves, StillKnown, glossaryVars, McpOps, Writes
    <2> QED
        BY <2>2, CallKeeps
<1>6. CASE McpPublish(c)
    <2>1. /\ req[c].op = "audit" /\ req'[c].op = "idle"
          /\ \A d \in Client \ {c} : req'[d] = req[d]
          /\ UNCHANGED <<sent, written, failed>>
        BY <1>6, <1>a DEF McpPublish, Finish, Idle
    <2>2. /\ audit \subseteq audit'
          /\ \A e \in audit' : e \in audit \/ (/\ e.call = req[c].call
                                              /\ e.writes = req[c].writes)
          /\ \E e \in audit' : e.call = req[c].call
        <3> DEFINE event == [call |-> req[c].call, action |-> req[c].action,
                             writes |-> req[c].writes]
        <3>1. event.call = req[c].call /\ event.writes = req[c].writes
            OBVIOUS
        <3>2. audit' = audit \cup {event}
            BY <1>6 DEF McpPublish
        <3> HIDE DEF event
        <3> QED
            BY <3>1, <3>2
    <2>3. req[c].writes = Writes(req[c].call)
        BY <1>b, <2>1 DEF CallKnown, McpOps
    <2>4. CallMoves(c, req[c].call)
        BY <2>1, <2>2, <2>3 DEF CallMoves, McpOps, Writes
    <2>5. IsOver(c, req[c].call)
        BY <2>1, <2>2 DEF IsOver, McpOps
    <2> QED
        BY <2>4, <2>5, CallKeeps
<1>7. CASE McpTagsAttached(c)
    <2>1. /\ req[c].op = "tagging" /\ req'[c].op = "audit"
          /\ req'[c].call = req[c].call /\ req'[c].writes = req[c].writes
          /\ Outstanding(req[c]) = {}
          /\ \A d \in Client \ {c} : req'[d] = req[d]
          /\ UNCHANGED <<sent, written, failed, audit>>
        BY <1>7, <1>a DEF McpTagsAttached, glossaryVars, Outstanding
    <2>2. req[c].writes = Writes(req[c].call)
        BY <1>b, <2>1 DEF CallKnown, McpOps
    <2>3. CallMoves(c, req[c].call)
        BY <2>1 DEF CallMoves, McpOps
    <2>4. StillKnown(c, req[c].call)
        BY <2>1, <2>2 DEF StillKnown, McpOps, Writes
    <2> QED
        BY <2>3, <2>4, CallKeeps
<1>8. CASE McpInsertTag(c)
    <2>1. req[c].op = "mcp_create_tag" /\ TagRequest(req[c])
        BY <1>8, <1>a, RequestsByName DEF McpInsertTag
    <2>2. Writes(req[c].call) = {}
        BY <1>b, <2>1 DEF CallKnown, McpOps
    <2>3. CASE Finish(c) /\ UNCHANGED <<sent, audit, written, failed>>
        <3>1. req'[c].op = "idle" /\ \A d \in Client \ {c} : req'[d] = req[d]
            BY <2>3, <1>a DEF Finish, Idle
        <3>2. CallMoves(c, req[c].call) /\ IsOver(c, req[c].call)
            BY <2>1, <2>2, <2>3, <3>1 DEF CallMoves, IsOver, McpOps, Writes
        <3> QED
            BY <3>2, CallKeeps
    <2>4. ASSUME NEW new, written' = written \cup {Call(req[c].call, new)},
                 req' = [req EXCEPT ![c] =
                      [op |-> "audit", call |-> req[c].call,
                       action |-> "create_tag", writes |-> {new}]],
                 UNCHANGED <<sent, audit, failed>>
          PROVE  McpInv'
        <3>1. /\ req'[c].op = "audit" /\ req'[c].call = req[c].call
              /\ req'[c].writes = {new} /\ \A d \in Client \ {c} : req'[d] = req[d]
            BY <2>4, <1>a
        <3>2. WritesIn(written', req[c].call) = {new}
            BY <3>1, <2>2, <2>4, WritesGrow DEF Writes
        <3>3. CallMoves(c, req[c].call) /\ StillKnown(c, req[c].call)
            BY <2>1, <2>4, <3>1, <3>2 DEF CallMoves, StillKnown, McpOps, Call
        <3> QED
            BY <3>3, CallKeeps
    <2> QED
        BY <1>8, <2>3, <2>4 DEF McpInsertTag
<1>9. ASSUME NEW g, McpAttachTag(c, g) PROVE McpInv'
    <2>1. req[c].op = "tagging" /\ TaggingRequest(req[c]) /\ g \in req[c].left
        BY <1>9, <1>a, RequestsByName DEF McpAttachTag
    <2>2. req[c].writes = Writes(req[c].call) \cup Outstanding(req[c])
        BY <1>b, <2>1 DEF CallKnown, McpOps
    <2>3. CASE /\ Finish(c) /\ failed' = failed \cup {req[c].call}
               /\ UNCHANGED <<sent, audit, written>>
        <3>1. req'[c].op = "idle" /\ \A d \in Client \ {c} : req'[d] = req[d]
            BY <2>3, <1>a DEF Finish, Idle
        <3>2. CallMoves(c, req[c].call) /\ IsOver(c, req[c].call)
            BY <2>1, <2>3, <3>1 DEF CallMoves, IsOver, McpOps
        <3> QED
            BY <3>2, CallKeeps
    <2>4. CASE /\ written' = written \cup {Call(req[c].call, <<req[c].column, g>>)}
               /\ req' = [req EXCEPT ![c].left = @ \ {g}]
               /\ UNCHANGED <<sent, audit, failed>>
        <3>1. /\ req'[c].op = "tagging" /\ req'[c].call = req[c].call
              /\ req'[c].writes = req[c].writes /\ req'[c].column = req[c].column
              /\ req'[c].left = req[c].left \ {g}
              /\ \A d \in Client \ {c} : req'[d] = req[d]
            BY <2>4, <2>1, <1>a DEF TaggingRequest
        <3>2. WritesIn(written', req[c].call) = Writes(req[c].call) \cup {<<req[c].column, g>>}
            BY <2>4, WritesGrow DEF Writes
        <3>3. Outstanding(req[c]) = Outstanding(req'[c]) \cup {<<req[c].column, g>>}
            BY <3>1, <2>1 DEF Outstanding
        <3>4. CallMoves(c, req[c].call)
            BY <2>1, <2>4, <3>1 DEF CallMoves, McpOps, Call
        <3>5. StillKnown(c, req[c].call)
            BY <2>2, <2>4, <3>1, <3>2, <3>3 DEF StillKnown, McpOps
        <3> QED
            BY <3>4, <3>5, CallKeeps
    <2> QED
        BY <1>9, <2>3, <2>4 DEF McpAttachTag
<1> QED
    BY <1>1, <1>2, <1>3, <1>4, <1>5, <1>6, <1>7, <1>8, <1>9

\* A call that is cut off in mid-way is among the failed.
LEMMA McpAbort ==
    ASSUME CatalogInv, McpInv, NEW c \in Client, AbortRequest(c) PROVE McpInv'
<1>a. DOMAIN req = Client /\ RequestsTyped
    BY DEF CatalogInv, RequestsTyped
<1>1. /\ req'[c].op = "idle" /\ \A d \in Client \ {c} : req'[d] = req[d]
      /\ UNCHANGED <<sent, audit, written>>
      /\ failed' = IF req[c].op \in McpCalls THEN failed \cup {req[c].call} ELSE failed
    BY <1>a DEF AbortRequest, Abort, GlossaryAbort, Finish, Idle
<1>2. CASE req[c].op \notin McpOps
    BY <1>1, <1>2, OthersQuiet, QuietKeeps DEF McpOps, McpCalls, glossaryVars
<1>3. CASE req[c].op \in McpOps
    <2>1. req[c].op = "mcp_create_tag" => Writes(req[c].call) = {}
        BY <1>3 DEF McpInv, CallsKnown, CallKnown
    <2>2. CallMoves(c, req[c].call) /\ IsOver(c, req[c].call)
        BY <1>1, <1>3, <2>1 DEF CallMoves, IsOver, McpOps, McpCalls, Writes
    <2> QED
        BY <2>2, CallKeeps
<1> QED
    BY <1>2, <1>3

LEMMA McpInductive == ASSUME CatalogInv, McpInv, [Next]_vars PROVE McpInv'
<1>1. CASE CatalogNext /\ UNCHANGED glossaryVars
    BY <1>1, CatalogQuiet, QuietKeeps
<1>2. CASE QualityNext /\ UNCHANGED glossaryVars
    BY <1>2, QualityQuiet, QuietKeeps
<1>3. CASE ScannerNext /\ UNCHANGED glossaryVars
    BY <1>3, ScannerQuiet, QuietKeeps
<1>4. CASE GlossaryNext
    <2>1. CASE \/ \E t \in Term, w \in Word : CreateTerm(t, w) \/ UpdateTerm(t, w)
               \/ \E x \in DOMAIN db.columns, t \in Term \cup {None} : AssignTerm(x, t)
               \/ \E g \in Tag : DeleteTag(g)
               \/ \E x \in DOMAIN db.columns, g \in Tag : AddTag(x, g) \/ RemoveTag(x, g)
        BY <2>1, GlossaryQuiet, QuietKeeps
    <2>2. ASSUME NEW c \in Client,
                 \/ \E t \in Term : DeleteTermClear(c, t)
                 \/ DeleteTermRow(c) \/ CreateTagInsert(c) \/ UpdateTagWrite(c)
                 \/ \E g \in Tag, w \in Word :
                       CreateTagCheck(c, g, w) \/ UpdateTagCheck(c, g, w)
          PROVE  McpInv'
        BY <2>2, TermAndTagQuiet, QuietKeeps
    <2> QED
        BY <1>4, <2>1, <2>2, McpStep DEF GlossaryNext
<1>5. ASSUME NEW c \in Client, AbortRequest(c) PROVE McpInv'
    BY <1>5, McpAbort
<1>6. CASE UNCHANGED vars
    <2>1. UNCHANGED <<req, sent, glossaryVars>>
        BY <1>6 DEF vars, catalogVars
    <2> QED
        BY <2>1, StillQuiet, QuietKeeps
<1> QED
    BY <1>1, <1>2, <1>3, <1>4, <1>5, <1>6 DEF Next

\* A governance event of an MCP call tells what the call wrote, all of it and
\* nothing else; a call that wrote and is over has its event, unless it failed.
THEOREM AuditsMatchWrites == Spec => []McpAuditMatchesWrites
<1>1. Init => McpInv
    BY DEF Init, CatalogInit, GlossaryInit, McpInv, CallsKnown, CallKnown, McpOps, Idle
<1>2. CatalogInv /\ McpInv /\ [Next]_vars => McpInv'
    BY McpInductive
<1>3. McpInv => McpAuditMatchesWrites
    BY DEF McpInv, McpAuditMatchesWrites, Writes, WritesIn
<1> QED
    BY <1>1, <1>2, <1>3, CatalogInvariant, PTL DEF Spec
=============================================================================
