---------------------------- MODULE HistoryProofs ----------------------------
(***************************************************************************)
(* Theorems about what the catalogue remembers.  Of schemas: the tree is   *)
(* the last scan, its change records tell what changed, the same scan      *)
(* saved again changes nothing, and what a source had all the time of a    *)
(* scan is not lost.  Of lineage: only a deletion makes it unreadable, and *)
(* the impact analysis finds the shortest distances.  Of checks: every     *)
(* rule has its result and every failure its event.                        *)
(***************************************************************************)
EXTENDS CatalogProofs, FiniteSetTheorems

(***************************************************************************)
(* One transaction of saveSchema.                                          *)
(***************************************************************************)
ScannedObjects(d, s, scan, k) == {ObjectOf(d, s, n, k) : n \in DOMAIN scan}

\* Row by row, what a saved scan makes of objects and columns.
RowsSaved(d, e, s, scan, k) ==
    /\ DOMAIN e.objects = (DOMAIN d.objects \ GoneObjects(d, s, scan))
                            \cup ScannedObjects(d, s, scan, k)
    /\ \A o \in ScannedObjects(d, s, scan, k) : e.objects[o].type = scan[o.name].type
    /\ \A o \in DOMAIN e.objects \ ScannedObjects(d, s, scan, k) :
          e.objects[o] = d.objects[o]
    /\ \A c \in DOMAIN e.columns :
          \/ c \in NewColumns(d, s, scan, k)
          \/ /\ c \in DOMAIN d.columns /\ c \notin GoneColumns(d, s, scan)
             /\ c.object \notin GoneObjects(d, s, scan)
    /\ NewColumns(d, s, scan, k) \subseteq DOMAIN e.columns
    /\ \A c \in DOMAIN d.columns :
          c \notin GoneColumns(d, s, scan) /\ c.object \notin GoneObjects(d, s, scan)
             => c \in DOMAIN e.columns
    /\ \A c \in NewColumns(d, s, scan, k) \cup Altered(d, s, scan) :
          e.columns[c].data = StoredData(InfoOf(scan, c))
    /\ \A c \in DOMAIN e.columns \ NewColumns(d, s, scan, k) :
          c \notin Altered(d, s, scan) => e.columns[c] = d.columns[c]
    /\ e.changes = d.changes \cup ChangeRecords(d, s, scan, k)

LEMMA SavedRows ==
    ASSUME NEW d, Sound(d), NEW s \in Source, NEW scan, IsScan(scan), NEW k \in ScanNo,
           NEW e, e = SavedSchema(d, s, scan, k)
    PROVE  RowsSaved(d, e, s, scan, k)
<1> DEFINE SO == SavedObjects(d, s, scan, k)
           CC == CreatedColumns(d, s, scan, k)
           UC == UpdatedColumns(d, s, scan)
<1>a. PICK f : f = DropGone(d, s, scan)
    OBVIOUS
<1>1. /\ Sound(f) /\ Pruned(d, f)
      /\ Dropped(d, f, GoneColumns(d, s, scan), GoneObjects(d, s, scan))
    BY <1>a, DropGoneSound
<1>2. /\ e.objects = Over(SO, f.objects) /\ e.columns = Over(CC, Over(UC, f.columns))
      /\ e.changes = d.changes \cup ChangeRecords(d, s, scan, k)
    BY <1>a, <1>1, SavedSchemaFields DEF Sound, Dropped
<1>3. /\ DOMAIN SO = ScannedObjects(d, s, scan, k)
      /\ \A o \in ScannedObjects(d, s, scan, k) : SO[o].type = scan[o.name].type
      /\ DOMAIN CC = NewColumns(d, s, scan, k)
      /\ \A c \in NewColumns(d, s, scan, k) : CC[c].data = StoredData(InfoOf(scan, c))
      /\ DOMAIN UC = Altered(d, s, scan)
      /\ \A c \in Altered(d, s, scan) : UC[c].data = StoredData(InfoOf(scan, c))
    <2>1. \A c \in Altered(d, s, scan) : d.columns[c] \in ColumnRow
        BY DEF Altered, ColumnsOfSource, Sound, DatabaseOK, IsTable
    <2> QED
        BY <2>1 DEF SavedObjects, CreatedColumns, UpdatedColumns, ColumnRow,
           ScannedObjects
<1>4. /\ IsTable(SO, ObjectId, SchemaObjectRow) /\ IsTable(CC, ColumnId, ColumnRow)
      /\ IsTable(UC, ColumnId, ColumnRow)
    BY SavedTables
<1>5. IsTable(f.objects, ObjectId, SchemaObjectRow) /\ IsTable(f.columns, ColumnId, ColumnRow)
    BY <1>1 DEF Sound, DatabaseOK
<1>6. /\ \A c \in DOMAIN f.columns : c \in DOMAIN d.columns /\ f.columns[c] = d.columns[c]
      /\ \A o \in DOMAIN f.objects : o \in DOMAIN d.objects /\ f.objects[o] = d.objects[o]
    BY <1>1 DEF Pruned, Part
<1>7. Altered(d, s, scan) \subseteq DOMAIN f.columns
    BY <1>1 DEF Altered, Dropped, GoneColumns, GoneObjects, InScan, ColumnsOfSource,
       ListSchemaObjectsBySource
<1>8. NewColumns(d, s, scan, k) \cap DOMAIN d.columns = {}
    BY DEF NewColumns
<1> HIDE DEF SO, CC, UC
<1>9. Overlaid(Over(UC, f.columns), UC, f.columns, ColumnId, ColumnRow)
    BY <1>4, <1>5, OverTable
<1>10. Overlaid(e.columns, CC, Over(UC, f.columns), ColumnId, ColumnRow)
    <2>1. IsTable(Over(UC, f.columns), ColumnId, ColumnRow)
        BY <1>9 DEF Overlaid
    <2> QED
        BY <2>1, <1>2, <1>4, OverTable
<1>11. Overlaid(e.objects, SO, f.objects, ObjectId, SchemaObjectRow)
    BY <1>2, <1>4, <1>5, OverTable
<1>12. /\ DOMAIN e.objects = (DOMAIN d.objects \ GoneObjects(d, s, scan))
                                \cup ScannedObjects(d, s, scan, k)
       /\ \A o \in ScannedObjects(d, s, scan, k) : e.objects[o].type = scan[o.name].type
       /\ \A o \in DOMAIN e.objects \ ScannedObjects(d, s, scan, k) :
             e.objects[o] = d.objects[o]
    BY <1>1, <1>3, <1>6, <1>11 DEF Overlaid, Dropped
<1>13. DOMAIN e.columns = DOMAIN f.columns \cup NewColumns(d, s, scan, k)
    BY <1>3, <1>7, <1>9, <1>10 DEF Overlaid
<1>14. \A c : c \in DOMAIN f.columns <=>
          /\ c \in DOMAIN d.columns /\ c \notin GoneColumns(d, s, scan)
          /\ c.object \notin GoneObjects(d, s, scan)
    BY <1>1 DEF Dropped
<1>15. \A c \in NewColumns(d, s, scan, k) \cup Altered(d, s, scan) :
          e.columns[c].data = StoredData(InfoOf(scan, c))
    BY <1>3, <1>7, <1>6, <1>8, <1>9, <1>10 DEF Overlaid
<1>16. \A c \in DOMAIN e.columns \ NewColumns(d, s, scan, k) :
          c \notin Altered(d, s, scan) => e.columns[c] = d.columns[c]
    BY <1>3, <1>6, <1>9, <1>10 DEF Overlaid
<1> QED
    BY <1>2, <1>12, <1>13, <1>14, <1>15, <1>16 DEF RowsSaved
\* The objects and columns of source s are those of the scan.
TreeMatches(d, s, scan) ==
    /\ \A o \in ListSchemaObjectsBySource(d, s) :
          o.name \in DOMAIN scan /\ d.objects[o].type = scan[o.name].type
    /\ \A n \in DOMAIN scan : \E o \in ListSchemaObjectsBySource(d, s) : o.name = n
    /\ \A c \in ColumnsOfSource(d, s) :
          /\ InScan(scan, c)
          /\ StoredSignature(d.columns[c]) = ScannedSignature(InfoOf(scan, c))
    /\ \A o \in ListSchemaObjectsBySource(d, s) :
          \A x \in DOMAIN scan[o.name].columns :
             \E c \in DOMAIN d.columns : c.object = o /\ c.column = x

\* Between d and e nothing happened to the objects and columns of source s.
SchemaSame(d, e, s) ==
    /\ ListSchemaObjectsBySource(e, s) = ListSchemaObjectsBySource(d, s)
    /\ \A o \in ListSchemaObjectsBySource(d, s) : e.objects[o] = d.objects[o]
    /\ ColumnsOfSource(e, s) = ColumnsOfSource(d, s)
    /\ \A c \in ColumnsOfSource(d, s) : e.columns[c].data = d.columns[c].data

LEMMA ScannedObjectsAre ==
    ASSUME NEW d, Sound(d), NEW s \in Source, NEW scan, IsScan(scan), NEW k \in ScanNo
    PROVE  /\ \A o \in ScannedObjects(d, s, scan, k) :
                 /\ o.source = s /\ o.name \in DOMAIN scan
                 /\ o = ObjectOf(d, s, o.name, k)
           /\ \A n \in DOMAIN scan :
                 \E o \in ScannedObjects(d, s, scan, k) : o.name = n
           /\ \A o \in ListSchemaObjectsBySource(d, s) :
                 o.name \in DOMAIN scan => o \in ScannedObjects(d, s, scan, k)
<1>1. \A n \in DOMAIN scan :
          /\ ObjectOf(d, s, n, k) \in ObjectId
          /\ ObjectOf(d, s, n, k).source = s /\ ObjectOf(d, s, n, k).name = n
          /\ \/ ObjectOf(d, s, n, k) \in DOMAIN d.objects
             \/ \A o \in DOMAIN d.objects : <<o.source, o.name>> # <<s, n>>
    BY ObjectOfName DEF IsScan
<1>2. ASSUME NEW o \in ListSchemaObjectsBySource(d, s), o.name \in DOMAIN scan
      PROVE  o = ObjectOf(d, s, o.name, k)
    <2>1. o \in DOMAIN d.objects /\ o.source = s
        BY DEF ListSchemaObjectsBySource
    <2>2. ObjectOf(d, s, o.name, k) \in DOMAIN d.objects
        BY <1>1, <1>2, <2>1
    <2> QED
        BY <1>1, <1>2, <2>1, <2>2 DEF Sound, NamesUnique
<1> QED
    BY <1>1, <1>2 DEF ScannedObjects

LEMMA SavedTree ==
    ASSUME NEW d, Sound(d), NEW s \in Source, NEW scan, IsScan(scan), NEW k \in ScanNo,
           NEW e, RowsSaved(d, e, s, scan, k)
    PROVE  TreeMatches(e, s, scan)
<1>a. PICK SO : SO = ScannedObjects(d, s, scan, k)
    OBVIOUS
<1>b. PICK New : New = NewColumns(d, s, scan, k)
    OBVIOUS
<1>1. /\ \A o \in SO : o.source = s /\ o.name \in DOMAIN scan
      /\ \A n \in DOMAIN scan : \E o \in SO : o.name = n
      /\ \A o \in ListSchemaObjectsBySource(d, s) : o.name \in DOMAIN scan => o \in SO
    BY <1>a, ScannedObjectsAre
<1>2. ListSchemaObjectsBySource(e, s) = SO
    BY <1>1, <1>a DEF RowsSaved, ListSchemaObjectsBySource, GoneObjects
<1>3. \A o \in SO : e.objects[o].type = scan[o.name].type
    BY <1>a DEF RowsSaved
<1>4. \A c \in New : /\ c \in ColumnId /\ InScan(scan, c) /\ c.object \in SO
                     /\ c \in DOMAIN e.columns
                     /\ e.columns[c].data = StoredData(InfoOf(scan, c))
    BY <1>a, <1>b, NewColumnsAre DEF RowsSaved, ScannedObjects
<1>5. ASSUME NEW c \in ColumnsOfSource(e, s)
      PROVE  /\ InScan(scan, c)
             /\ StoredSignature(e.columns[c]) = ScannedSignature(InfoOf(scan, c))
    <2>1. CASE c \in New
        <3>1. /\ InScan(scan, c)
              /\ e.columns[c].data = StoredData(InfoOf(scan, c))
            BY <1>4, <2>1
        <3> QED
            BY <3>1, ScannedInfo DEF StoredSignature
    <2>2. CASE c \notin New
        <3>1. /\ c \in ColumnsOfSource(d, s) /\ c \notin GoneColumns(d, s, scan)
              /\ c.object \notin GoneObjects(d, s, scan)
            BY <2>2, <1>b DEF RowsSaved, ColumnsOfSource
        <3>2. c.object \in ListSchemaObjectsBySource(d, s)
            BY <3>1 DEF ColumnsOfSource, ListSchemaObjectsBySource, Sound, ForeignKeysHold
        <3>3. InScan(scan, c)
            BY <3>1, <3>2 DEF GoneColumns, GoneObjects
        <3>4. CASE c \in Altered(d, s, scan)
            <4>1. e.columns[c].data = StoredData(InfoOf(scan, c))
                BY <3>4 DEF RowsSaved
            <4> QED
                BY <4>1, <3>3, ScannedInfo DEF StoredSignature
        <3>5. CASE c \notin Altered(d, s, scan)
            <4>1. e.columns[c] = d.columns[c]
                BY <3>5, <2>2, <1>b DEF RowsSaved, ColumnsOfSource
            <4> QED
                BY <4>1, <3>1, <3>3, <3>5 DEF Altered
        <3> QED
            BY <3>3, <3>4, <3>5
    <2> QED
        BY <2>1, <2>2
<1>6. ASSUME NEW o \in SO, NEW x \in DOMAIN scan[o.name].columns
      PROVE  \E c \in DOMAIN e.columns : c.object = o /\ c.column = x
    <2> DEFINE c == [object |-> o, column |-> x, scan |-> k]
    <2>1. /\ o.name \in DOMAIN scan /\ x \in ColumnName /\ InScan(scan, c)
        BY <1>1 DEF IsScan, IsTable, InScan
    <2>2. CASE \E b \in DOMAIN d.columns : b.object = o /\ b.column = x
        <3>1. PICK b \in DOMAIN d.columns : b.object = o /\ b.column = x
            BY <2>2
        <3>2. b \notin GoneColumns(d, s, scan) /\ b.object \notin GoneObjects(d, s, scan)
            BY <2>1, <3>1 DEF GoneColumns, GoneObjects, InScan
        <3> QED
            BY <3>1, <3>2 DEF RowsSaved
    <2>3. CASE ~\E b \in DOMAIN d.columns : b.object = o /\ b.column = x
        <3>1. c \in New
            BY <2>1, <2>3, <1>a, <1>b DEF NewColumns, ScannedObjects
        <3> QED
            BY <3>1, <1>4
    <2> QED
        BY <2>2, <2>3
<1> QED
    BY <1>1, <1>2, <1>3, <1>5, <1>6 DEF TreeMatches

LEMMA OthersSame ==
    ASSUME NEW d, Sound(d), NEW s \in Source, NEW scan, IsScan(scan), NEW k \in ScanNo,
           NEW e, RowsSaved(d, e, s, scan, k), NEW t, t # s
    PROVE  SchemaSame(d, e, t)
<1>1. \A o \in ScannedObjects(d, s, scan, k) : o.source = s
    BY ScannedObjectsAre
<1>2. \A o \in GoneObjects(d, s, scan) : o.source = s
    BY DEF GoneObjects, ListSchemaObjectsBySource
<1>3. \A c \in NewColumns(d, s, scan, k) : c.object.source = s
    BY <1>1, NewColumnsAre DEF ScannedObjects
<1>4. \A c \in GoneColumns(d, s, scan) \cup Altered(d, s, scan) : c.object.source = s
    BY DEF GoneColumns, Altered, ColumnsOfSource
<1>5. ListSchemaObjectsBySource(e, t) = ListSchemaObjectsBySource(d, t)
    BY <1>1, <1>2 DEF RowsSaved, ListSchemaObjectsBySource
<1>6. ColumnsOfSource(e, t) = ColumnsOfSource(d, t)
    BY <1>2, <1>3, <1>4 DEF RowsSaved, ColumnsOfSource
<1>7. \A o \in ListSchemaObjectsBySource(d, t) : e.objects[o] = d.objects[o]
    BY <1>1, <1>5 DEF RowsSaved, ListSchemaObjectsBySource
<1>8. \A c \in ColumnsOfSource(d, t) : e.columns[c].data = d.columns[c].data
    BY <1>3, <1>4, <1>6 DEF RowsSaved, ColumnsOfSource
<1> QED
    BY <1>5, <1>6, <1>7, <1>8 DEF SchemaSame

LEMMA TreeStays ==
    ASSUME NEW d, NEW e, NEW s, NEW scan, SchemaSame(d, e, s), TreeMatches(d, s, scan)
    PROVE  TreeMatches(e, s, scan)
BY DEF TreeMatches, SchemaSame, ListSchemaObjectsBySource, ColumnsOfSource, StoredSignature

\* The schema tree a scan stands for.
ScannedTree(scan) ==
    [n \in DOMAIN scan |->
        [type |-> scan[n].type,
         columns |-> [x \in DOMAIN scan[n].columns |->
            ScannedSignature(scan[n].columns[x])]]]

LEMMA TreeIsScan ==
    ASSUME NEW d, Sound(d), NEW s, NEW scan, TreeMatches(d, s, scan)
    PROVE  SchemaTree(d, s) = ScannedTree(scan)
<1> DEFINE names == {o.name : o \in ListSchemaObjectsBySource(d, s)}
           cols(o) == ListColumnsByObject(d, o)
           theirs(o) == {c.column : c \in cols(o)}
           the(n) == CHOOSE o \in Known(d, s, n) : TRUE
           at(o, x) == StoredSignature(d.columns[CHOOSE c \in cols(o) : c.column = x])
<1>1. names = DOMAIN scan
    <2>1. \A o \in ListSchemaObjectsBySource(d, s) : o.name \in DOMAIN scan
        BY DEF TreeMatches
    <2>2. \A n \in DOMAIN scan : \E o \in ListSchemaObjectsBySource(d, s) : o.name = n
        BY DEF TreeMatches
    <2> QED
        BY <2>1, <2>2
<1>2. ASSUME NEW n \in DOMAIN scan
      PROVE  /\ the(n) \in ListSchemaObjectsBySource(d, s)
             /\ the(n).name = n
    BY <1>2 DEF TreeMatches, Known
<1>3. ASSUME NEW o \in ListSchemaObjectsBySource(d, s)
      PROVE  /\ theirs(o) = DOMAIN scan[o.name].columns
             /\ \A x \in theirs(o) : at(o, x) = ScannedSignature(scan[o.name].columns[x])
    <2>1. \A c \in cols(o) : c \in ColumnsOfSource(d, s) /\ c.object = o
        BY <1>3 DEF ListSchemaObjectsBySource, ListColumnsByObject, ColumnsOfSource
    <2>2. theirs(o) = DOMAIN scan[o.name].columns
        BY <1>3, <2>1 DEF TreeMatches, InScan, ListColumnsByObject
    <2>3. ASSUME NEW x \in theirs(o)
          PROVE  at(o, x) = ScannedSignature(scan[o.name].columns[x])
        <3>1. PICK c : c = (CHOOSE z \in cols(o) : z.column = x)
            OBVIOUS
        <3>2. c \in cols(o) /\ c.column = x
            BY <3>1
        <3>3. StoredSignature(d.columns[c]) = ScannedSignature(InfoOf(scan, c))
            BY <2>1, <3>2 DEF TreeMatches
        <3> QED
            BY <2>1, <3>1, <3>2, <3>3 DEF InfoOf
    <2> QED
        BY <2>2, <2>3
<1>4. SchemaTree(d, s) =
          [n \in names |-> [type |-> d.objects[the(n)].type,
                            columns |-> [x \in theirs(the(n)) |-> at(the(n), x)]]]
    BY DEF SchemaTree
<1> HIDE DEF names, the, theirs, at
<1>5. ASSUME NEW n \in DOMAIN scan
      PROVE  [type |-> d.objects[the(n)].type,
              columns |-> [x \in theirs(the(n)) |-> at(the(n), x)]]
               = [type |-> scan[n].type,
                  columns |-> [x \in DOMAIN scan[n].columns |->
                                  ScannedSignature(scan[n].columns[x])]]
    <2>1. the(n) \in ListSchemaObjectsBySource(d, s) /\ the(n).name = n
        BY <1>2
    <2>2. d.objects[the(n)].type = scan[n].type
        BY <2>1 DEF TreeMatches
    <2>3. /\ theirs(the(n)) = DOMAIN scan[n].columns
          /\ \A x \in DOMAIN scan[n].columns :
                at(the(n), x) = ScannedSignature(scan[n].columns[x])
        BY <2>1, <1>3
    <2> QED
        BY <2>2, <2>3
<1> QED
    BY <1>1, <1>4, <1>5 DEF ScannedTree
(***************************************************************************)
(* Rules and their results: a result goes only with its rule, or with the  *)
(* column of both.                                                         *)
(***************************************************************************)
\* A result is about the column of its rule.
ResultsFollow(d) == \A x \in d.results : x.column = d.rules[x.rule].column

RulesStay(d, e) ==
    /\ \A r \in DOMAIN e.rules :
          r \in DOMAIN d.rules /\ e.rules[r].column = d.rules[r].column
    /\ e.results \subseteq d.results
    /\ ResultsFollow(d) =>
          \A x \in d.results : x.rule \in DOMAIN e.rules => x \in e.results

RulesSame(d, e) == e.rules = d.rules /\ e.results = d.results

LEMMA SameRulesStay == ASSUME NEW d, NEW e, RulesSame(d, e) PROVE RulesStay(d, e)
BY DEF RulesSame, RulesStay

LEMMA StayTwice ==
    ASSUME NEW d, NEW f, NEW e, Sound(f), RulesStay(d, f), RulesStay(f, e)
    PROVE  RulesStay(d, e)
<1>1. \A x \in f.results : x.rule \in DOMAIN f.rules
    BY DEF Sound, ForeignKeysHold
<1>2. ResultsFollow(d) => ResultsFollow(f)
    BY <1>1 DEF ResultsFollow, RulesStay
<1> QED
    BY <1>2 DEF RulesStay

LEMMA CascadeRulesStay ==
    ASSUME NEW d, Sound(d), NEW R, NEW e, e = CascadeRules(d, R)
    PROVE  RulesStay(d, e)
<1>1. e.rules = Without(d.rules, R) /\ e.results = {x \in d.results : x.rule \notin R}
    BY CascadeRulesFields DEF Sound
<1> QED
    BY <1>1 DEF RulesStay, Without, Restrict

LEMMA CascadeColumnsStay ==
    ASSUME NEW d, Sound(d), NEW C, NEW e, e = CascadeColumns(d, C)
    PROVE  RulesStay(d, e)
<1>1. PICK R : R = {r \in DOMAIN d.rules : d.rules[r].column \in C}
    OBVIOUS
<1>a. IsDatabase(d)
    BY DEF Sound
<1>b. ColumnsGone(d, e, C, R)
    BY <1>a, <1>1, CascadeColumnsFields
<1>2. /\ e.rules = Without(d.rules, R)
      /\ e.results = {x \in d.results : x.rule \notin R /\ x.column \notin C}
    BY <1>b DEF ColumnsGone
<1>3. \A x \in d.results : x.rule \in DOMAIN d.rules
    BY DEF Sound, ForeignKeysHold
<1> QED
    BY <1>1, <1>2, <1>3 DEF RulesStay, ResultsFollow, Without, Restrict

LEMMA CascadeObjectsStay ==
    ASSUME NEW d, Sound(d), NEW O, NEW e, e = CascadeObjects(d, O)
    PROVE  RulesStay(d, e)
<1>1. PICK f : f = CascadeColumns(d, {c \in DOMAIN d.columns : c.object \in O})
    OBVIOUS
<1>2. PICK g : g = CascadeRules(f, {r \in DOMAIN d.rules : d.rules[r].object \in O})
    OBVIOUS
<1>3. Sound(f) /\ RulesStay(d, f)
    BY <1>1, CascadeColumnsSound, CascadeColumnsStay
<1>4. Sound(g) /\ RulesStay(f, g)
    BY <1>2, <1>3, CascadeRulesSound, CascadeRulesStay
<1>5. e = [g EXCEPT !.objects = Without(@, O)]
    BY <1>1, <1>2 DEF CascadeObjects
<1>6. RulesSame(g, e)
    BY <1>4, <1>5 DEF Sound, IsDatabase, RulesSame
<1> QED
    BY <1>3, <1>4, <1>6, SameRulesStay, StayTwice

LEMMA CascadeSourceStay ==
    ASSUME NEW d, Sound(d), NEW s, NEW e, e = CascadeSource(d, s)
    PROVE  RulesStay(d, e)
<1>1. PICK f : f = CascadeObjects(d, ListSchemaObjectsBySource(d, s))
    OBVIOUS
<1>2. PICK g : g = CascadeRules(f, {r \in DOMAIN d.rules : d.rules[r].source = s})
    OBVIOUS
<1>3. Sound(f) /\ RulesStay(d, f)
    BY <1>1, CascadeObjectsSound, CascadeObjectsStay
<1>4. Sound(g) /\ RulesStay(f, g)
    BY <1>2, <1>3, CascadeRulesSound, CascadeRulesStay
<1>5. e = [g EXCEPT !.sources = Without(@, {s}),
                    !.changes = {ch \in @ : ch.source # s}]
    BY <1>1, <1>2 DEF CascadeSource
<1>6. RulesSame(g, e)
    BY <1>4, <1>5 DEF Sound, IsDatabase, RulesSame
<1> QED
    BY <1>3, <1>4, <1>6, SameRulesStay, StayTwice

LEMMA StoreScanStays ==
    ASSUME NEW s, NEW scan, Sound(db), StoreScan(s, scan) PROVE RulesStay(db, db')
<1> DEFINE cols == GoneColumns(db, s, scan)
           objs == GoneObjects(db, s, scan)
           theirs == {c \in DOMAIN db.columns : c.object \in objs}
<1>1. PICK f : f = DeleteLineageEdgesByNode(db, cols \cup objs \cup theirs)
    OBVIOUS
<1>2. PICK g : g = CascadeColumns(f, cols)
    OBVIOUS
<1>3. PICK h : h = DropGone(db, s, scan)
    OBVIOUS
<1>4. PICK e : e = SavedSchema(db, s, scan, saves[s] + 1)
    OBVIOUS
<1>5. Sound(f) /\ RulesSame(db, f)
    <2>1. Sound(f)
        BY <1>1, DeleteLineageEdgesByNodeSound
    <2>2. RulesSame(db, f)
        BY <1>1 DEF DeleteLineageEdgesByNode, Sound, IsDatabase, RulesSame
    <2> QED
        BY <2>1, <2>2
<1>6. Sound(g) /\ RulesStay(f, g)
    BY <1>2, <1>5, CascadeColumnsSound, CascadeColumnsStay
<1>7. h = CascadeObjects(g, objs)
    BY <1>1, <1>2, <1>3 DEF DropGone
<1>8. Sound(h) /\ RulesStay(g, h)
    BY <1>6, <1>7, CascadeObjectsSound, CascadeObjectsStay
<1>9. RulesSame(h, e)
    BY <1>3, <1>4, <1>8, SavedSchemaFields DEF Sound, RulesSame
<1>10. RulesStay(db, g)
    BY <1>5, <1>6, SameRulesStay, StayTwice
<1>11. RulesStay(db, h)
    BY <1>6, <1>8, <1>10, StayTwice
<1>12. e = db'
    BY <1>4 DEF StoreScan
<1> QED
    BY <1>8, <1>9, <1>11, <1>12, SameRulesStay, StayTwice

(***************************************************************************)
(* The other statements leave objects and columns alone; those of a        *)
(* deletion, the objects and columns of other sources.                     *)
(***************************************************************************)
Nodes(d) == DOMAIN d.objects \cup DOMAIN d.columns

\* The lineage edges: none is new, or one is, between nodes that are there.
EdgesGrow(d, e) ==
    \/ e.edges \subseteq d.edges
    \/ \E m : {m.from, m.to} \subseteq Nodes(d) /\ e.edges = d.edges \cup {m}

SchemaFrame(d, e) ==
    /\ e.objects = d.objects
    /\ DOMAIN e.columns = DOMAIN d.columns
    /\ \A c \in DOMAIN d.columns : e.columns[c].data = d.columns[c].data
    /\ e.changes \subseteq d.changes
    /\ EdgesGrow(d, e)

LEMMA FrameIsSame ==
    ASSUME NEW d, NEW e, SchemaFrame(d, e), NEW s PROVE SchemaSame(d, e, s)
BY DEF SchemaFrame, SchemaSame, ListSchemaObjectsBySource, ColumnsOfSource

LEMMA SourceStatements ==
    ASSUME NEW d, Sound(d), NEW e, NEW x, NEW y, NEW z,
           \/ e = d \/ e = CreateDataSource(d, x, y) \/ e = UpdateDataSource(d, x, y, z)
           \/ e = DeleteSchemaChangesBySource(d, x)
           \/ e = CreateColumnMapping(d, x, y) \/ e = DeleteColumnMapping(d, x)
    PROVE  SchemaFrame(d, e) /\ RulesSame(d, e)
<1>1. CASE e = d
    BY <1>1 DEF SchemaFrame, RulesSame, EdgesGrow
<1>2. CASE e = CreateDataSource(d, x, y) \/ e = UpdateDataSource(d, x, y, z)
    BY <1>2 DEF CreateDataSource, UpdateDataSource, Sound, IsDatabase, SchemaFrame, RulesSame,
       EdgesGrow
<1>3. CASE e = DeleteSchemaChangesBySource(d, x)
    BY <1>3 DEF DeleteSchemaChangesBySource, Sound, IsDatabase, SchemaFrame, RulesSame,
       EdgesGrow
<1>4. CASE e = CreateColumnMapping(d, x, y) \/ e = DeleteColumnMapping(d, x)
    BY <1>4 DEF CreateColumnMapping, DeleteColumnMapping, Sound,
       IsDatabase, SchemaFrame, RulesSame, EdgesGrow
<1> QED
    BY <1>1, <1>2, <1>3, <1>4

LEMMA EdgeStatement ==
    ASSUME NEW d, Sound(d), NEW x, NEW y, {x, y} \subseteq Nodes(d),
           NEW e, e = CreateLineageEdge(d, x, y)
    PROVE  SchemaFrame(d, e) /\ RulesSame(d, e)
<1> DEFINE m == [from |-> x, to |-> y]
<1>1. /\ e.objects = d.objects /\ e.columns = d.columns /\ e.changes = d.changes
      /\ RulesSame(d, e) /\ e.edges = d.edges \cup {m}
    BY DEF CreateLineageEdge, Sound, IsDatabase, RulesSame
<1>2. EdgesGrow(d, e)
    <2>1. m.from = x /\ m.to = y
        OBVIOUS
    <2> HIDE DEF m
    <2> QED
        BY <1>1, <2>1 DEF EdgesGrow
<1> QED
    BY <1>1, <1>2 DEF SchemaFrame

LEMMA GlossaryStatements ==
    ASSUME NEW d, Sound(d), NEW e, NEW x, NEW y,
           \/ e = d \/ e = CreateBusinessTerm(d, x, y) \/ e = UpdateBusinessTerm(d, x, y)
           \/ e = DeleteBusinessTermRow(d, x) \/ e = ClearTermAssociations(d, x)
           \/ e = AssignTermToColumn(d, x, y)
           \/ e = CreateTag(d, x, y) \/ e = UpdateTag(d, x, y) \/ e = CascadeTag(d, x)
           \/ e = AddTagToColumn(d, x, y) \/ e = RemoveTagFromColumn(d, x, y)
           \/ e = CreateColumnMapping(d, x, y)
    PROVE  SchemaFrame(d, e) /\ RulesSame(d, e)
<1>1. CASE e = d \/ e = CreateColumnMapping(d, x, y)
    BY <1>1, SourceStatements
<1>2. CASE \/ e = CreateBusinessTerm(d, x, y) \/ e = UpdateBusinessTerm(d, x, y)
           \/ e = DeleteBusinessTermRow(d, x)
    BY <1>2 DEF CreateBusinessTerm, UpdateBusinessTerm, DeleteBusinessTermRow, Sound,
       IsDatabase, SchemaFrame, RulesSame, EdgesGrow
<1>3. CASE e = ClearTermAssociations(d, x)
    <2>1. /\ e.objects = d.objects /\ e.changes = d.changes /\ RulesSame(d, e)
          /\ EdgesGrow(d, e)
          /\ e.columns = [c \in DOMAIN d.columns |->
                IF d.columns[c].term = x
                THEN [d.columns[c] EXCEPT !.term = None] ELSE d.columns[c]]
        BY <1>3 DEF ClearTermAssociations, Sound, IsDatabase, RulesSame, EdgesGrow
    <2>2. \A c \in DOMAIN d.columns : d.columns[c] \in ColumnRow
        BY DEF Sound, DatabaseOK, IsTable
    <2> QED
        BY <2>1, <2>2 DEF ColumnRow, SchemaFrame, RulesSame
<1>4. CASE e = AssignTermToColumn(d, x, y)
    <2>1. /\ e.objects = d.objects /\ e.changes = d.changes /\ RulesSame(d, e)
          /\ EdgesGrow(d, e)
          /\ e.columns = [d.columns EXCEPT ![x].term = y]
        BY <1>4 DEF AssignTermToColumn, Sound, IsDatabase, RulesSame, EdgesGrow
    <2>2. \A c \in DOMAIN d.columns : d.columns[c] \in ColumnRow
        BY DEF Sound, DatabaseOK, IsTable
    <2> QED
        BY <2>1, <2>2 DEF ColumnRow, SchemaFrame, RulesSame
<1>5. CASE e = CreateTag(d, x, y) \/ e = UpdateTag(d, x, y) \/ e = CascadeTag(d, x)
    BY <1>5 DEF CreateTag, UpdateTag, CascadeTag, Sound, IsDatabase, SchemaFrame, RulesSame,
       EdgesGrow
<1>6. CASE e = AddTagToColumn(d, x, y) \/ e = RemoveTagFromColumn(d, x, y)
    BY <1>6 DEF AddTagToColumn, RemoveTagFromColumn, Sound, IsDatabase, SchemaFrame, RulesSame,
       EdgesGrow
<1> QED
    BY <1>1, <1>2, <1>3, <1>4, <1>5, <1>6

LEMMA QualityStatements ==
    ASSUME NEW d, Sound(d), NEW e, NEW x, NEW y, NEW z,
           \/ e = d \/ e = CreateDQRule(d, x, y) \/ e = UpdateDQRule(d, x, y, z)
           \/ e = CascadeRules(d, x) \/ e = CreateDQResult(d, x)
    PROVE  SchemaFrame(d, e)
<1>1. CASE e = d
    BY <1>1, SourceStatements
<1>2. CASE \/ e = CreateDQRule(d, x, y) \/ e = UpdateDQRule(d, x, y, z)
           \/ e = CreateDQResult(d, x)
    BY <1>2 DEF CreateDQRule, UpdateDQRule, CreateDQResult, Sound, IsDatabase,
       SchemaFrame, EdgesGrow
<1>3. CASE e = CascadeRules(d, x)
    BY <1>3, CascadeRulesFields DEF Sound, SchemaFrame, EdgesGrow
<1> QED
    BY <1>1, <1>2, <1>3

LEMMA CascadesSame ==
    ASSUME NEW d, Sound(d), NEW e, NEW s, NEW t, t # s,
           \/ \E o : o.source = s /\ e = DeleteColumnsByObject(d, o)
           \/ e = DeleteSchemaObjectsBySource(d, s)
           \/ e = CascadeSource(d, s)
    PROVE  /\ SchemaSame(d, e, t) /\ e.changes \subseteq d.changes
           /\ e.edges \subseteq d.edges
<1>1. ASSUME NEW o, o.source = s, e = DeleteColumnsByObject(d, o)
      PROVE  /\ SchemaSame(d, e, t) /\ e.changes \subseteq d.changes
             /\ e.edges \subseteq d.edges
    <2> DEFINE C == ListColumnsByObject(d, o)
               R == {r \in DOMAIN d.rules : d.rules[r].column \in C}
    <2>1. ColumnsGone(d, e, C, R)
        BY <1>1, CascadeColumnsFields DEF DeleteColumnsByObject, Sound
    <2>2. \A c \in C : c.object.source = s
        BY <1>1 DEF ListColumnsByObject
    <2> HIDE DEF C, R
    <2> QED
        BY <2>1, <2>2 DEF ColumnsGone, SchemaSame, ListSchemaObjectsBySource,
           ColumnsOfSource, Without, Restrict
<1>2. ASSUME NEW f, f = CascadeObjects(d, ListSchemaObjectsBySource(d, s))
      PROVE  /\ SchemaSame(d, f, t) /\ f.changes \subseteq d.changes
             /\ Sound(f) /\ f.edges \subseteq d.edges
    <2> DEFINE O == ListSchemaObjectsBySource(d, s)
               C == {c \in DOMAIN d.columns : c.object \in O}
               R == {r \in DOMAIN d.rules : d.rules[r].column \in C}
               Q == {r \in DOMAIN d.rules : d.rules[r].object \in O}
    <2>1. ObjectsGone(d, f, O, C, R, Q) /\ Sound(f)
        BY <1>2, CascadeObjectsSound
    <2>2. (\A o \in O : o.source = s) /\ (\A c \in C : c.object.source = s)
        BY DEF ListSchemaObjectsBySource
    <2> HIDE DEF O, C, R, Q
    <2> QED
        BY <2>1, <2>2 DEF ObjectsGone, SchemaSame, ListSchemaObjectsBySource,
           ColumnsOfSource, Without, Restrict
<1>3. CASE e = CascadeSource(d, s)
    <2>1. PICK f : f = CascadeObjects(d, ListSchemaObjectsBySource(d, s))
        OBVIOUS
    <2>2. PICK g : g = CascadeRules(f, {r \in DOMAIN d.rules : d.rules[r].source = s})
        OBVIOUS
    <2>3. /\ SchemaSame(d, f, t) /\ f.changes \subseteq d.changes
          /\ Sound(f) /\ f.edges \subseteq d.edges
        BY <1>2, <2>1
    <2>4. IsDatabase(g) /\ g.objects = f.objects /\ g.columns = f.columns
          /\ g.changes = f.changes /\ g.edges = f.edges
        BY <2>2, <2>3, CascadeRulesFields DEF Sound
    <2>5. e = [g EXCEPT !.sources = Without(@, {s}),
                        !.changes = {ch \in @ : ch.source # s}]
        BY <1>3, <2>1, <2>2 DEF CascadeSource
    <2>6. /\ e.objects = g.objects /\ e.columns = g.columns
          /\ e.changes \subseteq g.changes /\ e.edges = g.edges
        BY <2>4, <2>5 DEF IsDatabase
    <2> QED
        BY <2>3, <2>4, <2>6 DEF SchemaSame, ListSchemaObjectsBySource, ColumnsOfSource
<1> QED
    BY <1>1, <1>2, <1>3 DEF DeleteSchemaObjectsBySource
(***************************************************************************)
(* The steps: one saves a scan, or leaves the schemas of the sources       *)
(* alone that nobody began to delete.                                      *)
(***************************************************************************)
DeleteKnown(q, gone) ==
    q.op = "delete" =>
        q.source \in gone /\ \A o \in q.objects : o.source = q.source

DeletesKnown == \A c \in Client : DeleteKnown(req[c], doomed)

SchemaQuiet ==
    /\ doomed \subseteq doomed'
    /\ \A s \in Source \ doomed' : SchemaSame(db, db', s)
    /\ db'.changes \subseteq db.changes
    /\ EdgesGrow(db, db')

ScanSaved ==
    /\ doomed' = doomed
    /\ \E s, scan : s \in Source /\ IsScan(scan) /\ StoreScan(s, scan)

\* Nor are rules or results added.
QuietStep == SchemaQuiet /\ RulesStay(db, db')

LEMMA FrameIsQuiet ==
    ASSUME SchemaFrame(db, db'), doomed \subseteq doomed' PROVE SchemaQuiet
<1>1. \A s : SchemaSame(db, db', s)
    BY FrameIsSame
<1> QED
    BY <1>1 DEF SchemaQuiet, SchemaFrame

LEMMA CatalogSchema ==
    ASSUME CatalogInv, DeletesKnown, CatalogNext PROVE QuietStep \/ ScanSaved
<1>a. Sound(db) /\ RequestsTyped /\ DOMAIN req = Client
    BY DEF CatalogInv, StoreInv, RequestsTyped
<1>1. ASSUME NEW s \in Source, NEW h, NEW w, CreateSource(s, h, w)
      PROVE  QuietStep
    BY <1>1, <1>a, SourceStatements, FrameIsQuiet, SameRulesStay DEF QuietStep, CreateSource
<1>2. ASSUME NEW s \in Source, NEW scan \in Scans, SaveSchema(s, scan)
      PROVE  ScanSaved
    BY <1>2, CatalogAssumption DEF SaveSchema, ScanSaved
<1>3. ASSUME NEW x, NEW y, MapColumns(x, y) \/ UnmapColumns(x) PROVE QuietStep
    BY <1>3, <1>a, SourceStatements, FrameIsQuiet, SameRulesStay
       DEF QuietStep, MapColumns, UnmapColumns
<1>7. ASSUME NEW x, NEW y, ImportEdge(x, y) PROVE QuietStep
    BY <1>7, <1>a, EdgeStatement, FrameIsQuiet, SameRulesStay
       DEF QuietStep, ImportEdge, Nodes
<1>4. ASSUME NEW c, NEW s, NEW h, NEW w,
             UpdateSourceRead(c, s, h, w) \/ DeleteSource(c, s)
      PROVE  QuietStep
    BY <1>4, <1>a, SourceStatements, FrameIsQuiet, SameRulesStay
       DEF QuietStep, UpdateSourceRead, DeleteSource
<1>5. ASSUME NEW c, UpdateSourceWrite(c) \/ DeleteSourceChanges(c)
      PROVE  QuietStep
    BY <1>5, <1>a, SourceStatements, FrameIsQuiet, SameRulesStay
       DEF QuietStep, UpdateSourceWrite,
       DeleteSourceChanges
<1>6. ASSUME NEW c \in Client, NEW o,
             \/ DeleteSourceColumns(c, o) \/ DeleteSourceObjects(c)
             \/ DeleteSourceRow(c)
      PROVE  QuietStep
    <2> DEFINE s == req[c].source
    <2>1. s \in doomed /\ doomed' = doomed
        BY <1>6 DEF DeletesKnown, DeleteKnown, DeleteSourceColumns,
           DeleteSourceObjects, DeleteSourceRow, Deleting
    <2>2. \/ \E x : x.source = s /\ db' = DeleteColumnsByObject(db, x)
          \/ db' = DeleteSchemaObjectsBySource(db, s)
          \/ db' = CascadeSource(db, s)
        BY <1>6 DEF DeletesKnown, DeleteKnown, DeleteSourceColumns,
           DeleteSourceObjects, DeleteSourceRow, Deleting
    <2>3. \A t : t # s => /\ SchemaSame(db, db', t) /\ db'.changes \subseteq db.changes
                           /\ db'.edges \subseteq db.edges
        BY <1>a, <2>2, CascadesSame
    <2>4. db'.changes \subseteq db.changes /\ EdgesGrow(db, db')
        <3>1. None # s
            BY <2>1, CatalogAssumption DEF CatalogInv, CountsTyped
        <3> QED
            BY <2>3, <3>1 DEF EdgesGrow
    <2>5. RulesStay(db, db')
        BY <1>a, <2>2, CascadeColumnsStay, CascadeObjectsStay, CascadeSourceStay
           DEF DeleteColumnsByObject, DeleteSchemaObjectsBySource
    <2> QED
        BY <2>1, <2>3, <2>4, <2>5 DEF SchemaQuiet, QuietStep
<1> QED
    BY <1>1, <1>2, <1>3, <1>4, <1>5, <1>6, <1>7 DEF CatalogNext

LEMMA GlossarySchema ==
    ASSUME CatalogInv, GlossaryNext PROVE QuietStep
<1>a. Sound(db) /\ RequestsTyped
    BY DEF CatalogInv, StoreInv
<1>1. ASSUME NEW t, NEW w, NEW x,
             \/ CreateTerm(t, w) \/ UpdateTerm(t, w) \/ AssignTerm(x, t)
             \/ DeleteTag(t) \/ AddTag(x, t) \/ RemoveTag(x, t)
      PROVE  QuietStep
    BY <1>1, <1>a, GlossaryStatements, FrameIsQuiet, SameRulesStay
       DEF QuietStep, CreateTerm, UpdateTerm, AssignTerm, DeleteTag, AddTag, RemoveTag,
           schemaVars
<1>2. ASSUME NEW c, NEW t, NEW w,
             \/ DeleteTermClear(c, t) \/ CreateTagCheck(c, t, w)
             \/ UpdateTagCheck(c, t, w) \/ McpCreateTag(c, t, w)
             \/ McpAssignTags(c, t, w)
      PROVE  QuietStep
    BY <1>2, <1>a, GlossaryStatements, FrameIsQuiet, SameRulesStay
       DEF QuietStep, DeleteTermClear, CreateTagCheck, UpdateTagCheck, McpCreateTag,
       McpAssignTags, schemaVars
<1>3. ASSUME NEW c, DeleteTermRow(c) \/ CreateTagInsert(c) \/ UpdateTagWrite(c)
      PROVE  QuietStep
    BY <1>3, <1>a, GlossaryStatements, FrameIsQuiet, SameRulesStay
       DEF QuietStep, DeleteTermRow, CreateTagInsert, UpdateTagWrite, schemaVars
<1>4. ASSUME NEW c, NEW g,
             \/ McpInsertTag(c) \/ McpAttachTag(c, g) \/ McpTagsAttached(c)
             \/ McpPublish(c)
      PROVE  QuietStep
    BY <1>4, <1>a, GlossaryStatements, FrameIsQuiet, SameRulesStay
       DEF QuietStep, McpInsertTag, McpAttachTag, McpTagsAttached, McpPublish, schemaVars
<1>5. ASSUME NEW c, NEW x, NEW y,
             \/ McpAssignTerm(c, x, y) \/ McpCreateMapping(c, x, y)
             \/ McpCreateTerm(c, x, y)
      PROVE  QuietStep
    BY <1>5, <1>a, GlossaryStatements, FrameIsQuiet, SameRulesStay
       DEF QuietStep, McpAssignTerm, McpCreateMapping, McpCreateTerm, schemaVars
<1> QED
    BY <1>1, <1>2, <1>3, <1>4, <1>5 DEF GlossaryNext

LEMMA QualitySchema ==
    ASSUME CatalogInv, QualityNext PROVE SchemaQuiet
<1>a. Sound(db) /\ RequestsTyped
    BY DEF CatalogInv, StoreInv
<1>1. ASSUME NEW r, NEW x, NEW y, NEW z,
             CreateRule(r, x, y) \/ UpdateRule(r, x, y, z) \/ DeleteRule(r)
      PROVE  SchemaQuiet
    BY <1>1, <1>a, QualityStatements, FrameIsQuiet
       DEF CreateRule, UpdateRule, DeleteRule, restVars
<1>2. ASSUME NEW c, CheckFails(c) \/ CountFailing(c) PROVE SchemaQuiet
    <2>1. \E status, total, bad : Store(c, status, total, bad)
        BY <1>2 DEF CheckFails, CountFailing
    <2>2. UNCHANGED db \/ \E row : db' = CreateDQResult(db, row)
        BY <2>1 DEF Store
    <2> QED
        BY <1>2, <1>a, <2>2, QualityStatements, FrameIsQuiet
           DEF CheckFails, CountFailing, restVars
<1>3. ASSUME NEW c, NEW b, NEW x,
             \/ StartCheck(c, b, x) \/ CountAll(c) \/ CheckAnswers(c) \/ ReadBack(c)
      PROVE  SchemaQuiet
    BY <1>3, <1>a, QualityStatements, FrameIsQuiet
       DEF StartCheck, CountAll, CheckAnswers, ReadBack, restVars
<1>4. ASSUME NEW x, PublishFailure(x) \/ LoseFailure(x) \/ TableChanges(x)
      PROVE  SchemaQuiet
    BY <1>4, <1>a, QualityStatements, FrameIsQuiet
       DEF PublishFailure, LoseFailure, TableChanges, restVars
<1> QED
    BY <1>1, <1>2, <1>3, <1>4 DEF QualityNext, CheckAll, CheckGiven

LEMMA ScannerSchema ==
    ASSUME CatalogInv, ScannerNext PROVE QuietStep \/ ScanSaved
<1>a. Sound(db) /\ RequestsTyped
    BY DEF CatalogInv, StoreInv
<1>1. ASSUME NEW c \in Client, SaveScanned(c) PROVE ScanSaved
    <2>1. ScanRequest(req[c])
        BY <1>1, <1>a, RequestsByName DEF SaveScanned
    <2> QED
        BY <1>1, <2>1 DEF SaveScanned, ScanRequest, scannedVars, ScanSaved
<1>2. ASSUME NEW c, NEW s, NEW o, StartScan(c, s) \/ ScanObject(c, o)
      PROVE  QuietStep
    BY <1>2, <1>a, SourceStatements, FrameIsQuiet, SameRulesStay
       DEF QuietStep, StartScan, ScanObject, scannedVars
<1>3. ASSUME NEW s, NEW content, SourceChanges(s, content) PROVE QuietStep
    BY <1>3, <1>a, SourceStatements, FrameIsQuiet, SameRulesStay DEF QuietStep, SourceChanges
<1> QED
    BY <1>1, <1>2, <1>3 DEF ScannerNext

LEMMA SchemaSteps ==
    ASSUME CatalogInv, DeletesKnown, [Next]_vars PROVE SchemaQuiet \/ ScanSaved
<1>a. Sound(db)
    BY DEF CatalogInv, StoreInv
<1>1. ASSUME NEW c, AbortRequest(c) PROVE SchemaQuiet
    BY <1>1, <1>a, SourceStatements, FrameIsQuiet DEF AbortRequest, Abort
<1>2. CASE UNCHANGED vars
    BY <1>2, <1>a, SourceStatements, FrameIsQuiet DEF vars, catalogVars
<1> QED
    BY <1>1, <1>2, CatalogSchema, GlossarySchema, QualitySchema, ScannerSchema
       DEF Next, QuietStep
(***************************************************************************)
(* A request that deletes a source holds objects of that source, and the   *)
(* source is doomed.                                                       *)
(***************************************************************************)
\* The step begins and moves no deletion.
DeletesQuiet ==
    /\ doomed \subseteq doomed'
    /\ \A c \in Client : req'[c].op = "delete" => req'[c] = req[c]

LEMMA QuietDeletes == ASSUME DeletesKnown, DeletesQuiet PROVE DeletesKnown'
BY DEF DeletesKnown, DeletesQuiet, DeleteKnown

\* Client c is busy with something else.
LEMMA NoDeletion ==
    ASSUME NEW c \in Client, req'[c].op # "delete",
           \A d \in Client \ {c} : req'[d] = req[d], doomed \subseteq doomed'
    PROVE  DeletesQuiet
BY DEF DeletesQuiet

\* The step begins and moves no scan.
ScansQuiet ==
    mix' = mix /\ \A c \in Client : req'[c].op = "scan" => req'[c] = req[c]

LEMMA OtherRequest ==
    ASSUME NEW c \in Client, req'[c].op \notin {"delete", "scan"},
           \A d \in Client \ {c} : req'[d] = req[d], UNCHANGED <<doomed, mix>>
    PROVE  DeletesQuiet /\ ScansQuiet
BY DEF DeletesQuiet, ScansQuiet

LEMMA NoRequest ==
    ASSUME UNCHANGED <<req, doomed, mix>> PROVE DeletesQuiet /\ ScansQuiet
BY DEF DeletesQuiet, ScansQuiet

\* The step begins, moves and ends no check.
ChecksQuiet ==
    /\ spent \subseteq spent'
    /\ \A c \in Client : "check" \in {req[c].op, req'[c].op} => req'[c] = req[c]

LEMMA NoCheck ==
    ASSUME NEW c \in Client, "check" \notin {req[c].op, req'[c].op},
           \A d \in Client \ {c} : req'[d] = req[d], spent \subseteq spent'
    PROVE  ChecksQuiet
BY DEF ChecksQuiet

LEMMA NoCheckMoves ==
    ASSUME UNCHANGED req, spent \subseteq spent' PROVE ChecksQuiet
BY DEF ChecksQuiet

LEMMA CatalogDeletes ==
    ASSUME CatalogInv, DeletesKnown, CatalogNext
    PROVE  DeletesKnown' /\ ScansQuiet /\ ChecksQuiet
<1>a. RequestsTyped /\ DOMAIN req = Client
    BY DEF CatalogInv, RequestsTyped
<1>1. ASSUME NEW s, NEW h, NEW w, CreateSource(s, h, w) \/ SaveSchema(s, h)
      PROVE  DeletesKnown' /\ ScansQuiet /\ ChecksQuiet
    BY <1>1, NoRequest, NoCheckMoves, QuietDeletes DEF CreateSource, SaveSchema
<1>2. ASSUME NEW x, NEW y, MapColumns(x, y) \/ UnmapColumns(x) \/ ImportEdge(x, y)
      PROVE  DeletesKnown' /\ ScansQuiet /\ ChecksQuiet
    BY <1>2, NoRequest, NoCheckMoves, QuietDeletes DEF MapColumns, UnmapColumns, ImportEdge
<1>3. ASSUME NEW c \in Client, NEW s, NEW h, NEW w, UpdateSourceRead(c, s, h, w)
      PROVE  DeletesKnown' /\ ScansQuiet /\ ChecksQuiet
    BY <1>3, <1>a, OtherRequest, NoCheck, QuietDeletes DEF UpdateSourceRead,
       Accept, Idle
<1>4. ASSUME NEW c \in Client, UpdateSourceWrite(c) \/ DeleteSourceRow(c)
      PROVE  DeletesKnown' /\ ScansQuiet /\ ChecksQuiet
    BY <1>4, <1>a, OtherRequest, NoCheck, QuietDeletes
       DEF UpdateSourceWrite, DeleteSourceRow, Deleting, Finish, Idle
<1>5. ASSUME NEW c \in Client, NEW s \in Source, DeleteSource(c, s)
      PROVE  DeletesKnown' /\ ScansQuiet /\ ChecksQuiet
    <2> DEFINE q == [op |-> "delete", source |-> s, next |-> "columns",
                     objects |-> ListSchemaObjectsBySource(db, s)]
    <2>1. /\ req' = [req EXCEPT ![c] = q]
          /\ doomed' = doomed \cup {s} /\ UNCHANGED <<mix, spent>>
          /\ req[c].op # "check"
        BY <1>5 DEF DeleteSource, Accept, Idle
    <2>2. q.op = "delete" /\ q.source = s /\ \A o \in q.objects : o.source = s
        BY DEF ListSchemaObjectsBySource
    <2> HIDE DEF q
    <2> QED
        BY <2>1, <2>2, <1>a DEF DeletesKnown, DeleteKnown, ScansQuiet, ChecksQuiet
<1>6. ASSUME NEW c \in Client, NEW o,
             \/ DeleteSourceColumns(c, o) \/ DeleteSourceObjects(c)
             \/ DeleteSourceChanges(c)
      PROVE  DeletesKnown' /\ ScansQuiet /\ ChecksQuiet
    <2>1. /\ DeleteRequest(req[c]) /\ req[c].op = "delete"
          /\ UNCHANGED <<doomed, mix, spent>>
        BY <1>6, <1>a, RequestsByName DEF DeleteSourceColumns, DeleteSourceObjects,
           DeleteSourceChanges, Deleting
    <2>2. /\ req'[c].source = req[c].source /\ req'[c].op = "delete"
          /\ req'[c].objects \subseteq req[c].objects
          /\ \A d \in Client \ {c} : req'[d] = req[d]
        BY <1>6, <2>1, <1>a DEF DeleteSourceColumns, DeleteSourceObjects,
           DeleteSourceChanges, DeleteRequest
    <2> QED
        BY <2>1, <2>2 DEF DeletesKnown, DeleteKnown, ScansQuiet, ChecksQuiet
<1> QED
    BY <1>1, <1>2, <1>3, <1>4, <1>5, <1>6 DEF CatalogNext

LEMMA GlossaryDeletes ==
    ASSUME CatalogInv, GlossaryNext PROVE DeletesQuiet /\ ScansQuiet /\ ChecksQuiet
<1>a. RequestsTyped /\ DOMAIN req = Client
    BY DEF CatalogInv, RequestsTyped
<1>1. ASSUME NEW t, NEW w, NEW x,
             \/ CreateTerm(t, w) \/ UpdateTerm(t, w) \/ AssignTerm(x, t)
             \/ DeleteTag(t) \/ AddTag(x, t) \/ RemoveTag(x, t)
      PROVE  DeletesQuiet /\ ScansQuiet /\ ChecksQuiet
    BY <1>1, NoRequest, NoCheckMoves DEF CreateTerm, UpdateTerm, AssignTerm, DeleteTag, AddTag,
       RemoveTag, schemaVars
<1>2. ASSUME NEW c \in Client, NEW t, NEW w,
             \/ DeleteTermClear(c, t) \/ CreateTagCheck(c, t, w)
             \/ UpdateTagCheck(c, t, w) \/ McpCreateTag(c, t, w)
             \/ McpAssignTags(c, t, w)
      PROVE  DeletesQuiet /\ ScansQuiet /\ ChecksQuiet
    BY <1>2, <1>a, OtherRequest, NoCheck
       DEF DeleteTermClear, CreateTagCheck, UpdateTagCheck, McpCreateTag,
       McpAssignTags, Accept, Idle, schemaVars
<1>3. ASSUME NEW c \in Client,
             \/ DeleteTermRow(c) \/ CreateTagInsert(c) \/ UpdateTagWrite(c)
             \/ McpPublish(c)
      PROVE  DeletesQuiet /\ ScansQuiet /\ ChecksQuiet
    BY <1>3, <1>a, OtherRequest, NoCheck DEF DeleteTermRow, CreateTagInsert, UpdateTagWrite,
       McpPublish, Finish, Idle, schemaVars
<1>4. ASSUME NEW c \in Client, McpInsertTag(c) \/ McpTagsAttached(c)
      PROVE  DeletesQuiet /\ ScansQuiet /\ ChecksQuiet
    BY <1>4, <1>a, OtherRequest, NoCheck
       DEF McpInsertTag, McpTagsAttached, Finish, Idle, schemaVars
<1>5. ASSUME NEW c \in Client, NEW x, NEW y,
             \/ McpAssignTerm(c, x, y) \/ McpCreateMapping(c, x, y)
             \/ McpCreateTerm(c, x, y)
      PROVE  DeletesQuiet /\ ScansQuiet /\ ChecksQuiet
    BY <1>5, <1>a, OtherRequest, NoCheck DEF McpAssignTerm, McpCreateMapping, McpCreateTerm,
       ToBeAudited, Accept, Idle, schemaVars
<1>6. ASSUME NEW c \in Client, NEW g, McpAttachTag(c, g)
      PROVE  DeletesQuiet /\ ScansQuiet /\ ChecksQuiet
    <2>1. TaggingRequest(req[c]) /\ req[c].op = "tagging"
        BY <1>6, <1>a, RequestsByName DEF McpAttachTag
    <2>2. Finish(c) \/ req' = [req EXCEPT ![c].left = @ \ {g}]
        BY <1>6 DEF McpAttachTag
    <2>3. /\ req'[c].op \notin {"delete", "scan", "check"}
          /\ \A d \in Client \ {c} : req'[d] = req[d]
        BY <2>1, <2>2, <1>a DEF TaggingRequest, Finish, Idle
    <2> QED
        BY <1>6, <2>3, OtherRequest, NoCheck DEF McpAttachTag, schemaVars
<1> QED
    BY <1>1, <1>2, <1>3, <1>4, <1>5, <1>6 DEF GlossaryNext

LEMMA QualityDeletes ==
    ASSUME CatalogInv, QualityNext PROVE DeletesQuiet /\ ScansQuiet
<1>a. RequestsTyped /\ DOMAIN req = Client
    BY DEF CatalogInv, RequestsTyped
<1>1. ASSUME NEW r, NEW x, NEW y, NEW z,
             CreateRule(r, x, y) \/ UpdateRule(r, x, y, z) \/ DeleteRule(r)
      PROVE  DeletesQuiet /\ ScansQuiet
    BY <1>1, NoRequest DEF CreateRule, UpdateRule, DeleteRule, restVars
<1>2. ASSUME NEW c \in Client, NEW b, NEW x, StartCheck(c, b, x)
      PROVE  DeletesQuiet /\ ScansQuiet
    BY <1>2, <1>a, OtherRequest DEF StartCheck, restVars
<1>3. ASSUME NEW c \in Client,
             \/ CountAll(c) \/ CheckFails(c) \/ CountFailing(c) \/ ReadBack(c)
             \/ CheckAnswers(c)
      PROVE  DeletesQuiet /\ ScansQuiet
    <2>1. CheckRequest(req[c]) /\ UNCHANGED <<doomed, mix>>
        BY <1>3, <1>a, RequestsByName DEF CountAll, CheckFails, CountFailing, ReadBack,
           CheckAnswers, Busy, restVars
    <2>2. CASE CountAll(c)
        BY <2>1, <2>2, <1>a, OtherRequest DEF CountAll, CheckRequest
    <2>3. CASE CheckFails(c) \/ CountFailing(c)
        <3>1. \E status, total, bad : Store(c, status, total, bad)
            BY <2>3 DEF CheckFails, CountFailing
        <3>2. PICK row : req' = [req EXCEPT ![c].stored = row] \/ Finish(c)
            BY <3>1 DEF Store
        <3>3. CASE Finish(c)
            BY <3>3, <2>1, <1>a, OtherRequest DEF Finish, Idle
        <3>4. CASE req' = [req EXCEPT ![c].stored = row]
            <4>1. req'[c] = [req[c] EXCEPT !.stored = row]
                BY <3>4, <1>a
            <4> QED
                BY <3>4, <4>1, <2>1, <1>a, OtherRequest DEF CheckRequest
        <3> QED
            BY <3>2, <3>3, <3>4
    <2>4. CASE ReadBack(c)
        BY <2>1, <2>4, <1>a, OtherRequest DEF ReadBack, CheckRequest
    <2>5. CASE CheckAnswers(c)
        BY <2>1, <2>5, <1>a, OtherRequest DEF CheckAnswers, Finish, Idle
    <2> QED
        BY <1>3, <2>2, <2>3, <2>4, <2>5
<1>4. ASSUME NEW x, PublishFailure(x) \/ LoseFailure(x) \/ TableChanges(x)
      PROVE  DeletesQuiet /\ ScansQuiet
    BY <1>4, NoRequest DEF PublishFailure, LoseFailure, TableChanges, restVars
<1> QED
    BY <1>1, <1>2, <1>3, <1>4 DEF QualityNext, CheckAll, CheckGiven

LEMMA ScannerDeletes ==
    ASSUME CatalogInv, ScannerNext PROVE DeletesQuiet /\ ChecksQuiet
<1>a. RequestsTyped /\ DOMAIN req = Client
    BY DEF CatalogInv, RequestsTyped
<1>1. ASSUME NEW c \in Client, NEW s, StartScan(c, s) PROVE DeletesQuiet /\ ChecksQuiet
    BY <1>1, <1>a, NoDeletion, NoCheck DEF StartScan, Accept, Idle
<1>2. ASSUME NEW c \in Client, NEW o, ScanObject(c, o) PROVE DeletesQuiet /\ ChecksQuiet
    <2>1. ScanRequest(req[c]) /\ UNCHANGED <<doomed, spent>>
        BY <1>2, <1>a, RequestsByName DEF ScanObject, scannedVars
    <2>2. req'[c].op = "scan" /\ \A d \in Client \ {c} : req'[d] = req[d]
        BY <1>2, <2>1, <1>a DEF ScanObject, ScanRequest
    <2> QED
        BY <2>1, <2>2, NoDeletion, NoCheck DEF ScanRequest
<1>3. ASSUME NEW c \in Client, SaveScanned(c) PROVE DeletesQuiet /\ ChecksQuiet
    BY <1>3, <1>a, NoDeletion, NoCheck DEF SaveScanned, scannedVars, Finish, Idle
<1>4. ASSUME NEW s, NEW content, SourceChanges(s, content) PROVE DeletesQuiet /\ ChecksQuiet
    <2>1. ASSUME NEW c \in Client PROVE req'[c] = req[c] \/ req'[c].op = "scan"
        <3>1. CASE Scanning(c, s)
            BY <3>1, <1>4, <1>a, RequestsByName DEF SourceChanges, Scanning, ScanRequest
        <3>2. CASE ~Scanning(c, s)
            BY <3>2, <1>4 DEF SourceChanges
        <3> QED
            BY <3>1, <3>2
    <2> QED
        BY <1>4, <2>1 DEF SourceChanges, DeletesQuiet, ChecksQuiet
<1> QED
    BY <1>1, <1>2, <1>3, <1>4 DEF ScannerNext

LEMMA DeletesKnownAlways == Spec => []DeletesKnown
<1>1. Init => DeletesKnown
    BY DEF Init, CatalogInit, DeletesKnown, DeleteKnown, Idle
<1>2. CatalogInv /\ DeletesKnown /\ [Next]_vars => DeletesKnown'
    <2> SUFFICES ASSUME CatalogInv, DeletesKnown, [Next]_vars PROVE DeletesKnown'
        OBVIOUS
    <2>1. ASSUME NEW c \in Client, AbortRequest(c) PROVE DeletesQuiet
        BY <2>1, NoDeletion DEF AbortRequest, Abort, Finish, Idle, CatalogInv,
           RequestsTyped
    <2>2. CASE UNCHANGED vars
        BY <2>2, NoRequest, QuietDeletes DEF vars, catalogVars
    <2> QED
        BY <2>1, <2>2, CatalogDeletes, GlossaryDeletes, QualityDeletes, ScannerDeletes,
           QuietDeletes DEF Next
<1> QED
    BY <1>1, <1>2, CatalogInvariant, PTL DEF Spec
(***************************************************************************)
(* The schema tree.                                                        *)
(***************************************************************************)
TreesMatch ==
    \A s \in Source : Undisturbed(s) => TreeMatches(db, s, lastScan[s])

\* A scan that is saved takes the next number of its source.
LEMMA ScanSaves ==
    ASSUME CatalogInv, NEW s \in Source, NEW scan, IsScan(scan), StoreScan(s, scan)
    PROVE  /\ Sound(db) /\ saves[s] + 1 \in ScanNo
           /\ RowsSaved(db, db', s, scan, saves[s] + 1)
<1>1. Sound(db)
    BY DEF CatalogInv, StoreInv
<1>2. saves[s] + 1 \in ScanNo
    BY CatalogAssumption DEF StoreScan, CatalogInv, CountsTyped, ScanNo
<1>3. db' = SavedSchema(db, s, scan, saves[s] + 1)
    BY DEF StoreScan
<1> QED
    BY <1>1, <1>2, <1>3, SavedRows

LEMMA TreesMatchAlways == Spec => []TreesMatch
<1>1. Init => TreesMatch
    BY DEF Init, CatalogInit, TreesMatch, Undisturbed
<1>2. CatalogInv /\ DeletesKnown /\ ScansKnown /\ TreesMatch /\ [Next]_vars => TreesMatch'
    <2> SUFFICES ASSUME CatalogInv, DeletesKnown, ScansKnown, TreesMatch, [Next]_vars
                 PROVE  TreesMatch'
        OBVIOUS
    <2>1. doomed \subseteq doomed'
        BY SchemaSteps DEF SchemaQuiet, ScanSaved
    <2>2. ASSUME NEW s \in Source, NEW scan, IsScan(scan), StoreScan(s, scan)
          PROVE  TreesMatch'
        <3>1. /\ Sound(db) /\ saves[s] + 1 \in ScanNo
              /\ RowsSaved(db, db', s, scan, saves[s] + 1)
            BY <2>2, ScanSaves
        <3>2. TreeMatches(db', s, scan)
            BY <2>2, <3>1, SavedTree
        <3>3. \A t \in Source \ {s} : SchemaSame(db, db', t)
            BY <2>2, <3>1, OthersSame
        <3>4. lastScan' = [lastScan EXCEPT ![s] = scan]
            BY <2>2 DEF StoreScan
        <3> QED
            BY <2>1, <3>2, <3>3, <3>4, TreeStays DEF TreesMatch, Undisturbed, ScansKnown
    <2>3. CASE SchemaQuiet /\ UNCHANGED scanVars
        BY <2>3, TreeStays DEF TreesMatch, Undisturbed, SchemaQuiet, scanVars
    <2> QED
        BY <2>2, <2>3, SchemaSteps, ScansAreSaved DEF ScanSaved
<1> QED
    BY <1>1, <1>2, CatalogInvariant, DeletesKnownAlways, ScansKnownAlways, PTL DEF Spec

\* The schema tree of a source is exactly the last scan that was saved,
\* unless somebody began to delete the source.
THEOREM TreeStaysLastScan == Spec => []TreeIsLastScan
<1>1. CatalogInv /\ TreesMatch => TreeIsLastScan
    <2> SUFFICES ASSUME CatalogInv, TreesMatch, NEW s \in Source, Undisturbed(s)
                 PROVE  SchemaTree(db, s) = ScannedTree(lastScan[s])
        BY DEF TreeIsLastScan, ScannedTree
    <2> QED
        BY TreeIsScan DEF TreesMatch, CatalogInv, StoreInv
<1> QED
    BY <1>1, CatalogInvariant, TreesMatchAlways, PTL

\* Nothing differs from a schema that matches the scan.
LEMMA NoRecords ==
    ASSUME NEW d, Sound(d), NEW s \in Source, NEW scan, IsScan(scan), NEW k \in ScanNo,
           TreeMatches(d, s, scan)
    PROVE  ChangeRecords(d, s, scan, k) = {}
<1>1. NewObjects(d, s, scan, k) = {}
    BY DEF NewObjects, TreeMatches, Known
<1>2. NewColumns(d, s, scan, k) = {}
    <2> SUFFICES ASSUME NEW c \in NewColumns(d, s, scan, k) PROVE FALSE
        OBVIOUS
    <2>1. /\ InScan(scan, c) /\ c.object \in ScannedObjects(d, s, scan, k)
          /\ \A b \in DOMAIN d.columns : <<b.object, b.column>> # <<c.object, c.column>>
        BY NewColumnsAre DEF ScannedObjects
    <2>2. PICK o \in ListSchemaObjectsBySource(d, s) : o.name = c.object.name
        BY <2>1 DEF TreeMatches, InScan
    <2>3. o = c.object
        BY <2>1, <2>2, ScannedObjectsAre DEF InScan
    <2> QED
        BY <2>1, <2>2, <2>3 DEF TreeMatches, InScan
<1>3. Altered(d, s, scan) = {}
    BY DEF Altered, TreeMatches
<1>4. GoneColumns(d, s, scan) = {}
    BY DEF GoneColumns, TreeMatches
<1>5. GoneObjects(d, s, scan) = {}
    BY DEF GoneObjects, TreeMatches
<1> QED
    BY <1>1, <1>2, <1>3, <1>4, <1>5 DEF ChangeRecords, AddedObjectRecords,
       AddedColumnRecords, AlteredColumnRecords, DroppedColumnRecords,
       DroppedObjectRecords

\* Saving the same scan again records no change.
THEOREM RescansStayQuiet == Spec => RescanIsQuiet
<1> DEFINE Quiet == \A s \in Source :
                       /\ saves'[s] # saves[s] /\ Undisturbed(s)
                       /\ lastScan'[s] = lastScan[s]
                       => db'.changes = db.changes
<1>1. CatalogInv /\ ScansKnown /\ TreesMatch /\ [Next]_vars => Quiet
    <2> SUFFICES ASSUME CatalogInv, ScansKnown, TreesMatch, [Next]_vars,
                        NEW s \in Source, saves'[s] # saves[s], Undisturbed(s),
                        lastScan'[s] = lastScan[s]
                 PROVE  db'.changes = db.changes
        OBVIOUS
    <2>1. PICK t, scan : t \in Source /\ IsScan(scan) /\ StoreScan(t, scan)
        BY ScansAreSaved DEF scanVars
    <2>2. t = s /\ scan = lastScan[s]
        BY <2>1 DEF StoreScan, ScansKnown
    <2>3. /\ Sound(db) /\ saves[s] + 1 \in ScanNo
          /\ db'.changes = db.changes \cup ChangeRecords(db, s, scan, saves[s] + 1)
        BY <2>1, <2>2, ScanSaves DEF RowsSaved
    <2>4. TreeMatches(db, s, scan)
        BY <2>2 DEF TreesMatch
    <2> QED
        BY <2>1, <2>3, <2>4, NoRecords
<1>2. CatalogInv /\ ScansKnown /\ TreesMatch /\ [Next]_vars => [Quiet]_vars
    BY <1>1
<1>3. Spec => [][Quiet]_vars
    BY <1>2, CatalogInvariant, ScansKnownAlways, TreesMatchAlways, PTL DEF Spec
<1> QED
    BY <1>3 DEF RescanIsQuiet
(***************************************************************************)
(* The change log.                                                         *)
(***************************************************************************)
\* What the change log says of a stored column, and the schema of a source.
Fact(d, c) == [object |-> c.object, column |-> c.column,
               signature |-> StoredSignature(d.columns[c])]

SchemaOf(d, s) ==
    [objects |-> ListSchemaObjectsBySource(d, s),
     columns |-> {[object |-> c.object, column |-> c.column,
                   signature |-> StoredSignature(d.columns[c])] :
                     c \in ColumnsOfSource(d, s)}]

RecordsOf(records, kinds) == {r \in records : r.kind \in kinds}

\* The records of a scan, kind by kind.
LEMMA RecordsByKind ==
    ASSUME NEW d, NEW s, NEW scan, NEW k, NEW R, R = ChangeRecords(d, s, scan, k)
    PROVE  /\ {r.object : r \in RecordsOf(R, {"drop_object"})} = GoneObjects(d, s, scan)
           /\ {r.object : r \in RecordsOf(R, {"add_object"})} = NewObjects(d, s, scan, k)
           /\ \A o, x : (\E r \in RecordsOf(R, {"drop_column", "alter_column"}) :
                             <<r.object, r.column>> = <<o, x>>)
                 <=> \E c \in GoneColumns(d, s, scan) \cup Altered(d, s, scan) :
                        <<c.object, c.column>> = <<o, x>>
           /\ {[object |-> r.object, column |-> r.column, signature |-> r.new] :
                  r \in RecordsOf(R, {"add_column", "alter_column"})}
                = {[object |-> c.object, column |-> c.column,
                    signature |-> ScannedSignature(InfoOf(scan, c))] :
                      c \in NewColumns(d, s, scan, k) \cup Altered(d, s, scan)}
<1> DEFINE AO(o) == Record(s, k, "add_object", o, None, None, scan[o.name].type)
           AC(c) == Record(s, k, "add_column", c.object, c.column, None,
                           ScannedSignature(InfoOf(scan, c)))
           LC(c) == Record(s, k, "alter_column", c.object, c.column,
                           StoredSignature(d.columns[c]),
                           ScannedSignature(InfoOf(scan, c)))
           DC(c) == Record(s, k, "drop_column", c.object, c.column,
                           StoredSignature(d.columns[c]), None)
           DO(o) == Record(s, k, "drop_object", o, None, d.objects[o].type, None)
<1>1. \A x : /\ AO(x).kind = "add_object" /\ AO(x).object = x
             /\ DO(x).kind = "drop_object" /\ DO(x).object = x
             /\ AC(x).kind = "add_column" /\ AC(x).object = x.object
             /\ AC(x).column = x.column
             /\ AC(x).new = ScannedSignature(InfoOf(scan, x))
             /\ LC(x).kind = "alter_column" /\ LC(x).object = x.object
             /\ LC(x).column = x.column
             /\ LC(x).new = ScannedSignature(InfoOf(scan, x))
             /\ DC(x).kind = "drop_column" /\ DC(x).object = x.object
             /\ DC(x).column = x.column
    BY DEF Record
<1>2. R = {AO(o) : o \in NewObjects(d, s, scan, k)}
            \cup {AC(c) : c \in NewColumns(d, s, scan, k)}
            \cup {LC(c) : c \in Altered(d, s, scan)}
            \cup {DC(c) : c \in GoneColumns(d, s, scan)}
            \cup {DO(o) : o \in GoneObjects(d, s, scan)}
    BY DEF ChangeRecords, AddedObjectRecords, AddedColumnRecords,
       AlteredColumnRecords, DroppedColumnRecords, DroppedObjectRecords
<1> HIDE DEF AO, AC, LC, DC, DO
<1>3. RecordsOf(R, {"drop_object"}) = {DO(o) : o \in GoneObjects(d, s, scan)}
    BY <1>1, <1>2 DEF RecordsOf
<1>4. RecordsOf(R, {"add_object"}) = {AO(o) : o \in NewObjects(d, s, scan, k)}
    BY <1>1, <1>2 DEF RecordsOf
<1>5. RecordsOf(R, {"drop_column", "alter_column"})
          = {LC(c) : c \in Altered(d, s, scan)} \cup {DC(c) : c \in GoneColumns(d, s, scan)}
    BY <1>1, <1>2 DEF RecordsOf
<1>6. RecordsOf(R, {"add_column", "alter_column"})
          = {AC(c) : c \in NewColumns(d, s, scan, k)} \cup {LC(c) : c \in Altered(d, s, scan)}
    BY <1>1, <1>2 DEF RecordsOf
<1>7. {r.object : r \in RecordsOf(R, {"drop_object"})} = GoneObjects(d, s, scan)
    BY <1>1, <1>3
<1>8. {r.object : r \in RecordsOf(R, {"add_object"})} = NewObjects(d, s, scan, k)
    BY <1>1, <1>4
<1>9. \A o, x : (\E r \in RecordsOf(R, {"drop_column", "alter_column"}) :
                     <<r.object, r.column>> = <<o, x>>)
         <=> \E c \in GoneColumns(d, s, scan) \cup Altered(d, s, scan) :
                <<c.object, c.column>> = <<o, x>>
    BY <1>1, <1>5
<1>10. {[object |-> r.object, column |-> r.column, signature |-> r.new] :
           r \in RecordsOf(R, {"add_column", "alter_column"})}
         = {[object |-> c.object, column |-> c.column,
             signature |-> ScannedSignature(InfoOf(scan, c))] :
               c \in NewColumns(d, s, scan, k) \cup Altered(d, s, scan)}
    BY <1>1, <1>6
<1> QED
    BY <1>7, <1>8, <1>9, <1>10
LEMMA LogTellsSchema ==
    ASSUME NEW d, Sound(d), NEW s \in Source, NEW scan, IsScan(scan), NEW k \in ScanNo,
           NEW e, RowsSaved(d, e, s, scan, k),
           NEW R, R = ChangeRecords(d, s, scan, k)
    PROVE  Follow(SchemaOf(d, s), R) = SchemaOf(e, s)
<1> DEFINE Gone == GoneObjects(d, s, scan)
           Changed == GoneColumns(d, s, scan) \cup Altered(d, s, scan)
           Fresh == NewColumns(d, s, scan, k) \cup Altered(d, s, scan)
           told(c) == [object |-> c.object, column |-> c.column,
                       signature |-> ScannedSignature(InfoOf(scan, c))]
           old == {Fact(d, c) : c \in ColumnsOfSource(d, s)}
           kept == {x \in old : /\ x.object \notin Gone
                                /\ \A c \in Changed :
                                      <<c.object, c.column>> # <<x.object, x.column>>}
<1>1. ListSchemaObjectsBySource(e, s) = ScannedObjects(d, s, scan, k)
    BY ScannedObjectsAre DEF RowsSaved, ListSchemaObjectsBySource, GoneObjects
<1>2. (ListSchemaObjectsBySource(d, s) \cup NewObjects(d, s, scan, k)) \ Gone
          = ScannedObjects(d, s, scan, k)
    <2>1. NewObjects(d, s, scan, k) \subseteq ScannedObjects(d, s, scan, k)
        BY DEF NewObjects, ScannedObjects
    <2>2. ASSUME NEW o \in ScannedObjects(d, s, scan, k)
          PROVE  o \in ListSchemaObjectsBySource(d, s) \cup NewObjects(d, s, scan, k)
        <3>1. o.name \in DOMAIN scan /\ o = ObjectOf(d, s, o.name, k)
            BY ScannedObjectsAre
        <3>2. CASE Known(d, s, o.name) = {}
            BY <3>1, <3>2 DEF NewObjects
        <3>3. CASE Known(d, s, o.name) # {}
            BY <3>1, <3>3 DEF ObjectOf, Known
        <3> QED
            BY <3>2, <3>3
    <2>3. \A o \in ScannedObjects(d, s, scan, k) : o \notin Gone
        BY ScannedObjectsAre DEF GoneObjects
    <2>4. \A o \in ListSchemaObjectsBySource(d, s) :
              o \notin Gone => o \in ScannedObjects(d, s, scan, k)
        BY ScannedObjectsAre DEF GoneObjects
    <2> HIDE DEF Gone
    <2> QED
        BY <2>1, <2>2, <2>3, <2>4
<1>3. ASSUME NEW c \in Fresh
      PROVE  /\ c \in ColumnsOfSource(e, s)
             /\ Fact(e, c) = told(c)
    <2>1. InScan(scan, c) /\ c.object.source = s
        BY NewColumnsAre, ScannedObjectsAre DEF Altered, ColumnsOfSource, ScannedObjects
    <2>2. c \in DOMAIN e.columns
        BY DEF RowsSaved, Altered, GoneColumns, GoneObjects, InScan, ColumnsOfSource
    <2>3. e.columns[c].data = StoredData(InfoOf(scan, c))
        BY DEF RowsSaved
    <2>4. StoredSignature(e.columns[c]) = ScannedSignature(InfoOf(scan, c))
        BY <2>1, <2>3, ScannedInfo DEF StoredSignature
    <2> QED
        BY <2>1, <2>2, <2>4 DEF ColumnsOfSource, Fact
<1>4. ASSUME NEW c \in ColumnsOfSource(d, s), c.object \notin Gone, c \notin Changed
      PROVE  /\ c \in ColumnsOfSource(e, s)
             /\ Fact(e, c) = Fact(d, c)
    <2>1. c \in DOMAIN e.columns /\ c \notin NewColumns(d, s, scan, k)
        BY <1>4 DEF RowsSaved, ColumnsOfSource, NewColumns
    <2>2. e.columns[c] = d.columns[c]
        BY <1>4, <2>1 DEF RowsSaved
    <2> QED
        BY <2>1, <2>2 DEF ColumnsOfSource, Fact
<1>5. ASSUME NEW c \in ColumnsOfSource(e, s)
      PROVE  \/ c \in Fresh
             \/ c \in ColumnsOfSource(d, s) /\ c.object \notin Gone /\ c \notin Changed
    BY DEF RowsSaved, ColumnsOfSource
<1>6. ASSUME NEW c \in ColumnsOfSource(d, s), NEW b \in Changed,
             <<b.object, b.column>> = <<c.object, c.column>>
      PROVE  b = c
    BY <1>6 DEF GoneColumns, Altered, ColumnsOfSource, Sound, NamesUnique
<1>7. \A c : Fact(d, c).object = c.object /\ Fact(d, c).column = c.column
    BY DEF Fact
<1>8. Follow(SchemaOf(d, s), R).objects = ListSchemaObjectsBySource(e, s)
    <2>1. Follow(SchemaOf(d, s), R).objects
             = (ListSchemaObjectsBySource(d, s)
                  \cup {r.object : r \in RecordsOf(R, {"add_object"})})
               \ {r.object : r \in RecordsOf(R, {"drop_object"})}
        BY DEF Follow, SchemaOf, RecordsOf
    <2> QED
        BY <2>1, <1>1, <1>2, RecordsByKind
<1>9. Follow(SchemaOf(d, s), R).columns = kept \cup {told(c) : c \in Fresh}
    <2>1. Follow(SchemaOf(d, s), R).columns
             = {x \in old :
                   /\ x.object \notin {r.object : r \in RecordsOf(R, {"drop_object"})}
                   /\ \A r \in RecordsOf(R, {"drop_column", "alter_column"}) :
                         <<r.object, r.column>> # <<x.object, x.column>>}
               \cup {[object |-> r.object, column |-> r.column, signature |-> r.new] :
                        r \in RecordsOf(R, {"add_column", "alter_column"})}
        BY DEF Follow, SchemaOf, RecordsOf, Fact
    <2>2. {[object |-> r.object, column |-> r.column, signature |-> r.new] :
              r \in RecordsOf(R, {"add_column", "alter_column"})} = {told(c) : c \in Fresh}
        BY RecordsByKind
    <2>3. {r.object : r \in RecordsOf(R, {"drop_object"})} = Gone
        BY RecordsByKind
    <2>4. ASSUME NEW x
          PROVE  (\A r \in RecordsOf(R, {"drop_column", "alter_column"}) :
                     <<r.object, r.column>> # <<x.object, x.column>>)
                 <=> \A c \in Changed : <<c.object, c.column>> # <<x.object, x.column>>
        BY RecordsByKind
    <2> HIDE DEF old, Gone, Changed, Fresh, told
    <2> QED
        BY <2>1, <2>2, <2>3, <2>4
<1>10. {Fact(e, c) : c \in ColumnsOfSource(e, s)} = kept \cup {told(c) : c \in Fresh}
    <2>1. ASSUME NEW c \in ColumnsOfSource(e, s)
          PROVE  Fact(e, c) \in kept \cup {told(z) : z \in Fresh}
        BY <1>3, <1>4, <1>5, <1>6, <1>7
    <2>2. ASSUME NEW x \in kept \cup {told(z) : z \in Fresh}
          PROVE  x \in {Fact(e, c) : c \in ColumnsOfSource(e, s)}
        BY <1>3, <1>4, <1>7
    <2> QED
        BY <2>1, <2>2
<1> QED
    BY <1>8, <1>9, <1>10 DEF Follow, SchemaOf, Fact

\* The numbers of the change records are those of scans that were saved, and
\* a reader of them has the schema.
LogKept ==
    /\ \A ch \in db.changes : ch.scan <= saves[ch.source]
    /\ \A s \in Source \ doomed : mirror[s] = SchemaOf(db, s)

LEMMA SameSchema ==
    ASSUME NEW d, NEW e, NEW s, SchemaSame(d, e, s) PROVE SchemaOf(e, s) = SchemaOf(d, s)
BY DEF SchemaSame, SchemaOf, StoredSignature

LEMMA LogKeptAlways == Spec => [](LogKept /\ DOMAIN mirror = Source)
<1>1. Init => LogKept /\ DOMAIN mirror = Source
    <2> SUFFICES ASSUME Init PROVE LogKept /\ DOMAIN mirror = Source
        OBVIOUS
    <2>1. /\ DOMAIN db.objects = {} /\ DOMAIN db.columns = {} /\ db.changes = {}
          /\ mirror = [s \in Source |-> EmptySchema]
        BY DEF Init, CatalogInit, EmptyDatabase, NoRows
    <2>2. \A s : SchemaOf(db, s) = EmptySchema
        BY <2>1 DEF SchemaOf, EmptySchema, ListSchemaObjectsBySource, ColumnsOfSource
    <2> QED
        BY <2>1, <2>2 DEF LogKept
<1>2. /\ CatalogInv /\ DeletesKnown /\ ScansKnown
      /\ LogKept /\ DOMAIN mirror = Source /\ [Next]_vars
      => (LogKept /\ DOMAIN mirror = Source)'
    <2> SUFFICES ASSUME CatalogInv, DeletesKnown, ScansKnown, LogKept,
                        DOMAIN mirror = Source, [Next]_vars
                 PROVE  (LogKept /\ DOMAIN mirror = Source)'
        OBVIOUS
    <2>1. doomed \subseteq doomed'
        BY SchemaSteps DEF SchemaQuiet, ScanSaved
    <2>2. ASSUME NEW s \in Source, NEW scan, IsScan(scan), StoreScan(s, scan)
          PROVE  (LogKept /\ DOMAIN mirror = Source)'
        <3> DEFINE k == saves[s] + 1
                   R == ChangeRecords(db, s, scan, k)
        <3>1. /\ Sound(db) /\ k \in ScanNo
              /\ RowsSaved(db, db', s, scan, k)
            BY <2>2, ScanSaves
        <3>2. /\ saves' = [saves EXCEPT ![s] = k]
              /\ mirror' = [mirror EXCEPT ![s] =
                    Follow(@, {r \in ListSchemaChangesBySource(db', s) : r.scan = k})]
            BY <2>2 DEF StoreScan
        <3>3. \A ch \in R : ch.source = s /\ ch.scan = k
            BY <3>1, <2>2, RecordsTyped
        <3>4. db'.changes = db.changes \cup R
            BY <3>1 DEF RowsSaved
        <3>5. /\ \A ch \in db.changes : ch.source \in Source /\ ch.scan \in Nat
              /\ \A t \in Source : saves[t] \in Nat
            BY <3>1, CatalogAssumption DEF CatalogInv, CountsTyped, Sound, DatabaseOK,
               ChangeRow, ScanNo
        <3> HIDE DEF R
        <3>6. {r \in ListSchemaChangesBySource(db', s) : r.scan = k} = R
            BY <3>3, <3>4, <3>5 DEF LogKept, ListSchemaChangesBySource
        <3>7. s \notin doomed => mirror'[s] = SchemaOf(db', s)
            <4>1. Follow(SchemaOf(db, s), R) = SchemaOf(db', s)
                BY <2>2, <3>1, LogTellsSchema DEF R
            <4>2. mirror'[s] = Follow(mirror[s], R)
                BY <3>2, <3>6
            <4> QED
                BY <4>1, <4>2 DEF LogKept
        <3>8. \A t \in Source \ {s} : SchemaOf(db', t) = SchemaOf(db, t)
            BY <2>2, <3>1, OthersSame, SameSchema
        <3>9. \A ch \in db'.changes : ch.scan <= saves'[ch.source]
            BY <3>2, <3>3, <3>4, <3>5 DEF LogKept, ScansKnown
        <3> QED
            BY <2>1, <3>2, <3>7, <3>8, <3>9 DEF LogKept
    <2>3. CASE SchemaQuiet /\ UNCHANGED scanVars
        BY <2>3, SameSchema DEF LogKept, SchemaQuiet, scanVars
    <2> QED
        BY <2>2, <2>3, SchemaSteps, ScansAreSaved DEF ScanSaved
<1> QED
    BY <1>1, <1>2, CatalogInvariant, DeletesKnownAlways, ScansKnownAlways, PTL DEF Spec

\* A reader who follows the change records of a source, scan by scan, knows
\* its objects, its columns and their signatures.
THEOREM LogAlwaysReplays == Spec => []ChangeLogReplays
<1>1. LogKept => ChangeLogReplays
    BY DEF LogKept, ChangeLogReplays, Undisturbed, SchemaOf
<1> QED
    BY <1>1, LogKeptAlways, PTL

(***************************************************************************)
(* What a scan of a changing source finds.                                 *)
(***************************************************************************)
\* All that the source has had beyond doubt since the scan began has been
\* found or is still to be asked for.
ScanFinds(q, content) ==
    /\ q.always \subseteq Evident(content)
    /\ \A x \in q.always :
          \/ \E o \in q.todo : o.name = x[1]
          \/ x[1] \in DOMAIN q.found /\ x[2] \in DOMAIN q.found[x[1]].columns

\* Besides, a source is scanned by one client at a time, and no load has both
\* scans that take their steps and scans taken at once.
ScansFind ==
    \A c \in Client : req[c].op = "scan" =>
        /\ ScanFinds(req[c], live[req[c].source])
        /\ \A d \in Client : Scanning(d, req[c].source) => d = c
        /\ "scan" \in mix.kinds

\* What is beyond doubt is in every answer of the source.
LEMMA EvidentIsAnswered ==
    ASSUME NEW s, NEW n, NEW x, <<n, x>> \in Evident(live[s]),
           NEW columns \in getColumns(s, n)
    PROVE  x \in DOMAIN columns
<1>1. n \in DOMAIN live[s]
    BY DEF Evident
<1>2. CASE "docs" \notin DOMAIN live[s][n]
    BY <1>1, <1>2 DEF Evident, getColumns
<1>3. CASE "docs" \in DOMAIN live[s][n]
    <2> DEFINE docs == live[s][n].docs
    <2>1. DOMAIN docs # {} /\ \A i \in DOMAIN docs : x \in DOMAIN docs[i]
        BY <1>3 DEF Evident, WithField
    <2>2. PICK J \in SUBSET DOMAIN docs :
             J # {} /\ columns \in InferredColumns(Restrict(docs, J))
        BY <1>1, <1>3, <2>1 DEF getColumns, inferCollectionSchema
    <2> DEFINE sample == Restrict(docs, J)
               fields == UNION {DOMAIN sample[i] : i \in DOMAIN sample}
    <2>3. DOMAIN sample = J /\ \A i \in J : sample[i] = docs[i]
        BY DEF Restrict
    <2>4. x \in fields
        BY <2>1, <2>2, <2>3
    <2>5. DOMAIN columns = fields
        BY <2>2 DEF InferredColumns
    <2> QED
        BY <2>4, <2>5
<1> QED
    BY <1>2, <1>3

\* Client c does something that starts no scan; the others go on.
LEMMA QuietScans ==
    ASSUME ScansFind, ScansQuiet, live' = live PROVE ScansFind'
BY DEF ScansFind, ScansQuiet, Scanning

LEMMA ScannerFinds ==
    ASSUME CatalogInv, ScansFind, ScannerNext PROVE ScansFind'
<1>a. RequestsTyped /\ DOMAIN req = Client /\ DOMAIN live = Source
    BY DEF CatalogInv, RequestsTyped, LiveTyped
<1>1. ASSUME NEW c \in Client, NEW s \in Source, StartScan(c, s) PROVE ScansFind'
    <2> DEFINE q == [op |-> "scan", source |-> s, found |-> NoRows,
                     todo |-> {[name |-> n, type |-> live[s][n].type] :
                                 n \in DOMAIN live[s]},
                     always |-> Evident(live[s])]
    <2>1. /\ req' = [req EXCEPT ![c] = q] /\ live' = live /\ mix' = mix
          /\ "scan" \in mix.kinds /\ \A d \in Client : ~Scanning(d, s)
        BY <1>1 DEF StartScan, Accept, Serve
    <2>2. ScanFinds(q, live[s])
        <3>1. ASSUME NEW x \in Evident(live[s])
              PROVE  \E o \in q.todo : o.name = x[1]
            <4> DEFINE o == [name |-> x[1], type |-> live[s][x[1]].type]
            <4>1. x[1] \in DOMAIN live[s]
                BY DEF Evident
            <4>2. o \in q.todo /\ o.name = x[1]
                BY <4>1
            <4> QED
                BY <4>2
        <3>2. q.always = Evident(live[s])
            OBVIOUS
        <3> HIDE DEF q
        <3> QED
            BY <3>1, <3>2 DEF ScanFinds
    <2>3. q.op = "scan" /\ q.source = s
        OBVIOUS
    <2> HIDE DEF q
    <2> QED
        BY <2>1, <2>2, <2>3, <1>a DEF ScansFind, Scanning
<1>2. ASSUME NEW c \in Client, NEW o, ScanObject(c, o) PROVE ScansFind'
    <2> DEFINE q == req[c]
               s == q.source
    <2>1. /\ ScanRequest(q) /\ q.op = "scan" /\ o \in q.todo
          /\ live' = live /\ mix' = mix
        BY <1>2, <1>a, RequestsByName DEF ScanObject, scannedVars
    <2>2. PICK columns \in getColumns(s, o.name) :
             req' = [req EXCEPT ![c].todo = @ \ {o},
                ![c].found = Put(@, o.name, [type |-> o.type, columns |-> columns])]
        BY <1>2 DEF ScanObject
    <2>3. /\ req'[c].op = "scan" /\ req'[c].source = s /\ req'[c].always = q.always
          /\ req'[c].todo = q.todo \ {o}
          /\ req'[c].found = Put(q.found, o.name, [type |-> o.type, columns |-> columns])
          /\ \A d \in Client \ {c} : req'[d] = req[d]
        BY <2>1, <2>2, <1>a DEF ScanRequest
    <2>4. ScanFinds(q, live[s])
        BY <2>1 DEF ScansFind
    <2>5. ASSUME NEW x \in q.always
          PROVE  \/ \E p \in req'[c].todo : p.name = x[1]
                 \/ /\ x[1] \in DOMAIN req'[c].found
                    /\ x[2] \in DOMAIN req'[c].found[x[1]].columns
        <3>1. x \in Evident(live[s])
            BY <2>4 DEF ScanFinds
        <3>2. x = <<x[1], x[2]>>
            BY <3>1 DEF Evident
        <3>3. CASE x[1] = o.name
            <4>1. x[2] \in DOMAIN columns
                BY <3>1, <3>2, <3>3, <2>2, EvidentIsAnswered
            <4>2. /\ x[1] \in DOMAIN req'[c].found
                  /\ req'[c].found[x[1]] = [type |-> o.type, columns |-> columns]
                BY <2>3, <3>3 DEF Put
            <4> QED
                BY <4>1, <4>2
        <3>4. CASE x[1] # o.name
            BY <3>4, <2>3, <2>4 DEF ScanFinds, Put
        <3> QED
            BY <3>3, <3>4
    <2>6. ScanFinds(req'[c], live[s])
        BY <2>3, <2>4, <2>5 DEF ScanFinds
    <2> QED
        BY <2>1, <2>3, <2>6 DEF ScansFind, Scanning
<1>3. ASSUME NEW c \in Client, SaveScanned(c) PROVE ScansFind'
    <2>1. ScansQuiet /\ live' = live
        BY <1>3, <1>a DEF SaveScanned, scannedVars, Finish, Idle, ScansQuiet
    <2> QED
        BY <2>1, QuietScans
<1>4. ASSUME NEW s \in Source, NEW content, SourceChanges(s, content)
      PROVE  ScansFind'
    <2>1. /\ live' = [live EXCEPT ![s] = content] /\ mix' = mix
          /\ req' = [c \in Client |->
                IF Scanning(c, s)
                THEN [req[c] EXCEPT !.always = @ \cap Evident(content)]
                ELSE req[c]]
        BY <1>4 DEF SourceChanges
    <2>2. ASSUME NEW c \in Client, Scanning(c, s)
          PROVE  /\ req'[c].op = "scan" /\ req'[c].source = s
                 /\ req[c].op = "scan" /\ req[c].source = s
                 /\ ScanFinds(req'[c], live'[s])
        <3>1. ScanRequest(req[c]) /\ req[c].op = "scan" /\ req[c].source = s
            BY <2>2, <1>a, RequestsByName DEF Scanning
        <3>2. ScanFinds(req[c], live[s])
            BY <3>1 DEF ScansFind
        <3> DEFINE q == [req[c] EXCEPT !.always = @ \cap Evident(content)]
        <3>a. req'[c] = q
            BY <2>1, <2>2
        <3>3. /\ req'[c].op = "scan" /\ req'[c].source = s
              /\ req'[c].always = req[c].always \cap Evident(content)
              /\ req'[c].todo = req[c].todo /\ req'[c].found = req[c].found
            BY <3>1, <3>a DEF ScanRequest
        <3>4. live'[s] = content
            BY <2>1, <1>a
        <3> QED
            BY <3>1, <3>2, <3>3, <3>4 DEF ScanFinds
    <2>3. ASSUME NEW c \in Client, ~Scanning(c, s), req'[c].op = "scan"
          PROVE  /\ req'[c] = req[c] /\ req[c].source # s
                 /\ live'[req[c].source] = live[req[c].source]
        BY <2>1, <2>3, <1>a DEF Scanning
    <2> QED
        BY <2>1, <2>2, <2>3 DEF ScansFind, Scanning
<1> QED
    BY <1>1, <1>2, <1>3, <1>4 DEF ScannerNext, CatalogInv, StoreInv, Sound, DatabaseOK, IsTable

LEMMA ScansFindAlways == Spec => []ScansFind
<1>1. Init => ScansFind
    BY DEF Init, CatalogInit, ScansFind, Idle
<1>2. CatalogInv /\ DeletesKnown /\ ScansFind /\ [Next]_vars => ScansFind'
    <2> SUFFICES ASSUME CatalogInv, DeletesKnown, ScansFind, [Next]_vars
                 PROVE  ScansFind'
        OBVIOUS
    <2>1. ASSUME NEW c \in Client, AbortRequest(c) PROVE ScansQuiet /\ live' = live
        BY <2>1, OtherRequest DEF AbortRequest, Abort, Finish, Idle, CatalogInv,
           RequestsTyped
    <2>2. CASE UNCHANGED vars
        BY <2>2, NoRequest, QuietScans DEF vars, catalogVars
    <2> QED
        BY <2>1, <2>2, CatalogDeletes, GlossaryDeletes, QualityDeletes, ScannerFinds,
           QuietScans DEF Next
<1> QED
    BY <1>1, <1>2, CatalogInvariant, DeletesKnownAlways, PTL DEF Spec

\* A column loses its identifier, and with it all that is attached to it,
\* only when the source was without the column at some time during the scan.
\* The loads are those in which scans take their steps.
THEOREM EvidentStays ==
    ASSUME \A load \in Traffic : "scan" \in load.kinds => load.scans = {}
    PROVE  Spec => EvidentColumnsSurvive
<1> DEFINE Survive == \A c \in Client : req[c].op = "scan" /\ saves' # saves =>
              \A x \in ColumnsOfSource(db, req[c].source) :
                 <<x.object.name, x.column>> \in req[c].always => x \in DOMAIN db'.columns
<1>1. ASSUME CatalogInv, ScansFind, [Next]_vars, NEW c \in Client, req[c].op = "scan",
             saves' # saves, NEW x \in ColumnsOfSource(db, req[c].source),
             <<x.object.name, x.column>> \in req[c].always
      PROVE  x \in DOMAIN db'.columns
    <2>1. "scan" \in mix.kinds /\ mix \in Traffic /\ RequestsTyped
        BY <1>1 DEF ScansFind, CatalogInv, CountsTyped
    <2>2. \A s, scan : ~SaveSchema(s, scan)
        BY <2>1 DEF SaveSchema
    <2>3. PICK d \in Client : SaveScanned(d)
        BY <1>1, <2>2, SavingSteps DEF scanVars
    <2> DEFINE s == req[d].source
               scan == req[d].found
    <2>4. /\ req[d].op = "scan" /\ req[d].todo = {} /\ StoreScan(s, scan)
          /\ s \in Source /\ IsScan(scan)
        BY <2>1, <2>3, RequestsByName DEF SaveScanned, ScanRequest
    <2>5. CASE d = c
        <3>1. ScanFinds(req[c], live[s])
            BY <1>1, <2>5 DEF ScansFind
        <3>2. InScan(scan, x)
            BY <1>1, <2>4, <2>5, <3>1 DEF ScanFinds, InScan
        <3> QED
            BY <1>1, <2>4, <2>5, <3>2, ScanKeepsColumn
    <2>6. CASE d # c
        <3>1. req[c].source # s
            BY <1>1, <2>4, <2>6 DEF ScansFind, Scanning
        <3>2. /\ Sound(db) /\ saves[s] + 1 \in ScanNo
              /\ RowsSaved(db, db', s, scan, saves[s] + 1)
            BY <1>1, <2>4, ScanSaves
        <3>3. SchemaSame(db, db', req[c].source)
            BY <2>4, <3>1, <3>2, OthersSame
        <3> QED
            BY <1>1, <3>3 DEF SchemaSame, ColumnsOfSource
    <2> QED
        BY <2>5, <2>6
<1>2. CatalogInv /\ ScansFind /\ [Next]_vars => [Survive]_vars
    BY <1>1
<1>3. Spec => [][Survive]_vars
    BY <1>2, CatalogInvariant, ScansFindAlways, PTL DEF Spec
<1> QED
    BY <1>3 DEF EvidentColumnsSurvive

(***************************************************************************)
(* Lineage: the edges are finitely many, and what an edge joins is there   *)
(* unless its source is doomed.                                            *)
(***************************************************************************)
SourceOf(n) == IF "object" \in DOMAIN n THEN n.object.source ELSE n.source

EdgesKnown ==
    /\ IsFiniteSet(db.edges)
    /\ \A m \in db.edges : \A n \in {m.from, m.to} :
          n \in Nodes(db) \/ SourceOf(n) \in doomed

LEMMA NodesHaveSources ==
    /\ \A o \in ObjectId : SourceOf(o) = o.source /\ o.source \in Source
    /\ \A c \in ColumnId : SourceOf(c) = c.object.source /\ c.object.source \in Source
<1>1. ASSUME NEW o \in ObjectId PROVE SourceOf(o) = o.source /\ o.source \in Source
    <2>1. DOMAIN o = {"source", "name", "scan"} /\ o.source \in Source
        BY DEF ObjectId
    <2>2. "object" \notin {"source", "name", "scan"}
        OBVIOUS
    <2> QED
        BY <2>1, <2>2 DEF SourceOf
<1>2. ASSUME NEW c \in ColumnId
      PROVE  SourceOf(c) = c.object.source /\ c.object.source \in Source
    <2>1. DOMAIN c = {"object", "column", "scan"} /\ c.object \in ObjectId
        BY DEF ColumnId
    <2> QED
        BY <2>1 DEF SourceOf, ObjectId
<1> QED
    BY <1>1, <1>2

\* A node of a source that is not doomed stays in a step that saves no scan.
LEMMA NodesStay ==
    ASSUME CatalogInv, SchemaQuiet, NEW n \in Nodes(db), SourceOf(n) \notin doomed'
    PROVE  n \in Nodes(db')
<1>1. /\ DOMAIN db.objects \subseteq ObjectId /\ DOMAIN db.columns \subseteq ColumnId
    BY DEF CatalogInv, StoreInv, Sound, DatabaseOK, IsTable
<1>2. CASE n \in DOMAIN db.objects
    <2>1. n.source \in Source \ doomed' /\ n \in ListSchemaObjectsBySource(db, n.source)
        BY <1>1, <1>2, NodesHaveSources DEF ListSchemaObjectsBySource
    <2>2. SchemaSame(db, db', n.source)
        BY <2>1 DEF SchemaQuiet
    <2> QED
        BY <2>1, <2>2 DEF SchemaSame, ListSchemaObjectsBySource, Nodes
<1>3. CASE n \in DOMAIN db.columns
    <2>1. n.object.source \in Source \ doomed' /\ n \in ColumnsOfSource(db, n.object.source)
        BY <1>1, <1>3, NodesHaveSources DEF ColumnsOfSource
    <2>2. SchemaSame(db, db', n.object.source)
        BY <2>1 DEF SchemaQuiet
    <2> QED
        BY <2>1, <2>2 DEF SchemaSame, ColumnsOfSource, Nodes
<1> QED
    BY <1>2, <1>3 DEF Nodes

LEMMA EdgesStay == ASSUME CatalogInv, EdgesKnown, SchemaQuiet PROVE EdgesKnown'
<1>1. IsFiniteSet(db'.edges)
    <2>1. CASE db'.edges \subseteq db.edges
        BY <2>1, FS_Subset DEF EdgesKnown
    <2>2. CASE \E m : db'.edges = db.edges \cup {m}
        BY <2>2, FS_AddElement DEF EdgesKnown
    <2> QED
        BY <2>1, <2>2 DEF SchemaQuiet, EdgesGrow
<1>2. ASSUME NEW m \in db'.edges, NEW n \in {m.from, m.to}
      PROVE  n \in Nodes(db) \/ SourceOf(n) \in doomed
    BY DEF SchemaQuiet, EdgesGrow, EdgesKnown
<1>3. doomed \subseteq doomed'
    BY DEF SchemaQuiet
<1> QED
    BY <1>1, <1>2, <1>3, NodesStay DEF EdgesKnown

\* A saved scan deletes the edges of what it drops.
LEMMA ScanKeepsEdges ==
    ASSUME CatalogInv, EdgesKnown, doomed' = doomed,
           NEW s \in Source, NEW scan, IsScan(scan), StoreScan(s, scan)
    PROVE  EdgesKnown'
<1>a. PICK f : f = DropGone(db, s, scan)
    OBVIOUS
<1>b. Sound(db) /\ saves[s] + 1 \in ScanNo
    BY ScanSaves
<1>1. Sound(f) /\ Dropped(db, f, GoneColumns(db, s, scan), GoneObjects(db, s, scan))
    BY <1>a, <1>b, DropGoneSound
<1>2. db' = SavedSchema(db, s, scan, saves[s] + 1)
    BY DEF StoreScan
<1>3. db'.edges = f.edges
    BY <1>a, <1>1, <1>2, SavedSchemaFields DEF Sound
<1>4. DOMAIN f.objects \subseteq DOMAIN db'.objects /\ DOMAIN f.columns \subseteq DOMAIN db'.columns
    BY <1>a, <1>b, <1>2, SavedSchemaKeys
<1>5. ASSUME NEW m \in db'.edges, NEW n \in {m.from, m.to}
      PROVE  n \in Nodes(db') \/ SourceOf(n) \in doomed
    <2>1. /\ m \in db.edges
          /\ n \in DOMAIN db.columns => n \in DOMAIN f.columns
          /\ n \in DOMAIN db.objects => n \in DOMAIN f.objects
        BY <1>1, <1>3 DEF Dropped
    <2> QED
        BY <1>4, <2>1 DEF EdgesKnown, Nodes
<1>6. IsFiniteSet(db'.edges)
    <2>1. f.edges \subseteq db.edges
        BY <1>1 DEF Dropped
    <2> QED
        BY <1>3, <2>1, FS_Subset DEF EdgesKnown
<1> QED
    BY <1>5, <1>6 DEF EdgesKnown

LEMMA EdgesKnownAlways == Spec => []EdgesKnown
<1>1. Init => EdgesKnown
    <2> SUFFICES ASSUME Init PROVE EdgesKnown
        OBVIOUS
    <2>1. db.edges = {}
        BY DEF Init, CatalogInit, EmptyDatabase
    <2> QED
        BY <2>1, FS_EmptySet DEF EdgesKnown
<1>2. CatalogInv /\ DeletesKnown /\ EdgesKnown /\ [Next]_vars => EdgesKnown'
    <2> SUFFICES ASSUME CatalogInv, DeletesKnown, EdgesKnown, [Next]_vars
                 PROVE  EdgesKnown'
        OBVIOUS
    <2>1. CASE SchemaQuiet
        BY <2>1, EdgesStay
    <2>2. CASE ScanSaved
        BY <2>2, ScanKeepsEdges DEF ScanSaved
    <2> QED
        BY <2>1, <2>2, SchemaSteps
<1> QED
    BY <1>1, <1>2, CatalogInvariant, DeletesKnownAlways, PTL DEF Spec

\* The lineage of a column can be read, unless it leads to what belonged to a
\* source somebody began to delete: what the queries return are edges of the
\* table, and one that names nothing names what that deletion took.
THEOREM LineageStaysReadable == Spec => []LineageBreaksOnlyByDeletion
<1>1. EdgesKnown => LineageBreaksOnlyByDeletion
    <2> SUFFICES ASSUME EdgesKnown, NEW c \in DOMAIN db.columns,
                        NEW edges, edges = GetLineageDownward(db, c)
                                             \cup GetLineageUpward(db, c),
                        ~LineageReadable(db, edges)
                 PROVE  \E e \in edges : {SourceOf(e.from), SourceOf(e.to)} \cap doomed # {}
        BY DEF LineageBreaksOnlyByDeletion, SourceOf
    <2>1. PICK e \in edges : ~({e.from, e.to} \subseteq Nodes(db))
        BY DEF LineageReadable, Nodes
    <2>2. edges \subseteq db.edges
        BY LineageAreEdges
    <2>3. PICK n \in {e.from, e.to} : n \notin Nodes(db)
        BY <2>1
    <2>4. SourceOf(n) \in doomed
        BY <2>2, <2>3 DEF EdgesKnown
    <2> QED
        BY <2>3, <2>4
<1> QED
    BY <1>1, EdgesKnownAlways, PTL

\* The impact analysis names exactly the nodes below a column, each at its
\* shortest distance, whatever cycles and diamonds the edges form: its loop
\* runs out of nodes before it runs out of turns.
THEOREM ImpactsStayShortest == Spec => []ImpactIsShortestDistance
<1>1. EdgesKnown => ImpactIsShortestDistance
    <2> SUFFICES ASSUME EdgesKnown, NEW c \in DOMAIN db.columns
                 PROVE  LET impact == ImpactAnalysis(db, c)
                            at(n) == {e.to : e \in DownwardLevel(db, c)[n]}
                        IN  /\ DOMAIN impact = (UNION {at(n) : n \in 1 .. MaxDepth}) \ {c}
                            /\ \A t \in DOMAIN impact :
                                  /\ t \in at(impact[t])
                                  /\ \A n \in 1 .. impact[t] - 1 : t \notin at(n)
        BY Zenon DEF ImpactIsShortestDistance
    <2>1. IsFiniteSet(db.edges) /\ MaxDepth \in Nat
        BY CatalogAssumption DEF EdgesKnown
    <2> QED
        BY <2>1, ImpactsAreShortest, Zenon
<1> QED
    BY <1>1, EdgesKnownAlways, PTL

(***************************************************************************)
(* Results of checks.                                                      *)
(***************************************************************************)
Stored(d, b, i, r) == \E x \in d.results : x.batch = b /\ x.no = i /\ x.rule = r

\* The rules are known, and no identifier of one is handed out again.
RulesKnown == DOMAIN db.rules \subseteq spent /\ IsFiniteSet(DOMAIN db.rules)

\* A check has at most one result for a place of its list.
OnePerPlace(d) == \A x, y \in d.results : <<x.batch, x.no>> = <<y.batch, y.no>> => x = y

ResultsKnown(d) ==
    /\ ResultsFollow(d) /\ OnePerPlace(d)
    /\ \A x \in d.results : x.batch \in spent

Counted(d) == \A x \in d.results : x.failed <= x.total \/ <<x.batch, x.no>> \in shaken

AnswersKnown ==
    /\ DOMAIN checked \subseteq spent
    /\ \A b \in DOMAIN checked : \A i \in DOMAIN checked[b] :
          /\ checked[b][i] \in spent
          /\ checked[b][i] \in DOMAIN db.rules => Stored(db, b, i, checked[b][i])

\* A check has dealt with the rules before its place in the list, and with the
\* one at its place when it has stored a result.
ListKnown(ids, q) ==
    /\ q.batch \in ids /\ q.no >= 1
    /\ Len(q.todo) \in Nat /\ DOMAIN q.todo = 1 .. Len(q.todo)

ItemsKnown(d, ids, q) ==
    \A i \in DOMAIN q.todo :
        /\ q.todo[i].id \in ids
        /\ q.todo[i].id \in DOMAIN d.rules =>
              /\ d.rules[q.todo[i].id].column = q.todo[i].column
              /\ i < q.no => Stored(d, q.batch, i, q.todo[i].id)

StoredKnown(d, q) ==
    /\ q.stored # None =>
          /\ q.no \in DOMAIN q.todo
          /\ q.stored.batch = q.batch /\ q.stored.no = q.no
          /\ q.stored.rule = q.todo[q.no].id
          /\ q.stored.rule \in DOMAIN d.rules => q.stored \in d.results
    /\ \A x \in d.results : x.batch = q.batch => x.no < q.no \/ x = q.stored

CheckKnown(d, ids, q) == ListKnown(ids, q) /\ ItemsKnown(d, ids, q) /\ StoredKnown(d, q)

ChecksKnown ==
    \A c \in Client : req[c].op = "check" =>
        /\ CheckKnown(db, spent, req[c])
        /\ req[c].batch \notin DOMAIN checked
        /\ \A d \in Client \ {c} : req[d].op = "check" => req[d].batch # req[c].batch

ResultInv ==
    /\ RulesKnown /\ ResultsKnown(db) /\ Counted(db) /\ AnswersKnown
    /\ ChecksKnown /\ FailuresAreAnnounced

LEMMA ResultsStart == Init => ResultInv
BY FS_EmptySet DEF Init, CatalogInit, QualityInit, ResultInv, RulesKnown, ResultsKnown,
   ResultsFollow, OnePerPlace, Counted, AnswersKnown, ChecksKnown, FailuresAreAnnounced,
   EmptyDatabase, NoRows, Idle

\* Rows that go take nothing with them that a check relies on.
LEMMA StoredStays ==
    ASSUME NEW d, NEW e, RulesStay(d, e), ResultsFollow(d), NEW b, NEW i, NEW r,
           Stored(d, b, i, r), r \in DOMAIN e.rules
    PROVE  Stored(e, b, i, r)
BY DEF RulesStay, Stored

LEMMA CheckStays ==
    ASSUME NEW d, NEW e, RulesStay(d, e), ResultsFollow(d), NEW ids, NEW more,
           ids \subseteq more, NEW q, CheckKnown(d, ids, q)
    PROVE  CheckKnown(e, more, q)
<1>1. ListKnown(more, q)
    BY DEF CheckKnown, ListKnown
<1>2. ItemsKnown(e, more, q)
    BY StoredStays DEF CheckKnown, ItemsKnown, RulesStay
<1>3. StoredKnown(e, q)
    BY DEF CheckKnown, StoredKnown, RulesStay
<1> QED
    BY <1>1, <1>2, <1>3 DEF CheckKnown

\* A step that adds neither rules nor results and moves no check.
LEMMA RestKeeps ==
    ASSUME CatalogInv, ResultInv, RulesStay(db, db'), Sound(db'), spent \subseteq spent',
           UNCHANGED qualityVars,
           \A c \in Client : "check" \in {req[c].op, req'[c].op} => req'[c] = req[c]
    PROVE  ResultInv'
<1>a. ResultsFollow(db) /\ qualityVars' = qualityVars
    BY DEF ResultInv, ResultsKnown
<1>1. RulesKnown'
    <2>1. DOMAIN db'.rules \subseteq DOMAIN db.rules
        BY DEF RulesStay
    <2> QED
        BY <2>1, FS_Subset DEF ResultInv, RulesKnown
<1>2. ResultsKnown(db)'
    <2>1. \A x \in db'.results : x.rule \in DOMAIN db'.rules
        BY DEF Sound, ForeignKeysHold
    <2> QED
        BY <2>1 DEF ResultInv, ResultsKnown, ResultsFollow, OnePerPlace, RulesStay
<1>3. Counted(db)'
    BY <1>a DEF ResultInv, Counted, RulesStay, qualityVars
<1>4. AnswersKnown'
    <2>1. checked' = checked
        BY <1>a DEF qualityVars
    <2> QED
        BY <1>a, <2>1, StoredStays DEF ResultInv, AnswersKnown, RulesStay
<1>5. ChecksKnown'
    <2>1. checked' = checked
        BY <1>a DEF qualityVars
    <2> SUFFICES ASSUME NEW c \in Client, req'[c].op = "check"
                 PROVE  /\ CheckKnown(db', spent', req'[c])
                        /\ req'[c].batch \notin DOMAIN checked'
                        /\ \A d \in Client \ {c} :
                              req'[d].op = "check" => req'[d].batch # req'[c].batch
        BY DEF ChecksKnown
    <2>2. req'[c] = req[c]
        OBVIOUS
    <2> QED
        BY <1>a, <2>1, <2>2, CheckStays DEF ResultInv, ChecksKnown
<1>6. FailuresAreAnnounced'
    <2>1. SUFFICES ASSUME NEW x \in db'.results, x.status # "passed"
                   PROVE  \/ x \in (events \cup publishing \cup lost)'
                          \/ \E y \in db'.results :
                                y # x /\ y.batch = x.batch /\ y.rule = x.rule
                          \/ \E c \in Client : req'[c].op = "check" /\ req'[c].stored = x
        BY DEF FailuresAreAnnounced
    <2>2. x \in db.results /\ x.rule \in DOMAIN db'.rules
        BY <2>1 DEF Sound, ForeignKeysHold, RulesStay
    <2>3. CASE \E y \in db.results : y # x /\ y.batch = x.batch /\ y.rule = x.rule
        BY <1>a, <2>2, <2>3 DEF RulesStay
    <2>4. CASE \E c \in Client : req[c].op = "check" /\ req[c].stored = x
        BY <2>4
    <2>5. CASE x \in events \cup publishing \cup lost
        BY <2>5, <1>a DEF qualityVars
    <2> QED
        BY <2>1, <2>2, <2>3, <2>4, <2>5 DEF ResultInv, FailuresAreAnnounced
<1> QED
    BY <1>1, <1>2, <1>3, <1>4, <1>5, <1>6 DEF ResultInv

LEMMA UpdatedRuleStays ==
    ASSUME NEW d, Sound(d), NEW r \in DOMAIN d.rules, NEW config, NEW active, NEW e,
           e = UpdateDQRule(d, r, config, active)
    PROVE  RulesStay(d, e)
<1>1. /\ e.results = d.results
      /\ e.rules = [d.rules EXCEPT ![r].config = Given(config, @),
                                   ![r].active = Given(active, @)]
    BY DEF UpdateDQRule, Sound, IsDatabase
<1>2. \A x \in DOMAIN d.rules : d.rules[x] \in RuleRow
    BY DEF Sound, DatabaseOK, IsTable
<1> QED
    BY <1>1, <1>2 DEF RulesStay, RuleRow

\* A new rule has an identifier that nothing has been said about.
LEMMA NewRuleKeeps ==
    ASSUME CatalogInv, ResultInv, NEW r, NEW scope, NEW kind, CreateRule(r, scope, kind)
    PROVE  ResultInv'
<1>a. Sound(db)
    BY DEF CatalogInv, StoreInv
<1>1. PICK row : db' = CreateDQRule(db, r, row)
    BY DEF CreateRule
<1>2. db'.rules = Put(db.rules, r, row) /\ db'.results = db.results
    BY <1>1, <1>a DEF CreateDQRule, Sound, IsDatabase
<1>3. /\ r \notin spent /\ spent' = spent \cup {r} /\ req' = req
      /\ shaken' = shaken /\ checked' = checked
      /\ events' = events /\ publishing' = publishing /\ lost' = lost
    BY DEF CreateRule, qualityVars
<1>4. /\ DOMAIN db'.rules = DOMAIN db.rules \cup {r} /\ r \notin DOMAIN db.rules
      /\ \A x \in DOMAIN db.rules : db'.rules[x] = db.rules[x]
    BY <1>2, <1>3 DEF Put, ResultInv, RulesKnown
<1>5. RulesKnown'
    BY <1>3, <1>4, FS_AddElement DEF ResultInv, RulesKnown
<1>6. ResultsKnown(db)'
    <2>1. \A x \in db.results : x.rule \in DOMAIN db.rules
        BY <1>a DEF Sound, ForeignKeysHold
    <2> QED
        BY <2>1, <1>2, <1>3, <1>4 DEF ResultInv, ResultsKnown, ResultsFollow, OnePerPlace
<1>7. Counted(db)'
    BY <1>2, <1>3 DEF ResultInv, Counted
<1>8. AnswersKnown'
    BY <1>2, <1>3, <1>4 DEF ResultInv, AnswersKnown, Stored
<1>9. ChecksKnown'
    <2>1. ASSUME NEW q, CheckKnown(db, spent, q) PROVE CheckKnown(db', spent', q)
        BY <2>1, <1>2, <1>3, <1>4 DEF CheckKnown, ListKnown, ItemsKnown, StoredKnown, Stored
    <2> QED
        BY <2>1, <1>3 DEF ResultInv, ChecksKnown
<1>10. FailuresAreAnnounced'
    BY <1>2, <1>3 DEF ResultInv, FailuresAreAnnounced
<1> QED
    BY <1>5, <1>6, <1>7, <1>8, <1>9, <1>10 DEF ResultInv

LEMMA RuleSteps ==
    ASSUME CatalogInv, ResultInv, Sound(db'), NEW r \in Rule, NEW scope, NEW kind,
           NEW config, NEW active,
           \/ CreateRule(r, scope, kind) \/ UpdateRule(r, kind, config, active)
           \/ DeleteRule(r)
    PROVE  ResultInv'
<1>a. Sound(db)
    BY DEF CatalogInv, StoreInv
<1>1. CASE UpdateRule(r, kind, config, active)
    BY <1>1, <1>a, UpdatedRuleStays, RestKeeps DEF UpdateRule
<1>2. CASE DeleteRule(r)
    BY <1>2, <1>a, CascadeRulesStay, RestKeeps DEF DeleteRule
<1> QED
    BY <1>1, <1>2, NewRuleKeeps

(***************************************************************************)
(* A check.                                                                *)
(***************************************************************************)
\* The list of all active rules is a list.
LEMMA RulesListed ==
    ASSUME NEW S, IsFiniteSet(S) PROVE SetToSeq(S) \in Seq(S)
<1>1. PICK n \in Nat : ExistsBijection(1 .. n, S)
    BY FS_NatBijection
<1>2. Cardinality(S) = n
    BY <1>1, FS_CountingElements
<1>3. \E f \in [1 .. n -> S] : IsInjective(f)
    BY <1>1 DEF ExistsBijection, Bijection, Injection
<1>4. SetToSeq(S) \in [1 .. n -> S]
    BY <1>2, <1>3 DEF SetToSeq
<1> QED
    BY <1>4

\* The step replaces the request of one client.
LEMMA CheckMoves ==
    ASSUME ChecksKnown, DOMAIN req = Client, NEW c \in Client, NEW q,
           req' = [req EXCEPT ![c] = q], checked' = checked,
           \A d \in Client \ {c} :
              req[d].op = "check" => CheckKnown(db', spent', req[d]),
           q.op = "check" =>
              /\ CheckKnown(db', spent', q) /\ q.batch \notin DOMAIN checked
              /\ \A d \in Client \ {c} : req[d].op = "check" => req[d].batch # q.batch
    PROVE  ChecksKnown'
BY DEF ChecksKnown
LEMMA StartKeeps ==
    ASSUME CatalogInv, ResultInv, NEW c \in Client, NEW b, NEW rules,
           rules \in Seq(DOMAIN db.rules), StartCheck(c, b, rules)
    PROVE  ResultInv'
<1> DEFINE q == [op |-> "check", batch |-> b, no |-> 1, todo |-> Rows(db, rules),
                 total |-> None, stored |-> None]
<1>a. Sound(db) /\ DOMAIN req = Client
    BY DEF CatalogInv, StoreInv, RequestsTyped
<1>1. /\ b \notin spent /\ spent' = spent \cup {b} /\ db' = db /\ req[c] = Idle
      /\ req' = [req EXCEPT ![c] = q] /\ UNCHANGED qualityVars
    BY DEF StartCheck, Accept
<1>2. /\ shaken' = shaken /\ checked' = checked
      /\ events' = events /\ publishing' = publishing /\ lost' = lost
    BY <1>1 DEF qualityVars
<1>3. CheckKnown(db', spent', q)
    <2>1. /\ DOMAIN q.todo = 1 .. Len(rules) /\ Len(rules) \in Nat
          /\ \A i \in 1 .. Len(rules) :
                /\ rules[i] \in DOMAIN db.rules
                /\ q.todo[i].id = rules[i]
                /\ q.todo[i].column = db.rules[rules[i]].column
        BY DEF Rows
    <2>2. Len(q.todo) = Len(rules)
        <3>1. q.todo \in Seq({q.todo[i] : i \in 1 .. Len(rules)})
            <4>1. q.todo \in [1 .. Len(rules) -> {q.todo[i] : i \in 1 .. Len(rules)}]
                BY <2>1 DEF Rows
            <4> QED
                BY <2>1, <4>1
        <3> QED
            BY <2>1, <3>1
    <2>3. q.batch = b /\ q.no = 1 /\ q.stored = None
        OBVIOUS
    <2> HIDE DEF q
    <2>4. ListKnown(spent', q)
        BY <1>1, <2>1, <2>2, <2>3 DEF ListKnown
    <2>5. ItemsKnown(db', spent', q)
        BY <1>1, <2>1, <2>3 DEF ItemsKnown, ResultInv, RulesKnown
    <2>6. StoredKnown(db', q)
        BY <1>1, <2>3 DEF StoredKnown, ResultInv, ResultsKnown
    <2> QED
        BY <2>4, <2>5, <2>6 DEF CheckKnown
<1>4. q.batch = b /\ q.stored = None
    OBVIOUS
<1> HIDE DEF q
<1>5. RulesKnown' /\ ResultsKnown(db)' /\ Counted(db)' /\ AnswersKnown'
    BY <1>1, <1>2 DEF ResultInv, RulesKnown, ResultsKnown, Counted, AnswersKnown
<1>6. ChecksKnown'
    <2>1. RulesStay(db, db')
        BY <1>1, SameRulesStay DEF RulesSame
    <2>2. \A d \in Client \ {c} :
              req[d].op = "check" => CheckKnown(db', spent', req[d])
        BY <1>1, <2>1, CheckStays DEF ResultInv, ChecksKnown, ResultsKnown
    <2>3. /\ b \notin DOMAIN checked
          /\ \A d \in Client \ {c} : req[d].op = "check" => req[d].batch # b
        BY <1>1 DEF ResultInv, ChecksKnown, AnswersKnown, CheckKnown, ListKnown
    <2> QED
        BY <1>a, <1>1, <1>2, <1>3, <1>4, <2>2, <2>3, CheckMoves DEF ResultInv
<1>7. FailuresAreAnnounced'
    <2>1. \A d \in Client : req[d].op = "check" => req'[d] = req[d]
        BY <1>1 DEF Idle
    <2> QED
        BY <1>1, <1>2, <2>1 DEF ResultInv, FailuresAreAnnounced
<1> QED
    BY <1>5, <1>6, <1>7 DEF ResultInv

LEMMA CountKeeps ==
    ASSUME CatalogInv, ResultInv, NEW c \in Client, CountAll(c) PROVE ResultInv'
<1> DEFINE q == [req[c] EXCEPT !.total = table]
<1>a. DOMAIN req = Client /\ RequestsTyped
    BY DEF CatalogInv, RequestsTyped
<1>1. CheckRequest(req[c]) /\ req[c].op = "check"
    BY <1>a, RequestsByName DEF CountAll, Busy
<1>2. /\ req' = [req EXCEPT ![c] = q] /\ db' = db /\ spent' = spent
      /\ shaken' = shaken /\ checked' = checked
      /\ events' = events /\ publishing' = publishing /\ lost' = lost
    BY <1>a DEF CountAll, qualityVars
<1>3. /\ q.op = "check" /\ q.batch = req[c].batch /\ q.no = req[c].no
      /\ q.stored = req[c].stored /\ q.todo = req[c].todo
    BY <1>1 DEF CheckRequest
<1> HIDE DEF q
<1>4. RulesKnown' /\ ResultsKnown(db)' /\ Counted(db)' /\ AnswersKnown'
    BY <1>2 DEF ResultInv, RulesKnown, ResultsKnown, Counted, AnswersKnown
<1>5. ChecksKnown'
    <2>1. CheckKnown(db, spent, req[c])
        BY <1>1 DEF ResultInv, ChecksKnown
    <2>2. CheckKnown(db, spent, q)
        BY <1>3, <2>1 DEF CheckKnown, ListKnown, ItemsKnown, StoredKnown
    <2> QED
        BY <1>a, <1>1, <1>2, <1>3, <2>2, CheckMoves DEF ResultInv, ChecksKnown
<1>6. FailuresAreAnnounced'
    <2>1. \A d \in Client : req'[d].op = req[d].op /\ 
                (req[d].op = "check" => req'[d].stored = req[d].stored)
        BY <1>a, <1>1, <1>2, <1>3
    <2> QED
        BY <1>2, <2>1 DEF ResultInv, FailuresAreAnnounced
<1> QED
    BY <1>4, <1>5, <1>6 DEF ResultInv
\* A result is stored, or the rule is gone and the check ends.
LEMMA StoreKeepsResults ==
    ASSUME CatalogInv, ResultInv, Sound(db'), NEW c \in Client, Busy(c),
           NEW status, NEW total, NEW bad, Store(c, status, total, bad),
           shaken \subseteq shaken',
           bad <= total \/ <<req[c].batch, req[c].no>> \in shaken',
           UNCHANGED <<spent, checked, publishing, events, lost>>
    PROVE  ResultInv'
<1> DEFINE rule == Current(c)
           row == [rule |-> rule.id, column |-> rule.column, batch |-> req[c].batch,
                   no |-> req[c].no, status |-> status, total |-> total,
                   failed |-> bad]
           q == [req[c] EXCEPT !.stored = row]
<1>a. DOMAIN req = Client /\ RequestsTyped /\ Sound(db)
    BY DEF CatalogInv, StoreInv, RequestsTyped
<1>b. CheckRequest(req[c]) /\ req[c].op = "check" /\ req[c].stored = None
    BY <1>a, RequestsByName DEF Busy
<1>c. CheckKnown(db, spent, req[c]) /\ req[c].no \in DOMAIN req[c].todo
    <2>1. CheckKnown(db, spent, req[c])
        BY <1>b DEF ResultInv, ChecksKnown
    <2>2. req[c].no \in Nat
        BY <1>b DEF CheckRequest
    <2> QED
        BY <2>1, <2>2 DEF CheckKnown, ListKnown, Busy
<1>d. None \notin db.results
    BY <1>a, QualityAssumption DEF Sound, DatabaseOK
<1>1. CASE /\ db' = CreateDQResult(db, row) /\ req' = [req EXCEPT ![c] = q]
           /\ rule.id \in DOMAIN db.rules
    <2>1. /\ row.batch = req[c].batch /\ row.no = req[c].no /\ row.rule = rule.id
          /\ row.column = rule.column /\ row.total = total /\ row.failed = bad
          /\ rule = req[c].todo[req[c].no]
        BY DEF Current
    <2>2. /\ q.op = "check" /\ q.batch = req[c].batch /\ q.no = req[c].no
          /\ q.stored = row /\ q.todo = req[c].todo
        BY <1>b DEF CheckRequest
    <2> HIDE DEF q, row, rule
    <2>3. db'.rules = db.rules /\ db'.results = db.results \cup {row}
        BY <1>a, <1>1 DEF CreateDQResult, Sound, IsDatabase
    <2>4. \A x \in db.results : x.batch = row.batch => x.no < row.no
        BY <1>b, <1>c, <1>d, <2>1 DEF CheckKnown, StoredKnown
    <2>5. row.no \in Int
        BY <1>b, <2>1 DEF CheckRequest
    <2>6. RulesKnown'
        BY <2>3 DEF ResultInv, RulesKnown
    <2>7. ResultsKnown(db)'
        <3>1. OnePerPlace(db')
            BY <2>3, <2>4, <2>5 DEF ResultInv, ResultsKnown, OnePerPlace
        <3>2. ResultsFollow(db')
            BY <1>c, <1>1, <2>1, <2>3
               DEF ResultInv, ResultsKnown, ResultsFollow, CheckKnown, ItemsKnown
        <3>3. row.batch \in spent
            BY <1>c, <2>1 DEF CheckKnown, ListKnown
        <3> QED
            BY <2>3, <3>1, <3>2, <3>3 DEF ResultInv, ResultsKnown
    <2>8. Counted(db)'
        BY <2>1, <2>3 DEF ResultInv, Counted
    <2>9. AnswersKnown'
        BY <2>3 DEF ResultInv, AnswersKnown, Stored
    <2>10. ChecksKnown'
        <3>1. CheckKnown(db', spent', q)
            BY <1>c, <2>1, <2>2, <2>3, <2>4, <2>5
               DEF CheckKnown, ListKnown, ItemsKnown, StoredKnown, Stored
        <3>2. ASSUME NEW d \in Client \ {c}, req[d].op = "check"
              PROVE  CheckKnown(db', spent', req[d])
            <4>1. CheckKnown(db, spent, req[d]) /\ req[d].batch # row.batch
                BY <1>b, <2>1, <3>2 DEF ResultInv, ChecksKnown
            <4> QED
                BY <4>1, <2>3 DEF CheckKnown, ListKnown, ItemsKnown, StoredKnown, Stored
        <3>3. /\ q.batch \notin DOMAIN checked
              /\ \A d \in Client \ {c} : req[d].op = "check" => req[d].batch # q.batch
            BY <1>b, <2>2 DEF ResultInv, ChecksKnown
        <3> QED
            BY <1>a, <1>1, <3>1, <3>2, <3>3, CheckMoves DEF ResultInv
    <2>11. FailuresAreAnnounced'
        <3>1. req'[c].op = "check" /\ req'[c].stored = row
            BY <1>a, <1>1, <2>2
        <3>2. \A x \in db.results : x # req[c].stored
            BY <1>b, <1>d
        <3>3. \A d \in Client \ {c} : req'[d] = req[d]
            BY <1>a, <1>1
        <3> QED
            BY <2>3, <3>1, <3>2, <3>3 DEF ResultInv, FailuresAreAnnounced
    <2> QED
        BY <2>6, <2>7, <2>8, <2>9, <2>10, <2>11 DEF ResultInv
<1>2. CASE Finish(c) /\ db' = db
    <2>1. RulesKnown' /\ ResultsKnown(db)' /\ Counted(db)' /\ AnswersKnown'
        BY <1>2 DEF ResultInv, RulesKnown, ResultsKnown, Counted, AnswersKnown
    <2>2. ChecksKnown'
        BY <1>a, <1>2, CheckMoves DEF ResultInv, ChecksKnown, Finish, Idle
    <2>3. FailuresAreAnnounced'
        <3>1. \A x \in db.results : x # req[c].stored
            BY <1>b, <1>d
        <3>2. \A d \in Client \ {c} : req'[d] = req[d]
            BY <1>a, <1>2 DEF Finish
        <3> QED
            BY <1>2, <3>1, <3>2 DEF ResultInv, FailuresAreAnnounced
    <2> QED
        BY <2>1, <2>2, <2>3 DEF ResultInv
<1> QED
    BY <1>1, <1>2 DEF Store
\* Whichever result is read back, the one just stored is about to be announced
\* or is one of two of its rule.
LEMMA ReadBackKeeps ==
    ASSUME CatalogInv, ResultInv, NEW c \in Client, ReadBack(c) PROVE ResultInv'
<1> DEFINE q == [req[c] EXCEPT !.no = @ + 1, !.total = None, !.stored = None]
<1>a. DOMAIN req = Client /\ RequestsTyped /\ Sound(db)
    BY DEF CatalogInv, StoreInv, RequestsTyped
<1>b. CheckRequest(req[c]) /\ req[c].op = "check" /\ req[c].stored # None
    BY <1>a, RequestsByName DEF ReadBack
<1>c. CheckKnown(db, spent, req[c]) /\ req[c].no \in Nat
    BY <1>b DEF ResultInv, ChecksKnown, CheckRequest
<1>1. PICK x \in ResultsOf(c) :
         /\ publishing' = IF x.status = "passed" THEN publishing
                          ELSE publishing \cup {x}
         /\ req' = [req EXCEPT ![c] = q]
    BY <1>a DEF ReadBack
<1>2. /\ db' = db /\ spent' = spent /\ shaken' = shaken /\ checked' = checked
      /\ events' = events /\ lost' = lost
    BY DEF ReadBack
<1>3. /\ q.op = "check" /\ q.batch = req[c].batch /\ q.no = req[c].no + 1
      /\ q.stored = None /\ q.todo = req[c].todo
    BY <1>b DEF CheckRequest
<1> HIDE DEF q
<1>4. RulesKnown' /\ ResultsKnown(db)' /\ Counted(db)' /\ AnswersKnown'
    BY <1>2 DEF ResultInv, RulesKnown, ResultsKnown, Counted, AnswersKnown
<1>5. ChecksKnown'
    <2>1. ListKnown(spent, q)
        BY <1>c, <1>3 DEF CheckKnown, ListKnown
    <2>2. ItemsKnown(db, spent, q)
        <3>1. Stored(db, q.batch, req[c].no, req[c].stored.rule)
                 \/ req[c].stored.rule \notin DOMAIN db.rules
            BY <1>b, <1>c, <1>3 DEF CheckKnown, StoredKnown, Stored
        <3>2. req[c].stored.rule = q.todo[req[c].no].id
            BY <1>b, <1>c, <1>3 DEF CheckKnown, StoredKnown
        <3>3. \A i \in DOMAIN q.todo : i \in Int /\ (i < q.no => i < req[c].no \/ i = req[c].no)
            BY <1>c, <1>3 DEF CheckKnown, ListKnown
        <3> QED
            BY <1>c, <1>3, <3>1, <3>2, <3>3 DEF CheckKnown, ItemsKnown
    <2>3. StoredKnown(db, q)
        <3>1. \A y \in db.results : y.no \in Int
            BY <1>a DEF Sound, DatabaseOK, ResultRow
        <3> QED
            BY <1>b, <1>c, <1>3, <3>1 DEF CheckKnown, StoredKnown
    <2>4. CheckKnown(db, spent, q)
        BY <2>1, <2>2, <2>3 DEF CheckKnown
    <2> QED
        BY <1>a, <1>b, <1>1, <1>2, <1>3, <2>4, CheckMoves DEF ResultInv, ChecksKnown
<1>6. FailuresAreAnnounced'
    <2>1. /\ x \in db.results /\ x.batch = req[c].batch /\ x.rule = req[c].stored.rule
        BY DEF ResultsOf
    <2>2. req[c].stored.batch = req[c].batch
        BY <1>b, <1>c DEF CheckKnown, StoredKnown
    <2>3. publishing \subseteq publishing' /\ (x.status # "passed" => x \in publishing')
        BY <1>1
    <2>4. \A d \in Client \ {c} : req'[d] = req[d]
        BY <1>a, <1>1
    <2> QED
        BY <1>2, <2>1, <2>2, <2>3, <2>4 DEF ResultInv, FailuresAreAnnounced
<1> QED
    BY <1>4, <1>5, <1>6 DEF ResultInv

LEMMA AnswerKeeps ==
    ASSUME CatalogInv, ResultInv, NEW c \in Client, CheckAnswers(c) PROVE ResultInv'
<1> DEFINE ids == [i \in DOMAIN req[c].todo |-> req[c].todo[i].id]
<1>a. DOMAIN req = Client /\ RequestsTyped /\ Sound(db)
    BY DEF CatalogInv, StoreInv, RequestsTyped
<1>b. CheckRequest(req[c]) /\ req[c].op = "check"
    BY <1>a, RequestsByName DEF CheckAnswers
<1>c. CheckKnown(db, spent, req[c]) /\ req[c].no \in Nat
    BY <1>b DEF ResultInv, ChecksKnown, CheckRequest
<1>1. /\ db' = db /\ spent' = spent /\ shaken' = shaken
      /\ events' = events /\ publishing' = publishing /\ lost' = lost
      /\ req' = [req EXCEPT ![c] = Idle] /\ req[c].no > Len(req[c].todo)
    BY DEF CheckAnswers, Finish
<1>2. checked' = Put(checked, req[c].batch, ids)
    BY DEF CheckAnswers
<1>3. \A i \in DOMAIN req[c].todo : i < req[c].no
    BY <1>c, <1>1 DEF CheckKnown, ListKnown
<1>4. req[c].stored = None
    BY <1>c, <1>3 DEF CheckKnown, StoredKnown
<1>5. /\ DOMAIN checked' = DOMAIN checked \cup {req[c].batch}
      /\ \A b \in DOMAIN checked \ {req[c].batch} : checked'[b] = checked[b]
      /\ checked'[req[c].batch] = ids
    BY <1>2 DEF Put
<1>6. RulesKnown' /\ ResultsKnown(db)' /\ Counted(db)'
    BY <1>1 DEF ResultInv, RulesKnown, ResultsKnown, Counted
<1>7. AnswersKnown'
    <2>1. \A i \in DOMAIN ids :
              /\ ids[i] \in spent
              /\ ids[i] \in DOMAIN db.rules => Stored(db, req[c].batch, i, ids[i])
        BY <1>c, <1>3 DEF CheckKnown, ItemsKnown
    <2>2. req[c].batch \in spent
        BY <1>c DEF CheckKnown, ListKnown
    <2> HIDE DEF ids
    <2> QED
        BY <1>1, <1>5, <2>1, <2>2 DEF ResultInv, AnswersKnown
<1>8. ChecksKnown'
    <2>1. ASSUME NEW d \in Client, req'[d].op = "check"
          PROVE  d # c /\ req'[d] = req[d]
        BY <1>a, <1>1, <2>1 DEF Idle
    <2> QED
        BY <1>b, <1>1, <1>5, <2>1 DEF ResultInv, ChecksKnown
<1>9. FailuresAreAnnounced'
    <2>1. \A x \in db.results : x # req[c].stored
        BY <1>a, <1>4, QualityAssumption DEF Sound, DatabaseOK
    <2>2. \A d \in Client \ {c} : req'[d] = req[d]
        BY <1>a, <1>1
    <2> QED
        BY <1>1, <2>1, <2>2 DEF ResultInv, FailuresAreAnnounced
<1> QED
    BY <1>6, <1>7, <1>8, <1>9 DEF ResultInv
LEMMA PublishKeeps ==
    ASSUME ResultInv, NEW x, PublishFailure(x) \/ LoseFailure(x) PROVE ResultInv'
<1>1. /\ db' = db /\ req' = req /\ spent' = spent /\ checked' = checked
      /\ shaken' = shaken
      /\ events \cup publishing \cup lost \subseteq events' \cup publishing' \cup lost'
    BY DEF PublishFailure, LoseFailure
<1>2. RulesKnown' /\ ResultsKnown(db)' /\ Counted(db)' /\ AnswersKnown'
    BY <1>1 DEF ResultInv, RulesKnown, ResultsKnown, Counted, AnswersKnown
<1>3. ChecksKnown' /\ FailuresAreAnnounced'
    BY <1>1 DEF ResultInv, ChecksKnown, FailuresAreAnnounced
<1> QED
    BY <1>2, <1>3 DEF ResultInv

LEMMA TableKeeps == ASSUME ResultInv, NEW t, TableChanges(t) PROVE ResultInv'
<1>1. /\ db' = db /\ req' = req /\ spent' = spent /\ checked' = checked
      /\ shaken' = shaken /\ UNCHANGED <<events, publishing, lost>>
    BY DEF TableChanges
<1>2. RulesKnown' /\ ResultsKnown(db)' /\ Counted(db)' /\ AnswersKnown'
    BY <1>1 DEF ResultInv, RulesKnown, ResultsKnown, Counted, AnswersKnown
<1>3. ChecksKnown' /\ FailuresAreAnnounced'
    BY <1>1 DEF ResultInv, ChecksKnown, FailuresAreAnnounced
<1> QED
    BY <1>2, <1>3 DEF ResultInv

\* What a check that is cut short has stored is counted as lost.
LEMMA AbortKeeps ==
    ASSUME CatalogInv, ResultInv, NEW c \in Client, AbortRequest(c) PROVE ResultInv'
<1>a. DOMAIN req = Client /\ Sound(db)
    BY DEF CatalogInv, StoreInv, RequestsTyped
<1>1. /\ db' = db /\ spent' = spent /\ checked' = checked /\ shaken' = shaken
      /\ events' = events /\ publishing' = publishing /\ lost \subseteq lost'
      /\ req' = [req EXCEPT ![c] = Idle]
    BY DEF AbortRequest, Abort, QualityAbort, Finish
<1>2. RulesKnown' /\ ResultsKnown(db)' /\ Counted(db)' /\ AnswersKnown'
    BY <1>1 DEF ResultInv, RulesKnown, ResultsKnown, Counted, AnswersKnown
<1>3. ChecksKnown'
    <2>1. ASSUME NEW d \in Client, req'[d].op = "check"
          PROVE  d # c /\ req'[d] = req[d]
        BY <1>a, <1>1, <2>1 DEF Idle
    <2> QED
        BY <1>1, <2>1 DEF ResultInv, ChecksKnown
<1>4. FailuresAreAnnounced'
    <2>1. \A x \in db.results : req[c].op = "check" /\ req[c].stored = x => x \in lost'
        BY <1>a, QualityAssumption DEF AbortRequest, QualityAbort, Sound, DatabaseOK
    <2>2. \A d \in Client \ {c} : req'[d] = req[d]
        BY <1>a, <1>1
    <2> QED
        BY <1>1, <2>1, <2>2 DEF ResultInv, FailuresAreAnnounced
<1> QED
    BY <1>2, <1>3, <1>4 DEF ResultInv

LEMMA StoringKeeps ==
    ASSUME CatalogInv, ResultInv, Sound(db'), NEW c \in Client,
           CheckFails(c) \/ CountFailing(c)
    PROVE  ResultInv'
<1>a. RequestsTyped /\ CountsTyped
    BY DEF CatalogInv
<1>1. CASE CheckFails(c)
    <2>1. /\ Busy(c) /\ Store(c, "error", 0, 0) /\ shaken \subseteq shaken' /\ 0 <= 0
          /\ UNCHANGED <<spent, checked, publishing, events, lost>>
        BY <1>1 DEF CheckFails, qualityVars, restVars
    <2> QED
        BY <2>1, StoreKeepsResults
<1>2. CASE CountFailing(c)
    <2>1. req[c].total \in Tables
        BY <1>a, <1>2, RequestsByName DEF CountFailing, Busy, CheckRequest
    <2>2. PICK bad, n :
             /\ bad \in FailingRows(Current(c), table)
             /\ Store(c, StatusOf(n, bad), n, bad)
             /\ \/ /\ shaken' = shaken /\ req[c].total = table
                   /\ \/ n = bad
                      \/ n = table.rows /\ Current(c).kind # "custom_sql"
                \/ shaken' = shaken \cup {<<req[c].batch, req[c].no>>}
        BY <1>2 DEF CountFailing
    <2>3. bad <= n \/ <<req[c].batch, req[c].no>> \in shaken'
        <3>1. CASE /\ req[c].total = table
                   /\ n = bad \/ (n = table.rows /\ Current(c).kind # "custom_sql")
            <4>1. table \in Tables
                BY <2>1, <3>1
            <4>2. /\ table.bad \in Int /\ table.rows \in Int /\ 0 <= table.bad
                  /\ table.bad <= table.rows
                BY <4>1 DEF Tables
            <4>3. bad \in Int
                BY <2>2, <4>1, CountedRows, CatalogAssumption
            <4>4. CASE n = table.rows /\ Current(c).kind # "custom_sql"
                BY <2>2, <4>2, <4>4 DEF FailingRows, RegexFinds
            <4> QED
                BY <3>1, <4>3, <4>4
        <3>2. CASE <<req[c].batch, req[c].no>> \in shaken'
            BY <3>2
        <3>3. <<req[c].batch, req[c].no>> \in shaken'
                 \/ /\ req[c].total = table
                    /\ n = bad \/ (n = table.rows /\ Current(c).kind # "custom_sql")
            BY <2>2
        <3> QED
            BY <3>1, <3>2, <3>3, Zenon
    <2>4. /\ Busy(c) /\ shaken \subseteq shaken'
          /\ UNCHANGED <<spent, checked, publishing, events, lost>>
        BY <1>2, <2>2 DEF CountFailing, restVars
    <2> QED
        BY <2>2, <2>3, <2>4, StoreKeepsResults
<1> QED
    BY <1>1, <1>2

LEMMA ResultSteps ==
    ASSUME CatalogInv, ResultInv, QualityNext PROVE ResultInv'
<1>a. Sound(db')
    BY QualityStore DEF StoreInv
<1>b. /\ DOMAIN db.rules \subseteq Rule /\ IsFiniteSet(DOMAIN db.rules)
    BY DEF CatalogInv, StoreInv, Sound, DatabaseOK, IsTable, ResultInv, RulesKnown
<1>1. ASSUME NEW c \in Client, NEW b, CheckAll(c, b) PROVE ResultInv'
    <2> DEFINE S == {r \in DOMAIN db.rules : db.rules[r].active}
    <2>1. SetToSeq(S) \in Seq(S)
        BY <1>b, FS_Subset, RulesListed
    <2>2. SetToSeq(S) \in Seq(DOMAIN db.rules)
        BY <2>1
    <2>3. StartCheck(c, b, SetToSeq(S))
        BY <1>1 DEF CheckAll, ActiveRules
    <2> QED
        BY <2>2, <2>3, StartKeeps
<1>2. ASSUME NEW c \in Client, NEW b, NEW rules \in CheckLists, CheckGiven(c, b, rules)
      PROVE  ResultInv'
    <2>1. rules \in Seq(Rule) /\ \A i \in DOMAIN rules : rules[i] \in DOMAIN db.rules
        BY <1>2, QualityAssumption DEF CheckGiven, ToSet
    <2>2. rules \in Seq(DOMAIN db.rules)
        BY <2>1
    <2> QED
        BY <1>2, <2>2, StartKeeps DEF CheckGiven
<1>3. ASSUME NEW c \in Client,
             \/ CountAll(c) \/ CheckFails(c) \/ CountFailing(c) \/ ReadBack(c)
             \/ CheckAnswers(c)
      PROVE  ResultInv'
    BY <1>3, <1>a, CountKeeps, StoringKeeps, ReadBackKeeps, AnswerKeeps
<1>4. ASSUME NEW x, PublishFailure(x) \/ LoseFailure(x) \/ TableChanges(x)
      PROVE  ResultInv'
    BY <1>4, PublishKeeps, TableKeeps
<1> QED
    BY <1>1, <1>2, <1>3, <1>4, <1>a, RuleSteps DEF QualityNext

LEMMA ResultsInductive ==
    ASSUME CatalogInv, DeletesKnown, ResultInv, [Next]_vars PROVE ResultInv'
<1>a. Sound(db) /\ Sound(db') /\ DOMAIN req = Client
    BY StoreSteps DEF CatalogInv, StoreInv, RequestsTyped
<1>1. ASSUME NEW s, NEW scan, StoreScan(s, scan) PROVE RulesStay(db, db')
    BY <1>1, <1>a, StoreScanStays
<1>2. ASSUME QuietStep \/ ScanSaved PROVE RulesStay(db, db')
    BY <1>1, <1>2 DEF QuietStep, ScanSaved
<1>3. CASE CatalogNext /\ UNCHANGED qualityVars
    BY <1>2, <1>3, <1>a, CatalogSchema, CatalogDeletes, RestKeeps DEF ChecksQuiet
<1>4. CASE GlossaryNext /\ UNCHANGED qualityVars
    BY <1>2, <1>4, <1>a, GlossarySchema, GlossaryDeletes, RestKeeps DEF ChecksQuiet
<1>5. CASE ScannerNext /\ UNCHANGED qualityVars
    BY <1>2, <1>5, <1>a, ScannerSchema, ScannerDeletes, RestKeeps DEF ChecksQuiet
<1>6. CASE UNCHANGED vars
    <2>1. /\ db' = db /\ req' = req /\ spent' = spent /\ qualityVars' = qualityVars
        BY <1>6 DEF vars, catalogVars
    <2> QED
        BY <2>1, <1>a, SameRulesStay, RestKeeps DEF RulesSame
<1> QED
    BY <1>3, <1>4, <1>5, <1>6, ResultSteps, AbortKeeps DEF Next

LEMMA ResultInvariant == Spec => []ResultInv
<1>1. CatalogInv /\ DeletesKnown /\ ResultInv /\ [Next]_vars => ResultInv'
    BY ResultsInductive
<1> QED
    BY <1>1, ResultsStart, CatalogInvariant, DeletesKnownAlways, PTL DEF Spec

\* A check that has answered has stored one result for every rule in its list
\* that still exists, whatever rules, columns and sources go meanwhile.
THEOREM ResultsComplete == Spec => []OneResultPerRule
<1>1. ResultInv => OneResultPerRule
    BY DEF ResultInv, AnswersKnown, ResultsKnown, OnePerPlace, Counted, Stored,
       OneResultPerRule
<1> QED
    BY <1>1, ResultInvariant, PTL

\* Every stored failure is announced, lost with its process, or hidden by a
\* second result of its rule in the same check.
THEOREM FailuresAnnounced == Spec => []FailuresAreAnnounced
<1>1. ResultInv => FailuresAreAnnounced
    BY DEF ResultInv
<1> QED
    BY <1>1, ResultInvariant, PTL
=============================================================================
