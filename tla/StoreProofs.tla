----------------------------- MODULE StoreProofs -----------------------------
(***************************************************************************)
(* Lemmas about the statements of MetadataStore, for any identifiers and   *)
(* any contents: each keeps the rows of their types, the references whole  *)
(* and the names unique.  Then lemmas about the recursive queries of       *)
(* Lineage: what they return, and that the loop of the impact analysis     *)
(* finds the shortest distances.  CatalogProofs and HistoryProofs use them. *)
(***************************************************************************)
EXTENDS Lineage, FiniteSetTheorems, SequenceTheorems, TLAPS

\* A database is a record of its tables.
IsDatabase(d) ==
    d = [sources |-> d.sources, objects |-> d.objects, columns |-> d.columns,
         terms |-> d.terms, tags |-> d.tags, rules |-> d.rules,
         columnTags |-> d.columnTags, mappings |-> d.mappings,
         edges |-> d.edges, changes |-> d.changes, results |-> d.results]

Sound(d) ==
    /\ IsDatabase(d) /\ DatabaseOK(d)
    /\ ForeignKeysHold(d) /\ NamesUnique(d)

\* f has some of the rows of g.
Part(f, g) == DOMAIN f \subseteq DOMAIN g /\ f = [x \in DOMAIN f |-> g[x]]

\* Nothing but deletions leads from d to e.
Pruned(d, e) ==
    /\ IsDatabase(e)
    /\ Part(e.sources, d.sources) /\ Part(e.objects, d.objects)
    /\ Part(e.columns, d.columns) /\ Part(e.terms, d.terms)
    /\ Part(e.tags, d.tags) /\ Part(e.rules, d.rules)
    /\ e.columnTags \subseteq d.columnTags /\ e.mappings \subseteq d.mappings
    /\ e.edges \subseteq d.edges /\ e.changes \subseteq d.changes
    /\ e.results \subseteq d.results

\* No source is new or changed.
SourcesKept(d, e) == Part(e.sources, d.sources)

\* No rule is new or is about something else.
ScopesKept(d, e) ==
    \A r \in DOMAIN e.rules :
        /\ r \in DOMAIN d.rules
        /\ e.rules[r].source = d.rules[r].source
        /\ e.rules[r].object = d.rules[r].object
        /\ e.rules[r].column = d.rules[r].column

LEMMA PartWithout == ASSUME NEW f, NEW ids PROVE Part(Without(f, ids), f)
BY DEF Part, Without, Restrict

LEMMA PartSame ==
    ASSUME NEW f, NEW Id, NEW Row, IsTable(f, Id, Row) PROVE Part(f, f)
BY DEF Part, IsTable

LEMMA PartOfPart ==
    ASSUME NEW f, NEW g, NEW h, Part(f, g), Part(g, h) PROVE Part(f, h)
BY DEF Part

LEMMA PartTable ==
    ASSUME NEW f, NEW g, NEW Id, NEW Row, Part(f, g), IsTable(g, Id, Row)
    PROVE  IsTable(f, Id, Row)
BY DEF Part, IsTable

LEMMA PartInjective ==
    ASSUME NEW f, NEW g, Part(f, g), IsInjective(g) PROVE IsInjective(f)
BY DEF Part, IsInjective

LEMMA PrunedKeeps ==
    ASSUME NEW d, NEW e, Pruned(d, e), DatabaseOK(d), NamesUnique(d)
    PROVE  DatabaseOK(e) /\ NamesUnique(e)
<1>1. DatabaseOK(e)
    BY PartTable DEF Pruned, DatabaseOK
<1>2. NamesUnique(e)
    BY PartInjective DEF Pruned, NamesUnique, Part
<1> QED
    BY <1>1, <1>2

LEMMA PrunedFrame ==
    ASSUME NEW d, NEW e, Pruned(d, e) PROVE SourcesKept(d, e) /\ ScopesKept(d, e)
BY DEF Pruned, Part, SourcesKept, ScopesKept

LEMMA PrunedTwice ==
    ASSUME NEW d, NEW e, NEW f, Pruned(d, e), Pruned(e, f) PROVE Pruned(d, f)
BY PartOfPart DEF Pruned

LEMMA PrunedSame == ASSUME NEW d, Sound(d) PROVE Pruned(d, d)
BY PartSame DEF Sound, DatabaseOK, Pruned

(***************************************************************************)
(* Deletions.                                                              *)
(***************************************************************************)
LEMMA CascadeRulesFields ==
    ASSUME NEW d, IsDatabase(d), NEW R, NEW e, e = CascadeRules(d, R)
    PROVE  /\ IsDatabase(e)
           /\ e.sources = d.sources /\ e.objects = d.objects /\ e.columns = d.columns
           /\ e.terms = d.terms /\ e.tags = d.tags /\ e.rules = Without(d.rules, R)
           /\ e.columnTags = d.columnTags /\ e.mappings = d.mappings
           /\ e.edges = d.edges /\ e.changes = d.changes
           /\ e.results = {x \in d.results : x.rule \notin R}
BY DEF IsDatabase, CascadeRules

LEMMA CascadeRulesSound ==
    ASSUME NEW d, Sound(d), NEW R
    PROVE  Sound(CascadeRules(d, R)) /\ Pruned(d, CascadeRules(d, R))
<1> DEFINE e == CascadeRules(d, R)
<1>1. /\ IsDatabase(e)
      /\ e.sources = d.sources /\ e.objects = d.objects /\ e.columns = d.columns
      /\ e.terms = d.terms /\ e.tags = d.tags /\ e.rules = Without(d.rules, R)
      /\ e.columnTags = d.columnTags /\ e.mappings = d.mappings
      /\ e.edges = d.edges /\ e.changes = d.changes
      /\ e.results = {x \in d.results : x.rule \notin R}
    BY CascadeRulesFields DEF Sound
<1> HIDE DEF e
<1>2. Pruned(d, e)
    BY <1>1, PartWithout, PartSame DEF Pruned, Sound, DatabaseOK
<1>3. ForeignKeysHold(e)
    BY <1>1 DEF Sound, ForeignKeysHold, Without, Restrict
<1> QED
    BY <1>1, <1>2, <1>3, PrunedKeeps DEF Sound, e

\* What CascadeColumns makes of each table, R being the rules of the columns.
ColumnsGone(d, e, C, R) ==
    /\ IsDatabase(e)
    /\ e.sources = d.sources /\ e.objects = d.objects
    /\ e.columns = Without(d.columns, C)
    /\ e.terms = d.terms /\ e.tags = d.tags /\ e.rules = Without(d.rules, R)
    /\ e.columnTags = {x \in d.columnTags : x.column \notin C}
    /\ e.mappings = {m \in d.mappings : m.from \notin C /\ m.to \notin C}
    /\ e.edges = d.edges /\ e.changes = d.changes
    /\ e.results = {x \in d.results : x.rule \notin R /\ x.column \notin C}

LEMMA CascadeColumnsFields ==
    ASSUME NEW d, IsDatabase(d), NEW C, NEW e, e = CascadeColumns(d, C),
           NEW R, R = {r \in DOMAIN d.rules : d.rules[r].column \in C}
    PROVE  ColumnsGone(d, e, C, R)
<1> DEFINE f == CascadeRules(d, R)
<1>1. /\ IsDatabase(f)
      /\ f.sources = d.sources /\ f.objects = d.objects /\ f.columns = d.columns
      /\ f.terms = d.terms /\ f.tags = d.tags /\ f.rules = Without(d.rules, R)
      /\ f.columnTags = d.columnTags /\ f.mappings = d.mappings
      /\ f.edges = d.edges /\ f.changes = d.changes
      /\ f.results = {x \in d.results : x.rule \notin R}
    BY CascadeRulesFields
<1>2. e = [f EXCEPT !.columns    = Without(@, C),
                    !.columnTags = {x \in @ : x.column \notin C},
                    !.mappings   = {m \in @ : m.from \notin C /\ m.to \notin C},
                    !.results    = {x \in @ : x.column \notin C}]
    BY DEF CascadeColumns
<1> HIDE DEF f
<1>3. /\ IsDatabase(e)
      /\ e.sources = f.sources /\ e.objects = f.objects
      /\ e.columns = Without(f.columns, C)
      /\ e.terms = f.terms /\ e.tags = f.tags /\ e.rules = f.rules
      /\ e.columnTags = {x \in f.columnTags : x.column \notin C}
      /\ e.mappings = {m \in f.mappings : m.from \notin C /\ m.to \notin C}
      /\ e.edges = f.edges /\ e.changes = f.changes
      /\ e.results = {x \in f.results : x.column \notin C}
    BY <1>1, <1>2 DEF IsDatabase
<1>4. e.results = {x \in d.results : x.rule \notin R /\ x.column \notin C}
    BY <1>1, <1>3
<1> QED
    BY <1>1, <1>3, <1>4 DEF ColumnsGone

LEMMA CascadeColumnsSound ==
    ASSUME NEW d, Sound(d), NEW C
    PROVE  Sound(CascadeColumns(d, C)) /\ Pruned(d, CascadeColumns(d, C))
<1>a. PICK e : e = CascadeColumns(d, C)
    OBVIOUS
<1>0. PICK R : R = {r \in DOMAIN d.rules : d.rules[r].column \in C}
    OBVIOUS
<1>b. IsDatabase(d)
    BY DEF Sound
<1>1. ColumnsGone(d, e, C, R)
    BY <1>a, <1>0, <1>b, CascadeColumnsFields
<1>2. Pruned(d, e)
    BY <1>1, PartWithout, PartSame DEF ColumnsGone, Pruned, Sound, DatabaseOK
<1>3. ForeignKeysHold(e)
    BY <1>0, <1>1 DEF ColumnsGone, Sound, ForeignKeysHold, Without, Restrict
<1> QED
    BY <1>a, <1>1, <1>2, <1>3, PrunedKeeps DEF ColumnsGone, Sound

\* What CascadeObjects makes of each table, C being the columns of the
\* objects, R the rules of the columns and Q those of the objects.
ObjectsGone(d, e, O, C, R, Q) ==
    /\ IsDatabase(e)
    /\ e.sources = d.sources
    /\ e.objects = Without(d.objects, O)
    /\ e.columns = Without(d.columns, C)
    /\ e.terms = d.terms /\ e.tags = d.tags
    /\ e.rules = Without(Without(d.rules, R), Q)
    /\ e.columnTags = {x \in d.columnTags : x.column \notin C}
    /\ e.mappings = {m \in d.mappings : m.from \notin C /\ m.to \notin C}
    /\ e.edges = d.edges /\ e.changes = d.changes
    /\ e.results \subseteq d.results

LEMMA CascadeObjectsSound ==
    ASSUME NEW d, Sound(d), NEW O, NEW e, e = CascadeObjects(d, O),
           NEW C, C = {c \in DOMAIN d.columns : c.object \in O},
           NEW R, R = {r \in DOMAIN d.rules : d.rules[r].column \in C},
           NEW Q, Q = {r \in DOMAIN d.rules : d.rules[r].object \in O}
    PROVE  Sound(e) /\ Pruned(d, e) /\ ObjectsGone(d, e, O, C, R, Q)
<1>a. PICK f : f = CascadeColumns(d, C)
    OBVIOUS
<1>c. PICK g : g = CascadeRules(f, Q)
    OBVIOUS
<1>1. ColumnsGone(d, f, C, R) /\ Sound(f) /\ Pruned(d, f)
    BY <1>a, CascadeColumnsFields, CascadeColumnsSound DEF Sound
<1>2. Sound(g) /\ Pruned(f, g)
    BY <1>1, <1>c, CascadeRulesSound
<1>3. /\ IsDatabase(g)
      /\ g.sources = f.sources /\ g.objects = f.objects /\ g.columns = f.columns
      /\ g.terms = f.terms /\ g.tags = f.tags /\ g.rules = Without(f.rules, Q)
      /\ g.columnTags = f.columnTags /\ g.mappings = f.mappings
      /\ g.edges = f.edges /\ g.changes = f.changes
      /\ g.results \subseteq f.results
    BY <1>1, <1>2, <1>c, CascadeRulesFields DEF Sound
<1>4. e = [g EXCEPT !.objects = Without(@, O)]
    BY <1>a, <1>c DEF CascadeObjects
<1>5. /\ IsDatabase(e)
      /\ e.sources = g.sources /\ e.objects = Without(g.objects, O)
      /\ e.columns = g.columns /\ e.terms = g.terms /\ e.tags = g.tags
      /\ e.rules = g.rules /\ e.columnTags = g.columnTags
      /\ e.mappings = g.mappings /\ e.edges = g.edges
      /\ e.changes = g.changes /\ e.results = g.results
    BY <1>3, <1>4 DEF IsDatabase
<1>6. ObjectsGone(d, e, O, C, R, Q)
    BY <1>1, <1>3, <1>5 DEF ObjectsGone, ColumnsGone
<1>7. Pruned(g, e)
    BY <1>2, <1>5, PartWithout, PartSame DEF Pruned, Sound, DatabaseOK
<1>8. Pruned(d, e)
    BY <1>1, <1>2, <1>7, PrunedTwice
<1>9. \A c \in DOMAIN g.columns : c.object \notin O
    BY <1>1, <1>3 DEF ColumnsGone, Without, Restrict
<1>10. \A r \in DOMAIN g.rules : r \in DOMAIN d.rules /\ g.rules[r] = d.rules[r]
    BY <1>1, <1>3 DEF ColumnsGone, Without, Restrict
<1>11. \A r \in DOMAIN g.rules : g.rules[r].object \notin O
    BY <1>1, <1>3, <1>10 DEF ColumnsGone, Without, Restrict
<1>12. ForeignKeysHold(e)
    BY <1>2, <1>5, <1>9, <1>11 DEF Sound, ForeignKeysHold, Without, Restrict
<1> QED
    BY <1>5, <1>6, <1>8, <1>12, PrunedKeeps DEF Sound

LEMMA CascadeSourceSound ==
    ASSUME NEW d, Sound(d), NEW s, NEW e, e = CascadeSource(d, s)
    PROVE  /\ Sound(e) /\ Pruned(d, e)
           /\ DOMAIN e.sources = DOMAIN d.sources \ {s}
<1>a. PICK O : O = ListSchemaObjectsBySource(d, s)
    OBVIOUS
<1>b. PICK C : C = {c \in DOMAIN d.columns : c.object \in O}
    OBVIOUS
<1>c. PICK R : R = {r \in DOMAIN d.rules : d.rules[r].column \in C}
    OBVIOUS
<1>d. PICK Q : Q = {r \in DOMAIN d.rules : d.rules[r].object \in O}
    OBVIOUS
<1>e. PICK S : S = {r \in DOMAIN d.rules : d.rules[r].source = s}
    OBVIOUS
<1>f. PICK f : f = CascadeObjects(d, O)
    OBVIOUS
<1>g. PICK g : g = CascadeRules(f, S)
    OBVIOUS
<1>1. Sound(f) /\ Pruned(d, f) /\ ObjectsGone(d, f, O, C, R, Q)
    BY <1>b, <1>c, <1>d, <1>f, CascadeObjectsSound
<1>2. Sound(g) /\ Pruned(f, g)
    BY <1>1, <1>g, CascadeRulesSound
<1>3. /\ IsDatabase(g)
      /\ g.sources = f.sources /\ g.objects = f.objects /\ g.columns = f.columns
      /\ g.terms = f.terms /\ g.tags = f.tags /\ g.rules = Without(f.rules, S)
      /\ g.columnTags = f.columnTags /\ g.mappings = f.mappings
      /\ g.edges = f.edges /\ g.changes = f.changes
      /\ g.results \subseteq f.results
    BY <1>1, <1>2, <1>g, CascadeRulesFields DEF Sound
<1>4. e = [g EXCEPT !.sources = Without(@, {s}),
                    !.changes = {ch \in @ : ch.source # s}]
    BY <1>a, <1>e, <1>f, <1>g DEF CascadeSource
<1>5. /\ IsDatabase(e)
      /\ e.sources = Without(g.sources, {s}) /\ e.objects = g.objects
      /\ e.columns = g.columns /\ e.terms = g.terms /\ e.tags = g.tags
      /\ e.rules = g.rules /\ e.columnTags = g.columnTags
      /\ e.mappings = g.mappings /\ e.edges = g.edges
      /\ e.results = g.results
      /\ e.changes = {ch \in g.changes : ch.source # s}
    BY <1>3, <1>4 DEF IsDatabase
<1>6. Pruned(g, e)
    BY <1>2, <1>5, PartWithout, PartSame DEF Pruned, Sound, DatabaseOK
<1>7. Pruned(d, e)
    BY <1>1, <1>2, <1>6, PrunedTwice
<1>8. \A o \in DOMAIN g.objects : o.source # s
    BY <1>a, <1>1, <1>3 DEF ObjectsGone, Without, Restrict,
       ListSchemaObjectsBySource
<1>9. \A r \in DOMAIN g.rules : g.rules[r].source # s
    BY <1>e, <1>1, <1>3 DEF ObjectsGone, Without, Restrict
<1>10. ForeignKeysHold(e)
    BY <1>2, <1>5, <1>8, <1>9 DEF Sound, ForeignKeysHold, Without, Restrict
<1>11. DOMAIN e.sources = DOMAIN d.sources \ {s}
    BY <1>1, <1>3, <1>5 DEF ObjectsGone, Without, Restrict
<1> QED
    BY <1>2, <1>5, <1>7, <1>10, <1>11, PrunedKeeps DEF Sound

LEMMA CascadeTagSound ==
    ASSUME NEW d, Sound(d), NEW g, NEW e, e = CascadeTag(d, g)
    PROVE  Sound(e) /\ Pruned(d, e)
<1>1. /\ IsDatabase(e)
      /\ e.sources = d.sources /\ e.objects = d.objects /\ e.columns = d.columns
      /\ e.terms = d.terms /\ e.rules = d.rules /\ e.mappings = d.mappings
      /\ e.edges = d.edges /\ e.changes = d.changes /\ e.results = d.results
      /\ e.tags = Without(d.tags, {g})
      /\ \A x \in e.columnTags : x \in d.columnTags /\ x.tag # g
    BY DEF CascadeTag, Sound, IsDatabase
<1>2. Pruned(d, e)
    BY <1>1, PartWithout, PartSame DEF Pruned, Sound, DatabaseOK
<1>3. ForeignKeysHold(e)
    BY <1>1 DEF Sound, ForeignKeysHold, Without, Restrict
<1> QED
    BY <1>1, <1>2, <1>3, PrunedKeeps DEF Sound

LEMMA DeleteSchemaChangesBySourceSound ==
    ASSUME NEW d, Sound(d), NEW s, NEW e, e = DeleteSchemaChangesBySource(d, s)
    PROVE  Sound(e) /\ Pruned(d, e)
<1>1. /\ IsDatabase(e)
      /\ e.sources = d.sources /\ e.objects = d.objects /\ e.columns = d.columns
      /\ e.terms = d.terms /\ e.tags = d.tags /\ e.rules = d.rules
      /\ e.columnTags = d.columnTags /\ e.mappings = d.mappings /\ e.edges = d.edges
      /\ e.results = d.results
      /\ e.changes \subseteq d.changes
    BY DEF DeleteSchemaChangesBySource, Sound, IsDatabase
<1>2. Pruned(d, e)
    BY <1>1, PartWithout, PartSame DEF Pruned, Sound, DatabaseOK
<1>3. ForeignKeysHold(e)
    BY <1>1 DEF Sound, ForeignKeysHold, Without, Restrict
<1> QED
    BY <1>1, <1>2, <1>3, PrunedKeeps DEF Sound

LEMMA DeleteLineageEdgesByNodeSound ==
    ASSUME NEW d, Sound(d), NEW N, NEW e, e = DeleteLineageEdgesByNode(d, N)
    PROVE  Sound(e) /\ Pruned(d, e)
<1>1. /\ IsDatabase(e)
      /\ e.sources = d.sources /\ e.objects = d.objects /\ e.columns = d.columns
      /\ e.terms = d.terms /\ e.tags = d.tags /\ e.rules = d.rules
      /\ e.columnTags = d.columnTags /\ e.mappings = d.mappings /\ e.changes = d.changes
      /\ e.results = d.results
      /\ e.edges \subseteq d.edges
    BY DEF DeleteLineageEdgesByNode, Sound, IsDatabase
<1>2. Pruned(d, e)
    BY <1>1, PartWithout, PartSame DEF Pruned, Sound, DatabaseOK
<1>3. ForeignKeysHold(e)
    BY <1>1 DEF Sound, ForeignKeysHold, Without, Restrict
<1> QED
    BY <1>1, <1>2, <1>3, PrunedKeeps DEF Sound

LEMMA DeleteColumnMappingSound ==
    ASSUME NEW d, Sound(d), NEW m, NEW e, e = DeleteColumnMapping(d, m)
    PROVE  Sound(e) /\ Pruned(d, e)
<1>1. /\ IsDatabase(e)
      /\ e.sources = d.sources /\ e.objects = d.objects /\ e.columns = d.columns
      /\ e.terms = d.terms /\ e.tags = d.tags /\ e.rules = d.rules
      /\ e.columnTags = d.columnTags /\ e.edges = d.edges /\ e.changes = d.changes
      /\ e.results = d.results
      /\ e.mappings \subseteq d.mappings
    BY DEF DeleteColumnMapping, Sound, IsDatabase
<1>2. Pruned(d, e)
    BY <1>1, PartWithout, PartSame DEF Pruned, Sound, DatabaseOK
<1>3. ForeignKeysHold(e)
    BY <1>1 DEF Sound, ForeignKeysHold, Without, Restrict
<1> QED
    BY <1>1, <1>2, <1>3, PrunedKeeps DEF Sound

LEMMA RemoveTagFromColumnSound ==
    ASSUME NEW d, Sound(d), NEW c, NEW g, NEW e, e = RemoveTagFromColumn(d, c, g)
    PROVE  Sound(e) /\ Pruned(d, e)
<1>1. /\ IsDatabase(e)
      /\ e.sources = d.sources /\ e.objects = d.objects /\ e.columns = d.columns
      /\ e.terms = d.terms /\ e.tags = d.tags /\ e.rules = d.rules
      /\ e.mappings = d.mappings /\ e.edges = d.edges /\ e.changes = d.changes
      /\ e.results = d.results
      /\ e.columnTags \subseteq d.columnTags
    BY DEF RemoveTagFromColumn, Sound, IsDatabase
<1>2. Pruned(d, e)
    BY <1>1, PartWithout, PartSame DEF Pruned, Sound, DatabaseOK
<1>3. ForeignKeysHold(e)
    BY <1>1 DEF Sound, ForeignKeysHold, Without, Restrict
<1> QED
    BY <1>1, <1>2, <1>3, PrunedKeeps DEF Sound

LEMMA DeleteBusinessTermRowSound ==
    ASSUME NEW d, Sound(d), NEW t, NEW e, e = DeleteBusinessTermRow(d, t),
           \A c \in DOMAIN d.columns : d.columns[c].term # t
    PROVE  Sound(e) /\ Pruned(d, e)
<1>1. /\ IsDatabase(e)
      /\ e.sources = d.sources /\ e.objects = d.objects /\ e.columns = d.columns
      /\ e.tags = d.tags /\ e.rules = d.rules /\ e.columnTags = d.columnTags
      /\ e.mappings = d.mappings /\ e.edges = d.edges /\ e.changes = d.changes
      /\ e.results = d.results
      /\ e.terms = Without(d.terms, {t})
    BY DEF DeleteBusinessTermRow, Sound, IsDatabase
<1>2. Pruned(d, e)
    BY <1>1, PartWithout, PartSame DEF Pruned, Sound, DatabaseOK
<1>3. ForeignKeysHold(e)
    BY <1>1 DEF Sound, ForeignKeysHold, Without, Restrict
<1> QED
    BY <1>1, <1>2, <1>3, PrunedKeeps DEF Sound

(***************************************************************************)
(* Insertions and updates.                                                 *)
(***************************************************************************)
LEMMA CreateDataSourceSound ==
    ASSUME NEW d, Sound(d), NEW s, NEW row, NEW e, e = CreateDataSource(d, s, row),
           s \in Source, row \in DataSourceRow
    PROVE  Sound(e) /\ ScopesKept(d, e)
<1>1. /\ IsDatabase(e)
      /\ e.objects = d.objects /\ e.columns = d.columns /\ e.terms = d.terms
      /\ e.tags = d.tags /\ e.rules = d.rules /\ e.columnTags = d.columnTags
      /\ e.mappings = d.mappings /\ e.edges = d.edges /\ e.changes = d.changes
      /\ e.results = d.results
      /\ e.sources = Put(d.sources, s, row)
    BY DEF CreateDataSource, Sound, IsDatabase
<1>2. DatabaseOK(e)
    BY <1>1 DEF Sound, DatabaseOK, IsTable, Put
<1>3. ForeignKeysHold(e)
    BY <1>1 DEF Sound, ForeignKeysHold, Put
<1>4. NamesUnique(e)
    BY <1>1 DEF Sound, NamesUnique
<1>7. ScopesKept(d, e)
    BY <1>1 DEF Sound, DatabaseOK, ScopesKept
<1> QED
    BY <1>1, <1>2, <1>3, <1>4, <1>7 DEF Sound

LEMMA UpdateDataSourceSound ==
    ASSUME NEW d, Sound(d), NEW s, NEW host, NEW config, NEW e, e = UpdateDataSource(d, s, host, config),
           s \in DOMAIN d.sources, host \in Host \cup {None},
           config \in ConnectionConfig \cup {None}
    PROVE  Sound(e) /\ ScopesKept(d, e)
<1>1. /\ IsDatabase(e)
      /\ e.objects = d.objects /\ e.columns = d.columns /\ e.terms = d.terms
      /\ e.tags = d.tags /\ e.rules = d.rules /\ e.columnTags = d.columnTags
      /\ e.mappings = d.mappings /\ e.edges = d.edges /\ e.changes = d.changes
      /\ e.results = d.results
      /\ e.sources = [d.sources EXCEPT ![s] = [host   |-> Given(host, @.host),
                                          config |-> Given(config, @.config)]]
    BY DEF UpdateDataSource, Sound, IsDatabase
<1>5. [host |-> Given(host, d.sources[s].host),
       config |-> Given(config, d.sources[s].config)] \in DataSourceRow
    BY DEF Sound, DatabaseOK, IsTable, DataSourceRow, Given
<1>2. DatabaseOK(e)
    BY <1>1, <1>5 DEF Sound, DatabaseOK, IsTable
<1>3. ForeignKeysHold(e)
    BY <1>1, <1>5 DEF Sound, ForeignKeysHold
<1>4. NamesUnique(e)
    BY <1>1, <1>5 DEF Sound, NamesUnique
<1>7. ScopesKept(d, e)
    BY <1>1 DEF Sound, DatabaseOK, ScopesKept
<1> QED
    BY <1>1, <1>2, <1>3, <1>4, <1>7 DEF Sound

LEMMA CreateColumnMappingSound ==
    ASSUME NEW d, Sound(d), NEW c1, NEW c2, NEW e, e = CreateColumnMapping(d, c1, c2),
           {c1, c2} \subseteq DOMAIN d.columns
    PROVE  Sound(e) /\ SourcesKept(d, e) /\ ScopesKept(d, e)
<1>1. /\ IsDatabase(e)
      /\ e.sources = d.sources /\ e.objects = d.objects /\ e.columns = d.columns
      /\ e.terms = d.terms /\ e.tags = d.tags /\ e.rules = d.rules
      /\ e.columnTags = d.columnTags /\ e.edges = d.edges /\ e.changes = d.changes
      /\ e.results = d.results
      /\ e.mappings = d.mappings \cup {[from |-> c1, to |-> c2]}
    BY DEF CreateColumnMapping, Sound, IsDatabase
<1>2. DatabaseOK(e)
    BY <1>1 DEF Sound, DatabaseOK, IsTable, MappingRow
<1>3. ForeignKeysHold(e)
    BY <1>1 DEF Sound, ForeignKeysHold
<1>4. NamesUnique(e)
    BY <1>1 DEF Sound, NamesUnique
<1>6. SourcesKept(d, e)
    BY <1>1, PartSame DEF Sound, DatabaseOK, SourcesKept
<1>7. ScopesKept(d, e)
    BY <1>1 DEF Sound, DatabaseOK, ScopesKept
<1> QED
    BY <1>1, <1>2, <1>3, <1>4, <1>6, <1>7 DEF Sound

LEMMA CreateLineageEdgeSound ==
    ASSUME NEW d, Sound(d), NEW n1, NEW n2, NEW e, e = CreateLineageEdge(d, n1, n2),
           {n1, n2} \subseteq DOMAIN d.columns \cup DOMAIN d.objects
    PROVE  Sound(e) /\ SourcesKept(d, e) /\ ScopesKept(d, e)
<1>1. /\ IsDatabase(e)
      /\ e.sources = d.sources /\ e.objects = d.objects /\ e.columns = d.columns
      /\ e.terms = d.terms /\ e.tags = d.tags /\ e.rules = d.rules
      /\ e.columnTags = d.columnTags /\ e.mappings = d.mappings /\ e.changes = d.changes
      /\ e.results = d.results
      /\ e.edges = d.edges \cup {[from |-> n1, to |-> n2]}
    BY DEF CreateLineageEdge, Sound, IsDatabase
<1>2. DatabaseOK(e)
    BY <1>1 DEF Sound, DatabaseOK, IsTable, EdgeRow, Node
<1>3. ForeignKeysHold(e)
    BY <1>1 DEF Sound, ForeignKeysHold
<1>4. NamesUnique(e)
    BY <1>1 DEF Sound, NamesUnique
<1>6. SourcesKept(d, e)
    BY <1>1, PartSame DEF Sound, DatabaseOK, SourcesKept
<1>7. ScopesKept(d, e)
    BY <1>1 DEF Sound, DatabaseOK, ScopesKept
<1> QED
    BY <1>1, <1>2, <1>3, <1>4, <1>6, <1>7 DEF Sound

LEMMA CreateBusinessTermSound ==
    ASSUME NEW d, Sound(d), NEW t, NEW w, NEW e, e = CreateBusinessTerm(d, t, w),
           t \in Term, w \in Word,
           \A u \in DOMAIN d.terms : d.terms[u].name # w
    PROVE  Sound(e) /\ SourcesKept(d, e) /\ ScopesKept(d, e)
<1>1. /\ IsDatabase(e)
      /\ e.sources = d.sources /\ e.objects = d.objects /\ e.columns = d.columns
      /\ e.tags = d.tags /\ e.rules = d.rules /\ e.columnTags = d.columnTags
      /\ e.mappings = d.mappings /\ e.edges = d.edges /\ e.changes = d.changes
      /\ e.results = d.results
      /\ e.terms = Put(d.terms, t, [name |-> w])
    BY DEF CreateBusinessTerm, Sound, IsDatabase
<1>2. DatabaseOK(e)
    BY <1>1 DEF Sound, DatabaseOK, IsTable, Put, TermRow
<1>3. ForeignKeysHold(e)
    BY <1>1 DEF Sound, ForeignKeysHold, Put
<1>4. NamesUnique(e)
    BY <1>1 DEF Sound, NamesUnique, Put, IsInjective
<1>6. SourcesKept(d, e)
    BY <1>1, PartSame DEF Sound, DatabaseOK, SourcesKept
<1>7. ScopesKept(d, e)
    BY <1>1 DEF Sound, DatabaseOK, ScopesKept
<1> QED
    BY <1>1, <1>2, <1>3, <1>4, <1>6, <1>7 DEF Sound

LEMMA UpdateBusinessTermSound ==
    ASSUME NEW d, Sound(d), NEW t, NEW w, NEW e, e = UpdateBusinessTerm(d, t, w),
           t \in DOMAIN d.terms, w \in Word, w # None,
           \A u \in DOMAIN d.terms \ {t} : d.terms[u].name # w
    PROVE  Sound(e) /\ SourcesKept(d, e) /\ ScopesKept(d, e)
<1>1. /\ IsDatabase(e)
      /\ e.sources = d.sources /\ e.objects = d.objects /\ e.columns = d.columns
      /\ e.tags = d.tags /\ e.rules = d.rules /\ e.columnTags = d.columnTags
      /\ e.mappings = d.mappings /\ e.edges = d.edges /\ e.changes = d.changes
      /\ e.results = d.results
      /\ e.terms = [d.terms EXCEPT ![t].name = Given(w, @)]
    BY DEF UpdateBusinessTerm, Sound, IsDatabase
<1>2. DatabaseOK(e)
    BY <1>1 DEF Sound, DatabaseOK, IsTable, TermRow, Given
<1>3. ForeignKeysHold(e)
    BY <1>1 DEF Sound, ForeignKeysHold
<1>4. NamesUnique(e)
    BY <1>1 DEF Sound, NamesUnique, IsInjective, DatabaseOK, IsTable, TermRow, Given
<1>6. SourcesKept(d, e)
    BY <1>1, PartSame DEF Sound, DatabaseOK, SourcesKept
<1>7. ScopesKept(d, e)
    BY <1>1 DEF Sound, DatabaseOK, ScopesKept
<1> QED
    BY <1>1, <1>2, <1>3, <1>4, <1>6, <1>7 DEF Sound

LEMMA ClearTermAssociationsSound ==
    ASSUME NEW d, Sound(d), NEW t, NEW e, e = ClearTermAssociations(d, t)
    PROVE  Sound(e) /\ SourcesKept(d, e) /\ ScopesKept(d, e)
<1>1. /\ IsDatabase(e)
      /\ e.sources = d.sources /\ e.objects = d.objects /\ e.terms = d.terms
      /\ e.tags = d.tags /\ e.rules = d.rules /\ e.columnTags = d.columnTags
      /\ e.mappings = d.mappings /\ e.edges = d.edges /\ e.changes = d.changes
      /\ e.results = d.results
      /\ e.columns = [c \in DOMAIN d.columns |->
            IF d.columns[c].term = t
            THEN [d.columns[c] EXCEPT !.term = None] ELSE d.columns[c]]
    BY DEF ClearTermAssociations, Sound, IsDatabase
<1>5. /\ DOMAIN e.columns = DOMAIN d.columns
      /\ \A c \in DOMAIN d.columns :
            /\ e.columns[c] \in ColumnRow
            /\ e.columns[c].term # t \/ t = None
            /\ e.columns[c].term \in {d.columns[c].term, None}
    BY <1>1 DEF Sound, DatabaseOK, IsTable, ColumnRow
<1>2. DatabaseOK(e)
    BY <1>1, <1>5 DEF Sound, DatabaseOK, IsTable
<1>3. ForeignKeysHold(e)
    BY <1>1, <1>5 DEF Sound, ForeignKeysHold
<1>4. NamesUnique(e)
    BY <1>1, <1>5 DEF Sound, NamesUnique
<1>6. SourcesKept(d, e)
    BY <1>1, PartSame DEF Sound, DatabaseOK, SourcesKept
<1>7. ScopesKept(d, e)
    BY <1>1 DEF Sound, DatabaseOK, ScopesKept
<1> QED
    BY <1>1, <1>2, <1>3, <1>4, <1>6, <1>7 DEF Sound

LEMMA AssignTermToColumnSound ==
    ASSUME NEW d, Sound(d), NEW c, NEW t, NEW e, e = AssignTermToColumn(d, c, t),
           c \in DOMAIN d.columns, t \in DOMAIN d.terms \cup {None}
    PROVE  Sound(e) /\ SourcesKept(d, e) /\ ScopesKept(d, e)
<1>1. /\ IsDatabase(e)
      /\ e.sources = d.sources /\ e.objects = d.objects /\ e.terms = d.terms
      /\ e.tags = d.tags /\ e.rules = d.rules /\ e.columnTags = d.columnTags
      /\ e.mappings = d.mappings /\ e.edges = d.edges /\ e.changes = d.changes
      /\ e.results = d.results
      /\ e.columns = [d.columns EXCEPT ![c].term = t]
    BY DEF AssignTermToColumn, Sound, IsDatabase
<1>5. /\ DOMAIN e.columns = DOMAIN d.columns
      /\ \A x \in DOMAIN d.columns :
            /\ e.columns[x] \in ColumnRow
            /\ e.columns[x].term \in {d.columns[x].term, t}
    BY <1>1 DEF Sound, DatabaseOK, IsTable, ColumnRow
<1>2. DatabaseOK(e)
    BY <1>1, <1>5 DEF Sound, DatabaseOK, IsTable
<1>3. ForeignKeysHold(e)
    BY <1>1, <1>5 DEF Sound, ForeignKeysHold
<1>4. NamesUnique(e)
    BY <1>1, <1>5 DEF Sound, NamesUnique
<1>6. SourcesKept(d, e)
    BY <1>1, PartSame DEF Sound, DatabaseOK, SourcesKept
<1>7. ScopesKept(d, e)
    BY <1>1 DEF Sound, DatabaseOK, ScopesKept
<1> QED
    BY <1>1, <1>2, <1>3, <1>4, <1>6, <1>7 DEF Sound

LEMMA CreateTagSound ==
    ASSUME NEW d, Sound(d), NEW g, NEW w, NEW e, e = CreateTag(d, g, w),
           g \in Tag, w \in Word,
           \A h \in DOMAIN d.tags : d.tags[h].name # w
    PROVE  Sound(e) /\ SourcesKept(d, e) /\ ScopesKept(d, e)
<1>1. /\ IsDatabase(e)
      /\ e.sources = d.sources /\ e.objects = d.objects /\ e.columns = d.columns
      /\ e.terms = d.terms /\ e.rules = d.rules /\ e.columnTags = d.columnTags
      /\ e.mappings = d.mappings /\ e.edges = d.edges /\ e.changes = d.changes
      /\ e.results = d.results
      /\ e.tags = Put(d.tags, g, [name |-> w])
    BY DEF CreateTag, Sound, IsDatabase
<1>2. DatabaseOK(e)
    BY <1>1 DEF Sound, DatabaseOK, IsTable, Put, TagRow
<1>3. ForeignKeysHold(e)
    BY <1>1 DEF Sound, ForeignKeysHold, Put
<1>4. NamesUnique(e)
    BY <1>1 DEF Sound, NamesUnique, Put, IsInjective
<1>6. SourcesKept(d, e)
    BY <1>1, PartSame DEF Sound, DatabaseOK, SourcesKept
<1>7. ScopesKept(d, e)
    BY <1>1 DEF Sound, DatabaseOK, ScopesKept
<1> QED
    BY <1>1, <1>2, <1>3, <1>4, <1>6, <1>7 DEF Sound

LEMMA UpdateTagSound ==
    ASSUME NEW d, Sound(d), NEW g, NEW w, NEW e, e = UpdateTag(d, g, w),
           g \in DOMAIN d.tags, w \in Word,
           \A h \in DOMAIN d.tags \ {g} : d.tags[h].name # w
    PROVE  Sound(e) /\ SourcesKept(d, e) /\ ScopesKept(d, e)
<1>1. /\ IsDatabase(e)
      /\ e.sources = d.sources /\ e.objects = d.objects /\ e.columns = d.columns
      /\ e.terms = d.terms /\ e.rules = d.rules /\ e.columnTags = d.columnTags
      /\ e.mappings = d.mappings /\ e.edges = d.edges /\ e.changes = d.changes
      /\ e.results = d.results
      /\ e.tags = [d.tags EXCEPT ![g].name = w]
    BY DEF UpdateTag, Sound, IsDatabase
<1>2. DatabaseOK(e)
    BY <1>1 DEF Sound, DatabaseOK, IsTable, TagRow
<1>3. ForeignKeysHold(e)
    BY <1>1 DEF Sound, ForeignKeysHold
<1>4. NamesUnique(e)
    BY <1>1 DEF Sound, NamesUnique, IsInjective, DatabaseOK, IsTable, TagRow
<1>6. SourcesKept(d, e)
    BY <1>1, PartSame DEF Sound, DatabaseOK, SourcesKept
<1>7. ScopesKept(d, e)
    BY <1>1 DEF Sound, DatabaseOK, ScopesKept
<1> QED
    BY <1>1, <1>2, <1>3, <1>4, <1>6, <1>7 DEF Sound

LEMMA AddTagToColumnSound ==
    ASSUME NEW d, Sound(d), NEW c, NEW g, NEW e, e = AddTagToColumn(d, c, g),
           c \in DOMAIN d.columns, g \in DOMAIN d.tags
    PROVE  Sound(e) /\ SourcesKept(d, e) /\ ScopesKept(d, e)
<1>1. /\ IsDatabase(e)
      /\ e.sources = d.sources /\ e.objects = d.objects /\ e.columns = d.columns
      /\ e.terms = d.terms /\ e.tags = d.tags /\ e.rules = d.rules
      /\ e.mappings = d.mappings /\ e.edges = d.edges /\ e.changes = d.changes
      /\ e.results = d.results
      /\ e.columnTags = d.columnTags \cup {[column |-> c, tag |-> g]}
    BY DEF AddTagToColumn, Sound, IsDatabase
<1>2. DatabaseOK(e)
    BY <1>1 DEF Sound, DatabaseOK, IsTable, ColumnTagRow
<1>3. ForeignKeysHold(e)
    BY <1>1 DEF Sound, ForeignKeysHold
<1>4. NamesUnique(e)
    BY <1>1 DEF Sound, NamesUnique
<1>6. SourcesKept(d, e)
    BY <1>1, PartSame DEF Sound, DatabaseOK, SourcesKept
<1>7. ScopesKept(d, e)
    BY <1>1 DEF Sound, DatabaseOK, ScopesKept
<1> QED
    BY <1>1, <1>2, <1>3, <1>4, <1>6, <1>7 DEF Sound

LEMMA CreateDQRuleSound ==
    ASSUME NEW d, Sound(d), NEW r, NEW row, NEW e, e = CreateDQRule(d, r, row),
           r \in Rule, row \in RuleRow,
           row.source \in DOMAIN d.sources \cup {None},
           row.object \in DOMAIN d.objects \cup {None},
           row.column \in DOMAIN d.columns \cup {None}
    PROVE  Sound(e) /\ SourcesKept(d, e)
<1>1. /\ IsDatabase(e)
      /\ e.sources = d.sources /\ e.objects = d.objects /\ e.columns = d.columns
      /\ e.terms = d.terms /\ e.tags = d.tags /\ e.columnTags = d.columnTags
      /\ e.mappings = d.mappings /\ e.edges = d.edges /\ e.changes = d.changes
      /\ e.results = d.results
      /\ e.rules = Put(d.rules, r, row)
    BY DEF CreateDQRule, Sound, IsDatabase
<1>2. DatabaseOK(e)
    BY <1>1 DEF Sound, DatabaseOK, IsTable, Put
<1>3. ForeignKeysHold(e)
    BY <1>1 DEF Sound, ForeignKeysHold, Put
<1>4. NamesUnique(e)
    BY <1>1 DEF Sound, NamesUnique
<1>6. SourcesKept(d, e)
    BY <1>1, PartSame DEF Sound, DatabaseOK, SourcesKept
<1> QED
    BY <1>1, <1>2, <1>3, <1>4, <1>6 DEF Sound

LEMMA UpdateDQRuleSound ==
    ASSUME NEW d, Sound(d), NEW r, NEW config, NEW active, NEW e, e = UpdateDQRule(d, r, config, active),
           r \in DOMAIN d.rules, config \in RuleKind \cup {None},
           active \in BOOLEAN \cup {None}
    PROVE  Sound(e) /\ SourcesKept(d, e) /\ ScopesKept(d, e)
<1>1. /\ IsDatabase(e)
      /\ e.sources = d.sources /\ e.objects = d.objects /\ e.columns = d.columns
      /\ e.terms = d.terms /\ e.tags = d.tags /\ e.columnTags = d.columnTags
      /\ e.mappings = d.mappings /\ e.edges = d.edges /\ e.changes = d.changes
      /\ e.results = d.results
      /\ e.rules = [d.rules EXCEPT ![r].config = Given(config, @),
                            ![r].active = Given(active, @)]
    BY DEF UpdateDQRule, Sound, IsDatabase
<1>5. /\ DOMAIN e.rules = DOMAIN d.rules
      /\ \A x \in DOMAIN d.rules :
            /\ e.rules[x] \in RuleRow
            /\ e.rules[x].source = d.rules[x].source
            /\ e.rules[x].object = d.rules[x].object
            /\ e.rules[x].column = d.rules[x].column
    BY <1>1 DEF Sound, DatabaseOK, IsTable, RuleRow, Given
<1>2. DatabaseOK(e)
    BY <1>1, <1>5 DEF Sound, DatabaseOK, IsTable
<1>3. ForeignKeysHold(e)
    BY <1>1, <1>5 DEF Sound, ForeignKeysHold
<1>4. NamesUnique(e)
    BY <1>1, <1>5 DEF Sound, NamesUnique
<1>6. SourcesKept(d, e)
    BY <1>1, PartSame DEF Sound, DatabaseOK, SourcesKept
<1>7. ScopesKept(d, e)
    BY <1>1, <1>5 DEF Sound, DatabaseOK, ScopesKept
<1> QED
    BY <1>1, <1>2, <1>3, <1>4, <1>6, <1>7 DEF Sound

LEMMA CreateDQResultSound ==
    ASSUME NEW d, Sound(d), NEW row, NEW e, e = CreateDQResult(d, row),
           row \in ResultRow, row.rule \in DOMAIN d.rules,
           row.column \in DOMAIN d.columns \cup {None}
    PROVE  Sound(e) /\ SourcesKept(d, e) /\ ScopesKept(d, e)
<1>1. /\ IsDatabase(e)
      /\ e.sources = d.sources /\ e.objects = d.objects /\ e.columns = d.columns
      /\ e.terms = d.terms /\ e.tags = d.tags /\ e.rules = d.rules
      /\ e.columnTags = d.columnTags /\ e.mappings = d.mappings /\ e.edges = d.edges
      /\ e.changes = d.changes
      /\ e.results = d.results \cup {row}
    BY DEF CreateDQResult, Sound, IsDatabase
<1>2. DatabaseOK(e)
    BY <1>1 DEF Sound, DatabaseOK, IsTable
<1>3. ForeignKeysHold(e)
    BY <1>1 DEF Sound, ForeignKeysHold
<1>4. NamesUnique(e)
    BY <1>1 DEF Sound, NamesUnique
<1>6. SourcesKept(d, e)
    BY <1>1, PartSame DEF Sound, DatabaseOK, SourcesKept
<1>7. ScopesKept(d, e)
    BY <1>1 DEF Sound, DatabaseOK, ScopesKept
<1> QED
    BY <1>1, <1>2, <1>3, <1>4, <1>6, <1>7 DEF Sound

(***************************************************************************)
(* Recursion.  A function that is defined by recursion on the number before *)
(* is there and obeys its definition; a set that contains 0 and with every *)
(* number the next one contains them all.                                  *)
(***************************************************************************)
LEMMA LeastNat ==
    ASSUME NEW T, T \subseteq Nat, T # {}
    PROVE  \E n \in T : \A m \in T : n <= m
<1>1. PICK n \in T : \A m \in T : <<m, n>> \notin OpToRel(<, Nat)
    BY NatLessThanWellFounded, WFMin
<1>2. ASSUME NEW m \in T PROVE n <= m
    <2>1. ~(m < n)
        BY <1>1, Zenon DEF OpToRel
    <2> QED
        BY <2>1
<1> QED
    BY <1>2

\* Induction, for a set instead of a predicate.
LEMMA NatSetInduction ==
    ASSUME NEW T, 0 \in T, \A n \in T : n \in Nat => n + 1 \in T
    PROVE  Nat \subseteq T
<1> SUFFICES ASSUME Nat \ T # {} PROVE FALSE
    OBVIOUS
<1>1. PICK n \in Nat \ T : \A m \in Nat \ T : n <= m
    BY LeastNat
<1>2. n # 0
    BY <1>1
<1> DEFINE m == n - 1
<1>3. m \in Nat /\ m \in T /\ m + 1 = n
    BY <1>1, <1>2
<1> HIDE DEF m
<1> QED
    BY <1>3, <1>1

Follows(g, n, b, G) ==
    \A i \in 0 .. n : g[i] = IF i <= 1 THEN b ELSE G[g[i - 1]]

\* A function that is defined by recursion on the number before is there, and
\* obeys its definition.
LEMMA RecursionHolds ==
    ASSUME NEW S, NEW b \in S, NEW G \in [S -> S]
    PROVE  \E f \in [Nat -> S] :
              f = [n \in Nat |-> IF n <= 1 THEN b ELSE G[f[n - 1]]]
<1> DEFINE T == {n \in Nat : \E g \in [0 .. n -> S] : Follows(g, n, b, G)}
<1>1. 0 \in T
    <2>1. [i \in 0 .. 0 |-> b] \in [0 .. 0 -> S] /\ Follows([i \in 0 .. 0 |-> b], 0, b, G)
        BY DEF Follows
    <2> QED
        BY <2>1
<1>2. ASSUME NEW n \in T PROVE n + 1 \in T
    <2>1. PICK g \in [0 .. n -> S] : Follows(g, n, b, G)
        OBVIOUS
    <2> DEFINE v == IF n + 1 <= 1 THEN b ELSE G[g[n]]
               h == [i \in 0 .. n + 1 |-> IF i = n + 1 THEN v ELSE g[i]]
    <2>2. n \in Nat /\ v \in S
        OBVIOUS
    <2>3. h \in [0 .. n + 1 -> S]
        <3> HIDE DEF v
        <3> QED
            BY <2>2
    <2>4. Follows(h, n + 1, b, G)
        <3>1. ASSUME NEW i \in 0 .. n PROVE h[i] = IF i <= 1 THEN b ELSE G[h[i - 1]]
            <4>1. h[i] = g[i]
                BY <2>2
            <4>2. i > 1 => h[i - 1] = g[i - 1]
                BY <2>2
            <4> HIDE DEF h, v
            <4> QED
                BY <2>1, <2>2, <4>1, <4>2 DEF Follows
        <3>2. h[n + 1] = v /\ h[n] = g[n]
            BY <2>2
        <3> HIDE DEF h
        <3> QED
            BY <2>2, <3>1, <3>2 DEF Follows
    <2> QED
        BY <2>2, <2>3, <2>4
<1>3. \A n \in Nat : \E g \in [0 .. n -> S] : Follows(g, n, b, G)
    <2>1. Nat \subseteq T
        <3> HIDE DEF T
        <3> QED
            BY <1>1, <1>2, NatSetInduction
    <2> QED
        BY <2>1
<1>4. ASSUME NEW m \in Nat, NEW g \in [0 .. m -> S], Follows(g, m, b, G),
             NEW n \in Nat, m <= n, NEW h \in [0 .. n -> S], Follows(h, n, b, G)
      PROVE  g[m] = h[m]
    <2> DEFINE U == {i \in Nat : i <= m => g[i] = h[i]}
    <2>1. 0 \in U
        BY <1>4 DEF Follows
    <2>2. ASSUME NEW i \in U PROVE i + 1 \in U
        <3>1. CASE i + 1 <= m
            <4>1. g[i] = h[i]
                BY <2>2, <3>1
            <4>2. i + 1 \in 0 .. m /\ i + 1 \in 0 .. n /\ (i + 1) - 1 = i
                BY <3>1, <1>4
            <4>3. g[i + 1] = IF i + 1 <= 1 THEN b ELSE G[g[i]]
                BY <1>4, <4>2 DEF Follows
            <4>4. h[i + 1] = IF i + 1 <= 1 THEN b ELSE G[h[i]]
                BY <1>4, <4>2 DEF Follows
            <4> QED
                BY <4>1, <4>3, <4>4
        <3> QED
            BY <3>1
    <2>3. Nat \subseteq U
        <3> HIDE DEF U
        <3> QED
            BY <2>1, <2>2, NatSetInduction
    <2> QED
        BY <2>3
<1> DEFINE to(n) == CHOOSE g \in [0 .. n -> S] : Follows(g, n, b, G)
           f == [n \in Nat |-> to(n)[n]]
<1>5. \A n \in Nat : to(n) \in [0 .. n -> S] /\ Follows(to(n), n, b, G)
    BY <1>3
<1> HIDE DEF to
<1>6. f \in [Nat -> S]
    BY <1>5
<1>7. ASSUME NEW n \in Nat PROVE f[n] = IF n <= 1 THEN b ELSE G[f[n - 1]]
    <2>1. to(n)[n] = IF n <= 1 THEN b ELSE G[to(n)[n - 1]]
        BY <1>5 DEF Follows
    <2>2. n > 1 => to(n - 1)[n - 1] = to(n)[n - 1]
        <3> SUFFICES ASSUME n > 1 PROVE to(n - 1)[n - 1] = to(n)[n - 1]
            OBVIOUS
        <3>1. n - 1 \in Nat /\ n - 1 <= n
            OBVIOUS
        <3> QED
            BY <1>4, <1>5, <3>1
    <2>3. n > 1 => f[n - 1] = to(n - 1)[n - 1]
        OBVIOUS
    <2>4. f[n] = to(n)[n]
        OBVIOUS
    <2> QED
        BY <2>1, <2>2, <2>3, <2>4
<1>8. f = [n \in Nat |-> IF n <= 1 THEN b ELSE G[f[n - 1]]]
    <2>1. f = [n \in Nat |-> f[n]]
        OBVIOUS
    <2> HIDE DEF f
    <2> QED
        BY <1>7, <2>1
<1> QED
    BY <1>6, <1>8

(***************************************************************************)
(* The lineage queries: the edges at each distance.                        *)
(***************************************************************************)
LEMMA DownwardLevelIs ==
    ASSUME NEW d, NEW c, NEW n \in Nat
    PROVE  /\ DownwardLevel(d, c)[n] \subseteq d.edges
           /\ n <= 1 => DownwardLevel(d, c)[n] = {e \in d.edges : e.from = c}
           /\ n > 1 => DownwardLevel(d, c)[n] =
                 {e \in d.edges : \E f \in DownwardLevel(d, c)[n - 1] : e.from = f.to}
<1> DEFINE first == {e \in d.edges : e.from = c}
           below(L) == {e \in d.edges : \E f \in L : e.from = f.to}
           S == SUBSET d.edges
           G == [L \in S |-> below(L)]
           level == DownwardLevel(d, c)
<1>1. first \in S /\ G \in [S -> S] /\ \A L \in S : G[L] = below(L)
    OBVIOUS
<1> HIDE DEF first, below, S, G, level
<1>2. PICK f \in [Nat -> S] :
            f = [m \in Nat |-> IF m <= 1 THEN first ELSE G[f[m - 1]]]
    BY <1>1, RecursionHolds
<1>3. ASSUME NEW m \in Nat PROVE f[m] = IF m <= 1 THEN first ELSE below(f[m - 1])
    <2>1. f[m] = IF m <= 1 THEN first ELSE G[f[m - 1]]
        BY <1>2, Zenon
    <2>2. m > 1 => m - 1 \in Nat
        OBVIOUS
    <2>3. m > 1 => G[f[m - 1]] = below(f[m - 1])
        BY <1>1, <2>2
    <2> QED
        BY <2>1, <2>3
<1>4. f = [m \in Nat |-> IF m <= 1 THEN first ELSE below(f[m - 1])]
    <2>1. f = [m \in Nat |-> f[m]]
        BY <1>2
    <2> QED
        BY <1>3, <2>1, Zenon
<1>5. level = [m \in Nat |-> IF m <= 1 THEN first ELSE below(level[m - 1])]
    BY <1>4, Zenon DEF level, DownwardLevel, first, below
<1>6. level[n] = IF n <= 1 THEN first ELSE below(level[n - 1])
    BY <1>5, Zenon
<1> QED
    BY <1>6 DEF level, first, below

LEMMA UpwardLevelIs ==
    ASSUME NEW d, NEW c, NEW n \in Nat
    PROVE  /\ UpwardLevel(d, c)[n] \subseteq d.edges
           /\ n <= 1 => UpwardLevel(d, c)[n] = {e \in d.edges : e.to = c}
           /\ n > 1 => UpwardLevel(d, c)[n] =
                 {e \in d.edges : \E f \in UpwardLevel(d, c)[n - 1] : e.to = f.from}
<1> DEFINE first == {e \in d.edges : e.to = c}
           above(L) == {e \in d.edges : \E f \in L : e.to = f.from}
           S == SUBSET d.edges
           G == [L \in S |-> above(L)]
           level == UpwardLevel(d, c)
<1>1. first \in S /\ G \in [S -> S] /\ \A L \in S : G[L] = above(L)
    OBVIOUS
<1> HIDE DEF first, above, S, G, level
<1>2. PICK f \in [Nat -> S] :
            f = [m \in Nat |-> IF m <= 1 THEN first ELSE G[f[m - 1]]]
    BY <1>1, RecursionHolds
<1>3. ASSUME NEW m \in Nat PROVE f[m] = IF m <= 1 THEN first ELSE above(f[m - 1])
    <2>1. f[m] = IF m <= 1 THEN first ELSE G[f[m - 1]]
        BY <1>2, Zenon
    <2>2. m > 1 => m - 1 \in Nat
        OBVIOUS
    <2>3. m > 1 => G[f[m - 1]] = above(f[m - 1])
        BY <1>1, <2>2
    <2> QED
        BY <2>1, <2>3
<1>4. f = [m \in Nat |-> IF m <= 1 THEN first ELSE above(f[m - 1])]
    <2>1. f = [m \in Nat |-> f[m]]
        BY <1>2
    <2> QED
        BY <1>3, <2>1, Zenon
<1>5. level = [m \in Nat |-> IF m <= 1 THEN first ELSE above(level[m - 1])]
    BY <1>4, Zenon DEF level, UpwardLevel, first, above
<1>6. level[n] = IF n <= 1 THEN first ELSE above(level[n - 1])
    BY <1>5, Zenon
<1> QED
    BY <1>6 DEF level, first, above

\* The queries return edges of the table.
LEMMA LineageAreEdges ==
    ASSUME NEW d, NEW c
    PROVE  GetLineageDownward(d, c) \cup GetLineageUpward(d, c) \subseteq d.edges
<1>1. \A n \in 1 .. MaxDepth : /\ DownwardLevel(d, c)[n] \subseteq d.edges
                               /\ UpwardLevel(d, c)[n] \subseteq d.edges
    BY DownwardLevelIs, UpwardLevelIs
<1> QED
    BY <1>1 DEF GetLineageDownward, GetLineageUpward

(***************************************************************************)
(* The impact analysis.  The loop is a search in breadth: the queue is sorted *)
(* by distance, its back is at most one further than its front, and whatever *)
(* left the queue has all it leads to in the result.                       *)
(***************************************************************************)
\* The list of a finite set has each of its elements once.
LEMMA ListOfSet ==
    ASSUME NEW S, IsFiniteSet(S)
    PROVE  /\ SetToSeq(S) \in Seq(S) /\ Len(SetToSeq(S)) = Cardinality(S)
           /\ Cardinality(S) \in Nat
           /\ \A x \in S : \E i \in 1 .. Cardinality(S) : SetToSeq(S)[i] = x
           /\ \A i, j \in 1 .. Cardinality(S) :
                 SetToSeq(S)[i] = SetToSeq(S)[j] => i = j
<1> DEFINE n == Cardinality(S)
<1>1. n \in Nat /\ ExistsBijection(1 .. n, S)
    BY FS_CardinalityType
<1>2. \E f \in [1 .. n -> S] : IsInjective(f)
    BY <1>1 DEF ExistsBijection, Bijection, Injection
<1>3. SetToSeq(S) \in [1 .. n -> S] /\ IsInjective(SetToSeq(S))
    BY <1>2 DEF SetToSeq
<1>4. Cardinality(1 .. n) = n
    BY <1>1, FS_Interval
<1>5. SetToSeq(S) \in Injection(1 .. n, S)
    BY <1>3 DEF Injection
<1>6. SetToSeq(S) \in Surjection(1 .. n, S)
    BY <1>4, <1>5, FS_Injection
<1>7. \A x \in S : \E i \in 1 .. n : SetToSeq(S)[i] = x
    BY <1>6 DEF Surjection
<1>8. SetToSeq(S) \in Seq(S) /\ Len(SetToSeq(S)) = n
    BY <1>1, <1>3
<1>9. \A i, j \in 1 .. n : SetToSeq(S)[i] = SetToSeq(S)[j] => i = j
    BY <1>3 DEF IsInjective
<1> QED
    BY <1>1, <1>7, <1>8, <1>9

\* The nodes n edges below c.
Below(d, c, n) == {e.to : e \in DownwardLevel(d, c)[n]}

LEMMA OneEdgeFurther ==
    ASSUME NEW d, NEW c, NEW e \in d.edges
    PROVE  /\ e.from = c => e.to \in Below(d, c, 1)
           /\ \A n \in Nat \ {0} : e.from \in Below(d, c, n)
                                     => e.to \in Below(d, c, n + 1)
<1>1. e.from = c => e \in DownwardLevel(d, c)[1]
    BY DownwardLevelIs
<1>2. ASSUME NEW n \in Nat \ {0}, e.from \in Below(d, c, n)
      PROVE  e \in DownwardLevel(d, c)[n + 1]
    <2>1. PICK f \in DownwardLevel(d, c)[n] : f.to = e.from
        BY <1>2 DEF Below
    <2>2. n + 1 \in Nat /\ n + 1 > 1 /\ (n + 1) - 1 = n
        OBVIOUS
    <2>3. DownwardLevel(d, c)[n + 1] =
            {x \in d.edges : \E g \in DownwardLevel(d, c)[(n + 1) - 1] : x.from = g.to}
        BY <2>2, DownwardLevelIs
    <2> QED
        BY <2>1, <2>2, <2>3
<1> QED
    BY <1>1, <1>2 DEF Below

\* What the loop of the impact analysis may come to.
Places(E, c) == {c} \cup {e.to : e \in E}

Walk(d, c, E, q, b) ==
    /\ q \in Seq(Places(E, c))
    /\ DOMAIN b \subseteq Places(E, c) /\ b \in [DOMAIN b -> Nat]
    /\ c \in DOMAIN b /\ b[c] = 0
    /\ \A t \in DOMAIN b : t # c => b[t] > 0 /\ t \in Below(d, c, b[t])
    /\ \A i \in 1 .. Len(q) : q[i] \in DOMAIN b
    /\ \A i, j \in 1 .. Len(q) : i < j => q[i] # q[j] /\ b[q[i]] <= b[q[j]]
    /\ q # <<>> => \A t \in DOMAIN b : b[t] <= b[q[1]] + 1
    /\ \A e \in E : \/ e.from \notin DOMAIN b
                    \/ \E i \in 1 .. Len(q) : q[i] = e.from
                    \/ e.to \in DOMAIN b /\ b[e.to] <= b[e.from] + 1

\* found is what is new at the ends of the edges out of n, p lists it, and a
\* is b with the distances of what was found.
NewBehind(E, n, b, found) ==
    \A x : x \in found <=> x \notin DOMAIN b /\ \E e \in E : e.from = n /\ e.to = x

ListOf(p, found) ==
    /\ p \in Seq(found)
    /\ \A x \in found : \E i \in 1 .. Len(p) : p[i] = x
    /\ \A i, j \in 1 .. Len(p) : p[i] = p[j] => i = j

Grown(b, found, k, a) ==
    /\ a = [x \in DOMAIN a |-> a[x]] /\ DOMAIN a = found \cup DOMAIN b
    /\ \A x \in found : a[x] = k
    /\ \A x \in DOMAIN b : a[x] = b[x]

\* One turn: the front of the queue leaves, and what is new behind it joins
\* at the back.
LEMMA WalkGoesOn ==
    ASSUME NEW d, NEW c, NEW E, E \subseteq d.edges, NEW q, NEW b,
           Walk(d, c, E, q, b), q # <<>>,
           NEW found, NewBehind(E, q[1], b, found), NEW p, ListOf(p, found),
           NEW a, Grown(b, found, b[q[1]] + 1, a)
    PROVE  Walk(d, c, E, Tail(q) \o p, a)
<1> DEFINE n == q[1]
           l == Len(q) - 1
           r == Tail(q) \o p
<1>1. /\ l \in Nat /\ Len(q) = l + 1 /\ n \in DOMAIN b /\ b[n] \in Nat
      /\ Tail(q) \in Seq(Places(E, c)) /\ Len(Tail(q)) = l
      /\ \A i \in 1 .. l : Tail(q)[i] = q[i + 1]
    <2>1. Len(q) \in Nat \ {0}
        BY EmptySeq DEF Walk
    <2> QED
        BY <2>1, HeadTailProperties DEF Walk
<1>2. found \cap DOMAIN b = {} /\ found \subseteq Places(E, c) /\ p \in Seq(found)
    BY DEF Places, NewBehind, ListOf
<1>3. /\ r \in Seq(Places(E, c)) /\ Len(r) = l + Len(p) /\ Len(p) \in Nat
      /\ \A i \in 1 .. l : r[i] = q[i + 1]
      /\ \A i \in l + 1 .. l + Len(p) : r[i] = p[i - l]
    <2>1. p \in Seq(Places(E, c)) /\ Len(p) \in Nat
        BY <1>2, SeqMonotonic, LenProperties
    <2> QED
        BY <1>1, <2>1, ConcatProperties
<1> HIDE DEF r, l
<1>4. /\ DOMAIN a = found \cup DOMAIN b
      /\ \A t \in DOMAIN b : a[t] = b[t]
      /\ \A t \in found : a[t] = b[n] + 1
      /\ a = [x \in DOMAIN a |-> a[x]]
    BY DEF Grown
<1>5. \A i \in 1 .. Len(p) : p[i] \in found
    BY <1>2, ElementOfSeq
<1>6. \A i \in 1 .. l : r[i] \in DOMAIN b /\ r[i] = q[i + 1] /\ i + 1 \in 1 .. Len(q)
    BY <1>1, <1>3 DEF Walk
<1>7. \A i \in l + 1 .. l + Len(p) : r[i] \in found /\ i - l \in 1 .. Len(p)
    <2> SUFFICES ASSUME NEW i \in l + 1 .. l + Len(p)
                 PROVE  r[i] \in found /\ i - l \in 1 .. Len(p)
        OBVIOUS
    <2>1. i - l \in 1 .. Len(p)
        BY <1>1, <1>3
    <2> QED
        BY <1>3, <1>5, <2>1
<1>8. \A t \in DOMAIN b : b[t] \in Nat /\ b[t] <= b[n] + 1
    BY DEF Walk
<1>9. DOMAIN a \subseteq Places(E, c) /\ a \in [DOMAIN a -> Nat] /\ c \in DOMAIN a /\ a[c] = 0
    <2>1. \A t \in DOMAIN a : a[t] \in Nat
        BY <1>1, <1>4, <1>8
    <2> QED
        BY <1>2, <1>4, <2>1 DEF Walk
<1>10. ASSUME NEW t \in DOMAIN a, t # c PROVE a[t] > 0 /\ t \in Below(d, c, a[t])
    <2>1. CASE t \in DOMAIN b
        BY <2>1, <1>4, <1>10 DEF Walk
    <2>2. CASE t \in found
        <3>1. PICK e \in d.edges : e.from = n /\ e.to = t
            BY <2>2 DEF NewBehind
        <3>2. CASE n = c
            <4>1. b[n] = 0 /\ a[t] = 1
                BY <3>2, <2>2, <1>4 DEF Walk
            <4> QED
                BY <3>1, <3>2, <4>1, OneEdgeFurther
        <3>3. CASE n # c
            <4>1. b[n] > 0 /\ n \in Below(d, c, b[n])
                BY <1>1, <3>3 DEF Walk
            <4>2. b[n] \in Nat \ {0} /\ e.from \in Below(d, c, b[n])
                BY <1>1, <3>1, <4>1
            <4>3. e.to \in Below(d, c, b[n] + 1)
                BY <4>2, OneEdgeFurther
            <4> QED
                BY <1>1, <1>4, <2>2, <3>1, <4>3
        <3> QED
            BY <3>2, <3>3
    <2> QED
        BY <1>4, <2>1, <2>2
<1>11. \A i \in 1 .. Len(r) : r[i] \in DOMAIN a
    BY <1>1, <1>3, <1>4, <1>6, <1>7
<1>12. ASSUME NEW i \in 1 .. Len(r), NEW j \in 1 .. Len(r), i < j
       PROVE  r[i] # r[j] /\ a[r[i]] <= a[r[j]]
    <2>1. CASE j <= l
        <3>1. i \in 1 .. l /\ j \in 1 .. l
            BY <1>1, <1>12, <2>1
        <3>2. q[i + 1] # q[j + 1] /\ b[q[i + 1]] <= b[q[j + 1]]
            <4>1. i + 1 \in 1 .. Len(q) /\ j + 1 \in 1 .. Len(q) /\ i + 1 < j + 1
                BY <1>12, <3>1, <1>6
            <4> QED
                BY <4>1 DEF Walk
        <3> QED
            BY <1>4, <1>6, <3>1, <3>2
    <2>2. CASE i <= l /\ j > l
        <3>1. r[i] \in DOMAIN b /\ r[j] \in found
            BY <1>1, <1>3, <1>6, <1>7, <1>12, <2>2
        <3> QED
            BY <1>2, <1>4, <1>8, <3>1
    <2>3. CASE i > l
        <3>1. /\ i \in l + 1 .. l + Len(p) /\ j \in l + 1 .. l + Len(p) /\ i - l # j - l
            BY <1>1, <1>3, <1>12, <2>3
        <3>2. p[i - l] # p[j - l]
            BY <1>7, <3>1 DEF ListOf
        <3>3. a[r[i]] = b[n] + 1 /\ a[r[j]] = b[n] + 1
            BY <1>4, <1>7, <3>1
        <3> QED
            BY <1>1, <1>3, <3>1, <3>2, <3>3
    <2> QED
        BY <1>1, <2>1, <2>2, <2>3
<1>13. ASSUME r # <<>>, NEW t \in DOMAIN a PROVE a[t] <= a[r[1]] + 1
    <2>1. a[t] \in Nat /\ a[t] <= b[n] + 1
        BY <1>1, <1>4, <1>8
    <2>2. 1 \in 1 .. Len(r)
        BY <1>3, <1>13, EmptySeq
    <2>3. a[r[1]] \in Nat /\ b[n] <= a[r[1]]
        <3>1. CASE l > 0
            <4>0. 1 \in 1 .. l /\ 1 + 1 = 2
                BY <1>1, <3>1
            <4>1. r[1] = q[2] /\ r[1] \in DOMAIN b /\ 2 \in 1 .. Len(q) /\ 1 \in 1 .. Len(q)
                BY <1>1, <1>6, <4>0
            <4>2. \A i, j \in 1 .. Len(q) : i < j => b[q[i]] <= b[q[j]]
                BY DEF Walk
            <4>3. b[q[1]] <= b[q[2]]
                BY <4>1, <4>2
            <4> QED
                BY <1>4, <1>8, <4>1, <4>3
        <3>2. CASE l = 0
            <4>1. 1 \in l + 1 .. l + Len(p)
                BY <1>3, <2>2, <3>2
            <4>2. r[1] \in found
                BY <1>7, <4>1
            <4> QED
                BY <1>1, <1>4, <4>2
        <3> QED
            BY <1>1, <3>1, <3>2
    <2> QED
        BY <1>1, <2>1, <2>3
<1>14. ASSUME NEW e \in E, e.from \in DOMAIN a, \A i \in 1 .. Len(r) : r[i] # e.from
       PROVE  e.to \in DOMAIN a /\ a[e.to] <= a[e.from] + 1
    <2>1. e.from \notin found
        <3> SUFFICES ASSUME e.from \in found PROVE FALSE
            OBVIOUS
        <3>1. PICK k \in 1 .. Len(p) : p[k] = e.from
            BY DEF ListOf
        <3>2. k + l \in l + 1 .. l + Len(p) /\ (k + l) - l = k /\ k + l \in 1 .. Len(r)
            BY <1>1, <1>3
        <3>3. r[k + l] = p[k]
            BY <1>3, <3>2
        <3> QED
            BY <1>14, <3>1, <3>2, <3>3
    <2>2. e.from \in DOMAIN b
        BY <1>4, <1>14, <2>1
    <2>3. CASE e.from = n
        <3>1. e.to \in found \/ e.to \in DOMAIN b
            BY <2>3 DEF NewBehind
        <3> QED
            BY <1>1, <1>4, <1>8, <2>2, <2>3, <3>1
    <2>4. CASE e.from # n
        <3>1. \A i \in 1 .. Len(q) : q[i] # e.from
            <4> SUFFICES ASSUME NEW i \in 1 .. Len(q), q[i] = e.from PROVE FALSE
                OBVIOUS
            <4>1. i # 1
                BY <2>4
            <4>2. i - 1 \in 1 .. l /\ (i - 1) + 1 = i /\ i - 1 \in 1 .. Len(r)
                BY <1>1, <1>3, <4>1
            <4>3. r[i - 1] = q[i]
                BY <1>3, <4>2
            <4> QED
                BY <1>14, <4>2, <4>3
        <3>2. e.to \in DOMAIN b /\ b[e.to] <= b[e.from] + 1
            BY <2>2, <3>1 DEF Walk
        <3> QED
            BY <1>4, <2>2, <3>2
    <2> QED
        BY <2>3, <2>4
<1> HIDE DEF n
<1>15. Walk(d, c, E, r, a)
    BY <1>3, <1>9, <1>10, <1>11, <1>12, <1>13, <1>14 DEF Walk
<1> QED
    BY <1>15 DEF r

LEMMA PlacesCounted ==
    ASSUME NEW E, NEW c, IsFiniteSet(E)
    PROVE  /\ IsFiniteSet(Places(E, c)) /\ Cardinality(E) \in Nat
           /\ Cardinality(Places(E, c)) \in Nat
           /\ Cardinality(Places(E, c)) <= Cardinality(E) + 1
<1> DEFINE T == {e.to : e \in E}
<1>1. [e \in E |-> e.to] \in Surjection(E, T)
    BY DEF Surjection
<1>2. IsFiniteSet(T) /\ Cardinality(T) <= Cardinality(E)
    BY <1>1, FS_Surjection
<1>3. Cardinality(E) \in Nat /\ Cardinality(T) \in Nat
    BY <1>2, FS_CardinalityType
<1>4. Places(E, c) = T \cup {c}
    BY DEF Places
<1> HIDE DEF T
<1>5. /\ IsFiniteSet(T \cup {c})
      /\ Cardinality(T \cup {c}) = IF c \in T THEN Cardinality(T) ELSE Cardinality(T) + 1
    BY <1>2, FS_AddElement
<1> QED
    BY <1>2, <1>3, <1>4, <1>5

IsTurn(s) == s = [queue |-> s.queue, best |-> s.best]

\* The state of the loop after i turns: i nodes have left the queue.
Turned(d, c, E, s, i) ==
    /\ IsTurn(s) /\ Walk(d, c, E, s.queue, s.best)
    /\ Cardinality(DOMAIN s.best) \in Nat
    /\ s.queue # <<>> => Len(s.queue) = Cardinality(DOMAIN s.best) - i

LEMMA TurnIsWalk ==
    ASSUME NEW d, NEW c, NEW E, E \subseteq d.edges, IsFiniteSet(E),
           NEW s, IsTurn(s), Walk(d, c, E, s.queue, s.best), s.queue # <<>>,
           NEW t, t = ImpactStep(E, s)
    PROVE  /\ IsTurn(t) /\ Walk(d, c, E, t.queue, t.best)
           /\ \A i \in Nat : Turned(d, c, E, s, i) => Turned(d, c, E, t, i + 1)
<1> DEFINE q == s.queue
           b == s.best
           found == {x \in {e.to : e \in {f \in E : f.from = q[1]}} : x \notin DOMAIN b}
           p == SetToSeq(found)
           a == [x \in found \cup DOMAIN b |-> IF x \in found THEN b[q[1]] + 1 ELSE b[x]]
<1>1. \A x \in DOMAIN b : b[x] \in Nat /\ b[x] <= b[q[1]] + 1
    BY DEF Walk
<1>2. q \in Seq(Places(E, c)) /\ Head(q) = q[1] /\ q[1] \in DOMAIN b
    <2>1. q \in Seq(Places(E, c)) /\ Len(q) \in Nat \ {0}
        BY EmptySeq DEF Walk
    <2>2. 1 \in 1 .. Len(q)
        BY <2>1
    <2> QED
        BY <2>1, <2>2 DEF Walk
<1>3. found = {x \in {e.to : e \in {f \in E : f.from = Head(q)}} :
                  ~(x \in DOMAIN b /\ b[x] <= b[Head(q)] + 1)}
    BY <1>1, <1>2
<1>4. t = [queue |-> Tail(q) \o p, best |-> Over([x \in found |-> b[q[1]] + 1], b)]
    BY <1>2, <1>3, Zenon DEF ImpactStep
<1>5. Over([x \in found |-> b[q[1]] + 1], b) = a
    BY DEF Over
<1>6. IsTurn(t) /\ t.queue = Tail(q) \o p /\ t.best = a
    BY <1>4, <1>5 DEF IsTurn
<1>7. IsFiniteSet(found) /\ IsFiniteSet(DOMAIN b)
    <2>1. found \subseteq Places(E, c) /\ DOMAIN b \subseteq Places(E, c)
        BY DEF Places, Walk
    <2> QED
        BY <2>1, PlacesCounted, FS_Subset
<1> HIDE DEF found
<1>8. ListOf(p, found) /\ Len(p) = Cardinality(found) /\ Len(p) \in Nat
    <2>1. /\ p \in Seq(found) /\ Len(p) = Cardinality(found)
          /\ Cardinality(found) \in Nat
          /\ \A x \in found : \E i \in 1 .. Cardinality(found) : p[i] = x
          /\ \A i, j \in 1 .. Cardinality(found) : p[i] = p[j] => i = j
        BY <1>7, ListOfSet
    <2> HIDE DEF p
    <2> QED
        BY <2>1 DEF ListOf
<1> HIDE DEF p
<1>9. Walk(d, c, E, Tail(q) \o p, a)
    <2>1. NewBehind(E, q[1], b, found)
        BY DEF found, NewBehind
    <2>2. Grown(b, found, b[q[1]] + 1, a)
        BY DEF found, Grown
    <2>3. Walk(d, c, E, q, b) /\ q # <<>>
        OBVIOUS
    <2> HIDE DEF q, b, a
    <2> QED
        BY <1>8, <2>1, <2>2, <2>3, WalkGoesOn
<1>10. /\ Cardinality(DOMAIN a) = Cardinality(DOMAIN b) + Cardinality(found)
       /\ Cardinality(DOMAIN b) \in Nat
    <2>1. DOMAIN a = DOMAIN b \cup found /\ DOMAIN b \cap found = {}
        BY DEF found
    <2>2. Cardinality(DOMAIN b \cup found) =
             Cardinality(DOMAIN b) + Cardinality(found) - Cardinality(DOMAIN b \cap found)
        BY <1>7, FS_Union
    <2>3. Cardinality(DOMAIN b) \in Nat /\ Cardinality(found) \in Nat
        BY <1>7, FS_CardinalityType
    <2>4. Cardinality(DOMAIN b \cap found) = 0
        BY <2>1, FS_EmptySet
    <2> HIDE DEF a, b
    <2> QED
        BY <2>1, <2>2, <2>3, <2>4
<1>11. Len(Tail(q) \o p) = Len(q) - 1 + Len(p) /\ Len(q) \in Nat
    <2>1. p \in Seq(Places(E, c))
        <3>1. found \subseteq Places(E, c)
            BY DEF found, Places
        <3> QED
            BY <1>8, <3>1, SeqMonotonic DEF ListOf
    <2>2. Tail(q) \in Seq(Places(E, c)) /\ Len(Tail(q)) = Len(q) - 1 /\ Len(q) \in Nat
        BY <1>2, HeadTailProperties, LenProperties
    <2> QED
        BY <2>1, <2>2, ConcatProperties
<1>12. t.queue = Tail(q) \o p /\ t.best = a /\ s.queue = q /\ s.best = b
    BY <1>6
<1> HIDE DEF q, b, a
<1>13. Walk(d, c, E, t.queue, t.best)
    BY <1>9, <1>12
<1>14. ASSUME NEW i \in Nat, Turned(d, c, E, s, i) PROVE Turned(d, c, E, t, i + 1)
    <2>1. Len(q) = Cardinality(DOMAIN b) - i
        BY <1>12, <1>14 DEF Turned
    <2>2. Len(Tail(q) \o p) = Cardinality(DOMAIN a) - (i + 1) /\ Cardinality(DOMAIN a) \in Nat
        BY <1>8, <1>10, <1>11, <2>1
    <2> QED
        BY <1>6, <1>12, <1>13, <2>2 DEF Turned
<1> QED
    BY <1>6, <1>13, <1>14

\* The loop ends with an empty queue before it runs out of turns.
LEMMA ImpactIsWalked ==
    ASSUME NEW d, IsFiniteSet(d.edges), NEW c
    PROVE  \E b : /\ ImpactAnalysis(d, c) = Restrict(b, DOMAIN b \ {c})
                  /\ Walk(d, c, GetLineageDownward(d, c), <<>>, b)
<1> DEFINE E == GetLineageDownward(d, c)
           N == Places(E, c)
           S == {s \in [queue: Seq(N), best: UNION {[D -> Nat] : D \in SUBSET N}] :
                    IsTurn(s) /\ Walk(d, c, E, s.queue, s.best)}
           start == [queue |-> <<c>>, best |-> [x \in {c} |-> 0]]
           next(x) == IF x.queue = <<>> THEN x ELSE ImpactStep(E, x)
           G == [s \in S |-> next(s)]
           first == next(start)
           before(g, n) == IF n <= 1 THEN start ELSE g[n - 1]
           last == Cardinality(E) + 1
<1>1. E \subseteq d.edges /\ IsFiniteSet(E)
    <2>1. E \subseteq d.edges
        BY LineageAreEdges
    <2> QED
        BY <2>1, FS_Subset
<1> HIDE DEF E
<1>2. ASSUME NEW s, IsTurn(s), Walk(d, c, E, s.queue, s.best) PROVE s \in S
    <2>1. s.queue \in Seq(N) /\ s.best \in [DOMAIN s.best -> Nat] /\ DOMAIN s.best \subseteq N
        BY <1>2 DEF Walk
    <2>2. s.best \in UNION {[D -> Nat] : D \in SUBSET N}
        BY <2>1
    <2> QED
        BY <1>2, <2>1, <2>2 DEF IsTurn
<1>3. start \in S /\ start.queue # <<>>
    <2>1. IsTurn(start) /\ start.queue = <<c>> /\ start.best = [x \in {c} |-> 0]
        BY DEF IsTurn
    <2>2. Walk(d, c, E, start.queue, start.best)
        <3>1. c \in N
            BY DEF Places
        <3> HIDE DEF start
        <3> QED
            BY <2>1, <3>1 DEF Walk
    <2> HIDE DEF start
    <2> QED
        BY <1>2, <2>1, <2>2
<1>4. \A s \in S : next(s) \in S
    <2> SUFFICES ASSUME NEW s \in S, s.queue # <<>> PROVE ImpactStep(E, s) \in S
        OBVIOUS
    <2>1. IsTurn(s) /\ Walk(d, c, E, s.queue, s.best)
        OBVIOUS
    <2> HIDE DEF S
    <2>2. LET t == ImpactStep(E, s) IN IsTurn(t) /\ Walk(d, c, E, t.queue, t.best)
        BY <1>1, <2>1, TurnIsWalk
    <2> QED
        BY <1>2, <2>2
<1>5. first \in S /\ G \in [S -> S]
    <2> HIDE DEF S, start, next
    <2> QED
        BY <1>3, <1>4
<1>6. PICK f \in [Nat -> S] :
            f = [n \in Nat |-> IF n <= 1 THEN first ELSE G[f[n - 1]]]
    <2> HIDE DEF S, G, first
    <2> QED
        BY <1>5, RecursionHolds
<1>7. \A i \in Nat : f[i] = next(before(f, i)) /\ before(f, i) \in S
    <2> SUFFICES ASSUME NEW i \in Nat
                 PROVE  f[i] = next(before(f, i)) /\ before(f, i) \in S
        OBVIOUS
    <2>1. f[i] = IF i <= 1 THEN first ELSE G[f[i - 1]]
        BY <1>6, Zenon
    <2>2. i > 1 => i - 1 \in Nat
        OBVIOUS
    <2> HIDE DEF S, start, next
    <2> QED
        BY <1>3, <1>6, <2>1, <2>2
<1>8. f = [i \in Nat |-> next(before(f, i))]
    <2>1. f = [i \in Nat |-> f[i]]
        BY <1>6
    <2> HIDE DEF before, next
    <2> QED
        BY <1>7, <2>1, Zenon
<1> DEFINE run == CHOOSE g : g = [i \in Nat |-> next(before(g, i))]
<1>9. run = [i \in Nat |-> next(before(run, i))]
    <2> HIDE DEF before, next
    <2> QED
        BY <1>8, Zenon
<1>10. ImpactAnalysis(d, c) =
         Restrict(run[last].best, DOMAIN run[last].best \ {c})
    BY Zenon DEF ImpactAnalysis, E
<1> HIDE DEF run
<1> DEFINE Counted(x, n) == Turned(d, c, E, x, n)
           turns(n) == IF n <= 1 THEN 1 ELSE n
           T == {i \in Nat : Counted(run[i], turns(i))}
<1>11. ASSUME NEW s, NEW i \in Nat, Counted(s, i) PROVE Counted(next(s), i + 1)
    <2>1. CASE s.queue = <<>>
        <3>1. next(s) = s
            BY <2>1
        <3> HIDE DEF next
        <3> QED
            BY <1>11, <2>1, <3>1 DEF Turned
    <2>2. CASE s.queue # <<>>
        <3>1. IsTurn(s) /\ Walk(d, c, E, s.queue, s.best)
            BY <1>11 DEF Turned
        <3>2. Turned(d, c, E, ImpactStep(E, s), i + 1)
            BY <1>1, <1>11, <2>2, <3>1, TurnIsWalk
        <3> QED
            BY <2>2, <3>2
    <2> QED
        BY <2>1, <2>2
<1>12. Counted(start, 0)
    <2>1. start.queue = <<c>> /\ DOMAIN start.best = {c}
        OBVIOUS
    <2>2. Cardinality({c}) = 1 /\ Len(<<c>>) = 1
        BY FS_Singleton
    <2>3. IsTurn(start) /\ Walk(d, c, E, start.queue, start.best)
        BY <1>3
    <2> HIDE DEF start
    <2> QED
        BY <2>1, <2>2, <2>3 DEF Turned
<1>13. ASSUME NEW i \in Nat PROVE run[i] = next(before(run, i))
    <2> HIDE DEF before, next
    <2> QED
        BY <1>9, Zenon
<1> HIDE DEF Counted, next, start
<1>14. 0 \in T /\ 1 \in T
    <2>1. run[0] = next(start) /\ run[1] = next(start)
        BY <1>13
    <2>2. Counted(next(start), 0 + 1)
        BY <1>11, <1>12
    <2> QED
        BY <2>1, <2>2
<1>15. ASSUME NEW i \in T PROVE i + 1 \in T
    <2>1. CASE i = 0
        BY <1>14, <2>1
    <2>2. CASE i > 0
        <3>0. i \in Nat /\ i + 1 \in Nat /\ ~(i + 1 <= 1) /\ (i + 1) - 1 = i
            BY <2>2
        <3>1. turns(i) = i /\ turns(i + 1) = i + 1
            BY <3>0
        <3>4. before(run, i + 1) = run[i]
            BY <3>0
        <3>2. run[i + 1] = next(run[i])
            BY <1>13, <3>0, <3>4
        <3>3. Counted(run[i + 1], i + 1)
            BY <1>11, <3>0, <3>1, <3>2
        <3> QED
            BY <3>0, <3>1, <3>3
    <2> QED
        BY <2>1, <2>2
<1>16. last \in Nat /\ turns(last) = last
    BY <1>1, PlacesCounted
<1>17. Counted(run[last], last)
    <2>1. Nat \subseteq T
        <3> HIDE DEF T
        <3> QED
            BY <1>14, <1>15, NatSetInduction
    <2>2. Counted(run[last], turns(last))
        BY <1>16, <2>1
    <2> HIDE DEF last, turns
    <2> QED
        BY <1>16, <2>2
<1> DEFINE b == run[last].best
<1>18. /\ Walk(d, c, E, run[last].queue, b)
       /\ run[last].queue # <<>> => Len(run[last].queue) = Cardinality(DOMAIN b) - last
    BY <1>17 DEF Counted, Turned
<1>19. run[last].queue = <<>>
    <2> SUFFICES ASSUME run[last].queue # <<>> PROVE FALSE
        OBVIOUS
    <2>1. Len(run[last].queue) \in Nat \ {0}
        BY <1>18, EmptySeq DEF Walk
    <2>2. Cardinality(DOMAIN b) <= Cardinality(Places(E, c)) /\ Cardinality(DOMAIN b) \in Nat
        <3>1. DOMAIN b \subseteq Places(E, c)
            BY <1>18 DEF Walk
        <3> QED
            BY <1>1, <3>1, PlacesCounted, FS_Subset, FS_CardinalityType
    <2>3. Cardinality(Places(E, c)) \in Nat /\ Cardinality(Places(E, c)) <= last
        BY <1>1, PlacesCounted
    <2>4. Len(run[last].queue) = Cardinality(DOMAIN b) - last
        BY <1>18
    <2>5. Cardinality(DOMAIN b) <= last
        <3> HIDE DEF last, b
        <3> QED
            BY <1>16, <2>2, <2>3
    <2> HIDE DEF last, b
    <2> QED
        BY <1>16, <2>1, <2>2, <2>4, <2>5
<1> HIDE DEF last, b
<1>20. Walk(d, c, E, <<>>, b)
    BY <1>18, <1>19
<1>21. ImpactAnalysis(d, c) = Restrict(b, DOMAIN b \ {c})
    BY <1>10 DEF b
<1> QED
    BY <1>20, <1>21 DEF E

LEMMA ImpactsAreShortest ==
    ASSUME NEW d, IsFiniteSet(d.edges), NEW c, MaxDepth \in Nat
    PROVE  LET impact == ImpactAnalysis(d, c)
               at(n) == {e.to : e \in DownwardLevel(d, c)[n]}
           IN  /\ DOMAIN impact = (UNION {at(n) : n \in 1 .. MaxDepth}) \ {c}
               /\ \A t \in DOMAIN impact :
                     /\ t \in at(impact[t])
                     /\ \A n \in 1 .. impact[t] - 1 : t \notin at(n)
<1> DEFINE E == GetLineageDownward(d, c)
           at(n) == Below(d, c, n)
<1>1. PICK b : /\ ImpactAnalysis(d, c) = Restrict(b, DOMAIN b \ {c})
               /\ Walk(d, c, E, <<>>, b)
    BY ImpactIsWalked
<1>2. /\ c \in DOMAIN b /\ b[c] = 0 /\ b \in [DOMAIN b -> Nat]
      /\ DOMAIN b \subseteq Places(E, c)
      /\ \A t \in DOMAIN b : t # c => b[t] > 0 /\ t \in at(b[t])
      /\ \A e \in E : e.from \in DOMAIN b => e.to \in DOMAIN b /\ b[e.to] <= b[e.from] + 1
    <2>1. Len(<<>>) = 0
        BY EmptySeq
    <2>2. ~\E i \in 1 .. Len(<<>>) : TRUE
        BY <2>1
    <2> HIDE DEF E
    <2> QED
        BY <1>1, <2>2 DEF Walk
<1>3. \A n \in 1 .. MaxDepth : DownwardLevel(d, c)[n] \subseteq E
    BY DEF GetLineageDownward
<1>4. \A e \in E : \E n \in 1 .. MaxDepth : e \in DownwardLevel(d, c)[n]
    BY DEF GetLineageDownward
<1> HIDE DEF E
<1> DEFINE T == {n \in Nat : n + 1 <= MaxDepth =>
                    \A e \in DownwardLevel(d, c)[n + 1] :
                        e.to \in DOMAIN b /\ b[e.to] <= n + 1}
<1>5. 0 \in T
    <2> SUFFICES ASSUME 1 <= MaxDepth, NEW e \in DownwardLevel(d, c)[1]
                 PROVE  e.to \in DOMAIN b /\ b[e.to] <= 1
        OBVIOUS
    <2>1. e \in E
        BY <1>3
    <2>2. e.from = c
        BY DownwardLevelIs
    <2> QED
        BY <1>2, <2>1, <2>2
<1>6. ASSUME NEW n \in T PROVE n + 1 \in T
    <2> SUFFICES ASSUME (n + 1) + 1 <= MaxDepth, NEW e \in DownwardLevel(d, c)[(n + 1) + 1]
                 PROVE  e.to \in DOMAIN b /\ b[e.to] <= (n + 1) + 1
        OBVIOUS
    <2>1. /\ (n + 1) + 1 \in 1 .. MaxDepth /\ n + 1 <= MaxDepth /\ n + 1 \in Nat
          /\ (n + 1) + 1 > 1 /\ ((n + 1) + 1) - 1 = n + 1
        OBVIOUS
    <2>2. e \in E
        BY <1>3, <2>1
    <2>3. DownwardLevel(d, c)[(n + 1) + 1] =
             {x \in d.edges : \E f \in DownwardLevel(d, c)[((n + 1) + 1) - 1] : x.from = f.to}
        BY <2>1, DownwardLevelIs
    <2>4. PICK f \in DownwardLevel(d, c)[n + 1] : e.from = f.to
        BY <2>1, <2>3
    <2>5. e.from \in DOMAIN b /\ b[e.from] <= n + 1
        BY <2>1, <2>4
    <2>6. e.to \in DOMAIN b /\ b[e.to] <= b[e.from] + 1 /\ b[e.to] \in Nat /\ b[e.from] \in Nat
        BY <1>2, <2>2, <2>5
    <2> QED
        BY <2>1, <2>5, <2>6
<1>7. ASSUME NEW n \in 1 .. MaxDepth, NEW t \in at(n) PROVE t \in DOMAIN b /\ b[t] <= n
    <2>1. Nat \subseteq T
        <3> HIDE DEF T
        <3> QED
            BY <1>5, <1>6, NatSetInduction
    <2>2. n - 1 \in T /\ (n - 1) + 1 = n
        BY <2>1
    <2>3. PICK e \in DownwardLevel(d, c)[n] : e.to = t
        BY DEF Below
    <2> QED
        BY <2>2, <2>3
<1>8. ASSUME NEW t \in DOMAIN b, t # c PROVE b[t] \in 1 .. MaxDepth
    <2>1. PICK e \in E : e.to = t
        BY <1>2, <1>8 DEF Places
    <2>2. PICK n \in 1 .. MaxDepth : t \in at(n)
        BY <1>4, <2>1 DEF Below
    <2>3. b[t] <= n /\ b[t] > 0 /\ b[t] \in Nat
        BY <1>2, <1>7, <1>8, <2>2
    <2> QED
        BY <2>3
<1> DEFINE impact == Restrict(b, DOMAIN b \ {c})
<1>9. DOMAIN impact = DOMAIN b \ {c} /\ \A t \in DOMAIN b \ {c} : impact[t] = b[t]
    BY DEF Restrict
<1> HIDE DEF impact
<1>10. DOMAIN impact = (UNION {at(n) : n \in 1 .. MaxDepth}) \ {c}
    <2>1. \A t \in DOMAIN b \ {c} : b[t] \in 1 .. MaxDepth /\ t \in at(b[t])
        BY <1>2, <1>8
    <2>2. \A n \in 1 .. MaxDepth : at(n) \subseteq DOMAIN b
        BY <1>7
    <2> HIDE DEF at
    <2> QED
        BY <1>9, <2>1, <2>2
<1>11. ASSUME NEW t \in DOMAIN impact
       PROVE  t \in at(impact[t]) /\ \A n \in 1 .. impact[t] - 1 : t \notin at(n)
    <2>1. t \in DOMAIN b /\ t # c /\ impact[t] = b[t]
        BY <1>9
    <2>2. b[t] \in 1 .. MaxDepth /\ t \in at(b[t])
        BY <1>2, <1>8, <2>1
    <2>3. ASSUME NEW n \in 1 .. b[t] - 1, t \in at(n) PROVE FALSE
        <3>1. n \in 1 .. MaxDepth /\ n < b[t]
            BY <2>2
        <3>2. b[t] <= n
            BY <1>7, <2>3, <3>1
        <3> QED
            BY <2>2, <3>1, <3>2
    <2> QED
        BY <2>1, <2>2, <2>3
<1>12. impact = ImpactAnalysis(d, c)
    BY <1>1 DEF impact
<1> QED
    BY <1>10, <1>11, <1>12 DEF Below
=============================================================================
