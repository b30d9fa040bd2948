------------------------------- MODULE Scanner -------------------------------
(***************************************************************************)
(* The schema scanners (internal/scanner): what a scan of a live source    *)
(* returns.  A scan is not a snapshot.  It lists the objects and then asks *)
(* for the columns of each, one query per object, while the source goes on *)
(* changing; the columns of a collection are inferred from a sample of its *)
(* documents.  The lease (SyncLease) keeps a second scan of the source     *)
(* away.                                                                   *)
(***************************************************************************)
EXTENDS Catalog

\* A document gives some of its fields a type; a collection is a function
\* from the identifiers of its documents to them.
IsDump(dump) ==
    /\ DOMAIN dump \subseteq ObjectName
    /\ \A n \in DOMAIN dump :
          /\ dump[n].type \in ObjectType /\ "docs" \in DOMAIN dump[n]
          /\ \A i \in DOMAIN dump[n].docs :
                IsTable(dump[n].docs[i], ColumnName, DataType)

ASSUME ScannerAssumption ==
    /\ \A dump \in Dumps : IsDump(dump)
    /\ \A scan \in Scans : \A n \in DOMAIN scan : "docs" \notin DOMAIN scan[n]

VARIABLE live   \* what each source holds now

ScannerInit ==
    \E content \in mix.contents \cup {NoRows} : live = [s \in Source |-> content]

scannedVars == <<sent, mix, spent, doomed, torn>>

(***************************************************************************)
(* Inference from documents.                                               *)
(***************************************************************************)
WithField(docs, x) == {i \in DOMAIN docs : x \in DOMAIN docs[i]}

Count(docs, x, t) == Cardinality({i \in WithField(docs, x) : docs[i][x] = t})

\* Of two types that are equally common, the order in which Go walks a map
\* decides.
MostCommonTypes(docs, x) ==
    {t \in DataType : \A u \in DataType : Count(docs, x, u) <= Count(docs, x, t)}

\* The documents without the field do not lower the confidence.
InferColumn(docs, x, t) ==
    [type |-> t,
     confidence |-> IF Count(docs, x, t) = Cardinality(WithField(docs, x))
                    THEN 1 ELSE 2]

InferredColumns(docs) ==
    LET fields == UNION {DOMAIN docs[i] : i \in DOMAIN docs}
    IN  {[x \in fields |-> InferColumn(docs, x, f[x])] :
            f \in {g \in [fields -> DataType] :
                      \A x \in fields : g[x] \in MostCommonTypes(docs, x)}}

\* $sample takes at least one document when there is one.  Of the sample any
\* part may be read: the error that ends the cursor is never looked at, and a
\* document that cannot be decoded is passed over.  That nothing at all can be
\* read of a collection that has documents is left out: the cursor is opened
\* with its first batch.
inferCollectionSchema(docs) ==
    UNION {InferredColumns(Restrict(docs, I)) :
              I \in {J \in SUBSET DOMAIN docs : J = {} => DOMAIN docs = {}}}

(***************************************************************************)
(* A scan.                                                                 *)
(***************************************************************************)
\* What a query for the columns of an object may answer now.  An object that
\* has gone since the listing has no columns, which is no error.
getColumns(s, n) ==
    IF n \notin DOMAIN live[s] THEN {NoRows}
    ELSE IF "docs" \in DOMAIN live[s][n] THEN inferCollectionSchema(live[s][n].docs)
    ELSE {live[s][n].columns}

\* The columns a source has beyond doubt: those of its tables, and the fields
\* that all documents of a collection have.
Evident(content) ==
    {x \in ObjectName \X ColumnName :
        /\ x[1] \in DOMAIN content
        /\ IF "docs" \in DOMAIN content[x[1]]
           THEN LET docs == content[x[1]].docs
                IN  DOMAIN docs # {} /\ WithField(docs, x[2]) = DOMAIN docs
           ELSE x[2] \in DOMAIN content[x[1]].columns}

Scanning(c, s) == req[c].op = "scan" /\ req[c].source = s

\* getTables, ListCollectionNames
StartScan(c, s) ==
    /\ Accept("scan", c)
    /\ s \in DOMAIN db.sources
    /\ \A other \in Client : ~Scanning(other, s)
    /\ req' = [req EXCEPT ![c] =
          [op |-> "scan", source |-> s, found |-> NoRows,
           todo |-> {[name |-> n, type |-> live[s][n].type] : n \in DOMAIN live[s]},
           always |-> Evident(live[s])]]
    /\ UNCHANGED <<db, mix, spent, doomed, torn, saves, lastScan, mirror, live>>

\* Mutant of ScanObject: an object whose columns cannot be read is left out.
ScanObjectOrSkip(c, o) ==
    /\ req[c].op = "scan"
    /\ o \in req[c].todo
    /\ \/ \E columns \in getColumns(req[c].source, o.name) :
             req' = [req EXCEPT ![c].todo = @ \ {o},
                ![c].found = Put(@, o.name, [type |-> o.type, columns |-> columns])]
       \/ req' = [req EXCEPT ![c].todo = @ \ {o}]
    /\ UNCHANGED <<db, scannedVars, saves, lastScan, mirror, live>>

\* One turn of the loop in ScanSchema.  An error ends the scan (Abort).
ScanObject(c, o) ==
    /\ req[c].op = "scan"
    /\ o \in req[c].todo
    /\ \E columns \in getColumns(req[c].source, o.name) :
          req' = [req EXCEPT ![c].todo = @ \ {o},
             ![c].found = Put(@, o.name, [type |-> o.type, columns |-> columns])]
    /\ UNCHANGED <<db, scannedVars, saves, lastScan, mirror, live>>

SaveScanned(c) ==
    /\ req[c].op = "scan"
    /\ req[c].todo = {}
    /\ StoreScan(req[c].source, req[c].found)
    /\ Finish(c)
    /\ UNCHANGED <<scannedVars, live>>

\* Somebody changes the source.
SourceChanges(s, content) ==
    /\ Serve("scan")
    /\ content # live[s]
    /\ live' = [live EXCEPT ![s] = content]
    /\ req' = [c \in Client |->
          IF Scanning(c, s) THEN [req[c] EXCEPT !.always = @ \cap Evident(content)]
          ELSE req[c]]
    /\ UNCHANGED <<db, mix, spent, doomed, torn, saves, lastScan, mirror>>

ScannerNext ==
    \/ \E c \in Client :
          \/ \E s \in Source : StartScan(c, s)
          \/ req[c].op = "scan" /\ \E o \in req[c].todo : ScanObject(c, o)
          \/ SaveScanned(c)
    \/ \E s \in DOMAIN db.sources, content \in mix.contents :
          SourceChanges(s, content)
=============================================================================
