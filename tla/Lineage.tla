------------------------------- MODULE Lineage -------------------------------
(***************************************************************************)
(* Reading the lineage graph: the recursive queries of                     *)
(* internal/store/sqlite_mapping.go, and what MetadataService makes of     *)
(* their rows (GetLineage and GetImpactAnalysis of metadata.go).  The      *)
(* edges form any graph, with cycles too.                                  *)
(***************************************************************************)
EXTENDS MetadataStore, SequencesExt

\* The recursive query: the edges at distance 1, 2, ... below a node.  An
\* edge may appear at several distances (UNION ALL).
DownwardLevel(d, c) ==
    LET level[n \in Nat] ==
          IF n <= 1 THEN {e \in d.edges : e.from = c}
          ELSE {e \in d.edges : \E f \in level[n - 1] : e.from = f.to}
    IN  level

GetLineageDownward(d, c) ==
    UNION {DownwardLevel(d, c)[n] : n \in 1 .. MaxDepth}

UpwardLevel(d, c) ==
    LET level[n \in Nat] ==
          IF n <= 1 THEN {e \in d.edges : e.to = c}
          ELSE {e \in d.edges : \E f \in level[n - 1] : e.to = f.from}
    IN  level

GetLineageUpward(d, c) == UNION {UpwardLevel(d, c)[n] : n \in 1 .. MaxDepth}

\* The left joins give NULL for the name of a node that has no row, and the
\* scan of NULL into the string fields SourceName and TargetName fails: one
\* such edge and the whole query returns an error.
LineageReadable(d, edges) ==
    \A e \in edges :
        {e.from, e.to} \subseteq DOMAIN d.objects \cup DOMAIN d.columns

\* Mutant of ImpactStep: a column reached again takes the later distance.
ImpactLastDistance(edges, state) ==
    LET n == Head(state.queue)
        d == state.best[n] + 1
        found == {e.to : e \in {f \in edges : f.from = n}}
    IN  [queue |-> Tail(state.queue) \o SetToSeq(found),
         best  |-> Over([t \in found |-> d], state.best)]

\* One turn of the loop over the queue.
ImpactStep(edges, state) ==
    LET n == Head(state.queue)
        d == state.best[n] + 1
        found == {t \in {e.to : e \in {f \in edges : f.from = n}} :
                     ~(t \in DOMAIN state.best /\ state.best[t] <= d)}
    IN  [queue |-> Tail(state.queue) \o SetToSeq(found),
         best  |-> Over([t \in found |-> d], state.best)]

\* GetImpactAnalysis: what is downstream of a column, and how far.
ImpactAnalysis(d, c) ==
    LET edges == GetLineageDownward(d, c)
        start == [queue |-> <<c>>, best |-> [x \in {c} |-> 0]]
        run[i \in Nat] == LET before == IF i <= 1 THEN start ELSE run[i - 1]
                          IN  IF before.queue = <<>> THEN before
                              ELSE ImpactStep(edges, before)
        best == run[Cardinality(edges) + 1].best
    IN  Restrict(best, DOMAIN best \ {c})

=============================================================================
