CONSTANTS
    None = None
    orders = orders  lines = lines  id = id  name = name
    tbl = tbl  view = view  coll = coll  int = int  text = text
    r1 = r1  r2 = r2
    Source = {s1, s2}
    ObjectName = {orders, lines}
    ColumnName = {id, name}
    ObjectType = {tbl, view, coll}
    DataType = {int, text}
    Host = {h1, h2}
    Secret = {w1}
    Term = {t1, t2}
    Tag = {g1, g2}
    Word = {a, b}
    Rule = {r1, r2}
    RuleKind = {"not_null", "regex", "range", "custom_sql"}
    Batch = {b1}
    MaxScans = 2
    MaxRows = 1
    MaxDepth = 2
    Client = {c1, c2}
    Scans <- MCScans
    Dumps <- MCDumps
    Traffic <- MCTraffic
    CheckLists <- MCCheckLists
SPECIFICATION Spec
SYMMETRY Symmetric
CHECK_DEADLOCK FALSE
INVARIANTS
    ReferentialIntegrity
    TreeIsLastScan
    ChangeLogReplays
    LineageBreaksOnlyByDeletion
    ImpactIsShortestDistance
    HostShownIsHostUsed
    McpAuditMatchesWrites
    OneResultPerRule
    FailuresAreAnnounced
PROPERTIES
    ScansKeepAnnotations
    RescanIsQuiet
    EvidentColumnsSurvive
