SPECIFICATION Spec
CONSTANTS
    s1 = s1
    s2 = s2
    x = x
    q1 = q1
    q2 = q2
    w1 = w1
    w2 = w2
    Blank = Blank
    Boot = Boot
    NoEntry = NoEntry
    NoSchedule = NoSchedule
    Schedule <- TwoSchedules
    Expr <- OneExpr
    Request <- TwoRequests
    Worker <- TwoWorkers
    Entry = {1, 2, 3, 4, 5, 6}
    MaxEvents = 2
    Hazards <- AllHazards
SYMMETRY Symmetry
INVARIANTS
    TypeOK
    NoDanglingEntry
    EveryActiveIsScheduled
    SerialReloadsExact
    RunStatusSettles
CHECK_DEADLOCK FALSE
