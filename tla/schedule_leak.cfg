SPECIFICATION Spec
CONSTANTS
    s1 = s1
    s2 = s2
    x = x
    q1 = q1
    q2 = q2
    w1 = w1
    w2 = w2
    Blank = Blank
    Boot = Boot
    NoEntry = NoEntry
    NoSchedule = NoSchedule
    Schedule <- OneSchedule
    Expr <- OneExpr
    Request <- TwoRequests
    Worker <- OneWorker
    Entry = {1, 2, 3, 4, 5, 6}
    MaxEvents = 3
    Hazards <- NoHazards
INVARIANT
    NoLeakedJob
CHECK_DEADLOCK FALSE
