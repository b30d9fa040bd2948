SPECIFICATION Spec
CONSTANTS
    v = v
    w = w
    e1 = e1
    e2 = e2
    e3 = e3
    e4 = e4
    NoEvent = NoEvent
    Event <- FourEvents
    Sender <- TwoSenders
    Limit = 4
    LeaseTTL = 3
    SendTimeout = 1
    MaxAttempts = 3
    RetryDelay <- Delays
    Hazards <- NoHazards
SYMMETRY SlowSymmetry
PROPERTY
    SettledIsFinal
