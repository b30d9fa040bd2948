SPECIFICATION FairSpec
CONSTANTS
    v = v
    w = w
    e1 = e1
    e2 = e2
    e3 = e3
    e4 = e4
    NoEvent = NoEvent
    Event <- TwoEvents
    Sender <- TwoSenders
    Limit = 2
    LeaseTTL = 3
    SendTimeout = 1
    MaxAttempts = 3
    RetryDelay <- Delays
    Hazards <- CrashOnly
INVARIANT
    DeadLetterEarned
PROPERTIES
    SettledIsFinal
    EveryEventSettles
    ImplementsDelivery
