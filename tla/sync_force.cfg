SPECIFICATION Spec
CONSTANTS
    a = a
    b = b
    c = c
    a1 = a1
    a2 = a2
    NoInstance = NoInstance
    Instance <- TwoInstances
    Slot <- TwoInstances
    InstanceOf <- OneSlotEach
    TTL = 2
    StaleAfter = 4
    MaxClock = 4
    Hazards <- ForceAndCrash
PROPERTY
    ForceReleaseOnlyStale
CHECK_DEADLOCK FALSE
