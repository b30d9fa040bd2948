SPECIFICATION Spec
CONSTANTS
    a = a
    b = b
    c = c
    a1 = a1
    a2 = a2
    NoInstance = NoInstance
    Instance <- TwoInstances
    Slot <- TwoInstances
    InstanceOf <- OneSlotEach
    TTL = 2
    StaleAfter = 2
    MaxClock = 3
    Hazards <- AllHazards
SYMMETRY ProcessSymmetry
INVARIANTS
    OrphanLeaseExpires
    FlagExact
PROPERTY
    LiveLeaseNotTakenOver
CHECK_DEADLOCK FALSE
