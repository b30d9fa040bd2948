SPECIFICATION Spec
CONSTANTS
    a = a
    b = b
    c = c
    a1 = a1
    a2 = a2
    NoInstance = NoInstance
    Instance <- TwoInstances
    Slot <- ThreeSlots
    InstanceOf <- TwoSlotsOfA
    TTL = 2
    StaleAfter = 4
    MaxClock = 1
    Hazards <- NoHazards
INVARIANT
    NoConcurrentSync
CHECK_DEADLOCK FALSE
