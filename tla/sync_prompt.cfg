SPECIFICATION Spec
CONSTANTS
    a = a
    b = b
    c = c
    a1 = a1
    a2 = a2
    NoInstance = NoInstance
    Instance <- ThreeInstances
    Slot <- ThreeInstances
    InstanceOf <- OneSlotOfThree
    TTL = 2
    StaleAfter = 4
    MaxClock = 4
    Hazards <- CrashOnly
SYMMETRY ThreeSymmetry
INVARIANTS
    TypeOK
    NoConcurrentSync
    NobodyLeftSyncing
PROPERTY
    ImplementsMutex
CHECK_DEADLOCK FALSE
