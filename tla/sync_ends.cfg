SPECIFICATION FairSpec
CONSTANTS
    a = a
    b = b
    c = c
    a1 = a1
    a2 = a2
    NoInstance = NoInstance
    Instance <- OnlyA
    Slot <- BothSlotsOfA
    InstanceOf <- SlotsOfA
    TTL = 2
    StaleAfter = 4
    MaxClock = 2
    Hazards <- DelayOnly
PROPERTIES
    FlagReleased
    LeaseGivenUp
CHECK_DEADLOCK FALSE
