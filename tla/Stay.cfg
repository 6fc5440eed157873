CONSTANTS
    CheckIn = 2
    CheckOut = 4
    MaxDay = 6
    Faults = TRUE
SPECIFICATION FairSpec
CHECK_DEADLOCK FALSE
INVARIANTS
    NotSentHomeEarly
    OrdersPerDayEvent
PROPERTIES
    StayEnds
