CONSTANTS
    Publisher = {p1, p2}
    Nobody = Nobody
    Attempts = 2
    MaxConnection = 3
SPECIFICATION FairSpec
CHECK_DEADLOCK FALSE
INVARIANTS
    OneConnection
    ClosedForGood
PROPERTIES
    PublishEnds
    ShutdownEnds
