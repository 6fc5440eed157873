SPECIFICATION FairSpec
CHECK_DEADLOCK FALSE
INVARIANTS
    TypeOK
    NothingHalfBuilt
PROPERTIES
    LifeRefined
    ClosedWhileTraced
    CheckedWhileOpen
    SignalEnds
