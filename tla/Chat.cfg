CONSTANTS
    Action = {wakeup, bath}
    Response = {showDocument, showBooking}
    None = None
    MaxSent = 4
    MaxRequest = 2
    MaxReadErrors = 3
    Faults = TRUE
SPECIFICATION FairSpec
CHECK_DEADLOCK FALSE
INVARIANTS
    TypeOK
    ActionsInOrder
    AckedOnceInOrder
PROPERTIES
    NoActionLostWaiting
    ReplyAnswersRequest
    RequestEnds
    WaitEnds
