CONSTANTS
    Action = {wakeup, bath}
    Response = {showDocument, showBooking}
    None = None
    MaxSent = 3
    MaxRequest = 1
    MaxReadErrors = 3
    Faults = FALSE
SPECIFICATION Spec
CHECK_DEADLOCK FALSE
PROPERTIES
    AcceptedActionKept
