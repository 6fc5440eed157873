CONSTANTS
    d1 = d1
    d2 = d2
    h1 = h1
    Subscriber = {d1, d2, h1}
    StreamOf <- TwoDays
    MaxEvent = 2
    Faults = TRUE
SPECIFICATION FairSpec
CHECK_DEADLOCK FALSE
INVARIANTS
    LatestKept
PROPERTIES
    MailboxRefined
    NotifyReturns
    DayEventSeen
