CONSTANTS
    b1 = b1
    b2 = b2
    b3 = b3
    b4 = b4
    w1 = w1
    Booking = {b1, b2, b3, b4}
    Valid = {b1, b2, b3}
    CheckInDay <- Arrivals
    CheckOutDay <- Departures
    MaxDay = 3
    Arrange = Arrange
    Watcher = {w1}
    Faults = TRUE
SPECIFICATION FairSpec
CHECK_DEADLOCK FALSE
INVARIANTS
    FiledOnlyIfTold
    OneArrivalPerFile
    RemindedOnTheEve
PROPERTIES
    ToldOnceNotEarly
    EachGuestTold
