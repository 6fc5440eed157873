SPECIFICATION Spec
CONSTANTS
    s1 = s1
    s2 = s2
    g1 = g1
    g2 = g2
    g3 = g3
    b1 = b1
    b2 = b2
    c1 = c1
    d1 = d1
    d2 = d2
    d3 = d3
    Session = {s1, s2}
    Guest = {g1, g2, g3}
    Booking = {b1, b2}
    Cottage = {c1}
    Document = {d1, d2, d3}
    NoGuest = NoGuest
    NoDocument = NoDocument
    NoBooking = NoBooking
    MainGuest <- BookedBy
    Carriers <- RecordedFor
    CottageOf <- BookedFor
    CheckInDay <- TurnoverCheckIn
    CheckOutDay <- TurnoverCheckOut
    MaxDay = 2
    Faults = TRUE
SYMMETRY Sessions
INVARIANTS
    ExclusiveUnlessRaced
    KeyFollowsStay
    OneCheckoutPerBooking
    OccupantAdmitted
PROPERTIES
    DisplacedOnlyByCheckout
    ReopenedOnlyLate
    LifecycleRefined
CHECK_DEADLOCK FALSE
