CONSTANTS
    stored = stored
    fresh = fresh
    Guest = {stored, fresh}
    Request = {r1, r2, r3}
    Field = {email, surname}
    Text = {x, y}
    Known = {stored}
    NoRecord = NoRecord
    Booking = {b1}
    Owner <- OwnedByStored
    MaxTime = 3
    Faults = TRUE
SPECIFICATION Spec
SYMMETRY Symmetry
CHECK_DEADLOCK FALSE
PROPERTIES
    UntouchedFieldsSurvive
    AnswerIsStored
    ListsGrow
