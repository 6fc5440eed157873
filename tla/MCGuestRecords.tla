--------------------------- MODULE MCGuestRecords ---------------------------
EXTENDS GuestRecords, TLC

CONSTANTS stored, fresh

Symmetry == Permutations(Request) \cup Permutations(Field) \cup Permutations(Text)

\* The guest stored at the start owns the booking.
OwnedByStored == [b \in Booking |-> stored]
=============================================================================
