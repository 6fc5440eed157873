-------------------------- MODULE BookingLifecycle --------------------------
(***************************************************************************)
(* What check-out promises for one booking, whatever sessions, failures    *)
(* and crashes do: the booking is first marked past, then taken off the    *)
(* list of its cottage, and only then is full cleaning ordered for it.  No *)
(* stage is skipped and none is ever undone.                               *)
(***************************************************************************)
CONSTANT Booking

VARIABLE stage

Init == stage = [b \in Booking |-> "open"]

Advance(b, from, to) ==
    /\ stage[b] = from
    /\ stage' = [stage EXCEPT ![b] = to]

MarkPast(b)      == Advance(b, "open", "past")
Remove(b)        == Advance(b, "past", "removed")
OrderCleaning(b) == Advance(b, "removed", "cleaned")

Next == \E b \in Booking : MarkPast(b) \/ Remove(b) \/ OrderCleaning(b)

Spec == Init /\ [][Next]_stage
=============================================================================
