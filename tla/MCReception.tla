---------------------------- MODULE MCReception ----------------------------
(***************************************************************************)
(* Instances of Reception: one cottage, two bookings for it, and a guest   *)
(* g3 who has none but shares a document with g2.                          *)
(***************************************************************************)
EXTENDS Reception, TLC

CONSTANTS s1, s2, g1, g2, g3, b1, b2, c1, d1, d2, d3

Sessions == Permutations(Session)

BookedBy  == b1 :> g1 @@ b2 :> g2
RecordedFor == d1 :> {g1} @@ d2 :> {g2} @@ d3 :> {g2, g3}

BookedFor == b1 :> c1 @@ b2 :> c1

\* g1 leaves c1 on the day g2 arrives there.
TurnoverCheckIn  == b1 :> 0 @@ b2 :> 1
TurnoverCheckOut == b1 :> 1 @@ b2 :> 2
=============================================================================
