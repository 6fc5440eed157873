------------------------- MODULE MCDailyPreparation -------------------------
EXTENDS DailyPreparation, TLC

CONSTANTS b1, b2, b3, b4, w1

\* b1 and b2 arrive together, b1 and b3 leave together; b4 is not valid.
Arrivals   == b1 :> 1 @@ b2 :> 1 @@ b3 :> 2 @@ b4 :> 1
Departures == b1 :> 3 @@ b2 :> 2 @@ b3 :> 3 @@ b4 :> 1
=============================================================================
