---------------------------- MODULE MCTimeEvents ----------------------------
EXTENDS TimeEvents, TLC

CONSTANTS d1, d2, h1

TwoDays   == d1 :> "day" @@ d2 :> "day" @@ h1 :> "hour"
=============================================================================
