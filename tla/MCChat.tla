------------------------------- MODULE MCChat -------------------------------
EXTENDS Chat, TLC

Symmetries == Permutations(Action) \cup Permutations(Response)
=============================================================================
