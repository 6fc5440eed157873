---------------------------- MODULE ServiceLife ----------------------------
(***************************************************************************)
(* What the life of the process promises about the resources it holds:     *)
(* they are taken while it starts, all of them are held for as long as it  *)
(* serves, and an orderly end gives every one of them back.                *)
(***************************************************************************)
CONSTANT Resource

VARIABLES life, held

Init == life = "starting" /\ held = {}

Acquire == life = "starting" /\ UNCHANGED life /\ held \subseteq held' /\ held' \subseteq Resource

Serve == life = "starting" /\ held' = Resource /\ life' = "serving"

Leave == life = "serving" /\ life' = "closing" /\ UNCHANGED held

Release == life = "closing" /\ UNCHANGED life /\ held' \subseteq held

End == life = "closing" /\ held' = {} /\ life' = "ended"

\* A start that fails gives something back, or nothing, and never serves.
Abort == life \in {"starting", "aborting"} /\ life' = "aborting" /\ held' \subseteq held

\* The process exits as it is.
Exit == life \in {"starting", "aborting", "serving"} /\ life' = "exited" /\ held' \subseteq held

Next == Acquire \/ Serve \/ Leave \/ Release \/ End \/ Abort \/ Exit

Spec == Init /\ [][Next]_<<life, held>>
=============================================================================
