------------------------------ MODULE Mailbox ------------------------------
(***************************************************************************)
(* What a subscriber of time events is promised: a box for one event, in   *)
(* which a newer event may take the place of an unread older one and never *)
(* the other way round.  Events are numbered in the order they are emitted;*)
(* 0 stands for none.                                                      *)
(***************************************************************************)
EXTENDS Naturals

CONSTANT Subscriber

VARIABLES box, seen

vars == <<box, seen>>

Init ==
    /\ box = [s \in Subscriber |-> 0]
    /\ seen = [s \in Subscriber |-> 0]

Put(s) ==
    /\ box'[s] \in Nat
    /\ box'[s] > box[s]
    /\ box'[s] > seen[s]
    /\ box' = [box EXCEPT ![s] = box'[s]]
    /\ UNCHANGED seen

Get(s) ==
    /\ box[s] # 0
    /\ seen' = [seen EXCEPT ![s] = box[s]]
    /\ box' = [box EXCEPT ![s] = 0]

Next == \E s \in Subscriber : Put(s) \/ Get(s)

Spec == Init /\ [][Next]_vars
-----------------------------------------------------------------------------
\* What is in a box is newer than all its owner has had.
Newer ==
    /\ box \in [Subscriber -> Nat]
    /\ seen \in [Subscriber -> Nat]
    /\ \A s \in Subscriber : box[s] # 0 => box[s] > seen[s]

\* A subscriber may miss events, but gets those it gets in the order they were
\* emitted, and none of them twice.
EventsInOrder == [][\A s \in Subscriber : seen'[s] # seen[s] => seen'[s] > seen[s]]_vars
=============================================================================
