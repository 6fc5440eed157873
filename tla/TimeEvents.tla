----------------------------- MODULE TimeEvents -----------------------------
(***************************************************************************)
(* The time event service: one goroutine (Start) takes hour and day events *)
(* off two RabbitMQ deliveries and offers each to the channels registered  *)
(* for its stream at that moment, while their owners register, receive and *)
(* unregister.  Every channel is made for one event; no send blocks.       *)
(*                                                                         *)
(* An hour event is dropped for a subscriber whose channel is full; a day  *)
(* event replaces what is there, in up to three channel operations between *)
(* which the subscriber may receive.                                       *)
(***************************************************************************)
EXTENDS Naturals

CONSTANTS
    Subscriber,
    StreamOf,     \* subscriber -> the stream it registers for
    MaxEvent,     \* bound on the events of a stream
    Faults        \* may a connection be lost, an event be malformed?

Stream == {"hour", "day"}

ASSUME StreamOfAssumption == StreamOf \in [Subscriber -> Stream]
ASSUME MaxEventAssumption == MaxEvent \in Nat
ASSUME FaultsAssumption   == Faults \in BOOLEAN

VARIABLES
    emitted,   \* stream -> events emitted and not lost in the broker
    taken,     \* stream -> events Start has taken off the deliveries
    open,      \* stream -> is its deliveries channel open?
    status,    \* subscriber -> not registered yet, registered, unregistered
    chan,      \* subscriber -> the event in its channel; 0 for none
    seen,      \* subscriber -> the last event it received
    op,        \* where the goroutine is
    stream,    \* stream of the event being notified
    last,      \* stream -> the event notified last
    todo,      \* channels of the snapshot the event was not offered to yet
    target,    \* subscriber whose stale event is being replaced
    told       \* history: stream -> the snapshot taken for its last event

broker == <<emitted, open>>
loop   == <<taken, op, stream, last, todo, target, told>>
vars   == <<broker, loop, status, chan, seen>>

Event == 0..MaxEvent

TypeOK ==
    /\ emitted \in [Stream -> Event]
    /\ taken \in [Stream -> Event]
    /\ open \in [Stream -> BOOLEAN]
    /\ status \in [Subscriber -> {"new", "on", "off"}]
    /\ chan \in [Subscriber -> Event]
    /\ seen \in [Subscriber -> Event]
    /\ op \in {"select", "notify", "drain", "retry", "stopped"}
    /\ stream \in Stream
    /\ last \in [Stream -> Event]
    /\ todo \subseteq {s \in Subscriber : StreamOf[s] = stream}
    /\ op \in {"drain", "retry"} => target \in todo /\ stream = "day"
    /\ told \in [Stream -> SUBSET Subscriber]

\* Start returns at once when a queue cannot be consumed.
Init ==
    /\ emitted = [k \in Stream |-> 0]
    /\ taken = [k \in Stream |-> 0]
    /\ open = [k \in Stream |-> TRUE]
    /\ status = [s \in Subscriber |-> "new"]
    /\ chan = [s \in Subscriber |-> 0]
    /\ seen = [s \in Subscriber |-> 0]
    /\ op = "select" \/ (Faults /\ op = "stopped")
    /\ stream = "hour"
    /\ last = [k \in Stream |-> 0]
    /\ todo = {}
    /\ target = CHOOSE s \in Subscriber : TRUE
    /\ told = [k \in Stream |-> {}]

-----------------------------------------------------------------------------
(***************************************************************************)
(* The broker and the subscribers.                                         *)
(***************************************************************************)
Emit(k) ==
    /\ open[k]
    /\ emitted[k] < MaxEvent
    /\ emitted' = [emitted EXCEPT ![k] = @ + 1]
    /\ UNCHANGED <<open, loop, status, chan, seen>>

\* The connection is lost, and with it deliveries that were not taken yet.
Close(k) ==
    /\ Faults
    /\ open[k]
    /\ open' = [open EXCEPT ![k] = FALSE]
    /\ \E kept \in taken[k]..emitted[k] : emitted' = [emitted EXCEPT ![k] = kept]
    /\ UNCHANGED <<loop, status, chan, seen>>

Register(s) ==
    /\ status[s] = "new"
    /\ status' = [status EXCEPT ![s] = "on"]
    /\ UNCHANGED <<broker, loop, chan, seen>>

Unregister(s) ==
    /\ status[s] = "on"
    /\ status' = [status EXCEPT ![s] = "off"]
    /\ UNCHANGED <<broker, loop, chan, seen>>

Receive(s) ==
    /\ status[s] = "on"
    /\ chan[s] # 0
    /\ seen' = [seen EXCEPT ![s] = chan[s]]
    /\ chan' = [chan EXCEPT ![s] = 0]
    /\ UNCHANGED <<broker, loop, status>>

-----------------------------------------------------------------------------
(***************************************************************************)
(* Start.                                                                  *)
(***************************************************************************)
Delivered(k) == op = "select" /\ taken[k] < emitted[k]

Registered(k) == {s \in Subscriber : StreamOf[s] = k /\ status[s] = "on"}

\* Mutated: the delivery is rejected with requeue and notified all the same.
NotifyRequeueing(k) ==
    /\ Delivered(k)
    /\ last' = [last EXCEPT ![k] = taken[k] + 1]
    /\ op' = "notify"
    /\ stream' = k
    /\ todo' = Registered(k)
    /\ told' = [told EXCEPT ![k] = todo']
    /\ UNCHANGED <<broker, taken, target, status, chan, seen>>

\* A delivery is acknowledged, and then offered to a snapshot of the channels.
Notify(k) ==
    /\ Delivered(k)
    /\ taken' = [taken EXCEPT ![k] = @ + 1]
    /\ last' = [last EXCEPT ![k] = taken'[k]]
    /\ op' = "notify"
    /\ stream' = k
    /\ todo' = Registered(k)
    /\ told' = [told EXCEPT ![k] = todo']
    /\ UNCHANGED <<broker, target, status, chan, seen>>

\* A payload that does not parse, or a day event that is not at midnight.
Discard(k) ==
    /\ Faults
    /\ Delivered(k)
    /\ taken' = [taken EXCEPT ![k] = @ + 1]
    /\ UNCHANGED <<broker, op, stream, last, todo, target, told, status, chan, seen>>

\* Either deliveries channel is closed, or the context ends: Start returns and
\* nobody starts it again.
Stop ==
    /\ op = "select"
    /\ Faults
    /\ op' = "stopped"
    /\ UNCHANGED <<broker, taken, stream, last, todo, target, told, status, chan, seen>>

Put(s) == chan' = [chan EXCEPT ![s] = last[stream]]

\* Mutated: a send without a default.
OfferBlocking(s) ==
    /\ op = "notify"
    /\ s \in todo
    /\ chan[s] = 0
    /\ Put(s)
    /\ todo' = todo \ {s}
    /\ UNCHANGED <<broker, taken, op, stream, last, target, told, status, seen>>

\* Mutated: day events are offered as hour events are.
OfferOnce(s) ==
    /\ op = "notify"
    /\ s \in todo
    /\ IF chan[s] = 0 THEN Put(s) ELSE UNCHANGED chan
    /\ todo' = todo \ {s}
    /\ UNCHANGED <<broker, taken, op, stream, last, target, told, status, seen>>

\* The first select of notify and of notifyLatest.
Offer(s) ==
    /\ op = "notify"
    /\ s \in todo
    /\ \/ chan[s] = 0 /\ Put(s) /\ todo' = todo \ {s} /\ UNCHANGED <<op, target>>
       \/ /\ chan[s] # 0 /\ stream = "hour"
          /\ todo' = todo \ {s}
          /\ UNCHANGED <<chan, op, target>>
       \/ /\ chan[s] # 0 /\ stream = "day"
          /\ op' = "drain" /\ target' = s
          /\ UNCHANGED <<chan, todo>>
    /\ UNCHANGED <<broker, taken, stream, last, told, status, seen>>

Drain ==
    /\ op = "drain"
    /\ chan' = [chan EXCEPT ![target] = 0]
    /\ op' = "retry"
    /\ UNCHANGED <<broker, taken, stream, last, todo, target, told, status, seen>>

Retry ==
    /\ op = "retry"
    /\ IF chan[target] = 0 THEN Put(target) ELSE UNCHANGED chan
    /\ todo' = todo \ {target}
    /\ op' = "notify"
    /\ UNCHANGED <<broker, taken, stream, last, target, told, status, seen>>

Return ==
    /\ op = "notify"
    /\ todo = {}
    /\ op' = "select"
    /\ UNCHANGED <<broker, taken, stream, last, todo, target, told, status, chan, seen>>

Publish ==
    \/ \E k \in Stream : Notify(k)
    \/ \E s \in Subscriber : Offer(s)
    \/ Drain \/ Retry \/ Return

Next ==
    \/ Publish
    \/ \E k \in Stream : Emit(k) \/ Close(k) \/ Discard(k)
    \/ Stop
    \/ \E s \in Subscriber : Register(s) \/ Unregister(s) \/ Receive(s)

Spec == Init /\ [][Next]_vars

\* The goroutine runs.  A subscriber need not: StayHandler registers its channel and
\* may wait for the guest without a deadline before it first reads it.
FairSpec == Spec /\ WF_vars(Publish)
-----------------------------------------------------------------------------
(***************************************************************************)
(* Properties.                                                             *)
(***************************************************************************)
DaySubscriber == {s \in Subscriber : StreamOf[s] = "day"}

\* The newest day event is never lost on a subscriber that was registered for it:
\* however its receives fall between the steps of notifyLatest, the event is in
\* its channel or is the last one it received.
LatestKept ==
    \A s \in DaySubscriber :
        s \in told["day"] /\ ~(stream = "day" /\ s \in todo) =>
            last["day"] = (IF chan[s] # 0 THEN chan[s] ELSE seen[s])

\* The branch of notifyLatest that skips a busy subscriber is dead: once the stale
\* event is out, nobody else can have filled the channel.
ReplacementFits == op = "retry" => chan[target] = 0

\* Every subscriber has the mailbox Mailbox describes; a stale event is replaced
\* at the moment it is drained.
box == [s \in Subscriber |-> IF op = "retry" /\ s = target THEN last[stream] ELSE chan[s]]

M == INSTANCE Mailbox WITH Subscriber <- Subscriber, box <- box, seen <- seen

MailboxRefined == M!Spec

\* No subscriber, slow or gone, holds up the goroutine all others depend on.
NotifyReturns == op = "notify" ~> op = "select"

\* A subscriber that goes on reading its channel while it is registered sees each
\* day event it was notified of or a later one, though no other subscriber may read.
GoesOnReading(s) == WF_vars(Receive(s))
DayEventSeen ==
    \A s \in DaySubscriber : GoesOnReading(s) =>
        \A e \in Event \ {0} :
            (s \in told["day"] /\ last["day"] = e) ~> (seen[s] >= e \/ status[s] = "off")
=============================================================================
