-------------------------------- MODULE Chat --------------------------------
(***************************************************************************)
(* The lodging chat of one websocket session: the reader and the writer    *)
(* over one connection, driven by the one goroutine of the session.  The   *)
(* goroutine makes any sequence of WaitForGuestAction and SendSystemRequest*)
(* calls; the guest sends any messages at any time, in the order the       *)
(* connection keeps.                                                       *)
(*                                                                         *)
(* Both sides of the API read the same connection: what one of them reads  *)
(* and does not want, the other never sees.                                *)
(***************************************************************************)
EXTENDS Naturals, Sequences, SequencesExt

CONSTANTS
    Action,         \* guest actions
    Response,       \* kinds of guest response
    None,
    MaxSent,        \* bound on the messages the guest sends
    MaxRequest,     \* bound on the requests of the session
    MaxReadErrors,  \* failed reads after which the websocket library panics
    Faults          \* may writes fail and the connection drop?

ASSUME NoneAssumption == None \notin Action \cup Response
ASSUME BoundsAssumption ==
    MaxSent \in Nat /\ MaxRequest \in Nat /\ MaxReadErrors \in Nat \ {0}
ASSUME FaultsAssumption == Faults \in BOOLEAN

VARIABLES
    wire,        \* guest messages written and not yet read, in order
    pending,     \* reader.pending
    call,        \* the call the goroutine is in
    request,     \* message id of the last system request
    readErrors,  \* reads failed since a read deadline first expired
    sent,        \* message id of the guest's last message
    acked,       \* message ids acknowledged to the guest, in order
    delivered,   \* guest actions returned to the handlers, in order
    reply        \* guest response last returned to the handlers

vars == <<wire, pending, call, request, readErrors, sent, acked, delivered, reply>>

\* What the service looks at in a guest message: its payload kind, the action or
\* the response named, and the message it acknowledges or correlates with.
Kind    == {"action", "response", "ack", "other", "malformed"}
Message == [id : 1..MaxSent, kind : Kind,
            name : Action \cup Response \cup {None}, of : 0..MaxRequest]

NoReply == [id |-> 0, kind |-> "response", name |-> None, of |-> 0]

\* ready: in handler code; wait: WaitForGuestAction; ack, reply: the two loops of
\* SendSystemRequest; ended: the handler has returned an error.
Call == [op : {"ready", "wait", "ack", "reply", "ended"},
         want : Action \cup Response \cup {None}]
Ready == [op |-> "ready", want |-> None]
Ended == [op |-> "ended", want |-> None]

TypeOK ==
    /\ wire \in Seq(Message)
    /\ pending \in Seq(Message)
    /\ call \in Call
    /\ request \in 0..MaxRequest
    /\ readErrors \in 0..MaxReadErrors
    /\ sent \in 0..MaxSent
    /\ acked \in Seq(1..MaxSent)
    /\ delivered \in Seq(Message)
    /\ reply \in Message \cup {NoReply}

Init ==
    /\ wire = <<>>
    /\ pending = <<>>
    /\ call = Ready
    /\ request = 0
    /\ readErrors = 0
    /\ sent = 0
    /\ acked = <<>>
    /\ delivered = <<>>
    /\ reply = NoReply

-----------------------------------------------------------------------------
(***************************************************************************)
(* The connection.                                                         *)
(***************************************************************************)
GuestSends(kind, name, of) ==
    /\ sent < MaxSent
    /\ call # Ended
    /\ sent' = sent + 1
    /\ wire' = Append(wire, [id |-> sent', kind |-> kind, name |-> name, of |-> of])
    /\ UNCHANGED <<pending, call, request, readErrors, acked, delivered, reply>>

\* The guest acknowledges and answers only requests it may have seen, and answers
\* more than once if it likes.
Guest ==
    \/ \E a \in Action, q \in 0..request : GuestSends("action", a, q)
    \/ \E r \in Response, q \in 1..request : GuestSends("response", r, q)
    \/ \E q \in 1..request : GuestSends("ack", None, q)
    \/ \E kind \in {"other", "malformed"} : GuestSends(kind, None, 0)

\* Mutated: the ack names the correlation id.
SendAckOfCorrelation(m) == acked' = Append(acked, m.of)

\* An ack is not acknowledged; a failed write of an ack is logged and forgotten.
SendAck(m) ==
    \/ m.kind # "ack" /\ acked' = Append(acked, m.id)
    \/ (m.kind = "ack" \/ Faults) /\ UNCHANGED acked

\* ReadOneMessage.  Once a read deadline has expired every later read fails.
Reading(op, kinds) ==
    /\ call.op = op
    /\ readErrors = 0
    /\ wire # <<>>
    /\ Head(wire).kind \in kinds
    /\ wire' = Tail(wire)

\* protojson.Unmarshal fails: no ack, and every caller passes the error on.
ReadMalformed ==
    /\ \E op \in {"wait", "ack", "reply"} : Reading(op, {"malformed"})
    /\ call' = Ended
    /\ UNCHANGED <<pending, request, readErrors, sent, acked, delivered, reply>>

\* The connection breaks or a write fails, and the call returns the error.
Drop ==
    /\ Faults
    /\ call # Ended
    /\ call' = Ended
    /\ UNCHANGED <<wire, pending, request, readErrors, sent, acked, delivered, reply>>

-----------------------------------------------------------------------------
(***************************************************************************)
(* The reader.                                                             *)
(***************************************************************************)
Matching(a) == {i \in DOMAIN pending : pending[i].name = a}

\* Mutated: the newest matching action is taken.
DequeueNewest(a) ==
    \E i \in Matching(a) :
        /\ \A j \in Matching(a) : i >= j
        /\ pending' = RemoveAt(pending, i)
        /\ delivered' = Append(delivered, pending[i])

dequeueGuestAction(a) ==
    \E i \in Matching(a) :
        /\ \A j \in Matching(a) : i <= j
        /\ pending' = RemoveAt(pending, i)
        /\ delivered' = Append(delivered, pending[i])

\* Mutated: an action put aside is acknowledged when it is taken.
WaitForGuestActionAckingAgain(a) ==
    /\ call = Ready
    /\ \/ /\ dequeueGuestAction(a)
          /\ acked' = Append(acked, Last(delivered').id)
          /\ UNCHANGED call
       \/ /\ Matching(a) = {}
          /\ call' = [op |-> "wait", want |-> a]
          /\ UNCHANGED <<pending, delivered, acked>>
    /\ UNCHANGED <<wire, request, readErrors, sent, reply>>

WaitForGuestAction(a) ==
    /\ call = Ready
    /\ \/ dequeueGuestAction(a) /\ UNCHANGED call
       \/ /\ Matching(a) = {}
          /\ call' = [op |-> "wait", want |-> a]
          /\ UNCHANGED <<pending, delivered>>
    /\ UNCHANGED <<wire, request, readErrors, sent, acked, reply>>

\* Mutated: the action that was waited for is put aside like any other.
ReadActionPuttingAllAside ==
    /\ Reading("wait", Kind \ {"malformed"})
    /\ SendAck(Head(wire))
    /\ pending' = IF Head(wire).kind = "action" THEN Append(pending, Head(wire)) ELSE pending
    /\ UNCHANGED <<call, request, readErrors, sent, delivered, reply>>

\* Mutated: an action nobody waits for is not put aside.
ReadActionForgettingOthers ==
    LET m == Head(wire) IN
    /\ Reading("wait", Kind \ {"malformed"})
    /\ SendAck(m)
    /\ \/ /\ m.name = call.want
          /\ delivered' = Append(delivered, m)
          /\ call' = Ready
       \/ m.name # call.want /\ UNCHANGED <<delivered, call>>
    /\ UNCHANGED <<pending, request, readErrors, sent, reply>>

\* One turn of WaitForGuestAction's loop.
ReadAction ==
    LET m == Head(wire) IN
    /\ Reading("wait", Kind \ {"malformed"})
    /\ SendAck(m)
    /\ \/ /\ m.name = call.want
          /\ delivered' = Append(delivered, m)
          /\ call' = Ready
          /\ UNCHANGED pending
       \/ /\ m.kind = "action" /\ m.name # call.want
          /\ pending' = Append(pending, m)
          /\ UNCHANGED <<delivered, call>>
       \/ /\ m.kind # "action"
          /\ UNCHANGED <<pending, delivered, call>>
    /\ UNCHANGED <<request, readErrors, sent, reply>>

-----------------------------------------------------------------------------
(***************************************************************************)
(* The writer.  A system request keeps its message id when it is resent.   *)
(***************************************************************************)
SendSystemRequest(r) ==
    /\ call = Ready
    /\ request < MaxRequest
    /\ request' = request + 1
    /\ call' = [op |-> "ack", want |-> r]
    /\ UNCHANGED <<wire, pending, readErrors, sent, acked, delivered, reply>>

\* One turn of waitForAck's loop: everything that is not the ack is discarded,
\* and not acknowledged.
ReadAck ==
    LET m == Head(wire) IN
    /\ Reading("ack", Kind \ {"malformed"})
    /\ call' = IF m.kind = "ack" /\ m.of = request THEN [call EXCEPT !.op = "reply"] ELSE call
    /\ UNCHANGED <<pending, request, readErrors, sent, acked, delivered, reply>>

\* AckNotReceivedErr: the request is written again and waitForAck entered again.
\* Every read has a deadline of its own, which a message that arrives just then may
\* miss: the timeout needs no empty connection.
\* The library panics when too many reads fail on a connection that has failed.
AckTimeout ==
    /\ call.op = "ack"
    /\ readErrors' = readErrors + 1
    /\ call' = IF readErrors' = MaxReadErrors THEN Ended ELSE call
    /\ UNCHANGED <<wire, pending, request, sent, acked, delivered, reply>>

\* Mutated: any response of the right type is taken for the reply.
ReadReplyUncorrelated ==
    LET m == Head(wire) IN
    /\ Reading("reply", Kind \ {"malformed"})
    /\ SendAck(m)
    /\ \/ /\ m.kind = "response" /\ m.name = call.want
          /\ reply' = m
          /\ call' = Ready
       \/ ~(m.kind = "response" /\ m.name = call.want) /\ UNCHANGED <<reply, call>>
    /\ UNCHANGED <<pending, request, readErrors, sent, delivered>>

\* One turn of waitForReply's loop: acks and uncorrelated messages are discarded;
\* a correlated message that is not the expected response has the request resent.
ReadReply ==
    LET m == Head(wire) IN
    /\ Reading("reply", Kind \ {"malformed"})
    /\ SendAck(m)
    /\ \/ /\ m.kind = "response" /\ m.of = request /\ m.name = call.want
          /\ reply' = m
          /\ call' = Ready
       \/ /\ m.kind # "ack" /\ m.of = request /\ m.name # call.want
          /\ call' = [call EXCEPT !.op = "ack"]
          /\ UNCHANGED reply
       \/ /\ m.kind = "ack" \/ m.of # request
          /\ UNCHANGED <<reply, call>>
    /\ UNCHANGED <<pending, request, readErrors, sent, delivered>>

\* Mutated: a reply timeout of zero sets no read deadline.
ReplyTimeoutDisabled == FALSE

\* ReplyNotReceivedErr is returned to the handler.
ReplyTimeout ==
    /\ call.op = "reply"
    /\ readErrors' = readErrors + 1
    /\ call' = Ended
    /\ UNCHANGED <<wire, pending, request, sent, acked, delivered, reply>>

Next ==
    \/ Guest
    \/ \E a \in Action : WaitForGuestAction(a)
    \/ \E r \in Response : SendSystemRequest(r)
    \/ ReadAction \/ ReadAck \/ ReadReply \/ ReadMalformed
    \/ AckTimeout \/ ReplyTimeout
    \/ Drop

Spec == Init /\ [][Next]_vars

\* Nothing will come of the next read but an error.
NothingToRead == wire = <<>> \/ readErrors > 0

\* The goroutine reads what has arrived, and the deadline of a read expires if
\* nothing arrives: a message that is read starts a new deadline.
FairSpec ==
    /\ Spec
    /\ WF_vars(ReadAction \/ ReadAck \/ ReadReply \/ ReadMalformed)
    /\ WF_vars(NothingToRead /\ (AckTimeout \/ ReplyTimeout))
-----------------------------------------------------------------------------
(***************************************************************************)
(* Properties.                                                             *)
(***************************************************************************)
Elements(seq) == {seq[i] : i \in DOMAIN seq}
Actions(seq)  == {m \in Elements(seq) : m.kind = "action"}

\* The handlers get the guest actions of one kind in the order the guest took
\* them and each of them once, however they were interleaved with other messages
\* and with calls waiting for other actions.
ActionsInOrder ==
    \A i, j \in DOMAIN (delivered \o pending) :
        LET all == delivered \o pending IN
        i < j /\ all[i].name = all[j].name => all[i].id < all[j].id

\* While the service is in handler code or waits for a guest action no action is
\* lost: it stays unread, is put aside for a later call, or is returned.  While it
\* waits for an ack or a reply, actions are read and discarded.
NoActionLostWaiting ==
    [][call.op \in {"ready", "wait"} =>
          Actions(wire) \cup Actions(pending) \cup Actions(delivered)
            \subseteq Actions(wire') \cup Actions(pending') \cup Actions(delivered')]_vars

\* An ack confirms a message that was read, at most once and in the order of the
\* messages: the guest never sees its message accepted before it was taken off
\* the connection.
AckedOnceInOrder ==
    /\ \A i, j \in DOMAIN acked : i < j => acked[i] < acked[j]
    /\ \A m \in Elements(wire), i \in DOMAIN acked : acked[i] < m.id

\* SendSystemRequest returns a response of the type it asked for, sent in answer
\* to this request: late answers to an earlier request are never taken for it.
ReplyAnswersRequest ==
    [][reply' # reply => /\ call.op = "reply"
                         /\ reply'.of = request
                         /\ reply'.name = call.want
                         /\ reply'.id > reply.id]_vars

\* Once the guest has fallen silent a system request comes to an end, whatever was
\* sent before: it returns a reply or the session ends.  Each message read starts a
\* new deadline and a wrong answer has the request sent again, so a guest who goes on
\* sending holds a request open for as long as they like; within MaxSent every guest
\* falls silent.
GuestFallsSilent == <>[][~Guest]_vars
RequestEnds ==
    GuestFallsSilent => (call.op \in {"ack", "reply"} ~> call.op \in {"ready", "ended"})

\* An action the service waits for and the guest has sent ends the wait, whatever
\* was sent before it.
WaitEnds ==
    \A a \in Action :
        (call = [op |-> "wait", want |-> a] /\ \E m \in Elements(wire) : m.name = a)
            ~> call.op # "wait"
-----------------------------------------------------------------------------
(***************************************************************************)
(* What the code says of itself and does not do.                           *)
(***************************************************************************)

\* "buffers unmatched guest actions for later waits": an action that was accepted
\* is kept until a handler asks for it.
AcceptedActionKept ==
    [][\A m \in Actions(wire) :
          m.id \in Elements(acked') => m \in Elements(pending') \cup Elements(delivered')]_vars

\* "retried by the server if an ack is not received within the ack timeout": the
\* retried request can still be acknowledged.
RetryCanBeAcked ==
    (call.op = "ack" /\ readErrors > 0 /\ \E m \in Elements(wire) : m.kind = "ack" /\ m.of = request)
        ~> call.op = "reply"
=============================================================================
