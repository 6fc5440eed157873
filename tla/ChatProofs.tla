----------------------------- MODULE ChatProofs -----------------------------
(***************************************************************************)
(* Proofs about the lodging chat of a session, for any actions, responses  *)
(* and numbers of messages and requests.                                   *)
(*                                                                         *)
(* The connection keeps the order of the guest's messages, so whatever the *)
(* service has read is older than whatever it has not.  All the order      *)
(* there is in the acks, the actions and the replies comes from that.      *)
(***************************************************************************)
EXTENDS Chat, SequenceTheorems, TLAPS

-----------------------------------------------------------------------------
(***************************************************************************)
(* Sequences that lose their head or an element, or gain a last one.  The  *)
(* relations say what a step does to a sequence without the operators that *)
(* do it.                                                                  *)
(***************************************************************************)
IsAppended(u, s, e) ==
    /\ Len(u) = Len(s) + 1
    /\ u[Len(s) + 1] = e
    /\ \A i \in 1..Len(s) : u[i] = s[i]

IsTail(u, s) ==
    /\ Len(s) > 0
    /\ Len(u) = Len(s) - 1
    /\ \A i \in 1..Len(u) : u[i] = s[i + 1]

IsRemoved(u, s, k) ==
    /\ k \in 1..Len(s)
    /\ Len(u) = Len(s) - 1
    /\ \A i \in 1..Len(u) : u[i] = s[IF i < k THEN i ELSE i + 1]

LEMMA Appended ==
    ASSUME NEW S, NEW s \in Seq(S), NEW e \in S
    PROVE  Append(s, e) \in Seq(S) /\ IsAppended(Append(s, e), s, e)
  BY AppendProperties DEF IsAppended

LEMMA TailTaken ==
    ASSUME NEW S, NEW s \in Seq(S), s # <<>>
    PROVE  Tail(s) \in Seq(S) /\ IsTail(Tail(s), s) /\ Head(s) = s[1] /\ s[1] \in S
  <1>1. /\ Tail(s) \in Seq(S) /\ Len(Tail(s)) = Len(s) - 1
        /\ \A i \in 1..Len(Tail(s)) : Tail(s)[i] = s[i + 1]
    BY HeadTailProperties
  <1>2. Len(s) \in Nat \ {0}
    BY EmptySeq
  <1>3. s[1] \in S /\ Head(s) = s[1]
    BY <1>2
  <1> QED
    BY <1>1, <1>2, <1>3 DEF IsTail

LEMMA Removed ==
    ASSUME NEW S, NEW s \in Seq(S), NEW k \in 1..Len(s)
    PROVE  RemoveAt(s, k) \in Seq(S) /\ IsRemoved(RemoveAt(s, k), s, k)
  <1> DEFINE before == SubSeq(s, 1, k - 1)  after == SubSeq(s, k + 1, Len(s))
  <1>1. Len(s) \in Nat /\ k \in Nat /\ 1 <= k /\ k <= Len(s)
    OBVIOUS
  <1>2. \A i \in 1..Len(s) : s[i] \in S
    OBVIOUS
  <1>3. /\ before \in Seq(S) /\ Len(before) = k - 1
        /\ \A i \in 1..(k - 1) : before[i] = s[i]
    <2>1. \A i \in 1..(k - 1) : s[i] \in S
      BY <1>1, <1>2
    <2>2. /\ before \in Seq(S)
          /\ Len(before) = IF 1 <= k - 1 THEN k - 1 - 1 + 1 ELSE 0
          /\ \A i \in 1..(k - 1 - 1 + 1) : before[i] = s[1 + i - 1]
      BY <1>1, <2>1, SubSeqProperties
    <2> HIDE DEF before
    <2> QED
      BY <1>1, <2>2
  <1>4. /\ after \in Seq(S) /\ Len(after) = Len(s) - k
        /\ \A i \in 1..(Len(s) - k) : after[i] = s[k + i]
    <2>1. \A i \in (k + 1)..Len(s) : s[i] \in S
      BY <1>1, <1>2
    <2>2. /\ after \in Seq(S)
          /\ Len(after) = IF k + 1 <= Len(s) THEN Len(s) - (k + 1) + 1 ELSE 0
          /\ \A i \in 1..(Len(s) - (k + 1) + 1) : after[i] = s[(k + 1) + i - 1]
      BY <1>1, <2>1, SubSeqProperties
    <2> HIDE DEF after
    <2> QED
      BY <1>1, <2>2
  <1> DEFINE u == before \o after
  <1>5. RemoveAt(s, k) = u
    BY DEF RemoveAt
  <1> HIDE DEF before, after
  <1>6. /\ u \in Seq(S) /\ Len(u) = Len(before) + Len(after)
        /\ \A i \in 1..(Len(before) + Len(after)) :
              u[i] = IF i <= Len(before) THEN before[i] ELSE after[i - Len(before)]
    BY <1>3, <1>4, ConcatProperties
  <1> HIDE DEF u
  <1>7. Len(u) = Len(s) - 1
    BY <1>1, <1>3, <1>4, <1>6
  <1>8. ASSUME NEW i \in 1..Len(u) PROVE u[i] = s[IF i < k THEN i ELSE i + 1]
    <2>1. CASE i < k
      BY <1>1, <1>3, <1>4, <1>6, <1>7, <2>1
    <2>2. CASE ~(i < k)
      <3>1. i - (k - 1) \in 1..(Len(s) - k) /\ k + (i - (k - 1)) = i + 1
        BY <1>1, <1>7, <2>2
      <3>2. u[i] = after[i - (k - 1)]
        BY <1>1, <1>3, <1>4, <1>6, <1>7, <2>2
      <3> QED
        BY <1>4, <2>2, <3>1, <3>2
    <2> QED
      BY <2>1, <2>2
  <1> QED
    BY <1>5, <1>6, <1>7, <1>8 DEF IsRemoved

\* Every element of what is left was one of the others.
LEMMA RemovedKeeps ==
    ASSUME NEW s, Len(s) \in Nat, NEW k \in 1..Len(s), NEW u, IsRemoved(u, s, k)
    PROVE  \A i \in 1..Len(u) :
              \E n \in 1..Len(s) : /\ n = (IF i < k THEN i ELSE i + 1)
                                   /\ n # k /\ u[i] = s[n]
  <1> SUFFICES ASSUME NEW i \in 1..Len(u)
               PROVE  \E n \in 1..Len(s) : /\ n = (IF i < k THEN i ELSE i + 1)
                                           /\ n # k /\ u[i] = s[n]
    OBVIOUS
  <1>1. /\ k \in Nat /\ 1 <= k /\ k <= Len(s)
        /\ i \in Nat /\ 1 <= i /\ i <= Len(s) - 1
        /\ u[i] = s[IF i < k THEN i ELSE i + 1]
    BY DEF IsRemoved
  <1>2. CASE i < k
    <2>1. i \in 1..Len(s) /\ i # k /\ u[i] = s[i]
      BY <1>1, <1>2
    <2> QED
      BY <1>2, <2>1
  <1>3. CASE ~(i < k)
    <2>1. i + 1 \in 1..Len(s) /\ i + 1 # k /\ u[i] = s[i + 1]
      BY <1>1, <1>3
    <2> QED
      BY <1>3, <2>1
  <1> QED
    BY <1>2, <1>3

-----------------------------------------------------------------------------
(***************************************************************************)
(* The invariant.                                                          *)
(***************************************************************************)
Sorted(s) == \A i, j \in 1..Len(s) : i < j => s[i].id < s[j].id

\* Everything up to message n has been read.
Passed(n) == n <= sent /\ \A k \in 1..Len(wire) : n < wire[k].id

\* The same of the next state.
PassedNext(n) == n <= sent' /\ \A k \in 1..Len(wire') : n < wire'[k].id

\* The guest numbers its messages, and the connection keeps them in order.
WireInv == Sorted(wire) /\ \A k \in 1..Len(wire) : wire[k].id <= sent

\* The session has ended by the time the library would panic.
AliveInv == call.op # "ended" => readErrors < MaxReadErrors

\* Whatever was put aside, returned or acknowledged was read.
PassedInv ==
    /\ \A i \in 1..Len(delivered) : Passed(delivered[i].id)
    /\ \A i \in 1..Len(pending) : Passed(pending[i].id)
    /\ \A i \in 1..Len(acked) : Passed(acked[i])
    /\ Passed(reply.id)

\* ActionsInOrder without the concatenation; and a call that waits for an action has
\* found none put aside.
OrderInv ==
    /\ Sorted(pending)
    /\ \A i, j \in 1..Len(delivered) :
          i < j /\ delivered[i].name = delivered[j].name => delivered[i].id < delivered[j].id
    /\ \A i \in 1..Len(delivered), j \in 1..Len(pending) :
          delivered[i].name = pending[j].name => delivered[i].id < pending[j].id
    /\ call.op = "wait" => \A j \in 1..Len(pending) : pending[j].name # call.want

AckInv == \A i, j \in 1..Len(acked) : i < j => acked[i] < acked[j]

Inv == TypeOK /\ WireInv /\ AliveInv /\ PassedInv /\ OrderInv /\ AckInv

LEMMA InvInit == Init => Inv
  <1> SUFFICES ASSUME Init PROVE Inv
    OBVIOUS
  <1>1. TypeOK
    BY BoundsAssumption DEF Init, TypeOK, NoReply, Call, Ready
  <1> QED
    BY <1>1, BoundsAssumption
       DEF Init, Inv, WireInv, Sorted, AliveInv, PassedInv, Passed, OrderInv, AckInv,
           NoReply, Ready

-----------------------------------------------------------------------------
(***************************************************************************)
(* What the parts of the actions do to the sequences.                      *)
(***************************************************************************)
LEMMA Sends ==
    ASSUME TypeOK, Guest
    PROVE  /\ call # Ended
           /\ sent < MaxSent /\ sent' = sent + 1
           /\ wire' \in Seq(Message)
           /\ \E m \in Message : m.id = sent + 1 /\ IsAppended(wire', wire, m)
           /\ UNCHANGED <<pending, call, request, readErrors, acked, delivered, reply>>
  <1>1. ASSUME NEW kind \in Kind, NEW name \in Action \cup Response \cup {None},
               NEW of \in 0..MaxRequest, GuestSends(kind, name, of)
        PROVE  /\ wire' \in Seq(Message)
               /\ \E m \in Message : m.id = sent + 1 /\ IsAppended(wire', wire, m)
    <2> DEFINE m == [id |-> sent + 1, kind |-> kind, name |-> name, of |-> of]
    <2>1. sent + 1 \in 1..MaxSent
      BY <1>1, BoundsAssumption DEF GuestSends, TypeOK
    <2>2. m \in Message /\ m.id = sent + 1
      BY <2>1 DEF Message
    <2>3. wire' = Append(wire, m)
      BY <1>1 DEF GuestSends
    <2> HIDE DEF m
    <2> QED
      BY <2>2, <2>3, Appended DEF TypeOK
  <1>2. \E kind \in Kind, name \in Action \cup Response \cup {None}, of \in 0..MaxRequest :
           GuestSends(kind, name, of)
    <2>1. \A q \in 0..request : q \in 0..MaxRequest
      BY BoundsAssumption DEF TypeOK
    <2>2. \A q \in 1..request : q \in 0..request
      BY DEF TypeOK
    <2>3. 0 \in 0..MaxRequest
      BY BoundsAssumption
    <2> QED
      BY <2>1, <2>2, <2>3 DEF Guest, Kind
  <1> QED
    BY <1>1, <1>2 DEF GuestSends

LEMMA Reads ==
    ASSUME TypeOK, NEW op, NEW kinds, Reading(op, kinds)
    PROVE  /\ call.op = op /\ readErrors = 0
           /\ wire' \in Seq(Message) /\ IsTail(wire', wire)
           /\ Head(wire) = wire[1] /\ wire[1] \in Message /\ wire[1].kind \in kinds
  BY TailTaken DEF Reading, TypeOK

LEMMA Acks ==
    ASSUME TypeOK, NEW m \in Message, SendAck(m)
    PROVE  /\ acked' \in Seq(1..MaxSent)
           /\ acked' = acked \/ IsAppended(acked', acked, m.id)
  <1>1. acked \in Seq(1..MaxSent) /\ m.id \in 1..MaxSent
    BY DEF TypeOK, Message
  <1>2. acked' = acked \/ acked' = Append(acked, m.id)
    BY DEF SendAck
  <1> QED
    BY <1>1, <1>2, Appended

LEMMA Dequeues ==
    ASSUME TypeOK, NEW a, dequeueGuestAction(a)
    PROVE  /\ pending' \in Seq(Message) /\ delivered' \in Seq(Message)
           /\ \E k \in 1..Len(pending) :
                 /\ pending[k].name = a
                 /\ \A j \in 1..Len(pending) : pending[j].name = a => k <= j
                 /\ IsRemoved(pending', pending, k)
                 /\ IsAppended(delivered', delivered, pending[k])
  <1>1. DOMAIN pending = 1..Len(pending) /\ \A k \in 1..Len(pending) : pending[k] \in Message
    BY DEF TypeOK
  <1>2. PICK k \in Matching(a) :
           /\ \A j \in Matching(a) : k <= j
           /\ pending' = RemoveAt(pending, k)
           /\ delivered' = Append(delivered, pending[k])
    BY DEF dequeueGuestAction
  <1>3. k \in 1..Len(pending) /\ pending[k].name = a
    BY <1>1, <1>2 DEF Matching
  <1>4. \A j \in 1..Len(pending) : pending[j].name = a => k <= j
    BY <1>1, <1>2 DEF Matching
  <1>5. pending' \in Seq(Message) /\ IsRemoved(pending', pending, k)
    BY <1>2, <1>3, Removed DEF TypeOK
  <1>6. delivered' \in Seq(Message) /\ IsAppended(delivered', delivered, pending[k])
    BY <1>1, <1>2, <1>3, Appended DEF TypeOK
  <1> QED
    BY <1>3, <1>4, <1>5, <1>6

-----------------------------------------------------------------------------
(***************************************************************************)
(* Types, and the end of the session before the library panics.            *)
(***************************************************************************)
LEMMA TypedStep == TypeOK /\ AliveInv /\ [Next]_vars => TypeOK' /\ AliveInv'
  <1> SUFFICES ASSUME TypeOK, AliveInv, [Next]_vars PROVE TypeOK' /\ AliveInv'
    OBVIOUS
  <1> USE BoundsAssumption
  <1>1. CASE UNCHANGED vars
    BY <1>1 DEF vars, TypeOK, AliveInv
  <1>2. CASE Guest
    BY <1>2, Sends DEF TypeOK, AliveInv
  <1>3. ASSUME NEW a \in Action, WaitForGuestAction(a) PROVE TypeOK' /\ AliveInv'
    <2>1. CASE dequeueGuestAction(a) /\ UNCHANGED call
      BY <1>3, <2>1, Dequeues DEF WaitForGuestAction, TypeOK, AliveInv
    <2>2. CASE call' = [op |-> "wait", want |-> a] /\ UNCHANGED <<pending, delivered>>
      BY <1>3, <2>2 DEF WaitForGuestAction, TypeOK, AliveInv, Call, Ready
    <2> QED
      BY <1>3, <2>1, <2>2 DEF WaitForGuestAction
  <1>4. ASSUME NEW r \in Response, SendSystemRequest(r) PROVE TypeOK' /\ AliveInv'
    BY <1>4 DEF SendSystemRequest, TypeOK, AliveInv, Call, Ready
  <1>5. CASE ReadAction
    <2>1. /\ call.op = "wait" /\ readErrors = 0 /\ wire' \in Seq(Message)
          /\ Head(wire) \in Message
      BY <1>5, Reads DEF ReadAction
    <2>2. acked' \in Seq(1..MaxSent)
      BY <1>5, <2>1, Acks DEF ReadAction
    <2>3. delivered' \in Seq(Message) /\ pending' \in Seq(Message) /\ call' \in {call, Ready}
      <3>1. delivered \in Seq(Message) /\ pending \in Seq(Message)
        BY DEF TypeOK
      <3>2. /\ delivered' = delivered \/ delivered' = Append(delivered, Head(wire))
            /\ pending' = pending \/ pending' = Append(pending, Head(wire))
            /\ call' = call \/ call' = Ready
        BY <1>5 DEF ReadAction
      <3> QED
        BY <2>1, <3>1, <3>2, Appended
    <2> QED
      BY <1>5, <2>1, <2>2, <2>3 DEF ReadAction, TypeOK, AliveInv, Call, Ready
  <1>6. CASE ReadAck
    <2>1. call.op = "ack" /\ readErrors = 0 /\ wire' \in Seq(Message)
      BY <1>6, Reads DEF ReadAck
    <2>2. call' \in Call
      BY <1>6 DEF ReadAck, TypeOK, Call
    <2> QED
      BY <1>6, <2>1, <2>2 DEF ReadAck, TypeOK, AliveInv
  <1>7. CASE ReadReply
    <2>1. /\ call.op = "reply" /\ readErrors = 0 /\ wire' \in Seq(Message)
          /\ Head(wire) \in Message
      BY <1>7, Reads DEF ReadReply
    <2>2. acked' \in Seq(1..MaxSent)
      BY <1>7, <2>1, Acks DEF ReadReply
    <2>3. call' \in Call
      BY <1>7 DEF ReadReply, TypeOK, Call, Ready
    <2>4. reply' \in Message \cup {NoReply}
      BY <1>7, <2>1 DEF ReadReply, TypeOK
    <2> QED
      BY <1>7, <2>1, <2>2, <2>3, <2>4 DEF ReadReply, TypeOK, AliveInv
  <1>8. CASE ReadMalformed
    <2>1. readErrors = 0 /\ wire' \in Seq(Message)
      BY <1>8, Reads DEF ReadMalformed
    <2> QED
      BY <1>8, <2>1 DEF ReadMalformed, TypeOK, AliveInv, Call, Ended
  <1>9. CASE AckTimeout
    <2>1. readErrors < MaxReadErrors /\ readErrors' = readErrors + 1
      BY <1>9 DEF AckTimeout, AliveInv
    <2> QED
      BY <1>9, <2>1 DEF AckTimeout, TypeOK, AliveInv, Call, Ended
  <1>10. CASE ReplyTimeout
    <2>1. readErrors < MaxReadErrors /\ readErrors' = readErrors + 1
      BY <1>10 DEF ReplyTimeout, AliveInv
    <2> QED
      BY <1>10, <2>1 DEF ReplyTimeout, TypeOK, AliveInv, Call, Ended
  <1>11. CASE Drop
    BY <1>11 DEF Drop, TypeOK, AliveInv, Call, Ended
  <1> QED
    BY <1>1, <1>2, <1>3, <1>4, <1>5, <1>6, <1>7, <1>8, <1>9, <1>10, <1>11 DEF Next

-----------------------------------------------------------------------------
(***************************************************************************)
(* The connection.                                                         *)
(***************************************************************************)

LEMMA Numbered ==
    ASSUME NEW s \in Seq(Message)
    PROVE  Len(s) \in Nat /\ \A i \in 1..Len(s) : s[i] \in Message /\ s[i].id \in Nat
  <1>1. \A m \in Message : m.id \in Nat
    BY DEF Message
  <1> QED
    BY <1>1

\* A step does one of three things to the connection.
LEMMA ConnectionStep ==
    ASSUME TypeOK, [Next]_vars
    PROVE  \/ UNCHANGED <<wire, sent>>
           \/ sent' = sent + 1 /\ \E m \in Message : m.id = sent + 1 /\ IsAppended(wire', wire, m)
           \/ sent' = sent /\ IsTail(wire', wire)
  <1>1. CASE UNCHANGED vars
    BY <1>1 DEF vars
  <1>2. CASE Guest
    BY <1>2, Sends
  <1>3. ASSUME NEW a \in Action, WaitForGuestAction(a) PROVE UNCHANGED <<wire, sent>>
    BY <1>3 DEF WaitForGuestAction
  <1>4. ASSUME NEW r \in Response, SendSystemRequest(r) PROVE UNCHANGED <<wire, sent>>
    BY <1>4 DEF SendSystemRequest
  <1>5. ReadAction \/ ReadAck \/ ReadReply \/ ReadMalformed => sent' = sent /\ IsTail(wire', wire)
    BY Reads DEF ReadAction, ReadAck, ReadReply, ReadMalformed
  <1>6. AckTimeout \/ ReplyTimeout \/ Drop => UNCHANGED <<wire, sent>>
    BY DEF AckTimeout, ReplyTimeout, Drop
  <1> QED
    BY <1>1, <1>2, <1>3, <1>4, <1>5, <1>6 DEF Next

\* What is in order stays in order, and what was read stays read.
LEMMA WireStep ==
    ASSUME TypeOK, WireInv, [Next]_vars
    PROVE  WireInv' /\ \A n \in Nat : Passed(n) => PassedNext(n)
  <1>1. /\ sent \in Nat /\ Len(wire) \in Nat
        /\ \A i \in 1..Len(wire) : wire[i].id \in Nat
    BY Numbered DEF TypeOK
  <1>2. CASE UNCHANGED <<wire, sent>>
    BY <1>2 DEF WireInv, Sorted, Passed, PassedNext
  <1>3. ASSUME NEW m \in Message, sent' = sent + 1, m.id = sent + 1, IsAppended(wire', wire, m)
        PROVE  WireInv' /\ \A n \in Nat : Passed(n) => PassedNext(n)
    <2>1. \A i \in 1..Len(wire') : \/ i \in 1..Len(wire) /\ wire'[i] = wire[i]
                                   \/ i = Len(wire) + 1 /\ wire'[i] = m
      BY <1>1, <1>3 DEF IsAppended
    <2>2. Len(wire') = Len(wire) + 1
      BY <1>3 DEF IsAppended
    <2>3. \A k \in 1..Len(wire) : wire[k].id <= sent
      BY DEF WireInv
    <2>4. \A i, j \in 1..Len(wire') : i < j => wire'[i].id < wire'[j].id
      <3> SUFFICES ASSUME NEW i \in 1..Len(wire'), NEW j \in 1..Len(wire'), i < j
                   PROVE  wire'[i].id < wire'[j].id
        OBVIOUS
      <3>1. i \in 1..Len(wire) /\ wire'[i] = wire[i]
        BY <1>1, <2>1, <2>2
      <3>2. CASE j \in 1..Len(wire) /\ wire'[j] = wire[j]
        BY <3>1, <3>2 DEF WireInv, Sorted
      <3>3. CASE wire'[j] = m
        BY <1>1, <1>3, <2>3, <3>1, <3>3
      <3> QED
        BY <2>1, <3>2, <3>3
    <2>5. \A k \in 1..Len(wire') : wire'[k].id <= sent'
      <3> SUFFICES ASSUME NEW k \in 1..Len(wire') PROVE wire'[k].id <= sent'
        OBVIOUS
      <3> QED
        BY <1>1, <1>3, <2>1, <2>3
    <2>6. ASSUME NEW n \in Nat, Passed(n) PROVE PassedNext(n)
      <3>1. n <= sent /\ n <= sent' /\ n < m.id
        BY <1>1, <1>3, <2>6 DEF Passed
      <3>2. ASSUME NEW k \in 1..Len(wire') PROVE n < wire'[k].id
        BY <2>1, <2>6, <3>1 DEF Passed
      <3> QED
        BY <3>1, <3>2 DEF PassedNext
    <2> QED
      BY <2>4, <2>5, <2>6 DEF WireInv, Sorted
  <1>4. CASE sent' = sent /\ IsTail(wire', wire)
    <2>1. \A i \in 1..Len(wire') : i + 1 \in 1..Len(wire) /\ wire'[i] = wire[i + 1]
      BY <1>1, <1>4 DEF IsTail
    <2>2. WireInv'
      <3>1. ASSUME NEW i \in 1..Len(wire'), NEW j \in 1..Len(wire'), i < j
            PROVE  wire'[i].id < wire'[j].id
        <4>1. i + 1 < j + 1
          BY <3>1
        <4> QED
          BY <2>1, <4>1 DEF WireInv, Sorted
      <3>2. \A k \in 1..Len(wire') : wire'[k].id <= sent'
        BY <1>4, <2>1 DEF WireInv
      <3> QED
        BY <3>1, <3>2 DEF WireInv, Sorted
    <2>3. \A n \in Nat : Passed(n) => PassedNext(n)
      BY <1>1, <1>4, <2>1 DEF Passed, PassedNext
    <2> QED
      BY <2>2, <2>3
  <1> QED
    BY <1>2, <1>3, <1>4, ConnectionStep

\* The message read comes after all that were read before, and has been read now.
LEMMA HeadNewest ==
    ASSUME TypeOK, WireInv, IsTail(wire', wire), sent' = sent,
           NEW h, h = wire[1].id
    PROVE  /\ h \in Nat
           /\ PassedNext(h)
           /\ \A n \in Nat : Passed(n) => n < h
  <1>1. /\ sent \in Nat /\ Len(wire) \in Nat /\ 1 \in 1..Len(wire)
        /\ \A i \in 1..Len(wire) : wire[i].id \in Nat
    BY Numbered DEF TypeOK, IsTail
  <1>2. \A i \in 1..Len(wire') : i + 1 \in 1..Len(wire) /\ wire'[i] = wire[i + 1] /\ 1 < i + 1
    BY <1>1 DEF IsTail
  <1>3. \A n \in Nat : Passed(n) => n < h
    BY <1>1 DEF Passed
  <1>4. \A k \in 1..Len(wire') : h < wire'[k].id
    BY <1>1, <1>2 DEF WireInv, Sorted
  <1>5. h <= sent'
    BY <1>1 DEF WireInv
  <1> QED
    BY <1>1, <1>3, <1>4, <1>5 DEF PassedNext

-----------------------------------------------------------------------------
(***************************************************************************)
(* What the service keeps of the messages it has read.                     *)
(***************************************************************************)

\* A step adds to the acks, the returned actions and the reply nothing but what was
\* read before or is read now.
LEMMA AckedStep ==
    ASSUME TypeOK, [Next]_vars
    PROVE  \/ acked' = acked
           \/ sent' = sent /\ IsTail(wire', wire) /\ IsAppended(acked', acked, wire[1].id)
  <1>1. ReadAction \/ ReadReply =>
            \/ acked' = acked
            \/ sent' = sent /\ IsTail(wire', wire) /\ IsAppended(acked', acked, wire[1].id)
    <2> SUFFICES ASSUME ReadAction \/ ReadReply
                 PROVE  acked' = acked \/ (/\ sent' = sent /\ IsTail(wire', wire)
                                           /\ IsAppended(acked', acked, wire[1].id))
      OBVIOUS
    <2>1. /\ IsTail(wire', wire) /\ sent' = sent /\ SendAck(Head(wire))
          /\ Head(wire) = wire[1] /\ wire[1] \in Message
      BY Reads DEF ReadAction, ReadReply
    <2> QED
      BY <2>1, Acks
  <1>2. ASSUME NEW a \in Action, WaitForGuestAction(a) PROVE acked' = acked
    BY <1>2 DEF WaitForGuestAction
  <1>3. ASSUME NEW r \in Response, SendSystemRequest(r) PROVE acked' = acked
    BY <1>3 DEF SendSystemRequest
  <1>4. Guest => acked' = acked
    BY Sends
  <1>5. ReadAck \/ ReadMalformed \/ AckTimeout \/ ReplyTimeout \/ Drop \/ UNCHANGED vars => acked' = acked
    BY DEF ReadAck, ReadMalformed, AckTimeout, ReplyTimeout, Drop, vars
  <1> QED
    BY <1>1, <1>2, <1>3, <1>4, <1>5 DEF Next

LEMMA ReplyStep ==
    ASSUME TypeOK, [Next]_vars
    PROVE  \/ reply' = reply
           \/ /\ sent' = sent /\ IsTail(wire', wire) /\ reply' = wire[1]
              /\ call.op = "reply" /\ wire[1].of = request /\ wire[1].name = call.want
  <1>1. ReadReply => \/ reply' = reply
                     \/ /\ sent' = sent /\ IsTail(wire', wire) /\ reply' = wire[1]
                        /\ call.op = "reply" /\ wire[1].of = request /\ wire[1].name = call.want
    <2> SUFFICES ASSUME ReadReply, reply' # reply
                 PROVE  /\ sent' = sent /\ IsTail(wire', wire) /\ reply' = wire[1]
                        /\ call.op = "reply" /\ wire[1].of = request /\ wire[1].name = call.want
      OBVIOUS
    <2>1. IsTail(wire', wire) /\ Head(wire) = wire[1] /\ call.op = "reply"
      BY Reads DEF ReadReply
    <2> QED
      BY <2>1 DEF ReadReply
  <1>2. ASSUME NEW a \in Action, WaitForGuestAction(a) PROVE reply' = reply
    BY <1>2 DEF WaitForGuestAction
  <1>3. ASSUME NEW r \in Response, SendSystemRequest(r) PROVE reply' = reply
    BY <1>3 DEF SendSystemRequest
  <1>4. Guest => reply' = reply
    BY Sends
  <1>5. ReadAction \/ ReadAck \/ ReadMalformed \/ AckTimeout \/ ReplyTimeout \/ Drop \/ UNCHANGED vars
            => reply' = reply
    BY DEF ReadAction, ReadAck, ReadMalformed, AckTimeout, ReplyTimeout, Drop, vars
  <1> QED
    BY <1>1, <1>2, <1>3, <1>4, <1>5 DEF Next

\* The guest actions are where they were, or one put aside is returned, or one that is
\* read is returned to the call waiting for it or put aside by it.
LEMMA ActionsStep ==
    ASSUME TypeOK, [Next]_vars
    PROVE  \/ UNCHANGED <<pending, delivered>>
           \/ /\ call' = call /\ call.op = "ready"
              /\ \E k \in 1..Len(pending) :
                    /\ \A j \in 1..Len(pending) : pending[j].name = pending[k].name => k <= j
                    /\ IsRemoved(pending', pending, k)
                    /\ IsAppended(delivered', delivered, pending[k])
           \/ /\ call.op = "wait" /\ sent' = sent /\ IsTail(wire', wire)
              /\ \/ /\ wire[1].name = call.want /\ call' = Ready /\ pending' = pending
                    /\ IsAppended(delivered', delivered, wire[1])
                 \/ /\ wire[1].name # call.want /\ call' = call /\ delivered' = delivered
                    /\ IsAppended(pending', pending, wire[1])
  <1>1. CASE ReadAction
    <2>1. /\ IsTail(wire', wire) /\ sent' = sent /\ call.op = "wait"
          /\ Head(wire) = wire[1] /\ wire[1] \in Message
      BY <1>1, Reads DEF ReadAction
    <2>2. /\ IsAppended(Append(pending, wire[1]), pending, wire[1])
          /\ IsAppended(Append(delivered, wire[1]), delivered, wire[1])
      BY <2>1, Appended DEF TypeOK
    <2> QED
      BY <1>1, <2>1, <2>2 DEF ReadAction
  <1>2. ASSUME NEW a \in Action, WaitForGuestAction(a), ~UNCHANGED <<pending, delivered>>
        PROVE  /\ call' = call /\ call.op = "ready"
               /\ \E k \in 1..Len(pending) :
                     /\ \A j \in 1..Len(pending) : pending[j].name = pending[k].name => k <= j
                     /\ IsRemoved(pending', pending, k)
                     /\ IsAppended(delivered', delivered, pending[k])
    <2>1. dequeueGuestAction(a) /\ call' = call /\ call.op = "ready"
      BY <1>2 DEF WaitForGuestAction, Ready
    <2> QED
      BY <2>1, Dequeues
  <1>3. ASSUME NEW r \in Response, SendSystemRequest(r) PROVE UNCHANGED <<pending, delivered>>
    BY <1>3 DEF SendSystemRequest
  <1>4. Guest => UNCHANGED <<pending, delivered>>
    BY Sends
  <1>5. ReadAck \/ ReadReply \/ ReadMalformed \/ AckTimeout \/ ReplyTimeout \/ Drop \/ UNCHANGED vars
            => UNCHANGED <<pending, delivered>>
    BY DEF ReadAck, ReadReply, ReadMalformed, AckTimeout, ReplyTimeout, Drop, vars
  <1> QED
    BY <1>1, <1>2, <1>3, <1>4, <1>5 DEF Next

LEMMA AckStep ==
    ASSUME TypeOK, WireInv, PassedInv, AckInv, [Next]_vars
    PROVE  AckInv' /\ \A i \in 1..Len(acked') : PassedNext(acked'[i])
  <1>1. /\ Len(acked) \in Nat
        /\ \A i \in 1..Len(acked) : acked[i] \in Nat /\ Passed(acked[i])
    <2>1. acked \in Seq(1..MaxSent) /\ \A n \in 1..MaxSent : n \in Nat
      BY DEF TypeOK
    <2>2. Len(acked) \in Nat /\ \A i \in 1..Len(acked) : acked[i] \in 1..MaxSent
      BY <2>1, LenProperties, ElementOfSeq
    <2> QED
      BY <2>1, <2>2 DEF PassedInv
  <1>2. \A n \in Nat : Passed(n) => PassedNext(n)
    BY WireStep
  <1>3. CASE acked' = acked
    BY Zenon, <1>1, <1>2, <1>3 DEF AckInv
  <1>4. CASE sent' = sent /\ IsTail(wire', wire) /\ IsAppended(acked', acked, wire[1].id)
    <2>1. PICK h : h = wire[1].id
      OBVIOUS
    <2>2. h \in Nat /\ PassedNext(h) /\ \A n \in Nat : Passed(n) => n < h
      BY <1>4, <2>1, HeadNewest
    <2>3. \A i \in 1..Len(acked') : \/ i \in 1..Len(acked) /\ acked'[i] = acked[i]
                                    \/ i = Len(acked) + 1 /\ acked'[i] = h
      BY <1>1, <1>4, <2>1 DEF IsAppended
    <2>4. \A i \in 1..Len(acked') : PassedNext(acked'[i])
      BY <1>1, <1>2, <2>2, <2>3
    <2>5. ASSUME NEW i \in 1..Len(acked'), NEW j \in 1..Len(acked'), i < j
          PROVE  acked'[i] < acked'[j]
      <3>1. i \in 1..Len(acked) /\ acked'[i] = acked[i]
        BY <1>1, <1>4, <2>3, <2>5 DEF IsAppended
      <3> QED
        BY <1>1, <2>2, <2>3, <2>5, <3>1 DEF AckInv
    <2> QED
      BY <2>4, <2>5 DEF AckInv
  <1> QED
    BY <1>3, <1>4, AckedStep

LEMMA PassedStep ==
    ASSUME TypeOK, WireInv, PassedInv, AckInv, [Next]_vars
    PROVE  PassedInv'
  <1>1. /\ Len(delivered) \in Nat /\ Len(pending) \in Nat
        /\ \A i \in 1..Len(delivered) : delivered[i].id \in Nat
        /\ \A i \in 1..Len(pending) : pending[i].id \in Nat
    BY Numbered DEF TypeOK
  <1>2. /\ \A i \in 1..Len(delivered) : PassedNext(delivered[i].id)
        /\ \A i \in 1..Len(pending) : PassedNext(pending[i].id)
    BY <1>1, WireStep DEF PassedInv
  <1>3. sent' = sent /\ IsTail(wire', wire) => PassedNext(wire[1].id)
    BY HeadNewest
  <1>4. /\ \A i \in 1..Len(delivered') : PassedNext(delivered'[i].id)
        /\ \A i \in 1..Len(pending') : PassedNext(pending'[i].id)
    <2>1. CASE UNCHANGED <<pending, delivered>>
      BY <1>2, <2>1
    <2>2. ASSUME NEW k \in 1..Len(pending),
                 IsRemoved(pending', pending, k), IsAppended(delivered', delivered, pending[k])
          PROVE  /\ \A i \in 1..Len(delivered') : PassedNext(delivered'[i].id)
                 /\ \A i \in 1..Len(pending') : PassedNext(pending'[i].id)
      <3>1. \A i \in 1..Len(delivered') : \/ i \in 1..Len(delivered) /\ delivered'[i] = delivered[i]
                                          \/ delivered'[i] = pending[k]
        BY <1>1, <2>2 DEF IsAppended
      <3>2. \A i \in 1..Len(pending') : \E j \in 1..Len(pending) : pending'[i] = pending[j]
        BY <1>1, <2>2, RemovedKeeps
      <3> QED
        BY <1>2, <3>1, <3>2
    <2>3. CASE /\ sent' = sent /\ IsTail(wire', wire) /\ pending' = pending
               /\ IsAppended(delivered', delivered, wire[1])
      <3>1. \A i \in 1..Len(delivered') : \/ i \in 1..Len(delivered) /\ delivered'[i] = delivered[i]
                                          \/ delivered'[i] = wire[1]
        BY <1>1, <2>3 DEF IsAppended
      <3> QED
        BY <1>2, <1>3, <2>3, <3>1
    <2>4. CASE /\ sent' = sent /\ IsTail(wire', wire) /\ delivered' = delivered
               /\ IsAppended(pending', pending, wire[1])
      <3>1. \A i \in 1..Len(pending') : \/ i \in 1..Len(pending) /\ pending'[i] = pending[i]
                                        \/ pending'[i] = wire[1]
        BY <1>1, <2>4 DEF IsAppended
      <3> QED
        BY <1>2, <1>3, <2>4, <3>1
    <2> QED
      BY <2>1, <2>2, <2>3, <2>4, ActionsStep
  <1>5. PassedNext(reply'.id)
    <2>1. reply.id \in Nat
      BY DEF TypeOK, Message, NoReply
    <2>2. PassedNext(reply.id)
      BY <2>1, WireStep DEF PassedInv
    <2> QED
      BY <1>3, <2>2, ReplyStep
  <1>6. \A i \in 1..Len(acked') : PassedNext(acked'[i])
    BY AckStep
  <1> QED
    BY <1>4, <1>5, <1>6 DEF PassedInv, Passed, PassedNext

\* The call waits for an action only if none was put aside: what it puts aside while it
\* waits is of another name.
LEMMA WaitStep ==
    ASSUME TypeOK, OrderInv, [Next]_vars, call'.op = "wait"
    PROVE  \/ call' = call /\ UNCHANGED <<pending, delivered>>
           \/ /\ call' = call /\ wire[1].name # call.want
              /\ IsAppended(pending', pending, wire[1])
           \/ pending' = pending /\ \A j \in 1..Len(pending) : pending[j].name # call'.want
  <1>1. ASSUME NEW a \in Action, WaitForGuestAction(a)
        PROVE  pending' = pending /\ \A j \in 1..Len(pending) : pending[j].name # call'.want
    <2>1. /\ Matching(a) = {} /\ pending' = pending
          /\ call' = [op |-> "wait", want |-> a]
      BY <1>1 DEF WaitForGuestAction, Ready
    <2>2. DOMAIN pending = 1..Len(pending)
      BY DEF TypeOK
    <2> QED
      BY <2>1, <2>2 DEF Matching
  <1>2. CASE ReadAction
    <2>1. call.op = "wait"
      BY <1>2, Reads DEF ReadAction
    <2>2. \/ UNCHANGED <<pending, delivered>>
          \/ /\ wire[1].name # call.want /\ call' = call
             /\ IsAppended(pending', pending, wire[1])
      BY <2>1, ActionsStep DEF Ready
    <2>3. call' = call
      BY <1>2 DEF ReadAction, Ready
    <2> QED
      BY <2>2, <2>3
  <1>3. ASSUME NEW r \in Response, SendSystemRequest(r) PROVE FALSE
    BY <1>3 DEF SendSystemRequest
  <1>4. Guest => UNCHANGED <<call, pending, delivered>>
    BY Sends
  <1>5. ~ReadAck /\ ~ReadReply
    <2>1. ReadAck => call'.op # "wait"
      BY Reads DEF ReadAck, TypeOK, Call
    <2>2. ReadReply => call'.op # "wait"
      BY Reads DEF ReadReply, TypeOK, Call, Ready
    <2> QED
      BY <2>1, <2>2
  <1>6. ~ReadMalformed /\ ~AckTimeout /\ ~ReplyTimeout /\ ~Drop
    BY DEF ReadMalformed, AckTimeout, ReplyTimeout, Drop, Ended
  <1>7. UNCHANGED vars => UNCHANGED <<call, pending, delivered>>
    BY DEF vars
  <1> QED
    BY <1>1, <1>2, <1>3, <1>4, <1>5, <1>6, <1>7 DEF Next

\* The oldest of its name goes from the actions put aside to the end of those returned.
LEMMA OrderReturned ==
    ASSUME TypeOK, OrderInv, call' = call, call.op = "ready", NEW k \in 1..Len(pending),
           \A j \in 1..Len(pending) : pending[j].name = pending[k].name => k <= j,
           IsRemoved(pending', pending, k),
           IsAppended(delivered', delivered, pending[k])
    PROVE  OrderInv'
  <1>1. /\ Len(delivered) \in Nat /\ Len(pending) \in Nat
        /\ Len(pending') = Len(pending) - 1 /\ Len(delivered') = Len(delivered) + 1
    BY Numbered DEF TypeOK, IsRemoved, IsAppended
  <1>2. \A i \in 1..Len(pending') :
           \E n \in 1..Len(pending) : /\ n = (IF i < k THEN i ELSE i + 1)
                                      /\ n # k /\ pending'[i] = pending[n]
    <2>1. Len(pending) \in Nat /\ k \in 1..Len(pending) /\ IsRemoved(pending', pending, k)
      BY <1>1
    <2> QED
      BY ONLY <2>1, RemovedKeeps
  <1>3. \A i \in 1..Len(delivered') : \/ i \in 1..Len(delivered) /\ delivered'[i] = delivered[i]
                                      \/ i = Len(delivered) + 1 /\ delivered'[i] = pending[k]
    BY <1>1 DEF IsAppended
  <1>4. ASSUME NEW i \in 1..Len(pending'), NEW j \in 1..Len(pending'), i < j
        PROVE  pending'[i].id < pending'[j].id
    <2>1. PICK n \in 1..Len(pending) : n = (IF i < k THEN i ELSE i + 1) /\ pending'[i] = pending[n]
      BY <1>2
    <2>2. PICK m \in 1..Len(pending) : m = (IF j < k THEN j ELSE j + 1) /\ pending'[j] = pending[m]
      BY <1>2
    <2>3. n < m
      BY <1>1, <1>4, <2>1, <2>2
    <2> QED
      BY <2>1, <2>2, <2>3 DEF OrderInv, Sorted
  <1>5. ASSUME NEW i \in 1..Len(delivered'), NEW j \in 1..Len(delivered'), i < j,
               delivered'[i].name = delivered'[j].name
        PROVE  delivered'[i].id < delivered'[j].id
    <2>1. i \in 1..Len(delivered) /\ delivered'[i] = delivered[i]
      BY <1>1, <1>3, <1>5
    <2> QED
      BY <1>3, <1>5, <2>1 DEF OrderInv
  <1>6. ASSUME NEW i \in 1..Len(delivered'), NEW j \in 1..Len(pending'),
               delivered'[i].name = pending'[j].name
        PROVE  delivered'[i].id < pending'[j].id
    <2>1. PICK m \in 1..Len(pending) : m # k /\ pending'[j] = pending[m]
      BY <1>2
    <2>2. CASE i \in 1..Len(delivered) /\ delivered'[i] = delivered[i]
      BY <1>6, <2>1, <2>2 DEF OrderInv
    <2>3. CASE delivered'[i] = pending[k]
      <3>1. k <= m
        BY <1>6, <2>1, <2>3
      <3>2. k < m
        BY <2>1, <3>1
      <3> QED
        BY <2>1, <2>3, <3>2 DEF OrderInv, Sorted
    <2> QED
      BY <1>3, <2>2, <2>3
  <1> QED
    BY <1>4, <1>5, <1>6 DEF OrderInv, Sorted

\* The message read is newer than all that were returned or put aside.
LEMMA ReadNewer ==
    ASSUME TypeOK, WireInv, PassedInv, sent' = sent, IsTail(wire', wire)
    PROVE  /\ \A i \in 1..Len(delivered) : delivered[i].id < wire[1].id
           /\ \A i \in 1..Len(pending) : pending[i].id < wire[1].id
           /\ reply.id < wire[1].id
  <1>1. \A n \in Nat : Passed(n) => n < wire[1].id
    BY HeadNewest
  <1>2. /\ \A i \in 1..Len(delivered) : delivered[i].id \in Nat
        /\ \A i \in 1..Len(pending) : pending[i].id \in Nat
    BY Numbered DEF TypeOK
  <1>3. reply.id \in Nat
    BY DEF TypeOK, Message, NoReply
  <1> QED
    BY <1>1, <1>2, <1>3 DEF PassedInv

LEMMA OrderStep ==
    ASSUME TypeOK, WireInv, PassedInv, OrderInv, [Next]_vars
    PROVE  OrderInv'
  <1>1. Len(delivered) \in Nat /\ Len(pending) \in Nat
    BY Numbered DEF TypeOK
  <1>2. CASE UNCHANGED <<pending, delivered>>
    <2>1. call'.op = "wait" => \A j \in 1..Len(pending) : pending[j].name # call'.want
      <3>1. call'.op = "wait" => \/ call' = call
                                 \/ \A j \in 1..Len(pending) : pending[j].name # call'.want
        BY WaitStep
      <3> QED
        BY <3>1 DEF OrderInv
    <2> QED
      BY <1>2, <2>1 DEF OrderInv, Sorted
  <1>3. ASSUME call' = call, call.op = "ready", NEW k \in 1..Len(pending),
               \A j \in 1..Len(pending) : pending[j].name = pending[k].name => k <= j,
               IsRemoved(pending', pending, k),
               IsAppended(delivered', delivered, pending[k])
        PROVE  OrderInv'
    BY <1>3, OrderReturned
  <1>4. CASE /\ call.op = "wait" /\ sent' = sent /\ IsTail(wire', wire)
             /\ wire[1].name = call.want /\ call' = Ready /\ pending' = pending
             /\ IsAppended(delivered', delivered, wire[1])
    <2>1. \A i \in 1..Len(delivered) : delivered[i].id < wire[1].id
      BY <1>4, ReadNewer
    <2>2. \A i \in 1..Len(delivered') : \/ i \in 1..Len(delivered) /\ delivered'[i] = delivered[i]
                                        \/ i = Len(delivered) + 1 /\ delivered'[i] = wire[1]
      BY <1>1, <1>4 DEF IsAppended
    <2>3. ASSUME NEW i \in 1..Len(delivered'), NEW j \in 1..Len(delivered'), i < j,
                 delivered'[i].name = delivered'[j].name
          PROVE  delivered'[i].id < delivered'[j].id
      <3>1. i \in 1..Len(delivered) /\ delivered'[i] = delivered[i]
        BY <1>1, <1>4, <2>2, <2>3 DEF IsAppended
      <3> QED
        BY <2>1, <2>2, <2>3, <3>1 DEF OrderInv
    <2>4. ASSUME NEW i \in 1..Len(delivered'), NEW j \in 1..Len(pending),
                 delivered'[i].name = pending[j].name
          PROVE  delivered'[i].id < pending[j].id
      BY <1>4, <2>2, <2>4 DEF OrderInv
    <2> QED
      BY <1>4, <2>3, <2>4 DEF OrderInv, Sorted, Ready
  <1>5. CASE /\ call.op = "wait" /\ sent' = sent /\ IsTail(wire', wire)
             /\ wire[1].name # call.want /\ call' = call /\ delivered' = delivered
             /\ IsAppended(pending', pending, wire[1])
    <2>1. /\ \A i \in 1..Len(delivered) : delivered[i].id < wire[1].id
          /\ \A i \in 1..Len(pending) : pending[i].id < wire[1].id
      BY <1>5, ReadNewer
    <2>2. \A i \in 1..Len(pending') : \/ i \in 1..Len(pending) /\ pending'[i] = pending[i]
                                      \/ i = Len(pending) + 1 /\ pending'[i] = wire[1]
      BY <1>1, <1>5 DEF IsAppended
    <2>3. ASSUME NEW i \in 1..Len(pending'), NEW j \in 1..Len(pending'), i < j
          PROVE  pending'[i].id < pending'[j].id
      <3>1. i \in 1..Len(pending) /\ pending'[i] = pending[i]
        BY <1>1, <1>5, <2>2, <2>3 DEF IsAppended
      <3> QED
        BY <2>1, <2>2, <2>3, <3>1 DEF OrderInv, Sorted
    <2>4. ASSUME NEW i \in 1..Len(delivered), NEW j \in 1..Len(pending'),
                 delivered[i].name = pending'[j].name
          PROVE  delivered[i].id < pending'[j].id
      BY <2>1, <2>2, <2>4 DEF OrderInv
    <2>5. \A j \in 1..Len(pending') : pending'[j].name # call'.want
      BY <1>5, <2>2 DEF OrderInv
    <2> QED
      BY <1>5, <2>3, <2>4, <2>5 DEF OrderInv, Sorted
  <1> QED
    BY <1>2, <1>3, <1>4, <1>5, ActionsStep

\* What a sequence holds, when it gains a last element or loses one.
LEMMA ElementsAppended ==
    ASSUME NEW S, NEW s \in Seq(S), NEW u \in Seq(S), NEW e, IsAppended(u, s, e)
    PROVE  Elements(s) \cup {e} \subseteq Elements(u)
  <1>1. /\ DOMAIN s = 1..Len(s) /\ DOMAIN u = 1..Len(u) /\ Len(s) \in Nat
        /\ Len(u) = Len(s) + 1
    BY LenProperties DEF IsAppended
  <1>2. e \in Elements(u)
    BY <1>1 DEF IsAppended, Elements
  <1>3. ASSUME NEW i \in 1..Len(s) PROVE s[i] \in Elements(u)
    BY <1>1 DEF IsAppended, Elements
  <1> QED
    BY <1>1, <1>2, <1>3 DEF Elements

LEMMA ElementsTail ==
    ASSUME NEW S, NEW s \in Seq(S), NEW u \in Seq(S), IsTail(u, s)
    PROVE  Elements(s) \subseteq Elements(u) \cup {s[1]}
  <1>1. /\ DOMAIN s = 1..Len(s) /\ DOMAIN u = 1..Len(u) /\ Len(s) \in Nat
        /\ Len(u) = Len(s) - 1
    BY LenProperties DEF IsTail
  <1>2. ASSUME NEW i \in 1..Len(s), i # 1 PROVE s[i] \in Elements(u)
    <2>1. i - 1 \in 1..Len(u) /\ (i - 1) + 1 = i
      BY <1>1, <1>2
    <2>2. u[i - 1] = s[i]
      BY <2>1 DEF IsTail
    <2> QED
      BY <1>1, <2>1, <2>2 DEF Elements
  <1> QED
    BY <1>1, <1>2 DEF Elements

LEMMA ElementsRemoved ==
    ASSUME NEW S, NEW s \in Seq(S), NEW u \in Seq(S), NEW k \in 1..Len(s), IsRemoved(u, s, k)
    PROVE  Elements(s) \subseteq Elements(u) \cup {s[k]}
  <1>1. /\ DOMAIN s = 1..Len(s) /\ DOMAIN u = 1..Len(u) /\ Len(s) \in Nat
        /\ Len(u) = Len(s) - 1
    BY LenProperties DEF IsRemoved
  <1>2. ASSUME NEW i \in 1..Len(s), i # k PROVE s[i] \in Elements(u)
    <2>1. CASE i < k
      <3>1. i \in 1..Len(u)
        BY <1>1, <2>1
      <3>2. u[i] = s[i]
        BY <2>1, <3>1 DEF IsRemoved
      <3> QED
        BY <1>1, <3>1, <3>2 DEF Elements
    <2>2. CASE i > k
      <3>1. i - 1 \in 1..Len(u) /\ ~(i - 1 < k) /\ (i - 1) + 1 = i
        BY <1>1, <2>2
      <3>2. u[i - 1] = s[i]
        BY <3>1 DEF IsRemoved
      <3> QED
        BY <1>1, <3>1, <3>2 DEF Elements
    <2> QED
      BY <1>1, <1>2, <2>1, <2>2
  <1> QED
    BY <1>1, <1>2 DEF Elements

LEMMA InvStep == Inv /\ [Next]_vars => Inv'
  <1> SUFFICES ASSUME Inv, [Next]_vars PROVE Inv'
    OBVIOUS
  <1>1. TypeOK /\ WireInv /\ AliveInv /\ PassedInv /\ OrderInv /\ AckInv
    BY DEF Inv
  <1>2. TypeOK' /\ AliveInv'
    BY <1>1, TypedStep
  <1>3. WireInv' /\ PassedInv' /\ OrderInv' /\ AckInv'
    BY <1>1, WireStep, PassedStep, OrderStep, AckStep
  <1> QED
    BY <1>2, <1>3 DEF Inv

-----------------------------------------------------------------------------
(***************************************************************************)
(* The theorems.                                                           *)
(***************************************************************************)

\* The chat keeps its types, and no read fails after the library would have panicked.
THEOREM ChatTyped == Spec => []TypeOK
  BY InvInit, InvStep, PTL DEF Inv, Spec

\* The handlers get the actions of one kind in the order the guest took them, each once:
\* what is returned late was put aside, and is asked for before anything is read.
THEOREM ActionsReturnedInOrder == Spec => []ActionsInOrder
  <1>1. Inv => ActionsInOrder
    <2> SUFFICES ASSUME Inv,
                        NEW i \in DOMAIN (delivered \o pending),
                        NEW j \in DOMAIN (delivered \o pending), i < j,
                        (delivered \o pending)[i].name = (delivered \o pending)[j].name
                 PROVE  (delivered \o pending)[i].id < (delivered \o pending)[j].id
      BY DEF ActionsInOrder
    <2> DEFINE all == delivered \o pending
    <2>1. delivered \in Seq(Message) /\ pending \in Seq(Message)
      BY DEF Inv, TypeOK
    <2>2. Len(delivered) \in Nat /\ Len(pending) \in Nat
      BY <2>1, LenProperties
    <2>3. /\ DOMAIN all = 1..(Len(delivered) + Len(pending))
          /\ \A n \in 1..(Len(delivered) + Len(pending)) :
                all[n] = IF n <= Len(delivered) THEN delivered[n] ELSE pending[n - Len(delivered)]
      <3>1. /\ all \in Seq(Message) /\ Len(all) = Len(delivered) + Len(pending)
            /\ \A n \in 1..(Len(delivered) + Len(pending)) :
                  all[n] = IF n <= Len(delivered) THEN delivered[n] ELSE pending[n - Len(delivered)]
        BY <2>1, ConcatProperties
      <3> HIDE DEF all
      <3> QED
        BY <3>1, LenProperties
    <2>4. i \in DOMAIN all /\ j \in DOMAIN all /\ i < j /\ all[i].name = all[j].name
      OBVIOUS
    <2> HIDE DEF all
    <2>5. all[i].id < all[j].id
      <3>1. CASE j <= Len(delivered)
        BY <2>2, <2>3, <2>4, <3>1 DEF Inv, OrderInv
      <3>2. CASE i > Len(delivered)
        <4>1. /\ i - Len(delivered) \in 1..Len(pending) /\ j - Len(delivered) \in 1..Len(pending)
              /\ i - Len(delivered) < j - Len(delivered)
              /\ all[i] = pending[i - Len(delivered)] /\ all[j] = pending[j - Len(delivered)]
          BY <2>2, <2>3, <2>4, <3>2
        <4> QED
          BY <4>1 DEF Inv, OrderInv, Sorted
      <3>3. CASE i <= Len(delivered) /\ j > Len(delivered)
        <4>1. /\ i \in 1..Len(delivered) /\ j - Len(delivered) \in 1..Len(pending)
              /\ all[i] = delivered[i] /\ all[j] = pending[j - Len(delivered)]
          BY <2>2, <2>3, <2>4, <3>3
        <4> QED
          BY <2>4, <4>1 DEF Inv, OrderInv
      <3> QED
        BY <2>2, <2>3, <2>4, <3>1, <3>2, <3>3
    <2> QED
      BY <2>5 DEF all
  <1> QED
    BY InvInit, InvStep, <1>1, PTL DEF Spec

\* The guest gets at most one ack for a message, in the order of the messages, and none
\* for a message the service has not read.
THEOREM AcksInOrder == Spec => []AckedOnceInOrder
  <1>1. Inv => AckedOnceInOrder
    <2> SUFFICES ASSUME Inv PROVE AckedOnceInOrder
      OBVIOUS
    <2>1. DOMAIN acked = 1..Len(acked) /\ DOMAIN wire = 1..Len(wire)
      BY LenProperties DEF Inv, TypeOK
    <2>2. \A i, j \in DOMAIN acked : i < j => acked[i] < acked[j]
      BY <2>1 DEF Inv, AckInv
    <2>3. \A m \in Elements(wire), i \in DOMAIN acked : acked[i] < m.id
      BY <2>1 DEF Inv, PassedInv, Passed, Elements
    <2> QED
      BY <2>2, <2>3 DEF AckedOnceInOrder
  <1> QED
    BY InvInit, InvStep, <1>1, PTL DEF Spec

\* A system request never takes a late answer to an earlier request for its own, nor the
\* same answer twice.
THEOREM RepliesCorrelated == Spec => ReplyAnswersRequest
  <1>1. Inv /\ [Next]_vars => [reply' # reply => /\ call.op = "reply"
                                                 /\ reply'.of = request
                                                 /\ reply'.name = call.want
                                                 /\ reply'.id > reply.id]_vars
    <2> SUFFICES ASSUME Inv, [Next]_vars, reply' # reply
                 PROVE  /\ call.op = "reply" /\ reply'.of = request
                        /\ reply'.name = call.want /\ reply'.id > reply.id
      OBVIOUS
    <2>1. /\ sent' = sent /\ IsTail(wire', wire) /\ reply' = wire[1]
          /\ call.op = "reply" /\ wire[1].of = request /\ wire[1].name = call.want
      BY ReplyStep DEF Inv
    <2>2. reply.id < wire[1].id
      BY <2>1, ReadNewer DEF Inv
    <2>3. reply.id \in Nat /\ reply'.id \in Nat
      <3>1. TypeOK
        BY DEF Inv
      <3>2. reply.id \in Nat
        BY <3>1 DEF TypeOK, Message, NoReply
      <3>3. wire[1].id \in Nat
        <4>1. Len(wire) \in Nat /\ 1 \in 1..Len(wire)
          BY <2>1, <3>1, Numbered DEF TypeOK, IsTail
        <4> QED
          BY <3>1, <4>1, Numbered DEF TypeOK
      <3> QED
        BY <2>1, <3>2, <3>3
    <2> QED
      BY <2>1, <2>2, <2>3
  <1> QED
    BY InvInit, InvStep, <1>1, PTL DEF Spec, ReplyAnswersRequest

\* No action the guest took is lost in a session that is in handler code or waits for
\* an action: only the writer's loops drop the actions they read.
THEOREM NoActionLost == Spec => NoActionLostWaiting
  <1> DEFINE Held == Elements(wire) \cup Elements(pending) \cup Elements(delivered)
             HeldNext == Elements(wire') \cup Elements(pending') \cup Elements(delivered')
  <1>1. ASSUME Inv, [Next]_vars, call.op \in {"ready", "wait"},
               NEW m \in Held, m.kind = "action"
        PROVE  m \in HeldNext
    <2>1. TypeOK /\ TypeOK'
      BY <1>1, InvStep DEF Inv
    <2>2. /\ wire \in Seq(Message) /\ wire' \in Seq(Message)
          /\ pending \in Seq(Message) /\ pending' \in Seq(Message)
          /\ delivered \in Seq(Message) /\ delivered' \in Seq(Message)
      BY <2>1 DEF TypeOK
    <2>3. CASE UNCHANGED <<wire, pending, delivered>>
      BY <1>1, <2>3
    <2>4. CASE Guest
      <3>1. UNCHANGED <<pending, delivered>> /\ \E n \in Message : IsAppended(wire', wire, n)
        BY <2>1, <2>4, Sends
      <3>2. Elements(wire) \subseteq Elements(wire')
        BY <2>2, <3>1, ElementsAppended
      <3> QED
        BY <1>1, <3>1, <3>2
    <2>5. ASSUME NEW a \in Action, WaitForGuestAction(a) PROVE m \in HeldNext
      <3>1. CASE UNCHANGED <<pending, delivered>>
        BY <1>1, <2>5, <3>1 DEF WaitForGuestAction
      <3>2. CASE dequeueGuestAction(a)
        <4>1. PICK k \in 1..Len(pending) : /\ IsRemoved(pending', pending, k)
                                           /\ IsAppended(delivered', delivered, pending[k])
          BY <2>1, <3>2, Dequeues
        <4>2. Elements(pending) \subseteq Elements(pending') \cup {pending[k]}
          BY <2>2, <4>1, ElementsRemoved
        <4>3. Elements(delivered) \cup {pending[k]} \subseteq Elements(delivered')
          BY <2>2, <4>1, ElementsAppended
        <4>4. wire' = wire
          BY <2>5 DEF WaitForGuestAction
        <4> QED
          BY <1>1, <4>2, <4>3, <4>4
      <3> QED
        BY <2>5, <3>1, <3>2 DEF WaitForGuestAction
    <2>6. CASE ReadAction
      <3>1. IsTail(wire', wire) /\ Head(wire) = wire[1] /\ wire[1] \in Message
        BY <2>1, <2>6, Reads DEF ReadAction
      <3>2. Elements(wire) \subseteq Elements(wire') \cup {wire[1]}
        BY <2>2, <3>1, ElementsTail
      <3>3. CASE delivered' = Append(delivered, wire[1]) /\ pending' = pending
        <4>1. Elements(delivered) \cup {wire[1]} \subseteq Elements(delivered')
          <5>1. IsAppended(delivered', delivered, wire[1])
            BY <2>2, <3>1, <3>3, Appended
          <5> QED
            BY <2>2, <5>1, ElementsAppended
        <4> QED
          BY <1>1, <3>2, <3>3, <4>1
      <3>4. CASE pending' = Append(pending, wire[1]) /\ delivered' = delivered
        <4>1. Elements(pending) \cup {wire[1]} \subseteq Elements(pending')
          <5>1. IsAppended(pending', pending, wire[1])
            BY <2>2, <3>1, <3>4, Appended
          <5> QED
            BY <2>2, <5>1, ElementsAppended
        <4> QED
          BY <1>1, <3>2, <3>4, <4>1
      <3>5. CASE wire[1].kind # "action" /\ UNCHANGED <<pending, delivered>>
        BY <1>1, <3>2, <3>5
      <3> QED
        BY <2>6, <3>1, <3>3, <3>4, <3>5 DEF ReadAction
    <2>7. CASE ReadMalformed
      <3>1. IsTail(wire', wire) /\ wire[1].kind = "malformed"
        BY <2>1, <2>7, Reads DEF ReadMalformed
      <3>2. Elements(wire) \subseteq Elements(wire') \cup {wire[1]}
        BY <2>2, <3>1, ElementsTail
      <3> QED
        BY <1>1, <2>7, <3>1, <3>2 DEF ReadMalformed
    <2>8. ~ReadAck /\ ~ReadReply
      BY <1>1 DEF ReadAck, ReadReply, Reading
    <2>9. AckTimeout \/ ReplyTimeout \/ Drop \/ UNCHANGED vars
             => UNCHANGED <<wire, pending, delivered>>
      BY DEF AckTimeout, ReplyTimeout, Drop, vars
    <2>10. \A r \in Response : SendSystemRequest(r) => UNCHANGED <<wire, pending, delivered>>
      BY DEF SendSystemRequest
    <2> HIDE DEF Held, HeldNext
    <2> QED
      BY <1>1, <2>3, <2>4, <2>5, <2>6, <2>7, <2>8, <2>9, <2>10 DEF Next
  <1>2. ASSUME Inv, [Next]_vars, call.op \in {"ready", "wait"}
        PROVE  Actions(wire) \cup Actions(pending) \cup Actions(delivered)
                 \subseteq Actions(wire') \cup Actions(pending') \cup Actions(delivered')
    BY <1>1, <1>2 DEF Actions
  <1>3. Inv /\ [Next]_vars
           => [call.op \in {"ready", "wait"} =>
                  Actions(wire) \cup Actions(pending) \cup Actions(delivered)
                    \subseteq Actions(wire') \cup Actions(pending') \cup Actions(delivered')]_vars
    BY <1>2
  <1> QED
    BY InvInit, InvStep, <1>3, PTL DEF Spec, NoActionLostWaiting
=============================================================================
