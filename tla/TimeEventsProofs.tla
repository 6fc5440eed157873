-------------------------- MODULE TimeEventsProofs --------------------------
(***************************************************************************)
(* Proofs about the time event service, for any number of subscribers and  *)
(* events.                                                                 *)
(***************************************************************************)
EXTENDS TimeEvents, FiniteSetTheorems, TLAPS

\* An event still to be offered to a channel is newer than all its owner has had,
\* and the goroutine leaves no offer behind when it selects again.
Fresh ==
    /\ \A s \in Subscriber : chan[s] # 0 => seen[s] < chan[s]
    /\ \A s \in Subscriber : chan[s] <= last[StreamOf[s]] /\ seen[s] <= last[StreamOf[s]]
    /\ \A s \in todo : chan[s] < last[stream] /\ seen[s] < last[stream]
    /\ \A k \in Stream : last[k] <= taken[k]
    /\ op \in {"select", "stopped"} => todo = {}

Inv == TypeOK /\ Fresh /\ ReplacementFits

LEMMA TypedInit == Init => TypeOK
  BY StreamOfAssumption, MaxEventAssumption DEF Init, TypeOK, Stream, Event

\* Every action keeps the types; those of the subscribers and the broker leave
\* Start alone, those of Start the broker.
LEMMA TypedStep == TypeOK /\ [Next]_vars => TypeOK'
  <1> SUFFICES ASSUME TypeOK, [Next]_vars PROVE TypeOK'
    OBVIOUS
  <1> USE StreamOfAssumption, MaxEventAssumption DEF TypeOK, Stream, Event
  <1>1. CASE UNCHANGED vars
    BY <1>1 DEF vars, broker, loop
  <1>2. ASSUME NEW k \in Stream, Emit(k) PROVE TypeOK'
    BY <1>2 DEF Emit, loop
  <1>3. ASSUME NEW k \in Stream, Close(k) PROVE TypeOK'
    <2>1. PICK kept \in taken[k]..emitted[k] : emitted' = [emitted EXCEPT ![k] = kept]
      BY <1>3 DEF Close
    <2>2. kept \in 0..MaxEvent
      OBVIOUS
    <2> QED
      BY <1>3, <2>1, <2>2 DEF Close, loop
  <1>4. ASSUME NEW k \in Stream, Discard(k) PROVE TypeOK'
    BY <1>4 DEF Discard, Delivered, broker
  <1>5. CASE Stop
    BY <1>5 DEF Stop, broker
  <1>6. ASSUME NEW s \in Subscriber, Register(s) \/ Unregister(s) PROVE TypeOK'
    BY <1>6 DEF Register, Unregister, broker, loop
  <1>7. ASSUME NEW s \in Subscriber, Receive(s) PROVE TypeOK'
    BY <1>7 DEF Receive, broker, loop
  <1>8. ASSUME NEW k \in Stream, Notify(k) PROVE TypeOK'
    BY <1>8 DEF Notify, Delivered, Registered, broker
  <1>9. ASSUME NEW s \in Subscriber, Offer(s) PROVE TypeOK'
    BY <1>9 DEF Offer, Put, broker
  <1>10. CASE Drain
    BY <1>10 DEF Drain, broker
  <1>11. CASE Retry
    BY <1>11 DEF Retry, Put, broker
  <1>12. CASE Return
    BY <1>12 DEF Return, broker
  <1> QED
    BY <1>1, <1>2, <1>3, <1>4, <1>5, <1>6, <1>7, <1>8, <1>9, <1>10, <1>11, <1>12
       DEF Next, Publish

LEMMA FreshStep == Inv /\ [Next]_vars => Fresh' /\ ReplacementFits'
  <1> SUFFICES ASSUME Inv, [Next]_vars PROVE Fresh' /\ ReplacementFits'
    OBVIOUS
  <1> USE StreamOfAssumption, MaxEventAssumption
          DEF Inv, TypeOK, Stream, Event, Fresh, ReplacementFits
  <1>1. CASE UNCHANGED vars
    BY <1>1 DEF vars, broker, loop
  <1>2. ASSUME NEW k \in Stream, Emit(k) \/ Close(k) PROVE Fresh' /\ ReplacementFits'
    BY <1>2 DEF Emit, Close, loop
  <1>4. ASSUME NEW k \in Stream, Discard(k) PROVE Fresh' /\ ReplacementFits'
    BY <1>4 DEF Discard, Delivered, broker
  <1>5. CASE Stop
    BY <1>5 DEF Stop, broker
  <1>6. ASSUME NEW s \in Subscriber, Register(s) \/ Unregister(s)
        PROVE  Fresh' /\ ReplacementFits'
    BY <1>6 DEF Register, Unregister, broker, loop
  <1>7. ASSUME NEW s \in Subscriber, Receive(s) PROVE Fresh' /\ ReplacementFits'
    BY <1>7 DEF Receive, broker, loop
  <1>8. ASSUME NEW k \in Stream, Notify(k) PROVE Fresh' /\ ReplacementFits'
    <2>1. last'[k] = taken[k] + 1 /\ last[k] <= taken[k]
      BY <1>8 DEF Notify
    <2>2. \A s \in todo' : StreamOf[s] = k
      BY <1>8 DEF Notify, Registered
    <2> QED
      BY <1>8, <2>1, <2>2 DEF Notify, Delivered, broker, Registered
  <1>9. ASSUME NEW s \in Subscriber, Offer(s) PROVE Fresh' /\ ReplacementFits'
    BY <1>9 DEF Offer, Put, broker
  <1>10. CASE Drain
    BY <1>10 DEF Drain, broker
  <1>11. CASE Retry
    BY <1>11 DEF Retry, Put, broker
  <1>12. CASE Return
    BY <1>12 DEF Return, broker
  <1> QED
    BY <1>1, <1>2, <1>4, <1>5, <1>6, <1>7, <1>8, <1>9, <1>10, <1>11, <1>12
       DEF Next, Publish

LEMMA Invariance == Spec => []Inv
  <1>1. Init => Inv
    BY TypedInit, StreamOfAssumption, MaxEventAssumption
       DEF Init, Inv, Fresh, ReplacementFits, Stream
  <1>2. Inv /\ [Next]_vars => Inv'
    BY TypedStep, FreshStep DEF Inv
  <1> QED
    BY <1>1, <1>2, PTL DEF Spec

\* The variables of the fan-out keep their types, and the one goroutine never
\* leaves the channels of one stream for those of the other.
THEOREM TimeEventsTyped == Spec => []TypeOK
  BY Invariance, PTL DEF Inv

\* A drained channel is still empty when the day event is sent again.
THEOREM ReplacementAlwaysFits == Spec => []ReplacementFits
  BY Invariance, PTL DEF Inv

LEMMA LatestStep == Inv /\ LatestKept /\ [Next]_vars => LatestKept'
  <1> SUFFICES ASSUME Inv, LatestKept, [Next]_vars PROVE LatestKept'
    OBVIOUS
  <1> USE StreamOfAssumption, MaxEventAssumption
          DEF Inv, TypeOK, Stream, Event, Fresh, ReplacementFits, LatestKept, DaySubscriber
  <1>1. CASE UNCHANGED vars
    BY <1>1 DEF vars, broker, loop
  <1>2. ASSUME NEW k \in Stream, Emit(k) \/ Close(k) \/ Discard(k) PROVE LatestKept'
    BY <1>2 DEF Emit, Close, Discard, Delivered, loop, broker
  <1>3. CASE Stop \/ Return
    BY <1>3 DEF Stop, Return, broker
  <1>4. ASSUME NEW s \in Subscriber, Register(s) \/ Unregister(s) \/ Receive(s)
        PROVE  LatestKept'
    BY <1>4 DEF Register, Unregister, Receive, broker, loop
  <1>5. ASSUME NEW k \in Stream, Notify(k) PROVE LatestKept'
    BY <1>5 DEF Notify, Delivered, Registered, broker
  <1>6. ASSUME NEW s \in Subscriber, Offer(s) PROVE LatestKept'
    BY <1>6 DEF Offer, Put, broker
  <1>7. CASE Drain \/ Retry
    BY <1>7 DEF Drain, Retry, Put, broker
  <1> QED
    BY <1>1, <1>2, <1>3, <1>4, <1>5, <1>6, <1>7 DEF Next, Publish

\* Replacing the stale event of a busy subscriber never loses the newest day
\* event, wherever the subscriber receives between the three channel operations.
THEOREM NewestDayKept == Spec => []LatestKept
  <1>1. Init => LatestKept
    BY DEF Init, LatestKept, Stream, DaySubscriber
  <1> QED
    BY <1>1, LatestStep, Invariance, PTL DEF Spec

LEMMA MailboxStep == Inv /\ Inv' /\ [Next]_vars => [M!Next]_M!vars
  <1> SUFFICES ASSUME Inv, Inv', [Next]_vars PROVE [M!Next]_M!vars
    OBVIOUS
  <1> USE StreamOfAssumption, MaxEventAssumption
          DEF Inv, TypeOK, Stream, Event, Fresh, ReplacementFits, box, M!vars
  <1>1. UNCHANGED vars => UNCHANGED M!vars
    BY DEF vars, broker, loop
  <1>2. ASSUME NEW k \in Stream, Emit(k) \/ Close(k) \/ Discard(k) \/ Notify(k)
        PROVE  UNCHANGED M!vars
    BY <1>2 DEF Emit, Close, Discard, Notify, Delivered, loop, broker
  <1>3. Stop \/ Return => UNCHANGED M!vars
    BY DEF Stop, Return, broker
  <1>4. ASSUME NEW s \in Subscriber, Register(s) \/ Unregister(s) PROVE UNCHANGED M!vars
    BY <1>4 DEF Register, Unregister, broker, loop
  <1>5. ASSUME NEW s \in Subscriber, Receive(s) PROVE M!Get(s)
    BY <1>5 DEF Receive, broker, loop, M!Get
  <1>6. ASSUME NEW s \in Subscriber, Offer(s) PROVE M!Put(s) \/ UNCHANGED M!vars
    BY <1>6 DEF Offer, Put, broker, M!Put
  <1>7. Drain => M!Put(target)
    BY DEF Drain, broker, M!Put
  <1>8. Retry => UNCHANGED M!vars
    BY DEF Retry, Put, broker
  <1>9. Drain => target \in Subscriber
    BY DEF Drain
  <1> HIDE DEF Inv, TypeOK, Fresh, ReplacementFits, box, M!vars
  <1> QED
    BY <1>1, <1>2, <1>3, <1>4, <1>5, <1>6, <1>7, <1>8, <1>9 DEF Next, Publish, M!Next

\* To its subscribers the fan-out is a mailbox each: the three operations that
\* replace a stale event are one.
THEOREM FanOutRefinesMailbox == Spec => MailboxRefined
  <1>1. Init => M!Init
    BY DEF Init, M!Init, box
  <1> QED
    BY <1>1, MailboxStep, Invariance, PTL DEF Spec, MailboxRefined, M!Spec

LEMMA NewerStep == M!Newer /\ [M!Next]_M!vars => M!Newer'
  <1> SUFFICES ASSUME M!Newer, [M!Next]_M!vars PROVE M!Newer'
    OBVIOUS
  <1> HIDE DEF box
  <1>1. CASE UNCHANGED M!vars
    BY <1>1 DEF M!vars, M!Newer
  <1>2. ASSUME NEW s \in Subscriber, M!Put(s) PROVE M!Newer'
    BY <1>2 DEF M!Put, M!Newer
  <1>3. ASSUME NEW s \in Subscriber, M!Get(s) PROVE M!Newer'
    BY <1>3 DEF M!Get, M!Newer
  <1> QED
    BY <1>1, <1>2, <1>3 DEF M!Next

\* Mailbox promises an order it does not state: boxes are overwritten and emptied at
\* any time, and yet no subscriber gets an event after a newer one, or twice.
THEOREM MailboxKeepsOrder == M!Spec => M!EventsInOrder
  <1>1. M!Init => M!Newer
    BY DEF M!Init, M!Newer
  <1>2. M!Newer /\ [M!Next]_M!vars
           => [\A s \in Subscriber : seen'[s] # seen[s] => seen'[s] > seen[s]]_M!vars
    <2> SUFFICES ASSUME M!Newer, NEW t \in Subscriber, M!Put(t) \/ M!Get(t),
                        NEW s \in Subscriber, seen'[s] # seen[s]
                 PROVE  seen'[s] > seen[s]
      BY DEF M!Next
    <2> HIDE DEF box
    <2>1. box[s] # 0 /\ seen'[s] = box[s]
      BY DEF M!Put, M!Get, M!Newer
    <2> QED
      BY <2>1 DEF M!Newer
  <1> QED
    BY <1>1, <1>2, NewerStep, PTL DEF M!Spec, M!EventsInOrder

\* So the subscribers of the time event service get their events in order: the three
\* operations on a busy channel never put an old event back behind a newer one.
THEOREM EventsReceivedInOrder == Spec => M!EventsInOrder
  BY FanOutRefinesMailbox, MailboxKeepsOrder, PTL DEF MailboxRefined

-----------------------------------------------------------------------------
(***************************************************************************)
(* That notify returns is left to TLC, with the fairness it needs.  What   *)
(* does not depend on fairness is proved: how many steps it has before it. *)
(***************************************************************************)
Steps(point, left) ==
    CASE point = "notify" -> 3 * Cardinality(left) + 1
      [] point = "drain"  -> 3 * Cardinality(left)
      [] point = "retry"  -> 3 * Cardinality(left) - 1
      [] OTHER            -> 0

StepsToReturn == Steps(op, todo)

NotifyStep == (\E s \in Subscriber : Offer(s)) \/ Drain \/ Retry \/ Return

StepsTaken ==
    /\ StepsToReturn \in Nat
    /\ NotifyStep => StepsToReturn' < StepsToReturn
    /\ ~NotifyStep /\ ~(\E k \in Stream : Notify(k)) => StepsToReturn' = StepsToReturn

LEMMA StepsByPoint ==
    ASSUME NEW left, IsFiniteSet(left)
    PROVE  /\ Cardinality(left) \in Nat
           /\ Steps("notify", left) = 3 * Cardinality(left) + 1
           /\ Steps("drain", left) = 3 * Cardinality(left)
           /\ Steps("retry", left) = 3 * Cardinality(left) - 1
           /\ Steps("select", left) = 0
           /\ Steps("stopped", left) = 0
  BY FS_CardinalityType DEF Steps

\* An event costs the goroutine of notify at most three steps for every registered channel
\* and one to return: each of its steps brings the return closer, and nothing a subscriber,
\* a registration or the broker does meanwhile sends it back.
THEOREM NotifyBounded ==
    ASSUME IsFiniteSet(Subscriber)
    PROVE  Spec => [][StepsTaken]_vars
  <1>1. ASSUME Inv, [Next]_vars PROVE StepsTaken
    <2>1. /\ IsFiniteSet(todo) /\ Cardinality(todo) \in Nat
          /\ op \in {"select", "notify", "drain", "retry", "stopped"}
      <3>1. todo \subseteq Subscriber /\ op \in {"select", "notify", "drain", "retry", "stopped"}
        BY <1>1 DEF Inv, TypeOK
      <3> QED
        BY <3>1, FS_Subset, FS_CardinalityType
    <2> DEFINE n == Cardinality(todo)
    <2>2. ASSUME NEW s \in todo
          PROVE  /\ IsFiniteSet(todo \ {s}) /\ Cardinality(todo \ {s}) = n - 1 /\ n > 0
                 /\ Cardinality(todo \ {s}) \in Nat
      <3>1. IsFiniteSet(todo \ {s}) /\ Cardinality(todo \ {s}) = n - 1
        BY <2>1, <2>2, FS_RemoveElement
      <3>2. Cardinality(todo \ {s}) \in Nat
        BY <3>1, FS_CardinalityType
      <3> QED
        BY <2>1, <3>1, <3>2
    <2>3. op \in {"drain", "retry"} => target \in todo
      BY <1>1 DEF Inv, TypeOK
    <2>4. StepsToReturn \in Nat
      <3>1. CASE op = "retry"
        <4>1. StepsToReturn = 3 * n - 1 /\ n > 0
          BY <2>1, <2>2, <2>3, <3>1, StepsByPoint DEF StepsToReturn
        <4> QED
          BY <2>1, <4>1
      <3>2. CASE op # "retry"
        BY <2>1, <3>2, StepsByPoint DEF StepsToReturn
      <3> QED
        BY <3>1, <3>2
    <2>5. ASSUME NEW s \in Subscriber, Offer(s) PROVE StepsToReturn' < StepsToReturn
      <3>1. op = "notify" /\ s \in todo /\ StepsToReturn = 3 * n + 1
        BY <2>1, <2>5, StepsByPoint DEF Offer, StepsToReturn
      <3>2. CASE todo' = todo \ {s} /\ op' = op
        <4>1. StepsToReturn' = 3 * (n - 1) + 1
          BY <2>2, <3>1, <3>2, StepsByPoint DEF StepsToReturn
        <4> QED
          BY <2>1, <3>1, <4>1
      <3>3. CASE todo' = todo /\ op' = "drain"
        <4>1. StepsToReturn' = 3 * n
          BY <2>1, <3>3, StepsByPoint DEF StepsToReturn
        <4> QED
          BY <2>1, <3>1, <4>1
      <3> QED
        BY <2>5, <3>2, <3>3 DEF Offer
    <2>6. ASSUME Drain PROVE StepsToReturn' < StepsToReturn
      <3>1. op = "drain" /\ op' = "retry" /\ todo' = todo
        BY <2>6 DEF Drain
      <3>2. StepsToReturn = Steps("drain", todo) /\ StepsToReturn' = Steps("retry", todo)
        BY <3>1 DEF StepsToReturn
      <3>3. Steps("drain", todo) = 3 * n
        BY <2>1, StepsByPoint
      <3>4. Steps("retry", todo) = 3 * n - 1
        BY <2>1, StepsByPoint
      <3> QED
        BY <2>1, <3>2, <3>3, <3>4
    <2>7. ASSUME Retry PROVE StepsToReturn' < StepsToReturn
      <3>1. op = "retry" /\ op' = "notify" /\ todo' = todo \ {target} /\ target \in todo
        BY <2>3, <2>7 DEF Retry
      <3>2. StepsToReturn = Steps("retry", todo) /\ StepsToReturn' = Steps("notify", todo \ {target})
        BY <3>1 DEF StepsToReturn
      <3>3. Steps("retry", todo) = 3 * n - 1
        BY <2>1, StepsByPoint
      <3>4. Steps("notify", todo \ {target}) = 3 * (n - 1) + 1
        BY <2>2, <3>1, StepsByPoint
      <3> QED
        BY <2>1, <3>2, <3>3, <3>4
    <2>8. ASSUME Return PROVE StepsToReturn' < StepsToReturn
      <3>1. op = "notify" /\ op' = "select" /\ todo' = todo
        BY <2>8 DEF Return
      <3>2. StepsToReturn = Steps("notify", todo) /\ StepsToReturn' = Steps("select", todo)
        BY <3>1 DEF StepsToReturn
      <3>3. Steps("notify", todo) = 3 * n + 1
        BY <2>1, StepsByPoint
      <3>4. Steps("select", todo) = 0
        BY <2>1, StepsByPoint
      <3> QED
        BY <2>1, <3>2, <3>3, <3>4
    <2>9. ASSUME ~NotifyStep, ~(\E k \in Stream : Notify(k))
          PROVE  StepsToReturn' = StepsToReturn
      <3>1. CASE Stop
        <4>1. op = "select" /\ op' = "stopped" /\ todo' = todo
          BY <3>1 DEF Stop
        <4> QED
          BY <2>1, <4>1, StepsByPoint DEF StepsToReturn
      <3>2. CASE ~Stop
        <4>1. op' = op /\ todo' = todo
          BY <1>1, <2>9, <3>2 DEF Next, Publish, NotifyStep, Emit, Close, Discard, Register,
                      Unregister, Receive, loop, vars
        <4> QED
          BY <4>1 DEF StepsToReturn
      <3> QED
        BY <3>1, <3>2
    <2> QED
      BY <2>4, <2>5, <2>6, <2>7, <2>8, <2>9 DEF StepsTaken, NotifyStep
  <1> QED
    BY <1>1, Invariance, PTL DEF Spec
=============================================================================
