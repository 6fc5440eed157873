--------------------------- MODULE RabbitMqProofs ---------------------------
(***************************************************************************)
(* Proofs about the shared connection, for any number of publishers, dial  *)
(* attempts and connections.                                               *)
(***************************************************************************)
EXTENDS RabbitMq, TLAPS

\* Whoever dials holds the mutex, found the connection lost, and was not told to
\* stop: nothing of that can change until the mutex is released.
DialUnderMutex ==
    \A p \in Publisher : at[p] = "dial" => mu = p /\ conn \notin live /\ ~closed

Inv == TypeOK /\ OneConnection /\ ClosedForGood /\ DialUnderMutex

LEMMA InvInit == Init => Inv
  <1> SUFFICES ASSUME Init PROVE Inv
    OBVIOUS
  <1>1. 1 \in Connection /\ 0 \in 0..(Attempts - 1)
    BY AttemptsAssumption, MaxConnectionAssumption DEF Connection
  <1>2. TypeOK
    BY <1>1 DEF Init, TypeOK, Point
  <1>3. OneConnection /\ ClosedForGood /\ DialUnderMutex
    BY DEF Init, OneConnection, ClosedForGood, DialUnderMutex
  <1> QED
    BY <1>2, <1>3 DEF Inv

\* The steps that touch neither the connection nor the mutex, and dial nothing.
LEMMA AsideStep ==
  ASSUME Inv, NEW p \in Publisher, NEW point \in Point \ {"dial"}, Goto(p, point),
         UNCHANGED <<live, conn, closed, mu, tries, shutdown>>,
         channel' \in Connection \cup {0}, got' = got,
         again' \in [Publisher -> BOOLEAN]
  PROVE  Inv'
  BY DEF Goto, Inv, TypeOK, OneConnection, ClosedForGood, DialUnderMutex

LEMMA OpenConnectionStep ==
  ASSUME Inv, NEW p \in Publisher, OpenConnection(p)
  PROVE  Inv'
  <1>1. at[p] = "open" /\ mu = Nobody
    BY DEF OpenConnection
  <1>2. \A q \in Publisher : at[q] # "dial"
    BY <1>1, NobodyAssumption DEF Inv, DialUnderMutex
  <1>3. CASE Fail(p) /\ UNCHANGED <<mu, got, tries>>
    BY <1>2, <1>3 DEF OpenConnection, Fail, Goto, Point, Inv, TypeOK, OneConnection,
                      ClosedForGood, DialUnderMutex
  <1>4. CASE got' = [got EXCEPT ![p] = conn] /\ Goto(p, "channel") /\ UNCHANGED <<mu, tries>>
    BY <1>2, <1>4 DEF OpenConnection, Goto, Point, Inv, TypeOK, OneConnection,
                      ClosedForGood, DialUnderMutex
  <1>5. CASE /\ MayConnect /\ ConnectionLost
             /\ mu' = p /\ tries' = 0 /\ Goto(p, "dial") /\ UNCHANGED got
    <2>1. TypeOK'
      BY <1>5, AttemptsAssumption DEF OpenConnection, Goto, Point, Inv, TypeOK
    <2>2. OneConnection' /\ ClosedForGood'
      BY DEF OpenConnection, Inv, OneConnection, ClosedForGood
    <2>3. DialUnderMutex'
      BY <1>2, <1>5 DEF OpenConnection, MayConnect, ConnectionLost, Goto, Inv, TypeOK,
                        DialUnderMutex
    <2> QED
      BY <2>1, <2>2, <2>3 DEF Inv
  <1> QED
    BY <1>3, <1>4, <1>5 DEF OpenConnection

LEMMA DialStep ==
  ASSUME Inv, NEW p \in Publisher, DialSucceeds(p) \/ DialFails(p)
  PROVE  Inv'
  <1>1. /\ at[p] = "dial" /\ mu = p /\ conn \notin live /\ ~closed
        /\ \A q \in Publisher : at[q] = "dial" => q = p
    BY DEF DialSucceeds, DialFails, Inv, DialUnderMutex
  <1>2. live = {}
    BY <1>1 DEF Inv, OneConnection
  <1>3. CASE DialSucceeds(p)
    <2>1. conn' \in Connection
      BY <1>3, MaxConnectionAssumption DEF DialSucceeds, Inv, TypeOK, Connection
    <2>2. TypeOK'
      BY <1>2, <1>3, <2>1 DEF DialSucceeds, Goto, Point, Inv, TypeOK
    <2>3. OneConnection' /\ ClosedForGood'
      BY <1>1, <1>2, <1>3 DEF DialSucceeds, OneConnection, ClosedForGood
    <2>4. DialUnderMutex'
      BY <1>1, <1>3 DEF DialSucceeds, Goto, Inv, TypeOK, DialUnderMutex
    <2> QED
      BY <2>2, <2>3, <2>4 DEF Inv
  <1>4. CASE DialFails(p)
    <2>1. TypeOK'
      BY <1>4, AttemptsAssumption DEF DialFails, Fail, Goto, Point, Inv, TypeOK
    <2>2. OneConnection' /\ ClosedForGood'
      BY <1>4 DEF DialFails, Inv, OneConnection, ClosedForGood
    <2>3. DialUnderMutex'
      BY <1>1, <1>4 DEF DialFails, Fail, Goto, Inv, TypeOK, DialUnderMutex
    <2> QED
      BY <2>1, <2>2, <2>3 DEF Inv
  <1> QED
    BY <1>3, <1>4

LEMMA StepInv ==
  ASSUME Inv, NEW p \in Publisher, Publish(p) \/ Step(p)
  PROVE  Inv'
  <1> USE DEF Point
  <1>1. CASE Publish(p)
    <2>1. again' \in [Publisher -> BOOLEAN]
      BY <1>1 DEF Publish, Inv, TypeOK
    <2> QED
      BY <1>1, <2>1, AsideStep DEF Publish, Inv, TypeOK
  <1>2. CASE CheckChannel(p)
    <2>1. PICK point \in {"publish", "open"} : Goto(p, point)
      BY <1>2 DEF CheckChannel
    <2> QED
      BY <1>2, <2>1, AsideStep DEF CheckChannel, Inv, TypeOK
  <1>3. CASE OpenChannel(p)
    <2>1. PICK point \in {"assign", "idle", "open"} : Goto(p, point)
      BY <1>3 DEF OpenChannel, Fail
    <2>2. again' \in [Publisher -> BOOLEAN]
      BY <1>3 DEF OpenChannel, Inv, TypeOK
    <2> QED
      BY <1>3, <2>1, <2>2, AsideStep DEF OpenChannel, Inv, TypeOK
  <1>4. CASE AssignChannel(p)
    <2>1. channel' \in Connection
      BY <1>4 DEF AssignChannel, Inv, TypeOK
    <2> QED
      BY <1>4, <2>1, AsideStep DEF AssignChannel, Inv, TypeOK
  <1>5. CASE PublishWithContext(p)
    BY <1>5, AsideStep DEF PublishWithContext, Inv, TypeOK
  <1> QED
    BY <1>1, <1>2, <1>3, <1>4, <1>5, OpenConnectionStep, DialStep DEF Step

LEMMA InvStep == Inv /\ [Next]_vars => Inv'
  <1> SUFFICES ASSUME Inv, [Next]_vars PROVE Inv'
    OBVIOUS
  <1> USE DEF Inv, TypeOK, OneConnection, ClosedForGood, DialUnderMutex
  <1>1. CASE UNCHANGED vars
    BY <1>1 DEF vars, goroutines
  <1>2. CASE Lose
    BY <1>2 DEF Lose, goroutines
  <1>3. CASE LoseChannel \/ Signal \/ CloseChannel
    BY <1>3 DEF LoseChannel, Signal, CloseChannel, goroutines
  <1>4. CASE Close
    BY <1>4, NobodyAssumption DEF Close, goroutines
  <1> QED
    BY <1>1, <1>2, <1>3, <1>4, StepInv DEF Next

LEMMA InvAlways == Spec => []Inv
  BY InvInit, InvStep, PTL DEF Spec

\* The types of the shared connection, for any number of publishers.
THEOREM RabbitMqTyped == Spec => []TypeOK
  BY InvAlways, PTL DEF Inv

\* Reconnecting goroutines never leave a second connection open.
THEOREM OneConnectionAtATime == Spec => []OneConnection
  BY InvAlways, PTL DEF Inv

\* No connection is open after Close, whoever was reconnecting.
THEOREM CloseIsFinal == Spec => []ClosedForGood
  BY InvAlways, PTL DEF Inv

-----------------------------------------------------------------------------
(***************************************************************************)
(* That a publish ends is left to TLC, with the fairness it needs.  What   *)
(* does not depend on fairness is proved: who holds the mutex waits for    *)
(* nobody, and a publish has a bounded number of steps before it, whatever *)
(* the broker and the other goroutines do.                                 *)
(***************************************************************************)
HolderDials == mu # Nobody => mu \in Publisher /\ at[mu] = "dial"

\* The mutex is held only by a goroutine that dials: it is never waited for by
\* somebody its holder waits for, and shutdown waits for no more than a dial.
THEOREM HolderNeverWaits == Spec => []HolderDials
  <1>1. Init => HolderDials
    BY DEF Init, HolderDials
  <1>2. Inv /\ HolderDials /\ [Next]_vars => HolderDials'
    <2> SUFFICES ASSUME Inv, HolderDials, [Next]_vars PROVE HolderDials'
      OBVIOUS
    <2> USE DEF HolderDials
    <2>1. ASSUME NEW p \in Publisher, at[p] # "dial", NEW point \in Point, Goto(p, point),
                 mu' = mu
          PROVE  HolderDials'
      BY <2>1 DEF Goto, Inv, TypeOK
    <2>2. ASSUME NEW p \in Publisher, OpenConnection(p) PROVE HolderDials'
      BY <2>2, NobodyAssumption DEF OpenConnection, Goto, Inv, TypeOK
    <2>3. ASSUME NEW p \in Publisher, DialSucceeds(p) \/ DialFails(p) PROVE HolderDials'
      BY <2>3 DEF DialSucceeds, DialFails, Fail, Goto
    <2>4. ASSUME NEW p \in Publisher,
                 \/ Publish(p) \/ CheckChannel(p) \/ OpenChannel(p) \/ AssignChannel(p)
                 \/ PublishWithContext(p)
          PROVE  HolderDials'
      <3>1. at[p] # "dial" /\ mu' = mu
        BY <2>4 DEF Publish, CheckChannel, OpenChannel, AssignChannel, PublishWithContext
      <3>2. \E point \in Point : Goto(p, point)
        BY <2>4 DEF Publish, CheckChannel, OpenChannel, AssignChannel, PublishWithContext,
                    Fail, Point
      <3> QED
        BY <2>1, <3>1, <3>2
    <2>5. CASE Lose \/ LoseChannel \/ Signal \/ CloseChannel \/ Close \/ UNCHANGED vars
      BY <2>5 DEF Lose, LoseChannel, Signal, CloseChannel, Close, vars, goroutines
    <2> QED
      BY <2>2, <2>3, <2>4, <2>5 DEF Next, Step
  <1> QED
    BY <1>1, <1>2, InvAlways, PTL DEF Spec

\* The most steps a goroutine takes before its publish returns: every dial attempt may
\* fail, and openChannel may ask for a connection twice.
Steps(point, second, failed) ==
    LET more == IF second THEN 0 ELSE Attempts + 2 IN
    CASE point = "check"   -> 2 * Attempts + 7
      [] point = "open"    -> Attempts + 4 + more
      [] point = "dial"    -> (Attempts - failed) + 3 + more
      [] point = "channel" -> 3 + more
      [] point = "assign"  -> 2
      [] point = "publish" -> 1
      [] point = "idle"    -> 0

StepsLeft(p) == Steps(at[p], again[p], tries)

LEMMA StepsByPoint ==
    ASSUME NEW second \in BOOLEAN, NEW failed \in 0..(Attempts - 1)
    PROVE  /\ Steps("check", second, failed) = 2 * Attempts + 7
           /\ second = TRUE => /\ Steps("open", second, failed) = Attempts + 4
                               /\ Steps("dial", second, failed) = (Attempts - failed) + 3
                               /\ Steps("channel", second, failed) = 3
           /\ second = FALSE => /\ Steps("open", second, failed) = 2 * Attempts + 6
                                /\ Steps("dial", second, failed)
                                       = (Attempts - failed) + Attempts + 5
                                /\ Steps("channel", second, failed) = Attempts + 5
           /\ Steps("assign", second, failed) = 2
           /\ Steps("publish", second, failed) = 1
           /\ Steps("idle", second, failed) = 0
           /\ Attempts \in Nat /\ failed \in Nat /\ failed < Attempts
           /\ second = TRUE \/ second = FALSE
  <1>1. Attempts \in Nat /\ failed \in Nat /\ failed < Attempts
    BY AttemptsAssumption
  <1>2. CASE second = TRUE
    BY <1>1, <1>2 DEF Steps
  <1>3. CASE second = FALSE
    BY <1>1, <1>3 DEF Steps
  <1> QED
    BY <1>1, <1>2, <1>3

LEMMA StepsBounded ==
    ASSUME NEW point \in Point, NEW second \in BOOLEAN, NEW failed \in 0..(Attempts - 1)
    PROVE  Steps(point, second, failed) \in 0..(2 * Attempts + 7)
  <1> DEFINE steps(x) == Steps(x, second, failed)
             Bounded(x) == steps(x) \in 0..(2 * Attempts + 7)
  <1>1. /\ steps("check") = 2 * Attempts + 7
        /\ second = TRUE => /\ steps("open") = Attempts + 4
                            /\ steps("dial") = (Attempts - failed) + 3
                            /\ steps("channel") = 3
        /\ second = FALSE => /\ steps("open") = 2 * Attempts + 6
                             /\ steps("dial") = (Attempts - failed) + Attempts + 5
                             /\ steps("channel") = Attempts + 5
        /\ steps("assign") = 2 /\ steps("publish") = 1 /\ steps("idle") = 0
        /\ Attempts \in Nat /\ failed \in Nat /\ failed < Attempts
        /\ second = TRUE \/ second = FALSE
    BY StepsByPoint
  <1> HIDE DEF steps
  <1>2. Bounded("check") /\ Bounded("assign") /\ Bounded("publish") /\ Bounded("idle")
    BY <1>1
  <1>3. Bounded("open") /\ Bounded("dial") /\ Bounded("channel")
    <2>1. CASE second = TRUE
      BY <1>1, <2>1
    <2>2. CASE second = FALSE
      BY <1>1, <2>2
    <2> QED
      BY <1>1, <2>1, <2>2
  <1> HIDE DEF Bounded
  <1>4. Bounded(point)
    BY <1>2, <1>3 DEF Point
  <1> QED
    BY <1>4 DEF Bounded, steps

\* The moves of a goroutine that publishes.
Forward(x, second, failed, y, secondNext, failedNext) ==
    \/ x = "check" /\ y \in {"publish", "open"}
    \/ x = "open" /\ y \in {"idle", "channel", "dial"} /\ secondNext = second
    \/ x = "dial" /\ y \in {"channel", "idle"} /\ secondNext = second
    \/ x = "dial" /\ y = "dial" /\ secondNext = second /\ failedNext = failed + 1
    \/ x = "channel" /\ y \in {"assign", "idle"}
    \/ x = "channel" /\ y = "open" /\ second = FALSE /\ secondNext = TRUE
    \/ x = "assign" /\ y = "publish"
    \/ x = "publish" /\ y = "idle"

LEMMA ForwardNearer ==
    ASSUME NEW x \in Point, NEW second \in BOOLEAN, NEW failed \in 0..(Attempts - 1),
           NEW y \in Point, NEW secondNext \in BOOLEAN, NEW failedNext \in 0..(Attempts - 1),
           Forward(x, second, failed, y, secondNext, failedNext)
    PROVE  Steps(y, secondNext, failedNext) < Steps(x, second, failed)
  <1> DEFINE before(z) == Steps(z, second, failed)
             after(z) == Steps(z, secondNext, failedNext)
  <1>1. /\ before("check") = 2 * Attempts + 7
        /\ second = TRUE => /\ before("open") = Attempts + 4
                            /\ before("dial") = (Attempts - failed) + 3
                            /\ before("channel") = 3
        /\ second = FALSE => /\ before("open") = 2 * Attempts + 6
                             /\ before("dial") = (Attempts - failed) + Attempts + 5
                             /\ before("channel") = Attempts + 5
        /\ before("assign") = 2 /\ before("publish") = 1
        /\ Attempts \in Nat /\ failed \in Nat /\ failed < Attempts
        /\ second = TRUE \/ second = FALSE
    BY StepsByPoint
  <1>2. /\ secondNext = TRUE => /\ after("open") = Attempts + 4
                                /\ after("dial") = (Attempts - failedNext) + 3
                                /\ after("channel") = 3
        /\ secondNext = FALSE => /\ after("open") = 2 * Attempts + 6
                                 /\ after("dial") = (Attempts - failedNext) + Attempts + 5
                                 /\ after("channel") = Attempts + 5
        /\ after("assign") = 2 /\ after("publish") = 1 /\ after("idle") = 0
        /\ failedNext \in Nat /\ failedNext < Attempts
        /\ secondNext = TRUE \/ secondNext = FALSE
    BY StepsByPoint
  <1> HIDE DEF before, after
  <1>3. CASE second = TRUE
    <2>0. second # FALSE
      BY <1>3
    <2>1. CASE x = "channel" \/ x = "assign" \/ x = "publish"
      <3>1. \/ x = "channel" /\ y \in {"assign", "idle"}
            \/ x = "assign" /\ y = "publish"
            \/ x = "publish" /\ y = "idle"
        BY <2>0, <2>1 DEF Forward
      <3>2. after(y) < before(x)
        BY <1>1, <1>2, <1>3, <3>1
      <3> QED
        BY <3>2 DEF before, after
    <2>2. CASE x = "dial" \/ x = "open"
      <3>1. /\ secondNext = TRUE
            /\ \/ x = "open" /\ y \in {"idle", "channel", "dial"}
               \/ x = "dial" /\ y \in {"channel", "idle"}
               \/ x = "dial" /\ y = "dial" /\ failedNext = failed + 1
        BY <1>3, <2>2 DEF Forward
      <3>2. after(y) < before(x)
        BY <1>1, <1>2, <1>3, <3>1
      <3> QED
        BY <3>2 DEF before, after
    <2>3. CASE x = "check"
      <3>1. after(y) < before(x)
        BY <1>1, <1>2, <1>3, <2>3 DEF Forward
      <3> QED
        BY <3>1 DEF before, after
    <2> QED
      BY <2>1, <2>2, <2>3 DEF Forward
  <1>4. CASE second = FALSE
    <2>1. after(y) < before(x)
      BY <1>1, <1>2, <1>4 DEF Forward
    <2> QED
      BY <2>1 DEF before, after
  <1> QED
    BY <1>1, <1>3, <1>4

\* A step of the goroutine brings its publish nearer to its end.
LEMMA StepsDecrease ==
    ASSUME Inv, Inv', NEW p \in Publisher, Step(p)
    PROVE  StepsLeft(p)' < StepsLeft(p)
  <1>1. /\ tries \in 0..(Attempts - 1) /\ tries' \in 0..(Attempts - 1)
        /\ again[p] \in BOOLEAN /\ again'[p] \in BOOLEAN
        /\ at[p] \in Point /\ at'[p] \in Point
        /\ at \in [Publisher -> Point] /\ again \in [Publisher -> BOOLEAN]
    BY DEF Inv, TypeOK
  <1> DEFINE Moved == Forward(at[p], again[p], tries, at'[p], again'[p], tries')
  <1>2. Moved
    <2>1. CASE CheckChannel(p)
      BY <1>1, <2>1 DEF CheckChannel, Goto, Forward
    <2>2. CASE OpenConnection(p)
      BY <1>1, <2>2 DEF OpenConnection, Goto, Fail, Forward
    <2>3. CASE DialSucceeds(p)
      BY <1>1, <2>3 DEF DialSucceeds, Goto, Forward
    <2>4. CASE DialFails(p)
      BY <1>1, <2>4 DEF DialFails, Goto, Fail, Forward
    <2>5. CASE OpenChannel(p)
      <3>1. CASE at'[p] \in {"assign", "idle"}
        BY <2>5, <3>1 DEF OpenChannel, Forward
      <3>2. CASE at'[p] \notin {"assign", "idle"}
        <4>1. at[p] = "channel" /\ at'[p] = "open" /\ ~again[p] /\ again'[p] = TRUE
          BY <1>1, <2>5, <3>2 DEF OpenChannel, Goto, Fail
        <4>2. again[p] = FALSE
          BY <1>1, <4>1
        <4> QED
          BY <4>1, <4>2 DEF Forward
      <3> QED
        BY <3>1, <3>2
    <2>6. CASE AssignChannel(p) \/ PublishWithContext(p)
      BY <1>1, <2>6 DEF AssignChannel, PublishWithContext, Goto, Forward
    <2> QED
      BY <2>1, <2>2, <2>3, <2>4, <2>5, <2>6 DEF Step
  <1> QED
    BY <1>1, <1>2, ForwardNearer DEF StepsLeft

\* No step of anybody else does, or takes it further away.
LEMMA StepsOfOthers ==
    ASSUME Inv, Inv', NEW p \in Publisher, [Next]_vars, ~Step(p), ~Publish(p)
    PROVE  StepsLeft(p)' = StepsLeft(p)
  <1>1. /\ at \in [Publisher -> Point] /\ again \in [Publisher -> BOOLEAN]
        /\ tries \in 0..(Attempts - 1) /\ tries' \in 0..(Attempts - 1)
    BY DEF Inv, TypeOK
  <1>2. ASSUME UNCHANGED <<at, again, tries>> PROVE StepsLeft(p)' = StepsLeft(p)
    BY <1>2 DEF StepsLeft
  <1>3. ASSUME NEW q \in Publisher, q # p, Publish(q) \/ Step(q)
        PROVE  StepsLeft(p)' = StepsLeft(p)
    <2>1. at'[p] = at[p] /\ again'[p] = again[p]
      BY <1>1, <1>3 DEF Publish, Step, CheckChannel, OpenConnection, DialSucceeds, DialFails,
                  OpenChannel, AssignChannel, PublishWithContext, Goto, Fail
    <2>2. CASE tries' = tries
      BY <2>1, <2>2 DEF StepsLeft
    <2>3. CASE tries' # tries
      <3>1. OpenConnection(q) \/ DialFails(q)
        BY <1>3, <2>3 DEF Publish, Step, CheckChannel, DialSucceeds, OpenChannel,
                    AssignChannel, PublishWithContext
      <3>2. mu = Nobody \/ mu = q
        BY <3>1 DEF OpenConnection, DialFails, Inv, DialUnderMutex
      <3>3. at[p] # "dial"
        BY <1>3, <3>2, NobodyAssumption DEF Inv, DialUnderMutex
      <3>4. Steps(at[p], again[p], tries') = Steps(at[p], again[p], tries)
        BY <3>3 DEF Steps
      <3> QED
        BY <2>1, <3>4 DEF StepsLeft
    <2> QED
      BY <2>2, <2>3
  <1>4. CASE Lose \/ LoseChannel \/ Signal \/ CloseChannel \/ Close \/ UNCHANGED vars
    <2>1. UNCHANGED <<at, again, tries>>
      BY <1>4 DEF Lose, LoseChannel, Signal, CloseChannel, Close, vars, goroutines
    <2> QED
      BY <1>2, <2>1
  <1> QED
    BY <1>3, <1>4 DEF Next

StepsTaken ==
    \A p \in Publisher :
        /\ StepsLeft(p) \in 0..(2 * Attempts + 7)
        /\ Step(p) => StepsLeft(p)' < StepsLeft(p)
        /\ ~Step(p) /\ ~Publish(p) => StepsLeft(p)' = StepsLeft(p)

\* A publish takes at most 2 * Attempts + 7 steps, two rounds of dials among them: it
\* cannot be kept busy for ever by a broker that fails, or by goroutines that reconnect.
THEOREM PublishBounded == Spec => [][StepsTaken]_vars
  <1>1. Inv /\ Inv' /\ [Next]_vars => StepsTaken
    <2> SUFFICES ASSUME Inv, Inv', [Next]_vars, NEW p \in Publisher
                 PROVE  /\ StepsLeft(p) \in 0..(2 * Attempts + 7)
                        /\ Step(p) => StepsLeft(p)' < StepsLeft(p)
                        /\ ~Step(p) /\ ~Publish(p) => StepsLeft(p)' = StepsLeft(p)
      BY DEF StepsTaken
    <2>1. StepsLeft(p) \in 0..(2 * Attempts + 7)
      BY StepsBounded DEF StepsLeft, Inv, TypeOK
    <2> QED
      BY <2>1, StepsDecrease, StepsOfOthers
  <1> QED
    BY <1>1, InvAlways, PTL DEF Spec
=============================================================================
