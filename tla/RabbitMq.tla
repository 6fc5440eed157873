------------------------------ MODULE RabbitMq ------------------------------
(***************************************************************************)
(* The one RabbitMQ connection of the process and a producer's channel on  *)
(* it, as the goroutines that publish through the producer share them.     *)
(*                                                                         *)
(* The connection is opened again under a mutex, which is held for all the *)
(* dial attempts; the channel field is read and written without any.       *)
(* Shutdown closes the channel and then the connection while websocket     *)
(* sessions, which the HTTP server does not wait for, go on publishing.    *)
(***************************************************************************)
EXTENDS Naturals

CONSTANTS
    Publisher,      \* goroutines that publish cleaning orders
    Nobody,
    Attempts,       \* rabbitDialAttempts
    MaxConnection   \* bound on the connections opened

ASSUME NobodyAssumption        == Nobody \notin Publisher
ASSUME AttemptsAssumption      == Attempts \in Nat \ {0}
ASSUME MaxConnectionAssumption == MaxConnection \in Nat \ {0}

VARIABLES
    live,      \* the connections that are open
    conn,      \* RabbitMqConnection.conn; connections are numbered
    closed,    \* RabbitMqConnection.closed
    mu,        \* who holds RabbitMqConnection.mu across steps
    channel,   \* RabbitMqChannel.channel: the connection it is on; 0 when closed
    at,        \* publisher -> its next step
    got,       \* publisher -> the connection openConnection returned to it
    again,     \* publisher -> is openChannel at its second openConnection?
    tries,     \* failed dial attempts of the goroutine that holds mu
    shutdown   \* where the cleanup is

goroutines == <<at, got, again>>
vars == <<live, conn, closed, mu, channel, goroutines, tries, shutdown>>

Connection == 1..MaxConnection
Point == {"idle", "check", "open", "dial", "channel", "assign", "publish"}

TypeOK ==
    /\ live \subseteq Connection
    /\ conn \in Connection
    /\ closed \in BOOLEAN
    /\ mu \in Publisher \cup {Nobody}
    /\ channel \in Connection \cup {0}
    /\ at \in [Publisher -> Point]
    /\ got \in [Publisher -> Connection]
    /\ again \in [Publisher -> BOOLEAN]
    /\ tries \in 0..(Attempts - 1)
    /\ shutdown \in {"no", "channel", "connection", "done"}

\* NewRabbitmq has dialed and opened the channel.
Init ==
    /\ live = {1}
    /\ conn = 1
    /\ closed = FALSE
    /\ mu = Nobody
    /\ channel = 1
    /\ at = [p \in Publisher |-> "idle"]
    /\ got = [p \in Publisher |-> 1]
    /\ again = [p \in Publisher |-> FALSE]
    /\ tries = 0
    /\ shutdown = "no"

Goto(p, point) == at' = [at EXCEPT ![p] = point]
Fail(p)        == Goto(p, "idle")
-----------------------------------------------------------------------------
(***************************************************************************)
(* The broker.                                                             *)
(***************************************************************************)

\* The connection is lost, with every channel on it.
Lose ==
    /\ live # {}
    /\ conn < MaxConnection
    /\ live' = {}
    /\ UNCHANGED <<conn, closed, mu, channel, goroutines, tries, shutdown>>

\* The channel alone is closed, after a channel exception.
LoseChannel ==
    /\ channel \in live
    /\ channel' = 0
    /\ UNCHANGED <<live, conn, closed, mu, goroutines, tries, shutdown>>
-----------------------------------------------------------------------------
(***************************************************************************)
(* Publish.                                                                *)
(***************************************************************************)
Publish(p) ==
    /\ at[p] = "idle"
    /\ Goto(p, "check")
    /\ again' = [again EXCEPT ![p] = FALSE]
    /\ UNCHANGED <<live, conn, closed, mu, channel, got, tries, shutdown>>

\* p.channel == nil || p.channel.IsClosed()
CheckChannel(p) ==
    /\ at[p] = "check"
    /\ Goto(p, IF channel \in live THEN "publish" ELSE "open")
    /\ UNCHANGED <<live, conn, closed, mu, channel, got, again, tries, shutdown>>

\* Mutated: a closed RabbitMqConnection is opened like any other.
MayConnectAlways == TRUE

MayConnect == ~closed

\* Mutated: the connection is not looked at again under the mutex.
AnyConnectionLost == TRUE

ConnectionLost == conn \notin live

\* openConnection, up to the first dial.
OpenConnection(p) ==
    /\ at[p] = "open"
    /\ mu = Nobody
    /\ \/ ~MayConnect /\ Fail(p) /\ UNCHANGED <<mu, got, tries>>
       \/ /\ MayConnect /\ ~ConnectionLost
          /\ got' = [got EXCEPT ![p] = conn]
          /\ Goto(p, "channel")
          /\ UNCHANGED <<mu, tries>>
       \/ /\ MayConnect /\ ConnectionLost
          /\ mu' = p
          /\ tries' = 0
          /\ Goto(p, "dial")
          /\ UNCHANGED got
    /\ UNCHANGED <<live, conn, closed, channel, again, shutdown>>

DialSucceeds(p) ==
    /\ at[p] = "dial"
    /\ conn < MaxConnection
    /\ conn' = conn + 1
    /\ live' = live \cup {conn'}
    /\ got' = [got EXCEPT ![p] = conn']
    /\ Goto(p, "channel")
    /\ mu' = Nobody
    /\ UNCHANGED <<closed, channel, again, tries, shutdown>>

\* Mutated: the last failure returns without unlocking.
DialFailsLocked(p) ==
    /\ at[p] = "dial"
    /\ IF tries + 1 < Attempts
       THEN tries' = tries + 1 /\ UNCHANGED at
       ELSE Fail(p) /\ UNCHANGED tries
    /\ UNCHANGED <<live, conn, closed, mu, channel, got, again, shutdown>>

\* Any attempt may fail; the next one follows a pause, with the mutex held.
DialFails(p) ==
    /\ at[p] = "dial"
    /\ IF tries + 1 < Attempts
       THEN tries' = tries + 1 /\ UNCHANGED <<at, mu>>
       ELSE Fail(p) /\ mu' = Nobody /\ UNCHANGED tries
    /\ UNCHANGED <<live, conn, closed, channel, got, again, shutdown>>

\* conn.Channel(); a connection that has died meanwhile is opened again, once.
OpenChannel(p) ==
    /\ at[p] = "channel"
    /\ \/ got[p] \in live /\ Goto(p, "assign") /\ UNCHANGED again
       \/ got[p] \in live /\ Fail(p) /\ UNCHANGED again
       \/ got[p] \notin live /\ again[p] /\ Fail(p) /\ UNCHANGED again
       \/ /\ got[p] \notin live /\ ~again[p]
          /\ again' = [again EXCEPT ![p] = TRUE]
          /\ Goto(p, "open")
    /\ UNCHANGED <<live, conn, closed, mu, channel, got, tries, shutdown>>

\* r.channel = ch, whatever another goroutine has put there meanwhile.
AssignChannel(p) ==
    /\ at[p] = "assign"
    /\ channel' = got[p]
    /\ Goto(p, "publish")
    /\ UNCHANGED <<live, conn, closed, mu, got, again, tries, shutdown>>

\* PublishWithContext on the channel the field holds now; it may return an error.
PublishWithContext(p) ==
    /\ at[p] = "publish"
    /\ Goto(p, "idle")
    /\ UNCHANGED <<live, conn, closed, mu, channel, got, again, tries, shutdown>>

-----------------------------------------------------------------------------
(***************************************************************************)
(* Shutdown.                                                               *)
(***************************************************************************)
Signal ==
    /\ shutdown = "no"
    /\ shutdown' = "channel"
    /\ UNCHANGED <<live, conn, closed, mu, channel, goroutines, tries>>

CloseChannel ==
    /\ shutdown = "channel"
    /\ channel' = 0
    /\ shutdown' = "connection"
    /\ UNCHANGED <<live, conn, closed, mu, goroutines, tries>>

Close ==
    /\ shutdown = "connection"
    /\ mu = Nobody
    /\ closed' = TRUE
    /\ live' = live \ {conn}
    /\ shutdown' = "done"
    /\ UNCHANGED <<conn, mu, channel, goroutines, tries>>

Step(p) ==
    \/ CheckChannel(p) \/ OpenConnection(p) \/ DialSucceeds(p) \/ DialFails(p)
    \/ OpenChannel(p) \/ AssignChannel(p) \/ PublishWithContext(p)

Next ==
    \/ Lose \/ LoseChannel
    \/ \E p \in Publisher : Publish(p) \/ Step(p)
    \/ Signal \/ CloseChannel \/ Close

Spec == Init /\ [][Next]_vars

\* Goroutines run, and sync.RWMutex lets no waiter starve.
FairSpec ==
    /\ Spec
    /\ \A p \in Publisher : WF_vars(Step(p)) /\ SF_vars(OpenConnection(p))
    /\ WF_vars(CloseChannel) /\ SF_vars(Close)
-----------------------------------------------------------------------------
(***************************************************************************)
(* Properties.                                                             *)
(***************************************************************************)

\* Goroutines that find the channel closed at the same moment open one connection
\* between them: none is left open behind RabbitMqConnection.conn.
OneConnection == live \subseteq {conn}

\* Close is final: a goroutine that was about to reconnect, or was dialing, when
\* the process shut down does not leave a connection open after it.
ClosedForGood == closed => live = {}

\* A publish comes to an end even when no dial succeeds any more and others wait for
\* the same mutex.
PublishEnds == \A p \in Publisher : at[p] # "idle" ~> at[p] = "idle"

\* The cleanup comes to an end even when it has to wait for a dial.
ShutdownEnds == shutdown # "no" ~> shutdown = "done"
=============================================================================
