------------------------------- MODULE Process -------------------------------
(***************************************************************************)
(* The process from start to end: the constructors main calls one after    *)
(* another, what each of them closes when it fails half way, the HTTP      *)
(* server with its readiness probe, the signal, and the closing of all     *)
(* resources in reverse order.                                             *)
(*                                                                         *)
(* Main, the goroutine that waits for the signal, and a probe take turns.  *)
(* Every call may fail; a call whose context the signal has cancelled is   *)
(* one of those.  What the handlers do with the resources is in the other  *)
(* modules.                                                                *)
(***************************************************************************)
EXTENDS Naturals, Sequences, SequencesExt

Channel    == {"cleaning", "guestCommunication", "dayChange", "hourChange"}
Dependency == {"mongo", "connection", "redis"}
Telemetry  == {"traces", "metrics"}
Resource   == Telemetry \cup Dependency \cup Channel \cup {"clock"}

VARIABLES
    phase,      \* where main is
    step,       \* the next call of the start
    own,        \* what the constructor that runs closes if it fails
    cleanup,    \* what main closes at the end
    open,       \* the resources opened and not closed
    signalled,  \* was SIGINT or SIGTERM received?
    shutting,   \* was server.Shutdown called?
    down,       \* the dependencies out of reach
    probe,      \* the checks a readiness probe has before it
    probing     \* is there a probe?

main == <<phase, step, own, cleanup, open>>
signals == <<signalled, shutting>>
vars == <<main, signals, down, probe, probing>>

-----------------------------------------------------------------------------
(***************************************************************************)
(* The calls of the start.  A call opens something or nothing; once it     *)
(* succeeds, its constructor knows how to close what it keeps, and with    *)
(* its last call it returns that knowledge to main.                        *)
(***************************************************************************)
Call(opens, keeps) == [opens |-> opens, keeps |-> keeps, returns |-> FALSE]
Return(opens, keeps) == [opens |-> opens, keeps |-> keeps, returns |-> TRUE]

\* The closing function is made at the end: until then nothing is closed.
TelemetryInit ==
    <<Call({"traces"}, <<>>), Call({"metrics"}, <<>>), Return({}, <<"metrics", "traces">>)>>

\* Connect, then Ping.
NewMongoDb == <<Call({"mongo"}, <<"mongo">>), Return({}, <<>>)>>

\* A publisher is kept once its exchange is declared, a consumer at once.
Publisher(c) == <<Call({c}, <<>>), Call({}, <<c>>)>>
Consumer(c)  == <<Call({c}, <<c>>)>>
DeclareAndBind(bound) == <<Call({}, <<>>), bound>>

\* Mutated: the connection is kept together with the first publisher.
NewRabbitmqKeepingLate ==
    <<Call({"connection"}, <<>>), Call({"cleaning"}, <<>>), Call({}, <<"connection", "cleaning">>)>>
      \o Publisher("guestCommunication")
      \o Consumer("dayChange") \o Consumer("hourChange")
      \o DeclareAndBind(Call({}, <<>>)) \o DeclareAndBind(Return({}, <<>>))

NewRabbitmq ==
    <<Call({"connection"}, <<"connection">>)>>
      \o Publisher("cleaning") \o Publisher("guestCommunication")
      \o Consumer("dayChange") \o Consumer("hourChange")
      \o DeclareAndBind(Call({}, <<>>)) \o DeclareAndBind(Return({}, <<>>))

\* NewClient cannot fail; Ping can.
NewRedisClient == <<Call({"redis"}, <<"redis">>), Return({}, <<>>)>>

NewClockEmu == <<Return({"clock"}, <<"clock">>)>>

LoadConfigs == <<Return({}, <<>>)>>
NewServices == <<Return({}, <<>>)>>

Startup ==
    LoadConfigs \o TelemetryInit \o NewMongoDb \o NewRabbitmq
      \o NewRedisClient \o NewClockEmu \o NewServices

TypeOK ==
    /\ phase \in {"starting", "undoing", "listening", "serving", "closing", "exited", "stopped"}
    /\ step \in 1..(Len(Startup) + 1)
    /\ own \in Seq(Resource)
    /\ own # <<>> => phase \in {"starting", "undoing"}
    /\ cleanup \in Seq(Resource)
    /\ open \subseteq Resource
    /\ signalled \in BOOLEAN /\ shutting \in BOOLEAN
    /\ down \subseteq Dependency
    /\ probe \in Seq(Dependency)
    /\ probing \in BOOLEAN

Init ==
    /\ phase = "starting" /\ step = 1
    /\ own = <<>> /\ cleanup = <<>> /\ open = {}
    /\ signalled = FALSE /\ shutting = FALSE
    /\ down = {}
    /\ probe = <<>> /\ probing = FALSE

-----------------------------------------------------------------------------
(***************************************************************************)
(* main.                                                                   *)
(***************************************************************************)

\* Closing the connection closes its channels.
Closed(r) == IF r = "connection" THEN {r} \cup Channel ELSE {r}

\* Mutated: a constructor that returns keeps what it passed on to main.
SucceedKeepingOwn ==
    LET call == Startup[step] IN
    /\ phase = "starting"
    /\ step' = step + 1
    /\ open' = open \cup call.opens
    /\ own' = own \o call.keeps
    /\ cleanup' = IF call.returns THEN cleanup \o own' ELSE cleanup
    /\ phase' = IF step = Len(Startup) THEN "listening" ELSE phase
    /\ UNCHANGED <<signals, down, probe, probing>>

Succeed ==
    LET call == Startup[step]
        kept == own \o call.keeps IN
    /\ phase = "starting"
    /\ step' = step + 1
    /\ open' = open \cup call.opens
    /\ IF call.returns THEN own' = <<>> /\ cleanup' = cleanup \o kept
                       ELSE own' = kept /\ UNCHANGED cleanup
    /\ phase' = IF step = Len(Startup) THEN "listening" ELSE phase
    /\ UNCHANGED <<signals, down, probe, probing>>

\* exitOnError ends the process without the deferred calls: cleanup is not run.
Exit == phase' = "exited"

Fail ==
    /\ phase = "starting"
    /\ IF own = <<>> THEN Exit ELSE phase' = "undoing"
    /\ UNCHANGED <<step, own, cleanup, open, signals, down, probe, probing>>

\* The failed constructor closes what it keeps; an error there is ignored.
Undo ==
    /\ phase = "undoing"
    /\ open' = open \ Closed(Last(own))
    /\ own' = Front(own)
    /\ IF own' = <<>> THEN Exit ELSE UNCHANGED phase
    /\ UNCHANGED <<step, cleanup, signals, down, probe, probing>>

\* ListenAndServe, which does not serve on a server that was shut down before.
Serve ==
    /\ phase = "listening"
    /\ ~shutting
    /\ phase' = "serving"
    /\ UNCHANGED <<step, own, cleanup, open, signals, down, probe, probing>>

\* A port that is taken is noticed whether Shutdown was called by then or not.
ServeFails ==
    /\ phase = "listening" \/ (phase = "serving" /\ ~shutting)
    /\ Exit
    /\ UNCHANGED <<step, own, cleanup, open, signals, down, probe, probing>>

\* It returns as soon as Shutdown is called; nobody waits for running handlers.
ServerClosed ==
    /\ phase \in {"listening", "serving"}
    /\ shutting
    /\ phase' = "closing"
    /\ UNCHANGED <<step, own, cleanup, open, signals, down, probe, probing>>

\* Mutated: in the order of the start.
CloseFirst ==
    /\ phase = "closing"
    /\ open' = open \ Closed(Head(cleanup))
    /\ cleanup' = Tail(cleanup)
    /\ phase' = IF cleanup' = <<>> THEN "stopped" ELSE phase
    /\ UNCHANGED <<step, own, signals, down, probe, probing>>

\* Mutated: the first error ends the clean-up.
CloseLastOrStop ==
    /\ phase = "closing"
    /\ open' = open \ Closed(Last(cleanup))
    /\ cleanup' = Front(cleanup)
    /\ phase' \in {IF cleanup' = <<>> THEN "stopped" ELSE phase, "stopped"}
    /\ UNCHANGED <<step, own, signals, down, probe, probing>>

\* runCleanup goes on after an error, and a resource whose closing fails cannot be
\* used any more either.
CloseLast ==
    /\ phase = "closing"
    /\ open' = open \ Closed(Last(cleanup))
    /\ cleanup' = Front(cleanup)
    /\ phase' = IF cleanup' = <<>> THEN "stopped" ELSE phase
    /\ UNCHANGED <<step, own, signals, down, probe, probing>>

Main == Succeed \/ Undo \/ Serve \/ ServerClosed \/ CloseLast

-----------------------------------------------------------------------------
(***************************************************************************)
(* The signal, and the goroutine that waits for it once all is started.    *)
(***************************************************************************)
Over == phase \in {"exited", "stopped"}

Signal ==
    /\ ~Over
    /\ ~signalled
    /\ signalled' = TRUE
    /\ UNCHANGED <<main, shutting, down, probe, probing>>

\* Mutated: the signal is looked at once, before the server runs.
ShutdownBeforeServing ==
    /\ phase = "listening"
    /\ signalled
    /\ shutting' = TRUE
    /\ UNCHANGED <<main, signalled, down, probe, probing>>

Shutdown ==
    /\ phase \in {"listening", "serving"}
    /\ signalled
    /\ shutting' = TRUE
    /\ UNCHANGED <<main, signalled, down, probe, probing>>

-----------------------------------------------------------------------------
(***************************************************************************)
(* Readiness.  MongoDB and Redis come back by themselves, a lost           *)
(* connection to RabbitMQ when somebody publishes (module RabbitMq).       *)
(***************************************************************************)
Reachable(d) == d \in open \ down

Outage(d) ==
    /\ phase \in {"serving", "closing"}
    /\ d \notin down
    /\ down' = down \cup {d}
    /\ UNCHANGED <<main, signals, probe, probing>>

Recover(d) ==
    /\ phase \in {"serving", "closing"}
    /\ d \in down
    /\ down' = down \ {d}
    /\ UNCHANGED <<main, signals, probe, probing>>

\* Mutated: the other way round.
ChecksReversed == <<"redis", "connection", "mongo">>

Checks == <<"mongo", "connection", "redis">>

\* A connection that was idle may still bring a request while main is closing.
Ready ==
    /\ phase \in {"serving", "closing"}
    /\ ~probing
    /\ probing' = TRUE
    /\ probe' = Checks
    /\ UNCHANGED <<main, signals, down>>

Check ==
    /\ probing /\ ~Over
    /\ probe # <<>>
    /\ Reachable(Head(probe))
    /\ probe' = Tail(probe)
    /\ UNCHANGED <<main, signals, down, probing>>

Answered == probing' = FALSE /\ probe' = <<>>

\* 200, some time after the last check has succeeded; main may close meanwhile.
AnswerReady ==
    /\ probing /\ ~Over
    /\ probe = <<>>
    /\ Answered
    /\ UNCHANGED <<main, signals, down>>

\* 503: the first check that fails.
AnswerUnavailable ==
    /\ probing /\ ~Over
    /\ probe # <<>>
    /\ ~Reachable(Head(probe))
    /\ Answered
    /\ UNCHANGED <<main, signals, down>>

Next ==
    \/ Main \/ Fail \/ ServeFails
    \/ Signal \/ Shutdown
    \/ \E d \in Dependency : Outage(d) \/ Recover(d)
    \/ Ready \/ Check \/ AnswerReady \/ AnswerUnavailable

Spec == Init /\ [][Next]_vars

\* The calls of main return, and the goroutine that waits for the signal runs; the
\* server may serve for ever.
FairSpec == Spec /\ WF_vars(Main) /\ WF_vars(Shutdown)
-----------------------------------------------------------------------------
(***************************************************************************)
(* Properties.                                                             *)
(***************************************************************************)

\* The process keeps what ServiceLife promises: it serves only while it holds every
\* resource, and an orderly end has closed them all, whichever of the closings fail.
life ==
    CASE phase = "starting" -> "starting"
      [] phase = "undoing" -> "aborting"
      [] phase \in {"listening", "serving"} -> "serving"
      [] phase = "closing" -> "closing"
      [] phase = "exited" -> "exited"
      [] phase = "stopped" -> "ended"

Life == INSTANCE ServiceLife WITH Resource <- Resource, life <- life, held <- open

LifeRefined == Life!Spec

\* A constructor that fails half way leaves nothing open behind it, wherever it
\* fails: what is open when the process exits belongs to constructors that had
\* returned.  Only telemetry.Init leaves its exporters.
NothingHalfBuilt == phase = "exited" => open \subseteq Range(cleanup) \cup Telemetry

\* Every closing is still traced and measured: telemetry outlives all the rest.
ClosedWhileTraced ==
    [][open' # open /\ phase \in {"undoing", "closing"} =>
          Telemetry \subseteq open \/ open \subseteq Telemetry]_vars

\* The probe looks at the dependencies one after the other and main closes them
\* meanwhile; yet when the last of its checks succeeds none of them has been closed,
\* because it looks at them in the order opposite to the closing.  By the time the
\* 200 is sent main may have closed some.
LastCheckPassed == probing /\ probe # <<>> /\ probing' /\ probe' = <<>>
CheckedWhileOpen == [][LastCheckPassed => Dependency \subseteq open]_vars

\* A signal ends the process whenever it comes, during the start too.
SignalEnds == signalled ~> Over
=============================================================================
