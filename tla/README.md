# Guest manager: a TLA+ development

Models of the guest manager (Go, `src/`), the TLC instances that check them, and
theorems about them that TLAPS proves for every value of the constants. Everything is
translated from the code. Where a comment, a test or `src/README.md` says something the
code does not do, either a run shows it (three do) or section 6 names it.

## 1. The system

The service lets hotel guests live through a stay over a websocket chat: check in, get
the key, spend the days, check out. It keeps no state of its own between sessions:
bookings, cottages and guests are in MongoDB, the bookings of the day in Redis, and
cleaning orders, guest notifications and the events of a simulated clock go through
RabbitMQ. Every websocket connection is one goroutine; beside them run one goroutine for
time events and one for the daily preparation, and the HTTP handlers of the guest records.

| part | state | operations | talks to |
|---|---|---|---|
| Reception service (`app/reception_service.go`), check-in and check-out handlers | none; MongoDB documents, Redis lists, what the handler remembers | CheckIn, CheckinFallback, CheckOut, ReceiveCottageKey, ReturnCottageKey | booking, cottage and guest repositories, cache, cleaning service, chat, clock |
| Lodging chat (`websocket/chat`) | `reader.pending`, the connection | WaitForGuestAction, SendSystemRequest, SendSystemNotification | the guest |
| Time event service (`app/time_event_service.go`) | sets of registered channels, two deliveries | Start, Register, Unregister | RabbitMQ consumers; stay, notification and arrange goroutines |
| Stay handler (`handler/stay_handler.go`) | day-event channel, place in a routine | the three routines, waitForStayTransition, notifyMeal | chat, notification, cleaning, time events, clock |
| Notification service | hour channel per meal, day channel per watcher of check-outs | HourNotification, CheckOutNotification (no caller yet) | time events, cache |
| Arrange service (`app/arrange_cottage_service.go`) | day channel; Redis lists `checkin.<day>`, `checkout.<day>` | ArrangeCheckIn: cache check-ins, notify guests, cache check-outs | time events, bookings, cache, RabbitMQ |
| Cleaning service | none | CleanRoom: one publish | RabbitMQ |
| Guest records (`http/guest_handler.go`, `mdb/guest_repo.go`) | guests collection, and the bookings collection to read | AddGuest, UpdateGuest, GetGuest, GetBookings | MongoDB, clock |
| RabbitMQ connection and channels (`infra/mq`) | `conn`, `closed` under a mutex; `channel` without one | Publish, Consume, openConnection, Close | broker; everything that publishes |
| Startup and shutdown (`main.go`, `infra/init.go`, `app/init.go`) | the open resources and the list of what to close | constructors, server, signal, runCleanup | everything |
| Health probes (`http/probe_handler.go`) | none | Heath, Ready | MongoDB, RabbitMQ connection, Redis |
| Websocket session, router, configuration, logging, telemetry | the order in which the others run | | |

What makes it hard, and what correctness means there:

* **Check-in and check-out are sequences of separate calls without a lock or a
  transaction.** Sessions interleave at every call; any call may fail with its effect
  applied or not; a session may vanish anywhere and nothing is compensated. A cottage
  must have one holder, the key must follow the guest, the booking must be closed once and
  in order, and a failed check-in must evict nobody.
* **Two APIs read one connection.** Actions arrive before they are waited for, replies
  overtake acks, deadlines expire. Actions must be kept and ordered, acks must confirm
  what was read, a reply must belong to its request, nothing may hang.
* **One goroutine feeds all sessions.** It must never block on a slow one, and the newest
  day event must not be lost on any.
* **The stay follows a clock it only hears of.** Events are late or dropped and the clock
  may be unreadable; the guest must not be sent home early nor served twice.
* **Guest updates are read-modify-write** without a condition; a list of bookings is made
  from documents another service writes, and one bad document must not shorten it silently.
* **The daily preparation is a sequence of calls on a cache that forgets.** It stops at the
  first step that fails, the process may end in it, the event may come twice, and another
  goroutine reads what it writes on the same event. Nobody may be reminded to leave who was
  not told to come, or on the wrong day.
* **Twenty-one calls open ten resources at the start**, each may fail, the signal may come at
  any of them, and probes look at the resources while they are being closed.
* **The connection is shared** by all that publish, reopened under a mutex that is held
  through every dial, and closed by a shutdown that does not wait for websockets.

`PROJECT.json` lists these one by one under `hazards`, with the line where each bites and
the properties that would catch it.

## 2. The modules

```
Reception  --refines-->  BookingLifecycle       MCReception   ReceptionProofs
Chat                                            MCChat        ChatProofs
TimeEvents --refines-->  Mailbox                MCTimeEvents  TimeEventsProofs
Stay       (over Mailbox and Chat)              (run as it is) StayProofs
GuestRecords                                    MCGuestRecords GuestRecordsProofs
RabbitMq                                        (run as it is) RabbitMqProofs
DailyPreparation  (over Mailbox)                MCDailyPreparation  DailyPreparationProofs
Process    --refines-->  ServiceLife            (run as it is) ProcessProofs
```

A definition that begins with the comment "Mutated" is the form a plausible bug would give
the definition after it; the model does not use it. The mutants in `PROJECT.json` put it in
place of the other and have TLC show that the property notices.

**Reception.** One action per external call of `CheckIn`, `CheckinFallback`,
`processCheckIn`, `CheckOut` and the key handlers; `at[s]` is the call session `s` is about
to make and `mem[s]` what its handler remembers: guest, booking, the status as it was
*read*, the time as it was *read*. The guest is found by document in up to three lookups of
one check-in, and a document may change hands by a PATCH or belong to two guests: each lookup
answers any of `Carriers[d]`, the guests document `d` is recorded for at one time or another.
`Faults` adds to each call the outcomes "failed, effect
applied" and "failed, no effect", and `Drop`. Variables named after fields are the
documents. `CacheCheckIn` is what the arrange service does to the Redis list,
`CacheExpires` its time to live. `Housekeeping` (external) changes `cleaning_status`, which
this service only reads. The history variable `raced` marks a cottage once a check found it
free while another session stood between finding it free and taking it, or between freeing
it and freeing it again. `BookingLifecycle` is the abstract promise of check-out for a
booking: open, past, removed, cleaned, in that order, never undone.

**Chat.** `wire` is what the guest has written and the service has not read. One action is
one turn of a loop: `ReadAction` of `WaitForGuestAction`, `ReadAck` of `waitForAck`,
`ReadReply` of `waitForReply`. The session makes any sequence of calls, the guest sends any
messages. Message content is reduced to kind, name and correlation. An expired read
deadline makes all later reads fail, as gorilla/websocket documents and does: `readErrors`
counts them up to the panic of that library (1000 there, 3 in the instance). Every read sets
a deadline of its own, so the timeouts are sure to come only while there is nothing to read.

**TimeEvents.** One action per channel operation of `notify` and `notifyLatest`: the
non-blocking send, the drain, the second send; in between, subscribers register, receive
and unregister. Events are numbered in the order they are emitted. `Mailbox` is what a
subscriber is promised: a box for one event whose content only gets newer. What follows from
that alone, `EventsInOrder`, is a theorem about `Mailbox` and is inherited by what implements it.

**Stay.** The three routines are sequences of steps (a guest action, a meal, a cleaning
order), read off `checkInDayRoutine`, `stayRoutine` and `checkoutDayRoutine`; `ReadClock`,
`TakeDayEvent` and `PollClock` are the three branches of `waitForStayTransition`. Time
events come through the mailboxes `TimeEvents` is shown to implement. The stay begins on the
check-in day or later and with any number of day events behind, as the queue is durable:
`since` is the last one notified before the handler registered. A failed call is `Drop`.

**GuestRecords.** The four handlers, one action per repository call. `Merged` is the `$set`
document applied to what is stored at the moment of the write. A text field is one of two
values, a time a number of half milliseconds, nil is 0; `BSON` is what the database keeps of
a time, whole milliseconds, while handlers compute and answer with the exact one. Ids are drawn fresh, as `bson.NewObjectID` draws them.
`GetGuest` and `GetBookings` are one read each; `Store` (external) is the booking service,
which may leave a document that makes no booking.

**RabbitMq.** `at[p]` is where goroutine `p` is in `Publish`, `openChannel`,
`openConnection`, `reconnectLocked`. `mu` is the mutex while it is held across dials;
shorter critical sections are one step. Connections are numbered; a channel is the number
of the connection it is on. Shutdown closes the channel, then the connection.

**DailyPreparation.** One action per call of `ArrangeCheckIn` (find, cache, one publish per
booking, one entry per check-out day) and of `CheckOutNotification` (event, read, send). Each
has a mailbox for day events: `Deliver` is a `Put` and taking an event a `Get` of the module
`Mailbox`, the one `TimeEvents` implements. A key of Redis holds one list or none, and
`Expires` may empty it at any time: 30 minutes are long or short depending on the simulator.
"Told" means that `Publish` returned without an error: the publishers ask for no confirms.
`End` is a signal or a crash; unread events go with their channels, and the event being
handled may be delivered again, when its acknowledgement was lost too (`replay`).

**Process.** `Startup` is the sequence of calls that can fail, read off the constructors: what
each opens, what its constructor would close if a later call fails (`own`), and when that
passes to main's list (`cleanup`). `Succeed`, `Fail` and `Undo` run it; `CloseLast` is one
turn of `runCleanup`. A probe takes one step per check and one to answer. The goroutine of the signal and one probe interleave with main. `exitOnError`
is `os.Exit`: it runs no deferred call, so the clean-up main defers for a failed start is
never run, and the model has no action for it. `ServiceLife` is the abstract promise: take
resources, serve with all of them, and give all back at an orderly end.

## 3. What is checked

Every run finishes within about three minutes on two cores. Deadlock checking is off throughout: sessions,
requests and bounded event streams really end.

| run | instance | what it shows |
|---|---|---|
| turnover | Reception: 2 sessions, 1 cottage, 2 bookings on adjoining days (guest g1 leaves when g2 arrives), a third guest without booking, a document of g1, one of g2 and one of g2 and g3, 3 days, faults | `ExclusiveUnlessRaced`: outside the two windows a cottage has one holder, and each staying session's guest is its current guest. `KeyFollowsStay`: the key is out during the stay and back before the booking is closed. `OneCheckoutPerBooking`: full cleaning is ordered by one session at most (it counts sessions, each of which makes the call once). `OccupantAdmitted`: nobody gets into a cottage with somebody else's booking, unless the two share a document, or before the check-in day of that booking. `DisplacedOnlyByCheckout`: no failed or crashed session evicts a guest; only a past booking for the cottage, of that guest or of one with the same document, does. `ReopenedOnlyLate`: a check-in with a stale status may reopen a closed booking, but not before its check-in day is over. `LifecycleRefined`: check-out implements `BookingLifecycle` |
| cleaning_follows | the same on two days and without faults, fair | a booking marked past gets its cleaning, even when two sessions check out of it |
| chat | Chat: two actions, two response types, four messages, two requests, faults, fair | order, acks, no loss while waiting for an action, replies that belong to their request; a request ends once the guest falls silent, and every answered wait ends |
| fan_out | TimeEvents: two day and one hour subscriber, two events per stream, faults, fair | the newest day event is kept, `Mailbox` is implemented, nobody holds up the goroutine, a subscriber that goes on reading sees a notified event |
| stay | Stay: check in from day 2, out on day 4, calendar to day 6, any day events behind, faults, fair | `NotSentHomeEarly`. `OrdersPerDayEvent`: at most one daily cleaning for each day event before the check-out day that comes after the registration. `StayEnds` |
| guest_records | GuestRecords: 3 requests, 2 ids, 2 fields of 2 values, 1 booking, two times of which the second is cut when stored, faults | an update undoes only fields it changes; what is stored is the answer cut to the millisecond, unless overtaken; a booking listed once is in every later list |
| rabbitmq | RabbitMq: 2 goroutines, 2 dial attempts, 3 connections, fair | one connection at a time; none after `Close`; publishes and shutdown end |
| daily | DailyPreparation: 4 bookings (two arrive together, two leave together, one is not valid), days 1 and 2 begin, one watcher, faults, fair | `FiledOnlyIfTold`: only guests who were told to check in are in a check-out file. `OneArrivalPerFile`: what a file loses when it is overwritten. `RemindedOnTheEve`: reminders come the day before, whatever the interleaving. `ToldOnceNotEarly`: told for the event of the check-in day, maybe days late but never before that day begins, and twice only for a redelivered event. `EachGuestTold`: one failure costs nobody else the notification |
| process | Process: every start, every failure, any outages, one probe at a time, fair | `LifeRefined`: served with every resource, all closed at the end. `NothingHalfBuilt`: a failed constructor leaves nothing open but telemetry. `ClosedWhileTraced`: telemetry outlives the rest. `CheckedWhileOpen`: when the last check of a probe succeeds, nothing it looked at has been closed. `SignalEnds`: a signal ends the process whenever it comes |
| occupied | as turnover; expected violation | two guests both pass "cottage is not available" and the second replaces the first |
| chat_kept | expected violation | `waitForReply` acknowledges guest actions and discards them |
| chat_retry | expected violation | after an ack timeout no retry can be acknowledged |

The type invariants of Reception, TimeEvents, Stay, GuestRecords, RabbitMq and
DailyPreparation, and `ReplacementFits` of TimeEvents, are theorems and not run again; those of
Chat and Process are run.

The three violations are the `findings` of `PROJECT.json`, with the line that says otherwise.

Why the bounds are enough to meet the interesting cases:

* *turnover*: both windows need two sessions and one cottage; the bookings are such that the
  second session may arrive while the first checks out, both may be for one booking, and a
  day passes in every window. Three documents give every lookup the right guest, a wrong one
  and a change of guest between two lookups. A third session adds no new pair of conflicting steps, and the
  theorems below hold for any number.
* *chat*: two actions and two response types suffice to confuse one with another, two
  requests to mix their replies.
* *fan_out*: two events are what it takes to replace one; the hour subscriber shows that
  streams do not mix.
* *stay*: two nights give one full day between the check-in and the check-out day; a calendar
  that begins two days before and goes on two days after has events that are late by as much.
* *guest_records*: with three requests one may be overtaken by two that overlap each other; of
  the two times one is a whole millisecond and one is not. Times that differ once stored are
  covered by the theorems only.
* *daily*: two days are what it takes to overwrite a file, to read it between two events and
  to have one event replaced or redelivered; the four bookings differ in arrival, departure
  and validity in every way the code tells apart.
* *process*: nothing is bounded but the probes, which run one at a time: they share no state.
* *rabbitmq*: three connections allow a loss during a reconnect; two attempts have a pause
  with the mutex held.

Symmetry is used only where no liveness is checked (sessions in turnover; requests, fields and
values in guest records).

## 4. Fairness

* Reception: a session in `CheckOut` takes its next step: straight-line code of a running
  goroutine. Nothing is assumed of guests, clock or cache.
* Chat: the goroutine reads what has arrived, and a deadline expires while nothing can be read.
  The guest may stop, and `RequestEnds` is about a guest who does: each message read starts a
  new deadline, and a wrong answer has the request sent again, so a guest who goes on sending
  holds a request open for as long as they like. `MaxSent` makes every guest of the instance
  fall silent; the property names that as its condition.
* TimeEvents: the publishing goroutine runs. No subscriber is assumed to read: `StayHandler`
  registers its channel (`stay_handler.go:52`) and waits for the guest without a deadline before
  it reads it. `DayEventSeen` is about each subscriber that does go on reading, whatever
  the others do.
* Stay: the handler runs, the guest takes the action waited for, the clock and its events go
  on. `StayEnds` assumes further that from some time on an hour event is taken before the
  next is due: a dropped hour event can cost a meal its hour for a day, and dropped for ever
  it costs the stay its end.
* DailyPreparation: `ArrangeCheckIn` runs, none of its calls blocks for ever. The clock, the
  broker and Redis owe nothing, and the process may end.
* Process: the calls of main return (they have timeouts, or the signal's context ends them)
  and the goroutine that waits for the signal runs. No signal, request or recovery is assumed.
* RabbitMq: goroutines run, and `sync.RWMutex` starves no waiter (strong fairness of the two
  lock acquisitions). Dials may fail for ever.

Assumptions about the surroundings: day events never run ahead of the clock they come from;
bookings are made and `cleaning_status` is written by other services, which take no booking
document away. `NewPeriod` compares two times and then floors them to their day, so a stay
without a night is a valid booking; what is different for it is said at `ReopenedOnlyLate`.

## 5. What is proved

For any number of sessions, guests, cottages, subscribers, requests, publishers, days and
attempts (`PROJECT.json`, `theorems`):

* **ReceptionProofs**: `TypeCorrect`, `Exclusive`, `KeyIsBack`, `OccupantsAdmitted`,
  `CheckOutRefinesLifecycle`, `Displaced`, `CheckOutCompletesOnce`, `NotReopenedInTime`. The
  properties are not inductive: what a session does to a cottage depends on the booking it
  remembers (`MemoryInv`: its main guest is the guest remembered, or shares a document with
  them; `BegunInv`: a session is never ahead of the clock, so that a booking about to get its
  cottage has begun), and exclusivity on what sessions stand at the two windows. `HolderInv` adds to
  `ExclusiveUnlessRaced` that a session about to claim or to clear an unraced cottage finds
  nobody in it; a check that would break this sets `raced`. There is one lemma per group of
  calls; `QuietKeepsHolders` covers all that write no `current_guest`. For the refinement,
  `ListInv` (a booking is listed by its own cottage or by none) and `ProgressInv` (where a
  session is in `CheckOut` says how far its booking is) make each step a step or a stutter of
  `BookingLifecycle`; `OnceInv` ties the cleaning order to the one session that removed the
  booking.
* **ChatProofs**: `ChatTyped`, `ActionsReturnedInOrder`, `AcksInOrder`, `RepliesCorrelated`,
  `NoActionLost`. All order comes from the connection: `WireInv` says that what the guest has
  written and the service has not read is numbered upwards, and `PassedInv` that whatever was
  acknowledged, put aside, returned or taken for a reply is older than all of it. Neither
  gives the order of returned actions: an action put aside must not be overtaken by one read
  later. That is `OrderInv`: what is put aside is in order and newer than what was returned
  under the same name, and a call that reads on has found nothing put aside for it.
  `AliveInv` ends the session before the library would panic. The steps of sequences are
  stated as relations (`IsAppended`, `IsTail`, `IsRemoved`), so that no leaf reasons about
  `\o`, `Tail` or `RemoveAt` themselves.
* **TimeEventsProofs**: `TimeEventsTyped`, `ReplacementAlwaysFits`, `NewestDayKept`,
  `FanOutRefinesMailbox`, `MailboxKeepsOrder`, `EventsReceivedInOrder`, `NotifyBounded`. The
  strengthening, `Fresh`, says that everything in a channel or seen is no newer than the last
  event of its stream, and strictly older while the event is being offered. That a subscriber gets its events in the order they were emitted, none of them twice,
  is proved of `Mailbox` (`Newer`: what is in a box is newer than all its owner has had) and
  carried over to the fan-out by the refinement. `NotifyBounded`: an event costs `notify` at
  most three steps for each of finitely many subscribers and one to return.
* **StayProofs**: `StayTyped`, `GuestStaysToTheEnd`, `OneOrderPerDayEvent`. `DayBoxNewest` adds that no
  event is ahead of the clock and that the one in the channel is the newest. `OrdersCounted`
  makes `OrdersPerDayEvent` inductive: the orders published, plus the one the running routine
  still owes, are no more than the day events taken since the registration and no more than `Days`.
  `OrderSteps` finds the orders in the three routines, which are sequences joined by `\o`:
  one `IsJoin` per joint, so that no leaf has to reason about `\o` itself.
* **GuestRecordsProofs**: `RecordsTyped`, `UntouchedSurvives`, `AnswerStored`, `ListsOnlyGrow`. `FreshIds` keeps
  inserts off existing guests, `ReadIsCurrent` says that what was read is stored until somebody
  else writes; `MergedAlone` that merging into what was read yields the request as BSON keeps it.
* **DailyPreparationProofs**: `DailyPreparationTyped`, `FiledAfterTold`, `FileOfOneArrival`,
  `RemindersInTime`, `ToldOnce`. A file is right because of where `ArrangeCheckIn` stands when
  it writes it: the invariant says what `list`, `todo`, `missed` and `dates` hold at each of
  its steps (everybody in the list is told, or still to be told, or missed), and that every
  list a watcher has read came from such a file.
* **RabbitMqProofs**: `RabbitMqTyped`, `OneConnectionAtATime`, `CloseIsFinal`, `HolderNeverWaits`,
  `PublishBounded`. `DialUnderMutex`: who dials holds the mutex, found the connection lost and
  the process not closed, and all three stay so until the mutex is released. Conversely who
  holds the mutex dials (`HolderDials`), so no goroutine waits for one that waits itself.
  `PublishBounded`: a publish takes at most `2 * Attempts + 7` steps of its own, and none of the
  other goroutines, the broker or `Close` adds one.
* **ProcessProofs**: `ProcessTyped`, `NothingLeftBehind`, `TelemetryOutlivesTheRest`,
  `NothingClosedBetweenChecks`, `ProcessRefinesLife`. One order explains all of them: `Rank`. `StartupCalls`
  evaluates the constructors, joined by `\o`, to the twenty-one calls; `CallEffect` says of each
  that it opens and keeps the next resources in that order, or one that is kept soon
  (`Loose`). So `Ordered` holds: what main closes, and after it what the running constructor
  closes, is a prefix of the order, and what is open is that prefix and what is loose. Closing
  from the end takes the last of the prefix, the channels of RabbitMQ with their connection.
  A probe sees Redis last, which has a higher rank than the other dependencies.

They assume only the named assumptions on constants in the modules.

Every safety property a passing run checks, invariant, action property or refinement, is thus
also a theorem. Model-checked only: the liveness properties, because fairness and ENABLED are out
of the prover's reach, and the three expected violations. Of two of them, `PublishEnds` and
`NotifyReturns`, the half that needs no fairness is proved: how many steps are left
(`PublishBounded`, `NotifyBounded`); that each of them is taken is TLC's part. Process has no constants, so its run
covers every behaviour of it; its proofs add the reason. No proof goes by induction over data
and no module uses a RECURSIVE operator.

## 6. What is not modelled, and why

* `AckGuestAction` (called by no production code), and `POST /consume/:roomNumber/item/:itemName`,
  which is registered without a handler.
* The websocket upgrade, the HTTP middleware, configuration, logging, generated code: no state
  the properties speak of. Validation of single values appears as the failure branch of the
  action that calls it.
* The five seconds of a shutdown: a closing that hangs is one that fails. `ShutdownEnds` of
  RabbitMq says that the one closing that waits for others does not wait for ever.
* The reopening of a channel in the middle of the start (`DeclareExchange`, `DeclareQueue`):
  it goes through the same `openChannel` as `Publish` in RabbitMq.
* A single model of a whole stay, from the daily preparation to the check-out. The modules
  meet in what they share (the mailbox, the cache, the clock), each of which is a promise of
  one module and an assumption of another; their product is beyond TLC.

Observed while modelling, without a run:

* `CheckOut` clears `current_guest` a second time (`reception_service.go:182`) after
  `RemovePastBooking` has, and evicts a guest who checked in between; the test calls the
  sequence "removes booking, clears current guest, and requests full cleaning"
  (`reception_service_test.go:181`). It is the second of the windows `raced` marks.
* DINNER_READY is sent by the routine and, on the next 18:00, again by
  `prepareCottageForSleep` (`stay_handler.go:335`).
* The clean-up main defers for a failed start never runs (`main.go:28`, `main.go:48`), and
  `telemetry.Init` leaves its trace provider running when the meter provider fails.
* After a lost RabbitMQ connection the process is not ready until a session that is open
  already publishes: `Ready` only looks (`probe_handler.go:37`).
* The check-in handler reads the clock before it asks for the document, so a check-in
  may complete on a later day than the one it was checked for (`checkin_hander.go:40`).
* A guest whose document is given to another, or who shares one, may be written into a cottage
  on a booking of the other: `GetBookingByDate` looks the document up again
  (`guest_service.go:206`), and `processCheckIn` does not compare the booking's guest with the
  one it writes. `OccupantAdmitted` says what is left of "the guest has a booking that has begun".
* Day events that are more than a day behind when the guest gets the key each start a full-day
  routine, so that the stay has more of them than nights (`Days` of Stay counts them).
* A day event handled late tells a guest to check in days after the check-in day
  (`arrange_cottage_service.go:91`), with the day of the event as `NotificationDay`.
* Update answers with exact times and the database keeps milliseconds, so the record read back
  differs from the one answered (`guest_repo.go:114`).
* The readiness probe may answer 200 when main has closed Redis since its last check
  (`probe_handler.go:47`, `main.go:79`).
* `waitForAck` drops guest messages without acknowledging them (`chat_writer.go:133`).
* `r.channel` is written without a lock; the loser of a race leaks its channel until the
  connection closes (`rabbitmq_channel.go:44`).
* Nobody consumes again after a reconnect (`rabbitmq_consumer.go:90`).
* `checkout.<date>` is overwritten by each day's bookings (`arrange_cottage_service.go:183`).
* A PATCH without `created_at` resets it to now (`guest_handler.go:226`), and
  `document_id` is unique by convention only (`guest_repo.go:63`).

What the repository says of the code and the code does not do, beside the three findings:

* The check of the check-out date is commented out (`reception_service.go:162`); a test still
  wants its error, "checkout day not today" (`reception_service_test.go:143`).
* The daily cleaning is `dailyCleaning` (`stay_handler.go:321`), and that is what
  `OrdersPerDayEvent` counts; `stay_handler_test.go:331` and
  `lodging_chat_integration_test.go:144` want full cleaning there.
* `lodging_chat_integration_test.go:96` expects a notification CHECK_OUT_TODAY, which is not
  among the notifications of `system.pb.go` and is sent nowhere.
* The sample message of `src/README.md:46` has the eve of the check-in as `notification_day`;
  the code publishes on the event of the check-in day itself.

## 7. Plan

Done, in this order: Reception with BookingLifecycle, Chat, TimeEvents with Mailbox, Stay,
GuestRecords, RabbitMq, DailyPreparation, Process with ServiceLife, the reads of GuestRecords,
the proofs of all of them, Chat and Process last, and the promise of `Mailbox`.

Next:

1. **Bounds on the other waits**, in the manner of `PublishBounded`: the steps of `ArrangeCheckIn`
   for an event, of a session at the two windows, of main from the signal to its end, each the
   half of a liveness property that needs no fairness.
2. **What an answered probe says of a window**: `NothingClosedBetweenChecks` is about what is
   closed when the last check succeeds; how old an answer may be is not stated.

`DailyPreparation` uses the operations of `Mailbox` but does not implement its specification:
after a crash the broker delivers an event again, and the boxes of a process that ended are gone.
