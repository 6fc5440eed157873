-------------------------- MODULE DailyPreparation --------------------------
(***************************************************************************)
(* What the service does when a day begins.  ArrangeCheckIn caches the     *)
(* bookings that check in on that day, tells their guests, and files the   *)
(* bookings under the day they check out; CheckOutNotification reads the   *)
(* file of the next day on the same event, for whoever asked to be told.   *)
(*                                                                         *)
(* Both get day events through a mailbox of their own (Mailbox, which      *)
(* TimeEvents is shown to implement), take one step per call to MongoDB,   *)
(* Redis or RabbitMQ, and share nothing but Redis, whose entries expire.   *)
(* A call may fail with its effect applied or not, and the process may end *)
(* at any step and be started again; Redis keeps what it has.              *)
(***************************************************************************)
EXTENDS Naturals

CONSTANTS
    Booking,
    Valid,                    \* the bookings NewPeriod and NewBooking accept
    CheckInDay, CheckOutDay,  \* booking -> first and last day of its stay period
    MaxDay,                   \* bound on the simulated calendar
    Arrange,                  \* the goroutine of ArrangeCheckIn
    Watcher,                  \* calls of CheckOutNotification
    Faults                    \* may calls fail and the process end?

Day == 1..MaxDay
Subscriber == {Arrange} \cup Watcher

ASSUME ValidAssumption   == Valid \subseteq Booking
ASSUME PeriodAssumption  == /\ CheckInDay \in [Booking -> Day]
                            /\ CheckOutDay \in [Booking -> Day]
ASSUME MaxDayAssumption  == MaxDay \in Nat \ {0}
ASSUME ArrangeAssumption == Arrange \notin Watcher
ASSUME FaultsAssumption  == Faults \in BOOLEAN

VARIABLES
    today,       \* the last day that began
    booked,      \* bookings collection
    checkin,     \* Redis checkin.<day>: the one list under the key, or none
    checkout,    \* Redis checkout.<day>, the same
    box, seen,   \* the mailboxes: unread event, last event read; 0 for none
    at,          \* where ArrangeCheckIn is
    day,         \* the event it handles, or handled last; 0 for none
    list,        \* the bookings it found for that day
    todo,        \* those whose guest is not told yet
    dates,       \* check-out days not filed yet
    missed,      \* bookings of the list whose guest could not be told
    wat,         \* watcher -> where it is
    read,        \* watcher -> the list it read
    heard,       \* watcher -> the list it sent last, and the event it sent it for
    told,        \* history: bookings whose guest was told to check in
    replay       \* history: the event the broker may deliver a second time; 0 for none

redis   == <<checkin, checkout>>
mail    == <<box, seen>>
arrange == <<at, day, list, todo, dates, missed>>
watch   == <<wat, read, heard>>
history == <<told, replay>>
vars    == <<today, booked, redis, mail, arrange, watch, history>>

NoEntry == {}
Entry == {NoEntry} \cup {{bookings} : bookings \in SUBSET Booking}

TypeOK ==
    /\ today \in 0..(MaxDay - 1)
    /\ booked \subseteq Booking
    /\ checkin \in [Day -> Entry]
    /\ checkout \in [Day -> Entry]
    /\ box \in [Subscriber -> 0..(MaxDay - 1)]
    /\ seen \in [Subscriber -> 0..(MaxDay - 1)]
    /\ at \in {"off", "select", "find", "checkin", "publish", "checkout"}
    /\ day \in 0..(MaxDay - 1)
    /\ at \notin {"off", "select"} => day # 0
    /\ list \subseteq Booking
    /\ todo \subseteq list
    /\ dates \subseteq Day
    /\ missed \subseteq list
    /\ wat \in [Watcher -> {"new", "wait", "read", "send", "gone"}]
    /\ \A w \in Watcher : wat[w] \in {"read", "send"} => seen[w] # 0
    /\ read \in [Watcher -> SUBSET Booking]
    /\ heard \in [Watcher -> [eve : 0..(MaxDay - 1), bookings : SUBSET Booking]]
    /\ told \subseteq Booking
    /\ replay \in 0..(MaxDay - 1)

Init ==
    /\ today = 0
    /\ booked = {}
    /\ checkin = [d \in Day |-> NoEntry]
    /\ checkout = [d \in Day |-> NoEntry]
    /\ box = [s \in Subscriber |-> 0]
    /\ seen = [s \in Subscriber |-> 0]
    /\ at = "off" /\ day = 0 /\ list = {} /\ todo = {} /\ dates = {} /\ missed = {}
    /\ wat = [w \in Watcher |-> "new"]
    /\ read = [w \in Watcher |-> {}]
    /\ heard = [w \in Watcher |-> [eve |-> 0, bookings |-> {}]]
    /\ told = {}
    /\ replay = 0

-----------------------------------------------------------------------------
(***************************************************************************)
(* The world around: bookings are made by another service, days begin, and *)
(* their events reach those who are registered, late or not at all.        *)
(***************************************************************************)
Book(b) ==
    /\ b \notin booked
    /\ booked' = booked \cup {b}
    /\ UNCHANGED <<today, redis, mail, arrange, watch, history>>

DayBegins ==
    /\ today + 1 < MaxDay
    /\ today' = today + 1
    /\ UNCHANGED <<booked, redis, mail, arrange, watch, history>>

Mail == INSTANCE Mailbox WITH Subscriber <- Subscriber, box <- box, seen <- seen

Registered(s) ==
    IF s = Arrange THEN at # "off" ELSE wat[s] \in {"wait", "read", "send"}

Deliver(s, d) ==
    /\ Registered(s)
    /\ d <= today
    /\ box' = [box EXCEPT ![s] = d]
    /\ Mail!Put(s)
    /\ UNCHANGED <<today, booked, redis, arrange, watch, history>>

\* The 30 minutes a Redis entry lives; a simulated day may be shorter or longer.
Expires(d) ==
    /\ \/ checkin[d] # NoEntry /\ checkin' = [checkin EXCEPT ![d] = NoEntry] /\ UNCHANGED checkout
       \/ checkout[d] # NoEntry /\ checkout' = [checkout EXCEPT ![d] = NoEntry] /\ UNCHANGED checkin
    /\ UNCHANGED <<today, booked, mail, arrange, watch, history>>

-----------------------------------------------------------------------------
(***************************************************************************)
(* ArrangeCheckIn.                                                         *)
(***************************************************************************)
Start ==
    /\ at = "off"
    /\ at' = "select"
    /\ UNCHANGED <<today, booked, redis, mail, day, list, todo, dates, missed, watch, history>>

Receive ==
    /\ at = "select"
    /\ Mail!Get(Arrange)
    /\ day' = box[Arrange]
    /\ at' = "find"
    /\ list' = {} /\ todo' = {} /\ dates' = {} /\ missed' = {}
    /\ UNCHANGED <<today, booked, redis, watch, history>>

\* Mutated: the upper end of the range is not excluded.
FindByCheckInDateClosed(d) == {b \in booked : CheckInDay[b] \in {d, d + 1}}

FindByCheckInDate(d) == {b \in booked : CheckInDay[b] = d}

\* Bookings the domain refuses are left out of the list.
bookingsDocToDomain(docs) == docs \cap Valid

\* The rest of the day is skipped: continue.
NextDay == at' = "select"

FindBookings ==
    /\ at = "find"
    /\ \/ /\ list' = bookingsDocToDomain(FindByCheckInDate(day))
          /\ at' = "checkin"
       \/ Faults /\ NextDay /\ UNCHANGED list
    /\ UNCHANGED <<today, booked, redis, mail, day, todo, dates, missed, watch, history>>

\* SetBytes; when it fails the entry may be written or not.
SetCheckin(bookings)     == checkin' = [checkin EXCEPT ![day] = {bookings}] /\ UNCHANGED checkout
SetCheckout(d, bookings) == checkout' = [checkout EXCEPT ![d] = {bookings}] /\ UNCHANGED checkin

cacheCheckIn ==
    /\ at = "checkin"
    /\ \/ SetCheckin(list) /\ at' = "publish" /\ todo' = list
       \/ /\ Faults /\ NextDay
          /\ SetCheckin(list) \/ UNCHANGED redis
          /\ UNCHANGED todo
    /\ UNCHANGED <<today, booked, mail, day, list, dates, missed, watch, history>>

\* Mutated: the loop returns at the first error.
publishCheckinTodayOrReturn(b) ==
    /\ at = "publish"
    /\ b \in todo
    /\ \/ told' = told \cup {b} /\ todo' = todo \ {b} /\ UNCHANGED missed
       \/ /\ Faults
          /\ told' \in {told, told \cup {b}}
          /\ missed' = missed \cup {b}
          /\ todo' = {}
    /\ UNCHANGED <<today, booked, redis, mail, at, day, list, dates, watch, replay>>

\* Mutated: an error is logged and forgotten.
publishCheckinTodayLenient(b) ==
    /\ at = "publish"
    /\ b \in todo
    /\ todo' = todo \ {b}
    /\ told' = told \cup {b} \/ (Faults /\ UNCHANGED told)
    /\ UNCHANGED <<today, booked, redis, mail, at, day, list, dates, missed, watch, replay>>

\* The loop goes on after an error and returns the errors joined.
publishCheckinToday(b) ==
    /\ at = "publish"
    /\ b \in todo
    /\ todo' = todo \ {b}
    /\ \/ told' = told \cup {b} /\ UNCHANGED missed
       \/ /\ Faults
          /\ told' \in {told, told \cup {b}}
          /\ missed' = missed \cup {b}
    /\ UNCHANGED <<today, booked, redis, mail, at, day, list, dates, watch, replay>>

CheckOuts(d) == {b \in list : CheckOutDay[b] = d}

GuestsTold ==
    /\ at = "publish"
    /\ todo = {}
    /\ \/ missed # {} /\ NextDay /\ UNCHANGED dates
       \/ /\ missed = {}
          /\ at' = "checkout"
          /\ dates' = {CheckOutDay[b] : b \in list}
    /\ UNCHANGED <<today, booked, redis, mail, day, list, todo, missed, watch, history>>

\* Mutated: what the file has already is kept.
cacheCheckOutAppending(d) ==
    /\ at = "checkout"
    /\ d \in dates
    /\ dates' = dates \ {d}
    /\ SetCheckout(d, CheckOuts(d) \cup UNION checkout[d])
    /\ UNCHANGED <<today, booked, mail, at, day, list, todo, missed, watch, history>>

\* One entry per check-out day, whatever it had before; the loop goes on after an
\* error, and nothing depends on its result.  That a list does not marshal is left
\* out: cacheCheckIn has marshalled these bookings before, and skips the day if not.
cacheCheckOut(d) ==
    /\ at = "checkout"
    /\ d \in dates
    /\ dates' = dates \ {d}
    /\ SetCheckout(d, CheckOuts(d)) \/ (Faults /\ UNCHANGED redis)
    /\ UNCHANGED <<today, booked, mail, at, day, list, todo, missed, watch, history>>

CheckOutsCached ==
    /\ at = "checkout"
    /\ dates = {}
    /\ NextDay
    /\ UNCHANGED <<today, booked, redis, mail, day, list, todo, dates, missed, watch, history>>

ArrangeCheckIn ==
    \/ Receive \/ FindBookings \/ cacheCheckIn
    \/ \E b \in Booking : publishCheckinToday(b)
    \/ GuestsTold
    \/ \E d \in Day : cacheCheckOut(d)
    \/ CheckOutsCached

-----------------------------------------------------------------------------
(***************************************************************************)
(* CheckOutNotification.                                                   *)
(***************************************************************************)
Watch(w) ==
    /\ wat[w] = "new"
    /\ wat' = [wat EXCEPT ![w] = "wait"]
    /\ UNCHANGED <<today, booked, redis, mail, arrange, read, heard, history>>

WatcherReceives(w) ==
    /\ wat[w] = "wait"
    /\ Mail!Get(w)
    /\ wat' = [wat EXCEPT ![w] = "read"]
    /\ UNCHANGED <<today, booked, redis, arrange, read, heard, history>>

\* Mutated: the key is that of the day of the event.
FileOfTheDay(w) == checkout[seen[w]]

\* GetBytes of the day after the event.
FileOfTomorrow(w) == checkout[seen[w] + 1]

ReadFile(w) ==
    /\ wat[w] = "read"
    /\ \/ /\ \E bookings \in FileOfTomorrow(w) : read' = [read EXCEPT ![w] = bookings]
          /\ wat' = [wat EXCEPT ![w] = "send"]
       \/ /\ FileOfTomorrow(w) = NoEntry \/ Faults
          /\ wat' = [wat EXCEPT ![w] = "wait"]
          /\ UNCHANGED read
    /\ UNCHANGED <<today, booked, redis, mail, arrange, heard, history>>

\* bookingCh <- checkOutBookings: when the other side takes it.
Announce(w) ==
    /\ wat[w] = "send"
    /\ heard' = [heard EXCEPT ![w] = [eve |-> seen[w], bookings |-> read[w]]]
    /\ wat' = [wat EXCEPT ![w] = "wait"]
    /\ UNCHANGED <<today, booked, redis, mail, arrange, read, history>>

Unwatch(w) ==
    /\ wat[w] \in {"wait", "send"}
    /\ wat' = [wat EXCEPT ![w] = "gone"]
    /\ box' = [box EXCEPT ![w] = 0]
    /\ UNCHANGED <<today, booked, redis, seen, arrange, read, heard, history>>

-----------------------------------------------------------------------------
(***************************************************************************)
(* The process ends, by a signal or a crash.  Unread events are gone with  *)
(* their channels; the acknowledgement of the event read last may be lost  *)
(* too, and the broker then delivers it again.                             *)
(***************************************************************************)
End ==
    /\ Faults
    /\ at # "off"
    /\ at' = "off"
    /\ box' = [s \in Subscriber |-> 0]
    /\ \/ UNCHANGED <<seen, replay>>
       \/ /\ day # 0
          /\ replay' = day
          /\ seen' = [seen EXCEPT ![Arrange] = day - 1]
    /\ day' = 0 /\ list' = {} /\ todo' = {} /\ dates' = {} /\ missed' = {}
    /\ wat' = [w \in Watcher |-> IF wat[w] = "new" THEN "new" ELSE "gone"]
    /\ UNCHANGED <<today, booked, redis, read, heard, told>>

Next ==
    \/ DayBegins
    \/ \E b \in Booking : Book(b)
    \/ \E s \in Subscriber, d \in Day : Deliver(s, d)
    \/ \E d \in Day : Expires(d)
    \/ Start \/ ArrangeCheckIn
    \/ \E w \in Watcher : Watch(w) \/ WatcherReceives(w) \/ ReadFile(w) \/ Announce(w) \/ Unwatch(w)
    \/ End

Spec == Init /\ [][Next]_vars

\* The goroutine runs: none of its calls blocks for ever.
FairSpec == Spec /\ WF_vars(ArrangeCheckIn)
-----------------------------------------------------------------------------
(***************************************************************************)
(* Properties.                                                             *)
(***************************************************************************)

\* A guest whose booking is in some check-out file has been told to check in: the
\* file is written only after every guest of its list was told, whatever fails and
\* wherever the process ends, so nobody is reminded to leave who was not let in.
FiledOnlyIfTold ==
    \A d \in Day : \A file \in checkout[d] : file \subseteq told

\* A day's check-out file holds bookings that leave on that day, and of those only
\* the ones that arrived together: preparing a later day overwrites what an
\* earlier one filed.
OneArrivalPerFile ==
    \A d \in Day : \A file \in checkout[d] :
        \E first \in Day : \A b \in file : CheckOutDay[b] = d /\ CheckInDay[b] = first

\* Whoever is reminded to check out leaves on the day after the event, however the
\* reading of the file interleaves with its writing and with later days.
RemindedOnTheEve ==
    \A w \in Watcher : \A b \in heard[w].bookings :
        CheckOutDay[b] = heard[w].eve + 1 /\ b \in told

\* The guest of a valid booking is told for the event of its check-in day, which may
\* come days late but never before the day begins, and a second time only when the
\* process ended and the broker delivered that event again.
ToldOnceNotEarly ==
    [][\A b \in Booking : publishCheckinToday(b) =>
          /\ b \in Valid /\ CheckInDay[b] = day
          /\ CheckInDay[b] <= today
          /\ b \in told => day = replay]_vars

\* The guests of a day are told independently: the failure to tell one of them
\* never costs another one the notification.
EachGuestTold ==
    \A b \in Booking :
        (at = "publish" /\ b \in list) ~> (b \in told \cup missed \/ at = "off")
=============================================================================
