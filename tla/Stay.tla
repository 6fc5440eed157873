-------------------------------- MODULE Stay --------------------------------
(***************************************************************************)
(* The stay handler of one session, from the key to the door: the routines *)
(* of the check-in day, of every full day and of the check-out day, the    *)
(* wait for the day to change between them, and the meal notifications it  *)
(* gets from the notification service.                                     *)
(*                                                                         *)
(* Time events reach it through the fan-out of TimeEvents, used here as    *)
(* the mailboxes that module is shown to implement: a day event replaces   *)
(* an unread one, an hour event is dropped when one is unread.  Guest      *)
(* actions reach it through Chat, where none is lost outside a system      *)
(* request; the guest may take each of them at any time, or never.         *)
(***************************************************************************)
EXTENDS Naturals, Sequences

CONSTANTS
    CheckIn, CheckOut,   \* first and last day of the stay period
    MaxDay,              \* bound on the simulated calendar
    Faults               \* may calls fail and the session drop?

\* NewPeriod accepts hours of one day, a stay without a night.
ASSUME PeriodAssumption == CheckIn \in Nat \ {0} /\ CheckOut \in Nat /\ CheckIn <= CheckOut
ASSUME MaxDayAssumption == MaxDay \in Nat /\ CheckIn <= MaxDay
ASSUME FaultsAssumption == Faults \in BOOLEAN

VARIABLES
    day, hour,   \* the clock simulator
    hourDue,     \* is the event of this hour still on its way?
    since,       \* history: the last day event notified before the handler registered
    dayEvent,    \* the last day-change event that was notified
    dayBox,      \* the handler's channel of day events; 0 for none
    hourBox,     \* the meal's channel of hour events; none for none
    routine,     \* where the handler is
    step,        \* its step in that routine
    meal,        \* the HourNotification of the meal awaited
    orders       \* cleaning orders published

clock == <<day, hour, hourDue, since>>
vars  == <<clock, dayEvent, dayBox, hourBox, routine, step, meal, orders>>

\* The hours of the day that matter, and one that does not.
Hours == <<"midnight", "six", "noon", "eighteen">>
Hour  == {Hours[i] : i \in 1..4}

Action(a)    == [kind |-> "action", what |-> a]
Breakfast    == [kind |-> "meal", what |-> "six"]
Dinner       == [kind |-> "meal", what |-> "eighteen"]
CleanRoom(t) == [kind |-> "order", what |-> t]

\* prepareCottageForSleep.
PrepareCottageForSleep == <<Dinner, Action("GO_FOR_DINNER"), CleanRoom("prepareForSleep")>>

\* cleanCottage.
CleanCottage == <<Action("LEAVE_CLEANUP_NOTIFICATION"), CleanRoom("dailyCleaning")>>

Routine ==
    [checkInDay |->
        <<Action("ENTER_COTTAGE"), Action("GO_FOR_A_BATH"), Dinner>>
          \o PrepareCottageForSleep \o <<Action("GO_TO_SLEEP")>>,
     stay |->
        <<Action("WAKEUP"), Breakfast, Action("GO_FOR_BREAKFAST")>> \o CleanCottage
          \o <<Action("ENJOY_RESORT"), Action("GO_FOR_A_BATH"), Dinner>>
          \o PrepareCottageForSleep \o <<Action("GO_TO_SLEEP")>>,
     checkoutDay |->
        <<Action("WAKEUP"), Action("LEAVE_COTTAGE")>>]

OrderType == {"dailyCleaning", "prepareForSleep"}

TypeOK ==
    /\ day \in 0..MaxDay
    /\ hour \in 1..4
    /\ hourDue \in BOOLEAN
    /\ since \in 0..MaxDay
    /\ dayEvent \in 0..MaxDay
    /\ dayBox \in 0..MaxDay
    /\ hourBox \in Hour \cup {"none"}
    /\ routine \in {"checkInDay", "transition", "waiting", "stay", "checkoutDay", "left", "ended"}
    /\ step \in IF routine \in DOMAIN Routine THEN DOMAIN Routine[routine] ELSE {1}
    /\ meal \in {"idle", "listening", "rung"}
    /\ orders \in [OrderType -> Nat]

\* The guest arrived on the first day of the stay and got the key on that day or
\* later.  The day queue is durable: any number of events may still be in it.
Init ==
    /\ day \in CheckIn..MaxDay
    /\ hour \in 1..4
    /\ hourDue \in BOOLEAN
    /\ since \in 0..day
    /\ dayEvent = since
    /\ dayBox = 0
    /\ hourBox = "none"
    /\ routine = "checkInDay" /\ step = 1
    /\ meal = "idle"
    /\ orders = [t \in OrderType |-> 0]

-----------------------------------------------------------------------------
(***************************************************************************)
(* The clock and its events.                                               *)
(***************************************************************************)

\* After MaxDay only the hours go on.
Tick ==
    /\ ~hourDue
    /\ hour' = IF hour = 4 THEN 1 ELSE hour + 1
    /\ day' = IF hour = 4 /\ day < MaxDay THEN day + 1 ELSE day
    /\ hourDue' = TRUE
    /\ UNCHANGED <<since, dayEvent, dayBox, hourBox, routine, step, meal, orders>>

\* notify: dropped for a busy subscriber, and for one that is not registered.
HourEvent ==
    /\ hourDue
    /\ hourDue' = FALSE
    /\ hourBox' = IF meal \in {"listening", "rung"} /\ hourBox = "none"
                  THEN Hours[hour] ELSE hourBox
    /\ UNCHANGED <<day, hour, since, dayEvent, dayBox, routine, step, meal, orders>>

\* notifyLatest; the event may be late by days.
DayEvent ==
    /\ dayEvent < day
    /\ dayEvent' = dayEvent + 1
    /\ dayBox' = dayEvent'
    /\ UNCHANGED <<clock, hourBox, routine, step, meal, orders>>

-----------------------------------------------------------------------------
(***************************************************************************)
(* The routines.                                                           *)
(***************************************************************************)
Enter(r) == routine' = r /\ step' = 1

At(kind) ==
    /\ routine \in DOMAIN Routine
    /\ Routine[routine][step].kind = kind

What == Routine[routine][step].what

\* The next step of the routine, or what Handle does after it.
Advance ==
    IF step < Len(Routine[routine]) THEN UNCHANGED routine /\ step' = step + 1
    ELSE Enter(IF routine = "checkoutDay" THEN "left" ELSE "transition")

waitForAction ==
    /\ At("action")
    /\ Advance
    /\ UNCHANGED <<clock, dayEvent, dayBox, hourBox, meal, orders>>

CleaningOrdered ==
    /\ At("order")
    /\ orders' = [orders EXCEPT ![What] = @ + 1]
    /\ Advance \/ (Faults /\ Enter("ended"))
    /\ UNCHANGED <<clock, dayEvent, dayBox, hourBox, meal>>

\* notifyMeal starts HourNotification, which registers a channel of its own.
NotifyMeal ==
    /\ At("meal")
    /\ meal = "idle"
    /\ meal' = "listening"
    /\ UNCHANGED <<clock, dayEvent, dayBox, hourBox, routine, step, orders>>

\* Mutated: HourNotification returns, and unregisters, after the first event.
HourNotificationOnce ==
    /\ meal = "listening"
    /\ hourBox # "none"
    /\ hourBox' = "none"
    /\ meal' = IF hourBox = What THEN "rung" ELSE "returned"
    /\ UNCHANGED <<clock, dayEvent, dayBox, routine, step, orders>>

HourNotification ==
    /\ meal = "listening"
    /\ hourBox # "none"
    /\ hourBox' = "none"
    /\ meal' = IF hourBox = What THEN "rung" ELSE meal
    /\ UNCHANGED <<clock, dayEvent, dayBox, routine, step, orders>>

\* BREAKFAST_READY or DINNER_READY is sent and the hour channel given up.
MealReady ==
    /\ meal = "rung"
    /\ meal' = "idle"
    /\ hourBox' = "none"
    /\ Advance
    /\ UNCHANGED <<clock, dayEvent, dayBox, orders>>

\* Mutated: the day before check-out counts.
IsCheckoutOnTheEve(d) == d + 1 >= CheckOut

isCheckoutToday(d) == d >= CheckOut

\* waitForStayTransition looks at the clock first; an error there is ignored.
ReadClock ==
    /\ routine = "transition"
    /\ \/ isCheckoutToday(day) /\ Enter("checkoutDay")
       \/ ~isCheckoutToday(day) /\ Enter("waiting")
       \/ Faults /\ Enter("waiting")
    /\ UNCHANGED <<clock, dayEvent, dayBox, hourBox, meal, orders>>

\* Mutated: the event is looked at and left in the channel.
TakeDayEventKeepingIt ==
    /\ routine = "waiting"
    /\ dayBox # 0
    /\ Enter(IF isCheckoutToday(dayBox) THEN "checkoutDay" ELSE "stay")
    /\ UNCHANGED <<clock, dayEvent, dayBox, hourBox, meal, orders>>

TakeDayEvent ==
    /\ routine = "waiting"
    /\ dayBox # 0
    /\ dayBox' = 0
    /\ Enter(IF isCheckoutToday(dayBox) THEN "checkoutDay" ELSE "stay")
    /\ UNCHANGED <<clock, dayEvent, hourBox, meal, orders>>

\* The ticker has the clock read every 250 ms.
PollClock ==
    /\ routine = "waiting"
    /\ isCheckoutToday(day)
    /\ Enter("checkoutDay")
    /\ UNCHANGED <<clock, dayEvent, dayBox, hourBox, meal, orders>>

Drop ==
    /\ Faults
    /\ routine \notin {"left", "ended"}
    /\ Enter("ended")
    /\ meal' = "idle"
    /\ hourBox' = "none"
    /\ UNCHANGED <<clock, dayEvent, dayBox, orders>>

Handle ==
    \/ waitForAction \/ CleaningOrdered
    \/ NotifyMeal \/ HourNotification \/ MealReady
    \/ ReadClock \/ TakeDayEvent \/ PollClock

Next == Handle \/ Drop \/ Tick \/ HourEvent \/ DayEvent

Spec == Init /\ [][Next]_vars

\* The handler runs, the guest does what is waited for, and the clock goes on.
FairSpec == Spec /\ WF_vars(Handle) /\ WF_vars(Tick) /\ WF_vars(HourEvent) /\ WF_vars(DayEvent)
-----------------------------------------------------------------------------
(***************************************************************************)
(* Properties.                                                             *)
(***************************************************************************)

\* However late the day events are and whenever the clock cannot be read, nobody is
\* sent home before the last day of the stay.
NotSentHomeEarly == routine \in {"checkoutDay", "left"} => day >= CheckOut

\* The days before the check-out day whose events come after the handler registered:
\* no more than the nights of the stay when the events are at most a day behind, and
\* days before the check-in among them when they are later.
Days == IF since + 1 < CheckOut THEN CheckOut - (since + 1) ELSE 0

\* Each full-day routine is started by an event of its own, of a day before the
\* check-out day: however late the events come, at once or one in place of another,
\* the cottage is cleaned at most once for each such day and prepared for sleep once
\* more.
OrdersPerDayEvent ==
    /\ orders["dailyCleaning"] <= Days
    /\ orders["prepareForSleep"] <= Days + 1

\* If the guest keeps going and, from some time on, every hour event is taken before
\* the next one is due, the stay ends: no meal is waited for in vain and no day
\* event is missed for good.
StayEnds == <>[](hourDue => hourBox = "none") => <>(routine \in {"left", "ended"})
=============================================================================
