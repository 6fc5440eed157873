----------------------- MODULE DailyPreparationProofs -----------------------
(***************************************************************************)
(* Proofs about the daily preparation, for any bookings, calendar and      *)
(* watchers.  The invariant follows a booking through the goroutine: the   *)
(* list is of the day handled, what left todo was told or missed, and the  *)
(* mailbox shows which days were told before.                              *)
(***************************************************************************)
EXTENDS DailyPreparation, TLAPS

MailInOrder ==
    \A s \in Subscriber : box[s] <= today /\ (box[s] # 0 => box[s] > seen[s])

\* The event in hand was read last, its day has begun, and a day the broker may
\* repeat is no later.
EventInHand ==
    /\ replay <= seen[Arrange] + 1
    /\ day # 0 => day = seen[Arrange] /\ replay <= day
    /\ day <= today

ListOfTheDay ==
    /\ \A b \in list : b \in Valid /\ CheckInDay[b] = day
    /\ at = "find" => list = {}
    /\ at \in {"find", "checkin"} => todo = {} /\ missed = {}

\* What left todo was told or missed; nothing is filed before all were told.
Worked ==
    /\ at = "publish" => list \ (todo \cup missed) \subseteq told
    /\ at = "checkout" => list \subseteq told

\* Who was told before: earlier days, and the day the broker repeats.
ToldBefore ==
    /\ \A b \in told : CheckInDay[b] <= seen[Arrange] \/ CheckInDay[b] = replay
    /\ at \in {"find", "checkin"} =>
          \A b \in told : CheckInDay[b] = day => day = replay
    /\ at = "publish" => \A b \in todo \cap told : day = replay

ReadOnTheEve ==
    \A w \in Watcher : wat[w] = "send" =>
        \A b \in read[w] : CheckOutDay[b] = seen[w] + 1 /\ b \in told

Inv ==
    /\ TypeOK /\ MailInOrder /\ EventInHand /\ ListOfTheDay /\ Worked /\ ToldBefore
    /\ FiledOnlyIfTold /\ OneArrivalPerFile /\ ReadOnTheEve /\ RemindedOnTheEve

LEMMA InvInit == Init => Inv
  <1> SUFFICES ASSUME Init PROVE Inv
    OBVIOUS
  <1> USE MaxDayAssumption DEF Init
  <1>1. TypeOK
    BY DEF TypeOK, Entry, NoEntry
  <1>2. MailInOrder /\ EventInHand /\ ListOfTheDay /\ Worked /\ ToldBefore
    BY DEF MailInOrder, EventInHand, ListOfTheDay, Worked, ToldBefore, Subscriber
  <1>3. FiledOnlyIfTold /\ OneArrivalPerFile /\ ReadOnTheEve /\ RemindedOnTheEve
    BY DEF FiledOnlyIfTold, OneArrivalPerFile, ReadOnTheEve, RemindedOnTheEve, NoEntry
  <1> QED
    BY <1>1, <1>2, <1>3 DEF Inv

\* Steps of the world and of the watchers, which leave the goroutine alone.
LEMMA WorldStep ==
  ASSUME Inv,
         \/ DayBegins
         \/ \E b \in Booking : Book(b)
         \/ \E d \in Day : Expires(d)
  PROVE  Inv'
  <1> USE DEF Inv, TypeOK, MailInOrder, EventInHand, ListOfTheDay, Worked, ToldBefore,
              FiledOnlyIfTold, OneArrivalPerFile, ReadOnTheEve, RemindedOnTheEve
  <1>1. CASE DayBegins
    BY <1>1, MaxDayAssumption DEF DayBegins, redis, mail, arrange, watch, history, Day
  <1>2. CASE \E b \in Booking : Book(b)
    BY <1>2 DEF Book, redis, mail, arrange, watch, history
  <1>3. CASE \E d \in Day : Expires(d)
    <2>1. PICK d \in Day : Expires(d)
      BY <1>3
    <2>2. /\ checkin' = checkin \/ checkin' = [checkin EXCEPT ![d] = {}]
          /\ checkout' = checkout \/ checkout' = [checkout EXCEPT ![d] = {}]
          /\ UNCHANGED <<today, booked, mail, arrange, watch, history>>
      BY <2>1 DEF Expires, NoEntry
    <2>3. {} \in Entry
      BY DEF Entry, NoEntry
    <2>4. checkin' \in [Day -> Entry] /\ checkout' \in [Day -> Entry]
      <3>1. checkin \in [Day -> Entry] /\ checkout \in [Day -> Entry]
        OBVIOUS
      <3> HIDE DEF Inv
      <3> QED
        BY <2>2, <2>3, <3>1
    <2>6. TypeOK'
      BY <2>2, <2>4 DEF mail, arrange, watch, history
    <2>5. FiledOnlyIfTold' /\ OneArrivalPerFile'
      BY <2>2 DEF history
    <2> QED
      BY <2>2, <2>5, <2>6 DEF mail, arrange, watch, history
  <1> QED
    BY <1>1, <1>2, <1>3

LEMMA DeliverStep ==
  ASSUME Inv, NEW s \in Subscriber, NEW d \in Day, Deliver(s, d)
  PROVE  Inv'
  <1>1. today \in 0..(MaxDay - 1)
    BY DEF Inv, TypeOK
  <1>5. d \in 0..(MaxDay - 1)
    BY <1>1, MaxDayAssumption DEF Deliver, Day
  <1> USE <1>5 DEF Deliver, Mail!Put, redis, arrange, watch, history, Inv, TypeOK
  <1>2. TypeOK'
    OBVIOUS
  <1>3. MailInOrder'
    BY DEF MailInOrder
  <1>4. /\ EventInHand' /\ ListOfTheDay' /\ Worked' /\ ToldBefore'
        /\ FiledOnlyIfTold' /\ OneArrivalPerFile' /\ ReadOnTheEve' /\ RemindedOnTheEve'
    BY DEF EventInHand, ListOfTheDay, Worked, ToldBefore, FiledOnlyIfTold, OneArrivalPerFile,
           ReadOnTheEve, RemindedOnTheEve
  <1> QED
    BY <1>2, <1>3, <1>4

LEMMA WatcherStep ==
  ASSUME Inv, NEW w \in Watcher,
         Watch(w) \/ WatcherReceives(w) \/ ReadFile(w) \/ Announce(w) \/ Unwatch(w)
  PROVE  Inv'
  <1>1. w \in Subscriber /\ w # Arrange /\ Arrange \in Subscriber
    BY ArrangeAssumption DEF Subscriber
  <1>2. UNCHANGED <<today, booked, redis, arrange, history>>
    BY DEF Watch, WatcherReceives, ReadFile, Announce, Unwatch, mail
  <1>3. seen'[Arrange] = seen[Arrange]
    BY <1>1 DEF Watch, WatcherReceives, ReadFile, Announce, Unwatch, mail, Mail!Get, Inv, TypeOK
  <1>4. EventInHand' /\ ListOfTheDay' /\ Worked' /\ ToldBefore' /\ FiledOnlyIfTold' /\ OneArrivalPerFile'
    BY <1>2, <1>3 DEF redis, arrange, history, Inv, EventInHand, ListOfTheDay, Worked, ToldBefore,
                      FiledOnlyIfTold, OneArrivalPerFile
  <1> USE <1>1, <1>2 DEF redis, arrange, history, Inv, TypeOK, MailInOrder, ReadOnTheEve,
                         RemindedOnTheEve
  <1>5. CASE Watch(w) \/ Unwatch(w)
    <2>1. TypeOK' /\ MailInOrder'
      BY <1>5, MaxDayAssumption DEF Watch, Unwatch, mail
    <2>2. ReadOnTheEve' /\ RemindedOnTheEve'
      BY <1>5 DEF Watch, Unwatch, mail
    <2> QED
      BY <1>4, <2>1, <2>2
  <1>6. CASE WatcherReceives(w)
    <2>1. TypeOK' /\ MailInOrder' /\ ReadOnTheEve' /\ RemindedOnTheEve'
      BY <1>6, MaxDayAssumption DEF WatcherReceives, Mail!Get
    <2> QED
      BY <1>4, <2>1
  <1>7. CASE ReadFile(w)
    <2>1. seen[w] + 1 \in Day
      BY <1>7, MaxDayAssumption DEF ReadFile, Day
    <2>2. \A bookings \in FileOfTomorrow(w) :
             /\ bookings \in SUBSET Booking
             /\ \A b \in bookings : CheckOutDay[b] = seen[w] + 1 /\ b \in told
      BY <2>1 DEF FileOfTomorrow, FiledOnlyIfTold, OneArrivalPerFile, Entry, NoEntry
    <2>3. CASE \E bookings \in FileOfTomorrow(w) : /\ read' = [read EXCEPT ![w] = bookings]
                                                   /\ wat' = [wat EXCEPT ![w] = "send"]
      <3>1. TypeOK' /\ MailInOrder' /\ ReadOnTheEve' /\ RemindedOnTheEve'
        BY <1>7, <2>2, <2>3 DEF ReadFile, mail
      <3> QED
        BY <1>4, <3>1
    <2>4. CASE wat' = [wat EXCEPT ![w] = "wait"] /\ UNCHANGED read
      <3>1. TypeOK' /\ MailInOrder' /\ ReadOnTheEve' /\ RemindedOnTheEve'
        BY <1>7, <2>4 DEF ReadFile, mail
      <3> QED
        BY <1>4, <3>1
    <2> QED
      BY <1>7, <2>3, <2>4 DEF ReadFile
  <1>8. CASE Announce(w)
    <2>1. TypeOK' /\ MailInOrder' /\ ReadOnTheEve' /\ RemindedOnTheEve'
      BY <1>8 DEF Announce, mail
    <2> QED
      BY <1>4, <2>1
  <1> QED
    BY <1>5, <1>6, <1>7, <1>8

\* No step of the goroutine touches a watcher or takes a booking out of told.
LEMMA WatchersKept ==
  ASSUME Inv, UNCHANGED watch, \A w \in Watcher : seen'[w] = seen[w], told \subseteq told'
  PROVE  ReadOnTheEve' /\ RemindedOnTheEve'
  BY DEF Inv, watch, ReadOnTheEve, RemindedOnTheEve

LEMMA ReceiveStep ==
  ASSUME Inv, Receive
  PROVE  Inv'
  <1>1. /\ Arrange \in Subscriber /\ Watcher \subseteq Subscriber
        /\ \A w \in Watcher : w # Arrange
    BY ArrangeAssumption DEF Subscriber
  <1>2. box[Arrange] # 0 /\ box[Arrange] > seen[Arrange] /\ day' = box[Arrange]
        /\ seen' = [seen EXCEPT ![Arrange] = day'] /\ box' = [box EXCEPT ![Arrange] = 0]
    BY <1>1 DEF Receive, Mail!Get, Inv, MailInOrder
  <1> USE <1>1, <1>2, MaxDayAssumption DEF Receive, redis, watch, history, Inv
  <1>3. TypeOK'
    BY DEF TypeOK
  <1>4. MailInOrder' /\ EventInHand'
    BY DEF MailInOrder, EventInHand, TypeOK
  <1>5. ListOfTheDay' /\ Worked'
    BY DEF ListOfTheDay, Worked
  <1>6. ToldBefore'
    <2>1. \A b \in told : CheckInDay[b] \in Nat
      BY PeriodAssumption DEF TypeOK, Day
    <2> QED
      BY <2>1 DEF ToldBefore, TypeOK
  <1>7. FiledOnlyIfTold' /\ OneArrivalPerFile'
    BY DEF FiledOnlyIfTold, OneArrivalPerFile
  <1>8. ReadOnTheEve' /\ RemindedOnTheEve'
    BY WatchersKept DEF TypeOK
  <1> QED
    BY <1>3, <1>4, <1>5, <1>6, <1>7, <1>8

LEMMA FindStep ==
  ASSUME Inv, FindBookings
  PROVE  Inv'
  <1>1. /\ list = {} /\ todo = {} /\ missed = {} /\ at = "find"
        /\ list' \subseteq {b \in Valid \cap booked : CheckInDay[b] = day}
        /\ at' \in {"checkin", "select"}
    BY DEF FindBookings, NextDay, bookingsDocToDomain, FindByCheckInDate, Inv, ListOfTheDay
  <1>2. UNCHANGED <<today, booked, redis, mail, day, todo, dates, missed, watch, history>>
    BY DEF FindBookings
  <1> USE <1>1, <1>2, ValidAssumption DEF redis, mail, watch, history, Inv
  <1>3. TypeOK'
    BY DEF TypeOK
  <1>4. MailInOrder' /\ EventInHand' /\ ListOfTheDay' /\ Worked' /\ ToldBefore'
    BY DEF MailInOrder, EventInHand, ListOfTheDay, Worked, ToldBefore
  <1>5. FiledOnlyIfTold' /\ OneArrivalPerFile' /\ ReadOnTheEve' /\ RemindedOnTheEve'
    BY DEF FiledOnlyIfTold, OneArrivalPerFile, ReadOnTheEve, RemindedOnTheEve
  <1> QED
    BY <1>3, <1>4, <1>5

\* The steps that only move the goroutine on.
LEMMA ControlStep ==
  ASSUME Inv, Start \/ GuestsTold \/ CheckOutsCached
  PROVE  Inv'
  <1>1. UNCHANGED <<today, booked, redis, mail, day, list, todo, missed, watch, history>>
    BY DEF Start, GuestsTold, CheckOutsCached
  <1>2. dates' \subseteq Day
    BY PeriodAssumption DEF Start, GuestsTold, CheckOutsCached, Inv, TypeOK
  <1>3. \/ at' = "select"
        \/ at = "publish" /\ at' = "checkout" /\ todo = {} /\ missed = {}
    BY DEF Start, GuestsTold, CheckOutsCached, NextDay
  <1>4. at # "off" => at' # "off"
    BY <1>3
  <1> USE <1>1, <1>2, <1>3 DEF redis, mail, watch, history, Inv
  <1>5. TypeOK'
    BY DEF TypeOK, GuestsTold
  <1>6. MailInOrder' /\ EventInHand' /\ ListOfTheDay'
    BY DEF MailInOrder, EventInHand, ListOfTheDay
  <1>7. Worked' /\ ToldBefore'
    BY DEF Worked, ToldBefore
  <1>8. FiledOnlyIfTold' /\ OneArrivalPerFile' /\ ReadOnTheEve' /\ RemindedOnTheEve'
    BY DEF FiledOnlyIfTold, OneArrivalPerFile, ReadOnTheEve, RemindedOnTheEve
  <1> QED
    BY <1>5, <1>6, <1>7, <1>8

LEMMA CacheCheckInStep ==
  ASSUME Inv, cacheCheckIn
  PROVE  Inv'
  <1>1. /\ at = "checkin" /\ todo = {} /\ missed = {}
        /\ \/ at' = "publish" /\ todo' = list
           \/ at' = "select" /\ todo' = todo
        /\ checkin' = checkin \/ checkin' = [checkin EXCEPT ![day] = {list}]
        /\ UNCHANGED <<checkout, today, booked, mail, day, list, dates, missed, watch, history>>
    BY DEF cacheCheckIn, SetCheckin, NextDay, redis, Inv, ListOfTheDay
  <1> USE <1>1 DEF mail, watch, history, Inv
  <1>2. TypeOK'
    <2>1. {list} \in Entry
      BY DEF Entry, TypeOK
    <2> QED
      BY <2>1 DEF TypeOK
  <1>3. MailInOrder' /\ EventInHand' /\ ListOfTheDay'
    BY DEF MailInOrder, EventInHand, ListOfTheDay
  <1>4. Worked' /\ ToldBefore'
    BY DEF Worked, ToldBefore, ListOfTheDay
  <1>5. FiledOnlyIfTold' /\ OneArrivalPerFile' /\ ReadOnTheEve' /\ RemindedOnTheEve'
    BY DEF FiledOnlyIfTold, OneArrivalPerFile, ReadOnTheEve, RemindedOnTheEve
  <1> QED
    BY <1>2, <1>3, <1>4, <1>5

LEMMA PublishStep ==
  ASSUME Inv, NEW b \in Booking, publishCheckinToday(b)
  PROVE  Inv'
  <1>1. /\ at = "publish" /\ b \in todo /\ todo' = todo \ {b}
        /\ \/ told' = told \cup {b} /\ missed' = missed
           \/ told' \in {told, told \cup {b}} /\ missed' = missed \cup {b}
        /\ UNCHANGED <<today, booked, redis, mail, at, day, list, dates, watch, replay>>
    BY DEF publishCheckinToday
  <1>2. b \in list /\ CheckInDay[b] = day /\ day # 0 /\ day = seen[Arrange]
    BY <1>1 DEF Inv, TypeOK, ListOfTheDay, EventInHand
  <1> USE <1>1, <1>2 DEF redis, mail, watch, Inv
  <1>3. TypeOK'
    BY DEF TypeOK
  <1>4. MailInOrder' /\ EventInHand' /\ ListOfTheDay'
    BY DEF MailInOrder, EventInHand, ListOfTheDay
  <1>5. Worked'
    BY DEF Worked
  <1>6. ToldBefore'
    BY DEF ToldBefore, TypeOK
  <1>7. told \subseteq told'
    OBVIOUS
  <1>8. FiledOnlyIfTold' /\ OneArrivalPerFile'
    BY <1>7 DEF FiledOnlyIfTold, OneArrivalPerFile
  <1>9. ReadOnTheEve' /\ RemindedOnTheEve'
    BY <1>7, WatchersKept
  <1> QED
    BY <1>3, <1>4, <1>5, <1>6, <1>8, <1>9

LEMMA CacheCheckOutStep ==
  ASSUME Inv, NEW d \in Day, cacheCheckOut(d)
  PROVE  Inv'
  <1>1. /\ at = "checkout" /\ dates' = dates \ {d}
        /\ checkout' = checkout \/ checkout' = [checkout EXCEPT ![d] = {CheckOuts(d)}]
        /\ UNCHANGED <<checkin, today, booked, mail, at, day, list, todo, missed, watch, history>>
    BY DEF cacheCheckOut, SetCheckout, redis
  <1>2. /\ CheckOuts(d) \subseteq list /\ CheckOuts(d) \subseteq Booking /\ CheckOuts(d) \subseteq told
        /\ \A b \in CheckOuts(d) : CheckOutDay[b] = d /\ CheckInDay[b] = day
    BY <1>1 DEF CheckOuts, Inv, TypeOK, Worked, ListOfTheDay
  <1>3. day \in Day
    BY <1>1, MaxDayAssumption DEF Inv, TypeOK, Day
  <1> USE <1>1, <1>2, <1>3 DEF mail, watch, history, Inv
  <1>4. TypeOK'
    <2>1. {CheckOuts(d)} \in Entry
      BY DEF Entry
    <2> QED
      BY <2>1 DEF TypeOK
  <1>5. MailInOrder' /\ EventInHand' /\ ListOfTheDay' /\ Worked' /\ ToldBefore'
    BY DEF MailInOrder, EventInHand, ListOfTheDay, Worked, ToldBefore
  <1>6. \A e \in Day : \A file \in checkout'[e] :
           file \in checkout[e] \/ (e = d /\ file = CheckOuts(d))
    BY DEF TypeOK
  <1>7. FiledOnlyIfTold' /\ OneArrivalPerFile'
    BY <1>6 DEF FiledOnlyIfTold, OneArrivalPerFile
  <1>8. ReadOnTheEve' /\ RemindedOnTheEve'
    BY DEF ReadOnTheEve, RemindedOnTheEve
  <1> QED
    BY <1>4, <1>5, <1>7, <1>8

LEMMA EndStep ==
  ASSUME Inv, End
  PROVE  Inv'
  <1>1. /\ Arrange \in Subscriber
        /\ \A w \in Watcher : w \in Subscriber /\ w # Arrange
    BY ArrangeAssumption DEF Subscriber
  <1>2. /\ at' = "off" /\ box' = [s \in Subscriber |-> 0]
        /\ \/ seen' = seen /\ replay' = replay
           \/ day # 0 /\ replay' = day /\ seen' = [seen EXCEPT ![Arrange] = day - 1]
        /\ day' = 0 /\ list' = {} /\ todo' = {} /\ dates' = {} /\ missed' = {}
        /\ \A w \in Watcher : wat'[w] \in {"new", "gone"}
        /\ UNCHANGED <<today, booked, redis, read, heard, told>>
    BY DEF End
  <1> USE <1>1, <1>2, MaxDayAssumption DEF redis, Inv
  <1>3. TypeOK'
    BY DEF TypeOK, End
  <1>4. MailInOrder' /\ EventInHand' /\ ListOfTheDay' /\ Worked'
    BY DEF TypeOK, MailInOrder, EventInHand, ListOfTheDay, Worked
  <1>5. ToldBefore'
    <2>1. /\ \A b \in told : CheckInDay[b] \in Nat
          /\ seen[Arrange] \in Nat /\ replay \in Nat /\ day \in Nat
      BY PeriodAssumption DEF TypeOK, Day
    <2>2. \A b \in told : CheckInDay[b] <= seen[Arrange] \/ CheckInDay[b] = replay
      BY DEF ToldBefore
    <2>3. CASE seen' = seen /\ replay' = replay
      BY <2>2, <2>3 DEF ToldBefore
    <2>4. CASE day # 0 /\ replay' = day /\ seen' = [seen EXCEPT ![Arrange] = day - 1]
      <3>1. seen'[Arrange] = day - 1 /\ day = seen[Arrange] /\ replay <= day
        BY <2>4 DEF TypeOK, EventInHand
      <3>2. \A b \in told : CheckInDay[b] <= seen'[Arrange] \/ CheckInDay[b] = replay'
        BY <2>1, <2>2, <2>4, <3>1
      <3> QED
        BY <3>2 DEF ToldBefore
    <2> QED
      BY <2>3, <2>4
  <1>6. FiledOnlyIfTold' /\ OneArrivalPerFile' /\ ReadOnTheEve' /\ RemindedOnTheEve'
    BY DEF FiledOnlyIfTold, OneArrivalPerFile, ReadOnTheEve, RemindedOnTheEve
  <1> QED
    BY <1>3, <1>4, <1>5, <1>6

LEMMA InvStep == Inv /\ [Next]_vars => Inv'
  <1> SUFFICES ASSUME Inv, [Next]_vars PROVE Inv'
    OBVIOUS
  <1>1. CASE UNCHANGED vars
    BY <1>1 DEF vars, redis, mail, arrange, watch, history, Inv, TypeOK, MailInOrder,
                EventInHand, ListOfTheDay, Worked, ToldBefore, FiledOnlyIfTold,
                OneArrivalPerFile, ReadOnTheEve, RemindedOnTheEve
  <1>2. CASE ArrangeCheckIn
    BY <1>2, ReceiveStep, FindStep, ControlStep, CacheCheckInStep, PublishStep, CacheCheckOutStep
       DEF ArrangeCheckIn
  <1> QED
    BY <1>1, <1>2, WorldStep, DeliverStep, WatcherStep, ControlStep, EndStep DEF Next

LEMMA InvAlways == Spec => []Inv
  BY InvInit, InvStep, PTL DEF Spec

\* The types of the daily preparation, for any bookings, calendar and watchers.
THEOREM DailyPreparationTyped == Spec => []TypeOK
  BY InvAlways, PTL DEF Inv

\* Only bookings whose guests were all told reach a check-out file.
THEOREM FiledAfterTold == Spec => []FiledOnlyIfTold
  BY InvAlways, PTL DEF Inv

\* A check-out file holds the bookings of one arrival day and one departure day.
THEOREM FileOfOneArrival == Spec => []OneArrivalPerFile
  BY InvAlways, PTL DEF Inv

\* Reminders to check out reach nobody but those who leave on the next day.
THEOREM RemindersInTime == Spec => []RemindedOnTheEve
  BY InvAlways, PTL DEF Inv

\* Nobody is told before the check-in day begins, nor twice unless the broker repeats
\* the event of that day.
THEOREM ToldOnce == Spec => ToldOnceNotEarly
  <1>1. Inv /\ [Next]_vars =>
          [\A b \in Booking : publishCheckinToday(b) =>
              /\ b \in Valid /\ CheckInDay[b] = day
              /\ CheckInDay[b] <= today
              /\ b \in told => day = replay]_vars
    BY DEF publishCheckinToday, Inv, TypeOK, ListOfTheDay, ToldBefore, EventInHand
  <1> QED
    BY <1>1, InvAlways, PTL DEF Spec, ToldOnceNotEarly
=============================================================================
