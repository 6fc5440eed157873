----------------------------- MODULE StayProofs -----------------------------
(***************************************************************************)
(* Proofs about the stay handler, for every stay period: nobody is sent    *)
(* home early and no day event leads to two orders of a kind.  The second  *)
(* needs to know where in its routine the handler orders, and that every   *)
(* routine of a full day has used up a day event: the orders published,    *)
(* and the one the running routine still owes, never outnumber the events  *)
(* taken.                                                                  *)
(***************************************************************************)
EXTENDS Stay, SequenceTheorems, TLAPS

-----------------------------------------------------------------------------
(***************************************************************************)
(* The sequences of steps, joined by \o.                                   *)
(***************************************************************************)
\* The steps the routines are made of.
Actions == {"ENTER_COTTAGE", "GO_FOR_A_BATH", "GO_FOR_DINNER", "GO_TO_SLEEP", "WAKEUP",
            "GO_FOR_BREAKFAST", "LEAVE_CLEANUP_NOTIFICATION", "ENJOY_RESORT", "LEAVE_COTTAGE"}

Steps == {Action(a) : a \in Actions} \cup {Breakfast, Dinner} \cup {CleanRoom(t) : t \in OrderType}

LEMMA StepKinds ==
  /\ \A a \in Actions : Action(a) \in Steps /\ Action(a).kind = "action"
  /\ Breakfast \in Steps /\ Breakfast.kind = "meal"
  /\ Dinner \in Steps /\ Dinner.kind = "meal"
  /\ \A t \in OrderType : /\ CleanRoom(t) \in Steps
                          /\ CleanRoom(t).kind = "order" /\ CleanRoom(t).what = t
  <1>1. /\ \A a \in Actions : Action(a).kind = "action"
        /\ Breakfast.kind = "meal" /\ Dinner.kind = "meal"
        /\ \A t \in OrderType : CleanRoom(t).kind = "order" /\ CleanRoom(t).what = t
    BY DEF Action, Breakfast, Dinner, CleanRoom
  <1>2. /\ \A a \in Actions : Action(a) \in Steps
        /\ Breakfast \in Steps /\ Dinner \in Steps
        /\ \A t \in OrderType : CleanRoom(t) \in Steps
    BY Zenon DEF Steps
  <1> QED
    BY <1>1, <1>2

LEMMA Triple ==
  ASSUME NEW a \in Steps, NEW b \in Steps, NEW c \in Steps
  PROVE  /\ <<a, b, c>> \in Seq(Steps) /\ Len(<<a, b, c>>) = 3
         /\ <<a, b, c>>[1] = a /\ <<a, b, c>>[2] = b /\ <<a, b, c>>[3] = c
  OBVIOUS

LEMMA Pair ==
  ASSUME NEW a \in Steps, NEW b \in Steps
  PROVE  /\ <<a, b>> \in Seq(Steps) /\ Len(<<a, b>>) = 2
         /\ <<a, b>>[1] = a /\ <<a, b>>[2] = b
  OBVIOUS

LEMMA Joined ==
    ASSUME NEW s \in Seq(Steps), NEW t \in Seq(Steps)
    PROVE  /\ s \o t \in Seq(Steps)
           /\ Len(s \o t) = Len(s) + Len(t)
           /\ \A i \in 1..(Len(s) + Len(t)) :
                 (s \o t)[i] = IF i <= Len(s) THEN s[i] ELSE t[i - Len(s)]
  BY ConcatProperties

LEMMA LeftStep ==
    ASSUME NEW s \in Seq(Steps), NEW t \in Seq(Steps), NEW i \in 1..Len(s)
    PROVE  (s \o t)[i] = s[i]
  <1>1. Len(s) \in Nat /\ Len(t) \in Nat
    OBVIOUS
  <1>2. i \in 1..(Len(s) + Len(t)) /\ i <= Len(s)
    BY <1>1
  <1> QED
    BY <1>2, Joined

LEMMA RightStep ==
    ASSUME NEW s \in Seq(Steps), NEW t \in Seq(Steps), NEW i \in 1..Len(t),
           NEW k, k = Len(s) + i
    PROVE  (s \o t)[k] = t[i]
  <1>1. Len(s) \in Nat /\ Len(t) \in Nat
    OBVIOUS
  <1>2. k \in 1..(Len(s) + Len(t)) /\ ~(k <= Len(s)) /\ k - Len(s) = i
    BY <1>1
  <1> QED
    BY <1>2, Joined

\* u is what s and t are together.
IsJoin(u, s, t) ==
    /\ u \in Seq(Steps)
    /\ Len(u) = Len(s) + Len(t)
    /\ \A i \in 1..Len(s) : u[i] = s[i]
    /\ \A i \in 1..Len(t) : u[Len(s) + i] = t[i]

LEMMA Join ==
    ASSUME NEW s \in Seq(Steps), NEW t \in Seq(Steps)
    PROVE  IsJoin(s \o t, s, t)
  <1>1. \A i \in 1..Len(s) : (s \o t)[i] = s[i]
    BY LeftStep
  <1>2. \A i \in 1..Len(t) : (s \o t)[Len(s) + i] = t[i]
    BY RightStep
  <1>3. s \o t \in Seq(Steps) /\ Len(s \o t) = Len(s) + Len(t)
    BY Joined
  <1> QED
    BY Zenon, <1>1, <1>2, <1>3 DEF IsJoin

\* Where the orders of a sequence of steps are.
Orders(s, places) == \A i \in 1..Len(s) : s[i].kind = "order" <=> i \in places

LEMMA Pieces ==
    /\ PrepareCottageForSleep \in Seq(Steps) /\ Len(PrepareCottageForSleep) = 3
    /\ Orders(PrepareCottageForSleep, {3})
    /\ PrepareCottageForSleep[3].what = "prepareForSleep"
    /\ CleanCottage \in Seq(Steps) /\ Len(CleanCottage) = 2
    /\ Orders(CleanCottage, {2})
    /\ CleanCottage[2].what = "dailyCleaning"
  <1> DEFINE a == Action("GO_FOR_DINNER") b == CleanRoom("prepareForSleep")
             c == Action("LEAVE_CLEANUP_NOTIFICATION") d == CleanRoom("dailyCleaning")
  <1>1. /\ Dinner \in Steps /\ Dinner.kind = "meal"
        /\ a \in Steps /\ a.kind = "action"
        /\ b \in Steps /\ b.kind = "order" /\ b.what = "prepareForSleep"
        /\ c \in Steps /\ c.kind = "action"
        /\ d \in Steps /\ d.kind = "order" /\ d.what = "dailyCleaning"
    BY StepKinds DEF Actions, OrderType
  <1>2. PrepareCottageForSleep = <<Dinner, a, b>> /\ CleanCottage = <<c, d>>
    BY DEF PrepareCottageForSleep, CleanCottage
  <1> HIDE DEF a, b, c, d
  <1> QED
    BY <1>1, <1>2, Triple, Pair DEF Orders

\* Where the orders of the routines are: the sequences are joined one after another.
LEMMA OrderSteps ==
    /\ DOMAIN Routine = {"checkInDay", "stay", "checkoutDay"}
    /\ \A r \in DOMAIN Routine : Routine[r] \in Seq(Steps)
    /\ Len(Routine["checkInDay"]) = 7
    /\ Orders(Routine["checkInDay"], {6})
    /\ Routine["checkInDay"][6].what = "prepareForSleep"
    /\ Len(Routine["stay"]) = 12
    /\ Orders(Routine["stay"], {5, 11})
    /\ Routine["stay"][5].what = "dailyCleaning"
    /\ Routine["stay"][11].what = "prepareForSleep"
    /\ Len(Routine["checkoutDay"]) = 2
    /\ Orders(Routine["checkoutDay"], {})
  <1> DEFINE a1 == Action("ENTER_COTTAGE") a2 == Action("GO_FOR_A_BATH")
             a3 == Action("GO_TO_SLEEP") a4 == Action("WAKEUP")
             a5 == Action("GO_FOR_BREAKFAST") a6 == Action("ENJOY_RESORT")
             a7 == Action("LEAVE_COTTAGE")
             arrive == <<a1, a2, Dinner>>
             sleep  == <<a3>>
             rise   == <<a4, Breakfast, a5>>
             enjoy  == <<a6, a2, Dinner>>
             leave  == <<a4, a7>>
             first  == arrive \o PrepareCottageForSleep
             clean  == rise \o CleanCottage
             full   == clean \o enjoy
             night  == full \o PrepareCottageForSleep
             day1   == first \o sleep
             whole  == night \o sleep
  <1>1. /\ DOMAIN Routine = {"checkInDay", "stay", "checkoutDay"}
        /\ Routine["checkInDay"] = day1
        /\ Routine["stay"] = whole
        /\ Routine["checkoutDay"] = leave
    BY Zenon DEF Routine
  <1>2. /\ {a1, a2, a3, a4, a5, a6, a7, Breakfast, Dinner} \subseteq Steps
        /\ \A a \in {a1, a2, a3, a4, a5, a6, a7, Breakfast, Dinner} : a.kind # "order"
    BY StepKinds DEF Actions
  <1> HIDE DEF a1, a2, a3, a4, a5, a6, a7
  <1>3. /\ arrive \in Seq(Steps) /\ Len(arrive) = 3 /\ Orders(arrive, {})
        /\ rise \in Seq(Steps) /\ Len(rise) = 3 /\ Orders(rise, {})
        /\ enjoy \in Seq(Steps) /\ Len(enjoy) = 3 /\ Orders(enjoy, {})
    BY <1>2, Triple DEF Orders
  <1>4. /\ leave \in Seq(Steps) /\ Len(leave) = 2 /\ Orders(leave, {})
        /\ sleep \in Seq(Steps) /\ Len(sleep) = 1 /\ Orders(sleep, {})
    BY <1>2, Pair DEF Orders
  <1> HIDE DEF arrive, sleep, rise, enjoy, leave
  <1>5. IsJoin(first, arrive, PrepareCottageForSleep)
    BY Zenon, Join, <1>3, Pieces
  <1>6. /\ first \in Seq(Steps) /\ Len(first) = 6 /\ Orders(first, {6})
        /\ first[6].what = "prepareForSleep"
    <2> HIDE DEF first
    <2> QED
      BY <1>3, Pieces, <1>5 DEF IsJoin, Orders
  <1> HIDE DEF first
  <1>7. IsJoin(clean, rise, CleanCottage)
    BY Zenon, Join, <1>3, Pieces
  <1>8. /\ clean \in Seq(Steps) /\ Len(clean) = 5 /\ Orders(clean, {5})
        /\ clean[5].what = "dailyCleaning"
    <2> HIDE DEF clean
    <2> QED
      BY <1>3, Pieces, <1>7 DEF IsJoin, Orders
  <1> HIDE DEF clean
  <1>9. IsJoin(day1, first, sleep)
    BY Zenon, Join, <1>4, <1>6
  <1>10. /\ day1 \in Seq(Steps) /\ Len(day1) = 7 /\ Orders(day1, {6})
        /\ day1[6].what = "prepareForSleep"
    <2> HIDE DEF day1
    <2> QED
      BY <1>4, <1>6, <1>9 DEF IsJoin, Orders
  <1> HIDE DEF day1
  <1>11. IsJoin(full, clean, enjoy)
    BY Zenon, Join, <1>3, <1>8
  <1>12. /\ full \in Seq(Steps) /\ Len(full) = 8 /\ Orders(full, {5})
        /\ full[5].what = "dailyCleaning"
    <2> HIDE DEF full
    <2> QED
      BY <1>3, <1>8, <1>11 DEF IsJoin, Orders
  <1> HIDE DEF full
  <1>13. IsJoin(night, full, PrepareCottageForSleep)
    BY Zenon, Join, <1>12, Pieces
  <1>14. /\ night \in Seq(Steps) /\ Len(night) = 11 /\ Orders(night, {5, 11})
        /\ night[5].what = "dailyCleaning"
        /\ night[11].what = "prepareForSleep"
    <2> HIDE DEF night
    <2> QED
      BY <1>12, Pieces, <1>13 DEF IsJoin, Orders
  <1> HIDE DEF night
  <1>15. IsJoin(whole, night, sleep)
    BY Zenon, Join, <1>4, <1>14
  <1>16. /\ whole \in Seq(Steps) /\ Len(whole) = 12 /\ Orders(whole, {5, 11})
        /\ whole[5].what = "dailyCleaning"
        /\ whole[11].what = "prepareForSleep"
    <2> HIDE DEF whole
    <2> QED
      BY <1>4, <1>14, <1>15 DEF IsJoin, Orders
  <1> HIDE DEF whole
  <1> QED
    BY <1>1, <1>4, <1>10, <1>16

LEMMA Routines ==
    /\ DOMAIN Routine = {"checkInDay", "stay", "checkoutDay"}
    /\ Len(Routine["checkInDay"]) = 7 /\ DOMAIN Routine["checkInDay"] = 1..7
    /\ Len(Routine["stay"]) = 12 /\ DOMAIN Routine["stay"] = 1..12
    /\ Len(Routine["checkoutDay"]) = 2 /\ DOMAIN Routine["checkoutDay"] = 1..2
    /\ \A i \in 1..7 : Routine["checkInDay"][i].kind = "order" <=> i = 6
    /\ \A i \in 1..12 : Routine["stay"][i].kind = "order" <=> i \in {5, 11}
    /\ \A i \in 1..2 : Routine["checkoutDay"][i].kind # "order"
    /\ Routine["checkInDay"][6].what = "prepareForSleep"
    /\ Routine["stay"][5].what = "dailyCleaning"
    /\ Routine["stay"][11].what = "prepareForSleep"
  <1>1. \A s \in Seq(Steps) : DOMAIN s = 1..Len(s)
    OBVIOUS
  <1>2. /\ Routine["checkInDay"] \in Seq(Steps) /\ Routine["stay"] \in Seq(Steps)
        /\ Routine["checkoutDay"] \in Seq(Steps)
    BY Zenon, OrderSteps
  <1> DEFINE first == Routine["checkInDay"] full == Routine["stay"] last == Routine["checkoutDay"]
  <1>3. /\ Len(first) = 7 /\ DOMAIN first = 1..7 /\ Len(full) = 12 /\ DOMAIN full = 1..12
        /\ Len(last) = 2 /\ DOMAIN last = 1..2
    BY Zenon, <1>1, <1>2, OrderSteps
  <1>4. /\ \A i \in 1..7 : first[i].kind = "order" <=> i \in {6}
        /\ \A i \in 1..12 : full[i].kind = "order" <=> i \in {5, 11}
        /\ \A i \in 1..2 : last[i].kind = "order" <=> i \in {}
    BY Zenon, <1>3, OrderSteps DEF Orders
  <1> QED
    BY Zenon, <1>3, <1>4, OrderSteps

-----------------------------------------------------------------------------
(***************************************************************************)
(* The invariant.                                                          *)
(***************************************************************************)
One(p) == IF p THEN 1 ELSE 0

\* The orders the running routine has yet to publish.
DailyDue   == routine = "stay" /\ step <= 5
PrepareDue == (routine = "checkInDay" /\ step <= 6) \/ (routine = "stay" /\ step <= 11)

\* What the handler knows of the calendar is never ahead of it, and the event in its
\* channel is the newest.
DayBoxNewest ==
    /\ dayEvent <= day
    /\ since <= dayEvent
    /\ dayBox # 0 => dayBox = dayEvent /\ since < dayEvent

\* An upper bound on the day events the handler has taken.
Taken == dayEvent - since - One(dayBox # 0)

MealAwaited == meal # "idle" => At("meal")

OrdersCounted ==
    /\ orders["dailyCleaning"] + One(DailyDue) <= Taken
    /\ orders["dailyCleaning"] + One(DailyDue) <= Days
    /\ orders["prepareForSleep"] + One(PrepareDue) <= Taken + 1
    /\ orders["prepareForSleep"] + One(PrepareDue) <= Days + 1

\* TypeOK in parts.
PlaceOK ==
    /\ routine \in {"checkInDay", "transition", "waiting", "stay", "checkoutDay", "left", "ended"}
    /\ step \in IF routine \in DOMAIN Routine THEN DOMAIN Routine[routine] ELSE {1}
ClockOK ==
    /\ day \in 0..MaxDay /\ hour \in 1..4 /\ hourDue \in BOOLEAN
    /\ since \in 0..MaxDay /\ dayEvent \in 0..MaxDay
BoxesOK == dayBox \in 0..MaxDay /\ hourBox \in Hour \cup {"none"}
MealOK  == meal \in {"idle", "listening", "rung"}
CountOK ==
    /\ orders \in [OrderType -> Nat]
    /\ orders["dailyCleaning"] \in Nat /\ orders["prepareForSleep"] \in Nat

Inv ==
    /\ PlaceOK /\ ClockOK /\ BoxesOK /\ MealOK /\ CountOK
    /\ DayBoxNewest /\ MealAwaited /\ NotSentHomeEarly /\ OrdersCounted

LEMMA DaysCounted == ClockOK => Days \in Nat
  BY PeriodAssumption, MaxDayAssumption DEF ClockOK, Days

LEMMA Places ==
    PlaceOK <=> \/ routine = "checkInDay" /\ step \in 1..7
                \/ routine = "stay" /\ step \in 1..12
                \/ routine = "checkoutDay" /\ step \in 1..2
                \/ routine \in {"transition", "waiting", "left", "ended"} /\ step = 1
  BY Routines DEF PlaceOK

\* Entering a routine from its first step is always well placed.
LEMMA Entered ==
    ASSUME NEW r, r \in {"transition", "waiting", "stay", "checkoutDay", "left", "ended"}, Enter(r)
    PROVE  /\ PlaceOK'
           /\ routine' = r /\ step' = 1
           /\ r # "stay" => ~DailyDue' /\ ~PrepareDue'
  <1>1. routine' = r /\ step' = 1
    BY DEF Enter
  <1>2. PlaceOK'
    BY <1>1, Routines DEF PlaceOK
  <1> QED
    BY <1>1, <1>2 DEF DailyDue, PrepareDue

\* A step onward owes no new order, and pays the one that was due at this step.
LEMMA Advanced ==
    ASSUME PlaceOK, routine \in DOMAIN Routine, Advance
    PROVE  /\ PlaceOK'
           /\ DailyDue' => DailyDue
           /\ PrepareDue' => PrepareDue
           /\ routine' \in {"checkoutDay", "left"} => routine = "checkoutDay"
  <1>1. CASE routine = "checkInDay"
    <2>1. step \in 1..7
      BY <1>1, Places
    <2>2. \/ step < 7 /\ routine' = "checkInDay" /\ step' = step + 1
          \/ routine' = "transition" /\ step' = 1
      BY <1>1, <2>1, Routines DEF Advance, Enter
    <2>3. PlaceOK'
      BY <2>1, <2>2, Routines DEF PlaceOK
    <2> QED
      BY <1>1, <2>1, <2>2, <2>3 DEF DailyDue, PrepareDue
  <1>2. CASE routine = "stay"
    <2>1. step \in 1..12
      BY <1>2, Places
    <2>2. \/ step < 12 /\ routine' = "stay" /\ step' = step + 1
          \/ routine' = "transition" /\ step' = 1
      BY <1>2, <2>1, Routines DEF Advance, Enter
    <2>3. PlaceOK'
      BY <2>1, <2>2, Routines DEF PlaceOK
    <2> QED
      BY <1>2, <2>1, <2>2, <2>3 DEF DailyDue, PrepareDue
  <1>3. CASE routine = "checkoutDay"
    <2>1. step \in 1..2
      BY <1>3, Places
    <2>2. \/ step < 2 /\ routine' = "checkoutDay" /\ step' = step + 1
          \/ routine' = "left" /\ step' = 1
      BY <1>3, <2>1, Routines DEF Advance, Enter
    <2>3. PlaceOK'
      BY <2>1, <2>2, Routines DEF PlaceOK
    <2> QED
      BY <1>3, <2>1, <2>2, <2>3 DEF DailyDue, PrepareDue
  <1> QED
    BY <1>1, <1>2, <1>3, Routines

\* The handler orders at three places only.
LEMMA OrderPlaces ==
    ASSUME PlaceOK, At("order")
    PROVE  \/ routine = "checkInDay" /\ step = 6 /\ What = "prepareForSleep"
           \/ routine = "stay" /\ step = 5 /\ What = "dailyCleaning"
           \/ routine = "stay" /\ step = 11 /\ What = "prepareForSleep"
  BY Places, Routines DEF At, What

-----------------------------------------------------------------------------
LEMMA InvInit == Init => Inv
  <1> SUFFICES ASSUME Init PROVE Inv
    OBVIOUS
  <1> USE PeriodAssumption, MaxDayAssumption DEF Init
  <1>1. PlaceOK
    BY Places
  <1>2. ClockOK /\ BoxesOK /\ MealOK /\ CountOK
    BY DEF ClockOK, BoxesOK, MealOK, CountOK, OrderType
  <1>3. DayBoxNewest /\ MealAwaited /\ NotSentHomeEarly
    BY DEF DayBoxNewest, MealAwaited, NotSentHomeEarly
  <1>4. OrdersCounted
    <2>1. orders["dailyCleaning"] = 0 /\ orders["prepareForSleep"] = 0 /\ ~DailyDue /\ PrepareDue
      BY DEF OrderType, DailyDue, PrepareDue
    <2> QED
      BY <2>1, <1>2, DaysCounted DEF OrdersCounted, Taken, One, ClockOK
  <1> QED
    BY <1>1, <1>2, <1>3, <1>4 DEF Inv

LEMMA TypeParts == Inv => TypeOK
  BY DEF Inv, TypeOK, PlaceOK, ClockOK, BoxesOK, MealOK, CountOK

\* A step that leaves the orders and the day events alone and owes no new order.
LEMMA CountKept ==
    ASSUME OrdersCounted, CountOK, ClockOK, UNCHANGED <<orders, since, dayEvent, dayBox>>,
           DailyDue' => DailyDue, PrepareDue' => PrepareDue
    PROVE  OrdersCounted'
  <1>1. /\ One(DailyDue)' <= One(DailyDue) /\ One(PrepareDue)' <= One(PrepareDue)
        /\ One(DailyDue) \in {0, 1} /\ One(DailyDue)' \in {0, 1}
        /\ One(PrepareDue) \in {0, 1} /\ One(PrepareDue)' \in {0, 1}
    BY DEF One
  <1>2. Taken' = Taken /\ Taken \in Int
    BY PeriodAssumption DEF Taken, One, ClockOK
  <1>3. orders["dailyCleaning"] \in Nat /\ orders["prepareForSleep"] \in Nat
    BY DEF CountOK
  <1> DEFINE d == One(DailyDue) p == One(PrepareDue) n == Days
  <1>4. /\ orders["dailyCleaning"] + d <= Taken /\ orders["dailyCleaning"] + d <= n
        /\ orders["prepareForSleep"] + p <= Taken + 1 /\ orders["prepareForSleep"] + p <= n + 1
    BY DEF OrdersCounted
  <1>5. n \in Nat /\ n' = n
    BY DaysCounted DEF Days
  <1>6. /\ orders'["dailyCleaning"] + d' <= Taken' /\ orders'["dailyCleaning"] + d' <= n'
        /\ orders'["prepareForSleep"] + p' <= Taken' + 1 /\ orders'["prepareForSleep"] + p' <= n' + 1
    <2> HIDE DEF d, p, n
    <2>1. d' <= d /\ p' <= p /\ d \in {0, 1} /\ p \in {0, 1} /\ d' \in {0, 1} /\ p' \in {0, 1}
      BY Zenon, <1>1 DEF d, p
    <2> QED
      BY <1>2, <1>3, <1>4, <1>5, <2>1
  <1> QED
    BY Zenon, <1>6 DEF OrdersCounted

\* The handler goes on from a step that is not an order.
LEMMA AdvanceKeeps ==
    ASSUME PlaceOK, routine \in DOMAIN Routine, Advance,
           OrdersCounted, CountOK, ClockOK, NotSentHomeEarly,
           UNCHANGED <<day, orders, since, dayEvent, dayBox>>
    PROVE  PlaceOK' /\ NotSentHomeEarly' /\ OrdersCounted'
  <1>1. /\ PlaceOK' /\ (DailyDue' => DailyDue) /\ (PrepareDue' => PrepareDue)
        /\ routine' \in {"checkoutDay", "left"} => routine = "checkoutDay"
    BY Zenon, Advanced
  <1>2. OrdersCounted'
    BY Zenon, <1>1, CountKept
  <1> QED
    BY <1>1, <1>2 DEF NotSentHomeEarly

LEMMA waitForActionStep == Inv /\ waitForAction => Inv'
  <1> SUFFICES ASSUME Inv, waitForAction PROVE Inv'
    OBVIOUS
  <1>1. /\ PlaceOK /\ ClockOK /\ BoxesOK /\ MealOK /\ CountOK
        /\ DayBoxNewest /\ MealAwaited /\ NotSentHomeEarly /\ OrdersCounted
    BY DEF Inv
  <1>2. /\ At("action") /\ Advance
        /\ UNCHANGED <<day, hour, hourDue, since, dayEvent, dayBox, hourBox, meal, orders>>
    BY DEF waitForAction, clock
  <1>3. PlaceOK' /\ NotSentHomeEarly' /\ OrdersCounted'
    BY <1>1, <1>2, AdvanceKeeps DEF At
  <1>4. meal = "idle"
    BY <1>1, <1>2 DEF MealAwaited, MealOK, At
  <1>5. ClockOK' /\ BoxesOK' /\ MealOK' /\ CountOK' /\ DayBoxNewest' /\ MealAwaited'
    BY <1>1, <1>2, <1>4 DEF ClockOK, BoxesOK, MealOK, CountOK, DayBoxNewest, MealAwaited
  <1> QED
    BY <1>3, <1>5 DEF Inv

LEMMA CleaningOrderedStep == Inv /\ CleaningOrdered => Inv'
  <1> SUFFICES ASSUME Inv, CleaningOrdered PROVE Inv'
    OBVIOUS
  <1>1. /\ PlaceOK /\ ClockOK /\ BoxesOK /\ MealOK /\ CountOK
        /\ DayBoxNewest /\ MealAwaited /\ NotSentHomeEarly /\ OrdersCounted
    BY DEF Inv
  <1>2. /\ At("order") /\ orders' = [orders EXCEPT ![What] = @ + 1]
        /\ Advance \/ Enter("ended")
        /\ UNCHANGED <<day, hour, hourDue, since, dayEvent, dayBox, hourBox, meal>>
    BY DEF CleaningOrdered, clock
  <1>3. /\ PlaceOK'
        /\ routine' \in {"checkoutDay", "left"} => routine = "checkoutDay"
        /\ DailyDue' => DailyDue
        /\ PrepareDue' => PrepareDue
    BY <1>1, <1>2, Advanced, Entered DEF At
  <1>4. meal = "idle"
    BY <1>1, <1>2 DEF MealAwaited, MealOK, At
  <1>5. What \in OrderType
    BY <1>1, <1>2, OrderPlaces DEF OrderType
  <1>6. CountOK'
    BY <1>1, <1>2, <1>5 DEF CountOK, OrderType
  <1>7. ClockOK' /\ BoxesOK' /\ MealOK' /\ DayBoxNewest' /\ MealAwaited' /\ NotSentHomeEarly'
    BY <1>1, <1>2, <1>3, <1>4
       DEF ClockOK, BoxesOK, MealOK, DayBoxNewest, MealAwaited, NotSentHomeEarly
  <1>8. /\ What = "dailyCleaning" => DailyDue /\ ~DailyDue'
        /\ What = "prepareForSleep" => PrepareDue /\ ~PrepareDue'
    <2>1. \/ routine = "checkInDay" /\ step = 6 /\ What = "prepareForSleep"
          \/ routine = "stay" /\ step = 5 /\ What = "dailyCleaning"
          \/ routine = "stay" /\ step = 11 /\ What = "prepareForSleep"
      BY <1>1, <1>2, OrderPlaces
    <2>2. \/ routine' = routine /\ step' = step + 1
          \/ routine' = "ended"
      BY <1>2, <2>1, Routines DEF Advance, Enter
    <2> QED
      BY <2>1, <2>2 DEF DailyDue, PrepareDue
  <1>9. OrdersCounted'
    <2>1. Taken' = Taken /\ Taken \in Int /\ Days' = Days /\ Days \in Nat
      BY <1>1, <1>2, DaysCounted DEF Taken, One, Days, ClockOK
    <2>2. CASE What = "dailyCleaning"
      <3>1. /\ orders'["dailyCleaning"] = orders["dailyCleaning"] + 1
            /\ orders'["prepareForSleep"] = orders["prepareForSleep"]
        BY <1>1, <1>2, <2>2 DEF CountOK, OrderType
      <3>2. One(DailyDue) = 1 /\ One(DailyDue)' = 0
        BY <1>8, <2>2 DEF One
      <3>3. One(PrepareDue)' <= One(PrepareDue) /\ {One(PrepareDue), One(PrepareDue)'} \subseteq {0, 1}
        BY <1>3 DEF One
      <3> QED
        BY <1>1, <2>1, <3>1, <3>2, <3>3 DEF OrdersCounted, CountOK
    <2>3. CASE What = "prepareForSleep"
      <3>1. /\ orders'["prepareForSleep"] = orders["prepareForSleep"] + 1
            /\ orders'["dailyCleaning"] = orders["dailyCleaning"]
        BY <1>1, <1>2, <2>3 DEF CountOK, OrderType
      <3>2. One(PrepareDue) = 1 /\ One(PrepareDue)' = 0
        BY <1>8, <2>3 DEF One
      <3>3. One(DailyDue)' <= One(DailyDue) /\ {One(DailyDue), One(DailyDue)'} \subseteq {0, 1}
        BY <1>3 DEF One
      <3> QED
        BY <1>1, <2>1, <3>1, <3>2, <3>3 DEF OrdersCounted, CountOK
    <2> QED
      BY <1>5, <2>2, <2>3 DEF OrderType
  <1> QED
    BY <1>3, <1>6, <1>7, <1>9 DEF Inv

LEMMA MealStep == Inv /\ (NotifyMeal \/ HourNotification) => Inv'
  <1> SUFFICES ASSUME Inv, NotifyMeal \/ HourNotification PROVE Inv'
    OBVIOUS
  <1>1. /\ PlaceOK /\ ClockOK /\ BoxesOK /\ MealOK /\ CountOK
        /\ DayBoxNewest /\ MealAwaited /\ NotSentHomeEarly /\ OrdersCounted
    BY DEF Inv
  <1>2. /\ UNCHANGED <<day, hour, hourDue, since, dayEvent, dayBox, routine, step, orders>>
        /\ meal' \in {"listening", "rung"} /\ hourBox' \in {hourBox, "none"}
        /\ At("meal")
    BY <1>1 DEF NotifyMeal, HourNotification, clock, MealAwaited, MealOK
  <1>3. PlaceOK' /\ ClockOK' /\ BoxesOK' /\ MealOK' /\ CountOK'
    BY <1>1, <1>2 DEF PlaceOK, ClockOK, BoxesOK, MealOK, CountOK
  <1>4. DayBoxNewest' /\ MealAwaited' /\ NotSentHomeEarly'
    BY <1>1, <1>2 DEF DayBoxNewest, MealAwaited, NotSentHomeEarly, At
  <1>5. OrdersCounted'
    BY <1>1, <1>2 DEF OrdersCounted, Taken, Days, DailyDue, PrepareDue, One
  <1> QED
    BY <1>3, <1>4, <1>5 DEF Inv

LEMMA MealReadyStep == Inv /\ MealReady => Inv'
  <1> SUFFICES ASSUME Inv, MealReady PROVE Inv'
    OBVIOUS
  <1>1. /\ PlaceOK /\ ClockOK /\ BoxesOK /\ MealOK /\ CountOK
        /\ DayBoxNewest /\ MealAwaited /\ NotSentHomeEarly /\ OrdersCounted
    BY DEF Inv
  <1>2. /\ meal = "rung" /\ meal' = "idle" /\ hourBox' = "none" /\ Advance
        /\ UNCHANGED <<day, hour, hourDue, since, dayEvent, dayBox, orders>>
    BY DEF MealReady, clock
  <1>3. routine \in DOMAIN Routine
    BY <1>1, <1>2 DEF MealAwaited, At
  <1>4. PlaceOK' /\ NotSentHomeEarly' /\ OrdersCounted'
    BY <1>1, <1>2, <1>3, AdvanceKeeps
  <1>5. ClockOK' /\ BoxesOK' /\ MealOK' /\ CountOK' /\ DayBoxNewest' /\ MealAwaited'
    BY <1>1, <1>2 DEF ClockOK, BoxesOK, MealOK, CountOK, DayBoxNewest, MealAwaited
  <1> QED
    BY <1>4, <1>5 DEF Inv

\* No meal is awaited between the routines.
LEMMA IdleBetween ==
    ASSUME MealAwaited, MealOK, routine \in {"transition", "waiting", "left", "ended"}
    PROVE  meal = "idle"
  BY Routines DEF MealAwaited, MealOK, At

LEMMA ClockReadStep == Inv /\ (ReadClock \/ PollClock) => Inv'
  <1> SUFFICES ASSUME Inv, ReadClock \/ PollClock PROVE Inv'
    OBVIOUS
  <1>1. /\ PlaceOK /\ ClockOK /\ BoxesOK /\ MealOK /\ CountOK
        /\ DayBoxNewest /\ MealAwaited /\ NotSentHomeEarly /\ OrdersCounted
    BY DEF Inv
  <1>2. /\ UNCHANGED <<day, hour, hourDue, since, dayEvent, dayBox, hourBox, meal, orders>>
        /\ routine \in {"transition", "waiting"}
        /\ \/ day >= CheckOut /\ Enter("checkoutDay")
           \/ Enter("waiting")
    BY DEF ReadClock, PollClock, isCheckoutToday, clock
  <1>3. meal = "idle"
    BY <1>1, <1>2, IdleBetween
  <1>4. /\ PlaceOK' /\ ~DailyDue' /\ ~PrepareDue'
        /\ routine' \in {"checkoutDay", "waiting"}
        /\ routine' = "checkoutDay" => day >= CheckOut
    BY <1>2, Entered
  <1>5. ClockOK' /\ BoxesOK' /\ MealOK' /\ CountOK'
    BY <1>1, <1>2 DEF ClockOK, BoxesOK, MealOK, CountOK
  <1>6. DayBoxNewest' /\ MealAwaited' /\ NotSentHomeEarly'
    BY <1>1, <1>2, <1>3, <1>4 DEF DayBoxNewest, MealAwaited, NotSentHomeEarly
  <1>7. OrdersCounted'
    BY <1>1, <1>2, <1>4, CountKept
  <1> QED
    BY <1>4, <1>5, <1>6, <1>7 DEF Inv

\* The event that starts a full day pays for that day's orders: the box is empty after
\* it, and the day is one before the last.
LEMMA TakeDayEventStep == Inv /\ TakeDayEvent => Inv'
  <1> SUFFICES ASSUME Inv, TakeDayEvent PROVE Inv'
    OBVIOUS
  <1>1. /\ PlaceOK /\ ClockOK /\ BoxesOK /\ MealOK /\ CountOK
        /\ DayBoxNewest /\ MealAwaited /\ NotSentHomeEarly /\ OrdersCounted
    BY DEF Inv
  <1>2. /\ routine = "waiting" /\ dayBox # 0 /\ dayBox' = 0
        /\ \/ dayBox >= CheckOut /\ Enter("checkoutDay")
           \/ ~(dayBox >= CheckOut) /\ Enter("stay")
        /\ UNCHANGED <<day, hour, hourDue, since, dayEvent, hourBox, meal, orders>>
    BY DEF TakeDayEvent, isCheckoutToday, clock
  <1>3. meal = "idle"
    BY <1>1, <1>2, IdleBetween
  <1>4. dayBox = dayEvent /\ since < dayEvent /\ dayEvent <= day
    BY <1>1, <1>2 DEF DayBoxNewest
  <1>5. ClockOK' /\ BoxesOK' /\ MealOK' /\ CountOK'
    BY <1>1, <1>2, MaxDayAssumption DEF ClockOK, BoxesOK, MealOK, CountOK
  <1>6. PlaceOK'
    BY <1>2, Entered
  <1>7. DayBoxNewest' /\ MealAwaited' /\ NotSentHomeEarly'
    <2>1. (routine' = "checkoutDay" /\ day >= CheckOut) \/ routine' = "stay"
      BY <1>1, <1>2, <1>4, PeriodAssumption, MaxDayAssumption DEF Enter, ClockOK, BoxesOK
    <2>2. NotSentHomeEarly'
      BY <1>2, <2>1 DEF NotSentHomeEarly
    <2>3. MealAwaited'
      BY <1>2, <1>3 DEF MealAwaited
    <2> QED
      BY <1>1, <1>2, <2>2, <2>3 DEF DayBoxNewest
  <1>8. OrdersCounted'
    <2>1. /\ orders' = orders /\ One(DailyDue) = 0 /\ One(PrepareDue) = 0
          /\ Taken = dayEvent - since - 1 /\ Taken' = dayEvent - since
          /\ Days' = Days /\ Days \in Nat
      BY <1>1, <1>2, DaysCounted DEF One, DailyDue, PrepareDue, Taken, Days, ClockOK
    <2>2. CASE dayBox >= CheckOut
      <3>1. One(DailyDue)' = 0 /\ One(PrepareDue)' = 0
        BY <1>2, <2>2 DEF One, DailyDue, PrepareDue, Enter
      <3> QED
        BY <1>1, <1>4, <2>1, <3>1, PeriodAssumption, MaxDayAssumption
           DEF OrdersCounted, CountOK, ClockOK
    <2>3. CASE ~(dayBox >= CheckOut)
      <3>1. dayEvent - since <= Days
        BY <1>1, <1>4, <2>3, PeriodAssumption, MaxDayAssumption DEF ClockOK, Days
      <3>2. One(DailyDue)' = 1 /\ One(PrepareDue)' = 1
        BY <1>2, <2>3 DEF One, DailyDue, PrepareDue, Enter
      <3> QED
        BY <1>1, <1>4, <2>1, <3>1, <3>2, PeriodAssumption, MaxDayAssumption
           DEF OrdersCounted, CountOK, ClockOK
    <2> QED
      BY <2>2, <2>3
  <1> QED
    BY <1>5, <1>6, <1>7, <1>8 DEF Inv

LEMMA DropStep == Inv /\ Drop => Inv'
  <1> SUFFICES ASSUME Inv, Drop PROVE Inv'
    OBVIOUS
  <1>1. /\ PlaceOK /\ ClockOK /\ BoxesOK /\ MealOK /\ CountOK
        /\ DayBoxNewest /\ MealAwaited /\ NotSentHomeEarly /\ OrdersCounted
    BY DEF Inv
  <1>2. /\ Enter("ended") /\ meal' = "idle" /\ hourBox' = "none"
        /\ UNCHANGED <<day, hour, hourDue, since, dayEvent, dayBox, orders>>
    BY DEF Drop, clock
  <1>3. PlaceOK' /\ routine' = "ended" /\ ~DailyDue' /\ ~PrepareDue'
    BY <1>2, Entered
  <1>4. ClockOK' /\ BoxesOK' /\ MealOK' /\ CountOK'
    BY <1>1, <1>2 DEF ClockOK, BoxesOK, MealOK, CountOK
  <1>5. DayBoxNewest' /\ MealAwaited' /\ NotSentHomeEarly'
    BY <1>1, <1>2, <1>3 DEF DayBoxNewest, MealAwaited, NotSentHomeEarly
  <1>6. OrdersCounted'
    BY <1>1, <1>2, <1>3, CountKept
  <1> QED
    BY <1>3, <1>4, <1>5, <1>6 DEF Inv

LEMMA TickStep == Inv /\ (Tick \/ HourEvent) => Inv'
  <1> SUFFICES ASSUME Inv, Tick \/ HourEvent PROVE Inv'
    OBVIOUS
  <1>1. /\ PlaceOK /\ ClockOK /\ BoxesOK /\ MealOK /\ CountOK
        /\ DayBoxNewest /\ MealAwaited /\ NotSentHomeEarly /\ OrdersCounted
    BY DEF Inv
  <1>2. /\ UNCHANGED <<since, dayEvent, dayBox, routine, step, meal, orders>>
        /\ day' \in {day, day + 1} /\ day' \in 0..MaxDay
        /\ hour' \in 1..4 /\ hourDue' \in BOOLEAN /\ hourBox' \in Hour \cup {"none"}
    <2>1. CASE Tick
      BY <1>1, <2>1, MaxDayAssumption DEF Tick, clock, ClockOK, BoxesOK
    <2>2. CASE HourEvent
      BY <1>1, <2>2 DEF HourEvent, clock, ClockOK, BoxesOK, Hour
    <2> QED
      BY <2>1, <2>2
  <1>3. PlaceOK' /\ ClockOK' /\ BoxesOK' /\ MealOK' /\ CountOK'
    BY <1>1, <1>2 DEF PlaceOK, ClockOK, BoxesOK, MealOK, CountOK
  <1>4. DayBoxNewest' /\ MealAwaited' /\ NotSentHomeEarly'
    <2>1. day <= day'
      BY <1>1, <1>2 DEF ClockOK
    <2>2. DayBoxNewest' /\ NotSentHomeEarly'
      BY <1>1, <1>2, <2>1, PeriodAssumption, MaxDayAssumption
         DEF DayBoxNewest, NotSentHomeEarly, ClockOK
    <2> QED
      BY <1>1, <1>2, <2>2 DEF MealAwaited, At
  <1>5. OrdersCounted'
    BY <1>1, <1>2 DEF OrdersCounted, Taken, Days, DailyDue, PrepareDue, One
  <1> QED
    BY <1>3, <1>4, <1>5 DEF Inv

\* An event that fills the box takes nothing from the bound, one that replaces another
\* raises it.
LEMMA DayEventStep == Inv /\ DayEvent => Inv'
  <1> SUFFICES ASSUME Inv, DayEvent PROVE Inv'
    OBVIOUS
  <1>1. /\ PlaceOK /\ ClockOK /\ BoxesOK /\ MealOK /\ CountOK
        /\ DayBoxNewest /\ MealAwaited /\ NotSentHomeEarly /\ OrdersCounted
    BY DEF Inv
  <1>2. /\ dayEvent < day /\ dayEvent' = dayEvent + 1 /\ dayBox' = dayEvent + 1
        /\ UNCHANGED <<day, hour, hourDue, since, hourBox, routine, step, meal, orders>>
    BY DEF DayEvent, clock
  <1>3. ClockOK' /\ BoxesOK'
    BY <1>1, <1>2, MaxDayAssumption DEF ClockOK, BoxesOK
  <1>4. PlaceOK' /\ MealOK' /\ CountOK'
    BY <1>1, <1>2 DEF PlaceOK, MealOK, CountOK
  <1>5. MealAwaited' /\ NotSentHomeEarly'
    BY <1>1, <1>2 DEF MealAwaited, NotSentHomeEarly, At
  <1>6. DayBoxNewest'
    BY <1>1, <1>2, PeriodAssumption, MaxDayAssumption DEF DayBoxNewest, ClockOK
  <1>7. OrdersCounted'
    <2>1. /\ orders' = orders
          /\ One(DailyDue)' = One(DailyDue) /\ One(PrepareDue)' = One(PrepareDue)
          /\ One(DailyDue) \in {0, 1} /\ One(PrepareDue) \in {0, 1}
      BY <1>2 DEF One, DailyDue, PrepareDue
    <2>2. Days' = Days /\ Days \in Nat
      BY <1>1, <1>2, DaysCounted DEF Days
    <2>3. Taken \in Int /\ Taken' \in Int /\ Taken <= Taken'
      BY <1>1, <1>2, PeriodAssumption, MaxDayAssumption DEF One, Taken, ClockOK
    <2> QED
      BY <1>1, <2>1, <2>2, <2>3 DEF OrdersCounted, CountOK
  <1> QED
    BY <1>3, <1>4, <1>5, <1>6, <1>7 DEF Inv

LEMMA InvStep == Inv /\ [Next]_vars => Inv'
  <1> SUFFICES ASSUME Inv, [Next]_vars PROVE Inv'
    OBVIOUS
  <1>1. CASE UNCHANGED vars
    BY <1>1 DEF vars, clock, Inv, PlaceOK, ClockOK, BoxesOK, MealOK, CountOK, DayBoxNewest,
                MealAwaited, At, NotSentHomeEarly, OrdersCounted, Taken, Days, DailyDue, PrepareDue
  <1>2. CASE Handle
    BY Zenon, <1>2, waitForActionStep, CleaningOrderedStep, MealStep, MealReadyStep,
       ClockReadStep, TakeDayEventStep DEF Handle
  <1>3. CASE Drop \/ Tick \/ HourEvent \/ DayEvent
    BY Zenon, <1>3, DropStep, TickStep, DayEventStep
  <1> QED
    BY Zenon, <1>1, <1>2, <1>3 DEF Next

-----------------------------------------------------------------------------
(***************************************************************************)
(* The theorems.                                                           *)
(***************************************************************************)

\* The handler is never past the end of a routine, whichever steps fail.
THEOREM StayTyped == Spec => []TypeOK
  BY InvInit, InvStep, TypeParts, PTL DEF Spec

\* Late day events and a clock that cannot be read never send a guest home before
\* the last day of the stay.
THEOREM GuestStaysToTheEnd == Spec => []NotSentHomeEarly
  BY InvInit, InvStep, PTL DEF Inv, Spec

\* However late the day events are when the handler registers and after, and whether
\* they come at once or one in place of another, the cottage is cleaned at most once
\* for each of them that is of a day before the check-out day, and prepared for sleep
\* once more.
THEOREM OneOrderPerDayEvent == Spec => []OrdersPerDayEvent
  <1>1. Inv => OrdersPerDayEvent
    <2> SUFFICES ASSUME Inv PROVE OrdersPerDayEvent
      OBVIOUS
    <2>1. One(DailyDue) \in {0, 1} /\ One(PrepareDue) \in {0, 1}
      BY DEF One
    <2> QED
      BY <2>1, DaysCounted DEF Inv, OrdersCounted, CountOK, OrdersPerDayEvent
  <1> QED
    BY InvInit, InvStep, <1>1, PTL DEF Spec
=============================================================================
