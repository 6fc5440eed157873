----------------------------- MODULE Reception -----------------------------
(***************************************************************************)
(* Check-in and check-out as concurrent websocket sessions run them: the   *)
(* reception service and the two chat handlers that drive it, one step per *)
(* call to MongoDB, Redis or RabbitMQ, so that the steps of different      *)
(* sessions interleave at those calls.                                     *)
(*                                                                         *)
(* The service takes no lock and opens no transaction.  A call may fail    *)
(* with its effect applied or not (the answer is lost or the request is),  *)
(* and a session may end at any step: the websocket drops, a chat timeout  *)
(* expires, the process crashes.                                           *)
(***************************************************************************)
EXTENDS Naturals, FiniteSets

CONSTANTS
    Session,        \* websocket connections; each is used once
    Guest, Booking, Cottage, Document,
    NoGuest,        \* bson.NilObjectID in current_guest
    NoDocument,     \* no document shown yet
    NoBooking,      \* domain.Booking{}
    MainGuest,      \* booking -> its main guest
    CottageOf,      \* booking -> the cottage it names
    Carriers,       \* document -> the guests it is recorded for, at one time or another
    CheckInDay,     \* booking -> first day of its stay period
    CheckOutDay,    \* booking -> last day of its stay period
    MaxDay,         \* bound on the simulated calendar
    Faults          \* may calls fail and sessions drop?

ASSUME MainGuestAssumption   == MainGuest \in [Booking -> Guest]
ASSUME CottageOfAssumption   == CottageOf \in [Booking -> Cottage]
ASSUME CarriersAssumption    == Carriers \in [Document -> SUBSET Guest]
ASSUME CheckInDayAssumption  == CheckInDay \in [Booking -> Nat]
ASSUME CheckOutDayAssumption == CheckOutDay \in [Booking -> Nat]
ASSUME NoGuestAssumption     == NoGuest \notin Guest
ASSUME NoDocumentAssumption  == NoDocument \notin Document
ASSUME NoBookingAssumption   == NoBooking \notin Booking
ASSUME MaxDayAssumption      == MaxDay \in Nat
ASSUME FaultsAssumption      == Faults \in BOOLEAN

VARIABLES
    today,            \* the day the clock simulator answers
    bookingStatus,    \* bookings collection: status
    cottageBookings,  \* cottages collection: bookings
    currentGuest,     \* cottages collection: current_guest
    cleaningStatus,   \* cottages collection: cleaning_status
    keyHolder,        \* cottages collection: key.holder
    cache,            \* Redis checkin.<day>: the bookings cached for that day
    orders,           \* cleaning orders handed to RabbitMQ
    at,               \* session -> the call it is about to make
    mem,              \* session -> what its handler remembers
    raced             \* history: cottages two sessions found free at once

mongo == <<bookingStatus, cottageBookings, currentGuest, cleaningStatus, keyHolder>>
vars  == <<today, mongo, cache, orders, at, mem, raced>>

Status == {"confirmed", "unconfirmed", "past"}
Day    == 0..MaxDay

\* The calls of a session, in the order the handlers make them.
CheckInPoint  == {"document", "cache", "byDate", "number", "check", "claim", "prepare"}
StayPoint     == {"key", "stay", "return"}
CheckOutPoint == {"past", "remove", "clear", "clean"}
Point == {"off", "done", "ended"} \cup CheckInPoint \cup StayPoint \cup CheckOutPoint

Memory == [document : Document \cup {NoDocument},
           guest    : Guest \cup {NoGuest},
           booking  : Booking \cup {NoBooking},
           status   : Status,               \* of the booking as it was read
           now      : Day,                  \* clock read before the document request
           fallback : BOOLEAN]              \* is this CheckinFallback?

Cached == [booking : Booking, status : Status]
Order  == [session : Session, booking : Booking, type : {"prepareForGuest", "fullCleaning"}]

TypeOK ==
    /\ today \in Day
    /\ bookingStatus \in [Booking -> Status]
    /\ cottageBookings \in [Cottage -> SUBSET Booking]
    /\ currentGuest \in [Cottage -> Guest \cup {NoGuest}]
    /\ cleaningStatus \in [Cottage -> {"fully_cleaned", "dirty"}]
    /\ keyHolder \in [Cottage -> {"guest", "cottage"}]
    /\ cache \in [Day -> SUBSET Cached]
    /\ orders \subseteq Order
    /\ at \in [Session -> Point]
    /\ mem \in [Session -> Memory]
    /\ raced \in [Cottage -> BOOLEAN]

Init ==
    /\ today = 0
    /\ bookingStatus \in [Booking -> {"confirmed", "unconfirmed"}]
    /\ cottageBookings = [c \in Cottage |-> {b \in Booking : CottageOf[b] = c}]
    /\ currentGuest = [c \in Cottage |-> NoGuest]
    /\ cleaningStatus = [c \in Cottage |-> "fully_cleaned"]
    /\ keyHolder = [c \in Cottage |-> "cottage"]
    /\ cache = [d \in Day |-> {}]
    /\ orders = {}
    /\ at = [s \in Session |-> "off"]
    /\ mem = [s \in Session |->
                [document |-> NoDocument, guest |-> NoGuest, booking |-> NoBooking,
                 status |-> "unconfirmed", now |-> 0, fallback |-> FALSE]]
    /\ raced = [c \in Cottage |-> FALSE]

Room(s) == CottageOf[mem[s].booking]

Goto(s, p) == at' = [at EXCEPT ![s] = p]

(***************************************************************************)
(* The repository and publisher calls the reception service is built from. *)
(***************************************************************************)
UpdateStatus(b, status) == bookingStatus' = [bookingStatus EXCEPT ![b] = status]

UpdateCurrentGuest(c, g) == currentGuest' = [currentGuest EXCEPT ![c] = g]

UpdateKeyHolder(c, holder) == keyHolder' = [keyHolder EXCEPT ![c] = holder]

\* One UpdateOne: the cottage listing b loses it and its current guest at once.
RemovePastBooking(b) ==
    \E c \in Cottage :
        /\ b \in cottageBookings[c]
        /\ cottageBookings' = [cottageBookings EXCEPT ![c] = @ \ {b}]
        /\ currentGuest' = [currentGuest EXCEPT ![c] = NoGuest]

\* MatchedCount = 0: no cottage lists b.
NoCottageLists(b) == \A c \in Cottage : b \notin cottageBookings[c]

CleanRoom(s, type) ==
    orders' = orders \cup {[session |-> s, booking |-> mem[s].booking, type |-> type]}

\* Mutated: only the cleaning status is looked at.
CottageAvailableIfClean(c) == cleaningStatus[c] = "fully_cleaned"

CottageAvailable(c) ==
    /\ currentGuest[c] = NoGuest
    /\ cleaningStatus[c] = "fully_cleaned"

\* Mutated: the filter forgets main_guest.
FoundByNumberOfAnyGuest(g, b) == TRUE

\* FindByGuestIdAndBookingNumber: _id and main_guest both match.
FoundByNumber(g, b) == MainGuest[b] = g

-----------------------------------------------------------------------------
(***************************************************************************)
(* Check-in.                                                               *)
(***************************************************************************)

\* SHOW_FOR_CHECKIN arrives; the handler reads the clock before anything else.
Arrive(s) ==
    /\ at[s] = "off"
    /\ mem' = [mem EXCEPT ![s].now = today]
    /\ Goto(s, "document")
    /\ UNCHANGED <<today, mongo, cache, orders, raced>>

\* An error of CheckIn starts the fallback, an error of CheckinFallback ends
\* the session.
Reject(s) == Goto(s, IF mem[s].fallback THEN "ended" ELSE "number")

\* GetByDocument.  A PATCH may give a guest another document, and nothing keeps
\* document ids apart, so each lookup may find another of the document's carriers,
\* or none of them any more.
GetByDocument(d) == Carriers[d]

\* REQUEST_DOCUMENT is answered at last with d; CheckIn looks the guest up.
ShowDocument(s, d) ==
    /\ at[s] = "document"
    /\ \/ \E g \in GetByDocument(d) :
            /\ mem' = [mem EXCEPT ![s] = [@ EXCEPT !.document = d, !.guest = g]]
            /\ Goto(s, "cache")
       \/ /\ mem' = [mem EXCEPT ![s].document = d]
          /\ Reject(s)
    /\ UNCHANGED <<today, mongo, cache, orders, raced>>

\* The guest and the booking, as it was read, the rest of the call works on.
Load(s, g, b, status, isFallback) ==
    mem' = [mem EXCEPT ![s] = [@ EXCEPT !.guest = g, !.booking = b, !.status = status,
                                        !.fallback = isFallback]]

GetFromCache(s) ==
    LET own == {r \in cache[mem[s].now] : MainGuest[r.booking] = mem[s].guest} IN
    /\ at[s] = "cache"
    /\ \/ \E r \in own :
            /\ Load(s, mem[s].guest, r.booking, r.status, FALSE)
            /\ Goto(s, "check")
       \/ /\ own = {} \/ Faults
          /\ Goto(s, "byDate")
          /\ UNCHANGED mem
    /\ UNCHANGED <<today, mongo, cache, orders, raced>>

\* GetBookingByDate looks the document up once more and takes a booking of the
\* guest g it finds; CheckIn goes on with the guest of its own lookup.
GetBookingByDate(s) ==
    /\ at[s] = "byDate"
    /\ \/ \E g \in GetByDocument(mem[s].document), b \in Booking :
            /\ MainGuest[b] = g
            /\ CheckInDay[b] = mem[s].now
            /\ Load(s, mem[s].guest, b, bookingStatus[b], FALSE)
            /\ Goto(s, "check")
       \/ Reject(s) /\ UNCHANGED mem
    /\ UNCHANGED <<today, mongo, cache, orders, raced>>

\* REQUEST_BOOKING_NUMBER is answered with b: CheckinFallback up to processCheckIn,
\* with a lookup of the document of its own.
CheckinFallback(s, b) ==
    /\ at[s] = "number"
    /\ \/ \E g \in GetByDocument(mem[s].document) :
            /\ FoundByNumber(g, b)
            /\ CheckInDay[b] = mem[s].now
            /\ Load(s, g, b, bookingStatus[b], TRUE)
            /\ Goto(s, "check")
       \/ Goto(s, "ended") /\ UNCHANGED mem
    /\ UNCHANGED <<today, mongo, cache, orders, raced>>

\* Another session has found c free and not yet said so, or has given c free
\* and is about to do so a second time.
InWindow(s, c) ==
    \E t \in Session \ {s} : at[t] \in {"claim", "clear"} /\ Room(t) = c

\* processCheckIn up to the guard on the cottage it has just read.
ProcessCheckIn(s) ==
    LET b  == mem[s].booking
        c  == Room(s)
        ok == /\ CheckInDay[b] = mem[s].now
              /\ mem[s].status = "confirmed"
              /\ CottageAvailable(c)
    IN
    /\ at[s] = "check"
    /\ \/ /\ ok
          /\ Goto(s, "claim")
          /\ raced' = [raced EXCEPT ![c] = @ \/ InWindow(s, c)]
       \/ /\ ~ok \/ Faults
          /\ Reject(s)
          /\ UNCHANGED raced
    /\ UNCHANGED <<today, mongo, cache, orders, mem>>

ClaimCottage(s) ==
    /\ at[s] = "claim"
    /\ \/ UpdateCurrentGuest(Room(s), mem[s].guest) /\ Goto(s, "prepare")
       \/ Faults /\ Reject(s) /\ UpdateCurrentGuest(Room(s), mem[s].guest)
       \/ Faults /\ Reject(s) /\ UNCHANGED currentGuest
    /\ UNCHANGED <<today, bookingStatus, cottageBookings, cleaningStatus, keyHolder,
                   cache, orders, mem, raced>>

OrderPreparation(s) ==
    /\ at[s] = "prepare"
    /\ \/ CleanRoom(s, "prepareForGuest") /\ Goto(s, "key")
       \/ Faults /\ Reject(s) /\ CleanRoom(s, "prepareForGuest")
       \/ Faults /\ Reject(s) /\ UNCHANGED orders
    /\ UNCHANGED <<today, mongo, cache, mem, raced>>

-----------------------------------------------------------------------------
(***************************************************************************)
(* The key, the stay, and check-out.  Every error ends the session where   *)
(* it stands: nothing is compensated and nothing is retried.               *)
(***************************************************************************)

\* GIVE_COTTAGE_KEY, TAKE_COTTAGE_KEY, ReceiveCottageKey.
ReceiveCottageKey(s) ==
    /\ at[s] = "key"
    /\ \/ UpdateKeyHolder(Room(s), "guest") /\ Goto(s, "stay")
       \/ Faults /\ Goto(s, "ended") /\ UpdateKeyHolder(Room(s), "guest")
       \/ Faults /\ Goto(s, "ended") /\ UNCHANGED keyHolder
    /\ UNCHANGED <<today, bookingStatus, cottageBookings, currentGuest, cleaningStatus,
                   cache, orders, mem, raced>>

\* Mutated: the stay ends on the eve of the check-out day.
StayEndsOnTheEve(s) ==
    /\ at[s] = "stay"
    /\ today + 1 >= CheckOutDay[mem[s].booking]
    /\ mem' = [mem EXCEPT ![s].now = today]
    /\ Goto(s, "return")
    /\ UNCHANGED <<today, mongo, cache, orders, raced>>

\* The stay handler returns once the check-out day is reached or passed; the
\* check-out handler reads the clock again.
StayEnds(s) ==
    /\ at[s] = "stay"
    /\ today >= CheckOutDay[mem[s].booking]
    /\ mem' = [mem EXCEPT ![s].now = today]
    /\ Goto(s, "return")
    /\ UNCHANGED <<today, mongo, cache, orders, raced>>

\* Mutated: the error of UpdateKeyHolder is logged and ignored.
ReturnCottageKeyIgnoringError(s) ==
    /\ at[s] = "return"
    /\ \/ UpdateKeyHolder(Room(s), "cottage") /\ Goto(s, "past")
       \/ Faults /\ Goto(s, "past") /\ UNCHANGED keyHolder
    /\ UNCHANGED <<today, bookingStatus, cottageBookings, currentGuest, cleaningStatus,
                   cache, orders, mem, raced>>

\* REQUEST_COTTAGE_KEY, RETURN_COTTAGE_KEY, ReturnCottageKey.
ReturnCottageKey(s) ==
    /\ at[s] = "return"
    /\ \/ UpdateKeyHolder(Room(s), "cottage") /\ Goto(s, "past")
       \/ Faults /\ Goto(s, "ended") /\ UpdateKeyHolder(Room(s), "cottage")
       \/ Faults /\ Goto(s, "ended") /\ UNCHANGED keyHolder
    /\ UNCHANGED <<today, bookingStatus, cottageBookings, currentGuest, cleaningStatus,
                   cache, orders, mem, raced>>

\* Mutated: the error of UpdateStatus is logged and ignored.
MarkPastIgnoringError(s) ==
    /\ at[s] = "past"
    /\ \/ UpdateStatus(mem[s].booking, "past") /\ Goto(s, "remove")
       \/ Faults /\ Goto(s, "remove") /\ UNCHANGED bookingStatus
    /\ UNCHANGED <<today, cottageBookings, currentGuest, cleaningStatus, keyHolder,
                   cache, orders, mem, raced>>

\* CheckOut, call by call.
MarkPast(s) ==
    /\ at[s] = "past"
    /\ \/ UpdateStatus(mem[s].booking, "past") /\ Goto(s, "remove")
       \/ Faults /\ Goto(s, "ended") /\ UpdateStatus(mem[s].booking, "past")
       \/ Faults /\ Goto(s, "ended") /\ UNCHANGED bookingStatus
    /\ UNCHANGED <<today, cottageBookings, currentGuest, cleaningStatus, keyHolder,
                   cache, orders, mem, raced>>

\* Mutated: MatchedCount = 0 is not an error.
RemoveBookingIgnoringNoMatch(s) ==
    /\ at[s] = "remove"
    /\ Goto(s, "clear")
    /\ \/ RemovePastBooking(mem[s].booking)
       \/ NoCottageLists(mem[s].booking) /\ UNCHANGED <<cottageBookings, currentGuest>>
    /\ UNCHANGED <<today, bookingStatus, cleaningStatus, keyHolder,
                   cache, orders, mem, raced>>

RemoveBooking(s) ==
    /\ at[s] = "remove"
    /\ \/ RemovePastBooking(mem[s].booking) /\ Goto(s, "clear")
       \/ Faults /\ Goto(s, "ended") /\ RemovePastBooking(mem[s].booking)
       \/ /\ NoCottageLists(mem[s].booking) \/ Faults
          /\ Goto(s, "ended")
          /\ UNCHANGED <<cottageBookings, currentGuest>>
    /\ UNCHANGED <<today, bookingStatus, cleaningStatus, keyHolder,
                   cache, orders, mem, raced>>

\* Mutated: ModifiedCount is tested where the code tests MatchedCount, and the
\* guest RemovePastBooking has cleared already is not modified.
ClearCurrentGuestIfModified(s) ==
    /\ at[s] = "clear"
    /\ UpdateCurrentGuest(Room(s), NoGuest)
    /\ Goto(s, IF currentGuest[Room(s)] = NoGuest THEN "ended" ELSE "clean")
    /\ UNCHANGED <<today, bookingStatus, cottageBookings, cleaningStatus, keyHolder,
                   cache, orders, mem, raced>>

ClearCurrentGuest(s) ==
    /\ at[s] = "clear"
    /\ \/ UpdateCurrentGuest(Room(s), NoGuest) /\ Goto(s, "clean")
       \/ Faults /\ Goto(s, "ended") /\ UpdateCurrentGuest(Room(s), NoGuest)
       \/ Faults /\ Goto(s, "ended") /\ UNCHANGED currentGuest
    /\ UNCHANGED <<today, bookingStatus, cottageBookings, cleaningStatus, keyHolder,
                   cache, orders, mem, raced>>

OrderFullCleaning(s) ==
    /\ at[s] = "clean"
    /\ \/ CleanRoom(s, "fullCleaning") /\ Goto(s, "done")
       \/ Faults /\ Goto(s, "ended") /\ CleanRoom(s, "fullCleaning")
       \/ Faults /\ Goto(s, "ended") /\ UNCHANGED orders
    /\ UNCHANGED <<today, mongo, cache, mem, raced>>

\* A chat error, a dropped connection or a crash of the process.
Drop(s) ==
    /\ Faults
    /\ at[s] \notin {"off", "done", "ended"}
    /\ Goto(s, "ended")
    /\ UNCHANGED <<today, mongo, cache, orders, mem, raced>>

-----------------------------------------------------------------------------
(***************************************************************************)
(* The environment of the sessions.                                        *)
(***************************************************************************)
Tick ==
    /\ today < MaxDay
    /\ today' = today + 1
    /\ UNCHANGED <<mongo, cache, orders, at, mem, raced>>

\* ArrangeCheckIn handles the day-change event of day d: it caches the bookings
\* that check in on d with the status they have now.  The event may be late.
CacheCheckIn(d) ==
    /\ d <= today
    /\ cache' = [cache EXCEPT ![d] =
                    {[booking |-> b, status |-> bookingStatus[b]] :
                        b \in {x \in Booking : CheckInDay[x] = d}}]
    /\ UNCHANGED <<today, mongo, orders, at, mem, raced>>

\* The 30-minute time to live; a day of the simulated clock may be shorter.
CacheExpires(d) ==
    /\ cache[d] # {}
    /\ cache' = [cache EXCEPT ![d] = {}]
    /\ UNCHANGED <<today, mongo, orders, at, mem, raced>>

\* cleaning_status belongs to the housekeeping service: this one only reads it.
Housekeeping(c) ==
    /\ \E status \in {"fully_cleaned", "dirty"} \ {cleaningStatus[c]} :
          cleaningStatus' = [cleaningStatus EXCEPT ![c] = status]
    /\ UNCHANGED <<today, bookingStatus, cottageBookings, currentGuest, keyHolder,
                   cache, orders, at, mem, raced>>

CheckInStep(s) ==
    \/ Arrive(s)
    \/ \E d \in Document : ShowDocument(s, d)
    \/ GetFromCache(s)
    \/ GetBookingByDate(s)
    \/ \E b \in Booking : CheckinFallback(s, b)
    \/ ProcessCheckIn(s)
    \/ ClaimCottage(s)
    \/ OrderPreparation(s)

StayStep(s) == ReceiveCottageKey(s) \/ StayEnds(s) \/ ReturnCottageKey(s)

CheckOutStep(s) ==
    MarkPast(s) \/ RemoveBooking(s) \/ ClearCurrentGuest(s) \/ OrderFullCleaning(s)

Next ==
    \/ \E s \in Session : CheckInStep(s) \/ StayStep(s) \/ CheckOutStep(s) \/ Drop(s)
    \/ Tick
    \/ \E d \in Day : CacheCheckIn(d) \/ CacheExpires(d)
    \/ \E c \in Cottage : Housekeeping(c)

Spec == Init /\ [][Next]_vars

\* CheckOut is straight-line code of a running goroutine: it takes its next step.
FairSpec == Spec /\ \A s \in Session : WF_vars(CheckOutStep(s))
-----------------------------------------------------------------------------
(***************************************************************************)
(* Properties.                                                             *)
(***************************************************************************)

\* From the claim to the removal of the booking, the session believes the
\* cottage is its guest's.
Staying == {"prepare", "key", "stay", "return", "past", "remove"}
Holding == Staying \cup {"claim", "clear"}

\* The two are one guest, or one document is recorded for both at some time.
SameDocument(g, h) == g = h \/ \E d \in Document : {g, h} \subseteq Carriers[d]

\* Whoever is written as current guest of a cottage is the main guest of a
\* booking for it whose check-in day has come, or is found under the document of
\* that guest: neither the cache, nor the lookup by date, nor the number a guest
\* types in lets anybody in on somebody else's booking or before the own one begins.
\* More cannot be said, as the lookups of one check-in may find different guests.
OccupantAdmitted ==
    \A c \in Cottage : currentGuest[c] # NoGuest =>
        \E b \in Booking : /\ CottageOf[b] = c
                            /\ CheckInDay[b] <= today
                            /\ SameDocument(MainGuest[b], currentGuest[c])

\* processCheckIn reads the cottage and writes it in two calls, CheckOut frees it
\* twice.  Those two windows are the only way to lose exclusivity: in a cottage
\* where no check fell into one, at most one session holds the cottage and every
\* staying session finds its own guest in it.
ExclusiveUnlessRaced ==
    \A c \in Cottage : ~raced[c] =>
        /\ \A s, t \in Session :
              /\ at[s] \in Holding /\ Room(s) = c
              /\ at[t] \in Holding /\ Room(t) = c
              => s = t
        /\ \A s \in Session : at[s] \in Staying /\ Room(s) = c
              => currentGuest[c] = mem[s].guest

\* In such a cottage the recorded key holder follows the session: the guest
\* during the stay, the cottage once CheckOut runs, so that a booking is never
\* closed with its key still out.
KeyFollowsStay ==
    \A s \in Session : at[s] \in Staying =>
        \/ raced[Room(s)]
        \/ /\ at[s] \in {"stay", "return"} => keyHolder[Room(s)] = "guest"
           /\ at[s] \in {"past", "remove"} => keyHolder[Room(s)] = "cottage"

\* However many sessions check out of the same booking, at most one gets past
\* RemovePastBooking and full cleaning is ordered at most once for the booking.
OneCheckoutPerBooking ==
    LET Removed(b) == {s \in Session : at[s] \in {"clear", "clean"} /\ mem[s].booking = b}
        Cleaned(b) == {o.session : o \in {x \in orders : /\ x.booking = b
                                                         /\ x.type = "fullCleaning"}}
    IN  \A b \in Booking : Cardinality(Removed(b) \cup Cleaned(b)) <= 1

\* In a cottage no check raced for, a written guest leaves current_guest only when
\* a booking for that cottage is past whose main guest is that guest or shares a
\* document with them, and is then replaced by nobody: a failed or crashed
\* check-in of another session never evicts a guest.
DisplacedOnlyByCheckout ==
    [][\A c \in Cottage :
          ~raced[c] /\ currentGuest[c] # NoGuest /\ currentGuest'[c] # currentGuest[c] =>
            /\ currentGuest'[c] = NoGuest
            /\ \E b \in Booking : /\ SameDocument(MainGuest[b], currentGuest[c])
                                  /\ CottageOf[b] = c
                                  /\ bookingStatus[b] = "past"]_vars

\* The status a check-in looks at may be that of the morning, from the cache, and
\* its day that of the moment before the guest was asked for a document.  A booking
\* of a night or more (NewPeriod lets hours of one day pass) that was closed
\* meanwhile is opened again only by a session that is late by a day or more.
ReopenedOnlyLate ==
    [][\A s \in Session :
          LET b == mem[s].booking IN
          at[s] = "check" /\ at'[s] = "claim" /\ bookingStatus[b] = "past"
            /\ CheckInDay[b] < CheckOutDay[b]
          => mem[s].now < today]_vars

\* Every step keeps the promise of BookingLifecycle.
stage ==
    [b \in Booking |->
        IF \E o \in orders : o.booking = b /\ o.type = "fullCleaning" THEN "cleaned"
        ELSE IF NoCottageLists(b) THEN "removed"
        ELSE IF bookingStatus[b] = "past" THEN "past"
        ELSE "open"]

Lifecycle == INSTANCE BookingLifecycle WITH Booking <- Booking, stage <- stage

\* CheckOut as seen from the database is the three-step lifecycle of the booking:
\* no failure, crash or second session makes a step too early, twice or undone.
LifecycleRefined == Lifecycle!Spec

\* Without faults, a booking that CheckOut marked past gets its full cleaning
\* ordered: the session that loses RemovePastBooking to another one may stop,
\* the one that wins goes on.
PastEventuallyCleaned ==
    \A b \in Booking : stage[b] = "past" ~> stage[b] = "cleaned"
-----------------------------------------------------------------------------
(***************************************************************************)
(* What the code says of itself and does not do.                           *)
(***************************************************************************)

\* "cottage %s is not available": an occupied cottage is given to nobody else,
\* not even when two guests with a booking for it arrive at the same moment.
OccupiedCottageRefused ==
    [][\A c \in Cottage : currentGuest[c] # NoGuest =>
          currentGuest'[c] \in {currentGuest[c], NoGuest}]_vars

=============================================================================
