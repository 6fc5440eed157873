-------------------------- MODULE ReceptionProofs --------------------------
(***************************************************************************)
(* Invariants of Reception for every set of sessions, guests, bookings and *)
(* cottages, with and without faults; and, from them, that CheckOut        *)
(* implements BookingLifecycle.                                            *)
(***************************************************************************)
EXTENDS Reception, FiniteSetTheorems, TLAPS

\* From the moment a booking is loaded, the session works on a guest and on a
\* booking whose main guest is that guest, or was found under the same document.
Loaded  == Holding \cup {"check", "clean", "done"}
Looking == {"cache", "byDate", "number"}

MemoryInv ==
    /\ \A s \in Session : at[s] \in Looking \cup Loaded => mem[s].document \in Document
    /\ \A s \in Session : at[s] \in {"cache", "byDate"} =>
          mem[s].guest \in Carriers[mem[s].document]
    /\ \A s \in Session : at[s] \in Loaded =>
          /\ mem[s].booking \in Booking
          /\ mem[s].guest \in Guest
          /\ SameDocument(MainGuest[mem[s].booking], mem[s].guest)

Typed == TypeOK /\ MemoryInv

LEMMA PointNames ==
    /\ {"off", "done", "ended", "key", "stay", "return"} \subseteq Point
    /\ CheckInPoint \subseteq Point
    /\ CheckOutPoint \subseteq Point
  BY DEF Point, StayPoint

\* Field by field, what a handler remembers keeps its type.
LEMMA MemoryUpdate ==
    ASSUME mem \in [Session -> Memory], NEW s \in Session
    PROVE  /\ \A d \in Day : [mem EXCEPT ![s].now = d] \in [Session -> Memory]
           /\ \A d \in Document : [mem EXCEPT ![s].document = d] \in [Session -> Memory]
           /\ \A g \in Guest, b \in Booking, x \in Status, f \in BOOLEAN :
                 [mem EXCEPT ![s] = [@ EXCEPT !.guest = g, !.booking = b, !.status = x,
                                              !.fallback = f]] \in [Session -> Memory]
  <1>1. ASSUME NEW d \in Day PROVE [mem EXCEPT ![s].now = d] \in [Session -> Memory]
    BY DEF Memory
  <1>2. ASSUME NEW d \in Document PROVE [mem EXCEPT ![s].document = d] \in [Session -> Memory]
    BY DEF Memory
  <1>3. ASSUME NEW g \in Guest, NEW b \in Booking, NEW x \in Status, NEW f \in BOOLEAN
        PROVE  [mem EXCEPT ![s] = [@ EXCEPT !.guest = g, !.booking = b, !.status = x,
                                            !.fallback = f]] \in [Session -> Memory]
    <2>1. [mem[s] EXCEPT !.guest = g, !.booking = b, !.status = x, !.fallback = f] \in Memory
      BY <1>3 DEF Memory
    <2> QED
      BY <2>1
  <1> QED
    BY <1>1, <1>2, <1>3

LEMMA LoadEffect ==
    ASSUME mem \in [Session -> Memory], NEW s \in Session, NEW g \in Guest,
           NEW b \in Booking, NEW x \in Status, NEW f \in BOOLEAN, Load(s, g, b, x, f)
    PROVE  /\ mem' \in [Session -> Memory]
           /\ mem'[s].booking = b /\ mem'[s].guest = g
           /\ mem'[s].document = mem[s].document
           /\ \A t \in Session \ {s} : mem'[t] = mem[t]
  <1>1. mem' = [mem EXCEPT ![s] = [@ EXCEPT !.guest = g, !.booking = b, !.status = x,
                                            !.fallback = f]]
    BY DEF Load
  <1>2. mem' \in [Session -> Memory]
    BY <1>1, MemoryUpdate
  <1> QED
    BY <1>1, <1>2 DEF Memory

\* A session that loads a booking under its document, or loads none, keeps the
\* invariant.
LEMMA LoadTyped ==
    ASSUME Typed, NEW s \in Session, NEW p \in CheckInPoint \cup {"ended"}, Goto(s, p),
           at[s] \in Looking,
           \/ /\ p = "check"
              /\ \E g \in Guest, b \in Booking, x \in Status, f \in BOOLEAN :
                    Load(s, g, b, x, f) /\ SameDocument(MainGuest[b], g)
           \/ p \in {"number", "ended"} /\ UNCHANGED mem
           \/ p = "byDate" /\ at[s] = "cache" /\ UNCHANGED mem,
           UNCHANGED <<today, mongo, cache, orders, raced>>
    PROVE  Typed'
  <1>1. mem' \in [Session -> Memory]
    BY LoadEffect DEF Typed, TypeOK
  <1>2. TypeOK'
    BY <1>1, PointNames DEF Typed, TypeOK, Goto, mongo
  <1>3. MemoryInv'
    <2>1. CASE UNCHANGED mem /\ p # "check"
      BY <2>1 DEF Typed, TypeOK, MemoryInv, Goto, Loaded, Looking, Holding, Staying
    <2>2. ASSUME NEW g \in Guest, NEW b \in Booking, NEW x \in Status, NEW f \in BOOLEAN,
                 p = "check", Load(s, g, b, x, f), SameDocument(MainGuest[b], g)
          PROVE  MemoryInv'
      <3>1. /\ mem'[s].booking = b /\ mem'[s].guest = g
            /\ mem'[s].document = mem[s].document
            /\ \A t \in Session \ {s} : mem'[t] = mem[t]
        BY <2>2, LoadEffect DEF Typed, TypeOK
      <3>2. \A x1, x2 : SameDocument(x1, x2)' <=> SameDocument(x1, x2)
        BY DEF SameDocument
      <3>3. at' = [at EXCEPT ![s] = "check"] /\ at \in [Session -> Point]
        BY <2>2 DEF Goto, Typed, TypeOK
      <3>4. mem[s].document \in Document
        BY DEF Typed, MemoryInv
      <3> QED
        BY <2>2, <3>1, <3>2, <3>3, <3>4 DEF Typed, MemoryInv, Looking
    <2> QED
      BY <2>1, <2>2
  <1> QED
    BY <1>2, <1>3 DEF Typed

LEMMA TypedInit == Init => Typed
  <1> SUFFICES ASSUME Init PROVE Typed
    OBVIOUS
  <1>1. mem \in [Session -> Memory]
    BY MaxDayAssumption DEF Init, Memory, Day, Status
  <1>2. TypeOK
    <2>1. /\ today \in Day
          /\ bookingStatus \in [Booking -> Status]
          /\ cottageBookings \in [Cottage -> SUBSET Booking]
      BY MaxDayAssumption DEF Init, Day, Status
    <2>2. /\ currentGuest \in [Cottage -> Guest \cup {NoGuest}]
          /\ cleaningStatus \in [Cottage -> {"fully_cleaned", "dirty"}]
          /\ keyHolder \in [Cottage -> {"guest", "cottage"}]
      BY DEF Init
    <2>3. /\ cache \in [Day -> SUBSET Cached]
          /\ orders \subseteq Order
          /\ at \in [Session -> Point]
          /\ raced \in [Cottage -> BOOLEAN]
      BY PointNames DEF Init
    <2> QED
      BY <1>1, <2>1, <2>2, <2>3 DEF TypeOK
  <1>3. MemoryInv
    BY DEF Init, MemoryInv, Loaded, Looking, Holding, Staying
  <1> QED
    BY <1>2, <1>3 DEF Typed

LEMMA TypedStep == Typed /\ [Next]_vars => Typed'
  <1> SUFFICES ASSUME Typed, [Next]_vars PROVE Typed'
    OBVIOUS
  <1> USE PointNames
  <1>1. ASSUME NEW s \in Session, Arrive(s) PROVE Typed'
    <2>1. mem' \in [Session -> Memory]
      BY <1>1, MemoryUpdate DEF Arrive, Typed, TypeOK
    <2>2. TypeOK'
      BY <1>1, <2>1 DEF Arrive, Typed, TypeOK, Goto, mongo, CheckInPoint
    <2>3. MemoryInv'
      BY <1>1 DEF Arrive, Typed, TypeOK, MemoryInv, Goto, Loaded, Looking, Holding, Staying
    <2> QED BY <2>2, <2>3 DEF Typed
  <1>2. ASSUME NEW s \in Session, NEW d \in Document, ShowDocument(s, d) PROVE Typed'
    <2>t. mem \in [Session -> Memory] /\ at \in [Session -> Point]
      BY DEF Typed, TypeOK
    <2>g. Carriers[d] \subseteq Guest
      BY CarriersAssumption
    <2>1. mem' \in [Session -> Memory]
      <3>1. CASE mem' = [mem EXCEPT ![s].document = d]
        BY <3>1, <2>t, MemoryUpdate
      <3>2. ASSUME NEW g \in Carriers[d],
                   mem' = [mem EXCEPT ![s] = [@ EXCEPT !.document = d, !.guest = g]]
            PROVE  mem' \in [Session -> Memory]
        <4>1. [mem[s] EXCEPT !.document = d, !.guest = g] \in Memory
          BY <2>t, <2>g DEF Memory
        <4> QED
          BY <3>2, <4>1, <2>t
      <3> QED
        BY <1>2, <3>1, <3>2 DEF ShowDocument, GetByDocument
    <2>2. TypeOK'
      BY <1>2, <2>1 DEF ShowDocument, Typed, TypeOK, Goto, mongo, CheckInPoint, Reject
    <2>3. MemoryInv'
      <3>1. /\ mem'[s].document = d
            /\ at'[s] = "cache" => mem'[s].guest \in Carriers[d]
            /\ at'[s] \in {"cache", "number", "ended"}
            /\ \A t \in Session \ {s} : mem'[t] = mem[t] /\ at'[t] = at[t]
        <4>1. ASSUME NEW g \in Carriers[d],
                     mem' = [mem EXCEPT ![s] = [@ EXCEPT !.document = d, !.guest = g]]
              PROVE  /\ mem'[s].document = d
                     /\ mem'[s].guest = g
                     /\ \A t \in Session \ {s} : mem'[t] = mem[t]
          BY <4>1, <2>t DEF Memory
        <4>2. ASSUME mem' = [mem EXCEPT ![s].document = d]
              PROVE  /\ mem'[s].document = d
                     /\ \A t \in Session \ {s} : mem'[t] = mem[t]
          BY <4>2, <2>t DEF Memory
        <4> QED
          BY <1>2, <4>1, <4>2, <2>t DEF ShowDocument, GetByDocument, Goto, Reject
      <3> SUFFICES ASSUME NEW t \in Session
                   PROVE  /\ at'[t] \in Looking \cup Loaded => mem'[t].document \in Document
                          /\ at'[t] \in {"cache", "byDate"} =>
                                mem'[t].guest \in Carriers[mem'[t].document]
                          /\ at'[t] \in Loaded =>
                                /\ mem'[t].booking \in Booking
                                /\ mem'[t].guest \in Guest
                                /\ SameDocument(MainGuest[mem'[t].booking], mem'[t].guest)
        BY DEF MemoryInv, SameDocument
      <3>2. CASE t = s
        BY <3>1, <3>2 DEF Loaded, Looking, Holding, Staying
      <3>3. CASE t # s
        BY <3>1, <3>3 DEF Typed, MemoryInv
      <3> QED
        BY <3>2, <3>3
    <2> QED BY <2>2, <2>3 DEF Typed
  <1>3. ASSUME NEW s \in Session, GetFromCache(s) PROVE Typed'
    <2>1. mem[s].now \in Day
      BY DEF Typed, TypeOK, Memory
    <2>2. \A r \in cache[mem[s].now] : r.booking \in Booking /\ r.status \in Status
      BY <2>1 DEF Typed, TypeOK, Cached
    <2>3. at[s] = "cache" => mem[s].guest \in Guest
      BY CarriersAssumption DEF Typed, MemoryInv, Looking
    <2> QED
      BY <1>3, <2>2, <2>3, LoadTyped DEF GetFromCache, CheckInPoint, Looking, SameDocument
  <1>4. ASSUME NEW s \in Session, GetBookingByDate(s) PROVE Typed'
    <2>1. \A b \in Booking : bookingStatus[b] \in Status
      BY DEF Typed, TypeOK
    <2>2. CASE Reject(s) /\ UNCHANGED mem
      BY <1>4, <2>2, LoadTyped DEF GetBookingByDate, Reject, CheckInPoint, Looking
    <2>3. ASSUME NEW g \in GetByDocument(mem[s].document), NEW b \in Booking,
                 MainGuest[b] = g, Load(s, mem[s].guest, b, bookingStatus[b], FALSE),
                 Goto(s, "check")
          PROVE  Typed'
      <3>1. at[s] = "byDate" /\ UNCHANGED <<today, mongo, cache, orders, raced>>
        BY <1>4 DEF GetBookingByDate
      <3>2. /\ mem[s].document \in Document
            /\ {g, mem[s].guest} \subseteq Carriers[mem[s].document]
        BY <2>3, <3>1 DEF GetByDocument, Typed, MemoryInv, Looking
      <3>3. mem[s].guest \in Guest /\ SameDocument(MainGuest[b], mem[s].guest)
        BY <2>3, <3>2, CarriersAssumption DEF SameDocument
      <3> QED
        BY <2>1, <2>3, <3>1, <3>3, LoadTyped DEF CheckInPoint, Looking
    <2> QED
      BY <1>4, <2>2, <2>3 DEF GetBookingByDate
  <1>5. ASSUME NEW s \in Session, NEW b \in Booking, CheckinFallback(s, b) PROVE Typed'
    <2>1. bookingStatus[b] \in Status
      BY DEF Typed, TypeOK
    <2>2. at[s] = "number" => Carriers[mem[s].document] \subseteq Guest
      BY CarriersAssumption DEF Typed, MemoryInv, Looking
    <2> QED
      BY <1>5, <2>1, <2>2, LoadTyped
         DEF CheckinFallback, GetByDocument, FoundByNumber, CheckInPoint, Looking, SameDocument
  <1>6. ASSUME NEW s \in Session, ProcessCheckIn(s) PROVE Typed'
    <2>2. TypeOK'
      BY <1>6 DEF ProcessCheckIn, Typed, TypeOK, Goto, mongo, CheckInPoint, Reject
    <2>3. MemoryInv'
      BY <1>6 DEF ProcessCheckIn, Typed, TypeOK, MemoryInv, Goto, Loaded, Looking, Holding, Staying, Reject
    <2> QED BY <2>2, <2>3 DEF Typed
  <1>7. ASSUME NEW s \in Session, ClaimCottage(s) PROVE Typed'
    <2>2. TypeOK'
      BY <1>7 DEF ClaimCottage, Typed, TypeOK, Goto, mongo, CheckInPoint, Reject, UpdateCurrentGuest, Memory
    <2>3. MemoryInv'
      BY <1>7 DEF ClaimCottage, Typed, TypeOK, MemoryInv, Goto, Loaded, Looking, Holding, Staying, Reject
    <2> QED BY <2>2, <2>3 DEF Typed
  <1>8. ASSUME NEW s \in Session, OrderPreparation(s) PROVE Typed'
    <2>2. TypeOK'
      BY <1>8 DEF OrderPreparation, Typed, TypeOK, Goto, mongo, Reject, CheckInPoint, CleanRoom, Order, MemoryInv, Loaded, Holding, Staying
    <2>3. MemoryInv'
      BY <1>8 DEF OrderPreparation, Typed, TypeOK, MemoryInv, Goto, Loaded, Looking, Holding, Staying, Reject
    <2> QED BY <2>2, <2>3 DEF Typed
  <1>9. ASSUME NEW s \in Session, ReceiveCottageKey(s) PROVE Typed'
    <2>2. TypeOK'
      BY <1>9 DEF ReceiveCottageKey, Typed, TypeOK, Goto, mongo, UpdateKeyHolder
    <2>3. MemoryInv'
      BY <1>9 DEF ReceiveCottageKey, Typed, TypeOK, MemoryInv, Goto, Loaded, Looking, Holding, Staying
    <2> QED BY <2>2, <2>3 DEF Typed
  <1>10. ASSUME NEW s \in Session, StayEnds(s) PROVE Typed'
    <2>1. mem' \in [Session -> Memory]
      BY <1>10, MemoryUpdate DEF StayEnds, Typed, TypeOK
    <2>2. TypeOK'
      BY <1>10, <2>1 DEF StayEnds, Typed, TypeOK, Goto, mongo
    <2>3. MemoryInv'
      BY <1>10 DEF StayEnds, Typed, TypeOK, MemoryInv, Goto, Loaded, Looking, Holding, Staying
    <2> QED BY <2>2, <2>3 DEF Typed
  <1>11. ASSUME NEW s \in Session, ReturnCottageKey(s) PROVE Typed'
    <2>2. TypeOK'
      BY <1>11 DEF ReturnCottageKey, Typed, TypeOK, Goto, mongo, CheckOutPoint, UpdateKeyHolder
    <2>3. MemoryInv'
      BY <1>11 DEF ReturnCottageKey, Typed, TypeOK, MemoryInv, Goto, Loaded, Looking, Holding, Staying
    <2> QED BY <2>2, <2>3 DEF Typed
  <1>12. ASSUME NEW s \in Session, MarkPast(s) PROVE Typed'
    <2>2. TypeOK'
      BY <1>12 DEF MarkPast, Typed, TypeOK, Goto, mongo, CheckOutPoint, UpdateStatus, Status
    <2>3. MemoryInv'
      BY <1>12 DEF MarkPast, Typed, TypeOK, MemoryInv, Goto, Loaded, Looking, Holding, Staying
    <2> QED BY <2>2, <2>3 DEF Typed
  <1>13. ASSUME NEW s \in Session, RemoveBooking(s) PROVE Typed'
    <2>2. TypeOK'
      BY <1>13 DEF RemoveBooking, Typed, TypeOK, Goto, mongo, CheckOutPoint, RemovePastBooking
    <2>3. MemoryInv'
      BY <1>13 DEF RemoveBooking, Typed, TypeOK, MemoryInv, Goto, Loaded, Looking, Holding, Staying
    <2> QED BY <2>2, <2>3 DEF Typed
  <1>14. ASSUME NEW s \in Session, ClearCurrentGuest(s) PROVE Typed'
    <2>2. TypeOK'
      BY <1>14 DEF ClearCurrentGuest, Typed, TypeOK, Goto, mongo, CheckOutPoint, UpdateCurrentGuest
    <2>3. MemoryInv'
      BY <1>14 DEF ClearCurrentGuest, Typed, TypeOK, MemoryInv, Goto, Loaded, Looking, Holding, Staying
    <2> QED BY <2>2, <2>3 DEF Typed
  <1>15. ASSUME NEW s \in Session, OrderFullCleaning(s) PROVE Typed'
    <2>2. TypeOK'
      BY <1>15 DEF OrderFullCleaning, Typed, TypeOK, Goto, mongo, CleanRoom, Order, MemoryInv, Loaded, Holding, Staying
    <2>3. MemoryInv'
      BY <1>15 DEF OrderFullCleaning, Typed, TypeOK, MemoryInv, Goto, Loaded, Looking, Holding, Staying
    <2> QED BY <2>2, <2>3 DEF Typed
  <1>16. ASSUME NEW s \in Session, Drop(s) PROVE Typed'
    <2>2. TypeOK'
      BY <1>16 DEF Drop, Typed, TypeOK, Goto, mongo
    <2>3. MemoryInv'
      BY <1>16 DEF Drop, Typed, TypeOK, MemoryInv, Goto, Loaded, Looking, Holding, Staying
    <2> QED BY <2>2, <2>3 DEF Typed
  <1>17. ASSUME Tick PROVE Typed'
    BY <1>17, MaxDayAssumption
       DEF Tick, Day, Typed, TypeOK, MemoryInv, mongo
  <1>18. ASSUME NEW d \in Day, CacheCheckIn(d) PROVE Typed'
    BY <1>18 DEF CacheCheckIn, Cached, Typed, TypeOK, MemoryInv, mongo
  <1>19. ASSUME NEW d \in Day, CacheExpires(d) PROVE Typed'
    BY <1>19 DEF CacheExpires, Typed, TypeOK, MemoryInv, mongo
  <1>20. ASSUME NEW c \in Cottage, Housekeeping(c) PROVE Typed'
    BY <1>20 DEF Housekeeping, Typed, TypeOK, MemoryInv
  <1>21. ASSUME UNCHANGED vars PROVE Typed'
    BY <1>21 DEF vars, Typed, TypeOK, MemoryInv, mongo
  <1> QED
    BY <1>1, <1>2, <1>3, <1>4, <1>5, <1>6, <1>7, <1>8, <1>9, <1>10, <1>11, <1>12,
       <1>13, <1>14, <1>15, <1>16, <1>17, <1>18, <1>19, <1>20, <1>21
       DEF Next, CheckInStep, StayStep, CheckOutStep

\* Every variable keeps its type, whatever the sessions do and whichever calls fail.
THEOREM TypeCorrect == Spec => []TypeOK
  <1>1. Typed => TypeOK
    BY DEF Typed
  <1> QED
    BY <1>1, TypedInit, TypedStep, PTL DEF Spec
-----------------------------------------------------------------------------
(***************************************************************************)
(* Which steps matter to the sessions that hold a cottage.                 *)
(***************************************************************************)

\* What the proofs below use of the types, and no more.
Shapes ==
    /\ at \in [Session -> Point]
    /\ currentGuest \in [Cottage -> Guest \cup {NoGuest}]
    /\ keyHolder \in [Cottage -> {"guest", "cottage"}]
    /\ bookingStatus \in [Booking -> Status]
    /\ cottageBookings \in [Cottage -> SUBSET Booking]
    /\ raced \in [Cottage -> BOOLEAN]
    /\ \A s \in Session : mem[s].guest \in Guest \cup {NoGuest}
    /\ \A s \in Session : at[s] \in Loaded =>
          /\ mem[s].booking \in Booking
          /\ SameDocument(MainGuest[mem[s].booking], mem[s].guest)
          /\ mem[s].guest \in Guest
          /\ Room(s) \in Cottage

LEMMA TypedShapes == Typed => Shapes
  BY MainGuestAssumption, CottageOfAssumption
     DEF Typed, TypeOK, MemoryInv, Shapes, Memory, Room

Held == Loaded \ {"check"}

\* A session that holds a booking after a step held the same one before it.
Kept(t) ==
    at'[t] \in Held =>
        /\ at[t] \in Loaded
        /\ mem'[t].booking = mem[t].booking
        /\ mem'[t].guest = mem[t].guest

LEMMA KeptByAll == Typed /\ [Next]_vars => \A t \in Session : Kept(t)
  <1> SUFFICES ASSUME Typed, [Next]_vars, NEW t \in Session PROVE Kept(t)
    OBVIOUS
  <1>t. at \in [Session -> Point] /\ mem \in [Session -> Memory]
    BY DEF Typed, TypeOK
  <1> USE <1>t DEF Kept, Held, Loaded, Holding, Staying, Goto
  <1>1. ASSUME NEW s \in Session, Arrive(s) PROVE Kept(t)
    BY <1>1 DEF Arrive
  <1>2. ASSUME NEW s \in Session, NEW d \in Document, ShowDocument(s, d) PROVE Kept(t)
    BY <1>2 DEF ShowDocument, Reject, Memory
  <1>3. ASSUME NEW s \in Session, GetFromCache(s) PROVE Kept(t)
    <2>1. CASE t = s
      BY <1>3, <2>1 DEF GetFromCache
    <2>2. CASE t # s
      BY <1>3, <2>2 DEF GetFromCache, Load
    <2> QED BY <2>1, <2>2
  <1>4. ASSUME NEW s \in Session, GetBookingByDate(s) PROVE Kept(t)
    <2>1. CASE t = s
      BY <1>4, <2>1 DEF GetBookingByDate, Reject
    <2>2. CASE t # s
      BY <1>4, <2>2 DEF GetBookingByDate, Load, Reject
    <2> QED BY <2>1, <2>2
  <1>5. ASSUME NEW s \in Session, NEW b \in Booking, CheckinFallback(s, b) PROVE Kept(t)
    <2>1. CASE t = s
      BY <1>5, <2>1 DEF CheckinFallback
    <2>2. CASE t # s
      BY <1>5, <2>2 DEF CheckinFallback, Load
    <2> QED BY <2>1, <2>2
  <1>6. ASSUME NEW s \in Session, ProcessCheckIn(s) PROVE Kept(t)
    BY <1>6 DEF ProcessCheckIn, Reject
  <1>7. ASSUME NEW s \in Session, ClaimCottage(s) \/ OrderPreparation(s) PROVE Kept(t)
    BY <1>7 DEF ClaimCottage, OrderPreparation, Reject
  <1>8. ASSUME NEW s \in Session, ReceiveCottageKey(s) \/ ReturnCottageKey(s)
        PROVE  Kept(t)
    BY <1>8 DEF ReceiveCottageKey, ReturnCottageKey
  <1>9. ASSUME NEW s \in Session, StayEnds(s) PROVE Kept(t)
    BY <1>9 DEF StayEnds, Memory
  <1>10. ASSUME NEW s \in Session, CheckOutStep(s) PROVE Kept(t)
    BY <1>10 DEF CheckOutStep, MarkPast, RemoveBooking, ClearCurrentGuest, OrderFullCleaning
  <1>11. ASSUME NEW s \in Session, Drop(s) PROVE Kept(t)
    BY <1>11 DEF Drop
  <1>12. ASSUME \/ Tick
                \/ \E d \in Day : CacheCheckIn(d) \/ CacheExpires(d)
                \/ \E c \in Cottage : Housekeeping(c)
                \/ UNCHANGED vars
         PROVE  Kept(t)
    BY <1>12 DEF Tick, CacheCheckIn, CacheExpires, Housekeeping, vars
  <1> QED
    BY <1>1, <1>2, <1>3, <1>4, <1>5, <1>6, <1>7, <1>8, <1>9, <1>10, <1>11, <1>12
       DEF Next, CheckInStep, StayStep

-----------------------------------------------------------------------------
(***************************************************************************)
(* Exclusive cottages.                                                     *)
(***************************************************************************)

Announced(s) == at[s] \in {"claim", "clear"}

\* In a cottage no check raced for: one holder; a staying holder finds its guest in
\* it; one that is about to claim or to clear it finds nobody.
HolderInv ==
    \A c \in Cottage : ~raced[c] =>
        /\ \A s, t \in Session :
              /\ at[s] \in Holding /\ Room(s) = c
              /\ at[t] \in Holding /\ Room(t) = c
              => s = t
        /\ \A s \in Session : at[s] \in Staying /\ Room(s) = c
              => currentGuest[c] = mem[s].guest
        /\ \A s \in Session : Announced(s) /\ Room(s) = c
              => currentGuest[c] = NoGuest

\* A cottage lists only bookings that name it.
ListInv == \A c \in Cottage : \A b \in cottageBookings[c] : CottageOf[b] = c

Safe == Typed /\ ListInv /\ HolderInv

\* A step that neither writes current_guest nor gives a session a hold it had not.
Quiet ==
    /\ UNCHANGED <<currentGuest, raced>>
    /\ \A t \in Session :
          /\ at'[t] \in Staying => at[t] \in Staying
          /\ Announced(t)' => Announced(t)

LEMMA QuietKeepsHolders ==
    ASSUME Typed, HolderInv, Quiet, \A t \in Session : Kept(t)
    PROVE  HolderInv'
  <1>1. \A t \in Session : at'[t] \in Holding =>
           at[t] \in Holding /\ Room(t)' = Room(t) /\ mem'[t].guest = mem[t].guest
    <2> SUFFICES ASSUME NEW t \in Session, at'[t] \in Holding
                 PROVE  at[t] \in Holding /\ Room(t)' = Room(t) /\ mem'[t].guest = mem[t].guest
      OBVIOUS
    <2>1. at[t] \in Holding
      BY DEF Quiet, Holding, Announced
    <2>2. mem'[t].booking = mem[t].booking /\ mem'[t].guest = mem[t].guest
      BY DEF Kept, Held, Loaded, Holding, Staying
    <2> QED
      BY <2>1, <2>2 DEF Room
  <1> QED
    BY <1>1 DEF HolderInv, Quiet, Holding, Announced

LEMMA ListsShrink ==
    Typed /\ [Next]_vars => \A c \in Cottage : cottageBookings'[c] \subseteq cottageBookings[c]
  <1> SUFFICES ASSUME Typed, [Next]_vars
               PROVE  \A c \in Cottage : cottageBookings'[c] \subseteq cottageBookings[c]
    OBVIOUS
  <1>1. cottageBookings \in [Cottage -> SUBSET Booking]
    BY DEF Typed, TypeOK
  <1>2. ASSUME NEW s \in Session, RemoveBooking(s)
        PROVE  \A c \in Cottage : cottageBookings'[c] \subseteq cottageBookings[c]
    BY <1>1, <1>2 DEF RemoveBooking, RemovePastBooking
  <1>3. ASSUME \A s \in Session : ~RemoveBooking(s) PROVE UNCHANGED cottageBookings
    BY <1>3 DEF Next, CheckInStep, StayStep, CheckOutStep, vars, mongo,
       Arrive, ShowDocument, GetFromCache, GetBookingByDate, CheckinFallback,
       ProcessCheckIn, ClaimCottage, OrderPreparation, ReceiveCottageKey, StayEnds,
       ReturnCottageKey, MarkPast, ClearCurrentGuest, OrderFullCleaning, Drop, Tick,
       CacheCheckIn, CacheExpires, Housekeeping
  <1> QED
    BY <1>2, <1>3

LEMMA ListStep == Typed /\ ListInv /\ [Next]_vars => ListInv'
  BY ListsShrink DEF ListInv

LEMMA HolderInit == Init => HolderInv
  BY DEF Init, HolderInv, Holding, Staying, Announced

LEMMA HolderStep == Safe /\ [Next]_vars => HolderInv'
  <1> SUFFICES ASSUME Typed, ListInv, HolderInv, [Next]_vars PROVE HolderInv'
    BY DEF Safe
  <1>s. Shapes
    BY TypedShapes
  <1>k. \A t \in Session : Kept(t)
    BY KeptByAll
  <1>a. at \in [Session -> Point]
    BY <1>s DEF Shapes
  <1>1. ASSUME Quiet PROVE HolderInv'
    BY <1>1, <1>k, QuietKeepsHolders
  <1>2. ASSUME NEW s \in Session,
               \/ Arrive(s)
               \/ \E d \in Document : ShowDocument(s, d)
               \/ GetFromCache(s)
               \/ GetBookingByDate(s)
               \/ \E b \in Booking : CheckinFallback(s, b)
        PROVE  HolderInv'
    <2>1. UNCHANGED <<currentGuest, raced>>
      BY <1>2 DEF Arrive, ShowDocument, GetFromCache, GetBookingByDate, CheckinFallback, mongo
    <2>2. \E p \in {"document", "cache", "byDate", "number", "check", "ended"} : Goto(s, p)
      BY <1>2 DEF Arrive, ShowDocument, GetFromCache, GetBookingByDate, CheckinFallback, Reject
    <2>3. Quiet
      BY <2>1, <2>2, <1>a DEF Goto, Quiet, Staying, Announced
    <2> QED BY <2>3, <1>1
  <1>3. ASSUME NEW s \in Session, ProcessCheckIn(s) PROVE HolderInv'
    <2> DEFINE c == Room(s)
    <2>1. CASE Goto(s, "claim") /\ CottageAvailable(c)
               /\ raced' = [raced EXCEPT ![c] = @ \/ InWindow(s, c)]
      <3>1. /\ UNCHANGED currentGuest
            /\ \A t \in Session : mem'[t] = mem[t] /\ Room(t)' = Room(t)
            /\ c \in Cottage
            /\ at[s] = "check"
        BY <1>3, <1>s DEF ProcessCheckIn, mongo, Room, Shapes, Loaded
      <3>2. \A t \in Session \ {s} : at'[t] = at[t]
        BY <2>1, <1>a DEF Goto
      <3>3. at'[s] = "claim"
        BY <2>1, <1>a DEF Goto
      <3>4. \A t \in Session \ {s} :
               ~raced'[c] /\ at[t] \in Holding => Room(t) # c
        <4> SUFFICES ASSUME NEW t \in Session \ {s}, ~raced'[c], at[t] \in Holding,
                            Room(t) = c
                     PROVE  FALSE
          OBVIOUS
        <4>1. ~raced[c] /\ ~InWindow(s, c)
          BY <2>1, <3>1, <1>s DEF Shapes
        <4>2. at[t] \in Staying
          BY <4>1 DEF InWindow, Holding
        <4>3. currentGuest[c] = mem[t].guest
          BY <4>1, <4>2, <3>1 DEF HolderInv
        <4>4. mem[t].guest \in Guest
          BY <4>2, <1>s DEF Shapes, Loaded, Holding
        <4> QED
          BY <2>1, <4>3, <4>4, NoGuestAssumption DEF CottageAvailable
      <3>5. \A d \in Cottage : ~raced'[d] => ~raced[d]
        BY <2>1, <3>1, <1>s DEF Shapes
      <3>6. \A t \in Session : at'[t] \in Holding =>
               t = s \/ at[t] \in Holding
        BY <3>2
      <3>7. ASSUME NEW d \in Cottage, ~raced'[d]
            PROVE  /\ \A t, u \in Session :
                         /\ at'[t] \in Holding /\ Room(t)' = d
                         /\ at'[u] \in Holding /\ Room(u)' = d
                         => t = u
                   /\ \A t \in Session : at'[t] \in Staying /\ Room(t)' = d
                         => currentGuest'[d] = mem'[t].guest
                   /\ \A t \in Session : Announced(t)' /\ Room(t)' = d
                         => currentGuest'[d] = NoGuest
        <4>1. ~raced[d]
          BY <3>5, <3>7
        <4>2. ASSUME NEW t \in Session, NEW u \in Session,
                     at'[t] \in Holding, Room(t)' = d,
                     at'[u] \in Holding, Room(u)' = d
              PROVE  t = u
          BY <4>1, <4>2, <3>1, <3>4, <3>6, <3>7 DEF HolderInv
        <4>3. ASSUME NEW t \in Session, at'[t] \in Staying, Room(t)' = d
              PROVE  currentGuest'[d] = mem'[t].guest
          <5>1. t # s
            BY <4>3, <3>3 DEF Staying
          <5> QED
            BY <4>1, <4>3, <5>1, <3>1, <3>2 DEF HolderInv
        <4>4. ASSUME NEW t \in Session, Announced(t)', Room(t)' = d
              PROVE  currentGuest'[d] = NoGuest
          <5>1. CASE t = s
            BY <5>1, <4>4, <2>1, <3>1 DEF CottageAvailable
          <5>2. CASE t # s
            BY <4>1, <4>4, <5>2, <3>1, <3>2 DEF HolderInv, Announced
          <5> QED BY <5>1, <5>2
        <4> QED BY <4>2, <4>3, <4>4
      <3> QED
        BY <3>7 DEF HolderInv
    <2>2. CASE Reject(s) /\ UNCHANGED raced
      <3>1. Quiet
        BY <1>3, <2>2, <1>a DEF ProcessCheckIn, mongo, Reject, Goto, Quiet, Staying, Announced
      <3> QED BY <3>1, <1>1
    <2> QED
      BY <1>3, <2>1, <2>2 DEF ProcessCheckIn
  <1>4. ASSUME NEW s \in Session, ClaimCottage(s) PROVE HolderInv'
    <2> DEFINE c == Room(s)
    <2>1. /\ UNCHANGED raced
          /\ \A t \in Session : mem'[t] = mem[t] /\ Room(t)' = Room(t)
          /\ c \in Cottage
          /\ at[s] = "claim"
          /\ Room(s) = c
      BY <1>4, <1>s DEF ClaimCottage, Room, Shapes, Loaded, Holding
    <2>2. \A t \in Session \ {s} : at'[t] = at[t]
      BY <1>4, <1>a DEF ClaimCottage, Reject, Goto
    <2>3. \/ at'[s] = "prepare" /\ currentGuest'[c] = mem[s].guest
          \/ at'[s] \in {"number", "ended"}
      BY <1>4, <1>s DEF ClaimCottage, Reject, Goto, UpdateCurrentGuest, Shapes, Loaded, Holding
    <2>4. \A d \in Cottage \ {c} : currentGuest'[d] = currentGuest[d]
      BY <1>4, <1>s DEF ClaimCottage, UpdateCurrentGuest, Shapes
    <2> QED
      BY <2>1, <2>2, <2>3, <2>4 DEF HolderInv, Holding, Staying, Announced
  <1>5. ASSUME NEW s \in Session, RemoveBooking(s) PROVE HolderInv'
    <2> DEFINE b == mem[s].booking
               c == Room(s)
    <2>1. /\ UNCHANGED raced
          /\ \A t \in Session : mem'[t] = mem[t] /\ Room(t)' = Room(t)
          /\ c \in Cottage
          /\ c = CottageOf[b]
          /\ at[s] = "remove"
      BY <1>5, <1>s DEF RemoveBooking, Room, Shapes, Loaded, Holding, Staying
    <2>2. /\ \A t \in Session \ {s} : at'[t] = at[t]
          /\ at'[s] \in {"clear", "ended"}
      BY <1>5, <1>a DEF RemoveBooking, Goto
    <2>3. ASSUME RemovePastBooking(b)
          PROVE  /\ \A d \in Cottage \ {c} : currentGuest'[d] = currentGuest[d]
                 /\ currentGuest'[c] = NoGuest
      BY <2>1, <2>3, <1>s DEF RemovePastBooking, ListInv, Shapes
    <2>4. /\ \A d \in Cottage \ {c} : currentGuest'[d] = currentGuest[d]
          /\ \/ currentGuest'[c] = NoGuest
             \/ at'[s] = "ended" /\ currentGuest'[c] = currentGuest[c]
      BY <1>5, <2>3, <1>a DEF RemoveBooking, Goto
    <2>5. ASSUME NEW d \in Cottage, ~raced[d]
          PROVE  /\ \A t, u \in Session :
                       /\ at'[t] \in Holding /\ Room(t)' = d
                       /\ at'[u] \in Holding /\ Room(u)' = d
                       => t = u
                 /\ \A t \in Session : at'[t] \in Staying /\ Room(t)' = d
                       => currentGuest'[d] = mem'[t].guest
                 /\ \A t \in Session : Announced(t)' /\ Room(t)' = d
                       => currentGuest'[d] = NoGuest
      <3>1. \A t \in Session : at'[t] \in Holding => at[t] \in Holding
        BY <2>1, <2>2 DEF Holding, Staying
      <3>2. ASSUME NEW t \in Session, at'[t] \in Holding, Room(t)' = d
            PROVE  t = s \/ d # c
        BY <2>1, <2>5, <3>1, <3>2 DEF HolderInv, Holding, Staying
      <3>3. ASSUME NEW t \in Session, at'[t] \in Staying, Room(t)' = d
            PROVE  currentGuest'[d] = mem'[t].guest
        <4>1. t # s
          BY <2>2, <3>3 DEF Staying
        <4>2. d # c
          BY <4>1, <3>2, <3>3 DEF Holding
        <4> QED
          BY <4>1, <4>2, <2>1, <2>2, <2>4, <2>5, <3>3 DEF HolderInv
      <3>4. ASSUME NEW t \in Session, Announced(t)', Room(t)' = d
            PROVE  currentGuest'[d] = NoGuest
        <4>1. CASE t = s
          BY <4>1, <3>4, <2>1, <2>2, <2>4 DEF Announced
        <4>2. CASE t # s
          <5>1. d # c
            BY <4>2, <3>2, <3>4 DEF Holding, Announced
          <5> QED
            BY <5>1, <4>2, <3>4, <2>1, <2>2, <2>4, <2>5 DEF HolderInv, Announced
        <4> QED BY <4>1, <4>2
      <3> QED
        BY <2>1, <2>5, <3>1, <3>3, <3>4 DEF HolderInv
    <2> QED
      BY <2>1, <2>5 DEF HolderInv
  <1>6. ASSUME NEW s \in Session, ClearCurrentGuest(s) PROVE HolderInv'
    <2> DEFINE c == Room(s)
    <2>1. /\ UNCHANGED raced
          /\ \A t \in Session : mem'[t] = mem[t] /\ Room(t)' = Room(t)
          /\ c \in Cottage
          /\ at[s] = "clear"
      BY <1>6, <1>s DEF ClearCurrentGuest, Room, Shapes, Loaded, Holding
    <2>2. /\ \A t \in Session \ {s} : at'[t] = at[t]
          /\ at'[s] \in {"clean", "ended"}
      BY <1>6, <1>a DEF ClearCurrentGuest, Goto
    <2>4. /\ \A d \in Cottage \ {c} : currentGuest'[d] = currentGuest[d]
          /\ currentGuest'[c] \in {currentGuest[c], NoGuest}
      BY <1>6, <2>1, <1>s DEF ClearCurrentGuest, UpdateCurrentGuest, Shapes
    <2> QED
      BY <2>1, <2>2, <2>4 DEF HolderInv, Holding, Staying, Announced
  <1>7. ASSUME NEW s \in Session,
               \/ OrderPreparation(s)
               \/ StayStep(s)
               \/ MarkPast(s)
               \/ OrderFullCleaning(s)
               \/ Drop(s)
        PROVE  HolderInv'
    <2>1. UNCHANGED <<currentGuest, raced>>
      BY <1>7 DEF OrderPreparation, StayStep, ReceiveCottageKey, StayEnds, ReturnCottageKey,
         MarkPast, OrderFullCleaning, Drop, mongo
    <2>2. \/ at[s] \in Staying /\ \E p \in Staying \cup {"number", "ended"} : Goto(s, p)
          \/ \E p \in {"done", "ended"} : Goto(s, p)
      BY <1>7 DEF OrderPreparation, StayStep, ReceiveCottageKey, StayEnds, ReturnCottageKey,
         MarkPast, OrderFullCleaning, Drop, Reject, Staying
    <2>3. Quiet
      BY <2>1, <2>2, <1>a DEF Goto, Quiet, Staying, Announced
    <2> QED BY <2>3, <1>1
  <1>8. ASSUME \/ Tick
               \/ \E d \in Day : CacheCheckIn(d) \/ CacheExpires(d)
               \/ \E c \in Cottage : Housekeeping(c)
               \/ UNCHANGED vars
        PROVE  HolderInv'
    <2>1. Quiet
      BY <1>8 DEF Tick, CacheCheckIn, CacheExpires, Housekeeping, vars, mongo, Quiet, Announced
    <2> QED BY <2>1, <1>1
  <1> QED
    BY <1>2, <1>3, <1>4, <1>5, <1>6, <1>7, <1>8 DEF Next, CheckInStep, CheckOutStep

LEMMA ListInit == Init => ListInv
  BY DEF Init, ListInv

LEMMA SafeAlways == Spec => []Safe
  <1>1. Init => Safe
    BY TypedInit, ListInit, HolderInit DEF Safe
  <1>2. Safe /\ [Next]_vars => Safe'
    BY TypedStep, ListStep, HolderStep DEF Safe
  <1> QED
    BY <1>1, <1>2, PTL DEF Spec

\* A cottage can only be lost to a second session in the two windows the code
\* leaves: between processCheckIn's read and its write, and between the two writes
\* of CheckOut that free the cottage.
THEOREM Exclusive == Spec => []ExclusiveUnlessRaced
  <1>1. Safe => ExclusiveUnlessRaced
    BY DEF Safe, HolderInv, ExclusiveUnlessRaced
  <1> QED
    BY <1>1, SafeAlways, PTL

-----------------------------------------------------------------------------
(***************************************************************************)
(* The key, and the name in the cottage.                                   *)
(***************************************************************************)
LEMMA KeyInit == Init => KeyFollowsStay
  BY DEF Init, KeyFollowsStay, Staying

LEMMA KeyStep == Safe /\ KeyFollowsStay /\ [Next]_vars => KeyFollowsStay'
  <1> SUFFICES ASSUME Typed, HolderInv, KeyFollowsStay, [Next]_vars,
                      NEW t \in Session, at'[t] \in Staying, ~raced'[Room(t)']
               PROVE  /\ at'[t] \in {"stay", "return"} => keyHolder'[Room(t)'] = "guest"
                      /\ at'[t] \in {"past", "remove"} => keyHolder'[Room(t)'] = "cottage"
    BY DEF Safe, KeyFollowsStay
  <1>s. Shapes
    BY TypedShapes
  <1>a. at \in [Session -> Point]
    BY <1>s DEF Shapes
  <1>r. Room(t)' = Room(t) /\ at[t] \in Holding \cup {"check", "clean", "done"}
    <2>1. Kept(t)
      BY KeptByAll
    <2> QED
      BY <2>1 DEF Kept, Held, Loaded, Holding, Staying, Room
  <1>c. Room(t) \in Cottage
    BY <1>r, <1>s DEF Shapes, Loaded
  <1> DEFINE Follows ==
        /\ at'[t] \in {"stay", "return"} => keyHolder'[Room(t)'] = "guest"
        /\ at'[t] \in {"past", "remove"} => keyHolder'[Room(t)'] = "cottage"
  \* A session that stays where it was, or moves within the same half.
  <1>1. ASSUME UNCHANGED <<keyHolder, raced>>,
               \/ at'[t] = at[t]
               \/ at[t] = "stay" /\ at'[t] = "return"
               \/ at[t] = "past" /\ at'[t] = "remove"
               \/ at'[t] \in {"prepare", "key"}
        PROVE  Follows
    BY <1>1, <1>r DEF KeyFollowsStay, Staying
  <1>2. ASSUME NEW s \in Session, ReceiveCottageKey(s) \/ ReturnCottageKey(s)
        PROVE  Follows
    <2>1. /\ UNCHANGED raced
          /\ at[s] \in {"key", "return"}
          /\ \A u \in Session \ {s} : at'[u] = at[u]
          /\ \A d \in Cottage \ {Room(s)} : keyHolder'[d] = keyHolder[d]
          /\ Room(s) \in Cottage
      BY <1>2, <1>a, <1>s DEF ReceiveCottageKey, ReturnCottageKey, Goto, UpdateKeyHolder,
         Shapes, Loaded, Holding, Staying
    <2>2. CASE t = s
      <3>1. \/ at'[t] = "stay" /\ keyHolder'[Room(t)] = "guest"
            \/ at'[t] = "past" /\ keyHolder'[Room(t)] = "cottage"
            \/ at'[t] = "ended"
        BY <1>2, <1>c, <2>2, <1>a, <1>s DEF ReceiveCottageKey, ReturnCottageKey, Goto,
           UpdateKeyHolder, Shapes
      <3> QED
        BY <3>1, <1>r
    <2>3. CASE t # s
      <3>1. at[t] \in Staying /\ at[s] \in Staying
        BY <2>1, <2>3 DEF Staying
      <3>2. Room(s) # Room(t)
        BY <2>1, <2>3, <3>1, <1>r, <1>c DEF HolderInv, Holding
      <3> QED
        BY <2>1, <2>3, <3>1, <3>2, <1>r, <1>c DEF KeyFollowsStay
    <2> QED BY <2>2, <2>3
  <1>3. ASSUME NEW s \in Session, ProcessCheckIn(s) PROVE Follows
    <2>1. /\ UNCHANGED keyHolder
          /\ at'[t] = at[t]
          /\ ~raced[Room(t)]
      BY <1>3, <1>a, <1>s, <1>r, <1>c DEF ProcessCheckIn, Reject, Goto, mongo, Staying, Shapes,
         Loaded
    <2> QED
      BY <2>1, <1>r DEF KeyFollowsStay
  <1>4. ASSUME NEW s \in Session,
               \/ Arrive(s)
               \/ \E d \in Document : ShowDocument(s, d)
               \/ GetFromCache(s)
               \/ GetBookingByDate(s)
               \/ \E b \in Booking : CheckinFallback(s, b)
        PROVE  Follows
    <2>1. UNCHANGED <<keyHolder, raced>>
      BY <1>4 DEF Arrive, ShowDocument, GetFromCache, GetBookingByDate, CheckinFallback, mongo
    <2>2. \E p \in {"document", "cache", "byDate", "number", "check", "ended"} : Goto(s, p)
      BY <1>4 DEF Arrive, ShowDocument, GetFromCache, GetBookingByDate, CheckinFallback, Reject
    <2> QED
      BY <2>1, <2>2, <1>1, <1>a DEF Goto, Staying
  <1>5. ASSUME NEW s \in Session,
               \/ ClaimCottage(s)
               \/ OrderPreparation(s)
               \/ StayEnds(s)
               \/ CheckOutStep(s)
               \/ Drop(s)
        PROVE  Follows
    <2>1. UNCHANGED <<keyHolder, raced>>
      BY <1>5 DEF ClaimCottage, OrderPreparation, StayEnds, CheckOutStep, MarkPast,
         RemoveBooking, ClearCurrentGuest, OrderFullCleaning, Drop, mongo
    <2>2. \/ at[s] = "stay" /\ Goto(s, "return")
          \/ at[s] = "past" /\ Goto(s, "remove")
          \/ \E p \in {"prepare", "key", "number", "clear", "clean", "done", "ended"} :
                Goto(s, p)
      BY <1>5 DEF ClaimCottage, OrderPreparation, StayEnds, CheckOutStep, MarkPast,
         RemoveBooking, ClearCurrentGuest, OrderFullCleaning, Drop, Reject
    <2> QED
      BY <2>1, <2>2, <1>1, <1>a DEF Goto, Staying
  <1>6. ASSUME \/ Tick
               \/ \E d \in Day : CacheCheckIn(d) \/ CacheExpires(d)
               \/ \E c \in Cottage : Housekeeping(c)
               \/ UNCHANGED vars
        PROVE  Follows
    BY <1>6, <1>1 DEF Tick, CacheCheckIn, CacheExpires, Housekeeping, vars, mongo
  <1> QED
    BY <1>2, <1>3, <1>4, <1>5, <1>6 DEF Next, CheckInStep, StayStep

\* In a cottage no check raced for, the recorded key holder is the guest during the
\* stay and the cottage when CheckOut closes the booking.
THEOREM KeyIsBack == Spec => []KeyFollowsStay
  <1>1. Init => KeyFollowsStay
    BY KeyInit
  <1>2. Safe /\ KeyFollowsStay /\ [Next]_vars => KeyFollowsStay'
    BY KeyStep
  <1> QED
    BY <1>1, <1>2, SafeAlways, PTL DEF Spec

\* The only writes of current_guest: a claim for the session's guest, whose document
\* led to a booking for the cottage, or a removal of the guest.
LEMMA CurrentGuestWrites ==
    ASSUME Typed, ListInv, [Next]_vars,
           NEW c \in Cottage, currentGuest'[c] # currentGuest[c]
    PROVE  \E s \in Session :
              /\ at[s] \in {"claim", "remove", "clear"}
              /\ Room(s) = c
              /\ at[s] = "claim" => currentGuest'[c] = mem[s].guest
              /\ at[s] \in {"remove", "clear"} => currentGuest'[c] = NoGuest
  <1>s. Shapes
    BY TypedShapes
  <1>1. ASSUME NEW s \in Session, ClaimCottage(s)
        PROVE  at[s] = "claim" /\ Room(s) = c /\ currentGuest'[c] = mem[s].guest
    BY <1>1, <1>s DEF ClaimCottage, UpdateCurrentGuest, Shapes
  <1>2. ASSUME NEW s \in Session, RemoveBooking(s)
        PROVE  at[s] = "remove" /\ Room(s) = c /\ currentGuest'[c] = NoGuest
    <2>1. PICK d \in Cottage :
             /\ mem[s].booking \in cottageBookings[d]
             /\ currentGuest' = [currentGuest EXCEPT ![d] = NoGuest]
      BY <1>2 DEF RemoveBooking, RemovePastBooking
    <2>2. d = c /\ currentGuest'[c] = NoGuest
      BY <2>1, <1>s DEF Shapes
    <2> QED
      BY <1>2, <2>1, <2>2 DEF RemoveBooking, ListInv, Room
  <1>3. ASSUME NEW s \in Session, ClearCurrentGuest(s)
        PROVE  at[s] = "clear" /\ Room(s) = c /\ currentGuest'[c] = NoGuest
    BY <1>3, <1>s DEF ClearCurrentGuest, UpdateCurrentGuest, Shapes
  <1>4. \E s \in Session : ClaimCottage(s) \/ RemoveBooking(s) \/ ClearCurrentGuest(s)
    <2> SUFFICES ASSUME \A s \in Session :
                           ~ClaimCottage(s) /\ ~RemoveBooking(s) /\ ~ClearCurrentGuest(s)
                 PROVE  UNCHANGED currentGuest
      OBVIOUS
    <2> QED
      BY DEF Next, CheckInStep, StayStep, CheckOutStep, vars, mongo,
         Arrive, ShowDocument, GetFromCache, GetBookingByDate, CheckinFallback,
         ProcessCheckIn, OrderPreparation, ReceiveCottageKey, StayEnds,
         ReturnCottageKey, MarkPast, OrderFullCleaning, Drop, Tick,
         CacheCheckIn, CacheExpires, Housekeeping
  <1> QED
    BY <1>1, <1>2, <1>3, <1>4

LEMMA TodayGrows == Typed /\ [Next]_vars => today' \in Nat /\ today <= today'
  <1> SUFFICES ASSUME Typed, [Next]_vars PROVE today' \in Nat /\ today <= today'
    OBVIOUS
  <1>1. today \in Nat
    BY MaxDayAssumption DEF Typed, TypeOK, Day
  <1>2. CASE Tick
    BY <1>1, <1>2 DEF Tick
  <1>3. CASE ~Tick
    <2>1. today' = today
      BY <1>3 DEF Next, CheckInStep, StayStep, CheckOutStep, vars,
         Arrive, ShowDocument, GetFromCache, GetBookingByDate, CheckinFallback,
         ProcessCheckIn, ClaimCottage, OrderPreparation, ReceiveCottageKey, StayEnds,
         ReturnCottageKey, MarkPast, RemoveBooking, ClearCurrentGuest, OrderFullCleaning,
         Drop, CacheCheckIn, CacheExpires, Housekeeping
    <2> QED
      BY <1>1, <2>1
  <1> QED
    BY <1>2, <1>3

\* A session is behind the clock and never ahead of it, and a booking that is about
\* to be given its cottage has begun.
Begun(b) == CheckInDay[b] <= today

BegunInv ==
    /\ \A s \in Session : mem[s].now <= today
    /\ \A s \in Session : at[s] = "claim" => Begun(mem[s].booking)

LEMMA BegunStays == Typed /\ [Next]_vars => \A b \in Booking : Begun(b) => Begun(b)'
  <1> SUFFICES ASSUME Typed, [Next]_vars, NEW b \in Booking, Begun(b) PROVE Begun(b)'
    OBVIOUS
  <1>1. today \in Nat /\ today' \in Nat /\ CheckInDay[b] \in Nat
    BY TodayGrows, MaxDayAssumption, CheckInDayAssumption DEF Typed, TypeOK, Day
  <1> QED
    BY <1>1, TodayGrows DEF Begun

\* Only Arrive and StayEnds read the clock.
LEMMA ClockReads ==
    ASSUME Typed, [Next]_vars, NEW t \in Session
    PROVE  mem'[t].now = mem[t].now \/ mem'[t].now = today
  <1>t. mem \in [Session -> Memory]
    BY DEF Typed, TypeOK
  <1>1. ASSUME NEW s \in Session, Arrive(s) \/ StayEnds(s)
        PROVE  mem'[t].now = mem[t].now \/ mem'[t].now = today
    BY <1>t, <1>1 DEF Arrive, StayEnds, Memory
  <1>2. ASSUME NEW s \in Session, NEW d \in Document, ShowDocument(s, d)
        PROVE  mem'[t].now = mem[t].now
    <2>1. CASE \E g \in GetByDocument(d) :
                  mem' = [mem EXCEPT ![s] = [@ EXCEPT !.document = d, !.guest = g]]
      BY <1>t, <2>1 DEF Memory
    <2>2. CASE mem' = [mem EXCEPT ![s].document = d]
      BY <1>t, <2>2 DEF Memory
    <2> QED
      BY <1>2, <2>1, <2>2 DEF ShowDocument
  <1>l. ASSUME NEW s \in Session, NEW g, NEW b, NEW x, NEW f, Load(s, g, b, x, f)
        PROVE  mem'[t].now = mem[t].now
    BY <1>t, <1>l DEF Load, Memory
  <1>3. ASSUME NEW s \in Session, GetFromCache(s) PROVE mem'[t].now = mem[t].now
    <2>1. UNCHANGED mem \/ \E r \in cache[mem[s].now] :
                               Load(s, mem[s].guest, r.booking, r.status, FALSE)
      BY <1>3 DEF GetFromCache
    <2> QED
      BY <1>l, <2>1
  <1>4. ASSUME NEW s \in Session, GetBookingByDate(s) PROVE mem'[t].now = mem[t].now
    BY <1>l, <1>4 DEF GetBookingByDate
  <1>5. ASSUME NEW s \in Session, NEW b \in Booking, CheckinFallback(s, b)
        PROVE  mem'[t].now = mem[t].now
    BY <1>l, <1>5 DEF CheckinFallback
  <1>6. ASSUME NEW s \in Session, ProcessCheckIn(s) \/ ClaimCottage(s) \/ OrderPreparation(s)
        PROVE  UNCHANGED mem
    BY <1>6 DEF ProcessCheckIn, ClaimCottage, OrderPreparation
  <1>7. ASSUME NEW s \in Session,
               ReceiveCottageKey(s) \/ ReturnCottageKey(s) \/ CheckOutStep(s) \/ Drop(s)
        PROVE  UNCHANGED mem
    BY <1>7 DEF ReceiveCottageKey, ReturnCottageKey, CheckOutStep,
       MarkPast, RemoveBooking, ClearCurrentGuest, OrderFullCleaning, Drop
  <1>8. ASSUME \/ Tick
               \/ \E d \in Day : CacheCheckIn(d) \/ CacheExpires(d)
               \/ \E c \in Cottage : Housekeeping(c)
               \/ UNCHANGED vars
        PROVE  UNCHANGED mem
    BY <1>8 DEF Tick, CacheCheckIn, CacheExpires, Housekeeping, vars
  <1> QED
    BY <1>1, <1>2, <1>3, <1>4, <1>5, <1>6, <1>7, <1>8 DEF Next, CheckInStep, StayStep

\* A claim follows the guard of processCheckIn.
LEMMA ClaimFollowsCheck ==
    ASSUME Typed, [Next]_vars, NEW t \in Session, at'[t] = "claim", at[t] # "claim"
    PROVE  CheckInDay[mem[t].booking] = mem[t].now
  <1>a. at \in [Session -> Point]
    BY DEF Typed, TypeOK
  <1> USE <1>a DEF Goto
  <1>1. ASSUME NEW s \in Session, CheckInStep(s), ~ProcessCheckIn(t) PROVE FALSE
    BY <1>1 DEF CheckInStep, Arrive, ShowDocument, GetFromCache, GetBookingByDate,
       CheckinFallback, ProcessCheckIn, ClaimCottage, OrderPreparation, Reject
  <1>2. ASSUME NEW s \in Session, StayStep(s) \/ CheckOutStep(s) \/ Drop(s) PROVE FALSE
    BY <1>2 DEF StayStep, ReceiveCottageKey, StayEnds, ReturnCottageKey, CheckOutStep,
       MarkPast, RemoveBooking, ClearCurrentGuest, OrderFullCleaning, Drop
  <1>3. ASSUME \/ Tick
               \/ \E d \in Day : CacheCheckIn(d) \/ CacheExpires(d)
               \/ \E c \in Cottage : Housekeeping(c)
               \/ UNCHANGED vars
        PROVE  FALSE
    BY <1>3 DEF Tick, CacheCheckIn, CacheExpires, Housekeeping, vars
  <1>4. ProcessCheckIn(t)
    BY <1>1, <1>2, <1>3 DEF Next
  <1> QED
    BY <1>4 DEF ProcessCheckIn, Reject

LEMMA BegunStep == Typed /\ BegunInv /\ [Next]_vars => BegunInv'
  <1> SUFFICES ASSUME Typed, BegunInv, [Next]_vars PROVE BegunInv'
    OBVIOUS
  <1>1. ASSUME NEW t \in Session PROVE mem'[t].now <= today'
    <2>1. today \in Nat /\ today' \in Nat /\ mem[t].now \in Nat
      BY TodayGrows, MaxDayAssumption DEF Typed, TypeOK, Memory, Day
    <2> QED
      BY <2>1, TodayGrows, ClockReads DEF BegunInv
  <1>2. ASSUME NEW t \in Session, at'[t] = "claim" PROVE Begun(mem[t].booking)'
    <2>1. at[t] \in Loaded /\ mem'[t].booking = mem[t].booking
      BY <1>2, KeptByAll DEF Kept, Held, Loaded, Holding
    <2>2. mem[t].booking \in Booking
      BY <2>1, TypedShapes DEF Shapes
    <2>3. Begun(mem[t].booking)
      BY <1>2, ClaimFollowsCheck DEF BegunInv, Begun
    <2>4. CheckInDay[mem[t].booking] <= today'
      BY <2>2, <2>3, BegunStays DEF Begun
    <2> QED
      BY <2>1, <2>4 DEF Begun
  <1> QED
    BY <1>1, <1>2 DEF BegunInv

LEMMA OccupantStep ==
    Safe /\ BegunInv /\ OccupantAdmitted /\ [Next]_vars => OccupantAdmitted'
  <1> SUFFICES ASSUME Typed, ListInv, BegunInv, OccupantAdmitted, [Next]_vars,
                      NEW c \in Cottage, currentGuest'[c] # NoGuest
               PROVE  \E b \in Booking : /\ CottageOf[b] = c
                                          /\ CheckInDay[b] <= today'
                                          /\ SameDocument(MainGuest[b], currentGuest'[c])
    BY DEF Safe, OccupantAdmitted, SameDocument
  <1>b. \A b \in Booking : CheckInDay[b] <= today => CheckInDay[b] <= today'
    BY BegunStays DEF Begun
  <1>1. CASE currentGuest'[c] = currentGuest[c]
    BY <1>1, <1>b DEF OccupantAdmitted
  <1>2. CASE currentGuest'[c] # currentGuest[c]
    <2>1. PICK s \in Session :
             at[s] = "claim" /\ Room(s) = c /\ currentGuest'[c] = mem[s].guest
      BY <1>2, CurrentGuestWrites
    <2>2. mem[s].booking \in Booking /\ SameDocument(MainGuest[mem[s].booking], mem[s].guest)
      BY <2>1, TypedShapes DEF Shapes, Loaded, Holding
    <2>3. CheckInDay[mem[s].booking] <= today'
      BY <1>b, <2>1, <2>2 DEF BegunInv, Begun
    <2> QED
      BY <2>1, <2>2, <2>3 DEF Room
  <1> QED BY <1>1, <1>2

\* Nobody is ever written into a cottage without being the main guest of a booking
\* for it that has begun, or sharing a document with that guest, through the cache,
\* the lookup by date with its own lookup of the document, or a typed number.
THEOREM OccupantsAdmitted == Spec => []OccupantAdmitted
  <1>1. Init => BegunInv /\ OccupantAdmitted
    BY DEF Init, BegunInv, OccupantAdmitted
  <1>2. Typed /\ BegunInv /\ [Next]_vars => BegunInv'
    BY BegunStep
  <1>3. Safe /\ BegunInv /\ OccupantAdmitted /\ [Next]_vars => OccupantAdmitted'
    BY OccupantStep
  <1> QED
    BY <1>1, <1>2, <1>3, SafeAlways, PTL DEF Spec, Safe

-----------------------------------------------------------------------------
(***************************************************************************)
(* CheckOut implements BookingLifecycle, whatever fails and whoever else   *)
(* checks out; and at most one session completes it for a booking.         *)
(***************************************************************************)
FullCleaning(o) == o.type = "fullCleaning"

\* How far CheckOut has got, read off the position of the session, the lists of the
\* cottages, the status of the booking and the orders published.
ProgressInv ==
    /\ \A s \in Session : at[s] \in {"remove", "clear", "clean", "done"} =>
          bookingStatus[mem[s].booking] = "past"
    /\ \A s \in Session : at[s] \in {"clear", "clean", "done"} =>
          NoCottageLists(mem[s].booking)
    /\ \A b \in Booking : NoCottageLists(b) => bookingStatus[b] = "past"
    /\ \A o \in orders : FullCleaning(o) => NoCottageLists(o.booking)

LEMMA ProgressInit == Init => ProgressInv
  BY CottageOfAssumption DEF Init, ProgressInv, NoCottageLists, FullCleaning

\* A booking that is past stays past, one that no cottage lists stays unlisted.
LEMMA NothingUndone ==
    Typed /\ [Next]_vars =>
        \A b \in Booking : /\ bookingStatus[b] = "past" => bookingStatus'[b] = "past"
                           /\ NoCottageLists(b) => NoCottageLists(b)'
  <1> SUFFICES ASSUME Typed, [Next]_vars, NEW b \in Booking
               PROVE  /\ bookingStatus[b] = "past" => bookingStatus'[b] = "past"
                      /\ NoCottageLists(b) => NoCottageLists(b)'
    OBVIOUS
  <1>1. NoCottageLists(b) => NoCottageLists(b)'
    BY ListsShrink DEF NoCottageLists
  <1>2. ASSUME NEW s \in Session, MarkPast(s)
        PROVE  bookingStatus[b] = "past" => bookingStatus'[b] = "past"
    BY <1>2 DEF MarkPast, UpdateStatus, Typed, TypeOK
  <1>3. ASSUME \A s \in Session : ~MarkPast(s) PROVE UNCHANGED bookingStatus
    BY <1>3 DEF Next, CheckInStep, StayStep, CheckOutStep, vars, mongo,
       Arrive, ShowDocument, GetFromCache, GetBookingByDate, CheckinFallback,
       ProcessCheckIn, ClaimCottage, OrderPreparation, ReceiveCottageKey, StayEnds,
       ReturnCottageKey, RemoveBooking, ClearCurrentGuest, OrderFullCleaning, Drop, Tick,
       CacheCheckIn, CacheExpires, Housekeeping
  <1> QED
    BY <1>1, <1>2, <1>3

\* The steps that leave the lifecycle of every booking alone.
Aside ==
    /\ UNCHANGED <<bookingStatus, cottageBookings>>
    /\ \A o \in orders' : FullCleaning(o) => o \in orders
    /\ orders \subseteq orders'
    /\ \A p \in {"remove", "clear", "clean", "done"} : \A t \in Session :
          at'[t] = p => at[t] = p \/ (p = "clean" /\ at[t] = "clear")

LEMMA AsideSteps ==
    ASSUME Typed, [Next]_vars,
           \A s \in Session : ~MarkPast(s) /\ ~RemoveBooking(s) /\ ~OrderFullCleaning(s)
    PROVE  Aside
  <1>a. at \in [Session -> Point]
    BY DEF Typed, TypeOK
  <1> USE <1>a DEF Aside, Goto, mongo
  <1>1. ASSUME NEW s \in Session,
               \/ Arrive(s)
               \/ \E d \in Document : ShowDocument(s, d)
               \/ GetFromCache(s)
               \/ GetBookingByDate(s)
        PROVE  Aside
    BY <1>1 DEF Arrive, ShowDocument, GetFromCache, GetBookingByDate, Reject
  <1>2. ASSUME NEW s \in Session,
               \/ \E b \in Booking : CheckinFallback(s, b)
               \/ ProcessCheckIn(s)
               \/ ClaimCottage(s)
        PROVE  Aside
    BY <1>2 DEF CheckinFallback, ProcessCheckIn, ClaimCottage, Reject
  <1>3. ASSUME NEW s \in Session, OrderPreparation(s) PROVE Aside
    BY <1>3 DEF OrderPreparation, Reject, CleanRoom, FullCleaning
  <1>4. ASSUME NEW s \in Session, StayStep(s) \/ ClearCurrentGuest(s) \/ Drop(s) PROVE Aside
    BY <1>4 DEF StayStep, ReceiveCottageKey, StayEnds, ReturnCottageKey,
       ClearCurrentGuest, Drop
  <1>5. ASSUME \/ Tick
               \/ \E d \in Day : CacheCheckIn(d) \/ CacheExpires(d)
               \/ \E c \in Cottage : Housekeeping(c)
               \/ UNCHANGED vars
        PROVE  Aside
    BY <1>5 DEF Tick, CacheCheckIn, CacheExpires, Housekeeping, vars
  <1> QED
    BY <1>1, <1>2, <1>3, <1>4, <1>5 DEF Next, CheckInStep, CheckOutStep

LEMMA ProgressStep == Safe /\ ProgressInv /\ [Next]_vars => ProgressInv'
  <1> SUFFICES ASSUME Typed, ListInv, ProgressInv, [Next]_vars PROVE ProgressInv'
    BY DEF Safe
  <1>s. Shapes
    BY TypedShapes
  <1>k. \A t \in Session : Kept(t)
    BY KeptByAll
  <1>a. at \in [Session -> Point]
    BY <1>s DEF Shapes
  <1>u. \A b \in Booking : /\ bookingStatus[b] = "past" => bookingStatus'[b] = "past"
                           /\ NoCottageLists(b) => NoCottageLists(b)'
    BY NothingUndone
  <1>m. \A t \in Session : at'[t] \in {"remove", "clear", "clean", "done"} =>
           /\ mem'[t].booking = mem[t].booking
           /\ mem[t].booking \in Booking
    BY <1>k, <1>s DEF Kept, Held, Loaded, Holding, Staying, Shapes
  <1>o. \A o \in orders : o.booking \in Booking
    BY DEF Typed, TypeOK, Order
  <1>1. CASE \A s \in Session : ~MarkPast(s) /\ ~RemoveBooking(s) /\ ~OrderFullCleaning(s)
    <2>1. Aside
      BY <1>1, AsideSteps
    <2>2. \A b : NoCottageLists(b)' = NoCottageLists(b)
      BY <2>1 DEF Aside, NoCottageLists
    <2> QED
      BY <2>1, <2>2, <1>m, <1>u, <1>o DEF Aside, ProgressInv
  <1>2. ASSUME NEW s \in Session, MarkPast(s) PROVE ProgressInv'
    <2>1. /\ UNCHANGED <<cottageBookings, orders, mem>>
          /\ at[s] = "past" /\ mem[s].booking \in Booking
          /\ \A t \in Session \ {s} : at'[t] = at[t]
      BY <1>2, <1>a, <1>s DEF MarkPast, Goto, Shapes, Loaded, Holding, Staying
    <2>2. \/ at'[s] = "remove" /\ bookingStatus'[mem[s].booking] = "past"
          \/ at'[s] = "ended"
      BY <1>2, <2>1, <1>a, <1>s DEF MarkPast, Goto, UpdateStatus, Shapes
    <2>3. \A b : NoCottageLists(b)' = NoCottageLists(b)
      BY <2>1 DEF NoCottageLists
    <2> QED
      BY <2>1, <2>2, <2>3, <1>m, <1>u, <1>o DEF ProgressInv
  <1>3. ASSUME NEW s \in Session, RemoveBooking(s) PROVE ProgressInv'
    <2> DEFINE b == mem[s].booking
    <2>1. /\ UNCHANGED <<bookingStatus, orders, mem>>
          /\ at[s] = "remove" /\ b \in Booking
          /\ \A t \in Session \ {s} : at'[t] = at[t]
          /\ bookingStatus[b] = "past"
      BY <1>3, <1>a, <1>s DEF RemoveBooking, Goto, Shapes, Loaded, Holding, Staying, ProgressInv
    <2>2. ASSUME RemovePastBooking(b)
          PROVE  /\ NoCottageLists(b)'
                 /\ \A x \in Booking : NoCottageLists(x)' => x = b \/ NoCottageLists(x)
      BY <2>1, <2>2, <1>s DEF RemovePastBooking, ListInv, NoCottageLists, Shapes
    <2>3. /\ \A x \in Booking : NoCottageLists(x)' => x = b \/ NoCottageLists(x)
          /\ \/ at'[s] = "clear" /\ NoCottageLists(b)'
             \/ at'[s] = "ended"
      <3>1. CASE RemovePastBooking(b)
        BY <3>1, <2>2, <1>3, <1>a DEF RemoveBooking, Goto
      <3>2. CASE at'[s] = "ended" /\ UNCHANGED cottageBookings
        BY <3>2 DEF NoCottageLists
      <3> QED
        BY <3>1, <3>2, <1>3, <1>a DEF RemoveBooking, Goto
    <2> QED
      BY <2>1, <2>3, <1>m, <1>u, <1>o DEF ProgressInv
  <1>4. ASSUME NEW s \in Session, OrderFullCleaning(s) PROVE ProgressInv'
    <2>1. /\ UNCHANGED <<bookingStatus, cottageBookings, mem>>
          /\ at[s] = "clean" /\ mem[s].booking \in Booking
          /\ at'[s] \in {"done", "ended"}
          /\ \A t \in Session \ {s} : at'[t] = at[t]
          /\ \A o \in orders' : o \in orders \/ o.booking = mem[s].booking
      BY <1>4, <1>a, <1>s DEF OrderFullCleaning, mongo, Goto, CleanRoom, Shapes,
         Loaded, Holding, Staying
    <2>2. \A b : NoCottageLists(b)' = NoCottageLists(b)
      BY <2>1 DEF NoCottageLists
    <2> QED
      BY <2>1, <2>2 DEF ProgressInv
  <1> QED
    BY <1>1, <1>2, <1>3, <1>4

LEMMA ProgressAlways == Spec => [](Safe /\ ProgressInv)
  <1>1. Init => ProgressInv
    BY ProgressInit
  <1>2. Safe /\ ProgressInv /\ [Next]_vars => ProgressInv'
    BY ProgressStep
  <1> QED
    BY <1>1, <1>2, SafeAlways, PTL DEF Spec

-----------------------------------------------------------------------------
(***************************************************************************)
(* The refinement.                                                         *)
(***************************************************************************)
Cleaned(b) == \E o \in orders : o.booking = b /\ FullCleaning(o)

Stage(b) == IF Cleaned(b) THEN "cleaned"
            ELSE IF NoCottageLists(b) THEN "removed"
            ELSE IF bookingStatus[b] = "past" THEN "past"
            ELSE "open"

LEMMA StageIs ==
    /\ stage = [b \in Booking |-> Stage(b)]
    /\ stage' = [b \in Booking |-> Stage(b)']
  BY DEF stage, Stage, Cleaned, FullCleaning

LEMMA StageOf ==
    ASSUME NEW b \in Booking
    PROVE  stage[b] = Stage(b) /\ stage'[b] = Stage(b)'
  BY StageIs

LEMMA StageInit == Init => Lifecycle!Init
  BY CottageOfAssumption DEF Init, Lifecycle!Init, stage, NoCottageLists

LEMMA StageStep ==
    Safe /\ ProgressInv /\ [Next]_vars => [Lifecycle!Next]_stage
  <1> SUFFICES ASSUME Typed, ListInv, ProgressInv, [Next]_vars PROVE [Lifecycle!Next]_stage
    BY DEF Safe
  <1>s. Shapes
    BY TypedShapes
  <1>a. at \in [Session -> Point]
    BY <1>s DEF Shapes
  <1>1. CASE \A s \in Session : ~MarkPast(s) /\ ~RemoveBooking(s) /\ ~OrderFullCleaning(s)
    <2>1. Aside
      BY <1>1, AsideSteps
    <2>2. \A b : /\ NoCottageLists(b)' = NoCottageLists(b)
                 /\ Cleaned(b)' = Cleaned(b)
      BY <2>1 DEF Aside, NoCottageLists, Cleaned
    <2>3. UNCHANGED stage
      BY <2>1, <2>2 DEF Aside, stage, Cleaned, FullCleaning
    <2> QED BY <2>3
  <1>2. ASSUME NEW s \in Session, MarkPast(s) PROVE [Lifecycle!Next]_stage
    <2> DEFINE b == mem[s].booking
    <2>1. /\ UNCHANGED <<cottageBookings, orders, mem>>
          /\ b \in Booking
      BY <1>2, <1>s DEF MarkPast, Shapes, Loaded, Holding, Staying
    <2>2. \A x : NoCottageLists(x)' = NoCottageLists(x) /\ Cleaned(x)' = Cleaned(x)
      BY <2>1 DEF NoCottageLists, Cleaned
    <2>3. CASE UNCHANGED bookingStatus
      BY <2>1, <2>2, <2>3 DEF stage, Cleaned, FullCleaning
    <2>4. CASE bookingStatus' = [bookingStatus EXCEPT ![b] = "past"]
      <3>1. \A x \in Booking \ {b} : stage'[x] = stage[x]
        BY <2>2, <2>4, <1>s DEF stage, Cleaned, FullCleaning, Shapes
      <3>2. bookingStatus'[b] = "past"
        BY <2>4, <2>1, <1>s DEF Shapes
      <3>3. stage'[b] = stage[b] \/ (stage[b] = "open" /\ stage'[b] = "past")
        <4>1. Stage(b)' = Stage(b) \/ (Stage(b) = "open" /\ Stage(b)' = "past")
          BY <2>1, <2>2, <3>2 DEF Stage
        <4> QED
          BY <4>1, <2>1, StageOf
      <3>4. CASE stage'[b] = stage[b]
        <4>1. UNCHANGED stage
          BY <3>1, <3>4 DEF stage
        <4> QED BY <4>1
      <3>5. CASE stage[b] = "open" /\ stage'[b] = "past"
        <4>1. stage' = [stage EXCEPT ![b] = "past"]
          BY <3>1, <3>5 DEF stage
        <4> QED
          BY <4>1, <3>5, <2>1 DEF Lifecycle!Next, Lifecycle!MarkPast, Lifecycle!Advance
      <3> QED BY <3>3, <3>4, <3>5
    <2> QED
      BY <1>2, <2>3, <2>4 DEF MarkPast, UpdateStatus
  <1>3. ASSUME NEW s \in Session, RemoveBooking(s) PROVE [Lifecycle!Next]_stage
    <2> DEFINE b == mem[s].booking
    <2>1. /\ UNCHANGED <<bookingStatus, orders, mem>>
          /\ b \in Booking
          /\ bookingStatus[b] = "past"
      BY <1>3, <1>s DEF RemoveBooking, Shapes, Loaded, Holding, Staying, ProgressInv
    <2>2. \A x : Cleaned(x)' = Cleaned(x)
      BY <2>1 DEF Cleaned
    <2>3. CASE UNCHANGED cottageBookings
      <3>1. \A x : NoCottageLists(x)' = NoCottageLists(x)
        BY <2>3 DEF NoCottageLists
      <3> QED
        BY <2>1, <2>2, <3>1 DEF stage, Cleaned, FullCleaning
    <2>4. CASE RemovePastBooking(b)
      <3>1. /\ ~NoCottageLists(b)
            /\ NoCottageLists(b)'
            /\ \A x \in Booking \ {b} : NoCottageLists(x)' = NoCottageLists(x)
        <4>1. PICK c \in Cottage :
                 /\ b \in cottageBookings[c]
                 /\ cottageBookings' = [cottageBookings EXCEPT ![c] = @ \ {b}]
          BY <2>4 DEF RemovePastBooking
        <4>2. \A d \in Cottage : b \in cottageBookings[d] => d = c
          BY <4>1 DEF ListInv
        <4>3. \A d \in Cottage : b \notin cottageBookings'[d]
          BY <4>1, <4>2, <1>s DEF Shapes
        <4>4. \A x : x # b => \A d \in Cottage :
                 x \in cottageBookings'[d] <=> x \in cottageBookings[d]
          BY <4>1, <1>s DEF Shapes
        <4>5. \A x \in Booking \ {b} : NoCottageLists(x)' = NoCottageLists(x)
          BY <4>4 DEF NoCottageLists
        <4> QED
          BY <4>1, <4>3, <4>5, <2>1 DEF NoCottageLists
      <3>2. ~Cleaned(b)
        BY <3>1 DEF Cleaned, ProgressInv
      <3>3. stage[b] = "past" /\ stage'[b] = "removed"
        <4>1. Stage(b) = "past" /\ Stage(b)' = "removed"
          BY <2>1, <2>2, <3>1, <3>2 DEF Stage
        <4> QED
          BY <4>1, <2>1, StageOf
      <3>4. \A x \in Booking \ {b} : stage'[x] = stage[x]
        BY <2>1, <2>2, <3>1 DEF stage, Cleaned, FullCleaning
      <3>5. stage' = [stage EXCEPT ![b] = "removed"]
        BY <3>3, <3>4 DEF stage
      <3> QED
        BY <3>3, <3>5, <2>1 DEF Lifecycle!Next, Lifecycle!Remove, Lifecycle!Advance
    <2> QED
      BY <1>3, <2>3, <2>4 DEF RemoveBooking
  <1>4. ASSUME NEW s \in Session, OrderFullCleaning(s) PROVE [Lifecycle!Next]_stage
    <2> DEFINE b == mem[s].booking
    <2>1. /\ UNCHANGED <<bookingStatus, cottageBookings, mem>>
          /\ b \in Booking
          /\ NoCottageLists(b)
      BY <1>4, <1>s DEF OrderFullCleaning, mongo, Shapes, Loaded, ProgressInv
    <2>2. \A x : NoCottageLists(x)' = NoCottageLists(x)
      BY <2>1 DEF NoCottageLists
    <2>3. CASE UNCHANGED orders
      BY <2>1, <2>2, <2>3 DEF stage
    <2>4. CASE CleanRoom(s, "fullCleaning")
      <3>1. /\ Cleaned(b)'
            /\ \A x : x # b => Cleaned(x)' = Cleaned(x)
        <4>1. orders' = orders \cup
                 {[session |-> s, booking |-> b, type |-> "fullCleaning"]}
          BY <2>4 DEF CleanRoom
        <4>2. Cleaned(b)'
          <5> DEFINE o == [session |-> s, booking |-> b, type |-> "fullCleaning"]
          <5>1. o \in orders'
            BY <4>1
          <5>2. o.booking = mem'[s].booking /\ o.type = "fullCleaning"
            BY <2>1
          <5> HIDE DEF o
          <5> QED
            BY <5>1, <5>2 DEF Cleaned, FullCleaning
        <4>3. \A o \in orders' : o \in orders \/ o.booking = b
          BY <4>1
        <4>4. \A x : x # b => Cleaned(x)' = Cleaned(x)
          BY <4>1, <4>3 DEF Cleaned
        <4> QED BY <4>2, <4>4
      <3>2. \A x \in Booking \ {b} : stage'[x] = stage[x]
        BY <2>1, <2>2, <3>1 DEF stage, Cleaned, FullCleaning
      <3>3. stage'[b] = "cleaned" /\ stage[b] \in {"removed", "cleaned"}
        <4>1. Stage(b)' = "cleaned" /\ Stage(b) \in {"removed", "cleaned"}
          BY <2>1, <3>1 DEF Stage
        <4> QED
          BY <4>1, <2>1, StageOf
      <3>4. stage' = [stage EXCEPT ![b] = "cleaned"]
        BY <3>2, <3>3 DEF stage
      <3>5. CASE stage[b] = "cleaned"
        <4>1. UNCHANGED stage
          BY <3>4, <3>5 DEF stage
        <4> QED BY <4>1
      <3>6. CASE stage[b] = "removed"
        BY <3>4, <3>6, <2>1 DEF Lifecycle!Next, Lifecycle!OrderCleaning, Lifecycle!Advance
      <3> QED BY <3>3, <3>5, <3>6
    <2> QED
      BY <1>4, <2>3, <2>4 DEF OrderFullCleaning
  <1> QED
    BY <1>1, <1>2, <1>3, <1>4

\* CheckOut, seen through the database and the broker, takes each booking through the
\* stages of BookingLifecycle one at a time, for any number of sessions, with calls
\* failing and sessions ending anywhere.
THEOREM CheckOutRefinesLifecycle == Spec => LifecycleRefined
  <1>1. Init => Lifecycle!Init
    BY StageInit
  <1>2. Safe /\ ProgressInv /\ [Next]_vars => [Lifecycle!Next]_stage
    BY StageStep
  <1> QED
    BY <1>1, <1>2, ProgressAlways, PTL DEF Spec, LifecycleRefined, Lifecycle!Spec

-----------------------------------------------------------------------------
(***************************************************************************)
(* Who leaves a cottage, and how often a check-out completes.              *)
(***************************************************************************)
Displacement ==
    \A c \in Cottage :
        ~raced[c] /\ currentGuest[c] # NoGuest /\ currentGuest'[c] # currentGuest[c] =>
            /\ currentGuest'[c] = NoGuest
            /\ \E b \in Booking : /\ SameDocument(MainGuest[b], currentGuest[c])
                                  /\ CottageOf[b] = c
                                  /\ bookingStatus[b] = "past"

LEMMA DisplacementStep == Safe /\ ProgressInv /\ [Next]_vars => Displacement
  <1> SUFFICES ASSUME Typed, ListInv, HolderInv, ProgressInv, [Next]_vars,
                      NEW c \in Cottage, ~raced[c],
                      currentGuest[c] # NoGuest, currentGuest'[c] # currentGuest[c]
               PROVE  /\ currentGuest'[c] = NoGuest
                      /\ \E b \in Booking : /\ SameDocument(MainGuest[b], currentGuest[c])
                                            /\ CottageOf[b] = c
                                            /\ bookingStatus[b] = "past"
    BY DEF Safe, Displacement
  <1>1. PICK s \in Session :
           /\ at[s] \in {"claim", "remove", "clear"}
           /\ Room(s) = c
           /\ at[s] \in {"remove", "clear"} => currentGuest'[c] = NoGuest
    BY CurrentGuestWrites
  <1>2. at[s] = "remove"
    BY <1>1 DEF HolderInv, Announced
  <1>3. currentGuest[c] = mem[s].guest
    BY <1>1, <1>2 DEF HolderInv, Staying
  <1>4. /\ mem[s].booking \in Booking
        /\ SameDocument(MainGuest[mem[s].booking], mem[s].guest)
    BY <1>2, TypedShapes DEF Shapes, Loaded, Holding, Staying
  <1>5. bookingStatus[mem[s].booking] = "past"
    BY <1>2 DEF ProgressInv
  <1> QED
    BY <1>1, <1>2, <1>3, <1>4, <1>5 DEF Room

\* In a cottage no check raced for, a guest disappears only through a check-out of a
\* booking for that cottage, of that guest or of one they share a document with, and
\* never in favour of another guest.
THEOREM Displaced == Spec => DisplacedOnlyByCheckout
  <1>1. Safe /\ ProgressInv /\ [Next]_vars => Displacement
    BY DisplacementStep
  <1> QED
    BY <1>1, ProgressAlways, PTL DEF Spec, DisplacedOnlyByCheckout, Displacement

\* The sessions past RemovePastBooking and the full-cleaning orders of a booking.
Closing(s) == at[s] \in {"clear", "clean"}

OnceInv ==
    /\ \A s, t \in Session :
          Closing(s) /\ Closing(t) /\ mem[s].booking = mem[t].booking => s = t
    /\ \A o \in orders : \A s \in Session :
          FullCleaning(o) /\ Closing(s) => o.booking # mem[s].booking
    /\ \A o, p \in orders :
          FullCleaning(o) /\ FullCleaning(p) /\ o.booking = p.booking =>
              o.session = p.session

LEMMA OnceStep == Safe /\ ProgressInv /\ OnceInv /\ [Next]_vars => OnceInv'
  <1> SUFFICES ASSUME Typed, ListInv, ProgressInv, OnceInv, [Next]_vars PROVE OnceInv'
    BY DEF Safe
  <1>s. Shapes
    BY TypedShapes
  <1>a. at \in [Session -> Point]
    BY <1>s DEF Shapes
  <1>m. \A t \in Session : Closing(t)' => mem'[t].booking = mem[t].booking
    BY KeptByAll DEF Kept, Held, Loaded, Holding, Closing
  <1>1. CASE \A s \in Session : ~MarkPast(s) /\ ~RemoveBooking(s) /\ ~OrderFullCleaning(s)
    <2>1. Aside
      BY <1>1, AsideSteps
    <2>2. \A t \in Session : Closing(t)' => Closing(t) /\ mem'[t].booking = mem[t].booking
      BY <2>1, <1>m DEF Aside, Closing
    <2> QED
      BY <2>1, <2>2 DEF Aside, OnceInv
  <1>2. ASSUME NEW s \in Session, MarkPast(s) PROVE OnceInv'
    <2>1. UNCHANGED orders /\ \A t \in Session : Closing(t)' => Closing(t)
      BY <1>2, <1>a DEF MarkPast, Goto, Closing
    <2> QED
      BY <2>1, <1>m DEF OnceInv
  <1>3. ASSUME NEW s \in Session, RemoveBooking(s) PROVE OnceInv'
    <2>1. /\ UNCHANGED <<orders, mem>>
          /\ \A t \in Session \ {s} : at'[t] = at[t]
          /\ at'[s] = "clear" => ~NoCottageLists(mem[s].booking)
          /\ at'[s] \in {"clear", "ended"}
      BY <1>3, <1>a DEF RemoveBooking, RemovePastBooking, NoCottageLists, Goto
    <2>2. \A t \in Session \ {s} : Closing(t)' => Closing(t)
      BY <2>1 DEF Closing
    <2>3. ASSUME NEW t \in Session \ {s}, Closing(t), Closing(s)'
          PROVE  mem[t].booking # mem[s].booking
      BY <2>1, <2>3 DEF Closing, ProgressInv
    <2>4. ASSUME NEW o \in orders, FullCleaning(o), Closing(s)'
          PROVE  o.booking # mem[s].booking
      BY <2>1, <2>4 DEF Closing, ProgressInv
    <2> QED
      BY <2>1, <2>2, <2>3, <2>4 DEF OnceInv
  <1>4. ASSUME NEW s \in Session, OrderFullCleaning(s) PROVE OnceInv'
    <2> DEFINE new == [session |-> s, booking |-> mem[s].booking, type |-> "fullCleaning"]
    <2>1. /\ UNCHANGED mem
          /\ Closing(s) /\ ~Closing(s)'
          /\ \A t \in Session \ {s} : at'[t] = at[t]
          /\ orders' \subseteq orders \cup {new}
      BY <1>4, <1>a DEF OrderFullCleaning, CleanRoom, Goto, Closing
    <2>2. new.session = s /\ new.booking = mem[s].booking
      OBVIOUS
    <2> HIDE DEF new
    <2>3. \A t \in Session : Closing(t)' => Closing(t) /\ t # s
      BY <2>1 DEF Closing
    <2>4. \A t \in Session : Closing(t)' => mem[t].booking # mem[s].booking
      BY <2>1, <2>3 DEF OnceInv
    <2>5. \A o \in orders : FullCleaning(o) => o.booking # mem[s].booking
      BY <2>1 DEF OnceInv
    <2>6. \A o \in orders' : o = new \/ o \in orders
      BY <2>1
    <2> QED
      BY <2>1, <2>2, <2>3, <2>4, <2>5, <2>6 DEF OnceInv
  <1> QED
    BY <1>1, <1>2, <1>3, <1>4

\* Of all the sessions that check out of one booking, at most one gets past
\* RemovePastBooking, and full cleaning is ordered at most once.
THEOREM CheckOutCompletesOnce == Spec => []OneCheckoutPerBooking
  <1>1. Init => OnceInv
    BY DEF Init, OnceInv, Closing
  <1>2. Safe /\ ProgressInv /\ OnceInv /\ [Next]_vars => OnceInv'
    BY OnceStep
  <1>3. Typed /\ OnceInv => OneCheckoutPerBooking
    <2> SUFFICES ASSUME Typed, OnceInv, NEW b \in Booking
                 PROVE  Cardinality(
                          {s \in Session : at[s] \in {"clear", "clean"} /\ mem[s].booking = b}
                          \cup {o.session : o \in {x \in orders : /\ x.booking = b
                                                                  /\ x.type = "fullCleaning"}}) <= 1
      BY DEF OneCheckoutPerBooking
    <2> DEFINE R == {s \in Session : at[s] \in {"clear", "clean"} /\ mem[s].booking = b}
               O == {x \in orders : x.booking = b /\ x.type = "fullCleaning"}
               C == {o.session : o \in O}
    <2>1. \A s, t \in R : s = t
      BY DEF OnceInv, Closing
    <2>2. R = {} \/ O = {}
      BY DEF OnceInv, Closing, FullCleaning
    <2>3. \A x, y \in O : x.session = y.session
      BY DEF OnceInv, FullCleaning
    <2>4. \A s, t \in R \cup C : s = t
      BY <2>1, <2>2, <2>3
    <2>5. R \cup C = {} \/ \E s : R \cup C = {s}
      BY <2>4
    <2> SUFFICES Cardinality(R \cup C) <= 1
      OBVIOUS
    <2> HIDE DEF R, C
    <2>6. CASE R \cup C = {}
      <3>1. Cardinality(R \cup C) = 0
        BY <2>6, FS_EmptySet
      <3> QED
        BY <3>1
    <2>7. CASE \E s : R \cup C = {s}
      <3>1. Cardinality(R \cup C) = 1
        BY <2>7, FS_Singleton
      <3> QED
        BY <3>1
    <2> QED
      BY <2>5, <2>6, <2>7
  <1> QED
    BY <1>1, <1>2, <1>3, ProgressAlways, PTL DEF Spec, Safe
-----------------------------------------------------------------------------
(***************************************************************************)
(* Bookings that are opened again.                                         *)
(***************************************************************************)

\* Sessions leave the stay, and bookings are closed, on the last day or later.
Late(b) == today >= CheckOutDay[b]

LateInv ==
    /\ \A b \in Booking : bookingStatus[b] = "past" => Late(b)
    /\ \A s \in Session : at[s] \in {"return", "past"} => Late(mem[s].booking)

LEMMA TimePasses == Typed /\ [Next]_vars => \A b \in Booking : Late(b) => Late(b)'
  <1> SUFFICES ASSUME Typed, [Next]_vars, NEW b \in Booking, Late(b) PROVE Late(b)'
    OBVIOUS
  <1>1. today \in Nat /\ today' \in Nat /\ CheckOutDay[b] \in Nat
    BY TodayGrows, MaxDayAssumption, CheckOutDayAssumption DEF Typed, TypeOK, Day
  <1> QED
    BY <1>1, TodayGrows DEF Late

\* Only two steps lead to the points LateInv speaks of.
LEMMA LeavingSteps ==
    ASSUME Typed, [Next]_vars, NEW t \in Session, at'[t] \in {"return", "past"}
    PROVE  at[t] \in {"return", "past"} \/ StayEnds(t)
  <1>a. at \in [Session -> Point]
    BY DEF Typed, TypeOK
  <1> USE <1>a DEF Goto
  <1>1. ASSUME NEW s \in Session, CheckInStep(s) PROVE at[t] \in {"return", "past"}
    BY <1>1 DEF CheckInStep, Arrive, ShowDocument, GetFromCache, GetBookingByDate,
       CheckinFallback, ProcessCheckIn, ClaimCottage, OrderPreparation, Reject
  <1>2. ASSUME NEW s \in Session, StayStep(s)
        PROVE  at[t] \in {"return", "past"} \/ StayEnds(t)
    BY <1>2 DEF StayStep, ReceiveCottageKey, StayEnds, ReturnCottageKey
  <1>3. ASSUME NEW s \in Session, CheckOutStep(s) \/ Drop(s)
        PROVE  at[t] \in {"return", "past"}
    BY <1>3 DEF CheckOutStep, MarkPast, RemoveBooking, ClearCurrentGuest, OrderFullCleaning,
       Drop
  <1>4. ASSUME \/ Tick
               \/ \E d \in Day : CacheCheckIn(d) \/ CacheExpires(d)
               \/ \E c \in Cottage : Housekeeping(c)
               \/ UNCHANGED vars
        PROVE  at[t] \in {"return", "past"}
    BY <1>4 DEF Tick, CacheCheckIn, CacheExpires, Housekeeping, vars
  <1> QED
    BY <1>1, <1>2, <1>3, <1>4 DEF Next

LEMMA LateStep == Typed /\ LateInv /\ [Next]_vars => LateInv'
  <1> SUFFICES ASSUME Typed, LateInv, [Next]_vars PROVE LateInv'
    OBVIOUS
  <1>s. Shapes
    BY TypedShapes
  <1>t. \A b \in Booking : Late(b) => Late(b)'
    BY TimePasses
  <1>1. ASSUME NEW b \in Booking, bookingStatus'[b] = "past" PROVE Late(b)'
    <2>1. ASSUME NEW s \in Session, MarkPast(s) PROVE Late(b)
      <3>1. at[s] = "past" /\ (b = mem[s].booking \/ bookingStatus[b] = "past")
        BY <1>1, <2>1, <1>s DEF MarkPast, UpdateStatus, Shapes
      <3> QED
        BY <3>1 DEF LateInv
    <2>2. ASSUME \A s \in Session : ~MarkPast(s) PROVE UNCHANGED bookingStatus
      BY <2>2 DEF Next, CheckInStep, StayStep, CheckOutStep, vars, mongo,
         Arrive, ShowDocument, GetFromCache, GetBookingByDate, CheckinFallback,
         ProcessCheckIn, ClaimCottage, OrderPreparation, ReceiveCottageKey, StayEnds,
         ReturnCottageKey, RemoveBooking, ClearCurrentGuest, OrderFullCleaning, Drop, Tick,
         CacheCheckIn, CacheExpires, Housekeeping
    <2> QED
      BY <1>1, <1>t, <2>1, <2>2 DEF LateInv
  <1>2. ASSUME NEW t \in Session, at'[t] \in {"return", "past"} PROVE Late(mem[t].booking)'
    <2>1. /\ at[t] \in Loaded /\ mem'[t].booking = mem[t].booking
      BY <1>2, KeptByAll DEF Kept, Held, Loaded, Holding, Staying
    <2>2. mem[t].booking \in Booking
      BY <2>1, <1>s DEF Shapes
    <2>3. Late(mem[t].booking)
      BY <1>2, LeavingSteps DEF LateInv, StayEnds, Late
    <2>4. today' >= CheckOutDay[mem[t].booking]
      BY <2>2, <2>3, <1>t DEF Late
    <2> QED
      BY <2>1, <2>4 DEF Late
  <1> QED
    BY <1>1, <1>2 DEF LateInv

Reopened ==
    \A s \in Session :
        LET b == mem[s].booking IN
        at[s] = "check" /\ at'[s] = "claim" /\ bookingStatus[b] = "past"
          /\ CheckInDay[b] < CheckOutDay[b]
        => mem[s].now < today

LEMMA ReopenedStep == Typed /\ LateInv /\ [Next]_vars => Reopened
  <1> SUFFICES ASSUME Typed, LateInv, [Next]_vars, NEW s \in Session,
                      at[s] = "check", at'[s] = "claim",
                      bookingStatus[mem[s].booking] = "past",
                      CheckInDay[mem[s].booking] < CheckOutDay[mem[s].booking]
               PROVE  mem[s].now < today
    BY DEF Reopened
  <1>s. Shapes
    BY TypedShapes
  <1>1. mem[s].booking \in Booking
    BY <1>s DEF Shapes, Loaded
  <1>2. today >= CheckOutDay[mem[s].booking]
    BY <1>1 DEF LateInv, Late
  <1>3. CheckInDay[mem[s].booking] = mem[s].now
    BY ClaimFollowsCheck
  <1>4. today \in Nat /\ CheckInDay[mem[s].booking] \in Nat /\ CheckOutDay[mem[s].booking] \in Nat
    BY <1>1, MaxDayAssumption, CheckInDayAssumption, CheckOutDayAssumption
       DEF Typed, TypeOK, Day
  <1> QED
    BY <1>2, <1>3, <1>4

\* A closed booking of a night or more is opened again only by a session that read
\* the clock a day or more before.
THEOREM NotReopenedInTime == Spec => ReopenedOnlyLate
  <1>1. Init => LateInv
    BY DEF Init, LateInv
  <1>2. Typed /\ LateInv /\ [Next]_vars => LateInv'
    BY LateStep
  <1>3. Typed /\ LateInv /\ [Next]_vars => Reopened
    BY ReopenedStep
  <1> QED
    BY <1>1, <1>2, <1>3, SafeAlways, PTL DEF Spec, Safe, ReopenedOnlyLate, Reopened
=============================================================================
