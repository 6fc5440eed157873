---------------------------- MODULE GuestRecords ----------------------------
(***************************************************************************)
(* The guest records under GET, POST and PATCH /guest, and the bookings    *)
(* under GET /guest/:userId/bookings, one step per call to the clock or to *)
(* MongoDB, so that requests interleave.                                   *)
(*                                                                         *)
(* An update reads the record, computes which fields its request would     *)
(* change, and sets those fields: a read-modify-write without a condition  *)
(* on what was read.  The request that wins is decided field by field.     *)
(*                                                                         *)
(* Bookings are written by another service.  A list is the guest's whole   *)
(* list or an error: one document that does not make a booking is enough.  *)
(*                                                                         *)
(* Time is counted in half milliseconds: the clock's times are exact, and  *)
(* BSON, the database's format, keeps whole milliseconds only.             *)
(***************************************************************************)
EXTENDS Integers

CONSTANTS
    Guest,      \* object ids
    Request,    \* HTTP requests; each is handled once
    Field,      \* text fields of a record; NewGuest wants all of them
    Text,       \* values of a text field
    Known,      \* the guests stored at the start
    NoRecord,
    Booking,    \* booking ids
    Owner,      \* booking -> its main guest
    MaxTime,    \* bound on the clock
    Faults      \* may calls fail?

ASSUME KnownAssumption    == Known \subseteq Guest
ASSUME NoRecordAssumption == NoRecord \notin [text : [Field -> Text], createdAt : Nat, lastUpdate : Nat]
ASSUME OwnerAssumption    == Owner \in [Booking -> Guest]
ASSUME MaxTimeAssumption  == MaxTime \in Nat /\ MaxTime >= 2
ASSUME FaultsAssumption   == Faults \in BOOLEAN

VARIABLES
    now,      \* the clock simulator
    guests,   \* guests collection: id -> document
    at,       \* request -> the call its handler is about to make
    id,       \* request -> the guest it is about
    body,     \* request -> the record built from its body and the clock
    read,     \* request -> the document Update has read
    answer,   \* request -> the record it answers with
    bookings, \* bookings collection: absent, or a document that makes a booking or not
    listed,   \* request -> the bookings it answers with
    overtaken \* history: was the guest written between the request's read and write?

lists == <<bookings, listed>>
vars  == <<now, guests, at, id, body, read, answer, overtaken, lists>>

\* What is left of a time once it is stored.
BSON(t) == t - (t % 2)

\* A time of 0 stands for nil; NewGuest wants a creation time.
Instant == 2..MaxTime
Time    == {0} \cup Instant
Record  == [text : [Field -> Text], createdAt : Instant, lastUpdate : Time]

InBSON(record) ==
    [text |-> record.text, createdAt |-> BSON(record.createdAt), lastUpdate |-> BSON(record.lastUpdate)]

Document == {record \in Record : InBSON(record) = record}

TypeOK ==
    /\ now \in Instant
    /\ guests \in [Guest -> Document \cup {NoRecord}]
    /\ at \in [Request -> {"new", "insert", "find", "set", "ok", "listed", "failed"}]
    /\ id \in [Request -> Guest]
    /\ body \in [Request -> Record \cup {NoRecord}]
    /\ read \in [Request -> Document \cup {NoRecord}]
    /\ answer \in [Request -> Record \cup {NoRecord}]
    /\ overtaken \in [Request -> BOOLEAN]
    /\ bookings \in [Booking -> {"absent", "whole", "broken"}]
    /\ listed \in [Request -> SUBSET Booking]

Init ==
    /\ now = 2
    /\ \E t \in Text :
          guests = [g \in Guest |->
                       IF g \in Known
                       THEN [text |-> [f \in Field |-> t], createdAt |-> 2, lastUpdate |-> 0]
                       ELSE NoRecord]
    /\ at = [r \in Request |-> "new"]
    /\ id \in [Request -> Guest]
    /\ body = [r \in Request |-> NoRecord]
    /\ read = [r \in Request |-> NoRecord]
    /\ answer = [r \in Request |-> NoRecord]
    /\ overtaken = [r \in Request |-> FALSE]
    /\ bookings = [b \in Booking |-> "absent"]
    /\ listed = [r \in Request |-> {}]

-----------------------------------------------------------------------------
Goto(r, p) == at' = [at EXCEPT ![r] = p]

\* guestService.GetById: the record as it is, or none.
GetById(g) == {guests[g]} \ {NoRecord}

GetGuest(r) ==
    /\ at[r] = "new"
    /\ \/ /\ \E record \in GetById(id[r]) : answer' = [answer EXCEPT ![r] = record]
          /\ Goto(r, "ok")
       \/ /\ GetById(id[r]) = {} \/ Faults
          /\ Goto(r, "failed")
          /\ UNCHANGED answer
    /\ UNCHANGED <<now, guests, id, body, read, overtaken, lists>>

\* bookingRepo.FindByGuestId.
FindByGuestId(g) == {b \in Booking : Owner[b] = g /\ bookings[b] # "absent"}

\* Mutated: a document that makes no booking is left out of the list.
GetBookingsSkipping(r) ==
    /\ at[r] = "new"
    /\ \/ /\ listed' = [listed EXCEPT ![r] =
                          {b \in FindByGuestId(id[r]) : bookings[b] = "whole"}]
          /\ Goto(r, "listed")
       \/ Faults /\ Goto(r, "failed") /\ UNCHANGED listed
    /\ UNCHANGED <<now, guests, id, body, read, answer, overtaken, bookings>>

\* guestService.GetBookings: the first document that makes no booking is an error.
AllMakeBookings(found) == \A b \in found : bookings[b] = "whole"

GetBookings(r) ==
    LET found == FindByGuestId(id[r]) IN
    /\ at[r] = "new"
    /\ \/ AllMakeBookings(found) /\ listed' = [listed EXCEPT ![r] = found] /\ Goto(r, "listed")
       \/ (~AllMakeBookings(found) \/ Faults) /\ Goto(r, "failed") /\ UNCHANGED listed
    /\ UNCHANGED <<now, guests, id, body, read, answer, overtaken, bookings>>

\* AddGuest takes an id nobody has, reads the clock and builds the record.
AddGuest(r, text) ==
    /\ at[r] = "new"
    /\ guests[id[r]] = NoRecord
    /\ \A q \in Request : at[q] = "insert" => id[q] # id[r]
    /\ body' = [body EXCEPT ![r] = [text |-> text, createdAt |-> now, lastUpdate |-> 0]]
    /\ Goto(r, "insert")
    /\ UNCHANGED <<now, guests, id, read, answer, overtaken, lists>>

\* UpdateGuest: created_at is the clock's when the body leaves it out.
UpdateGuest(r, text, createdAt) ==
    /\ at[r] = "new"
    /\ body' = [body EXCEPT ![r] =
                   [text |-> text, createdAt |-> IF createdAt = 0 THEN now ELSE createdAt,
                    lastUpdate |-> now]]
    /\ Goto(r, "find")
    /\ UNCHANGED <<now, guests, id, read, answer, overtaken, lists>>

\* The clock cannot be read, or the request does not make a valid record.
Refuse(r) ==
    /\ at[r] = "new"
    /\ Goto(r, "failed")
    /\ UNCHANGED <<now, guests, id, body, read, answer, overtaken, lists>>

\* guestRepo.Add.  Nothing keeps two guests from having one document_id.
Add(r) ==
    /\ at[r] = "insert"
    /\ \/ guests' = [guests EXCEPT ![id[r]] = InBSON(body[r])] /\ Goto(r, "ok")
       \/ Faults /\ guests' = [guests EXCEPT ![id[r]] = InBSON(body[r])] /\ Goto(r, "failed")
       \/ Faults /\ UNCHANGED guests /\ Goto(r, "failed")
    /\ UNCHANGED <<now, id, body, read, answer, overtaken, lists>>

\* guestRepo.Update: FindOne.
Find(r) ==
    /\ at[r] = "find"
    /\ \/ /\ guests[id[r]] # NoRecord
          /\ read' = [read EXCEPT ![r] = guests[id[r]]]
          /\ Goto(r, "set")
       \/ /\ guests[id[r]] = NoRecord \/ Faults
          /\ Goto(r, "failed")
          /\ UNCHANGED read
    /\ UNCHANGED <<now, guests, id, body, answer, overtaken, lists>>

\* setStringIfChanged, setTimePointerIfChanged: what the request asks for where it
\* differs from what it read, and what is stored now everywhere else.  An exact time
\* differs from the one it left in the database.
Changed(new, old, stored) == IF new # old THEN new ELSE stored

\* Mutated: every field of the request is set.
MergedWhole(new, old, stored) == InBSON(new)

\* Mutated: last_update is left out of the fields to set.
MergedWithoutLastUpdate(new, old, stored) ==
    InBSON([text       |-> [f \in Field |-> Changed(new.text[f], old.text[f], stored.text[f])],
            createdAt  |-> Changed(new.createdAt, old.createdAt, stored.createdAt),
            lastUpdate |-> stored.lastUpdate])

Merged(new, old, stored) ==
    InBSON([text       |-> [f \in Field |-> Changed(new.text[f], old.text[f], stored.text[f])],
            createdAt  |-> Changed(new.createdAt, old.createdAt, stored.createdAt),
            lastUpdate |-> Changed(new.lastUpdate, old.lastUpdate, stored.lastUpdate)])

\* guestRepo.Update: UpdateOne, left out when nothing changes; the answer is the
\* request with its exact times, not what is stored.
Set(r) ==
    LET g == id[r]
        write ==
            /\ guests' = [guests EXCEPT ![g] = Merged(body[r], read[r], guests[g])]
            /\ overtaken' = [q \in Request |->
                                overtaken[q] \/ (q # r /\ at[q] = "set" /\ id[q] = g)]
    IN
    /\ at[r] = "set"
    /\ \/ write /\ Goto(r, "ok") /\ answer' = [answer EXCEPT ![r] = body[r]]
       \/ Faults /\ write /\ Goto(r, "failed") /\ UNCHANGED answer
       \/ Faults /\ UNCHANGED <<guests, overtaken, answer>> /\ Goto(r, "failed")
    /\ UNCHANGED <<now, id, body, read, lists>>

\* The booking service writes a booking's document; it takes none away.
Store(b) ==
    /\ \E doc \in {"whole", "broken"} : bookings' = [bookings EXCEPT ![b] = doc]
    /\ UNCHANGED <<now, guests, at, id, body, read, answer, overtaken, listed>>

Tick ==
    /\ now < MaxTime
    /\ now' = now + 1
    /\ UNCHANGED <<guests, at, id, body, read, answer, overtaken, lists>>

Next ==
    \/ \E r \in Request :
          \/ \E text \in [Field -> Text] :
                \/ AddGuest(r, text)
                \/ \E createdAt \in {0} \cup (2..now) : UpdateGuest(r, text, createdAt)
          \/ GetGuest(r) \/ GetBookings(r)
          \/ Refuse(r) \/ Add(r) \/ Find(r) \/ Set(r)
    \/ \E b \in Booking : Store(b)
    \/ Tick

Spec == Init /\ [][Next]_vars
-----------------------------------------------------------------------------
(***************************************************************************)
(* Properties.                                                             *)
(***************************************************************************)

\* An update that leaves a field as it found it does not undo another update of
\* that field, however their reads and writes fall: a field changes only to what a
\* request asks for that saw something else in it.
UntouchedFieldsSurvive ==
    [][\A g \in Guest, f \in Field :
          LET old == guests[g]
              new == guests'[g] IN
          old # NoRecord /\ new.text[f] # old.text[f] =>
              \E r \in Request :
                  /\ at[r] = "set" /\ id[r] = g
                  /\ new.text[f] = body[r].text[f]
                  /\ new.text[f] # read[r].text[f]]_vars

\* An update nobody overtook between its read and its write stores what it answers
\* with, its times cut to the millisecond and nothing else: a guest who reads the
\* record back may find it a fraction of a millisecond older than he was told.
AnswerIsStored ==
    [][\A r \in Request :
          at[r] = "set" /\ at'[r] = "ok" /\ ~overtaken[r] =>
              guests'[id[r]] = InBSON(answer'[r])]_vars

\* A booking a guest was shown is in every list he is shown later, whatever became
\* of its document in between: what cannot be shown is refused, not left out.
ListsGrow ==
    [][\A r, q \in Request :
          at[r] = "new" /\ at'[r] = "listed" /\ id[q] = id[r] =>
              listed[q] \subseteq listed'[r]]_vars

=============================================================================
