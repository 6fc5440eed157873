------------------------- MODULE GuestRecordsProofs -------------------------
(***************************************************************************)
(* Proofs about the guest records, for any number of requests, guests,     *)
(* fields and values.                                                      *)
(***************************************************************************)
EXTENDS GuestRecords, TLAPS

\* What a handler holds at each of its calls.
Held ==
    \A r \in Request :
        /\ at[r] \in {"insert", "find", "set"} => body[r] \in Record
        /\ at[r] = "set" => /\ read[r] \in Document
                            /\ guests[id[r]] \in Document

\* An id under insertion is nobody's yet, and one request's only.
FreshIds ==
    \A r \in Request : at[r] = "insert" =>
        /\ guests[id[r]] = NoRecord
        /\ \A q \in Request : at[q] = "insert" /\ id[q] = id[r] => q = r

\* Until somebody else writes the guest, the record read is the record stored.
ReadIsCurrent ==
    \A r \in Request : at[r] = "set" /\ ~overtaken[r] => guests[id[r]] = read[r]

\* A request lists stored bookings of its own guest.
ListedAreStored ==
    \A r \in Request : listed[r] \subseteq FindByGuestId(id[r])

Inv == TypeOK /\ Held /\ FreshIds /\ ReadIsCurrent /\ ListedAreStored

LEMMA NoRecordIsNone == NoRecord \notin Record
  BY NoRecordAssumption, MaxTimeAssumption DEF Record, Time, Instant

\* A time cut to the millisecond is a time, and cutting it again changes nothing.
LEMMA BSONTyped ==
  /\ \A t \in Instant : BSON(t) \in Instant /\ BSON(BSON(t)) = BSON(t)
  /\ \A t \in Time : BSON(t) \in Time /\ BSON(BSON(t)) = BSON(t)
  BY MaxTimeAssumption DEF BSON, Time, Instant

LEMMA InBSONTyped ==
  ASSUME NEW record \in Record
  PROVE  InBSON(record) \in Document
  <1>1. InBSON(record) \in Record
    BY BSONTyped DEF InBSON, Record
  <1>2. InBSON(InBSON(record)) = InBSON(record)
    BY BSONTyped DEF InBSON, Record
  <1> QED
    BY <1>1, <1>2 DEF Document

LEMMA DocumentIsRecord ==
  ASSUME NEW doc \in Document
  PROVE  doc \in Record
  BY DEF Document

LEMMA MergedTyped ==
  ASSUME NEW new \in Record, NEW old \in Record, NEW stored \in Record
  PROVE  Merged(new, old, stored) \in Document
  <1>1. [text       |-> [f \in Field |-> Changed(new.text[f], old.text[f], stored.text[f])],
         createdAt  |-> Changed(new.createdAt, old.createdAt, stored.createdAt),
         lastUpdate |-> Changed(new.lastUpdate, old.lastUpdate, stored.lastUpdate)] \in Record
    BY DEF Changed, Record
  <1> QED
    BY <1>1, InBSONTyped DEF Merged

\* With nothing in between, the merge is the request as the database keeps it.
LEMMA MergedAlone ==
  ASSUME NEW new \in Record, NEW old \in Record
  PROVE  Merged(new, old, old) = InBSON(new)
  <1>1. \A f \in Field : Changed(new.text[f], old.text[f], old.text[f]) = new.text[f]
    BY DEF Changed
  <1>2. [f \in Field |-> Changed(new.text[f], old.text[f], old.text[f])] = new.text
    <2>1. new.text \in [Field -> Text]
      BY DEF Record
    <2> QED
      BY <1>1, <2>1
  <1>3. Merged(new, old, old) =
          InBSON([text |-> new.text, createdAt |-> new.createdAt, lastUpdate |-> new.lastUpdate])
    BY <1>2 DEF Merged, Changed
  <1>4. new = [text |-> new.text, createdAt |-> new.createdAt, lastUpdate |-> new.lastUpdate]
    BY DEF Record
  <1> QED
    BY <1>3, <1>4

LEMMA InvInit == Init => Inv
  <1> SUFFICES ASSUME Init PROVE Inv
    OBVIOUS
  <1>1. TypeOK
    <2>1. PICK t \in Text :
             guests = [g \in Guest |->
                          IF g \in Known
                          THEN [text |-> [f \in Field |-> t], createdAt |-> 2, lastUpdate |-> 0]
                          ELSE NoRecord]
      BY DEF Init
    <2> DEFINE first == [text |-> [f \in Field |-> t], createdAt |-> 2, lastUpdate |-> 0]
    <2>2. first \in Record
      BY MaxTimeAssumption DEF Record, Time, Instant
    <2>3. BSON(2) = 2 /\ BSON(0) = 0
      BY DEF BSON
    <2>4. first \in Document
      BY <2>2, <2>3 DEF Document, InBSON
    <2>5. guests \in [Guest -> Document \cup {NoRecord}]
      BY <2>1, <2>4
    <2> QED
      BY <2>5, MaxTimeAssumption DEF Init, TypeOK, Instant
  <1> QED
    BY <1>1 DEF Init, Inv, Held, FreshIds, ReadIsCurrent, ListedAreStored

\* A step that leaves the bookings alone, and what was listed.
LEMMA ListsUnchanged ==
  ASSUME ListedAreStored, UNCHANGED <<lists, id>>
  PROVE  ListedAreStored'
  BY DEF ListedAreStored, FindByGuestId, lists

\* One lemma per call: the invariant after it.
LEMMA GetGuestStep ==
  ASSUME Inv, NEW r \in Request, GetGuest(r)
  PROVE  Inv'
  <1>1. /\ at[r] = "new"
        /\ \E p \in {"ok", "failed"} : at' = [at EXCEPT ![r] = p]
        /\ answer' \in [Request -> Record \cup {NoRecord}]
    BY DocumentIsRecord DEF GetGuest, GetById, Goto, Inv, TypeOK
  <1>2. \A q \in Request : at'[q] # at[q] => q = r /\ at'[q] \in {"ok", "failed"}
    BY <1>1 DEF Inv, TypeOK
  <1>3. TypeOK'
    BY <1>1 DEF GetGuest, lists, Inv, TypeOK
  <1>4. Held' /\ FreshIds' /\ ReadIsCurrent'
    BY <1>2 DEF GetGuest, Inv, TypeOK, Held, FreshIds, ReadIsCurrent
  <1> QED
    BY <1>3, <1>4, ListsUnchanged DEF GetGuest, Inv

LEMMA GetBookingsStep ==
  ASSUME Inv, NEW r \in Request, GetBookings(r)
  PROVE  Inv'
  <1>1. /\ at[r] = "new"
        /\ \E p \in {"listed", "failed"} : at' = [at EXCEPT ![r] = p]
        /\ \/ listed' = [listed EXCEPT ![r] = FindByGuestId(id[r])]
           \/ listed' = listed
    BY DEF GetBookings, Goto
  <1>2. \A q \in Request : at'[q] # at[q] => q = r /\ at'[q] \in {"listed", "failed"}
    BY <1>1 DEF Inv, TypeOK
  <1>3. FindByGuestId(id[r]) \subseteq Booking
    BY DEF FindByGuestId
  <1>4. TypeOK'
    BY <1>1, <1>3 DEF GetBookings, Inv, TypeOK
  <1>5. Held' /\ FreshIds' /\ ReadIsCurrent'
    BY <1>2 DEF GetBookings, Inv, TypeOK, Held, FreshIds, ReadIsCurrent
  <1>6. ListedAreStored'
    BY <1>1 DEF GetBookings, Inv, TypeOK, ListedAreStored, FindByGuestId
  <1> QED
    BY <1>4, <1>5, <1>6 DEF Inv

LEMMA StoreStep ==
  ASSUME Inv, NEW b \in Booking, Store(b)
  PROVE  Inv'
  <1>1. TypeOK' /\ Held' /\ FreshIds' /\ ReadIsCurrent'
    BY DEF Store, Inv, TypeOK, Held, FreshIds, ReadIsCurrent
  <1>2. ListedAreStored'
    BY DEF Store, Inv, TypeOK, ListedAreStored, FindByGuestId
  <1> QED
    BY <1>1, <1>2 DEF Inv

LEMMA AddGuestStep ==
  ASSUME Inv, NEW r \in Request, NEW text \in [Field -> Text], AddGuest(r, text)
  PROVE  Inv'
  <1>1. [text |-> text, createdAt |-> now, lastUpdate |-> 0] \in Record
    BY MaxTimeAssumption DEF Inv, TypeOK, Record, Time, Instant
  <1>2. /\ at' = [at EXCEPT ![r] = "insert"] /\ at[r] = "new"
        /\ body' \in [Request -> Record \cup {NoRecord}]
        /\ body'[r] \in Record
        /\ \A q \in Request \ {r} : body'[q] = body[q]
    BY <1>1 DEF AddGuest, Goto, Inv, TypeOK
  <1>3. TypeOK'
    BY <1>2 DEF AddGuest, lists, Inv, TypeOK
  <1>4. Held'
    BY <1>2 DEF AddGuest, Inv, TypeOK, Held
  <1>5. FreshIds'
    BY <1>2 DEF AddGuest, Inv, TypeOK, FreshIds
  <1>6. ReadIsCurrent'
    BY <1>2 DEF AddGuest, Inv, TypeOK, ReadIsCurrent
  <1> QED
    BY <1>3, <1>4, <1>5, <1>6, ListsUnchanged DEF AddGuest, Inv

LEMMA UpdateGuestStep ==
  ASSUME Inv, NEW r \in Request, NEW text \in [Field -> Text], NEW createdAt \in {0} \cup (2..now),
         UpdateGuest(r, text, createdAt)
  PROVE  Inv'
  <1>1. [text |-> text, createdAt |-> IF createdAt = 0 THEN now ELSE createdAt,
         lastUpdate |-> now] \in Record
    BY MaxTimeAssumption DEF Inv, TypeOK, Record, Time, Instant
  <1>2. /\ at' = [at EXCEPT ![r] = "find"] /\ at[r] = "new"
        /\ body' \in [Request -> Record \cup {NoRecord}]
        /\ body'[r] \in Record
        /\ \A q \in Request \ {r} : body'[q] = body[q]
    BY <1>1 DEF UpdateGuest, Goto, Inv, TypeOK
  <1>3. TypeOK'
    BY <1>2 DEF UpdateGuest, lists, Inv, TypeOK
  <1>4. Held'
    BY <1>2 DEF UpdateGuest, Inv, TypeOK, Held
  <1>5. FreshIds'
    BY <1>2 DEF UpdateGuest, Inv, TypeOK, FreshIds
  <1>6. ReadIsCurrent'
    BY <1>2 DEF UpdateGuest, Inv, TypeOK, ReadIsCurrent
  <1> QED
    BY <1>3, <1>4, <1>5, <1>6, ListsUnchanged DEF UpdateGuest, Inv

LEMMA RefuseStep ==
  ASSUME Inv, NEW r \in Request, Refuse(r)
  PROVE  Inv'
  BY ListsUnchanged DEF Refuse, Goto, lists, Inv, TypeOK, Held, FreshIds, ReadIsCurrent

LEMMA AddStep ==
  ASSUME Inv, NEW r \in Request, Add(r)
  PROVE  Inv'
  <1>1. /\ at[r] = "insert" /\ InBSON(body[r]) \in Document /\ id[r] \in Guest
        /\ \/ guests' = [guests EXCEPT ![id[r]] = InBSON(body[r])]
           \/ guests' = guests
        /\ \E p \in {"ok", "failed"} : at' = [at EXCEPT ![r] = p]
    BY InBSONTyped DEF Add, Goto, Inv, TypeOK, Held
  <1>2. TypeOK'
    BY <1>1 DEF Add, lists, Inv, TypeOK
  <1>3. \A q \in Request : at'[q] # at[q] => q = r /\ at'[q] \in {"ok", "failed"}
    BY <1>1 DEF Inv, TypeOK
  <1>4. \A q \in Request : at[q] = "set" => id[q] # id[r]
    BY <1>1, NoRecordIsNone, DocumentIsRecord DEF Inv, Held, FreshIds
  <1>5. \A g \in Guest : g # id[r] => guests'[g] = guests[g]
    BY <1>1 DEF Inv, TypeOK
  <1>6. Held'
    BY <1>1, <1>3, <1>4, <1>5 DEF Add, Inv, TypeOK, Held
  <1>7. FreshIds'
    BY <1>1, <1>3, <1>5 DEF Add, Inv, TypeOK, FreshIds
  <1>8. ReadIsCurrent'
    BY <1>1, <1>3, <1>4, <1>5 DEF Add, Inv, TypeOK, ReadIsCurrent
  <1> QED
    BY <1>2, <1>6, <1>7, <1>8, ListsUnchanged DEF Add, Inv

LEMMA FindStep ==
  ASSUME Inv, NEW r \in Request, Find(r)
  PROVE  Inv'
  <1>0. at[r] = "find" /\ id[r] \in Guest /\ body[r] \in Record
    BY DEF Find, Inv, TypeOK, Held
  <1>1. CASE /\ guests[id[r]] # NoRecord
             /\ read' = [read EXCEPT ![r] = guests[id[r]]]
             /\ at' = [at EXCEPT ![r] = "set"]
    <2>1. guests[id[r]] \in Document
      BY <1>0, <1>1 DEF Inv, TypeOK
    <2>2. TypeOK'
      BY <1>0, <1>1, <2>1 DEF Find, lists, Inv, TypeOK
    <2>3. Held'
      BY <1>0, <1>1, <2>1 DEF Find, Inv, TypeOK, Held
    <2>4. FreshIds'
      BY <1>0, <1>1 DEF Find, Inv, TypeOK, FreshIds
    <2>5. ReadIsCurrent'
      BY <1>0, <1>1 DEF Find, Inv, TypeOK, ReadIsCurrent
    <2> QED
      BY <2>2, <2>3, <2>4, <2>5, ListsUnchanged DEF Find, Inv
  <1>2. CASE at' = [at EXCEPT ![r] = "failed"] /\ UNCHANGED read
    BY <1>0, <1>2, ListsUnchanged
    DEF Find, lists, Inv, TypeOK, Held, FreshIds, ReadIsCurrent
  <1> QED
    BY <1>1, <1>2 DEF Find, Goto

LEMMA SetStep ==
  ASSUME Inv, NEW r \in Request, Set(r)
  PROVE  Inv'
  <1> DEFINE g == id[r]
             merged == Merged(body[r], read[r], guests[g])
  <1>1. at[r] = "set" /\ g \in Guest /\ merged \in Document
    BY MergedTyped, DocumentIsRecord DEF Set, Inv, TypeOK, Held
  <1>2. \E p \in {"ok", "failed"} : at' = [at EXCEPT ![r] = p]
    BY DEF Set, Goto
  <1>3. \A q \in Request : at'[q] # at[q] => q = r /\ at'[q] \in {"ok", "failed"}
    BY <1>2 DEF Inv, TypeOK
  <1>4. answer' \in [Request -> Record \cup {NoRecord}]
    BY <1>1 DEF Set, Inv, TypeOK, Held
  <1>5. CASE /\ guests' = [guests EXCEPT ![g] = merged]
             /\ overtaken' = [q \in Request |->
                                 overtaken[q] \/ (q # r /\ at[q] = "set" /\ id[q] = g)]
    <2>1. TypeOK'
      <3>1. guests' \in [Guest -> Document \cup {NoRecord}]
        BY <1>1, <1>5 DEF Inv, TypeOK
      <3>2. /\ at' \in [Request -> {"new", "insert", "find", "set", "ok", "listed", "failed"}]
            /\ overtaken' \in [Request -> BOOLEAN]
        BY <1>2, <1>5 DEF Inv, TypeOK
      <3>3. UNCHANGED <<now, id, body, read, lists>>
        BY DEF Set
      <3> QED
        BY <1>4, <3>1, <3>2, <3>3 DEF lists, Inv, TypeOK
    <2>2. /\ guests'[g] \in Document
          /\ \A h \in Guest \ {g} : guests'[h] = guests[h]
      BY <1>1, <1>5 DEF Inv, TypeOK
    <2>3. Held'
      BY <1>1, <1>3, <2>2 DEF Set, Inv, TypeOK, Held
    <2>4. FreshIds'
      <3>1. guests[g] \in Record
        BY <1>1, DocumentIsRecord DEF Inv, Held
      <3>2. \A q \in Request : at[q] = "insert" => id[q] # g
        BY <3>1, NoRecordIsNone DEF Inv, FreshIds
      <3> QED
        BY <1>1, <1>3, <2>2, <3>2 DEF Set, Inv, TypeOK, FreshIds
    <2>5. ReadIsCurrent'
      <3> SUFFICES ASSUME NEW q \in Request, at'[q] = "set", ~overtaken'[q]
                   PROVE  guests'[id'[q]] = read'[q]
        BY DEF ReadIsCurrent
      <3>1. q # r /\ at[q] = "set"
        BY <1>1, <1>2, <1>3 DEF Inv, TypeOK
      <3>2. ~overtaken[q] /\ id[q] # g
        <4>1. overtaken'[q] = (overtaken[q] \/ (q # r /\ at[q] = "set" /\ id[q] = g))
          BY <1>5
        <4> QED
          BY <3>1, <4>1
      <3> QED
        BY <1>1, <2>2, <3>1, <3>2 DEF Set, Inv, TypeOK, ReadIsCurrent
    <2> QED
      BY <2>1, <2>3, <2>4, <2>5, ListsUnchanged DEF Set, Inv
  <1>6. CASE UNCHANGED <<guests, overtaken>>
    <2>1. TypeOK'
      BY <1>2, <1>4, <1>6 DEF Set, lists, Inv, TypeOK
    <2>2. Held' /\ FreshIds' /\ ReadIsCurrent'
      BY <1>3, <1>6 DEF Set, Inv, TypeOK, Held, FreshIds, ReadIsCurrent
    <2> QED
      BY <2>1, <2>2, ListsUnchanged DEF Set, Inv
  <1> QED
    BY <1>5, <1>6 DEF Set

LEMMA InvStep == Inv /\ [Next]_vars => Inv'
  <1> SUFFICES ASSUME Inv, [Next]_vars PROVE Inv'
    OBVIOUS
  <1>1. CASE UNCHANGED vars
    BY <1>1, ListsUnchanged DEF vars, lists, Inv, TypeOK, Held, FreshIds, ReadIsCurrent
  <1>2. CASE Tick
    BY <1>2, MaxTimeAssumption, ListsUnchanged
    DEF Tick, lists, Inv, TypeOK, Held, FreshIds, ReadIsCurrent, Instant
  <1> QED
    BY <1>1, <1>2, GetGuestStep, GetBookingsStep, AddGuestStep, UpdateGuestStep, RefuseStep,
       AddStep, FindStep, SetStep, StoreStep DEF Next

LEMMA InvAlways == Spec => []Inv
  BY InvInit, InvStep, PTL DEF Spec

\* The types of the records and of what handlers hold, in every state.
THEOREM RecordsTyped == Spec => []TypeOK
  BY InvAlways, PTL DEF Inv

-----------------------------------------------------------------------------
\* Only Add and Set write the collection.
LEMMA RecordWrites ==
  ASSUME Inv, [Next]_vars, guests' # guests
  PROVE  \E r \in Request :
           \/ at[r] = "insert" /\ guests' = [guests EXCEPT ![id[r]] = InBSON(body[r])]
           \/ /\ at[r] = "set"
              /\ guests' = [guests EXCEPT ![id[r]] = Merged(body[r], read[r], guests[id[r]])]
  <1>1. [Next]_vars => \/ UNCHANGED guests
                       \/ \E r \in Request : Add(r) \/ Set(r)
    BY DEF Next, vars, Tick, Store, GetGuest, GetBookings, AddGuest, UpdateGuest, Refuse, Find
  <1>2. PICK r \in Request : Add(r) \/ Set(r)
    BY <1>1
  <1> QED
    BY <1>2 DEF Add, Set

LEMMA UntouchedStep ==
  ASSUME Inv, [Next]_vars, NEW g \in Guest, NEW f \in Field,
         guests[g] # NoRecord, guests'[g].text[f] # guests[g].text[f]
  PROVE  \E r \in Request : /\ at[r] = "set" /\ id[r] = g
                            /\ guests'[g].text[f] = body[r].text[f]
                            /\ guests'[g].text[f] # read[r].text[f]
  <1>1. PICK r \in Request :
           \/ at[r] = "insert" /\ guests' = [guests EXCEPT ![id[r]] = InBSON(body[r])]
           \/ /\ at[r] = "set"
              /\ guests' = [guests EXCEPT ![id[r]] = Merged(body[r], read[r], guests[id[r]])]
    BY RecordWrites
  <1>2. id[r] = g
    BY <1>1 DEF Inv, TypeOK
  <1>3. at[r] = "set" /\ guests'[g] = Merged(body[r], read[r], guests[g])
    BY <1>1, <1>2 DEF Inv, TypeOK, FreshIds
  <1>4. guests'[g].text[f] = Changed(body[r].text[f], read[r].text[f], guests[g].text[f])
    <2>1. guests'[g].text =
            [e \in Field |-> Changed(body[r].text[e], read[r].text[e], guests[g].text[e])]
      BY <1>3 DEF Merged, InBSON
    <2> QED
      BY <2>1
  <1> QED
    BY <1>2, <1>3, <1>4 DEF Changed

\* Updates of different fields never undo each other, however they overlap.
THEOREM UntouchedSurvives == Spec => UntouchedFieldsSurvive
  <1>1. Inv /\ [Next]_vars =>
          [\A g \in Guest, f \in Field :
             LET old == guests[g]
                 new == guests'[g] IN
             old # NoRecord /\ new.text[f] # old.text[f] =>
                 \E r \in Request :
                     /\ at[r] = "set" /\ id[r] = g
                     /\ new.text[f] = body[r].text[f]
                     /\ new.text[f] # read[r].text[f]]_vars
    BY UntouchedStep
  <1> QED
    BY <1>1, InvAlways, PTL DEF Spec, UntouchedFieldsSurvive

LEMMA AnswerStep ==
  ASSUME Inv, [Next]_vars, NEW r \in Request,
         at[r] = "set", at'[r] = "ok", ~overtaken[r]
  PROVE  guests'[id[r]] = InBSON(answer'[r])
  <1>1. Set(r)
    BY DEF Next, vars, Inv, TypeOK, Tick, Store, GetGuest, GetBookings, AddGuest,
           UpdateGuest, Refuse, Add, Find, Set, Goto
  <1>2. /\ guests' = [guests EXCEPT ![id[r]] = Merged(body[r], read[r], guests[id[r]])]
        /\ answer' = [answer EXCEPT ![r] = body[r]]
    BY <1>1 DEF Set, Goto, Inv, TypeOK
  <1>3. guests[id[r]] = read[r] /\ body[r] \in Record /\ read[r] \in Record
    BY DocumentIsRecord DEF Inv, Held, ReadIsCurrent
  <1> QED
    BY <1>2, <1>3, MergedAlone DEF Inv, TypeOK

\* An update nobody overtook is stored as it was answered, cut to the millisecond.
THEOREM AnswerStored == Spec => AnswerIsStored
  <1>1. Inv /\ [Next]_vars =>
          [\A r \in Request : at[r] = "set" /\ at'[r] = "ok" /\ ~overtaken[r] =>
               guests'[id[r]] = InBSON(answer'[r])]_vars
    BY AnswerStep
  <1> QED
    BY <1>1, InvAlways, PTL DEF Spec, AnswerIsStored

-----------------------------------------------------------------------------
LEMMA ListStep ==
  ASSUME Inv, [Next]_vars, NEW r \in Request, NEW q \in Request,
         at[r] = "new", at'[r] = "listed", id[q] = id[r]
  PROVE  listed[q] \subseteq listed'[r]
  <1>1. PICK p \in Request : GetBookings(p)
    BY DEF Next, vars, Inv, TypeOK, Tick, Store, GetGuest, AddGuest, UpdateGuest, Refuse,
           Add, Find, Set, Goto
  <1>2. p = r /\ listed'[r] = FindByGuestId(id[r])
    BY <1>1 DEF GetBookings, Goto, Inv, TypeOK
  <1> QED
    BY <1>2 DEF Inv, ListedAreStored

\* No booking drops out of a guest's lists.
THEOREM ListsOnlyGrow == Spec => ListsGrow
  <1>1. Inv /\ [Next]_vars =>
          [\A r, q \in Request :
             at[r] = "new" /\ at'[r] = "listed" /\ id[q] = id[r] =>
                 listed[q] \subseteq listed'[r]]_vars
    BY ListStep
  <1> QED
    BY <1>1, InvAlways, PTL DEF Spec, ListsGrow
=============================================================================
