---------------------------- MODULE CampusProofs ----------------------------
(***************************************************************************)
(* Proofs about Campus for any number of workers and rows.  Each component *)
(* has an inductive invariant of its own; the last section puts them       *)
(* together, since the components write none of each other's variables.    *)
(***************************************************************************)
EXTENDS Campus, FiniteSetTheorems, SequenceTheorems, TLAPS

\* Each worker has a request of its own.
Workers == session = [s \in Sessions |-> session[s]]

LEMMA ItemOfSeq ==
  ASSUME NEW S, NEW seq \in Seq(S), NEW i \in DOMAIN seq
  PROVE  seq[i] \in S
BY ElementOfSeq, LenProperties
-----------------------------------------------------------------------------
\* Bookings.  A request that has read a booking holds a row of it, a
\* cancellation an open one.
BookingSession(s) ==
  session[s].step \in {"updating", "cancelling"} =>
    /\ session[s].booking \in DOMAIN bookings
    /\ session[s].loaded \in Booking!Rows
    /\ session[s].new \in Booking!Rows
    /\ session[s].step = "cancelling" => Booking!MayCancel(session[s].loaded)

BookingInv ==
  /\ Workers
  /\ bookings \in Seq(Booking!Rows)
  /\ last \in [Booking!Ids -> Booking!Rows]
  /\ \A b \in Booking!Ids \ DOMAIN bookings : last[b] = Booking!NewBooking
  /\ \A s \in Sessions : BookingSession(s)
  /\ LastRequestShows

LEMMA BookingRows ==
  /\ Booking!NewBooking \in Booking!Rows
  /\ \A row \in Booking!Rows, status \in Asked \cup {"cancelled"}, v \in Vendors \cup {NoVendor} :
       Booking!Changed(row, status, v) \in Booking!Rows
  /\ \A row, loaded, new \in Booking!Rows :
       /\ Booking!Written(row, loaded, new) \in Booking!Rows
       /\ row = loaded => Booking!Written(row, loaded, new) = new
<1>1. Booking!NewBooking \in Booking!Rows
  BY DEF Booking!NewBooking, Booking!Rows, Booking!BookingStatus
<1>2. \A row \in Booking!Rows, status \in Asked \cup {"cancelled"}, v \in Vendors \cup {NoVendor} :
       Booking!Changed(row, status, v) \in Booking!Rows
  BY CampusAssumption DEF Booking!Changed, Booking!Rows, Booking!BookingStatus
<1>3. ASSUME NEW row \in Booking!Rows, NEW loaded \in Booking!Rows, NEW new \in Booking!Rows
      PROVE  /\ Booking!Written(row, loaded, new) \in Booking!Rows
             /\ row = loaded => Booking!Written(row, loaded, new) = new
  BY <1>3 DEF Booking!Written, Booking!Rows
<1> QED BY <1>1, <1>2, <1>3

LEMMA BookingStart == Init => BookingInv
<1> SUFFICES ASSUME Init PROVE BookingInv
  OBVIOUS
<1>1. Workers /\ \A s \in Sessions : session[s].step = "idle"
  BY DEF Init, Workers, IdleSession
<1>2. bookings = << >> /\ bookings \in Seq(Booking!Rows) /\ DOMAIN bookings = {}
  BY DEF Init
<1>3. last = [b \in Booking!Ids |-> Booking!NewBooking]
  BY DEF Init, Booking!Ids
<1> QED
  BY <1>1, <1>2, <1>3, BookingRows DEF BookingInv, BookingSession, LastRequestShows,
     Booking!LastRequestShows

LEMMA BookingRead ==
  ASSUME BookingInv, NEW s \in Sessions, NEW b \in DOMAIN bookings,
         NEW step \in {"updating", "cancelling"}, NEW new \in Booking!Rows,
         step = "cancelling" => Booking!MayCancel(bookings[b]),
         Booking!Load(s, step, b, new)
  PROVE  BookingInv'
<1>1. /\ session' = [session EXCEPT ![s] = [step |-> step, booking |-> b,
                                           loaded |-> bookings[b], new |-> new]]
      /\ UNCHANGED <<bookings, last, mixed>>
  BY DEF Booking!Load, Booking!Become
<1>2. Workers' /\ BookingSession(s)'
  BY <1>1 DEF BookingInv, Workers, BookingSession, Booking!MayCancel
<1>3. ASSUME NEW t \in Sessions \ {s} PROVE BookingSession(t)'
  BY <1>1, <1>3 DEF BookingInv, Workers, BookingSession, Booking!MayCancel
<1> QED
  BY <1>1, <1>2, <1>3 DEF BookingInv, LastRequestShows, Booking!LastRequestShows, Booking!Ids

\* A worker that is done, or that only inserts, disturbs nobody.
LEMMA BookingLeave ==
  ASSUME BookingInv, NEW s \in Sessions, NEW request,
         request.step \notin {"updating", "cancelling"},
         session' = [session EXCEPT ![s] = request],
         UNCHANGED <<bookings, last, mixed>>
  PROVE  BookingInv'
<1>1. Workers' /\ \A t \in Sessions : BookingSession(t)'
  BY DEF BookingInv, Workers, BookingSession, Booking!MayCancel
<1> QED
  BY <1>1 DEF BookingInv, LastRequestShows, Booking!LastRequestShows, Booking!Ids

LEMMA BookingCreate ==
  ASSUME BookingInv, NEW s \in Sessions, Booking!CreateCommit(s)
  PROVE  BookingInv'
<1> USE DEF BookingInv, Booking!CreateCommit, Booking!Become
<1>1. /\ bookings' \in Seq(Booking!Rows)
      /\ DOMAIN bookings' = DOMAIN bookings \cup {Len(bookings) + 1}
      /\ bookings'[Len(bookings) + 1] = Booking!NewBooking
      /\ \A b \in DOMAIN bookings : bookings'[b] = bookings[b]
      /\ Len(bookings) + 1 \in Booking!Ids \ DOMAIN bookings
  <2>1. Len(bookings) \in Nat /\ Len(bookings) < MaxBookings /\ MaxBookings \in Nat
        /\ DOMAIN bookings = 1 .. Len(bookings)
    BY CampusAssumption, LenProperties
  <2>2. bookings' = Append(bookings, Booking!NewBooking)
    OBVIOUS
  <2>3. /\ bookings' \in Seq(Booking!Rows)
        /\ Len(bookings') = Len(bookings) + 1
        /\ bookings'[Len(bookings) + 1] = Booking!NewBooking
        /\ \A b \in 1 .. Len(bookings) : bookings'[b] = bookings[b]
    BY <2>2, BookingRows, AppendProperties
  <2> QED BY <2>1, <2>3, LenProperties DEF Booking!Ids
<1>2. Workers' /\ \A t \in Sessions : BookingSession(t)'
  BY <1>1 DEF Workers, BookingSession, Booking!Idle, Booking!MayCancel
<1>3. /\ \A b \in Booking!Ids \ DOMAIN bookings' : last'[b] = Booking!NewBooking
      /\ LastRequestShows'
  BY <1>1 DEF LastRequestShows, Booking!LastRequestShows, Booking!Ids
<1> QED BY <1>1, <1>2, <1>3

LEMMA BookingWrite ==
  ASSUME BookingInv, NEW s \in Sessions, Booking!Commit(s)
  PROVE  BookingInv'
<1> DEFINE b == session[s].booking
           new == session[s].new
           row == Booking!Written(bookings[b], session[s].loaded, new)
<1>1. /\ b \in DOMAIN bookings /\ session[s].loaded \in Booking!Rows /\ new \in Booking!Rows
  BY DEF BookingInv, BookingSession, Booking!Commit
<1>2. row \in Booking!Rows /\ (session[s].loaded = bookings[b] => row = new)
  BY <1>1, BookingRows DEF BookingInv
<1>3. /\ bookings' = [bookings EXCEPT ![b] = row]
      /\ last' = [last EXCEPT ![b] = new]
      /\ mixed' = IF session[s].loaded = bookings[b] THEN mixed \ {b} ELSE mixed \cup {b}
      /\ session' = [session EXCEPT ![s] = Booking!Idle]
  BY DEF Booking!Commit, Booking!Become
<1> HIDE DEF b, new, row
<1>4. /\ bookings' \in Seq(Booking!Rows) /\ DOMAIN bookings' = DOMAIN bookings
      /\ last' \in [Booking!Ids -> Booking!Rows]
      /\ \A c \in Booking!Ids \ DOMAIN bookings' : last'[c] = Booking!NewBooking
  <2>1. bookings' \in Seq(Booking!Rows) /\ DOMAIN bookings' = DOMAIN bookings
    BY <1>1, <1>2, <1>3, ExceptSeq DEF BookingInv
  <2>2. last' \in [Booking!Ids -> Booking!Rows]
    BY <1>1, <1>3 DEF BookingInv
  <2>3. \A c \in Booking!Ids \ DOMAIN bookings' : last'[c] = Booking!NewBooking
    BY <2>1, <1>1, <1>3 DEF BookingInv
  <2> QED BY <2>1, <2>2, <2>3
<1>5. LastRequestShows'
  <2> SUFFICES ASSUME NEW c \in DOMAIN bookings' PROVE bookings'[c] = last'[c] \/ c \in mixed'
    BY DEF LastRequestShows, Booking!LastRequestShows
  <2>1. CASE c = b
    BY <2>1, <1>1, <1>2, <1>3, <1>4 DEF BookingInv
  <2>2. CASE c # b
    BY <2>2, <1>3, <1>4 DEF BookingInv, LastRequestShows, Booking!LastRequestShows
  <2> QED BY <2>1, <2>2
<1>6. Workers' /\ BookingSession(s)'
  BY <1>3 DEF BookingInv, Workers, BookingSession, Booking!Idle
<1>7. ASSUME NEW t \in Sessions \ {s} PROVE BookingSession(t)'
  <2>1. session'[t] = session[t] /\ BookingSession(t)
    BY <1>3, <1>7 DEF BookingInv, Workers
  <2> QED BY <2>1, <1>4 DEF BookingSession, Booking!MayCancel
<1> QED BY <1>4, <1>5, <1>6, <1>7 DEF BookingInv

LEMMA BookingStep ==
  ASSUME BookingInv, Booking!Next
  PROVE  BookingInv'
<1> SUFFICES ASSUME NEW s \in Sessions,
       \/ Booking!CreateBegin(s)
       \/ Booking!CreateCommit(s)
       \/ \E b \in Booking!Ids, status \in Asked, vendor \in Vendors \cup {NoVendor} :
            Booking!UpdateLoad(s, b, status, vendor)
       \/ \E b \in Booking!Ids : Booking!CancelLoad(s, b)
       \/ Booking!Commit(s)
       \/ Booking!Die(s)
     PROVE BookingInv'
  BY DEF Booking!Next
<1>1. CASE Booking!CreateBegin(s)
  BY <1>1, BookingLeave DEF Booking!CreateBegin, Booking!Become
<1>2. CASE Booking!Die(s)
  BY <1>2, BookingLeave DEF Booking!Die, Booking!Become, Booking!Idle
<1>3. ASSUME NEW b \in Booking!Ids, NEW status \in Asked, NEW vendor \in Vendors \cup {NoVendor},
             Booking!UpdateLoad(s, b, status, vendor)
      PROVE  BookingInv'
  <2>1. b \in DOMAIN bookings /\ bookings[b] \in Booking!Rows
    BY <1>3 DEF Booking!UpdateLoad, BookingInv
  <2>2. Booking!Changed(bookings[b], status, vendor) \in Booking!Rows
    BY <2>1, BookingRows
  <2> QED BY <1>3, <2>1, <2>2, BookingRead DEF Booking!UpdateLoad
<1>4. ASSUME NEW b \in Booking!Ids, Booking!CancelLoad(s, b)
      PROVE  BookingInv'
  <2>1. b \in DOMAIN bookings /\ bookings[b] \in Booking!Rows
    BY <1>4 DEF Booking!CancelLoad, BookingInv
  <2>2. Booking!Changed(bookings[b], "cancelled", NoVendor) \in Booking!Rows
    BY <2>1, BookingRows
  <2> QED BY <1>4, <2>1, <2>2, BookingRead DEF Booking!CancelLoad
<1> QED BY <1>1, <1>2, <1>3, <1>4, BookingCreate, BookingWrite

\* Only a commit cancels, and the one of cancel_booking holds what it had read
\* as open.
LEMMA BookingCancels ==
  ASSUME BookingInv, Booking!Next, NEW b \in DOMAIN bookings,
         bookings[b].status = "completed", bookings'[b].status = "cancelled"
  PROVE  \E s \in Sessions :
           /\ session[s].step \in {"updating", "cancelling"}
           /\ session[s].booking = b
           /\ session'[s] = Booking!Idle
           /\ \/ session[s].step = "updating" /\ session[s].new.status = "cancelled"
              \/ session[s].step = "cancelling" /\ session[s].loaded.status # "completed"
<1>1. \A s \in Sessions : ~Booking!CreateCommit(s)
  <2> SUFFICES ASSUME NEW s \in Sessions, Booking!CreateCommit(s) PROVE FALSE
    OBVIOUS
  <2>1. bookings' = Append(bookings, Booking!NewBooking)
    BY DEF Booking!CreateCommit
  <2>2. bookings'[b] = bookings[b]
    BY <2>1, BookingRows, AppendProperties, LenProperties DEF BookingInv
  <2> QED BY <2>2
<1>2. bookings' # bookings
  OBVIOUS
<1>3. PICK s \in Sessions : Booking!Commit(s)
  BY <1>1, <1>2 DEF Booking!Next, Booking!CreateBegin, Booking!UpdateLoad, Booking!CancelLoad,
     Booking!Load, Booking!Die
<1>4. /\ session[s].step \in {"updating", "cancelling"}
      /\ bookings' = [bookings EXCEPT ![session[s].booking] =
                        Booking!Written(@, session[s].loaded, session[s].new)]
      /\ session'[s] = Booking!Idle
  BY <1>3 DEF Booking!Commit, Booking!Become, BookingInv, Workers
<1>5. /\ session[s].booking = b
      /\ Booking!Written(bookings[b], session[s].loaded, session[s].new).status = "cancelled"
  BY <1>4
<1>6. session[s].loaded.status # session[s].new.status /\ session[s].new.status = "cancelled"
  <2>1. bookings[b] \in Booking!Rows
    BY ItemOfSeq DEF BookingInv
  <2> QED BY <1>5, <2>1 DEF Booking!Written, Booking!Rows
<1>7. session[s].step = "cancelling" => session[s].loaded.status # "completed"
  BY <1>4 DEF BookingInv, BookingSession, Booking!MayCancel, Booking!Closed
<1> QED BY <1>4, <1>5, <1>6, <1>7
-----------------------------------------------------------------------------
\* The catalog.  A stale copy has its reason at every step; and an update holds
\* an item that was on the price list when it read it.
StaleInv == Workers /\ StaleNeedsRace

CatalogSession(s) ==
  /\ session[s].step = "adding item" => session[s].row \in Catalog!Items
  /\ session[s].step \in {"checked", "updating"} =>
       session[s] \in [step : {"checked", "updating"}, item : DOMAIN items,
                       row : {row \in Catalog!Items : row.active}, new : Catalog!Items]
  /\ session[s].step = "removing" => session[s].item \in DOMAIN items

CatalogInv ==
  /\ Workers
  /\ items \in Seq(Catalog!Items)
  /\ \A s \in Sessions : CatalogSession(s)

\* A step that leaves the price list and its copy alone.
LEMMA StaleQuiet ==
  ASSUME StaleInv, NEW s \in Sessions, NEW request, session[s].step # "committed",
         session' = [session EXCEPT ![s] = request],
         UNCHANGED <<categories, items, cached, outdated>>
  PROVE  StaleInv'
BY DEF StaleInv, Workers, StaleNeedsRace, Catalog!StaleNeedsRace, Catalog!Catalog

\* A change owes the copy an invalidation.
LEMMA StaleChange ==
  ASSUME StaleInv, NEW s \in Sessions, Catalog!AfterChange(s)
  PROVE  StaleInv'
BY DEF StaleInv, Workers, StaleNeedsRace, Catalog!StaleNeedsRace, Catalog!AfterChange,
       Catalog!Become

LEMMA StaleStep ==
  ASSUME StaleInv, Catalog!Next
  PROVE  StaleInv'
<1> USE DEF Catalog!Become, Catalog!Idle
<1>1. ASSUME NEW s \in Sessions,
        \/ \E name \in CategoryNames : Catalog!AddCategoryCheck(s, name)
        \/ \E category \in CategoryNames, name \in ItemNames, price \in Prices :
             Catalog!AddItemCheck(s, category, name, price)
        \/ \E i \in 1 .. MaxItems, new \in Catalog!Items : Catalog!UpdateCheck(s, i, new)
        \/ \E i \in 1 .. MaxItems : Catalog!RemoveLoad(s, i)
        \/ Catalog!Miss(s) \/ Catalog!Read(s)
      PROVE  StaleInv'
  <2>1. /\ UNCHANGED <<categories, items, cached, outdated>>
        /\ \E request : session' = [session EXCEPT ![s] = request]
    BY <1>1 DEF Catalog!AddCategoryCheck, Catalog!AddItemCheck, Catalog!UpdateCheck,
       Catalog!RemoveLoad, Catalog!Miss, Catalog!Read
  <2>2. session[s] = Catalog!Idle \/ session[s].step = "missed"
    BY <1>1 DEF Catalog!AddCategoryCheck, Catalog!AddItemCheck, Catalog!UpdateCheck,
       Catalog!RemoveLoad, Catalog!Miss, Catalog!Read
  <2>3. session[s].step # "committed"
    BY <2>2
  <2> QED BY <2>1, <2>3, StaleQuiet
<1>2. ASSUME NEW s \in Sessions, Catalog!UpdateLoad(s) PROVE StaleInv'
  <2>1. CASE items[session[s].item].active
    <3>1. session' = [session EXCEPT ![s] = [session[s] EXCEPT !.step = "updating"]]
      BY <1>2, <2>1 DEF Catalog!UpdateLoad
    <3> QED BY <3>1, <1>2, StaleQuiet DEF Catalog!UpdateLoad
  <2>2. CASE ~items[session[s].item].active
    BY <1>2, <2>2, StaleQuiet DEF Catalog!UpdateLoad
  <2> QED BY <2>1, <2>2
<1>3. ASSUME NEW s \in Sessions, Catalog!AddCategoryCommit(s) PROVE StaleInv'
  BY <1>3, StaleQuiet, StaleChange DEF Catalog!AddCategoryCommit, Catalog!Refuse
<1>4. ASSUME NEW s \in Sessions, Catalog!AddItemCommit(s) PROVE StaleInv'
  BY <1>4, StaleQuiet, StaleChange DEF Catalog!AddItemCommit, Catalog!Refuse
<1>5. ASSUME NEW s \in Sessions, Catalog!UpdateCommit(s) PROVE StaleInv'
  BY <1>5, StaleQuiet, StaleChange DEF Catalog!UpdateCommit, Catalog!Refuse
<1>6. ASSUME NEW s \in Sessions, Catalog!RemoveCommit(s) PROVE StaleInv'
  BY <1>6, StaleChange DEF Catalog!RemoveCommit
<1>7. ASSUME NEW s \in Sessions, Catalog!Invalidate(s) \/ Catalog!Fill(s) PROVE StaleInv'
  <2>1. Workers'
    BY <1>7 DEF Catalog!Invalidate, Catalog!Fill, StaleInv, Workers
  <2>2. CASE Catalog!Invalidate(s)
    BY <2>1, <2>2 DEF Catalog!Invalidate, StaleInv, StaleNeedsRace, Catalog!StaleNeedsRace
  <2>3. CASE Catalog!Fill(s)
    <3>1. /\ cached'.catalog = session[s].catalog
          /\ outdated' = (session[s].catalog # Catalog!Catalog)
          /\ Catalog!Catalog' = Catalog!Catalog
      BY <2>3 DEF Catalog!Fill, Catalog!SetEx, Catalog!Catalog
    <3> QED BY <2>1, <3>1 DEF StaleInv, StaleNeedsRace, Catalog!StaleNeedsRace
  <2> QED BY <1>7, <2>2, <2>3
<1>8. ASSUME NEW s \in Sessions, Catalog!Die(s) PROVE StaleInv'
  BY <1>8 DEF Catalog!Die, StaleInv, Workers, StaleNeedsRace,
     Catalog!StaleNeedsRace, Catalog!Catalog
<1>9. CASE Catalog!Expire
  BY <1>9 DEF Catalog!Expire, StaleInv, Workers, StaleNeedsRace, Catalog!StaleNeedsRace
<1> QED BY <1>1, <1>2, <1>3, <1>4, <1>5, <1>6, <1>7, <1>8, <1>9 DEF Catalog!Next

LEMMA ItemRows ==
  \A row, loaded, new \in Catalog!Items :
    /\ Catalog!Written(row, loaded, new) \in Catalog!Items
    /\ loaded.active /\ ~row.active => ~Catalog!Written(row, loaded, new).active
BY DEF Catalog!Written, Catalog!Items

\* A step of one worker that leaves the items alone.
LEMMA CatalogQuiet ==
  ASSUME CatalogInv, NEW s \in Sessions, NEW request,
         session' = [session EXCEPT ![s] = request], UNCHANGED items,
         CatalogSession(s)'
  PROVE  CatalogInv'
BY DEF CatalogInv, Workers, CatalogSession

\* One that changes them, keeping the rows there are.
LEMMA CatalogChange ==
  ASSUME CatalogInv, NEW s \in Sessions, Catalog!AfterChange(s),
         items' \in Seq(Catalog!Items), DOMAIN items \subseteq DOMAIN items'
  PROVE  CatalogInv'
BY DEF CatalogInv, Workers, CatalogSession, Catalog!AfterChange, Catalog!Become

\* A removed item stays so, and its row is kept but by an update that had read it
\* before.
KeptRemoved ==
  \A i \in DOMAIN items : ~items[i].active =>
    /\ ~items'[i].active
    /\ \/ items'[i] = items[i]
       \/ \E s \in Sessions :
            /\ session[s].step = "updating"
            /\ session[s].item = i
            /\ session[s].row.active
            /\ session'[s].step = "committed"

\* What a change does to the items: it appends an active one, or writes one
\* row, which stays inactive if it was.
LEMMA CatalogWrites ==
  ASSUME CatalogInv, NEW s \in Sessions,
         \/ Catalog!AddItemCommit(s) \/ Catalog!UpdateCommit(s) \/ Catalog!RemoveCommit(s)
  PROVE  /\ CatalogInv'
         /\ KeptRemoved
<1> USE DEF Catalog!Become, Catalog!Idle, Catalog!Refuse
<1>0. ASSUME session' = [session EXCEPT ![s] = Catalog!Idle], UNCHANGED items
      PROVE  CatalogInv' /\ KeptRemoved
  <2>1. CatalogSession(s)'
    BY <1>0 DEF CatalogSession, CatalogInv, Workers
  <2> QED BY <2>1, <1>0, CatalogQuiet DEF KeptRemoved
<1>1. CASE Catalog!AddItemCommit(s)
  <2>1. session[s].row \in Catalog!Items
    BY <1>1 DEF CatalogInv, CatalogSession, Catalog!AddItemCommit
  <2>2. CASE items' = Append(items, session[s].row) /\ Catalog!AfterChange(s)
    <3>1. /\ items' \in Seq(Catalog!Items) /\ DOMAIN items \subseteq DOMAIN items'
          /\ \A i \in DOMAIN items : items'[i] = items[i]
      BY <2>1, <2>2, AppendProperties, LenProperties DEF CatalogInv
    <3> QED BY <3>1, <2>2, CatalogChange DEF KeptRemoved
  <2> QED BY <1>0, <1>1, <2>2 DEF Catalog!AddItemCommit
<1>2. ASSUME NEW i \in DOMAIN items, NEW row \in Catalog!Items, ~items[i].active => ~row.active,
             \/ row = items[i] \/ items[i].active
             \/ session[s].step = "updating" /\ session[s].item = i /\ session[s].row.active,
             items' = [items EXCEPT ![i] = row], Catalog!AfterChange(s)
      PROVE  CatalogInv' /\ KeptRemoved
  <2>1. /\ items' \in Seq(Catalog!Items) /\ DOMAIN items = DOMAIN items'
        /\ \A j \in DOMAIN items : items'[j] = IF j = i THEN row ELSE items[j]
    BY <1>2, ExceptSeq, LenProperties DEF CatalogInv
  <2>2. session'[s].step = "committed"
    BY <1>2 DEF CatalogInv, Workers, Catalog!AfterChange
  <2> QED BY <2>1, <2>2, <1>2, CatalogChange DEF KeptRemoved
<1>3. CASE Catalog!UpdateCommit(s)
  <2> DEFINE i == session[s].item
             row == Catalog!Written(items[i], session[s].row, session[s].new)
  <2>1. /\ i \in DOMAIN items
        /\ session[s].row \in Catalog!Items /\ session[s].row.active
        /\ session[s].new \in Catalog!Items /\ session[s].step = "updating"
    BY <1>3 DEF CatalogInv, CatalogSession, Catalog!UpdateCommit
  <2>2. row \in Catalog!Items /\ (~items[i].active => ~row.active)
    BY <2>1, ItemOfSeq, ItemRows DEF CatalogInv
  <2>3. \/ items' = [items EXCEPT ![i] = row] /\ Catalog!AfterChange(s)
        \/ UNCHANGED items /\ session' = [session EXCEPT ![s] = Catalog!Idle]
    BY <1>3 DEF Catalog!UpdateCommit
  <2>4. session[s].item = i
    OBVIOUS
  <2> HIDE DEF i, row
  <2> QED BY <1>0, <1>2, <2>1, <2>2, <2>3, <2>4
<1>4. CASE Catalog!RemoveCommit(s)
  <2> DEFINE i == session[s].item
             row == [items[i] EXCEPT !.active = FALSE]
  <2>1. i \in DOMAIN items
    BY <1>4 DEF CatalogInv, CatalogSession, Catalog!RemoveCommit
  <2>2. row \in Catalog!Items /\ ~row.active /\ (~items[i].active => row = items[i])
    <3>1. items[i] \in Catalog!Items
      BY <2>1, ItemOfSeq DEF CatalogInv
    <3> QED BY <3>1 DEF Catalog!Items
  <2>3. items' = [items EXCEPT ![i] = row] /\ Catalog!AfterChange(s)
    BY <1>4 DEF Catalog!RemoveCommit
  <2> HIDE DEF i, row
  <2> QED BY <1>2, <2>1, <2>2, <2>3
<1> QED BY <1>1, <1>3, <1>4

LEMMA CatalogStep ==
  ASSUME CatalogInv, Catalog!Next
  PROVE  /\ CatalogInv'
         /\ KeptRemoved
<1> USE DEF Catalog!Become, Catalog!Idle
<1> DEFINE Goal == CatalogInv' /\ KeptRemoved
<1>1. ASSUME NEW s \in Sessions, NEW request, UNCHANGED items,
             session' = [session EXCEPT ![s] = request],
             request.step \notin {"adding item", "checked", "updating", "removing"}
      PROVE  Goal
  <2>1. CatalogSession(s)'
    BY <1>1 DEF CatalogSession, CatalogInv, Workers
  <2> QED BY <2>1, <1>1, CatalogQuiet DEF KeptRemoved
<1>2. ASSUME NEW s \in Sessions,
        \/ \E name \in CategoryNames : Catalog!AddCategoryCheck(s, name)
        \/ Catalog!AddCategoryCommit(s) \/ Catalog!Invalidate(s)
        \/ Catalog!Miss(s) \/ Catalog!Read(s) \/ Catalog!Fill(s) \/ Catalog!Die(s)
      PROVE  Goal
  <2>1. UNCHANGED items
    BY <1>2 DEF Catalog!AddCategoryCheck, Catalog!AddCategoryCommit, Catalog!Invalidate,
       Catalog!Miss, Catalog!Read, Catalog!Fill, Catalog!Die, Catalog!Refuse
  <2>2. \E request : /\ session' = [session EXCEPT ![s] = request]
                     /\ request.step \notin {"adding item", "checked", "updating", "removing"}
    <3> DEFINE quiet == {Catalog!Idle, [step |-> "committed"], [step |-> "missed"],
                         [step |-> "read", catalog |-> Catalog!Catalog]}
                          \cup {[step |-> "adding category", name |-> name] : name \in CategoryNames}
    <3>1. \E request \in quiet : session' = [session EXCEPT ![s] = request]
      BY <1>2 DEF Catalog!AddCategoryCheck, Catalog!AddCategoryCommit, Catalog!Invalidate,
         Catalog!Miss, Catalog!Read, Catalog!Fill, Catalog!Die, Catalog!Refuse, Catalog!AfterChange
    <3>2. ASSUME NEW request \in quiet
          PROVE  request.step \notin {"adding item", "checked", "updating", "removing"}
      <4>1. ASSUME request = [step |-> "read", catalog |-> Catalog!Catalog]
            PROVE  request.step = "read"
        BY <4>1
      <4>2. ASSUME NEW name \in CategoryNames, request = [step |-> "adding category", name |-> name]
            PROVE  request.step = "adding category"
        BY <4>2
      <4>3. ASSUME NEW step \in {"idle", "committed", "missed"}, request = [step |-> step]
            PROVE  request.step = step
        BY <4>3
      <4>4. \/ request = [step |-> "idle"] \/ request = [step |-> "committed"]
            \/ request = [step |-> "missed"]
            \/ request = [step |-> "read", catalog |-> Catalog!Catalog]
            \/ \E name \in CategoryNames : request = [step |-> "adding category", name |-> name]
        OBVIOUS
      <4> QED BY <4>1, <4>2, <4>3, <4>4
    <3> QED BY <3>1, <3>2
  <2> QED BY <1>1, <2>1, <2>2
<1>3. ASSUME NEW s \in Sessions, NEW category \in CategoryNames, NEW name \in ItemNames,
             NEW price \in Prices, Catalog!AddItemCheck(s, category, name, price)
      PROVE  Goal
  <2> DEFINE row == [category |-> category, name |-> name, price |-> price, active |-> TRUE]
  <2>1. row \in Catalog!Items
    BY DEF Catalog!Items
  <2>2. session' = [session EXCEPT ![s] = [step |-> "adding item", row |-> row]] /\ UNCHANGED items
    BY <1>3 DEF Catalog!AddItemCheck
  <2> HIDE DEF row
  <2>3. CatalogSession(s)'
    BY <2>1, <2>2 DEF CatalogSession, CatalogInv, Workers
  <2> QED BY <2>2, <2>3, CatalogQuiet DEF KeptRemoved
<1>4. ASSUME NEW s \in Sessions, NEW i \in 1 .. MaxItems, NEW new \in Catalog!Items,
             Catalog!UpdateCheck(s, i, new)
      PROVE  Goal
  <2>1. i \in DOMAIN items /\ items[i].active /\ UNCHANGED items
    BY <1>4 DEF Catalog!UpdateCheck
  <2>2. items[i] \in Catalog!Items
    BY <2>1, ItemOfSeq DEF CatalogInv
  <2>3. session' = [session EXCEPT ![s] =
                      [step |-> "checked", item |-> i, row |-> items[i], new |-> new]]
    BY <1>4 DEF Catalog!UpdateCheck
  <2>4. CatalogSession(s)'
    BY <2>1, <2>2, <2>3 DEF CatalogSession, CatalogInv, Workers
  <2> QED BY <2>1, <2>3, <2>4, CatalogQuiet DEF KeptRemoved
<1>5. ASSUME NEW s \in Sessions, Catalog!UpdateLoad(s)
      PROVE  Goal
  <2>1. CASE session' = [session EXCEPT ![s] = Catalog!Idle]
    BY <1>1, <1>5, <2>1 DEF Catalog!UpdateLoad
  <2>2. CASE session' = [session EXCEPT ![s] = [session[s] EXCEPT !.step = "updating"]]
    <3>1. session[s] \in [step : {"checked", "updating"}, item : DOMAIN items,
                          row : {row \in Catalog!Items : row.active}, new : Catalog!Items]
      BY <1>5 DEF Catalog!UpdateLoad, CatalogInv, CatalogSession
    <3>2. session'[s] \in [step : {"checked", "updating"}, item : DOMAIN items,
                           row : {row \in Catalog!Items : row.active}, new : Catalog!Items]
          /\ session'[s].step = "updating" /\ UNCHANGED items
      BY <1>5, <2>2, <3>1 DEF Catalog!UpdateLoad, CatalogInv, Workers
    <3>3. CatalogSession(s)'
      BY <3>2 DEF CatalogSession
    <3> QED BY <1>5, <2>2, <3>3, CatalogQuiet DEF KeptRemoved, Catalog!UpdateLoad
  <2> QED BY <1>5, <2>1, <2>2 DEF Catalog!UpdateLoad
<1>6. ASSUME NEW s \in Sessions, NEW i \in 1 .. MaxItems, Catalog!RemoveLoad(s, i)
      PROVE  Goal
  <2>1. CatalogSession(s)'
    BY <1>6 DEF Catalog!RemoveLoad, CatalogSession, CatalogInv, Workers
  <2> QED BY <1>6, <2>1, CatalogQuiet DEF KeptRemoved, Catalog!RemoveLoad
<1>7. CASE Catalog!Expire
  BY <1>7 DEF Catalog!Expire, CatalogInv, Workers, CatalogSession, KeptRemoved
<1> QED BY <1>2, <1>3, <1>4, <1>5, <1>6, <1>7, CatalogWrites DEF Catalog!Next
-----------------------------------------------------------------------------
\* The waitlist.  A join that is past its check found no active entry of its
\* place, and there is none yet, unless the place is excused.
WaitingInv ==
  /\ Workers
  /\ entries \in Seq(Waiting!Entries)
  /\ \A s \in Sessions :
       /\ session[s].step = "joining" =>
            /\ <<session[s].customer, session[s].item>> \in Customers \X ServiceItems
            /\ \/ Waiting!ActiveEntries(<<session[s].customer, session[s].item>>) = {}
               \/ <<session[s].customer, session[s].item>> \in excused
       /\ session[s].step = "updating" =>
            session[s].entry \in DOMAIN entries /\ session[s].status \in Waiting!WaitlistStatus
  /\ \A place : \A d, e \in Waiting!ActiveEntries(place) : d = e \/ place \in excused

\* A step that changes no entry.
LEMMA WaitingQuiet ==
  ASSUME WaitingInv, NEW s \in Sessions, NEW request,
         session' = [session EXCEPT ![s] = request],
         request.step = "joining" =>
           /\ <<request.customer, request.item>> \in Customers \X ServiceItems
           /\ Waiting!ActiveEntries(<<request.customer, request.item>>) = {},
         request.step = "updating" =>
           request.entry \in DOMAIN entries /\ request.status \in Waiting!WaitlistStatus,
         UNCHANGED <<entries, excused>>
  PROVE  WaitingInv'
<1>1. \A place : Waiting!ActiveEntries(place)' = Waiting!ActiveEntries(place)
  BY DEF Waiting!ActiveEntries, Waiting!Place
<1>2. Workers' /\ \A t \in Sessions : session'[t] = IF t = s THEN request ELSE session[t]
  BY DEF WaitingInv, Workers
<1> QED BY <1>1, <1>2 DEF WaitingInv

\* What a commit of worker s does to the active entries of a place: nothing new
\* is active, or the place is excused, or there was none and nobody else joins.
LEMMA WaitingCommit ==
  ASSUME WaitingInv, NEW s \in Sessions, session' = [session EXCEPT ![s] = Waiting!Idle],
         entries' \in Seq(Waiting!Entries), DOMAIN entries \subseteq DOMAIN entries',
         excused \subseteq excused',
         \A place : \/ Waiting!ActiveEntries(place)' \subseteq Waiting!ActiveEntries(place)
                    \/ place \in excused'
                    \/ /\ \A d, e \in Waiting!ActiveEntries(place)' : d = e
                       /\ \A t \in Sessions \ {s} : session[t].step = "joining" =>
                            <<session[t].customer, session[t].item>> # place
  PROVE  WaitingInv'
<1>1. /\ Workers' /\ session'[s].step = "idle"
      /\ \A t \in Sessions \ {s} : session'[t] = session[t]
  BY DEF WaitingInv, Workers, Waiting!Idle
<1>2. ASSUME NEW t \in Sessions
      PROVE  /\ session'[t].step = "joining" =>
                  /\ <<session[t].customer, session[t].item>> \in Customers \X ServiceItems
                  /\ \/ Waiting!ActiveEntries(<<session[t].customer, session[t].item>>)' = {}
                     \/ <<session[t].customer, session[t].item>> \in excused'
             /\ session'[t].step = "updating" =>
                  session[t].entry \in DOMAIN entries' /\ session[t].status \in Waiting!WaitlistStatus
             /\ session'[t].step \in {"joining", "updating"} => session'[t] = session[t]
  <2> DEFINE place == <<session[t].customer, session[t].item>>
  <2>1. CASE t = s
    BY <1>1, <2>1
  <2>2. CASE t # s
    <3>1. session'[t] = session[t]
      BY <1>1, <2>2
    <3>2. session[t].step = "joining" =>
            place \in Customers \X ServiceItems
              /\ (Waiting!ActiveEntries(place) = {} \/ place \in excused)
      BY DEF WaitingInv
    <3>3. session[t].step = "updating" =>
            session[t].entry \in DOMAIN entries /\ session[t].status \in Waiting!WaitlistStatus
      BY DEF WaitingInv
    <3> HIDE DEF place
    <3>4. session[t].step = "joining" => Waiting!ActiveEntries(place)' = {} \/ place \in excused'
      BY <2>2, <3>2 DEF place
    <3> QED BY <3>1, <3>2, <3>3, <3>4 DEF place
  <2> QED BY <2>1, <2>2
<1>3. ASSUME NEW place, NEW d \in Waiting!ActiveEntries(place)',
             NEW e \in Waiting!ActiveEntries(place)'
      PROVE  d = e \/ place \in excused'
  BY DEF WaitingInv
<1> QED BY <1>1, <1>2, <1>3 DEF WaitingInv

LEMMA WaitingJoin ==
  ASSUME WaitingInv, NEW s \in Sessions, Waiting!JoinCommit(s)
  PROVE  WaitingInv'
<1> DEFINE place == <<session[s].customer, session[s].item>>
<1>1. /\ session[s].step = "joining"
      /\ session' = [session EXCEPT ![s] = Waiting!Idle]
      /\ \/ /\ entries' = Append(entries, Waiting!NewEntry(place))
            /\ excused' = IF Waiting!JoinedByAnother(s, place) THEN excused \cup {place} ELSE excused
         \/ UNCHANGED <<entries, excused>>
  BY DEF Waiting!JoinCommit, Waiting!Become
<1>2. CASE UNCHANGED <<entries, excused>>
  BY <1>1, <1>2, WaitingQuiet DEF Waiting!Idle
<1>3. CASE /\ entries' = Append(entries, Waiting!NewEntry(place))
           /\ excused' = IF Waiting!JoinedByAnother(s, place) THEN excused \cup {place} ELSE excused
  <2> DEFINE new == Len(entries) + 1
  <2>0. place \in Customers \X ServiceItems
    BY <1>1 DEF WaitingInv
  <2>1. /\ entries' \in Seq(Waiting!Entries)
        /\ DOMAIN entries' = DOMAIN entries \cup {new} /\ new \notin DOMAIN entries
        /\ entries'[new] = Waiting!NewEntry(place)
        /\ \A e \in DOMAIN entries : entries'[e] = entries[e]
    <3>1. Waiting!NewEntry(place) \in Waiting!Entries
      BY <2>0 DEF Waiting!NewEntry, Waiting!Entries, Waiting!WaitlistStatus
    <3> HIDE DEF place
    <3>2. Len(entries) \in Nat /\ DOMAIN entries = 1 .. Len(entries)
      BY LenProperties DEF WaitingInv
    <3>3. /\ entries' \in Seq(Waiting!Entries) /\ Len(entries') = Len(entries) + 1
          /\ entries'[new] = Waiting!NewEntry(place)
          /\ \A e \in 1 .. Len(entries) : entries'[e] = entries[e]
      BY <3>1, <1>3, AppendProperties DEF WaitingInv
    <3> QED BY <3>2, <3>3, LenProperties
  <2>2. Waiting!ActiveEntries(place) = {} \/ place \in excused
    BY <1>1 DEF WaitingInv
  <2>3. ASSUME NEW other
        PROVE  Waiting!ActiveEntries(other)' \subseteq
                 Waiting!ActiveEntries(other) \cup (IF other = place THEN {new} ELSE {})
    <3>1. <<entries'[new].customer, entries'[new].item>> = place
      BY <2>1 DEF Waiting!NewEntry
    <3> HIDE DEF place, new
    <3> QED BY <3>1, <2>1 DEF Waiting!ActiveEntries, Waiting!Place
  <2>4. excused \subseteq excused' /\ (Waiting!JoinedByAnother(s, place) => place \in excused')
    BY <1>3
  <2>5. ~Waiting!JoinedByAnother(s, place) =>
          \A t \in Sessions \ {s} : session[t].step = "joining" =>
            <<session[t].customer, session[t].item>> # place
    BY DEF Waiting!JoinedByAnother
  <2> HIDE DEF place, new
  <2>6. ASSUME NEW other
        PROVE  \/ Waiting!ActiveEntries(other)' \subseteq Waiting!ActiveEntries(other)
               \/ other \in excused'
               \/ /\ \A d, e \in Waiting!ActiveEntries(other)' : d = e
                  /\ \A t \in Sessions \ {s} : session[t].step = "joining" =>
                       <<session[t].customer, session[t].item>> # other
    <3>1. CASE other # place
      BY <3>1, <2>3
    <3>2. CASE other = place
      BY <3>2, <2>2, <2>3, <2>4, <2>5
    <3> QED BY <3>1, <3>2
  <2> QED BY <1>1, <2>1, <2>4, <2>6, WaitingCommit
<1> QED BY <1>1, <1>2, <1>3

LEMMA WaitingUpdate ==
  ASSUME WaitingInv, NEW s \in Sessions, Waiting!UpdateCommit(s)
  PROVE  WaitingInv'
<1> DEFINE e == session[s].entry
           row == Waiting!Written(entries[e], session[s].loaded, session[s].status)
<1>1. /\ session[s].step = "updating" /\ e \in DOMAIN entries
      /\ session' = [session EXCEPT ![s] = Waiting!Idle]
      /\ \/ /\ entries' = [entries EXCEPT ![e] = row]
            /\ excused' = IF entries[e].status \notin Waiting!Active /\ row.status \in Waiting!Active
                          THEN excused \cup {Waiting!Place(e)} ELSE excused
         \/ UNCHANGED <<entries, excused>>
  BY DEF Waiting!UpdateCommit, Waiting!Become, WaitingInv
<1>2. CASE UNCHANGED <<entries, excused>>
  BY <1>1, <1>2, WaitingQuiet DEF Waiting!Idle
<1>3. CASE /\ entries' = [entries EXCEPT ![e] = row]
           /\ excused' = IF entries[e].status \notin Waiting!Active /\ row.status \in Waiting!Active
                         THEN excused \cup {Waiting!Place(e)} ELSE excused
  <2>1. entries[e] \in Waiting!Entries
    BY <1>1, ItemOfSeq DEF WaitingInv
  <2>2. row \in Waiting!Entries /\ row.customer = entries[e].customer /\ row.item = entries[e].item
    <3>1. session[s].status \in Waiting!WaitlistStatus
      BY <1>1 DEF WaitingInv
    <3> QED BY <2>1, <3>1 DEF Waiting!Written, Waiting!Entries
  <2> HIDE DEF e, row
  <2>3. /\ entries' \in Seq(Waiting!Entries) /\ DOMAIN entries' = DOMAIN entries
        /\ \A d \in DOMAIN entries : entries'[d] = IF d = e THEN row ELSE entries[d]
    BY <1>1, <1>3, <2>2, ExceptSeq, LenProperties DEF WaitingInv
  <2>4. ASSUME NEW place
        PROVE  Waiting!ActiveEntries(place)' \subseteq Waiting!ActiveEntries(place)
               \/ place \in excused'
    BY <1>1, <1>3, <2>2, <2>3 DEF Waiting!ActiveEntries, Waiting!Place
  <2> QED BY <1>1, <1>3, <2>3, <2>4, WaitingCommit
<1> QED BY <1>1, <1>2, <1>3

LEMMA WaitingStep ==
  ASSUME WaitingInv, Waiting!Next
  PROVE  WaitingInv'
<1> USE DEF Waiting!Become, Waiting!Idle
<1>1. ASSUME NEW s \in Sessions, NEW customer \in Customers, NEW item \in ServiceItems,
             Waiting!JoinCheck(s, customer, item)
      PROVE  WaitingInv'
  BY <1>1, WaitingQuiet DEF Waiting!JoinCheck, Waiting!OnWaitlist
<1>2. ASSUME NEW s \in Sessions, NEW e \in 1 .. MaxEntries, NEW status \in Waiting!WaitlistStatus,
             Waiting!UpdateLoad(s, e, status)
      PROVE  WaitingInv'
  BY <1>2, WaitingQuiet DEF Waiting!UpdateLoad
<1>3. ASSUME NEW s \in Sessions, Waiting!Die(s) PROVE WaitingInv'
  BY <1>3, WaitingQuiet DEF Waiting!Die
<1>4. ASSUME NEW item \in ServiceItems, Waiting!RemoveItem(item) PROVE WaitingInv'
  BY <1>4 DEF Waiting!RemoveItem, WaitingInv, Workers, Waiting!ActiveEntries, Waiting!Place
<1> QED BY <1>1, <1>2, <1>3, <1>4, WaitingJoin, WaitingUpdate DEF Waiting!Next
-----------------------------------------------------------------------------
\* The accounts.  An update holds a user who was active and whose verification
\* it does not change; a code is consumed for its own user.
CodeRows == [user : Nat, consumed : BOOLEAN, expired : BOOLEAN]

Used(u) == \E c \in DOMAIN codes : codes[c].user = u /\ codes[c].consumed

AccountSession(s) ==
  /\ session[s].step = "registering" => session[s].identity \in Identities
  /\ session[s].step = "updating" =>
       /\ session[s].user \in DOMAIN users
       /\ session[s].loaded \in Account!Users
       /\ session[s].new \in Account!Users
       /\ session[s].loaded.is_active
       /\ session[s].new.is_verified = session[s].loaded.is_verified
  /\ session[s].step = "requesting" => session[s].user \in DOMAIN users
  /\ session[s].step = "consuming" =>
       /\ session[s].code \in DOMAIN codes
       /\ codes[session[s].code].user = session[s].user
  /\ session[s].step = "marking" => session[s].user \in DOMAIN users /\ Used(session[s].user)

AccountInv ==
  /\ Workers
  /\ users \in Seq(Account!Users)
  /\ codes \in Seq(CodeRows)
  /\ Len(codes) <= MaxCodes
  /\ \A c \in DOMAIN codes : codes[c].user \in DOMAIN users
  /\ \A s \in Sessions : AccountSession(s)
  /\ VerificationIsWhole

\* A step that changes neither users nor codes; a worker that leaves off between
\* the two commits of a verification is remembered.
LEMMA AccountQuiet ==
  ASSUME AccountInv, NEW s \in Sessions, NEW request,
         session' = [session EXCEPT ![s] = request], AccountSession(s)',
         UNCHANGED <<users, codes>>, interrupted \subseteq interrupted',
         session[s].step = "marking" => session[s].user \in interrupted'
  PROVE  AccountInv'
<1>1. /\ Workers'
      /\ \A t \in Sessions \ {s} : session'[t] = session[t]
  BY DEF AccountInv, Workers
<1>2. \A t \in Sessions : AccountSession(t)'
  BY <1>1 DEF AccountInv, AccountSession, Used
<1>3. VerificationIsWhole'
  BY <1>1 DEF AccountInv, VerificationIsWhole, Account!VerificationIsWhole
<1> QED BY <1>1, <1>2, <1>3 DEF AccountInv

\* A commit to the users: who was verified stays so, the user marked is, and
\* nobody else becomes so.
LEMMA AccountUsers ==
  ASSUME AccountInv, NEW s \in Sessions,
         session' = [session EXCEPT ![s] = Account!Idle],
         users' \in Seq(Account!Users), DOMAIN users \subseteq DOMAIN users',
         UNCHANGED <<codes, interrupted>>,
         \A u \in DOMAIN users' :
           /\ users'[u].is_verified => (u \in DOMAIN users /\ users[u].is_verified) \/ Used(u)
           /\ u \in DOMAIN users
                /\ (users[u].is_verified \/ (session[s].step = "marking" /\ session[s].user = u))
              => users'[u].is_verified
  PROVE  AccountInv'
<1>1. /\ Workers' /\ session'[s].step = "idle"
      /\ \A t \in Sessions \ {s} : session'[t] = session[t]
  BY DEF AccountInv, Workers, Account!Idle
<1>0. \A u : Used(u)' = Used(u)
  BY DEF Used
<1>2. ASSUME NEW t \in Sessions PROVE AccountSession(t)'
  <2>1. CASE t = s
    BY <1>1, <2>1 DEF AccountSession
  <2>2. CASE t # s
    <3>1. AccountSession(t) /\ session'[t] = session[t]
      BY <1>1, <2>2 DEF AccountInv
    <3> QED BY <1>0, <3>1 DEF AccountSession
  <2> QED BY <2>1, <2>2
<1>3. ASSUME NEW u \in DOMAIN users'
      PROVE  /\ users'[u].is_verified => Used(u)
             /\ Used(u) => \/ users'[u].is_verified
                           \/ \E t \in Sessions : session'[t].step = "marking" /\ session'[t].user = u
                           \/ u \in interrupted
  <2>1. CASE u \in DOMAIN users
    <3>1. /\ users[u].is_verified => Used(u)
          /\ Used(u) => \/ users[u].is_verified
                        \/ \E t \in Sessions : session[t].step = "marking" /\ session[t].user = u
                        \/ u \in interrupted
      BY <2>1 DEF AccountInv, VerificationIsWhole, Account!VerificationIsWhole, Used
    <3>2. ASSUME NEW t \in Sessions, session[t].step = "marking", session[t].user = u
          PROVE  \/ users'[u].is_verified
                 \/ \E r \in Sessions : session'[r].step = "marking" /\ session'[r].user = u
      <4>1. CASE t = s
        BY <2>1, <3>2, <4>1
      <4>2. CASE t # s
        BY <1>1, <3>2, <4>2
      <4> QED BY <4>1, <4>2
    <3>3. users'[u].is_verified => users[u].is_verified \/ Used(u)
      OBVIOUS
    <3>4. users[u].is_verified => users'[u].is_verified
      BY <2>1
    <3> QED BY <3>1, <3>2, <3>3, <3>4
  <2>2. CASE u \notin DOMAIN users
    BY <2>2 DEF AccountInv, Used
  <2> QED BY <2>1, <2>2
<1>4. VerificationIsWhole'
  BY <1>3 DEF VerificationIsWhole, Account!VerificationIsWhole, Used
<1> QED BY <1>1, <1>2, <1>4 DEF AccountInv

\* A commit to the codes: a code that becomes used up belongs to the user whom
\* this worker marks next.
LEMMA AccountCodes ==
  ASSUME AccountInv, NEW s \in Sessions, NEW request,
         session' = [session EXCEPT ![s] = request], AccountSession(s)',
         session[s].step # "marking" \/ session'[s] = session[s],
         codes' \in Seq(CodeRows), Len(codes') <= MaxCodes, DOMAIN codes \subseteq DOMAIN codes',
         \A c \in DOMAIN codes :
           codes'[c].user = codes[c].user /\ (codes[c].consumed => codes'[c].consumed),
         \A c \in DOMAIN codes' :
           /\ codes'[c].user \in DOMAIN users
           /\ codes'[c].consumed =>
                \/ c \in DOMAIN codes /\ codes[c].consumed
                \/ session'[s].step = "marking" /\ session'[s].user = codes'[c].user,
         UNCHANGED <<users, interrupted>>
  PROVE  AccountInv'
<1>1. /\ Workers'
      /\ \A t \in Sessions \ {s} : session'[t] = session[t]
  BY DEF AccountInv, Workers
<1>2. \A u : Used(u) => Used(u)'
  BY DEF Used
<1>3. ASSUME NEW t \in Sessions \ {s} PROVE AccountSession(t)'
  <2>1. AccountSession(t) /\ session'[t] = session[t]
    BY <1>1 DEF AccountInv
  <2> QED BY <1>2, <2>1 DEF AccountSession
<1>4. ASSUME NEW u \in DOMAIN users'
      PROVE  /\ users'[u].is_verified => Used(u)'
             /\ Used(u)' => \/ users'[u].is_verified
                            \/ \E t \in Sessions : session'[t].step = "marking" /\ session'[t].user = u
                            \/ u \in interrupted'
  <2>1. /\ users[u].is_verified => Used(u)
        /\ Used(u) => \/ users[u].is_verified
                      \/ \E t \in Sessions : session[t].step = "marking" /\ session[t].user = u
                      \/ u \in interrupted
    BY DEF AccountInv, VerificationIsWhole, Account!VerificationIsWhole, Used
  <2>2. Used(u)' => Used(u) \/ (session'[s].step = "marking" /\ session'[s].user = u)
    BY DEF Used
  <2>3. (\E t \in Sessions : session[t].step = "marking" /\ session[t].user = u)
          => \E t \in Sessions : session'[t].step = "marking" /\ session'[t].user = u
    BY <1>1
  <2> QED BY <1>2, <2>1, <2>2, <2>3
<1>5. VerificationIsWhole'
  BY <1>4 DEF VerificationIsWhole, Account!VerificationIsWhole, Used
<1> QED BY <1>1, <1>3, <1>5 DEF AccountInv

LEMMA UserRows ==
  \A row, loaded, new \in Account!Users :
    /\ Account!Written(row, loaded, new) \in Account!Users
    /\ loaded.is_active /\ ~row.is_active => ~Account!Written(row, loaded, new).is_active
    /\ new.is_verified = loaded.is_verified =>
         Account!Written(row, loaded, new).is_verified = row.is_verified
BY DEF Account!Written, Account!Users

\* What a commit to the users does: one more, or one row written.
LEMMA AccountWrites ==
  ASSUME AccountInv, NEW s \in Sessions,
         Account!RegisterCommit(s) \/ Account!ChangeCommit(s) \/ Account!MarkVerified(s)
  PROVE  /\ AccountInv'
         /\ \A u \in DOMAIN users : ~users[u].is_active => ~users'[u].is_active
<1> USE DEF Account!Become
<1> DEFINE Goal == AccountInv' /\ \A u \in DOMAIN users : ~users[u].is_active => ~users'[u].is_active
<1>0. ASSUME session' = [session EXCEPT ![s] = Account!Idle], UNCHANGED <<users, codes, interrupted>>,
             session[s].step # "marking"
      PROVE  Goal
  <2>1. AccountSession(s)'
    BY <1>0 DEF AccountSession, AccountInv, Workers, Account!Idle
  <2> QED BY <2>1, <1>0, AccountQuiet
<1>1. CASE Account!RegisterCommit(s)
  <2> DEFINE new == Account!NewUser(session[s].identity)
  <2>1. /\ session[s].step = "registering" /\ session[s].identity \in Identities
        /\ session' = [session EXCEPT ![s] = Account!Idle] /\ UNCHANGED <<codes, interrupted>>
        /\ UNCHANGED users \/ users' = Append(users, new)
    BY <1>1 DEF Account!RegisterCommit, AccountInv, AccountSession
  <2>2. new \in Account!Users /\ ~new.is_verified
    BY <2>1 DEF Account!NewUser, Account!Users
  <2> HIDE DEF new
  <2>3. CASE users' = Append(users, new)
    <3>1. /\ users' \in Seq(Account!Users) /\ Len(users') = Len(users) + 1
          /\ users'[Len(users) + 1] = new
          /\ \A u \in 1 .. Len(users) : users'[u] = users[u]
      BY <2>2, <2>3, AppendProperties DEF AccountInv
    <3>2. /\ DOMAIN users = 1 .. Len(users) /\ DOMAIN users' = 1 .. Len(users) + 1
          /\ Len(users) \in Nat
      BY <3>1, LenProperties DEF AccountInv
    <3>3. \A u \in DOMAIN users : users'[u] = users[u]
      BY <3>1, <3>2
    <3>4. \A u \in DOMAIN users' : u \in DOMAIN users \/ users'[u] = new
      BY <3>1, <3>2
    <3>5. DOMAIN users \subseteq DOMAIN users'
      BY <3>2
    <3>6. \A u \in DOMAIN users' :
            users'[u].is_verified => (u \in DOMAIN users /\ users[u].is_verified) \/ Used(u)
      BY <2>2, <3>3, <3>4
    <3>7. AccountInv'
      BY <2>1, <3>1, <3>3, <3>5, <3>6, AccountUsers
    <3> QED BY <3>3, <3>7
  <2> QED BY <1>0, <2>1, <2>3
<1>2. ASSUME NEW u \in DOMAIN users, NEW row \in Account!Users, users' = [users EXCEPT ![u] = row],
             session' = [session EXCEPT ![s] = Account!Idle], UNCHANGED <<codes, interrupted>>,
             ~users[u].is_active => ~row.is_active,
             row.is_verified => users[u].is_verified \/ Used(u),
             users[u].is_verified => row.is_verified,
             session[s].step = "marking" => session[s].user = u /\ row.is_verified
      PROVE  Goal
  <2>1. /\ users' \in Seq(Account!Users) /\ DOMAIN users' = DOMAIN users
        /\ \A v \in DOMAIN users : users'[v] = IF v = u THEN row ELSE users[v]
    BY <1>2, ExceptSeq, LenProperties DEF AccountInv
  <2>2. AccountInv'
    BY <1>2, <2>1, AccountUsers
  <2> QED BY <1>2, <2>1, <2>2
<1>3. CASE Account!ChangeCommit(s)
  <2> DEFINE u == session[s].user
             row == Account!Written(users[u], session[s].loaded, session[s].new)
  <2>1. /\ session[s].step = "updating" /\ u \in DOMAIN users
        /\ session[s].loaded \in Account!Users /\ session[s].new \in Account!Users
        /\ session[s].loaded.is_active
        /\ session[s].new.is_verified = session[s].loaded.is_verified
    BY <1>3 DEF Account!ChangeCommit, AccountInv, AccountSession
  <2>2. users[u] \in Account!Users
    BY <2>1, ItemOfSeq DEF AccountInv
  <2>3. /\ row \in Account!Users /\ (~users[u].is_active => ~row.is_active)
        /\ row.is_verified = users[u].is_verified
    BY <2>1, <2>2, UserRows
  <2>4. /\ session' = [session EXCEPT ![s] = Account!Idle] /\ UNCHANGED <<codes, interrupted>>
        /\ UNCHANGED users \/ users' = [users EXCEPT ![u] = row]
    BY <1>3 DEF Account!ChangeCommit
  <2> HIDE DEF u, row
  <2> QED BY <1>0, <1>2, <2>1, <2>3, <2>4
<1>4. CASE Account!MarkVerified(s)
  <2> DEFINE u == session[s].user
             row == [users[u] EXCEPT !.is_verified = TRUE]
  <2>1. session[s].step = "marking" /\ u \in DOMAIN users /\ Used(u)
    BY <1>4 DEF Account!MarkVerified, AccountInv, AccountSession
  <2>2. users[u] \in Account!Users
    BY <2>1, ItemOfSeq DEF AccountInv
  <2>3. row \in Account!Users /\ row.is_active = users[u].is_active /\ row.is_verified
    BY <2>2 DEF Account!Users
  <2>4. /\ session' = [session EXCEPT ![s] = Account!Idle] /\ UNCHANGED <<codes, interrupted>>
        /\ users' = [users EXCEPT ![u] = row] /\ session[s].user = u
    BY <1>4 DEF Account!MarkVerified
  <2> HIDE DEF u, row
  <2> QED BY <1>2, <2>1, <2>3, <2>4
<1> QED BY <1>1, <1>3, <1>4

LEMMA AccountCommits ==
  ASSUME AccountInv, NEW s \in Sessions, Account!RequestCommit(s) \/ Account!Consume(s)
  PROVE  AccountInv'
<1> USE DEF Account!Become
<1>1. CASE Account!RequestCommit(s)
  <2> DEFINE new == [user |-> session[s].user, consumed |-> FALSE, expired |-> FALSE]
  <2>1. /\ session[s].step = "requesting" /\ session[s].user \in DOMAIN users
        /\ session' = [session EXCEPT ![s] = Account!Idle] /\ UNCHANGED <<users, interrupted>>
        /\ codes' = Append(codes, new) /\ Len(codes) < MaxCodes
    BY <1>1 DEF Account!RequestCommit, AccountInv, AccountSession
  <2>2. session[s].user \in Nat
    BY <2>1, LenProperties DEF AccountInv
  <2>3. new \in CodeRows /\ ~new.consumed /\ new.user \in DOMAIN users
    BY <2>1, <2>2 DEF CodeRows
  <2> HIDE DEF new
  <2>4. /\ codes' \in Seq(CodeRows) /\ Len(codes') = Len(codes) + 1
        /\ codes'[Len(codes) + 1] = new
        /\ \A c \in 1 .. Len(codes) : codes'[c] = codes[c]
    BY <2>1, <2>3, AppendProperties DEF AccountInv
  <2>5. /\ DOMAIN codes = 1 .. Len(codes) /\ DOMAIN codes' = 1 .. Len(codes) + 1
        /\ Len(codes) \in Nat /\ Len(codes') <= MaxCodes
    BY <2>1, <2>4, LenProperties, CampusAssumption DEF AccountInv
  <2>6. AccountSession(s)'
    BY <2>1 DEF AccountSession, AccountInv, Workers, Account!Idle
  <2>7. /\ \A c \in DOMAIN codes : codes'[c] = codes[c]
        /\ \A c \in DOMAIN codes' : c \in DOMAIN codes \/ codes'[c] = new
    BY <2>4, <2>5
  <2>8. \A c \in DOMAIN codes' :
          codes'[c].user \in DOMAIN users /\ (codes'[c].consumed => c \in DOMAIN codes /\ codes[c].consumed)
    BY <2>3, <2>7 DEF AccountInv
  <2>9. DOMAIN codes \subseteq DOMAIN codes'
    BY <2>5
  <2> HIDE DEF Account!Become
  <2> QED BY <2>1, <2>4, <2>5, <2>6, <2>7, <2>8, <2>9, AccountCodes
<1>2. CASE Account!Consume(s)
  <2> DEFINE c == session[s].code
             u == session[s].user
             row == [codes[c] EXCEPT !.consumed = TRUE]
  <2>1. /\ session[s].step = "consuming" /\ c \in DOMAIN codes /\ codes[c].user = u
        /\ UNCHANGED <<users, interrupted>>
    BY <1>2 DEF Account!Consume, AccountInv, AccountSession
  <2>2. codes' = [codes EXCEPT ![c] = row]
    BY <1>2 DEF Account!Consume, Account!Consumed
  <2>3. session' = [session EXCEPT ![s] = [step |-> "marking", user |-> u]]
    BY <1>2 DEF Account!Consume
  <2>4. codes[c] \in CodeRows
    BY <2>1, ItemOfSeq DEF AccountInv
  <2>5. row \in CodeRows /\ row.user = u /\ row.consumed
    BY <2>1, <2>4 DEF CodeRows
  <2> HIDE DEF c, u, row
  <2>6. /\ codes' \in Seq(CodeRows) /\ Len(codes') = Len(codes) /\ DOMAIN codes' = DOMAIN codes
        /\ \A d \in DOMAIN codes : codes'[d] = IF d = c THEN row ELSE codes[d]
    BY <2>1, <2>2, <2>5, ExceptSeq, LenProperties DEF AccountInv
  <2>7. session'[s] = [step |-> "marking", user |-> u] /\ u \in DOMAIN users
    BY <2>1, <2>3 DEF AccountInv, Workers
  <2>8. c \in DOMAIN codes' /\ codes'[c].user = u /\ codes'[c].consumed
    BY <2>1, <2>5, <2>6
  <2>9. AccountSession(s)'
    <3>1. session'[s].step = "marking" /\ session'[s].user = u
      BY <2>7
    <3>2. session'[s].user \in DOMAIN users' /\ Used(session[s].user)'
      BY <2>1, <2>7, <2>8, <3>1 DEF Used
    <3> QED BY <3>1, <3>2 DEF AccountSession
  <2>10. /\ \A d \in DOMAIN codes :
              codes'[d].user = codes[d].user /\ (codes[d].consumed => codes'[d].consumed)
         /\ \A d \in DOMAIN codes' :
              /\ codes'[d].user \in DOMAIN users
              /\ codes'[d].consumed =>
                   \/ d \in DOMAIN codes /\ codes[d].consumed
                   \/ session'[s].step = "marking" /\ session'[s].user = codes'[d].user
    BY <2>1, <2>5, <2>6, <2>7 DEF AccountInv
  <2>11. Len(codes') <= MaxCodes
    BY <2>6 DEF AccountInv
  <2> QED BY <2>1, <2>3, <2>6, <2>9, <2>10, <2>11, AccountCodes
<1> QED BY <1>1, <1>2

LEMMA AccountStep ==
  ASSUME AccountInv, Account!Next
  PROVE  /\ AccountInv'
         /\ \A u \in DOMAIN users : ~users[u].is_active => ~users'[u].is_active
<1> USE DEF Account!Become
<1> DEFINE Goal == AccountInv' /\ \A u \in DOMAIN users : ~users[u].is_active => ~users'[u].is_active
<1>1. ASSUME NEW s \in Sessions, NEW identity \in Identities, Account!RegisterCheck(s, identity)
      PROVE  Goal
  <2>1. AccountSession(s)' /\ session[s].step = "idle"
    BY <1>1 DEF Account!RegisterCheck, Account!Idle, AccountSession, AccountInv, Workers
  <2> QED BY <1>1, <2>1, AccountQuiet DEF Account!RegisterCheck
<1>2. ASSUME NEW s \in Sessions, NEW u \in Account!UserIds, NEW new \in Account!Users,
             Account!ChangeLoad(s, u, new)
      PROVE  Goal
  <2>1. /\ u \in DOMAIN users /\ users[u].is_active /\ session[s].step = "idle"
        /\ session' = [session EXCEPT ![s] =
             [step |-> "updating", user |-> u, loaded |-> users[u], new |-> new]]
        /\ UNCHANGED <<users, codes, interrupted>>
    BY <1>2 DEF Account!ChangeLoad, Account!IsActive, Account!Idle
  <2>2. users[u] \in Account!Users
    BY <2>1, ItemOfSeq DEF AccountInv
  <2>3. new.is_verified = users[u].is_verified
    BY <1>2, <2>2 DEF Account!ChangeLoad, Account!Users
  <2>4. session'[s] = [step |-> "updating", user |-> u, loaded |-> users[u], new |-> new]
    BY <2>1 DEF AccountInv, Workers
  <2>5. AccountSession(s)'
    BY <2>1, <2>2, <2>3, <2>4 DEF AccountSession
  <2> QED BY <2>1, <2>5, AccountQuiet
<1>3. ASSUME NEW s \in Sessions, NEW u \in Account!UserIds,
             Account!RequestCode(s, u) \/ Account!VerifyUser(s, u)
      PROVE  Goal
  <2>1. AccountSession(s)' /\ session[s].step = "idle"
    BY <1>3 DEF Account!RequestCode, Account!VerifyUser, Account!IsActive, Account!Idle,
       AccountSession, AccountInv, Workers
  <2> QED BY <1>3, <2>1, AccountQuiet DEF Account!RequestCode, Account!VerifyUser
<1>4. ASSUME NEW s \in Sessions, NEW c \in Account!CodeIds, Account!VerifyCode(s, c)
      PROVE  Goal
  <2>1. c \in DOMAIN codes /\ codes[c].user = session[s].user
    BY <1>4 DEF Account!VerifyCode, Account!IsLatestOpen, Account!OpenCodes
  <2>2. AccountSession(s)' /\ session[s].step = "verifying"
    BY <1>4, <2>1 DEF Account!VerifyCode, AccountSession, AccountInv, Workers
  <2> QED BY <1>4, <2>2, AccountQuiet DEF Account!VerifyCode
<1>5. ASSUME NEW s \in Sessions, Account!Die(s)
      PROVE  Goal
  <2>1. AccountSession(s)'
    BY <1>5 DEF Account!Die, Account!Idle, AccountSession, AccountInv, Workers
  <2> QED BY <1>5, <2>1, AccountQuiet DEF Account!Die
<1>6. ASSUME NEW s \in Sessions, Account!RequestCommit(s) \/ Account!Consume(s)
      PROVE  Goal
  BY <1>6, AccountCommits DEF Account!RequestCommit, Account!Consume
<1>7. ASSUME NEW c \in Account!CodeIds, Account!Expire(c)
      PROVE  Goal
  <2> DEFINE row == [codes[c] EXCEPT !.expired = TRUE]
  <2>1. c \in DOMAIN codes /\ codes' = [codes EXCEPT ![c] = row]
        /\ UNCHANGED <<users, session, interrupted>>
    BY <1>7 DEF Account!Expire
  <2>2. codes[c] \in CodeRows
    BY <2>1, ItemOfSeq DEF AccountInv
  <2>3. row \in CodeRows /\ row.user = codes[c].user /\ row.consumed = codes[c].consumed
    BY <2>2 DEF CodeRows
  <2> HIDE DEF row
  <2>4. /\ codes' \in Seq(CodeRows) /\ Len(codes') = Len(codes) /\ DOMAIN codes' = DOMAIN codes
        /\ \A d \in DOMAIN codes : codes'[d] = IF d = c THEN row ELSE codes[d]
    BY <2>1, <2>3, ExceptSeq, LenProperties DEF AccountInv
  <2>5. \A d \in DOMAIN codes :
          codes'[d].user = codes[d].user /\ codes'[d].consumed = codes[d].consumed
    BY <2>3, <2>4
  <2>6. \A u : Used(u)' = Used(u)
    BY <2>4, <2>5 DEF Used
  <2>7. \A t \in Sessions : AccountSession(t)'
    BY <2>1, <2>4, <2>5, <2>6 DEF AccountInv, AccountSession
  <2>8. VerificationIsWhole'
    <3>1. \A u \in DOMAIN users :
            /\ users[u].is_verified => Used(u)
            /\ Used(u) => \/ users[u].is_verified
                          \/ \E t \in Sessions : session[t].step = "marking" /\ session[t].user = u
                          \/ u \in interrupted
      BY DEF AccountInv, VerificationIsWhole, Account!VerificationIsWhole, Used
    <3>2. \A u \in DOMAIN users' :
            /\ users'[u].is_verified => Used(u)'
            /\ Used(u)' => \/ users'[u].is_verified
                           \/ \E t \in Sessions : session'[t].step = "marking" /\ session'[t].user = u
                           \/ u \in interrupted'
      BY <2>1, <2>6, <3>1
    <3> QED BY <3>2 DEF VerificationIsWhole, Account!VerificationIsWhole, Used
  <2> QED BY <2>1, <2>4, <2>5, <2>7, <2>8 DEF AccountInv, Workers
<1> QED BY <1>1, <1>2, <1>3, <1>4, <1>5, <1>6, <1>7, AccountWrites DEF Account!Next
-----------------------------------------------------------------------------
\* How often a code is accepted.  While it is open nobody has been accepted from
\* it; the workers that have looked it up are all that ever will be.
Consuming(c) == {s \in Sessions : session[s].step = "consuming" /\ session[s].code = c}

AcceptedInv ==
  /\ Workers
  /\ accepted \in [Account!CodeIds -> Nat]
  /\ \A c \in Account!CodeIds :
       /\ c \notin DOMAIN codes \/ ~codes[c].consumed => accepted[c] = 0
       /\ accepted[c] + Cardinality(Consuming(c)) <= Cardinality(Sessions)

LEMMA ConsumingFinite ==
  /\ Cardinality(Sessions) \in Nat
  /\ \A S \in SUBSET Sessions :
       IsFiniteSet(S) /\ Cardinality(S) \in Nat /\ Cardinality(S) <= Cardinality(Sessions)
BY CampusAssumption, FS_Subset, FS_CardinalityType

\* Codes that were open and unused may become looked up; no other does.
LEMMA AcceptedQuiet ==
  ASSUME AcceptedInv, Workers', UNCHANGED accepted,
         \A c \in Account!CodeIds :
           /\ c \notin DOMAIN codes' \/ ~codes'[c].consumed =>
                c \notin DOMAIN codes \/ ~codes[c].consumed
           /\ \/ Consuming(c)' \subseteq Consuming(c)
              \/ c \in DOMAIN codes /\ ~codes[c].consumed
  PROVE  AcceptedInv'
<1>1. ASSUME NEW c \in Account!CodeIds
      PROVE  accepted[c] + Cardinality(Consuming(c)') <= Cardinality(Sessions)
  <2>1. /\ accepted[c] \in Nat
        /\ accepted[c] + Cardinality(Consuming(c)) <= Cardinality(Sessions)
    BY DEF AcceptedInv
  <2>2. Consuming(c) \in SUBSET Sessions /\ Consuming(c)' \in SUBSET Sessions
    BY DEF Consuming
  <2>3. /\ Cardinality(Consuming(c)) \in Nat
        /\ Cardinality(Consuming(c)') \in Nat
        /\ Cardinality(Consuming(c)') <= Cardinality(Sessions)
        /\ Cardinality(Sessions) \in Nat
    BY <2>2, ConsumingFinite
  <2>4. CASE Consuming(c)' \subseteq Consuming(c)
    <3>1. Cardinality(Consuming(c)') <= Cardinality(Consuming(c))
      BY <2>2, <2>4, ConsumingFinite, FS_Subset
    <3> QED BY <2>1, <2>3, <3>1
  <2>5. CASE c \in DOMAIN codes /\ ~codes[c].consumed
    <3>1. accepted[c] = 0
      BY <2>5 DEF AcceptedInv
    <3> QED BY <2>3, <3>1
  <2> QED BY <2>4, <2>5
<1> QED BY <1>1 DEF AcceptedInv

\* A worker starts nothing with a code.
LEMMA AcceptedElsewhere ==
  ASSUME AcceptedInv, NEW s \in Sessions, NEW request, request.step # "consuming",
         session' = [session EXCEPT ![s] = request], UNCHANGED <<codes, accepted>>
  PROVE  AcceptedInv'
<1>1. Workers' /\ session'[s] = request
  BY DEF AcceptedInv, Workers
<1>2. ASSUME NEW c, NEW t \in Consuming(c)' PROVE t \in Consuming(c)
  BY <1>1 DEF Consuming, AcceptedInv, Workers
<1>3. \A c : Consuming(c)' \subseteq Consuming(c)
  BY <1>2
<1> QED BY <1>1, <1>3, AcceptedQuiet

LEMMA AcceptedConsume ==
  ASSUME AcceptedInv, NEW s \in Sessions, Account!Consume(s), codes \in Seq(CodeRows),
         Len(codes) <= MaxCodes, session[s].code \in DOMAIN codes
  PROVE  AcceptedInv'
<1> DEFINE k == session[s].code
<1>1. /\ session[s].step = "consuming"
      /\ accepted' = [accepted EXCEPT ![k] = @ + 1]
      /\ codes' = [codes EXCEPT ![k] = [codes[k] EXCEPT !.consumed = TRUE]]
      /\ session' = [session EXCEPT ![s] = [step |-> "marking", user |-> session[s].user]]
  BY DEF Account!Consume, Account!Become, Account!Consumed
<1>2. Workers' /\ session'[s].step = "marking" /\ \A t \in Sessions \ {s} : session'[t] = session[t]
  BY <1>1 DEF AcceptedInv, Workers
<1>3. k \in Account!CodeIds
  BY CampusAssumption, LenProperties DEF Account!CodeIds
<1>4. codes[k] \in CodeRows
  BY ItemOfSeq
<1>5. /\ DOMAIN codes' = DOMAIN codes /\ codes'[k].consumed
      /\ \A c \in DOMAIN codes \ {k} : codes'[c] = codes[c]
  BY <1>1, <1>4 DEF CodeRows
<1>6. s \in Consuming(k)
  BY <1>1 DEF Consuming
<1> HIDE DEF k
<1>7. \A c : c # k => Consuming(c)' = Consuming(c)
  BY <1>1, <1>2 DEF Consuming, k
<1>8. {t \in Sessions : session'[t].step = "consuming" /\ session'[t].code = k} = Consuming(k) \ {s}
  BY <1>2 DEF Consuming
<1>9. accepted' \in [Account!CodeIds -> Nat]
  BY <1>1, <1>3 DEF AcceptedInv
<1>10. ASSUME NEW c \in Account!CodeIds
       PROVE  /\ c \notin DOMAIN codes' \/ ~codes'[c].consumed => accepted'[c] = 0
              /\ accepted'[c] + Cardinality(Consuming(c)') <= Cardinality(Sessions)
  <2>1. /\ c \notin DOMAIN codes \/ ~codes[c].consumed => accepted[c] = 0
        /\ accepted[c] + Cardinality(Consuming(c)) <= Cardinality(Sessions)
        /\ accepted[c] \in Nat
    BY DEF AcceptedInv
  <2>2. CASE c # k
    <3>1. accepted'[c] = accepted[c] /\ Consuming(c)' = Consuming(c)
      BY <1>1, <1>7, <2>2 DEF AcceptedInv
    <3>2. c \notin DOMAIN codes' \/ ~codes'[c].consumed => c \notin DOMAIN codes \/ ~codes[c].consumed
      BY <1>5, <2>2
    <3> QED BY <2>1, <3>1, <3>2
  <2>3. CASE c = k
    <3>1. accepted'[c] = accepted[c] + 1
      BY <1>1, <1>3, <2>3 DEF AcceptedInv
    <3>2. Consuming(c)' = Consuming(c) \ {s} /\ s \in Consuming(c)
      BY <1>6, <1>8, <2>3 DEF Consuming
    <3>3. Consuming(c) \in SUBSET Sessions
      BY DEF Consuming
    <3>4. Cardinality(Consuming(c)') = Cardinality(Consuming(c)) - 1
      BY <3>2, <3>3, ConsumingFinite, FS_RemoveElement
    <3>5. Cardinality(Consuming(c)) \in Nat /\ Cardinality(Sessions) \in Nat
      BY <3>3, ConsumingFinite
    <3>6. c \in DOMAIN codes' /\ codes'[c].consumed
      BY <1>5, <2>3 DEF k
    <3> QED BY <2>1, <3>1, <3>4, <3>5, <3>6
  <2> QED BY <2>2, <2>3
<1> QED BY <1>2, <1>9, <1>10 DEF AcceptedInv

LEMMA AcceptedStep ==
  ASSUME AccountInv, AcceptedInv, Account!Next
  PROVE  AcceptedInv'
<1> USE DEF Account!Become, Account!Idle
<1>1. ASSUME NEW s \in Sessions, NEW identity \in Identities, Account!RegisterCheck(s, identity)
      PROVE  AcceptedInv'
  BY <1>1, AcceptedElsewhere DEF Account!RegisterCheck
<1>2. ASSUME NEW s \in Sessions, NEW u \in Account!UserIds, NEW new \in Account!Users,
             Account!ChangeLoad(s, u, new)
      PROVE  AcceptedInv'
  BY <1>2, AcceptedElsewhere DEF Account!ChangeLoad
<1>3. ASSUME NEW s \in Sessions, NEW u \in Account!UserIds,
             Account!RequestCode(s, u) \/ Account!VerifyUser(s, u)
      PROVE  AcceptedInv'
  BY <1>3, AcceptedElsewhere DEF Account!RequestCode, Account!VerifyUser
<1>4. ASSUME NEW s \in Sessions, NEW c \in Account!CodeIds, Account!VerifyCode(s, c)
      PROVE  AcceptedInv'
  <2>1. /\ c \in DOMAIN codes /\ ~codes[c].consumed /\ UNCHANGED <<codes, accepted>>
        /\ session' = [session EXCEPT ![s] =
             [step |-> "consuming", user |-> session[s].user, code |-> c]]
    BY <1>4 DEF Account!VerifyCode, Account!IsLatestOpen, Account!OpenCodes
  <2>2. /\ Workers' /\ session'[s].code = c
        /\ \A t \in Sessions \ {s} : session'[t] = session[t]
    BY <2>1 DEF AcceptedInv, Workers
  <2>3. ASSUME NEW d, d # c, NEW t \in Consuming(d)' PROVE t \in Consuming(d)
    BY <2>2, <2>3 DEF Consuming
  <2>4. \A d : d # c => Consuming(d)' \subseteq Consuming(d)
    BY <2>3
  <2> QED BY <2>1, <2>2, <2>4, AcceptedQuiet
<1>5. ASSUME NEW s \in Sessions,
             \/ Account!RegisterCommit(s) \/ Account!ChangeCommit(s) \/ Account!MarkVerified(s)
             \/ Account!Die(s)
      PROVE  AcceptedInv'
  BY <1>5, AcceptedElsewhere DEF Account!RegisterCommit, Account!ChangeCommit,
     Account!MarkVerified, Account!Die
<1>6. ASSUME NEW s \in Sessions, Account!RequestCommit(s) PROVE AcceptedInv'
  <2> DEFINE new == [user |-> session[s].user, consumed |-> FALSE, expired |-> FALSE]
  <2>1. /\ codes' = Append(codes, new) /\ UNCHANGED accepted
        /\ session' = [session EXCEPT ![s] = Account!Idle]
    BY <1>6 DEF Account!RequestCommit
  <2>2. ~new.consumed
    OBVIOUS
  <2>3. codes \in Seq(CodeRows)
    BY DEF AccountInv
  <2> HIDE DEF new
  <2>4. /\ DOMAIN codes' = 1 .. Len(codes) + 1 /\ DOMAIN codes = 1 .. Len(codes)
        /\ \A c \in 1 .. Len(codes) : codes'[c] = codes[c]
    BY <2>1, <2>3
  <2>5. Workers' /\ \A t \in Sessions \ {s} : session'[t] = session[t]
    BY <2>1 DEF AcceptedInv, Workers
  <2>6. ASSUME NEW c, NEW t \in Consuming(c)' PROVE t \in Consuming(c)
    BY <2>1, <2>5 DEF Consuming, AcceptedInv, Workers
  <2>7. \A c : Consuming(c)' \subseteq Consuming(c)
    BY <2>6
  <2>8. \A c \in Account!CodeIds :
          c \notin DOMAIN codes' \/ ~codes'[c].consumed => c \notin DOMAIN codes \/ ~codes[c].consumed
    BY <2>3, <2>4, LenProperties
  <2> QED BY <2>1, <2>5, <2>7, <2>8, AcceptedQuiet
<1>7. ASSUME NEW s \in Sessions, Account!Consume(s) PROVE AcceptedInv'
  <2>1. /\ codes \in Seq(CodeRows) /\ Len(codes) <= MaxCodes
        /\ session[s].code \in DOMAIN codes
    BY <1>7 DEF Account!Consume, AccountInv, AccountSession
  <2> QED BY <1>7, <2>1, AcceptedConsume
<1>8. ASSUME NEW c \in Account!CodeIds, Account!Expire(c) PROVE AcceptedInv'
  <2>1. /\ c \in DOMAIN codes /\ codes' = [codes EXCEPT ![c] = [codes[c] EXCEPT !.expired = TRUE]]
        /\ UNCHANGED <<session, accepted>>
    BY <1>8 DEF Account!Expire
  <2>2. codes[c] \in CodeRows
    BY <2>1, ItemOfSeq DEF AccountInv
  <2>3. /\ DOMAIN codes' = DOMAIN codes /\ codes'[c].consumed = codes[c].consumed
        /\ \A d \in DOMAIN codes \ {c} : codes'[d] = codes[d]
    BY <2>1, <2>2 DEF CodeRows
  <2>4. Workers' /\ \A d : Consuming(d)' = Consuming(d)
    BY <2>1 DEF AcceptedInv, Workers, Consuming
  <2> QED BY <2>1, <2>3, <2>4, AcceptedQuiet
<1> QED BY <1>1, <1>2, <1>3, <1>4, <1>5, <1>6, <1>7, <1>8 DEF Account!Next
-----------------------------------------------------------------------------
\* The vendors.  A worker between the two commits of a set-up is the only one for
\* its vendor, whose profile is there and whose capacity is not.
VendorSession(s) ==
  /\ session[s].step \in {"creating", "asking", "available"} => session[s].vendor \in Vendors
  /\ session[s].step \in {"creating", "created"} =>
       session[s] \in [step : {"creating", "created"}, vendor : Vendors]
  /\ session[s].step = "created" =>
       profile[session[s].vendor] # Vendor!ABSENT /\ capacity[session[s].vendor] = {}
  /\ session[s].step = "updating" =>
       /\ session[s].vendor \in Vendors
       /\ session[s].new \in {Vendor!OPEN, Vendor!CLOSED}
       /\ profile[session[s].vendor] # Vendor!ABSENT

OneSetUp ==
  \A s, t \in Sessions :
    session[s].step = "created" /\ session[t].step = "created"
      /\ session[s].vendor = session[t].vendor => s = t

VendorInv ==
  /\ Workers
  /\ profile \in [Vendors -> {Vendor!ABSENT, Vendor!OPEN, Vendor!CLOSED}]
  /\ capacity \in [Vendors -> SUBSET Vendor!Days]
  /\ today \in Vendor!Days
  /\ \A s \in Sessions : VendorSession(s)
  /\ OneSetUp
  /\ Vendor!CapacityFollowsProfile

\* A step that changes neither profile nor capacity.
LEMMA VendorQuiet ==
  ASSUME VendorInv, NEW s \in Sessions, NEW request,
         session' = [session EXCEPT ![s] = request],
         UNCHANGED <<profile, capacity, today>>,
         interrupted \subseteq interrupted',
         session[s].step = "created" => session[s].vendor \in interrupted',
         request.step # "created",
         VendorSession(s)',
         request.step = "available" => capacity[request.vendor] = {request.day}
  PROVE  VendorInv'
<1>1. /\ Workers' /\ session'[s] = request
      /\ \A t \in Sessions \ {s} : session'[t] = session[t]
  BY DEF VendorInv, Workers
<1>2. \A t \in Sessions : VendorSession(t)'
  BY <1>1 DEF VendorInv, VendorSession
<1>3. OneSetUp'
  BY <1>1 DEF VendorInv, OneSetUp
<1>4. Vendor!CapacityFollowsProfile'
  BY <1>1 DEF VendorInv, Vendor!CapacityFollowsProfile
<1> QED BY <1>1, <1>2, <1>3, <1>4 DEF VendorInv

LEMMA VendorSetsUp ==
  ASSUME VendorInv, NEW s \in Sessions, Vendor!SetupProfile(s)
  PROVE  VendorInv'
<1> DEFINE v == session[s].vendor
<1>1. session[s] \in [step : {"creating", "created"}, vendor : Vendors] /\ v \in Vendors
  BY DEF Vendor!SetupProfile, VendorInv, VendorSession
<1>2. CASE profile[v] = Vendor!ABSENT
  <2>1. /\ profile' = [profile EXCEPT ![v] = Vendor!OPEN]
        /\ session' = [session EXCEPT ![s] = [session[s] EXCEPT !.step = "created"]]
        /\ UNCHANGED <<capacity, interrupted, today>>
    BY <1>2 DEF Vendor!SetupProfile, Vendor!ProfileFree
  <2>2. /\ Workers' /\ session'[s] = [step |-> "created", vendor |-> v]
        /\ \A t \in Sessions \ {s} : session'[t] = session[t]
    BY <1>1, <2>1 DEF VendorInv, Workers
  <2>3. /\ profile' \in [Vendors -> {Vendor!ABSENT, Vendor!OPEN, Vendor!CLOSED}]
        /\ profile'[v] # Vendor!ABSENT
        /\ \A w \in Vendors \ {v} : profile'[w] = profile[w]
    BY <1>1, <2>1 DEF VendorInv, Vendor!ABSENT, Vendor!OPEN
  <2>4. capacity'[v] = {} /\ capacity' = capacity
    BY <1>1, <1>2, <2>1 DEF VendorInv, Vendor!CapacityFollowsProfile
  <2>5. VendorSession(s)'
    BY <1>1, <2>2, <2>3, <2>4 DEF VendorSession
  <2>6. ASSUME NEW t \in Sessions \ {s} PROVE VendorSession(t)'
    BY <1>1, <2>2, <2>3, <2>4, <2>6 DEF VendorSession, VendorInv
  <2>7. OneSetUp'
    BY <1>2, <2>2 DEF OneSetUp, VendorInv, VendorSession
  <2>8. Vendor!CapacityFollowsProfile'
    BY <1>1, <2>1, <2>2, <2>3, <2>4 DEF VendorInv, Vendor!CapacityFollowsProfile
  <2> QED BY <2>1, <2>2, <2>3, <2>4, <2>5, <2>6, <2>7, <2>8 DEF VendorInv
<1>3. CASE profile[v] # Vendor!ABSENT
  BY <1>3, VendorQuiet DEF Vendor!SetupProfile, Vendor!ProfileFree, Vendor!Become,
     Vendor!Idle, VendorSession, VendorInv, Workers
<1> QED BY <1>2, <1>3

LEMMA VendorOpens ==
  ASSUME VendorInv, NEW s \in Sessions, Vendor!SetupCapacity(s)
  PROVE  VendorInv'
<1> DEFINE v == session[s].vendor
<1>1. v \in Vendors /\ profile[v] # Vendor!ABSENT /\ capacity[v] = {}
  BY DEF Vendor!SetupCapacity, VendorInv, VendorSession
<1>2. /\ capacity' = [capacity EXCEPT ![v] = capacity[v] \cup {today}]
      /\ session' = [session EXCEPT ![s] = [step |-> "idle"]]
      /\ UNCHANGED <<profile, interrupted, today>>
  BY DEF Vendor!SetupCapacity, Vendor!Become, Vendor!Idle
<1>3. /\ Workers' /\ session'[s].step = "idle"
      /\ \A t \in Sessions \ {s} : session'[t] = session[t]
  BY <1>2 DEF VendorInv, Workers
<1>4. /\ capacity' \in [Vendors -> SUBSET Vendor!Days] /\ capacity'[v] = {today}
      /\ \A w \in Vendors \ {v} : capacity'[w] = capacity[w]
  BY <1>1, <1>2 DEF VendorInv
<1>5. ASSUME NEW t \in Sessions \ {s}, session[t].step = "created"
      PROVE  session[t].vendor # v
  BY <1>5 DEF VendorInv, OneSetUp, Vendor!SetupCapacity
<1>6. \A t \in Sessions : VendorSession(t)'
  BY <1>2, <1>3, <1>4, <1>5 DEF VendorInv, VendorSession
<1>7. OneSetUp'
  BY <1>3 DEF VendorInv, OneSetUp
<1>8. Vendor!CapacityFollowsProfile'
  <2> HIDE DEF v
  <2>1. ASSUME NEW t \in Sessions, session'[t].step = "available"
        PROVE  session'[t] = session[t] /\ session[t].vendor # v
    <3>1. session'[t] = session[t] /\ session[t].step = "available"
      BY <1>3, <2>1
    <3>2. session[t].vendor \in Vendors
      BY <3>1 DEF VendorInv, VendorSession
    <3>3. capacity[session[t].vendor] = {session[t].day}
      BY <3>1, <3>2 DEF VendorInv, Vendor!CapacityFollowsProfile
    <3> QED BY <1>1, <3>1, <3>3
  <2>2. ASSUME NEW t \in Sessions, session[t].step = "created", session[t].vendor # v
        PROVE  session'[t] = session[t]
    BY <1>3, <2>2 DEF v
  <2> QED
    BY <1>1, <1>2, <1>4, <2>1, <2>2 DEF VendorInv, Vendor!CapacityFollowsProfile
<1> QED BY <1>2, <1>3, <1>4, <1>6, <1>7, <1>8 DEF VendorInv

LEMMA VendorUpdates ==
  ASSUME VendorInv, NEW s \in Sessions, Vendor!UpdateCommit(s)
  PROVE  VendorInv'
<1> DEFINE v == session[s].vendor
<1>1. /\ v \in Vendors /\ profile[v] # Vendor!ABSENT
      /\ session[s].new \in {Vendor!OPEN, Vendor!CLOSED} /\ session[s].step = "updating"
  BY DEF Vendor!UpdateCommit, VendorInv, VendorSession
<1>2. /\ session' = [session EXCEPT ![s] = [step |-> "idle"]]
      /\ UNCHANGED <<capacity, interrupted, today>>
      /\ \/ profile' = profile
         \/ profile' = [profile EXCEPT ![v] = session[s].new]
  BY DEF Vendor!UpdateCommit, Vendor!Become, Vendor!Idle
<1>3. /\ Workers' /\ session'[s].step = "idle"
      /\ \A t \in Sessions \ {s} : session'[t] = session[t]
  BY <1>2 DEF VendorInv, Workers
<1>4. /\ profile' \in [Vendors -> {Vendor!ABSENT, Vendor!OPEN, Vendor!CLOSED}]
      /\ \A w \in Vendors : profile'[w] = Vendor!ABSENT <=> profile[w] = Vendor!ABSENT
  BY <1>1, <1>2 DEF VendorInv, Vendor!ABSENT, Vendor!OPEN, Vendor!CLOSED
<1>5. \A t \in Sessions : VendorSession(t)'
  BY <1>2, <1>3, <1>4 DEF VendorInv, VendorSession
<1>6. OneSetUp'
  BY <1>3 DEF VendorInv, OneSetUp
<1>7. Vendor!CapacityFollowsProfile'
  BY <1>1, <1>2, <1>3, <1>4 DEF VendorInv, Vendor!CapacityFollowsProfile
<1> QED BY <1>2, <1>3, <1>4, <1>5, <1>6, <1>7 DEF VendorInv

LEMMA VendorStep ==
  ASSUME VendorInv, Vendor!Next
  PROVE  VendorInv'
<1> USE DEF Vendor!Become, Vendor!Idle
<1>1. ASSUME NEW s \in Sessions, NEW v \in Vendors, Vendor!SetupCheck(s, v) PROVE VendorInv'
  BY <1>1, VendorQuiet DEF Vendor!SetupCheck, VendorSession, VendorInv, Workers
<1>2. ASSUME NEW s \in Sessions, NEW v \in Vendors, NEW new \in {Vendor!OPEN, Vendor!CLOSED},
             Vendor!UpdateLoad(s, v, new)
      PROVE  VendorInv'
  BY <1>2, VendorQuiet DEF Vendor!UpdateLoad, VendorSession, VendorInv, Workers
<1>3. ASSUME NEW s \in Sessions, NEW v \in Vendors, Vendor!AskProfile(s, v) PROVE VendorInv'
  BY <1>3, VendorQuiet DEF Vendor!AskProfile, VendorSession, VendorInv, Workers
<1>4. ASSUME NEW s \in Sessions, Vendor!AskCapacity(s) PROVE VendorInv'
  <2> DEFINE v == session[s].vendor
  <2>1. v \in Vendors /\ today \in capacity[v]
    BY <1>4 DEF Vendor!AskCapacity, VendorInv, VendorSession
  <2>2. capacity[v] = {today}
    BY <2>1 DEF VendorInv, Vendor!CapacityFollowsProfile
  <2> QED BY <1>4, <2>1, <2>2, VendorQuiet DEF Vendor!AskCapacity, VendorSession, VendorInv, Workers
<1>5. ASSUME NEW s \in Sessions, Vendor!Finish(s) PROVE VendorInv'
  BY <1>5, VendorQuiet DEF Vendor!Finish, VendorSession, VendorInv, Workers
<1>6. CASE Vendor!Midnight
  <2>1. today' \in Vendor!Days /\ UNCHANGED <<profile, capacity, session, interrupted>>
    BY <1>6, CampusAssumption DEF Vendor!Midnight, VendorInv, Vendor!Days
  <2> QED
    BY <2>1 DEF VendorInv, Workers, VendorSession, OneSetUp, Vendor!CapacityFollowsProfile
<1> QED BY <1>1, <1>2, <1>3, <1>4, <1>5, <1>6, VendorSetsUp, VendorOpens, VendorUpdates
     DEF Vendor!Next
-----------------------------------------------------------------------------
\* The notifications.  A worker has one row at most; no two send or create the
\* same one, and until its outcome is committed the row has none.
At == {"background", "loaded", "answered", "creating"}
Sending == {"background", "loaded", "answered"}

\* How the one send of row i ended.
Delivered(i) == \E answer \in Successes : sends[i] = <<answer>>
Refused(i) == \E answer \in Answers \ Successes : sends[i] = <<answer>>

\* What the columns of row i say of its send.
Told(i, row) ==
  /\ row.status = SENT => row.sent_at
  /\ row.sent_at => Delivered(i) \/ row.channel = "in_app"
  /\ row.status = FAILED => ~row.sent_at /\ Refused(i)

NoticeSession(s) ==
  /\ session[s] \in SessionRecords
  /\ session[s].step = "idle" => session[s].tasks = << >>
  /\ session[s].step # "idle" =>
       session[s].tasks = <<Current(s)>> /\ Current(s) \in DOMAIN notifications
  /\ session[s].step \in At =>
       notifications[Current(s)].status \in {QUEUED, READ} /\ ~notifications[Current(s)].sent_at
  /\ session[s].step \in At \ {"answered"} => sends[Current(s)] = << >>
  /\ session[s].step = "answered" =>
       IF session[s].success THEN Delivered(Current(s)) ELSE Refused(Current(s))
  /\ session[s].step = "creating" => notifications[Current(s)].channel = "in_app"
  /\ session[s].step \in At \ {"background"} => session[s].row.status \in {QUEUED, READ}
  /\ session[s].step = "reading" /\ session[s].row.status = READ =>
       notifications[Current(s)].status # QUEUED

OneSender ==
  \A s, t \in Sessions :
    session[s].step \in At /\ session[t].step \in At /\ Current(s) = Current(t) => s = t

NoticeInv ==
  /\ Workers
  /\ notifications \in Seq(Rows) /\ Len(notifications) <= MaxNotifications
  /\ sends \in [Ids -> Seq(Answers \cup {"none"})]
  /\ \A i \in Ids \ DOMAIN notifications : sends[i] = << >>
  /\ \A s \in Sessions : NoticeSession(s)
  /\ OneSender
  /\ OutcomeIsTrue

LEMMA TaskSet ==
  ASSUME NEW tasks, NEW c
  PROVE  /\ tasks = << >> => {tasks[i] : i \in DOMAIN tasks} = {}
         /\ tasks = <<c>> => {tasks[i] : i \in DOMAIN tasks} = {c}
OBVIOUS

\* Whether row i is pending or being created, read off the steps of the workers.
LEMMA PendingIsCurrent ==
  ASSUME \A s \in Sessions : NoticeSession(s), NEW i
  PROVE  /\ Pending(i) <=> \E s \in Sessions : session[s].step \in Sending /\ i = Current(s)
         /\ Creating(i) <=> \E s \in Sessions : session[s].step = "creating" /\ i = Current(s)
<1>1. ASSUME NEW s \in Sessions, session[s].step # "idle" PROVE TasksOf(s) = {Current(s)}
  BY <1>1, TaskSet DEF NoticeSession, TasksOf
<1> QED BY <1>1 DEF Pending, Creating, Sending

LEMMA PendingNext ==
  ASSUME \A s \in Sessions : NoticeSession(s)', NEW i
  PROVE  /\ Pending(i)' <=> \E s \in Sessions : session'[s].step \in Sending /\ i = Current(s)'
         /\ Creating(i)' <=> \E s \in Sessions : session'[s].step = "creating" /\ i = Current(s)'
<1>1. ASSUME NEW s \in Sessions, session'[s].step # "idle" PROVE TasksOf(s)' = {Current(s)'}
  BY <1>1, TaskSet DEF NoticeSession, TasksOf
<1> QED BY <1>1 DEF Pending, Creating, Sending

\* OutcomeIsTrue of one row, in the terms above.
LEMMA OutcomeOfRow ==
  OutcomeIsTrue <=>
    \A i \in DOMAIN notifications :
      /\ Len(sends[i]) <= 1
      /\ Told(i, notifications[i])
      /\ notifications[i].status = QUEUED => Pending(i) \/ Creating(i) \/ i \in lost
      /\ Delivered(i) => notifications[i].sent_at \/ Pending(i) \/ i \in lost
BY DEF OutcomeIsTrue, Told, Delivered, Refused

LEMMA OutcomeOfRowNext ==
  OutcomeIsTrue' <=>
    \A i \in DOMAIN notifications' :
      /\ Len(sends'[i]) <= 1
      /\ Told(i, notifications[i])'
      /\ notifications'[i].status = QUEUED => Pending(i)' \/ Creating(i)' \/ i \in lost'
      /\ Delivered(i)' => notifications'[i].sent_at \/ Pending(i)' \/ i \in lost'
BY DEF OutcomeIsTrue, Told, Delivered, Refused

\* Without a send there is neither answer.
LEMMA Unsent ==
  ASSUME NEW i, sends[i] = << >>
  PROVE  ~Delivered(i) /\ ~Refused(i)
BY DEF Delivered, Refused

LEMMA RowIds == NoticeInv => DOMAIN notifications \subseteq Ids
BY LenProperties, NotificationsAssumption DEF NoticeInv, Ids

LEMMA NoticeRows ==
  ASSUME NEW row \in Rows, NEW loaded \in Rows \cup {NoRow}
  PROVE  /\ \A success \in BOOLEAN :
              /\ MarkOutcome(row, loaded, success) \in Rows
              /\ MarkOutcome(row, loaded, success).channel = row.channel
              /\ MarkOutcome(row, loaded, success).read_at = row.read_at
              /\ row.status \in {QUEUED, READ} /\ ~row.sent_at /\ loaded.status \in {QUEUED, READ} =>
                   \/ /\ success /\ MarkOutcome(row, loaded, success).status = SENT
                      /\ MarkOutcome(row, loaded, success).sent_at
                   \/ /\ ~success /\ MarkOutcome(row, loaded, success).status = FAILED
                      /\ ~MarkOutcome(row, loaded, success).sent_at
         /\ MarkRead(row, loaded) \in Rows
         /\ MarkRead(row, loaded).channel = row.channel
         /\ MarkRead(row, loaded).sent_at = row.sent_at
         /\ MarkRead(row, loaded).read_at
BY DEF MarkOutcome, MarkRead, StatusColumn, Rows, NotificationStatus, NoRow, QUEUED, READ, SENT, FAILED

LEMMA NewRows ==
  \A topic \in Topics, channel \in NotificationChannel :
    /\ NewRow(topic, channel) \in Rows /\ NewRow(topic, channel).status = QUEUED
    /\ NewRow(topic, channel).channel = channel /\ ~NewRow(topic, channel).sent_at
BY DEF NewRow, Rows, NotificationStatus, NotificationChannel, QUEUED

\* A row without an outcome says nothing.
LEMMA NothingTold ==
  ASSUME NEW i, NEW row, row.status \in {QUEUED, READ}, ~row.sent_at
  PROVE  Told(i, row)
BY DEF Told, QUEUED, READ, SENT, FAILED

\* A step that changes no row.
LEMMA NoticeQuiet ==
  ASSUME NoticeInv, NEW s \in Sessions, NEW request,
         session' = [session EXCEPT ![s] = request], UNCHANGED notifications,
         NoticeSession(s)',
         sends' \in [Ids -> Seq(Answers \cup {"none"})],
         \A i \in Ids : sends'[i] # sends[i] =>
           session[s].step \in {"background", "loaded"} /\ i = Current(s) /\ Len(sends'[i]) <= 1,
         lost \subseteq lost',
         request.step \in At => session[s].step \in At /\ Current(s)' = Current(s),
         session[s].step \in At =>
           Current(s) \in lost' \/ (request.step \in At /\ request.step # "creating")
  PROVE  NoticeInv'
<1>1. /\ Workers' /\ session'[s] = request
      /\ \A t \in Sessions \ {s} : session'[t] = session[t]
  BY DEF NoticeInv, Workers
<1>2. ASSUME NEW t \in Sessions \ {s} PROVE NoticeSession(t)'
  <2>1. session'[t] = session[t] /\ Current(t)' = Current(t) /\ NoticeSession(t)
    BY <1>1 DEF NoticeInv, Current
  <2>2. session[t].step \in At /\ session[s].step \in At => Current(t) # Current(s)
    BY DEF NoticeInv, OneSender
  <2>3. session[t].step \in At => sends'[Current(t)] = sends[Current(t)]
    BY <2>1, <2>2, RowIds DEF NoticeInv, NoticeSession, At
  <2> QED BY <2>1, <2>3 DEF NoticeSession, At, Delivered, Refused
<1>3. OneSender'
  BY <1>1 DEF NoticeInv, OneSender, Current
<1>4. OutcomeIsTrue'
  <2> SUFFICES ASSUME NEW i \in DOMAIN notifications
               PROVE  /\ Len(sends'[i]) <= 1
                      /\ Told(i, notifications[i])'
                      /\ notifications[i].status = QUEUED => Pending(i)' \/ Creating(i)' \/ i \in lost'
                      /\ Delivered(i)' => notifications[i].sent_at \/ Pending(i)' \/ i \in lost'
    BY OutcomeOfRowNext
  <2>1. i \in Ids
    BY RowIds
  <2>2. /\ Len(sends[i]) <= 1
        /\ Told(i, notifications[i])
        /\ notifications[i].status = QUEUED => Pending(i) \/ Creating(i) \/ i \in lost
        /\ Delivered(i) => notifications[i].sent_at \/ Pending(i) \/ i \in lost
    BY OutcomeOfRow DEF NoticeInv
  <2>3. ASSUME NEW t \in Sessions, session[t].step \in At, i = Current(t)
        PROVE  \/ i \in lost'
               \/ Pending(i)'
               \/ session[t].step = "creating" /\ Creating(i)'
    <3>1. CASE t = s
      <4>1. i \in lost' \/ (session'[s].step \in Sending /\ Current(s)' = i)
        BY <1>1, <2>3, <3>1 DEF At, Sending
      <4> QED BY <1>2, <4>1, PendingNext
    <3>2. CASE t # s
      <4>1. session'[t].step = session[t].step /\ Current(t)' = i
        BY <1>1, <2>3, <3>2 DEF Current
      <4> QED BY <1>2, <2>3, <4>1, PendingNext DEF At, Sending
    <3> QED BY <3>1, <3>2
  <2>4. Pending(i) => Pending(i)' \/ i \in lost'
    BY <2>3, PendingIsCurrent DEF NoticeInv, At, Sending
  <2>5. Creating(i) => Pending(i)' \/ Creating(i)' \/ i \in lost'
    BY <2>3, PendingIsCurrent DEF NoticeInv, At
  <2>6. CASE sends'[i] = sends[i]
    <3>1. (Delivered(i)' <=> Delivered(i)) /\ (Told(i, notifications[i])' <=> Told(i, notifications[i]))
      BY <2>6 DEF Delivered, Refused, Told
    <3> QED BY <2>2, <2>4, <2>5, <2>6, <3>1
  <2>7. CASE sends'[i] # sends[i]
    <3>1. session[s].step \in {"background", "loaded"} /\ i = Current(s) /\ Len(sends'[i]) <= 1
      BY <2>1, <2>7
    <3>2. Pending(i)
      BY <3>1, PendingIsCurrent DEF NoticeInv, Sending
    <3>3. notifications'[i].status \in {QUEUED, READ} /\ ~notifications'[i].sent_at
      BY <3>1 DEF NoticeInv, NoticeSession, At
    <3>4. Told(i, notifications[i])'
      BY <3>3 DEF Told, QUEUED, READ, SENT, FAILED
    <3> QED BY <2>4, <3>1, <3>2, <3>4
  <2> QED BY <2>6, <2>7
<1>5. Current(s) \in DOMAIN notifications \/ session[s].step = "idle"
  BY DEF NoticeInv, NoticeSession
<1>6. \A i \in Ids \ DOMAIN notifications : sends'[i] = << >>
  BY <1>5 DEF NoticeInv
<1> QED BY <1>1, <1>2, <1>3, <1>4, <1>6 DEF NoticeInv

\* A row is inserted, and the worker keeps to it or does not.
LEMMA NoticeInsert ==
  ASSUME NoticeInv, NEW s \in Sessions, NEW request \in SessionRecords, NEW row \in Rows,
         session[s].step = "idle",
         Len(notifications) < MaxNotifications,
         row.status = QUEUED, ~row.sent_at,
         notifications' = Append(notifications, row),
         session' = [session EXCEPT ![s] = request],
         UNCHANGED sends, lost \subseteq lost',
         \/ request = session[s] /\ Len(notifications) + 1 \in lost'
         \/ /\ request.step \in {"background", "creating"}
            /\ request.tasks = <<Len(notifications) + 1>>
            /\ request.step = "creating" => request.row.status = QUEUED /\ row.channel = "in_app"
  PROVE  NoticeInv'
<1> DEFINE n == Len(notifications) + 1
<1>1. /\ Workers' /\ session'[s] = request
      /\ \A t \in Sessions \ {s} : session'[t] = session[t]
  BY DEF NoticeInv, Workers
<1>2. /\ notifications' \in Seq(Rows) /\ Len(notifications') = n /\ n \in Ids
      /\ DOMAIN notifications' = DOMAIN notifications \cup {n} /\ n \notin DOMAIN notifications
      /\ notifications'[n] = row
      /\ \A i \in DOMAIN notifications : notifications'[i] = notifications[i]
  BY AppendProperties, LenProperties, NotificationsAssumption DEF NoticeInv, Ids
<1>4. sends[n] = << >>
  BY <1>2 DEF NoticeInv
<1> HIDE DEF n
<1>5. \/ session'[s].step = "idle" /\ session'[s] = session[s] /\ n \in lost'
      \/ session'[s].step \in {"background", "creating"} /\ Current(s)' = n
  BY <1>1 DEF Current, n
<1>6. ASSUME NEW t \in Sessions, session'[t] = session[t] PROVE NoticeSession(t)'
  BY <1>2, <1>6 DEF NoticeInv, NoticeSession, Current, At, Delivered, Refused
<1>7. ASSUME session'[s].step \in {"background", "creating"}, Current(s)' = n PROVE NoticeSession(s)'
  <2>1. /\ session'[s].tasks = <<n>>
        /\ session'[s].step = "creating" => session'[s].row.status = QUEUED /\ row.channel = "in_app"
    BY <1>1, <1>7 DEF n
  <2>2. session'[s] \in SessionRecords
    BY <1>1, <1>7
  <2>3. session'[s].tasks = <<Current(s)'>> /\ Current(s)' \in DOMAIN notifications'
    BY <1>2, <1>7, <2>1
  <2>4. notifications'[Current(s)'] = row
    BY <1>2, <1>7
  <2>5. sends'[Current(s)'] = << >>
    BY <1>4, <1>7
  <2> QED BY <1>7, <2>1, <2>2, <2>3, <2>4, <2>5 DEF NoticeSession, At
<1>8. \A t \in Sessions : NoticeSession(t)'
  <2>1. NoticeSession(s)'
    BY <1>5, <1>6, <1>7
  <2> QED BY <1>1, <1>6, <2>1
<1>9. \A t \in Sessions : session[t].step \in At => Current(t) \in DOMAIN notifications
  BY DEF NoticeInv, NoticeSession, At
<1>10. OneSender'
  BY <1>1, <1>2, <1>5, <1>9 DEF NoticeInv, OneSender, Current, At
<1>11. OutcomeIsTrue'
  <2> SUFFICES ASSUME NEW i \in DOMAIN notifications'
               PROVE  /\ Len(sends[i]) <= 1
                      /\ Told(i, notifications'[i])
                      /\ notifications'[i].status = QUEUED => Pending(i)' \/ Creating(i)' \/ i \in lost'
                      /\ Delivered(i) => notifications'[i].sent_at \/ Pending(i)' \/ i \in lost'
    BY OutcomeOfRowNext DEF Told, Delivered, Refused
  <2>1. CASE i = n
    <3>1. ~Delivered(i) /\ Told(i, notifications'[i]) /\ Len(sends[i]) <= 1
      BY <1>2, <1>4, <2>1, Unsent, NothingTold
    <3>2. Pending(i)' \/ Creating(i)' \/ i \in lost'
      BY <1>5, <1>8, <2>1, PendingNext DEF Sending
    <3> QED BY <3>1, <3>2
  <2>2. CASE i \in DOMAIN notifications
    <3>1. ASSUME NEW t \in Sessions, session[t].step # "idle" PROVE session'[t] = session[t]
      BY <1>1, <3>1
    <3>2. (Pending(i) => Pending(i)') /\ (Creating(i) => Creating(i)')
      BY <3>1 DEF Pending, Creating, TasksOf
    <3>3. /\ Len(sends[i]) <= 1
          /\ Told(i, notifications[i])
          /\ notifications[i].status = QUEUED => Pending(i) \/ Creating(i) \/ i \in lost
          /\ Delivered(i) => notifications[i].sent_at \/ Pending(i) \/ i \in lost
      BY <2>2, OutcomeOfRow DEF NoticeInv
    <3> QED BY <1>2, <2>2, <3>2, <3>3
  <2> QED BY <1>2, <2>1, <2>2
<1> QED BY <1>1, <1>2, <1>8, <1>10, <1>11 DEF NoticeInv, Ids

\* A worker that is done with its row.
Ended(s) ==
  session' = [session EXCEPT ![s] = IdleSession] /\ UNCHANGED <<sends, lost>>

\* The row a worker commits as its last step: it tells of the send, takes away
\* nothing that was told before, and leaves the row to others only as it was.
Outcome(s, row) ==
  /\ Told(Current(s), row)
  /\ row.status # QUEUED
  /\ row.channel = notifications[Current(s)].channel
  /\ notifications[Current(s)].read_at => row.read_at
  /\ \/ session[s].step \in At /\ (Delivered(Current(s)) => row.sent_at)
     \/ /\ session[s].step = "reading"
        /\ row.status = READ \/ row.status = notifications[Current(s)].status
        /\ row.sent_at = notifications[Current(s)].sent_at
        /\ notifications[Current(s)].status = READ => row.status = READ

LEMMA NoticeEnds ==
  ASSUME NoticeInv, NEW s \in Sessions, session[s].step # "idle", NEW row \in Rows,
         notifications' = [notifications EXCEPT ![Current(s)] = row],
         Ended(s), Outcome(s, row)
  PROVE  NoticeInv'
<1> DEFINE c == Current(s)
<1>1. /\ Workers' /\ session'[s].step = "idle" /\ session'[s].tasks = << >>
      /\ session'[s] \in SessionRecords
      /\ \A t \in Sessions \ {s} : session'[t] = session[t] /\ Current(t)' = Current(t)
  <2>1. IdleSession \in SessionRecords
    BY DEF IdleSession, SessionRecords
  <2> QED BY <2>1 DEF NoticeInv, Workers, Ended, Current, IdleSession
<1>2. c \in DOMAIN notifications
  BY DEF NoticeInv, NoticeSession
<1>o. /\ Told(c, row) /\ row.status # QUEUED /\ row.channel = notifications[c].channel
      /\ \/ session[s].step \in At /\ (Delivered(c) => row.sent_at)
         \/ /\ session[s].step = "reading"
            /\ row.status = READ \/ row.status = notifications[c].status
            /\ row.sent_at = notifications[c].sent_at
  BY DEF Outcome
<1>n. \A t \in Sessions \ {s} : session[t].step \in At /\ session[s].step \in At => Current(t) # c
  BY DEF NoticeInv, OneSender
<1> HIDE DEF c
<1>3. /\ notifications' \in Seq(Rows) /\ Len(notifications') = Len(notifications)
      /\ DOMAIN notifications' = DOMAIN notifications
      /\ notifications'[c] = row
      /\ \A i \in DOMAIN notifications \ {c} : notifications'[i] = notifications[i]
  BY <1>2, ExceptSeq, LenProperties DEF NoticeInv, c
<1>4. UNCHANGED <<sends, lost>>
  BY DEF Ended
<1>5. ASSUME NEW t \in Sessions \ {s} PROVE NoticeSession(t)'
  <2>1. NoticeSession(t)
    BY DEF NoticeInv
  <2>2. session[t].step \in At => Current(t) \in DOMAIN notifications
    BY <2>1 DEF NoticeSession, At
  <2>3. session[t].step \in At =>
          notifications'[Current(t)].status \in {QUEUED, READ} /\ ~notifications'[Current(t)].sent_at
    BY <1>3, <1>o, <1>n, <2>1, <2>2 DEF NoticeSession, At
  <2>4. session[t].step \in At => notifications'[Current(t)].channel = notifications[Current(t)].channel
    BY <1>3, <1>o, <2>2
  <2>5. session[t].step = "reading" /\ session[t].row.status = READ =>
          notifications'[Current(t)].status # QUEUED
    BY <1>3, <1>o, <2>1 DEF NoticeSession
  <2> QED BY <1>1, <1>3, <1>4, <2>1, <2>3, <2>4, <2>5
         DEF NoticeSession, At, Delivered, Refused
<1>6. NoticeSession(s)'
  BY <1>1 DEF NoticeSession, At
<1>7. OneSender'
  BY <1>1 DEF NoticeInv, OneSender, At
<1>8. OutcomeIsTrue'
  <2> SUFFICES ASSUME NEW i \in DOMAIN notifications
               PROVE  /\ Len(sends[i]) <= 1
                      /\ Told(i, notifications'[i])
                      /\ notifications'[i].status = QUEUED => Pending(i)' \/ Creating(i)' \/ i \in lost
                      /\ Delivered(i) => notifications'[i].sent_at \/ Pending(i)' \/ i \in lost
    BY <1>3, <1>4, OutcomeOfRowNext DEF Told, Delivered, Refused
  <2>1. /\ Len(sends[i]) <= 1
        /\ Told(i, notifications[i])
        /\ notifications[i].status = QUEUED => Pending(i) \/ Creating(i) \/ i \in lost
        /\ Delivered(i) => notifications[i].sent_at \/ Pending(i) \/ i \in lost
    BY OutcomeOfRow DEF NoticeInv
  <2>2. ASSUME i # c \/ session[s].step \notin At
        PROVE  (Pending(i) => Pending(i)') /\ (Creating(i) => Creating(i)')
    <3>1. ASSUME NEW t \in Sessions, session[t].step \in At, i = Current(t)
          PROVE  session'[t].step = session[t].step /\ i = Current(t)'
      BY <1>1, <2>2, <3>1 DEF c
    <3>2. \A t \in Sessions : NoticeSession(t) /\ NoticeSession(t)'
      BY <1>5, <1>6 DEF NoticeInv
    <3>3. Pending(i) => Pending(i)'
      BY <3>1, <3>2, PendingIsCurrent, PendingNext DEF Sending, At
    <3>4. Creating(i) => Creating(i)'
      BY <3>1, <3>2, PendingIsCurrent, PendingNext DEF At
    <3> QED BY <3>3, <3>4
  <2>3. CASE i # c
    BY <1>3, <2>1, <2>2, <2>3
  <2>4. CASE i = c /\ session[s].step \in At
    BY <1>3, <1>o, <2>1, <2>4 DEF At
  <2>5. CASE i = c /\ session[s].step \notin At
    BY <1>3, <1>o, <2>1, <2>2, <2>5
  <2> QED BY <2>3, <2>4, <2>5
<1> QED BY <1>1, <1>3, <1>4, <1>5, <1>6, <1>7, <1>8 DEF NoticeInv
\* The invariant of one worker, spelled out.
LEMMA SessionFacts ==
  ASSUME NoticeInv, NEW s \in Sessions
  PROVE  /\ NoticeSession(s) /\ session[s] \in SessionRecords
         /\ session[s].step = "idle" => session[s].tasks = << >>
         /\ session[s].step # "idle" =>
              /\ Current(s) \in DOMAIN notifications /\ Current(s) \in Ids
              /\ notifications[Current(s)] \in Rows
              /\ session[s].tasks = <<Current(s)>>
BY RowIds, ItemOfSeq DEF NoticeInv, NoticeSession

\* The session of a worker that goes on with its row.
LEMMA NoticeGoesOn ==
  ASSUME NoticeInv, NEW s \in Sessions, session[s].step # "idle",
         NEW step \in {"loaded", "answered"}, NEW row \in Rows \cup {NoRow}, NEW success \in BOOLEAN,
         session' = [session EXCEPT ![s] = [session[s] EXCEPT !.step = step, !.row = row,
                                                              !.success = success]]
  PROVE  /\ session'[s] \in SessionRecords /\ session'[s].step = step /\ session'[s].row = row
         /\ session'[s].tasks = <<Current(s)>> /\ Current(s)' = Current(s)
<1>1. session'[s] = [session[s] EXCEPT !.step = step, !.row = row, !.success = success]
  BY DEF NoticeInv, Workers
<1>2. session[s] \in SessionRecords /\ session[s].tasks = <<Current(s)>>
  BY SessionFacts
<1>3. session'[s].tasks = session[s].tasks
  BY <1>1, <1>2 DEF SessionRecords
<1>4. Current(s)' = Current(s)
  BY <1>3 DEF Current
<1> QED BY <1>1, <1>2, <1>3, <1>4 DEF SessionRecords

LEMMA NoticeQueued ==
  ASSUME NoticeInv, NEW s \in Sessions, NEW topic \in Topics, NEW channel \in NotificationChannel,
         Notify(s, topic, channel) \/ CreateBegin(s, topic, channel)
  PROVE  NoticeInv'
<1> DEFINE n == Len(notifications) + 1
           row == NewRow(topic, channel)
<1>1. /\ row \in Rows /\ row.status = QUEUED /\ ~row.sent_at
      /\ Len(notifications) \in Nat /\ Len(notifications) < MaxNotifications
      /\ session[s].step = "idle" /\ session[s].tasks = << >>
      /\ session[s] \in SessionRecords /\ row.channel = channel
  BY NewRows, SessionFacts DEF NoticeInv, Notify, Queue, CreateBegin
<1>2. /\ notifications' = Append(notifications, row) /\ UNCHANGED sends /\ lost \subseteq lost'
      /\ CreateBegin(s, topic, channel) /\ channel # "in_app" => n \in lost'
  BY DEF Notify, Queue, CreateBegin
<1>3. n \in Ids /\ <<n>> \in Seq(Ids)
  <2>1. n \in Ids
    BY <1>1, NotificationsAssumption DEF Ids
  <2> HIDE DEF n
  <2> QED BY <2>1
<1> HIDE DEF row
<1>4. CASE Notify(s, topic, channel)
  <2> DEFINE request == [session[s] EXCEPT !.tasks = Append(@, n), !.step = "background"]
  <2>1. session' = [session EXCEPT ![s] = request]
    BY <1>4 DEF Notify, Queue
  <2>2. Append(session[s].tasks, n) = <<n>>
    BY <1>1
  <2>3. request = [session[s] EXCEPT !.tasks = <<n>>, !.step = "background"]
    BY <2>2
  <2>4. /\ request \in SessionRecords /\ request.step = "background" /\ request.tasks = <<n>>
    BY <1>1, <1>3, <2>3 DEF SessionRecords
  <2> QED BY <1>1, <1>2, <2>1, <2>4, NoticeInsert
<1>5. CASE CreateBegin(s, topic, channel) /\ channel = "in_app"
  <2> DEFINE request == [IdleSession EXCEPT !.step = "creating", !.tasks = <<n>>, !.row = row]
  <2>1. session' = [session EXCEPT ![s] = request]
    BY <1>5 DEF CreateBegin, row
  <2>2. /\ request \in SessionRecords /\ request.step = "creating" /\ request.tasks = <<n>>
        /\ request.row.status = QUEUED
    BY <1>1, <1>3 DEF SessionRecords, IdleSession
  <2> QED BY <1>1, <1>2, <1>5, <2>1, <2>2, NoticeInsert
<1>6. CASE CreateBegin(s, topic, channel) /\ channel # "in_app"
  <2>1. session' = [session EXCEPT ![s] = session[s]]
    BY <1>6 DEF CreateBegin, NoticeInv, Workers
  <2> QED BY <1>1, <1>2, <1>6, <2>1, NoticeInsert
<1> QED BY <1>4, <1>5, <1>6

LEMMA NoticeDispatch ==
  ASSUME NoticeInv, NEW s \in Sessions
  PROVE  /\ DispatchLoad(s) => NoticeInv'
         /\ \A answer \in Answers : DispatchSend(s, answer) => NoticeInv'
<1>1. ASSUME DispatchLoad(s) PROVE NoticeInv'
  <2> DEFINE row == notifications[Current(s)]
  <2>1. row \in Rows /\ session[s].step = "background" /\ session[s].success \in BOOLEAN
    BY <1>1, SessionFacts DEF DispatchLoad, SessionRecords
  <2>2. row.status \in {QUEUED, READ} /\ ~row.sent_at /\ sends[Current(s)] = << >>
    BY <2>1, SessionFacts DEF NoticeSession, At
  <2> HIDE DEF row
  <2> DEFINE request == [session[s] EXCEPT !.step = "loaded", !.row = row,
                                           !.success = session[s].success]
  <2>3. session' = [session EXCEPT ![s] = request] /\ UNCHANGED <<notifications, sends, lost>>
    <3>1. session[s] \in SessionRecords
      BY SessionFacts
    <3>2. request = [session[s] EXCEPT !.step = "loaded", !.row = row]
      BY <3>1 DEF SessionRecords
    <3> QED BY <1>1, <3>2 DEF DispatchLoad, row
  <2>4. /\ session'[s] \in SessionRecords /\ session'[s].step = "loaded" /\ session'[s].row = row
        /\ session'[s].tasks = <<Current(s)>> /\ Current(s)' = Current(s)
    BY <2>1, <2>3, NoticeGoesOn
  <2>5. NoticeSession(s)'
    BY <2>1, <2>2, <2>3, <2>4, SessionFacts DEF NoticeSession, At, row
  <2> QED BY <2>1, <2>3, <2>4, <2>5, NoticeQuiet DEF NoticeInv, At
<1>2. ASSUME NEW answer \in Answers, DispatchSend(s, answer) PROVE NoticeInv'
  <2> DEFINE success == answer \in Successes
             row == session[s].row
  <2>1. /\ row \in Rows \cup {NoRow} /\ session[s].step = "loaded" /\ success \in BOOLEAN
        /\ row.status \in {QUEUED, READ} /\ sends[Current(s)] = << >>
        /\ Current(s) \in Ids
    BY <1>2, SessionFacts DEF DispatchSend, SessionRecords, NoticeSession, At
  <2>2. /\ sends' = [sends EXCEPT ![Current(s)] = <<answer>>]
        /\ sends \in [Ids -> Seq(Answers \cup {"none"})]
    BY <1>2, <2>1 DEF DispatchSend, NoticeInv
  <2>3. sends' \in [Ids -> Seq(Answers \cup {"none"})] /\ sends'[Current(s)] = <<answer>>
    BY <2>1, <2>2
  <2> HIDE DEF row
  <2> DEFINE request == [session[s] EXCEPT !.step = "answered", !.row = row, !.success = success]
  <2>4. session' = [session EXCEPT ![s] = request] /\ UNCHANGED <<notifications, lost>>
    <3>1. session[s] \in SessionRecords
      BY SessionFacts
    <3>2. request = [session[s] EXCEPT !.step = "answered", !.success = success]
      BY <3>1 DEF SessionRecords, row
    <3> QED BY <1>2, <3>2 DEF DispatchSend
  <2> HIDE DEF success
  <2>5. /\ session'[s] \in SessionRecords /\ session'[s].step = "answered" /\ session'[s].row = row
        /\ session'[s].tasks = <<Current(s)>> /\ Current(s)' = Current(s)
    BY <2>1, <2>4, NoticeGoesOn
  <2>6. session'[s].success <=> success
    <3>1. session'[s] = request /\ session[s] \in SessionRecords
      BY <2>4, SessionFacts DEF NoticeInv, Workers
    <3> QED BY <3>1 DEF SessionRecords
  <2>7. IF session'[s].success THEN Delivered(Current(s))' ELSE Refused(Current(s))'
    <3>1. sends'[Current(s)'] = <<answer>>
      BY <2>3, <2>5
    <3> QED BY <1>2, <2>6, <3>1 DEF Delivered, Refused, success
  <2>8. NoticeSession(s)'
    BY <2>1, <2>4, <2>5, <2>7, SessionFacts DEF NoticeSession, At
  <2>9. \A i \in Ids : sends'[i] # sends[i] => i = Current(s) /\ Len(sends'[i]) <= 1
    BY <2>1, <2>2, <2>3
  <2> QED BY <2>1, <2>3, <2>4, <2>5, <2>8, <2>9, NoticeQuiet DEF At
<1> QED BY <1>1, <1>2

LEMMA NextTaskEnds ==
  ASSUME NoticeInv, NEW s \in Sessions, NextTask(s, << >>), UNCHANGED <<sends, lost>>
  PROVE  Ended(s)
<1>1. [IdleSession EXCEPT !.step = IF << >> = << >> THEN "idle" ELSE "background",
                          !.tasks = << >>] = IdleSession
  <2>1. (IF << >> = << >> THEN "idle" ELSE "background") = "idle"
    OBVIOUS
  <2>2. [IdleSession EXCEPT !.step = "idle", !.tasks = << >>] = IdleSession
    <3>1. IdleSession \in [step : {"idle"}, tasks : {<< >>}, row : {NoRow}, success : {FALSE}]
      BY DEF IdleSession
    <3>2. \A r \in [step : {"idle"}, tasks : {<< >>}, row : {NoRow}, success : {FALSE}] :
            [r EXCEPT !.step = "idle", !.tasks = << >>] = r
      OBVIOUS
    <3> QED BY <3>1, <3>2
  <2> QED BY <2>1, <2>2
<1> QED BY <1>1 DEF NextTask, Ended

\* The row a worker commits, and that it ends with it.
LEMMA NoticeCommits ==
  ASSUME NoticeInv, NEW s \in Sessions,
         DispatchCommit(s) \/ CreateCommit(s) \/ ReadCommit(s)
  PROVE  /\ Ended(s) /\ session[s].step # "idle"
         /\ \E row \in Rows :
              /\ notifications' = [notifications EXCEPT ![Current(s)] = row]
              /\ Outcome(s, row)
<1> DEFINE old == notifications[Current(s)]
           loaded == session[s].row
<1>1. /\ session[s].step \in {"answered", "creating", "reading"}
      /\ old \in Rows /\ loaded \in Rows \cup {NoRow} /\ session[s].success \in BOOLEAN
      /\ session[s].tasks = <<Current(s)>> /\ Current(s) \in DOMAIN notifications
  BY SessionFacts DEF DispatchCommit, CreateCommit, ReadCommit, SessionRecords
<1>2. Tail(<<Current(s)>>) = << >>
  <2>1. \A c : Tail(<<c>>) = << >>
    OBVIOUS
  <2> QED BY <2>1
<1>3. Ended(s)
  <2>1. NextTask(s, << >>) /\ UNCHANGED <<sends, lost>>
    BY <1>1, <1>2 DEF DispatchCommit, CreateCommit, ReadCommit, Remaining
  <2> QED BY <2>1, NextTaskEnds
<1>4. Told(Current(s), old)
  BY <1>1, OutcomeOfRow DEF NoticeInv
<1>5. /\ READ # SENT /\ READ # FAILED /\ READ # QUEUED
      /\ SENT # FAILED /\ SENT # QUEUED /\ FAILED # QUEUED
  BY DEF READ, SENT, FAILED, QUEUED
<1>6. session[s].step \in At => /\ old.status \in {QUEUED, READ} /\ ~old.sent_at
                                /\ loaded.status \in {QUEUED, READ}
  BY <1>1, SessionFacts DEF NoticeSession, At
<1>r. \A success \in BOOLEAN :
        /\ MarkOutcome(old, loaded, success) \in Rows
        /\ MarkOutcome(old, loaded, success).channel = old.channel
        /\ MarkOutcome(old, loaded, success).read_at = old.read_at
        /\ old.status \in {QUEUED, READ} /\ ~old.sent_at /\ loaded.status \in {QUEUED, READ} =>
             \/ /\ success /\ MarkOutcome(old, loaded, success).status = SENT
                /\ MarkOutcome(old, loaded, success).sent_at
             \/ /\ ~success /\ MarkOutcome(old, loaded, success).status = FAILED
                /\ ~MarkOutcome(old, loaded, success).sent_at
  <2> HIDE DEF old, loaded
  <2> QED BY <1>1, NoticeRows
<1> HIDE DEF loaded
<1>7. ASSUME NEW success \in BOOLEAN,
             notifications' = [notifications EXCEPT ![Current(s)] = MarkOutcome(old, loaded, success)],
             session[s].step \in At,
             success => Delivered(Current(s)) \/ old.channel = "in_app",
             ~success => Refused(Current(s)) /\ ~Delivered(Current(s))
      PROVE  \E row \in Rows :
               notifications' = [notifications EXCEPT ![Current(s)] = row] /\ Outcome(s, row)
  <2> DEFINE row == MarkOutcome(old, loaded, success)
  <2>1. row \in Rows /\ row.channel = old.channel /\ row.read_at = old.read_at
    BY <1>r
  <2>2. \/ success /\ row.status = SENT /\ row.sent_at
        \/ ~success /\ row.status = FAILED /\ ~row.sent_at
    BY <1>6, <1>7, <1>r
  <2>3. notifications' = [notifications EXCEPT ![Current(s)] = row]
    BY <1>7
  <2> HIDE DEF row
  <2>4. Told(Current(s), row)
    BY <1>5, <1>7, <2>1, <2>2 DEF Told
  <2>5. Outcome(s, row)
    BY <1>5, <1>7, <2>1, <2>2, <2>4 DEF Outcome
  <2> QED BY <2>1, <2>3, <2>5
<1>8. CASE DispatchCommit(s)
  <2>1. session[s].step = "answered" /\ NoticeSession(s)
    BY <1>8, SessionFacts DEF DispatchCommit
  <2>2. notifications' = [notifications EXCEPT ![Current(s)] =
                            MarkOutcome(old, loaded, session[s].success)]
    BY <1>8 DEF DispatchCommit, loaded
  <2>3. IF session[s].success THEN Delivered(Current(s)) ELSE Refused(Current(s))
    BY <2>1 DEF NoticeSession
  <2>4. Refused(Current(s)) => ~Delivered(Current(s))
    BY DEF Refused, Delivered
  <2> QED BY <1>1, <1>3, <1>7, <2>1, <2>2, <2>3, <2>4 DEF At
<1>9. CASE CreateCommit(s)
  <2>1. session[s].step = "creating" /\ old.channel = "in_app"
    BY <1>9, SessionFacts DEF CreateCommit, NoticeSession
  <2>2. notifications' = [notifications EXCEPT ![Current(s)] = MarkOutcome(old, loaded, TRUE)]
    BY <1>9 DEF CreateCommit, loaded
  <2> QED BY <1>1, <1>3, <1>7, <2>1, <2>2 DEF At
<1>10. CASE ReadCommit(s)
  <2> DEFINE row == MarkRead(old, loaded)
  <2>1. notifications' = [notifications EXCEPT ![Current(s)] = row]
    BY <1>10 DEF ReadCommit, loaded
  <2>2. row \in Rows /\ row.channel = old.channel /\ row.sent_at = old.sent_at /\ row.read_at
    BY <1>1, NoticeRows
  <2>3. \/ row.status = READ
        \/ row.status = old.status /\ loaded.status = READ
    BY <1>1 DEF MarkRead, StatusColumn, Rows
  <2>4. session[s].step = "reading" /\ (old.status # QUEUED \/ loaded.status # READ)
    BY <1>10, SessionFacts DEF NoticeSession, ReadCommit, loaded
  <2> HIDE DEF row
  <2>5. row.status # QUEUED
    BY <2>3, <2>4, <1>5
  <2>6. Told(Current(s), row)
    BY <1>4, <1>5, <2>2, <2>3 DEF Told
  <2>7. Outcome(s, row)
    BY <2>2, <2>3, <2>4, <2>5, <2>6 DEF Outcome
  <2> QED BY <1>1, <1>3, <2>1, <2>2, <2>7
<1> QED BY <1>8, <1>9, <1>10

LEMMA NoticeStep ==
  ASSUME NoticeInv, NotificationsNext
  PROVE  NoticeInv'
<1>1. ASSUME NEW s \in Sessions,
             DispatchCommit(s) \/ CreateCommit(s) \/ ReadCommit(s)
      PROVE  NoticeInv'
  BY <1>1, NoticeCommits, NoticeEnds
<1>2. ASSUME NEW s \in Sessions, NEW i \in Ids, ReadBegin(s, i) PROVE NoticeInv'
  <2> DEFINE row == notifications[i]
             request == [IdleSession EXCEPT !.step = "reading", !.tasks = <<i>>, !.row = row]
  <2>1. i \in DOMAIN notifications /\ row \in Rows /\ session[s].step = "idle"
    BY <1>2, ItemOfSeq DEF ReadBegin, NoticeInv
  <2>2. session' = [session EXCEPT ![s] = request] /\ UNCHANGED <<notifications, sends, lost>>
    BY <1>2 DEF ReadBegin
  <2>3. row.status = READ => row.status # QUEUED
    BY DEF READ, QUEUED
  <2> HIDE DEF row
  <2>8. <<i>> \in Seq(Ids)
    OBVIOUS
  <2>4. /\ request \in SessionRecords /\ request.step = "reading" /\ request.tasks = <<i>>
        /\ request.row = row
    BY <2>1, <2>8 DEF SessionRecords, IdleSession
  <2>5. session'[s] = request
    BY <2>2 DEF NoticeInv, Workers
  <2> HIDE DEF request
  <2>6. Current(s)' = i
    BY <2>4, <2>5 DEF Current
  <2>7. NoticeSession(s)'
    BY <2>1, <2>2, <2>3, <2>4, <2>5, <2>6 DEF NoticeSession, At, row
  <2> QED BY <2>1, <2>2, <2>4, <2>7, NoticeQuiet DEF NoticeInv, At
<1>3. ASSUME NEW s \in Sessions, Die(s) PROVE NoticeInv'
  <2>1. /\ session' = [session EXCEPT ![s] = IdleSession] /\ UNCHANGED notifications
        /\ lost \subseteq lost' /\ session[s].step # "idle"
    BY <1>3 DEF Die
  <2>2. IdleSession \in SessionRecords /\ IdleSession.step = "idle" /\ IdleSession.tasks = << >>
    BY DEF IdleSession, SessionRecords
  <2>3. session'[s] = IdleSession
    BY <2>1 DEF NoticeInv, Workers
  <2>4. NoticeSession(s)'
    BY <2>2, <2>3 DEF NoticeSession, At
  <2>5. session[s].step \in At => Current(s) \in lost'
    <3>1. session[s].step \in At => Current(s) \in TasksOf(s)
      BY SessionFacts, TaskSet DEF TasksOf, At
    <3> QED BY <1>3, <3>1 DEF Die, At
  <2>6. /\ sends' \in [Ids -> Seq(Answers \cup {"none"})]
        /\ \A i \in Ids : sends'[i] # sends[i] =>
             /\ session[s].step \in {"background", "loaded"}
             /\ i = Current(s) /\ Len(sends'[i]) <= 1
    <3>1. CASE session[s].step \in {"background", "loaded"}
      <4>1. sends[Current(s)] = << >> /\ Current(s) \in Ids
        BY <3>1, SessionFacts DEF NoticeSession, At
      <4>2. sends' = [sends EXCEPT ![Current(s)] = <<"none">>]
        BY <1>3, <3>1, <4>1 DEF Die
      <4> QED BY <3>1, <4>1, <4>2 DEF NoticeInv
    <3>2. CASE session[s].step \notin {"background", "loaded"}
      BY <1>3, <3>2 DEF Die, NoticeInv
    <3> QED BY <3>1, <3>2
  <2> QED BY <2>1, <2>2, <2>4, <2>5, <2>6, NoticeQuiet DEF At
<1> QED BY <1>1, <1>2, <1>3, NoticeQueued, NoticeDispatch DEF NotificationsNext, Dispatch

\* What ReadIsFinal says of row i.
StaysRead(i) ==
  /\ notifications[i].read_at => notifications'[i].read_at
  /\ notifications[i].status = READ /\ ~Pending(i) /\ ~Creating(i) => notifications'[i].status = READ

LEMMA NoticeStays ==
  ASSUME NoticeInv, NotificationsNext, NEW i \in DOMAIN notifications
  PROVE  StaysRead(i)
<1>1. ASSUME NEW s \in Sessions, session[s].step \in At, Current(s) = i
      PROVE  Pending(i) \/ Creating(i)
  BY <1>1, PendingIsCurrent DEF NoticeInv, At, Sending
<1>2. ASSUME NEW s \in Sessions,
             DispatchCommit(s) \/ CreateCommit(s) \/ ReadCommit(s)
      PROVE  StaysRead(i)
  <2>1. PICK row \in Rows :
          notifications' = [notifications EXCEPT ![Current(s)] = row] /\ Outcome(s, row)
    BY <1>2, NoticeCommits
  <2>2. notifications'[i] = IF i = Current(s) THEN row ELSE notifications[i]
    BY <2>1 DEF NoticeInv
  <2> QED BY <1>1, <2>1, <2>2 DEF Outcome, StaysRead
<1>3. ASSUME notifications'[i] = notifications[i] PROVE StaysRead(i)
  BY <1>3 DEF StaysRead
<1>4. ASSUME NEW s \in Sessions, NEW topic \in Topics, NEW channel \in NotificationChannel,
             Notify(s, topic, channel) \/ CreateBegin(s, topic, channel)
      PROVE  StaysRead(i)
  <2>1. notifications' = Append(notifications, NewRow(topic, channel))
    BY <1>4 DEF Notify, Queue, CreateBegin
  <2>2. notifications'[i] = notifications[i]
    BY <2>1, NewRows, AppendProperties, LenProperties DEF NoticeInv
  <2> QED BY <2>2, <1>3
<1> QED BY <1>2, <1>3, <1>4 DEF NotificationsNext, Dispatch, DispatchLoad, DispatchSend, ReadBegin, Die
-----------------------------------------------------------------------------
\* All together.  The tables of a component that is not at work are as they were.
Elsewhere ==
  /\ component # "catalog" => cached = NoCatalog
  /\ component # "waitlist" => entries = << >>
  /\ component # "bookings" => bookings = << >>
  /\ component # "accounts" => users = << >> /\ accepted = [c \in Account!CodeIds |-> 0]
  /\ component # "notifications" => notifications = << >>

IInv ==
  /\ Elsewhere
  /\ component = "catalog" => StaleInv /\ CatalogInv
  /\ component = "waitlist" => WaitingInv
  /\ component = "bookings" => BookingInv
  /\ component = "accounts" => AccountInv /\ AcceptedInv
  /\ component = "vendors" => VendorInv
  /\ component = "notifications" => NoticeInv

LEMMA CatalogStart == Init => StaleInv /\ CatalogInv
<1> SUFFICES ASSUME Init PROVE StaleInv /\ CatalogInv
  OBVIOUS
<1>1. Workers /\ \A s \in Sessions : session[s].step = "idle"
  BY DEF Init, Workers, IdleSession
<1>2. cached = NoCatalog /\ items \in Seq(Catalog!Items)
  BY DEF Init
<1> QED BY <1>1, <1>2 DEF StaleInv, StaleNeedsRace, Catalog!StaleNeedsRace, CatalogInv, CatalogSession

LEMMA WaitingStart == Init => WaitingInv
<1> SUFFICES ASSUME Init PROVE WaitingInv
  OBVIOUS
<1>1. Workers /\ \A s \in Sessions : session[s].step = "idle"
  BY DEF Init, Workers, IdleSession
<1>2. entries = << >> /\ entries \in Seq(Waiting!Entries) /\ DOMAIN entries = {}
  BY DEF Init
<1> QED BY <1>1, <1>2 DEF WaitingInv, Waiting!ActiveEntries

LEMMA AccountStart == Init => AccountInv /\ AcceptedInv
<1> SUFFICES ASSUME Init PROVE AccountInv /\ AcceptedInv
  OBVIOUS
<1>1. Workers /\ \A s \in Sessions : session[s].step = "idle"
  BY DEF Init, Workers, IdleSession
<1>2. /\ users \in Seq(Account!Users) /\ codes \in Seq(CodeRows) /\ Len(codes) <= MaxCodes
      /\ DOMAIN users = {} /\ DOMAIN codes = {}
  BY CampusAssumption DEF Init
<1>3. accepted = [c \in Account!CodeIds |-> 0]
  BY DEF Init, Account!CodeIds
<1>4. AccountInv
  BY <1>1, <1>2 DEF AccountInv, AccountSession, VerificationIsWhole, Account!VerificationIsWhole
<1>5. ASSUME NEW c PROVE Cardinality(Consuming(c)) = 0
  <2>1. Consuming(c) = {}
    BY <1>1 DEF Consuming
  <2> QED BY <2>1, FS_EmptySet
<1>6. AcceptedInv
  <2>1. Cardinality(Sessions) \in Nat
    BY ConsumingFinite
  <2>2. \A c \in Account!CodeIds : accepted[c] = 0 /\ accepted[c] + Cardinality(Consuming(c)) <= Cardinality(Sessions)
    BY <1>3, <1>5, <2>1
  <2> QED BY <1>1, <1>3, <2>2 DEF AcceptedInv
<1> QED BY <1>4, <1>6

LEMMA VendorStart == Init => VendorInv
<1> SUFFICES ASSUME Init PROVE VendorInv
  OBVIOUS
<1>1. Workers /\ \A s \in Sessions : session[s].step = "idle"
  BY DEF Init, Workers, IdleSession
<1>2. /\ profile \in [Vendors -> {Vendor!ABSENT, Vendor!OPEN, Vendor!CLOSED}]
      /\ capacity \in [Vendors -> SUBSET Vendor!Days] /\ today \in Vendor!Days
      /\ \A v \in Vendors : profile[v] = Vendor!ABSENT /\ capacity[v] = {}
  BY CampusAssumption DEF Init, Vendor!Days
<1> QED BY <1>1, <1>2 DEF VendorInv, VendorSession, OneSetUp, Vendor!CapacityFollowsProfile

LEMMA NoticeStart == Init /\ component = "notifications" => NoticeInv
<1> SUFFICES ASSUME Init, component = "notifications" PROVE NoticeInv
  OBVIOUS
<1>1. session = [s \in Sessions |-> IdleSession] /\ Workers
  BY DEF Init, Workers
<1>2. IdleSession \in SessionRecords /\ IdleSession.step = "idle" /\ IdleSession.tasks = << >>
  BY DEF IdleSession, SessionRecords
<1>3. \A s \in Sessions : NoticeSession(s) /\ session[s].step \notin At
  BY <1>1, <1>2 DEF NoticeSession, At
<1>4. /\ notifications \in Seq(Rows) /\ Len(notifications) <= MaxNotifications
      /\ DOMAIN notifications = {}
  BY NotificationsAssumption DEF Init
<1>5. sends \in [Ids -> Seq(Answers \cup {"none"})] /\ \A i \in Ids : sends[i] = << >>
  BY DEF Init
<1> QED BY <1>1, <1>3, <1>4, <1>5 DEF NoticeInv, OneSender, OutcomeIsTrue

LEMMA IInvInit == Init => IInv
<1> SUFFICES ASSUME Init PROVE IInv
  OBVIOUS
<1>1. Elsewhere
  BY DEF Init, Elsewhere, Account!CodeIds
<1> QED BY <1>1, CatalogStart, WaitingStart, BookingStart, AccountStart, VendorStart, NoticeStart
        DEF IInv

\* Nothing happens.
LEMMA IInvStutter ==
  ASSUME IInv, UNCHANGED vars
  PROVE  IInv'
<1> USE DEF vars, catalogVars, waitingVars, bookingVars, accountVars, vendorVars, noticeVars
<1>1. Elsewhere'
  BY DEF IInv, Elsewhere
<1>2. component = "catalog" => StaleInv' /\ CatalogInv'
  BY DEF IInv, StaleInv, CatalogInv, Workers, CatalogSession, StaleNeedsRace,
     Catalog!StaleNeedsRace, Catalog!Catalog
<1>3. component = "waitlist" => WaitingInv'
  BY DEF IInv, WaitingInv, Workers, Waiting!ActiveEntries, Waiting!Place
<1>4. component = "bookings" => BookingInv'
  BY DEF IInv, BookingInv, Workers, BookingSession, LastRequestShows, Booking!LastRequestShows,
     Booking!MayCancel, Booking!Closed
<1>5. component = "accounts" => AccountInv' /\ AcceptedInv'
  BY DEF IInv, AccountInv, AcceptedInv, Workers, AccountSession, Used, VerificationIsWhole,
     Account!VerificationIsWhole, Consuming
<1>6. component = "vendors" => VendorInv'
  BY DEF IInv, VendorInv, Workers, VendorSession, OneSetUp, Vendor!CapacityFollowsProfile
<1>7. component = "notifications" => NoticeInv'
  BY DEF IInv, NoticeInv, Workers, NoticeSession, OneSender, Current, OutcomeIsTrue, Pending,
     Creating, TasksOf, Delivered, Refused
<1> QED BY <1>1, <1>2, <1>3, <1>4, <1>5, <1>6, <1>7 DEF IInv
\* What one step gives: the invariant again, and what each action property says.
LEMMA IInvStep ==
  ASSUME IInv, Next
  PROVE  /\ IInv'
         /\ KeptRemoved
         /\ \A u \in DOMAIN users : ~users[u].is_active => ~users'[u].is_active
<1> DEFINE Goal ==
      /\ IInv'
      /\ KeptRemoved
      /\ \A u \in DOMAIN users : ~users[u].is_active => ~users'[u].is_active
<1> USE DEF catalogVars, waitingVars, bookingVars, accountVars, vendorVars, noticeVars
<1>1. CASE component = "catalog" /\ Catalog!Next
  <2>1. component' = component /\ UNCHANGED <<entries, bookings, users, accepted, notifications>>
    BY <1>1 DEF Next
  <2> QED BY <1>1, <2>1, StaleStep, CatalogStep DEF IInv, Elsewhere
<1>2. CASE component = "waitlist" /\ Waiting!Next
  <2>1. component' = component
        /\ UNCHANGED <<cached, items, bookings, users, accepted, notifications>>
    BY <1>2 DEF Next
  <2> QED BY <1>2, <2>1, WaitingStep DEF IInv, Elsewhere, KeptRemoved
<1>3. CASE component = "bookings" /\ Booking!Next
  <2>1. component' = component
        /\ UNCHANGED <<cached, items, entries, users, accepted, notifications>>
    BY <1>3 DEF Next
  <2> QED BY <1>3, <2>1, BookingStep DEF IInv, Elsewhere, KeptRemoved
<1>4. CASE component = "accounts" /\ Account!Next
  <2>1. component' = component /\ UNCHANGED <<cached, items, entries, bookings, notifications>>
    BY <1>4 DEF Next
  <2> QED BY <1>4, <2>1, AccountStep, AcceptedStep DEF IInv, Elsewhere, KeptRemoved
<1>5. CASE component = "vendors" /\ Vendor!Next
  <2>1. component' = component
        /\ UNCHANGED <<cached, items, entries, bookings, users, accepted, notifications>>
    BY <1>5 DEF Next
  <2> QED BY <1>5, <2>1, VendorStep DEF IInv, Elsewhere, KeptRemoved
<1>6. CASE component = "notifications" /\ NotificationsNext
  <2>1. component' = component /\ UNCHANGED <<cached, items, entries, bookings, users, accepted>>
    BY <1>6 DEF Next
  <2> QED BY <1>6, <2>1, NoticeStep DEF IInv, Elsewhere, KeptRemoved
<1> QED BY <1>1, <1>2, <1>3, <1>4, <1>5, <1>6 DEF Next

LEMMA IInvAlways == Spec => []IInv
<1>1. IInv /\ [Next]_vars => IInv'
  BY IInvStep, IInvStutter
<1> QED BY IInvInit, <1>1, PTL DEF Spec

\* Whatever the interleaving of the requests that read, change and invalidate the
\* price list, get_full_catalog serves an old one only for the reasons named in
\* StaleNeedsRace: no change forgets _invalidate_cache.
THEOREM StaleHasReason == Spec => []StaleNeedsRace
<1>1. IInv => StaleNeedsRace
  BY DEF IInv, Elsewhere, StaleInv, StaleNeedsRace, Catalog!StaleNeedsRace
<1> QED BY IInvAlways, <1>1, PTL

\* The check of join_waitlist gives a student one active entry for an item,
\* except where joins overlapped or a closed entry was made active.
THEOREM OnePlace == Spec => []SecondPlaceNeedsRace
<1>1. IInv => SecondPlaceNeedsRace
  <2>1. CASE component = "waitlist"
    BY <2>1 DEF IInv, WaitingInv, SecondPlaceNeedsRace, Waiting!SecondPlaceNeedsRace
  <2>2. CASE IInv /\ component # "waitlist"
    <3>1. DOMAIN entries = {}
      BY <2>2 DEF IInv, Elsewhere
    <3> QED
      BY <3>1 DEF SecondPlaceNeedsRace, Waiting!SecondPlaceNeedsRace, Waiting!ActiveEntries
  <2> QED BY <2>1, <2>2
<1> QED BY IInvAlways, <1>1, PTL

\* Status and vendor of a booking are those of the request that wrote it last,
\* unless that request committed a copy another had changed the booking under.
THEOREM BookingIsOfOneRequest == Spec => []LastRequestShows
<1>1. IInv => LastRequestShows
  <2>1. CASE component = "bookings"
    BY <2>1 DEF IInv, BookingInv
  <2>2. CASE IInv /\ component # "bookings"
    <3>1. DOMAIN bookings = {}
      BY <2>2 DEF IInv, Elsewhere
    <3> QED BY <3>1 DEF LastRequestShows, Booking!LastRequestShows
  <2> QED BY <2>1, <2>2
<1> QED BY IInvAlways, <1>1, PTL

\* The two commits of verify_phone_otp: a user is verified only by a used code of
\* their own, and a used code has verified its user but for requests between the
\* commits or cut off there.
THEOREM VerificationWhole == Spec => []VerificationIsWhole
<1>1. IInv => VerificationIsWhole
  <2>1. CASE component = "accounts"
    BY <2>1 DEF IInv, AccountInv
  <2>2. CASE IInv /\ component # "accounts"
    <3>1. DOMAIN users = {}
      BY <2>2 DEF IInv, Elsewhere
    <3> QED BY <3>1 DEF VerificationIsWhole, Account!VerificationIsWhole
  <2> QED BY <2>1, <2>2
<1> QED BY IInvAlways, <1>1, PTL

\* The instance's copy of the library operator.
LEMMA SameCardinality == \A S : Account!Cardinality(S) = Cardinality(S)
BY DEF Account!Cardinality, Cardinality

\* A one-time password is accepted at most once for each worker, all of them
\* requests that looked it up before the first consumed it.
THEOREM AcceptedBounded == Spec => []CodeAcceptedOncePerWorker
<1>1. IInv => CodeAcceptedOncePerWorker
  <2>1. CASE IInv /\ component = "accounts"
    <3>1. ASSUME NEW c \in Account!CodeIds PROVE accepted[c] <= Cardinality(Sessions)
      <4>1. /\ accepted[c] \in Nat
            /\ accepted[c] + Cardinality(Consuming(c)) <= Cardinality(Sessions)
        BY <2>1 DEF IInv, AcceptedInv
      <4>2. Consuming(c) \in SUBSET Sessions
        BY DEF Consuming
      <4>3. Cardinality(Consuming(c)) \in Nat /\ Cardinality(Sessions) \in Nat
        BY <4>2, ConsumingFinite
      <4> QED BY <4>1, <4>3
    <3> QED
      BY <3>1, SameCardinality DEF CodeAcceptedOncePerWorker, Account!CodeAcceptedOncePerWorker
  <2>2. CASE IInv /\ component # "accounts"
    <3>1. \A c \in Account!CodeIds : accepted[c] = 0
      BY <2>2 DEF IInv, Elsewhere
    <3>2. Cardinality(Sessions) \in Nat
      BY ConsumingFinite
    <3> QED
      BY <3>1, <3>2, SameCardinality
      DEF CodeAcceptedOncePerWorker, Account!CodeAcceptedOncePerWorker
  <2> QED BY <2>1, <2>2
<1> QED BY IInvAlways, <1>1, PTL

\* setup_vendor_profile's two commits and the unique vendor_id: a vendor has a
\* capacity for one day at most, and is called available for that day only.
THEOREM OneCapacity == Spec => []CapacityFollowsProfile
<1>1. IInv => CapacityFollowsProfile
  BY DEF IInv, VendorInv, CapacityFollowsProfile
<1> QED BY IInvAlways, <1>1, PTL

\* No notification is sent a second time; it says sent only if its provider took
\* it or it is for the app, failed only if the provider did not; and one that is
\* queued has a task that will send it, unless that task is lost.
THEOREM OutcomesTrue == Spec => []OutcomeIsTrue
<1>1. IInv => OutcomeIsTrue
  <2>1. CASE component = "notifications"
    BY <2>1 DEF IInv, NoticeInv
  <2>2. CASE IInv /\ component # "notifications"
    <3>1. DOMAIN notifications = {}
      BY <2>2 DEF IInv, Elsewhere
    <3> QED BY <3>1 DEF OutcomeIsTrue
  <2> QED BY <2>1, <2>2
<1> QED BY IInvAlways, <1>1, PTL

\* An item taken off the price list and a deactivated account stay so, also when
\* an update that had read them before commits after; and only such an update may
\* still rename the item.
THEOREM RemovedStays == Spec => RemovedIsForever
<1>1. IInv /\ [Next]_vars =>
        [KeptRemoved]_(Catalog!vars)
  BY IInvStep DEF vars, catalogVars, Catalog!vars
<1>2. IInv /\ [Next]_vars =>
        [\A u \in DOMAIN users : ~users[u].is_active => ~users'[u].is_active]_(Account!vars)
  BY IInvStep DEF vars, accountVars, Account!vars
<1> QED
  BY IInvAlways, <1>1, <1>2, PTL
  DEF Spec, RemovedIsForever, KeptRemoved, Catalog!RemovedIsForever, Account!DeactivatedIsForever

\* A completed booking is cancelled by staff who asked update_status for that, or
\* by a cancel_booking that had read the booking before it was completed.
THEOREM CompletedStays == Spec => CompletedIsNotCancelled
<1> DEFINE Cancels ==
      \A b \in DOMAIN bookings :
        bookings[b].status = "completed" /\ bookings'[b].status = "cancelled" =>
          \E s \in Sessions :
            /\ session[s].step \in {"updating", "cancelling"}
            /\ session[s].booking = b
            /\ session'[s] = Booking!Idle
            /\ \/ session[s].step = "updating" /\ session[s].new.status = "cancelled"
               \/ session[s].step = "cancelling" /\ session[s].loaded.status # "completed"
<1>1. IInv /\ [Next]_vars => [Cancels]_(Booking!vars)
  <2>1. CASE IInv /\ Next /\ component = "bookings"
    BY <2>1, BookingCancels DEF Next, IInv
  <2>2. CASE IInv /\ Next /\ component # "bookings"
    <3>1. bookings' = bookings
      BY <2>2 DEF Next, bookingVars
    <3> QED BY <3>1
  <2>3. CASE UNCHANGED vars
    BY <2>3 DEF vars, bookingVars, Booking!vars
  <2> QED BY <2>1, <2>2, <2>3
<1> QED
  BY IInvAlways, <1>1, PTL DEF Spec, CompletedIsNotCancelled, Booking!CompletedIsNotCancelled

\* A notification keeps its read_at for ever, and the status read once its
\* dispatch is over: mark_sent and mark_failed overwrite the status only before.
THEOREM ReadStays == Spec => ReadIsFinal
<1> DEFINE Stays == \A i \in DOMAIN notifications : StaysRead(i)
<1>1. IInv /\ [Next]_vars => [Stays]_notificationVars
  <2>1. CASE IInv /\ Next /\ component = "notifications"
    BY <2>1, NoticeStays DEF Next, IInv
  <2>2. CASE IInv /\ Next /\ component # "notifications"
    <3>1. notifications' = notifications
      BY <2>2 DEF Next, noticeVars
    <3> QED BY <3>1 DEF StaysRead
  <2>3. CASE UNCHANGED vars
    BY <2>3 DEF vars, noticeVars, notificationVars
  <2> QED BY <2>1, <2>2, <2>3
<1> QED BY IInvAlways, <1>1, PTL DEF Spec, ReadIsFinal, StaysRead
-----------------------------------------------------------------------------
\* The types.  What a request in flight holds is of its type by the invariant of
\* its component.
\* What the requests of the catalog are made of, and what those in flight hold.
LEMMA CatalogRequests ==
  /\ Catalog!Idle \in Catalog!Requests
  /\ [step |-> "committed"] \in Catalog!Requests
  /\ [step |-> "missed"] \in Catalog!Requests
  /\ \A name \in CategoryNames : [step |-> "adding category", name |-> name] \in Catalog!Requests
  /\ \A row \in Catalog!Items : [step |-> "adding item", row |-> row] \in Catalog!Requests
  /\ \A step \in {"checked", "updating"}, i \in 1 .. MaxItems, row, new \in Catalog!Items :
       [step |-> step, item |-> i, row |-> row, new |-> new] \in Catalog!Requests
  /\ \A i \in 1 .. MaxItems : [step |-> "removing", item |-> i] \in Catalog!Requests
  /\ \A catalog \in Catalog!Catalogs : [step |-> "read", catalog |-> catalog] \in Catalog!Requests
  /\ \A request \in Catalog!Requests :
       /\ request.step = "adding category" => request.name \in CategoryNames
       /\ request.step = "read" => request.catalog \in Catalog!Catalogs
<1> USE DEF Catalog!Requests, Catalog!Idle
<1>1. /\ Catalog!Idle \in Catalog!Requests
      /\ [step |-> "committed"] \in Catalog!Requests
      /\ [step |-> "missed"] \in Catalog!Requests
  OBVIOUS
<1>2. \A name \in CategoryNames : [step |-> "adding category", name |-> name] \in Catalog!Requests
  OBVIOUS
<1>3. \A row \in Catalog!Items : [step |-> "adding item", row |-> row] \in Catalog!Requests
  OBVIOUS
<1>4. \A step \in {"checked", "updating"}, i \in 1 .. MaxItems, row, new \in Catalog!Items :
       [step |-> step, item |-> i, row |-> row, new |-> new] \in Catalog!Requests
  OBVIOUS
<1>5. \A i \in 1 .. MaxItems : [step |-> "removing", item |-> i] \in Catalog!Requests
  OBVIOUS
<1>6. \A catalog \in Catalog!Catalogs : [step |-> "read", catalog |-> catalog] \in Catalog!Requests
  OBVIOUS
<1>7. ASSUME NEW request \in Catalog!Requests
      PROVE  /\ request.step = "adding category" => request.name \in CategoryNames
             /\ request.step = "read" => request.catalog \in Catalog!Catalogs
  <2>1. ASSUME NEW step \in {"idle", "committed", "missed"}, request = [step |-> step]
        PROVE  request.step = step
    BY <2>1
  <2>2. \/ \E step \in {"idle", "committed", "missed"} : request = [step |-> step]
        \/ request \in [step : {"adding category"}, name : CategoryNames]
        \/ request \in [step : {"adding item"}, row : Catalog!Items]
        \/ request \in [step : {"checked", "updating"}, item : 1 .. MaxItems,
                       row : Catalog!Items, new : Catalog!Items]
        \/ request \in [step : {"removing"}, item : 1 .. MaxItems]
        \/ request \in [step : {"missed"}]
        \/ request \in [step : {"read"}, catalog : Catalog!Catalogs]
    OBVIOUS
  <2> QED BY <2>1, <2>2
<1> HIDE DEF Catalog!Requests, Catalog!Idle
<1> QED BY <1>1, <1>2, <1>3, <1>4, <1>5, <1>6, <1>7

\* What a reader of the catalog gets is a catalog.
LEMMA CatalogIsOne == Catalog!TypeOK => Catalog!Catalog \in Catalog!Catalogs
<1> SUFFICES ASSUME Catalog!TypeOK PROVE Catalog!Catalog \in Catalog!Catalogs
  OBVIOUS
<1>1. \A i \in DOMAIN items : items[i] \in Catalog!Items
  BY ItemOfSeq DEF Catalog!TypeOK
<1> QED BY <1>1 DEF Catalog!TypeOK, Catalog!Catalog, Catalog!Catalogs

\* Every step of the catalog keeps its types.
LEMMA CatalogType ==
  ASSUME CatalogInv, CatalogInv', Catalog!TypeOK, Catalog!Next
  PROVE  Catalog!TypeOK'
<1> USE DEF Catalog!Become
<1>1. ASSUME NEW s \in Sessions, NEW request \in Catalog!Requests,
             session' = [session EXCEPT ![s] = request]
      PROVE  session' \in [Sessions -> Catalog!Requests]
  BY <1>1 DEF Catalog!TypeOK
<1>2. items' \in Seq(Catalog!Items)
  BY DEF CatalogInv
<1>3. ASSUME NEW s \in Sessions, NEW name \in CategoryNames, Catalog!AddCategoryCheck(s, name)
      PROVE  Catalog!TypeOK'
  BY <1>1, <1>3, CatalogRequests DEF Catalog!AddCategoryCheck, Catalog!TypeOK
<1>4. ASSUME NEW s \in Sessions, NEW category \in CategoryNames, NEW name \in ItemNames,
             NEW price \in Prices, Catalog!AddItemCheck(s, category, name, price)
      PROVE  Catalog!TypeOK'
  <2> DEFINE row == [category |-> category, name |-> name, price |-> price, active |-> TRUE]
  <2>1. row \in Catalog!Items
    BY DEF Catalog!Items
  <2>2. session' = [session EXCEPT ![s] = [step |-> "adding item", row |-> row]]
        /\ UNCHANGED <<categories, items, cached, outdated>>
    BY <1>4 DEF Catalog!AddItemCheck
  <2> HIDE DEF row
  <2> QED BY <1>1, <2>1, <2>2, CatalogRequests DEF Catalog!TypeOK
<1>5. ASSUME NEW s \in Sessions, NEW i \in 1 .. MaxItems, NEW new \in Catalog!Items,
             Catalog!UpdateCheck(s, i, new)
      PROVE  Catalog!TypeOK'
  <2>1. i \in DOMAIN items /\ items[i] \in Catalog!Items
    BY <1>5, ItemOfSeq DEF Catalog!UpdateCheck, CatalogInv
  <2> QED BY <1>1, <1>5, <2>1, CatalogRequests DEF Catalog!UpdateCheck, Catalog!TypeOK
<1>6. ASSUME NEW s \in Sessions, NEW i \in 1 .. MaxItems, Catalog!RemoveLoad(s, i)
      PROVE  Catalog!TypeOK'
  BY <1>1, <1>6, CatalogRequests DEF Catalog!RemoveLoad, Catalog!TypeOK
<1>7. ASSUME NEW s \in Sessions, Catalog!UpdateLoad(s)
      PROVE  Catalog!TypeOK'
  <2>1. CASE session' = [session EXCEPT ![s] = Catalog!Idle]
    BY <1>1, <1>7, <2>1, CatalogRequests DEF Catalog!UpdateLoad, Catalog!TypeOK
  <2>2. CASE session' = [session EXCEPT ![s].step = "updating"]
    <3>1. session[s] \in [step : {"checked", "updating"}, item : DOMAIN items,
                          row : {row \in Catalog!Items : row.active}, new : Catalog!Items]
      BY <1>7 DEF Catalog!UpdateLoad, CatalogInv, CatalogSession
    <3>2. DOMAIN items \subseteq 1 .. MaxItems
      BY CampusAssumption, LenProperties DEF Catalog!TypeOK
    <3>3. [session[s] EXCEPT !.step = "updating"] \in Catalog!Requests
      BY <3>1, <3>2 DEF Catalog!Requests
    <3>4. session' = [session EXCEPT ![s] = [session[s] EXCEPT !.step = "updating"]]
      BY <2>2
    <3> QED BY <1>1, <1>7, <3>3, <3>4 DEF Catalog!UpdateLoad, Catalog!TypeOK
  <2> QED BY <1>7, <2>1, <2>2 DEF Catalog!UpdateLoad
<1>8. ASSUME NEW s \in Sessions,
             Catalog!AddCategoryCommit(s) \/ Catalog!Invalidate(s) \/ Catalog!Miss(s)
               \/ Catalog!Read(s) \/ Catalog!Fill(s) \/ Catalog!Die(s)
      PROVE  Catalog!TypeOK'
  <2>0. session[s] \in Catalog!Requests
    BY DEF Catalog!TypeOK
  <2>1. Catalog!AddCategoryCommit(s) => Catalog!TypeOK'
    BY <1>1, <2>0, CatalogRequests DEF Catalog!AddCategoryCommit, Catalog!Refuse, Catalog!AfterChange,
       Catalog!TypeOK
  <2>2. Catalog!Invalidate(s) \/ Catalog!Miss(s) \/ Catalog!Die(s) => Catalog!TypeOK'
    BY <1>1, CatalogRequests DEF Catalog!Invalidate, Catalog!Miss, Catalog!Die, Catalog!TypeOK
  <2>3. Catalog!Read(s) => Catalog!TypeOK'
    BY <1>1, CatalogRequests, CatalogIsOne DEF Catalog!Read, Catalog!TypeOK
  <2>4. Catalog!Fill(s) => Catalog!TypeOK'
    <3> SUFFICES ASSUME Catalog!Fill(s) PROVE Catalog!TypeOK'
      OBVIOUS
    <3>1. session[s].catalog \in Catalog!Catalogs
      BY <2>0, CatalogRequests DEF Catalog!Fill
    <3>2. cached' \in [catalog : Catalog!Catalogs, expires : BOOLEAN]
      BY <3>1 DEF Catalog!Fill, Catalog!SetEx
    <3>3. outdated' \in BOOLEAN /\ session' \in [Sessions -> Catalog!Requests]
      BY <1>1, CatalogRequests DEF Catalog!Fill
    <3> QED BY <3>2, <3>3 DEF Catalog!Fill, Catalog!TypeOK
  <2> QED BY <1>8, <2>1, <2>2, <2>3, <2>4
<1>9. ASSUME NEW s \in Sessions,
             Catalog!AddItemCommit(s) \/ Catalog!UpdateCommit(s) \/ Catalog!RemoveCommit(s)
      PROVE  Catalog!TypeOK'
  <2>1. session' \in [Sessions -> Catalog!Requests] /\ UNCHANGED <<categories, cached, outdated>>
    BY <1>1, <1>9, CatalogRequests
       DEF Catalog!AddItemCommit, Catalog!UpdateCommit, Catalog!RemoveCommit, Catalog!Refuse,
           Catalog!AfterChange
  <2>2. Len(items') <= MaxItems
    <3>1. Len(items) \in Nat /\ Len(items) <= MaxItems /\ MaxItems \in Nat
      BY CampusAssumption DEF Catalog!TypeOK
    <3>2. CASE Catalog!AddItemCommit(s)
      <4>1. items' = items \/ (items' = Append(items, session[s].row) /\ Len(items) < MaxItems)
        BY <3>2 DEF Catalog!AddItemCommit, Catalog!Refuse
      <4> QED BY <3>1, <4>1 DEF Catalog!TypeOK
    <3>3. CASE Catalog!UpdateCommit(s) \/ Catalog!RemoveCommit(s)
      <4>1. DOMAIN items' = DOMAIN items
        BY <3>3 DEF Catalog!UpdateCommit, Catalog!RemoveCommit, Catalog!Refuse
      <4>2. Len(items') = Len(items)
        BY <1>2, <4>1, LenProperties DEF Catalog!TypeOK
      <4> QED BY <3>1, <4>2
    <3> QED BY <1>9, <3>2, <3>3
  <2> QED BY <1>2, <2>1, <2>2 DEF Catalog!TypeOK
<1>10. CASE Catalog!Expire
  BY <1>10 DEF Catalog!Expire, Catalog!TypeOK
<1> QED BY <1>3, <1>4, <1>5, <1>6, <1>7, <1>8, <1>9, <1>10 DEF Catalog!Next

\* Every step of the waitlist keeps its types.
LEMMA WaitingType ==
  ASSUME WaitingInv, WaitingInv', Waiting!TypeOK, Waiting!Next
  PROVE  Waiting!TypeOK'
<1> USE DEF Waiting!Become
<1>1. ASSUME NEW s \in Sessions, NEW request \in Waiting!Requests,
             session' = [session EXCEPT ![s] = request]
      PROVE  session' \in [Sessions -> Waiting!Requests]
  BY <1>1 DEF Waiting!TypeOK
<1>2. entries' \in Seq(Waiting!Entries) /\ Waiting!Idle \in Waiting!Requests
  BY DEF WaitingInv, Waiting!Requests
<1>3. /\ Len(entries) \in Nat /\ Len(entries) <= MaxEntries /\ MaxEntries \in Nat
      /\ DOMAIN entries \subseteq 1 .. MaxEntries
  BY CampusAssumption, LenProperties DEF Waiting!TypeOK
<1>4. ASSUME NEW e \in DOMAIN entries
      PROVE  /\ entries[e] \in Waiting!Entries
             /\ Waiting!Place(e) \in Customers \X ServiceItems
  <2>1. entries[e] \in Waiting!Entries
    BY ItemOfSeq DEF Waiting!TypeOK
  <2> QED BY <2>1 DEF Waiting!Entries, Waiting!Place
<1>5. ASSUME NEW s \in Sessions, NEW customer \in Customers, NEW item \in ServiceItems,
             Waiting!JoinCheck(s, customer, item)
      PROVE  Waiting!TypeOK'
  <2>1. [step |-> "joining", customer |-> customer, item |-> item] \in Waiting!Requests
    BY DEF Waiting!Requests
  <2> QED BY <1>1, <1>5, <2>1 DEF Waiting!JoinCheck, Waiting!TypeOK
<1>6. ASSUME NEW s \in Sessions, Waiting!JoinCommit(s)
      PROVE  Waiting!TypeOK'
  <2> DEFINE place == <<session[s].customer, session[s].item>>
  <2>1. place \in Customers \X ServiceItems
    BY <1>6 DEF WaitingInv, Waiting!JoinCommit
  <2>2. /\ session' = [session EXCEPT ![s] = Waiting!Idle] /\ UNCHANGED offered
        /\ \/ entries' = Append(entries, Waiting!NewEntry(place)) /\ Len(entries) < MaxEntries
           \/ entries' = entries
        /\ excused' = excused \cup {place} \/ excused' = excused
    BY <1>6 DEF Waiting!JoinCommit
  <2> HIDE DEF place
  <2>3. Len(entries') <= MaxEntries
    <3>1. entries \in Seq(Waiting!Entries)
      BY DEF Waiting!TypeOK
    <3> QED BY <1>3, <2>2, <3>1
  <2> QED BY <1>1, <1>2, <2>1, <2>2, <2>3 DEF Waiting!TypeOK
<1>7. ASSUME NEW s \in Sessions, NEW e \in 1 .. MaxEntries, NEW status \in Waiting!WaitlistStatus,
             Waiting!UpdateLoad(s, e, status)
      PROVE  Waiting!TypeOK'
  <2>1. entries[e].status \in Waiting!WaitlistStatus
    BY <1>4, <1>7 DEF Waiting!UpdateLoad, Waiting!Entries
  <2>2. [step |-> "updating", entry |-> e, loaded |-> entries[e].status, status |-> status]
          \in Waiting!Requests
    BY <2>1 DEF Waiting!Requests
  <2> QED BY <1>1, <1>7, <2>2 DEF Waiting!UpdateLoad, Waiting!TypeOK
<1>8. ASSUME NEW s \in Sessions, Waiting!UpdateCommit(s)
      PROVE  Waiting!TypeOK'
  <2> DEFINE e == session[s].entry
  <2>1. e \in DOMAIN entries
    BY <1>8 DEF WaitingInv, Waiting!UpdateCommit
  <2>2. /\ session' = [session EXCEPT ![s] = Waiting!Idle] /\ UNCHANGED offered
        /\ DOMAIN entries' = DOMAIN entries
        /\ excused' = excused \cup {Waiting!Place(e)} \/ excused' = excused
    BY <1>8 DEF Waiting!UpdateCommit
  <2>3. Len(entries') = Len(entries)
    BY <1>2, <2>2, LenProperties DEF Waiting!TypeOK
  <2>4. Waiting!Place(e) \in Customers \X ServiceItems
    BY <1>4, <2>1
  <2> HIDE DEF e
  <2> QED BY <1>1, <1>2, <1>3, <2>2, <2>3, <2>4 DEF Waiting!TypeOK
<1>9. ASSUME NEW s \in Sessions, Waiting!Die(s)
      PROVE  Waiting!TypeOK'
  BY <1>1, <1>2, <1>9 DEF Waiting!Die, Waiting!TypeOK
<1>10. ASSUME NEW item \in ServiceItems, Waiting!RemoveItem(item)
       PROVE  Waiting!TypeOK'
  BY <1>10 DEF Waiting!RemoveItem, Waiting!TypeOK
<1> QED BY <1>5, <1>6, <1>7, <1>8, <1>9, <1>10 DEF Waiting!Next

\* Every step of the bookings keeps their types.
LEMMA BookingType ==
  ASSUME BookingInv, BookingInv', Booking!TypeOK, Booking!Next
  PROVE  Booking!TypeOK'
<1> USE DEF Booking!Become
<1>1. ASSUME NEW s \in Sessions, NEW request \in Booking!Requests,
             session' = [session EXCEPT ![s] = request]
      PROVE  session' \in [Sessions -> Booking!Requests]
  BY <1>1 DEF Booking!TypeOK
<1>2. /\ bookings' \in Seq(Booking!Rows) /\ last' \in [Booking!Ids -> Booking!Rows]
      /\ Booking!Idle \in Booking!Requests
      /\ [step |-> "creating"] \in Booking!Requests
  BY DEF BookingInv, Booking!Requests
<1>3. /\ Len(bookings) \in Nat /\ Len(bookings) <= MaxBookings /\ MaxBookings \in Nat
      /\ DOMAIN bookings \subseteq Booking!Ids
  BY CampusAssumption, LenProperties DEF Booking!TypeOK, Booking!Ids
<1>4. ASSUME NEW s \in Sessions,
             Booking!CreateBegin(s) \/ Booking!CreateCommit(s) \/ Booking!Die(s)
      PROVE  Booking!TypeOK'
  <2>1. session' \in [Sessions -> Booking!Requests] /\ UNCHANGED mixed
    BY <1>1, <1>2, <1>4 DEF Booking!CreateBegin, Booking!CreateCommit, Booking!Die
  <2>2. \/ bookings' = Append(bookings, Booking!NewBooking) /\ Len(bookings) < MaxBookings
        \/ bookings' = bookings
    BY <1>4 DEF Booking!CreateBegin, Booking!CreateCommit, Booking!Die
  <2>3. Len(bookings') <= MaxBookings
    BY <1>3, <2>2 DEF Booking!TypeOK
  <2> QED BY <1>2, <2>1, <2>3 DEF Booking!TypeOK
<1>5. ASSUME NEW s \in Sessions, NEW b \in Booking!Ids, NEW step \in {"updating", "cancelling"},
             NEW status \in Asked \cup {"cancelled"}, NEW vendor \in Vendors \cup {NoVendor},
             b \in DOMAIN bookings,
             Booking!Load(s, step, b, Booking!Changed(bookings[b], status, vendor))
      PROVE  Booking!TypeOK'
  <2>1. bookings[b] \in Booking!Rows
    BY <1>5, ItemOfSeq DEF Booking!TypeOK
  <2> DEFINE new == Booking!Changed(bookings[b], status, vendor)
  <2>2. new \in Booking!Rows
    BY <2>1, BookingRows
  <2> HIDE DEF new
  <2>3. [step |-> step, booking |-> b, loaded |-> bookings[b], new |-> new] \in Booking!Requests
    BY <2>1, <2>2 DEF Booking!Requests
  <2>4. /\ session' = [session EXCEPT ![s] =
             [step |-> step, booking |-> b, loaded |-> bookings[b], new |-> new]]
        /\ UNCHANGED <<bookings, last, mixed>>
    BY <1>5 DEF Booking!Load, new
  <2> QED BY <1>1, <2>3, <2>4 DEF Booking!TypeOK
<1>6. ASSUME NEW s \in Sessions, Booking!Commit(s)
      PROVE  Booking!TypeOK'
  <2>1. session[s].booking \in DOMAIN bookings
    BY <1>6 DEF BookingInv, BookingSession, Booking!Commit
  <2>2. /\ session' = [session EXCEPT ![s] = Booking!Idle]
        /\ DOMAIN bookings' = DOMAIN bookings
        /\ mixed' = mixed \cup {session[s].booking} \/ mixed' = mixed \ {session[s].booking}
    BY <1>6 DEF Booking!Commit
  <2>3. Len(bookings') = Len(bookings)
    BY <1>2, <2>2, LenProperties DEF Booking!TypeOK
  <2> QED BY <1>1, <1>2, <1>3, <2>1, <2>2, <2>3 DEF Booking!TypeOK
<1>7. NoVendor \in Vendors \cup {NoVendor} /\ "cancelled" \in Asked \cup {"cancelled"}
  OBVIOUS
<1> QED BY <1>4, <1>5, <1>6, <1>7 DEF Booking!Next, Booking!UpdateLoad, Booking!CancelLoad

\* Every step of the accounts keeps their types.
LEMMA AccountType ==
  ASSUME AccountInv, AccountInv', AcceptedInv', Account!TypeOK, Account!Next
  PROVE  Account!TypeOK'
<1> USE DEF Account!Become
<1>1. ASSUME NEW s \in Sessions, NEW request \in Account!Requests,
             session' = [session EXCEPT ![s] = request]
      PROVE  session' \in [Sessions -> Account!Requests]
  BY <1>1 DEF Account!TypeOK
<1>2. /\ Account!Idle \in Account!Requests
      /\ \A identity \in Identities :
           [step |-> "registering", identity |-> identity] \in Account!Requests
      /\ \A step \in {"requesting", "verifying", "marking"}, u \in Account!UserIds :
           [step |-> step, user |-> u] \in Account!Requests
  BY DEF Account!Requests
<1>3. /\ users \in Seq(Account!Users) /\ users' \in Seq(Account!Users)
      /\ DOMAIN users = 1 .. Len(users) /\ DOMAIN users' = 1 .. Len(users')
      /\ Len(users) \in Nat /\ Len(users') \in Nat /\ MaxUsers \in Nat
      /\ Len(users) <= MaxUsers
      /\ codes' \in Seq(CodeRows) /\ Len(codes') <= MaxCodes
      /\ DOMAIN codes' = 1 .. Len(codes') /\ Len(codes') \in Nat /\ MaxCodes \in Nat
      /\ DOMAIN users \subseteq Account!UserIds
  BY CampusAssumption, LenProperties DEF AccountInv, Account!TypeOK, Account!UserIds
<1>4. ASSUME Len(users') <= MaxUsers, session' \in [Sessions -> Account!Requests],
             interrupted' \subseteq Account!UserIds
      PROVE  Account!TypeOK'
  <2>1. ASSUME NEW c \in 1 .. Len(codes') PROVE codes'[c] \in Account!Codes
    <3>1. codes'[c] \in CodeRows /\ codes'[c].user \in DOMAIN users'
      BY <1>3, <2>1, ItemOfSeq DEF AccountInv
    <3>2. codes'[c].user \in Account!UserIds
      BY <1>3, <1>4, <3>1 DEF Account!UserIds
    <3> QED BY <3>1, <3>2 DEF CodeRows, Account!Codes
  <2>2. codes' \in Seq(Account!Codes)
    <3>1. codes' = [c \in 1 .. Len(codes') |-> codes'[c]]
      BY <1>3, SeqDef
    <3> QED BY <1>3, <2>1, <3>1, IsASeq
  <2> QED BY <1>3, <1>4, <2>2 DEF Account!TypeOK, AcceptedInv
<1>5. ASSUME NEW s \in Sessions, session[s].step \in {"updating", "requesting", "consuming", "marking"}
      PROVE  session[s].user \in DOMAIN users
  <2>1. session[s].step = "consuming" => session[s].user \in DOMAIN users
    BY DEF AccountInv, AccountSession
  <2> QED BY <1>5, <2>1 DEF AccountInv, AccountSession
<1>6. ASSUME NEW s \in Sessions, NEW identity \in Identities, Account!RegisterCheck(s, identity)
      PROVE  Account!TypeOK'
  BY <1>1, <1>2, <1>3, <1>4, <1>6 DEF Account!RegisterCheck, Account!TypeOK
<1>7. ASSUME NEW s \in Sessions, Account!RegisterCommit(s)
      PROVE  Account!TypeOK'
  <2>1. /\ session' = [session EXCEPT ![s] = Account!Idle] /\ UNCHANGED interrupted
        /\ \/ users' = Append(users, Account!NewUser(session[s].identity)) /\ Len(users) < MaxUsers
           \/ users' = users
    BY <1>7 DEF Account!RegisterCommit
  <2>2. Account!NewUser(session[s].identity) \in Account!Users
    BY <1>7 DEF Account!RegisterCommit, AccountInv, AccountSession, Account!NewUser, Account!Users
  <2>3. ASSUME NEW row \in Account!Users, users' = Append(users, row) PROVE Len(users') = Len(users) + 1
    BY <1>3, <2>3, AppendProperties
  <2>4. (Len(users') = Len(users) + 1 /\ Len(users) < MaxUsers) \/ users' = users
    BY <2>1, <2>2, <2>3
  <2>5. Len(users') <= MaxUsers
    <3>1. Len(users) \in Nat /\ MaxUsers \in Nat /\ Len(users) <= MaxUsers
      BY <1>3
    <3>2. Len(users') = Len(users) \/ (Len(users') = Len(users) + 1 /\ Len(users) < MaxUsers)
      BY <2>4
    <3> QED BY <3>1, <3>2
  <2> QED BY <1>1, <1>2, <1>4, <2>1, <2>5 DEF Account!TypeOK
<1>8. ASSUME NEW s \in Sessions, NEW u \in Account!UserIds, NEW new \in Account!Users,
             Account!ChangeLoad(s, u, new)
      PROVE  Account!TypeOK'
  <2>1. users[u] \in Account!Users
    BY <1>3, <1>8, ItemOfSeq DEF Account!ChangeLoad, Account!IsActive
  <2>2. [step |-> "updating", user |-> u, loaded |-> users[u], new |-> new] \in Account!Requests
    BY <2>1 DEF Account!Requests
  <2>3. session' \in [Sessions -> Account!Requests]
    BY <1>1, <1>8, <2>2 DEF Account!ChangeLoad
  <2> QED BY <1>3, <1>4, <1>8, <2>3 DEF Account!ChangeLoad, Account!TypeOK
<1>9. ASSUME NEW s \in Sessions, Account!ChangeCommit(s) \/ Account!MarkVerified(s)
      PROVE  Account!TypeOK'
  <2>1. /\ session' = [session EXCEPT ![s] = Account!Idle] /\ UNCHANGED interrupted
        /\ DOMAIN users' = DOMAIN users
    BY <1>9 DEF Account!ChangeCommit, Account!MarkVerified
  <2>2. Len(users') = Len(users)
    BY <2>1, <1>3, LenProperties
  <2> QED BY <1>1, <1>2, <1>3, <1>4, <2>1, <2>2 DEF Account!TypeOK
<1>10. ASSUME NEW s \in Sessions, NEW u \in Account!UserIds,
              Account!RequestCode(s, u) \/ Account!VerifyUser(s, u)
       PROVE  Account!TypeOK'
  <2>1. session' \in [Sessions -> Account!Requests]
    BY <1>1, <1>2, <1>10 DEF Account!RequestCode, Account!VerifyUser
  <2> QED BY <1>3, <1>4, <1>10, <2>1
     DEF Account!RequestCode, Account!VerifyUser, Account!TypeOK
<1>11. ASSUME NEW s \in Sessions, Account!RequestCommit(s)
       PROVE  Account!TypeOK'
  BY <1>1, <1>2, <1>3, <1>4, <1>11 DEF Account!RequestCommit, Account!TypeOK
<1>12. ASSUME NEW s \in Sessions, NEW c \in Account!CodeIds, Account!VerifyCode(s, c)
       PROVE  Account!TypeOK'
  <2>1. c \in DOMAIN codes /\ codes[c].user = session[s].user
    BY <1>12 DEF Account!VerifyCode, Account!IsLatestOpen, Account!OpenCodes
  <2>2. session[s].user \in Account!UserIds
    BY <1>3, <2>1 DEF AccountInv
  <2>3. [step |-> "consuming", user |-> session[s].user, code |-> c] \in Account!Requests
    BY <2>2 DEF Account!Requests
  <2>4. session' \in [Sessions -> Account!Requests]
    BY <1>1, <1>12, <2>3 DEF Account!VerifyCode
  <2> QED BY <1>3, <1>4, <1>12, <2>4 DEF Account!VerifyCode, Account!TypeOK
<1>13. ASSUME NEW s \in Sessions, Account!Consume(s)
       PROVE  Account!TypeOK'
  <2>1. session[s].user \in Account!UserIds
    BY <1>3, <1>5, <1>13 DEF Account!Consume
  <2>2. session' \in [Sessions -> Account!Requests]
    BY <1>1, <1>2, <1>13, <2>1 DEF Account!Consume
  <2> QED BY <1>3, <1>4, <1>13, <2>2 DEF Account!Consume, Account!TypeOK
<1>14. ASSUME NEW s \in Sessions, Account!Die(s)
       PROVE  Account!TypeOK'
  <2>1. session[s].step = "marking" => session[s].user \in Account!UserIds
    BY <1>3, <1>5
  <2>2. interrupted' \subseteq Account!UserIds
    BY <1>14, <2>1 DEF Account!Die, Account!TypeOK
  <2>3. session' \in [Sessions -> Account!Requests]
    BY <1>1, <1>2, <1>14 DEF Account!Die
  <2> QED BY <1>3, <1>4, <1>14, <2>2, <2>3 DEF Account!Die
<1>15. ASSUME NEW c \in Account!CodeIds, Account!Expire(c)
       PROVE  Account!TypeOK'
  BY <1>3, <1>4, <1>15 DEF Account!Expire, Account!TypeOK
<1> QED BY <1>6, <1>7, <1>8, <1>9, <1>10, <1>11, <1>12, <1>13, <1>14, <1>15 DEF Account!Next

\* Every step of the vendors keeps their types.
LEMMA VendorType ==
  ASSUME VendorInv, VendorInv', Vendor!TypeOK, Vendor!Next
  PROVE  Vendor!TypeOK'
<1> USE DEF Vendor!Become
<1>1. ASSUME NEW s \in Sessions, NEW request \in Vendor!Requests,
             session' = [session EXCEPT ![s] = request]
      PROVE  session' \in [Sessions -> Vendor!Requests]
  BY <1>1 DEF Vendor!TypeOK
<1>2. /\ Vendor!Idle \in Vendor!Requests
      /\ \A step \in {"creating", "created", "asking"}, v \in Vendors :
           [step |-> step, vendor |-> v] \in Vendor!Requests
  BY DEF Vendor!Requests
<1>3. /\ profile' \in [Vendors -> {Vendor!ABSENT, Vendor!OPEN, Vendor!CLOSED}]
      /\ capacity' \in [Vendors -> SUBSET Vendor!Days]
      /\ today' \in Vendor!Days
  BY DEF VendorInv
<1>4. ASSUME NEW s \in Sessions, session[s].step \in {"creating", "created", "asking"}
      PROVE  session[s].vendor \in Vendors
  BY <1>4 DEF VendorInv, VendorSession
<1>5. ASSUME NEW s \in Sessions, NEW v \in Vendors,
             Vendor!SetupCheck(s, v) \/ Vendor!AskProfile(s, v)
      PROVE  Vendor!TypeOK'
  BY <1>1, <1>2, <1>3, <1>5 DEF Vendor!SetupCheck, Vendor!AskProfile, Vendor!TypeOK
<1>6. ASSUME NEW s \in Sessions, Vendor!SetupProfile(s)
      PROVE  Vendor!TypeOK'
  <2>1. session[s].step = "creating" /\ session[s].vendor \in Vendors
        /\ session[s] \in [step : {"creating", "created"}, vendor : Vendors]
    BY <1>6 DEF Vendor!SetupProfile, VendorInv, VendorSession
  <2>2. [session[s] EXCEPT !.step = "created"] \in Vendor!Requests
    BY <1>2, <2>1
  <2>3. \/ session' = [session EXCEPT ![s] = [session[s] EXCEPT !.step = "created"]]
        \/ session' = [session EXCEPT ![s] = Vendor!Idle]
    BY <1>6 DEF Vendor!SetupProfile
  <2>4. session' \in [Sessions -> Vendor!Requests]
    BY <1>1, <1>2, <2>2, <2>3
  <2> QED BY <1>3, <1>6, <2>4 DEF Vendor!SetupProfile, Vendor!TypeOK
<1>7. ASSUME NEW s \in Sessions, Vendor!SetupCapacity(s) \/ Vendor!UpdateCommit(s)
      PROVE  Vendor!TypeOK'
  BY <1>1, <1>2, <1>3, <1>7 DEF Vendor!SetupCapacity, Vendor!UpdateCommit, Vendor!TypeOK
<1>8. ASSUME NEW s \in Sessions, NEW v \in Vendors, NEW new \in {Vendor!OPEN, Vendor!CLOSED},
             Vendor!UpdateLoad(s, v, new)
      PROVE  Vendor!TypeOK'
  <2>1. profile[v] \in {Vendor!OPEN, Vendor!CLOSED}
    BY <1>8 DEF Vendor!UpdateLoad, Vendor!TypeOK
  <2>2. [step |-> "updating", vendor |-> v, loaded |-> profile[v], new |-> new] \in Vendor!Requests
    BY <2>1 DEF Vendor!Requests
  <2> QED BY <1>1, <1>3, <1>8, <2>2 DEF Vendor!UpdateLoad, Vendor!TypeOK
<1>9. ASSUME NEW s \in Sessions, Vendor!AskCapacity(s)
      PROVE  Vendor!TypeOK'
  <2>1. session[s].vendor \in Vendors /\ today \in Vendor!Days
    BY <1>4, <1>9 DEF Vendor!AskCapacity, VendorInv
  <2>2. [step |-> "available", vendor |-> session[s].vendor, day |-> today] \in Vendor!Requests
    BY <2>1 DEF Vendor!Requests
  <2> QED BY <1>1, <1>3, <1>9, <2>2 DEF Vendor!AskCapacity, Vendor!TypeOK
<1>10. CASE Vendor!Midnight
  BY <1>3, <1>10 DEF Vendor!Midnight, Vendor!TypeOK
<1>11. ASSUME NEW s \in Sessions, Vendor!Finish(s)
       PROVE  Vendor!TypeOK'
  <2>1. session[s].step = "created" => session[s].vendor \in Vendors
    BY <1>4
  <2>2. interrupted' \subseteq Vendors
    BY <1>11, <2>1 DEF Vendor!Finish, Vendor!TypeOK
  <2> QED BY <1>1, <1>2, <1>3, <1>11, <2>2 DEF Vendor!Finish, Vendor!TypeOK
<1> QED BY <1>5, <1>6, <1>7, <1>8, <1>9, <1>10, <1>11 DEF Vendor!Next

\* Every step of the notifications keeps their types.
LEMMA NoticeType ==
  ASSUME NoticeInv, NoticeInv', NotificationsTypeOK, NotificationsNext
  PROVE  NotificationsTypeOK'
<1>1. session' \in [Sessions -> SessionRecords]
  BY DEF NoticeInv, Workers, NoticeSession
<1>2. lost' \subseteq Ids
  <2>1. ASSUME NEW s \in Sessions, Die(s) PROVE lost' \subseteq Ids
    <3>1. TasksOf(s) \subseteq Ids
      <4>1. session[s].tasks \in Seq(Ids)
        BY DEF NotificationsTypeOK, SessionRecords
      <4> QED BY <4>1, ItemOfSeq DEF TasksOf
    <3> QED BY <2>1, <3>1 DEF Die, NotificationsTypeOK
  <2>3. ASSUME NEW s \in Sessions, NEW topic \in Topics, NEW channel \in NotificationChannel,
               CreateBegin(s, topic, channel)
        PROVE  lost' \subseteq Ids
    <3>1. Len(notifications) + 1 \in Ids
      BY <2>3, LenProperties, NotificationsAssumption DEF CreateBegin, NoticeInv, Ids
    <3> QED BY <2>3, <3>1 DEF CreateBegin, NotificationsTypeOK
  <2>2. CASE UNCHANGED lost
    BY <2>2 DEF NotificationsTypeOK
  <2> QED BY <2>1, <2>2, <2>3
     DEF NotificationsNext, Notify, Queue, CreateCommit, Dispatch, DispatchLoad,
         DispatchSend, DispatchCommit, ReadBegin, ReadCommit
<1> QED BY <1>1, <1>2 DEF NotificationsTypeOK, NoticeInv

\* The tables are empty and the workers idle.
LEMMA TypeInit == Init => TypeOK
<1> SUFFICES ASSUME Init PROVE TypeOK
  OBVIOUS
<1>1. /\ component # "notifications" => session = [s \in Sessions |-> [step |-> "idle"]]
      /\ component = "notifications" => session = [s \in Sessions |-> IdleSession]
      /\ {MaxItems, MaxEntries, MaxBookings, MaxUsers, MaxCodes, MaxDay, MaxNotifications} \subseteq Nat
  BY CampusAssumption, NotificationsAssumption DEF Init
<1>2. component = "catalog" => Catalog!TypeOK
  <2>1. component = "catalog" => session \in [Sessions -> Catalog!Requests]
    BY <1>1, CatalogRequests DEF Catalog!Idle
  <2>2. items \in Seq(Catalog!Items) /\ Len(items) <= MaxItems
    BY <1>1 DEF Init
  <2> QED BY <2>1, <2>2 DEF Init, Catalog!TypeOK
<1>3. component = "waitlist" => Waiting!TypeOK
  BY <1>1 DEF Init, Waiting!TypeOK, Waiting!Requests, Waiting!Idle
<1>4. component = "bookings" => Booking!TypeOK
  <2>1. Booking!NewBooking \in Booking!Rows
    BY DEF Booking!NewBooking, Booking!Rows, Booking!BookingStatus
  <2> QED BY <1>1, <2>1 DEF Init, Booking!TypeOK, Booking!Requests, Booking!Idle, Booking!Ids
<1>5. component = "accounts" => Account!TypeOK
  BY <1>1 DEF Init, Account!TypeOK, Account!Requests, Account!Idle, Account!CodeIds
<1>6. component = "vendors" => Vendor!TypeOK
  BY <1>1 DEF Init, Vendor!TypeOK, Vendor!Requests, Vendor!Idle, Vendor!Days
<1>7. component = "notifications" => NotificationsTypeOK
  <2>1. IdleSession \in SessionRecords
    BY DEF IdleSession, SessionRecords
  <2> QED BY <1>1, <2>1 DEF Init, NotificationsTypeOK
<1> QED BY <1>2, <1>3, <1>4, <1>5, <1>6, <1>7 DEF TypeOK

\* A step of the component at work keeps its types.
LEMMA TypeStep ==
  ASSUME IInv, IInv', TypeOK, Next
  PROVE  TypeOK'
<1>1. component' = component
  BY DEF Next
<1>2. CASE component = "catalog" /\ Catalog!Next
  BY <1>1, <1>2, CatalogType DEF TypeOK, IInv
<1>3. CASE component = "waitlist" /\ Waiting!Next
  BY <1>1, <1>3, WaitingType DEF TypeOK, IInv
<1>4. CASE component = "bookings" /\ Booking!Next
  BY <1>1, <1>4, BookingType DEF TypeOK, IInv
<1>5. CASE component = "accounts" /\ Account!Next
  BY <1>1, <1>5, AccountType DEF TypeOK, IInv
<1>6. CASE component = "vendors" /\ Vendor!Next
  BY <1>1, <1>6, VendorType DEF TypeOK, IInv
<1>7. CASE component = "notifications" /\ NotificationsNext
  BY <1>1, <1>7, NoticeType DEF TypeOK, IInv
<1> QED BY <1>2, <1>3, <1>4, <1>5, <1>6, <1>7 DEF Next

\* Nothing happens.
LEMMA TypeStutter ==
  ASSUME TypeOK, UNCHANGED vars
  PROVE  TypeOK'
<1> USE DEF vars, catalogVars, waitingVars, bookingVars, accountVars, vendorVars, noticeVars
<1>1. component' = component
  OBVIOUS
<1>2. component = "catalog" => Catalog!TypeOK'
  BY DEF TypeOK, Catalog!TypeOK
<1>3. component = "waitlist" => Waiting!TypeOK'
  BY DEF TypeOK, Waiting!TypeOK
<1>4. component = "bookings" => Booking!TypeOK'
  BY DEF TypeOK, Booking!TypeOK
<1>5. component = "accounts" => Account!TypeOK'
  BY DEF TypeOK, Account!TypeOK
<1>6. component = "vendors" => Vendor!TypeOK'
  BY DEF TypeOK, Vendor!TypeOK
<1>7. component = "notifications" => NotificationsTypeOK'
  BY DEF TypeOK, NotificationsTypeOK
<1> QED BY <1>1, <1>2, <1>3, <1>4, <1>5, <1>6, <1>7 DEF TypeOK

\* Every row, request in flight and history value of the component at work is of
\* its type, and no table outgrows its bound, whatever the constants are.
THEOREM Typed == Spec => []TypeOK
<1>1. IInv /\ [Next]_vars => IInv'
  BY IInvStep, IInvStutter
<1>2. TypeOK /\ IInv /\ IInv' /\ [Next]_vars => TypeOK'
  BY TypeStep, TypeStutter
<1> QED BY IInvInit, TypeInit, <1>1, <1>2, PTL DEF Spec
=============================================================================
