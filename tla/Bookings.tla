------------------------------ MODULE Bookings ------------------------------
(***************************************************************************)
(* BookingService and BookingRepository: customers and staff move a        *)
(* booking on from the row each has read, without a lock.  What is booked  *)
(* and for how much is left out; the pickup message a creation queues is a *)
(* Notify of Notifications.                                                *)
(***************************************************************************)
EXTENDS Integers, Sequences

CONSTANTS
  Sessions,     \* the server's workers, one request each
  Vendors,
  NoVendor,
  Asked,        \* bound: the statuses that are asked for
  MaxBookings   \* bound: rows of bookings

VARIABLES
  bookings,    \* the bookings table, in the order of the inserts
  session,     \* the request each worker is busy with
  last,        \* history: what the last request meant each booking to be
  mixed        \* history: bookings last written from a copy that was out of date

vars == <<bookings, session, last, mixed>>
-----------------------------------------------------------------------------
BookingStatus ==
  {"pending", "confirmed", "picked_up", "in_progress", "ready", "completed", "cancelled"}

Closed == {"completed", "cancelled"}

Rows == [status : BookingStatus, vendor_id : Vendors \cup {NoVendor}]

NewBooking == [status |-> "pending", vendor_id |-> NoVendor]

Idle == [step |-> "idle"]

Ids == 1 .. MaxBookings

Requests ==
  {Idle} \cup [step : {"creating"}]
         \cup [step : {"updating", "cancelling"}, booking : Ids, loaded : Rows, new : Rows]

TypeOK ==
  /\ bookings \in Seq(Rows) /\ Len(bookings) <= MaxBookings
  /\ session \in [Sessions -> Requests]
  /\ last \in [Ids -> Rows]
  /\ mixed \subseteq Ids

Init ==
  /\ bookings = << >>
  /\ session = [s \in Sessions |-> Idle]
  /\ last = [b \in Ids |-> NewBooking]
  /\ mixed = {}
-----------------------------------------------------------------------------
Become(s, request) == session' = [session EXCEPT ![s] = request]

\* create_booking: the catalog is read, then the booking is committed.
CreateBegin(s) ==
  /\ session[s] = Idle
  /\ Become(s, [step |-> "creating"])
  /\ UNCHANGED <<bookings, last, mixed>>

CreateCommit(s) ==
  /\ session[s].step = "creating"
  /\ Len(bookings) < MaxBookings
  /\ bookings' = Append(bookings, NewBooking)
  /\ Become(s, Idle)
  /\ UNCHANGED <<last, mixed>>

\* The repository's update_status: no vendor means that the vendor is kept.
Changed(row, status, vendor) ==
  [status |-> status, vendor_id |-> IF vendor = NoVendor THEN row.vendor_id ELSE vendor]

Load(s, step, b, new) ==
  /\ session[s] = Idle
  /\ Become(s, [step |-> step, booking |-> b, loaded |-> bookings[b], new |-> new])
  /\ UNCHANGED <<bookings, last, mixed>>

\* update_status, from any status to any: by a vendor, who takes the booking, or
\* by an admin, who may give it to one.
UpdateLoad(s, b, status, vendor) ==
  /\ b \in DOMAIN bookings
  /\ Load(s, "updating", b, Changed(bookings[b], status, vendor))

\* Mutation: a booking that was completed is cancelled.
MayCancelCompleted(row) == row.status # "cancelled"

MayCancel(row) == row.status \notin Closed

\* cancel_booking, by the customer, its vendor or an admin.
CancelLoad(s, b) ==
  /\ b \in DOMAIN bookings
  /\ MayCancel(bookings[b])
  /\ Load(s, "cancelling", b, Changed(bookings[b], "cancelled", NoVendor))

\* Mutation: a vendor is not written over another.
WrittenOnce(row, loaded, new) ==
  [row EXCEPT !.status = IF loaded.status = new.status THEN @ ELSE new.status,
              !.vendor_id = IF @ # NoVendor THEN @ ELSE new.vendor_id]

\* The unit of work writes the attributes that were changed, over the row as it
\* is by now.
Written(row, loaded, new) ==
  [a \in DOMAIN row |-> IF loaded[a] = new[a] THEN row[a] ELSE new[a]]

Commit(s) ==
  /\ session[s].step \in {"updating", "cancelling"}
  /\ LET r == session[s]
         b == r.booking
     IN  /\ bookings' = [bookings EXCEPT ![b] = Written(@, r.loaded, r.new)]
         /\ last' = [last EXCEPT ![b] = r.new]
         /\ mixed' = IF r.loaded = bookings[b] THEN mixed \ {b} ELSE mixed \cup {b}
  /\ Become(s, Idle)

\* The request is cut off before its commit.
Die(s) ==
  /\ session[s] # Idle
  /\ Become(s, Idle)
  /\ UNCHANGED <<bookings, last, mixed>>

Next ==
  \E s \in Sessions :
    \/ CreateBegin(s)
    \/ CreateCommit(s)
    \/ \E b \in Ids, status \in Asked, vendor \in Vendors \cup {NoVendor} :
         UpdateLoad(s, b, status, vendor)
    \/ \E b \in Ids : CancelLoad(s, b)
    \/ Commit(s)
    \/ Die(s)

Spec == Init /\ [][Next]_vars
-----------------------------------------------------------------------------
\* A booking is what the last request meant it to be, status and vendor
\* together: the status of one request beside the vendor of another takes a
\* request that committed what it had read before the other's commit, and lasts
\* until the next request that reads and commits undisturbed.
LastRequestShows ==
  \A b \in DOMAIN bookings : bookings[b] = last[b] \/ b \in mixed

\* A completed booking is cancelled by staff who asked for that status, which
\* update_status does not refuse, or by a cancel_booking that had read it before
\* it was completed; by no other cancel_booking, and by no request for another
\* status.
CompletedIsNotCancelled ==
  [][\A b \in DOMAIN bookings :
       bookings[b].status = "completed" /\ bookings'[b].status = "cancelled" =>
         \E s \in Sessions :
           /\ session[s].step \in {"updating", "cancelling"}
           /\ session[s].booking = b
           /\ session'[s] = Idle
           /\ \/ session[s].step = "updating" /\ session[s].new.status = "cancelled"
              \/ session[s].step = "cancelling" /\ session[s].loaded.status # "completed"]_vars
=============================================================================
