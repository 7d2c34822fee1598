------------------------------ MODULE Waitlist ------------------------------
(***************************************************************************)
(* WaitlistService and WaitlistRepository: students join the waiting list  *)
(* of a service item, staff notify them, and either moves the entry on.    *)
(***************************************************************************)
EXTENDS Integers, Sequences

CONSTANTS
  Sessions,    \* the server's workers, one request each
  Customers, ServiceItems,
  MaxEntries   \* bound: rows of waitlist_entries

VARIABLES
  entries,  \* the waitlist_entries table, in the order of the inserts
  offered,  \* the service items that are active
  session,  \* the request each worker is busy with
  excused   \* history: <<customer, item>> pairs whose joins overlapped, or
            \* one of whose closed entries became active again

vars == <<entries, offered, session, excused>>
-----------------------------------------------------------------------------
WaitlistStatus == {"waiting", "notified", "converted", "cancelled"}

Active == {"waiting", "notified"}

Entries ==
  [customer : Customers, item : ServiceItems, status : WaitlistStatus,
   notified_at : BOOLEAN, converted_at : BOOLEAN]

Idle == [step |-> "idle"]

Requests ==
  {Idle} \cup [step : {"joining"}, customer : Customers, item : ServiceItems]
         \cup [step : {"updating"}, entry : 1 .. MaxEntries,
               loaded : WaitlistStatus, status : WaitlistStatus]

TypeOK ==
  /\ entries \in Seq(Entries) /\ Len(entries) <= MaxEntries
  /\ offered \subseteq ServiceItems
  /\ session \in [Sessions -> Requests]
  /\ excused \subseteq Customers \X ServiceItems

Init ==
  /\ entries = << >>
  /\ offered = ServiceItems
  /\ session = [s \in Sessions |-> Idle]
  /\ excused = {}
-----------------------------------------------------------------------------
Become(s, request) == session' = [session EXCEPT ![s] = request]

Place(e) == <<entries[e].customer, entries[e].item>>

ActiveEntries(place) ==
  {e \in DOMAIN entries : Place(e) = place /\ entries[e].status \in Active}

\* Mutation: the check looks for a waiting entry only.
OnWaitlistUnnotified(place) ==
  \E e \in ActiveEntries(place) : entries[e].status = "waiting"

\* get_active_entry
OnWaitlist(place) == ActiveEntries(place) # {}

\* uq_waitlist_active_entry, which is on all the statuses.
KeyFree(place, status, except) ==
  \A e \in DOMAIN entries \ except : ~(Place(e) = place /\ entries[e].status = status)

\* History: another worker is between the check and the commit of the same join.
JoinedByAnother(s, place) ==
  \E t \in Sessions \ {s} :
    session[t].step = "joining" /\ <<session[t].customer, session[t].item>> = place

NewEntry(place) ==
  [customer |-> place[1], item |-> place[2], status |-> "waiting",
   notified_at |-> FALSE, converted_at |-> FALSE]
-----------------------------------------------------------------------------
\* join_waitlist: the item and the customer's entries are read, then the insert
\* is committed.
JoinCheck(s, customer, item) ==
  /\ session[s] = Idle
  /\ item \in offered
  /\ ~OnWaitlist(<<customer, item>>)
  /\ Become(s, [step |-> "joining", customer |-> customer, item |-> item])
  /\ UNCHANGED <<entries, offered, excused>>

JoinCommit(s) ==
  LET place == <<session[s].customer, session[s].item>>
  IN  /\ session[s].step = "joining"
      /\ \/ /\ KeyFree(place, "waiting", {})
            /\ Len(entries) < MaxEntries
            /\ entries' = Append(entries, NewEntry(place))
            /\ excused' = IF JoinedByAnother(s, place) THEN excused \cup {place} ELSE excused
         \/ /\ ~KeyFree(place, "waiting", {})
            /\ UNCHANGED <<entries, excused>>
      /\ Become(s, Idle)
      /\ UNCHANGED offered

\* update_status: staff set any status, the student cancelled or converted.
UpdateLoad(s, e, status) ==
  /\ session[s] = Idle
  /\ e \in DOMAIN entries
  /\ Become(s, [step |-> "updating", entry |-> e,
                loaded |-> entries[e].status, status |-> status])
  /\ UNCHANGED <<entries, offered, excused>>

\* A status is written only if it differs from the one that was read; the times
\* are always new.
Written(row, loaded, status) ==
  [row EXCEPT !.status = IF loaded = status THEN @ ELSE status,
              !.notified_at = @ \/ status = "notified",
              !.converted_at = @ \/ status = "converted"]

UpdateCommit(s) ==
  /\ session[s].step = "updating"
  /\ LET e == session[s].entry
         row == Written(entries[e], session[s].loaded, session[s].status)
     IN  \/ /\ KeyFree(Place(e), row.status, {e})
            /\ entries' = [entries EXCEPT ![e] = row]
            /\ excused' = IF entries[e].status \notin Active /\ row.status \in Active
                          THEN excused \cup {Place(e)} ELSE excused
         \/ /\ ~KeyFree(Place(e), row.status, {e})
            /\ UNCHANGED <<entries, excused>>
  /\ Become(s, Idle)
  /\ UNCHANGED offered

\* The catalog removes the item.
RemoveItem(item) ==
  /\ item \in offered
  /\ offered' = offered \ {item}
  /\ UNCHANGED <<entries, session, excused>>

\* The request is cut off before its commit.
Die(s) ==
  /\ session[s] # Idle
  /\ Become(s, Idle)
  /\ UNCHANGED <<entries, offered, excused>>

Next ==
  \/ \E s \in Sessions :
       \/ \E customer \in Customers, item \in ServiceItems : JoinCheck(s, customer, item)
       \/ JoinCommit(s)
       \/ \E e \in 1 .. MaxEntries, status \in WaitlistStatus : UpdateLoad(s, e, status)
       \/ UpdateCommit(s)
       \/ Die(s)
  \/ \E item \in ServiceItems : RemoveItem(item)

Spec == Init /\ [][Next]_vars
-----------------------------------------------------------------------------
\* A student waits twice for an item only if two of the joins overlapped, or
\* if an entry that was closed by then was made active, by staff or by an update
\* that had read it before it was closed.  (The constraint does not prevent it:
\* one entry may be waiting and the other notified.)
SecondPlaceNeedsRace ==
  \A place \in Customers \X ServiceItems :
    (\E d, e \in ActiveEntries(place) : d # e) => place \in excused
=============================================================================
