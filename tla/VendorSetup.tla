---------------------------- MODULE VendorSetup ----------------------------
(***************************************************************************)
(* The profiles and daily capacities of VendorDashboardService.  A profile *)
(* and its first capacity are two commits; no request makes a capacity for *)
(* a later day or counts an order in one, so that its slots, more than     *)
(* none, are left out.  The orders of the dashboard are in Orders.         *)
(***************************************************************************)
EXTENDS Integers

CONSTANTS
  Sessions,  \* the server's workers, one request each
  Vendors,
  MaxDay     \* bound: midnights

VARIABLES
  profile,      \* vendor_profiles: no row, open or closed
  capacity,     \* vendor_capacities: the days a vendor has a row for
  today,
  session,      \* the request each worker is busy with
  interrupted   \* history: vendors whose set-up was cut off half-way

vars == <<profile, capacity, today, session, interrupted>>
-----------------------------------------------------------------------------
ABSENT == "absent"
OPEN   == "open"
CLOSED == "closed"

Days == 0 .. MaxDay

Idle == [step |-> "idle"]

Requests ==
  {Idle} \cup [step : {"creating", "created", "asking"}, vendor : Vendors]
         \cup [step : {"updating"}, vendor : Vendors,
               loaded : {OPEN, CLOSED}, new : {OPEN, CLOSED}]
         \cup [step : {"available"}, vendor : Vendors, day : Days]

TypeOK ==
  /\ profile \in [Vendors -> {ABSENT, OPEN, CLOSED}]
  /\ capacity \in [Vendors -> SUBSET Days]
  /\ today \in Days
  /\ session \in [Sessions -> Requests]
  /\ interrupted \subseteq Vendors

Init ==
  /\ profile = [v \in Vendors |-> ABSENT]
  /\ capacity = [v \in Vendors |-> {}]
  /\ today = 0
  /\ session = [s \in Sessions |-> Idle]
  /\ interrupted = {}
-----------------------------------------------------------------------------
Become(s, request) == session' = [session EXCEPT ![s] = request]

\* setup_vendor_profile: no profile is found; the profile is committed, which
\* its unique vendor refuses to a second one; then a capacity for the day it is
\* by now.
SetupCheck(s, v) ==
  /\ session[s] = Idle
  /\ profile[v] = ABSENT
  /\ Become(s, [step |-> "creating", vendor |-> v])
  /\ UNCHANGED <<profile, capacity, today, interrupted>>

\* Mutation: a second profile is accepted.
ProfileFreeAlways(v) == TRUE

\* The unique vendor_id of vendor_profiles.
ProfileFree(v) == profile[v] = ABSENT

SetupProfile(s) ==
  /\ session[s].step = "creating"
  /\ IF ProfileFree(session[s].vendor)
     THEN /\ profile' = [profile EXCEPT ![session[s].vendor] = OPEN]
          /\ session' = [session EXCEPT ![s].step = "created"]
     ELSE /\ Become(s, Idle)
          /\ UNCHANGED profile
  /\ UNCHANGED <<capacity, today, interrupted>>

SetupCapacity(s) ==
  /\ session[s].step = "created"
  /\ today \notin capacity[session[s].vendor]
  /\ capacity' = [capacity EXCEPT ![session[s].vendor] = @ \cup {today}]
  /\ Become(s, Idle)
  /\ UNCHANGED <<profile, today, interrupted>>

\* update_profile, which may change anything else of it, and toggle_open_status.
UpdateLoad(s, v, new) ==
  /\ session[s] = Idle
  /\ profile[v] # ABSENT
  /\ Become(s, [step |-> "updating", vendor |-> v, loaded |-> profile[v], new |-> new])
  /\ UNCHANGED <<profile, capacity, today, interrupted>>

UpdateCommit(s) ==
  /\ session[s].step = "updating"
  /\ profile' = IF session[s].loaded = session[s].new THEN profile
                ELSE [profile EXCEPT ![session[s].vendor] = session[s].new]
  /\ Become(s, Idle)
  /\ UNCHANGED <<capacity, today, interrupted>>
-----------------------------------------------------------------------------
\* is_vendor_available: the profile is read, then the capacity of the day it is
\* by then.  An answer of no needs no step.
AskProfile(s, v) ==
  /\ session[s] = Idle
  /\ profile[v] = OPEN
  /\ Become(s, [step |-> "asking", vendor |-> v])
  /\ UNCHANGED <<profile, capacity, today, interrupted>>

AskCapacity(s) ==
  /\ session[s].step = "asking"
  /\ today \in capacity[session[s].vendor]
  /\ Become(s, [step |-> "available", vendor |-> session[s].vendor, day |-> today])
  /\ UNCHANGED <<profile, capacity, today, interrupted>>

Midnight ==
  /\ today < MaxDay
  /\ today' = today + 1
  /\ UNCHANGED <<profile, capacity, session, interrupted>>

\* The request is over, is refused, or is cut off.
Finish(s) ==
  /\ session[s] # Idle
  /\ interrupted' = IF session[s].step = "created"
                    THEN interrupted \cup {session[s].vendor} ELSE interrupted
  /\ Become(s, Idle)
  /\ UNCHANGED <<profile, capacity, today>>

Next ==
  \/ \E s \in Sessions :
       \/ \E v \in Vendors :
            \/ SetupCheck(s, v)
            \/ \E new \in {OPEN, CLOSED} : UpdateLoad(s, v, new)
            \/ AskProfile(s, v)
       \/ SetupProfile(s) \/ SetupCapacity(s)
       \/ UpdateCommit(s)
       \/ AskCapacity(s)
       \/ Finish(s)
  \/ Midnight

Spec == Init /\ [][Next]_vars
-----------------------------------------------------------------------------
\* A vendor with a profile has a capacity for exactly one day, that of the
\* set-up, unless the set-up is between its two commits or was cut off there: no
\* race of two set-ups and no midnight between their commits gives a second.
\* Whoever is told that the vendor is available was told so on that one day.
CapacityFollowsProfile ==
  \A v \in Vendors :
    LET creating == \E s \in Sessions : session[s].step = "created" /\ session[s].vendor = v
    IN  /\ \A d, e \in capacity[v] : d = e
        /\ capacity[v] # {} => profile[v] # ABSENT
        /\ profile[v] # ABSENT => capacity[v] # {} \/ creating \/ v \in interrupted
        /\ \A s \in Sessions : session[s].step = "available" /\ session[s].vendor = v
             => capacity[v] = {session[s].day}
=============================================================================
