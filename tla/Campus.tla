------------------------------- MODULE Campus -------------------------------
(***************************************************************************)
(* Components that write no row of each other's tables: the catalog and    *)
(* its cache, the waitlist, the bookings, the accounts, the vendors and    *)
(* the notifications.  Each behaviour is one of them at work, on the       *)
(* workers they share; what the others are doing changes none of its       *)
(* variables.                                                              *)
(***************************************************************************)
EXTENDS Notifications, FiniteSets

CONSTANTS
  CategoryNames, ItemNames, Prices, MaxItems, NoCatalog,   \* of the catalog
  Customers, ServiceItems, MaxEntries,                     \* of the waitlist
  Vendors, NoVendor, Asked, MaxBookings,                   \* of the bookings
  Identities, MaxUsers, MaxCodes,                          \* of the accounts
  MaxDay                                                   \* of the vendors

VARIABLES
  component,                              \* the one at work
  categories, items, cached, outdated,    \* of the catalog
  entries, offered, excused,              \* of the waitlist
  bookings, last, mixed,             \* of the bookings
  users, codes, accepted,                 \* of the accounts
  profile, capacity, today,               \* of the vendors
  interrupted                             \* of the accounts or of the vendors

Catalog  == INSTANCE CatalogCache
Waiting  == INSTANCE Waitlist
Booking  == INSTANCE Bookings
Account  == INSTANCE Accounts
Vendor   == INSTANCE VendorSetup

ASSUME CampusAssumption ==
  /\ IsFiniteSet(Sessions)
  /\ {MaxItems, MaxEntries, MaxBookings, MaxUsers, MaxCodes, MaxDay} \subseteq Nat
  /\ Asked \subseteq Booking!BookingStatus

catalogVars == <<categories, items, cached, outdated>>
waitingVars == <<entries, offered, excused>>
bookingVars == <<bookings, last, mixed>>
accountVars == <<users, codes, accepted>>
vendorVars  == <<profile, capacity, today>>
noticeVars  == <<notifications, sends, lost>>

vars == <<component, session, catalogVars, waitingVars, bookingVars,
          accountVars, vendorVars, interrupted, noticeVars>>
-----------------------------------------------------------------------------
\* The tables are empty, and the workers idle.
Init ==
  /\ component \in {"catalog", "waitlist", "bookings", "accounts", "vendors", "notifications"}
  /\ session = [s \in Sessions |->
                  IF component = "notifications" THEN IdleSession ELSE [step |-> "idle"]]
  /\ interrupted = {}
  /\ categories = {} /\ items = << >> /\ cached = NoCatalog /\ outdated = FALSE
  /\ entries = << >> /\ offered = ServiceItems /\ excused = {}
  /\ bookings = << >> /\ last = [b \in 1 .. MaxBookings |-> Booking!NewBooking] /\ mixed = {}
  /\ users = << >> /\ codes = << >> /\ accepted = [c \in 1 .. MaxCodes |-> 0]
  /\ profile = [v \in Vendors |-> Vendor!ABSENT] /\ capacity = [v \in Vendors |-> {}] /\ today = 0
  /\ notifications = << >> /\ sends = [i \in Ids |-> << >>] /\ lost = {}

Next ==
  /\ component' = component
  /\ \/ /\ component = "catalog"
        /\ Catalog!Next
        /\ UNCHANGED <<waitingVars, bookingVars, accountVars, vendorVars, interrupted, noticeVars>>
     \/ /\ component = "waitlist"
        /\ Waiting!Next
        /\ UNCHANGED <<catalogVars, bookingVars, accountVars, vendorVars, interrupted, noticeVars>>
     \/ /\ component = "bookings"
        /\ Booking!Next
        /\ UNCHANGED <<catalogVars, waitingVars, accountVars, vendorVars, interrupted, noticeVars>>
     \/ /\ component = "accounts"
        /\ Account!Next
        /\ UNCHANGED <<catalogVars, waitingVars, bookingVars, vendorVars, noticeVars>>
     \/ /\ component = "vendors"
        /\ Vendor!Next
        /\ UNCHANGED <<catalogVars, waitingVars, bookingVars, accountVars, noticeVars>>
     \/ /\ component = "notifications"
        /\ NotificationsNext
        /\ UNCHANGED <<catalogVars, waitingVars, bookingVars, accountVars, vendorVars, interrupted>>

Spec == Init /\ [][Next]_vars /\ Catalog!Fairness
-----------------------------------------------------------------------------
\* The state of the component at work is of its type.
TypeOK ==
  /\ component = "catalog" => Catalog!TypeOK
  /\ component = "waitlist" => Waiting!TypeOK
  /\ component = "bookings" => Booking!TypeOK
  /\ component = "accounts" => Account!TypeOK
  /\ component = "vendors" => Vendor!TypeOK
  /\ component = "notifications" => NotificationsTypeOK

\* A stale copy of the price list takes a race or a request cut off
\* (CatalogCache).
StaleNeedsRace == Catalog!StaleNeedsRace

\* A stale copy does not stay (CatalogCache).
StaleExpires == Catalog!StaleExpires

\* A removed item and a deactivated account stay so, whatever had been read of
\* them before (CatalogCache, Accounts).
RemovedIsForever == Catalog!RemovedIsForever /\ Account!DeactivatedIsForever

\* Two active entries of one student for one item take a race or staff
\* (Waitlist).
SecondPlaceNeedsRace == Waiting!SecondPlaceNeedsRace

\* Status and vendor of a booking are of one request, unless its last request
\* committed from an old copy (Bookings).
LastRequestShows == Booking!LastRequestShows

\* A completed booking is cancelled by staff who asked for it, or by a
\* cancellation that had read it before (Bookings).
CompletedIsNotCancelled == Booking!CompletedIsNotCancelled

\* Verified and code used up go together, but for a request cut off between the
\* two commits (Accounts).
VerificationIsWhole == Account!VerificationIsWhole

\* A code is accepted once for each worker at most (Accounts).
CodeAcceptedOncePerWorker == Account!CodeAcceptedOncePerWorker

\* A vendor has a capacity on one day, that of the set-up (VendorSetup).
CapacityFollowsProfile == component = "vendors" => Vendor!CapacityFollowsProfile
=============================================================================
