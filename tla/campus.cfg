SPECIFICATION Spec
CONSTANTS
  Sessions = {s1, s2}
  Answers = {"disabled", "error", "accepted", "undelivered"}
  Topics = {t1}
  MaxNotifications = 2
  NoTopic = NoTopic
  CategoryNames = {c1, c2}
  ItemNames = {n1}
  Prices = {1}
  MaxItems = 2
  NoCatalog = NoCatalog
  Customers = {u1}
  ServiceItems = {i1}
  MaxEntries = 2
  Vendors = {v1, v2}
  NoVendor = NoVendor
  Asked = {"confirmed", "completed", "cancelled"}
  MaxBookings = 1
  Identities = {a1, a2}
  MaxUsers = 2
  MaxCodes = 2
  MaxDay = 2
CHECK_DEADLOCK FALSE
INVARIANTS
  TypeOK
  OutcomeIsTrue
  StaleNeedsRace
  SecondPlaceNeedsRace
  LastRequestShows
  VerificationIsWhole
  CodeAcceptedOncePerWorker
  CapacityFollowsProfile
PROPERTIES
  ReadIsFinal
  StaleExpires
  RemovedIsForever
  CompletedIsNotCancelled
