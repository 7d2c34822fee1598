SPECIFICATION FairSpec
CONSTANTS
  Keys = {k1, k2}
  Checkouts = {c1, c2}
  Payloads = {v1}
  Sessions = {s1}
  ResultCodes = {"0", "1032"}
  Answers = {"error"}
  EntryPoints = {"push", "callback", "worker"}
  CallbackConcurrency = FALSE
  MaxQueryRetries = 2
  BatchLimit = 2
  MaxFaults = 1
  NoKey = NoKey
  NoCheckout = NoCheckout
  NoPayload = NoPayload
CHECK_DEADLOCK FALSE
INVARIANTS
  RetriesStayScheduled
PROPERTIES
  Settles
