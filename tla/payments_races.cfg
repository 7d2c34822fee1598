SPECIFICATION Spec
CONSTANTS
  Keys = {k1}
  Checkouts = {c1}
  Payloads = {v1}
  Sessions = {s1, s2}
  ResultCodes = {"0", "1032"}
  Answers = {"error", "no_code", "malformed"}
  EntryPoints = {"push", "create", "callback", "query", "manual", "worker"}
  CallbackConcurrency = TRUE
  MaxQueryRetries = 2
  BatchLimit = 1
  MaxFaults = 1
  NoKey = NoKey
  NoCheckout = NoCheckout
  NoPayload = NoPayload
SYMMETRY Symmetry
CHECK_DEADLOCK FALSE
INVARIANTS
  TypeOK
  RetriesStayScheduled
  AuditTrail
  ReceiptsArePaid
PROPERTIES
  StkTerminalForever
