SPECIFICATION Spec
CONSTANTS
  Keys = {k1}
  Checkouts = {c1}
  Payloads = {v1}
  Sessions = {s1}
  ResultCodes = {"0"}
  Answers = {"error"}
  EntryPoints = {"push", "callback", "worker"}
  CallbackConcurrency = FALSE
  MaxQueryRetries = 2
  BatchLimit = 1
  MaxFaults = 0
  NoKey = NoKey
  NoCheckout = NoCheckout
  NoPayload = NoPayload
CHECK_DEADLOCK FALSE
PROPERTY
  LegalTransitions
