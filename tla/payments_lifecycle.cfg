SPECIFICATION Spec
CONSTANTS
  Keys = {k1}
  Checkouts = {c1, c2}
  Payloads = {v1, v2}
  Sessions = {s1, s2}
  ResultCodes = {"0", "1032"}
  Answers = {"no_code", "malformed"}
  EntryPoints = {"push", "callback", "query", "worker"}
  CallbackConcurrency = TRUE
  MaxQueryRetries = 2
  BatchLimit = 1
  MaxFaults = 1
  NoKey = NoKey
  NoCheckout = NoCheckout
  NoPayload = NoPayload
SYMMETRY Symmetry
CHECK_DEADLOCK FALSE
INVARIANTS
  NoDoubleCredit
  PromptsNeedFaults
  SettledAsDarajaSays
PROPERTIES
  ImplementsLifecycle
