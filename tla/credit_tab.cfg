SPECIFICATION Spec
CONSTANTS
  Tabs = {t1, t2}
  Keys = {k1, k2, k3}
  Sessions = {s1, s2}
  Totals = {30, 14}
  Amounts = {4, 10, 20}
  RowLocks = TRUE
  NoTab = NoTab
  NoKey = NoKey
SYMMETRY Symmetry
CHECK_DEADLOCK FALSE
INVARIANTS
  TypeOK
  StatusMatchesBalance
  PaidIsSum
