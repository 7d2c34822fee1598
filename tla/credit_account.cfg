SPECIFICATION Spec
CONSTANTS
  Tabs = {t1, t2}
  Keys = {k1, k2}
  Sessions = {s1, s2}
  Totals = {20}
  Amounts = {10, 20}
  RowLocks = TRUE
  NoTab = NoTab
  NoKey = NoKey
CHECK_DEADLOCK FALSE
PROPERTIES
  ImplementsCreditAccount
