SPECIFICATION Spec
CONSTANTS
  Accounts = {a1}
  Keys = {k1, k2, k3}
  Sessions = {s1, s2}
  Amounts = {0, 1, 2}
  NoAccount = NoAccount
  NoKey = NoKey
SYMMETRY Symmetry
CHECK_DEADLOCK FALSE
INVARIANTS
  TypeOK
  EveryMovementAudited
  LastChangeIsBalance
  NothingCountedTwice
  UnbrokenChainExplains
