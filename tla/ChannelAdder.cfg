SPECIFICATION Spec
CONSTANTS
  a1 = a1
  a2 = a2
  u1 = u1
  u2 = u2
  u3 = u3
  Account = {a1, a2}
  User = {u1, u2, u3}
  MaxAdd = 2
  MaxCrashes = 1
  MaxFaults = 2
  MaxResets = 1
  MaxLists = 2
  Nil = Nil
SYMMETRY Symmetry
INVARIANTS CountTrue WithinLimit HistoryTrue
CHECK_DEADLOCK FALSE
