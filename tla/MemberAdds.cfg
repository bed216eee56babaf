SPECIFICATION Spec
CONSTANTS
  User = {u1, u2}
  Worker = {w1, w2}
  Nobody = Nobody
  Width = 1
  Interval = 1
  MaxRoom = 1
  MaxErrors = 2
  MaxFaults = 1
INVARIANTS CacheComplete NoOldVerdict NobodyForgotten
PROPERTIES Spaced 
SYMMETRY Symmetry
CHECK_DEADLOCK FALSE
