SPECIFICATION Spec
CONSTANTS
  Phones = {p1, p2}
  Workers = {}
  Singles = {s}
  Quick = {}
  NoPhone = NoPhone
  Direct = FALSE
  Buttons = {"bot"}
  Cooldowns = {1}
  Day = 9
  MaxAdds = 1
  MaxTime = 1
  MaxFaults = 0
  MaxResets = 1
SYMMETRY Symmetry
INVARIANTS ResetHolds
CHECK_DEADLOCK FALSE
