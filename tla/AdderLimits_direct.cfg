SPECIFICATION Spec
CONSTANTS
  Phones = {p1, p2}
  Workers = {}
  Singles = {s}
  Quick = {k}
  NoPhone = NoPhone
  Direct = TRUE
  Buttons = {"web"}
  Cooldowns = {1}
  Day = 9
  MaxAdds = 2
  MaxTime = 1
  MaxFaults = 1
  MaxResets = 1
SYMMETRY Symmetry
INVARIANTS NoLostCount NoOvercount
CHECK_DEADLOCK FALSE
