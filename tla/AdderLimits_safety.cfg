SPECIFICATION Spec
CONSTANTS
  Phones = {p1, p2}
  Workers = {w}
  Singles = {s}
  Quick = {}
  NoPhone = NoPhone
  Direct = FALSE
  Buttons = {"web", "bot"}
  Cooldowns = {1}
  Day = 2
  MaxAdds = 1
  MaxTime = 2
  MaxFaults = 1
  MaxResets = 1
SYMMETRY Symmetry
INVARIANTS NoLostCount NoEndlessRest
PROPERTIES RestKept
CHECK_DEADLOCK FALSE
