SPECIFICATION Spec
CONSTANTS
  m1 = m1
  w1 = w1
  w2 = w2
  Member = {m1}
  Suspect = {m1}
  Worker = {w1, w2}
  WarnLimit = 3
  FloodLimit = 1
  SpamLimit = 2
  MaxMedia = 5
  Nil = Nil
SYMMETRY Symmetry
PROPERTIES WordsGo
CHECK_DEADLOCK FALSE
