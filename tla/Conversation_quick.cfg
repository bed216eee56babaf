SPECIFICATION DialogueSpec
CONSTANTS
  a1 = a1
  a2 = a2
  h1 = h1
  h2 = h2
  Account = {a1, a2}
  Handler = {h1, h2}
  MaxDialogues = 2
  Nil = Nil
SYMMETRY Symmetry
INVARIANTS QuickBooked
CHECK_DEADLOCK FALSE
