SPECIFICATION Spec
CONSTANTS
  a1 = a1
  a2 = a2
  u1 = u1
  u2 = u2
  Accounts = {a1, a2}
  Members = {u1, u2}
  IdOnly = {}
  Malformed = {}
  BlockedAtStart = {}
  StrikesAtStart = {0}
  AbortAfterFails = 25
  MaxStrikes = 6
  NoMember = NoMember
  DbMayFail = FALSE
INVARIANT NoStrandedMember
CHECK_DEADLOCK FALSE
