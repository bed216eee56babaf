SPECIFICATION FairSpec
CONSTANTS
  a1 = a1
  a2 = a2
  u1 = u1
  u2 = u2
  u3 = u3
  u4 = u4
  Accounts = {a1, a2}
  Members = {u1, u2, u3, u4}
  IdOnly = {u4}
  Malformed = {u3}
  BlockedAtStart = {u2}
  StrikesAtStart = {0, 2}
  AbortAfterFails = 2
  MaxStrikes = 2
  NoMember = NoMember
  DbMayFail = TRUE
INVARIANTS EveryMemberOnce Conservation NoBlockedInvite RecordedVerdicts
PROPERTIES Terminates NoInviteAfterStop ImplementsDispatch
CHECK_DEADLOCK FALSE
