SPECIFICATION FairSpec
CONSTANTS
  p = p
  q = q
  s = s
  t = t
  m = m
  a = a
  d = d
  Nobody = Nobody
  NoPhone = NoPhone
  Phones = {p, q}
  Scanners = {s}
  Probes = {t}
  Manuals = {m}
  Adders = {a}
  Deleters = {d}
  TTL = 1
INVARIANTS UsersHoldTheLock ExclusiveUse LockersDoNotRob NoOrphan
PROPERTY LocksExpire
