SPECIFICATION Spec
CONSTANTS
  p = p
  q = q
  s = s
  t = t
  m = m
  a = a
  d = d
  Nobody = Nobody
  NoPhone = NoPhone
  Phones = {p}
  Scanners = {s}
  Probes = {t}
  Manuals = {m}
  Adders = {}
  Deleters = {}
  TTL = 5
INVARIANTS NoSharedUse
