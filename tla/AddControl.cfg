SPECIFICATION FairSpec
CONSTANTS
  p = p
  s = s
  s2 = s2
  c = c
  b = b
  t = t
  d = d
  Parallel = {p, b}
  Single = {s, t}
  Direct = {d}
  Scrape = {c}
  FromBot = {b, t, d}
  MaxJobs = 3
  MaxStops = 1
  MaxClears = 1
INVARIANTS NoResurrectedWait ExclusiveIfUndisturbed FlagHasOwner
PROPERTIES StopHolds StopTakesEffect
CHECK_DEADLOCK FALSE
