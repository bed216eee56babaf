SPECIFICATION Spec
CONSTANTS
  p = p
  s = s
  s2 = s2
  c = c
  b = b
  t = t
  d = d
  Parallel = {p}
  Single = {s, s2}
  Direct = {}
  Scrape = {}
  FromBot = {}
  MaxJobs = 9
  MaxStops = 0
  MaxClears = 0
INVARIANTS OneOperation
CHECK_DEADLOCK FALSE
