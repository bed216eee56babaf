SPECIFICATION FairSpec
CONSTANTS
  p = p
  s = s
  s2 = s2
  c = c
  b = b
  t = t
  d = d
  Parallel = {p}
  Single = {s}
  Direct = {}
  Scrape = {}
  FromBot = {}
  MaxJobs = 9
  MaxStops = 1
  MaxClears = 0
PROPERTIES StopIsFinal
CHECK_DEADLOCK FALSE
