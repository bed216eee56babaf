SPECIFICATION ScrapingSpec
CONSTANTS
  User = {u1, u2}
  Chat = {c1, c2}
  Scraper = {s1, s2}
  Job = {j1, j2}
  Absent = Absent
  Unsourced = Unsourced
  Every = 2
  SaveAfter = 2
  BulkChats = 2
  MaxFaults = 0
INVARIANTS GoneForGood
PROPERTIES ReportedIsSaved RightSource
SYMMETRY Symmetry
CHECK_DEADLOCK FALSE
