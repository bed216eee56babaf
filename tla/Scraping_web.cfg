SPECIFICATION ScrapingSpec
CONSTANTS
  User = {u1}
  Chat = {c1}
  Scraper = {s1}
  Job = {j1}
  Absent = Absent
  Unsourced = Unsourced
  Every = 2
  SaveAfter = 2
  BulkChats = 2
  MaxFaults = 0
PROPERTIES MiniAppSaves
CHECK_DEADLOCK FALSE
