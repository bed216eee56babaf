SPECIFICATION Spec
CONSTANTS
  ph = ph
  l1 = l1
  l2 = l2
  r1 = r1
  r2 = r2
  Phone = {ph}
  Login = {l1, l2}
  Request = {r1, r2}
  NoLogin = NoLogin
  Blank = Blank
  MaxFaults = 2
SYMMETRY Symmetry
PROPERTIES DeletedOnlyIfExpired
CHECK_DEADLOCK FALSE
