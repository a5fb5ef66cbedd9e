\* A driver who disconnects twice.
CONSTANTS
  u1 = u1  d1 = d1  r1 = r1  f1 = f1  c1 = c1
  None = None
  Users = {u1, d1}
  Drivers = {d1}
  Requests = {r1}
  Fares = {f1}
  Calls = {c1}
  Leavers = {d1}
  MaxAttempts = 2
  Exclusive = TRUE
  Faults = {}
SPECIFICATION Spec
PROPERTIES
  OfflineSchedulesExpiry
CHECK_DEADLOCK FALSE
