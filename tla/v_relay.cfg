\* A matched ride is cancelled.
CONSTANTS
  u1 = u1  d1 = d1  r1 = r1  f1 = f1  c1 = c1
  None = None
  Users = {u1, d1}
  Drivers = {d1}
  Requests = {r1}
  Fares = {f1}
  Calls = {c1}
  Leavers = {}
  MaxAttempts = 2
  Exclusive = TRUE
  Faults = {}
SPECIFICATION Spec
INVARIANTS
  RelayOnlyForActiveTrip
CHECK_DEADLOCK FALSE
