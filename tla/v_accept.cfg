\* An acceptance overtaken by a cancellation or an expiry.
CONSTANTS
  u1 = u1  d1 = d1  r1 = r1  f1 = f1  c1 = c1  c2 = c2
  None = None
  Users = {u1, d1}
  Drivers = {d1}
  Requests = {r1}
  Fares = {f1}
  Calls = {c1, c2}
  Leavers = {}
  MaxAttempts = 2
  Exclusive = FALSE
  Faults = {}
SPECIFICATION Spec
PROPERTIES
  AcceptsOnlyPending
CHECK_DEADLOCK FALSE
