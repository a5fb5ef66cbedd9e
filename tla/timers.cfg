\* One driver who comes and goes, on two requests; handlers of each kept apart, no failures, fair.
CONSTANTS
  u1 = u1  d1 = d1  r1 = r1  r2 = r2  f1 = f1  c1 = c1
  None = None
  Users = {u1, d1}
  Drivers = {d1}
  Requests = {r1, r2}
  Fares = {f1}
  Calls = {c1}
  Leavers = {d1}
  MaxAttempts = 2
  Exclusive = TRUE
  Faults = {}
SPECIFICATION FairSpec
INVARIANTS
  PendingOfferHasTimer
PROPERTIES
  ImplementsLifecycle
  PendingOfferResolves
