\* Two drivers, handlers kept apart, every failure: the lifecycle is implemented.
CONSTANTS
  u1 = u1  d1 = d1  d2 = d2  r1 = r1  f1 = f1  f2 = f2  c1 = c1
  None = None
  Users = {u1, d1, d2}
  Drivers = {d1, d2}
  Requests = {r1}
  Fares = {f1, f2}
  Calls = {c1}
  Leavers = {}
  MaxAttempts = 2
  Exclusive = TRUE
  Faults = {"abort", "crash", "jobfail"}
SPECIFICATION Spec
INVARIANTS
  TypeOK
  NoOfferOutlivesRequest
  TripMirrorsRequest
  DealHonoursOffer
PROPERTIES
  ImplementsLifecycle
CHECK_DEADLOCK FALSE
