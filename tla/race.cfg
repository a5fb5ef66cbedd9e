\* Two drivers compete for one request and renew their bids; two calls overlap freely, may fail, and the process may crash.
CONSTANTS
  u1 = u1  d1 = d1  d2 = d2  r1 = r1  f1 = f1  c1 = c1  c2 = c2
  None = None
  Users = {u1, d1, d2}
  Drivers = {d1, d2}
  Requests = {r1}
  Fares = {f1}
  Calls = {c1, c2}
  Leavers = {}
  MaxAttempts = 2
  Exclusive = FALSE
  Faults = {"abort", "crash"}
SPECIFICATION Spec
SYMMETRY Symmetry
INVARIANTS
  AcceptedOfferHasTrip
  RequestTracksTrip
  TripBetweenParties
  RelayToOwnRider
  WorkerHoldsActiveJob
  ReadsStayTrue
PROPERTIES
  DealIsFinal
CHECK_DEADLOCK FALSE
