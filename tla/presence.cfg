\* One user, who drives and watches the map, on two sockets; two calls in flight.
CONSTANTS
  u1 = u1  s1 = s1  s2 = s2  p1 = p1  p2 = p2  c1 = c1  c2 = c2
  None = None
  Users = {u1}
  Sockets = {s1, s2}
  Places = {p1, p2}
  Viewports = {{p1, p2}, {p2}}
  Calls = {c1, c2}
  Limit = 1
  Window = 2
  MaxTime = 0
  Messages = {"location", "subscribe"}
  MaxReturns = None
  Exclusive = TRUE
  Faults = {"abort", "crash"}
SPECIFICATION Spec
SYMMETRY Symmetry
VIEW View
INVARIANTS
  TypeOK
  LookupNotStale
  SubscriberIsConnected
  RiderModeIsOffline
  RideNotToOwner
  PinIsCurrent
