\* One driver and one rider, who may change roles, on two trips; two ratings in flight.
CONSTANTS
  u1 = u1  d1 = d1  r1 = r1  r2 = r2  f1 = f1  c1 = c1  c2 = c2
  None = None
  Users = {u1, d1}
  Drivers = {d1}
  Requests = {r1, r2}
  Fares = {f1}
  Calls = {c1, c2}
SPECIFICATION Spec
SYMMETRY Symmetry
INVARIANTS
  TypeOK
  RatingIsAverage
  RatedBetweenParties
