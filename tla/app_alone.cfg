\* One applicant, the calls one after the other, no failures.
CONSTANTS
  a1 = a1  p1 = p1  p2 = p2  lic = lic  v1 = v1  o1 = o1  k1 = k1  k2 = k2  k3 = k3  k4 = k4  c1 = c1
  None = None
  Applicants = {a1}
  Plates = {p1, p2}
  LicenseType = lic
  VehicleTypes = {v1}
  OptionalTypes = {o1}
  Keys = {k1, k2, k3, k4}
  Calls = {c1}
  Exclusive = TRUE
  Faults = {}
SPECIFICATION Spec
SYMMETRY Symmetry
INVARIANTS
  ProfileMeansVerified
  StampsMatchStatus
  NoOrphanFile
PROPERTIES
  ReviewedIsFixed
