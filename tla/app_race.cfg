\* Two applicants for one plate, two calls that overlap freely and may fail.
CONSTANTS
  a1 = a1  a2 = a2  p1 = p1  lic = lic  k1 = k1  k2 = k2  k3 = k3  c1 = c1  c2 = c2
  None = None
  Applicants = {a1, a2}
  Plates = {p1}
  LicenseType = lic
  VehicleTypes = {}
  OptionalTypes = {}
  Keys = {k1, k2, k3}
  Calls = {c1, c2}
  Exclusive = FALSE
  Faults = {"abort", "storage"}
SPECIFICATION Spec
SYMMETRY Symmetry
INVARIANTS
  DocumentHasFile
  ReviewedIsComplete
