\* One user who keeps sending and accepting offers, on two sockets that are closed one by one, the clock running: every window of two limiters.
CONSTANTS
  u1 = u1  s1 = s1  s2 = s2  c1 = c1
  None = None
  Users = {u1}
  Sockets = {s1, s2}
  Places = {}
  Viewports = {{}}
  Calls = {c1}
  Limit = 2
  Window = 2
  MaxTime = 2
  Messages = {"submit", "accept"}
  MaxReturns = 0
  Exclusive = TRUE
  Faults = {}
SPECIFICATION Spec
SYMMETRY Symmetry
INVARIANTS
  WithinLimit
  RefusesAtLimit
