\* One account, two passwords, two session tokens, two reset codes; two requests overlap freely.
CONSTANTS
  u1 = u1  p1 = p1  p2 = p2  t1 = t1  t2 = t2  r1 = r1  r2 = r2  c1 = c1  c2 = c2
  None = None
  Users = {u1}
  Passwords = {p1, p2}
  Tokens = {t1, t2}
  Resets = {r1, r2}
  Calls = {c1, c2}
SPECIFICATION Spec
SYMMETRY Symmetry
VIEW View
INVARIANTS
  TypeOK
  SessionsMatchPassword
  OneLivePerLogin
  OneValidCode
  OneTimeCode
PROPERTIES
  EndedStaysEnded
