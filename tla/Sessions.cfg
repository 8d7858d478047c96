SPECIFICATION MCSpec
CONSTANTS
  u1 = u1
  u2 = u2
  p1 = p1
  p2 = p2
  t1 = t1
  t2 = t2
  t3 = t3
  s1 = s1
  s2 = s2
  None = None
  Users = {u1, u2}
  SeedAdmins = {u2}
  Passwords = {p1, p2}
  SessionIds = {1, 2, 3, 4}
  Tokens = {t1, t2, t3}
  Slots = {s1, s2}
  MaxAttempts = 2
  FailedCap = 3
SYMMETRY Symmetry
INVARIANTS
  SessionsOfVerified
  ResetEndsSessions
  LocksUnlessInterrupted
  SessionsUnlessOverlapped
PROPERTIES
  LinksUnlessOverlapped
CHECK_DEADLOCK FALSE
