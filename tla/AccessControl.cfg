CONSTANTS
  u1 = u1  u2 = u2  u3 = u3
  m1 = m1  m2 = m2  m3 = m3
  t1 = t1  t2 = t2  t3 = t3  t4 = t4
  w1 = w1  w2 = w2
  Users = {u1, u2, u3}
  SuperAdmins = {u3}
  Founder = u1
  Rows = {m1, m2, m3}
  Tokens = {t1, t2, t3, t4}
  Workers = {w1, w2}
  None = None
  Desks = {"api", "people", "sessions"}
  Crowded = {"sessions"}
SYMMETRY Alike
SPECIFICATION Spec
INVARIANTS RosterSound RolesSeparated
PROPERTY SessionsSound
CHECK_DEADLOCK FALSE
