SPECIFICATION Spec
CONSTANTS
  w1 = w1  w2 = w2
  s1 = s1
  i1 = i1  i2 = i2
  f1 = f1
  r1 = r1  r2 = r2
  v1 = v1
  c1 = c1  c2 = c2
  j1 = j1  j2 = j2
  Workers = {w1, w2}
  None = None
  Scenes <- AllScenes
  Staff = {s1}
  Items = {i1, i2}
  Template = {i1}
  Findings = {f1}
  Responses = {r1, r2}
  Reviews = {v1}
  Entries = {1, 2}
  Payloads <- Recorded
  Patched <- Updated
  Books <- Quiet
  Rules <- RuleSets
  Computations = {c1, c2}
  MaxSnapshots = 2
  Incomes <- Bends
  Jobs = {j1, j2}
  Files <- Uploads
  Known = {"known", "other"}
SYMMETRY Alike
INVARIANT AuditSound
INVARIANT TaxSound
INVARIANT ScheduleFair
INVARIANT ImportsSound
PROPERTY DecisionsStand
CHECK_DEADLOCK FALSE
