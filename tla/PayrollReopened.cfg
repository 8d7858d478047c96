SPECIFICATION Spec
CONSTANTS
  c1 = c1
  c2 = c2
  e1 = e1
  e2 = e2
  e3 = e3
  r1 = r1
  r2 = r2
  s1 = s1
  s2 = s2
  None = None
  Companies = {c1}
  Employees = {e1}
  Runs = {r1}
  Slots = {s1, s2}
SYMMETRY Symmetry
PROPERTIES FinalizedStays
CHECK_DEADLOCK FALSE
