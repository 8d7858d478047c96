SPECIFICATION MCSpec
CONSTANTS
  w1 = w1
  h1 = h1
  d1 = d1
  j1 = j1
  j2 = j2
  None = None
  Issues = {"vat_misclassification", "duplicate_transaction"}
  MonthlyForms = {"SSS_CONTRIBUTION"}
  QuartersAhead = 2
  MonthsAhead = 1
  Attempts = 2
  Workers = {w1}
  Requests = {h1}
  Editors = {d1}
  Jobs = {j1, j2}
  FirstMonth = 2
  LastMonth = 3
INVARIANTS
  OnceUnlessOverlapped
  CalendarFollowsProfile
PROPERTIES
  JobsEnd
CHECK_DEADLOCK FALSE
