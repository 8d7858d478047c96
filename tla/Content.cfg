SPECIFICATION MCSpec
CONSTANTS
  Companies = {c1, c2}
  Folders = {f1, f2}
  Documents = {d1, d2}
  MaxUploads = 4
  Conversations = {v1}
  Questions <- MCQuestions
  Rules <- MCRules
  Forms <- MCForms
  Limit = 2
  Window = 2
  MaxTurns = 3
  Slots = {s1, s2}
  None = None
SYMMETRY Symmetry
INVARIANTS
  CompaniesStayApart
  NumberedUnlessOverlapped
  BestSourcesCited
  AnswersFollowQuestions
  RequestsAlternate
  VersionsAreStored
PROPERTIES
  NeverLost
CHECK_DEADLOCK FALSE
