SPECIFICATION MCSpec
CONSTANTS
  u1 = u1
  u2 = u2
  RoleRows <- MCRoleRows
  Channels <- MCChannels
  Reachable <- MCReachable
  Windows <- MCWindows
  Due = 2
  LastDay = 3
  Replicas = {1}
  Jobs = {1, 2}
  Choices <- MCChoices
  Attempts = 2
  None = None
INVARIANTS
  RemindersAreOwed
  OptOutHolds
  NoticesTell
  StatusNotAhead
PROPERTIES
  RemindersEnd
CHECK_DEADLOCK FALSE
