SPECIFICATION MCSpec
CONSTANTS
  Users = {a, b}
  Slots = {s1, s2}
  MaxActs = 4
  Ids = {1, 2}
  Agencies = {"BIR", "SSS"}
  MaxQuestions = 4
  MaxVisits = 3
  None = None
INVARIANTS
  ActsAsShown
  NotTurnedAway
  CountedTwiceAtMost
  PageFollowsUser
  ShowsConversation
PROPERTIES
  NothingHangs
CHECK_DEADLOCK FALSE
