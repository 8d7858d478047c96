SPECIFICATION MCSpec
CONSTANTS
  u1 = u1
  u2 = u2
  f1 = f1
  f2 = f2
  c1 = c1
  i1 = i1
  i2 = i2
  s1 = s1
  s2 = s2
  None = None
  Users = {u1, u2}
  Firms = {f1, f2}
  Companies = {c1}
  Invitations = {i1, i2}
  Slots = {s1, s2}
  AssignableRoles = {"firm_admin", "firm_bookkeeper"}
  InvitableRoles = {"accountant"}
SYMMETRY Symmetry
INVARIANTS
  OneActiveOwner
  ConsentOnBothSides
  TablesAgreeUnlessOverlapped
  FounderStaysOwner
  RolesByConsent
  OnlyOwnersInvite
PROPERTIES
  DecisionsLastUnlessOverlapped
  RevokedForGood
