SPECIFICATION Spec
CONSTANTS
  u1 = u1
  u2 = u2
  s1 = s1
  a1 = a1
  l1 = l1
  None = None
  Offline = Offline
  Users = {u1, u2}
  Sessions = {s1}
  Agents = {a1}
  Logins = {l1}
  RoleSets <- Singles
  MethodSets <- Methods
  GrantSets <- Grants
  MaxSessions = 1
  MaxAgents = 1
  MaxCommands = 3
  MaxEvents = 3
SYMMETRY Symmetry
INVARIANTS
  OwnerCanSignIn
  EndedProofsStayEnded
PROPERTIES
  RanksHold
CHECK_DEADLOCK FALSE
