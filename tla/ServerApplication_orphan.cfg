\* The transport refuses a receive.
CONSTANTS
  MaximumResumeTokenRecords = 2
  Lifetime = 2
  MaxInstant = 9
  MaxGeneration = 3
  PreparationIds = 16
  Tokens = {c1, c2, c3}
  NoToken = NoToken
  Players = {p1, p2}
  MaximumCanonicalPlayerEntities = 2
  MaximumCanonicalActiveSessions = 2
  Capacity = 2
  RestoredPlayers = {}
  MaxSession = 9
  Faults = {"receive"}
  Horizon = 3
SPECIFICATION Spec
SYMMETRY NameSymmetry
INVARIANT SessionsHaveOwners
CHECK_DEADLOCK FALSE
