\* Queues fill up, writes fail, the random source, the registry and the transport
\* refuse; the clock reaches the overflow; players may be restored at startup.
CONSTANTS
  MaximumResumeTokenRecords = 2
  Lifetime = 2
  MaxInstant = 4
  MaxGeneration = 3
  PreparationIds = 16
  Tokens = {c1, c2, c3}
  NoToken = NoToken
  Players = {p1, p2}
  MaximumCanonicalPlayerEntities = 2
  MaximumCanonicalActiveSessions = 2
  Capacity = 2
  RestoredPlayers = {p1, p2}
  MaxSession = 9
  Faults = {"token", "identity", "queue", "durability", "persist", "receive", "resync"}
  Horizon = 3
SPECIFICATION Spec
SYMMETRY NameSymmetry
INVARIANTS TypeOK RegistriesAgree OrphansWereDiscarded NoSharedGeneration
PROPERTY ImplementsPresence
CHECK_DEADLOCK FALSE
