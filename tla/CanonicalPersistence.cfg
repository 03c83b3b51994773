\* Two clients, two identities, a chain of two transactions and two ticks per pump.
CONSTANTS
  Owners = {a, b}
  MaximumPlayerIdentityRecords = 2
  MaximumCanonicalPlayerEntities = 2
  MaximumPersistenceTransactions = 2
  MaximumTicksPerPump = 2
  MaxVersion = 6
  MaxRevision = 4
  MaxTick = 3
SPECIFICATION Spec
INVARIANTS TypeOK Recoverable CharactersSurvive NothingRefused
PROPERTIES StampsIncrease ClockContinues
SYMMETRY OwnerSymmetry
CHECK_DEADLOCK FALSE
