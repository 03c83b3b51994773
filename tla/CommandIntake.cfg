\* Two sessions, a clock that may step back, and every counter running out;
\* fairness of the pump and of the clock.
CONSTANTS
  Sources = {s1, s2}
  MaximumPendingServerCommands = 3
  MaximumPendingServerCommandsPerSessionGeneration = 2
  MaximumServerCommandsPerTick = 1
  MaximumCatchUpTicks = 2
  ServerTicksPerSecond = 3
  NanosecondsPerSecond = 5
  Epochs = {0, 1}
  EpochTicks = {0, 2}
  MaxTick = 6
  MaxInstant = 9
  MaxOrdinal = 3
  ClockStepsBack = TRUE
  Submissions = 4
  Horizon = 8
SPECIFICATION FairSpec
INVARIANTS TypeOK CommandsKeepTheirOrder TicksAreEarned
PROPERTIES LagCountsDueTicks CommandsAreAdmitted
CHECK_DEADLOCK FALSE
