\* Two machines race for the token of a client that left earlier; the clock
\* reaches the overflow.  Fairness of the timeout check and of the clock only.
CONSTANTS
  MaximumResumeTokenRecords = 2
  Lifetime = 3
  MaxInstant = 5
  MaxGeneration = 3
  PreparationIds = 4
  Tokens = {t0, m1, m2}
  NoToken = NoToken
  Machines = {m1, m2}
  NegotiationTime = 1
  InputTime = 2
  ProviderTime = 2
  MaxSession = 3
  Horizon = 4
SPECIFICATION FairSpec
INVARIANTS TypeOK ReservationsAreHeld
PROPERTIES MachinesOnlyMoveOn StagesEnd
CHECK_DEADLOCK FALSE
