\* Callers interleave freely; every store operation holds the mutex.  The clock
\* reaches the overflow of an expiry.
CONSTANTS
  MaximumResumeTokenRecords = 2
  Lifetime = 2
  MaxInstant = 5
  MaxGeneration = 3
  PreparationIds = 4
  Tokens = {t1, t2, t3, t4}
  NoToken = NoToken
  Principals = {p1}
  Sessions = {s1, s2}
  Contexts = {c1, c2}
  Horizon = 4
SPECIFICATION Spec
SYMMETRY TokenSymmetry
INVARIANTS TypeOK TokenCustody SingleWinner SerialUseIsSafe
CHECK_DEADLOCK FALSE
