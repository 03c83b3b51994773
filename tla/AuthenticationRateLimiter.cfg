\* Two callers of three scopes, for which the table has two places; the global
\* bucket refills faster than those of the scopes.
CONSTANTS
  Callers = {c1, c2}
  Scopes = {s1, s2, s3}
  NoCall = NoCall
  NoBucket = NoBucket
  MaximumAuthenticationAdmissionScopes = 2
  SourceBurst = 2
  GlobalBurst = 2
  SourceRefill = 3
  GlobalRefill = 2
  Instants = 16
  Horizon = 6
SPECIFICATION Spec
SYMMETRY Symmetry
INVARIANTS TypeOK RefillsInThePast RatesHold RefusalIsEarned
CHECK_DEADLOCK FALSE
