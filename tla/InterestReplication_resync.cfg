\* A resync of a world at rest.
CONSTANTS
  Players = {self,p1}
  Self = self
  Cells = {c1, c2}
  Away = Away
  None = None
  Physics = {free, blocked}
  MaxRevision = 5
  MaxTick = 3
  MaxLane = 2
  MaxViews = 2
  MaxRequests = 2
SPECIFICATION Spec
CONSTRAINT WithoutPhysics
SYMMETRY Interchangeable
INVARIANT ResyncsAreAccepted
CHECK_DEADLOCK FALSE
