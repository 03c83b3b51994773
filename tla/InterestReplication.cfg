\* Self and another player, two cells.
CONSTANTS
  Players = {self,p1}
  Self = self
  Cells = {c1, c2}
  Away = Away
  None = None
  Physics = {free, blocked}
  MaxRevision = 5
  MaxTick = 3
  MaxLane = 2
  MaxViews = 2
  MaxRequests = 2
SPECIFICATION Spec
CONSTRAINT Followed
SYMMETRY Interchangeable
INVARIANTS TypeOK RefusalsAreExplained ObservedMatchesServer CompletionIsOnlyLost
CHECK_DEADLOCK FALSE
