\* One connection that is pumped, and one that only fills up, for the groups.
CONSTANTS
  c1 = c1
  c2 = c2
  Connections <- MCConnections
  mConnectionLimit = 2
  ReliableMessages = 2
  ReliableBytes = 3
  SendAttemptsPerPump = 3
  ReliableBurstBeforeLatest = 1
  ReliableRateBurst = 2
  ReliableRefill = 2
  LatestRateBurst = 1
  LatestRefill = 1
  ConsecutiveBlockLimit = 2
  BlockedDeadline = 2
  Sizes = {1, 3}
  Offered <- MCOffered
  Pumped = {c1}
  Elapses = {0, 2}
  Idle = Idle
SPECIFICATION OutboundFairSpec
INVARIANTS OutboundTypeOK ReliableInOrder
PROPERTIES SilentPeerIsEvicted SlotsAreOffered
CHECK_DEADLOCK FALSE
