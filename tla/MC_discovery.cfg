SPECIFICATION FairDiscoverySpec
CONSTANTS
  q1 = q1
  q2 = q2
  Self = Self
  Peer <- MCPeer
  MaxMoves = 2
INVARIANTS DiscoveryTypeOK
PROPERTIES ImplementsPeerFeed GoneIsLost PresentIsFound
CHECK_DEADLOCK FALSE
