SPECIFICATION TrustSpec
CONSTANTS
  p1 = p1
  p2 = p2
  q1 = q1
  q2 = q2
  k1 = k1
  k2 = k2
  NoKey = NoKey
  Process <- MCProcess
  Peer <- MCPeer
  Key <- MCKey
  Exclusive = TRUE
  SaveMayFail = FALSE
  MaxChanges = 4
INVARIANT TrustTypeOK
INVARIANT MemoryPersisted
INVARIANT PairedStaysPaired
INVARIANT RemovedStaysRemoved
PROPERTY ImplementsDeviceMap
CHECK_DEADLOCK FALSE
