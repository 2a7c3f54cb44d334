SPECIFICATION TrustSpec
CONSTANTS
  p1 = p1
  p2 = p2
  q1 = q1
  q2 = q2
  k1 = k1
  k2 = k2
  NoKey = NoKey
  Process <- MCProcess
  Peer <- MCPeer
  Key <- MCKey
  Exclusive = FALSE
  SaveMayFail = FALSE
  MaxChanges = 3
INVARIANT PairedStaysPaired
CHECK_DEADLOCK FALSE
