SPECIFICATION ClientSpec
CONSTANTS
  q1 = q1
  q2 = q2
  NoPeer = NoPeer
  Peer <- TwoPeers
  MaxTask = 4
  MaxConn = 3
INVARIANT SendsToAll
CHECK_DEADLOCK FALSE
