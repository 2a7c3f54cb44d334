SPECIFICATION FairClientSpec
CONSTANTS
  q1 = q1
  q2 = q2
  NoPeer = NoPeer
  Peer <- TwoPeers
  MaxTask = 4
  MaxConn = 2
INVARIANT ClientTypeOK
INVARIANT EntriesAreOpen
INVARIANT OncePerConnection
INVARIANT InOrder
 
PROPERTY NoFrameAfterClose
PROPERTY BroadcastEnds
CHECK_DEADLOCK FALSE
