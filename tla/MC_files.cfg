SPECIFICATION FilesSpec
CONSTANTS
  p1 = p1
  p2 = p2
  q1 = q1
  q2 = q2
  k1 = k1
  k2 = k2
  s1 = s1
  s2 = s2
  NoKey = NoKey
  NoSigningKey = NoSigningKey
  Process <- MCProcess
  Peer <- MCPeer
  Key <- MCKey
  SigningKey <- MCSigningKey
  Exclusive = FALSE
  SaveMayFail = TRUE
  OneInit = TRUE
  MaxChanges = 3
INVARIANTS FilesTypeOK StoreIsOurs
PROPERTIES ImplementsDeviceKey OpensWhatWasSaved
CHECK_DEADLOCK FALSE
