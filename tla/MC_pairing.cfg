SPECIFICATION PairingSpec
CONSTANTS
  a = a
  b = b
  c = c
  s1 = s1
  s2 = s2
  NoDevice = NoDevice
  Device <- ThreeDevices
  Session <- TwoSessions
  SyncMayEnd = TRUE
  SaveMayFail = TRUE
SYMMETRY PairingSymmetry
INVARIANTS PairingTypeOK TrustIsConfirmed SuccessIsShared
PROPERTY ImplementsPact
CHECK_DEADLOCK FALSE
