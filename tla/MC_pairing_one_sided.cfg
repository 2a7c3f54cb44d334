SPECIFICATION PairingSpec
CONSTANTS
  a = a
  b = b
  c = c
  s1 = s1
  s2 = s2
  NoDevice = NoDevice
  Device <- TwoDevices
  Session <- TwoSessions
  SyncMayEnd = FALSE
  SaveMayFail = FALSE
INVARIANT BothOrNeither
CHECK_DEADLOCK FALSE
