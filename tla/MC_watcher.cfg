SPECIFICATION FairWatcherSpec
CONSTANTS
  d1 = d1
  x = x
  y = y
  big = big
  bad = bad
  NoText = NoText
  Empty = Empty
  Device <- MCDevice
  Darwin <- MCDevice
  Text <- MCText
  Big <- MCBig
  Unencodable <- MCUnencodable
  ApiMayFail = FALSE
  MaxCopies = 3
  MaxTasks = 3
INVARIANT WatcherTypeOK
INVARIANT NoEcho
INVARIANT OldTextIsKnown
PROPERTY CopyDetected
CHECK_DEADLOCK FALSE
