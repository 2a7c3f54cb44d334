SPECIFICATION MCStarSpec
CONSTANTS
  mac = mac
  box = box
  pc = pc
  x = x
  NoText = NoText
  Empty = Empty
  Device <- MCStarDevice
  Darwin <- MCStarDarwin
  Text <- MCText
  Big <- MCNone
  Unencodable <- MCNone
  ApiMayFail = FALSE
  SaveMayFail = TRUE
  MaxCopies = 2
  MaxTasks = 1
  MaxLinks = 1
  MaxInFlight = 2
INVARIANTS LinksCarryOwnCopies
PROPERTIES CopyArrives
CHECK_DEADLOCK FALSE
ACTION_CONSTRAINT MCStarStep
