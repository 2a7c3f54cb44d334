SPECIFICATION SyncSpec
CONSTANTS
  mac = mac
  box = box
  pc = pc
  x = x
  NoText = NoText
  Empty = Empty
  Device <- MCDevice
  Darwin <- MCDarwin
  Text <- MCText
  Big <- MCNone
  Unencodable <- MCNone
  ApiMayFail = TRUE
  SaveMayFail = TRUE
  MaxCopies = 2
  MaxTasks = 2
  MaxLinks = 1
  MaxInFlight = 2
INVARIANTS SyncTypeOK LinksCarryOwnCopies
PROPERTIES OnlyTrustedTexts ImplementsFeed
CHECK_DEADLOCK FALSE
