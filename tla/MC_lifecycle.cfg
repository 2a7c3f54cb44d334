SPECIFICATION MCLifeSpec
CONSTANTS
  a = a
  b = b
  Device <- MCDevice
  Asked <- MCDevice
  MaxStarts = 3
INVARIANTS LifeTypeOK DisconnectsAll
PROPERTIES StopEnds AllStopAllEnd Reaches GoneIsDropped
CHECK_DEADLOCK FALSE
ACTION_CONSTRAINT MCStep
