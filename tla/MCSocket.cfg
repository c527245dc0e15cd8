SPECIFICATION FairSpec
CONSTANTS
  RoomMax = 2
  MaxLen = 3
  MaxIn = 3
  MaxOut = 3
  MaxSignals = 1
INVARIANTS Accounted WholeOrTold ConnectDecided
PROPERTY CallsReturn
CHECK_DEADLOCK FALSE
