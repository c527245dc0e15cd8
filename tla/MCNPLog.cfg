CONSTANTS
  NoFile = NoFile
  MonthDays = 2
  MAX_LOG_FILE_SIZE = 1
  SizeBits = 4
  InRootThunder = TRUE
  MaxLines = 4
  MaxDay = 2
  MaxStarts = 2
SPECIFICATION FairSpec
INVARIANT TypeOK
INVARIANT InOrder
PROPERTY LossExplained
PROPERTY LockReleased
CHECK_DEADLOCK FALSE
