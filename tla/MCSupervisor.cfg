CONSTANTS
  w1 = w1
  Workers = {w1}
  Main = Main
  NoThread = NoThread
  Pids = {1, 2}
  DN_CNT = 1
  ManagerList <- OwnThenRemote
  MaxExtra = 1
  MaxTime = 1
SPECIFICATION FairSpec
INVARIANT TypeOK
INVARIANT ServersConserved
INVARIANT NoTwoGenerations
INVARIANT OldIdsExplained
INVARIANT CleanFirstForks
PROPERTY Recovers
CHECK_DEADLOCK FALSE
