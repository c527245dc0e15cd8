CONSTANTS
  p1 = p1
  p2 = p2
  c1 = c1
  c2 = c2
  v1 = v1
  v2 = v2
  Producers <- MCProducers
  Consumers <- MCConsumers
  Items <- MCItems
  NoItem = NoItem
  NoThread = NoThread
  QSIZE = 2
SPECIFICATION FairSpec
INVARIANT TypeOK
INVARIANT NoLostWakeup
PROPERTY ImplementsFIFO
PROPERTY ItemsLeave
PROPERTY FullQueueReopens
