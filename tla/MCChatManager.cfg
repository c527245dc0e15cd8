CONSTANTS
  s1 = s1
  s2 = s2
  s3 = s3
  w1 = w1
  w2 = w2
  NoConn = NoConn
  NoPacket = NoPacket
  NoId = NoId
  IntBits = 4
  HelloId <- IdOf
  BroadcastId <- IdOf
  Conns = {s1, s2}
  Workers = {w1, w2}
  Script <- ScriptRelay
  QSIZE = 1
  CIR_BUFSIZE = 6
  MaxUser = 3
  PacketLen = 2
  MayFail = {}
  AddMayFail = FALSE
SPECIFICATION FairSpec
INVARIANT TypeOK
INVARIANT NotBackToSender
INVARIANT SenderOrder
PROPERTY InputProcessed
CHECK_DEADLOCK FALSE
