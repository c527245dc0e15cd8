CONSTANTS
  s1 = s1
  s2 = s2
  s3 = s3
  w1 = w1
  w2 = w2
  NoConn = NoConn
  NoPacket = NoPacket
  NoId = NoId
  IntBits = 4
  HelloId <- IdOf
  BroadcastId <- IdOf
  Conns = {s1, s2, s3}
  Workers = {w1, w2}
  Script <- ScriptOwner
  QSIZE = 1
  CIR_BUFSIZE = 1
  MaxUser = 2
  PacketLen = 1
  MayFail = {s1}
  AddMayFail = TRUE
SPECIFICATION Spec
INVARIANT NoUseAfterFree
INVARIANT SoleOwner
CHECK_DEADLOCK FALSE
