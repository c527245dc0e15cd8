CONSTANTS
  u1 = u1
  u2 = u2
  u3 = u3
  m1 = m1
  r1 = r1
  r2 = r2
  b1 = b1
  b2 = b2
  NoConn = NoConn
  NoMsg = NoMsg
  NoFd = NoFd
  Users = {u1}
  Managers = {m1}
  Receivers = {r1}
  Broadcasters = {b1}
  FDs = {1, 2}
  QSIZE = 1
  CIR_BUFSIZE = 4
  MaxUser = 2
  PacketLen = 2
  OtherCommands <- OneOtherCommand
  MaxSend <- SendPackets
  MayFail = {u1}
  AddMayFail = FALSE
SPECIFICATION FairSpec
PROPERTY InputProcessed
PROPERTY MessagesBroadcast
CHECK_DEADLOCK FALSE
