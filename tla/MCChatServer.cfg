CONSTANTS
  u1 = u1
  u2 = u2
  u3 = u3
  m1 = m1
  r1 = r1
  r2 = r2
  b1 = b1
  b2 = b2
  NoConn = NoConn
  NoMsg = NoMsg
  NoFd = NoFd
  Users = {u1, u2}
  Managers = {m1}
  Receivers = {r1, r2}
  Broadcasters = {b1}
  FDs = {1, 2, 3}
  QSIZE = 2
  CIR_BUFSIZE = 2
  MaxUser = 2
  PacketLen = 1
  OtherCommands = {}
  MaxSend <- SendRouting
  MayFail = {}
  AddMayFail = FALSE
SPECIFICATION Spec
INVARIANT TypeOK
INVARIANT NoRelayLoop
INVARIANT SenderOrder
CHECK_DEADLOCK FALSE
