CONSTANTS
  u1 = u1
  u2 = u2
  u3 = u3
  m1 = m1
  r1 = r1
  r2 = r2
  b1 = b1
  b2 = b2
  NoConn = NoConn
  NoMsg = NoMsg
  NoFd = NoFd
  Users = {u1, u2, u3}
  Managers = {}
  Receivers = {r1}
  Broadcasters = {b1}
  FDs = {1, 2, 3}
  QSIZE = 1
  CIR_BUFSIZE = 1
  MaxUser = 3
  PacketLen = 1
  OtherCommands = {}
  MaxSend <- SendOne
  MayFail = {u2}
  AddMayFail = FALSE
SPECIFICATION Spec
INVARIANT RightRecipient
CHECK_DEADLOCK FALSE
