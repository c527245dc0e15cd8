CONSTANTS
  Bytes = {"a", "b"}
  Undefined = Undefined
  Size = 6
  HeaderSize = 2
  RECV_NOT_ENOUGH <- MCNotEnough
  MaxPut = 4
  MaxBacklog = 3
  MaxGet = 2
SPECIFICATION Spec
INVARIANT TypeOK
PROPERTY ImplementsStream
