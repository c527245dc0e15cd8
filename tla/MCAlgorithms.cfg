SPECIFICATION Spec
CONSTANTS
  MAX_LINE_SIZE = 8
  MAX_KEY_SIZE = 4
  MAX_VALUE_SIZE = 4
  Beyond = Beyond
  Block = 8
  Word = 32
  Junk = Junk
  MAX_MESSAGE_SIZE = 12
  PDUBODYSIZE = 14
  IdSize = 2
  LengthBits = 4
  MESSAGE_BUFFER = 8
  USERNAME_BUFFER = 3
  MaxPieces <- PiecesBound
  Garbage = {0, 3}
INVARIANTS ConfigRead UtilitiesRight TextsRelayed TypedShown
CHECK_DEADLOCK FALSE
