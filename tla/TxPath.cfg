SPECIFICATION FairSpec
CONSTANTS
  a = a
  b = b
  int8 = int8
  uint8 = uint8
  Junk = Junk
  Sockets = {a, b}
  Types = {int8, uint8}
  BufferLen = 2
  MaxMsgs = 2
  MaxLen = 4
INVARIANTS
  InOrder
  OwnBytes
  FlagAgrees
PROPERTIES
  SwitchedOff
CHECK_DEADLOCK FALSE
