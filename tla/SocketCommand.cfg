SPECIFICATION FairSpec
CONSTANTS
  MaxConns = 2
  Fds <- TwoFds
  Writers = {}
  Upper = "command"
  WS = TRUE
  MaxMsgs = 2
  MaxSends = 0
  SndBuf = 1
INVARIANTS
  TypeOK
  ReplyIsolation
  OneReaderInside
  EndedIsForgotten
PROPERTIES
  ClosedIsReleased
