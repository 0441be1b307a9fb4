SPECIFICATION FairSpec
CONSTANTS
  MaxConns = 2
  Fds <- TwoFds
  Writers = {w1}
  Upper = "data"
  WS = TRUE
  MaxMsgs = 1
  MaxSends = 2
  SndBuf = 1
PROPERTIES
  BroadcastComplete
  HandshakeFirst
  SendEnds
