SPECIFICATION Spec
CONSTANTS
  MaxConns = 2
  Fds <- TwoFds
  Writers = {w1}
  Upper = "shell"
  WS = TRUE
  MaxMsgs = 2
  MaxSends = 2
  SndBuf = 1
INVARIANTS
  CrashOnlyWhileLinking
PROPERTIES
  UnlinkedOnlyWhenGone
