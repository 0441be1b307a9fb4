SPECIFICATION SysFairSpec
CONSTANTS
  a = a
  b = b
  ws = ws
  Clients = {a, b}
  Socks = {ws}
  SockOf <- AllOnWS
  Drivers = {"rtl", "hackrf"}
  ProfileOps = {}
  NumRX = 1
  NumTX = 1
  Messages <- BrowserMessages
  Heap <- AnyHeap
  MaxMsgs = 0
  MaxWaiting = 0
  MaxChannels = 2
  Rooms = {1, 2}
  Picks <- Tunings
  MaxTunes = 3
INVARIANTS
  AloneMeansBound
  NoCrash
  LastWins
PROPERTIES
  Sessions
