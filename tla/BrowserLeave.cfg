SPECIFICATION SysFairSpec
CONSTANTS
  a = a
  b = b
  ws = ws
  Clients = {a, b}
  Socks = {ws}
  SockOf <- AllOnWS
  Drivers = {"rtl"}
  ProfileOps = {}
  NumRX = 1
  NumTX = 1
  Messages <- BrowserMessages
  Heap = {0}
  MaxMsgs = 0
  MaxWaiting = 0
  MaxChannels = 2
  Rooms = {2}
  Picks <- Tunings
  MaxTunes = 1
PROPERTIES
  BackToIdleAlways
