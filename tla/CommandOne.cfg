SPECIFICATION Spec
CONSTANTS
  a = a
  b = b
  tcp = tcp
  ws = ws
  Clients = {a, b}
  Socks = {tcp, ws}
  SockOf <- OneEach
  Drivers = {"uhd", "rtl", "hackrf"}
  ProfileOps = {"RXFREQ"}
  NumRX = 1
  NumTX = 1
  Messages <- Lines
  Heap = {0}
  MaxMsgs = 3
  MaxWaiting = 1
  MaxChannels = 2
  Rooms = {2}
INVARIANTS
  TypeOK
  AnsweredToAsker
  UidsAgree
  AnsweredOnce
  ClosedIsQuiet
SYMMETRY Symmetry
