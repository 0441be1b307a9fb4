------------------------ MODULE CommandAloneProofs ------------------------
(***************************************************************************)
(* What CommandSystem promises beyond its sessions, when all browsers use  *)
(* one command socket: none of them makes the server follow a null pointer *)
(* or end by an exception, and one that has the server to itself is bound  *)
(* to its own channel and sees its user's last wishes set.                 *)
(***************************************************************************)
EXTENDS CommandSystemProofs

USE DEF textVars, handlerVars, registryVars, deviceVars, wireVars, askVars

-----------------------------------------------------------------------------
(***************************************************************************)
(* The channel the socket has selected is the one opened last, and before  *)
(* there is one nothing but NEWCHANNEL is on its way.                      *)
(***************************************************************************)
Chosen ==
  \A k \in Used :
    numChannels > 0 /\ pc[k] # "return" => curChan[k] = numChannels - 1

OnlyNew(c) ==
  /\ state[c] \in {"INIT", "OPEN", "CLOSED"}
  /\ toClient[c] = <<>>
  /\ \A i \in 1 .. Len(toServer[c]) :
       \A cmd \in BrowserCommands :
         toServer[c][i] = Whole(cmd) => cmd.op = "NEWCHANNEL"
Before(k) ==
  /\ pc[k] \in {"idle", "getline", "execute", "number"}
  /\ pc[k] = "execute" => line[k].cmd.op = "NEWCHANNEL"
  /\ \A i \in 1 .. Len(stream) : stream[i].cmd.op = "NEWCHANNEL"
Bare ==
  numChannels = 0 => (\A c \in Clients : OnlyNew(c)) /\ (\A k \in Used : Before(k))

\* Every stream of a receive channel has a socket behind it.
Streamed ==
  \A ch \in StreamChans : \A i \in 1 .. Len(rxStreams[ch]) :
    rxStreams[ch][i] \in DataSocks

ChannelInv == NumberInv /\ ~racing /\ Chosen /\ Bare /\ Streamed

LEMMA ChosenServer ==
  ASSUME SameSocket, SysInv, Chosen, ServerStep PROVE Chosen'
<1>1. Server /\ TypeOK
  BY DEF ServerStep, SysInv, TypeInv
<1>2. ASSUME NEW how, Ends(how) PROVE Chosen'
  BY <1>2 DEF Ends, Chosen
<1>3. ASSUME NEW k \in Socks, k \in Used PROVE \A j \in Used : j = k
  BY <1>3 DEF SameSocket
<1>4. ASSUME NEW k \in Socks, k \in Used,
             \/ Insert(k) \/ GetLine(k) \/ GetLineFails(k) \/ NewChannel(k)
             \/ OpenRX(k) \/ StartRX(k) \/ SetParameter(k) \/ NoQuery(k)
             \/ BindRX(k) \/ Query(k)
      PROVE  Chosen'
  <2>1. UNCHANGED <<curChan, numChannels>> /\ pc[k] # "return"
    BY <1>4 DEF Insert, GetLine, GetLineFails, NewChannel, OpenRX, StartRX,
       SetParameter, NoQuery, BindRX, Query, At
  <2> QED
    BY <1>3, <1>4, <2>1 DEF Chosen
<1>5. ASSUME NEW k \in Socks, k \in Used, Number(k) PROVE Chosen'
  <2>1. pc'[k] = "return"
    BY <1>1, <1>5 DEF Number, Goto, TypeOK
  <2> QED
    BY <1>3, <1>5, <2>1 DEF Chosen
<1>6. ASSUME NEW k \in Socks, k \in Used, Return(k) PROVE Chosen'
  <2>1. curChan'[k] = numChannels - 1 /\ numChannels' = numChannels
    BY <1>1, <1>6 DEF Return, TypeOK
  <2> QED
    BY <1>3, <1>6, <2>1 DEF Chosen
<1> QED
  BY <1>1, <1>2, <1>4, <1>5, <1>6, SessionSteps DEF Quiet, Answers

LEMMA NoneYet ==
  ASSUME SysInv, Bare, numChannels = 0, NEW k \in Socks, k \in Used
  PROVE  /\ ~Answers(k) /\ ~StartRX(k) /\ ~OpenRX(k) /\ ~NoQuery(k)
         /\ ~SetParameter(k)
<1>1. Before(k)
  BY DEF Bare
<1>2. pc[k] = "execute" => line[k].cmd.op = "NEWCHANNEL"
  BY <1>1 DEF Before
<1> QED
  BY <1>1, <1>2 DEF Before, Answers, Return, BindRX, Query, StartRX, OpenRX, NoQuery,
     SetParameter, At, RxParams, TxParams

LEMMA BareServer ==
  ASSUME SameSocket, SysInv, Bare, ServerStep PROVE Bare'
<1>1. Server /\ TypeOK /\ UNCHANGED state
  BY DEF ServerStep, SysInv, TypeInv, browserVars
<1>2. ASSUME NEW how, Ends(how) PROVE Bare'
  BY <1>1, <1>2 DEF Ends, Bare, OnlyNew, Before
<1>3. ASSUME NEW k \in Socks, k \in Used PROVE \A j \in Used : j = k
  BY <1>3 DEF SameSocket
<1>4. ASSUME NEW k \in Socks, k \in Used, Insert(k), numChannels = 0 PROVE Bare'
  <2>1. PICK c \in Clients :
          /\ SockOf[c] = k /\ toServer[c] # <<>> /\ state[c] # "INIT"
          /\ toServer' = [toServer EXCEPT ![c] = Tail(@)]
          /\ \/ stream' = <<>>
             \/ \E cmd \in BrowserCommands :
                  /\ Head(toServer[c]) = Whole(cmd)
                  /\ stream' = <<Piece(cmd, c)>>
    BY <1>4, InsertFacts
  <2>2. OnlyNew(c) /\ toServer[c] \in Seq(Messages) /\ toClient' = toClient
        /\ \A d \in Clients : OnlyNew(d)
    BY <1>1, <1>4 DEF Bare, TypeOK, Insert
  <2>3. ASSUME NEW i \in 1 .. Len(stream') PROVE stream'[i].cmd.op = "NEWCHANNEL"
    <3>1. PICK cmd \in BrowserCommands :
            Head(toServer[c]) = Whole(cmd) /\ stream' = <<Piece(cmd, c)>>
      BY <2>1, <2>3
    <3>2. toServer[c][1] = Whole(cmd) /\ 1 \in 1 .. Len(toServer[c])
      BY <2>1, <2>2, <3>1
    <3>3. cmd.op = "NEWCHANNEL"
      BY <2>2, <3>2 DEF OnlyNew
    <3> QED
      BY <3>1, <3>3 DEF Piece
  <2>4. OnlyNew(c)'
    <3>1. toServer'[c] = Tail(toServer[c])
      BY <1>1, <2>1 DEF TypeOK
    <3>2. \A i \in 1 .. Len(Tail(toServer[c])) :
            i + 1 \in 1 .. Len(toServer[c]) /\ Tail(toServer[c])[i] = toServer[c][i + 1]
      BY <2>1, <2>2
    <3> QED
      BY <1>1, <2>2, <3>1, <3>2 DEF OnlyNew
  <2>5. \A d \in Clients : OnlyNew(d)'
    BY SMTT(30), <1>1, <2>1, <2>2, <2>4 DEF OnlyNew, TypeOK
  <2>6. pc'[k] = "getline"
    BY <1>1, <1>4 DEF Insert, Goto, TypeOK
  <2>7. Before(k)'
    BY <2>3, <2>6 DEF Before
  <2> QED
    BY <1>3, <1>4, <2>5, <2>7 DEF Bare
<1>5. ASSUME NEW k \in Socks, k \in Used, GetLine(k), numChannels = 0 PROVE Bare'
  <2>1. PICK cmd \in BrowserCommands :
          /\ stream = <<Piece(cmd, asker[k])>> /\ stream' = <<>>
          /\ line' = [line EXCEPT ![k] = [cmd |-> cmd, by |-> asker[k]]]
    BY <1>5, GetLineFacts
  <2>2. pc'[k] = "execute" /\ line'[k].cmd = cmd
        /\ UNCHANGED <<numChannels, toServer, toClient>>
    BY <1>1, <1>5, <2>1 DEF GetLine, Goto, TypeOK
  <2>3. cmd.op = "NEWCHANNEL"
    <3>1. Before(k) /\ Len(stream) = 1 /\ stream[1].cmd = cmd
      BY <1>5, <2>1 DEF Bare, Piece
    <3> QED
      BY <3>1 DEF Before
  <2>4. Before(k)'
    BY <2>1, <2>2, <2>3 DEF Before
  <2> QED
    BY <1>1, <1>3, <1>5, <2>2, <2>4 DEF Bare, OnlyNew
<1>6. ASSUME NEW k \in Socks, k \in Used, NewChannel(k) \/ GetLineFails(k),
             numChannels = 0
      PROVE  Bare'
  <2>1. pc'[k] \in {"number", "idle"}
        /\ UNCHANGED <<numChannels, stream, toServer, toClient>>
    BY <1>1, <1>6 DEF NewChannel, GetLineFails, Leaves, Goto, TypeOK
  <2>2. Before(k)'
    BY <1>6, <2>1 DEF Bare, Before
  <2> QED
    BY <1>1, <1>3, <1>6, <2>1, <2>2 DEF Bare, OnlyNew
<1>7. ASSUME NEW k \in Socks, k \in Used, Number(k) PROVE Bare'
  <2>1. numChannels' # 0
    BY <1>1, <1>7, Numbers DEF Number
  <2> QED
    BY <2>1 DEF Bare
<1>8. ASSUME NEW k \in Socks, \/ Insert(k) \/ GetLine(k) \/ GetLineFails(k)
                              \/ NewChannel(k) \/ OpenRX(k) \/ StartRX(k)
                              \/ SetParameter(k) \/ NoQuery(k) \/ Answers(k)
      PROVE  numChannels' = numChannels
  BY <1>8 DEF Insert, GetLine, GetLineFails, NewChannel, OpenRX, StartRX,
     SetParameter, NoQuery, Answers, Return, BindRX, Query
<1>9. ASSUME NEW k \in Socks, k \in Used,
             \/ Insert(k) \/ GetLine(k) \/ GetLineFails(k)
             \/ Quiet(k) \/ Answers(k)
      PROVE  Bare'
  <2>1. CASE numChannels = 0
    BY <1>4, <1>5, <1>6, <1>7, <1>9, <2>1, NoneYet DEF Quiet
  <2>2. CASE numChannels # 0 /\ ~Number(k)
    BY <1>8, <1>9, <2>2 DEF Quiet, Bare
  <2> QED
    BY <1>7, <1>9, <2>1, <2>2
<1> QED
  BY <1>1, <1>2, <1>9, SessionSteps

\* The bind finds the channel's socket.
LEMMA BindsChosen ==
  ASSUME SysInv, ChannelInv, NEW k \in Socks, k \in Used, pc[k] = "bind"
  PROVE  /\ numChannels > 0 /\ curChan[k] = numChannels - 1
         /\ numChannels - 1 \in DataSocks
         /\ Entry(curChan[k]) = numChannels - 1 /\ Arg(k) = 0
<1>1. TypeOK
  BY DEF SysInv, TypeInv
<1>2. numChannels > 0 /\ numChannels \in Nat /\ curChan[k] = numChannels - 1
      /\ MaxChannels \in Nat /\ numChannels <= MaxChannels
  BY <1>1, Numbers DEF ChannelInv, Bare, Before, Chosen
<1>3. numChannels - 1 \in DataSocks /\ numChannels - 1 < numChannels
      /\ numChannels - 1 # Absent
  BY <1>2 DEF DataSocks, Absent
<1>4. uidMap[numChannels - 1] = numChannels - 1
  BY <1>3 DEF ChannelInv, NumberInv, Numbered
<1>5. line[k].cmd \in BrowserCommands /\ line[k].cmd.op = "RXCHANNEL"
  BY DEF SysInv, SessionInv, Handled, HandlerInv
<1> QED
  BY <1>2, <1>3, <1>4, <1>5, CommandFacts DEF Entry, Arg

LEMMA StreamedServer ==
  ASSUME SameSocket, SysInv, ChannelInv, ServerStep PROVE Streamed'
<1>1. Server /\ TypeOK /\ Streamed
  BY DEF ServerStep, SysInv, TypeInv, ChannelInv
<1>2. ASSUME NEW k \in Socks, k \in Used, BindRX(k) PROVE Streamed'
  <2>1. /\ rxStreams' = [rxStreams EXCEPT ![0] = Append(@, numChannels - 1)]
        /\ numChannels - 1 \in DataSocks
    BY <1>2, BindsChosen DEF BindRX
  <2> DEFINE n == numChannels - 1
  <2> HIDE DEF n
  <2>2. rxStreams' = [rxStreams EXCEPT ![0] = Append(@, n)] /\ n \in DataSocks
    BY <2>1 DEF n
  <2>3. 0 \in StreamChans /\ rxStreams \in [StreamChans -> Seq(DataSocks \cup {Null})]
    <3>1. NumRX \in Nat \ {0}
      BY CommandAssumption
    <3>2. 0 \in StreamChans
      BY <3>1 DEF StreamChans
    <3>3. rxStreams \in [StreamChans -> Seq(DataSocks \cup {Null})]
      BY <1>1 DEF TypeOK
    <3> QED
      BY <3>2, <3>3
  <2>4. \A i \in 1 .. Len(rxStreams'[0]) : rxStreams'[0][i] \in DataSocks
    <3>1. rxStreams'[0] = Append(rxStreams[0], n) /\ rxStreams[0] \in Seq(DataSocks \cup {Null})
      BY <2>2, <2>3
    <3> QED
      BY <1>1, <2>2, <2>3, <3>1 DEF Streamed
  <2>5. \A ch \in StreamChans \ {0} : rxStreams'[ch] = rxStreams[ch]
    BY <2>2, <2>3
  <2> QED
    BY <1>1, <2>4, <2>5 DEF Streamed
<1>3. ASSUME NEW how, Ends(how) PROVE Streamed'
  BY <1>1, <1>3 DEF Ends, Streamed
<1>4. ASSUME NEW k \in Socks,
             \/ Insert(k) \/ GetLine(k) \/ GetLineFails(k) \/ Quiet(k)
             \/ Return(k) \/ Query(k)
      PROVE  Streamed'
  BY <1>1, <1>4 DEF Insert, GetLine, GetLineFails, Quiet, NewChannel, Number, OpenRX,
     StartRX, SetParameter, NoQuery, Return, Query, Streamed
<1> QED
  BY <1>1, <1>2, <1>3, <1>4, SessionSteps DEF Answers

BrowserDoes(c) == OnOpen(c) \/ OnMessage(c) \/ Tune(c) \/ Leave(c)

LEMMA BrowserShape ==
  ASSUME SysInv, NEW c \in Clients, BrowserDoes(c)
  PROVE  /\ UNCHANGED serverVars
         /\ \/ toClient' = toClient
            \/ toClient' = [toClient EXCEPT ![c] = <<>>]
         /\ state[c] \in {"INIT", "OPEN"} =>
              \/ OnOpen(c) /\ Asking(c, "OPEN", Cmd("NEWCHANNEL", 0))
              \/ OnChannel(c) /\ toClient[c] # <<>>
              \/ Leave(c)
<1>1. CASE OnOpen(c)
  <2>1. Asking(c, "OPEN", Cmd("NEWCHANNEL", 0))
    BY <1>1, OpenFacts
  <2> QED
    BY <1>1, <2>1 DEF Asking
<1>2. CASE OnMessage(c)
  <2>1. ASSUME NEW s, s # "CLOSED", Got(c, s)
        PROVE  /\ toClient' = [toClient EXCEPT ![c] = <<>>] /\ UNCHANGED serverVars
               /\ state[c] = s /\ toClient[c] # <<>>
    BY <2>1, GotFacts DEF Got
  <2> QED
    BY <1>2, <2>1 DEF OnMessage, OnChannel, OnRate, OnFreq, OnGain, OnBound, OnReply
<1>3. CASE Tune(c)
  <2>1. PICK p \in Picks :
          \/ state[c] = "IDLE" /\ Asking(c, "COMMANDING", p)
          \/ state[c] = "COMMANDING" /\ UNCHANGED <<vars, state>>
    BY <1>3, TuneFacts
  <2> QED
    BY <2>1 DEF Asking, vars
<1>4. CASE Leave(c)
  BY <1>4 DEF Leave
<1> QED
  BY <1>1, <1>2, <1>3, <1>4 DEF BrowserDoes

LEMMA BareBrowser ==
  ASSUME SysInv, Bare, NEW c \in Clients, BrowserDoes(c) PROVE Bare'
<1>1. UNCHANGED serverVars
  BY BrowserShape
<1> SUFFICES ASSUME numChannels = 0 PROVE Bare'
  BY <1>1 DEF serverVars, Bare
<1>2. state \in [Clients -> States] /\ TypeOK
  BY DEF SysInv, SessionInv, BrowserTypes, TypeInv
<1>3. /\ \A d \in Clients : OnlyNew(d)
      /\ \A k \in Used : Before(k)'
  BY <1>1 DEF Bare, Before, serverVars
<1>4. toClient[c] = <<>> /\ state[c] \in {"INIT", "OPEN"}
  <2>1. state[c] \in {"INIT", "OPEN", "CLOSED"} /\ toClient[c] = <<>>
    BY <1>3 DEF OnlyNew
  <2>2. state[c] # "CLOSED"
    BY <2>1 DEF BrowserDoes, OnOpen, OnMessage, OnChannel, OnRate, OnFreq, OnGain,
       OnBound, OnReply, Got, Tune, Leave
  <2> QED
    BY <2>1, <2>2
<1>5. CASE OnOpen(c) /\ Asking(c, "OPEN", Cmd("NEWCHANNEL", 0))
  <2>1. /\ state' = [state EXCEPT ![c] = "OPEN"]
        /\ toClient' = [toClient EXCEPT ![c] = <<>>]
        /\ toServer' = [toServer EXCEPT ![c] = <<Whole(Cmd("NEWCHANNEL", 0))>>]
    BY <1>5 DEF Asking
  <2>2. \A cmd : Whole(Cmd("NEWCHANNEL", 0)) = Whole(cmd) => cmd.op = "NEWCHANNEL"
    <3>1. \A cmd : Whole(Cmd("NEWCHANNEL", 0)) = Whole(cmd) => cmd = Cmd("NEWCHANNEL", 0)
      BY WholeFacts
    <3> QED
      BY <3>1 DEF Cmd
  <2>3. toServer'[c] = <<Whole(Cmd("NEWCHANNEL", 0))>>
    BY <1>2, <2>1 DEF TypeOK
  <2>4. OnlyNew(c)'
    BY <1>2, <2>1, <2>2, <2>3 DEF OnlyNew, TypeOK
  <2>5. \A d \in Clients \ {c} : OnlyNew(d)'
    BY <1>2, <1>3, <2>1 DEF OnlyNew, TypeOK
  <2> QED
    BY <1>3, <2>4, <2>5 DEF Bare
<1>6. CASE Leave(c)
  <2>1. /\ state' = [state EXCEPT ![c] = "CLOSED"] /\ toClient' = toClient
        /\ toServer' = [toServer EXCEPT ![c] = Append(@, <<>>)]
    BY <1>6 DEF Leave, To
  <2>2. \A d \in Clients \ {c} : OnlyNew(d)'
    BY <1>2, <1>3, <2>1 DEF OnlyNew, TypeOK
  <2>3. toServer'[c] = Append(toServer[c], <<>>) /\ toServer[c] \in Seq(Messages)
    BY <1>2, <2>1 DEF TypeOK
  <2>4. \A i \in 1 .. Len(toServer'[c]) :
          \/ i \in 1 .. Len(toServer[c]) /\ toServer'[c][i] = toServer[c][i]
          \/ toServer'[c][i] = <<>>
    BY <2>3
  <2>5. OnlyNew(c)'
    BY <1>2, <1>3, <2>1, <2>4, WholeFacts DEF OnlyNew
  <2> QED
    BY <1>3, <2>2, <2>5 DEF Bare
<1> QED
  BY <1>4, <1>5, <1>6, BrowserShape

LEMMA ChannelInit == SysInit => ChannelInv
<1> SUFFICES ASSUME SysInit PROVE ChannelInv
  OBVIOUS
<1>1. Init
  BY DEF SysInit
<1>2. NumberInv /\ ~racing
  BY <1>1, UsedFacts DEF Init, NumberInv, Numbered, Fresh, Told, DataSocks
<1>3. Chosen /\ Streamed
  BY <1>1, UsedFacts DEF Init, Chosen, Streamed
<1>4. Bare
  BY <1>1, UsedFacts DEF Init, SysInit, Bare, OnlyNew, Before
<1> QED
  BY <1>2, <1>3, <1>4 DEF ChannelInv

LEMMA ChannelStep ==
  ASSUME SameSocket
  PROVE  SysInv /\ ChannelInv /\ [SysNext]_sysVars => ChannelInv'
<1> SUFFICES ASSUME SysInv, ChannelInv, [SysNext]_sysVars PROVE ChannelInv'
  OBVIOUS
<1>1. CASE UNCHANGED sysVars
  BY <1>1 DEF sysVars, vars, serverVars, browserVars, ChannelInv, NumberInv, Numbered,
     Fresh, Told, Chosen, Bare, OnlyNew, Before, Streamed
<1>2. CASE ServerStep
  <2>1. Server /\ TypeInv /\ HandlerInv /\ NumberInv /\ ~racing
    BY <1>2 DEF ServerStep, SysInv, ChannelInv
  <2>2. Apart /\ ~racing'
    BY <2>1, NeverApart, NeverRacing DEF TypeInv
  <2>3. NumberInv'
    BY <2>1, <2>2, NumberServer
  <2> QED
    BY <1>2, <2>2, <2>3, ChosenServer, BareServer, StreamedServer DEF ChannelInv
<1>3. ASSUME NEW c \in Clients, BrowserDoes(c) PROVE ChannelInv'
  <2>1. /\ UNCHANGED serverVars
        /\ toClient' = toClient \/ toClient' = [toClient EXCEPT ![c] = <<>>]
    BY <1>3, BrowserShape
  <2>2. Numbered' /\ Fresh' /\ Chosen' /\ Streamed' /\ ~racing'
    BY <2>1 DEF serverVars, ChannelInv, NumberInv, Numbered, Fresh, Chosen, Streamed
  <2>3. Told'
    BY SMTT(30), <2>1 DEF serverVars, ChannelInv, NumberInv, Told, SysInv, TypeInv, TypeOK
  <2>4. Bare'
    BY <1>3, BareBrowser DEF ChannelInv
  <2> QED
    BY <2>2, <2>3, <2>4 DEF ChannelInv, NumberInv
<1> QED
  BY <1>1, <1>2, <1>3 DEF SysNext, BrowserDoes

\* No step of the server follows a null pointer or lets an exception out, and it
\* exits for want of a descriptor or at the word of a HackRF only.
LEMMA NothingCrashes ==
  ASSUME SysInv, ChannelInv, driver # "uhd", ServerStep
  PROVE  \/ proc' = "running"
         \/ /\ proc' = "exited" /\ (made = room \/ driver = "hackrf")
            /\ UNCHANGED <<made, room, driver>>
<1>1. /\ Server /\ TypeOK /\ proc = "running"
      /\ device = "open" /\ \A k \in Socks : ~profile[k]
  BY DEF ServerStep, SysInv, TypeInv, SessionInv, Device
<1>2. ~Receive
  <2>1. 0 \in StreamChans
    BY CommandAssumption DEF StreamChans
  <2> QED
    BY <2>1 DEF ChannelInv, Streamed, Receive, DataSocks, Null
<1>3. ASSUME NEW k \in Socks
      PROVE  ~NullDevice(k) /\ ~NullSocket(k) /\ ~StartNull(k) /\ ~SetThrows(k)
             /\ ~QueryThrows(k) /\ ~QueryNull(k)
  <2>1. ~NullDevice(k) /\ ~NullSocket(k)
    BY NotRefused DEF NullDevice, NullSocket, At, NoDevice
  <2>2. ~StartNull(k) /\ ~SetThrows(k) /\ ~QueryNull(k)
    BY DEF StartNull, SetThrows, QueryNull, NoDevice
  <2>3. pc[k] = "query" => line[k].cmd.op \notin TxParams
    <3>1. ASSUME pc[k] = "query" PROVE line[k].cmd \in BrowserCommands
      <4>1. k \in Used
        BY <3>1, UsedFacts DEF SysInv, TypeInv
      <4> QED
        BY <3>1, <4>1 DEF SysInv, SessionInv, Handled
    <3> QED
      BY <3>1, CommandFacts DEF TxParams
  <2> QED
    BY <2>1, <2>2, <2>3 DEF QueryThrows
<1>4. ASSUME NEW k \in Socks, NoDescriptor(k) \/ StartExits(k) \/ SetExits(k)
      PROVE  /\ proc' = "exited" /\ (made = room \/ driver = "hackrf")
             /\ UNCHANGED <<made, room, driver>>
  BY <1>4 DEF NoDescriptor, StartExits, SetExits, Ends
<1>5. ASSUME NEW k \in Socks,
             \/ Insert(k) \/ GetLine(k) \/ GetLineFails(k) \/ Quiet(k) \/ Answers(k)
      PROVE  proc' = "running"
  BY <1>1, <1>5, StepsRun
<1> QED
  BY <1>1, <1>2, <1>3, <1>4, <1>5, SessionDies DEF Dies

\* On an RTL receiver or a HackRF the server never follows a null pointer nor lets
\* an exception out for what browsers ask of it: every bind finds a socket, since
\* each browser opens a channel first (portalCMD.js, onOpen;
\* genericSDRInterface.cc, bindRXChannel).  It exits only when it has no
\* descriptor left for one more channel, or when a HackRF refuses what it is told.
THEOREM BrowsersDoNotCrash ==
  ASSUME SameSocket, "uhd" \notin Drivers
  PROVE  SysSpec => []NoCrash
<1> DEFINE Inv == SysInv /\ ChannelInv /\ NoCrash
<1>1. SysInit => Inv
  BY SessionInit, ChannelInit DEF SysInit, Init, NoCrash
<1>2. Inv /\ [SysNext]_sysVars => Inv'
  <2> SUFFICES ASSUME Inv, [SysNext]_sysVars PROVE NoCrash'
    BY SysStep, ChannelStep
  <2>1. driver # "uhd"
    BY DEF SysInv, TypeInv, TypeOK
  <2>2. CASE ServerStep
    BY <2>1, <2>2, NothingCrashes DEF NoCrash
  <2>3. ASSUME NEW c \in Clients, BrowserDoes(c) PROVE NoCrash'
    BY <2>3, BrowserShape DEF NoCrash, serverVars
  <2>4. CASE UNCHANGED sysVars
    BY <2>4 DEF sysVars, vars, serverVars, NoCrash
  <2> QED
    BY <2>2, <2>3, <2>4 DEF SysNext, BrowserDoes
<1> QED
  BY <1>1, <1>2, PTL DEF SysSpec

-----------------------------------------------------------------------------
(***************************************************************************)
(* A browser that has the server to itself.                                *)
(***************************************************************************)
\* The channel opened last is its own.
Owns(c) ==
  /\ state[c] \notin {"INIT", "OPEN"} => numChannels > 0 /\ uid[c] = numChannels - 1
  /\ state[c] = "OPEN" /\ toClient[c] # <<>> =>
       numChannels > 0 /\ Head(toClient[c]).val = numChannels - 1

Attached == \E i \in 1 .. Len(rxStreams[0]) : rxStreams[0][i] = numChannels - 1
Attaches(c) ==
  \/ state[c] \in {"IDLE", "COMMANDING"}
  \/ state[c] = "CONNECTED" /\ toClient[c] # <<>>

\* The command under way, as long as the device has not been told.
Unset(c) ==
  LET k == SockOf[c] IN
  IF toServer[c] # <<>> THEN {Head(toServer[c])[1].cmd}
  ELSE IF pc[k] = "getline" THEN {Head(stream).cmd}
  ELSE IF pc[k] = "execute" THEN {line[k].cmd}
  ELSE {}

\* What the user asked for last is in the queue, or else under way, or else set.
Brings(c, p, cmds) == \E e \in cmds : e.op = p /\ e.arg = wanted[c][p]
Lacks(p, cmds) == \A e \in cmds : e.op # p
Comes(c, p) ==
  \/ Brings(c, p, Range(cmdQueue[c]))
  \/ /\ Lacks(p, Range(cmdQueue[c]))
     /\ \/ Brings(c, p, Unset(c))
        \/ Lacks(p, Unset(c)) /\ param[p] = wanted[c][p]

Lone(c) == Alone(c) /\ state[c] # "CLOSED"
LoneInv ==
  \A c \in Clients : Lone(c) =>
    /\ Owns(c)
    /\ Attaches(c) => Attached
    /\ \A p \in Tuners : Comes(c, p)

\* Nobody else is in the server's handler, nor has anybody left.
LEMMA LoneView ==
  ASSUME SameSocket, SysInv, NEW c \in Clients, Lone(c), NEW k \in Used
  PROVE  /\ SockOf[c] = k /\ eof = FALSE /\ ~GetLineFails(k)
         /\ pc[k] # "idle" => asker[k] = c
         /\ ReplyDue(k) => InHandler(c) /\ toServer[c] = <<>> /\ toClient[c] = <<>>
         /\ pc[k] \notin {"idle", "getline"} /\ ReplyDue(k) =>
              line[k].cmd \in BrowserCommands /\ line[k].cmd.op \in Asks(state[c])
         /\ OneUnderWay(c)
<1>1. SockOf[c] = k /\ OneUnderWay(c) /\ Handled(k) /\ asker[k] \in Clients
      /\ eof \in BOOLEAN
  BY UsedFacts DEF SameSocket, SysInv, SessionInv, Wires, Lone, TypeInv, TypeOK
<1>2. eof = FALSE
  BY <1>1 DEF SysInv, SessionInv, Device, Lone, Alone
<1>3. pc[k] # "idle" => asker[k] = c
  BY <1>1 DEF Handled, Lone, Alone
<1>4. ReplyDue(k) => pc[k] # "idle"
  BY DEF ReplyDue
<1>5. ReplyDue(k) => InHandler(c) /\ toServer[c] = <<>> /\ toClient[c] = <<>>
  BY <1>1, <1>3, <1>4 DEF InHandler, OneUnderWay
<1>6. pc[k] \notin {"idle", "getline"} /\ ReplyDue(k) =>
        line[k].cmd \in BrowserCommands /\ line[k].cmd.op \in Asks(state[c])
  BY <1>1, <1>3 DEF Handled, AskedBy, Lone
<1>7. ~GetLineFails(k)
  <2> SUFFICES ASSUME GetLineFails(k) PROVE FALSE
    OBVIOUS
  <2>1. pc[k] = "getline" /\ stream = <<>>
    BY <1>2 DEF GetLineFails
  <2>2. state[asker[k]] # "CLOSED"
    BY <1>3, <2>1 DEF Lone
  <2> QED
    BY <1>1, <1>2, <2>1, <2>2 DEF Handled
<1> QED
  BY <1>1, <1>2, <1>3, <1>5, <1>6, <1>7

\* A step in the middle of a handler, or after it.
LEMMA UnsetKept ==
  ASSUME NEW c \in Clients, toServer'[c] = toServer[c],
         pc[SockOf[c]] \notin {"getline", "execute"},
         pc'[SockOf[c]] \notin {"getline", "execute"}
  PROVE  Unset(c)' = Unset(c)
BY DEF Unset

LEMMA ComesKept ==
  ASSUME NEW c \in Clients, NEW p \in Tuners, Comes(c, p), Unset(c)' = Unset(c),
         UNCHANGED <<param, wanted, cmdQueue>>
  PROVE  Comes(c, p)'
BY DEF Comes, Brings, Lacks

LEMMA ComesServer ==
  ASSUME SameSocket, SysInv, NEW c \in Clients, Lone(c), NEW p \in Tuners,
         Comes(c, p), NEW k \in Socks, k \in Used, UNCHANGED browserVars,
         Insert(k) \/ GetLine(k) \/ GetLineFails(k) \/ Quiet(k) \/ Answers(k)
  PROVE  Comes(c, p)'
<1> USE DEF browserVars
<1>1. /\ SockOf[c] = k /\ eof = FALSE /\ ~GetLineFails(k)
      /\ pc[k] # "idle" => asker[k] = c
      /\ ReplyDue(k) => toServer[c] = <<>>
      /\ OneUnderWay(c) /\ TypeOK
  BY LoneView DEF SysInv, TypeInv
<1>2. CASE Insert(k)
  <2>1. PICK b \in Clients :
          /\ toServer[b] # <<>> /\ state[b] # "INIT"
          /\ toServer' = [toServer EXCEPT ![b] = Tail(@)]
          /\ \/ eof
             \/ state[b] = "CLOSED"
             \/ \E cmd \in BrowserCommands :
                  Head(toServer[b]) = Whole(cmd) /\ stream' = <<Piece(cmd, b)>>
    BY <1>2, InsertFacts
  <2>2. b = c
    BY <2>1 DEF Lone, Alone
  <2>3. PICK cmd \in BrowserCommands :
          Head(toServer[c]) = Whole(cmd) /\ stream' = <<Piece(cmd, c)>>
    BY <1>1, <2>1, <2>2 DEF Lone
  <2>4. toServer'[c] = <<>>
    <3>1. \E m : toServer[c] = <<m>>
      BY <1>1, <2>1, <2>2 DEF OneUnderWay
    <3> QED
      BY <1>1, <2>1, <2>2, <3>1 DEF TypeOK
  <2>5. pc'[k] = "getline" /\ UNCHANGED param
    BY <1>1, <1>2 DEF Insert, Goto, TypeOK
  <2>6. Unset(c) = {cmd}
    <3>1. Head(toServer[c])[1].cmd = cmd
      BY <2>3 DEF Whole
    <3> QED
      BY <2>1, <2>2, <3>1 DEF Unset
  <2>7. Unset(c)' = {cmd}
    <3>1. Head(stream').cmd = cmd
      BY <2>3 DEF Piece
    <3> QED
      BY <1>1, <2>4, <2>5, <3>1 DEF Unset
  <2> QED
    BY <2>5, <2>6, <2>7, ComesKept
<1>3. CASE GetLine(k)
  <2>1. PICK cmd \in BrowserCommands :
          /\ stream = <<Piece(cmd, asker[k])>>
          /\ line' = [line EXCEPT ![k] = [cmd |-> cmd, by |-> asker[k]]]
    BY <1>3, GetLineFacts
  <2>2. /\ pc[k] = "getline" /\ pc'[k] = "execute" /\ UNCHANGED <<toServer, param>>
        /\ line'[k].cmd = cmd /\ Head(stream).cmd = cmd
    BY <1>1, <1>3, <2>1 DEF GetLine, Goto, TypeOK, Piece
  <2>3. toServer[c] = <<>>
    BY <1>1, <2>2 DEF ReplyDue
  <2>4. Unset(c) = {cmd} /\ Unset(c)' = {cmd}
    BY <1>1, <2>2, <2>3 DEF Unset
  <2> QED
    BY <2>2, <2>4, ComesKept
<1>4. CASE NewChannel(k) \/ OpenRX(k)
  <2>1. /\ pc[k] = "execute" /\ pc'[k] \in {"number", "start", "bind"}
        /\ line[k].cmd.op \in {"NEWCHANNEL", "RXCHANNEL"}
        /\ UNCHANGED <<toServer, param>>
    BY <1>1, <1>4 DEF NewChannel, OpenRX, At, Goto, TypeOK
  <2>2. toServer[c] = <<>>
    BY <1>1, <2>1 DEF ReplyDue
  <2>3. Unset(c) = {line[k].cmd} /\ Unset(c)' = {}
    BY <1>1, <2>1, <2>2 DEF Unset
  <2> QED
    BY <2>1, <2>3 DEF Comes, Brings, Lacks, Tuners
<1>5. CASE SetParameter(k)
  <2>1. /\ pc[k] = "execute" /\ pc'[k] = "query" /\ UNCHANGED toServer
        /\ param' = [param EXCEPT ![Slot(line[k].cmd.op)] = Arg(k)]
    BY <1>1, <1>5 DEF SetParameter, Goto, TypeOK
  <2>2. toServer[c] = <<>>
    BY <1>1, <2>1 DEF ReplyDue
  <2>3. Unset(c) = {line[k].cmd} /\ Unset(c)' = {}
    BY <1>1, <2>1, <2>2 DEF Unset
  <2>4. line[k].cmd.op \in RxParams /\ Slot(line[k].cmd.op) = line[k].cmd.op
    BY <1>5, <2>1, NotRefused DEF SetParameter, RxParams, TxParams, Slot
  <2>5. param \in [RxParams \cup TxParams -> Int] /\ p \in RxParams
    BY <1>1 DEF TypeOK, Tuners, RxParams
  <2>6. param'[p] = IF line[k].cmd.op = p THEN line[k].cmd.arg ELSE param[p]
    BY <2>1, <2>4, <2>5 DEF Arg
  <2> QED
    BY <2>3, <2>6 DEF Comes, Brings, Lacks
<1>6. CASE Number(k) \/ StartRX(k) \/ NoQuery(k) \/ Answers(k)
  <2>1. /\ pc[k] \notin {"getline", "execute"} /\ pc'[k] \notin {"getline", "execute"}
        /\ UNCHANGED <<toServer, param>>
    BY <1>1, <1>6 DEF Number, StartRX, NoQuery, Answers, Return, BindRX, Query, Leaves,
       Goto, TypeOK
  <2> QED
    BY <1>1, <2>1, UnsetKept, ComesKept
<1> QED
  BY <1>1, <1>2, <1>3, <1>4, <1>5, <1>6 DEF Quiet

LEMMA OwnsServer ==
  ASSUME SameSocket, SysInv, ChannelInv, NEW c \in Clients, Lone(c), Owns(c),
         Attaches(c) => Attached, NEW k \in Socks, k \in Used,
         UNCHANGED browserVars,
         Insert(k) \/ GetLine(k) \/ GetLineFails(k) \/ Quiet(k) \/ Answers(k)
  PROVE  Owns(c)' /\ (Attaches(c)' => Attached')
<1> USE DEF browserVars
<1>1. /\ SockOf[c] = k /\ ~GetLineFails(k)
      /\ pc[k] # "idle" => asker[k] = c
      /\ ReplyDue(k) => toClient[c] = <<>>
      /\ pc[k] \notin {"idle", "getline"} /\ ReplyDue(k) =>
           line[k].cmd.op \in Asks(state[c])
      /\ TypeOK
  BY LoneView DEF SysInv, TypeInv
<1>2. line[k].cmd.op = "NEWCHANNEL" /\ line[k].cmd.op \in Asks(state[c]) =>
        state[c] = "OPEN"
  BY DEF Asks, Tuners
<1>3. CASE Number(k)
  <2>1. pc[k] = "number" /\ toClient' = toClient /\ line[k].cmd.op = "NEWCHANNEL"
    BY <1>3 DEF Number, SysInv, HandlerInv
  <2>2. state[c] = "OPEN" /\ toClient[c] = <<>>
    BY <1>1, <1>2, <2>1 DEF ReplyDue
  <2> QED
    BY <2>1, <2>2 DEF Owns, Attaches
<1>4. CASE Return(k)
  <2>1. pc[k] = "return" /\ line[k].cmd.op = "NEWCHANNEL" /\ numChannels > 0
        /\ UNCHANGED numChannels /\ Reply(k, numChannels - 1, fresh[k])
    BY <1>4 DEF Return, SysInv, HandlerInv, ChannelInv, NumberInv, Fresh
  <2>2. state[c] = "OPEN" /\ toClient[c] = <<>> /\ asker[k] = c
    BY <1>1, <1>2, <2>1 DEF ReplyDue
  <2> DEFINE r == [op |-> line[k].cmd.op, val |-> numChannels - 1,
                   port |-> fresh[k], by |-> line[k].by]
  <2>3. toClient'[c] = <<r>>
    BY SMTT(30), <1>1, <2>1, <2>2 DEF Reply, TypeOK
  <2>4. Head(toClient'[c]) = r
    BY <2>3
  <2> QED
    BY <2>1, <2>2, <2>4 DEF Owns, Attaches
<1>5. CASE BindRX(k)
  <2>1. pc[k] = "bind" /\ line[k].cmd.op = "RXCHANNEL" /\ UNCHANGED numChannels
    BY <1>5 DEF BindRX, SysInv, HandlerInv
  <2>2. state[c] # "OPEN"
    BY <1>1, <2>1, AskFacts DEF ReplyDue
  <2> DEFINE n == numChannels - 1
  <2>3. rxStreams' = [rxStreams EXCEPT ![0] = Append(@, n)] /\ n \in DataSocks
    BY <1>5, <2>1, BindsChosen DEF BindRX
  <2>4. 0 \in StreamChans /\ rxStreams \in [StreamChans -> Seq(DataSocks \cup {Null})]
    <3>1. 0 \in StreamChans
      BY CommandAssumption DEF StreamChans
    <3> QED
      BY <1>1, <3>1 DEF TypeOK
  <2>5. numChannels' - 1 = n
    BY <2>1
  <2> HIDE DEF n
  <2>6. rxStreams'[0] = Append(rxStreams[0], n) /\ rxStreams[0] \in Seq(DataSocks \cup {Null})
    BY <2>3, <2>4
  <2>7. Len(rxStreams[0]) + 1 \in 1 .. Len(rxStreams'[0])
        /\ rxStreams'[0][Len(rxStreams[0]) + 1] = n
    BY <2>6
  <2>8. Attached'
    BY <2>5, <2>7 DEF Attached
  <2> QED
    BY <2>1, <2>2, <2>8 DEF Owns
<1>6. CASE Query(k)
  <2>1. pc[k] = "query" /\ Queried(k) /\ UNCHANGED <<numChannels, rxStreams>>
    BY <1>6 DEF Query
  <2>2. line[k].cmd.op \in Asks(state[c])
    BY <1>1, <2>1 DEF ReplyDue
  <2>3. state[c] \notin {"OPEN", "CONNECTED"}
    BY <2>1, <2>2, AskFacts DEF Queried, RxParams, TxParams
  <2> QED
    BY <2>1, <2>3 DEF Owns, Attaches, Attached
<1>7. CASE \/ Insert(k) \/ GetLine(k) \/ NewChannel(k) \/ OpenRX(k) \/ StartRX(k)
           \/ SetParameter(k) \/ NoQuery(k)
  <2>1. UNCHANGED <<numChannels, rxStreams, toClient>>
    BY <1>7 DEF Insert, GetLine, NewChannel, OpenRX, StartRX, SetParameter, NoQuery
  <2> QED
    BY <2>1 DEF Owns, Attaches, Attached
<1> QED
  BY <1>1, <1>3, <1>4, <1>5, <1>6, <1>7 DEF Quiet, Answers

\* A browser's own steps.  Nothing of its is on the way before it asks.
LEMMA NothingUnset ==
  ASSUME SameSocket, SysInv, NEW c \in Clients, Lone(c), toServer[c] = <<>>,
         ~InHandler(c)
  PROVE  Unset(c) = {}
<1>1. SockOf[c] \in Used
  BY UsedFacts
<1>2. ~ReplyDue(SockOf[c])
  BY <1>1, LoneView
<1> QED
  BY <1>2 DEF Unset, ReplyDue

LEMMA AskingUnset ==
  ASSUME SysInv, NEW c \in Clients, NEW s, NEW cmd, Asking(c, s, cmd)
  PROVE  /\ Unset(c)' = {cmd} /\ toClient'[c] = <<>> /\ state'[c] = s
         /\ UNCHANGED <<param, numChannels, rxStreams>>
<1>1. /\ toServer'[c] = <<Whole(cmd)>> /\ toClient'[c] = <<>> /\ state'[c] = s
      /\ UNCHANGED serverVars
  BY DEF Asking, SysInv, TypeInv, TypeOK, SessionInv, BrowserTypes
<1>2. Unset(c)' = {Head(toServer'[c])[1].cmd}
  BY <1>1 DEF Unset
<1>3. Head(toServer'[c])[1].cmd = cmd
  BY <1>1 DEF Whole
<1> QED
  BY <1>1, <1>2, <1>3 DEF serverVars

\* It asks for something, and its user wants that.
LEMMA AskingComes ==
  ASSUME SysInv, NEW c \in Clients, NEW s, NEW cmd, Asking(c, s, cmd),
         Unset(c) = {}, cmdQueue' = cmdQueue,
         cmd.op \in Tuners => wanted'[c][cmd.op] = cmd.arg,
         \A e \in Range(cmdQueue[c]) : e.op # cmd.op,
         NEW p \in Tuners, p # cmd.op => wanted'[c][p] = wanted[c][p], Comes(c, p)
  PROVE  Comes(c, p)'
<1>1. Unset(c)' = {cmd} /\ UNCHANGED param
  BY AskingUnset
<1>2. CASE p = cmd.op
  <2>1. Brings(c, p, Unset(c))' /\ Lacks(p, Range(cmdQueue[c]))'
    BY <1>1, <1>2 DEF Brings, Lacks
  <2> QED
    BY <2>1 DEF Comes, Lacks
<1>3. CASE p # cmd.op
  <2>1. CASE Brings(c, p, Range(cmdQueue[c]))
    BY <1>3, <2>1 DEF Comes, Brings
  <2>2. CASE Lacks(p, Range(cmdQueue[c])) /\ param[p] = wanted[c][p]
    <3>1. Lacks(p, Unset(c)')
      BY <1>1, <1>3 DEF Lacks
    <3> QED
      BY <1>1, <1>3, <2>2, <3>1 DEF Comes, Lacks
  <2> QED
    BY <2>1, <2>2 DEF Comes, Brings
<1> QED
  BY <1>2, <1>3

Wants(c, q, v) == wanted' = [wanted EXCEPT ![c][q] = v]

LEMMA WantedFacts ==
  ASSUME SysInv, NEW c \in Clients, NEW q \in Tuners, NEW v, Wants(c, q, v)
  PROVE  \A p \in Tuners : wanted'[c][p] = IF p = q THEN v ELSE wanted[c][p]
<1>1. wanted \in [Clients -> [Tuners -> Int]]
  BY DEF SysInv, SessionInv, BrowserTypes
<1>2. wanted'[c] = [wanted[c] EXCEPT ![q] = v]
  BY <1>1 DEF Wants
<1>3. wanted[c] \in [Tuners -> Int]
  BY <1>1
<1> QED
  BY <1>2, <1>3

LEMMA LoneOpen ==
  ASSUME SameSocket, SysInv, NEW c \in Clients, Lone(c), OnOpen(c),
         \A p \in Tuners : Comes(c, p)
  PROVE  Owns(c)' /\ ~Attaches(c)' /\ \A p \in Tuners : Comes(c, p)'
<1>1. Asking(c, "OPEN", Cmd("NEWCHANNEL", 0)) /\ state[c] = "INIT"
      /\ UNCHANGED <<cmdQueue, wanted>>
  BY OpenFacts DEF OnOpen
<1>2. toServer[c] = <<>> /\ ~InHandler(c) /\ cmdQueue[c] = <<>>
  BY <1>1, Calm DEF SysInv, SessionInv, Queues
<1>3. Unset(c) = {}
  BY <1>2, NothingUnset
<1>4. toClient'[c] = <<>> /\ state'[c] = "OPEN"
  BY <1>1, AskingUnset
<1>5. Owns(c)' /\ ~Attaches(c)'
  BY <1>4 DEF Owns, Attaches
<1>6. \A p \in Tuners : p # "NEWCHANNEL"
  BY DEF Tuners
<1>7. Range(cmdQueue[c]) = {}
  BY <1>2 DEF Range
<1>8. Cmd("NEWCHANNEL", 0).op = "NEWCHANNEL"
  BY DEF Cmd
<1> QED
  BY <1>1, <1>3, <1>5, <1>6, <1>7, <1>8, AskingComes

LEMMA LoneScript ==
  ASSUME SameSocket, SysInv, NEW c \in Clients, Lone(c), Owns(c),
         OnChannel(c) \/ OnRate(c) \/ OnFreq(c) \/ OnGain(c),
         \A p \in Tuners : Comes(c, p)
  PROVE  Owns(c)' /\ ~Attaches(c)' /\ \A p \in Tuners : Comes(c, p)'
<1>1. PICK t \in {"OPEN", "RXRATE", "RXFREQ", "RXGAIN"} : Got(c, t)
  BY DEF OnChannel, OnRate, OnFreq, OnGain
<1>2. toServer[c] = <<>> /\ ~InHandler(c) /\ state[c] = t /\ toClient[c] # <<>>
  BY <1>1, GotFacts DEF Got
<1>3. Unset(c) = {} /\ Range(cmdQueue[c]) = {} /\ cmdQueue' = cmdQueue
  <2>1. cmdQueue[c] = <<>>
    BY <1>2 DEF SysInv, SessionInv, Queues
  <2> QED
    BY <1>2, <2>1, NothingUnset, ScriptFacts DEF Range
<1>4. ASSUME NEW s \in {"RXRATE", "RXFREQ", "RXGAIN", "CONNECTED"}, NEW o, NEW a,
             Asking(c, s, Cmd(o, a)), uid'[c] = numChannels - 1 /\ numChannels > 0,
             o \in Tuners => Wants(c, o, a),
             o \notin Tuners => wanted' = wanted
      PROVE  Owns(c)' /\ ~Attaches(c)' /\ \A p \in Tuners : Comes(c, p)'
  <2>1. toClient'[c] = <<>> /\ state'[c] = s /\ UNCHANGED <<numChannels, rxStreams>>
    BY <1>4, AskingUnset
  <2>2. Owns(c)' /\ ~Attaches(c)'
    BY <1>4, <2>1 DEF Owns, Attaches
  <2>3. ASSUME NEW p \in Tuners
        PROVE  /\ p # o => wanted'[c][p] = wanted[c][p]
               /\ o \in Tuners => wanted'[c][o] = a
    BY <1>4, WantedFacts
  <2>4. Cmd(o, a).op = o /\ Cmd(o, a).arg = a
    BY DEF Cmd
  <2> QED
    BY <1>3, <1>4, <2>2, <2>3, <2>4, AskingComes
<1>5. CASE OnChannel(c)
  <2>1. /\ state[c] = "OPEN" /\ uid' = [uid EXCEPT ![c] = Head(toClient[c]).val]
        /\ wanted' = wanted
    BY <1>5 DEF OnChannel, Got
  <2>2. uid'[c] = numChannels - 1 /\ numChannels > 0
    BY <1>2, <2>1 DEF Owns, SysInv, SessionInv, BrowserTypes
  <2>3. "RXRATE" \notin Tuners
    BY DEF Tuners
  <2> QED
    BY <1>4, <1>5, <2>1, <2>2, <2>3, ScriptFacts
<1>6. ASSUME ~OnChannel(c) PROVE uid'[c] = numChannels - 1 /\ numChannels > 0
  <2>1. t # "OPEN" /\ uid' = uid
    BY <1>1, <1>2, <1>6 DEF OnRate, OnFreq, OnGain, Got
  <2> QED
    BY <1>2, <2>1 DEF Owns
<1>7. "RXFREQ" \in Tuners /\ "RXGAIN" \in Tuners
  BY DEF Tuners
<1>8. CASE OnRate(c) /\ ~OnChannel(c)
  <2>1. Wants(c, "RXFREQ", 1)
    BY <1>8 DEF OnRate, Wants
  <2>2. Asking(c, "RXFREQ", Cmd("RXFREQ", 1))
    BY <1>8, ScriptFacts
  <2> QED
    BY <1>4, <1>6, <1>7, <1>8, <2>1, <2>2
<1>9. CASE OnFreq(c) /\ ~OnChannel(c)
  <2>1. Wants(c, "RXGAIN", 1)
    BY <1>9 DEF OnFreq, Wants
  <2>2. Asking(c, "RXGAIN", Cmd("RXGAIN", 1))
    BY <1>9, ScriptFacts
  <2> QED
    BY <1>4, <1>6, <1>7, <1>9, <2>1, <2>2
<1>10. CASE OnGain(c) /\ ~OnChannel(c)
  <2>1. wanted' = wanted /\ "RXCHANNEL" \notin Tuners
    BY <1>10 DEF OnGain, Tuners
  <2>2. Asking(c, "CONNECTED", Cmd("RXCHANNEL", 0))
    BY <1>10, ScriptFacts
  <2> QED
    BY <1>4, <1>6, <1>10, <2>1, <2>2
<1> QED
  BY <1>5, <1>8, <1>9, <1>10

\* Once it is connected: it stays attached to the channel it owns.
LEMMA LoneRests ==
  ASSUME SameSocket, SysInv, NEW c \in Clients, Lone(c), Owns(c), Attached,
         Resting(c), Got(c, "CONNECTED") \/ Got(c, "COMMANDING"),
         UNCHANGED <<uid, wanted, cmdQueue>>, \A p \in Tuners : Comes(c, p)
  PROVE  Owns(c)' /\ Attached' /\ \A p \in Tuners : Comes(c, p)'
<1>1. toServer[c] = <<>> /\ ~InHandler(c) /\ state[c] \notin {"INIT", "OPEN"}
  BY GotFacts DEF Got
<1>2. /\ UNCHANGED serverVars /\ toServer' = toServer /\ state'[c] = "IDLE"
  BY DEF Resting, SysInv, SessionInv, BrowserTypes
<1>3. Unset(c)' = Unset(c)
  BY <1>2 DEF Unset, serverVars
<1>4. \A p \in Tuners : Comes(c, p)'
  BY <1>2, <1>3, ComesKept DEF serverVars
<1>5. Owns(c)' /\ Attached'
  BY <1>1, <1>2 DEF Owns, Attached, serverVars
<1> QED
  BY <1>4, <1>5

LEMMA LoneAsks ==
  ASSUME SysInv, NEW c \in Clients, Owns(c), Attached, NEW cmd,
         Asking(c, "COMMANDING", cmd), state[c] \in {"IDLE", "COMMANDING"}, uid' = uid
  PROVE  Owns(c)' /\ Attached'
<1>1. state'[c] = "COMMANDING" /\ UNCHANGED <<numChannels, rxStreams>>
  BY AskingUnset
<1> QED
  BY <1>1 DEF Owns, Attached

LEMMA LoneReply ==
  ASSUME SameSocket, SysInv, NEW c \in Clients, Lone(c), Owns(c), Attached,
         OnReply(c), \A p \in Tuners : Comes(c, p)
  PROVE  Owns(c)' /\ Attached' /\ \A p \in Tuners : Comes(c, p)'
<1>1. Got(c, "COMMANDING") /\ UNCHANGED <<uid, wanted>>
  BY DEF OnReply
<1>2. CASE cmdQueue[c] = <<>> /\ Resting(c) /\ cmdQueue' = cmdQueue
  BY <1>1, <1>2, LoneRests
<1>3. CASE /\ cmdQueue[c] # <<>> /\ Asking(c, "COMMANDING", Head(cmdQueue[c]))
           /\ cmdQueue' = [cmdQueue EXCEPT ![c] = Tail(@)]
  <2> DEFINE q == cmdQueue[c]
             e == Head(q)
  <2>1. /\ cmdQueue \in [Clients -> Seq(Picks)] /\ q \in Seq(Picks) /\ Distinct(q)
        /\ toServer[c] = <<>> /\ ~InHandler(c) /\ state[c] = "COMMANDING"
    BY <1>1, GotFacts DEF Got, SysInv, SessionInv, BrowserTypes, Queues
  <2>2. e \in Range(q) /\ Range(Tail(q)) = Range(q) \ {e}
    BY <1>3, <2>1, TailFacts
  <2>3. cmdQueue'[c] = Tail(q) /\ e = q[1] /\ 1 \in 1 .. Len(q)
    BY <1>3, <2>1
  <2>4. Unset(c)' = {e} /\ UNCHANGED param
    BY <1>3, AskingUnset
  <2>5. Unset(c) = {}
    BY <2>1, NothingUnset
  <2> HIDE DEF q, e
  <2>6. \A f \in Range(q) : f.op = e.op => f = e
    <3> SUFFICES ASSUME NEW f \in Range(q), f.op = e.op PROVE f = e
      OBVIOUS
    <3>1. PICK i \in 1 .. Len(q) : f = q[i]
      BY <2>1 DEF Range
    <3>2. i = 1
      BY <2>1, <2>3, <3>1 DEF Distinct
    <3> QED
      BY <2>3, <3>1, <3>2
  <2>7. ASSUME NEW p \in Tuners PROVE Comes(c, p)'
    <3>1. \/ \E f \in Range(q) : f.op = p /\ f.arg = wanted[c][p]
          \/ (\A f \in Range(q) : f.op # p) /\ param[p] = wanted[c][p]
      BY <2>5 DEF Comes, Brings, Lacks, q
    <3>2. CASE p = e.op
      <4>1. e.arg = wanted[c][p] /\ \A f \in Range(q) \ {e} : f.op # p
        BY <2>2, <2>6, <3>1, <3>2
      <4>2. Lacks(p, Range(cmdQueue'[c])) /\ Brings(c, p, Unset(c))'
        BY <1>1, <2>2, <2>3, <2>4, <3>2, <4>1 DEF Lacks, Brings
      <4> QED
        BY <4>2 DEF Comes, Lacks
    <3>3. CASE p # e.op
      <4>1. CASE \E f \in Range(q) : f.op = p /\ f.arg = wanted[c][p]
        <5>1. \E f \in Range(cmdQueue'[c]) : f.op = p /\ f.arg = wanted'[c][p]
          BY <1>1, <2>2, <2>3, <3>3, <4>1
        <5> QED
          BY <5>1 DEF Comes, Brings
      <4>2. CASE (\A f \in Range(q) : f.op # p) /\ param[p] = wanted[c][p]
        <5>1. Lacks(p, Range(cmdQueue'[c])) /\ Lacks(p, Unset(c)')
          BY <2>2, <2>3, <2>4, <3>3, <4>2 DEF Lacks
        <5> QED
          BY <1>1, <2>4, <4>2, <5>1 DEF Comes, Lacks
      <4> QED
        BY <3>1, <4>1, <4>2
    <3> QED
      BY <3>2, <3>3
  <2>8. Owns(c)' /\ Attached'
    BY <1>1, <1>3, <2>1, LoneAsks
  <2> QED
    BY <2>7, <2>8
<1> QED
  BY <1>2, <1>3, ReplyFacts

LEMMA LoneTune ==
  ASSUME SameSocket, SysInv, NEW c \in Clients, Lone(c), Owns(c), Attached,
         Tune(c), \A p \in Tuners : Comes(c, p)
  PROVE  Owns(c)' /\ Attached' /\ \A p \in Tuners : Comes(c, p)'
<1>1. PICK e \in Picks :
        /\ wanted' = [wanted EXCEPT ![c][e.op] = e.arg]
        /\ \/ /\ state[c] = "IDLE" /\ Asking(c, "COMMANDING", e)
              /\ cmdQueue' = cmdQueue
           \/ /\ state[c] = "COMMANDING"
              /\ cmdQueue' = [cmdQueue EXCEPT ![c] = Queued(@, e)]
              /\ UNCHANGED <<vars, state>>
  BY TuneFacts
<1>2. e.op \in Tuners /\ uid' = uid
  BY SystemAssumption DEF Tune
<1>3. \A p \in Tuners : wanted'[c][p] = IF p = e.op THEN e.arg ELSE wanted[c][p]
  <2> DEFINE o == e.op
             v == e.arg
  <2>1. o \in Tuners /\ Wants(c, o, v)
    BY <1>1, <1>2 DEF Wants
  <2> HIDE DEF o, v
  <2>2. \A p \in Tuners : wanted'[c][p] = IF p = o THEN v ELSE wanted[c][p]
    BY <2>1, WantedFacts
  <2> QED
    BY <2>2 DEF o, v
<1>4. CASE state[c] = "IDLE" /\ Asking(c, "COMMANDING", e) /\ cmdQueue' = cmdQueue
  <2>1. toServer[c] = <<>> /\ ~InHandler(c) /\ cmdQueue[c] = <<>>
    BY <1>4, Calm DEF SysInv, SessionInv, Queues
  <2>2. Unset(c) = {} /\ Range(cmdQueue[c]) = {}
    BY <2>1, NothingUnset DEF Range
  <2>3. \A p \in Tuners : Comes(c, p)'
    BY <1>2, <1>3, <1>4, <2>2, AskingComes
  <2> QED
    BY <1>2, <1>4, <2>3, LoneAsks
<1>5. CASE /\ state[c] = "COMMANDING"
           /\ cmdQueue' = [cmdQueue EXCEPT ![c] = Queued(@, e)]
           /\ UNCHANGED <<vars, state>>
  <2>1. cmdQueue \in [Clients -> Seq(Picks)] /\ Distinct(cmdQueue[c])
    BY DEF SysInv, SessionInv, BrowserTypes, Queues
  <2>2. Range(cmdQueue'[c]) = {f \in Range(cmdQueue[c]) : f.op # e.op} \cup {e}
    BY <1>5, <2>1, QueuedFacts
  <2>3. Unset(c)' = Unset(c) /\ param' = param
    BY <1>5 DEF Unset, vars, serverVars
  <2>4. ASSUME NEW p \in Tuners PROVE Comes(c, p)'
    <3>1. CASE p = e.op
      <4>1. e \in Range(cmdQueue'[c]) /\ e.op = p /\ e.arg = wanted'[c][p]
        BY <1>3, <2>2, <3>1
      <4> QED
        BY <4>1 DEF Comes, Brings
    <3>2. CASE p # e.op
      <4>1. wanted'[c][p] = wanted[c][p]
        BY <1>3, <3>2
      <4>2. CASE Brings(c, p, Range(cmdQueue[c]))
        BY <2>2, <3>2, <4>1, <4>2 DEF Comes, Brings
      <4>3. CASE Lacks(p, Range(cmdQueue[c]))
        <5>1. Lacks(p, Range(cmdQueue'[c]))
          BY <2>2, <3>2, <4>3 DEF Lacks
        <5>2. \/ Brings(c, p, Unset(c))
              \/ Lacks(p, Unset(c)) /\ param[p] = wanted[c][p]
          BY <4>3 DEF Comes, Brings, Lacks
        <5>3. \/ Brings(c, p, Unset(c))'
              \/ Lacks(p, Unset(c)') /\ param'[p] = wanted'[c][p]
          BY <2>3, <4>1, <5>2 DEF Brings
        <5> QED
          BY <5>1, <5>3 DEF Comes, Lacks
      <4> QED
        BY <4>2, <4>3 DEF Comes
    <3> QED
      BY <3>1, <3>2
  <2>5. Owns(c)' /\ Attached'
    BY <1>2, <1>5 DEF Owns, Attached, vars, serverVars
  <2> QED
    BY <2>4, <2>5
<1> QED
  BY <1>1, <1>4, <1>5

LEMMA LoneBrowser ==
  ASSUME SameSocket, SysInv, NEW b \in Clients, BrowserDoes(b),
         LoneInv, NEW c \in Clients, Lone(c)'
  PROVE  Owns(c)' /\ (Attaches(c)' => Attached') /\ \A p \in Tuners : Comes(c, p)'
<1>1. state \in [Clients -> States]
  BY DEF SysInv, SessionInv, BrowserTypes
<1>2. b = c
  <2>1. state'[b] # "INIT"
    <3>1. CASE Tune(b)
      BY <1>1, <3>1, TuneFacts DEF Asking
    <3>2. CASE OnMessage(b)
      BY <1>1, <3>2, ScriptFacts, ReplyFacts DEF OnMessage, Asking, Resting
    <3>3. CASE OnOpen(b) \/ Leave(b)
      BY <1>1, <3>3 DEF OnOpen, Leave, To
    <3> QED
      BY <3>1, <3>2, <3>3 DEF BrowserDoes
  <2> QED
    BY <2>1 DEF Lone, Alone
<1>3. \A d \in Clients \ {b} : state'[d] = state[d]
  <2>1. CASE Tune(b)
    BY <1>1, <2>1, TuneFacts DEF Asking
  <2>2. CASE OnMessage(b)
    BY <1>1, <2>2, ScriptFacts, ReplyFacts DEF OnMessage, Asking, Resting
  <2>3. CASE OnOpen(b) \/ Leave(b)
    BY <1>1, <2>3 DEF OnOpen, Leave, To
  <2> QED
    BY <2>1, <2>2, <2>3 DEF BrowserDoes
<1>4. ~Leave(c)
  BY <1>1, <1>2 DEF Leave, To, Lone
<1>5. state[c] # "CLOSED"
  BY <1>2, <1>4 DEF BrowserDoes, OnOpen, OnMessage, OnChannel, OnRate, OnFreq, OnGain,
     OnBound, OnReply, Got, Tune
<1>6. Lone(c)
  BY <1>2, <1>3, <1>5 DEF Lone, Alone
<1>7. Owns(c) /\ (Attaches(c) => Attached) /\ \A p \in Tuners : Comes(c, p)
  BY <1>6 DEF LoneInv
<1>8. CASE OnBound(c)
  <2>1. /\ Resting(c) /\ Got(c, "CONNECTED") /\ cmdQueue' = cmdQueue
        /\ UNCHANGED <<uid, wanted>>
    BY <1>8, ScriptFacts DEF OnBound
  <2>2. Attached
    BY <1>7, <2>1 DEF Attaches, Got
  <2> QED
    BY <1>6, <1>7, <2>1, <2>2, LoneRests
<1>9. CASE OnReply(c)
  <2>1. Attached
    BY <1>7, <1>9 DEF Attaches, OnReply, Got
  <2> QED
    BY <1>6, <1>7, <1>9, <2>1, LoneReply
<1>10. CASE Tune(c)
  <2>1. Attached
    BY <1>7, <1>10 DEF Attaches, Tune
  <2> QED
    BY <1>6, <1>7, <1>10, <2>1, LoneTune
<1>11. CASE OnOpen(c)
  BY <1>6, <1>7, <1>11, LoneOpen
<1>12. CASE OnChannel(c) \/ OnRate(c) \/ OnFreq(c) \/ OnGain(c)
  BY <1>6, <1>7, <1>12, LoneScript
<1> QED
  BY <1>2, <1>4, <1>8, <1>9, <1>10, <1>11, <1>12 DEF BrowserDoes, OnMessage

LEMMA LoneStep ==
  ASSUME SameSocket
  PROVE  SysInv /\ ChannelInv /\ LoneInv /\ [SysNext]_sysVars => LoneInv'
<1> SUFFICES ASSUME SysInv, ChannelInv, LoneInv, [SysNext]_sysVars,
                    NEW c \in Clients, Lone(c)'
             PROVE  /\ Owns(c)' /\ (Attaches(c)' => Attached')
                    /\ \A p \in Tuners : Comes(c, p)'
  BY DEF LoneInv
<1>1. CASE UNCHANGED sysVars
  <2>1. Lone(c)
    BY <1>1 DEF sysVars, browserVars, Lone, Alone
  <2>2. Owns(c) /\ (Attaches(c) => Attached) /\ \A p \in Tuners : Comes(c, p)
    BY <2>1 DEF LoneInv
  <2>3. Unset(c)' = Unset(c)
    BY <1>1 DEF sysVars, vars, serverVars, Unset
  <2>4. \A p \in Tuners : Comes(c, p)'
    BY <1>1, <2>2, <2>3, ComesKept DEF sysVars, vars, serverVars, browserVars
  <2> QED
    BY <1>1, <2>2, <2>4 DEF sysVars, vars, serverVars, browserVars, Owns, Attaches,
       Attached
<1>2. CASE ServerStep
  <2>1. Server /\ UNCHANGED browserVars
    BY <1>2 DEF ServerStep
  <2>2. Lone(c)
    BY <2>1 DEF Lone, Alone, browserVars
  <2>3. Owns(c) /\ (Attaches(c) => Attached) /\ \A p \in Tuners : Comes(c, p)
    BY <2>2 DEF LoneInv
  <2>4. ASSUME NEW how, Ends(how)
        PROVE  /\ Owns(c)' /\ (Attaches(c)' => Attached')
               /\ \A p \in Tuners : Comes(c, p)'
    <3>1. Unset(c)' = Unset(c)
      BY <2>4 DEF Ends, Unset
    <3>2. \A p \in Tuners : Comes(c, p)'
      BY <2>1, <2>3, <2>4, <3>1, ComesKept DEF Ends, browserVars
    <3> QED
      BY <2>1, <2>3, <2>4, <3>2 DEF Ends, browserVars, Owns, Attaches, Attached
  <2> QED
    BY <2>1, <2>2, <2>3, <2>4, SessionSteps, OwnsServer, ComesServer
<1>3. ASSUME NEW b \in Clients, BrowserDoes(b)
      PROVE  /\ Owns(c)' /\ (Attaches(c)' => Attached')
             /\ \A p \in Tuners : Comes(c, p)'
  BY <1>3, LoneBrowser
<1> QED
  BY <1>1, <1>2, <1>3 DEF SysNext, BrowserDoes

LEMMA LoneInit == SysInit => LoneInv
<1> SUFFICES ASSUME SysInit, NEW c \in Clients
             PROVE  /\ Owns(c) /\ ~Attaches(c) /\ \A p \in Tuners : Comes(c, p)
  BY DEF LoneInv
<1>1. /\ state[c] = "INIT" /\ cmdQueue[c] = <<>> /\ toServer[c] = <<>>
      /\ pc[SockOf[c]] = "idle"
      /\ \A p \in Tuners : wanted[c][p] = 0 /\ param[p] = 0
  BY CommandAssumption DEF SysInit, Init, Tuners, RxParams
<1>2. Owns(c) /\ ~Attaches(c)
  BY <1>1 DEF Owns, Attaches
<1>3. Unset(c) = {} /\ Range(cmdQueue[c]) = {}
  BY <1>1 DEF Unset, Range
<1>4. \A p \in Tuners : Comes(c, p)
  BY <1>1, <1>3 DEF Comes, Brings, Lacks
<1> QED
  BY <1>2, <1>4

\* What a run of the browsers keeps, when all use one command socket.
LEMMA LoneAlways ==
  ASSUME SameSocket PROVE SysSpec => [](SysInv /\ ChannelInv /\ LoneInv)
<1> DEFINE Inv == SysInv /\ ChannelInv /\ LoneInv
<1>1. SysInit => Inv
  BY SessionInit, ChannelInit, LoneInit
<1>2. Inv /\ [SysNext]_sysVars => Inv'
  BY SysStep, ChannelStep, LoneStep
<1> QED
  BY <1>1, <1>2, PTL DEF SysSpec

\* A browser that says it is connected has its own channel bound to the receive
\* channel it asked for, as long as no other has opened the page: the channel that
\* NEWCHANNEL numbered is the one that RXCHANNEL binds, for every driver and
\* whatever the user does meanwhile (portalCMD.js, onMessage: CONNECTED).
THEOREM ConnectedIsBound ==
  ASSUME SameSocket PROVE SysSpec => []AloneMeansBound
<1>1. SysInv /\ ChannelInv /\ LoneInv => AloneMeansBound
  <2> SUFFICES ASSUME SysInv, ChannelInv, LoneInv, NEW c \in Clients,
                      Connected(c), Alone(c)
               PROVE  Bound(c)
    BY DEF AloneMeansBound
  <2>1. Lone(c) /\ Attaches(c) /\ state[c] \notin {"INIT", "OPEN"}
    BY DEF Connected, Lone, Attaches
  <2>2. numChannels > 0 /\ uid[c] = numChannels - 1 /\ Attached
    BY <2>1 DEF LoneInv, Owns
  <2>3. PICK i \in 1 .. Len(rxStreams[0]) : rxStreams[0][i] = numChannels - 1
    BY <2>2 DEF Attached
  <2>4. /\ numChannels \in Nat /\ MaxChannels \in Nat /\ numChannels <= MaxChannels
    BY Numbers DEF SysInv, TypeInv
  <2> DEFINE n == numChannels - 1
  <2>5. n \in DataSocks /\ n < numChannels
    BY <2>2, <2>4 DEF DataSocks
  <2>6. sockUid[n] = n
    BY <2>5 DEF ChannelInv, NumberInv, Numbered
  <2>7. rxStreams[0][i] = n /\ uid[c] = n
    BY <2>2, <2>3
  <2> HIDE DEF n
  <2> QED
    BY <2>5, <2>6, <2>7 DEF Bound
<1> QED
  BY <1>1, LoneAlways, PTL

\* When a browser that has the server to itself is idle again, the device is set to
\* what its user asked for last, however many picks were smashed in the queue
\* (portalCMD.js, sendCommand).
THEOREM LastPickWins ==
  ASSUME SameSocket PROVE SysSpec => []LastWins
<1>1. SysInv /\ ChannelInv /\ LoneInv => LastWins
  <2> SUFFICES ASSUME SysInv, LoneInv, NEW c \in Clients, state[c] = "IDLE", Alone(c),
                      NEW p \in Tuners
               PROVE  param[p] = wanted[c][p]
    BY DEF LastWins
  <2>1. Lone(c) /\ cmdQueue[c] = <<>>
    BY DEF Lone, SysInv, SessionInv, Queues
  <2>2. Unset(c) = {}
    BY <2>1, Calm, NothingUnset
  <2>3. Range(cmdQueue[c]) = {}
    BY <2>1 DEF Range
  <2>4. Comes(c, p)
    BY <2>1 DEF LoneInv
  <2> QED
    BY <2>2, <2>3, <2>4 DEF Comes, Brings
<1> QED
  BY <1>1, LoneAlways, PTL
=============================================================================
