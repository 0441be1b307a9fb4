--------------------------- MODULE CommandServer ---------------------------
(***************************************************************************)
(* The command side of the SDR daemon: the command sockets of uhd_daemon.cc*)
(* (portalCommandSocket.cc), the registry of data channels behind them     *)
(* (genericSDRInterface.cc) and what a driver answers.                     *)
(*                                                                         *)
(* A command socket handles one message at a time: its reader threads      *)
(* exclude each other (SocketInterface, OneReaderInside).  Two command     *)
(* sockets, TCP and web socket, have a mutex each, so they run side by side*)
(* and share the registry, the device and the one static stringstream that *)
(* collects the commands' text.  A step of the model is a stretch of one   *)
(* handler between two accesses to what both can see.                      *)
(*                                                                         *)
(* Text is abstract: a message is a sequence of pieces, a piece is a whole *)
(* line or the head of one.  Arguments are small integers.                 *)
(***************************************************************************)
EXTENDS Integers, Sequences, FiniteSetsExt

CONSTANTS
  Clients,      \* connections to the command sockets
  Socks,        \* the command sockets that clients use
  SockOf,       \* the command socket a client is connected to
  Drivers,      \* the daemons looked at: "uhd", "rtl" and "hackrf"
  ProfileOps,   \* the commands that a loaded profile names in its file
  NumRX,        \* receive channels of a USRP
  NumTX,        \* transmit channels of a USRP
  Messages,     \* what clients may send: sequences of [cmd, part]
  Heap,         \* what the heap may hold where a handler's cur_channel is put
  MaxMsgs,      \* bound: messages the clients send together
  MaxWaiting,   \* bound: messages of a client that nobody has read yet
  MaxChannels,  \* bound: data sockets
  Rooms         \* data sockets the process may have descriptors for

Absent == -2   \* no entry in uid_map
Null == -1     \* an entry of uid_map that operator[] made
NaN == -9      \* an argument isInteger, isDouble or stringToStreamType refuses
DataSocks == 0 .. (MaxChannels - 1)
Uids == -1 .. (MaxChannels - 1)     \* -1 stands for every negative number

RxParams == {"RXFREQ", "RXGAIN", "RXRATE"}
TxParams == {"TXFREQ", "TXGAIN", "TXRATE"}
Ops == RxParams \cup TxParams \cup
       {"NEWCHANNEL", "CHANNEL", "RXCHANNEL", "TXCHANNEL", "DATATYPE",
        "SDR_CONNECT", "SDR_DISCONNECT", "LOAD_PROFILE", "UNLOAD_PROFILE",
        "PROFILE", "OTHER"}
Commands == [op : Ops, arg : Int]
Unknown == [op |-> "OTHER", arg |-> 0]

ASSUME CommandAssumption ==
  /\ SockOf \in [Clients -> Socks]
  /\ \A k \in Socks : \E c \in Clients : SockOf[c] = k
  /\ Drivers \subseteq {"uhd", "rtl", "hackrf"}
  /\ ProfileOps \subseteq RxParams \cup TxParams \cup {"PROFILE"}
  /\ NumRX \in Nat \ {0} /\ NumTX \in Nat
  /\ Messages \subseteq Seq([cmd : Commands, part : {"whole", "head"}])
  /\ \A m \in Messages : \A i \in 1 .. Len(m) :   \* stream types are numbered
       m[i].cmd.op = "DATATYPE" => m[i].cmd.arg \in Nat \cup {NaN}
  /\ MaxMsgs \in Nat /\ MaxWaiting \in Nat /\ MaxChannels \in Nat
  /\ Heap \subseteq Uids
  /\ Rooms \subseteq 0 .. MaxChannels

VARIABLES
  proc,         \* "running", or how the process ended
  stream,       \* command_stream: pieces that were not yet taken out
  eof,          \* command_stream has seen its end: it works no more
  mixed,        \* a message has met another's line in it (a history)
  pc,           \* what the handler of each command socket does next
  asker,        \* the client whose message it handles
  line,         \* the command it took out, and who sent it
  fresh,        \* the data socket it is registering
  curChan,      \* cur_channel of each command socket
  profile,      \* profile_loaded of each command socket
  room,         \* data sockets the process has descriptors for
  made,         \* data sockets created, none of which is ever given back
  sockUid,      \* portalDataSocket::uid
  streamType,   \* portalDataSocket::stream_type
  numChannels,  \* genericSDRInterface::num_channels
  uidMap,       \* uid_map
  rxOf, txOf,   \* uid_to_chaninfo
  rxStreams,    \* rx_chan_to_streams
  racing,       \* two handlers have been in addChannel at once (a history)
  driver,       \* the driver this daemon was built with
  device,       \* "open", or "closed" after SDR_DISCONNECT
  receiving,    \* is_receiving or rx_running of the driver
  receivers,    \* receive threads of the driver
  param,        \* what the device was told to set, on whatever channel
  crossed,      \* reception was started under a disconnect (a history)
  toServer,     \* messages under way from each client
  toClient,     \* replies under way to each client
  asked,        \* messages each client has sent
  twice         \* of these, the ones answered by a profile and read back too

textVars == <<stream, eof, mixed>>
handlerVars == <<pc, asker, line, fresh>>
registryVars == <<room, made, sockUid, streamType, numChannels, uidMap, rxOf, txOf,
                  rxStreams, racing>>
deviceVars == <<driver, device, receiving, receivers, param, crossed>>
wireVars == <<toServer, toClient>>
askVars == <<asked, twice>>
serverVars == <<proc, textVars, handlerVars, curChan, profile, registryVars,
                deviceVars>>
vars == <<serverVars, wireVars, askVars>>

Replies == [op : Ops, val : Int, port : Int, by : Clients]
StreamChans == 0 .. (NumRX - 1)     \* keys of rx_chan_to_streams
RxChans == IF driver = "uhd" THEN StreamChans ELSE {0}

TypeOK ==
  /\ proc \in {"running", "exited", "crashed", "terminated"}
  /\ stream \in Seq([cmd : Commands, part : {"whole", "head"},
                     by : Clients])
  /\ eof \in BOOLEAN /\ mixed \in BOOLEAN
  /\ pc \in [Socks -> {"idle", "getline", "execute", "number", "return",
                       "start", "bind", "reset", "query"}]
  /\ asker \in [Socks -> Clients]
  /\ line \in [Socks -> [cmd : Commands, by : Clients]]
  /\ fresh \in [Socks -> DataSocks \cup {Null}]
  /\ \A k \in Socks : pc[k] \in {"number", "return"} => fresh[k] \in DataSocks
  /\ curChan \in [Socks -> Uids]
  /\ profile \in [Socks -> BOOLEAN]
  /\ room \in Rooms /\ made \in 0 .. room
  /\ sockUid \in [DataSocks -> DataSocks \cup {Absent}]
  /\ streamType \in [DataSocks -> Nat]
  /\ numChannels \in 0 .. MaxChannels
  /\ uidMap \in [Uids -> DataSocks \cup {Null, Absent}]
  /\ rxOf \in [Uids -> Int] /\ txOf \in [Uids -> Int]
  /\ rxStreams \in [StreamChans -> Seq(DataSocks \cup {Null})]
  /\ racing \in BOOLEAN
  /\ driver \in Drivers
  /\ device \in {"open", "closed"}
  /\ receiving \in BOOLEAN /\ crossed \in BOOLEAN
  /\ receivers \in Nat
  /\ param \in [RxParams \cup TxParams -> Int]
  /\ toServer \in [Clients -> Seq(Messages)]
  /\ toClient \in [Clients -> Seq(Replies)]
  /\ asked \in [Clients -> Nat] /\ twice \in [Clients -> Nat]

\* cur_channel is not set by the constructor: it starts with what the heap
\* holds.  An entry of uid_to_chaninfo that operator[] makes reads channel 0.
Init ==
  /\ proc = "running"
  /\ stream = <<>>
  /\ eof = FALSE /\ mixed = FALSE
  /\ pc = [k \in Socks |-> "idle"]
  /\ asker = [k \in Socks |-> CHOOSE c \in Clients : SockOf[c] = k]
  /\ line = [k \in Socks |-> [cmd |-> Unknown, by |-> asker[k]]]
  /\ fresh = [k \in Socks |-> Null]
  /\ curChan \in [Socks -> Heap]
  /\ profile = [k \in Socks |-> FALSE]
  /\ room \in Rooms /\ made = 0
  /\ sockUid = [d \in DataSocks |-> Absent]
  /\ streamType = [d \in DataSocks |-> 0]
  /\ numChannels = 0
  /\ uidMap = [u \in Uids |-> Absent]
  /\ rxOf = [u \in Uids |-> 0]
  /\ txOf = [u \in Uids |-> 0]
  /\ rxStreams = [c \in StreamChans |-> <<>>]
  /\ racing = FALSE
  /\ driver \in Drivers
  /\ device = "open"
  /\ receiving = FALSE /\ crossed = FALSE
  /\ receivers = 0
  /\ param = [p \in RxParams \cup TxParams |-> 0]
  /\ toServer = [c \in Clients |-> <<>>]
  /\ toClient = [c \in Clients |-> <<>>]
  /\ asked = [c \in Clients |-> 0]
  /\ twice = [c \in Clients |-> 0]

Goto(k, l) == pc' = [pc EXCEPT ![k] = l]
At(k, op) == pc[k] = "execute" /\ line[k].cmd.op = op
Arg(k) == line[k].cmd.arg

\* The handler returns, and its local variables are gone.
NoLine(k) == [cmd |-> Unknown, by |-> asker[k]]
Leaves(k) == Goto(k, "idle") /\ line' = [line EXCEPT ![k] = NoLine(k)]

\* The process ends: nothing else of it matters any more.
Ends(how) ==
  /\ proc' = how
  /\ UNCHANGED <<textVars, handlerVars, curChan, profile, registryVars,
                 deviceVars, wireVars, askVars>>

\* Mutant: the reply has no socket_channel, and goes to every client as samples do.
Reply_ToAll(k, val, port) ==
  toClient' = [c \in Clients |->
    Append(toClient[c], [op |-> line[k].cmd.op, val |-> val, port |-> port,
                         by |-> line[k].by])]

\* A reply to the client whose message is being handled.
Reply(k, val, port) ==
  toClient' = [toClient EXCEPT ![asker[k]] =
    Append(@, [op |-> line[k].cmd.op, val |-> val, port |-> port,
               by |-> line[k].by])]

-----------------------------------------------------------------------------
(***************************************************************************)
(* A message arrives, and a command is taken out of the shared stream.     *)
(***************************************************************************)
Sent == MapThenSumSet(LAMBDA c : asked[c], Clients)

ClientSend(c) ==
  /\ Sent < MaxMsgs /\ Len(toServer[c]) < MaxWaiting
  /\ \E m \in Messages : toServer' = [toServer EXCEPT ![c] = Append(@, m)]
  /\ asked' = [asked EXCEPT ![c] = @ + 1]
  /\ UNCHANGED <<serverVars, toClient, twice>>

Signed(m, c) ==
  [i \in 1 .. Len(m) |-> [cmd |-> m[i].cmd, part |-> m[i].part, by |-> c]]

\* A line of another client's is left in the stream, or another handler has put
\* its message there and not taken its line out yet.
Meets(k, c) ==
  \/ \E j \in Socks \ {k} : pc[j] = "getline"
  \/ \E i \in 1 .. Len(stream) : stream[i].part = "whole" /\ stream[i].by # c

\* Once the stream has seen its end, operator<< inserts nothing.
Insert(k) ==
  /\ pc[k] = "idle"
  /\ \E c \in Clients :
       /\ SockOf[c] = k
       /\ toServer[c] # <<>>
       /\ stream' = IF eof THEN stream
                    ELSE stream \o Signed(Head(toServer[c]), c)
       /\ mixed' = (mixed \/ Meets(k, c))
       /\ asker' = [asker EXCEPT ![k] = c]
       /\ toServer' = [toServer EXCEPT ![c] = Tail(@)]
  /\ Goto(k, "getline")
  /\ UNCHANGED <<proc, eof, line, fresh, curChan, profile, registryVars,
                 deviceVars, toClient, askVars>>

\* The pieces that getline takes: up to the first that ends a line, or all.
Newlines == {i \in 1 .. Len(stream) : stream[i].part = "whole"}
LineLength == IF Newlines = {} THEN Len(stream)
              ELSE CHOOSE i \in Newlines : \A j \in Newlines : i <= j

\* What a run of pieces reads as: the line it is, or something that no client
\* has sent.
Parsed(ps) ==
  IF Len(ps) = 1 /\ ps[1].part = "whole" THEN ps[1].cmd ELSE Unknown

GetLine(k) ==
  /\ pc[k] = "getline"
  /\ ~eof /\ stream # <<>>
  /\ stream' = SubSeq(stream, LineLength + 1, Len(stream))
  /\ eof' = (Newlines = {})
  /\ line' = [line EXCEPT ![k] =
       [cmd |-> Parsed(SubSeq(stream, 1, LineLength)),
        by |-> stream[LineLength].by]]
  /\ Goto(k, "execute")
  /\ UNCHANGED <<proc, mixed, asker, fresh, curChan, profile, registryVars,
                 deviceVars, wireVars, askVars>>

GetLineFails(k) ==
  /\ pc[k] = "getline"
  /\ eof \/ stream = <<>>
  /\ eof' = TRUE
  /\ Leaves(k)
  /\ UNCHANGED <<proc, stream, mixed, asker, fresh, curChan, profile,
                 registryVars, deviceVars, wireVars, askVars>>
-----------------------------------------------------------------------------
(***************************************************************************)
(* What the command is refused for: an exception that a handler catches.   *)
(* The text of the error never leaves, its length is gcount() = 0.         *)
(***************************************************************************)
TxChans == 0 .. (NumTX - 1)
NoDevice == driver = "uhd" /\ device = "closed"

\* The command is for the profile: it comes after the commands of the server and
\* before the parameters of the device, whatever it is called.
ToProfile(k) == profile[k] /\ line[k].cmd.op \in ProfileOps

Throws(k) ==
  LET op == line[k].cmd.op IN
  \/ op = "CHANNEL" /\ (Arg(k) = NaN \/ Arg(k) >= numChannels)
  \/ op = "RXCHANNEL" /\ \/ Arg(k) = NaN
                         \/ ~NoDevice /\ Arg(k) \notin RxChans
  \/ op = "TXCHANNEL" /\ \/ Arg(k) = NaN
                         \/ driver = "rtl"
                         \/ /\ driver = "uhd" /\ ~NoDevice
                            /\ Arg(k) \notin TxChans
  \/ op = "DATATYPE" /\ (Arg(k) = NaN \/ uidMap[curChan[k]] = Absent)
  \/ /\ ~ToProfile(k)
     /\ \/ op \in RxParams \cup TxParams /\ Arg(k) = NaN
        \/ op \in TxParams /\ driver = "rtl"
        \/ op = "PROFILE"
  \/ op = "OTHER"

Refuse(k) ==
  /\ pc[k] = "execute"
  /\ Throws(k)
  /\ Goto(k, "query")
  /\ UNCHANGED <<proc, textVars, asker, line, fresh, curChan, profile,
                 registryVars, deviceVars, wireVars, askVars>>

\* A null pointer is followed: the driver's device after SDR_DISCONNECT, the
\* USRP's tx_streams, which nothing ever makes longer, or an entry of uid_map
\* that a bind to a channel without a socket has made.
NullDevice(k) ==
  /\ pc[k] = "execute"
  /\ ~Throws(k) /\ ~ToProfile(k)
  /\ \/ /\ line[k].cmd.op \in RxParams \cup TxParams \cup
                               {"RXCHANNEL", "TXCHANNEL"}
        /\ NoDevice
     \/ line[k].cmd.op = "TXCHANNEL" /\ driver = "uhd"
  /\ Ends("crashed")

NullSocket(k) ==
  /\ At(k, "DATATYPE")
  /\ ~Throws(k)
  /\ uidMap[curChan[k]] = Null
  /\ Ends("crashed")

-----------------------------------------------------------------------------
(***************************************************************************)
(* NEWCHANNEL: a data socket is created, entered under the next number,    *)
(* numbered, and the number is read back.                                  *)
(***************************************************************************)
NoDescriptor(k) ==
  /\ At(k, "NEWCHANNEL")
  /\ made = room
  /\ Ends("exited")

NewChannel(k) ==
  /\ At(k, "NEWCHANNEL")
  /\ made < room
  /\ made' = made + 1
  /\ racing' = (racing \/ \E j \in Socks \ {k} : pc[j] \in {"number", "return"})
  /\ fresh' = [fresh EXCEPT ![k] = made]
  /\ uidMap' = [uidMap EXCEPT ![numChannels] = made]
  /\ rxOf' = [rxOf EXCEPT ![numChannels] = -1]
  /\ txOf' = [txOf EXCEPT ![numChannels] = -1]
  /\ Goto(k, "number")
  /\ UNCHANGED <<proc, textVars, asker, line, curChan, profile, room,
                 sockUid, streamType, numChannels, rxStreams, deviceVars, wireVars,
                 askVars>>

\* Mutant: the socket gets the number after the increment.
Number_PreIncrement(k) ==
  /\ pc[k] = "number"
  /\ sockUid' = [sockUid EXCEPT ![fresh[k]] = numChannels + 1]
  /\ numChannels' = numChannels + 1
  /\ Goto(k, "return")
  /\ UNCHANGED <<proc, textVars, asker, line, fresh, curChan, profile, room,
                 made, streamType, uidMap, rxOf, txOf, rxStreams, racing, deviceVars,
                 wireVars, askVars>>

Number(k) ==
  /\ pc[k] = "number"
  /\ sockUid' = [sockUid EXCEPT ![fresh[k]] = numChannels]
  /\ numChannels' = numChannels + 1
  /\ Goto(k, "return")
  /\ UNCHANGED <<proc, textVars, asker, line, fresh, curChan, profile, room,
                 made, streamType, uidMap, rxOf, txOf, rxStreams, racing, deviceVars,
                 wireVars, askVars>>

\* Mutant: the number goes into the reply and not into cur_channel.
Return_NotSelected(k) ==
  /\ pc[k] = "return"
  /\ Reply(k, numChannels - 1, fresh[k])
  /\ fresh' = [fresh EXCEPT ![k] = Null]
  /\ Goto(k, "query")
  /\ UNCHANGED <<proc, textVars, asker, line, curChan, profile,
                 registryVars, deviceVars, toServer, askVars>>

\* Mutant: the number of channels is returned instead of the last number.
Return_Count(k) ==
  /\ pc[k] = "return"
  /\ curChan' = [curChan EXCEPT ![k] = numChannels - 1]
  /\ Reply(k, numChannels, fresh[k])
  /\ fresh' = [fresh EXCEPT ![k] = Null]
  /\ Goto(k, "query")
  /\ UNCHANGED <<proc, textVars, asker, line, profile, registryVars,
                 deviceVars, toServer, askVars>>

Return(k) ==
  /\ pc[k] = "return"
  /\ curChan' = [curChan EXCEPT ![k] = numChannels - 1]
  /\ Reply(k, numChannels - 1, fresh[k])
  /\ fresh' = [fresh EXCEPT ![k] = Null]
  /\ Goto(k, "query")
  /\ UNCHANGED <<proc, textVars, asker, line, profile, registryVars,
                 deviceVars, toServer, askVars>>

-----------------------------------------------------------------------------
(***************************************************************************)
(* The commands that work on the channel chosen last.                      *)
(***************************************************************************)
Channel(k) ==
  /\ At(k, "CHANNEL")
  /\ ~Throws(k)
  /\ curChan' = [curChan EXCEPT ![k] = IF Arg(k) < 0 THEN -1 ELSE Arg(k)]
  /\ Goto(k, "query")
  /\ UNCHANGED <<proc, textVars, asker, line, fresh, profile, registryVars,
                 deviceVars, wireVars, askVars>>

\* openRXChannel: a USRP gets one more receive thread with every call, the
\* others keep the one they have.
OpenRX(k) ==
  /\ At(k, "RXCHANNEL")
  /\ ~Throws(k) /\ ~NoDevice
  /\ Goto(k, IF driver # "uhd" /\ receiving THEN "bind" ELSE "start")
  /\ UNCHANGED <<proc, textVars, asker, line, fresh, curChan, profile,
                 registryVars, deviceVars, wireVars, askVars>>

StartRX(k) ==
  /\ pc[k] = "start"
  /\ ~NoDevice
  /\ receiving' = TRUE
  /\ receivers' = receivers + 1
  /\ crossed' = (crossed \/ \E j \in Socks : pc[j] = "reset")
  /\ Goto(k, "bind")
  /\ UNCHANGED <<proc, textVars, asker, line, fresh, curChan, profile,
                 registryVars, driver, device, param, wireVars, askVars>>

\* Another handler has given the device up meanwhile.
StartNull(k) ==
  /\ pc[k] = "start"
  /\ NoDevice
  /\ Ends("crashed")

\* hackrf_start_rx fails: handleHRFResult ends the process.
StartExits(k) ==
  /\ pc[k] = "start"
  /\ driver = "hackrf"
  /\ Ends("exited")

\* uid_map[in_uid]: reading an entry that is not there makes it.
Entry(u) == IF uidMap[u] = Absent THEN Null ELSE uidMap[u]

BindRX(k) ==
  LET u == curChan[k] IN
  /\ pc[k] = "bind"
  /\ uidMap' = [uidMap EXCEPT ![u] = Entry(u)]
  /\ rxStreams' = [rxStreams EXCEPT ![Arg(k)] = Append(@, Entry(u))]
  /\ rxOf' = [rxOf EXCEPT ![u] = Arg(k)]
  /\ Reply(k, u, 0)
  /\ Goto(k, "query")
  /\ UNCHANGED <<proc, textVars, asker, line, fresh, curChan, profile, room,
                 made, sockUid, streamType, numChannels, txOf, racing, deviceVars, toServer,
                 askVars>>

\* Only a HackRF comes here: any channel will do.
BindTX(k) ==
  LET u == curChan[k] IN
  /\ At(k, "TXCHANNEL")
  /\ ~Throws(k) /\ driver = "hackrf"
  /\ uidMap' = [uidMap EXCEPT ![u] = Entry(u)]
  /\ txOf' = [txOf EXCEPT ![u] = Arg(k)]
  /\ Reply(k, u, 0)
  /\ Goto(k, "query")
  /\ UNCHANGED <<proc, textVars, asker, line, fresh, curChan, profile, room,
                 made, sockUid, streamType, numChannels, rxOf, rxStreams, racing,
                 deviceVars, toServer, askVars>>

DataType(k) ==
  /\ At(k, "DATATYPE")
  /\ ~Throws(k)
  /\ uidMap[curChan[k]] \in DataSocks
  /\ streamType' = [streamType EXCEPT ![uidMap[curChan[k]]] = Arg(k)]
  /\ Reply(k, Arg(k), 0)
  /\ Goto(k, "query")
  /\ UNCHANGED <<proc, textVars, asker, line, fresh, curChan, profile, room,
                 made, sockUid, numChannels, uidMap, rxOf, txOf, rxStreams, racing,
                 deviceVars, toServer, askVars>>
-----------------------------------------------------------------------------
(***************************************************************************)
(* The device.  Disconnecting a USRP joins its receive thread, which never *)
(* returns: the handler that waits for it keeps its command socket's mutex *)
(* for good, and no step of the model lets it go on.                       *)
(***************************************************************************)
\* A HackRF has one frequency and one rate for both directions.
Slot(op) == IF driver # "hackrf" THEN op
            ELSE CASE op = "TXFREQ" -> "RXFREQ"
                   [] op = "TXRATE" -> "RXRATE"
                   [] OTHER -> op

SetParameter(k) ==
  /\ pc[k] = "execute"
  /\ line[k].cmd.op \in RxParams \cup TxParams
  /\ ~Throws(k) /\ ~ToProfile(k) /\ ~NoDevice
  /\ param' = [param EXCEPT ![Slot(line[k].cmd.op)] = Arg(k)]
  /\ Goto(k, "query")
  /\ UNCHANGED <<proc, textVars, asker, line, fresh, curChan, profile,
                 registryVars, driver, device, receiving, receivers, crossed,
                 wireVars, askVars>>

\* The HackRF refuses what it is told to set, and handleHRFResult ends the
\* process; the checks of the range are commented out.  The result for the gain
\* of the receiver is not looked at.
SetExits(k) ==
  /\ pc[k] = "execute"
  /\ line[k].cmd.op \in (RxParams \ {"RXGAIN"}) \cup TxParams
  /\ ~Throws(k) /\ ~ToProfile(k) /\ driver = "hackrf"
  /\ Ends("exited")

\* A data channel that was never bound has channel -1.  The UHD library takes
\* that for all channels, or throws what nobody catches.
Unbound(k) ==
  LET u == curChan[k] IN
  IF line[k].cmd.op \in RxParams THEN rxOf[u] = -1 ELSE txOf[u] = -1

SetThrows(k) ==
  /\ pc[k] = "execute"
  /\ line[k].cmd.op \in RxParams \cup TxParams
  /\ ~Throws(k) /\ ~ToProfile(k) /\ driver = "uhd" /\ ~NoDevice
  /\ Unbound(k)
  /\ Ends("terminated")

Joining(k) == /\ At(k, "SDR_DISCONNECT")
              /\ driver = "uhd" /\ receiving

\* Mutant: the threads are told to stop and not waited for.
Disconnect_NoJoin(k) ==
  /\ At(k, "SDR_DISCONNECT")
  /\ Goto(k, IF driver = "uhd" THEN "reset" ELSE "query")
  /\ UNCHANGED <<proc, textVars, asker, line, fresh, curChan, profile,
                 registryVars, deviceVars, wireVars, askVars>>

\* rxStop has no thread to wait for; the other drivers do nothing.
Disconnect(k) ==
  /\ At(k, "SDR_DISCONNECT")
  /\ ~Joining(k)
  /\ Goto(k, IF driver = "uhd" THEN "reset" ELSE "query")
  /\ UNCHANGED <<proc, textVars, asker, line, fresh, curChan, profile,
                 registryVars, deviceVars, wireVars, askVars>>

\* shared_uhd.reset().
Reset(k) ==
  /\ pc[k] = "reset"
  /\ device' = "closed"
  /\ Goto(k, "query")
  /\ UNCHANGED <<proc, textVars, asker, line, fresh, curChan, profile,
                 registryVars, driver, receiving, receivers, param, crossed,
                 wireVars, askVars>>

\* A USRP that is opened again has its defaults again.
Connect(k) ==
  /\ At(k, "SDR_CONNECT")
  /\ device' = "open"
  /\ param' = IF driver = "uhd" THEN [p \in DOMAIN param |-> 0] ELSE param
  /\ Goto(k, "query")
  /\ UNCHANGED <<proc, textVars, asker, line, fresh, curChan, profile,
                 registryVars, driver, receiving, receivers, crossed, wireVars,
                 askVars>>

\* The parameters are read back, whoever the command was for.
Queried(k) == line[k].cmd.op \in RxParams \cup TxParams

\* A profile is loaded when its file is there (argument 1), and answers its
\* commands from a process of its own; a missing file is no error.
LoadProfile(k) ==
  /\ \/ /\ At(k, "LOAD_PROFILE")
        /\ profile' = [profile EXCEPT ![k] = @ \/ Arg(k) = 1]
     \/ /\ At(k, "UNLOAD_PROFILE")
        /\ profile' = [profile EXCEPT ![k] = FALSE]
  /\ Goto(k, "query")
  /\ UNCHANGED <<proc, textVars, asker, line, fresh, curChan, registryVars,
                 deviceVars, wireVars, askVars>>

AskProfile(k) ==
  /\ pc[k] = "execute"
  /\ ToProfile(k)
  /\ Reply(k, Arg(k), 0)
  /\ twice' = IF Queried(k) THEN [twice EXCEPT ![asker[k]] = @ + 1] ELSE twice
  /\ Goto(k, "query")
  /\ UNCHANGED <<proc, textVars, asker, line, fresh, curChan, profile,
                 registryVars, deviceVars, toServer, asked>>

-----------------------------------------------------------------------------
(***************************************************************************)
(* After every command, refused or not, the parameters are read back.  This*)
(* is outside the try block: what a driver that has no transmitter throws,  *)
(* or the UHD library, nobody catches.                                     *)
(***************************************************************************)
Query(k) ==
  /\ pc[k] = "query"
  /\ Queried(k)
  /\ ~NoDevice
  /\ ~(driver = "rtl" /\ line[k].cmd.op \in TxParams)
  /\ Reply(k, param[Slot(line[k].cmd.op)], 0)
  /\ Leaves(k)
  /\ UNCHANGED <<proc, textVars, asker, fresh, curChan, profile,
                 registryVars, deviceVars, toServer, askVars>>

\* Mutant: num_bytes is not reset, and the command's own reply goes out again.
NoQuery_NoReset(k) ==
  /\ pc[k] = "query"
  /\ ~Queried(k)
  /\ IF line[k].cmd.op \in {"NEWCHANNEL", "RXCHANNEL", "TXCHANNEL", "PROFILE"}
     THEN Reply(k, curChan[k], 0)
     ELSE UNCHANGED toClient
  /\ Leaves(k)
  /\ UNCHANGED <<proc, textVars, asker, fresh, curChan, profile,
                 registryVars, deviceVars, toServer, askVars>>

NoQuery(k) ==
  /\ pc[k] = "query"
  /\ ~Queried(k)
  /\ Leaves(k)
  /\ UNCHANGED <<proc, textVars, asker, fresh, curChan, profile,
                 registryVars, deviceVars, wireVars, askVars>>

QueryThrows(k) ==
  /\ pc[k] = "query"
  /\ Queried(k)
  /\ \/ driver = "rtl" /\ line[k].cmd.op \in TxParams
     \/ driver = "uhd" /\ ~NoDevice /\ Unbound(k)
  /\ Ends("terminated")

QueryNull(k) ==
  /\ pc[k] = "query"
  /\ Queried(k)
  /\ NoDevice
  /\ Ends("crashed")

\* A receive thread hands samples to every stream of channel 0.
Receive ==
  /\ receivers > 0
  /\ \E i \in 1 .. Len(rxStreams[0]) : rxStreams[0][i] = Null
  /\ Ends("crashed")

-----------------------------------------------------------------------------
Take(k) == Insert(k) \/ GetLine(k) \/ GetLineFails(k)

Execute(k) ==
  \/ Refuse(k) \/ NullDevice(k) \/ NullSocket(k) \/ NoDescriptor(k)
  \/ NewChannel(k) \/ Number(k) \/ Return(k) \/ Channel(k)
  \/ OpenRX(k) \/ StartRX(k) \/ StartNull(k) \/ StartExits(k) \/ BindRX(k)
  \/ BindTX(k) \/ DataType(k) \/ SetParameter(k) \/ SetExits(k)
  \/ SetThrows(k) \/ Disconnect(k) \/ Reset(k) \/ Connect(k)
  \/ LoadProfile(k) \/ AskProfile(k)

ReadBack(k) == Query(k) \/ NoQuery(k) \/ QueryThrows(k) \/ QueryNull(k)

Server ==
  \/ \E k \in Socks : Take(k) \/ Execute(k) \/ ReadBack(k)
  \/ Receive

\* Nobody has anything left to do, or can do it.
Finished ==
  \/ proc # "running"
  \/ /\ Sent = MaxMsgs
     /\ \A k \in Socks : \/ Joining(k)
                         \/ /\ pc[k] = "idle"
                            /\ \A c \in Clients :
                                 SockOf[c] = k => toServer[c] = <<>>

Next ==
  \/ proc = "running" /\ (Server \/ \E c \in Clients : ClientSend(c))
  \/ Finished /\ UNCHANGED vars

Spec == Init /\ [][Next]_vars

-----------------------------------------------------------------------------
(***************************************************************************)
(* Properties.                                                             *)
(***************************************************************************)

\* A reply answers a command of the client that gets it, on whatever command
\* sockets: as long as no message meets another's line in command_stream, the
\* line taken out is the one the message at hand has put in or completed
\* (portalCommandSocket.cc: "There probably needs to be one stringstream for each
\* channel").
AnsweredToAsker ==
  ~mixed =>
    \A c \in Clients : \A i \in 1 .. Len(toClient[c]) : toClient[c][i].by = c

\* The uid a data socket has, the entry of uid_map under it and the number and
\* port that the client was told agree, unless the handlers of two command
\* sockets have been in addChannel at once (genericSDRInterface.cc, addChannel:
\* "create a sequential UID for this port").
UidsAgree ==
  ~racing =>
    /\ \A d \in DataSocks : sockUid[d] # Absent => uidMap[sockUid[d]] = d
    /\ \A c \in Clients : \A i \in 1 .. Len(toClient[c]) :
         LET r == toClient[c][i] IN
         r.op = "NEWCHANNEL" => sockUid[r.port] = r.val

\* A client that has one command under way can take the next reply for its own
\* (portalCMD.js, COMMANDING): no message is answered more than once, except that
\* a command which a profile accepts under the name of a parameter is answered by
\* the profile and by the read-back, and no more than that.
ReplyDue(k) ==
  \/ pc[k] \in {"getline", "execute", "number", "return", "start", "bind"}
  \/ pc[k] = "query" /\ Queried(k)

AnsweredOnce ==
  \A c \in Clients :
    Len(toClient[c]) + Len(toServer[c]) +
      (IF asker[SockOf[c]] = c /\ ReplyDue(SockOf[c]) THEN 1 ELSE 0)
      <= asked[c] + twice[c]

\* A device is not given up under a receive thread that uses it, unless reception
\* was started in the middle of the disconnect (uhdInterface.cc, disconnect:
\* rxStop before the device is reset).  The price is that the disconnect of a USRP
\* that receives never comes back.
ClosedIsQuiet == ~crossed => (device = "closed" => receivers = 0)
=============================================================================
