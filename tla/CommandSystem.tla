--------------------------- MODULE CommandSystem ---------------------------
(***************************************************************************)
(* Browsers on the command server: the client side of src/www/portalCMD.js *)
(* composed with CommandServer.  A browser opens a channel, sets rate,     *)
(* frequency and gain, binds a receive channel and then sends what its     *)
(* user does, one command at a time, the rest in a queue.                  *)
(*                                                                         *)
(* Each handler of the browser runs to its end before the next, so it is   *)
(* one step.  The user can only tune once the page shows the controls,     *)
(* after connect_callback (rds_demo.html, showApp).                        *)
(***************************************************************************)
EXTENDS CommandServer

CONSTANTS
  Picks,     \* what a user picks: a parameter and a value, [op, arg]
  MaxTunes   \* bound: how often the users pick one, together

VARIABLES
  state,     \* portalCMD.STATE of each browser, or "CLOSED"
  cmdQueue,  \* cmd_queue: commands not sent yet
  uid,       \* the channel the browser takes for its own
  wanted,    \* what its user has asked for last (a history)
  tunes      \* how often a user has picked a value

browserVars == <<state, cmdQueue, uid, wanted, tunes>>
sysVars == <<vars, browserVars>>

Tuners == {"RXFREQ", "RXGAIN"}
Cmd(op, arg) == [op |-> op, arg |-> arg]

\* What the browsers send: a command a message, or the close frame's payload.
BrowserCommands ==
  {Cmd("NEWCHANNEL", 0), Cmd("RXRATE", 1), Cmd("RXFREQ", 1), Cmd("RXGAIN", 1),
   Cmd("RXCHANNEL", 0)} \cup Picks
Whole(cmd) == <<[cmd |-> cmd, part |-> "whole"]>>
BrowserMessages == {Whole(cmd) : cmd \in BrowserCommands} \cup {<<>>}

ASSUME SystemAssumption ==
  /\ Picks \subseteq [op : Tuners, arg : Int \ {NaN}]
  /\ Messages = BrowserMessages
  /\ MaxTunes \in Nat

SysInit ==
  /\ Init
  /\ state = [c \in Clients |-> "INIT"]
  /\ cmdQueue = [c \in Clients |-> <<>>]
  /\ uid = [c \in Clients |-> 0]
  /\ wanted = [c \in Clients |-> [p \in Tuners |-> 0]]
  /\ tunes = 0

Send(c, cmd) == toServer' = [toServer EXCEPT ![c] = Append(@, Whole(cmd))]

To(c, s) == state' = [state EXCEPT ![c] = s]

-----------------------------------------------------------------------------
(***************************************************************************)
(* sendCommand and deQCommand.                                             *)
(***************************************************************************)
\* Mutant: a command whose name is in the queue already is not queued.
Queued_KeepsOld(q, cmd) ==
  IF \E i \in 1 .. Len(q) : q[i].op = cmd.op THEN q ELSE Append(q, cmd)

\* The command of the same name that waits in the queue is smashed: there is one
\* at most, since each call of sendCommand does so.
Queued(q, cmd) ==
  LET same == {i \in 1 .. Len(q) : q[i].op = cmd.op} IN
  IF same = {} THEN Append(q, cmd)
  ELSE LET i == CHOOSE i \in same : TRUE
       IN  Append(SubSeq(q, 1, i - 1) \o SubSeq(q, i + 1, Len(q)), cmd)

\* sendCommand called in any state but COMMANDING sends the queue's first, and
\* the caller may set the state to something else after that.
SendCommand(c, cmd, next) ==
  LET q == Queued(cmdQueue[c], cmd) IN
  /\ Send(c, Head(q))
  /\ cmdQueue' = [cmdQueue EXCEPT ![c] = Tail(q)]
  /\ To(c, next)

DeQCommand(c) ==
  IF cmdQueue[c] # <<>>
  THEN /\ Send(c, Head(cmdQueue[c]))
       /\ cmdQueue' = [cmdQueue EXCEPT ![c] = Tail(@)]
       /\ To(c, "COMMANDING")
  ELSE /\ To(c, "IDLE")
       /\ UNCHANGED <<cmdQueue, toServer>>
-----------------------------------------------------------------------------
OnOpen(c) ==
  /\ state[c] = "INIT"
  /\ Send(c, Cmd("NEWCHANNEL", 0))
  /\ To(c, "OPEN")
  /\ UNCHANGED <<serverVars, askVars, toClient, cmdQueue, uid, wanted, tunes>>

\* onMessage: the reply, whatever it says, is the next in the script.
Got(c, s) ==
  /\ state[c] = s
  /\ toClient[c] # <<>>
  /\ toClient' = [toClient EXCEPT ![c] = Tail(@)]
  /\ UNCHANGED <<serverVars, askVars, tunes>>

OnChannel(c) ==
  /\ Got(c, "OPEN")
  /\ uid' = [uid EXCEPT ![c] = Head(toClient[c]).val]
  /\ Send(c, Cmd("RXRATE", 1))
  /\ To(c, "RXRATE")
  /\ UNCHANGED <<cmdQueue, wanted>>

OnRate(c) ==
  /\ Got(c, "RXRATE")
  /\ SendCommand(c, Cmd("RXFREQ", 1), "RXFREQ")
  /\ wanted' = [wanted EXCEPT ![c]["RXFREQ"] = 1]
  /\ UNCHANGED uid

OnFreq(c) ==
  /\ Got(c, "RXFREQ")
  /\ SendCommand(c, Cmd("RXGAIN", 1), "RXGAIN")
  /\ wanted' = [wanted EXCEPT ![c]["RXGAIN"] = 1]
  /\ UNCHANGED uid

OnGain(c) ==
  /\ Got(c, "RXGAIN")
  /\ Send(c, Cmd("RXCHANNEL", 0))
  /\ To(c, "CONNECTED")
  /\ UNCHANGED <<cmdQueue, uid, wanted>>

OnBound(c) ==
  /\ Got(c, "CONNECTED")
  /\ To(c, "IDLE")
  /\ UNCHANGED <<toServer, cmdQueue, uid, wanted>>

OnReply(c) ==
  /\ Got(c, "COMMANDING")
  /\ DeQCommand(c)
  /\ UNCHANGED <<uid, wanted>>

\* Mutant: a second command is sent before the first is answered.
Tune_Eager(c) ==
  /\ state[c] \in {"IDLE", "COMMANDING"}
  /\ tunes < MaxTunes
  /\ \E p \in Picks :
       /\ wanted' = [wanted EXCEPT ![c][p.op] = p.arg]
       /\ SendCommand(c, p, "COMMANDING")
  /\ tunes' = tunes + 1
  /\ UNCHANGED <<serverVars, askVars, toClient, uid>>

\* setFreq and setGain, from the page's controls.
Tune(c) ==
  /\ state[c] \in {"IDLE", "COMMANDING"}
  /\ tunes < MaxTunes
  /\ \E p \in Picks :
       /\ wanted' = [wanted EXCEPT ![c][p.op] = p.arg]
       /\ IF state[c] # "COMMANDING"
          THEN SendCommand(c, p, "COMMANDING")
          ELSE /\ cmdQueue' = [cmdQueue EXCEPT ![c] = Queued(@, p)]
               /\ UNCHANGED <<state, toServer>>
  /\ tunes' = tunes + 1
  /\ UNCHANGED <<serverVars, askVars, toClient, uid>>

\* The page is left or calls disconnect: the browser sends a close frame, which
\* the server hands on like any other (parseDownstreamMessage looks at no
\* opcode): to the command socket it is a message without text.
Leave(c) ==
  /\ \A d \in Clients : state[d] # "CLOSED"
  /\ state[c] # "INIT"
  /\ toServer' = [toServer EXCEPT ![c] = Append(@, <<>>)]
  /\ To(c, "CLOSED")
  /\ UNCHANGED <<serverVars, askVars, toClient, cmdQueue, uid, wanted, tunes>>
-----------------------------------------------------------------------------
\* A reply in any other state would be dropped; Sessions says that none comes.
OnMessage(c) ==
  \/ OnChannel(c) \/ OnRate(c) \/ OnFreq(c) \/ OnGain(c) \/ OnBound(c)
  \/ OnReply(c)

ServerStep == proc = "running" /\ Server /\ UNCHANGED browserVars

\* Nothing is under way, or the server takes no more of it.
SysFinished ==
  \/ proc # "running"
  \/ /\ \A k \in Socks : pc[k] = "idle"
     /\ \A c \in Clients : toServer[c] = <<>>
     /\ \A c \in Clients : toClient[c] = <<>> \/ state[c] = "CLOSED"
     /\ \E c \in Clients : state[c] = "CLOSED"

SysNext ==
  \/ ServerStep
  \/ \E c \in Clients : OnOpen(c) \/ OnMessage(c) \/ Tune(c) \/ Leave(c)
  \/ SysFinished /\ UNCHANGED sysVars

SysSpec == SysInit /\ [][SysNext]_sysVars

\* The handlers of the server and of the browsers run on; a user need not do
\* anything, nor open the page.
SysFairSpec ==
  /\ SysSpec
  /\ WF_sysVars(ServerStep)
  /\ \A c \in Clients : WF_sysVars(OnMessage(c))

-----------------------------------------------------------------------------
(***************************************************************************)
(* Properties.                                                             *)
(***************************************************************************)

\* What the session of a browser is in terms of CommandSession: the command
\* under way is on the wire or in the server's handler, unless command_stream
\* has seen its end.
InServer(c) ==
  LET k == SockOf[c] IN
  asker[k] = c /\ ReplyDue(k) /\ (pc[k] = "getline" => ~eof /\ stream # <<>>)

AnswerTo(c) ==
  CASE state[c] = "CLOSED" -> "none"
    [] state[c] # "CLOSED" /\ toClient[c] # <<>> -> "given"
    [] state[c] # "CLOSED" /\ toClient[c] = <<>> ->
         IF toServer[c] # <<>> \/ InServer(c) THEN "due"
         ELSE IF state[c] \in {"INIT", "IDLE"} THEN "none" ELSE "lost"

UnderWay(c) ==
  LET k == SockOf[c] IN
  CASE AnswerTo(c) = "given" -> Head(toClient[c]).op
    [] AnswerTo(c) \in {"none", "lost"} -> "none"
    [] AnswerTo(c) = "due" ->
         IF toServer[c] # <<>> THEN Head(toServer[c])[1].cmd.op
         ELSE IF pc[k] = "getline" THEN Head(stream).cmd.op
         ELSE line[k].cmd.op

Session == INSTANCE CommandSession WITH
  stage <- state,
  sent <- [c \in Clients |-> UnderWay(c)],
  answer <- [c \in Clients |-> AnswerTo(c)],
  todo <- [c \in Clients |->
             IF state[c] = "CLOSED" THEN {} ELSE Range(cmdQueue[c])],
  up <- proc = "running"

\* Each browser's session is the abstract one, whatever the other browsers do:
\* one command under way at most, which is not lost before a browser leaves; the
\* answer that comes is that of the command; no pick is lost or sent twice;
\* and it goes on as long as the server runs (portalCMD.js: sendCommand only sends
\* when the state is not COMMANDING, onMessage takes the next reply for that to its
\* last command).
Sessions == Session!Spec

Bound(c) == \E i \in 1 .. Len(rxStreams[0]) :
              /\ rxStreams[0][i] \in DataSocks
              /\ sockUid[rxStreams[0][i]] = uid[c]
Connected(c) == state[c] \in {"IDLE", "COMMANDING"}

Alone(c) == \A d \in Clients \ {c} : state[d] = "INIT"

\* A browser that says "SDRPortal server connected" (portalCMD.js, onMessage:
\* CONNECTED) has its own channel bound to the receive channel it asked for, as
\* long as no other has opened the page: NEWCHANNEL leaves the new channel
\* selected for the RXCHANNEL that follows.
AloneMeansBound ==
  \A c \in Clients : Connected(c) /\ Alone(c) => Bound(c)

\* What browsers can do to the server: it never follows a null pointer nor ends
\* by an exception, since every bind finds a socket, because each browser opens a
\* channel first.  It does exit when a channel finds no descriptor left, which is
\* when as many pages were opened as there is room for, and a HackRF that refuses
\* what it is told makes it exit (genericSocketInterface.cc:94-97 and
\* hackRFInterface.cc:206-211, exit(1)).
NoCrash ==
  /\ proc \notin {"crashed", "terminated"}
  /\ proc = "exited" => made = room \/ driver = "hackrf"

\* When a lone browser is idle again, the device is set to what its user asked
\* for last: smashing older commands of the same name loses nothing
\* (portalCMD.js, sendCommand: "First make sure the command isn't already
\* queued up.  If so, smash it").
LastWins ==
  \A c \in Clients : state[c] = "IDLE" /\ Alone(c) =>
    \A p \in Tuners : param[p] = wanted[c][p]

Busy(c) == state[c] \notin {"INIT", "IDLE", "CLOSED"}

\* "Send off the response" (portalCommandSocket.cc:191): a browser is answered,
\* whoever leaves, as long as the server runs.
BackToIdleAlways ==
  \A c \in Clients : Busy(c) ~> (~Busy(c) \/ proc # "running")
=============================================================================
