------------------------ MODULE CommandSystemProofs ------------------------
(***************************************************************************)
(* Theorems about CommandSystem, for every set of browsers, every set of   *)
(* picks and every driver, when all browsers use one command socket.       *)
(***************************************************************************)
EXTENDS CommandSystem, CommandServerProofs

\* What the tuples of unchanged variables stand for.
USE DEF textVars, handlerVars, registryVars, deviceVars, wireVars, askVars

-----------------------------------------------------------------------------
(***************************************************************************)
(* The queue of a browser: one command of a name.                          *)
(***************************************************************************)
Distinct(q) == \A i, j \in 1 .. Len(q) : q[i].op = q[j].op => i = j

LEMMA QueuedEmpty ==
  ASSUME NEW cmd PROVE Queued(<<>>, cmd) = <<cmd>>
BY DEF Queued

LEMMA QueuedFacts ==
  ASSUME NEW q \in Seq(Picks), Distinct(q), NEW p \in Picks
  PROVE  /\ Queued(q, p) \in Seq(Picks)
         /\ Distinct(Queued(q, p))
         /\ Range(Queued(q, p)) = {e \in Range(q) : e.op # p.op} \cup {p}
<1> DEFINE same == {i \in 1 .. Len(q) : q[i].op = p.op}
           Q == Queued(q, p)
<1>1. CASE same = {}
  <2>1. Q = Append(q, p)
    BY <1>1 DEF Queued
  <2> HIDE DEF Q
  <2>2. /\ Q \in Seq(Picks) /\ Len(Q) = Len(q) + 1 /\ Q[Len(q) + 1] = p
        /\ \A i \in 1 .. Len(q) : Q[i] = q[i]
    BY <2>1
  <2>3. \A i \in 1 .. Len(q) : q[i].op # p.op
    BY <1>1
  <2>4. Distinct(Q)
    BY <2>2, <2>3 DEF Distinct
  <2>5. Range(Q) = {e \in Range(q) : e.op # p.op} \cup {p}
    BY <2>2, <2>3 DEF Range
  <2> QED
    BY <2>2, <2>4, <2>5 DEF Q
<1>2. CASE same # {}
  <2> DEFINE i == CHOOSE i \in same : TRUE
             r == SubSeq(q, 1, i - 1) \o SubSeq(q, i + 1, Len(q))
  <2>1. i \in 1 .. Len(q) /\ q[i].op = p.op
    BY <1>2
  <2>2. Q = Append(r, p)
    BY <1>2 DEF Queued
  <2> HIDE DEF i, Q
  <2>3. /\ r \in Seq(Picks) /\ Len(r) = Len(q) - 1
        /\ \A j \in 1 .. Len(r) : r[j] = IF j < i THEN q[j] ELSE q[j + 1]
    <3> DEFINE f == SubSeq(q, 1, i - 1)
               g == SubSeq(q, i + 1, Len(q))
    <3>1. /\ f \in Seq(Picks) /\ Len(f) = i - 1
          /\ \A j \in 1 .. Len(f) : f[j] = q[j]
      BY <2>1
    <3>2. /\ g \in Seq(Picks) /\ Len(g) = Len(q) - i
          /\ \A j \in 1 .. Len(g) : g[j] = q[i + j]
      BY <2>1
    <3> HIDE DEF f, g
    <3>3. /\ f \o g \in Seq(Picks) /\ Len(f \o g) = Len(q) - 1
          /\ \A j \in 1 .. Len(f \o g) :
               (f \o g)[j] = IF j < i THEN q[j] ELSE q[j + 1]
      <4>1. Len(q) \in Nat /\ i \in 1 .. Len(q)
        BY <2>1
      <4>2. f \o g \in Seq(Picks) /\ Len(f \o g) = Len(f) + Len(g)
        BY <3>1, <3>2
      <4>3. Len(f \o g) = Len(q) - 1
        BY <3>1, <3>2, <4>1, <4>2
      <4>4. ASSUME NEW j \in 1 .. Len(f \o g)
            PROVE  (f \o g)[j] = IF j < i THEN q[j] ELSE q[j + 1]
        <5>1. CASE j < i
          BY <3>1, <3>2, <4>1, <4>3, <4>4, <5>1
        <5>2. CASE ~(j < i)
          <6>1. (f \o g)[j] = g[j - Len(f)]
            BY <3>1, <3>2, <4>1, <4>3, <4>4, <5>2
          <6>2. j - Len(f) \in 1 .. Len(g) /\ i + (j - Len(f)) = j + 1
            BY <3>1, <3>2, <4>1, <4>3, <4>4, <5>2
          <6> QED
            BY <3>2, <5>2, <6>1, <6>2
        <5> QED
          BY <5>1, <5>2
      <4> QED
        BY <4>2, <4>3, <4>4
    <3> QED
      BY <3>3 DEF f, g
  <2> HIDE DEF r
  <2>4. /\ Q \in Seq(Picks) /\ Len(Q) = Len(q) /\ Q[Len(q)] = p
        /\ \A j \in 1 .. Len(q) - 1 : Q[j] = IF j < i THEN q[j] ELSE q[j + 1]
    BY <2>1, <2>2, <2>3
  <2>5. \A j \in 1 .. Len(q) : q[j].op = p.op <=> j = i
    BY <2>1 DEF Distinct
  <2>6. Distinct(Q)
    <3> SUFFICES ASSUME NEW a \in 1 .. Len(q), NEW b \in 1 .. Len(q),
                        Q[a].op = Q[b].op
                 PROVE  a = b
      BY <2>4 DEF Distinct
    <3>1. Len(q) \in Nat
      OBVIOUS
    <3>2. ASSUME NEW j \in 1 .. Len(q) - 1
          PROVE  Q[j].op # p.op
      BY <2>1, <2>4, <2>5, <3>1
    <3>3. CASE a < Len(q) /\ b < Len(q)
      BY <2>1, <2>4, <3>1, <3>3 DEF Distinct
    <3>4. CASE a = Len(q) \/ b = Len(q)
      BY <2>4, <3>1, <3>2, <3>4
    <3> QED
      BY <3>1, <3>3, <3>4
  <2>7. Range(Q) = {e \in Range(q) : e.op # p.op} \cup {p}
    <3>1. ASSUME NEW e \in Range(Q) PROVE e = p \/ (e \in Range(q) /\ e.op # p.op)
      <4>1. PICK j \in 1 .. Len(q) : e = Q[j]
        BY <2>4, <3>1 DEF Range
      <4>2. ASSUME j < Len(q)
            PROVE  \E l \in 1 .. Len(q) : l # i /\ Q[j] = q[l]
        <5>1. CASE j < i
          BY <2>4, <4>1, <4>2, <5>1
        <5>2. CASE ~(j < i)
          <6>1. j + 1 \in 1 .. Len(q) /\ j + 1 # i
            BY <2>1, <4>1, <4>2, <5>2
          <6> QED
            BY <2>4, <4>1, <4>2, <5>2, <6>1
        <5> QED
          BY <5>1, <5>2
      <4>3. CASE j < Len(q)
        BY <2>5, <4>1, <4>2, <4>3 DEF Range
      <4>4. CASE ~(j < Len(q))
        BY <2>4, <4>1, <4>4
      <4> QED
        BY <4>3, <4>4
    <3>2. ASSUME NEW e \in Range(q), e.op # p.op PROVE e \in Range(Q)
      <4>1. PICK j \in 1 .. Len(q) : e = q[j]
        BY <3>2 DEF Range
      <4>2. j # i
        BY <2>1, <3>2, <4>1
      <4>3. CASE j < i
        BY <2>1, <2>4, <4>1, <4>3 DEF Range
      <4>4. CASE j > i
        <5>1. j - 1 \in 1 .. Len(q) - 1 /\ ~(j - 1 < i) /\ (j - 1) + 1 = j
          BY <2>1, <4>4
        <5>2. Q[j - 1] = e
          BY <2>4, <4>1, <5>1
        <5>3. j - 1 \in DOMAIN Q
          BY <2>4, <5>1
        <5> QED
          BY <5>2, <5>3 DEF Range
      <4> QED
        BY <2>1, <4>2, <4>3, <4>4
    <3>3. p \in Range(Q)
      BY <2>1, <2>4 DEF Range
    <3> QED
      BY <3>1, <3>2, <3>3
  <2> QED
    BY <2>4, <2>6, <2>7 DEF Q
<1> QED
  BY <1>1, <1>2

LEMMA TailFacts ==
  ASSUME NEW q \in Seq(Picks), Distinct(q), q # <<>>
  PROVE  /\ Tail(q) \in Seq(Picks) /\ Distinct(Tail(q))
         /\ Head(q) \in Picks /\ Head(q) \in Range(q)
         /\ Range(Tail(q)) = Range(q) \ {Head(q)}
<1>1. /\ Tail(q) \in Seq(Picks) /\ Len(Tail(q)) = Len(q) - 1 /\ Len(q) > 0
      /\ \A j \in 1 .. Len(Tail(q)) : Tail(q)[j] = q[j + 1]
      /\ Head(q) = q[1] /\ Head(q) \in Picks /\ Len(q) \in Nat
  OBVIOUS
<1>2. Distinct(Tail(q))
  BY <1>1 DEF Distinct
<1>3. ASSUME NEW e \in Range(Tail(q)) PROVE e \in Range(q) /\ e # q[1]
  <2>1. PICK j \in 1 .. Len(q) - 1 : e = q[j + 1]
    BY <1>1, <1>3 DEF Range
  <2>2. j + 1 \in 1 .. Len(q) /\ 1 \in 1 .. Len(q) /\ j + 1 # 1
    BY <1>1
  <2> QED
    BY <2>1, <2>2 DEF Range, Distinct
<1>4. ASSUME NEW e \in Range(q), e # q[1] PROVE e \in Range(Tail(q))
  <2>1. PICK j \in 1 .. Len(q) : e = q[j]
    BY <1>4 DEF Range
  <2>2. j # 1
    BY <1>4, <2>1
  <2>3. j - 1 \in 1 .. Len(Tail(q)) /\ (j - 1) + 1 = j
    BY <1>1, <2>2
  <2>4. Tail(q)[j - 1] = e
    BY <1>1, <2>1, <2>3
  <2>5. j - 1 \in DOMAIN Tail(q)
    BY <1>1, <2>3
  <2> QED
    BY <2>4, <2>5 DEF Range
<1>5. q[1] \in Range(q)
  BY <1>1 DEF Range
<1> QED
  BY <1>1, <1>2, <1>3, <1>4, <1>5

-----------------------------------------------------------------------------
(***************************************************************************)
(* The invariant that the session rests on.  A browser that has not left   *)
(* has one command at most, on one of the two wires or in the server, and  *)
(* it is one that its state asks for; the stream holds a line only between *)
(* the step that puts it in and the one that takes it out.                 *)
(***************************************************************************)
States == {"INIT", "OPEN", "RXRATE", "RXFREQ", "RXGAIN", "CONNECTED", "IDLE",
           "COMMANDING", "CLOSED"}

Asks(s) ==
  CASE s = "OPEN" -> {"NEWCHANNEL"}
    [] s \in {"RXRATE", "RXFREQ", "RXGAIN"} -> {s}
    [] s = "CONNECTED" -> {"RXCHANNEL"}
    [] s = "COMMANDING" -> Tuners
    [] OTHER -> {}

InHandler(c) == asker[SockOf[c]] = c /\ ReplyDue(SockOf[c])

BrowserTypes ==
  /\ state \in [Clients -> States]
  /\ cmdQueue \in [Clients -> Seq(Picks)]
  /\ uid \in [Clients -> Int]
  /\ wanted \in [Clients -> [Tuners -> Int]]
  /\ tunes \in Nat

Queues ==
  \A c \in Clients :
    /\ state[c] \notin {"COMMANDING", "CLOSED"} => cmdQueue[c] = <<>>
    /\ Distinct(cmdQueue[c])

OneUnderWay(c) ==
  /\ \/ toServer[c] = <<>>
     \/ \E cmd \in BrowserCommands :
          cmd.op \in Asks(state[c]) /\ toServer[c] = <<Whole(cmd)>>
  /\ \/ toClient[c] = <<>>
     \/ Len(toClient[c]) = 1 /\ Head(toClient[c]).op \in Asks(state[c])
  /\ toServer[c] # <<>> => toClient[c] = <<>> /\ ~InHandler(c)
  /\ toClient[c] # <<>> => ~InHandler(c)
  /\ InHandler(c) => state[c] \notin {"INIT", "IDLE"}

Wires == \A c \in Clients : state[c] # "CLOSED" => OneUnderWay(c)

Piece(cmd, c) == [cmd |-> cmd, part |-> "whole", by |-> c]
AskedBy(c, cmd) ==
  cmd \in BrowserCommands /\ (state[c] = "CLOSED" \/ cmd.op \in Asks(state[c]))

Handled(k) ==
  /\ pc[k] # "idle" => state[asker[k]] # "INIT"
  /\ pc[k] # "getline" => stream = <<>>
  /\ pc[k] = "getline" =>
       \/ stream = <<>> /\ (eof \/ state[asker[k]] = "CLOSED")
       \/ ~eof /\ \E cmd \in BrowserCommands :
            stream = <<Piece(cmd, asker[k])>> /\ AskedBy(asker[k], cmd)
  /\ pc[k] \notin {"idle", "getline"} => line[k].cmd \in BrowserCommands
  /\ pc[k] \notin {"idle", "getline"} /\ ReplyDue(k) =>
       AskedBy(asker[k], line[k].cmd)

Device ==
  /\ eof => \E d \in Clients : state[d] = "CLOSED"
  /\ device = "open" /\ \A k \in Socks : ~profile[k]

SessionInv ==
  BrowserTypes /\ Queues /\ Wires /\ (\A k \in Used : Handled(k)) /\ Device
SysInv == TypeInv /\ HandlerInv /\ SessionInv

LEMMA CommandFacts ==
  /\ \A cmd \in BrowserCommands :
       /\ cmd \in Commands /\ cmd.arg \in Int /\ cmd.arg # NaN
       /\ cmd.op \in {"NEWCHANNEL", "RXRATE", "RXFREQ", "RXGAIN", "RXCHANNEL"}
       /\ cmd.op = "RXCHANNEL" => cmd.arg = 0
       /\ Whole(cmd) \in Messages
  /\ <<>> \in Messages
  /\ \A m \in Messages : m = <<>> \/ \E cmd \in BrowserCommands : m = Whole(cmd)
<1>1. ASSUME NEW cmd \in BrowserCommands
      PROVE  /\ cmd \in Commands /\ cmd.arg \in Int /\ cmd.arg # NaN
             /\ cmd.op \in {"NEWCHANNEL", "RXRATE", "RXFREQ", "RXGAIN", "RXCHANNEL"}
             /\ cmd.op = "RXCHANNEL" => cmd.arg = 0
  <2>1. CASE cmd \in Picks
    BY <2>1, SystemAssumption DEF Tuners, Commands, Ops, RxParams, TxParams
  <2>2. CASE cmd \notin Picks
    BY <2>2 DEF BrowserCommands, Cmd, Commands, Ops, RxParams, TxParams, NaN
  <2> QED
    BY <2>1, <2>2
<1>2. ASSUME NEW cmd \in BrowserCommands PROVE Whole(cmd) \in Messages
  BY SystemAssumption DEF BrowserMessages
<1>3. <<>> \in Messages
  BY SystemAssumption DEF BrowserMessages
<1>4. \A m \in Messages : m = <<>> \/ \E cmd \in BrowserCommands : m = Whole(cmd)
  BY SystemAssumption DEF BrowserMessages
<1> QED
  BY <1>1, <1>2, <1>3, <1>4

LEMMA AskFacts ==
  /\ Asks("INIT") = {} /\ Asks("IDLE") = {} /\ Asks("CLOSED") = {}
  /\ Asks("OPEN") = {"NEWCHANNEL"} /\ Asks("RXRATE") = {"RXRATE"}
  /\ Asks("RXFREQ") = {"RXFREQ"} /\ Asks("RXGAIN") = {"RXGAIN"}
  /\ Asks("CONNECTED") = {"RXCHANNEL"} /\ Asks("COMMANDING") = Tuners
BY DEF Asks

LEMMA SessionInit == SysInit => SysInv
<1> SUFFICES ASSUME SysInit PROVE SysInv
  OBVIOUS
<1>1. TypeInv /\ HandlerInv /\ Init
  BY TypeInit, HandlerInit DEF SysInit
<1>2. BrowserTypes
  <2>1. cmdQueue \in [Clients -> Seq(Picks)]
    BY DEF SysInit
  <2>2. wanted \in [Clients -> [Tuners -> Int]]
    BY DEF SysInit
  <2>3. state \in [Clients -> States] /\ uid \in [Clients -> Int] /\ tunes \in Nat
    BY DEF SysInit, States
  <2> QED
    BY <2>1, <2>2, <2>3 DEF BrowserTypes
<1>3. Queues
  BY DEF Queues, SysInit, Distinct
<1>4. \A k \in Socks : pc[k] = "idle" /\ ~ReplyDue(k)
  BY <1>1 DEF Init, ReplyDue
<1>5. Wires
  BY <1>1, <1>4, CommandAssumption DEF Wires, OneUnderWay, InHandler, Init
<1>6. \A k \in Used : Handled(k)
  BY <1>1, <1>4, UsedFacts DEF Handled, Init
<1>7. Device
  BY <1>1 DEF Device, Init
<1> QED
  BY <1>1, <1>2, <1>3, <1>5, <1>6, <1>7 DEF SysInv, SessionInv

-----------------------------------------------------------------------------
(***************************************************************************)
(* What the handlers of a browser do.                                      *)
(***************************************************************************)
\* The browser takes what it got, if anything, and asks for cmd, or rests.
Asking(c, s, cmd) ==
  /\ toServer' = [toServer EXCEPT ![c] = <<Whole(cmd)>>]
  /\ toClient' = [toClient EXCEPT ![c] = <<>>]
  /\ state' = [state EXCEPT ![c] = s]
  /\ UNCHANGED <<serverVars, askVars>>
Resting(c) ==
  /\ toServer' = toServer
  /\ toClient' = [toClient EXCEPT ![c] = <<>>]
  /\ state' = [state EXCEPT ![c] = "IDLE"]
  /\ UNCHANGED <<serverVars, askVars>>

LEMMA SendFacts ==
  ASSUME TypeOK, NEW c \in Clients, toServer[c] = <<>>, NEW cmd, Send(c, cmd)
  PROVE  toServer' = [toServer EXCEPT ![c] = <<Whole(cmd)>>]
BY DEF Send

LEMMA Calm ==
  ASSUME SysInv, NEW c \in Clients, state[c] \in {"INIT", "IDLE"}
  PROVE  /\ toServer[c] = <<>> /\ toClient[c] = <<>> /\ ~InHandler(c)
         /\ toClient = [toClient EXCEPT ![c] = <<>>]
<1>1. OneUnderWay(c)
  BY DEF SysInv, SessionInv, Wires
<1>2. toServer[c] = <<>> /\ toClient[c] = <<>> /\ ~InHandler(c)
  BY <1>1, AskFacts DEF OneUnderWay
<1>3. toClient \in [Clients -> Seq(Replies)]
  BY DEF SysInv, TypeInv, TypeOK
<1> QED
  BY <1>2, <1>3

LEMMA GotFacts ==
  ASSUME SysInv, NEW c \in Clients, NEW s, Got(c, s), s # "CLOSED"
  PROVE  /\ toServer[c] = <<>> /\ ~InHandler(c)
         /\ Head(toClient[c]).op \in Asks(s)
         /\ toClient' = [toClient EXCEPT ![c] = <<>>]
         /\ UNCHANGED <<serverVars, askVars, tunes>>
<1>1. OneUnderWay(c) /\ state[c] = s
  BY DEF SysInv, SessionInv, Wires, Got
<1>2. /\ toServer[c] = <<>> /\ ~InHandler(c) /\ Len(toClient[c]) = 1
      /\ Head(toClient[c]).op \in Asks(s)
  BY <1>1 DEF OneUnderWay, Got
<1>3. toClient[c] \in Seq(Replies)
  BY DEF SysInv, TypeInv, TypeOK
<1>4. Tail(toClient[c]) = <<>>
  <2>1. toClient[c] # <<>>
    BY <1>2
  <2>2. Tail(toClient[c]) \in Seq(Replies) /\ Len(Tail(toClient[c])) = 0
    BY <1>2, <1>3, <2>1, HeadTailProperties
  <2> QED
    BY <2>2, EmptySeq
<1> QED
  BY <1>2, <1>4 DEF Got

\* Each handler, by the state it is called in.
LEMMA OpenFacts ==
  ASSUME SysInv, NEW c \in Clients, OnOpen(c)
  PROVE  Asking(c, "OPEN", Cmd("NEWCHANNEL", 0))
<1>1. state[c] = "INIT" /\ Send(c, Cmd("NEWCHANNEL", 0))
  BY DEF OnOpen
<1>2. toServer[c] = <<>> /\ toClient = [toClient EXCEPT ![c] = <<>>]
  BY <1>1, Calm
<1>3. toServer' = [toServer EXCEPT ![c] = <<Whole(Cmd("NEWCHANNEL", 0))>>]
  BY <1>1, <1>2, SendFacts DEF SysInv, TypeInv
<1> QED
  BY <1>2, <1>3 DEF OnOpen, To, Asking

LEMMA ScriptFacts ==
  ASSUME SysInv, NEW c \in Clients
  PROVE  /\ OnChannel(c) => Asking(c, "RXRATE", Cmd("RXRATE", 1))
         /\ OnRate(c) => Asking(c, "RXFREQ", Cmd("RXFREQ", 1))
         /\ OnFreq(c) => Asking(c, "RXGAIN", Cmd("RXGAIN", 1))
         /\ OnGain(c) => Asking(c, "CONNECTED", Cmd("RXCHANNEL", 0))
         /\ OnBound(c) => Resting(c)
         /\ OnChannel(c) \/ OnRate(c) \/ OnFreq(c) \/ OnGain(c) \/ OnBound(c)
              => cmdQueue' = cmdQueue
<1> USE DEF SysInv, TypeInv
<1>1. ASSUME state[c] \in {"RXRATE", "RXFREQ"}, NEW cmd, NEW s, toServer[c] = <<>>,
             SendCommand(c, cmd, s)
      PROVE  /\ toServer' = [toServer EXCEPT ![c] = <<Whole(cmd)>>]
             /\ state' = [state EXCEPT ![c] = s] /\ cmdQueue' = cmdQueue
  <2>1. cmdQueue[c] = <<>>
    BY <1>1 DEF SessionInv, Queues
  <2>2. Queued(cmdQueue[c], cmd) = <<cmd>>
    BY <2>1, QueuedEmpty
  <2>3. Send(c, cmd) /\ cmdQueue' = [cmdQueue EXCEPT ![c] = <<>>] /\ To(c, s)
    BY <1>1, <2>2 DEF SendCommand
  <2>4. cmdQueue' = cmdQueue
    BY <2>1, <2>3 DEF SessionInv, BrowserTypes
  <2> QED
    BY <1>1, <2>3, <2>4, SendFacts DEF To
<1>2. CASE OnChannel(c)
  BY <1>2, GotFacts, SendFacts DEF OnChannel, OnRate, OnFreq, OnGain, OnBound,
     Got, To, Asking
<1>3. CASE OnRate(c)
  BY <1>1, <1>3, GotFacts DEF OnChannel, OnRate, OnFreq, OnGain, OnBound, Got, Asking
<1>4. CASE OnFreq(c)
  BY <1>1, <1>4, GotFacts DEF OnChannel, OnRate, OnFreq, OnGain, OnBound, Got, Asking
<1>5. CASE OnGain(c)
  BY <1>5, GotFacts, SendFacts DEF OnChannel, OnRate, OnFreq, OnGain, OnBound,
     Got, To, Asking
<1>6. CASE OnBound(c)
  BY <1>6, GotFacts DEF OnChannel, OnRate, OnFreq, OnGain, OnBound, Got, To, Resting
<1> QED
  BY <1>2, <1>3, <1>4, <1>5, <1>6

LEMMA ReplyFacts ==
  ASSUME SysInv, NEW c \in Clients, OnReply(c)
  PROVE  \/ cmdQueue[c] = <<>> /\ Resting(c) /\ cmdQueue' = cmdQueue
         \/ /\ cmdQueue[c] # <<>> /\ Asking(c, "COMMANDING", Head(cmdQueue[c]))
            /\ cmdQueue' = [cmdQueue EXCEPT ![c] = Tail(@)]
<1>1. Got(c, "COMMANDING") /\ DeQCommand(c)
  BY DEF OnReply
<1>2. /\ toServer[c] = <<>> /\ toClient' = [toClient EXCEPT ![c] = <<>>]
      /\ UNCHANGED <<serverVars, askVars>>
  BY <1>1, GotFacts
<1>3. CASE cmdQueue[c] = <<>>
  BY <1>1, <1>2, <1>3 DEF DeQCommand, To, Resting
<1>4. CASE cmdQueue[c] # <<>>
  <2>1. Send(c, Head(cmdQueue[c]))
    BY <1>1, <1>4 DEF DeQCommand
  <2>2. toServer' = [toServer EXCEPT ![c] = <<Whole(Head(cmdQueue[c]))>>]
    BY <1>2, <2>1, SendFacts DEF SysInv, TypeInv
  <2> QED
    BY <1>1, <1>2, <1>4, <2>2 DEF DeQCommand, To, Asking
<1> QED
  BY <1>3, <1>4

LEMMA TuneFacts ==
  ASSUME SysInv, NEW c \in Clients, Tune(c)
  PROVE  \E p \in Picks :
           /\ wanted' = [wanted EXCEPT ![c][p.op] = p.arg]
           /\ \/ /\ state[c] = "IDLE" /\ Asking(c, "COMMANDING", p)
                 /\ cmdQueue' = cmdQueue
              \/ /\ state[c] = "COMMANDING"
                 /\ cmdQueue' = [cmdQueue EXCEPT ![c] = Queued(@, p)]
                 /\ UNCHANGED <<vars, state>>
<1>1. PICK p \in Picks :
        /\ wanted' = [wanted EXCEPT ![c][p.op] = p.arg]
        /\ IF state[c] # "COMMANDING"
           THEN SendCommand(c, p, "COMMANDING")
           ELSE /\ cmdQueue' = [cmdQueue EXCEPT ![c] = Queued(@, p)]
                /\ UNCHANGED <<state, toServer>>
  BY DEF Tune
<1>2. CASE state[c] = "COMMANDING"
  <2>1. UNCHANGED <<vars, state>>
    BY <1>1, <1>2 DEF Tune, vars
  <2> QED
    BY <1>1, <1>2, <2>1
<1>3. CASE state[c] = "IDLE"
  <2>1. cmdQueue[c] = <<>> /\ cmdQueue \in [Clients -> Seq(Picks)]
    BY <1>3 DEF SysInv, SessionInv, Queues, BrowserTypes
  <2>2. Queued(cmdQueue[c], p) = <<p>>
    BY <2>1, QueuedEmpty
  <2>3. /\ Send(c, p) /\ cmdQueue' = [cmdQueue EXCEPT ![c] = <<>>]
        /\ state' = [state EXCEPT ![c] = "COMMANDING"]
    BY <1>1, <1>3, <2>2 DEF SendCommand, To
  <2>4. cmdQueue' = cmdQueue
    BY <2>1, <2>3
  <2>5. toServer[c] = <<>> /\ toClient = [toClient EXCEPT ![c] = <<>>]
    BY <1>3, Calm
  <2>6. toServer' = [toServer EXCEPT ![c] = <<Whole(p)>>]
    BY <2>3, <2>5, SendFacts DEF SysInv, TypeInv
  <2>7. Asking(c, "COMMANDING", p)
    BY <2>3, <2>5, <2>6 DEF Asking, Tune
  <2> QED
    <3> WITNESS p \in Picks
    <3> QED
      BY <1>1, <1>3, <2>4, <2>7
<1> QED
  BY <1>2, <1>3 DEF Tune

-----------------------------------------------------------------------------
(***************************************************************************)
(* The browsers keep the invariant.                                        *)
(***************************************************************************)
LEMMA ServerKept ==
  ASSUME TypeInv, HandlerInv, UNCHANGED <<serverVars, askVars>>,
         toServer' \in [Clients -> Seq(Messages)],
         toClient' \in [Clients -> Seq(Replies)]
  PROVE  TypeInv' /\ HandlerInv'
<1>1. TypeOK'
  BY DEF TypeInv, TypeOK, serverVars
<1>2. DataTypes' /\ Counted' /\ HandlerInv'
  BY DEF TypeInv, DataTypes, Counted, Numbering, HandlerInv, serverVars
<1> QED
  BY <1>1, <1>2 DEF TypeInv

LEMMA BrowserStep ==
  ASSUME SysInv, NEW c \in Clients, NEW s \in States, s # "INIT",
         state[c] # "CLOSED", state' = [state EXCEPT ![c] = s],
         UNCHANGED <<serverVars, askVars>>,
         toServer' \in [Clients -> Seq(Messages)],
         toClient' \in [Clients -> Seq(Replies)],
         \A d \in Clients \ {c} :
           toServer'[d] = toServer[d] /\ toClient'[d] = toClient[d],
         s # "CLOSED" => ~InHandler(c) /\ OneUnderWay(c)',
         BrowserTypes', Queues'
  PROVE  SysInv'
<1> USE DEF serverVars
<1>1. TypeInv' /\ HandlerInv'
  BY ServerKept DEF SysInv
<1>2. state \in [Clients -> States] /\ state'[c] = s
      /\ \A d \in Clients \ {c} : state'[d] = state[d]
  BY DEF SysInv, SessionInv, BrowserTypes
<1>3. Wires'
  <2> SUFFICES ASSUME NEW d \in Clients, state'[d] # "CLOSED"
               PROVE  OneUnderWay(d)'
    BY DEF Wires
  <2>1. CASE d = c
    BY <1>2, <2>1
  <2>2. CASE d # c
    <3>1. state[d] # "CLOSED" /\ OneUnderWay(d)
      BY <1>2, <2>2 DEF SysInv, SessionInv, Wires
    <3>2. InHandler(d)' <=> InHandler(d)
      BY DEF InHandler, ReplyDue, Queried
    <3> QED
      BY <1>2, <2>2, <3>1, <3>2 DEF OneUnderWay
  <2> QED
    BY <2>1, <2>2
<1>4. ASSUME NEW k \in Socks, k \in Used PROVE Handled(k)'
  <2>1. Handled(k) /\ asker[k] \in Clients
    BY <1>4 DEF SysInv, SessionInv, TypeInv, TypeOK
  <2>2. CASE asker[k] # c
    BY <1>2, <2>1, <2>2 DEF Handled, AskedBy, ReplyDue, Queried
  <2>3. CASE asker[k] = c /\ pc[k] = "idle"
    BY <1>2, <2>1, <2>3 DEF Handled, AskedBy, ReplyDue, Queried
  <2>4. CASE asker[k] = c /\ pc[k] # "idle"
    <3>1. SockOf[c] = k
      BY <2>4 DEF SysInv, HandlerInv
    <3>2. ReplyDue(k) => s = "CLOSED"
      BY <2>4, <3>1 DEF InHandler
    <3>3. pc[k] = "getline" => s = "CLOSED"
      BY <3>2 DEF ReplyDue
    <3>4. ReplyDue(k)' <=> ReplyDue(k)
      BY DEF ReplyDue, Queried
    <3> QED
      BY <1>2, <2>1, <2>4, <3>2, <3>3, <3>4 DEF Handled, AskedBy
  <2> QED
    BY <2>2, <2>3, <2>4
<1>5. Device'
  BY <1>2 DEF SysInv, SessionInv, Device
<1> QED
  BY <1>1, <1>3, <1>4, <1>5, UsedFacts DEF SysInv, SessionInv

LEMMA AskingKeeps ==
  ASSUME SysInv, NEW c \in Clients, NEW s \in States, NEW cmd \in BrowserCommands,
         cmd.op \in Asks(s), state[c] # "CLOSED", toServer[c] = <<>>,
         ~InHandler(c), Asking(c, s, cmd), BrowserTypes', Queues'
  PROVE  SysInv'
<1>1. TypeOK /\ state \in [Clients -> States]
  BY DEF SysInv, TypeInv, SessionInv, BrowserTypes
<1>2. s \notin {"INIT", "IDLE", "CLOSED"}
  BY AskFacts
<1>3. /\ toServer' = [toServer EXCEPT ![c] = <<Whole(cmd)>>]
      /\ toClient' = [toClient EXCEPT ![c] = <<>>]
      /\ state' = [state EXCEPT ![c] = s]
      /\ UNCHANGED <<serverVars, askVars>>
  BY DEF Asking
<1>4. toServer' \in [Clients -> Seq(Messages)]
  BY <1>1, <1>3, CommandFacts DEF TypeOK
<1>5. toClient' \in [Clients -> Seq(Replies)]
  BY <1>1, <1>3 DEF TypeOK
<1>6. /\ toServer'[c] = <<Whole(cmd)>> /\ toClient'[c] = <<>> /\ state'[c] = s
      /\ \A d \in Clients \ {c} :
           toServer'[d] = toServer[d] /\ toClient'[d] = toClient[d]
  BY <1>1, <1>3 DEF TypeOK
<1>7. ~InHandler(c)'
  BY <1>3 DEF InHandler, ReplyDue, Queried, serverVars
<1>8. OneUnderWay(c)'
  BY <1>2, <1>6, <1>7 DEF OneUnderWay
<1> QED
  BY <1>2, <1>3, <1>4, <1>5, <1>6, <1>8, BrowserStep

LEMMA RestingKeeps ==
  ASSUME SysInv, NEW c \in Clients, state[c] # "CLOSED", toServer[c] = <<>>,
         ~InHandler(c), Resting(c), BrowserTypes', Queues'
  PROVE  SysInv'
<1>1. TypeOK /\ state \in [Clients -> States]
  BY DEF SysInv, TypeInv, SessionInv, BrowserTypes
<1>2. /\ toServer' = toServer
      /\ toClient' = [toClient EXCEPT ![c] = <<>>]
      /\ state' = [state EXCEPT ![c] = "IDLE"]
      /\ UNCHANGED <<serverVars, askVars>>
  BY DEF Resting
<1>3. toServer' \in [Clients -> Seq(Messages)] /\ toClient' \in [Clients -> Seq(Replies)]
  BY <1>1, <1>2 DEF TypeOK
<1>4. /\ toServer'[c] = <<>> /\ toClient'[c] = <<>> /\ state'[c] = "IDLE"
      /\ \A d \in Clients \ {c} :
           toServer'[d] = toServer[d] /\ toClient'[d] = toClient[d]
  BY <1>1, <1>2 DEF TypeOK
<1>5. ~InHandler(c)'
  BY <1>2 DEF InHandler, ReplyDue, Queried, serverVars
<1>6. OneUnderWay(c)'
  BY <1>4, <1>5 DEF OneUnderWay
<1> QED
  BY <1>2, <1>3, <1>4, <1>6, BrowserStep DEF States

LEMMA ScriptTypes ==
  ASSUME SysInv, NEW c \in Clients,
         OnOpen(c) \/ OnChannel(c) \/ OnRate(c) \/ OnFreq(c) \/ OnGain(c) \/ OnBound(c),
         NEW s \in States, state' = [state EXCEPT ![c] = s], cmdQueue' = cmdQueue,
         state[c] \notin {"COMMANDING", "CLOSED"}
  PROVE  BrowserTypes' /\ Queues'
<1>1. BrowserTypes /\ Queues
  BY DEF SysInv, SessionInv
<1>2. Queues'
  BY <1>1 DEF Queues, BrowserTypes
<1>3. uid' \in [Clients -> Int] /\ tunes' \in Nat
  <2>1. CASE OnChannel(c)
    <3>1. toClient[c] \in Seq(Replies) /\ toClient[c] # <<>>
      BY <2>1 DEF OnChannel, Got, SysInv, TypeInv, TypeOK
    <3>2. Head(toClient[c]).val \in Int
      BY <3>1, HeadTailProperties DEF Replies
    <3> QED
      BY <1>1, <2>1, <3>2 DEF OnChannel, Got, BrowserTypes
  <2>2. CASE OnOpen(c) \/ OnRate(c) \/ OnFreq(c) \/ OnGain(c) \/ OnBound(c)
    BY <1>1, <2>2 DEF OnOpen, OnRate, OnFreq, OnGain, OnBound, Got, BrowserTypes
  <2> QED
    BY <2>1, <2>2
<1>4. wanted' \in [Clients -> [Tuners -> Int]]
  BY <1>1 DEF OnOpen, OnChannel, OnRate, OnFreq, OnGain, OnBound, BrowserTypes
<1>5. state' \in [Clients -> States] /\ cmdQueue' \in [Clients -> Seq(Picks)]
  BY <1>1 DEF BrowserTypes
<1> QED
  BY <1>2, <1>3, <1>4, <1>5 DEF BrowserTypes

LEMMA ScriptKeeps ==
  ASSUME SysInv, NEW c \in Clients,
         OnOpen(c) \/ OnChannel(c) \/ OnRate(c) \/ OnFreq(c) \/ OnGain(c) \/ OnBound(c)
  PROVE  SysInv'
<1>1. /\ \A o \in {"NEWCHANNEL", "RXCHANNEL"} : Cmd(o, 0) \in BrowserCommands
      /\ \A o \in {"RXRATE", "RXFREQ", "RXGAIN"} : Cmd(o, 1) \in BrowserCommands
      /\ \A o, a : Cmd(o, a).op = o
  BY DEF BrowserCommands, Cmd
<1>2. CASE OnOpen(c)
  <2>1. Asking(c, "OPEN", Cmd("NEWCHANNEL", 0)) /\ cmdQueue' = cmdQueue
        /\ state[c] = "INIT"
    BY <1>2, OpenFacts DEF OnOpen
  <2>2. toServer[c] = <<>> /\ ~InHandler(c)
    BY <2>1, Calm
  <2> QED
    BY <1>1, <1>2, <2>1, <2>2, AskFacts, AskingKeeps, ScriptTypes DEF Asking, States
<1>3. CASE OnBound(c)
  <2>1. Resting(c) /\ cmdQueue' = cmdQueue /\ Got(c, "CONNECTED")
    BY <1>3, ScriptFacts DEF OnBound
  <2>2. toServer[c] = <<>> /\ ~InHandler(c) /\ state[c] = "CONNECTED"
    BY <2>1, GotFacts DEF Got
  <2> QED
    BY <1>3, <2>1, <2>2, RestingKeeps, ScriptTypes DEF Resting, States
<1>4. ASSUME NEW t \in {"OPEN", "RXRATE", "RXFREQ", "RXGAIN"}, Got(c, t),
             OnChannel(c) \/ OnRate(c) \/ OnFreq(c) \/ OnGain(c),
             NEW s \in States, NEW cmd \in BrowserCommands, cmd.op \in Asks(s),
             Asking(c, s, cmd)
      PROVE  SysInv'
  <2>1. toServer[c] = <<>> /\ ~InHandler(c) /\ state[c] = t
    BY <1>4, GotFacts DEF Got
  <2>2. cmdQueue' = cmdQueue
    BY <1>4, ScriptFacts
  <2> QED
    BY <1>4, <2>1, <2>2, AskingKeeps, ScriptTypes DEF Asking
<1>5. CASE OnChannel(c)
  BY <1>1, <1>4, <1>5, AskFacts, ScriptFacts DEF OnChannel, States
<1>6. CASE OnRate(c)
  BY <1>1, <1>4, <1>6, AskFacts, ScriptFacts DEF OnRate, States
<1>7. CASE OnFreq(c)
  BY <1>1, <1>4, <1>7, AskFacts, ScriptFacts DEF OnFreq, States
<1>8. CASE OnGain(c)
  BY <1>1, <1>4, <1>8, AskFacts, ScriptFacts DEF OnGain, States
<1> QED
  BY <1>2, <1>3, <1>5, <1>6, <1>7, <1>8

LEMMA ReplyKeeps ==
  ASSUME SysInv, NEW c \in Clients, OnReply(c) PROVE SysInv'
<1>1. Got(c, "COMMANDING") /\ UNCHANGED <<uid, wanted>>
  BY DEF OnReply
<1>2. toServer[c] = <<>> /\ ~InHandler(c) /\ state[c] = "COMMANDING" /\ tunes' = tunes
  BY <1>1, GotFacts DEF Got
<1>3. BrowserTypes /\ Queues
  BY DEF SysInv, SessionInv
<1>4. CASE cmdQueue[c] = <<>> /\ Resting(c) /\ cmdQueue' = cmdQueue
  <2>1. BrowserTypes' /\ Queues'
    BY <1>1, <1>2, <1>3, <1>4 DEF BrowserTypes, Queues, Resting, States
  <2> QED
    BY <1>2, <1>4, <2>1, RestingKeeps
<1>5. CASE /\ cmdQueue[c] # <<>> /\ Asking(c, "COMMANDING", Head(cmdQueue[c]))
           /\ cmdQueue' = [cmdQueue EXCEPT ![c] = Tail(@)]
  <2>1. cmdQueue[c] \in Seq(Picks) /\ Distinct(cmdQueue[c])
    BY <1>3 DEF BrowserTypes, Queues
  <2>2. /\ Tail(cmdQueue[c]) \in Seq(Picks) /\ Distinct(Tail(cmdQueue[c]))
        /\ Head(cmdQueue[c]) \in Picks
    BY <1>5, <2>1, TailFacts
  <2>3. BrowserTypes'
    BY <1>1, <1>2, <1>3, <1>5, <2>2 DEF BrowserTypes, Asking, States
  <2>4. Queues'
    BY <1>3, <1>5, <2>2 DEF BrowserTypes, Queues, Asking
  <2>5. Head(cmdQueue[c]) \in BrowserCommands /\ Head(cmdQueue[c]).op \in Tuners
    BY <2>2, SystemAssumption DEF BrowserCommands
  <2> QED
    BY <1>2, <1>5, <2>3, <2>4, <2>5, AskFacts, AskingKeeps DEF States
<1> QED
  BY <1>4, <1>5, ReplyFacts

LEMMA TuneKeeps ==
  ASSUME SysInv, NEW c \in Clients, Tune(c) PROVE SysInv'
<1>1. PICK p \in Picks :
        /\ wanted' = [wanted EXCEPT ![c][p.op] = p.arg]
        /\ \/ /\ state[c] = "IDLE" /\ Asking(c, "COMMANDING", p)
              /\ cmdQueue' = cmdQueue
           \/ /\ state[c] = "COMMANDING"
              /\ cmdQueue' = [cmdQueue EXCEPT ![c] = Queued(@, p)]
              /\ UNCHANGED <<vars, state>>
  BY TuneFacts
<1>2. p.op \in Tuners /\ p.arg \in Int /\ p \in BrowserCommands
  BY SystemAssumption DEF BrowserCommands
<1>3. BrowserTypes /\ Queues
  BY DEF SysInv, SessionInv
<1>4. wanted' \in [Clients -> [Tuners -> Int]] /\ uid' \in [Clients -> Int]
      /\ tunes' \in Nat
  <2>1. wanted[c] \in [Tuners -> Int] /\ wanted \in [Clients -> [Tuners -> Int]]
    BY <1>3 DEF BrowserTypes
  <2>2. [wanted[c] EXCEPT ![p.op] = p.arg] \in [Tuners -> Int]
    BY <1>2, <2>1
  <2>3. wanted' = [wanted EXCEPT ![c] = [wanted[c] EXCEPT ![p.op] = p.arg]]
    BY <1>1
  <2>4. wanted' \in [Clients -> [Tuners -> Int]]
    BY <2>1, <2>2, <2>3
  <2> QED
    BY <1>3, <2>4 DEF BrowserTypes, Tune
<1>5. CASE state[c] = "IDLE" /\ Asking(c, "COMMANDING", p) /\ cmdQueue' = cmdQueue
  <2>1. BrowserTypes' /\ Queues'
    BY <1>3, <1>4, <1>5 DEF BrowserTypes, Queues, Asking, States
  <2>2. toServer[c] = <<>> /\ ~InHandler(c)
    BY <1>5, Calm
  <2> QED
    BY <1>2, <1>5, <2>1, <2>2, AskFacts, AskingKeeps DEF States
<1>6. CASE /\ state[c] = "COMMANDING"
           /\ cmdQueue' = [cmdQueue EXCEPT ![c] = Queued(@, p)]
           /\ UNCHANGED <<vars, state>>
  <2>1. cmdQueue[c] \in Seq(Picks) /\ Distinct(cmdQueue[c])
    BY <1>3 DEF BrowserTypes, Queues
  <2>2. Queued(cmdQueue[c], p) \in Seq(Picks) /\ Distinct(Queued(cmdQueue[c], p))
    BY <2>1, QueuedFacts
  <2>3. BrowserTypes' /\ Queues'
    BY <1>3, <1>4, <1>6, <2>2 DEF BrowserTypes, Queues
  <2>4. TypeInv' /\ HandlerInv'
    BY <1>6, ServerKept DEF SysInv, TypeInv, TypeOK, vars
  <2>5. Wires' /\ Device' /\ \A k \in Used : Handled(k)'
    BY <1>6 DEF vars, serverVars, SysInv, SessionInv, Wires, OneUnderWay, InHandler,
       ReplyDue, Queried, Device, Handled, AskedBy
  <2> QED
    BY <2>3, <2>4, <2>5 DEF SysInv, SessionInv
<1> QED
  BY <1>1, <1>5, <1>6

LEMMA LeaveKeeps ==
  ASSUME SysInv, NEW c \in Clients, Leave(c) PROVE SysInv'
<1>1. /\ state[c] # "CLOSED" /\ state' = [state EXCEPT ![c] = "CLOSED"]
      /\ toServer' = [toServer EXCEPT ![c] = Append(@, <<>>)]
      /\ UNCHANGED <<serverVars, askVars, toClient, cmdQueue, uid, wanted, tunes>>
  BY DEF Leave, To
<1>2. BrowserTypes' /\ Queues'
  BY <1>1 DEF SysInv, SessionInv, BrowserTypes, Queues, States
<1>3. toServer' \in [Clients -> Seq(Messages)] /\ toClient' \in [Clients -> Seq(Replies)]
  BY <1>1, CommandFacts DEF SysInv, TypeInv, TypeOK
<1>4. \A d \in Clients \ {c} :
        toServer'[d] = toServer[d] /\ toClient'[d] = toClient[d]
  BY <1>1 DEF SysInv, TypeInv, TypeOK
<1> QED
  BY <1>1, <1>2, <1>3, <1>4, BrowserStep DEF States

LEMMA BrowserKeeps ==
  ASSUME SysInv, NEW c \in Clients, OnOpen(c) \/ OnMessage(c) \/ Tune(c) \/ Leave(c)
  PROVE  SysInv'
BY ScriptKeeps, ReplyKeeps, TuneKeeps, LeaveKeeps DEF OnMessage

-----------------------------------------------------------------------------
(***************************************************************************)
(* The server keeps the invariant.  Of its commands the browsers use five, *)
(* and none of those is refused.                                           *)
(***************************************************************************)
LEMMA WholeFacts ==
  /\ \A cmd : Whole(cmd) # <<>> /\ Head(Whole(cmd)).cmd = cmd
  /\ \A a, b : Whole(a) = Whole(b) => a = b
<1>1. ASSUME NEW cmd
      PROVE  Len(Whole(cmd)) = 1 /\ Whole(cmd)[1].cmd = cmd /\ Head(Whole(cmd)).cmd = cmd
  BY DEF Whole
<1>2. ASSUME NEW cmd PROVE Whole(cmd) # <<>>
  <2>1. Len(<<>>) = 0
    OBVIOUS
  <2> QED
    BY <1>1, <2>1
<1>3. ASSUME NEW a, NEW b, Whole(a) = Whole(b) PROVE a = b
  <2>1. Whole(a)[1].cmd = a /\ Whole(b)[1].cmd = b
    BY <1>1
  <2> QED
    BY <1>3, <2>1
<1> QED
  BY <1>1, <1>2, <1>3

LEMMA InsertFacts ==
  ASSUME SysInv, NEW k \in Socks, Insert(k)
  PROVE  \E c \in Clients :
           /\ SockOf[c] = k /\ toServer[c] # <<>> /\ state[c] # "INIT"
           /\ asker' = [asker EXCEPT ![k] = c]
           /\ toServer' = [toServer EXCEPT ![c] = Tail(@)]
           /\ \/ eof /\ stream' = <<>>
              \/ ~eof /\ stream' = <<>> /\ state[c] = "CLOSED"
              \/ ~eof /\ \E cmd \in BrowserCommands :
                   /\ Head(toServer[c]) = Whole(cmd) /\ AskedBy(c, cmd)
                   /\ stream' = <<Piece(cmd, c)>>
<1>1. PICK c \in Clients :
        /\ SockOf[c] = k /\ toServer[c] # <<>>
        /\ stream' = IF eof THEN stream
                     ELSE stream \o Signed(Head(toServer[c]), c)
        /\ asker' = [asker EXCEPT ![k] = c]
        /\ toServer' = [toServer EXCEPT ![c] = Tail(@)]
  BY DEF Insert
<1>2. stream = <<>>
  BY UsedFacts DEF Insert, SysInv, SessionInv, Handled
<1>3. toServer[c] \in Seq(Messages)
  BY DEF SysInv, TypeInv, TypeOK
<1> DEFINE m == Head(toServer[c])
<1>4. m \in Messages
  BY <1>1, <1>3
<1>5. state[c] # "CLOSED" =>
        \E cmd \in BrowserCommands :
          m = Whole(cmd) /\ cmd.op \in Asks(state[c])
  BY <1>1 DEF SysInv, SessionInv, Wires, OneUnderWay
<1>6. state[c] # "INIT"
  BY <1>5, AskFacts
<1>7. CASE eof
  BY <1>1, <1>2, <1>6, <1>7
<1>8. CASE ~eof
  <2>1. stream' = Signed(m, c)
    <3>1. Signed(m, c) \in Seq(Pieces)
      BY <1>4, SignedType
    <3> HIDE DEF m
    <3> QED
      BY <1>1, <1>2, <1>8, <3>1 DEF m
  <2>2. CASE m = <<>>
    <3>1. stream' = <<>>
      BY <2>1, <2>2 DEF Signed
    <3>2. state[c] = "CLOSED"
      BY <1>5, <2>2, WholeFacts
    <3> QED
      BY <1>1, <1>6, <1>8, <3>1, <3>2
  <2>3. CASE m # <<>>
    <3>1. PICK cmd \in BrowserCommands : m = Whole(cmd)
      BY <1>4, <2>3, CommandFacts
    <3>2. AskedBy(c, cmd)
      BY <1>5, <3>1, WholeFacts DEF AskedBy
    <3>3. stream' = <<Piece(cmd, c)>>
      BY <2>1, <3>1 DEF Signed, Whole, Piece
    <3> QED
      BY <1>1, <1>6, <1>8, <3>1, <3>2, <3>3
  <2> QED
    BY <2>2, <2>3
<1> QED
  BY <1>7, <1>8

LEMMA GetLineFacts ==
  ASSUME SysInv, NEW k \in Socks, GetLine(k)
  PROVE  \E cmd \in BrowserCommands :
           /\ stream = <<Piece(cmd, asker[k])>> /\ AskedBy(asker[k], cmd)
           /\ stream' = <<>> /\ eof = FALSE /\ eof' = FALSE
           /\ line' = [line EXCEPT ![k] = [cmd |-> cmd, by |-> asker[k]]]
<1>1. PICK cmd \in BrowserCommands :
        stream = <<Piece(cmd, asker[k])>> /\ AskedBy(asker[k], cmd)
  <2>1. k \in Used
    BY UsedFacts DEF GetLine, SysInv, TypeInv
  <2> QED
    BY <2>1 DEF GetLine, SysInv, SessionInv, Handled
<1>2. Newlines = {1}
  BY <1>1 DEF Newlines, Piece
<1>3. LineLength = 1
  BY <1>2 DEF LineLength
<1>4. stream \in Seq(Pieces)
  BY DEF SysInv, TypeInv, TypeOK, Pieces
<1> DEFINE ps == SubSeq(stream, 1, 1)
           rest == SubSeq(stream, 2, Len(stream))
<1>5. /\ Len(stream) = 1 /\ stream[1] = Piece(cmd, asker[k])
      /\ Len(ps) = 1 /\ ps[1] = Piece(cmd, asker[k])
      /\ rest \in Seq(Pieces) /\ Len(rest) = 0
  <2>1. Len(stream) = 1 /\ stream[1] = Piece(cmd, asker[k])
    BY <1>1
  <2> QED
    BY <1>4, <2>1
<1>6. Parsed(ps) = cmd /\ stream[1].by = asker[k]
  BY <1>5 DEF Parsed, Piece
<1>7. /\ stream' = <<>> /\ eof' = FALSE
      /\ line' = [line EXCEPT ![k] = [cmd |-> cmd, by |-> asker[k]]]
  <2>1. stream' = rest
    BY <1>3 DEF GetLine
  <2>2. rest = <<>>
    BY <1>5, EmptySeq
  <2>3. line' = [line EXCEPT ![k] = [cmd |-> Parsed(ps), by |-> stream[1].by]]
    BY <1>3 DEF GetLine
  <2>4. eof' = FALSE
    BY <1>2 DEF GetLine
  <2> HIDE DEF ps, rest
  <2> QED
    BY <1>6, <2>1, <2>2, <2>3, <2>4
<1>8. eof = FALSE
  BY DEF GetLine, SysInv, TypeInv, TypeOK
<1> QED
  BY <1>1, <1>7, <1>8

\* The steps of the five commands.
Quiet(k) ==
  \/ NewChannel(k) \/ Number(k) \/ OpenRX(k) \/ StartRX(k) \/ SetParameter(k)
  \/ NoQuery(k)
Answers(k) == Return(k) \/ BindRX(k) \/ Query(k)

LEMMA NotRefused ==
  ASSUME SysInv, NEW k \in Socks, pc[k] = "execute"
  PROVE  /\ ~Throws(k) /\ ~NoDevice /\ ~ToProfile(k)
         /\ line[k].cmd.op \in {"NEWCHANNEL", "RXRATE", "RXFREQ", "RXGAIN",
                                "RXCHANNEL"}
<1>1. line[k].cmd \in BrowserCommands /\ device = "open" /\ ~profile[k]
  <2>1. k \in Used
    BY UsedFacts DEF SysInv, TypeInv
  <2> QED
    BY <2>1 DEF SysInv, SessionInv, Handled, Device
<1>2. /\ line[k].cmd.op \in {"NEWCHANNEL", "RXRATE", "RXFREQ", "RXGAIN",
                             "RXCHANNEL"}
      /\ Arg(k) # NaN /\ line[k].cmd.op = "RXCHANNEL" => Arg(k) = 0
  BY <1>1, CommandFacts DEF Arg
<1>3. 0 \in RxChans
  BY CommandAssumption DEF RxChans, StreamChans
<1> QED
  BY <1>1, <1>2, <1>3, CommandFacts DEF Throws, NoDevice, ToProfile,
     TxParams, Arg

LEMMA SessionDies ==
  ASSUME SysInv, Server
  PROVE  \/ \E k \in Socks : Dies(k)
         \/ Receive
         \/ \E k \in Socks :
              /\ k \in Used
              /\ \/ Insert(k) \/ GetLine(k) \/ GetLineFails(k)
                 \/ Quiet(k) \/ Answers(k)
<1>1. ASSUME NEW k \in Socks,
             \/ Refuse(k) \/ Channel(k) \/ BindTX(k) \/ DataType(k)
             \/ Disconnect(k) \/ Connect(k) \/ LoadProfile(k) \/ AskProfile(k)
             \/ Reset(k)
      PROVE  FALSE
  <2>3. CASE Reset(k)
    <3>1. k \in Used /\ line[k].cmd.op = "SDR_DISCONNECT" /\ pc[k] = "reset"
      BY <2>3, UsedFacts DEF Reset, SysInv, TypeInv, HandlerInv
    <3>2. line[k].cmd \in BrowserCommands
      BY <3>1 DEF SysInv, SessionInv, Handled
    <3> QED
      BY <3>1, <3>2, CommandFacts
  <2>4. SUFFICES ASSUME ~Reset(k) PROVE FALSE
    BY <2>3
  <2>1. pc[k] = "execute"
    BY <1>1, <2>4 DEF Refuse, Channel, BindTX, DataType, Disconnect, Connect,
       LoadProfile, AskProfile, At
  <2>2. ~Throws(k) /\ ~ToProfile(k) /\ line[k].cmd.op \in {"NEWCHANNEL", "RXRATE", "RXFREQ",
                                          "RXGAIN", "RXCHANNEL"}
    BY <2>1, NotRefused
  <2> QED
    BY <1>1, <2>2, <2>4 DEF Refuse, Channel, BindTX, DataType, Disconnect, Connect,
       LoadProfile, AskProfile, At
<1> QED
  BY <1>1, UsedSteps DEF Silent, Answer, Quiet, Answers, SysInv, TypeInv

LEMMA SessionSteps ==
  ASSUME SysInv, Server
  PROVE  \/ \E how \in {"exited", "crashed", "terminated"} : Ends(how)
         \/ \E k \in Socks :
              /\ k \in Used
              /\ \/ Insert(k) \/ GetLine(k) \/ GetLineFails(k)
                 \/ Quiet(k) \/ Answers(k)
<1>1. ASSUME NEW k \in Socks, Dies(k)
      PROVE  \E how \in {"exited", "crashed", "terminated"} : Ends(how)
  BY <1>1, DeathEnds
<1>2. CASE Receive
  BY <1>2 DEF Receive
<1> QED
  BY <1>1, <1>2, SessionDies

\* The process ends by no other step.
LEMMA StepsRun ==
  ASSUME NEW k \in Socks,
         \/ Insert(k) \/ GetLine(k) \/ GetLineFails(k) \/ Quiet(k) \/ Answers(k)
  PROVE  UNCHANGED <<proc, profile>>
BY DEF Insert, GetLine, GetLineFails, Quiet, NewChannel, Number, OpenRX,
   StartRX, SetParameter, NoQuery, Answers, Return, BindRX, Query

LEMMA InsertKeeps ==
  ASSUME SameSocket, SysInv, NEW k \in Socks, k \in Used,
         Insert(k), UNCHANGED browserVars
  PROVE  SessionInv'
<1> USE DEF browserVars
<1>1. PICK c \in Clients :
        /\ SockOf[c] = k /\ toServer[c] # <<>> /\ state[c] # "INIT"
        /\ asker' = [asker EXCEPT ![k] = c]
        /\ toServer' = [toServer EXCEPT ![c] = Tail(@)]
        /\ \/ eof /\ stream' = <<>>
           \/ ~eof /\ stream' = <<>> /\ state[c] = "CLOSED"
           \/ ~eof /\ \E cmd \in BrowserCommands :
                /\ Head(toServer[c]) = Whole(cmd) /\ AskedBy(c, cmd)
                /\ stream' = <<Piece(cmd, c)>>
  BY InsertFacts
<1>2. /\ UNCHANGED <<eof, line, device, profile, toClient>> /\ pc'[k] = "getline"
      /\ asker'[k] = c /\ \A j \in Used : j = k
      /\ \A d \in Clients : SockOf[d] = k
  BY <1>1, UsedFacts DEF Insert, Goto, SameSocket, SysInv, TypeInv, TypeOK
<1>3. BrowserTypes' /\ Queues' /\ Device'
  BY <1>2 DEF SysInv, SessionInv, BrowserTypes, Queues, Device
<1>4. Handled(k)'
  BY <1>1, <1>2 DEF Handled, AskedBy
<1>5. ASSUME NEW d \in Clients, state[d] # "CLOSED" PROVE OneUnderWay(d)'
  <2>1. OneUnderWay(d)
    BY <1>5 DEF SysInv, SessionInv, Wires
  <2>2. CASE d = c
    <3>1. PICK cmd : cmd.op \in Asks(state[d]) /\ toServer[d] = <<Whole(cmd)>>
      BY <1>1, <2>1, <2>2 DEF OneUnderWay
    <3>2. toServer'[d] = <<>> /\ toClient'[d] = <<>>
      BY <1>1, <1>2, <2>1, <2>2, <3>1 DEF OneUnderWay, SysInv, TypeInv, TypeOK
    <3>3. state'[d] \notin {"INIT", "IDLE"}
      BY <3>1, AskFacts
    <3> QED
      BY <3>2, <3>3 DEF OneUnderWay
  <2>3. CASE d # c
    <3>1. ~InHandler(d)'
      BY <1>2, <2>3 DEF InHandler
    <3>2. toServer'[d] = toServer[d]
      BY <1>1, <2>3 DEF SysInv, TypeInv, TypeOK
    <3> QED
      BY <1>2, <2>1, <3>1, <3>2 DEF OneUnderWay
  <2> QED
    BY <2>2, <2>3
<1> QED
  BY <1>2, <1>3, <1>4, <1>5 DEF SessionInv, Wires

\* What a step of a handler leaves as it was for everybody but its client.
LEMMA OthersKept ==
  ASSUME SameSocket, SysInv, NEW k \in Socks, k \in Used,
         NEW c \in Clients, c # asker[k],
         asker' = asker
  PROVE  ~InHandler(c) /\ ~InHandler(c)'
<1>1. SockOf[c] = k
  BY UsedFacts DEF SameSocket
<1> QED
  BY <1>1 DEF InHandler

LEMMA GetLineKeeps ==
  ASSUME SameSocket, SysInv, NEW k \in Socks, k \in Used,
         GetLine(k), UNCHANGED browserVars
  PROVE  SessionInv'
<1> USE DEF browserVars
<1>1. PICK cmd \in BrowserCommands :
        /\ stream = <<Piece(cmd, asker[k])>> /\ AskedBy(asker[k], cmd)
        /\ stream' = <<>> /\ eof = FALSE /\ eof' = FALSE
        /\ line' = [line EXCEPT ![k] = [cmd |-> cmd, by |-> asker[k]]]
  BY GetLineFacts
<1>2. /\ UNCHANGED <<asker, device, profile, toClient, toServer>>
      /\ pc[k] = "getline" /\ pc'[k] = "execute" /\ line'[k].cmd = cmd
      /\ \A j \in Used : j = k
  BY <1>1, UsedFacts DEF GetLine, Goto, SameSocket, SysInv, TypeInv, TypeOK
<1>3. BrowserTypes' /\ Queues' /\ Device'
  BY <1>1, <1>2 DEF SysInv, SessionInv, BrowserTypes, Queues, Device
<1>4. Handled(k)'
  <2>1. Handled(k)
    BY DEF SysInv, SessionInv
  <2> QED
    BY <1>1, <1>2, <2>1 DEF Handled, AskedBy
<1>5. ASSUME NEW d \in Clients PROVE InHandler(d)' => InHandler(d)
  <2>1. SockOf[d] = k
    BY <1>2, UsedFacts
  <2> QED
    BY <1>2, <2>1 DEF InHandler, ReplyDue
<1>6. ASSUME NEW d \in Clients, state[d] # "CLOSED" PROVE OneUnderWay(d)'
  <2>1. OneUnderWay(d)
    BY <1>6 DEF SysInv, SessionInv, Wires
  <2> QED
    BY <1>2, <1>5, <2>1 DEF OneUnderWay
<1> QED
  BY <1>2, <1>3, <1>4, <1>6 DEF SessionInv, Wires

LEMMA FailsKeeps ==
  ASSUME SameSocket, SysInv, NEW k \in Socks, k \in Used, GetLineFails(k),
         UNCHANGED browserVars
  PROVE  SessionInv'
<1> USE DEF browserVars
<1>1. /\ UNCHANGED <<stream, asker, device, profile, toClient, toServer>>
      /\ pc[k] = "getline" /\ pc'[k] = "idle" /\ eof' = TRUE
      /\ \A j \in Used : j = k
  BY UsedFacts DEF GetLineFails, Leaves, Goto, SameSocket, SysInv, TypeInv, TypeOK
<1>2. eof \/ stream = <<>>
  BY DEF GetLineFails
<1>3. Handled(k) /\ asker[k] \in Clients
  BY DEF SysInv, SessionInv, TypeInv, TypeOK
<1>4. stream = <<>> /\ (eof \/ state[asker[k]] = "CLOSED")
  <2>1. \A cmd : <<Piece(cmd, asker[k])>> # <<>>
    OBVIOUS
  <2> QED
    BY <1>1, <1>2, <1>3, <2>1 DEF Handled
<1>5. BrowserTypes' /\ Queues' /\ Device'
  BY <1>1, <1>3, <1>4 DEF SysInv, SessionInv, BrowserTypes, Queues, Device
<1>6. Handled(k)'
  BY <1>1, <1>4 DEF Handled, AskedBy
<1>7. ASSUME NEW d \in Clients, state[d] # "CLOSED" PROVE OneUnderWay(d)'
  <2>1. OneUnderWay(d) /\ SockOf[d] = k
    BY <1>1, <1>7, UsedFacts DEF SysInv, SessionInv, Wires
  <2>2. ~InHandler(d)'
    BY <1>1, <2>1 DEF InHandler, ReplyDue
  <2> QED
    BY <1>1, <2>1, <2>2 DEF OneUnderWay
<1> QED
  BY <1>1, <1>5, <1>6, <1>7 DEF SessionInv, Wires

\* The steps of a command, from its line to the end of its handler.
LEMMA CommandShape ==
  ASSUME SysInv, NEW k \in Socks, Quiet(k) \/ Answers(k)
  PROVE  /\ UNCHANGED <<stream, eof, asker, device, toServer>>
         /\ pc[k] \notin {"idle", "getline"} /\ pc'[k] # "getline"
         /\ line'[k] = line[k] \/ pc'[k] = "idle"
         /\ SockOf[asker[k]] = k
         /\ Quiet(k) => toClient' = toClient /\ (ReplyDue(k)' <=> ReplyDue(k))
         /\ Answers(k) => /\ \E val, port : Reply(k, val, port)
                          /\ ReplyDue(k) /\ ~ReplyDue(k)'
<1>1. TypeOK /\ HandlerInv
  BY DEF SysInv, TypeInv
<1>2. CASE Answers(k)
  <2>1. /\ \E val, port : Reply(k, val, port)
        /\ UNCHANGED <<stream, eof, asker, toServer>>
        /\ pc'[k] \in {"query", "idle"} /\ pc[k] # "idle" /\ pc[k] # "getline"
        /\ SockOf[asker[k]] = k
        /\ ReplyDue(k) /\ ~ReplyDue(k)'
        /\ line'[k] = line[k] \/ pc'[k] = "idle"
    BY <1>1, <1>2, AnswerFacts DEF Answer, Answers
  <2>2. UNCHANGED device /\ ~Quiet(k)
    BY <1>2 DEF Answers, Return, BindRX, Query, Quiet, NewChannel, Number, OpenRX,
       StartRX, SetParameter, NoQuery, At
  <2> QED
    BY <2>1, <2>2
<1>3. CASE Quiet(k)
  <2>1. /\ UNCHANGED <<stream, eof, asker, device, toServer, toClient>>
        /\ pc[k] \notin {"idle", "getline"}
    BY <1>3 DEF Quiet, NewChannel, Number, OpenRX, StartRX, SetParameter, NoQuery, At
  <2>2. SockOf[asker[k]] = k
    BY <1>1, <2>1 DEF HandlerInv
  <2>3. CASE NoQuery(k)
    <3>1. pc'[k] = "idle" /\ pc[k] = "query" /\ ~Queried(k)
      BY <1>1, <2>3 DEF NoQuery, Leaves, Goto, TypeOK
    <3>2. ~Answers(k)
      BY <3>1 DEF Answers, Return, BindRX, Query
    <3> QED
      BY <2>1, <2>2, <3>1, <3>2 DEF ReplyDue
  <2>4. CASE \/ NewChannel(k) \/ Number(k) \/ OpenRX(k) \/ StartRX(k)
             \/ SetParameter(k)
    <3>1. line' = line /\ pc[k] \in {"execute", "number", "start"}
          /\ \/ pc'[k] \in {"number", "return", "start", "bind"}
             \/ pc'[k] = "query" /\ Queried(k)
      BY <1>1, <2>4 DEF NewChannel, Number, OpenRX, StartRX, SetParameter, At,
         Goto, TypeOK, Queried
    <3>2. ~Answers(k)
      BY <3>1 DEF Answers, Return, BindRX, Query
    <3> QED
      BY <2>1, <2>2, <3>1, <3>2 DEF ReplyDue, Queried
  <2> QED
    BY <1>3, <2>3, <2>4 DEF Quiet
<1> QED
  BY <1>2, <1>3

LEMMA CommandKeeps ==
  ASSUME SameSocket, SysInv, NEW k \in Socks, k \in Used,
         Quiet(k) \/ Answers(k),
         UNCHANGED browserVars
  PROVE  SessionInv'
<1> USE DEF browserVars
<1>1. /\ UNCHANGED <<stream, eof, asker, device, toServer>>
      /\ pc[k] \notin {"idle", "getline"} /\ pc'[k] # "getline"
      /\ line'[k] = line[k] \/ pc'[k] = "idle"
      /\ SockOf[asker[k]] = k
      /\ Quiet(k) => toClient' = toClient /\ (ReplyDue(k)' <=> ReplyDue(k))
      /\ Answers(k) => /\ \E val, port : Reply(k, val, port)
                       /\ ReplyDue(k) /\ ~ReplyDue(k)'
  BY CommandShape
<1>2. \A j \in Used : j = k
  BY UsedFacts DEF SameSocket
<1>3. Handled(k) /\ asker[k] \in Clients
  BY DEF SysInv, SessionInv, TypeInv, TypeOK
<1>4. BrowserTypes' /\ Queues' /\ Device'
  BY <1>1, StepsRun DEF SysInv, SessionInv, BrowserTypes, Queues, Device
<1>5. pc'[k] = "idle" => ~ReplyDue(k)'
  BY DEF ReplyDue
<1>6. Handled(k)'
  BY <1>1, <1>3, <1>5 DEF Handled, AskedBy
<1>7. ASSUME NEW d \in Clients, state[d] # "CLOSED" PROVE OneUnderWay(d)'
  <2>1. OneUnderWay(d) /\ SockOf[d] = k
    BY <1>2, <1>7, UsedFacts DEF SysInv, SessionInv, Wires
  <2>2. CASE d # asker[k]
    <3>1. ~InHandler(d) /\ ~InHandler(d)'
      BY <1>1, <2>2, OthersKept
    <3>2. toClient'[d] = toClient[d]
      BY <1>1, <2>2 DEF Reply, SysInv, TypeInv, TypeOK
    <3> QED
      BY <1>1, <2>1, <3>1, <3>2 DEF OneUnderWay
  <2>3. CASE d = asker[k] /\ Quiet(k)
    <3>1. InHandler(d)' <=> InHandler(d)
      BY <1>1, <2>1, <2>3 DEF InHandler
    <3> QED
      BY <1>1, <2>1, <2>3, <3>1 DEF OneUnderWay
  <2>4. CASE d = asker[k] /\ Answers(k)
    <3>1. InHandler(d) /\ ~InHandler(d)'
      BY <1>1, <2>1, <2>4 DEF InHandler
    <3>2. toServer[d] = <<>> /\ toClient[d] = <<>>
      BY <2>1, <3>1 DEF OneUnderWay
    <3>3. PICK val, port : Reply(k, val, port)
      BY <1>1, <2>4
    <3>4. toClient'[d] = <<[op |-> line[k].cmd.op, val |-> val, port |-> port,
                            by |-> line[k].by]>>
      BY <2>4, <3>2, <3>3 DEF Reply, SysInv, TypeInv, TypeOK
    <3>5. line[k].cmd.op \in Asks(state[d])
      BY <1>1, <1>3, <1>7, <2>4 DEF Handled, AskedBy
    <3> QED
      BY <1>1, <3>1, <3>2, <3>4, <3>5 DEF OneUnderWay
  <2> QED
    BY <2>2, <2>3, <2>4
<1> QED
  BY <1>2, <1>4, <1>6, <1>7 DEF SessionInv, Wires

LEMMA ServerKeeps ==
  ASSUME SameSocket, SysInv, ServerStep PROVE SysInv'
<1>1. Server /\ UNCHANGED browserVars
  BY DEF ServerStep
<1>2. TypeInv' /\ HandlerInv'
  BY <1>1, TypeServer, HandlerServer DEF SysInv, TypeInv
<1>3. ASSUME NEW how, Ends(how) PROVE SessionInv'
  BY <1>1, <1>3 DEF Ends, browserVars, SysInv, SessionInv, BrowserTypes, Queues, Wires,
     OneUnderWay, InHandler, ReplyDue, Queried, Device, Handled, AskedBy
<1>4. SessionInv'
  BY <1>1, <1>3, SessionSteps, InsertKeeps, GetLineKeeps, FailsKeeps, CommandKeeps
<1> QED
  BY <1>2, <1>4 DEF SysInv

LEMMA SysStep ==
  ASSUME SameSocket PROVE SysInv /\ [SysNext]_sysVars => SysInv'
<1> SUFFICES ASSUME SysInv, [SysNext]_sysVars PROVE SysInv'
  OBVIOUS
<1>1. CASE UNCHANGED sysVars
  <2>1. TypeInv' /\ HandlerInv'
    BY <1>1, TypeStep, HandlerStep DEF sysVars, SysInv
  <2>2. SessionInv'
    BY <1>1 DEF sysVars, vars, serverVars, browserVars, SysInv, SessionInv,
       BrowserTypes, Queues, Wires, OneUnderWay, InHandler, ReplyDue, Queried, Device,
       Handled, AskedBy
  <2> QED
    BY <2>1, <2>2 DEF SysInv
<1> QED
  BY <1>1, ServerKeeps, BrowserKeeps DEF SysNext

-----------------------------------------------------------------------------
(***************************************************************************)
(* The sessions: every step is one of CommandSession, or leaves all of     *)
(* them as they are.  The liveness half of Sessions is left to TLC.        *)
(***************************************************************************)
\* What the server has of the command of c.
HandledOp(c) ==
  IF pc[SockOf[c]] = "getline" THEN Head(stream).cmd.op
  ELSE line[SockOf[c]].cmd.op

Kept(c) == AnswerTo(c)' = AnswerTo(c) /\ UnderWay(c)' = UnderWay(c)
Todo(c) == IF state[c] = "CLOSED" THEN {} ELSE Range(cmdQueue[c])

LEMMA ViewKept ==
  ASSUME NEW c \in Clients, state'[c] = state[c], toClient'[c] = toClient[c],
         toServer'[c] = toServer[c], InServer(c)' <=> InServer(c),
         InServer(c) => HandledOp(c)' = HandledOp(c)
  PROVE  Kept(c)
<1>1. AnswerTo(c)' = AnswerTo(c)
  BY DEF AnswerTo
<1>2. AnswerTo(c) = "due" /\ toServer[c] = <<>> => InServer(c)
  BY DEF AnswerTo
<1>3. AnswerTo(c) \in {"none", "given", "due", "lost"}
  BY DEF AnswerTo
<1>4. UnderWay(c)' = UnderWay(c)
  <2>1. CASE AnswerTo(c) \in {"given", "none", "lost"}
    BY <1>1, <2>1 DEF UnderWay
  <2>2. CASE AnswerTo(c) = "due" /\ toServer[c] # <<>>
    BY <1>1, <2>2 DEF UnderWay
  <2>3. CASE AnswerTo(c) = "due" /\ toServer[c] = <<>>
    BY <1>1, <1>2, <2>3 DEF UnderWay, HandledOp
  <2> QED
    BY <1>3, <2>1, <2>2, <2>3
<1> QED
  BY <1>1, <1>4 DEF Kept

LEMMA LeftKept ==
  ASSUME NEW c \in Clients, state[c] = "CLOSED", state'[c] = "CLOSED"
  PROVE  Kept(c)
BY DEF Kept, AnswerTo, UnderWay

LEMMA SessionKept ==
  ASSUME \A c \in Clients : Kept(c), UNCHANGED <<state, cmdQueue, proc>>
  PROVE  UNCHANGED Session!sessionVars
BY DEF Kept, Session!sessionVars

LEMMA SessionBecomes ==
  ASSUME NEW c \in Clients, NEW s, state' = [state EXCEPT ![c] = s],
         NEW op, UnderWay(c)' = op, NEW a, AnswerTo(c)' = a,
         \A d \in Clients \ {c} : Kept(d)
  PROVE  Session!Becomes(c, s, op, a)
BY DEF Kept, Session!Becomes

\* A step of the browser c touches no other session.
LEMMA OthersSee ==
  ASSUME SysInv, NEW c \in Clients, NEW s,
         state' = [state EXCEPT ![c] = s], UNCHANGED serverVars,
         \A d \in Clients \ {c} :
           toServer'[d] = toServer[d] /\ toClient'[d] = toClient[d]
  PROVE  \A d \in Clients \ {c} : Kept(d)
<1> SUFFICES ASSUME NEW d \in Clients \ {c} PROVE Kept(d)
  OBVIOUS
<1>1. state'[d] = state[d]
  BY DEF SysInv, SessionInv, BrowserTypes
<1>2. InServer(d)' <=> InServer(d)
  BY DEF InServer, ReplyDue, Queried, serverVars
<1>3. HandledOp(d)' = HandledOp(d)
  BY DEF HandledOp, serverVars
<1> QED
  BY <1>1, <1>2, <1>3, ViewKept

LEMMA AskingBecomes ==
  ASSUME SysInv, NEW c \in Clients, NEW s \in States, NEW cmd \in BrowserCommands,
         s # "CLOSED", Asking(c, s, cmd)
  PROVE  Session!Becomes(c, s, cmd.op, "due")
<1>1. /\ toServer'[c] = <<Whole(cmd)>> /\ toClient'[c] = <<>> /\ state'[c] = s
      /\ state' = [state EXCEPT ![c] = s] /\ UNCHANGED serverVars
      /\ \A d \in Clients \ {c} :
           toServer'[d] = toServer[d] /\ toClient'[d] = toClient[d]
  BY DEF Asking, SysInv, TypeInv, TypeOK, SessionInv, BrowserTypes
<1>2. AnswerTo(c)' = "due"
  BY <1>1 DEF AnswerTo
<1>3. UnderWay(c)' = cmd.op
  <2>1. Head(toServer'[c])[1].cmd.op = cmd.op
    BY <1>1 DEF Whole
  <2> QED
    BY <1>1, <1>2, <2>1 DEF UnderWay
<1>4. \A d \in Clients \ {c} : Kept(d)
  BY <1>1, OthersSee
<1> QED
  BY <1>1, <1>2, <1>3, <1>4, SessionBecomes

LEMMA RestingBecomes ==
  ASSUME SysInv, NEW c \in Clients, toServer[c] = <<>>, ~InHandler(c), Resting(c)
  PROVE  Session!Becomes(c, "IDLE", "none", "none")
<1>1. /\ toServer'[c] = <<>> /\ toClient'[c] = <<>> /\ state'[c] = "IDLE"
      /\ state' = [state EXCEPT ![c] = "IDLE"] /\ UNCHANGED serverVars
      /\ \A d \in Clients \ {c} :
           toServer'[d] = toServer[d] /\ toClient'[d] = toClient[d]
  BY DEF Resting, SysInv, TypeInv, TypeOK, SessionInv, BrowserTypes
<1>2. ~InServer(c)'
  BY <1>1 DEF InServer, InHandler, ReplyDue, Queried, serverVars
<1>3. AnswerTo(c)' = "none"
  BY <1>1, <1>2 DEF AnswerTo
<1>4. UnderWay(c)' = "none"
  BY <1>3 DEF UnderWay
<1>5. \A d \in Clients \ {c} : Kept(d)
  BY <1>1, OthersSee
<1> QED
  BY <1>1, <1>3, <1>4, <1>5, SessionBecomes

\* Where the session of a browser is when one of its handlers is called.
LEMMA GotAt ==
  ASSUME NEW c \in Clients, NEW s, Got(c, s), s # "CLOSED"
  PROVE  Session!At(c, s, "given")
BY DEF Got, Session!At, AnswerTo

LEMMA CalmAt ==
  ASSUME SysInv, NEW c \in Clients, NEW s \in {"INIT", "IDLE"}, state[c] = s
  PROVE  Session!At(c, s, "none")
<1>1. toServer[c] = <<>> /\ toClient[c] = <<>> /\ ~InHandler(c)
  BY Calm
<1>2. ~InServer(c)
  BY <1>1 DEF InServer, InHandler
<1> QED
  BY <1>1, <1>2 DEF Session!At, AnswerTo

LEMMA TodoKept ==
  ASSUME SysInv, NEW c \in Clients, NEW s, s # "CLOSED", state[c] # "CLOSED",
         state' = [state EXCEPT ![c] = s], cmdQueue' = cmdQueue
  PROVE  /\ [d \in Clients |-> Todo(d)]' = [d \in Clients |-> Todo(d)]
BY DEF Todo, SysInv, SessionInv, BrowserTypes

LEMMA SessionOpen ==
  ASSUME SysInv, NEW c \in Clients, OnOpen(c) PROVE Session!Open(c)
<1>1. Asking(c, "OPEN", Cmd("NEWCHANNEL", 0)) /\ state[c] = "INIT" /\ cmdQueue' = cmdQueue
  BY OpenFacts DEF OnOpen
<1>2. Session!At(c, "INIT", "none")
  BY <1>1, CalmAt
<1>3. Cmd("NEWCHANNEL", 0) \in BrowserCommands /\ Cmd("NEWCHANNEL", 0).op = "NEWCHANNEL"
  BY DEF BrowserCommands, Cmd
<1>4. Session!Becomes(c, "OPEN", "NEWCHANNEL", "due")
  BY <1>1, <1>3, AskingBecomes DEF States
<1>5. [d \in Clients |-> Todo(d)]' = [d \in Clients |-> Todo(d)]
  BY <1>1, TodoKept DEF Asking
<1> QED
  BY <1>2, <1>4, <1>5 DEF Session!Open, Session!Sends, Todo

LEMMA SessionScript ==
  ASSUME SysInv, NEW c \in Clients,
         OnChannel(c) \/ OnRate(c) \/ OnFreq(c) \/ OnGain(c)
  PROVE  Session!Script(c)
<1>1. /\ \A o \in {"NEWCHANNEL", "RXCHANNEL"} : Cmd(o, 0) \in BrowserCommands
      /\ \A o \in {"RXRATE", "RXFREQ", "RXGAIN"} : Cmd(o, 1) \in BrowserCommands
      /\ \A o, a : Cmd(o, a).op = o
  BY DEF BrowserCommands, Cmd
<1>2. ASSUME NEW t \in {"OPEN", "RXRATE", "RXFREQ", "RXGAIN"}, Got(c, t),
             NEW s \in States \ {"CLOSED"}, s = Session!Follows[t],
             NEW cmd \in BrowserCommands, cmd.op = Session!Sends[s],
             Asking(c, s, cmd)
      PROVE  Session!Script(c)
  <2>1. Session!At(c, t, "given") /\ state[c] # "CLOSED"
    BY <1>2, GotAt DEF Got
  <2>2. Session!Becomes(c, s, cmd.op, "due")
    BY <1>2, AskingBecomes
  <2>3. t \in DOMAIN Session!Follows \ {"INIT"}
    BY <1>2 DEF Session!Follows
  <2>4. cmdQueue' = cmdQueue
    BY ScriptFacts
  <2>5. [d \in Clients |-> Todo(d)]' = [d \in Clients |-> Todo(d)]
    BY <1>2, <2>1, <2>4, TodoKept DEF Asking
  <2> QED
    BY <1>2, <2>1, <2>2, <2>3, <2>5 DEF Session!Script, Todo
<1> USE DEF Session!Follows, Session!Sends, States
<1>3. CASE OnChannel(c)
  BY <1>1, <1>2, <1>3, ScriptFacts DEF OnChannel
<1>4. CASE OnRate(c)
  BY <1>1, <1>2, <1>4, ScriptFacts DEF OnRate
<1>5. CASE OnFreq(c)
  BY <1>1, <1>2, <1>5, ScriptFacts DEF OnFreq
<1>6. CASE OnGain(c)
  BY <1>1, <1>2, <1>6, ScriptFacts DEF OnGain
<1> QED
  BY <1>3, <1>4, <1>5, <1>6

LEMMA SessionBound ==
  ASSUME SysInv, NEW c \in Clients, OnBound(c) PROVE Session!Connected(c)
<1>1. Got(c, "CONNECTED") /\ Resting(c) /\ cmdQueue' = cmdQueue
  BY ScriptFacts DEF OnBound
<1>2. toServer[c] = <<>> /\ ~InHandler(c) /\ state[c] = "CONNECTED"
  BY <1>1, GotFacts DEF Got
<1>3. Session!At(c, "CONNECTED", "given") /\ Session!Becomes(c, "IDLE", "none", "none")
  BY <1>1, <1>2, GotAt, RestingBecomes
<1>4. [d \in Clients |-> Todo(d)]' = [d \in Clients |-> Todo(d)]
  BY <1>1, <1>2, TodoKept DEF Resting
<1> QED
  BY <1>3, <1>4 DEF Session!Connected, Todo

LEMMA SessionReply ==
  ASSUME SysInv, NEW c \in Clients, OnReply(c) PROVE Session!Reply(c)
<1>1. Got(c, "COMMANDING")
  BY DEF OnReply
<1>2. toServer[c] = <<>> /\ ~InHandler(c) /\ state[c] = "COMMANDING"
  BY <1>1, GotFacts DEF Got
<1>3. Session!At(c, "COMMANDING", "given")
  BY <1>1, GotAt
<1>4. cmdQueue \in [Clients -> Seq(Picks)] /\ Distinct(cmdQueue[c])
      /\ state \in [Clients -> States]
  BY DEF SysInv, SessionInv, BrowserTypes, Queues
<1>5. CASE cmdQueue[c] = <<>> /\ Resting(c) /\ cmdQueue' = cmdQueue
  <2>1. Session!Becomes(c, "IDLE", "none", "none")
    BY <1>2, <1>5, RestingBecomes
  <2>2. [d \in Clients |-> Todo(d)]' = [d \in Clients |-> Todo(d)]
    BY <1>2, <1>5, TodoKept DEF Resting
  <2>3. Todo(c) = {}
    BY <1>2, <1>5 DEF Todo, Range
  <2> QED
    BY <1>3, <2>1, <2>2, <2>3 DEF Session!Reply, Todo
<1>6. CASE /\ cmdQueue[c] # <<>> /\ Asking(c, "COMMANDING", Head(cmdQueue[c]))
           /\ cmdQueue' = [cmdQueue EXCEPT ![c] = Tail(@)]
  <2> DEFINE e == Head(cmdQueue[c])
  <2>1. /\ e \in Picks /\ e \in Range(cmdQueue[c])
        /\ Range(Tail(cmdQueue[c])) = Range(cmdQueue[c]) \ {e}
    BY <1>4, <1>6, TailFacts
  <2> HIDE DEF e
  <2>2. Session!Becomes(c, "COMMANDING", e.op, "due")
    BY <1>6, <2>1, AskingBecomes DEF States, BrowserCommands, e
  <2>3. e \in Todo(c) /\ Todo(c)' = Todo(c) \ {e}
    BY <1>2, <1>4, <1>6, <2>1 DEF Todo, Asking
  <2>4. \A d \in Clients \ {c} : Todo(d)' = Todo(d)
    BY <1>4, <1>6 DEF Todo, Asking
  <2>5. [d \in Clients |-> Todo(d)]' =
          [[d \in Clients |-> Todo(d)] EXCEPT ![c] = @ \ {e}]
    BY <2>3, <2>4
  <2> QED
    BY <1>3, <2>2, <2>3, <2>5 DEF Session!Reply, Todo
<1> QED
  BY <1>5, <1>6, ReplyFacts

LEMMA SessionPick ==
  ASSUME SysInv, NEW c \in Clients, Tune(c)
  PROVE  \E p \in Picks : Session!Pick(c, p)
<1>1. PICK p \in Picks :
        \/ /\ state[c] = "IDLE" /\ Asking(c, "COMMANDING", p)
           /\ cmdQueue' = cmdQueue
        \/ /\ state[c] = "COMMANDING"
           /\ cmdQueue' = [cmdQueue EXCEPT ![c] = Queued(@, p)]
           /\ UNCHANGED <<vars, state>>
  BY TuneFacts
<1>2. CASE state[c] = "IDLE" /\ Asking(c, "COMMANDING", p) /\ cmdQueue' = cmdQueue
  <2>1. Session!At(c, "IDLE", "none")
    BY <1>2, CalmAt
  <2>2. Session!Becomes(c, "COMMANDING", p.op, "due")
    BY <1>2, AskingBecomes DEF States, BrowserCommands
  <2>3. [d \in Clients |-> Todo(d)]' = [d \in Clients |-> Todo(d)]
    BY <1>2, TodoKept DEF Asking
  <2> QED
    BY <2>1, <2>2, <2>3 DEF Session!Pick, Todo
<1>3. CASE /\ state[c] = "COMMANDING"
           /\ cmdQueue' = [cmdQueue EXCEPT ![c] = Queued(@, p)]
           /\ UNCHANGED <<vars, state>>
  <2>1. cmdQueue \in [Clients -> Seq(Picks)] /\ Distinct(cmdQueue[c])
    BY DEF SysInv, SessionInv, BrowserTypes, Queues
  <2>2. Range(Queued(cmdQueue[c], p)) =
          {e \in Range(cmdQueue[c]) : e.op # p.op} \cup {p}
    BY <2>1, QueuedFacts
  <2>3. Todo(c)' = {e \in Todo(c) : e.op # p.op} \cup {p}
    BY <1>3, <2>1, <2>2 DEF Todo
  <2>4. \A d \in Clients \ {c} : Todo(d)' = Todo(d)
    BY <1>3, <2>1 DEF Todo
  <2>5. [d \in Clients |-> Todo(d)]' =
          [[d \in Clients |-> Todo(d)] EXCEPT
             ![c] = {e \in @ : e.op # p.op} \cup {p}]
    BY <2>3, <2>4
  <2>6. \A d \in Clients : Kept(d)
    <3> SUFFICES ASSUME NEW d \in Clients PROVE Kept(d)
      OBVIOUS
    <3>1. InServer(d)' <=> InServer(d)
      BY <1>3 DEF InServer, ReplyDue, Queried, vars, serverVars
    <3>2. HandledOp(d)' = HandledOp(d)
      BY <1>3 DEF HandledOp, vars, serverVars
    <3> QED
      BY <1>3, <3>1, <3>2, ViewKept DEF vars
  <2>7. /\ state' = state
        /\ [d \in Clients |-> UnderWay(d)]' = [d \in Clients |-> UnderWay(d)]
        /\ [d \in Clients |-> AnswerTo(d)]' = [d \in Clients |-> AnswerTo(d)]
    BY <1>3, <2>6 DEF Kept
  <2> QED
    BY <1>3, <2>5, <2>7 DEF Session!Pick, Todo
<1> QED
  BY <1>1, <1>2, <1>3

LEMMA SessionLeave ==
  ASSUME SysInv, NEW c \in Clients, Leave(c) PROVE Session!Leave(c)
<1>1. /\ state[c] # "CLOSED" /\ state[c] # "INIT" /\ cmdQueue' = cmdQueue
      /\ state' = [state EXCEPT ![c] = "CLOSED"] /\ UNCHANGED serverVars
      /\ \A d \in Clients \ {c} :
           toServer'[d] = toServer[d] /\ toClient'[d] = toClient[d]
  BY DEF Leave, To, SysInv, TypeInv, TypeOK
<1>2. state \in [Clients -> States]
  BY DEF SysInv, SessionInv, BrowserTypes
<1>3. AnswerTo(c)' = "none" /\ UnderWay(c)' = "none"
  BY <1>1, <1>2 DEF AnswerTo, UnderWay
<1>4. Session!Becomes(c, "CLOSED", "none", "none")
  BY <1>1, <1>3, OthersSee, SessionBecomes
<1>5. Todo(c)' = {} /\ \A d \in Clients \ {c} : Todo(d)' = Todo(d)
  BY <1>1, <1>2 DEF Todo
<1>6. [d \in Clients |-> Todo(d)]' = [[d \in Clients |-> Todo(d)] EXCEPT ![c] = {}]
  BY <1>5
<1> QED
  BY <1>1, <1>4, <1>6 DEF Session!Leave, Todo

LEMMA SessionBrowser ==
  ASSUME SysInv, NEW c \in Clients, OnOpen(c) \/ OnMessage(c) \/ Tune(c) \/ Leave(c)
  PROVE  Session!Next
<1>1. UNCHANGED proc
  BY DEF OnOpen, OnMessage, OnChannel, OnRate, OnFreq, OnGain, OnBound, OnReply,
     Got, Tune, Leave, serverVars
<1> QED
  BY <1>1, SessionOpen, SessionScript, SessionBound, SessionReply, SessionPick,
     SessionLeave DEF OnMessage, Session!Next

\* A message that is taken while the stream works stays under way, one that
\* comes after the stream has seen its end is lost.
LEMMA SessionInsert ==
  ASSUME SameSocket, SysInv, NEW k \in Socks, k \in Used,
         Insert(k), UNCHANGED browserVars, proc = "running"
  PROVE  \/ \E c \in Clients : Session!Lose(c)
         \/ \A d \in Clients : Kept(d)
<1> USE DEF browserVars
<1>1. PICK c \in Clients :
        /\ SockOf[c] = k /\ toServer[c] # <<>> /\ state[c] # "INIT"
        /\ asker' = [asker EXCEPT ![k] = c]
        /\ toServer' = [toServer EXCEPT ![c] = Tail(@)]
        /\ \/ eof /\ stream' = <<>>
           \/ ~eof /\ stream' = <<>> /\ state[c] = "CLOSED"
           \/ ~eof /\ \E cmd \in BrowserCommands :
                /\ Head(toServer[c]) = Whole(cmd) /\ AskedBy(c, cmd)
                /\ stream' = <<Piece(cmd, c)>>
  BY InsertFacts
<1>2. /\ eof' = eof /\ toClient' = toClient /\ pc[k] = "idle" /\ pc'[k] = "getline"
      /\ asker'[k] = c /\ \A d \in Clients : SockOf[d] = k
      /\ toServer \in [Clients -> Seq(Messages)] /\ state \in [Clients -> States]
  BY <1>1, UsedFacts
     DEF Insert, Goto, SameSocket, SysInv, TypeInv, TypeOK, SessionInv, BrowserTypes
<1>3. \A d \in Clients : ~InServer(d)
  BY <1>2 DEF InServer, ReplyDue
<1>4. ASSUME NEW d \in Clients \ {c} PROVE Kept(d)
  <2>1. ~InServer(d)'
    BY <1>2 DEF InServer
  <2>2. toServer'[d] = toServer[d]
    BY <1>1, <1>2
  <2> QED
    BY <1>2, <1>3, <2>1, <2>2, ViewKept
<1>5. CASE state[c] = "CLOSED"
  BY <1>4, <1>5, LeftKept
<1>6. CASE state[c] # "CLOSED"
  <2>1. /\ OneUnderWay(c)
        /\ eof \/ \E cmd \in BrowserCommands :
             ~eof /\ Head(toServer[c]) = Whole(cmd) /\ stream' = <<Piece(cmd, c)>>
    BY <1>1, <1>6 DEF SysInv, SessionInv, Wires
  <2>2. /\ toServer'[c] = <<>> /\ toClient[c] = <<>>
        /\ state[c] \notin {"INIT", "IDLE"}
    <3>1. PICK cmd \in BrowserCommands :
            cmd.op \in Asks(state[c]) /\ toServer[c] = <<Whole(cmd)>>
      BY <1>1, <2>1 DEF OneUnderWay
    <3> QED
      BY <1>1, <1>2, <2>1, <3>1, AskFacts DEF OneUnderWay
  <2>3. AnswerTo(c) = "due"
    BY <1>1, <1>6, <2>2 DEF AnswerTo
  <2>4. CASE eof
    <3>1. ~InServer(c)'
      BY <1>2, <2>4 DEF InServer
    <3>2. AnswerTo(c)' = "lost"
      BY <1>2, <1>6, <2>2, <3>1 DEF AnswerTo
    <3>3. UnderWay(c)' = "none"
      BY <3>2 DEF UnderWay
    <3>4. Session!Becomes(c, state[c], "none", "lost")
      <4>1. state' = [state EXCEPT ![c] = state[c]]
        BY <1>2
      <4> QED
        BY <1>4, <3>2, <3>3, <4>1, SessionBecomes
    <3>5. \E d \in Clients : state[d] = "CLOSED"
      BY <2>4 DEF SysInv, SessionInv, Device
    <3>6. [d \in Clients |-> Todo(d)]' = [d \in Clients |-> Todo(d)]
      BY DEF Todo
    <3>7. Session!Lose(c)
      BY <2>3, <3>4, <3>5, <3>6 DEF Session!Lose, Todo
    <3> QED
      BY <3>7
  <2>5. ASSUME NEW cmd \in BrowserCommands, ~eof, Head(toServer[c]) = Whole(cmd),
               stream' = <<Piece(cmd, c)>>
        PROVE  Kept(c)
    <3>1. InServer(c)'
      BY <1>2, <2>5 DEF InServer, ReplyDue
    <3>2. AnswerTo(c)' = "due"
      BY <1>2, <1>6, <2>2, <3>1 DEF AnswerTo
    <3>3. UnderWay(c) = cmd.op
      <4>1. Head(toServer[c])[1].cmd.op = cmd.op
        BY <2>5 DEF Whole
      <4> QED
        BY <1>1, <2>3, <4>1 DEF UnderWay
    <3>4. UnderWay(c)' = cmd.op
      <4>1. Head(stream').cmd.op = cmd.op
        BY <2>5 DEF Piece
      <4> QED
        BY <1>2, <2>2, <3>2, <4>1 DEF UnderWay
    <3> QED
      BY <2>3, <3>2, <3>3, <3>4 DEF Kept
  <2> QED
    BY <1>4, <2>1, <2>4, <2>5
<1> QED
  BY <1>5, <1>6

LEMMA SessionGetLine ==
  ASSUME SameSocket, SysInv, NEW k \in Socks, k \in Used,
         GetLine(k) \/ GetLineFails(k),
         UNCHANGED browserVars
  PROVE  \A d \in Clients : Kept(d)
<1> USE DEF browserVars
<1> SUFFICES ASSUME NEW d \in Clients PROVE Kept(d)
  OBVIOUS
<1>1. /\ UNCHANGED <<asker, toClient, toServer>> /\ SockOf[d] = k
      /\ pc[k] = "getline"
  BY UsedFacts DEF GetLine, GetLineFails, SameSocket
<1>2. CASE GetLine(k)
  <2>1. PICK cmd \in BrowserCommands :
          /\ stream = <<Piece(cmd, asker[k])>>
          /\ eof = FALSE
          /\ line' = [line EXCEPT ![k] = [cmd |-> cmd, by |-> asker[k]]]
    BY <1>2, GetLineFacts
  <2>2. pc'[k] = "execute" /\ line'[k].cmd = cmd /\ Head(stream).cmd = cmd
        /\ stream # <<>>
    BY <1>2, <2>1 DEF GetLine, Goto, SysInv, TypeInv, TypeOK, Piece
  <2>3. InServer(d)' <=> InServer(d)
    BY <1>1, <2>1, <2>2 DEF InServer, ReplyDue
  <2>4. HandledOp(d)' = HandledOp(d)
    BY <1>1, <2>2 DEF HandledOp
  <2> QED
    BY <1>1, <2>3, <2>4, ViewKept
<1>3. CASE GetLineFails(k)
  <2>1. pc'[k] = "idle" /\ (eof \/ stream = <<>>)
    BY <1>3 DEF GetLineFails, Leaves, Goto, SysInv, TypeInv, TypeOK
  <2>2. ~InServer(d) /\ ~InServer(d)'
    BY <1>1, <2>1 DEF InServer, ReplyDue
  <2> QED
    BY <1>1, <2>2, ViewKept
<1> QED
  BY <1>2, <1>3

LEMMA SessionQuiet ==
  ASSUME SameSocket, SysInv, NEW k \in Socks, k \in Used,
         Quiet(k), UNCHANGED browserVars
  PROVE  \A d \in Clients : Kept(d)
<1> USE DEF browserVars
<1> SUFFICES ASSUME NEW d \in Clients PROVE Kept(d)
  OBVIOUS
<1>1. /\ UNCHANGED <<asker, toClient, toServer>> /\ SockOf[d] = k
      /\ pc[k] # "getline" /\ pc'[k] # "getline"
      /\ line'[k] = line[k] \/ pc'[k] = "idle"
      /\ ReplyDue(k)' <=> ReplyDue(k)
  BY CommandShape, UsedFacts DEF SameSocket
<1>2. InServer(d)' <=> InServer(d)
  BY <1>1 DEF InServer
<1>3. InServer(d) => HandledOp(d)' = HandledOp(d)
  BY <1>1 DEF InServer, HandledOp, ReplyDue
<1> QED
  BY <1>1, <1>2, <1>3, ViewKept

\* The answer is that to the command under way.
LEMMA SessionAnswers ==
  ASSUME SameSocket, SysInv, NEW k \in Socks, k \in Used,
         Answers(k), UNCHANGED browserVars, proc = "running"
  PROVE  \/ Session!Serve(asker[k])
         \/ \A d \in Clients : Kept(d)
<1> USE DEF browserVars
<1>1. /\ UNCHANGED <<asker, toServer>>
      /\ pc[k] # "getline" /\ pc'[k] # "getline"
      /\ SockOf[asker[k]] = k /\ asker[k] \in Clients
      /\ ReplyDue(k) /\ ~ReplyDue(k)' /\ \E val, port : Reply(k, val, port)
      /\ \A d \in Clients : SockOf[d] = k
      /\ toClient \in [Clients -> Seq(Replies)] /\ state \in [Clients -> States]
  <2>1. /\ UNCHANGED <<asker, toServer>>
        /\ pc[k] # "getline" /\ pc'[k] # "getline" /\ SockOf[asker[k]] = k
        /\ ReplyDue(k) /\ ~ReplyDue(k)' /\ \E val, port : Reply(k, val, port)
    BY CommandShape
  <2>2. \A d \in Clients : SockOf[d] = k
    BY UsedFacts DEF SameSocket
  <2>3. /\ asker[k] \in Clients
        /\ toClient \in [Clients -> Seq(Replies)] /\ state \in [Clients -> States]
    BY DEF SysInv, TypeInv, TypeOK, SessionInv, BrowserTypes
  <2> QED
    BY <2>1, <2>2, <2>3
<1>2. PICK val, port : Reply(k, val, port)
  BY <1>1
<1> DEFINE c == asker[k]
           r == [op |-> line[k].cmd.op, val |-> val, port |-> port,
                 by |-> line[k].by]
<1>3. ASSUME NEW d \in Clients \ {c} PROVE Kept(d)
  <2>1. toClient'[d] = toClient[d]
    BY <1>1, <1>2 DEF Reply
  <2>2. ~InServer(d) /\ ~InServer(d)'
    BY <1>1 DEF InServer
  <2> QED
    BY <1>1, <2>1, <2>2, ViewKept
<1>4. CASE state[c] = "CLOSED"
  BY <1>1, <1>3, <1>4, LeftKept
<1>5. CASE state[c] # "CLOSED"
  <2>1. InHandler(c) /\ InServer(c)
    BY <1>1 DEF InHandler, InServer
  <2>2. toServer[c] = <<>> /\ toClient[c] = <<>>
    BY <1>1, <1>5, <2>1 DEF SysInv, SessionInv, Wires, OneUnderWay
  <2>3. AnswerTo(c) = "due" /\ UnderWay(c) = line[k].cmd.op
    BY <1>1, <1>5, <2>1, <2>2 DEF AnswerTo, UnderWay
  <2>4. toClient'[c] = <<r>>
    BY <1>1, <1>2, <2>2 DEF Reply
  <2>5. Head(toClient'[c]).op = line[k].cmd.op /\ toClient'[c] # <<>>
    BY <2>4
  <2>6. AnswerTo(c)' = "given" /\ UnderWay(c)' = UnderWay(c)
    BY <1>1, <1>5, <2>3, <2>5 DEF AnswerTo, UnderWay
  <2>7. Session!Becomes(c, state[c], UnderWay(c), "given")
    <3>1. state' = [state EXCEPT ![c] = state[c]]
      BY <1>1
    <3> QED
      BY <1>1, <1>3, <2>6, <3>1, SessionBecomes
  <2>8. [d \in Clients |-> Todo(d)]' = [d \in Clients |-> Todo(d)]
    BY DEF Todo
  <2>9. Session!Serve(c)
    BY <1>1, <2>3, <2>7, <2>8 DEF Session!Serve, Todo
  <2> QED
    BY <2>9
<1> QED
  BY <1>4, <1>5

LEMMA SessionServer ==
  ASSUME SameSocket, SysInv, ServerStep
  PROVE  [Session!Next]_(Session!sessionVars)
<1>1. /\ Server /\ UNCHANGED <<state, cmdQueue>> /\ UNCHANGED browserVars
      /\ proc = "running"
  BY DEF ServerStep, browserVars
<1>2. ASSUME NEW how \in {"exited", "crashed", "terminated"}, Ends(how)
      PROVE  Session!End
  <2>1. ASSUME NEW d \in Clients PROVE Kept(d)
    <3>1. InServer(d)' <=> InServer(d)
      BY <1>2 DEF Ends, InServer, ReplyDue, Queried
    <3>2. HandledOp(d)' = HandledOp(d)
      BY <1>2 DEF Ends, HandledOp
    <3> QED
      BY <1>1, <1>2, <3>1, <3>2, ViewKept DEF Ends
  <2>2. proc' # "running"
    BY <1>2 DEF Ends
  <2> QED
    BY <1>1, <2>1, <2>2 DEF Session!End, Kept
<1>3. \A k \in Socks : asker[k] \in Clients
  BY DEF SysInv, TypeInv, TypeOK
<1>4. ASSUME NEW k \in Socks, k \in Used,
             \/ Insert(k) \/ GetLine(k) \/ GetLineFails(k)
             \/ Quiet(k) \/ Answers(k)
      PROVE  [Session!Next]_(Session!sessionVars)
  <2>1. \/ \E c \in Clients : Session!Lose(c) \/ Session!Serve(c)
        \/ \A d \in Clients : Kept(d)
    BY <1>1, <1>3, <1>4, SessionInsert, SessionGetLine, SessionQuiet,
       SessionAnswers
  <2>2. UNCHANGED proc
    BY <1>4, StepsRun
  <2> QED
    BY <1>1, <2>1, <2>2, SessionKept DEF Session!Next
<1> QED
  BY <1>1, <1>2, <1>4, SessionSteps DEF Session!Next

\* Whatever the browsers and the server do, and until the server ends, each
\* browser's session is one of CommandSession: one command under way at most, lost
\* only when some browser has left, its answer that to the command asked last, and
\* no pick lost or sent twice (portalCMD.js: sendCommand, onMessage;
\* portalCommandSocket.cc).
THEOREM SessionsSafe == ASSUME SameSocket PROVE SysSpec => Session!Safety
<1>1. SysInit => Session!Init
  <2> SUFFICES ASSUME SysInit PROVE Session!Init
    OBVIOUS
  <2>1. SysInv /\ state = [c \in Clients |-> "INIT"]
        /\ cmdQueue = [c \in Clients |-> <<>>] /\ proc = "running"
    BY SessionInit DEF SysInit, Init
  <2>2. ASSUME NEW c \in Clients
        PROVE  AnswerTo(c) = "none" /\ UnderWay(c) = "none" /\ Todo(c) = {}
    <3>1. AnswerTo(c) = "none"
      BY <2>1, CalmAt DEF Session!At
    <3>2. UnderWay(c) = "none"
      BY <3>1 DEF UnderWay
    <3>3. Todo(c) = {}
      BY <2>1 DEF Todo, Range
    <3> QED
      BY <3>1, <3>2, <3>3
  <2> QED
    BY <2>1, <2>2 DEF Session!Init, Todo
<1>2. SysInv /\ [SysNext]_sysVars => [Session!Next]_(Session!sessionVars)
  <2> SUFFICES ASSUME SysInv, [SysNext]_sysVars
               PROVE  [Session!Next]_(Session!sessionVars)
    OBVIOUS
  <2>1. CASE UNCHANGED sysVars
    <3>1. ASSUME NEW d \in Clients PROVE Kept(d)
      BY <2>1 DEF sysVars, vars, serverVars, browserVars, Kept, AnswerTo, UnderWay,
         InServer, ReplyDue, Queried
    <3>2. UNCHANGED <<state, cmdQueue, proc>>
      BY <2>1 DEF sysVars, vars, serverVars, browserVars
    <3> QED
      BY <3>1, <3>2, SessionKept
  <2> QED
    BY <2>1, SessionServer, SessionBrowser DEF SysNext
<1> QED
  BY <1>1, <1>2, SessionInit, SysStep, PTL DEF SysSpec, Session!Safety
=============================================================================
