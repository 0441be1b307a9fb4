-------------------------- MODULE SocketInterface --------------------------
(***************************************************************************)
(* One genericSocketInterface (src/src/genericSocketInterface.cc) with the *)
(* threads that run through it:                                            *)
(*                                                                         *)
(*  - the listener thread, which accepts connections, starts a socketThread*)
(*    for each and only then links it to the interface, upwards and down;  *)
(*  - one reader thread per connection, which hands what it reads to the   *)
(*    level above while it holds the interface's mutex, and which unlinks  *)
(*    the connection and closes its descriptor when the peer is gone;      *)
(*  - writer threads of the level above, which hold no mutex: the SDR's    *)
(*    receive thread (portalDataSocket, a broadcast to every connection)   *)
(*    and the listeners of shell commands (shellPortal, to one connection).*)
(*                                                                         *)
(* A connection is named by its uid.  The kernel's view of a descriptor is *)
(* sock: the connection it is open for.  A socketThread keeps the number   *)
(* fdOf for ever, so after close() the number may come to mean another     *)
(* connection.  A step of the model is a stretch of code between two       *)
(* accesses to state that other threads see.                               *)
(***************************************************************************)
EXTENDS Integers, FiniteSets

CONSTANTS
  MaxConns,  \* bound: how many clients ever connect
  Fds,       \* the descriptors the process may still open
  Writers,   \* threads of the level above that send without the mutex
  Upper,     \* the level above: "command", "data" or "shell"
  WS,        \* TRUE for a web socket, FALSE for plain TCP
  MaxMsgs,   \* bound: messages a client sends on a connection
  MaxSends,  \* bound: messages the writers send, together
  SndBuf     \* unread messages a connection holds before write() blocks

Broadcast == -1
Nobody == -1
Uids == 0 .. (MaxConns - 1)
Threads == Uids \cup Writers

ASSUME BoundsAssumption ==
  /\ MaxConns \in Nat \ {0}
  /\ MaxMsgs \in Nat
  /\ MaxSends \in Nat
  /\ SndBuf \in Nat \ {0}

ASSUME KindAssumption ==
  /\ Fds \subseteq Nat
  /\ Writers \cap Int = {}
  /\ Upper \in {"command", "data", "shell"}
  /\ WS \in BOOLEAN

\* What a client can receive: the reply to its handshake, the reply to a
\* command, or data a writer addressed to it (or to everyone).
Frames == [kind : {"handshake", "reply", "data"}, to : Uids \cup {Broadcast}]

\* A send in progress: the socket_channel it is for, the first key of
\* lower_level_links not yet visited, the link being written to, whether the
\* message is empty, and the connections linked when it began that it has not
\* come to yet (a history of the walk, which no step reads).
Jobs == [chan : Uids \cup {Broadcast}, from : 0 .. MaxConns,
         target : Uids, empty : BOOLEAN, due : SUBSET Uids]

VARIABLES
  proc,    \* "running", or how the process ended
  lst,     \* what the listener does next
  curUid,  \* cur_uid, the uid of the next connection
  pc,      \* what each reader and writer does next
  job,     \* the send each thread is in
  mutex,   \* the reader that holds the mutex, or Nobody
  up,      \* whether the connection has its link to the interface
  keys,    \* the keys of lower_level_links
  links,   \* the connections whose link lower_level_links holds
  est,     \* connection_established of each web socket
  fdOf,    \* socket_fp of each socketThread
  sock,    \* the connection each descriptor is open for, or Nobody
  told,    \* channels the level above was told are closed
  heard,   \* connections the level above has had a message from
  raced,   \* connections that ended before they were fully linked
  peer,    \* "none", "open" or "closed"
  inbox,   \* messages the peer sent that were not yet read
  sent,    \* messages the peer has sent
  unread,  \* messages written that the peer has not taken yet
  got,     \* the frames each peer was sent
  sends    \* messages the writers have sent

listenVars == <<lst, curUid>>
linkVars == <<up, keys, links>>
fdVars == <<fdOf, sock>>
upperVars == <<told, heard, raced>>
inVars == <<peer, inbox, sent>>
outVars == <<unread, got>>
tableVars == <<listenVars, linkVars, fdVars>>
worldVars == <<inVars, outVars, sends>>
vars == <<proc, lst, curUid, pc, job, mutex, up, keys, links, est, fdOf, sock,
          told, heard, raced, peer, inbox, sent, unread, got, sends>>

ReaderPC == {"none", "read", "lock", "handle", "handshake", "reply", "visit",
             "write", "catch", "unlink", "unlock", "notify", "remove", "close",
             "ended"}
WriterPC == {"idle", "visit", "write", "catch", "unlink"}

TypeOK ==
  /\ proc \in {"running", "exited", "terminated", "crashed"}
  /\ lst \in {"accept", "linkUp", "linkDown"}
  /\ curUid \in 0 .. MaxConns
  /\ lst # "accept" => curUid < MaxConns
  /\ pc \in [Threads -> ReaderPC \cup WriterPC]
  /\ \A u \in Uids : pc[u] \in ReaderPC
  /\ \A w \in Writers : pc[w] \in WriterPC
  /\ job \in [Threads -> Jobs]
  /\ mutex \in Uids \cup {Nobody}
  /\ up \in [Uids -> BOOLEAN]
  /\ keys \in SUBSET Uids
  /\ links \in SUBSET Uids
  /\ est \in [Uids -> BOOLEAN]
  /\ fdOf \in [Uids -> Fds \cup {Nobody}]
  /\ sock \in [Fds -> Uids \cup {Nobody}]
  /\ told \in SUBSET (Uids \cup {Broadcast})
  /\ heard \in SUBSET Uids
  /\ raced \in SUBSET Uids
  /\ peer \in [Uids -> {"none", "open", "closed"}]
  /\ inbox \in [Uids -> Nat]
  /\ sent \in [Uids -> Nat]
  /\ unread \in [Uids -> Nat]
  /\ got \in [Uids -> SUBSET Frames]
  /\ sends \in 0 .. MaxSends

NoJob == [chan |-> Broadcast, from |-> 0, target |-> 0, empty |-> FALSE,
          due |-> {}]

Init ==
  /\ proc = "running"
  /\ lst = "accept"
  /\ curUid = 0
  /\ pc = [t \in Threads |-> IF t \in Uids THEN "none" ELSE "idle"]
  /\ job = [t \in Threads |-> NoJob]
  /\ mutex = Nobody
  /\ up = [u \in Uids |-> FALSE]
  /\ keys = {}
  /\ links = {}
  /\ est = [u \in Uids |-> FALSE]
  /\ fdOf = [u \in Uids |-> Nobody]
  /\ sock = [f \in Fds |-> Nobody]
  /\ told = {}
  /\ heard = {}
  /\ raced = {}
  /\ peer = [u \in Uids |-> "none"]
  /\ inbox = [u \in Uids |-> 0]
  /\ sent = [u \in Uids |-> 0]
  /\ unread = [u \in Uids |-> 0]
  /\ got = [u \in Uids |-> {}]
  /\ sends = 0

Goto(t, l) == pc' = [pc EXCEPT ![t] = l]

-----------------------------------------------------------------------------
(***************************************************************************)
(* The clients.                                                            *)
(***************************************************************************)
PeerSend(u) ==
  /\ peer[u] = "open"
  /\ sent[u] < MaxMsgs
  /\ sent' = [sent EXCEPT ![u] = @ + 1]
  /\ inbox' = [inbox EXCEPT ![u] = @ + 1]
  /\ UNCHANGED <<proc, tableVars, pc, job, mutex, est, upperVars, peer,
                 outVars, sends>>

PeerDrain(u) ==
  /\ peer[u] = "open"
  /\ unread[u] > 0
  /\ unread' = [unread EXCEPT ![u] = @ - 1]
  /\ UNCHANGED <<proc, tableVars, pc, job, mutex, est, upperVars, inVars, got,
                 sends>>

PeerClose(u) ==
  /\ peer[u] = "open"
  /\ peer' = [peer EXCEPT ![u] = "closed"]
  /\ UNCHANGED <<proc, tableVars, pc, job, mutex, est, upperVars, inbox, sent,
                 outVars, sends>>

-----------------------------------------------------------------------------
(***************************************************************************)
(* The listener thread.  accept() takes the lowest free descriptor; the    *)
(* constructor of socketThread starts the reader before the two links      *)
(* exist.  With no descriptor left accept() fails with EMFILE and the      *)
(* thread calls exit(1).                                                   *)
(***************************************************************************)
Free(f) == sock[f] = Nobody

Accept ==
  /\ lst = "accept"
  /\ curUid < MaxConns
  /\ \E f \in Fds :
       /\ Free(f)
       /\ \A g \in Fds : Free(g) => f <= g
       /\ fdOf' = [fdOf EXCEPT ![curUid] = f]
       /\ sock' = [sock EXCEPT ![f] = curUid]
  /\ peer' = [peer EXCEPT ![curUid] = "open"]
  /\ Goto(curUid, "read")
  /\ lst' = "linkUp"
  /\ UNCHANGED <<proc, curUid, job, mutex, linkVars, est, upperVars, inbox,
                 sent, outVars, sends>>

AcceptFails ==
  /\ lst = "accept"
  /\ curUid < MaxConns
  /\ \A f \in Fds : ~Free(f)
  /\ proc' = "exited"
  /\ UNCHANGED <<tableVars, pc, job, mutex, est, upperVars, worldVars>>

\* new_socket_thread->addUpperLevel(this)
LinkUp ==
  /\ lst = "linkUp"
  /\ up' = [up EXCEPT ![curUid] = TRUE]
  /\ lst' = "linkDown"
  /\ UNCHANGED <<proc, curUid, pc, job, mutex, keys, links, est, fdVars,
                 upperVars, worldVars>>

\* Mutant: the link is made under the next uid.
LinkDown_Next ==
  /\ lst = "linkDown"
  /\ keys' = keys \cup {curUid + 1}
  /\ links' = links \cup {curUid + 1}
  /\ curUid' = curUid + 1
  /\ lst' = "accept"
  /\ UNCHANGED <<proc, pc, job, mutex, up, est, fdVars, upperVars, worldVars>>

\* this->addLowerLevel(new_socket_thread, 0, cur_uid++)
LinkDown ==
  /\ lst = "linkDown"
  /\ keys' = keys \cup {curUid}
  /\ links' = links \cup {curUid}
  /\ curUid' = curUid + 1
  /\ lst' = "accept"
  /\ UNCHANGED <<proc, pc, job, mutex, up, est, fdVars, upperVars, worldVars>>

-----------------------------------------------------------------------------
(***************************************************************************)
(* Sending: genericSocketInterface::dataFromUpperLevel, which walks        *)
(* lower_level_links, and socketThread::dataFromUpperLevel / socketWriter. *)
(***************************************************************************)
Return(t) == Goto(t, IF t \in Uids THEN "unlock" ELSE "idle")

\* dataToLowerLevel looks the channel up.  An empty map sends to no one.  A
\* missing key makes ++find() step past end(): the message may be lost, or the
\* process dies.
StartSend(t, c, e) ==
  /\ job' = [job EXCEPT ![t] = [chan |-> c, from |-> 0, target |-> 0,
                                empty |-> e, due |-> links]]
  /\ \/ /\ keys # {}
        /\ c = Broadcast \/ c \in keys
        /\ Goto(t, "visit")
        /\ UNCHANGED proc
     \/ /\ keys = {} \/ (c # Broadcast /\ c \notin keys)
        /\ Return(t)
        /\ UNCHANGED proc
     \/ /\ keys # {} /\ c # Broadcast /\ c \notin keys
        /\ proc' = "crashed"
        /\ UNCHANGED pc

\* Mutant: the walk does not stop at the requested channel.
Ahead_EveryChannel(t) == {k \in links : job[t].from <= k}

\* The links that the walk of thread t still has to visit.
Ahead(t) == {k \in links : /\ job[t].from <= k
                           /\ job[t].chan \in {Broadcast, k}}

\* Mutants: the iterator of the walk is advanced twice, or not at all.
Advanced_Twice(j, k) == [j EXCEPT !.target = k, !.from = k + 2, !.due = @ \ {k}]
Advanced_Never(j, k) == [j EXCEPT !.target = k, !.due = @ \ {k}]

\* The state of a walk that has come to link k.
Advanced(j, k) == [j EXCEPT !.target = k, !.from = k + 1, !.due = @ \ {k}]

\* The walk takes a copy of the next link, or ends.
Visit(t) ==
  /\ pc[t] = "visit"
  /\ \/ \E k \in Ahead(t) :
          /\ \A j \in Ahead(t) : k <= j
          /\ job' = [job EXCEPT ![t] = Advanced(@, k)]
          /\ Goto(t, "write")
     \/ /\ Ahead(t) = {}
        /\ Return(t)
        /\ UNCHANGED job
  /\ UNCHANGED <<proc, tableVars, mutex, est, upperVars, worldVars>>

\* write() on the descriptor of socketThread v ends up at the connection the
\* descriptor is open for now.  It blocks while that peer's buffer is full,
\* and what a closed peer is sent vanishes.
Receiver(v) == IF fdOf[v] \in Fds THEN sock[fdOf[v]] ELSE Nobody

Transmit(v, frame) ==
  LET r == Receiver(v) IN
  /\ r # Nobody
  /\ \/ /\ peer[r] = "open"
        /\ unread[r] < SndBuf
        /\ unread' = [unread EXCEPT ![r] = @ + 1]
        /\ got' = [got EXCEPT ![r] = @ \cup {frame}]
     \/ /\ peer[r] = "closed"
        /\ UNCHANGED outVars

\* Mutant: a full buffer counts as a closed socket (a non-blocking write).
Fails_WhenFull(v) ==
  Receiver(v) \notin {r \in Uids : peer[r] = "open" /\ unread[r] < SndBuf}

\* write() fails on a closed descriptor and on a connection whose peer is gone.
Fails(v) == Receiver(v) \notin {r \in Uids : peer[r] = "open"}

FrameOf(t) == [kind |-> IF t \in Uids THEN "reply" ELSE "data",
               to   |-> job[t].chan]

\* Mutant: parseUpstreamMessage does not ask for the handshake.
Mute_Never(v) == FALSE

\* parseUpstreamMessage returns nothing before the handshake is done.
Mute(v) == WS /\ ~est[v]

\* The empty message: a web socket frame has a header and is never empty; on
\* TCP write() returns 0, which socketWriter takes for a closed socket.
ZeroWrite(t) == job[t].empty /\ ~WS

Write(t) ==
  /\ pc[t] = "write"
  /\ \/ Mute(job[t].target) /\ UNCHANGED outVars
     \/ /\ ~Mute(job[t].target)
        /\ ~ZeroWrite(t)
        /\ Transmit(job[t].target, FrameOf(t))
  /\ Goto(t, "visit")
  /\ UNCHANGED <<proc, tableVars, job, mutex, est, upperVars, inVars, sends>>

\* socketWriter throws socketClosedException out of the walk.
WriteFails(t) ==
  /\ pc[t] = "write"
  /\ ~Mute(job[t].target)
  /\ ZeroWrite(t) \/ Fails(job[t].target)
  /\ Goto(t, "catch")
  /\ UNCHANGED <<proc, tableVars, job, mutex, est, upperVars, worldVars>>

\* The handler tells the level above, naming the channel of the message ...
Catch(t) ==
  /\ pc[t] = "catch"
  /\ told' = told \cup {job[t].chan}
  /\ Goto(t, "unlink")
  /\ UNCHANGED <<proc, tableVars, job, mutex, est, heard, raced, worldVars>>

\* ... and removes the link of the connection that failed.
Unlink(t) ==
  /\ pc[t] = "unlink"
  /\ links' = links \ {job[t].target}
  /\ Return(t)
  /\ UNCHANGED <<proc, listenVars, job, mutex, up, keys, est, fdVars,
                 upperVars, worldVars>>

-----------------------------------------------------------------------------
(***************************************************************************)
(* A reader thread: socketThread::socketReader.                            *)
(***************************************************************************)
Read(u) ==
  /\ pc[u] = "read"
  /\ inbox[u] > 0
  /\ inbox' = [inbox EXCEPT ![u] = @ - 1]
  /\ Goto(u, "lock")
  /\ UNCHANGED <<proc, tableVars, job, mutex, est, upperVars, peer, sent,
                 outVars, sends>>

ReadEnds(u) ==
  /\ pc[u] = "read"
  /\ inbox[u] = 0
  /\ peer[u] = "closed"
  /\ Goto(u, "notify")
  /\ UNCHANGED <<proc, tableVars, job, mutex, est, upperVars, worldVars>>

\* Mutant: the reader does not wait for the mutex.
Lock_NoWait(u) ==
  /\ pc[u] = "lock"
  /\ mutex' = u
  /\ Goto(u, "handle")
  /\ UNCHANGED <<proc, tableVars, job, est, upperVars, worldVars>>

Lock(u) ==
  /\ pc[u] = "lock"
  /\ mutex = Nobody
  /\ mutex' = u
  /\ Goto(u, "handle")
  /\ UNCHANGED <<proc, tableVars, job, est, upperVars, worldVars>>

\* parseDownstreamMessage of a web socket: a part of a message is kept back ...
Incomplete(u) ==
  /\ WS
  /\ pc[u] = "handle"
  /\ Goto(u, "unlock")
  /\ UNCHANGED <<proc, tableVars, job, mutex, est, upperVars, worldVars>>

\* ... and the end of the handshake marks the connection as established
\* and queues the reply, which the reader writes once the parser returns.
Established(u) ==
  /\ WS
  /\ pc[u] = "handle"
  /\ ~est[u]
  /\ est' = [est EXCEPT ![u] = TRUE]
  /\ Goto(u, "handshake")
  /\ UNCHANGED <<proc, tableVars, job, mutex, upperVars, worldVars>>

Handshake(u) ==
  /\ pc[u] = "handshake"
  /\ Transmit(u, [kind |-> "handshake", to |-> u])
  /\ Goto(u, "unlock")
  /\ UNCHANGED <<proc, tableVars, job, mutex, est, upperVars, inVars, sends>>

\* No handler is on the reader's stack: the exception ends the process.
HandshakeFails(u) ==
  /\ pc[u] = "handshake"
  /\ Fails(u)
  /\ proc' = "terminated"
  /\ UNCHANGED <<tableVars, pc, job, mutex, est, upperVars, worldVars>>

\* dataToUpperLevel: without the upper link the message goes nowhere.  The
\* command level may answer on the same stack.
Deliver(u) ==
  /\ pc[u] = "handle"
  /\ ~Mute(u)
  /\ \/ /\ ~up[u]
        /\ Goto(u, "unlock")
        /\ UNCHANGED heard
     \/ /\ up[u]
        /\ heard' = heard \cup {u}
        /\ \/ Upper = "command" /\ Goto(u, "reply")
           \/ Goto(u, "unlock")
  /\ UNCHANGED <<proc, tableVars, job, mutex, est, told, raced, worldVars>>

Reply(u) ==
  /\ pc[u] = "reply"
  /\ \E e \in BOOLEAN : StartSend(u, u, e)
  /\ UNCHANGED <<tableVars, mutex, est, upperVars, worldVars>>

\* Mutant: the loop is continued without pthread_mutex_unlock.
Unlock_Forgotten(u) ==
  /\ pc[u] = "unlock"
  /\ Goto(u, "read")
  /\ UNCHANGED <<proc, tableVars, job, mutex, est, upperVars, worldVars>>

Unlock(u) ==
  /\ pc[u] = "unlock"
  /\ mutex' = Nobody
  /\ Goto(u, "read")
  /\ UNCHANGED <<proc, tableVars, job, est, upperVars, worldVars>>

\* notifyUpper(this): the interface tells the level above the uid ...
Notify(u) ==
  /\ pc[u] = "notify"
  /\ \/ /\ up[u]
        /\ told' = told \cup {u}
        /\ Goto(u, "remove")
        /\ UNCHANGED raced
     \/ /\ ~up[u]
        /\ raced' = raced \cup {u}
        /\ Goto(u, "close")
        /\ UNCHANGED told
  /\ UNCHANGED <<proc, tableVars, job, mutex, est, heard, worldVars>>

\* Mutant: the map's entry is erased with the link.
Remove_ErasesKey(u) ==
  /\ pc[u] = "remove"
  /\ links' = links \ {u}
  /\ keys' = keys \ {u}
  /\ raced' = IF u \in keys THEN raced ELSE raced \cup {u}
  /\ Goto(u, "close")
  /\ UNCHANGED <<proc, listenVars, job, mutex, up, est, fdVars, told, heard,
                 worldVars>>

\* Mutant: the link is looked for under channel 0 only.
Remove_ChannelZero(u) ==
  /\ pc[u] = "remove"
  /\ links' = links \ ({u} \cap {0})
  /\ raced' = IF u \in keys THEN raced ELSE raced \cup {u}
  /\ Goto(u, "close")
  /\ UNCHANGED <<proc, listenVars, job, mutex, up, keys, est, fdVars, told,
                 heard, worldVars>>

\* ... and forgets the connection, if it is linked by now.
Remove(u) ==
  /\ pc[u] = "remove"
  /\ links' = links \ {u}
  /\ raced' = IF u \in keys THEN raced ELSE raced \cup {u}
  /\ Goto(u, "close")
  /\ UNCHANGED <<proc, listenVars, job, mutex, up, keys, est, fdVars, told,
                 heard, worldVars>>

Close(u) ==
  /\ pc[u] = "close"
  /\ sock' = [sock EXCEPT ![fdOf[u]] = Nobody]
  /\ Goto(u, "ended")
  /\ UNCHANGED <<proc, listenVars, job, mutex, linkVars, est, fdOf, upperVars,
                 worldVars>>

-----------------------------------------------------------------------------
(***************************************************************************)
(* A writer thread takes a message from the SDR, for everyone, or a line   *)
(* of a shell command's output, for the connection that sent the command.  *)
(***************************************************************************)
WriterChans == CASE Upper = "command" -> {}
                 [] Upper = "data"    -> {Broadcast}
                 [] Upper = "shell"   -> heard

StartWriter(w) ==
  /\ pc[w] = "idle"
  /\ sends < MaxSends
  /\ \E c \in WriterChans : StartSend(w, c, FALSE)
  /\ sends' = sends + 1
  /\ UNCHANGED <<tableVars, mutex, est, upperVars, inVars, outVars>>

-----------------------------------------------------------------------------
Sending(t) == Visit(t) \/ Write(t) \/ WriteFails(t) \/ Catch(t) \/ Unlink(t)

Reader(u) ==
  \/ Read(u) \/ ReadEnds(u) \/ Lock(u) \/ Incomplete(u) \/ Established(u)
  \/ Handshake(u) \/ HandshakeFails(u) \/ Deliver(u) \/ Reply(u) \/ Unlock(u)
  \/ Notify(u) \/ Remove(u) \/ Close(u)

Client(u) == PeerSend(u) \/ PeerDrain(u) \/ PeerClose(u)

Listener == Accept \/ AcceptFails \/ LinkUp \/ LinkDown

\* The bounds are used up and every connection is over, or the process is.
Finished ==
  \/ proc # "running"
  \/ /\ lst = "accept" /\ curUid = MaxConns
     /\ \A u \in Uids : pc[u] = "ended"
     /\ \A w \in Writers : pc[w] = "idle"

Step ==
  \/ Listener
  \/ \E u \in Uids : Client(u) \/ Reader(u)
  \/ \E w \in Writers : StartWriter(w)
  \/ \E t \in Threads : Sending(t)

Next ==
  \/ proc = "running" /\ Step
  \/ Finished /\ UNCHANGED vars

Spec == Init /\ [][Next]_vars

\* Every thread of the process runs on, and every client that stays connected
\* goes on reading what it is sent.  Nothing obliges a client to send, to
\* close or to connect, and no writer has to start.
Fairness ==
  /\ WF_vars(proc = "running" /\ (LinkUp \/ LinkDown))
  /\ \A u \in Uids : WF_vars(proc = "running" /\ Reader(u))
  /\ \A t \in Threads : WF_vars(proc = "running" /\ Sending(t))
  /\ \A u \in Uids : WF_vars(proc = "running" /\ PeerDrain(u))

FairSpec == Spec /\ Fairness
-----------------------------------------------------------------------------
(***************************************************************************)
(* Properties.                                                             *)
(***************************************************************************)

\* A reply, to a command or to a handshake, only ever arrives at the client it
\* answers, although descriptors are reused and links are added and removed
\* while replies are written: the reader that writes it still holds its own
\* descriptor open (genericSocketInterface.cc, socketReader: close comes last).
ReplyIsolation ==
  \A v \in Uids : \A m \in got[v] : m.kind \in {"handshake", "reply"} => m.to = v

\* At most one connection's message is being parsed or handled by the level
\* above at a time (socketReader: the shared mutex), and the reader that is
\* inside holds the mutex until it leaves.
InsidePC == {"handle", "handshake", "reply", "visit", "write", "catch",
             "unlink", "unlock"}
OneReaderInside ==
  /\ \A u, v \in Uids : pc[u] \in InsidePC /\ pc[v] \in InsidePC => u = v
  /\ \A u \in Uids : pc[u] \in InsidePC => mutex = u

\* The walk past the end of lower_level_links (dataToLowerLevel with an unknown
\* channel) can only kill the process while the listener is between the two
\* links of a connection.  A send to a connection that is over is harmless,
\* because its key stays in the map.
CrashOnlyWhileLinking ==
  proc = "crashed" => lst = "linkDown" /\ keys # {} /\ curUid \notin keys

\* When a connection has ended, the level above has been told and no link to it
\* is left, unless it ended before the listener had linked it.
EndedIsForgotten ==
  \A u \in Uids : pc[u] = "ended" /\ u \notin raced => u \in told /\ u \notin links

\* A link is only removed when the client of that connection is gone: a slow or
\* a busy client is never unlinked (socketWriter blocks; only n <= 0 unlinks).
UnlinkedOnlyWhenGone ==
  [][\A u \in Uids : u \in links /\ u \notin links' => peer[u] = "closed"]_vars

\* A broadcast that runs to its end has come to every connection that was
\* linked when it began and still is (dataToLowerLevel), whatever connections
\* came and went during the walk.
BroadcastComplete ==
  [][\A w \in Writers :
       pc[w] = "visit" /\ pc'[w] = "idle" /\ job[w].chan = Broadcast
         => job[w].due \cap links = {}]_vars

\* A web socket client is sent something before the reply to its handshake in two
\* windows only: between connection_established = true and the writing of that
\* reply, where a broadcast, which takes no mutex, may overtake it; and over the
\* descriptor number of an ended connection, to which a walk still has the link
\* (parseDownstreamMessage, parseUpstreamMessage, socketReader, socketWriter).
Greeting(v) == [kind |-> "handshake", to |-> v]
HandshakeFirst ==
  [][\A v \in Uids : got'[v] # got[v] =>
       \/ Greeting(v) \in got'[v]
       \/ pc[v] = "handshake"
       \/ \E w \in Writers : /\ pc[w] = "write"
                             /\ pc[job[w].target] = "ended"
                             /\ fdOf[job[w].target] = fdOf[v]]_vars

\* Once its client is gone, the reader of a connection ends and gives the
\* descriptor back, if the other clients go on reading what they are sent.
ClosedIsReleased ==
  \A u \in Uids : peer[u] = "closed" ~> (pc[u] = "ended" \/ proc # "running")

\* Every send of a writer thread ends, if the clients go on reading.
SendEnds ==
  \A w \in Writers : pc[w] = "visit" ~> (pc[w] = "idle" \/ proc # "running")
=============================================================================
