------------------------ MODULE SocketInterfaceProofs ------------------------
(***************************************************************************)
(* Theorems about SocketInterface, for every number of clients, set of     *)
(* descriptors, set of writers, kind of upper level and bound.             *)
(***************************************************************************)
EXTENDS SocketInterface, TLAPS

\* What the tuples of unchanged variables stand for.
USE DEF listenVars, linkVars, fdVars, upperVars, inVars, outVars, tableVars,
        worldVars

LEMMA ThreadFacts ==
  /\ 0 \in Uids
  /\ Uids \subseteq Int
  /\ Nobody \notin Uids
  /\ Uids \subseteq Threads
  /\ Writers \subseteq Threads
  /\ \A t \in Threads : t \notin Uids <=> t \in Writers
  /\ \A u \in Uids : u \in 0 .. MaxConns /\ u + 1 \in 0 .. MaxConns
BY BoundsAssumption, KindAssumption DEF Uids, Threads, Nobody

-----------------------------------------------------------------------------
(***************************************************************************)
(* Type correctness.                                                       *)
(***************************************************************************)
LEMMA TypeInit == Init => TypeOK
<1> SUFFICES ASSUME Init PROVE TypeOK
  OBVIOUS
<1>1. NoJob \in Jobs
  BY ThreadFacts, BoundsAssumption DEF NoJob, Jobs
<1>2. pc \in [Threads -> ReaderPC \cup WriterPC]
  BY DEF Init, ReaderPC, WriterPC
<1> QED
  BY <1>1, <1>2, ThreadFacts, BoundsAssumption
  DEF Init, TypeOK, ReaderPC, WriterPC, Nobody

LEMMA GotoType ==
  ASSUME TypeOK, NEW t \in Threads, NEW l, Goto(t, l),
         t \in Uids => l \in ReaderPC, t \in Writers => l \in WriterPC
  PROVE  /\ pc' \in [Threads -> ReaderPC \cup WriterPC]
         /\ \A u \in Uids : pc'[u] \in ReaderPC
         /\ \A w \in Writers : pc'[w] \in WriterPC
BY ThreadFacts DEF TypeOK, Goto

LEMMA ReturnType ==
  ASSUME TypeOK, NEW t \in Threads, Return(t)
  PROVE  /\ pc' \in [Threads -> ReaderPC \cup WriterPC]
         /\ \A u \in Uids : pc'[u] \in ReaderPC
         /\ \A w \in Writers : pc'[w] \in WriterPC
<1>1. CASE t \in Uids
  <2>1. Goto(t, "unlock")
    BY <1>1 DEF Return
  <2> QED
    BY <1>1, <2>1, ThreadFacts, GotoType DEF ReaderPC
<1>2. CASE t \in Writers
  <2>1. Goto(t, "idle")
    BY <1>2, ThreadFacts DEF Return
  <2> QED
    BY <1>2, <2>1, ThreadFacts, GotoType DEF WriterPC
<1> QED
  BY <1>1, <1>2, ThreadFacts

LEMMA StartSendType ==
  ASSUME TypeOK, NEW t \in Threads, NEW c \in Uids \cup {Broadcast},
         NEW e \in BOOLEAN, StartSend(t, c, e)
  PROVE  /\ job' \in [Threads -> Jobs]
         /\ proc' \in {"running", "exited", "terminated", "crashed"}
         /\ pc' \in [Threads -> ReaderPC \cup WriterPC]
         /\ \A u \in Uids : pc'[u] \in ReaderPC
         /\ \A w \in Writers : pc'[w] \in WriterPC
<1>1. [chan |-> c, from |-> 0, target |-> 0, empty |-> e, due |-> links] \in Jobs
  BY ThreadFacts, BoundsAssumption DEF Jobs, TypeOK
<1>2. job' \in [Threads -> Jobs]
  BY <1>1 DEF StartSend, TypeOK
<1>3. CASE Goto(t, "visit") /\ UNCHANGED proc
  BY <1>2, <1>3, GotoType DEF TypeOK, ReaderPC, WriterPC
<1>4. CASE Return(t) /\ UNCHANGED proc
  BY <1>2, <1>4, ReturnType DEF TypeOK
<1>5. CASE UNCHANGED pc /\ proc' = "crashed"
  BY <1>2, <1>5 DEF TypeOK
<1> QED
  BY <1>3, <1>4, <1>5 DEF StartSend

LEMMA TransmitType ==
  ASSUME TypeOK, NEW v \in Uids, NEW frame \in Frames, Transmit(v, frame)
  PROVE  unread' \in [Uids -> Nat] /\ got' \in [Uids -> SUBSET Frames]
<1>1. Receiver(v) \in Uids \cup {Nobody}
  BY DEF Receiver, TypeOK
<1> QED
  BY <1>1 DEF Transmit, TypeOK

LEMMA AdvancedType ==
  ASSUME NEW j \in Jobs, NEW k \in Uids, k + 1 \in 0 .. MaxConns
  PROVE  /\ Advanced(j, k) \in Jobs
         /\ Advanced(j, k).chan = j.chan
         /\ Advanced(j, k).target = k
BY DEF Advanced, Jobs

LEMMA TypeClient ==
  ASSUME TypeOK, NEW u \in Uids, Client(u) PROVE TypeOK'
<1>1. CASE PeerSend(u)
  BY <1>1 DEF PeerSend, TypeOK
<1>2. CASE PeerDrain(u)
  BY <1>2 DEF PeerDrain, TypeOK
<1>3. CASE PeerClose(u)
  BY <1>3 DEF PeerClose, TypeOK
<1> QED
  BY <1>1, <1>2, <1>3 DEF Client

LEMMA TypeListener ==
  ASSUME TypeOK, Listener PROVE TypeOK'
<1>1. CASE Accept
  <2>1. curUid \in Uids /\ curUid < MaxConns
    BY <1>1, BoundsAssumption DEF Accept, TypeOK, Uids
  <2>2. Goto(curUid, "read") /\ curUid \in Threads /\ curUid \notin Writers
    BY <1>1, <2>1, ThreadFacts DEF Accept
  <2>3. fdOf' \in [Uids -> Fds \cup {Nobody}] /\ sock' \in [Fds -> Uids \cup {Nobody}]
    BY <1>1, <2>1 DEF Accept, TypeOK
  <2> QED
    BY <1>1, <2>1, <2>2, <2>3, GotoType DEF Accept, TypeOK, ReaderPC
<1>2. CASE AcceptFails
  BY <1>2 DEF AcceptFails, TypeOK
<1>3. CASE LinkUp
  BY <1>3 DEF LinkUp, TypeOK
<1>4. CASE LinkDown
  <2>1. curUid \in Uids /\ curUid + 1 \in 0 .. MaxConns
    BY <1>4, BoundsAssumption DEF LinkDown, TypeOK, Uids
  <2> QED
    BY <1>4, <2>1 DEF LinkDown, TypeOK
<1> QED
  BY <1>1, <1>2, <1>3, <1>4 DEF Listener

LEMMA TypeReader ==
  ASSUME TypeOK, NEW u \in Uids, Reader(u) PROVE TypeOK'
<1> DEFINE PCType == /\ pc' \in [Threads -> ReaderPC \cup WriterPC]
                     /\ \A v \in Uids : pc'[v] \in ReaderPC
                     /\ \A w \in Writers : pc'[w] \in WriterPC
<1>u. u \in Threads /\ u \notin Writers
  BY ThreadFacts
<1>g. \A l \in ReaderPC : Goto(u, l) => PCType
  BY <1>u, GotoType
<1> HIDE DEF PCType
<1>1. CASE Read(u)
  <2>1. PCType
    BY <1>1, <1>g DEF Read, ReaderPC
  <2> QED
    BY <1>1, <2>1 DEF Read, TypeOK, PCType
<1>2. CASE ReadEnds(u)
  <2>1. PCType
    BY <1>2, <1>g DEF ReadEnds, ReaderPC
  <2> QED
    BY <1>2, <2>1 DEF ReadEnds, TypeOK, PCType
<1>3. CASE Lock(u)
  <2>1. PCType
    BY <1>3, <1>g DEF Lock, ReaderPC
  <2> QED
    BY <1>3, <2>1 DEF Lock, TypeOK, PCType
<1>4. CASE Incomplete(u)
  <2>1. PCType
    BY <1>4, <1>g DEF Incomplete, ReaderPC
  <2> QED
    BY <1>4, <2>1 DEF Incomplete, TypeOK, PCType
<1>5. CASE Established(u)
  <2>1. PCType
    BY <1>5, <1>g DEF Established, ReaderPC
  <2> QED
    BY <1>5, <2>1 DEF Established, TypeOK, PCType
<1>6. CASE Handshake(u)
  <2>1. PCType
    BY <1>6, <1>g DEF Handshake, ReaderPC
  <2>2. unread' \in [Uids -> Nat] /\ got' \in [Uids -> SUBSET Frames]
    <3>1. [kind |-> "handshake", to |-> u] \in Frames
      BY DEF Frames
    <3> QED
      BY <1>6, <3>1, TransmitType DEF Handshake
  <2> QED
    BY <1>6, <2>1, <2>2 DEF Handshake, TypeOK, PCType
<1>7. CASE HandshakeFails(u)
  BY <1>7 DEF HandshakeFails, TypeOK
<1>8. CASE Deliver(u)
  <2>1. PCType
    BY <1>8, <1>g DEF Deliver, ReaderPC
  <2> QED
    BY <1>8, <2>1 DEF Deliver, TypeOK, PCType
<1>9. CASE Reply(u)
  <2>1. PICK e \in BOOLEAN : StartSend(u, u, e)
    BY <1>9 DEF Reply
  <2>2. /\ job' \in [Threads -> Jobs]
        /\ proc' \in {"running", "exited", "terminated", "crashed"}
        /\ PCType
    BY <2>1, <1>u, StartSendType DEF PCType
  <2> QED
    BY <1>9, <2>2 DEF Reply, TypeOK, PCType
<1>10. CASE Unlock(u)
  <2>1. PCType
    BY <1>10, <1>g DEF Unlock, ReaderPC
  <2> QED
    BY <1>10, <2>1 DEF Unlock, TypeOK, PCType
<1>11. CASE Notify(u)
  <2>1. PCType
    BY <1>11, <1>g DEF Notify, ReaderPC
  <2> QED
    BY <1>11, <2>1 DEF Notify, TypeOK, PCType
<1>12. CASE Remove(u)
  <2>1. PCType
    BY <1>12, <1>g DEF Remove, ReaderPC
  <2> QED
    BY <1>12, <2>1 DEF Remove, TypeOK, PCType
<1>13. CASE Close(u)
  <2>1. PCType
    BY <1>13, <1>g DEF Close, ReaderPC
  <2> QED
    BY <1>13, <2>1 DEF Close, TypeOK, PCType
<1> QED
  BY <1>1, <1>2, <1>3, <1>4, <1>5, <1>6, <1>7, <1>8, <1>9, <1>10, <1>11,
     <1>12, <1>13 DEF Reader

LEMMA TypeWriter ==
  ASSUME TypeOK, NEW w \in Writers, StartWriter(w) PROVE TypeOK'
<1>1. PICK c \in WriterChans : StartSend(w, c, FALSE)
  BY DEF StartWriter
<1>2. c \in Uids \cup {Broadcast}
  BY KindAssumption DEF WriterChans, TypeOK
<1>3. /\ job' \in [Threads -> Jobs]
      /\ proc' \in {"running", "exited", "terminated", "crashed"}
      /\ pc' \in [Threads -> ReaderPC \cup WriterPC]
      /\ \A u \in Uids : pc'[u] \in ReaderPC
      /\ \A v \in Writers : pc'[v] \in WriterPC
  BY <1>1, <1>2, ThreadFacts, StartSendType
<1>4. sends' \in 0 .. MaxSends
  BY BoundsAssumption DEF StartWriter, TypeOK
<1> QED
  BY <1>3, <1>4 DEF StartWriter, TypeOK

LEMMA TypeSending ==
  ASSUME TypeOK, NEW t \in Threads, Sending(t) PROVE TypeOK'
<1>j. job[t].target \in Uids /\ job[t].chan \in Uids \cup {Broadcast}
  BY DEF TypeOK, Jobs
<1>1. CASE Visit(t)
  <2>1. ASSUME NEW k \in Ahead(t),
               job' = [job EXCEPT ![t] = Advanced(@, k)],
               Goto(t, "write")
        PROVE  TypeOK'
    <3>1. k \in Uids /\ k + 1 \in 0 .. MaxConns
      BY ThreadFacts DEF Ahead, TypeOK
    <3>2. job' \in [Threads -> Jobs]
      <4>1. Advanced(job[t], k) \in Jobs
        BY <3>1, AdvancedType DEF TypeOK
      <4> QED
        BY <2>1, <4>1 DEF TypeOK
    <3> QED
      BY <1>1, <2>1, <3>2, GotoType DEF Visit, TypeOK, ReaderPC, WriterPC
  <2>2. CASE Return(t) /\ UNCHANGED job
    BY <1>1, <2>2, ReturnType DEF Visit, TypeOK
  <2> QED
    BY <1>1, <2>1, <2>2 DEF Visit
<1>2. CASE Write(t)
  <2>1. FrameOf(t) \in Frames
    BY <1>j DEF FrameOf, Frames
  <2>2. unread' \in [Uids -> Nat] /\ got' \in [Uids -> SUBSET Frames]
    BY <1>2, <1>j, <2>1, TransmitType DEF Write, TypeOK
  <2> QED
    BY <1>2, <2>2, GotoType DEF Write, TypeOK, ReaderPC, WriterPC
<1>3. CASE WriteFails(t)
  BY <1>3, GotoType DEF WriteFails, TypeOK, ReaderPC, WriterPC
<1>4. CASE Catch(t)
  BY <1>4, <1>j, GotoType DEF Catch, TypeOK, ReaderPC, WriterPC
<1>5. CASE Unlink(t)
  BY <1>5, ReturnType DEF Unlink, TypeOK
<1> QED
  BY <1>1, <1>2, <1>3, <1>4, <1>5 DEF Sending

\* Every variable keeps its type: in particular the walk of the links never
\* leaves the uids that were handed out (dataToLowerLevel), and the listener is
\* between two links only for a connection that exists (connectionListenerThread).
THEOREM TypeCorrect == Spec => []TypeOK
<1>1. Init => TypeOK
  BY TypeInit
<1>2. TypeOK /\ [Next]_vars => TypeOK'
  <2> SUFFICES ASSUME TypeOK, [Next]_vars PROVE TypeOK'
    OBVIOUS
  <2>1. CASE UNCHANGED vars
    BY <2>1 DEF vars, TypeOK
  <2>2. CASE Step
    BY <2>2, TypeClient, TypeListener, TypeReader, TypeWriter, TypeSending DEF Step
  <2> QED
    BY <2>1, <2>2 DEF Next
<1> QED
  BY <1>1, <1>2, PTL DEF Spec

-----------------------------------------------------------------------------
(***************************************************************************)
(* The inductive invariant.  ReplyIsolation alone is not inductive: that a *)
(* reader writes to its own socket rests on its descriptor still being its *)
(* own (Owned), and on the send it is in being the one it began (OwnJob).  *)
(***************************************************************************)
\* A reader that has not closed its descriptor yet owns it.
Owned ==
  \A u \in Uids : pc[u] \notin {"none", "ended"} =>
                    fdOf[u] \in Fds /\ sock[fdOf[u]] = u

\* The send a reader is in is the reply to its own connection.
OwnJob ==
  \A u \in Uids :
    /\ pc[u] \in {"visit", "write", "catch", "unlink"} => job[u].chan = u
    /\ pc[u] \in {"write", "catch", "unlink"} => job[u].target = u

\* The mutex is held by the reader inside, and by no one else.
Guarded == \A u \in Uids : pc[u] \in InsidePC <=> mutex = u

\* Uids are handed out in order; the keys of the map are those handed out.
Numbered ==
  /\ keys = {k \in Uids : k < curUid}
  /\ links \subseteq keys
  /\ \A u \in Uids :
       /\ up[u] <=> (u < curUid \/ (u = curUid /\ lst = "linkDown"))
       /\ pc[u] = "none" <=> (u > curUid \/ (u = curUid /\ lst = "accept"))
       /\ u \in heard \/ pc[u] = "reply" => up[u]

\* What the end of a connection has done so far.
Leaving ==
  \A u \in Uids :
    /\ pc[u] \in {"remove", "close", "ended"} /\ u \notin raced => u \in told
    /\ pc[u] \in {"close", "ended"} /\ u \notin raced => u \in keys /\ u \notin links

IInv == /\ TypeOK
        /\ Owned
        /\ OwnJob
        /\ Guarded
        /\ Numbered
        /\ Leaving
        /\ ReplyIsolation
        /\ CrashOnlyWhileLinking

LEMMA InvInit == Init => IInv
<1> SUFFICES ASSUME Init PROVE IInv
  OBVIOUS
<1>1. TypeOK
  BY TypeInit
<1>2. \A u \in Uids : u >= 0 /\ u \in Int /\ u # Nobody /\ pc[u] = "none"
  BY ThreadFacts DEF Init, Uids, Nobody
<1>3. Owned /\ OwnJob /\ Guarded /\ Leaving
  BY <1>2 DEF Init, Owned, OwnJob, Guarded, Leaving, InsidePC
<1>4. Numbered
  BY <1>2 DEF Init, Numbered
<1>5. ReplyIsolation /\ CrashOnlyWhileLinking
  BY DEF Init, ReplyIsolation, CrashOnlyWhileLinking
<1> QED
  BY <1>1, <1>3, <1>4, <1>5 DEF IInv

\* A reader that leaves its program location for another one, alone.
LEMMA GotoElsewhere ==
  ASSUME TypeOK, NEW t \in Threads, NEW l, Goto(t, l)
  PROVE  /\ pc'[t] = l
         /\ \A s \in Threads : s # t => pc'[s] = pc[s]
BY DEF TypeOK, Goto

LEMMA InvClient ==
  ASSUME IInv, NEW u \in Uids, Client(u) PROVE IInv'
<1> USE DEF IInv
<1>1. TypeOK'
  BY TypeClient
<1>2. UNCHANGED <<proc, listenVars, pc, job, mutex, linkVars, fdVars,
                  upperVars, got>>
  BY DEF Client, PeerSend, PeerDrain, PeerClose
<1> QED
  BY <1>1, <1>2 DEF Owned, OwnJob, Guarded, Numbered, Leaving, ReplyIsolation,
                    CrashOnlyWhileLinking

LEMMA InvListener ==
  ASSUME IInv, proc = "running", Listener PROVE IInv'
<1> USE DEF IInv
<1>1. TypeOK'
  BY TypeListener
<1>2. CASE Accept
  <2>1. curUid \in Uids /\ curUid \in Threads
    BY <1>2, BoundsAssumption, ThreadFacts DEF Accept, TypeOK, Uids
  <2>2. pc[curUid] = "none"
    BY <1>2, <2>1 DEF Accept, Numbered
  <2>3. /\ pc'[curUid] = "read"
        /\ \A s \in Threads : s # curUid => pc'[s] = pc[s]
    BY <1>2, <2>1, GotoElsewhere DEF Accept
  <2>4. Owned'
    <3>1. PICK f \in Fds : /\ sock[f] = Nobody
                           /\ fdOf' = [fdOf EXCEPT ![curUid] = f]
                           /\ sock' = [sock EXCEPT ![f] = curUid]
      BY <1>2 DEF Accept, Free
    <3>2. ASSUME NEW u \in Uids, pc'[u] \notin {"none", "ended"}
          PROVE  fdOf'[u] \in Fds /\ sock'[fdOf'[u]] = u
      <4>1. CASE u = curUid
        BY <3>1, <4>1 DEF TypeOK
      <4>2. CASE u # curUid
        <5>1. fdOf[u] \in Fds /\ sock[fdOf[u]] = u
          BY <2>3, <3>2, <4>2, ThreadFacts DEF Owned
        <5>2. fdOf[u] # f
          BY <3>1, <5>1, ThreadFacts
        <5> QED
          BY <3>1, <4>2, <5>1, <5>2 DEF TypeOK
      <4> QED
        BY <4>1, <4>2
    <3> QED
      BY <3>2 DEF Owned
  <2>5. OwnJob' /\ Guarded' /\ Leaving'
    BY <1>2, <2>1, <2>2, <2>3, ThreadFacts
    DEF Accept, OwnJob, Guarded, Leaving, InsidePC
  <2>6. Numbered'
    BY <1>2, <2>1, <2>2, <2>3, ThreadFacts DEF Accept, Numbered, TypeOK
  <2>7. ReplyIsolation' /\ CrashOnlyWhileLinking'
    BY <1>2 DEF Accept, ReplyIsolation, CrashOnlyWhileLinking
  <2> QED
    BY <1>1, <2>4, <2>5, <2>6, <2>7
<1>3. CASE AcceptFails
  BY <1>1, <1>3 DEF AcceptFails, Owned, OwnJob, Guarded, Numbered, Leaving,
                    ReplyIsolation, CrashOnlyWhileLinking
<1>4. CASE LinkUp
  <2>1. curUid \in Uids
    BY <1>4, BoundsAssumption DEF LinkUp, TypeOK, Uids
  <2>2. Numbered'
    BY <1>4, <2>1, ThreadFacts DEF LinkUp, Numbered, TypeOK
  <2> QED
    BY <1>1, <1>4, <2>2 DEF LinkUp, Owned, OwnJob, Guarded, Leaving,
                            ReplyIsolation, CrashOnlyWhileLinking
<1>5. CASE LinkDown
  <2>1. curUid \in Uids
    BY <1>5, BoundsAssumption DEF LinkDown, TypeOK, Uids
  <2>2. curUid \notin keys /\ curUid \in Int
    BY DEF Numbered, TypeOK
  <2>3. Numbered'
    <3>1. keys' = {k \in Uids : k < curUid + 1}
      <4>1. \A k \in Uids : k < curUid + 1 <=> k < curUid \/ k = curUid
        BY <2>2, ThreadFacts
      <4> QED
        BY <1>5, <2>1, <4>1 DEF LinkDown, Numbered
    <3>2. links' \subseteq keys'
      BY <1>5 DEF LinkDown, Numbered
    <3>3. \A u \in Uids : /\ u < curUid + 1 <=> u < curUid \/ u = curUid
                          /\ u > curUid <=> u > curUid + 1 \/ u = curUid + 1
      BY <2>2, ThreadFacts
    <3>4. ASSUME NEW u \in Uids
          PROVE  /\ up'[u] <=> (u < curUid' \/ (u = curUid' /\ lst' = "linkDown"))
                 /\ pc'[u] = "none" <=> (u > curUid' \/ (u = curUid' /\ lst' = "accept"))
                 /\ u \in heard' \/ pc'[u] = "reply" => up'[u]
      BY <1>5, <3>3 DEF LinkDown, Numbered
    <3> QED
      BY <1>5, <3>1, <3>2, <3>4 DEF LinkDown, Numbered
  <2>4. Leaving'
    BY <1>5, <2>2 DEF LinkDown, Leaving
  <2> QED
    BY <1>1, <1>5, <2>3, <2>4 DEF LinkDown, Owned, OwnJob, Guarded,
                            ReplyIsolation, CrashOnlyWhileLinking
<1> QED
  BY <1>2, <1>3, <1>4, <1>5 DEF Listener

\* The descriptor of a reader that runs is open for its own connection.
LEMMA OwnReceiver ==
  ASSUME TypeOK, Owned, NEW u \in Uids, pc[u] \notin {"none", "ended"}
  PROVE  Receiver(u) = u
BY DEF Owned, Receiver

\* A frame that reaches the connection it answers keeps the replies apart.
LEMMA TransmitIsolates ==
  ASSUME TypeOK, ReplyIsolation, NEW v \in Uids, NEW frame, Transmit(v, frame),
         frame.kind \in {"handshake", "reply"} => frame.to = Receiver(v)
  PROVE  ReplyIsolation'
<1>1. Receiver(v) \in Uids
  BY DEF Receiver, Transmit, TypeOK
<1>2. CASE got' = got
  BY <1>2 DEF ReplyIsolation
<1>3. CASE got' = [got EXCEPT ![Receiver(v)] = @ \cup {frame}]
  BY <1>1, <1>3 DEF ReplyIsolation, TypeOK
<1> QED
  BY <1>2, <1>3 DEF Transmit

LEMMA InvReader ==
  ASSUME IInv, proc = "running", NEW u \in Uids, Reader(u) PROVE IInv'
<1> USE DEF IInv
<1>t. TypeOK'
  BY TypeReader
<1>u. u \in Threads /\ u # Nobody
  BY ThreadFacts
<1>p. \A l : Goto(u, l) => /\ pc'[u] = l
                           /\ \A s \in Uids : s # u => pc'[s] = pc[s]
  BY <1>u, ThreadFacts, GotoElsewhere
<1> DEFINE Quiet == UNCHANGED <<proc, listenVars, job, linkVars, fdVars,
                                told, raced>>
<1>1. CASE Read(u) \/ ReadEnds(u) \/ Incomplete(u) \/ Established(u)
  <2>1. /\ Quiet /\ UNCHANGED <<mutex, heard, got>>
        /\ pc[u] \in {"read", "handle"}
        /\ pc'[u] \in {"lock", "notify", "unlock", "handshake"}
        /\ pc[u] = "read" <=> pc'[u] \in {"lock", "notify"}
        /\ \A s \in Uids : s # u => pc'[s] = pc[s]
    BY <1>1, <1>p DEF Read, ReadEnds, Incomplete, Established
  <2>2. Owned' /\ OwnJob' /\ Guarded' /\ Leaving'
    BY <2>1 DEF Owned, OwnJob, Guarded, Leaving, InsidePC
  <2> QED
    BY <1>t, <2>1, <2>2 DEF Numbered, ReplyIsolation, CrashOnlyWhileLinking
<1>2. CASE Lock(u)
  <2>1. /\ Quiet /\ UNCHANGED <<heard, got>>
        /\ mutex = Nobody /\ mutex' = u
        /\ pc[u] = "lock" /\ pc'[u] = "handle"
        /\ \A s \in Uids : s # u => pc'[s] = pc[s]
    BY <1>2, <1>p DEF Lock
  <2>2. Guarded'
    BY <2>1, ThreadFacts DEF Guarded, InsidePC
  <2> QED
    BY <1>t, <2>1, <2>2 DEF Owned, OwnJob, Leaving, Numbered, ReplyIsolation,
                            CrashOnlyWhileLinking
<1>3. CASE Handshake(u)
  <2>1. /\ Quiet /\ UNCHANGED <<mutex, heard>>
        /\ pc[u] = "handshake" /\ pc'[u] = "unlock"
        /\ \A s \in Uids : s # u => pc'[s] = pc[s]
    BY <1>3, <1>p DEF Handshake
  <2>2. ReplyIsolation'
    BY <1>3, <2>1, OwnReceiver, TransmitIsolates DEF Handshake
  <2> QED
    BY <1>t, <2>1, <2>2 DEF Owned, OwnJob, Guarded, InsidePC, Leaving, Numbered,
                            CrashOnlyWhileLinking
<1>4. CASE HandshakeFails(u)
  BY <1>t, <1>4 DEF HandshakeFails, Owned, OwnJob, Guarded, Leaving, Numbered,
                    ReplyIsolation, CrashOnlyWhileLinking
<1>5. CASE Deliver(u)
  <2>1. /\ Quiet /\ UNCHANGED <<mutex, got>>
        /\ pc[u] = "handle" /\ pc'[u] \in {"unlock", "reply"}
        /\ heard' = heard \/ (heard' = heard \cup {u} /\ up[u])
        /\ pc'[u] = "reply" => up[u]
        /\ \A s \in Uids : s # u => pc'[s] = pc[s]
    BY <1>5, <1>p DEF Deliver
  <2>2. Numbered'
    BY <2>1 DEF Numbered
  <2> QED
    BY <1>t, <2>1, <2>2 DEF Owned, OwnJob, Guarded, InsidePC, Leaving,
                            ReplyIsolation, CrashOnlyWhileLinking
<1>6. CASE Reply(u)
  <2>1. PICK e \in BOOLEAN : StartSend(u, u, e)
    BY <1>6 DEF Reply
  <2>2. /\ UNCHANGED <<listenVars, linkVars, fdVars, upperVars, mutex, got>>
        /\ pc[u] = "reply"
    BY <1>6 DEF Reply
  <2>3. job'[u].chan = u /\ \A s \in Uids : s # u => job'[s] = job[s]
    BY <1>u, <2>1, ThreadFacts DEF StartSend, TypeOK
  <2>4. /\ pc'[u] \in {"visit", "unlock", "reply"}
        /\ \A s \in Uids : s # u => pc'[s] = pc[s]
        /\ pc'[u] = "reply" => up[u]
    BY <1>p, <2>1, <2>2 DEF StartSend, Return, Numbered
  <2>5. Owned' /\ OwnJob' /\ Guarded' /\ Leaving'
    BY <2>2, <2>3, <2>4 DEF Owned, OwnJob, Guarded, Leaving, InsidePC
  <2>6. Numbered' /\ ReplyIsolation'
    BY <2>2, <2>4 DEF Numbered, ReplyIsolation
  <2>7. CrashOnlyWhileLinking'
    <3>1. CASE proc' = "running"
      BY <3>1 DEF CrashOnlyWhileLinking
    <3>2. CASE keys # {} /\ u \notin keys
      BY <2>2, <3>2, ThreadFacts DEF CrashOnlyWhileLinking, Numbered, Broadcast
    <3> QED
      BY <2>1, <3>1, <3>2 DEF StartSend
  <2> QED
    BY <1>t, <2>5, <2>6, <2>7
<1>7. CASE Unlock(u)
  <2>1. /\ Quiet /\ UNCHANGED <<heard, got>>
        /\ mutex' = Nobody
        /\ pc[u] = "unlock" /\ pc'[u] = "read"
        /\ \A s \in Uids : s # u => pc'[s] = pc[s]
    BY <1>7, <1>p DEF Unlock
  <2>2. Guarded'
    BY <2>1, ThreadFacts DEF Guarded, InsidePC
  <2> QED
    BY <1>t, <2>1, <2>2 DEF Owned, OwnJob, Leaving, Numbered, ReplyIsolation,
                            CrashOnlyWhileLinking
<1>8. CASE Notify(u)
  <2>1. /\ UNCHANGED <<proc, listenVars, job, linkVars, fdVars, mutex, heard, got>>
        /\ pc[u] = "notify" /\ pc'[u] \in {"remove", "close"}
        /\ pc'[u] = "remove" => told' = told \cup {u} /\ raced' = raced
        /\ pc'[u] = "close" => told' = told /\ raced' = raced \cup {u}
        /\ \A s \in Uids : s # u => pc'[s] = pc[s]
    BY <1>8, <1>p DEF Notify
  <2>2. Leaving'
    BY <2>1 DEF Leaving
  <2> QED
    BY <1>t, <2>1, <2>2 DEF Owned, OwnJob, Guarded, InsidePC, Numbered,
                            ReplyIsolation, CrashOnlyWhileLinking
<1>9. CASE Remove(u)
  <2>1. /\ UNCHANGED <<proc, listenVars, job, up, keys, fdVars, mutex, heard,
                       told, got>>
        /\ links' = links \ {u}
        /\ raced' = IF u \in keys THEN raced ELSE raced \cup {u}
        /\ pc[u] = "remove" /\ pc'[u] = "close"
        /\ \A s \in Uids : s # u => pc'[s] = pc[s]
    BY <1>9, <1>p DEF Remove
  <2>2. Leaving' /\ Numbered'
    BY <2>1 DEF Leaving, Numbered
  <2> QED
    BY <1>t, <2>1, <2>2 DEF Owned, OwnJob, Guarded, InsidePC, ReplyIsolation,
                            CrashOnlyWhileLinking
<1>10. CASE Close(u)
  <2>1. /\ UNCHANGED <<proc, listenVars, job, linkVars, fdOf, mutex, upperVars, got>>
        /\ sock' = [sock EXCEPT ![fdOf[u]] = Nobody]
        /\ pc[u] = "close" /\ pc'[u] = "ended"
        /\ \A s \in Uids : s # u => pc'[s] = pc[s]
    BY <1>10, <1>p DEF Close
  <2>2. Owned'
    <3>1. sock[fdOf[u]] = u
      BY <2>1 DEF Owned
    <3>2. ASSUME NEW s \in Uids, pc'[s] \notin {"none", "ended"}
          PROVE  fdOf'[s] \in Fds /\ sock'[fdOf'[s]] = s
      <4>1. s # u /\ fdOf[s] \in Fds /\ sock[fdOf[s]] = s
        BY <2>1, <3>2 DEF Owned
      <4> QED
        BY <2>1, <3>1, <4>1 DEF TypeOK
    <3> QED
      BY <3>2 DEF Owned
  <2> QED
    BY <1>t, <2>1, <2>2 DEF OwnJob, Guarded, InsidePC, Leaving, Numbered,
                            ReplyIsolation, CrashOnlyWhileLinking
<1> QED
  BY <1>1, <1>2, <1>3, <1>4, <1>5, <1>6, <1>7, <1>8, <1>9, <1>10 DEF Reader

LEMMA InvWriter ==
  ASSUME IInv, proc = "running", NEW w \in Writers, StartWriter(w) PROVE IInv'
<1> USE DEF IInv
<1>1. TypeOK'
  BY TypeWriter
<1>2. PICK c \in WriterChans : StartSend(w, c, FALSE)
  BY DEF StartWriter
<1>3. UNCHANGED <<listenVars, linkVars, fdVars, upperVars, mutex, got>>
  BY DEF StartWriter
<1>4. w \in Threads /\ w \notin Uids
  BY ThreadFacts
<1>5. \A s \in Uids : pc'[s] = pc[s] /\ job'[s] = job[s]
  BY <1>2, <1>4, ThreadFacts, GotoElsewhere DEF StartSend, Return, TypeOK
<1>6. Owned' /\ OwnJob' /\ Guarded' /\ Leaving' /\ Numbered' /\ ReplyIsolation'
  BY <1>3, <1>5 DEF Owned, OwnJob, Guarded, Leaving, Numbered, ReplyIsolation
<1>7. CrashOnlyWhileLinking'
  <2>1. CASE proc' = "running"
    BY <2>1 DEF CrashOnlyWhileLinking
  <2>2. CASE keys # {} /\ c # Broadcast /\ c \notin keys
    <3>1. c \in Uids /\ up[c]
      BY <2>2, KindAssumption DEF WriterChans, Numbered, TypeOK
    <3> QED
      BY <1>3, <2>2, <3>1 DEF CrashOnlyWhileLinking, Numbered
  <2> QED
    BY <1>2, <2>1, <2>2 DEF StartSend
<1> QED
  BY <1>1, <1>6, <1>7

LEMMA InvSending ==
  ASSUME IInv, proc = "running", NEW t \in Threads, Sending(t) PROVE IInv'
<1> USE DEF IInv
<1>t. TypeOK'
  BY TypeSending
<1>j. job[t] \in Jobs
  BY DEF TypeOK
<1>p. \A l : Goto(t, l) => /\ pc'[t] = l
                           /\ \A s \in Uids : s # t => pc'[s] = pc[s]
  BY ThreadFacts, GotoElsewhere
<1>1. CASE Visit(t)
  <2>1. /\ UNCHANGED <<proc, listenVars, mutex, linkVars, fdVars, upperVars, got>>
        /\ pc[t] = "visit"
    BY <1>1 DEF Visit
  <2>2. \A s \in Uids : s # t => pc'[s] = pc[s] /\ job'[s] = job[s]
    BY <1>1, <1>p, ThreadFacts DEF Visit, Return, TypeOK
  <2>3. t \in Uids => /\ pc'[t] \in {"write", "unlock"}
                      /\ pc'[t] = "write" => job'[t].chan = t /\ job'[t].target = t
    <3>1. ASSUME t \in Uids, NEW k \in Ahead(t),
                 job' = [job EXCEPT ![t] = Advanced(@, k)], Goto(t, "write")
          PROVE  job'[t].chan = t /\ job'[t].target = t
      <4>1. job[t].chan = t /\ t # Broadcast
        BY <2>1, <3>1, ThreadFacts DEF OwnJob, Broadcast, Nobody
      <4>2. k = t
        BY <4>1 DEF Ahead
      <4>3. job'[t] = Advanced(job[t], t)
        BY <3>1, <4>2 DEF TypeOK
      <4>4. t + 1 \in 0 .. MaxConns
        BY <3>1, ThreadFacts
      <4> QED
        BY <3>1, <1>j, <4>1, <4>3, <4>4, AdvancedType
    <3> QED
      BY <1>1, <1>p, <3>1 DEF Visit, Return
  <2>4. Owned' /\ OwnJob' /\ Guarded' /\ Leaving'
    BY <2>1, <2>2, <2>3 DEF Owned, OwnJob, Guarded, InsidePC, Leaving
  <2>5. Numbered'
    BY <2>1, <2>2, <2>3 DEF Numbered
  <2> QED
    BY <1>t, <2>1, <2>4, <2>5 DEF ReplyIsolation, CrashOnlyWhileLinking
<1>2. CASE Write(t)
  <2>1. /\ UNCHANGED <<proc, listenVars, job, mutex, linkVars, fdVars, upperVars>>
        /\ pc[t] = "write" /\ pc'[t] = "visit"
        /\ \A s \in Uids : s # t => pc'[s] = pc[s]
    BY <1>2, <1>p DEF Write
  <2>2. ReplyIsolation'
    <3>1. CASE UNCHANGED outVars
      BY <3>1 DEF ReplyIsolation
    <3>2. CASE Transmit(job[t].target, FrameOf(t))
      <4>1. job[t].target \in Uids
        BY <1>j DEF Jobs
      <4>2. CASE t \in Uids
        <5>1. job[t].chan = t /\ job[t].target = t
          BY <2>1, <4>2 DEF OwnJob
        <5>2. FrameOf(t).to = Receiver(job[t].target)
          BY <2>1, <4>2, <5>1, OwnReceiver DEF FrameOf
        <5> QED
          BY <3>2, <4>1, <5>2, TransmitIsolates
      <4>3. CASE t \notin Uids
        <5>1. FrameOf(t).kind = "data"
          BY <4>3 DEF FrameOf
        <5> QED
          BY <3>2, <4>1, <5>1, TransmitIsolates
      <4> QED
        BY <4>2, <4>3
    <3> QED
      BY <1>2, <3>1, <3>2 DEF Write
  <2>3. Owned' /\ OwnJob' /\ Guarded' /\ Leaving' /\ Numbered'
    BY <2>1 DEF Owned, OwnJob, Guarded, InsidePC, Leaving, Numbered
  <2> QED
    BY <1>t, <2>1, <2>2, <2>3 DEF CrashOnlyWhileLinking
<1>3. CASE WriteFails(t) \/ Catch(t)
  <2>1. /\ UNCHANGED <<proc, listenVars, job, mutex, linkVars, fdVars, heard,
                       raced, got>>
        /\ told \subseteq told'
        /\ pc[t] \in {"write", "catch"} /\ pc'[t] \in {"catch", "unlink"}
        /\ \A s \in Uids : s # t => pc'[s] = pc[s]
    BY <1>3, <1>p DEF WriteFails, Catch
  <2>2. Owned' /\ OwnJob' /\ Guarded' /\ Leaving' /\ Numbered'
    BY <2>1 DEF Owned, OwnJob, Guarded, InsidePC, Leaving, Numbered
  <2> QED
    BY <1>t, <2>1, <2>2 DEF ReplyIsolation, CrashOnlyWhileLinking
<1>4. CASE Unlink(t)
  <2>1. /\ UNCHANGED <<proc, listenVars, job, mutex, up, keys, fdVars,
                       upperVars, got>>
        /\ links' \subseteq links
        /\ pc[t] = "unlink"
        /\ t \in Uids => pc'[t] = "unlock"
        /\ \A s \in Uids : s # t => pc'[s] = pc[s]
    BY <1>4, <1>p DEF Unlink, Return
  <2>2. Owned' /\ OwnJob' /\ Guarded' /\ Leaving' /\ Numbered'
    BY <2>1 DEF Owned, OwnJob, Guarded, InsidePC, Leaving, Numbered
  <2> QED
    BY <1>t, <2>1, <2>2 DEF ReplyIsolation, CrashOnlyWhileLinking
<1> QED
  BY <1>1, <1>2, <1>3, <1>4 DEF Sending

LEMMA InvStep == IInv /\ [Next]_vars => IInv'
<1> SUFFICES ASSUME IInv, [Next]_vars PROVE IInv'
  OBVIOUS
<1>1. CASE UNCHANGED vars
  <2>1. TypeOK'
    BY <1>1 DEF vars, IInv, TypeOK
  <2> QED
    BY <1>1, <2>1 DEF vars, IInv, Owned, OwnJob, Guarded, Numbered, Leaving,
                 ReplyIsolation, CrashOnlyWhileLinking
<1>2. CASE proc = "running" /\ Step
  BY <1>2, InvClient, InvListener, InvReader, InvWriter, InvSending DEF Step
<1> QED
  BY <1>1, <1>2 DEF Next

THEOREM Invariance == Spec => []IInv
<1> QED
  BY InvInit, InvStep, PTL DEF Spec

-----------------------------------------------------------------------------
\* A reply arrives at no client but the one it answers, whatever is unlinked,
\* closed, reused or linked while it is written (socketReader keeps its
\* descriptor until it has left its loop).
THEOREM RepliesStayApart == Spec => []ReplyIsolation
<1>1. IInv => ReplyIsolation
  BY DEF IInv
<1> QED
  BY <1>1, Invariance, PTL

\* The shared mutex keeps the readers of an interface out of each other's way
\* inside the level above (socketReader, lock to unlock).
THEOREM ReadersExclude == Spec => []OneReaderInside
<1>1. IInv => OneReaderInside
  BY DEF IInv, Guarded, OneReaderInside
<1> QED
  BY <1>1, Invariance, PTL

\* The walk past the end of lower_level_links happens in the listener's window
\* between the two links of a connection, and at no other time.
THEOREM CrashWindow == Spec => []CrashOnlyWhileLinking
<1>1. IInv => CrashOnlyWhileLinking
  BY DEF IInv
<1> QED
  BY <1>1, Invariance, PTL

\* A connection that was fully linked before it ended leaves no link behind and
\* its end is reported (notificationFromLower comes before close).
THEOREM EndsAreForgotten == Spec => []EndedIsForgotten
<1>1. IInv => EndedIsForgotten
  BY DEF IInv, Leaving, EndedIsForgotten
<1> QED
  BY <1>1, Invariance, PTL

-----------------------------------------------------------------------------
(***************************************************************************)
(* The walk of a broadcast: what is due and still linked lies ahead.  What *)
(* is due was linked when the walk began, so that its key is there, and the*)
(* listener links no key a second time.                                    *)
(***************************************************************************)
Walking(t) == pc[t] \in {"visit", "write"} /\ job[t].chan = Broadcast
DueAhead(t) == /\ job[t].due \subseteq keys
               /\ \A k \in job[t].due \cap links : job[t].from <= k
WalkInv == \A t \in Threads : Walking(t) => DueAhead(t)

\* Only the listener adds to the table, and keys that were not there.
LEMMA TableGrows ==
  ASSUME IInv, proc = "running", Step
  PROVE  keys \subseteq keys' /\ links' \cap keys \subseteq links
<1>1. ASSUME LinkDown PROVE keys \subseteq keys' /\ links' \cap keys \subseteq links
  <2>1. curUid \notin keys
    BY DEF IInv, Numbered, TypeOK
  <2> QED
    BY <1>1, <2>1 DEF LinkDown
<1>2. ASSUME NEW u \in Uids, Remove(u) PROVE UNCHANGED keys /\ links' \subseteq links
  BY <1>2 DEF Remove
<1>3. ASSUME NEW t \in Threads, Unlink(t) PROVE UNCHANGED keys /\ links' \subseteq links
  BY <1>3 DEF Unlink
<1>4. ASSUME Accept \/ AcceptFails \/ LinkUp PROVE UNCHANGED <<keys, links>>
  BY <1>4 DEF Accept, AcceptFails, LinkUp
<1>5. ASSUME NEW u \in Uids, Client(u) \/ (Reader(u) /\ ~Remove(u))
      PROVE  UNCHANGED <<keys, links>>
  BY <1>5 DEF Client, PeerSend, PeerDrain, PeerClose, Reader, Read, ReadEnds, Lock,
     Incomplete, Established, Handshake, HandshakeFails, Deliver, Reply, Unlock, Notify,
     Close
<1>6. ASSUME NEW w \in Writers, StartWriter(w) PROVE UNCHANGED <<keys, links>>
  BY <1>6 DEF StartWriter
<1>7. ASSUME NEW t \in Threads, Visit(t) \/ Write(t) \/ WriteFails(t) \/ Catch(t)
      PROVE  UNCHANGED <<keys, links>>
  BY <1>7 DEF Visit, Write, WriteFails, Catch
<1> QED
  BY <1>1, <1>2, <1>3, <1>4, <1>5, <1>6, <1>7 DEF Step, Listener, Sending

\* A step of a thread moves that thread only, and a send but by its own walk.
LEMMA OneMoves ==
  ASSUME IInv, proc = "running", Step
  PROVE  \E t \in Threads :
           /\ \A s \in Threads : s # t => pc'[s] = pc[s] /\ job'[s] = job[s]
           /\ \/ \E c \in Uids \cup {Broadcast}, e \in BOOLEAN :
                   StartSend(t, c, e) /\ (StartWriter(t) \/ (t \in Uids /\ Reply(t)))
              \/ Sending(t)
              \/ /\ UNCHANGED job
                 /\ \/ pc'[t] = pc[t]
                    \/ t \in Uids /\ pc'[t] \notin {"visit", "write", "catch", "unlink"}
<1> USE DEF IInv
<1>p. \A t \in Threads : \A l : Goto(t, l) => /\ pc'[t] = l
                                          /\ \A s \in Threads : s # t => pc'[s] = pc[s]
  BY GotoElsewhere
<1>r. \A t \in Threads : Return(t) => \A s \in Threads : s # t => pc'[s] = pc[s]
  BY <1>p DEF Return
<1>s. ASSUME NEW t \in Threads, NEW c, NEW e, StartSend(t, c, e)
      PROVE  \A s \in Threads : s # t => pc'[s] = pc[s] /\ job'[s] = job[s]
  BY <1>s, <1>p, <1>r DEF StartSend, TypeOK
<1>1. ASSUME Listener PROVE UNCHANGED job
             /\ \E t \in Threads : /\ \A s \in Threads : s # t => pc'[s] = pc[s]
                                   /\ pc'[t] = pc[t] \/ (t \in Uids /\ pc'[t] = "read")
  <2>1. CASE Accept
    <3>1. curUid \in Threads /\ curUid \in Uids
      BY <2>1, BoundsAssumption, ThreadFacts DEF Accept, TypeOK, Uids
    <3> QED
      BY <2>1, <3>1, <1>p DEF Accept
  <2>2. CASE AcceptFails \/ LinkUp \/ LinkDown
    BY <2>2, ThreadFacts DEF AcceptFails, LinkUp, LinkDown
  <2> QED
    BY <1>1, <2>1, <2>2 DEF Listener
<1>2. ASSUME NEW u \in Uids, Client(u) PROVE UNCHANGED <<pc, job>>
  BY <1>2 DEF Client, PeerSend, PeerDrain, PeerClose
<1>3. ASSUME NEW u \in Uids, Reader(u), ~Reply(u)
      PROVE  /\ UNCHANGED job
             /\ \A s \in Threads : s # u => pc'[s] = pc[s]
             /\ pc'[u] = pc[u] \/ pc'[u] \notin {"visit", "write", "catch", "unlink"}
  <2>1. u \in Threads
    BY ThreadFacts
  <2>2. UNCHANGED job /\ (UNCHANGED pc \/ \E l \in {"lock", "notify", "handle", "unlock",
          "handshake", "reply", "read", "remove", "close", "ended"} : Goto(u, l))
    BY <1>3 DEF Reader, Read, ReadEnds, Lock, Incomplete, Established, Handshake,
       HandshakeFails, Deliver, Unlock, Notify, Remove, Close
  <2> QED
    BY <2>1, <2>2, <1>p
<1>4. ASSUME NEW u \in Uids, Reply(u)
      PROVE  \E e \in BOOLEAN : StartSend(u, u, e)
  BY <1>4 DEF Reply
<1>5. ASSUME NEW w \in Writers, StartWriter(w)
      PROVE  \E c \in Uids \cup {Broadcast} : StartSend(w, c, FALSE)
  BY <1>5, KindAssumption DEF StartWriter, WriterChans, TypeOK
<1>6. ASSUME NEW t \in Threads, Sending(t)
      PROVE  \A s \in Threads : s # t => pc'[s] = pc[s] /\ job'[s] = job[s]
  BY <1>6, <1>p, <1>r DEF Sending, Visit, Write, WriteFails, Catch, Unlink, TypeOK
<1>7. CASE \E u \in Uids : Reply(u)
  BY <1>7, <1>4, <1>s, ThreadFacts
<1>8. CASE \E w \in Writers : StartWriter(w)
  BY <1>8, <1>5, <1>s, ThreadFacts
<1>9. CASE \E t \in Threads : Sending(t)
  BY <1>9, <1>6
<1>10. CASE Listener
  BY <1>10, <1>1
<1>11. CASE \E u \in Uids : Client(u) \/ (Reader(u) /\ ~Reply(u))
  BY <1>11, <1>2, <1>3, ThreadFacts
<1> QED
  BY <1>7, <1>8, <1>9, <1>10, <1>11 DEF Step

LEMMA WalkStep ==
  ASSUME IInv, WalkInv, [Next]_vars PROVE WalkInv'
<1>1. CASE UNCHANGED vars
  BY <1>1 DEF vars, WalkInv, Walking, DueAhead
<1>2. CASE proc = "running" /\ Step
  <2>1. keys \subseteq keys' /\ links' \cap keys \subseteq links
    BY <1>2, TableGrows
  <2>2. ASSUME NEW s \in Threads, Walking(s), job'[s] = job[s] PROVE DueAhead(s)'
    BY <2>1, <2>2 DEF WalkInv, DueAhead
  <2>3. PICK t \in Threads :
           /\ \A s \in Threads : s # t => pc'[s] = pc[s] /\ job'[s] = job[s]
           /\ \/ \E c \in Uids \cup {Broadcast}, e \in BOOLEAN :
                   StartSend(t, c, e) /\ (StartWriter(t) \/ (t \in Uids /\ Reply(t)))
              \/ Sending(t)
              \/ /\ UNCHANGED job
                 /\ \/ pc'[t] = pc[t]
                    \/ t \in Uids /\ pc'[t] \notin {"visit", "write", "catch", "unlink"}
    BY <1>2, OneMoves
  <2>4. ASSUME NEW s \in Threads, s # t, Walking(s)' PROVE DueAhead(s)'
    BY <2>2, <2>3, <2>4 DEF Walking
  <2>5. ASSUME Walking(t)' PROVE DueAhead(t)'
    <3>1. CASE /\ UNCHANGED job
               /\ pc'[t] = pc[t] \/ pc'[t] \notin {"visit", "write", "catch", "unlink"}
      BY <2>2, <2>5, <3>1 DEF Walking
    <3>2. CASE \E c \in Uids \cup {Broadcast}, e \in BOOLEAN :
                   StartSend(t, c, e) /\ (StartWriter(t) \/ (t \in Uids /\ Reply(t)))
      <4>1. job'[t].due = links /\ job'[t].from = 0
        BY <3>2 DEF StartSend, IInv, TypeOK
      <4>2. links \subseteq keys /\ \A k \in keys : 0 <= k
        BY ThreadFacts DEF IInv, Numbered, Uids
      <4> QED
        BY <2>1, <4>1, <4>2 DEF DueAhead
    <3>3. CASE Visit(t)
      <4>1. PICK k \in Ahead(t) : /\ \A j \in Ahead(t) : k <= j
                                  /\ job' = [job EXCEPT ![t] = Advanced(@, k)]
                                  /\ pc[t] = "visit"
        BY <2>5, <3>3, ThreadFacts, GotoElsewhere
        DEF Visit, Walking, Return, IInv
      <4>2. job[t] \in Jobs /\ k \in Uids
        BY DEF IInv, TypeOK, Ahead
      <4>3. /\ job'[t].chan = job[t].chan /\ job'[t].from = k + 1
            /\ job'[t].due = job[t].due \ {k}
        BY <4>1, <4>2 DEF IInv, TypeOK, Advanced, Jobs
      <4>4. Walking(t)
        BY <2>5, <4>1, <4>3 DEF Walking
      <4>5. job[t].due \subseteq keys /\ \A j \in job[t].due \cap links : job[t].from <= j
        BY <4>4 DEF WalkInv, DueAhead
      <4>6. ASSUME NEW j \in job'[t].due \cap links' PROVE k + 1 <= j
        <5>1. j \in job[t].due /\ j \in links /\ j # k
          BY <2>1, <4>3, <4>5, <4>6
        <5>2. j \in Ahead(t) /\ j \in Uids
          BY <4>4, <4>5, <5>1 DEF Ahead, Walking, IInv, TypeOK
        <5> QED
          BY <4>1, <4>2, <5>1, <5>2, ThreadFacts
      <4> QED
        BY <2>1, <4>3, <4>5, <4>6 DEF DueAhead
    <3>4. CASE Write(t)
      BY <2>2, <2>5, <3>4 DEF Write, Walking
    <3>5. CASE WriteFails(t) \/ Catch(t) \/ Unlink(t)
      <4>1. pc'[t] \notin {"visit", "write"}
        BY <3>5, GotoElsewhere DEF WriteFails, Catch, Unlink, Return, IInv
      <4> QED
        BY <2>5, <4>1 DEF Walking
    <3> QED
      BY <2>3, <3>1, <3>2, <3>3, <3>4, <3>5 DEF Sending
  <2> QED
    BY <2>4, <2>5 DEF WalkInv
<1> QED
  BY <1>1, <1>2 DEF Next

\* A broadcast that runs to its end came to every connection that was linked when
\* it began and still is, for any number of connections that come and go, and of
\* broadcasts at once (hierarchicalDataflowBlock.cc, dataToLowerLevel).
THEOREM BroadcastsAreComplete == Spec => BroadcastComplete
<1>1. Init => IInv /\ WalkInv
  BY InvInit DEF Init, WalkInv, Walking
<1>2. IInv /\ WalkInv /\ [Next]_vars => IInv' /\ WalkInv'
  BY InvStep, WalkStep
<1>3. IInv /\ WalkInv /\ [Next]_vars =>
        [\A w \in Writers :
           pc[w] = "visit" /\ pc'[w] = "idle" /\ job[w].chan = Broadcast
             => job[w].due \cap links = {}]_vars
  <2> SUFFICES ASSUME IInv, WalkInv, proc = "running", Step, NEW w \in Writers,
                      pc[w] = "visit", pc'[w] = "idle", job[w].chan = Broadcast
               PROVE  job[w].due \cap links = {}
    BY DEF Next
  <2>1. w \in Threads
    BY ThreadFacts
  <2>2. PICK t \in Threads :
           /\ \A s \in Threads : s # t => pc'[s] = pc[s] /\ job'[s] = job[s]
           /\ \/ \E c \in Uids \cup {Broadcast}, e \in BOOLEAN :
                   StartSend(t, c, e) /\ (StartWriter(t) \/ (t \in Uids /\ Reply(t)))
              \/ Sending(t)
              \/ /\ UNCHANGED job
                 /\ \/ pc'[t] = pc[t]
                    \/ t \in Uids /\ pc'[t] \notin {"visit", "write", "catch", "unlink"}
    BY OneMoves
  <2>3. Visit(w)
    <3>1. t = w /\ w \notin Uids
      BY <2>1, <2>2, ThreadFacts
    <3>2. ~StartWriter(w)
      BY DEF StartWriter
    <3>3. Sending(w)
      BY <2>2, <3>1, <3>2
    <3> QED
      BY <3>3 DEF Sending, Write, WriteFails, Catch, Unlink
  <2>4. Ahead(w) = {}
    BY <2>1, <2>3, GotoElsewhere DEF Visit, IInv
  <2>5. \A k \in job[w].due \cap links : k \in Ahead(w)
    BY <2>1 DEF WalkInv, Walking, DueAhead, Ahead
  <2> QED
    BY <2>4, <2>5
<1> QED
  BY <1>1, <1>2, <1>3, PTL DEF Spec, BroadcastComplete

-----------------------------------------------------------------------------
(***************************************************************************)
(* Who is unlinked.  An empty message, on which write() returns 0, is the  *)
(* reply of a command socket without frames and no other.                  *)
(***************************************************************************)
NeverEmpty == WS \/ Upper # "command"

\* A client is there from the time it is accepted until its reader ends.
PeerInv ==
  \A u \in Uids :
    /\ pc[u] = "none" <=> peer[u] = "none"
    /\ pc[u] \in {"notify", "remove", "close", "ended"} => peer[u] = "closed"

\* A send writes to connections that were linked, and is given up for a client
\* that is gone.
SendsInv ==
  /\ Upper # "command" => \A u \in Uids : pc[u] # "reply"
  /\ \A t \in Threads :
       /\ pc[t] \in {"visit", "write"} => ~ZeroWrite(t)
       /\ pc[t] \in {"write", "catch", "unlink"} => job[t].target \in keys
       /\ pc[t] \in {"catch", "unlink"} => peer[job[t].target] = "closed"

LEMMA PeerStep ==
  ASSUME IInv, PeerInv, [Next]_vars
  PROVE  PeerInv' /\ \A u \in Uids : peer[u] = "closed" => peer'[u] = "closed"
<1> DEFINE Kept == \A u \in Uids : peer[u] = "closed" => peer'[u] = "closed"
<1> USE DEF IInv
<1>p. \A t \in Threads : \A l : Goto(t, l) => /\ pc'[t] = l
                                          /\ \A s \in Threads : s # t => pc'[s] = pc[s]
  BY GotoElsewhere
<1>1. CASE UNCHANGED <<pc, peer>>
  BY <1>1 DEF PeerInv
<1>2. ASSUME NEW u \in Uids, Client(u) PROVE PeerInv' /\ Kept
  BY <1>2 DEF Client, PeerSend, PeerDrain, PeerClose, PeerInv, TypeOK
<1>3. ASSUME Accept PROVE PeerInv' /\ Kept
  <2>1. curUid \in Uids /\ curUid \in Threads
    BY <1>3, BoundsAssumption, ThreadFacts DEF Accept, TypeOK, Uids
  <2>2. pc[curUid] = "none"
    BY <1>3, <2>1 DEF Accept, Numbered
  <2>3. pc'[curUid] = "read" /\ peer'[curUid] = "open" /\ peer[curUid] = "none"
    BY <1>3, <1>p, <2>1, <2>2 DEF Accept, TypeOK, PeerInv
  <2>4. \A u \in Uids : u # curUid => pc'[u] = pc[u] /\ peer'[u] = peer[u]
    BY <1>3, <1>p, <2>1, ThreadFacts DEF Accept, TypeOK
  <2> QED
    BY <2>3, <2>4 DEF PeerInv
<1>4. ASSUME AcceptFails \/ LinkUp \/ LinkDown PROVE UNCHANGED <<pc, peer>>
  BY <1>4 DEF AcceptFails, LinkUp, LinkDown
<1>5. ASSUME NEW u \in Uids, Reader(u) PROVE PeerInv' /\ Kept
  <2>1. UNCHANGED peer /\ u \in Threads
    BY <1>5, ThreadFacts DEF Reader, Read, ReadEnds, Lock, Incomplete, Established,
       Handshake, HandshakeFails, Deliver, Reply, Unlock, Notify, Remove, Close
  <2>2. \A s \in Uids : s # u => pc'[s] = pc[s]
    BY <1>5, <1>p, <2>1, ThreadFacts
    DEF Reader, Read, ReadEnds, Lock, Incomplete, Established, Handshake, HandshakeFails,
        Deliver, Reply, StartSend, Return, Unlock, Notify, Remove, Close
  <2>3. pc[u] # "none" /\ pc'[u] # "none"
    BY <1>5, <1>p, <2>1, ThreadFacts
    DEF Reader, Read, ReadEnds, Lock, Incomplete, Established, Handshake, HandshakeFails,
        Deliver, Reply, StartSend, Return, Unlock, Notify, Remove, Close
  <2>4. pc'[u] \in {"notify", "remove", "close", "ended"} => peer[u] = "closed"
    BY <1>5, <1>p, <2>1, ThreadFacts
    DEF Reader, Read, ReadEnds, Lock, Incomplete, Established, Handshake, HandshakeFails,
        Deliver, Reply, StartSend, Return, Unlock, Notify, Remove, Close, PeerInv
  <2> QED
    BY <2>1, <2>2, <2>3, <2>4 DEF PeerInv
<1>6. ASSUME NEW w \in Writers, StartWriter(w) PROVE PeerInv' /\ Kept
  <2>1. UNCHANGED peer /\ \A u \in Uids : pc'[u] = pc[u]
    BY <1>6, <1>p, ThreadFacts DEF StartWriter, StartSend, Return
  <2> QED
    BY <2>1 DEF PeerInv
<1>7. ASSUME NEW t \in Threads, Sending(t) PROVE PeerInv' /\ Kept
  <2>1. UNCHANGED peer /\ \A u \in Uids : u # t => pc'[u] = pc[u]
    BY <1>7, <1>p, ThreadFacts DEF Sending, Visit, Write, WriteFails, Catch, Unlink, Return
  <2>2. /\ pc[t] \in {"visit", "write", "catch", "unlink"}
        /\ t \in Uids => pc'[t] \in {"visit", "write", "catch", "unlink", "unlock"}
    BY <1>7, <1>p DEF Sending, Visit, Write, WriteFails, Catch, Unlink, Return
  <2> QED
    BY <2>1, <2>2 DEF PeerInv
<1>8. CASE UNCHANGED vars
  BY <1>1, <1>8 DEF vars
<1> QED
  BY <1>1, <1>2, <1>3, <1>4, <1>5, <1>6, <1>7, <1>8 DEF Next, Step, Listener

\* A write that fails, fails for a client that is gone.
LEMMA FailsWhenGone ==
  ASSUME IInv, PeerInv, NEW v \in keys, Fails(v) PROVE peer[v] = "closed"
<1>1. v \in Uids /\ pc[v] # "none"
  BY ThreadFacts DEF IInv, Numbered, TypeOK
<1>2. CASE pc[v] = "ended"
  BY <1>1, <1>2 DEF PeerInv
<1>3. CASE pc[v] # "ended"
  <2>1. Receiver(v) = v
    BY <1>1, <1>3, OwnReceiver DEF IInv
  <2> QED
    BY <1>1, <2>1 DEF Fails, PeerInv, IInv, TypeOK
<1> QED
  BY <1>2, <1>3

LEMMA NoRepliesStep ==
  ASSUME IInv, SendsInv, [Next]_vars, Upper # "command"
  PROVE  \A u \in Uids : pc'[u] # "reply"
<1> USE DEF IInv
<1>p. \A t \in Threads : \A l : Goto(t, l) => /\ pc'[t] = l
                                          /\ \A s \in Threads : s # t => pc'[s] = pc[s]
  BY GotoElsewhere
<1>1. CASE UNCHANGED pc
  BY <1>1 DEF SendsInv
<1>2. ASSUME NEW t \in Threads, NEW l, Goto(t, l), l # "reply"
      PROVE  \A u \in Uids : pc'[u] # "reply"
  BY <1>2, <1>p, ThreadFacts DEF SendsInv
<1>3. ASSUME NEW t \in Threads, Return(t) PROVE \A u \in Uids : pc'[u] # "reply"
  BY <1>2, <1>3 DEF Return
<1>4. ASSUME NEW t \in Threads, NEW c, NEW e, StartSend(t, c, e)
      PROVE  \A u \in Uids : pc'[u] # "reply"
  BY <1>1, <1>2, <1>3, <1>4 DEF StartSend
<1>5. ASSUME Listener PROVE \A u \in Uids : pc'[u] # "reply"
  <2>1. Accept => curUid \in Threads
    BY BoundsAssumption, ThreadFacts DEF Accept, TypeOK, Uids
  <2> QED
    BY <1>1, <1>2, <1>5, <2>1 DEF Listener, Accept, AcceptFails, LinkUp, LinkDown
<1>6. ASSUME NEW u \in Uids, Client(u) \/ Reader(u) PROVE \A v \in Uids : pc'[v] # "reply"
  <2>1. u \in Threads
    BY ThreadFacts
  <2> QED
    BY <1>1, <1>2, <1>4, <1>6, <2>1
    DEF Client, PeerSend, PeerDrain, PeerClose, Reader, Read, ReadEnds, Lock, Incomplete,
        Established, Handshake, HandshakeFails, Deliver, Reply, Unlock, Notify, Remove, Close
<1>7. ASSUME NEW w \in Writers, StartWriter(w) PROVE \A u \in Uids : pc'[u] # "reply"
  BY <1>4, <1>7, ThreadFacts DEF StartWriter
<1>8. ASSUME NEW t \in Threads, Sending(t) PROVE \A u \in Uids : pc'[u] # "reply"
  BY <1>2, <1>3, <1>8 DEF Sending, Visit, Write, WriteFails, Catch, Unlink
<1> QED
  BY <1>1, <1>5, <1>6, <1>7, <1>8 DEF Next, Step, vars

LEMMA SendsStep ==
  ASSUME NeverEmpty, IInv, PeerInv, SendsInv, [Next]_vars PROVE SendsInv'
<1> DEFINE Fine(t) ==
       /\ pc[t] \in {"visit", "write"} => ~ZeroWrite(t)
       /\ pc[t] \in {"write", "catch", "unlink"} => job[t].target \in keys
       /\ pc[t] \in {"catch", "unlink"} => peer[job[t].target] = "closed"
<1>1. CASE UNCHANGED vars
  BY <1>1 DEF vars, SendsInv, ZeroWrite
<1>2. CASE proc = "running" /\ Step
  <2>1. keys \subseteq keys' /\ \A u \in Uids : peer[u] = "closed" => peer'[u] = "closed"
    BY <1>2, TableGrows, PeerStep
  <2>2. PICK t \in Threads :
           /\ \A s \in Threads : s # t => pc'[s] = pc[s] /\ job'[s] = job[s]
           /\ \/ \E c \in Uids \cup {Broadcast}, e \in BOOLEAN :
                   StartSend(t, c, e) /\ (StartWriter(t) \/ (t \in Uids /\ Reply(t)))
              \/ Sending(t)
              \/ /\ UNCHANGED job
                 /\ \/ pc'[t] = pc[t]
                    \/ t \in Uids /\ pc'[t] \notin {"visit", "write", "catch", "unlink"}
    BY <1>2, OneMoves
  <2>3. \A s \in Threads : job[s].target \in Uids
    BY DEF IInv, TypeOK, Jobs
  <2>4. ASSUME NEW s \in Threads, pc'[s] = pc[s], job'[s] = job[s] PROVE Fine(s)'
    BY <2>1, <2>3, <2>4 DEF SendsInv, ZeroWrite
  <2>5. Fine(t)'
    <3>1. CASE UNCHANGED job /\ pc'[t] \notin {"visit", "write", "catch", "unlink"}
      BY <3>1
    <3>2. CASE StartWriter(t)
      <4>1. PICK c \in WriterChans : StartSend(t, c, FALSE)
        BY <3>2 DEF StartWriter
      <4>2. pc[t] = "idle" /\ ~job'[t].empty
        BY <3>2, <4>1 DEF StartWriter, StartSend, IInv, TypeOK
      <4>3. pc'[t] \in {"visit", "unlock", "idle"}
        BY <4>1, <4>2, GotoElsewhere DEF StartSend, Return, IInv
      <4> QED
        BY <4>2, <4>3 DEF ZeroWrite
    <3>3. CASE t \in Uids /\ Reply(t)
      <4>1. WS
        BY <3>3 DEF Reply, SendsInv, NeverEmpty
      <4>2. pc'[t] \in {"visit", "unlock", "reply"}
        BY <3>3, GotoElsewhere DEF Reply, StartSend, Return, IInv
      <4> QED
        BY <4>1, <4>2 DEF ZeroWrite
    <3>4. CASE Visit(t)
      <4>1. CASE \E k \in Ahead(t) : /\ job' = [job EXCEPT ![t] = Advanced(@, k)]
                                     /\ Goto(t, "write")
        <5>1. PICK k \in Ahead(t) : /\ job' = [job EXCEPT ![t] = Advanced(@, k)]
                                    /\ Goto(t, "write")
          BY <4>1
        <5>2. job[t] \in Jobs /\ k \in Uids /\ k \in keys
          BY DEF IInv, TypeOK, Ahead, Numbered
        <5>3. job'[t].target = k /\ job'[t].empty = job[t].empty /\ pc'[t] = "write"
          BY <5>1, <5>2, GotoElsewhere DEF IInv, TypeOK, Advanced, Jobs
        <5>4. ~ZeroWrite(t)
          BY <3>4 DEF SendsInv, Visit
        <5> QED
          BY <2>1, <5>2, <5>3, <5>4 DEF ZeroWrite
      <4>2. CASE Return(t)
        <5>1. pc'[t] \in {"unlock", "idle"}
          BY <4>2, GotoElsewhere DEF Return, IInv
        <5> QED
          BY <5>1
      <4> QED
        BY <3>4, <4>1, <4>2 DEF Visit
    <3>5. CASE Write(t)
      <4>1. pc'[t] = "visit" /\ UNCHANGED job /\ ~ZeroWrite(t)
        BY <3>5, GotoElsewhere DEF Write, IInv, SendsInv
      <4> QED
        BY <4>1 DEF ZeroWrite
    <3>6. CASE WriteFails(t)
      <4>1. pc'[t] = "catch" /\ UNCHANGED job /\ job[t].target \in keys /\ Fails(job[t].target)
        BY <3>6, GotoElsewhere DEF WriteFails, IInv, SendsInv
      <4>2. peer[job[t].target] = "closed"
        BY <4>1, FailsWhenGone
      <4> QED
        BY <2>1, <2>3, <4>1, <4>2
    <3>7. CASE Catch(t)
      <4>1. pc[t] = "catch" /\ pc'[t] = "unlink" /\ UNCHANGED job
        BY <3>7, GotoElsewhere DEF Catch, IInv
      <4> QED
        BY <2>1, <2>3, <4>1 DEF SendsInv
    <3>8. CASE Unlink(t)
      <4>1. pc'[t] \in {"unlock", "idle"}
        BY <3>8, GotoElsewhere DEF Unlink, Return, IInv
      <4> QED
        BY <4>1
    <3> QED
      BY <2>2, <2>4, <3>1, <3>2, <3>3, <3>4, <3>5, <3>6, <3>7, <3>8 DEF Sending
  <2>6. \A s \in Threads : Fine(s)'
    BY <2>2, <2>4, <2>5
  <2>7. Upper # "command" => \A u \in Uids : pc'[u] # "reply"
    BY NoRepliesStep
  <2> QED
    BY <2>6, <2>7 DEF SendsInv
<1> QED
  BY <1>1, <1>2 DEF Next

\* A link is removed for a client that is gone, and for no other, unless an empty
\* reply of a command socket without frames is taken for the end of a connection:
\* a slow client stays linked, and so does one whose descriptor number others had
\* before (genericSocketInterface.cc, dataFromUpperLevel: catch; socketWriter).
THEOREM OnlyGoneAreUnlinked ==
  ASSUME NeverEmpty PROVE Spec => UnlinkedOnlyWhenGone
<1> DEFINE Inv == IInv /\ PeerInv /\ SendsInv
<1>1. Init => Inv
  <2> SUFFICES ASSUME Init PROVE PeerInv /\ SendsInv
    BY InvInit
  <2>1. \A t \in Threads : pc[t] \in {"none", "idle"}
    BY DEF Init
  <2> QED
    BY <2>1, ThreadFacts DEF Init, PeerInv, SendsInv
<1>2. Inv /\ [Next]_vars => Inv'
  BY InvStep, PeerStep, SendsStep
<1>3. Inv /\ [Next]_vars =>
        [\A u \in Uids : u \in links /\ u \notin links' => peer[u] = "closed"]_vars
  <2> SUFFICES ASSUME Inv, proc = "running", Step, NEW u \in links, u \notin links'
               PROVE  peer[u] = "closed"
    BY DEF Next
  <2>1. CASE \E t \in Threads : Unlink(t)
    BY <2>1 DEF Unlink, SendsInv
  <2>2. CASE \E v \in Uids : Remove(v)
    BY <2>2 DEF Remove, PeerInv
  <2>3. CASE LinkDown
    BY <2>3 DEF LinkDown
  <2>4. ASSUME ~LinkDown, \A v \in Uids : ~Remove(v), \A t \in Threads : ~Unlink(t)
        PROVE  UNCHANGED links
    BY <2>4 DEF Step, Listener, Accept, AcceptFails, LinkUp, Client, PeerSend, PeerDrain,
       PeerClose, Reader, Read, ReadEnds, Lock, Incomplete, Established, Handshake,
       HandshakeFails, Deliver, Reply, Unlock, Notify, Close, StartWriter, Sending, Visit,
       Write, WriteFails, Catch
  <2> QED
    BY <2>1, <2>2, <2>3, <2>4
<1> QED
  BY <1>1, <1>2, <1>3, PTL DEF Spec, UnlinkedOnlyWhenGone

-----------------------------------------------------------------------------
(***************************************************************************)
(* The handshake of a web socket.                                          *)
(***************************************************************************)
\* A descriptor that is open is the one its connection was given.
OpenInv ==
  \A f \in Fds : sock[f] # Nobody => fdOf[sock[f]] = f /\ pc[sock[f]] # "none"

\* Who is established and not at the handshake's reply has been sent it, or has
\* gone before.
GreetInv ==
  \A u \in Uids :
    /\ pc[u] = "none" => ~est[u]
    /\ pc[u] = "handshake" => est[u]
    /\ est[u] /\ pc[u] # "handshake" => Greeting(u) \in got[u] \/ peer[u] = "closed"

LEMMA StaysStarted ==
  ASSUME IInv, PeerInv, [Next]_vars PROVE \A u \in Uids : pc[u] # "none" => pc'[u] # "none"
<1>1. \A u \in Uids : peer[u] # "none" => peer'[u] # "none"
  <2>1. CASE UNCHANGED peer
    BY <2>1
  <2>2. ASSUME NEW u \in Uids, PeerClose(u)
        PROVE  \A v \in Uids : peer[v] # "none" => peer'[v] # "none"
    BY <2>2 DEF PeerClose, IInv, TypeOK
  <2>3. CASE Accept
    BY <2>3 DEF Accept, IInv, TypeOK
  <2>4. ASSUME proc = "running", Step, ~Accept, \A u \in Uids : ~PeerClose(u)
        PROVE  UNCHANGED peer
    BY <2>4 DEF Step, Listener, AcceptFails, LinkUp, LinkDown, Client, PeerSend, PeerDrain,
       Reader, Read, ReadEnds, Lock, Incomplete, Established, Handshake, HandshakeFails,
       Deliver, Reply, Unlock, Notify, Remove, Close, StartWriter, Sending, Visit, Write,
       WriteFails, Catch, Unlink
  <2>5. CASE UNCHANGED vars
    BY <2>1, <2>5 DEF vars
  <2> QED
    BY <2>1, <2>2, <2>3, <2>4, <2>5 DEF Next
<1>2. PeerInv'
  BY PeerStep
<1> QED
  BY <1>1, <1>2 DEF PeerInv

LEMMA OpenStep ==
  ASSUME IInv, PeerInv, OpenInv, [Next]_vars PROVE OpenInv'
<1>0. \A f \in Fds : sock[f] \in Uids \cup {Nobody}
  BY DEF IInv, TypeOK
<1>1. CASE UNCHANGED <<fdOf, sock>>
  BY <1>0, <1>1, StaysStarted DEF OpenInv
<1>2. CASE Accept
  <2>1. curUid \in Uids /\ curUid \in Threads
    BY <1>2, BoundsAssumption, ThreadFacts DEF Accept, IInv, TypeOK, Uids
  <2>2. pc[curUid] = "none"
    BY <1>2, <2>1 DEF Accept, IInv, Numbered
  <2>3. pc'[curUid] = "read"
    BY <1>2, <2>1, GotoElsewhere DEF Accept, IInv
  <2>4. PICK f \in Fds : /\ fdOf' = [fdOf EXCEPT ![curUid] = f]
                         /\ sock' = [sock EXCEPT ![f] = curUid]
    BY <1>2 DEF Accept
  <2>5. ASSUME NEW g \in Fds, sock'[g] # Nobody
        PROVE  fdOf'[sock'[g]] = g /\ pc'[sock'[g]] # "none"
    <3>1. CASE g = f
      BY <2>1, <2>3, <2>4, <3>1 DEF IInv, TypeOK
    <3>2. CASE g # f
      <4>1. sock'[g] = sock[g]
        BY <2>4, <3>2 DEF IInv, TypeOK
      <4>2. sock[g] \in Uids /\ sock[g] # curUid /\ fdOf[sock[g]] = g /\ pc[sock[g]] # "none"
        BY <1>0, <2>2, <2>5, <4>1 DEF OpenInv
      <4> QED
        BY <2>4, <4>1, <4>2, StaysStarted DEF IInv, TypeOK
    <3> QED
      BY <3>1, <3>2
  <2> QED
    BY <2>5 DEF OpenInv
<1>3. ASSUME NEW u \in Uids, Close(u) PROVE OpenInv'
  <2>1. UNCHANGED fdOf /\ \A g \in Fds : sock'[g] \in {sock[g], Nobody}
    BY <1>3 DEF Close, IInv, TypeOK
  <2> QED
    BY <1>0, <2>1, StaysStarted DEF OpenInv
<1>4. ASSUME proc = "running", Step, ~Accept, \A u \in Uids : ~Close(u)
      PROVE  UNCHANGED <<fdOf, sock>>
  BY <1>4 DEF Step, Listener, AcceptFails, LinkUp, LinkDown, Client, PeerSend, PeerDrain,
     PeerClose, Reader, Read, ReadEnds, Lock, Incomplete, Established, Handshake,
     HandshakeFails, Deliver, Reply, Unlock, Notify, Remove, StartWriter, Sending, Visit,
     Write, WriteFails, Catch, Unlink
<1>5. CASE UNCHANGED vars
  BY <1>1, <1>5 DEF vars
<1> QED
  BY <1>1, <1>2, <1>3, <1>4, <1>5 DEF Next

\* What a reader writes on its own socket arrives at its client or nowhere.
LEMMA OwnTransmit ==
  ASSUME IInv, NEW u \in Uids, pc[u] \notin {"none", "ended"}, NEW frame, Transmit(u, frame)
  PROVE  /\ \A v \in Uids : v # u => got'[v] = got[v]
         /\ \/ peer[u] = "closed" /\ got'[u] = got[u]
            \/ got'[u] = got[u] \cup {frame}
<1>1. Receiver(u) = u
  BY OwnReceiver DEF IInv
<1> QED
  BY <1>1 DEF Transmit, IInv, TypeOK

\* Frames come from a thread's write or from the writing of a handshake's reply,
\* and none is taken back.
LEMMA FramesCome ==
  ASSUME IInv, [Next]_vars
  PROVE  /\ \A u \in Uids : got[u] \subseteq got'[u]
         /\ \/ UNCHANGED got
            \/ \E u \in Uids : Handshake(u)
            \/ \E t \in Threads : Write(t)
<1>1. ASSUME NEW v \in Uids, NEW frame, Transmit(v, frame)
      PROVE  \A u \in Uids : got[u] \subseteq got'[u]
  BY <1>1 DEF Transmit, IInv, TypeOK
<1>2. ASSUME NEW u \in Uids, Handshake(u) PROVE \A v \in Uids : got[v] \subseteq got'[v]
  BY <1>1, <1>2 DEF Handshake
<1>3. ASSUME NEW t \in Threads, Write(t) PROVE \A v \in Uids : got[v] \subseteq got'[v]
  <2>1. job[t].target \in Uids
    BY DEF IInv, TypeOK, Jobs
  <2> QED
    BY <1>1, <1>3, <2>1 DEF Write
<1>4. ASSUME proc = "running", Step, \A u \in Uids : ~Handshake(u), \A t \in Threads : ~Write(t)
      PROVE  UNCHANGED got
  BY <1>4 DEF Step, Listener, Accept, AcceptFails, LinkUp, LinkDown, Client, PeerSend,
     PeerDrain, PeerClose, Reader, Read, ReadEnds, Lock, Incomplete, Established,
     HandshakeFails, Deliver, Reply, Unlock, Notify, Remove, Close, StartWriter, Sending,
     Visit, WriteFails, Catch, Unlink
<1>5. CASE UNCHANGED vars
  BY <1>5 DEF vars
<1> QED
  BY <1>2, <1>3, <1>4, <1>5 DEF Next

\* How the flag of a connection and its reader's place at the reply change.
FlagMoves(u) ==
  /\ est'[u] = est[u] \/ (pc[u] = "handle" /\ est'[u] /\ pc'[u] = "handshake")
  /\ pc[u] = "handshake" => pc'[u] = "handshake" \/ Handshake(u)
  /\ pc'[u] = "handshake" => pc[u] = "handshake" \/ est'[u]

LEMMA FlagsMove ==
  ASSUME IInv, [Next]_vars, NEW u \in Uids PROVE FlagMoves(u)
<1>p. \A t \in Threads : \A l : Goto(t, l) => /\ pc'[t] = l
                                          /\ \A s \in Threads : s # t => pc'[s] = pc[s]
  BY GotoElsewhere DEF IInv
<1>u. u \in Threads
  BY ThreadFacts
<1>0. CASE UNCHANGED est /\ pc'[u] = pc[u]
  BY <1>0 DEF FlagMoves
<1>1. CASE Listener
  <2>1. CASE Accept
    <3>1. curUid \in Uids /\ curUid \in Threads
      BY <2>1, BoundsAssumption, ThreadFacts DEF Accept, IInv, TypeOK, Uids
    <3>2. pc[curUid] = "none"
      BY <2>1, <3>1 DEF Accept, IInv, Numbered
    <3> QED
      BY <2>1, <3>1, <3>2, <1>p, <1>u DEF Accept, FlagMoves
  <2> QED
    BY <1>0, <1>1, <2>1 DEF Listener, AcceptFails, LinkUp, LinkDown
<1>2. ASSUME NEW v \in Uids, Client(v) PROVE FlagMoves(u)
  BY <1>0, <1>2 DEF Client, PeerSend, PeerDrain, PeerClose
<1>3. ASSUME NEW v \in Uids, Reader(v) PROVE FlagMoves(u)
  <2>1. v \in Threads
    BY ThreadFacts
  <2>2. CASE v # u
    <3>1. pc'[u] = pc[u]
      BY <1>3, <1>p, <1>u, <2>1, <2>2
      DEF Reader, Read, ReadEnds, Lock, Incomplete, Established, Handshake, HandshakeFails,
          Deliver, Reply, StartSend, Return, Unlock, Notify, Remove, Close
    <3>2. est'[u] = est[u]
      BY <1>3, <2>2
      DEF Reader, Read, ReadEnds, Lock, Incomplete, Established, Handshake, HandshakeFails,
          Deliver, Reply, Unlock, Notify, Remove, Close, IInv, TypeOK
    <3> QED
      BY <3>1, <3>2 DEF FlagMoves
  <2>3. CASE Established(u)
    BY <2>3, <1>p, <1>u DEF Established, FlagMoves, IInv, TypeOK
  <2>4. CASE Handshake(u)
    BY <2>4, <1>p, <1>u DEF Handshake, FlagMoves
  <2>5. CASE v = u /\ ~Established(u) /\ ~Handshake(u)
    <3>1. UNCHANGED est
      BY <1>3, <2>5 DEF Reader, Read, ReadEnds, Lock, Incomplete, HandshakeFails, Deliver,
         Reply, Unlock, Notify, Remove, Close
    <3>2. pc'[u] = pc[u] \/ (pc[u] # "handshake" /\ pc'[u] # "handshake")
      BY <1>3, <2>5, <1>p, <1>u DEF Reader, Read, ReadEnds, Lock, Incomplete, HandshakeFails,
         Deliver, Reply, StartSend, Return, Unlock, Notify, Remove, Close
    <3> QED
      BY <3>1, <3>2 DEF FlagMoves
  <2> QED
    BY <1>3, <2>2, <2>3, <2>4, <2>5
<1>4. ASSUME NEW w \in Writers, StartWriter(w) PROVE FlagMoves(u)
  <2>1. UNCHANGED est /\ pc'[u] = pc[u]
    BY <1>4, <1>p, <1>u, ThreadFacts DEF StartWriter, StartSend, Return
  <2> QED
    BY <1>0, <2>1
<1>5. ASSUME NEW t \in Threads, Sending(t) PROVE FlagMoves(u)
  <2>1. UNCHANGED est
    BY <1>5 DEF Sending, Visit, Write, WriteFails, Catch, Unlink
  <2>2. pc'[u] = pc[u] \/ (pc[u] # "handshake" /\ pc'[u] # "handshake")
    BY <1>5, <1>p, <1>u DEF Sending, Visit, Write, WriteFails, Catch, Unlink, Return
  <2> QED
    BY <2>1, <2>2 DEF FlagMoves
<1>6. CASE UNCHANGED vars
  BY <1>0, <1>6 DEF vars
<1> QED
  BY <1>1, <1>2, <1>3, <1>4, <1>5, <1>6 DEF Next, Step

LEMMA GreetStep ==
  ASSUME IInv, PeerInv, GreetInv, [Next]_vars PROVE GreetInv'
<1> SUFFICES ASSUME NEW u \in Uids
             PROVE  /\ pc'[u] = "none" => ~est'[u]
                    /\ pc'[u] = "handshake" => est'[u]
                    /\ est'[u] /\ pc'[u] # "handshake"
                         => Greeting(u) \in got'[u] \/ peer'[u] = "closed"
  BY DEF GreetInv, Greeting
<1>1. /\ pc[u] # "none" => pc'[u] # "none"
      /\ peer[u] = "closed" => peer'[u] = "closed"
      /\ got[u] \subseteq got'[u]
      /\ FlagMoves(u)
  BY StaysStarted, PeerStep, FramesCome, FlagsMove
<1>2. CASE Handshake(u)
  <2>1. pc[u] = "handshake" /\ pc'[u] = "unlock"
    BY <1>2, ThreadFacts, GotoElsewhere DEF Handshake, IInv
  <2>2. Greeting(u) \in got'[u] \/ peer[u] = "closed"
    BY <1>2, <2>1, OwnTransmit DEF Handshake, Greeting
  <2> QED
    BY <1>1, <2>1, <2>2
<1>3. CASE ~Handshake(u)
  BY <1>1, <1>3 DEF FlagMoves, GreetInv
<1> QED
  BY <1>2, <1>3

\* Where a write may go that comes before the reply to the receiver's handshake.
LEMMA WriteGreeted ==
  ASSUME WS, IInv, OpenInv, GreetInv, NEW t \in Threads, Write(t),
         NEW v \in Uids, got'[v] # got[v], pc[v] # "handshake"
  PROVE  \/ Greeting(v) \in got[v]
         \/ /\ t \in Writers
            /\ pc[job[t].target] = "ended"
            /\ fdOf[job[t].target] = fdOf[v]
<1> DEFINE x == job[t].target
<1>1. x \in Uids
  BY DEF IInv, TypeOK, Jobs
<1>2. pc[t] = "write" /\ ~Mute(x) /\ Transmit(x, FrameOf(t))
  BY DEF Write
<1>3. Receiver(x) = v /\ peer[v] # "closed"
  BY <1>1, <1>2 DEF Transmit, IInv, TypeOK, Receiver
<1>4. est[x] /\ pc[x] # "none"
  BY <1>1, <1>2 DEF Mute, GreetInv
<1>5. CASE pc[x] # "ended"
  <2>1. v = x
    BY <1>1, <1>3, <1>4, <1>5, OwnReceiver DEF IInv
  <2> QED
    BY <1>3, <1>4, <2>1 DEF GreetInv
<1>6. CASE pc[x] = "ended"
  <2>1. t \notin Uids
    BY <1>2, <1>6 DEF IInv, OwnJob
  <2>2. fdOf[x] \in Fds /\ sock[fdOf[x]] = v /\ v # Nobody
    BY <1>3, ThreadFacts DEF Receiver
  <2>3. fdOf[v] = fdOf[x]
    BY <2>2 DEF OpenInv
  <2> QED
    BY <1>6, <2>1, <2>3, ThreadFacts
<1> QED
  BY <1>5, <1>6

\* A web socket client is sent nothing before the reply to its handshake but by a
\* broadcast, or another message of the level above, in one of two windows: after
\* the connection was marked as established and before that reply is written, or
\* over the descriptor number of an ended connection (genericSocketInterface.cc,
\* parseDownstreamMessage, socketReader, socketWriter; portalDataSocket.cc,
\* dataFromUpperLevel, which takes no mutex).
THEOREM GreetedFirst ==
  ASSUME WS PROVE Spec => HandshakeFirst
<1> DEFINE Inv == IInv /\ PeerInv /\ OpenInv /\ GreetInv
<1>1. Init => Inv
  <2> SUFFICES ASSUME Init PROVE PeerInv /\ OpenInv /\ GreetInv
    BY InvInit
  <2> QED
    BY ThreadFacts DEF Init, PeerInv, OpenInv, GreetInv
<1>2. Inv /\ [Next]_vars => Inv'
  BY InvStep, PeerStep, OpenStep, GreetStep
<1>3. Inv /\ [Next]_vars =>
        [\A v \in Uids : got'[v] # got[v] =>
           \/ Greeting(v) \in got'[v]
           \/ pc[v] = "handshake"
           \/ \E w \in Writers : /\ pc[w] = "write"
                                 /\ pc[job[w].target] = "ended"
                                 /\ fdOf[job[w].target] = fdOf[v]]_vars
  <2> SUFFICES ASSUME Inv, [Next]_vars, NEW v \in Uids, got'[v] # got[v]
               PROVE  \/ Greeting(v) \in got'[v]
                      \/ pc[v] = "handshake"
                      \/ \E w \in Writers : /\ pc[w] = "write"
                                            /\ pc[job[w].target] = "ended"
                                            /\ fdOf[job[w].target] = fdOf[v]
    OBVIOUS
  <2>1. got[v] \subseteq got'[v]
    BY FramesCome
  <2>2. ASSUME NEW u \in Uids, Handshake(u) PROVE pc[v] = "handshake"
    <3>1. pc[u] = "handshake"
      BY <2>2 DEF Handshake
    <3>2. v = u
      BY <2>2, <3>1, OwnTransmit DEF Handshake
    <3> QED
      BY <3>1, <3>2
  <2>3. ASSUME NEW t \in Threads, Write(t), pc[v] # "handshake"
        PROVE  \/ Greeting(v) \in got[v]
               \/ /\ t \in Writers
                  /\ pc[t] = "write"
                  /\ pc[job[t].target] = "ended"
                  /\ fdOf[job[t].target] = fdOf[v]
    <3>1. pc[t] = "write"
      BY <2>3 DEF Write
    <3> QED
      BY <2>3, <3>1, WriteGreeted
  <2> QED
    BY <2>1, <2>2, <2>3, FramesCome
<1> QED
  BY <1>1, <1>2, <1>3, PTL DEF Spec, HandshakeFirst
=============================================================================
