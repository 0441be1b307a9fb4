------------------------------- MODULE TxPath -------------------------------
(***************************************************************************)
(* Samples on their way from the data sockets to the HackRF's transmitter  *)
(* (portalDataSocket.cc and genericSDRInterface.cc: dataFromLowerLevel;    *)
(* streamConverter.cc: convertWorker; hackRFInterface.cc: startTX, stopTX, *)
(* txData, txIQData).                                                      *)
(*                                                                         *)
(* A data socket has one reader at a time inside (SocketInterface,         *)
(* OneReaderInside), so a reader is its socket; the readers of several     *)
(* sockets and the device's callback run side by side, and nothing is      *)
(* locked.  The converter, the queue and is_transmitting are one for all.  *)
(*                                                                         *)
(* A byte is known by its socket and its number among the bytes of that    *)
(* socket.  What a read returns is cut out of the stream anywhere, so it   *)
(* may end in the middle of a sample.  The types are as wide as the        *)
(* device's, one byte; a sample is two of them.                            *)
(***************************************************************************)
EXTENDS Integers, Sequences

CONSTANTS
  Sockets,    \* data sockets that transmit
  Types,      \* stream types of one byte
  BufferLen,  \* bytes in a transfer of the device
  MaxMsgs,    \* bound: reads, of all sockets together
  MaxLen,     \* bound: bytes of a read
  Junk        \* a byte that is not known

ASSUME TxAssumption ==
  /\ BufferLen \in Nat \ {0} /\ BufferLen % 2 = 0
  /\ MaxMsgs \in Nat /\ MaxLen \in Nat
  /\ Junk \notin Sockets \X Nat

VARIABLES
  streamType,  \* of each socket
  pc,          \* where its reader is
  from,        \* bytes of the socket before the read at hand
  len,         \* bytes of that read
  done,        \* of its whole samples, the bytes txIQData has pushed
  ptr,         \* the scratch space txIQData was given
  scratch,     \* the bytes in the scratch space of each type
  alloc,       \* how often that scratch space was allocated
  queue,       \* tx_queue
  is_transmitting,
  device,      \* the radio: "off", "on" or "refused", which ends the process
  cb,          \* the callback: "waits", "fill", "clear" or "stop"
  avail,       \* valid_txbytes
  radio,       \* the bytes transmitted, kept until two readers overlap
  given,       \* the bytes read, likewise
  odd,         \* where in given a read ended in the middle of a sample
  msgs,        \* reads so far
  overlapped,  \* two readers have been inside at once (a history)
  met          \* startTX has met stopTX or another startTX (a history)

readerVars == <<from, len, done, ptr, scratch, alloc, given, odd, msgs,
               overlapped>>
callbackVars == <<cb, avail, radio>>
vars == <<streamType, pc, readerVars, queue, is_transmitting, device,
          callbackVars, met>>

ReaderPC == {"idle", "convert", "pointer", "test", "start", "flag", "push"}
Bytes == (Sockets \X Nat) \cup {Junk}

TypeOK ==
  /\ streamType \in [Sockets -> Types]
  /\ pc \in [Sockets -> ReaderPC]
  /\ from \in [Sockets -> Nat] /\ len \in [Sockets -> 0 .. MaxLen]
  /\ done \in [Sockets -> 0 .. MaxLen]
  /\ ptr \in [Sockets -> Nat]
  /\ scratch \in [Types -> Seq(Bytes)]
  /\ alloc \in [Types -> Nat]
  /\ queue \in Seq(Bytes) /\ radio \in Seq(Bytes) /\ given \in Seq(Bytes)
  /\ odd \in SUBSET (1 .. Len(given))
  /\ is_transmitting \in BOOLEAN
  /\ device \in {"off", "on", "refused"}
  /\ cb \in {"waits", "fill", "clear", "stop"}
  /\ avail \in 0 .. BufferLen
  /\ msgs \in 0 .. MaxMsgs
  /\ overlapped \in BOOLEAN /\ met \in BOOLEAN

Init ==
  /\ streamType \in [Sockets -> Types]
  /\ pc = [s \in Sockets |-> "idle"]
  /\ from = [s \in Sockets |-> 0]
  /\ len = [s \in Sockets |-> 0]
  /\ done = [s \in Sockets |-> 0]
  /\ ptr = [s \in Sockets |-> 0]
  /\ scratch = [t \in Types |-> <<>>]
  /\ alloc = [t \in Types |-> 0]
  /\ queue = <<>>
  /\ is_transmitting = FALSE
  /\ device = "off"
  /\ cb = "waits" /\ avail = 0
  /\ radio = <<>> /\ given = <<>> /\ odd = {}
  /\ msgs = 0
  /\ overlapped = FALSE /\ met = FALSE

-----------------------------------------------------------------------------
(***************************************************************************)
(* A reader.                                                               *)
(***************************************************************************)
At(s, here) == device # "refused" /\ pc[s] = here
Goto(s, next) == pc' = [pc EXCEPT ![s] = next]

\* Mutant: rounded up.
WholeSamples_Up(n) == 2 * ((n + 1) \div 2)

\* convertWorker: only as much as makes whole blocks is consumed.
WholeSamples(n) == 2 * (n \div 2)
Whole(s) == WholeSamples(len[s])

\* The n bytes of socket s that are at hand.
Content(s, n) == [i \in 1 .. n |-> <<s, from[s] + i>>]

\* dataFromLowerLevel of the data socket and of the SDR: what one read returned.
Take(s) ==
  /\ At(s, "idle")
  /\ msgs < MaxMsgs
  /\ msgs' = msgs + 1
  /\ overlapped' = (overlapped \/ \E r \in Sockets : pc[r] # "idle")
  /\ \E n \in 0 .. MaxLen :
       /\ len' = [len EXCEPT ![s] = n]
       /\ given' = IF overlapped' THEN <<>> ELSE given \o Content(s, n)
       /\ odd' = IF overlapped' THEN {}
                 ELSE odd \cup {p \in {Len(given) + n} : n % 2 = 1}
  /\ radio' = IF overlapped' THEN <<>> ELSE radio
  /\ Goto(s, "convert")
  /\ UNCHANGED <<streamType, from, done, ptr, scratch, alloc, queue,
                 is_transmitting, device, cb, avail, met>>

\* Mutant: one scratch space serves all types.
Space_Shared(s) == Types

Space(s) == {streamType[s]}

\* convertWorker: the scratch space of the type is allocated anew when it is
\* too small, and what a longer read left in it stays behind a shorter one.
Convert(s) ==
  /\ At(s, "convert")
  /\ LET old == scratch[streamType[s]]
         fits == Len(old) >= Whole(s)
         new == Content(s, Whole(s)) \o SubSeq(old, Whole(s) + 1, Len(old))
     IN /\ scratch' = [t \in Types |-> IF t \in Space(s) THEN new ELSE scratch[t]]
        /\ alloc' = IF fits THEN alloc
                    ELSE [alloc EXCEPT ![streamType[s]] = @ + 1]
  /\ Goto(s, "pointer")
  /\ UNCHANGED <<streamType, from, len, done, ptr, given, odd, msgs,
                 overlapped, queue, is_transmitting, device, callbackVars, met>>

\* getResultFromStreamType, and the call of txIQData.
Pointer(s) ==
  /\ At(s, "pointer")
  /\ ptr' = [ptr EXCEPT ![s] = alloc[streamType[s]]]
  /\ Goto(s, "test")
  /\ UNCHANGED <<streamType, from, len, done, scratch, alloc, given, odd,
                 msgs, overlapped, queue, is_transmitting, device, callbackVars, met>>

\* startTX: if(!is_transmitting).
Starting(s) == pc[s] \in {"start", "flag"}
Test(s) ==
  /\ At(s, "test")
  /\ Goto(s, IF is_transmitting THEN "push" ELSE "start")
  /\ met' = \/ met
            \/ /\ ~is_transmitting
               /\ cb = "stop" \/ \E r \in Sockets : Starting(r)
  /\ UNCHANGED <<streamType, readerVars, queue, is_transmitting, device,
                 callbackVars>>

\* hackrf_start_tx.  The radio may refuse, be it off or on already, and then
\* handleHRFResult ends the process.
Start(s) ==
  /\ At(s, "start")
  /\ device' \in {"on", "refused"}
  /\ Goto(s, "flag")
  /\ UNCHANGED <<streamType, readerVars, queue, is_transmitting, callbackVars,
                 met>>

\* Mutant: the flag is not set.
SetFlag_Not(s) ==
  /\ At(s, "flag")
  /\ Goto(s, "push")
  /\ UNCHANGED <<streamType, readerVars, queue, is_transmitting, device,
                 callbackVars, met>>

SetFlag(s) ==
  /\ At(s, "flag")
  /\ is_transmitting' = TRUE
  /\ Goto(s, "push")
  /\ UNCHANGED <<streamType, readerVars, queue, device, callbackVars, met>>

\* What the pointer of s points to, i bytes on.
Pointed(s, i) ==
  LET t == streamType[s] IN
  IF ptr[s] = alloc[t] /\ i <= Len(scratch[t]) THEN scratch[t][i] ELSE Junk

\* tx_queue.push: two readers that push at once may lose one of the bytes or
\* leave a place unwritten.  Once readers have overlapped, the model only keeps
\* how many bytes there are in the queue.
Push(s) ==
  /\ At(s, "push")
  /\ done[s] < Whole(s)
  /\ \/ queue' = Append(queue, IF overlapped THEN Junk
                               ELSE Pointed(s, done[s] + 1))
     \/ (\E r \in Sockets \ {s} : pc[r] = "push") /\ UNCHANGED queue
  /\ done' = [done EXCEPT ![s] = @ + 1]
  /\ UNCHANGED <<streamType, pc, from, len, ptr, scratch, alloc, given, odd,
                 msgs, overlapped, is_transmitting, device, callbackVars, met>>

\* The read is dealt with; a byte left over is forgotten ("TODO: Keep track of
\* any data which didn't fit the block length").
Return(s) ==
  /\ At(s, "push")
  /\ done[s] = Whole(s)
  /\ from' = [from EXCEPT ![s] = @ + len[s]]
  /\ len' = [len EXCEPT ![s] = 0]
  /\ done' = [done EXCEPT ![s] = 0]
  /\ ptr' = [ptr EXCEPT ![s] = 0]
  /\ Goto(s, "idle")
  /\ UNCHANGED <<streamType, scratch, alloc, given, odd, msgs, overlapped, queue,
                 is_transmitting, device, callbackVars, met>>

\* A reader that has read goes on with it.
Continue(s) ==
  \/ Convert(s) \/ Pointer(s) \/ Test(s) \/ Start(s) \/ SetFlag(s) \/ Push(s)
  \/ Return(s)

-----------------------------------------------------------------------------
(***************************************************************************)
(* The device's callback, txData.  A radio that is off does not call.      *)
(***************************************************************************)
CallAt(here) == device # "refused" /\ cb = here

\* Mutant: any byte in the queue keeps the radio on.
LookSize_Any ==
  /\ CallAt("waits")
  /\ device = "on"
  /\ IF Len(queue) > 0
     THEN /\ avail' = LET even == 2 * (Len(queue) \div 2)
                      IN IF even > BufferLen THEN BufferLen ELSE even
          /\ cb' = "fill"
     ELSE cb' = "clear" /\ UNCHANGED avail
  /\ UNCHANGED <<streamType, pc, readerVars, queue, is_transmitting, device,
                 radio, met>>

\* tx_queue.size() > 1.
LookSize ==
  /\ CallAt("waits")
  /\ device = "on"
  /\ IF Len(queue) > 1
     THEN /\ avail' = LET even == 2 * (Len(queue) \div 2)
                      IN IF even > BufferLen THEN BufferLen ELSE even
          /\ cb' = "fill"
     ELSE cb' = "clear" /\ UNCHANGED avail
  /\ UNCHANGED <<streamType, pc, readerVars, queue, is_transmitting, device,
                 radio, met>>

Rest(q, n) == SubSeq(q, n + 1, Len(q))

Fill ==
  /\ CallAt("fill")
  /\ radio' = IF overlapped THEN <<>> ELSE radio \o SubSeq(queue, 1, avail)
  /\ queue' = Rest(queue, avail)
  /\ cb' = "waits" /\ avail' = 0
  /\ UNCHANGED <<streamType, pc, readerVars, is_transmitting, device, met>>

\* Mutant: stopTX leaves is_transmitting set.
ClearFlag_Not ==
  /\ CallAt("clear")
  /\ met' = (met \/ \E r \in Sockets : Starting(r))
  /\ cb' = "stop"
  /\ UNCHANGED <<streamType, pc, readerVars, queue, is_transmitting, device,
                 avail, radio>>

\* stopTX: the flag first.
ClearFlag ==
  /\ CallAt("clear")
  /\ is_transmitting' = FALSE
  /\ met' = (met \/ \E r \in Sockets : Starting(r))
  /\ cb' = "stop"
  /\ UNCHANGED <<streamType, pc, readerVars, queue, device, avail, radio>>

\* Then hackrf_stop_tx, which may be refused as well.
Stop ==
  /\ CallAt("stop")
  /\ device' \in {"off", "refused"}
  /\ cb' = "waits"
  /\ UNCHANGED <<streamType, pc, readerVars, queue, is_transmitting, avail,
                 radio, met>>

Callback == LookSize \/ Fill \/ ClearFlag \/ Stop

Next == (\E s \in Sockets : Take(s) \/ Continue(s)) \/ Callback

Spec == Init /\ [][Next]_vars

\* Readers run on, and a radio that is on asks for samples; no data need
\* come.
FairSpec ==
  Spec /\ WF_vars(Callback) /\ \A s \in Sockets : WF_vars(Continue(s))

-----------------------------------------------------------------------------
(***************************************************************************)
(* Properties.                                                             *)
(***************************************************************************)
\* What the reader inside has still to push.
Pending ==
  LET inside == {s \in Sockets : pc[s] # "idle"} IN
  IF inside = {} THEN <<>>
  ELSE LET s == CHOOSE s \in inside : TRUE
       IN SubSeq(Content(s, Whole(s)), done[s] + 1, Whole(s))

\* The sequence q without the elements at the places P.
Without(q, P) ==
  LET upTo[n \in 0 .. Len(q)] ==
        IF n = 0 THEN <<>>
        ELSE IF n \in P THEN upTo[n - 1] ELSE Append(upTo[n - 1], q[n])
  IN upTo[Len(q)]

\* As long as readers do not overlap, the bytes of the streams are transmitted
\* or still in the queue, each once and in the order they were read, however
\* radio and readers race and whatever an earlier read left in the scratch
\* space; the only byte that is lost is the last one of a read that ends in the
\* middle of a sample, and so none is lost when every read is whole samples
\* (txIQData, txData; convertWorker).
InOrder == ~overlapped => radio \o queue \o Pending = Without(given, odd)

\* Readers of different types share the queue and no byte of their scratch
\* spaces: each pushes its own bytes even when they overlap
\* (scratchspace_map of convertWorker).
OwnBytes ==
  \A s \in Sockets :
    /\ pc[s] = "push"
    /\ \A r \in Sockets \ {s} : streamType[r] # streamType[s]
    => \A i \in (done[s] + 1) .. Whole(s) : Pointed(s, i) = <<s, from[s] + i>>

\* is_transmitting says whether the radio is on, and a radio that is on is not
\* started again, unless a startTX has met a stopTX or another startTX ("TODO:
\* Need to protect these with mutexes").
FlagAgrees ==
  ~met /\ device # "refused" =>
    /\ \A s \in Sockets : pc[s] = "start" => device = "off"
    /\ (\A s \in Sockets : ~Starting(s)) /\ cb # "stop"
         => (is_transmitting <=> device = "on")

\* The radio is switched off when samples are wanting, even when a byte lost by
\* overlapping readers has left an odd one in the queue (txData: size() > 1).
SwitchedOff == device = "on" ~> device # "on"
=============================================================================
