--------------------------- MODULE RxDistribution ---------------------------
(***************************************************************************)
(* How samples get from the device to the data sockets that are bound to a *)
(* receive channel (genericSDRInterface.cc: distributeRXData,              *)
(* getResultingPrimTypes; streamConverter.cc: convertWorker).              *)
(*                                                                         *)
(* The receive thread takes a block of samples, copies the list of streams,*)
(* looks at their types one after another, and for each type it has met    *)
(* converts the block and walks the streams.  Meanwhile the command sockets*)
(* bind streams to the channel and change their types (RXCHANNEL,          *)
(* DATATYPE), and nothing is locked.                                       *)
(*                                                                         *)
(* A block is its number.  What the converter keeps for a type is the      *)
(* number of the block it has converted to it last.  The types are no wider*)
(* than the device's own.                                                  *)
(***************************************************************************)
EXTENDS Integers, Sequences, FiniteSets, Functions

CONSTANTS
  Sockets,    \* data sockets
  Types,      \* stream types
  Int8,       \* the type a data socket begins with, STREAM_INT8_T
  MaxBlocks,  \* bound: blocks the device delivers
  MaxBinds,   \* bound: RXCHANNEL commands
  MaxChanges  \* bound: DATATYPE commands

ASSUME DistributionAssumption ==
  /\ Int8 \in Types
  /\ MaxBlocks \in Nat /\ MaxBinds \in Nat /\ MaxChanges \in Nat

VARIABLES
  streams,     \* rx_chan_to_streams of the channel
  streamType,  \* portalDataSocket::stream_type
  pc,          \* the receive thread: "device", "types", "scan", "convert" or "push"
  block,       \* the block it has from the device
  copy,        \* its copy of streams
  listed,      \* rx_streams, the copy of getResultingPrimTypes
  scan,        \* the ii of its loop, counted from 1
  prims,       \* resulting_prim_types
  outer,       \* the ii of the outer loop, counted from 1
  inner,       \* the ii of the inner loop, counted from 1
  scratch,     \* block in the scratchspace of each type; 0 is the null pointer
  got,         \* blocks each data socket was given
  since,       \* the block at hand when a socket was bound (a history)
  changes,     \* DATATYPE commands so far
  changed      \* sockets whose type has changed after the bind (a history)

threadVars == <<pc, block, copy, listed, scan, prims, outer, inner, scratch, got>>
commandVars == <<streams, streamType, since, changes, changed>>
vars == <<streams, streamType, pc, block, copy, listed, scan, prims, outer, inner,
          scratch, got, since, changes, changed>>

Init ==
  /\ streams = <<>>
  /\ streamType = [s \in Sockets |-> Int8]
  /\ pc = "device"
  /\ block = 0
  /\ copy = <<>>
  /\ listed = <<>>
  /\ scan = 1
  /\ prims = <<>>
  /\ outer = 1
  /\ inner = 1
  /\ scratch = [t \in Types |-> 0]
  /\ got = [s \in Sockets |-> <<>>]
  /\ since = [s \in Sockets |-> 0]
  /\ changes = 0
  /\ changed = {}

-----------------------------------------------------------------------------
(***************************************************************************)
(* The command sockets.                                                    *)
(***************************************************************************)
Bind(s) ==
  /\ Len(streams) < MaxBinds
  /\ streams' = Append(streams, s)
  /\ since' = [since EXCEPT ![s] = IF s \in Range(streams) THEN @ ELSE block]
  /\ UNCHANGED <<streamType, threadVars, changes, changed>>

SetType(s, t) ==
  /\ changes < MaxChanges
  /\ streamType' = [streamType EXCEPT ![s] = t]
  /\ changes' = changes + 1
  /\ changed' = IF s \in Range(streams) THEN changed \cup {s} ELSE changed
  /\ UNCHANGED <<streams, threadVars, since>>

-----------------------------------------------------------------------------
(***************************************************************************)
(* The receive thread.                                                     *)
(***************************************************************************)
\* A block arrives, and distributeRXData copies the list of streams.
Device ==
  /\ pc = "device"
  /\ block < MaxBlocks
  /\ block' = block + 1
  /\ copy' = streams
  /\ pc' = "types"
  /\ UNCHANGED <<commandVars, listed, scan, prims, outer, inner, scratch, got>>

\* getResultingPrimTypes takes a copy of the list of its own, ...
GetTypes ==
  /\ pc = "types"
  /\ listed' = streams
  /\ pc' = "scan"
  /\ UNCHANGED <<commandVars, block, copy, scan, prims, outer, inner, scratch, got>>

\* ... and notes each type it meets, once.
ScanType ==
  /\ pc = "scan"
  /\ scan <= Len(listed)
  /\ LET t == streamType[listed[scan]] IN
     prims' = IF t \in Range(prims) THEN prims ELSE Append(prims, t)
  /\ scan' = scan + 1
  /\ UNCHANGED <<commandVars, pc, block, copy, listed, outer, inner, scratch, got>>

\* Its copy goes with the call.
ScanDone ==
  /\ pc = "scan"
  /\ scan > Len(listed)
  /\ listed' = <<>>
  /\ scan' = 1
  /\ pc' = "convert"
  /\ UNCHANGED <<commandVars, block, copy, prims, outer, inner, scratch, got>>

\* Mutant: a scratchspace that is there is not written again.
Convert_Once ==
  /\ pc = "convert"
  /\ outer <= Len(prims)
  /\ scratch' = [scratch EXCEPT ![prims[outer]] = IF @ = 0 THEN block ELSE @]
  /\ inner' = 1
  /\ pc' = "push"
  /\ UNCHANGED <<commandVars, block, copy, listed, scan, prims, outer, got>>

Convert ==
  /\ pc = "convert"
  /\ outer <= Len(prims)
  /\ scratch' = [scratch EXCEPT ![prims[outer]] = block]
  /\ inner' = 1
  /\ pc' = "push"
  /\ UNCHANGED <<commandVars, block, copy, listed, scan, prims, outer, got>>

\* The locals go with the call.
ConvertDone ==
  /\ pc = "convert"
  /\ outer > Len(prims)
  /\ pc' = "device"
  /\ copy' = <<>> /\ prims' = <<>>
  /\ outer' = 1 /\ inner' = 1
  /\ UNCHANGED <<commandVars, block, listed, scan, scratch, got>>

\* Mutant: the walk begins with the second stream.
Wanted_Next(s) == inner < Len(prims) /\ streamType[s] = prims[inner + 1]

\* The inner loop looks the type up under its own index.  Past the end of the
\* vector it reads what is there, which may be the stream's type or not.
Wanted(s) == inner <= Len(prims) /\ streamType[s] = prims[inner]

Push ==
  /\ pc = "push"
  /\ inner <= Len(copy)
  /\ LET s == copy[inner] IN
     \/ /\ Wanted(s) \/ inner > Len(prims)
        /\ got' = [got EXCEPT ![s] = Append(@, scratch[streamType[s]])]
     \/ ~Wanted(s) /\ UNCHANGED got
  /\ inner' = inner + 1
  /\ UNCHANGED <<commandVars, pc, block, copy, listed, scan, prims, outer, scratch>>

\* Mutant: the index of the outer loop is never advanced.
PushDone_Stays ==
  /\ pc = "push"
  /\ inner > Len(copy)
  /\ pc' = "convert"
  /\ UNCHANGED <<commandVars, block, copy, listed, scan, prims, outer, inner, scratch, got>>

PushDone ==
  /\ pc = "push"
  /\ inner > Len(copy)
  /\ outer' = outer + 1
  /\ pc' = "convert"
  /\ UNCHANGED <<commandVars, block, copy, listed, scan, prims, inner, scratch, got>>

Receiver ==
  \/ Device \/ GetTypes \/ ScanType \/ ScanDone
  \/ Convert \/ ConvertDone \/ Push \/ PushDone

Next ==
  \/ \E s \in Sockets : Bind(s)
  \/ \E s \in Sockets, t \in Types : SetType(s, t)
  \/ Receiver
  \/ pc = "device" /\ block = MaxBlocks /\ UNCHANGED vars

Spec == Init /\ [][Next]_vars

\* The receive thread runs on; no command need be given.
FairSpec == Spec /\ WF_vars(Receiver)

-----------------------------------------------------------------------------
(***************************************************************************)
(* Properties.                                                             *)
(***************************************************************************)
Due(s) == (since[s] + 1) .. block
Steady(s) == s \in Range(streams) \ changed

\* The stream that was bound first is given every block, whatever is bound or
\* changed besides: its index is 0 in the list of streams and in that of the
\* types (distributeRXData).
FirstServed ==
  pc = "device" /\ streams # <<>> /\ Steady(streams[1]) =>
    Due(streams[1]) \subseteq Range(got[streams[1]])

\* A channel's only stream is given every block once, in order.
AloneServedOnce ==
  Len(streams) = 1 /\ Steady(streams[1]) =>
    LET g == got[streams[1]] IN
    \A i \in 1 .. Len(g) : g[i] = since[streams[1]] + i

\* A change of the type costs the only stream one block at most.
AloneLosesLittle ==
  pc = "device" /\ Len(streams) = 1 =>
    Len(got[streams[1]]) >= Cardinality(Due(streams[1])) - changes

\* The receive thread comes back for the next block.
BackToDevice == pc # "device" ~> pc = "device"
=============================================================================
