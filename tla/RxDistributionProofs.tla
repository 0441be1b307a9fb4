------------------------ MODULE RxDistributionProofs ------------------------
(***************************************************************************)
(* Theorems about RxDistribution, for every set of data sockets, every set *)
(* of types and every bound.                                               *)
(***************************************************************************)
EXTENDS RxDistribution, FiniteSetTheorems, SequenceTheorems, TLAPS

\* What the tuples of unchanged variables stand for.
USE DEF threadVars, commandVars

-----------------------------------------------------------------------------
(***************************************************************************)
(* The inductive invariant.                                                *)
(***************************************************************************)
TypeInv ==
  /\ streams \in Seq(Sockets) /\ copy \in Seq(Sockets) /\ listed \in Seq(Sockets)
  /\ streamType \in [Sockets -> Types]
  /\ pc \in {"device", "types", "scan", "convert", "push"}
  /\ block \in Nat /\ changes \in Nat
  /\ prims \in Seq(Types)
  /\ scan \in Nat \ {0} /\ outer \in Nat \ {0} /\ inner \in Nat \ {0}
  /\ scratch \in [Types -> Nat]
  /\ got \in [Sockets -> Seq(Nat)]
  /\ since \in [Sockets -> Nat]
  /\ changed \subseteq Sockets

\* A list that was copied when there were no more streams than now.
Older(list) ==
  /\ Len(list) <= Len(streams)
  /\ \A i \in 1 .. Len(list) : list[i] = streams[i]

\* Where the locals of the receive thread stand.
LocalInv ==
  /\ Older(copy) /\ Older(listed)
  /\ pc = "device" => copy = <<>>
  /\ pc \in {"device", "types"} => prims = <<>>
  /\ pc # "scan" => listed = <<>> /\ scan = 1
  /\ pc \in {"device", "types", "scan"} => outer = 1 /\ inner = 1
  /\ pc = "scan" =>
       /\ Len(copy) <= Len(listed)
       /\ scan <= Len(listed) + 1
       /\ Len(prims) < scan
       /\ prims = <<>> => scan = 1
  /\ Len(prims) <= Len(streams)
  /\ pc \in {"convert", "push"} /\ copy # <<>> => prims # <<>>
  /\ pc = "push" => outer <= Len(prims) /\ scratch[prims[outer]] = block

\* Only who is bound is given samples, or changes its type after a bind.
BoundInv ==
  /\ changed \subseteq Range(streams)
  /\ \A s \in Sockets : s \notin Range(streams) => got[s] = <<>>

\* The first of the streams has been walked over with this block, or was not
\* bound when it came: the last block that is owed to it.
Done ==
  \/ pc = "device"
  \/ copy = <<>>
  \/ outer > 1
  \/ pc = "push" /\ inner > 1
Given == IF Done THEN block ELSE block - 1

\* The stream that was bound first: its type is the first of the types, unless it
\* has changed, and it has what is owed to it.
First == streams[1]
FirstTimes ==
  /\ pc # "device" /\ copy = <<>> => since[First] = block
  /\ copy # <<>> => since[First] < block
  /\ since[First] <= block
FirstType == First \notin changed /\ prims # <<>> => prims[1] = streamType[First]
FirstGiven == First \notin changed => (since[First] + 1) .. Given \subseteq Range(got[First])
FirstInv == streams # <<>> => FirstTimes /\ FirstType /\ FirstGiven

\* A stream that is alone has just that, and a block is lost for a change of type.
Losing == ~Done /\ prims # <<>> /\ prims[1] # streamType[First]
Lost == IF Losing THEN 1 ELSE 0
InOrder(g, from, to) == Len(g) = to - from /\ \A i \in 1 .. Len(g) : g[i] = from + i
AloneInv ==
  Len(streams) = 1 =>
    /\ First \notin changed => InOrder(got[First], since[First], Given)
    /\ Len(got[First]) + changes >= Given - since[First] + Lost

RxInv == TypeInv /\ LocalInv /\ BoundInv /\ FirstInv /\ AloneInv

-----------------------------------------------------------------------------
(***************************************************************************)
(* What the steps do to the lists.                                         *)
(***************************************************************************)
LEMMA RangeAppend ==
  ASSUME NEW S, NEW q \in Seq(S), NEW e \in S
  PROVE  /\ Append(q, e) \in Seq(S)
         /\ Len(Append(q, e)) = Len(q) + 1
         /\ \A i \in 1 .. Len(q) : Append(q, e)[i] = q[i]
         /\ Append(q, e)[Len(q) + 1] = e
         /\ Range(Append(q, e)) = Range(q) \cup {e}
<1>1. /\ Append(q, e) \in Seq(S)
      /\ Len(Append(q, e)) = Len(q) + 1
      /\ \A i \in 1 .. Len(q) : Append(q, e)[i] = q[i]
      /\ Append(q, e)[Len(q) + 1] = e
  OBVIOUS
<1>2. Range(Append(q, e)) = Range(q) \cup {e}
  BY <1>1 DEF Range
<1> QED
  BY <1>1, <1>2

LEMMA InRange ==
  ASSUME NEW S, NEW q \in Seq(S), NEW i \in 1 .. Len(q)
  PROVE  q[i] \in Range(q) /\ q[i] \in S
BY DEF Range

LEMMA NonEmpty ==
  ASSUME NEW S, NEW q \in Seq(S)
  PROVE  /\ Len(q) \in Nat
         /\ q # <<>> <=> Len(q) > 0
         /\ q # <<>> => q[1] \in S /\ q[1] \in Range(q)
BY DEF Range

\* The first stream is one of the streams, and is alone where there is one.
LEMMA FirstFacts ==
  ASSUME TypeInv, streams # <<>>
  PROVE  First \in Sockets /\ First \in Range(streams) /\ Len(streams) > 0
BY NonEmpty DEF TypeInv, First

-----------------------------------------------------------------------------
(***************************************************************************)
(* The types, and the locals of the receive thread.                        *)
(***************************************************************************)
LEMMA RxInit == Init => RxInv
<1> SUFFICES ASSUME Init PROVE RxInv
  OBVIOUS
<1>1. TypeInv
  BY DistributionAssumption DEF Init, TypeInv
<1>2. LocalInv
  BY <1>1 DEF Init, LocalInv, Older
<1>3. BoundInv
  BY <1>1 DEF Init, BoundInv, Range
<1>4. FirstInv /\ AloneInv
  BY DEF Init, FirstInv, AloneInv
<1> QED
  BY <1>1, <1>2, <1>3, <1>4 DEF RxInv

LEMMA TypeStep ==
  ASSUME TypeInv, LocalInv, [Next]_vars PROVE TypeInv'
<1> USE DEF TypeInv
<1>1. ASSUME NEW s \in Sockets, Bind(s) PROVE TypeInv'
  <2>1. streams' \in Seq(Sockets)
    BY <1>1, RangeAppend DEF Bind
  <2>2. since' \in [Sockets -> Nat]
    BY <1>1 DEF Bind
  <2> QED
    BY <1>1, <2>1, <2>2 DEF Bind
<1>2. ASSUME NEW s \in Sockets, NEW t \in Types, SetType(s, t) PROVE TypeInv'
  BY <1>2 DEF SetType
<1>3. ASSUME Device \/ GetTypes \/ ScanDone \/ ConvertDone \/ PushDone PROVE TypeInv'
  <2>1. <<>> \in Seq(Sockets) /\ <<>> \in Seq(Types) /\ 1 \in Nat \ {0}
    OBVIOUS
  <2>2. block + 1 \in Nat /\ outer + 1 \in Nat \ {0}
    OBVIOUS
  <2>3. CASE Device
    BY <2>1, <2>2, <2>3 DEF Device
  <2>4. CASE GetTypes \/ ScanDone \/ ConvertDone
    BY <2>1, <2>4 DEF GetTypes, ScanDone, ConvertDone
  <2>5. CASE PushDone
    BY <2>2, <2>5 DEF PushDone
  <2> QED
    BY <1>3, <2>3, <2>4, <2>5
<1>4. ASSUME ScanType PROVE TypeInv'
  <2>1. scan \in 1 .. Len(listed)
    BY <1>4 DEF ScanType
  <2>2. streamType[listed[scan]] \in Types
    BY <2>1, InRange
  <2>3. Append(prims, streamType[listed[scan]]) \in Seq(Types)
    BY <2>2, RangeAppend
  <2>4. prims' \in Seq(Types)
    BY <1>4, <2>3 DEF ScanType
  <2>5. scan' \in Nat \ {0}
    BY <2>1, <1>4 DEF ScanType
  <2>6. UNCHANGED <<commandVars, pc, block, copy, listed, outer, inner, scratch, got>>
    BY <1>4 DEF ScanType
  <2> QED
    BY <2>4, <2>5, <2>6
<1>5. ASSUME Convert PROVE TypeInv'
  <2>1. prims[outer] \in Types
    BY <1>5, InRange DEF Convert
  <2>2. scratch' \in [Types -> Nat]
    BY <1>5, <2>1 DEF Convert
  <2> QED
    BY <1>5, <2>2 DEF Convert
<1>6. ASSUME Push PROVE TypeInv'
  <2>1. copy[inner] \in Sockets
    BY <1>6, InRange DEF Push
  <2>2. scratch[streamType[copy[inner]]] \in Nat
    BY <2>1
  <2>3. Append(got[copy[inner]], scratch[streamType[copy[inner]]]) \in Seq(Nat)
    BY <2>1, <2>2, RangeAppend
  <2>4. got' \in [Sockets -> Seq(Nat)]
    BY <1>6, <2>1, <2>3 DEF Push
  <2>5. inner' \in Nat \ {0}
    BY <1>6 DEF Push
  <2>6. UNCHANGED <<commandVars, pc, block, copy, listed, scan, prims, outer, scratch>>
    BY <1>6 DEF Push
  <2> QED
    BY <2>4, <2>5, <2>6
<1>7. ASSUME UNCHANGED vars PROVE TypeInv'
  BY <1>7 DEF vars
<1> QED
  BY <1>1, <1>2, <1>3, <1>4, <1>5, <1>6, <1>7 DEF Next, Receiver

LEMMA LocalStep ==
  ASSUME TypeInv, LocalInv, [Next]_vars PROVE LocalInv'
<1>1. ASSUME NEW s \in Sockets, Bind(s) PROVE LocalInv'
  <2>1. /\ Len(streams') = Len(streams) + 1
        /\ \A i \in 1 .. Len(streams) : streams'[i] = streams[i]
    BY <1>1, RangeAppend DEF Bind, TypeInv
  <2>2. Len(streams) \in Nat /\ Len(copy) \in Nat /\ Len(listed) \in Nat
        /\ Len(prims) \in Nat
    BY NonEmpty DEF TypeInv
  <2>3. Older(copy)' /\ Older(listed)'
    BY <1>1, <2>1, <2>2 DEF Bind, LocalInv, Older
  <2> QED
    BY <1>1, <2>1, <2>2, <2>3 DEF Bind, LocalInv
<1>2. ASSUME NEW s \in Sockets, NEW t \in Types, SetType(s, t) PROVE LocalInv'
  BY <1>2 DEF SetType, LocalInv, Older
<1>3. ASSUME Device PROVE LocalInv'
  BY <1>3 DEF Device, LocalInv, Older, TypeInv
<1>4. ASSUME GetTypes PROVE LocalInv'
  <2>1. Older(listed)' /\ Older(copy)'
    BY <1>4 DEF GetTypes, LocalInv, Older, TypeInv
  <2>2. Len(copy) <= Len(streams) /\ scan = 1 /\ prims = <<>> /\ Len(streams) \in Nat
    BY <1>4 DEF GetTypes, LocalInv, Older, TypeInv
  <2> QED
    BY <1>4, <2>1, <2>2 DEF GetTypes, LocalInv
<1>5. ASSUME ScanType PROVE LocalInv'
  <2> DEFINE t == streamType[listed[scan]]
  <2>1. scan \in 1 .. Len(listed) /\ Len(listed) <= Len(streams)
        /\ Len(streams) \in Nat /\ Len(prims) \in Nat /\ Len(prims) < scan
    <3>1. scan <= Len(listed) /\ Len(listed) <= Len(streams) /\ Len(prims) < scan
      BY <1>5 DEF ScanType, LocalInv, Older
    <3>2. Len(listed) \in Nat /\ Len(streams) \in Nat /\ Len(prims) \in Nat
          /\ scan \in Nat \ {0}
      BY NonEmpty DEF TypeInv
    <3> QED
      BY <3>1, <3>2
  <2>2. t \in Types
    BY <2>1, InRange DEF TypeInv
  <2>3. prims' # <<>> /\ Len(prims') \in {Len(prims), Len(prims) + 1}
    <3>1. CASE t \in Range(prims)
      <4>1. prims # <<>>
        BY <3>1 DEF Range
      <4> QED
        BY <1>5, <3>1, <4>1 DEF ScanType
    <3>2. CASE t \notin Range(prims)
      <4> HIDE DEF t
      <4>1. prims \in Seq(Types)
        BY DEF TypeInv
      <4>2. Len(Append(prims, t)) = Len(prims) + 1 /\ Append(prims, t) \in Seq(Types)
        BY <2>2, <4>1, RangeAppend
      <4>3. Append(prims, t) # <<>>
        BY <2>1, <4>2
      <4> QED
        BY <1>5, <3>2, <4>2, <4>3 DEF ScanType, t
    <3> QED
      BY <3>1, <3>2
  <2>4. Older(copy)' /\ Older(listed)'
    BY <1>5 DEF ScanType, LocalInv, Older
  <2> QED
    BY <1>5, <2>1, <2>3, <2>4 DEF ScanType, LocalInv
<1>6. ASSUME ScanDone PROVE LocalInv'
  <2>1. copy # <<>> => prims # <<>>
    <3> SUFFICES ASSUME copy # <<>>, prims = <<>> PROVE FALSE
      OBVIOUS
    <3>1. Len(copy) > 0 /\ Len(copy) <= Len(listed) /\ scan = 1 /\ scan > Len(listed)
          /\ Len(copy) \in Nat /\ Len(listed) \in Nat
      BY <1>6, NonEmpty DEF ScanDone, LocalInv, TypeInv
    <3> QED
      BY <3>1
  <2>2. Older(copy)' /\ Older(listed)'
    BY <1>6 DEF ScanDone, LocalInv, Older, TypeInv
  <2> QED
    BY <1>6, <2>1, <2>2 DEF ScanDone, LocalInv
<1>7. ASSUME Convert PROVE LocalInv'
  <2>1. prims[outer] \in Types
    BY <1>7, InRange DEF Convert, TypeInv
  <2>2. scratch'[prims'[outer']] = block'
    BY <1>7, <2>1 DEF Convert, TypeInv
  <2> QED
    BY <1>7, <2>2 DEF Convert, LocalInv, Older
<1>8. ASSUME ConvertDone PROVE LocalInv'
  BY <1>8 DEF ConvertDone, LocalInv, Older, TypeInv
<1>9. ASSUME Push \/ PushDone PROVE LocalInv'
  BY <1>9 DEF Push, PushDone, LocalInv, Older
<1>10. ASSUME UNCHANGED vars PROVE LocalInv'
  BY <1>10 DEF vars, LocalInv, Older
<1> QED
  BY <1>1, <1>2, <1>3, <1>4, <1>5, <1>6, <1>7, <1>8, <1>9, <1>10 DEF Next, Receiver

LEMMA BoundStep ==
  ASSUME TypeInv, LocalInv, BoundInv, [Next]_vars PROVE BoundInv'
<1>1. ASSUME NEW s \in Sockets, Bind(s) PROVE BoundInv'
  <2>1. Range(streams') = Range(streams) \cup {s}
    BY <1>1, RangeAppend DEF Bind, TypeInv
  <2> QED
    BY <1>1, <2>1 DEF Bind, BoundInv
<1>2. ASSUME NEW s \in Sockets, NEW t \in Types, SetType(s, t) PROVE BoundInv'
  BY <1>2 DEF SetType, BoundInv
<1>3. ASSUME UNCHANGED <<streams, changed, got>> PROVE BoundInv'
  BY <1>3 DEF BoundInv
<1>4. ASSUME Push PROVE BoundInv'
  <2>1. inner \in 1 .. Len(copy)
    BY <1>4 DEF Push, TypeInv
  <2>2. copy[inner] = streams[inner] /\ inner \in 1 .. Len(streams)
    BY <2>1 DEF LocalInv, Older, TypeInv
  <2>3. copy[inner] \in Range(streams)
    BY <2>2, InRange DEF TypeInv
  <2>4. ASSUME NEW s \in Sockets, s # copy[inner] PROVE got'[s] = got[s]
    BY <1>4, <2>4 DEF Push, TypeInv
  <2>5. UNCHANGED <<streams, changed>>
    BY <1>4 DEF Push
  <2> QED
    BY <2>3, <2>4, <2>5 DEF BoundInv
<1> QED
  BY <1>1, <1>2, <1>3, <1>4 DEF Next, Receiver, vars, Device, GetTypes, ScanType, ScanDone,
     Convert, ConvertDone, PushDone

-----------------------------------------------------------------------------
(***************************************************************************)
(* The stream that was bound first.                                        *)
(***************************************************************************)
\* The steps that give nobody samples owe nothing more to the first stream.
Walks == GetTypes \/ ScanType \/ ScanDone \/ Convert \/ ConvertDone \/ PushDone

LEMMA GivenSame ==
  ASSUME TypeInv, LocalInv, streams # <<>>, Walks \/ Device
  PROVE  Given' = Given
<1>1. CASE Device
  BY <1>1 DEF Device, Given, Done, TypeInv, LocalInv
<1>2. CASE GetTypes \/ ScanType \/ ScanDone \/ Convert
  <2>1. outer' = outer /\ copy' = copy /\ block' = block /\ pc # "device" /\ pc' # "device"
        /\ (pc' = "push" => inner' = 1) /\ pc # "push"
    BY <1>2 DEF GetTypes, ScanType, ScanDone, Convert
  <2> QED
    BY <2>1 DEF Given, Done
<1>3. CASE ConvertDone
  <2>1. copy = <<>> \/ outer > 1
    <3>1. copy # <<>> => Len(prims) > 0
      BY <1>3, NonEmpty DEF ConvertDone, LocalInv, TypeInv
    <3>2. outer > Len(prims) /\ outer \in Nat /\ Len(prims) \in Nat
      BY <1>3, NonEmpty DEF ConvertDone, TypeInv
    <3> QED
      BY <3>1, <3>2
  <2> QED
    BY <1>3, <2>1 DEF ConvertDone, Given, Done
<1>4. CASE PushDone
  <2>1. copy = <<>> \/ inner > 1
    <3>1. copy # <<>> => Len(copy) > 0
      BY NonEmpty DEF TypeInv
    <3>2. inner > Len(copy) /\ inner \in Nat /\ Len(copy) \in Nat
      BY <1>4, NonEmpty DEF PushDone, TypeInv
    <3> QED
      BY <3>1, <3>2
  <2>2. outer' > 1 /\ block' = block /\ pc = "push"
    BY <1>4 DEF PushDone, TypeInv
  <2> QED
    BY <2>1, <2>2 DEF Given, Done
<1> QED
  BY <1>1, <1>2, <1>3, <1>4 DEF Walks

\* The first type that is noted is that of the first stream.
LEMMA TypeOfFirst ==
  ASSUME TypeInv, LocalInv, streams # <<>>, ScanType
  PROVE  /\ prims' # <<>>
         /\ prims'[1] = IF prims = <<>> THEN streamType[First] ELSE prims[1]
<1> DEFINE t == streamType[listed[scan]]
<1>1. scan \in 1 .. Len(listed) /\ prims \in Seq(Types)
  BY DEF ScanType, TypeInv
<1>2. t \in Types
  BY <1>1, InRange DEF TypeInv
<1>3. CASE prims = <<>>
  <2>1. scan = 1 /\ listed[1] = First
    BY <1>1, <1>3 DEF ScanType, LocalInv, Older, First
  <2>2. Range(prims) = {}
    BY <1>3 DEF Range
  <2>3. prims' = Append(<<>>, t)
    BY <1>3, <2>2 DEF ScanType
  <2>4. t = streamType[First]
    BY <2>1
  <2> HIDE DEF t
  <2>5. prims' = <<t>>
    BY <2>3
  <2> QED
    BY <1>3, <2>4, <2>5
<1>4. CASE prims # <<>>
  <2>1. Len(prims) > 0 /\ Len(prims) \in Nat
    BY <1>1, <1>4, NonEmpty
  <2> HIDE DEF t
  <2>2. Len(Append(prims, t)) = Len(prims) + 1 /\ Append(prims, t)[1] = prims[1]
        /\ Append(prims, t) \in Seq(Types)
    BY <1>1, <1>2, <2>1, RangeAppend
  <2>3. Append(prims, t) # <<>>
    BY <2>1, <2>2, NonEmpty
  <2>4. prims' \in {prims, Append(prims, t)}
    BY DEF ScanType, t
  <2> QED
    BY <1>4, <2>2, <2>3, <2>4
<1> QED
  BY <1>3, <1>4

\* The walk begins with the first stream.  Later it owes that stream nothing, and
\* only adds to what it was given.
LEMMA PushFirst ==
  ASSUME TypeInv, LocalInv, Push
  PROVE  /\ streams # <<>> /\ Given' = block /\ UNCHANGED block
         /\ got'[First] = got[First]
            \/ got'[First] = Append(got[First], scratch[streamType[First]])
         /\ ~Done =>
              /\ copy # <<>> /\ prims # <<>> /\ scratch[prims[1]] = block
              /\ IF prims[1] = streamType[First]
                 THEN got'[First] = Append(got[First], block)
                 ELSE got'[First] = got[First]
<1>1. inner \in 1 .. Len(copy) /\ Len(copy) \in Nat /\ Len(copy) <= Len(streams)
      /\ Len(streams) \in Nat
  BY DEF Push, TypeInv, LocalInv, Older
<1>2. streams # <<>> /\ copy # <<>>
  BY <1>1
<1>3. First \in Sockets /\ copy[inner] \in Sockets
  BY <1>1, <1>2, FirstFacts, InRange DEF TypeInv
<1>4. Given' = block /\ UNCHANGED block
  <2>1. inner' > 1 /\ pc' = "push" /\ UNCHANGED block
    BY DEF Push, TypeInv
  <2> QED
    BY <2>1 DEF Given, Done
<1>5. got'[First] = got[First]
      \/ got'[First] = Append(got[First], scratch[streamType[First]])
  <2>1. CASE copy[inner] = First
    BY <1>3, <2>1 DEF Push, TypeInv
  <2>2. CASE copy[inner] # First
    BY <1>3, <2>2 DEF Push, TypeInv
  <2> QED
    BY <2>1, <2>2
<1>6. ASSUME ~Done
      PROVE  /\ prims # <<>> /\ scratch[prims[1]] = block
             /\ IF prims[1] = streamType[First]
                THEN got'[First] = Append(got[First], block)
                ELSE got'[First] = got[First]
  <2>1. inner = 1 /\ outer = 1
    BY <1>6 DEF Done, Push, TypeInv
  <2>2. copy[1] = First
    BY <1>1, <2>1 DEF LocalInv, Older, First
  <2>3. prims # <<>> /\ scratch[prims[1]] = block /\ 1 <= Len(prims)
    BY <1>2, <2>1 DEF LocalInv, Push
  <2>4. Len(prims) \in Nat
    BY NonEmpty DEF TypeInv
  <2>5. ~(inner > Len(prims)) /\ (Wanted(First) <=> prims[1] = streamType[First])
    BY <2>1, <2>3, <2>4 DEF Wanted
  <2> QED
    BY <1>3, <2>1, <2>2, <2>3, <2>5 DEF Push, TypeInv
<1> QED
  BY <1>2, <1>4, <1>5, <1>6

LEMMA FirstStep ==
  ASSUME TypeInv, LocalInv, BoundInv, FirstInv, [Next]_vars PROVE FirstInv'
<1>1. ASSUME NEW s \in Sockets, Bind(s), streams = <<>> PROVE FirstInv'
  <2>1. streams' = <<s>> /\ First' = s
    BY <1>1 DEF Bind, First
  <2>2. copy = <<>> /\ prims = <<>>
    BY <1>1, NonEmpty DEF LocalInv, Older, TypeInv
  <2>3. Range(streams) = {}
    BY <1>1 DEF Range
  <2>4. UNCHANGED threadVars /\ since'[s] = block
    BY <1>1, <2>3 DEF Bind, TypeInv
  <2>5. Given' = block
    BY <2>2, <2>4 DEF Given, Done
  <2>6. FirstTimes' /\ FirstType'
    BY <2>1, <2>2, <2>4 DEF FirstTimes, FirstType, TypeInv
  <2>7. FirstGiven'
    BY <2>1, <2>4, <2>5 DEF FirstGiven, TypeInv
  <2> QED
    BY <2>6, <2>7 DEF FirstInv
<1>2. ASSUME NEW s \in Sockets, Bind(s), streams # <<>> PROVE FirstInv'
  <2>1. First' = First /\ First \in Range(streams) /\ First \in Sockets
    BY SMTT(30), <1>2, FirstFacts, RangeAppend DEF Bind, First, TypeInv
  <2>2. since'[First] = since[First] /\ UNCHANGED <<threadVars, streamType, changed>>
    BY <1>2, <2>1 DEF Bind, TypeInv
  <2>3. Given' = Given
    BY <2>2 DEF Given, Done
  <2> QED
    BY <1>2, <2>1, <2>2, <2>3 DEF FirstInv, FirstTimes, FirstType, FirstGiven
<1>3. ASSUME NEW s \in Sockets, NEW t \in Types, SetType(s, t), streams # <<>>
      PROVE  FirstInv'
  <2>1. First' = First /\ First \in Range(streams) /\ First \in Sockets
    BY <1>3, FirstFacts DEF SetType, First
  <2>2. UNCHANGED <<threadVars, since, streams>> /\ changed \subseteq changed'
    BY <1>3 DEF SetType
  <2>3. Given' = Given
    BY <2>2 DEF Given, Done
  <2>4. First \notin changed' => streamType'[First] = streamType[First]
    BY <1>3, <2>1 DEF SetType, TypeInv
  <2> QED
    BY <1>3, <2>1, <2>2, <2>3, <2>4 DEF FirstInv, FirstTimes, FirstType, FirstGiven
<1>4. ASSUME Walks \/ Device, streams # <<>> PROVE FirstInv'
  <2>1. UNCHANGED <<streams, streamType, since, changed, got>> /\ Given' = Given
    BY <1>4, GivenSame DEF Walks, Device, GetTypes, ScanType, ScanDone, Convert,
       ConvertDone, PushDone
  <2>2. First' = First /\ First \in Sockets
    BY <1>4, <2>1, FirstFacts DEF First
  <2>3. FirstTimes'
    <3>1. CASE Device
      <4>1. copy' = streams /\ block' = block + 1 /\ block \in Nat
            /\ since[First] <= block /\ since[First] \in Nat
        BY <1>4, <2>2, <3>1 DEF Device, FirstInv, FirstTimes, TypeInv
      <4> QED
        BY <1>4, <2>1, <2>2, <4>1 DEF FirstTimes
    <3>2. CASE Walks
      <4>1. block' = block /\ pc # "device"
            /\ (copy' = copy \/ (pc' = "device" /\ copy' = <<>>))
        BY <3>2 DEF Walks, GetTypes, ScanType, ScanDone, Convert, ConvertDone, PushDone
      <4> QED
        BY <1>4, <2>1, <2>2, <4>1 DEF FirstInv, FirstTimes
    <3> QED
      BY <1>4, <3>1, <3>2
  <2>4. FirstType'
    <3>1. CASE ScanType
      BY <1>4, <2>1, <2>2, <3>1, TypeOfFirst DEF FirstInv, FirstType
    <3>2. CASE ~ScanType
      <4>1. prims' \in {prims, <<>>}
        BY <1>4, <3>2 DEF Walks, Device, GetTypes, ScanDone, Convert, ConvertDone, PushDone
      <4> QED
        BY <1>4, <2>1, <2>2, <4>1 DEF FirstInv, FirstType
    <3> QED
      BY <3>1, <3>2
  <2>5. FirstGiven'
    BY <1>4, <2>1, <2>2 DEF FirstInv, FirstGiven
  <2> QED
    BY <2>3, <2>4, <2>5 DEF FirstInv
<1>5. ASSUME Push PROVE FirstInv'
  <2>1. UNCHANGED <<streams, streamType, since, changed, prims, copy, block, pc>>
    BY <1>5 DEF Push
  <2>2. streams # <<>> /\ Given' = block
    BY <1>5, PushFirst
  <2>3. First' = First /\ First \in Sockets /\ got[First] \in Seq(Nat)
        /\ since[First] \in Nat /\ block \in Nat
    BY <2>1, <2>2, FirstFacts DEF First, TypeInv
  <2>4. FirstTimes' /\ FirstType'
    BY <2>1, <2>2, <2>3 DEF FirstInv, FirstTimes, FirstType
  <2>5. ASSUME First \notin changed
        PROVE  (since[First] + 1) .. block \subseteq Range(got'[First])
    <3>1. (since[First] + 1) .. Given \subseteq Range(got[First])
      BY <2>2, <2>5 DEF FirstInv, FirstGiven
    <3>2. CASE Done
      <4>1. streamType[First] \in Types /\ scratch[streamType[First]] \in Nat
        BY <2>3 DEF TypeInv
      <4>2. Range(got[First]) \subseteq Range(Append(got[First], scratch[streamType[First]]))
        BY <2>3, <4>1, RangeAppend
      <4>3. Range(got[First]) \subseteq Range(got'[First])
        BY <1>5, <4>2, PushFirst
      <4> QED
        BY <3>1, <3>2, <4>3 DEF Given
    <3>3. CASE ~Done
      <4>1. got'[First] = Append(got[First], block)
        BY <1>5, <2>2, <2>5, <3>3, PushFirst DEF FirstInv, FirstType
      <4>2. Range(got'[First]) = Range(got[First]) \cup {block}
        BY <2>3, <4>1, RangeAppend
      <4>3. Given = block - 1
        BY <3>3 DEF Given
      <4> QED
        BY <2>3, <3>1, <4>2, <4>3
    <3> QED
      BY <3>2, <3>3
  <2>6. FirstGiven'
    BY <2>1, <2>2, <2>3, <2>5 DEF FirstGiven
  <2> QED
    BY <2>4, <2>6 DEF FirstInv
<1>6. ASSUME UNCHANGED vars PROVE FirstInv'
  BY <1>6 DEF vars, FirstInv, FirstTimes, FirstType, FirstGiven, Given, Done, First
<1>7. ASSUME streams' = <<>> PROVE FirstInv'
  BY <1>7 DEF FirstInv
<1>8. (Walks \/ Device \/ \E s \in Sockets, t \in Types : SetType(s, t)) => streams' = streams
  BY DEF Walks, Device, GetTypes, ScanType, ScanDone, Convert, ConvertDone, PushDone, SetType
<1> QED
  BY <1>1, <1>2, <1>3, <1>4, <1>5, <1>6, <1>7, <1>8 DEF Next, Receiver, Walks

-----------------------------------------------------------------------------
(***************************************************************************)
(* A stream that is alone.                                                 *)
(***************************************************************************)
\* A channel with one stream has one type at most, and one walk.
LEMMA AloneFacts ==
  ASSUME TypeInv, LocalInv, Len(streams) = 1
  PROVE  /\ streams # <<>> /\ First \in Sockets /\ First \in Range(streams)
         /\ got[First] \in Seq(Nat) /\ Len(got[First]) \in Nat
         /\ since[First] \in Nat /\ block \in Nat /\ changes \in Nat
         /\ Given \in Int /\ Lost \in {0, 1}
         /\ Push => ~Done
<1>1. streams # <<>>
  <2>1. Len(<<>>) = 0
    OBVIOUS
  <2> QED
    BY <2>1
<1>2. /\ First \in Sockets /\ First \in Range(streams)
      /\ got[First] \in Seq(Nat) /\ Len(got[First]) \in Nat
      /\ since[First] \in Nat /\ block \in Nat /\ changes \in Nat
  BY <1>1, FirstFacts DEF TypeInv
<1>3. Given \in Int /\ Lost \in {0, 1}
  BY <1>2 DEF Given, Lost
<1>4. ASSUME Push PROVE ~Done
  <2>1. inner <= Len(copy) /\ Len(copy) <= 1 /\ outer <= Len(prims) /\ Len(prims) <= 1
    BY <1>4 DEF Push, LocalInv, Older
  <2>2. Len(copy) \in Nat /\ Len(prims) \in Nat /\ inner \in Nat \ {0} /\ outer \in Nat \ {0}
    BY NonEmpty DEF TypeInv
  <2>3. Len(copy) > 0
    BY <2>1, <2>2
  <2>4. copy # <<>>
    BY <2>3
  <2> QED
    BY <1>4, <2>1, <2>2, <2>4 DEF Done, Push
<1> QED
  BY <1>1, <1>2, <1>3, <1>4

LEMMA AloneStep ==
  ASSUME TypeInv, LocalInv, BoundInv, FirstInv, AloneInv, [Next]_vars, TypeInv'
  PROVE  AloneInv'
<1> SUFFICES ASSUME Len(streams') = 1 PROVE AloneInv'
  BY DEF AloneInv
<1>1. ASSUME NEW s \in Sockets, Bind(s) PROVE AloneInv'
  <2>1. Len(streams) = 0
    <3>1. Len(streams') = Len(streams) + 1
      BY <1>1, RangeAppend DEF Bind, TypeInv
    <3>2. Len(streams) \in Nat
      BY DEF TypeInv
    <3> QED
      BY <3>1, <3>2
  <2>2. streams = <<>>
    BY <2>1, NonEmpty DEF TypeInv
  <2>3. First' = s
    BY <1>1, <2>2 DEF Bind, First
  <2>4. copy = <<>> /\ Range(streams) = {}
    BY <2>2, NonEmpty DEF LocalInv, Older, TypeInv, Range
  <2>5. UNCHANGED threadVars /\ since'[s] = block /\ got'[s] = <<>> /\ changes' = changes
    BY <1>1, <2>4 DEF Bind, TypeInv, BoundInv
  <2>6. Done' /\ Given' = block
    BY <2>4, <2>5 DEF Given, Done
  <2>7. Lost' = 0
    BY <2>6 DEF Lost, Losing
  <2>8. block - block = 0 /\ 0 + changes >= 0 + 0
    BY DEF TypeInv
  <2> QED
    BY <2>3, <2>5, <2>6, <2>7, <2>8 DEF AloneInv, InOrder
<1>2. ASSUME UNCHANGED streams
      PROVE  Len(streams) = 1 /\ First' = First
  BY <1>2 DEF First
<1>3. ASSUME NEW s \in Sockets, NEW t \in Types, SetType(s, t) PROVE AloneInv'
  <2>1. UNCHANGED <<threadVars, since, streams>> /\ changed \subseteq changed'
        /\ changes' = changes + 1
    BY <1>3 DEF SetType
  <2>2. Given' = Given /\ Lost' \in {0, 1}
    BY <2>1 DEF Given, Done, Lost
  <2>3. Len(streams) = 1 /\ First' = First
    BY <1>2, <2>1
  <2>4. Len(got[First]) + (changes + 1) >= Given - since[First] + Lost'
    BY SMTT(30), <2>2, <2>3, AloneFacts DEF AloneInv
  <2> QED
    BY <2>1, <2>2, <2>3, <2>4 DEF AloneInv
<1>4. ASSUME Walks \/ Device PROVE AloneInv'
  <2>1. UNCHANGED <<streams, streamType, since, changed, got, changes>>
    BY <1>4 DEF Walks, Device, GetTypes, ScanType, ScanDone, Convert, ConvertDone, PushDone
  <2>2. Len(streams) = 1 /\ First' = First /\ streams # <<>>
    BY <1>2, <2>1, AloneFacts
  <2>3. Given' = Given
    BY <1>4, <2>2, GivenSame
  <2>4. Lost' <= Lost
    <3>1. CASE Losing'
      <4>1. ~Done
        <5>1. block' - 1 = Given /\ (Device \/ block' = block)
          BY <1>4, <2>3, <3>1 DEF Losing, Given, Walks, Device, GetTypes, ScanType,
             ScanDone, Convert, ConvertDone, PushDone
        <5>2. ~Device
          BY <3>1 DEF Losing, Device, LocalInv
        <5>3. block \in Nat
          BY DEF TypeInv
        <5> QED
          BY <5>1, <5>2, <5>3 DEF Given
      <4>2. prims # <<>> /\ prims[1] # streamType[First]
        <5>1. CASE ScanType
          BY <2>1, <2>2, <3>1, <5>1, TypeOfFirst DEF Losing
        <5>2. CASE ~ScanType
          <6>1. prims' \in {prims, <<>>}
            BY <1>4, <5>2 DEF Walks, Device, GetTypes, ScanDone, Convert, ConvertDone, PushDone
          <6> QED
            BY <2>1, <2>2, <3>1, <6>1 DEF Losing
        <5> QED
          BY <5>1, <5>2
      <4> QED
        BY <3>1, <4>1, <4>2 DEF Lost, Losing
    <3>2. CASE ~Losing'
      BY <3>2 DEF Lost
    <3> QED
      BY <3>1, <3>2
  <2>5. Lost' \in {0, 1}
    BY DEF Lost
  <2>6. Len(got[First]) + changes >= Given - since[First] + Lost'
    BY SMTT(30), <2>2, <2>4, <2>5, AloneFacts DEF AloneInv
  <2> QED
    BY <2>1, <2>2, <2>3, <2>6 DEF AloneInv
<1>5. ASSUME Push PROVE AloneInv'
  <2>1. UNCHANGED <<streams, streamType, since, changed, prims, copy, block, pc, changes>>
    BY <1>5 DEF Push
  <2>2. Len(streams) = 1 /\ First' = First
    BY <1>2, <2>1
  <2> DEFINE g == got[First]
             n == since[First]
  <2>3. g \in Seq(Nat) /\ Len(g) \in Nat /\ n \in Nat /\ block \in Nat /\ changes \in Nat
        /\ streams # <<>>
    BY <2>2, AloneFacts
  <2>4. ~Done /\ Given = block - 1
    BY <1>5, <2>2, AloneFacts DEF Given
  <2>5. /\ Given' = block /\ prims # <<>>
        /\ IF prims[1] = streamType[First]
           THEN got'[First] = Append(g, block) ELSE got'[First] = g
    BY <1>5, <2>4, PushFirst
  <2>6. Lost' = 0
    <3>1. Done'
      <4>1. inner' > 1 /\ pc' = "push"
        BY <1>5 DEF Push, TypeInv
      <4> QED
        BY <4>1 DEF Done
    <3> QED
      BY <3>1 DEF Lost, Losing
  <2>7. Len(Append(g, block)) = Len(g) + 1
        /\ \A i \in 1 .. Len(g) : Append(g, block)[i] = g[i]
        /\ Append(g, block)[Len(g) + 1] = block
    BY <2>3, RangeAppend
  <2>8. First \notin changed => InOrder(got'[First], n, block)
    <3> SUFFICES ASSUME First \notin changed PROVE InOrder(got'[First], n, block)
      OBVIOUS
    <3>1. got'[First] = Append(g, block)
      BY <2>3, <2>5 DEF FirstInv, FirstType
    <3>2. Len(g) = block - 1 - n /\ \A i \in 1 .. Len(g) : g[i] = n + i
      BY <2>2, <2>4 DEF AloneInv, InOrder
    <3> HIDE DEF g, n
    <3>3. Len(g) + 1 = block - n /\ n + (Len(g) + 1) = block
      BY <2>3, <3>2
    <3>4. \A i \in 1 .. Len(g) + 1 : Append(g, block)[i] = n + i
      BY <2>3, <2>7, <3>2, <3>3
    <3> QED
      BY <2>7, <3>1, <3>3, <3>4 DEF InOrder
  <2>9. Len(got'[First]) + changes >= block - n + 0
    <3>1. Len(g) + changes >= block - 1 - n + Lost
      BY <2>2, <2>4 DEF AloneInv
    <3>2. CASE prims[1] = streamType[First]
      <4>1. Lost = 0 /\ Len(got'[First]) = Len(g) + 1
        BY <2>5, <2>7, <3>2 DEF Lost, Losing
      <4> HIDE DEF g, n
      <4> QED
        BY <2>3, <3>1, <4>1
    <3>3. CASE prims[1] # streamType[First]
      <4>1. Lost = 1 /\ Len(got'[First]) = Len(g)
        BY <2>4, <2>5, <3>3 DEF Lost, Losing
      <4> HIDE DEF g, n
      <4> QED
        BY <2>3, <3>1, <4>1
    <3> QED
      BY <3>2, <3>3
  <2> QED
    BY <2>1, <2>2, <2>5, <2>6, <2>8, <2>9 DEF AloneInv
<1>6. ASSUME UNCHANGED vars PROVE AloneInv'
  BY <1>6 DEF vars, AloneInv, Given, Done, First, Lost, Losing
<1> QED
  BY <1>1, <1>3, <1>4, <1>5, <1>6 DEF Next, Receiver, Walks

-----------------------------------------------------------------------------
(***************************************************************************)
(* The theorems.                                                           *)
(***************************************************************************)
LEMMA RxAlways == Spec => []RxInv
<1>1. RxInv /\ [Next]_vars => RxInv'
  BY TypeStep, LocalStep, BoundStep, FirstStep, AloneStep DEF RxInv
<1> QED
  BY <1>1, RxInit, PTL DEF Spec

\* Whoever was bound to a channel first is given every block, in whatever order
\* binds, changes of others' types and the receive thread's two copies of the list
\* come, and whatever is read past the end of the types (genericSDRInterface.cc,
\* distributeRXData: the inner ii).
THEOREM FirstIsServed == Spec => []FirstServed
<1>1. RxInv => FirstServed
  <2> SUFFICES ASSUME RxInv, pc = "device", streams # <<>>, Steady(streams[1])
               PROVE  Due(streams[1]) \subseteq Range(got[streams[1]])
    BY DEF FirstServed
  <2>1. Given = block
    BY DEF Given, Done
  <2>2. First \notin changed
    BY DEF Steady, First
  <2> QED
    BY <2>1, <2>2 DEF RxInv, FirstInv, FirstGiven, Due, First
<1> QED
  BY <1>1, RxAlways, PTL

\* A channel's only stream is given every block from the bind on, once and in
\* order, at every moment and not only between blocks (genericSDRInterface.cc,
\* distributeRXData; streamConverter.cc, convertWorker).
THEOREM AloneIsServedOnce == Spec => []AloneServedOnce
<1>1. RxInv => AloneServedOnce
  <2> SUFFICES ASSUME RxInv, Len(streams) = 1, Steady(streams[1])
               PROVE  \A i \in 1 .. Len(got[streams[1]]) :
                        got[streams[1]][i] = since[streams[1]] + i
    BY DEF AloneServedOnce
  <2> QED
    BY DEF RxInv, AloneInv, InOrder, First, Steady
<1> QED
  BY <1>1, RxAlways, PTL

\* Each DATATYPE command costs a channel's only stream one block at most: the one
\* whose types were collected before it (genericSDRInterface.cc, distributeRXData).
THEOREM AloneLosesOnePerChange == Spec => []AloneLosesLittle
<1>1. RxInv => AloneLosesLittle
  <2> SUFFICES ASSUME RxInv, pc = "device", Len(streams) = 1
               PROVE  Len(got[First]) >= Cardinality(Due(First)) - changes
    BY DEF AloneLosesLittle, First
  <2>1. TypeInv /\ LocalInv /\ AloneInv /\ FirstInv
    BY DEF RxInv
  <2>2. /\ since[First] \in Nat /\ block \in Nat /\ changes \in Nat
        /\ Len(got[First]) \in Nat /\ streams # <<>>
    BY <2>1, AloneFacts
  <2>3. Given = block /\ Lost = 0
    BY DEF Given, Lost, Losing, Done
  <2>4. since[First] <= block
    BY <2>1, <2>2 DEF FirstInv, FirstTimes
  <2>5. Len(got[First]) + changes >= block - since[First] + 0
    BY <2>1, <2>3 DEF AloneInv
  <2>6. Cardinality(Due(First)) = block - since[First]
    <3> DEFINE a == since[First] + 1
    <3>1. a \in Int /\ block \in Int
      BY <2>2
    <3>2. Cardinality(a .. block) = IF a > block THEN 0 ELSE block - a + 1
      <4> HIDE DEF a
      <4> QED BY <3>1, FS_Interval
    <3> QED
      BY <2>2, <2>4, <3>2 DEF Due
  <2> QED
    BY <2>2, <2>5, <2>6
<1> QED
  BY <1>1, RxAlways, PTL
=============================================================================
