---------------------------- MODULE TxPathProofs ----------------------------
(***************************************************************************)
(* Theorems about TxPath, for every set of sockets and of types, every     *)
(* length of the device's transfers and every bound.                       *)
(***************************************************************************)
EXTENDS TxPath, SequenceTheorems, WellFoundedInduction, TLAPS

\* What the tuples of unchanged variables stand for.
USE DEF readerVars, callbackVars

-----------------------------------------------------------------------------
(***************************************************************************)
(* A sequence without some of its elements.  A set of numbers that is not  *)
(* empty has a least element, which is how a fact is shown for every       *)
(* prefix.                                                                 *)
(***************************************************************************)
LEMMA SmallestNumber ==
  ASSUME NEW S \in SUBSET Nat, S # {}
  PROVE  \E n \in S : \A m \in S : n <= m
<1> DEFINE Less == OpToRel(<, Nat)
<1>1. IsWellFoundedOn(Less, Nat)
  BY NatLessThanWellFounded
<1>2. PICK n \in S : \A m \in S : ~(<<m, n>> \in Less)
  <2> HIDE DEF Less
  <2> QED
    BY <1>1, WFMin
<1>3. \A m \in S : ~(m < n)
  BY <1>2 DEF OpToRel
<1> QED
  BY <1>3

\* f[n] is what the first n elements of q come to.
Strips(f, q, P, m) ==
  f = [n \in 0 .. m |->
         IF n = 0 THEN <<>>
         ELSE IF n \in P THEN f[n - 1] ELSE Append(f[n - 1], q[n])]

LEMMA StripsExists ==
  ASSUME NEW q, NEW P, NEW m \in Nat
  PROVE  \E f : Strips(f, q, P, m)
<1> DEFINE Bad == {k \in Nat : ~\E f : Strips(f, q, P, k)}
<1> SUFFICES ASSUME Bad # {} PROVE FALSE
  OBVIOUS
<1>1. PICK k \in Bad : \A l \in Bad : k <= l
  <2>1. Bad \in SUBSET Nat
    OBVIOUS
  <2> HIDE DEF Bad
  <2> QED
    BY <2>1, SmallestNumber
<1>2. CASE k = 0
  <2>1. Strips([n \in 0 .. 0 |-> <<>>], q, P, 0)
    BY DEF Strips
  <2> QED
    BY <1>1, <1>2, <2>1
<1>3. CASE k # 0
  <2>1. k - 1 \in Nat /\ ~(k <= k - 1)
    BY <1>1, <1>3
  <2>2. PICK f : Strips(f, q, P, k - 1)
    BY <1>1, <2>1
  <2> DEFINE last == IF k \in P THEN f[k - 1] ELSE Append(f[k - 1], q[k])
             g == [n \in 0 .. k |-> IF n = k THEN last ELSE f[n]]
  <2>0. k \in Nat
    BY <1>1
  <2>3. \A n \in 0 .. (k - 1) : g[n] = f[n]
    BY <2>0
  <2>7. \A n \in 0 .. (k - 1) :
          f[n] = IF n = 0 THEN <<>>
                 ELSE IF n \in P THEN f[n - 1] ELSE Append(f[n - 1], q[n])
    BY <2>2 DEF Strips
  <2>4. g[k] = last
    BY <1>1
  <2> HIDE DEF g
  <2>5. \A n \in 0 .. k :
          g[n] = IF n = 0 THEN <<>>
                 ELSE IF n \in P THEN g[n - 1] ELSE Append(g[n - 1], q[n])
    <3> TAKE n \in 0 .. k
    <3>1. CASE n = k
      <4>1. g[k - 1] = f[k - 1]
        BY <1>1, <1>3, <2>3
      <4> QED
        BY <1>3, <2>4, <3>1, <4>1
    <3>2. CASE n # k
      <4>1. n \in 0 .. (k - 1) /\ (n # 0 => n - 1 \in 0 .. (k - 1))
        BY <1>1, <3>2
      <4> QED
        BY <2>3, <2>7, <4>1
    <3> QED
      BY <3>1, <3>2
  <2>6. Strips(g, q, P, k)
    <3>1. g = [n \in 0 .. k |-> g[n]]
      BY DEF g
    <3> QED
      BY <2>5, <3>1 DEF Strips
  <2> QED
    BY <1>1, <2>6
<1> QED
  BY <1>2, <1>3

LEMMA WithoutStrips ==
  ASSUME NEW S, NEW q \in Seq(S), NEW P
  PROVE  \E f : Strips(f, q, P, Len(q)) /\ Without(q, P) = f[Len(q)]
<1> DEFINE f == CHOOSE f : Strips(f, q, P, Len(q))
<1>1. Strips(f, q, P, Len(q))
  BY StripsExists
<1>2. Without(q, P) = f[Len(q)]
  BY DEF Without, Strips
<1> QED
  BY <1>1, <1>2

LEMMA WithoutEmpty == \A P : Without(<<>>, P) = <<>>
<1> SUFFICES ASSUME NEW P PROVE Without(<<>>, P) = <<>>
  OBVIOUS
<1>0. <<>> \in Seq({}) /\ Len(<<>>) = 0
  OBVIOUS
<1>1. PICK f : Strips(f, <<>>, P, 0) /\ Without(<<>>, P) = f[0]
  BY <1>0, WithoutStrips
<1> QED
  BY <1>1 DEF Strips

\* Two that agree on what to strip from the first elements agree on what is left.
LEMMA StripsAgree ==
  ASSUME NEW f, NEW g, NEW q, NEW r, NEW P, NEW Q, NEW m \in Nat,
         NEW k \in Nat, NEW l \in Nat, m <= k, m <= l,
         Strips(f, q, P, k), Strips(g, r, Q, l),
         \A n \in 1 .. m : q[n] = r[n] /\ (n \in P <=> n \in Q)
  PROVE  f[m] = g[m]
<1> DEFINE Bad == {n \in 0 .. m : f[n] # g[n]}
<1> SUFFICES ASSUME Bad # {} PROVE FALSE
  OBVIOUS
<1>1. PICK n \in Bad : \A b \in Bad : n <= b
  <2>1. Bad \in SUBSET Nat
    OBVIOUS
  <2> HIDE DEF Bad
  <2> QED
    BY <2>1, SmallestNumber
<1>2. n \in 0 .. k /\ n \in 0 .. l /\ n \in 0 .. m
  BY <1>1
<1>3. f[n] = IF n = 0 THEN <<>>
             ELSE IF n \in P THEN f[n - 1] ELSE Append(f[n - 1], q[n])
  BY <1>2 DEF Strips
<1>4. g[n] = IF n = 0 THEN <<>>
             ELSE IF n \in Q THEN g[n - 1] ELSE Append(g[n - 1], r[n])
  BY <1>2 DEF Strips
<1>5. n # 0 => f[n - 1] = g[n - 1]
  BY <1>1
<1>6. n # 0 => n \in 1 .. m
  BY <1>2
<1> QED
  BY <1>1, <1>3, <1>4, <1>5, <1>6

LEMMA WithoutPrefix ==
  ASSUME NEW S, NEW q \in Seq(S), NEW r \in Seq(S), NEW P, NEW Q, NEW f,
         Len(q) <= Len(r), Strips(f, r, Q, Len(r)),
         \A n \in 1 .. Len(q) : r[n] = q[n] /\ (n \in Q <=> n \in P)
  PROVE  f[Len(q)] = Without(q, P)
<1>1. PICK u : Strips(u, q, P, Len(q)) /\ Without(q, P) = u[Len(q)]
  BY WithoutStrips
<1>2. Len(q) \in Nat /\ Len(r) \in Nat /\ Len(q) <= Len(q)
  OBVIOUS
<1>3. f[Len(q)] = u[Len(q)]
  BY <1>1, <1>2, StripsAgree
<1> QED
  BY <1>1, <1>3

LEMMA AppendToConcat ==
  ASSUME NEW S, NEW s \in Seq(S), NEW t \in Seq(S), NEW e \in S
  PROVE  Append(s \o t, e) = s \o (t \o <<e>>)
<1>1. s \o t \in Seq(S) /\ <<e>> \in Seq(S)
  BY ConcatProperties
<1>2. Append(s \o t, e) = (s \o t) \o <<e>>
  BY <1>1, AppendIsConcat
<1> QED
  BY <1>1, <1>2, ConcatAssociative

\* Q strips what P does from the first elements, k in number, and none of the l
\* that follow.
Beyond(P, Q, k, l) ==
  /\ P \in SUBSET (1 .. k)
  /\ \A n \in 1 .. k : n \in P <=> n \in Q
  /\ \A n \in 1 .. l : k + n \notin Q

\* What is appended, and none of it stripped, is left.
LEMMA WithoutConcat ==
  ASSUME NEW S, NEW g \in Seq(S), NEW c \in Seq(S), NEW P, NEW Q,
         Beyond(P, Q, Len(g), Len(c)),
         Without(g, P) \in Seq(S)
  PROVE  Without(g \o c, Q) = Without(g, P) \o c
<1> DEFINE gc == g \o c
           a == Len(g)
<1>1. /\ gc \in Seq(S) /\ Len(gc) = a + Len(c) /\ a \in Nat /\ Len(c) \in Nat
      /\ \A n \in 1 .. a : gc[n] = g[n]
      /\ \A n \in 1 .. Len(c) : gc[a + n] = c[n]
  BY ConcatProperties
<1> HIDE DEF gc
<1>3. PICK f : Strips(f, gc, Q, Len(gc)) /\ Without(gc, Q) = f[Len(gc)]
  BY <1>1, WithoutStrips
<1>4. f[a] = Without(g, P)
  <2>1. Len(g) <= Len(gc)
    BY <1>1
  <2>2. \A n \in 1 .. Len(g) : gc[n] = g[n] /\ (n \in Q <=> n \in P)
    BY <1>1 DEF Beyond
  <2>3. gc \in Seq(S) /\ Strips(f, gc, Q, Len(gc))
    BY <1>1, <1>3
  <2> QED
    BY <2>1, <2>2, <2>3, WithoutPrefix
<1> DEFINE W == Without(g, P)
           Bad == {n \in 0 .. Len(c) : f[a + n] # W \o SubSeq(c, 1, n)}
<1> HIDE DEF a
<1>5. Bad = {}
  <2> SUFFICES ASSUME Bad # {} PROVE FALSE
    OBVIOUS
  <2>1. PICK n \in Bad : \A b \in Bad : n <= b
    <3>1. Bad \in SUBSET Nat
      OBVIOUS
    <3> HIDE DEF Bad
    <3> QED
      BY <3>1, SmallestNumber
  <2>2. n \in 0 .. Len(c) /\ f[a + n] # W \o SubSeq(c, 1, n)
    BY <2>1
  <2>3. CASE n = 0
    <3>1. SubSeq(c, 1, 0) = <<>>
      BY SubSeqEmpty
    <3>2. W \o <<>> = W
      BY ConcatEmptySeq
    <3>3. f[a + n] = f[a]
      BY <1>1, <2>3
    <3> QED
      BY <1>4, <2>2, <2>3, <3>1, <3>2, <3>3
  <2>4. CASE n # 0
    <3>1. n - 1 \in 0 .. Len(c) /\ ~(n <= n - 1) /\ n \in 1 .. Len(c)
      BY <1>1, <2>2, <2>4
    <3>2. f[a + (n - 1)] = W \o SubSeq(c, 1, n - 1)
      BY <2>1, <3>1
    <3>3. a + n \in 0 .. Len(gc) /\ a + n # 0 /\ (a + n) - 1 = a + (n - 1)
      BY <1>1, <3>1
    <3>4. f[a + n] = IF a + n \in Q THEN f[(a + n) - 1]
                     ELSE Append(f[(a + n) - 1], gc[a + n])
      BY <1>3, <3>3 DEF Strips
    <3>5. f[a + n] = Append(W \o SubSeq(c, 1, n - 1), c[n])
      BY <1>1, <3>1, <3>2, <3>3, <3>4 DEF a, Beyond
    <3>6. SubSeq(c, 1, n) = SubSeq(c, 1, n - 1) \o <<c[n]>>
      <4>1. 1 \in 1 .. Len(c) /\ n \in 1 .. Len(c)
        BY <1>1, <3>1
      <4> QED
        BY <4>1, SubSeqRecursiveSecond
    <3>7. SubSeq(c, 1, n - 1) \in Seq(S) /\ c[n] \in S /\ <<c[n]>> \in Seq(S)
      <4>1. \A i \in 1 .. (n - 1) : c[i] \in S
        BY <1>1, <3>1
      <4>2. 1 \in Int /\ n - 1 \in Int
        BY <3>1
      <4> QED
        BY SMTT(30), <1>1, <3>1, <4>1, <4>2, SubSeqProperties
    <3>8. Append(W \o SubSeq(c, 1, n - 1), c[n])
            = W \o (SubSeq(c, 1, n - 1) \o <<c[n]>>)
      <4>1. W \in Seq(S)
        OBVIOUS
      <4> HIDE DEF W, Bad
      <4> QED
        BY <3>7, <4>1, AppendToConcat
    <3> QED
      BY <2>2, <3>5, <3>6, <3>8
  <2> QED
    BY <2>3, <2>4
<1>6. f[a + Len(c)] = W \o SubSeq(c, 1, Len(c))
  <2>1. Len(c) \in 0 .. Len(c)
    BY <1>1
  <2> QED
    BY <1>5, <2>1
<1>7. SubSeq(c, 1, Len(c)) = c
  BY SubSeqFull
<1> QED
  BY <1>1, <1>3, <1>6, <1>7 DEF gc

\* An element appended and stripped again.
LEMMA WithoutLast ==
  ASSUME NEW S, NEW g \in Seq(S), NEW x \in S, NEW P, Len(g) + 1 \in P
  PROVE  Without(Append(g, x), P) = Without(g, P)
<1> DEFINE h == Append(g, x)
<1>1. h \in Seq(S) /\ Len(h) = Len(g) + 1 /\ \A n \in 1 .. Len(g) : h[n] = g[n]
  BY AppendProperties
<1>2. Len(g) \in Nat
  OBVIOUS
<1> HIDE DEF h
<1>3. PICK f : Strips(f, h, P, Len(h)) /\ Without(h, P) = f[Len(h)]
  BY <1>1, WithoutStrips
<1>5. f[Len(g)] = Without(g, P)
  <2>1. Len(g) <= Len(h)
    BY <1>1, <1>2
  <2>2. \A n \in 1 .. Len(g) : h[n] = g[n] /\ (n \in P <=> n \in P)
    BY <1>1
  <2> QED
    BY <1>1, <1>3, <2>1, <2>2, WithoutPrefix
<1>6. Len(h) \in 0 .. Len(h) /\ Len(h) # 0 /\ Len(h) - 1 = Len(g)
  BY <1>1, <1>2
<1>7. f[Len(h)] = IF Len(h) \in P THEN f[Len(h) - 1]
                  ELSE Append(f[Len(h) - 1], h[Len(h)])
  BY <1>3, <1>6 DEF Strips
<1> QED
  BY <1>1, <1>3, <1>5, <1>6, <1>7 DEF h

-----------------------------------------------------------------------------
(***************************************************************************)
(* The inductive invariant, by its parts.                                  *)
(***************************************************************************)
\* What startTX, stopTX and the callback agree on until two of them meet: a
\* reader that starts the radio is alone in doing so and found it off.
FlagInv ==
  ~met /\ device # "refused" =>
    /\ \A r, s \in Sockets : Starting(r) /\ Starting(s) => r = s
    /\ \A s \in Sockets :
         /\ Starting(s) => cb # "stop" /\ ~is_transmitting
         /\ pc[s] = "start" => device = "off"
         /\ pc[s] = "flag" => device = "on"
    /\ cb # "waits" => device = "on"
    /\ cb = "stop" => ~is_transmitting
    /\ (\A s \in Sockets : ~Starting(s)) /\ cb # "stop"
         => (is_transmitting <=> device = "on")

Inside(s) == pc[s] # "idle"

AloneInType(s) == \A r \in Sockets \ {s} : streamType[r] # streamType[s]

\* From Convert on, the scratch space holds the message, and from Pointer on
\* the pointer leads there.
Written(s) ==
  /\ pc[s] \notin {"idle", "convert"} =>
       /\ Whole(s) <= Len(scratch[streamType[s]])
       /\ \A i \in 1 .. Whole(s) : scratch[streamType[s]][i] = <<s, from[s] + i>>
  /\ pc[s] \notin {"idle", "convert", "pointer"} => ptr[s] = alloc[streamType[s]]

\* A reader's own scratch space is written by no other reader.
WrittenInv ==
  /\ ~overlapped => \A r, s \in Sockets : Inside(r) /\ Inside(s) => r = s
  /\ \A s \in Sockets : ~overlapped \/ AloneInType(s) => Written(s)

\* The callback takes no more than there is, and readers keep count.
CountInv ==
  /\ cb = "fill" => avail <= Len(queue)
  /\ \A s \in Sockets :
       /\ done[s] <= Whole(s)
       /\ pc[s] # "push" => done[s] = 0

TxInv == TypeOK /\ FlagInv /\ WrittenInv /\ CountInv /\ InOrder

-----------------------------------------------------------------------------
(***************************************************************************)
(* Type correctness.                                                       *)
(***************************************************************************)
LEMMA TypeInit == Init => TypeOK
<1> SUFFICES ASSUME Init PROVE TypeOK
  OBVIOUS
<1>1. <<>> \in Seq(Bytes) /\ 0 \in 0 .. MaxLen /\ 0 \in 0 .. MaxMsgs
      /\ 0 \in 0 .. BufferLen
  BY TxAssumption
<1>2. /\ scratch \in [Types -> Seq(Bytes)]
      /\ queue \in Seq(Bytes) /\ radio \in Seq(Bytes) /\ given \in Seq(Bytes)
  BY <1>1 DEF Init
<1>3. /\ len \in [Sockets -> 0 .. MaxLen] /\ done \in [Sockets -> 0 .. MaxLen]
      /\ avail \in 0 .. BufferLen /\ msgs \in 0 .. MaxMsgs
  BY <1>1 DEF Init
<1>4. /\ from \in [Sockets -> Nat] /\ ptr \in [Sockets -> Nat]
      /\ alloc \in [Types -> Nat] /\ pc \in [Sockets -> ReaderPC]
  BY DEF Init, ReaderPC
<1> QED
  BY <1>2, <1>3, <1>4 DEF Init, TypeOK

\* Whole samples are even in number, and no more than there are.
LEMMA Halves ==
  ASSUME NEW n \in Nat
  PROVE  2 * (n \div 2) \in 0 .. n
OBVIOUS

LEMMA EvenHalves ==
  ASSUME NEW n \in Nat, n % 2 # 1
  PROVE  n = 2 * (n \div 2)
OBVIOUS

LEMMA OddHalves ==
  ASSUME NEW n \in Nat, n % 2 = 1
  PROVE  n = 2 * (n \div 2) + 1
OBVIOUS

LEMMA WholeFacts ==
  ASSUME TypeOK, NEW s \in Sockets
  PROVE  /\ len[s] \in Nat /\ len[s] \in 0 .. MaxLen
         /\ Whole(s) \in Nat /\ Whole(s) \in 0 .. MaxLen /\ Whole(s) <= len[s]
<1>1. len[s] \in Nat /\ len[s] \in 0 .. MaxLen
  BY TxAssumption DEF TypeOK
<1>2. Whole(s) \in 0 .. len[s]
  BY <1>1, Halves DEF Whole, WholeSamples
<1> QED
  BY <1>1, <1>2, TxAssumption

LEMMA ContentFacts ==
  ASSUME TypeOK, NEW s \in Sockets, NEW n \in Nat
  PROVE  /\ Content(s, n) \in Seq(Bytes)
         /\ Len(Content(s, n)) = n
         /\ \A i \in 1 .. n : Content(s, n)[i] = <<s, from[s] + i>>
<1>1. \A i \in 1 .. n : <<s, from[s] + i>> \in Bytes
  BY DEF TypeOK, Bytes
<1> QED
  BY <1>1 DEF Content

\* What Convert writes.
LEMMA ConvertedFacts ==
  ASSUME TypeOK, NEW s \in Sockets,
         NEW old, old = scratch[streamType[s]],
         NEW new, new = Content(s, Whole(s)) \o SubSeq(old, Whole(s) + 1, Len(old))
  PROVE  /\ new \in Seq(Bytes)
         /\ Whole(s) <= Len(new)
         /\ \A i \in 1 .. Whole(s) : new[i] = <<s, from[s] + i>>
<1>1. Whole(s) \in Nat /\ old \in Seq(Bytes) /\ Len(old) \in Nat
  BY SMTT(30), WholeFacts DEF TypeOK
<1>2. /\ Content(s, Whole(s)) \in Seq(Bytes)
      /\ Len(Content(s, Whole(s))) = Whole(s)
      /\ \A i \in 1 .. Whole(s) : Content(s, Whole(s))[i] = <<s, from[s] + i>>
  BY <1>1, ContentFacts
<1>3. \A i \in Whole(s) + 1 .. Len(old) : old[i] \in Bytes
  BY <1>1
<1>4. SubSeq(old, Whole(s) + 1, Len(old)) \in Seq(Bytes)
  BY <1>1, <1>3, SubSeqProperties
<1> QED
  BY <1>1, <1>2, <1>4, ConcatProperties

LEMMA TypeReader ==
  ASSUME TypeOK, NEW s \in Sockets, Take(s) \/ Continue(s)
  PROVE  TypeOK'
<1>1. CASE Take(s)
  <2>1. PICK n \in 0 .. MaxLen :
          /\ len' = [len EXCEPT ![s] = n]
          /\ given' = IF overlapped' THEN <<>> ELSE given \o Content(s, n)
          /\ odd' = IF overlapped' THEN {}
                    ELSE odd \cup {p \in {Len(given) + n} : n % 2 = 1}
    BY <1>1 DEF Take
  <2>2. n \in Nat
    BY TxAssumption
  <2>3. given \in Seq(Bytes) /\ Len(given) \in Nat
    BY DEF TypeOK
  <2>4. Content(s, n) \in Seq(Bytes) /\ Len(Content(s, n)) = n
    BY <2>2, ContentFacts
  <2>5. given' \in Seq(Bytes) /\ odd' \in SUBSET (1 .. Len(given'))
    <3>1. CASE overlapped'
      BY <2>1, <3>1
    <3>2. CASE ~overlapped'
      <4>1. given' \in Seq(Bytes) /\ Len(given') = Len(given) + n
        BY <2>1, <2>3, <2>4, <3>2, ConcatProperties
      <4>2. odd' = odd \cup {p \in {Len(given) + n} : n % 2 = 1}
        BY <2>1, <3>2
      <4>3. odd \in SUBSET (1 .. Len(given))
        BY DEF TypeOK
      <4>4. n % 2 = 1 => Len(given) + n \in 1 .. Len(given) + n
        <5>1. n % 2 = 1 => n # 0
          BY <2>2
        <5> QED
          BY <2>2, <2>3, <5>1
      <4>5. odd \in SUBSET (1 .. Len(given) + n)
        BY <2>2, <2>3, <4>3
      <4> QED
        BY <4>1, <4>2, <4>4, <4>5
    <3> QED
      BY <3>1, <3>2
  <2>6. radio' \in Seq(Bytes)
    BY <1>1 DEF Take, TypeOK
  <2>7. /\ len' \in [Sockets -> 0 .. MaxLen]
        /\ pc' \in [Sockets -> ReaderPC]
    BY <1>1, <2>1 DEF Take, TypeOK, Goto, ReaderPC
  <2>8. msgs' \in 0 .. MaxMsgs
    BY <1>1, TxAssumption DEF Take, TypeOK
  <2>9. overlapped' \in BOOLEAN
    BY <1>1 DEF Take
  <2> QED
    BY <1>1, <2>5, <2>6, <2>7, <2>8, <2>9 DEF Take, TypeOK
<1>2. CASE Convert(s)
  <2> DEFINE old == scratch[streamType[s]]
             new == Content(s, Whole(s)) \o SubSeq(old, Whole(s) + 1, Len(old))
  <2>1. new \in Seq(Bytes)
    BY ConvertedFacts
  <2>2. scratch' = [t \in Types |-> IF t \in Space(s) THEN new ELSE scratch[t]]
    BY <1>2 DEF Convert
  <2> HIDE DEF new
  <2>3. scratch' \in [Types -> Seq(Bytes)]
    BY <2>1, <2>2 DEF TypeOK
  <2>4. pc' \in [Sockets -> ReaderPC]
    BY <1>2 DEF Convert, TypeOK, Goto, ReaderPC
  <2>5. alloc' \in [Types -> Nat]
    BY <1>2 DEF Convert, TypeOK
  <2> QED
    BY <1>2, <2>3, <2>4, <2>5 DEF Convert, TypeOK
<1>3. CASE Pointer(s)
  BY <1>3 DEF Pointer, TypeOK, Goto, ReaderPC
<1>4. CASE Test(s)
  BY <1>4 DEF Test, TypeOK, Goto, ReaderPC
<1>5. CASE Start(s)
  BY <1>5 DEF Start, TypeOK, Goto, ReaderPC
<1>6. CASE SetFlag(s)
  BY <1>6 DEF SetFlag, TypeOK, Goto, ReaderPC
<1>7. CASE Push(s)
  <2>1. \A i \in Nat \ {0} : Pointed(s, i) \in Bytes
    BY DEF Pointed, TypeOK, Bytes
  <2>2. done[s] \in Nat /\ done[s] + 1 \in 0 .. MaxLen
    <3>1. done[s] \in 0 .. MaxLen /\ done[s] < Whole(s)
      BY <1>7 DEF Push, TypeOK
    <3>2. Whole(s) \in 0 .. MaxLen
      BY WholeFacts
    <3> QED
      BY <3>1, <3>2, TxAssumption
  <2>3. Pointed(s, done[s] + 1) \in Bytes
    BY <2>1, <2>2
  <2>4. Junk \in Bytes /\ queue \in Seq(Bytes)
    BY DEF Bytes, TypeOK
  <2>5. PICK b \in Bytes : queue' = Append(queue, b) \/ queue' = queue
    BY <1>7, <2>3, <2>4 DEF Push
  <2>6. queue' \in Seq(Bytes)
    BY <2>4, <2>5, AppendProperties
  <2>7. done' \in [Sockets -> 0 .. MaxLen]
    BY <1>7, <2>2 DEF Push, TypeOK
  <2> QED
    BY <1>7, <2>6, <2>7 DEF Push, TypeOK
<1>8. CASE Return(s)
  <2>1. from[s] + len[s] \in Nat /\ 0 \in 0 .. MaxLen
    BY TxAssumption DEF TypeOK
  <2> QED
    BY <1>8, <2>1 DEF Return, TypeOK, Goto, ReaderPC
<1> QED
  BY <1>1, <1>2, <1>3, <1>4, <1>5, <1>6, <1>7, <1>8 DEF Continue

\* What Fill takes off the queue and what it leaves.
LEMMA FillFacts ==
  ASSUME TypeOK, avail <= Len(queue)
  PROVE  /\ SubSeq(queue, 1, avail) \in Seq(Bytes)
         /\ Rest(queue, avail) \in Seq(Bytes)
         /\ SubSeq(queue, 1, avail) \o Rest(queue, avail) = queue
<1>1. /\ queue \in Seq(Bytes) /\ Len(queue) \in Nat
      /\ avail \in 0 .. Len(queue)
  BY TxAssumption DEF TypeOK
<1>2. \A i \in 1 .. Len(queue) : queue[i] \in Bytes
  BY <1>1
<1>3. SubSeq(queue, 1, avail) \in Seq(Bytes)
  <2>1. \A i \in 1 .. avail : queue[i] \in Bytes
    BY <1>1, <1>2
  <2> QED
    BY <1>1, <2>1, SubSeqProperties
<1>4. SubSeq(queue, avail + 1, Len(queue)) \in Seq(Bytes)
  BY <1>1, <1>2, SubSeqProperties
<1>5. SubSeq(queue, 1, avail) \o SubSeq(queue, avail + 1, Len(queue))
        = SubSeq(queue, 1, Len(queue))
  <2>1. /\ 1 \in 1 .. Len(queue) + 1 /\ avail \in 1 - 1 .. Len(queue)
        /\ Len(queue) \in avail .. Len(queue)
    BY <1>1
  <2> QED
    BY <1>1, <2>1, ConcatAdjacentSubSeq
<1> QED
  BY <1>1, <1>3, <1>4, <1>5, SubSeqFull DEF Rest

LEMMA TypeCallback ==
  ASSUME TypeOK, CountInv, Callback PROVE TypeOK'
<1>1. CASE LookSize
  <2>1. Len(queue) \in Nat /\ 2 * (Len(queue) \div 2) \in Nat /\ BufferLen \in Nat
    BY Halves, TxAssumption DEF TypeOK
  <2> QED
    BY <1>1, <2>1 DEF LookSize, TypeOK
<1>2. CASE Fill
  <2>1. avail <= Len(queue)
    BY <1>2 DEF Fill, CallAt, CountInv
  <2>2. queue' \in Seq(Bytes)
    BY <1>2, <2>1, FillFacts DEF Fill
  <2>3. radio' \in Seq(Bytes)
    BY <1>2, <2>1, FillFacts, ConcatProperties DEF Fill, TypeOK
  <2> QED
    BY <1>2, <2>2, <2>3, TxAssumption DEF Fill, TypeOK
<1>3. CASE ClearFlag
  BY <1>3 DEF ClearFlag, TypeOK
<1>4. CASE Stop
  BY <1>4 DEF Stop, TypeOK
<1> QED
  BY <1>1, <1>2, <1>3, <1>4 DEF Callback

LEMMA TypeStep ==
  ASSUME TypeOK, CountInv, [Next]_vars PROVE TypeOK'
<1>1. CASE UNCHANGED vars
  BY <1>1 DEF vars, TypeOK
<1>2. CASE Next
  BY <1>2, TypeReader, TypeCallback DEF Next
<1> QED
  BY <1>1, <1>2

-----------------------------------------------------------------------------
(***************************************************************************)
(* The counters.                                                           *)
(***************************************************************************)
LEMMA CountStep ==
  ASSUME TypeOK, CountInv, [Next]_vars PROVE CountInv'
<1>0. Len(queue) \in Nat
  BY DEF TypeOK
<1>1. ASSUME NEW s \in Sockets, Take(s) \/ Continue(s) PROVE CountInv'
  <2>1. Len(queue') >= Len(queue)
    <3>1. CASE Push(s)
      <4>1. PICK b \in Bytes : queue' = Append(queue, b) \/ queue' = queue
        <5>1. Junk \in Bytes /\ done[s] + 1 \in Nat \ {0}
          BY DEF Bytes, TypeOK
        <5>2. Pointed(s, done[s] + 1) \in Bytes
          BY <5>1 DEF Pointed, TypeOK, Bytes
        <5> QED
          BY <3>1, <5>1, <5>2 DEF Push
      <4>2. queue \in Seq(Bytes)
        BY DEF TypeOK
      <4> QED
        BY <1>0, <4>1, <4>2, AppendProperties
    <3>2. CASE ~Push(s)
      <4>1. queue' = queue
        BY <1>1, <3>2
        DEF Continue, Take, Convert, Pointer, Test, Start, SetFlag, Return
      <4> QED
        BY <1>0, <4>1
    <3> QED
      BY <3>1, <3>2
  <2>2. cb' = cb /\ avail' = avail
    BY <1>1
    DEF Continue, Take, Convert, Pointer, Test, Start, SetFlag, Push, Return
  <2>3. Len(queue') \in Nat
    BY <1>1, TypeReader DEF TypeOK
  <2>4. (cb = "fill" => avail <= Len(queue))'
    BY <1>0, <2>1, <2>2, <2>3, TxAssumption DEF CountInv, TypeOK
  <2>5. ASSUME NEW r \in Sockets
        PROVE  done'[r] <= Whole(r)' /\ (pc'[r] # "push" => done'[r] = 0)
    <3>1. /\ done[r] <= Whole(r) /\ (pc[r] # "push" => done[r] = 0)
          /\ done[r] \in Nat /\ Whole(r) \in Nat
      <4>1. Whole(r) \in Nat
        BY WholeFacts
      <4> QED
        BY <4>1, TxAssumption DEF CountInv, TypeOK
    <3>0. Whole(r)' \in Nat
      <4>1. TypeOK'
        BY <1>1, TypeReader
      <4>2. len'[r] \in Nat
        BY <4>1, TxAssumption DEF TypeOK
      <4> QED
        BY <4>2, Halves DEF Whole, WholeSamples
    <3>2. CASE r # s
      <4>1. done'[r] = done[r] /\ len'[r] = len[r] /\ pc'[r] = pc[r]
        BY <1>1, <3>2 DEF TypeOK, Goto, Continue, Take, Convert, Pointer, Test,
                          Start, SetFlag, Push, Return
      <4> QED
        BY <3>1, <4>1 DEF Whole
    <3>3. CASE r = s /\ Take(s)
      <4>1. done'[r] = 0
        BY <3>1, <3>3 DEF Take, At
      <4> QED
        BY <3>0, <4>1
    <3>4. CASE r = s /\ Push(s)
      <4>1. done'[r] = done[r] + 1 /\ done[r] < Whole(r) /\ pc'[r] = "push"
        BY <3>4 DEF Push, At, TypeOK
      <4>2. Whole(r)' = Whole(r)
        BY <3>4 DEF Push, Whole
      <4> QED
        BY <3>1, <4>1, <4>2
    <3>5. CASE r = s /\ Return(s)
      <4>1. done'[r] = 0
        BY <3>5 DEF Return, TypeOK
      <4> QED
        BY <3>0, <4>1
    <3>6. CASE r = s /\ ~Take(s) /\ ~Push(s) /\ ~Return(s)
      <4>1. done' = done /\ len' = len /\ pc[r] # "push"
        BY <1>1, <3>6
        DEF At, Continue, Convert, Pointer, Test, Start, SetFlag
      <4> QED
        BY <3>1, <4>1 DEF Whole
    <3> QED
      BY <3>2, <3>3, <3>4, <3>5, <3>6
  <2> QED
    BY <2>4, <2>5 DEF CountInv
<1>2. CASE LookSize
  <2>1. 2 * (Len(queue) \div 2) \in 0 .. Len(queue)
    BY <1>0, Halves
  <2>2. cb' = "fill" => avail' <= Len(queue)
    BY <1>2, <2>1, TxAssumption DEF LookSize
  <2> QED
    BY <1>2, <2>2 DEF LookSize, CountInv, Whole
<1>3. CASE Fill \/ ClearFlag \/ Stop
  BY <1>3 DEF Fill, ClearFlag, Stop, CountInv, Whole
<1>4. CASE UNCHANGED vars
  BY <1>4 DEF vars, CountInv, Whole
<1> QED
  BY <1>1, <1>2, <1>3, <1>4 DEF Next, Callback

-----------------------------------------------------------------------------
(***************************************************************************)
(* The switch of the radio.                                                *)
(***************************************************************************)
LEMMA FlagStep ==
  ASSUME TypeOK, FlagInv, [Next]_vars PROVE FlagInv'
<1> SUFFICES ASSUME ~met', device' # "refused" PROVE FlagInv'
  BY DEF FlagInv
<1>0. device # "refused"
  BY DEF Next, Continue, Callback, Take, Convert, Pointer, Test, Start, SetFlag,
         Push, Return, LookSize, Fill, ClearFlag, Stop, At, CallAt, vars
<1>1. ASSUME NEW s \in Sockets, Take(s) \/ Continue(s) PROVE FlagInv'
  <2>1. ~met
    BY <1>1
    DEF Continue, Take, Convert, Pointer, Test, Start, SetFlag, Push, Return
  <2>2. CASE Take(s) \/ Convert(s) \/ Pointer(s) \/ Push(s) \/ Return(s)
    <3>1. /\ \A r \in Sockets : Starting(r)' <=> Starting(r)
          /\ \A r \in Sockets : pc'[r] = "start" <=> pc[r] = "start"
          /\ \A r \in Sockets : pc'[r] = "flag" <=> pc[r] = "flag"
      BY <2>2
      DEF TypeOK, At, Goto, Starting, Take, Convert, Pointer, Push, Return
    <3>2. UNCHANGED <<device, cb, is_transmitting>>
      BY <2>2 DEF Take, Convert, Pointer, Push, Return
    <3> QED
      BY <1>0, <2>1, <3>1, <3>2 DEF FlagInv
  <2>3. CASE Test(s)
    <3>1. CASE is_transmitting
      <4>1. \A r \in Sockets : (Starting(r)' <=> Starting(r))
                               /\ (pc'[r] = "start" <=> pc[r] = "start")
                               /\ (pc'[r] = "flag" <=> pc[r] = "flag")
        BY <2>3, <3>1 DEF TypeOK, At, Goto, Starting, Test
      <4> QED
        BY <1>0, <2>1, <2>3, <4>1 DEF Test, FlagInv
    <3>2. CASE ~is_transmitting
      <4>1. cb # "stop" /\ \A r \in Sockets : ~Starting(r)
        BY <2>3, <3>2 DEF Test
      <4>2. device # "on"
        BY <1>0, <2>1, <3>2, <4>1 DEF FlagInv
      <4>3. pc' = [pc EXCEPT ![s] = "start"]
        BY <2>3, <3>2 DEF Test, Goto
      <4>4. \A r \in Sockets : /\ Starting(r)' <=> r = s
                               /\ pc'[r] = "start" <=> r = s
                               /\ pc'[r] # "flag"
        BY <4>1, <4>3 DEF TypeOK, Starting
      <4>5. device = "off" /\ UNCHANGED <<device, cb, is_transmitting>>
        BY <1>0, <2>3, <4>2 DEF Test, TypeOK
      <4>6. cb = "waits"
        BY <1>0, <2>1, <4>5 DEF FlagInv
      <4> QED
        BY <2>1, <3>2, <4>1, <4>4, <4>5, <4>6 DEF FlagInv
    <3> QED
      BY <3>1, <3>2
  <2>4. CASE Start(s)
    <3>1. Starting(s) /\ pc[s] = "start" /\ device = "off" /\ cb # "stop"
          /\ ~is_transmitting
      BY <1>0, <2>1, <2>4 DEF Start, At, Starting, FlagInv
    <3>2. device' = "on" /\ UNCHANGED <<cb, is_transmitting>>
      BY <2>4, <3>1 DEF Start
    <3>3. \A r \in Sockets : r # s => ~Starting(r)
      BY <1>0, <2>1, <3>1 DEF FlagInv
    <3>4. \A r \in Sockets : /\ Starting(r)' <=> r = s
                             /\ pc'[r] # "start"
                             /\ pc'[r] = "flag" <=> r = s
      BY <2>4, <3>3 DEF Start, Goto, Starting, TypeOK
    <3> QED
      BY <3>1, <3>2, <3>4 DEF FlagInv
  <2>5. CASE SetFlag(s)
    <3>1. Starting(s) /\ pc[s] = "flag" /\ device = "on" /\ cb # "stop"
      BY <1>0, <2>1, <2>5 DEF SetFlag, At, Starting, FlagInv
    <3>2. \A r \in Sockets : r # s => ~Starting(r)
      BY <1>0, <2>1, <3>1 DEF FlagInv
    <3>3. \A r \in Sockets : /\ ~Starting(r)'
                             /\ pc'[r] # "start" /\ pc'[r] # "flag"
      BY <2>5, <3>2 DEF SetFlag, Goto, Starting, TypeOK
    <3>4. is_transmitting' /\ UNCHANGED <<cb, device>>
      BY <2>5 DEF SetFlag
    <3> QED
      BY <3>1, <3>3, <3>4 DEF FlagInv
  <2> QED
    BY <1>1, <2>2, <2>3, <2>4, <2>5 DEF Continue
<1>2. ASSUME LookSize \/ Fill PROVE FlagInv'
  <2>1. /\ UNCHANGED <<pc, is_transmitting, device, met>> /\ cb # "stop"
        /\ cb' # "stop" /\ (device = "on" \/ cb' = "waits")
    BY <1>2 DEF LookSize, Fill, CallAt
  <2> QED
    BY <1>0, <2>1 DEF FlagInv, Starting
<1>3. CASE ClearFlag
  <2>1. /\ UNCHANGED <<pc, device>> /\ ~is_transmitting' /\ cb' = "stop"
        /\ cb = "clear" /\ \A r \in Sockets : ~Starting(r)
    BY <1>3 DEF ClearFlag, CallAt
  <2>2. ~met
    BY <1>3 DEF ClearFlag
  <2> QED
    BY <1>0, <2>1, <2>2 DEF FlagInv, Starting
<1>4. CASE Stop
  <2>1. /\ UNCHANGED <<pc, is_transmitting, met>> /\ cb = "stop"
        /\ cb' = "waits" /\ device' = "off"
    BY <1>4 DEF Stop, CallAt
  <2>2. /\ ~is_transmitting
        /\ \A r \in Sockets : ~Starting(r)
    BY <1>0, <2>1 DEF FlagInv
  <2>3. \A r \in Sockets : ~Starting(r)' /\ pc'[r] # "flag"
    BY <2>1, <2>2 DEF Starting
  <2> QED
    BY <2>1, <2>2, <2>3 DEF FlagInv
<1>5. CASE UNCHANGED vars
  BY <1>5 DEF vars, FlagInv, Starting
<1> QED
  BY <1>1, <1>2, <1>3, <1>4, <1>5 DEF Next, Callback

-----------------------------------------------------------------------------
(***************************************************************************)
(* The scratch spaces.                                                     *)
(***************************************************************************)
\* A reader's step leaves the other sockets alone.
LEMMA OthersKept ==
  ASSUME TypeOK, NEW s \in Sockets, Take(s) \/ Continue(s),
         NEW r \in Sockets, r # s
  PROVE  UNCHANGED <<pc[r], from[r], len[r], done[r], ptr[r], streamType[r]>>
BY DEF TypeOK, Goto, Continue, Take, Convert, Pointer, Test, Start, SetFlag,
       Push, Return

\* Of a reader's steps only Convert writes to the scratch spaces.
LEMMA ScratchKept ==
  ASSUME TypeOK, NEW s \in Sockets, Take(s) \/ Continue(s),
         NEW t \in Types, ~Convert(s) \/ t # streamType[s]
  PROVE  UNCHANGED <<scratch[t], alloc[t]>>
<1>1. CASE Convert(s)
  BY <1>1 DEF Convert, Space, TypeOK
<1>2. CASE ~Convert(s)
  <2>1. UNCHANGED <<scratch, alloc>>
    BY <1>2 DEF Continue, Take, Pointer, Test, Start, SetFlag, Push, Return
  <2> QED
    BY <2>1
<1> QED
  BY <1>1, <1>2

\* A reader inside keeps its message until it returns, and only Take lets a
\* reader in.
LEMMA InsideKept ==
  ASSUME TypeOK, NEW s \in Sockets, Continue(s), ~Return(s)
  PROVE  /\ Inside(s) /\ Inside(s)'
         /\ UNCHANGED <<from, len>>
BY DEF TypeOK, Inside, At, Goto, Continue, Convert, Pointer, Test, Start,
       SetFlag, Push

LEMMA WrittenBySelf ==
  ASSUME TypeOK, NEW s \in Sockets, Take(s) \/ Continue(s), Written(s)
  PROVE  Written(s)'
<1> DEFINE t == streamType[s]
<1>0. t \in Types /\ streamType' = streamType
  BY DEF TypeOK, Continue, Take, Convert, Pointer, Test, Start, SetFlag, Push,
         Return
<1>1. CASE Take(s) \/ Return(s)
  <2>1. pc'[s] \in {"idle", "convert"}
    BY <1>1 DEF Take, Return, Goto, TypeOK
  <2> QED
    BY <2>1 DEF Written, Whole
<1>2. CASE Convert(s)
  <2> DEFINE old == scratch[streamType[s]]
             new == Content(s, Whole(s)) \o SubSeq(old, Whole(s) + 1, Len(old))
  <2>1. /\ Whole(s) <= Len(new)
        /\ \A i \in 1 .. Whole(s) : new[i] = <<s, from[s] + i>>
    BY ConvertedFacts
  <2>2. scratch' = [u \in Types |-> IF u \in Space(s) THEN new ELSE scratch[u]]
    BY <1>2 DEF Convert
  <2> HIDE DEF new
  <2>3. scratch'[t] = new
    BY <1>0, <2>2 DEF Space
  <2>4. pc'[s] = "pointer" /\ UNCHANGED <<from, len>>
    BY <1>2 DEF Convert, Goto, TypeOK
  <2> QED
    BY <1>0, <2>1, <2>3, <2>4 DEF Written, Whole
<1>3. CASE Pointer(s)
  <2>1. /\ pc[s] = "pointer" /\ pc'[s] = "test"
        /\ UNCHANGED <<from, len, scratch, alloc>> /\ ptr'[s] = alloc[t]
    BY <1>3 DEF Pointer, At, Goto, TypeOK
  <2> QED
    BY <1>0, <2>1 DEF Written, Whole
<1>4. CASE Test(s) \/ Start(s) \/ SetFlag(s) \/ Push(s)
  <2>1. /\ pc[s] \notin {"idle", "convert", "pointer"}
        /\ UNCHANGED <<from, len, scratch, alloc, ptr>>
    BY <1>4 DEF Test, Start, SetFlag, Push, At
  <2> QED
    BY <1>0, <2>1 DEF Written, Whole
<1> QED
  BY <1>1, <1>2, <1>3, <1>4 DEF Continue

LEMMA WrittenByOther ==
  ASSUME TypeOK, NEW s \in Sockets, Take(s) \/ Continue(s),
         NEW r \in Sockets, r # s, Written(r),
         ~Inside(r) \/ streamType[r] # streamType[s]
  PROVE  Written(r)'
<1>1. UNCHANGED <<pc[r], from[r], len[r], ptr[r], streamType[r]>>
  BY OthersKept
<1>2. CASE ~Inside(r)
  BY <1>1, <1>2 DEF Inside, Written, Whole
<1>3. CASE streamType[r] # streamType[s]
  <2>1. PICK t \in Types : t = streamType[r]
    BY DEF TypeOK
  <2>2. UNCHANGED <<scratch[t], alloc[t]>>
    BY <1>3, <2>1, ScratchKept
  <2>3. streamType'[r] = t
    BY <1>1, <2>1
  <2> QED
    BY <1>1, <2>1, <2>2, <2>3 DEF Written, Whole
<1> QED
  BY <1>2, <1>3

LEMMA WrittenStep ==
  ASSUME TypeOK, WrittenInv, [Next]_vars PROVE WrittenInv'
<1>1. ASSUME NEW s \in Sockets, Take(s) \/ Continue(s) PROVE WrittenInv'
  <2>0. streamType' = streamType
    BY <1>1 DEF Continue, Take, Convert, Pointer, Test, Start, SetFlag, Push,
                Return
  <2>1. ~overlapped' => ~overlapped /\ (Take(s) => \A r \in Sockets : ~Inside(r))
    <3>1. CASE Take(s)
      BY <3>1 DEF Take, Inside
    <3>2. CASE ~Take(s)
      <4>1. overlapped' = overlapped
        BY <1>1, <3>2 DEF Continue, Convert, Pointer, Test, Start, SetFlag,
                          Push, Return
      <4> QED
        BY <3>2, <4>1
    <3> QED
      BY <1>1, <3>1, <3>2
  <2>2. \A r \in Sockets : r # s => (Inside(r)' <=> Inside(r))
    BY <1>1, OthersKept DEF Inside
  <2>3. ASSUME ~overlapped'
        PROVE  \A q, r \in Sockets : Inside(q)' /\ Inside(r)' => q = r
    <3>1. CASE Take(s)
      <4>1. \A r \in Sockets : ~Inside(r)
        BY <2>1, <2>3, <3>1
      <4> QED
        BY <2>2, <4>1
    <3>2. CASE Continue(s)
      <4>1. Inside(s)
        BY <3>2 DEF Inside, At, Continue, Convert, Pointer, Test, Start,
                    SetFlag, Push, Return
      <4>2. ~overlapped
        BY <2>1, <2>3
      <4> QED
        BY <2>2, <4>1, <4>2 DEF WrittenInv
    <3> QED
      BY <1>1, <3>1, <3>2
  <2>4. ASSUME NEW r \in Sockets, ~overlapped' \/ AloneInType(r)'
        PROVE  Written(r)'
    <3>1. ~overlapped \/ AloneInType(r)
      BY <2>0, <2>1, <2>4 DEF AloneInType
    <3>2. Written(r)
      BY <3>1 DEF WrittenInv
    <3>3. CASE r = s
      BY <1>1, <3>2, <3>3, WrittenBySelf
    <3>4. CASE r # s /\ AloneInType(r)'
      <4>1. streamType[r] # streamType[s]
        BY <2>0, <3>4 DEF AloneInType
      <4> QED
        BY <1>1, <3>2, <3>4, <4>1, WrittenByOther
    <3>5. CASE r # s /\ ~overlapped'
      <4>1. ~Inside(r)
        <5>1. CASE Take(s)
          BY <2>1, <3>5, <5>1
        <5>2. CASE Continue(s)
          <6>1. Inside(s)
            BY <5>2 DEF Inside, At, Continue, Convert, Pointer, Test, Start,
                        SetFlag, Push, Return
          <6> QED
            BY <2>1, <3>5, <6>1 DEF WrittenInv
        <5> QED
          BY <1>1, <5>1, <5>2
      <4> QED
        BY <1>1, <3>2, <3>5, <4>1, WrittenByOther
    <3> QED
      BY <2>4, <3>3, <3>4, <3>5
  <2> QED
    BY <2>3, <2>4 DEF WrittenInv
<1>2. ASSUME Callback \/ UNCHANGED vars PROVE WrittenInv'
  <2>1. UNCHANGED <<pc, readerVars, streamType>>
    BY <1>2 DEF vars, Callback, LookSize, Fill, ClearFlag, Stop
  <2> QED
    BY <2>1 DEF WrittenInv, Written, Whole, Inside, AloneInType
<1> QED
  BY <1>1, <1>2 DEF Next

\* What the reader that is to push finds where its pointer leads.
LEMMA OwnByte ==
  ASSUME TypeOK, NEW s \in Sockets, Written(s), pc[s] = "push",
         NEW i \in 1 .. Whole(s)
  PROVE  Pointed(s, i) = <<s, from[s] + i>>
<1>0. Whole(s) \in Nat
  BY WholeFacts
<1>1. Whole(s) \in Nat /\ Len(scratch[streamType[s]]) \in Nat
  BY <1>0 DEF TypeOK
<1> QED
  BY <1>1 DEF Written, Pointed

LEMMA OwnBytesFollows == TypeOK /\ WrittenInv => OwnBytes
<1> SUFFICES ASSUME TypeOK, WrittenInv,
                    NEW s \in Sockets, pc[s] = "push",
                    \A r \in Sockets \ {s} : streamType[r] # streamType[s],
                    NEW i \in (done[s] + 1) .. Whole(s)
             PROVE  Pointed(s, i) = <<s, from[s] + i>>
  BY DEF OwnBytes
<1>1. Written(s)
  BY DEF WrittenInv, AloneInType
<1>0. Whole(s) \in Nat
  BY WholeFacts
<1>2. done[s] \in Nat /\ Whole(s) \in Nat
  BY <1>0, TxAssumption DEF TypeOK
<1>3. i \in 1 .. Whole(s)
  BY <1>2
<1> QED
  BY <1>1, <1>3, OwnByte

-----------------------------------------------------------------------------
(***************************************************************************)
(* The order of the samples.                                               *)
(***************************************************************************)
\* What reader s, once inside, has still to push.
Left(s) == SubSeq(Content(s, Whole(s)), done[s] + 1, Whole(s))

LEMMA PendingNone ==
  ASSUME \A s \in Sockets : ~Inside(s) PROVE Pending = <<>>
BY DEF Pending, Inside

LEMMA PendingNoneNext ==
  ASSUME \A s \in Sockets : ~Inside(s)' PROVE Pending' = <<>>
BY DEF Pending, Inside

LEMMA PendingOne ==
  ASSUME NEW s \in Sockets, Inside(s),
         \A r \in Sockets : Inside(r) => r = s
  PROVE  Pending = Left(s)
<1>1. {r \in Sockets : pc[r] # "idle"} = {s}
  BY DEF Inside
<1> QED
  BY <1>1 DEF Pending, Left

LEMMA PendingOneNext ==
  ASSUME NEW s \in Sockets, Inside(s)',
         \A r \in Sockets : Inside(r)' => r = s
  PROVE  Pending' = Left(s)'
<1>1. {r \in Sockets : pc'[r] # "idle"} = {s}
  BY DEF Inside
<1> QED
  BY <1>1 DEF Pending, Left

\* What a read adds to what is to be transmitted: its whole samples.
LEMMA ReadAdds ==
  ASSUME TypeOK, NEW s \in Sockets, NEW n \in Nat, Without(given, odd) \in Seq(Bytes)
  PROVE  Without(given \o Content(s, n),
                 odd \cup {p \in {Len(given) + n} : n % 2 = 1})
           = Without(given, odd) \o Content(s, WholeSamples(n))
<1> DEFINE g == given
           o == odd
           m == WholeSamples(n)
           c == Content(s, m)
           new == o \cup {p \in {Len(g) + n} : n % 2 = 1}
<1>1. m \in Nat /\ n = IF n % 2 = 1 THEN m + 1 ELSE m
  BY Halves, EvenHalves, OddHalves DEF WholeSamples
<1>2. c \in Seq(Bytes) /\ Len(c) = m
  BY <1>1, ContentFacts
<1>3. g \in Seq(Bytes) /\ Len(g) \in Nat /\ o \in SUBSET (1 .. Len(g))
  BY DEF TypeOK
<1>4. Without(g \o c, new) = Without(g, o) \o c
  <2>1. \A i \in 1 .. Len(g) : i \in o <=> i \in new
    BY <1>1, <1>3
  <2>2. \A i \in 1 .. Len(c) : Len(g) + i \notin new
    BY <1>1, <1>2, <1>3
  <2>3. Beyond(o, new, Len(g), Len(c))
    <3> HIDE DEF new, c
    <3> QED
      BY <1>3, <2>1, <2>2 DEF Beyond
  <2>4. Without(g, o) \in Seq(Bytes) /\ c \in Seq(Bytes) /\ g \in Seq(Bytes)
    BY <1>2, <1>3
  <2> HIDE DEF g, o, c, new
  <2> QED
    BY <2>3, <2>4, WithoutConcat
<1>5. CASE n % 2 # 1
  <2>1. new = o /\ n = m
    BY <1>1, <1>5
  <2> QED
    BY <1>4, <2>1
<1>6. CASE n % 2 = 1
  <2> DEFINE x == <<s, from[s] + n>>
  <2>1. Content(s, n) = Append(c, x)
    <3>1. n = m + 1
      BY <1>1, <1>6
    <3>2. \A i \in 1 .. m : Content(s, n)[i] = c[i]
      <4> HIDE DEF m
      <4> QED
        BY <1>1, <3>1 DEF Content
    <3>3. Content(s, n) \in Seq(Bytes) /\ Len(Content(s, n)) = m + 1
          /\ Content(s, n)[m + 1] = x
      <4>1. /\ Content(s, n) \in Seq(Bytes) /\ Len(Content(s, n)) = n
            /\ Content(s, n)[n] = <<s, from[s] + n>>
        <5>1. n \in 1 .. n
          BY <1>1, <3>1
        <5> QED
          BY <5>1, ContentFacts
      <4> HIDE DEF m
      <4> QED
        BY <3>1, <4>1
    <3>4. x \in Bytes
      BY SMTT(30), <1>1, <3>1 DEF TypeOK, Bytes
    <3>5. /\ Append(c, x) \in Seq(Bytes) /\ Len(Append(c, x)) = m + 1
          /\ \A i \in 1 .. m : Append(c, x)[i] = c[i]
          /\ Append(c, x)[m + 1] = x
      <4> HIDE DEF c, x, m
      <4> QED
        BY <1>2, <3>4, AppendProperties
    <3>6. \A i \in 1 .. m + 1 : Content(s, n)[i] = Append(c, x)[i]
      <4> HIDE DEF c, x, m
      <4>1. \A i \in 1 .. m + 1 : i \in 1 .. m \/ i = m + 1
        BY <1>1
      <4> QED
        BY <3>2, <3>3, <3>5, <4>1
    <3> HIDE DEF c, x, m
    <3> QED
      BY <3>3, <3>5, <3>6, SeqEqual
  <2>2. x \in Bytes
    BY DEF TypeOK, Bytes
  <2> HIDE DEF x, c
  <2>3. g \o c \in Seq(Bytes) /\ Len(g \o c) = Len(g) + m
    BY <1>2, <1>3, ConcatProperties
  <2>4. g \o Append(c, x) = Append(g \o c, x)
    <3>1. <<x>> \in Seq(Bytes)
      BY <2>2
    <3>2. Append(c, x) = c \o <<x>> /\ Append(g \o c, x) = (g \o c) \o <<x>>
      BY <1>2, <2>2, <2>3, AppendIsConcat
    <3>3. (g \o c) \o <<x>> = g \o (c \o <<x>>)
      <4> HIDE DEF g
      <4> QED
        BY SMTT(30), <1>2, <1>3, <3>1, ConcatAssociative
    <3> QED
      BY <3>2, <3>3
  <2>5. Len(g \o c) + 1 \in new
    <3>0. n = m + 1
      BY <1>1, <1>6
    <3>1. Len(g \o c) + 1 = Len(g) + n
      <4> HIDE DEF m
      <4> QED
        BY <1>1, <1>3, <2>3, <3>0
    <3> QED
      BY <1>6, <3>1
  <2>6. Without(Append(g \o c, x), new) = Without(g \o c, new)
    <3> HIDE DEF new, g
    <3> QED
      BY <2>2, <2>3, <2>5, WithoutLast
  <2> QED
    BY <1>4, <2>1, <2>4, <2>6 DEF c
<1> QED
  BY <1>1, <1>5, <1>6

LEMMA OrderTake ==
  ASSUME TypeOK, WrittenInv, CountInv, InOrder, NEW s \in Sockets, Take(s),
         ~overlapped'
  PROVE  (radio \o queue \o Pending = Without(given, odd))'
<1>1. ~overlapped /\ \A r \in Sockets : ~Inside(r)
  BY DEF Take, Inside
<1>2. PICK n \in 0 .. MaxLen :
        /\ len' = [len EXCEPT ![s] = n]
        /\ given' = given \o Content(s, n)
        /\ odd' = odd \cup {p \in {Len(given) + n} : n % 2 = 1}
  BY DEF Take
<1> DEFINE m == WholeSamples(n)
<1>3. n \in Nat /\ m \in Nat
  BY Halves, TxAssumption DEF WholeSamples
<1>4. /\ Whole(s)' = m /\ done'[s] = 0 /\ from' = from
      /\ UNCHANGED <<queue, radio>> /\ pc' = [pc EXCEPT ![s] = "convert"]
  <2>1. len'[s] = n
    BY <1>2 DEF TypeOK
  <2> QED
    BY <1>1, <2>1 DEF Take, At, Goto, TypeOK, CountInv, Whole, Inside
<1>5. Inside(s)' /\ \A r \in Sockets : Inside(r)' => r = s
  BY <1>1, <1>4 DEF Inside, TypeOK
<1> HIDE DEF m
<1>6. Pending' = SubSeq(Content(s, m), 1, m)
  <2>1. Pending' = Left(s)'
    BY <1>5, PendingOneNext
  <2>2. Left(s)' = SubSeq(Content(s, m), 0 + 1, m)
    BY <1>4 DEF Left, Content
  <2> QED
    BY <2>1, <2>2
<1>7. Content(s, m) \in Seq(Bytes) /\ Len(Content(s, m)) = m
  BY <1>3, ContentFacts
<1>8. Pending' = Content(s, m)
  BY <1>6, <1>7, SubSeqFull
<1>9. radio \o queue = Without(given, odd) /\ radio \o queue \in Seq(Bytes)
  <2>1. radio \o queue \o <<>> = Without(given, odd)
    BY <1>1, PendingNone DEF InOrder
  <2>2. radio \o queue \in Seq(Bytes)
    BY ConcatProperties DEF TypeOK
  <2> QED
    BY <2>1, <2>2, ConcatEmptySeq
<1>10. Without(given', odd') = Without(given, odd) \o Content(s, m)
  BY <1>2, <1>3, <1>9, ReadAdds DEF m
<1> QED
  BY <1>4, <1>8, <1>9, <1>10

LEMMA OrderPush ==
  ASSUME TypeOK, WrittenInv, CountInv, InOrder, NEW s \in Sockets, Push(s),
         ~overlapped
  PROVE  (radio \o queue \o Pending = Without(given, odd))'
<1>1. /\ pc[s] = "push" /\ done[s] < Whole(s)
      /\ UNCHANGED <<pc, len, from, radio, given, odd>> /\ done'[s] = done[s] + 1
  BY DEF Push, At, TypeOK
<1>2. Inside(s) /\ \A r \in Sockets : Inside(r) => r = s
  BY <1>1 DEF Inside, WrittenInv
<1>3. done[s] \in Nat /\ Whole(s) \in Nat /\ done[s] + 1 \in 1 .. Whole(s)
  BY SMTT(30), <1>1, WholeFacts, TxAssumption DEF TypeOK
<1> DEFINE C == Content(s, Whole(s))
           x == <<s, from[s] + (done[s] + 1)>>
<1>4. C \in Seq(Bytes) /\ Len(C) = Whole(s) /\ C[done[s] + 1] = x
  BY <1>3, ContentFacts
<1>5. queue' = Append(queue, x)
  <2>1. \A r \in Sockets \ {s} : pc[r] # "push"
    BY <1>2 DEF Inside
  <2>2. queue' = Append(queue, Pointed(s, done[s] + 1))
    BY <2>1 DEF Push
  <2>3. Written(s)
    BY DEF WrittenInv
  <2>4. \A i \in 1 .. Whole(s) : Pointed(s, i) = <<s, from[s] + i>>
    BY <1>1, <2>3, OwnByte
  <2> QED
    BY <1>3, <2>2, <2>4
<1>6. Left(s) = <<x>> \o Left(s)'
  <2>1. Left(s)' = SubSeq(C, done[s] + 1 + 1, Whole(s))
    BY <1>1 DEF Left, Content, Whole
  <2>2. Whole(s) \in done[s] + 1 .. Len(C) /\ done[s] + 1 \in 1 .. Len(C)
    BY <1>3, <1>4
  <2>3. SubSeq(C, done[s] + 1, Whole(s))
          = <<C[done[s] + 1]>> \o SubSeq(C, done[s] + 1 + 1, Whole(s))
    <3> HIDE DEF C
    <3> QED
      BY <1>4, <2>2, SubSeqRecursiveFirst
  <2> QED
    BY <1>4, <2>1, <2>3 DEF Left
<1>7. Pending = Left(s) /\ Pending' = Left(s)'
  <2>1. Inside(s)' /\ \A r \in Sockets : Inside(r)' => r = s
    BY <1>1, <1>2 DEF Inside
  <2> QED
    BY <1>2, <2>1, PendingOne, PendingOneNext
<1>8. Pending' \in Seq(Bytes)
  <2>1. Left(s)' \in Seq(Bytes)
    <3>1. \A i \in done[s] + 1 + 1 .. Whole(s) : C[i] \in Bytes
      BY <1>3, <1>4
    <3>2. Left(s)' = SubSeq(C, done[s] + 1 + 1, Whole(s))
      BY <1>1 DEF Left, Content, Whole
    <3>3. done[s] + 1 + 1 \in Int /\ Whole(s) \in Int
      BY <1>3
    <3> HIDE DEF C
    <3> QED
      BY <3>1, <3>2, <3>3, SubSeqProperties
  <2> QED
    BY <1>7, <2>1
<1>9. queue' = queue \o <<x>> /\ <<x>> \in Seq(Bytes) /\ queue \in Seq(Bytes)
      /\ radio \in Seq(Bytes)
  <2>1. x \in Bytes /\ queue \in Seq(Bytes) /\ radio \in Seq(Bytes)
    BY SMTT(30), <1>3 DEF TypeOK, Bytes
  <2> HIDE DEF x
  <2>2. <<x>> \in Seq(Bytes)
    BY <2>1
  <2> QED
    BY <1>5, <2>1, <2>2, AppendIsConcat
<1>10. Without(given, odd) = radio \o queue \o (<<x>> \o Pending')
  BY <1>6, <1>7 DEF InOrder
<1> HIDE DEF x
<1>11. (radio \o queue) \o (<<x>> \o Pending')
         = ((radio \o queue) \o <<x>>) \o Pending'
  <2>1. radio \o queue \in Seq(Bytes)
    BY <1>9, ConcatProperties
  <2> QED
    BY SMTT(30), <1>8, <1>9, <2>1, ConcatAssociative
<1>12. (radio \o queue) \o <<x>> = radio \o queue'
  BY <1>9, ConcatAssociative
<1> QED
  BY <1>1, <1>10, <1>11, <1>12

LEMMA OrderFill ==
  ASSUME TypeOK, CountInv, InOrder, Fill, ~overlapped
  PROVE  (radio \o queue \o Pending = Without(given, odd))'
<1>1. avail <= Len(queue)
  BY DEF Fill, CallAt, CountInv
<1>2. PICK q \in Seq(Bytes), rest \in Seq(Bytes) :
        /\ q = SubSeq(queue, 1, avail) /\ rest = Rest(queue, avail)
        /\ q \o rest = queue
  BY <1>1, FillFacts
<1>3. /\ radio' = radio \o q /\ queue' = rest
      /\ UNCHANGED <<pc, from, len, done, given, odd>>
  BY <1>2 DEF Fill
<1>4. Pending' = Pending
  BY <1>3 DEF Pending, Content, Whole
<1>5. (radio \o q) \o rest = radio \o queue
  <2>1. radio \in Seq(Bytes)
    BY DEF TypeOK
  <2>2. (radio \o q) \o rest = radio \o (q \o rest)
    BY <2>1, ConcatAssociative
  <2> QED
    BY <1>2, <2>2
<1> QED
  BY <1>3, <1>4, <1>5 DEF InOrder

\* The steps that move no byte.
LEMMA OrderQuiet ==
  ASSUME TypeOK, InOrder, WrittenInv, NEW s \in Sockets,
         Continue(s), ~Push(s), ~overlapped
  PROVE  (radio \o queue \o Pending = Without(given, odd))'
<1>1. Inside(s) /\ \A r \in Sockets : Inside(r) => r = s
  BY DEF Inside, At, WrittenInv, Continue, Convert, Pointer, Test, Start,
         SetFlag, Return
<1>2. Pending = Left(s)
  BY <1>1, PendingOne
<1>3. UNCHANGED <<radio, queue, given, odd>>
  BY DEF Continue, Convert, Pointer, Test, Start, SetFlag, Return
<1>4. \A r \in Sockets : r # s => ~Inside(r)'
  BY <1>1, OthersKept DEF Inside
<1>5. Pending' = Pending
  <2>1. CASE Return(s)
    <3>1. \A r \in Sockets : ~Inside(r)'
      BY <1>4, <2>1 DEF Return, Goto, TypeOK, Inside
    <3>2. done[s] = Whole(s) /\ Whole(s) \in Nat
      BY <2>1, WholeFacts DEF Return
    <3>3. Left(s) = <<>>
      BY <3>2, SubSeqEmpty DEF Left
    <3> QED
      BY <1>2, <3>1, <3>3, PendingNoneNext
  <2>2. CASE ~Return(s)
    <3>1. Inside(s)' /\ UNCHANGED <<from, len>>
      BY <2>2, InsideKept
    <3>2. done' = done
      BY <2>2 DEF Continue, Convert, Pointer, Test, Start, SetFlag
    <3>3. Pending' = Left(s)'
      BY <1>4, <3>1, PendingOneNext
    <3>4. Left(s)' = Left(s)
      BY <3>1, <3>2 DEF Left, Content, Whole
    <3> QED
      BY <1>2, <3>3, <3>4
  <2> QED
    BY <2>1, <2>2
<1> QED
  BY <1>3, <1>5 DEF InOrder

LEMMA OrderStep ==
  ASSUME TypeOK, WrittenInv, CountInv, InOrder, [Next]_vars PROVE InOrder'
<1> SUFFICES ASSUME ~overlapped' PROVE (radio \o queue \o Pending = Without(given, odd))'
  BY DEF InOrder
<1>1. ASSUME NEW s \in Sockets, Take(s)
      PROVE  (radio \o queue \o Pending = Without(given, odd))'
  BY <1>1, OrderTake
<1>2. ASSUME NEW s \in Sockets, Continue(s)
      PROVE  (radio \o queue \o Pending = Without(given, odd))'
  <2>1. ~overlapped
    BY <1>2 DEF Continue, Convert, Pointer, Test, Start, SetFlag, Push, Return
  <2> QED
    BY <1>2, <2>1, OrderPush, OrderQuiet
<1>3. CASE Fill
  <2>1. ~overlapped
    BY <1>3 DEF Fill
  <2> QED
    BY <1>3, <2>1, OrderFill
<1>4. CASE LookSize \/ ClearFlag \/ Stop \/ UNCHANGED vars
  <2>1. UNCHANGED <<pc, from, len, done, given, odd, radio, queue, overlapped>>
    BY <1>4 DEF LookSize, ClearFlag, Stop, vars
  <2>2. Pending' = Pending
    BY <2>1 DEF Pending, Content, Whole
  <2> QED
    BY <2>1, <2>2 DEF InOrder
<1> QED
  BY <1>1, <1>2, <1>3, <1>4 DEF Next, Callback

-----------------------------------------------------------------------------
(***************************************************************************)
(* The theorems.                                                           *)
(***************************************************************************)
LEMMA InitInv == Init => TxInv
<1> SUFFICES ASSUME Init PROVE TxInv
  OBVIOUS
<1>1. TypeOK
  BY TypeInit
<1>2. FlagInv
  BY DEF Init, FlagInv, Starting
<1>3. WrittenInv
  BY DEF Init, WrittenInv, Written, Inside
<1>4. CountInv
  <2>1. WholeSamples(0) = 0
    BY DEF WholeSamples
  <2> QED
    BY <2>1 DEF Init, CountInv, Whole
<1>5. InOrder
  <2>1. Pending = <<>>
    BY PendingNone DEF Init, Inside
  <2> QED
    BY <2>1, ConcatEmptySeq, WithoutEmpty DEF Init, InOrder
<1> QED
  BY <1>1, <1>2, <1>3, <1>4, <1>5 DEF TxInv

LEMMA StepInv == TxInv /\ [Next]_vars => TxInv'
BY TypeStep, FlagStep, WrittenStep, CountStep, OrderStep DEF TxInv

THEOREM Invariant == Spec => []TxInv
BY InitInv, StepInv, PTL DEF Spec

\* Every variable stays within its type: a read leaves no more bytes than it
\* had, and the callback pops no more than the queue holds (txData).
THEOREM TypeCorrect == Spec => []TypeOK
<1>1. TxInv => TypeOK
  BY DEF TxInv
<1> QED
  BY <1>1, Invariant, PTL

\* As long as readers do not overlap, every byte read is transmitted or waits in
\* the queue, once and in order, but for the last byte of a read that ends in the
\* middle of a sample; for any number of sockets, types and reads
\* (dataFromLowerLevel, convertWorker, txIQData, txData).
THEOREM TransmitsInOrder == Spec => []InOrder
<1>1. TxInv => InOrder
  BY DEF TxInv
<1> QED
  BY <1>1, Invariant, PTL

\* A reader whose type no other socket has pushes its own bytes, whoever it
\* overlaps with (scratchspace_map of convertWorker).
THEOREM PushesOwnBytes == Spec => []OwnBytes
<1>1. TxInv => OwnBytes
  BY OwnBytesFollows DEF TxInv
<1> QED
  BY <1>1, Invariant, PTL

\* Until a startTX meets a stopTX or another startTX, is_transmitting says
\* whether the radio is on, and a radio that is on is not started again
\* (startTX, stopTX).
THEOREM FlagTellsRadio == Spec => []FlagAgrees
<1>1. TxInv => FlagAgrees
  BY DEF TxInv, FlagInv, FlagAgrees
<1> QED
  BY <1>1, Invariant, PTL
=============================================================================
