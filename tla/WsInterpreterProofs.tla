------------------------- MODULE WsInterpreterProofs -------------------------
(***************************************************************************)
(* Theorems about WsInterpreter, for every set of sizes of short frames,   *)
(* number of frames and length of the reader's buffer.                     *)
(***************************************************************************)
EXTENDS WsInterpreter, SequenceTheorems, WellFoundedInduction, TLAPS

-----------------------------------------------------------------------------
(***************************************************************************)
(* What is true of the lengths in web socket headers, for every length.    *)
(***************************************************************************)
LEMMA LengthsAreNat ==
  ASSUME NEW n \in Lengths
  PROVE  n \in Nat /\ n < 4294967296
<1>1. n \in Nat /\ n <= MaxLength
  BY SMT DEF Lengths
<1> QED
  BY SMT, <1>1 DEF MaxLength

\* The four bytes of a length that is written most significant byte first.
LEMMA FourBytes ==
  ASSUME NEW n \in Nat, n < 4294967296
  PROVE  ((n \div 16777216) % 256) * 16777216 + ((n \div 65536) % 256) * 65536
           + High(n) * 256 + Low(n) = n
<1>1. n = (n \div 256) * 256 + Low(n)
  BY SMT DEF Low
<1>2. n \div 256 = (n \div 65536) * 256 + High(n)
  BY SMT DEF High
<1>3. n \div 65536 = (n \div 16777216) * 256 + ((n \div 65536) % 256)
  BY SMT
<1>4. (n \div 16777216) % 256 = n \div 16777216
  BY SMT
<1> QED
  BY SMT, <1>1, <1>2, <1>3, <1>4 DEF High, Low

LEMMA TwoBytes ==
  ASSUME NEW n \in Nat, n < 65536
  PROVE  High(n) * 256 + Low(n) = n
BY SMT DEF High, Low

\* The bytes of a header, for each of its three forms.
LEMMA UpstreamForms ==
  ASSUME NEW n \in Nat
  PROVE  /\ n <= 125 => Upstream(n) = <<129, n>>
         /\ n > 125 /\ n < 65535 => Upstream(n) = <<129, 126, High(n), Low(n)>>
         /\ n > 65535 =>
              Upstream(n) = <<129, 127, 0, 0, 0, 0, (n \div 16777216) % 256,
                              (n \div 65536) % 256, High(n), Low(n)>>
<1>1. n <= 125 => Low(n) = n
  BY SMT DEF Low
<1> QED
  BY SMT, <1>1 DEF Upstream, ml_16, ml_64

LEMMA BrowserForms ==
  ASSUME NEW n \in Nat
  PROVE  /\ n < 126 => BrowserWrites(n) = <<130, 128 + n>>
         /\ n > 125 /\ n < 65536 =>
              BrowserWrites(n) = <<130, 254, High(n), Low(n)>>
         /\ n > 65535 =>
              BrowserWrites(n) = <<130, 255, 0, 0, 0, 0,
                                   (n \div 16777216) % 256,
                                   (n \div 65536) % 256, High(n), Low(n)>>
BY SMT DEF BrowserWrites

\* Every length but 65535 reaches the browser (parseUpstreamMessage).
THEOREM UpstreamLengths == \A n \in Lengths \ {65535} : LengthKept(n)
<1> TAKE n \in Lengths \ {65535}
<1> n \in Lengths /\ n # 65535
  BY SMT
<1> DEFINE h == Upstream(n)
<1> n \in Nat /\ n < 4294967296
  BY LengthsAreNat
<1>1. CASE n <= 125
  <2>1. h = <<129, n>>
    BY SMT, <1>1, UpstreamForms
  <2> HIDE DEF h
  <2>2. BrowserReads(h) = n
    BY SMT, <2>1, <1>1 DEF BrowserReads
  <2>3. message_length(n) = Len(h) + n
    BY SMT, <2>1, <1>1 DEF message_length, ml_16, ml_64
  <2> QED
    BY <2>2, <2>3 DEF LengthKept, h
<1>2. CASE n > 125 /\ n < 65535
  <2>1. h = <<129, 126, High(n), Low(n)>>
    BY SMT, <1>2, UpstreamForms
  <2>2. High(n) * 256 + Low(n) = n
    BY SMT, <1>2, TwoBytes
  <2> HIDE DEF h
  <2>3. BrowserReads(h) = n
    BY SMT, <2>1, <2>2 DEF BrowserReads
  <2>4. message_length(n) = Len(h) + n
    BY SMT, <2>1, <1>2 DEF message_length, ml_16, ml_64
  <2> QED
    BY <2>3, <2>4 DEF LengthKept, h
<1>3. CASE n > 65535
  <2>1. h = <<129, 127, 0, 0, 0, 0, (n \div 16777216) % 256,
              (n \div 65536) % 256, High(n), Low(n)>>
    BY SMT, <1>3, UpstreamForms
  <2> HIDE DEF h
  <2>2. BrowserReads(h) = n
    BY SMT, <2>1, FourBytes DEF BrowserReads
  <2>3. message_length(n) = Len(h) + n
    BY SMT, <2>1, <1>3 DEF message_length, ml_16, ml_64
  <2> QED
    BY <2>2, <2>3 DEF LengthKept, h
<1> QED
  BY SMT, <1>1, <1>2, <1>3

\* The server reads every length as the browser means it, and finds the payload
\* behind the mask (parseDownstreamMessage).
THEOREM DownstreamLengths == \A n \in Lengths : LengthRead(n)
<1> SUFFICES ASSUME NEW n \in Lengths
             PROVE  LengthRead(n)
  OBVIOUS
<1> DEFINE h == BrowserWrites(n)
<1> n \in Nat /\ n < 4294967296
  BY LengthsAreNat
<1>1. CASE n < 126
  <2>1. h = <<130, 128 + n>>
    BY SMT, <1>1, BrowserForms
  <2>2. (128 + n) % 128 = n
    BY SMT, <1>1
  <2> HIDE DEF h
  <2>3. payload_len(h) = n /\ message_start_idx(h) = Len(h) + 4
    BY SMT, <2>1, <2>2, <1>1 DEF payload_len, message_start_idx
  <2> QED
    BY <2>3 DEF LengthRead, h
<1>2. CASE n > 125 /\ n < 65536
  <2>1. h = <<130, 254, High(n), Low(n)>>
    BY SMT, <1>2, BrowserForms
  <2>2. High(n) * 256 + Low(n) = n
    BY SMT, <1>2, TwoBytes
  <2> HIDE DEF h
  <2>3. payload_len(h) = n /\ message_start_idx(h) = Len(h) + 4
    BY SMT, <2>1, <2>2 DEF payload_len, message_start_idx
  <2> QED
    BY <2>3 DEF LengthRead, h
<1>3. CASE n > 65535
  <2>1. h = <<130, 255, 0, 0, 0, 0, (n \div 16777216) % 256,
              (n \div 65536) % 256, High(n), Low(n)>>
    BY SMT, <1>3, BrowserForms
  <2> HIDE DEF h
  <2>2. payload_len(h) = n /\ message_start_idx(h) = Len(h) + 4
    BY SMT, <2>1, FourBytes DEF payload_len, message_start_idx
  <2> QED
    BY <2>2 DEF LengthRead, h
<1> QED
  BY SMT, <1>1, <1>2, <1>3

-----------------------------------------------------------------------------
\* What the tuples of unchanged variables stand for.
USE DEF clientVars, parserVars

-----------------------------------------------------------------------------
(***************************************************************************)
(* The inductive invariant, by its parts.                                  *)
(***************************************************************************)
Bytes == [f : Int, i : Nat, b : Nat, masked : BOOLEAN]
Messages == [ptr : Nat, n : Nat, down : BOOLEAN]

\* What has been sent and is not parsed yet: in the parser, then under way.
Unparsed == len + Len(wire)
Stock(p) == IF p < len THEN mem[p] ELSE wire[p - len + 1]

\* Frames that have left the parser.
Taken == Len(up) + Len(out)

TypeInv ==
  /\ waits \in BOOLEAN /\ asksUpgrade \in BOOLEAN
  /\ sizes \in Seq(Sizes) /\ Len(sizes) <= MaxFrames
  /\ wire \in Seq(Bytes)
  /\ mem \in [0 .. Capacity -> Bytes]
  /\ len \in Nat
  /\ established \in BOOLEAN
  /\ pc \in {"read", "parse", "deliver"}
  /\ out \in Seq(Messages)
  /\ replied \in BOOLEAN
  /\ up \in Seq(Seq(Bytes))

\* The memory behind the parser is large enough.
RoomInv == Unparsed <= HandshakeLen + Len(sizes) * Longest

\* Until it has its reply, the browser has sent its handshake and no more: it
\* is under way or in the parser, refused, or answered.
HandshakeInv ==
  ~replied =>
    /\ sizes = <<>> /\ up = <<>>
    /\ \/ /\ ~established /\ out = <<>> /\ Unparsed = HandshakeLen
          /\ \A p \in 0 .. 1 : Stock(p) = Handshake[p + 1]
       \/ ~established /\ out = <<>> /\ Unparsed = 0 /\ ~asksUpgrade
       \/ /\ established /\ Unparsed = 0 /\ pc # "read"
          /\ out = <<[ptr |-> 0, n |-> 0, down |-> TRUE]>>

\* The messages between the parser and the level above are the next frames.
OutInv ==
  replied =>
    /\ established
    /\ Taken <= Len(sizes)
    /\ \A i \in 1 .. Len(out) :
         out[i] = [ptr |-> 6, n |-> sizes[Len(up) + i], down |-> FALSE]
    /\ pc = "read" => out = <<>>

\* What is not parsed is the rest of the frames, one after the other; at says
\* where each of them begins.
Begins == (Taken + 1) .. (Len(sizes) + 1)
Layout(at) ==
  /\ at[Taken + 1] = 0
  /\ at[Len(sizes) + 1] = Unparsed
  /\ \A j, k \in Begins : j <= k => at[j] <= at[k]
  /\ \A j \in (Taken + 1) .. Len(sizes) :
       /\ at[j + 1] = at[j] + 6 + sizes[j]
       /\ \A i \in 1 .. (6 + sizes[j]) :
            Stock(at[j] + i - 1) = FrameBytes(j, sizes[j])[i]

FrameInv == replied => \E at \in [Begins -> Nat] : Layout(at)

SizesInv == \A j \in 1 .. Len(up) : Len(up[j]) = sizes[j]

\* A browser that waits has one frame under way at most, and while the message
\* is not delivered the memory it points to is left alone.
WaitInv ==
  waits =>
    /\ Len(sizes) <= Len(up) + 1
    /\ replied /\ out # <<>> => At(Head(out)) = Sent(Len(up) + 1)

WsInv == /\ TypeInv /\ RoomInv /\ HandshakeInv /\ OutInv /\ FrameInv
         /\ SizesInv /\ WaitInv /\ Intact

-----------------------------------------------------------------------------
(***************************************************************************)
(* Sizes, sequences and frames.                                            *)
(***************************************************************************)
LEMMA MaxFacts == Max(Sizes) \in Sizes /\ \A n \in Sizes : n <= Max(Sizes)
<1> DEFINE S == {125 - n : n \in Sizes}
<1> DEFINE R == OpToRel(<, Nat)
<1>1. IsWellFoundedOn(R, Nat)
  BY NatLessThanWellFounded
<1>2. S \in SUBSET Nat /\ S # {}
  BY ParserAssumption
<1>3. PICK i \in S : \A j \in S : ~(<<j, i>> \in R)
  <2> HIDE DEF R, S
  <2> QED BY <1>1, <1>2, WFMin
<1>4. PICK n \in Sizes : i = 125 - n
  BY <1>3
<1>5. ASSUME NEW m \in Sizes PROVE n >= m
  <2>1. 125 - m \in S
    OBVIOUS
  <2>2. <<125 - m, i>> \notin R
    BY <1>3, <2>1
  <2>3. m \in 0 .. 125 /\ n \in 0 .. 125
    BY ParserAssumption
  <2>4. ~(125 - m < i)
    BY <1>4, <2>2, <2>3 DEF OpToRel
  <2> QED
    BY <1>4, <2>3, <2>4
<1>6. /\ Max(Sizes) \in Sizes
      /\ \A m \in Sizes : Max(Sizes) >= m
  BY <1>5 DEF Max
<1>7. \A m \in Sizes : m \in 0 .. 125
  BY ParserAssumption
<1> QED
  BY <1>6, <1>7

LEMMA LongestFacts ==
  /\ Longest \in 6 .. 131
  /\ \A n \in Sizes : n \in 0 .. 125 /\ 6 + n <= Longest
<1>1. Max(Sizes) \in 0 .. 125
  BY MaxFacts, ParserAssumption
<1> QED
  BY <1>1, MaxFacts, ParserAssumption DEF Longest

LEMMA Products ==
  ASSUME NEW a \in Nat, NEW b \in Nat, NEW c \in Nat, a <= b
  PROVE  /\ a * c \in Nat /\ b * c \in Nat
         /\ a * c <= b * c
         /\ (a + 1) * c = a * c + c
<1>1. a * c \in Nat /\ b * c \in Nat
  BY SMT
<1>2. (a + 1) * c = a * c + c
  BY SMT
<1>3. PICK d \in Nat : b = a + d
  <2>1. b - a \in Nat /\ b = a + (b - a)
    OBVIOUS
  <2> QED
    BY <2>1
<1>4. b * c = a * c + d * c
  BY SMT, <1>3
<1>5. d * c \in Nat
  BY SMT
<1> QED
  BY <1>1, <1>2, <1>4, <1>5

LEMMA RoomFacts ==
  ASSUME TypeInv, RoomInv
  PROVE  Capacity \in Nat /\ Capacity >= 3 /\ Unparsed < Capacity
<1>1. MaxFrames \in Nat /\ Longest \in Nat
  BY LongestFacts, ParserAssumption
<1>2. Len(sizes) \in Nat /\ Len(sizes) <= MaxFrames
  BY DEF TypeInv
<1>3. /\ Len(sizes) * Longest \in Nat /\ MaxFrames * Longest \in Nat
      /\ Len(sizes) * Longest <= MaxFrames * Longest
  BY <1>1, <1>2, Products
<1>4. Unparsed \in Nat
  BY DEF TypeInv, Unparsed
<1> DEFINE a == Len(sizes) * Longest
           b == MaxFrames * Longest
<1>5. /\ a \in Nat /\ b \in Nat /\ a <= b
      /\ Unparsed <= 2 + a /\ Capacity = 2 + b + 1
  BY <1>3 DEF RoomInv, Capacity, HandshakeLen
<1> HIDE DEF a, b
<1> QED
  BY <1>4, <1>5

LEMMA FrameFacts ==
  ASSUME NEW f \in Nat, NEW n \in 0 .. 125
  PROVE  /\ FrameBytes(f, n) \in Seq(Bytes)
         /\ Len(FrameBytes(f, n)) = 6 + n
         /\ FrameBytes(f, n)[2].b = 128 + n
         /\ \A i \in 1 .. n :
              FrameBytes(f, n)[6 + i] = Byte(f, 6 + i, 0, TRUE)
<1>1. BrowserWrites(n) = <<130, 128 + n>>
  BY BrowserForms
<1> DEFINE B(i) == Byte(f, i, IF i <= 2 THEN BrowserWrites(n)[i] ELSE 0, i > 6)
<1>2. ASSUME NEW i \in 1 .. (6 + n)
      PROVE  B(i) \in Bytes
  <2>1. (IF i <= 2 THEN BrowserWrites(n)[i] ELSE 0) \in Nat
    <3>1. i = 1 \/ i = 2 \/ i > 2
      OBVIOUS
    <3> QED
      BY <1>1, <3>1
  <2> QED
    BY <2>1 DEF Byte, Bytes
<1>3. /\ FrameBytes(f, n) = [i \in 1 .. (6 + n) |-> B(i)]
  BY DEF FrameBytes
<1>4. 6 + n \in Nat
  OBVIOUS
<1>5. /\ FrameBytes(f, n) \in Seq(Bytes) /\ Len(FrameBytes(f, n)) = 6 + n
      /\ \A i \in 1 .. (6 + n) : FrameBytes(f, n)[i] = B(i)
  <2> HIDE DEF B
  <2> QED BY <1>2, <1>3, <1>4
<1>6. B(2).b = 128 + n
  BY <1>1 DEF Byte
<1>7. ASSUME NEW i \in 1 .. n
      PROVE  B(6 + i) = Byte(f, 6 + i, 0, TRUE)
  <2>1. ~(6 + i <= 2) /\ (6 + i > 6) = TRUE
    OBVIOUS
  <2> QED
    BY <2>1
<1>8. 2 \in 1 .. (6 + n) /\ \A i \in 1 .. n : 6 + i \in 1 .. (6 + n)
  OBVIOUS
<1> HIDE DEF B
<1> QED
  BY <1>5, <1>6, <1>7, <1>8

LEMMA HandshakeFacts ==
  /\ Handshake \in Seq(Bytes) /\ Len(Handshake) = 2
  /\ Handshake[1].i = 1 /\ Handshake[1].f = 0
  /\ Handshake[2].i = 2 /\ Handshake[2].f = 0
<1>1. \A i \in 1 .. 2 : Byte(0, i, 0, FALSE) \in Bytes
  BY DEF Byte, Bytes
<1>2. Handshake = [i \in 1 .. 2 |-> Byte(0, i, 0, FALSE)]
  BY DEF Handshake, HandshakeLen
<1> QED
  BY <1>1, <1>2 DEF Byte

LEMMA NULType == NUL \in Bytes
BY DEF NUL, Byte, Bytes

\* What a read leaves under way.
LEMMA RestFacts ==
  ASSUME NEW s \in Seq(Bytes), NEW n \in 1 .. Len(s)
  PROVE  /\ SubSeq(s, n + 1, Len(s)) \in Seq(Bytes)
         /\ Len(SubSeq(s, n + 1, Len(s))) = Len(s) - n
         /\ \A i \in 1 .. (Len(s) - n) : SubSeq(s, n + 1, Len(s))[i] = s[n + i]
<1>1. Len(s) \in Nat /\ n \in Nat
  OBVIOUS
<1>2. \A i \in (n + 1) .. Len(s) : s[i] \in Bytes
  BY <1>1, ElementOfSeq
<1> DEFINE t == SubSeq(s, n + 1, Len(s))
<1>3. /\ t \in Seq(Bytes)
      /\ Len(t) = IF n + 1 <= Len(s) THEN Len(s) - (n + 1) + 1 ELSE 0
      /\ \A i \in 1 .. (Len(s) - (n + 1) + 1) : t[i] = s[(n + 1) + i - 1]
  BY <1>1, <1>2, SubSeqProperties
<1>4. /\ Len(t) = Len(s) - n
  BY <1>1, <1>3
<1>5. ASSUME NEW i \in 1 .. (Len(s) - n) PROVE t[i] = s[n + i]
  <2>1. i \in 1 .. (Len(s) - (n + 1) + 1) /\ (n + 1) + i - 1 = n + i
    BY <1>1
  <2> QED
    BY <1>3, <2>1
<1> QED
  BY <1>3, <1>4, <1>5

-----------------------------------------------------------------------------
(***************************************************************************)
(* What the steps do to what is not parsed yet.                            *)
(***************************************************************************)
\* A read moves bytes from the wire to the parser.
LEMMA ReadFacts ==
  ASSUME TypeInv, RoomInv, Read
  PROVE  /\ mem' \in [0 .. Capacity -> Bytes]
         /\ wire' \in Seq(Bytes)
         /\ len' \in Nat
         /\ Unparsed' = Unparsed
         /\ Unparsed > 0
         /\ \A p \in 0 .. (Unparsed - 1) : Stock(p)' = Stock(p)
<1>1. PICK n \in 1 .. MaxRead :
        /\ n <= Len(wire)
        /\ wire' = SubSeq(wire, n + 1, Len(wire))
        /\ mem' = [p \in DOMAIN mem |->
                    IF p \in len .. (len + n - 1) THEN wire[p - len + 1]
                    ELSE IF p = len + n THEN NUL ELSE mem[p]]
        /\ len' = len + n
  BY DEF Read
<1>2. /\ wire \in Seq(Bytes) /\ len \in Nat /\ mem \in [0 .. Capacity -> Bytes]
      /\ Capacity \in Nat /\ len + Len(wire) < Capacity
      /\ Len(wire) \in Nat /\ MaxRead \in Nat
  BY RoomFacts, ParserAssumption DEF TypeInv, Unparsed
<1>3. n \in 1 .. Len(wire)
  BY <1>1, <1>2
<1>4. /\ wire' \in Seq(Bytes) /\ Len(wire') = Len(wire) - n
      /\ \A i \in 1 .. (Len(wire) - n) : wire'[i] = wire[n + i]
  BY <1>1, <1>2, <1>3, RestFacts
<1>5. ASSUME NEW p \in 0 .. Capacity
      PROVE  (IF p \in len .. (len + n - 1) THEN wire[p - len + 1]
              ELSE IF p = len + n THEN NUL ELSE mem[p]) \in Bytes
  <2>1. CASE p \in len .. (len + n - 1)
    <3>1. p - len + 1 \in 1 .. Len(wire)
      BY <1>2, <1>3, <2>1
    <3> QED
      BY <1>2, <2>1, <3>1, ElementOfSeq
  <2>2. CASE p \notin len .. (len + n - 1)
    BY <1>2, <2>2, NULType
  <2> QED
    BY <2>1, <2>2
<1>6. mem' \in [0 .. Capacity -> Bytes]
  <2>1. DOMAIN mem = 0 .. Capacity
    BY <1>2
  <2> QED
    BY <1>1, <1>5, <2>1
<1>7. len' \in Nat /\ Unparsed' = Unparsed /\ Unparsed > 0
  <2>1. n \in Nat /\ n > 0 /\ n <= Len(wire) /\ len' = len + n
    BY <1>1, <1>2, <1>3
  <2>2. Unparsed' = len' + Len(wire')
    BY DEF Unparsed
  <2> QED
    BY <1>2, <1>4, <2>1, <2>2 DEF Unparsed
<1>8. ASSUME NEW p \in 0 .. (Unparsed - 1)
      PROVE  Stock(p)' = Stock(p)
  <2>0. p \in DOMAIN mem /\ p < len + Len(wire) /\ p \in Nat
    BY <1>2 DEF Unparsed
  <2>1. CASE p < len
    BY <1>1, <1>2, <1>3, <2>0, <2>1 DEF Stock
  <2>2. CASE p >= len /\ p < len + n
    BY <1>1, <1>2, <1>3, <2>0, <2>2 DEF Stock
  <2>3. CASE p >= len + n
    <3>1. p - len' + 1 \in 1 .. (Len(wire) - n)
      BY <1>1, <1>2, <1>3, <2>0, <2>3
    <3>2. wire'[p - len' + 1] = wire[n + (p - len' + 1)]
      BY <1>4, <3>1
    <3>3. n + (p - len' + 1) = p - len + 1
      BY <1>1, <1>2, <1>3, <2>0
    <3>4. ~(p < len') /\ ~(p < len)
      BY <1>1, <1>2, <1>3, <2>0, <2>3
    <3> QED
      BY <3>2, <3>3, <3>4 DEF Stock
  <2> QED
    BY <1>2, <1>3, <2>0, <2>1, <2>2, <2>3
<1> QED
  BY <1>4, <1>6, <1>7, <1>8

\* A frame that is sent joins the end of it.
LEMMA SendFacts ==
  ASSUME TypeInv, BrowserSend
  PROVE  \E n \in Sizes :
           /\ sizes' = Append(sizes, n)
           /\ wire' \in Seq(Bytes)
           /\ Unparsed' = Unparsed + 6 + n
           /\ \A p \in 0 .. (Unparsed - 1) : Stock(p)' = Stock(p)
           /\ \A i \in 1 .. (6 + n) : \A p \in Nat :
                p = Unparsed + i - 1
                  => Stock(p)' = FrameBytes(Len(sizes) + 1, n)[i]
<1>1. PICK n \in Sizes :
        /\ sizes' = Append(sizes, n)
        /\ wire' = wire \o FrameBytes(Len(sizes) + 1, n)
  BY DEF BrowserSend
<1>2. /\ wire \in Seq(Bytes) /\ len \in Nat /\ Len(wire) \in Nat
      /\ Len(sizes) + 1 \in Nat /\ n \in 0 .. 125
  BY ParserAssumption DEF TypeInv
<1> DEFINE F == FrameBytes(Len(sizes) + 1, n)
<1>3. F \in Seq(Bytes) /\ Len(F) = 6 + n
  BY <1>2, FrameFacts
<1> HIDE DEF F
<1>4. /\ wire' \in Seq(Bytes) /\ Len(wire') = Len(wire) + 6 + n
      /\ \A i \in 1 .. (Len(wire) + 6 + n) :
           wire'[i] = IF i <= Len(wire) THEN wire[i] ELSE F[i - Len(wire)]
  <2>1. wire' = wire \o F
    BY <1>1 DEF F
  <2> QED
    BY <1>2, <1>3, <2>1, ConcatProperties
<1>5. len' = len /\ mem' = mem
  BY DEF BrowserSend
<1>6. Unparsed' = Unparsed + 6 + n
  BY <1>2, <1>4, <1>5 DEF Unparsed
<1>7. ASSUME NEW p \in 0 .. (Unparsed - 1)
      PROVE  Stock(p)' = Stock(p)
  <2>1. CASE p < len
    BY <1>5, <2>1 DEF Stock
  <2>2. CASE ~(p < len)
    <3>1. p - len + 1 \in 1 .. (Len(wire) + 6 + n) /\ p - len + 1 <= Len(wire)
      BY <1>2, <2>2 DEF Unparsed
    <3> QED
      BY <1>4, <1>5, <2>2, <3>1 DEF Stock
  <2> QED
    BY <2>1, <2>2
<1>8. ASSUME NEW i \in 1 .. (6 + n), NEW p \in Nat, p = Unparsed + i - 1
      PROVE  Stock(p)' = F[i]
  <2>1. /\ p - len + 1 \in 1 .. (Len(wire) + 6 + n)
        /\ ~(p - len + 1 <= Len(wire))
        /\ (p - len + 1) - Len(wire) = i
        /\ ~(p < len)
    BY <1>2, <1>8 DEF Unparsed
  <2>2. wire'[p - len + 1] = F[i]
    BY <1>4, <2>1
  <2> QED
    BY <1>5, <2>1, <2>2 DEF Stock
<1> QED
  BY <1>1, <1>4, <1>6, <1>7, <1>8 DEF F

\* What is erased leaves the front of it, and m becomes the memory.
LEMMA EraseFacts ==
  ASSUME TypeInv, RoomInv,
         NEW k \in Nat, k <= len, NEW m \in [0 .. Capacity -> Bytes],
         \A p \in k .. (len - 1) : m[p] = mem[p],
         mem' = Erased(m, k), len' = len - k, wire' = wire
  PROVE  /\ mem' \in [0 .. Capacity -> Bytes]
         /\ len' \in Nat
         /\ Unparsed' = Unparsed - k
         /\ \A p \in 0 .. (Unparsed - k - 1) : Stock(p)' = Stock(p + k)
         /\ \A p \in 0 .. Capacity : p > len - k => mem'[p] = m[p]
<1>1. /\ wire \in Seq(Bytes) /\ len \in Nat /\ mem \in [0 .. Capacity -> Bytes]
      /\ Capacity \in Nat /\ len + Len(wire) < Capacity /\ Len(wire) \in Nat
  BY RoomFacts DEF TypeInv, Unparsed
<1>2. mem' = [p \in 0 .. Capacity |->
               IF p < len - k THEN m[p + k]
               ELSE IF p = len - k THEN NUL ELSE m[p]]
  <2>1. DOMAIN m = 0 .. Capacity
    OBVIOUS
  <2> QED
    BY <2>1 DEF Erased
<1>3. ASSUME NEW p \in 0 .. Capacity
      PROVE  (IF p < len - k THEN m[p + k]
              ELSE IF p = len - k THEN NUL ELSE m[p]) \in Bytes
  <2>1. p < len - k => p + k \in 0 .. Capacity
    BY <1>1
  <2> QED
    BY <2>1, NULType
<1>4. mem' \in [0 .. Capacity -> Bytes]
  BY <1>2, <1>3
<1>5. len' \in Nat /\ Unparsed' = Unparsed - k
  BY <1>1 DEF Unparsed
<1>6. ASSUME NEW p \in 0 .. (Unparsed - k - 1)
      PROVE  Stock(p)' = Stock(p + k)
  <2>0. p \in Nat /\ p + k < len + Len(wire)
    BY <1>1 DEF Unparsed
  <2>1. CASE p < len - k
    <3>1. p \in 0 .. Capacity /\ p + k \in k .. (len - 1)
      BY <1>1, <2>0, <2>1
    <3>2. mem'[p] = m[p + k]
      BY <1>2, <2>1, <3>1
    <3>3. m[p + k] = mem[p + k]
      BY <3>1
    <3>4. p < len' /\ p + k < len
      BY <1>1, <2>0, <2>1
    <3> QED
      BY <3>2, <3>3, <3>4 DEF Stock
  <2>2. CASE ~(p < len - k)
    <3>1. /\ ~(p < len') /\ ~(p + k < len)
          /\ p - len' + 1 = (p + k) - len + 1
      BY <1>1, <2>0, <2>2
    <3> QED
      BY <3>1 DEF Stock
  <2> QED
    BY <2>1, <2>2
<1>7. ASSUME NEW p \in 0 .. Capacity, p > len - k
      PROVE  mem'[p] = m[p]
  <2>1. ~(p < len - k) /\ ~(p = len - k)
    BY <1>1, <1>7
  <2> QED
    BY <1>2, <2>1
<1> QED
  BY <1>4, <1>5, <1>6, <1>7

\* A frame that is complete is the next one, of the size it says.
LEMMA HeadFacts ==
  ASSUME TypeInv, RoomInv, HandshakeInv, OutInv, FrameInv,
         established, Complete
  PROVE  /\ replied
         /\ Taken + 1 \in 1 .. Len(sizes)
         /\ payload_len(Header) = sizes[Taken + 1]
         /\ sizes[Taken + 1] \in 0 .. 125
         /\ Start = 6
         /\ 6 + sizes[Taken + 1] <= len
         /\ \A i \in 1 .. sizes[Taken + 1] :
              mem[5 + i] = Byte(Taken + 1, 6 + i, 0, TRUE)
<1>1. len > 2 /\ len >= Start + payload_len(Header)
  BY DEF Complete, MoreThanHeader
<1>2. /\ wire \in Seq(Bytes) /\ len \in Nat /\ mem \in [0 .. Capacity -> Bytes]
      /\ Capacity \in Nat /\ len + Len(wire) < Capacity /\ Len(wire) \in Nat
      /\ sizes \in Seq(Sizes) /\ Len(sizes) \in Nat /\ Taken \in Nat
  BY RoomFacts DEF TypeInv, Unparsed, Taken
<1>3. replied
  BY <1>1, <1>2 DEF HandshakeInv, Unparsed
<1>4. PICK at \in [Begins -> Nat] : Layout(at)
  BY <1>3 DEF FrameInv
<1>5. Taken < Len(sizes)
  <2>1. Taken <= Len(sizes)
    BY <1>3 DEF OutInv
  <2>2. Taken # Len(sizes)
    BY <1>1, <1>2, <1>4 DEF Layout, Unparsed
  <2> QED
    BY <1>2, <2>1, <2>2
<1> DEFINE j == Taken + 1
           n == sizes[j]
<1>6. j \in 1 .. Len(sizes) /\ j \in Nat
  BY <1>2, <1>5
<1>7. n \in 0 .. 125
  BY <1>2, <1>6, ElementOfSeq, ParserAssumption
<1>8. at[j] = 0 /\ \A i \in 1 .. (6 + n) : Stock(at[j] + i - 1) = FrameBytes(j, n)[i]
  BY <1>4, <1>6 DEF Layout
<1> HIDE DEF n, j
<1>9. \A i \in 1 .. (6 + n) : i - 1 < len => mem[i - 1] = FrameBytes(j, n)[i]
  <2> SUFFICES ASSUME NEW i \in 1 .. (6 + n), i - 1 < len
               PROVE  mem[i - 1] = FrameBytes(j, n)[i]
    OBVIOUS
  <2>1. at[j] + i - 1 = i - 1
    BY <1>7, <1>8
  <2>2. Stock(i - 1) = FrameBytes(j, n)[i]
    BY <1>8, <2>1
  <2> QED
    BY <2>2 DEF Stock
<1>10. mem[1].b = 128 + n
  <2>1. 2 \in 1 .. (6 + n) /\ 2 - 1 = 1 /\ 1 < len
    BY <1>1, <1>2, <1>7
  <2>2. mem[1] = FrameBytes(j, n)[2]
    BY <1>9, <2>1
  <2>3. FrameBytes(j, n)[2].b = 128 + n
    BY <1>6, <1>7, FrameFacts
  <2> QED
    BY <2>2, <2>3
<1>11. Header[2] % 128 = n
  <2>1. Header[2] = mem[1].b
    BY DEF Header
  <2> QED
    BY SMT, <1>7, <1>10, <2>1
<1>12. payload_len(Header) = n /\ Start = 6
  BY <1>7, <1>11 DEF payload_len, Start, message_start_idx
<1>13. 6 + n <= len
  BY <1>1, <1>2, <1>7, <1>12
<1>14. ASSUME NEW i \in 1 .. n
       PROVE  mem[5 + i] = Byte(j, 6 + i, 0, TRUE)
  <2>1. /\ 6 + i \in 1 .. (6 + n) /\ (6 + i) - 1 = 5 + i /\ 5 + i < len
    BY <1>2, <1>7, <1>13
  <2>2. mem[5 + i] = FrameBytes(j, n)[6 + i]
    BY <1>9, <2>1
  <2>3. FrameBytes(j, n)[6 + i] = Byte(j, 6 + i, 0, TRUE)
    BY <1>6, <1>7, FrameFacts
  <2> QED
    BY <2>2, <2>3
<1> QED
  BY <1>3, <1>6, <1>7, <1>12, <1>13, <1>14 DEF n, j

-----------------------------------------------------------------------------
(***************************************************************************)
(* Type correctness, and the room there is.                                *)
(***************************************************************************)
LEMMA FrameFits ==
  ASSUME TypeInv, NEW j \in 1 .. Len(sizes)
  PROVE  sizes[j] \in 0 .. 125 /\ 6 + sizes[j] <= Capacity /\ Capacity \in Nat
<1>1. /\ sizes \in Seq(Sizes) /\ Len(sizes) \in Nat /\ Len(sizes) <= MaxFrames
      /\ MaxFrames \in Nat /\ Longest \in Nat
  BY LongestFacts, ParserAssumption DEF TypeInv
<1>2. sizes[j] \in Sizes
  BY <1>1, ElementOfSeq
<1>3. sizes[j] \in 0 .. 125 /\ 6 + sizes[j] <= Longest
  BY <1>2, LongestFacts
<1>4. 1 * Longest <= MaxFrames * Longest /\ MaxFrames * Longest \in Nat
  <2>1. 1 \in Nat /\ 1 <= MaxFrames
    BY <1>1
  <2> QED
    BY <1>1, <2>1, Products
<1> DEFINE b == MaxFrames * Longest
<1>5. b \in Nat /\ Longest <= b /\ Capacity = 2 + b + 1
  BY <1>1, <1>4 DEF Capacity, HandshakeLen
<1> DEFINE x == sizes[j]
<1>6. x \in 0 .. 125 /\ 6 + x <= Longest
  BY <1>3
<1> HIDE DEF b, x
<1>7. 6 + x <= Capacity /\ Capacity \in Nat
  BY <1>1, <1>5, <1>6
<1> QED
  BY <1>6, <1>7 DEF x

LEMMA AtType ==
  ASSUME TypeInv, NEW j \in 1 .. Len(sizes)
  PROVE  LET o == [ptr |-> 6, n |-> sizes[j], down |-> FALSE]
         IN At(o) \in Seq(Bytes) /\ Len(At(o)) = sizes[j]
<1> DEFINE o == [ptr |-> 6, n |-> sizes[j], down |-> FALSE]
           n == sizes[j]
<1>0. n \in 0 .. 125 /\ 6 + n <= Capacity /\ Capacity \in Nat
  BY FrameFits
<1>2. At(o) = [i \in 1 .. n |-> mem[6 + i - 1]]
  BY DEF At
<1> HIDE DEF n, o
<1>1. n \in Nat /\ 6 + n <= Capacity /\ Capacity \in Nat
  BY <1>0
<1>3. ASSUME NEW i \in 1 .. n PROVE mem[6 + i - 1] \in Bytes
  <2>1. 6 + i - 1 \in 0 .. Capacity
    BY <1>1
  <2> QED
    BY <2>1 DEF TypeInv
<1>4. At(o) \in Seq(Bytes) /\ Len(At(o)) = n
  BY <1>1, <1>2, <1>3
<1> QED
  BY <1>4 DEF o, n

\* What the level above is given next.
LEMMA NextOut ==
  ASSUME TypeInv, OutInv, replied, out # <<>>
  PROVE  /\ Len(up) + 1 \in 1 .. Len(sizes)
         /\ Head(out) = [ptr |-> 6, n |-> sizes[Len(up) + 1], down |-> FALSE]
         /\ Len(out) \in Nat \ {0}
<1>1. out \in Seq(Messages) /\ Len(up) \in Nat /\ Len(sizes) \in Nat
  BY DEF TypeInv
<1>2. Len(out) \in Nat \ {0}
  BY <1>1, EmptySeq
<1>3. Taken <= Len(sizes)
  BY DEF OutInv
<1>4. Len(up) + 1 \in 1 .. Len(sizes)
  BY <1>1, <1>2, <1>3 DEF Taken
<1>5. out[1] = [ptr |-> 6, n |-> sizes[Len(up) + 1], down |-> FALSE]
  <2>1. 1 \in 1 .. Len(out)
    BY <1>2
  <2> QED
    BY <2>1 DEF OutInv
<1> QED
  BY <1>1, <1>2, <1>4, <1>5

LEMMA UnmaskFacts ==
  ASSUME TypeInv, Start \in Nat, payload_len(Header) \in Nat
  PROVE  /\ Unmask(mem) \in [0 .. Capacity -> Bytes]
         /\ \A p \in 0 .. Capacity :
              /\ p >= Start + payload_len(Header) => Unmask(mem)[p] = mem[p]
              /\ p \in Start .. (Start + payload_len(Header) - 1) =>
                   Unmask(mem)[p] = [mem[p] EXCEPT !.masked = ~@]
<1> DEFINE a == Start
           b == payload_len(Header)
<1>1. mem \in [0 .. Capacity -> Bytes]
  BY DEF TypeInv
<1>2. Unmask(mem) = [p \in 0 .. Capacity |->
                      IF p \in a .. (a + b - 1)
                      THEN [mem[p] EXCEPT !.masked = ~@] ELSE mem[p]]
  BY <1>1 DEF Unmask
<1>3. a \in Nat /\ b \in Nat
  OBVIOUS
<1> HIDE DEF a, b
<1>4. ASSUME NEW p \in 0 .. Capacity
      PROVE  [mem[p] EXCEPT !.masked = ~@] \in Bytes /\ mem[p] \in Bytes
  BY <1>1 DEF Bytes
<1>5. Unmask(mem) \in [0 .. Capacity -> Bytes]
  BY <1>2, <1>4
<1>6. ASSUME NEW p \in 0 .. Capacity, p >= a + b
      PROVE  Unmask(mem)[p] = mem[p]
  <2>1. p \notin a .. (a + b - 1)
    BY <1>3, <1>6
  <2> QED
    BY <1>2, <2>1
<1>7. ASSUME NEW p \in 0 .. Capacity, p \in a .. (a + b - 1)
      PROVE  Unmask(mem)[p] = [mem[p] EXCEPT !.masked = ~@]
  BY <1>2, <1>7
<1> QED
  BY <1>5, <1>6, <1>7 DEF a, b

LEMMA Unmasked ==
  ASSUME NEW f, NEW i, NEW x, x = Byte(f, i, 0, TRUE)
  PROVE  [x EXCEPT !.masked = ~@] = Byte(f, i, 0, FALSE)
<1>1. [Byte(f, i, 0, TRUE) EXCEPT !.masked = ~@] = Byte(f, i, 0, ~TRUE)
  BY DEF Byte
<1>2. (~TRUE) = FALSE
  OBVIOUS
<1>3. [x EXCEPT !.masked = ~@] = [Byte(f, i, 0, TRUE) EXCEPT !.masked = ~@]
  OBVIOUS
<1>4. Byte(f, i, 0, ~TRUE) = Byte(f, i, 0, FALSE)
  BY <1>2
<1> QED
  BY Zenon, <1>1, <1>3, <1>4

\* The frame at the front goes, and all behind it moves up.
LEMMA ParseFacts ==
  ASSUME TypeInv, RoomInv, HandshakeInv, OutInv, FrameInv, ParseFrame
  PROVE  LET n == sizes[Taken + 1] IN
         /\ replied /\ n \in 0 .. 125
         /\ Taken + 1 \in 1 .. Len(sizes)
         /\ 6 + n <= len
         /\ out' = Append(out, [ptr |-> 6, n |-> n, down |-> FALSE])
         /\ mem' \in [0 .. Capacity -> Bytes]
         /\ len' \in Nat
         /\ Unparsed' = Unparsed - (6 + n)
         /\ \A p \in 0 .. (Unparsed - (6 + n) - 1) :
              Stock(p)' = Stock(p + (6 + n))
         /\ len = 6 + n => \A i \in 1 .. n :
              mem'[5 + i] = Byte(Taken + 1, 6 + i, 0, FALSE)
<1> DEFINE n == sizes[Taken + 1]
           k == 6 + n
           j == Taken + 1
<1>1. /\ replied /\ j \in 1 .. Len(sizes)
      /\ payload_len(Header) = n /\ n \in 0 .. 125 /\ Start = 6 /\ k <= len
      /\ \A i \in 1 .. n : mem[5 + i] = Byte(j, 6 + i, 0, TRUE)
  BY HeadFacts DEF ParseFrame
<1>2. /\ out' = Append(out, [ptr |-> Start, n |-> payload_len(Header),
                              down |-> FALSE])
      /\ mem' = Erased(Unmask(mem), Start + payload_len(Header))
      /\ len' = len - (Start + payload_len(Header))
      /\ wire' = wire
  BY DEF ParseFrame
<1> DEFINE m == Unmask(mem)
<1> HIDE DEF n
<1>3. Start + payload_len(Header) = k /\ k \in Nat
  BY <1>1
<1>4. /\ m \in [0 .. Capacity -> Bytes]
      /\ \A p \in 0 .. Capacity :
           /\ p >= k => m[p] = mem[p]
           /\ p \in 6 .. (k - 1) => m[p] = [mem[p] EXCEPT !.masked = ~@]
  <2>1. Start \in Nat /\ payload_len(Header) \in Nat
    BY <1>1
  <2> QED
    BY <1>1, <2>1, UnmaskFacts
<1>5. mem' = Erased(m, k) /\ len' = len - k
  BY <1>2, <1>3
<1>6. /\ len \in Nat /\ Capacity \in Nat /\ len < Capacity
  BY RoomFacts DEF TypeInv, Unparsed
<1> HIDE DEF m, k
<1>7. \A p \in k .. (len - 1) : m[p] = mem[p]
  BY <1>3, <1>4, <1>6
<1>8. /\ mem' \in [0 .. Capacity -> Bytes]
      /\ len' \in Nat
      /\ Unparsed' = Unparsed - k
      /\ \A p \in 0 .. (Unparsed - k - 1) : Stock(p)' = Stock(p + k)
      /\ \A p \in 0 .. Capacity : p > len - k => mem'[p] = m[p]
  <2>1. k <= len
    BY <1>1 DEF k
  <2> QED
    BY <1>2, <1>3, <1>4, <1>5, <1>7, <2>1, EraseFacts
<1>9. ASSUME len = k, NEW i \in 1 .. n
      PROVE  mem'[5 + i] = Byte(j, 6 + i, 0, FALSE)
  <2>1. /\ 5 + i \in 0 .. Capacity /\ 5 + i > len - k
        /\ 5 + i \in 6 .. (k - 1)
    BY <1>1, <1>6, <1>9 DEF k
  <2>2. mem'[5 + i] = [mem[5 + i] EXCEPT !.masked = ~@]
    BY <1>4, <1>8, <2>1
  <2>3. mem[5 + i] = Byte(j, 6 + i, 0, TRUE)
    BY <1>1
  <2> QED
    BY <2>2, <2>3, Unmasked
<1> QED
  BY <1>1, <1>2, <1>3, <1>8, <1>9 DEF n, k

\* The handshake is parsed when it has arrived whole.
LEMMA HandshakeParsed ==
  ASSUME TypeInv, RoomInv, HandshakeInv, OutInv, ParseHandshake
  PROVE  /\ ~replied /\ sizes = <<>> /\ up = <<>> /\ out = <<>>
         /\ mem' \in [0 .. Capacity -> Bytes]
         /\ len' \in Nat
         /\ Unparsed' = 0
<1>1. ~established /\ HandshakeHere
  BY DEF ParseHandshake
<1>2. ~replied
  BY <1>1 DEF OutInv
<1>3. PICK p \in 0 .. (len - 1) : mem[p].f = 0 /\ mem[p].i = 2
  BY <1>1 DEF HandshakeHere, HandshakeLen
<1>4. len \in Nat /\ Len(wire) \in Nat
  BY DEF TypeInv
<1>5. /\ sizes = <<>> /\ up = <<>> /\ out = <<>> /\ Unparsed = 2
      /\ \A q \in 0 .. 1 : Stock(q) = Handshake[q + 1]
  <2>1. Unparsed # 0
    BY <1>3, <1>4 DEF Unparsed
  <2> QED
    BY <1>1, <1>2, <2>1 DEF HandshakeInv, HandshakeLen
<1>6. p = 1
  <2>1. p \in 0 .. 1 /\ p < len
    BY <1>3, <1>4, <1>5 DEF Unparsed
  <2>2. mem[p] = Handshake[p + 1]
    BY <1>5, <2>1 DEF Stock
  <2>3. p # 0
    BY <1>3, <2>2, HandshakeFacts
  <2> QED
    BY <2>1, <2>3
<1>7. len = 2
  BY <1>3, <1>4, <1>5, <1>6 DEF Unparsed
<1>8. mem' = Erased(mem, 2) /\ len' = len - 2 /\ wire' = wire
  BY DEF ParseHandshake, HandshakeLen
<1>9. /\ mem' \in [0 .. Capacity -> Bytes] /\ len' \in Nat
      /\ Unparsed' = Unparsed - 2
  <2>1. mem \in [0 .. Capacity -> Bytes] /\ 2 \in Nat /\ 2 <= len
    BY <1>7 DEF TypeInv
  <2> QED
    BY <1>8, <2>1, EraseFacts
<1> QED
  BY <1>2, <1>5, <1>9

LEMMA RoomStep ==
  ASSUME WsInv, [Next]_vars
  PROVE  RoomInv'
<1>0. TypeInv /\ RoomInv /\ HandshakeInv /\ OutInv /\ FrameInv
  BY DEF WsInv
<1>1. CASE BrowserSend
  <2>1. PICK n \in Sizes :
          sizes' = Append(sizes, n) /\ Unparsed' = Unparsed + 6 + n
    BY <1>0, <1>1, SendFacts
  <2>2. Len(sizes') = Len(sizes) + 1 /\ Len(sizes) \in Nat
    BY <1>0, <2>1, AppendProperties DEF TypeInv
  <2>3. (Len(sizes) + 1) * Longest = Len(sizes) * Longest + Longest
    BY <2>2, LongestFacts, Products
  <2>4. Unparsed' <= HandshakeLen + (Len(sizes) * Longest + Longest)
    <3> DEFINE a == Len(sizes) * Longest
    <3>1. a \in Nat /\ Longest \in Nat
      BY <2>2, LongestFacts, Products
    <3>2. n \in 0 .. 125 /\ 6 + n <= Longest
      BY LongestFacts
    <3>3. Unparsed \in Nat /\ Unparsed <= 2 + a
      BY <1>0 DEF RoomInv, TypeInv, Unparsed, HandshakeLen
    <3> HIDE DEF a
    <3>4. Unparsed + 6 + n <= 2 + (a + Longest)
      BY <3>1, <3>2, <3>3
    <3> QED
      BY <2>1, <3>4 DEF a, HandshakeLen
  <2> QED
    BY <2>2, <2>3, <2>4 DEF RoomInv
<1>2. CASE Read
  <2>1. Unparsed' = Unparsed /\ sizes' = sizes
    BY <1>0, <1>2, ReadFacts DEF Read
  <2> QED
    BY <1>0, <2>1 DEF RoomInv
<1>3. CASE ParseHandshake
  <2>1. Unparsed' = 0 /\ sizes' = <<>>
    BY <1>0, <1>3, HandshakeParsed DEF ParseHandshake
  <2>2. Len(sizes') = 0
    BY <2>1
  <2>3. 0 * Longest = 0
    BY LongestFacts
  <2>4. RoomInv' <=> Unparsed' <= HandshakeLen + Len(sizes') * Longest
    BY DEF RoomInv
  <2>5. Unparsed' <= HandshakeLen + Len(sizes') * Longest
    BY <2>1, <2>2, <2>3 DEF HandshakeLen
  <2> QED
    BY <2>4, <2>5
<1>4. CASE ParseFrame
  <2> DEFINE a == Len(sizes) * Longest
             n == sizes[Taken + 1]
  <2>1. /\ Unparsed' = Unparsed - (6 + n)
        /\ n \in 0 .. 125 /\ sizes' = sizes
    BY <1>0, <1>4, ParseFacts DEF ParseFrame
  <2>2. a \in Nat /\ Unparsed \in Nat /\ Unparsed <= 2 + a
    <3>1. Len(sizes) \in Nat
      BY <1>0 DEF TypeInv
    <3>2. a \in Nat
      BY <3>1, LongestFacts, Products
    <3> QED
      BY <1>0, <3>2 DEF RoomInv, TypeInv, Unparsed, HandshakeLen
  <2>3. RoomInv' <=> Unparsed' <= 2 + a
    BY <2>1 DEF RoomInv, HandshakeLen
  <2> HIDE DEF a, n
  <2> QED
    BY <2>1, <2>2, <2>3
<1>5. CASE ParseDone \/ Deliver \/ Delivered \/ UNCHANGED vars
  <2>1. len' = len /\ wire' = wire /\ sizes' = sizes
    BY <1>5 DEF ParseDone, Deliver, Delivered, vars
  <2> QED
    BY <1>0, <2>1 DEF RoomInv, Unparsed
<1> QED
  BY <1>1, <1>2, <1>3, <1>4, <1>5 DEF Next, Reader

-----------------------------------------------------------------------------
LEMMA TypeStep ==
  ASSUME WsInv, [Next]_vars
  PROVE  TypeInv'
<1>0. TypeInv /\ RoomInv /\ HandshakeInv /\ OutInv /\ FrameInv
  BY DEF WsInv
<1>1. CASE BrowserSend
  <2>1. PICK n \in Sizes :
          sizes' = Append(sizes, n) /\ wire' \in Seq(Bytes)
    BY <1>0, <1>1, SendFacts
  <2>2. sizes' \in Seq(Sizes) /\ Len(sizes') = Len(sizes) + 1
    BY <1>0, <2>1, AppendProperties DEF TypeInv
  <2>3. Len(sizes') <= MaxFrames
    BY <1>0, <1>1, <2>2, ParserAssumption DEF BrowserSend, TypeInv
  <2> QED
    BY <1>0, <1>1, <2>1, <2>2, <2>3 DEF BrowserSend, TypeInv
<1>2. CASE Read
  <2>1. /\ mem' \in [0 .. Capacity -> Bytes]
        /\ wire' \in Seq(Bytes) /\ len' \in Nat
    BY <1>0, <1>2, ReadFacts
  <2> QED
    BY <1>0, <1>2, <2>1 DEF Read, TypeInv
<1>3. CASE ParseHandshake
  <2>1. /\ mem' \in [0 .. Capacity -> Bytes] /\ len' \in Nat
    BY <1>0, <1>3, HandshakeParsed
  <2>2. out' \in Seq(Messages)
    <3>1. [ptr |-> 0, n |-> 0, down |-> TRUE] \in Messages
      BY DEF Messages
    <3> QED
      BY <1>0, <1>3, <3>1, AppendProperties DEF ParseHandshake, TypeInv
  <2>3. established' \in BOOLEAN
    BY <1>0, <1>3 DEF ParseHandshake, TypeInv
  <2> QED
    BY <1>0, <1>3, <2>1, <2>2, <2>3 DEF ParseHandshake, TypeInv
<1>4. CASE ParseFrame
  <2> DEFINE n == sizes[Taken + 1]
  <2>1. /\ out' = Append(out, [ptr |-> 6, n |-> n, down |-> FALSE])
        /\ mem' \in [0 .. Capacity -> Bytes] /\ len' \in Nat
        /\ n \in 0 .. 125
    BY <1>0, <1>4, ParseFacts
  <2> HIDE DEF n
  <2>2. [ptr |-> 6, n |-> n, down |-> FALSE] \in Messages
    BY <2>1 DEF Messages
  <2>3. out' \in Seq(Messages)
    BY <1>0, <2>1, <2>2, AppendProperties DEF TypeInv
  <2> QED
    BY <1>0, <1>4, <2>1, <2>3 DEF ParseFrame, TypeInv
<1>5. CASE ParseDone
  BY <1>0, <1>5 DEF ParseDone, TypeInv
<1>6. CASE Deliver
  <2>1. out' \in Seq(Messages)
    BY <1>0, <1>6, HeadTailProperties DEF Deliver, TypeInv
  <2>2. up' \in Seq(Seq(Bytes)) /\ replied' \in BOOLEAN
    <3>1. CASE Head(out).down
      BY <1>0, <1>6, <3>1 DEF Deliver, TypeInv
    <3>2. CASE ~Head(out).down
      <4>1. replied
        <5> SUFFICES ASSUME ~replied PROVE FALSE
          OBVIOUS
        <5>1. out = <<[ptr |-> 0, n |-> 0, down |-> TRUE]>>
          BY <1>0, <1>6 DEF HandshakeInv, Deliver
        <5> QED
          BY <3>2, <5>1
      <4>2. /\ Len(up) + 1 \in 1 .. Len(sizes)
            /\ Head(out) = [ptr |-> 6, n |-> sizes[Len(up) + 1], down |-> FALSE]
        BY <1>0, <1>6, <4>1, NextOut DEF Deliver
      <4>3. At(Head(out)) \in Seq(Bytes)
        BY <1>0, <4>2, AtType
      <4>4. up' = Append(up, At(Head(out))) /\ replied' = replied
        BY <1>6, <3>2 DEF Deliver
      <4>5. up \in Seq(Seq(Bytes)) /\ replied \in BOOLEAN
        BY <1>0 DEF TypeInv
      <4>6. up' \in Seq(Seq(Bytes))
        BY <4>3, <4>4, <4>5, AppendProperties
      <4> QED
        BY <4>4, <4>5, <4>6
    <3> QED
      BY <3>1, <3>2
  <2> QED
    BY <1>0, <1>6, <2>1, <2>2 DEF Deliver, TypeInv
<1>7. CASE Delivered
  BY <1>0, <1>7 DEF Delivered, TypeInv
<1>8. CASE UNCHANGED vars
  BY <1>0, <1>8 DEF vars, TypeInv
<1> QED
  BY <1>1, <1>2, <1>3, <1>4, <1>5, <1>6, <1>7, <1>8 DEF Next, Reader

-----------------------------------------------------------------------------
(***************************************************************************)
(* The frames that are not parsed yet keep their places.                   *)
(***************************************************************************)
LEMMA Counts ==
  ASSUME TypeInv
  PROVE  /\ Len(sizes) \in Nat /\ Taken \in Nat /\ Unparsed \in Nat
         /\ \A j \in 1 .. Len(sizes) : sizes[j] \in 0 .. 125
<1>1. \A j \in 1 .. Len(sizes) : sizes[j] \in Sizes
  BY ElementOfSeq DEF TypeInv
<1>2. Len(sizes) \in Nat /\ Taken \in Nat /\ Unparsed \in Nat
  BY DEF TypeInv, Taken, Unparsed
<1> QED
  BY <1>1, <1>2, ParserAssumption

\* A byte of a frame lies before the end of what is not parsed.
LEMMA LayoutWithin ==
  ASSUME TypeInv, NEW at \in [Begins -> Nat], Layout(at),
         NEW j \in (Taken + 1) .. Len(sizes), NEW i \in 1 .. (6 + sizes[j])
  PROVE  /\ at[j] + i - 1 \in 0 .. (Unparsed - 1)
         /\ at[j] \in Nat
<1> DEFINE n == sizes[j]
<1>1. j \in Begins /\ j + 1 \in Begins /\ Len(sizes) + 1 \in Begins
  BY Counts DEF Begins
<1>2. j + 1 <= Len(sizes) + 1 /\ n \in 0 .. 125 /\ Unparsed \in Nat
  BY Counts
<1>3. at[j + 1] <= at[Len(sizes) + 1]
  BY <1>1, <1>2 DEF Layout
<1>4. at[j + 1] = at[j] + 6 + n /\ at[Len(sizes) + 1] = Unparsed
  BY DEF Layout
<1>5. at[j] \in Nat
  BY <1>1
<1>6. i \in 1 .. (6 + n)
  OBVIOUS
<1> DEFINE b == at[j]
<1>7. b + 6 + n <= Unparsed /\ b \in Nat
  BY <1>3, <1>4, <1>5
<1> HIDE DEF n, b
<1>8. b + i - 1 \in 0 .. (Unparsed - 1)
  BY <1>2, <1>6, <1>7
<1> QED
  BY <1>5, <1>8 DEF b

LEMMA FrameKept ==
  ASSUME TypeInv, FrameInv, replied,
         sizes' = sizes, Taken' = Taken, Unparsed' = Unparsed,
         \A p \in 0 .. (Unparsed - 1) : Stock(p)' = Stock(p)
  PROVE  FrameInv'
<1>1. PICK at \in [Begins -> Nat] : Layout(at)
  BY DEF FrameInv
<1>2. Begins' = Begins
  BY DEF Begins
<1>3. ASSUME NEW j \in (Taken + 1) .. Len(sizes),
             NEW i \in 1 .. (6 + sizes[j])
      PROVE  Stock(at[j] + i - 1)' = FrameBytes(j, sizes[j])[i]
  <2>1. at[j] + i - 1 \in 0 .. (Unparsed - 1)
    BY <1>1, LayoutWithin
  <2>2. Stock(at[j] + i - 1)' = Stock(at[j] + i - 1)
    BY <2>1
  <2>3. Stock(at[j] + i - 1) = FrameBytes(j, sizes[j])[i]
    BY <1>1 DEF Layout
  <2> QED
    BY <2>2, <2>3
<1>4. Layout(at)'
  BY <1>1, <1>2, <1>3 DEF Layout
<1> QED
  BY <1>2, <1>4 DEF FrameInv

LEMMA FrameStart ==
  ASSUME sizes' = <<>>, Taken' = 0, Unparsed' = 0
  PROVE  FrameInv'
<1> DEFINE at == [j \in 1 .. 1 |-> 0]
<1>1. Begins' = 1 .. 1 /\ Len(sizes') = 0
  BY DEF Begins
<1>2. at \in [Begins' -> Nat]
  BY <1>1
<1>3. Layout(at)'
  <2>1. at[1] = 0 /\ (Taken + 1)' = 1 /\ (Len(sizes) + 1)' = 1
    BY <1>1
  <2>2. \A j \in (Taken' + 1) .. Len(sizes') : FALSE
    BY <1>1
  <2>3. \A j, k \in Begins' : at[j] <= at[k]
    BY <1>1
  <2> HIDE DEF at
  <2> QED
    BY <1>1, <2>1, <2>2, <2>3 DEF Layout
<1> QED
  BY <1>2, <1>3 DEF FrameInv

LEMMA FrameSent ==
  ASSUME TypeInv, OutInv, FrameInv, BrowserSend
  PROVE  FrameInv'
<1>1. PICK at \in [Begins -> Nat] : Layout(at)
  BY DEF FrameInv, BrowserSend
<1>2. PICK n \in Sizes :
        /\ sizes' = Append(sizes, n)
        /\ wire' \in Seq(Bytes)
        /\ Unparsed' = Unparsed + 6 + n
        /\ \A p \in 0 .. (Unparsed - 1) : Stock(p)' = Stock(p)
        /\ \A i \in 1 .. (6 + n) : \A p \in Nat :
             p = Unparsed + i - 1
               => Stock(p)' = FrameBytes(Len(sizes) + 1, n)[i]
  BY SendFacts
<1>0. PICK L \in Nat, c \in Nat, u \in Nat :
        L = Len(sizes) /\ c = Taken /\ u = Unparsed
  BY Counts
<1>3. L \in Nat /\ c \in Nat /\ u \in Nat /\ c <= L /\ n \in 0 .. 125
  BY <1>0, ParserAssumption DEF OutInv, BrowserSend
<1>4. /\ Len(sizes') = L + 1
      /\ \A j \in 1 .. L : sizes'[j] = sizes[j]
      /\ sizes'[L + 1] = n
  BY <1>0, <1>2, AppendProperties DEF TypeInv
<1>5. Taken' = c
  BY <1>0 DEF BrowserSend, Taken
<1>6. Begins = (c + 1) .. (L + 1) /\ Begins' = (c + 1) .. (L + 2)
  BY <1>0, <1>3, <1>4, <1>5 DEF Begins
<1> DEFINE new == [j \in (c + 1) .. (L + 2) |->
                    IF j = L + 2 THEN u + 6 + n ELSE at[j]]
<1>7. /\ at[c + 1] = 0 /\ at[L + 1] = u
      /\ \A j, k \in (c + 1) .. (L + 1) : j <= k => at[j] <= at[k]
      /\ \A j \in (c + 1) .. L : at[j + 1] = at[j] + 6 + sizes[j]
  BY <1>0, <1>1, <1>6 DEF Layout
<1>8. \A j \in (c + 1) .. L : \A i \in 1 .. (6 + sizes[j]) :
        /\ Stock(at[j] + i - 1) = FrameBytes(j, sizes[j])[i]
        /\ at[j] + i - 1 \in 0 .. (u - 1)
  BY <1>0, <1>1, LayoutWithin DEF Layout
<1>9. at \in [(c + 1) .. (L + 1) -> Nat]
  BY <1>6
<1>10. new \in [(c + 1) .. (L + 2) -> Nat]
  BY <1>3, <1>9
<1>11. \A j \in (c + 1) .. (L + 1) : new[j] = at[j] /\ at[j] \in Nat /\ at[j] <= u
  BY <1>3, <1>7, <1>9
<1>12. new[c + 1] = 0 /\ new[L + 2] = u + 6 + n /\ new[L + 1] = u
  BY <1>3, <1>7, <1>11
<1> HIDE DEF new
<1>13. ASSUME NEW j \in (c + 1) .. (L + 2), NEW k \in (c + 1) .. (L + 2), j <= k
       PROVE  new[j] <= new[k]
  <2>1. CASE k = L + 2
    <3>1. j = L + 2 \/ j \in (c + 1) .. (L + 1)
      BY <1>3
    <3>2. j \in (c + 1) .. (L + 1) => new[j] \in Nat /\ new[j] <= u
      BY <1>11
    <3> QED
      BY <1>3, <1>12, <2>1, <3>1, <3>2
  <2>2. CASE k # L + 2
    <3>1. j \in (c + 1) .. (L + 1) /\ k \in (c + 1) .. (L + 1)
      BY <1>3, <1>13, <2>2
    <3> QED
      BY <1>7, <1>11, <1>13, <3>1
  <2> QED
    BY <2>1, <2>2
<1>14. ASSUME NEW j \in (c + 1) .. (L + 1)
       PROVE  /\ new[j + 1] = new[j] + 6 + sizes'[j]
              /\ \A i \in 1 .. (6 + sizes'[j]) :
                   Stock(new[j] + i - 1)' = FrameBytes(j, sizes'[j])[i]
  <2>1. CASE j = L + 1
    <3>1. new[j] = u /\ sizes'[j] = n /\ new[j + 1] = u + 6 + n
      <4>1. j + 1 = L + 2
        BY <1>3, <2>1
      <4> QED
        BY <1>4, <1>12, <2>1, <4>1
    <3>2. ASSUME NEW i \in 1 .. (6 + n)
          PROVE  Stock(u + i - 1)' = FrameBytes(j, n)[i]
      <4> DEFINE p == u + i - 1
      <4>1. p \in Nat
        BY <1>3
      <4>2. p = Unparsed + i - 1
        BY <1>0
      <4> HIDE DEF p
      <4>3. Stock(p)' = FrameBytes(Len(sizes) + 1, n)[i]
        BY <1>2, <4>1, <4>2
      <4> QED
        BY <1>0, <2>1, <4>3 DEF p
    <3> QED
      BY <3>1, <3>2
  <2>2. CASE j # L + 1
    <3>1. j \in (c + 1) .. L /\ j \in 1 .. L
          /\ j \in (c + 1) .. (L + 1) /\ j + 1 \in (c + 1) .. (L + 1)
      BY <1>3, <2>2
    <3>2. sizes'[j] = sizes[j]
      BY <1>4, <3>1
    <3>3. new[j] = at[j] /\ new[j + 1] = at[j + 1]
      BY <1>11, <3>1
    <3>4. at[j + 1] = at[j] + 6 + sizes[j]
      BY <1>7, <3>1
    <3>5. ASSUME NEW i \in 1 .. (6 + sizes[j])
          PROVE  Stock(at[j] + i - 1)' = FrameBytes(j, sizes[j])[i]
      <4> DEFINE p == at[j] + i - 1
      <4>1. Stock(p) = FrameBytes(j, sizes[j])[i] /\ p \in 0 .. (u - 1)
        BY <1>8, <3>1
      <4> HIDE DEF p
      <4>2. Stock(p)' = Stock(p)
        BY <1>0, <1>2, <4>1
      <4> QED
        BY <4>1, <4>2 DEF p
    <3> QED
      BY <3>2, <3>3, <3>4, <3>5
  <2> QED
    BY <2>1, <2>2
<1>15. Layout(new)'
  <2>1. /\ Taken' + 1 = c + 1 /\ Len(sizes') + 1 = L + 2 /\ Len(sizes') = L + 1
        /\ Begins' = (c + 1) .. (L + 2) /\ Unparsed' = u + 6 + n
    BY <1>0, <1>2, <1>3, <1>4, <1>5, <1>6
  <2> QED
    BY <1>12, <1>13, <1>14, <2>1 DEF Layout
<1> QED
  BY <1>6, <1>10, <1>15 DEF FrameInv

LEMMA FrameTaken ==
  ASSUME TypeInv, RoomInv, HandshakeInv, OutInv, FrameInv, ParseFrame
  PROVE  FrameInv'
<1>1. PICK L \in Nat, c \in Nat, u \in Nat :
        L = Len(sizes) /\ c = Taken /\ u = Unparsed
  BY Counts
<1>2. PICK n \in 0 .. 125, k \in Nat : n = sizes[Taken + 1] /\ k = 6 + n
  <2>1. sizes[Taken + 1] \in 0 .. 125
    BY ParseFacts
  <2>2. 6 + sizes[Taken + 1] \in Nat
    BY <2>1
  <2> QED
    BY <2>1, <2>2
<1>3. /\ replied /\ c + 1 \in 1 .. L
      /\ out' = Append(out, [ptr |-> 6, n |-> n, down |-> FALSE])
      /\ Unparsed' = u - k
      /\ \A p \in 0 .. (u - k - 1) : Stock(p)' = Stock(p + k)
  BY <1>1, <1>2, ParseFacts
<1>4. PICK at \in [Begins -> Nat] : Layout(at)
  BY <1>3 DEF FrameInv
<1>5. sizes' = sizes /\ Taken' = c + 1
  <2>1. [ptr |-> 6, n |-> n, down |-> FALSE] \in Messages
    BY DEF Messages
  <2>2. Len(out') = Len(out) + 1
    BY <1>3, <2>1, AppendProperties DEF TypeInv
  <2> QED
    BY <1>1, <2>2 DEF ParseFrame, Taken, TypeInv
<1>6. Begins = (c + 1) .. (L + 1) /\ Begins' = (c + 2) .. (L + 1)
  BY <1>1, <1>5 DEF Begins
<1>7. /\ at[c + 1] = 0 /\ at[L + 1] = u
      /\ \A i, j \in (c + 1) .. (L + 1) : i <= j => at[i] <= at[j]
      /\ \A j \in (c + 1) .. L : at[j + 1] = at[j] + 6 + sizes[j]
  BY <1>1, <1>4, <1>6 DEF Layout
<1>8. \A j \in (c + 1) .. L : \A i \in 1 .. (6 + sizes[j]) :
        /\ Stock(at[j] + i - 1) = FrameBytes(j, sizes[j])[i]
        /\ at[j] + i - 1 \in 0 .. (u - 1)
  BY <1>1, <1>4, LayoutWithin DEF Layout
<1>9. at \in [(c + 1) .. (L + 1) -> Nat]
  BY <1>6
<1>10. at[c + 2] = k
  <2>1. c + 1 \in (c + 1) .. L /\ (c + 1) + 1 = c + 2
    BY <1>3
  <2> QED
    BY <1>1, <1>2, <1>7, <2>1
<1>11. \A j \in (c + 2) .. (L + 1) : at[j] \in Nat /\ at[j] >= k
  <2>1. \A j \in (c + 2) .. (L + 1) :
          /\ j \in (c + 1) .. (L + 1) /\ c + 2 \in (c + 1) .. (L + 1)
          /\ c + 2 <= j
    BY <1>3
  <2> QED
    BY <1>7, <1>9, <1>10, <2>1
<1> DEFINE new == [j \in (c + 2) .. (L + 1) |-> at[j] - k]
<1>12. \A j \in (c + 2) .. (L + 1) : new[j] = at[j] - k
  OBVIOUS
<1>13. new \in [(c + 2) .. (L + 1) -> Nat]
  BY <1>11
<1> HIDE DEF new
<1>14. new[c + 2] = 0 /\ new[L + 1] = u - k
  <2>1. c + 2 \in (c + 2) .. (L + 1) /\ L + 1 \in (c + 2) .. (L + 1)
    BY <1>3
  <2> QED
    BY <1>7, <1>10, <1>12, <2>1
<1>15. ASSUME NEW i \in (c + 2) .. (L + 1), NEW j \in (c + 2) .. (L + 1), i <= j
       PROVE  new[i] <= new[j]
  <2>1. i \in (c + 1) .. (L + 1) /\ j \in (c + 1) .. (L + 1)
    OBVIOUS
  <2>2. at[i] <= at[j]
    BY <1>7, <1>15, <2>1
  <2> QED
    BY <1>11, <1>12, <2>2
<1>16. ASSUME NEW j \in (c + 2) .. L
       PROVE  /\ new[j + 1] = new[j] + 6 + sizes[j]
              /\ \A i \in 1 .. (6 + sizes[j]) :
                   Stock(new[j] + i - 1)' = FrameBytes(j, sizes[j])[i]
  <2>1. /\ j \in (c + 1) .. L /\ j \in 1 .. Len(sizes)
        /\ j \in (c + 2) .. (L + 1) /\ j + 1 \in (c + 2) .. (L + 1)
    BY <1>1
  <2>2. sizes[j] \in 0 .. 125
    BY <2>1, Counts
  <2>3. PICK m \in 0 .. 125, a \in Nat : m = sizes[j] /\ a = at[j]
    BY <1>11, <2>1, <2>2
  <2>4. new[j + 1] = new[j] + 6 + sizes[j]
    <3>1. at[j + 1] = a + 6 + m /\ new[j] = a - k /\ new[j + 1] = at[j + 1] - k
      BY <1>7, <1>12, <2>1, <2>3
    <3> QED
      BY <2>3, <3>1
  <2>5. ASSUME NEW i \in 1 .. (6 + sizes[j])
        PROVE  Stock(new[j] + i - 1)' = FrameBytes(j, sizes[j])[i]
    <3>1. PICK p \in Int : p = new[j] + i - 1
      <4>1. new[j] + i - 1 \in Int
        BY <1>13, <2>1, <2>3
      <4> QED
        BY <4>1
    <3>2. /\ Stock(a + i - 1) = FrameBytes(j, sizes[j])[i]
          /\ a + i - 1 \in 0 .. (u - 1)
      BY <1>8, <2>1, <2>3
    <3>3. p + k = a + i - 1 /\ p \in 0 .. (u - k - 1)
      <4>1. new[j] = a - k /\ a >= k
        BY <1>11, <1>12, <2>1, <2>3
      <4>2. i \in 1 .. (6 + m)
        BY <2>3
      <4> QED
        BY <3>1, <3>2, <4>1, <4>2
    <3>4. Stock(p)' = Stock(p + k)
      BY <1>3, <3>3
    <3> QED
      BY <3>1, <3>2, <3>3, <3>4
  <2> QED
    BY <2>4, <2>5
<1>17. Layout(new)'
  <2>1. /\ Taken' + 1 = c + 2 /\ Len(sizes') + 1 = L + 1 /\ Len(sizes') = L
        /\ Begins' = (c + 2) .. (L + 1)
    BY <1>1, <1>5, <1>6
  <2> QED
    BY <1>3, <1>5, <1>14, <1>15, <1>16, <2>1 DEF Layout
<1> QED
  BY <1>6, <1>13, <1>17 DEF FrameInv

LEMMA StockKept ==
  ASSUME mem' = mem, len' = len, wire' = wire
  PROVE  /\ Unparsed' = Unparsed
         /\ \A p \in Nat : Stock(p)' = Stock(p)
BY DEF Unparsed, Stock

\* The reply to the handshake, or a message to the level above.
LEMMA DeliverFacts ==
  ASSUME TypeInv, RoomInv, HandshakeInv, OutInv, Deliver
  PROVE  /\ replied'
         /\ out' \in Seq(Messages) /\ Len(out') = Len(out) - 1
         /\ \A i \in 1 .. Len(out') : out'[i] = out[i + 1]
         /\ \/ /\ ~replied /\ established /\ sizes = <<>> /\ up = <<>>
               /\ up' = <<>> /\ out' = <<>> /\ Unparsed = 0
            \/ /\ replied
               /\ Len(up) + 1 \in 1 .. Len(sizes)
               /\ Head(out) = [ptr |-> 6, n |-> sizes[Len(up) + 1],
                               down |-> FALSE]
               /\ At(Head(out)) \in Seq(Bytes)
               /\ Len(At(Head(out))) = sizes[Len(up) + 1]
               /\ up' = Append(up, At(Head(out)))
               /\ Len(up') = Len(up) + 1
               /\ \A j \in 1 .. Len(up) : up'[j] = up[j]
               /\ up'[Len(up) + 1] = At(Head(out))
<1>1. out # <<>> /\ out' = Tail(out)
  BY DEF Deliver
<1>2. out \in Seq(Messages)
  BY DEF TypeInv
<1>3. /\ out' \in Seq(Messages) /\ Len(out') = Len(out) - 1
      /\ \A i \in 1 .. Len(out') : out'[i] = out[i + 1]
  BY <1>1, <1>2, HeadTailProperties
<1>4. CASE ~replied
  <2>1. /\ established /\ sizes = <<>> /\ up = <<>> /\ Unparsed = 0
        /\ out = <<[ptr |-> 0, n |-> 0, down |-> TRUE]>>
    BY <1>1, <1>4 DEF HandshakeInv
  <2>2. Head(out).down /\ out' = <<>>
    BY <1>1, <2>1
  <2>3. replied' /\ up' = up
    BY <2>2 DEF Deliver
  <2> QED
    BY <1>3, <1>4, <2>1, <2>2, <2>3
<1>5. CASE replied
  <2>1. /\ Len(up) + 1 \in 1 .. Len(sizes)
        /\ Head(out) = [ptr |-> 6, n |-> sizes[Len(up) + 1], down |-> FALSE]
    BY <1>1, <1>5, NextOut
  <2>2. /\ At(Head(out)) \in Seq(Bytes)
        /\ Len(At(Head(out))) = sizes[Len(up) + 1]
    BY <2>1, AtType
  <2>3. ~Head(out).down
    BY <2>1
  <2>4. up' = Append(up, At(Head(out))) /\ replied' = replied
    BY <2>3 DEF Deliver
  <2> DEFINE x == At(Head(out))
  <2>5. up \in Seq(Seq(Bytes)) /\ x \in Seq(Bytes) /\ up' = Append(up, x)
    BY <2>2, <2>4 DEF TypeInv
  <2> HIDE DEF x
  <2>6. /\ Len(up') = Len(up) + 1
        /\ \A j \in 1 .. Len(up) : up'[j] = up[j]
        /\ up'[Len(up) + 1] = x
    BY <2>5, AppendProperties
  <2> QED
    BY <1>3, <1>5, <2>1, <2>2, <2>4, <2>6 DEF x
<1> QED
  BY <1>4, <1>5

LEMMA ReadReady ==
  ASSUME TypeInv, RoomInv, HandshakeInv, OutInv, Read
  PROVE  /\ out = <<>>
         /\ ~replied => ~established /\ Unparsed = HandshakeLen
<1>1. pc = "read"
  BY DEF Read
<1>2. Unparsed > 0
  BY ReadFacts
<1>3. CASE replied
  BY <1>1, <1>3 DEF OutInv
<1>4. CASE ~replied
  <2>1. Unparsed # 0
    BY <1>2
  <2> QED
    BY <1>1, <1>4, <2>1 DEF HandshakeInv
<1> QED
  BY <1>3, <1>4

LEMMA FrameStep ==
  ASSUME WsInv, [Next]_vars
  PROVE  FrameInv'
<1>0. TypeInv /\ RoomInv /\ HandshakeInv /\ OutInv /\ FrameInv
  BY DEF WsInv
<1> USE <1>0
<1>1. CASE BrowserSend
  BY <1>1, FrameSent
<1>2. CASE Read
  <2>1. CASE replied
    <3>1. /\ Unparsed' = Unparsed
          /\ \A p \in 0 .. (Unparsed - 1) : Stock(p)' = Stock(p)
      BY <1>2, ReadFacts
    <3>2. sizes' = sizes /\ Taken' = Taken
      BY <1>2 DEF Read, Taken
    <3> QED
      BY <2>1, <3>1, <3>2, FrameKept
  <2>2. CASE ~replied
    BY <1>2, <2>2 DEF Read, FrameInv
  <2> QED
    BY <2>1, <2>2
<1>3. CASE ParseHandshake
  BY <1>3, HandshakeParsed DEF ParseHandshake, FrameInv
<1>4. CASE ParseFrame
  BY <1>4, FrameTaken
<1>5. CASE Deliver
  <2>1. mem' = mem /\ len' = len /\ wire' = wire /\ sizes' = sizes
    BY <1>5 DEF Deliver
  <2>2. Unparsed' = Unparsed /\ \A p \in Nat : Stock(p)' = Stock(p)
    BY <2>1, StockKept
  <2>3. CASE replied
    <3>1. Len(up') = Len(up) + 1 /\ Len(out') = Len(out) - 1
      BY <1>5, <2>3, DeliverFacts
    <3>2. Len(up) \in Nat /\ Len(out) \in Nat
      BY DEF TypeInv
    <3>3. Taken' = Taken
      BY <3>1, <3>2 DEF Taken
    <3>4. \A p \in 0 .. (Unparsed - 1) : Stock(p)' = Stock(p)
      BY <2>2
    <3> QED
      BY <2>1, <2>2, <2>3, <3>3, <3>4, FrameKept
  <2>4. CASE ~replied
    <3>1. sizes = <<>> /\ up' = <<>> /\ out' = <<>> /\ Unparsed = 0
      BY <1>5, <2>4, DeliverFacts
    <3>2. Taken' = 0
      BY <3>1 DEF Taken
    <3> QED
      BY <2>1, <2>2, <3>1, <3>2, FrameStart
  <2> QED
    BY <2>3, <2>4
<1>6. CASE ParseDone \/ Delivered \/ UNCHANGED vars
  <2>1. /\ mem' = mem /\ len' = len /\ wire' = wire /\ sizes' = sizes
        /\ up' = up /\ out' = out /\ replied' = replied
    BY <1>6 DEF ParseDone, Delivered, vars
  <2>2. CASE replied
    <3>1. Unparsed' = Unparsed /\ \A p \in Nat : Stock(p)' = Stock(p)
      BY <2>1, StockKept
    <3>2. Taken' = Taken
      BY <2>1 DEF Taken
    <3>3. \A p \in 0 .. (Unparsed - 1) : Stock(p)' = Stock(p)
      BY <3>1
    <3> QED
      BY <2>1, <2>2, <3>1, <3>2, <3>3, FrameKept
  <2>3. CASE ~replied
    BY <2>1, <2>3 DEF FrameInv
  <2> QED
    BY <2>2, <2>3
<1> QED
  BY <1>1, <1>2, <1>3, <1>4, <1>5, <1>6 DEF Next, Reader

-----------------------------------------------------------------------------
(***************************************************************************)
(* The handshake, the messages of the parser, and what was delivered.      *)
(***************************************************************************)
LEMMA Single ==
  ASSUME NEW x
  PROVE  Append(<<>>, x) = <<x>>
OBVIOUS

LEMMA HandshakeStep ==
  ASSUME WsInv, [Next]_vars
  PROVE  HandshakeInv'
<1>0. TypeInv /\ RoomInv /\ HandshakeInv /\ OutInv /\ FrameInv
  BY DEF WsInv
<1> USE <1>0
<1>1. CASE BrowserSend
  BY <1>1 DEF BrowserSend, HandshakeInv
<1>2. CASE Read
  <2> SUFFICES ASSUME ~replied' PROVE HandshakeInv'
    BY DEF HandshakeInv
  <2>1. /\ sizes' = sizes /\ up' = up /\ out' = out /\ replied' = replied
        /\ established' = established
    BY <1>2 DEF Read
  <2>2. /\ ~established /\ out = <<>> /\ Unparsed = 2 /\ sizes = <<>> /\ up = <<>>
        /\ \A p \in 0 .. 1 : Stock(p) = Handshake[p + 1]
    BY <1>2, <2>1, ReadReady DEF HandshakeInv, HandshakeLen
  <2>3. /\ Unparsed' = Unparsed
        /\ \A p \in 0 .. (Unparsed - 1) : Stock(p)' = Stock(p)
    BY <1>2, ReadFacts
  <2>4. \A p \in 0 .. 1 : Stock(p)' = Handshake[p + 1]
    BY <2>2, <2>3
  <2> QED
    BY <2>1, <2>2, <2>3, <2>4 DEF HandshakeInv, HandshakeLen, Handshake
<1>3. CASE ParseHandshake
  <2>1. /\ ~replied /\ sizes = <<>> /\ up = <<>> /\ out = <<>> /\ Unparsed' = 0
    BY <1>3, HandshakeParsed
  <2>2. /\ sizes' = sizes /\ up' = up /\ established' = asksUpgrade
        /\ asksUpgrade' = asksUpgrade /\ pc' = "parse"
        /\ out' = IF asksUpgrade
                  THEN Append(out, [ptr |-> 0, n |-> 0, down |-> TRUE]) ELSE out
    BY <1>3 DEF ParseHandshake
  <2>3. CASE asksUpgrade
    <3>1. out' = Append(<<>>, [ptr |-> 0, n |-> 0, down |-> TRUE])
      BY <2>1, <2>2, <2>3
    <3>2. out' = <<[ptr |-> 0, n |-> 0, down |-> TRUE]>>
      BY <3>1, Single
    <3> QED
      BY <2>1, <2>2, <2>3, <3>2 DEF HandshakeInv
  <2>4. CASE ~asksUpgrade
    BY <2>1, <2>2, <2>4 DEF HandshakeInv
  <2> QED
    BY <2>3, <2>4
<1>4. CASE ParseFrame
  BY <1>4, ParseFacts DEF ParseFrame, HandshakeInv
<1>5. CASE Deliver
  BY <1>5, DeliverFacts DEF HandshakeInv
<1>6. CASE ParseDone \/ Delivered \/ UNCHANGED vars
  <2> SUFFICES ASSUME ~replied' PROVE HandshakeInv'
    BY DEF HandshakeInv
  <2>1. /\ mem' = mem /\ len' = len /\ wire' = wire /\ sizes' = sizes
        /\ up' = up /\ out' = out /\ replied' = replied
        /\ established' = established /\ asksUpgrade' = asksUpgrade
    BY <1>6 DEF ParseDone, Delivered, vars
  <2>2. Unparsed' = Unparsed /\ \A p \in Nat : Stock(p)' = Stock(p)
    BY <2>1, StockKept
  <2>3. out # <<>> => pc' # "read"
    BY <1>6, <2>1 DEF ParseDone, Delivered, vars, HandshakeInv
  <2>4. CASE established
    <3>1. out = <<[ptr |-> 0, n |-> 0, down |-> TRUE]>> /\ out # <<>>
      BY SMTT(30), <2>1, <2>4 DEF HandshakeInv
    <3> QED
      BY <2>1, <2>2, <2>3, <2>4, <3>1 DEF HandshakeInv
  <2>5. CASE ~established
    <3>1. (\A p \in 0 .. 1 : Stock(p) = Handshake[p + 1])
            => \A p \in 0 .. 1 : Stock(p)' = Handshake[p + 1]
      BY <2>2
    <3> QED
      BY <2>1, <2>2, <2>5, <3>1 DEF HandshakeInv, Handshake
  <2> QED
    BY <2>4, <2>5
<1> QED
  BY <1>1, <1>2, <1>3, <1>4, <1>5, <1>6 DEF Next, Reader

LEMMA OutStep ==
  ASSUME WsInv, [Next]_vars
  PROVE  OutInv'
<1>0. TypeInv /\ RoomInv /\ HandshakeInv /\ OutInv /\ FrameInv
  BY DEF WsInv
<1> USE <1>0
<1>a. /\ out \in Seq(Messages) /\ Len(out) \in Nat /\ Len(up) \in Nat
      /\ Len(sizes) \in Nat
  BY DEF TypeInv
<1>1. CASE BrowserSend
  <2>1. PICK n \in Sizes : sizes' = Append(sizes, n)
    BY <1>1 DEF BrowserSend
  <2>2. /\ Len(sizes') = Len(sizes) + 1
        /\ \A j \in 1 .. Len(sizes) : sizes'[j] = sizes[j]
    BY <2>1, AppendProperties DEF TypeInv
  <2>3. /\ out' = out /\ up' = up /\ pc' = pc /\ established' = established
        /\ replied
    BY <1>1 DEF BrowserSend
  <2>4. \A i \in 1 .. Len(out) : Len(up) + i \in 1 .. Len(sizes)
    BY <1>a, <2>3 DEF OutInv, Taken
  <2>5. \A i \in 1 .. Len(out) :
          out[i] = [ptr |-> 6, n |-> sizes'[Len(up) + i], down |-> FALSE]
    BY <2>2, <2>3, <2>4 DEF OutInv
  <2>6. Taken' <= Len(sizes')
    BY <1>a, <2>2, <2>3 DEF OutInv, Taken
  <2> QED
    BY <2>3, <2>5, <2>6 DEF OutInv
<1>2. CASE Read
  BY <1>2, ReadReady DEF Read, OutInv, Taken
<1>3. CASE ParseHandshake
  BY <1>3, HandshakeParsed DEF ParseHandshake, OutInv
<1>4. CASE ParseFrame
  <2> DEFINE n == sizes[Taken + 1]
             x == [ptr |-> 6, n |-> n, down |-> FALSE]
  <2>1. /\ replied /\ Taken + 1 \in 1 .. Len(sizes)
        /\ out' = Append(out, x) /\ n \in 0 .. 125
    BY <1>4, ParseFacts
  <2> HIDE DEF n
  <2>2. x \in Messages
    <3>1. n \in Nat
      BY <2>1
    <3> QED
      BY <3>1 DEF Messages
  <2> HIDE DEF x
  <2>3. /\ Len(out') = Len(out) + 1 /\ out'[Len(out) + 1] = x
        /\ \A i \in 1 .. Len(out) : out'[i] = out[i]
    BY <1>a, <2>1, <2>2, AppendProperties
  <2>4. /\ sizes' = sizes /\ up' = up /\ pc' = "parse" /\ replied' = replied
        /\ established' = established
    BY <1>4 DEF ParseFrame
  <2>5. Taken' <= Len(sizes')
    BY <1>a, <2>1, <2>3, <2>4 DEF Taken
  <2>6. ASSUME NEW i \in 1 .. (Len(out) + 1)
        PROVE  out'[i] = [ptr |-> 6, n |-> sizes[Len(up) + i], down |-> FALSE]
    <3>1. CASE i \in 1 .. Len(out)
      BY <2>1, <2>3, <3>1 DEF OutInv
    <3>2. CASE i = Len(out) + 1
      <4>1. Len(up) + i = Taken + 1
        BY <1>a, <3>2 DEF Taken
      <4> QED
        BY <2>3, <3>2, <4>1 DEF x, n
    <3> QED
      BY <1>a, <3>1, <3>2
  <2> QED
    BY <2>1, <2>3, <2>4, <2>5, <2>6 DEF OutInv
<1>5. CASE Deliver
  <2>0. sizes' = sizes /\ pc' = pc /\ pc = "deliver" /\ established' = established
    BY <1>5 DEF Deliver
  <2>1. CASE replied
    <3>1. /\ Len(up') = Len(up) + 1 /\ Len(out') = Len(out) - 1
          /\ \A i \in 1 .. Len(out') : out'[i] = out[i + 1]
      BY <1>5, <2>1, DeliverFacts
    <3>2. \A i \in 1 .. Len(out') :
            /\ i + 1 \in 1 .. Len(out)
            /\ Len(up) + (i + 1) = Len(up') + i
      <4>1. PICK a \in Nat, b \in Nat : a = Len(out') /\ b = Len(out) /\ a = b - 1
        BY <1>a, <1>5, <3>1, DeliverFacts
      <4>2. PICK c \in Nat, d \in Nat : c = Len(up) /\ d = Len(up') /\ d = c + 1
        BY <1>a, <3>1
      <4>3. \A i \in 1 .. a : i + 1 \in 1 .. b /\ c + (i + 1) = d + i
        BY <4>1, <4>2
      <4> QED
        BY <4>1, <4>2, <4>3
    <3>3. Taken' = Taken
      BY <1>a, <3>1 DEF Taken
    <3>4. \A i \in 1 .. Len(out') :
            out'[i] = [ptr |-> 6, n |-> sizes[Len(up') + i], down |-> FALSE]
      BY <2>1, <3>1, <3>2 DEF OutInv
    <3>5. established /\ Taken' <= Len(sizes)
      BY <2>1, <3>3 DEF OutInv
    <3> QED
      BY <2>0, <3>4, <3>5 DEF OutInv
  <2>2. CASE ~replied
    <3>1. /\ established /\ sizes = <<>> /\ up' = <<>> /\ out' = <<>>
      BY <1>5, <2>2, DeliverFacts
    <3>2. Taken' = 0 /\ Len(sizes') = 0 /\ Len(out') = 0
      BY <2>0, <3>1 DEF Taken
    <3> QED
      BY <2>0, <3>1, <3>2 DEF OutInv
  <2> QED
    BY <2>1, <2>2
<1>6. CASE ParseDone \/ Delivered \/ UNCHANGED vars
  <2>1. /\ sizes' = sizes /\ up' = up /\ out' = out /\ replied' = replied
        /\ established' = established
    BY <1>6 DEF ParseDone, Delivered, vars
  <2>2. Taken' = Taken
    BY <2>1 DEF Taken
  <2>3. pc' = "read" => pc = "read" \/ out = <<>>
    BY <1>6 DEF ParseDone, Delivered, vars
  <2> QED
    BY <2>1, <2>2, <2>3 DEF OutInv
<1> QED
  BY <1>1, <1>2, <1>3, <1>4, <1>5, <1>6 DEF Next, Reader

\* What has been delivered was sent before.
LEMMA UpWithin ==
  ASSUME TypeInv, HandshakeInv, OutInv
  PROVE  /\ Len(up) \in Nat /\ Len(sizes) \in Nat
         /\ Len(up) <= Len(sizes)
         /\ \A j \in 1 .. Len(up) : j \in 1 .. Len(sizes)
<1>1. Len(up) \in Nat /\ Len(sizes) \in Nat /\ Len(out) \in Nat
  BY DEF TypeInv
<1>2. CASE replied
  BY <1>1, <1>2 DEF OutInv, Taken
<1>3. CASE ~replied
  BY <1>1, <1>3 DEF HandshakeInv
<1> QED
  BY <1>1, <1>2, <1>3

\* What was delivered and sent stays so.
LEMMA DeliveredKept ==
  ASSUME WsInv, [Next]_vars
  PROVE  /\ waits' = waits
         /\ \A j \in 1 .. Len(up) : up'[j] = up[j] /\ sizes'[j] = sizes[j]
         /\ \/ up' = up
            \/ /\ Len(up') = Len(up) + 1 /\ sizes' = sizes /\ mem' = mem
               /\ replied /\ out # <<>> /\ up'[Len(up) + 1] = At(Head(out))
               /\ Len(At(Head(out))) = sizes[Len(up) + 1]
<1>0. TypeInv /\ RoomInv /\ HandshakeInv /\ OutInv
  BY DEF WsInv
<1>1. CASE BrowserSend
  <2>1. PICK n \in Sizes : sizes' = Append(sizes, n)
    BY <1>1 DEF BrowserSend
  <2>2. \A j \in 1 .. Len(sizes) : sizes'[j] = sizes[j]
    BY <1>0, <2>1, AppendProperties DEF TypeInv
  <2>3. \A j \in 1 .. Len(up) : j \in 1 .. Len(sizes)
    BY <1>0, UpWithin
  <2> QED
    BY <1>1, <2>2, <2>3 DEF BrowserSend
<1>2. CASE Deliver
  <2>1. CASE replied
    BY <1>0, <1>2, <2>1, DeliverFacts DEF Deliver
  <2>2. CASE ~replied
    BY <1>0, <1>2, <2>2, DeliverFacts DEF Deliver
  <2> QED
    BY <2>1, <2>2
<1>3. CASE ~Deliver /\ ~BrowserSend
  <2>1. waits' = waits /\ up' = up /\ sizes' = sizes
    BY <1>3 DEF Next, Reader, Read, ParseHandshake, ParseFrame, ParseDone,
                Delivered, vars
  <2> QED
    BY <2>1
<1> QED
  BY <1>1, <1>2, <1>3

LEMMA SizesStep ==
  ASSUME WsInv, [Next]_vars
  PROVE  SizesInv'
<1>1. /\ \A j \in 1 .. Len(up) : up'[j] = up[j] /\ sizes'[j] = sizes[j]
      /\ \/ up' = up
         \/ /\ Len(up') = Len(up) + 1 /\ sizes' = sizes
            /\ up'[Len(up) + 1] = At(Head(out))
            /\ Len(At(Head(out))) = sizes[Len(up) + 1]
  BY DeliveredKept
<1>2. SizesInv /\ Len(up) \in Nat
  BY DEF WsInv, TypeInv
<1>3. SUFFICES ASSUME NEW j \in 1 .. Len(up')
               PROVE  Len(up'[j]) = sizes'[j]
  BY DEF SizesInv
<1>4. CASE j \in 1 .. Len(up)
  BY <1>1, <1>2, <1>4 DEF SizesInv
<1>5. CASE j \notin 1 .. Len(up)
  <2>1. j = Len(up) + 1 /\ up' # up
    BY <1>1, <1>2, <1>5
  <2> QED
    BY <1>1, <2>1
<1> QED
  BY <1>4, <1>5

LEMMA WaitStep ==
  ASSUME WsInv, [Next]_vars
  PROVE  WaitInv'
<1>0. TypeInv /\ RoomInv /\ HandshakeInv /\ OutInv /\ FrameInv /\ WaitInv
  BY DEF WsInv
<1> SUFFICES ASSUME waits' PROVE WaitInv'
  BY DEF WaitInv
<1>a. waits
  BY DeliveredKept
<1>b. /\ Len(sizes) <= Len(up) + 1
      /\ replied /\ out # <<>> => At(Head(out)) = Sent(Len(up) + 1)
  BY <1>0, <1>a DEF WaitInv
<1>c. /\ out \in Seq(Messages) /\ Len(out) \in Nat /\ Len(up) \in Nat
      /\ Len(sizes) \in Nat
  BY <1>0 DEF TypeInv
<1> USE <1>0
<1>1. CASE BrowserSend
  <2>1. PICK n \in Sizes : sizes' = Append(sizes, n)
    BY <1>1 DEF BrowserSend
  <2>2. Len(sizes') = Len(sizes) + 1
    BY <2>1, AppendProperties DEF TypeInv
  <2>3. replied /\ Len(up) = Len(sizes) /\ up' = up /\ out' = out
    BY <1>1, <1>a DEF BrowserSend
  <2>4. Len(out) = 0
    BY <1>c, <2>3 DEF OutInv, Taken
  <2>5. out' = <<>>
    BY <1>c, <2>3, <2>4, EmptySeq
  <2> QED
    BY <1>c, <2>2, <2>3, <2>5 DEF WaitInv
<1>2. CASE Read
  BY <1>2, <1>b, ReadReady DEF Read, WaitInv
<1>3. CASE ParseHandshake
  BY <1>3, <1>b, HandshakeParsed DEF ParseHandshake, WaitInv
<1>4. CASE ParseFrame
  <2>1. PICK n \in 0 .. 125 : n = sizes[Taken + 1]
    BY <1>4, ParseFacts
  <2>2. /\ replied /\ Taken + 1 \in 1 .. Len(sizes)
        /\ out' = Append(out, [ptr |-> 6, n |-> n, down |-> FALSE])
        /\ len = 6 + n => \A i \in 1 .. n :
             mem'[5 + i] = Byte(Taken + 1, 6 + i, 0, FALSE)
        /\ 6 + n <= len
    BY <1>4, <2>1, ParseFacts
  <2>3. Len(out) = 0 /\ Taken = Len(up) /\ Len(sizes) = Taken + 1
    BY <1>b, <1>c, <2>2 DEF Taken
  <2>4. out = <<>>
    BY <1>c, <2>3, EmptySeq
  <2>5. out' = <<[ptr |-> 6, n |-> n, down |-> FALSE]>>
    BY <2>2, <2>4
  <2>6. len = 6 + n
    <3>1. PICK at \in [Begins -> Nat] : Layout(at)
      BY <2>2 DEF FrameInv
    <3>2. Taken + 1 \in (Taken + 1) .. Len(sizes) /\ Taken + 1 + 1 = Len(sizes) + 1
      BY <1>c, <2>3
    <3>3. at[Taken + 1] = 0 /\ at[(Taken + 1) + 1] = at[Taken + 1] + 6 + n
      BY <2>1, <3>1, <3>2 DEF Layout
    <3>4. at[(Taken + 1) + 1] = Unparsed
      BY <2>3, <3>1 DEF Layout
    <3>5. len \in Nat /\ Len(wire) \in Nat
      BY DEF TypeInv
    <3> QED
      BY <2>1, <2>2, <3>3, <3>4, <3>5 DEF Unparsed
  <2>7. sizes' = sizes /\ up' = up
    BY <1>4 DEF ParseFrame
  <2>8. At(Head(out))' = Sent(Len(up) + 1)'
    <3>1. Head(out)' = [ptr |-> 6, n |-> n, down |-> FALSE]
      BY <2>5
    <3>2. At(Head(out))' = [i \in 1 .. n |-> mem'[6 + i - 1]]
      BY <3>1 DEF At
    <3>3. Sent(Len(up) + 1)'
            = [i \in 1 .. n |-> Byte(Len(up) + 1, 6 + i, 0, FALSE)]
      BY <2>1, <2>3, <2>7 DEF Sent, Payload
    <3>4. ASSUME NEW i \in 1 .. n
          PROVE  mem'[6 + i - 1] = Byte(Len(up) + 1, 6 + i, 0, FALSE)
      <4>1. 6 + i - 1 = 5 + i
        BY <2>1
      <4> QED
        BY <2>2, <2>3, <2>6, <4>1
    <3> QED
      BY <3>2, <3>3, <3>4
  <2> QED
    BY <1>b, <2>7, <2>8 DEF WaitInv
<1>5. CASE Deliver
  <2>0. sizes' = sizes
    BY <1>5 DEF Deliver
  <2>1. CASE replied
    <3>1. /\ Len(up') = Len(up) + 1 /\ Len(out') = Len(out) - 1
          /\ out' \in Seq(Messages)
      BY <1>5, <2>1, DeliverFacts
    <3>2. Len(out) <= 1
      BY <1>b, <1>c, <2>1 DEF OutInv, Taken
    <3>3. out' = <<>>
      <4>1. Len(out') \in Nat
        BY <3>1
      <4>2. Len(out') = 0
        BY <1>c, <3>1, <3>2, <4>1
      <4> QED
        BY <3>1, <4>2, EmptySeq
    <3> QED
      BY <1>b, <1>c, <2>0, <3>1, <3>3 DEF WaitInv
  <2>2. CASE ~replied
    <3>1. sizes = <<>> /\ up' = <<>> /\ out' = <<>>
      BY <1>5, <2>2, DeliverFacts
    <3>2. Len(sizes') = 0 /\ Len(up') = 0
      BY <2>0, <3>1
    <3> QED
      BY <3>1, <3>2 DEF WaitInv
  <2> QED
    BY <2>1, <2>2
<1>6. CASE ParseDone \/ Delivered \/ UNCHANGED vars
  <2>1. /\ mem' = mem /\ sizes' = sizes /\ up' = up /\ out' = out
        /\ replied' = replied /\ waits' = waits
    BY <1>6 DEF ParseDone, Delivered, vars
  <2> QED
    BY <1>b, <2>1 DEF WaitInv, At, Sent
<1> QED
  BY <1>1, <1>2, <1>3, <1>4, <1>5, <1>6 DEF Next, Reader

LEMMA IntactStep ==
  ASSUME WsInv, [Next]_vars
  PROVE  Intact'
<1>0. TypeInv /\ WaitInv /\ Intact
  BY DEF WsInv
<1>1. /\ waits' = waits
      /\ \A j \in 1 .. Len(up) : up'[j] = up[j] /\ sizes'[j] = sizes[j]
      /\ \/ up' = up
         \/ /\ Len(up') = Len(up) + 1 /\ sizes' = sizes
            /\ replied /\ out # <<>> /\ up'[Len(up) + 1] = At(Head(out))
  BY DeliveredKept
<1>2. Len(up) \in Nat
  BY <1>0 DEF TypeInv
<1> SUFFICES ASSUME waits', NEW j \in 1 .. Len(up')
             PROVE  up'[j] = Payload(j, sizes'[j])
  BY DEF Intact, Sent
<1>3. CASE j \in 1 .. Len(up)
  BY <1>0, <1>1, <1>3 DEF Intact, Sent
<1>4. CASE j \notin 1 .. Len(up)
  <2>1. j = Len(up) + 1 /\ up' # up
    BY <1>1, <1>2, <1>4
  <2> QED
    BY <1>0, <1>1, <2>1 DEF WaitInv, Sent
<1> QED
  BY <1>3, <1>4

-----------------------------------------------------------------------------
LEMMA InitInv == Init => WsInv
<1> SUFFICES ASSUME Init PROVE WsInv
  OBVIOUS
<1>1. /\ sizes = <<>> /\ wire = Handshake /\ len = 0 /\ out = <<>> /\ up = <<>>
      /\ ~established /\ ~replied /\ pc = "read"
      /\ mem = [p \in 0 .. Capacity |-> NUL]
      /\ waits \in Manners /\ asksUpgrade \in BOOLEAN
  BY DEF Init
<1>2. TypeInv
  <2>1. mem \in [0 .. Capacity -> Bytes]
    BY <1>1, NULType
  <2>2. waits \in BOOLEAN /\ MaxFrames \in Nat
    BY <1>1, ParserAssumption
  <2>3. established \in BOOLEAN /\ replied \in BOOLEAN
    BY DEF Init
  <2> QED
    BY <1>1, <2>1, <2>2, <2>3, HandshakeFacts DEF TypeInv
<1>3. Unparsed = 2
  BY <1>1, HandshakeFacts DEF Unparsed
<1>4. RoomInv
  <2>1. Len(sizes) = 0 /\ 0 * Longest = 0
    BY <1>1, LongestFacts
  <2> QED
    BY <1>3, <2>1 DEF RoomInv, HandshakeLen
<1>5. HandshakeInv
  <2>1. \A p \in 0 .. 1 : Stock(p) = Handshake[p + 1]
    BY <1>1 DEF Stock
  <2> QED
    BY <1>1, <1>3, <2>1 DEF HandshakeInv, HandshakeLen
<1>6. OutInv /\ FrameInv
  BY <1>1 DEF OutInv, FrameInv
<1>7. SizesInv /\ WaitInv /\ Intact
  <2>1. Len(up) = 0 /\ Len(sizes) = 0
    BY <1>1
  <2> QED
    BY <1>1, <2>1 DEF SizesInv, WaitInv, Intact
<1> QED
  BY <1>2, <1>4, <1>5, <1>6, <1>7 DEF WsInv

LEMMA StepInv == WsInv /\ [Next]_vars => WsInv'
<1> SUFFICES ASSUME WsInv, [Next]_vars PROVE WsInv'
  OBVIOUS
<1> QED
  BY TypeStep, RoomStep, HandshakeStep, OutStep, FrameStep, SizesStep, WaitStep,
     IntactStep DEF WsInv

\* The parser's state and its memory are of their types, and no step reaches
\* past that memory (parseDownstreamMessage).
THEOREM ParserIsSound == Spec => []WsInv
<1>1. Init => WsInv
  BY InitInv
<1>2. WsInv /\ [Next]_vars => WsInv'
  BY StepInv
<1> QED
  BY <1>1, <1>2, PTL DEF Spec

\* The level above is given messages of the sizes the browser has sent, however
\* the bytes were cut (parseDownstreamMessage's erase and append).
THEOREM FramesKeepTheirSizes == Spec => []SizesKept
<1>1. WsInv => SizesKept
  <2> SUFFICES ASSUME WsInv PROVE SizesKept
    OBVIOUS
  <2>1. TypeInv /\ HandshakeInv /\ OutInv /\ SizesInv
    BY DEF WsInv
  <2>2. Len(up) <= Len(sizes)
    BY <2>1, UpWithin
  <2> QED
    BY <2>1, <2>2 DEF SizesKept, SizesInv
<1> QED
  BY <1>1, ParserIsSound, PTL

\* The messages of a browser that waits for its answers come unchanged, although
\* what they point to has been erased (genericSocketInterface.cc:340 to 347).
THEOREM WaitingIsIntact == Spec => []Intact
<1>1. WsInv => Intact
  BY DEF WsInv
<1> QED
  BY <1>1, ParserIsSound, PTL

LEMMA LookedAt == TypeInv => Looked \subseteq Lengths
<1> SUFFICES ASSUME TypeInv PROVE Looked \subseteq Lengths
  OBVIOUS
<1>1. Samples \subseteq Lengths
  BY ParserAssumption
<1>2. \A j \in 1 .. Len(sizes) : sizes[j] \in 0 .. 125
  BY Counts
<1>3. \A j \in 1 .. Len(sizes) : sizes[j] \in Lengths
  <2>1. \A n \in 0 .. 125 : n \in Lengths
    <3>1. MaxLength \in Int /\ 125 <= MaxLength
      BY SMT DEF MaxLength
    <3> QED
      BY SMT, <3>1 DEF Lengths
  <2> QED
    BY <1>2, <2>1
<1>4. DOMAIN sizes = 1 .. Len(sizes)
  BY DEF TypeInv
<1> QED
  BY <1>1, <1>3, <1>4 DEF Looked, Range

\* The length of every payload there is, and of every one looked at, but 65535,
\* reaches a browser (parseUpstreamMessage).
THEOREM UpstreamIsKept == Spec => []UpstreamLength
<1>1. WsInv => UpstreamLength
  BY LookedAt, UpstreamLengths DEF WsInv, UpstreamLength
<1> QED
  BY <1>1, ParserIsSound, PTL

\* The length of every frame there is, and of every one looked at, is read as
\* the browser meant it (parseDownstreamMessage).
THEOREM DownstreamIsRead == Spec => []DownstreamLength
<1>1. WsInv => DownstreamLength
  BY LookedAt, DownstreamLengths DEF WsInv, DownstreamLength
<1> QED
  BY <1>1, ParserIsSound, PTL
=============================================================================
