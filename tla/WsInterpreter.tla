---------------------------- MODULE WsInterpreter ----------------------------
(***************************************************************************)
(* One wsSocketInterpreter with the reader thread of its connection        *)
(* (genericSocketInterface.cc: parseDownstreamMessage, socketReader) and   *)
(* the browser at the other end.                                           *)
(*                                                                         *)
(* TCP keeps bytes and their order, not messages: a read returns any number*)
(* of the bytes under way.  The parser collects them in a string, and the  *)
(* messages it returns are pointers into that string's memory, which it has*)
(* changed by the time the reader follows them.                            *)
(*                                                                         *)
(* A byte is known by the frame it belongs to, its place there and whether *)
(* it still has its mask; b is its value where the parser looks at it.     *)
(* Frame 0 is the browser's handshake.                                     *)
(***************************************************************************)
EXTENDS WsFrame, FiniteSetsExt, SequencesExt

CONSTANTS
  Sizes,       \* payload sizes of the browser's frames, all below 126
  Samples,     \* payload lengths the properties of WsFrame are looked at for
  Manners,     \* whether the browser waits for its answers, or may not
  MaxFrames,   \* bound: frames the browser sends
  MaxRead      \* sizeof(buffer) of socketReader

ASSUME ParserAssumption ==
  /\ Sizes \subseteq 0 .. 125 /\ Sizes # {}
  /\ Samples \subseteq Lengths
  /\ Manners \subseteq BOOLEAN
  /\ MaxFrames \in Nat /\ MaxRead \in Nat \ {0}

HandshakeLen == 2      \* bytes that stand for the lines of the handshake
Longest == 6 + Max(Sizes)
Capacity == HandshakeLen + MaxFrames * Longest + 1

VARIABLES
  waits,        \* the browser sends a frame only when the last was delivered
  asksUpgrade,  \* the request of the browser says "Upgrade:"
  sizes,        \* payload sizes of the frames it has sent
  wire,         \* bytes under way
  mem,          \* the memory behind message_parser
  len,          \* message_parser.length()
  established,  \* connection_established
  pc,           \* "read", "parse" or "deliver"
  out,          \* out_messages: pointers into mem, or the handshake reply
  replied,      \* the browser has the reply to its handshake
  up            \* what the level above was given

clientVars == <<waits, asksUpgrade, sizes>>
parserVars == <<mem, len, established, out>>
vars == <<waits, asksUpgrade, sizes, wire, mem, len, established, pc, out,
          replied, up>>

Byte(f, i, b, masked) == [f |-> f, i |-> i, b |-> b, masked |-> masked]
NUL == Byte(-1, 0, 0, FALSE)
Handshake == [i \in 1 .. HandshakeLen |-> Byte(0, i, 0, FALSE)]

\* Header, mask and payload of frame f.
FrameBytes(f, n) ==
  [i \in 1 .. (6 + n) |->
    Byte(f, i, IF i <= 2 THEN BrowserWrites(n)[i] ELSE 0, i > 6)]
Payload(f, n) == [i \in 1 .. n |-> Byte(f, 6 + i, 0, FALSE)]

Init ==
  /\ waits \in Manners
  /\ asksUpgrade \in BOOLEAN
  /\ sizes = <<>>
  /\ wire = Handshake
  /\ mem = [p \in 0 .. Capacity |-> NUL]
  /\ len = 0
  /\ established = FALSE
  /\ pc = "read"
  /\ out = <<>>
  /\ replied = FALSE
  /\ up = <<>>

-----------------------------------------------------------------------------
\* The browser sends its next frame, after the reply to its handshake.
BrowserSend ==
  /\ replied
  /\ Len(sizes) < MaxFrames
  /\ waits => Len(up) = Len(sizes)
  /\ \E n \in Sizes :
       /\ sizes' = Append(sizes, n)
       /\ wire' = wire \o FrameBytes(Len(sizes) + 1, n)
  /\ UNCHANGED <<waits, asksUpgrade, parserVars, pc, replied, up>>

\* read() and message_parser.append().
Read ==
  /\ pc = "read"
  /\ \E n \in 1 .. MaxRead :
       /\ n <= Len(wire)
       /\ wire' = SubSeq(wire, n + 1, Len(wire))
       /\ mem' = [p \in DOMAIN mem |->
                   IF p \in len .. (len + n - 1) THEN wire[p - len + 1]
                   ELSE IF p = len + n THEN NUL ELSE mem[p]]
       /\ len' = len + n
  /\ pc' = "parse"
  /\ UNCHANGED <<clientVars, established, out, replied, up>>

\* m.erase(0, k): what is left moves to the front, with its terminating NUL;
\* the bytes behind that stay what they were.
Erased(m, k) == [p \in DOMAIN m |-> IF p < len - k THEN m[p + k]
                                    ELSE IF p = len - k THEN NUL ELSE m[p]]

HandshakeHere ==
  \E p \in 0 .. (len - 1) : mem[p].f = 0 /\ mem[p].i = HandshakeLen

\* A request that does not ask for a web socket is dropped and not answered.
ParseHandshake ==
  /\ pc = "parse"
  /\ ~established /\ HandshakeHere
  /\ mem' = Erased(mem, HandshakeLen)
  /\ len' = len - HandshakeLen
  /\ established' = asksUpgrade
  /\ out' = IF asksUpgrade
            THEN Append(out, [ptr |-> 0, n |-> 0, down |-> TRUE]) ELSE out
  /\ UNCHANGED <<clientVars, wire, pc, replied, up>>

\* Mutant: an empty frame is taken for a piece of one.
MoreThanHeader_6 == len > 6

MoreThanHeader == len > 2

Header == [i \in 1 .. 14 |-> mem[i - 1].b]
Start == message_start_idx(Header)

Complete == MoreThanHeader /\ len >= Start + payload_len(Header)

Unmask(m) == [p \in DOMAIN m |->
               IF p \in Start .. (Start + payload_len(Header) - 1)
               THEN [m[p] EXCEPT !.masked = ~@] ELSE m[p]]

\* Mutant: what is there of a frame is unmasked before the rest has arrived.
ParseDone_Unmasks ==
  /\ pc = "parse"
  /\ IF established THEN ~Complete ELSE ~HandshakeHere
  /\ pc' = "deliver"
  /\ mem' = IF established /\ MoreThanHeader THEN Unmask(mem) ELSE mem
  /\ UNCHANGED <<clientVars, wire, len, established, out, replied, up>>

\* Mutant: the message ends where the frame ends, counted from the payload.
ParseFrame_WholeFrame ==
  /\ pc = "parse"
  /\ established /\ Complete
  /\ out' = Append(out, [ptr |-> Start, n |-> Start + payload_len(Header),
                         down |-> FALSE])
  /\ mem' = Erased(Unmask(mem), Start + payload_len(Header))
  /\ len' = len - (Start + payload_len(Header))
  /\ UNCHANGED <<clientVars, wire, established, pc, replied, up>>

\* The frame at the front: unmasked where it is, pointed to, and erased.
ParseFrame ==
  /\ pc = "parse"
  /\ established /\ Complete
  /\ out' = Append(out, [ptr |-> Start, n |-> payload_len(Header),
                         down |-> FALSE])
  /\ mem' = Erased(Unmask(mem), Start + payload_len(Header))
  /\ len' = len - (Start + payload_len(Header))
  /\ UNCHANGED <<clientVars, wire, established, pc, replied, up>>

ParseDone ==
  /\ pc = "parse"
  /\ IF established THEN ~Complete ELSE ~HandshakeHere
  /\ pc' = "deliver"
  /\ UNCHANGED <<clientVars, wire, mem, len, established, out, replied, up>>

At(o) == [i \in 1 .. o.n |-> mem[o.ptr + i - 1]]

\* socketReader: the reply goes out, the messages go to the level above.
Deliver ==
  /\ pc = "deliver"
  /\ out # <<>>
  /\ IF Head(out).down
     THEN replied' = TRUE /\ UNCHANGED up
     ELSE up' = Append(up, At(Head(out))) /\ UNCHANGED replied
  /\ out' = Tail(out)
  /\ UNCHANGED <<clientVars, wire, mem, len, established, pc>>

Delivered ==
  /\ pc = "deliver"
  /\ out = <<>>
  /\ pc' = "read"
  /\ UNCHANGED <<clientVars, wire, parserVars, replied, up>>

Reader ==
  Read \/ ParseHandshake \/ ParseFrame \/ ParseDone \/ Deliver \/ Delivered

\* Nothing is under way, and the browser need not send more.
Finished == wire = <<>> /\ pc = "read"

Next ==
  \/ BrowserSend
  \/ Reader
  \/ Finished /\ UNCHANGED vars

Spec == Init /\ [][Next]_vars

\* The reader thread runs on; the browser need not send anything.
FairSpec == Spec /\ WF_vars(Reader)

-----------------------------------------------------------------------------
(***************************************************************************)
(* Properties.                                                             *)
(***************************************************************************)
Sent(j) == Payload(j, sizes[j])

\* What the level above is given is what the browser has sent, byte for byte,
\* in whatever pieces it came, if the browser waits for its answers (as
\* portalCMD.js does: CommandSystem, Sessions).
Intact == waits => \A j \in 1 .. Len(up) : up[j] = Sent(j)

\* "If so, then let's extract the message...": so it is with every browser.
IntactAlways == \A j \in 1 .. Len(up) : up[j] = Sent(j)

\* Of every browser, the messages have the right sizes, and none is made up:
\* a frame is neither split nor joined with another.
SizesKept ==
  /\ Len(up) <= Len(sizes)
  /\ \A j \in 1 .. Len(up) : Len(up[j]) = sizes[j]

\* A web socket message gets to the level above, also an empty one, and a
\* frame is never waited for that has arrived.
EverythingArrives ==
  \A j \in 1 .. MaxFrames : Len(sizes) = j ~> Len(up) >= j

\* All lengths but one reach the browser: 65535 is neither short nor long for
\* ml_16 and ml_64.
Looked == Samples \cup Range(sizes)
UpstreamLength == \A n \in Looked \ {65535} : LengthKept(n)

\* The length and the start of the payload are read as the browser meant them,
\* at each of the boundaries between the three forms of the header.
DownstreamLength == \A n \in Looked : LengthRead(n)
=============================================================================
