------------------------------ MODULE WsFrame ------------------------------
(***************************************************************************)
(* The lengths in web socket frames: what parseUpstreamMessage writes for a*)
(* browser to read and what parseDownstreamMessage reads of what a browser *)
(* has written (genericSocketInterface.cc).  A header is a sequence of     *)
(* bytes; the four bytes of a browser's mask are not part of it here.      *)
(***************************************************************************)
EXTENDS Integers, Sequences

\* num_bytes, payload_len and message_length are ints.
MaxLength == 2147483637
Lengths == 0 .. MaxLength

High(n) == (n \div 256) % 256
Low(n) == n % 256

-----------------------------------------------------------------------------
\* Mutant: one more of the lengths that fit in 16 bits is taken for short.
ml_16_AtMost126(n) == n > 126 /\ n < 65535

ml_16(n) == n > 125 /\ n < 65535
ml_64(n) == n > 65535

\* Mutant: the length is copied in the order of the host.
Upstream_HostOrder(n) ==
  CASE ml_16(n) -> <<129, 126, Low(n), High(n)>>
    [] ml_64(n) -> <<129, 127, 0, 0, 0, 0, (n \div 16777216) % 256,
                     (n \div 65536) % 256, High(n), Low(n)>>
    [] OTHER    -> <<129, Low(n)>>

\* The header of a frame to a browser; (char)num_bytes keeps eight bits.
Upstream(n) ==
  CASE ml_16(n) -> <<129, 126, High(n), Low(n)>>
    [] ml_64(n) -> <<129, 127, 0, 0, 0, 0, (n \div 16777216) % 256,
                     (n \div 65536) % 256, High(n), Low(n)>>
    [] OTHER    -> <<129, Low(n)>>

\* The bytes allocated for the frame.
message_length(n) ==
  n + 2 + (IF ml_16(n) THEN 2 ELSE IF ml_64(n) THEN 8 ELSE 0)

\* What a browser makes of a header (RFC 6455): one that says it is masked, or
\* is not as long as it says, or is for more than 32 bits, is no header.
Refused == -1
BrowserReads(h) ==
  CASE h[2] < 126 /\ Len(h) = 2  -> h[2]
    [] h[2] = 126 /\ Len(h) = 4  -> h[3] * 256 + h[4]
    [] /\ h[2] = 127 /\ Len(h) = 10
       /\ h[3] = 0 /\ h[4] = 0 /\ h[5] = 0 /\ h[6] = 0
         -> h[7] * 16777216 + h[8] * 65536 + h[9] * 256 + h[10]
    [] OTHER -> Refused

-----------------------------------------------------------------------------
\* The header of a frame of a browser, masked, with the shortest length there
\* is room in (RFC 6455).
BrowserWrites(n) ==
  CASE n < 126    -> <<130, 128 + n>>
    [] n > 125 /\ n < 65536 -> <<130, 254, High(n), Low(n)>>
    [] OTHER      -> <<130, 255, 0, 0, 0, 0, (n \div 16777216) % 256,
                       (n \div 65536) % 256, High(n), Low(n)>>

\* Mutant: the 64-bit length is read from its first four bytes.
payload_len_HighWord(h) ==
  LET l == h[2] % 128 IN
  CASE l = 126 -> h[3] * 256 + h[4]
    [] l = 127 -> h[3] * 16777216 + h[4] * 65536 + h[5] * 256 + h[6]
    [] OTHER   -> l

payload_len(h) ==
  LET l == h[2] % 128 IN
  CASE l = 126 -> h[3] * 256 + h[4]
    [] l = 127 -> h[7] * 16777216 + h[8] * 65536 + h[9] * 256 + h[10]
    [] OTHER   -> l

\* Where the payload begins: after the header and the mask.
message_start_idx(h) ==
  LET l == h[2] % 128 IN
  6 + (IF l = 126 THEN 2 ELSE IF l = 127 THEN 8 ELSE 0)

-----------------------------------------------------------------------------
(***************************************************************************)
(* Properties.                                                             *)
(***************************************************************************)

\* A browser reads the length that was written, and the frame was allocated
\* for the header and the payload (parseUpstreamMessage).
LengthKept(n) ==
  /\ BrowserReads(Upstream(n)) = n
  /\ message_length(n) = Len(Upstream(n)) + n

\* The server reads the length the browser has written, and looks for the
\* payload behind the header and the mask (parseDownstreamMessage).
LengthRead(n) ==
  /\ payload_len(BrowserWrites(n)) = n
  /\ message_start_idx(BrowserWrites(n)) = Len(BrowserWrites(n)) + 4
=============================================================================
