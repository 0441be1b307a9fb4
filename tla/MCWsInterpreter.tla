-------------------------- MODULE MCWsInterpreter --------------------------
(***************************************************************************)
(* Web socket frames of no, one or four bytes of payload, read in pieces   *)
(* of any size; and the lengths at which a header changes its form.        *)
(***************************************************************************)
EXTENDS WsInterpreter

Boundaries ==
  {0, 1, 124, 125, 126, 127, 128, 255, 256, 257, 65534, 65535, 65536, 65537,
   16777215, 16777216, 2147483637}
=============================================================================
