------------------------- MODULE MCSocketInterface -------------------------
(***************************************************************************)
(* Instances of SocketInterface for TLC.                                   *)
(***************************************************************************)
EXTENDS SocketInterface

TwoFds == {5, 6}
=============================================================================
