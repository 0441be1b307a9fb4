------------------------------ MODULE MCTxPath ------------------------------
(***************************************************************************)
(* Two data sockets, of one type or of two.                                *)
(***************************************************************************)
EXTENDS TxPath

CONSTANTS a, b, int8, uint8
=============================================================================
