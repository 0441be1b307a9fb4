-------------------------- MODULE MCRxDistribution --------------------------
(***************************************************************************)
(* Two data sockets, of one type or of two.                                *)
(***************************************************************************)
EXTENDS RxDistribution

CONSTANTS a, b, int16
=============================================================================
