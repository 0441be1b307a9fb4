-------------------------- MODULE MCCommandSystem --------------------------
(***************************************************************************)
(* One browser, or two, on the web socket of the command server.           *)
(***************************************************************************)
EXTENDS CommandSystem

CONSTANTS a, b, ws

AllOnWS == [c \in Clients |-> ws]

\* cur_channel before the first channel: the number of one, or of none.
AnyHeap == {-1, 0}

Tunings == {Cmd("RXFREQ", 2), Cmd("RXFREQ", 1)}
=============================================================================
