-------------------------- MODULE MCCommandServer --------------------------
(***************************************************************************)
(* The command side as the daemons open it: a TCP command socket and a web *)
(* socket, with a client each.                                             *)
(***************************************************************************)
EXTENDS CommandServer, TLC

CONSTANTS a, b, tcp, ws

\* The two connections may change places, with their sockets.
Swapped == (a :> b) @@ (b :> a) @@ (tcp :> ws) @@ (ws :> tcp)
Same == (a :> a) @@ (b :> b) @@ (tcp :> tcp) @@ (ws :> ws)
Symmetry == {Same, Swapped}
OneEach == [c \in {a, b} |-> IF c = a THEN tcp ELSE ws]

Cmd(op, arg) == [op |-> op, arg |-> arg]
Line(op, arg) == <<[cmd |-> Cmd(op, arg), part |-> "whole"]>>

NewLine == Line("NEWCHANNEL", 0)
Half == <<[cmd |-> Cmd("RXFREQ", 1), part |-> "head"]>>

Two == NewLine \o Line("CHANNEL", 0)

\* One command a message, on channels, the device and profiles; half a line, and
\* two lines in one message.
Lines ==
  {NewLine, Line("RXCHANNEL", 0), Line("TXCHANNEL", 0), Line("DATATYPE", 1),
   Line("RXFREQ", 1), Line("TXFREQ", 2), Line("SDR_DISCONNECT", 0),
   Line("SDR_CONNECT", 0), Line("LOAD_PROFILE", 1), Line("UNLOAD_PROFILE", 0),
   Half, Two}
=============================================================================
