--------------------------- MODULE CommandSession ---------------------------
(***************************************************************************)
(* What each browser is promised of its session with the command server:   *)
(* the script that connects it is answered command by command, an answer is*)
(* that of the command asked last, at most one command is under way, and   *)
(* of what its user picks meanwhile the last of each parameter is sent, in *)
(* some order.  Once a browser has left, a command of another may be lost, *)
(* and then that session gets no further; nor does any once the server has *)
(* ended.                                                                  *)
(*                                                                         *)
(* CommandSystem implements it (src/www/portalCMD.js and                   *)
(* portalCommandSocket.cc together).                                       *)
(***************************************************************************)
CONSTANTS
  Clients,  \* browsers
  Picks     \* what a user picks: [op, arg]

VARIABLES
  stage,   \* where each browser is
  sent,    \* its command under way, or "none"
  answer,  \* to that: "none", "due", "given" or "lost"
  todo,    \* picks that have not been sent, one of each parameter
  up       \* the server runs

sessionVars == <<stage, sent, answer, todo, up>>

\* The script, and what is sent on reaching each stage of it.
Follows == [INIT |-> "OPEN", OPEN |-> "RXRATE", RXRATE |-> "RXFREQ",
            RXFREQ |-> "RXGAIN", RXGAIN |-> "CONNECTED"]
Sends == [OPEN |-> "NEWCHANNEL", RXRATE |-> "RXRATE", RXFREQ |-> "RXFREQ",
          RXGAIN |-> "RXGAIN", CONNECTED |-> "RXCHANNEL"]

Init ==
  /\ stage = [c \in Clients |-> "INIT"]
  /\ sent = [c \in Clients |-> "none"]
  /\ answer = [c \in Clients |-> "none"]
  /\ todo = [c \in Clients |-> {}]
  /\ up = TRUE

At(c, s, a) == stage[c] = s /\ answer[c] = a

\* The session of c is at stage s, with op under way and its answer as a says.
Becomes(c, s, op, a) ==
  /\ stage' = [stage EXCEPT ![c] = s]
  /\ sent' = [sent EXCEPT ![c] = op]
  /\ answer' = [answer EXCEPT ![c] = a]

Open(c) ==
  /\ At(c, "INIT", "none")
  /\ Becomes(c, "OPEN", Sends["OPEN"], "due")
  /\ UNCHANGED todo

Script(c) ==
  /\ \E s \in DOMAIN Follows \ {"INIT"} :
       At(c, s, "given") /\ Becomes(c, Follows[s], Sends[Follows[s]], "due")
  /\ UNCHANGED todo

Connected(c) ==
  At(c, "CONNECTED", "given") /\ Becomes(c, "IDLE", "none", "none") /\ UNCHANGED todo

Pick(c, p) ==
  \/ /\ At(c, "IDLE", "none")
     /\ Becomes(c, "COMMANDING", p.op, "due")
     /\ UNCHANGED todo
  \/ /\ stage[c] = "COMMANDING"
     /\ todo' = [todo EXCEPT ![c] = {e \in @ : e.op # p.op} \cup {p}]
     /\ UNCHANGED <<stage, sent, answer>>

Reply(c) ==
  /\ At(c, "COMMANDING", "given")
  /\ \/ todo[c] = {} /\ Becomes(c, "IDLE", "none", "none") /\ UNCHANGED todo
     \/ \E e \in todo[c] :
          /\ Becomes(c, "COMMANDING", e.op, "due")
          /\ todo' = [todo EXCEPT ![c] = @ \ {e}]

Serve(c) ==
  /\ up /\ answer[c] = "due"
  /\ Becomes(c, stage[c], sent[c], "given")
  /\ UNCHANGED todo

Lose(c) ==
  /\ up /\ answer[c] = "due"
  /\ \E d \in Clients : stage[d] = "CLOSED"
  /\ Becomes(c, stage[c], "none", "lost")
  /\ UNCHANGED todo

Leave(c) ==
  /\ stage[c] \notin {"INIT", "CLOSED"}
  /\ Becomes(c, "CLOSED", "none", "none")
  /\ todo' = [todo EXCEPT ![c] = {}]

\* The server ends, with every answer left as it is.
End == up /\ up' = FALSE /\ UNCHANGED <<stage, sent, answer, todo>>

Next ==
  \/ \E c \in Clients :
       /\ \/ Open(c) \/ Script(c) \/ Connected(c) \/ Reply(c) \/ Leave(c)
          \/ Serve(c) \/ Lose(c)
          \/ \E p \in Picks : Pick(c, p)
       /\ UNCHANGED up
  \/ End

\* A command is answered or lost in the end, unless the server ends, and an
\* answer is taken.
\* Stated by states rather than by WF of Progress: the mapping of CommandSystem
\* is not of variables to variables, and ENABLED does not go through it.
Goes(c) ==
  /\ []<>(answer[c] # "due" \/ ~up)
  /\ []<>(answer[c] # "given")

Safety == Init /\ [][Next]_sessionVars
Spec == Safety /\ \A c \in Clients : Goes(c)
=============================================================================
