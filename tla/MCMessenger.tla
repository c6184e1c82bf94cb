----------------------------- MODULE MCMessenger -----------------------------
(***************************************************************************)
(* Instances of Messenger for TLC.  With a StepSize of 2, a list of four   *)
(* entries makes two frames.  A message's length is that of its text: the  *)
(* zero behind it comes to it.                                             *)
(***************************************************************************)
EXTENDS Messenger

NoPackets == <<>>
\* A list, and a message.
ListAndMessage == <<[id |-> "nodelist", length |-> 4], [id |-> "message", length |-> 1]>>
\* A message, longer than a report.
LongMessage == <<[id |-> "message", length |-> 2]>>

NoCommands == <<>>
\* Messages for two nodes, and a list whose second address is too large.
MessagesAndList == <<[uid |-> <<1, 2>>, data |-> <<<<5>>, <<6>>>>, cmd |-> NoCmd],
                     [uid |-> <<9>>, data |-> <<<<1, 2>>>>, cmd |-> "add_to_whitelist"]>>
=============================================================================
