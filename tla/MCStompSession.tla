---------------------------- MODULE MCStompSession ----------------------------
(***************************************************************************)
(* Instances of StompSession for TLC.  Commands, names and texts are       *)
(* numbers from 100; a body may hold newlines, colons and, where it has a  *)
(* length, zeros.                                                          *)
(***************************************************************************)
EXTENDS StompSession

AllModes == {"message", "bomber", "subscriber"}

LoginWithoutHeaders ==
    [command |-> 100, headers |-> <<>>, body |-> <<>>, body_length |-> 0]
\* Two frames for the write queue, of different length.
SendTwo ==
    <<[command |-> 101, headers |-> <<[key |-> 110, value |-> <<120>>]>>,
       body |-> <<130, NewLine>>, body_length |-> 2],
      [command |-> 101, headers |-> <<[key |-> 110, value |-> <<120>>]>>,
       body |-> <<131>>, body_length |-> 1]>>
Subscription ==
    [command |-> 102, headers |-> <<[key |-> 110, value |-> <<120, Colon, 121>>]>>,
     body |-> <<>>, body_length |-> 0]
\* The broker's answers: without a length, as brokers of STOMP 1.0 may send them.
Connected == [command |-> 103, headers |-> <<>>, body |-> <<>>, body_length |-> -1]
Error ==
    [command |-> 104, headers |-> <<[key |-> 111, value |-> <<122>>]>>,
     body |-> <<132, NewLine>>, body_length |-> -1]
\* A message with a length and a zero in its body, and one without a length.
TwoMessages ==
    <<[command |-> 105, headers |-> <<[key |-> 110, value |-> <<120>>]>>,
       body |-> <<133, Zero, Colon>>, body_length |-> 3],
      [command |-> 105, headers |-> <<[key |-> 110, value |-> <<120>>]>>,
       body |-> <<134, NewLine, NewLine>>, body_length |-> -1]>>

ZeroOnly == <<Zero>>

\* What the theorems assume holds here.
ASSUME FramesCanBeRead == AllWellFormed /\ OneLogin /\ BrokerEndsWithZero
=============================================================================
