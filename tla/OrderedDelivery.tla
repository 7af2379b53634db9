-------------------------- MODULE OrderedDelivery --------------------------
(***************************************************************************)
(* What forge-bfcp's UdpPeer promises of the messages a floor server       *)
(* starts: the client hears them in the order they were handed over, each  *)
(* once and without a gap, until the connection is given up.               *)
(***************************************************************************)
EXTENDS Naturals

VARIABLES given,    \* how many messages have been handed over
          heard,    \* how many the client has heard: always the oldest ones
          closed

Give == ~ closed /\ given' = given + 1 /\ UNCHANGED <<heard, closed>>
Hear == heard < given /\ heard' = heard + 1 /\ UNCHANGED <<given, closed>>
Close == ~ closed /\ closed' = TRUE /\ UNCHANGED <<given, heard>>

DeliverySpec == /\ given = 0 /\ heard = 0 /\ closed = FALSE
                /\ [][Give \/ Hear \/ Close]_<<given, heard, closed>>
=============================================================================
