----------------------------- MODULE MC_Control -----------------------------
(* The parts that control calls and conferences and share no state, in one *)
(* run: in a behaviour one of them moves.  No part's fair actions are      *)
(* enabled before it moves, so the fairness of one asks nothing of the     *)
(* others.                                                                 *)
EXTENDS FloorServer, FloorTransport, VideoFloor, Supervision, AISessions,
        SessionRecovery

VARIABLE part

Parts == {"server", "transport", "floor", "supervision", "ai", "takeover"}

\* Of a part that does not move, one initial state will do.
Init ==
    /\ part \in Parts
    /\ ServerInit /\ TransportInit /\ FloorInit
    /\ SupervisionInit
    /\ part # "supervision" => elsewhere = {} /\ \A b \in Announcements : audio[b] = "once"
    /\ AIInit /\ TakeoverInit

Next ==
    /\ UNCHANGED part
    /\ \/ /\ part = "server" /\ ServerNext
          /\ UNCHANGED <<transportVars, floorVars, supervisionVars, aiVars, takeoverVars>>
       \/ /\ part = "transport" /\ TransportNext
          /\ UNCHANGED <<serverVars, floorVars, supervisionVars, aiVars, takeoverVars>>
       \/ /\ part = "floor" /\ FloorNext
          /\ UNCHANGED <<serverVars, transportVars, supervisionVars, aiVars, takeoverVars>>
       \/ /\ part = "supervision" /\ SupervisionNext
          /\ UNCHANGED <<serverVars, transportVars, floorVars, aiVars, takeoverVars>>
       \/ /\ part = "ai" /\ AINext
          /\ UNCHANGED <<serverVars, transportVars, floorVars, supervisionVars, takeoverVars>>
       \/ /\ part = "takeover" /\ TakeoverNext
          /\ UNCHANGED <<serverVars, transportVars, floorVars, supervisionVars, aiVars>>

Spec == /\ Init
        /\ [][Next]_<<part, serverVars, transportVars, floorVars, supervisionVars, aiVars,
                   takeoverVars>>
        /\ WF_transportVars(Tick) /\ FloorFairness /\ SupervisionFairness /\ AIFairness
        /\ TakeoverFairness
=============================================================================
