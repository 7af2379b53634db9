------------------------------ MODULE MC_Media ------------------------------
(* The parts of the media plane that share no state, in one run: in a      *)
(* behaviour one of them moves.                                            *)
EXTENDS PortPool, SrtpStream, IceTransport, Playout, Conference, VideoEncoders,
        SiprecClient, JitterBuffer, DtmfDigits, VideoSource

VARIABLE part

Parts == {"pool", "srtp", "ice", "playout", "room", "encoders", "siprec", "jitter", "dtmf",
          "video"}

\* Of a part that does not move, one initial state will do.
Init ==
    /\ part \in Parts
    /\ IF part = "pool" THEN PoolInit
       ELSE allocated = {} /\ available = SetToSortSeq(RtpPorts, LAMBDA p, q : p < q)
    /\ SrtpInit /\ (part # "srtp" => next = 0)
    /\ PlayoutInit /\ (part # "playout" => remote)
    /\ IceInit /\ RoomInit /\ EncodersInit /\ SiprecInit /\ JitterInit /\ DtmfInit
    /\ SourceInit /\ (part # "video" => \A f \in DOMAIN frames : frames[f] = "key")

\* What stands still while p moves.
Others(p) ==
    /\ UNCHANGED part
    /\ p # "pool" => UNCHANGED poolVars
    /\ p # "srtp" => UNCHANGED srtpVars
    /\ p # "ice" => UNCHANGED iceVars
    /\ p # "playout" => UNCHANGED playoutVars
    /\ p # "room" => UNCHANGED roomVars
    /\ p # "encoders" => UNCHANGED encoderVars
    /\ p # "siprec" => UNCHANGED siprecVars
    /\ p # "jitter" => UNCHANGED jitterVars
    /\ p # "dtmf" => UNCHANGED dtmfVars
    /\ p # "video" => UNCHANGED sourceVars

Next ==
    \/ part = "pool" /\ PoolNext /\ Others("pool")
    \/ part = "srtp" /\ SrtpNext /\ Others("srtp")
    \/ part = "ice" /\ IceNext /\ Others("ice")
    \/ part = "playout" /\ PlayoutNext /\ Others("playout")
    \/ part = "room" /\ RoomNext /\ Others("room")
    \/ part = "encoders" /\ EncodersNext /\ Others("encoders")
    \/ part = "siprec" /\ SiprecNext /\ Others("siprec")
    \/ part = "jitter" /\ JitterNext /\ Others("jitter")
    \/ part = "dtmf" /\ DtmfNext /\ Others("dtmf")
    \/ part = "video" /\ SourceNext /\ Others("video")

Spec == Init /\ [][Next]_<<part, poolVars, srtpVars, iceVars, playoutVars, roomVars, encoderVars,
                           siprecVars, jitterVars, dtmfVars, sourceVars>>
=============================================================================
