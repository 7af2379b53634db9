SPECIFICATION SrtpSpec
CONSTANTS
    SeqSpace = 6
    RocSpace = 4
    WindowSize = 2
    Sent = 4
    InFlight = 3
    Late = 1
INVARIANT IndexIsPlace
CHECK_DEADLOCK FALSE
