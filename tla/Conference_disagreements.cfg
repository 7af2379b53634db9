SPECIFICATION RoomSpec
CONSTANTS
    Callers = {m1, g1}
    Moderators = {m1}
    Trunk = trunk
    Feedback = feedback
    Capacities = {0}
    Overlap = TRUE
PROPERTY EndEmptiesRoom
INVARIANTS VideoFollows GuestsModerated
CHECK_DEADLOCK FALSE
