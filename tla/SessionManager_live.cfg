CONSTANTS
    Pairs = {p1, p2}
    CallIds = {c1}
    Sess = {s1}
    Handlers = {h1, h2}
    Monitor = monitor
    None = none
    MinFree = 0
SPECIFICATION Spec
PROPERTIES
    TerminatedReleases
    TerminatedLoopEnds
CHECK_DEADLOCK FALSE
