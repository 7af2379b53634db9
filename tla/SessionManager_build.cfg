CONSTANTS
    Pairs = {p1, p2, p3, p4}
    CallIds = {c1}
    Sess = {s1, s2}
    Handlers = {h1, h2}
    Monitor = monitor
    None = none
    MinFree = 0
SPECIFICATION Spec
INVARIANT ConstructionKeepsPairs
SYMMETRY Symmetry
CHECK_DEADLOCK FALSE
