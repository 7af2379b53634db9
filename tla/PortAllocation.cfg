CONSTANTS
    Pairs = {p1, p2, p3, p4}
    Sessions = {s1}
    Supervisors = {v1}
    MinFree = 1
    Attempts = 2
SPECIFICATION Spec
INVARIANTS
    OneOwner
    BandKept
PROPERTY AllocationReturns
