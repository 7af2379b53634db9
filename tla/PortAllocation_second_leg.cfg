CONSTANTS
    Pairs = {p1, p2, p3, p4, p5}
    Sessions = {s1, s2}
    Supervisors = {}
    MinFree = 2
    Attempts = 2
SPECIFICATION Spec
INVARIANT SecondLegNotRefused
