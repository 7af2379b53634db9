CONSTANTS
    Pairs = {p1, p2}
    ApiRequests = {r1, r2}
    Hangup = hangup
    Parties = {k1, k2}
    Announcements = {b1}
    NoParty = noparty
    MinFree = 0
    Overlapping = TRUE
SPECIFICATION SupervisionSpec
INVARIANTS RelayRestored OneSupervisor PortGoesBack
CHECK_DEADLOCK FALSE
