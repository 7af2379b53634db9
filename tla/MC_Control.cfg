CONSTANTS
    Users = {u1, u2, u3}
    MaxId = 3
    MaxTxns = 2
    MaxNotes = 2
    MaxRetransmits = 2
    LateDatagrams = FALSE
    PromptTick = TRUE
    Presenters = {s1, s2}
    NoPresenter = nopresenter
    Racing = TRUE
    Pairs = {p1, p2}
    ApiRequests = {r1}
    Hangup = hangup
    Parties = {k1, k2}
    Announcements = {b1}
    NoParty = noparty
    MinFree = 0
    Overlapping = FALSE
    Tasks = {t1, t2}
    MaxAttempts = 2
    MaxDrops = 2
    MaxCrashes = 1
    MaxFaults = 1
    Unreachable = TRUE
    KeyMayMiss = TRUE
    Overlap = FALSE
    Calls = {c1, c2}
    PortPairs = {q1, q2}
    StandbyRange = {q1, q2}
    NoPair = nopair
    MaxNewCalls = 1
SPECIFICATION Spec
INVARIANTS
    OneRequestPerUser
    RequestersKnown
    SubscribersInformed
    ExecutedOnce
    NoNoteLost
    RelayRestored
    PortGoesBack
    NoneForgotten
PROPERTIES
    ImplementsDelivery
    HeardOrBroken
    FloorComesFree
    PlaybackEndsWithCall
    ReconnectionEnds
    CallsCarriedOver
CHECK_DEADLOCK FALSE
