CONSTANTS
    MinPort = 10
    MaxPort = 20
    Floors = {0, 1, 2}
    CallerPorts = {8, 10, 11, 12, 14, 16, 18, 20}
    SeqSpace = 6
    RocSpace = 4
    WindowSize = 2
    Sent = 4
    InFlight = 3
    Late = 0
    Paths = {direct, relayed}
    Relays = {relayed}
    Reflexive = {direct}
    Trickled = {direct}
    NoPath = nopath
    Renomination = TRUE
    Times = {"short", "window"}
    MaxChecks = 2
    MaxControlled = 1
    Playbacks = {p1}
    NoId = noid
    Loop = loop
    Task = task
    Gap = 1
    MaxTime = 1
    MaxRequests = 3
    Callers = {m1, g1, g2}
    Moderators = {m1}
    Trunk = trunk
    Feedback = feedback
    Capacities = {0, 2}
    Overlap = FALSE
    Watchers = {w1, w2}
    Flavors = {f1, f2}
    Nothing = nothing
    AtOnce = TRUE
    Recordings = {r1}
    Parties = {caller, joiner}
    Joiners = {joiner}
    Keyed = {caller}
    Handlers = {h1, h2, h3}
    NoFork = nofork
    Indication = "On"
    Backup = TRUE
    SameCall = TRUE
    Serialized = TRUE
    SeqCount = 8
    MaxBuffer = 3
    GapLimit = 1
    TargetDelay = 1
    Ahead = 2
    Behind = 2
    LastPlace = 11
    Legs = {A, B}
    Digits = {five}
    Presses = {e1, e2}
    NoDigit = nodigit
    MinFrames = 2
    DedupWindow = 2
    PerFrame = 2
    StartsAt = {1}
    FrameKinds = {"key", "delta", "unmarked", "bad", "huge"}
    MaxFrames = 3
    SeqRange = 13
    FirstSeq = 10
    MaxReorder = 2
    MaxFps = 2
    MaxDecodeQueue = 2
    MaxDecoderErrors = 2
    Threads = {t1, t2}
    NoFrame = noframe
SPECIFICATION Spec
INVARIANTS
    NeverTwice
    ArrivalsAccepted
    SelectedVerified
    TimestampsAdvance
    DueInOrder
    GuestsModerated
    CapacityKept
    EncodersWatched
    DigitOnce
    FramesWhole
    KeyframeAsked
PROPERTIES
    ImplementsLedger
    NeverDraggedBack
    StopIsFinal
    PlayedInTurn
CHECK_DEADLOCK FALSE
