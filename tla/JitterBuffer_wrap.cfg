CONSTANTS
    SeqCount = 8
    MaxBuffer = 3
    GapLimit = 1
    TargetDelay = 1
    Ahead = 2
    Behind = 2
    LastPlace = 11
SPECIFICATION JitterSpec
PROPERTY OldestDropped
CHECK_DEADLOCK FALSE
