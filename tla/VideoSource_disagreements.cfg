CONSTANTS
    PerFrame = 2
    StartsAt = {1, 2}
    FrameKinds = {"key", "delta"}
    MaxFrames = 3
    SeqRange = 13
    FirstSeq = 10
    MaxReorder = 2
    MaxFps = 3
    MaxDecodeQueue = 3
    MaxDecoderErrors = 2
    Threads = {t1, t2}
    NoFrame = noframe
SPECIFICATION SourceSpec
INVARIANT FramesWhole
PROPERTY ReferencesDecoded
CHECK_DEADLOCK FALSE
