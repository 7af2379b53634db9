SPECIFICATION EncodersSpec
CONSTANTS
    Watchers = {w1, w2}
    Flavors = {f1, f2}
    Nothing = Nothing
    AtOnce = TRUE
INVARIANT WatchersServed
PROPERTY PliReachesEncoder
CHECK_DEADLOCK FALSE
