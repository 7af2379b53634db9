CONSTANTS
    Instances = {i1, i2}
    None = none
    LockTTL = 3
    HbEvery = 2
    MaxErrors = 1
    MaxCrashes = 0
    MaxRequests = 0
    Serialized = TRUE
SPECIFICATION Spec
INVARIANT OnePrimary
