CONSTANTS
    Instances = {i1, i2}
    None = none
    LockTTL = 3
    HbEvery = 2
    MaxErrors = 1
    MaxCrashes = 2
    MaxRequests = 1
    Serialized = TRUE
SPECIFICATION Spec
INVARIANTS
    PrimaryOwnsLock
    FailoverIsPrompt
PROPERTY FailoverHappens
