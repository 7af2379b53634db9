CONSTANTS
    Instances = {i1, i2}
    None = none
    LockTTL = 3
    HbEvery = 2
    MaxErrors = 0
    MaxCrashes = 1
    MaxRequests = 1
    Serialized = TRUE
SPECIFICATION Spec
INVARIANT VipFollowsPrimary
PROPERTY PrimaryReturns
