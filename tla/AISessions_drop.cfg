SPECIFICATION AISpec
CONSTANTS
    Tasks = {t1}
    MaxAttempts = 2
    MaxDrops = 1
    MaxCrashes = 0
    MaxFaults = 0
    Unreachable = FALSE
    KeyMayMiss = FALSE
    Overlap = FALSE
PROPERTY SurvivesDrops
CHECK_DEADLOCK FALSE
