SPECIFICATION IceSpec
CONSTANTS
    Paths = {direct, relay}
    Relays = {relay}
    Reflexive = {direct}
    Trickled = {direct}
    NoPath = nopath
    Renomination = TRUE
    Times = {"short", "window", "ice", "dtls"}
    MaxChecks = 2
    MaxControlled = 1

PROPERTY FailedIsFinal
CHECK_DEADLOCK FALSE
