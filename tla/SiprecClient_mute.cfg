CONSTANTS
    Recordings = {r1}
    Parties = {caller, joiner}
    Joiners = {joiner}
    Keyed = {caller}
    Handlers = {h1, h2}
    NoFork = nofork
    Indication = "On"
    Backup = TRUE
    SameCall = TRUE
    Serialized = TRUE
SPECIFICATION SiprecSpec
PROPERTY ConsentKept
CHECK_DEADLOCK FALSE
