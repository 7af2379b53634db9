SPECIFICATION FloorSpec
CONSTANTS
    Presenters = {p1, p2}
    NoPresenter = NoPresenter
    Racing = TRUE
INVARIANTS DisabledNeverHolds ListenersAgree
CHECK_DEADLOCK FALSE
