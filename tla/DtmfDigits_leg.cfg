CONSTANTS
    Legs = {A, B}
    Digits = {five}
    Presses = {e1, e2}
    NoDigit = nodigit
    MinFrames = 2
    DedupWindow = 2
SPECIFICATION DtmfSpec
INVARIANT DigitOfItsLeg
CHECK_DEADLOCK FALSE
