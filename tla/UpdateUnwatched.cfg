CONSTANTS
    b1 = b1
    b2 = b2
    Presses = {b1}
    NoRun = NoRun
    MaxFaults = 0
    MaxChecks = 0
SPECIFICATION Unwatched
PROPERTY
    Unblocks
CHECK_DEADLOCK FALSE
