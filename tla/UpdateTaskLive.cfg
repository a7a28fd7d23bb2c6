CONSTANTS
    b1 = b1
    b2 = b2
    Presses = {b1}
    NoRun = NoRun
    MaxFaults = 1
    MaxChecks = 1
SPECIFICATION Watched
PROPERTIES
    Unblocks
    Resolved
CHECK_DEADLOCK FALSE
