CONSTANTS
    b1 = b1
    b2 = b2
    Presses = {b1, b2}
    NoRun = NoRun
    MaxFaults = 1
    MaxChecks = 1
SPECIFICATION Spec
INVARIANTS
    TypeOK
    OneUpdater
    BlocksWhileWorking
SYMMETRY Symmetry
CHECK_DEADLOCK FALSE
