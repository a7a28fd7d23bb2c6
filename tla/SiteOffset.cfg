CONSTANTS
    r1 = r1
    r2 = r2
    r3 = r3
    Records = {r1, r2}
    Day <- MCDay
    Retention = 1
    MaxSize = 1
    MaxDay = 0
    MaxInterrupts = 0
SPECIFICATION FairSpec
PROPERTY OffsetRecovers
CHECK_DEADLOCK FALSE
