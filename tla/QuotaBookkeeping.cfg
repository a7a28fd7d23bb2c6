CONSTANTS
    c1 = c1
    c2 = c2
    Clients = {c1, c2}
    Terms <- MCTerms
    FirstTerms <- MCFirstTerms
    DaysPerMonth = 2
    MaxDay = 2
    MaxBytes = 2
    MaxEdits = 0
SPECIFICATION Spec
PROPERTY BookkeepingKeepsConfig
CHECK_DEADLOCK FALSE
