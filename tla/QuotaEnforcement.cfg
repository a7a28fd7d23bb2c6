CONSTANTS
    c1 = c1
    c2 = c2
    Clients = {c1}
    Terms <- MCTerms
    FirstTerms <- MCFirstTerms
    DaysPerMonth = 2
    MaxDay = 2
    MaxBytes = 2
    MaxEdits = 2
SPECIFICATION FairSpec
INVARIANTS
    TypeOK
    DisagreementIsOwed
PROPERTY ServesTheActive
CHECK_DEADLOCK FALSE
