SPECIFICATION Spec
CONSTANTS
    m1 = m1
    s1 = s1
    n1 = n1
    t1 = t1
    p1 = p1
    v1 = v1
    NoOne = NoOne
    Requests = {m1, s1, t1, p1}
    Kind <- MCKind
    Faults = {"save", "restart", "core", "crash"}
    BoundByRequires = TRUE
INVARIANTS
    TypeOK
    AckedInForce
    StaleIsOwed
    FileMatchesState
PROPERTY KeepsPromise
CHECK_DEADLOCK FALSE
