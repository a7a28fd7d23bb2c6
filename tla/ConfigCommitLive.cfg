SPECIFICATION FairSpec
CONSTANTS
    m1 = m1
    s1 = s1
    n1 = n1
    t1 = t1
    p1 = p1
    v1 = v1
    NoOne = NoOne
    Requests = {m1, n1, s1, v1}
    Kind <- MCKind
    Faults = {"check", "core"}
    BoundByRequires = FALSE
PROPERTIES
    SettingsApplyEnds
    CoreConverges
CHECK_DEADLOCK FALSE
