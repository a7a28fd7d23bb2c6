CONSTANTS
    r1 = r1
    r2 = r2
    r3 = r3
    a1 = a1
    a2 = a2
    a3 = a3
    Records = {r1, r2, r3}
    Day <- MCDay
    Retention = 1
    MaxSize = 1
    MaxDay = 1
    MaxInterrupts = 1
    Addresses = {a1, a2, a3}
    MaxAttempts = 2
    Window = 1
    FirstBan = 2
    MaxBan = 3
    Cap = 2
    MaxNow = 4
    MaxOverlap = 2
    StaleAge = 1
    RuleSets = {a1, a2}
    MaxVersion = 2
    MaxMark = 3
    MaxSwitches = 1
    Hosts = {a1, a2}
    MaxTargets = 2
    Ttl = 1
    MaxClock = 1
    MaxIds = 2
    Clients = {a1, a2}
    MaxUsageRows = 1
    MaxDailyRows = 2
    LastDay = 3
    MaxBilled = 2
    MaxChanges = 2
    Pages = {a1, a2}
    RelayPorts = {a1, a2}
    MaxGiven = 2
    MaxRequests = 2
SPECIFICATION PartsSpec
INVARIANTS
    TypesOK
    CountedOnce
    NoneLost
    BanStopsNewAttempts
    RefusedForAReason
    ReportIsHonest
    NewestRulesInForce
    RoundsDoNotOverlap
    RemovedTargetsForgotten
    NothingForgotten
    DaysAddUp
    OneRowPerDay
    PortsApart
PROPERTIES
    BanIsServed
    LandingIsFixed
    AnsweredIsSaved
SYMMETRY Symmetry
CHECK_DEADLOCK FALSE
