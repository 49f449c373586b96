SPECIFICATION Spec
CONSTANTS
    n1 = n1
    n2 = n2
    x = x
    y = y
    None = none
    Node = {n1, n2}
    Ip = {x, y}
    kAcdTicksPerSecond = 2
    kProbeWait = 1
    kProbeMin = 1
    kProbeMax = 2
    kProbeNum = 3
    kAnnounceWait = 2
    kAnnounceInterval = 2
    kAnnounceNum = 2
    kMaxConflicts = 2
    kRateLimitInterval = 2
    kDefendInterval = 3
    Scenarios <- MCScenarios
INVARIANTS
    NotShared
PROPERTIES
    TakenIsKept
    AddressObtained
CHECK_DEADLOCK FALSE
