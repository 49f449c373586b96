SPECIFICATION Spec
CONSTANTS
    NumPorts = 2
    x = x
    y = y
    Address = {x, y}
    NoIp = 0
    FirstPhysical = 256
    MergeTimeout = 2
    SyncTimeout = 1
    DataLossTimeout = 2
    MaxLevel = 1
    Slots = 2
    Scenarios <- MCScenarios
INVARIANTS
    MergingTruthful
PROPERTIES
    OutputIsMerge
    StaleOnce
    RefusedJustly
