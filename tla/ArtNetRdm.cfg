CONSTANTS
    kPorts = 2
    Address <- MCOwnAddress
    Networks <- MCNetworks
SPECIFICATION NodeSpec
VIEW MCView
INVARIANT QuietLine StartedSendsUnsynced ReportTruthful
PROPERTY SyncHasData
