CONSTANTS
    kPorts = 2
    Address <- MCOwnAddress
    Networks <- MCNetworks
SPECIFICATION NodeSpec
INVARIANT StartedSends
