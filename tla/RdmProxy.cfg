SPECIFICATION ProxySpec
CONSTANTS
    TopBit = 4
    TableSize = 7
    UnmuteCounter = 3
    MuteCounter = 10
    DiscoveryCounter = 3
    QuikfindCounter = 5
    QuikfindDiscoveryCounter = 5
    Proxied <- MCProxied
    LossBudget = 1
INVARIANTS
    ProxiedAllFound
PROPERTIES
    ProxyDiscoveryEnds
CHECK_DEADLOCK FALSE
