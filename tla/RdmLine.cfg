SPECIFICATION LineSpec
CONSTANTS
    TopBit = 4
    Halving <- MCHalving
    TableSize = 4
    UnmuteCounter = 3
    MuteCounter = 10
    DiscoveryCounter = 3
    QuikfindCounter = 5
    QuikfindDiscoveryCounter = 5
    Scenarios <- MCScenarios
CHECK_DEADLOCK FALSE
INVARIANTS
    NoDeviceLost
    NoDeviceInvented
    NoDeviceSilenced
    StackHasRoom
    BranchesDisjoint
PROPERTIES
    DiscoveryEnds
    ActsAsJob
