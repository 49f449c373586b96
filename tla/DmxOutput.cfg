SPECIFICATION Spec
CONSTANTS
    NumPorts = 2
    a = a
    b = b
    Value = {a, b}
    Zero = zero
    FullOn = full
    Scenarios <- MCScenarios
INVARIANTS
    FrameWhole
    LineNotShared
    StoppedIsQuiet
    StartedIsOnLine
    EnabledOnce
PROPERTIES
    CallsReturn
    NewDataSent
