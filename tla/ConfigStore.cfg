SPECIFICATION Spec
CONSTANTS
    Magic = magic
    Erased = erased
    Garbage = garbage
    Words = 2
    Firmware <- MCFirmware
    MaxUpdates = 2
    MaxInstalls = 2
    MaxFailures = 1
INVARIANTS
    IdleIsSaved
    OneConfiguration
    FirmwareWhole
PROPERTIES
    RebootSaves
    SavingEnds
