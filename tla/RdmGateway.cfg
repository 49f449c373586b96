SPECIFICATION Spec
CONSTANTS
    Uid <- MCUid
    UidAll = 3
    TableSize = 2
INVARIANTS
    TableOK
PROPERTIES
    StandsInForResponders
