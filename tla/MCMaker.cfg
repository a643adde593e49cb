SPECIFICATION Spec
CONSTANTS
    MaxIP = 5
    BlockSize = 2
    A = A
    B = B
    Blank = blank
    Regions <- MCRegions
    EmptyRegion <- MCEmptyRegion
    FilterFields <- NoFilter
    Sources <- MCSources
CHECK_DEADLOCK FALSE
INVARIANTS
    TypeOK
    SearchFinds
    NeverWrongRegion
    VectorDelimitsBlocks
