SPECIFICATION Spec
CONSTANTS
    MaxIP = 3
    A = A
    B = B
    Regions = {A, B}
    EmptyRegion = none
    BadLine = bad
    OtherMax = 11
    Rank <- MCRank
    OtherLines <- MCOtherLines
    Sources <- MCSources
    PutFiles <- MCPutFiles
CHECK_DEADLOCK FALSE
CONSTRAINT Short
INVARIANTS
    TypeOK
    Continuous
    NoSilentLoss
    CutSaveUsable
PROPERTIES
    ImplementsTable
    FileApplied
