SPECIFICATION PipelineSpec
CONSTANTS
    MaxIP = 3
    BlockSize = 2
    A = A
    B = B
    Blank = blank
    Regions <- MCRegions
    EmptyRegion <- MCEmptyRegion
    Sources <- MCSources
    Flags <- MCFlags
CHECK_DEADLOCK FALSE
INVARIANTS
    TypeOK
    OutputRewritten
    NothingForeign
    DatabaseOfSource
    GenAccepts
    BenchTells
