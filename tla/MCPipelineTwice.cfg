SPECIFICATION PipelineSpec
CONSTANTS
    MaxIP = 3
    BlockSize = 2
    A = A
    B = B
    Blank = blank
    Regions <- MCRegions
    EmptyRegion <- MCEmptyRegion
    Sources <- TwiceSources
    Flags <- NoOptions
CHECK_DEADLOCK FALSE
INVARIANT
    NoLineTwice
