SPECIFICATION Spec
CONSTANTS
    MaxIP = 5
    BlockSize = 2
    A = A
    B = B
    Blank = blank
    Regions <- MCRegions
    EmptyRegion <- MCEmptyRegion
    FilterFields <- NoFilter
    Sources <- AnswersSources
CHECK_DEADLOCK FALSE
INVARIANT
    AnswersAsSource
