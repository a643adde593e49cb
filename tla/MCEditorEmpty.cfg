SPECIFICATION Spec
CONSTANTS
    MaxIP = 3
    A = A
    B = B
    Regions = {A, B}
    EmptyRegion = none
    BadLine = bad
    OtherMax = 11
    Rank <- MCRank
    OtherLines <- NoOtherLines
    Sources <- EmptySources
    PutFiles <- NoPutFiles
INVARIANT
    QuitDropsNothing
