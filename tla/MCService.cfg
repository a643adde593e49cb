SPECIFICATION FairSpec
CONSTANTS
    Searchers = {s1, s2}
    Users = {u1, u2}
    Headers <- MCHeaders
    Requests <- MCRequests
    MaxGen = 1
    Wait = 1
    Nil = nil
CHECK_DEADLOCK FALSE
INVARIANTS
    TypeOK
    OneFilePerAnswer
    AnswerOfItsVersion
    FailedNewLeavesOnlyV4
    ClosedLeavesNothing
PROPERTIES
    SearchAnswered
    ClosedReleasesAll
