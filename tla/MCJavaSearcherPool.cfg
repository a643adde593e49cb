SPECIFICATION FairSpec
CONSTANTS
    Searchers = {s1, s2}
    Users = {u1, u2, u3, u4}
    Nobody = nobody
CHECK_DEADLOCK FALSE
INVARIANTS
    TypeOK
    OneHolder
    NoLostWakeup
    ClosedForGood
PROPERTIES
    IdleMeetsParked
    ImplementsLeases
