SPECIFICATION FairSpec
CONSTANTS
    Searchers = {s1, s2}
    Users = {u1, u2, u3}
    Nobody = nobody
CHECK_DEADLOCK FALSE
INVARIANTS
    TypeOK
    OneOwner
PROPERTIES
    CloseReleases
