SPECIFICATION Spec
CONSTANTS
    Searchers = {s1, s2}
    Users = {u1}
    Nobody = nobody
CHECK_DEADLOCK FALSE
INVARIANT
    CloseLeavesNoneIdle
