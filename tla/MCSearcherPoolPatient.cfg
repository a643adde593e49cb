SPECIFICATION PatientSpec
CONSTANTS
    Searchers = {s1}
    Users = {u1}
    Nobody = nobody
CHECK_DEADLOCK FALSE
PROPERTY
    CloseEndsOnceAllClosed
