SPECIFICATION PageSpec
CONSTANTS
    q1 = q1  q2 = q2  none = none
    Requests = {q1, q2}
    Nobody = none
    Ttl = 2
    MaxClock = 4
    MaxFailures = 1
INVARIANTS
    PageIsFresh
PROPERTIES
    AnsweredWithinTtl
SYMMETRY RequestSymmetry
CHECK_DEADLOCK FALSE
