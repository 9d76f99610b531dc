SPECIFICATION Spec
CONSTANTS
    q1 = q1  q2 = q2  none = none
    Requests = {q1, q2}
    None = none
    Limit = 2
    WindowSec = 2
    RetainSec = 3
    Second = 2
    MaxWait = 2
    MaxTime = 8
INVARIANTS
    WindowRespected
    RetryAfterSuffices
CHECK_DEADLOCK FALSE
