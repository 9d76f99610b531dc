SPECIFICATION Spec
CONSTANTS
    k1 = k1  k2 = k2  t1 = t1  q1 = q1  q2 = q2  none = none
    None = none
    Keys = {k1, k2}
    Tokens = {t1}
    Requests = {q1, q2}
    Batches <- PostedBatches
    MaxFailures = 2
INVARIANTS
    AnsweredIsStored
    AdmittedIsStorable
    ConfirmedIsQueued
PROPERTIES
    TerminalStands
    EventuallyAnswered
CHECK_DEADLOCK FALSE
