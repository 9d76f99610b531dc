SPECIFICATION Spec
CONSTANTS
    a1 = a1  w1 = w1  w2 = w2  t1 = t1  t2 = t2
    Activities = {a1}
    Workers = {w1, w2}
    Tokens = {t1, t2}
    Hours = {1}
    Shapes <- SomeShapes
    Garbled = {}
    Quotes <- Quoted
    BadPoints = {4}
    Batch = 2
    MaxAttempts = 2
    MaxRequeues = 1
    MaxFailures = 1
INVARIANTS
    VolumeIsPublished
    OutageSettlesNothing
PROPERTIES
    HitsArePermanent
    PublishedStands
    EventuallySettled
CHECK_DEADLOCK FALSE
