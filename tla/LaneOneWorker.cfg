SPECIFICATION FairSpec
CONSTANTS
    a1 = a1
    a2 = a2
    w1 = w1
    w2 = w2
    Activities = {a1, a2}
    Workers = {w1}
    LaunchShaped = {a2}
    Uncorroborated = {}
    Endpoints = {1, 2, 3}
    Lagging = {1}
    EndpointsNeeded = 2
    PossibleFates = {"absent", "native_off"}
    Batch = 1
    MaxRequeues = 1
    MaxFailures = 1

    
PROPERTIES
    
    EventuallyDecided
CHECK_DEADLOCK FALSE
