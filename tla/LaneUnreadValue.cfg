SPECIFICATION Spec
CONSTANTS
    a1 = a1
    a2 = a2
    w1 = w1
    w2 = w2
    Activities = {a1}
    Workers = {w1}
    LaunchShaped = {}
    Uncorroborated = {}
    Endpoints = {1, 2, 3}
    Lagging = {1}
    EndpointsNeeded = 2
    PossibleFates = {"unlisted", "absent", "contradicted", "native_off", "undecodable",
                     "proven_full", "proven_basic"}
    Batch = 1
    MaxRequeues = 2
    MaxFailures = 1
INVARIANTS
    FullMeansProven
CHECK_DEADLOCK FALSE
