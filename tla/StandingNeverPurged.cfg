SPECIFICATION FairSpec
CONSTANTS
    g1 = g1
    k1 = k1
    k2 = k2
    k3 = k3
    k4 = k4
    Agents = {g1}
    Activities = {k1, k3}
    Sweepers = {"worker"}
    Owner <- OneOwner
    Shape <- TwoAlike
    LaunchShaped = {}
    Threshold = 2
    MaxCount = 3
PROPERTIES
    RevokedIsPurged
