CONSTANTS
    g1 = g1
    g2 = g2
    g3 = g3
    x = x
    y = y
    None = None
    Proc <- Three
    Name = {x}
    Requests <- RemoteRequests
    BootConfigs <- RemoteBoot
    Tasks = {"sync", "terminate"}
    FaultyOps = {}
    MaxGen = 3
    MaxFaults = 0
    MaxCrashes = 0
SYMMETRY SymmetricThree
SPECIFICATION Spec
PROPERTY PublishesActive
CHECK_DEADLOCK FALSE
