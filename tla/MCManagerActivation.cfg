CONSTANTS
    g1 = g1
    g2 = g2
    g3 = g3
    x = x
    y = y
    None = None
    Proc <- Three
    Name = {x}
    Requests <- RemoteRequests
    BootConfigs <- RemoteBoot
    Tasks = {"sync", "validate", "watch"}
    FaultyOps <- AllOps
    MaxGen = 3
    MaxFaults = 1
    MaxCrashes = 0
SYMMETRY SymmetricThree
SPECIFICATION Spec
INVARIANTS PublishersCurrent StatusOfActive WatchersOwned CheckingHasQuery
PROPERTY PublishesActive
