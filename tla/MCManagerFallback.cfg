CONSTANTS
    g1 = g1
    g2 = g2
    g3 = g3
    x = x
    y = y
    None = None
    Proc <- Two
    Name = {x, y}
    Requests <- FallbackRequests
    BootConfigs <- FallbackBoot
    Tasks = {"sync", "ack"}
    FaultyOps <- AllButSyncRuntime
    MaxGen = 4
    MaxFaults = 2
    MaxCrashes = 0
SYMMETRY SymmetricTwo
SPECIFICATION Spec
INVARIANTS FallbackFollowsConfig PendingCovers
