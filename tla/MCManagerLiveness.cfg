CONSTANTS
    g1 = g1
    g2 = g2
    g3 = g3
    x = x
    y = y
    None = None
    Proc <- Two
    Name = {x}
    Requests <- HealthyRequests
    BootConfigs <- HealthyBoot
    Tasks = {"sync", "validate", "watch", "ack"}
    FaultyOps = {}
    MaxGen = 2
    MaxFaults = 0
    MaxCrashes = 0
SPECIFICATION FairSpec
INVARIANT PendingCovers
PROPERTY EveryJobEnds
