CONSTANTS
    g1 = g1
    g2 = g2
    g3 = g3
    x = x
    y = y
    None = None
    Proc <- Two
    Name = {x}
    Requests <- OffRequests
    BootConfigs <- OffBoot
    Tasks = {"sync"}
    FaultyOps = {"saveRuntime"}
    MaxGen = 2
    MaxFaults = 1
    MaxCrashes = 0
SYMMETRY SymmetricTwo
SPECIFICATION Spec
PROPERTY BootKeepsConfig
