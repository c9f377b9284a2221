CONSTANTS
    g1 = g1
    g2 = g2
    g3 = g3
    x = x
    y = y
    None = None
    Proc <- Two
    Name = {x, y}
    Requests <- FaultRequests
    BootConfigs <- FaultBoot
    Tasks = {"sync", "ack", "watch", "terminate"}
    FaultyOps <- AllOps
    MaxGen = 2
    MaxFaults = 2
    MaxCrashes = 1
SYMMETRY SymmetricTwo
SPECIFICATION Spec
INVARIANTS TypeOK MemoryAndDiskAgree
PROPERTY Implements
CHECK_DEADLOCK FALSE
