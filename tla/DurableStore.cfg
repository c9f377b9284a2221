CONSTANTS
    Data = {a, b, c}
    None = None
    FaultyOps <- Ops
    MaxFaults = 4
    MaxCrashes = 1
SPECIFICATION Spec
INVARIANTS TypeOK NothingLost BackupRetained
PROPERTY Implements
