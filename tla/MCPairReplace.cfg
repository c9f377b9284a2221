CONSTANTS
    Bundles = {a, b}
    Empty = Empty
    Wanted = {a, b}
    FaultyOps <- AllButLstat
    MaxFaults = 3
    MaxCrashes = 1
SPECIFICATION FairSpec
INVARIANTS TypeOK NothingLost ReportIsTrue
PROPERTY Recovers
