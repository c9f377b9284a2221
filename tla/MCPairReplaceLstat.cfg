CONSTANTS
    Bundles = {a, b}
    Empty = Empty
    Wanted = {a, b}
    FaultyOps = {"lstat"}
    MaxFaults = 1
    MaxCrashes = 0
SPECIFICATION Spec
INVARIANT FailureRestores
