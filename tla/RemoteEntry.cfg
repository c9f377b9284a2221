CONSTANTS
    Bundles = {b1, b2}
    None = None
    Operators = {o1}
    Others = {"Healthy", "Disabled"}
    Stoppers = {s1, s2}
    MaxTasks = 1
    MaxChanges = 1
    MaxFaults = 1
SPECIFICATION FairSpec
INVARIANTS TypeOK HealthyIsInstalled ErrorHasCause
PROPERTIES IsManaged StopEnds Settles
CHECK_DEADLOCK FALSE
