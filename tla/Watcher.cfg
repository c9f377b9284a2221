CONSTANTS
    Paths = {cert, key}
    Timers = {t1, t2, t3}
    Stoppers = {s1, s2}
    None = None
    MaxVersion = 1
SPECIFICATION FairSpec
INVARIANTS TypeOK WaitGroupExact QuietAfterStop NoChangeLost
PROPERTIES IsManaged ChangesAreRead StopReturns
CHECK_DEADLOCK FALSE
