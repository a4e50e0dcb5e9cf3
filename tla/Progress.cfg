SPECIFICATION ProgressSpec
CONSTANTS
    p1 = p1
    p2 = p2
    t1 = t1
    t2 = t2
    t3 = t3
    Nobody = Nobody
    Procs = {p1, p2}
    Threads = {t1, t2, t3}
    Home <- Placement
    MaxNested = 1
    Versions = {"v1"}
    Sessions = {"s1", "s2"}
    Readers = {"c1"}
    MaxSessions = 1
    MaxChanges = 2
    MaxAttempts = 3
    RetryDelay = 1
    Seconds = 4
CHECK_DEADLOCK FALSE
INVARIANT LockSound
PROPERTIES
    CallersServed
    ToolsFollowCatalog
    CallAccountedFor
