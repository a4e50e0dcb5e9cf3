SPECIFICATION FairSpec
CONSTANTS
    t1 = t1
    t2 = t2
    p1 = p1
    p2 = p2
    r1 = r1
    r2 = r2
    None = None
    Home <- OneProcess
    Procs = {p1}
    Tasks = {t1, t2}
    RequestIds = {r1}
    Payloads = {"invoice"}
    Secrets = {"s1", "s2"}
    Versions = {1, 2}
    Preflights = 1
    MaxRestarts = 0
    Cancellable = {"auth", "probing", "sending", "status"}
    Hashes <- Bindings
    Classes = {"create"}
    Connectors = {"peak"}
    Environments = {"sandbox"}
    TTL = 1
    MaxTime = 1
INVARIANTS
    ExecutionGuarded
PROPERTIES
    TasksReturn
CHECK_DEADLOCK FALSE
