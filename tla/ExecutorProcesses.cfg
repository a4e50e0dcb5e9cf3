SPECIFICATION Spec
CONSTANTS
    t1 = t1
    t2 = t2
    p1 = p1
    p2 = p2
    r1 = r1
    r2 = r2
    None = None
    Home <- TwoProcesses
    Procs = {p1, p2}
    Tasks = {t1, t2}
    RequestIds = {r1, r2}
    Payloads = {"invoice"}
    Secrets = {"s1"}
    Versions = {1}
    Preflights = 0
    MaxRestarts = 1
    Cancellable = {"sending", "status"}
    Hashes <- Bindings
    Classes = {"create"}
    Connectors = {"peak"}
    Environments = {"sandbox"}
    TTL = 1
    MaxTime = 0
SYMMETRY ProcessSymmetry
INVARIANTS
    NoReplayAfterPossibleDispatch
    DispatchAudited
    OutcomeTruthful
CHECK_DEADLOCK FALSE
