SPECIFICATION LocalSpec
CONSTANTS
    r1 = r1
    r2 = r2
    r3 = r3
    peak = peak
    flowaccount = flowaccount
    RequestIds = {r1, r2, r3}
    Hashes <- MCHashes
    Classes = {"create", "sensitive"}
    Connectors = {peak, flowaccount}
    Environments = {"sandbox", "production"}
    TTL = 1
    MaxTime = 1
    Procs = {"p1", "p2"}
    EventIds = {"e1", "e2", "e3"}
    Torn = "torn"
    Absent = Absent
    Unreadable = Unreadable
    MaxRows = 4
    Processes = {"p1", "p2"}
    Roots = {"r1"}
    Dirs = {"d1", "d2", "out"}
    Outside = "out"
    Profiles = {"a", "l"}
    PrivateProfiles = {"l"}
    Fields = {"f"}
    EnvName <- MCEnvName
    Secrets = {"s"}
    Empty = "empty"
    Records <- MCRecords
    PrivateHosts = {"lan"}
    MetadataHosts = {"meta"}
    InvalidHosts = {"bad"}
    Ops = {"bootstrap", "configure", "validate", "unvalidate", "save", "clear", "snapshot", "load"}
    MaxMeddling = 1
    MaxCalls = 2
    Runtimes = {"r1", "r2"}
    Actions = {"a", "b"}
    Versions = {"v1", "v2"}
    Snapshots <- MCSnapshots
    Imports <- MCImports
    LiveEnvironments = {"sandbox"}
    Contracts <- MCContracts
    BatchSize = 1
    MaxChunks = 1
    Deadline = 2
    EvidenceLives = {1}
    LastInstant = 1
    MaxRequests = 2
    MaxPublications = 1
CHECK_DEADLOCK FALSE
INVARIANTS
    OneBlockingRequestPerHash
    LedgerTrustworthy
    SecretsGuarded
    CatalogSound
PROPERTIES
    ExpiredIsInert
    HistoryIsImmutable
    ImplementsLedger
