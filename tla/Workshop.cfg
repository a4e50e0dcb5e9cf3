SPECIFICATION WorkshopSpec
CONSTANTS
    Names = {"x"}
    EnvSavers = {"erpRead", "runFlow"}
    Runners <- MCRunners
    Files = {1}
    Orders <- MCOrders
    MaxCommands = 3
    MaxDepth = 2
    MaxIterations = 1
    MaxRetries = 1
    Actions = {1, 2, 3}
    Fixtures = {1, 2}
    MaxTotalRequests = 4
    MaxMutations = 1
    MaxReadAttempts = 2
    MaxOpenings = 2
    Manifests <- MCManifests
    Registries <- MCRegistries
    Clients = {"c1", "c2"}
    Registered = {"c1"}
    Modes = {"api_driver"}
    Companies = {"k1"}
    Evidence = {"good", "bad"}
    Outcome <- MCOutcome
    Flows = {"f1"}
    Ops = {"connect", "link", "setup", "validate", "unlink", "skill", "invite", "upload", "save", "run"}
    MaxCalls = 2
    MaxFlips = 1
    ProviderActionIds = {"a", "w"}
    Mutations = {"w"}
    Capabilities = {"a", "w", "x"}
    Catalogs <- MCCatalogs
    SkillSet <- MCSkillSet
    Observed = {"observed", "not_authorized"}
    MaxProfileChanges = 2
    Inputs <- MCInputs
    Policies <- MCPolicies
    Clean <- MCClean
    Fold <- MCFold
    BadTexts = {"bad"}
    Publishers = {"p1", "p2"}
    Catalog = {1, 2}
    Reports <- MCReports
    Earlier <- MCEarlier
    Roles = {"release_reviewer", "policy_reviewer"}
    BatchSize = 1
    Pieces = 1
    Texts = {"t1", "t2"}
    LastInstant = 1
    MaxMishaps = 1
    MaxTasks = 2
    Hosts = {"codex", "claude"}
    Issuers = {"i1", "i2"}
    RawFiles = {"f1", "f2"}
    Contents = {"c1", "c2"}
    Trials <- MCTrials
    MaxAge = 1
    MaxHour = 2
    Tools <- MCTools
    Services <- MCServices
    Accounts = {"a1", "a2"}
    MaxAttempts = 2
    MaxOutside = 2
CHECK_DEADLOCK FALSE
INVARIANTS
    WorkspaceCoherent
    RoutingSound
    ReconciliationExact
    EvidenceStands
    GateSound
PROPERTIES
    FlowContained
    QualificationSound
