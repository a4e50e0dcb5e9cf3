SPECIFICATION GatewaySpec
CONSTANTS
    x1 = x1
    x2 = x2
    Users = {x1, x2}
    Setups = {x1, x2}
    Requests = {x1, x2}
    Merchants = {x1, x2}
    Rows = {x1, x2}
    Schemas = {"s1"}
    Companies = {x1, x2}
    Operations = {"o1"}
    EvidenceLife = 1
    MaxArtifacts = 2
    MaxTime = 1
    Calls = {"c1"}
    Tools = {"start", "list", "status", "listing", "schema", "search", "pack", "skill", "disconnect"}
    Links = {"k1", "k2"}
    Entries = {"q1", "q2", "q3"}
    CapabilityOf <- MCCapabilityOf
    Provider <- MCProvider
    SkillSet <- MCSkillSet
    MaxWorldChanges = 1
    LegacyNames = {"a", "b"}
    V1Names = {"b", "c"}
    GeneratedNames = {"g"}
    MaxToggles = 3
    MaxRefreshes = 2
    Keys = {x1, x2}
    Verifications = {x1, x2}
    MaxCache = 1
    Cooldown = 2
    FetchTime = 1
    MaxRotations = 2
    LastSecond = 3
    Browsers = {"b1"}
    Tabs = {1, 2}
    Accounts = {"u1", "u2"}
    Authorizations = {"a1"}
    SessionLife = 2
    TokenLives = {1, 3}
    LastInstant = 3
    MaxSignIns = 2
SYMMETRY PairSymmetry
CHECK_DEADLOCK FALSE
INVARIANTS
    VerifiedAsBound
    SkillRunsHonest
    ToolsExact
    KeysCurrent
    ConsentCoherent
PROPERTIES
    SetupSafe
