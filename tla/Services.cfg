SPECIFICATION ServicesSpec
CONSTANTS
    ToolRepos <- Repos
    Commands = {p1, p2}
    Posix = TRUE
    MaxCommands = 3
    VmPrograms <- Progs
    GasLimits = {9, 40}
    Threads = {"t1", "t2"}
    Backends = {"apikeeper", "docker_orchestrator"}
    CbTimeout = 2
    MaxHostTime = 3
    DispatchCalls = {"c1", "c2"}
    Strategies = {"failover", "round_robin", "primary_only"}
    OpenRouterKeys = {TRUE, FALSE}
    MaxRounds = 4
    MaxPanics = 2
    Window = 2
    MaxTime = 5
    MaxRecorded = 4
    AutoExpire = 1
    MaxVetoTime = 4
    MaxDecisions = 2
    Cycles = {"c1", "c2"}
    Jobs = {"j1"}
    MaxSnapshots = 3
    RagThreads = {"t1", "t2"}
    RagContents = {"x"}
    RagLevels = 2
    HotCapacity = 1
    MaxRagCalls = 3
    Writers = {"w1", "w2"}
    Payloads = {"e"}
    MaxEntries = 5
    RuleIds = {"r1"}
    LedgerChanges <- Changes
    MaxProposals = 2
    MaxAudit = 3
    MaxVersion = 3
    VaultUsers = {"u1", "u2"}
    VaultKeys = {"k1", "k2"}
    Passphrases = {"p"}
    MaxOpens = 2
    AgentNames = {"a"}
    MaxSvids = 2
    TierOrder <- RtTiers
    CloudModels = {"k1:cloud", "k2:cloud", "q:cloud"}
    CodingModels = {"devstral"}
    Primary = "q:cloud"
    Reasoning = "qwen-max"
    Summarization = "qwen:7b"
    AllowedModels = {"qwen:7b"}
    Catalogs <- RouteCatalogs
    OllamaHosts <- RtHosts
    VramTtl = 1
    MaxRouteTime = 1
    MaxIntents = 2
    MaxSeconds = 1
    MaxFacts = 4
    PkSpecs <- Modules
    PkProcesses = {pm1, pm2}
    MaxPushes = 2
    MaxPkCalls = 3
    GwModels = {"g1"}
    GwFallback = "c1"
    GwProvider <- GatewayProviders
    GwKeys <- RotatedKeys
    GwWindow = 2
    MaxGwTime = 2
    MaxGwRequests = 5
    GbFunctions <- GatewayFunctions
    Syncers = {"s1", "s2"}
    MaxSyncs = 2
    MaxPolls = 2
    JanusCallers = {"j1", "j2"}
    MaxJanusCalls = 3
    MaxWorkers = 2
    MoTexts <- MaestroTexts
    MoThreshold = 70
    MoAnswers <- ModelAnswers
    HistoryLimit = 1
    MaxClassified = 2
    MrOthers <- OtherProfiles
    MrRouters <- MaestroRouters
    MaxRouterCalls = 2
SYMMETRY ProcessSymmetry
CHECK_DEADLOCK FALSE
INVARIANTS
    InstallsMatch
    VmRunsTheSource
    FailuresAreHandled
    CatalogIsConsistent
    CredentialsAreKept
PROPERTIES
    GatesActInTime
    MemoriesAreKept
    AuditIsComplete
    RequestsAreRouted
