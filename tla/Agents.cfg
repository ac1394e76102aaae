SPECIFICATION AgentsSpec
CONSTANTS
    NodeIds = {"n1", "n2", "n3"}
    MaxDeps = 2
    PlanPaths = {"p"}
    MaxTasks = 3
    Holders = {"h1", "h2"}
    MaxChanges = 3
    Agents = {"a", "b"}
    MaxMessages = 2
    MaxHandlers = 2
    MaxSlots = 2
    MaxDeadLetters = 1
    Subs = {"s1", "s2"}
    Mutators = {"m1", "m2"}
    Publishers = {"p"}
    MaxLists = 3
    WtManagers = {"m1", "m2"}
    WtBranches = {"b", "c"}
    WtTargets = {"main", "b"}
    MaxOwn = 2
    GlobalMax = 1
    BusAgents = {"a", "b"}
    GasBudget = 2
    ProseBudget = 4
    MaxStarts = 2
    MaxCalls = 5
    Voters = {"a", "b"}
    ArbiterQuorum = 2
    EscalationTimeout = 0
    MaxDisputes = 2
    MaxArbiterTime = 1
    MaxStops = 1
    BridgeWorkers = {w1, w2}
    BridgeAgents = {agent1, agent2}
    BridgeRoles <- NoRoles
    BridgeTools <- FileTools
    MaxNodes = 2
    MaxActions = 2
    AppRepos <- Repositories
    Installers = {"i1", "i2"}
    MaxTag = 1
    MaxAppCalls = 2
    ForgeTasks <- ForgedTasks
    MaxForged = 2
    StreamGas = 2
    MaxEvents = 1
    MaxAgentStarts = 2
    MaxFaults = 1
    WatchedAgents = {"a1", "a2"}
    FailureThreshold = 2
    TrailSize = 2
    MaxWatched = 3
    Budgets = {0, 1, 2}
    MaxGasUsed = 3
    EventTypes = {"t1", "t2"}
    MaxIngested = 13
    Capabilities = {"c1", "c2"}
    EglWindow = 3
    EntropyOf <- Entropies
    Convergence = 950
    Dominance = 10
    MaxBehaviors = 4
    MonitoredTools = {"x", "y"}
    MaxToolSteps = 6
    MaxStatements = 3
    Capsules <- SomeCapsules
    RtModules = {"a", "b"}
    RtPrograms <- ImportingPrograms
    RtGasLimit = 6
    HostFunctions <- RuntimeFunctions
    MaxExecutes = 2
    MaxRtEdits = 1
    CrewLists <- AskedCrews
    CrewRegistries <- SomeRegistries
    MaxDiscussions = 2
    MaxEdits = 1
    HatLists <- AskedHats
    HatAnswers <- SomeFindings
    DreamMin = 2
    MaxExperiences = 3
    MaxDreams = 2
    GambitAgents <- Selections
    MaxGambits = 2
SYMMETRY BridgeSymmetry
CHECK_DEADLOCK FALSE
INVARIANTS
    OrdersAreRight
    ToolsAreOnesOwn
    BusesReachTheirHandlers
    WorktreesAddUp
    AlertsSettle
PROPERTIES
    WorkIsCarriedOut
    RulingsAndReportsHold
