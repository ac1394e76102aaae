SPECIFICATION RouteSpec
CONSTANTS
    TierOrder <- RtTiers
    CloudModels = {"k1:cloud", "k2:cloud", "q:cloud"}
    CodingModels = {"devstral"}
    Primary = "q:cloud"
    Reasoning = "qwen-max"
    Summarization = "qwen:7b"
    AllowedModels = {"qwen:7b"}
    Catalogs <- RouteCatalogs
    OllamaHosts <- RtHosts
    VramTtl = 2
    MaxRouteTime = 2
CHECK_DEADLOCK FALSE
INVARIANTS
    OnlyAllowedModels
