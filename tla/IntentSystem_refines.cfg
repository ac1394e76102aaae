SPECIFICATION SysSpec
CONSTANTS
    Requests = {r1, r2}
    Payloads <- SysPayloads
    Ids = {i1, i2}
    GasCap = 2
    MaxIntentGas = 2
    RateLimit = 9
    CbThreshold = 9
    CbTimeout = 1
    NonceTtl = 9
    MinuteTicks = 9
    MaxTime = 0
    None = None
SYMMETRY SysSymmetry
PROPERTIES
    ImplementsDelivery
INVARIANTS
    RunIsAdmitted
