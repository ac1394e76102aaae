SPECIFICATION Spec
CONSTANTS
    Requests = {r1, r2, r3}
    Payloads <- OnePayload
    Ids = {i1, i2}
    GasCap = 3
    MaxIntentGas = 2
    RateLimit = 2
    CbThreshold = 2
    CbTimeout = 1
    NonceTtl = 9
    MinuteTicks = 9
    MaxTime = 1
    None = None
SYMMETRY Symmetry
INVARIANTS
    LimitsAreExact
    DuplicateOnlyFromFallback
