SPECIFICATION Spec
CONSTANTS
    Requests = {r1, r2}
    Payloads <- AllPayloads
    Ids = {i1}
    GasCap = 3
    MaxIntentGas = 2
    RateLimit = 1
    CbThreshold = 1
    CbTimeout = 1
    NonceTtl = 1
    MinuteTicks = 1
    MaxTime = 2
    None = None
SYMMETRY Symmetry
INVARIANTS
    GasConserved
    PublishedIsAdmitted
    RateKeyLeaks
    NonceExclusive
    ResponseTellsTruth
