SPECIFICATION SysFairSpec
CONSTANTS
    Requests = {r1}
    Payloads <- SysPayloads
    Ids = {i1}
    GasCap = 2
    MaxIntentGas = 2
    RateLimit = 9
    CbThreshold = 1
    CbTimeout = 1
    NonceTtl = 9
    MinuteTicks = 9
    MaxTime = 1
    None = None
PROPERTIES
    Answered
    AcceptedIsHandled
