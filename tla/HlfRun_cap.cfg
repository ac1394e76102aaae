SPECIFICATION HlfSpec
CONSTANTS
    GasCap = 4
    MaxMacroDepth = 2
    ProgramLength = 2
CHECK_DEADLOCK FALSE
INVARIANTS
    HardGasCap
