SPECIFICATION EnginesSpec
CONSTANTS
    EntryModes = {"hlf", "raw"}
    MaxEntries = 4
    None = None
    ProbeInterval = 3
    FailedTtl = 2
    DeadTtl = 6
    WindowSize = 6
    GasCap = 4
    MaxMacroDepth = 2
    ProgramLength = 2
    DaemonCallers = {"c1", "c2"}
    MaxSpawns = 2
    ShellBurst = 2
    TokenTicks = 2
    MaxShellTime = 4
    MaxBrowserSteps = 4
    MaxTrayStarts = 3
    Features = {"desktop", "models", "programs"}
    UserFiles <- EnginesUserFiles
    MaxToolSteps = 3
CHECK_DEADLOCK FALSE
INVARIANTS
    AckedWasRun
    RunsInOrderOnce
    GasIsMetered
PROPERTIES
    EveryEntryDelivered
    CanaryIsTruthful
    ProgramEnds
    ProcessesAreKept
