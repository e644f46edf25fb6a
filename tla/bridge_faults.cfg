\* Three origins of one conversation: turns, steering and deferral.  One save fails,
\* except the two that are rolled back, and the bridge crashes once.
CONSTANTS
    m1 = m1
    m2 = m2
    m3 = m3
    NoMsg = NoMsg
    Msgs = {m1, m2, m3}
    ConvOf <- OneTopic
    LocalSlash = {}
    GoalQueries = {}
    MaxWorkers = 2
    MaxAttempts = 2
    MaxRetries = 6
    MaxDead = 6
    MaxJobs = 6
    HardInterrupt = TRUE
    SaveFaultSites <- WorkerSites
    MaxFaults = 1
    MaxCrashes = 1
SPECIFICATION Spec
SYMMETRY Symmetry
INVARIANTS
    HermesAtMostOnce
    UncertainSteeringKept
    RunIsRecorded
    ReplyAtMostOnce
    IInv
PROPERTIES
    NoSaveForgets
    TerminalIsRetained
    WritesAhead
