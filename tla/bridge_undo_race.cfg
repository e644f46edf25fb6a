\* A failed save of admit_messages or persist_fetch_outcomes is rolled back
\* while a worker runs.
CONSTANTS
    m1 = m1
    m2 = m2
    NoMsg = NoMsg
    Msgs = {m1, m2}
    ConvOf <- OwnTopics
    LocalSlash = {}
    GoalQueries = {}
    MaxWorkers = 2
    MaxAttempts = 2
    MaxRetries = 4
    MaxDead = 4
    MaxJobs = 4
    HardInterrupt = TRUE
    SaveFaultSites <- AllSites
    MaxFaults = 1
    MaxCrashes = 1
SPECIFICATION Spec
INVARIANTS
    HermesAtMostOnce
