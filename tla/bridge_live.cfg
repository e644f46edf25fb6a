\* Two conversations under fair scheduling, one of them with a local slash command; saves succeed.
CONSTANTS
    m1 = m1
    m2 = m2
    NoMsg = NoMsg
    Msgs = {m1, m2}
    ConvOf <- OwnTopics
    LocalSlash = {m1}
    GoalQueries = {}
    MaxWorkers = 2
    MaxAttempts = 2
    MaxRetries = 4
    MaxDead = 4
    MaxJobs = 4
    HardInterrupt = TRUE
    SaveFaultSites <- NoFaults
    MaxFaults = 0
    MaxCrashes = 1
SPECIFICATION FairSpec
PROPERTIES
    AdmittedIsRetired
