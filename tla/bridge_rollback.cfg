\* Any save may fail, those that are rolled back included, and the queues are small.
\* A full dead-letter queue stops the bridge for good: no deadlock check.
CONSTANTS
    m1 = m1
    m2 = m2
    NoMsg = NoMsg
    Msgs = {m1, m2}
    ConvOf <- OneTopic
    LocalSlash = {}
    GoalQueries = {m2}
    MaxWorkers = 2
    MaxAttempts = 2
    MaxRetries = 2
    MaxDead = 1
    MaxJobs = 2
    HardInterrupt = TRUE
    SaveFaultSites <- AllSites
    MaxFaults = 1
    MaxCrashes = 1
SPECIFICATION Spec
INVARIANTS
    TypeOK
    PendingIsDurable
    QueuesDisjoint
    QueuesBounded
CHECK_DEADLOCK FALSE
