\* An uncertain POST, a newer revision behind it, and two faults.
CONSTANTS
    Tasks = {t1}
    MaxRev = 2
    Terminal <- AllRevs
    Modes <- Serving
    MaxOutbox = 1
    MaxDead = 1
    MaxNotified = 1
    MaxAttempts = 2
    MaxWork = 1
    MaxFaults = 2
SPECIFICATION FairSpec
PROPERTIES
    TerminalIsSettled
