\* Turns that steering does not interrupt, and two records for a file of one.
SPECIFICATION FairSpec
CONSTANTS
    Msgs = {m1}
    Steers = {s1, s2}
    MaxRuns = 3
    MaxRecords = 1
    HardInterrupt = FALSE
CHECK_DEADLOCK FALSE
INVARIANTS
    NoRecordOfAFinishedTurn
    StoredIsReadable
PROPERTIES
    TurnEnds
