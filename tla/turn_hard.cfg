SPECIFICATION Spec
CONSTANTS
    Msgs = {m1, m2}
    Steers = {s1}
    MaxRuns = 2
    MaxRecords = 1
    HardInterrupt = TRUE
SYMMETRY Symmetry
INVARIANTS
    TypeOK
    StoppedMeansDead
    InterruptedWasAsked
    InterruptIsHonoured
CHECK_DEADLOCK FALSE
