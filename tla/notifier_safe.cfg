\* Two tasks share the outbox, the dead letters and the scans.
CONSTANTS
    Tasks = {t1, t2}
    MaxRev = 2
    Terminal <- AllRevs
    Modes <- AllModes
    MaxOutbox = 2
    MaxDead = 1
    MaxNotified = 2
    MaxAttempts = 2
    MaxWork = 1
    MaxFaults = 1
SYMMETRY Symmetry
SPECIFICATION Spec
INVARIANTS
    TypeOK
    IInv
    RepeatIsReviewed
    NotifiedWasSent
PROPERTIES
    NoOldNews
    UncertainIsKept
    AnnouncesWithReview
