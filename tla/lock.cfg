\* Three processes that crash, release and start again, two times together, and
\* one interference with the anchor.
CONSTANTS
    Procs = {p1, p2, p3}
    MaxInode = 8
    MaxEnds = 2
    MaxIntrusions = 1
SPECIFICATION FairSpec
INVARIANTS
    MutualExclusion
    ColdStart
PROPERTIES
    LockIsTaken
