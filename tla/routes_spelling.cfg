\* As in routes.cfg, with one trouble: the topic is renamed.
CONSTANTS
    Msgs = {1, 2}
    Upper = Upper
    Lower = Lower
    Other = Other
    Topics <- Spellings
    Name <- OneName
    ZulipName <- OneName
    Sessions = {1, 2, 3, 4}
    NoTopic = NoTopic
    Away = Away
    MaxAttempts = 2
    MaxTried = 2
    RequireMention = TRUE
    MaxTroubles = 1
SYMMETRY Symmetry
SPECIFICATION Spec
INVARIANT EveryClaimAgrees
