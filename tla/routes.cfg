\* Two messages, two topics of the stream, one of them with two spellings, and one
\* elsewhere; two troubles: users move something, a request or a save fails, or the
\* bridge crashes.
CONSTANTS
    Msgs = {1, 2}
    Upper = Upper
    Lower = Lower
    Other = Other
    Topics <- Spellings
    Name <- OneName
    ZulipName <- OneName
    Sessions = {1, 2, 3}
    NoTopic = NoTopic
    Away = Away
    MaxAttempts = 2
    MaxTried = 2
    RequireMention = TRUE
    MaxTroubles = 2
SYMMETRY Symmetry
SPECIFICATION Spec
INVARIANTS
    TypeOK
    OwnersAgree
    ReservationHolds
    ReservationsEnd
    OneTurnPerSession
    WhereaboutsKnown
