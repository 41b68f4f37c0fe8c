SPECIFICATION MCSpec
CONSTANTS
    Receivers = {r1}
    Parts = 1
    MaxConns = 2
    MaxFetches = 2
    MaxRestarts = 1
INVARIANTS
    PendingIsWatched
    NoCandidateWaits
PROPERTIES
    Delivers
    AttemptsEnd
\* Nobody need fetch again.
CHECK_DEADLOCK FALSE
