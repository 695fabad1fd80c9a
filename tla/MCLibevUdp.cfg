SPECIFICATION Spec
CONSTANTS
    Client = {c1, c2}
    NoClient = NoClient
    Family = {v4, v6}
    ServerFamily = v4
    Capacity = 4
INVARIANT CachedOnce
INVARIANT OwnAnswers
PROPERTY FreedForAReason
PROPERTY QuietIsFreed
CHECK_DEADLOCK FALSE
