SPECIFICATION Spec
CONSTANTS
    Client = {c1, c2}
    Capacity = 1
    MaxPackets = 3
    Unsendable = {2}
INVARIANT CachedIsServed
PROPERTY Recovers
PROPERTY StoppedEnds
PROPERTY AnswersRelayed
CHECK_DEADLOCK FALSE
